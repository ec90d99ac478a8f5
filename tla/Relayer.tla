------------------------------ MODULE Relayer ------------------------------
(***************************************************************************)
(* The relayer: its HTTP handlers, the nonce-pool command and the cluster, *)
(* step by step in any order.                                              *)
(***************************************************************************)
EXTENDS OrdersService

CONSTANT
  Pool              \* accounts in the pool at the start

ASSUME RelayerAssumption == Pool \subseteq Nonces

(* History: what has happened, as far as the properties have to name it.  *)
(* No step of the program reads these.                                     *)
VARIABLES
  overlapped,       \* the orders two submissions were past the policy of at once
  interrupted,      \* the orders a submission of which met a fault
  refused,          \* the orders the node has shown an error of
  loose             \* the accounts that were read twice or went back too early

history == <<overlapped, interrupted, refused, loose>>

vars == <<chainVars, faults, poolVars, orderVars, req, history>>

Init ==
  /\ ClusterInit(Pool)
  /\ PoolInit(Pool)
  /\ OrdersInit
  /\ overlapped = {} /\ interrupted = {} /\ refused = {} /\ loose = {}

(* The cluster executes what was sent, on the nonce its message names.     *)
Execute(o, i) ==
  LET n == order[o].nonceAccount
      v == order[o].nonceValue
  IN  /\ Process(o, i, n, v) \/ Confirm(o, i, n, v) \/ Abandon(o, i, n, v) \/ Land(o, i, n, v)
      /\ UNCHANGED <<poolVars, orderVars, req>>

(* The cluster has executed a transaction of the order.                    *)
Executed(o) == \E i \in 1 .. order[o].messages : tx[o][i] \in {"ok", "err"}

(* The create handler of o has found n free and has not marked it yet.     *)
Choosing(o, n) ==
  reservation[o].nonce = n /\ reservation[o].pc \in {"reading", "dropping", "marking"}

(* The three ways an account gets loose: two creates choose it at once,    *)
(* the release command frees it, or it goes back for an error that was     *)
(* shown before it was final.                                              *)
ChosenTwice(n) == \E o, p \in Orders : o # p /\ Choosing(o, n) /\ Choosing(p, n)

FreedByCommand(n) == cli' # cli /\ n \in inUse \ inUse'

FreedEarly(n) ==
  \E r \in Requests :
    /\ Release(r) /\ n \in inUse \ inUse'
    /\ req[r].order \in refused /\ ~Executed(req[r].order)

Remember ==
  /\ overlapped' = overlapped \cup {o \in Orders : \E r, q \in Submitting(o)' : r # q}
  /\ interrupted' = interrupted \cup {o \in Orders :
                       faults' # faults /\ \E r \in Submitting(o) : req'[r] # req[r]}
  /\ refused' = refused \cup {o \in Orders :
                               \E i \in MessageIndex : tx'[o][i] \in {"seen_err", "err"}}
  /\ loose' = loose \cup {n \in Nonces :
                           ChosenTwice(n)' \/ FreedByCommand(n) \/ FreedEarly(n)}

Next ==
  \/ \E o \in Orders : \/ Create(o) /\ Remember
                       \/ CreateThrows(o) /\ Remember
                       \/ GrowOld(o) /\ Remember
  \/ \E r \in Requests, o \in Orders : \/ SubmitRead(r, o) /\ Remember
                                       \/ ReadStale(r, o) /\ Remember
                                       \/ FindRead(r, o) /\ Remember
  \/ \E r \in Requests : \/ Handle(r) /\ Remember
                         \/ Throws(r) /\ Remember
  \/ RelayerCrashes /\ Remember
  \/ Cli /\ UNCHANGED req /\ Remember
  \/ \E o \in Orders, i \in MessageIndex : Execute(o, i) /\ Remember

Spec == Init /\ [][Next]_vars

(***************************************************************************)
(* A handler that runs goes on running, and an order in flight is read     *)
(* again and again: the signing page asks for it every second and a half.  *)
(* Reads compete for the slots, hence the strong fairness.  Nothing says   *)
(* that someone creates, signs or reserves anything.                       *)
(***************************************************************************)
Fairness ==
  /\ \A r \in Requests : WF_vars(Handle(r) /\ Remember)
  /\ \A o \in Orders : SF_vars((\E r \in Requests : FindRead(r, o)) /\ Remember)
  /\ \A o \in Orders, i \in MessageIndex : WF_vars(Execute(o, i) /\ Remember)

FairSpec == Spec /\ Fairness

-----------------------------------------------------------------------------

Reservation == [pc : ReservationPc, nonce : Nonces \cup {None}, value : Nat]

Request == [pc : RequestPc, order : Orders \cup {None}, sent : 0 .. MaxMessages,
            outcome : Terminal \cup {"NONE"}]

Command == [pc : CliPc, todo : SUBSET Nonces, heldBy : [Nonces -> Orders \cup {None}],
            chosen : SUBSET Nonces]

TypeOK ==
  /\ opened \subseteq Nonces
  /\ value \in [Nonces -> Nat]
  /\ head \in [Nonces -> Nat]
  /\ tx \in [Orders -> [MessageIndex -> TxState]]
  /\ forks \in Nat
  /\ faults \in Nat
  /\ order \in [Orders -> OrderRow]
  /\ recorded \subseteq Nonces
  /\ inUse \subseteq Nonces
  /\ holder \in [Nonces -> Orders \cup {None}]
  /\ reservation \in [Orders -> Reservation]
  /\ cli \in Command
  /\ req \in [Requests -> Request]

(* CONFIRMED is the truth: every transaction of the order was executed     *)
(* without an error and confirmed.  Decided from statuses polled at        *)
(* different times, written without a condition, after a release, possibly *)
(* over what another handler wrote (recordOutcome, settle, find).          *)
ConfirmedMeansLanded ==
  \A o \in Orders : order[o].status = "CONFIRMED"
                      => \A i \in 1 .. order[o].messages : tx[o][i] = "ok"

(* The row of an order is CONFIRMED only after its nonce went back, and no *)
(* handler that was late takes one for it again: a crash between the two   *)
(* statements of recordOutcome cannot strand the account.                  *)
ConfirmedHoldsNothing ==
  \A o \in Orders : order[o].status = "CONFIRMED" => \A n \in recorded : holder[n] # o

(* Nothing is sent before the row holds the vault's signature, so an order *)
(* whose handler died can be told from one that was never signed; and      *)
(* nothing is sent while broadcasting is off (submitSignature).            *)
NothingLeavesUnsigned ==
  \A o \in Orders : \A i \in MessageIndex :
    tx[o][i] # "unsent" => order[o].vaultSigs /\ AllowBroadcast /\ i <= order[o].messages

(* The second half of a basket goes out only if the first was accepted     *)
(* (the comment on send).                                                  *)
FirstHalfFirst ==
  \A o \in Orders : \A i \in MessageIndex :
    (i > 1 /\ tx[o][i] # "unsent") => tx[o][i - 1] # "unsent"

(* Two orders are built on the same value of the same account only after   *)
(* one of the races: two creates that chose it at once, an account the     *)
(* command freed, or one that went back before its error was final.  No    *)
(* crash, lost answer, late settle or repeated submission does it          *)
(* (reserve, release).                                                     *)
NonceSharedByRaceOnly ==
  \A o, p \in Orders :
    /\ Exists(o) /\ Exists(p) /\ o # p
    /\ order[o].nonceAccount = order[p].nonceAccount
    /\ order[o].nonceAccount # None
    /\ order[o].nonceValue = order[p].nonceValue
    => order[o].nonceAccount \in loose

(* But for the same races an order keeps its account until the cluster has *)
(* executed a transaction of it: the handler that sent one may have died   *)
(* before it wrote BROADCAST, or may have lost the answer and written      *)
(* FAILED without a signature, and the account is still the order's.       *)
OrderKeepsNonce ==
  \A o \in Orders :
    Exists(o) /\ order[o].nonceAccount # None /\ ~Executed(o) =>
      \/ order[o].nonceAccount \in loose
      \/ order[o].nonceAccount \in inUse /\ holder[order[o].nonceAccount] = o

(* An order is filed as rejected only if the node has shown an error of    *)
(* one of its transactions: neither a timeout of confirm nor an early poll *)
(* of one that is in flight is enough (settle, recordOutcome).             *)
RejectedMeansError ==
  \A o \in Orders : order[o].error = "rejected" => o \in refused

(* Every transaction that left is named in the row or known to a handler   *)
(* that still runs: "a partial send is recorded as such, with the          *)
(* signatures that did leave" (send).  Two submissions at once may write   *)
(* over each other's signatures, and a handler that dies, or an answer     *)
(* that is lost, takes the name with it.                                   *)
NothingSentIsForgotten ==
  \A o \in Orders \ (overlapped \cup interrupted) : \A i \in MessageIndex :
    tx[o][i] # "unsent" =>
      i <= order[o].txSignatures \/ \E r \in Submitting(o) : i <= req[r].sent

(* What can be seen of the orders on a durable nonce and of their          *)
(* submissions, and which of them the cluster has executed.                *)
Durable == {o \in Orders : order[o].nonceAccount # None}

Shown == [o \in Orders |-> IF o \in Durable THEN order[o].status ELSE "NONE"]

At(o, pcs) ==
  IF o \in Durable THEN {r \in Requests : req[r].order = o /\ req[r].pc \in pcs} ELSE {}

Accepting == [o \in Orders |-> At(o, {"accepting"})]

Accepted == [o \in Orders |-> At(o, {"simulating", "sending", "failing", "broadcast"})]

Landed == {o \in Orders : order[o].messages > 0
                           /\ \A i \in 1 .. order[o].messages : tx[o][i] = "ok"}

Lifecycle == INSTANCE OrderLifecycle
               WITH Submissions <- Requests, status <- Shown, executed <- Landed,
                    refused <- refused, admitted <- Accepting, accepted <- Accepted,
                    overlapped <- overlapped \cap Durable

(* What is left of the relayer when only that can be seen is an            *)
(* OrderLifecycle: nobody is let in after the first signature, no handler, *)
(* however late, takes an order back that had one submission at a time,    *)
(* and CONFIRMED comes after the execution.                                *)
ImplementsLifecycle == Lifecycle!Spec

(* "A read of the order settles the row on its own if this process dies    *)
(* before the cluster answers": every order in flight is settled, by a     *)
(* cluster that executes whatever it can.  But for two cases: of a basket  *)
(* of two messages the one nonce value lets only one execute, and the poll *)
(* waits for the other; and a submission that overlapped another may write *)
(* SIGNED over BROADCAST and end there.                                    *)
HalfLanded(o) ==
  \E i, j \in 1 .. order[o].messages : tx[o][i] = "ok" /\ tx[o][j] # "ok"

BroadcastSettles ==
  \A o \in Orders :
    order[o].status = "BROADCAST"
      ~> \/ order[o].status \in {"CONFIRMED", "FAILED"}
         \/ HalfLanded(o) \/ o \in overlapped
-----------------------------------------------------------------------------
(* What the code says of itself and does not keep: each of these is        *)
(* checked by a run that finds it violated.                                *)

(* RELAYER_RULES, R8: "An order is co-signed at most once".                *)
CosignedOnce ==
  [][\A r \in Requests : AcceptSignature(r) => ~order[req[r].order].vaultSigs]_vars

(* Without a nonce "the order still works, but it has to be scanned and    *)
(* confirmed inside a blockhash's life" (create): its broadcast is not     *)
(* refused while it is young.                                              *)
YoungBlockhashOrderIsSent ==
  \A o \in Orders : order[o].nonceAccount = None /\ order[o].age < BlockhashTtl
                      => order[o].error # "not_sent"
-----------------------------------------------------------------------------
(* Why the invariants hold: they are part of an invariant that every step  *)
(* preserves, whatever the constants.                                      *)

(* The cluster: an account's value only grows, no message is built on a    *)
(* value it does not have yet, and a value has at most one execution,      *)
(* which is where the account stands or behind it.                         *)
SentHasNonce ==
  \A o \in Orders : \A i \in MessageIndex :
    tx[o][i] # "unsent" => Exists(o) /\ order[o].nonceAccount # None

ExecutedIsBehind ==
  \A o \in Orders : \A i \in MessageIndex :
    tx[o][i] \in {"ok", "err"} => order[o].nonceValue < value[order[o].nonceAccount]

SeenIsCurrent ==
  \A o \in Orders : \A i \in MessageIndex :
    tx[o][i] \in {"seen_ok", "seen_err"} =>
      /\ value[order[o].nonceAccount] = order[o].nonceValue
      /\ head[order[o].nonceAccount] = order[o].nonceValue + 1

SeenIsAlone ==
  \A o, p \in Orders : \A i, j \in MessageIndex :
    /\ tx[o][i] \in {"seen_ok", "seen_err"}
    /\ tx[p][j] \in {"seen_ok", "seen_err"}
    /\ order[o].nonceAccount = order[p].nonceAccount
    => o = p /\ i = j

HeadLeads == \A n \in Nonces : value[n] <= head[n]

ChainInv == SentHasNonce /\ ExecutedIsBehind /\ SeenIsCurrent /\ SeenIsAlone /\ HeadLeads

(* The tables: a row comes from a reservation that is over, on a value the *)
(* account had; an account without a row is held by nobody.                *)
RowInv ==
  \A o \in Orders : Exists(o) =>
    /\ reservation[o].pc = "done"
    /\ order[o].messages \in MessageIndex
    /\ order[o].nonceAccount # None => order[o].nonceValue <= value[order[o].nonceAccount]
    /\ order[o].status = "BROADCAST" => order[o].txSignatures = order[o].messages

ReservationInv ==
  \A o \in Orders :
    /\ reservation[o].pc \in {"reading", "dropping", "marking"} => reservation[o].nonce # None
    /\ reservation[o].nonce # None => reservation[o].value <= value[reservation[o].nonce]

HolderInv == \A n \in Nonces \ recorded : holder[n] = None

TableInv == RowInv /\ ReservationInv /\ HolderInv

(* The handlers: what each has established on its way to its next write.   *)
Established(r) ==
  LET o == req[r].order IN
  /\ o \in Orders
  /\ Exists(o)
  /\ req[r].pc \in {"accepting", "simulating"} => req[r].sent = 0
  /\ req[r].pc \in {"simulating", "sending", "failing", "broadcast"} => order[o].vaultSigs
  /\ req[r].pc = "sending" => /\ AllowBroadcast
                              /\ req[r].sent < order[o].messages
                              /\ \A i \in 1 .. req[r].sent : tx[o][i] # "unsent"
  /\ req[r].pc \in {"broadcast", "observing"} => req[r].sent = order[o].messages
  /\ req[r].pc \in {"releasing", "writing"} => req[r].outcome \in Terminal
  /\ req[r].pc \in {"releasing", "writing"} /\ req[r].outcome = "CONFIRMED" =>
       \A i \in 1 .. order[o].messages : tx[o][i] = "ok"
  /\ req[r].pc = "writing" /\ req[r].outcome = "CONFIRMED" =>
       \A n \in recorded : holder[n] # o

HandlerInv == \A r \in Requests : req[r].pc # "idle" => Established(r)

(* The histories: what is not in them has not happened.                    *)
HistoryInv ==
  /\ overlapped \subseteq Orders /\ interrupted \subseteq Orders /\ refused \subseteq Orders
  /\ loose \subseteq Nonces
  /\ \A o \in Orders \ overlapped : \A r, q \in Submitting(o) : r = q
  /\ \A o \in overlapped : Exists(o)
  /\ \A o \in Orders : \A i \in MessageIndex :
       tx[o][i] \in {"seen_err", "err"} => o \in refused
  /\ \A o \in refused : Exists(o) /\ order[o].vaultSigs /\ o \in Durable
  /\ \A n \in Nonces \ loose : ~ChosenTwice(n)

(* An order is given up for a reason: it has no nonce, or the node has     *)
(* shown an error of it.                                                   *)
OutcomeInv ==
  /\ \A r \in Requests : req[r].pc \in {"releasing", "writing"} =>
       /\ req[r].outcome = "EXPIRED" => order[req[r].order].nonceAccount = None
       /\ req[r].outcome = "FAILED" => req[r].order \in refused
  /\ RejectedMeansError

(* An account that is not loose is read while it is free, is marked while  *)
(* its value is the one that was read, and stays with the order until a    *)
(* transaction of it is executed.                                          *)
Holds(o, n, v) == n \in inUse /\ holder[n] = o /\ value[n] = v

NonceInv ==
  /\ \A o \in Orders : reservation[o].nonce # None =>
       reservation[o].pc \notin {"idle", "searching"}
  /\ \A o \in Orders : reservation[o].nonce \in Nonces \ loose =>
       /\ reservation[o].pc \in {"reading", "dropping", "marking"}
            => reservation[o].nonce \notin inUse
       /\ reservation[o].pc = "marking" => value[reservation[o].nonce] = reservation[o].value
       /\ reservation[o].pc = "reserved" => Holds(o, reservation[o].nonce, reservation[o].value)
  /\ \A o \in Orders : Exists(o) /\ order[o].nonceAccount \in Nonces \ loose =>
       Executed(o) \/ Holds(o, order[o].nonceAccount, order[o].nonceValue)

(* The row of an order that is being sent names no signature yet, and its   *)
(* one handler knows what left.                                            *)
SendInv ==
  /\ \A o \in Orders : ~order[o].vaultSigs => order[o].txSignatures = 0
  /\ \A o \in Orders \ overlapped : \A r \in Submitting(o) :
       /\ order[o].txSignatures = 0
       /\ req[r].pc = "accepting" => ~order[o].vaultSigs
  /\ NothingSentIsForgotten

(* A handler of an order on a nonce knows what the row may say when it     *)
(* writes it, although it never reads it again.                            *)
StatusInv ==
  /\ \A o \in Durable :
       /\ order[o].status # "EXPIRED"
       /\ order[o].vaultSigs => order[o].status # "AWAITING_SIGNATURE"
  /\ \A r \in Requests :
       LET o == req[r].order IN
       req[r].pc # "idle" /\ o \notin overlapped /\ order[o].nonceAccount # None =>
         /\ req[r].pc = "accepting" => order[o].status = "AWAITING_SIGNATURE"
         /\ req[r].pc \in {"simulating", "sending", "failing", "broadcast"}
              => order[o].status = "SIGNED"
         /\ req[r].pc \in {"observing", "releasing", "writing"} =>
              /\ order[o].status \in {"BROADCAST", "FAILED", "CONFIRMED"}
              /\ order[o].status = "FAILED" => o \in refused

Inv ==
  /\ TypeOK
  /\ ChainInv
  /\ TableInv
  /\ HandlerInv
  /\ ConfirmedMeansLanded
  /\ ConfirmedHoldsNothing
  /\ NothingLeavesUnsigned
  /\ FirstHalfFirst

(* All of it, with what the histories add.                                 *)
FullInv == Inv /\ HistoryInv /\ OutcomeInv /\ NonceInv /\ SendInv /\ StatusInv
=============================================================================

--------------------------- MODULE OrdersService ---------------------------
(***************************************************************************)
(* OrdersService: an order's life, from the request that creates it to the *)
(* answer of the cluster.  Three kinds of handler work on the same rows:   *)
(* create (whose first half is reservation[o], in NoncePool), submit       *)
(* (submitSignature, with the settle it leaves running) and find.  A       *)
(* submit or a find runs in a request slot r; req[r] holds its program     *)
(* counter and the local variables that outlive an await:                  *)
(*   order    the id it works on                                           *)
(*   sent     the signatures its own row, or its own loop, has             *)
(*   outcome  the status it has decided to write                           *)
(*                                                                         *)
(* The row a handler read is never read again before it is written, and    *)
(* every write is by id alone: what the policy and expireIfStale decided   *)
(* from the row is all that is left of it, and is in the program counter.  *)
(*                                                                         *)
(* Refusals (no such order, wrong number of signatures, a policy           *)
(* violation) write nothing but the audit trail, which is not modelled:    *)
(* they are the guards of the actions.                                     *)
(***************************************************************************)
EXTENDS NoncePool

CONSTANTS
  Requests,         \* slots for submit and find handlers
  SubmitLimit       \* bound: handlers of one order that may be past its policy

ASSUME OrdersAssumption == SubmitLimit \in Nat \ {0}

VARIABLE req

RequestPc == {"idle", "accepting", "simulating", "sending", "failing", "broadcast",
              "observing", "releasing", "writing"}

Idle == [pc |-> "idle", order |-> None, sent |-> 0, outcome |-> "NONE"]

OrdersInit == req = [r \in Requests |-> Idle]

(* Handlers that hold a decision of submitSignature on order o.            *)
Submitting(o) ==
  {r \in Requests : /\ req[r].order = o
                    /\ req[r].pc \in {"accepting", "simulating", "sending", "failing",
                                      "broadcast"}}

Step(r, pc) == req' = [req EXCEPT ![r].pc = pc]

Return(r) == req' = [req EXCEPT ![r] = Idle]

Begin(r, pc, o, sent) ==
  req' = [req EXCEPT ![r] = [pc |-> pc, order |-> o, sent |-> sent, outcome |-> "NONE"]]

(* Mutant: the row is written and the nonce never goes back.               *)
DecideKeepingNonce(r, o, outcome) ==
  req' = [req EXCEPT ![r] = [pc |-> "writing", order |-> o, sent |-> 0, outcome |-> outcome]]

Decide(r, o, outcome) ==
  req' = [req EXCEPT ![r] = [pc |-> "releasing", order |-> o, sent |-> 0, outcome |-> outcome]]

orderVars == <<order, reservation, cli>>

-----------------------------------------------------------------------------
(* create, after reserve: quotes and mint facts are read, the messages     *)
(* compiled on the nonce's value and the row inserted.  A basket that does *)
(* not fit is compiled in two halves, both on the same nonce.              *)

NewRow(nonce, nonceValue, messages) ==
  [status |-> "AWAITING_SIGNATURE", nonceAccount |-> nonce, nonceValue |-> nonceValue,
   messages |-> messages, vaultSigs |-> FALSE, txSignatures |-> 0, error |-> "none", age |-> 0]

Insert(o) ==
  /\ reservation[o].pc = "reserved"
  /\ \E messages \in MessageIndex :
       order' = [order EXCEPT ![o] =
                   NewRow(reservation[o].nonce, reservation[o].value, messages)]
  /\ reservation' = [reservation EXCEPT ![o] = [pc |-> "done", nonce |-> None, value |-> 0]]
  /\ NoFault
  /\ UNCHANGED <<chainVars, poolVars, cli, req>>

(* No quote, a swap too large to split, a mint that cannot be read: the    *)
(* handler throws, and the nonce it reserved stays in use.                 *)
BuildFails(o) ==
  /\ reservation[o].pc = "reserved"
  /\ GoTo(o, "thrown")
  /\ NoFault
  /\ UNCHANGED <<chainVars, poolVars, order, cli, req>>

Create(o) == (Reserve(o) /\ UNCHANGED req) \/ Insert(o) \/ BuildFails(o)

-----------------------------------------------------------------------------
(* expireIfStale, the first thing both handlers do with the row they read. *)

(* Mutant: an order on a nonce expires too.                                *)
StaleWithNonce(o) == order[o].status \notin Terminal /\ order[o].age >= BlockhashTtl

Stale(o) ==
  /\ order[o].status \notin Terminal
  /\ order[o].nonceAccount = None
  /\ order[o].age >= BlockhashTtl

(* checkRelayerPolicy on every message: R1 and R8 read the row, R2 needs   *)
(* the vault's signature, R3 to R5 hold of what the builder compiled.      *)
(* Mutant: any order that is not over may be signed.                       *)
PolicyHoldsUntilTerminal(o) == order[o].status \notin Terminal

PolicyHolds(o) ==
  /\ order[o].status = "AWAITING_SIGNATURE"
  /\ ~order[o].vaultSigs

(* The row is read, found fresh, and the policy finds no violation.        *)
SubmitRead(r, o) ==
  /\ req[r].pc = "idle"
  /\ Exists(o)
  /\ ~Stale(o)
  /\ PolicyHolds(o)
  /\ Cardinality(Submitting(o)) < SubmitLimit
  /\ Begin(r, "accepting", o, 0)
  /\ NoFault
  /\ UNCHANGED <<chainVars, poolVars, orderVars>>

(* The row is read and found stale, by either handler: find returns it     *)
(* expired, submitSignature goes on to refuse it.                          *)
ReadStale(r, o) ==
  /\ req[r].pc = "idle"
  /\ Exists(o)
  /\ Stale(o)
  /\ Decide(r, o, "EXPIRED")
  /\ NoFault
  /\ UNCHANGED <<chainVars, poolVars, orderVars>>

(* order.update({status: SIGNED, vaultSigs})                               *)
(* Mutant: the status is written and the signatures are not.               *)
AcceptSignatureUnstored(r) ==
  /\ req[r].pc = "accepting"
  /\ order' = [order EXCEPT ![req[r].order].status = "SIGNED"]
  /\ Step(r, "simulating")
  /\ NoFault
  /\ UNCHANGED <<chainVars, poolVars, reservation, cli>>

AcceptSignature(r) ==
  LET o == req[r].order IN
  /\ req[r].pc = "accepting"
  /\ order' = [order EXCEPT ![o].status = "SIGNED", ![o].vaultSigs = TRUE]
  /\ Step(r, "simulating")
  /\ NoFault
  /\ UNCHANGED <<chainVars, poolVars, reservation, cli>>

(* The first message is simulated, its blockhash replaced: it may pass     *)
(* whatever blockhash the message carries.  Otherwise the order stays      *)
(* SIGNED and the handler returns.                                         *)
Simulate(r) ==
  /\ req[r].pc = "simulating"
  /\ \/ AllowBroadcast /\ Step(r, "sending")
     \/ Return(r)
  /\ NoFault
  /\ UNCHANGED <<chainVars, poolVars, orderVars>>

(* One turn of the loop in send, for message sent + 1.                     *)
(* Mutant: the messages leave in the opposite order.                       *)
TurnBackwards(r) == order[req[r].order].messages - req[r].sent

Turn(r) == req[r].sent + 1

(* The node takes it and answers with the signature.  Recording the        *)
(* audit event is inside the try: should it throw, the loop ends as if     *)
(* the broadcast had failed, with the signature among those that left.     *)
SendAccepted(r) ==
  LET o == req[r].order IN
  /\ req[r].pc = "sending"
  /\ TakeIn(o, Turn(r), order[o].nonceAccount, order[o].nonceValue)
  /\ \/ /\ req' = [req EXCEPT ![r].sent = Turn(r),
                              ![r].pc = IF Turn(r) = order[o].messages
                                        THEN "broadcast" ELSE "sending"]
        /\ NoFault
     \/ /\ req' = [req EXCEPT ![r].sent = Turn(r), ![r].pc = "failing"]
        /\ Fault
  /\ UNCHANGED <<poolVars, orderVars>>

(* Preflight refuses it: its nonce value has been used, or it carries no   *)
(* real blockhash.  Nothing leaves.                                        *)
SendRefused(r) ==
  LET o == req[r].order IN
  /\ req[r].pc = "sending"
  /\ \/ ~Lives(order[o].nonceAccount, order[o].nonceValue, value) /\ NoFault
     \/ Fault
  /\ Step(r, "failing")
  /\ UNCHANGED <<chainVars, poolVars, orderVars>>

(* The node takes it and the answer is lost: the call throws.              *)
SendUnanswered(r) ==
  LET o == req[r].order IN
  /\ req[r].pc = "sending"
  /\ TakeIn(o, Turn(r), order[o].nonceAccount, order[o].nonceValue)
  /\ Step(r, "failing")
  /\ Fault
  /\ UNCHANGED <<poolVars, orderVars>>

(* order.update({status: FAILED, txSignatures, error}) in the catch.       *)
(* Mutant: the nonce of an order whose send failed goes back.              *)
RecordSendFailureReleasing(r) ==
  LET o == req[r].order IN
  /\ req[r].pc = "failing"
  /\ order' = [order EXCEPT ![o].status = "FAILED", ![o].txSignatures = req[r].sent]
  /\ ReleaseHeldBy(o)
  /\ Return(r)
  /\ NoFault
  /\ UNCHANGED <<chainVars, reservation, cli>>

(* Mutant: a failed send forgets what left before it.                      *)
RecordSendFailureForgetful(r) ==
  /\ req[r].pc = "failing"
  /\ order' = [order EXCEPT ![req[r].order].status = "FAILED"]
  /\ Return(r)
  /\ NoFault
  /\ UNCHANGED <<chainVars, poolVars, reservation, cli>>

(* Mutant: the message that failed is counted among those that left.       *)
RecordSendFailureOffByOne(r) ==
  /\ req[r].pc = "failing"
  /\ order' = [order EXCEPT ![req[r].order].status = "FAILED",
                            ![req[r].order].txSignatures = req[r].sent + 1]
  /\ Return(r)
  /\ NoFault
  /\ UNCHANGED <<chainVars, poolVars, reservation, cli>>

RecordSendFailure(r) ==
  LET o == req[r].order IN
  /\ req[r].pc = "failing"
  /\ order' = [order EXCEPT ![o].status = "FAILED", ![o].txSignatures = req[r].sent,
                            ![o].error = IF req[r].sent > 0 THEN "partly_sent" ELSE "not_sent"]
  /\ Return(r)
  /\ NoFault
  /\ UNCHANGED <<chainVars, poolVars, reservation, cli>>

(* order.update({status: BROADCAST, txSignatures}); the handler answers    *)
(* and leaves settle running, which works on the row it just wrote.        *)
(* Mutant: the signatures are not written with the status.                 *)
RecordBroadcastUnsigned(r) ==
  /\ req[r].pc = "broadcast"
  /\ order' = [order EXCEPT ![req[r].order].status = "BROADCAST"]
  /\ Step(r, "observing")
  /\ NoFault
  /\ UNCHANGED <<chainVars, poolVars, reservation, cli>>

RecordBroadcast(r) ==
  LET o == req[r].order IN
  /\ req[r].pc = "broadcast"
  /\ order' = [order EXCEPT ![o].status = "BROADCAST", ![o].txSignatures = req[r].sent]
  /\ Step(r, "observing")
  /\ NoFault
  /\ UNCHANGED <<chainVars, poolVars, reservation, cli>>

(* find reads a row that is in flight: refreshIfInFlight.                  *)
FindRead(r, o) ==
  /\ req[r].pc = "idle"
  /\ Exists(o)
  /\ ~Stale(o)
  /\ order[o].status = "BROADCAST"
  /\ order[o].txSignatures > 0
  /\ Begin(r, "observing", o, order[o].txSignatures)
  /\ NoFault
  /\ UNCHANGED <<chainVars, poolVars, orderVars>>

(* getSignatureStatuses for every signature of the row, and the first half *)
(* of recordOutcome.  An error counts as soon as the node shows it, a      *)
(* success once it is confirmed.                                           *)
Observed(r) == {tx[req[r].order][i] : i \in 1 .. req[r].sent}

(* Mutant: an order that is not confirmed in time has failed.              *)
ObserveFailedOnTimeout(r) ==
  /\ req[r].pc = "observing"
  /\ ~(Observed(r) \subseteq {"ok"})
  /\ Decide(r, req[r].order, "FAILED")
  /\ NoFault
  /\ UNCHANGED <<chainVars, poolVars, orderVars>>

ObserveFailed(r) ==
  /\ req[r].pc = "observing"
  /\ Observed(r) \cap {"seen_err", "err"} # {}
  /\ Decide(r, req[r].order, "FAILED")
  /\ NoFault
  /\ UNCHANGED <<chainVars, poolVars, orderVars>>

(* Mutant: a processed answer is as good as a confirmed one.               *)
ObserveConfirmedEarly(r) ==
  /\ req[r].pc = "observing"
  /\ Observed(r) \subseteq {"ok", "seen_ok"}
  /\ Decide(r, req[r].order, "CONFIRMED")
  /\ NoFault
  /\ UNCHANGED <<chainVars, poolVars, orderVars>>

ObserveConfirmed(r) ==
  /\ req[r].pc = "observing"
  /\ Observed(r) \subseteq {"ok"}
  /\ Decide(r, req[r].order, "CONFIRMED")
  /\ NoFault
  /\ UNCHANGED <<chainVars, poolVars, orderVars>>

(* Still pending: the row stays as it is.  find has polled once, settle    *)
(* until its forty-five seconds were over.                                 *)
ObservePending(r) ==
  /\ req[r].pc = "observing"
  /\ Observed(r) \cap {"seen_err", "err"} = {}
  /\ ~(Observed(r) \subseteq {"ok"})
  /\ Return(r)
  /\ NoFault
  /\ UNCHANGED <<chainVars, poolVars, orderVars>>

(* The second half of recordOutcome, and the end of expireIfStale: first   *)
(* nonces.release(order.id), then order.update({status}).                  *)
Release(r) ==
  /\ req[r].pc = "releasing"
  /\ ReleaseHeldBy(req[r].order)
  /\ Step(r, "writing")
  /\ NoFault
  /\ UNCHANGED <<chainVars, orderVars>>

WriteOutcome(r) ==
  LET o == req[r].order IN
  /\ req[r].pc = "writing"
  /\ order' = [order EXCEPT ![o].status = req[r].outcome,
                            ![o].error = IF req[r].outcome = "FAILED" THEN "rejected" ELSE @]
  /\ Return(r)
  /\ NoFault
  /\ UNCHANGED <<chainVars, poolVars, reservation, cli>>

Handle(r) ==
  \/ AcceptSignature(r) \/ Simulate(r)
  \/ SendAccepted(r) \/ SendRefused(r) \/ SendUnanswered(r)
  \/ RecordSendFailure(r) \/ RecordBroadcast(r)
  \/ ObserveFailed(r) \/ ObserveConfirmed(r) \/ ObservePending(r)
  \/ Release(r) \/ WriteOutcome(r)

-----------------------------------------------------------------------------
(* What may end a handler early: a statement or an RPC outside a catch     *)
(* throws, or the process goes down and takes every handler with it.  No   *)
(* memory of a handler survives, and nothing picks its work up.            *)

Throws(r) ==
  /\ req[r].pc # "idle"
  /\ Return(r)
  /\ Fault
  /\ UNCHANGED <<chainVars, poolVars, orderVars>>

CreateThrows(o) ==
  /\ o \in InCreate
  /\ GoTo(o, "thrown")
  /\ Fault
  /\ UNCHANGED <<chainVars, poolVars, order, cli, req>>

RelayerCrashes ==
  /\ Fault
  /\ req' = [r \in Requests |-> Idle]
  /\ reservation' = [o \in Orders |-> IF o \in InCreate
                                      THEN [reservation[o] EXCEPT !.pc = "thrown"]
                                      ELSE reservation[o]]
  /\ UNCHANGED <<chainVars, poolVars, order, cli>>

(* Time passes for the orders that have a row.                             *)
GrowOld(o) ==
  /\ Exists(o)
  /\ order[o].age < MaxAge
  /\ order' = [order EXCEPT ![o].age = @ + 1]
  /\ NoFault
  /\ UNCHANGED <<chainVars, poolVars, reservation, cli, req>>
=============================================================================

----------------------------- MODULE NoncePool -----------------------------
(***************************************************************************)
(* NoncesService: the pool of durable nonce accounts, and the two database *)
(* tables it reads and writes (prisma/schema.prisma).                      *)
(*                                                                         *)
(* Handlers of the relayer are asynchronous functions: between two awaits  *)
(* they run alone, at an await anything else may run.  Every action below  *)
(* is one database statement or RPC, with the code up to the next await.   *)
(* The program counter of each handler and its local variables are its     *)
(* own record: reservation[o] is the call reserve(o) made by the handler   *)
(* that creates order o, cli is the nonce-pool command, another process.   *)
(*                                                                         *)
(* lastValue is written by reserve and read by nothing: it is left out.    *)
(***************************************************************************)
EXTENDS Cluster, FiniteSets

CONSTANTS
  CreateLimit,      \* bound: create handlers that may run at the same time
  CliRuns,          \* TRUE when someone runs the nonce-pool command
  MaxAge,           \* bound: ages that are told apart, 0 .. MaxAge
  BlockhashTtl,     \* age at which an order without a nonce is stale
  AbandonAge,       \* age the "release" command is given
  AllowBroadcast    \* RELAYER_ALLOW_BROADCAST: the relayer may spend

ASSUME NoncePoolAssumption ==
  /\ CreateLimit \in Nat \ {0}
  /\ CliRuns \in BOOLEAN
  /\ MaxAge \in Nat
  /\ BlockhashTtl \in Nat
  /\ AbandonAge \in Nat
  /\ AllowBroadcast \in BOOLEAN

VARIABLES
  order,         \* table Order: one row per order, see OrderRow
  recorded,      \* table NonceAccount: the accounts that have a row,
  inUse,         \*   those whose row is marked in use,
  holder,        \*   and the orderId of each row
  reservation,   \* the reserve(orderId) calls
  cli            \* the nonce-pool command

poolVars == <<recorded, inUse, holder>>

Status == {"NONE", "AWAITING_SIGNATURE", "SIGNED", "BROADCAST",
           "CONFIRMED", "FAILED", "EXPIRED"}

Terminal == {"CONFIRMED", "FAILED", "EXPIRED"}

(* What an order's error column may say, as far as the code tells apart.   *)
OrderError == {"none", "not_sent", "partly_sent", "rejected"}

(* A row of Order; a row that was never inserted has the status NONE.      *)
(* The column txMessages is messages, the number of transactions, and      *)
(* nonceValue, the nonce value they were built on; vaultSigs and           *)
(* txSignatures are written whole, so a flag and a length stand for them.  *)
OrderRow == [status : Status, nonceAccount : Nonces \cup {None}, nonceValue : Nat,
             messages : 0 .. MaxMessages, vaultSigs : BOOLEAN,
             txSignatures : 0 .. MaxMessages, error : OrderError, age : 0 .. MaxAge]

NoRow == [status |-> "NONE", nonceAccount |-> None, nonceValue |-> 0, messages |-> 0,
          vaultSigs |-> FALSE, txSignatures |-> 0, error |-> "none", age |-> 0]

Exists(o) == order[o].status # "NONE"

ReservationPc == {"idle", "searching", "reading", "dropping", "marking", "reserved",
                  "done", "thrown"}

CliPc == {"idle", "scanning", "recording"}

CliIdle == [pc |-> "idle", todo |-> {}, heldBy |-> [n \in Nonces |-> None], chosen |-> {}]

PoolInit(pool) ==
  /\ order = [o \in Orders |-> NoRow]
  /\ recorded = pool
  /\ inUse = {}
  /\ holder = [n \in Nonces |-> None]
  /\ reservation = [o \in Orders |-> [pc |-> "idle", nonce |-> None, value |-> 0]]
  /\ cli = CliIdle

-----------------------------------------------------------------------------
(* The statements on NonceAccount.                                         *)

(* nonceAccount.updateMany({where: {orderId}}), the body of release.       *)
ReleaseHeldBy(o) ==
  LET freed == {n \in recorded : holder[n] = o} IN
  /\ inUse' = inUse \ freed
  /\ holder' = [n \in Nonces |-> IF n \in freed THEN None ELSE holder[n]]
  /\ UNCHANGED recorded

(* nonceAccount.updateMany({where: {pubkey: {in: chosen}}}).               *)
ReleaseRows(chosen) ==
  LET freed == recorded \cap chosen IN
  /\ inUse' = inUse \ freed
  /\ holder' = [n \in Nonces |-> IF n \in freed THEN None ELSE holder[n]]
  /\ UNCHANGED recorded

-----------------------------------------------------------------------------
(* reserve(orderId), called by the create handler of order o.              *)

InCreate == {o \in Orders : reservation[o].pc \notin {"idle", "done", "thrown"}}

GoTo(o, pc) == reservation' = [reservation EXCEPT ![o].pc = pc]

(* findFirst({inUse: false}), whose order is the database's choice.  An     *)
(* empty pool gives no nonce, and the order a blockhash; so does a relayer *)
(* with no secret key, which signs, sends and frees nothing either.        *)
FindFree(o) ==
  /\ \/ reservation[o].pc = "searching"
     \/ reservation[o].pc = "idle" /\ Cardinality(InCreate) < CreateLimit
  /\ \/ /\ recorded \subseteq inUse
        /\ GoTo(o, "reserved")
     \/ \E n \in recorded \ inUse :
          reservation' = [reservation EXCEPT ![o] = [pc |-> "reading", nonce |-> n, value |-> 0]]
  /\ NoFault
  /\ UNCHANGED <<chainVars, poolVars, order, cli>>

(* readValue: the account's value from the cluster.                        *)
ReadValue(o) ==
  LET n == reservation[o].nonce IN
  /\ reservation[o].pc = "reading"
  /\ n \in opened
  /\ reservation' = [reservation EXCEPT ![o] = [pc |-> "marking", nonce |-> n, value |-> value[n]]]
  /\ NoFault
  /\ UNCHANGED <<chainVars, poolVars, order, cli>>

(* readValue answers null, as it does when the account is gone: its catch  *)
(* does not tell an RPC that failed from an account that is not there.     *)
ReadValueNull(o) ==
  /\ reservation[o].pc = "reading"
  /\ GoTo(o, "dropping")
  /\ Fault
  /\ UNCHANGED <<chainVars, poolVars, order, cli>>

(* delete({pubkey}) and reserve again.  Prisma throws when no row is there. *)
DropRow(o) ==
  LET n == reservation[o].nonce IN
  /\ reservation[o].pc = "dropping"
  /\ \/ /\ n \in recorded
        /\ recorded' = recorded \ {n}
        /\ inUse' = inUse \ {n}
        /\ holder' = [holder EXCEPT ![n] = None]
        /\ reservation' = [reservation EXCEPT ![o] =
                              [pc |-> "searching", nonce |-> None, value |-> 0]]
     \/ /\ n \notin recorded
        /\ GoTo(o, "thrown")
        /\ UNCHANGED poolVars
  /\ NoFault
  /\ UNCHANGED <<chainVars, order, cli>>

(* Mutant: the order is written and the row is not marked.                 *)
MarkInUseUnmarked(o) ==
  /\ reservation[o].pc = "marking"
  /\ holder' = [holder EXCEPT ![reservation[o].nonce] = o]
  /\ GoTo(o, "reserved")
  /\ NoFault
  /\ UNCHANGED <<chainVars, recorded, inUse, order, cli>>

(* update({pubkey}, {inUse: true, orderId}): whatever the row says by now,  *)
(* as long as there is one.                                                *)
MarkInUse(o) ==
  LET n == reservation[o].nonce IN
  /\ reservation[o].pc = "marking"
  /\ \/ /\ n \in recorded
        /\ inUse' = inUse \cup {n}
        /\ holder' = [holder EXCEPT ![n] = o]
        /\ GoTo(o, "reserved")
        /\ UNCHANGED recorded
     \/ /\ n \notin recorded
        /\ GoTo(o, "thrown")
        /\ UNCHANGED poolVars
  /\ NoFault
  /\ UNCHANGED <<chainVars, order, cli>>

Reserve(o) ==
  FindFree(o) \/ ReadValue(o) \/ ReadValueNull(o) \/ DropRow(o) \/ MarkInUse(o)

-----------------------------------------------------------------------------
(* releaseAbandoned(olderThan), the "release" command.                     *)

(* findMany({inUse: true})                                                 *)
ListHeld ==
  /\ CliRuns
  /\ cli.pc = "idle"
  /\ inUse # {}
  /\ cli' = [pc |-> "scanning", todo |-> inUse, heldBy |-> holder, chosen |-> {}]
  /\ NoFault
  /\ UNCHANGED <<chainVars, poolVars, order, reservation>>

(* The reasons to free a row: it has no order, its order has no row, or    *)
(* its order is old enough and nothing of it was broadcast.                *)
Abandoned(o) ==
  \/ o = None
  \/ ~Exists(o)
  \/ /\ order[o].txSignatures = 0
     /\ order[o].status # "BROADCAST"
     /\ order[o].age >= AbandonAge

(* order.findUnique for one row of the list                                *)
CheckHeld(n) ==
  /\ cli.pc = "scanning"
  /\ n \in cli.todo
  /\ cli' = [cli EXCEPT !.todo = @ \ {n},
                        !.chosen = IF Abandoned(cli.heldBy[n]) THEN @ \cup {n} ELSE @]
  /\ NoFault
  /\ UNCHANGED <<chainVars, poolVars, order, reservation>>

FreeChosen ==
  /\ cli.pc = "scanning"
  /\ cli.todo = {}
  /\ ReleaseRows(cli.chosen)
  /\ cli' = CliIdle
  /\ NoFault
  /\ UNCHANGED <<chainVars, order, reservation>>

-----------------------------------------------------------------------------
(* create(count), the "create" command: one account at a time, first on    *)
(* chain and then in the table.  It spends, so it is behind the same       *)
(* switch as broadcasting.                                                 *)

CreateAccount(n) ==
  /\ CliRuns
  /\ AllowBroadcast
  /\ cli.pc = "idle"
  /\ OpenAccount(n)
  /\ cli' = [cli EXCEPT !.pc = "recording", !.todo = {n}]
  /\ NoFault
  /\ UNCHANGED <<poolVars, order, reservation>>

RecordAccount ==
  /\ cli.pc = "recording"
  /\ recorded' = recorded \cup cli.todo
  /\ cli' = CliIdle
  /\ NoFault
  /\ UNCHANGED <<chainVars, inUse, holder, order, reservation>>

(* The command dies between two steps: nothing it holds outlives it.       *)
CliDies ==
  /\ cli.pc # "idle"
  /\ Fault
  /\ cli' = CliIdle
  /\ UNCHANGED <<chainVars, poolVars, order, reservation>>

Cli == \/ ListHeld \/ FreeChosen \/ RecordAccount \/ CliDies
       \/ \E n \in Nonces : CheckHeld(n) \/ CreateAccount(n)
=============================================================================

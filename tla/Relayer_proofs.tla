--------------------------- MODULE Relayer_proofs ---------------------------
(***************************************************************************)
(* Proofs about Relayer, for every value of its constants: any number of   *)
(* orders, accounts, handlers, faults and abandoned forks.                 *)
(*                                                                         *)
(* The invariant Inv of Relayer is inductive.  Its proof has three layers: *)
(* what one update does to the type of a variable; what a kind of step     *)
(* (one that moves no row, one that moves a single row, one that moves a   *)
(* single request) leaves true; and one lemma per group of actions, which  *)
(* shows that its actions are such steps and what they establish.          *)
(*                                                                         *)
(* The rest is about what the histories remember.  Lemmas say how a       *)
(* request slot, a row, a transaction, an account and a reservation move,  *)
(* and by which actions; from them each further part of FullInv is         *)
(* inductive, the promises follow, and so does the refinement of           *)
(* OrderLifecycle, a step at a time.                                       *)
(***************************************************************************)
EXTENDS Relayer, FiniteSetTheorems, TLAPS

USE ClusterAssumption, NoncePoolAssumption, OrdersAssumption, RelayerAssumption

-----------------------------------------------------------------------------
(* Types.                                                                  *)

(* The updates of a reservation, an order row and a request slot keep      *)
(* their types.                                                            *)
LEMMA GoToType ==
  ASSUME reservation \in [Orders -> Reservation], NEW o \in Orders, NEW pc \in ReservationPc,
         GoTo(o, pc)
  PROVE  reservation' \in [Orders -> Reservation]
  BY DEF GoTo, Reservation

(* A reservation that is replaced as a whole stays a reservation.          *)
LEMMA SetType ==
  ASSUME reservation \in [Orders -> Reservation], NEW o \in Orders, NEW pc \in ReservationPc,
         NEW n \in Nonces \cup {None}, NEW v \in Nat,
         reservation' = [reservation EXCEPT ![o] = [pc |-> pc, nonce |-> n, value |-> v]]
  PROVE  reservation' \in [Orders -> Reservation]
  BY DEF Reservation

(* A request slot whose program counter moves stays a request.             *)
LEMMA StepType ==
  ASSUME req \in [Requests -> Request], NEW r \in Requests, NEW pc \in RequestPc, Step(r, pc)
  PROVE  req' \in [Requests -> Request]
  BY DEF Step, Request

(* A slot whose handler returns holds the idle request.                    *)
LEMMA ReturnType ==
  ASSUME req \in [Requests -> Request], NEW r \in Requests, Return(r)
  PROVE  req' \in [Requests -> Request]
  BY DEF Return, Request, Idle, RequestPc

(* A handler that has read a row of its order is a request.                *)
LEMMA BeginType ==
  ASSUME req \in [Requests -> Request], NEW r \in Requests, NEW pc \in RequestPc,
         NEW o \in Orders, NEW n \in 0 .. MaxMessages, Begin(r, pc, o, n)
  PROVE  req' \in [Requests -> Request]
  BY DEF Begin, Request

(* A handler that has decided on a final status is a request.              *)
LEMMA DecideType ==
  ASSUME req \in [Requests -> Request], NEW r \in Requests, NEW o \in Orders,
         NEW outcome \in Terminal, Decide(r, o, outcome)
  PROVE  req' \in [Requests -> Request]
  BY DEF Decide, Request, RequestPc

(* A row whose status, signatures and error are written stays a row.       *)
LEMMA StatusType ==
  ASSUME order \in [Orders -> OrderRow], NEW o \in Orders, NEW s \in Status,
         NEW n \in 0 .. MaxMessages, NEW e \in OrderError,
         order' = [order EXCEPT ![o].status = s, ![o].txSignatures = n, ![o].error = e]
  PROVE  order' \in [Orders -> OrderRow]
<1> DEFINE row == [order[o] EXCEPT !.status = s, !.txSignatures = n, !.error = e]
<1>1. row \in OrderRow
  BY DEF OrderRow
<1>2. order' = [order EXCEPT ![o] = row]
  OBVIOUS
<1> HIDE DEF row
<1> QED
  BY <1>1, <1>2

(* Freeing the accounts of an order keeps the table of accounts well       *)
(* typed.                                                                  *)
LEMMA ReleaseType ==
  ASSUME TypeOK, NEW o \in Orders, ReleaseHeldBy(o)
  PROVE  recorded' \subseteq Nonces /\ inUse' \subseteq Nonces /\ holder' \in [Nonces -> Orders \cup {None}]
  BY DEF TypeOK, ReleaseHeldBy

(* The create handler keeps the types.                                     *)
LEMMA CreateType ==
  ASSUME TypeOK, NEW o \in Orders, Create(o)
  PROVE  TypeOK'
<1> USE DEF chainVars, poolVars, NoFault
<1>1. CASE FindFree(o) /\ UNCHANGED req
  <2>1. reservation' \in [Orders -> Reservation]
    <3>1. CASE GoTo(o, "reserved")
      BY <3>1, GoToType DEF TypeOK, ReservationPc
    <3>2. CASE \E n \in recorded \ inUse : reservation' =
                 [reservation EXCEPT ![o] = [pc |-> "reading", nonce |-> n, value |-> 0]]
      BY <3>2, SetType DEF TypeOK, ReservationPc
    <3> QED
      BY <1>1, <3>1, <3>2 DEF FindFree
  <2> QED
    BY <1>1, <2>1 DEF FindFree, TypeOK
<1>2. CASE ReadValue(o) /\ UNCHANGED req
  <2>1. reservation' \in [Orders -> Reservation]
    <3>1. reservation[o].nonce \in Nonces /\ value[reservation[o].nonce] \in Nat
      BY <1>2 DEF ReadValue, TypeOK
    <3> QED
      BY <1>2, <3>1, SetType DEF ReadValue, TypeOK, ReservationPc
  <2> QED
    BY <1>2, <2>1 DEF ReadValue, TypeOK
<1>3. CASE ReadValueNull(o) /\ UNCHANGED req
  <2>1. reservation' \in [Orders -> Reservation]
    BY <1>3, GoToType DEF ReadValueNull, TypeOK, ReservationPc
  <2> QED
    BY <1>3, <2>1 DEF ReadValueNull, TypeOK, Fault
<1>4. CASE DropRow(o) /\ UNCHANGED req
  <2>1. reservation' \in [Orders -> Reservation]
    BY <1>4, GoToType DEF DropRow, TypeOK, Reservation, ReservationPc
  <2>2. recorded' \subseteq Nonces /\ inUse' \subseteq Nonces
        /\ holder' \in [Nonces -> Orders \cup {None}]
    BY <1>4 DEF DropRow, TypeOK
  <2> QED
    BY <1>4, <2>1, <2>2 DEF DropRow, TypeOK
<1>5. CASE MarkInUse(o) /\ UNCHANGED req
  <2>1. reservation' \in [Orders -> Reservation]
    BY <1>5, GoToType DEF MarkInUse, TypeOK, ReservationPc
  <2>2. recorded' \subseteq Nonces /\ inUse' \subseteq Nonces
        /\ holder' \in [Nonces -> Orders \cup {None}]
    BY <1>5 DEF MarkInUse, TypeOK, Reservation
  <2> QED
    BY <1>5, <2>1, <2>2 DEF MarkInUse, TypeOK
<1>6. CASE Insert(o)
  <2>1. reservation' \in [Orders -> Reservation]
    BY <1>6 DEF Insert, TypeOK, Reservation, ReservationPc
  <2>2. order' \in [Orders -> OrderRow]
    <3>1. PICK messages \in MessageIndex :
           order' = [order EXCEPT ![o] = NewRow(reservation[o].nonce, reservation[o].value, messages)]
      BY <1>6 DEF Insert
    <3>2. reservation[o].nonce \in Nonces \cup {None} /\ reservation[o].value \in Nat
      BY DEF TypeOK, Reservation
    <3>3. NewRow(reservation[o].nonce, reservation[o].value, messages) \in OrderRow
      BY <3>2 DEF OrderRow, NewRow, Status, OrderError, MessageIndex
    <3> QED
      BY <3>1, <3>3 DEF TypeOK
  <2> QED
    BY <1>6, <2>1, <2>2 DEF Insert, TypeOK
<1>7. CASE BuildFails(o)
  <2>1. reservation' \in [Orders -> Reservation]
    BY <1>7, GoToType DEF BuildFails, TypeOK, ReservationPc
  <2> QED
    BY <1>7, <2>1 DEF BuildFails, TypeOK
<1> QED
  BY <1>1, <1>2, <1>3, <1>4, <1>5, <1>6, <1>7 DEF Create, Reserve

(* The node that takes a transaction in changes nothing else of the        *)
(* chain.                                                                  *)
LEMMA TakeInType ==
  ASSUME TypeOK, NEW o \in Orders, NEW i \in MessageIndex, NEW n, NEW v, TakeIn(o, i, n, v)
  PROVE  /\ tx' \in [Orders -> [MessageIndex -> TxState]]
         /\ UNCHANGED <<opened, value, head, forks>>
  BY DEF TypeOK, TakeIn, TxState

(* Submit and find handlers keep the types; the loop of send never passes  *)
(* the last message.                                                       *)
LEMMA HandleType ==
  ASSUME TypeOK, HandlerInv, NEW r \in Requests, Handle(r)
  PROVE  TypeOK'
<1> USE DEF chainVars, poolVars, orderVars, NoFault
<1> DEFINE o == req[r].order
<1>0. o \in Orders /\ req[r] \in Request /\ order[o] \in OrderRow
  BY DEF Handle, AcceptSignature, Simulate, SendAccepted, SendRefused, SendUnanswered,
         RecordSendFailure, RecordBroadcast, ObserveFailed, ObserveConfirmed, ObservePending,
         Release, WriteOutcome, HandlerInv, Established, TypeOK
<1> HIDE DEF o
<1>1. CASE AcceptSignature(r)
  <2>1. req' \in [Requests -> Request]
    BY <1>1, StepType DEF AcceptSignature, TypeOK, RequestPc
  <2>2. order' \in [Orders -> OrderRow]
    BY <1>0, <1>1 DEF AcceptSignature, TypeOK, OrderRow, Status, o
  <2> QED
    BY <1>1, <2>1, <2>2 DEF AcceptSignature, TypeOK
<1>2. CASE Simulate(r)
  <2>1. req' \in [Requests -> Request]
    BY <1>2, StepType, ReturnType DEF Simulate, TypeOK, RequestPc
  <2> QED
    BY <1>2, <2>1 DEF Simulate, TypeOK
<1>3. CASE SendAccepted(r)
  <2>1. req[r].sent < order[o].messages /\ order[o].messages \in 0 .. MaxMessages
        /\ req[r].sent \in 0 .. MaxMessages
    BY <1>0, <1>3 DEF SendAccepted, HandlerInv, Established, OrderRow, Request, o
  <2>2. Turn(r) \in MessageIndex /\ Turn(r) \in 0 .. MaxMessages
    BY <2>1 DEF Turn, MessageIndex
  <2>3. req' \in [Requests -> Request]
    <3> DEFINE to(pc) == [req EXCEPT ![r].sent = Turn(r), ![r].pc = pc]
    <3>1. \A pc \in RequestPc : to(pc) \in [Requests -> Request]
      <4>1. \A pc \in RequestPc : [req[r] EXCEPT !.sent = Turn(r), !.pc = pc] \in Request
        BY <1>0, <2>2 DEF Request
      <4>2. \A pc \in RequestPc :
              to(pc) = [req EXCEPT ![r] = [req[r] EXCEPT !.sent = Turn(r), !.pc = pc]]
        OBVIOUS
      <4> QED
        BY <4>1, <4>2 DEF TypeOK
    <3>2. req' = to("sending") \/ req' = to("broadcast") \/ req' = to("failing")
      BY <1>3 DEF SendAccepted
    <3> QED
      BY <3>1, <3>2 DEF RequestPc
  <2>4. /\ tx' \in [Orders -> [MessageIndex -> TxState]]
        /\ UNCHANGED <<opened, value, head, forks>>
    BY <1>0, <1>3, <2>2, TakeInType DEF SendAccepted, o
  <2> QED
    BY <1>3, <2>3, <2>4 DEF SendAccepted, TypeOK, Fault
<1>4. CASE SendRefused(r)
  <2>1. req' \in [Requests -> Request]
    BY <1>4, StepType DEF SendRefused, TypeOK, RequestPc
  <2> QED
    BY <1>4, <2>1 DEF SendRefused, TypeOK, Fault
<1>5. CASE SendUnanswered(r)
  <2>1. req' \in [Requests -> Request]
    BY <1>5, StepType DEF SendUnanswered, TypeOK, RequestPc
  <2>2. req[r].sent < order[o].messages /\ order[o].messages \in 0 .. MaxMessages
        /\ req[r].sent \in 0 .. MaxMessages
    BY <1>0, <1>5 DEF SendUnanswered, HandlerInv, Established, OrderRow, Request, o
  <2>3. Turn(r) \in MessageIndex
    BY <2>2 DEF Turn, MessageIndex
  <2>4. /\ tx' \in [Orders -> [MessageIndex -> TxState]]
        /\ UNCHANGED <<opened, value, head, forks>>
    BY <1>0, <1>5, <2>3, TakeInType DEF SendUnanswered, o
  <2> QED
    BY <1>5, <2>1, <2>4 DEF SendUnanswered, TypeOK, Fault
<1>6. CASE RecordSendFailure(r)
  <2>1. req' \in [Requests -> Request]
    BY <1>6, ReturnType DEF RecordSendFailure, TypeOK
  <2>2. order' \in [Orders -> OrderRow]
    <3>1. /\ req[r].sent \in 0 .. MaxMessages
          /\ "FAILED" \in Status
          /\ (IF req[r].sent > 0 THEN "partly_sent" ELSE "not_sent") \in OrderError
      BY <1>0 DEF Request, Status, OrderError
    <3> QED
      BY <1>0, <1>6, <3>1, StatusType DEF RecordSendFailure, TypeOK, o
  <2> QED
    BY <1>6, <2>1, <2>2 DEF RecordSendFailure, TypeOK
<1>7. CASE RecordBroadcast(r)
  <2>1. req' \in [Requests -> Request]
    BY <1>7, StepType DEF RecordBroadcast, TypeOK, RequestPc
  <2>2. order' \in [Orders -> OrderRow]
    BY <1>0, <1>7 DEF RecordBroadcast, TypeOK, OrderRow, Status, Request, o
  <2> QED
    BY <1>7, <2>1, <2>2 DEF RecordBroadcast, TypeOK
<1>8. CASE ObserveFailed(r) \/ ObserveConfirmed(r)
  <2>1. req' \in [Requests -> Request]
    BY <1>0, <1>8, DecideType DEF ObserveFailed, ObserveConfirmed, TypeOK, Terminal, o
  <2> QED
    BY <1>8, <2>1 DEF ObserveFailed, ObserveConfirmed, TypeOK
<1>9. CASE ObservePending(r)
  <2>1. req' \in [Requests -> Request]
    BY <1>9, ReturnType DEF ObservePending, TypeOK
  <2> QED
    BY <1>9, <2>1 DEF ObservePending, TypeOK
<1>10. CASE Release(r)
  <2>1. req' \in [Requests -> Request]
    BY <1>10, StepType DEF Release, TypeOK, RequestPc
  <2>2. recorded' \subseteq Nonces /\ inUse' \subseteq Nonces
        /\ holder' \in [Nonces -> Orders \cup {None}]
    BY <1>0, <1>10, ReleaseType DEF Release, o
  <2> QED
    BY <1>10, <2>1, <2>2 DEF Release, TypeOK
<1>11. CASE WriteOutcome(r)
  <2>1. req' \in [Requests -> Request]
    BY <1>11, ReturnType DEF WriteOutcome, TypeOK
  <2>2. order' \in [Orders -> OrderRow]
    <3>1. req[r].outcome \in Status
      BY <1>0 DEF Request, Terminal, Status
    <3>2. (IF req[r].outcome = "FAILED" THEN "rejected" ELSE order[o].error) \in OrderError
      BY <1>0 DEF OrderRow, OrderError
    <3> QED
      BY <1>0, <1>11, <3>1, <3>2 DEF WriteOutcome, TypeOK, OrderRow, o
  <2> QED
    BY <1>11, <2>1, <2>2 DEF WriteOutcome, TypeOK
<1> QED
  BY <1>1, <1>2, <1>3, <1>4, <1>5, <1>6, <1>7, <1>8, <1>9, <1>10, <1>11 DEF Handle

(* The initial state is well typed.                                        *)
LEMMA InitType == Init => TypeOK
<1> SUFFICES ASSUME Init PROVE TypeOK
  OBVIOUS
<1>1. order \in [Orders -> OrderRow]
  <2>1. NoRow \in OrderRow
    BY DEF NoRow, OrderRow, Status, OrderError
  <2> QED
    BY <2>1 DEF Init, PoolInit
<1>2. reservation \in [Orders -> Reservation]
  BY DEF Init, PoolInit, Reservation, ReservationPc
<1>3. cli \in Command
  BY DEF Init, PoolInit, CliIdle, Command, CliPc
<1>4. req \in [Requests -> Request]
  BY DEF Init, OrdersInit, Idle, Request, RequestPc
<1>5. tx \in [Orders -> [MessageIndex -> TxState]]
  BY DEF Init, ClusterInit, TxState
<1> QED
  BY <1>1, <1>2, <1>3, <1>4, <1>5 DEF Init, ClusterInit, PoolInit, TypeOK

(* A handler that begins keeps the types.                                  *)
LEMMA ReadType ==
  ASSUME TypeOK, NEW r \in Requests, NEW o \in Orders,
         SubmitRead(r, o) \/ ReadStale(r, o) \/ FindRead(r, o)
  PROVE  TypeOK'
<1> USE DEF chainVars, poolVars, orderVars, NoFault
<1>1. CASE SubmitRead(r, o)
  <2>1. req' \in [Requests -> Request]
    BY <1>1, BeginType DEF SubmitRead, TypeOK, RequestPc
  <2> QED
    BY <1>1, <2>1 DEF SubmitRead, TypeOK
<1>2. CASE ReadStale(r, o)
  <2>1. req' \in [Requests -> Request]
    BY <1>2, DecideType DEF ReadStale, TypeOK, Terminal
  <2> QED
    BY <1>2, <2>1 DEF ReadStale, TypeOK
<1>3. CASE FindRead(r, o)
  <2>1. req' \in [Requests -> Request]
    <3>1. order[o].txSignatures \in 0 .. MaxMessages
      BY DEF TypeOK, OrderRow
    <3> QED
      BY <1>3, <3>1, BeginType DEF FindRead, TypeOK, RequestPc
  <2> QED
    BY <1>3, <2>1 DEF FindRead, TypeOK
<1> QED
  BY <1>1, <1>2, <1>3

(* Exceptions, crashes and time keep the types.                            *)
LEMMA EndType ==
  ASSUME TypeOK,
         \/ \E r \in Requests : Throws(r)
         \/ \E o \in Orders : CreateThrows(o) \/ GrowOld(o)
         \/ RelayerCrashes
  PROVE  TypeOK'
<1> USE DEF chainVars, poolVars, orderVars, NoFault
<1>1. CASE \E r \in Requests : Throws(r)
  <2>1. req' \in [Requests -> Request]
    BY <1>1, ReturnType DEF Throws, TypeOK
  <2> QED
    BY <1>1, <2>1 DEF Throws, TypeOK, Fault
<1>2. CASE \E o \in Orders : CreateThrows(o)
  <2>1. reservation' \in [Orders -> Reservation]
    BY <1>2, GoToType DEF CreateThrows, TypeOK, ReservationPc
  <2> QED
    BY <1>2, <2>1 DEF CreateThrows, TypeOK, Fault
<1>3. CASE \E o \in Orders : GrowOld(o)
  <2>1. order' \in [Orders -> OrderRow]
    <3> PICK o \in Orders : GrowOld(o)
      BY <1>3
    <3>1. order[o] \in OrderRow /\ order[o].age + 1 \in 0 .. MaxAge
      BY DEF GrowOld, TypeOK, OrderRow
    <3> QED
      BY <3>1 DEF GrowOld, TypeOK, OrderRow
  <2> QED
    BY <1>3, <2>1 DEF GrowOld, TypeOK
<1>4. CASE RelayerCrashes
  <2>1. req' \in [Requests -> Request]
    BY <1>4 DEF RelayerCrashes, Idle, Request, RequestPc
  <2>2. reservation' \in [Orders -> Reservation]
    <3>1. "thrown" \in ReservationPc
      BY DEF ReservationPc
    <3>2. \A c \in Reservation : [c EXCEPT !.pc = "thrown"] \in Reservation
      BY <3>1 DEF Reservation
    <3>3. \A p \in Orders : /\ reservation[p] \in Reservation
                             /\ [reservation[p] EXCEPT !.pc = "thrown"] \in Reservation
      BY <3>2 DEF TypeOK
    <3> QED
      BY <1>4, <3>3 DEF RelayerCrashes
  <2> QED
    BY <1>4, <2>1, <2>2 DEF RelayerCrashes, TypeOK, Fault
<1> QED
  BY <1>1, <1>2, <1>3, <1>4

(* The nonce-pool command keeps the types.                                 *)
LEMMA CliType ==
  ASSUME TypeOK, Cli, UNCHANGED req
  PROVE  TypeOK'
<1> USE DEF chainVars, poolVars, orderVars, NoFault
<1>0. CliIdle \in Command
  BY DEF CliIdle, Command, CliPc
<1>1. CASE ListHeld
  <2>1. cli' \in Command
    BY <1>1 DEF ListHeld, TypeOK, Command, CliPc
  <2> QED
    BY <1>1, <2>1 DEF ListHeld, TypeOK
<1>2. CASE \E n \in Nonces : CheckHeld(n)
  <2>1. cli' \in Command
    <3> PICK n \in Nonces : CheckHeld(n)
      BY <1>2
    <3>1. IF Abandoned(cli.heldBy[n]) THEN cli.chosen \cup {n} \in SUBSET Nonces
                                      ELSE cli.chosen \in SUBSET Nonces
      BY DEF TypeOK, Command
    <3> QED
      BY <3>1 DEF CheckHeld, TypeOK, Command
  <2> QED
    BY <1>2, <2>1 DEF CheckHeld, TypeOK
<1>3. CASE FreeChosen
  BY <1>0, <1>3 DEF FreeChosen, ReleaseRows, TypeOK
<1>4. CASE \E n \in Nonces : CreateAccount(n)
  <2>1. cli' \in Command
    <3> PICK n \in Nonces : CreateAccount(n)
      BY <1>4
    <3>1. "recording" \in CliPc /\ {n} \in SUBSET Nonces
      BY DEF CliPc
    <3> QED
      BY <3>1 DEF CreateAccount, TypeOK, Command
  <2> QED
    BY <1>4, <2>1 DEF CreateAccount, OpenAccount, TypeOK
<1>5. CASE RecordAccount
  <2>1. recorded' \subseteq Nonces
    BY <1>5 DEF RecordAccount, TypeOK, Command
  <2> QED
    BY <1>0, <1>5, <2>1 DEF RecordAccount, TypeOK
<1>6. CASE CliDies
  BY <1>0, <1>6 DEF CliDies, TypeOK, Fault
<1> QED
  BY <1>1, <1>2, <1>3, <1>4, <1>5, <1>6 DEF Cli

(* The cluster keeps the types: what it executes is on a real account.     *)
LEMMA ExecuteType ==
  ASSUME TypeOK, ChainInv, NEW o \in Orders, NEW i \in MessageIndex, Execute(o, i)
  PROVE  TypeOK'
<1> USE DEF chainVars, poolVars, orderVars
<1> DEFINE n == order[o].nonceAccount
           v == order[o].nonceValue
<1>1. tx[o][i] # "unsent" /\ n \in Nonces /\ v \in Nat
  BY DEF Execute, Process, Confirm, Abandon, Land, ChainInv, SentHasNonce, TypeOK, OrderRow
<1>2. CASE Process(o, i, n, v)
  <2>1. tx' \in [Orders -> [MessageIndex -> TxState]]
    BY <1>2 DEF Process, TypeOK, TxState
  <2>2. head' \in [Nonces -> Nat]
    BY <1>1, <1>2 DEF Process, TypeOK
  <2> HIDE DEF n, v
  <2> QED
    BY <1>2, <2>1, <2>2 DEF Process, Execute, TypeOK
<1>3. CASE Confirm(o, i, n, v)
  <2>1. tx' \in [Orders -> [MessageIndex -> TxState]]
    BY <1>3 DEF Confirm, TypeOK, TxState
  <2>2. value' \in [Nonces -> Nat]
    BY <1>1, <1>3 DEF Confirm, TypeOK
  <2> HIDE DEF n, v
  <2> QED
    BY <1>3, <2>1, <2>2 DEF Confirm, Execute, TypeOK
<1>4. CASE Abandon(o, i, n, v)
  <2>1. tx' \in [Orders -> [MessageIndex -> TxState]]
    BY <1>4 DEF Abandon, TypeOK, TxState
  <2>2. head' \in [Nonces -> Nat]
    BY <1>1, <1>4 DEF Abandon, TypeOK
  <2> HIDE DEF n, v
  <2> QED
    BY <1>4, <2>1, <2>2 DEF Abandon, Execute, TypeOK
<1>5. CASE Land(o, i, n, v)
  <2>1. tx' \in [Orders -> [MessageIndex -> TxState]]
    BY <1>5 DEF Land, TypeOK, TxState
  <2>2. head' \in [Nonces -> Nat] /\ value' \in [Nonces -> Nat]
    BY <1>1, <1>5 DEF Land, TypeOK
  <2> HIDE DEF n, v
  <2> QED
    BY <1>5, <2>1, <2>2 DEF Land, Execute, TypeOK
<1> QED
  BY <1>2, <1>3, <1>4, <1>5 DEF Execute

-----------------------------------------------------------------------------
(* What a step leaves in place.  SteadyRows: every row stays, with its      *)
(* nonce and its messages, and a signature stays in its row.               *)
SteadyRows ==
  \A o \in Orders :
    /\ Exists(o)' <=> Exists(o)
    /\ order'[o].nonceAccount = order[o].nonceAccount
    /\ order'[o].nonceValue = order[o].nonceValue
    /\ order'[o].messages = order[o].messages
    /\ order[o].vaultSigs => order'[o].vaultSigs

(* What was sent was sent, and what was confirmed without an error stays so. *)
SteadyTx ==
  \A o \in Orders : \A i \in MessageIndex :
    /\ tx[o][i] # "unsent" => tx'[o][i] # "unsent"
    /\ tx[o][i] = "ok" => tx'[o][i] = "ok"

(* No order that has a row comes to hold an account.                       *)
NoNewHold ==
  \A o \in Orders : \A n \in recorded' :
    Exists(o) /\ holder'[n] = o => n \in recorded /\ holder[n] = o

(* A step that leaves rows and chain alone keeps what is known of the      *)
(* chain.                                                                  *)
LEMMA ChainKept ==
  ASSUME Inv, SteadyRows, UNCHANGED <<tx, value, head>>
  PROVE  ChainInv' /\ NothingLeavesUnsigned' /\ FirstHalfFirst'
<1>1. ChainInv'
  BY DEF Inv, ChainInv, SentHasNonce, ExecutedIsBehind, SeenIsCurrent, SeenIsAlone, HeadLeads,
         SteadyRows
<1>2. NothingLeavesUnsigned'
  BY DEF Inv, NothingLeavesUnsigned, SteadyRows
<1>3. FirstHalfFirst'
  BY DEF Inv, FirstHalfFirst
<1> QED
  BY <1>1, <1>2, <1>3

(* What a handler has established survives the steps of others.            *)
LEMMA EstablishedKept ==
  ASSUME Inv, SteadyRows, SteadyTx, NoNewHold, NEW r \in Requests,
         req[r].pc # "idle", req'[r] = req[r]
  PROVE  Established(r)'
<1> DEFINE o == req[r].order
<1>1. Established(r) /\ o \in Orders /\ Exists(o) /\ order[o].messages \in 0 .. MaxMessages
      /\ req[r].sent \in 0 .. MaxMessages
  BY DEF Inv, HandlerInv, Established, TypeOK, OrderRow, Request
<1>2. 1 .. order[o].messages \subseteq MessageIndex /\ 1 .. req[r].sent \subseteq MessageIndex
  BY <1>1 DEF MessageIndex
<1>3. req'[r].order = o
  OBVIOUS
<1> HIDE DEF o
<1> QED
  BY <1>1, <1>2, <1>3 DEF Established, SteadyRows, SteadyTx, NoNewHold, o

(* Steps that move no request, no row and no transaction.                   *)
LEMMA AsideKept ==
  ASSUME Inv, UNCHANGED <<order, tx, value, head, req>>, NoNewHold
  PROVE  /\ ChainInv' /\ NothingLeavesUnsigned' /\ FirstHalfFirst'
         /\ HandlerInv' /\ ConfirmedMeansLanded' /\ ConfirmedHoldsNothing'
<1>1. SteadyRows /\ SteadyTx
  BY DEF SteadyRows, SteadyTx, Exists
<1>2. HandlerInv'
  BY <1>1, EstablishedKept DEF HandlerInv
<1>3. ConfirmedMeansLanded'
  BY DEF Inv, ConfirmedMeansLanded
<1>4. ConfirmedHoldsNothing'
  BY DEF Inv, ConfirmedHoldsNothing, NoNewHold, Exists
<1> QED
  BY <1>1, <1>2, <1>3, <1>4, ChainKept

(* Steps of one request that move nothing else but accounts to nobody.      *)
LEMMA RequestKept ==
  ASSUME Inv, NEW r \in Requests, SteadyRows, SteadyTx, NoNewHold,
         \A q \in Requests \ {r} : req'[q] = req[q],
         req'[r].pc = "idle" \/ Established(r)'
  PROVE  HandlerInv'
  BY EstablishedKept DEF HandlerInv
(* The create handler keeps the invariant: it works for an order without   *)
(* a row.                                                                  *)
LEMMA CreateStep ==
  ASSUME Inv, NEW o \in Orders, Create(o)
  PROVE  Inv'
<1> USE DEF chainVars, poolVars, NoFault
<1>0. TypeOK /\ TypeOK'
  BY CreateType DEF Inv
<1>1. CASE FindFree(o) /\ UNCHANGED req
  <2>1. NoNewHold
    BY <1>1 DEF FindFree, NoNewHold
  <2>2. RowInv'
    BY <1>1, <1>0 DEF FindFree, GoTo, RowInv, TypeOK, Inv, TableInv, Exists
  <2>3. ReservationInv'
    <3>1. ReservationInv /\ UNCHANGED value
      BY <1>1 DEF FindFree, Inv, TableInv
    <3>2. \A p \in Orders \ {o} : reservation'[p] = reservation[p]
      BY <1>1, <1>0 DEF FindFree, GoTo, TypeOK
    <3>3. \/ reservation'[o].nonce = None /\ reservation'[o].pc = "searching"
          \/ /\ reservation'[o].nonce = reservation[o].nonce
             /\ reservation'[o].value = reservation[o].value
             /\ reservation'[o].pc \in {"reserved", "thrown"}
          \/ /\ reservation'[o].nonce \in Nonces /\ reservation'[o].value = 0
      BY <1>1, <1>0 DEF FindFree, GoTo, TypeOK, Reservation
    <3>4. \A n \in Nonces : value[n] \in Nat
      BY <1>0 DEF TypeOK
    <3> QED
      BY <3>1, <3>2, <3>3, <3>4 DEF ReservationInv
  <2>4. HolderInv'
    BY <1>1 DEF FindFree, HolderInv, Inv, TableInv
  <2> QED
    BY <1>0, <1>1, <2>1, <2>2, <2>3, <2>4, AsideKept DEF FindFree, Inv, TableInv
<1>2. CASE ReadValue(o) /\ UNCHANGED req
  <2>1. NoNewHold
    BY <1>2 DEF ReadValue, NoNewHold
  <2>2. RowInv'
    BY <1>2, <1>0 DEF ReadValue, RowInv, TypeOK, Inv, TableInv, Exists
  <2>3. ReservationInv'
    BY <1>2, <1>0 DEF ReadValue, ReservationInv, TypeOK, Inv, TableInv
  <2>4. HolderInv'
    BY <1>2 DEF ReadValue, HolderInv, Inv, TableInv
  <2> QED
    BY <1>0, <1>2, <2>1, <2>2, <2>3, <2>4, AsideKept DEF ReadValue, Inv, TableInv
<1>3. CASE ReadValueNull(o) /\ UNCHANGED req
  <2>1. NoNewHold
    BY <1>3 DEF ReadValueNull, NoNewHold
  <2>2. RowInv'
    BY <1>3, <1>0 DEF ReadValueNull, GoTo, RowInv, TypeOK, Inv, TableInv, Exists
  <2>3. ReservationInv'
    BY <1>3, <1>0 DEF ReadValueNull, GoTo, ReservationInv, TypeOK, Inv, TableInv
  <2>4. HolderInv'
    BY <1>3 DEF ReadValueNull, HolderInv, Inv, TableInv
  <2> QED
    BY <1>0, <1>3, <2>1, <2>2, <2>3, <2>4, AsideKept DEF ReadValueNull, Inv, TableInv
<1>4. CASE DropRow(o) /\ UNCHANGED req
  <2>1. NoNewHold
    BY <1>4, <1>0 DEF DropRow, NoNewHold, TypeOK
  <2>2. RowInv'
    BY <1>4, <1>0 DEF DropRow, GoTo, RowInv, TypeOK, Inv, TableInv, Exists
  <2>3. ReservationInv'
    <3>1. ReservationInv /\ UNCHANGED value
      BY <1>4 DEF DropRow, Inv, TableInv
    <3>2. \A p \in Orders \ {o} : reservation'[p] = reservation[p]
      BY <1>4, <1>0 DEF DropRow, GoTo, TypeOK
    <3>3. \/ reservation'[o].nonce = None /\ reservation'[o].pc = "searching"
          \/ /\ reservation'[o].nonce = reservation[o].nonce
             /\ reservation'[o].value = reservation[o].value
             /\ reservation'[o].pc \in {"reserved", "thrown"}
          \/ /\ reservation'[o].nonce \in Nonces /\ reservation'[o].value = 0
      BY <1>4, <1>0 DEF DropRow, GoTo, TypeOK, Reservation
    <3>4. \A n \in Nonces : value[n] \in Nat
      BY <1>0 DEF TypeOK
    <3> QED
      BY <3>1, <3>2, <3>3, <3>4 DEF ReservationInv
  <2>4. HolderInv'
    BY <1>4, <1>0 DEF DropRow, HolderInv, Inv, TableInv, TypeOK
  <2> QED
    BY <1>0, <1>4, <2>1, <2>2, <2>3, <2>4, AsideKept DEF DropRow, Inv, TableInv
<1>5. CASE MarkInUse(o) /\ UNCHANGED req
  <2>1. NoNewHold
    <3>1. ~Exists(o)
      BY <1>5 DEF MarkInUse, Inv, TableInv, RowInv
    <3> QED
      BY <1>5, <1>0, <3>1 DEF MarkInUse, NoNewHold, TypeOK
  <2>2. RowInv'
    BY <1>5, <1>0 DEF MarkInUse, GoTo, RowInv, TypeOK, Inv, TableInv, Exists
  <2>3. ReservationInv'
    <3>1. ReservationInv /\ UNCHANGED value
      BY <1>5 DEF MarkInUse, Inv, TableInv
    <3>2. \A p \in Orders \ {o} : reservation'[p] = reservation[p]
      BY <1>5, <1>0 DEF MarkInUse, GoTo, TypeOK
    <3>3. \/ reservation'[o].nonce = None /\ reservation'[o].pc = "searching"
          \/ /\ reservation'[o].nonce = reservation[o].nonce
             /\ reservation'[o].value = reservation[o].value
             /\ reservation'[o].pc \in {"reserved", "thrown"}
          \/ /\ reservation'[o].nonce \in Nonces /\ reservation'[o].value = 0
      BY <1>5, <1>0 DEF MarkInUse, GoTo, TypeOK, Reservation
    <3>4. \A n \in Nonces : value[n] \in Nat
      BY <1>0 DEF TypeOK
    <3> QED
      BY <3>1, <3>2, <3>3, <3>4 DEF ReservationInv
  <2>4. HolderInv'
    BY <1>5, <1>0 DEF MarkInUse, HolderInv, Inv, TableInv, TypeOK
  <2> QED
    BY <1>0, <1>5, <2>1, <2>2, <2>3, <2>4, AsideKept DEF MarkInUse, Inv, TableInv
<1>6. CASE Insert(o)
  <2> DEFINE n == reservation[o].nonce
             v == reservation[o].value
  <2>1. PICK messages \in MessageIndex : order' = [order EXCEPT ![o] = NewRow(n, v, messages)]
    BY <1>6 DEF Insert
  <2>2. /\ ~Exists(o)
        /\ \A i \in MessageIndex : tx[o][i] = "unsent"
        /\ \A r \in Requests : req[r].pc # "idle" => req[r].order # o
        /\ n \in Nonces \cup {None} /\ v \in Nat /\ (n # None => v <= value[n])
        /\ order'[o] = NewRow(n, v, messages)
        /\ \A p \in Orders \ {o} : order'[p] = order[p]
        /\ UNCHANGED <<tx, value, head, req, recorded, holder>>
    BY <1>6, <1>0, <2>1 DEF Insert, Inv, TableInv, RowInv, ReservationInv, ChainInv, SentHasNonce, HandlerInv,
       Established, TypeOK, Reservation
  <2>3. order'[o].status = "AWAITING_SIGNATURE" /\ order'[o].nonceAccount = n
        /\ order'[o].nonceValue = v /\ order'[o].messages = messages
    BY <2>2 DEF NewRow
  <2> HIDE DEF n, v
  <2>4. ChainInv'
    BY <1>0, <2>2, <2>3 DEF ChainInv, SentHasNonce, ExecutedIsBehind, SeenIsCurrent, SeenIsAlone,
                          HeadLeads, Inv, Exists
  <2>5. RowInv'
    <3>1. \A p \in Orders \ {o} : reservation'[p] = reservation[p]
      BY <1>6, <1>0 DEF Insert, TypeOK
    <3>2. reservation'[o].pc = "done"
      BY <1>6, <1>0 DEF Insert, TypeOK
    <3> QED
      BY <2>2, <2>3, <3>1, <3>2 DEF RowInv, Inv, TableInv, Exists
  <2>6. ReservationInv'
    BY <1>6, <1>0 DEF Insert, ReservationInv, TypeOK, Inv, TableInv
  <2>7. HolderInv'
    BY <2>2 DEF HolderInv, Inv, TableInv
  <2>8. HandlerInv'
    BY <1>0, <2>2 DEF HandlerInv, Established, Inv, Exists
  <2>9. ConfirmedMeansLanded' /\ ConfirmedHoldsNothing'
    BY <2>2, <2>3 DEF ConfirmedMeansLanded, ConfirmedHoldsNothing, Inv
  <2>10. NothingLeavesUnsigned' /\ FirstHalfFirst'
    BY <2>2 DEF NothingLeavesUnsigned, FirstHalfFirst, Inv
  <2> QED
    BY <1>0, <2>4, <2>5, <2>6, <2>7, <2>8, <2>9, <2>10 DEF Inv, TableInv
<1>7. CASE BuildFails(o)
  <2>1. NoNewHold
    BY <1>7 DEF BuildFails, NoNewHold
  <2>2. RowInv'
    BY <1>7, <1>0 DEF BuildFails, GoTo, RowInv, TypeOK, Inv, TableInv, Exists
  <2>3. ReservationInv'
    BY <1>7, <1>0 DEF BuildFails, GoTo, ReservationInv, TypeOK, Inv, TableInv
  <2>4. HolderInv'
    BY <1>7 DEF BuildFails, HolderInv, Inv, TableInv
  <2> QED
    BY <1>0, <1>7, <2>1, <2>2, <2>3, <2>4, AsideKept DEF BuildFails, Inv, TableInv
<1> QED
  BY <1>1, <1>2, <1>3, <1>4, <1>5, <1>6, <1>7 DEF Create, Reserve

(* Steps that leave the reservations and every row's identity alone keep   *)
(* what the tables are known to say.                                       *)
LEMMA TableKept ==
  ASSUME Inv, SteadyRows, UNCHANGED <<reservation, value>>,
         \A o \in Orders : order'[o].status = "BROADCAST"
                             => order'[o].txSignatures = order'[o].messages,
         HolderInv'
  PROVE  TableInv'
<1>1. RowInv'
  BY DEF Inv, TableInv, RowInv, SteadyRows
<1>2. ReservationInv'
  BY DEF Inv, TableInv, ReservationInv
<1> QED
  BY <1>1, <1>2 DEF TableInv

(* A request that reads, decides or goes away.                             *)
LEMMA ThinkStep ==
  ASSUME Inv, TypeOK', NEW r \in Requests, UNCHANGED <<chainVars, poolVars, orderVars>>,
         \A q \in Requests \ {r} : req'[q] = req[q],
         req'[r].pc = "idle" \/ Established(r)'
  PROVE  Inv'
<1> USE DEF chainVars, poolVars, orderVars
<1>1. SteadyRows /\ SteadyTx /\ NoNewHold
  BY DEF SteadyRows, SteadyTx, NoNewHold, Exists
<1>2. HandlerInv'
  BY <1>1, RequestKept
<1>3. TableInv'
  BY <1>1, TableKept DEF Inv, TableInv, RowInv, HolderInv, Exists
<1>4. ConfirmedMeansLanded' /\ ConfirmedHoldsNothing'
  BY DEF Inv, ConfirmedMeansLanded, ConfirmedHoldsNothing
<1> QED
  BY <1>1, <1>2, <1>3, <1>4, ChainKept DEF Inv

(* A handler that has read a row keeps the invariant.                      *)
LEMMA ReadStep ==
  ASSUME Inv, NEW r \in Requests, NEW o \in Orders,
         SubmitRead(r, o) \/ ReadStale(r, o) \/ FindRead(r, o)
  PROVE  Inv'
<1>0. TypeOK /\ TypeOK'
  BY ReadType DEF Inv
<1>1. \A q \in Requests \ {r} : req'[q] = req[q]
  BY <1>0 DEF SubmitRead, ReadStale, FindRead, Begin, Decide, TypeOK
<1>2. UNCHANGED <<chainVars, poolVars, orderVars>> /\ Exists(o)
  BY DEF SubmitRead, ReadStale, FindRead
<1>3. UNCHANGED order
  BY <1>2 DEF orderVars
<1>4. Established(r)'
  <2>1. CASE SubmitRead(r, o)
    <3>1. req'[r].pc = "accepting" /\ req'[r].order = o /\ req'[r].sent = 0
      BY <1>0, <2>1 DEF SubmitRead, Begin, TypeOK
    <3> QED
      BY <1>2, <1>3, <3>1 DEF Established, Exists
  <2>2. CASE ReadStale(r, o)
    <3>1. req'[r].pc = "releasing" /\ req'[r].order = o /\ req'[r].outcome = "EXPIRED"
      BY <1>0, <2>2 DEF ReadStale, Decide, TypeOK
    <3> QED
      BY <1>2, <1>3, <3>1 DEF Established, Exists, Terminal
  <2>3. CASE FindRead(r, o)
    <3>1. req'[r].pc = "observing" /\ req'[r].order = o /\ req'[r].sent = order[o].txSignatures
      BY <1>0, <2>3 DEF FindRead, Begin, TypeOK
    <3>2. order[o].txSignatures = order[o].messages
      BY <1>2, <2>3 DEF FindRead, Inv, TableInv, RowInv
    <3> QED
      BY <1>2, <1>3, <3>1, <3>2 DEF Established, Exists
  <2> QED
    BY <2>1, <2>2, <2>3
<1> QED
  BY <1>0, <1>1, <1>2, <1>4, ThinkStep

(* The steps of a handler that write nothing.                              *)
LEMMA DecideStep ==
  ASSUME Inv, NEW r \in Requests,
         Simulate(r) \/ SendRefused(r) \/ ObserveFailed(r) \/ ObserveConfirmed(r)
                     \/ ObservePending(r) \/ Throws(r)
  PROVE  Inv'
<1> DEFINE o == req[r].order
<1>0. TypeOK /\ TypeOK'
  BY HandleType, EndType DEF Inv, Handle
<1>1. \A q \in Requests \ {r} : req'[q] = req[q]
  BY <1>0 DEF Simulate, SendRefused, ObserveFailed, ObserveConfirmed, ObservePending, Throws,
              Step, Return, Decide, TypeOK
<1>2. UNCHANGED <<chainVars, poolVars, orderVars>>
  BY DEF Simulate, SendRefused, ObserveFailed, ObserveConfirmed, ObservePending, Throws
<1>3. UNCHANGED <<order, tx>>
  BY <1>2 DEF orderVars, chainVars
<1>4. Established(r)
  BY DEF Simulate, SendRefused, ObserveFailed, ObserveConfirmed, ObservePending, Throws,
         Inv, HandlerInv
<1>5. req'[r].pc = "idle" \/ Established(r)'
  <2>1. CASE Simulate(r)
    <3>1. \/ req'[r].pc = "idle"
          \/ req'[r] = [req[r] EXCEPT !.pc = "sending"] /\ AllowBroadcast
      BY <1>0, <2>1 DEF Simulate, Step, Return, Idle, TypeOK
    <3>2. order[o].messages > 0
      BY <1>4 DEF Inv, TableInv, RowInv, Established, MessageIndex
    <3>3. req[r].sent = 0 /\ order[o].vaultSigs
      BY <1>4, <2>1 DEF Established, Simulate
    <3>4. CASE req'[r] = [req[r] EXCEPT !.pc = "sending"] /\ AllowBroadcast
      <4>1. req'[r].order = o /\ req'[r].sent = 0 /\ req'[r].pc = "sending"
        BY <1>0, <3>3, <3>4 DEF TypeOK, Request
      <4> QED
        BY <1>3, <1>4, <3>2, <3>3, <3>4, <4>1 DEF Established, Exists
    <3> QED
      BY <3>1, <3>4
  <2>2. CASE SendRefused(r)
    <3>1. req'[r].order = o /\ req'[r].pc = "failing"
      BY <1>0, <2>2 DEF SendRefused, Step, TypeOK, Request
    <3> QED
      BY <1>3, <1>4, <2>2, <3>1 DEF Established, Exists, SendRefused
  <2>3. CASE ObserveFailed(r)
    <3>1. req'[r].order = o /\ req'[r].pc = "releasing" /\ req'[r].outcome = "FAILED"
      BY <1>0, <2>3 DEF ObserveFailed, Decide, TypeOK
    <3> QED
      BY <1>3, <1>4, <3>1 DEF Established, Exists, Terminal
  <2>4. CASE ObserveConfirmed(r)
    <3>1. req'[r].order = o /\ req'[r].pc = "releasing" /\ req'[r].outcome = "CONFIRMED"
      BY <1>0, <2>4 DEF ObserveConfirmed, Decide, TypeOK
    <3>2. \A i \in 1 .. order[o].messages : tx[o][i] = "ok"
      BY <1>4, <2>4 DEF ObserveConfirmed, Observed, Established
    <3> QED
      BY <1>3, <1>4, <3>1, <3>2 DEF Established, Exists, Terminal
  <2>5. CASE ObservePending(r) \/ Throws(r)
    BY <1>0, <2>5 DEF ObservePending, Throws, Return, Idle, TypeOK
  <2> QED
    BY <2>1, <2>2, <2>3, <2>4, <2>5
<1> QED
  BY <1>0, <1>1, <1>2, <1>5, ThinkStep

(* A write to an existing row that keeps its nonce and its messages.       *)
LEMMA RowStep ==
  ASSUME Inv, TypeOK', UNCHANGED <<chainVars, poolVars, reservation>>,
         NEW o \in Orders, Exists(o), order'[o].status # "NONE",
         \A p \in Orders \ {o} : order'[p] = order[p],
         order'[o].nonceAccount = order[o].nonceAccount,
         order'[o].nonceValue = order[o].nonceValue,
         order'[o].messages = order[o].messages,
         order[o].vaultSigs => order'[o].vaultSigs,
         order'[o].status = "BROADCAST" => order'[o].txSignatures = order[o].messages,
         order'[o].status = "CONFIRMED" =>
           /\ \A i \in 1 .. order[o].messages : tx[o][i] = "ok"
           /\ \A n \in recorded : holder[n] # o,
         SteadyRows /\ SteadyTx /\ NoNewHold => HandlerInv'
  PROVE  Inv'
<1> USE DEF chainVars, poolVars
<1>1. SteadyRows
  BY DEF SteadyRows, Exists
<1>2. SteadyTx /\ NoNewHold
  BY DEF SteadyTx, NoNewHold
<1>3. HandlerInv'
  BY <1>1, <1>2
<1>4. \A p \in Orders : order'[p].status = "BROADCAST"
                         => order'[p].txSignatures = order'[p].messages
  BY DEF Inv, TableInv, RowInv, Exists
<1>5. TableInv'
  BY <1>1, <1>4, TableKept DEF Inv, TableInv, HolderInv
<1>6. ConfirmedMeansLanded'
  BY DEF Inv, ConfirmedMeansLanded
<1>7. ConfirmedHoldsNothing'
  BY DEF Inv, ConfirmedHoldsNothing
<1> QED
  BY <1>1, <1>2, <1>3, <1>5, <1>6, <1>7, ChainKept DEF Inv

(* The writes of a handler keep the invariant: each is licensed by what    *)
(* it established.                                                         *)
LEMMA WriteStep ==
  ASSUME Inv, NEW r \in Requests,
         AcceptSignature(r) \/ RecordSendFailure(r) \/ RecordBroadcast(r) \/ WriteOutcome(r)
  PROVE  Inv'
<1> USE DEF NoFault
<1> DEFINE o == req[r].order
<1>0. TypeOK /\ TypeOK'
  BY HandleType DEF Inv, Handle
<1>1. UNCHANGED <<chainVars, poolVars, reservation>>
  BY DEF AcceptSignature, RecordSendFailure, RecordBroadcast, WriteOutcome
<1>2. Established(r) /\ o \in Orders /\ Exists(o) /\ order[o] \in OrderRow
  BY <1>0 DEF AcceptSignature, RecordSendFailure, RecordBroadcast, WriteOutcome, Inv, HandlerInv,
              Established, TypeOK
<1>3. \A q \in Requests \ {r} : req'[q] = req[q]
  BY <1>0 DEF AcceptSignature, RecordSendFailure, RecordBroadcast, WriteOutcome, Step, Return,
              TypeOK
<1>4. \A p \in Orders \ {o} : order'[p] = order[p]
  BY <1>0 DEF AcceptSignature, RecordSendFailure, RecordBroadcast, WriteOutcome, TypeOK
<1>5. /\ order'[o].nonceAccount = order[o].nonceAccount
      /\ order'[o].nonceValue = order[o].nonceValue
      /\ order'[o].messages = order[o].messages
      /\ order[o].vaultSigs => order'[o].vaultSigs
  BY <1>0, <1>2 DEF AcceptSignature, RecordSendFailure, RecordBroadcast, WriteOutcome, TypeOK,
                    OrderRow
<1>6. order'[o].status \in {"SIGNED", "FAILED", "BROADCAST"} \cup Terminal /\ order'[o].status # "NONE"
  <2>1. \/ order'[o].status \in {"SIGNED", "FAILED", "BROADCAST"}
        \/ order'[o].status = req[r].outcome /\ WriteOutcome(r)
    BY <1>0, <1>2 DEF AcceptSignature, RecordSendFailure, RecordBroadcast, WriteOutcome, TypeOK,
                      OrderRow
  <2> QED
    BY <1>2, <2>1 DEF Exists, Terminal, Established, WriteOutcome
<1>7. order'[o].status = "BROADCAST" => order'[o].txSignatures = order[o].messages
  <2>1. CASE RecordBroadcast(r)
    <3>1. order'[o].txSignatures = req[r].sent
      BY <1>0, <1>2, <2>1 DEF RecordBroadcast, TypeOK, OrderRow
    <3> QED
      BY <1>2, <2>1, <3>1 DEF RecordBroadcast, Established
  <2>2. CASE AcceptSignature(r) \/ RecordSendFailure(r)
    BY <1>0, <1>2, <2>2 DEF AcceptSignature, RecordSendFailure, TypeOK, OrderRow
  <2>3. CASE WriteOutcome(r)
    <3>1. order'[o].status = req[r].outcome
      BY <1>0, <1>2, <2>3 DEF WriteOutcome, TypeOK, OrderRow
    <3> QED
      BY <1>2, <2>3, <3>1 DEF WriteOutcome, Established, Terminal
  <2> QED
    BY <2>1, <2>2, <2>3
<1>8. order'[o].status = "CONFIRMED" =>
        /\ \A i \in 1 .. order[o].messages : tx[o][i] = "ok"
        /\ \A n \in recorded : holder[n] # o
  <2>1. CASE AcceptSignature(r) \/ RecordSendFailure(r) \/ RecordBroadcast(r)
    BY <1>0, <1>2, <2>1 DEF AcceptSignature, RecordSendFailure, RecordBroadcast, TypeOK, OrderRow
  <2>2. CASE WriteOutcome(r)
    <3>1. order'[o].status = req[r].outcome
      BY <1>0, <1>2, <2>2 DEF WriteOutcome, TypeOK, OrderRow
    <3> QED
      BY <1>2, <2>2, <3>1 DEF WriteOutcome, Established
  <2> QED
    BY <2>1, <2>2
<1>9. ASSUME SteadyRows, SteadyTx, NoNewHold PROVE HandlerInv'
  <2>1. req'[r].pc = "idle" \/ Established(r)'
    <3>1. CASE AcceptSignature(r)
      <4>1. req'[r].pc = "simulating" /\ req'[r].order = o /\ req'[r].sent = req[r].sent
        BY <1>0, <3>1 DEF AcceptSignature, Step, TypeOK, Request
      <4>2. order'[o].vaultSigs
        BY <1>0, <1>2, <3>1 DEF AcceptSignature, TypeOK, OrderRow
      <4> QED
        BY <1>2, <1>6, <3>1, <4>1, <4>2 DEF AcceptSignature, Established, Exists
    <3>2. CASE RecordBroadcast(r)
      <4>1. req'[r].pc = "observing" /\ req'[r].order = o /\ req'[r].sent = req[r].sent
        BY <1>0, <3>2 DEF RecordBroadcast, Step, TypeOK, Request
      <4> QED
        BY <1>2, <1>5, <1>6, <3>2, <4>1 DEF RecordBroadcast, Established, Exists
    <3>3. CASE RecordSendFailure(r) \/ WriteOutcome(r)
      BY <1>0, <3>3 DEF RecordSendFailure, WriteOutcome, Return, Idle, TypeOK
    <3> QED
      BY <3>1, <3>2, <3>3
  <2> QED
    BY <1>3, <1>9, <2>1, RequestKept
<1> HIDE DEF o
<1> QED
  BY <1>0, <1>1, <1>2, <1>4, <1>5, <1>6, <1>7, <1>8, <1>9, RowStep

(* An order that grows older keeps the invariant.                          *)
LEMMA GrowOldStep ==
  ASSUME Inv, NEW o \in Orders, GrowOld(o)
  PROVE  Inv'
<1>0. TypeOK /\ TypeOK'
  BY EndType DEF Inv
<1>1. UNCHANGED <<chainVars, poolVars, reservation, req>> /\ Exists(o)
  BY DEF GrowOld
<1>2. \A p \in Orders \ {o} : order'[p] = order[p]
  BY <1>0 DEF GrowOld, TypeOK
<1>3. /\ order'[o].nonceAccount = order[o].nonceAccount
      /\ order'[o].nonceValue = order[o].nonceValue
      /\ order'[o].messages = order[o].messages
      /\ order'[o].vaultSigs = order[o].vaultSigs
      /\ order'[o].status = order[o].status
      /\ order'[o].txSignatures = order[o].txSignatures
  BY <1>0 DEF GrowOld, TypeOK, OrderRow
<1>4. order'[o].status # "NONE"
  BY <1>1, <1>3 DEF Exists
<1>5. order[o].status = "BROADCAST" => order[o].txSignatures = order[o].messages
  BY <1>1 DEF Inv, TableInv, RowInv
<1>6. order[o].status = "CONFIRMED" =>
        /\ \A i \in 1 .. order[o].messages : tx[o][i] = "ok"
        /\ \A n \in recorded : holder[n] # o
  BY DEF Inv, ConfirmedMeansLanded, ConfirmedHoldsNothing
<1>7. SteadyRows /\ SteadyTx /\ NoNewHold => HandlerInv'
  BY <1>1, EstablishedKept DEF HandlerInv
<1> QED
  BY <1>0, <1>1, <1>2, <1>3, <1>4, <1>5, <1>6, <1>7, RowStep

(* Freeing an order's accounts keeps the invariant, and the order then     *)
(* holds none.                                                             *)
LEMMA ReleaseStep ==
  ASSUME Inv, NEW r \in Requests, Release(r)
  PROVE  Inv'
<1> USE DEF chainVars, poolVars, orderVars, NoFault
<1> DEFINE o == req[r].order
<1>0. TypeOK /\ TypeOK'
  BY HandleType DEF Inv, Handle
<1>1. Established(r) /\ o \in Orders
  BY DEF Release, Inv, HandlerInv, Established
<1>2. /\ UNCHANGED <<chainVars, orderVars, recorded>>
      /\ \A n \in Nonces : holder'[n] = IF n \in recorded /\ holder[n] = o THEN None ELSE holder[n]
  BY <1>0 DEF Release, ReleaseHeldBy, TypeOK
<1>3. SteadyRows /\ SteadyTx
  BY <1>2 DEF SteadyRows, SteadyTx, Exists
<1>4. NoNewHold
  BY <1>0, <1>1, <1>2 DEF NoNewHold, TypeOK
<1>5. HandlerInv'
  <2>1. \A q \in Requests \ {r} : req'[q] = req[q]
    BY <1>0 DEF Release, Step, TypeOK
  <2>2. req'[r].pc = "writing" /\ req'[r].order = o /\ req'[r].outcome = req[r].outcome
    BY <1>0 DEF Release, Step, TypeOK, Request, RequestPc
  <2>3. \A n \in recorded' : holder'[n] # o
    BY <1>0, <1>1, <1>2 DEF TypeOK
  <2>4. Established(r)'
    BY <1>1, <1>2, <2>2, <2>3 DEF Established, Release, Exists
  <2> QED
    BY <1>3, <1>4, <2>1, <2>4, RequestKept
<1>6. TableInv'
  <2>1. HolderInv'
    BY <1>2 DEF Inv, TableInv, HolderInv
  <2> QED
    BY <1>2, <1>3, <2>1, TableKept DEF Inv, TableInv, RowInv, Exists
<1>7. ConfirmedMeansLanded' /\ ConfirmedHoldsNothing'
  BY <1>2, <1>4 DEF Inv, ConfirmedMeansLanded, ConfirmedHoldsNothing, NoNewHold, Exists
<1> QED
  BY <1>0, <1>2, <1>3, <1>5, <1>6, <1>7, ChainKept DEF Inv

(* A message that is taken in keeps the invariant: it is the next of a     *)
(* signed order.                                                           *)
LEMMA SendStep ==
  ASSUME Inv, NEW r \in Requests, SendAccepted(r) \/ SendUnanswered(r)
  PROVE  Inv'
<1> USE DEF poolVars, orderVars
<1> DEFINE o == req[r].order
           k == Turn(r)
<1>0. TypeOK /\ TypeOK'
  BY HandleType DEF Inv, Handle
<1>1. /\ req[r].pc = "sending" /\ Established(r)
      /\ TakeIn(o, k, order[o].nonceAccount, order[o].nonceValue)
      /\ UNCHANGED <<poolVars, orderVars>>
  BY DEF SendAccepted, SendUnanswered, Inv, HandlerInv
<1>2. /\ o \in Orders /\ Exists(o) /\ order[o].vaultSigs /\ AllowBroadcast
      /\ k = req[r].sent + 1 /\ k \in 1 .. order[o].messages
      /\ req[r].sent \in Nat /\ order[o].messages \in Nat
      /\ order[o].messages <= MaxMessages
      /\ \A i \in 1 .. req[r].sent : tx[o][i] # "unsent"
  BY <1>0, <1>1 DEF Established, Turn, TypeOK, Request, OrderRow
<1>3. k \in MessageIndex /\ order[o].nonceAccount # None
  BY <1>1, <1>2 DEF MessageIndex, TakeIn, Lives
<1>4. /\ UNCHANGED <<value, head>>
      /\ tx[o][k] \in {"unsent", "sent", "seen_ok", "seen_err"}
      /\ tx'[o][k] = IF tx[o][k] = "unsent" THEN "sent" ELSE tx[o][k]
      /\ \A p \in Orders : \A i \in MessageIndex : p # o \/ i # k => tx'[p][i] = tx[p][i]
  BY <1>0, <1>1, <1>2, <1>3 DEF TakeIn, TypeOK
<1>5. UNCHANGED <<order, reservation, recorded, holder>>
  BY <1>1
<1> HIDE DEF o, k
<1>6. SteadyRows /\ SteadyTx /\ NoNewHold
  BY <1>4, <1>5 DEF SteadyRows, SteadyTx, NoNewHold, Exists
<1>7. \A p \in Orders : \A i \in MessageIndex :
        /\ tx'[p][i] \in {"seen_ok", "seen_err", "ok", "err"} => tx[p][i] = tx'[p][i]
        /\ tx'[p][i] # "unsent" => tx[p][i] # "unsent" \/ (p = o /\ i = k)
  BY <1>4
<1>8. ChainInv'
  <2>1. SentHasNonce'
    BY <1>2, <1>3, <1>5, <1>7 DEF Inv, ChainInv, SentHasNonce, Exists
  <2> QED
    BY <1>4, <1>5, <1>7, <2>1 DEF Inv, ChainInv, ExecutedIsBehind, SeenIsCurrent, SeenIsAlone,
                                  HeadLeads
<1>9. NothingLeavesUnsigned'
  BY <1>2, <1>5, <1>7 DEF Inv, NothingLeavesUnsigned
<1>10. FirstHalfFirst'
  <2> SUFFICES ASSUME NEW p \in Orders, NEW i \in MessageIndex, i > 1, tx'[p][i] # "unsent"
               PROVE  tx'[p][i - 1] # "unsent"
    BY DEF FirstHalfFirst
  <2>1. i - 1 \in MessageIndex
    BY DEF MessageIndex
  <2>2. tx[p][i - 1] # "unsent"
    BY <1>2, <1>7, <2>1 DEF Inv, FirstHalfFirst, MessageIndex
  <2> QED
    BY <1>6, <2>1, <2>2 DEF SteadyTx
<1>11. ConfirmedMeansLanded' /\ ConfirmedHoldsNothing'
  <2>1. \A p \in Orders : Exists(p) => 1 .. order[p].messages \subseteq MessageIndex
    BY DEF Inv, TableInv, RowInv, MessageIndex
  <2> QED
    BY <1>5, <1>6, <2>1 DEF Inv, ConfirmedMeansLanded, ConfirmedHoldsNothing, SteadyTx, Exists
<1>12. TableInv'
  BY <1>4, <1>5, <1>6, TableKept DEF Inv, TableInv, RowInv, HolderInv, Exists
<1>13. HandlerInv'
  <2>1. \A q \in Requests \ {r} : req'[q] = req[q]
    BY <1>0 DEF SendAccepted, SendUnanswered, Step, TypeOK
  <2>2. req'[r].order = o
    BY <1>0 DEF SendAccepted, SendUnanswered, Step, TypeOK, Request, o
  <2>3. \/ req'[r].pc = "failing"
        \/ /\ req'[r].pc = "sending" /\ req'[r].sent = k
           /\ k # order[o].messages
        \/ /\ req'[r].pc = "broadcast" /\ req'[r].sent = k
           /\ k = order[o].messages
    BY <1>0 DEF SendAccepted, SendUnanswered, Step, TypeOK, Request, o, k
  <2>4. tx'[o][k] # "unsent"
    BY <1>4
  <2>5. \A i \in 1 .. k : tx'[o][i] # "unsent"
    BY <1>2, <1>3, <1>6, <2>4 DEF SteadyTx, MessageIndex
  <2>6. Established(r)'
    BY <1>2, <1>5, <2>2, <2>3, <2>5 DEF Established, Exists
  <2> QED
    BY <1>6, <2>1, <2>6, RequestKept
<1> QED
  BY <1>0, <1>8, <1>9, <1>10, <1>11, <1>12, <1>13 DEF Inv

(* A create handler that throws keeps the invariant.                       *)
LEMMA CreateThrowsStep ==
  ASSUME Inv, NEW o \in Orders, CreateThrows(o)
  PROVE  Inv'
<1> USE DEF chainVars, poolVars
<1>0. TypeOK /\ TypeOK'
  BY EndType DEF Inv
<1>1. NoNewHold
  BY DEF CreateThrows, NoNewHold
<1>2. RowInv'
  <2>1. ~Exists(o)
    BY DEF CreateThrows, InCreate, Inv, TableInv, RowInv
  <2> QED
    BY <1>0, <2>1 DEF CreateThrows, GoTo, RowInv, TypeOK, Inv, TableInv, Exists
<1>3. ReservationInv'
  BY <1>0 DEF CreateThrows, GoTo, ReservationInv, TypeOK, Inv, TableInv
<1>4. HolderInv'
  BY DEF CreateThrows, HolderInv, Inv, TableInv
<1> QED
  BY <1>0, <1>1, <1>2, <1>3, <1>4, AsideKept DEF CreateThrows, Inv, TableInv

(* A crash of the relayer keeps the invariant: nothing it relied on was    *)
(* in memory only.                                                         *)
LEMMA CrashStep ==
  ASSUME Inv, RelayerCrashes
  PROVE  Inv'
<1> USE DEF chainVars, poolVars
<1>0. TypeOK /\ TypeOK'
  BY EndType DEF Inv
<1>1. /\ UNCHANGED <<tx, value, head, order, recorded, holder>>
      /\ \A r \in Requests : req'[r].pc = "idle"
      /\ \A o \in Orders : /\ reservation'[o].nonce = reservation[o].nonce
                           /\ reservation'[o].value = reservation[o].value
                           /\ reservation'[o].pc \in {reservation[o].pc, "thrown"}
                           /\ reservation[o].pc = "done" => reservation'[o].pc = "done"
  BY <1>0 DEF RelayerCrashes, InCreate, Idle, TypeOK, Reservation
<1>2. SteadyRows
  BY <1>1 DEF SteadyRows, Exists
<1>3. HandlerInv'
  BY <1>1 DEF HandlerInv
<1>4. TableInv'
  <2>1. RowInv'
    BY <1>1 DEF Inv, TableInv, RowInv, Exists
  <2>2. ReservationInv'
    BY <1>1 DEF Inv, TableInv, ReservationInv
  <2> QED
    BY <1>1, <2>1, <2>2 DEF Inv, TableInv, HolderInv
<1>5. ConfirmedMeansLanded' /\ ConfirmedHoldsNothing'
  BY <1>1 DEF Inv, ConfirmedMeansLanded, ConfirmedHoldsNothing
<1> QED
  BY <1>0, <1>1, <1>2, <1>3, <1>4, <1>5, ChainKept DEF Inv

(* The nonce-pool command keeps the invariant: it only takes accounts      *)
(* away from orders.                                                       *)
LEMMA CliStep ==
  ASSUME Inv, Cli, UNCHANGED req
  PROVE  Inv'
<1> USE DEF chainVars, poolVars
<1>0. TypeOK /\ TypeOK'
  BY CliType DEF Inv
<1>1. /\ UNCHANGED <<order, tx, value, head, reservation>>
      /\ \A n \in Nonces : n \in recorded => n \in recorded'
      /\ \A n \in Nonces : holder'[n] \in {holder[n], None}
  BY <1>0 DEF Cli, ListHeld, CheckHeld, FreeChosen, ReleaseRows, CreateAccount, OpenAccount,
              RecordAccount, CliDies, TypeOK
<1>2. HolderInv'
  BY <1>0, <1>1 DEF Inv, TableInv, HolderInv, TypeOK
<1>3. NoNewHold
  BY <1>0, <1>1 DEF NoNewHold, Inv, TableInv, HolderInv, TypeOK
<1>4. RowInv' /\ ReservationInv'
  BY <1>1 DEF Inv, TableInv, RowInv, ReservationInv, Exists
<1> QED
  BY <1>0, <1>1, <1>2, <1>3, <1>4, AsideKept DEF Inv, TableInv

(* The cluster moves one transaction.                                      *)
LEMMA ExecuteStep ==
  ASSUME Inv, NEW o \in Orders, NEW i \in MessageIndex, Execute(o, i)
  PROVE  Inv'
<1> USE DEF poolVars, orderVars
<1> DEFINE n == order[o].nonceAccount
           v == order[o].nonceValue
<1>0. TypeOK /\ TypeOK'
  BY ExecuteType DEF Inv
<1>1. /\ UNCHANGED <<order, reservation, recorded, holder, req>>
      /\ Process(o, i, n, v) \/ Confirm(o, i, n, v) \/ Abandon(o, i, n, v) \/ Land(o, i, n, v)
  BY DEF Execute
<1>2. tx[o][i] \in {"sent", "seen_ok", "seen_err"}
  BY <1>1 DEF Process, Confirm, Abandon, Land
<1>3. /\ Exists(o) /\ n \in Nonces /\ v \in Nat /\ v <= value[n]
      /\ \A m \in Nonces : value[m] \in Nat /\ head[m] \in Nat /\ value[m] <= head[m]
  BY <1>0, <1>2 DEF Inv, ChainInv, SentHasNonce, HeadLeads, TableInv, RowInv, TypeOK, OrderRow
<1> HIDE DEF n, v
<1>4. /\ tx'[o][i] # "unsent"
      /\ \A p \in Orders : \A j \in MessageIndex : p # o \/ j # i => tx'[p][j] = tx[p][j]
  BY <1>0, <1>1 DEF Process, Confirm, Abandon, Land, TypeOK
<1>5. \/ /\ tx[o][i] = "sent" /\ value[n] = v /\ head[n] = v
         /\ tx'[o][i] \in {"seen_ok", "seen_err"}
         /\ value' = value /\ head' = [head EXCEPT ![n] = v + 1]
      \/ /\ tx[o][i] \in {"seen_ok", "seen_err"} /\ value[n] = v /\ head[n] = v + 1
         /\ tx'[o][i] \in {"ok", "err"}
         /\ value' = [value EXCEPT ![n] = v + 1] /\ head' = head
      \/ /\ tx[o][i] \in {"seen_ok", "seen_err"} /\ value[n] = v /\ head[n] = v + 1
         /\ tx'[o][i] = "sent"
         /\ value' = value /\ head' = [head EXCEPT ![n] = v]
      \/ /\ tx[o][i] = "sent" /\ value[n] = v /\ head[n] = v
         /\ tx'[o][i] \in {"ok", "err"}
         /\ value' = [value EXCEPT ![n] = v + 1] /\ head' = [head EXCEPT ![n] = v + 1]
  <2>1. CASE Process(o, i, n, v)
    <3>1. tx[o][i] = "sent" /\ head[n] = v
      BY <2>1 DEF Process, Lives
    <3>2. value[n] = v
      BY <1>3, <3>1
    <3>3. tx'[o][i] \in {"seen_ok", "seen_err"}
      BY <1>0, <2>1 DEF Process, TypeOK
    <3> QED
      BY <2>1, <3>1, <3>2, <3>3 DEF Process
  <2>2. CASE Confirm(o, i, n, v)
    BY <1>0, <2>2 DEF Confirm, Inv, ChainInv, SeenIsCurrent, TypeOK, n, v
  <2>3. CASE Abandon(o, i, n, v)
    BY <1>0, <2>3 DEF Abandon, Inv, ChainInv, SeenIsCurrent, TypeOK, n, v
  <2>4. CASE Land(o, i, n, v)
    BY <1>0, <1>3, <2>4 DEF Land, Lives, TypeOK
  <2> QED
    BY <1>1, <2>1, <2>2, <2>3, <2>4
<1>6. SteadyRows /\ SteadyTx /\ NoNewHold
  BY <1>1, <1>2, <1>4 DEF SteadyRows, SteadyTx, NoNewHold, Exists
<1>7. \A m \in Nonces : /\ value'[m] \in Nat /\ value[m] <= value'[m] /\ value'[m] <= head'[m]
                        /\ m # n => value'[m] = value[m] /\ head'[m] = head[m]
  BY <1>0, <1>3, <1>5 DEF TypeOK
<1>8. \A p \in Orders : \A j \in MessageIndex :
        tx[p][j] # "unsent" =>
          /\ order[p].nonceAccount \in Nonces /\ order[p].nonceValue \in Nat
          /\ order[p].nonceValue <= value[order[p].nonceAccount]
  BY <1>0 DEF Inv, ChainInv, SentHasNonce, TableInv, RowInv, TypeOK, OrderRow
<1>9. \A p \in Orders : \A j \in MessageIndex :
        tx[p][j] \in {"seen_ok", "seen_err"} /\ order[p].nonceAccount = n => p = o /\ j = i
  BY <1>3, <1>5 DEF Inv, ChainInv, SeenIsCurrent, SeenIsAlone, n, v
<1>10. ChainInv'
  <2>1. SentHasNonce'
    BY <1>1, <1>2, <1>4, <1>3 DEF Inv, ChainInv, SentHasNonce, Exists
  <2>2. ExecutedIsBehind'
    <3> SUFFICES ASSUME NEW p \in Orders, NEW j \in MessageIndex, tx'[p][j] \in {"ok", "err"}
                 PROVE  order[p].nonceValue < value'[order[p].nonceAccount]
      BY <1>1 DEF ExecutedIsBehind
    <3>1. CASE p = o /\ j = i
      BY <1>0, <1>3, <1>5, <3>1 DEF TypeOK, n, v
    <3>2. CASE p # o \/ j # i
      <4>1. tx[p][j] \in {"ok", "err"}
        BY <1>4, <3>2
      <4> QED
        BY <1>3, <1>7, <1>8, <4>1 DEF Inv, ChainInv, ExecutedIsBehind
    <3> QED
      BY <3>1, <3>2
  <2>3. SeenIsCurrent'
    <3> SUFFICES ASSUME NEW p \in Orders, NEW j \in MessageIndex,
                        tx'[p][j] \in {"seen_ok", "seen_err"}
                 PROVE  /\ value'[order[p].nonceAccount] = order[p].nonceValue
                        /\ head'[order[p].nonceAccount] = order[p].nonceValue + 1
      BY <1>1 DEF SeenIsCurrent
    <3>1. CASE p = o /\ j = i
      BY <1>0, <1>3, <1>5, <3>1 DEF TypeOK, n, v
    <3>2. CASE p # o \/ j # i
      <4>1. tx[p][j] \in {"seen_ok", "seen_err"}
        BY <1>4, <3>2
      <4>2. order[p].nonceAccount # n /\ order[p].nonceAccount \in Nonces
        BY <1>8, <1>9, <3>2, <4>1
      <4> QED
        BY <1>7, <4>1, <4>2 DEF Inv, ChainInv, SeenIsCurrent
    <3> QED
      BY <3>1, <3>2
  <2>4. SeenIsAlone'
    BY <1>1, <1>4, <1>9 DEF Inv, ChainInv, SeenIsAlone, n
  <2>5. HeadLeads'
    BY <1>7 DEF HeadLeads
  <2> QED
    BY <2>1, <2>2, <2>3, <2>4, <2>5 DEF ChainInv
<1>11. NothingLeavesUnsigned' /\ FirstHalfFirst'
  <2>1. \A p \in Orders : \A j \in MessageIndex : tx'[p][j] # "unsent" <=> tx[p][j] # "unsent"
    BY <1>2, <1>4
  <2>2. \A j \in MessageIndex : j > 1 => j - 1 \in MessageIndex
    BY DEF MessageIndex
  <2> QED
    BY <1>1, <2>1, <2>2 DEF Inv, NothingLeavesUnsigned, FirstHalfFirst
<1>12. ConfirmedMeansLanded' /\ ConfirmedHoldsNothing'
  <2>1. \A p \in Orders : Exists(p) => 1 .. order[p].messages \subseteq MessageIndex
    BY DEF Inv, TableInv, RowInv, MessageIndex
  <2> QED
    BY <1>1, <1>6, <2>1 DEF Inv, ConfirmedMeansLanded, ConfirmedHoldsNothing, SteadyTx, Exists
<1>13. HandlerInv'
  BY <1>1, <1>6, EstablishedKept DEF HandlerInv
<1>14. TableInv'
  <2>1. RowInv'
    <3> SUFFICES ASSUME NEW p \in Orders, Exists(p), order[p].nonceAccount # None
                 PROVE  order[p].nonceValue <= value'[order[p].nonceAccount]
      BY <1>1 DEF Inv, TableInv, RowInv, Exists
    <3>1. order[p].nonceAccount \in Nonces /\ order[p].nonceValue \in Nat
      BY <1>0 DEF TypeOK, OrderRow
    <3> QED
      BY <1>3, <1>7, <3>1 DEF Inv, TableInv, RowInv
  <2>2. ReservationInv'
    <3> SUFFICES ASSUME NEW p \in Orders, reservation[p].nonce # None
                 PROVE  reservation[p].value <= value'[reservation[p].nonce]
      BY <1>1 DEF Inv, TableInv, ReservationInv
    <3>1. reservation[p].nonce \in Nonces /\ reservation[p].value \in Nat
      BY <1>0 DEF TypeOK, Reservation
    <3> QED
      BY <1>3, <1>7, <3>1 DEF Inv, TableInv, ReservationInv
  <2>3. HolderInv'
    BY <1>1 DEF Inv, TableInv, HolderInv
  <2> QED
    BY <2>1, <2>2, <2>3 DEF TableInv
<1> QED
  BY <1>0, <1>10, <1>11, <1>12, <1>13, <1>14 DEF Inv

-----------------------------------------------------------------------------
(* The invariant.                                                          *)

(* The initial state satisfies the invariant.                              *)
LEMMA InitInv == Init => Inv
<1> SUFFICES ASSUME Init PROVE Inv
  OBVIOUS
<1>1. TypeOK
  BY InitType
<1>2. /\ \A o \in Orders : ~Exists(o) /\ order[o].status = "NONE" /\ order[o].nonceAccount = None
      /\ \A o \in Orders : \A i \in MessageIndex : tx[o][i] = "unsent"
      /\ \A n \in Nonces : value[n] = 0 /\ head[n] = 0 /\ holder[n] = None
      /\ \A o \in Orders : reservation[o].pc = "idle" /\ reservation[o].nonce = None
      /\ \A r \in Requests : req[r].pc = "idle"
  BY DEF Init, ClusterInit, PoolInit, OrdersInit, NoRow, Idle, Exists
<1>3. ChainInv
  BY <1>2 DEF ChainInv, SentHasNonce, ExecutedIsBehind, SeenIsCurrent, SeenIsAlone, HeadLeads
<1>4. TableInv /\ HandlerInv
  BY <1>2 DEF TableInv, RowInv, ReservationInv, HolderInv, HandlerInv
<1>5. ConfirmedMeansLanded /\ ConfirmedHoldsNothing /\ NothingLeavesUnsigned /\ FirstHalfFirst
  <2>1. \A i \in MessageIndex : i > 1 => i - 1 \in MessageIndex
    BY DEF MessageIndex
  <2> QED
    BY <1>2, <2>1 DEF ConfirmedMeansLanded, ConfirmedHoldsNothing, NothingLeavesUnsigned, FirstHalfFirst
<1> QED
  BY <1>1, <1>3, <1>4, <1>5 DEF Inv

(* Every step keeps the invariant.                                         *)
LEMMA NextInv == Inv /\ [Next]_vars => Inv'
<1> SUFFICES ASSUME Inv, [Next]_vars PROVE Inv'
  OBVIOUS
<1>1. CASE \E o \in Orders : Create(o)
  BY <1>1, CreateStep
<1>2. CASE \E o \in Orders : CreateThrows(o)
  BY <1>2, CreateThrowsStep
<1>3. CASE \E o \in Orders : GrowOld(o)
  BY <1>3, GrowOldStep
<1>4. CASE \E r \in Requests, o \in Orders : SubmitRead(r, o) \/ ReadStale(r, o) \/ FindRead(r, o)
  BY <1>4, ReadStep
<1>5. CASE \E r \in Requests : Handle(r) \/ Throws(r)
  BY <1>5, DecideStep, WriteStep, ReleaseStep, SendStep DEF Handle
<1>6. CASE RelayerCrashes
  BY <1>6, CrashStep
<1>7. CASE Cli /\ UNCHANGED req
  BY <1>7, CliStep
<1>8. CASE \E o \in Orders, i \in MessageIndex : Execute(o, i)
  BY <1>8, ExecuteStep
<1>9. CASE UNCHANGED vars
  <2> USE DEF vars, chainVars, poolVars, orderVars
  <2>1. TypeOK' /\ TableInv'
    BY <1>9 DEF Inv, TypeOK, TableInv, RowInv, ReservationInv, HolderInv, Exists
  <2>2. NoNewHold
    BY <1>9 DEF NoNewHold
  <2> QED
    BY <1>9, <2>1, <2>2, AsideKept DEF Inv
<1> QED
  BY <1>1, <1>2, <1>3, <1>4, <1>5, <1>6, <1>7, <1>8, <1>9 DEF Next

(* Every behaviour keeps the inductive invariant.                          *)
THEOREM Invariant == Spec => []Inv
  BY InitInv, NextInv, PTL DEF Spec

(* Whatever is read, sent, crashed or forked, every variable keeps its type. *)
THEOREM TypeCorrect == Spec => []TypeOK
  BY Invariant, PTL DEF Inv

(* An order whose row says CONFIRMED was executed without an error, all of  *)
(* it: recordOutcome is right however late and however often it runs.      *)
THEOREM ConfirmedIsTrue == Spec => []ConfirmedMeansLanded
  BY Invariant, PTL DEF Inv

(* An order whose row says CONFIRMED holds no account of the pool: its     *)
(* nonce is back, whoever crashed on the way.                              *)
THEOREM ConfirmedFreesNonce == Spec => []ConfirmedHoldsNothing
  BY Invariant, PTL DEF Inv

(* Nothing leaves the relayer that the vault did not sign, and nothing at  *)
(* all while broadcasting is off.                                          *)
THEOREM OnlySignedLeaves == Spec => []NothingLeavesUnsigned
  BY Invariant, PTL DEF Inv

(* The second half of a basket leaves after the first, for any number of    *)
(* messages and of handlers that send them.                                *)
THEOREM HalvesInOrder == Spec => []FirstHalfFirst
  BY Invariant, PTL DEF Inv

-----------------------------------------------------------------------------
(* The life of a row, of a request slot and of a transaction: what a step  *)
(* may do to one of them, and which actions do it.                         *)

(* A slot moves when its own handler does, or when its process ends.       *)
LEMMA SlotStep ==
  ASSUME TypeOK, [Next]_vars, NEW q \in Requests
  PROVE
    \/ req'[q] = req[q]
    \/ /\ req'[q].pc = "idle"
       /\ Simulate(q) \/ RecordSendFailure(q) \/ ObservePending(q) \/ WriteOutcome(q)
            \/ faults' # faults
    \/ \E o \in Orders :
         /\ req'[q].order = o
         /\ \/ SubmitRead(q, o) /\ req'[q].pc = "accepting" /\ req'[q].sent = 0
            \/ ReadStale(q, o) /\ req'[q].pc = "releasing" /\ req'[q].outcome = "EXPIRED"
            \/ FindRead(q, o) /\ req'[q].pc = "observing"
    \/ /\ req'[q].order = req[q].order
       /\ \/ AcceptSignature(q) /\ req'[q].pc = "simulating" /\ req'[q].sent = req[q].sent
          \/ Simulate(q) /\ req'[q].pc = "sending" /\ req'[q].sent = req[q].sent
          \/ SendAccepted(q) /\ req'[q].pc \in {"sending", "broadcast"} /\ req'[q].sent = Turn(q)
          \/ SendAccepted(q) /\ req'[q].pc = "failing" /\ faults' # faults
          \/ SendRefused(q) /\ req'[q].pc = "failing" /\ req'[q].sent = req[q].sent
          \/ SendUnanswered(q) /\ req'[q].pc = "failing" /\ faults' # faults
          \/ RecordBroadcast(q) /\ req'[q].pc = "observing"
          \/ ObserveFailed(q) /\ req'[q].pc = "releasing" /\ req'[q].outcome = "FAILED"
          \/ ObserveConfirmed(q) /\ req'[q].pc = "releasing" /\ req'[q].outcome = "CONFIRMED"
          \/ Release(q) /\ req'[q].pc = "writing" /\ req'[q].outcome = req[q].outcome
<1> USE DEF TypeOK
<1>0. req[q] \in Request /\ (Fault => faults' # faults)
  BY DEF Fault
<1>1. CASE \E o \in Orders : Create(o) \/ CreateThrows(o) \/ GrowOld(o)
  BY <1>1 DEF Create, Insert, BuildFails, CreateThrows, GrowOld
<1>2. CASE \E r \in Requests, o \in Orders : SubmitRead(r, o) \/ ReadStale(r, o) \/ FindRead(r, o)
  BY <1>2 DEF SubmitRead, ReadStale, FindRead, Begin, Decide
<1>3. ASSUME NEW r \in Requests, r # q, Handle(r) \/ Throws(r)
      PROVE  req'[q] = req[q]
  BY <1>3 DEF Handle, AcceptSignature, Simulate, SendAccepted, SendRefused, SendUnanswered,
              RecordSendFailure, RecordBroadcast, ObserveFailed, ObserveConfirmed,
              ObservePending, Release, WriteOutcome, Throws, Step, Return, Decide
<1>4. CASE AcceptSignature(q) \/ RecordBroadcast(q) \/ Release(q)
  BY <1>0, <1>4 DEF AcceptSignature, RecordBroadcast, Release, Step, Request
<1>11. CASE Simulate(q)
  BY <1>0, <1>11 DEF Simulate, Step, Return, Idle, Request
<1>5. CASE SendAccepted(q)
  BY <1>0, <1>5 DEF SendAccepted, Request
<1>6. CASE SendRefused(q) \/ SendUnanswered(q)
  BY <1>0, <1>6 DEF SendRefused, SendUnanswered, Step, Request
<1>7. CASE ObserveFailed(q) \/ ObserveConfirmed(q)
  BY <1>0, <1>7 DEF ObserveFailed, ObserveConfirmed, Decide
<1>8. CASE RecordSendFailure(q) \/ ObservePending(q) \/ WriteOutcome(q) \/ Throws(q)
  BY <1>0, <1>8 DEF RecordSendFailure, ObservePending, WriteOutcome, Throws, Return, Idle
<1>9. CASE RelayerCrashes
  BY <1>0, <1>9 DEF RelayerCrashes, Idle
<1>10. CASE \/ Cli /\ UNCHANGED req
            \/ \E o \in Orders, i \in MessageIndex : Execute(o, i)
            \/ UNCHANGED vars
  BY <1>10 DEF Execute, vars
<1> QED
  BY <1>1, <1>2, <1>3, <1>4, <1>5, <1>6, <1>7, <1>8, <1>9, <1>10, <1>11 DEF Next, Handle

(* A row is inserted once; then its handlers write it, and it grows old.   *)
LEMMA RowChange ==
  ASSUME Inv, [Next]_vars, NEW o \in Orders
  PROVE
    \/ order'[o] = order[o]
    \/ /\ Insert(o) /\ ~Exists(o)
       /\ \E m \in MessageIndex :
            order'[o] = NewRow(reservation[o].nonce, reservation[o].value, m)
    \/ /\ Exists(o)
       /\ order'[o].nonceAccount = order[o].nonceAccount
       /\ order'[o].nonceValue = order[o].nonceValue
       /\ order'[o].messages = order[o].messages
       /\ \/ /\ GrowOld(o)
             /\ order'[o].status = order[o].status /\ order'[o].error = order[o].error
             /\ order'[o].txSignatures = order[o].txSignatures
             /\ order'[o].vaultSigs = order[o].vaultSigs
          \/ \E r \in Requests :
               /\ req[r].order = o
               /\ \/ /\ AcceptSignature(r) /\ order'[o].status = "SIGNED" /\ order'[o].vaultSigs
                     /\ order'[o].error = order[o].error
                     /\ order'[o].txSignatures = order[o].txSignatures
                  \/ /\ RecordSendFailure(r) /\ order'[o].status = "FAILED"
                     /\ order'[o].error # "rejected"
                     /\ order'[o].txSignatures = req[r].sent
                     /\ order'[o].vaultSigs = order[o].vaultSigs
                  \/ /\ RecordBroadcast(r) /\ order'[o].status = "BROADCAST"
                     /\ order'[o].error = order[o].error
                     /\ order'[o].txSignatures = req[r].sent
                     /\ order'[o].vaultSigs = order[o].vaultSigs
                  \/ /\ WriteOutcome(r) /\ order'[o].status = req[r].outcome
                     /\ req[r].outcome # "FAILED" => order'[o].error = order[o].error
                     /\ order'[o].txSignatures = order[o].txSignatures
                     /\ order'[o].vaultSigs = order[o].vaultSigs
<1>0. TypeOK /\ order[o] \in OrderRow
  BY DEF Inv, TypeOK
<1>1. CASE order' = order
  BY <1>1
<1>2. CASE \E p \in Orders : Insert(p)
  <2>1. PICK p \in Orders : Insert(p)
    BY <1>2
  <2>2. ~Exists(p)
    BY <2>1 DEF Insert, Inv, TableInv, RowInv
  <2>3. CASE p = o
    <3>1. PICK m \in MessageIndex : order' = [order EXCEPT ![o] =
             NewRow(reservation[o].nonce, reservation[o].value, m)]
      BY <2>1, <2>3 DEF Insert
    <3>2. order'[o] = NewRow(reservation[o].nonce, reservation[o].value, m)
      BY <1>0, <3>1 DEF TypeOK
    <3> QED
      BY <2>1, <2>2, <2>3, <3>2
  <2>4. CASE p # o
    BY <1>0, <2>1, <2>4 DEF Insert, TypeOK
  <2> QED
    BY <2>3, <2>4
<1>3. CASE \E p \in Orders : GrowOld(p)
  <2>1. PICK p \in Orders : GrowOld(p)
    BY <1>3
  <2>2. CASE p = o
    BY <1>0, <2>1, <2>2 DEF GrowOld, TypeOK, OrderRow
  <2>3. CASE p # o
    BY <1>0, <2>1, <2>3 DEF GrowOld, TypeOK
  <2> QED
    BY <2>2, <2>3
<1>4. ASSUME NEW r \in Requests,
             AcceptSignature(r) \/ RecordSendFailure(r) \/ RecordBroadcast(r) \/ WriteOutcome(r),
             req[r].order # o
      PROVE  order'[o] = order[o]
  BY <1>0, <1>4 DEF AcceptSignature, RecordSendFailure, RecordBroadcast, WriteOutcome, TypeOK
<1>5. \A r \in Requests : req[r].pc # "idle" => Exists(req[r].order)
  BY DEF Inv, HandlerInv, Established
<1>6. ASSUME NEW r \in Requests, req[r].order = o, AcceptSignature(r)
      PROVE  /\ Exists(o) /\ order'[o].status = "SIGNED" /\ order'[o].vaultSigs
             /\ order'[o].nonceAccount = order[o].nonceAccount
             /\ order'[o].nonceValue = order[o].nonceValue
             /\ order'[o].messages = order[o].messages
             /\ order'[o].error = order[o].error
             /\ order'[o].txSignatures = order[o].txSignatures
  BY <1>0, <1>5, <1>6 DEF AcceptSignature, TypeOK, OrderRow
<1>7. ASSUME NEW r \in Requests, req[r].order = o, RecordSendFailure(r)
      PROVE  /\ Exists(o) /\ order'[o].status = "FAILED" /\ order'[o].error # "rejected"
             /\ order'[o].nonceAccount = order[o].nonceAccount
             /\ order'[o].nonceValue = order[o].nonceValue
             /\ order'[o].messages = order[o].messages
             /\ order'[o].vaultSigs = order[o].vaultSigs
             /\ order'[o].txSignatures = req[r].sent
  BY <1>0, <1>5, <1>7 DEF RecordSendFailure, TypeOK, OrderRow
<1>8. ASSUME NEW r \in Requests, req[r].order = o, RecordBroadcast(r)
      PROVE  /\ Exists(o) /\ order'[o].status = "BROADCAST" /\ order'[o].error = order[o].error
             /\ order'[o].nonceAccount = order[o].nonceAccount
             /\ order'[o].nonceValue = order[o].nonceValue
             /\ order'[o].messages = order[o].messages
             /\ order'[o].vaultSigs = order[o].vaultSigs
             /\ order'[o].txSignatures = req[r].sent
  BY <1>0, <1>5, <1>8 DEF RecordBroadcast, TypeOK, OrderRow
<1>9. ASSUME NEW r \in Requests, req[r].order = o, WriteOutcome(r)
      PROVE  /\ Exists(o) /\ order'[o].status = req[r].outcome
             /\ req[r].outcome # "FAILED" => order'[o].error = order[o].error
             /\ order'[o].nonceAccount = order[o].nonceAccount
             /\ order'[o].nonceValue = order[o].nonceValue
             /\ order'[o].messages = order[o].messages
             /\ order'[o].vaultSigs = order[o].vaultSigs
             /\ order'[o].txSignatures = order[o].txSignatures
  BY <1>0, <1>5, <1>9 DEF WriteOutcome, TypeOK, OrderRow
<1>10. CASE \E r \in Requests : AcceptSignature(r) \/ RecordSendFailure(r) \/ RecordBroadcast(r)
                                  \/ WriteOutcome(r)
  BY <1>4, <1>6, <1>7, <1>8, <1>9, <1>10
<1>11. \/ order' = order
       \/ \E p \in Orders : Insert(p) \/ GrowOld(p)
       \/ \E r \in Requests : AcceptSignature(r) \/ RecordSendFailure(r) \/ RecordBroadcast(r)
                               \/ WriteOutcome(r)
  <2>1. CASE \E p \in Orders : Create(p) \/ CreateThrows(p) \/ GrowOld(p)
    BY <2>1 DEF Create, Reserve, FindFree, ReadValue, ReadValueNull, DropRow, MarkInUse, BuildFails,
                CreateThrows
  <2>2. CASE \E r \in Requests, p \in Orders :
                SubmitRead(r, p) \/ ReadStale(r, p) \/ FindRead(r, p)
    BY <2>2 DEF SubmitRead, ReadStale, FindRead, orderVars
  <2>3. CASE \E r \in Requests : Handle(r) \/ Throws(r)
    BY <2>3 DEF Handle, Simulate, SendAccepted, SendRefused, SendUnanswered, ObserveFailed,
                ObserveConfirmed, ObservePending, Release, Throws, orderVars
  <2>4. CASE RelayerCrashes \/ Cli
    BY <2>4, Zenon DEF RelayerCrashes, Cli, ListHeld, FreeChosen, RecordAccount, CliDies, CheckHeld,
                       CreateAccount
  <2>5. CASE UNCHANGED vars \/ \E p \in Orders, i \in MessageIndex : Execute(p, i)
    BY <2>5 DEF Execute, vars, orderVars
  <2> QED
    BY <2>1, <2>2, <2>3, <2>4, <2>5 DEF Next
<1> QED
  BY <1>1, <1>2, <1>3, <1>10, <1>11

(* A transaction is taken in once, and then the cluster alone moves it.    *)
LEMMA TxChange ==
  ASSUME TypeOK, [Next]_vars, NEW o \in Orders, NEW i \in MessageIndex
  PROVE
    \/ tx'[o][i] = tx[o][i]
    \/ /\ tx[o][i] = "unsent" /\ tx'[o][i] = "sent"
       /\ \E r \in Requests : /\ SendAccepted(r) \/ SendUnanswered(r)
                              /\ req[r].order = o /\ Turn(r) = i
    \/ Execute(o, i) /\ tx[o][i] \notin {"unsent", "ok", "err"} /\ tx'[o][i] # "unsent"
<1>1. CASE UNCHANGED tx
  BY <1>1
<1>2. CASE \E r \in Requests : SendAccepted(r) \/ SendUnanswered(r)
  <2>1. PICK r \in Requests : SendAccepted(r) \/ SendUnanswered(r)
    BY <1>2
  <2>2. TakeIn(req[r].order, Turn(r), order[req[r].order].nonceAccount,
               order[req[r].order].nonceValue)
    BY <2>1 DEF SendAccepted, SendUnanswered
  <2>3. tx' = [tx EXCEPT ![req[r].order][Turn(r)] = IF @ = "unsent" THEN "sent" ELSE @]
    BY <2>2 DEF TakeIn
  <2>4. CASE req[r].order = o /\ Turn(r) = i
    BY <2>1, <2>3, <2>4 DEF TypeOK
  <2>5. CASE req[r].order # o \/ Turn(r) # i
    BY <2>3, <2>5 DEF TypeOK
  <2> QED
    BY <2>4, <2>5
<1>3. CASE \E p \in Orders, j \in MessageIndex : Execute(p, j)
  <2>1. PICK p \in Orders, j \in MessageIndex : Execute(p, j)
    BY <1>3
  <2>2. PICK end : tx' = [tx EXCEPT ![p][j] = end] /\ tx[p][j] \notin {"unsent", "ok", "err"}
                   /\ end # "unsent"
    BY <2>1 DEF Execute, Process, Confirm, Abandon, Land
  <2>3. CASE p = o /\ j = i
    BY <2>1, <2>2, <2>3 DEF TypeOK
  <2>4. CASE p # o \/ j # i
    BY <2>2, <2>4 DEF TypeOK
  <2> QED
    BY <2>3, <2>4
<1>4. \/ UNCHANGED tx
      \/ \E r \in Requests : SendAccepted(r) \/ SendUnanswered(r)
      \/ \E p \in Orders, j \in MessageIndex : Execute(p, j)
  <2> USE DEF chainVars
  <2>1. CASE \E p \in Orders : Create(p) \/ CreateThrows(p) \/ GrowOld(p)
    BY <2>1 DEF Create, Reserve, FindFree, ReadValue, ReadValueNull, DropRow, MarkInUse, Insert,
                BuildFails, CreateThrows, GrowOld
  <2>2. CASE \E r \in Requests, p \in Orders :
                SubmitRead(r, p) \/ ReadStale(r, p) \/ FindRead(r, p)
    BY <2>2 DEF SubmitRead, ReadStale, FindRead
  <2>3. CASE \E r \in Requests : Handle(r) \/ Throws(r)
    BY <2>3 DEF Handle, AcceptSignature, Simulate, SendRefused, RecordSendFailure, RecordBroadcast,
                ObserveFailed, ObserveConfirmed, ObservePending, Release, WriteOutcome, Throws
  <2>4. CASE RelayerCrashes \/ Cli
    BY <2>4, Zenon DEF RelayerCrashes, Cli, ListHeld, FreeChosen, RecordAccount, CliDies, CheckHeld,
                       CreateAccount, OpenAccount
  <2>5. CASE UNCHANGED vars
    BY <2>5 DEF vars
  <2> QED
    BY <2>1, <2>2, <2>3, <2>4, <2>5 DEF Next
<1> QED
  BY <1>1, <1>2, <1>3, <1>4

(* What a step never undoes: a row keeps its nonce, its messages and the   *)
(* vault's signature, a transaction that left has left, and what the       *)
(* cluster has executed stays executed.                                    *)
RowsLast ==
  \A o \in Orders : Exists(o) =>
    /\ Exists(o)'
    /\ order'[o].nonceAccount = order[o].nonceAccount
    /\ order'[o].nonceValue = order[o].nonceValue
    /\ order'[o].messages = order[o].messages
    /\ order[o].vaultSigs => order'[o].vaultSigs

TxLast ==
  \A o \in Orders : \A i \in MessageIndex :
    /\ tx[o][i] # "unsent" => tx'[o][i] # "unsent"
    /\ tx[o][i] \in {"ok", "err"} => tx'[o][i] = tx[o][i]

(* Every step keeps what was written: the lemmas above, row by row.        *)
LEMMA LastStep ==
  ASSUME Inv, [Next]_vars
  PROVE  RowsLast /\ TxLast
<1>1. RowsLast
  <2> SUFFICES ASSUME NEW o \in Orders, Exists(o)
               PROVE  /\ Exists(o)'
                      /\ order'[o].nonceAccount = order[o].nonceAccount
                      /\ order'[o].nonceValue = order[o].nonceValue
                      /\ order'[o].messages = order[o].messages
                      /\ order[o].vaultSigs => order'[o].vaultSigs
    BY DEF RowsLast
  <2>1. \A r \in Requests : WriteOutcome(r) => req[r].outcome # "NONE"
    BY DEF WriteOutcome, Inv, HandlerInv, Established, Terminal
  <2> QED
    BY <2>1, RowChange DEF Exists
<1>2. TxLast
  BY TxChange DEF TxLast, Inv
<1> QED
  BY <1>1, <1>2

-----------------------------------------------------------------------------
(* The histories, and what they add to the invariant.                      *)

(* Every step but a stutter is remembered.                                 *)
LEMMA Remembered ==
  ASSUME [Next]_vars
  PROVE  Remember \/ UNCHANGED vars
  BY DEF Next

(* Nothing that is remembered is forgotten.                                *)
LEMMA HistoryGrows ==
  ASSUME [Next]_vars
  PROVE  /\ overlapped \subseteq overlapped' /\ interrupted \subseteq interrupted'
         /\ refused \subseteq refused' /\ loose \subseteq loose'
  BY Remembered DEF Remember, vars, history

(* What the cluster has executed of an order stays executed.               *)
LEMMA ExecutedLasts ==
  ASSUME Inv, [Next]_vars, NEW o \in Orders, Executed(o)
  PROVE  Executed(o)'
<1>1. RowsLast /\ TxLast
  BY LastStep
<1>2. 1 .. order[o].messages \subseteq MessageIndex
  BY DEF Inv, TypeOK, OrderRow, MessageIndex
<1>3. Exists(o)
  BY <1>2 DEF Executed, Inv, ChainInv, SentHasNonce
<1> QED
  BY <1>1, <1>2, <1>3 DEF Executed, RowsLast, TxLast

(* The histories are right: a step that changes what they are about is     *)
(* remembered.                                                             *)
LEMMA HistoryStep ==
  ASSUME Inv, HistoryInv, [Next]_vars
  PROVE  HistoryInv'
<1>0. Inv' /\ RowsLast
  BY NextInv, LastStep
<1>1. CASE UNCHANGED vars
  BY <1>1 DEF HistoryInv, vars, history, chainVars, orderVars, Submitting, Exists, Durable,
              ChosenTwice, Choosing
<1>2. CASE Remember
  <2>1. /\ overlapped' \subseteq Orders /\ interrupted' \subseteq Orders
        /\ refused' \subseteq Orders /\ loose' \subseteq Nonces
    BY <1>2 DEF Remember, HistoryInv
  <2>2. \A o \in Orders \ overlapped' : \A r, q \in Submitting(o)' : r = q
    BY <1>2 DEF Remember
  <2>3. ASSUME NEW o \in overlapped' PROVE Exists(o)'
    <3>1. CASE o \in overlapped
      BY <1>0, <3>1 DEF HistoryInv, RowsLast
    <3>2. CASE o \notin overlapped
      <4>1. PICK r \in Submitting(o)' : TRUE
        BY <1>2, <3>2 DEF Remember
      <4>2. r \in Requests /\ req'[r].order = o /\ req'[r].pc # "idle"
        BY <4>1 DEF Submitting
      <4> QED
        BY <1>0, <4>2 DEF Inv, HandlerInv, Established
    <3> QED
      BY <3>1, <3>2
  <2>4. \A o \in Orders : \A i \in MessageIndex :
          tx'[o][i] \in {"seen_err", "err"} => o \in refused'
    BY <1>2 DEF Remember
  <2>5. ASSUME NEW o \in refused'
        PROVE  Exists(o)' /\ order'[o].vaultSigs /\ o \in Durable'
    <3>1. CASE o \in refused
      BY <1>0, <3>1 DEF HistoryInv, RowsLast, Durable
    <3>2. CASE o \notin refused
      <4>1. PICK i \in MessageIndex : o \in Orders /\ tx'[o][i] \in {"seen_err", "err"}
        BY <1>2, <3>2 DEF Remember
      <4> QED
        BY <1>0, <4>1 DEF Inv, ChainInv, SentHasNonce, NothingLeavesUnsigned, Durable
    <3> QED
      BY <3>1, <3>2
  <2>6. \A n \in Nonces \ loose' : ~ChosenTwice(n)'
    BY <1>2 DEF Remember
  <2> QED
    BY <2>1, <2>2, <2>3, <2>4, <2>5, <2>6 DEF HistoryInv
<1> QED
  BY <1>1, <1>2, Remembered

(* An order is given up on an error that was polled, or as stale.          *)
LEMMA OutcomeStep ==
  ASSUME Inv, HistoryInv, OutcomeInv, [Next]_vars
  PROVE  OutcomeInv'
<1>1. RowsLast /\ refused \subseteq refused'
  BY LastStep, HistoryGrows
<1>2. ASSUME NEW q \in Requests, req'[q].pc \in {"releasing", "writing"}
      PROVE  /\ req'[q].outcome = "EXPIRED" => order'[req'[q].order].nonceAccount = None
             /\ req'[q].outcome = "FAILED" => req'[q].order \in refused'
  <2>1. TypeOK
    BY DEF Inv
  <2>2. req[q].pc # "idle" => req[q].order \in Orders /\ Exists(req[q].order)
    BY DEF Inv, HandlerInv, Established
  <2>3. CASE \/ req'[q] = req[q]
             \/ /\ Release(q) /\ req'[q].order = req[q].order
                /\ req'[q].outcome = req[q].outcome
    <3>1. /\ req[q].pc \in {"releasing", "writing"}
          /\ req'[q].order = req[q].order /\ req'[q].outcome = req[q].outcome
      BY <1>2, <2>3 DEF Release
    <3>2. req[q].order \in Orders /\ Exists(req[q].order)
      BY <2>2, <3>1
    <3> QED
      BY <1>1, <3>1, <3>2 DEF OutcomeInv, RowsLast
  <2>4. CASE \E o \in Orders : ReadStale(q, o) /\ req'[q].order = o /\ req'[q].outcome = "EXPIRED"
    BY <1>1, <2>4 DEF ReadStale, Stale, RowsLast
  <2>5. CASE ObserveFailed(q) /\ req'[q].order = req[q].order
    <3>1. PICK i \in 1 .. req[q].sent : tx[req[q].order][i] \in {"seen_err", "err"}
      BY <2>5 DEF ObserveFailed, Observed
    <3>2. i \in 1 .. order[req[q].order].messages /\ req[q].order \in Orders
      BY <2>5 DEF ObserveFailed, Inv, HandlerInv, Established
    <3>3. i \in MessageIndex
      BY <3>2 DEF Inv, TypeOK, OrderRow, MessageIndex
    <3>4. req[q].order \in refused
      BY <3>1, <3>2, <3>3 DEF HistoryInv
    <3>5. req'[q].outcome = "FAILED"
      BY <2>1, <2>5 DEF ObserveFailed, Decide, TypeOK
    <3> QED
      BY <1>1, <2>5, <3>4, <3>5
  <2>6. CASE req'[q].outcome = "CONFIRMED"
    BY <2>6
  <2> QED
    BY <1>2, <2>1, <2>3, <2>4, <2>5, <2>6, SlotStep
<1>3. ASSUME NEW o \in Orders, order'[o].error = "rejected"
      PROVE  o \in refused'
  <2>1. order[o].error = "rejected" => o \in refused
    BY DEF OutcomeInv, RejectedMeansError
  <2>2. ASSUME NEW r \in Requests, WriteOutcome(r), req[r].order = o, req[r].outcome = "FAILED"
        PROVE  o \in refused
    BY <2>2 DEF WriteOutcome, OutcomeInv
  <2>3. \A m, n, v : NewRow(n, v, m).error = "none"
    BY DEF NewRow
  <2>4. o \in refused
    BY <1>3, <2>1, <2>2, <2>3, RowChange
  <2> QED
    BY <1>1, <2>4
<1> QED
  BY <1>2, <1>3 DEF OutcomeInv, RejectedMeansError

(* Who submits an order after a step submitted it before, or has just read *)
(* it and found it unsigned.                                               *)
LEMMA SubmitsOn ==
  ASSUME Inv, [Next]_vars, NEW o \in Orders, NEW r \in Submitting(o)'
  PROVE  \/ r \in Submitting(o)
         \/ SubmitRead(r, o) /\ req'[r].pc = "accepting" /\ req'[r].sent = 0
<1>1. r \in Requests /\ TypeOK
  BY DEF Inv, Submitting
<1>2. req'[r].order = o
      /\ req'[r].pc \in {"accepting", "simulating", "sending", "failing", "broadcast"}
  BY DEF Submitting
<1> QED
  BY <1>1, <1>2, SlotStep DEF Submitting, AcceptSignature, Simulate, SendAccepted, SendRefused,
                              SendUnanswered

(* An order with one submission at a time has one that submits it.         *)
LEMMA OneSubmits ==
  ASSUME HistoryInv, NEW o \in Orders, o \notin overlapped,
         NEW r \in Submitting(o), NEW q \in Submitting(o)
  PROVE  r = q
  BY DEF HistoryInv

(* A submission of an order that is not interrupted moves without a fault. *)
LEMMA NoFaultThen ==
  ASSUME [Next]_vars, NEW o \in Orders, o \notin interrupted', NEW r \in Submitting(o),
         req'[r] # req[r]
  PROVE  faults' = faults
  BY Remembered DEF Remember, vars

(* Every step keeps SendInv: the one handler that submits an order writes  *)
(* the signatures it has, and no fault takes them away.                    *)
LEMMA SendInvStep ==
  ASSUME Inv, HistoryInv, SendInv, [Next]_vars
  PROVE  SendInv'
<1>0. TypeOK /\ RowsLast /\ TxLast
  BY LastStep DEF Inv
<1>1. \A r \in Requests : req[r].pc # "idle" =>
        req[r].order \in Orders /\ Exists(req[r].order) /\ Established(r)
  BY DEF Inv, HandlerInv, Established
<1>2. \A m, n, v : ~NewRow(n, v, m).vaultSigs /\ NewRow(n, v, m).txSignatures = 0
  BY DEF NewRow
<1>3. ASSUME NEW o \in Orders, ~order'[o].vaultSigs
      PROVE  order'[o].txSignatures = 0
  <2>1. \A r \in Requests : req[r].order = o /\ (RecordSendFailure(r) \/ RecordBroadcast(r))
                              => order[o].vaultSigs
    BY <1>1 DEF RecordSendFailure, RecordBroadcast, Established
  <2> QED
    BY <1>2, <1>3, <2>1, RowChange DEF SendInv
<1>4. ASSUME NEW o \in Orders, o \notin overlapped', NEW r \in Submitting(o)'
      PROVE  /\ order'[o].txSignatures = 0
             /\ req'[r].pc = "accepting" => ~order'[o].vaultSigs
  <2>0. o \notin overlapped
    BY <1>4, HistoryGrows
  <2>1. CASE SubmitRead(r, o)
    <3>1. order'[o] = order[o] /\ ~order[o].vaultSigs
      BY <2>1 DEF SubmitRead, PolicyHolds, orderVars
    <3> QED
      BY <3>1 DEF SendInv
  <2>2. CASE r \in Submitting(o)
    <3>1. \A q \in Requests : req[q].order = o
             /\ (AcceptSignature(q) \/ RecordSendFailure(q) \/ RecordBroadcast(q)) => q = r
      BY <2>0, <2>2, OneSubmits DEF Submitting, AcceptSignature, RecordSendFailure, RecordBroadcast
    <3>2. r \in Requests /\ Exists(o) /\ req'[r].order = o
          /\ req'[r].pc \in {"accepting", "simulating", "sending", "failing", "broadcast"}
      BY <1>1, <2>2 DEF Submitting
    <3>3. ~RecordSendFailure(r) /\ ~RecordBroadcast(r)
      BY <1>0, <3>2 DEF RecordSendFailure, RecordBroadcast, Return, Step, Idle, TypeOK, Request
    <3>4. order'[o].txSignatures = order[o].txSignatures
      BY <3>1, <3>2, <3>3, RowChange
    <3>5. ASSUME req'[r].pc = "accepting"
          PROVE  ~AcceptSignature(r) /\ req[r].pc = "accepting"
      <4>1. ~SubmitRead(r, o)
        BY <2>2 DEF Submitting, SubmitRead
      <4>2. req[r].order = o /\ req[r].pc # "idle"
        BY <2>2 DEF Submitting
      <4>3. req'[r] = req[r]
        BY <1>0, <3>2, <3>5, <4>1, <4>2, SlotStep DEF SubmitRead
      <4> QED
        BY <1>0, <3>2, <3>5, <4>3 DEF AcceptSignature, Step, TypeOK, Request
    <3>6. ASSUME req'[r].pc = "accepting"
          PROVE  order'[o].vaultSigs = order[o].vaultSigs
      BY <3>1, <3>2, <3>5, <3>6, RowChange
    <3> QED
      BY <2>0, <2>2, <3>4, <3>5, <3>6 DEF SendInv
  <2> QED
    BY <2>1, <2>2, SubmitsOn
<1>5. ASSUME NEW o \in Orders, o \notin overlapped', o \notin interrupted',
             NEW i \in MessageIndex, tx'[o][i] # "unsent"
      PROVE  i <= order'[o].txSignatures \/ \E r \in Submitting(o)' : i <= req'[r].sent
  <2>1. o \notin overlapped /\ o \notin interrupted
    BY <1>5, HistoryGrows
  <2>2. CASE tx[o][i] = "unsent"
    <3>1. PICK r \in Requests : /\ SendAccepted(r) \/ SendUnanswered(r)
                                /\ req[r].order = o /\ Turn(r) = i
      BY <1>0, <1>5, <2>2, TxChange
    <3>2. r \in Submitting(o) /\ req[r].sent \in Nat /\ req[r].pc = "sending"
      BY <1>0, <3>1 DEF Submitting, SendAccepted, SendUnanswered, TypeOK, Request
    <3>3. req'[r] # req[r]
      BY <1>0, <3>1, <3>2 DEF SendAccepted, SendUnanswered, Step, Turn, TypeOK, Request
    <3>4. faults' = faults /\ faults \in Nat
      BY <1>0, <1>5, <3>2, <3>3, NoFaultThen DEF TypeOK
    <3>5. SendAccepted(r) /\ req'[r].sent = i /\ req'[r].order = o
          /\ req'[r].pc \in {"sending", "broadcast"}
      BY <1>0, <3>1, <3>4 DEF SendAccepted, SendUnanswered, Fault, TypeOK, Request
    <3>6. i <= req'[r].sent
      BY <3>5 DEF MessageIndex
    <3> QED
      BY <3>5, <3>6 DEF Submitting
  <2>3. CASE tx[o][i] # "unsent" /\ i <= order[o].txSignatures
    <3>1. order[o].txSignatures \in Nat /\ i \in Nat /\ i > 0 /\ Exists(o)
      BY <1>0, <2>3 DEF TypeOK, OrderRow, MessageIndex, Inv, ChainInv, SentHasNonce
    <3>2. \A r \in Submitting(o) : order[o].txSignatures = 0
      BY <2>1 DEF SendInv
    <3>3. Submitting(o) = {}
      BY <2>3, <3>1, <3>2
    <3>4. \A r \in Requests : req[r].order = o => ~RecordSendFailure(r) /\ ~RecordBroadcast(r)
      BY <3>3 DEF Submitting, RecordSendFailure, RecordBroadcast
    <3>5. order'[o].txSignatures = order[o].txSignatures
      BY <3>1, <3>4, RowChange
    <3> QED
      BY <2>3, <3>5
  <2>4. CASE \E r \in Submitting(o) : i <= req[r].sent
    <3>1. PICK r \in Submitting(o) : i <= req[r].sent
      BY <2>4
    <3>2. r \in Requests /\ req[r].sent \in Nat /\ i \in Nat /\ i > 0 /\ req[r].order = o
      BY <1>0 DEF TypeOK, Request, MessageIndex, Submitting
    <3>3. req[r].pc \notin {"accepting", "simulating"}
      BY <1>1, <3>1, <3>2 DEF Established, Submitting
    <3>4. CASE RecordSendFailure(r) \/ RecordBroadcast(r)
      <4>1. order'[o].txSignatures = req[r].sent
        BY <1>0, <3>2, <3>4 DEF RecordSendFailure, RecordBroadcast, TypeOK, OrderRow
      <4> QED
        BY <3>1, <4>1
    <3>5. CASE ~(RecordSendFailure(r) \/ RecordBroadcast(r))
      <4>0. req'[r] # req[r] => faults' = faults
        BY <1>5, NoFaultThen
      <4>1. req'[r].order = o /\ req'[r].pc \in {"sending", "failing", "broadcast"}
            /\ req'[r].sent \in {req[r].sent, Turn(r)}
        BY <1>0, <3>1, <3>2, <3>3, <3>5, <4>0, SlotStep
           DEF Submitting, Simulate, ObservePending, WriteOutcome, SubmitRead, ReadStale, FindRead,
               AcceptSignature, ObserveFailed, ObserveConfirmed, Release
      <4> QED
        BY <3>1, <3>2, <4>1 DEF Submitting, Turn
    <3> QED
      BY <3>4, <3>5
  <2> QED
    BY <2>1, <2>2, <2>3, <2>4 DEF SendInv, NothingSentIsForgotten
<1> QED
  BY <1>3, <1>4, <1>5 DEF SendInv, NothingSentIsForgotten

(* Every step keeps StatusInv: the one handler that submits an order moves *)
(* its status up to BROADCAST, and the handlers that settle it agree on    *)
(* what the cluster has shown.                                             *)
LEMMA StatusInvStep ==
  ASSUME Inv, HistoryInv, OutcomeInv, StatusInv, [Next]_vars
  PROVE  StatusInv'
<1>0. TypeOK /\ RowsLast /\ Inv'
  BY LastStep, NextInv DEF Inv
<1>1. \A r \in Requests : req[r].pc # "idle" => Established(r)
  BY DEF Inv, HandlerInv
<1>2. \A m, n, v : LET row == NewRow(n, v, m)
                   IN  ~row.vaultSigs /\ row.status = "AWAITING_SIGNATURE"
  BY DEF NewRow
<1>3. ASSUME NEW r \in Requests, WriteOutcome(r), order[req[r].order].nonceAccount # None
      PROVE  /\ req[r].outcome \in {"FAILED", "CONFIRMED"}
             /\ req[r].outcome = "FAILED" => req[r].order \in refused
             /\ req[r].order \notin overlapped =>
                  order[req[r].order].status \in {"BROADCAST", "FAILED", "CONFIRMED"}
  BY <1>1, <1>3 DEF WriteOutcome, StatusInv, OutcomeInv, Established, Terminal
<1>4. ASSUME NEW o \in Durable'
      PROVE  /\ order'[o].status # "EXPIRED"
             /\ order'[o].vaultSigs => order'[o].status # "AWAITING_SIGNATURE"
  <2>1. o \in Orders /\ order'[o].nonceAccount # None
    BY DEF Durable
  <2>2. Exists(o) => o \in Durable /\ order[o].nonceAccount # None
    BY <1>0, <2>1 DEF RowsLast, Durable
  <2>3. ~Exists(o) => order[o].status = "NONE"
    BY DEF Exists
  <2>4. CASE order'[o] = order[o]
    BY <2>1, <2>4 DEF StatusInv, Durable
  <2> QED
    BY <1>2, <1>3, <2>1, <2>2, <2>3, <2>4, RowChange DEF StatusInv
<1>5. ASSUME NEW q \in Requests, req'[q].pc # "idle", NEW o \in Orders, req'[q].order = o,
             o \notin overlapped', Exists(o), order[o].nonceAccount # None
      PROVE  /\ req'[q].pc = "accepting" => order'[o].status = "AWAITING_SIGNATURE"
             /\ req'[q].pc \in {"simulating", "sending", "failing", "broadcast"}
                  => order'[o].status = "SIGNED"
             /\ req'[q].pc \in {"observing", "releasing", "writing"} =>
                  /\ order'[o].status \in {"BROADCAST", "FAILED", "CONFIRMED"}
                  /\ order'[o].status = "FAILED" => o \in refused'
  <2>0. o \notin overlapped /\ refused \subseteq refused'
    BY <1>5, HistoryGrows
  <2>1. \/ order'[o].status = order[o].status
        \/ \E r \in Requests : /\ req[r].order = o
                               /\ \/ AcceptSignature(r) /\ order'[o].status = "SIGNED"
                                  \/ RecordSendFailure(r) /\ order'[o].status = "FAILED"
                                  \/ RecordBroadcast(r) /\ order'[o].status = "BROADCAST"
                                  \/ WriteOutcome(r) /\ order'[o].status = req[r].outcome
    BY <1>5, RowChange
  <2>2. \A r \in Requests : req[r].order = o =>
          /\ AcceptSignature(r) => order[o].status = "AWAITING_SIGNATURE"
          /\ RecordSendFailure(r) \/ RecordBroadcast(r) => order[o].status = "SIGNED"
    BY <1>5, <2>0 DEF StatusInv, AcceptSignature, RecordSendFailure, RecordBroadcast
  <2>3. \A r \in Requests : req[r].order = o
            /\ (AcceptSignature(r) \/ RecordSendFailure(r) \/ RecordBroadcast(r))
            => r \in Submitting(o)
    BY DEF Submitting, AcceptSignature, RecordSendFailure, RecordBroadcast
  <2>4. /\ AcceptSignature(q) => req'[q].pc = "simulating"
        /\ RecordSendFailure(q) => req'[q].pc = "idle"
        /\ RecordBroadcast(q) => req'[q].pc = "observing"
    BY <1>0 DEF AcceptSignature, RecordSendFailure, RecordBroadcast, Step, Return, Idle, TypeOK,
                Request
  <2>5. CASE req'[q].pc = "accepting"
    <3>1. CASE SubmitRead(q, o)
      BY <2>5, <3>1 DEF SubmitRead, PolicyHolds, orderVars
    <3>2. CASE req'[q] = req[q]
      <4>1. q \in Submitting(o) /\ order[o].status = "AWAITING_SIGNATURE"
        BY <1>5, <2>0, <2>5, <3>2 DEF Submitting, StatusInv
      <4> QED
        BY <1>3, <1>5, <2>0, <2>1, <2>2, <2>3, <2>4, <2>5, <4>1, OneSubmits
    <3> QED
      BY <1>0, <1>5, <2>5, <3>1, <3>2, SlotStep
  <2>6. CASE req'[q].pc \in {"simulating", "sending", "failing", "broadcast"}
    <3>1. CASE AcceptSignature(q) /\ req'[q].order = req[q].order
      <4>1. order'[o].status = "SIGNED"
        BY <1>0, <1>5, <3>1 DEF AcceptSignature, TypeOK, OrderRow
      <4> QED
        BY <2>6, <4>1
    <3>2. CASE req[q].pc \in {"simulating", "sending", "failing", "broadcast"}
               /\ req'[q].order = req[q].order
      <4>1. q \in Submitting(o) /\ order[o].status = "SIGNED"
        BY <1>5, <2>0, <3>2 DEF Submitting, StatusInv
      <4>2. order'[o].status = "SIGNED"
        BY <1>3, <1>5, <2>0, <2>1, <2>2, <2>3, <2>4, <2>6, <4>1, OneSubmits
      <4> QED
        BY <2>6, <4>2
    <3> QED
      BY <1>0, <1>5, <2>6, <3>1, <3>2, SlotStep
         DEF Simulate, SendAccepted, SendRefused, SendUnanswered
  <2>7. CASE req'[q].pc \in {"observing", "releasing", "writing"}
    <3>1. CASE RecordBroadcast(q) /\ req'[q].order = req[q].order
      <4>1. order'[o].status = "BROADCAST"
        BY <1>0, <1>5, <3>1 DEF RecordBroadcast, TypeOK, OrderRow
      <4> QED
        BY <2>7, <4>1
    <3>2. CASE FindRead(q, o)
      BY <2>7, <3>2 DEF FindRead, orderVars
    <3>3. ~ReadStale(q, o)
      BY <1>5 DEF ReadStale, Stale
    <3>4. CASE req[q].pc \in {"observing", "releasing", "writing"} /\ req'[q].order = req[q].order
      <4>1. /\ order[o].status \in {"BROADCAST", "FAILED", "CONFIRMED"}
            /\ order[o].status = "FAILED" => o \in refused
        BY <1>5, <2>0, <3>4 DEF StatusInv
      <4>2. /\ order'[o].status \in {"BROADCAST", "FAILED", "CONFIRMED"}
            /\ order'[o].status = "FAILED" => o \in refused
        BY <1>3, <1>5, <2>1, <2>2, <4>1
      <4> QED
        BY <2>0, <2>7, <4>2
    <3> QED
      BY <1>0, <1>5, <2>7, <3>1, <3>2, <3>3, <3>4, SlotStep
         DEF ObserveFailed, ObserveConfirmed, Release
  <2> QED
    BY <2>5, <2>6, <2>7
<1>6. ASSUME NEW q \in Requests, req'[q].pc # "idle", order'[req'[q].order].nonceAccount # None
      PROVE  \E o \in Orders : /\ req'[q].order = o /\ Exists(o)
                               /\ order[o].nonceAccount # None
  <2>1. req'[q].order \in Orders
    BY <1>0, <1>6 DEF Inv, HandlerInv, Established
  <2>2. CASE \E o \in Orders : req'[q].order = o /\ Exists(o)
    BY <1>0, <1>6, <2>2 DEF RowsLast
  <2>3. req[q].pc # "idle" => Exists(req[q].order)
    BY <1>1 DEF Established
  <2>4. \A o \in Orders : SubmitRead(q, o) \/ ReadStale(q, o) \/ FindRead(q, o) => Exists(o)
    BY DEF SubmitRead, ReadStale, FindRead
  <2>5. req'[q].order = req[q].order \/ Exists(req'[q].order)
    BY <1>0, <1>6, <2>4, SlotStep
  <2>6. req'[q].order = req[q].order => req[q].pc # "idle" \/ Exists(req'[q].order)
    BY <1>0, <1>6, <2>4, SlotStep
       DEF AcceptSignature, Simulate, SendAccepted, SendRefused, SendUnanswered, RecordBroadcast,
           ObserveFailed, ObserveConfirmed, Release
  <2> QED
    BY <2>1, <2>2, <2>3, <2>5, <2>6
<1> QED
  BY <1>4, <1>5, <1>6 DEF StatusInv

(* An account's value moves when the first transaction that was built on   *)
(* it, of one order, has been executed.                                    *)
LEMMA ValueChange ==
  ASSUME Inv, [Next]_vars, NEW n \in Nonces
  PROVE  \/ value'[n] = value[n]
         \/ \E o \in Orders : /\ Exists(o) /\ order[o].nonceAccount = n
                              /\ ~Executed(o) /\ Executed(o)'
<1>0. TypeOK /\ TypeOK'
  BY NextInv DEF Inv
<1>1. CASE UNCHANGED value
  BY <1>1
<1>2. CASE \E o \in Orders, i \in MessageIndex : Execute(o, i)
  <2>1. PICK o \in Orders, i \in MessageIndex : Execute(o, i)
    BY <1>2
  <2> DEFINE m == order[o].nonceAccount
             v == order[o].nonceValue
  <2>2. Process(o, i, m, v) \/ Confirm(o, i, m, v) \/ Abandon(o, i, m, v) \/ Land(o, i, m, v)
    BY <2>1 DEF Execute
  <2>3. order' = order
    BY <2>1 DEF Execute, orderVars
  <2>4. tx[o][i] \in {"sent", "seen_ok", "seen_err"}
    BY <2>2 DEF Process, Confirm, Abandon, Land
  <2>5. Exists(o) /\ i \in 1 .. order[o].messages /\ m \in Nonces /\ v \in Nat
    BY <1>0, <2>4 DEF Inv, ChainInv, SentHasNonce, NothingLeavesUnsigned, MessageIndex, TypeOK,
                      OrderRow
  <2>6. ASSUME NEW j \in MessageIndex, tx[o][j] \in {"ok", "err"}
        PROVE  v < value[m] /\ value[m] <= head[m] /\ value[m] \in Nat /\ head[m] \in Nat
    BY <1>0, <2>5, <2>6 DEF Inv, ChainInv, ExecutedIsBehind, HeadLeads, TypeOK
  <2>7. ~Land(o, i, m, v) /\ ~Confirm(o, i, m, v) => value' = value
    BY <2>2 DEF Process, Abandon
  <2>8. ASSUME Land(o, i, m, v) \/ Confirm(o, i, m, v)
        PROVE  /\ tx'[o][i] \in {"ok", "err"}
               /\ m # n => value'[n] = value[n]
               /\ \A j \in MessageIndex : tx[o][j] \notin {"ok", "err"}
    <3>1. CASE Land(o, i, m, v)
      BY <1>0, <2>5, <2>6, <3>1 DEF Land, Lives, TypeOK
    <3>2. CASE Confirm(o, i, m, v)
      <4>1. value[m] = v
        BY <3>2 DEF Confirm, Inv, ChainInv, SeenIsCurrent
      <4>2. /\ tx'[o][i] \in {"ok", "err"}
            /\ m # n => value'[n] = value[n]
        BY <1>0, <2>5, <3>2 DEF Confirm, TypeOK
      <4> HIDE DEF m, v
      <4> QED
        BY <2>5, <2>6, <4>1, <4>2
    <3> QED
      BY <2>8, <3>1, <3>2
  <2>9. \A j \in 1 .. order[o].messages : j \in MessageIndex
    BY <1>0 DEF TypeOK, OrderRow, MessageIndex
  <2>10. CASE Land(o, i, m, v) \/ Confirm(o, i, m, v)
    <3>1. Executed(o)' /\ ~Executed(o)
      BY <2>3, <2>5, <2>8, <2>9, <2>10 DEF Executed
    <3> QED
      BY <2>5, <2>8, <2>10, <3>1
  <2> QED
    BY <2>7, <2>10
<1>3. UNCHANGED value \/ \E o \in Orders, i \in MessageIndex : Execute(o, i)
  <2> USE DEF chainVars
  <2>1. CASE \E p \in Orders : Create(p) \/ CreateThrows(p) \/ GrowOld(p)
    BY <2>1 DEF Create, Reserve, FindFree, ReadValue, ReadValueNull, DropRow, MarkInUse, Insert,
                BuildFails, CreateThrows, GrowOld
  <2>2. CASE \E r \in Requests, p \in Orders :
                SubmitRead(r, p) \/ ReadStale(r, p) \/ FindRead(r, p)
    BY <2>2 DEF SubmitRead, ReadStale, FindRead
  <2>3. CASE \E r \in Requests : Handle(r) \/ Throws(r)
    BY <2>3, Zenon DEF Handle, AcceptSignature, Simulate, SendAccepted, SendRefused, SendUnanswered,
                       RecordSendFailure, RecordBroadcast, ObserveFailed, ObserveConfirmed,
                       ObservePending, Release, WriteOutcome, Throws, TakeIn
  <2>4. CASE RelayerCrashes \/ Cli
    BY <2>4, Zenon DEF RelayerCrashes, Cli, ListHeld, FreeChosen, RecordAccount, CliDies, CheckHeld,
                       CreateAccount, OpenAccount
  <2>5. CASE UNCHANGED vars
    BY <2>5 DEF vars
  <2> QED
    BY <2>1, <2>2, <2>3, <2>4, <2>5 DEF Next
<1> QED
  BY <1>1, <1>2, <1>3

(* Who marks an account, who takes it away, and who gives it back.         *)
LEMMA PoolChange ==
  ASSUME TypeOK, [Next]_vars, NEW n \in Nonces
  PROVE  \/ (n \in inUse' <=> n \in inUse) /\ holder'[n] = holder[n]
         \/ n \notin inUse /\ n \notin inUse'
         \/ \E o \in Orders : /\ reservation[o].nonce = n
                              /\ \/ DropRow(o) /\ n \notin inUse'
                                 \/ MarkInUse(o) /\ n \in inUse' /\ holder'[n] = o
         \/ \E r \in Requests : Release(r) /\ holder[n] = req[r].order /\ n \notin inUse'
         \/ FreedByCommand(n)
<1> USE DEF poolVars
<1>1. CASE \E o \in Orders : DropRow(o) \/ MarkInUse(o)
  BY <1>1 DEF DropRow, MarkInUse, TypeOK
<1>2. CASE \E r \in Requests : Release(r)
  BY <1>2 DEF Release, ReleaseHeldBy, TypeOK
<1>3. CASE UNCHANGED <<inUse, holder>>
  BY <1>3
<1>4. CASE FreeChosen
  <2>1. /\ inUse' = inUse \ (recorded \cap cli.chosen)
        /\ holder' = [m \in Nonces |-> IF m \in recorded \cap cli.chosen THEN None ELSE holder[m]]
    BY <1>4 DEF FreeChosen, ReleaseRows
  <2>2. cli' # cli
    BY <1>4 DEF FreeChosen, CliIdle
  <2>3. n \notin recorded \cap cli.chosen => (n \in inUse' <=> n \in inUse) /\ holder'[n] = holder[n]
    BY <2>1
  <2> QED
    BY <2>1, <2>2, <2>3 DEF FreedByCommand
<1>5. \/ \E o \in Orders : DropRow(o) \/ MarkInUse(o)
      \/ \E r \in Requests : Release(r)
      \/ FreeChosen
      \/ UNCHANGED <<inUse, holder>>
  <2>1. CASE \E p \in Orders : Create(p) \/ CreateThrows(p) \/ GrowOld(p)
    BY <2>1 DEF Create, Reserve, FindFree, ReadValue, ReadValueNull, Insert,
                BuildFails, CreateThrows, GrowOld
  <2>2. CASE \E r \in Requests, p \in Orders :
                SubmitRead(r, p) \/ ReadStale(r, p) \/ FindRead(r, p)
    BY <2>2 DEF SubmitRead, ReadStale, FindRead
  <2>3. CASE \E r \in Requests : Handle(r) \/ Throws(r)
    BY <2>3, Zenon DEF Handle, AcceptSignature, Simulate, SendAccepted, SendRefused, SendUnanswered,
                       RecordSendFailure, RecordBroadcast, ObserveFailed, ObserveConfirmed,
                       ObservePending, WriteOutcome, Throws
  <2>4. CASE RelayerCrashes \/ Cli
    BY <2>4, Zenon DEF RelayerCrashes, Cli, ListHeld, RecordAccount, CliDies, CheckHeld,
                       CreateAccount
  <2>5. CASE UNCHANGED vars \/ \E p \in Orders, i \in MessageIndex : Execute(p, i)
    BY <2>5 DEF vars, Execute
  <2> QED
    BY <2>1, <2>2, <2>3, <2>4, <2>5 DEF Next
<1> QED
  BY <1>1, <1>2, <1>3, <1>4, <1>5

(* What moves a reservation: its handler, or the end of the process.        *)
LEMMA ReservationMoves ==
  ASSUME [Next]_vars
  PROVE  \/ \E p \in Orders : Create(p) \/ CreateThrows(p)
         \/ RelayerCrashes
         \/ UNCHANGED reservation
<1>1. CASE \E p \in Orders : GrowOld(p)
  BY <1>1 DEF GrowOld
<1>2. CASE \E r \in Requests, p \in Orders :
              SubmitRead(r, p) \/ ReadStale(r, p) \/ FindRead(r, p)
  BY <1>2 DEF SubmitRead, ReadStale, FindRead, orderVars
<1>3. CASE \E r \in Requests : Handle(r) \/ Throws(r)
  BY <1>3, Zenon DEF Handle, AcceptSignature, Simulate, SendAccepted, SendRefused, SendUnanswered,
                     RecordSendFailure, RecordBroadcast, ObserveFailed, ObserveConfirmed,
                     ObservePending, Release, WriteOutcome, Throws, orderVars
<1>4. CASE Cli
  BY <1>4, Zenon DEF Cli, ListHeld, FreeChosen, RecordAccount, CliDies, CheckHeld, CreateAccount
<1>5. CASE UNCHANGED vars \/ \E p \in Orders, i \in MessageIndex : Execute(p, i)
  BY <1>5 DEF vars, Execute, orderVars
<1> QED
  BY <1>1, <1>2, <1>3, <1>4, <1>5 DEF Next

(* A reservation moves when its own create handler does.                   *)
LEMMA ReservationStep ==
  ASSUME TypeOK, [Next]_vars, NEW o \in Orders
  PROVE
    \/ reservation'[o] = reservation[o]
    \/ reservation'[o].nonce = None
    \/ /\ FindFree(o) /\ reservation[o].pc \in {"idle", "searching"}
       /\ reservation'[o].nonce = reservation[o].nonce
    \/ /\ FindFree(o) /\ reservation'[o].pc = "reading"
       /\ reservation'[o].nonce \in Nonces \ inUse
    \/ /\ ReadValue(o) /\ reservation'[o].pc = "marking"
       /\ reservation'[o].nonce = reservation[o].nonce
       /\ reservation'[o].value = value[reservation[o].nonce]
    \/ /\ ReadValueNull(o) /\ reservation'[o].pc = "dropping"
       /\ reservation'[o].nonce = reservation[o].nonce
    \/ /\ MarkInUse(o) /\ reservation'[o].pc = "reserved"
       /\ reservation'[o].nonce = reservation[o].nonce
       /\ reservation'[o].value = reservation[o].value
       /\ reservation[o].nonce \in inUse' /\ holder'[reservation[o].nonce] = o
    \/ reservation'[o].pc = "thrown"
<1> USE DEF TypeOK
<1>0. reservation[o] \in Reservation
  OBVIOUS
<1>1. ASSUME NEW p \in Orders, Create(p) \/ CreateThrows(p), p # o
      PROVE  reservation'[o] = reservation[o]
  BY <1>1 DEF Create, Reserve, FindFree, ReadValue, ReadValueNull, DropRow, MarkInUse, Insert,
              BuildFails, CreateThrows, GoTo
<1>2. CASE FindFree(o)
  BY <1>0, <1>2 DEF FindFree, GoTo, Reservation
<1>3. CASE ReadValue(o) \/ ReadValueNull(o)
  BY <1>0, <1>3 DEF ReadValue, ReadValueNull, GoTo, Reservation
<1>4. CASE DropRow(o)
  BY <1>0, <1>4 DEF DropRow, GoTo, Reservation
<1>5. CASE MarkInUse(o)
  <2>1. CASE GoTo(o, "thrown")
    BY <1>0, <2>1 DEF GoTo, Reservation
  <2>2. CASE ~GoTo(o, "thrown")
    <3>1. /\ reservation[o].nonce \in recorded /\ GoTo(o, "reserved")
          /\ inUse' = inUse \cup {reservation[o].nonce}
          /\ holder' = [holder EXCEPT ![reservation[o].nonce] = o]
      BY <1>5, <2>2 DEF MarkInUse
    <3>2. reservation[o].nonce \in inUse' /\ holder'[reservation[o].nonce] = o
      BY <3>1
    <3>3. /\ reservation'[o].pc = "reserved"
          /\ reservation'[o].nonce = reservation[o].nonce
          /\ reservation'[o].value = reservation[o].value
      BY <1>0, <3>1 DEF GoTo, Reservation
    <3> QED
      BY <1>5, <3>2, <3>3
  <2> QED
    BY <2>1, <2>2
<1>6. CASE Insert(o) \/ BuildFails(o) \/ CreateThrows(o)
  BY <1>0, <1>6 DEF Insert, BuildFails, CreateThrows, GoTo, Reservation
<1>7. CASE RelayerCrashes
  BY <1>0, <1>7 DEF RelayerCrashes, Reservation
<1>8. CASE UNCHANGED reservation
  BY <1>8
<1>9. CASE Create(o)
  BY <1>2, <1>3, <1>4, <1>5, <1>6, <1>9 DEF Create, Reserve
<1> QED
  BY <1>1, <1>6, <1>7, <1>8, <1>9, ReservationMoves

(* An account that is not loose and that an order still needs stays with   *)
(* the order.                                                              *)
LEMMA HoldLasts ==
  ASSUME Inv, HistoryInv, OutcomeInv, NonceInv, [Next]_vars,
         NEW o \in Orders, NEW n \in Nonces, n \notin loose', NEW v, Holds(o, n, v),
         \/ Exists(o) /\ order[o].nonceAccount = n /\ ~Executed(o) /\ ~(Executed(o)')
         \/ reservation[o].pc = "reserved" /\ reservation[o].nonce = n
  PROVE  Holds(o, n, v)'
<1>0. TypeOK /\ n \notin loose
  BY HistoryGrows DEF Inv
<1>1. value'[n] = value[n]
  <2> SUFFICES ASSUME value'[n] # value[n] PROVE FALSE
    OBVIOUS
  <2>1. PICK p \in Orders : /\ Exists(p) /\ order[p].nonceAccount = n
                            /\ ~Executed(p) /\ Executed(p)'
    BY ValueChange
  <2>2. p = o
    BY <1>0, <2>1 DEF NonceInv, Holds
  <2>3. reservation[p].pc = "done"
    BY <2>1 DEF Inv, TableInv, RowInv
  <2> QED
    BY <2>1, <2>2, <2>3
<1>2. ASSUME NEW p \in Orders, reservation[p].nonce = n, DropRow(p) \/ MarkInUse(p)
      PROVE  FALSE
  BY <1>0, <1>2 DEF NonceInv, Holds, DropRow, MarkInUse
<1>3. ASSUME NEW r \in Requests, Release(r), holder[n] = req[r].order, n \notin inUse'
      PROVE  FALSE
  <2>1. /\ req[r].order = o /\ Exists(o) /\ req[r].outcome \in Terminal
        /\ req[r].outcome = "CONFIRMED" => \A i \in 1 .. order[o].messages : tx[o][i] = "ok"
    BY <1>3 DEF Holds, Release, Inv, HandlerInv, Established
  <2>2. reservation[o].pc = "done" /\ 1 \in 1 .. order[o].messages
    BY <2>1 DEF Inv, TableInv, RowInv, MessageIndex
  <2>3. order[o].nonceAccount = n /\ ~Executed(o)
    BY <2>2
  <2>4. /\ req[r].outcome # "EXPIRED"
        /\ req[r].outcome = "FAILED" => o \in refused
    BY <1>3, <2>1, <2>3, ClusterAssumption DEF OutcomeInv, Release, ClusterAssumption
  <2>5. o \in refused
    BY <2>1, <2>2, <2>3, <2>4 DEF Executed, Terminal
  <2>6. FreedEarly(n)
    BY <1>3, <2>1, <2>3, <2>5 DEF FreedEarly, Holds
  <2>7. inUse' # inUse
    BY <1>3 DEF Holds
  <2> QED
    BY <2>6, <2>7, Remembered DEF Remember, vars, poolVars
<1>4. ~FreedByCommand(n)
  BY Remembered DEF Remember, FreedByCommand, vars, orderVars
<1> QED
  BY <1>0, <1>1, <1>2, <1>3, <1>4, PoolChange DEF Holds

(* Every step keeps NonceInv: what takes a needed account away makes it    *)
(* loose.                                                                  *)
LEMMA NonceInvStep ==
  ASSUME Inv, HistoryInv, OutcomeInv, NonceInv, [Next]_vars
  PROVE  NonceInv'
<1>0. TypeOK /\ TypeOK' /\ Inv' /\ RowsLast /\ loose \subseteq loose'
  BY LastStep, NextInv, HistoryGrows DEF Inv
<1>1. ASSUME NEW o \in Orders, reservation'[o].nonce # None,
             reservation'[o].pc \in {"idle", "searching"}
      PROVE  FALSE
  BY <1>0, <1>1, ReservationStep DEF NonceInv
<1>2. ASSUME NEW o \in Orders, NEW n \in Nonces, n \notin loose', n = reservation'[o].nonce
      PROVE  /\ reservation'[o].pc \in {"reading", "dropping", "marking"}
                  => reservation'[o].nonce \notin inUse'
             /\ reservation'[o].pc = "marking"
                  => value'[reservation'[o].nonce] = reservation'[o].value
             /\ reservation'[o].pc = "reserved"
                  => Holds(o, reservation[o].nonce, reservation[o].value)'
                     /\ reservation'[o].nonce = reservation[o].nonce
                     /\ reservation'[o].value = reservation[o].value
  <2>1. n \notin loose /\ n # None
    BY <1>0, <1>2, ClusterAssumption DEF ClusterAssumption
  <2>2. ASSUME Choosing(o, n), ~MarkInUse(o), n \notin inUse
        PROVE  n \notin inUse'
    <3>1. \A p \in Orders : MarkInUse(p) /\ reservation[p].nonce = n => p = o
      BY <2>1, <2>2 DEF HistoryInv, ChosenTwice, Choosing, MarkInUse
    <3> QED
      BY <1>0, <2>2, <3>1, PoolChange DEF FreedByCommand
  <2>3. CASE reservation'[o] = reservation[o]
    <3>1. reservation[o].pc \notin {"idle", "searching"} /\ reservation[o].nonce = n
      BY <1>2, <2>1, <2>3 DEF NonceInv
    <3>2. CASE reservation[o].pc \in {"reading", "dropping", "marking"}
      <4>1. Choosing(o, n) /\ n \notin inUse
        BY <2>1, <3>1, <3>2 DEF Choosing, NonceInv
      <4>2. ~MarkInUse(o)
        BY <1>0, <2>3 DEF MarkInUse, GoTo, TypeOK, Reservation
      <4>3. n \notin inUse'
        BY <2>2, <4>1, <4>2
      <4>4. value'[n] = value[n]
        <5>1. \A p \in Orders : Exists(p) /\ order[p].nonceAccount = n => Executed(p)
          BY <2>1, <4>1 DEF NonceInv, Holds
        <5> QED
          BY <5>1, ValueChange
      <4>5. reservation[o].pc = "marking" => value[n] = reservation[o].value
        BY <2>1, <3>1 DEF NonceInv
      <4> QED
        BY <2>3, <3>1, <3>2, <4>3, <4>4, <4>5
    <3>3. CASE reservation[o].pc = "reserved"
      <4>1. Holds(o, n, reservation[o].value)
        BY <2>1, <3>1, <3>3 DEF NonceInv
      <4>2. Holds(o, n, reservation[o].value)'
        BY <1>2, <2>3, <3>1, <3>3, <4>1, HoldLasts DEF Holds
      <4> QED
        BY <2>3, <3>1, <3>3, <4>2 DEF Holds
    <3> QED
      BY <2>3, <3>1, <3>2, <3>3
  <2>4. CASE /\ FindFree(o) /\ reservation[o].pc \in {"idle", "searching"}
             /\ reservation'[o].nonce = reservation[o].nonce
    BY <1>2, <2>1, <2>4 DEF NonceInv
  <2>5. CASE /\ FindFree(o) /\ reservation'[o].pc = "reading"
             /\ reservation'[o].nonce \in Nonces \ inUse
    BY <2>5 DEF FindFree, poolVars
  <2>6. CASE /\ ReadValue(o) /\ reservation'[o].pc = "marking"
             /\ reservation'[o].nonce = reservation[o].nonce
             /\ reservation'[o].value = value[reservation[o].nonce]
    BY <1>2, <2>1, <2>6 DEF ReadValue, NonceInv, poolVars, chainVars
  <2>7. CASE /\ ReadValueNull(o) /\ reservation'[o].pc = "dropping"
             /\ reservation'[o].nonce = reservation[o].nonce
    BY <1>2, <2>1, <2>7 DEF ReadValueNull, NonceInv, poolVars
  <2>8. CASE /\ MarkInUse(o) /\ reservation'[o].pc = "reserved"
             /\ reservation'[o].nonce = reservation[o].nonce
             /\ reservation'[o].value = reservation[o].value
             /\ reservation[o].nonce \in inUse' /\ holder'[reservation[o].nonce] = o
    <3>1. value'[n] = reservation[o].value
      BY <1>2, <2>1, <2>8 DEF MarkInUse, NonceInv, chainVars
    <3> QED
      BY <1>2, <2>8, <3>1 DEF Holds
  <2> QED
    BY <1>0, <1>2, <2>1, <2>3, <2>4, <2>5, <2>6, <2>7, <2>8, ReservationStep
<1>3. ASSUME NEW o \in Orders, Exists(o)', NEW n \in Nonces, n \notin loose',
             n = order'[o].nonceAccount
      PROVE  Executed(o)' \/ /\ n \in inUse'
                             /\ holder'[n] = o
                             /\ value'[n] = order'[o].nonceValue
  <2>0. n \notin loose /\ n # None
    BY <1>0, <1>3, ClusterAssumption DEF ClusterAssumption
  <2>1. CASE Exists(o)
    <3>1. order[o].nonceAccount = n /\ order'[o].nonceValue = order[o].nonceValue
      BY <1>0, <1>3, <2>1 DEF RowsLast
    <3>2. Executed(o) => Executed(o)'
      BY ExecutedLasts
    <3>3. Executed(o) \/ Holds(o, n, order[o].nonceValue)
      BY <2>0, <2>1, <3>1 DEF NonceInv
    <3>4. PICK v : v = order[o].nonceValue
      OBVIOUS
    <3>5. Executed(o)' \/ Holds(o, n, v)'
      BY <1>3, <2>1, <3>1, <3>2, <3>3, <3>4, HoldLasts
    <3> QED
      BY <3>1, <3>4, <3>5 DEF Holds
  <2>2. CASE ~Exists(o)
    <3>1. PICK m \in MessageIndex :
            Insert(o) /\ order'[o] = NewRow(reservation[o].nonce, reservation[o].value, m)
      BY <1>3, <2>2, RowChange DEF Exists
    <3>2. n = reservation[o].nonce /\ order'[o].nonceValue = reservation[o].value
      BY <1>3, <3>1 DEF NewRow
    <3>3. reservation[o].pc = "reserved" /\ UNCHANGED <<inUse, holder, value>>
      BY <3>1 DEF Insert, poolVars, chainVars
    <3> QED
      BY <2>0, <3>2, <3>3 DEF NonceInv, Holds
  <2> QED
    BY <2>1, <2>2
<1> QED
  BY <1>1, <1>2, <1>3 DEF NonceInv, Holds

(* An order is built on a value that no other is built on: the account was *)
(* its own, at that value, when its row was inserted.                      *)
LEMMA SharedStep ==
  ASSUME Inv, NonceInv, NonceSharedByRaceOnly, [Next]_vars
  PROVE  NonceSharedByRaceOnly'
<1>0. TypeOK /\ RowsLast /\ loose \subseteq loose'
  BY LastStep, HistoryGrows DEF Inv
<1>1. ASSUME NEW o \in Orders, NEW p \in Orders, o # p, ~Exists(o), Exists(o)', Exists(p),
             NEW n \in Nonces, n \notin loose,
             order'[o].nonceAccount = n, order[p].nonceAccount = n,
             order'[o].nonceValue = order[p].nonceValue
      PROVE  FALSE
  <2>1. PICK m \in MessageIndex :
          Insert(o) /\ order'[o] = NewRow(reservation[o].nonce, reservation[o].value, m)
    BY <1>1, RowChange DEF Exists
  <2>2. /\ reservation[o].nonce = n /\ reservation[o].value = order[p].nonceValue
        /\ reservation[o].pc = "reserved"
    BY <1>1, <2>1 DEF NewRow, Insert
  <2>3. Holds(o, n, order[p].nonceValue)
    BY <1>1, <2>2 DEF NonceInv
  <2>4. Executed(p)
    BY <1>1, <2>3 DEF NonceInv, Holds
  <2>5. order[p].nonceValue < value[n] /\ order[p].nonceValue \in Nat
    BY <1>0, <1>1, <2>4 DEF Executed, TypeOK, OrderRow, MessageIndex, Inv, ChainInv, ExecutedIsBehind
  <2> QED
    BY <2>3, <2>5 DEF Holds
<1> SUFFICES ASSUME NEW o \in Orders, NEW p \in Orders, Exists(o)', Exists(p)', o # p,
                    order'[o].nonceAccount = order'[p].nonceAccount,
                    order'[o].nonceAccount # None, order'[o].nonceAccount \notin loose',
                    order'[o].nonceValue = order'[p].nonceValue
             PROVE  FALSE
  BY DEF NonceSharedByRaceOnly
<1>2. order'[o].nonceAccount \in Nonces \ loose
  BY <1>0, NextInv DEF Inv, TypeOK, OrderRow
<1>3. CASE Exists(o) /\ Exists(p)
  BY <1>0, <1>2, <1>3 DEF RowsLast, NonceSharedByRaceOnly
<1>4. CASE ~Exists(o) /\ Exists(p)
  BY <1>0, <1>1, <1>2, <1>4 DEF RowsLast
<1>5. CASE Exists(o) /\ ~Exists(p)
  BY <1>0, <1>1, <1>2, <1>5 DEF RowsLast
<1>6. CASE ~Exists(o) /\ ~Exists(p)
  <2>1. Insert(o) /\ Insert(p)
    BY <1>6, RowChange DEF Exists
  <2>2. order'[p] = order[p]
    BY <1>0, <2>1 DEF Insert, TypeOK
  <2> QED
    BY <1>6, <2>2 DEF Exists
<1> QED
  BY <1>3, <1>4, <1>5, <1>6

(* The initial state satisfies all that the histories add.                 *)
LEMMA InitFull == Init => FullInv
<1> SUFFICES ASSUME Init PROVE FullInv
  OBVIOUS
<1>1. /\ \A o \in Orders : /\ order[o] = NoRow
                           /\ reservation[o].nonce = None
                           /\ \A i \in MessageIndex : tx[o][i] = "unsent"
      /\ \A r \in Requests : req[r].pc = "idle"
      /\ overlapped = {} /\ interrupted = {} /\ refused = {} /\ loose = {}
  BY DEF Init, ClusterInit, PoolInit, OrdersInit, Idle
<1>2. OutcomeInv
  BY <1>1 DEF OutcomeInv, RejectedMeansError, NoRow
<1>3. NonceInv
  BY <1>1, ClusterAssumption DEF NonceInv, NoRow, Exists, ClusterAssumption
<1>4. SendInv
  BY <1>1 DEF SendInv, NothingSentIsForgotten, NoRow, Submitting
<1>5. StatusInv
  BY <1>1 DEF StatusInv, Durable, NoRow
<1>6. HistoryInv
  <2>1. \A n \in Nonces : ~ChosenTwice(n)
    BY <1>1, ClusterAssumption DEF ChosenTwice, Choosing, ClusterAssumption
  <2> QED
    BY <1>1, <2>1 DEF HistoryInv, Submitting
<1> QED
  BY <1>2, <1>3, <1>4, <1>5, <1>6, InitInv DEF FullInv

(* Every step keeps the whole invariant.                                   *)
LEMMA NextFull == FullInv /\ [Next]_vars => FullInv'
  BY NextInv, HistoryStep, OutcomeStep, NonceInvStep, SendInvStep, StatusInvStep DEF FullInv

(* Every behaviour keeps the invariant with all that the histories add:    *)
(* any number of creates, submissions, reads and commands at once, any     *)
(* number of faults, forks and early answers.                              *)
THEOREM FullInvariant == Spec => []FullInv
  BY InitFull, NextFull, PTL DEF Spec

(* An order filed as rejected was refused by the cluster at some time, for *)
(* any number of handlers that poll it: neither a timeout of confirm nor a *)
(* slow answer is filed as a rejection (settle, recordOutcome).            *)
THEOREM RejectionIsReal == Spec => []RejectedMeansError
<1>1. FullInv => RejectedMeansError
  BY DEF FullInv, OutcomeInv
<1> QED
  BY <1>1, FullInvariant, PTL

(* Two orders are built on one value of one account only after two creates *)
(* that chose the account at once, the release command or an early release *)
(* (reserve, release, releaseAbandoned): nothing else makes them share it. *)
THEOREM NoncesSharedByRaceOnly == Spec => []NonceSharedByRaceOnly
<1>1. Init => NonceSharedByRaceOnly
  BY DEF Init, PoolInit, NoRow, Exists, NonceSharedByRaceOnly
<1>2. FullInv /\ NonceSharedByRaceOnly /\ [Next]_vars => NonceSharedByRaceOnly'
  BY SharedStep DEF FullInv
<1> QED
  BY <1>1, <1>2, FullInvariant, PTL DEF Spec

(* But for the same races, an account marked for an order stays with it    *)
(* until the cluster executes the order: no crash, no lost answer and no   *)
(* handler that comes late gives it to another (release, recordOutcome).   *)
THEOREM OrdersKeepNonces == Spec => []OrderKeepsNonce
<1>1. FullInv => OrderKeepsNonce
  <2> SUFFICES ASSUME FullInv, NEW o \in Orders, Exists(o), order[o].nonceAccount # None,
                      ~Executed(o), order[o].nonceAccount \notin loose
               PROVE  order[o].nonceAccount \in inUse /\ holder[order[o].nonceAccount] = o
    BY DEF OrderKeepsNonce
  <2>1. order[o].nonceAccount \in Nonces
    BY DEF FullInv, Inv, TypeOK, OrderRow
  <2> QED
    BY <2>1 DEF FullInv, NonceInv, Holds
<1> QED
  BY <1>1, FullInvariant, PTL

(* Every transaction that left is named in its row or known to the handler *)
(* that sends it, unless two submissions of the order ran at once or a     *)
(* fault met one of them: creates, reads, forks, settles and the command   *)
(* do not matter (send).                                                   *)
THEOREM SentIsRemembered == Spec => []NothingSentIsForgotten
<1>1. FullInv => NothingSentIsForgotten
  BY DEF FullInv, SendInv
<1> QED
  BY <1>1, FullInvariant, PTL

-----------------------------------------------------------------------------
(* The refinement: what is shown of a step is a step of OrderLifecycle, or *)
(* nothing.                                                                *)

SubmitPc == {"accepting", "simulating", "sending", "failing", "broadcast"}

AcceptedPc == {"simulating", "sending", "failing", "broadcast"}

(* Only the cluster executes orders or shows errors: a transaction that is *)
(* taken in does neither.                                                  *)
LEMMA ClusterKept ==
  ASSUME FullInv, [Next]_vars,
         \A o \in Orders : \A i \in MessageIndex :
           tx'[o][i] = tx[o][i] \/ (tx[o][i] = "unsent" /\ tx'[o][i] = "sent")
  PROVE  Landed' = Landed /\ refused' = refused
<1>0. Inv /\ Inv' /\ RowsLast /\ HistoryInv
  BY NextInv, LastStep DEF FullInv
<1>1. \A o \in Orders : /\ order[o].messages \in Nat /\ 1 .. order[o].messages \subseteq MessageIndex
                        /\ order'[o].messages \in Nat /\ 1 .. order'[o].messages \subseteq MessageIndex
  BY <1>0, ClusterAssumption DEF Inv, TypeOK, OrderRow, MessageIndex, ClusterAssumption
<1>2. ASSUME NEW o \in Orders PROVE o \in Landed' <=> o \in Landed
  <2>1. CASE Exists(o)
    <3>1. order'[o].messages = order[o].messages
      BY <1>0, <2>1 DEF RowsLast
    <3>2. \A i \in 1 .. order[o].messages : tx'[o][i] = "ok" <=> tx[o][i] = "ok"
      BY <1>1
    <3> QED
      BY <3>1, <3>2 DEF Landed
  <2>2. CASE ~Exists(o)
    <3>1. \A i \in MessageIndex : tx[o][i] # "ok" /\ tx'[o][i] # "ok"
      BY <1>0, <2>2 DEF Inv, ChainInv, SentHasNonce
    <3>2. \A m \in Nat : m > 0 => 1 \in 1 .. m
      OBVIOUS
    <3> QED
      BY <1>1, <3>1, <3>2 DEF Landed
  <2> QED
    BY <2>1, <2>2
<1>3. Landed' = Landed
  BY <1>2 DEF Landed
<1>4. \A o \in Orders : \A i \in MessageIndex : tx'[o][i] \in {"seen_err", "err"} => o \in refused
  BY <1>0 DEF HistoryInv
<1>5. refused' = refused
  BY <1>4, Remembered DEF Remember, vars, history
<1> QED
  BY <1>3, <1>5

(* No order gets two submissions at once unless one begins.                *)
LEMMA OverlapKept ==
  ASSUME FullInv, [Next]_vars, \A o \in Orders : Submitting(o)' \subseteq Submitting(o)
  PROVE  (overlapped \cap Durable)' = overlapped \cap Durable
<1>1. HistoryInv /\ RowsLast
  BY LastStep DEF FullInv
<1>2. overlapped' = overlapped
  <2>1. ASSUME NEW o \in Orders, NEW r \in Submitting(o)', NEW q \in Submitting(o)', r # q
        PROVE  o \in overlapped
    BY <1>1, <2>1 DEF HistoryInv
  <2> QED
    BY <2>1, Remembered DEF Remember, vars, history
<1>3. \A o \in overlapped : o \in Orders /\ (o \in Durable' <=> o \in Durable)
  BY <1>1 DEF HistoryInv, RowsLast, Durable
<1> QED
  BY <1>2, <1>3

(* Who is on the lists of an order, before and after a step.               *)
LEMMA Lists ==
  ASSUME NEW o \in Orders
  PROVE  /\ \A r : r \in Accepting[o] <=>
              o \in Durable /\ r \in Requests /\ req[r].order = o /\ req[r].pc = "accepting"
         /\ \A r : r \in Accepted[o] <=>
              o \in Durable /\ r \in Requests /\ req[r].order = o /\ req[r].pc \in AcceptedPc
  BY DEF Accepting, Accepted, At, AcceptedPc

LEMMA ListsNext ==
  ASSUME NEW o \in Orders
  PROVE  /\ \A r : r \in Accepting'[o] <=>
              o \in Durable' /\ r \in Requests /\ req'[r].order = o /\ req'[r].pc = "accepting"
         /\ \A r : r \in Accepted'[o] <=>
              o \in Durable' /\ r \in Requests /\ req'[r].order = o /\ req'[r].pc \in AcceptedPc
  BY DEF Accepting, Accepted, At, AcceptedPc

(* An order somebody works on keeps its nonce, so it stays on show.        *)
LEMMA DurableKept ==
  ASSUME FullInv, [Next]_vars, NEW o \in Orders, NEW r \in Requests,
         req[r].pc # "idle", req[r].order = o
  PROVE  o \in Durable' <=> o \in Durable
<1>1. Exists(o) /\ RowsLast
  BY LastStep DEF FullInv, Inv, HandlerInv, Established
<1> QED
  BY <1>1 DEF RowsLast, Durable

(* A slot that does not move stays on the lists it is on.                  *)
LEMMA SlotStays ==
  ASSUME FullInv, [Next]_vars, NEW o \in Orders, NEW r \in Requests, req'[r] = req[r]
  PROVE  /\ r \in Accepting'[o] <=> r \in Accepting[o]
         /\ r \in Accepted'[o] <=> r \in Accepted[o]
<1>1. /\ r \in Accepting[o] <=> o \in Durable /\ req[r].order = o /\ req[r].pc = "accepting"
      /\ r \in Accepted[o] <=> o \in Durable /\ req[r].order = o /\ req[r].pc \in AcceptedPc
  BY Lists
<1>2. /\ r \in Accepting'[o] <=> o \in Durable' /\ req'[r].order = o /\ req'[r].pc = "accepting"
      /\ r \in Accepted'[o] <=> o \in Durable' /\ req'[r].order = o /\ req'[r].pc \in AcceptedPc
  BY ListsNext
<1>3. req[r].order = o /\ req[r].pc # "idle" => (o \in Durable' <=> o \in Durable)
  BY DurableKept
<1> QED
  BY <1>1, <1>2, <1>3 DEF AcceptedPc

(* Handlers that neither begin nor end a submission show nothing.          *)
Unmoved(r) ==
  \/ req'[r] = req[r]
  \/ req[r].pc \notin SubmitPc /\ req'[r].pc \notin SubmitPc
  \/ req[r].pc \in AcceptedPc /\ req'[r].pc \in AcceptedPc /\ req'[r].order = req[r].order

LEMMA ListsKept ==
  ASSUME FullInv, [Next]_vars, \A r \in Requests : Unmoved(r)
  PROVE  UNCHANGED Lifecycle!submissionVars
<1>1. \A o \in Orders : Submitting(o)' \subseteq Submitting(o)
  BY DEF Submitting, Unmoved, SubmitPc, AcceptedPc
<1>2. ASSUME NEW o \in Orders
      PROVE  Accepting'[o] = Accepting[o] /\ Accepted'[o] = Accepted[o]
  <2>1. ASSUME NEW r \in Requests
        PROVE  /\ r \in Accepting'[o] <=> r \in Accepting[o]
               /\ r \in Accepted'[o] <=> r \in Accepted[o]
    <3>1. /\ r \in Accepting[o] <=> o \in Durable /\ req[r].order = o /\ req[r].pc = "accepting"
          /\ r \in Accepted[o] <=> o \in Durable /\ req[r].order = o /\ req[r].pc \in AcceptedPc
      BY Lists
    <3>2. /\ r \in Accepting'[o] <=> o \in Durable' /\ req'[r].order = o /\ req'[r].pc = "accepting"
          /\ r \in Accepted'[o] <=> o \in Durable' /\ req'[r].order = o /\ req'[r].pc \in AcceptedPc
      BY ListsNext
    <3>3. CASE req'[r] = req[r]
      BY <3>3, SlotStays
    <3>4. CASE req[r].pc \notin SubmitPc /\ req'[r].pc \notin SubmitPc
      BY <3>1, <3>2, <3>4 DEF SubmitPc, AcceptedPc
    <3>5. CASE /\ req[r].pc \in AcceptedPc /\ req'[r].pc \in AcceptedPc
               /\ req'[r].order = req[r].order
      <4>1. req[r].order = o => (o \in Durable' <=> o \in Durable)
        BY <3>5, DurableKept DEF AcceptedPc
      <4> QED
        BY <3>1, <3>2, <3>5, <4>1 DEF AcceptedPc
    <3> QED
      BY <3>3, <3>4, <3>5 DEF Unmoved
  <2>2. \A r : r \notin Requests => /\ r \notin Accepting'[o] /\ r \notin Accepting[o]
                                    /\ r \notin Accepted'[o] /\ r \notin Accepted[o]
    BY Lists, ListsNext
  <2> QED
    BY <2>1, <2>2
<1>3. Accepting' = Accepting /\ Accepted' = Accepted
  BY <1>2 DEF Accepting, Accepted
<1> QED
  BY <1>1, <1>3, OverlapKept DEF Lifecycle!submissionVars

(* Handlers that end without a word leave, and nothing else is shown.      *)
LEMMA LeaveShown ==
  ASSUME FullInv, [Next]_vars, order' = order, tx' = tx, NEW gone \in SUBSET Requests,
         \A r \in Requests \ gone : req'[r] = req[r],
         \A r \in gone : req'[r].pc \notin SubmitPc
  PROVE  Lifecycle!Next
<1>1. Shown' = Shown /\ Landed' = Landed /\ refused' = refused
  BY ClusterKept DEF Shown, Durable
<1>2. \A o \in Orders : Submitting(o)' \subseteq Submitting(o)
  BY DEF Submitting, SubmitPc
<1>3. ASSUME NEW o \in Orders
      PROVE  Accepting'[o] = Accepting[o] \ gone /\ Accepted'[o] = Accepted[o] \ gone
  <2>1. ASSUME NEW r \in Requests
        PROVE  /\ r \in Accepting'[o] <=> r \in Accepting[o] /\ r \notin gone
               /\ r \in Accepted'[o] <=> r \in Accepted[o] /\ r \notin gone
    <3>1. /\ r \in Accepting'[o] <=> o \in Durable' /\ req'[r].order = o /\ req'[r].pc = "accepting"
          /\ r \in Accepted'[o] <=> o \in Durable' /\ req'[r].order = o /\ req'[r].pc \in AcceptedPc
      BY ListsNext
    <3>2. CASE r \in gone
      BY <3>1, <3>2 DEF SubmitPc, AcceptedPc
    <3>3. CASE r \notin gone
      BY <3>3, SlotStays
    <3> QED
      BY <3>2, <3>3
  <2>2. \A r : r \notin Requests => /\ r \notin Accepting'[o] /\ r \notin Accepting[o]
                                    /\ r \notin Accepted'[o] /\ r \notin Accepted[o]
    BY Lists, ListsNext
  <2> QED
    BY <2>1, <2>2
<1>4. /\ Accepting' = [o \in Orders |-> Accepting[o] \ gone]
      /\ Accepted' = [o \in Orders |-> Accepted[o] \ gone]
  <2>1. Accepting' = [o \in Orders |-> Accepting'[o]] /\ Accepted' = [o \in Orders |-> Accepted'[o]]
    BY DEF Accepting, Accepted
  <2> QED
    BY <1>3, <2>1
<1>5. (overlapped \cap Durable)' = overlapped \cap Durable
  BY <1>2, OverlapKept
<1>6. Lifecycle!Leave(gone)
  BY <1>1, <1>4, <1>5 DEF Lifecycle!Leave, Lifecycle!clusterVars
<1> QED
  BY <1>6 DEF Lifecycle!Next

(* A write shows the new status of its order, if the order is on show.     *)
LEMMA WriteShown ==
  ASSUME NEW o \in Orders, order'[o].nonceAccount = order[o].nonceAccount,
         \A p \in Orders \ {o} : order'[p] = order[p]
  PROVE  /\ o \in Durable => Lifecycle!Write(o, order'[o].status) /\ Shown[o] = order[o].status
         /\ o \notin Durable \/ order'[o].status = order[o].status => Shown' = Shown
         /\ Durable' = Durable
<1>1. Durable' = Durable
  BY DEF Durable
<1>2. \A p \in Orders : p # o => Shown'[p] = Shown[p]
  BY <1>1 DEF Shown
<1>3. Shown = [p \in Orders |-> Shown[p]] /\ Shown' = [p \in Orders |-> Shown'[p]]
  BY DEF Shown
<1>4. o \in Durable => Shown'[o] = order'[o].status /\ Shown[o] = order[o].status
  BY <1>1 DEF Shown
<1>5. o \notin Durable \/ order'[o].status = order[o].status => Shown'[o] = Shown[o]
  BY <1>1 DEF Shown
<1>6. o \in Durable => Shown' = [Shown EXCEPT ![o] = order'[o].status]
  BY <1>2, <1>3, <1>4
<1>7. o \notin Durable \/ order'[o].status = order[o].status => Shown' = Shown
  BY <1>2, <1>3, <1>5
<1> QED
  BY <1>1, <1>4, <1>6, <1>7 DEF Lifecycle!Write

(* A step that shows nothing: no row is written, no submission begins or   *)
(* ends, and transactions are taken in at most.                            *)
LEMMA QuietStep ==
  ASSUME FullInv, [Next]_vars, order' = order, \A r \in Requests : Unmoved(r),
         \A o \in Orders : \A i \in MessageIndex :
           tx'[o][i] = tx[o][i] \/ (tx[o][i] = "unsent" /\ tx'[o][i] = "sent")
  PROVE  UNCHANGED Lifecycle!lifecycleVars
<1>1. Shown' = Shown
  BY DEF Shown, Durable
<1>2. UNCHANGED Lifecycle!clusterVars
  BY ClusterKept DEF Lifecycle!clusterVars
<1>3. UNCHANGED Lifecycle!submissionVars
  BY ListsKept
<1> QED
  BY <1>1, <1>2, <1>3 DEF Lifecycle!lifecycleVars

(* A row that grows old looks the same.                                    *)
LEMMA GrowOldShown ==
  ASSUME FullInv, [Next]_vars, NEW o \in Orders, GrowOld(o)
  PROVE  UNCHANGED Lifecycle!lifecycleVars
<1>1. order \in [Orders -> OrderRow]
  BY DEF FullInv, Inv, TypeOK
<1>2. order' = [order EXCEPT ![o].age = @ + 1] /\ tx' = tx /\ req' = req
  BY DEF GrowOld, chainVars
<1>3. /\ order'[o].nonceAccount = order[o].nonceAccount /\ order'[o].status = order[o].status
      /\ \A p \in Orders \ {o} : order'[p] = order[p]
  BY <1>1, <1>2 DEF OrderRow
<1>4. Shown' = Shown
  BY <1>3, WriteShown
<1>5. UNCHANGED Lifecycle!clusterVars
  BY <1>2, ClusterKept DEF Lifecycle!clusterVars
<1>6. UNCHANGED Lifecycle!submissionVars
  BY <1>2, ListsKept DEF Unmoved
<1> QED
  BY <1>4, <1>5, <1>6 DEF Lifecycle!lifecycleVars

(* A row that is inserted opens the order, if it is on a nonce.            *)
LEMMA InsertShown ==
  ASSUME FullInv, [Next]_vars, NEW o \in Orders, Insert(o)
  PROVE  [Lifecycle!Next]_(Lifecycle!lifecycleVars)
<1>1. order \in [Orders -> OrderRow] /\ ~Exists(o)
  BY DEF FullInv, Inv, TypeOK, TableInv, RowInv, Insert
<1>2. PICK m \in MessageIndex :
        order' = [order EXCEPT ![o] = NewRow(reservation[o].nonce, reservation[o].value, m)]
  BY DEF Insert
<1>3. tx' = tx /\ req' = req
  BY DEF Insert, chainVars
<1>4. order'[o].status = "AWAITING_SIGNATURE" /\ \A p \in Orders \ {o} : order'[p] = order[p]
  BY <1>1, <1>2 DEF NewRow
<1>5. \A p \in Orders \ {o} : Shown'[p] = Shown[p]
  BY <1>4 DEF Shown, Durable
<1>6. /\ Shown[o] = "NONE"
      /\ Shown'[o] = IF o \in Durable' THEN "AWAITING_SIGNATURE" ELSE "NONE"
  BY <1>1, <1>4 DEF Shown, Exists
<1>7. Shown = [p \in Orders |-> Shown[p]] /\ Shown' = [p \in Orders |-> Shown'[p]]
  BY DEF Shown
<1>8. UNCHANGED Lifecycle!clusterVars
  BY <1>3, ClusterKept DEF Lifecycle!clusterVars
<1>9. UNCHANGED Lifecycle!submissionVars
  BY <1>3, ListsKept DEF Unmoved
<1>10. CASE o \in Durable'
  <2>1. Shown' = [Shown EXCEPT ![o] = "AWAITING_SIGNATURE"]
    BY <1>5, <1>6, <1>7, <1>10
  <2>2. Lifecycle!Open(o)
    BY <1>6, <1>8, <1>9, <2>1 DEF Lifecycle!Open, Lifecycle!Write
  <2> QED
    BY <2>2 DEF Lifecycle!Next
<1>11. CASE o \notin Durable'
  <2>1. Shown' = Shown
    BY <1>5, <1>6, <1>7, <1>11
  <2> QED
    BY <1>8, <1>9, <2>1 DEF Lifecycle!lifecycleVars
<1> QED
  BY <1>10, <1>11

(* An order on a nonce whose row holds the vault's signature was signed.   *)
LEMMA SignedShown ==
  ASSUME FullInv, NEW o \in Durable, Exists(o), order[o].vaultSigs
  PROVE  Shown[o] \in Lifecycle!Signed /\ Shown[o] = order[o].status
<1>1. order[o].status \in Status /\ o \in Orders
  BY DEF FullInv, Inv, TypeOK, OrderRow, Durable
<1>2. order[o].status \notin {"NONE", "AWAITING_SIGNATURE", "EXPIRED"}
  BY DEF FullInv, StatusInv, Exists
<1>3. Shown[o] = order[o].status
  BY <1>1 DEF Shown
<1> QED
  BY <1>1, <1>2, <1>3 DEF Status, Lifecycle!Signed

(* What the cluster does is to execute the order or to show an error.      *)
LEMMA ExecuteShown ==
  ASSUME FullInv, [Next]_vars, NEW o \in Orders, NEW i \in MessageIndex, Execute(o, i)
  PROVE  [Lifecycle!Next]_(Lifecycle!lifecycleVars)
<1>0. Inv /\ HistoryInv
  BY DEF FullInv
<1>1. tx \in [Orders -> [MessageIndex -> TxState]] /\ order \in [Orders -> OrderRow]
  BY <1>0 DEF Inv, TypeOK
<1>2. order' = order /\ req' = req
  BY DEF Execute, orderVars
<1>3. /\ tx[o][i] \notin {"unsent", "ok", "err"}
      /\ \A p \in Orders : \A j \in MessageIndex : p # o \/ j # i => tx'[p][j] = tx[p][j]
  <2>1. tx[o][i] \notin {"unsent", "ok", "err"} /\ \E s : tx' = [tx EXCEPT ![o][i] = s]
    BY DEF Execute, Process, Confirm, Abandon, Land
  <2> QED
    BY <1>1, <2>1
<1>4. Shown' = Shown /\ Durable' = Durable
  BY <1>2 DEF Shown, Durable
<1>5. UNCHANGED Lifecycle!submissionVars
  BY <1>2, ListsKept DEF Unmoved
<1>6. o \in Durable /\ Exists(o) /\ order[o].vaultSigs /\ i \in 1 .. order[o].messages
  <2>1. order[o].messages \in Nat
    BY <1>1 DEF OrderRow
  <2> QED
    BY <1>0, <1>3, <2>1 DEF Inv, ChainInv, SentHasNonce, NothingLeavesUnsigned, Durable, MessageIndex
<1>7. Shown[o] \in Lifecycle!Signed
  BY <1>6, SignedShown
<1>8. \A p \in Orders : 1 .. order[p].messages \subseteq MessageIndex
  BY <1>1, ClusterAssumption DEF OrderRow, MessageIndex
<1>9. \A p \in Orders \ {o} : p \in Landed' <=> p \in Landed
  BY <1>2, <1>3, <1>8 DEF Landed
<1>10. o \notin Landed /\ (o \in Landed' => tx'[o][i] = "ok")
  BY <1>2, <1>3, <1>6 DEF Landed
<1>11. Landed \subseteq Orders /\ Landed' \subseteq Orders
  BY DEF Landed
<1>12. refused' = refused \cup {p \in Orders : \E j \in MessageIndex :
                                                tx'[p][j] \in {"seen_err", "err"}}
  BY <1>0, <1>3, Remembered DEF Remember, vars, history, HistoryInv, chainVars
<1>13. \A p \in Orders : \A j \in MessageIndex :
         tx'[p][j] \in {"seen_err", "err"} => p \in refused \/ (p = o /\ j = i)
  BY <1>0, <1>3 DEF HistoryInv
<1>14. CASE tx'[o][i] = "ok"
  <2>1. refused' = refused
    BY <1>12, <1>13, <1>14
  <2>2. CASE o \in Landed'
    <3>1. Landed' = Landed \cup {o}
      BY <1>9, <1>11, <2>2
    <3>2. Lifecycle!Execute(o)
      BY <1>4, <1>5, <1>7, <2>1, <3>1 DEF Lifecycle!Execute
    <3> QED
      BY <3>2 DEF Lifecycle!Next
  <2>3. CASE o \notin Landed'
    <3>1. Landed' = Landed
      BY <1>9, <1>10, <1>11, <2>3
    <3> QED
      BY <1>4, <1>5, <2>1, <3>1 DEF Lifecycle!lifecycleVars, Lifecycle!clusterVars
  <2> QED
    BY <2>2, <2>3
<1>15. CASE tx'[o][i] # "ok"
  <2>1. Landed' = Landed
    BY <1>9, <1>10, <1>11, <1>15
  <2>2. CASE tx'[o][i] \in {"seen_err", "err"}
    <3>1. refused' = refused \cup {o}
      BY <1>12, <1>13, <2>2
    <3>2. Lifecycle!ShowError(o)
      BY <1>4, <1>5, <1>7, <2>1, <3>1 DEF Lifecycle!ShowError
    <3> QED
      BY <3>2 DEF Lifecycle!Next
  <2>3. CASE tx'[o][i] \notin {"seen_err", "err"}
    <3>1. refused' = refused
      BY <1>12, <1>13, <2>3
    <3> QED
      BY <1>4, <1>5, <2>1, <3>1 DEF Lifecycle!lifecycleVars, Lifecycle!clusterVars
  <2> QED
    BY <2>2, <2>3
<1> QED
  BY <1>14, <1>15

(* A submission past the policy is let in, while the order is unsigned.    *)
LEMMA AdmitShown ==
  ASSUME FullInv, [Next]_vars, NEW r \in Requests, NEW o \in Orders, SubmitRead(r, o)
  PROVE  [Lifecycle!Next]_(Lifecycle!lifecycleVars)
<1>0. HistoryInv /\ req \in [Requests -> Request]
  BY DEF FullInv, Inv, TypeOK
<1>1. order' = order /\ tx' = tx /\ req[r].pc = "idle"
  BY DEF SubmitRead, orderVars, chainVars
<1>2. /\ req'[r].pc = "accepting" /\ req'[r].order = o
      /\ \A q \in Requests \ {r} : req'[q] = req[q]
  BY <1>0 DEF SubmitRead, Begin
<1>3. Shown' = Shown /\ Durable' = Durable
  BY <1>1 DEF Shown, Durable
<1>4. UNCHANGED Lifecycle!clusterVars
  BY <1>1, ClusterKept DEF Lifecycle!clusterVars
<1>5. ASSUME NEW p \in Orders
      PROVE  /\ Accepting'[p] = IF p = o /\ o \in Durable THEN Accepting[o] \cup {r} ELSE Accepting[p]
             /\ Accepted'[p] = Accepted[p]
  <2>1. ASSUME NEW q
        PROVE  /\ q \in Accepting'[p] <=> q \in Accepting[p] \/ (q = r /\ p = o /\ o \in Durable)
               /\ q \in Accepted'[p] <=> q \in Accepted[p]
    <3>1. /\ q \in Accepting[p] <=>
               p \in Durable /\ q \in Requests /\ req[q].order = p /\ req[q].pc = "accepting"
          /\ q \in Accepted[p] <=>
               p \in Durable /\ q \in Requests /\ req[q].order = p /\ req[q].pc \in AcceptedPc
      BY Lists
    <3>2. /\ q \in Accepting'[p] <=>
               p \in Durable' /\ q \in Requests /\ req'[q].order = p /\ req'[q].pc = "accepting"
          /\ q \in Accepted'[p] <=>
               p \in Durable' /\ q \in Requests /\ req'[q].order = p /\ req'[q].pc \in AcceptedPc
      BY ListsNext
    <3> QED
      BY <1>1, <1>2, <1>3, <3>1, <3>2 DEF AcceptedPc
  <2> QED
    BY <2>1
<1>6. /\ Accepting = [p \in Orders |-> Accepting[p]] /\ Accepting' = [p \in Orders |-> Accepting'[p]]
      /\ Accepted = [p \in Orders |-> Accepted[p]] /\ Accepted' = [p \in Orders |-> Accepted'[p]]
  BY DEF Accepting, Accepted
<1>7. Accepted' = Accepted
  BY <1>5, <1>6
<1>8. \A p \in Orders : Submitting(p)' = IF p = o THEN Submitting(o) \cup {r} ELSE Submitting(p)
  BY <1>1, <1>2 DEF Submitting
<1>9. overlapped' = overlapped \cup {p \in Orders : \E s, q \in Submitting(p)' : s # q}
  <2>1. req' # req
    BY <1>1, <1>2
  <2> QED
    BY <2>1, Remembered DEF Remember, vars
<1>10. \A p \in Orders \ {o} : p \in overlapped' <=> p \in overlapped
  BY <1>0, <1>8, <1>9 DEF HistoryInv
<1>11. r \notin Submitting(o)
  BY <1>1 DEF Submitting
<1>12. o \in overlapped' <=> o \in overlapped \/ Submitting(o) # {}
  <2>1. CASE Submitting(o) = {}
    BY <1>8, <1>9, <2>1
  <2>2. CASE Submitting(o) # {}
    BY <1>8, <1>9, <1>11, <2>2
  <2> QED
    BY <2>1, <2>2
<1>13. overlapped \subseteq Orders /\ overlapped' \subseteq Orders
  BY <1>0, <1>9 DEF HistoryInv
<1>14. CASE o \in Durable
  <2>1. Accepting' = [Accepting EXCEPT ![o] = @ \cup {r}]
    BY <1>5, <1>6, <1>14
  <2>2. Accepting[o] \cup Accepted[o] = Submitting(o)
    BY <1>14 DEF Accepting, Accepted, At, Submitting
  <2>3. Submitting(o) \subseteq {r} <=> Submitting(o) = {}
    BY <1>11
  <2>4. (overlapped \cap Durable)' = IF Accepting[o] \cup Accepted[o] \subseteq {r}
                                     THEN overlapped \cap Durable
                                     ELSE (overlapped \cap Durable) \cup {o}
    <3>1. CASE Submitting(o) = {}
      BY <1>3, <1>10, <1>12, <1>13, <2>2, <2>3, <3>1
    <3>2. CASE Submitting(o) # {}
      BY <1>3, <1>10, <1>12, <1>13, <1>14, <2>2, <2>3, <3>2
    <3> QED
      BY <3>1, <3>2
  <2>5. Shown[o] = "AWAITING_SIGNATURE"
    BY <1>14 DEF SubmitRead, PolicyHolds, Shown
  <2>6. Lifecycle!Admit(o, r)
    BY <1>3, <1>4, <1>7, <2>1, <2>4, <2>5 DEF Lifecycle!Admit
  <2> QED
    BY <2>6 DEF Lifecycle!Next
<1>15. CASE o \notin Durable
  <2>1. Accepting' = Accepting
    BY <1>5, <1>6, <1>15
  <2>2. (overlapped \cap Durable)' = overlapped \cap Durable
    BY <1>3, <1>10, <1>13, <1>15
  <2> QED
    BY <1>3, <1>4, <1>7, <2>1, <2>2 DEF Lifecycle!lifecycleVars, Lifecycle!submissionVars
<1> QED
  BY <1>14, <1>15

(* One handler moves: only the lists of its order change, and only by it.  *)
LEMMA OneMoves ==
  ASSUME FullInv, [Next]_vars, NEW r \in Requests, NEW o \in Orders, req[r].order = o,
         req[r].pc # "idle", \A q \in Requests \ {r} : req'[q] = req[q],
         req'[r].order = o \/ req'[r].pc \notin SubmitPc
  PROVE  /\ \A p \in Orders \ {o} : Accepting'[p] = Accepting[p] /\ Accepted'[p] = Accepted[p]
         /\ Accepting'[o] \ {r} = Accepting[o] \ {r}
         /\ Accepted'[o] \ {r} = Accepted[o] \ {r}
<1>1. ASSUME NEW p \in Orders, NEW q, q # r \/ p # o
      PROVE  /\ q \in Accepting'[p] <=> q \in Accepting[p]
             /\ q \in Accepted'[p] <=> q \in Accepted[p]
  <2>1. /\ q \in Accepting[p] <=>
             p \in Durable /\ q \in Requests /\ req[q].order = p /\ req[q].pc = "accepting"
        /\ q \in Accepted[p] <=>
             p \in Durable /\ q \in Requests /\ req[q].order = p /\ req[q].pc \in AcceptedPc
    BY Lists
  <2>2. /\ q \in Accepting'[p] <=>
             p \in Durable' /\ q \in Requests /\ req'[q].order = p /\ req'[q].pc = "accepting"
        /\ q \in Accepted'[p] <=>
             p \in Durable' /\ q \in Requests /\ req'[q].order = p /\ req'[q].pc \in AcceptedPc
    BY ListsNext
  <2>3. CASE q = r
    BY <1>1, <2>1, <2>2, <2>3 DEF SubmitPc, AcceptedPc
  <2>4. CASE q \notin Requests
    BY <2>1, <2>2, <2>4
  <2>5. CASE q \in Requests \ {r}
    BY <2>5, SlotStays
  <2> QED
    BY <2>3, <2>4, <2>5
<1> QED
  BY <1>1

(* Sets that differ in nothing but x, and agree on x, are the same.        *)
LEMMA SameWithout ==
  ASSUME NEW A, NEW B, NEW x, A \ {x} = B \ {x}, x \in A <=> x \in B
  PROVE  A = B
<1>1. \A y : y \in A <=> y \in B
  <2> TAKE y
  <2>1. y \in A \ {x} <=> y \in B \ {x}
    OBVIOUS
  <2> QED
    BY <2>1
<1> QED
  BY <1>1

(* One handler leaves.                                                     *)
LEMMA OneLeaves ==
  ASSUME FullInv, [Next]_vars, order' = order, tx' = tx, NEW r \in Requests,
         req'[r].pc \notin SubmitPc, \A q \in Requests \ {r} : req'[q] = req[q]
  PROVE  Lifecycle!Next
<1>1. PICK gone \in SUBSET Requests : gone = {r}
  OBVIOUS
<1>2. \A q \in gone : req'[q].pc \notin SubmitPc
  BY <1>1
<1>3. \A q \in Requests \ gone : req'[q] = req[q]
  BY <1>1
<1> QED
  BY <1>2, <1>3, LeaveShown

(* The handler that stores the signature moves from one list to the other. *)
LEMMA SignShown ==
  ASSUME FullInv, [Next]_vars, NEW r \in Requests, AcceptSignature(r)
  PROVE  [Lifecycle!Next]_(Lifecycle!lifecycleVars)
<1> DEFINE o == req[r].order
<1>0. /\ o \in Orders /\ Exists(o) /\ req[r].pc = "accepting" /\ StatusInv
      /\ order \in [Orders -> OrderRow] /\ req \in [Requests -> Request]
  BY DEF AcceptSignature, FullInv, Inv, TypeOK, HandlerInv, Established
<1>1. tx' = tx /\ order' = [order EXCEPT ![o].status = "SIGNED", ![o].vaultSigs = TRUE]
  BY DEF AcceptSignature, chainVars
<1>2. /\ req'[r].pc = "simulating" /\ req'[r].order = o
      /\ \A q \in Requests \ {r} : req'[q] = req[q]
  BY <1>0 DEF AcceptSignature, Step, Request
<1>3. /\ order'[o].nonceAccount = order[o].nonceAccount /\ order'[o].status = "SIGNED"
      /\ \A p \in Orders \ {o} : order'[p] = order[p]
  BY <1>0, <1>1 DEF OrderRow
<1> HIDE DEF o
<1>4. /\ o \in Durable => Lifecycle!Write(o, order'[o].status) /\ Shown[o] = order[o].status
      /\ o \notin Durable => Shown' = Shown
      /\ Durable' = Durable
  BY <1>0, <1>3, WriteShown
<1>5. UNCHANGED Lifecycle!clusterVars
  BY <1>1, ClusterKept DEF Lifecycle!clusterVars
<1>6. (overlapped \cap Durable)' = overlapped \cap Durable
  <2>1. \A p \in Orders : Submitting(p)' \subseteq Submitting(p)
    BY <1>0, <1>2 DEF Submitting, o
  <2> QED
    BY <2>1, OverlapKept
<1>7. /\ \A p \in Orders \ {o} : Accepting'[p] = Accepting[p] /\ Accepted'[p] = Accepted[p]
      /\ Accepting'[o] \ {r} = Accepting[o] \ {r}
      /\ Accepted'[o] \ {r} = Accepted[o] \ {r}
  BY <1>0, <1>2, OneMoves DEF o
<1>8. /\ r \in Accepting[o] <=> o \in Durable
      /\ r \notin Accepted[o]
  BY <1>0, Lists DEF AcceptedPc, o
<1>9. /\ r \notin Accepting'[o]
      /\ r \in Accepted'[o] <=> o \in Durable
  BY <1>0, <1>2, <1>4, ListsNext DEF AcceptedPc
<1>10. /\ Accepting = [p \in Orders |-> Accepting[p]] /\ Accepting' = [p \in Orders |-> Accepting'[p]]
       /\ Accepted = [p \in Orders |-> Accepted[p]] /\ Accepted' = [p \in Orders |-> Accepted'[p]]
  BY DEF Accepting, Accepted
<1>11. CASE o \in Durable
  <2>1. Accepting'[o] = Accepting[o] \ {r} /\ Accepted'[o] = Accepted[o] \cup {r}
    BY <1>7, <1>8, <1>9, <1>11
  <2>2. Accepting' = [Accepting EXCEPT ![o] = @ \ {r}]
    BY <1>7, <1>10, <2>1
  <2>3. Accepted' = [Accepted EXCEPT ![o] = @ \cup {r}]
    BY <1>7, <1>10, <2>1
  <2>4. o \in overlapped \cap Durable \/ Shown[o] = "AWAITING_SIGNATURE"
    <3>1. order[o].nonceAccount # None
      BY <1>11 DEF Durable
    <3>2. o \notin overlapped => order[o].status = "AWAITING_SIGNATURE"
      BY <1>0, <3>1 DEF StatusInv, o
    <3> QED
      BY <1>4, <1>11, <3>2
  <2>5. Lifecycle!Write(o, "SIGNED")
    BY <1>3, <1>4, <1>11
  <2>6. Lifecycle!Sign(o, r)
    BY <1>5, <1>6, <1>8, <1>11, <2>2, <2>3, <2>4, <2>5 DEF Lifecycle!Sign
  <2> QED
    BY <1>0, <2>6 DEF Lifecycle!Next
<1>12. CASE o \notin Durable
  <2>1. Accepting'[o] = Accepting[o] /\ Accepted'[o] = Accepted[o]
    BY <1>7, <1>8, <1>9, <1>12, SameWithout
  <2>2. Accepting' = Accepting
    BY <1>7, <1>10, <2>1
  <2>3. Accepted' = Accepted
    BY <1>7, <1>10, <2>1
  <2> QED
    BY <1>4, <1>5, <1>6, <1>12, <2>2, <2>3
       DEF Lifecycle!lifecycleVars, Lifecycle!submissionVars
<1> QED
  BY <1>11, <1>12

(* A handler that was sending ends with the status it writes.              *)
LEMMA EndShown ==
  ASSUME FullInv, [Next]_vars, NEW r \in Requests, RecordSendFailure(r) \/ RecordBroadcast(r)
  PROVE  [Lifecycle!Next]_(Lifecycle!lifecycleVars)
<1> DEFINE o == req[r].order
<1>0. /\ o \in Orders /\ Exists(o) /\ req[r].pc \in {"failing", "broadcast"} /\ StatusInv
      /\ order \in [Orders -> OrderRow] /\ req \in [Requests -> Request]
  BY DEF RecordSendFailure, RecordBroadcast, FullInv, Inv, TypeOK, HandlerInv, Established
<1>1. tx' = tx
  BY DEF RecordSendFailure, RecordBroadcast, chainVars
<1>2. /\ req'[r].pc \in {"idle", "observing"}
      /\ \A q \in Requests \ {r} : req'[q] = req[q]
  BY <1>0 DEF RecordSendFailure, RecordBroadcast, Step, Return, Idle, Request
<1>3. /\ order'[o].nonceAccount = order[o].nonceAccount
      /\ order'[o].status \in {"FAILED", "BROADCAST"}
      /\ \A p \in Orders \ {o} : order'[p] = order[p]
  <2>1. CASE RecordSendFailure(r)
    BY <1>0, <2>1 DEF RecordSendFailure, OrderRow
  <2>2. CASE RecordBroadcast(r)
    BY <1>0, <2>2 DEF RecordBroadcast, OrderRow
  <2> QED
    BY <2>1, <2>2
<1> HIDE DEF o
<1>4. /\ o \in Durable => Lifecycle!Write(o, order'[o].status) /\ Shown[o] = order[o].status
      /\ o \notin Durable => Shown' = Shown
      /\ Durable' = Durable
  BY <1>0, <1>3, WriteShown
<1>5. UNCHANGED Lifecycle!clusterVars
  BY <1>1, ClusterKept DEF Lifecycle!clusterVars
<1>6. (overlapped \cap Durable)' = overlapped \cap Durable
  <2>1. \A p \in Orders : Submitting(p)' \subseteq Submitting(p)
    BY <1>0, <1>2 DEF Submitting, o
  <2> QED
    BY <2>1, OverlapKept
<1>7. /\ \A p \in Orders \ {o} : Accepting'[p] = Accepting[p] /\ Accepted'[p] = Accepted[p]
      /\ Accepting'[o] \ {r} = Accepting[o] \ {r}
      /\ Accepted'[o] \ {r} = Accepted[o] \ {r}
  <2>1. req[r].pc # "idle" /\ req'[r].pc \notin SubmitPc
    BY <1>0, <1>2 DEF SubmitPc
  <2> QED
    BY <1>0, <1>2, <2>1, OneMoves DEF o
<1>8. /\ r \notin Accepting[o]
      /\ r \in Accepted[o] <=> o \in Durable
  BY <1>0, Lists DEF AcceptedPc, o
<1>9. r \notin Accepting'[o] /\ r \notin Accepted'[o]
  BY <1>0, <1>2, ListsNext DEF AcceptedPc
<1>10. /\ Accepting = [p \in Orders |-> Accepting[p]] /\ Accepting' = [p \in Orders |-> Accepting'[p]]
       /\ Accepted = [p \in Orders |-> Accepted[p]] /\ Accepted' = [p \in Orders |-> Accepted'[p]]
  BY DEF Accepting, Accepted
<1>11. Accepting' = Accepting
  <2>1. Accepting'[o] = Accepting[o]
    BY <1>7, <1>8, <1>9, SameWithout
  <2> QED
    BY <1>7, <1>10, <2>1
<1>12. CASE o \in Durable
  <2>1. Accepted'[o] = Accepted[o] \ {r}
    BY <1>7, <1>9
  <2>2. Accepted' = [Accepted EXCEPT ![o] = @ \ {r}]
    BY <1>7, <1>10, <2>1
  <2>3. o \in overlapped \cap Durable \/ Shown[o] = "SIGNED"
    <3>1. order[o].nonceAccount # None
      BY <1>12 DEF Durable
    <3>2. o \notin overlapped => order[o].status = "SIGNED"
      BY <1>0, <3>1 DEF StatusInv, o
    <3> QED
      BY <1>4, <1>12, <3>2
  <2>4. Lifecycle!Write(o, order'[o].status)
    BY <1>4, <1>12
  <2>5. Lifecycle!Ends(o, r, order'[o].status)
    BY <1>5, <1>6, <1>8, <1>11, <1>12, <2>2, <2>3, <2>4 DEF Lifecycle!Ends
  <2>6. Lifecycle!GiveUp(o, r) \/ Lifecycle!Send(o, r)
    BY <1>3, <2>5 DEF Lifecycle!GiveUp, Lifecycle!Send
  <2> QED
    BY <1>0, <2>6 DEF Lifecycle!Next
<1>13. CASE o \notin Durable
  <2>1. Accepted'[o] = Accepted[o]
    BY <1>7, <1>8, <1>9, <1>13, SameWithout
  <2>2. Accepted' = Accepted
    BY <1>7, <1>10, <2>1
  <2> QED
    BY <1>4, <1>5, <1>6, <1>11, <1>13, <2>2
       DEF Lifecycle!lifecycleVars, Lifecycle!submissionVars
<1> QED
  BY <1>12, <1>13

(* An outcome that is written is true, and the order was in flight.        *)
LEMMA OutcomeShown ==
  ASSUME FullInv, [Next]_vars, NEW r \in Requests, WriteOutcome(r)
  PROVE  [Lifecycle!Next]_(Lifecycle!lifecycleVars)
<1> DEFINE o == req[r].order
<1>0. /\ o \in Orders /\ Exists(o) /\ req[r].pc = "writing" /\ StatusInv /\ OutcomeInv
      /\ HistoryInv /\ order \in [Orders -> OrderRow] /\ req \in [Requests -> Request]
  BY DEF WriteOutcome, FullInv, Inv, TypeOK, HandlerInv, Established
<1>1. tx' = tx
  BY DEF WriteOutcome, chainVars
<1>2. \A q \in Requests : Unmoved(q)
  <2>1. req'[r].pc = "idle" /\ \A q \in Requests \ {r} : req'[q] = req[q]
    BY <1>0 DEF WriteOutcome, Return, Idle
  <2> QED
    BY <1>0, <2>1 DEF Unmoved, SubmitPc
<1>3. /\ order'[o].nonceAccount = order[o].nonceAccount /\ order'[o].status = req[r].outcome
      /\ \A p \in Orders \ {o} : order'[p] = order[p]
  BY <1>0 DEF WriteOutcome, OrderRow
<1>4. /\ req[r].outcome \in Terminal
      /\ req[r].outcome = "CONFIRMED" => \A i \in 1 .. order[o].messages : tx[o][i] = "ok"
  BY <1>0 DEF FullInv, Inv, HandlerInv, Established
<1>5. /\ req[r].outcome = "EXPIRED" => order[o].nonceAccount = None
      /\ req[r].outcome = "FAILED" => o \in refused
  BY <1>0 DEF OutcomeInv
<1>6. order[o].nonceAccount # None /\ o \notin overlapped =>
        /\ order[o].status \in {"BROADCAST", "FAILED", "CONFIRMED"}
        /\ order[o].status = "FAILED" => o \in refused
  BY <1>0 DEF StatusInv
<1>7. order[o].messages \in MessageIndex
  BY <1>0 DEF FullInv, Inv, TableInv, RowInv
<1> HIDE DEF o
<1>8. /\ o \in Durable => Lifecycle!Write(o, req[r].outcome) /\ Shown[o] = order[o].status
      /\ o \notin Durable => Shown' = Shown
      /\ Durable' = Durable
  BY <1>0, <1>3, WriteShown
<1>9. UNCHANGED Lifecycle!clusterVars
  BY <1>1, ClusterKept DEF Lifecycle!clusterVars
<1>10. UNCHANGED Lifecycle!submissionVars
  BY <1>2, ListsKept
<1>11. CASE o \in Durable
  <2>1. req[r].outcome \in {"CONFIRMED", "FAILED"}
    BY <1>4, <1>5, <1>11 DEF Durable, Terminal
  <2>2. order[o].messages \in Nat /\ order[o].messages > 0 /\ 1 \in 1 .. order[o].messages
        /\ 1 \in MessageIndex
    BY <1>7, ClusterAssumption DEF MessageIndex
  <2>3. req[r].outcome = "CONFIRMED" => o \in Landed
    BY <1>0, <1>4, <2>2 DEF Landed
  <2>4. order[o].vaultSigs
    <3>1. CASE req[r].outcome = "CONFIRMED"
      <4>1. tx[o][1] # "unsent"
        BY <1>4, <2>2, <3>1
      <4> QED
        BY <1>0, <2>2, <4>1 DEF FullInv, Inv, NothingLeavesUnsigned
    <3>2. CASE req[r].outcome = "FAILED"
      BY <1>0, <1>5, <3>2 DEF HistoryInv
    <3> QED
      BY <2>1, <3>1, <3>2
  <2>5. Shown[o] \in Lifecycle!Signed
    BY <1>0, <1>11, <2>4, SignedShown
  <2>6. Lifecycle!InFlight(o)
    <3>1. order[o].nonceAccount # None
      BY <1>11 DEF Durable
    <3>2. CASE o \in overlapped
      BY <1>11, <2>5, <3>2 DEF Lifecycle!InFlight
    <3>3. CASE o \notin overlapped
      BY <1>6, <1>8, <1>11, <3>1, <3>3 DEF Lifecycle!InFlight
    <3> QED
      BY <3>2, <3>3
  <2>7. CASE req[r].outcome = "CONFIRMED"
    <3>1. Lifecycle!Settle(o)
      BY <1>8, <1>9, <1>10, <1>11, <2>3, <2>6, <2>7 DEF Lifecycle!Settle
    <3> QED
      BY <1>0, <3>1 DEF Lifecycle!Next
  <2>8. CASE req[r].outcome = "FAILED"
    <3>1. Lifecycle!Fail(o)
      BY <1>5, <1>8, <1>9, <1>10, <1>11, <2>6, <2>8 DEF Lifecycle!Fail
    <3> QED
      BY <1>0, <3>1 DEF Lifecycle!Next
  <2> QED
    BY <2>1, <2>7, <2>8
<1>12. CASE o \notin Durable
  BY <1>8, <1>9, <1>10, <1>12 DEF Lifecycle!lifecycleVars
<1> QED
  BY <1>11, <1>12

(* The handlers that work on a submission, or on what became of it.        *)
LEMMA HandleShown ==
  ASSUME FullInv, [Next]_vars, NEW r \in Requests, Handle(r)
  PROVE  [Lifecycle!Next]_(Lifecycle!lifecycleVars)
<1>0. req \in [Requests -> Request] /\ tx \in [Orders -> [MessageIndex -> TxState]]
  BY DEF FullInv, Inv, TypeOK
<1>1. CASE AcceptSignature(r)
  BY <1>1, SignShown
<1>2. CASE RecordSendFailure(r) \/ RecordBroadcast(r)
  BY <1>2, EndShown
<1>3. CASE WriteOutcome(r)
  BY <1>3, OutcomeShown
<1>4. CASE Simulate(r) /\ Step(r, "sending")
  <2>1. order' = order /\ tx' = tx /\ req[r].pc = "simulating"
    BY <1>4 DEF Simulate, orderVars, chainVars
  <2>2. /\ req'[r].pc = "sending" /\ req'[r].order = req[r].order
        /\ \A q \in Requests \ {r} : req'[q] = req[q]
    BY <1>0, <1>4 DEF Step, Request
  <2>3. \A q \in Requests : Unmoved(q)
    BY <2>1, <2>2 DEF Unmoved, AcceptedPc
  <2> QED
    BY <2>1, <2>3, QuietStep
<1>5. CASE SendAccepted(r) \/ SendRefused(r) \/ SendUnanswered(r)
  <2>1. order' = order /\ req[r].pc = "sending"
    BY <1>5 DEF SendAccepted, SendRefused, SendUnanswered, orderVars
  <2>2. /\ req'[r].pc \in AcceptedPc /\ req'[r].order = req[r].order
        /\ \A q \in Requests \ {r} : req'[q] = req[q]
    BY <1>0, <1>5 DEF SendAccepted, SendRefused, SendUnanswered, Step, Request, AcceptedPc
  <2>3. \A q \in Requests : Unmoved(q)
    BY <2>1, <2>2 DEF Unmoved, AcceptedPc
  <2>4. \A o \in Orders : \A i \in MessageIndex :
          tx'[o][i] = tx[o][i] \/ (tx[o][i] = "unsent" /\ tx'[o][i] = "sent")
    BY <1>0, <1>5 DEF SendAccepted, SendRefused, SendUnanswered, TakeIn, chainVars
  <2> QED
    BY <2>1, <2>3, <2>4, QuietStep
<1>6. CASE Simulate(r) /\ Return(r)
  <2>1. order' = order /\ tx' = tx
    BY <1>6 DEF Simulate, orderVars, chainVars
  <2>2. req'[r].pc \notin SubmitPc /\ \A q \in Requests \ {r} : req'[q] = req[q]
    BY <1>0, <1>6 DEF Return, Idle, SubmitPc
  <2>3. Lifecycle!Next
    BY <2>1, <2>2, OneLeaves
  <2> QED
    BY <2>3
<1>7. CASE \/ ObserveFailed(r) \/ ObserveConfirmed(r) \/ ObservePending(r) \/ Release(r)
  <2>1. order' = order /\ tx' = tx
    BY <1>7 DEF ObserveFailed, ObserveConfirmed, ObservePending, Release, orderVars, chainVars
  <2>2. req'[r].pc \notin SubmitPc /\ \A q \in Requests \ {r} : req'[q] = req[q]
    BY <1>0, <1>7 DEF ObserveFailed, ObserveConfirmed, ObservePending, Release, Return, Idle,
                      Decide, Step, Request, SubmitPc
  <2>3. Lifecycle!Next
    BY <2>1, <2>2, OneLeaves
  <2> QED
    BY <2>3
<1>8. Simulate(r) => Step(r, "sending") \/ Return(r)
  BY DEF Simulate
<1> QED
  BY <1>1, <1>2, <1>3, <1>4, <1>5, <1>6, <1>7, <1>8 DEF Handle

(* Handlers that read a row without submitting it, or that end early.      *)
LEMMA ReadShown ==
  ASSUME FullInv, [Next]_vars, NEW r \in Requests,
         Throws(r) \/ \E o \in Orders : ReadStale(r, o) \/ FindRead(r, o)
  PROVE  Lifecycle!Next
<1>0. req \in [Requests -> Request]
  BY DEF FullInv, Inv, TypeOK
<1>1. order' = order /\ tx' = tx
  BY DEF Throws, ReadStale, FindRead, orderVars, chainVars
<1>2. req'[r].pc \notin SubmitPc /\ \A q \in Requests \ {r} : req'[q] = req[q]
  BY <1>0 DEF Throws, ReadStale, FindRead, Return, Idle, Decide, Begin, SubmitPc
<1> QED
  BY <1>1, <1>2, OneLeaves

(* When the process dies everybody leaves.                                 *)
LEMMA CrashShown ==
  ASSUME FullInv, [Next]_vars, RelayerCrashes
  PROVE  Lifecycle!Next
<1>1. order' = order /\ tx' = tx /\ \A r \in Requests : req'[r].pc \notin SubmitPc
  BY DEF RelayerCrashes, chainVars, Idle, SubmitPc
<1> QED
  BY <1>1, LeaveShown

(* The reservations and the command show nothing.                          *)
LEMMA AsideShown ==
  ASSUME FullInv, [Next]_vars, order' = order, tx' = tx, req' = req
  PROVE  UNCHANGED Lifecycle!lifecycleVars
  BY QuietStep DEF Unmoved

(* Every step of the relayer is a step of OrderLifecycle, or shows nothing. *)
LEMMA LifecycleStep ==
  FullInv /\ [Next]_vars => [Lifecycle!Next]_(Lifecycle!lifecycleVars)
<1> SUFFICES ASSUME FullInv, [Next]_vars
             PROVE  [Lifecycle!Next]_(Lifecycle!lifecycleVars)
  OBVIOUS
<1>1. CASE \E o \in Orders : Insert(o)
  BY <1>1, InsertShown
<1>2. CASE \E o \in Orders : GrowOld(o)
  BY <1>2, GrowOldShown
<1>3. CASE \E o \in Orders : (Reserve(o) /\ UNCHANGED req) \/ BuildFails(o) \/ CreateThrows(o)
  <2>1. order' = order /\ tx' = tx /\ req' = req
    BY <1>3 DEF Reserve, FindFree, ReadValue, ReadValueNull, DropRow, MarkInUse, BuildFails,
                CreateThrows, chainVars
  <2> QED
    BY <2>1, AsideShown
<1>4. CASE Cli /\ UNCHANGED req
  <2>1. order' = order /\ tx' = tx /\ req' = req
    BY <1>4 DEF Cli, ListHeld, FreeChosen, RecordAccount, CliDies, CheckHeld, CreateAccount,
                OpenAccount, chainVars
  <2> QED
    BY <2>1, AsideShown
<1>5. CASE \E r \in Requests, o \in Orders : SubmitRead(r, o)
  BY <1>5, AdmitShown
<1>6. CASE \E r \in Requests : Throws(r) \/ \E o \in Orders : ReadStale(r, o) \/ FindRead(r, o)
  BY <1>6, ReadShown
<1>7. CASE \E r \in Requests : Handle(r)
  BY <1>7, HandleShown
<1>8. CASE RelayerCrashes
  BY <1>8, CrashShown
<1>9. CASE \E o \in Orders, i \in MessageIndex : Execute(o, i)
  BY <1>9, ExecuteShown
<1>10. CASE UNCHANGED vars
  BY <1>10, AsideShown DEF vars, orderVars, chainVars
<1> QED
  BY <1>1, <1>2, <1>3, <1>4, <1>5, <1>6, <1>7, <1>8, <1>9, <1>10 DEF Next, Create

(* What is shown of a new relayer is a new lifecycle.                      *)
LEMMA LifecycleInit == Init => Lifecycle!Init
<1> SUFFICES ASSUME Init PROVE Lifecycle!Init
  OBVIOUS
<1>1. \A o \in Orders : order[o] = NoRow /\ NoRow.nonceAccount = None /\ NoRow.messages = 0
  BY DEF Init, PoolInit, NoRow
<1>2. Durable = {}
  BY <1>1 DEF Durable
<1>3. Shown = [o \in Orders |-> "NONE"]
  BY <1>2 DEF Shown
<1>4. Landed = {}
  BY <1>1 DEF Landed
<1>5. Accepting = [o \in Orders |-> {}] /\ Accepted = [o \in Orders |-> {}]
  BY <1>2 DEF Accepting, Accepted, At
<1> QED
  BY <1>2, <1>3, <1>4, <1>5 DEF Init, Lifecycle!Init

(* Whatever handlers, commands, faults and forks do, what can be seen of   *)
(* the relayer is an OrderLifecycle (submit, find, settle).                *)
THEOREM LifecycleRefined == Spec => ImplementsLifecycle
  BY LifecycleInit, LifecycleStep, FullInvariant, PTL
     DEF Spec, ImplementsLifecycle, Lifecycle!Spec
=============================================================================

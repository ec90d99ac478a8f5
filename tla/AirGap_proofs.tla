--------------------------- MODULE AirGap_proofs ---------------------------
(***************************************************************************)
(* Proofs about AirGap, for any number of pages, orders, frames, calls and *)
(* crossings: its invariant, that it implements Crossing, and what a page  *)
(* goes on saying.                                                         *)
(*                                                                         *)
(* The invariant follows what a signature is made of along its way: the    *)
(* session approved on the phone, asked for by a confirm(), shown in a     *)
(* reply, kept, submitted by the page of that session, accepted.           *)
(***************************************************************************)
EXTENDS AirGap, Assembler_proofs

USE AirGapAssumption

(* The initial state.                                                      *)
LEMMA InitWay == Init => WayInv
<1> SUFFICES ASSUME Init PROVE WayInv
  OBVIOUS
<1>1. RelayerOK /\ CallsOK /\ PhoneOK
  BY EmptyIsAssembler, AssemblerAssumption
     DEF Init, Life!Init, RelayerOK, CallsOK, PhoneOK, CallType, Free
<1>2. PagesOK
  BY AssemblerAssumption DEF Init, PagesOK
<1> QED
  BY <1>1, <1>2, EmptyIsAssembler
     DEF Init, WayInv, TypeOK, ReplyIsCurrent, RepliesApproved, CallsApproved, CallsReached,
         ToldWasAccepted, Unanswered, Told, Final, Free

-----------------------------------------------------------------------------
(* What only pages, only calls, only the phone change leaves the rest.     *)

(* A step of a page that sends nothing: its frame, its polls, its answers. *)
LEMMA PageKeeps ==
  ASSUME WayInv, PagesOK', ToldWasAccepted',
         UNCHANGED <<relayerVars, call, screen, scanVars, signVars>>
  PROVE  WayInv'
  BY DEF WayInv, TypeOK, RelayerOK, CallsOK, PhoneOK, ReplyIsCurrent, RepliesApproved,
         CallsApproved, CallsReached, relayerVars, scanVars, signVars

(* A step of a call that is under way, whose page and reply stay.          *)
LEMMA CallKeeps ==
  ASSUME WayInv, RelayerOK', PagesOK', CallsOK', CallsReached', ToldWasAccepted',
         \A c \in Calls : /\ call'[c].page = call[c].page
                          /\ call'[c].reply = call[c].reply
                          /\ call[c].at = "free" => call'[c].at = "free",
         UNCHANGED <<screen, scanVars, signVars>>
  PROVE  WayInv'
  BY DEF WayInv, TypeOK, PhoneOK, ReplyIsCurrent, RepliesApproved, CallsApproved,
         scanVars, signVars

(* A step of the phone.                                                    *)
LEMMA PhoneKeeps ==
  ASSUME WayInv, PhoneOK', Pure(asm)', ReplyIsCurrent', RepliesApproved',
         approved \subseteq approved', UNCHANGED <<relayerVars, pageVars, call>>
  PROVE  WayInv'
  BY DEF WayInv, TypeOK, RelayerOK, PagesOK, CallsOK, CallsReached, CallsApproved,
         ToldWasAccepted, OrderFor, relayerVars, pageVars

-----------------------------------------------------------------------------
(* The pages.                                                              *)

(* The next frame of a page is a frame of its payload.                     *)
LEMMA NextIndexInBounds ==
  ASSUME NEW p \in Pages, NEW i \in 1 .. Total[p]
  PROVE  NextIndex(p, i) \in 1 .. Total[p]
<1>1. Total[p] \in Nat /\ Total[p] > 0 /\ i \in Nat
  BY AssemblerAssumption
<1>2. i % Total[p] \in 0 .. (Total[p] - 1)
  BY <1>1
<1> QED
  BY <1>1, <1>2 DEF NextIndex

(* Every step of a page keeps the invariant.                               *)
LEMMA PageStep ==
  ASSUME WayInv, NEW p \in Pages, PageNext(p)
  PROVE  WayInv'
<1> USE DEF pageVars
<1>1. PagesOK /\ RelayerOK /\ ToldWasAccepted
  BY DEF WayInv, TypeOK
<1> USE DEF ToldWasAccepted, OrderFor, relayerVars
<1>2. CASE Load(p)
  <2>1. PagesOK' /\ ToldWasAccepted'
    BY <1>1, <1>2 DEF Load, PagesOK
  <2> QED
    BY <1>2, <2>1, PageKeeps DEF Load
<1>3. CASE Close(p)
  <2>1. PagesOK' /\ ToldWasAccepted'
    BY <1>1, <1>3 DEF Close, PagesOK
  <2> QED
    BY <1>3, <2>1, PageKeeps DEF Close
<1>4. CASE NextFrame(p)
  <2>1. NextIndex(p, index[p]) \in 1 .. Total[p] /\ 1 .. Total[p] \subseteq Nat
    BY <1>1, NextIndexInBounds, AssemblerAssumption DEF PagesOK
  <2>2. PagesOK' /\ ToldWasAccepted'
    BY <1>1, <1>4, <2>1 DEF NextFrame, PagesOK
  <2> QED
    BY <1>4, <2>2, PageKeeps DEF NextFrame
<1>5. CASE Poll(p)
  <2>1. status[OrderOf[p]] \in Told
    BY <1>1, <1>5 DEF Poll, Polls, Told
  <2>2. PagesOK' /\ ToldWasAccepted'
    BY <1>1, <1>5, <2>1 DEF Poll, PagesOK
  <2> QED
    BY <1>5, <2>2, PageKeeps DEF Poll
<1>6. ASSUME NEW s \in Told, Polled(p, s) PROVE WayInv'
  <2>1. \/ submitted' = submitted
        \/ submitted[p] \in Told /\ submitted' = [submitted EXCEPT ![p] = s]
    <3>1. CASE submitted[p] = "BROADCAST"
      BY <1>6, <3>1 DEF Polled, Told
    <3>2. CASE submitted[p] # "BROADCAST"
      BY <1>6, <3>2 DEF Polled
    <3> QED
      BY <3>1, <3>2
  <2>2. PagesOK' /\ ToldWasAccepted'
    BY <1>1, <1>6, <2>1 DEF Polled, PagesOK
  <2> QED
    BY <1>6, <2>2, PageKeeps DEF Polled
<1>7. ASSUME NEW r \in Pages, NEW c \in Calls, ReadReply(p, r, c) PROVE WayInv'
  <2>1. r = p /\ r \in approved
    BY <1>7 DEF ReadReply, Answers, WayInv, RepliesApproved
  <2>2. call' = [call EXCEPT ![c] = [at |-> "sent", page |-> p, reply |-> p,
                                     reached |-> "nothing", answer |-> Unanswered]]
    BY <1>7, <2>1 DEF ReadReply
  <2>3. CallsOK' /\ CallsApproved' /\ CallsReached'
    BY <1>7, <2>1, <2>2
       DEF ReadReply, signVars, WayInv, TypeOK, CallsOK, CallType, CallsApproved, CallsReached,
           Unanswered, Told, Final
  <2>4. ToldWasAccepted'
    BY <1>1, <1>7, <2>2 DEF ReadReply, WayInv, TypeOK, CallsOK
  <2> QED
    BY <1>7, <2>3, <2>4
       DEF ReadReply, WayInv, TypeOK, RelayerOK, PagesOK, PhoneOK, ReplyIsCurrent,
           RepliesApproved, relayerVars, scanVars, signVars
<1> QED
  BY <1>2, <1>3, <1>4, <1>5, <1>6, <1>7 DEF PageNext

-----------------------------------------------------------------------------
(* The relayer.                                                            *)

(* No step of an order's life takes a status back to one that is not told, *)
(* or forgets that two submissions met.                                    *)
LEMMA LifeKeeps ==
  ASSUME RelayerOK, NEW o \in Orders,
         \/ Life!Open(o) \/ Life!Execute(o) \/ Life!ShowError(o) \/ Life!Settle(o) \/ Life!Fail(o)
         \/ \E c \in Calls : \/ Life!Admit(o, c) \/ Life!Sign(o, c)
                             \/ Life!Send(o, c) \/ Life!GiveUp(o, c)
  PROVE  /\ RelayerOK' /\ overlapped \subseteq overlapped'
         /\ \A q \in Orders : status[q] \in Told => status'[q] \in Told
<1> USE DEF RelayerOK, Told, Final, Life!Write, Life!clusterVars, Life!submissionVars
<1>1. CASE Life!Open(o) \/ Life!Execute(o) \/ Life!ShowError(o)
  BY <1>1 DEF Life!Open, Life!Execute, Life!ShowError
<1>2. CASE Life!Settle(o) \/ Life!Fail(o)
  BY <1>2 DEF Life!Settle, Life!Fail
<1>3. ASSUME NEW c \in Calls, Life!Admit(o, c)
      PROVE  /\ RelayerOK' /\ overlapped \subseteq overlapped'
             /\ \A q \in Orders : status[q] \in Told => status'[q] \in Told
  BY <1>3 DEF Life!Admit
<1>4. ASSUME NEW c \in Calls, Life!Sign(o, c) \/ Life!Send(o, c) \/ Life!GiveUp(o, c)
      PROVE  /\ RelayerOK' /\ overlapped \subseteq overlapped'
             /\ \A q \in Orders : status[q] \in Told => status'[q] \in Told
  BY <1>4 DEF Life!Sign, Life!Send, Life!GiveUp, Life!Ends
<1> QED
  BY <1>1, <1>2, <1>3, <1>4

(* One call moves on, by the steps of its handler and its answer.          *)
Row(c, at, reached, answer) ==
  [at |-> at, page |-> call[c].page, reply |-> call[c].reply,
   reached |-> reached, answer |-> answer]

Moves(c, at, reached, answer) == call' = [call EXCEPT ![c] = Row(c, at, reached, answer)]

(* How far a call can have come where it is.                               *)
Fits(at, reached, answer) ==
  /\ at = "accepting" => reached = "policy"
  /\ at = "held" \/ answer \in Told => reached = "row"
  /\ at \in {"sent", "accepting", "held"} => answer = Unanswered

LEMMA Moved ==
  ASSUME CallsOK, NEW c \in Calls, call[c].at # "free",
         NEW at \in {"sent", "accepting", "held", "answered", "over"},
         NEW reached \in {"nothing", "policy", "row"},
         NEW answer \in Told \cup {"error", Unanswered}, Moves(c, at, reached, answer)
  PROVE  /\ CallsOK'
         /\ call'[c].page = call[c].page /\ call'[c].reply = call[c].reply
         /\ call'[c].at = at /\ call'[c].reached = reached /\ call'[c].answer = answer
         /\ \A d \in Calls \ {c} : call'[d] = call[d]
         /\ \A d \in Calls : OrderFor(d)' = OrderFor(d)
<1> DEFINE row == Row(c, at, reached, answer)
<1>1. row \in CallType /\ row.page \in Pages
  BY DEF CallsOK, CallType, Row
<1>2. call' = [call EXCEPT ![c] = row]
  BY DEF Moves
<1>3. /\ row.page = call[c].page /\ row.reply = call[c].reply
      /\ row.at = at /\ row.reached = reached /\ row.answer = answer
  BY DEF Row
<1> HIDE DEF row
<1>4. \A d \in Calls : OrderFor(d)' = OrderFor(d)
  BY <1>1, <1>2, <1>3 DEF CallsOK, OrderFor
<1> QED
  BY <1>1, <1>2, <1>3, <1>4 DEF CallsOK

(* A call that moves as far as it fits keeps the invariant.                *)
LEMMA MovedKeeps ==
  ASSUME WayInv, NEW c \in Calls, call[c].at # "free",
         NEW at \in {"sent", "accepting", "held", "answered", "over"},
         NEW reached \in {"nothing", "policy", "row"},
         NEW answer \in Told \cup {"error", Unanswered}, Moves(c, at, reached, answer),
         Fits(at, reached, answer),
         RelayerOK', PagesOK', \A p \in Pages : submitted'[p] \in Told =>
                                               submitted[p] \in Told \/ status'[OrderOf[p]] \in Told,
         \A q \in Orders : status[q] \in Told => status'[q] \in Told,
         reached = "row" => status'[OrderFor(c)] \in Told,
         UNCHANGED <<screen, scanVars, signVars>>
  PROVE  WayInv'
<1>1. CallsOK /\ CallsReached /\ ToldWasAccepted /\ RelayerOK
  BY DEF WayInv, TypeOK
<1>2. /\ CallsOK'
      /\ call'[c].page = call[c].page /\ call'[c].reply = call[c].reply
      /\ call'[c].at = at /\ call'[c].reached = reached /\ call'[c].answer = answer
      /\ \A d \in Calls \ {c} : call'[d] = call[d]
      /\ \A d \in Calls : OrderFor(d)' = OrderFor(d)
  BY <1>1, Moved
<1>3. CallsReached'
  <2>1. ASSUME NEW d \in Calls
        PROVE  Fits(call'[d].at, call'[d].reached, call'[d].answer)
    <3>1. CASE d = c
      BY <1>2, <3>1
    <3>2. CASE d # c
      BY <1>1, <1>2, <3>2 DEF CallsReached, Fits
    <3> QED
      BY <3>1, <3>2
  <2> QED
    BY <2>1 DEF CallsReached, Fits
<1>4. ToldWasAccepted'
  <2>1. ASSUME NEW d \in Calls, call'[d].reached = "row"
        PROVE  status'[OrderFor(d)'] \in Told
    <3>1. CASE d = c
      BY <1>2, <2>1, <3>1
    <3>2. CASE d # c
      <4>1. call[d].reached = "row" /\ call[d].page \in Pages
        BY <1>1, <1>2, <2>1, <3>2 DEF CallsOK, Free
      <4>2. OrderFor(d) \in Orders /\ status[OrderFor(d)] \in Told
        BY <1>1, <4>1 DEF ToldWasAccepted, OrderFor
      <4> QED
        BY <1>2, <4>2
    <3> QED
      BY <3>1, <3>2
  <2>2. ASSUME NEW p \in Pages, submitted'[p] \in Told PROVE status'[OrderOf[p]] \in Told
    BY <1>1, <2>2 DEF ToldWasAccepted
  <2> QED
    BY <2>1, <2>2 DEF ToldWasAccepted
<1>5. \A d \in Calls : /\ call'[d].page = call[d].page /\ call'[d].reply = call[d].reply
                       /\ call[d].at = "free" => call'[d].at = "free"
  BY <1>2
<1> QED
  BY <1>2, <1>3, <1>4, <1>5, CallKeeps

(* A row with two of its fields replaced.                                  *)
LEMMA MovedRow ==
  ASSUME NEW x \in CallType, NEW at, NEW reached
  PROVE  [x EXCEPT !.at = at, !.reached = reached]
           = [at |-> at, page |-> x.page, reply |-> x.reply,
              reached |-> reached, answer |-> x.answer]
<1> DEFINE y == [at |-> at, page |-> x.page, reply |-> x.reply,
                 reached |-> x.reached, answer |-> x.answer]
<1>1. [x EXCEPT !.at = at] = y
  BY DEF CallType
<1>2. [y EXCEPT !.reached = reached] = [at |-> at, page |-> x.page, reply |-> x.reply,
                                        reached |-> reached, answer |-> x.answer]
  OBVIOUS
<1> QED
  BY <1>1, <1>2, Zenon

LEMMA AnsweredRow ==
  ASSUME NEW x \in CallType, NEW at, NEW answer
  PROVE  [x EXCEPT !.at = at, !.answer = answer]
           = [at |-> at, page |-> x.page, reply |-> x.reply,
              reached |-> x.reached, answer |-> answer]
<1> DEFINE y == [at |-> at, page |-> x.page, reply |-> x.reply,
                 reached |-> x.reached, answer |-> x.answer]
<1>1. [x EXCEPT !.at = at] = y
  BY DEF CallType
<1>2. [y EXCEPT !.answer = answer] = [at |-> at, page |-> x.page, reply |-> x.reply,
                                      reached |-> x.reached, answer |-> answer]
  OBVIOUS
<1> QED
  BY <1>1, <1>2, Zenon

(* Where each step of a call takes it.                                     *)
LEMMA MoveOf ==
  ASSUME CallsOK, CallsReached, NEW c \in Calls
  PROVE  /\ CallNext(c) => call[c].at \notin {"free", "over"}
         /\ Admit(c) => Moves(c, "accepting", "policy", Unanswered)
         /\ Accept(c) => Moves(c, "held", "row", Unanswered)
         /\ Send(c) => Moves(c, "answered", "row", "BROADCAST")
         /\ GiveUp(c) => Moves(c, "answered", "row", "FAILED")
         /\ Keep(c) => Moves(c, "answered", "row", "SIGNED")
         /\ Refuse(c) \/ Drop(c) \/ Lose(c) => Moves(c, "answered", call[c].reached, "error")
         /\ Answered(c) => Moves(c, "over", call[c].reached, call[c].answer)
<1>1. call[c] \in CallType /\ call \in [Calls -> CallType]
  BY DEF CallsOK
<1>2. /\ call[c].at \in {"sent", "accepting", "held"} => call[c].answer = Unanswered
      /\ call[c].at = "held" => call[c].reached = "row"
  BY DEF CallsReached
<1>3. CallNext(c) => call[c].at \notin {"free", "over"}
  BY DEF CallNext, Handle, Admit, Accept, Send, GiveUp, Keep, Refuse, Drop, Lose, Answered
<1>4. ASSUME Admit(c) PROVE Moves(c, "accepting", "policy", Unanswered)
  <2>1. /\ call[c].answer = Unanswered
        /\ call' = [call EXCEPT ![c] = [call[c] EXCEPT !.at = "accepting", !.reached = "policy"]]
    BY <1>1, <1>2, <1>4 DEF Admit, CallType
  <2>2. [call[c] EXCEPT !.at = "accepting", !.reached = "policy"]
          = Row(c, "accepting", "policy", Unanswered)
    BY <1>1, <2>1, MovedRow DEF Row
  <2> QED
    BY <2>1, <2>2 DEF Moves
<1>5. ASSUME Accept(c) PROVE Moves(c, "held", "row", Unanswered)
  <2>1. /\ call[c].answer = Unanswered
        /\ call' = [call EXCEPT ![c] = [call[c] EXCEPT !.at = "held", !.reached = "row"]]
    BY <1>1, <1>2, <1>5 DEF Accept, CallType
  <2>2. [call[c] EXCEPT !.at = "held", !.reached = "row"] = Row(c, "held", "row", Unanswered)
    BY <1>1, <2>1, MovedRow DEF Row
  <2> QED
    BY <2>1, <2>2 DEF Moves
<1>6. ASSUME NEW a, Answer(c, a) PROVE Moves(c, "answered", call[c].reached, a)
  <2>1. call' = [call EXCEPT ![c] = [call[c] EXCEPT !.at = "answered", !.answer = a]]
    BY <1>1, <1>6 DEF Answer, CallType
  <2>2. [call[c] EXCEPT !.at = "answered", !.answer = a]
          = Row(c, "answered", call[c].reached, a)
    BY <1>1, AnsweredRow DEF Row
  <2> QED
    BY <2>1, <2>2 DEF Moves
<1>7. /\ Send(c) => Moves(c, "answered", "row", "BROADCAST")
      /\ GiveUp(c) => Moves(c, "answered", "row", "FAILED")
      /\ Keep(c) => Moves(c, "answered", "row", "SIGNED")
  BY <1>2, <1>6 DEF Send, GiveUp, Keep
<1>8. Refuse(c) \/ Drop(c) => Moves(c, "answered", call[c].reached, "error")
  BY <1>6 DEF Refuse, Drop
<1>9. ASSUME Lose(c) PROVE Moves(c, "answered", call[c].reached, "error")
  <2>1. /\ call[c].at = "answered"
        /\ call' = [call EXCEPT ![c] = [call[c] EXCEPT !.answer = "error"]]
    BY <1>1, <1>9 DEF Lose, CallType
  <2>2. [call[c] EXCEPT !.answer = "error"] = Row(c, "answered", call[c].reached, "error")
    BY <1>1, <2>1 DEF Row, CallType
  <2> QED
    BY <2>1, <2>2 DEF Moves
<1>10. ASSUME Answered(c) PROVE Moves(c, "over", call[c].reached, call[c].answer)
  <2>1. call' = [call EXCEPT ![c] = [call[c] EXCEPT !.at = "over"]]
    BY <1>1, <1>10 DEF Answered, CallType
  <2>2. [call[c] EXCEPT !.at = "over"] = Row(c, "over", call[c].reached, call[c].answer)
    BY <1>1 DEF Row, CallType
  <2> QED
    BY <2>1, <2>2 DEF Moves
<1> QED
  BY <1>3, <1>4, <1>5, <1>7, <1>8, <1>9, <1>10

(* Every step of a call keeps the invariant.                               *)
LEMMA CallStep ==
  ASSUME WayInv, NEW c \in Calls, CallNext(c)
  PROVE  WayInv'
<1>1. RelayerOK /\ PagesOK /\ CallsOK /\ CallsReached /\ ToldWasAccepted
  BY DEF WayInv, TypeOK
<1>2. call[c].at # "free" /\ call[c] \in CallType
  BY <1>1, MoveOf DEF CallsOK
<1>3. call[c].page \in Pages /\ OrderFor(c) \in Orders
  BY <1>1, <1>2 DEF CallsOK, OrderFor
<1>4. call[c].reached = "row" => status[OrderFor(c)] \in Told
  BY <1>1 DEF ToldWasAccepted
<1>5. call[c].answer \in Told => call[c].reached = "row"
  BY <1>1 DEF CallsReached
<1>6. /\ call[c].reached \in {"nothing", "policy", "row"}
      /\ call[c].answer \in Told \cup {"error", Unanswered}
  BY <1>2 DEF CallType
<1>7. {"BROADCAST", "FAILED", "SIGNED"} \subseteq Told /\ "error" \notin Told /\ Unanswered \notin Told
  BY DEF Told, Final, Unanswered
<1>8. CASE Admit(c) \/ Accept(c) \/ Send(c) \/ GiveUp(c)
  <2>1. \/ Life!Admit(OrderFor(c), c) \/ Life!Sign(OrderFor(c), c)
        \/ Life!Send(OrderFor(c), c) \/ Life!GiveUp(OrderFor(c), c)
    BY <1>8 DEF Admit, Accept, Send, GiveUp
  <2>2. RelayerOK' /\ \A q \in Orders : status[q] \in Told => status'[q] \in Told
    BY <1>1, <1>3, <2>1, LifeKeeps
  <2>3. PagesOK' /\ UNCHANGED <<submitted, screen, scanVars, signVars>>
    BY <1>1, <1>8 DEF Admit, Accept, Send, GiveUp, PagesOK, pageVars
  <2>4. CASE Admit(c) /\ Moves(c, "accepting", "policy", Unanswered)
    BY <1>2, <1>7, <2>2, <2>3, <2>4, MovedKeeps DEF Fits
  <2>5. CASE Accept(c) /\ Moves(c, "held", "row", Unanswered)
    <3>1. status'[OrderFor(c)] \in Told
      BY <1>1, <1>3, <2>5 DEF Accept, Life!Sign, Life!Write, RelayerOK, Told
    <3> QED
      BY <1>2, <1>7, <2>2, <2>3, <2>5, <3>1, MovedKeeps DEF Fits
  <2>6. CASE Send(c) /\ Moves(c, "answered", "row", "BROADCAST")
    <3>1. status'[OrderFor(c)] \in Told
      BY <1>1, <1>3, <2>6 DEF Send, Life!Send, Life!Ends, Life!Write, RelayerOK, Told
    <3> QED
      BY <1>2, <1>7, <2>2, <2>3, <2>6, <3>1, MovedKeeps DEF Fits
  <2>7. CASE GiveUp(c) /\ Moves(c, "answered", "row", "FAILED")
    <3>1. status'[OrderFor(c)] \in Told
      BY <1>1, <1>3, <2>7 DEF GiveUp, Life!GiveUp, Life!Ends, Life!Write, RelayerOK, Told, Final
    <3> QED
      BY <1>2, <1>7, <2>2, <2>3, <2>7, <3>1, MovedKeeps DEF Fits
  <2>8. /\ Admit(c) => Moves(c, "accepting", "policy", Unanswered)
        /\ Accept(c) => Moves(c, "held", "row", Unanswered)
        /\ Send(c) => Moves(c, "answered", "row", "BROADCAST")
        /\ GiveUp(c) => Moves(c, "answered", "row", "FAILED")
    BY <1>1, MoveOf
  <2> QED
    BY <1>8, <2>4, <2>5, <2>6, <2>7, <2>8
<1>9. CASE Refuse(c) \/ Drop(c) \/ Lose(c)
  <2>1. Moves(c, "answered", call[c].reached, "error")
    BY <1>1, <1>9, MoveOf
  <2>2. status' = status /\ RelayerOK' /\ PagesOK' /\ UNCHANGED <<submitted, screen, scanVars, signVars>>
    BY <1>1, <1>9 DEF Refuse, Drop, Lose, Life!Leave, Life!clusterVars, PagesOK, RelayerOK,
                      pageVars, relayerVars
  <2> QED
    BY <1>2, <1>4, <1>6, <1>7, <2>1, <2>2, MovedKeeps DEF Fits
<1>10. CASE Keep(c)
  <2>1. Moves(c, "answered", "row", "SIGNED") /\ call[c].reached = "row"
    BY <1>1, <1>10, MoveOf DEF Keep, CallsReached
  <2>2. status' = status /\ RelayerOK' /\ PagesOK' /\ UNCHANGED <<submitted, screen, scanVars, signVars>>
    BY <1>1, <1>10 DEF Keep, Life!Leave, Life!clusterVars, PagesOK, RelayerOK, pageVars
  <2> QED
    BY <1>2, <1>4, <1>7, <2>1, <2>2, MovedKeeps DEF Fits
<1>11. CASE Answered(c)
  <2>1. Moves(c, "over", call[c].reached, call[c].answer)
    BY <1>1, <1>11, MoveOf
  <2>2. status' = status /\ RelayerOK' /\ UNCHANGED <<screen, scanVars, signVars>>
    BY <1>1, <1>11 DEF Answered, RelayerOK, relayerVars
  <2>3. PagesOK' /\ \A p \in Pages : submitted'[p] \in Told =>
                     submitted[p] \in Told \/ status'[OrderOf[p]] \in Told
    BY <1>1, <1>3, <1>4, <1>5, <1>11, <2>2 DEF Answered, PagesOK, OrderFor
  <2> QED
    BY <1>2, <1>4, <1>5, <1>6, <2>1, <2>2, <2>3, MovedKeeps DEF Fits
<1> QED
  BY <1>8, <1>9, <1>10, <1>11 DEF CallNext, Handle

(* So does every other step of an order's life.                            *)
LEMMA OrderStep ==
  ASSUME WayInv, NEW o \in Orders, Opens(o) \/ Decides(o) \/ Settles(o)
  PROVE  WayInv'
<1>1. RelayerOK /\ PagesOK /\ CallsOK /\ CallsReached /\ ToldWasAccepted
  BY DEF WayInv, TypeOK
<1>2. RelayerOK' /\ \A q \in Orders : status[q] \in Told => status'[q] \in Told
  BY <1>1, LifeKeeps DEF Opens, Decides, Settles
<1>3. PagesOK' /\ CallsOK' /\ UNCHANGED <<call, submitted, screen, scanVars, signVars>>
  BY <1>1 DEF Opens, Decides, Settles, PagesOK, CallsOK, pageVars
<1>4. ToldWasAccepted' /\ CallsReached'
  <2>1. ASSUME NEW q \in Pages, submitted'[q] \in Told PROVE status'[OrderOf[q]] \in Told
    BY <1>1, <1>2, <1>3, <2>1 DEF ToldWasAccepted
  <2>2. ASSUME NEW c \in Calls, call'[c].reached = "row"
        PROVE  status'[OrderFor(c)'] \in Told
    <3>1. OrderFor(c)' = OrderFor(c) /\ status[OrderFor(c)] \in Told
      BY <1>1, <1>3, <2>2 DEF ToldWasAccepted, OrderFor
    <3>2. OrderFor(c) \in Orders
      BY <1>1, <1>3, <2>2 DEF CallsOK, OrderFor, Free
    <3> QED
      BY <1>2, <3>1, <3>2
  <2> QED
    BY <1>1, <1>3, <2>1, <2>2 DEF ToldWasAccepted, CallsReached
<1> QED
  BY <1>2, <1>3, <1>4, CallKeeps

-----------------------------------------------------------------------------
(* The phone.                                                              *)

(* Reading a frame keeps the assembler what it is, and opens Review on an  *)
(* assembler that was one.                                                 *)
LEMMA ReadStep ==
  ASSUME WayInv, NEW p \in Pages, Read(p)
  PROVE  WayInv'
<1> DEFINE a == Push(asm, FrameOf(p, index[p]))
<1>1. IsAssembler(a) /\ Pure(a)
  BY PushFrame DEF WayInv, TypeOK, PhoneOK, PagesOK
<1>2. \/ screen' = "review" /\ scanned' = a /\ asm' = Empty
      \/ asm' = a /\ UNCHANGED <<screen, scanned>>
  BY DEF Read
<1> HIDE DEF a
<1>3. PhoneOK'
  BY <1>1, <1>2, EmptyIsAssembler DEF Read, WayInv, TypeOK, PhoneOK, signVars
<1>4. Pure(asm)' /\ ReplyIsCurrent' /\ RepliesApproved'
  BY <1>1, <1>2, EmptyIsAssembler
     DEF Read, WayInv, ReplyIsCurrent, RepliesApproved, signVars
<1> QED
  BY <1>3, <1>4, PhoneKeeps DEF Read, signVars

(* Approving enters a new crossing, of the session under review.           *)
LEMMA ApproveStep ==
  ASSUME WayInv, Approve
  PROVE  WayInv'
<1>1. scanned.sid \in Pages /\ OrderOf[scanned.sid] \in Signable
  BY DEF Approve, ShowsApprove, Whole
<1>2. now' = now + 1 /\ now' \in 1 .. Crossings /\ now \in Nat
      /\ request' = [request EXCEPT ![now + 1] = scanned.sid]
      /\ approved' = approved \cup {scanned.sid}
  BY DEF Approve, WayInv, TypeOK, PhoneOK
<1>3. PhoneOK'
  <2>1. request' \in [1 .. Crossings -> Pages \cup {NoPage}]
        /\ \A m \in 1 .. Crossings : request'[m] \in Pages <=> m <= now'
    BY <1>1, <1>2 DEF WayInv, TypeOK, PhoneOK
  <2>2. \A m \in 1 .. Crossings : confirm'[m] # "idle" => m <= now'
    BY <1>2 DEF Approve, WayInv, TypeOK, PhoneOK
  <2>3. UNCHANGED <<asm, scanned, confirm, reply, replies>> /\ screen' = "sign"
    BY DEF Approve, scanVars
  <2>4. approved' \subseteq Pages /\ now' \in 0 .. Crossings /\ now' > 0
    BY <1>1, <1>2 DEF WayInv, TypeOK, PhoneOK
  <2> QED
    BY <2>1, <2>2, <2>3, <2>4 DEF WayInv, TypeOK, PhoneOK
<1>4. Pure(asm)' /\ ReplyIsCurrent'
  BY DEF Approve, WayInv, ReplyIsCurrent, scanVars
<1>5. RepliesApproved'
  BY <1>1, <1>2 DEF Approve, WayInv, TypeOK, PhoneOK, RepliesApproved
<1> QED
  BY <1>3, <1>4, <1>5, PhoneKeeps DEF Approve

(* A signature shown is the reply to the crossing the phone is in, which   *)
(* was approved; one that comes too late is shown nowhere.                 *)
LEMMA SignedStep ==
  ASSUME WayInv, NEW m \in 1 .. Crossings, Signed(m)
  PROVE  WayInv'
<1>1. confirm[m] = "signing" /\ m <= now /\ request[m] \in Pages /\ m \in 1 .. now
  BY DEF Signed, WayInv, TypeOK, PhoneOK
<1>2. request[m] \in approved
  BY <1>1 DEF WayInv, RepliesApproved
<1>3. PhoneOK'
  BY <1>1 DEF Signed, WayInv, TypeOK, PhoneOK, scanVars
<1>4. Pure(asm)' /\ ReplyIsCurrent' /\ RepliesApproved'
  BY <1>1, <1>2 DEF Signed, StillThere, WayInv, ReplyIsCurrent, RepliesApproved, scanVars
<1> QED
  BY <1>3, <1>4, PhoneKeeps DEF Signed

(* Every step of the phone keeps the invariant.                            *)
LEMMA PhoneStep ==
  ASSUME WayInv, PhoneNext
  PROVE  WayInv'
<1> USE DEF WayInv, TypeOK, PhoneOK, ReplyIsCurrent, RepliesApproved
<1>1. CASE StartOver
  <2>1. PhoneOK' /\ Pure(asm)' /\ ReplyIsCurrent' /\ RepliesApproved'
    BY <1>1, EmptyIsAssembler DEF StartOver, signVars
  <2> QED
    BY <1>1, <2>1, PhoneKeeps DEF StartOver, signVars
<1>2. CASE Reject
  <2>1. PhoneOK' /\ Pure(asm)' /\ ReplyIsCurrent' /\ RepliesApproved'
    BY <1>2 DEF Reject, signVars, scanVars
  <2> QED
    BY <1>2, <2>1, PhoneKeeps DEF Reject, signVars
<1>3. CASE Confirm
  <2>1. PhoneOK' /\ Pure(asm)' /\ ReplyIsCurrent' /\ RepliesApproved'
    BY <1>3 DEF Confirm, scanVars
  <2> QED
    BY <1>3, <2>1, PhoneKeeps DEF Confirm
<1>4. ASSUME NEW m \in 1 .. Crossings, BiometricPasses(m) \/ ConfirmFails(m)
      PROVE  WayInv'
  <2>1. PhoneOK' /\ Pure(asm)' /\ ReplyIsCurrent' /\ RepliesApproved'
    BY <1>4 DEF BiometricPasses, ConfirmFails, scanVars
  <2> QED
    BY <1>4, <2>1, PhoneKeeps DEF BiometricPasses, ConfirmFails
<1>5. CASE LeaveSign
  <2>1. PhoneOK' /\ Pure(asm)' /\ ReplyIsCurrent' /\ RepliesApproved'
    BY <1>5 DEF LeaveSign, scanVars
  <2> QED
    BY <1>5, <2>1, PhoneKeeps DEF LeaveSign
<1> QED
  BY <1>1, <1>2, <1>3, <1>4, <1>5, ReadStep, ApproveStep, SignedStep DEF PhoneNext

-----------------------------------------------------------------------------
(* A step keeps the invariant.                                             *)
LEMMA NextWay == WayInv /\ [Next]_vars => WayInv'
<1> SUFFICES ASSUME WayInv, [Next]_vars PROVE WayInv'
  OBVIOUS
<1>1. CASE Next
  BY <1>1, PageStep, CallStep, OrderStep, PhoneStep DEF Next
<1>2. CASE UNCHANGED vars
  <2>1. PagesOK' /\ ToldWasAccepted'
    BY <1>2 DEF WayInv, TypeOK, PagesOK, ToldWasAccepted, OrderFor, vars, pageVars, relayerVars
  <2> QED
    BY <1>2, <2>1, PageKeeps DEF vars
<1> QED
  BY <1>1, <1>2

-----------------------------------------------------------------------------
(* Which calls a page is answered by.                                      *)

(* Steps that change neither which calls count nor what pages were told    *)
(* keep the second half of the invariant.                                  *)
LEMMA AnswersKept ==
  ASSUME AnswersInv, submitted' = submitted, overlapped \subseteq overlapped',
         \A c \in Calls : /\ Counts(c)' => Counts(c) /\ OrderFor(c)' = OrderFor(c)
                          /\ call[c].at = "over" => call'[c] = call[c]
  PROVE  AnswersInv'
<1>1. OneCounts'
  BY DEF AnswersInv, OneCounts
<1>2. ToldByACall'
  BY DEF AnswersInv, ToldByACall
<1> QED
  BY <1>1, <1>2 DEF AnswersInv

(* An answer that changes what a page was told comes from a call that      *)
(* reached the row; if the page was told something before, by another, the *)
(* two submissions met.                                                    *)
LEMMA AnsweredOnce ==
  ASSUME WayInv, AnswersInv, NEW c \in Calls, Answered(c), submitted' # submitted
  PROVE  /\ call[c].reached = "row" /\ call[c].page \in Pages
         /\ submitted' = [submitted EXCEPT ![call[c].page] = call[c].answer]
         /\ submitted[call[c].page] \in Told => OrderFor(c) \in overlapped
<1>1. call[c].page \in Pages
  BY DEF Answered, WayInv, TypeOK, CallsOK
<1>2. call[c].reached = "row" /\ Counts(c)
      /\ submitted' = [submitted EXCEPT ![call[c].page] = call[c].answer]
  BY DEF Answered, WayInv, CallsReached, Counts
<1>3. ASSUME submitted[call[c].page] \in Told PROVE OrderFor(c) \in overlapped
  <2>1. PICK d \in Calls : /\ call[d].page = call[c].page
                           /\ call[d].at = "over" /\ call[d].reached = "row"
    BY <1>1, <1>3 DEF AnswersInv, ToldByACall
  <2>2. d # c /\ Counts(d) /\ OrderFor(d) = OrderFor(c)
    BY <2>1 DEF Answered, Counts, OrderFor
  <2> QED
    BY <1>2, <2>2 DEF AnswersInv, OneCounts
<1> QED
  BY <1>1, <1>2, <1>3

(* The answer to a call.                                                   *)
LEMMA AnsweredAnswers ==
  ASSUME WayInv, AnswersInv, NEW c \in Calls, Answered(c)
  PROVE  AnswersInv'
<1>1. CallsOK /\ PagesOK
  BY DEF WayInv, TypeOK
<1>2. \A d \in Calls : /\ call'[d].page = call[d].page /\ call'[d].reached = call[d].reached
                       /\ d # c => call'[d].at = call[d].at
  BY <1>1 DEF Answered, CallsOK, CallType
<1>3. call[c].at = "answered" /\ call'[c].at = "over" /\ overlapped' = overlapped
  BY <1>1 DEF Answered, CallsOK, CallType, relayerVars
<1>4. \A d \in Calls : Counts(d)' = Counts(d) /\ OrderFor(d)' = OrderFor(d)
  BY <1>2, <1>3 DEF Counts, OrderFor
<1>5. OneCounts'
  BY <1>3, <1>4 DEF AnswersInv, OneCounts
<1>6. ASSUME NEW p \in Pages, submitted'[p] \in Told
      PROVE  \E d \in Calls : call'[d].page = p /\ call'[d].at = "over" /\ call'[d].reached = "row"
  <2>1. CASE submitted'[p] = submitted[p]
    <3>1. PICK d \in Calls : call[d].page = p /\ call[d].at = "over" /\ call[d].reached = "row"
      BY <1>6, <2>1 DEF AnswersInv, ToldByACall
    <3> QED
      BY <1>2, <1>3, <3>1
  <2>2. CASE submitted'[p] # submitted[p]
    <3>1. submitted' # submitted
      BY <2>2
    <3>2. call[c].reached = "row" /\ call[c].page = p
      BY <1>1, <2>2, <3>1, AnsweredOnce DEF PagesOK
    <3> QED
      BY <1>2, <1>3, <3>2
  <2> QED
    BY <2>1, <2>2
<1> QED
  BY <1>5, <1>6 DEF AnswersInv, ToldByACall

(* A submission that is let in beside another one: the other one has not   *)
(* reached the row, which awaits a signature, so it was let in and waits   *)
(* for it, and the order is among the overlapped from then on.             *)
LEMMA AdmitAnswers ==
  ASSUME WayInv, AnswersInv, NEW c \in Calls, Admit(c)
  PROVE  AnswersInv'
<1> DEFINE o == OrderFor(c)
<1>1. CallsOK /\ CallsReached /\ ToldWasAccepted
  BY DEF WayInv, TypeOK
<1>2. call[c].at = "sent" /\ status[o] = "AWAITING_SIGNATURE" /\ submitted' = submitted
  BY DEF Admit, Acceptable, pageVars
<1>3. /\ \A d \in Calls \ {c} : call'[d] = call[d]
      /\ \A d \in Calls : OrderFor(d)' = OrderFor(d)
      /\ call'[c].at = "accepting"
  <2>1. Moves(c, "accepting", "policy", Unanswered) /\ call[c].at # "free"
    BY <1>1, <1>2, MoveOf
  <2> QED
    BY <1>1, <2>1, Moved
<1>4. overlapped \subseteq overlapped'
  BY DEF Admit, Life!Admit
<1>5. ASSUME NEW d \in Calls, d # c, Counts(d), OrderFor(d) = o
      PROVE  o \in overlapped'
  <2>1. call[d].at = "accepting"
    BY <1>1, <1>2, <1>5 DEF ToldWasAccepted, Counts, Told, Final
  <2>2. o \in Orders
    BY <1>1, <1>2 DEF CallsOK, OrderFor
  <2>3. d \in CallsAt("accepting")[o]
    BY <1>5, <2>1, <2>2 DEF CallsAt, OrderFor
  <2>4. ~(CallsAt("accepting")[o] \cup CallsAt("held")[o] \subseteq {c})
    BY <1>5, <2>3
  <2> QED
    BY <2>4 DEF Admit, Life!Admit
<1> HIDE DEF o
<1>6. \A d \in Calls \ {c} : Counts(d)' = Counts(d)
  BY <1>3 DEF Counts
<1>7. OneCounts'
  <2> SUFFICES ASSUME NEW d \in Calls, NEW e \in Calls, Counts(d)', Counts(e)',
                      OrderFor(d)' = OrderFor(e)', d # e
               PROVE  OrderFor(d)' \in overlapped'
    BY DEF OneCounts
  <2>1. OrderFor(d) = OrderFor(e) /\ OrderFor(d)' = OrderFor(d)
    BY <1>3
  <2>2. CASE d = c
    BY <1>5, <1>6, <2>1, <2>2 DEF o
  <2>3. CASE e = c
    BY <1>5, <1>6, <2>1, <2>3 DEF o
  <2>4. CASE d # c /\ e # c
    BY <1>4, <1>6, <2>1, <2>4 DEF AnswersInv, OneCounts
  <2> QED
    BY <2>2, <2>3, <2>4
<1>8. ToldByACall'
  BY <1>2, <1>3 DEF AnswersInv, ToldByACall
<1> QED
  BY <1>7, <1>8 DEF AnswersInv

(* Every other step of a call.                                             *)
LEMMA HandledAnswers ==
  ASSUME WayInv, AnswersInv, NEW c \in Calls,
         Refuse(c) \/ Accept(c) \/ Send(c) \/ GiveUp(c) \/ Keep(c) \/ Drop(c) \/ Lose(c)
  PROVE  AnswersInv'
<1>1. CallsOK /\ CallsReached
  BY DEF WayInv, TypeOK
<1>2. submitted' = submitted /\ overlapped' = overlapped /\ call[c].at \notin {"free", "over"}
  BY DEF Refuse, Accept, Send, GiveUp, Keep, Drop, Lose, pageVars, relayerVars, Life!Sign,
         Life!Send, Life!GiveUp, Life!Ends, Life!Leave
<1>3. \E at \in {"held", "answered"}, reached \in {"nothing", "policy", "row"},
        answer \in Told \cup {"error", Unanswered} :
          /\ Moves(c, at, reached, answer)
          /\ reached = "row" => Counts(c)
  <2>1. call[c].reached \in {"nothing", "policy", "row"}
    BY <1>1 DEF CallsOK, CallType
  <2>2. {"BROADCAST", "FAILED", "SIGNED"} \subseteq Told
    BY DEF Told, Final
  <2>3. CASE Refuse(c) \/ Drop(c) \/ Lose(c)
    BY <1>1, <2>1, <2>3, MoveOf DEF Counts
  <2>4. CASE Accept(c)
    <3>1. Counts(c)
      BY <2>4 DEF Accept, Counts
    <3> QED
      BY <1>1, <2>4, <3>1, MoveOf
  <2>5. CASE Send(c) \/ GiveUp(c) \/ Keep(c)
    <3>1. Counts(c)
      BY <1>1, <2>5 DEF Send, GiveUp, Keep, Counts, CallsReached
    <3> QED
      BY <1>1, <2>2, <2>5, <3>1, MoveOf
  <2> QED
    BY <2>3, <2>4, <2>5
<1>4. PICK at \in {"held", "answered"}, reached \in {"nothing", "policy", "row"},
        answer \in Told \cup {"error", Unanswered} :
          /\ Moves(c, at, reached, answer)
          /\ reached = "row" => Counts(c)
  BY <1>3
<1>5. /\ call'[c].at = at /\ call'[c].reached = reached
      /\ \A d \in Calls \ {c} : call'[d] = call[d]
      /\ \A d \in Calls : OrderFor(d)' = OrderFor(d)
  BY <1>1, <1>2, <1>4, Moved
<1>6. \A d \in Calls : Counts(d)' => Counts(d)
  BY <1>4, <1>5 DEF Counts
<1>7. \A d \in Calls : call[d].at = "over" => call'[d] = call[d]
  BY <1>2, <1>5
<1> QED
  BY <1>2, <1>5, <1>6, <1>7, AnswersKept

(* A page: a poll counts only for a page that was told BROADCAST.          *)
LEMMA PageAnswers ==
  ASSUME WayInv, AnswersInv, NEW p \in Pages, PageNext(p)
  PROVE  AnswersInv'
<1>1. CallsOK /\ PagesOK
  BY DEF WayInv, TypeOK
<1>2. overlapped' = overlapped
  BY DEF PageNext, Load, Close, NextFrame, Poll, ReadReply, Polled, relayerVars
<1>3. CASE Load(p) \/ Close(p) \/ NextFrame(p) \/ Poll(p)
  <2>1. call' = call /\ submitted' = submitted
    BY <1>3 DEF Load, Close, NextFrame, Poll
  <2> QED
    BY <1>2, <2>1, AnswersKept DEF Counts, OrderFor
<1>4. ASSUME NEW r \in Pages, NEW c \in Calls, ReadReply(p, r, c) PROVE AnswersInv'
  <2>1. /\ call' = [call EXCEPT ![c] = [at |-> "sent", page |-> p, reply |-> r,
                                        reached |-> "nothing", answer |-> Unanswered]]
        /\ call[c].at = "free" /\ submitted' = submitted
    BY <1>4 DEF ReadReply, Free, pageVars
  <2>2. call'[c].at = "sent" /\ call'[c].reached = "nothing"
        /\ \A d \in Calls \ {c} : call'[d] = call[d]
    BY <1>1, <2>1 DEF CallsOK
  <2>3. \A d \in Calls : /\ Counts(d)' => Counts(d) /\ OrderFor(d)' = OrderFor(d)
                         /\ call[d].at = "over" => call'[d] = call[d]
    BY <2>1, <2>2 DEF Counts, OrderFor
  <2> QED
    BY <1>2, <2>1, <2>3, AnswersKept
<1>5. ASSUME NEW s \in Told, Polled(p, s) PROVE AnswersInv'
  <2>1. call' = call
    BY <1>5 DEF Polled
  <2>2. OneCounts'
    BY <1>2, <2>1 DEF AnswersInv, OneCounts, Counts, OrderFor
  <2>3. \A q \in Pages : submitted'[q] \in Told => submitted[q] \in Told
    BY <1>1, <1>5 DEF Polled, PagesOK, Told
  <2>4. ToldByACall'
    BY <2>1, <2>3 DEF AnswersInv, ToldByACall
  <2> QED
    BY <2>2, <2>4 DEF AnswersInv
<1> QED
  BY <1>3, <1>4, <1>5 DEF PageNext

(* So does every step.                                                     *)
LEMMA NextAnswers == WayInv /\ AnswersInv /\ [Next]_vars => AnswersInv'
<1> SUFFICES ASSUME WayInv, AnswersInv, [Next]_vars PROVE AnswersInv'
  OBVIOUS
<1>1. ASSUME UNCHANGED <<call, submitted>>, overlapped \subseteq overlapped' PROVE AnswersInv'
  BY <1>1, AnswersKept DEF Counts, OrderFor
<1>2. CASE PhoneNext \/ UNCHANGED vars
  <2>1. UNCHANGED <<call, submitted, overlapped>>
    BY <1>2 DEF PhoneNext, Read, StartOver, Reject, Approve, Confirm, LeaveSign,
                BiometricPasses, ConfirmFails, Signed, vars, pageVars, relayerVars
  <2> QED
    BY <1>1, <2>1
<1>3. ASSUME NEW o \in Orders, Opens(o) \/ Decides(o) \/ Settles(o) PROVE AnswersInv'
  <2>1. UNCHANGED <<call, submitted>>
    BY <1>3 DEF Opens, Decides, Settles, pageVars
  <2>2. overlapped \subseteq overlapped'
    BY <1>3, LifeKeeps DEF Opens, Decides, Settles, WayInv, TypeOK
  <2> QED
    BY <1>1, <2>1, <2>2
<1>4. ASSUME NEW c \in Calls, CallNext(c) PROVE AnswersInv'
  BY <1>4, AnsweredAnswers, AdmitAnswers, HandledAnswers DEF CallNext, Handle
<1> QED
  BY <1>2, <1>3, <1>4, PageAnswers DEF Next

-----------------------------------------------------------------------------
(* The invariant holds in every reachable state.                           *)
THEOREM Invariance == Spec => []Inv
<1>1. Init => Inv
  BY InitWay DEF Init, Inv, AnswersInv, OneCounts, ToldByACall, Counts, Free, Unanswered,
                 Told, Final
<1>2. Inv /\ [Next]_vars => Inv'
  BY NextWay, NextAnswers DEF Inv
<1> QED
  BY <1>1, <1>2, PTL DEF Spec

(* The variables of the pages, the calls and the phone keep their types.   *)
THEOREM TypeCorrect == Spec => []TypeOK
<1>1. Inv => TypeOK
  BY DEF Inv, WayInv
<1> QED
  BY <1>1, Invariance, PTL

(* The reply on the phone is the one to the crossing it is in, however     *)
(* late a confirm() left behind comes back.                                *)
THEOREM ReplyCurrent == Spec => []ReplyIsCurrent
<1>1. Inv => ReplyIsCurrent
  BY DEF Inv, WayInv
<1> QED
  BY <1>1, Invariance, PTL

-----------------------------------------------------------------------------
(* A step that changes what a page was told of an order that is over is an *)
(* answer to another call of the page, which met the first.                *)
LEMMA WordIsKept == Inv /\ [Next]_vars => [KeepsItsWord]_vars
<1> SUFFICES ASSUME Inv, Next, NEW p \in Pages, submitted[p] \in Final,
                    submitted'[p] # submitted[p]
             PROVE  /\ OrderOf[p] \in overlapped
                    /\ \E c \in Calls : call[c].page = p /\ Answered(c)
  BY DEF KeepsItsWord
<1>1. PagesOK /\ WayInv /\ AnswersInv /\ submitted' # submitted
  BY DEF Inv, WayInv, TypeOK
<1>2. CASE \E c \in Calls : Answered(c)
  <2>1. PICK c \in Calls : Answered(c)
    BY <1>2
  <2>2. /\ call[c].page \in Pages
        /\ submitted' = [submitted EXCEPT ![call[c].page] = call[c].answer]
        /\ submitted[call[c].page] \in Told => OrderFor(c) \in overlapped
    BY <1>1, <2>1, AnsweredOnce
  <2>3. call[c].page = p
    BY <1>1, <2>2 DEF PagesOK
  <2> QED
    BY <2>1, <2>2, <2>3 DEF Told, OrderFor
<1>3. ASSUME NEW q \in Pages, NEW s \in Told, Polled(q, s) PROVE FALSE
  BY <1>1, <1>3 DEF Polled, PagesOK, Final
<1>4. CASE PhoneNext \/ \E o \in Orders : Opens(o) \/ Decides(o) \/ Settles(o)
  BY <1>1, <1>4 DEF PhoneNext, Read, StartOver, Reject, Approve, Confirm, LeaveSign,
     BiometricPasses, ConfirmFails, Signed, Opens, Decides, Settles, pageVars
<1>5. ASSUME NEW c \in Calls, CallNext(c), ~Answered(c) PROVE FALSE
  BY <1>1, <1>5 DEF CallNext, Handle, Admit, Refuse, Accept, Send, GiveUp, Keep, Drop, Lose, pageVars
<1>6. ASSUME NEW q \in Pages, PageNext(q) PROVE FALSE
  BY <1>1, <1>3, <1>6 DEF PageNext, Load, Close, NextFrame, Poll, ReadReply, pageVars
<1> QED
  BY <1>2, <1>4, <1>5, <1>6 DEF Next

(* What a page was told of an order that is over is taken back by no poll, *)
(* however late, and by no submission of an order that never had two at    *)
(* once.                                                                   *)
THEOREM WordKept == Spec => NeverTakenBack
  BY WordIsKept, Invariance, PTL DEF Spec, NeverTakenBack

-----------------------------------------------------------------------------
(* Refinement: every step of the pages, the calls and the phone is a step  *)
(* of Crossing or leaves what it sees as it was.                           *)

(* The expressions that stand for the variables of Crossing.               *)
ApprovedOrders == {OrderOf[p] : p \in approved}
AdmittedCalls == CallsThat({"policy", "row"})
AcceptedCalls == CallsThat({"row"})
Seen == <<ApprovedOrders, AdmittedCalls, AcceptedCalls>>

LEMMA InitRefines == Init => Abstract!Init
  BY DEF Init, Abstract!Init, Free, CallsThat

(* Nothing is seen of a step that approves nothing and takes no call       *)
(* further.                                                                *)
LEMMA Unseen ==
  ASSUME approved' = approved,
         \A c \in Calls : /\ call'[c].reached = call[c].reached
                          /\ call[c].reached # "nothing" => call'[c].page = call[c].page
  PROVE  UNCHANGED Seen
<1>1. ApprovedOrders' = ApprovedOrders
  BY DEF ApprovedOrders
<1>2. ASSUME NEW R \in SUBSET {"policy", "row"}
      PROVE  CallsThat(R)' = CallsThat(R)
  <2>1. ASSUME NEW o \in Orders
        PROVE  {c \in Calls : call'[c].reached \in R /\ OrderOf[call'[c].page] = o}
                 = {c \in Calls : call[c].reached \in R /\ OrderOf[call[c].page] = o}
    BY <1>2
  <2> QED
    BY <2>1, Zenon DEF CallsThat
<1> QED
  BY <1>1, <1>2 DEF Seen, AdmittedCalls, AcceptedCalls

(* A step that takes a call further changes the sets of its order, and     *)
(* only in that call.                                                      *)
LEMMA CallSeen ==
  ASSUME CallsOK, NEW c \in Calls, call[c].at # "free", NEW R,
         NEW at \in {"accepting", "held"}, NEW reached \in {"policy", "row"},
         Moves(c, at, reached, Unanswered), reached \in R
  PROVE  CallsThat(R)' = [CallsThat(R) EXCEPT ![OrderFor(c)] = @ \cup {c}]
<1>1. /\ call'[c].page = call[c].page /\ call'[c].reached = reached
      /\ \A d \in Calls \ {c} : call'[d] = call[d]
      /\ OrderFor(c) \in Orders
  <2>1. reached \in {"nothing", "policy", "row"} /\ Unanswered \in Told \cup {"error", Unanswered}
        /\ at \in {"sent", "accepting", "held", "answered", "over"}
    OBVIOUS
  <2>2. OrderFor(c) \in Orders
    BY DEF CallsOK, OrderFor
  <2> QED
    BY <2>1, <2>2, Moved
<1> DEFINE was(o) == {d \in Calls : call[d].reached \in R /\ OrderOf[call[d].page] = o}
<1> DEFINE is(o) == {d \in Calls : call'[d].reached \in R /\ OrderOf[call'[d].page] = o}
<1>2. ASSUME NEW o \in Orders, o # OrderFor(c) PROVE is(o) = was(o)
  BY <1>1, <1>2 DEF OrderFor
<1>3. is(OrderFor(c)) = was(OrderFor(c)) \cup {c}
  BY <1>1 DEF OrderFor
<1>4. CallsThat(R) = [o \in Orders |-> was(o)] /\ CallsThat(R)' = [o \in Orders |-> is(o)]
  BY Zenon DEF CallsThat
<1> HIDE DEF was, is
<1> QED
  BY <1>1, <1>2, <1>3, <1>4

(* A submission is let in, which was not before: Crossing sees it let in.  *)
LEMMA AdmitRefines ==
  ASSUME WayInv, NEW c \in Calls, Admit(c)
  PROVE  Abstract!Next
<1>1. CallsOK /\ CallsReached /\ CallsApproved /\ ToldWasAccepted /\ RelayerOK
  BY DEF WayInv, TypeOK
<1>2. call[c].at = "sent" /\ Acceptable(c) /\ approved' = approved
  BY DEF Admit, signVars
<1>3. Moves(c, "accepting", "policy", Unanswered)
  BY <1>1, MoveOf
<1>4. OrderFor(c) \in Orders /\ OrderFor(c) \in ApprovedOrders
  BY <1>1, <1>2 DEF CallsOK, OrderFor, Acceptable, CallsApproved, ApprovedOrders
<1>5. \A d \in Calls : OrderFor(d) = OrderFor(c) => call[d].reached # "row"
  BY <1>1, <1>2 DEF ToldWasAccepted, Acceptable, Told, Final
<1>6. AcceptedCalls[OrderFor(c)] = {}
  <2>1. AcceptedCalls[OrderFor(c)]
          = {d \in Calls : call[d].reached \in {"row"} /\ OrderOf[call[d].page] = OrderFor(c)}
    BY <1>4 DEF AcceptedCalls, CallsThat
  <2> QED
    BY <1>5, <2>1 DEF OrderFor
<1>7. AdmittedCalls' = [AdmittedCalls EXCEPT ![OrderFor(c)] = @ \cup {c}]
  BY <1>1, <1>2, <1>3, CallSeen DEF AdmittedCalls
<1>8. AcceptedCalls' = AcceptedCalls
  <2>1. \A d \in Calls : /\ (call'[d].reached = "row") = (call[d].reached = "row")
                         /\ call'[d].page = call[d].page
    <3>1. /\ call'[c].page = call[c].page /\ call'[c].reached = "policy"
          /\ \A d \in Calls \ {c} : call'[d] = call[d]
      BY <1>1, <1>2, <1>3, Moved
    <3> QED
      BY <1>5, <3>1
  <2>2. ASSUME NEW o \in Orders
        PROVE  {d \in Calls : call'[d].reached \in {"row"} /\ OrderOf[call'[d].page] = o}
                 = {d \in Calls : call[d].reached \in {"row"} /\ OrderOf[call[d].page] = o}
    BY <2>1
  <2> QED
    BY <2>2, Zenon DEF AcceptedCalls, CallsThat
<1>9. ApprovedOrders' = ApprovedOrders
  BY <1>2 DEF ApprovedOrders
<1>10. Abstract!Admit(OrderFor(c), c)
  BY <1>4, <1>6, <1>7, <1>8, <1>9
     DEF Abstract!Admit, ApprovedOrders, AdmittedCalls, AcceptedCalls
<1> QED
  BY <1>4, <1>10 DEF Abstract!Next

(* A signature is stored of a submission that was let in.                  *)
LEMMA AcceptRefines ==
  ASSUME WayInv, NEW c \in Calls, Accept(c)
  PROVE  Abstract!Next
<1>1. CallsOK /\ CallsReached
  BY DEF WayInv, TypeOK
<1>2. call[c].at = "accepting" /\ call[c].reached = "policy" /\ approved' = approved
  BY <1>1 DEF Accept, CallsReached, signVars
<1>3. Moves(c, "held", "row", Unanswered)
  BY <1>1, MoveOf
<1>4. OrderFor(c) \in Orders
  BY <1>1, <1>2 DEF CallsOK, OrderFor
<1>5. AcceptedCalls' = [AcceptedCalls EXCEPT ![OrderFor(c)] = @ \cup {c}]
  BY <1>1, <1>2, <1>3, CallSeen DEF AcceptedCalls
<1>6. c \in AdmittedCalls[OrderFor(c)]
  BY <1>2, <1>4 DEF AdmittedCalls, CallsThat, OrderFor
<1>7. AdmittedCalls' = AdmittedCalls
  <2>1. \A d \in Calls : /\ (call'[d].reached \in {"policy", "row"})
                            = (call[d].reached \in {"policy", "row"})
                         /\ call'[d].page = call[d].page
    <3>1. /\ call'[c].page = call[c].page /\ call'[c].reached = "row"
          /\ \A d \in Calls \ {c} : call'[d] = call[d]
      BY <1>1, <1>2, <1>3, Moved
    <3> QED
      BY <1>2, <3>1
  <2>2. ASSUME NEW o \in Orders
        PROVE  {d \in Calls : call'[d].reached \in {"policy", "row"} /\ OrderOf[call'[d].page] = o}
                 = {d \in Calls : call[d].reached \in {"policy", "row"} /\ OrderOf[call[d].page] = o}
    BY <2>1
  <2> QED
    BY <2>2, Zenon DEF AdmittedCalls, CallsThat
<1>8. ApprovedOrders' = ApprovedOrders
  BY <1>2 DEF ApprovedOrders
<1>9. Abstract!Accept(OrderFor(c), c)
  BY <1>5, <1>6, <1>7, <1>8 DEF Abstract!Accept, ApprovedOrders, AdmittedCalls, AcceptedCalls
<1> QED
  BY <1>4, <1>9 DEF Abstract!Next

(* No other step of a call is seen.                                        *)
LEMMA CallRefines ==
  ASSUME WayInv, NEW c \in Calls, CallNext(c)
  PROVE  Abstract!Next \/ UNCHANGED Seen
<1>1. CallsOK /\ CallsReached
  BY DEF WayInv, TypeOK
<1>2. CASE ~Admit(c) /\ ~Accept(c)
  <2>1. approved' = approved
    BY <1>2 DEF CallNext, Handle, Answered, Refuse, Send, GiveUp, Keep, Drop, Lose, signVars
  <2>2. call[c].at # "free" /\ call[c].reached \in {"nothing", "policy", "row"}
        /\ call[c].answer \in Told \cup {"error", Unanswered}
    BY <1>1, MoveOf DEF CallsOK, CallType
  <2>3. call[c].at = "held" => call[c].reached = "row"
    BY <1>1 DEF CallsReached
  <2>4. \E at \in {"answered", "over"}, answer \in Told \cup {"error", Unanswered} :
          Moves(c, at, call[c].reached, answer)
    <3>1. CASE Refuse(c) \/ Drop(c) \/ Lose(c)
      BY <1>1, <3>1, MoveOf
    <3>2. CASE Send(c) \/ GiveUp(c) \/ Keep(c)
      <4>1. call[c].reached = "row" /\ {"BROADCAST", "FAILED", "SIGNED"} \subseteq Told
        BY <2>3, <3>2 DEF Send, GiveUp, Keep, Told, Final
      <4> QED
        BY <1>1, <3>2, <4>1, MoveOf
    <3>3. CASE Answered(c)
      BY <1>1, <2>2, <3>3, MoveOf
    <3> QED
      BY <1>2, <3>1, <3>2, <3>3 DEF CallNext, Handle
  <2>5. PICK at \in {"answered", "over"}, answer \in Told \cup {"error", Unanswered} :
          Moves(c, at, call[c].reached, answer)
    BY <2>4
  <2>6. /\ call'[c].page = call[c].page /\ call'[c].reached = call[c].reached
        /\ \A d \in Calls \ {c} : call'[d] = call[d]
    BY <1>1, <2>2, <2>5, Moved
  <2> QED
    BY <2>1, <2>6, Unseen
<1> QED
  BY <1>2, AdmitRefines, AcceptRefines

(* Nor is one of a page, or of the rest of an order's life.                *)
LEMMA PageRefines ==
  ASSUME CallsOK, NEW p \in Pages, PageNext(p)
  PROVE  UNCHANGED Seen
<1>1. approved' = approved
  BY DEF PageNext, Load, Close, NextFrame, Poll, ReadReply, Polled, signVars
<1>2. CASE call' = call
  BY <1>1, <1>2, Unseen
<1>3. ASSUME NEW r \in Pages, NEW c \in Calls, ReadReply(p, r, c) PROVE UNCHANGED Seen
  <2>1. call[c].reached = "nothing" /\ call'[c].reached = "nothing"
        /\ \A d \in Calls \ {c} : call'[d] = call[d]
    BY <1>3 DEF ReadReply, Free, CallsOK
  <2> QED
    BY <1>1, <2>1, Unseen
<1> QED
  BY <1>2, <1>3 DEF PageNext, Load, Close, NextFrame, Poll, Polled

LEMMA OrderRefines ==
  ASSUME NEW o \in Orders, Opens(o) \/ Decides(o) \/ Settles(o)
  PROVE  UNCHANGED Seen
<1>1. call' = call /\ approved' = approved
  BY DEF Opens, Decides, Settles, signVars
<1> QED
  BY <1>1, Unseen

(* Of the phone's steps, only Approve is seen, and it is of a signable one.*)
LEMMA PhoneRefines ==
  ASSUME PhoneNext
  PROVE  Abstract!Next \/ UNCHANGED Seen
<1>1. call' = call
  BY DEF PhoneNext, Read, StartOver, Reject, Approve, Confirm, LeaveSign, BiometricPasses,
         ConfirmFails, Signed
<1>2. CASE Approve
  <2>1. scanned.sid \in Pages /\ OrderOf[scanned.sid] \in Signable
    BY <1>2 DEF Approve, ShowsApprove, Whole
  <2>2. ApprovedOrders' = ApprovedOrders \cup {OrderOf[scanned.sid]}
    BY <1>2 DEF Approve, ApprovedOrders
  <2>3. UNCHANGED <<AdmittedCalls, AcceptedCalls>>
    BY <1>1 DEF AdmittedCalls, AcceptedCalls, CallsThat
  <2>4. PICK o \in Orders : o = OrderOf[scanned.sid]
    BY <2>1
  <2>5. Abstract!Approve(o)
    BY <2>1, <2>2, <2>3, <2>4
       DEF Abstract!Approve, ApprovedOrders, AdmittedCalls, AcceptedCalls
  <2> QED
    BY <2>5 DEF Abstract!Next
<1>3. CASE ~Approve
  <2>1. approved' = approved
    BY <1>3 DEF PhoneNext, Read, StartOver, Reject, Confirm, LeaveSign, BiometricPasses,
                ConfirmFails, Signed, signVars
  <2> QED
    BY <1>1, <2>1, Unseen
<1> QED
  BY <1>2, <1>3

(* The whole crossing implements Crossing: a submission is let in only of  *)
(* an order that was approved on the phone and that its review allows, and *)
(* none once a signature of the order is stored, whatever is read, kept,   *)
(* pasted, cancelled, repeated, overlapped or lost on the way.             *)
THEOREM Refinement == Spec => ImplementsCrossing
<1>1. Inv /\ [Next]_vars => [Abstract!Next]_Seen
  <2> SUFFICES ASSUME WayInv, [Next]_vars
               PROVE  Abstract!Next \/ UNCHANGED Seen
    BY DEF Inv
  <2>1. CASE Next
    BY <2>1, PageRefines, CallRefines, OrderRefines, PhoneRefines DEF Next, WayInv, TypeOK
  <2>2. CASE UNCHANGED vars
    BY <2>2, Unseen DEF vars, signVars
  <2> QED
    BY <2>1, <2>2
<1> QED
  BY <1>1, InitRefines, Invariance, PTL
     DEF Spec, ImplementsCrossing, Abstract!Spec, Seen, ApprovedOrders, AdmittedCalls, AcceptedCalls
=============================================================================

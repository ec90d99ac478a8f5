------------------------------- MODULE AirGap -------------------------------
(***************************************************************************)
(* The crossing: pages that show orders as animated codes and wait for a   *)
(* signature, the phone that reads, reviews, signs and shows its reply,    *)
(* and the calls from the pages to the relayer.                            *)
(*                                                                         *)
(* The relayer is here what OrderLifecycle promises of it for orders on a  *)
(* nonce: a call is a submission, whose row is read in one step and whose  *)
(* signature is stored in a later one.  The phone's camera is what Scanner *)
(* shows of it: it reads the frame on a screen, or the scan is given up    *)
(* and starts again.  The webcam of a page, or its paste box, may read any *)
(* reply the phone ever showed: a code can be kept.                        *)
(***************************************************************************)
EXTENDS Assembler

CONSTANTS
  Orders,
  OrderOf,      \* the order each page shows; several may show the same
  Signable,     \* the orders the vault's review does not refuse
  Calls,        \* bound: submissions by the pages
  Crossings     \* bound: orders approved on the phone, one after the other

ASSUME AirGapAssumption ==
  /\ OrderOf \in [Pages -> Orders]
  /\ Signable \subseteq Orders
  /\ Crossings \in Nat

VARIABLES
  status,      \* the status of every order
  executed,    \* the orders whose transactions were executed
  refused,     \* the orders an error was shown of
  overlapped,  \* the orders that had two submissions at once
  shown,       \* where each page is: opened, shown, closed
  index,       \* the frame on the screen of each page
  submitted,   \* the status a page was last told, in `submitted'
  polls,       \* the answers to the page's polls that are on their way
  call,        \* the calls to submitSignature
  screen,      \* the screen of the phone
  asm,         \* the assembler of its camera
  scanned,     \* the payload under review
  now,         \* the number of the crossing the phone is in, or was in last
  request,     \* the session signed for in each crossing
  confirm,     \* where confirm() is in each crossing
  reply,       \* the reply on the screen of the phone
  replies,     \* history: every reply the phone has shown
  approved     \* history: the sessions approved

relayerVars == <<status, executed, refused, overlapped>>
pageVars == <<shown, index, submitted, polls>>
scanVars == <<asm, scanned>>
signVars == <<now, request, confirm, reply, replies, approved>>
vars == <<relayerVars, pageVars, call, screen, scanVars, signVars>>

(* The calls of an order past the policy, and past the stored signature.   *)
CallsAt(at) == [o \in Orders |-> {c \in Calls : call[c].at = at /\ OrderOf[call[c].page] = o}]

Life == INSTANCE OrderLifecycle
          WITH Submissions <- Calls, admitted <- CallsAt("accepting"), accepted <- CallsAt("held")

Unanswered == "null"
Final == {"CONFIRMED", "FAILED"}
Told == {"SIGNED", "BROADCAST"} \cup Final
Free == [at |-> "free", page |-> NoPage, reply |-> NoPage, reached |-> "nothing",
         answer |-> Unanswered]

Init ==
  /\ shown = [p \in Pages |-> "opened"]
  /\ index = [p \in Pages |-> 1]
  /\ submitted = [p \in Pages |-> Unanswered]
  /\ polls = [p \in Pages |-> {}]
  /\ call = [c \in Calls |-> Free]
  /\ screen = "scan"
  /\ asm = Empty /\ scanned = Empty
  /\ now = 0
  /\ request = [m \in 1 .. Crossings |-> NoPage]
  /\ confirm = [m \in 1 .. Crossings |-> "idle"]
  /\ reply = NoPage
  /\ replies = {} /\ approved = {}
  /\ Life!Init

-----------------------------------------------------------------------------
(* The page: OrderSigner, AnimatedQr, SignatureScanner *)

(* The order is loaded and its frames are on the screen.                   *)
Load(p) ==
  /\ shown[p] = "opened" /\ status[OrderOf[p]] # "NONE"
  /\ shown' = [shown EXCEPT ![p] = "shown"]
  /\ UNCHANGED <<relayerVars, index, submitted, polls, call, screen, scanVars, signVars>>

Close(p) ==
  /\ shown[p] # "closed"
  /\ shown' = [shown EXCEPT ![p] = "closed"]
  /\ UNCHANGED <<relayerVars, index, submitted, polls, call, screen, scanVars, signVars>>

(* A tick of the scheduler, which goes on whatever became of the order.    *)
NextFrame(p) ==
  /\ shown[p] = "shown"
  /\ index' = [index EXCEPT ![p] = NextIndex(p, index[p])]
  /\ UNCHANGED <<relayerVars, shown, submitted, polls, call, screen, scanVars, signVars>>

(* accept: a reply to the page's own session counts, a reply to another    *)
(* only says so.                                                           *)
Answers(p, r) == r = p

(* A reply is read and submitted.  The scanner and its paste box are there *)
(* until an answer is, so a reply may be submitted again meanwhile.        *)
ReadReply(p, r, c) ==
  /\ shown[p] = "shown" /\ submitted[p] = Unanswered
  /\ r \in replies /\ Answers(p, r)
  /\ call[c] = Free
  /\ call' = [call EXCEPT ![c] = [at |-> "sent", page |-> p, reply |-> r,
                                  reached |-> "nothing", answer |-> Unanswered]]
  /\ UNCHANGED <<relayerVars, pageVars, screen, scanVars, signVars>>

(* The answer to a submission.  An error is shown, and the page goes on as *)
(* it was.                                                                 *)
Answered(c) ==
  /\ call[c].at = "answered"
  /\ call' = [call EXCEPT ![c].at = "over"]
  /\ submitted' = IF call[c].answer \in Told /\ shown[call[c].page] = "shown"
                    THEN [submitted EXCEPT ![call[c].page] = call[c].answer]
                    ELSE submitted
  /\ UNCHANGED <<relayerVars, shown, index, polls, screen, scanVars, signVars>>

(* The effect polls while the status it was told is BROADCAST.  Mutant:    *)
(* while it is SIGNED.                                                     *)
PollsSigned(p) == submitted[p] = "SIGNED"

Polls(p) == submitted[p] = "BROADCAST"

(* A poll is answered; the answer is on its way.                           *)
Poll(p) ==
  /\ shown[p] = "shown" /\ Polls(p)
  /\ polls' = [polls EXCEPT ![p] = @ \cup {status[OrderOf[p]]}]
  /\ UNCHANGED <<relayerVars, shown, index, submitted, call, screen, scanVars, signVars>>

(* It arrives, and counts while the effect that asked is `live'.           *)
(* Mutant: an answer always counts.                                        *)
PolledAlways(p, s) ==
  /\ shown[p] = "shown" /\ s \in polls[p]
  /\ polls' = [polls EXCEPT ![p] = @ \ {s}]
  /\ submitted' = [submitted EXCEPT ![p] = s]
  /\ UNCHANGED <<relayerVars, shown, index, call, screen, scanVars, signVars>>

Polled(p, s) ==
  /\ shown[p] = "shown" /\ s \in polls[p]
  /\ polls' = [polls EXCEPT ![p] = @ \ {s}]
  /\ submitted' = IF submitted[p] = "BROADCAST" THEN [submitted EXCEPT ![p] = s]
                                                ELSE submitted
  /\ UNCHANGED <<relayerVars, shown, index, call, screen, scanVars, signVars>>

-----------------------------------------------------------------------------
(* The relayer, and the network between *)

OrderFor(c) == OrderOf[call[c].page]

Answer(c, a) == call' = [call EXCEPT ![c].at = "answered", ![c].answer = a]

(* The row is read: it awaits a signature, and this one verifies against   *)
(* its message.                                                            *)
Acceptable(c) ==
  OrderOf[call[c].reply] = OrderFor(c) /\ status[OrderFor(c)] = "AWAITING_SIGNATURE"

(* Mutant: the policy does not look at the signature or at the status.     *)
AdmitAny(c) ==
  /\ call[c].at = "sent"
  /\ call' = [call EXCEPT ![c].at = "accepting", ![c].reached = "policy"]
  /\ UNCHANGED <<relayerVars, pageVars, screen, scanVars, signVars>>

Admit(c) ==
  /\ call[c].at = "sent" /\ Acceptable(c)
  /\ call' = [call EXCEPT ![c].at = "accepting", ![c].reached = "policy"]
  /\ Life!Admit(OrderFor(c), c)
  /\ UNCHANGED <<pageVars, screen, scanVars, signVars>>

Refuse(c) ==
  /\ call[c].at = "sent" /\ ~Acceptable(c)
  /\ Answer(c, "error")
  /\ UNCHANGED <<relayerVars, pageVars, screen, scanVars, signVars>>

(* The signature is stored, whatever the row says by then.                 *)
(* Mutant: it is not.                                                      *)
AcceptUnstored(c) ==
  /\ call[c].at = "accepting"
  /\ call' = [call EXCEPT ![c].at = "held", ![c].reached = "row"]
  /\ UNCHANGED <<relayerVars, pageVars, screen, scanVars, signVars>>

Accept(c) ==
  /\ call[c].at = "accepting"
  /\ call' = [call EXCEPT ![c].at = "held", ![c].reached = "row"]
  /\ Life!Sign(OrderFor(c), c)
  /\ UNCHANGED <<pageVars, screen, scanVars, signVars>>

(* What the handler ends with: the order sent, or given up, or left SIGNED *)
(* by a simulation that failed or a relayer that cannot sign.              *)
Send(c) ==
  /\ call[c].at = "held"
  /\ Answer(c, "BROADCAST") /\ Life!Send(OrderFor(c), c)
  /\ UNCHANGED <<pageVars, screen, scanVars, signVars>>

GiveUp(c) ==
  /\ call[c].at = "held"
  /\ Answer(c, "FAILED") /\ Life!GiveUp(OrderFor(c), c)
  /\ UNCHANGED <<pageVars, screen, scanVars, signVars>>

Keep(c) ==
  /\ call[c].at = "held"
  /\ Answer(c, "SIGNED") /\ Life!Leave({c})
  /\ UNCHANGED <<pageVars, screen, scanVars, signVars>>

(* The handler throws, or its process dies, between two statements.        *)
Drop(c) ==
  /\ call[c].at \in {"accepting", "held"}
  /\ Answer(c, "error") /\ Life!Leave({c})
  /\ UNCHANGED <<pageVars, screen, scanVars, signVars>>

(* An answer is lost: the process died after its last write, or the        *)
(* connection did.  The page shows an error, as for a refusal.             *)
Lose(c) ==
  /\ call[c].at = "answered" /\ call[c].answer # "error"
  /\ call' = [call EXCEPT ![c].answer = "error"]
  /\ UNCHANGED <<relayerVars, pageVars, screen, scanVars, signVars>>

(* The rest of an order's life: opened by the page before, decided by the  *)
(* cluster, and settled.                                                   *)
Opens(o) ==
  /\ UNCHANGED <<pageVars, call, screen, scanVars, signVars>>
  /\ Life!Open(o)

Decides(o) ==
  /\ UNCHANGED <<pageVars, call, screen, scanVars, signVars>>
  /\ Life!Execute(o) \/ Life!ShowError(o)

Settles(o) ==
  /\ UNCHANGED <<pageVars, call, screen, scanVars, signVars>>
  /\ Life!Settle(o) \/ Life!Fail(o)

-----------------------------------------------------------------------------
(* The phone: Scan, Review, Sign *)

(* The camera reads the frame on the screen of p.  When it was the last    *)
(* one missing, Review opens; Scan is gone, and its assembler with it.     *)
Read(p) ==
  /\ screen = "scan" /\ shown[p] = "shown"
  /\ LET a == Push(asm, FrameOf(p, index[p])) IN
       IF Done(a) THEN screen' = "review" /\ scanned' = a /\ asm' = Empty
                  ELSE asm' = a /\ UNCHANGED <<screen, scanned>>
  /\ UNCHANGED <<relayerVars, pageVars, call, signVars>>

(* Reset, a scan that timed out and is started again, Scan left and opened.*)
StartOver ==
  /\ screen = "scan" /\ asm # Empty
  /\ asm' = Empty
  /\ UNCHANGED <<relayerVars, pageVars, call, screen, scanned, signVars>>

Reject ==
  /\ screen = "review"
  /\ screen' = "scan"
  /\ UNCHANGED <<relayerVars, pageVars, call, scanVars, signVars>>

(* The verdict of Review: it decodes, it is of the session whose frames    *)
(* carried it, and neither the policy nor the price refuses it.            *)
(* Mutant: what the policy says is shown, and Approve is there anyway.     *)
ShowsApproveAnyway(a) == Whole(a)

ShowsApprove(a) == Whole(a) /\ OrderOf[a.sid] \in Signable

Approve ==
  /\ screen = "review" /\ ShowsApprove(scanned)
  /\ now < Crossings
  /\ now' = now + 1
  /\ request' = [request EXCEPT ![now + 1] = scanned.sid]
  /\ approved' = approved \cup {scanned.sid}
  /\ screen' = "sign"
  /\ UNCHANGED <<relayerVars, pageVars, call, scanVars, confirm, reply, replies>>

(* confirm(): the biometric, then the password opens the key and signs.    *)
Confirm ==
  /\ screen = "sign" /\ reply = NoPage
  /\ confirm[now] = "idle"
  /\ confirm' = [confirm EXCEPT ![now] = "biometric"]
  /\ UNCHANGED <<relayerVars, pageVars, call, screen, scanVars, now, request,
                 reply, replies, approved>>

BiometricPasses(m) ==
  /\ confirm[m] = "biometric"
  /\ confirm' = [confirm EXCEPT ![m] = "signing"]
  /\ UNCHANGED <<relayerVars, pageVars, call, screen, scanVars, now, request,
                 reply, replies, approved>>

(* The biometric is refused or cancelled; the password is wrong.           *)
ConfirmFails(m) ==
  /\ confirm[m] \in {"biometric", "signing"}
  /\ confirm' = [confirm EXCEPT ![m] = "idle"]
  /\ UNCHANGED <<relayerVars, pageVars, call, screen, scanVars, now, request,
                 reply, replies, approved>>

(* The signature is made, and shown by the Sign that asked for it, if that *)
(* is still on the screen.  Mutant: by the Sign that is on the screen.     *)
StillThereAny(m) == screen = "sign"

StillThere(m) == screen = "sign" /\ m = now

Signed(m) ==
  /\ confirm[m] = "signing"
  /\ confirm' = [confirm EXCEPT ![m] = "over"]
  /\ IF StillThere(m) THEN /\ reply' = request[m]
                           /\ replies' = replies \cup {request[m]}
                      ELSE UNCHANGED <<reply, replies>>
  /\ UNCHANGED <<relayerVars, pageVars, call, screen, scanVars, now, request, approved>>

(* "Cancel", which stays enabled while confirm() waits, and "done".        *)
LeaveSign ==
  /\ screen = "sign"
  /\ screen' = "scan"
  /\ reply' = NoPage
  /\ UNCHANGED <<relayerVars, pageVars, call, scanVars, now, request, confirm,
                 replies, approved>>

-----------------------------------------------------------------------------
PageNext(p) ==
  \/ Load(p) \/ Close(p) \/ NextFrame(p) \/ Poll(p)
  \/ \E r \in Pages, c \in Calls : ReadReply(p, r, c)
  \/ \E s \in Told : Polled(p, s)

Handle(c) == Admit(c) \/ Refuse(c) \/ Accept(c) \/ Send(c) \/ GiveUp(c) \/ Keep(c) \/ Drop(c)

CallNext(c) == Handle(c) \/ Lose(c) \/ Answered(c)

PhoneNext ==
  \/ \E p \in Pages : Read(p)
  \/ StartOver \/ Reject \/ Approve \/ Confirm \/ LeaveSign
  \/ \E m \in 1 .. Crossings : BiometricPasses(m) \/ ConfirmFails(m) \/ Signed(m)

Next ==
  \/ \E p \in Pages : PageNext(p)
  \/ \E c \in Calls : CallNext(c)
  \/ \E o \in Orders : Opens(o) \/ Decides(o) \/ Settles(o)
  \/ PhoneNext

(* The timers of a page run, its calls are handled and answered; the       *)
(* cluster decides what was sent, and the relayer settles it; a camera     *)
(* held at a screen that cycles does not miss the same frame for ever.     *)
InFlight(o) == status[o] = "BROADCAST"

Undecided(o) == o \notin executed \cup refused

ReadAt(p, i) == index[p] = i /\ Read(p)

Fairness ==
  /\ \A p \in Pages :
       /\ WF_vars(NextFrame(p)) /\ WF_vars(Poll(p))
       /\ \A s \in Told : WF_vars(Polled(p, s))
       /\ \A i \in 1 .. Total[p] : SF_vars(ReadAt(p, i))
  /\ \A c \in Calls : WF_vars(Handle(c)) /\ WF_vars(Answered(c))
  /\ \A o \in Orders : /\ WF_vars(InFlight(o) /\ Undecided(o) /\ Decides(o))
                       /\ WF_vars(InFlight(o) /\ Settles(o))

Spec == Init /\ [][Next]_vars /\ Fairness

-----------------------------------------------------------------------------
RelayerOK ==
  /\ status \in [Orders -> {"NONE", "AWAITING_SIGNATURE"} \cup Told]
  /\ executed \subseteq Orders /\ refused \subseteq Orders /\ overlapped \subseteq Orders

PagesOK ==
  /\ shown \in [Pages -> {"opened", "shown", "closed"}]
  /\ index \in [Pages -> Nat]
  /\ \A p \in Pages : index[p] \in 1 .. Total[p]
  /\ submitted \in [Pages -> Told \cup {Unanswered}]
  /\ polls \in [Pages -> SUBSET Told]

CallType ==
  [at : {"free", "sent", "accepting", "held", "answered", "over"},
   page : Pages \cup {NoPage}, reply : Pages \cup {NoPage},
   reached : {"nothing", "policy", "row"}, answer : Told \cup {"error", Unanswered}]

CallsOK ==
  /\ call \in [Calls -> CallType]
  /\ \A c \in Calls : IF call[c].at = "free" THEN call[c] = Free
                                            ELSE call[c].page \in Pages

PhoneOK ==
  /\ screen \in {"scan", "review", "sign"}
  /\ IsAssembler(asm) /\ IsAssembler(scanned)
  /\ now \in 0 .. Crossings
  /\ request \in [1 .. Crossings -> Pages \cup {NoPage}]
  /\ \A m \in 1 .. Crossings : request[m] \in Pages <=> m <= now
  /\ confirm \in [1 .. Crossings -> {"idle", "biometric", "signing", "over"}]
  /\ \A m \in 1 .. Crossings : confirm[m] # "idle" => m <= now
  /\ screen = "sign" => now > 0
  /\ reply \in Pages \cup {NoPage}
  /\ replies \subseteq Pages /\ approved \subseteq Pages

(* The variables hold what the state of the screens may hold: a frame on   *)
(* the screen is one of the payload's, a poll was made for a submitted     *)
(* order, a crossing has a session and a confirm() only once it began.     *)
TypeOK == RelayerOK /\ PagesOK /\ CallsOK /\ PhoneOK

(* The reply on the phone is for the order on the phone: a confirm() left  *)
(* behind by Cancel never puts its signature on the screen of a later one. *)
ReplyIsCurrent == reply # NoPage => screen = "sign" /\ reply = request[now]

(* What a page was told last of an order that is over, it goes on saying:  *)
(* no answer to an older poll takes it back, and no other answer either,   *)
(* but that to a second submission of the page, of an order that had two   *)
(* at once (the effect's live flag, submit).                               *)
KeepsItsWord ==
  \A p \in Pages : submitted[p] \in Final /\ submitted'[p] # submitted[p] =>
    /\ OrderOf[p] \in overlapped
    /\ \E c \in Calls : call[c].page = p /\ Answered(c)

NeverTakenBack == [][KeepsItsWord]_vars

(* The whole crossing: the relayer lets in only submissions of orders that *)
(* were approved on the phone, none once a signature is stored, and the    *)
(* phone approves no order that its review refuses.                        *)
CallsThat(reached) ==
  [o \in Orders |-> {c \in Calls : call[c].reached \in reached /\ OrderOf[call[c].page] = o}]

Abstract == INSTANCE Crossing WITH
  Submissions <- Calls,
  approved <- {OrderOf[p] : p \in approved},
  admitted <- CallsThat({"policy", "row"}),
  accepted <- CallsThat({"row"})

ImplementsCrossing == Abstract!Spec

(* The invariant behind the four: what is asked for, shown, kept or sent   *)
(* is of a session that was approved, and only signable orders were; a     *)
(* page is told of an order only what became of a stored signature.        *)
RepliesApproved ==
  /\ \A m \in 1 .. now : request[m] \in approved
  /\ replies \subseteq approved
  /\ \A p \in approved : OrderOf[p] \in Signable

CallsApproved == \A c \in Calls : call[c].at # "free" => call[c].reply \in approved

CallsReached ==
  \A c \in Calls :
    /\ call[c].at = "accepting" => call[c].reached = "policy"
    /\ call[c].at = "held" \/ call[c].answer \in Told => call[c].reached = "row"
    /\ call[c].at \in {"sent", "accepting", "held"} => call[c].answer = Unanswered

ToldWasAccepted ==
  /\ \A p \in Pages : submitted[p] \in Told => status[OrderOf[p]] \in Told
  /\ \A c \in Calls : call[c].reached = "row" => status[OrderFor(c)] \in Told

(* Of an order that never had two submissions at once one call is on its   *)
(* way to the row or was there, and a page that was told something was     *)
(* told it by such a call.                                                 *)
Counts(c) == call[c].at = "accepting" \/ call[c].reached = "row"

OneCounts ==
  \A c, d \in Calls : Counts(c) /\ Counts(d) /\ OrderFor(c) = OrderFor(d) /\ c # d
                       => OrderFor(c) \in overlapped

ToldByACall ==
  \A p \in Pages : submitted[p] \in Told =>
    \E c \in Calls : call[c].page = p /\ call[c].at = "over" /\ call[c].reached = "row"

(* Inv: every name of a session that a call, a reply or a page carries     *)
(* (submit, setReply, setSubmitted) was approved and accepted before.      *)
WayInv ==
  /\ TypeOK /\ Pure(asm) /\ ReplyIsCurrent
  /\ RepliesApproved /\ CallsApproved
  /\ CallsReached /\ ToldWasAccepted

AnswersInv == OneCounts /\ ToldByACall

Inv == WayInv /\ AnswersInv

(* A scan locked on a page that stays open ends in a review, unless it is  *)
(* given up (scheduler.ts, "a frame it missed comes back on the next pass").*)
LockedScanCompletes ==
  \A p \in Pages :
    (screen = "scan" /\ asm.sid = p /\ shown[p] = "shown")
      ~> (screen # "scan" \/ asm.sid # p \/ shown[p] # "shown")

(* A page that was told BROADCAST is told the end, if it stays open and    *)
(* its order has one submission at a time.                                 *)
PageLearnsTheEnd ==
  \A p \in Pages :
    (submitted[p] = "BROADCAST")
      ~> (submitted[p] \in Final \/ shown[p] # "shown" \/ OrderOf[p] \in overlapped)
=============================================================================

--------------------------- MODULE Scanner_proofs ---------------------------
(***************************************************************************)
(* Proofs about Scanner, for any number of pages, frames and presses.      *)
(*                                                                         *)
(* The invariant Inv of Scanner is inductive.  What it says of the         *)
(* assembler needs no discipline of the holder; what it says of cameras,   *)
(* Calm, holds until something is pressed while a start is under way.      *)
(***************************************************************************)
EXTENDS Scanner, Assembler_proofs

USE ScannerAssumption

(* A text is garbage or a frame of a page, and either keeps an assembler   *)
(* what it is.                                                             *)
LEMMA PushText ==
  ASSUME NEW a, IsAssembler(a), Pure(a), NEW text \in Texts
  PROVE  IsAssembler(Push(a, text)) /\ Pure(Push(a, text))
<1>1. CASE text = Garbage
  BY <1>1, PushGarbage
<1>2. CASE \E p \in Pages : \E i \in 1 .. Total[p] : text = FrameOf(p, i)
  BY <1>2, PushFrame
<1> QED
  BY <1>1, <1>2 DEF Texts

(* The initial state.                                                      *)
LEMMA InitInv == Init => Inv
<1> SUFFICES ASSUME Init PROVE Inv
  OBVIOUS
<1>1. TypeOK
  BY EmptyIsAssembler DEF Init, TypeOK, Statuses, Places
<1>2. Calm
  BY DEF Init, Calm, Underway, Opening
<1> QED
  BY <1>1, <1>2, EmptyIsAssembler DEF Init, Inv, AssembledWhole

-----------------------------------------------------------------------------
(* Types and payloads: what every action does to them.                     *)

(* A step of a run of start keeps the types, and a payload it hands on is  *)
(* whole.                                                                  *)
LEMMA RunKeepsTypes ==
  ASSUME TypeOK, Pure(asm), AssembledWhole, NEW s \in Starts,
         \/ Start(s) \/ Granted(s) \/ Denied(s) \/ Camera(s)
         \/ Tick(s) \/ Detect(s) \/ Age(s)
  PROVE  TypeOK' /\ Pure(asm)' /\ AssembledWhole'
<1>1. CASE Start(s)
  BY <1>1, EmptyIsAssembler
     DEF Start, TypeOK, AssembledWhole, Goto, Hasty, Statuses, Places, Opening, Reading
<1>2. CASE Granted(s)
  BY <1>2 DEF Granted, TypeOK, AssembledWhole, Goto, Places
<1>3. CASE Denied(s)
  BY <1>3 DEF Denied, TypeOK, AssembledWhole, Goto, Show, Statuses, Places
<1>4. CASE Played(s)
  BY <1>4 DEF Played, TypeOK, AssembledWhole, Goto, Show, Statuses, Places
<1>5. CASE PlayAborted(s)
  BY <1>5 DEF PlayAborted, TypeOK, AssembledWhole, Goto, Places
<1>6. CASE TickStopped(s)
  BY <1>6 DEF TickStopped, TypeOK, AssembledWhole, Goto, Places
<1>7. CASE TickLate(s)
  BY <1>7 DEF TickLate, TypeOK, AssembledWhole, Goto, Show, StopCamera, Statuses, Places
<1>8. CASE TickOn(s)
  BY <1>8 DEF TickOn, TypeOK, AssembledWhole, Goto, Places
<1>9. CASE SawNothing(s)
  BY <1>9 DEF SawNothing, TypeOK, AssembledWhole, Goto, Places
<1>10. ASSUME NEW text \in Texts, Saw(s, text)
       PROVE  TypeOK' /\ Pure(asm)' /\ AssembledWhole'
  <2>1. IsAssembler(asm') /\ Pure(asm')
    BY <1>10, PushText DEF Saw, TypeOK
  <2>2. CASE Done(asm')
    <3>1. Whole(asm')
      BY <2>1, <2>2, DoneIsWhole
    <3>2. scanned' = asm'
      BY <1>10, <2>2 DEF Saw
    <3>3. TypeOK'
      BY <1>10, <2>1, <2>2, <3>2
         DEF Saw, TypeOK, Goto, Show, StopCamera, Statuses, Places
    <3> QED
      BY <2>1, <3>1, <3>2, <3>3 DEF AssembledWhole
  <2>3. CASE ~Done(asm')
    BY <1>10, <2>1, <2>3
       DEF Saw, TypeOK, AssembledWhole, Goto, Show, Statuses, Places
  <2> QED
    BY <2>2, <2>3
<1>11. CASE Age(s)
  BY <1>11 DEF Age, TypeOK, AssembledWhole
<1> QED
  BY <1>1, <1>2, <1>3, <1>4, <1>5, <1>6, <1>7, <1>8, <1>9, <1>10, <1>11
     DEF Camera, Tick, Detect

(* So does whatever the holder does, and the hand-over to Review.          *)
LEMMA ScreenKeepsTypes ==
  ASSUME TypeOK, Pure(asm), AssembledWhole,
         Stop \/ Reset \/ Leave \/ Deliver \/ \E text \in Texts : Paste(text)
  PROVE  TypeOK' /\ Pure(asm)' /\ AssembledWhole'
<1>1. CASE Stop
  BY <1>1 DEF Stop, TypeOK, AssembledWhole, StopCamera, Hasty, Opening
<1>2. CASE Reset
  BY <1>2, EmptyIsAssembler DEF Reset, TypeOK, AssembledWhole, Hasty, Opening, Reading, Statuses
<1>3. CASE Leave
  BY <1>3 DEF Leave, TypeOK, AssembledWhole, StopCamera, Hasty, Opening
<1>4. CASE Deliver
  BY <1>4 DEF Deliver, TypeOK, AssembledWhole, StopCamera, Hasty, Opening
<1>5. ASSUME NEW text \in Texts, Paste(text)
      PROVE  TypeOK' /\ Pure(asm)' /\ AssembledWhole'
  <2>1. IsAssembler(asm') /\ Pure(asm')
    BY <1>5, PushText DEF Paste, TypeOK
  <2>2. Done(asm') => Whole(asm')
    BY <2>1, DoneIsWhole
  <2>3. TypeOK'
    BY <1>5, <2>1 DEF Paste, TypeOK, Hasty, Opening, Statuses
  <2> QED
    BY <1>5, <2>1, <2>2, <2>3 DEF Paste, AssembledWhole
<1> QED
  BY <1>1, <1>2, <1>3, <1>4, <1>5

-----------------------------------------------------------------------------
(* Cameras.                                                                *)

(* A step of a run of start keeps the cameras calm.                        *)
LEMMA RunKeepsCalm ==
  ASSUME TypeOK, ~hasty => Calm, ~hasty', NEW s \in Starts,
         \/ Start(s) \/ Granted(s) \/ Denied(s) \/ Camera(s)
         \/ Tick(s) \/ Detect(s) \/ Age(s)
  PROVE  Calm'
<1> USE DEF TypeOK, Underway, Places
<1>1. CASE Start(s)
  BY <1>1 DEF Start, Calm, Goto, Hasty, Opening, Reading
<1>2. CASE Granted(s)
  <2>1. Calm /\ mounted /\ ~running /\ pc' = [pc EXCEPT ![s] = "playing"]
    BY <1>2 DEF Granted, Calm, Opening, Goto
  <2>2. \A t \in Starts : pc[t] \in Underway => t = s
    BY <1>2, <2>1 DEF Granted, Calm
  <2>3. live = {} /\ live' = {s} /\ stream' = s /\ source' = s
    BY <1>2, <2>1, <2>2 DEF Granted, Calm
  <2> QED
    BY <1>2, <2>1, <2>2, <2>3 DEF Granted, Calm, Opening
<1>3. CASE Denied(s)
  BY <1>3 DEF Denied, Calm, Goto, Opening
<1>4. CASE Played(s)
  <2>1. Calm /\ mounted /\ live = {s} /\ stream = s
    BY <1>4 DEF Played, Calm, Opening
  <2>2. \A t \in Starts : pc[t] \in Underway => t = s
    BY <1>4, <2>1 DEF Played, Calm
  <2> QED
    BY <1>4, <2>1, <2>2 DEF Played, Calm, Opening, Goto
<1>5. CASE PlayAborted(s)
  BY <1>5 DEF PlayAborted, Calm, Opening
<1>6. CASE TickStopped(s)
  BY <1>6 DEF TickStopped, Calm, Goto, Opening
<1>7. CASE TickLate(s)
  BY <1>7 DEF TickLate, Calm, Goto, Opening, StopCamera
<1>8. CASE TickOn(s)
  BY <1>8 DEF TickOn, Calm, Goto, Opening
<1>9. CASE SawNothing(s)
  BY <1>9 DEF SawNothing, Calm, Goto, Opening
<1>10. ASSUME NEW text \in Texts, Saw(s, text)
       PROVE  Calm'
  <2>1. Calm /\ ~Opening
    BY <1>10 DEF Saw, Calm, Opening
  <2>2. CASE Done(asm')
    BY <1>10, <2>1, <2>2 DEF Saw, Calm, Goto, Opening, StopCamera
  <2>3. CASE ~Done(asm')
    BY <1>10, <2>1, <2>3 DEF Saw, Calm, Goto, Opening
  <2> QED
    BY <2>2, <2>3
<1>11. CASE Age(s)
  BY <1>11 DEF Age, Calm, Opening
<1> QED
  BY <1>1, <1>2, <1>3, <1>4, <1>5, <1>6, <1>7, <1>8, <1>9, <1>10, <1>11
     DEF Camera, Tick, Detect

(* So does what the holder does, unless a start is under way.              *)
LEMMA ScreenKeepsCalm ==
  ASSUME TypeOK, ~hasty => Calm, ~hasty',
         Stop \/ Reset \/ Leave \/ Deliver \/ \E text \in Texts : Paste(text)
  PROVE  Calm'
<1> USE DEF Hasty, Calm, Opening, Underway
<1>1. CASE Stop
  BY <1>1 DEF Stop, StopCamera
<1>2. CASE Reset
  BY <1>2 DEF Reset, Reading
<1>3. CASE Leave
  BY <1>3 DEF Leave, StopCamera
<1>4. CASE Deliver
  BY <1>4 DEF Deliver, StopCamera
<1>5. CASE \E text \in Texts : Paste(text)
  <2>1. ~hasty /\ UNCHANGED <<mounted, pc, live, stream, source, running>>
    BY <1>5 DEF Paste
  <2> QED
    BY <2>1
<1> QED
  BY <1>1, <1>2, <1>3, <1>4, <1>5

-----------------------------------------------------------------------------
(* A step keeps the invariant.                                             *)
LEMMA NextInv == Inv /\ [Next]_vars => Inv'
<1> SUFFICES ASSUME Inv, [Next]_vars PROVE Inv'
  OBVIOUS
<1>1. CASE Next
  <2>1. TypeOK' /\ Pure(asm)' /\ AssembledWhole'
    BY <1>1, RunKeepsTypes, ScreenKeepsTypes DEF Inv, Next
  <2>2. ~hasty' => Calm'
    BY <1>1, RunKeepsCalm, ScreenKeepsCalm DEF Inv, Next
  <2> QED
    BY <2>1, <2>2 DEF Inv
<1>2. CASE UNCHANGED vars
  BY <1>2 DEF vars, Inv, TypeOK, AssembledWhole, Calm, Opening
<1> QED
  BY <1>1, <1>2

(* The invariant holds in every reachable state.                           *)
THEOREM Invariance == Spec => []Inv
  BY InitInv, NextInv, PTL DEF Spec

(* The variables of the hook stay within their types, whatever is pressed. *)
THEOREM TypeCorrect == Spec => []TypeOK
<1>1. Inv => TypeOK
  BY DEF Inv
<1> QED
  BY <1>1, Invariance, PTL

(* The payload handed to Review is the whole payload of one session, for   *)
(* any number of sessions and frames, in any order, with any repeats,      *)
(* losses, resets, pastes and loops left behind.                           *)
THEOREM PayloadWhole == Spec => []AssembledWhole
<1>1. Inv => AssembledWhole
  BY DEF Inv
<1> QED
  BY <1>1, Invariance, PTL

(* A loop that runs owns the only camera that is on, unless something was  *)
(* pressed while a start was under way.                                    *)
THEOREM LoopOwns == Spec => []LoopOwnsCamera
<1>1. Inv => LoopOwnsCamera
  BY DEF Inv, Calm, LoopOwnsCamera, Underway
<1> QED
  BY <1>1, Invariance, PTL

(* With the same exception, no camera outlives its screen.                 *)
THEOREM CameraGone == Spec => []NoCameraWhenGone
<1>1. Inv => NoCameraWhenGone
  BY DEF Inv, Calm, NoCameraWhenGone, Opening
<1> QED
  BY <1>1, Invariance, PTL
=============================================================================

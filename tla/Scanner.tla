------------------------------ MODULE Scanner ------------------------------
(***************************************************************************)
(* The camera of the vault: the hook useFrameScanner and the screen Scan   *)
(* that drives it, from the button to the payload handed to Review.        *)
(*                                                                         *)
(* A press on Start runs `start', which waits for the permission, then for *)
(* the video to play, then reads frame after frame.  Between any two of    *)
(* those waits the holder may press anything the screen shows, and the     *)
(* three refs of the hook (stream, running, the assembler) are shared by   *)
(* every `start' that has not returned.                                    *)
(*                                                                         *)
(* A camera is named after the `start' that opened it.  A picture holds at *)
(* most one code; a video that stays in the page and keeps its source does *)
(* play; BarcodeDetector exists (where it does not, Start only says so).   *)
(***************************************************************************)
EXTENDS Assembler

CONSTANTS
  Starts,    \* runs of `start': the presses on the button
  NoStart

ASSUME ScannerAssumption == NoStart \notin Starts

VARIABLES
  mounted,   \* the screen is shown
  status,    \* state.status
  pc,        \* where each run of `start' is
  late,      \* the runs that began to read more than SCAN_TIMEOUT_MS ago
  live,      \* the cameras that are on
  stream,    \* stream.current
  source,    \* video.srcObject
  running,   \* running.current
  asm,       \* assembler.current
  scanned,   \* the payload of the state `done', as the assembler had it
  hasty      \* history: something was pressed while a start was under way

vars == <<mounted, status, pc, late, live, stream, source, running, asm,
          scanned, hasty>>

Statuses == {"idle", "starting", "scanning", "done", "error"}
Places == {"new", "prompt", "playing", "tick", "detecting", "over"}

(* What a camera may read: a frame of any page, or something else.         *)
Texts ==
  {Garbage} \cup UNION {{FrameOf(p, i) : i \in 1 .. Total[p]} : p \in Pages}

Init ==
  /\ mounted = TRUE
  /\ status = "idle"
  /\ pc = [s \in Starts |-> "new"]
  /\ late = {}
  /\ live = {}
  /\ stream = NoStart
  /\ source = NoStart
  /\ running = FALSE
  /\ asm = Empty
  /\ scanned = Empty
  /\ hasty = FALSE

Opening == \E s \in Starts : pc[s] \in {"prompt", "playing"}
Reading == \E s \in Starts : pc[s] \in {"tick", "detecting"}

(* The set state of a screen that is gone does nothing.                    *)
Show(new) == status' = IF mounted THEN new ELSE status

Goto(s, place) == pc' = [pc EXCEPT ![s] = place]

Hasty(early) == hasty' = (hasty \/ early)

(* stop.  Mutant: running.current is left as it is.                        *)
StopCameraOnly ==
  /\ live' = live \ {stream}
  /\ stream' = NoStart
  /\ UNCHANGED running

StopCamera ==
  /\ running' = FALSE
  /\ live' = live \ {stream}
  /\ stream' = NoStart

-----------------------------------------------------------------------------
(* start *)

(* The button is there unless the state is scanning or starting.           *)
Start(s) ==
  /\ mounted /\ status \notin {"scanning", "starting"}
  /\ pc[s] = "new"
  /\ status' = "starting"
  /\ asm' = Empty
  /\ Goto(s, "prompt")
  /\ Hasty(Opening \/ Reading)
  /\ UNCHANGED <<mounted, late, live, stream, source, running, scanned>>

(* getUserMedia answers with a camera; without its video, start returns.   *)
Granted(s) ==
  /\ pc[s] = "prompt"
  /\ live' = live \cup {s}
  /\ stream' = s
  /\ IF mounted THEN source' = s /\ Goto(s, "playing")
                ELSE UNCHANGED source /\ Goto(s, "over")
  /\ UNCHANGED <<mounted, status, late, running, asm, scanned, hasty>>

Denied(s) ==
  /\ pc[s] = "prompt"
  /\ Show("error")
  /\ Goto(s, "over")
  /\ UNCHANGED <<mounted, late, live, stream, source, running, asm, scanned, hasty>>

(* video.play() answers, and the first tick begins at once.                *)
Played(s) ==
  /\ pc[s] = "playing"
  /\ running' = TRUE
  /\ Show("scanning")
  /\ Goto(s, "detecting")
  /\ UNCHANGED <<mounted, late, live, stream, source, asm, scanned, hasty>>

(* It throws when the video left the page or was given another source, and *)
(* start throws with it.                                                   *)
PlayAborted(s) ==
  /\ pc[s] = "playing"
  /\ ~mounted \/ source # s
  /\ Goto(s, "over")
  /\ UNCHANGED <<mounted, status, late, live, stream, source, running, asm,
                 scanned, hasty>>

(* tick, up to what it asks of the detector.                               *)
TickStopped(s) ==
  /\ pc[s] = "tick"
  /\ ~running
  /\ Goto(s, "over")
  /\ UNCHANGED <<mounted, status, late, live, stream, source, running, asm,
                 scanned, hasty>>

TickLate(s) ==
  /\ pc[s] = "tick"
  /\ running /\ s \in late
  /\ StopCamera
  /\ Show("error")
  /\ Goto(s, "over")
  /\ UNCHANGED <<mounted, late, source, asm, scanned, hasty>>

(* Mutant: the twenty seconds start again with every picture.              *)
TickNeverLate(s) ==
  /\ pc[s] = "tick"
  /\ running
  /\ Goto(s, "detecting")
  /\ late' = late \ {s}
  /\ UNCHANGED <<mounted, status, live, stream, source, running, asm,
                 scanned, hasty>>

TickOn(s) ==
  /\ pc[s] = "tick"
  /\ running /\ s \notin late
  /\ Goto(s, "detecting")
  /\ UNCHANGED <<mounted, status, late, live, stream, source, running, asm,
                 scanned, hasty>>

(* detect answers without a code, or throws.                               *)
SawNothing(s) ==
  /\ pc[s] = "detecting"
  /\ Goto(s, "tick")
  /\ UNCHANGED <<mounted, status, late, live, stream, source, running, asm,
                 scanned, hasty>>

(* Mutant: the last frame ends the loop, and stop is not called.           *)
SawWithoutStop(s, text) ==
  /\ pc[s] = "detecting"
  /\ asm' = Push(asm, text)
  /\ IF Done(asm') THEN Show("done") /\ scanned' = asm' /\ Goto(s, "over")
                   ELSE Show("scanning") /\ Goto(s, "tick") /\ UNCHANGED scanned
  /\ UNCHANGED <<mounted, late, live, stream, source, running, hasty>>

(* detect answers with one.  running.current is not asked again.           *)
Saw(s, text) ==
  /\ pc[s] = "detecting"
  /\ asm' = Push(asm, text)
  /\ IF Done(asm')
       THEN /\ StopCamera
            /\ Show("done")
            /\ scanned' = asm'
            /\ Goto(s, "over")
       ELSE /\ Show("scanning")
            /\ Goto(s, "tick")
            /\ UNCHANGED <<live, stream, running, scanned>>
  /\ UNCHANGED <<mounted, late, source, hasty>>

-----------------------------------------------------------------------------
(* The screen *)

(* "Stop the camera": the state stays what it was.                         *)
Stop ==
  /\ mounted /\ status \in {"scanning", "starting"}
  /\ StopCamera
  /\ Hasty(Opening)
  /\ UNCHANGED <<mounted, status, pc, late, source, asm, scanned>>

(* "Reset": the loop and the camera go on.                                 *)
Reset ==
  /\ mounted /\ status \in {"scanning", "starting"}
  /\ asm' = Empty
  /\ status' = "idle"
  /\ Hasty(Opening \/ Reading)
  /\ UNCHANGED <<mounted, pc, late, live, stream, source, running, scanned>>

(* "My address" and "Settings", and the cleanup of the hook.               *)
(* Mutant: a screen without the cleanup.                                   *)
LeaveLit ==
  /\ mounted /\ mounted' = FALSE
  /\ running' = FALSE
  /\ Hasty(Opening)
  /\ UNCHANGED <<status, pc, late, live, stream, source, asm, scanned>>

Leave ==
  /\ mounted /\ mounted' = FALSE
  /\ StopCamera
  /\ Hasty(Opening)
  /\ UNCHANGED <<status, pc, late, source, asm, scanned>>

(* "Feed frames": a line of the paste box.                                 *)
Paste(text) ==
  /\ mounted
  /\ asm' = Push(asm, text)
  /\ IF Done(asm') THEN status' = "done" /\ scanned' = asm'
                   ELSE status' = "scanning" /\ UNCHANGED scanned
  /\ Hasty(Opening)
  /\ UNCHANGED <<mounted, pc, late, live, stream, source, running>>

(* The effect that hands the payload to Review, which replaces Scan.       *)
Deliver ==
  /\ mounted /\ status = "done"
  /\ mounted' = FALSE
  /\ StopCamera
  /\ Hasty(Opening)
  /\ UNCHANGED <<status, pc, late, source, asm, scanned>>

(* Twenty seconds since the first picture of s.                            *)
Age(s) ==
  /\ pc[s] \in {"tick", "detecting"} /\ s \notin late
  /\ late' = late \cup {s}
  /\ UNCHANGED <<mounted, status, pc, live, stream, source, running, asm,
                 scanned, hasty>>

Camera(s) == Played(s) \/ PlayAborted(s)
Tick(s) == TickStopped(s) \/ TickLate(s) \/ TickOn(s)
Detect(s) == SawNothing(s) \/ \E text \in Texts : Saw(s, text)

Next ==
  \/ \E s \in Starts : \/ Start(s) \/ Granted(s) \/ Denied(s) \/ Camera(s)
                       \/ Tick(s) \/ Detect(s) \/ Age(s)
  \/ Stop \/ Reset \/ Leave \/ Deliver
  \/ \E text \in Texts : Paste(text)

(* The browser answers every call but the permission, which is a person's  *)
(* to give; its timers run; an effect runs after its render.               *)
Fairness ==
  /\ \A s \in Starts : /\ WF_vars(Camera(s)) /\ WF_vars(Tick(s))
                       /\ WF_vars(Detect(s)) /\ WF_vars(Age(s))
  /\ WF_vars(Deliver)

Spec == Init /\ [][Next]_vars /\ Fairness

-----------------------------------------------------------------------------
(* The variables hold what the refs and the state of the hook may hold:    *)
(* stream.current is never a camera that stop has been through, and the    *)
(* assembler has no chunk beyond the total of the session it locked.       *)
TypeOK ==
  /\ mounted \in BOOLEAN /\ running \in BOOLEAN /\ hasty \in BOOLEAN
  /\ status \in Statuses
  /\ pc \in [Starts -> Places]
  /\ late \subseteq Starts
  /\ live \subseteq Starts
  /\ stream \in live \cup {NoStart}
  /\ source \in Starts \cup {NoStart}
  /\ IsAssembler(asm) /\ IsAssembler(scanned)

(* Whatever order frames, resets, pastes and loops come in, the payload    *)
(* handed to Review is the whole payload of one session, and of the one it *)
(* is filed under (session.ts, "cannot corrupt the assembly").             *)
AssembledWhole == status = "done" => Whole(scanned)

(* If nothing was pressed while a start was under way, a loop that still   *)
(* runs reads the only camera that is on, and the camera is its own: its   *)
(* twenty seconds and its last frame shut no other (the refs of            *)
(* useFrameScanner are shared by every run of start).                      *)
LoopOwnsCamera ==
  ~hasty => \A s \in Starts :
    pc[s] \in {"tick", "detecting"} /\ running => stream = s /\ live = {s}

(* ... and no camera is on once the screen is gone.                        *)
NoCameraWhenGone == ~hasty /\ ~mounted => live = {}

(* The invariant behind the three: unless something was pressed early, one *)
(* run of start at most is under way, and the camera is where it is.       *)
Underway == {"prompt", "playing", "tick", "detecting"}

Calm ==
  /\ \A s, t \in Starts : pc[s] \in Underway /\ pc[t] \in Underway => s = t
  /\ Opening => mounted /\ ~running
  /\ \A s \in Starts : pc[s] = "playing" => live = {s} /\ stream = s /\ source = s
  /\ running => mounted /\ \E s \in Starts :
       pc[s] \in {"tick", "detecting"} /\ live = {s} /\ stream = s
  /\ ~running /\ (\A s \in Starts : pc[s] # "playing") => live = {}

(* Inv: the types, a pure assembler, a whole payload, and calm: what       *)
(* start, stop and tick (useFrameScanner.ts:29-136) take for granted.      *)
Inv == TypeOK /\ Pure(asm) /\ AssembledWhole /\ (~hasty => Calm)

(* A camera that is on goes off, whatever it is pointed at: at a payload,  *)
(* or after SCAN_TIMEOUT_MS ("no camera, no decode loop").                 *)
CameraCloses == live # {} ~> (live = {} \/ hasty)
=============================================================================

----------------------------- MODULE Assembler -----------------------------
(***************************************************************************)
(* AGQP, the protocol across the gap: a payload cut into frames that a     *)
(* screen cycles through, and FrameAssembler, which puts them together     *)
(* again from whatever a camera reads.                                     *)
(*                                                                         *)
(* A session is named by the page that minted its id.  The id is three     *)
(* random bytes, and two pages are taken never to draw the same ones.  The *)
(* bytes of a chunk are named by the session whose payload they are a part *)
(* of.  What parseFrame refuses (another magic, a checksum that does not   *)
(* match, an index out of bounds) is one more text, Garbage.               *)
(***************************************************************************)
EXTENDS Naturals

CONSTANTS
  Pages,     \* sessions: pages that may show an order
  Total,     \* the number of frames of each page's payload
  NoPage,    \* "no session"
  Garbage    \* a text that is not a frame

ASSUME AssemblerAssumption ==
  /\ NoPage \notin Pages
  /\ Total \in [Pages -> Nat \ {0}]
  /\ \A p \in Pages : \A i \in 1 .. Total[p] :
       Garbage # [sid |-> p, index |-> i, total |-> Total[p], chunk |-> p]

(* encodeFrames: the i-th frame of a page, indexed from one.               *)
FrameOf(p, i) == [sid |-> p, index |-> i, total |-> Total[p], chunk |-> p]

(* AnimatedQrScheduler: the frame after the i-th on the screen, for ever.  *)
(* Mutant: the cycle stops at its last frame.                              *)
NextIndexStops(p, i) == IF i = Total[p] THEN i ELSE i + 1

NextIndex(p, i) == (i % Total[p]) + 1

-----------------------------------------------------------------------------
(* FrameAssembler.  chunks maps an index to the bytes received for it; an  *)
(* index is within bounds, so there are as many of them as the total says  *)
(* when every index has one.                                               *)

Empty == [sid |-> NoPage, total |-> 0, chunks |-> << >>]

IsAssembler(a) ==
  /\ a.sid \in Pages \cup {NoPage}
  /\ a.total \in Nat
  /\ DOMAIN a.chunks \subseteq 1 .. a.total
  /\ a.chunks \in [DOMAIN a.chunks -> Pages]
  /\ (a.sid = NoPage) <=> (a = Empty)

(* Mutant: a frame of another session with as many frames is taken too.    *)
AcceptsAnySession(a, f) == a.sid = NoPage \/ f.total = a.total

Accepts(a, f) == a.sid = NoPage \/ (f.sid = a.sid /\ f.total = a.total)

Put(chunks, i, bytes) ==
  [j \in DOMAIN chunks \cup {i} |-> IF j = i THEN bytes ELSE chunks[j]]

Push(a, f) ==
  IF f # Garbage /\ Accepts(a, f)
    THEN [sid    |-> IF a.sid = NoPage THEN f.sid ELSE a.sid,
          total  |-> IF a.sid = NoPage THEN f.total ELSE a.total,
          chunks |-> Put(a.chunks, f.index, f.chunk)]
    ELSE a

Done(a) == a.sid # NoPage /\ DOMAIN a.chunks = 1 .. a.total

(* Every chunk held belongs to the session that is locked, and the total   *)
(* is that session's.                                                      *)
Pure(a) ==
  a.sid # NoPage =>
    /\ a.total = Total[a.sid]
    /\ \A i \in DOMAIN a.chunks : a.chunks[i] = a.sid

(* The bytes assembled are those of the session they are filed under, all  *)
(* of them and nothing else.                                               *)
Whole(a) ==
  /\ a.sid \in Pages
  /\ a.chunks = [i \in 1 .. Total[a.sid] |-> a.sid]
=============================================================================

-------------------------- MODULE Assembler_proofs --------------------------
(***************************************************************************)
(* What FrameAssembler keeps, whatever it is fed and in whatever order,    *)
(* for any number of sessions and frames.  Cited by the proofs of the      *)
(* machines it is a part of.                                               *)
(***************************************************************************)
EXTENDS Assembler, TLAPS

(* reset and a new assembler: nothing is locked, nothing is held.          *)
LEMMA EmptyIsAssembler == IsAssembler(Empty) /\ Pure(Empty) /\ ~Done(Empty)
<1>1. DOMAIN Empty.chunks = {} /\ Empty.chunks \in [DOMAIN Empty.chunks -> Pages]
  BY DEF Empty
<1> QED
  BY <1>1 DEF IsAssembler, Pure, Done, Empty

(* A frame of a page has an index within the total of that page.           *)
LEMMA FrameFacts ==
  ASSUME NEW p \in Pages, NEW i \in 1 .. Total[p]
  PROVE  /\ FrameOf(p, i).sid = p /\ FrameOf(p, i).chunk = p
         /\ FrameOf(p, i).index = i /\ FrameOf(p, i).total = Total[p]
         /\ Total[p] \in Nat /\ p # NoPage
  BY AssemblerAssumption DEF FrameOf

(* push keeps an assembler one, and keeps its chunks of one session, for   *)
(* any frame of any page: accepts() lets nothing else in once it locked.   *)
LEMMA PushFrame ==
  ASSUME NEW a, IsAssembler(a), Pure(a), NEW p \in Pages, NEW i \in 1 .. Total[p]
  PROVE  IsAssembler(Push(a, FrameOf(p, i))) /\ Pure(Push(a, FrameOf(p, i)))
<1> DEFINE f == FrameOf(p, i)
           b == Push(a, f)
<1> SUFFICES IsAssembler(b) /\ Pure(b)
  OBVIOUS
<1>1. CASE f # Garbage /\ Accepts(a, f)
  <2>1. b = [sid |-> IF a.sid = NoPage THEN p ELSE a.sid,
             total |-> IF a.sid = NoPage THEN Total[p] ELSE a.total,
             chunks |-> Put(a.chunks, i, p)]
    BY <1>1, FrameFacts DEF Push
  <2>2. b.sid = p /\ b.total = Total[p]
    BY <1>1, <2>1, FrameFacts DEF Accepts
  <2>3. DOMAIN a.chunks \subseteq 1 .. Total[p]
    <3>1. CASE a.sid = NoPage
      BY <3>1, EmptyIsAssembler DEF IsAssembler, Empty
    <3>2. CASE a.sid # NoPage
      BY <3>2, <1>1, FrameFacts DEF IsAssembler, Accepts
    <3> QED
      BY <3>1, <3>2
  <2>4. \A j \in DOMAIN a.chunks : a.chunks[j] = p
    <3>1. CASE a.sid = NoPage
      <4>1. DOMAIN a.chunks = {}
        BY <3>1 DEF IsAssembler, Empty
      <4> QED
        BY <4>1
    <3>2. CASE a.sid # NoPage
      BY <3>2, <1>1, FrameFacts DEF Pure, Accepts
    <3> QED
      BY <3>1, <3>2
  <2>5. DOMAIN b.chunks = DOMAIN a.chunks \cup {i}
    BY <2>1 DEF Put
  <2>6. \A j \in DOMAIN b.chunks : b.chunks[j] = p
    BY <2>1, <2>4 DEF Put
  <2>7. b # Empty
    BY <2>2, FrameFacts DEF Empty
  <2>8. b.chunks \in [DOMAIN b.chunks -> Pages]
    <3>1. b.chunks = Put(a.chunks, i, p)
      BY <2>1
    <3> QED
      BY <3>1, <2>4 DEF Put
  <2> HIDE DEF b
  <2> QED
    BY <2>2, <2>3, <2>5, <2>6, <2>7, <2>8, FrameFacts DEF IsAssembler, Pure
<1>2. CASE ~(f # Garbage /\ Accepts(a, f))
  BY <1>2 DEF Push
<1> QED
  BY <1>1, <1>2

(* What parseFrame refuses changes nothing.                                *)
LEMMA PushGarbage ==
  ASSUME NEW a PROVE Push(a, Garbage) = a
  BY DEF Push

(* When an assembler says it is done, what it assembled is the whole       *)
(* payload of the session it locked, whatever came before it.              *)
LEMMA DoneIsWhole ==
  ASSUME NEW a, IsAssembler(a), Pure(a), Done(a)
  PROVE  Whole(a)
<1>1. a.sid \in Pages /\ a.total = Total[a.sid]
  BY DEF IsAssembler, Pure, Done
<1>2. DOMAIN a.chunks = 1 .. Total[a.sid]
  BY <1>1 DEF Done
<1>3. a.chunks \in [DOMAIN a.chunks -> Pages] /\ \A i \in DOMAIN a.chunks : a.chunks[i] = a.sid
  BY <1>1, AssemblerAssumption DEF IsAssembler, Pure
<1> QED
  BY <1>1, <1>2, <1>3 DEF Whole
=============================================================================

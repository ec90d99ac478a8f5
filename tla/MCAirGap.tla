------------------------------ MODULE MCAirGap ------------------------------
(* Two pages show the same order (a tab and its reload), a third one shows *)
(* an order the review refuses.                                            *)
EXTENDS AirGap, TLC

CONSTANTS p1, p2, p3, o1, o2, c1, c2

MCOrderOf == [p \in Pages |-> IF p = p3 THEN o2 ELSE o1]
MCOneFrame == [p \in Pages |-> 1]
MCTwoFrames == [p \in Pages |-> IF p = p3 THEN 1 ELSE 2]
CallSymmetry == Permutations(Calls)
=============================================================================

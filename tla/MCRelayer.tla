----------------------------- MODULE MCRelayer -----------------------------
(* Instances of Relayer small enough for TLC: see the README for what each  *)
(* configuration leaves in and out.                                        *)
EXTENDS Relayer, TLC

(* Orders and request slots are interchangeable; accounts are not, some of  *)
(* them start in the pool.                                                 *)
Symmetry == Permutations(Orders) \cup Permutations(Requests)
=============================================================================

----------------------------- MODULE MCScanner -----------------------------
(* Two pages on screen, each with a payload of two frames.                 *)
EXTENDS Scanner

MCTotal == [p \in Pages |-> 2]
=============================================================================

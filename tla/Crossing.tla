------------------------------ MODULE Crossing ------------------------------
(***************************************************************************)
(* What the air gap promises: the phone lets the holder approve only an    *)
(* order its review found signable, the relayer lets in only submissions   *)
(* of orders that were approved, and none of an order once a signature of  *)
(* it is stored.  No page, code, camera, screen or answer appears here.    *)
(*                                                                         *)
(* It does not promise that one signature is stored: submissions that were *)
(* let in before the first one was may store theirs after it.              *)
(***************************************************************************)
CONSTANTS
  Orders,
  Submissions,
  Signable    \* the orders the vault's review does not refuse

VARIABLES
  approved,   \* the orders approved on the phone
  admitted,   \* the submissions of every order that the relayer let in,
  accepted    \*   and those whose signature it has stored

Init ==
  /\ approved = {}
  /\ admitted = [o \in Orders |-> {}]
  /\ accepted = [o \in Orders |-> {}]

Approve(o) ==
  /\ o \in Signable
  /\ approved' = approved \cup {o}
  /\ UNCHANGED <<admitted, accepted>>

Admit(o, s) ==
  /\ o \in approved /\ accepted[o] = {}
  /\ admitted' = [admitted EXCEPT ![o] = @ \cup {s}]
  /\ UNCHANGED <<approved, accepted>>

Accept(o, s) ==
  /\ s \in admitted[o]
  /\ accepted' = [accepted EXCEPT ![o] = @ \cup {s}]
  /\ UNCHANGED <<approved, admitted>>

Next == \E o \in Orders :
          Approve(o) \/ \E s \in Submissions : Admit(o, s) \/ Accept(o, s)

Spec == Init /\ [][Next]_<<approved, admitted, accepted>>
=============================================================================

--------------------------- MODULE OrderLifecycle ---------------------------
(***************************************************************************)
(* What an order on a durable nonce promises to the people who wait for    *)
(* it, without nonces, signatures or transactions.  A submission is let in *)
(* while the order awaits a signature, and then signs it, sends it, gives  *)
(* it up or leaves it as it is.  The cluster may execute the order and may *)
(* show an error of it, both only after it was signed.  CONFIRMED is said  *)
(* only of what was executed, and a rejection only of what an error was    *)
(* shown of.                                                               *)
(*                                                                         *)
(* Nobody is let in after the first signature.  Those who were let in at   *)
(* once may still write over one another; an order that never had two of   *)
(* them moves forward only, and its end stays, unless the cluster showed   *)
(* an error and executed it all the same.                                  *)
(*                                                                         *)
(* FAILED promises less than it seems to: an order whose broadcast was     *)
(* answered by an error may still execute.                                 *)
(***************************************************************************)
CONSTANTS Orders, Submissions

VARIABLES
  status,     \* the status of every order
  executed,   \* the orders all of whose transactions were executed
  refused,    \* the orders an error was shown of
  admitted,   \* the submissions of every order that were let in,
  accepted,   \*   and those whose signature is stored and that still run
  overlapped  \* the orders that had two submissions at once

clusterVars == <<executed, refused>>
submissionVars == <<admitted, accepted, overlapped>>
lifecycleVars == <<status, clusterVars, submissionVars>>

Init ==
  /\ status = [o \in Orders |-> "NONE"]
  /\ executed = {} /\ refused = {} /\ overlapped = {}
  /\ admitted = [o \in Orders |-> {}]
  /\ accepted = [o \in Orders |-> {}]

Signed == {"SIGNED", "BROADCAST", "FAILED", "CONFIRMED"}

Write(o, to) == status' = [status EXCEPT ![o] = to]

Open(o) ==
  /\ status[o] = "NONE" /\ Write(o, "AWAITING_SIGNATURE")
  /\ UNCHANGED <<clusterVars, submissionVars>>

Admit(o, s) ==
  /\ status[o] = "AWAITING_SIGNATURE"
  /\ admitted' = [admitted EXCEPT ![o] = @ \cup {s}]
  /\ overlapped' = IF admitted[o] \cup accepted[o] \subseteq {s} THEN overlapped
                                                               ELSE overlapped \cup {o}
  /\ UNCHANGED <<status, clusterVars, accepted>>

Sign(o, s) ==
  /\ s \in admitted[o]
  /\ o \in overlapped \/ status[o] = "AWAITING_SIGNATURE"
  /\ Write(o, "SIGNED")
  /\ admitted' = [admitted EXCEPT ![o] = @ \ {s}]
  /\ accepted' = [accepted EXCEPT ![o] = @ \cup {s}]
  /\ UNCHANGED <<clusterVars, overlapped>>

(* A submission ends with the status it writes last.                       *)
Ends(o, s, to) ==
  /\ s \in accepted[o]
  /\ o \in overlapped \/ status[o] = "SIGNED"
  /\ Write(o, to)
  /\ accepted' = [accepted EXCEPT ![o] = @ \ {s}]
  /\ UNCHANGED <<clusterVars, admitted, overlapped>>

Send(o, s) == Ends(o, s, "BROADCAST")

GiveUp(o, s) == Ends(o, s, "FAILED")

(* Some end without writing anything, all of them when the process dies.   *)
Leave(gone) ==
  /\ admitted' = [o \in Orders |-> admitted[o] \ gone]
  /\ accepted' = [o \in Orders |-> accepted[o] \ gone]
  /\ UNCHANGED <<status, clusterVars, overlapped>>

Execute(o) ==
  /\ status[o] \in Signed
  /\ executed' = executed \cup {o}
  /\ UNCHANGED <<status, refused, submissionVars>>

ShowError(o) ==
  /\ status[o] \in Signed
  /\ refused' = refused \cup {o}
  /\ UNCHANGED <<status, executed, submissionVars>>

(* What may be told the end: an order in flight, or one that was told it.  *)
InFlight(o) ==
  \/ o \in overlapped /\ status[o] \in Signed
  \/ status[o] \in {"BROADCAST", "CONFIRMED"}
  \/ status[o] = "FAILED" /\ o \in refused

Settle(o) ==
  /\ o \in executed /\ InFlight(o) /\ Write(o, "CONFIRMED")
  /\ UNCHANGED <<clusterVars, submissionVars>>

Fail(o) ==
  /\ o \in refused /\ InFlight(o) /\ Write(o, "FAILED")
  /\ UNCHANGED <<clusterVars, submissionVars>>

Next ==
  \/ \E o \in Orders :
       \/ Open(o) \/ Execute(o) \/ ShowError(o) \/ Settle(o) \/ Fail(o)
       \/ \E s \in Submissions : Admit(o, s) \/ Sign(o, s) \/ Send(o, s) \/ GiveUp(o, s)
  \/ \E gone \in SUBSET Submissions : Leave(gone)

Spec == Init /\ [][Next]_lifecycleVars
=============================================================================

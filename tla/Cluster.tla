------------------------------ MODULE Cluster ------------------------------
(***************************************************************************)
(* The Solana cluster and its RPC node, as the relayer of PixStock uses    *)
(* them: sendRawTransaction with preflight, getSignatureStatuses and       *)
(* getAccountInfo at commitment "confirmed".  The cluster is not part of   *)
(* the repository; what is kept of it is what the relayer's code depends   *)
(* on:                                                                     *)
(*                                                                         *)
(*  - a durable nonce account has a value, a message built on that value   *)
(*    is valid while the account still has it, and executing the message,  *)
(*    successfully or not, gives the account its next value;               *)
(*  - a transaction is first "processed" on one fork (seen_ok, seen_err),  *)
(*    which the cluster may abandon, and then "confirmed" (ok, err);       *)
(*  - a message whose recent blockhash is not a real one is never valid.   *)
(*                                                                         *)
(* A nonce value, a hash on chain, is the number of times the account has  *)
(* been advanced.  Transaction i of order o is named by <<o, i>>: its      *)
(* bytes, hence its signature, are fixed when the order is built.          *)
(***************************************************************************)
EXTENDS Naturals

CONSTANTS
  Orders,           \* ids of the orders that may be created
  Nonces,           \* durable nonce accounts that may exist
  None,             \* "no nonce account", "no order"
  MaxMessages,      \* transactions in the largest order: 2 when a basket is split
  Processed,        \* TRUE when the RPC node may answer from a processed block
  MaxForks,         \* bound: processed blocks the cluster abandons
  MaxFaults         \* bound: RPC failures, database errors and process crashes

ASSUME ClusterAssumption ==
  /\ None \notin Orders \cup Nonces      \* None stands for an absent id
  /\ MaxMessages \in Nat \ {0}           \* an order has a transaction
  /\ Processed \in BOOLEAN
  /\ MaxForks \in Nat
  /\ MaxFaults \in Nat

VARIABLES
  opened,   \* nonce accounts that exist on chain
  value,    \* their value at commitment "confirmed"
  head,     \* their value at commitment "processed"
  tx,       \* what became of every transaction
  forks,    \* processed blocks abandoned so far
  faults    \* faults that have happened so far

chainVars == <<opened, value, head, tx, forks>>

MessageIndex == 1 .. MaxMessages

TxState == {"unsent", "sent", "seen_ok", "seen_err", "ok", "err"}

ClusterInit(pool) ==
  /\ opened = pool
  /\ value = [n \in Nonces |-> 0]
  /\ head = [n \in Nonces |-> 0]
  /\ tx = [o \in Orders |-> [i \in MessageIndex |-> "unsent"]]
  /\ forks = 0
  /\ faults = 0

(***************************************************************************)
(* What preflight and the leader check of a message's lifetime.  A message *)
(* that names no nonce account carries the all-zero blockhash.             *)
(***************************************************************************)
Lives(n, v, at) == n # None /\ at[n] = v

(* sendRawTransaction takes the transaction in; sending it again while it  *)
(* waits is accepted and changes nothing.                                  *)
TakeIn(o, i, n, v) ==
  /\ Lives(n, v, value)
  /\ tx[o][i] \in {"unsent", "sent", "seen_ok", "seen_err"}
  /\ tx' = [tx EXCEPT ![o][i] = IF @ = "unsent" THEN "sent" ELSE @]
  /\ UNCHANGED <<opened, value, head, forks>>

(* A leader executes it; the answer is visible before it is confirmed.     *)
Process(o, i, n, v) ==
  /\ Processed
  /\ tx[o][i] = "sent"
  /\ Lives(n, v, head)
  /\ \E seen \in {"seen_ok", "seen_err"} : tx' = [tx EXCEPT ![o][i] = seen]
  /\ head' = [head EXCEPT ![n] = v + 1]
  /\ UNCHANGED <<opened, value, forks, faults>>

(* The fork it was processed on is voted for.                              *)
Confirm(o, i, n, v) ==
  /\ tx[o][i] \in {"seen_ok", "seen_err"}
  /\ tx' = [tx EXCEPT ![o][i] = IF @ = "seen_ok" THEN "ok" ELSE "err"]
  /\ value' = [value EXCEPT ![n] = v + 1]
  /\ UNCHANGED <<opened, head, forks, faults>>

(* The fork it was processed on is abandoned; it waits to be executed again. *)
Abandon(o, i, n, v) ==
  /\ forks < MaxForks
  /\ tx[o][i] \in {"seen_ok", "seen_err"}
  /\ tx' = [tx EXCEPT ![o][i] = "sent"]
  /\ head' = [head EXCEPT ![n] = v]
  /\ forks' = forks + 1
  /\ UNCHANGED <<opened, value, faults>>

(* Executed and confirmed before anyone asks.                              *)
Land(o, i, n, v) ==
  /\ tx[o][i] = "sent"
  /\ Lives(n, v, head)
  /\ \E end \in {"ok", "err"} : tx' = [tx EXCEPT ![o][i] = end]
  /\ head' = [head EXCEPT ![n] = v + 1]
  /\ value' = [value EXCEPT ![n] = v + 1]
  /\ UNCHANGED <<opened, forks, faults>>

(* Two system instructions create and initialise a nonce account.          *)
OpenAccount(n) ==
  /\ n \notin opened
  /\ opened' = opened \cup {n}
  /\ UNCHANGED <<value, head, tx, forks>>

(* Something outside the program fails, within the bound.                  *)
Fault ==
  /\ faults < MaxFaults
  /\ faults' = faults + 1

NoFault == UNCHANGED faults
=============================================================================

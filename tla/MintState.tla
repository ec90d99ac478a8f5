------------------------------ MODULE MintState -----------------------------
(***************************************************************************)
(* The multiplier of an xStock mint as the relayer reads it:                *)
(* mint-state.service.ts, with the mint of token-2022 it reads.  What was   *)
(* read is served for TTL, two readers may ask at once, and the relayer     *)
(* chooses between the mint's two multipliers by its own clock.             *)
(*                                                                         *)
(* Times are relative: how long ago something was read, how long until      *)
(* something lands.  One scaled mint stands for the five, which are read in *)
(* one request and fail together.                                           *)
(***************************************************************************)
EXTENDS Integers

CONSTANTS
  Readers,      \* the requests under way
  Multipliers,
  None,
  TTL,          \* TTL_MS
  Latency,      \* how long the cluster's answer may take
  Notice,       \* how long before it lands a change is scheduled, at least
  Skew          \* how far the relayer's clock is from the cluster's, at most

(* mint-state.service.ts:138-141: the clocks differ by seconds, changes are *)
(* scheduled days apart.                                                    *)
ASSUME MintStateAssumption ==
  /\ TTL \in Nat /\ Latency \in Nat /\ Skew \in Nat
  /\ Notice \in Nat /\ Notice > TTL + Latency
  /\ None \notin Multipliers

VARIABLES
  mint,   \* the account: its two multipliers and when the second takes over
  ahead,  \* how far the relayer's clock is ahead
  cache,  \* what was read last, and for how long it is served
  read    \* each reader's request: sent, or answered, some time ago

mints == <<mint, ahead, cache, read>>

Accounts == [multiplier : Multipliers, new : Multipliers, due : (-Skew)..Notice]

(* due is negative once the change has landed; past the skew it does not    *)
(* matter how long ago.                                                     *)
Later(account) == [account EXCEPT !.due = IF @ > -Skew THEN @ - 1 ELSE @]

(* By the cluster's own clock. *)
InForce == IF mint.due <= 0 THEN mint.new ELSE mint.multiplier

MintInit ==
  /\ \E m \in Multipliers : mint = [multiplier |-> m, new |-> m, due |-> -Skew]
  /\ ahead \in (-Skew)..Skew
  /\ cache = None
  /\ read = [r \in Readers |-> None]

(* The issuer schedules a change.  One that is scheduled is left to land.   *)
Schedule(m) ==
  /\ mint.due <= 0
  /\ mint' = [multiplier |-> InForce, new |-> m, due |-> Notice]
  /\ UNCHANGED <<ahead, cache, read>>

-----------------------------------------------------------------------------

(* Mutant: the first of the mint's two multipliers, whatever the time. *)
ReadFirstField(account) ==
  [multiplier |-> account.multiplier, next |-> account.new,
   pending |-> ahead < account.due, age |-> 0]

(* read: the account was answered some time ago, the clock is read now.     *)
Read(account) ==
  LET pending == ahead < account.due
  IN [multiplier |-> IF pending THEN account.multiplier ELSE account.new,
      next       |-> account.new,
      pending    |-> pending,
      age        |-> 0]

(* factsFor: the change is carried while it is pending, when it is one.     *)
FactsFor(state) ==
  [multiplier |-> state.multiplier,
   next       |-> IF state.pending /\ state.next # state.multiplier THEN state.next ELSE None]

(* all: what is served without a request, or None. *)
Cached == IF cache # None /\ cache.left > 0 THEN cache.state ELSE None

(* all: the request, when nothing is served. *)
AskMints(r) ==
  /\ read[r] = None /\ Cached = None
  /\ read' = [read EXCEPT ![r] = [account |-> None, age |-> 0]]
  /\ UNCHANGED <<mint, ahead, cache>>

(* The cluster answers with the accounts as they are. *)
Answer(r) ==
  /\ read[r] # None /\ read[r].account = None
  /\ read' = [read EXCEPT ![r] = [account |-> mint, age |-> 0]]
  /\ UNCHANGED <<mint, ahead, cache>>

(* all: the answer is read and kept, over whatever another reader kept.     *)
Arrives(r) ==
  /\ read[r] # None /\ read[r].account # None
  /\ cache' = [state |-> [Read(read[r].account) EXCEPT !.age = read[r].age], left |-> TTL]
  /\ read' = [read EXCEPT ![r] = None]
  /\ UNCHANGED <<mint, ahead>>

(* all: the request fails, or a mint cannot be read: nothing is kept.       *)
ReadFails(r) ==
  /\ read[r] # None
  /\ read' = [read EXCEPT ![r] = None]
  /\ UNCHANGED <<mint, ahead, cache>>

(* Time passes for all of it.  An answer takes no longer than Latency. *)
MintsAge ==
  /\ \A r \in Readers : read[r] # None => read[r].age < Latency
  /\ mint' = Later(mint)
  /\ read' = [r \in Readers |->
                IF read[r] = None \/ read[r].account = None THEN read[r]
                ELSE [account |-> Later(read[r].account), age |-> read[r].age + 1]]
  /\ cache' = IF Cached = None \/ cache.left = 1 THEN None
              ELSE [state |-> [cache.state EXCEPT !.age = @ + 1], left |-> cache.left - 1]
  /\ UNCHANGED ahead
=============================================================================

------------------------------- MODULE Quotes -------------------------------
(***************************************************************************)
(* Jupiter's quotes as the relayer serves them: jupiter.service.ts.  A      *)
(* quote is how long ago Jupiter made it; one key stands for the mints, the *)
(* amount, the slippage and the kind of route that were asked for.          *)
(***************************************************************************)
EXTENDS Naturals

CONSTANTS
  Askers,      \* the requests under way
  Keys,
  NoQuote,
  CacheTTL,    \* CACHE_TTL_MS
  QuoteLatency \* how long Jupiter's answer may take to arrive

ASSUME QuotesAssumption ==
  CacheTTL \in Nat \ {0} /\ QuoteLatency \in Nat /\ NoQuote \notin Nat

VARIABLES
  entries,  \* cache: for each key a quote, and for how long it is served
  fetching  \* each asker's request: its key, and how old the answer is

quotes == <<entries, fetching>>

QuotesInit ==
  /\ entries = [k \in Keys |-> NoQuote]
  /\ fetching = [r \in Askers |-> NoQuote]

(* quote: what is served without a request, or NoQuote. *)
CachedQuote(k) == IF entries[k] # NoQuote /\ entries[k].left > 0 THEN entries[k].age ELSE NoQuote

(* sweep *)
Swept == [k \in Keys |-> IF entries[k] # NoQuote /\ entries[k].left = 0 THEN NoQuote ELSE entries[k]]

(* quote: the request, when nothing is served. *)
AskJupiter(r, k) ==
  /\ fetching[r] = NoQuote /\ CachedQuote(k) = NoQuote
  /\ fetching' = [fetching EXCEPT ![r] = [key |-> k, made |-> FALSE, age |-> 0]]

(* Jupiter makes the quote. *)
QuoteMade(r) ==
  /\ fetching[r] # NoQuote /\ ~fetching[r].made
  /\ fetching' = [fetching EXCEPT ![r].made = TRUE]
  /\ UNCHANGED entries

(* quote: the answer is kept, over whatever another asker kept. *)
QuoteArrives(r) ==
  /\ fetching[r] # NoQuote /\ fetching[r].made
  /\ entries' = [entries EXCEPT ![fetching[r].key] = [age |-> fetching[r].age, left |-> CacheTTL]]
  /\ fetching' = [fetching EXCEPT ![r] = NoQuote]

(* quote: no route, no answer. *)
QuoteFails(r) ==
  /\ fetching[r] # NoQuote
  /\ fetching' = [fetching EXCEPT ![r] = NoQuote]
  /\ UNCHANGED entries

(* An entry stays when its time is over: how much older it gets no longer   *)
(* matters.                                                                 *)
Expired == [age |-> CacheTTL + QuoteLatency + 1, left |-> 0]

(* Time passes.  An answer does not take longer than QuoteLatency. *)
QuotesAge ==
  /\ \A r \in Askers : fetching[r] # NoQuote => fetching[r].age < QuoteLatency
  /\ fetching' = [r \in Askers |->
                    IF fetching[r] = NoQuote \/ ~fetching[r].made THEN fetching[r]
                    ELSE [fetching[r] EXCEPT !.age = @ + 1]]
  /\ entries' = [k \in Keys |->
                   IF entries[k] = NoQuote \/ entries[k].left <= 1
                   THEN IF entries[k] = NoQuote THEN NoQuote ELSE Expired
                   ELSE [age |-> entries[k].age + 1, left |-> entries[k].left - 1]]
=============================================================================

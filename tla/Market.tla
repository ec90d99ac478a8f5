------------------------------- MODULE Market -------------------------------
(***************************************************************************)
(* What the relayer knows of the market and hands out: the price stream     *)
(* (PriceStream), and the requests that read the mint (MintState) and ask   *)
(* Jupiter (Quotes) on their way: create in orders.service.ts with the      *)
(* builder's quote and swapInstructions, GET /v1/quotes, /v1/vaults and     *)
(* /v1/assets.                                                              *)
(*                                                                         *)
(* The stream and the requests share no state: a behaviour follows the one  *)
(* or the others (followed).                                                *)
(***************************************************************************)
EXTENDS PriceStream, MintState, Quotes

(* Any request may ask Jupiter and read the mint. *)
ASSUME MarketAssumption == Askers = Readers

VARIABLES
  followed,  \* "stream" or "requests"
  stage,     \* how far each request is
  handed     \* what a request was just answered with

requests == <<stage, handed>>
vars == <<followed, stream, mints, quotes, requests>>

(* A request: its kind, where it waits, for how long, and the mint state it *)
(* has, if it needs it later.                                               *)
Waiting(kind, at, state) == [kind |-> kind, at |-> at, waited |-> 0, state |-> state]

Idle(r) == stage[r] = None

(* The answer to a request and what it rests on.                            *)
HandOut(r, kind, quote, state) ==
  /\ stage' = [stage EXCEPT ![r] = None]
  /\ handed' = [kind |-> kind, quote |-> quote, state |-> state]

Advance(r, request) == stage' = [stage EXCEPT ![r] = request] /\ handed' = None

NothingHanded == handed' = None /\ UNCHANGED stage

Refuse(r) == stage' = [stage EXCEPT ![r] = None] /\ handed' = None

-----------------------------------------------------------------------------
(* Quotes: the builder's for an order, the controller's for the web app.    *)

(* quote, for either: from the cache or from Jupiter. *)
Quote(r, kind, k) ==
  \/ /\ CachedQuote(k) # NoQuote
     /\ IF kind = "preview" THEN HandOut(r, kind, CachedQuote(k), None)
        ELSE Advance(r, Waiting(kind, "swap", None))
     /\ UNCHANGED fetching
  \/ AskJupiter(r, k) /\ Advance(r, Waiting(kind, "quote", None))

(* create: build, up to its first wait. *)
Order(r, k) ==
  /\ Idle(r)
  /\ Quote(r, "order", k)
  /\ UNCHANGED <<entries, mints>>

(* GET /v1/quotes sweeps first. *)
Preview(r, k) ==
  /\ Idle(r)
  /\ entries' = Swept
  /\ Quote(r, "preview", k)
  /\ UNCHANGED mints

JupiterQuotes(r) == QuoteMade(r) /\ NothingHanded /\ UNCHANGED mints

Quoted(r) ==
  /\ QuoteArrives(r)
  /\ IF stage[r].kind = "preview" THEN HandOut(r, "preview", fetching[r].age, None)
     ELSE Advance(r, Waiting("order", "swap", None))
  /\ UNCHANGED mints

NotQuoted(r) == QuoteFails(r) /\ Refuse(r) /\ UNCHANGED mints

-----------------------------------------------------------------------------
(* Mint state: factsFor for an order, all for the balances and the table.   *)

(* What a request does with the mint state it has. *)
WithMints(r, kind, state) ==
  \/ kind = "order" /\ HandOut(r, kind, NoQuote, state)
  \/ kind = "balances" /\ Advance(r, Waiting(kind, "accounts", state))

(* all, for any of them: from the cache or from the cluster. *)
Mints(r, kind) ==
  \/ Cached # None /\ WithMints(r, kind, Cached) /\ UNCHANGED mints
  \/ AskMints(r) /\ Advance(r, Waiting(kind, "mints", None))

(* The swap's instructions are there and the order compiles. *)
Swapped(r) ==
  /\ ~Idle(r) /\ stage[r].at = "swap"
  /\ Mints(r, "order")
  /\ UNCHANGED quotes

(* They are not, or the order does not fit. *)
NotSwapped(r) ==
  /\ ~Idle(r) /\ stage[r].at = "swap"
  /\ Refuse(r)
  /\ UNCHANGED <<quotes, mints>>

Balances(r) == Idle(r) /\ Mints(r, "balances") /\ UNCHANGED quotes

(* GET /v1/assets is answered with what an order carries. *)
AssetTable(r) == Idle(r) /\ Mints(r, "order") /\ UNCHANGED quotes

ClusterAnswers(r) == Answer(r) /\ NothingHanded /\ UNCHANGED quotes

MintsRead(r) ==
  /\ Arrives(r)
  /\ WithMints(r, stage[r].kind, cache'.state)
  /\ UNCHANGED quotes

MintsNotRead(r) == ReadFails(r) /\ Refuse(r) /\ UNCHANGED quotes

(* balances: the accounts' raw amounts, which the state read before scales. *)
AccountsRead(r) ==
  /\ ~Idle(r) /\ stage[r].at = "accounts"
  /\ \/ HandOut(r, "balances", NoQuote, stage[r].state)
     \/ Refuse(r)
  /\ UNCHANGED <<quotes, mints>>

-----------------------------------------------------------------------------

MarketInit ==
  /\ Init
  /\ MintInit
  /\ QuotesInit
  /\ followed \in {"stream", "requests"}
  /\ followed = "requests" => ~configured /\ inactive = {}
  /\ followed = "stream" => ahead = 0 /\ mint.new = CHOOSE m \in Multipliers : TRUE
  /\ stage = [r \in Readers |-> None]
  /\ handed = None

RequestStep(r) ==
  \/ \E k \in Keys : Order(r, k) \/ Preview(r, k)
  \/ JupiterQuotes(r) \/ Quoted(r) \/ NotQuoted(r) \/ Swapped(r) \/ NotSwapped(r)
  \/ Balances(r) \/ AssetTable(r) \/ ClusterAnswers(r) \/ MintsRead(r) \/ MintsNotRead(r)
  \/ AccountsRead(r)

Announce(m) == Schedule(m) /\ NothingHanded /\ UNCHANGED quotes

(* Time passes.  A wait for accounts is no longer than one for the mints.    *)
RequestsAge ==
  /\ MintsAge /\ QuotesAge
  /\ \A r \in Readers : ~Idle(r) /\ stage[r].at = "accounts" => stage[r].waited < Latency
  /\ stage' = [r \in Readers |->
       IF Idle(r) \/ stage[r].at # "accounts" THEN stage[r]
       ELSE [stage[r] EXCEPT !.waited = @ + 1, !.state.age = @ + 1]]
  /\ handed' = None

Following(who) == followed = who /\ UNCHANGED followed

FollowStream(step) == Following("stream") /\ step /\ UNCHANGED <<mints, quotes, requests>>

Next ==
  \/ FollowStream(ModuleInit)
  \/ FollowStream(Reconnect)
  \/ FollowStream(ReconnectThrows)
  \/ FollowStream(GiveUp)
  \/ FollowStream(Destroy)
  \/ \E r \in 0..(Routers - 1) : FollowStream(RouterStep(r))
  \/ \E f \in Wanted : FollowStream(Session(f))
  \/ FollowStream(Ages)
  \/ /\ Following("requests") /\ UNCHANGED stream
     /\ \/ \E r \in Readers : RequestStep(r)
        \/ \E m \in Multipliers : Announce(m)
        \/ RequestsAge

(* The service starts, its timer fires and its constructor does not throw   *)
(* for ever; a socket that is told to close closes, and a router that is    *)
(* not sound ends what it accepted; a sound one opens, and answers a        *)
(* subscription, in the end, though it may have closed before it did.       *)
Fairness ==
  /\ WF_vars(FollowStream(ModuleInit))
  /\ SF_vars(FollowStream(Reconnect))
  /\ WF_vars(FollowStream(\E r \in 0..(Routers - 1) :
                            (socket.state = "closing" \/ r \notin Sound) /\ Close(r)))
  /\ SF_vars(FollowStream(\E r \in Sound : Open(r)))
  /\ SF_vars(FollowStream(\E r \in Sound : RefuseUnserved(r) \/ Price(r)))

Spec == MarketInit /\ [][Next]_vars /\ Fairness

-----------------------------------------------------------------------------

(* Nothing handed out rests on anything older than its cache and the waits  *)
(* after it allow, whichever of two overlapping reads wrote the cache last. *)
NothingIsOld ==
  handed # None =>
    /\ handed.quote # NoQuote => handed.quote <= CacheTTL + QuoteLatency
    /\ handed.state # None => handed.state.age <= TTL + 2 * Latency

(* Every variable keeps its type, the stream keeps its invariants, and what *)
(* is handed out is recent.                                                 *)
Inv == StreamInv /\ NothingIsOld

(* The multiplier an order is built with is in force, or the order names    *)
(* the one that is as scheduled, whatever the cache and the awaits made of  *)
(* a change: all but the seconds by which the relayer's clock is ahead,     *)
(* when an order carries the multiplier about to land as if it had landed   *)
(* and announces none, although the comment at mint-state.service.ts:138-141*)
(* says that the ticket discloses it as pending (all at :67-90, factsFor at *)
(* :95-119).                                                                *)
FactsTrueOrEarly ==
  handed # None /\ handed.kind = "order" =>
    LET facts == FactsFor(handed.state)
    IN \/ facts.multiplier = InForce \/ facts.next = InForce
       \/ facts.multiplier = mint.new /\ mint.due \in 1..ahead

(* While the service runs and a feed is left to ask for, a price that went  *)
(* stale is replaced: routers that close, refuse or fail are left for the   *)
(* next one (pyth.service.ts:307-312) until a sound one answers.            *)
PriceComesBack ==
  configured /\ Attestation = NoPrice ~> Attestation # NoPrice \/ feeds = {} \/ stopped
=============================================================================

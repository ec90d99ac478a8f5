---------------------------- MODULE Market_proofs ----------------------------
(***************************************************************************)
(* Proofs about Market, for any table of assets, any routers, any number of *)
(* requests and of multipliers, and any limits that the assumptions of its  *)
(* parts allow.                                                             *)
(***************************************************************************)
EXTENDS Market, TLAPS

USE PriceStreamAssumption DEF PriceStreamAssumption

-----------------------------------------------------------------------------
(* The stream *)

SocketType ==
  [state : Live \cup {"none", "closed"}, router : Nat, asked : SUBSET Wanted, accepted : BOOLEAN]

(* What is asked for is what no router refused. *)
Unrefused == feeds \cap DOMAIN refused = {}

SInv ==
  /\ StreamTypeOK /\ OneStream /\ NeverAskedAgain /\ StopsForGood /\ NeverLeftIdle
  /\ Unrefused

LEMMA SmallerBound ==
  \A m, n \in Nat : Smaller(m, n) \in Nat /\ Smaller(m, n) <= m /\ Smaller(m, n) <= n
  BY DEF Smaller

LEMMA NextDelay ==
  ASSUME NEW delay \in 1..MaxDelay
  PROVE  Smaller(2 * delay, MaxDelay) \in 1..MaxDelay
  BY DEF Smaller

LEMMA SomethingWanted == Wanted # {}
<1>1. PICK a \in Assets : TRUE
  OBVIOUS
<1>2. FeedOf[a] \in Wanted
  BY <1>1 DEF Wanted
<1> QED
  BY <1>2

LEMMA SInvInit ==
  ASSUME Init
  PROVE  SInv
<1>1. timer = FALSE /\ stopped = FALSE
  BY DEF Init
<1>2. configured \in BOOLEAN /\ timer \in BOOLEAN /\ stopped \in BOOLEAN
  BY <1>1 DEF Init
<1>3. socket.state = "none" /\ socket \in SocketType
  BY DEF Init, NoSocket, SocketType, Live
<1>4. feeds = {} /\ DOMAIN refused = {} /\ inactive \subseteq Wanted
  BY DEF Init
<1>5. latest = NoPrice /\ reconnectDelay \in 1..MaxDelay /\ routerIndex \in Nat
  BY DEF Init
<1>6. StreamTypeOK
  BY <1>2, <1>3, <1>4, <1>5 DEF StreamTypeOK, SocketType
<1> QED
  BY <1>1, <1>3, <1>4, <1>6 DEF SInv, OneStream, NeverAskedAgain, StopsForGood,
     NeverLeftIdle, Unrefused

LEMMA ModuleInitInv ==
  ASSUME SInv, ModuleInit
  PROVE  SInv'
<1>1. CASE Connect(Wanted) /\ UNCHANGED <<timer, reconnectDelay>>
  <2>1. socket' = [state |-> "connecting", router |-> routerIndex, asked |-> Wanted,
                   accepted |-> FALSE]
    BY <1>1 DEF Connect
  <2>2. socket' \in SocketType
    BY <2>1 DEF SInv, StreamTypeOK, SocketType, Live
  <2>3. feeds' = Wanted /\ UNCHANGED <<configured, refused, latest, routerIndex, stopped, inactive>>
        /\ UNCHANGED <<timer, reconnectDelay>>
    BY <1>1 DEF ModuleInit
  <2>4. DOMAIN refused = {}
    BY DEF ModuleInit
  <2>5. StreamTypeOK'
    BY <2>2, <2>3 DEF SInv, StreamTypeOK, SocketType
  <2>6. ~timer /\ ~stopped
    BY DEF ModuleInit
  <2> QED
    BY <2>1, <2>3, <2>4, <2>5, <2>6, SomethingWanted DEF SInv, OneStream, NeverAskedAgain,
       StopsForGood, NeverLeftIdle, Unrefused, Live
<1>2. CASE ScheduleReconnect /\ UNCHANGED socket
  <2>1. timer' = TRUE /\ reconnectDelay' \in 1..MaxDelay
    BY <1>2, NextDelay DEF ScheduleReconnect, SInv, StreamTypeOK
  <2>2. feeds' = Wanted /\ UNCHANGED <<configured, refused, latest, routerIndex, stopped, inactive>>
        /\ UNCHANGED socket
    BY <1>2 DEF ModuleInit
  <2>3. DOMAIN refused = {} /\ socket.state = "none" /\ ~stopped
    BY DEF ModuleInit
  <2>4. timer' \in BOOLEAN
    BY <2>1
  <2>5. StreamTypeOK'
    BY <2>1, <2>2, <2>4 DEF SInv, StreamTypeOK
  <2> QED
    BY <2>1, <2>2, <2>3, <2>5 DEF SInv, OneStream, NeverAskedAgain, StopsForGood, NeverLeftIdle,
       Unrefused, Live
<1> QED
  BY <1>1, <1>2 DEF ModuleInit

LEMMA ReconnectInv ==
  ASSUME SInv, Reconnect
  PROVE  SInv'
<1>1. socket' = [state |-> "connecting", router |-> routerIndex, asked |-> feeds,
                 accepted |-> FALSE]
  BY DEF Reconnect, Connect
<1>2. socket' \in SocketType
  BY <1>1 DEF SInv, StreamTypeOK, SocketType, Live
<1>3. UNCHANGED <<configured, feeds, refused, latest, reconnectDelay, routerIndex, stopped,
                  inactive>>
  BY DEF Reconnect
<1>4. timer' = FALSE /\ timer /\ feeds # {}
  BY DEF Reconnect
<1>5. timer' \in BOOLEAN
  BY <1>4
<1>6. StreamTypeOK'
  BY <1>2, <1>3, <1>5 DEF SInv, StreamTypeOK, SocketType
<1> QED
  BY <1>1, <1>3, <1>4, <1>6 DEF SInv, OneStream, NeverAskedAgain, StopsForGood, NeverLeftIdle,
     Unrefused, Live

LEMMA ReconnectThrowsInv ==
  ASSUME SInv, ReconnectThrows
  PROVE  SInv'
<1>1. timer' = TRUE /\ reconnectDelay' \in 1..MaxDelay
  BY NextDelay DEF ReconnectThrows, ScheduleReconnect, SInv, StreamTypeOK
<1>2. UNCHANGED <<configured, feeds, refused, latest, socket, routerIndex, stopped, inactive>>
  BY DEF ReconnectThrows
<1>3. timer' \in BOOLEAN /\ timer
  BY <1>1 DEF ReconnectThrows
<1>4. StreamTypeOK'
  BY <1>1, <1>2, <1>3 DEF SInv, StreamTypeOK
<1> QED
  BY <1>1, <1>2, <1>3, <1>4 DEF SInv, OneStream, NeverAskedAgain, StopsForGood, NeverLeftIdle,
     Unrefused

LEMMA GiveUpInv ==
  ASSUME SInv, GiveUp
  PROVE  SInv'
<1>1. timer' = FALSE /\ feeds = {}
  BY DEF GiveUp
<1>2. UNCHANGED <<configured, feeds, refused, latest, socket, reconnectDelay, routerIndex, stopped,
                  inactive>>
  BY DEF GiveUp
<1>3. timer' \in BOOLEAN
  BY <1>1
<1>4. StreamTypeOK'
  BY <1>2, <1>3 DEF SInv, StreamTypeOK
<1> QED
  BY <1>1, <1>2, <1>4 DEF SInv, OneStream, NeverAskedAgain, StopsForGood, NeverLeftIdle, Unrefused

LEMMA OpenInv ==
  ASSUME SInv, NEW r \in 0..(Routers - 1), Open(r)
  PROVE  SInv'
<1>1. socket \in SocketType /\ socket' = [socket EXCEPT !.state = "open"]
      /\ socket.state = "connecting"
  BY DEF Open, SInv, StreamTypeOK, SocketType
<1>2. socket' \in SocketType /\ socket'.state = "open"
  BY <1>1 DEF SocketType, Live
<1>3. UNCHANGED <<configured, feeds, refused, latest, timer, routerIndex, stopped, inactive>>
      /\ reconnectDelay' \in 1..MaxDelay
  BY DEF Open
<1>4. StreamTypeOK'
  BY <1>2, <1>3 DEF SInv, StreamTypeOK, SocketType
<1> QED
  BY <1>1, <1>2, <1>3, <1>4 DEF SInv, OneStream, NeverAskedAgain, StopsForGood, NeverLeftIdle,
     Unrefused, Live

LEMMA CloseInv ==
  ASSUME SInv, NEW r \in 0..(Routers - 1), Close(r)
  PROVE  SInv'
<1>1. socket \in SocketType /\ socket' = [socket EXCEPT !.state = "closed"]
  BY DEF Close, SInv, StreamTypeOK, SocketType
<1>2. socket' \in SocketType /\ socket'.state = "closed"
  BY <1>1 DEF SocketType, Live
<1>3. UNCHANGED <<configured, feeds, refused, latest, stopped, inactive>>
  BY DEF Close
<1>4. CASE stopped
  <2>1. UNCHANGED <<timer, reconnectDelay, routerIndex>>
    BY <1>4 DEF Close
  <2>2. StreamTypeOK'
    BY <1>2, <1>3, <2>1 DEF SInv, StreamTypeOK, SocketType
  <2> QED
    BY <1>2, <1>3, <1>4, <2>1, <2>2 DEF SInv, OneStream, NeverAskedAgain, StopsForGood,
       NeverLeftIdle, Unrefused, Live
<1>5. CASE ~stopped
  <2>1. timer' = TRUE /\ reconnectDelay' \in 1..MaxDelay
    BY <1>5, NextDelay DEF Close, ScheduleReconnect, SInv, StreamTypeOK
  <2>2. routerIndex' = (routerIndex + 1) % Routers
    BY <1>5 DEF Close
  <2>3. routerIndex' \in Nat
    <3>0. routerIndex \in Nat
      BY DEF SInv, StreamTypeOK
    <3>1. routerIndex + 1 \in Nat
      BY <3>0
    <3>2. Routers \in Nat \ {0}
      OBVIOUS
    <3>3. (routerIndex + 1) % Routers \in 0..(Routers - 1)
      BY <3>1, <3>2
    <3> QED
      BY <2>2, <3>2, <3>3
  <2>4. timer' \in BOOLEAN
    BY <2>1
  <2>5. StreamTypeOK'
    BY <1>2, <1>3, <2>1, <2>3, <2>4 DEF SInv, StreamTypeOK, SocketType
  <2> QED
    BY <1>2, <1>3, <1>5, <2>1, <2>5 DEF SInv, OneStream, NeverAskedAgain, StopsForGood,
       NeverLeftIdle, Unrefused, Live
<1> QED
  BY <1>4, <1>5

LEMMA RefusalInv ==
  ASSUME SInv, NEW r, NEW notActive, NEW unentitled, Refusal(r, notActive, unentitled)
  PROVE  SInv'
<1> DEFINE named == notActive \cup unentitled
<1>1. /\ refused' = [f \in DOMAIN refused \cup (named \cap feeds) |->
                       IF f \in unentitled \cap feeds THEN "not entitled"
                       ELSE IF f \in named \cap feeds THEN "inactive" ELSE refused[f]]
      /\ feeds' = feeds \ named
  BY DEF Refusal, DropRefusedFeeds
<1>2. socket \in SocketType /\ socket' = [socket EXCEPT !.state = "closing"]
      /\ socket.state \in {"open", "closing"}
  BY DEF Refusal, Listening, SInv, StreamTypeOK, SocketType
<1>3. socket' \in SocketType /\ socket'.state = "closing"
  BY <1>2 DEF SocketType, Live
<1>4. UNCHANGED <<configured, latest, timer, reconnectDelay, routerIndex, stopped, inactive>>
  BY DEF Refusal
<1>5. DOMAIN refused' = DOMAIN refused \cup (named \cap feeds)
  BY <1>1
<1>6. \A f \in DOMAIN refused' : refused'[f] \in {"inactive", "not entitled"}
  BY <1>1, <1>5 DEF SInv, StreamTypeOK
<1>7. feeds' \subseteq Wanted /\ DOMAIN refused' \subseteq Wanted
  BY <1>1, <1>5 DEF SInv, StreamTypeOK
<1>8. StreamTypeOK'
  BY <1>3, <1>4, <1>6, <1>7 DEF SInv, StreamTypeOK, SocketType
<1>9. Unrefused'
  BY <1>1, <1>5 DEF SInv, Unrefused
<1> QED
  BY <1>2, <1>3, <1>4, <1>8, <1>9 DEF SInv, OneStream, NeverAskedAgain, StopsForGood,
     NeverLeftIdle, Live

LEMMA PriceInv ==
  ASSUME SInv, NEW r, Price(r)
  PROVE  SInv'
<1>1. PICK age \in 0..Lag : latest' = [age |-> age, feeds |-> socket.asked \ inactive]
  BY DEF Price
<1>2. socket \in SocketType /\ socket' = [socket EXCEPT !.accepted = TRUE]
      /\ socket.state \in {"open", "closing"}
  BY DEF Price, Listening, SInv, StreamTypeOK, SocketType
<1>3. socket' \in SocketType /\ socket'.state = socket.state
  BY <1>2 DEF SocketType
<1>4. latest' \in Messages
  BY <1>1, <1>2 DEF Messages, SocketType
<1>5. UNCHANGED <<configured, feeds, refused, timer, reconnectDelay, routerIndex, stopped, inactive>>
  BY DEF Price
<1>6. StreamTypeOK'
  BY <1>3, <1>4, <1>5 DEF SInv, StreamTypeOK, SocketType
<1> QED
  BY <1>2, <1>3, <1>5, <1>6 DEF SInv, OneStream, NeverAskedAgain, StopsForGood, NeverLeftIdle,
     Unrefused, Live

LEMMA DestroyInv ==
  ASSUME SInv, Destroy
  PROVE  SInv'
<1>1. stopped' = TRUE /\ timer' = FALSE
  BY DEF Destroy
<1>2. UNCHANGED <<configured, feeds, refused, latest, reconnectDelay, routerIndex, inactive>>
  BY DEF Destroy
<1>3. socket \in SocketType
  BY DEF SInv, StreamTypeOK, SocketType
<1>4. socket' \in SocketType /\ socket'.state \in {"closing", "none", "closed"}
  BY <1>3 DEF Destroy, SocketType, Live
<1>5. stopped' \in BOOLEAN /\ timer' \in BOOLEAN
  BY <1>1
<1>6. StreamTypeOK'
  BY <1>2, <1>4, <1>5 DEF SInv, StreamTypeOK, SocketType
<1> QED
  BY <1>1, <1>2, <1>4, <1>6 DEF SInv, OneStream, NeverAskedAgain, StopsForGood, NeverLeftIdle,
     Unrefused, Live

(* A session, the clock and the requests leave the connection alone. *)
LEMMA ElsewhereInv ==
  ASSUME SInv, latest' \in Messages \cup {NoPrice}, inactive' \subseteq Wanted,
         UNCHANGED <<configured, feeds, refused, socket, timer, reconnectDelay, routerIndex, stopped>>
  PROVE  SInv'
<1>1. StreamTypeOK'
  BY DEF SInv, StreamTypeOK
<1> QED
  BY <1>1 DEF SInv, OneStream, NeverAskedAgain, StopsForGood, NeverLeftIdle, Unrefused

LEMMA AgesInv ==
  ASSUME SInv, Ages
  PROVE  SInv'
<1>1. latest \in Messages \cup {NoPrice} /\ inactive \subseteq Wanted
  BY DEF SInv, StreamTypeOK
<1>2. latest' \in Messages \cup {NoPrice}
  <2>1. CASE latest = NoPrice
    BY <2>1 DEF Ages, Aged
  <2>2. CASE latest # NoPrice
    <3>1. latest \in Messages /\ latest' = [latest EXCEPT !.age = Smaller(@ + 1, MaxAge + 1)]
      BY <1>1, <2>2 DEF Ages, Aged
    <3>2. Smaller(latest.age + 1, MaxAge + 1) \in 0..(MaxAge + 1)
      BY <3>1 DEF Messages, Smaller
    <3> QED
      BY <3>1, <3>2 DEF Messages
  <2> QED
    BY <2>1, <2>2
<1> QED
  BY <1>1, <1>2, ElsewhereInv DEF Ages

-----------------------------------------------------------------------------
(* The quotes *)

Entries ==
  {e \in [age : Nat, left : 0..CacheTTL] : e.left > 0 => e.age + e.left <= CacheTTL + QuoteLatency}

Fetches == [key : Keys, made : BOOLEAN, age : 0..QuoteLatency]

EntriesOK == entries \in [Keys -> Entries \cup {NoQuote}]

QInv == EntriesOK /\ fetching \in [Askers -> Fetches \cup {NoQuote}]

LEMMA QuotesInitInv ==
  ASSUME QuotesInit
  PROVE  QInv
BY DEF QuotesInit, QInv, EntriesOK

LEMMA QuotesKept ==
  ASSUME QInv, UNCHANGED quotes
  PROVE  QInv'
BY DEF QInv, EntriesOK, quotes

LEMMA CachedQuoteIsRecent ==
  ASSUME QInv, NEW k \in Keys, CachedQuote(k) # NoQuote
  PROVE  CachedQuote(k) <= CacheTTL + QuoteLatency
<1>1. entries[k] \in Entries /\ entries[k].left > 0 /\ CachedQuote(k) = entries[k].age
  BY DEF QInv, EntriesOK, CachedQuote
<1> QED
  BY <1>1, QuotesAssumption DEF QuotesAssumption, Entries

LEMMA SweptInv ==
  ASSUME EntriesOK
  PROVE  Swept \in [Keys -> Entries \cup {NoQuote}]
BY DEF EntriesOK, Swept

(* A request to Jupiter. *)
LEMMA AskJupiterInv ==
  ASSUME QInv, NEW r \in Askers, NEW k \in Keys, AskJupiter(r, k)
  PROVE  fetching' \in [Askers -> Fetches \cup {NoQuote}]
<1>1. [key |-> k, made |-> FALSE, age |-> 0] \in Fetches
  BY QuotesAssumption DEF QuotesAssumption, Fetches
<1> QED
  BY <1>1 DEF QInv, AskJupiter

LEMMA QuoteMadeInv ==
  ASSUME QInv, NEW r \in Askers, QuoteMade(r)
  PROVE  QInv'
<1>1. fetching[r] \in Fetches
  BY DEF QInv, QuoteMade
<1>2. [fetching[r] EXCEPT !.made = TRUE] \in Fetches
  BY <1>1 DEF Fetches
<1>3. fetching' = [fetching EXCEPT ![r] = [fetching[r] EXCEPT !.made = TRUE]] /\ UNCHANGED entries
  BY DEF QuoteMade
<1> QED
  BY <1>2, <1>3 DEF QInv, EntriesOK

LEMMA QuoteArrivesInv ==
  ASSUME QInv, NEW r \in Askers, QuoteArrives(r)
  PROVE  QInv' /\ fetching[r].age <= CacheTTL + QuoteLatency
<1> USE QuotesAssumption DEF QuotesAssumption
<1>1. fetching[r] \in Fetches
  BY DEF QInv, QuoteArrives
<1>2. [age |-> fetching[r].age, left |-> CacheTTL] \in Entries
  BY <1>1 DEF Fetches, Entries
<1>3. EntriesOK'
  BY <1>2 DEF QInv, EntriesOK, QuoteArrives
<1>4. fetching' \in [Askers -> Fetches \cup {NoQuote}]
  BY DEF QInv, QuoteArrives
<1>5. fetching[r].age <= CacheTTL + QuoteLatency
  BY <1>1 DEF Fetches
<1> QED
  BY <1>3, <1>4, <1>5 DEF QInv

LEMMA QuoteFailsInv ==
  ASSUME QInv, NEW r \in Askers, QuoteFails(r)
  PROVE  QInv'
BY DEF QInv, EntriesOK, QuoteFails

LEMMA QuotesAgeInv ==
  ASSUME QInv, QuotesAge
  PROVE  QInv'
<1> USE QuotesAssumption DEF QuotesAssumption
<1>1. ASSUME NEW r \in Askers, fetching[r] # NoQuote
      PROVE  [fetching[r] EXCEPT !.age = @ + 1] \in Fetches
  <2>1. fetching[r] \in Fetches /\ fetching[r].age < QuoteLatency
    BY <1>1 DEF QInv, QuotesAge
  <2> QED
    BY <2>1 DEF Fetches
<1>2. fetching' \in [Askers -> Fetches \cup {NoQuote}]
  BY <1>1 DEF QInv, QuotesAge
<1>3. Expired \in Entries
  BY DEF Expired, Entries
<1>4. ASSUME NEW k \in Keys, entries[k] # NoQuote, ~(entries[k].left <= 1)
      PROVE  [age |-> entries[k].age + 1, left |-> entries[k].left - 1] \in Entries
  <2>1. entries[k] \in Entries
    BY <1>4 DEF QInv, EntriesOK
  <2> QED
    BY <1>4, <2>1 DEF Entries
<1>5. EntriesOK'
  BY <1>3, <1>4 DEF QInv, EntriesOK, QuotesAge
<1> QED
  BY <1>2, <1>5 DEF QInv

-----------------------------------------------------------------------------
(* The mint *)

States == [multiplier : Multipliers, next : Multipliers, pending : BOOLEAN, age : Nat]

(* An account that was read some time ago is the mint as it is, or a change *)
(* was announced since, after the account's own had landed.                 *)
Answered(account, age) ==
  \/ account = mint
  \/ /\ account.due <= 0
     /\ mint.multiplier = account.new
     /\ mint.due >= Notice - age

(* What a state that was read some time ago says of the mint: both of its   *)
(* multipliers, or the one that is in force until an announced change lands *)
(* later than the state is served.  One that no longer waits for the change  *)
(* saw it land, by the clock it was read with.                              *)
Current(account, state, clock) ==
  /\ state.next = account.new
  /\ IF state.pending THEN state.multiplier = account.multiplier
     ELSE state.multiplier = account.new /\ account.due <= clock

Overtaken(account, state) ==
  /\ state.next = account.multiplier
  /\ ~state.pending => state.multiplier = state.next
  /\ account.due >= Notice - state.age

Told(state) == Current(mint, state, ahead) \/ Overtaken(mint, state)

Served == [state : States, left : 0..TTL]

CacheOK ==
  cache # None =>
    cache \in Served /\ cache.state.age + cache.left <= TTL + Latency /\ Told(cache.state)

Reads == [account : Accounts \cup {None}, age : 0..Latency]

ReadOK(r) == read[r] # None /\ read[r].account # None => Answered(read[r].account, read[r].age)

MintOK == mint \in Accounts /\ ahead \in (-Skew)..Skew

MInv ==
  /\ MintOK
  /\ CacheOK
  /\ read \in [Readers -> Reads \cup {None}]
  /\ \A r \in Readers : ReadOK(r)

LEMMA MintInitInv ==
  ASSUME MintInit
  PROVE  MInv
<1> USE MintStateAssumption DEF MintStateAssumption
<1>1. PICK m \in Multipliers : mint = [multiplier |-> m, new |-> m, due |-> -Skew]
  BY DEF MintInit
<1>2. MintOK
  BY <1>1 DEF MintInit, MintOK, Accounts
<1>3. read \in [Readers -> Reads \cup {None}] /\ \A r \in Readers : read[r] = None
  BY DEF MintInit
<1>4. CacheOK
  BY DEF MintInit, CacheOK
<1> QED
  BY <1>2, <1>3, <1>4 DEF MInv, ReadOK

LEMMA MintsKept ==
  ASSUME MInv, UNCHANGED mints
  PROVE  MInv'
BY DEF MInv, mints, MintOK, CacheOK, Told, Current, Overtaken, ReadOK, Answered

(* What is served is recent, and true of the mint as it is. *)
LEMMA CachedIsGood ==
  ASSUME MInv, Cached # None
  PROVE  Cached \in States /\ Cached.age <= TTL + Latency /\ Told(Cached)
<1>1. cache # None /\ cache.left > 0 /\ Cached = cache.state
  BY DEF Cached
<1>2. cache \in Served /\ cache.state.age + cache.left <= TTL + Latency /\ Told(cache.state)
  BY <1>1 DEF MInv, CacheOK
<1>3. cache.state.age \in Nat /\ cache.left \in Nat /\ cache.state \in States
  BY <1>2 DEF Served, States
<1> QED
  BY <1>1, <1>2, <1>3, MintStateAssumption DEF MintStateAssumption

LEMMA ScheduleInv ==
  ASSUME MInv, NEW m \in Multipliers, Schedule(m)
  PROVE  MInv'
<1> USE MintStateAssumption DEF MintStateAssumption
<1>1. mint \in Accounts /\ mint.due <= 0
  BY DEF MInv, MintOK, Schedule
<1>2. mint' = [multiplier |-> mint.new, new |-> m, due |-> Notice]
  BY <1>1 DEF Schedule, InForce, Accounts
<1>3. UNCHANGED <<ahead, cache, read>>
  BY DEF Schedule
<1>4. MintOK'
  BY <1>1, <1>2, <1>3 DEF MInv, MintOK, Accounts
<1>5. CacheOK'
  <2>1. SUFFICES ASSUME cache # None PROVE Told(cache.state)'
    BY <1>3 DEF MInv, CacheOK, Told, Current, Overtaken
  <2>2. /\ cache \in Served /\ cache.state.age + cache.left <= TTL + Latency
        /\ Told(cache.state)
    BY <2>1 DEF MInv, CacheOK
  <2>3. cache.state.age \in Nat /\ cache.left \in Nat
    BY <2>2 DEF Served, States
  <2>4. ~Overtaken(mint, cache.state)
    BY <1>1, <2>2, <2>3 DEF Overtaken, Accounts
  <2>5. Current(mint, cache.state, ahead)
    BY <2>2, <2>4 DEF Told
  <2>6. cache.state.next = mint.new
        /\ (~cache.state.pending => cache.state.multiplier = mint.new)
    BY <2>5 DEF Current
  <2>7. mint'.multiplier = mint.new /\ mint'.due >= Notice - cache.state.age
    BY <1>2, <2>3
  <2>8. Overtaken(mint, cache.state)'
    BY <1>3, <2>6, <2>7 DEF Overtaken
  <2> QED
    BY <2>8 DEF Told
<1>6. ASSUME NEW r \in Readers PROVE ReadOK(r)'
  <2>1. SUFFICES ASSUME read[r] # None, read[r].account # None
                 PROVE  Answered(read[r].account, read[r].age)'
    BY <1>3 DEF ReadOK
  <2>2. read[r] \in Reads /\ Answered(read[r].account, read[r].age)
    BY <2>1 DEF MInv, ReadOK
  <2>3. read[r].account \in Accounts /\ read[r].age \in 0..Latency
    BY <2>1, <2>2 DEF Reads
  <2>4. read[r].account = mint
    BY <1>1, <2>2, <2>3 DEF Answered, Accounts
  <2>5. mint'.multiplier = mint.new /\ mint'.due >= Notice - read[r].age
    BY <1>2, <2>3
  <2> QED
    BY <1>1, <1>3, <2>4, <2>5 DEF Answered
<1> QED
  BY <1>3, <1>4, <1>5, <1>6 DEF MInv

LEMMA AskMintsInv ==
  ASSUME MInv, NEW r \in Readers, AskMints(r)
  PROVE  MInv'
<1> USE MintStateAssumption DEF MintStateAssumption
<1>1. [account |-> None, age |-> 0] \in Reads
  BY DEF Reads
<1>2. UNCHANGED <<mint, ahead, cache>> /\ read' = [read EXCEPT ![r] = [account |-> None, age |-> 0]]
  BY DEF AskMints
<1>3. read' \in [Readers -> Reads \cup {None}]
  BY <1>1, <1>2 DEF MInv
<1>4. ASSUME NEW s \in Readers PROVE ReadOK(s)'
  <2>1. CASE s = r
    BY <1>2, <2>1 DEF MInv, ReadOK
  <2>2. CASE s # r
    BY <1>2, <2>2 DEF MInv, ReadOK, Answered
  <2> QED
    BY <2>1, <2>2
<1>5. CacheOK' /\ MintOK'
  BY <1>2 DEF MInv, MintOK, CacheOK, Told, Current, Overtaken
<1> QED
  BY <1>3, <1>4, <1>5 DEF MInv

LEMMA AnswerInv ==
  ASSUME MInv, NEW r \in Readers, Answer(r)
  PROVE  MInv'
<1> USE MintStateAssumption DEF MintStateAssumption
<1>1. [account |-> mint, age |-> 0] \in Reads
  BY DEF Reads, MInv, MintOK
<1>2. UNCHANGED <<mint, ahead, cache>> /\ read' = [read EXCEPT ![r] = [account |-> mint, age |-> 0]]
  BY DEF Answer
<1>3. read' \in [Readers -> Reads \cup {None}]
  BY <1>1, <1>2 DEF MInv
<1>4. ASSUME NEW s \in Readers PROVE ReadOK(s)'
  <2>1. CASE s = r
    BY <1>2, <2>1 DEF MInv, ReadOK, Answered
  <2>2. CASE s # r
    BY <1>2, <2>2 DEF MInv, ReadOK, Answered
  <2> QED
    BY <2>1, <2>2
<1>5. CacheOK' /\ MintOK'
  BY <1>2 DEF MInv, MintOK, CacheOK, Told, Current, Overtaken
<1> QED
  BY <1>3, <1>4, <1>5 DEF MInv

LEMMA ReadFailsInv ==
  ASSUME MInv, NEW r \in Readers, ReadFails(r)
  PROVE  MInv'
<1>1. UNCHANGED <<mint, ahead, cache>> /\ read' = [read EXCEPT ![r] = None]
  BY DEF ReadFails
<1>2. read' \in [Readers -> Reads \cup {None}]
  BY <1>1 DEF MInv
<1>3. ASSUME NEW s \in Readers PROVE ReadOK(s)'
  BY <1>1 DEF MInv, ReadOK, Answered
<1>4. CacheOK' /\ MintOK'
  BY <1>1 DEF MInv, MintOK, CacheOK, Told, Current, Overtaken
<1> QED
  BY <1>2, <1>3, <1>4 DEF MInv

(* What is read from an answer is true of the mint, by the clock that reads *)
(* it.                                                                      *)
LEMMA ArrivesInv ==
  ASSUME MInv, NEW r \in Readers, Arrives(r)
  PROVE  /\ MInv'
         /\ (cache.state \in States /\ cache.state.age <= TTL + Latency /\ Told(cache.state))'
<1> USE MintStateAssumption DEF MintStateAssumption
<1> DEFINE account == read[r].account
           state == [Read(account) EXCEPT !.age = read[r].age]
<1>1. /\ read[r] \in Reads /\ account \in Accounts /\ read[r].age \in 0..Latency
      /\ Answered(account, read[r].age)
  BY DEF MInv, ReadOK, Arrives, Reads
<1>2. mint \in Accounts /\ ahead \in (-Skew)..Skew
  BY DEF MInv, MintOK
<1>3. cache' = [state |-> state, left |-> TTL] /\ read' = [read EXCEPT ![r] = None]
      /\ UNCHANGED <<mint, ahead>>
  BY DEF Arrives
<1>4. state = [multiplier |-> IF ahead < account.due THEN account.multiplier ELSE account.new,
               next |-> account.new, pending |-> ahead < account.due, age |-> read[r].age]
  BY DEF Read
<1> HIDE DEF state, account
<1>5. state \in States
  BY <1>1, <1>4 DEF States, Accounts
<1>6. Told(state)
  <2>1. CASE account = mint
    <3>1. CASE ahead < account.due
      <4>1. state.next = mint.new /\ state.multiplier = mint.multiplier /\ state.pending = TRUE
        BY <1>4, <2>1, <3>1
      <4> QED
        BY <4>1 DEF Told, Current
    <3>2. CASE ~(ahead < account.due)
      <4>1. state.next = mint.new /\ state.multiplier = mint.new
        BY <1>4, <2>1, <3>2
      <4>2. ~state.pending
        BY <1>4, <3>2
      <4>3. mint.due <= ahead
        BY <1>2, <2>1, <3>2 DEF Accounts
      <4> QED
        BY <4>1, <4>2, <4>3 DEF Told, Current
    <3> QED
      BY <3>1, <3>2
  <2>2. CASE account # mint
    <3>1. /\ mint.multiplier = account.new
          /\ mint.due >= Notice - read[r].age
      BY <1>1, <2>2 DEF Answered
    <3>2. state.next = account.new /\ state.age = read[r].age
          /\ state.pending = (ahead < account.due)
      BY <1>4
    <3>3. ~state.pending => state.multiplier = account.new
      BY <1>4
    <3> QED
      BY <3>1, <3>2, <3>3 DEF Told, Overtaken
  <2> QED
    BY <2>1, <2>2
<1>7. PICK s : s = state
  OBVIOUS
<1>8. Told(s)'
  BY <1>3, <1>6, <1>7 DEF Told, Current, Overtaken
<1>9. cache' \in Served /\ cache'.state = s /\ cache'.left = TTL
  BY <1>3, <1>5, <1>7 DEF Served
<1>10. s.age = read[r].age
  BY <1>4, <1>7
<1>11. s.age + TTL <= TTL + Latency /\ s.age <= TTL + Latency
  BY <1>1, <1>10
<1>12. Told(cache.state)'
  BY <1>8, <1>9 DEF Told, Current, Overtaken
<1>13. CacheOK'
  BY <1>8, <1>9, <1>11 DEF CacheOK, Told, Current, Overtaken
<1>14. MintOK'
  BY <1>3 DEF MInv, MintOK
<1>15. read' \in [Readers -> Reads \cup {None}]
  BY <1>3 DEF MInv
<1>16. ASSUME NEW q \in Readers PROVE ReadOK(q)'
  BY <1>3 DEF MInv, ReadOK, Answered
<1>17. MInv'
  BY <1>13, <1>14, <1>15, <1>16 DEF MInv
<1> QED
  BY <1>5, <1>7, <1>9, <1>11, <1>12, <1>17

(* The mint as it is and as it was answered grow older together. *)
LEMMA LaterAccount ==
  ASSUME NEW account \in Accounts
  PROVE  /\ Later(account) \in Accounts
         /\ Later(account).multiplier = account.multiplier
         /\ Later(account).new = account.new
         /\ Later(account).due <= account.due
         /\ Later(account).due >= account.due - 1
<1> USE MintStateAssumption DEF MintStateAssumption
<1>1. account.due \in (-Skew)..Notice
  BY DEF Accounts
<1>2. Later(account) = [account EXCEPT !.due = IF @ > -Skew THEN @ - 1 ELSE @]
  BY DEF Later
<1>3. CASE account.due > -Skew
  <2>1. Later(account) = [account EXCEPT !.due = account.due - 1]
    BY <1>2, <1>3
  <2>2. account.due - 1 \in (-Skew)..Notice
    BY <1>1, <1>3
  <2> QED
    BY <1>1, <2>1, <2>2 DEF Accounts
<1>4. CASE ~(account.due > -Skew)
  <2>1. Later(account) = account
    BY <1>2, <1>4 DEF Accounts
  <2> QED
    BY <1>1, <2>1
<1> QED
  BY <1>3, <1>4

LEMMA MintsAgeInv ==
  ASSUME MInv, MintsAge
  PROVE  MInv'
<1> USE MintStateAssumption DEF MintStateAssumption
<1>1. mint \in Accounts /\ mint' = Later(mint) /\ UNCHANGED ahead
  BY DEF MInv, MintOK, MintsAge
<1>2. /\ mint' \in Accounts /\ mint'.multiplier = mint.multiplier /\ mint'.new = mint.new
      /\ mint'.due <= mint.due /\ mint'.due >= mint.due - 1
  BY <1>1, LaterAccount
<1>3. mint.due \in Int /\ mint'.due \in Int
  BY <1>1, <1>2 DEF Accounts
<1>4. MintOK'
  BY <1>1, <1>2 DEF MInv, MintOK
<1>5. CacheOK'
  <2>1. CASE Cached = None \/ cache.left = 1
    BY <2>1 DEF MintsAge, CacheOK
  <2>2. CASE ~(Cached = None \/ cache.left = 1)
    <3>1. cache # None /\ cache.left > 0 /\ cache.left # 1
      BY <2>2 DEF Cached
    <3>2. /\ cache \in Served /\ cache.state.age + cache.left <= TTL + Latency
          /\ Told(cache.state)
      BY <3>1 DEF MInv, CacheOK
    <3>3. PICK s, t : s = cache.state /\ t = [s EXCEPT !.age = @ + 1]
      OBVIOUS
    <3>4. s \in States /\ s.age \in Nat /\ cache.left \in 0..TTL
      BY <3>2, <3>3 DEF Served, States
    <3>5. /\ t \in States /\ t.age = s.age + 1 /\ t.multiplier = s.multiplier /\ t.next = s.next
          /\ t.pending = s.pending
      BY <3>3, <3>4 DEF States
    <3>6. cache' = [state |-> t, left |-> cache.left - 1]
      BY <2>2, <3>3 DEF MintsAge
    <3>7. cache' \in Served /\ cache'.state = t /\ cache'.left = cache.left - 1
      BY <3>1, <3>4, <3>5, <3>6 DEF Served
    <3>8. Told(t)'
      <4>1. Current(mint, s, ahead) \/ Overtaken(mint, s)
        BY <3>2, <3>3 DEF Told, Current, Overtaken
      <4>2. CASE Current(mint, s, ahead)
        <5>1. mint.due <= ahead => mint'.due <= ahead'
          <6>1. ahead' = ahead /\ ahead \in Int
            BY DEF MintsAge, MInv, MintOK
          <6> QED
            BY <1>2, <1>3, <6>1
        <5>2. Current(mint, t, ahead)'
          BY <1>2, <3>5, <4>2, <5>1 DEF Current
        <5> QED
          BY <5>2 DEF Told
      <4>3. CASE Overtaken(mint, s)
        <5>1. mint'.due >= Notice - t.age
          BY <1>2, <1>3, <3>4, <3>5, <4>3 DEF Overtaken
        <5>2. Overtaken(mint, t)'
          BY <1>2, <3>5, <4>3, <5>1 DEF Overtaken
        <5> QED
          BY <5>2 DEF Told
      <4> QED
        BY <4>1, <4>2, <4>3
    <3>9. t.age + (cache.left - 1) <= TTL + Latency
      BY <3>2, <3>3, <3>4, <3>5
    <3> QED
      BY <3>7, <3>8, <3>9 DEF CacheOK, Told, Current, Overtaken
  <2> QED
    BY <2>1, <2>2
<1>6. /\ \A r \in Readers : read[r] # None => read[r].age < Latency
      /\ read' = [r \in Readers |->
                    IF read[r] = None \/ read[r].account = None THEN read[r]
                    ELSE [account |-> Later(read[r].account), age |-> read[r].age + 1]]
  BY DEF MintsAge
<1>7. ASSUME NEW r \in Readers PROVE read'[r] \in Reads \cup {None} /\ ReadOK(r)'
  <2>1. CASE read[r] = None \/ read[r].account = None
    BY <1>6, <2>1 DEF MInv, ReadOK
  <2>2. CASE ~(read[r] = None \/ read[r].account = None)
    <3>1. PICK a, b, n : a = read[r].account /\ b = Later(a) /\ n = read[r].age
      OBVIOUS
    <3>2. read'[r] = [account |-> b, age |-> n + 1] /\ n < Latency
      BY <1>6, <2>2, <3>1
    <3>3. read[r] \in Reads /\ Answered(a, n)
      BY <2>2, <3>1 DEF MInv, ReadOK
    <3>4. a \in Accounts /\ n \in 0..Latency
      BY <2>2, <3>1, <3>3 DEF Reads
    <3>5. b \in Accounts /\ b.new = a.new /\ b.due <= a.due /\ a.due \in Int /\ b.due \in Int
      BY <3>1, <3>4, LaterAccount DEF Accounts
    <3>6. Answered(b, n + 1)'
      <4>1. CASE a = mint
        BY <1>1, <3>1, <4>1 DEF Answered
      <4>2. CASE a # mint
        <5>1. a.due <= 0 /\ mint.multiplier = a.new /\ mint.due >= Notice - n
          BY <3>3, <4>2 DEF Answered
        <5>2. b.due <= 0 /\ mint'.multiplier = b.new
          BY <1>2, <3>5, <5>1
        <5>3. mint'.due >= Notice - (n + 1)
          BY <1>2, <1>3, <3>4, <5>1
        <5> QED
          BY <5>2, <5>3 DEF Answered
      <4> QED
        BY <4>1, <4>2
    <3>7. read'[r] \in Reads
      BY <3>2, <3>4, <3>5 DEF Reads
    <3> QED
      BY <3>2, <3>6, <3>7 DEF ReadOK, Answered
  <2> QED
    BY <2>1, <2>2
<1>8. read' \in [Readers -> Reads \cup {None}]
  BY <1>6, <1>7
<1> QED
  BY <1>4, <1>5, <1>7, <1>8 DEF MInv

(* A state that is told of the mint names what is in force, or what the     *)
(* relayer's clock takes for it.                                            *)
Truthful(account, state, clock) ==
  LET facts   == FactsFor(state)
      inForce == IF account.due <= 0 THEN account.new ELSE account.multiplier
  IN \/ facts.multiplier = inForce \/ facts.next = inForce
     \/ facts.multiplier = account.new /\ account.due \in 1..clock

LEMMA ToldIsTruthful ==
  ASSUME NEW account \in Accounts, NEW state \in States, NEW clock \in Int,
         state.age <= TTL + Latency, Current(account, state, clock) \/ Overtaken(account, state)
  PROVE  Truthful(account, state, clock)
<1> USE MintStateAssumption DEF MintStateAssumption
<1>1. account.due \in Int /\ state.age \in Nat
  BY DEF Accounts, States
<1>2. FactsFor(state).multiplier = state.multiplier
  BY DEF FactsFor
<1>3. ASSUME state.pending, state.next # state.multiplier
      PROVE  FactsFor(state).next = state.next
  BY <1>3 DEF FactsFor
<1>4. CASE Current(account, state, clock) /\ state.pending
  <2>1. state.next = account.new /\ state.multiplier = account.multiplier
    BY <1>4 DEF Current
  <2> QED
    BY <1>2, <1>3, <1>4, <2>1 DEF Truthful
<1>5. CASE Current(account, state, clock) /\ ~state.pending
  <2>1. state.multiplier = account.new /\ account.due <= clock
    BY <1>5 DEF Current
  <2>2. account.due <= 0 \/ account.due \in 1..clock
    BY <1>1, <2>1
  <2> QED
    BY <1>2, <2>1, <2>2 DEF Truthful
<1>6. CASE Overtaken(account, state)
  <2>1. /\ state.next = account.multiplier /\ (~state.pending => state.multiplier = state.next)
        /\ account.due >= Notice - state.age
    BY <1>6 DEF Overtaken
  <2>2. ~(account.due <= 0)
    BY <1>1, <2>1
  <2> QED
    BY <1>2, <1>3, <2>1, <2>2 DEF Truthful
<1> QED
  BY <1>4, <1>5, <1>6

-----------------------------------------------------------------------------
(* The requests *)

Kinds == {"order", "preview", "balances"}

Waits ==
  [kind : Kinds, at : {"quote", "swap", "mints", "accounts"}, waited : 0..Latency,
   state : States \cup {None}]

(* The state that waits for the accounts has grown as old as the wait. *)
WaitOK(request) ==
  request.at = "accounts" =>
    request.state \in States /\ request.state.age <= TTL + Latency + request.waited

RInv ==
  /\ stage \in [Readers -> Waits \cup {None}]
  /\ \A r \in Readers : stage[r] # None => WaitOK(stage[r])

HandedOK == NothingIsOld /\ FactsTrueOrEarly

LEMMA WaitingOK ==
  ASSUME NEW kind \in Kinds, NEW at \in {"quote", "swap", "mints"}
  PROVE  Waiting(kind, at, None) \in Waits /\ WaitOK(Waiting(kind, at, None))
BY MintStateAssumption DEF MintStateAssumption, Waiting, Waits, WaitOK

LEMMA NoneHanded ==
  ASSUME handed' = None
  PROVE  HandedOK'
BY DEF HandedOK, NothingIsOld, FactsTrueOrEarly

LEMMA AdvanceInv ==
  ASSUME RInv, NEW r \in Readers, NEW request \in Waits, WaitOK(request), Advance(r, request)
  PROVE  RInv' /\ HandedOK'
<1>1. stage' = [stage EXCEPT ![r] = request] /\ handed' = None
  BY DEF Advance
<1>2. RInv'
  BY <1>1 DEF RInv, WaitOK
<1> QED
  BY <1>1, <1>2, NoneHanded

LEMMA FreedInv ==
  ASSUME RInv, NEW r \in Readers, stage' = [stage EXCEPT ![r] = None]
  PROVE  RInv'
BY DEF RInv, WaitOK

LEMMA RefuseInv ==
  ASSUME RInv, NEW r \in Readers, Refuse(r)
  PROVE  RInv' /\ HandedOK'
BY FreedInv, NoneHanded DEF Refuse

LEMMA NothingHandedInv ==
  ASSUME RInv, NothingHanded
  PROVE  RInv' /\ HandedOK'
BY NoneHanded DEF NothingHanded, RInv, WaitOK

(* A quote is handed out on its own. *)
LEMMA QuoteHanded ==
  ASSUME RInv, NEW r \in Readers, NEW quote, quote <= CacheTTL + QuoteLatency,
         HandOut(r, "preview", quote, None)
  PROVE  RInv' /\ HandedOK'
<1>1. handed' = [kind |-> "preview", quote |-> quote, state |-> None]
  BY DEF HandOut
<1>2. RInv'
  BY FreedInv DEF HandOut
<1>3. handed'.kind # "order" /\ handed'.quote = quote /\ handed'.state = None
  BY <1>1
<1>4. NothingIsOld'
  BY <1>3 DEF NothingIsOld
<1>5. FactsTrueOrEarly'
  BY <1>3 DEF FactsTrueOrEarly
<1> QED
  BY <1>2, <1>4, <1>5 DEF HandedOK

(* So is a state, which is true of the mint if it is an order's. *)
LEMMA StateHanded ==
  ASSUME RInv, NEW r \in Readers, NEW kind, NEW state \in States,
         state.age <= TTL + 2 * Latency, kind = "order" => Truthful(mint, state, ahead)',
         HandOut(r, kind, NoQuote, state)
  PROVE  RInv' /\ HandedOK'
<1>1. handed' = [kind |-> kind, quote |-> NoQuote, state |-> state]
  BY DEF HandOut
<1>2. RInv'
  BY FreedInv DEF HandOut
<1>3. handed'.kind = kind /\ handed'.quote = NoQuote /\ handed'.state = state
  BY <1>1
<1>4. NothingIsOld'
  BY <1>3 DEF NothingIsOld
<1>5. FactsTrueOrEarly'
  BY <1>3 DEF FactsTrueOrEarly, Truthful, InForce
<1> QED
  BY <1>2, <1>4, <1>5 DEF HandedOK

LEMMA WithMintsInv ==
  ASSUME RInv, NEW r \in Readers, NEW kind, NEW state \in States, state.age <= TTL + Latency,
         MintOK', Told(state)', WithMints(r, kind, state)
  PROVE  RInv' /\ HandedOK'
<1> USE MintStateAssumption DEF MintStateAssumption
<1>1. state.age \in Nat
  BY DEF States
<1>2. CASE kind = "order" /\ HandOut(r, kind, NoQuote, state)
  <2>1. Truthful(mint, state, ahead)'
    BY ToldIsTruthful DEF MintOK, Told
  <2>2. state.age <= TTL + 2 * Latency
    BY <1>1
  <2> QED
    BY <1>2, <2>1, <2>2, StateHanded
<1>3. CASE kind = "balances" /\ Advance(r, Waiting(kind, "accounts", state))
  <2>1. Waiting("balances", "accounts", state)
          = [kind |-> "balances", at |-> "accounts", waited |-> 0, state |-> state]
    BY DEF Waiting
  <2>2. Waiting("balances", "accounts", state) \in Waits
    BY <2>1 DEF Waits, Kinds
  <2>3. WaitOK(Waiting("balances", "accounts", state))
    BY <1>1, <2>1 DEF WaitOK
  <2> QED
    BY <1>3, <2>2, <2>3, AdvanceInv
<1> QED
  BY <1>2, <1>3 DEF WithMints

-----------------------------------------------------------------------------
(* One step of one request *)

ReqInv == QInv /\ MInv /\ RInv

Kept == ReqInv' /\ HandedOK'

LEMMA OrderInv ==
  ASSUME ReqInv, NEW r \in Readers, NEW k \in Keys, Order(r, k)
  PROVE  Kept
<1> USE MarketAssumption DEF MarketAssumption
<1>1. MInv' /\ UNCHANGED entries
  BY MintsKept DEF ReqInv, Order
<1>2. CASE Advance(r, Waiting("order", "swap", None)) /\ UNCHANGED fetching
  <2>1. QInv'
    BY <1>1, <1>2, QuotesKept DEF ReqInv, quotes
  <2>2. RInv' /\ HandedOK'
    BY <1>2, WaitingOK, AdvanceInv DEF ReqInv, Kinds
  <2> QED
    BY <1>1, <2>1, <2>2 DEF Kept, ReqInv
<1>3. CASE AskJupiter(r, k) /\ Advance(r, Waiting("order", "quote", None))
  <2>1. QInv'
    BY <1>1, <1>3, AskJupiterInv DEF ReqInv, QInv, EntriesOK
  <2>2. RInv' /\ HandedOK'
    BY <1>3, WaitingOK, AdvanceInv DEF ReqInv, Kinds
  <2> QED
    BY <1>1, <2>1, <2>2 DEF Kept, ReqInv
<1> QED
  BY <1>2, <1>3 DEF Order, Quote

LEMMA PreviewInv ==
  ASSUME ReqInv, NEW r \in Readers, NEW k \in Keys, Preview(r, k)
  PROVE  Kept
<1> USE MarketAssumption DEF MarketAssumption
<1>1. MInv'
  BY MintsKept DEF ReqInv, Preview
<1>2. EntriesOK'
  BY SweptInv DEF ReqInv, QInv, EntriesOK, Preview
<1>3. CASE CachedQuote(k) # NoQuote /\ HandOut(r, "preview", CachedQuote(k), None)
           /\ UNCHANGED fetching
  <2>1. QInv'
    BY <1>2, <1>3 DEF ReqInv, QInv
  <2>2. RInv' /\ HandedOK'
    BY <1>3, CachedQuoteIsRecent, QuoteHanded DEF ReqInv
  <2> QED
    BY <1>1, <2>1, <2>2 DEF Kept, ReqInv
<1>4. CASE AskJupiter(r, k) /\ Advance(r, Waiting("preview", "quote", None))
  <2>1. QInv'
    BY <1>2, <1>4, AskJupiterInv DEF ReqInv, QInv
  <2>2. RInv' /\ HandedOK'
    BY <1>4, WaitingOK, AdvanceInv DEF ReqInv, Kinds
  <2> QED
    BY <1>1, <2>1, <2>2 DEF Kept, ReqInv
<1> QED
  BY <1>3, <1>4 DEF Preview, Quote

LEMMA JupiterInv ==
  ASSUME ReqInv, NEW r \in Readers, JupiterQuotes(r) \/ Quoted(r) \/ NotQuoted(r)
  PROVE  Kept
<1> USE MarketAssumption DEF MarketAssumption
<1>1. MInv'
  BY MintsKept DEF ReqInv, JupiterQuotes, Quoted, NotQuoted
<1>2. CASE JupiterQuotes(r)
  BY <1>1, <1>2, QuoteMadeInv, NothingHandedInv DEF Kept, ReqInv, JupiterQuotes
<1>3. CASE Quoted(r)
  <2>1. QInv' /\ fetching[r].age <= CacheTTL + QuoteLatency
    BY <1>3, QuoteArrivesInv DEF ReqInv, Quoted
  <2>2. CASE HandOut(r, "preview", fetching[r].age, None)
    BY <1>1, <2>1, <2>2, QuoteHanded DEF Kept, ReqInv
  <2>3. CASE Advance(r, Waiting("order", "swap", None))
    <3>1. RInv' /\ HandedOK'
      BY <2>3, WaitingOK, AdvanceInv DEF ReqInv, Kinds
    <3> QED
      BY <1>1, <2>1, <3>1 DEF Kept, ReqInv
  <2> QED
    BY <1>3, <2>2, <2>3 DEF Quoted
<1>4. CASE NotQuoted(r)
  BY <1>1, <1>4, QuoteFailsInv, RefuseInv DEF Kept, ReqInv, NotQuoted
<1> QED
  BY <1>2, <1>3, <1>4

(* Whoever asks for the mint's state, from the cache or from the cluster. *)
LEMMA MintsInv ==
  ASSUME ReqInv, NEW r \in Readers, NEW kind \in Kinds, Mints(r, kind), UNCHANGED quotes
  PROVE  Kept
<1>1. QInv'
  BY QuotesKept DEF ReqInv
<1>2. CASE Cached # None /\ WithMints(r, kind, Cached) /\ UNCHANGED mints
  <2>1. PICK state : state = Cached
    OBVIOUS
  <2>2. state \in States /\ state.age <= TTL + Latency /\ Told(state)
    BY <1>2, <2>1, CachedIsGood DEF ReqInv
  <2>3. MInv' /\ Told(state)'
    BY <1>2, <2>2, MintsKept DEF ReqInv, mints, Told, Current, Overtaken
  <2>4. RInv' /\ HandedOK'
    BY <1>2, <2>1, <2>2, <2>3, WithMintsInv DEF ReqInv, MInv
  <2> QED
    BY <1>1, <2>3, <2>4 DEF Kept, ReqInv
<1>3. CASE AskMints(r) /\ Advance(r, Waiting(kind, "mints", None))
  <2>1. MInv'
    BY <1>3, AskMintsInv DEF ReqInv
  <2>2. RInv' /\ HandedOK'
    BY <1>3, WaitingOK, AdvanceInv DEF ReqInv
  <2> QED
    BY <1>1, <2>1, <2>2 DEF Kept, ReqInv
<1> QED
  BY <1>2, <1>3 DEF Mints

LEMMA MintsReadInv ==
  ASSUME ReqInv, NEW r \in Readers, MintsRead(r)
  PROVE  Kept
<1>1. PICK state : state = cache'.state
  OBVIOUS
<1>2. /\ MInv' /\ state \in States /\ state.age <= TTL + Latency /\ Told(state)'
  BY <1>1, ArrivesInv DEF ReqInv, MintsRead, Told, Current, Overtaken
<1>3. QInv'
  BY QuotesKept DEF ReqInv, MintsRead
<1>4. RInv' /\ HandedOK'
  BY <1>1, <1>2, WithMintsInv DEF ReqInv, MintsRead, MInv
<1> QED
  BY <1>2, <1>3, <1>4 DEF Kept, ReqInv

LEMMA AccountsReadInv ==
  ASSUME ReqInv, NEW r \in Readers, AccountsRead(r)
  PROVE  Kept
<1> USE MintStateAssumption DEF MintStateAssumption
<1>1. QInv' /\ MInv'
  BY QuotesKept, MintsKept DEF ReqInv, AccountsRead
<1>2. CASE HandOut(r, "balances", NoQuote, stage[r].state)
  <2>1. stage[r] \in Waits /\ WaitOK(stage[r]) /\ stage[r].at = "accounts"
    BY DEF ReqInv, RInv, AccountsRead, Idle
  <2>2. PICK state : state = stage[r].state
    OBVIOUS
  <2>3. state \in States /\ state.age <= TTL + Latency + stage[r].waited
        /\ stage[r].waited \in 0..Latency
    BY <2>1, <2>2 DEF WaitOK, Waits
  <2>4. state.age \in Nat
    BY <2>3 DEF States
  <2>5. state.age <= TTL + 2 * Latency
    BY <2>3, <2>4
  <2>6. RInv' /\ HandedOK'
    BY <1>2, <2>2, <2>3, <2>5, StateHanded DEF ReqInv
  <2> QED
    BY <1>1, <2>6 DEF Kept, ReqInv
<1>3. CASE Refuse(r)
  BY <1>1, <1>3, RefuseInv DEF Kept, ReqInv
<1> QED
  BY <1>2, <1>3 DEF AccountsRead

LEMMA RequestStepInv ==
  ASSUME ReqInv, NEW r \in Readers, RequestStep(r)
  PROVE  Kept
<1>1. CASE \E k \in Keys : Order(r, k) \/ Preview(r, k)
  BY <1>1, OrderInv, PreviewInv
<1>2. CASE JupiterQuotes(r) \/ Quoted(r) \/ NotQuoted(r)
  BY <1>2, JupiterInv
<1>3. CASE Swapped(r) \/ Balances(r) \/ AssetTable(r)
  BY <1>3, MintsInv DEF Swapped, Balances, AssetTable, Kinds
<1>4. CASE NotSwapped(r)
  BY <1>4, QuotesKept, MintsKept, RefuseInv DEF NotSwapped, Kept, ReqInv
<1>5. CASE ClusterAnswers(r)
  <2>1. Answer(r) /\ NothingHanded /\ UNCHANGED quotes
    BY <1>5 DEF ClusterAnswers
  <2>2. MInv'
    BY <2>1, AnswerInv DEF ReqInv
  <2> QED
    BY <2>1, <2>2, QuotesKept, NothingHandedInv DEF Kept, ReqInv
<1>6. CASE MintsRead(r)
  BY <1>6, MintsReadInv
<1>7. CASE MintsNotRead(r)
  <2>1. ReadFails(r) /\ Refuse(r) /\ UNCHANGED quotes
    BY <1>7 DEF MintsNotRead
  <2>2. MInv'
    BY <2>1, ReadFailsInv DEF ReqInv
  <2> QED
    BY <2>1, <2>2, QuotesKept, RefuseInv DEF Kept, ReqInv
<1>8. CASE AccountsRead(r)
  BY <1>8, AccountsReadInv
<1> QED
  BY <1>1, <1>2, <1>3, <1>4, <1>5, <1>6, <1>7, <1>8 DEF RequestStep

LEMMA AnnounceInv ==
  ASSUME ReqInv, NEW m \in Multipliers, Announce(m)
  PROVE  Kept
<1>1. Schedule(m) /\ NothingHanded /\ UNCHANGED quotes
  BY DEF Announce
<1>2. MInv'
  BY <1>1, ScheduleInv DEF ReqInv
<1> QED
  BY <1>1, <1>2, QuotesKept, NothingHandedInv DEF Kept, ReqInv

LEMMA RequestsAgeInv ==
  ASSUME ReqInv, RequestsAge
  PROVE  Kept
<1> USE MintStateAssumption DEF MintStateAssumption
<1>1. QInv' /\ MInv'
  BY QuotesAgeInv, MintsAgeInv DEF ReqInv, RequestsAge
<1>2. stage' = [r \in Readers |->
        IF stage[r] = None \/ stage[r].at # "accounts" THEN stage[r]
        ELSE [stage[r] EXCEPT !.waited = @ + 1, !.state.age = @ + 1]]
  BY DEF RequestsAge, Idle
<1>3. ASSUME NEW r \in Readers, stage[r] # None, stage[r].at = "accounts"
      PROVE  stage'[r] \in Waits /\ WaitOK(stage'[r])
  <2>1. PICK w, s : w = stage[r] /\ s = stage[r].state
    OBVIOUS
  <2>2. w \in Waits /\ s \in States /\ s.age <= TTL + Latency + w.waited /\ w.waited < Latency
    BY <1>3, <2>1 DEF ReqInv, RInv, WaitOK, RequestsAge, Idle
  <2>3. PICK t : t = [s EXCEPT !.age = s.age + 1]
    OBVIOUS
  <2>4. t \in States /\ t.age = s.age + 1 /\ s.age \in Nat
    BY <2>2, <2>3 DEF States
  <2>5. stage'[r] = [w EXCEPT !.waited = w.waited + 1, !.state = t]
    BY <1>2, <1>3, <2>1, <2>2, <2>3 DEF Waits
  <2>6. w.waited \in 0..Latency
    BY <2>2 DEF Waits
  <2>7. stage'[r] \in Waits /\ stage'[r].waited = w.waited + 1 /\ stage'[r].state = t
    <3>1. w.waited + 1 \in 0..Latency /\ t \in States \cup {None}
      BY <2>2, <2>4, <2>6
    <3>2. stage'[r] = [kind |-> w.kind, at |-> w.at, waited |-> w.waited + 1, state |-> t]
      BY <2>2, <2>5 DEF Waits
    <3>3. w.kind \in Kinds /\ w.at \in {"quote", "swap", "mints", "accounts"}
      BY <2>2 DEF Waits
    <3> QED
      BY <3>1, <3>2, <3>3 DEF Waits
  <2>8. t.age <= TTL + Latency + (w.waited + 1)
    BY <2>2, <2>4, <2>6
  <2> QED
    BY <2>4, <2>7, <2>8 DEF WaitOK
<1>4. RInv'
  BY <1>2, <1>3 DEF ReqInv, RInv, WaitOK
<1> QED
  BY <1>1, <1>4, NoneHanded DEF Kept, ReqInv, RequestsAge

-----------------------------------------------------------------------------
(* The whole *)

IInv == SInv /\ ReqInv /\ HandedOK

LEMMA InitInv ==
  ASSUME MarketInit
  PROVE  IInv
<1>1. SInv
  BY SInvInit DEF MarketInit
<1>2. QInv /\ MInv
  BY QuotesInitInv, MintInitInv DEF MarketInit
<1>3. RInv
  BY DEF MarketInit, RInv
<1>4. HandedOK
  BY DEF MarketInit, HandedOK, NothingIsOld, FactsTrueOrEarly
<1> QED
  BY <1>1, <1>2, <1>3, <1>4 DEF IInv, ReqInv

LEMMA RouterStepInv ==
  ASSUME SInv, NEW r \in 0..(Routers - 1), RouterStep(r)
  PROVE  SInv'
BY OpenInv, CloseInv, RefusalInv, PriceInv DEF RouterStep, RefuseUnserved, RefuseOtherwise

LEMMA SessionInv ==
  ASSUME SInv, NEW f \in Wanted, Session(f)
  PROVE  SInv'
<1>1. latest \in Messages \cup {NoPrice} /\ inactive \subseteq Wanted
  BY DEF SInv, StreamTypeOK
<1>2. latest' \in Messages \cup {NoPrice} /\ inactive' \subseteq Wanted
  BY <1>1 DEF Session
<1> QED
  BY <1>2, ElsewhereInv DEF Session

LEMMA StreamKept ==
  ASSUME SInv, UNCHANGED stream
  PROVE  SInv'
<1>1. latest' \in Messages \cup {NoPrice} /\ inactive' \subseteq Wanted
  BY DEF SInv, StreamTypeOK, stream
<1> QED
  BY <1>1, ElsewhereInv DEF stream

(* What was handed out rests on the mint as it was then. *)
LEMMA RequestsKept ==
  ASSUME ReqInv, HandedOK, UNCHANGED <<mints, quotes, requests>>
  PROVE  Kept
<1>1. QInv' /\ MInv'
  BY QuotesKept, MintsKept DEF ReqInv
<1>2. RInv'
  BY DEF ReqInv, RInv, WaitOK, requests
<1>3. HandedOK'
  BY DEF HandedOK, NothingIsOld, FactsTrueOrEarly, InForce, mints, requests
<1> QED
  BY <1>1, <1>2, <1>3 DEF Kept, ReqInv

LEMMA StepInv ==
  ASSUME IInv, [Next]_vars
  PROVE  IInv'
<1>1. CASE UNCHANGED vars
  BY <1>1, StreamKept, RequestsKept DEF IInv, Kept, vars
<1>2. CASE /\ UNCHANGED stream
           /\ \/ \E r \in Readers : RequestStep(r)
              \/ \E m \in Multipliers : Announce(m)
              \/ RequestsAge
  <2>1. Kept
    BY <1>2, RequestStepInv, AnnounceInv, RequestsAgeInv DEF IInv
  <2> QED
    BY <1>2, <2>1, StreamKept DEF IInv, Kept
<1>3. CASE /\ \/ ModuleInit \/ Reconnect \/ ReconnectThrows \/ GiveUp \/ Destroy \/ Ages
              \/ \E r \in 0..(Routers - 1) : RouterStep(r)
              \/ \E f \in Wanted : Session(f)
           /\ UNCHANGED <<mints, quotes, requests>>
  <2>1. SInv'
    BY <1>3, ModuleInitInv, ReconnectInv, ReconnectThrowsInv, GiveUpInv, DestroyInv, AgesInv,
       RouterStepInv, SessionInv DEF IInv
  <2> QED
    BY <1>3, <2>1, RequestsKept DEF IInv, Kept
<1> QED
  BY <1>1, <1>2, <1>3 DEF Next, FollowStream

LEMMA AlwaysIInv == Spec => []IInv
<1>1. MarketInit => IInv
  BY InitInv
<1>2. IInv /\ [Next]_vars => IInv'
  BY StepInv
<1> QED
  BY <1>1, <1>2, PTL DEF Spec

(* The stream keeps its invariants for any table and any routers: there is  *)
(* one of it, a refused feed is not asked for again, a service that is      *)
(* stopped stays so and a running one is never left idle.  What is handed   *)
(* out is recent for any number of requests and any limits.                 *)
THEOREM Invariance == Spec => []Inv
<1>1. IInv => Inv
  BY DEF IInv, Inv, StreamInv, SInv, HandedOK
<1> QED
  BY <1>1, AlwaysIInv, PTL

(* The multiplier of an order is in force or the order names the one that   *)
(* is, whichever of overlapping reads wrote the cache last and whenever a   *)
(* change is announced, but for the ticks by which the relayer's clock is   *)
(* ahead, in which it may be the one about to land.  A change is announced  *)
(* further ahead than a state is served (MintStateAssumption).              *)
THEOREM FactsHold == Spec => []FactsTrueOrEarly
<1>1. IInv => FactsTrueOrEarly
  BY DEF IInv, HandedOK
<1> QED
  BY <1>1, AlwaysIInv, PTL
=============================================================================

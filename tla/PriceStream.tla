----------------------------- MODULE PriceStream ----------------------------
(***************************************************************************)
(* The relayer's stream of signed prices: pyth.service.ts.  One socket at a *)
(* time asks one of the configured routers for every feed still wanted, the *)
(* last message is kept whatever its age, and a socket that closes is       *)
(* replaced after a delay by one to the next router.                        *)
(*                                                                         *)
(* A message is its age and the feeds it prices.  The routers are the       *)
(* environment: a sound one answers in the end whatever it closed before,   *)
(* another may close, refuse or fail every time.  No router holds a         *)
(* connection open and silent for ever: the service has no way to notice.   *)
(***************************************************************************)
EXTENDS Naturals, FiniteSets

CONSTANTS
  Assets,     \* the assets of the table
  FeedOf,     \* the feed of each asset's regular session
  ExtFeedOf,  \* and of its extended hours, or NoFeed
  NoFeed,
  NoPrice,    \* no message yet; no attestation
  Entitled,   \* the feeds the account's grant covers
  Routers,    \* how many routers are configured, zero for none
  Sound,      \* those that answer in the end
  Lag,        \* how old a message may be when it arrives
  MaxAge,     \* MAX_ATTESTATION_AGE_SECONDS
  MaxDelay    \* MAX_RECONNECT_DELAY_MS, in reconnection delays

(* A message is not too old on arrival, or none would ever be attached. *)
ASSUME PriceStreamAssumption ==
  /\ Routers \in Nat
  /\ Sound \subseteq 0..(Routers - 1)
  /\ Lag \in Nat /\ MaxAge \in Nat /\ Lag <= MaxAge
  /\ MaxDelay \in Nat \ {0}
  /\ Assets # {}
  /\ NoFeed \notin {FeedOf[a] : a \in Assets}
  /\ NoPrice \notin [age : 0..(MaxAge + 1), feeds : SUBSET {FeedOf[a] : a \in Assets}]

(* wantedFeeds *)
Wanted == ({FeedOf[a] : a \in Assets} \cup {ExtFeedOf[a] : a \in Assets}) \ {NoFeed}

VARIABLES
  configured,      \* a token and at least one router
  feeds,           \* the feeds currently asked for
  refused,         \* the feeds a router refused, with its reason
  latest,          \* the last message
  socket,          \* the socket: how far it is, its router and what it asked
  timer,           \* a reconnection is scheduled
  reconnectDelay,  \* the next delay
  routerIndex,     \* the router to try next
  stopped,         \* onModuleDestroy was called
  inactive         \* the feeds whose session is closed, at Pyth

stream == <<configured, feeds, refused, latest, socket, timer, reconnectDelay, routerIndex,
            stopped, inactive>>

NoSocket == [state |-> "none", router |-> 0, asked |-> {}, accepted |-> FALSE]

Live == {"connecting", "open", "closing"}

Messages == [age : 0..(MaxAge + 1), feeds : SUBSET Wanted]

-----------------------------------------------------------------------------
(* Reading the last message. *)

(* attestation *)
Attestation == IF latest # NoPrice /\ latest.age <= MaxAge THEN latest ELSE NoPrice

-----------------------------------------------------------------------------
(* Connecting. *)

Smaller(m, n) == IF m <= n THEN m ELSE n

Init ==
  /\ configured \in (IF Routers = 0 THEN {FALSE} ELSE BOOLEAN)
  /\ feeds = {}
  /\ refused = << >>
  /\ latest = NoPrice
  /\ socket = NoSocket
  /\ timer = FALSE
  /\ reconnectDelay = 1
  /\ routerIndex = 0
  /\ stopped = FALSE
  /\ inactive \in SUBSET Wanted

(* scheduleReconnect *)
ScheduleReconnect ==
  /\ timer' = TRUE
  /\ reconnectDelay' = Smaller(2 * reconnectDelay, MaxDelay)

(* Mutant: what is asked for is the whole table again. *)
ConnectToAll(asked) ==
  socket' = [state |-> "connecting", router |-> routerIndex, asked |-> Wanted, accepted |-> FALSE]

(* connect, when the constructor does not throw. *)
Connect(asked) ==
  socket' = [state |-> "connecting", router |-> routerIndex, asked |-> asked, accepted |-> FALSE]

(* onModuleInit.  Without a token or a router nothing else happens. *)
ModuleInit ==
  /\ configured /\ ~stopped
  /\ socket.state = "none" /\ ~timer /\ feeds = {} /\ refused = << >>
  /\ feeds' = Wanted
  /\ \/ Connect(Wanted) /\ UNCHANGED <<timer, reconnectDelay>>
     \/ ScheduleReconnect /\ UNCHANGED socket
  /\ UNCHANGED <<configured, refused, latest, routerIndex, stopped, inactive>>

(* The reconnection's timer: connect. *)
Reconnect ==
  /\ timer /\ feeds # {}
  /\ timer' = FALSE
  /\ Connect(feeds)
  /\ UNCHANGED <<configured, feeds, refused, latest, reconnectDelay, routerIndex, stopped, inactive>>

(* The same, and the constructor throws: the router stays the next one. *)
ReconnectThrows ==
  /\ timer /\ feeds # {}
  /\ ScheduleReconnect
  /\ UNCHANGED <<configured, feeds, refused, latest, socket, routerIndex, stopped, inactive>>

(* The same, with every feed refused: the service gives up. *)
GiveUp ==
  /\ timer /\ feeds = {}
  /\ timer' = FALSE
  /\ UNCHANGED <<configured, feeds, refused, latest, socket, reconnectDelay, routerIndex, stopped,
                 inactive>>

(* The socket opens: the subscription is sent. *)
Open(r) ==
  /\ socket.state = "connecting" /\ socket.router = r
  /\ socket' = [socket EXCEPT !.state = "open"]
  /\ reconnectDelay' = 1
  /\ UNCHANGED <<configured, feeds, refused, latest, timer, routerIndex, stopped, inactive>>

(* Mutant: the same router again. *)
CloseSameRouter(r) ==
  /\ socket.state \in Live /\ socket.router = r
  /\ socket' = [socket EXCEPT !.state = "closed"]
  /\ IF stopped THEN UNCHANGED <<timer, reconnectDelay>> ELSE ScheduleReconnect
  /\ UNCHANGED <<configured, feeds, refused, latest, routerIndex, stopped, inactive>>

(* The socket closes, whoever asked for it, or never opened. *)
Close(r) ==
  /\ socket.state \in Live /\ socket.router = r
  /\ socket' = [socket EXCEPT !.state = "closed"]
  /\ IF stopped
     THEN UNCHANGED <<timer, reconnectDelay, routerIndex>>
     ELSE ScheduleReconnect /\ routerIndex' = (routerIndex + 1) % Routers
  /\ UNCHANGED <<configured, feeds, refused, latest, stopped, inactive>>

-----------------------------------------------------------------------------
(* Messages.  They arrive until the close event, also on a socket that is   *)
(* being closed.                                                            *)

Unserved(asked) == (asked \ Entitled) \cup (asked \cap inactive)

Listening(r) == socket.state \in {"open", "closing"} /\ socket.router = r

(* dropRefusedFeeds: of the feeds the reason names, those still asked for.  *)
DropRefusedFeeds(named, unentitled) ==
  /\ refused' = [f \in DOMAIN refused \cup (named \cap feeds) |->
                   IF f \in unentitled \cap feeds THEN "not entitled"
                   ELSE IF f \in named \cap feeds THEN "inactive" ELSE refused[f]]
  /\ feeds' = feeds \ named

(* onMessage: a refusal, with the feeds each clause of its reason names.    *)
(* Naming none is any other error.                                          *)
Refusal(r, notActive, unentitled) ==
  /\ Listening(r)
  /\ DropRefusedFeeds(notActive \cup unentitled, unentitled)
  /\ socket' = [socket EXCEPT !.state = "closing"]
  /\ UNCHANGED <<configured, latest, timer, reconnectDelay, routerIndex, stopped, inactive>>

(* A router refuses the whole subscription over any feed it cannot serve,   *)
(* naming each.                                                             *)
RefuseUnserved(r) ==
  /\ ~socket.accepted /\ Unserved(socket.asked) # {}
  /\ Refusal(r, socket.asked \cap inactive, socket.asked \ Entitled)

(* Or it names some of them, or none. *)
RefuseOtherwise(r) ==
  \E named \in SUBSET (Unserved(socket.asked)) :
    Refusal(r, named \cap Entitled, named \ Entitled)

(* onMessage: a price replaces the last one, whatever their times.  A feed  *)
(* whose session closed is not in it.                                       *)
Price(r) ==
  /\ Listening(r)
  /\ socket.accepted \/ Unserved(socket.asked) = {}
  /\ \E age \in 0..Lag : latest' = [age |-> age, feeds |-> socket.asked \ inactive]
  /\ socket' = [socket EXCEPT !.accepted = TRUE]
  /\ UNCHANGED <<configured, feeds, refused, timer, reconnectDelay, routerIndex, stopped, inactive>>

-----------------------------------------------------------------------------
(* The rest of the world. *)

(* onModuleDestroy *)
Destroy ==
  /\ ~stopped
  /\ stopped' = TRUE
  /\ timer' = FALSE
  /\ socket' = IF socket.state \in Live THEN [socket EXCEPT !.state = "closing"] ELSE socket
  /\ UNCHANGED <<configured, feeds, refused, latest, reconnectDelay, routerIndex, inactive>>

(* A session opens or closes. *)
Session(f) ==
  /\ inactive' = (inactive \ {f}) \cup ({f} \ inactive)
  /\ UNCHANGED <<configured, feeds, refused, latest, socket, timer, reconnectDelay, routerIndex,
                 stopped>>

(* Time passes. *)
Aged(message) ==
  IF message = NoPrice THEN NoPrice ELSE [message EXCEPT !.age = Smaller(@ + 1, MaxAge + 1)]

Ages ==
  /\ latest' = Aged(latest)
  /\ UNCHANGED <<configured, feeds, refused, socket, timer, reconnectDelay, routerIndex, stopped,
                 inactive>>

RouterStep(r) ==
  Open(r) \/ Close(r) \/ RefuseUnserved(r) \/ RefuseOtherwise(r) \/ Price(r)

ServiceStep == ModuleInit \/ Reconnect \/ ReconnectThrows \/ GiveUp \/ Destroy

StreamNext ==
  \/ ServiceStep
  \/ \E r \in 0..(Routers - 1) : RouterStep(r)
  \/ \E f \in Wanted : Session(f)

-----------------------------------------------------------------------------
(* What a stream may be relied on for. *)

StreamTypeOK ==
  /\ configured \in BOOLEAN /\ timer \in BOOLEAN /\ stopped \in BOOLEAN
  /\ feeds \subseteq Wanted /\ inactive \subseteq Wanted
  /\ DOMAIN refused \subseteq Wanted
  /\ \A f \in DOMAIN refused : refused[f] \in {"inactive", "not entitled"}
  /\ latest \in Messages \cup {NoPrice}
  /\ socket \in [state : Live \cup {"none", "closed"}, router : Nat, asked : SUBSET Wanted,
                 accepted : BOOLEAN]
  /\ reconnectDelay \in 1..MaxDelay
  /\ routerIndex \in Nat

(* There is one stream: no reconnection is scheduled while a socket is      *)
(* still connecting, open or being closed (pyth.service.ts:284-287: the     *)
(* refusal leaves the reconnection to the close handler).                   *)
OneStream == timer => socket.state \notin Live

(* A feed a router refused is not asked for again, whatever the reason it   *)
(* gave (pyth.service.ts:107-112, of the code as it was: "the service       *)
(* resubscribed to the refused feeds forever").  That holds for one whose   *)
(* session was merely closed too, although the comment at :379-381 says it  *)
(* "comes back on its own": nothing takes a refusal back.                   *)
NeverAskedAgain ==
  socket.state = "connecting" => socket.asked # {} /\ socket.asked \cap DOMAIN refused = {}

(* A service that was stopped neither schedules nor opens anything.         *)
StopsForGood == stopped => ~timer /\ socket.state \notin {"connecting", "open"}

(* A running service with something left to ask for is never left without a *)
(* socket or a timer, whatever closed, threw or refused.                    *)
NeverLeftIdle == feeds # {} /\ ~stopped => timer \/ socket.state \in Live

StreamInv ==
  StreamTypeOK /\ OneStream /\ NeverAskedAgain /\ StopsForGood /\ NeverLeftIdle
=============================================================================

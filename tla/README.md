# PixStock in TLA+

PixStock buys and sells tokenised stocks from a key that lives on an offline
phone. A web page builds an order through the relayer and shows it as animated
QR codes; the vault, a PWA on a phone in airplane mode, reads them, checks the
transaction, signs it and shows the signature back; the page hands the
signature to the relayer, which co-signs as fee payer, broadcasts and reports
what the cluster made of it.

This directory holds TLA+ specifications of that system, the TLC runs that
check them and proofs of their main invariants. `PROJECT.json` names, for every
definition, the lines of the source it stands for.

## The system's parts

| part | where | state | operations |
|---|---|---|---|
| Orders | `apps/relayer/src/modules/orders` | table `Order` | create, submitSignature, find, settle |
| Nonce pool | `.../nonces`, `cli/nonce-pool.ts` | table `NonceAccount` | reserve, release, releaseAbandoned, create |
| Relayer key | `.../relayer` | none | simulate, broadcast, status, confirm |
| Transaction builder | `.../tx-builder` | none | build, split a basket |
| Price stream | `.../pyth` | socket, feeds, latest message | connect, onMessage, reconnect, attestation |
| Mint state and balances | `.../market`, `.../vaults` | five-minute cache | factsFor, balances |
| Quotes | `.../quotes` | ten-second cache | quote, swapInstructions |
| Controllers, health, configuration | `apps/relayer/src` | none | the HTTP routes |
| AGQP | `packages/agqp` | a frame assembler per scan | encode, push, reset, response |
| Transaction policy | `packages/tx-policy` | none | applyPolicy, buildTicket, disclose |
| Price verification | `packages/pyth-verify` | none | verify, checkAttestation, pairLegs |
| Vault cryptography | `packages/vault-crypto` | an encrypted blob | lock, unlock, signWith |
| Vault app: setup and settings | `apps/vault` | screen, stored blob, credential, tolerance | setup, restore, pair, reveal, erase |
| Vault app: scan, review, sign | `apps/vault` | camera, session in hand, verdict | scan, review, acknowledge, sign |
| Signing page | `apps/web/app/sign`, `components` | poll, frame loop, camera | poll, animate, scan, submit |
| Catalogue and portfolio pages | `apps/web` | the stored address, two forms, holdings | edit, quote, send, pair |
| Shared tables and amounts | `packages/shared` | none | the assets, the bounds of a multiplier, scaling |

How they interact. The page calls the relayer over HTTP and polls an order
every second and a half while it is open. The relayer's handlers share nothing
but the database: they are asynchronous functions, any number of them run at a
time, and a handler that waits for the database, the RPC node or the quote
service lets every other run. The nonce-pool command is a second process on the
same tables. The page and the vault share only what a camera sees.

What is hard about it: handlers act on rows they read before other handlers
wrote them, and write by id without a condition; the outcome of a broadcast is
known only by asking, of a node that may show blocks that are later abandoned;
a process may die between the cluster's step and the row's; a durable nonce
makes a signed order valid for ever, so who holds which nonce value decides who
can execute; across the gap frames are lost, repeated, reordered and mixed with
those of another session, and the price that was good when the code was shown
is old when the holder approves; what a phone waits for (a slow key derivation,
a biometric, a camera's prompt) arrives on whatever screen is open by then; a
page asks for quotes and holdings at every edit and gets the answers in any
order; a relayer reads a multiplier once and uses it for five minutes.

What makes each part correct:

- orders: CONFIRMED is the truth, FAILED "rejected" is the truth, a transaction
  leaves only after its signature is stored, and in order; nothing sent is
  forgotten; an order in flight is settled in the end; no handler takes an
  order back.
- nonce pool: a value is given to one order, an order that may still execute
  keeps its account, a confirmed one does not.
- air gap: what is submitted for an order is a signature over that order's
  message that the holder approved; a payload is assembled only from frames of
  one session; a camera that was closed stays closed.
- policy and review: nothing that breaks a rule is signed, the amounts on the
  ticket are the amounts the message moves, what the holder was shown is what
  was checked, and an order the relayer builds is one the vault will take.
- vault: what is stored opens; no open screen loses a key whose address was
  given out, or writes over a vault that cannot be read; what is revealed goes
  off the screen.
- price stream: one socket, no refused feed asked for again, and a stream that
  dropped comes back.
- mint state: a multiplier handed out is the one in force, or the one that is
  has been announced with it.
- web: what is drawn, when nothing is under way any more, belongs to what is on
  the form and to the address stored; a form waits for one order at a time.

## Modules

| module | models | EXTENDS |
|---|---|---|
| `Cluster` | the chain and its RPC node, as the relayer's calls depend on them (external) | |
| `NoncePool` | `nonces.service.ts`, `nonce-pool.ts`, the two tables | `Cluster` |
| `OrdersService` | `orders.service.ts` with `relayer.service.ts`, `relayer-policy.ts` and what `tx-builder.service.ts` decides | `NoncePool` |
| `Relayer` | all of them together: `Next`, `Spec`, fairness, properties, the inductive invariant | `OrdersService` |
| `OrderLifecycle` | what an order on a durable nonce promises, without the machinery | |
| `Assembler` | `packages/agqp`: frames, their cycle, the session lock, the chunks | |
| `Scanner` | `useFrameScanner.ts` with `Scan.tsx`: the camera of the vault | `Assembler` |
| `AirGap` | the signing page, the phone from Scan to Sign, and their calls to the relayer | `Assembler`, an instance of `OrderLifecycle` |
| `Crossing` | what the air gap promises, without pages, cameras or calls | |
| `TxPolicy` | `packages/tx-policy` and the tables of `packages/shared`: decompiler, rules, ticket | |
| `Payload` | `packages/agqp/payload.ts`: what travels of a request, and what is refused | |
| `PriceCheck` | `packages/pyth-verify`: verify, checkAttestation, tolerances | |
| `Review` | `Review.tsx`, `Sign.tsx`, `ticket.ts`, `settings.ts`: the holder's way to a signature | `TxPolicy`, instances of `Payload` and `PriceCheck` |
| `OrderBuilding` | what `tx-builder.service.ts` compiles and `create` writes in the manifest | `TxPolicy` |
| `OrderReview` | the relayer's order before the vault's review | `Review`, `OrderBuilding` |
| `VaultApp` | `App.tsx`, `Setup.tsx`, `Restore.tsx`, `Settings.tsx`, storage and the vault's cryptography as operations | |
| `PriceStream` | `pyth.service.ts` | |
| `MintState` | `mint-state.service.ts` with the mint it reads | |
| `Quotes` | `jupiter.service.ts`: the cache | |
| `Market` | the three of them and the requests that use them | all three |
| `OrderForm` | `TradeForm.tsx` and `BasketBuilder.tsx` | |
| `Web` | the forms with the stored address, the pairing camera and the holdings | `OrderForm` |
| `MC...` | symmetry, orders and constants for TLC | the module they check |
| `Relayer_proofs`, `Scanner_proofs`, `AirGap_proofs`, `Review_proofs`, `VaultApp_proofs`, `Market_proofs`, `Web_proofs` | the theorems | the module, `TLAPS` |
| `Assembler_proofs` | lemmas about `Push` and `Done`, used by `Scanner_proofs` and `AirGap_proofs` | `Assembler`, `TLAPS` |

### The relayer

**State.** `order`, `recorded`, `inUse` and `holder` are the two tables;
`reservation[o]` is the program counter and the locals of the create handler of
order `o`; `req[r]` those of a submit or find handler in slot `r`; `cli` those
of the command. `opened`, `value`, `head` and `tx` are the chain: `value` is
what an account has at commitment "confirmed", `head` at "processed".

**Atomicity.** An action is one database statement or RPC with the code up to
the next await, because that is what runs alone in Node. A refusal writes only
the audit trail, which is not modelled, so it is a guard. `Throws`,
`CreateThrows`, `RelayerCrashes` and `CliDies` end a handler at any await:
memory goes, the tables stay.

**Histories.** Four variables record what the code's comments leave out, and no
guard reads them. `overlapped`: the orders that had two submissions past the
policy at once. `interrupted`: the orders of which a submission was cut short by
a fault, or lost an answer. `refused`: the orders an error was shown of.
`loose`: the accounts that went through one of three races, two creates that
chose the same free row (`ChosenTwice`), a `release` (`FreedByCommand`), and a
release for an error in a block that was not final (`FreedEarly`). Nothing in
the code prevents any of the four; the runs have each where it matters, and the
properties say exactly what each costs. The comments of the code that they
contradict are quoted under "What the models show of the code".

**Data.** A message is its place in the order; its nonce account and the value
it was built on are what decides whether it can execute. A transaction is named
by its message, since its bytes and so its signature never change: sending it
twice is sending one transaction. Amounts, quotes and accounts do not matter
to an order's life and are left out; that a build, a simulation or an execution
may fail is a choice.

### The air gap

**State of the scanner.** `stream`, `running` and `asm` are the three refs of
the hook, `source` is the video's `srcObject`, `status` the state that is
rendered. `pc[s]` is where the s-th press on Start has got to in `start` and in
the loop it leaves behind, `late` the loops whose twenty seconds are over,
`live` the cameras the browser has on. The refs are shared by every `start`
that has not returned: that is the whole difficulty, and why a camera is named
after the `start` that opened it.

**Atomicity.** An action is what runs between two awaits: the button up to the
permission, the permission up to `play`, `play` up to the first `detect`, a
frame up to the next `requestAnimationFrame`. The test of `running.current` is
at the head of a tick only, so a frame that is being decoded when Stop is
pressed is still pushed.

`hasty` is a history variable: it becomes true when something is pressed (or
pasted, or left) while a permission or a `play` is pending, and when Reset or a
second Start is pressed while a loop runs. The code does not prevent any of it,
and what it then does is in the model: the assembled payload is still right
(`AssembledWhole` has no such condition), the camera is not. With an early press,
leaving the screen during the prompt leaves the granted camera on, because the
cleanup has run (`useFrameScanner.ts:85` returns with the stream in the ref);
Stop during the prompt stops nothing; two starts leave one camera that no
`stop` can reach; and Reset shows "Camera off" (`Scan.tsx:55`) over a loop that
goes on. The camera properties say what holds without.

**State of the crossing.** `shown`, `index`, `submitted` and `polls` are a
page's: where it is, its frame, the order it was last told, the answers under
way. `call[c]` is a submission between page and relayer. `screen`, `asm`,
`scanned` are the phone's; `request[m]` and `confirm[m]` are the order and the
`confirm()` of the m-th `Sign`, kept after Cancel because the promise is:
`setReply` of an unmounted `Sign` does nothing, which is `StillThere`.
`replies` and `approved` are history: a reply once shown can be photographed,
pasted or held up later.

**What stands for what.** The relayer is `OrderLifecycle`, instantiated on the
same `status`, `executed`, `refused` and `overlapped`; the theorem
`LifecycleRefined` shows that the relayer keeps that promise (its own instance
is on `Shown` and `Landed`, what can be seen of its rows and of the cluster). A
call is a submission there: `Admit` is the read of the row and the policy,
`Accept` the write of the signature, and other calls come between, so two
submissions may both pass R8, write over each other, and answer in any order.
The camera reads one frame at a time and any scan may start
over: `Scanner` is the detail of that. A reply names its session; its signature
is right for the order whose message that session carried, so the relayer
accepts the reply of another page of the same order, and it is the page that
refuses it. What the review finds is the set `Signable`: `Review` is the detail
of that. Restore, Pair and Settings are other ways to leave Scan and come back,
which is `StartOver`; `VaultApp` is the detail of those.

**Data.** A session is named by its page: two pages never draw the same three
bytes. That is the one thing here that is only very likely in the code. A chunk
is named by the session it is a part of, so an assembly that mixes two payloads
is visible, and `Whole` says that it did not. Everything `parseFrame` refuses
is `Garbage`.

### The order from builder to signature

`TxPolicy`, `Payload`, `PriceCheck` and `OrderBuilding` are functions of their
arguments, as the packages are. An address is a model value, the token account
of an owner and a mint is a pair, a message is a list of keys and instructions
that point into it: the policy works on the message's own indices, and so does
the model, so that an instruction on the wrong account is a different value.
Amounts are numbers, prices exact fractions: no rounding hides a comparison.

`Review` puts them on a screen. `delivered` is what the scan handed over, with
the time it was carried; `drawnAt` is when the screen was last drawn. The
verdict of the policy is computed once per payload; the price's age is that of
the drawing, because nothing redraws the screen as the clock goes on: the box
to tick and a radio that comes on do. `now` moves between any two steps. The
signing screen (`stage = "sign"`) does not look at the price again. Leaving
either screen, or closing the app, leaves the codes on the page, and the same
order can be scanned again under another tolerance.

`OrderReview` has the relayer's builder produce the orders, so that the two
ends, which share the tables but no logic, are held against each other. What the
relayer may be asked, what the mints may say, the prices and the times are
constants (`Requests`, `FactTables`, `Prices`, `Times`), and `Relayed` is every
order built from them; `OrderReviewAssumption` says what a page asks for.
`StaticKeys` leaves out of the message what a lookup table has, signers and
called programs excepted, as `compileToV0Message` does; which order the other
keys come in is not fixed (`Enumerate`), and nothing depends on it.

### The phone

`VaultApp` is what `App` switches between. What a screen started goes on after
it closes: `creating[key]` is where the creation of each key has got to, also
when its screen is gone, and `mine` the one the mounted screen waits for;
`opening` is the unlock of Restore and whether its screen is still there
(`here`); `camera.asked` a prompt that is open. A camera granted to a prompt whose
screen is gone is not followed (see "Not modelled"). Closing the app ends all of it (`Reload`); the storage stays, or is
damaged (`Damage`).

Two history variables record what the code does not cancel. `stray` becomes true
when an operation whose screen had closed stores a blob, and when a screen is
left that had stored one and was not done; closing the app clears it. `lost`
has the keys that such a blob, or damage, took off the phone. It does happen:
Restore is one tap away from a Setup that derives a key, and a key that was being
made is stored over whatever the holder restored meanwhile. The properties say
that nothing else loses a key or replaces a text that cannot be read.

### The relayer's view of the market

`PriceStream` is a socket with the router it tries, the back-off, the feeds
refused, and the last message, which is its age and what it prices. `MintState`
is the cache, and each reader's place between the two awaits of `factsFor`;
`Quotes` the cache of quotes and each asker's. Times are relative (how long ago
something was read, how long until a change lands), so the states are finite
though time has no end. `Market` composes them: create takes mint facts and
quotes and attaches the price. The stream and the requests share no state, so a
behaviour follows one or the other (`followed`), which is all their interleaving
would show.

### The web app

`OrderForm` is either form: what is typed, the pricings under way, each with
what it was asked for, and the orders sent. `Web` has the address of this
browser, which all tabs share, and reads of the holdings with the address they
were made for. A page that is left keeps its promises; what they set afterwards
goes nowhere, except `router.push`, which moves whatever page is shown.

## Runs

| run | expects | shows |
|---|---|---|
| `relayer_races` | pass | two orders and one account: creates, submits, reads, the command, a fault and an abandoned block overlap; who may share or lose an account, what a rejection means |
| `relayer_settles` | pass | one order of one message or two, submitted twice at once, with the command, a fault and an abandoned block: what its row may say, the refinement of `OrderLifecycle`, the invariant the proofs use, and that an order in flight is settled |
| `scanner` | pass | two starts, two sessions of two frames, every button at every await; the payload is whole, the camera goes off |
| `airgap` | pass | two pages of one order and one of an order the review refuses, two crossings; whose reply the phone shows, refinement of `Crossing` |
| `airgap_answers` | pass | two submissions overlap in the relayer, from one page or from two; what a page is told, refinement of `Crossing` |
| `airgap_live` | pass | liveness: a locked scan ends, a page learns the end of its order |
| `review` | pass | orders as the relayer builds them and some forty changed on the way are reviewed and signed while the clock moves |
| `vault_app` | pass | keys are made, restored, shown and erased; screens left early, the app closed at any step, its storage damaged |
| `market` | pass | a stream over two routers; requests that read a mint across announced changes, through the cache |
| `web` | pass | edits, quotes, readings, sends and another tab cross; the screen settles on what is on the form |
| `cosigned_twice` | violation | two submissions of an order both pass R8 |
| `blockhash_order` | violation | an order without a nonce is refused at any age |

The first two are one model under two bounds. What `relayer_races` asks takes
two orders that want one account; each order has one submission at a time there.
What `relayer_settles` asks is about one order, whose submissions and reads
overlap. Everything else is on in both: the command, processed blocks of which
one is abandoned, and a fault, so neither turns off a hazard its properties are
about.

- `NonceSharedByRaceOnly` and `OrderKeepsNonce`: two orders share a nonce value,
  and an order that was not executed loses its account, only if the account is
  `loose`. So no crash, no lost answer, no repeated submission, no late settle
  and no expiry does it: a handler that dies before it writes BROADCAST leaves
  the account with its order, and one whose answer was lost and that writes
  FAILED does too. The three races do happen; "What the models show of the code"
  says how.
- `RejectedMeansError`: FAILED "rejected" is written only of an order the node
  has shown an error of.
- `ConfirmedMeansLanded`, `ConfirmedHoldsNothing`: CONFIRMED was executed and
  holds no account, whoever wrote it over what and whatever died in between.
- `NothingSentIsForgotten`: a transaction that left is in the row, or known to
  the handler, unless two submissions overlapped (they write over each other's
  signatures) or a handler of that order was cut short.
- `NothingLeavesUnsigned`, `FirstHalfFirst`: nothing is sent before its signature
  is stored, and the halves in order.
- `ImplementsLifecycle`: nobody is let in after the first signature was stored;
  an order with one submission at a time moves forward only, and its end stays,
  unless the cluster showed an error and executed it all the same; with two at a
  time, those who were let in together may write over one another.
- `BroadcastSettles`: an order in flight is settled, through a crash after the
  broadcast, polls that time out and a command that takes its account. There are
  two exceptions: a basket of two messages, of which one landed and the other,
  on the same nonce value, cannot; and an order two submissions of which overlapped.

Each violation run checks one sentence of the code's own comments, which
`PROJECT.json` quotes.

What each property of the later runs is about:

- `TicketIsTheMessage`: when no rule is broken, the ticket has a pair of lines
  for each swap of the message, with what that swap pays and receives; the
  relayer pays the fee and the vault authorises the swap. `SignedAsChecked`: an
  order that is signed broke no rule, and every swap between a priced asset and
  what is none was within the holder's tolerance of a genuine price young enough
  when drawn, or there was nothing to compare and the box was ticked. `DelegateIsDisclosed`:
  the ticket names, once for each asset, who can take it back.
  `RelayedOrderHasTime`: an order of one message that the relayer builds for this
  vault is read, breaks no rule, and a price young enough to attach (90 s) is not refused for its age
  for another thirty seconds. `AgeRefusalIsFinal`: an order once drawn with a
  price too old, or a retired signer, is never signed, however often it is
  scanned again.
- `ReplyIsCurrent`: a `confirm()` left behind by Cancel never shows its signature
  over another order. `NeverTakenBack`: the end a page was told is taken back by
  no poll, and by no answer but that to another submission of the same page, of
  an order that had two at once. `ImplementsCrossing`: the relayer lets in only
  submissions of orders the holder approved, none once a signature is stored.
  `PageLearnsTheEnd`: a page that was told BROADCAST is told the end, if it stays
  open and its order has one submission at a time.
- `HandedOutIsKept`: a key whose address was given out is on the phone or on
  paper, unless it was erased, or is in `lost`. `UnreadableIsNotReplaced`: nothing
  but a stray operation stores a blob over a text that cannot be read.
  `RevealedGoesAway`: see the end of `VaultApp`.
- `FactsTrueOrEarly`: the multiplier an order is built with is in force, or the
  order names the one that is as scheduled, or it is about to land within the
  time by which the relayer's clock is ahead; this needs changes announced longer
  ahead than the cache and a request last (`MintStateAssumption`), and not
  withdrawn. In the last case the order names no change, although a comment says
  that the ticket discloses one (see below).
  `Inv` of `Market` has the stream's invariants (one socket or one timer, no
  refused feed asked for, nothing after the stop, never idle with something to
  ask for) and that nothing handed out is older than its cache and its waits.
  `PriceComesBack`: a stream with a sound router replaces a price gone stale.
  That a refused feed is never asked for again is said of inactive ones too, of
  which a comment says that they come back (see below).
- `Inv` of `Web`: one pricing and one order to a form, and "All of it" is of the
  address stored, whichever reading answers last. The legs of an order come to no
  more than was typed and to less than a unit a leg under it
  (`SpendsNearTheTotal`): every share is rounded down and nobody gets the rest.
- `ScreenSettles`: once the answers are in, quotes and holdings are of what is
  on the form and of the address stored.

**Bounds.** `Orders` and `Requests` have at most two members and there is one
account: a race needs two handlers and one row, a wrong hand-over two orders and
one account. In `relayer_races` the command creates the account during the run.
`MaxMessages` is 2 in `relayer_settles`, since the builder never makes more.
`MaxAge` is at most 1: young and old. `MaxForks` and `MaxFaults` are 1.
`CreateLimit` bounds the creates that overlap and `SubmitLimit` the submissions
of one order that do: two, each in the run that asks about them; with both in
one run, or a third slot, TLC needs too long. `Symmetry` permutes orders and
slots, which no property of `relayer_races` tells apart; `relayer_settles` checks
liveness and uses none. The theorems need none of these bounds.

`scanner` has two starts, because what goes wrong between starts takes two, two
pages, because a foreign frame has to come from somewhere, and two frames, so
that an assembly can be half done. `airgap` and `airgap_answers` have payloads of
one frame: how a payload is assembled is `scanner`'s question, and with one
frame there is room for what is asked here. `airgap`: a page and its reload
showing the same order, whose replies the relayer could not tell apart; an order
the review refuses; and a second crossing begun while the first `confirm()`
waits; one submission. `airgap_answers`: two pages of one order, one crossing and
two submissions at once. Its two calls are alike and TLC uses their symmetry,
which is sound as every property of that run is about all of them. `airgap_live`
checks liveness, without symmetry, on one crossing and one submission with a payload of two
frames, so that a frame can be missed. `Crossings` bounds `Approve`, `Calls`
the submissions; the theorems need neither.

`review` has one payload in a behaviour, scanned as often as one likes: the
screen is mounted anew for each and keeps nothing from one to the next but the
stored tolerance, whose every value is an initial state. Its unit of time is
thirty seconds; orders are carried at five, the vault's limit is four and the
clock runs to ten, so that every price grows too old. One asset unit is one
share and a price is 200, so that a dollar more is half a percent: the amounts
of the orders lie on either side of each tolerance (the least the holder can choose, the warning,
the limit). Orders have one leg, two, or two messages. Each of the changed
orders is there for one rule of the policy, one refusal of the decoder or one
state of a price. `vault_app` has two keys to make, because a key that arrives
late takes another to do harm, and one sheet from before. Nothing bounds its
length. `market`: two routers, one that fails in every way; three feeds of
which one is refused and one is a second session of an asset; two requests,
since the cache is filled between one's question and its answer; a clock a tick
off; and the least notice that the assumption allows, `TTL + Latency + 1`.
`web`: three assets of which a form takes two; an amount that leaves a
remainder when it is shared out, one that rounds to nothing and none; two
pricings and two readings, because an answer is late only when there is another.

`CHECK_DEADLOCK FALSE` where the system rests: the relayer once every order has
been dealt with, a scanner after its last start, the air gap once every page is
closed, a review once the order is signed or rejected and the clock has run
out, a phone that asks for nothing.

**Fairness** of the relayer (`FairSpec`). A handler that can go on does (`WF` of `Handle`):
the event loop runs what is ready. The cluster executes what it can (`WF` of
`Execute`). An order in flight is read again and again (`SF` of `FindRead`):
the signing page polls while it is open, and `SF` because the reads of several
orders take turns. Nothing is assumed of people: nobody has to create, sign or
submit. The second message of a basket is never executed, fairness or not.

Fairness of the scanner: the browser answers `play` and `detect`, ticks run,
the clock goes on and an effect runs after its render. The permission is a
person's to give and has no fairness, nor has any button.

Fairness of the air gap: the page's timers run (`NextFrame`, `Poll`) and what
they asked is answered (`Polled`, for a final status: an answer BROADCAST
changes nothing), a submission is handled and answered (`WF` of `Handle`,
`Answered`), the cluster decides what was sent, and the relayer settles it (`WF`
of `Settles`, what `relayer_settles` shows).
A camera held at a screen sees every frame again and again and reads it in the
end: `SF` of `ReadAt`, since a frame is on the screen an eighth of a second at
a time (`scheduler.ts`: "a frame it missed comes back on the next pass"). It is
the camera's fairness, not its holder's: giving the scan up is one of the ways
a locked scan ends.

Fairness of the phone: the minute's timer fires (`WF` of `MinuteEnds`). Of the
price stream: the module starts, a closing socket closes (`WF`), the timer of a
reconnection fires each time it is set (`SF` of `Reconnect`), and a sound router
opens, names what it refuses and sends prices when it is asked again and again
(`SF`). Nothing is assumed of the other routers but that a connection does not
stay open and silent for ever: the service has no way to notice one. `review`
and `web` state safety only and need no fairness: `ScreenSettles` speaks of the
states in which nothing is under way.

## Proofs

### The relayer

`Relayer_proofs` proves, for every value of the constants that `ClusterAssumption`,
`NoncePoolAssumption`, `OrdersAssumption` and `RelayerAssumption` allow, that
`Spec` keeps `Inv`, and from it `TypeOK`, `ConfirmedMeansLanded`,
`ConfirmedHoldsNothing`, `NothingLeavesUnsigned` and `FirstHalfFirst`. No bound, no
discipline: any number of overlapping handlers, forks and crashes.

None of the four safety invariants is inductive. `Inv` adds

- `ChainInv`: an account's value only grows; a message that was executed was
  built on a value the account has left behind (`ExecutedIsBehind`), one shown
  as processed on the value it has now (`SeenIsCurrent`), and no two are shown
  for one account (`SeenIsAlone`). That is why one value has one execution
  although nothing keeps two orders from being built on it.
- `TableInv`: a row exists only once its reservation is over, its value is one
  the account had, and a BROADCAST row names all of its messages
  (`RowInv`); a reservation read a value no later than the present one
  (`ReservationInv`); an account without a row is held by nobody (`HolderInv`).
- `HandlerInv`: what each handler has established before its next write, so
  that a write by id from old data is still right when it lands: a handler that
  decided CONFIRMED has seen every message executed, and execution is not taken
  back; one that is past the release left no row with the order's id, and only
  a reservation that is over could put one there.

`InitInv` shows `Inv` at the start, `NextInv` that every action preserves it,
one lemma per part of the invariant and one step per action.

`FullInvariant` adds what the histories know, again for every value of the
constants and with nothing assumed of how handlers overlap:

- `HistoryInv`: what is not in a history has not happened: an order that is not
  in `overlapped` has one submission at most past the policy, an account that is
  not `loose` is chosen by one create at most.
- `OutcomeInv`: a handler that gives an order up has seen an error of it, or the
  order has no nonce and expired.
- `NonceInv` follows an account that is not `loose` from the read that finds it
  free, through the mark, to the execution that frees it: a reservation reads a
  free account, marks it at the value it read, and the order holds it at that
  value until one of its transactions is executed.
- `SendInv`: a transaction that is not in its row yet is known to the one handler
  that sends it.
- `StatusInv`: what a row may say when a handler writes it that never reads it
  again.

Each has a lemma for every step, on top of `Inv`. The action properties and
invariants then follow:

| theorem | of | because |
|---|---|---|
| `RejectionIsReal` | `RejectedMeansError` | `OutcomeInv` |
| `NoncesSharedByRaceOnly` | `NonceSharedByRaceOnly` | `NonceInv`: of two orders that hold one account at one value, one is executed, and the value with it is past (`SharedStep`) |
| `OrdersKeepNonces` | `OrderKeepsNonce` | `NonceInv` |
| `SentIsRemembered` | `NothingSentIsForgotten` | `SendInv` |
| `LifecycleRefined` | `ImplementsLifecycle` | `StatusInv` |

In the refinement a write of a row maps to one step of `OrderLifecycle` or to a
stutter (`WriteShown`, `OutcomeShown`), a submission's end to `Leave` of its slot,
a crash to `Leave` of all, an execution to `Execute`, `ShowError` or a stutter
(`ExecuteShown`), everything else to a stutter.

TLC checks `FullInv`, of which `Inv` is a part, in `relayer_settles`
(and the invariants of the other modules in their runs), so that the definition
the proofs use is also the one a finite instance satisfies.

Not proved: `BroadcastSettles` is liveness, which the prover does not handle.

### The scanner and the crossing

From `AssemblerAssumption` (each payload has at least one frame, and what is
refused is not a frame) `Assembler_proofs` proves that `Push` keeps an assembler
an assembler (`IsAssembler`) and pure (`Pure`: every chunk is of the locked
session and the total is its total), for a frame of any session and for
garbage, and that one that is pure and done is whole. Counting chunks, as
`session.ts:59` does, is enough because an index is within its frame's total
and the total is the session's.

`Scanner_proofs` proves `Inv` of `Scanner`: the types, `Pure(asm)`,
`AssembledWhole`, and `Calm` as long as `hasty` is false: one `start` at most is
under way; while it waits the screen is there and no loop runs; a loop that
runs has its own camera in the ref and no other is on. `LoopOwnsCamera` and
`NoCameraWhenGone` are not inductive: both follow from `Calm`. `AssembledWhole`
needs `Pure`, since what is in `asm` now is what will be handed over later.

`AirGap_proofs` proves `Inv` of `AirGap`: to `ReplyIsCurrent` it adds that
whatever was asked for, shown, kept or submitted is of an approved session and
only signable orders were approved (`RepliesApproved`, `CallsApproved`), and that
a page or a call that was told something was told it of a stored signature
(`ToldWasAccepted`). `Refinement` follows step by step: `Approve` maps to
`Approve` of the order of the scanned session (or to a stutter when another page
of the order was approved before), `Admit` to `Admit`, which needs
`CallsApproved`, that the order of a reply is the order of its call, and that no
signature is stored of an order that still awaits one; `Accept` to `Accept`;
everything else to a stutter. `WordKept` needs in addition
`AnswersInv`: of an order that never had two submissions at once one call at most
is past the policy (`OneCounts`), and a page that was told something was told it
by such a call (`ToldByACall`), so no second answer can be on its way to it.

Not proved: `CameraCloses`, `LockedScanCompletes` and `PageLearnsTheEnd` are
liveness. TLC checks them.

### The phone

`VaultApp_proofs` proves, for any number of keys and of sheets printed before,
`Inv` (`Invariance`), `HandedOutIsKept` (`HandedOutKept`) and
`UnreadableIsNotReplaced` (`Unreplaced`). `VaultAppAssumption` says that blobs,
"none" and a damaged text are different things. None of the three follows from
itself: that an open screen loses no key when it stores another needs that nobody
is on Setup or Restore with something stored that the screen did not just store,
and when an operation that outlived its screen stores one, what it overwrites has
to be recorded as lost. That takes knowing which screen each thing under way
belongs to. `IInv` says so in four parts: `Mounted`
(what is held belongs to the screen shown), `Finished` (a screen that says it is
done has stored something), `AtStake` (every key given out is safe but the one on
the screen, and that one is stored or safe) and, until something stray happens,
`Belongs` (what is stored on Setup or Restore the open screen has stored). TLC found `IInv` invariant before it was proved. Each action
has a lemma with a step for each part; the camera's and the rows' steps leave
what is kept alone (`Quiet`).

`Unreplaced` then needs no step of its own invariant: where something is stored
that cannot be read and nothing stray happens, `Belongs` leaves neither `Locked`
nor `Opened` possible, and nothing else stores a blob.

Not proved: `RevealedGoesAway` is liveness.

### The review

`Review_proofs` proves, for any orders, clocks, settings and signers that
`ReviewAssumption` and `TxPolicyAssumption` allow, `TypeOK` (`TypeCorrect`),
`AgeRefusalIsFinal` (`LateForGood`), `DelegateIsDisclosed` (`Disclosed`) and that
what is on the signing screen, or signed, is what the last drawing's approve
button allowed (`ByTheButtonAlone`). The invariant `RInv` says that a drawing
is of the past (`DrawnBefore`), with the tolerance that is stored
(`DrawnAsStored`), and that nothing is past the button that it did not allow
(`ButtonAllowed`). `LateForGood` needs one fact more, kept by every step once it
holds: an order whose price was too old when it was drawn is too old at any later
drawing, since time passes and the order does not change, so its button never
comes back.

`Disclosed` has no step: it follows from P11 and from how the ticket groups what
`disclose` finds, for every message the policy passes.

Neither has `TicketTellsTheMessage` (`TicketIsTheMessage`), which is about the
policy as a function. The policy picks the route instructions out of the message
in their order and compares the n-th with the manifest's n-th leg; `Swaps`
defines the n-th as the one with n route instructions up to it, and `NthExists`
shows that there is just one for each n up to their number. With P4 to P6 unbroken
there are as many legs as swaps (`SwapsOfMessage`) and the lines of the ticket
are those of the legs, with the amounts of the swaps (`TicketOfMessage`).

`OnlyCheckedIsSigned` (`SignedAsChecked`) adds the price. `RInv` says that the
button of the last drawing allowed what is past it; what a button that allows has
checked is `ButtonChecks`. The verdict compares the worst deviation of the
lines with the tolerance: `FarthestExists` shows that a finite list of
deviations has a farthest, `WorstDecides` that all are within when it is,
`FractionsCompare` that comparing fractions by their cross products is an
order. `ComparedIsTheSwap` identifies the line that is compared with the swap of
the message, by way of `TicketOfMessage`.

Both take from `ReviewAssumption` what the decoder guarantees of a request that
was read (`IsRequest`: lists are lists, amounts and multipliers are natural
numbers, no price is zero). No number of legs, instructions, assets or accounts
is bounded.

These are facts about data of any size, and the library's induction rules cannot
be used here. Where one is needed the proof goes by a least counterexample
instead: `<` on the natural numbers is well founded (`LessIsWellFounded`, from
`WellFoundedInduction`), so a set of numbers that has a member has a least one
(`LeastNumber`) and of the finite sets with a bad property there is one none of
whose proper subsets has it (`SmallestSet`).

`RelayedIsConsidered` (`RelayedOrderHasTime`) is about both ends: whatever a page
asks for, however many legs it has and whatever lookup tables are used, what the
relayer compiles is what the vault takes it for. The argument follows the order:

- `InstructionsAre`: the relayer's list is an advance of the nonce or none, what
  is sent once, and one swap for each leg, in the order of the legs.
- `KeysAre`: the payer is the first key, and every address that is a signer's, a
  called program's or in no lookup table is among the keys. The keys are a list
  of a finite set; the library defines it by a recursive function over subsets,
  and `EnumerateAll` shows, again from a smallest set for which it fails, that
  nothing is left out.
- `Resolved`, `DecodedIs`, `CompiledIs`: what the vault reads back through the
  indices is the address that was put there, or no name when a table has it.
- `PurchaseReads`: so the vault reads a setup instruction or a swap of this leg,
  each under its own kind, which is where the programs have to differ.
- `PurchaseBreaksNothing`: rule by rule, P1 to P12, beside the manifest that
  `ManifestDescribes` shows to be left of the relayer's once it was encoded. The
  routes are a stretch at the end of the message, so the n-th swap is the n-th
  leg's (`EntriesOfStretch`).
- `AttachedLasts`, `RelayedIsPriced`: the price is believed as long as the two
  limits leave time, and no leg has an amount that cannot be priced. It needs
  one more invariant than `RInv`: no screen is drawn before the order was carried
  over (`NotBefore`).

It rests on `OrderReviewAssumption`, which is what a page and its neighbours do:
assets are bought (`TradeForm.tsx:133`, `BasketBuilder.tsx:139`), with a slippage
in range (`create-order.dto.ts`), on a route that fixes what goes in
(`jupiter.service.ts:69-76` names no mode, and exact-in is the default),
for amounts a double holds; the multipliers are plausible ones; a lookup table
holds markets' accounts and not the vault's; and a price comes from Pyth, signed
by a key that outlives the crossing. Without the first, P5 refuses the order;
without the last two, an account is `Unnamed` or a price is refused.

### The market

`Market_proofs` proves `Inv` (`Invariance`) and `FactsTrueOrEarly`
(`FactsHold`), for any table, routers, limits and number of requests.

The stream's invariants are not inductive: `NeverAskedAgain` needs that no feed
still wanted was refused (`Unrefused`), and that a reconnection finds something
wanted.

`FactsHold` rests on what a state that was read some time ago can say of the
mint. Either it has both of the mint's multipliers (`Current`) or one change was
announced since (`Overtaken`): then the state's later multiplier is the one in
force until that change lands, and it lands no sooner than `Notice` less the
state's age. A second change cannot be announced meanwhile, because the state is
discarded after `TTL` and `Latency`, before the first lands; this is where
`MintStateAssumption` is needed. What the relayer's clock makes of a state that is
`Current` is the new multiplier, when the change is due within the time by which
the clock is ahead: the exception in `FactsTrueOrEarly`. An answer that has not arrived is in one of the
same two cases (`Answered`). Which of two overlapping readers writes the cache
last does not matter: either writes something that is true of the mint as it is.

Not proved: `PriceComesBack` is liveness.

### The web app

`Web_proofs` proves `ScreenSettles` (`Settles`) and `Inv` (`OneOfEach`), for any
number of assets, edits, pricings, readings and orders at a time. A pricing that
was not cancelled is of what is on the form now (`RunOK`) and a reading that was
not is of the address there is (`IsRead`): whatever answers last among those, the
screen it leaves is of the present.

`SpendsNearTheTotal`, a part of `Inv`, says what the legs of an order come to: no
more than the amount typed, and less than a unit a leg under it, if the shares
were of the whole. `Total` is a fold over a set, so its laws (`TotalIsNat`,
`TotalWithout`, `TotalOfPositive`) are proved first, each from a smallest set that
would break it. `TotalOfShares` is the argument about the code: each share is
rounded down (`BasketBuilder.tsx:71`) and loses less than a unit. `LegsNearTotal`
applies it to the lines of a form and `OrdersNearTotal` carries it to every order
under way.

### What is only model-checked

All liveness: `BroadcastSettles`,
`CameraCloses`, `LockedScanCompletes`, `PageLearnsTheEnd`, `RevealedGoesAway`,
`PriceComesBack`, since fairness is out of the provers' reach; and what the
violation runs refute.

## What the models show of the code

Beside the findings of the violation runs, the following is what the code does
and the models have; nothing of it violates a property stated here, or the
property says under which condition it holds.

The relayer and what it says of its nonces. `reserve` "Takes a free nonce and
marks it in use" (`nonces.service.ts:65`), but finds the row, awaits its value on
chain and marks it by its key alone (lines 74-89): two creates that overlap build
two orders on one value, of which one can execute. "An order that was broadcast
keeps its nonce" (`nonces.service.ts:103-104`), but `releaseAbandoned` decides row by
row with an await for each and frees what it chose at the end (line 142): an old
order that is broadcast in between loses its account, and so does one of which
the reservation is over and the row not yet written (line 119). "An order that is
genuinely in flight must not be filed as failed because one poll was early"
(`orders.service.ts:297-298`), but an error is taken at any commitment
(`relayer.service.ts:165`): one that a processed block showed, and that was
abandoned, leaves a FAILED order whose transaction lands, and its account has
gone back. These are the three races of `loose`. "A read of the order settles the
row on its own" (`orders.service.ts:284-285`), but both halves of a split basket are
compiled on one nonce value (`tx-builder.service.ts:172-173`): when the first has
executed the second never can, and the order stays BROADCAST on every read.

The signing page. "This converges" (`OrderSigner.tsx:43-45`), but a page polls only
while it was told BROADCAST. When a reply is submitted twice and the two overlap,
one answers BROADCAST and the slower one writes SIGNED over the row and fails its
simulation: the page is told SIGNED last and stops asking.

The relayer. Two submissions of one order that overlap both broadcast; the one
that is slower writes over what the faster one wrote, SIGNED or FAILED over
BROADCAST or CONFIRMED, and its signatures over the other's. An order that a
handler left SIGNED when it died is not looked at again, although its
transaction may land; its account stays with it until the operator frees it.

The review. No rule of the policy speaks of token transfers other than swaps. A
leg of a basket whose feed the message does not price is left uncompared, and
the others are not. A leg that swaps one asset for another, or an asset for
itself, is not compared with any price (`status.ts` pairs an asset with what is
none) and no rule refuses it; no page of this repository orders one. A sale (USDC out), a kind the
manifest has and no page of this repository orders, is refused by P5. `settings.ts:31-33`
says that a stored tolerance that cannot be read falls back to the strictest; it
returns the loosest.

The phone. "Your vault is back. The same key, on this device"
(`Restore.tsx:78-80`): a key that Setup was still making when the holder went to
Restore is stored over the restored one (`Setup.tsx:43`) while the screen says so.
"Closing a row puts away whatever it revealed"
(`Settings.tsx:91-106`) is not so when the other row is opened: the key is not
shown then, but it is kept and comes back with its row until its minute is over.
The screen for a vault that cannot be read has no way to Restore.

The mint facts. "The only case it could get wrong is one within seconds of
landing — which the ticket discloses as pending anyway"
(`mint-state.service.ts:139-141`): with the relayer's clock ahead, an order built
in those seconds has the new multiplier, which is not in force, and names no
change.

The price stream. An inactive feed "is a closed session and comes back on its
own" (`pyth.service.ts:380-381`): it is removed and recorded as refused, which no
later connection takes back, so it is not asked for again. A router URL that is malformed throws before the next router
is chosen, so it is tried for ever. Opening a socket resets the back-off, so a
router that opens and refuses without naming a feed is asked every five seconds.

The web app. "re-pricing" stays lit when the form becomes unpriceable during a
pricing. "Paired with ..." stays after the address is changed, and is shown when
storage is off, where nothing is paired. The holdings of the former address
stay until those of the new one arrive. The camera of the pairing page is not
stopped when the page is left, and a frame in flight may still pair. Stop during
the prompt leaves a camera that is granted later on. A quote shown may be of the
edit before when Send is pressed: what is sent is what is on the form. An amount
that rounds to nothing is asked for by the trade form and taken for none by the
basket. The error of a send may be wiped by a pricing that succeeds after it.

## Not modelled

Request validation, configuration, health and the audit trail keep no state
that anything reads. Base45, CRC-32, CBOR, base58, sha256 and the bytes of a
message are conversions that unit tests reach; Argon2, AES and Ed25519 are
trusted. Quotes come from an external service: any answer, or none. `lastValue`
of a nonce row is written and never read. How an amount is printed, the
display prices that pages poll, the landing page's scripts and canvas and the
install prompt change nothing that is checked.

The loop of the webcam (`SignatureScanner.tsx`) has the shape of `Scanner` with
a canvas decoder and no assembler; in `AirGap` a page reads any reply the phone
has shown. The previews a basket shows are quoted under other cache keys than
the builder's, so `Quotes` has one key for either.

Hazards without a property are in `PROJECT.json` with the reason: an RPC failure
that reads as an absent account and a crash of the pool command between chain
and table cost rent and no order; a message that replaces a newer one after a
change of router is bounded by the age limits on both sides; a camera granted
after its screen is gone, and a screen without a way to Restore, are what the
code does, and there is no claim to hold against it.

## Plan

Done: the relayer, the crossing, the order from builder to signature, the phone,
the market and the web app, each with the safety invariants its runs check
proved. What would add most next:

1. The two webcam loops as variants of `Scanner`.
2. A page whose submission's answer was lost: it shows an error and never polls
   although its order may be CONFIRMED. `PageLearnsTheEnd` speaks only of pages
   that were told BROADCAST.

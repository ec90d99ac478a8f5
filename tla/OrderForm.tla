------------------------------ MODULE OrderForm ------------------------------
(***************************************************************************)
(* The two pages an order is made on: TradeForm.tsx, one asset for the      *)
(* whole amount, and BasketBuilder.tsx, shares of it.  Either prices what   *)
(* is on it a moment after the last edit, drops the answers of an earlier   *)
(* edit, and sends what is on it when the button is pressed.                *)
(*                                                                         *)
(* A quote is what it was asked for: for each asset, the amount paid.  The  *)
(* display prices that both pages poll are left out.                        *)
(***************************************************************************)
EXTENDS Integers, FiniteSets, FiniteSetsExt

CONSTANTS
  Assets,
  Amounts,        \* raw amounts of USDC, 0 for one that rounds to nothing
  NoAmount,       \* what is typed is no positive number
  Percents,       \* the stops of the slider
  TradeAsset,     \* the trade page's first asset
  Presets,        \* the basket page's ready-made shares
  FirstPreset,
  FirstAmount,
  MaxLegs         \* MAX_LEGS, and the most the relayer takes

ASSUME OrderFormAssumption ==
  /\ Amounts \subseteq Nat /\ FirstAmount \in Amounts \ {0} /\ NoAmount \notin Amounts
  /\ Percents \subseteq 0..100
  /\ TradeAsset \in Assets /\ FirstPreset \in Presets
  /\ MaxLegs \in Nat \ {0}
  /\ \A p \in Presets :
       /\ DOMAIN p \subseteq Assets
       /\ IsFiniteSet(DOMAIN p) /\ Cardinality(DOMAIN p) <= MaxLegs
       /\ \A a \in DOMAIN p : p[a] \in 0..100

VARIABLES
  page,      \* which page is shown
  lines,     \* the assets on the form, each with its share
  amount,
  quotes,    \* the quotes on screen
  quoting,   \* "re-pricing"
  debounce,  \* the timer of the last edit is running
  runs,      \* the pricings under way, of this edit or of an earlier one
  sending,
  error,     \* a failure is on screen
  orders     \* the orders asked for and not answered yet

form == <<lines, amount, quotes, quoting, debounce, runs, sending, error>>

OnForm == page \in {"trade", "basket"}

Nothing == << >>

(* The trade form's asset is a line of its whole amount. *)
WholeLine(a) == [b \in {a} |-> 100]

InitialLines(p) == IF p = "basket" THEN FirstPreset ELSE WholeLine(TradeAsset)

-----------------------------------------------------------------------------
(* What is on the form. *)

(* legs; rawAmount.  toRawUsdc rounds a tiny amount to "0", which the basket *)
(* takes for no amount and the trade form asks a quote for.                 *)
Legs ==
  IF amount = NoAmount \/ (page = "basket" /\ amount = 0) THEN Nothing
  ELSE [a \in {b \in DOMAIN lines : lines[b] > 0} |-> (amount * lines[a]) \div 100]

(* balanced *)
IsWhole(shares) == MapThenSumSet(LAMBDA a : shares[a], DOMAIN shares) = 100

Balanced == IsWhole(lines)

NothingToPrice == Legs = Nothing \/ ~Balanced

(* What the relayer quotes and builds (create-order.dto.ts). *)
Served(legs) == Cardinality(DOMAIN legs) <= MaxLegs /\ \A a \in DOMAIN legs : legs[a] > 0

(* A form that was just drawn: its effect starts the timer. *)
Fresh(p) ==
  /\ lines' = InitialLines(p)
  /\ amount' = FirstAmount
  /\ quotes' = Nothing
  /\ quoting' = FALSE
  /\ debounce' = (p \in {"trade", "basket"})
  /\ runs' = {}
  /\ sending' = FALSE
  /\ error' = FALSE

-----------------------------------------------------------------------------
(* Edits.  Each cancels the pricing under way and starts the timer again.    *)

Edit(newLines, newAmount) ==
  /\ OnForm
  /\ lines' = newLines
  /\ amount' = newAmount
  /\ debounce' = TRUE
  /\ runs' = {[run EXCEPT !.live = FALSE] : run \in runs}
  /\ UNCHANGED <<page, quotes, quoting, sending, error, orders>>

(* The field, the quick amounts and "All of it". *)
TypeAmount(n) == n # amount /\ Edit(lines, n)

(* The cards of the trade page. *)
ChooseAsset(a) == page = "trade" /\ a \notin DOMAIN lines /\ Edit(WholeLine(a), amount)

(* setPercent *)
SetPercent(a, p) ==
  /\ page = "basket" /\ a \in DOMAIN lines
  /\ Edit([lines EXCEPT ![a] = p], amount)

ChoosePreset(p) == page = "basket" /\ Edit(p, amount)

(* addLine: the next asset that is not on the form. *)
AddLine ==
  /\ page = "basket"
  /\ Cardinality(DOMAIN lines) < MaxLegs
  /\ \E a \in Assets \ DOMAIN lines :
       Edit([b \in DOMAIN lines \cup {a} |-> IF b = a THEN 0 ELSE lines[b]], amount)

-----------------------------------------------------------------------------
(* Pricing. *)

(* The timer fires.  With nothing to price, "re-pricing" is left as it is.   *)
Reprice ==
  /\ debounce
  /\ debounce' = FALSE
  /\ IF NothingToPrice
     THEN quotes' = Nothing /\ UNCHANGED <<quoting, runs>>
     ELSE /\ quoting' = TRUE
          /\ runs' = runs \cup {[legs |-> Legs, live |-> TRUE]}
          /\ UNCHANGED quotes
  /\ UNCHANGED <<page, lines, amount, sending, error, orders>>

(* A pricing ends with these quotes on screen, or with a failure.           *)
Shows(run, legs, failed) ==
  /\ runs' = runs \ {run}
  /\ quotes' = legs
  /\ quoting' = FALSE
  /\ error' = failed
  /\ UNCHANGED <<page, lines, amount, debounce, sending, orders>>

Drops(run) ==
  /\ runs' = runs \ {run}
  /\ UNCHANGED <<page, lines, amount, quotes, quoting, debounce, sending, error, orders>>

(* Mutant: the answer of an earlier edit is shown too. *)
PricedLate(run) == run \in runs /\ Served(run.legs) /\ Shows(run, run.legs, FALSE)

(* Every leg was quoted. *)
Priced(run) ==
  /\ run \in runs /\ Served(run.legs)
  /\ IF run.live THEN Shows(run, run.legs, FALSE) ELSE Drops(run)

(* A leg was not. *)
NotPriced(run) ==
  /\ run \in runs
  /\ IF run.live THEN Shows(run, Nothing, TRUE) ELSE Drops(run)

-----------------------------------------------------------------------------
(* Sending. *)

(* send, with the button's own condition: there are quotes, of whatever.    *)
Send ==
  /\ OnForm /\ quotes # Nothing /\ ~sending
  /\ Legs # Nothing /\ Balanced
  /\ sending' = TRUE
  /\ error' = FALSE
  /\ orders' = orders \cup {[legs |-> Legs, total |-> amount, here |-> TRUE]}
  /\ UNCHANGED <<page, lines, amount, quotes, quoting, debounce, runs>>

(* Those that are left when the page is. *)
LeftBehind(some) == {[order EXCEPT !.here = FALSE] : order \in some}

(* send: the relayer refuses, and the page that asked may be gone. *)
OrderRefused(order) ==
  /\ order \in orders
  /\ orders' = orders \ {order}
  /\ IF order.here THEN sending' = FALSE /\ error' = TRUE ELSE UNCHANGED <<sending, error>>
  /\ UNCHANGED <<page, lines, amount, quotes, quoting, debounce, runs>>

-----------------------------------------------------------------------------

FormTypeOK ==
  /\ page \in {"trade", "basket", "vault", "sign"}
  /\ DOMAIN lines \subseteq Assets /\ \A a \in DOMAIN lines : lines[a] \in 0..100
  /\ amount \in Amounts \cup {NoAmount}
  /\ {quoting, debounce, sending, error} \subseteq BOOLEAN
  /\ \A run \in runs : DOMAIN run.legs \subseteq Assets /\ run.live \in BOOLEAN

(* Edits, timers and answers that cross leave one pricing at most to be     *)
(* shown, and none while an edit waits for its timer                        *)
(* (TradeForm.tsx:89-124, BasketBuilder.tsx:92-129).                        *)
OnePricing ==
  LET live == {run \in runs : run.live}
  IN Cardinality(live) <= 1 /\ (debounce => live = {})

(* Sums of one order. *)
Spent(order) == MapThenSumSet(LAMBDA a : order.legs[a], DOMAIN order.legs)

(* However the form was edited while quotes were on the way, an order spends *)
(* no more than the amount on the form and falls short of it by less than a *)
(* unit a leg: every share is rounded down and no leg gets what is left     *)
(* (BasketBuilder.tsx:63-73).                                               *)
SpendsNearTheTotal ==
  \A order \in orders :
    /\ Spent(order) <= order.total
    /\ order.total - Spent(order) < Cardinality(DOMAIN order.legs)
    /\ Cardinality(DOMAIN order.legs) <= MaxLegs

(* A form waits for one order at most, and for one exactly while it says so  *)
(* (TradeForm.tsx:126-140): leaving and coming back forgets the other.      *)
OneOrderAForm ==
  LET here == {order \in orders : order.here}
  IN Cardinality(here) <= 1 /\ (sending <=> here # {})

(* When nothing is on the way, the quotes on screen are of what is on the   *)
(* form, or there are none; "re-pricing" stays only on a form with nothing   *)
(* to price (TradeForm.tsx:95-99, BasketBuilder.tsx:98-101).                *)
QuotesSettle ==
  OnForm /\ ~debounce /\ (\A run \in runs : ~run.live) =>
    /\ quotes # Nothing => quotes = Legs /\ Balanced
    /\ quotes = Nothing => error \/ NothingToPrice
    /\ quoting => NothingToPrice
=============================================================================

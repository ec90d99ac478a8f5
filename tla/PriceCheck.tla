----------------------------- MODULE PriceCheck -----------------------------
(***************************************************************************)
(* What the vault may say about an order's price: packages/pyth-verify.    *)
(* verify decides whether a message is to be believed at all, and          *)
(* checkAttestation compares it with the amounts on the ticket.            *)
(*                                                                         *)
(* A price message is a record: whether its bytes parse, whether the       *)
(* signature is over them, who signed, when, and the price of every feed   *)
(* that carries one with its exponent.  Prices are natural numbers, and a  *)
(* deviation is an exact fraction [num, den], never rounded: an implied    *)
(* price is quote / (asset * multiplier), as toDecimal and impliedPrice    *)
(* compute it, with multipliers in hundredths.                             *)
(***************************************************************************)
EXTENDS Integers, Sequences

CONSTANTS
  Priced,             \* the mints of ASSETS: assetByMint answers
  Signers,            \* TRUSTED_SIGNERS, from the key to the time it expires
  NoPrice,            \* no attestation travelled with the order
  MaxAgeSeconds,      \* MAX_AGE_SECONDS
  MaxDeviation,       \* MAX_DEVIATION, in thousandths
  WarnDeviation,      \* WARN_DEVIATION, in thousandths
  MaxExact            \* Number.MAX_SAFE_INTEGER

Hundred == 100

Abs(n) == IF n < 0 THEN -n ELSE n

-----------------------------------------------------------------------------
(* message.ts and verify.ts *)

(* Both envelopes are read to their last byte, and no property is unknown. *)
Parses(price) == price.envelope = "whole" /\ price.payload = "whole"

FindSigner(price) == price.signer \in DOMAIN Signers

Age(price, now) == now - price.signedAt

(* verify: the first thing that is wrong with it, or "ok". *)
Verify(price, now) ==
  IF      ~Parses(price)                   THEN "malformed"
  ELSE IF ~price.genuine                   THEN "bad-signature"
  ELSE IF ~FindSigner(price)               THEN "unknown-signer"
  ELSE IF Signers[price.signer] <= now     THEN "signer-expired"
  ELSE IF Age(price, now) > MaxAgeSeconds  THEN "stale"
  ELSE IF Age(price, now) < -MaxAgeSeconds THEN "from-the-future"
  ELSE "ok"

-----------------------------------------------------------------------------
(* price.ts *)

Deviation(assetLine, quoteLine, oracle) ==
  LET worth == oracle * assetLine.raw * assetLine.multiplier IN
  [num |-> quoteLine.raw * Hundred - worth, den |-> worth]

(* |deviation| <= limit, for a limit in thousandths. *)
Within(deviation, limit) == Abs(deviation.num) * 1000 <= limit * deviation.den

(* Mutant: the largest deviation, not the largest distance. *)
FartherSigned(a, b) == a.num * b.den > b.num * a.den

Farther(a, b) == Abs(a.num) * b.den > Abs(b.num) * a.den

SeverityOf(deviation) ==
  IF      Within(deviation, WarnDeviation) THEN "ok"
  ELSE IF Within(deviation, MaxDeviation)  THEN "warn"
  ELSE "refuse"

-----------------------------------------------------------------------------
(* status.ts: the ticket's lines come in pairs, and a pair is priced when   *)
(* exactly one of its two lines is a catalogue asset.                       *)

PairHasPrice(leg) == (leg.pay.mint \in Priced) # (leg.receive.mint \in Priced)

AssetLine(leg) == IF leg.pay.mint \in Priced THEN leg.pay ELSE leg.receive
QuoteLine(leg) == IF leg.pay.mint \in Priced THEN leg.receive ELSE leg.pay

(* The legs the oracle is asked about: the pair is priced and the message   *)
(* carries the asset's feed.                                                *)
Compared(price, legs) ==
  {i \in DOMAIN legs : PairHasPrice(legs[i]) /\ AssetLine(legs[i]).mint \in DOMAIN price.feeds}

(* impliedPrice throws: the leg receives nothing, or an amount no double    *)
(* can hold.                                                                *)
CannotBePriced(leg) ==
  \/ AssetLine(leg).raw = 0
  \/ AssetLine(leg).raw > MaxExact
  \/ QuoteLine(leg).raw > MaxExact

LegDeviation(price, leg) ==
  Deviation(AssetLine(leg), QuoteLine(leg), price.feeds[AssetLine(leg).mint])

(* The worst leg decides: the one no other is farther off than. *)
WorstDeviation(price, legs) ==
  LET deviations == {LegDeviation(price, legs[i]) : i \in Compared(price, legs)} IN
  CHOOSE d \in deviations : \A e \in deviations : ~Farther(e, d)

(* checkAttestation *)
AttestationState(price, legs, now) ==
  CASE price = NoPrice                                                -> "absent"
    [] price # NoPrice /\ Verify(price, now) # "ok"                   -> "rejected"
    [] price # NoPrice /\ Verify(price, now) = "ok"
         /\ \E i \in Compared(price, legs) : CannotBePriced(legs[i])  -> "rejected"
    [] price # NoPrice /\ Verify(price, now) = "ok"
         /\ Compared(price, legs) = {}                                -> "unverifiable"
    [] OTHER                                                          -> "verified"

(* permitsSigning under the strict default. *)
PermitsSigning(price, legs, now) ==
  /\ AttestationState(price, legs, now) = "verified"
  /\ Within(WorstDeviation(price, legs), MaxDeviation)

(* Mutant: the box is offered for a price that was refused. *)
CanAcknowledgeAll(state) == state # "verified"

(* ticket.ts: only where the vault could not check. *)
CanAcknowledge(state) == state \in {"absent", "unverifiable"}

PriceCheckState(price, legs, now) ==
  LET state == AttestationState(price, legs, now) IN
  CASE state = "rejected" -> "bad"
    [] state = "verified" /\ SeverityOf(WorstDeviation(price, legs)) # "warn" -> "ok"
    [] OTHER -> "warn"
=============================================================================

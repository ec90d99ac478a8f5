------------------------------- MODULE Review -------------------------------
(***************************************************************************)
(* The review screen of the vault (Review.tsx, ticket.ts, settings.ts): an *)
(* order that crossed the gap is decoded, checked against the policy once, *)
(* and drawn; the price is checked again each time the screen is drawn,    *)
(* and what the buttons do is what was drawn last.  Approving leads to the *)
(* signing screen, where the holder confirms when they are ready.          *)
(*                                                                         *)
(* The clock is the phone's.  Nothing redraws the screen as it moves: only *)
(* the acknowledgement box, and a radio that comes on or goes off.         *)
(***************************************************************************)
EXTENDS TxPolicy

CONSTANTS
  Signers, MaxAgeSeconds, MaxDeviation, WarnDeviation, MaxExact,
  Deliveries,   \* what the scanner may hand over: [payload, sid, ...]
  Stored,       \* what localStorage may hold under the settings' key
  Choices,      \* DEVIATION_CHOICES, in thousandths
  Corrupt,      \* a stored setting that does not read as a positive number
  MaxClock      \* bound: the time a behaviour covers

INSTANCE Payload WITH Absent <- Nobody
INSTANCE PriceCheck WITH Priced <- Asset, NoPrice <- Nobody

(* What a decoded request is made of: lists, and numbers where the decoder  *)
(* reads numbers.  A feed whose price is zero is read as one without.        *)
IsSequence(list) == list \in Seq({list[i] : i \in DOMAIN list})

IsMessage(message) ==
  /\ IsSequence(message.instructions)
  /\ \A i \in DOMAIN message.instructions :
       message.instructions[i].op \in Routes => message.instructions[i].args.slippageBps \in Nat

IsManifest(manifest) ==
  /\ IsSequence(manifest.legs) /\ manifest.slippageBps \in Nat
  /\ \A i \in DOMAIN manifest.legs :
       {manifest.legs[i].inAmount, manifest.legs[i].expectedOutAmount} \subseteq Nat
  /\ \A mint \in DOMAIN manifest.mints : manifest.mints[mint].multiplier \in Nat

IsPrice(price) ==
  /\ price.signedAt \in Int
  /\ \A mint \in DOMAIN price.feeds : price.feeds[mint] \in Nat \ {0}

IsRequest(payload) ==
  /\ \A t \in DOMAIN payload.txs : IsMessage(payload.txs[t])
  /\ IsSequence(payload.txs)
  /\ IsManifest(payload.manifest)
  /\ payload.price # Nobody => IsPrice(payload.price)

ASSUME ReviewAssumption ==
  /\ MaxAgeSeconds \in Nat
  /\ MaxDeviation \in Nat
  /\ WarnDeviation \in Nat
  /\ MaxClock \in Nat
  /\ Choices \subseteq 1..MaxDeviation
  /\ Stored \subseteq Nat \cup {Nobody, Corrupt}
  /\ {Nobody, Corrupt} \cap Nat = {}
  /\ \A signer \in DOMAIN Signers : Signers[signer] \in Int
  /\ \A order \in Deliveries :
       /\ order.carriedAt \in Nat
       /\ order.payload.kind = "SIGN" => IsRequest(order.payload)

VARIABLES
  delivered,     \* the payload, and the session id of the frames it came in
  stored,        \* the settings in localStorage
  now,           \* this phone's clock
  stage,         \* the screen the order is on
  drawnAt,       \* when the review screen was last drawn
  drawnWith,     \* the tolerance that drawing used
  acknowledged   \* the box that takes an unchecked price on

vars == <<delivered, stored, now, stage, drawnAt, drawnWith, acknowledged>>

Stages == {"carried", "review", "sign", "signed", "rejected"}

-----------------------------------------------------------------------------
(* The verdict, a memo of the payload alone. *)

Payload_ == delivered.payload
Message  == Payload_.txs[1]
Manifest == Payload_.manifest

VerdictState ==
  IF      ~Decodes(Payload_, delivered.sid) THEN "unreadable"
  ELSE IF Payload_.kind # "SIGN"            THEN "unreadable"
  ELSE IF Payload_.vault # Vault            THEN "wrong-vault"
  ELSE IF Len(Payload_.txs) # 1             THEN "unreadable"
  ELSE IF ~Readable(Message)                THEN "unreadable"
  ELSE "checked"

Clean == VerdictState = "checked" /\ Violations(Message, Manifest) = {}

(* The price check reads the ticket's lines: none without a ticket. *)
PricedLegs == IF Clean THEN TicketLegs(Message, Manifest) ELSE << >>

PriceState(at) == AttestationState(Payload_.price, PricedLegs, at)

(* Mutant: what is stored is taken as it stands. *)
LoadSettingsUncapped == IF stored \in {Nobody, Corrupt, 0} THEN MaxDeviation ELSE stored

(* loadSettings: whatever is stored, never above the built-in tolerance.    *)
LoadSettings ==
  IF stored \in {Nobody, Corrupt, 0} \/ stored > MaxDeviation
  THEN MaxDeviation ELSE stored

SaveSettings(choice) == IF choice > MaxDeviation THEN MaxDeviation ELSE choice

PriceVerified(at, tolerance) ==
  /\ PermitsSigning(Payload_.price, PricedLegs, at)
  /\ Within(WorstDeviation(Payload_.price, PricedLegs), tolerance)

PriceRefuses(at, tolerance) ==
  ~PriceVerified(at, tolerance) /\ ~CanAcknowledge(PriceState(at))

(* No Approve button at all. *)
Refused(at, tolerance) == ~Clean \/ PriceRefuses(at, tolerance)

(* The button is there, and enabled. *)
ApproveEnabled(at, tolerance) ==
  /\ ~Refused(at, tolerance)
  /\ \/ PriceVerified(at, tolerance)
     \/ CanAcknowledge(PriceState(at)) /\ acknowledged

-----------------------------------------------------------------------------
Init ==
  /\ delivered \in Deliveries
  /\ stored \in Stored
  /\ now = delivered.carriedAt
  /\ stage = "carried"
  /\ drawnAt = 0
  /\ drawnWith = MaxDeviation
  /\ acknowledged = FALSE

Tick ==
  /\ now < MaxClock
  /\ now' = now + 1
  /\ UNCHANGED <<delivered, stored, stage, drawnAt, drawnWith, acknowledged>>

Draw == drawnAt' = now /\ drawnWith' = LoadSettings

(* The scanner hands the payload over and the screen is mounted. *)
Open ==
  /\ stage = "carried"
  /\ stage' = "review"
  /\ acknowledged' = FALSE
  /\ Draw
  /\ UNCHANGED <<delivered, stored, now>>

(* The box is shown only for a price that could not be checked. *)
Acknowledge ==
  /\ stage = "review"
  /\ Clean
  /\ CanAcknowledge(PriceState(drawnAt))
  /\ acknowledged' = ~acknowledged
  /\ Draw
  /\ UNCHANGED <<delivered, stored, now, stage>>

(* App is drawn again when the radios change, and this screen with it. *)
Redraw ==
  /\ stage = "review"
  /\ Draw
  /\ UNCHANGED <<delivered, stored, now, stage, acknowledged>>

Approve ==
  /\ stage = "review"
  /\ ApproveEnabled(drawnAt, drawnWith)
  /\ stage' = "sign"
  /\ UNCHANGED <<delivered, stored, now, drawnAt, drawnWith, acknowledged>>

Reject ==
  /\ stage = "review"
  /\ stage' = "rejected"
  /\ UNCHANGED <<delivered, stored, now, drawnAt, drawnWith, acknowledged>>

Confirm ==
  /\ stage = "sign"
  /\ stage' = "signed"
  /\ UNCHANGED <<delivered, stored, now, drawnAt, drawnWith, acknowledged>>

(* Cancel, or a reload: the order is still on the other screen and can be   *)
(* scanned again.                                                           *)
Leave ==
  /\ stage \in {"review", "sign"}
  /\ stage' = "carried"
  /\ UNCHANGED <<delivered, stored, now, drawnAt, drawnWith, acknowledged>>

(* The settings screen is reached from the scanner only. *)
ChooseTolerance ==
  /\ stage = "carried"
  /\ \E choice \in Choices : stored' = SaveSettings(choice)
  /\ UNCHANGED <<delivered, now, stage, drawnAt, drawnWith, acknowledged>>

Next ==
  \/ Tick
  \/ Open
  \/ Acknowledge
  \/ Redraw
  \/ Approve
  \/ Reject
  \/ Confirm
  \/ Leave
  \/ ChooseTolerance

Spec == Init /\ [][Next]_vars

TypeOK ==
  /\ delivered \in Deliveries
  /\ stored \in Stored \cup Choices
  /\ now \in Nat
  /\ stage \in Stages
  /\ drawnAt \in Nat
  /\ drawnWith \in 0..MaxDeviation
  /\ acknowledged \in BOOLEAN

-----------------------------------------------------------------------------
(* What the screen is for.  None of these speaks of the rules by name: they *)
(* relate what is drawn to what the message would do.                       *)

(* The holder reads the transaction, never the manifest: when no rule is    *)
(* broken the ticket has a pair of lines for each swap of the message, with *)
(* the amounts that swap pays and quotes, a slippage no swap goes past, and *)
(* the swap is authorised by the vault, which pays no fee.                  *)
TicketIsTheMessage ==
  Clean =>
    LET swaps  == Swaps(Decompile(Message))
        ticket == Ticket(Message, Manifest)
    IN /\ Len(ticket.legs) = Len(swaps)
       /\ ticket.paidBy = "relayer"
       /\ \A i \in DOMAIN swaps :
            /\ ticket.legs[i].pay.raw = PaysIn(swaps[i])
            /\ ticket.legs[i].receive.raw = ReceivesOut(swaps[i])
            /\ swaps[i].args.slippageBps <= ticket.slippageBps
            /\ \E a \in DOMAIN swaps[i].accounts : swaps[i].accounts[a] = Vault

(* How far the i-th swap of the message is off the signed price, at the     *)
(* multiplier that travelled with the order.                                *)
SwapOff(i) ==
  LET swap == Swaps(Decompile(Message))[i]
      leg  == Manifest.legs[i]
      buys == leg.outMint \in Asset
      mint == IF buys THEN leg.outMint ELSE leg.inMint
  IN Deviation([raw |-> IF buys THEN ReceivesOut(swap) ELSE PaysIn(swap),
                multiplier |-> MultiplierOf(Manifest, mint)],
               [raw |-> IF buys THEN PaysIn(swap) ELSE ReceivesOut(swap)],
               Payload_.price.feeds[mint])

(* The swap is of one asset, and the message carries its price.             *)
OraclePrices(leg) ==
  /\ (leg.inMint \in Asset) # (leg.outMint \in Asset)
  /\ {leg.inMint, leg.outMint} \cap Asset \subseteq DOMAIN Payload_.price.feeds

(* What is signed was checked: no rule is broken, and either every swap the *)
(* message makes of a priced asset was within the holder's own tolerance,   *)
(* and within the built-in one, of a price Pyth signed at most MaxAgeSeconds*)
(* before the screen was last drawn, or there was nothing to compare and    *)
(* the holder has ticked the box.                                           *)
SignedAsChecked ==
  stage \in {"sign", "signed"} =>
    /\ Clean
    /\ \/ /\ acknowledged
          /\ \/ Payload_.price = Nobody
             \/ \A i \in DOMAIN Manifest.legs : ~OraclePrices(Manifest.legs[i])
       \/ /\ Payload_.price # Nobody
          /\ Payload_.price.genuine
          /\ Abs(drawnAt - Payload_.price.signedAt) <= MaxAgeSeconds
          /\ \A i \in DOMAIN Manifest.legs :
               OraclePrices(Manifest.legs[i]) =>
                 /\ Within(SwapOff(i), MaxDeviation)
                 /\ stored \in Choices => Within(SwapOff(i), stored)

(* Every asset an order touches can be taken back by someone: the ticket    *)
(* says so once for each asset, and names the delegate the order declared.  *)
DelegateIsDisclosed ==
  Clean =>
    \A mint \in LegMints(Manifest) \cap Asset :
      \E warning \in Ticket(Message, Manifest).delegates :
        /\ mint \in warning.about
        /\ warning.delegate = Manifest.mints[mint].permanentDelegate
        /\ \A other \in Ticket(Message, Manifest).delegates :
             mint \in other.about => other = warning

(* Why the price drawn last was not believed, if there was one. *)
PriceFailure ==
  IF VerdictState = "checked" /\ Payload_.price # Nobody
  THEN Verify(Payload_.price, drawnAt) ELSE "none"

(* "There is no checkbox for this" (Review.tsx:221): an order that was once *)
(* drawn with a price too old, or a signer retired, is never signed, however*)
(* often it is scanned again and whatever the settings become.              *)
AgeRefusalIsFinal ==
  [](stage = "review" /\ PriceFailure \in {"stale", "signer-expired"}
       => [](stage # "signed"))
=============================================================================

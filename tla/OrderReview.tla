----------------------------- MODULE OrderReview ----------------------------
(***************************************************************************)
(* The two ends of an order that share no code: the relayer builds it      *)
(* (OrderBuilding), the page encodes it (OrderSigner.tsx), and the vault   *)
(* reviews it (Review).                                                    *)
(***************************************************************************)
EXTENDS Review, OrderBuilding

CONSTANTS
  MaxAttestationAge,  \* MAX_ATTESTATION_AGE_SECONDS
  Requests,           \* what the relayer may be asked, with what Jupiter answers
  FactTables,         \* what the mints may say
  Prices,             \* what the stream may have last, Nobody if nothing
  Times               \* when an order may be built

(* What the page's codes say of the order built for the request: its        *)
(* messages, its manifest, and the price the relayer had when it built it.  *)
Encoded(request, factsOf, price, at) ==
  EncodeSignRequest(
    [sid      |-> request.order,
     vault    |-> request.vault,
     txs      |-> Messages(request),
     manifest |-> ManifestOf(request, factsOf, at),
     price    |-> Attach(price, at, MaxAttestationAge)])

Delivered(request, factsOf, price, at) ==
  [payload |-> Encoded(request, factsOf, price, at), sid |-> request.order,
   carriedAt |-> at, edit |-> "none"]

Relayed ==
  {Delivered(request, factsOf, price, at) :
     request \in Requests, factsOf \in FactTables, price \in Prices, at \in Times}

(* A request as a page makes it (TradeForm.tsx, BasketBuilder.tsx) and the   *)
(* relayer lets it in (create-order.dto.ts), and a quote for it, of amounts *)
(* a double holds: Jupiter is told what goes in, and no token ledger is     *)
(* kept.                                                                    *)
IsPurchase(request) ==
  /\ Builds(request)
  /\ request.nonce \in BOOLEAN
  /\ request.slippageBps \in 1..MaxSlippageBps
  /\ IsSequence(request.legs)
  /\ \A i \in DOMAIN request.legs :
       /\ request.legs[i].outMint \in Asset
       /\ request.legs[i].route \in {"route", "sharedAccountsRoute"}
       /\ {request.legs[i].inAmount, request.legs[i].quoted} \subseteq 1..MaxExact

(* Multipliers that mean something. *)
AreFacts(factsOf) ==
  \A mint \in Asset :
    /\ {"multiplier", "nextMultiplier", "nextMultiplierAt"} \subseteq DOMAIN factsOf[mint]
    /\ factsOf[mint].multiplier \in MinMultiplier..MaxMultiplier
    /\ factsOf[mint].nextMultiplier \in {Nobody} \cup MinMultiplier..MaxMultiplier

(* A message of Pyth's, by a signer who stays for the time of a crossing.   *)
IsStreamed(price, at) ==
  /\ Parses(price)
  /\ price.genuine
  /\ FindSigner(price)
  /\ Signers[price.signer] > at + (MaxAgeSeconds - MaxAttestationAge)
  /\ price.signedAt <= at + MaxAgeSeconds

(* The tables Jupiter names hold the accounts of markets, not of a vault.   *)
ASSUME OrderReviewAssumption ==
  /\ MaxAttestationAge \in Nat
  /\ MaxExact \in Nat
  /\ Relayer # Unnamed
  /\ \A mint \in Asset : DeriveAta(Vault, mint) \notin LookupTables
  /\ \A request \in Requests : IsPurchase(request)
  /\ \A factsOf \in FactTables : AreFacts(factsOf)
  /\ \A price \in Prices, at \in Times : price # Nobody => IsStreamed(price, at)
  /\ \A order \in Deliveries : order.edit = "none" => order \in Relayed

(* An order the relayer builds for this vault is one the vault will consider:*)
(* when it fits one message no rule is broken, and a price the relayer still *)
(* thought worth attaching is not refused for its age in the time between    *)
(* the two limits (90 seconds at the relayer, 120 at the vault).             *)
RelayedOrderHasTime ==
  (delivered.edit = "none" /\ Payload_.vault = Vault /\ Len(Payload_.txs) = 1
     /\ stage = "review") =>
    /\ VerdictState = "checked"
    /\ Violations(Message, Manifest) = {}
    /\ drawnAt <= delivered.carriedAt + (MaxAgeSeconds - MaxAttestationAge)
         => PriceState(drawnAt) # "rejected"
=============================================================================

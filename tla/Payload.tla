------------------------------ MODULE Payload -------------------------------
(***************************************************************************)
(* The structured payload of packages/agqp: what encodePayload puts on the *)
(* wire for a signing request, and what decodePayload makes of a record    *)
(* read off it.  The encoding of a single field is left out; which fields  *)
(* travel, and which records are refused, is kept.                         *)
(***************************************************************************)
EXTENDS Integers, Sequences

CONSTANT Absent  \* undefined: a field that did not travel

PayloadVersion == 1

(* A scheduled multiplier travels only with its date, and only when it is  *)
(* another one; the flag only when it is set.                              *)
EncodeMintFacts(facts) ==
  LET scheduled == /\ facts.nextMultiplier # Absent
                   /\ facts.nextMultiplierAt # Absent
                   /\ facts.nextMultiplier # facts.multiplier
  IN [facts EXCEPT !.nextMultiplier   = IF scheduled THEN @ ELSE Absent,
                   !.nextMultiplierAt = IF scheduled THEN @ ELSE Absent]

EncodeManifest(manifest) ==
  [manifest EXCEPT !.mints = [mint \in DOMAIN @ |-> EncodeMintFacts(@[mint])]]

EncodeSignRequest(request) ==
  [v |-> PayloadVersion, kind |-> "SIGN", sid |-> request.sid, vault |-> request.vault,
   txs |-> request.txs, manifest |-> EncodeManifest(request.manifest),
   price |-> request.price]

Positive(number) == number # Absent => number > 0

(* Each requirement whose failure makes the decoder throw.  That mints is a *)
(* function says that no mint is declared twice.                            *)
WellFormedManifest(manifest) ==
  /\ manifest.kind \in {"BUY", "SELL", "BASKET"}
  /\ manifest.legs # << >>
  /\ \A mint \in DOMAIN manifest.mints :
       /\ manifest.mints[mint].multiplier > 0
       /\ Positive(manifest.mints[mint].nextMultiplier)
       /\ manifest.mints[mint].nextMultiplier # Absent =>
            manifest.mints[mint].nextMultiplierAt # Absent

WellFormedRequest(raw) == raw.txs # << >> /\ WellFormedManifest(raw.manifest)

WellFormedResponse(raw) == raw.signatures # << >>

WellFormedPair(raw) == raw.network \in {"mainnet", "devnet"}

(* decodePayload(raw, { sid }) answers with the record itself, or throws.  *)
Decodes(raw, sid) ==
  /\ raw.v = PayloadVersion
  /\ \/ raw.kind = "SIGN" /\ WellFormedRequest(raw)
     \/ raw.kind = "SIGR" /\ WellFormedResponse(raw)
     \/ raw.kind = "PAIR" /\ WellFormedPair(raw)
  /\ raw.kind # "PAIR" => raw.sid = sid
=============================================================================

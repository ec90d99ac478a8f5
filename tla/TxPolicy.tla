------------------------------ MODULE TxPolicy ------------------------------
(***************************************************************************)
(* What the vault makes of a transaction: packages/tx-policy, with the     *)
(* tables of packages/shared.  A message is decompiled (message.ts,        *)
(* instructions.ts), the rules P1..P12 compare it with the manifest that   *)
(* travelled beside it, and a message that breaks none gets a ticket       *)
(* (policy.ts).                                                            *)
(*                                                                         *)
(* Everything here is a function of its arguments.  An address is a model  *)
(* value, the vault's own token accounts are pairs (deriveAta), and a key  *)
(* the message takes from a lookup table is Unnamed.  Amounts are natural  *)
(* numbers and a multiplier is an integer in hundredths (One = 100).       *)
(***************************************************************************)
EXTENDS Integers, Sequences, FiniteSets

CONSTANTS
  Asset,             \* the mints of ASSETS
  Usdc,              \* USDC_MINT
  Vault,             \* this vault's public key, from its own storage
  SystemProgram, ComputeBudget, TokenProgram, Token2022, AssociatedToken, Jupiter,
  Unnamed,           \* "lookup:<index>": a key the message does not spell out
  Nobody,            \* undefined, where an address is optional
  MaxSlippageBps,    \* MAX_SLIPPAGE_BPS
  MinMultiplier, MaxMultiplier  \* PLAUSIBLE_MULTIPLIER, in hundredths

ASSUME TxPolicyAssumption ==
  /\ Usdc \notin Asset
  /\ LET programs == <<SystemProgram, ComputeBudget, TokenProgram, Token2022, AssociatedToken,
                       Jupiter>>
     IN \A i, j \in DOMAIN programs : programs[i] = programs[j] => i = j
  /\ MaxSlippageBps \in Nat
  /\ MinMultiplier \in Nat \ {0}
  /\ MaxMultiplier \in Nat

One == 100

-----------------------------------------------------------------------------
(* packages/shared: the offline table.  Every asset of the catalogue is a  *)
(* Token-2022 mint that scales its amounts and has a permanent delegate.   *)

IsScaledMint(mint) == mint \in Asset

HasPermanentDelegate(mint) == mint \in Asset

MultiplierProblem(multiplier) ==
  \/ multiplier < MinMultiplier
  \/ multiplier > MaxMultiplier

Declares(manifest, mint) == mint \in DOMAIN manifest.mints

ScaleRaw(raw, multiplier) == (raw * multiplier) \div One

DeriveAta(owner, mint) == <<owner, mint>>

-----------------------------------------------------------------------------
(* message.ts and instructions.ts: from a compiled message to named        *)
(* instructions.                                                           *)

Resolve(message, index) ==
  IF index \in DOMAIN message.keys THEN message.keys[index] ELSE Unnamed

FeePayerOf(message) == message.keys[1]

(* decodeMessage and feePayerOf throw on anything else. *)
Readable(message) ==
  /\ message.version \in {"legacy", "v0"}
  /\ message.whole
  /\ message.keys # << >>

TokenKind ==
  [Transfer     |-> "token-transfer",  TransferChecked |-> "token-transfer",
   Approve      |-> "token-approve",   ApproveChecked  |-> "token-approve",
   Revoke       |-> "token-approve",   SetAuthority    |-> "token-authority",
   Burn         |-> "token-burn",      BurnChecked     |-> "token-burn",
   CloseAccount |-> "token-close"]

SystemKind == [AdvanceNonce |-> "advance-nonce", Transfer |-> "system-transfer"]

Routes == {"route", "routeWithTokenLedger", "sharedAccountsRoute",
           "sharedAccountsRouteWithTokenLedger", "exactOutRoute",
           "sharedAccountsExactOutRoute"}

ExactOut(route) == route \in {"exactOutRoute", "sharedAccountsExactOutRoute"}

Lookup(table, op) == IF op \in DOMAIN table THEN table[op] ELSE "unknown"

KindOf(program, op) ==
  CASE program = ComputeBudget               -> "compute-budget"
    [] program = AssociatedToken             -> "create-ata"
    [] program \in {TokenProgram, Token2022} -> Lookup(TokenKind, op)
    [] program = SystemProgram               -> Lookup(SystemKind, op)
    [] program = Jupiter                     -> IF op \in Routes THEN "jupiter-route" ELSE "unknown"
    [] OTHER                                 -> "unknown"

DecodeInstruction(message, instruction) ==
  LET program == Resolve(message, instruction.program) IN
  [program  |-> program,
   kind     |-> KindOf(program, instruction.op),
   accounts |-> [a \in DOMAIN instruction.accounts |->
                   Resolve(message, instruction.accounts[a])],
   op       |-> instruction.op,
   args     |-> instruction.args]

Decompile(message) ==
  [i \in DOMAIN message.instructions |->
     DecodeInstruction(message, message.instructions[i])]

(* The tail of a route instruction, named by role: an exact-out route fixes *)
(* what is received and quotes what is paid, the others the other way.      *)
PaysIn(swap)     == IF ExactOut(swap.op) THEN swap.args.second ELSE swap.args.first
ReceivesOut(swap) == IF ExactOut(swap.op) THEN swap.args.first ELSE swap.args.second

-----------------------------------------------------------------------------
(* policy.ts *)

AllowedPrograms ==
  {ComputeBudget, SystemProgram, TokenProgram, Token2022, AssociatedToken, Jupiter}

(* What a list has at some positions, in the order of the list. *)
EntriesAt(list, S) ==
  [n \in 1..Cardinality(S) |->
     list[CHOOSE i \in S : Cardinality({j \in S : j <= i}) = n]]

RoutesOf(decoded) == {i \in DOMAIN decoded : decoded[i].kind = "jupiter-route"}

Swaps(decoded) == EntriesAt(decoded, RoutesOf(decoded))

HasKind(decoded, kinds) == \E i \in DOMAIN decoded : decoded[i].kind \in kinds

VaultPaysFees(message) == FeePayerOf(message) = Vault

ProgramNotAllowed(decoded) ==
  \E i \in DOMAIN decoded :
    \/ decoded[i].program \notin AllowedPrograms
    \/ decoded[i].kind = "unknown"

LamportsLeave(decoded) ==
  \E i \in DOMAIN decoded :
    /\ decoded[i].kind = "system-transfer"
    /\ decoded[i].accounts # << >>
    /\ decoded[i].accounts[1] = Vault

LandsElsewhere(message, decoded, leg) ==
  \/ leg.outMint \notin Asset
  \/ LET expected == DeriveAta(Vault, leg.outMint) IN
     /\ \A k \in DOMAIN message.keys : message.keys[k] # expected
     /\ \A i \in DOMAIN decoded : \A a \in DOMAIN decoded[i].accounts :
          decoded[i].accounts[a] # expected

(* Mutant: the amounts of every route are read as those of an exact-in one. *)
AmountsDifferAsExactIn(swap, leg) ==
  swap.args.first # leg.inAmount \/ swap.args.second # leg.expectedOutAmount

AmountsDiffer(swap, leg) ==
  \/ PaysIn(swap) # leg.inAmount
  \/ ReceivesOut(swap) # leg.expectedOutAmount

SlipsTooFar(swap, manifest) ==
  \/ swap.args.slippageBps > manifest.slippageBps
  \/ swap.args.slippageBps > MaxSlippageBps

(* AUTHORITY_INDEX, counted from one. *)
AuthorityIndex ==
  [route |-> 2, exactOutRoute |-> 2,
   sharedAccountsRoute |-> 3, sharedAccountsExactOutRoute |-> 3]

AnotherAuthorises(swap) ==
  \/ swap.op \notin DOMAIN AuthorityIndex
  \/ AuthorityIndex[swap.op] \notin DOMAIN swap.accounts
  \/ swap.accounts[AuthorityIndex[swap.op]] # Vault

AdvanceMisplaced(decoded) ==
  LET advances == {i \in DOMAIN decoded : decoded[i].kind = "advance-nonce"} IN
  \/ Cardinality(advances) > 1
  \/ \E i \in advances :
       \/ i # 1
       \/ 3 \notin DOMAIN decoded[i].accounts
       \/ decoded[i].accounts[3] \in {Unnamed, Vault}

LegMints(manifest) ==
  UNION {{manifest.legs[i].inMint, manifest.legs[i].outMint} : i \in DOMAIN manifest.legs}

MultiplierRefused(manifest, mint) ==
  IF IsScaledMint(mint)
  THEN \/ ~Declares(manifest, mint)
       \/ MultiplierProblem(manifest.mints[mint].multiplier)
       \/ /\ manifest.mints[mint].nextMultiplier # Nobody
          /\ MultiplierProblem(manifest.mints[mint].nextMultiplier)
  ELSE Declares(manifest, mint)

RuleNames == {"P1", "P2", "P3", "P4", "P5", "P6", "P7", "P8", "P9", "P10", "P11", "P12"}

Breaks(rule, message, manifest) ==
  LET decoded == Decompile(message)
      swaps   == Swaps(decoded)
      paired  == DOMAIN swaps \cap DOMAIN manifest.legs
  IN CASE rule = "P1"  -> VaultPaysFees(message)
       [] rule = "P2"  -> ProgramNotAllowed(decoded)
       [] rule = "P3"  -> HasKind(decoded, {"token-approve", "token-authority"})
       [] rule = "P4"  -> HasKind(decoded, {"token-close", "token-burn"})
       [] rule = "P5"  -> \E i \in DOMAIN manifest.legs :
                            LandsElsewhere(message, decoded, manifest.legs[i])
       [] rule = "P6"  -> \E i \in paired : AmountsDiffer(swaps[i], manifest.legs[i])
       [] rule = "P7"  -> \E i \in paired : SlipsTooFar(swaps[i], manifest)
       [] rule = "P8"  -> AdvanceMisplaced(decoded)
       [] rule = "P9"  -> Len(swaps) # Len(manifest.legs)
       [] rule = "P10" -> LamportsLeave(decoded)
       [] rule = "P11" -> \/ \E mint \in LegMints(manifest) : MultiplierRefused(manifest, mint)
                          \/ DOMAIN manifest.mints \ LegMints(manifest) # {}
       [] OTHER        -> \E i \in DOMAIN swaps : AnotherAuthorises(swaps[i])

Violations(message, manifest) ==
  {rule \in RuleNames : Breaks(rule, message, manifest)}

-----------------------------------------------------------------------------
(* buildTicket: two lines for each leg, with the amounts the instructions  *)
(* carry.  On an exact-out route the detail has no inAmount, and buildTicket*)
(* prints the manifest's, which P6 has compared with quotedInAmount.        *)

MultiplierOf(manifest, mint) ==
  IF IsScaledMint(mint) /\ Declares(manifest, mint)
  THEN manifest.mints[mint].multiplier ELSE One

TicketLine(manifest, mint, direction, raw) ==
  [mint |-> mint, direction |-> direction, raw |-> raw,
   multiplier |-> MultiplierOf(manifest, mint),
   amount |-> ScaleRaw(raw, MultiplierOf(manifest, mint))]

PayLine(manifest, leg, swap) ==
  TicketLine(manifest, leg.inMint, "in",
             IF ExactOut(swap.op) THEN leg.inAmount ELSE swap.args.first)

ReceiveLine(manifest, leg, swap) ==
  TicketLine(manifest, leg.outMint, "out",
             IF ExactOut(swap.op) THEN swap.args.first ELSE swap.args.second)

(* One pair of lines for each leg, in the order of the legs. *)
TicketLegs(message, manifest) ==
  LET swaps == Swaps(Decompile(message)) IN
  [i \in DOMAIN manifest.legs |->
     [pay     |-> PayLine(manifest, manifest.legs[i], swaps[i]),
      receive |-> ReceiveLine(manifest, manifest.legs[i], swaps[i])]]

(* disclose: one warning for each issuer and delegate, naming every mint it *)
(* is about; one for a paused mint, one for a scale, one for a change.      *)

Delegate(manifest, mint) ==
  IF Declares(manifest, mint) THEN manifest.mints[mint].permanentDelegate ELSE Nobody

Delegated(manifest) ==
  {mint \in LegMints(manifest) :
     HasPermanentDelegate(mint) \/ Delegate(manifest, mint) # Nobody}

(* Mutant: mints are grouped by their issuer alone. *)
DelegateWarningsByIssuer(manifest) ==
  {[about    |-> {m \in Delegated(manifest) : m \in Asset <=> mint \in Asset},
    delegate |-> Delegate(manifest, mint)] : mint \in Delegated(manifest)}

DelegateWarnings(manifest) ==
  {[about    |-> {m \in Delegated(manifest) :
                    /\ Delegate(manifest, m) = Delegate(manifest, mint)
                    /\ m \in Asset <=> mint \in Asset},
    delegate |-> Delegate(manifest, mint)] : mint \in Delegated(manifest)}

Declared(manifest) == LegMints(manifest) \cap DOMAIN manifest.mints

PausedWarnings(manifest) == {mint \in Declared(manifest) : manifest.mints[mint].paused}

ScaleNotes(manifest) ==
  {mint \in Declared(manifest) :
     IsScaledMint(mint) /\ manifest.mints[mint].multiplier # One}

ChangeNotes(manifest) ==
  {mint \in Declared(manifest) :
     manifest.mints[mint].nextMultiplier \notin {Nobody, manifest.mints[mint].multiplier}}

Ticket(message, manifest) ==
  [legs        |-> TicketLegs(message, manifest),
   feePayer    |-> FeePayerOf(message),
   paidBy      |-> IF FeePayerOf(message) = Vault THEN "vault" ELSE "relayer",
   slippageBps |-> manifest.slippageBps,
   delegates   |-> DelegateWarnings(manifest),
   paused      |-> PausedWarnings(manifest),
   scaled      |-> ScaleNotes(manifest),
   changes     |-> ChangeNotes(manifest)]
=============================================================================

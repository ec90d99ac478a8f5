---------------------------- MODULE OrderBuilding ---------------------------
(***************************************************************************)
(* How the relayer builds an order: tx-builder.service.ts compiles the     *)
(* instructions Jupiter hands back (jupiter.service.ts, swap-instructions  *)
(* .ts) into one v0 message, or into two when one does not fit, and create *)
(* (orders.service.ts) writes the manifest that describes it.              *)
(*                                                                         *)
(* A request is [vault, legs, slippageBps, nonce, fits]: each leg has the  *)
(* amount asked for and Jupiter's answer to it (quote and route), nonce    *)
(* says whether the pool had one, and fits how many legs one packet holds. *)
(***************************************************************************)
EXTENDS TxPolicy, Folds

CONSTANTS
  Relayer,        \* the relayer's key: fee payer and nonce authority
  NonceAccount, Sysvar, Pool,
  LookupTables    \* the addresses found in the tables Jupiter names

-----------------------------------------------------------------------------
(* The instructions, with their accounts spelled out. *)

NonceAdvance ==
  [program |-> SystemProgram, op |-> "AdvanceNonce",
   accounts |-> <<NonceAccount, Sysvar, Relayer>>, args |-> << >>]

UnitLimit ==
  [program |-> ComputeBudget, op |-> "SetComputeUnitLimit", accounts |-> << >>, args |-> << >>]

(* Rent is the payer's, the account is the vault's. *)
CreateAta(vault, mint) ==
  [program |-> AssociatedToken, op |-> "createIdempotent",
   accounts |-> <<Relayer, DeriveAta(vault, mint), vault, mint>>, args |-> << >>]

(* The amount asked for and the amount quoted, the authority where the      *)
(* route keeps it, and the two token accounts.                              *)
SwapInstruction(vault, leg, slippageBps) ==
  LET ends == <<DeriveAta(vault, leg.inMint), DeriveAta(vault, leg.outMint), Pool>> IN
  [program |-> Jupiter, op |-> leg.route,
   accounts |-> IF leg.route \in {"route", "routeWithTokenLedger", "exactOutRoute"}
                THEN <<TokenProgram, vault>> \o ends
                ELSE <<TokenProgram, Pool, vault>> \o ends,
   args |-> [first |-> leg.inAmount, second |-> leg.quoted, slippageBps |-> slippageBps]]

(* Every leg brings the creation of both its accounts; each is sent once,   *)
(* where it was first seen.                                                 *)
SetupMints(legs) ==
  [k \in 1..(2 * Len(legs)) |->
     IF k % 2 = 1 THEN legs[(k + 1) \div 2].inMint ELSE legs[k \div 2].outMint]

FirstSeen(mints) ==
  EntriesAt(mints, {k \in DOMAIN mints : \A j \in 1..(k - 1) : mints[j] # mints[k]})

(* Nothing comes after the swaps: Jupiter is asked not to wrap or unwrap    *)
(* SOL, so it has nothing to clean up.                                      *)
Instructions(request, legs) ==
  LET setup == FirstSeen(SetupMints(legs)) IN
  (IF request.nonce THEN <<NonceAdvance>> ELSE << >>)
    \o <<UnitLimit>>
    \o [i \in DOMAIN setup |-> CreateAta(request.vault, setup[i])]
    \o [i \in DOMAIN legs |-> SwapInstruction(request.vault, legs[i], request.slippageBps)]

-----------------------------------------------------------------------------
(* compileToV0Message: the payer first, then the other signer, then every   *)
(* key that is not taken from a lookup table.  A table stands in for no     *)
(* signer and for no program that is called.                                *)

Called(instructions) == {instructions[i].program : i \in DOMAIN instructions}

Named(instructions) ==
  UNION {{instructions[i].program} \cup
         {instructions[i].accounts[a] : a \in DOMAIN instructions[i].accounts}
         : i \in DOMAIN instructions}

(* A set as a list, in some order. *)
Enumerate(S) ==
  MapThenFoldSet(LAMBDA x, list : Append(list, x), << >>, LAMBDA x : x,
                 LAMBDA rest : CHOOSE x \in rest : TRUE, S)

StaticKeys(vault, instructions) ==
  <<Relayer, vault>>
    \o Enumerate(Named(instructions)
                    \ ({Relayer, vault} \cup (LookupTables \ Called(instructions))))

Index(keys, address) ==
  IF \E k \in DOMAIN keys : keys[k] = address
  THEN CHOOSE k \in DOMAIN keys : keys[k] = address
  ELSE Len(keys) + 1

CompileAll(request, legs) ==
  LET instructions == Instructions(request, legs)
      keys         == StaticKeys(request.vault, instructions)
  IN [version |-> "v0", whole |-> TRUE, keys |-> keys,
      instructions |->
        [i \in DOMAIN instructions |->
           [instructions[i] EXCEPT
              !.program  = Index(keys, @),
              !.accounts = [a \in DOMAIN @ |-> Index(keys, @[a])]]]]

Half(request) == (Len(request.legs) + 1) \div 2

Fits(request, count) == count <= request.fits

(* build: the messages, or none when it throws. *)
Messages(request) ==
  LET legs == request.legs IN
  CASE Fits(request, Len(legs))
         -> <<CompileAll(request, legs)>>
    [] ~Fits(request, Len(legs)) /\ Len(legs) > 1 /\ Fits(request, Half(request))
         -> <<CompileAll(request, SubSeq(legs, 1, Half(request))),
              CompileAll(request, SubSeq(legs, Half(request) + 1, Len(legs)))>>
    [] OTHER -> << >>

KnownMints(legs) ==
  \A i \in DOMAIN legs : {legs[i].inMint, legs[i].outMint} \subseteq Asset \cup {Usdc}

Builds(request) ==
  /\ request.legs # << >>
  /\ request.vault # Relayer
  /\ KnownMints(request.legs)
  /\ Messages(request) # << >>

(* create: what the order says of itself.  factsFor answers for the scaled  *)
(* mints the legs touch.                                                    *)
ManifestOf(request, factsOf, at) ==
  [kind        |-> IF Len(request.legs) > 1 THEN "BASKET" ELSE "BUY",
   legs        |-> [i \in DOMAIN request.legs |->
                      [inMint            |-> request.legs[i].inMint,
                       outMint           |-> request.legs[i].outMint,
                       inAmount          |-> request.legs[i].inAmount,
                       expectedOutAmount |-> request.legs[i].quoted]],
   slippageBps |-> request.slippageBps,
   feePayer    |-> Relayer,
   quotedAt    |-> at,
   mints       |-> [mint \in {m \in Asset : \E i \in DOMAIN request.legs :
                                m \in {request.legs[i].inMint, request.legs[i].outMint}}
                      |-> factsOf[mint]]]

(* Mutant: any price is attached. *)
AttachAnyAge(price, at, maxAttestationAge) == price

(* attestation: the latest price, unless it is too old to be worth it.      *)
Attach(price, at, maxAttestationAge) ==
  IF price # Nobody /\ at - price.signedAt <= maxAttestationAge THEN price ELSE Nobody
=============================================================================

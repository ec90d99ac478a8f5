------------------------------ MODULE MCReview ------------------------------
(***************************************************************************)
(* Orders for TLC.  Prices are whole dollars in hundredths, an asset's raw *)
(* unit is one share, an oracle price of 200 makes a dollar half a percent.*)
(* A unit of time is thirty seconds.                                       *)
(***************************************************************************)
EXTENDS OrderReview, TLC

CONSTANTS a1, a2, vault2, d1, d2, s1, s2 , order1, order2, mall

MCSigners == s1 :> 99 @@ s2 :> 7

BuiltAt == 5

Facts(multiplier, next, delegate) ==
  [multiplier |-> multiplier, nextMultiplier |-> next,
   nextMultiplierAt |-> IF next = Nobody THEN Nobody ELSE 9,
   permanentDelegate |-> delegate, paused |-> next = Nobody, readAt |-> BuiltAt]

PlainFacts == a1 :> Facts(100, 110, d1) @@ a2 :> Facts(100, Nobody, d2)
WildFacts  == a1 :> Facts(100, 9999, d1) @@ a2 :> Facts(1, Nobody, d2)

(* A price of both assets, or of the first alone. *)
Price(signer, signedAt, assets) ==
  [envelope |-> "whole", payload |-> "whole", genuine |-> TRUE, signer |-> signer,
   signedAt |-> signedAt, feeds |-> [mint \in assets |-> 200]]

Buy(mint, paid, route) ==
  [inMint |-> Usdc, outMint |-> mint, inAmount |-> paid, quoted |-> 1, route |-> route]

Sell(mint) ==
  [inMint |-> mint, outMint |-> Usdc, inAmount |-> 1, quoted |-> 200, route |-> "route"]

Request(legs, nonce, fits) ==
  [order |-> order1, vault |-> Vault, legs |-> legs, slippageBps |-> 100,
   nonce |-> nonce, fits |-> fits]

Plain == Request(<<Buy(a1, 200, "route")>>, TRUE, 4)
Both  == Request(<<Buy(a1, 200, "route"), Buy(a2, 201, "sharedAccountsRoute")>>, TRUE, 4)

MCRequests ==
  {Request(<<Buy(a1, paid, "route")>>, TRUE, 4) : paid \in {197, 199, 201, 202, 203}}
    \cup {Plain, Both, [Plain EXCEPT !.nonce = FALSE], [Plain EXCEPT !.vault = vault2]}
    \cup {Request(<<Buy(a1, x, "route"), Buy(a2, y, "route")>>, TRUE, 4) :
            x \in {196, 200}, y \in {201, 204}}
    \cup {Request(<<Buy(a1, 200, "route"), Buy(a2, 200, "route")>>, TRUE, 1)}

Now1 == Price(s1, BuiltAt, {a1, a2})

MCPrices ==
  {Nobody, Now1, Price(s1, BuiltAt, {a1}), Price(s1, BuiltAt, {})}
    \cup {Price(s1, BuiltAt - age, {a1, a2}) : age \in {3, 4}}

MCFactTables == {PlainFacts}

MCTimes == {BuiltAt}

-----------------------------------------------------------------------------
(* What reaches the vault may not be what the relayer built: another page,  *)
(* another order's codes, or a relayer that is mistaken.                    *)

Base(request) == Delivered(request, PlainFacts, Now1, BuiltAt)

Edited(name, payload) == [Base(Plain) EXCEPT !.edit = name, !.payload = payload]

OfPlain == Base(Plain).payload
OfBoth  == Base(Both).payload

WithPrice(price) == [OfPlain EXCEPT !.price = price]
WithTx(payload, message) == [payload EXCEPT !.txs = <<message>>]
WithManifest(manifest) == [OfPlain EXCEPT !.manifest = manifest]

(* The message compiled from other legs, under the manifest of the plain one.*)
Recompiled(legs, slippageBps) ==
  WithTx(OfPlain, CompileAll([Plain EXCEPT !.slippageBps = slippageBps], legs))

(* An instruction added to those of the plain order, or put in its place.   *)
Tx == OfPlain.txs[1]
Key(address) == Index(Tx.keys, address)
Swap == Len(Tx.instructions)
Added(instruction, keys) ==
  WithTx(OfPlain, [Tx EXCEPT !.instructions = Append(@, instruction), !.keys = @ \o keys])
Raw(program, op, accounts) ==
  [program |-> program, op |-> op, accounts |-> accounts, args |-> << >>]
NewKey == Len(Tx.keys) + 1

PriceEdits ==
  {Edited("price", WithPrice([Now1 EXCEPT !.envelope = "torn"])),
   Edited("price", WithPrice([Now1 EXCEPT !.payload = "torn"])),
   Edited("price", WithPrice([Now1 EXCEPT !.genuine = FALSE])),
   Edited("price", WithPrice([Now1 EXCEPT !.signer = mall])),
   Edited("price", WithPrice([Now1 EXCEPT !.signer = s2])),
   Edited("price", WithPrice([Now1 EXCEPT !.signedAt = 10]))}

MessageEdits ==
  {Edited("amount", Recompiled(<<Buy(a1, 400, "route")>>, 100)),
   Edited("quote", Recompiled(<<[Buy(a1, 200, "route") EXCEPT !.quoted = 0]>>, 100)),
   Edited("slippage", Recompiled(<<Buy(a1, 200, "route")>>, 101)),
   Edited("asset", Recompiled(<<Buy(a2, 200, "route")>>, 100)),
   Edited("two swaps", Recompiled(<<Buy(a1, 200, "route"), Buy(a1, 200, "route")>>, 100)),
   Edited("exact out", Recompiled(<<[Buy(a1, 1, "exactOutRoute") EXCEPT !.quoted = 200]>>, 100)),
   Edited("exact out", Recompiled(<<Buy(a1, 200, "exactOutRoute")>>, 100)),
   Edited("ledger", Recompiled(<<Buy(a1, 200, "routeWithTokenLedger")>>, 100)),
   Edited("approve", Added(Raw(Key(TokenProgram), "Approve", <<1, 2>>), << >>)),
   Edited("close", Added(Raw(NewKey, "CloseAccount", <<1, 2>>), <<Token2022>>)),
   Edited("lamports", Added(Raw(Key(SystemProgram), "Transfer", <<2, 1>>), << >>)),
   Edited("program", Added(Raw(NewKey, "Transfer", <<1>>), <<mall>>)),
   Edited("nonce late", Added(Raw(Key(SystemProgram), "AdvanceNonce", <<1, 1, 1>>), << >>)),
   Edited("authority", WithTx(OfPlain, [Tx EXCEPT !.instructions[Swap].accounts[2] = 1])),
   Edited("payer", WithTx(OfPlain, [Tx EXCEPT !.keys = <<Vault, Relayer>> \o SubSeq(@, 3, Len(@))])),
   Edited("version", WithTx(OfPlain, [Tx EXCEPT !.version = "v1"])),
   Edited("torn", WithTx(OfPlain, [Tx EXCEPT !.whole = FALSE]))}

M == OfPlain.manifest
ManifestEdits ==
  {Edited("cap", [Recompiled(<<Buy(a1, 200, "route")>>, 301) EXCEPT !.manifest.slippageBps = 301]),
   Edited("elsewhere", WithManifest([M EXCEPT !.legs[1].outMint = mall])),
   Edited("facts", WithManifest([M EXCEPT !.mints = << >>])),
   Edited("extra facts", WithManifest([M EXCEPT !.mints = PlainFacts])),
   Edited("facts of Usdc", WithManifest([M EXCEPT !.mints = @ @@ Usdc :> Facts(100, Nobody, d1)])),
   Edited("flat", WithManifest([M EXCEPT !.mints[a1].multiplier = 0])),
   Edited("wild", Delivered(Plain, WildFacts, Now1, BuiltAt).payload),
   Edited("wild", Delivered(Both, WildFacts, Now1, BuiltAt).payload),
   Edited("no legs", WithManifest([M EXCEPT !.legs = << >>])),
   Edited("swapped", [OfBoth EXCEPT !.manifest.legs = <<@[2], @[1]>>]),
   Edited("dropped", [OfBoth EXCEPT !.manifest.legs = <<@[1]>>]),
   Edited("sale", Delivered(Request(<<Sell(a1)>>, TRUE, 4), PlainFacts, Now1, BuiltAt).payload),
   Edited("switch", Delivered(Request(<<[Sell(a1) EXCEPT !.outMint = a2, !.quoted = 1]>>, TRUE, 4),
                              PlainFacts, Now1, BuiltAt).payload),
   Edited("round trip",
     Delivered(Request(<<[Sell(a1) EXCEPT !.outMint = a1, !.quoted = 1]>>, TRUE, 4),
               PlainFacts, Now1, BuiltAt).payload),
   Edited("nothing out",
     Delivered(Request(<<[Buy(a1, 200, "route") EXCEPT !.quoted = 0]>>, TRUE, 4),
               PlainFacts, Now1, BuiltAt).payload)}

EnvelopeEdits ==
  {Edited("vault", [OfPlain EXCEPT !.vault = vault2]),
   Edited("version", [OfPlain EXCEPT !.v = 2]),
   Edited("no message", [OfPlain EXCEPT !.txs = << >>]),
   Edited("pairing", [v |-> 1, kind |-> "PAIR", vault |-> Vault, network |-> "mainnet"]),
   Edited("network", [v |-> 1, kind |-> "PAIR", vault |-> Vault, network |-> "testnet"]),
   Edited("reply", [v |-> 1, kind |-> "SIGR", sid |-> order1, vault |-> Vault, signatures |-> <<mall>>]),
   [Base(Plain) EXCEPT !.edit = "frames", !.sid = order2]}

MCDeliveries == Relayed \cup PriceEdits \cup MessageEdits \cup ManifestEdits \cup EnvelopeEdits
=============================================================================

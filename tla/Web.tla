--------------------------------- MODULE Web ---------------------------------
(***************************************************************************)
(* The web app's pages and what they share: the address this browser sends  *)
(* orders to (lib/vault.ts), the two order forms, the vault page with its   *)
(* pairing camera and holdings (PairingScanner.tsx, VaultBalances.tsx), and *)
(* the way from a form to the signing page, which AirGap models.            *)
(*                                                                         *)
(* The address is one for all tabs and pages; it changes by typing, by the  *)
(* camera and from another tab, and every page reads it again at once.      *)
(***************************************************************************)
EXTENDS OrderForm

CONSTANTS
  Addresses,  \* valid addresses
  None,       \* no address, or one typed in part
  MaxRuns,    \* bounds: pricings, orders, reads and cameras at a time
  MaxOrders,
  MaxReads,
  MaxPrompts

(* A vault's holdings are read for its address, which is one. *)
ASSUME WebAssumption ==
  /\ None \notin Addresses
  /\ None \notin [vault : Addresses, of : Addresses]
  /\ MaxPrompts \in Nat

VARIABLES
  vault,     \* the stored address
  reads,     \* the readings of a vault under way, on this page
  holdings,  \* what was read: for which address, and whose it is
  failed,    \* the last reading failed
  scanner,   \* the vault page's camera
  stray      \* a camera is on that no page has any more

wallet == <<reads, holdings, failed>>
camera == <<scanner, stray>>
vars == <<page, form, orders, vault, wallet, camera>>

(* isValid *)
IsValid == vault \in Addresses

-----------------------------------------------------------------------------
(* The holdings, on the vault page and on the trade page.                   *)

Reading(p, address) ==
  IF p \in {"trade", "vault"} /\ address \in Addresses
  THEN {[vault |-> address, live |-> TRUE]} ELSE {}

Cancelled == {[r EXCEPT !.live = FALSE] : r \in reads}

(* Mutant: kept for the address that is paired now. *)
ReadAnswersForNow(r) ==
  /\ r \in reads
  /\ reads' = reads \ {r}
  /\ holdings' = [vault |-> vault, of |-> r.vault]
  /\ failed' = FALSE
  /\ UNCHANGED <<page, form, orders, vault, camera>>

(* The relayer answers for the address it was asked about. *)
ReadAnswers(r) ==
  /\ r \in reads
  /\ reads' = reads \ {r}
  /\ IF r.live
     THEN holdings' = [vault |-> r.vault, of |-> r.vault] /\ failed' = FALSE
     ELSE UNCHANGED <<holdings, failed>>
  /\ UNCHANGED <<page, form, orders, vault, camera>>

(* It does not: the trade page draws nothing, the vault page says so. *)
ReadFails(r) ==
  /\ r \in reads
  /\ reads' = reads \ {r}
  /\ failed' = (failed \/ (r.live /\ page = "vault"))
  /\ UNCHANGED <<page, form, orders, vault, holdings, camera>>

(* The trade page's balance, and its "All of it". *)
Spendable == IF page = "trade" /\ IsValid /\ holdings # None /\ holdings.vault = vault
             THEN holdings.of ELSE None

(* The vault page's list: once read, shown until the next one is.           *)
Listed == IF page = "vault" /\ IsValid /\ ~failed /\ holdings # None THEN holdings.of ELSE None

-----------------------------------------------------------------------------
(* The address. *)

(* setVault, here or in another tab: every reader's effect runs again.      *)
SetVault(address) ==
  /\ vault' = address
  /\ reads' = IF address = vault THEN reads ELSE Cancelled \cup Reading(page, address)
  /\ UNCHANGED <<page, form, orders, holdings, failed>>

Type(address) == page = "vault" /\ address # vault /\ SetVault(address) /\ UNCHANGED camera

OtherTab(address) == address # vault /\ SetVault(address) /\ UNCHANGED camera

-----------------------------------------------------------------------------
(* The pairing camera.  Nothing stops it when the page is left: its video    *)
(* is paused and its loop goes on, with the light on.  Two cameras that were *)
(* opened one over the other are one here.                                  *)

NoScanner == [status |-> "idle", prompts |-> 0, running |-> FALSE]

(* start, up to the prompt. *)
Start ==
  /\ page = "vault" /\ scanner.status # "scanning"
  /\ scanner' = [scanner EXCEPT !.status = "scanning", !.prompts = @ + 1]
  /\ UNCHANGED stray

(* start: the camera opens, whatever was pressed since. *)
Granted ==
  /\ scanner.prompts > 0
  /\ scanner' = [scanner EXCEPT !.prompts = @ - 1, !.running = TRUE]
  /\ UNCHANGED stray

Denied ==
  /\ scanner.prompts > 0
  /\ scanner' = [scanner EXCEPT !.prompts = @ - 1, !.status = "error"]
  /\ UNCHANGED stray

(* stop *)
Stop ==
  /\ page = "vault" /\ scanner.status = "scanning"
  /\ scanner' = [scanner EXCEPT !.status = "idle", !.running = FALSE]
  /\ UNCHANGED stray

(* tick: what was held up ends the scan. *)
Consumed(status) ==
  /\ scanner.running
  /\ scanner' = [scanner EXCEPT !.status = status, !.running = FALSE]
  /\ UNCHANGED stray

(* consume: a pairing code. *)
Paired(address) == Consumed("paired") /\ SetVault(address)

(* The frame that was being read when the page was left held one.           *)
PairedAfterwards(address) ==
  stray /\ stray' = FALSE /\ SetVault(address) /\ UNCHANGED scanner

(* consume: a backup, a reply, an order, or what cannot be decoded. *)
Named == \E status \in {"read", "error"} : Consumed(status)

Unpaired == Start \/ Granted \/ Denied \/ Stop \/ Named

-----------------------------------------------------------------------------
(* The pages. *)

(* The page is left for another: what it held is gone, what it asked the    *)
(* relayer for is not.                                                      *)
Mount(p) ==
  /\ page' = p
  /\ Fresh(p)
  /\ reads' = Reading(p, vault)
  /\ holdings' = None
  /\ failed' = FALSE
  /\ scanner' = NoScanner
  /\ stray' = (stray \/ scanner.running)
  /\ UNCHANGED vault

Visit(p) == p # page /\ Mount(p) /\ orders' = LeftBehind(orders)

(* send: the order is there, and the browser goes to its signing page from  *)
(* whatever page it is on.                                                  *)
OrderMade(order) ==
  /\ order \in orders /\ Served(order.legs)
  /\ Mount("sign")
  /\ orders' = LeftBehind(orders \ {order})

WebInit ==
  /\ page \in {"trade", "basket", "vault"}
  /\ lines = InitialLines(page) /\ amount = FirstAmount
  /\ quotes = Nothing /\ quoting = FALSE /\ debounce = (page # "vault")
  /\ runs = {} /\ sending = FALSE /\ error = FALSE /\ orders = {}
  /\ vault \in Addresses \cup {None}
  /\ reads = Reading(page, vault) /\ holdings = None /\ failed = FALSE
  /\ scanner = NoScanner /\ stray = FALSE

FormEdit ==
  \/ \E n \in Amounts \cup {NoAmount} : TypeAmount(n)
  \/ \E a \in Assets : ChooseAsset(a) \/ \E p \in Percents : SetPercent(a, p)
  \/ \E p \in Presets : ChoosePreset(p)
  \/ AddLine

Pricing == Reprice \/ \E run \in runs : Priced(run) \/ NotPriced(run)

Next ==
  \/ /\ \/ FormEdit /\ Cardinality(runs) < MaxRuns
        \/ Pricing
        \/ IsValid /\ Cardinality(orders) < MaxOrders /\ Send
        \/ \E order \in orders : OrderRefused(order)
     /\ UNCHANGED <<vault, wallet, camera>>
  \/ \E order \in orders : OrderMade(order)
  \/ \E p \in {"trade", "basket", "vault"} : Visit(p)
  \/ \E r \in reads : ReadAnswers(r) \/ ReadFails(r)
  \/ /\ Cardinality(reads) < MaxReads
     /\ \E address \in Addresses \cup {None} :
          \/ Type(address) \/ OtherTab(address)
          \/ address \in Addresses /\ (Paired(address) \/ PairedAfterwards(address))
  \/ Unpaired /\ scanner'.prompts <= MaxPrompts /\ UNCHANGED <<page, form, orders, vault, wallet>>

Spec == WebInit /\ [][Next]_vars

-----------------------------------------------------------------------------

WebTypeOK ==
  /\ FormTypeOK
  /\ vault \in Addresses \cup {None}
  /\ holdings = None \/ {holdings.vault, holdings.of} \subseteq Addresses
  /\ scanner \in [status : {"idle", "scanning", "paired", "read", "error"},
                  prompts : 0..MaxPrompts, running : BOOLEAN]
  /\ stray \in BOOLEAN

(* The amount "All of it" types is the paired vault's, whichever reading    *)
(* answers last (TradeForm.tsx:47-49: "unpairing cannot leave a stale       *)
(* balance on screen").                                                     *)
SpendableIsThisVaults == Spendable # None => Spendable = vault

(* Every variable keeps its type, and what crosses leaves one pricing and    *)
(* one order a form, no order that spends more than was typed or less by a  *)
(* unit a leg, and a balance that is this vault's.                          *)
Inv == WebTypeOK /\ OnePricing /\ SpendsNearTheTotal /\ OneOrderAForm /\ SpendableIsThisVaults

(* Once the answers are in, what every page shows is of the form and of the *)
(* address there are now: quotes, and the vault page's holdings or the      *)
(* failure to read them (VaultBalances.tsx:8: "What the paired vault        *)
(* holds").                                                                 *)
ScreenSettles ==
  /\ QuotesSettle
  /\ page = "vault" /\ IsValid /\ (\A r \in reads : ~r.live) =>
       failed \/ (Listed # None /\ Listed = vault)
=============================================================================

------------------------------ MODULE VaultApp ------------------------------
(***************************************************************************)
(* The vault between its screens: App.tsx with Setup, Restore and Settings,*)
(* what they keep in localStorage (storage.ts, biometric.ts), and the      *)
(* operations of packages/vault-crypto they wait for.                      *)
(*                                                                         *)
(* lock, unlock and enrolBiometric take their time, and nothing cancels    *)
(* them: what they do on their return they do whatever screen is open by   *)
(* then.  Reloading the app ends them.                                     *)
(*                                                                         *)
(* A blob is the key it holds and whether that is the key it names (sound).*)
(* The password is right or wrong.                                         *)
(***************************************************************************)
EXTENDS FiniteSets

CONSTANTS
  Keys,      \* the keys generateVault can make, and those printed before
  Printed,   \* the keys the holder has a sheet of from the beginning
  None,      \* no blob, no key
  Damaged    \* a stored text deserializeBlob throws on

ASSUME VaultAppAssumption ==
  /\ Printed \subseteq Keys
  /\ None \notin Keys
  /\ None \notin [key : Keys, sound : BOOLEAN] \cup {Damaged}
  /\ Damaged \notin [key : Keys, sound : BOOLEAN]

Blobs == [key : Keys, sound : BOOLEAN]

Lock(key) == [key |-> key, sound |-> TRUE]

VARIABLES
  stored,      \* localStorage: the blob
  credential,  \* localStorage: a biometric is enrolled
  screen,      \* App: the screen
  blob,        \* App: the blob of the screens that need one
  creating,    \* how far the creation of each key is
  mine,        \* Setup: the key the mounted screen is creating (busy)
  paper,       \* Setup: the key whose sheet is shown
  gate,        \* Setup: "It is printed and somewhere safe"
  opening,     \* Restore: the unlock under way, and whether its screen is mounted
  restored,    \* Restore: the key it brought back
  camera,      \* Restore: useCodeScanner
  row,         \* Settings: the open row
  secret,      \* Settings: a private key is held for display
  revealing,   \* Settings: the unlocks under way, right or wrong
  wiped,       \* Settings: the vault was erased
  printed,     \* the keys the holder has a sheet of
  used,        \* the keys whose address was handed out
  erased,      \* the keys the holder erased
  lost,        \* the keys taken off the phone by damage, or by the blob of an
               \*   operation whose screen had closed
  stray        \* since the app was opened, such an operation has stored a blob, or
               \*   a screen was left that had stored one and was not done

device   == <<stored, credential>>
app      == <<screen, blob>>
setup    == <<creating, mine, paper, gate>>
restore  == <<opening, restored, camera>>
settings == <<row, secret, revealing, wiped>>
record   == <<printed, used, erased, lost, stray>>
vars     == <<device, app, setup, restore, settings, record>>

Screens == {"setup", "restore", "scan", "pair", "settings", "review", "sign", "fatal"}

NoCamera == [status |-> "idle", light |-> FALSE, asked |-> FALSE]

-----------------------------------------------------------------------------
(* Screens are mounted and unmounted. *)

FreshSetup    == mine' = None /\ paper' = None /\ gate' = FALSE
FreshSettings == row' = "none" /\ secret' = FALSE /\ revealing' = {} /\ wiped' = FALSE

(* Leaving Restore: the hook's cleanup stops the camera it has.  What is    *)
(* granted to a prompt that is still open then is nobody's, and left out.   *)
FreshRestore == restored' = None /\ camera' = NoCamera

(* Mutant: a stored vault opens on the first screen. *)
MountAtSetup == screen' = "setup" /\ blob' = None

(* Mutant: a text that cannot be read is taken for no vault. *)
MountOverDamaged ==
  IF stored \in {None, Damaged} THEN screen' = "setup" /\ blob' = None
  ELSE screen' = "scan" /\ blob' = stored

(* App's effect: what is stored decides where it opens. *)
Mount ==
  CASE stored = None                -> screen' = "setup" /\ blob' = None
    [] stored = Damaged             -> screen' = "fatal" /\ blob' = None
    [] stored \notin {None, Damaged} -> screen' = "scan" /\ blob' = stored

Init ==
  /\ stored = None
  /\ credential = FALSE
  /\ screen = "setup"
  /\ blob = None
  /\ creating = [key \in Keys |-> IF key \in Printed THEN "over" ELSE "none"]
  /\ mine = None
  /\ paper = None
  /\ gate = FALSE
  /\ opening = None
  /\ restored = None
  /\ camera = NoCamera
  /\ row = "none"
  /\ secret = FALSE
  /\ revealing = {}
  /\ wiped = FALSE
  /\ printed = Printed
  /\ used = {}
  /\ erased = {}
  /\ lost = {}
  /\ stray = FALSE

(* Everything that was under way ends with the page. *)
Reload ==
  /\ Mount
  /\ creating' = [key \in Keys |-> IF creating[key] = "none" THEN "none" ELSE "over"]
  /\ FreshSetup
  /\ opening' = None
  /\ FreshRestore
  /\ FreshSettings
  /\ stray' = FALSE
  /\ UNCHANGED <<device, printed, used, erased, lost>>

(* saveBlob, by a screen that is still there or one that is not.            *)
OnPhone == IF stored \in {None, Damaged} THEN {} ELSE {stored.key}

Save(new, here) ==
  /\ stored' = new
  /\ stray' = (stray \/ ~here)
  /\ lost' = IF here THEN lost ELSE lost \cup OnPhone

(* The phone loses part of what it stored. *)
Damage ==
  /\ stored \notin {None, Damaged}
  /\ stored' = Damaged
  /\ lost' = lost \cup OnPhone
  /\ UNCHANGED <<credential, app, setup, restore, settings, printed, used, erased, stray>>

-----------------------------------------------------------------------------
(* Setup *)

Create(key) ==
  /\ screen = "setup"
  /\ paper = None
  /\ mine = None
  /\ creating[key] = "none"
  /\ creating' = [creating EXCEPT ![key] = "locking"]
  /\ mine' = key
  /\ UNCHANGED <<device, app, paper, gate, restore, settings, record>>

LockFails(key) ==
  /\ creating[key] = "locking"
  /\ creating' = [creating EXCEPT ![key] = "over"]
  /\ mine' = IF mine = key THEN None ELSE mine
  /\ UNCHANGED <<device, app, paper, gate, restore, settings, record>>

(* The blob is stored before the biometric is asked for and before the      *)
(* sheet is shown.                                                          *)
Locked(key) ==
  /\ creating[key] = "locking"
  /\ creating' = [creating EXCEPT ![key] = "enrolling"]
  /\ Save(Lock(key), mine = key)
  /\ UNCHANGED <<credential, app, mine, paper, gate, restore, settings, printed, used, erased>>

Enrolled(key) ==
  /\ creating[key] = "enrolling"
  /\ creating' = [creating EXCEPT ![key] = "over"]
  /\ credential' \in {credential, TRUE}
  /\ mine' = IF mine = key THEN None ELSE mine
  /\ paper' = IF mine = key THEN key ELSE paper
  /\ UNCHANGED <<stored, app, gate, restore, settings, record>>

TickGate ==
  /\ paper # None
  /\ gate' = ~gate
  /\ printed' = IF gate THEN printed ELSE printed \cup {paper}
  /\ UNCHANGED <<device, app, creating, mine, paper, restore, settings, used, erased, lost, stray>>

(* onReady: loadBlob throws on a text that cannot be read, and the screen   *)
(* stays.                                                                   *)
Continue ==
  /\ screen = "setup"
  /\ gate
  /\ stored # Damaged
  /\ screen' = "scan"
  /\ blob' = stored
  /\ FreshSetup
  /\ UNCHANGED <<device, creating, restore, settings, record>>

ToRestore ==
  /\ screen = "setup"
  /\ paper = None
  /\ screen' = "restore"
  /\ FreshSetup
  /\ stray' = (stray \/ \E key \in Keys : mine = key /\ creating[key] = "enrolling")
  /\ UNCHANGED <<device, blob, creating, restore, settings, printed, used, erased, lost>>

-----------------------------------------------------------------------------
(* Restore *)

(* A sheet the holder has, or one that was tampered with. *)
Sheets == {Lock(key) : key \in printed} \cup {[key |-> key, sound |-> FALSE] : key \in printed}

Unlock(sheet, right) ==
  /\ screen = "restore"
  /\ restored = None
  /\ opening = None
  /\ opening' = [sheet |-> sheet, right |-> right, here |-> TRUE]
  /\ UNCHANGED <<device, app, setup, restored, camera, settings, record>>

Opens(attempt) == attempt.right /\ attempt.sheet.sound

(* Mutant: the sheet is stored before anybody has opened it. *)
OpenedUnseen ==
  /\ opening # None
  /\ Save(opening.sheet, opening.here)
  /\ restored' = IF opening.here THEN opening.sheet.key ELSE restored
  /\ opening' = None
  /\ UNCHANGED <<credential, app, setup, camera, settings, printed, used, erased>>

Opened ==
  /\ opening # None
  /\ opening' = None
  /\ IF Opens(opening)
       THEN /\ Save(opening.sheet, opening.here)
            /\ restored' = IF opening.here THEN opening.sheet.key ELSE restored
       ELSE UNCHANGED <<stored, stray, lost, restored>>
  /\ UNCHANGED <<credential, app, setup, camera, settings, printed, used, erased>>

ContinueRestored ==
  /\ restored # None
  /\ stored # Damaged
  /\ screen' = "scan"
  /\ blob' = stored
  /\ FreshRestore
  /\ UNCHANGED <<device, setup, opening, settings, record>>

Cancel ==
  /\ screen = "restore"
  /\ restored = None
  /\ screen' = "setup"
  /\ opening' = IF opening = None THEN None ELSE [opening EXCEPT !.here = FALSE]
  /\ FreshRestore
  /\ UNCHANGED <<device, blob, setup, settings, record>>

(* useCodeScanner: the button is there while it is idle. *)
StartCamera ==
  /\ screen = "restore"
  /\ restored = None
  /\ camera.status = "idle"
  /\ camera' = [camera EXCEPT !.status = "starting", !.asked = TRUE]
  /\ UNCHANGED <<device, app, setup, opening, restored, settings, record>>

(* Without a video element, or when it will not play, start ends there.     *)
Granted ==
  /\ camera.asked
  /\ \E plays \in BOOLEAN :
       camera' = [camera EXCEPT !.asked = FALSE, !.light = TRUE,
                                !.status = IF plays /\ restored = None THEN "scanning" ELSE @]
  /\ UNCHANGED <<device, app, setup, opening, restored, settings, record>>

Denied ==
  /\ camera.asked
  /\ camera' = [camera EXCEPT !.asked = FALSE, !.status = "error"]
  /\ UNCHANGED <<device, app, setup, opening, restored, settings, record>>

(* A code that looks like a sheet, or the thirty seconds. *)
CameraEnds ==
  /\ camera.status = "scanning"
  /\ \E end \in {"done", "error"} :
       camera' = [camera EXCEPT !.status = end, !.light = FALSE]
  /\ UNCHANGED <<device, app, setup, opening, restored, settings, record>>

Retype ==
  /\ restored = None
  /\ camera.status = "done"
  /\ camera' = [camera EXCEPT !.status = "idle", !.light = FALSE]
  /\ UNCHANGED <<device, app, setup, opening, restored, settings, record>>

-----------------------------------------------------------------------------
(* The screens of a phone that has a vault *)

Go(from, to) ==
  /\ screen = from
  /\ blob # None
  /\ screen' = to
  /\ FreshSettings
  /\ used' = IF to \in {"pair", "settings"} THEN used \cup {blob.key} ELSE used
  /\ UNCHANGED <<device, blob, setup, restore, printed, erased, lost, stray>>

(* The erased vault's screen has no way back but a reload. *)
Navigate ==
  \/ \E to \in {"pair", "settings", "review"} : Go("scan", to)
  \/ \E from \in {"pair", "review", "sign"} : Go(from, "scan")
  \/ ~wiped /\ Go("settings", "scan")
  \/ Go("review", "sign")

InSettings == screen = "settings" /\ ~wiped

Toggle(which) ==
  /\ InSettings
  /\ row' = IF row = which THEN "none" ELSE which
  /\ secret' = IF row = which /\ which = "key" THEN FALSE ELSE secret
  /\ UNCHANGED <<device, app, setup, restore, revealing, wiped, record>>

ShowPaper ==
  /\ InSettings
  /\ row = "paper"
  /\ printed' = printed \cup {blob.key}
  /\ UNCHANGED <<device, app, setup, restore, settings, used, erased, lost, stray>>

(* What the key row shows. *)
Shown == InSettings /\ row = "key" /\ secret

Reveal(right) ==
  /\ InSettings
  /\ row = "key"
  /\ ~secret
  /\ revealing' = revealing \cup {right}
  /\ UNCHANGED <<device, app, setup, restore, row, secret, wiped, record>>

(* Whatever row is open by then. *)
Revealed(right) ==
  /\ right \in revealing
  /\ revealing' = revealing \ {right}
  /\ secret' = (secret \/ (right /\ blob.sound))
  /\ UNCHANGED <<device, app, setup, restore, row, wiped, record>>

HideIt ==
  /\ Shown
  /\ secret' = FALSE
  /\ UNCHANGED <<device, app, setup, restore, row, revealing, wiped, record>>

(* Mutant: the minute counts only while another row is open. *)
MinuteEndsUnseen ==
  /\ secret
  /\ row # "key"
  /\ secret' = FALSE
  /\ UNCHANGED <<device, app, setup, restore, row, revealing, wiped, record>>

(* setTimeout, sixty seconds after the key came *)
MinuteEnds ==
  /\ secret
  /\ secret' = FALSE
  /\ UNCHANGED <<device, app, setup, restore, row, revealing, wiped, record>>

Erase ==
  /\ InSettings
  /\ stored' = None
  /\ credential' = FALSE
  /\ wiped' = TRUE
  /\ erased' = erased \cup {blob.key}
  /\ UNCHANGED <<app, setup, restore, row, secret, revealing, printed, used, lost, stray>>

-----------------------------------------------------------------------------
SetupStep ==
  \/ \E key \in Keys : Create(key) \/ LockFails(key) \/ Locked(key) \/ Enrolled(key)
  \/ TickGate
  \/ Continue
  \/ ToRestore

RestoreStep ==
  \/ \E sheet \in Sheets, right \in BOOLEAN : Unlock(sheet, right)
  \/ Opened
  \/ ContinueRestored
  \/ Cancel
  \/ StartCamera
  \/ Granted
  \/ Denied
  \/ CameraEnds
  \/ Retype

SettingsStep ==
  \/ \E which \in {"paper", "key"} : Toggle(which)
  \/ ShowPaper
  \/ \E right \in BOOLEAN : Reveal(right) \/ Revealed(right)
  \/ HideIt
  \/ MinuteEnds
  \/ Erase

Next ==
  \/ Reload
  \/ Damage
  \/ SetupStep
  \/ RestoreStep
  \/ Navigate
  \/ SettingsStep

(* The browser runs its timers. *)
Spec == Init /\ [][Next]_vars /\ WF_vars(MinuteEnds)

-----------------------------------------------------------------------------
TypeOK ==
  /\ stored \in Blobs \cup {None, Damaged}
  /\ credential \in BOOLEAN
  /\ screen \in Screens
  /\ blob \in Blobs \cup {None}
  /\ creating \in [Keys -> {"none", "locking", "enrolling", "over"}]
  /\ mine \in Keys \cup {None}
  /\ paper \in Keys \cup {None}
  /\ gate \in BOOLEAN
  /\ opening \in [sheet : Blobs, right : BOOLEAN, here : BOOLEAN] \cup {None}
  /\ restored \in Keys \cup {None}
  /\ camera \in [status : {"idle", "starting", "scanning", "done", "error"},
                 light : BOOLEAN, asked : BOOLEAN]
  /\ row \in {"none", "paper", "key"}
  /\ secret \in BOOLEAN
  /\ revealing \subseteq BOOLEAN
  /\ wiped \in BOOLEAN
  /\ printed \subseteq Keys
  /\ used \subseteq Keys
  /\ erased \subseteq Keys
  /\ lost \subseteq Keys
  /\ stray \in BOOLEAN

(* "Storing a blob nobody has opened would hand someone a vault that fails  *)
(* at the moment they need it" (Restore.tsx:55): what is stored opens.      *)
StoredOpens ==
  /\ stored \in Blobs => stored.sound
  /\ blob \in Blobs => blob.sound

(* The vault on the screen, and the sheet shown for printing, are of the    *)
(* key this phone stores, until an operation that outlived its screen       *)
(* stores another.                                                          *)
ScreenIsStored ==
  ~stray =>
    /\ blob # None /\ ~wiped => stored \in {blob, Damaged}
    /\ paper # None => stored \in {Lock(paper), Damaged}

(* A key held for display does not outlive the visit to Settings, and the   *)
(* camera that the Restore screen was granted does not outlive that screen. *)
NothingOutlivesItsScreen ==
  /\ secret \/ revealing # {} => screen = "settings"
  /\ camera.light \/ camera.asked => screen = "restore"

Inv ==
  /\ TypeOK
  /\ StoredOpens
  /\ ScreenIsStored
  /\ NothingOutlivesItsScreen

(* Setup stores the key before its sheet is printed, and the app can be     *)
(* closed in between.  Still a key whose address was handed out is on the   *)
(* phone, where Settings prints it, or on paper, unless the holder erased   *)
(* it, the phone's storage was damaged, or an operation whose screen had    *)
(* closed stored another key in its place: no screen that is open does.     *)
HandedOutIsKept ==
  \A key \in used : key \in printed \cup erased \cup lost \/ stored = Lock(key)

(* "Say so rather than silently offering to create a second vault over the  *)
(* top of it" (storage.ts:23): on a stored text that cannot be read no      *)
(* screen stores a vault.  Only an operation that outlived its screen does, *)
(* or a screen that was opened before such a one stored what was damaged.   *)
UnreadableIsNotReplaced ==
  [][stored = Damaged /\ ~stray' => stored' \in {Damaged, None}]_vars

(* "It hides itself in a minute" (Settings.tsx:245): a private key that is  *)
(* on the screen goes off it, whatever rows are opened and closed meanwhile.*)
RevealedGoesAway == Shown ~> ~Shown
=============================================================================

--------------------------- MODULE VaultApp_proofs ---------------------------
(***************************************************************************)
(* Proofs about VaultApp, for any number of keys, printed before or not.    *)
(*                                                                         *)
(* Inv and HandedOutIsKept speak of what is stored and what is shown.  They *)
(* hold because of what is mounted on which screen (Mounted, Finished); of  *)
(* what an open screen has stored itself, until an operation that outlived  *)
(* its screen stores something (Belongs); and because a phone that shows    *)
(* Setup or Restore has nothing to lose, and one that shows a vault has     *)
(* that vault (AtStake).                                                    *)
(***************************************************************************)
EXTENDS VaultApp, TLAPS

USE VaultAppAssumption

Enrolling(key) == creating[key] = "enrolling"

(* The keys that need no place on the phone, or lost it in a known way.      *)
Safe == printed \cup erased \cup lost

(* Which screen what is held for a screen belongs to.                       *)
Mounted ==
  /\ mine # None => paper = None
  /\ gate => paper # None
  /\ mine # None \/ paper # None => screen = "setup"
  /\ screen \in {"setup", "restore", "fatal"} <=> blob = None
  /\ wiped => screen = "settings"
  /\ restored # None => screen = "restore" /\ opening = None
  /\ opening # None => (opening.here => screen = "restore" /\ restored = None)

(* A screen that is done has stored something.                              *)
Finished ==
  /\ paper # None \/ restored # None => stored # None
  /\ \A key \in Keys : Enrolling(key) /\ mine = key => stored # None

(* What is stored on Setup or Restore the open screen has stored.            *)
Belongs ==
  /\ \A key \in Keys : Enrolling(key) => mine = key /\ stored \in {Lock(key), Damaged}
  /\ screen = "setup" /\ stored # None => paper # None \/ \E key \in Keys : Enrolling(key)
  /\ screen = "restore" /\ stored # None => restored # None

(* A phone without a vault on the screen has every key safe that was handed  *)
(* out; one with a vault has that vault at stake, and holds it.              *)
AtStake ==
  /\ blob = None => used \subseteq Safe
  /\ blob # None => used \subseteq Safe \cup {blob.key}
  /\ blob # None => blob.key \in Safe \/ stored = Lock(blob.key)

IInv ==
  /\ Inv
  /\ HandedOutIsKept
  /\ Mounted
  /\ Finished
  /\ ~stray => Belongs
  /\ AtStake

Stages == {"none", "locking", "enrolling", "over"}

CameraType ==
  [status : {"idle", "starting", "scanning", "done", "error"},
   light : BOOLEAN, asked : BOOLEAN]

OpeningType == [sheet : Blobs, right : BOOLEAN, here : BOOLEAN] \cup {None}

-----------------------------------------------------------------------------
(* A locked key is a blob that opens, and is told from the others.           *)
LEMMA LockedBlob ==
  /\ None \notin Keys /\ None \notin Blobs /\ Damaged \notin Blobs /\ None # Damaged
  /\ \A key \in Keys : Lock(key) \in Blobs /\ Lock(key).sound /\ Lock(key).key = key
  BY VaultAppAssumption DEF Blobs, Lock

LEMMA SheetIsBlob ==
  ASSUME IInv, NEW sheet \in Sheets
  PROVE  sheet \in Blobs
<1>1. printed \subseteq Keys
  BY DEF IInv, Inv, TypeOK
<1>2. PICK key \in printed : \/ sheet = [key |-> key, sound |-> TRUE]
                             \/ sheet = [key |-> key, sound |-> FALSE]
  BY DEF Sheets, Lock
<1>3. \A sound \in BOOLEAN : [key |-> key, sound |-> sound] \in Blobs
  BY <1>1 DEF Blobs
<1> QED
  BY <1>2, <1>3

(* The camera and the rows of Settings are no part of what is kept.          *)
LEMMA Quiet ==
  ASSUME IInv, UNCHANGED <<device, app, setup, opening, restored, wiped, record>>,
         TypeOK', NothingOutlivesItsScreen'
  PROVE  IInv'
<1>1. StoredOpens' /\ ScreenIsStored'
  BY DEF IInv, Inv, StoredOpens, ScreenIsStored, device, app, setup, record
<1>2. HandedOutIsKept'
  BY DEF IInv, HandedOutIsKept, device, record
<1>3. Mounted' /\ Finished'
  BY DEF IInv, Mounted, Finished, Enrolling, device, app, setup, record
<1>4. (~stray' => Belongs') /\ AtStake'
  BY DEF IInv, Belongs, AtStake, Enrolling, Safe, device, app, setup, record
<1> QED
  BY <1>1, <1>2, <1>3, <1>4 DEF IInv, Inv

LEMMA CameraOnly ==
  ASSUME IInv, UNCHANGED <<device, app, setup, opening, restored, settings, record>>,
         camera' \in CameraType, NothingOutlivesItsScreen'
  PROVE  IInv'
<1>1. TypeOK'
  BY DEF IInv, Inv, TypeOK, device, app, setup, settings, record, CameraType
<1> QED
  BY <1>1, Quiet DEF settings

LEMMA RowsOnly ==
  ASSUME IInv, UNCHANGED <<device, app, setup, restore, wiped, record>>,
         row' \in {"none", "paper", "key"}, secret' \in BOOLEAN, revealing' \subseteq BOOLEAN,
         NothingOutlivesItsScreen'
  PROVE  IInv'
<1>1. TypeOK'
  BY DEF IInv, Inv, TypeOK, device, app, setup, restore, record
<1> QED
  BY <1>1, Quiet DEF restore

(* A blob stored by an open screen replaces nothing that is at stake; one    *)
(* stored by a screen that is gone is known to.                             *)
LEMMA SavedAtStake ==
  ASSUME IInv, NEW here \in BOOLEAN, here => blob = None,
         lost' = IF here THEN lost ELSE lost \cup OnPhone,
         UNCHANGED <<blob, printed, used, erased>>
  PROVE  HandedOutIsKept' /\ AtStake'
<1>1. CASE here
  <2>1. Safe' = Safe /\ blob = None /\ used \subseteq Safe
    BY <1>1 DEF Safe, IInv, AtStake
  <2> QED
    BY <2>1 DEF HandedOutIsKept, AtStake, Safe
<1>2. CASE ~here
  <2>1. Safe' = Safe \cup OnPhone
    BY <1>2 DEF Safe
  <2>2. \A key \in Keys : stored = Lock(key) => key \in OnPhone
    BY LockedBlob DEF OnPhone
  <2>3. \A key \in used : key \in Safe'
    BY <2>1, <2>2 DEF IInv, Inv, TypeOK, HandedOutIsKept, Safe
  <2>4. blob # None => blob.key \in Safe'
    BY <2>1, <2>2 DEF IInv, Inv, TypeOK, AtStake, Blobs
  <2> QED
    BY <2>3, <2>4 DEF HandedOutIsKept, AtStake, Safe
<1> QED
  BY <1>1, <1>2

LEMMA CreateInv ==
  ASSUME IInv, NEW key \in Keys, Create(key)
  PROVE  IInv'
<1>1. TypeOK'
  BY SMT DEF IInv, Inv, Create, TypeOK, device, app, restore, settings, record
<1>2. StoredOpens'
  BY SMT DEF IInv, Inv, Create, StoredOpens, device, app
<1>3. ScreenIsStored'
  BY SMT DEF IInv, Create, ScreenIsStored, Mounted, app
<1>4. NothingOutlivesItsScreen'
  BY SMT DEF IInv, Inv, Create, NothingOutlivesItsScreen, restore, settings, record
<1>5. HandedOutIsKept'
  BY SMT DEF IInv, Create, HandedOutIsKept, device, record
<1>6. Mounted'
  BY SMT DEF IInv, Create, Mounted, app, restore, settings
<1>7. Finished'
  BY SMT DEF IInv, Create, Finished, Enrolling, device, restore
<1>8. ~stray' => Belongs'
  <2>1. SUFFICES ASSUME ~stray PROVE Belongs'
    BY DEF Create, record
  <2>2. Belongs /\ screen = "setup" /\ paper = None /\ mine = None
    BY <2>1 DEF IInv, Create
  <2>3. \A k \in Keys : ~Enrolling(k)
    BY <2>2, LockedBlob DEF Belongs
  <2>4. \A k \in Keys : ~Enrolling(k)'
    BY <2>3 DEF Create, Enrolling, IInv, Inv, TypeOK
  <2> QED
    BY <2>2, <2>3, <2>4 DEF Create, Belongs, device, app
<1>9. AtStake'
  BY SMT DEF IInv, Create, AtStake, Safe, Enrolling, device, app, record
<1> QED
  BY <1>1, <1>2, <1>3, <1>4, <1>5, <1>6, <1>7, <1>8, <1>9 DEF IInv, Inv

LEMMA LockFailsInv ==
  ASSUME IInv, NEW key \in Keys, LockFails(key)
  PROVE  IInv'
<1>1. TypeOK'
  BY SMT DEF IInv, Inv, LockFails, TypeOK, device, app, restore, settings, record
<1>2. StoredOpens'
  BY SMT DEF IInv, Inv, LockFails, StoredOpens, device, app
<1>3. ScreenIsStored'
  BY SMT DEF IInv, Inv, LockFails, ScreenIsStored, device, app, settings, record
<1>4. NothingOutlivesItsScreen'
  BY SMT DEF IInv, Inv, LockFails, NothingOutlivesItsScreen, app, restore, settings, record
<1>5. HandedOutIsKept'
  BY SMT DEF IInv, LockFails, HandedOutIsKept, device, record
<1>6. Mounted'
  BY SMT DEF IInv, LockFails, Mounted, app, restore, settings
<1>7. Finished'
  BY SMT DEF IInv, LockFails, Finished, Enrolling, device, restore
<1>8. ~stray' => Belongs'
  <2>1. SUFFICES ASSUME ~stray PROVE Belongs'
    BY DEF LockFails, record
  <2>2. Belongs
    BY <2>1 DEF IInv
  <2>3. ~Enrolling(key) /\ \A k \in Keys : Enrolling(k)' = Enrolling(k)
    BY DEF LockFails, Enrolling, IInv, Inv, TypeOK
  <2>4. \A k \in Keys : Enrolling(k) => mine' = mine
    BY <2>2, <2>3 DEF Belongs, LockFails
  <2> QED
    BY <2>2, <2>3, <2>4 DEF LockFails, Belongs, device, app, restore
<1>9. AtStake'
  BY SMT DEF IInv, LockFails, AtStake, Safe, Enrolling, device, app, restore, record
<1> QED
  BY <1>1, <1>2, <1>3, <1>4, <1>5, <1>6, <1>7, <1>8, <1>9 DEF IInv, Inv

LEMMA LockedInv ==
  ASSUME IInv, NEW key \in Keys, Locked(key)
  PROVE  IInv'
<1>1. TypeOK'
  <2>1. stored' \in Blobs /\ stray' \in BOOLEAN /\ lost' \subseteq Keys
    BY LockedBlob DEF Locked, Save, OnPhone, IInv, Inv, TypeOK, Blobs
  <2>2. creating' \in [Keys -> Stages]
    BY DEF Locked, IInv, Inv, TypeOK, Stages
  <2>3. UNCHANGED <<credential, app, mine, paper, gate, restore, settings, printed, used, erased>>
    BY DEF Locked
  <2> QED
    BY <2>1, <2>2, <2>3 DEF IInv, Inv, TypeOK, Stages, app, restore, settings
<1>2. StoredOpens'
  BY LockedBlob DEF IInv, Inv, Locked, Save, StoredOpens, app
<1>3. ScreenIsStored'
  <2>1. ~stray' => mine = key
    BY DEF Locked, Save
  <2>2. mine = key => blob = None /\ paper = None
    BY LockedBlob DEF IInv, Mounted
  <2> QED
    BY <2>1, <2>2 DEF Locked, ScreenIsStored, app
<1>4. NothingOutlivesItsScreen'
  BY SMT DEF IInv, Inv, Locked, NothingOutlivesItsScreen, app, restore, settings, record
<1>w. HandedOutIsKept' /\ AtStake'
  <2>1. stored' = Lock(key) /\ lost' = IF mine = key THEN lost ELSE lost \cup OnPhone
    BY DEF Locked, Save
  <2>2. mine = key => blob = None
    BY LockedBlob DEF IInv, Mounted
  <2> QED
    BY <2>1, <2>2, SavedAtStake DEF Locked, app
<1>5. HandedOutIsKept'
  BY <1>w
<1>6. Mounted'
  BY SMT DEF IInv, Locked, Mounted, app, restore, settings
<1>7. Finished'
  <2>1. stored' # None
    BY LockedBlob DEF Locked, Save
  <2> QED
    BY <2>1 DEF Finished
<1>8. ~stray' => Belongs'
  <2>1. SUFFICES ASSUME ~stray' PROVE Belongs'
    OBVIOUS
  <2>2. mine = key /\ ~stray
    BY <2>1 DEF Locked, Save
  <2>3. creating' = [creating EXCEPT ![key] = "enrolling"] /\ stored' = Lock(key)
        /\ UNCHANGED <<mine, screen>>
    BY DEF Locked, Save, app
  <2>4. creating \in [Keys -> Stages] /\ screen = "setup"
    BY <2>2, LockedBlob DEF IInv, Inv, TypeOK, Mounted, Stages
  <2>5. \A k \in Keys : Enrolling(k) => mine = k
    BY <2>2 DEF IInv, Belongs
  <2> QED
    BY <2>2, <2>3, <2>4, <2>5 DEF Belongs, Enrolling
<1>9. AtStake'
  BY <1>w DEF AtStake
<1> QED
  BY <1>1, <1>2, <1>3, <1>4, <1>5, <1>6, <1>7, <1>8, <1>9 DEF IInv, Inv

LEMMA EnrolledInv ==
  ASSUME IInv, NEW key \in Keys, Enrolled(key)
  PROVE  IInv'
<1>1. TypeOK'
  <2>1. creating' \in [Keys -> Stages]
    BY DEF Enrolled, IInv, Inv, TypeOK, Stages
  <2>2. credential' \in BOOLEAN
    BY DEF Enrolled, IInv, Inv, TypeOK
  <2>3. mine' \in Keys \cup {None} /\ paper' \in Keys \cup {None}
    BY DEF Enrolled, IInv, Inv, TypeOK
  <2>4. UNCHANGED <<stored, app, gate, restore, settings, record>>
    BY DEF Enrolled
  <2> QED
    BY <2>1, <2>2, <2>3, <2>4 DEF IInv, Inv, TypeOK, Stages, app, restore, settings, record
<1>2. StoredOpens'
  BY SMT DEF IInv, Inv, Enrolled, StoredOpens, app
<1>3. ScreenIsStored'
  BY SMT DEF IInv, Enrolled, ScreenIsStored, Mounted, Belongs, Enrolling, app, record
<1>4. NothingOutlivesItsScreen'
  BY SMT DEF IInv, Inv, Enrolled, NothingOutlivesItsScreen, app, restore, settings, record
<1>5. HandedOutIsKept'
  BY SMT DEF IInv, Enrolled, HandedOutIsKept, record
<1>6. Mounted'
  BY SMT DEF IInv, Enrolled, Mounted, app, restore, settings
<1>7. Finished'
  BY SMT DEF IInv, Enrolled, Finished, Enrolling, restore
<1>8. ~stray' => Belongs'
  BY SMT DEF IInv, Inv, Enrolled, Belongs, TypeOK, Enrolling, app, restore, record
<1>9. AtStake'
  BY SMT DEF IInv, Enrolled, AtStake, Belongs, Safe, app, restore, record
<1> QED
  BY <1>1, <1>2, <1>3, <1>4, <1>5, <1>6, <1>7, <1>8, <1>9 DEF IInv, Inv

LEMMA TickGateInv ==
  ASSUME IInv, TickGate
  PROVE  IInv'
<1>1. TypeOK'
  BY SMT DEF IInv, Inv, TickGate, TypeOK, device, app, restore, settings
<1>2. StoredOpens'
  BY SMT DEF IInv, Inv, TickGate, StoredOpens, device, app
<1>3. ScreenIsStored'
  BY SMT DEF IInv, Inv, TickGate, ScreenIsStored, device, app, settings
<1>4. NothingOutlivesItsScreen'
  BY SMT DEF IInv, Inv, TickGate, NothingOutlivesItsScreen, app, restore, settings
<1>5. HandedOutIsKept'
  BY SMT DEF IInv, TickGate, HandedOutIsKept, device
<1>6. Mounted'
  BY SMT DEF IInv, TickGate, Mounted, app, restore, settings
<1>7. Finished'
  BY SMT DEF IInv, TickGate, Finished, device
<1>8. ~stray' => Belongs'
  BY SMT DEF IInv, TickGate, Belongs, Enrolling, device, app, restore
<1>9. AtStake'
  BY SMT DEF IInv, TickGate, AtStake, Safe, device, app, restore
<1> QED
  BY <1>1, <1>2, <1>3, <1>4, <1>5, <1>6, <1>7, <1>8, <1>9 DEF IInv, Inv

LEMMA ContinueInv ==
  ASSUME IInv, Continue
  PROVE  IInv'
<1>1. TypeOK'
  <2>1. stored' \in Blobs /\ blob' \in Blobs
    BY DEF Continue, IInv, Inv, TypeOK, Mounted, Finished, device
  <2>2. screen' = "scan"
    BY DEF Continue
  <2>3. mine' \in Keys \cup {None} /\ paper' \in Keys \cup {None} /\ gate' \in BOOLEAN
    BY DEF Continue, FreshSetup
  <2>4. UNCHANGED <<device, creating, restore, settings, record>>
    BY DEF Continue
  <2> QED
    BY <2>1, <2>2, <2>3, <2>4 DEF IInv, Inv, TypeOK, Screens, device, restore, settings, record
<1>2. StoredOpens'
  BY SMT DEF IInv, Inv, Continue, StoredOpens, device
<1>3. ScreenIsStored'
  BY SMT DEF Continue, FreshSetup, ScreenIsStored, device
<1>4. NothingOutlivesItsScreen'
  BY SMT DEF IInv, Inv, Continue, NothingOutlivesItsScreen, restore, settings, record
<1>5. HandedOutIsKept'
  BY SMT DEF IInv, Continue, HandedOutIsKept, device, record
<1>6. Mounted'
  BY SMT DEF IInv, Continue, FreshSetup, Mounted, Finished, restore, settings
<1>7. Finished'
  BY SMT DEF IInv, Continue, Finished, Mounted, device
<1>8. ~stray' => Belongs'
  BY SMT DEF IInv, Continue, Belongs, Mounted, Enrolling, restore, record
<1>9. AtStake'
  <2>1. stored \in Blobs /\ blob' = stored /\ stored' = stored
    BY DEF Continue, IInv, Inv, TypeOK, Mounted, Finished, device
  <2>2. \A key \in used : key \in Safe \/ key = stored.key
    BY <2>1, LockedBlob DEF IInv, Inv, TypeOK, HandedOutIsKept, Safe
  <2>3. stored = Lock(stored.key)
    BY <2>1 DEF IInv, Inv, StoredOpens, Blobs, Lock
  <2> QED
    BY <2>1, <2>2, <2>3, LockedBlob DEF AtStake, Safe, Continue, record
<1> QED
  BY <1>1, <1>2, <1>3, <1>4, <1>5, <1>6, <1>7, <1>8, <1>9 DEF IInv, Inv

LEMMA ToRestoreInv ==
  ASSUME IInv, ToRestore
  PROVE  IInv'
<1>1. TypeOK'
  <2>1. screen' = "restore"
    BY DEF ToRestore
  <2>2. mine' \in Keys \cup {None} /\ paper' \in Keys \cup {None} /\ gate' \in BOOLEAN
    BY DEF ToRestore, FreshSetup
  <2>3. stray' \in BOOLEAN
    BY DEF ToRestore, IInv, Inv, TypeOK
  <2>4. UNCHANGED <<device, blob, creating, restore, settings, printed, used, erased, lost>>
    BY DEF ToRestore
  <2> QED
    BY <2>1, <2>2, <2>3, <2>4 DEF IInv, Inv, TypeOK, Screens, device, restore, settings
<1>2. StoredOpens'
  BY SMT DEF IInv, Inv, ToRestore, StoredOpens, device
<1>3. ScreenIsStored'
  BY SMT DEF IInv, ToRestore, FreshSetup, ScreenIsStored, Mounted
<1>4. NothingOutlivesItsScreen'
  BY SMT DEF IInv, Inv, ToRestore, NothingOutlivesItsScreen, TypeOK, restore, settings
<1>5. HandedOutIsKept'
  BY SMT DEF IInv, Inv, ToRestore, HandedOutIsKept, TypeOK, device
<1>6. Mounted'
  BY SMT DEF IInv, ToRestore, FreshSetup, Mounted, restore, settings
<1>7. Finished'
  BY SMT DEF IInv, ToRestore, FreshSetup, Finished, device, restore
<1>8. ~stray' => Belongs'
  <2>1. SUFFICES ASSUME ~stray' PROVE Belongs'
    OBVIOUS
  <2>2. ~stray /\ \A key \in Keys : ~(mine = key /\ Enrolling(key))
    BY <2>1 DEF ToRestore, Enrolling
  <2>3. Belongs /\ paper = None /\ screen = "setup"
    BY <2>2 DEF IInv, ToRestore
  <2>4. (\A key \in Keys : ~Enrolling(key)) /\ stored = None
    BY <2>2, <2>3 DEF Belongs
  <2> QED
    BY <2>4 DEF ToRestore, Belongs, Enrolling, device
<1>9. AtStake'
  BY DEF IInv, ToRestore, AtStake, Safe, device
<1> QED
  BY <1>1, <1>2, <1>3, <1>4, <1>5, <1>6, <1>7, <1>8, <1>9 DEF IInv, Inv

LEMMA UnlockInv ==
  ASSUME IInv, NEW sheet \in Sheets, NEW right \in BOOLEAN, Unlock(sheet, right)
  PROVE  IInv'
<1>1. TypeOK'
  <2>1. sheet \in Blobs
    BY SheetIsBlob
  <2>2. opening' \in OpeningType
    BY <2>1 DEF Unlock, OpeningType
  <2>3. UNCHANGED <<device, app, setup, restored, camera, settings, record>>
    BY DEF Unlock
  <2> QED
    BY <2>1, <2>2, <2>3 DEF IInv, Inv, TypeOK, OpeningType, device, app, setup, settings, record
<1>2. StoredOpens'
  BY SMT DEF IInv, Inv, Unlock, StoredOpens, device, app
<1>3. ScreenIsStored'
  BY SMT DEF IInv, Unlock, ScreenIsStored, Mounted, app, setup
<1>4. NothingOutlivesItsScreen'
  BY SMT DEF IInv, Inv, Unlock, NothingOutlivesItsScreen, app, settings, record
<1>5. HandedOutIsKept'
  BY SMT DEF IInv, Unlock, HandedOutIsKept, device, record
<1>6. Mounted'
  BY SMT DEF IInv, Unlock, Mounted, app, setup, settings
<1>7. Finished'
  BY SMT DEF IInv, Unlock, Finished, Enrolling, device, setup
<1>8. ~stray' => Belongs'
  BY SMT DEF IInv, Unlock, Belongs, Enrolling, device, app, setup, record
<1>9. AtStake'
  BY SMT DEF IInv, Unlock, AtStake, Safe, device, app, record
<1> QED
  BY <1>1, <1>2, <1>3, <1>4, <1>5, <1>6, <1>7, <1>8, <1>9 DEF IInv, Inv

LEMMA OpenedInv ==
  ASSUME IInv, Opened
  PROVE  IInv'
<1>1. TypeOK'
  <2>1. opening \in [sheet : Blobs, right : BOOLEAN, here : BOOLEAN]
    BY DEF Opened, IInv, Inv, TypeOK
  <2>2. /\ stored' \in Blobs \cup {None, Damaged} /\ stray' \in BOOLEAN
        /\ lost' \subseteq Keys /\ restored' \in Keys \cup {None}
    BY <2>1 DEF Opened, Save, OnPhone, IInv, Inv, TypeOK, Blobs
  <2>3. opening' = None /\ UNCHANGED <<credential, app, setup, camera, settings, printed, used, erased>>
    BY DEF Opened
  <2> QED
    BY <2>2, <2>3 DEF IInv, Inv, TypeOK, app, setup, settings
<1>2. StoredOpens'
  BY DEF IInv, Inv, Opened, Opens, Save, StoredOpens, app
<1>3. ScreenIsStored'
  <2>1. CASE Opens(opening)
    <3>1. ~stray' => opening.here
      BY <2>1 DEF Opened, Save
    <3>2. opening.here => blob = None /\ paper = None
      BY DEF Opened, IInv, Mounted
    <3> QED
      BY <3>1, <3>2 DEF Opened, ScreenIsStored, app, setup
  <2>2. CASE ~Opens(opening)
    BY <2>2 DEF Opened, IInv, Inv, ScreenIsStored, app, setup, settings
  <2> QED
    BY <2>1, <2>2
<1>4. NothingOutlivesItsScreen'
  BY SMT DEF IInv, Inv, Opened, NothingOutlivesItsScreen, app, settings, record
<1>w. HandedOutIsKept' /\ AtStake'
  <2>1. CASE Opens(opening)
    <3>1. stored' = opening.sheet
          /\ lost' = IF opening.here THEN lost ELSE lost \cup OnPhone
      BY <2>1 DEF Opened, Save
    <3>2. opening.here => blob = None
      BY DEF Opened, IInv, Mounted
    <3> QED
      BY <3>1, <3>2, SavedAtStake DEF Opened, app
  <2>2. CASE ~Opens(opening)
    BY <2>2 DEF Opened, IInv, HandedOutIsKept, AtStake, Safe, app
  <2> QED
    BY <2>1, <2>2
<1>5. HandedOutIsKept'
  BY <1>w
<1>6. Mounted'
  BY SMT DEF IInv, Inv, Opened, Mounted, TypeOK, app, setup, settings
<1>7. Finished'
  <2>1. CASE Opens(opening)
    <3>1. stored' \in Blobs
      BY <2>1 DEF Opened, Save, IInv, Inv, TypeOK
    <3> QED
      BY <3>1, LockedBlob DEF Finished
  <2>2. CASE ~Opens(opening)
    BY <2>2 DEF Opened, IInv, Finished, Enrolling, setup
  <2> QED
    BY <2>1, <2>2
<1>8. ~stray' => Belongs'
  <2>1. SUFFICES ASSUME ~stray' PROVE Belongs'
    OBVIOUS
  <2>2. CASE Opens(opening)
    <3>1. opening.here /\ ~stray /\ restored' = opening.sheet.key /\ opening.sheet \in Blobs
      BY <2>1, <2>2 DEF Opened, Save, IInv, Inv, TypeOK
    <3>2. screen = "restore" /\ mine = None /\ paper = None /\ Belongs
      BY <3>1 DEF Opened, IInv, Mounted
    <3>3. \A k \in Keys : ~Enrolling(k)
      BY <3>2, LockedBlob DEF Belongs
    <3>4. restored' # None
      BY <3>1, LockedBlob DEF Blobs
    <3> QED
      BY <3>2, <3>3, <3>4 DEF Opened, Belongs, Enrolling, app, setup
  <2>3. CASE ~Opens(opening)
    BY <2>1, <2>3 DEF Opened, IInv, Belongs, Enrolling, app, setup
  <2> QED
    BY <2>2, <2>3
<1>9. AtStake'
  BY <1>w
<1> QED
  BY <1>1, <1>2, <1>3, <1>4, <1>5, <1>6, <1>7, <1>8, <1>9 DEF IInv, Inv

LEMMA ContinueRestoredInv ==
  ASSUME IInv, ContinueRestored
  PROVE  IInv'
<1>1. TypeOK'
  <2>1. stored' \in Blobs /\ blob' \in Blobs
    BY DEF ContinueRestored, IInv, Inv, TypeOK, Finished, device
  <2>2. screen' = "scan"
    BY DEF ContinueRestored
  <2>3. restored' = None
    BY DEF ContinueRestored, FreshRestore
  <2>4. camera' \in CameraType
    BY DEF ContinueRestored, CameraType, FreshRestore, NoCamera
  <2>6. UNCHANGED <<device, setup, opening, settings, record>>
    BY DEF ContinueRestored
  <2> QED
    BY <2>1, <2>2, <2>3, <2>4, <2>6 DEF IInv, Inv, TypeOK, CameraType, Screens, device,
                                         setup, settings, record
<1>2. StoredOpens'
  BY SMT DEF IInv, Inv, ContinueRestored, StoredOpens, device
<1>3. ScreenIsStored'
  BY SMT DEF IInv, ContinueRestored, ScreenIsStored, Mounted, device, setup
<1>4. NothingOutlivesItsScreen'
  BY SMT DEF IInv, Inv, ContinueRestored, FreshRestore, NoCamera, NothingOutlivesItsScreen,
             TypeOK, Mounted, settings
<1>5. HandedOutIsKept'
  BY SMT DEF IInv, Inv, ContinueRestored, HandedOutIsKept, device, record
<1>6. Mounted'
  BY SMT DEF IInv, ContinueRestored, FreshRestore, Mounted, Finished, setup, settings
<1>7. Finished'
  BY SMT DEF IInv, ContinueRestored, Finished, device
<1>8. ~stray' => Belongs'
  BY SMT DEF IInv, ContinueRestored, Belongs, Enrolling, device, setup, record
<1>9. AtStake'
  <2>1. stored \in Blobs /\ blob' = stored /\ stored' = stored
    BY DEF ContinueRestored, IInv, Inv, TypeOK, Finished, device
  <2>2. \A key \in used : key \in Safe \/ key = stored.key
    BY <2>1, LockedBlob DEF IInv, Inv, TypeOK, HandedOutIsKept, Safe
  <2>3. stored = Lock(stored.key)
    BY <2>1 DEF IInv, Inv, StoredOpens, Blobs, Lock
  <2> QED
    BY <2>1, <2>2, <2>3, LockedBlob DEF AtStake, Safe, ContinueRestored, record
<1> QED
  BY <1>1, <1>2, <1>3, <1>4, <1>5, <1>6, <1>7, <1>8, <1>9 DEF IInv, Inv

LEMMA CancelInv ==
  ASSUME IInv, Cancel
  PROVE  IInv'
<1>1. TypeOK'
  <2>1. screen' = "setup"
    BY DEF Cancel
  <2>2. opening' \in OpeningType
    BY DEF Cancel, IInv, Inv, TypeOK, OpeningType
  <2>3. restored' = None
    BY DEF Cancel, FreshRestore
  <2>4. camera' \in CameraType
    BY DEF Cancel, CameraType, FreshRestore, NoCamera
  <2>6. UNCHANGED <<device, blob, setup, settings, record>>
    BY DEF Cancel
  <2> QED
    BY <2>1, <2>2, <2>3, <2>4, <2>6 DEF IInv, Inv, TypeOK, CameraType, OpeningType,
                                         Screens, device, setup, settings, record
<1>2. StoredOpens'
  BY SMT DEF IInv, Inv, Cancel, StoredOpens, device
<1>3. ScreenIsStored'
  BY SMT DEF IInv, Cancel, ScreenIsStored, Mounted, setup
<1>4. NothingOutlivesItsScreen'
  BY SMT DEF IInv, Inv, Cancel, FreshRestore, NoCamera, NothingOutlivesItsScreen, TypeOK,
             settings
<1>5. HandedOutIsKept'
  BY SMT DEF IInv, Inv, Cancel, HandedOutIsKept, device, record
<1>6. Mounted'
  BY SMT DEF IInv, Cancel, FreshRestore, Mounted, setup, settings
<1>7. Finished'
  BY SMT DEF IInv, Cancel, FreshRestore, Finished, Enrolling, device, setup
<1>8. ~stray' => Belongs'
  BY SMT DEF IInv, Cancel, Belongs, Enrolling, device, setup, record
<1>9. AtStake'
  BY SMT DEF IInv, Cancel, AtStake, Safe, device, record
<1> QED
  BY <1>1, <1>2, <1>3, <1>4, <1>5, <1>6, <1>7, <1>8, <1>9 DEF IInv, Inv

LEMMA StartCameraInv ==
  ASSUME IInv, StartCamera
  PROVE  IInv'
<1>1. camera \in CameraType
  BY DEF IInv, Inv, TypeOK, CameraType
<1>2. camera' \in CameraType
  BY <1>1 DEF StartCamera, CameraType
<1>3. UNCHANGED <<device, app, setup, opening, restored, settings, record>>
  BY DEF StartCamera
<1>4. NothingOutlivesItsScreen'
  BY <1>1 DEF StartCamera, IInv, Inv, NothingOutlivesItsScreen, app, settings, record
<1> QED
  BY <1>2, <1>3, <1>4, CameraOnly

LEMMA GrantedInv ==
  ASSUME IInv, Granted
  PROVE  IInv'
<1>1. camera \in CameraType
  BY DEF IInv, Inv, TypeOK, CameraType
<1>2. camera' \in CameraType
  BY <1>1 DEF Granted, CameraType
<1>3. UNCHANGED <<device, app, setup, opening, restored, settings, record>>
  BY DEF Granted
<1>4. NothingOutlivesItsScreen'
  BY <1>1 DEF Granted, IInv, Inv, NothingOutlivesItsScreen, app, settings, record
<1> QED
  BY <1>2, <1>3, <1>4, CameraOnly

LEMMA DeniedInv ==
  ASSUME IInv, Denied
  PROVE  IInv'
<1>1. camera \in CameraType
  BY DEF IInv, Inv, TypeOK, CameraType
<1>2. camera' \in CameraType
  BY <1>1 DEF Denied, CameraType
<1>3. UNCHANGED <<device, app, setup, opening, restored, settings, record>>
  BY DEF Denied
<1>4. NothingOutlivesItsScreen'
  BY <1>1 DEF Denied, IInv, Inv, NothingOutlivesItsScreen, app, settings, record
<1> QED
  BY <1>2, <1>3, <1>4, CameraOnly

LEMMA CameraEndsInv ==
  ASSUME IInv, CameraEnds
  PROVE  IInv'
<1>1. camera \in CameraType
  BY DEF IInv, Inv, TypeOK, CameraType
<1>2. camera' \in CameraType
  BY <1>1 DEF CameraEnds, CameraType
<1>3. UNCHANGED <<device, app, setup, opening, restored, settings, record>>
  BY DEF CameraEnds
<1>4. NothingOutlivesItsScreen'
  BY <1>1 DEF CameraEnds, IInv, Inv, NothingOutlivesItsScreen, app, settings, record
<1> QED
  BY <1>2, <1>3, <1>4, CameraOnly

LEMMA RetypeInv ==
  ASSUME IInv, Retype
  PROVE  IInv'
<1>1. camera \in CameraType
  BY DEF IInv, Inv, TypeOK, CameraType
<1>2. camera' \in CameraType
  BY <1>1 DEF Retype, CameraType
<1>3. UNCHANGED <<device, app, setup, opening, restored, settings, record>>
  BY DEF Retype
<1>4. NothingOutlivesItsScreen'
  BY <1>1 DEF Retype, IInv, Inv, NothingOutlivesItsScreen, app, settings, record
<1> QED
  BY <1>2, <1>3, <1>4, CameraOnly

LEMMA GoInv ==
  ASSUME IInv, NEW from, NEW to \in Screens,
         from \in {"scan", "pair", "settings", "review", "sign"},
         to \in {"scan", "pair", "settings", "review", "sign"}, from # "settings" \/ ~wiped,
         Go(from, to)
  PROVE  IInv'
<1>1. TypeOK'
  <2>1. screen' \in Screens
    BY DEF Go
  <2>2. row' \in {"none", "paper", "key"} /\ secret' \in BOOLEAN
        /\ revealing' \subseteq BOOLEAN /\ wiped' \in BOOLEAN
    BY DEF Go, FreshSettings
  <2>3. used' \subseteq Keys
    BY DEF Go, IInv, Inv, TypeOK, Blobs
  <2>4. UNCHANGED <<device, blob, setup, restore, printed, erased, lost, stray>>
    BY DEF Go
  <2> QED
    BY <2>1, <2>2, <2>3, <2>4 DEF IInv, Inv, TypeOK, device, setup, restore
<1>2. StoredOpens'
  BY SMT DEF IInv, Inv, Go, StoredOpens, device
<1>3. ScreenIsStored'
  BY SMT DEF IInv, Inv, Go, ScreenIsStored, Mounted, device, setup
<1>4. NothingOutlivesItsScreen'
  BY SMT DEF IInv, Inv, Go, FreshSettings, NothingOutlivesItsScreen, restore
<1>5. HandedOutIsKept'
  <2>1. used' \subseteq used \cup {blob.key} /\ blob # None
    BY DEF Go
  <2> QED
    BY <2>1 DEF IInv, AtStake, Safe, Go, HandedOutIsKept, device
<1>6. Mounted'
  BY SMT DEF IInv, Go, FreshSettings, Mounted, setup, restore
<1>7. Finished'
  BY SMT DEF IInv, Go, Finished, Enrolling, device, setup, restore
<1>8. ~stray' => Belongs'
  BY SMT DEF IInv, Go, Belongs, Enrolling, device, setup, restore
<1>9. AtStake'
  <2>1. used' \subseteq used \cup {blob.key} /\ blob # None
    BY DEF Go
  <2> QED
    BY <2>1 DEF IInv, Go, AtStake, Safe, device
<1> QED
  BY <1>1, <1>2, <1>3, <1>4, <1>5, <1>6, <1>7, <1>8, <1>9 DEF IInv, Inv

LEMMA ToggleInv ==
  ASSUME IInv, NEW which \in {"paper", "key"}, Toggle(which)
  PROVE  IInv'
<1>1. row' \in {"none", "paper", "key"} /\ secret' \in BOOLEAN /\ revealing' \subseteq BOOLEAN
  BY DEF Toggle, IInv, Inv, TypeOK
<1>2. UNCHANGED <<device, app, setup, restore, wiped, record>>
  BY DEF Toggle
<1>3. NothingOutlivesItsScreen'
  BY DEF Toggle, InSettings, IInv, Inv, NothingOutlivesItsScreen, TypeOK, app, restore, record
<1> QED
  BY <1>1, <1>2, <1>3, RowsOnly

LEMMA ShowPaperInv ==
  ASSUME IInv, ShowPaper
  PROVE  IInv'
<1>1. TypeOK'
  BY SMT DEF IInv, Inv, ShowPaper, InSettings, TypeOK, Mounted, Blobs, device, app, setup,
             restore, settings
<1>2. StoredOpens'
  BY SMT DEF IInv, Inv, ShowPaper, StoredOpens, device, app
<1>3. ScreenIsStored'
  BY SMT DEF IInv, Inv, ShowPaper, ScreenIsStored, device, app, setup, settings
<1>4. NothingOutlivesItsScreen'
  BY SMT DEF IInv, Inv, ShowPaper, NothingOutlivesItsScreen, app, restore, settings
<1>5. HandedOutIsKept'
  BY SMT DEF IInv, ShowPaper, HandedOutIsKept, device
<1>6. Mounted'
  BY SMT DEF IInv, ShowPaper, Mounted, app, setup, restore, settings
<1>7. Finished'
  BY SMT DEF IInv, ShowPaper, Finished, Enrolling, device, setup, restore
<1>8. ~stray' => Belongs'
  BY SMT DEF IInv, ShowPaper, Belongs, Enrolling, device, app, setup, restore
<1>9. AtStake'
  BY SMT DEF IInv, ShowPaper, AtStake, Safe, Enrolling, device, app, setup, restore
<1> QED
  BY <1>1, <1>2, <1>3, <1>4, <1>5, <1>6, <1>7, <1>8, <1>9 DEF IInv, Inv

LEMMA RevealInv ==
  ASSUME IInv, NEW right \in BOOLEAN, Reveal(right)
  PROVE  IInv'
<1>1. row' \in {"none", "paper", "key"} /\ secret' \in BOOLEAN /\ revealing' \subseteq BOOLEAN
  BY DEF Reveal, IInv, Inv, TypeOK
<1>2. UNCHANGED <<device, app, setup, restore, wiped, record>>
  BY DEF Reveal
<1>3. NothingOutlivesItsScreen'
  BY DEF Reveal, InSettings, IInv, Inv, NothingOutlivesItsScreen, TypeOK, app, restore, record
<1> QED
  BY <1>1, <1>2, <1>3, RowsOnly

LEMMA RevealedInv ==
  ASSUME IInv, NEW right \in BOOLEAN, Revealed(right)
  PROVE  IInv'
<1>1. row' \in {"none", "paper", "key"} /\ secret' \in BOOLEAN /\ revealing' \subseteq BOOLEAN
  BY DEF Revealed, IInv, Inv, TypeOK
<1>2. UNCHANGED <<device, app, setup, restore, wiped, record>>
  BY DEF Revealed
<1>3. NothingOutlivesItsScreen'
  BY DEF Revealed, IInv, Inv, NothingOutlivesItsScreen, TypeOK, app, restore, record
<1> QED
  BY <1>1, <1>2, <1>3, RowsOnly

LEMMA HideItInv ==
  ASSUME IInv, HideIt
  PROVE  IInv'
<1>1. row' \in {"none", "paper", "key"} /\ secret' \in BOOLEAN /\ revealing' \subseteq BOOLEAN
  BY DEF HideIt, IInv, Inv, TypeOK
<1>2. UNCHANGED <<device, app, setup, restore, wiped, record>>
  BY DEF HideIt
<1>3. NothingOutlivesItsScreen'
  BY DEF HideIt, Shown, InSettings, IInv, Inv, NothingOutlivesItsScreen, TypeOK, app, restore,
         record
<1> QED
  BY <1>1, <1>2, <1>3, RowsOnly

LEMMA MinuteEndsInv ==
  ASSUME IInv, MinuteEnds
  PROVE  IInv'
<1>1. row' \in {"none", "paper", "key"} /\ secret' \in BOOLEAN /\ revealing' \subseteq BOOLEAN
  BY DEF MinuteEnds, IInv, Inv, TypeOK
<1>2. UNCHANGED <<device, app, setup, restore, wiped, record>>
  BY DEF MinuteEnds
<1>3. NothingOutlivesItsScreen'
  BY DEF MinuteEnds, IInv, Inv, NothingOutlivesItsScreen, TypeOK, app, restore, record
<1> QED
  BY <1>1, <1>2, <1>3, RowsOnly

LEMMA EraseInv ==
  ASSUME IInv, Erase
  PROVE  IInv'
<1>1. TypeOK'
  <2>1. stored' = None
    BY DEF Erase
  <2>2. credential' \in BOOLEAN /\ wiped' \in BOOLEAN
    BY DEF Erase
  <2>3. erased' \subseteq Keys
    BY DEF Erase, IInv, Inv, TypeOK, InSettings, Mounted, Blobs
  <2>4. UNCHANGED <<app, setup, restore, row, secret, revealing, printed, used, lost, stray>>
    BY DEF Erase
  <2> QED
    BY <2>1, <2>2, <2>3, <2>4 DEF IInv, Inv, TypeOK, app, setup, restore
<1>2. StoredOpens'
  BY SMT DEF IInv, Inv, Erase, StoredOpens, Blobs, app
<1>3. ScreenIsStored'
  BY SMT DEF IInv, Erase, InSettings, ScreenIsStored, Mounted, setup
<1>4. NothingOutlivesItsScreen'
  BY SMT DEF IInv, Inv, Erase, NothingOutlivesItsScreen, app, restore
<1>5. HandedOutIsKept'
  BY SMT DEF IInv, Erase, InSettings, HandedOutIsKept, Mounted, AtStake, Safe
<1>6. Mounted'
  BY SMT DEF IInv, Erase, InSettings, Mounted, app, setup, restore
<1>7. Finished'
  BY SMT DEF IInv, Erase, InSettings, Finished, Mounted, setup, restore
<1>8. ~stray' => Belongs'
  BY SMT DEF IInv, Erase, InSettings, Belongs, Mounted, Enrolling, setup, restore
<1>9. AtStake'
  BY SMT DEF IInv, Erase, AtStake, Safe, app
<1> QED
  BY <1>1, <1>2, <1>3, <1>4, <1>5, <1>6, <1>7, <1>8, <1>9 DEF IInv, Inv

LEMMA DamageInv ==
  ASSUME IInv, Damage
  PROVE  IInv'
<1>1. TypeOK'
  <2>1. stored' = Damaged /\ lost' \subseteq Keys
    BY DEF Damage, OnPhone, IInv, Inv, TypeOK, Blobs
  <2>2. UNCHANGED <<credential, app, setup, restore, settings, printed, used, erased, stray>>
    BY DEF Damage
  <2> QED
    BY <2>1, <2>2 DEF IInv, Inv, TypeOK, app, setup, restore, settings
<1>2. StoredOpens'
  BY SMT DEF IInv, Inv, Damage, StoredOpens, Blobs, app
<1>3. ScreenIsStored'
  BY SMT DEF Damage, ScreenIsStored
<1>4. NothingOutlivesItsScreen'
  BY SMT DEF IInv, Inv, Damage, NothingOutlivesItsScreen, app, restore, settings, record
<1>w. HandedOutIsKept' /\ AtStake'
  <2>1. lost' = IF FALSE THEN lost ELSE lost \cup OnPhone
    BY DEF Damage
  <2> QED
    BY <2>1, SavedAtStake DEF Damage, app
<1>5. HandedOutIsKept'
  BY <1>w
<1>6. Mounted'
  BY SMT DEF IInv, Damage, Mounted, app, setup, restore, settings
<1>7. Finished'
  BY SMT DEF Damage, Finished
<1>8. ~stray' => Belongs'
  BY LockedBlob DEF IInv, Damage, Belongs, Enrolling, app, setup, restore
<1>9. AtStake'
  BY <1>w
<1> QED
  BY <1>1, <1>2, <1>3, <1>4, <1>5, <1>6, <1>7, <1>8, <1>9 DEF IInv, Inv

LEMMA ReloadInv ==
  ASSUME IInv, Reload
  PROVE  IInv'
<1>1. \/ stored = None /\ screen' = "setup" /\ blob' = None
      \/ stored = Damaged /\ screen' = "fatal" /\ blob' = None
      \/ stored \in Blobs /\ screen' = "scan" /\ blob' = stored
  BY DEF Reload, Mount, IInv, Inv, TypeOK
<1>2. mine' = None /\ paper' = None /\ ~gate' /\ opening' = None /\ restored' = None
  BY DEF Reload, FreshSetup, FreshRestore
<1>3. camera' = NoCamera /\ ~secret' /\ revealing' = {} /\ row' = "none" /\ ~wiped'
  BY DEF Reload, FreshSettings, FreshRestore
<1>4. creating' \in [Keys -> {"none", "over"}]
  BY DEF Reload
<1>5. UNCHANGED <<stored, credential, printed, used, erased, lost>> /\ ~stray'
  BY DEF Reload, device
<1>6. TypeOK'
  <2>1. gate' \in BOOLEAN /\ stray' \in BOOLEAN /\ wiped' \in BOOLEAN /\ secret' \in BOOLEAN
    BY Zenon DEF Reload, FreshSetup, FreshSettings
  <2>2. camera' \in CameraType
    BY <1>3 DEF NoCamera, CameraType
  <2>3. screen' \in Screens /\ blob' \in Blobs \cup {None}
    BY <1>1 DEF Screens
  <2>4. mine' = None /\ paper' = None /\ opening' = None /\ revealing' = {} /\ row' = "none"
    BY <1>2, <1>3
  <2> QED
    BY <1>2, <1>4, <1>5, <2>1, <2>2, <2>3, <2>4 DEF IInv, Inv, TypeOK, CameraType
<1>7. StoredOpens'
  BY <1>1, <1>5, LockedBlob DEF IInv, Inv, StoredOpens
<1>8. ScreenIsStored'
  BY <1>1, <1>2, <1>5 DEF ScreenIsStored
<1>9. NothingOutlivesItsScreen'
  BY <1>3 DEF NothingOutlivesItsScreen, NoCamera
<1>10. HandedOutIsKept'
  BY <1>5 DEF IInv, HandedOutIsKept
<1>11. Mounted'
  BY <1>1, <1>2, <1>3, LockedBlob DEF Mounted
<1>12. Finished'
  BY <1>2, <1>4 DEF Finished, Enrolling
<1>13. ~stray' => Belongs'
  BY <1>1, <1>2, <1>4, <1>5 DEF Belongs, Enrolling
<1>14. AtStake'
  <2>1. \A key \in used : key \in Safe \/ stored = Lock(key)
    BY DEF IInv, HandedOutIsKept, Safe
  <2>2. used \subseteq Keys
    BY DEF IInv, Inv, TypeOK
  <2>3. stored \notin Blobs => used \subseteq Safe
    BY <2>1, <2>2, LockedBlob
  <2>4. stored \in Blobs => stored = Lock(stored.key) /\ used \subseteq Safe \cup {stored.key}
    <3>1. stored \in Blobs => stored = Lock(stored.key)
      BY DEF IInv, Inv, StoredOpens, Blobs, Lock
    <3> QED
      BY <2>1, <2>2, <3>1, LockedBlob
  <2> QED
    BY <1>1, <1>5, <2>3, <2>4, LockedBlob DEF AtStake, Safe
<1> QED
  BY <1>6, <1>7, <1>8, <1>9, <1>10, <1>11, <1>12, <1>13, <1>14 DEF IInv, Inv


-----------------------------------------------------------------------------
LEMMA InitInv ==
  ASSUME Init
  PROVE  IInv
<1>1. TypeOK
  BY DEF Init, TypeOK, Screens, NoCamera
<1>2. StoredOpens /\ ScreenIsStored /\ NothingOutlivesItsScreen
  BY LockedBlob DEF Init, StoredOpens, ScreenIsStored, NothingOutlivesItsScreen, NoCamera
<1>3. HandedOutIsKept /\ Mounted /\ Finished /\ Belongs /\ AtStake
  BY LockedBlob DEF Init, HandedOutIsKept, Mounted, Finished, Belongs, AtStake, Enrolling, Safe
<1> QED
  BY <1>1, <1>2, <1>3 DEF IInv, Inv

LEMMA NavigateInv ==
  ASSUME IInv, Navigate
  PROVE  IInv'
<1>1. CASE \E to \in {"pair", "settings", "review"} : Go("scan", to)
  BY <1>1, GoInv DEF Screens
<1>2. CASE \E from \in {"pair", "review", "sign"} : Go(from, "scan")
  BY <1>2, GoInv DEF Screens
<1>3. CASE ~wiped /\ Go("settings", "scan")
  BY <1>3, GoInv DEF Screens
<1>4. CASE Go("review", "sign")
  BY <1>4, GoInv DEF Screens
<1> QED
  BY <1>1, <1>2, <1>3, <1>4 DEF Navigate

LEMMA StutterInv ==
  ASSUME IInv, UNCHANGED vars
  PROVE  IInv'
<1>1. UNCHANGED <<device, app, setup, opening, restored, wiped, record>>
  BY DEF vars, restore, settings
<1>2. TypeOK' /\ NothingOutlivesItsScreen'
  BY DEF IInv, Inv, TypeOK, NothingOutlivesItsScreen, vars,
         device, app, setup, restore, settings, record
<1> QED
  BY <1>1, <1>2, Quiet

LEMMA NextInv ==
  ASSUME IInv, [Next]_vars
  PROVE  IInv'
<1>1. CASE SetupStep
  BY <1>1, CreateInv, LockFailsInv, LockedInv, EnrolledInv, TickGateInv, ContinueInv,
     ToRestoreInv DEF SetupStep
<1>2. CASE RestoreStep
  BY <1>2, UnlockInv, OpenedInv, ContinueRestoredInv, CancelInv, StartCameraInv, GrantedInv,
     DeniedInv, CameraEndsInv, RetypeInv DEF RestoreStep
<1>3. CASE SettingsStep
  BY <1>3, ToggleInv, ShowPaperInv, RevealInv, RevealedInv, HideItInv, MinuteEndsInv, EraseInv
     DEF SettingsStep
<1> QED
  BY <1>1, <1>2, <1>3, ReloadInv, DamageInv, NavigateInv, StutterInv DEF Next

(* In every state reachable: what is stored opens; screen and sheet are of  *)
(* the key stored, until an operation that outlived its screen stores       *)
(* another; nothing held for a screen outlives it.                          *)
THEOREM Invariance == Spec => []Inv
<1>1. Init => IInv
  BY InitInv
<1>2. IInv /\ [Next]_vars => IInv'
  BY NextInv
<1>3. IInv => Inv
  BY DEF IInv
<1> QED
  BY <1>1, <1>2, <1>3, PTL DEF Spec

(* A key whose address was handed out leaves the phone, unprinted, only by  *)
(* erasing, by damage, or by the blob of an operation whose screen closed.  *)
THEOREM HandedOutKept == Spec => []HandedOutIsKept
<1>1. Init => IInv
  BY InitInv
<1>2. IInv /\ [Next]_vars => IInv'
  BY NextInv
<1>3. IInv => HandedOutIsKept
  BY DEF IInv
<1> QED
  BY <1>1, <1>2, <1>3, PTL DEF Spec

(* Only Locked and Opened put a blob where something is stored.  A screen   *)
(* that is open does it once, on a phone on which nothing else is stored.   *)
THEOREM Unreplaced == Spec => UnreadableIsNotReplaced
<1>1. Init => IInv
  BY InitInv
<1>2. IInv /\ [Next]_vars => IInv'
  BY NextInv
<1>3. ASSUME IInv, [Next]_vars, stored = Damaged, ~stray'
      PROVE  stored' \in {Damaged, None}
  <2>1. Mounted /\ (~stray => Belongs)
    BY <1>3 DEF IInv
  <2>2. ASSUME NEW key \in Keys, Locked(key) PROVE FALSE
    <3>1. mine = key /\ ~stray
      BY <1>3, <2>2 DEF Locked, Save
    <3>2. screen = "setup" /\ paper = None
      BY <2>1, <3>1, LockedBlob DEF Mounted
    <3>3. PICK k \in Keys : Enrolling(k) /\ mine = k
      BY <1>3, <2>1, <3>1, <3>2, LockedBlob DEF Belongs
    <3> QED
      BY <2>2, <3>1, <3>3 DEF Locked, Enrolling
  <2>3. ASSUME Opened PROVE stored' = stored
    <3>1. CASE Opens(opening)
      <4>1. opening.here /\ ~stray
        BY <1>3, <2>3, <3>1 DEF Opened, Save
      <4>2. screen = "restore" /\ restored = None
        BY <2>1, <2>3, <4>1 DEF Opened, Mounted
      <4> QED
        BY <1>3, <2>1, <4>1, <4>2, LockedBlob DEF Belongs
    <3> QED
      BY <2>3, <3>1 DEF Opened
  <2>4. CASE SetupStep
    BY <1>3, <2>2, <2>4 DEF SetupStep, Create, LockFails, Enrolled, TickGate, Continue,
       ToRestore, device
  <2>5. CASE RestoreStep
    BY <1>3, <2>3, <2>5 DEF RestoreStep, Unlock, ContinueRestored, Cancel, StartCamera,
       Granted, Denied, CameraEnds, Retype, device
  <2>6. CASE SettingsStep
    BY <1>3, <2>6 DEF SettingsStep, Toggle, ShowPaper, Reveal, Revealed, HideIt, MinuteEnds,
       Erase, device
  <2>7. CASE Navigate
    BY <1>3, <2>7 DEF Navigate, Go, device
  <2>8. CASE Reload \/ UNCHANGED vars
    BY <1>3, <2>8 DEF Reload, vars, device
  <2> QED
    BY <1>3, <2>4, <2>5, <2>6, <2>7, <2>8 DEF Next, Damage
<1>4. IInv /\ [Next]_vars => [stored = Damaged /\ ~stray' => stored' \in {Damaged, None}]_vars
  BY <1>3
<1> QED
  BY <1>1, <1>2, <1>4, PTL DEF Spec, UnreadableIsNotReplaced
====

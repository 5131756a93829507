------------------------------ MODULE RunningProofs ----------------------------
(***************************************************************************)
(* Proofs about the components of RunningParts.  Of each there is an       *)
(* inductive invariant here, about its own variables, which its own actions*)
(* keep.                                                                   *)
(***************************************************************************)
EXTENDS RunningParts, Sequences, TLAPS

-----------------------------------------------------------------------------
(* Updates of the application and moves of its data (Maintenance).          *)

\* An update is installed by itself: no check counts and nothing is prepared.
UpkeepInstallsAlone ==
  update.active =>
    /\ update.status \in {"downloading", "installing"} \/ update.awaiting
    /\ \A c \in checks : c.sequence # update.sequence
    /\ front.step \in {"idle", "wait"} /\ front.preview = "none"
    /\ native \notin {"moving", "cleaning"} /\ preflight.phase # "claimed"

UpkeepChecksBehind == \A c \in checks : c.sequence <= update.sequence

UpkeepAwaiting == update.awaiting => update.active /\ update.status = "ready_to_restart"

\* A session is claimed only while the front end waits for the answer of its call.
UpkeepClaimed ==
  preflight.phase = "claimed" => front.step = "call" /\ preflight.answer = "none"

\* A preparation and a call that answers a preview are never under way together.
UpkeepOneAtATime ==
  /\ front.call # "none" => front.step = "idle" /\ front.preview = "none"
  /\ front.step \in {"wait", "begin", "call"} => front.preview = "none"

\* What is prepared, previewed or confirmed is so in the open sheet.
UpkeepSheetIsOpen ==
  front.step # "idle" \/ front.preview # "none" \/ front.call = "confirm" => front.open

\* Files that are moved or cleaned up are seen to be, so that no update is offered.
UpkeepMoveIsSeen ==
  native \in {"moving", "cleaning"} =>
    \/ shown # "none"
    \/ front.open /\ (front.step \in {"begin", "call", "stop"} \/ front.call # "none")

UpkeepOperationIsShown ==
  native # "none" /\ shown = "none" => front.step \in {"call", "stop"} \/ front.call # "none"

\* A migration begins with no operation, and what it has prepared is withdrawn with it.
UpkeepMigration ==
  front.kind = "migration" =>
    /\ front.step \in {"wait", "begin"} => native = "none"
    /\ preflight.phase = "claimed" => native = "waiting"
    /\ front.step \in {"call", "stop"} /\ native \in {"waiting", "prepared"} =>
         \/ preflight.phase = "claimed"
         \/ preflight.phase = "over" /\ preflight.done /\ ~preflight.cancelled
    /\ front.step = "idle" /\ front.cancelled /\ front.registered =>
         native \notin {"waiting", "prepared"}

UpkeepTypes == Upkeep!TypeOK

UpkeepInv ==
  /\ UpkeepTypes /\ UpkeepInstallsAlone /\ UpkeepChecksBehind /\ UpkeepAwaiting /\ UpkeepClaimed
  /\ UpkeepOneAtATime /\ UpkeepSheetIsOpen /\ UpkeepMoveIsSeen /\ UpkeepOperationIsShown
  /\ UpkeepMigration

LEMMA UpkeepStarts == Upkeep!Init => UpkeepInv
BY ConstantsAssumption
   DEF Upkeep!Init, Upkeep!TypeOK, Upkeep!UpdateStates, Upkeep!Fronts, Upkeep!Preflights,
       Upkeep!Statuses, Upkeep!Busy, Upkeep!Operations, UpkeepInv, UpkeepTypes,
       UpkeepInstallsAlone, UpkeepChecksBehind, UpkeepAwaiting, UpkeepClaimed,
       UpkeepOneAtATime, UpkeepSheetIsOpen, UpkeepMoveIsSeen, UpkeepOperationIsShown,
       UpkeepMigration

\* A check takes the next number, unless an update is being installed.
LEMMA UpkeepCheckForUpdates ==
  ASSUME UpkeepInv, NEW silent \in BOOLEAN, Upkeep!checkForUpdates(silent)
  PROVE  /\ update' \in Upkeep!UpdateStates
         /\ checks' \subseteq [sequence : 1..MaxChecks, silent : BOOLEAN]
         /\ UpkeepChecksBehind'
         /\ update'.active <=> update.active
         /\ update'.awaiting = update.awaiting
         /\ update.active => update' = update /\ checks' = checks
<1>1. /\ update \in Upkeep!UpdateStates /\ update.sequence \in 0..MaxChecks
      /\ checks \subseteq [sequence : 1..MaxChecks, silent : BOOLEAN]
      /\ MaxChecks \in Nat /\ update.sequence < MaxChecks
  BY ConstantsAssumption
     DEF UpkeepInv, UpkeepTypes, Upkeep!TypeOK, Upkeep!UpdateStates, Upkeep!checkForUpdates
<1>2. CASE update.active
  BY <1>1, <1>2 DEF UpkeepInv, UpkeepChecksBehind, Upkeep!checkForUpdates
<1>3. CASE ~update.active
  <2> DEFINE new == [sequence |-> update.sequence + 1, silent |-> silent]
             next == update.sequence + 1
  <2>1. next \in 0..MaxChecks /\ next \in 1..MaxChecks
    BY <1>1
  <2>2. /\ checks' = checks \cup {new}
        /\ update' = [update EXCEPT !.sequence = next, !.status = "checking",
                                    !.started = update.started \/ silent,
                                    !.postponed = update.postponed /\ silent]
    BY <1>1, <1>3 DEF Upkeep!checkForUpdates, Upkeep!UpdateStates
  <2>3. new \in [sequence : 1..MaxChecks, silent : BOOLEAN] /\ new.sequence = next
    BY <2>1
  <2>4. update'.sequence = next
    BY <1>1, <2>2 DEF Upkeep!UpdateStates
  <2> HIDE DEF next, new
  <2>5. update' \in Upkeep!UpdateStates /\ ~update'.active /\ update'.awaiting = update.awaiting
    BY <1>1, <1>3, <2>1, <2>2 DEF Upkeep!UpdateStates, Upkeep!Statuses, Upkeep!Busy
  <2>6. checks' \subseteq [sequence : 1..MaxChecks, silent : BOOLEAN]
    BY <1>1, <2>2, <2>3
  <2>7. \A c \in checks : c.sequence \in Nat /\ c.sequence <= next
    BY <1>1 DEF UpkeepInv, UpkeepChecksBehind, next
  <2>8. UpkeepChecksBehind'
    BY <2>1, <2>2, <2>3, <2>4, <2>7 DEF UpkeepChecksBehind
  <2> QED
    BY <1>3, <2>5, <2>6, <2>8
<1> QED
  BY <1>2, <1>3

\* Every step of the component keeps it.
LEMMA UpkeepSteps ==
  ASSUME UpkeepInv, Upkeep!Next \/ UNCHANGED maintenanceVars PROVE UpkeepInv'
<1>1. CASE Upkeep!Check
  <2>1. /\ work' = work /\ front' = front /\ shown' = shown /\ preflight' = preflight
        /\ native' = native
        /\ \/ Upkeep!checkForUpdates(FALSE)
           \/ update' = [update EXCEPT !.started = TRUE] /\ checks' = checks
      BY <1>1 DEF Upkeep!Check, Upkeep!Storage
  <2>2. UpkeepTypes' /\ UpkeepInstallsAlone' /\ UpkeepChecksBehind' /\ UpkeepAwaiting'
    <3>1. CASE Upkeep!checkForUpdates(FALSE)
      BY <3>1, <2>1, UpkeepCheckForUpdates
         DEF UpkeepInv, UpkeepTypes, UpkeepInstallsAlone, UpkeepAwaiting, Upkeep!TypeOK,
             Upkeep!Storage
    <3>2. CASE update' = [update EXCEPT !.started = TRUE] /\ checks' = checks
      BY <3>2, <2>1
         DEF UpkeepInv, UpkeepTypes, UpkeepInstallsAlone, UpkeepChecksBehind, UpkeepAwaiting,
             Upkeep!TypeOK, Upkeep!UpdateStates
    <3> QED
      BY <2>1, <3>1, <3>2
  <2>3. UpkeepClaimed' /\ UpkeepOneAtATime' /\ UpkeepSheetIsOpen' /\ UpkeepMoveIsSeen' /\ UpkeepOperationIsShown' /\ UpkeepMigration'
      BY <2>1 DEF UpkeepInv, UpkeepClaimed, UpkeepOneAtATime, UpkeepSheetIsOpen, UpkeepMoveIsSeen, UpkeepOperationIsShown, UpkeepMigration
  <2> QED
    BY <2>1, <2>2, <2>3 DEF UpkeepInv
<1>2. CASE Upkeep!Startup
  <2>1. /\ work' = work /\ front' = front /\ shown' = shown /\ preflight' = preflight
        /\ native' = native
        /\ \/ Upkeep!checkForUpdates(TRUE)
           \/ update' = [update EXCEPT !.started = TRUE] /\ checks' = checks
      BY <1>2 DEF Upkeep!Startup, Upkeep!Storage
  <2>2. UpkeepTypes' /\ UpkeepInstallsAlone' /\ UpkeepChecksBehind' /\ UpkeepAwaiting'
    <3>1. CASE Upkeep!checkForUpdates(TRUE)
      BY <3>1, <2>1, UpkeepCheckForUpdates
         DEF UpkeepInv, UpkeepTypes, UpkeepInstallsAlone, UpkeepAwaiting, Upkeep!TypeOK,
             Upkeep!Storage
    <3>2. CASE update' = [update EXCEPT !.started = TRUE] /\ checks' = checks
      BY <3>2, <2>1
         DEF UpkeepInv, UpkeepTypes, UpkeepInstallsAlone, UpkeepChecksBehind, UpkeepAwaiting,
             Upkeep!TypeOK, Upkeep!UpdateStates
    <3> QED
      BY <2>1, <3>1, <3>2
  <2>3. UpkeepClaimed' /\ UpkeepOneAtATime' /\ UpkeepSheetIsOpen' /\ UpkeepMoveIsSeen' /\ UpkeepOperationIsShown' /\ UpkeepMigration'
      BY <2>1 DEF UpkeepInv, UpkeepClaimed, UpkeepOneAtATime, UpkeepSheetIsOpen, UpkeepMoveIsSeen, UpkeepOperationIsShown, UpkeepMigration
  <2> QED
    BY <2>1, <2>2, <2>3 DEF UpkeepInv
<1>3. ASSUME NEW c \in checks, Upkeep!CheckAnswer(c) PROVE UpkeepInv'
  <2>1. UpkeepTypes'
    <3>1. /\ update \in Upkeep!UpdateStates /\ update.sequence \in 0..MaxChecks /\ MaxChecks \in Nat
          /\ checks \subseteq [sequence : 1..MaxChecks, silent : BOOLEAN]
      BY ConstantsAssumption DEF UpkeepInv, UpkeepTypes, Upkeep!TypeOK, Upkeep!UpdateStates
    <3>2. update' \in Upkeep!UpdateStates
      <4>1. \/ update' = update
            \/ \E found \in BOOLEAN, status \in Upkeep!Statuses :
                 update' = [update EXCEPT !.found = found, !.status = status]
            \/ \E status \in Upkeep!Statuses : update' = [update EXCEPT !.status = status]
        BY <1>3 DEF Upkeep!CheckAnswer, Upkeep!Statuses, Upkeep!Installable
      <4> QED
        BY <3>1, <4>1 DEF Upkeep!UpdateStates
    <3>3. checks' \subseteq [sequence : 1..MaxChecks, silent : BOOLEAN]
      BY <1>3, <3>1
         DEF Upkeep!CheckAnswer
    <3> QED
      BY <1>3, <3>2, <3>3
         DEF UpkeepInv, UpkeepTypes, Upkeep!TypeOK, Upkeep!CheckAnswer, Upkeep!Storage
  <2>2. UpkeepInstallsAlone' /\ UpkeepChecksBehind' /\ UpkeepAwaiting'
    <3>1. /\ update \in Upkeep!UpdateStates /\ update.sequence \in Nat
          /\ \A d \in checks : d.sequence \in Nat /\ d.sequence <= update.sequence
      BY ConstantsAssumption
         DEF UpkeepInv, UpkeepTypes, UpkeepChecksBehind, Upkeep!TypeOK, Upkeep!UpdateStates
    <3>2. UpkeepChecksBehind'
      BY <1>3, <3>1 DEF UpkeepChecksBehind, Upkeep!UpdateStates, Upkeep!CheckAnswer
    <3>3. UpkeepInstallsAlone'
      BY <1>3, <3>1
         DEF UpkeepInv, UpkeepInstallsAlone, UpkeepAwaiting, UpkeepSheetIsOpen, UpkeepClaimed,
             UpkeepMoveIsSeen, UpkeepOneAtATime, Upkeep!UpdateStates,
             Upkeep!CheckAnswer, Upkeep!Busy, Upkeep!Installable, Upkeep!Storage
    <3>4. UpkeepAwaiting'
      BY <1>3, <3>1
         DEF UpkeepInv, UpkeepInstallsAlone, UpkeepAwaiting, Upkeep!UpdateStates,
             Upkeep!CheckAnswer, Upkeep!Busy, Upkeep!Installable, Upkeep!Storage
    <3> QED
      BY <3>2, <3>3, <3>4
  <2>3. UpkeepClaimed' /\ UpkeepOneAtATime' /\ UpkeepSheetIsOpen' /\ UpkeepMoveIsSeen' /\ UpkeepOperationIsShown' /\ UpkeepMigration'
    BY <1>3
       DEF UpkeepInv, UpkeepClaimed, UpkeepOneAtATime, UpkeepSheetIsOpen,
           UpkeepMoveIsSeen, UpkeepOperationIsShown, UpkeepMigration,
           Upkeep!CheckAnswer, Upkeep!Storage
  <2> QED
    BY <2>1, <2>2, <2>3 DEF UpkeepInv
<1>4. CASE Upkeep!Install
  <2>1. UpkeepTypes'
    <3>1. /\ update \in Upkeep!UpdateStates /\ update.sequence \in 0..MaxChecks /\ MaxChecks \in Nat
          /\ checks \subseteq [sequence : 1..MaxChecks, silent : BOOLEAN]
      BY ConstantsAssumption DEF UpkeepInv, UpkeepTypes, Upkeep!TypeOK, Upkeep!UpdateStates
    <3>4. update.sequence + 1 \in 0..MaxChecks
      BY <1>4, <3>1 DEF Upkeep!Install, Upkeep!Visible, Upkeep!Preparing
    <3>2. update' \in Upkeep!UpdateStates
      BY <1>4, <3>1, <3>4
         DEF Upkeep!UpdateStates, Upkeep!Install, Upkeep!Visible, Upkeep!Preparing, Upkeep!Statuses, Upkeep!Busy, Upkeep!Installable
    <3>3. checks' \subseteq [sequence : 1..MaxChecks, silent : BOOLEAN]
      BY <1>4, <3>1
         DEF Upkeep!Install, Upkeep!Visible, Upkeep!Preparing
    <3> QED
      BY <1>4, <3>2, <3>3
         DEF UpkeepInv, UpkeepTypes, Upkeep!TypeOK, Upkeep!Install, Upkeep!Visible, Upkeep!Preparing, Upkeep!Storage
  <2>2. UpkeepInstallsAlone' /\ UpkeepChecksBehind' /\ UpkeepAwaiting'
    <3>1. /\ update \in Upkeep!UpdateStates /\ update.sequence \in Nat
          /\ \A d \in checks : d.sequence \in Nat /\ d.sequence <= update.sequence
      BY ConstantsAssumption
         DEF UpkeepInv, UpkeepTypes, UpkeepChecksBehind, Upkeep!TypeOK, Upkeep!UpdateStates
    <3>2. UpkeepChecksBehind'
      BY <1>4, <3>1 DEF UpkeepChecksBehind, Upkeep!UpdateStates, Upkeep!Install, Upkeep!Visible, Upkeep!Preparing
    <3>3. UpkeepInstallsAlone'
      BY <1>4, <3>1
         DEF UpkeepInv, UpkeepInstallsAlone, UpkeepAwaiting, UpkeepSheetIsOpen, UpkeepClaimed,
             UpkeepMoveIsSeen, UpkeepOneAtATime, Upkeep!UpdateStates,
             Upkeep!Install, Upkeep!Visible, Upkeep!Preparing, Upkeep!Busy, Upkeep!Installable, Upkeep!Storage
    <3>4. UpkeepAwaiting'
      BY <1>4, <3>1
         DEF UpkeepInv, UpkeepInstallsAlone, UpkeepAwaiting, Upkeep!UpdateStates,
             Upkeep!Install, Upkeep!Visible, Upkeep!Preparing, Upkeep!Busy, Upkeep!Installable, Upkeep!Storage
    <3> QED
      BY <3>2, <3>3, <3>4
  <2>3. UpkeepClaimed' /\ UpkeepOneAtATime' /\ UpkeepSheetIsOpen' /\ UpkeepMoveIsSeen' /\ UpkeepOperationIsShown' /\ UpkeepMigration'
    BY <1>4
       DEF UpkeepInv, UpkeepClaimed, UpkeepOneAtATime, UpkeepSheetIsOpen,
           UpkeepMoveIsSeen, UpkeepOperationIsShown, UpkeepMigration,
           Upkeep!Install, Upkeep!Visible, Upkeep!Preparing, Upkeep!Storage
  <2> QED
    BY <2>1, <2>2, <2>3 DEF UpkeepInv
<1>5. CASE Upkeep!Installed
  <2>1. UpkeepTypes'
    <3>1. /\ update \in Upkeep!UpdateStates /\ update.sequence \in 0..MaxChecks /\ MaxChecks \in Nat
          /\ checks \subseteq [sequence : 1..MaxChecks, silent : BOOLEAN]
      BY ConstantsAssumption DEF UpkeepInv, UpkeepTypes, Upkeep!TypeOK, Upkeep!UpdateStates
    <3>2. update' \in Upkeep!UpdateStates
      <4>1. \/ update' = [update EXCEPT !.status = "installing"]
            \/ update' = [update EXCEPT !.awaiting = TRUE, !.status = "ready_to_restart"]
            \/ update' = [update EXCEPT !.active = FALSE, !.status = "failed"]
        BY <1>5 DEF Upkeep!Installed
      <4>2. {"installing", "ready_to_restart", "failed"} \subseteq Upkeep!Statuses
        BY DEF Upkeep!Statuses, Upkeep!Busy
      <4> QED
        BY <3>1, <4>1, <4>2 DEF Upkeep!UpdateStates
    <3>3. checks' \subseteq [sequence : 1..MaxChecks, silent : BOOLEAN]
      BY <1>5, <3>1
         DEF Upkeep!Installed
    <3> QED
      BY <1>5, <3>2, <3>3
         DEF UpkeepInv, UpkeepTypes, Upkeep!TypeOK, Upkeep!Installed, Upkeep!Storage
  <2>2. UpkeepInstallsAlone' /\ UpkeepChecksBehind' /\ UpkeepAwaiting'
    <3>1. /\ update \in Upkeep!UpdateStates /\ update.sequence \in Nat
          /\ \A d \in checks : d.sequence \in Nat /\ d.sequence <= update.sequence
      BY ConstantsAssumption
         DEF UpkeepInv, UpkeepTypes, UpkeepChecksBehind, Upkeep!TypeOK, Upkeep!UpdateStates
    <3>2. UpkeepChecksBehind'
      BY <1>5, <3>1 DEF UpkeepChecksBehind, Upkeep!UpdateStates, Upkeep!Installed
    <3>3. UpkeepInstallsAlone'
      <4>1. /\ \A c \in checks : c.sequence # update.sequence
            /\ front.step \in {"idle", "wait"} /\ front.preview = "none"
            /\ native \notin {"moving", "cleaning"} /\ preflight.phase # "claimed"
        BY <1>5 DEF UpkeepInv, UpkeepInstallsAlone, Upkeep!Installed
      <4>2. /\ update'.sequence = update.sequence /\ checks' = checks
            /\ front' = front /\ native' = native /\ preflight' = preflight
        BY <1>5, <3>1 DEF Upkeep!UpdateStates, Upkeep!Installed, Upkeep!Storage
      <4>3. update'.active => update'.status \in {"downloading", "installing"} \/ update'.awaiting
        BY <1>5, <3>1 DEF Upkeep!UpdateStates, Upkeep!Installed
      <4> QED
        BY <4>1, <4>2, <4>3 DEF UpkeepInstallsAlone
    <3>4. UpkeepAwaiting'
      BY <1>5, <3>1
         DEF UpkeepInv, UpkeepInstallsAlone, UpkeepAwaiting, Upkeep!UpdateStates,
             Upkeep!Installed, Upkeep!Busy, Upkeep!Installable, Upkeep!Storage
    <3> QED
      BY <3>2, <3>3, <3>4
  <2>3. UpkeepClaimed' /\ UpkeepOneAtATime' /\ UpkeepSheetIsOpen' /\ UpkeepMoveIsSeen' /\ UpkeepOperationIsShown' /\ UpkeepMigration'
    BY <1>5
       DEF UpkeepInv, UpkeepClaimed, UpkeepOneAtATime, UpkeepSheetIsOpen,
           UpkeepMoveIsSeen, UpkeepOperationIsShown, UpkeepMigration,
           Upkeep!Installed, Upkeep!Storage
  <2> QED
    BY <2>1, <2>2, <2>3 DEF UpkeepInv
<1>6. CASE Upkeep!postponeUpdateReminder
  <2>1. UpkeepTypes'
    <3>1. /\ update \in Upkeep!UpdateStates /\ update.sequence \in 0..MaxChecks /\ MaxChecks \in Nat
          /\ checks \subseteq [sequence : 1..MaxChecks, silent : BOOLEAN]
      BY ConstantsAssumption DEF UpkeepInv, UpkeepTypes, Upkeep!TypeOK, Upkeep!UpdateStates
    <3>4. update.sequence + 1 \in 0..MaxChecks
      BY <1>6, <3>1 DEF Upkeep!postponeUpdateReminder, Upkeep!Visible
    <3>2. update' \in Upkeep!UpdateStates
      BY <1>6, <3>1, <3>4
         DEF Upkeep!UpdateStates, Upkeep!postponeUpdateReminder, Upkeep!Visible, Upkeep!Statuses, Upkeep!Busy, Upkeep!Installable
    <3>3. checks' \subseteq [sequence : 1..MaxChecks, silent : BOOLEAN]
      BY <1>6, <3>1
         DEF Upkeep!postponeUpdateReminder, Upkeep!Visible
    <3> QED
      BY <1>6, <3>2, <3>3
         DEF UpkeepInv, UpkeepTypes, Upkeep!TypeOK, Upkeep!postponeUpdateReminder, Upkeep!Visible, Upkeep!Storage
  <2>2. UpkeepInstallsAlone' /\ UpkeepChecksBehind' /\ UpkeepAwaiting'
    <3>1. /\ update \in Upkeep!UpdateStates /\ update.sequence \in Nat
          /\ \A d \in checks : d.sequence \in Nat /\ d.sequence <= update.sequence
      BY ConstantsAssumption
         DEF UpkeepInv, UpkeepTypes, UpkeepChecksBehind, Upkeep!TypeOK, Upkeep!UpdateStates
    <3>2. UpkeepChecksBehind'
      BY <1>6, <3>1 DEF UpkeepChecksBehind, Upkeep!UpdateStates, Upkeep!postponeUpdateReminder, Upkeep!Visible
    <3>3. UpkeepInstallsAlone'
      BY <1>6, <3>1
         DEF UpkeepInv, UpkeepInstallsAlone, UpkeepAwaiting, UpkeepSheetIsOpen, UpkeepClaimed,
             UpkeepMoveIsSeen, UpkeepOneAtATime, Upkeep!UpdateStates,
             Upkeep!postponeUpdateReminder, Upkeep!Visible, Upkeep!Busy, Upkeep!Installable, Upkeep!Storage
    <3>4. UpkeepAwaiting'
      BY <1>6, <3>1
         DEF UpkeepInv, UpkeepInstallsAlone, UpkeepAwaiting, Upkeep!UpdateStates,
             Upkeep!postponeUpdateReminder, Upkeep!Visible, Upkeep!Busy, Upkeep!Installable, Upkeep!Storage
    <3> QED
      BY <3>2, <3>3, <3>4
  <2>3. UpkeepClaimed' /\ UpkeepOneAtATime' /\ UpkeepSheetIsOpen' /\ UpkeepMoveIsSeen' /\ UpkeepOperationIsShown' /\ UpkeepMigration'
    BY <1>6
       DEF UpkeepInv, UpkeepClaimed, UpkeepOneAtATime, UpkeepSheetIsOpen,
           UpkeepMoveIsSeen, UpkeepOperationIsShown, UpkeepMigration,
           Upkeep!postponeUpdateReminder, Upkeep!Visible, Upkeep!Storage
  <2> QED
    BY <2>1, <2>2, <2>3 DEF UpkeepInv
<1>7. CASE Upkeep!restartForUpdate
  <2>1. UpkeepTypes'
    BY <1>7, ConstantsAssumption
       DEF UpkeepInv, UpkeepTypes, Upkeep!restartForUpdate, Upkeep!Restarts,
           Upkeep!TypeOK, Upkeep!UpdateStates, Upkeep!Fronts, Upkeep!Preflights,
           Upkeep!Operations, Upkeep!Statuses, Upkeep!Busy, Upkeep!Installable
  <2>2. UpkeepInstallsAlone' /\ UpkeepChecksBehind' /\ UpkeepAwaiting' /\ UpkeepClaimed' /\ UpkeepOneAtATime' /\ UpkeepSheetIsOpen' /\ UpkeepMoveIsSeen' /\ UpkeepOperationIsShown' /\ UpkeepMigration'
    BY <1>7
       DEF UpkeepInv, UpkeepInstallsAlone, UpkeepChecksBehind, UpkeepAwaiting,
           UpkeepClaimed, UpkeepOneAtATime, UpkeepSheetIsOpen, UpkeepMoveIsSeen,
           UpkeepOperationIsShown, UpkeepMigration, Upkeep!restartForUpdate,
           Upkeep!Restarts
  <2> QED
    BY <2>1, <2>2 DEF UpkeepInv
<1>8. CASE Upkeep!restartForDataStorage
  <2>1. UpkeepTypes'
    BY <1>8, ConstantsAssumption
       DEF UpkeepInv, UpkeepTypes, Upkeep!restartForDataStorage, Upkeep!Restarts,
           Upkeep!TypeOK, Upkeep!UpdateStates, Upkeep!Fronts, Upkeep!Preflights,
           Upkeep!Operations, Upkeep!Statuses, Upkeep!Busy, Upkeep!Installable
  <2>2. UpkeepInstallsAlone' /\ UpkeepChecksBehind' /\ UpkeepAwaiting' /\ UpkeepClaimed' /\ UpkeepOneAtATime' /\ UpkeepSheetIsOpen' /\ UpkeepMoveIsSeen' /\ UpkeepOperationIsShown' /\ UpkeepMigration'
    BY <1>8
       DEF UpkeepInv, UpkeepInstallsAlone, UpkeepChecksBehind, UpkeepAwaiting,
           UpkeepClaimed, UpkeepOneAtATime, UpkeepSheetIsOpen, UpkeepMoveIsSeen,
           UpkeepOperationIsShown, UpkeepMigration, Upkeep!restartForDataStorage,
           Upkeep!Restarts
  <2> QED
    BY <2>1, <2>2 DEF UpkeepInv
<1>9. CASE Upkeep!Work
  <2>1. UpkeepTypes'
    BY <1>9
       DEF UpkeepInv, UpkeepTypes, Upkeep!Work, Upkeep!Updates, Upkeep!Storage,
           Upkeep!TypeOK
  <2>2. UpkeepInstallsAlone' /\ UpkeepChecksBehind' /\ UpkeepAwaiting' /\ UpkeepClaimed' /\ UpkeepOneAtATime' /\ UpkeepSheetIsOpen' /\ UpkeepMoveIsSeen' /\ UpkeepOperationIsShown' /\ UpkeepMigration'
    BY <1>9
       DEF UpkeepInv, UpkeepInstallsAlone, UpkeepChecksBehind, UpkeepAwaiting,
           UpkeepClaimed, UpkeepOneAtATime, UpkeepSheetIsOpen, UpkeepMoveIsSeen,
           UpkeepOperationIsShown, UpkeepMigration, Upkeep!Work, Upkeep!Updates,
           Upkeep!Storage
  <2> QED
    BY <2>1, <2>2 DEF UpkeepInv
<1>10. ASSUME NEW kind \in {"migration", "resume", "cleanup"}, Upkeep!Begin(kind) PROVE UpkeepInv'
  <2>1. UpkeepTypes'
    BY <1>10
       DEF UpkeepInv, UpkeepTypes, Upkeep!Begin, Upkeep!Updates, Upkeep!TypeOK,
           Upkeep!Fronts
  <2>2. UpkeepInstallsAlone' /\ UpkeepChecksBehind' /\ UpkeepAwaiting'
    BY <1>10
       DEF UpkeepInv, UpkeepInstallsAlone, UpkeepChecksBehind, UpkeepAwaiting,
           UpkeepTypes, Upkeep!Begin, Upkeep!Updates, Upkeep!TypeOK, Upkeep!Fronts
  <2>3. UpkeepClaimed' /\ UpkeepOneAtATime' /\ UpkeepSheetIsOpen'
    BY <1>10
       DEF UpkeepInv, UpkeepClaimed, UpkeepOneAtATime, UpkeepSheetIsOpen,
           UpkeepTypes, Upkeep!Begin, Upkeep!Updates, Upkeep!TypeOK, Upkeep!Fronts,
           Upkeep!Preflights
  <2>4. UpkeepMoveIsSeen' /\ UpkeepOperationIsShown'
    BY <1>10
       DEF UpkeepInv, UpkeepMoveIsSeen, UpkeepOperationIsShown, UpkeepTypes,
           UpkeepSheetIsOpen, UpkeepClaimed, UpkeepOneAtATime, Upkeep!Begin,
           Upkeep!Updates, Upkeep!TypeOK, Upkeep!Fronts, Upkeep!Preflights,
           Upkeep!Operations
  <2>5. UpkeepMigration'
    BY <1>10
       DEF UpkeepInv, UpkeepMigration, UpkeepTypes, UpkeepClaimed,
           UpkeepOperationIsShown, UpkeepOneAtATime, UpkeepSheetIsOpen,
           Upkeep!Begin, Upkeep!Updates, Upkeep!TypeOK, Upkeep!Fronts,
           Upkeep!Preflights
  <2> QED
    BY <2>1, <2>2, <2>3, <2>4, <2>5 DEF UpkeepInv
<1>11. CASE Upkeep!Prepare
  <2>1. UpkeepTypes'
    BY <1>11
       DEF UpkeepInv, UpkeepTypes, Upkeep!Prepare, Upkeep!preparationBusy,
           Upkeep!Busy, Upkeep!Updates, Upkeep!TypeOK, Upkeep!Fronts
  <2>2. UpkeepInstallsAlone' /\ UpkeepChecksBehind' /\ UpkeepAwaiting'
    BY <1>11
       DEF UpkeepInv, UpkeepInstallsAlone, UpkeepChecksBehind, UpkeepAwaiting,
           UpkeepTypes, Upkeep!Prepare, Upkeep!preparationBusy, Upkeep!Busy,
           Upkeep!Updates, Upkeep!TypeOK, Upkeep!Fronts
  <2>3. UpkeepClaimed' /\ UpkeepOneAtATime' /\ UpkeepSheetIsOpen'
    BY <1>11
       DEF UpkeepInv, UpkeepClaimed, UpkeepOneAtATime, UpkeepSheetIsOpen,
           UpkeepTypes, Upkeep!Prepare, Upkeep!preparationBusy, Upkeep!Busy,
           Upkeep!Updates, Upkeep!TypeOK, Upkeep!Fronts, Upkeep!Preflights
  <2>4. UpkeepMoveIsSeen' /\ UpkeepOperationIsShown'
    BY <1>11
       DEF UpkeepInv, UpkeepMoveIsSeen, UpkeepOperationIsShown, UpkeepTypes,
           UpkeepSheetIsOpen, UpkeepClaimed, UpkeepOneAtATime, Upkeep!Prepare,
           Upkeep!preparationBusy, Upkeep!Busy, Upkeep!Updates, Upkeep!TypeOK,
           Upkeep!Fronts, Upkeep!Preflights, Upkeep!Operations
  <2>5. UpkeepMigration'
    BY <1>11
       DEF UpkeepInv, UpkeepMigration, UpkeepTypes, UpkeepClaimed,
           UpkeepOperationIsShown, UpkeepOneAtATime, UpkeepSheetIsOpen,
           Upkeep!Prepare, Upkeep!preparationBusy, Upkeep!Busy, Upkeep!Updates,
           Upkeep!TypeOK, Upkeep!Fronts, Upkeep!Preflights
  <2> QED
    BY <2>1, <2>2, <2>3, <2>4, <2>5 DEF UpkeepInv
<1>12. CASE Upkeep!Registered
  <2>1. /\ update' = update /\ checks' = checks /\ work' = work /\ shown' = shown
        /\ native' = native /\ front.step = "begin" /\ front \in Upkeep!Fronts
        /\ preflight \in Upkeep!Preflights
    BY <1>12 DEF UpkeepInv, UpkeepTypes, Upkeep!TypeOK, Upkeep!Registered, Upkeep!Updates
  <2>2. PICK next \in {"stop", "call"}, turn \in {"over", "begun"}, reg \in BOOLEAN :
          /\ front' = [front EXCEPT !.registered = reg, !.step = next]
          /\ next = "call" => reg /\ ~front.cancelled
          /\ \/ /\ preflight.phase \notin {"begun", "claimed"} /\ reg
                /\ turn = "over" <=> front.cancelled
                /\ next = "stop" <=> front.cancelled
                /\ preflight' = [phase |-> turn, cancelled |-> front.cancelled, done |-> FALSE,
                                 answer |-> "none"]
             \/ next = "stop" /\ preflight' = preflight /\ reg = front.registered
    <3>1. CASE /\ preflight.phase \notin {"begun", "claimed"}
               /\ preflight' = [phase |-> IF front.cancelled THEN "over" ELSE "begun",
                                cancelled |-> front.cancelled, done |-> FALSE, answer |-> "none"]
               /\ front' = [front EXCEPT !.registered = TRUE,
                                         !.step = IF front.cancelled THEN "stop" ELSE "call"]
      <4>1. CASE front.cancelled
        BY <2>1, <3>1, <4>1 DEF Upkeep!Fronts
      <4>2. CASE ~front.cancelled
        BY <2>1, <3>1, <4>2 DEF Upkeep!Fronts
      <4> QED
        BY <4>1, <4>2
    <3>2. CASE front' = [front EXCEPT !.step = "stop"] /\ UNCHANGED preflight
      <4>1. front' = [front EXCEPT !.registered = front.registered, !.step = "stop"]
        BY <2>1, <3>2 DEF Upkeep!Fronts
      <4>2. front.registered \in BOOLEAN
        BY <2>1 DEF Upkeep!Fronts
      <4> QED
        BY <3>2, <4>1, <4>2
    <3> QED
      BY <1>12, <3>1, <3>2 DEF Upkeep!Registered
  <2>3. preflight' \in Upkeep!Preflights
    <3>1. front.cancelled \in BOOLEAN
      BY <2>1 DEF Upkeep!Fronts
    <3>2. [phase |-> turn, cancelled |-> front.cancelled, done |-> FALSE, answer |-> "none"]
            \in Upkeep!Preflights
      BY <3>1, <2>2 DEF Upkeep!Preflights
    <3> QED
      BY <2>1, <2>2, <3>2
  <2>4. /\ front' \in Upkeep!Fronts
        /\ front'.step = next /\ front'.registered = reg /\ front'.call = front.call
        /\ front'.preview = front.preview /\ front'.open = front.open /\ front'.kind = front.kind
        /\ front'.cancelled = front.cancelled
    BY <2>1, <2>2 DEF Upkeep!Fronts
  <2>5. UpkeepTypes'
    BY <2>1, <2>2, <2>3, <2>4
       DEF UpkeepInv, UpkeepTypes, Upkeep!Fronts, Upkeep!Preflights, Upkeep!TypeOK
  <2>6. UpkeepInstallsAlone'
    BY <2>1, <2>2, <2>3, <2>4
       DEF UpkeepInv, UpkeepInstallsAlone, Upkeep!Fronts, Upkeep!Preflights
  <2>7. UpkeepChecksBehind'
    BY <2>1, <2>2, <2>3, <2>4
       DEF UpkeepInv, UpkeepChecksBehind, Upkeep!Fronts, Upkeep!Preflights
  <2>8. UpkeepAwaiting'
    BY <2>1, <2>2, <2>3, <2>4
       DEF UpkeepInv, UpkeepAwaiting, Upkeep!Fronts, Upkeep!Preflights
  <2>9. UpkeepClaimed'
    BY <2>1, <2>2, <2>3, <2>4
       DEF UpkeepInv, UpkeepClaimed, Upkeep!Fronts, Upkeep!Preflights
  <2>10. UpkeepOneAtATime'
    BY <2>1, <2>2, <2>3, <2>4
       DEF UpkeepInv, UpkeepOneAtATime, Upkeep!Fronts, Upkeep!Preflights
  <2>11. UpkeepSheetIsOpen'
    BY <2>1, <2>2, <2>3, <2>4
       DEF UpkeepInv, UpkeepSheetIsOpen, Upkeep!Fronts, Upkeep!Preflights
  <2>12. UpkeepMoveIsSeen'
    BY <2>1, <2>2, <2>3, <2>4
       DEF UpkeepInv, UpkeepMoveIsSeen, UpkeepSheetIsOpen, UpkeepOneAtATime, Upkeep!Fronts, Upkeep!Preflights
  <2>13. UpkeepOperationIsShown'
    BY <2>1, <2>2, <2>3, <2>4
       DEF UpkeepInv, UpkeepOperationIsShown, UpkeepSheetIsOpen, UpkeepOneAtATime, Upkeep!Fronts, Upkeep!Preflights
  <2>14. UpkeepMigration'
    BY <2>1, <2>2, <2>3, <2>4
       DEF UpkeepInv, UpkeepMigration, UpkeepOperationIsShown, UpkeepOneAtATime, UpkeepClaimed, Upkeep!Fronts, Upkeep!Preflights
  <2> QED
    BY <2>1, <2>2, <2>3, <2>4, <2>5, <2>6, <2>7, <2>8, <2>9, <2>10, <2>11, <2>12, <2>13,
       <2>14 DEF UpkeepInv
<1>13. CASE Upkeep!CancelPreparing
  <2>1. UpkeepTypes'
    BY <1>13
       DEF UpkeepInv, UpkeepTypes, Upkeep!CancelPreparing, Upkeep!Preparing,
           Upkeep!Updates, Upkeep!TypeOK, Upkeep!Fronts
  <2>2. UpkeepInstallsAlone' /\ UpkeepChecksBehind' /\ UpkeepAwaiting'
    BY <1>13
       DEF UpkeepInv, UpkeepInstallsAlone, UpkeepChecksBehind, UpkeepAwaiting,
           UpkeepTypes, Upkeep!CancelPreparing, Upkeep!Preparing, Upkeep!Updates,
           Upkeep!TypeOK, Upkeep!Fronts
  <2>3. UpkeepClaimed'
    BY <1>13
       DEF UpkeepInv, UpkeepClaimed, UpkeepTypes, UpkeepOneAtATime,
           UpkeepSheetIsOpen, Upkeep!CancelPreparing, Upkeep!Preparing,
           Upkeep!Updates, Upkeep!TypeOK, Upkeep!Fronts, Upkeep!Preflights
  <2>4. UpkeepOneAtATime'
    BY <1>13
       DEF UpkeepInv, UpkeepOneAtATime, UpkeepTypes, UpkeepClaimed,
           UpkeepSheetIsOpen, Upkeep!CancelPreparing, Upkeep!Preparing,
           Upkeep!Updates, Upkeep!TypeOK, Upkeep!Fronts, Upkeep!Preflights
  <2>5. UpkeepSheetIsOpen'
    BY <1>13
       DEF UpkeepInv, UpkeepSheetIsOpen, UpkeepTypes, UpkeepClaimed,
           UpkeepOneAtATime, Upkeep!CancelPreparing, Upkeep!Preparing,
           Upkeep!Updates, Upkeep!TypeOK, Upkeep!Fronts, Upkeep!Preflights
  <2>6. UpkeepMoveIsSeen' /\ UpkeepOperationIsShown'
    BY <1>13
       DEF UpkeepInv, UpkeepMoveIsSeen, UpkeepOperationIsShown, UpkeepTypes,
           UpkeepSheetIsOpen, UpkeepClaimed, UpkeepOneAtATime,
           Upkeep!CancelPreparing, Upkeep!Preparing, Upkeep!Updates, Upkeep!TypeOK,
           Upkeep!Fronts, Upkeep!Preflights, Upkeep!Operations
  <2>7. UpkeepMigration'
    BY <1>13
       DEF UpkeepInv, UpkeepMigration, UpkeepTypes, UpkeepClaimed,
           UpkeepOperationIsShown, UpkeepOneAtATime, UpkeepSheetIsOpen,
           Upkeep!CancelPreparing, Upkeep!Preparing, Upkeep!Updates, Upkeep!TypeOK,
           Upkeep!Fronts, Upkeep!Preflights
  <2> QED
    BY <2>1, <2>2, <2>3, <2>4, <2>5, <2>6, <2>7 DEF UpkeepInv
<1>14. CASE Upkeep!NativeCancel
  <2>1. UpkeepTypes'
    BY <1>14
       DEF UpkeepInv, UpkeepTypes, Upkeep!NativeCancel, Upkeep!Updates,
           Upkeep!TypeOK, Upkeep!Preflights, Upkeep!Operations
  <2>2. UpkeepInstallsAlone' /\ UpkeepChecksBehind' /\ UpkeepAwaiting'
    BY <1>14
       DEF UpkeepInv, UpkeepInstallsAlone, UpkeepChecksBehind, UpkeepAwaiting,
           UpkeepTypes, Upkeep!NativeCancel, Upkeep!Updates, Upkeep!TypeOK,
           Upkeep!Fronts
  <2>3. UpkeepClaimed' /\ UpkeepOneAtATime' /\ UpkeepSheetIsOpen'
    BY <1>14
       DEF UpkeepInv, UpkeepClaimed, UpkeepOneAtATime, UpkeepSheetIsOpen,
           UpkeepTypes, Upkeep!NativeCancel, Upkeep!Updates, Upkeep!TypeOK,
           Upkeep!Fronts, Upkeep!Preflights
  <2>4. UpkeepMoveIsSeen' /\ UpkeepOperationIsShown'
    BY <1>14
       DEF UpkeepInv, UpkeepMoveIsSeen, UpkeepOperationIsShown, UpkeepTypes,
           UpkeepSheetIsOpen, UpkeepClaimed, UpkeepOneAtATime, Upkeep!NativeCancel,
           Upkeep!Updates, Upkeep!TypeOK, Upkeep!Fronts, Upkeep!Preflights,
           Upkeep!Operations
  <2>5. UpkeepMigration'
    BY <1>14
       DEF UpkeepInv, UpkeepMigration, UpkeepTypes, UpkeepClaimed,
           UpkeepOperationIsShown, UpkeepOneAtATime, UpkeepSheetIsOpen,
           Upkeep!NativeCancel, Upkeep!Updates, Upkeep!TypeOK, Upkeep!Fronts,
           Upkeep!Preflights
  <2> QED
    BY <2>1, <2>2, <2>3, <2>4, <2>5 DEF UpkeepInv
<1>15. CASE Upkeep!Claim
  <2>1. UpkeepTypes'
    BY <1>15
       DEF UpkeepInv, UpkeepTypes, Upkeep!Claim, Upkeep!Updates, Upkeep!TypeOK,
           Upkeep!Preflights, Upkeep!Operations
  <2>2. UpkeepInstallsAlone' /\ UpkeepChecksBehind' /\ UpkeepAwaiting'
    BY <1>15
       DEF UpkeepInv, UpkeepInstallsAlone, UpkeepChecksBehind, UpkeepAwaiting,
           UpkeepTypes, Upkeep!Claim, Upkeep!Updates, Upkeep!TypeOK, Upkeep!Fronts
  <2>3. UpkeepClaimed' /\ UpkeepOneAtATime' /\ UpkeepSheetIsOpen'
    BY <1>15
       DEF UpkeepInv, UpkeepClaimed, UpkeepOneAtATime, UpkeepSheetIsOpen,
           UpkeepTypes, Upkeep!Claim, Upkeep!Updates, Upkeep!TypeOK, Upkeep!Fronts,
           Upkeep!Preflights
  <2>4. UpkeepMoveIsSeen' /\ UpkeepOperationIsShown'
    BY <1>15
       DEF UpkeepInv, UpkeepMoveIsSeen, UpkeepOperationIsShown, UpkeepTypes,
           UpkeepSheetIsOpen, UpkeepClaimed, UpkeepOneAtATime, Upkeep!Claim,
           Upkeep!Updates, Upkeep!TypeOK, Upkeep!Fronts, Upkeep!Preflights,
           Upkeep!Operations
  <2>5. UpkeepMigration'
    BY <1>15
       DEF UpkeepInv, UpkeepMigration, UpkeepTypes, UpkeepClaimed,
           UpkeepOperationIsShown, UpkeepOneAtATime, UpkeepSheetIsOpen,
           Upkeep!Claim, Upkeep!Updates, Upkeep!TypeOK, Upkeep!Fronts,
           Upkeep!Preflights
  <2> QED
    BY <2>1, <2>2, <2>3, <2>4, <2>5 DEF UpkeepInv
<1>16. CASE Upkeep!Prepared
  <2>1. UpkeepTypes'
    BY <1>16
       DEF UpkeepInv, UpkeepTypes, Upkeep!Prepared, Upkeep!Updates, Upkeep!TypeOK,
           Upkeep!Preflights, Upkeep!Operations
  <2>2. UpkeepInstallsAlone' /\ UpkeepChecksBehind' /\ UpkeepAwaiting'
    BY <1>16
       DEF UpkeepInv, UpkeepInstallsAlone, UpkeepChecksBehind, UpkeepAwaiting,
           UpkeepTypes, Upkeep!Prepared, Upkeep!Updates, Upkeep!TypeOK,
           Upkeep!Fronts
  <2>3. UpkeepClaimed' /\ UpkeepOneAtATime' /\ UpkeepSheetIsOpen'
    BY <1>16
       DEF UpkeepInv, UpkeepClaimed, UpkeepOneAtATime, UpkeepSheetIsOpen,
           UpkeepTypes, Upkeep!Prepared, Upkeep!Updates, Upkeep!TypeOK,
           Upkeep!Fronts, Upkeep!Preflights
  <2>4. UpkeepMoveIsSeen' /\ UpkeepOperationIsShown'
    BY <1>16
       DEF UpkeepInv, UpkeepMoveIsSeen, UpkeepOperationIsShown, UpkeepTypes,
           UpkeepSheetIsOpen, UpkeepClaimed, UpkeepOneAtATime, Upkeep!Prepared,
           Upkeep!Updates, Upkeep!TypeOK, Upkeep!Fronts, Upkeep!Preflights,
           Upkeep!Operations
  <2>5. UpkeepMigration'
    BY <1>16
       DEF UpkeepInv, UpkeepMigration, UpkeepTypes, UpkeepClaimed,
           UpkeepOperationIsShown, UpkeepOneAtATime, UpkeepSheetIsOpen,
           Upkeep!Prepared, Upkeep!Updates, Upkeep!TypeOK, Upkeep!Fronts,
           Upkeep!Preflights
  <2> QED
    BY <2>1, <2>2, <2>3, <2>4, <2>5 DEF UpkeepInv
<1>17. CASE Upkeep!Resumes
  <2>1. UpkeepTypes'
    BY <1>17
       DEF UpkeepInv, UpkeepTypes, Upkeep!Resumes, Upkeep!Updates, Upkeep!TypeOK,
           Upkeep!Preflights, Upkeep!Operations
  <2>2. UpkeepInstallsAlone' /\ UpkeepChecksBehind' /\ UpkeepAwaiting'
    BY <1>17
       DEF UpkeepInv, UpkeepInstallsAlone, UpkeepChecksBehind, UpkeepAwaiting,
           UpkeepTypes, Upkeep!Resumes, Upkeep!Updates, Upkeep!TypeOK, Upkeep!Fronts
  <2>3. UpkeepClaimed' /\ UpkeepOneAtATime' /\ UpkeepSheetIsOpen'
    BY <1>17
       DEF UpkeepInv, UpkeepClaimed, UpkeepOneAtATime, UpkeepSheetIsOpen,
           UpkeepTypes, Upkeep!Resumes, Upkeep!Updates, Upkeep!TypeOK,
           Upkeep!Fronts, Upkeep!Preflights
  <2>4. UpkeepMoveIsSeen' /\ UpkeepOperationIsShown'
    BY <1>17
       DEF UpkeepInv, UpkeepMoveIsSeen, UpkeepOperationIsShown, UpkeepTypes,
           UpkeepSheetIsOpen, UpkeepClaimed, UpkeepOneAtATime, Upkeep!Resumes,
           Upkeep!Updates, Upkeep!TypeOK, Upkeep!Fronts, Upkeep!Preflights,
           Upkeep!Operations
  <2>5. UpkeepMigration'
    BY <1>17
       DEF UpkeepInv, UpkeepMigration, UpkeepTypes, UpkeepClaimed,
           UpkeepOperationIsShown, UpkeepOneAtATime, UpkeepSheetIsOpen,
           Upkeep!Resumes, Upkeep!Updates, Upkeep!TypeOK, Upkeep!Fronts,
           Upkeep!Preflights
  <2> QED
    BY <2>1, <2>2, <2>3, <2>4, <2>5 DEF UpkeepInv
<1>18. CASE Upkeep!CallAnswer
  <2>1. UpkeepTypes'
    BY <1>18
       DEF UpkeepInv, UpkeepTypes, Upkeep!CallAnswer, Upkeep!Updates, Upkeep!TypeOK,
           Upkeep!Fronts
  <2>2. UpkeepInstallsAlone' /\ UpkeepChecksBehind' /\ UpkeepAwaiting'
    BY <1>18
       DEF UpkeepInv, UpkeepInstallsAlone, UpkeepChecksBehind, UpkeepAwaiting,
           UpkeepTypes, Upkeep!CallAnswer, Upkeep!Updates, Upkeep!TypeOK,
           Upkeep!Fronts
  <2>3. UpkeepClaimed' /\ UpkeepOneAtATime' /\ UpkeepSheetIsOpen'
    BY <1>18
       DEF UpkeepInv, UpkeepClaimed, UpkeepOneAtATime, UpkeepSheetIsOpen,
           UpkeepTypes, Upkeep!CallAnswer, Upkeep!Updates, Upkeep!TypeOK,
           Upkeep!Fronts, Upkeep!Preflights
  <2>4. UpkeepMoveIsSeen' /\ UpkeepOperationIsShown'
    BY <1>18
       DEF UpkeepInv, UpkeepMoveIsSeen, UpkeepOperationIsShown, UpkeepTypes,
           UpkeepSheetIsOpen, UpkeepClaimed, UpkeepOneAtATime, Upkeep!CallAnswer,
           Upkeep!Updates, Upkeep!TypeOK, Upkeep!Fronts, Upkeep!Preflights,
           Upkeep!Operations
  <2>5. UpkeepMigration'
    BY <1>18
       DEF UpkeepInv, UpkeepMigration, UpkeepTypes, UpkeepClaimed,
           UpkeepOperationIsShown, UpkeepOneAtATime, UpkeepSheetIsOpen,
           Upkeep!CallAnswer, Upkeep!Updates, Upkeep!TypeOK, Upkeep!Fronts,
           Upkeep!Preflights
  <2> QED
    BY <2>1, <2>2, <2>3, <2>4, <2>5 DEF UpkeepInv
<1>19. CASE Upkeep!Ends
  <2>1. UpkeepTypes'
    BY <1>19
       DEF UpkeepInv, UpkeepTypes, Upkeep!Ends, Upkeep!Updates, Upkeep!TypeOK,
           Upkeep!Fronts, Upkeep!Preflights
  <2>2. UpkeepInstallsAlone' /\ UpkeepChecksBehind' /\ UpkeepAwaiting'
    BY <1>19
       DEF UpkeepInv, UpkeepInstallsAlone, UpkeepChecksBehind, UpkeepAwaiting,
           UpkeepTypes, Upkeep!Ends, Upkeep!Updates, Upkeep!TypeOK, Upkeep!Fronts
  <2>3. UpkeepClaimed' /\ UpkeepOneAtATime' /\ UpkeepSheetIsOpen'
    BY <1>19
       DEF UpkeepInv, UpkeepClaimed, UpkeepOneAtATime, UpkeepSheetIsOpen,
           UpkeepTypes, Upkeep!Ends, Upkeep!Updates, Upkeep!TypeOK, Upkeep!Fronts,
           Upkeep!Preflights
  <2>4. UpkeepMoveIsSeen' /\ UpkeepOperationIsShown'
    BY <1>19
       DEF UpkeepInv, UpkeepMoveIsSeen, UpkeepOperationIsShown, UpkeepTypes,
           UpkeepSheetIsOpen, UpkeepClaimed, UpkeepOneAtATime, Upkeep!Ends,
           Upkeep!Updates, Upkeep!TypeOK, Upkeep!Fronts, Upkeep!Preflights,
           Upkeep!Operations
  <2>5. UpkeepMigration'
    BY <1>19
       DEF UpkeepInv, UpkeepMigration, UpkeepTypes, UpkeepClaimed,
           UpkeepOperationIsShown, UpkeepOneAtATime, UpkeepSheetIsOpen, Upkeep!Ends,
           Upkeep!Updates, Upkeep!TypeOK, Upkeep!Fronts, Upkeep!Preflights
  <2> QED
    BY <2>1, <2>2, <2>3, <2>4, <2>5 DEF UpkeepInv
<1>20. CASE Upkeep!Confirm
  <2>1. UpkeepTypes'
    BY <1>20
       DEF UpkeepInv, UpkeepTypes, Upkeep!Confirm, Upkeep!Updates, Upkeep!TypeOK,
           Upkeep!Fronts, Upkeep!Operations
  <2>2. UpkeepInstallsAlone' /\ UpkeepChecksBehind' /\ UpkeepAwaiting'
    BY <1>20
       DEF UpkeepInv, UpkeepInstallsAlone, UpkeepChecksBehind, UpkeepAwaiting,
           UpkeepTypes, Upkeep!Confirm, Upkeep!Updates, Upkeep!TypeOK, Upkeep!Fronts
  <2>3. UpkeepClaimed' /\ UpkeepOneAtATime' /\ UpkeepSheetIsOpen'
    BY <1>20
       DEF UpkeepInv, UpkeepClaimed, UpkeepOneAtATime, UpkeepSheetIsOpen,
           UpkeepTypes, Upkeep!Confirm, Upkeep!Updates, Upkeep!TypeOK,
           Upkeep!Fronts, Upkeep!Preflights
  <2>4. UpkeepMoveIsSeen' /\ UpkeepOperationIsShown'
    BY <1>20
       DEF UpkeepInv, UpkeepMoveIsSeen, UpkeepOperationIsShown, UpkeepTypes,
           UpkeepSheetIsOpen, UpkeepClaimed, UpkeepOneAtATime, Upkeep!Confirm,
           Upkeep!Updates, Upkeep!TypeOK, Upkeep!Fronts, Upkeep!Preflights,
           Upkeep!Operations
  <2>5. UpkeepMigration'
    BY <1>20
       DEF UpkeepInv, UpkeepMigration, UpkeepTypes, UpkeepClaimed,
           UpkeepOperationIsShown, UpkeepOneAtATime, UpkeepSheetIsOpen,
           Upkeep!Confirm, Upkeep!Updates, Upkeep!TypeOK, Upkeep!Fronts,
           Upkeep!Preflights
  <2> QED
    BY <2>1, <2>2, <2>3, <2>4, <2>5 DEF UpkeepInv
<1>21. CASE Upkeep!Carried
  <2>1. UpkeepTypes'
    BY <1>21
       DEF UpkeepInv, UpkeepTypes, Upkeep!Carried, Upkeep!Updates, Upkeep!TypeOK,
           Upkeep!Fronts, Upkeep!Operations
  <2>2. UpkeepInstallsAlone' /\ UpkeepChecksBehind' /\ UpkeepAwaiting'
    BY <1>21
       DEF UpkeepInv, UpkeepInstallsAlone, UpkeepChecksBehind, UpkeepAwaiting,
           UpkeepTypes, Upkeep!Carried, Upkeep!Updates, Upkeep!TypeOK, Upkeep!Fronts
  <2>3. UpkeepClaimed' /\ UpkeepOneAtATime' /\ UpkeepSheetIsOpen'
    BY <1>21
       DEF UpkeepInv, UpkeepClaimed, UpkeepOneAtATime, UpkeepSheetIsOpen,
           UpkeepTypes, Upkeep!Carried, Upkeep!Updates, Upkeep!TypeOK,
           Upkeep!Fronts, Upkeep!Preflights
  <2>4. UpkeepMoveIsSeen' /\ UpkeepOperationIsShown'
    BY <1>21
       DEF UpkeepInv, UpkeepMoveIsSeen, UpkeepOperationIsShown, UpkeepTypes,
           UpkeepSheetIsOpen, UpkeepClaimed, UpkeepOneAtATime, Upkeep!Carried,
           Upkeep!Updates, Upkeep!TypeOK, Upkeep!Fronts, Upkeep!Preflights,
           Upkeep!Operations
  <2>5. UpkeepMigration'
    BY <1>21
       DEF UpkeepInv, UpkeepMigration, UpkeepTypes, UpkeepClaimed,
           UpkeepOperationIsShown, UpkeepOneAtATime, UpkeepSheetIsOpen,
           Upkeep!Carried, Upkeep!Updates, Upkeep!TypeOK, Upkeep!Fronts,
           Upkeep!Preflights
  <2> QED
    BY <2>1, <2>2, <2>3, <2>4, <2>5 DEF UpkeepInv
<1>22. CASE Upkeep!Cancel
  <2>1. UpkeepTypes'
    BY <1>22
       DEF UpkeepInv, UpkeepTypes, Upkeep!Cancel, Upkeep!Updates, Upkeep!TypeOK,
           Upkeep!Fronts
  <2>2. UpkeepInstallsAlone' /\ UpkeepChecksBehind' /\ UpkeepAwaiting'
    BY <1>22
       DEF UpkeepInv, UpkeepInstallsAlone, UpkeepChecksBehind, UpkeepAwaiting,
           UpkeepTypes, Upkeep!Cancel, Upkeep!Updates, Upkeep!TypeOK, Upkeep!Fronts
  <2>3. UpkeepClaimed' /\ UpkeepOneAtATime' /\ UpkeepSheetIsOpen'
    BY <1>22
       DEF UpkeepInv, UpkeepClaimed, UpkeepOneAtATime, UpkeepSheetIsOpen,
           UpkeepTypes, Upkeep!Cancel, Upkeep!Updates, Upkeep!TypeOK, Upkeep!Fronts,
           Upkeep!Preflights
  <2>4. UpkeepMoveIsSeen' /\ UpkeepOperationIsShown'
    BY <1>22
       DEF UpkeepInv, UpkeepMoveIsSeen, UpkeepOperationIsShown, UpkeepTypes,
           UpkeepSheetIsOpen, UpkeepClaimed, UpkeepOneAtATime, Upkeep!Cancel,
           Upkeep!Updates, Upkeep!TypeOK, Upkeep!Fronts, Upkeep!Preflights,
           Upkeep!Operations
  <2>5. UpkeepMigration'
    BY <1>22
       DEF UpkeepInv, UpkeepMigration, UpkeepTypes, UpkeepClaimed,
           UpkeepOperationIsShown, UpkeepOneAtATime, UpkeepSheetIsOpen,
           Upkeep!Cancel, Upkeep!Updates, Upkeep!TypeOK, Upkeep!Fronts,
           Upkeep!Preflights
  <2> QED
    BY <2>1, <2>2, <2>3, <2>4, <2>5 DEF UpkeepInv
<1>23. CASE Upkeep!Cancelled
  <2>1. UpkeepTypes'
    BY <1>23
       DEF UpkeepInv, UpkeepTypes, Upkeep!Cancelled, Upkeep!Updates, Upkeep!TypeOK,
           Upkeep!Fronts, Upkeep!Operations
  <2>2. UpkeepInstallsAlone' /\ UpkeepChecksBehind' /\ UpkeepAwaiting'
    BY <1>23
       DEF UpkeepInv, UpkeepInstallsAlone, UpkeepChecksBehind, UpkeepAwaiting,
           UpkeepTypes, Upkeep!Cancelled, Upkeep!Updates, Upkeep!TypeOK,
           Upkeep!Fronts
  <2>3. UpkeepClaimed' /\ UpkeepOneAtATime' /\ UpkeepSheetIsOpen'
    BY <1>23
       DEF UpkeepInv, UpkeepClaimed, UpkeepOneAtATime, UpkeepSheetIsOpen,
           UpkeepTypes, Upkeep!Cancelled, Upkeep!Updates, Upkeep!TypeOK,
           Upkeep!Fronts, Upkeep!Preflights
  <2>4. UpkeepMoveIsSeen' /\ UpkeepOperationIsShown'
    BY <1>23
       DEF UpkeepInv, UpkeepMoveIsSeen, UpkeepOperationIsShown, UpkeepTypes,
           UpkeepSheetIsOpen, UpkeepClaimed, UpkeepOneAtATime, Upkeep!Cancelled,
           Upkeep!Updates, Upkeep!TypeOK, Upkeep!Fronts, Upkeep!Preflights,
           Upkeep!Operations
  <2>5. UpkeepMigration'
    BY <1>23
       DEF UpkeepInv, UpkeepMigration, UpkeepTypes, UpkeepClaimed,
           UpkeepOperationIsShown, UpkeepOneAtATime, UpkeepSheetIsOpen,
           Upkeep!Cancelled, Upkeep!Updates, Upkeep!TypeOK, Upkeep!Fronts,
           Upkeep!Preflights
  <2> QED
    BY <2>1, <2>2, <2>3, <2>4, <2>5 DEF UpkeepInv
<1>24. CASE Upkeep!Answered
  <2>1. UpkeepTypes'
    BY <1>24
       DEF UpkeepInv, UpkeepTypes, Upkeep!Answered, Upkeep!Updates, Upkeep!TypeOK,
           Upkeep!Fronts
  <2>2. UpkeepInstallsAlone' /\ UpkeepChecksBehind' /\ UpkeepAwaiting'
    BY <1>24
       DEF UpkeepInv, UpkeepInstallsAlone, UpkeepChecksBehind, UpkeepAwaiting,
           UpkeepTypes, Upkeep!Answered, Upkeep!Updates, Upkeep!TypeOK,
           Upkeep!Fronts
  <2>3. UpkeepClaimed'
    BY <1>24
       DEF UpkeepInv, UpkeepClaimed, UpkeepTypes, UpkeepOneAtATime,
           UpkeepSheetIsOpen, Upkeep!Answered, Upkeep!Updates, Upkeep!TypeOK,
           Upkeep!Fronts, Upkeep!Preflights
  <2>4. UpkeepOneAtATime'
    BY <1>24
       DEF UpkeepInv, UpkeepOneAtATime, UpkeepTypes, UpkeepClaimed,
           UpkeepSheetIsOpen, Upkeep!Answered, Upkeep!Updates, Upkeep!TypeOK,
           Upkeep!Fronts, Upkeep!Preflights
  <2>5. UpkeepSheetIsOpen'
    BY <1>24
       DEF UpkeepInv, UpkeepSheetIsOpen, UpkeepTypes, UpkeepClaimed,
           UpkeepOneAtATime, Upkeep!Answered, Upkeep!Updates, Upkeep!TypeOK,
           Upkeep!Fronts, Upkeep!Preflights
  <2>6. UpkeepMoveIsSeen' /\ UpkeepOperationIsShown'
    BY <1>24
       DEF UpkeepInv, UpkeepMoveIsSeen, UpkeepOperationIsShown, UpkeepTypes,
           UpkeepSheetIsOpen, UpkeepClaimed, UpkeepOneAtATime, Upkeep!Answered,
           Upkeep!Updates, Upkeep!TypeOK, Upkeep!Fronts, Upkeep!Preflights,
           Upkeep!Operations
  <2>7. UpkeepMigration'
    BY <1>24
       DEF UpkeepInv, UpkeepMigration, UpkeepTypes, UpkeepClaimed,
           UpkeepOperationIsShown, UpkeepOneAtATime, UpkeepSheetIsOpen,
           Upkeep!Answered, Upkeep!Updates, Upkeep!TypeOK, Upkeep!Fronts,
           Upkeep!Preflights
  <2> QED
    BY <2>1, <2>2, <2>3, <2>4, <2>5, <2>6, <2>7 DEF UpkeepInv
<1>25. CASE Upkeep!Close
  <2>1. UpkeepTypes'
    BY <1>25
       DEF UpkeepInv, UpkeepTypes, Upkeep!Close, Upkeep!Updates, Upkeep!TypeOK,
           Upkeep!Fronts
  <2>2. UpkeepInstallsAlone' /\ UpkeepChecksBehind' /\ UpkeepAwaiting'
    BY <1>25
       DEF UpkeepInv, UpkeepInstallsAlone, UpkeepChecksBehind, UpkeepAwaiting,
           UpkeepTypes, Upkeep!Close, Upkeep!Updates, Upkeep!TypeOK, Upkeep!Fronts
  <2>3. UpkeepClaimed'
    BY <1>25
       DEF UpkeepInv, UpkeepClaimed, UpkeepTypes, UpkeepOneAtATime,
           UpkeepSheetIsOpen, Upkeep!Close, Upkeep!Updates, Upkeep!TypeOK,
           Upkeep!Fronts, Upkeep!Preflights
  <2>4. UpkeepOneAtATime'
    BY <1>25
       DEF UpkeepInv, UpkeepOneAtATime, UpkeepTypes, UpkeepClaimed,
           UpkeepSheetIsOpen, Upkeep!Close, Upkeep!Updates, Upkeep!TypeOK,
           Upkeep!Fronts, Upkeep!Preflights
  <2>5. UpkeepSheetIsOpen'
    BY <1>25
       DEF UpkeepInv, UpkeepSheetIsOpen, UpkeepTypes, UpkeepClaimed,
           UpkeepOneAtATime, Upkeep!Close, Upkeep!Updates, Upkeep!TypeOK,
           Upkeep!Fronts, Upkeep!Preflights
  <2>6. UpkeepMoveIsSeen' /\ UpkeepOperationIsShown'
    BY <1>25
       DEF UpkeepInv, UpkeepMoveIsSeen, UpkeepOperationIsShown, UpkeepTypes,
           UpkeepSheetIsOpen, UpkeepClaimed, UpkeepOneAtATime, Upkeep!Close,
           Upkeep!Updates, Upkeep!TypeOK, Upkeep!Fronts, Upkeep!Preflights,
           Upkeep!Operations
  <2>7. UpkeepMigration'
    BY <1>25
       DEF UpkeepInv, UpkeepMigration, UpkeepTypes, UpkeepClaimed,
           UpkeepOperationIsShown, UpkeepOneAtATime, UpkeepSheetIsOpen,
           Upkeep!Close, Upkeep!Updates, Upkeep!TypeOK, Upkeep!Fronts,
           Upkeep!Preflights
  <2> QED
    BY <2>1, <2>2, <2>3, <2>4, <2>5, <2>6, <2>7 DEF UpkeepInv
<1>26. CASE Upkeep!Event
  <2>1. UpkeepTypes'
    BY <1>26 DEF UpkeepInv, UpkeepTypes, Upkeep!Event, Upkeep!Updates, Upkeep!TypeOK
  <2>2. UpkeepInstallsAlone' /\ UpkeepChecksBehind' /\ UpkeepAwaiting'
    BY <1>26
       DEF UpkeepInv, UpkeepInstallsAlone, UpkeepChecksBehind, UpkeepAwaiting,
           UpkeepTypes, Upkeep!Event, Upkeep!Updates, Upkeep!TypeOK, Upkeep!Fronts
  <2>3. UpkeepClaimed' /\ UpkeepOneAtATime' /\ UpkeepSheetIsOpen'
    BY <1>26
       DEF UpkeepInv, UpkeepClaimed, UpkeepOneAtATime, UpkeepSheetIsOpen,
           UpkeepTypes, Upkeep!Event, Upkeep!Updates, Upkeep!TypeOK, Upkeep!Fronts,
           Upkeep!Preflights
  <2>4. UpkeepMoveIsSeen' /\ UpkeepOperationIsShown'
    BY <1>26
       DEF UpkeepInv, UpkeepMoveIsSeen, UpkeepOperationIsShown, UpkeepTypes,
           UpkeepSheetIsOpen, UpkeepClaimed, UpkeepOneAtATime, Upkeep!Event,
           Upkeep!Updates, Upkeep!TypeOK, Upkeep!Fronts, Upkeep!Preflights,
           Upkeep!Operations
  <2>5. UpkeepMigration'
    BY <1>26
       DEF UpkeepInv, UpkeepMigration, UpkeepTypes, UpkeepClaimed,
           UpkeepOperationIsShown, UpkeepOneAtATime, UpkeepSheetIsOpen,
           Upkeep!Event, Upkeep!Updates, Upkeep!TypeOK, Upkeep!Fronts,
           Upkeep!Preflights
  <2> QED
    BY <2>1, <2>2, <2>3, <2>4, <2>5 DEF UpkeepInv
<1>27. CASE UNCHANGED maintenanceVars
  BY <1>27
     DEF maintenanceVars, UpkeepInv, UpkeepTypes, UpkeepInstallsAlone,
         UpkeepChecksBehind, UpkeepAwaiting, UpkeepClaimed, UpkeepOneAtATime,
         UpkeepSheetIsOpen, UpkeepMoveIsSeen, UpkeepOperationIsShown, UpkeepMigration, Upkeep!TypeOK
<1> QED
  BY <1>1, <1>2, <1>3, <1>4, <1>5, <1>6, <1>7, <1>8, <1>9, <1>10, <1>11, <1>12, <1>13,
     <1>14, <1>15, <1>16, <1>17, <1>18, <1>19, <1>20, <1>21, <1>22, <1>23, <1>24, <1>25,
     <1>26, <1>27 DEF Upkeep!Next

LEMMA UpkeepHolds ==
  UpkeepInv => Upkeep!InstallOrMove /\ Upkeep!InstalledStays /\ Upkeep!GivenUpIsGone
BY DEF UpkeepInv, UpkeepInstallsAlone, UpkeepAwaiting, UpkeepClaimed, UpkeepMigration,
       Upkeep!InstallOrMove, Upkeep!InstalledStays, Upkeep!GivenUpIsGone

-----------------------------------------------------------------------------
(* Deletions from the history (HistoryDeletion).                            *)

DeletionTypes == Deletion!TypeOK

\* A deletion that runs is the one of the intent; once it has gone past the rename
\* of the task that is accepted and the task is not where it was.
DeletionLed ==
  /\ deletion.at # "none" =>
       /\ intent \in Deletion!Intents /\ deletion.of = intent
       /\ deletion.at = "stage" => task[intent.task] = "there"
       /\ deletion.at = "accept" => task[intent.task] # "there"
       /\ deletion.at \notin {"stage", "accept"} => intent.phase = "accepted"
  /\ intent # None /\ intent.phase = "accepted" => task[intent.task] # "there"

\* What is open is there and not being deleted.
DeletionLease ==
  \A t \in Tasks : lease[t] = "detail" => task[t] = "there" /\ ~Deletion!Guarded(t)

\* A task that is gone is in no collection, and is not being put into one.
DeletionGone ==
  /\ \A t \in Tasks : task[t] = "gone" =>
       t \notin member /\ (adds.at # "none" => adds.task # t)
  /\ adds.at # "none" => adds.task \in Tasks

\* Any task but the one of the intent is as it was, or nothing is left of it.
DeletionOthers ==
  \A t \in Tasks : ~Deletion!Guarded(t) =>
    \/ task[t] = "there" /\ \A k \in Deletion!Kinds : cache[t][k] # "staged"
    \/ task[t] = "gone" /\ \A k \in Deletion!Kinds : cache[t][k] = "gone"

\* The caches of the task that is deleted are noted, and staged after the task.
DeletionCaches ==
  intent # None =>
    \A k \in Deletion!Kinds :
      /\ cache[intent.task][k] = "there" => k \in intent.caches
      /\ cache[intent.task][k] = "staged" => task[intent.task] # "there"

\* How far a deletion has come.
DeletionFar ==
  /\ deletion.at \in {"review", "prune", "remove", "clear"} =>
       cache[intent.task]["worker"] # "there"
  /\ deletion.at \in {"prune", "remove", "clear"} => cache[intent.task]["review"] # "there"
  /\ deletion.at \in {"remove", "clear"} =>
       intent.task \notin member /\ (adds.at # "none" => adds.task # intent.task)
  /\ deletion.at = "clear" =>
       task[intent.task] = "gone" /\ \A k \in Deletion!Kinds : cache[intent.task][k] = "gone"

DeletionInv ==
  /\ DeletionTypes /\ DeletionLed /\ DeletionLease /\ DeletionGone /\ DeletionOthers
  /\ DeletionCaches /\ DeletionFar

\* A cache of a task is written.
LEMMA CacheWritten ==
  ASSUME NEW c \in [Tasks -> [Deletion!Kinds -> Deletion!Places]], NEW t \in Tasks,
         NEW k \in Deletion!Kinds, NEW p \in Deletion!Places
  PROVE  LET d == [c EXCEPT ![t][k] = p]
         IN /\ d \in [Tasks -> [Deletion!Kinds -> Deletion!Places]] /\ d[t][k] = p
            /\ \A u \in Tasks : u # t => d[u] = c[u]
            /\ \A l \in Deletion!Kinds : l # k => d[t][l] = c[t][l]
OBVIOUS

LEMMA DeletionStarts == Deletion!Init => DeletionInv
<1> SUFFICES ASSUME Deletion!Init PROVE DeletionInv
  OBVIOUS
<1>1. /\ task = [t \in Tasks |-> "there"] /\ lease = [t \in Tasks |-> "free"]
      /\ cache \in [Tasks -> [Deletion!Kinds -> {"there", "gone"}]] /\ member \subseteq Tasks
      /\ intent = None /\ deletion = [at |-> "none", of |-> None] /\ deletion.at = "none"
      /\ adds = [task |-> None, at |-> "none"] /\ adds.at = "none" /\ active = FALSE
  BY DEF Deletion!Init, Deletion!Idle, Deletion!NoAdd
<1>2. DeletionTypes
  <2>1. cache \in [Tasks -> [Deletion!Kinds -> Deletion!Places]]
    BY <1>1 DEF Deletion!Places
  <2> QED
    BY <1>1, <2>1 DEF DeletionTypes, Deletion!TypeOK, Deletion!Places
<1>3. DeletionOthers
  BY <1>1 DEF DeletionOthers
<1> QED
  BY <1>1, <1>2, <1>3
     DEF DeletionInv, DeletionLed, DeletionLease, DeletionGone, DeletionCaches, DeletionFar

\* Every step of the component keeps it.
LEMMA DeletionSteps ==
  ASSUME DeletionInv, Deletion!Next \/ UNCHANGED deletionVars PROVE DeletionInv'
<1> USE ConstantsAssumption
<1>0. /\ task \in [Tasks -> Deletion!Places] /\ cache \in [Tasks -> [Deletion!Kinds -> Deletion!Places]]
      /\ member \subseteq Tasks /\ intent \in Deletion!Intents \cup {None}
      /\ deletion \in [at : {"none", "stage", "accept", "worker", "review", "prune", "remove",
                             "clear"}, of : Deletion!Intents \cup {None}]
      /\ lease \in [Tasks -> {"free", "deletion", "detail"}]
      /\ adds \in [task : Tasks \cup {None}, at : {"none", "scanned", "guarded"}]
      /\ active \in BOOLEAN
      /\ intent # None => intent.task \in Tasks
      /\ deletion.at # "none" => intent # None /\ intent = deletion.of
      /\ "worker" \in Deletion!Kinds /\ "review" \in Deletion!Kinds
  BY DEF DeletionInv, DeletionTypes, DeletionLed, Deletion!TypeOK, Deletion!Intents, Deletion!Kinds
<1>1. ASSUME NEW t \in Tasks, Deletion!AddScan(t) PROVE DeletionInv'
  <2>1. DeletionTypes'
    BY <1>1, <1>0
       DEF DeletionInv, DeletionTypes, DeletionLed, DeletionLease, DeletionGone,
           DeletionOthers, DeletionCaches, DeletionFar, Deletion!AddScan,
           Deletion!Guarded, Deletion!Kinds, Deletion!Places, Deletion!Intents,
           Deletion!Idle, Deletion!NoAdd, Deletion!TypeOK
  <2>2. DeletionLed'
    BY <1>1, <1>0
       DEF DeletionInv, DeletionLed, DeletionTypes, DeletionLease, DeletionGone,
           DeletionOthers, DeletionCaches, DeletionFar, Deletion!AddScan,
           Deletion!Guarded, Deletion!Kinds, Deletion!Places, Deletion!Intents,
           Deletion!Idle, Deletion!NoAdd
  <2>3. DeletionLease'
    BY <1>1, <1>0
       DEF DeletionInv, DeletionLease, DeletionTypes, DeletionLed, DeletionGone,
           DeletionOthers, DeletionCaches, DeletionFar, Deletion!AddScan,
           Deletion!Guarded, Deletion!Kinds, Deletion!Places, Deletion!Intents,
           Deletion!Idle, Deletion!NoAdd
  <2>4. DeletionGone'
    BY <1>1, <1>0
       DEF DeletionInv, DeletionGone, DeletionTypes, DeletionLed, DeletionLease,
           DeletionOthers, DeletionCaches, DeletionFar, Deletion!AddScan,
           Deletion!Guarded, Deletion!Kinds, Deletion!Places, Deletion!Intents,
           Deletion!Idle, Deletion!NoAdd
  <2>5. DeletionOthers'
    BY <1>1, <1>0
       DEF DeletionInv, DeletionOthers, DeletionTypes, DeletionLed, DeletionLease,
           DeletionGone, DeletionCaches, DeletionFar, Deletion!AddScan,
           Deletion!Guarded, Deletion!Kinds, Deletion!Places, Deletion!Intents,
           Deletion!Idle, Deletion!NoAdd
  <2>6. DeletionCaches'
    BY <1>1, <1>0
       DEF DeletionInv, DeletionCaches, DeletionTypes, DeletionLed, DeletionLease,
           DeletionGone, DeletionOthers, DeletionFar, Deletion!AddScan,
           Deletion!Guarded, Deletion!Kinds, Deletion!Places, Deletion!Intents,
           Deletion!Idle, Deletion!NoAdd
  <2>7. DeletionFar'
    BY <1>1, <1>0
       DEF DeletionInv, DeletionFar, DeletionTypes, DeletionLed, DeletionLease,
           DeletionGone, DeletionOthers, DeletionCaches, Deletion!AddScan,
           Deletion!Guarded, Deletion!Kinds, Deletion!Places, Deletion!Intents,
           Deletion!Idle, Deletion!NoAdd
  <2> QED
    BY <2>1, <2>2, <2>3, <2>4, <2>5, <2>6, <2>7 DEF DeletionInv
<1>2. CASE Deletion!AddGuard
  <2>1. DeletionTypes'
    BY <1>2, <1>0
       DEF DeletionInv, DeletionTypes, DeletionLed, DeletionLease, DeletionGone,
           DeletionOthers, DeletionCaches, DeletionFar, Deletion!AddGuard,
           Deletion!Guarded, Deletion!Kinds, Deletion!Places, Deletion!Intents,
           Deletion!Idle, Deletion!NoAdd, Deletion!TypeOK
  <2>2. DeletionLed'
    BY <1>2, <1>0
       DEF DeletionInv, DeletionLed, DeletionTypes, DeletionLease, DeletionGone,
           DeletionOthers, DeletionCaches, DeletionFar, Deletion!AddGuard,
           Deletion!Guarded, Deletion!Kinds, Deletion!Places, Deletion!Intents,
           Deletion!Idle, Deletion!NoAdd
  <2>3. DeletionLease'
    BY <1>2, <1>0
       DEF DeletionInv, DeletionLease, DeletionTypes, DeletionLed, DeletionGone,
           DeletionOthers, DeletionCaches, DeletionFar, Deletion!AddGuard,
           Deletion!Guarded, Deletion!Kinds, Deletion!Places, Deletion!Intents,
           Deletion!Idle, Deletion!NoAdd
  <2>4. DeletionGone'
    BY <1>2, <1>0
       DEF DeletionInv, DeletionGone, DeletionTypes, DeletionLed, DeletionLease,
           DeletionOthers, DeletionCaches, DeletionFar, Deletion!AddGuard,
           Deletion!Guarded, Deletion!Kinds, Deletion!Places, Deletion!Intents,
           Deletion!Idle, Deletion!NoAdd
  <2>5. DeletionOthers'
    BY <1>2, <1>0
       DEF DeletionInv, DeletionOthers, DeletionTypes, DeletionLed, DeletionLease,
           DeletionGone, DeletionCaches, DeletionFar, Deletion!AddGuard,
           Deletion!Guarded, Deletion!Kinds, Deletion!Places, Deletion!Intents,
           Deletion!Idle, Deletion!NoAdd
  <2>6. DeletionCaches'
    BY <1>2, <1>0
       DEF DeletionInv, DeletionCaches, DeletionTypes, DeletionLed, DeletionLease,
           DeletionGone, DeletionOthers, DeletionFar, Deletion!AddGuard,
           Deletion!Guarded, Deletion!Kinds, Deletion!Places, Deletion!Intents,
           Deletion!Idle, Deletion!NoAdd
  <2>7. DeletionFar'
    BY <1>2, <1>0
       DEF DeletionInv, DeletionFar, DeletionTypes, DeletionLed, DeletionLease,
           DeletionGone, DeletionOthers, DeletionCaches, Deletion!AddGuard,
           Deletion!Guarded, Deletion!Kinds, Deletion!Places, Deletion!Intents,
           Deletion!Idle, Deletion!NoAdd
  <2> QED
    BY <2>1, <2>2, <2>3, <2>4, <2>5, <2>6, <2>7 DEF DeletionInv
<1>3. CASE Deletion!AddWrite
  <2>1. DeletionTypes'
    BY <1>3, <1>0
       DEF DeletionInv, DeletionTypes, DeletionLed, DeletionLease, DeletionGone,
           DeletionOthers, DeletionCaches, DeletionFar, Deletion!AddWrite,
           Deletion!Guarded, Deletion!Kinds, Deletion!Places, Deletion!Intents,
           Deletion!Idle, Deletion!NoAdd, Deletion!TypeOK
  <2>2. DeletionLed'
    BY <1>3, <1>0
       DEF DeletionInv, DeletionLed, DeletionTypes, DeletionLease, DeletionGone,
           DeletionOthers, DeletionCaches, DeletionFar, Deletion!AddWrite,
           Deletion!Guarded, Deletion!Kinds, Deletion!Places, Deletion!Intents,
           Deletion!Idle, Deletion!NoAdd
  <2>3. DeletionLease'
    BY <1>3, <1>0
       DEF DeletionInv, DeletionLease, DeletionTypes, DeletionLed, DeletionGone,
           DeletionOthers, DeletionCaches, DeletionFar, Deletion!AddWrite,
           Deletion!Guarded, Deletion!Kinds, Deletion!Places, Deletion!Intents,
           Deletion!Idle, Deletion!NoAdd
  <2>4. DeletionGone'
    BY <1>3, <1>0
       DEF DeletionInv, DeletionGone, DeletionTypes, DeletionLed, DeletionLease,
           DeletionOthers, DeletionCaches, DeletionFar, Deletion!AddWrite,
           Deletion!Guarded, Deletion!Kinds, Deletion!Places, Deletion!Intents,
           Deletion!Idle, Deletion!NoAdd
  <2>5. DeletionOthers'
    BY <1>3, <1>0
       DEF DeletionInv, DeletionOthers, DeletionTypes, DeletionLed, DeletionLease,
           DeletionGone, DeletionCaches, DeletionFar, Deletion!AddWrite,
           Deletion!Guarded, Deletion!Kinds, Deletion!Places, Deletion!Intents,
           Deletion!Idle, Deletion!NoAdd
  <2>6. DeletionCaches'
    BY <1>3, <1>0
       DEF DeletionInv, DeletionCaches, DeletionTypes, DeletionLed, DeletionLease,
           DeletionGone, DeletionOthers, DeletionFar, Deletion!AddWrite,
           Deletion!Guarded, Deletion!Kinds, Deletion!Places, Deletion!Intents,
           Deletion!Idle, Deletion!NoAdd
  <2>7. DeletionFar'
    BY <1>3, <1>0
       DEF DeletionInv, DeletionFar, DeletionTypes, DeletionLed, DeletionLease,
           DeletionGone, DeletionOthers, DeletionCaches, Deletion!AddWrite,
           Deletion!Guarded, Deletion!Kinds, Deletion!Places, Deletion!Intents,
           Deletion!Idle, Deletion!NoAdd
  <2> QED
    BY <2>1, <2>2, <2>3, <2>4, <2>5, <2>6, <2>7 DEF DeletionInv
<1>4. ASSUME NEW t \in Tasks, Deletion!OpenDetail(t) PROVE DeletionInv'
  <2>1. DeletionTypes'
    BY <1>4, <1>0
       DEF DeletionInv, DeletionTypes, DeletionLed, DeletionLease, DeletionGone,
           DeletionOthers, DeletionCaches, DeletionFar, Deletion!OpenDetail,
           Deletion!Guarded, Deletion!Kinds, Deletion!Places, Deletion!Intents,
           Deletion!Idle, Deletion!NoAdd, Deletion!TypeOK
  <2>2. DeletionLed'
    BY <1>4, <1>0
       DEF DeletionInv, DeletionLed, DeletionTypes, DeletionLease, DeletionGone,
           DeletionOthers, DeletionCaches, DeletionFar, Deletion!OpenDetail,
           Deletion!Guarded, Deletion!Kinds, Deletion!Places, Deletion!Intents,
           Deletion!Idle, Deletion!NoAdd
  <2>3. DeletionLease'
    BY <1>4, <1>0
       DEF DeletionInv, DeletionLease, DeletionTypes, DeletionLed, DeletionGone,
           DeletionOthers, DeletionCaches, DeletionFar, Deletion!OpenDetail,
           Deletion!Guarded, Deletion!Kinds, Deletion!Places, Deletion!Intents,
           Deletion!Idle, Deletion!NoAdd
  <2>4. DeletionGone'
    BY <1>4, <1>0
       DEF DeletionInv, DeletionGone, DeletionTypes, DeletionLed, DeletionLease,
           DeletionOthers, DeletionCaches, DeletionFar, Deletion!OpenDetail,
           Deletion!Guarded, Deletion!Kinds, Deletion!Places, Deletion!Intents,
           Deletion!Idle, Deletion!NoAdd
  <2>5. DeletionOthers'
    BY <1>4, <1>0
       DEF DeletionInv, DeletionOthers, DeletionTypes, DeletionLed, DeletionLease,
           DeletionGone, DeletionCaches, DeletionFar, Deletion!OpenDetail,
           Deletion!Guarded, Deletion!Kinds, Deletion!Places, Deletion!Intents,
           Deletion!Idle, Deletion!NoAdd
  <2>6. DeletionCaches'
    BY <1>4, <1>0
       DEF DeletionInv, DeletionCaches, DeletionTypes, DeletionLed, DeletionLease,
           DeletionGone, DeletionOthers, DeletionFar, Deletion!OpenDetail,
           Deletion!Guarded, Deletion!Kinds, Deletion!Places, Deletion!Intents,
           Deletion!Idle, Deletion!NoAdd
  <2>7. DeletionFar'
    BY <1>4, <1>0
       DEF DeletionInv, DeletionFar, DeletionTypes, DeletionLed, DeletionLease,
           DeletionGone, DeletionOthers, DeletionCaches, Deletion!OpenDetail,
           Deletion!Guarded, Deletion!Kinds, Deletion!Places, Deletion!Intents,
           Deletion!Idle, Deletion!NoAdd
  <2> QED
    BY <2>1, <2>2, <2>3, <2>4, <2>5, <2>6, <2>7 DEF DeletionInv
<1>5. ASSUME NEW t \in Tasks, Deletion!CopyAudio(t) PROVE DeletionInv'
  <2>1. DeletionTypes'
    BY <1>5, <1>0
       DEF DeletionInv, DeletionTypes, DeletionLed, DeletionLease, DeletionGone,
           DeletionOthers, DeletionCaches, DeletionFar, Deletion!CopyAudio,
           Deletion!Guarded, Deletion!Kinds, Deletion!Places, Deletion!Intents,
           Deletion!Idle, Deletion!NoAdd, Deletion!TypeOK
  <2>2. DeletionLed'
    BY <1>5, <1>0
       DEF DeletionInv, DeletionLed, DeletionTypes, DeletionLease, DeletionGone,
           DeletionOthers, DeletionCaches, DeletionFar, Deletion!CopyAudio,
           Deletion!Guarded, Deletion!Kinds, Deletion!Places, Deletion!Intents,
           Deletion!Idle, Deletion!NoAdd
  <2>3. DeletionLease'
    BY <1>5, <1>0
       DEF DeletionInv, DeletionLease, DeletionTypes, DeletionLed, DeletionGone,
           DeletionOthers, DeletionCaches, DeletionFar, Deletion!CopyAudio,
           Deletion!Guarded, Deletion!Kinds, Deletion!Places, Deletion!Intents,
           Deletion!Idle, Deletion!NoAdd
  <2>4. DeletionGone'
    BY <1>5, <1>0
       DEF DeletionInv, DeletionGone, DeletionTypes, DeletionLed, DeletionLease,
           DeletionOthers, DeletionCaches, DeletionFar, Deletion!CopyAudio,
           Deletion!Guarded, Deletion!Kinds, Deletion!Places, Deletion!Intents,
           Deletion!Idle, Deletion!NoAdd
  <2>5. DeletionOthers'
    BY <1>5, <1>0
       DEF DeletionInv, DeletionOthers, DeletionTypes, DeletionLed, DeletionLease,
           DeletionGone, DeletionCaches, DeletionFar, Deletion!CopyAudio,
           Deletion!Guarded, Deletion!Kinds, Deletion!Places, Deletion!Intents,
           Deletion!Idle, Deletion!NoAdd
  <2>6. DeletionCaches'
    BY <1>5, <1>0
       DEF DeletionInv, DeletionCaches, DeletionTypes, DeletionLed, DeletionLease,
           DeletionGone, DeletionOthers, DeletionFar, Deletion!CopyAudio,
           Deletion!Guarded, Deletion!Kinds, Deletion!Places, Deletion!Intents,
           Deletion!Idle, Deletion!NoAdd
  <2>7. DeletionFar'
    BY <1>5, <1>0
       DEF DeletionInv, DeletionFar, DeletionTypes, DeletionLed, DeletionLease,
           DeletionGone, DeletionOthers, DeletionCaches, Deletion!CopyAudio,
           Deletion!Guarded, Deletion!Kinds, Deletion!Places, Deletion!Intents,
           Deletion!Idle, Deletion!NoAdd
  <2> QED
    BY <2>1, <2>2, <2>3, <2>4, <2>5, <2>6, <2>7 DEF DeletionInv
<1>6. ASSUME NEW t \in Tasks, Deletion!CloseDetail(t) PROVE DeletionInv'
  <2>1. DeletionTypes'
    BY <1>6, <1>0
       DEF DeletionInv, DeletionTypes, DeletionLed, DeletionLease, DeletionGone,
           DeletionOthers, DeletionCaches, DeletionFar, Deletion!CloseDetail,
           Deletion!Guarded, Deletion!Kinds, Deletion!Places, Deletion!Intents,
           Deletion!Idle, Deletion!NoAdd, Deletion!TypeOK
  <2>2. DeletionLed'
    BY <1>6, <1>0
       DEF DeletionInv, DeletionLed, DeletionTypes, DeletionLease, DeletionGone,
           DeletionOthers, DeletionCaches, DeletionFar, Deletion!CloseDetail,
           Deletion!Guarded, Deletion!Kinds, Deletion!Places, Deletion!Intents,
           Deletion!Idle, Deletion!NoAdd
  <2>3. DeletionLease'
    BY <1>6, <1>0
       DEF DeletionInv, DeletionLease, DeletionTypes, DeletionLed, DeletionGone,
           DeletionOthers, DeletionCaches, DeletionFar, Deletion!CloseDetail,
           Deletion!Guarded, Deletion!Kinds, Deletion!Places, Deletion!Intents,
           Deletion!Idle, Deletion!NoAdd
  <2>4. DeletionGone'
    BY <1>6, <1>0
       DEF DeletionInv, DeletionGone, DeletionTypes, DeletionLed, DeletionLease,
           DeletionOthers, DeletionCaches, DeletionFar, Deletion!CloseDetail,
           Deletion!Guarded, Deletion!Kinds, Deletion!Places, Deletion!Intents,
           Deletion!Idle, Deletion!NoAdd
  <2>5. DeletionOthers'
    BY <1>6, <1>0
       DEF DeletionInv, DeletionOthers, DeletionTypes, DeletionLed, DeletionLease,
           DeletionGone, DeletionCaches, DeletionFar, Deletion!CloseDetail,
           Deletion!Guarded, Deletion!Kinds, Deletion!Places, Deletion!Intents,
           Deletion!Idle, Deletion!NoAdd
  <2>6. DeletionCaches'
    BY <1>6, <1>0
       DEF DeletionInv, DeletionCaches, DeletionTypes, DeletionLed, DeletionLease,
           DeletionGone, DeletionOthers, DeletionFar, Deletion!CloseDetail,
           Deletion!Guarded, Deletion!Kinds, Deletion!Places, Deletion!Intents,
           Deletion!Idle, Deletion!NoAdd
  <2>7. DeletionFar'
    BY <1>6, <1>0
       DEF DeletionInv, DeletionFar, DeletionTypes, DeletionLed, DeletionLease,
           DeletionGone, DeletionOthers, DeletionCaches, Deletion!CloseDetail,
           Deletion!Guarded, Deletion!Kinds, Deletion!Places, Deletion!Intents,
           Deletion!Idle, Deletion!NoAdd
  <2> QED
    BY <2>1, <2>2, <2>3, <2>4, <2>5, <2>6, <2>7 DEF DeletionInv
<1>7. CASE Deletion!Worker
  <2>1. DeletionTypes'
    BY <1>7, <1>0
       DEF DeletionInv, DeletionTypes, DeletionLed, DeletionLease, DeletionGone,
           DeletionOthers, DeletionCaches, DeletionFar, Deletion!Worker,
           Deletion!Guarded, Deletion!Kinds, Deletion!Places, Deletion!Intents,
           Deletion!Idle, Deletion!NoAdd, Deletion!TypeOK
  <2>2. DeletionLed'
    BY <1>7, <1>0
       DEF DeletionInv, DeletionLed, DeletionTypes, DeletionLease, DeletionGone,
           DeletionOthers, DeletionCaches, DeletionFar, Deletion!Worker,
           Deletion!Guarded, Deletion!Kinds, Deletion!Places, Deletion!Intents,
           Deletion!Idle, Deletion!NoAdd
  <2>3. DeletionLease'
    BY <1>7, <1>0
       DEF DeletionInv, DeletionLease, DeletionTypes, DeletionLed, DeletionGone,
           DeletionOthers, DeletionCaches, DeletionFar, Deletion!Worker,
           Deletion!Guarded, Deletion!Kinds, Deletion!Places, Deletion!Intents,
           Deletion!Idle, Deletion!NoAdd
  <2>4. DeletionGone'
    BY <1>7, <1>0
       DEF DeletionInv, DeletionGone, DeletionTypes, DeletionLed, DeletionLease,
           DeletionOthers, DeletionCaches, DeletionFar, Deletion!Worker,
           Deletion!Guarded, Deletion!Kinds, Deletion!Places, Deletion!Intents,
           Deletion!Idle, Deletion!NoAdd
  <2>5. DeletionOthers'
    BY <1>7, <1>0
       DEF DeletionInv, DeletionOthers, DeletionTypes, DeletionLed, DeletionLease,
           DeletionGone, DeletionCaches, DeletionFar, Deletion!Worker,
           Deletion!Guarded, Deletion!Kinds, Deletion!Places, Deletion!Intents,
           Deletion!Idle, Deletion!NoAdd
  <2>6. DeletionCaches'
    BY <1>7, <1>0
       DEF DeletionInv, DeletionCaches, DeletionTypes, DeletionLed, DeletionLease,
           DeletionGone, DeletionOthers, DeletionFar, Deletion!Worker,
           Deletion!Guarded, Deletion!Kinds, Deletion!Places, Deletion!Intents,
           Deletion!Idle, Deletion!NoAdd
  <2>7. DeletionFar'
    BY <1>7, <1>0
       DEF DeletionInv, DeletionFar, DeletionTypes, DeletionLed, DeletionLease,
           DeletionGone, DeletionOthers, DeletionCaches, Deletion!Worker,
           Deletion!Guarded, Deletion!Kinds, Deletion!Places, Deletion!Intents,
           Deletion!Idle, Deletion!NoAdd
  <2> QED
    BY <2>1, <2>2, <2>3, <2>4, <2>5, <2>6, <2>7 DEF DeletionInv
<1>8. ASSUME NEW t \in Tasks, Deletion!Delete(t) PROVE DeletionInv'
  <2>1. DeletionTypes'
    BY <1>8, <1>0
       DEF DeletionInv, DeletionTypes, DeletionLed, DeletionLease, DeletionGone,
           DeletionOthers, DeletionCaches, DeletionFar, Deletion!Delete,
           Deletion!Guarded, Deletion!Kinds, Deletion!Places, Deletion!Intents,
           Deletion!Idle, Deletion!NoAdd, Deletion!TypeOK
  <2>2. DeletionLed'
    BY <1>8, <1>0
       DEF DeletionInv, DeletionLed, DeletionTypes, DeletionLease, DeletionGone,
           DeletionOthers, DeletionCaches, DeletionFar, Deletion!Delete,
           Deletion!Guarded, Deletion!Kinds, Deletion!Places, Deletion!Intents,
           Deletion!Idle, Deletion!NoAdd
  <2>3. DeletionLease'
    BY <1>8, <1>0
       DEF DeletionInv, DeletionLease, DeletionTypes, DeletionLed, DeletionGone,
           DeletionOthers, DeletionCaches, DeletionFar, Deletion!Delete,
           Deletion!Guarded, Deletion!Kinds, Deletion!Places, Deletion!Intents,
           Deletion!Idle, Deletion!NoAdd
  <2>4. DeletionGone'
    BY <1>8, <1>0
       DEF DeletionInv, DeletionGone, DeletionTypes, DeletionLed, DeletionLease,
           DeletionOthers, DeletionCaches, DeletionFar, Deletion!Delete,
           Deletion!Guarded, Deletion!Kinds, Deletion!Places, Deletion!Intents,
           Deletion!Idle, Deletion!NoAdd
  <2>5. DeletionOthers'
    BY <1>8, <1>0
       DEF DeletionInv, DeletionOthers, DeletionTypes, DeletionLed, DeletionLease,
           DeletionGone, DeletionCaches, DeletionFar, Deletion!Delete,
           Deletion!Guarded, Deletion!Kinds, Deletion!Places, Deletion!Intents,
           Deletion!Idle, Deletion!NoAdd
  <2>6. DeletionCaches'
    BY <1>8, <1>0
       DEF DeletionInv, DeletionCaches, DeletionTypes, DeletionLed, DeletionLease,
           DeletionGone, DeletionOthers, DeletionFar, Deletion!Delete,
           Deletion!Guarded, Deletion!Kinds, Deletion!Places, Deletion!Intents,
           Deletion!Idle, Deletion!NoAdd
  <2>7. DeletionFar'
    BY <1>8, <1>0
       DEF DeletionInv, DeletionFar, DeletionTypes, DeletionLed, DeletionLease,
           DeletionGone, DeletionOthers, DeletionCaches, Deletion!Delete,
           Deletion!Guarded, Deletion!Kinds, Deletion!Places, Deletion!Intents,
           Deletion!Idle, Deletion!NoAdd
  <2> QED
    BY <2>1, <2>2, <2>3, <2>4, <2>5, <2>6, <2>7 DEF DeletionInv
<1>9. CASE Deletion!Stage
  <2>1. DeletionTypes'
    BY <1>9, <1>0
       DEF DeletionInv, DeletionTypes, DeletionLed, DeletionLease, DeletionGone,
           DeletionOthers, DeletionCaches, DeletionFar, Deletion!Stage,
           Deletion!Goes, Deletion!Stops, Deletion!Free, Deletion!Guarded,
           Deletion!Kinds, Deletion!Places, Deletion!Intents, Deletion!Idle,
           Deletion!NoAdd, Deletion!TypeOK
  <2>2. DeletionLed'
    BY <1>9, <1>0
       DEF DeletionInv, DeletionLed, DeletionTypes, DeletionLease, DeletionGone,
           DeletionOthers, DeletionCaches, DeletionFar, Deletion!Stage,
           Deletion!Goes, Deletion!Stops, Deletion!Free, Deletion!Guarded,
           Deletion!Kinds, Deletion!Places, Deletion!Intents, Deletion!Idle,
           Deletion!NoAdd
  <2>3. DeletionLease'
    BY <1>9, <1>0
       DEF DeletionInv, DeletionLease, DeletionTypes, DeletionLed, DeletionGone,
           DeletionOthers, DeletionCaches, DeletionFar, Deletion!Stage,
           Deletion!Goes, Deletion!Stops, Deletion!Free, Deletion!Guarded,
           Deletion!Kinds, Deletion!Places, Deletion!Intents, Deletion!Idle,
           Deletion!NoAdd
  <2>4. DeletionGone'
    BY <1>9, <1>0
       DEF DeletionInv, DeletionGone, DeletionTypes, DeletionLed, DeletionLease,
           DeletionOthers, DeletionCaches, DeletionFar, Deletion!Stage,
           Deletion!Goes, Deletion!Stops, Deletion!Free, Deletion!Guarded,
           Deletion!Kinds, Deletion!Places, Deletion!Intents, Deletion!Idle,
           Deletion!NoAdd
  <2>5. DeletionOthers'
    BY <1>9, <1>0
       DEF DeletionInv, DeletionOthers, DeletionTypes, DeletionLed, DeletionLease,
           DeletionGone, DeletionCaches, DeletionFar, Deletion!Stage, Deletion!Goes,
           Deletion!Stops, Deletion!Free, Deletion!Guarded, Deletion!Kinds,
           Deletion!Places, Deletion!Intents, Deletion!Idle, Deletion!NoAdd
  <2>6. DeletionCaches'
    BY <1>9, <1>0
       DEF DeletionInv, DeletionCaches, DeletionTypes, DeletionLed, DeletionLease,
           DeletionGone, DeletionOthers, DeletionFar, Deletion!Stage, Deletion!Goes,
           Deletion!Stops, Deletion!Free, Deletion!Guarded, Deletion!Kinds,
           Deletion!Places, Deletion!Intents, Deletion!Idle, Deletion!NoAdd
  <2>7. DeletionFar'
    BY <1>9, <1>0
       DEF DeletionInv, DeletionFar, DeletionTypes, DeletionLed, DeletionLease,
           DeletionGone, DeletionOthers, DeletionCaches, Deletion!Stage,
           Deletion!Goes, Deletion!Stops, Deletion!Free, Deletion!Guarded,
           Deletion!Kinds, Deletion!Places, Deletion!Intents, Deletion!Idle,
           Deletion!NoAdd
  <2> QED
    BY <2>1, <2>2, <2>3, <2>4, <2>5, <2>6, <2>7 DEF DeletionInv
<1>10. CASE Deletion!Accept
  <2>1. DeletionTypes'
    BY <1>10, <1>0
       DEF DeletionInv, DeletionTypes, DeletionLed, DeletionLease, DeletionGone,
           DeletionOthers, DeletionCaches, DeletionFar, Deletion!Accept,
           Deletion!Guarded, Deletion!Kinds, Deletion!Places, Deletion!Intents,
           Deletion!Idle, Deletion!NoAdd, Deletion!TypeOK
  <2>2. DeletionLed'
    BY <1>10, <1>0
       DEF DeletionInv, DeletionLed, DeletionTypes, DeletionLease, DeletionGone,
           DeletionOthers, DeletionCaches, DeletionFar, Deletion!Accept,
           Deletion!Guarded, Deletion!Kinds, Deletion!Places, Deletion!Intents,
           Deletion!Idle, Deletion!NoAdd
  <2>3. DeletionLease'
    BY <1>10, <1>0
       DEF DeletionInv, DeletionLease, DeletionTypes, DeletionLed, DeletionGone,
           DeletionOthers, DeletionCaches, DeletionFar, Deletion!Accept,
           Deletion!Guarded, Deletion!Kinds, Deletion!Places, Deletion!Intents,
           Deletion!Idle, Deletion!NoAdd
  <2>4. DeletionGone'
    BY <1>10, <1>0
       DEF DeletionInv, DeletionGone, DeletionTypes, DeletionLed, DeletionLease,
           DeletionOthers, DeletionCaches, DeletionFar, Deletion!Accept,
           Deletion!Guarded, Deletion!Kinds, Deletion!Places, Deletion!Intents,
           Deletion!Idle, Deletion!NoAdd
  <2>5. DeletionOthers'
    BY <1>10, <1>0
       DEF DeletionInv, DeletionOthers, DeletionTypes, DeletionLed, DeletionLease,
           DeletionGone, DeletionCaches, DeletionFar, Deletion!Accept,
           Deletion!Guarded, Deletion!Kinds, Deletion!Places, Deletion!Intents,
           Deletion!Idle, Deletion!NoAdd
  <2>6. DeletionCaches'
    BY <1>10, <1>0
       DEF DeletionInv, DeletionCaches, DeletionTypes, DeletionLed, DeletionLease,
           DeletionGone, DeletionOthers, DeletionFar, Deletion!Accept,
           Deletion!Guarded, Deletion!Kinds, Deletion!Places, Deletion!Intents,
           Deletion!Idle, Deletion!NoAdd
  <2>7. DeletionFar'
    BY <1>10, <1>0
       DEF DeletionInv, DeletionFar, DeletionTypes, DeletionLed, DeletionLease,
           DeletionGone, DeletionOthers, DeletionCaches, Deletion!Accept,
           Deletion!Guarded, Deletion!Kinds, Deletion!Places, Deletion!Intents,
           Deletion!Idle, Deletion!NoAdd
  <2> QED
    BY <2>1, <2>2, <2>3, <2>4, <2>5, <2>6, <2>7 DEF DeletionInv
<1>11. CASE Deletion!StageCache("worker", "review")
  <2>1. DeletionTypes'
    BY <1>11, <1>0
       DEF DeletionInv, DeletionTypes, DeletionLed, DeletionLease, DeletionGone,
           DeletionOthers, DeletionCaches, DeletionFar, Deletion!StageCache,
           Deletion!Goes, Deletion!Guarded, Deletion!Kinds, Deletion!Places,
           Deletion!Intents, Deletion!Idle, Deletion!NoAdd, Deletion!TypeOK
  <2>2. DeletionLed'
    BY <1>11, <1>0
       DEF DeletionInv, DeletionLed, DeletionTypes, DeletionLease, DeletionGone,
           DeletionOthers, DeletionCaches, DeletionFar, Deletion!StageCache,
           Deletion!Goes, Deletion!Guarded, Deletion!Kinds, Deletion!Places,
           Deletion!Intents, Deletion!Idle, Deletion!NoAdd
  <2>3. DeletionLease'
    BY <1>11, <1>0
       DEF DeletionInv, DeletionLease, DeletionTypes, DeletionLed, DeletionGone,
           DeletionOthers, DeletionCaches, DeletionFar, Deletion!StageCache,
           Deletion!Goes, Deletion!Guarded, Deletion!Kinds, Deletion!Places,
           Deletion!Intents, Deletion!Idle, Deletion!NoAdd
  <2>4. DeletionGone'
    BY <1>11, <1>0
       DEF DeletionInv, DeletionGone, DeletionTypes, DeletionLed, DeletionLease,
           DeletionOthers, DeletionCaches, DeletionFar, Deletion!StageCache,
           Deletion!Goes, Deletion!Guarded, Deletion!Kinds, Deletion!Places,
           Deletion!Intents, Deletion!Idle, Deletion!NoAdd
  <2>5. DeletionOthers'
    BY <1>11, <1>0
       DEF DeletionInv, DeletionOthers, DeletionTypes, DeletionLed, DeletionLease,
           DeletionGone, DeletionCaches, DeletionFar, Deletion!StageCache,
           Deletion!Goes, Deletion!Guarded, Deletion!Kinds, Deletion!Places,
           Deletion!Intents, Deletion!Idle, Deletion!NoAdd
  <2>6. DeletionCaches'
    BY <1>11, <1>0
       DEF DeletionInv, DeletionCaches, DeletionTypes, DeletionLed, DeletionLease,
           DeletionGone, DeletionOthers, DeletionFar, Deletion!StageCache,
           Deletion!Goes, Deletion!Guarded, Deletion!Kinds, Deletion!Places,
           Deletion!Intents, Deletion!Idle, Deletion!NoAdd
  <2>7. DeletionFar'
    BY <1>11, <1>0
       DEF DeletionInv, DeletionFar, DeletionTypes, DeletionLed, DeletionLease,
           DeletionGone, DeletionOthers, DeletionCaches, Deletion!StageCache,
           Deletion!Goes, Deletion!Guarded, Deletion!Kinds, Deletion!Places,
           Deletion!Intents, Deletion!Idle, Deletion!NoAdd
  <2> QED
    BY <2>1, <2>2, <2>3, <2>4, <2>5, <2>6, <2>7 DEF DeletionInv
<1>12. CASE Deletion!StageCache("review", "prune")
  <2>1. DeletionTypes'
    BY <1>12, <1>0
       DEF DeletionInv, DeletionTypes, DeletionLed, DeletionLease, DeletionGone,
           DeletionOthers, DeletionCaches, DeletionFar, Deletion!StageCache,
           Deletion!Goes, Deletion!Guarded, Deletion!Kinds, Deletion!Places,
           Deletion!Intents, Deletion!Idle, Deletion!NoAdd, Deletion!TypeOK
  <2>2. DeletionLed'
    BY <1>12, <1>0
       DEF DeletionInv, DeletionLed, DeletionTypes, DeletionLease, DeletionGone,
           DeletionOthers, DeletionCaches, DeletionFar, Deletion!StageCache,
           Deletion!Goes, Deletion!Guarded, Deletion!Kinds, Deletion!Places,
           Deletion!Intents, Deletion!Idle, Deletion!NoAdd
  <2>3. DeletionLease'
    BY <1>12, <1>0
       DEF DeletionInv, DeletionLease, DeletionTypes, DeletionLed, DeletionGone,
           DeletionOthers, DeletionCaches, DeletionFar, Deletion!StageCache,
           Deletion!Goes, Deletion!Guarded, Deletion!Kinds, Deletion!Places,
           Deletion!Intents, Deletion!Idle, Deletion!NoAdd
  <2>4. DeletionGone'
    BY <1>12, <1>0
       DEF DeletionInv, DeletionGone, DeletionTypes, DeletionLed, DeletionLease,
           DeletionOthers, DeletionCaches, DeletionFar, Deletion!StageCache,
           Deletion!Goes, Deletion!Guarded, Deletion!Kinds, Deletion!Places,
           Deletion!Intents, Deletion!Idle, Deletion!NoAdd
  <2>5. DeletionOthers'
    BY <1>12, <1>0
       DEF DeletionInv, DeletionOthers, DeletionTypes, DeletionLed, DeletionLease,
           DeletionGone, DeletionCaches, DeletionFar, Deletion!StageCache,
           Deletion!Goes, Deletion!Guarded, Deletion!Kinds, Deletion!Places,
           Deletion!Intents, Deletion!Idle, Deletion!NoAdd
  <2>6. DeletionCaches'
    BY <1>12, <1>0
       DEF DeletionInv, DeletionCaches, DeletionTypes, DeletionLed, DeletionLease,
           DeletionGone, DeletionOthers, DeletionFar, Deletion!StageCache,
           Deletion!Goes, Deletion!Guarded, Deletion!Kinds, Deletion!Places,
           Deletion!Intents, Deletion!Idle, Deletion!NoAdd
  <2>7. DeletionFar'
    BY <1>12, <1>0
       DEF DeletionInv, DeletionFar, DeletionTypes, DeletionLed, DeletionLease,
           DeletionGone, DeletionOthers, DeletionCaches, Deletion!StageCache,
           Deletion!Goes, Deletion!Guarded, Deletion!Kinds, Deletion!Places,
           Deletion!Intents, Deletion!Idle, Deletion!NoAdd
  <2> QED
    BY <2>1, <2>2, <2>3, <2>4, <2>5, <2>6, <2>7 DEF DeletionInv
<1>13. CASE Deletion!Prune
  <2>1. DeletionTypes'
    BY <1>13, <1>0
       DEF DeletionInv, DeletionTypes, DeletionLed, DeletionLease, DeletionGone,
           DeletionOthers, DeletionCaches, DeletionFar, Deletion!Prune,
           Deletion!Goes, Deletion!Guarded, Deletion!Kinds, Deletion!Places,
           Deletion!Intents, Deletion!Idle, Deletion!NoAdd, Deletion!TypeOK
  <2>2. DeletionLed'
    BY <1>13, <1>0
       DEF DeletionInv, DeletionLed, DeletionTypes, DeletionLease, DeletionGone,
           DeletionOthers, DeletionCaches, DeletionFar, Deletion!Prune,
           Deletion!Goes, Deletion!Guarded, Deletion!Kinds, Deletion!Places,
           Deletion!Intents, Deletion!Idle, Deletion!NoAdd
  <2>3. DeletionLease'
    BY <1>13, <1>0
       DEF DeletionInv, DeletionLease, DeletionTypes, DeletionLed, DeletionGone,
           DeletionOthers, DeletionCaches, DeletionFar, Deletion!Prune,
           Deletion!Goes, Deletion!Guarded, Deletion!Kinds, Deletion!Places,
           Deletion!Intents, Deletion!Idle, Deletion!NoAdd
  <2>4. DeletionGone'
    BY <1>13, <1>0
       DEF DeletionInv, DeletionGone, DeletionTypes, DeletionLed, DeletionLease,
           DeletionOthers, DeletionCaches, DeletionFar, Deletion!Prune,
           Deletion!Goes, Deletion!Guarded, Deletion!Kinds, Deletion!Places,
           Deletion!Intents, Deletion!Idle, Deletion!NoAdd
  <2>5. DeletionOthers'
    BY <1>13, <1>0
       DEF DeletionInv, DeletionOthers, DeletionTypes, DeletionLed, DeletionLease,
           DeletionGone, DeletionCaches, DeletionFar, Deletion!Prune, Deletion!Goes,
           Deletion!Guarded, Deletion!Kinds, Deletion!Places, Deletion!Intents,
           Deletion!Idle, Deletion!NoAdd
  <2>6. DeletionCaches'
    BY <1>13, <1>0
       DEF DeletionInv, DeletionCaches, DeletionTypes, DeletionLed, DeletionLease,
           DeletionGone, DeletionOthers, DeletionFar, Deletion!Prune, Deletion!Goes,
           Deletion!Guarded, Deletion!Kinds, Deletion!Places, Deletion!Intents,
           Deletion!Idle, Deletion!NoAdd
  <2>7. DeletionFar'
    BY <1>13, <1>0
       DEF DeletionInv, DeletionFar, DeletionTypes, DeletionLed, DeletionLease,
           DeletionGone, DeletionOthers, DeletionCaches, Deletion!Prune,
           Deletion!Goes, Deletion!Guarded, Deletion!Kinds, Deletion!Places,
           Deletion!Intents, Deletion!Idle, Deletion!NoAdd
  <2> QED
    BY <2>1, <2>2, <2>3, <2>4, <2>5, <2>6, <2>7 DEF DeletionInv
<1>14. CASE Deletion!Remove
  <2>1. /\ deletion.at = "remove" /\ deletion.of = intent /\ intent # None
        /\ member' = member /\ intent' = intent /\ adds' = adds /\ active' = active
        /\ lease' = lease
    BY <1>14, <1>0 DEF Deletion!Remove, Deletion!Goes
  <2>2. \/ /\ task[intent.task] = "staged" /\ task' = [task EXCEPT ![intent.task] = "gone"]
           /\ cache' = cache /\ deletion' = deletion
        \/ /\ task[intent.task] # "staged" /\ task' = task /\ deletion' = deletion
           /\ \E k \in Deletion!Kinds : cache[intent.task][k] = "staged"
                                        /\ cache' = [cache EXCEPT ![intent.task][k] = "gone"]
        \/ /\ task[intent.task] # "staged" /\ task' = task /\ cache' = cache
           /\ \A k \in Deletion!Kinds : cache[intent.task][k] # "staged"
           /\ deletion' = [deletion EXCEPT !.at = "clear"]
    BY <1>14, <2>1 DEF Deletion!Remove, Deletion!Goes
  <2>3. /\ cache' \in [Tasks -> [Deletion!Kinds -> Deletion!Places]]
        /\ \A t \in Tasks : t # intent.task => cache'[t] = cache[t]
        /\ \A k \in Deletion!Kinds : cache'[intent.task][k] \in {cache[intent.task][k], "gone"}
    <3>1. ASSUME NEW k \in Deletion!Kinds, cache' = [cache EXCEPT ![intent.task][k] = "gone"]
          PROVE  /\ cache' \in [Tasks -> [Deletion!Kinds -> Deletion!Places]]
                 /\ \A t \in Tasks : t # intent.task => cache'[t] = cache[t]
                 /\ \A l \in Deletion!Kinds : cache'[intent.task][l] \in {cache[intent.task][l], "gone"}
      <4>1. "gone" \in Deletion!Places /\ intent.task \in Tasks
        BY <1>0, <2>1 DEF Deletion!Places
      <4> QED
        BY <1>0, <3>1, <4>1, CacheWritten
    <3> QED
      BY <1>0, <2>2, <3>1
  <2>4. DeletionTypes'
    <3>1. task' \in [Tasks -> Deletion!Places]
      BY <1>0, <2>2 DEF Deletion!Places
    <3>3. /\ deletion' \in [at : {"none", "stage", "accept", "worker", "review", "prune", "remove",
                                 "clear"}, of : Deletion!Intents \cup {None}]
          /\ deletion'.of = deletion.of /\ deletion'.at \in {"remove", "clear"}
      BY <1>0, <2>1, <2>2
    <3> QED
      BY <1>0, <2>1, <2>3, <3>1, <3>3 DEF DeletionTypes, Deletion!TypeOK
  <2>5. /\ deletion'.of = deletion.of /\ deletion'.at \in {"remove", "clear"}
        /\ deletion'.at = "clear" => deletion' # deletion /\ task' = task /\ cache' = cache
              /\ task[intent.task] # "staged" /\ \A k \in Deletion!Kinds : cache[intent.task][k] # "staged"
        /\ \A t \in Tasks : t # intent.task => task'[t] = task[t] /\ cache'[t] = cache[t]
        /\ task'[intent.task] \in {task[intent.task], "gone"}
        /\ \A k \in Deletion!Kinds : cache'[intent.task][k] \in {cache[intent.task][k], "gone"}
    BY <1>0, <2>1, <2>2, <2>3
  <2>6. DeletionLed'
    BY <1>0, <2>1, <2>4, <2>5
       DEF DeletionInv, DeletionTypes, DeletionLed, DeletionLease, DeletionGone, DeletionOthers, DeletionCaches,
           DeletionFar, Deletion!Guarded, Deletion!Kinds, Deletion!Places, Deletion!TypeOK
  <2>7. DeletionLease'
    BY <1>0, <2>1, <2>4, <2>5
       DEF DeletionInv, DeletionTypes, DeletionLed, DeletionLease, DeletionGone, DeletionOthers, DeletionCaches,
           DeletionFar, Deletion!Guarded, Deletion!Kinds, Deletion!Places, Deletion!TypeOK
  <2>8. DeletionGone'
    BY <1>0, <2>1, <2>4, <2>5
       DEF DeletionInv, DeletionTypes, DeletionLed, DeletionLease, DeletionGone, DeletionOthers, DeletionCaches,
           DeletionFar, Deletion!Guarded, Deletion!Kinds, Deletion!Places, Deletion!TypeOK
  <2>9. DeletionOthers'
    BY <1>0, <2>1, <2>4, <2>5
       DEF DeletionInv, DeletionTypes, DeletionLed, DeletionLease, DeletionGone, DeletionOthers, DeletionCaches,
           DeletionFar, Deletion!Guarded, Deletion!Kinds, Deletion!Places, Deletion!TypeOK
  <2>10. DeletionCaches'
    BY <1>0, <2>1, <2>4, <2>5
       DEF DeletionInv, DeletionTypes, DeletionLed, DeletionLease, DeletionGone, DeletionOthers, DeletionCaches,
           DeletionFar, Deletion!Guarded, Deletion!Kinds, Deletion!Places, Deletion!TypeOK
  <2>11. DeletionFar'
    BY <1>0, <2>1, <2>4, <2>5
       DEF DeletionInv, DeletionTypes, DeletionLed, DeletionLease, DeletionGone, DeletionOthers, DeletionCaches,
           DeletionFar, Deletion!Guarded, Deletion!Kinds, Deletion!Places, Deletion!TypeOK
  <2> QED
    BY <2>1, <2>2, <2>3, <2>4, <2>5, <2>6, <2>7, <2>8, <2>9, <2>10, <2>11 DEF DeletionInv
<1>15. CASE Deletion!Clear
  <2>1. DeletionTypes'
    BY <1>15, <1>0
       DEF DeletionInv, DeletionTypes, DeletionLed, DeletionLease, DeletionGone,
           DeletionOthers, DeletionCaches, DeletionFar, Deletion!Clear,
           Deletion!Stops, Deletion!Free, Deletion!Guarded, Deletion!Kinds,
           Deletion!Places, Deletion!Intents, Deletion!Idle, Deletion!NoAdd,
           Deletion!TypeOK
  <2>2. DeletionLed'
    BY <1>15, <1>0
       DEF DeletionInv, DeletionLed, DeletionTypes, DeletionLease, DeletionGone,
           DeletionOthers, DeletionCaches, DeletionFar, Deletion!Clear,
           Deletion!Stops, Deletion!Free, Deletion!Guarded, Deletion!Kinds,
           Deletion!Places, Deletion!Intents, Deletion!Idle, Deletion!NoAdd
  <2>3. DeletionLease'
    BY <1>15, <1>0
       DEF DeletionInv, DeletionLease, DeletionTypes, DeletionLed, DeletionGone,
           DeletionOthers, DeletionCaches, DeletionFar, Deletion!Clear,
           Deletion!Stops, Deletion!Free, Deletion!Guarded, Deletion!Kinds,
           Deletion!Places, Deletion!Intents, Deletion!Idle, Deletion!NoAdd
  <2>4. DeletionGone'
    BY <1>15, <1>0
       DEF DeletionInv, DeletionGone, DeletionTypes, DeletionLed, DeletionLease,
           DeletionOthers, DeletionCaches, DeletionFar, Deletion!Clear,
           Deletion!Stops, Deletion!Free, Deletion!Guarded, Deletion!Kinds,
           Deletion!Places, Deletion!Intents, Deletion!Idle, Deletion!NoAdd
  <2>5. DeletionOthers'
    BY <1>15, <1>0
       DEF DeletionInv, DeletionOthers, DeletionTypes, DeletionLed, DeletionLease,
           DeletionGone, DeletionCaches, DeletionFar, Deletion!Clear,
           Deletion!Stops, Deletion!Free, Deletion!Guarded, Deletion!Kinds,
           Deletion!Places, Deletion!Intents, Deletion!Idle, Deletion!NoAdd
  <2>6. DeletionCaches'
    BY <1>15, <1>0
       DEF DeletionInv, DeletionCaches, DeletionTypes, DeletionLed, DeletionLease,
           DeletionGone, DeletionOthers, DeletionFar, Deletion!Clear,
           Deletion!Stops, Deletion!Free, Deletion!Guarded, Deletion!Kinds,
           Deletion!Places, Deletion!Intents, Deletion!Idle, Deletion!NoAdd
  <2>7. DeletionFar'
    BY <1>15, <1>0
       DEF DeletionInv, DeletionFar, DeletionTypes, DeletionLed, DeletionLease,
           DeletionGone, DeletionOthers, DeletionCaches, Deletion!Clear,
           Deletion!Stops, Deletion!Free, Deletion!Guarded, Deletion!Kinds,
           Deletion!Places, Deletion!Intents, Deletion!Idle, Deletion!NoAdd
  <2> QED
    BY <2>1, <2>2, <2>3, <2>4, <2>5, <2>6, <2>7 DEF DeletionInv
<1>16. CASE Deletion!Fails
  <2>1. DeletionTypes'
    BY <1>16, <1>0
       DEF DeletionInv, DeletionTypes, DeletionLed, DeletionLease, DeletionGone,
           DeletionOthers, DeletionCaches, DeletionFar, Deletion!Fails,
           Deletion!Stops, Deletion!Free, Deletion!Guarded, Deletion!Kinds,
           Deletion!Places, Deletion!Intents, Deletion!Idle, Deletion!NoAdd,
           Deletion!TypeOK
  <2>2. DeletionLed'
    BY <1>16, <1>0
       DEF DeletionInv, DeletionLed, DeletionTypes, DeletionLease, DeletionGone,
           DeletionOthers, DeletionCaches, DeletionFar, Deletion!Fails,
           Deletion!Stops, Deletion!Free, Deletion!Guarded, Deletion!Kinds,
           Deletion!Places, Deletion!Intents, Deletion!Idle, Deletion!NoAdd
  <2>3. DeletionLease'
    BY <1>16, <1>0
       DEF DeletionInv, DeletionLease, DeletionTypes, DeletionLed, DeletionGone,
           DeletionOthers, DeletionCaches, DeletionFar, Deletion!Fails,
           Deletion!Stops, Deletion!Free, Deletion!Guarded, Deletion!Kinds,
           Deletion!Places, Deletion!Intents, Deletion!Idle, Deletion!NoAdd
  <2>4. DeletionGone'
    BY <1>16, <1>0
       DEF DeletionInv, DeletionGone, DeletionTypes, DeletionLed, DeletionLease,
           DeletionOthers, DeletionCaches, DeletionFar, Deletion!Fails,
           Deletion!Stops, Deletion!Free, Deletion!Guarded, Deletion!Kinds,
           Deletion!Places, Deletion!Intents, Deletion!Idle, Deletion!NoAdd
  <2>5. DeletionOthers'
    BY <1>16, <1>0
       DEF DeletionInv, DeletionOthers, DeletionTypes, DeletionLed, DeletionLease,
           DeletionGone, DeletionCaches, DeletionFar, Deletion!Fails,
           Deletion!Stops, Deletion!Free, Deletion!Guarded, Deletion!Kinds,
           Deletion!Places, Deletion!Intents, Deletion!Idle, Deletion!NoAdd
  <2>6. DeletionCaches'
    BY <1>16, <1>0
       DEF DeletionInv, DeletionCaches, DeletionTypes, DeletionLed, DeletionLease,
           DeletionGone, DeletionOthers, DeletionFar, Deletion!Fails,
           Deletion!Stops, Deletion!Free, Deletion!Guarded, Deletion!Kinds,
           Deletion!Places, Deletion!Intents, Deletion!Idle, Deletion!NoAdd
  <2>7. DeletionFar'
    BY <1>16, <1>0
       DEF DeletionInv, DeletionFar, DeletionTypes, DeletionLed, DeletionLease,
           DeletionGone, DeletionOthers, DeletionCaches, Deletion!Fails,
           Deletion!Stops, Deletion!Free, Deletion!Guarded, Deletion!Kinds,
           Deletion!Places, Deletion!Intents, Deletion!Idle, Deletion!NoAdd
  <2> QED
    BY <2>1, <2>2, <2>3, <2>4, <2>5, <2>6, <2>7 DEF DeletionInv
<1>17. CASE Deletion!Resume
  <2>1. DeletionTypes'
    BY <1>17, <1>0
       DEF DeletionInv, DeletionTypes, DeletionLed, DeletionLease, DeletionGone,
           DeletionOthers, DeletionCaches, DeletionFar, Deletion!Resume,
           Deletion!Guarded, Deletion!Kinds, Deletion!Places, Deletion!Intents,
           Deletion!Idle, Deletion!NoAdd, Deletion!TypeOK
  <2>2. DeletionLed'
    BY <1>17, <1>0
       DEF DeletionInv, DeletionLed, DeletionTypes, DeletionLease, DeletionGone,
           DeletionOthers, DeletionCaches, DeletionFar, Deletion!Resume,
           Deletion!Guarded, Deletion!Kinds, Deletion!Places, Deletion!Intents,
           Deletion!Idle, Deletion!NoAdd
  <2>3. DeletionLease'
    BY <1>17, <1>0
       DEF DeletionInv, DeletionLease, DeletionTypes, DeletionLed, DeletionGone,
           DeletionOthers, DeletionCaches, DeletionFar, Deletion!Resume,
           Deletion!Guarded, Deletion!Kinds, Deletion!Places, Deletion!Intents,
           Deletion!Idle, Deletion!NoAdd
  <2>4. DeletionGone'
    BY <1>17, <1>0
       DEF DeletionInv, DeletionGone, DeletionTypes, DeletionLed, DeletionLease,
           DeletionOthers, DeletionCaches, DeletionFar, Deletion!Resume,
           Deletion!Guarded, Deletion!Kinds, Deletion!Places, Deletion!Intents,
           Deletion!Idle, Deletion!NoAdd
  <2>5. DeletionOthers'
    BY <1>17, <1>0
       DEF DeletionInv, DeletionOthers, DeletionTypes, DeletionLed, DeletionLease,
           DeletionGone, DeletionCaches, DeletionFar, Deletion!Resume,
           Deletion!Guarded, Deletion!Kinds, Deletion!Places, Deletion!Intents,
           Deletion!Idle, Deletion!NoAdd
  <2>6. DeletionCaches'
    BY <1>17, <1>0
       DEF DeletionInv, DeletionCaches, DeletionTypes, DeletionLed, DeletionLease,
           DeletionGone, DeletionOthers, DeletionFar, Deletion!Resume,
           Deletion!Guarded, Deletion!Kinds, Deletion!Places, Deletion!Intents,
           Deletion!Idle, Deletion!NoAdd
  <2>7. DeletionFar'
    BY <1>17, <1>0
       DEF DeletionInv, DeletionFar, DeletionTypes, DeletionLed, DeletionLease,
           DeletionGone, DeletionOthers, DeletionCaches, Deletion!Resume,
           Deletion!Guarded, Deletion!Kinds, Deletion!Places, Deletion!Intents,
           Deletion!Idle, Deletion!NoAdd
  <2> QED
    BY <2>1, <2>2, <2>3, <2>4, <2>5, <2>6, <2>7 DEF DeletionInv
<1>18. CASE Deletion!Crash
  <2>1. DeletionTypes'
    BY <1>18, <1>0
       DEF DeletionInv, DeletionTypes, DeletionLed, DeletionLease, DeletionGone,
           DeletionOthers, DeletionCaches, DeletionFar, Deletion!Crash,
           Deletion!Guarded, Deletion!Kinds, Deletion!Places, Deletion!Intents,
           Deletion!Idle, Deletion!NoAdd, Deletion!TypeOK
  <2>2. DeletionLed'
    BY <1>18, <1>0
       DEF DeletionInv, DeletionLed, DeletionTypes, DeletionLease, DeletionGone,
           DeletionOthers, DeletionCaches, DeletionFar, Deletion!Crash,
           Deletion!Guarded, Deletion!Kinds, Deletion!Places, Deletion!Intents,
           Deletion!Idle, Deletion!NoAdd
  <2>3. DeletionLease'
    BY <1>18, <1>0
       DEF DeletionInv, DeletionLease, DeletionTypes, DeletionLed, DeletionGone,
           DeletionOthers, DeletionCaches, DeletionFar, Deletion!Crash,
           Deletion!Guarded, Deletion!Kinds, Deletion!Places, Deletion!Intents,
           Deletion!Idle, Deletion!NoAdd
  <2>4. DeletionGone'
    BY <1>18, <1>0
       DEF DeletionInv, DeletionGone, DeletionTypes, DeletionLed, DeletionLease,
           DeletionOthers, DeletionCaches, DeletionFar, Deletion!Crash,
           Deletion!Guarded, Deletion!Kinds, Deletion!Places, Deletion!Intents,
           Deletion!Idle, Deletion!NoAdd
  <2>5. DeletionOthers'
    BY <1>18, <1>0
       DEF DeletionInv, DeletionOthers, DeletionTypes, DeletionLed, DeletionLease,
           DeletionGone, DeletionCaches, DeletionFar, Deletion!Crash,
           Deletion!Guarded, Deletion!Kinds, Deletion!Places, Deletion!Intents,
           Deletion!Idle, Deletion!NoAdd
  <2>6. DeletionCaches'
    BY <1>18, <1>0
       DEF DeletionInv, DeletionCaches, DeletionTypes, DeletionLed, DeletionLease,
           DeletionGone, DeletionOthers, DeletionFar, Deletion!Crash,
           Deletion!Guarded, Deletion!Kinds, Deletion!Places, Deletion!Intents,
           Deletion!Idle, Deletion!NoAdd
  <2>7. DeletionFar'
    BY <1>18, <1>0
       DEF DeletionInv, DeletionFar, DeletionTypes, DeletionLed, DeletionLease,
           DeletionGone, DeletionOthers, DeletionCaches, Deletion!Crash,
           Deletion!Guarded, Deletion!Kinds, Deletion!Places, Deletion!Intents,
           Deletion!Idle, Deletion!NoAdd
  <2> QED
    BY <2>1, <2>2, <2>3, <2>4, <2>5, <2>6, <2>7 DEF DeletionInv
<1>19. CASE UNCHANGED deletionVars
  BY <1>19
     DEF deletionVars, DeletionInv, DeletionTypes, DeletionLed, DeletionLease,
         DeletionGone, DeletionOthers, DeletionCaches, DeletionFar, Deletion!TypeOK, Deletion!Guarded
<1> QED
  BY <1>1, <1>2, <1>3, <1>4, <1>5, <1>6, <1>7, <1>8, <1>9, <1>10, <1>11, <1>12, <1>13,
     <1>14, <1>15, <1>16, <1>17, <1>18, <1>19 DEF Deletion!Next

LEMMA DeletionHolds == DeletionInv => Deletion!AllOrNothing
BY DEF DeletionInv, DeletionGone, DeletionOthers, Deletion!AllOrNothing, Deletion!Guarded

-----------------------------------------------------------------------------
(* The account panel (AccountPanel).                                        *)

PanelTypes == Panel!TypeOK

\* Nothing that was read is newer than the account at the desktop process.
PanelBehind ==
  /\ account.after <= desk.after
  /\ \A i \in DOMAIN call : call[i].got.after <= desk.after

\* At most one refresh counts, and while an operation is active only its own.
PanelNewest ==
  \A i \in DOMAIN call : call[i].newest =>
    /\ \A j \in DOMAIN call : call[j].newest => j = i
    /\ pending # None => i = pending

\* What may still be shown was read no earlier than what is shown.
PanelFresh ==
  \A i \in DOMAIN call :
    (call[i].newest \/ pending = i) /\ call[i].at \in {"failed", "answered", "refreshed"}
    => call[i].got.after >= account.after

\* The active operation is one of a button or a link.
PanelActive == pending # None => call[pending].kind # "refresh"

PanelInv == PanelTypes /\ PanelBehind /\ PanelNewest /\ PanelFresh /\ PanelActive

LEMMA PanelStarts == Panel!Init => PanelInv
<1> SUFFICES ASSUME Panel!Init PROVE PanelInv
  OBVIOUS
<1>1. /\ desk \in Panel!Statuses /\ desk.after = 0 /\ account \in Panel!Statuses
      /\ account.after = 0
  <2>1. /\ account = [signedIn |-> FALSE, active |-> FALSE, after |-> 0]
        /\ \/ desk = [signedIn |-> FALSE, active |-> FALSE, after |-> 0]
           \/ desk = [signedIn |-> TRUE, active |-> FALSE, after |-> 0]
    BY DEF Panel!Init, Panel!Guest
  <2>2. \A s \in BOOLEAN :
          /\ [signedIn |-> s, active |-> FALSE, after |-> 0] \in Panel!Statuses
          /\ [signedIn |-> s, active |-> FALSE, after |-> 0].after = 0
    BY DEF Panel!Statuses
  <2> QED
    BY <2>1, <2>2
<1>2. DOMAIN call = {} /\ call \in [DOMAIN call -> Panel!Calls] /\ pending = None
  BY DEF Panel!Init
<1>3. PanelTypes
  BY <1>1, <1>2 DEF Panel!Init, Panel!TypeOK, PanelTypes
<1>4. PanelBehind /\ PanelNewest /\ PanelFresh /\ PanelActive
  BY <1>1, <1>2 DEF PanelBehind, PanelNewest, PanelFresh, PanelActive
<1> QED
  BY <1>3, <1>4 DEF PanelInv

\* A call that takes a free slot.
LEMMA PanelWith ==
  ASSUME PanelInv, NEW i \in Slots, NEW c \in Panel!Calls,
         call' = Panel!With(Panel!Overtaken, i, c)
  PROVE  /\ DOMAIN call' = DOMAIN call \cup {i} /\ DOMAIN call' \subseteq Slots
         /\ call' \in [DOMAIN call' -> Panel!Calls] /\ call'[i] = c
         /\ \A j \in DOMAIN call \ {i} :
              /\ call'[j].kind = call[j].kind /\ call'[j].at = call[j].at
              /\ ~call'[j].newest /\ call'[j].got = call[j].got
<1>1. DOMAIN call \subseteq Slots /\ call \in [DOMAIN call -> Panel!Calls]
  BY DEF PanelInv, PanelTypes, Panel!TypeOK
<1>2. call' = [j \in DOMAIN call \cup {i} |->
                 IF j = i THEN c ELSE [call[j] EXCEPT !.newest = FALSE]]
  BY DEF Panel!With, Panel!Overtaken
<1>3. \A j \in DOMAIN call : LET o == [call[j] EXCEPT !.newest = FALSE] IN
        /\ o \in Panel!Calls /\ o.kind = call[j].kind /\ o.at = call[j].at /\ ~o.newest
        /\ o.got = call[j].got
  <2> TAKE j \in DOMAIN call
  <2>1. call[j] \in Panel!Calls
    BY <1>1
  <2> QED
    BY <2>1 DEF Panel!Calls
<1> QED
  BY <1>1, <1>2, <1>3

\* A call that is answered.
LEMMA PanelWithout ==
  ASSUME PanelInv, NEW i, call' = Panel!Without(i)
  PROVE  /\ DOMAIN call' = DOMAIN call \ {i} /\ DOMAIN call' \subseteq Slots
         /\ call' \in [DOMAIN call' -> Panel!Calls]
         /\ \A j \in DOMAIN call \ {i} : call'[j] = call[j]
BY DEF PanelInv, PanelTypes, Panel!TypeOK, Panel!Without

\* What the desktop process does comes after what it has done.
LEMMA PanelEffect ==
  ASSUME desk \in Panel!Statuses, NEW kind \in Panel!Active \cup {"refresh"},
         NEW next \in Panel!Effect(kind)
  PROVE  next \in Panel!Statuses /\ next.after \in Nat /\ next.after >= desk.after
<1>1. desk.after \in Nat
  BY DEF Panel!Statuses
<1> DEFINE n == desk.after + 1
<1>2. CASE \/ next = [desk EXCEPT !.signedIn = TRUE, !.after = n]
           \/ next = [signedIn |-> TRUE, active |-> TRUE, after |-> n]
           \/ next = [desk EXCEPT !.active = TRUE, !.after = n]
           \/ next = [signedIn |-> FALSE, active |-> FALSE, after |-> n]
  <2>1. n \in Nat /\ n >= desk.after
    BY <1>1
  <2> HIDE DEF n
  <2>2. /\ [desk EXCEPT !.signedIn = TRUE, !.after = n] \in Panel!Statuses
        /\ [desk EXCEPT !.signedIn = TRUE, !.after = n].after = n
    BY <2>1 DEF Panel!Statuses
  <2>3. /\ [desk EXCEPT !.active = TRUE, !.after = n] \in Panel!Statuses
        /\ [desk EXCEPT !.active = TRUE, !.after = n].after = n
    BY <2>1 DEF Panel!Statuses
  <2>4. \A s, a \in BOOLEAN :
          /\ [signedIn |-> s, active |-> a, after |-> n] \in Panel!Statuses
          /\ [signedIn |-> s, active |-> a, after |-> n].after = n
    BY <2>1 DEF Panel!Statuses
  <2> QED
    BY <1>2, <2>1, <2>2, <2>3, <2>4
<1>3. CASE kind \in {"callback", "redeem", "logout"}
  BY <1>2, <1>3 DEF Panel!Effect, Panel!Guest, Panel!Statuses
<1>4. CASE kind \notin {"callback", "redeem", "logout"}
  BY <1>1, <1>4 DEF Panel!Effect
<1> QED
  BY <1>3, <1>4

\* A call is answered, and shown only if it is the active operation's or the
\* newest refresh while there is none.
LEMMA PanelAnswers ==
  ASSUME PanelInv, NEW i \in DOMAIN call, call' = Panel!Without(i), desk' = desk,
         pending' = IF pending = i THEN None ELSE pending,
         \/ account' = account
         \/ /\ account' = call[i].got /\ call[i].at \in {"failed", "answered", "refreshed"}
            /\ pending = i \/ (pending = None /\ call[i].newest),
         loading' \in BOOLEAN, redeeming' \in BOOLEAN,
         request' \in {"idle", "pending", "success", "error"}
  PROVE  PanelInv' /\ account'.after >= account.after
<1>1. /\ desk \in Panel!Statuses /\ account \in Panel!Statuses /\ desk.after \in Nat
      /\ account.after \in Nat /\ pending \in DOMAIN call \cup {None}
      /\ DOMAIN call \subseteq Slots /\ None \notin DOMAIN call
      /\ \A j \in DOMAIN call : call[j].got \in Panel!Statuses /\ call[j].got.after \in Nat
  BY ConstantsAssumption DEF PanelInv, PanelTypes, Panel!TypeOK, Panel!Statuses, Panel!Calls
<1>2. PanelTypes'
  BY <1>1, PanelWithout DEF PanelInv, PanelTypes, Panel!TypeOK
<1>3. account'.after \in Nat /\ account'.after >= account.after /\ account'.after <= desk.after
  BY <1>1 DEF PanelInv, PanelBehind, PanelFresh
<1>4. DOMAIN call' = DOMAIN call \ {i} /\ \A j \in DOMAIN call \ {i} : call'[j] = call[j]
  BY PanelWithout
<1>5. PanelBehind'
  BY <1>1, <1>3, <1>4 DEF PanelInv, PanelBehind
<1>6. PanelNewest'
  BY <1>1, <1>4 DEF PanelInv, PanelNewest
<1>7. PanelActive'
  BY <1>1, <1>4 DEF PanelInv, PanelActive
<1>8. PanelFresh'
  <2> SUFFICES ASSUME NEW j \in DOMAIN call \ {i}, call[j].newest \/ pending' = j,
                      call[j].at \in {"failed", "answered", "refreshed"}
               PROVE  call[j].got.after >= account'.after
    BY <1>4 DEF PanelFresh
  <2>1. CASE account' = account
    BY <1>1, <2>1 DEF PanelInv, PanelFresh
  <2>2. CASE account' # account
    BY <1>1, <2>2 DEF PanelInv, PanelNewest
  <2> QED
    BY <2>1, <2>2
<1> QED
  BY <1>2, <1>3, <1>5, <1>6, <1>7, <1>8 DEF PanelInv

\* Every step of the component keeps it, and what is shown gets no older.
LEMMA PanelSteps ==
  ASSUME PanelInv, Panel!Next \/ UNCHANGED panelVars
  PROVE  PanelInv' /\ account'.after >= account.after
<1> USE ConstantsAssumption
<1>1. /\ desk \in Panel!Statuses /\ account \in Panel!Statuses /\ desk.after \in Nat
      /\ account.after \in Nat /\ pending \in DOMAIN call \cup {None}
      /\ DOMAIN call \subseteq Slots /\ None \notin DOMAIN call
      /\ call \in [DOMAIN call -> Panel!Calls]
      /\ \A i \in DOMAIN call : call[i] \in Panel!Calls /\ call[i].got \in Panel!Statuses
                                /\ call[i].got.after \in Nat
  BY DEF PanelInv, PanelTypes, Panel!TypeOK, Panel!Statuses, Panel!Calls
<1>2. ASSUME NEW i \in Slots, Panel!Refresh(i)
      PROVE  PanelInv' /\ account'.after >= account.after
  <2> DEFINE c == [kind |-> "refresh", at |-> "sent", newest |-> TRUE, got |-> account]
  <2>1. c \in Panel!Calls /\ c.newest /\ c.at = "sent" /\ c.got = account /\ c.kind = "refresh"
    BY <1>1 DEF Panel!Calls
  <2>2. /\ call' = Panel!With(Panel!Overtaken, i, c) /\ i \notin DOMAIN call /\ pending = None
        /\ desk' = desk /\ account' = account /\ pending' = None
        /\ loading' \in BOOLEAN /\ redeeming' = redeeming /\ request' = request
    BY <1>2 DEF Panel!Refresh, Panel!Free
  <2> HIDE DEF c
  <2>3. PanelTypes'
    <3>1. DOMAIN call' = DOMAIN call \cup {i} /\ DOMAIN call' \subseteq Slots
          /\ call' \in [DOMAIN call' -> Panel!Calls]
      BY <1>1, <2>1, <2>2, PanelWith
    <3> QED
      BY <1>1, <2>2, <3>1 DEF PanelInv, PanelTypes, Panel!TypeOK
  <2>4. /\ DOMAIN call' = DOMAIN call \cup {i} /\ call'[i] = c
        /\ \A j \in DOMAIN call \ {i} :
             /\ call'[j].kind = call[j].kind /\ call'[j].at = call[j].at
             /\ ~call'[j].newest /\ call'[j].got = call[j].got
    BY <2>1, <2>2, PanelWith
  <2>5. PanelBehind'
    BY <1>1, <2>1, <2>2, <2>4 DEF PanelInv, PanelBehind
  <2>6. PanelNewest'
    BY <1>1, <2>1, <2>2, <2>4 DEF PanelInv, PanelNewest
  <2>7. PanelFresh'
    BY <1>1, <2>1, <2>2, <2>4 DEF PanelInv, PanelFresh
  <2>8. PanelActive'
    BY <1>1, <2>1, <2>2, <2>4 DEF PanelInv, PanelActive
  <2> QED
    BY <1>1, <2>2, <2>3, <2>5, <2>6, <2>7, <2>8 DEF PanelInv
<1>3. ASSUME NEW i \in Slots, NEW kind \in Panel!Active, Panel!Starts(i, kind)
      PROVE  PanelInv' /\ account'.after >= account.after
  <2> DEFINE c == [kind |-> kind, at |-> "sent", newest |-> FALSE, got |-> account]
  <2>1. c \in Panel!Calls /\ ~c.newest /\ c.at = "sent" /\ c.got = account /\ c.kind = kind
    BY <1>1 DEF Panel!Calls, Panel!Active
  <2>2. /\ call' = Panel!With(Panel!Overtaken, i, c) /\ i \notin DOMAIN call
        /\ kind # "refresh" /\ desk' = desk /\ account' = account /\ pending' = i
    BY <1>3 DEF Panel!Starts, Panel!beginActiveOperation, Panel!Free, Panel!Active
  <2>3. /\ loading' \in BOOLEAN /\ redeeming' \in BOOLEAN
        /\ request' \in {"idle", "pending", "success", "error"}
    BY <1>3 DEF Panel!Starts, PanelInv, PanelTypes, Panel!TypeOK
  <2> HIDE DEF c
  <2>4. PanelTypes'
    <3>1. DOMAIN call' = DOMAIN call \cup {i} /\ DOMAIN call' \subseteq Slots
          /\ call' \in [DOMAIN call' -> Panel!Calls]
      BY <1>1, <2>1, <2>2, PanelWith
    <3> QED
      BY <1>1, <2>2, <2>3, <3>1 DEF PanelInv, PanelTypes, Panel!TypeOK
  <2>5. /\ DOMAIN call' = DOMAIN call \cup {i} /\ call'[i] = c
        /\ \A j \in DOMAIN call \ {i} :
             /\ call'[j].kind = call[j].kind /\ call'[j].at = call[j].at
             /\ ~call'[j].newest /\ call'[j].got = call[j].got
    BY <2>1, <2>2, PanelWith
  <2>6. PanelBehind'
    BY <1>1, <2>1, <2>2, <2>5 DEF PanelInv, PanelBehind
  <2>7. PanelNewest'
    BY <1>1, <2>1, <2>2, <2>5 DEF PanelInv, PanelNewest
  <2>8. PanelFresh'
    BY <1>1, <2>1, <2>2, <2>5 DEF PanelInv, PanelFresh
  <2>9. PanelActive'
    BY <1>1, <2>1, <2>2, <2>5 DEF PanelInv, PanelActive
  <2> QED
    BY <1>1, <2>2, <2>4, <2>6, <2>7, <2>8, <2>9 DEF PanelInv
<1>4. CASE Panel!CooledDown
  BY <1>1, <1>4
     DEF Panel!CooledDown, PanelInv, PanelTypes, PanelBehind, PanelNewest, PanelFresh, PanelActive,
         Panel!TypeOK
<1>5. ASSUME NEW i \in DOMAIN call, Panel!Done(i) \/ Panel!Failed(i)
      PROVE  PanelInv' /\ account'.after >= account.after
  <2>1. PICK at \in {"answered", "refreshed", "failed"}, got \in Panel!Statuses :
          /\ call' = [call EXCEPT ![i].got = got, ![i].at = at]
          /\ got.after >= desk.after /\ got.after <= desk'.after
    <3>1. CASE Panel!Done(i)
      <4>1. desk' \in Panel!Statuses /\ desk'.after \in Nat /\ desk'.after >= desk.after
        <5>1. call[i].kind \in Panel!Active \cup {"refresh"}
          BY <1>1 DEF Panel!Calls
        <5> QED
          BY <1>1, <3>1, <5>1, PanelEffect DEF Panel!Done
      <4> DEFINE at == IF call[i].at = "refresh" THEN "refreshed" ELSE "answered"
      <4>2. call' = [call EXCEPT ![i].got = desk', ![i].at = at]
        BY <3>1 DEF Panel!Done
      <4>3. at \in {"answered", "refreshed", "failed"}
        OBVIOUS
      <4> HIDE DEF at
      <4>4. desk'.after <= desk'.after
        BY <4>1
      <4> QED
        BY <4>1, <4>2, <4>3, <4>4, Zenon
    <3>2. CASE Panel!Failed(i)
      <4>1. Panel!Guest(desk.after) \in Panel!Statuses /\ Panel!Guest(desk.after).after = desk.after
        BY <1>1 DEF Panel!Guest, Panel!Statuses
      <4> DEFINE at == IF call[i].at = "refresh" THEN "refreshed" ELSE "failed"
      <4>2. call' = [call EXCEPT ![i].got = Panel!Guest(desk.after), ![i].at = at]
        BY <3>2 DEF Panel!Failed
      <4>3. at \in {"answered", "refreshed", "failed"} /\ desk' = desk
        BY <3>2 DEF Panel!Failed
      <4> HIDE DEF at
      <4>4. desk.after >= desk.after /\ desk.after <= desk.after
        BY <1>1
      <4> QED
        BY <4>1, <4>2, <4>3, <4>4, Zenon
    <3> QED
      BY <1>5, <3>1, <3>2
  <2>2. /\ desk' \in Panel!Statuses /\ desk'.after \in Nat /\ desk'.after >= desk.after
        /\ account' = account /\ pending' = pending /\ loading' = loading
        /\ redeeming' = redeeming /\ request' = request
    <3>1. CASE Panel!Done(i)
      <4>1. call[i].kind \in Panel!Active \cup {"refresh"}
        BY <1>1 DEF Panel!Calls
      <4> QED
        BY <1>1, <3>1, <4>1, PanelEffect DEF Panel!Done
    <3>2. CASE Panel!Failed(i)
      BY <1>1, <3>2 DEF Panel!Failed
    <3> QED
      BY <1>5, <3>1, <3>2
  <2>3. /\ DOMAIN call' = DOMAIN call /\ call' \in [DOMAIN call -> Panel!Calls]
        /\ call'[i].got = got /\ call'[i].newest = call[i].newest
        /\ call'[i].kind = call[i].kind
        /\ \A j \in DOMAIN call : j # i => call'[j] = call[j]
    BY <1>1, <2>1 DEF Panel!Calls
  <2>4. PanelTypes'
    BY <1>1, <2>2, <2>3 DEF PanelInv, PanelTypes, Panel!TypeOK
  <2>5. got.after \in Nat /\ got.after >= account.after
    BY <1>1, <2>1 DEF Panel!Statuses, PanelInv, PanelBehind
  <2>6. PanelBehind' /\ PanelNewest' /\ PanelFresh' /\ PanelActive'
    BY <1>1, <2>1, <2>2, <2>3, <2>5
       DEF PanelInv, PanelBehind, PanelNewest, PanelFresh, PanelActive
  <2> QED
    BY <1>1, <2>2, <2>4, <2>6 DEF PanelInv
<1>6. ASSUME NEW i \in DOMAIN call, Panel!RefreshAnswer(i)
      PROVE  PanelInv' /\ account'.after >= account.after
  <2>1. pending # i
    BY <1>1, <1>6 DEF PanelInv, PanelActive, Panel!RefreshAnswer
  <2> QED
    BY <1>1, <1>6, <2>1, PanelAnswers
       DEF Panel!RefreshAnswer, PanelInv, PanelTypes, Panel!TypeOK
<1>7. ASSUME NEW i \in DOMAIN call, Panel!Refuses(i)
      PROVE  PanelInv' /\ account'.after >= account.after
  BY <1>1, <1>7, PanelAnswers
     DEF Panel!Refuses, Panel!Finishes, PanelInv, PanelTypes, Panel!TypeOK
<1>8. ASSUME NEW i \in DOMAIN call, Panel!Succeeds(i)
      PROVE  PanelInv' /\ account'.after >= account.after
  <2>1. /\ call' = Panel!Without(i) /\ desk' = desk
        /\ pending' = IF pending = i THEN None ELSE pending
        /\ call[i].at = "answered" /\ request' = request
    BY <1>8 DEF Panel!Succeeds, Panel!Finishes
  <2>4. account' = account \/ (pending = i /\ account' = call[i].got)
    BY <1>8 DEF Panel!Succeeds
  <2>2. loading' \in BOOLEAN /\ redeeming' \in BOOLEAN
    BY <1>8 DEF Panel!Succeeds, Panel!Finishes, PanelInv, PanelTypes, Panel!TypeOK
  <2>3. request' \in {"idle", "pending", "success", "error"}
    BY <2>1 DEF PanelInv, PanelTypes, Panel!TypeOK
  <2>5. \/ account' = account
        \/ /\ account' = call[i].got /\ call[i].at \in {"failed", "answered", "refreshed"}
           /\ pending = i \/ (pending = None /\ call[i].newest)
    BY <2>1, <2>4
  <2> QED
    BY <2>1, <2>2, <2>3, <2>5, PanelAnswers
<1>9. ASSUME NEW i \in DOMAIN call, Panel!ReadAgain(i)
      PROVE  PanelInv' /\ account'.after >= account.after
  BY <1>1, <1>9, PanelAnswers
     DEF Panel!ReadAgain, PanelInv, PanelTypes, Panel!TypeOK
<1>10. ASSUME NEW i \in DOMAIN call, Panel!ReadsAgain(i)
       PROVE  PanelInv' /\ account'.after >= account.after
  <2>1. CASE pending # i
    BY <1>1, <1>10, <2>1, PanelAnswers
       DEF Panel!ReadsAgain, Panel!Finishes, PanelInv, PanelTypes, Panel!TypeOK
  <2>2. CASE pending = i
    <3> DEFINE c == [call[i] EXCEPT !.at = "refresh", !.newest = TRUE]
    <3>1. /\ c \in Panel!Calls /\ c.newest /\ c.at = "refresh" /\ c.got = call[i].got
          /\ c.kind = call[i].kind
      BY <1>1 DEF Panel!Calls
    <3>2. /\ call' = Panel!With(Panel!Overtaken, i, c) /\ i \in Slots
          /\ desk' = desk /\ account' = account /\ pending' = i /\ pending = i
      BY <1>1, <1>10, <2>2 DEF Panel!ReadsAgain
    <3>3. /\ loading' \in BOOLEAN /\ redeeming' \in BOOLEAN
          /\ request' \in {"idle", "pending", "success", "error"}
      BY <1>10, <2>2 DEF Panel!ReadsAgain, PanelInv, PanelTypes, Panel!TypeOK
    <3> HIDE DEF c
    <3>4. PanelTypes'
      <4>1. DOMAIN call' = DOMAIN call \cup {i} /\ DOMAIN call' \subseteq Slots
            /\ call' \in [DOMAIN call' -> Panel!Calls]
        BY <1>1, <3>1, <3>2, <3>3, PanelWith
      <4> QED
        BY <1>1, <3>2, <3>3, <4>1 DEF PanelInv, PanelTypes, Panel!TypeOK
    <3>5. /\ DOMAIN call' = DOMAIN call \cup {i} /\ call'[i] = c
          /\ \A j \in DOMAIN call \ {i} :
               /\ call'[j].kind = call[j].kind /\ call'[j].at = call[j].at
               /\ ~call'[j].newest /\ call'[j].got = call[j].got
      BY <3>1, <3>2, PanelWith
    <3>6. PanelBehind'
      BY <1>1, <3>1, <3>2, <3>5 DEF PanelInv, PanelBehind
    <3>7. PanelNewest'
      BY <1>1, <3>1, <3>2, <3>5 DEF PanelInv, PanelNewest
    <3>8. PanelFresh'
      BY <1>1, <3>1, <3>2, <3>5 DEF PanelInv, PanelFresh
    <3>9. PanelActive'
      BY <1>1, <3>1, <3>2, <3>5 DEF PanelInv, PanelActive
    <3> QED
      BY <1>1, <3>2, <3>4, <3>6, <3>7, <3>8, <3>9 DEF PanelInv
  <2> QED
    BY <2>1, <2>2
<1>11. CASE UNCHANGED panelVars
  BY <1>1, <1>11
     DEF panelVars, PanelInv, PanelTypes, PanelBehind, PanelNewest, PanelFresh, PanelActive,
         Panel!TypeOK
<1> QED
  BY <1>2, <1>3, <1>4, <1>5, <1>6, <1>7, <1>8, <1>9, <1>10, <1>11 DEF Panel!Next

-----------------------------------------------------------------------------
(* Collections of notes (NoteCollections).                                  *)

Creations ==
  [phase : {"idle", "composing", "attaching", "failed"}, id : 0..MaxIntents,
   collection : Collections \cup {None}, task : Notes \cup {None}, attempt : 0..(MaxIntents + 1)]
Changes ==
  [step : {"none", "sent", "done", "failed"}, got : Shelves!Shelf, by : Shelves!Attempt,
   pair : (Collections \X Notes) \cup {None}]
Readings == [step : {"none", "sent", "read"}, got : Shelves!Shelf]

ShelvesTypes == Shelves!TypeOK

\* What a note is made for is known, and the note once there is one.
ShelvesCreation ==
  /\ creation.phase # "idle" => creation.collection \in Collections
  /\ creation.phase \in {"attaching", "failed"} => creation.task \in Notes

\* A load and a mutation are not under way at the same time.
ShelvesOneAtATime == change.step # "none" => reading.step = "none"

\* What may still be shown is no older than what is shown, and not of the future.
ShelvesFresh ==
  /\ view.changes <= shelf.changes
  /\ reading.step = "read" =>
       reading.got.changes >= view.changes /\ reading.got.changes <= shelf.changes
  /\ change.step = "done" =>
       change.got.changes >= view.changes /\ change.got.changes <= shelf.changes

ShelvesAttach == Shelves!AttachmentWillEnd

ShelvesInv ==
  /\ ShelvesTypes /\ ShelvesCreation /\ ShelvesOneAtATime /\ ShelvesFresh /\ ShelvesAttach

LEMMA ShelvesTyped ==
  ShelvesTypes <=> /\ shelf \in Shelves!Shelf /\ view \in Shelves!Shelf
                   /\ reading \in Readings /\ change \in Changes /\ creation \in Creations
                   /\ making \in [step : {"none", "running"}, of : 0..MaxIntents]
                   /\ made \subseteq Notes
BY DEF ShelvesTypes, Shelves!TypeOK, Readings, Changes, Creations

LEMMA ShelvesTypedNext ==
  ShelvesTypes' <=> /\ shelf' \in Shelves!Shelf /\ view' \in Shelves!Shelf
                    /\ reading' \in Readings /\ change' \in Changes /\ creation' \in Creations
                    /\ making' \in [step : {"none", "running"}, of : 0..MaxIntents]
                    /\ made' \subseteq Notes
BY DEF ShelvesTypes, Shelves!TypeOK, Readings, Changes, Creations

\* What is nothing yet has the types of what will be.
LEMMA ShelvesNothing ==
  /\ Shelves!Nothing \in Shelves!Shelf /\ Shelves!Nothing.changes = 0
  /\ Shelves!NoReading \in Readings /\ Shelves!NoReading.step = "none"
  /\ Shelves!NoChange \in Changes /\ Shelves!NoChange.step = "none"
  /\ Shelves!Nobody \in Shelves!Attempt
  /\ \A n \in 0..MaxIntents : Shelves!Idle(n) \in Creations /\ Shelves!Idle(n).phase = "idle"
  /\ Shelves!Unmade \in [step : {"none", "running"}, of : 0..MaxIntents]
<1> USE ConstantsAssumption
<1>1. Shelves!Nothing \in Shelves!Shelf /\ Shelves!Nothing.changes = 0
  BY DEF Shelves!Nothing, Shelves!Shelf
<1>2. Shelves!Nobody \in Shelves!Attempt
  BY DEF Shelves!Nobody, Shelves!Attempt
<1>3. Shelves!NoReading \in Readings /\ Shelves!NoReading.step = "none"
  BY <1>1 DEF Shelves!NoReading, Readings
<1>4. Shelves!NoChange \in Changes /\ Shelves!NoChange.step = "none"
  BY <1>1, <1>2 DEF Shelves!NoChange, Changes
<1>5. \A n \in 0..MaxIntents : Shelves!Idle(n) \in Creations /\ Shelves!Idle(n).phase = "idle"
  BY DEF Shelves!Idle, Creations
<1>6. Shelves!Unmade \in [step : {"none", "running"}, of : 0..MaxIntents]
  BY DEF Shelves!Unmade
<1> QED
  BY <1>1, <1>2, <1>3, <1>4, <1>5, <1>6

LEMMA ShelvesStarts == Shelves!Init => ShelvesInv
BY ConstantsAssumption, ShelvesNothing, ShelvesTyped
   DEF Shelves!Init, ShelvesInv, ShelvesCreation, ShelvesOneAtATime, ShelvesFresh, ShelvesAttach,
       Shelves!AttachmentWillEnd

\* A mutation that begins overtakes what is read.
LEMMA ShelvesMutate ==
  ASSUME ShelvesInv, NEW pair \in (Collections \X Notes) \cup {None}, NEW by \in Shelves!Attempt,
         Shelves!mutate(pair, by)
  PROVE  /\ change' \in Changes /\ change'.step = "sent" /\ change'.by = by
         /\ reading' \in Readings /\ reading'.step = "none"
BY ShelvesNothing DEF Shelves!mutate, Changes

\* The attachment of an attempt: a mutation of that attempt, or a failure.
LEMMA ShelvesAttaches ==
  ASSUME ShelvesInv, NEW i \in Creations, i.phase = "attaching", i.collection \in Collections,
         i.task \in Notes, Shelves!attach(i)
  PROVE  /\ change' \in Changes /\ reading' \in Readings /\ creation' \in Creations
         /\ creation'.collection \in Collections /\ creation'.task \in Notes
         /\ change'.step # "none" => reading'.step = "none"
         /\ creation'.phase = "attaching" => change'.by = Shelves!Current'
         /\ reading' = reading \/ reading'.step = "none"
         /\ change' = change \/ change'.step = "sent"
<1>1. CASE change.step = "none"
  <2> DEFINE by == [of |-> i.id, attempt |-> i.attempt]
  <2>1. by \in Shelves!Attempt /\ <<i.collection, i.task>> \in Collections \X Notes
    BY DEF Creations, Shelves!Attempt
  <2>2. Shelves!mutate(<<i.collection, i.task>>, by) /\ creation' = i
    BY <1>1 DEF Shelves!attach
  <2>3. Shelves!Current' = by
    BY <2>2 DEF Shelves!Current
  <2> HIDE DEF by
  <2> QED
    BY <2>1, <2>2, <2>3, ShelvesMutate
<1>2. CASE change.step # "none"
  <2>1. /\ creation' = [i EXCEPT !.phase = "failed"] /\ reading' = reading /\ change' = change
    BY <1>2 DEF Shelves!attach
  <2>2. creation' \in Creations /\ creation'.phase = "failed" /\ creation'.task = i.task
        /\ creation'.collection = i.collection
    BY <2>1 DEF Creations
  <2> QED
    BY <1>2, <2>1, <2>2, ShelvesTyped DEF ShelvesInv, ShelvesOneAtATime
<1> QED
  BY <1>1, <1>2

\* Every step of the component keeps it, and what is shown gets no older.
LEMMA ShelvesSteps ==
  ASSUME ShelvesInv, Shelves!Next \/ UNCHANGED collectionsVars
  PROVE  ShelvesInv' /\ view'.changes >= view.changes
<1> DEFINE Good == ShelvesInv' /\ view'.changes >= view.changes
<1>1. /\ shelf \in Shelves!Shelf /\ view \in Shelves!Shelf
      /\ reading \in Readings /\ change \in Changes /\ creation \in Creations
      /\ making \in [step : {"none", "running"}, of : 0..MaxIntents] /\ made \subseteq Notes
      /\ shelf.changes \in Nat /\ view.changes \in Nat /\ shelf.changes \in 0..MaxShelf
      /\ reading.got \in Shelves!Shelf /\ change.got \in Shelves!Shelf
      /\ reading.got.changes \in Nat /\ change.got.changes \in Nat
      /\ shelf.members \subseteq Collections \X Notes
      /\ change.pair \in (Collections \X Notes) \cup {None}
      /\ creation.id \in 0..MaxIntents /\ creation.attempt \in 0..(MaxIntents + 1)
      /\ MaxIntents \in Nat /\ MaxShelf \in Nat
  BY ConstantsAssumption, ShelvesTyped DEF ShelvesInv, Shelves!Shelf, Readings, Changes, Creations
<1>2. CASE Shelves!load
  <2>1. /\ reading' = [Shelves!NoReading EXCEPT !.step = "sent"] /\ change.step = "none"
        /\ shelf' = shelf /\ view' = view /\ change' = change /\ creation' = creation
        /\ making' = making /\ made' = made
    BY <1>2 DEF Shelves!load, Shelves!Creation
  <2>2. reading' \in Readings /\ reading'.step = "sent"
    BY <2>1, ShelvesNothing DEF Readings
  <2>3. ShelvesTypes'
    BY <1>1, <2>1, <2>2, ShelvesTypedNext
  <2> QED
    BY <1>1, <2>1, <2>2, <2>3
       DEF ShelvesInv, ShelvesCreation, ShelvesOneAtATime, ShelvesFresh, ShelvesAttach,
           Shelves!AttachmentWillEnd, Shelves!Current
<1>3. CASE Shelves!LoadReads
  <2>1. /\ reading.step = "sent" /\ reading' = [step |-> "read", got |-> shelf]
        /\ shelf' = shelf /\ view' = view /\ change' = change /\ creation' = creation
        /\ making' = making /\ made' = made
    BY <1>3 DEF Shelves!LoadReads, Shelves!Creation
  <2>2. reading' \in Readings /\ reading'.step = "read" /\ reading'.got = shelf
    BY <1>1, <2>1 DEF Readings
  <2>3. ShelvesTypes'
    BY <1>1, <2>1, <2>2, ShelvesTypedNext
  <2> QED
    BY <1>1, <2>1, <2>2, <2>3
       DEF ShelvesInv, ShelvesCreation, ShelvesOneAtATime, ShelvesFresh, ShelvesAttach,
           Shelves!AttachmentWillEnd, Shelves!Current
<1>4. CASE Shelves!Loaded
  <2>1. /\ reading.step = "read" /\ reading' = Shelves!NoReading
        /\ view' = view \/ view' = reading.got
        /\ shelf' = shelf /\ change' = change /\ creation' = creation
        /\ making' = making /\ made' = made
    BY <1>4 DEF Shelves!Loaded, Shelves!Creation
  <2>2. ShelvesTypes' /\ reading'.step = "none"
    BY <1>1, <2>1, ShelvesTypedNext, ShelvesNothing
  <2> QED
    BY <1>1, <2>1, <2>2
       DEF ShelvesInv, ShelvesCreation, ShelvesOneAtATime, ShelvesFresh, ShelvesAttach,
           Shelves!AttachmentWillEnd, Shelves!Current
<1>5. CASE Shelves!UserChanges \/ Shelves!UserFiles
  <2>1. PICK pair \in (Collections \X Notes) \cup {None} : Shelves!mutate(pair, Shelves!Nobody)
    BY <1>1, <1>5 DEF Shelves!UserChanges, Shelves!UserFiles
  <2>2. /\ shelf' = shelf /\ view' = view /\ creation' = creation /\ making' = making
        /\ made' = made /\ creation.phase # "attaching"
    BY <1>5 DEF Shelves!UserChanges, Shelves!UserFiles, Shelves!Creation
  <2>3. /\ change' \in Changes /\ change'.step = "sent"
        /\ reading' \in Readings /\ reading'.step = "none"
    BY <2>1, ShelvesMutate, ShelvesNothing
  <2>4. ShelvesTypes'
    BY <1>1, <2>2, <2>3, ShelvesTypedNext
  <2> QED
    BY <1>1, <2>2, <2>3, <2>4
       DEF ShelvesInv, ShelvesCreation, ShelvesOneAtATime, ShelvesFresh, ShelvesAttach,
           Shelves!AttachmentWillEnd
<1>6. CASE Shelves!Changed
  <2> DEFINE next == [changes |-> shelf.changes + 1,
                      members |-> IF change.pair = None THEN shelf.members
                                  ELSE IF change.by = Shelves!Nobody /\ change.pair \in shelf.members
                                  THEN shelf.members \ {change.pair}
                                  ELSE shelf.members \cup {change.pair}]
  <2>1. /\ next \in Shelves!Shelf /\ next.changes = shelf.changes + 1
    <3> DEFINE n == shelf.changes + 1
               set == IF change.pair = None THEN shelf.members
                      ELSE IF change.by = Shelves!Nobody /\ change.pair \in shelf.members
                      THEN shelf.members \ {change.pair}
                      ELSE shelf.members \cup {change.pair}
    <3>1. n \in 0..MaxShelf
      BY <1>1, <1>6 DEF Shelves!Changed
    <3>2. set \subseteq Collections \X Notes
      BY <1>1
    <3> HIDE DEF n, set
    <3>3. [changes |-> n, members |-> set] \in Shelves!Shelf
      BY <3>1, <3>2 DEF Shelves!Shelf
    <3> QED
      BY <3>3 DEF n, set
  <2>2. /\ view' = view /\ reading' = reading /\ creation' = creation /\ making' = making
        /\ made' = made /\ change.step = "sent"
        /\ \/ shelf' = next /\ change' = [change EXCEPT !.step = "done", !.got = next]
           \/ (shelf' = next \/ shelf' = shelf) /\ change' = [change EXCEPT !.step = "failed"]
    BY <1>6 DEF Shelves!Changed, Shelves!Creation
  <2> HIDE DEF next
  <2>3. /\ change' \in Changes /\ change'.by = change.by /\ shelf' \in Shelves!Shelf
        /\ \/ change'.step = "done" /\ change'.got = next /\ shelf' = next
           \/ change'.step = "failed"
    BY <1>1, <2>1, <2>2 DEF Changes
  <2>4. shelf'.changes >= shelf.changes
    BY <1>1, <2>1, <2>2
  <2>5. ShelvesTypes'
    BY <1>1, <2>2, <2>3, ShelvesTypedNext
  <2>6. reading.step = "none"
    BY <2>2 DEF ShelvesInv, ShelvesOneAtATime
  <2>7. ShelvesFresh'
    BY <1>1, <2>1, <2>2, <2>3, <2>4, <2>6 DEF ShelvesInv, ShelvesFresh
  <2> QED
    BY <1>1, <2>2, <2>3, <2>5, <2>6, <2>7
       DEF ShelvesInv, ShelvesCreation, ShelvesOneAtATime, ShelvesAttach,
           Shelves!AttachmentWillEnd, Shelves!Current
<1>7. ASSUME NEW n \in Notes, Shelves!Pruned(n) PROVE Good
  <2> DEFINE k == shelf.changes + 1
             left == {p \in shelf.members : p[2] # n}
  <2>1. k \in 0..MaxShelf /\ k >= shelf.changes /\ left \subseteq Collections \X Notes
    BY <1>1, <1>7 DEF Shelves!Pruned
  <2>2. /\ shelf' = [changes |-> k, members |-> left] /\ view' = view /\ reading' = reading
        /\ change' = change /\ creation' = creation /\ making' = making /\ made' = made
    BY <1>7 DEF Shelves!Pruned, Shelves!Creation
  <2> HIDE DEF k, left
  <2>3. shelf' \in Shelves!Shelf /\ shelf'.changes = k
    BY <2>1, <2>2 DEF Shelves!Shelf
  <2>4. ShelvesTypes'
    BY <1>1, <2>2, <2>3, ShelvesTypedNext
  <2> QED
    BY <1>1, <2>1, <2>2, <2>3, <2>4
       DEF ShelvesInv, ShelvesCreation, ShelvesOneAtATime, ShelvesFresh, ShelvesAttach,
           Shelves!AttachmentWillEnd, Shelves!Current
<1>8. ASSUME NEW c \in Collections, Shelves!begin(c) PROVE Good
  <2> DEFINE id == creation.id + 1
  <2>1. id \in 0..MaxIntents /\ creation.phase # "attaching"
    BY <1>1, <1>8 DEF Shelves!begin
  <2>2. /\ creation' = [phase |-> "composing", id |-> id, collection |-> c, task |-> None,
                        attempt |-> 0]
        /\ shelf' = shelf /\ view' = view /\ reading' = reading /\ change' = change
        /\ making' = making /\ made' = made
    BY <1>8 DEF Shelves!begin
  <2> HIDE DEF id
  <2>3. creation' \in Creations /\ creation'.phase = "composing" /\ creation'.collection = c
    BY <1>1, <2>1, <2>2 DEF Creations
  <2>4. ShelvesTypes'
    BY <1>1, <2>2, <2>3, ShelvesTypedNext
  <2> QED
    BY <1>1, <2>2, <2>3, <2>4
       DEF ShelvesInv, ShelvesCreation, ShelvesOneAtATime, ShelvesFresh, ShelvesAttach,
           Shelves!AttachmentWillEnd
<1>9. CASE Shelves!clear
  <2> DEFINE id == creation.id + 1
  <2>1. id \in 0..MaxIntents
    BY <1>1, <1>9 DEF Shelves!clear
  <2>2. /\ creation' = Shelves!Idle(id)
        /\ shelf' = shelf /\ view' = view /\ reading' = reading /\ change' = change
        /\ making' = making /\ made' = made
    BY <1>9 DEF Shelves!clear
  <2> HIDE DEF id
  <2>3. creation' \in Creations /\ creation'.phase = "idle"
    BY <2>1, <2>2, ShelvesNothing
  <2>4. ShelvesTypes'
    BY <1>1, <2>2, <2>3, ShelvesTypedNext
  <2> QED
    BY <1>1, <2>2, <2>3, <2>4
       DEF ShelvesInv, ShelvesCreation, ShelvesOneAtATime, ShelvesFresh, ShelvesAttach,
           Shelves!AttachmentWillEnd
<1>10. CASE Shelves!submit
  <2>1. /\ making' = [step |-> "running",
                      of |-> IF creation.phase = "composing" THEN creation.id ELSE 0]
        /\ shelf' = shelf /\ view' = view /\ reading' = reading /\ change' = change
        /\ creation' = creation /\ made' = made
    BY <1>10 DEF Shelves!submit
  <2>2. ShelvesTypes'
    BY <1>1, <2>1, ShelvesTypedNext
  <2> QED
    BY <1>1, <2>1, <2>2
       DEF ShelvesInv, ShelvesCreation, ShelvesOneAtATime, ShelvesFresh, ShelvesAttach,
           Shelves!AttachmentWillEnd, Shelves!Current
<1>11. ASSUME NEW i \in Creations, i.phase = "attaching", i.collection \in Collections,
              i.task \in Notes, Shelves!attach(i), shelf' = shelf, view' = view,
              making' \in [step : {"none", "running"}, of : 0..MaxIntents], made' \subseteq Notes
       PROVE  Good
  <2>1. /\ change' \in Changes /\ reading' \in Readings /\ creation' \in Creations
        /\ creation'.collection \in Collections /\ creation'.task \in Notes
        /\ change'.step # "none" => reading'.step = "none"
        /\ creation'.phase = "attaching" => change'.by = Shelves!Current'
        /\ reading' = reading \/ reading'.step = "none"
        /\ change' = change \/ change'.step = "sent"
    BY <1>11, ShelvesAttaches
  <2>2. ShelvesTypes'
    BY <1>1, <1>11, <2>1, ShelvesTypedNext
  <2>3. ShelvesCreation' /\ ShelvesOneAtATime' /\ ShelvesAttach'
    BY <2>1 DEF ShelvesCreation, ShelvesOneAtATime, ShelvesAttach, Shelves!AttachmentWillEnd
  <2>4. ShelvesFresh' /\ view'.changes >= view.changes
    BY <1>1, <1>11, <2>1 DEF ShelvesInv, ShelvesFresh
  <2> QED
    BY <2>2, <2>3, <2>4 DEF ShelvesInv
<1>12. ASSUME NEW n \in Notes \cup {None}, Shelves!submitted(n) PROVE Good
  <2>1. /\ making' \in [step : {"none", "running"}, of : 0..MaxIntents] /\ made' \subseteq Notes
        /\ shelf' = shelf /\ view' = view
    BY <1>1, <1>12, ShelvesNothing DEF Shelves!submitted
  <2>2. CASE Shelves!completes(n)
    <3> DEFINE i == [creation EXCEPT !.phase = "attaching", !.task = n, !.attempt = 1]
    <3>1. /\ i \in Creations /\ i.phase = "attaching" /\ i.task \in Notes
          /\ i.collection \in Collections
      <4>1. n \in Notes /\ creation.collection \in Collections /\ 1 \in 0..(MaxIntents + 1)
        BY <1>1, <2>2 DEF Shelves!completes, ShelvesInv, ShelvesCreation
      <4> QED
        BY <1>1, <4>1 DEF Creations
    <3>2. Shelves!attach(i)
      BY <1>12, <2>2 DEF Shelves!submitted
    <3> HIDE DEF i
    <3> QED
      BY <1>11, <2>1, <3>1, <3>2
  <2>3. CASE ~Shelves!completes(n)
    <3>1. reading' = reading /\ change' = change /\ creation' = creation
      BY <1>12, <2>3 DEF Shelves!submitted
    <3>2. ShelvesTypes'
      BY <1>1, <2>1, <3>1, ShelvesTypedNext
    <3> QED
      BY <1>1, <2>1, <3>1, <3>2
         DEF ShelvesInv, ShelvesCreation, ShelvesOneAtATime, ShelvesFresh, ShelvesAttach,
             Shelves!AttachmentWillEnd, Shelves!Current
  <2> QED
    BY <2>2, <2>3
<1>13. CASE Shelves!retry
  <2> DEFINE k == creation.attempt + 1
             i == [creation EXCEPT !.phase = "attaching", !.attempt = k]
  <2>1. k \in 0..(MaxIntents + 1)
    BY <1>1, <1>13 DEF Shelves!retry
  <2>2. Shelves!attach(i)
    <3>1. [creation EXCEPT !.phase = "attaching", !.attempt = @ + 1] = i
      BY <1>1 DEF Creations
    <3> QED
      BY <1>13, <3>1 DEF Shelves!retry
  <2>3. creation.collection \in Collections /\ creation.task \in Notes
    BY <1>13 DEF Shelves!retry, ShelvesInv, ShelvesCreation
  <2> HIDE DEF k
  <2>4. /\ i \in Creations /\ i.phase = "attaching" /\ i.task \in Notes
        /\ i.collection \in Collections
    BY <1>1, <2>1, <2>3 DEF Creations
  <2> HIDE DEF i
  <2> QED
    BY <1>1, <1>11, <1>13, <2>2, <2>4 DEF Shelves!retry
<1>14. CASE Shelves!ChangeAnswer
  <2>1. /\ change.step \in {"done", "failed"} /\ change' = Shelves!NoChange
        /\ view' = IF change.step = "done" THEN change.got ELSE view
        /\ shelf' = shelf /\ reading' = reading /\ making' = making /\ made' = made
    BY <1>14 DEF Shelves!ChangeAnswer
  <2>2. \/ creation' = creation /\ creation.phase # "attaching"
        \/ creation' = [creation EXCEPT !.phase = "failed"] /\ creation.phase = "attaching"
        \/ creation' = Shelves!Idle(creation.id)
    BY <1>14 DEF Shelves!ChangeAnswer, ShelvesInv, ShelvesAttach, Shelves!AttachmentWillEnd
  <2>3. /\ creation' \in Creations /\ creation'.phase # "attaching"
        /\ creation'.phase # "idle" => creation'.collection \in Collections
        /\ creation'.phase \in {"attaching", "failed"} => creation'.task \in Notes
    <3>1. CASE creation' = [creation EXCEPT !.phase = "failed"] /\ creation.phase = "attaching"
      BY <1>1, <3>1 DEF ShelvesInv, ShelvesCreation, Creations
    <3>2. CASE creation' = creation /\ creation.phase # "attaching"
      BY <1>1, <3>2 DEF ShelvesInv, ShelvesCreation
    <3>3. CASE creation' = Shelves!Idle(creation.id)
      BY <1>1, <3>3, ShelvesNothing
    <3> QED
      BY <2>2, <3>1, <3>2, <3>3
  <2>4. ShelvesTypes' /\ change'.step = "none"
    BY <1>1, <2>1, <2>3, ShelvesTypedNext, ShelvesNothing
  <2>5. reading.step = "none"
    BY <2>1 DEF ShelvesInv, ShelvesOneAtATime
  <2> QED
    BY <1>1, <2>1, <2>3, <2>4, <2>5
       DEF ShelvesInv, ShelvesCreation, ShelvesOneAtATime, ShelvesFresh, ShelvesAttach,
           Shelves!AttachmentWillEnd
<1>15. CASE UNCHANGED collectionsVars
  BY <1>1, <1>15, ShelvesTypedNext
     DEF collectionsVars, ShelvesInv, ShelvesCreation, ShelvesOneAtATime, ShelvesFresh,
         ShelvesAttach, Shelves!AttachmentWillEnd, Shelves!Current
<1> QED
  BY <1>2, <1>3, <1>4, <1>5, <1>6, <1>7, <1>8, <1>9, <1>10, <1>12, <1>13, <1>14, <1>15
     DEF Shelves!Next

-----------------------------------------------------------------------------
(* The settings and the models of speech recognition (Settings).            *)

PreferencesConstants == MaxReads \in Nat

\* A request that carries a model has one.
PreferencesCarries ==
  \A r \in requests :
    r.kind = "save" \/ (r.kind = "load" /\ r.step = "read") => r.model \in AsrModels

PreferencesInv == Preferences!TypeOK /\ PreferencesCarries /\ Preferences!BusyWillEnd

PreferencesSheets == [open : BOOLEAN, draft : AsrModels, saved : AsrModels, loading : BOOLEAN,
           saving : BOOLEAN, migrated : BOOLEAN,
           kept : SUBSET {"cache", "profile"}, known : BOOLEAN, reads : 0..MaxReads]

LEMMA PreferencesStarts == PreferencesConstants /\ Preferences!Init => PreferencesInv
<1> SUFFICES ASSUME PreferencesConstants, Preferences!Init PROVE PreferencesInv
  OBVIOUS
<1>0. 0 \in 0..MaxReads /\ {} \in SUBSET {"cache", "profile"}
  BY DEF PreferencesConstants
<1>1. /\ sheet \in PreferencesSheets /\ ~sheet.loading /\ ~sheet.saving
      /\ requests = {}
  BY <1>0 DEF Preferences!Init, PreferencesSheets
<1>2. config \in [model : AsrModels, migrated : BOOLEAN, kept : SUBSET {"cache", "profile"}]
  BY DEF Preferences!Init
<1> QED
  BY <1>1, <1>2
     DEF PreferencesInv, Preferences!TypeOK, PreferencesSheets, PreferencesCarries,
         Preferences!BusyWillEnd

\* A request is answered, or put into its next step.
LEMMA PreferencesGoes ==
  ASSUME PreferencesInv, NEW r \in requests, NEW n \in Preferences!Request, n.kind = r.kind,
         n.kind = "save" \/ (n.kind = "load" /\ n.step = "read") => n.model \in AsrModels,
         requests' = (requests \ {r}) \cup {n}, sheet' = sheet,
         config' \in [model : AsrModels, migrated : BOOLEAN, kept : SUBSET {"cache", "profile"}]
  PROVE  PreferencesInv'
<1>1. Preferences!TypeOK'
  BY DEF PreferencesInv, Preferences!TypeOK
<1>2. PreferencesCarries'
  BY DEF PreferencesInv, PreferencesCarries
<1>3. \A kinds : (\E q \in requests : q.kind \in kinds) => \E q \in requests' : q.kind \in kinds
  OBVIOUS
<1>4. Preferences!BusyWillEnd'
  <2>1. sheet.saving => \E q \in requests' : q.kind \in {"save", "cache", "profile"}
    BY <1>3 DEF PreferencesInv, Preferences!BusyWillEnd
  <2>2. sheet.loading => \E q \in requests' : q.kind = "load"
    BY DEF PreferencesInv, Preferences!BusyWillEnd
  <2> QED
    BY <2>1, <2>2 DEF Preferences!BusyWillEnd
<1> QED
  BY <1>1, <1>2, <1>4 DEF PreferencesInv

LEMMA PreferencesSteps == PreferencesConstants /\ PreferencesInv /\ (Preferences!Next \/ UNCHANGED Preferences!vars) => PreferencesInv'
<1> SUFFICES ASSUME PreferencesConstants, PreferencesInv, Preferences!Next \/ UNCHANGED Preferences!vars PROVE PreferencesInv'
  OBVIOUS
<1>0. /\ sheet \in PreferencesSheets /\ requests \subseteq Preferences!Request
      /\ config \in [model : AsrModels, migrated : BOOLEAN, kept : SUBSET {"cache", "profile"}]
  BY DEF PreferencesInv, Preferences!TypeOK, PreferencesSheets
<1>1. CASE UNCHANGED Preferences!vars
  BY <1>1
     DEF Preferences!vars, PreferencesInv, Preferences!TypeOK, PreferencesCarries,
         Preferences!BusyWillEnd
<1>2. CASE Preferences!openSettings
  <2>1. sheet.reads + 1 \in 0..MaxReads
    BY <1>0, <1>2 DEF PreferencesSheets, Preferences!openSettings, PreferencesConstants
  <2> DEFINE n == [kind |-> "load", id |-> sheet.reads + 1, model |-> None, step |-> "sent"]
  <2>2. n \in Preferences!Request /\ requests' = requests \cup {n}
    BY <1>2, <2>1 DEF Preferences!openSettings, Preferences!Request
  <2>3. sheet' \in PreferencesSheets /\ sheet'.saving = sheet.saving
    BY <1>0, <1>2, <2>1 DEF Preferences!openSettings, PreferencesSheets
  <2>4. config' = config
    BY <1>2 DEF Preferences!openSettings
  <2>5. n.kind = "load" /\ n.step = "sent"
    OBVIOUS
  <2> QED
    BY <1>0, <2>2, <2>3, <2>4, <2>5
       DEF PreferencesInv, Preferences!TypeOK, PreferencesSheets, PreferencesCarries,
           Preferences!BusyWillEnd
<1>3. CASE Preferences!closeSettings \/ Preferences!updateSettingsDraft \/ Preferences!discardSettings
  <2>1. /\ sheet' \in PreferencesSheets /\ sheet'.saving = sheet.saving /\ sheet'.loading = sheet.loading
        /\ requests' = requests /\ config' = config
    BY <1>0, <1>3
       DEF Preferences!closeSettings, Preferences!updateSettingsDraft,
           Preferences!discardSettings, PreferencesSheets
  <2> QED
    BY <1>0, <2>1
       DEF PreferencesInv, Preferences!TypeOK, PreferencesSheets, PreferencesCarries,
           Preferences!BusyWillEnd
<1>4. ASSUME NEW kind \in {"save", "cache", "profile"}, Preferences!Change(kind) PROVE PreferencesInv'
  <2> DEFINE n == [kind |-> kind, id |-> 0, step |-> "sent",
                   model |-> IF kind = "save" THEN sheet.draft ELSE None]
  <2>1. sheet.draft \in AsrModels
    BY <1>0 DEF PreferencesSheets
  <2>2. n \in Preferences!Request /\ requests' = requests \cup {n}
    BY <1>4, <2>1
       DEF Preferences!Change, Preferences!Send, Preferences!Request, PreferencesConstants
  <2>3. sheet' \in PreferencesSheets /\ sheet'.loading = sheet.loading
    BY <1>0, <1>4 DEF Preferences!Change, PreferencesSheets
  <2>4. config' = config
    BY <1>4 DEF Preferences!Change
  <2>5. n.kind \in {"save", "cache", "profile"} /\ (n.kind = "save" => n.model \in AsrModels)
    BY <2>1
  <2> HIDE DEF n
  <2> QED
    BY <1>0, <2>2, <2>3, <2>4, <2>5
       DEF PreferencesInv, Preferences!TypeOK, PreferencesSheets, PreferencesCarries,
           Preferences!BusyWillEnd
<1>5. CASE Preferences!dismissAsrModelMigrationNotice
  <2> DEFINE n == [kind |-> "dismiss", id |-> 0, step |-> "sent",
                   model |-> IF "dismiss" = "save" THEN sheet.draft ELSE None]
  <2>2. n \in Preferences!Request /\ requests' = requests \cup {n} /\ n.kind = "dismiss"
    BY <1>5
       DEF Preferences!dismissAsrModelMigrationNotice, Preferences!Send, Preferences!Request,
           PreferencesConstants
  <2>3. /\ sheet' \in PreferencesSheets /\ sheet'.loading = sheet.loading /\ sheet'.saving = sheet.saving
        /\ config' = config
    BY <1>0, <1>5 DEF Preferences!dismissAsrModelMigrationNotice, PreferencesSheets
  <2> HIDE DEF n
  <2> QED
    BY <1>0, <2>2, <2>3
       DEF PreferencesInv, Preferences!TypeOK, PreferencesSheets, PreferencesCarries,
           Preferences!BusyWillEnd
<1>6. ASSUME NEW r \in requests, Preferences!LoadReads(r) PROVE PreferencesInv'
  <2>1. config.model \in AsrModels
    BY <1>0
  <2>2. [r EXCEPT !.step = "read", !.model = config.model] \in Preferences!Request
    BY <1>0, <2>1 DEF Preferences!Request
  <2> QED
    BY <1>0, <1>6, <2>1, <2>2, PreferencesGoes DEF Preferences!LoadReads, Preferences!Request
<1>7. ASSUME NEW r \in requests, Preferences!Loaded(r) PROVE PreferencesInv'
  <2>1. r.model \in AsrModels /\ config.migrated \in BOOLEAN /\ config.kept \in SUBSET {"cache", "profile"}
    BY <1>0, <1>7 DEF Preferences!Loaded, PreferencesInv, PreferencesCarries
  <2>2. sheet' \in PreferencesSheets /\ sheet'.loading = FALSE /\ sheet'.saving = sheet.saving
    BY <1>0, <1>7, <2>1 DEF Preferences!Loaded, PreferencesSheets
  <2>3. requests' = requests \ {r} /\ r.kind = "load" /\ config' = config
    BY <1>7 DEF Preferences!Loaded
  <2> QED
    BY <1>0, <2>2, <2>3
       DEF PreferencesInv, Preferences!TypeOK, PreferencesSheets, PreferencesCarries,
           Preferences!BusyWillEnd
<1>8. ASSUME NEW r \in requests, Preferences!Changes(r) PROVE PreferencesInv'
  <2>1. r \in Preferences!Request /\ (r.kind = "save" => r.model \in AsrModels) /\ r.kind # "load"
    BY <1>0, <1>8 DEF Preferences!Changes, PreferencesInv, PreferencesCarries
  <2>2. config' \in [model : AsrModels, migrated : BOOLEAN, kept : SUBSET {"cache", "profile"}]
    <3>1. CASE config' = config
      BY <1>0, <3>1
    <3>2. CASE r.kind = "save" /\ config' = [config EXCEPT !.model = r.model]
      BY <1>0, <2>1, <3>2
    <3>3. CASE config' = [config EXCEPT !.kept = config.kept \ {r.kind}]
      BY <1>0, <3>3
    <3>4. CASE config' = [config EXCEPT !.migrated = FALSE]
      BY <1>0, <3>4
    <3> QED
      BY <1>8, <2>1, <3>1, <3>2, <3>3, <3>4 DEF Preferences!Changes, Preferences!Request
  <2>3. PICK step \in {"done", "failed"} : requests' = (requests \ {r}) \cup {[r EXCEPT !.step = step]}
    BY <1>8 DEF Preferences!Changes
  <2>4. [r EXCEPT !.step = step] \in Preferences!Request /\ [r EXCEPT !.step = step].kind = r.kind
        /\ [r EXCEPT !.step = step].model = r.model
    BY <2>1 DEF Preferences!Request
  <2>5. sheet' = sheet
    BY <1>8 DEF Preferences!Changes
  <2> QED
    BY <2>1, <2>2, <2>3, <2>4, <2>5, PreferencesGoes
<1>9. ASSUME NEW r \in requests, Preferences!Changed(r) PROVE PreferencesInv'
  <2>1. r \in Preferences!Request /\ (r.kind = "save" => r.model \in AsrModels) /\ r.kind # "load"
    BY <1>0, <1>9 DEF Preferences!Changed, PreferencesInv, PreferencesCarries
  <2>2. requests' = requests \ {r} /\ config' = config
    BY <1>9 DEF Preferences!Changed
  <2>3. config.migrated \in BOOLEAN
    BY <1>0
  <2>4. /\ sheet' \in PreferencesSheets /\ sheet'.loading = sheet.loading
        /\ sheet'.saving = FALSE \/ (r.kind = "dismiss" /\ sheet'.saving = sheet.saving)
    <3>1. CASE r.kind = "dismiss" /\ sheet' = [sheet EXCEPT !.migrated = sheet.migrated \/ r.step = "failed"]
      BY <1>0, <3>1 DEF PreferencesSheets
    <3>2. CASE sheet' = [sheet EXCEPT !.saving = FALSE]
      BY <1>0, <3>2 DEF PreferencesSheets
    <3>3. CASE /\ r.kind = "save"
               /\ sheet' = [sheet EXCEPT !.saving = FALSE, !.draft = r.model, !.saved = r.model,
                                         !.migrated = config.migrated]
      BY <1>0, <2>1, <2>3, <3>3 DEF PreferencesSheets
    <3>4. CASE sheet' = [sheet EXCEPT !.saving = FALSE, !.kept = sheet.kept \ {r.kind}]
      BY <1>0, <3>4 DEF PreferencesSheets
    <3> QED
      <4>1. CASE r.kind = "dismiss"
        BY <1>9, <3>1, <4>1 DEF Preferences!Changed
      <4>2. CASE r.kind # "dismiss" /\ r.step = "failed"
        BY <1>9, <3>2, <4>2 DEF Preferences!Changed
      <4>3. CASE r.kind = "save" /\ r.step = "done"
        BY <1>9, <3>3, <4>3 DEF Preferences!Changed
      <4>4. CASE r.kind \notin {"dismiss", "save"} /\ r.step = "done"
        BY <1>9, <3>4, <4>4 DEF Preferences!Changed
      <4> QED
        BY <1>9, <4>1, <4>2, <4>3, <4>4 DEF Preferences!Changed
  <2> QED
    BY <1>0, <2>1, <2>2, <2>4
       DEF PreferencesInv, Preferences!TypeOK, PreferencesSheets, PreferencesCarries,
           Preferences!BusyWillEnd
<1> QED
  BY <1>1, <1>2, <1>3, <1>4, <1>5, <1>6, <1>7, <1>8, <1>9 DEF Preferences!Next

LEMMA PreferencesHolds == PreferencesInv => Preferences!BusyWillEnd
BY DEF PreferencesInv

-----------------------------------------------------------------------------
(* The preferences of the insights (PreferenceFlow).                        *)

WishesConstants == None \notin Profiles /\ Profiles \cap {"missing", "skipped", "invalid"} = {}

\* The choices of the steps that the flow has passed are made.
WishesSound(f) ==
  /\ f.screen = "confirmation" => f.chosen = Wishes!Required
  /\ f.screen = "generation_step" => \A i \in 1..(f.step - 1) : Wishes!GENERATION_STEPS[i] \in f.chosen

WishesFiles == [profile : Profiles \cup {"missing", "skipped", "invalid"}, default : BOOLEAN]

\* A call that goes on with a sheet brings it, and one that stores a profile brings that.
WishesSent == {c \in Wishes!Call : /\ c.kind = "skip" => c.flow \in Wishes!Flow
                                   /\ c.kind = "save" => c.profile \in Profiles}

WishesTypes ==
  /\ prefs \in WishesFiles /\ wizard \in Wishes!Flow \cup {None} /\ summaryOpen \in BOOLEAN
  /\ calls \in Seq(WishesSent)
  /\ busy \in BOOLEAN /\ held \in BOOLEAN /\ running \in BOOLEAN /\ awaiting \in BOOLEAN

WishesOfFile(f, p) ==
  /\ f.profile = (IF p.profile \in Profiles THEN p.profile ELSE None)
  /\ f.skipped = (p.profile = "skipped")

\* Whatever the sheet shows can be confirmed as far as it has come, and has the profile
\* of the file.
WishesShows(f) == f \in Wishes!Flow /\ WishesSound(f) /\ WishesOfFile(f, prefs)

WishesInv == WishesTypes /\ (wizard # None => WishesShows(wizard)) /\ Wishes!PreferencesWillAnswer

LEMMA WishesStarts == WishesConstants /\ Wishes!Init => WishesInv
<1> SUFFICES ASSUME WishesConstants, Wishes!Init PROVE WishesInv
  OBVIOUS
<1>1. calls \in Seq(WishesSent)
  BY DEF Wishes!Init
<1> QED
  BY <1>1 DEF Wishes!Init, WishesInv, WishesTypes, WishesFiles, Wishes!PreferencesWillAnswer

LEMMA WishesStepNames ==
  /\ Wishes!GENERATION_STEPS[1] = "goal" /\ Wishes!GENERATION_STEPS[2] = "scenario"
  /\ Wishes!GENERATION_STEPS[3] = "angles" /\ Wishes!GENERATION_STEPS[4] = "audience"
  /\ Wishes!GENERATION_STEPS[5] = "styles" /\ Wishes!GENERATION_STEPS[6] = "avoid"
BY DEF Wishes!GENERATION_STEPS

LEMMA WishesSixSteps == \A i \in 1..6 : i \in {1, 2, 3, 4, 5, 6}
OBVIOUS

\* What the flow becomes keeps the profile.
LEMMA WishesEdits ==
  ASSUME WishesShows(wizard), NEW g \in Wishes!Flow, WishesSound(g),
         g.profile = wizard.profile, g.skipped = wizard.skipped
  PROVE  WishesShows(g)
BY DEF WishesShows, WishesOfFile

LEMMA WishesScreens ==
  ASSUME NEW f \in Wishes!Flow, NEW screen \in {"profile_intro", "profile_form", "default_summary"}
  PROVE  /\ [f EXCEPT !.screen = screen] \in Wishes!Flow /\ WishesSound([f EXCEPT !.screen = screen])
         /\ [f EXCEPT !.screen = screen].profile = f.profile
         /\ [f EXCEPT !.screen = screen].skipped = f.skipped
         /\ [f EXCEPT !.screen = screen, !.step = 1] \in Wishes!Flow
         /\ WishesSound([f EXCEPT !.screen = screen, !.step = 1])
         /\ [f EXCEPT !.screen = screen, !.step = 1].profile = f.profile
         /\ [f EXCEPT !.screen = screen, !.step = 1].skipped = f.skipped
<1> DEFINE g == [f EXCEPT !.screen = screen]
           h == [f EXCEPT !.screen = screen, !.step = 1]
<1>1. 1 \in 1..6
  OBVIOUS
<1>2. g \in Wishes!Flow /\ g.screen = screen /\ g.profile = f.profile /\ g.skipped = f.skipped
  BY DEF Wishes!Flow
<1>3. h \in Wishes!Flow /\ h.screen = screen /\ h.profile = f.profile /\ h.skipped = f.skipped
  BY <1>1 DEF Wishes!Flow
<1> HIDE DEF g, h
<1>4. WishesSound(g) /\ WishesSound(h)
  BY <1>2, <1>3 DEF WishesSound
<1> QED
  BY <1>2, <1>3, <1>4 DEF g, h

LEMMA WishesFirstStep ==
  ASSUME NEW f \in Wishes!Flow
  PROVE  /\ Wishes!startGenerationPreferenceEditing(f) \in Wishes!Flow
         /\ WishesSound(Wishes!startGenerationPreferenceEditing(f))
         /\ Wishes!startGenerationPreferenceEditing(f).profile = f.profile
         /\ Wishes!startGenerationPreferenceEditing(f).skipped = f.skipped
<1> DEFINE g == Wishes!startGenerationPreferenceEditing(f)
<1>1. 1 \in 1..6
  OBVIOUS
<1>2. /\ g \in Wishes!Flow /\ g.screen = "generation_step" /\ g.step = 1
      /\ g.profile = f.profile /\ g.skipped = f.skipped
  BY <1>1 DEF Wishes!startGenerationPreferenceEditing, Wishes!Flow
<1> HIDE DEF g
<1>3. WishesSound(g)
  BY <1>2 DEF WishesSound
<1> QED
  BY <1>2, <1>3 DEF g

LEMMA WishesCreated ==
  ASSUME NEW p \in WishesFiles
  PROVE  /\ Wishes!createInsightPreferenceFlow(p) \in Wishes!Flow /\ WishesSound(Wishes!createInsightPreferenceFlow(p))
         /\ WishesOfFile(Wishes!createInsightPreferenceFlow(p), p)
<1> DEFINE f == Wishes!createInsightPreferenceFlow(p)
<1>1. f.screen \in {"profile_intro", "default_summary", "generation_step"}
  BY DEF Wishes!createInsightPreferenceFlow
<1>2. /\ f.step = 1 /\ f.profile = IF p.profile \in Profiles THEN p.profile ELSE None
      /\ f.skipped = (p.profile = "skipped") /\ f.chosen \in SUBSET Wishes!Required
      /\ f.reset = (p.profile = "invalid") /\ f.default = p.default
  BY DEF Wishes!createInsightPreferenceFlow
<1>3. f \in Wishes!Flow
  BY <1>1, <1>2 DEF Wishes!createInsightPreferenceFlow, Wishes!Flow, WishesFiles
<1> HIDE DEF f
<1>4. WishesSound(f)
  BY <1>1, <1>2 DEF WishesSound
<1> QED
  BY <1>2, <1>3, <1>4 DEF WishesOfFile, f

LEMMA WishesSelected ==
  ASSUME NEW f \in Wishes!Flow, WishesSound(f), f.screen = "generation_step", NEW g \in Wishes!selectGenerationOption(f)
  PROVE  g \in Wishes!Flow /\ WishesSound(g) /\ g.profile = f.profile /\ g.skipped = f.skipped
<1> DEFINE field == Wishes!GENERATION_STEPS[f.step]
<1>1. PICK chosen \in SUBSET Wishes!Required :
        /\ g = [f EXCEPT !.chosen = chosen]
        /\ \A x \in f.chosen : x \in chosen \/ x = field
  <2>0. f.chosen \subseteq Wishes!Required
    BY DEF Wishes!Flow
  <2>1. CASE g = [f EXCEPT !.chosen = (f.chosen \cup {field}) \cap Wishes!Required]
    BY <2>0, <2>1
  <2>2. CASE g = [f EXCEPT !.chosen = f.chosen \cap (Wishes!Required \ {field})]
    BY <2>0, <2>2
  <2> QED
    BY <2>1, <2>2 DEF Wishes!selectGenerationOption
<1>2. f.step \in {1, 2, 3, 4, 5, 6}
  BY WishesSixSteps DEF Wishes!Flow
<1>3. \A i \in 1..(f.step - 1) : Wishes!GENERATION_STEPS[i] # field
  BY <1>2, WishesStepNames
<1>4. g \in Wishes!Flow /\ g.step = f.step /\ g.screen = f.screen /\ g.chosen = chosen
      /\ g.profile = f.profile /\ g.skipped = f.skipped
  BY <1>1 DEF Wishes!Flow
<1> HIDE DEF field
<1> QED
  BY <1>1, <1>3, <1>4 DEF WishesSound

LEMMA WishesAdvanced ==
  ASSUME NEW f \in Wishes!Flow, WishesSound(f), Wishes!canAdvanceGenerationStep(f)
  PROVE  LET g == Wishes!advanceGenerationStep(f)
         IN  g \in Wishes!Flow /\ WishesSound(g) /\ g.profile = f.profile /\ g.skipped = f.skipped
<1>1. f.screen = "generation_step" /\ Wishes!GENERATION_STEPS[f.step] \in f.chosen \cup {"avoid"}
  BY DEF Wishes!canAdvanceGenerationStep
<1>2. f.step \in {1, 2, 3, 4, 5, 6}
  BY WishesSixSteps DEF Wishes!Flow
<1>3. CASE f.step = 6
  <2>1. Wishes!advanceGenerationStep(f) = [f EXCEPT !.screen = "confirmation"]
    BY <1>3 DEF Wishes!advanceGenerationStep
  <2>2. \A i \in 1..5 : Wishes!GENERATION_STEPS[i] \in f.chosen
    BY <1>1, <1>3 DEF WishesSound
  <2>3. f.chosen = Wishes!Required
    BY <2>2, WishesStepNames DEF Wishes!Flow, Wishes!Required
  <2> QED
    BY <2>1, <2>3 DEF Wishes!Flow, WishesSound
<1>4. CASE f.step # 6
  <2>1. Wishes!advanceGenerationStep(f) = [f EXCEPT !.step = f.step + 1]
    BY <1>4 DEF Wishes!advanceGenerationStep
  <2>2. f.step \in 1..5 /\ f.step + 1 \in 1..6
    BY <1>2, <1>4
  <2>3. Wishes!GENERATION_STEPS[f.step] \in f.chosen
    BY <1>1, <1>2, <1>4, WishesStepNames
  <2>4. \A i \in 1..f.step : Wishes!GENERATION_STEPS[i] \in f.chosen
    BY <1>1, <2>2, <2>3 DEF WishesSound
  <2> QED
    BY <1>1, <2>1, <2>2, <2>4 DEF Wishes!Flow, WishesSound
<1> QED
  BY <1>3, <1>4

LEMMA WishesWentBack ==
  ASSUME NEW f \in Wishes!Flow, WishesSound(f), f.screen = "generation_step"
  PROVE  LET g == Wishes!backGenerationStep(f)
         IN  g \in Wishes!Flow /\ WishesSound(g) /\ g.profile = f.profile /\ g.skipped = f.skipped
<1>1. CASE f.step = 1
  BY <1>1 DEF Wishes!backGenerationStep
<1>2. CASE f.step # 1
  <2>1. f.step \in 1..6 /\ f.step - 1 \in 1..6
    BY <1>2 DEF Wishes!Flow
  <2>2. Wishes!backGenerationStep(f) = [f EXCEPT !.step = f.step - 1]
    BY <1>2 DEF Wishes!backGenerationStep
  <2>3. \A i \in 1..((f.step - 1) - 1) : Wishes!GENERATION_STEPS[i] \in f.chosen
    BY <2>1 DEF WishesSound
  <2> QED
    BY <2>1, <2>2, <2>3 DEF Wishes!Flow, WishesSound
<1> QED
  BY <1>1, <1>2

LEMMA WishesUsedDefault ==
  ASSUME NEW f \in Wishes!Flow
  PROVE  LET g == Wishes!useDefaultGenerationPreferences(f)
         IN  g \in Wishes!Flow /\ WishesSound(g) /\ g.profile = f.profile /\ g.skipped = f.skipped
<1>1. CASE f.default
  <2>1. Wishes!useDefaultGenerationPreferences(f) = [f EXCEPT !.screen = "confirmation", !.chosen = Wishes!Required]
    BY <1>1 DEF Wishes!useDefaultGenerationPreferences
  <2> QED
    BY <2>1 DEF Wishes!Flow, WishesSound
<1>2. CASE ~f.default
  BY <1>2, WishesFirstStep DEF Wishes!useDefaultGenerationPreferences
<1> QED
  BY <1>1, <1>2

LEMMA WishesCancelled ==
  ASSUME NEW f \in Wishes!Flow, Wishes!cancelProfileSetupInFlow(f) # None
  PROVE  LET g == Wishes!cancelProfileSetupInFlow(f)
         IN  g \in Wishes!Flow /\ WishesSound(g) /\ g.profile = f.profile /\ g.skipped = f.skipped
<1> USE WishesScreens
<1>1. CASE f.reset \/ (f.profile = None /\ ~f.skipped)
  BY <1>1 DEF Wishes!cancelProfileSetupInFlow
<1>2. CASE f.default /\ ~f.reset /\ (f.profile # None \/ f.skipped)
  BY <1>2 DEF Wishes!cancelProfileSetupInFlow
<1> QED
  BY <1>1, <1>2 DEF Wishes!cancelProfileSetupInFlow

\* What a sheet offers changes it, sends a call or closes it.
LEMMA WishesChangeKeeps ==
  ASSUME WishesInv, wizard # None, NEW g \in Wishes!Flow, WishesSound(g), g.profile = wizard.profile,
         g.skipped = wizard.skipped, Wishes!onFlowChange(g)
  PROVE  WishesInv'
BY WishesEdits
   DEF Wishes!onFlowChange, WishesInv, WishesTypes, WishesShows, WishesOfFile,
       Wishes!PreferencesWillAnswer

LEMMA WishesSendKeeps ==
  ASSUME WishesInv, NEW kind, NEW f, NEW p, Wishes!Send(kind, f, p),
         [kind |-> kind, flow |-> f, profile |-> p] \in WishesSent,
         UNCHANGED <<prefs, wizard, running, awaiting>>, summaryOpen' \in BOOLEAN, held' \in BOOLEAN
  PROVE  WishesInv'
<1>1. calls \in Seq(WishesSent)
  BY DEF WishesInv, WishesTypes
<1>2. calls' \in Seq(WishesSent) /\ calls' # <<>>
  BY <1>1 DEF Wishes!Send
<1>3. busy' = TRUE
  BY DEF Wishes!Send
<1> QED
  BY <1>2, <1>3
     DEF WishesInv, WishesTypes, WishesShows, WishesOfFile, Wishes!PreferencesWillAnswer

LEMMA WishesCloseKeeps ==
  ASSUME WishesInv, wizard' = None, UNCHANGED <<prefs, calls, busy, running, awaiting>>,
         summaryOpen' \in BOOLEAN, held' \in BOOLEAN
  PROVE  WishesInv'
BY DEF WishesInv, WishesTypes, Wishes!PreferencesWillAnswer

LEMMA WishesSheetKeeps ==
  ASSUME WishesConstants, WishesInv, Wishes!InsightPreferenceFlow
  PROVE  WishesInv'
<1>0. wizard # None /\ wizard \in Wishes!Flow /\ WishesShows(wizard) /\ WishesSound(wizard)
      /\ summaryOpen \in BOOLEAN /\ held \in BOOLEAN
  BY DEF Wishes!InsightPreferenceFlow, WishesInv, WishesTypes, WishesShows
<1>1. CASE Wishes!closeInsightPreferenceFlow
  BY <1>0, <1>1, WishesCloseKeeps DEF Wishes!closeInsightPreferenceFlow
<1>2. CASE Wishes!ProfileIntro
  <2>1. CASE Wishes!skipCurrentProfileSetup
    <3>1. [kind |-> "skip", flow |-> wizard, profile |-> None] \in WishesSent
      BY <1>0 DEF WishesSent, Wishes!Call
    <3> QED
      BY <1>0, <2>1, <3>1, WishesSendKeeps DEF Wishes!skipCurrentProfileSetup
  <2>2. CASE Wishes!onFlowChange(Wishes!startProfileSetupInFlow(wizard))
    <3>1. Wishes!startProfileSetupInFlow(wizard) = [wizard EXCEPT !.screen = "profile_form"]
      BY DEF Wishes!startProfileSetupInFlow
    <3> QED
      BY <1>0, <2>2, <3>1, WishesScreens, WishesChangeKeeps
  <2> QED
    BY <1>2, <2>1, <2>2 DEF Wishes!ProfileIntro
<1>3. CASE Wishes!InspirationProfileForm
  <2>1. ASSUME NEW p \in Profiles, Wishes!saveCurrentProfile(p) PROVE WishesInv'
    <3>1. [kind |-> "save", flow |-> None, profile |-> p] \in WishesSent
      BY DEF WishesSent, Wishes!Call
    <3> QED
      BY <1>0, <2>1, <3>1, WishesSendKeeps DEF Wishes!saveCurrentProfile
  <2>2. CASE Wishes!cancelProfileSetupInFlow(wizard) # None /\ Wishes!onFlowChange(Wishes!cancelProfileSetupInFlow(wizard))
    BY <1>0, <2>2, WishesCancelled, WishesChangeKeeps
  <2> QED
    BY <1>1, <1>3, <2>1, <2>2 DEF Wishes!InspirationProfileForm
<1>4. CASE Wishes!DefaultSummary
  <2>1. Wishes!startProfileSetupInFlow(wizard) = [wizard EXCEPT !.screen = "profile_form"]
    BY DEF Wishes!startProfileSetupInFlow
  <2>2. CASE Wishes!onFlowChange(Wishes!useDefaultGenerationPreferences(wizard))
    BY <1>0, <2>2, WishesUsedDefault, WishesChangeKeeps
  <2>3. CASE Wishes!onFlowChange(Wishes!startGenerationPreferenceEditing(wizard))
    BY <1>0, <2>3, WishesFirstStep, WishesChangeKeeps
  <2>4. CASE Wishes!onFlowChange(Wishes!startProfileSetupInFlow(wizard))
    BY <1>0, <2>1, <2>4, WishesScreens, WishesChangeKeeps
  <2> QED
    BY <1>4, <2>2, <2>3, <2>4 DEF Wishes!DefaultSummary
<1>5. CASE Wishes!GenerationStep
  <2>0. wizard.screen = "generation_step"
    BY <1>5 DEF Wishes!GenerationStep
  <2>1. ASSUME NEW g \in Wishes!selectGenerationOption(wizard), Wishes!onFlowChange(g) PROVE WishesInv'
    BY <1>0, <2>0, <2>1, WishesSelected, WishesChangeKeeps
  <2>2. CASE Wishes!onFlowChange(Wishes!backGenerationStep(wizard))
    BY <1>0, <2>0, <2>2, WishesWentBack, WishesChangeKeeps
  <2>3. CASE Wishes!canAdvanceGenerationStep(wizard) /\ Wishes!onFlowChange(Wishes!advanceGenerationStep(wizard))
    BY <1>0, <2>3, WishesAdvanced, WishesChangeKeeps
  <2> QED
    BY <1>5, <2>1, <2>2, <2>3 DEF Wishes!GenerationStep
<1>6. CASE Wishes!ConfirmationStep
  <2>1. CASE Wishes!confirmInsightPreferences
    <3>1. [kind |-> "confirm", flow |-> None, profile |-> None] \in WishesSent
      BY DEF WishesSent, Wishes!Call
    <3> QED
      BY <1>0, <2>1, <3>1, WishesSendKeeps DEF Wishes!confirmInsightPreferences
  <2>2. CASE Wishes!onFlowChange(Wishes!startGenerationPreferenceEditing(wizard))
    BY <1>0, <2>2, WishesFirstStep, WishesChangeKeeps
  <2> QED
    BY <1>6, <2>1, <2>2 DEF Wishes!ConfirmationStep
<1> QED
  BY <1>1, <1>2, <1>3, <1>4, <1>5, <1>6 DEF Wishes!InsightPreferenceFlow

LEMMA WishesAnswered ==
  ASSUME WishesInv, calls # <<>>, calls' = Tail(calls)
  PROVE  Head(calls) \in WishesSent /\ calls' \in Seq(WishesSent)
BY DEF WishesInv, WishesTypes

LEMMA WishesWrittenFile ==
  ASSUME WishesInv, NEW c \in WishesSent
  PROVE  Wishes!Written(c) \in WishesFiles
<1>1. prefs \in WishesFiles /\ c.kind \in {"open", "profile", "direction", "skip", "save", "confirm"}
  BY DEF WishesInv, WishesTypes, WishesSent, Wishes!Call
<1>2. c.kind = "save" => c.profile \in Profiles
  BY DEF WishesSent
<1> QED
  BY <1>1, <1>2 DEF Wishes!Written, WishesFiles

LEMMA WishesFlowAnswerKeeps ==
  ASSUME WishesConstants, WishesInv, Wishes!FlowAnswer
  PROVE  WishesInv'
<1> DEFINE c == Head(calls)
<1>1. /\ c \in WishesSent /\ calls' \in Seq(WishesSent) /\ busy' = FALSE /\ prefs' = Wishes!Written(c)
      /\ UNCHANGED <<summaryOpen, held, running, awaiting>>
      /\ c.kind \in {"open", "profile", "direction", "skip", "save"}
  BY WishesAnswered DEF Wishes!FlowAnswer, WishesSent, Wishes!Call
<1>2. prefs' \in WishesFiles
  BY <1>1, WishesWrittenFile
<1> DEFINE read == Wishes!createInsightPreferenceFlow(prefs')
<1>3. read \in Wishes!Flow /\ WishesSound(read) /\ WishesOfFile(read, prefs')
  BY <1>2, WishesCreated
<1>w. wizard' = CASE c.kind = "open" -> read
                 [] c.kind = "profile" -> Wishes!startProfileSetupInFlow(read)
                 [] c.kind \in {"direction", "save"} -> Wishes!startGenerationPreferenceEditing(read)
                 [] c.kind = "skip" -> Wishes!skipProfileSetupInFlow(c.flow)
  BY DEF Wishes!FlowAnswer
<1> HIDE DEF c, read
<1>4. wizard' \in Wishes!Flow /\ WishesSound(wizard') /\ WishesOfFile(wizard', prefs')
  <2>1. CASE c.kind = "open"
    BY <1>w, <1>3, <2>1
  <2>2. CASE c.kind = "profile"
    <3>1. wizard' = [read EXCEPT !.screen = "profile_form"]
      BY <1>w, <2>2 DEF Wishes!startProfileSetupInFlow
    <3> QED
      BY <1>3, <3>1, WishesScreens DEF WishesOfFile
  <2>3. CASE c.kind \in {"direction", "save"}
    <3>1. wizard' = Wishes!startGenerationPreferenceEditing(read)
      BY <1>w, <2>3
    <3> QED
      BY <1>3, <3>1, WishesFirstStep DEF WishesOfFile
  <2>4. CASE c.kind = "skip"
    <3>1. wizard' = Wishes!skipProfileSetupInFlow(c.flow) /\ c.flow \in Wishes!Flow
      BY <1>w, <1>1, <2>4 DEF WishesSent
    <3>2. prefs'.profile = "skipped"
      <4>1. Wishes!Written(c) = [prefs EXCEPT !.profile = "skipped"]
        BY <2>4 DEF Wishes!Written
      <4> QED
        BY <1>1, <4>1 DEF WishesInv, WishesTypes, WishesFiles
    <3>3. wizard' \in Wishes!Flow /\ wizard'.profile = None /\ wizard'.skipped = TRUE
          /\ wizard'.step = 1 /\ wizard'.screen = "generation_step"
      <4>1. 1 \in 1..6
        OBVIOUS
      <4> QED
        BY <3>1, <4>1 DEF Wishes!skipProfileSetupInFlow, Wishes!Flow
    <3>4. prefs'.profile \notin Profiles
      BY <3>2 DEF WishesConstants
    <3>5. WishesSound(wizard')
      BY <3>3 DEF WishesSound
    <3> QED
      BY <3>2, <3>3, <3>4, <3>5 DEF WishesOfFile
  <2> QED
    BY <1>1, <2>1, <2>2, <2>3, <2>4
<1> QED
  BY <1>1, <1>2, <1>4 DEF WishesInv, WishesTypes, WishesShows, Wishes!PreferencesWillAnswer

LEMMA WishesConfirmAnswerKeeps == ASSUME WishesInv, Wishes!ConfirmAnswer PROVE WishesInv'
<1>1. Head(calls) \in WishesSent /\ calls' \in Seq(WishesSent) /\ prefs' = Wishes!Written(Head(calls))
      /\ wizard' = None /\ summaryOpen' = summaryOpen
  BY WishesAnswered DEF Wishes!ConfirmAnswer
<1>2. prefs' \in WishesFiles
  BY <1>1, WishesWrittenFile
<1>3. summaryOpen \in BOOLEAN /\ busy \in BOOLEAN /\ held \in BOOLEAN /\ running \in BOOLEAN
      /\ awaiting \in BOOLEAN /\ (awaiting => running)
  BY DEF WishesInv, WishesTypes, Wishes!PreferencesWillAnswer
<1>4. CASE running' = TRUE /\ awaiting' = TRUE /\ UNCHANGED <<busy, held>>
  BY <1>1, <1>2, <1>3, <1>4 DEF WishesInv, WishesTypes, Wishes!PreferencesWillAnswer
<1>5. CASE busy' = FALSE /\ held' = FALSE /\ UNCHANGED <<running, awaiting>>
  BY <1>1, <1>2, <1>3, <1>5 DEF WishesInv, WishesTypes, Wishes!PreferencesWillAnswer
<1> QED
  BY <1>4, <1>5 DEF Wishes!ConfirmAnswer

LEMMA WishesSteps == WishesConstants /\ WishesInv /\ (Wishes!Next \/ UNCHANGED Wishes!vars) => WishesInv'
<1> SUFFICES ASSUME WishesConstants, WishesInv, Wishes!Next \/ UNCHANGED Wishes!vars PROVE WishesInv'
  OBVIOUS
<1>0. summaryOpen \in BOOLEAN /\ held \in BOOLEAN /\ running \in BOOLEAN /\ busy \in BOOLEAN
      /\ awaiting \in BOOLEAN /\ calls \in Seq(WishesSent)
  BY DEF WishesInv, WishesTypes
<1>1. CASE UNCHANGED Wishes!vars
  BY <1>1
     DEF Wishes!vars, WishesInv, WishesTypes, WishesShows, WishesOfFile,
         Wishes!PreferencesWillAnswer
<1>2. CASE Wishes!openInsightPreferenceFlow \/ Wishes!openProfileEditorFromSettings \/ Wishes!openDirectionEditorFromDetail
  <2>1. \A kind \in {"open", "profile", "direction"} :
          [kind |-> kind, flow |-> None, profile |-> None] \in WishesSent
    BY DEF WishesSent, Wishes!Call
  <2> QED
    BY <1>0, <1>2, <2>1, WishesSendKeeps
       DEF Wishes!openInsightPreferenceFlow, Wishes!openProfileEditorFromSettings,
           Wishes!openDirectionEditorFromDetail
<1>3. CASE Wishes!openSummaryConfirmation
  <2>1. wizard' = None /\ summaryOpen' = TRUE /\ UNCHANGED <<prefs, calls, busy, held, running, awaiting>>
    BY <1>3 DEF Wishes!openSummaryConfirmation, Wishes!NoSheet
  <2> QED
    BY <1>0, <2>1, WishesCloseKeeps
<1>4. CASE Wishes!SummaryConfirmationSheet
  <2>1. ASSUME UNCHANGED <<prefs, wizard, calls, busy, held, awaiting>>, summaryOpen' = FALSE,
               running' \in BOOLEAN, (running' = running) \/ ~running
        PROVE  WishesInv'
    <3>0. WishesTypes'
      BY <2>1 DEF WishesInv, WishesTypes
    <3>a. (busy <=> busy') /\ (awaiting <=> awaiting') /\ calls' = calls
      BY <2>1
    <3>b. running => running'
      BY <2>1
    <3>1. Wishes!PreferencesWillAnswer'
      BY Zenon, <3>a, <3>b DEF WishesInv, Wishes!PreferencesWillAnswer
    <3>2. (wizard # None => WishesShows(wizard))'
      BY <2>1 DEF WishesInv, WishesShows, WishesOfFile
    <3> QED
      BY <3>0, <3>1, <3>2 DEF WishesInv
  <2>2. CASE Wishes!closeSummaryConfirmation
    BY <1>0, <2>1, <2>2 DEF Wishes!closeSummaryConfirmation
  <2>3. CASE Wishes!confirmSummaryGeneration
    BY <1>0, <2>1, <2>3 DEF Wishes!confirmSummaryGeneration
  <2> QED
    BY <1>4, <2>2, <2>3 DEF Wishes!SummaryConfirmationSheet
<1>5. CASE Wishes!CallFails
  <2>1. calls' \in Seq(WishesSent)
    BY <1>5, WishesAnswered DEF Wishes!CallFails
  <2> QED
    BY <1>0, <1>5, <2>1
       DEF Wishes!CallFails, WishesInv, WishesTypes, WishesShows, WishesOfFile,
           Wishes!PreferencesWillAnswer
<1>6. CASE Wishes!RunEnds
  BY <1>0, <1>6
     DEF Wishes!RunEnds, Wishes!resetInsightGenerationUi, WishesInv, WishesTypes, WishesShows,
         WishesOfFile, Wishes!PreferencesWillAnswer
<1>7. CASE Wishes!restoreHistoryItem
  BY <1>0, <1>7, WishesCloseKeeps DEF Wishes!restoreHistoryItem, Wishes!resetInsightGenerationUi
<1> QED
  BY <1>1, <1>2, <1>3, <1>4, <1>5, <1>6, <1>7, WishesFlowAnswerKeeps, WishesConfirmAnswerKeeps,
     WishesSheetKeeps
     DEF Wishes!Next

\* What the sheet shows is right, and it will be answered.
LEMMA WishesHolds ==
  ASSUME WishesInv
  PROVE  Wishes!ConfirmedIsValid /\ Wishes!ProfileIsStored /\ Wishes!PreferencesWillAnswer
BY DEF WishesInv, Wishes!ConfirmedIsValid, Wishes!validGeneration, Wishes!ProfileIsStored,
       WishesShows, WishesSound, WishesOfFile

-----------------------------------------------------------------------------
(* The download of a model (ModelDownload).                                 *)

ModelsConstants == MaxDownloads \in Nat

ModelsController == [id : 0..MaxDownloads, phase : Models!Active \cup {"finished"}, intent : 0..MaxDownloads,
               terminal : 0..MaxDownloads,
               before : Models!Active \cup {"none", "idle", "completed", "cancelled", "failed"},
               shown : Models!Active \cup {"none", "idle", "completed", "cancelled", "failed"},
               available : BOOLEAN]

ModelsTypes ==
  /\ model \in ModelsController /\ downloads \in [Models!Ids -> Models!Steps] /\ lane \in 0..Models!Component

\* A download that is not finished is one that has begun and has not ended, and one that
\* is being cancelled is noted as such.
ModelsGoes ==
  model.phase # "finished" =>
    model.id \in Models!Ids /\ downloads[model.id] \notin {"none", "over"}
ModelsNoted == model.phase = "cancelling" => model.intent = model.id
ModelsShown == model.shown \in Models!Active => model.phase # "finished"

ModelsInv == ModelsTypes /\ ModelsGoes /\ ModelsNoted /\ ModelsShown

LEMMA ModelsStarts == ModelsConstants /\ Models!Init => ModelsInv
<1> SUFFICES ASSUME ModelsConstants, Models!Init PROVE ModelsInv
  OBVIOUS
<1>1. 0 \in 0..MaxDownloads /\ 0 \in 0..Models!Component
  BY DEF ModelsConstants, Models!Component
<1> QED
  BY <1>1
     DEF Models!Init, ModelsInv, ModelsTypes, ModelsGoes, ModelsNoted, ModelsShown,
         ModelsController, Models!Active, Models!Steps

LEMMA ModelsBeginKeeps ==
  ASSUME ModelsConstants, ModelsInv, Models!begins, UNCHANGED lane PROVE ModelsInv'
<1> DEFINE next == model.id + 1
<1>1. next \in Models!Ids /\ next \in 0..MaxDownloads /\ 0 \in 0..MaxDownloads
  BY DEF Models!begins, ModelsInv, ModelsTypes, ModelsController, ModelsConstants, Models!Ids
<1>2. /\ model' \in ModelsController /\ model'.id = next /\ model'.phase = "running"
      /\ model'.shown = "running"
  BY <1>1 DEF Models!begins, ModelsInv, ModelsTypes, ModelsController, Models!Active
<1>3. downloads' \in [Models!Ids -> Models!Steps] /\ downloads'[next] = "listening"
  BY <1>1 DEF Models!begins, ModelsInv, ModelsTypes, Models!Steps
<1> QED
  BY <1>1, <1>2, <1>3
     DEF ModelsInv, ModelsTypes, ModelsGoes, ModelsNoted, ModelsShown, Models!Active

LEMMA ModelsEnsureKeeps ==
  ASSUME ModelsConstants, ModelsInv, Models!ensureAsrModelReady
  PROVE  ModelsInv'
<1>1. CASE Models!begins
  BY <1>1, ModelsBeginKeeps DEF Models!ensureAsrModelReady, Models!Native
<1>2. CASE model' = [model EXCEPT !.available = TRUE] /\ UNCHANGED downloads
  BY <1>2
     DEF Models!ensureAsrModelReady, Models!Native, ModelsInv, ModelsTypes, ModelsController,
         ModelsGoes, ModelsNoted, ModelsShown, Models!Active
<1>3. CASE model' = [model EXCEPT !.shown = "failed"] /\ UNCHANGED downloads
  BY <1>3
     DEF Models!ensureAsrModelReady, Models!Native, ModelsInv, ModelsTypes, ModelsController,
         ModelsGoes, ModelsNoted, ModelsShown, Models!Active
<1> QED
  BY <1>1, <1>2, <1>3 DEF Models!ensureAsrModelReady

LEMMA ModelsListeningKeeps ==
  ASSUME ModelsConstants, ModelsInv, NEW i \in Models!Ids, Models!Listening(i)
  PROVE  ModelsInv'
<1>0. i \in 0..MaxDownloads
  BY DEF Models!Ids, ModelsConstants
<1>1. CASE i = model.id /\ model.phase = "running"
  <2>1. downloads' = [downloads EXCEPT ![i] = "sent"] /\ UNCHANGED <<model, lane>>
    BY <1>1 DEF Models!Listening, Models!Native
  <2> QED
    BY <1>1, <2>1 DEF ModelsInv, ModelsTypes, ModelsGoes, ModelsNoted, ModelsShown, Models!Steps
<1>2. CASE ~(i = model.id /\ model.phase = "running")
  <2>1. downloads' = [downloads EXCEPT ![i] = "over"] /\ UNCHANGED lane
    BY <1>2 DEF Models!Listening, Models!Native
  <2>2. CASE i = model.id /\ model.intent = i
    <3>1. model' = [model EXCEPT !.phase = "finished", !.terminal = i, !.shown = "cancelled"]
      BY <1>2, <2>2 DEF Models!Listening
    <3> QED
      BY <1>0, <2>1, <3>1
         DEF ModelsInv, ModelsTypes, ModelsController, ModelsGoes, ModelsNoted, ModelsShown,
             Models!Steps, Models!Active
  <2>3. CASE ~(i = model.id /\ model.intent = i)
    <3>1. model' = model
      BY <1>2, <2>3 DEF Models!Listening
    <3>2. i = model.id => model.phase = "finished"
      BY <1>2, <2>3 DEF ModelsInv, ModelsTypes, ModelsController, ModelsNoted, Models!Active
    <3> QED
      BY <2>1, <3>1, <3>2
         DEF ModelsInv, ModelsTypes, ModelsGoes, ModelsNoted, ModelsShown, Models!Steps
  <2> QED
    BY <2>2, <2>3
<1> QED
  BY <1>1, <1>2

LEMMA ModelsAnswerKeeps ==
  ASSUME ModelsConstants, ModelsInv, NEW i \in Models!Ids, Models!Answer(i)
  PROVE  ModelsInv'
<1>0. lane' = lane
  BY DEF Models!Answer, Models!Native
<1>1. CASE Models!applies(i) /\ downloads[i] = "ok"
  <2>1. downloads' = [downloads EXCEPT ![i] = "refreshing"] /\ model' = model
    BY <1>1 DEF Models!Answer
  <2> QED
    BY <1>0, <1>1, <2>1
       DEF ModelsInv, ModelsTypes, ModelsGoes, ModelsNoted, ModelsShown, Models!Steps
<1>2. CASE Models!applies(i) /\ downloads[i] # "ok"
  <2>1. /\ downloads' = [downloads EXCEPT ![i] = "over"]
        /\ model' = [model EXCEPT !.phase = "finished",
                       !.shown = IF downloads[i] = "error" THEN "failed" ELSE "cancelled"]
    BY <1>2 DEF Models!Answer
  <2> QED
    BY <1>0, <1>2, <2>1
       DEF ModelsInv, ModelsTypes, ModelsController, ModelsGoes, ModelsNoted, ModelsShown,
           Models!Steps, Models!Active
<1>3. CASE ~Models!applies(i)
  <2>1. downloads' = [downloads EXCEPT ![i] = "over"] /\ model' = model
    BY <1>3 DEF Models!Answer
  <2> QED
    BY <1>0, <1>3, <2>1
       DEF Models!applies, ModelsInv, ModelsTypes, ModelsGoes, ModelsNoted, ModelsShown,
           Models!Steps
<1> QED
  BY <1>1, <1>2, <1>3

LEMMA ModelsRefreshedKeeps ==
  ASSUME ModelsConstants, ModelsInv, NEW i \in Models!Ids, Models!Refreshed(i), complete \in BOOLEAN
  PROVE  ModelsInv'
<1>0. lane' = lane /\ downloads' = [downloads EXCEPT ![i] = "over"]
  BY DEF Models!Refreshed, Models!Native
<1>1. PICK read \in BOOLEAN :
        model' = IF Models!applies(i)
                 THEN [model EXCEPT !.available = IF read THEN complete ELSE model.available,
                         !.phase = "finished",
                         !.shown = IF read /\ complete THEN "completed" ELSE "failed"]
                 ELSE [model EXCEPT !.available = IF read THEN complete ELSE model.available]
  BY DEF Models!Refreshed
<1>2. CASE Models!applies(i)
  BY <1>0, <1>1, <1>2
     DEF ModelsInv, ModelsTypes, ModelsController, ModelsGoes, ModelsNoted, ModelsShown,
         Models!Steps, Models!Active
<1>3. CASE ~Models!applies(i)
  <2>1. model' = [model EXCEPT !.available = IF read THEN complete ELSE model.available]
    BY <1>1, <1>3
  <2>2. model' \in ModelsController /\ model'.id = model.id /\ model'.phase = model.phase
        /\ model'.shown = model.shown /\ model'.intent = model.intent
    BY <2>1 DEF ModelsInv, ModelsTypes, ModelsController
  <2> QED
    BY <1>0, <1>3, <2>2
       DEF Models!applies, ModelsInv, ModelsTypes, ModelsGoes, ModelsNoted, ModelsShown,
           Models!Steps
<1> QED
  BY <1>2, <1>3

LEMMA ModelsEventKeeps ==
  ASSUME ModelsConstants, ModelsInv, Models!Event, Head(events) \in {"progress", "completed", "cancelled"}
  PROVE  ModelsInv'
<1> DEFINE e == Head(events)
           i == model.id
<1>0. UNCHANGED <<downloads, lane>>
  BY DEF Models!Event
<1>1. CASE UNCHANGED model
  BY <1>0, <1>1 DEF ModelsInv, ModelsTypes, ModelsGoes, ModelsNoted, ModelsShown
<1>2. CASE model' # model
  <2>1. i \in Models!Ids /\ Models!applies(i)
    BY <1>2 DEF Models!Event
  <2>2. model' = [model EXCEPT
               !.terminal = IF e # "progress" THEN i ELSE @,
               !.phase = IF e = "cancelled" THEN "finished" ELSE @,
               !.before = IF ~(e # "progress") /\ model.phase = "cancelling" THEN "running" ELSE @,
               !.shown = IF e # "progress" THEN e
                         ELSE IF model.phase = "cancelling" THEN "cancelling" ELSE "running"]
    BY <1>2 DEF Models!Event
  <2>3. /\ model'.phase = (IF e = "cancelled" THEN "finished" ELSE model.phase)
        /\ model'.shown = (IF e # "progress" THEN e
                           ELSE IF model.phase = "cancelling" THEN "cancelling" ELSE "running")
        /\ model'.id = model.id /\ model'.intent = model.intent
    BY <2>2 DEF ModelsInv, ModelsTypes, ModelsController
  <2>4. model' \in ModelsController
    BY <2>1, <2>2 DEF ModelsInv, ModelsTypes, ModelsController, Models!Active
  <2>5. model.phase # "finished"
    BY <2>1 DEF Models!applies
  <2> QED
    BY <1>0, <2>3, <2>4, <2>5
       DEF ModelsInv, ModelsTypes, ModelsGoes, ModelsNoted, ModelsShown, Models!Active
<1> QED
  BY <1>1, <1>2

LEMMA ModelsNativeKeeps ==
  ASSUME ModelsConstants, ModelsInv, UNCHANGED model, lane' \in 0..Models!Component,
         \/ UNCHANGED downloads
         \/ \E i \in Models!Ids : \E s \in Models!Steps \ {"none", "over"} : downloads' = [downloads EXCEPT ![i] = s]
  PROVE  ModelsInv'
<1>1. CASE UNCHANGED downloads
  BY <1>1 DEF ModelsInv, ModelsTypes, ModelsGoes, ModelsNoted, ModelsShown
<1>2. ASSUME NEW i \in Models!Ids, NEW s \in Models!Steps \ {"none", "over"},
             downloads' = [downloads EXCEPT ![i] = s]
      PROVE  ModelsInv'
  BY <1>2 DEF ModelsInv, ModelsTypes, ModelsGoes, ModelsNoted, ModelsShown
<1> QED
  BY <1>1, <1>2

LEMMA ModelsStartKeeps ==
  ASSUME ModelsConstants, ModelsInv, NEW i \in Models!Ids, Models!NativeStart(i)
  PROVE  ModelsInv'
<1>1. i \in 0..Models!Component
  BY DEF Models!Ids, Models!Component, ModelsConstants
<1>2. {"ok", "error", "running"} \subseteq Models!Steps \ {"none", "over"}
  BY DEF Models!Steps
<1>3. lane' \in 0..Models!Component /\ UNCHANGED model
  BY <1>1 DEF Models!NativeStart, ModelsInv, ModelsTypes
<1>4. \E s \in {"ok", "error", "running"} : downloads' = [downloads EXCEPT ![i] = s]
  BY DEF Models!NativeStart
<1> QED
  BY <1>2, <1>3, <1>4, ModelsNativeKeeps

LEMMA ModelsEndKeeps == ASSUME ModelsConstants, ModelsInv, Models!NativeEnd PROVE ModelsInv'
<1>1. lane' \in 0..Models!Component /\ UNCHANGED model
  BY DEF Models!NativeEnd, Models!Component, ModelsConstants
<1>2. CASE lane = Models!Component
  BY <1>1, <1>2, ModelsNativeKeeps DEF Models!NativeEnd
<1>3. CASE lane # Models!Component
  <2>1. lane \in Models!Ids
    BY <1>3
       DEF Models!NativeEnd, ModelsInv, ModelsTypes, Models!Ids, Models!Component,
           ModelsConstants
  <2>2. {"ok", "cancelled", "error"} \subseteq Models!Steps \ {"none", "over"}
    BY DEF Models!Steps
  <2>3. \E s \in {"ok", "cancelled", "error"} : downloads' = [downloads EXCEPT ![lane] = s]
    BY <1>3 DEF Models!NativeEnd
  <2> QED
    BY <1>1, <2>1, <2>2, <2>3, ModelsNativeKeeps
<1> QED
  BY <1>2, <1>3

\* A cancellation, and its answer.
LEMMA ModelsCancelKeeps ==
  ASSUME ModelsConstants, ModelsInv, Models!cancelCurrentAsrModelDownload
  PROVE  ModelsInv'
BY DEF Models!cancelCurrentAsrModelDownload, Models!modelDownloadActive, Models!Native,
       ModelsInv, ModelsTypes, ModelsController, ModelsGoes, ModelsNoted, ModelsShown,
       Models!Active

LEMMA ModelsCancelAnswerKeeps ==
  ASSUME ModelsConstants, ModelsInv, NEW c \in cancels, Models!CancelAnswer(c) PROVE ModelsInv'
<1>0. UNCHANGED <<downloads, lane>>
  BY DEF Models!CancelAnswer, Models!Native
<1>1. CASE model' = model
  BY <1>0, <1>1 DEF ModelsInv, ModelsTypes, ModelsGoes, ModelsNoted, ModelsShown
<1>2. CASE model' = [model EXCEPT !.phase = "running", !.shown = model.before]
           /\ model.phase = "cancelling"
  BY <1>0, <1>2
     DEF ModelsInv, ModelsTypes, ModelsController, ModelsGoes, ModelsNoted, ModelsShown,
         Models!Active
<1> QED
  BY <1>1, <1>2 DEF Models!CancelAnswer

\* What is on its way is what the process sends, and the disk has the model or not.
ModelsAside == events \in Seq({"progress", "completed", "cancelled"}) /\ complete \in BOOLEAN

LEMMA ModelsAsideStarts == Models!Init => ModelsAside
BY DEF Models!Init, ModelsAside

LEMMA ModelsAsideKeeps ==
  ASSUME ModelsAside, Models!Next \/ UNCHANGED Models!vars
  PROVE  ModelsAside'
<1>1. CASE UNCHANGED <<events, complete>>
  BY <1>1 DEF ModelsAside
<1>2. CASE Models!Event
  BY <1>2 DEF Models!Event, ModelsAside
<1>3. CASE Models!Progress
  <2>1. \E e \in {"progress", "completed"} : events' = Append(events, e)
    BY <1>3 DEF Models!Progress
  <2>2. complete' \in BOOLEAN
    BY <1>3 DEF Models!Progress, ModelsAside
  <2> QED
    BY <2>1, <2>2 DEF ModelsAside
<1>4. CASE Models!NativeEnd
  <2>1. events' = events \/ events' = Append(events, "cancelled")
    BY <1>4 DEF Models!NativeEnd
  <2>2. complete' = complete
    BY <1>4 DEF Models!NativeEnd
  <2> QED
    BY <2>1, <2>2 DEF ModelsAside
<1> QED
  BY <1>1, <1>2, <1>3, <1>4
     DEF Models!Next, Models!vars, Models!startAsrModelDownload, Models!Submit,
         Models!ensureAsrModelReady, Models!Listening, Models!Answer, Models!Refreshed,
         Models!NativeStart, Models!cancelCurrentAsrModelDownload, Models!CancelAnswer,
         Models!NativeCancel, Models!startRuntimeComponentDownload, Models!Native

LEMMA ModelsSteps2 == ModelsConstants /\ ModelsInv /\ ModelsAside /\ (Models!Next \/ UNCHANGED Models!vars) => ModelsInv'
<1> SUFFICES ASSUME ModelsConstants, ModelsInv, ModelsAside, Models!Next \/ UNCHANGED Models!vars PROVE ModelsInv'
  OBVIOUS
<1>1. CASE UNCHANGED <<model, downloads, lane>>
  BY <1>1 DEF ModelsInv, ModelsTypes, ModelsGoes, ModelsNoted, ModelsShown
<1>2. CASE Models!startAsrModelDownload
  BY <1>2, ModelsBeginKeeps DEF Models!startAsrModelDownload, Models!Native
<1>3. CASE Models!Event
  <2>1. Head(events) \in {"progress", "completed", "cancelled"}
    BY <1>3 DEF Models!Event, ModelsAside
  <2> QED
    BY <1>3, <2>1, ModelsEventKeeps
<1>4. CASE Models!startRuntimeComponentDownload
  <2>1. lane' \in 0..Models!Component
    BY <1>4
       DEF Models!startRuntimeComponentDownload, ModelsInv, ModelsTypes, Models!Component,
           ModelsConstants
  <2> QED
    BY <1>4, <2>1, ModelsNativeKeeps DEF Models!startRuntimeComponentDownload
<1>5. complete \in BOOLEAN
  BY DEF ModelsAside
<1>6. ASSUME NEW i \in Models!Ids, Models!Listening(i) \/ Models!Answer(i) \/ Models!Refreshed(i) \/ Models!NativeStart(i)
      PROVE  ModelsInv'
  BY <1>5, <1>6, ModelsListeningKeeps, ModelsAnswerKeeps, ModelsRefreshedKeeps, ModelsStartKeeps
<1>7. ASSUME NEW c \in cancels, Models!CancelAnswer(c) \/ Models!NativeCancel(c) PROVE ModelsInv'
  BY <1>1, <1>7, ModelsCancelAnswerKeeps DEF Models!NativeCancel
<1>8. CASE Models!Submit \/ Models!Progress
  BY <1>1, <1>8 DEF Models!Submit, Models!Progress, Models!Native
<1>9. CASE UNCHANGED Models!vars
  BY <1>1, <1>9 DEF Models!vars
<1> QED
  BY <1>2, <1>3, <1>4, <1>6, <1>7, <1>8, <1>9, ModelsEnsureKeeps, ModelsCancelKeeps,
     ModelsEndKeeps
     DEF Models!Next

LEMMA ModelsHolds == ASSUME ModelsInv PROVE Models!ActiveWillEnd
BY DEF ModelsInv, Models!ActiveWillEnd, Models!modelDownloadActive, ModelsGoes, ModelsShown

-----------------------------------------------------------------------------
(* What is done to a note (NoteActions).                                    *)

DeedsConstants ==
  None \notin Notes /\ "collections" \notin Notes /\ None # "collections" /\ None \notin Nat

DeedsTypes ==
  /\ slip \in [kind : {"none", "rename", "collection", "info"}, loading : BOOLEAN,
               task : Notes \cup {None}, info : Notes \cup {None}]
  /\ asking \in Notes \cup {None, "collections"}

\* A sheet that asks is one of information or of collections, and it asks of its own note.
DeedsAsked ==
  /\ slip.kind \in {"none", "rename"} => ~slip.loading /\ asking = None
  /\ slip.kind # "none" => slip.task \in Notes
  /\ asking \in Notes => slip.kind = "info" /\ asking = slip.task

DeedsInv == DeedsTypes /\ DeedsAsked /\ Deeds!SheetIsOfItsNote

LEMMA DeedsStarts == DeedsConstants /\ Deeds!Init => DeedsInv
BY DEF DeedsConstants, Deeds!Init, Deeds!NoSlip, DeedsInv, DeedsTypes, DeedsAsked,
       Deeds!SheetIsOfItsNote

LEMMA DeedsSame == ASSUME DeedsInv, UNCHANGED <<slip, asking>> PROVE DeedsInv'
BY DEF DeedsInv, DeedsTypes, DeedsAsked, Deeds!SheetIsOfItsNote

LEMMA DeedsOvertaken ==
  ASSUME DeedsInv, UNCHANGED slip, asking' = None, slip.kind \in {"none", "rename"}, DeedsConstants
  PROVE  DeedsInv'
BY DEF DeedsInv, DeedsTypes, DeedsAsked, Deeds!SheetIsOfItsNote, DeedsConstants

LEMMA DeedsClosed == ASSUME DeedsConstants, Deeds!Close PROVE DeedsInv'
BY DEF DeedsConstants, Deeds!Close, Deeds!NoSlip, DeedsInv, DeedsTypes, DeedsAsked,
       Deeds!SheetIsOfItsNote

LEMMA DeedsOpened ==
  ASSUME DeedsConstants, DeedsInv, NEW kind \in {"rename", "collection", "info"}, NEW t \in Notes,
         slip.kind = "none", Deeds!OpenSheet(kind, t)
  PROVE  DeedsInv'
<1>1. slip' = [kind |-> kind, task |-> t, info |-> None, loading |-> kind # "rename"]
  BY DEF Deeds!OpenSheet
<1>2. asking = None
  BY DEF DeedsInv, DeedsAsked
<1>3. /\ kind = "info" => asking' = t
      /\ kind = "collection" => asking' = "collections"
      /\ kind = "rename" => asking' = None
  BY <1>2 DEF Deeds!OpenSheet
<1> QED
  BY <1>1, <1>3 DEF DeedsConstants, DeedsInv, DeedsTypes, DeedsAsked, Deeds!SheetIsOfItsNote

LEMMA DeedsRefreshes ==
  ASSUME DeedsConstants, DeedsInv, slip.kind \in {"info", "collection"}, Deeds!RefreshSheet
  PROVE  DeedsInv'
<1>1. slip' = [slip EXCEPT !.info = None, !.loading = TRUE]
  BY DEF Deeds!RefreshSheet
<1>2. /\ slip.kind = "info" => asking' = slip.task
      /\ slip.kind = "collection" => asking' = "collections"
  BY DEF Deeds!RefreshSheet
<1> QED
  BY <1>1, <1>2 DEF DeedsConstants, DeedsInv, DeedsTypes, DeedsAsked, Deeds!SheetIsOfItsNote

LEMMA DeedsAnswers == ASSUME DeedsConstants, DeedsInv, Deeds!SheetAnswer PROVE DeedsInv'
<1>1. asking' = None
  BY DEF Deeds!SheetAnswer
<1>2. CASE slip' = [slip EXCEPT !.loading = FALSE]
  BY <1>1, <1>2 DEF DeedsConstants, DeedsInv, DeedsTypes, DeedsAsked, Deeds!SheetIsOfItsNote
<1>3. CASE slip' = [slip EXCEPT !.loading = FALSE, !.info = IF asking \in Notes THEN asking ELSE @]
  BY <1>1, <1>3 DEF DeedsConstants, DeedsInv, DeedsTypes, DeedsAsked, Deeds!SheetIsOfItsNote
<1> QED
  BY <1>2, <1>3 DEF Deeds!SheetAnswer

LEMMA DeedsMutationKeeps ==
  ASSUME DeedsConstants, DeedsInv, Deeds!MutationAnswer
  PROVE  DeedsInv'
BY DeedsSame, DeedsClosed DEF Deeds!MutationAnswer

LEMMA DeedsSteps == DeedsConstants /\ DeedsInv /\ (Deeds!Next \/ UNCHANGED Deeds!vars) => DeedsInv'
<1> SUFFICES ASSUME DeedsConstants, DeedsInv, Deeds!Next \/ UNCHANGED Deeds!vars PROVE DeedsInv'
  OBVIOUS
<1>1. CASE Deeds!refreshHistory \/ Deeds!openHistory \/ Deeds!ListReads \/ Deeds!Listed \/ Deeds!DetailReads \/ Deeds!DetailArrives
           \/ Deeds!NativeSaves \/ Deeds!SourceAnswer \/ UNCHANGED Deeds!vars
  BY <1>1, DeedsSame
     DEF Deeds!refreshHistory, Deeds!openHistory, Deeds!ListReads, Deeds!Listed,
         Deeds!DetailReads, Deeds!DetailArrives, Deeds!NativeSaves, Deeds!SourceAnswer,
         Deeds!vars
<1>2. ASSUME NEW t \in Notes, Deeds!openHistoryItem(t) PROVE DeedsInv'
  BY <1>2, DeedsSame DEF Deeds!openHistoryItem
<1>3. CASE Deeds!SidebarNoteMenu
  BY <1>3, DeedsOvertaken, DeedsOpened
     DEF Deeds!SidebarNoteMenu, Deeds!Pin, Deeds!Source, Deeds!Begins
<1>4. CASE Deeds!NoteRenameSheet
  BY <1>4, DeedsOvertaken, DeedsClosed
     DEF Deeds!NoteRenameSheet, Deeds!saveName, Deeds!Begins, Deeds!CloseSheet
<1>5. CASE Deeds!NoteInfoSheet \/ Deeds!NoteCollectionsSheet
  BY <1>5, DeedsRefreshes, DeedsClosed
     DEF Deeds!NoteInfoSheet, Deeds!NoteCollectionsSheet, Deeds!CloseSheet
<1> QED
  BY <1>1, <1>2, <1>3, <1>4, <1>5, DeedsAnswers, DeedsMutationKeeps DEF Deeds!Next

-----------------------------------------------------------------------------
\* What has been shown of a note is what is shown, or older than what is on its way;
\* none of it is newer than what is on disk.
DeedsMaybeRows == [Notes -> Nat \cup {None}]
DeedsDisplays == [task : Notes, version : Nat] \cup {None}

DeedsVersions ==
  /\ metadata \in [Notes -> Nat] /\ rows \in DeedsMaybeRows
  /\ listing \in [step : {"none", "sent", "read"}, got : DeedsMaybeRows]
  /\ displayed \in DeedsDisplays
  /\ opening \in [task : Notes \cup {None}, got : Nat \cup {None}]
  /\ deed \in [kind : {"none", "pin", "rename", "source"}, task : Notes \cup {None},
               step : {"sent", "done", "failed"}, got : Nat]
  /\ newest \in [library : [Notes -> Nat], workspace : [Notes -> Nat]]

DeedsShown ==
  /\ \A t \in Notes : newest.library[t] =< metadata[t] /\ newest.workspace[t] =< metadata[t]
  /\ \A t \in Notes : rows[t] # None => rows[t] = newest.library[t]
  /\ displayed # None => displayed.version = newest.workspace[displayed.task]

DeedsComing ==
  /\ listing.step = "read" => \A t \in Notes : listing.got[t] # None =>
       newest.library[t] =< listing.got[t] /\ listing.got[t] =< metadata[t]
  /\ opening.got # None =>
       /\ opening.task \in Notes /\ newest.workspace[opening.task] =< opening.got
       /\ opening.got =< metadata[opening.task]
  /\ deed.kind \in {"pin", "rename"} =>
       /\ deed.task \in Notes
       /\ deed.step = "done" => deed.got = metadata[deed.task]

DeedsInv2 == DeedsInv /\ DeedsVersions /\ DeedsShown /\ DeedsComing

LEMMA DeedsStarts2 == DeedsConstants /\ Deeds!Init => DeedsInv2
<1> SUFFICES ASSUME DeedsConstants, Deeds!Init PROVE DeedsInv2
  OBVIOUS
<1>1. /\ metadata = [t \in Notes |-> 0] /\ newest = [library |-> metadata, workspace |-> metadata]
      /\ rows = [t \in Notes |-> None] /\ displayed = None
      /\ listing = [step |-> "sent", got |-> rows]
      /\ opening = [task |-> None, got |-> None]
      /\ deed = [kind |-> "none", task |-> None, step |-> "sent", got |-> 0]
  BY DEF Deeds!Init, Deeds!NoRows, Deeds!NoListing, Deeds!NoOpening, Deeds!NoDeed
<1>2. metadata \in [Notes -> Nat] /\ rows \in DeedsMaybeRows
  BY <1>1 DEF DeedsMaybeRows
<1> QED
  BY <1>1, <1>2, DeedsStarts
     DEF DeedsInv2, DeedsVersions, DeedsShown, DeedsComing, DeedsDisplays

\* Rows and a note that are shown, no older than what was shown of them.
LEMMA DeedsShowsKeeps ==
  ASSUME DeedsConstants, DeedsVersions, DeedsShown, NEW r \in DeedsMaybeRows, NEW s \in DeedsDisplays, Deeds!Shows(r, s),
         \A t \in Notes : r[t] # None => newest.library[t] =< r[t] /\ r[t] =< metadata[t],
         s # None => newest.workspace[s.task] =< s.version /\ s.version =< metadata[s.task],
         UNCHANGED metadata
  PROVE  /\ newest' \in [library : [Notes -> Nat], workspace : [Notes -> Nat]]
         /\ rows' = r /\ displayed' = s /\ DeedsShown'
         /\ s \in {displayed, None} => newest'.workspace = newest.workspace
         /\ s # None => \A t \in Notes : t # s.task => newest'.workspace[t] = newest.workspace[t]
         /\ r = rows => newest'.library = newest.library
<1> DEFINE library == [t \in Notes |-> Deeds!Most(newest.library[t], r[t])]
           workspace == IF s = None THEN newest.workspace
                        ELSE [newest.workspace EXCEPT ![s.task] = Deeds!Most(newest.workspace[s.task], s.version)]
<1>1. newest' = [library |-> library, workspace |-> workspace] /\ rows' = r /\ displayed' = s
  BY DEF Deeds!Shows
<1>2. /\ newest.library \in [Notes -> Nat] /\ newest.workspace \in [Notes -> Nat]
      /\ metadata \in [Notes -> Nat] /\ \A t \in Notes : r[t] \in Nat \cup {None}
  BY DEF DeedsVersions, DeedsMaybeRows
<1>3. /\ library \in [Notes -> Nat]
      /\ \A t \in Notes : library[t] = IF r[t] = None THEN newest.library[t] ELSE r[t]
  BY <1>2 DEF Deeds!Most
<1>4. /\ workspace \in [Notes -> Nat]
      /\ s = None => workspace = newest.workspace
      /\ s # None => /\ s.task \in Notes /\ workspace[s.task] = s.version
                     /\ \A t \in Notes : t # s.task => workspace[t] = newest.workspace[t]
  <2>1. CASE s = None
    BY <1>2, <2>1
  <2>2. CASE s # None
    <3>1. s.task \in Notes /\ s.version \in Nat
      BY <2>2 DEF DeedsDisplays
    <3>2. Deeds!Most(newest.workspace[s.task], s.version) = s.version
      BY <1>2, <2>2, <3>1 DEF Deeds!Most, DeedsConstants
    <3> QED
      BY <1>2, <2>2, <3>1, <3>2
  <2> QED
    BY <2>1, <2>2
<1> HIDE DEF library, workspace
<1>5. newest'.library = library /\ newest'.workspace = workspace
  BY <1>1
<1>6. DeedsShown'
  BY <1>1, <1>2, <1>3, <1>4, <1>5 DEF DeedsShown, DeedsDisplays
<1>7. s = displayed /\ s # None => workspace = newest.workspace
  BY <1>2, <1>4 DEF DeedsShown
<1>8. r = rows => library = newest.library
  BY <1>2, <1>3 DEF DeedsShown
<1> QED
  BY <1>1, <1>3, <1>4, <1>5, <1>6, <1>7, <1>8

\* Nothing of the library changes.
LEMMA DeedsStill2 ==
  ASSUME DeedsInv2, DeedsInv', UNCHANGED <<metadata, rows, displayed, newest>>, DeedsVersions', DeedsComing'
  PROVE  DeedsInv2'
BY DEF DeedsInv2, DeedsShown

LEMMA DeedsBegins2 ==
  ASSUME DeedsInv2, DeedsInv', NEW kind \in {"pin", "rename", "source"}, NEW t \in Notes, Deeds!Begins(kind, t)
  PROVE  DeedsInv2'
<1>1. /\ deed' = [kind |-> kind, task |-> t, step |-> "sent", got |-> 0]
      /\ UNCHANGED <<metadata, rows, displayed, newest, listing, opening>>
  BY DEF Deeds!Begins, Deeds!Library
<1>2. DeedsVersions' /\ DeedsComing'
  BY <1>1 DEF DeedsInv2, DeedsVersions, DeedsComing
<1> QED
  BY <1>1, <1>2, DeedsStill2

LEMMA DeedsLists2 ==
  ASSUME DeedsConstants, DeedsInv2, DeedsInv', Deeds!refreshHistory \/ Deeds!openHistory \/ Deeds!ListReads \/ Deeds!Listed
  PROVE  DeedsInv2'
<1>1. CASE Deeds!refreshHistory
  <2>1. /\ listing' = [step |-> "sent", got |-> Deeds!NoRows]
        /\ UNCHANGED <<metadata, rows, displayed, newest, opening, deed>>
    BY <1>1 DEF Deeds!refreshHistory, Deeds!Library, Deeds!NoListing
  <2>2. Deeds!NoRows \in DeedsMaybeRows
    BY DEF Deeds!NoRows, DeedsMaybeRows
  <2>3. DeedsVersions' /\ DeedsComing'
    BY <2>1, <2>2 DEF DeedsInv2, DeedsVersions, DeedsComing
  <2> QED
    BY <2>1, <2>3, DeedsStill2
<1>2. CASE Deeds!openHistory
  <2>1. /\ listing' = [step |-> "sent", got |-> Deeds!NoRows] /\ opening' = [task |-> None, got |-> None]
        /\ Deeds!Shows(Deeds!NoRows, displayed) /\ UNCHANGED <<metadata, deed>>
    BY <1>2 DEF Deeds!openHistory, Deeds!NoListing, Deeds!NoOpening
  <2>2. Deeds!NoRows \in DeedsMaybeRows /\ \A t \in Notes : Deeds!NoRows[t] = None
    BY DEF Deeds!NoRows, DeedsMaybeRows
  <2>3. /\ displayed \in DeedsDisplays
        /\ displayed # None => newest.workspace[displayed.task] =< displayed.version
                               /\ displayed.version =< metadata[displayed.task]
    BY DEF DeedsInv2, DeedsVersions, DeedsShown, DeedsDisplays
  <2>4. /\ newest' \in [library : [Notes -> Nat], workspace : [Notes -> Nat]]
        /\ rows' = Deeds!NoRows /\ displayed' = displayed /\ DeedsShown'
    BY <2>1, <2>2, <2>3, DeedsShowsKeeps DEF DeedsInv2
  <2>5. DeedsVersions' /\ DeedsComing'
    BY <2>1, <2>2, <2>4 DEF DeedsInv2, DeedsVersions, DeedsComing
  <2> QED
    BY <2>4, <2>5 DEF DeedsInv2
<1>3. CASE Deeds!ListReads
  <2>1. /\ listing' = [step |-> "read", got |-> metadata]
        /\ UNCHANGED <<metadata, rows, displayed, newest, opening, deed>>
    BY <1>3 DEF Deeds!ListReads, Deeds!Library
  <2>2. metadata \in DeedsMaybeRows
    BY DEF DeedsInv2, DeedsVersions, DeedsMaybeRows
  <2>3. DeedsVersions' /\ DeedsComing'
    BY <2>1, <2>2 DEF DeedsInv2, DeedsVersions, DeedsComing, DeedsShown
  <2> QED
    BY <2>1, <2>3, DeedsStill2
<1>4. CASE Deeds!Listed
  <2>1. /\ listing.step = "read" /\ listing' = [step |-> "none", got |-> Deeds!NoRows]
        /\ UNCHANGED <<metadata, deed, opening>>
        /\ \/ Deeds!Shows(listing.got, displayed)
           \/ UNCHANGED <<rows, displayed, newest>>
    BY <1>4 DEF Deeds!Listed, Deeds!NoListing, Deeds!Library
  <2>2. Deeds!NoRows \in DeedsMaybeRows /\ listing.got \in DeedsMaybeRows
    BY DEF Deeds!NoRows, DeedsMaybeRows, DeedsInv2, DeedsVersions
  <2>3. CASE UNCHANGED <<rows, displayed, newest>>
    <3>1. DeedsVersions' /\ DeedsComing'
      BY <2>1, <2>2, <2>3 DEF DeedsInv2, DeedsVersions, DeedsComing
    <3> QED
      BY <2>1, <2>3, <3>1, DeedsStill2
  <2>4. CASE Deeds!Shows(listing.got, displayed)
    <3>1. /\ displayed \in DeedsDisplays
          /\ displayed # None => newest.workspace[displayed.task] =< displayed.version
                                 /\ displayed.version =< metadata[displayed.task]
      BY DEF DeedsInv2, DeedsVersions, DeedsShown, DeedsDisplays
    <3>2. \A t \in Notes : listing.got[t] # None =>
            newest.library[t] =< listing.got[t] /\ listing.got[t] =< metadata[t]
      BY <2>1 DEF DeedsInv2, DeedsComing
    <3>3. /\ newest' \in [library : [Notes -> Nat], workspace : [Notes -> Nat]]
          /\ rows' = listing.got /\ displayed' = displayed /\ DeedsShown'
          /\ newest'.workspace = newest.workspace
      BY <2>1, <2>2, <2>4, <3>1, <3>2, DeedsShowsKeeps DEF DeedsInv2
    <3>4. DeedsVersions' /\ DeedsComing'
      BY <2>1, <2>2, <3>3 DEF DeedsInv2, DeedsVersions, DeedsComing
    <3> QED
      BY <3>3, <3>4 DEF DeedsInv2
  <2> QED
    BY <2>1, <2>3, <2>4
<1> QED
  BY <1>1, <1>2, <1>3, <1>4

LEMMA DeedsDetails2 ==
  ASSUME DeedsConstants, DeedsInv2, DeedsInv', Deeds!DetailReads \/ Deeds!DetailArrives \/ \E t \in Notes : Deeds!openHistoryItem(t)
  PROVE  DeedsInv2'
<1>1. Deeds!NoRows \in DeedsMaybeRows
  BY DEF Deeds!NoRows, DeedsMaybeRows
<1>2. CASE Deeds!DetailReads
  <2>1. /\ opening.task \in Notes /\ opening' = [opening EXCEPT !.got = metadata[opening.task]]
        /\ UNCHANGED <<metadata, rows, displayed, newest, listing, deed>>
    BY <1>2 DEF Deeds!DetailReads, Deeds!Library, DeedsInv2, DeedsVersions
  <2>2. DeedsVersions' /\ DeedsComing'
    BY <2>1 DEF DeedsInv2, DeedsVersions, DeedsComing, DeedsShown
  <2> QED
    BY <2>1, <2>2, DeedsStill2
<1>3. CASE Deeds!DetailArrives
  <2>1. opening.got # None /\ opening' = [task |-> None, got |-> None] /\ UNCHANGED <<metadata, deed>>
    BY <1>3 DEF Deeds!DetailArrives, Deeds!NoOpening
  <2>2. CASE UNCHANGED <<rows, displayed, newest, listing>>
    <3>1. DeedsVersions' /\ DeedsComing'
      BY <2>1, <2>2 DEF DeedsInv2, DeedsVersions, DeedsComing
    <3> QED
      BY <2>1, <2>2, <3>1, DeedsStill2
  <2>3. CASE /\ Deeds!Shows(rows, [task |-> opening.task, version |-> opening.got])
             /\ listing' = [step |-> "sent", got |-> Deeds!NoRows]
    <3> DEFINE s == [task |-> opening.task, version |-> opening.got]
    <3>1. /\ s \in DeedsDisplays /\ newest.workspace[s.task] =< s.version
          /\ s.version =< metadata[s.task]
      BY <2>1 DEF DeedsInv2, DeedsVersions, DeedsComing, DeedsDisplays
    <3>2. rows \in DeedsMaybeRows /\ \A t \in Notes : rows[t] # None =>
            newest.library[t] =< rows[t] /\ rows[t] =< metadata[t]
      BY DEF DeedsInv2, DeedsVersions, DeedsShown, DeedsMaybeRows
    <3> HIDE DEF s
    <3>3. /\ newest' \in [library : [Notes -> Nat], workspace : [Notes -> Nat]]
          /\ rows' = rows /\ displayed' = s /\ DeedsShown'
      BY <2>1, <2>3, <3>1, <3>2, DeedsShowsKeeps DEF DeedsInv2, s
    <3>4. DeedsVersions' /\ DeedsComing'
      BY <1>1, <2>1, <2>3, <3>1, <3>3 DEF DeedsInv2, DeedsVersions, DeedsComing
    <3> QED
      BY <3>3, <3>4 DEF DeedsInv2
  <2> QED
    BY <1>3, <2>2, <2>3 DEF Deeds!DetailArrives, Deeds!Library, Deeds!NoListing
<1>4. CASE \E t \in Notes : Deeds!openHistoryItem(t)
  <2>1. PICK t \in Notes : Deeds!openHistoryItem(t)
    BY <1>4
  <2>2. /\ opening' = [task |-> t, got |-> None] /\ listing' = [step |-> "none", got |-> Deeds!NoRows]
        /\ UNCHANGED <<metadata, rows, displayed, newest, deed>>
    BY <2>1 DEF Deeds!openHistoryItem, Deeds!NoListing, Deeds!Library
  <2>3. DeedsVersions' /\ DeedsComing'
    BY <1>1, <2>2 DEF DeedsInv2, DeedsVersions, DeedsComing
  <2> QED
    BY <2>2, <2>3, DeedsStill2
<1> QED
  BY <1>2, <1>3, <1>4

LEMMA DeedsNative2 == ASSUME DeedsInv2, DeedsInv', Deeds!NativeSaves PROVE DeedsInv2'
<1> DEFINE t == deed.task
           next == metadata[t] + 1
<1>1. /\ t \in Notes /\ deed.step = "sent" /\ metadata[t] \in Nat /\ next \in Nat
      /\ UNCHANGED <<rows, displayed, newest, listing, opening>>
  BY DEF Deeds!NativeSaves, Deeds!Library, DeedsInv2, DeedsVersions, DeedsComing
<1>2. \/ /\ metadata' = [metadata EXCEPT ![t] = next]
         /\ deed' \in {[deed EXCEPT !.step = "done", !.got = next], [deed EXCEPT !.step = "failed"]}
      \/ UNCHANGED metadata /\ deed' = [deed EXCEPT !.step = "failed"]
  BY DEF Deeds!NativeSaves
<1>3. /\ metadata' \in [Notes -> Nat] /\ metadata[t] =< next
      /\ \A n \in Notes : metadata'[n] = metadata[n] \/ (n = t /\ metadata'[n] = next)
      /\ metadata' = [metadata EXCEPT ![t] = next] => metadata'[t] = next
  BY <1>1, <1>2 DEF DeedsInv2, DeedsVersions
<1> HIDE DEF next
<1>4. /\ deed' \in [kind : {"none", "pin", "rename", "source"}, task : Notes \cup {None},
                     step : {"sent", "done", "failed"}, got : Nat]
      /\ deed'.task = t /\ (deed'.step = "done" => deed'.got = metadata'[t])
  BY <1>1, <1>2, <1>3 DEF DeedsInv2, DeedsVersions
<1>5. \A n \in Notes : metadata[n] =< metadata'[n] /\ metadata[n] \in Nat /\ metadata'[n] \in Nat
  BY <1>1, <1>3 DEF DeedsInv2, DeedsVersions
<1>6. DeedsVersions'
  BY <1>1, <1>3, <1>4 DEF DeedsInv2, DeedsVersions
<1>7. DeedsShown'
  BY <1>1, <1>5 DEF DeedsInv2, DeedsVersions, DeedsShown
<1>8. DeedsComing'
  BY <1>1, <1>4, <1>5 DEF DeedsInv2, DeedsVersions, DeedsComing, DeedsMaybeRows
<1> QED
  BY <1>6, <1>7, <1>8 DEF DeedsInv2

LEMMA DeedsAnswer2 ==
  ASSUME DeedsConstants, DeedsInv2, DeedsInv', Deeds!MutationAnswer
  PROVE  DeedsInv2'
<1> DEFINE t == deed.task
<1>1. deed' = [kind |-> "none", task |-> None, step |-> "sent", got |-> 0] /\ UNCHANGED metadata
  BY DEF Deeds!MutationAnswer, Deeds!NoDeed
<1>2. CASE UNCHANGED <<rows, displayed, newest, listing, opening>>
  <2>1. DeedsVersions' /\ DeedsComing'
    BY <1>1, <1>2 DEF DeedsInv2, DeedsVersions, DeedsComing
  <2> QED
    BY <1>1, <1>2, <2>1, DeedsStill2
<1>3. CASE deed.step = "done" /\ Deeds!Applies(t, deed.got)
  <2>1. t \in Notes /\ deed.got = metadata[t] /\ metadata[t] \in Nat
    BY <1>3 DEF Deeds!MutationAnswer, DeedsInv2, DeedsVersions, DeedsComing
  <2> DEFINE r == [rows EXCEPT ![t] = deed.got]
             s == IF displayed = None \/ displayed.task # t THEN displayed
                  ELSE [displayed EXCEPT !.version = deed.got]
  <2>2. /\ Deeds!Shows(r, s) /\ listing' = [step |-> "sent", got |-> Deeds!NoRows]
        /\ opening' = [task |-> None, got |-> None]
    BY <1>3 DEF Deeds!Applies, Deeds!NoListing, Deeds!NoOpening
  <2>3. /\ r \in DeedsMaybeRows
        /\ \A n \in Notes : r[n] # None => newest.library[n] =< r[n] /\ r[n] =< metadata[n]
    BY <2>1 DEF DeedsInv2, DeedsVersions, DeedsShown, DeedsMaybeRows
  <2>4. /\ s \in DeedsDisplays
        /\ s # None => newest.workspace[s.task] =< s.version /\ s.version =< metadata[s.task]
    BY <2>1 DEF DeedsInv2, DeedsVersions, DeedsShown, DeedsDisplays
  <2> HIDE DEF r, s
  <2>5. /\ newest' \in [library : [Notes -> Nat], workspace : [Notes -> Nat]]
        /\ rows' = r /\ displayed' = s /\ DeedsShown'
    BY <1>1, <2>2, <2>3, <2>4, DeedsShowsKeeps DEF DeedsInv2
  <2>6. Deeds!NoRows \in DeedsMaybeRows
    BY DEF Deeds!NoRows, DeedsMaybeRows
  <2>7. DeedsVersions' /\ DeedsComing'
    BY <1>1, <2>2, <2>3, <2>4, <2>5, <2>6 DEF DeedsInv2, DeedsVersions, DeedsComing
  <2> QED
    BY <2>5, <2>7 DEF DeedsInv2
<1> QED
  BY <1>2, <1>3 DEF Deeds!MutationAnswer, Deeds!Library

LEMMA DeedsSteps2 == DeedsConstants /\ DeedsInv2 /\ (Deeds!Next \/ UNCHANGED Deeds!vars) => DeedsInv2'
<1> SUFFICES ASSUME DeedsConstants, DeedsInv2, Deeds!Next \/ UNCHANGED Deeds!vars PROVE DeedsInv2'
  OBVIOUS
<1>1. DeedsInv'
  BY DeedsSteps DEF DeedsInv2
<1>2. ASSUME UNCHANGED <<metadata, rows, displayed, newest, listing, opening, deed>> PROVE DeedsInv2'
  BY <1>1, <1>2 DEF DeedsInv2, DeedsVersions, DeedsShown, DeedsComing
<1>3. CASE Deeds!SidebarNoteMenu
  BY <1>1, <1>2, <1>3, DeedsBegins2
     DEF Deeds!SidebarNoteMenu, Deeds!Pin, Deeds!Source, Deeds!OpenSheet, Deeds!Library
<1>4. CASE Deeds!NoteRenameSheet
  <2>1. slip.task \in Notes
    BY <1>4 DEF Deeds!NoteRenameSheet, DeedsInv2, DeedsInv, DeedsAsked
  <2> QED
    BY <1>1, <1>2, <1>4, <2>1, DeedsBegins2
       DEF Deeds!NoteRenameSheet, Deeds!saveName, Deeds!CloseSheet, Deeds!Library
<1>5. CASE Deeds!NoteInfoSheet \/ Deeds!NoteCollectionsSheet \/ Deeds!SheetAnswer \/ UNCHANGED Deeds!vars
  BY <1>2, <1>5
     DEF Deeds!NoteInfoSheet, Deeds!NoteCollectionsSheet, Deeds!RefreshSheet, Deeds!CloseSheet,
         Deeds!SheetAnswer, Deeds!Library, Deeds!vars
<1>6. CASE Deeds!SourceAnswer
  <2>1. /\ deed' = [kind |-> "none", task |-> None, step |-> "sent", got |-> 0]
        /\ UNCHANGED <<metadata, rows, displayed, newest, listing, opening>>
    BY <1>6 DEF Deeds!SourceAnswer, Deeds!NoDeed, Deeds!Library
  <2>2. DeedsVersions' /\ DeedsComing'
    BY <2>1 DEF DeedsInv2, DeedsVersions, DeedsComing
  <2> QED
    BY <1>1, <2>1, <2>2, DeedsStill2
<1> QED
  BY <1>1, <1>3, <1>4, <1>5, <1>6, DeedsLists2, DeedsDetails2, DeedsNative2, DeedsAnswer2
     DEF Deeds!Next

LEMMA DeedsHolds2 == ASSUME DeedsInv2 PROVE Deeds!NoOlderNote /\ Deeds!SheetIsOfItsNote
<1>1. Deeds!NoOlderNote
  BY DEF DeedsInv2, DeedsVersions, DeedsShown, Deeds!NoOlderNote, Deeds!available,
         DeedsMaybeRows, DeedsDisplays
<1> QED
  BY <1>1 DEF DeedsInv2, DeedsInv

-----------------------------------------------------------------------------
(* The language of the window (Language).                                   *)

LocaleConstants == "system" \notin Languages /\ Fallback \in Languages

LocaleNatChoice == [sequence : Nat \ {0}, preference : Locale!Preferences]

LocaleLocales == [mounted : BOOLEAN, preference : Locale!Preferences, resolved : Languages,
            anchor : Locale!Preferences \cup {"none"}, latest : Nat,
            queue : Seq(LocaleNatChoice), reading : BOOLEAN, lost : BOOLEAN]

LocaleTypes ==
  /\ language \in LocaleLocales
  /\ stored \in Locale!Preferences /\ system \in Languages

\* The saves are those of the latest choices, in their order, and the last of them is the
\* one that is applied.
LocaleInOrder ==
  LET q == language.queue IN
  /\ \A i \in DOMAIN q : q[i].sequence = language.latest - (Len(q) - i)
  /\ q # <<>> => q[Len(q)].preference = language.preference
  /\ language.reading => q # <<>>

LocaleApplied ==
  /\ ~language.mounted => language.latest = 0
  /\ language.resolved = Locale!resolveLanguagePreference(language.preference)
  /\ language.anchor \in {stored, "none"}
  /\ language.latest > 0 /\ language.queue = <<>> /\ ~language.lost => language.preference = stored

LocaleInv == LocaleTypes /\ LocaleInOrder /\ LocaleApplied

LEMMA LocaleResolves ==
  ASSUME LocaleTypes, NEW p \in Locale!Preferences
  PROVE  Locale!resolveLanguagePreference(p) \in Languages
BY DEF LocaleTypes, LocaleLocales, Locale!Preferences, Locale!resolveLanguagePreference

LEMMA LocaleStarts == LocaleConstants /\ Locale!Init => LocaleInv
<1> SUFFICES ASSUME LocaleConstants, Locale!Init PROVE LocaleInv
  OBVIOUS
<1>1. <<>> \in Seq(LocaleNatChoice)
  OBVIOUS
<1> QED
  BY <1>1
     DEF LocaleConstants, Locale!Init, LocaleInv, LocaleTypes, LocaleLocales, LocaleInOrder,
         LocaleApplied, Locale!Preferences, Locale!resolveLanguagePreference

\* The head of the saves is of the latest choice when it is the only one.
LEMMA LocaleEmptied == ASSUME NEW S, NEW s \in Seq(S) PROVE s = <<>> <=> Len(s) = 0
OBVIOUS

LEMMA LocaleHeads ==
  ASSUME LocaleInv, language.queue # <<>>
  PROVE  LET q == language.queue IN
         /\ q \in Seq(LocaleNatChoice) /\ Tail(q) \in Seq(LocaleNatChoice) /\ Head(q).preference \in Locale!Preferences
         /\ \A i \in DOMAIN Tail(q) : Tail(q)[i].sequence = language.latest - (Len(Tail(q)) - i)
         /\ Tail(q) # <<>> => Tail(q)[Len(Tail(q))].preference = language.preference
         /\ Tail(q) = <<>> <=> Head(q).sequence = language.latest
         /\ Tail(q) = <<>> => Head(q).preference = language.preference
<1> DEFINE q == language.queue
<1>1. q \in Seq(LocaleNatChoice) /\ q # <<>> /\ language.latest \in Nat
  BY DEF LocaleInv, LocaleTypes, LocaleLocales
<1>2. /\ \A i \in DOMAIN q : q[i].sequence = language.latest - (Len(q) - i)
      /\ q[Len(q)].preference = language.preference
  BY DEF LocaleInv, LocaleInOrder
<1> HIDE DEF q
<1>3. /\ Len(q) \in Nat \ {0} /\ Tail(q) \in Seq(LocaleNatChoice) /\ Len(Tail(q)) = Len(q) - 1
      /\ Head(q) = q[1] /\ 1 \in DOMAIN q /\ q[1] \in LocaleNatChoice /\ DOMAIN q = 1..Len(q)
      /\ \A i \in DOMAIN Tail(q) : i \in Nat /\ i + 1 \in DOMAIN q /\ Tail(q)[i] = q[i + 1]
  <2>1. Len(q) \in Nat \ {0} /\ Tail(q) \in Seq(LocaleNatChoice) /\ Len(Tail(q)) = Len(q) - 1
    BY <1>1
  <2>2. Head(q) = q[1] /\ 1 \in DOMAIN q /\ q[1] \in LocaleNatChoice /\ DOMAIN q = 1..Len(q)
    BY <1>1
  <2>3. \A i \in DOMAIN Tail(q) : i \in Nat /\ i + 1 \in DOMAIN q /\ Tail(q)[i] = q[i + 1]
    BY <1>1
  <2> QED
    BY <2>1, <2>2, <2>3
<1>9. /\ Tail(q) = <<>> <=> Len(q) = 1
      /\ Tail(q) # <<>> => Len(Tail(q)) \in DOMAIN Tail(q)
  <2>1. Tail(q) = <<>> <=> Len(Tail(q)) = 0
    BY <1>3, LocaleEmptied
  <2>2. DOMAIN Tail(q) = 1..Len(Tail(q)) /\ Len(Tail(q)) \in Nat
    BY <1>3
  <2> QED
    BY <1>3, <2>1, <2>2
<1>4. \A i \in DOMAIN Tail(q) : Tail(q)[i].sequence = language.latest - (Len(Tail(q)) - i)
  BY <1>1, <1>2, <1>3
<1>5. Tail(q) # <<>> => Tail(q)[Len(Tail(q))].preference = language.preference
  BY <1>2, <1>3, <1>9
<1>6. q[1].sequence = language.latest - (Len(q) - 1)
  BY <1>2, <1>3
<1>7. q[1].sequence = language.latest <=> Len(q) = 1
  BY <1>1, <1>3, <1>6
<1>8. Head(q).preference \in Locale!Preferences
  BY <1>3 DEF LocaleNatChoice
<1> QED
  BY <1>1, <1>2, <1>3, <1>4, <1>5, <1>7, <1>8, <1>9 DEF q

\* A language that is applied, while its saves stay.
LEMMA LocaleApplies ==
  ASSUME LocaleTypes, NEW p \in Locale!Preferences
  PROVE  LET l == Locale!applied(language, p) IN
         /\ l = [language EXCEPT !.preference = p, !.resolved = Locale!resolveLanguagePreference(p)]
         /\ l \in LocaleLocales
         /\ l.preference = p /\ l.resolved = Locale!resolveLanguagePreference(p)
         /\ l.latest = language.latest /\ l.queue = language.queue /\ l.lost = language.lost
         /\ l.anchor = language.anchor /\ l.reading = language.reading /\ l.mounted = language.mounted
<1>1. Locale!resolveLanguagePreference(p) \in Languages
  BY LocaleResolves
<1> QED
  BY <1>1 DEF Locale!applied, LocaleTypes, LocaleLocales

LEMMA LocaleMounts ==
  ASSUME LocaleConstants, LocaleInv, Locale!startLocalizedApplication
  PROVE  LocaleInv'
<1>1. Fallback \in Locale!Preferences /\ stored \in Locale!Preferences /\ language.latest = 0
      /\ UNCHANGED <<stored, system>>
  BY DEF Locale!startLocalizedApplication, LocaleConstants, Locale!Preferences, LocaleInv,
         LocaleTypes, LocaleLocales, LocaleApplied
<1>2. ASSUME NEW p \in Locale!Preferences, NEW anchor \in {language.anchor, stored},
             \/ language' = [Locale!applied(language, p) EXCEPT !.mounted = TRUE, !.anchor = anchor]
             \/ /\ language' = [Locale!applied(language, p) EXCEPT !.mounted = TRUE]
                /\ anchor = language.anchor
      PROVE  LocaleInv'
  <2>1. language.queue = <<>> /\ ~language.reading
    <3>1. language.queue \in Seq(LocaleNatChoice)
      BY DEF LocaleInv, LocaleTypes, LocaleLocales
    <3> SUFFICES ASSUME language.queue # <<>> PROVE FALSE
      BY DEF LocaleInv, LocaleInOrder, LocaleTypes, LocaleLocales
    <3>2. 1 \in DOMAIN language.queue /\ language.queue[1] \in LocaleNatChoice /\ Len(language.queue) \in Nat
          /\ Len(language.queue) > 0
      BY <3>1
    <3>3. language.queue[1].sequence = language.latest - (Len(language.queue) - 1)
      BY <3>2 DEF LocaleInv, LocaleInOrder
    <3>4. language.queue[1].sequence \in Nat \ {0}
      BY <3>2 DEF LocaleNatChoice
    <3> QED
      BY <1>1, <3>2, <3>3, <3>4
  <2> DEFINE l == Locale!applied(language, p)
  <2>2. /\ l \in LocaleLocales /\ l.preference = p /\ l.resolved = Locale!resolveLanguagePreference(p)
        /\ l.latest = language.latest /\ l.queue = language.queue /\ l.reading = language.reading
        /\ l.anchor = language.anchor
    BY LocaleApplies DEF LocaleInv
  <2>3. \/ language' = [l EXCEPT !.mounted = TRUE, !.anchor = anchor]
        \/ language' = [l EXCEPT !.mounted = TRUE] /\ anchor = language.anchor
    BY <1>2
  <2>4. anchor \in Locale!Preferences \cup {"none"} /\ anchor \in {stored, "none"}
    BY <1>1 DEF LocaleInv, LocaleTypes, LocaleLocales, LocaleApplied
  <2> HIDE DEF l
  <2>5. /\ language' \in LocaleLocales /\ language'.preference = p /\ language'.mounted
        /\ language'.resolved = Locale!resolveLanguagePreference(p) /\ language'.latest = 0
        /\ language'.queue = <<>> /\ ~language'.reading /\ language'.anchor = anchor
    BY <1>1, <2>1, <2>2, <2>3, <2>4 DEF LocaleLocales
  <2> QED
    BY <1>1, <2>4, <2>5
       DEF LocaleInv, LocaleTypes, LocaleInOrder, LocaleApplied,
           Locale!resolveLanguagePreference
<1> QED
  BY <1>1, <1>2 DEF Locale!startLocalizedApplication

LEMMA LocaleSystem == ASSUME LocaleConstants, LocaleInv, Locale!SystemChanges PROVE LocaleInv'
<1>1. PICK l \in Languages \ {system} :
        /\ system' = l /\ stored' = stored
        /\ language' = IF language.preference = "system" THEN [language EXCEPT !.resolved = l]
                       ELSE language
  BY DEF Locale!SystemChanges
<1> QED
  BY <1>1
     DEF LocaleInv, LocaleTypes, LocaleLocales, LocaleInOrder, LocaleApplied,
         Locale!resolveLanguagePreference

LEMMA LocaleSelects ==
  ASSUME LocaleConstants, LocaleInv, NEW p \in Locale!Preferences, Locale!select(p)
  PROVE  LocaleInv'
<1> DEFINE l == Locale!applied(language, p)
           n == language.latest + 1
           c == [sequence |-> n, preference |-> p]
           q == language.queue
<1>1. /\ language' = [l EXCEPT !.latest = n, !.lost = FALSE, !.queue = Append(q, c)]
      /\ UNCHANGED <<stored, system>> /\ language.mounted
  BY LocaleApplies DEF Locale!select, LocaleInv
<1>2. n \in Nat /\ n = language.latest + 1 /\ n > 0 /\ q \in Seq(LocaleNatChoice) /\ language.latest \in Nat
  BY DEF LocaleInv, LocaleTypes, LocaleLocales
<1>3. c \in LocaleNatChoice /\ c.sequence = n /\ c.preference = p
  BY <1>2 DEF LocaleNatChoice
<1>4. \A i \in DOMAIN q : q[i].sequence = language.latest - (Len(q) - i)
  BY DEF LocaleInv, LocaleInOrder
<1> HIDE DEF n, c, q
<1>5. /\ Append(q, c) \in Seq(LocaleNatChoice) /\ Append(q, c) # <<>> /\ Len(Append(q, c)) = Len(q) + 1
      /\ Append(q, c)[Len(q) + 1] = c /\ Len(q) \in Nat
      /\ \A i \in DOMAIN Append(q, c) : /\ i \in Nat
                                       /\ \/ i = Len(q) + 1
                                          \/ i \in DOMAIN q /\ Append(q, c)[i] = q[i]
  <2>1. Append(q, c) \in Seq(LocaleNatChoice) /\ Len(Append(q, c)) = Len(q) + 1 /\ Len(q) \in Nat
    BY <1>2, <1>3
  <2>2. Append(q, c) # <<>>
    BY <2>1
  <2>3. /\ Append(q, c)[Len(q) + 1] = c
        /\ \A i \in DOMAIN Append(q, c) : /\ i \in Nat
                                         /\ \/ i = Len(q) + 1
                                            \/ i \in DOMAIN q /\ Append(q, c)[i] = q[i]
    BY <1>2, <1>3
  <2> QED
    BY <2>1, <2>2, <2>3
<1>6. \A i \in DOMAIN Append(q, c) : Append(q, c)[i].sequence = n - (Len(Append(q, c)) - i)
  <2> SUFFICES ASSUME NEW i \in DOMAIN Append(q, c)
               PROVE  Append(q, c)[i].sequence = n - (Len(Append(q, c)) - i)
    OBVIOUS
  <2>1. CASE i = Len(q) + 1
    BY <1>2, <1>3, <1>5, <2>1
  <2>2. CASE i \in DOMAIN q /\ Append(q, c)[i] = q[i]
    <3>1. Append(q, c)[i].sequence = language.latest - (Len(q) - i)
      BY <1>4, <2>2
    <3>2. i \in Nat /\ Len(Append(q, c)) = Len(q) + 1
      BY <1>5
    <3> QED
      BY <1>2, <1>5, <3>1, <3>2
  <2> QED
    BY <1>5, <2>1, <2>2
<1> DEFINE a == Append(q, c)
<1> HIDE DEF a
<1>11. /\ l \in LocaleLocales /\ l.preference = p /\ l.resolved = Locale!resolveLanguagePreference(p)
       /\ l.anchor = language.anchor /\ l.mounted = language.mounted
  BY LocaleApplies DEF LocaleInv
<1> HIDE DEF l
<1>7. /\ language'.latest = n /\ language'.queue = a /\ language'.preference = p
      /\ language'.resolved = Locale!resolveLanguagePreference(p) /\ language'.anchor = language.anchor
      /\ language'.mounted /\ language' \in LocaleLocales
  <2>1. language' = [l EXCEPT !.latest = n, !.lost = FALSE, !.queue = a] /\ a \in Seq(LocaleNatChoice)
    BY <1>1, <1>5 DEF a
  <2> QED
    BY <1>1, <1>2, <1>11, <2>1 DEF LocaleLocales
<1>8. LocaleTypes'
  BY <1>1, <1>7 DEF LocaleInv, LocaleTypes, LocaleLocales
<1>9. LocaleInOrder'
  BY <1>3, <1>5, <1>6, <1>7 DEF LocaleInOrder, a
<1>10. LocaleApplied'
  BY <1>1, <1>2, <1>5, <1>7 DEF LocaleInv, LocaleApplied, Locale!resolveLanguagePreference, a
<1> QED
  BY <1>8, <1>9, <1>10 DEF LocaleInv

\* A save has ended.
LEMMA LocaleEnds ==
  ASSUME LocaleConstants, LocaleInv, language.queue # <<>>, NEW l, language' = Locale!Done(l),
         l \in LocaleLocales,
         l.queue = language.queue, l.latest = language.latest, l.mounted = language.mounted,
         l.anchor \in {stored', "none"}, stored' \in Locale!Preferences, UNCHANGED system,
         l.resolved = Locale!resolveLanguagePreference(l.preference),
         Tail(l.queue) # <<>> => l.preference = language.preference,
         Tail(l.queue) = <<>> /\ ~l.lost => l.preference = stored'
  PROVE  LocaleInv'
<1> DEFINE t == Tail(language.queue)
<1>1. /\ t \in Seq(LocaleNatChoice)
      /\ \A i \in DOMAIN t : t[i].sequence = language.latest - (Len(t) - i)
      /\ t # <<>> => t[Len(t)].preference = language.preference
  BY LocaleHeads
<1>2. language' = [l EXCEPT !.queue = t, !.reading = FALSE]
  BY DEF Locale!Done
<1> HIDE DEF t
<1>3. /\ language'.queue = t /\ language'.latest = language.latest
      /\ language'.mounted = language.mounted /\ language'.preference = l.preference
      /\ language'.resolved = l.resolved /\ language'.anchor = l.anchor
      /\ ~language'.reading /\ language'.lost = l.lost
      /\ language' \in LocaleLocales
  BY <1>1, <1>2 DEF LocaleLocales
<1>4. LocaleTypes'
  BY <1>3 DEF LocaleInv, LocaleTypes, LocaleLocales
<1>5. LocaleInOrder'
  BY <1>1, <1>3 DEF LocaleInOrder, t
<1>6. LocaleApplied'
  BY <1>3 DEF LocaleInv, LocaleApplied, Locale!resolveLanguagePreference, t
<1> QED
  BY <1>4, <1>5, <1>6 DEF LocaleInv

LEMMA LocaleSaves == ASSUME LocaleConstants, LocaleInv, Locale!Saved PROVE LocaleInv'
<1> DEFINE l == [language EXCEPT !.anchor = stored']
<1>1. /\ language.queue # <<>> /\ stored' = Head(language.queue).preference
      /\ language' = Locale!Done(l) /\ UNCHANGED system
  BY DEF Locale!Saved
<1>2. /\ stored' \in Locale!Preferences
      /\ Tail(language.queue) = <<>> => stored' = language.preference
  BY <1>1, LocaleHeads
<1>3. /\ l \in LocaleLocales
      /\ l.queue = language.queue /\ l.latest = language.latest /\ l.mounted = language.mounted
      /\ l.anchor = stored' /\ l.resolved = language.resolved /\ l.preference = language.preference
  BY <1>2 DEF LocaleInv, LocaleTypes, LocaleLocales
<1> HIDE DEF l
<1> QED
  BY <1>1, <1>2, <1>3, LocaleEnds DEF LocaleInv, LocaleApplied

LEMMA LocaleFails == ASSUME LocaleConstants, LocaleInv, Locale!SaveFails PROVE LocaleInv'
<1>1. language.queue # <<>> /\ UNCHANGED <<stored, system>> /\ stored \in Locale!Preferences
  BY DEF Locale!SaveFails, LocaleInv, LocaleTypes, LocaleLocales
<1>2. /\ language \in LocaleLocales
      /\ language.anchor \in {stored, "none"}
      /\ language.resolved = Locale!resolveLanguagePreference(language.preference)
  BY DEF LocaleInv, LocaleTypes, LocaleLocales, LocaleApplied
<1>3. Tail(language.queue) = <<>> <=> Head(language.queue).sequence = language.latest
  BY <1>1, LocaleHeads
<1>4. CASE Head(language.queue).sequence # language.latest /\ language' = Locale!Done(language)
  BY <1>1, <1>2, <1>3, <1>4, LocaleEnds
<1>5. CASE language' = [language EXCEPT !.reading = TRUE]
  BY <1>1, <1>5
     DEF LocaleInv, LocaleTypes, LocaleLocales, LocaleInOrder, LocaleApplied,
         Locale!resolveLanguagePreference
<1>6. CASE /\ Head(language.queue).sequence = language.latest /\ language.anchor # "none"
           /\ language' = Locale!Done(Locale!applied(language, language.anchor))
  <2> DEFINE l == Locale!applied(language, stored)
  <2>1. language.anchor = stored
    BY <1>2, <1>6
  <2>2. /\ l \in LocaleLocales
        /\ l.preference = stored /\ l.resolved = Locale!resolveLanguagePreference(stored)
        /\ l.latest = language.latest /\ l.queue = language.queue
        /\ l.anchor = language.anchor /\ l.mounted = language.mounted
    BY <1>1, LocaleApplies DEF LocaleInv
  <2>3. language' = Locale!Done(l)
    BY <1>6, <2>1
  <2> HIDE DEF l
  <2> QED
    BY <1>1, <1>2, <1>3, <1>6, <2>1, <2>2, <2>3, LocaleEnds
<1> QED
  BY <1>4, <1>5, <1>6 DEF Locale!SaveFails

LEMMA LocaleRolls == ASSUME LocaleConstants, LocaleInv, Locale!RolledBack PROVE LocaleInv'
<1> DEFINE latest == Head(language.queue).sequence = language.latest
           anchored == [language EXCEPT !.anchor = stored]
<1>1. /\ language.queue # <<>> /\ UNCHANGED <<stored, system>> /\ stored \in Locale!Preferences
      /\ "system" \in Locale!Preferences
  BY DEF Locale!RolledBack, LocaleInv, LocaleTypes, LocaleLocales, LocaleInOrder,
         Locale!Preferences
<1>2. /\ language \in LocaleLocales
      /\ language.anchor \in {stored, "none"}
      /\ language.resolved = Locale!resolveLanguagePreference(language.preference)
  BY DEF LocaleInv, LocaleTypes, LocaleLocales, LocaleApplied
<1>3. Tail(language.queue) = <<>> <=> latest
  BY <1>1, LocaleHeads
<1>4. /\ anchored \in LocaleLocales
      /\ anchored.preference = language.preference /\ anchored.resolved = language.resolved
      /\ anchored.latest = language.latest /\ anchored.queue = language.queue
      /\ anchored.anchor = stored /\ anchored.mounted = language.mounted
  BY <1>1, <1>2 DEF LocaleLocales
<1>5. CASE ~latest /\ language' = Locale!Done(anchored)
  <2> HIDE DEF anchored, latest
  <2> QED
    BY <1>1, <1>2, <1>3, <1>4, <1>5, LocaleEnds
<1>6. CASE ~latest /\ language' = Locale!Done(language)
  <2> HIDE DEF latest
  <2> QED
    BY <1>1, <1>2, <1>3, <1>6, LocaleEnds
<1>7. CASE latest /\ language' = Locale!Done(Locale!applied(anchored, stored))
  <2> DEFINE l == Locale!applied(anchored, stored)
  <2>1. Locale!resolveLanguagePreference(stored) \in Languages
    BY <1>1, LocaleResolves DEF LocaleInv
  <2>2. /\ l \in LocaleLocales
        /\ l.preference = stored /\ l.resolved = Locale!resolveLanguagePreference(stored)
        /\ l.latest = language.latest /\ l.queue = language.queue
        /\ l.anchor = stored /\ l.mounted = language.mounted
    <3> HIDE DEF anchored
    <3> QED
      BY <1>1, <1>4, <2>1 DEF Locale!applied, LocaleLocales
  <2>3. language' = Locale!Done(l)
    BY <1>7
  <2> HIDE DEF l, latest, anchored
  <2> QED
    BY <1>1, <1>3, <1>7, <2>2, <2>3, LocaleEnds
<1>8. CASE latest /\ language' = [Locale!Done(Locale!applied(language, "system")) EXCEPT !.lost = TRUE]
  <2> DEFINE a == Locale!applied(language, "system")
             l == [a EXCEPT !.lost = TRUE]
  <2>1. /\ a \in LocaleLocales
        /\ a.preference = "system" /\ a.resolved = Locale!resolveLanguagePreference("system")
        /\ a.latest = language.latest /\ a.queue = language.queue
        /\ a.anchor = language.anchor /\ a.mounted = language.mounted
    BY <1>1, LocaleApplies DEF LocaleInv
  <2>2. language' = [Locale!Done(a) EXCEPT !.lost = TRUE]
    BY <1>8
  <2> HIDE DEF a
  <2>3. /\ l \in LocaleLocales
        /\ l.preference = "system" /\ l.resolved = Locale!resolveLanguagePreference("system")
        /\ l.latest = language.latest /\ l.queue = language.queue
        /\ l.anchor = language.anchor /\ l.mounted = language.mounted /\ l.lost
    BY <2>1 DEF LocaleLocales
  <2>4. language' = Locale!Done(l)
    BY <2>1, <2>2 DEF Locale!Done
  <2> HIDE DEF l, latest
  <2> QED
    BY <1>1, <1>2, <1>3, <1>8, <2>3, <2>4, LocaleEnds
<1> QED
  BY <1>5, <1>6, <1>7, <1>8 DEF Locale!RolledBack

LEMMA LocaleSteps == LocaleConstants /\ LocaleInv /\ (Locale!Next \/ UNCHANGED Locale!vars) => LocaleInv'
<1> SUFFICES ASSUME LocaleConstants, LocaleInv, Locale!Next \/ UNCHANGED Locale!vars PROVE LocaleInv'
  OBVIOUS
<1>1. CASE UNCHANGED Locale!vars
  BY <1>1
     DEF Locale!vars, LocaleInv, LocaleTypes, LocaleLocales, LocaleInOrder, LocaleApplied,
         Locale!resolveLanguagePreference
<1> QED
  BY <1>1, LocaleMounts, LocaleSystem, LocaleSelects, LocaleSaves, LocaleFails, LocaleRolls
     DEF Locale!Next

LEMMA LocaleHolds == ASSUME LocaleInv PROVE Locale!LanguageIsStored
BY DEF LocaleInv, LocaleApplied, Locale!LanguageIsStored

-----------------------------------------------------------------------------
(* The page of the administrator (AdminConsole).                            *)

ConsoleConstants == MaxLogins \in Nat /\ MaxPosts \in Nat /\ None \notin [tab : Tabs \cup {"gone"}, button : Console!Buttons, cookie : Nat, csrf : Nat,
           step : {"sent", "known", "ok", "refused", "over"}]

ConsoleRequests == [tab : Tabs \cup {"gone"}, button : Console!Buttons, cookie : Nat, csrf : Nat,
           step : {"sent", "known", "ok", "refused", "over"}]
ConsoleDocuments == [at : {"login", "page"} \cup Console!Reads, csrf : Nat, limit : Nat, audit : Nat,
              disabled : SUBSET Console!Buttons]

ConsoleLogins(s) == s \in [issued : Nat, valid : SUBSET Nat] /\ \A l \in s.valid : 1 <= l /\ l <= s.issued

\* A request is of a login that there was, is known by the token of its own login, and
\* a logout that was done has left no session behind.
ConsoleRequestIs(q, s) ==
  /\ q \in ConsoleRequests /\ q.cookie <= s.issued /\ q.csrf <= s.issued
  /\ q.step = "known" => q.cookie = q.csrf
  /\ q.step = "ok" /\ q.button = "logout" => q.csrf \notin s.valid

\* A document is of a login that there was, and what it has read of the credits the audit
\* has or will have.
ConsoleDocumentIs(d, s, g) ==
  /\ d \in ConsoleDocuments /\ d.csrf <= s.issued
  /\ d.at = "login" => d.csrf \notin s.valid
  /\ d.at = "audit" => d.limit <= g.audit
  /\ d.at = "page" => d.limit <= d.audit

ConsoleGranted(g) == g \in [limit : Nat, audit : Nat] /\ g.limit = g.audit

ConsoleInv ==
  /\ ConsoleLogins(sessions) /\ cookie \in Nat /\ cookie <= sessions.issued /\ ConsoleGranted(granted)
  /\ tabs = [t \in Tabs |-> tabs[t]] /\ \A t \in Tabs : ConsoleDocumentIs(tabs[t], sessions, granted)
  /\ posts = [p \in Console!Posts |-> posts[p]]
  /\ \A p \in Console!Posts : posts[p] # None => ConsoleRequestIs(posts[p], sessions)
  /\ Console!ButtonsWillAnswer

LEMMA ConsoleNewDocument ==
  ASSUME ConsoleLogins(sessions), NEW at \in {"login", "limit"}, NEW g
  PROVE  ConsoleDocumentIs(Console!Document(at), sessions, g)
BY DEF Console!Document, ConsoleDocumentIs, ConsoleDocuments, Console!Reads, ConsoleLogins

LEMMA ConsoleStarts == ConsoleConstants /\ Console!Init => ConsoleInv
<1> SUFFICES ASSUME Console!Init PROVE ConsoleInv
  OBVIOUS
<1>1. ConsoleLogins(sessions) /\ cookie \in Nat /\ cookie <= sessions.issued /\ ConsoleGranted(granted)
  BY DEF Console!Init, ConsoleLogins, ConsoleGranted
<1>2. \A t \in Tabs : ConsoleDocumentIs(tabs[t], sessions, granted)
  BY <1>1, ConsoleNewDocument DEF Console!Init
<1>3. Console!ButtonsWillAnswer
  BY DEF Console!Init, Console!ButtonsWillAnswer, Console!Document
<1> QED
  BY <1>1, <1>2, <1>3 DEF Console!Init, ConsoleInv

\* A document comes into a tab, whose requests are given up.
LEMMA ConsoleGoesKeeps ==
  ASSUME ConsoleInv, NEW t \in Tabs, NEW d, ConsoleDocumentIs(d, sessions, granted), d.disabled = {}, Console!Goes(t, d),
         UNCHANGED <<sessions, cookie, granted>>
  PROVE  ConsoleInv'
<1>1. /\ \A u \in Tabs : tabs'[u] = IF u = t THEN d ELSE tabs[u]
      /\ tabs' = [u \in Tabs |-> tabs'[u]]
  BY DEF Console!Goes, ConsoleInv
<1>2. /\ \A p \in Console!Posts : posts'[p] = IF Console!Sent(p) /\ posts[p].tab = t THEN [posts[p] EXCEPT !.tab = "gone"]
                                      ELSE posts[p]
      /\ posts' = [p \in Console!Posts |-> posts'[p]]
  BY DEF Console!Goes
<1>3. \A u \in Tabs : ConsoleDocumentIs(tabs'[u], sessions, granted)
  BY <1>1 DEF ConsoleInv
<1>4. ASSUME NEW p \in Console!Posts, posts'[p] # None PROVE ConsoleRequestIs(posts'[p], sessions)
  <2>1. posts[p] # None => ConsoleRequestIs(posts[p], sessions)
    BY DEF ConsoleInv
  <2>2. posts[p] # None
    BY <1>2, <1>4 DEF Console!Sent
  <2>3. CASE Console!Sent(p) /\ posts[p].tab = t
    <3>1. posts'[p] = [posts[p] EXCEPT !.tab = "gone"]
      BY <1>2, <2>3
    <3> QED
      BY <2>1, <2>2, <3>1 DEF ConsoleRequestIs, ConsoleRequests
  <2>4. CASE ~(Console!Sent(p) /\ posts[p].tab = t)
    BY <1>2, <2>1, <2>2, <2>4
  <2> QED
    BY <2>3, <2>4
<1>5. ASSUME NEW u \in Tabs, NEW button \in tabs'[u].disabled
      PROVE  \E p \in Console!Posts : Console!Sent(p)' /\ posts'[p].tab = u /\ posts'[p].button = button
  <2>1. u # t /\ button \in tabs[u].disabled
    BY <1>1, <1>5
  <2>2. PICK p \in Console!Posts : Console!Sent(p) /\ posts[p].tab = u /\ posts[p].button = button
    BY <2>1 DEF ConsoleInv, Console!ButtonsWillAnswer
  <2>3. posts'[p] = posts[p]
    BY <1>2, <2>1, <2>2
  <2> QED
    BY <2>2, <2>3 DEF Console!Sent
<1>6. Console!ButtonsWillAnswer'
  BY <1>5 DEF Console!ButtonsWillAnswer
<1> QED
  BY <1>1, <1>2, <1>3, <1>4, <1>6 DEF ConsoleInv

\* One request goes on; its tab goes on waiting.
LEMMA ConsoleRequestKeeps ==
  ASSUME ConsoleInv, NEW p \in Console!Posts, Console!Sent(p), NEW q, q # None, ConsoleRequestIs(q, sessions), q.step # "over",
         q.tab = posts[p].tab, q.button = posts[p].button,
         posts' = [posts EXCEPT ![p] = q], UNCHANGED <<sessions, cookie, tabs>>,
         ConsoleGranted(granted'), granted'.audit >= granted.audit
  PROVE  ConsoleInv'
<1>1. /\ posts'[p] = q /\ \A r \in Console!Posts : r # p => posts'[r] = posts[r]
      /\ posts' = [r \in Console!Posts |-> posts'[r]]
  BY DEF ConsoleInv
<1>2. \A r \in Console!Posts : posts'[r] # None => ConsoleRequestIs(posts'[r], sessions)
  BY <1>1 DEF ConsoleInv
<1>3. \A t \in Tabs : ConsoleDocumentIs(tabs[t], sessions, granted')
  BY DEF ConsoleInv, ConsoleDocumentIs, ConsoleDocuments, ConsoleGranted
<1>4. Console!Sent(p)'
  BY <1>1 DEF Console!Sent
<1>5. \A r \in Console!Posts : Console!Sent(r) => Console!Sent(r)' /\ posts'[r].tab = posts[r].tab /\ posts'[r].button = posts[r].button
  BY <1>1, <1>4 DEF Console!Sent
<1>6. Console!ButtonsWillAnswer'
  <2> SUFFICES ASSUME NEW t \in Tabs, NEW button \in tabs[t].disabled
               PROVE  \E r \in Console!Posts : Console!Sent(r)' /\ posts'[r].tab = t /\ posts'[r].button = button
    BY DEF Console!ButtonsWillAnswer
  <2>1. PICK r \in Console!Posts : Console!Sent(r) /\ posts[r].tab = t /\ posts[r].button = button
    BY DEF ConsoleInv, Console!ButtonsWillAnswer
  <2> QED
    BY <2>1, <1>5
<1> QED
  BY <1>1, <1>2, <1>3, <1>6 DEF ConsoleInv

\* The answer to a request reaches its tab, if there is one, and the request is over or
\* given up.
LEMMA ConsoleAnswerKeeps ==
  ASSUME ConsoleInv, NEW p \in Console!Posts, Console!Sent(p), NEW q, q # None, ConsoleRequestIs(q, sessions),
         posts' = [posts EXCEPT ![p] = q],
         tabs' = IF Console!Waits(p) THEN Console!Enabled(p) ELSE tabs,
         UNCHANGED <<sessions, cookie, granted>>
  PROVE  ConsoleInv'
<1>1. /\ posts'[p] = q /\ \A r \in Console!Posts : r # p => posts'[r] = posts[r]
      /\ posts' = [r \in Console!Posts |-> posts'[r]]
  BY DEF ConsoleInv
<1>2. \A r \in Console!Posts : posts'[r] # None => ConsoleRequestIs(posts'[r], sessions)
  BY <1>1 DEF ConsoleInv
<1> DEFINE own == posts[p].tab
<1>3. /\ tabs' = [t \in Tabs |-> tabs'[t]]
      /\ \A t \in Tabs : t # own => tabs'[t] = tabs[t]
      /\ own \in Tabs => tabs'[own] = [tabs[own] EXCEPT !.disabled = @ \ {posts[p].button}]
  BY DEF ConsoleInv, Console!Waits, Console!Enabled
<1> HIDE DEF own
<1>4. \A t \in Tabs : ConsoleDocumentIs(tabs'[t], sessions, granted) /\ tabs'[t].disabled \subseteq tabs[t].disabled
  <2> TAKE t \in Tabs
  <2>1. ConsoleDocumentIs(tabs[t], sessions, granted)
    BY DEF ConsoleInv
  <2>2. CASE t = own
    BY <1>3, <2>1, <2>2 DEF ConsoleDocumentIs, ConsoleDocuments
  <2>3. CASE t # own
    BY <1>3, <2>1, <2>3
  <2> QED
    BY <2>2, <2>3
<1>5. ASSUME NEW t \in Tabs, NEW button \in tabs'[t].disabled
      PROVE  \E r \in Console!Posts : Console!Sent(r)' /\ posts'[r].tab = t /\ posts'[r].button = button
  <2>1. PICK r \in Console!Posts : Console!Sent(r) /\ posts[r].tab = t /\ posts[r].button = button
    BY <1>4, <1>5 DEF ConsoleInv, Console!ButtonsWillAnswer
  <2>2. r # p
    <3> SUFFICES ASSUME r = p PROVE FALSE
      OBVIOUS
    <3>1. t = own /\ button = posts[p].button
      BY <2>1 DEF own
    <3>2. tabs'[t].disabled = tabs[t].disabled \ {posts[p].button}
      <4>1. tabs[t] \in ConsoleDocuments
        BY DEF ConsoleInv, ConsoleDocumentIs
      <4> QED
        BY <1>3, <3>1, <4>1 DEF ConsoleDocuments
    <3> QED
      BY <1>5, <3>1, <3>2
  <2> QED
    BY <1>1, <2>1, <2>2 DEF Console!Sent
<1>6. Console!ButtonsWillAnswer'
  BY <1>5 DEF Console!ButtonsWillAnswer
<1> QED
  BY <1>1, <1>2, <1>3, <1>4, <1>6 DEF ConsoleInv

LEMMA ConsoleAtIs ==
  ASSUME ConsoleInv, NEW p \in Console!Posts, Console!Sent(p)
  PROVE  ConsoleRequestIs(posts[p], sessions) /\ posts[p] \in ConsoleRequests
BY DEF ConsoleInv, Console!Sent, ConsoleRequestIs

LEMMA ConsoleHandledIs ==
  ASSUME ConsoleConstants, ConsoleInv, NEW p \in Console!Posts, Console!Sent(p), NEW step \in {"ok", "refused"}, Console!Handled(p, step),
         step = "ok" => posts[p].button = "save",
         UNCHANGED <<sessions, cookie, tabs>>, ConsoleGranted(granted'), granted'.audit >= granted.audit
  PROVE  ConsoleInv'
<1> DEFINE q == [posts[p] EXCEPT !.step = step, !.cookie = 0, !.csrf = 0]
<1>1. posts' = [posts EXCEPT ![p] = q]
  BY DEF Console!Handled, ConsoleInv
<1>2. posts[p] \in ConsoleRequests
  BY ConsoleAtIs
<1>a. /\ q \in ConsoleRequests /\ q.step = step /\ q.tab = posts[p].tab /\ q.button = posts[p].button
      /\ q.cookie = 0 /\ q.csrf = 0
  BY <1>2 DEF ConsoleRequests
<1>b. 0 <= sessions.issued /\ 0 \notin sessions.valid
  BY DEF ConsoleInv, ConsoleLogins
<1>3. ConsoleRequestIs(q, sessions) /\ q.step # "over" /\ q.tab = posts[p].tab /\ q.button = posts[p].button
  BY <1>a, <1>b DEF ConsoleRequestIs
<1>4. q \in ConsoleRequests /\ q # None
  BY <1>3 DEF ConsoleRequestIs, ConsoleConstants, ConsoleRequests
<1> HIDE DEF q
<1> QED
  BY <1>1, <1>3, <1>4, ConsoleRequestKeeps

LEMMA ConsoleEndedIs ==
  ASSUME ConsoleConstants, ConsoleInv
  PROVE  ConsoleRequestIs(Console!Ended, sessions) /\ Console!Ended # None
<1>1. ConsoleRequestIs(Console!Ended, sessions)
  BY DEF Console!Ended, ConsoleRequestIs, ConsoleRequests, Console!Buttons, ConsoleInv,
         ConsoleLogins
<1> QED
  BY <1>1 DEF ConsoleRequestIs, ConsoleRequests, ConsoleConstants

LEMMA ConsoleTabSteps ==
  ASSUME ConsoleConstants, ConsoleInv, NEW t \in Tabs,
         Console!Visit(t) \/ Console!ReadEntitlements(t) \/ Console!ReadAdjustments(t) \/ Console!Verify(t)
  PROVE  ConsoleInv'
<1>0. ConsoleDocumentIs(tabs[t], sessions, granted) /\ ConsoleLogins(sessions) /\ ConsoleGranted(granted)
  BY DEF ConsoleInv
<1>1. CASE Console!Visit(t)
  <2>1. CASE cookie \in sessions.valid
    <3> DEFINE d == [Console!Document("limit") EXCEPT !.csrf = cookie]
    <3>1. Console!Goes(t, d)
      BY <1>1, <2>1 DEF Console!Visit
    <3>2. ConsoleDocumentIs(d, sessions, granted) /\ d.disabled = {}
      BY DEF ConsoleDocumentIs, ConsoleDocuments, Console!Document, Console!Reads, ConsoleInv
    <3> HIDE DEF d
    <3> QED
      BY <1>1, <3>1, <3>2, ConsoleGoesKeeps DEF Console!Visit
  <2>2. CASE cookie \notin sessions.valid
    <3>1. ConsoleDocumentIs(Console!Document("login"), sessions, granted) /\ Console!Document("login").disabled = {}
      BY <1>0, ConsoleNewDocument DEF Console!Document
    <3> QED
      BY <1>1, <2>2, <3>1, ConsoleGoesKeeps DEF Console!Visit
  <2> QED
    BY <2>1, <2>2
<1>2. CASE Console!ReadEntitlements(t)
  <2> DEFINE d == [tabs[t] EXCEPT !.at = "audit", !.limit = granted.limit]
  <2>1. /\ tabs'[t] = d /\ \A u \in Tabs : u # t => tabs'[u] = tabs[u]
        /\ tabs' = [u \in Tabs |-> tabs'[u]]
    BY <1>2 DEF Console!ReadEntitlements, ConsoleInv
  <2>a. /\ d \in ConsoleDocuments /\ d.at = "audit" /\ d.limit = granted.limit
        /\ d.csrf = tabs[t].csrf /\ d.disabled = tabs[t].disabled
    BY <1>0 DEF ConsoleDocumentIs, ConsoleDocuments, Console!Reads, ConsoleGranted
  <2>b. granted.limit <= granted.audit
    BY <1>0 DEF ConsoleGranted
  <2>2. ConsoleDocumentIs(d, sessions, granted) /\ d.disabled = tabs[t].disabled
    BY <1>0, <2>a, <2>b DEF ConsoleDocumentIs
  <2> HIDE DEF d
  <2>3. \A u \in Tabs : ConsoleDocumentIs(tabs'[u], sessions, granted) /\ tabs'[u].disabled = tabs[u].disabled
    BY <2>1, <2>2 DEF ConsoleInv
  <2>4. Console!ButtonsWillAnswer'
    BY <1>2, <2>3
       DEF Console!ReadEntitlements, ConsoleInv, Console!ButtonsWillAnswer, Console!Sent
  <2> QED
    BY <1>2, <2>1, <2>3, <2>4 DEF Console!ReadEntitlements, ConsoleInv
<1>3. CASE Console!ReadAdjustments(t)
  <2> DEFINE d == [tabs[t] EXCEPT !.at = "page", !.audit = granted.audit]
  <2>1. /\ tabs'[t] = d /\ \A u \in Tabs : u # t => tabs'[u] = tabs[u]
        /\ tabs' = [u \in Tabs |-> tabs'[u]]
    BY <1>3 DEF Console!ReadAdjustments, ConsoleInv
  <2>2. ConsoleDocumentIs(d, sessions, granted) /\ d.disabled = tabs[t].disabled
    BY <1>0, <1>3
       DEF Console!ReadAdjustments, ConsoleDocumentIs, ConsoleDocuments, Console!Reads,
           ConsoleGranted
  <2> HIDE DEF d
  <2>3. \A u \in Tabs : ConsoleDocumentIs(tabs'[u], sessions, granted) /\ tabs'[u].disabled = tabs[u].disabled
    BY <2>1, <2>2 DEF ConsoleInv
  <2>4. Console!ButtonsWillAnswer'
    BY <1>3, <2>3
       DEF Console!ReadAdjustments, ConsoleInv, Console!ButtonsWillAnswer, Console!Sent
  <2> QED
    BY <1>3, <2>1, <2>3, <2>4 DEF Console!ReadAdjustments, ConsoleInv
<1>4. CASE Console!Verify(t)
  <2> DEFINE new == sessions.issued + 1
  <2>1. /\ sessions' = [issued |-> new, valid |-> sessions.valid \cup {new}]
        /\ cookie' \in {cookie, new} /\ UNCHANGED <<tabs, posts, granted>>
    BY <1>4 DEF Console!Verify
  <2>2. new \in Nat /\ new > sessions.issued /\ new >= 1 /\ \A l \in Nat : l <= sessions.issued => l # new /\ l <= new
    BY <1>0 DEF ConsoleLogins
  <2> HIDE DEF new
  <2>3. /\ sessions'.issued = new /\ sessions'.valid = sessions.valid \cup {new}
        /\ sessions.issued \in Nat /\ sessions.valid \subseteq Nat
    BY <1>0, <2>1 DEF ConsoleLogins
  <2>4. ConsoleLogins(sessions')
    BY <1>0, <2>1, <2>2 DEF ConsoleLogins
  <2>5. cookie' \in Nat /\ cookie' <= sessions'.issued
    BY <2>1, <2>2, <2>3 DEF ConsoleInv
  <2>6. \A u \in Tabs : ConsoleDocumentIs(tabs[u], sessions', granted)
    <3> TAKE u \in Tabs
    <3>1. ConsoleDocumentIs(tabs[u], sessions, granted) /\ tabs[u].csrf \in Nat
      BY DEF ConsoleInv, ConsoleDocumentIs, ConsoleDocuments
    <3> QED
      BY <2>2, <2>3, <3>1 DEF ConsoleDocumentIs
  <2>7. \A p \in Console!Posts : posts[p] # None => ConsoleRequestIs(posts[p], sessions')
    <3> SUFFICES ASSUME NEW p \in Console!Posts, posts[p] # None PROVE ConsoleRequestIs(posts[p], sessions')
      OBVIOUS
    <3>1. ConsoleRequestIs(posts[p], sessions) /\ posts[p].csrf \in Nat /\ posts[p].cookie \in Nat
      BY DEF ConsoleInv, ConsoleRequestIs, ConsoleRequests
    <3> QED
      BY <2>2, <2>3, <3>1 DEF ConsoleRequestIs
  <2>8. Console!ButtonsWillAnswer'
    BY <2>1 DEF ConsoleInv, Console!ButtonsWillAnswer, Console!Sent
  <2> QED
    BY <2>1, <2>4, <2>5, <2>6, <2>7, <2>8 DEF ConsoleInv
<1> QED
  BY <1>1, <1>2, <1>3, <1>4

\* A login ends: by itself, or by a logout.
LEMMA ConsoleRevokedKeeps ==
  ASSUME ConsoleInv, NEW gone, sessions' = [sessions EXCEPT !.valid = @ \ gone], UNCHANGED <<tabs, posts, granted>>,
         cookie' \in {0, cookie}
  PROVE  ConsoleInv'
<1>0. ConsoleLogins(sessions)
  BY DEF ConsoleInv
<1>1. ConsoleLogins(sessions') /\ sessions'.issued = sessions.issued /\ sessions'.valid \subseteq sessions.valid
  BY <1>0 DEF ConsoleLogins
<1>2. cookie' \in Nat /\ cookie' <= sessions'.issued
  BY <1>0, <1>1 DEF ConsoleInv, ConsoleLogins
<1>3. \A u \in Tabs : ConsoleDocumentIs(tabs[u], sessions', granted)
  BY <1>1 DEF ConsoleInv, ConsoleDocumentIs
<1>4. \A p \in Console!Posts : posts[p] # None => ConsoleRequestIs(posts[p], sessions')
  BY <1>1 DEF ConsoleInv, ConsoleRequestIs
<1>5. Console!ButtonsWillAnswer'
  BY DEF ConsoleInv, Console!ButtonsWillAnswer, Console!Sent
<1> QED
  BY <1>1, <1>2, <1>3, <1>4, <1>5 DEF ConsoleInv

LEMMA ConsoleClickKeeps ==
  ASSUME ConsoleConstants, ConsoleInv, NEW t \in Tabs, NEW p \in Console!Posts, NEW button \in Console!Buttons, Console!Click(t, p, button)
  PROVE  ConsoleInv'
<1> DEFINE q == [tab |-> t, button |-> button, cookie |-> cookie, csrf |-> tabs[t].csrf, step |-> "sent"]
           d == [tabs[t] EXCEPT !.disabled = @ \cup {button}]
<1>0. ConsoleDocumentIs(tabs[t], sessions, granted)
  BY DEF ConsoleInv
<1>1. ConsoleRequestIs(q, sessions)
  BY <1>0 DEF ConsoleRequestIs, ConsoleRequests, ConsoleInv, ConsoleDocumentIs, ConsoleDocuments
<1>2. q \in ConsoleRequests /\ q # None
  BY <1>1 DEF ConsoleRequestIs, ConsoleRequests, ConsoleConstants
<1>3. ConsoleDocumentIs(d, sessions, granted) /\ d.disabled = tabs[t].disabled \cup {button}
  BY <1>0 DEF ConsoleDocumentIs, ConsoleDocuments
<1>4. q.tab = t /\ q.button = button /\ q.step = "sent"
  OBVIOUS
<1>5. /\ posts[p] = None /\ posts' = [posts EXCEPT ![p] = q] /\ tabs' = [tabs EXCEPT ![t] = d]
      /\ UNCHANGED <<sessions, cookie, granted>>
  BY DEF Console!Click, ConsoleInv
<1> HIDE DEF q, d
<1>6. /\ posts'[p] = q /\ \A r \in Console!Posts : r # p => posts'[r] = posts[r]
      /\ posts' = [r \in Console!Posts |-> posts'[r]]
  BY <1>5 DEF ConsoleInv
<1>7. /\ tabs'[t] = d /\ \A u \in Tabs : u # t => tabs'[u] = tabs[u]
      /\ tabs' = [u \in Tabs |-> tabs'[u]]
  BY <1>5 DEF ConsoleInv
<1>8. \A u \in Tabs : ConsoleDocumentIs(tabs'[u], sessions, granted)
  BY <1>3, <1>7 DEF ConsoleInv
<1>9. \A r \in Console!Posts : posts'[r] # None => ConsoleRequestIs(posts'[r], sessions)
  BY <1>1, <1>6 DEF ConsoleInv
<1>10. ASSUME NEW u \in Tabs, NEW b \in tabs'[u].disabled
       PROVE  \E r \in Console!Posts : Console!Sent(r)' /\ posts'[r].tab = u /\ posts'[r].button = b
  <2>1. CASE u = t /\ b = button
    BY <1>2, <1>4, <1>6, <2>1 DEF Console!Sent
  <2>2. CASE ~(u = t /\ b = button)
    <3>1. b \in tabs[u].disabled
      BY <1>3, <1>7, <1>10, <2>2
    <3>2. PICK r \in Console!Posts : Console!Sent(r) /\ posts[r].tab = u /\ posts[r].button = b
      BY <3>1 DEF ConsoleInv, Console!ButtonsWillAnswer
    <3>3. r # p
      BY <1>5, <3>2 DEF Console!Sent
    <3> QED
      BY <1>6, <3>2, <3>3 DEF Console!Sent
  <2> QED
    BY <2>1, <2>2
<1>11. Console!ButtonsWillAnswer'
  BY <1>10 DEF Console!ButtonsWillAnswer
<1> QED
  BY <1>5, <1>6, <1>7, <1>8, <1>9, <1>11 DEF ConsoleInv

LEMMA ConsoleLogoutKeeps ==
  ASSUME ConsoleConstants, ConsoleInv, NEW p \in Console!Posts, Console!Logout(p)
  PROVE  ConsoleInv'
<1> DEFINE q == [posts[p] EXCEPT !.step = "ok"]
<1>0. Console!Sent(p) /\ posts[p].step = "known" /\ posts[p].button = "logout"
  BY DEF Console!Logout, Console!At
<1>1. ConsoleRequestIs(posts[p], sessions) /\ posts[p] \in ConsoleRequests /\ posts[p].cookie = posts[p].csrf
  BY <1>0, ConsoleAtIs DEF ConsoleRequestIs
<1>2. /\ q \in ConsoleRequests /\ q.tab = posts[p].tab /\ q.button = posts[p].button /\ q.step = "ok"
      /\ q.csrf = posts[p].csrf /\ q.cookie = posts[p].cookie
  BY <1>1 DEF ConsoleRequests
<1>3. q # None
  BY <1>2 DEF ConsoleConstants, ConsoleRequests
<1>4. /\ posts' = [posts EXCEPT ![p] = q] /\ sessions' = [sessions EXCEPT !.valid = @ \ {posts[p].cookie}]
      /\ UNCHANGED <<cookie, tabs, granted>>
  BY DEF Console!Logout, ConsoleInv
<1> HIDE DEF q
<1>5. ConsoleLogins(sessions') /\ sessions'.issued = sessions.issued /\ sessions'.valid \subseteq sessions.valid
      /\ posts[p].cookie \notin sessions'.valid
  BY <1>4 DEF ConsoleInv, ConsoleLogins
<1>6. /\ posts'[p] = q /\ \A r \in Console!Posts : r # p => posts'[r] = posts[r]
      /\ posts' = [r \in Console!Posts |-> posts'[r]]
  BY <1>4 DEF ConsoleInv
<1>7. \A u \in Tabs : ConsoleDocumentIs(tabs[u], sessions', granted)
  BY <1>5 DEF ConsoleInv, ConsoleDocumentIs
<1>8. ConsoleRequestIs(q, sessions')
  BY <1>1, <1>2, <1>5 DEF ConsoleRequestIs
<1>9. \A r \in Console!Posts : posts'[r] # None => ConsoleRequestIs(posts'[r], sessions')
  BY <1>5, <1>6, <1>8 DEF ConsoleInv, ConsoleRequestIs
<1>10. Console!Sent(p)'
  BY <1>2, <1>3, <1>6 DEF Console!Sent
<1>11. \A r \in Console!Posts : Console!Sent(r) => Console!Sent(r)' /\ posts'[r].tab = posts[r].tab /\ posts'[r].button = posts[r].button
  BY <1>2, <1>6, <1>10 DEF Console!Sent
<1>12. Console!ButtonsWillAnswer'
  <2> SUFFICES ASSUME NEW t \in Tabs, NEW button \in tabs[t].disabled
               PROVE  \E r \in Console!Posts : Console!Sent(r)' /\ posts'[r].tab = t /\ posts'[r].button = button
    BY <1>4 DEF Console!ButtonsWillAnswer
  <2>1. PICK r \in Console!Posts : Console!Sent(r) /\ posts[r].tab = t /\ posts[r].button = button
    BY DEF ConsoleInv, Console!ButtonsWillAnswer
  <2> QED
    BY <2>1, <1>11
<1> QED
  BY <1>4, <1>5, <1>6, <1>7, <1>9, <1>12 DEF ConsoleInv

LEMMA ConsoleLoggedOutKeeps ==
  ASSUME ConsoleConstants, ConsoleInv, NEW p \in Console!Posts, Console!LoggedOut(p)
  PROVE  ConsoleInv'
<1>0. Console!Sent(p) /\ posts[p].step = "ok" /\ posts[p].button = "logout" /\ UNCHANGED <<sessions, granted>>
  BY DEF Console!LoggedOut, Console!At
<1>1. ConsoleRequestIs(posts[p], sessions) /\ posts[p] \in ConsoleRequests /\ posts[p].csrf \notin sessions.valid
  BY <1>0, ConsoleAtIs DEF ConsoleRequestIs
<1>2. ConsoleRequestIs(Console!Ended, sessions) /\ Console!Ended # None
  BY ConsoleEndedIs
<1>c. cookie' \in Nat /\ cookie' <= sessions'.issued
  BY <1>0 DEF Console!LoggedOut, ConsoleInv, ConsoleLogins
<1>3. CASE ~Console!Waits(p)
  <2>1. posts' = [posts EXCEPT ![p] = Console!Ended] /\ tabs' = tabs
    BY <1>3 DEF Console!LoggedOut, Console!Over
  <2>2. /\ posts'[p] = Console!Ended /\ \A r \in Console!Posts : r # p => posts'[r] = posts[r]
        /\ posts' = [r \in Console!Posts |-> posts'[r]]
    BY <2>1 DEF ConsoleInv
  <2>3. \A r \in Console!Posts : posts'[r] # None => ConsoleRequestIs(posts'[r], sessions)
    BY <1>2, <2>2 DEF ConsoleInv
  <2>4. Console!ButtonsWillAnswer'
    <3> SUFFICES ASSUME NEW t \in Tabs, NEW button \in tabs'[t].disabled
                 PROVE  \E r \in Console!Posts : Console!Sent(r)' /\ posts'[r].tab = t /\ posts'[r].button = button
      BY DEF Console!ButtonsWillAnswer
    <3>1. PICK r \in Console!Posts : Console!Sent(r) /\ posts[r].tab = t /\ posts[r].button = button
      BY <2>1 DEF ConsoleInv, Console!ButtonsWillAnswer
    <3>2. r # p
      BY <1>3, <3>1 DEF Console!Waits
    <3> QED
      BY <2>2, <3>1, <3>2 DEF Console!Sent
  <2> QED
    BY <1>0, <1>c, <2>1, <2>2, <2>3, <2>4 DEF ConsoleInv
<1>4. CASE Console!Waits(p)
  <2> DEFINE own == posts[p].tab
             d == [Console!Document("login") EXCEPT !.csrf = posts[p].csrf]
  <2>1. own \in Tabs
    BY <1>4 DEF Console!Waits
  <2>2. ConsoleDocumentIs(d, sessions, granted) /\ d.disabled = {}
    BY <1>1
       DEF ConsoleDocumentIs, ConsoleDocuments, Console!Document, ConsoleRequestIs,
           ConsoleRequests
  <2>3. /\ tabs' = [tabs EXCEPT ![own] = d]
        /\ posts' = [q \in Console!Posts |->
                         CASE q = p -> Console!Ended
                           [] q # p /\ Console!Sent(q) /\ posts[q].tab = own ->
                                [posts[q] EXCEPT !.tab = "gone"]
                           [] OTHER -> posts[q]]
    BY <1>4 DEF Console!LoggedOut
  <2> HIDE DEF d, own
  <2>4. /\ tabs' = [t \in Tabs |-> tabs'[t]]
        /\ tabs'[own] = d /\ \A t \in Tabs : t # own => tabs'[t] = tabs[t]
    BY <2>1, <2>3 DEF ConsoleInv
  <2>5. /\ posts' = [q \in Console!Posts |-> posts'[q]] /\ posts'[p] = Console!Ended
        /\ \A q \in Console!Posts : q # p /\ Console!Sent(q) /\ posts[q].tab = own => posts'[q] = [posts[q] EXCEPT !.tab = "gone"]
        /\ \A q \in Console!Posts : q # p /\ ~(Console!Sent(q) /\ posts[q].tab = own) => posts'[q] = posts[q]
    BY <2>3
  <2>6. \A t \in Tabs : ConsoleDocumentIs(tabs'[t], sessions, granted)
    BY <2>2, <2>4 DEF ConsoleInv
  <2>7. ASSUME NEW r \in Console!Posts, posts'[r] # None PROVE ConsoleRequestIs(posts'[r], sessions)
    <3>1. CASE r = p
      BY <1>2, <2>5, <3>1
    <3>2. CASE r # p /\ Console!Sent(r) /\ posts[r].tab = own
      <4>1. ConsoleRequestIs(posts[r], sessions)
        BY <3>2, ConsoleAtIs
      <4> QED
        BY <2>5, <3>2, <4>1 DEF ConsoleRequestIs, ConsoleRequests
    <3>3. CASE r # p /\ ~(Console!Sent(r) /\ posts[r].tab = own)
      BY <2>5, <2>7, <3>3 DEF ConsoleInv
    <3> QED
      BY <3>1, <3>2, <3>3
  <2>8. Console!ButtonsWillAnswer'
    <3> SUFFICES ASSUME NEW t \in Tabs, NEW button \in tabs'[t].disabled
                 PROVE  \E r \in Console!Posts : Console!Sent(r)' /\ posts'[r].tab = t /\ posts'[r].button = button
      BY DEF Console!ButtonsWillAnswer
    <3>1. t # own /\ button \in tabs[t].disabled
      BY <2>2, <2>4
    <3>2. PICK r \in Console!Posts : Console!Sent(r) /\ posts[r].tab = t /\ posts[r].button = button
      BY <3>1 DEF ConsoleInv, Console!ButtonsWillAnswer
    <3>3. r # p /\ posts'[r] = posts[r]
      BY <2>5, <3>1, <3>2 DEF own
    <3> QED
      BY <3>2, <3>3 DEF Console!Sent
  <2> QED
    BY <1>0, <1>c, <2>4, <2>5, <2>6, <2>7, <2>8 DEF ConsoleInv
<1> QED
  BY <1>3, <1>4

LEMMA ConsoleLoseKeeps ==
  ASSUME ConsoleConstants, ConsoleInv, NEW p \in Console!Posts, Console!Lose(p)
  PROVE  ConsoleInv'
<1>0. Console!Sent(p) /\ Console!Waits(p) /\ tabs' = Console!Enabled(p) /\ UNCHANGED <<sessions, cookie, granted>>
  BY DEF Console!Lose
<1>1. CASE posts[p].step \in {"ok", "refused"}
  BY <1>0, <1>1, ConsoleEndedIs, ConsoleAnswerKeeps DEF Console!Lose, Console!Over
<1>2. CASE posts[p].step \notin {"ok", "refused"}
  <2> DEFINE q == [posts[p] EXCEPT !.tab = "gone"]
  <2>1. posts' = [posts EXCEPT ![p] = q]
    BY <1>2 DEF Console!Lose, ConsoleInv
  <2>2. ConsoleRequestIs(posts[p], sessions)
    BY <1>0, ConsoleAtIs
  <2>3. ConsoleRequestIs(q, sessions) /\ q \in ConsoleRequests
    BY <2>2 DEF ConsoleRequestIs, ConsoleRequests
  <2>4. q # None
    BY <2>3 DEF ConsoleConstants, ConsoleRequests
  <2> HIDE DEF q
  <2> QED
    BY <1>0, <2>1, <2>3, <2>4, ConsoleAnswerKeeps
<1> QED
  BY <1>1, <1>2

LEMMA ConsoleRequestSteps ==
  ASSUME ConsoleConstants, ConsoleInv, NEW p \in Console!Posts,
         \/ Console!AuthenticateMutation(p) \/ Console!Refuse(p) \/ Console!Adjust(p) \/ Console!GenerateCode(p) \/ Console!Answer(p)
  PROVE  ConsoleInv'
<1>0. ConsoleGranted(granted)
  BY DEF ConsoleInv
<1>1. CASE Console!AuthenticateMutation(p)
  <2> DEFINE q == [posts[p] EXCEPT !.step = "known"]
  <2>1. /\ posts' = [posts EXCEPT ![p] = q] /\ Console!Sent(p) /\ posts[p].csrf = posts[p].cookie
        /\ UNCHANGED <<sessions, cookie, tabs, granted>>
    BY <1>1 DEF Console!AuthenticateMutation, Console!At, ConsoleInv
  <2>2. ConsoleRequestIs(posts[p], sessions)
    BY <2>1, ConsoleAtIs
  <2>3. /\ ConsoleRequestIs(q, sessions) /\ q \in ConsoleRequests /\ q.step # "over" /\ q.tab = posts[p].tab
        /\ q.button = posts[p].button
    BY <2>1, <2>2 DEF ConsoleRequestIs, ConsoleRequests
  <2>4. q # None
    BY <2>3 DEF ConsoleConstants, ConsoleRequests
  <2>5. ConsoleGranted(granted') /\ granted'.audit >= granted.audit
    BY <1>0, <2>1 DEF ConsoleGranted
  <2> HIDE DEF q
  <2> QED
    BY <2>1, <2>3, <2>4, <2>5, ConsoleRequestKeeps
<1>2. CASE Console!Refuse(p)
  <2>1. ConsoleGranted(granted') /\ granted'.audit >= granted.audit
    BY <1>0, <1>2 DEF ConsoleGranted, Console!Refuse
  <2> QED
    BY <1>2, <2>1, ConsoleHandledIs DEF Console!Refuse, Console!At
<1>3. CASE Console!Adjust(p)
  <2>1. ConsoleGranted(granted') /\ granted'.audit >= granted.audit
    BY <1>0, <1>3 DEF ConsoleGranted, Console!Adjust
  <2> QED
    BY <1>3, <2>1, ConsoleHandledIs DEF Console!Adjust, Console!At
<1>4. CASE Console!GenerateCode(p)
  <2>1. ConsoleGranted(granted') /\ granted'.audit >= granted.audit
    BY <1>0, <1>4 DEF ConsoleGranted, Console!GenerateCode
  <2> QED
    BY <1>4, <2>1, ConsoleHandledIs DEF Console!GenerateCode, Console!At
<1>5. CASE Console!Answer(p)
  BY <1>5, ConsoleEndedIs, ConsoleAnswerKeeps DEF Console!Answer, Console!At, Console!Over
<1> QED
  BY <1>1, <1>2, <1>3, <1>4, <1>5

LEMMA ConsoleSteps == ConsoleConstants /\ ConsoleInv /\ (Console!Next \/ UNCHANGED Console!vars) => ConsoleInv'
<1> SUFFICES ASSUME ConsoleConstants, ConsoleInv, Console!Next \/ UNCHANGED Console!vars PROVE ConsoleInv'
  OBVIOUS
<1>1. CASE UNCHANGED Console!vars
  BY <1>1 DEF Console!vars, ConsoleInv, Console!ButtonsWillAnswer, Console!Sent
<1>2. ASSUME NEW t \in Tabs, Console!Visit(t) \/ Console!ReadEntitlements(t) \/ Console!ReadAdjustments(t) \/ Console!Verify(t)
      PROVE  ConsoleInv'
  BY <1>2, ConsoleTabSteps
<1>3. ASSUME NEW t \in Tabs, NEW p \in Console!Posts, NEW button \in Console!Buttons, Console!Click(t, p, button) PROVE ConsoleInv'
  BY <1>3, ConsoleClickKeeps
<1>4. ASSUME NEW login \in 1..MaxLogins, Console!Expire(login) PROVE ConsoleInv'
  BY <1>4, ConsoleRevokedKeeps DEF Console!Expire
<1>5. ASSUME NEW p \in Console!Posts,
             \/ Console!AuthenticateMutation(p) \/ Console!Refuse(p) \/ Console!Adjust(p) \/ Console!GenerateCode(p) \/ Console!Answer(p)
      PROVE  ConsoleInv'
  BY <1>5, ConsoleRequestSteps
<1>6. ASSUME NEW p \in Console!Posts, Console!Logout(p) \/ Console!LoggedOut(p) \/ Console!Lose(p) PROVE ConsoleInv'
  BY <1>6, ConsoleLogoutKeeps, ConsoleLoggedOutKeeps, ConsoleLoseKeeps
<1> QED
  BY <1>1, <1>2, <1>3, <1>4, <1>5, <1>6 DEF Console!Next

LEMMA ConsoleHolds == ConsoleInv => Console!CreditsAreExplained /\ Console!LoggedOutIsRevoked /\ Console!ButtonsWillAnswer
<1> SUFFICES ASSUME ConsoleInv PROVE Console!CreditsAreExplained /\ Console!LoggedOutIsRevoked
  BY DEF ConsoleInv
<1>1. Console!CreditsAreExplained
  BY DEF ConsoleInv, ConsoleDocumentIs, Console!CreditsAreExplained
<1>2. Console!LoggedOutIsRevoked
  BY ConsoleAtIs
     DEF ConsoleInv, ConsoleDocumentIs, ConsoleRequestIs, Console!LoggedOutIsRevoked, Console!At
<1> QED
  BY <1>1, <1>2

-----------------------------------------------------------------------------
(* The process of the server (ServerLife).                                  *)

\* No exit code is not one.
ProcessConstants == None # "0"

ProcessTypes ==
  /\ ready \in [schema : BOOLEAN, startup : BOOLEAN, draining : BOOLEAN]
  /\ probe \in [step : {"none", "ping", "ready", "not_ready"}, drained : BOOLEAN]
  /\ serving \in Nat
  /\ closing \in {"none", "fastify", "database", "done", "failed"}

\* What main() has done when it is so far, and what it has not.
ProcessFar ==
  /\ phase \in {"parse", "connect", "build", "verify", "ping", "listen", "started"} => exit = None
  /\ phase \in {"parse", "connect", "build", "verify", "ping", "listen"} =>
       /\ closing = "none" /\ ~ready.draining /\ fastify = "built"
  /\ phase \in {"build", "verify", "ping", "listen"} => database = "open"
  /\ phase \in {"ping", "listen", "started"} => ready.schema
  /\ phase \in {"listen", "started"} => ready.startup
  /\ phase # "started" => serving = 0 /\ probe.step # "ping"

\* What is closed in which order.
ProcessEnding ==
  /\ closing = "none" => fastify \in {"built", "listening"}
  /\ closing = "fastify" => fastify = "closing"
  /\ closing \in {"database", "done", "failed"} => fastify = "closed" 
  /\ closing = "done" => database = "closed"
  /\ phase = "started" /\ closing = "none" => fastify = "listening" /\ ~ready.draining
  /\ phase = "started" /\ closing # "none" => deadline /\ ready.draining
  /\ phase = "started" /\ closing \in {"none", "fastify"} => database = "open"
  /\ phase = "started" /\ closing \in {"database", "done", "failed"} => serving = 0 /\ probe.step # "ping"
  /\ fastify = "listening" => phase = "started" /\ closing = "none"
  /\ closing # "none" => ready.draining
  /\ deadline => closing # "none"

\* An answer that the server is ready was given when it was, and the exit code 0 when all
\* was closed.
ProcessAnswered ==
  /\ probe.step \in {"ping", "ready"} => ready.startup /\ ~probe.drained
  /\ exit = "0" => phase = "over" /\ closing = "done" /\ ready.draining

ProcessInv == ProcessTypes /\ ProcessFar /\ ProcessEnding /\ ProcessAnswered /\ Process!AcceptedIsServable

LEMMA ProcessStarts == ProcessConstants /\ Process!Init => ProcessInv
<1> SUFFICES ASSUME ProcessConstants, Process!Init PROVE ProcessInv
  OBVIOUS
<1>1. ProcessTypes
  BY DEF Process!Init, ProcessTypes
<1>2. ProcessFar /\ ProcessEnding /\ ProcessAnswered
  BY DEF ProcessConstants, Process!Init, ProcessFar, ProcessEnding, ProcessAnswered
<1>3. Process!AcceptedIsServable
  BY DEF Process!Init, Process!AcceptedIsServable
<1> QED
  BY <1>1, <1>2, <1>3 DEF ProcessInv

\* What is accepted codes can be sent with.
LEMMA ProcessParses ==
  ASSUME NEW env \in Process!Environment, Process!ParseRuntimeConfig(env), Process!AcceptedIsServable
  PROVE  Process!AcceptedIsServable'
<1>1. CASE Process!Valid(env) /\ runtime' = Process!Parsed(env)
  <2> DEFINE r == Process!Parsed(env)
  <2>1. /\ r.production = env.production /\ r.secret = (env.secret # "none")
        /\ r.smtp = (env.smtp = "all") /\ r.console = env.console /\ r.pay = env.pay
        /\ env.pay => r.wechat = IF Process!Insecure(env) THEN "insecure" ELSE "verified"
        /\ ~env.pay => r.wechat = "none"
    BY DEF Process!Parsed
  <2>2. env.smtp # "all" => env.console /\ ~env.production
    BY <1>1 DEF Process!Valid, Process!SmtpIssues
  <2>3. env.production => env.secret = "full" /\ ~env.console /\ env.smtp = "all" /\ ~Process!Insecure(env)
    BY <1>1 DEF Process!Valid, Process!SmtpIssues, Process!ProductionIssues, Process!Insecure
  <2>4. env.production \in BOOLEAN /\ env.console \in BOOLEAN /\ env.pay \in BOOLEAN
    BY DEF Process!Environment
  <2> HIDE DEF r
  <2>5. runtime' = r
    BY <1>1 DEF r
  <2> QED
    BY <2>1, <2>2, <2>3, <2>4, <2>5 DEF Process!AcceptedIsServable, Process!SendsCodes
<1>2. CASE UNCHANGED runtime
  BY <1>2 DEF Process!AcceptedIsServable, Process!SendsCodes
<1> QED
  BY <1>1, <1>2 DEF Process!ParseRuntimeConfig

LEMMA ProcessSteps == ProcessInv /\ (Process!Next \/ UNCHANGED Process!vars) => ProcessInv'
<1> SUFFICES ASSUME ProcessInv, Process!Next \/ UNCHANGED Process!vars PROVE ProcessInv'
  OBVIOUS
<1>0. /\ ready = [schema |-> ready.schema, startup |-> ready.startup, draining |-> ready.draining]
      /\ ready.schema \in BOOLEAN /\ ready.startup \in BOOLEAN /\ ready.draining \in BOOLEAN
      /\ serving \in Nat
  BY DEF ProcessInv, ProcessTypes
<1> USE DEF ProcessInv, ProcessTypes, ProcessFar, ProcessEnding, ProcessAnswered
<1>r. UNCHANGED runtime => Process!AcceptedIsServable'
  BY DEF Process!AcceptedIsServable, Process!SendsCodes
<1>1. CASE UNCHANGED Process!vars
  BY <1>1, <1>r DEF Process!vars
<1>2. ASSUME NEW env \in Process!Environment, Process!ParseRuntimeConfig(env) PROVE ProcessInv'
  <2>1. Process!AcceptedIsServable'
    BY <1>2, ProcessParses
  <2> QED
    BY <1>0, <1>2, <2>1 DEF Process!ParseRuntimeConfig
<1>3. CASE Process!CreatePrismaClient
  BY <1>0, <1>3, <1>r DEF Process!CreatePrismaClient
<1>4. CASE Process!BuildServer
  BY <1>0, <1>4, <1>r DEF Process!BuildServer
<1>5. CASE Process!VerifySchema
  BY <1>0, <1>5, <1>r DEF Process!VerifySchema, Process!Checked
<1>6. CASE Process!Ping
  BY <1>0, <1>6, <1>r DEF Process!Ping, Process!Checked
<1>7. CASE Process!Listen
  BY <1>0, <1>7, <1>r DEF Process!Listen
<1>8. CASE Process!StartFails
  BY <1>0, <1>8, <1>r DEF Process!StartFails
<1>9. CASE Process!StartFailed
  BY <1>0, <1>9, <1>r DEF Process!StartFailed
<1>10. CASE Process!MainFails
  BY <1>0, <1>10, <1>r DEF Process!MainFails
<1>11. CASE Process!Serve
  BY <1>0, <1>11, <1>r DEF Process!Serve
<1>12. CASE Process!Served
  BY <1>0, <1>12, <1>r DEF Process!Served
<1>13. CASE Process!AskReady
  BY <1>0, <1>13, <1>r DEF Process!AskReady
<1>14. ASSUME NEW step \in {"ready", "not_ready"}, Process!AnswerReady(step) PROVE ProcessInv'
  BY <1>0, <1>14, <1>r DEF Process!AnswerReady
<1>15. CASE Process!Kill
  BY <1>0, <1>15, <1>r DEF Process!Kill
<1>16. CASE Process!Signal
  BY <1>0, <1>16, <1>r DEF Process!Signal
<1>17. CASE Process!CloseApp
  BY <1>0, <1>17, <1>r DEF Process!CloseApp, Process!Idle
<1>18. CASE Process!Disconnect
  BY <1>0, <1>18, <1>r DEF Process!Disconnect
<1>19. CASE Process!Closed
  BY <1>0, <1>19, <1>r DEF Process!Closed, Process!Settle
<1>20. CASE Process!TimedOut
  BY <1>0, <1>20, <1>r DEF Process!TimedOut, Process!Settle
<1> QED
  BY <1>1, <1>2, <1>3, <1>4, <1>5, <1>6, <1>7, <1>8, <1>9, <1>10, <1>11, <1>12, <1>13, <1>14,
     <1>15, <1>16, <1>17, <1>18, <1>19, <1>20 DEF Process!Next

LEMMA ProcessHolds == ProcessInv => Process!AcceptedIsServable /\ Process!RequestsHaveDatabase /\ Process!ShutdownWillEnd
<1> SUFFICES ASSUME ProcessInv PROVE Process!RequestsHaveDatabase /\ Process!ShutdownWillEnd
  BY DEF ProcessInv
<1>1. Process!RequestsHaveDatabase
  BY DEF ProcessInv, ProcessTypes, ProcessFar, ProcessEnding, ProcessAnswered,
         Process!RequestsHaveDatabase, Process!Idle
<1>2. Process!ShutdownWillEnd
  BY DEF ProcessInv, ProcessTypes, ProcessFar, ProcessEnding, Process!ShutdownWillEnd
<1> QED
  BY <1>1, <1>2

-----------------------------------------------------------------------------
(* The import of a web page (WebPageVisit).                                 *)

\* What the constants are: nothing is an operation, a directory or an answer.
VisitsSpaces == [files : SUBSET Visits!Controls, members : SUBSET Visits!Roles, boot : 1..MaxBoots,
           valid : BOOLEAN, going : BOOLEAN]
VisitsClaims == [op : Ops, claimed : BOOLEAN, cancelled : BOOLEAN]
VisitsAnswered == {"saved", "cancelled", "timeout", "failed", "storage", "nothing"}

VisitsConstants ==
  /\ MaxBoots \in Nat \ {0} /\ MaxCrashes \in Nat
  /\ None \notin Ops /\ None \notin VisitsSpaces /\ None \notin VisitsClaims /\ None \notin VisitsAnswered

VisitsLocations == {"idle", "queued", "mkdir", "owner", "processes", "launch", "helper", "host",
              "stop", "save", "spawn", "record", "work", "decide", "clean", "remove"}

VisitsVisiting == [pc : VisitsLocations, op : Ops \cup {None}, outcome : Visits!Outcomes \cup {None},
             late : BOOLEAN]

VisitsDesktops == [up : BOOLEAN, closing : BOOLEAN, paused : BOOLEAN, boot : 1..MaxBoots,
             crashes : 0..MaxCrashes, recovery : {"none", "busy", "ok", "failed"}]

VisitsTypes ==
  /\ claim \in VisitsClaims \cup {None}
  /\ visit \in VisitsVisiting
  /\ spaces \in [Ops -> VisitsSpaces \cup {None}] /\ procs \in [Ops -> SUBSET Visits!Roles]
  /\ told \in [Ops -> VisitsAnswered \cup {None}]
  /\ app \in VisitsDesktops

\* The claim is that of the operation that runs, and there is none when the desktop is down.
VisitsClaimOfVisit ==
  /\ IF visit.pc = "idle" THEN visit.op = None /\ ~Visits!Claimed
     ELSE Visits!Claimed /\ visit.op # None /\ claim.op = visit.op
  /\ claim # None /\ ~claim.claimed => told[claim.op] = None
  /\ ~app.up => claim = None

\* An operation that has not been answered and does not run has not begun.
VisitsNotBegun ==
  /\ \A o \in Ops : told[o] = None /\ visit.op # o => spaces[o] = None /\ procs[o] = {}
  /\ visit.pc \in {"queued", "mkdir"} => spaces[visit.op] = None
  /\ visit.pc \in {"queued", "mkdir", "owner", "processes", "launch"} => procs[visit.op] = {}

\* The directory of the operation that runs is there, and is this desktop's.
VisitsWithin ==
  /\ visit.pc \notin {"idle", "queued", "mkdir"} =>
       spaces[visit.op] # None /\ spaces[visit.op].boot = app.boot
  /\ \A o \in Ops : spaces[o] # None => spaces[o].boot <= app.boot

\* What is removed has no processes and gets none.
VisitsRemoval ==
  \A o \in Ops : spaces[o] # None /\ spaces[o].going =>
    procs[o] = {} /\ (visit.op = o => visit.pc = "remove")

\* What this desktop has left running it knows of; what others have left, its recovery.
VisitsLeft ==
  \A o \in Ops : procs[o] # {} =>
    /\ spaces[o] # None
    /\ app.up /\ visit.op # o =>
         app.paused \/ (app.recovery # "ok" /\ spaces[o].boot # app.boot)

VisitsInv == VisitsTypes /\ VisitsClaimOfVisit /\ VisitsNotBegun /\ VisitsWithin /\ VisitsRemoval /\ VisitsLeft


-----------------------------------------------------------------------------
LEMMA VisitsStarts == VisitsConstants /\ Visits!Init => VisitsInv
<1> SUFFICES ASSUME VisitsConstants, Visits!Init PROVE VisitsInv
  OBVIOUS
<1>1. /\ visit = Visits!Idle /\ claim = None /\ app.up = TRUE /\ app.boot = 1
      /\ \A o \in Ops : spaces[o] = None /\ procs[o] = {} /\ told[o] = None
  BY DEF Visits!Init
<1>2. VisitsTypes
  <2>1. app \in VisitsDesktops
    BY DEF Visits!Init, VisitsConstants, VisitsDesktops
  <2>2. visit \in VisitsVisiting
    BY DEF Visits!Init, Visits!Idle, VisitsLocations, VisitsVisiting
  <2> QED
    BY <2>1, <2>2 DEF Visits!Init, VisitsTypes, VisitsVisiting, VisitsDesktops
<1> QED
  BY <1>1, <1>2
     DEF VisitsInv, VisitsClaimOfVisit, Visits!Claimed, VisitsNotBegun, VisitsWithin,
         VisitsRemoval, VisitsLeft, Visits!Idle

\* What the claim says of the operation that runs.
LEMMA VisitsRunning ==
  ASSUME VisitsConstants, VisitsInv, visit.pc # "idle"
  PROVE  /\ visit.op \in Ops /\ claim # None /\ claim.claimed /\ claim.op = visit.op /\ app.up
         /\ claim \in VisitsClaims
BY DEF VisitsConstants, VisitsInv, VisitsTypes, VisitsVisiting, VisitsDesktops,
       VisitsClaimOfVisit, Visits!Claimed

\* The operation goes on, in its directory.
LEMMA VisitsMoves ==
  ASSUME VisitsConstants, VisitsInv, visit.pc # "idle",
         visit' \in VisitsVisiting,
         visit'.op = visit.op, visit'.pc \notin {"idle", "queued", "mkdir"},
         UNCHANGED <<claim, told, app>>,
         spaces' \in [Ops -> VisitsSpaces \cup {None}], procs' \in [Ops -> SUBSET Visits!Roles],
         \A o \in Ops : o # visit.op => spaces'[o] = spaces[o] /\ procs'[o] = procs[o],
         spaces'[visit.op] # None, spaces'[visit.op].boot = app.boot,
         visit'.pc \in {"owner", "processes", "launch"} => procs'[visit.op] = {},
         spaces'[visit.op].going => procs'[visit.op] = {} /\ visit'.pc = "remove"
  PROVE  VisitsInv'
<1>1. visit.op \in Ops /\ claim # None /\ claim.claimed /\ claim.op = visit.op /\ app.up
  BY VisitsRunning
<1>2. VisitsTypes'
  BY DEF VisitsInv, VisitsTypes, VisitsVisiting, VisitsDesktops
<1>3. VisitsClaimOfVisit'
  BY <1>1 DEF VisitsClaimOfVisit, Visits!Claimed, VisitsConstants
<1>4. VisitsNotBegun'
  BY <1>1 DEF VisitsInv, VisitsNotBegun
<1>5. VisitsWithin'
  <2>1. app.boot \in Nat
    BY DEF VisitsInv, VisitsTypes, VisitsVisiting, VisitsDesktops
  <2> QED
    BY <1>1, <2>1 DEF VisitsInv, VisitsWithin
<1>6. VisitsRemoval' /\ VisitsLeft'
  BY <1>1 DEF VisitsInv, VisitsRemoval, VisitsLeft
<1> QED
  BY <1>2, <1>3, <1>4, <1>5, <1>6 DEF VisitsInv

\* The operation ends with an answer.
LEMMA VisitsReturns ==
  ASSUME VisitsConstants, VisitsInv, visit.pc # "idle", NEW answer \in VisitsAnswered \cup {None}, Visits!Return(answer),
         app' \in VisitsDesktops,
         app'.up = app.up, app'.boot = app.boot, app'.recovery = app.recovery,
         app.paused => app'.paused,
         spaces' \in [Ops -> VisitsSpaces \cup {None}], UNCHANGED procs,
         \A o \in Ops : o # visit.op => spaces'[o] = spaces[o],
         spaces'[visit.op] # None => spaces'[visit.op].boot <= app.boot
                                     /\ ~spaces'[visit.op].going,
         procs[visit.op] # {} => spaces'[visit.op] # None /\ app'.paused,
         answer = None => spaces'[visit.op] = None /\ procs[visit.op] = {}
  PROVE  VisitsInv'
<1>1. visit.op \in Ops /\ app.up
  BY VisitsRunning
<1>2. claim' = None /\ visit' = Visits!Idle /\ told' = [told EXCEPT ![visit.op] = answer]
  BY DEF Visits!Return
<1>3. VisitsTypes'
  BY <1>1, <1>2
     DEF VisitsInv, VisitsTypes, VisitsVisiting, VisitsDesktops, Visits!Idle, VisitsLocations
<1>4. VisitsClaimOfVisit'
  BY <1>2 DEF VisitsClaimOfVisit, Visits!Claimed, Visits!Idle
<1>5. VisitsNotBegun'
  BY <1>1, <1>2
     DEF VisitsInv, VisitsNotBegun, VisitsTypes, VisitsVisiting, VisitsDesktops, Visits!Idle
<1>6. VisitsWithin'
  BY <1>1, <1>2 DEF VisitsInv, VisitsWithin, Visits!Idle
<1>7. VisitsRemoval'
  BY <1>1, <1>2 DEF VisitsInv, VisitsRemoval, Visits!Idle, VisitsConstants
<1>8. VisitsLeft'
  BY <1>1, <1>2 DEF VisitsInv, VisitsLeft, Visits!Idle
<1> QED
  BY <1>3, <1>4, <1>5, <1>6, <1>7, <1>8 DEF VisitsInv

\* Processes end, and files are removed where they have; what runs stays as it is.
LEMMA VisitsEnds ==
  ASSUME VisitsConstants, VisitsInv, UNCHANGED <<claim, visit, told, app>>,
         spaces' \in [Ops -> VisitsSpaces \cup {None}], procs' \in [Ops -> SUBSET Visits!Roles],
         \A o \in Ops :
           /\ procs'[o] \subseteq procs[o]
           /\ spaces'[o] # None =>
                /\ spaces[o] # None /\ spaces'[o].boot = spaces[o].boot
                /\ spaces'[o].going /\ ~spaces[o].going => procs[o] = {} /\ visit.op # o
           /\ spaces[o] # None /\ spaces'[o] = None => procs[o] = {} /\ visit.op # o
  PROVE  VisitsInv'
<1>1. visit.pc # "idle" => visit.op \in Ops
  BY VisitsRunning
<1>2. VisitsTypes'
  BY DEF VisitsInv, VisitsTypes, VisitsVisiting, VisitsDesktops
<1>3. VisitsClaimOfVisit'
  BY DEF VisitsInv, VisitsClaimOfVisit, Visits!Claimed
<1>4. VisitsNotBegun'
  BY <1>1 DEF VisitsInv, VisitsNotBegun
<1>5. VisitsWithin'
  BY <1>1 DEF VisitsInv, VisitsWithin
<1>6. VisitsRemoval'
  BY <1>1 DEF VisitsInv, VisitsRemoval
<1>7. VisitsLeft'
  BY <1>1 DEF VisitsInv, VisitsLeft
<1> QED
  BY <1>2, <1>3, <1>4, <1>5, <1>6, <1>7 DEF VisitsInv


-----------------------------------------------------------------------------
LEMMA VisitsRegisterKeeps ==
  ASSUME VisitsConstants, VisitsInv, NEW o \in Ops, Visits!Register(o)
  PROVE  VisitsInv'
<1>1. /\ app.up /\ ~Visits!Claimed /\ told[o] = None /\ UNCHANGED <<visit, spaces, procs, told, app>>
      /\ claim' = [op |-> o, claimed |-> FALSE, cancelled |-> FALSE]
  BY DEF Visits!Register
<1>2. claim' \in VisitsClaims /\ claim'.op = o /\ ~claim'.claimed
  BY <1>1 DEF VisitsClaims
<1>3. visit.pc = "idle" /\ visit.op = None
  BY <1>1 DEF VisitsInv, VisitsClaimOfVisit
<1> QED
  BY <1>1, <1>2, <1>3
     DEF VisitsInv, VisitsTypes, VisitsVisiting, VisitsDesktops, VisitsClaimOfVisit,
         Visits!Claimed, VisitsNotBegun, VisitsWithin, VisitsRemoval, VisitsLeft

LEMMA VisitsAdoptKeeps == ASSUME VisitsConstants, VisitsInv, Visits!Adopt PROVE VisitsInv'
<1>1. /\ claim # None /\ ~claim.claimed /\ UNCHANGED <<spaces, procs, told, app>>
      /\ claim' = [claim EXCEPT !.claimed = TRUE]
      /\ visit' = [Visits!Idle EXCEPT !.pc = "queued", !.op = claim.op]
  BY DEF Visits!Adopt, Visits!Claimed
<1>2. visit.pc = "idle" /\ visit.op = None /\ claim \in VisitsClaims /\ claim.op \in Ops
      /\ told[claim.op] = None
  BY <1>1
     DEF VisitsInv, VisitsClaimOfVisit, Visits!Claimed, VisitsTypes, VisitsVisiting,
         VisitsDesktops, VisitsClaims
<1>3. claim' \in VisitsClaims /\ claim'.claimed /\ claim'.op = claim.op /\ claim' # None
  BY <1>1, <1>2 DEF VisitsClaims, VisitsConstants
<1>4. /\ visit'.pc = "queued" /\ visit'.op = claim.op
      /\ visit' \in VisitsVisiting
  BY <1>1, <1>2 DEF Visits!Idle, VisitsLocations, VisitsVisiting
<1>5. spaces[claim.op] = None /\ procs[claim.op] = {}
  BY <1>2 DEF VisitsInv, VisitsNotBegun, VisitsConstants
<1>6. VisitsTypes'
  BY <1>1, <1>3, <1>4 DEF VisitsInv, VisitsTypes, VisitsVisiting, VisitsDesktops
<1>7. VisitsClaimOfVisit'
  BY <1>1, <1>2, <1>3, <1>4 DEF VisitsInv, VisitsClaimOfVisit, Visits!Claimed, VisitsConstants
<1>8. VisitsNotBegun'
  BY <1>1, <1>2, <1>4, <1>5 DEF VisitsInv, VisitsNotBegun, VisitsConstants
<1>9. VisitsWithin' /\ VisitsRemoval' /\ VisitsLeft'
  BY <1>1, <1>2, <1>4, <1>5
     DEF VisitsInv, VisitsWithin, VisitsRemoval, VisitsLeft, VisitsConstants
<1> QED
  BY <1>6, <1>7, <1>8, <1>9 DEF VisitsInv

\* The claim is cancelled or withdrawn.
LEMMA VisitsWithdraws ==
  ASSUME VisitsConstants, VisitsInv, claim' = Visits!Withdrawn, UNCHANGED <<visit, spaces, procs, told>>,
         app' \in VisitsDesktops,
         app'.up = app.up, app'.boot = app.boot, app'.recovery = app.recovery,
         app'.paused = app.paused
  PROVE  VisitsInv'
<1>1. \/ claim' = None /\ ~Visits!Claimed
      \/ /\ claim' \in VisitsClaims /\ claim' # None /\ claim'.op = claim.op /\ claim'.claimed
         /\ Visits!Claimed
  BY DEF Visits!Withdrawn, Visits!Claimed, VisitsInv, VisitsTypes, VisitsVisiting,
         VisitsDesktops, VisitsClaims, VisitsConstants
<1>2. VisitsTypes' /\ VisitsNotBegun' /\ VisitsWithin' /\ VisitsRemoval' /\ VisitsLeft'
  BY <1>1
     DEF VisitsInv, VisitsTypes, VisitsVisiting, VisitsDesktops, VisitsNotBegun, VisitsWithin,
         VisitsRemoval, VisitsLeft
<1>3. VisitsClaimOfVisit'
  BY <1>1 DEF VisitsInv, VisitsClaimOfVisit, Visits!Claimed
<1> QED
  BY <1>2, <1>3 DEF VisitsInv

LEMMA VisitsCancelKeeps == ASSUME VisitsConstants, VisitsInv, Visits!Cancel PROVE VisitsInv'
BY VisitsWithdraws DEF Visits!Cancel, VisitsInv, VisitsTypes, VisitsVisiting, VisitsDesktops

LEMMA VisitsCloseKeeps == ASSUME VisitsConstants, VisitsInv, Visits!Close PROVE VisitsInv'
<1>1. /\ app' = [app EXCEPT !.closing = TRUE] /\ claim' = Visits!Withdrawn
      /\ UNCHANGED <<visit, spaces, procs, told>>
  BY DEF Visits!Close
<1>2. /\ app' \in VisitsDesktops
      /\ app'.up = app.up /\ app'.boot = app.boot /\ app'.recovery = app.recovery
      /\ app'.paused = app.paused
  BY <1>1 DEF VisitsInv, VisitsTypes, VisitsVisiting, VisitsDesktops
<1> QED
  BY <1>1, <1>2, VisitsWithdraws

\* Between the claim and the directory only the location and the deadline change.
LEMMA VisitsPrepares ==
  ASSUME VisitsConstants, VisitsInv, visit.pc \in {"queued", "mkdir"}, visit'.pc = "mkdir",
         visit' \in VisitsVisiting,
         visit'.op = visit.op, UNCHANGED <<claim, spaces, procs, told, app>>
  PROVE  VisitsInv'
BY VisitsRunning
   DEF VisitsInv, VisitsTypes, VisitsVisiting, VisitsDesktops, VisitsClaimOfVisit,
       Visits!Claimed, VisitsNotBegun, VisitsWithin, VisitsRemoval, VisitsLeft

\* The types of what the steps of an operation assign.
LEMMA VisitsVisitTypes ==
  ASSUME VisitsConstants, VisitsInv, visit.pc # "idle", NEW pc \in VisitsLocations,
         NEW result \in Visits!Outcomes \cup {None},
         visit' = [visit EXCEPT !.pc = pc] \/ visit' = [visit EXCEPT !.pc = pc, !.outcome = result]
  PROVE  visit' \in VisitsVisiting /\ visit'.pc = pc /\ visit'.op = visit.op
BY DEF VisitsInv, VisitsTypes, VisitsVisiting, VisitsDesktops, VisitsVisiting

LEMMA VisitsKeptTypes ==
  ASSUME VisitsConstants, VisitsInv, visit.pc # "idle", NEW w \in VisitsSpaces,
         spaces' = [spaces EXCEPT ![visit.op] = w]
  PROVE  /\ spaces' \in [Ops -> VisitsSpaces \cup {None}] /\ spaces'[visit.op] = w /\ w # None
         /\ \A o \in Ops : o # visit.op => spaces'[o] = spaces[o]
BY VisitsRunning DEF VisitsInv, VisitsTypes, VisitsVisiting, VisitsDesktops, VisitsConstants

LEMMA VisitsAliveTypes ==
  ASSUME VisitsConstants, VisitsInv, visit.pc # "idle", NEW ps \in SUBSET Visits!Roles,
         procs' = [procs EXCEPT ![visit.op] = ps]
  PROVE  /\ procs' \in [Ops -> SUBSET Visits!Roles] /\ procs'[visit.op] = ps
         /\ \A o \in Ops : o # visit.op => procs'[o] = procs[o]
BY VisitsRunning DEF VisitsInv, VisitsTypes, VisitsVisiting, VisitsDesktops

\* The directory of the operation, and that nothing of it is removed yet.
LEMMA VisitsDirectoryTypes ==
  ASSUME VisitsConstants, VisitsInv, visit.pc \notin {"idle", "queued", "mkdir"}
  PROVE  /\ Visits!Mine \in VisitsSpaces /\ Visits!Mine # None /\ Visits!Mine.boot = app.boot
         /\ visit.pc # "remove" => ~Visits!Mine.going
         /\ \A fs \in SUBSET Visits!Controls :
              LET w == [Visits!Mine EXCEPT !.files = fs] IN
              w \in VisitsSpaces /\ w.boot = Visits!Mine.boot /\ w.going = Visits!Mine.going
         /\ \A ms \in SUBSET Visits!Roles :
              LET w == [Visits!Mine EXCEPT !.members = ms] IN
              w \in VisitsSpaces /\ w.boot = Visits!Mine.boot /\ w.going = Visits!Mine.going
         /\ Visits!Mine.files \in SUBSET Visits!Controls /\ Visits!Mine.members \in SUBSET Visits!Roles
<1>1. visit.op \in Ops
  BY VisitsRunning
<1>2. Visits!Mine \in VisitsSpaces /\ Visits!Mine # None /\ Visits!Mine.boot = app.boot
  BY <1>1 DEF VisitsInv, VisitsTypes, VisitsVisiting, VisitsDesktops, VisitsWithin, Visits!Mine
<1>3. visit.pc # "remove" => ~Visits!Mine.going
  BY <1>1, <1>2 DEF VisitsInv, VisitsRemoval, Visits!Mine
<1> QED
  BY <1>2, <1>3 DEF VisitsSpaces


-----------------------------------------------------------------------------
LEMMA VisitsExpireKeeps == ASSUME VisitsConstants, VisitsInv, Visits!Expire PROVE VisitsInv'
<1>1. /\ visit.pc \notin {"idle", "queued"} /\ visit' = [visit EXCEPT !.late = TRUE]
      /\ UNCHANGED <<claim, spaces, procs, told, app>>
  BY DEF Visits!Expire
<1>2. /\ visit' \in VisitsVisiting
      /\ visit'.pc = visit.pc /\ visit'.op = visit.op
  BY <1>1 DEF VisitsInv, VisitsTypes, VisitsVisiting, VisitsDesktops
<1>3. VisitsTypes'
  BY <1>1, <1>2 DEF VisitsInv, VisitsTypes, VisitsVisiting, VisitsDesktops
<1>4. VisitsClaimOfVisit' /\ VisitsNotBegun' /\ VisitsWithin' /\ VisitsRemoval' /\ VisitsLeft'
  BY <1>1, <1>2
     DEF VisitsInv, VisitsClaimOfVisit, Visits!Claimed, VisitsNotBegun, VisitsWithin,
         VisitsRemoval, VisitsLeft
<1> QED
  BY <1>3, <1>4 DEF VisitsInv

LEMMA VisitsAdmitKeeps == ASSUME VisitsConstants, VisitsInv, Visits!Admit PROVE VisitsInv'
<1>1. visit.pc = "queued" /\ UNCHANGED <<spaces, procs, app>>
  BY DEF Visits!Admit
<1>2. \/ Visits!Return("cancelled") \/ Visits!Return("storage") \/ Visits!Return("failed")
      \/ Visits!Goes("mkdir") /\ UNCHANGED <<told, claim>>
  BY DEF Visits!Admit
<1>3. ASSUME NEW answer \in {"cancelled", "storage", "failed"}, Visits!Return(answer) PROVE VisitsInv'
  <2>1. spaces[visit.op] = None /\ procs[visit.op] = {} /\ answer # None /\ visit.op \in Ops
    BY <1>1, VisitsRunning DEF VisitsInv, VisitsNotBegun, VisitsConstants, VisitsAnswered
  <2> QED
    BY <1>1, <1>3, <2>1, VisitsReturns
       DEF VisitsInv, VisitsTypes, VisitsVisiting, VisitsDesktops, VisitsAnswered
<1>4. CASE Visits!Goes("mkdir") /\ UNCHANGED <<told, claim>>
  <2>1. /\ visit' \in VisitsVisiting
        /\ visit'.pc = "mkdir" /\ visit'.op = visit.op
    BY <1>1, <1>4, VisitsVisitTypes DEF Visits!Goes, VisitsLocations, Visits!Outcomes
  <2> QED
    BY <1>1, <1>4, <2>1, VisitsPrepares
<1> QED
  BY <1>2, <1>3, <1>4

LEMMA VisitsCreateKeeps == ASSUME VisitsConstants, VisitsInv, Visits!Create PROVE VisitsInv'
<1>1. UNCHANGED <<claim, procs, told, app>> /\ visit.op \in Ops
      /\ visit.pc \in {"mkdir", "owner", "processes"}
  BY VisitsRunning DEF Visits!Create
<1>2. procs[visit.op] = {} /\ procs \in [Ops -> SUBSET Visits!Roles] /\ app.boot \in 1..MaxBoots
  BY <1>1 DEF VisitsInv, VisitsNotBegun, VisitsTypes, VisitsVisiting, VisitsDesktops
<1>3. ASSUME NEW pc \in {"owner", "processes", "launch"}, Visits!Goes(pc),
             NEW w \in VisitsSpaces, Visits!Kept(w), w.boot = app.boot, ~w.going
      PROVE  VisitsInv'
  <2>1. /\ visit' \in VisitsVisiting
        /\ visit'.pc = pc /\ visit'.op = visit.op
    BY <1>1, <1>3, VisitsVisitTypes DEF Visits!Goes, VisitsLocations, Visits!Outcomes
  <2>2. /\ spaces' \in [Ops -> VisitsSpaces \cup {None}] /\ spaces'[visit.op] = w /\ w # None
        /\ \A o \in Ops : o # visit.op => spaces'[o] = spaces[o]
    BY <1>1, <1>3, VisitsKeptTypes DEF Visits!Kept
  <2> QED
    BY <1>1, <1>2, <1>3, <2>1, <2>2, VisitsMoves
<1>4. CASE visit.pc = "mkdir"
  <2> DEFINE w == [files |-> {}, members |-> {}, boot |-> app.boot, valid |-> TRUE,
                   going |-> FALSE]
  <2>1. w \in VisitsSpaces /\ w.boot = app.boot /\ ~w.going
    BY <1>2 DEF VisitsSpaces
  <2>2. Visits!Goes("owner") /\ Visits!Kept(w)
    BY <1>4 DEF Visits!Create
  <2> HIDE DEF w
  <2> QED
    BY <1>3, <2>1, <2>2
<1>5. CASE visit.pc \in {"owner", "processes"}
  <2>1. \A fs \in SUBSET Visits!Controls :
          LET w == [Visits!Mine EXCEPT !.files = fs] IN
          w \in VisitsSpaces /\ w.boot = app.boot /\ ~w.going
    BY <1>5, VisitsDirectoryTypes
  <2>2. Visits!Mine.files \in SUBSET Visits!Controls
    BY <1>5, VisitsDirectoryTypes
  <2>3. \E fs \in SUBSET Visits!Controls, pc \in {"processes", "launch"} :
          Visits!Goes(pc) /\ Visits!Kept([Visits!Mine EXCEPT !.files = fs])
    <3>1. CASE visit.pc = "owner"
      BY <3>1 DEF Visits!Create, Visits!Controls
    <3>2. CASE visit.pc = "processes"
      BY <2>2, <3>2 DEF Visits!Create, Visits!Controls
    <3> QED
      BY <1>5, <3>1, <3>2
  <2> QED
    BY <1>3, <2>1, <2>3
<1> QED
  BY <1>1, <1>4, <1>5

LEMMA VisitsCreateFailsKeeps ==
  ASSUME VisitsConstants, VisitsInv, Visits!CreateFails
  PROVE  VisitsInv'
<1>1. /\ visit.pc \in {"mkdir", "owner", "processes"} /\ Visits!Return("storage")
      /\ UNCHANGED <<spaces, procs, app>>
  BY DEF Visits!CreateFails
<1>2. visit.op \in Ops /\ procs[visit.op] = {} /\ "storage" # None
  BY <1>1, VisitsRunning DEF VisitsInv, VisitsNotBegun, VisitsConstants, VisitsAnswered
<1>3. spaces[visit.op] # None => spaces[visit.op].boot <= app.boot /\ ~spaces[visit.op].going
  BY <1>1, <1>2 DEF VisitsInv, VisitsWithin, VisitsRemoval
<1> QED
  BY <1>1, <1>2, <1>3, VisitsReturns
     DEF VisitsInv, VisitsTypes, VisitsVisiting, VisitsDesktops, VisitsAnswered

\* The operation goes on, with other processes, or other notes of them.
LEMMA VisitsGoesOn ==
  ASSUME VisitsConstants, VisitsInv, visit.pc \notin {"idle", "queued", "mkdir", "remove"},
         visit' \in VisitsVisiting,
         visit'.op = visit.op,
         visit'.pc \notin {"idle", "queued", "mkdir", "owner", "processes", "launch"},
         NEW w \in VisitsSpaces, spaces' = [spaces EXCEPT ![visit.op] = w],
         w.boot = Visits!Mine.boot, w.going => procs'[visit.op] = {} /\ visit'.pc = "remove",
         NEW ps \in SUBSET Visits!Roles, procs' = [procs EXCEPT ![visit.op] = ps],
         UNCHANGED <<claim, told, app>>
  PROVE  VisitsInv'
<1>1. Visits!Mine.boot = app.boot
  BY VisitsDirectoryTypes
<1>2. /\ spaces' \in [Ops -> VisitsSpaces \cup {None}] /\ spaces'[visit.op] = w /\ w # None
      /\ procs' \in [Ops -> SUBSET Visits!Roles] /\ procs'[visit.op] = ps
      /\ \A o \in Ops : o # visit.op => spaces'[o] = spaces[o] /\ procs'[o] = procs[o]
  BY VisitsKeptTypes, VisitsAliveTypes
<1> QED
  BY <1>1, <1>2, VisitsMoves

\* The same, of what is as it was.
LEMMA VisitsSame ==
  ASSUME VisitsConstants, VisitsInv, visit.pc \notin {"idle", "queued", "mkdir", "remove"}
  PROVE  /\ Visits!Mine \in VisitsSpaces /\ ~Visits!Mine.going /\ spaces = [spaces EXCEPT ![visit.op] = Visits!Mine]
         /\ procs[visit.op] \in SUBSET Visits!Roles
         /\ procs = [procs EXCEPT ![visit.op] = procs[visit.op]]
         /\ \A a \in Visits!Stops : a \in Visits!Outcomes
<1>1. visit.op \in Ops
  BY VisitsRunning
<1>2. Visits!Mine \in VisitsSpaces /\ ~Visits!Mine.going
  BY VisitsDirectoryTypes
<1> QED
  BY <1>1, <1>2
     DEF VisitsInv, VisitsTypes, VisitsVisiting, VisitsDesktops, Visits!Mine, Visits!Stops,
         Visits!Outcomes


LEMMA VisitsLaunchKeeps == ASSUME VisitsConstants, VisitsInv, Visits!Launch PROVE VisitsInv'
<1>1. visit.pc = "launch" /\ UNCHANGED <<claim, spaces, told, app>>
  BY DEF Visits!Launch
<1>2. \E ps \in SUBSET Visits!Roles : procs' = [procs EXCEPT ![visit.op] = ps]
  BY <1>1, VisitsSame DEF Visits!Launch, Visits!Alive, Visits!Roles
<1>3. visit' \in VisitsVisiting /\ visit'.op = visit.op /\ visit'.pc \in {"clean", "helper"}
  BY <1>1, VisitsVisitTypes, VisitsSame
     DEF Visits!Launch, Visits!Goes, Visits!EndsWith, VisitsLocations, Visits!Outcomes
<1> QED
  BY <1>1, <1>2, <1>3, VisitsSame, VisitsGoesOn

LEMMA VisitsRecordHelperKeeps ==
  ASSUME VisitsConstants, VisitsInv, Visits!RecordHelper
  PROVE  VisitsInv'
<1>1. visit.pc = "helper" /\ UNCHANGED <<claim, procs, told, app>>
  BY DEF Visits!RecordHelper
<1>2. \E w \in VisitsSpaces : spaces' = [spaces EXCEPT ![visit.op] = w] /\ w.boot = Visits!Mine.boot
                        /\ ~w.going
  <2>1. [Visits!Mine EXCEPT !.members = {"helper"}] \in VisitsSpaces
        /\ [Visits!Mine EXCEPT !.members = {"helper"}].boot = Visits!Mine.boot
        /\ ~[Visits!Mine EXCEPT !.members = {"helper"}].going
    BY <1>1, VisitsDirectoryTypes DEF Visits!Roles
  <2> QED
    BY <1>1, <2>1, VisitsSame DEF Visits!RecordHelper, Visits!Kept
<1>3. visit' \in VisitsVisiting /\ visit'.op = visit.op /\ visit'.pc \in {"host", "stop"}
  BY <1>1, VisitsVisitTypes
     DEF Visits!RecordHelper, Visits!Goes, Visits!Halts, VisitsLocations, Visits!Outcomes
<1> QED
  BY <1>1, <1>2, <1>3, VisitsSame, VisitsGoesOn

LEMMA VisitsBrowserStartsKeeps ==
  ASSUME VisitsConstants, VisitsInv, Visits!BrowserStarts
  PROVE  VisitsInv'
<1>1. /\ visit.pc \in {"host", "stop"} /\ UNCHANGED <<claim, visit, spaces, told, app>>
      /\ procs' = [procs EXCEPT ![visit.op] = {"helper", "browser"}]
  BY DEF Visits!BrowserStarts, Visits!Alive
<1>2. {"helper", "browser"} \in SUBSET Visits!Roles /\ visit \in VisitsVisiting
  BY DEF Visits!Roles, VisitsInv, VisitsTypes
<1> QED
  BY <1>1, <1>2, VisitsSame, VisitsGoesOn

LEMMA VisitsReadyKeeps == ASSUME VisitsConstants, VisitsInv, Visits!Ready PROVE VisitsInv'
<1>1. visit.pc = "host" /\ UNCHANGED <<claim, procs, told, app>>
  BY DEF Visits!Ready
<1>2. \E w \in VisitsSpaces : spaces' = [spaces EXCEPT ![visit.op] = w] /\ w.boot = Visits!Mine.boot
                        /\ ~w.going
  <2> DEFINE ms == Visits!Mine.members \cup {"browser"}
             w == [Visits!Mine EXCEPT !.members = ms]
  <2>1. ms \in SUBSET Visits!Roles
    BY <1>1, VisitsDirectoryTypes DEF Visits!Roles
  <2>2. \/ spaces' = [spaces EXCEPT ![visit.op] = w]
        \/ UNCHANGED spaces
    BY DEF Visits!Ready, Visits!Kept
  <2> HIDE DEF ms
  <2>3. w \in VisitsSpaces /\ w.boot = Visits!Mine.boot /\ ~w.going
    BY <1>1, <2>1, VisitsDirectoryTypes
  <2> QED
    BY <1>1, <2>2, <2>3, VisitsSame
<1>3. visit' \in VisitsVisiting /\ visit'.op = visit.op /\ visit'.pc \in {"host", "stop"}
  <2>1. UNCHANGED visit \/ Visits!Halts("storage")
    BY DEF Visits!Ready
  <2> QED
    BY <1>1, <2>1, VisitsVisitTypes
       DEF Visits!Halts, VisitsLocations, Visits!Outcomes, VisitsInv, VisitsTypes
<1> QED
  BY <1>1, <1>2, <1>3, VisitsSame, VisitsGoesOn

LEMMA VisitsExtractedKeeps ==
  ASSUME VisitsConstants, VisitsInv, Visits!Extracted
  PROVE  VisitsInv'
<1>1. visit.pc = "host" /\ UNCHANGED <<claim, spaces, procs, told, app>>
  BY DEF Visits!Extracted
<1>2. \E a \in Visits!Outcomes \cup {None} : Visits!Halts(a)
  BY <1>1, VisitsSame DEF Visits!Extracted
<1>3. visit' \in VisitsVisiting /\ visit'.op = visit.op /\ visit'.pc = "stop"
  BY <1>1, <1>2, VisitsVisitTypes DEF Visits!Halts, VisitsLocations
<1> QED
  BY <1>1, <1>3, VisitsSame, VisitsGoesOn

LEMMA VisitsStopHostKeeps == ASSUME VisitsConstants, VisitsInv, Visits!StopHost PROVE VisitsInv'
<1>1. visit.pc = "stop" /\ UNCHANGED <<claim, spaces, told, app>>
  BY DEF Visits!StopHost
<1>2. PICK left \in SUBSET procs[visit.op] : procs' = [procs EXCEPT ![visit.op] = left]
  BY DEF Visits!StopHost, Visits!Alive
<1>3. left \in SUBSET Visits!Roles
  BY <1>1, VisitsSame
<1>4. Visits!Goes("save") \/ \E a \in Visits!Outcomes \cup {None} : Visits!EndsWith(a)
  BY DEF Visits!StopHost, VisitsInv, VisitsTypes, VisitsVisiting, Visits!Outcomes
<1>5. visit' \in VisitsVisiting /\ visit'.op = visit.op /\ visit'.pc \in {"save", "clean"}
  BY <1>1, <1>4, VisitsVisitTypes
     DEF Visits!Goes, Visits!EndsWith, VisitsLocations, Visits!Outcomes
<1> QED
  BY <1>1, <1>2, <1>3, <1>5, VisitsSame, VisitsGoesOn

LEMMA VisitsPrepareSaveKeeps ==
  ASSUME VisitsConstants, VisitsInv, Visits!PrepareSave
  PROVE  VisitsInv'
<1>1. visit.pc = "save" /\ UNCHANGED <<claim, procs, told, app>>
  BY DEF Visits!PrepareSave
<1>2. \E w \in VisitsSpaces : spaces' = [spaces EXCEPT ![visit.op] = w] /\ w.boot = Visits!Mine.boot
                        /\ ~w.going
  <2>1. ASSUME NEW file \in Visits!Controls, Visits!Kept([Visits!Mine EXCEPT !.files = @ \cup {file}])
        PROVE  \E w \in VisitsSpaces : spaces' = [spaces EXCEPT ![visit.op] = w]
                                 /\ w.boot = Visits!Mine.boot /\ ~w.going
    <3> DEFINE fs == Visits!Mine.files \cup {file}
               w == [Visits!Mine EXCEPT !.files = fs]
    <3>1. fs \in SUBSET Visits!Controls
      BY <1>1, VisitsDirectoryTypes
    <3>2. spaces' = [spaces EXCEPT ![visit.op] = w]
      BY <2>1 DEF Visits!Kept
    <3> HIDE DEF fs
    <3>3. w \in VisitsSpaces /\ w.boot = Visits!Mine.boot /\ ~w.going
      BY <1>1, <3>1, VisitsDirectoryTypes
    <3> QED
      BY <3>2, <3>3
  <2>2. \/ Visits!Kept([Visits!Mine EXCEPT !.files = @ \cup {"receipt"}])
        \/ Visits!Kept([Visits!Mine EXCEPT !.files = @ \cup {"half"}])
        \/ UNCHANGED spaces
    BY DEF Visits!PrepareSave
  <2> QED
    BY <1>1, <2>1, <2>2, VisitsSame DEF Visits!Controls
<1>3. visit' \in VisitsVisiting /\ visit'.op = visit.op /\ visit'.pc \in {"spawn", "clean"}
  <2>1. Visits!Goes("spawn") \/ Visits!EndsWith("storage")
    BY DEF Visits!PrepareSave
  <2> QED
    BY <1>1, <2>1, VisitsVisitTypes
       DEF Visits!Goes, Visits!EndsWith, VisitsLocations, Visits!Outcomes
<1> QED
  BY <1>1, <1>2, <1>3, VisitsSame, VisitsGoesOn

LEMMA VisitsSpawnWorkerKeeps ==
  ASSUME VisitsConstants, VisitsInv, Visits!SpawnWorker
  PROVE  VisitsInv'
<1>1. visit.pc = "spawn" /\ UNCHANGED <<claim, spaces, told, app>>
  BY DEF Visits!SpawnWorker
<1>2. \E ps \in SUBSET Visits!Roles : procs' = [procs EXCEPT ![visit.op] = ps]
  BY <1>1, VisitsSame DEF Visits!SpawnWorker, Visits!Alive, Visits!Roles
<1>3. visit' \in VisitsVisiting /\ visit'.op = visit.op /\ visit'.pc \in {"record", "decide"}
  BY <1>1, VisitsVisitTypes
     DEF Visits!SpawnWorker, Visits!Goes, VisitsLocations, Visits!Outcomes
<1> QED
  BY <1>1, <1>2, <1>3, VisitsSame, VisitsGoesOn

LEMMA VisitsRecordWorkerKeeps ==
  ASSUME VisitsConstants, VisitsInv, Visits!RecordWorker
  PROVE  VisitsInv'
<1>1. visit.pc = "record" /\ UNCHANGED <<claim, told, app>>
  BY DEF Visits!RecordWorker
<1>2. \E ps \in SUBSET Visits!Roles : procs' = [procs EXCEPT ![visit.op] = ps]
  BY <1>1, VisitsSame DEF Visits!RecordWorker, Visits!Alive
<1>3. \E w \in VisitsSpaces : spaces' = [spaces EXCEPT ![visit.op] = w] /\ w.boot = Visits!Mine.boot
                        /\ ~w.going
  <2> DEFINE ms == Visits!Mine.members \cup {"worker"}
             w == [Visits!Mine EXCEPT !.members = ms]
  <2>1. ms \in SUBSET Visits!Roles
    BY <1>1, VisitsDirectoryTypes DEF Visits!Roles
  <2>2. spaces' = [spaces EXCEPT ![visit.op] = w] \/ UNCHANGED spaces
    BY DEF Visits!RecordWorker, Visits!Kept
  <2> HIDE DEF ms
  <2>3. w \in VisitsSpaces /\ w.boot = Visits!Mine.boot /\ ~w.going
    BY <1>1, <2>1, VisitsDirectoryTypes
  <2> QED
    BY <1>1, <2>2, <2>3, VisitsSame
<1>4. visit' \in VisitsVisiting /\ visit'.op = visit.op /\ visit'.pc \in {"work", "decide"}
  BY <1>1, VisitsVisitTypes
     DEF Visits!RecordWorker, Visits!Goes, VisitsLocations, Visits!Outcomes
<1> QED
  BY <1>1, <1>2, <1>3, <1>4, VisitsSame, VisitsGoesOn

LEMMA VisitsWorkerReapedKeeps ==
  ASSUME VisitsConstants, VisitsInv, Visits!WorkerReaped
  PROVE  VisitsInv'
<1>1. visit.pc = "work" /\ UNCHANGED <<claim, spaces, procs, told, app>> /\ Visits!Goes("decide")
  BY DEF Visits!WorkerReaped
<1>2. visit' \in VisitsVisiting /\ visit'.op = visit.op /\ visit'.pc = "decide"
  BY <1>1, VisitsVisitTypes DEF Visits!Goes, VisitsLocations, Visits!Outcomes
<1> QED
  BY <1>1, <1>2, VisitsSame, VisitsGoesOn

LEMMA VisitsDecideKeeps == ASSUME VisitsConstants, VisitsInv, Visits!Decide PROVE VisitsInv'
<1>1. visit.pc = "decide" /\ UNCHANGED <<claim, spaces, procs, told, app>>
  BY DEF Visits!Decide
<1>2. \E a \in Visits!Outcomes : Visits!EndsWith(a)
  BY DEF Visits!Decide, Visits!Outcomes
<1>3. visit' \in VisitsVisiting /\ visit'.op = visit.op /\ visit'.pc = "clean"
  BY <1>1, <1>2, VisitsVisitTypes DEF Visits!EndsWith, VisitsLocations
<1> QED
  BY <1>1, <1>3, VisitsSame, VisitsGoesOn

LEMMA VisitsCleanUpKeeps == ASSUME VisitsConstants, VisitsInv, Visits!CleanUp PROVE VisitsInv'
<1>1. /\ visit.pc = "clean" /\ procs[visit.op] = {} /\ Visits!Goes("remove")
      /\ spaces' = [spaces EXCEPT ![visit.op].going = TRUE]
      /\ UNCHANGED <<claim, procs, told, app>>
  BY DEF Visits!CleanUp, Visits!Clearable, Visits!Clear
<1>2. visit.op \in Ops /\ Visits!Mine \in VisitsSpaces
  BY <1>1, VisitsRunning, VisitsSame
<1> DEFINE w == [Visits!Mine EXCEPT !.going = TRUE]
<1>3. spaces' = [spaces EXCEPT ![visit.op] = w] /\ w \in VisitsSpaces /\ w.boot = Visits!Mine.boot
  BY <1>1, <1>2 DEF VisitsInv, VisitsTypes, Visits!Mine, VisitsSpaces
<1>4. visit' \in VisitsVisiting /\ visit'.op = visit.op /\ visit'.pc = "remove"
  BY <1>1, VisitsVisitTypes DEF Visits!Goes, VisitsLocations, Visits!Outcomes
<1> HIDE DEF w
<1> QED
  BY <1>1, <1>3, <1>4, VisitsSame, VisitsGoesOn

LEMMA VisitsCleanUpFailsKeeps ==
  ASSUME VisitsConstants, VisitsInv, Visits!CleanUpFails
  PROVE  VisitsInv'
<1>1. /\ visit.pc = "clean" /\ app' = [app EXCEPT !.paused = TRUE] /\ Visits!Return("storage")
      /\ UNCHANGED <<spaces, procs>>
  BY DEF Visits!CleanUpFails, Visits!Pauses
<1>2. /\ app' \in VisitsDesktops /\ app'.up = app.up /\ app'.boot = app.boot
      /\ app'.recovery = app.recovery /\ app'.paused
  BY <1>1 DEF VisitsInv, VisitsTypes, VisitsDesktops
<1>3. visit.op \in Ops /\ Visits!Mine \in VisitsSpaces /\ ~Visits!Mine.going /\ Visits!Mine # None
      /\ Visits!Mine.boot = app.boot /\ app.boot \in Nat
  BY <1>1, VisitsRunning, VisitsDirectoryTypes DEF VisitsInv, VisitsTypes, VisitsDesktops
<1>4. "storage" # None /\ "storage" \in VisitsAnswered
  BY DEF VisitsConstants, VisitsAnswered
<1> QED
  <2>1. spaces'[visit.op] # None /\ spaces'[visit.op].boot <= app.boot
        /\ ~spaces'[visit.op].going
    BY <1>1, <1>3 DEF Visits!Mine
  <2>2. spaces' \in [Ops -> VisitsSpaces \cup {None}]
    BY <1>1 DEF VisitsInv, VisitsTypes
  <2> QED
    BY <1>1, <1>2, <1>4, <2>1, <2>2, VisitsReturns


-----------------------------------------------------------------------------
LEMMA VisitsRemoveFileKeeps ==
  ASSUME VisitsConstants, VisitsInv, NEW o \in Ops, Visits!RemoveFile(o)
  PROVE  VisitsInv'
<1>1. /\ spaces[o] # None /\ UNCHANGED <<claim, visit, procs, told, app>>
      /\ \E f \in spaces[o].files : spaces' = [spaces EXCEPT ![o].files = @ \ {f}]
  BY DEF Visits!RemoveFile
<1>2. PICK f \in spaces[o].files : spaces' = [spaces EXCEPT ![o].files = @ \ {f}]
  BY <1>1
<1> DEFINE fs == spaces[o].files \ {f}
           w == [spaces[o] EXCEPT !.files = fs]
<1>3. spaces[o] \in VisitsSpaces /\ spaces \in [Ops -> VisitsSpaces \cup {None}]
  BY <1>1 DEF VisitsInv, VisitsTypes
<1>4. fs \in SUBSET Visits!Controls
  BY <1>3 DEF VisitsSpaces
<1>5. spaces' = [spaces EXCEPT ![o] = w]
  BY <1>2, <1>3 DEF VisitsSpaces
<1> HIDE DEF fs
<1>6. w \in VisitsSpaces /\ w.boot = spaces[o].boot /\ w.going = spaces[o].going
  BY <1>3, <1>4 DEF VisitsSpaces
<1>7. w # None
  BY <1>6 DEF VisitsConstants
<1> HIDE DEF w
<1> QED
  BY <1>1, <1>3, <1>5, <1>6, <1>7, VisitsEnds DEF VisitsInv, VisitsTypes

LEMMA VisitsRemoveDirectoryKeeps ==
  ASSUME VisitsConstants, VisitsInv, NEW o \in Ops, Visits!RemoveDirectory(o) PROVE VisitsInv'
<1>1. /\ spaces[o] # None /\ spaces[o].going /\ spaces' = [spaces EXCEPT ![o] = None]
      /\ UNCHANGED <<procs, app>>
  BY DEF Visits!RemoveDirectory
<1>2. procs[o] = {} /\ spaces \in [Ops -> VisitsSpaces \cup {None}]
  BY <1>1 DEF VisitsInv, VisitsRemoval, VisitsTypes
<1>3. CASE visit.op = o
  <2>1. visit.pc # "idle"
    BY <1>3 DEF VisitsInv, VisitsClaimOfVisit, VisitsConstants
  <2>2. Visits!Return(visit.outcome) /\ visit.outcome \in VisitsAnswered \cup {None}
    BY <1>3
       DEF Visits!RemoveDirectory, VisitsInv, VisitsTypes, VisitsVisiting, Visits!Outcomes,
           VisitsAnswered
  <2> QED
    BY <1>1, <1>2, <1>3, <2>1, <2>2, VisitsReturns DEF VisitsInv, VisitsTypes
<1>4. CASE visit.op # o
  <2>1. UNCHANGED <<claim, visit, told>>
    BY <1>4 DEF Visits!RemoveDirectory
  <2> QED
    BY <1>1, <1>2, <1>4, <2>1, VisitsEnds DEF VisitsInv, VisitsTypes
<1> QED
  BY <1>3, <1>4

\* Only what the desktop itself knows of changes.
LEMMA VisitsRecovers ==
  ASSUME VisitsConstants, VisitsInv, UNCHANGED <<claim, visit, spaces, procs, told>>, app' \in VisitsDesktops,
         app'.up = app.up, app'.boot = app.boot, app'.paused = app.paused,
         app'.recovery = "ok" => \A o \in Ops : spaces[o] # None => spaces[o].boot >= app.boot
  PROVE  VisitsInv'
<1>1. VisitsTypes'
  BY DEF VisitsInv, VisitsTypes
<1>2. VisitsClaimOfVisit' /\ VisitsNotBegun' /\ VisitsWithin' /\ VisitsRemoval'
  BY DEF VisitsInv, VisitsClaimOfVisit, Visits!Claimed, VisitsNotBegun, VisitsWithin,
         VisitsRemoval
<1>3. VisitsLeft'
  <2>1. \A o \in Ops : spaces[o] # None => spaces[o].boot \in Nat /\ spaces[o].boot <= app.boot
    BY DEF VisitsInv, VisitsTypes, VisitsSpaces, VisitsWithin
  <2>2. app.boot \in Nat
    BY DEF VisitsInv, VisitsTypes, VisitsDesktops
  <2> QED
    BY <2>1, <2>2 DEF VisitsInv, VisitsLeft
<1> QED
  BY <1>1, <1>2, <1>3 DEF VisitsInv

LEMMA VisitsRemoveFailsKeeps ==
  ASSUME VisitsConstants, VisitsInv, NEW o \in Ops, Visits!RemoveFails(o)
  PROVE  VisitsInv'
<1> DEFINE w == [spaces[o] EXCEPT !.going = FALSE]
<1>1. /\ spaces[o] # None /\ spaces[o].going /\ spaces' = [spaces EXCEPT ![o].going = FALSE]
      /\ UNCHANGED procs
  BY DEF Visits!RemoveFails
<1>2. spaces[o] \in VisitsSpaces /\ spaces \in [Ops -> VisitsSpaces \cup {None}] /\ procs[o] = {}
  BY <1>1 DEF VisitsInv, VisitsRemoval, VisitsTypes
<1>3. spaces' = [spaces EXCEPT ![o] = w] /\ w \in VisitsSpaces /\ w.boot = spaces[o].boot /\ ~w.going
  BY <1>1, <1>2 DEF VisitsSpaces
<1>4. w # None
  BY <1>3 DEF VisitsConstants
<1> HIDE DEF w
<1>5. CASE visit.op = o
  <2>1. visit.pc # "idle"
    BY <1>5 DEF VisitsInv, VisitsClaimOfVisit, VisitsConstants
  <2>2. Visits!Return("storage") /\ app' = [app EXCEPT !.paused = TRUE]
    BY <1>5 DEF Visits!RemoveFails, Visits!Pauses
  <2>3. /\ app' \in VisitsDesktops /\ app'.up = app.up /\ app'.boot = app.boot
        /\ app'.recovery = app.recovery /\ app'.paused
    BY <2>2 DEF VisitsInv, VisitsTypes, VisitsDesktops
  <2>4. "storage" # None /\ "storage" \in VisitsAnswered
    BY DEF VisitsConstants, VisitsAnswered
  <2>5. spaces[o].boot <= app.boot
    BY <1>1 DEF VisitsInv, VisitsWithin
  <2>6. spaces'[o] = w /\ spaces' \in [Ops -> VisitsSpaces \cup {None}]
        /\ \A q \in Ops : q # o => spaces'[q] = spaces[q]
    BY <1>2, <1>3
  <2> QED
    BY <1>1, <1>2, <1>3, <1>5, <2>1, <2>2, <2>3, <2>4, <2>5, <2>6, VisitsReturns
<1>6. CASE visit.op # o
  <2>1. app' = [app EXCEPT !.recovery = "failed"] /\ UNCHANGED <<claim, visit, told>>
    BY <1>6 DEF Visits!RemoveFails
  <2>2. /\ app' \in VisitsDesktops /\ app'.up = app.up /\ app'.boot = app.boot
        /\ app'.recovery = "failed" /\ app'.paused = app.paused
    BY <2>1 DEF VisitsInv, VisitsTypes, VisitsDesktops
  <2>3. spaces'[o] = w /\ spaces' \in [Ops -> VisitsSpaces \cup {None}]
        /\ \A q \in Ops : q # o => spaces'[q] = spaces[q]
    BY <1>2, <1>3
  <2>4. VisitsTypes' /\ VisitsClaimOfVisit'
    BY <1>1, <2>1, <2>2, <2>3 DEF VisitsInv, VisitsTypes, VisitsClaimOfVisit, Visits!Claimed
  <2>5. VisitsNotBegun' /\ VisitsWithin' /\ VisitsRemoval' /\ VisitsLeft'
    <3>1. visit.pc # "idle" => visit.op \in Ops
      BY VisitsRunning
    <3> QED
      BY <1>1, <1>2, <1>3, <1>4, <1>6, <2>1, <2>2, <2>3, <3>1
         DEF VisitsInv, VisitsNotBegun, VisitsWithin, VisitsRemoval, VisitsLeft
  <2> QED
    BY <2>4, <2>5 DEF VisitsInv
<1> QED
  BY <1>5, <1>6

LEMMA VisitsAccessKeeps == ASSUME VisitsConstants, VisitsInv, Visits!Access PROVE VisitsInv'
<1>1. /\ UNCHANGED <<claim, visit, spaces, procs, told>>
      /\ \E r \in {"failed", "busy"} : app' = [app EXCEPT !.recovery = r]
  BY DEF Visits!Access
<1>2. /\ app' \in VisitsDesktops /\ app'.up = app.up /\ app'.boot = app.boot
      /\ app'.recovery # "ok" /\ app'.paused = app.paused
  BY <1>1 DEF VisitsInv, VisitsTypes, VisitsDesktops
<1> QED
  BY <1>1, <1>2, VisitsRecovers

LEMMA VisitsKillOrphanKeeps ==
  ASSUME VisitsConstants, VisitsInv, NEW o \in Ops, Visits!KillOrphan(o)
  PROVE  VisitsInv'
<1>1. /\ UNCHANGED <<claim, visit, spaces, told, app>>
      /\ \E r \in procs[o] : procs' = [procs EXCEPT ![o] = @ \ {r}]
  BY DEF Visits!KillOrphan
<1>2. procs' \in [Ops -> SUBSET Visits!Roles] /\ \A q \in Ops : procs'[q] \subseteq procs[q]
  BY <1>1 DEF VisitsInv, VisitsTypes
<1> QED
  BY <1>1, <1>2, VisitsEnds DEF VisitsInv, VisitsTypes

LEMMA VisitsRecoverEntryKeeps ==
  ASSUME VisitsConstants, VisitsInv, NEW o \in Ops, Visits!RecoverEntry(o)
  PROVE  VisitsInv'
<1> DEFINE w == [spaces[o] EXCEPT !.going = TRUE]
<1>1. /\ spaces[o] # None /\ spaces[o].boot < app.boot /\ procs[o] = {}
      /\ spaces' = [spaces EXCEPT ![o].going = TRUE]
      /\ UNCHANGED <<claim, visit, procs, told, app>>
  BY DEF Visits!RecoverEntry, Visits!Older, Visits!Clearable, Visits!Clear
<1>2. spaces[o] \in VisitsSpaces /\ spaces \in [Ops -> VisitsSpaces \cup {None}] /\ app.boot \in Nat
      /\ spaces[o].boot \in Nat
  BY <1>1 DEF VisitsInv, VisitsTypes, VisitsDesktops, VisitsSpaces
<1>3. spaces' = [spaces EXCEPT ![o] = w] /\ w \in VisitsSpaces /\ w.boot = spaces[o].boot
  BY <1>1, <1>2 DEF VisitsSpaces
<1>4. w # None
  BY <1>3 DEF VisitsConstants
<1>5. visit.op # o
  <2> SUFFICES ASSUME visit.op = o PROVE FALSE
    OBVIOUS
  <2>1. visit.pc # "idle"
    BY DEF VisitsInv, VisitsClaimOfVisit, VisitsConstants
  <2> QED
    BY <1>1, <1>2, <2>1 DEF VisitsInv, VisitsNotBegun, VisitsWithin
<1> HIDE DEF w
<1> QED
  BY <1>1, <1>2, <1>3, <1>4, <1>5, VisitsEnds DEF VisitsInv, VisitsTypes

LEMMA VisitsRecoveryFailsKeeps ==
  ASSUME VisitsConstants, VisitsInv, Visits!RecoveryFails
  PROVE  VisitsInv'
<1>1. UNCHANGED <<claim, visit, spaces, procs, told>> /\ app' = [app EXCEPT !.recovery = "failed"]
  BY DEF Visits!RecoveryFails
<1>2. /\ app' \in VisitsDesktops /\ app'.up = app.up /\ app'.boot = app.boot
      /\ app'.recovery # "ok" /\ app'.paused = app.paused
  BY <1>1 DEF VisitsInv, VisitsTypes, VisitsDesktops
<1> QED
  BY <1>1, <1>2, VisitsRecovers

LEMMA VisitsRecoveryEndsKeeps ==
  ASSUME VisitsConstants, VisitsInv, Visits!RecoveryEnds
  PROVE  VisitsInv'
<1>1. /\ UNCHANGED <<claim, visit, spaces, procs, told>> /\ app' = [app EXCEPT !.recovery = "ok"]
      /\ app.recovery = "busy" /\ \A o \in Ops : ~Visits!Older(o)
  BY DEF Visits!RecoveryEnds
<1>2. /\ app' \in VisitsDesktops /\ app'.up = app.up /\ app'.boot = app.boot
      /\ app'.paused = app.paused
  BY <1>1 DEF VisitsInv, VisitsTypes, VisitsDesktops
<1>3. \A o \in Ops : spaces[o] # None => spaces[o].boot >= app.boot
  BY <1>1 DEF Visits!Older, VisitsInv, VisitsTypes, VisitsSpaces, VisitsDesktops
<1> QED
  BY <1>1, <1>2, <1>3, VisitsRecovers


-----------------------------------------------------------------------------
\* What does not touch the directories, the processes or the answers.
LEMMA VisitsSavesKeeps ==
  ASSUME VisitsConstants, VisitsInv, NEW o \in Ops, Visits!WorkerSaves(o)
  PROVE  VisitsInv'
BY VisitsEnds DEF Visits!WorkerSaves, VisitsInv, VisitsTypes

LEMMA VisitsProcessEndsKeeps ==
  ASSUME VisitsConstants, VisitsInv, NEW o \in Ops, NEW r \in Visits!Roles, Visits!ProcessEnds(o, r)
  PROVE  VisitsInv'
<1>1. UNCHANGED <<claim, visit, spaces, told, app>> /\ procs' = [procs EXCEPT ![o] = @ \ {r}]
  BY DEF Visits!ProcessEnds
<1>2. procs' \in [Ops -> SUBSET Visits!Roles] /\ \A q \in Ops : procs'[q] \subseteq procs[q]
  BY <1>1 DEF VisitsInv, VisitsTypes
<1> QED
  BY <1>1, <1>2, VisitsEnds DEF VisitsInv, VisitsTypes

\* The desktop goes, whatever it was doing.
LEMMA VisitsGoneKeeps ==
  ASSUME VisitsConstants, VisitsInv, Visits!Gone, app' \in VisitsDesktops, ~app'.up, app'.boot = app.boot
  PROVE  VisitsInv'
<1>1. /\ claim' = None /\ visit'.pc = "idle" /\ visit'.op = None /\ visit' \in VisitsVisiting
      /\ UNCHANGED procs
      /\ told' = [o \in Ops |-> IF o = visit.op THEN "nothing" ELSE told[o]]
      /\ spaces' = [o \in Ops |-> IF spaces[o] = None THEN None
                                 ELSE [spaces[o] EXCEPT !.going = FALSE]]
  BY DEF Visits!Gone, Visits!Idle, VisitsVisiting, VisitsLocations
<1>2. \A o \in Ops : spaces[o] # None =>
        [spaces[o] EXCEPT !.going = FALSE] \in VisitsSpaces
        /\ [spaces[o] EXCEPT !.going = FALSE].boot = spaces[o].boot
        /\ ~[spaces[o] EXCEPT !.going = FALSE].going
  BY DEF VisitsInv, VisitsTypes, VisitsSpaces
<1>3. \A o \in Ops : /\ spaces[o] = None => spaces'[o] = None
                     /\ spaces[o] # None => spaces'[o] \in VisitsSpaces /\ spaces'[o] # None
                          /\ spaces'[o].boot = spaces[o].boot /\ ~spaces'[o].going
  BY <1>1, <1>2 DEF VisitsConstants
<1>4. spaces' \in [Ops -> VisitsSpaces \cup {None}]
  BY <1>1, <1>2
<1>5. told' \in [Ops -> VisitsAnswered \cup {None}] /\ "nothing" # None
  BY <1>1 DEF VisitsInv, VisitsTypes, VisitsAnswered, VisitsConstants
<1>6. VisitsTypes'
  BY <1>1, <1>4, <1>5 DEF VisitsInv, VisitsTypes
<1>7. VisitsClaimOfVisit'
  BY <1>1 DEF VisitsClaimOfVisit, Visits!Claimed
<1>8. VisitsNotBegun'
  BY <1>1, <1>3, <1>5 DEF VisitsInv, VisitsNotBegun
<1>9. VisitsWithin' /\ VisitsRemoval' /\ VisitsLeft'
  BY <1>1, <1>3 DEF VisitsInv, VisitsWithin, VisitsRemoval, VisitsLeft
<1> QED
  BY <1>6, <1>7, <1>8, <1>9 DEF VisitsInv

LEMMA VisitsQuitKeeps == ASSUME VisitsConstants, VisitsInv, Visits!Quit PROVE VisitsInv'
<1>1. Visits!Gone /\ app' = [app EXCEPT !.up = FALSE]
  BY DEF Visits!Quit
<1>2. app' \in VisitsDesktops /\ ~app'.up /\ app'.boot = app.boot
  BY <1>1 DEF VisitsInv, VisitsTypes, VisitsDesktops
<1> QED
  BY <1>1, <1>2, VisitsGoneKeeps

LEMMA VisitsCrashKeeps == ASSUME VisitsConstants, VisitsInv, Visits!Crash PROVE VisitsInv'
<1> DEFINE n == app.crashes + 1
<1>1. Visits!Gone /\ app' = [app EXCEPT !.up = FALSE, !.crashes = n] /\ app.crashes < MaxCrashes
  BY DEF Visits!Crash
<1>2. n \in 0..MaxCrashes
  BY <1>1 DEF VisitsInv, VisitsTypes, VisitsDesktops, VisitsConstants
<1> HIDE DEF n
<1>3. app' \in VisitsDesktops /\ ~app'.up /\ app'.boot = app.boot
  BY <1>1, <1>2 DEF VisitsInv, VisitsTypes, VisitsDesktops
<1> QED
  BY <1>1, <1>3, VisitsGoneKeeps

LEMMA VisitsRestartKeeps == ASSUME VisitsConstants, VisitsInv, Visits!Restart PROVE VisitsInv'
<1> DEFINE n == app.boot + 1
<1>1. PICK updated \in BOOLEAN :
        spaces' = [o \in Ops |-> IF spaces[o] = None THEN None
                                 ELSE [spaces[o] EXCEPT !.valid = @ /\ ~updated]]
  BY DEF Visits!Restart
<1>2. /\ ~app.up /\ app.boot < MaxBoots /\ UNCHANGED <<claim, visit, procs, told>>
      /\ app' = [app EXCEPT !.up = TRUE, !.closing = FALSE, !.paused = FALSE, !.boot = n,
                            !.recovery = "none"]
  BY DEF Visits!Restart
<1>3. n \in 1..MaxBoots /\ n > app.boot /\ app.boot \in Nat
  BY <1>2 DEF VisitsInv, VisitsTypes, VisitsDesktops, VisitsConstants
<1> HIDE DEF n
<1>4. app' \in VisitsDesktops /\ app'.boot = n /\ app'.recovery = "none"
  BY <1>2, <1>3 DEF VisitsInv, VisitsTypes, VisitsDesktops
<1>5. \A o \in Ops : spaces[o] # None =>
        LET w == [spaces[o] EXCEPT !.valid = @ /\ ~updated] IN
        w \in VisitsSpaces /\ w.boot = spaces[o].boot /\ w.going = spaces[o].going
  <2> SUFFICES ASSUME NEW o \in Ops, spaces[o] # None
               PROVE  LET w == [spaces[o] EXCEPT !.valid = @ /\ ~updated] IN
                      w \in VisitsSpaces /\ w.boot = spaces[o].boot /\ w.going = spaces[o].going
    OBVIOUS
  <2> DEFINE valid == spaces[o].valid /\ ~updated
             w == [spaces[o] EXCEPT !.valid = valid]
  <2>1. valid \in BOOLEAN
    OBVIOUS
  <2>2. spaces[o] \in VisitsSpaces
    BY DEF VisitsInv, VisitsTypes
  <2> HIDE DEF valid
  <2>3. w \in VisitsSpaces /\ w.boot = spaces[o].boot /\ w.going = spaces[o].going
    BY <2>1, <2>2 DEF VisitsSpaces
  <2> QED
    BY <2>3 DEF valid
<1>6. \A o \in Ops : /\ spaces[o] = None => spaces'[o] = None
                     /\ spaces[o] # None => spaces'[o] \in VisitsSpaces /\ spaces'[o] # None
                          /\ spaces'[o].boot = spaces[o].boot
                          /\ spaces'[o].going = spaces[o].going
  BY <1>1, <1>5 DEF VisitsConstants
<1>7. spaces' \in [Ops -> VisitsSpaces \cup {None}]
  BY <1>1, <1>5
<1>8. VisitsTypes'
  BY <1>2, <1>4, <1>7 DEF VisitsInv, VisitsTypes
<1>9. claim = None /\ visit.pc = "idle" /\ visit.op = None
  BY <1>2 DEF VisitsInv, VisitsClaimOfVisit, Visits!Claimed
<1>10. VisitsClaimOfVisit'
  BY <1>2, <1>9 DEF VisitsClaimOfVisit, Visits!Claimed
<1>11. VisitsNotBegun' /\ VisitsRemoval'
  BY <1>2, <1>6, <1>9 DEF VisitsInv, VisitsNotBegun, VisitsRemoval
<1>12. VisitsWithin' /\ VisitsLeft'
  <2>1. \A o \in Ops : spaces[o] # None => spaces[o].boot \in Nat /\ spaces[o].boot <= app.boot
    BY DEF VisitsInv, VisitsTypes, VisitsSpaces, VisitsWithin
  <2>2. \A o \in Ops : spaces'[o] # None => spaces'[o].boot <= n /\ spaces'[o].boot # n
    BY <1>3, <1>6, <2>1
  <2> QED
    BY <1>2, <1>4, <1>6, <1>9, <2>2 DEF VisitsInv, VisitsWithin, VisitsLeft
<1> QED
  BY <1>8, <1>10, <1>11, <1>12 DEF VisitsInv

LEMMA VisitsNextKeeps ==
  ASSUME VisitsConstants, VisitsInv, Visits!Next \/ UNCHANGED Visits!vars
  PROVE  VisitsInv'
<1>1. CASE Visits!Adopt \/ Visits!Cancel \/ Visits!Close \/ Visits!Expire \/ Visits!Admit \/ Visits!Create \/ Visits!CreateFails \/ Visits!Launch
  BY <1>1, VisitsAdoptKeeps, VisitsCancelKeeps, VisitsCloseKeeps, VisitsExpireKeeps,
     VisitsAdmitKeeps, VisitsCreateKeeps, VisitsCreateFailsKeeps, VisitsLaunchKeeps
<1>2. CASE Visits!RecordHelper \/ Visits!BrowserStarts \/ Visits!Ready \/ Visits!Extracted \/ Visits!StopHost \/ Visits!PrepareSave
  BY <1>2, VisitsRecordHelperKeeps, VisitsBrowserStartsKeeps, VisitsReadyKeeps,
     VisitsExtractedKeeps, VisitsStopHostKeeps, VisitsPrepareSaveKeeps
<1>3. CASE Visits!SpawnWorker \/ Visits!RecordWorker \/ Visits!WorkerReaped \/ Visits!Decide \/ Visits!CleanUp \/ Visits!CleanUpFails
  BY <1>3, VisitsSpawnWorkerKeeps, VisitsRecordWorkerKeeps, VisitsWorkerReapedKeeps,
     VisitsDecideKeeps, VisitsCleanUpKeeps, VisitsCleanUpFailsKeeps
<1>4. CASE Visits!Access \/ Visits!RecoveryFails \/ Visits!RecoveryEnds \/ Visits!Quit \/ Visits!Crash \/ Visits!Restart
  BY <1>4, VisitsAccessKeeps, VisitsRecoveryFailsKeeps, VisitsRecoveryEndsKeeps,
     VisitsQuitKeeps, VisitsCrashKeeps, VisitsRestartKeeps
<1>5. ASSUME NEW o \in Ops,
             \/ Visits!Register(o) \/ Visits!RemoveFile(o) \/ Visits!RemoveDirectory(o) \/ Visits!RemoveFails(o)
             \/ Visits!KillOrphan(o) \/ Visits!RecoverEntry(o) \/ Visits!WorkerSaves(o)
             \/ \E r \in Visits!Roles : Visits!ProcessEnds(o, r)
      PROVE  VisitsInv'
  BY <1>5, VisitsRegisterKeeps, VisitsRemoveFileKeeps, VisitsRemoveDirectoryKeeps,
     VisitsRemoveFailsKeeps, VisitsKillOrphanKeeps, VisitsRecoverEntryKeeps, VisitsSavesKeeps,
     VisitsProcessEndsKeeps
<1>6. CASE UNCHANGED Visits!vars
  BY <1>6, VisitsEnds DEF Visits!vars, VisitsInv, VisitsTypes
<1> QED
  BY <1>1, <1>2, <1>3, <1>4, <1>5, <1>6 DEF Visits!Next

LEMMA VisitsOrphansFound == ASSUME VisitsInv PROVE Visits!OrphansAreFound
BY DEF VisitsInv, VisitsLeft, Visits!OrphansAreFound

LEMMA VisitsClaimEnds == ASSUME VisitsInv PROVE Visits!ClaimIsOfVisit
BY DEF VisitsInv, VisitsClaimOfVisit, Visits!ClaimIsOfVisit

-----------------------------------------------------------------------------
(* What is answered of an import (WebPageVisit).                            *)

VisitsFinal == {"saved", "cancelled", "timeout", "failed"}

\* What an outcome says of the disk.
VisitsTrueOf(result, o) ==
  /\ result = "saved" => pages[o] = "saved"
  /\ result \in {"cancelled", "timeout", "failed"} => pages[o] = "absent"

\* Only a worker that was given the article makes a page.
VisitsOfWorker ==
  /\ pages \in [Ops -> {"absent", "prepared", "saved"}]
  /\ \A o \in Ops : o \notin fed => pages[o] = "absent"

\* No worker is left of what was answered, and the answer is so.
VisitsReplied ==
  \A o \in Ops : told[o] \in VisitsFinal => "worker" \notin procs[o] /\ VisitsTrueOf(told[o], o)

\* No worker was given anything of an operation that has not begun.
VisitsUnfed == \A o \in Ops : told[o] = None /\ visit.op # o => o \notin fed

\* Where the operation that runs may have a worker, and what it will be answered.
VisitsWorked ==
  visit.pc # "idle" =>
    /\ told[visit.op] = None
    /\ visit.pc \notin {"work", "decide", "clean", "remove"} => visit.op \notin fed
    /\ visit.pc \notin {"record", "work"} => "worker" \notin procs[visit.op]
    /\ visit.pc = "stop" => visit.outcome # "saved"
    /\ visit.pc \in {"clean", "remove"} =>
         visit.outcome # None /\ VisitsTrueOf(visit.outcome, visit.op)

VisitsInv2 == VisitsInv /\ VisitsOfWorker /\ VisitsReplied /\ VisitsUnfed /\ VisitsWorked

LEMMA VisitsStarts2 == VisitsConstants /\ Visits!Init /\ VisitsInv => VisitsInv2
BY DEF VisitsConstants, VisitsAnswered, Visits!Init, Visits!Idle, VisitsInv2, VisitsOfWorker,
       VisitsReplied, VisitsFinal, VisitsTrueOf, VisitsUnfed, VisitsWorked

\* A step of the operation that runs, to which nothing has been answered.
LEMMA VisitsWorks2 ==
  ASSUME VisitsConstants, VisitsInv2, VisitsInv', visit.pc # "idle", visit'.pc # "idle", visit'.op = visit.op,
         UNCHANGED told,
         \A o \in Ops : o # visit.op =>
           procs'[o] = procs[o] /\ pages'[o] = pages[o] /\ (o \in fed' <=> o \in fed),
         pages' \in [Ops -> {"absent", "prepared", "saved"}],
         visit.op \notin fed' => pages'[visit.op] = "absent",
         visit'.pc \notin {"work", "decide", "clean", "remove"} => visit.op \notin fed',
         visit'.pc \notin {"record", "work"} => "worker" \notin procs'[visit.op],
         visit'.pc = "stop" => visit'.outcome # "saved",
         visit'.pc \in {"clean", "remove"} =>
           /\ visit'.outcome # None
           /\ visit'.outcome = "saved" => pages'[visit.op] = "saved"
           /\ visit'.outcome \in {"cancelled", "timeout", "failed"} =>
                pages'[visit.op] = "absent"
  PROVE  VisitsInv2'
<1>1. visit.op \in Ops /\ told[visit.op] = None
  BY VisitsRunning DEF VisitsInv2, VisitsWorked
<1>2. VisitsOfWorker'
  BY <1>1 DEF VisitsInv2, VisitsOfWorker
<1>3. VisitsReplied'
  <2> SUFFICES ASSUME NEW o \in Ops, told[o] \in VisitsFinal
               PROVE  "worker" \notin procs'[o] /\ VisitsTrueOf(told[o], o)'
    BY DEF VisitsReplied
  <2>1. o # visit.op
    BY <1>1 DEF VisitsFinal, VisitsConstants, VisitsAnswered
  <2> QED
    BY <2>1 DEF VisitsInv2, VisitsReplied, VisitsTrueOf
<1>4. VisitsUnfed' /\ VisitsWorked'
  BY <1>1 DEF VisitsInv2, VisitsUnfed, VisitsWorked, VisitsTrueOf
<1> QED
  BY <1>2, <1>3, <1>4 DEF VisitsInv2

\* The operation that runs is answered.
LEMMA VisitsReturns2 ==
  ASSUME VisitsConstants, VisitsInv2, VisitsInv', visit.pc # "idle", NEW answer \in VisitsAnswered,
         told' = [told EXCEPT ![visit.op] = answer], visit' = Visits!Idle, UNCHANGED <<procs, fed, pages>>,
         answer \in VisitsFinal => "worker" \notin procs[visit.op] /\ VisitsTrueOf(answer, visit.op)
  PROVE  VisitsInv2'
<1>1. visit.op \in Ops /\ answer # None /\ told' \in [Ops -> VisitsAnswered \cup {None}]
  BY VisitsRunning DEF VisitsInv2, VisitsInv, VisitsTypes, VisitsConstants, VisitsAnswered
<1>2. \A o \in Ops : told'[o] = IF o = visit.op THEN answer ELSE told[o]
  BY <1>1 DEF VisitsInv2, VisitsInv, VisitsTypes
<1>3. VisitsReplied'
  BY <1>1, <1>2 DEF VisitsInv2, VisitsReplied, VisitsTrueOf
<1>4. VisitsUnfed' /\ VisitsWorked' /\ VisitsOfWorker'
  BY <1>1, <1>2 DEF VisitsInv2, VisitsUnfed, VisitsWorked, VisitsOfWorker, Visits!Idle
<1> QED
  BY <1>3, <1>4 DEF VisitsInv2

\* Nothing of an answer changes but that processes end and prepared pages are undone.
LEMMA VisitsAside2 ==
  ASSUME VisitsConstants, VisitsInv2, VisitsInv', UNCHANGED <<visit, told, fed>>,
         pages' \in [Ops -> {"absent", "prepared", "saved"}],
         \A o \in Ops : /\ procs'[o] \subseteq procs[o] \cup {"helper", "browser"}
                        /\ pages'[o] # pages[o] =>
                             \/ pages[o] = "prepared" /\ pages'[o] = "absent"
                             \/ /\ "worker" \in procs[o] /\ o \in fed
                                /\ visit.op = o => visit.pc \in {"record", "work"}
  PROVE  VisitsInv2'
<1>1. visit.pc # "idle" => visit.op \in Ops
  BY VisitsRunning DEF VisitsInv2
<1>2. VisitsOfWorker'
  BY DEF VisitsInv2, VisitsOfWorker
<1>3. VisitsReplied'
  BY DEF VisitsInv2, VisitsReplied, VisitsTrueOf
<1>4. VisitsUnfed'
  BY DEF VisitsInv2, VisitsUnfed
<1>5. VisitsWorked'
  BY <1>1 DEF VisitsInv2, VisitsWorked, VisitsTrueOf
<1> QED
  BY <1>2, <1>3, <1>4, <1>5 DEF VisitsInv2

LEMMA VisitsRegisters2 ==
  ASSUME VisitsConstants, VisitsInv2, VisitsInv', NEW o \in Ops, Visits!Register(o)
  PROVE  VisitsInv2'
BY DEF Visits!Register, VisitsInv2, VisitsOfWorker, VisitsReplied, VisitsUnfed, VisitsWorked,
       VisitsTrueOf

LEMMA VisitsAdopts2 ==
  ASSUME VisitsConstants, VisitsInv2, VisitsInv', Visits!Adopt
  PROVE  VisitsInv2'
<1>1. /\ claim.op \in Ops /\ told[claim.op] = None /\ visit.pc = "idle" /\ visit.op = None
      /\ visit'.pc = "queued" /\ visit'.op = claim.op /\ UNCHANGED <<procs, fed, pages, told>>
  BY DEF Visits!Adopt, VisitsInv2, VisitsInv, VisitsTypes, VisitsClaims, VisitsClaimOfVisit,
         Visits!Claimed, Visits!Idle
<1>2. claim.op \notin fed /\ procs[claim.op] = {}
  BY <1>1 DEF VisitsInv2, VisitsInv, VisitsNotBegun, VisitsUnfed, VisitsConstants
<1>3. VisitsWorked' /\ VisitsUnfed'
  BY <1>1, <1>2 DEF VisitsWorked, VisitsUnfed, VisitsInv2, VisitsConstants
<1>4. VisitsReplied' /\ VisitsOfWorker'
  BY <1>1 DEF VisitsInv2, VisitsReplied, VisitsTrueOf, VisitsOfWorker
<1> QED
  BY <1>3, <1>4 DEF VisitsInv2

LEMMA VisitsClaims2 ==
  ASSUME VisitsConstants, VisitsInv2, VisitsInv', Visits!Cancel \/ Visits!Close
  PROVE  VisitsInv2'
<1>1. UNCHANGED <<visit, procs, fed, pages, told>>
  BY DEF Visits!Cancel, Visits!Close
<1> QED
  BY <1>1, VisitsAside2 DEF VisitsInv2, VisitsOfWorker

LEMMA VisitsQueued2 ==
  ASSUME VisitsConstants, VisitsInv2, VisitsInv', Visits!Admit
  PROVE  VisitsInv2'
<1>1. /\ visit.pc = "queued" /\ visit.op \notin fed /\ "worker" \notin procs[visit.op]
      /\ visit \in VisitsVisiting /\ visit.op \in Ops /\ pages[visit.op] = "absent"
      /\ UNCHANGED <<procs, fed, pages>>
  BY VisitsRunning
     DEF Visits!Admit, VisitsInv2, VisitsInv, VisitsTypes, VisitsWorked, VisitsOfWorker
<1>2. CASE visit' = [visit EXCEPT !.pc = "mkdir"] /\ UNCHANGED told
  <2>1. visit'.pc = "mkdir" /\ visit'.op = visit.op /\ visit.pc = "queued"
    BY <1>1, <1>2 DEF VisitsVisiting
  <2> QED
    BY <1>1, <1>2, <2>1, VisitsWorks2 DEF VisitsInv2, VisitsOfWorker
<1>3. CASE \E answer \in {"cancelled", "storage", "failed"} :
             told' = [told EXCEPT ![visit.op] = answer] /\ visit' = Visits!Idle
  <2>1. PICK answer \in {"cancelled", "storage", "failed"} :
               told' = [told EXCEPT ![visit.op] = answer] /\ visit' = Visits!Idle
    BY <1>3
  <2>2. answer \in VisitsAnswered /\ answer # "saved"
    BY DEF VisitsAnswered
  <2> QED
    BY <1>1, <2>1, <2>2, VisitsReturns2 DEF VisitsTrueOf
<1> QED
  BY <1>2, <1>3 DEF Visits!Admit, Visits!Return, Visits!Goes

\* The directory, the host and the receipts: no worker yet.
LEMMA VisitsHosts2 ==
  ASSUME VisitsConstants, VisitsInv2, VisitsInv', Visits!Create \/ Visits!Launch \/ Visits!RecordHelper \/ Visits!Ready \/ Visits!Extracted
                                \/ Visits!StopHost \/ Visits!PrepareSave
  PROVE  VisitsInv2'
<1>1. /\ visit.pc \in {"mkdir", "owner", "processes", "launch", "helper", "host", "stop", "save"}
      /\ UNCHANGED <<fed, pages, told>>
  BY DEF Visits!Create, Visits!Launch, Visits!RecordHelper, Visits!Ready, Visits!Extracted,
         Visits!StopHost, Visits!PrepareSave
<1>2. /\ visit.op \notin fed /\ "worker" \notin procs[visit.op]
      /\ visit.op \in Ops /\ pages[visit.op] = "absent"
      /\ visit.pc = "stop" => visit.outcome # "saved"
  BY <1>1, VisitsRunning DEF VisitsInv2, VisitsWorked, VisitsOfWorker
<1>3. visit \in VisitsVisiting /\ procs \in [Ops -> SUBSET Visits!Roles]
  BY DEF VisitsInv2, VisitsInv, VisitsTypes
<1>4. \A o \in Ops : o # visit.op => procs'[o] = procs[o]
  BY <1>2, <1>3
     DEF Visits!Create, Visits!Launch, Visits!RecordHelper, Visits!Ready, Visits!Extracted,
         Visits!StopHost, Visits!PrepareSave, Visits!Alive
<1>5. "worker" \notin procs'[visit.op]
  BY <1>2, <1>3
     DEF Visits!Create, Visits!Launch, Visits!RecordHelper, Visits!Ready, Visits!Extracted,
         Visits!StopHost, Visits!PrepareSave, Visits!Alive
<1>6. /\ visit'.op = visit.op
      /\ visit'.pc \in {"mkdir", "owner", "processes", "launch", "helper", "host", "stop", "save",
                        "spawn", "clean"}
      /\ visit'.pc \in {"stop", "clean"} => visit'.outcome # "saved"
      /\ visit'.pc = "clean" => visit'.outcome # None
  <2>1. CASE Visits!Create \/ Visits!RecordHelper \/ Visits!PrepareSave
    BY <1>1, <1>3, <2>1
       DEF Visits!Create, Visits!RecordHelper, Visits!PrepareSave, Visits!Goes, Visits!Halts,
           Visits!EndsWith, VisitsVisiting, VisitsConstants, VisitsAnswered
  <2>2. CASE Visits!Launch \/ Visits!Extracted
    BY <1>1, <1>3, <2>2, "saved" \notin Visits!Stops, None \notin Visits!Stops, None # "saved"
       DEF Visits!Launch, Visits!Extracted, Visits!Goes, Visits!Halts, Visits!EndsWith,
           VisitsVisiting, Visits!Stops, VisitsConstants, VisitsAnswered
  <2>3. CASE Visits!Ready
    BY <1>1, <1>3, <2>3 DEF Visits!Ready, Visits!Halts, VisitsVisiting
  <2>4. CASE Visits!StopHost
    BY <1>1, <1>2, <1>3, <2>4
       DEF Visits!StopHost, Visits!Goes, Visits!EndsWith, VisitsVisiting, VisitsConstants,
           VisitsAnswered
  <2> QED
    BY <2>1, <2>2, <2>3, <2>4
<1> QED
  BY <1>1, <1>2, <1>4, <1>5, <1>6, VisitsWorks2 DEF VisitsInv2, VisitsOfWorker

LEMMA VisitsFails2 ==
  ASSUME VisitsConstants, VisitsInv2, VisitsInv', Visits!CreateFails \/ Visits!CleanUpFails
  PROVE  VisitsInv2'
<1>1. /\ visit.pc # "idle" /\ told' = [told EXCEPT ![visit.op] = "storage"] /\ visit' = Visits!Idle
      /\ UNCHANGED <<procs, fed, pages>>
  BY DEF Visits!CreateFails, Visits!CleanUpFails, Visits!Return
<1>2. "storage" \in VisitsAnswered /\ "storage" \notin VisitsFinal
  BY DEF VisitsAnswered, VisitsFinal
<1> QED
  BY <1>1, <1>2, VisitsReturns2

LEMMA VisitsExpires2 ==
  ASSUME VisitsConstants, VisitsInv2, VisitsInv', Visits!Expire
  PROVE  VisitsInv2'
<1>1. /\ visit.pc # "idle" /\ visit'.pc = visit.pc /\ visit'.op = visit.op
      /\ visit'.outcome = visit.outcome /\ UNCHANGED <<procs, fed, pages, told>>
  BY DEF Visits!Expire, VisitsInv2, VisitsInv, VisitsTypes, VisitsVisiting
<1> QED
  BY <1>1, VisitsWorks2, VisitsRunning
     DEF VisitsInv2, VisitsOfWorker, VisitsWorked, VisitsTrueOf

LEMMA VisitsSpawns2 ==
  ASSUME VisitsConstants, VisitsInv2, VisitsInv', Visits!SpawnWorker
  PROVE  VisitsInv2'
<1>1. /\ visit.pc = "spawn" /\ visit.op \notin fed /\ "worker" \notin procs[visit.op]
      /\ visit.op \in Ops /\ pages[visit.op] = "absent" /\ UNCHANGED <<fed, pages, told>>
      /\ visit \in VisitsVisiting /\ procs \in [Ops -> SUBSET Visits!Roles]
  BY VisitsRunning
     DEF Visits!SpawnWorker, VisitsInv2, VisitsInv, VisitsTypes, VisitsWorked, VisitsOfWorker
<1>2. /\ visit'.op = visit.op /\ visit'.pc \in {"record", "decide"}
      /\ visit'.pc = "decide" => "worker" \notin procs'[visit.op]
      /\ \A o \in Ops : o # visit.op => procs'[o] = procs[o]
  BY <1>1 DEF Visits!SpawnWorker, Visits!Goes, Visits!Alive, VisitsVisiting
<1> QED
  BY <1>1, <1>2, VisitsWorks2 DEF VisitsInv2, VisitsOfWorker

LEMMA VisitsRecords2 ==
  ASSUME VisitsConstants, VisitsInv2, VisitsInv', Visits!RecordWorker
  PROVE  VisitsInv2'
<1>1. /\ visit.pc = "record" /\ visit.op \notin fed /\ visit.op \in Ops
      /\ pages[visit.op] = "absent" /\ UNCHANGED <<pages, told>>
      /\ visit \in VisitsVisiting /\ procs \in [Ops -> SUBSET Visits!Roles]
  BY VisitsRunning
     DEF Visits!RecordWorker, VisitsInv2, VisitsInv, VisitsTypes, VisitsWorked, VisitsOfWorker
<1>2. /\ visit'.op = visit.op /\ visit'.pc \in {"work", "decide"}
      /\ visit'.pc = "decide" => "worker" \notin procs'[visit.op]
      /\ \A o \in Ops : o # visit.op => procs'[o] = procs[o] /\ (o \in fed' <=> o \in fed)
  BY <1>1 DEF Visits!RecordWorker, Visits!Goes, Visits!Alive, VisitsVisiting
<1> QED
  BY <1>1, <1>2, VisitsWorks2 DEF VisitsInv2, VisitsOfWorker

LEMMA VisitsReaps2 ==
  ASSUME VisitsConstants, VisitsInv2, VisitsInv', Visits!WorkerReaped
  PROVE  VisitsInv2'
<1>1. /\ visit.pc = "work" /\ "worker" \notin procs[visit.op]
      /\ visit'.op = visit.op /\ visit'.pc = "decide" /\ UNCHANGED <<procs, fed, pages, told>>
  BY DEF Visits!WorkerReaped, Visits!Goes, VisitsInv2, VisitsInv, VisitsTypes, VisitsVisiting
<1> QED
  BY <1>1, VisitsWorks2, VisitsRunning DEF VisitsInv2, VisitsOfWorker

LEMMA VisitsDecides2 ==
  ASSUME VisitsConstants, VisitsInv2, VisitsInv', Visits!Decide
  PROVE  VisitsInv2'
<1>1. /\ visit.pc = "decide" /\ visit.op \in Ops /\ "worker" \notin procs[visit.op]
      /\ visit \in VisitsVisiting /\ pages \in [Ops -> {"absent", "prepared", "saved"}]
      /\ UNCHANGED <<procs, fed, told>> /\ (visit.op \notin fed => pages[visit.op] = "absent")
  BY VisitsRunning
     DEF Visits!Decide, VisitsInv2, VisitsInv, VisitsTypes, VisitsWorked, VisitsOfWorker
<1>2. /\ visit'.op = visit.op /\ visit'.pc = "clean"
      /\ pages' \in [Ops -> {"absent", "prepared", "saved"}]
      /\ \A o \in Ops : o # visit.op => pages'[o] = pages[o]
      /\ visit.op \notin fed => pages'[visit.op] = "absent"
      /\ visit'.outcome # None
      /\ visit'.outcome = "saved" => pages'[visit.op] = "saved"
      /\ visit'.outcome \in {"cancelled", "timeout", "failed"} => pages'[visit.op] = "absent"
  BY <1>1
     DEF Visits!Decide, Visits!EndsWith, Visits!Undone, VisitsVisiting, VisitsConstants,
         VisitsAnswered
<1> QED
  BY <1>1, <1>2, VisitsWorks2

LEMMA VisitsCleans2 ==
  ASSUME VisitsConstants, VisitsInv2, VisitsInv', Visits!CleanUp
  PROVE  VisitsInv2'
<1>1. /\ visit.pc = "clean" /\ visit.op \in Ops /\ "worker" \notin procs[visit.op]
      /\ visit \in VisitsVisiting /\ pages \in [Ops -> {"absent", "prepared", "saved"}]
      /\ UNCHANGED <<procs, fed, told>> /\ (visit.op \notin fed => pages[visit.op] = "absent")
      /\ visit.outcome # None /\ VisitsTrueOf(visit.outcome, visit.op)
  BY VisitsRunning
     DEF Visits!CleanUp, VisitsInv2, VisitsInv, VisitsTypes, VisitsWorked, VisitsOfWorker
<1>2. /\ visit'.op = visit.op /\ visit'.pc = "remove" /\ visit'.outcome = visit.outcome
      /\ pages' \in [Ops -> {"absent", "prepared", "saved"}]
      /\ \A o \in Ops : o # visit.op => pages'[o] = pages[o]
      /\ visit.op \notin fed => pages'[visit.op] = "absent"
      /\ visit'.outcome # None
      /\ visit'.outcome = "saved" => pages'[visit.op] = "saved"
      /\ visit'.outcome \in {"cancelled", "timeout", "failed"} => pages'[visit.op] = "absent"
  BY <1>1
     DEF Visits!CleanUp, Visits!Goes, Visits!Clear, Visits!Undone, VisitsVisiting, VisitsTrueOf
<1> QED
  BY <1>1, <1>2, VisitsWorks2

LEMMA VisitsRemoves2 ==
  ASSUME VisitsConstants, VisitsInv2, VisitsInv', NEW o \in Ops, Visits!RemoveDirectory(o) \/ Visits!RemoveFails(o)
  PROVE  VisitsInv2'
<1>1. spaces[o] # None /\ spaces[o].going /\ UNCHANGED <<procs, fed, pages>>
  BY DEF Visits!RemoveDirectory, Visits!RemoveFails
<1>2. CASE visit.op = o
  <2>1. /\ visit.pc = "remove" /\ "worker" \notin procs[visit.op]
        /\ visit.outcome # None /\ VisitsTrueOf(visit.outcome, visit.op)
    BY <1>1, <1>2 DEF VisitsInv2, VisitsInv, VisitsRemoval, VisitsWorked
  <2>2. CASE Visits!RemoveFails(o)
    <3>1. "storage" \in VisitsAnswered /\ "storage" \notin VisitsFinal
      BY DEF VisitsAnswered, VisitsFinal
    <3> QED
      BY <1>1, <1>2, <2>1, <2>2, <3>1, VisitsReturns2 DEF Visits!RemoveFails, Visits!Return
  <2>3. CASE Visits!RemoveDirectory(o)
    <3>1. visit.outcome \in VisitsAnswered
      BY <2>1
         DEF VisitsInv2, VisitsInv, VisitsTypes, VisitsVisiting, Visits!Outcomes, VisitsAnswered
    <3> QED
      BY <1>1, <1>2, <2>1, <2>3, <3>1, VisitsReturns2 DEF Visits!RemoveDirectory, Visits!Return
  <2> QED
    BY <2>2, <2>3
<1>3. CASE visit.op # o
  <2>1. UNCHANGED <<visit, told>>
    BY <1>3 DEF Visits!RemoveDirectory, Visits!RemoveFails
  <2> QED
    BY <1>1, <2>1, VisitsAside2 DEF VisitsInv2, VisitsOfWorker
<1> QED
  BY <1>2, <1>3

LEMMA VisitsOthers2 ==
  ASSUME VisitsConstants, VisitsInv2, VisitsInv',
         \/ Visits!BrowserStarts \/ Visits!Access \/ Visits!RecoveryFails \/ Visits!RecoveryEnds \/ Visits!Restart
         \/ \E o \in Ops : Visits!RemoveFile(o)
  PROVE  VisitsInv2'
<1>1. UNCHANGED <<visit, told, fed, pages>>
  BY DEF Visits!BrowserStarts, Visits!Access, Visits!RecoveryFails, Visits!RecoveryEnds,
         Visits!Restart, Visits!RemoveFile
<1>2. procs \in [Ops -> SUBSET Visits!Roles]
  BY DEF VisitsInv2, VisitsInv, VisitsTypes
<1>3. CASE Visits!BrowserStarts
  <2>1. \A o \in Ops : procs'[o] \subseteq procs[o] \cup {"helper", "browser"}
    BY <1>2, <1>3 DEF Visits!BrowserStarts, Visits!Alive
  <2> QED
    BY <1>1, <2>1, VisitsAside2 DEF VisitsInv2, VisitsOfWorker
<1>4. CASE ~Visits!BrowserStarts
  <2>1. UNCHANGED procs
    BY <1>4
       DEF Visits!Access, Visits!RecoveryFails, Visits!RecoveryEnds, Visits!Restart,
           Visits!RemoveFile
  <2> QED
    BY <1>1, <2>1, VisitsAside2 DEF VisitsInv2, VisitsOfWorker
<1> QED
  BY <1>3, <1>4

LEMMA VisitsRecovers2 ==
  ASSUME VisitsConstants, VisitsInv2, VisitsInv', NEW o \in Ops,
         \/ Visits!KillOrphan(o) \/ Visits!RecoverEntry(o) \/ Visits!WorkerSaves(o)
         \/ \E r \in Visits!Roles : Visits!ProcessEnds(o, r)
  PROVE  VisitsInv2'
<1>1. /\ procs \in [Ops -> SUBSET Visits!Roles] /\ pages \in [Ops -> {"absent", "prepared", "saved"}]
      /\ UNCHANGED <<visit, told, fed>>
  BY DEF VisitsInv2, VisitsInv, VisitsTypes, VisitsOfWorker, Visits!KillOrphan,
         Visits!RecoverEntry, Visits!WorkerSaves, Visits!ProcessEnds
<1>2. CASE Visits!KillOrphan(o) \/ \E r \in Visits!Roles : Visits!ProcessEnds(o, r)
  <2>1. UNCHANGED pages /\ \A p \in Ops : procs'[p] \subseteq procs[p]
    BY <1>1, <1>2 DEF Visits!KillOrphan, Visits!ProcessEnds
  <2> QED
    BY <1>1, <2>1, VisitsAside2
<1>3. CASE Visits!RecoverEntry(o)
  <2>1. /\ UNCHANGED procs /\ pages' \in [Ops -> {"absent", "prepared", "saved"}]
        /\ \A p \in Ops : pages'[p] # pages[p] => pages[p] = "prepared" /\ pages'[p] = "absent"
    BY <1>1, <1>3 DEF Visits!RecoverEntry, Visits!Clear, Visits!Undone
  <2> QED
    BY <1>1, <2>1, VisitsAside2
<1>4. CASE Visits!WorkerSaves(o)
  <2>1. visit.op = o => visit.pc \in {"record", "work"}
    BY <1>4
       DEF Visits!WorkerSaves, VisitsInv2, VisitsInv, VisitsWorked, VisitsClaimOfVisit,
           VisitsConstants
  <2>2. /\ UNCHANGED procs /\ pages' \in [Ops -> {"absent", "prepared", "saved"}]
        /\ \A p \in Ops : pages'[p] # pages[p] => p = o
        /\ "worker" \in procs[o] /\ o \in fed
    BY <1>1, <1>4 DEF Visits!WorkerSaves
  <2> QED
    BY <1>1, <2>1, <2>2, VisitsAside2
<1> QED
  BY <1>2, <1>3, <1>4

LEMMA VisitsEnds2 ==
  ASSUME VisitsConstants, VisitsInv2, VisitsInv', Visits!Quit \/ Visits!Crash
  PROVE  VisitsInv2'
<1>1. /\ visit' = Visits!Idle /\ UNCHANGED <<procs, fed, pages>>
      /\ told' = [o \in Ops |-> IF o = visit.op THEN "nothing" ELSE told[o]]
  BY DEF Visits!Quit, Visits!Crash, Visits!Gone
<1>2. visit'.pc = "idle" /\ visit'.op = None
  BY <1>1 DEF Visits!Idle
<1>3. \A o \in Ops : told'[o] = (IF o = visit.op THEN "nothing" ELSE told[o]) /\ "nothing" # None
  BY <1>1 DEF VisitsConstants, VisitsAnswered
<1>4. VisitsReplied' /\ VisitsOfWorker'
  BY <1>1, <1>3 DEF VisitsInv2, VisitsReplied, VisitsTrueOf, VisitsFinal, VisitsOfWorker
<1>5. VisitsUnfed' /\ VisitsWorked'
  BY <1>1, <1>2, <1>3 DEF VisitsInv2, VisitsUnfed, VisitsWorked
<1> QED
  BY <1>4, <1>5 DEF VisitsInv2

LEMMA VisitsSteps2 ==
  ASSUME VisitsConstants, VisitsInv2, VisitsInv', Visits!Next \/ UNCHANGED Visits!vars
  PROVE  VisitsInv2'
<1>1. CASE Visits!Adopt \/ Visits!Cancel \/ Visits!Close \/ Visits!Expire \/ Visits!Admit
  BY <1>1, VisitsAdopts2, VisitsClaims2, VisitsExpires2, VisitsQueued2
<1>2. CASE \/ Visits!Create \/ Visits!CreateFails \/ Visits!Launch \/ Visits!RecordHelper \/ Visits!Ready \/ Visits!Extracted \/ Visits!StopHost
           \/ Visits!PrepareSave
  BY <1>2, VisitsHosts2, VisitsFails2
<1>3. CASE Visits!SpawnWorker \/ Visits!RecordWorker \/ Visits!WorkerReaped \/ Visits!Decide \/ Visits!CleanUp \/ Visits!CleanUpFails
  BY <1>3, VisitsSpawns2, VisitsRecords2, VisitsReaps2, VisitsDecides2, VisitsCleans2,
     VisitsFails2
<1>4. CASE Visits!BrowserStarts \/ Visits!Access \/ Visits!RecoveryFails \/ Visits!RecoveryEnds \/ Visits!Restart
  BY <1>4, VisitsOthers2
<1>5. CASE Visits!Quit \/ Visits!Crash
  BY <1>5, VisitsEnds2
<1>6. ASSUME NEW o \in Ops,
             \/ Visits!Register(o) \/ Visits!RemoveFile(o) \/ Visits!RemoveDirectory(o) \/ Visits!RemoveFails(o)
             \/ Visits!KillOrphan(o) \/ Visits!RecoverEntry(o) \/ Visits!WorkerSaves(o)
             \/ \E r \in Visits!Roles : Visits!ProcessEnds(o, r)
      PROVE  VisitsInv2'
  BY <1>6, VisitsRegisters2, VisitsOthers2, VisitsRemoves2, VisitsRecovers2
<1>7. CASE UNCHANGED Visits!vars
  BY <1>7, VisitsAside2 DEF Visits!vars, VisitsInv2, VisitsOfWorker
<1> QED
  BY <1>1, <1>2, <1>3, <1>4, <1>5, <1>6, <1>7 DEF Visits!Next

LEMMA VisitsHolds2 == VisitsInv2 => Visits!AnswerIsOfDisk
BY DEF VisitsInv2, VisitsReplied, VisitsFinal, VisitsTrueOf, Visits!AnswerIsOfDisk
================================================================================

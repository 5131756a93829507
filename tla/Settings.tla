-------------------------------- MODULE Settings --------------------------------
(***************************************************************************)
(* The settings sheet (app/src/features/settings/useSettingsController.ts  *)
(* and SettingsSheet.tsx) over the commands of the desktop process.  The   *)
(* sheet may be closed and opened again while a call is in flight.         *)
(***************************************************************************)
EXTENDS Integers, FiniteSets

CONSTANTS None,           \* no model
          AsrModels,      \* the models to choose from
          MaxReads        \* bound on how often the settings are read

VARIABLES
  sheet,      \* the state of useSettingsController
  requests,   \* its calls in flight
  config      \* the model, the cache and the profile on disk

vars == <<sheet, requests, config>>

Request == [kind : {"load", "save", "cache", "profile", "dismiss"}, id : 0..MaxReads,
            model : AsrModels \cup {None}, step : {"sent", "read", "failed", "done"}]

TypeOK ==
  /\ sheet \in [open : BOOLEAN, draft : AsrModels, saved : AsrModels, loading : BOOLEAN,
                saving : BOOLEAN, migrated : BOOLEAN, 
                kept : SUBSET {"cache", "profile"}, known : BOOLEAN, reads : 0..MaxReads]
  /\ requests \subseteq Request
  /\ config \in [model : AsrModels, migrated : BOOLEAN, kept : SUBSET {"cache", "profile"}]

Init ==
  /\ config \in [model : AsrModels, migrated : {TRUE}, kept : {{"cache", "profile"}}]
  /\ sheet \in [open : {FALSE}, draft : AsrModels, saved : AsrModels, loading : {FALSE},
                saving : {FALSE}, migrated : {FALSE}, kept : {{}}, known : {FALSE}, reads : {0}]
  /\ sheet.draft = sheet.saved
  /\ requests = {}

-----------------------------------------------------------------------------
Idle == ~sheet.loading /\ ~sheet.saving
Send(kind) == requests' = requests \cup {[kind |-> kind, id |-> 0, step |-> "sent",
                                          model |-> IF kind = "save" THEN sheet.draft ELSE None]}

\* openSettings, with loadSettings.
openSettings ==
  /\ ~sheet.open /\ sheet.reads < MaxReads
  /\ sheet' = [sheet EXCEPT !.open = TRUE, !.loading = TRUE, !.reads = @ + 1]
  /\ requests' = requests \cup {[kind |-> "load", id |-> sheet.reads + 1,
                                 model |-> None, step |-> "sent"]}
  /\ UNCHANGED config

closeSettings ==
  /\ sheet.open /\ sheet' = [sheet EXCEPT !.open = FALSE]
  /\ UNCHANGED <<requests, config>>

\* The three reads of loadSettings: the configuration, then the rest.
LoadReads(r) ==
  /\ r.kind = "load" /\ r.step = "sent"
  /\ requests' = (requests \ {r}) \cup {[r EXCEPT !.step = "read", !.model = config.model]}
  /\ UNCHANGED <<sheet, config>>

Loaded(r) ==
  /\ r.kind = "load" /\ r.step = "read"
  /\ requests' = requests \ {r}
  /\ \/ sheet' = [sheet EXCEPT !.loading = FALSE]          \* one of them fails
     \/ sheet' = [sheet EXCEPT !.loading = FALSE, !.draft = r.model, !.saved = r.model,
                               !.migrated = config.migrated, !.kept = config.kept,
                               !.known = TRUE]
  /\ UNCHANGED config

\* updateSettingsDraft and discardSettings.
updateSettingsDraft ==
  /\ sheet.open /\ Idle
  /\ \E m \in AsrModels \ {sheet.draft} : sheet' = [sheet EXCEPT !.draft = m]
  /\ UNCHANGED <<requests, config>>

settingsDirty == sheet.open /\ sheet.draft # sheet.saved
discardSettings ==
  /\ settingsDirty /\ ~sheet.saving
  /\ sheet' = [sheet EXCEPT !.draft = sheet.saved]
  /\ UNCHANGED <<requests, config>>

\* saveSettings, clearAudioReviewCacheFromSettings and clearProfileFromSettings.
Change(kind) ==
  /\ sheet.open /\ Idle
  /\ kind = "cache" => sheet.known
  /\ sheet' = [sheet EXCEPT !.saving = TRUE] /\ Send(kind)
  /\ UNCHANGED config

dismissAsrModelMigrationNotice ==
  /\ sheet.open /\ sheet.migrated
  /\ sheet' = [sheet EXCEPT !.migrated = FALSE] /\ Send("dismiss")
  /\ UNCHANGED config

\* The desktop process carries a change out, or fails.
Changes(r) ==
  /\ r.kind # "load" /\ r.step = "sent"
  /\ \/ /\ config' = CASE r.kind = "save" -> [config EXCEPT !.model = r.model]
                       [] r.kind \in {"cache", "profile"} -> [config EXCEPT !.kept = @ \ {r.kind}]
                       [] r.kind = "dismiss" -> [config EXCEPT !.migrated = FALSE]
        /\ requests' = (requests \ {r}) \cup {[r EXCEPT !.step = "done"]}
     \/ requests' = (requests \ {r}) \cup {[r EXCEPT !.step = "failed"]} /\ UNCHANGED config
  /\ UNCHANGED <<sheet>>

\* Fault: a change that fails leaves the buttons disabled.
ChangedForGood(r) ==
  /\ r.kind # "load" /\ r.step \in {"done", "failed"}
  /\ requests' = requests \ {r}
  /\ sheet' = IF r.step = "failed" THEN sheet ELSE [sheet EXCEPT !.saving = FALSE]
  /\ UNCHANGED config

Changed(r) ==
  /\ r.kind # "load" /\ r.step \in {"done", "failed"}
  /\ requests' = requests \ {r}
  /\ sheet' = CASE r.kind = "dismiss" -> [sheet EXCEPT !.migrated = @ \/ r.step = "failed"]
                [] r.kind # "dismiss" /\ r.step = "failed" -> [sheet EXCEPT !.saving = FALSE]
                [] r.kind = "save" /\ r.step = "done" ->
                     [sheet EXCEPT !.saving = FALSE, !.draft = r.model, !.saved = r.model,
                                   !.migrated = config.migrated]
                [] OTHER -> [sheet EXCEPT !.saving = FALSE, !.kept = @ \ {r.kind}]
  /\ UNCHANGED config

Next ==
  \/ openSettings \/ closeSettings \/ updateSettingsDraft \/ discardSettings
  \/ \E kind \in {"save", "cache", "profile"} : Change(kind)
  \/ dismissAsrModelMigrationNotice
  \/ \E r \in requests : LoadReads(r) \/ Loaded(r) \/ Changes(r) \/ Changed(r)

Spec == Init /\ [][Next]_vars

-----------------------------------------------------------------------------
\* The buttons are disabled for a call that is in flight, also after the sheet
\* was closed and opened again.
BusyWillEnd ==
  /\ sheet.loading => \E r \in requests : r.kind = "load"
  /\ sheet.saving => \E r \in requests : r.kind \in {"save", "cache", "profile"}
===============================================================================

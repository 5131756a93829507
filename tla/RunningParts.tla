--------------------------- MODULE RunningParts -----------------------------
(***************************************************************************)
(* Components that run what the user, or the administrator, sees: the      *)
(* controllers of the window, the imports, and the page, the keys and the  *)
(* process of the server.  Each is by itself, with its own variables.      *)
(***************************************************************************)
EXTENDS PartsConstants

VARIABLES
  desk, account, pending, call, loading, redeeming, request,
  task, cache, member, intent, deletion, lease, adds, active,
  update, checks, work, front, shown, preflight, native,
  model, downloads, cancels, component, lane, stopping, events, complete, submission,
  language, stored, system,
  sheet, requests, config,
  nav, move, list, detail, removal, dropping, flow, kept, odd,
  shelf, view, reading, change, creation, making, made,
  metadata, rows, listing, displayed, opening, deed, slip, asking, newest,
  prefs, wizard, summaryOpen, calls, busy, held, running, awaiting,
  claim, visit, spaces, procs, fed, pages, told, app,
  services, host, saves, checkouts, credits,
  sessions, cookie, tabs, posts, granted,
  phase, runtime, ready, fastify, database, closing, deadline, exit, serving, probe

Panel == INSTANCE AccountPanel
Deletion == INSTANCE HistoryDeletion
Upkeep == INSTANCE Maintenance
Models == INSTANCE ModelDownload
Locale == INSTANCE Language
Preferences == INSTANCE Settings
Window == INSTANCE Shell WITH Collections <- OpenCollections
Shelves == INSTANCE NoteCollections
Deeds == INSTANCE NoteActions
Wishes == INSTANCE PreferenceFlow
Visits == INSTANCE WebPageVisit
Safe == INSTANCE ServiceKeys
Console == INSTANCE AdminConsole
Process == INSTANCE ServerLife

\* The same of what runs: no note, profile, word, request or import is None, and the
\* language that the window falls back to is one that it has.
ASSUME RunningAssumption ==
  /\ MaxReads \in Nat /\ MaxDownloads \in Nat /\ MaxLogins \in Nat /\ MaxPosts \in Nat
  /\ None \notin Profiles /\ Profiles \cap {"missing", "skipped", "invalid"} = {}
  /\ None \notin Notes /\ "collections" \notin Notes
  /\ None \notin {"collections", "0"} /\ None \notin Nat
  /\ "system" \notin Languages /\ Fallback \in Languages
  /\ None \notin [tab : Tabs \cup {"gone"}, button : Console!Buttons, cookie : Nat, csrf : Nat,
                   step : {"sent", "known", "ok", "refused", "over"}]
  /\ MaxBoots \in Nat \ {0} /\ MaxCrashes \in Nat /\ None \notin Ops
  /\ None \notin [op : Ops, claimed : BOOLEAN, cancelled : BOOLEAN]
  /\ None \notin [files : SUBSET Visits!Controls, members : SUBSET Visits!Roles,
                  boot : 1..MaxBoots, valid : BOOLEAN, going : BOOLEAN]
  /\ None \notin {"saved", "cancelled", "timeout", "failed", "storage", "nothing"}

panelVars == <<desk, account, pending, call, loading, redeeming, request>>
deletionVars == <<task, cache, member, intent, deletion, lease, adds, active>>
maintenanceVars == <<update, checks, work, front, shown, preflight, native>>
modelsVars == <<model, downloads, cancels, component, lane, stopping, events,
                complete, submission>>
languageVars == <<language, stored, system>>
settingsVars == <<sheet, requests, config>>
shellVars == <<nav, move, list, detail, removal, dropping, flow, kept, odd>>
collectionsVars == <<shelf, view, reading, change, creation, making, made>>
notesVars == <<metadata, rows, listing, displayed, opening, deed, slip,
               asking, newest>>
preferencesVars == <<prefs, wizard, summaryOpen, calls, busy, held, running,
                     awaiting>>
importVars == <<claim, visit, spaces, procs, fed, pages, told, app>>
keysVars == <<services, host, saves, checkouts, credits>>
consoleVars == <<sessions, cookie, tabs, posts, granted>>
serverVars == <<phase, runtime, ready, fastify, database, closing, deadline,
                exit, serving, probe>>
=============================================================================

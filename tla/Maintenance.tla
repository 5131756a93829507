------------------------------ MODULE Maintenance ------------------------------
(***************************************************************************)
(* Updates of the application and moves of its data, as the front end lets *)
(* the user do them (app/src/features/updates/useAppUpdateController.ts,   *)
(* updateState.ts, features/dataStorage/useDataStorageController.ts and    *)
(* its sheet, which covers the window): each keeps out of the way of the   *)
(* other.  The desktop process (data_storage.rs, data_storage/preflight.rs)*)
(* answers calls that the user may have given up meanwhile.                *)
(***************************************************************************)
EXTENDS Integers, FiniteSets

CONSTANT MaxChecks   \* bound on the checks for updates

VARIABLES
  update,     \* UpdateState with the references of its controller
  checks,     \* the checks for updates in flight
  work,       \* what else the user does: a run, a download, an edit
  front,      \* the controller of the data storage
  shown,      \* the operation of the state that it shows
  preflight,  \* the session of the newest preflight in the desktop process
  native      \* the operation of the desktop process

vars == <<update, checks, work, front, shown, preflight, native>>

Installable == {"available", "postponed"}
Busy == {"checking", "downloading", "installing"}
Statuses == Busy \cup Installable \cup {"idle", "ready_to_restart", "up_to_date", "failed"}

Operations == {"none", "waiting", "prepared", "moving", "restart_required", "cleaning"}

UpdateStates ==
  [status : Statuses, found : BOOLEAN, sequence : 0..MaxChecks, active : BOOLEAN,
   awaiting : BOOLEAN, started : BOOLEAN, postponed : BOOLEAN]
Fronts ==
  [step : {"idle", "wait", "begin", "call", "stop"}, kind : {"migration", "resume", "cleanup"},
   cancelled : BOOLEAN, registered : BOOLEAN, preview : {"none", "migration", "cleanup"},
   call : {"none", "confirm", "cancel", "ended"}, open : BOOLEAN]
Preflights ==
  [phase : {"none", "begun", "claimed", "over"}, cancelled : BOOLEAN, done : BOOLEAN,
   answer : {"none", "ok", "failed"}]

TypeOK ==
  /\ update \in UpdateStates
  /\ checks \subseteq [sequence : 1..MaxChecks, silent : BOOLEAN]
  /\ work \in {"none", "run", "edit"}
  /\ front \in Fronts
  /\ shown \in Operations
  /\ preflight \in Preflights
  /\ native \in Operations

Init ==
  /\ update = [status |-> "idle", found |-> FALSE, sequence |-> 0, active |-> FALSE,
               awaiting |-> FALSE, started |-> FALSE, postponed |-> FALSE]
  /\ checks = {} /\ work = "none"
  /\ front = [step |-> "idle", kind |-> "migration", cancelled |-> FALSE, registered |-> FALSE,
              preview |-> "none", call |-> "none", open |-> FALSE]
  /\ native \in {"none", "waiting", "prepared"} /\ shown = native
  /\ preflight = [phase |-> "none", cancelled |-> FALSE, done |-> FALSE, answer |-> "none"]

-----------------------------------------------------------------------------
Preparing == front.step # "idle"
Visible == front.open \/ shown # "none"     \* the sheet is over everything else
Storage == <<front, shown, preflight, native>>
Updates == <<update, checks>>

\* checkForUpdates: not once an update is being installed or is installed.
checkForUpdates(silent) ==
  /\ update.sequence < MaxChecks
  /\ IF update.active THEN UNCHANGED <<checks, update>>
     ELSE /\ checks' = checks \cup {[sequence |-> update.sequence + 1, silent |-> silent]}
          /\ update' = [update EXCEPT !.sequence = @ + 1, !.status = "checking",
                                      !.started = @ \/ silent,
                                      !.postponed = @ /\ silent]

\* The button, and the silent check after the start unless it was postponed.
Check ==
  /\ ~Visible /\ update.status \notin Busy
  /\ checkForUpdates(FALSE)
  /\ UNCHANGED <<work, Storage>>

Startup ==
  /\ ~update.started
  /\ IF update.postponed
     THEN update' = [update EXCEPT !.started = TRUE] /\ UNCHANGED checks
     ELSE checkForUpdates(TRUE)
  /\ UNCHANGED <<work, Storage>>

\* The answer of a check; one that was overtaken is not committed.
CheckAnswer(c) ==
  /\ checks' = checks \ {c}
  /\ IF c.sequence # update.sequence THEN UNCHANGED update
     ELSE \/ update' = [update EXCEPT !.found = TRUE, !.status = "available"]
          \/ update' = [update EXCEPT !.found = FALSE,
                                      !.status = IF c.silent THEN "idle" ELSE "up_to_date"]
          \/ update' = [update EXCEPT !.status = IF c.silent THEN "idle" ELSE "failed"]
  /\ UNCHANGED <<work, Storage>>

\* installUpdate, with invalidateUpdateChecks; a run or a download forbids it.
Install ==
  /\ ~Visible /\ ~Preparing
  /\ update.status \in Installable /\ ~update.active /\ update.sequence < MaxChecks
  /\ work # "run" /\ update.found
  /\ update' = [update EXCEPT !.sequence = @ + 1, !.active = TRUE, !.status = "downloading"]
  /\ UNCHANGED <<checks, work, Storage>>

\* Fault: the flag is reset however the installation ends.
InstalledReset ==
  /\ update.active /\ ~update.awaiting
  /\ \/ update.status = "downloading" /\ update' = [update EXCEPT !.status = "installing"]
     \/ update' = [update EXCEPT !.awaiting = TRUE, !.status = "ready_to_restart",
                                 !.active = FALSE]
     \/ update' = [update EXCEPT !.active = FALSE, !.status = "failed"]
  /\ UNCHANGED <<checks, work, Storage>>

\* Events of the download, and its end.
Installed ==
  /\ update.active /\ ~update.awaiting
  /\ \/ update.status = "downloading" /\ update' = [update EXCEPT !.status = "installing"]
     \/ update' = [update EXCEPT !.awaiting = TRUE, !.status = "ready_to_restart"]
     \/ update' = [update EXCEPT !.active = FALSE, !.status = "failed"]
  /\ UNCHANGED <<checks, work, Storage>>

postponeUpdateReminder ==
  /\ ~Visible /\ update.status \in Installable /\ update.sequence < MaxChecks
  /\ update' = [update EXCEPT !.sequence = @ + 1, !.status = "postponed", !.postponed = TRUE]
  /\ UNCHANGED <<checks, work, Storage>>

\* prepare_restart refuses while the desktop process has the data for itself;
\* what was moved is validated then.
Restarts ==
  /\ preflight.phase # "claimed" /\ native \in {"none", "restart_required"} /\ work = "none"
  /\ update' = [status |-> "idle", found |-> FALSE, sequence |-> 0, active |-> FALSE,
                awaiting |-> FALSE, started |-> FALSE, postponed |-> update.postponed]
  /\ checks' = {} /\ native' = "none" /\ shown' = "none"
  /\ front' = [step |-> "idle", kind |-> "migration", cancelled |-> FALSE,
               registered |-> FALSE, preview |-> "none", call |-> "none", open |-> FALSE]
  /\ preflight' = [phase |-> "none", cancelled |-> FALSE, done |-> FALSE, answer |-> "none"]
  /\ UNCHANGED work

restartForUpdate == update.status = "ready_to_restart" /\ shown = "none" /\ Restarts
restartForDataStorage == shown = "restart_required" /\ front.call = "none" /\ Restarts

\* Runs, downloads and edits start while the window is free, and end.
Work ==
  /\ \/ work = "none" /\ ~Visible /\ work' \in {"run", "edit"}
     \/ work # "none" /\ work' = "none"
  /\ UNCHANGED <<Updates, Storage>>

-----------------------------------------------------------------------------
\* begin, resume and prepareCleanup: the preparation is asked for.
Begin(kind) ==
  /\ front.step = "idle" /\ front.preview = "none" /\ front.call = "none"
  /\ CASE kind = "resume" -> shown \in {"waiting", "moving"}
       [] OTHER -> shown = "none"
  /\ front' = [front EXCEPT !.step = "wait", !.kind = kind, !.cancelled = FALSE,
                            !.registered = FALSE, !.open = TRUE]
  /\ UNCHANGED <<Updates, work, shown, preflight, native>>

preparationBusy == work = "run" \/ update.status \in Busy

\* Fault: an update that is being installed is not waited for.
PrepareAtOnce ==
  /\ front.step = "wait" /\ work = "none"
  /\ front' = [front EXCEPT !.step = "begin"]
  /\ UNCHANGED <<Updates, work, shown, preflight, native>>

\* prepare, every 150 ms until nothing is in its way.
Prepare ==
  /\ front.step = "wait" /\ ~preparationBusy /\ work # "edit" /\ ~update.awaiting
  /\ front' = [front EXCEPT !.step = "begin"]
  /\ UNCHANGED <<Updates, work, shown, preflight, native>>

\* begin_data_storage_preflight and the answer to it: given up meanwhile, the
\* preparation is cancelled in the desktop process too.
Registered ==
  /\ front.step = "begin"
  /\ \/ /\ preflight.phase \notin {"begun", "claimed"}
        /\ preflight' = [phase |-> IF front.cancelled THEN "over" ELSE "begun",
                         cancelled |-> front.cancelled, done |-> FALSE, answer |-> "none"]
        /\ front' = [front EXCEPT !.registered = TRUE,
                                  !.step = IF front.cancelled THEN "stop" ELSE "call"]
     \/ front' = [front EXCEPT !.step = "stop"] /\ UNCHANGED preflight
  /\ UNCHANGED <<Updates, work, shown, native>>

\* cancelPreparing.
CancelPreparing ==
  /\ Preparing /\ ~front.cancelled
  /\ front' = IF front.step = "wait"
              THEN [front EXCEPT !.step = "idle", !.open = FALSE]
              ELSE [front EXCEPT !.cancelled = TRUE]
  /\ UNCHANGED <<Updates, work, shown, preflight, native>>

\* cancel_data_storage_preflight: a preparation under way is told to stop, one
\* that is complete is withdrawn; the moving of files is not stopped.
NativeCancel ==
  /\ front.cancelled /\ front.registered /\ ~preflight.cancelled
  /\ ~(preflight.phase = "claimed" /\ native = "moving")
  /\ preflight' = [preflight EXCEPT !.cancelled = TRUE,
                                    !.phase = IF @ = "begun" THEN "over" ELSE @]
  /\ native' = IF preflight.phase = "over" /\ preflight.done /\ front.kind # "cleanup"
                    /\ native \in {"waiting", "prepared"} THEN "none" ELSE native
  /\ UNCHANGED <<Updates, work, front, shown>>

\* The call of the preparation arrives: its session is claimed, unless a web
\* page is open.
Claim ==
  /\ front.step = "call" /\ preflight.answer = "none" /\ preflight.phase \in {"begun", "over"}
  /\ IF preflight.cancelled
     THEN preflight' = [preflight EXCEPT !.answer = "failed"] /\ UNCHANGED native
     ELSE \/ preflight' = [preflight EXCEPT !.answer = "failed"] /\ UNCHANGED native
          \/ /\ preflight' = [preflight EXCEPT !.phase = "claimed"]
             /\ native' = IF front.kind = "migration" THEN "waiting" ELSE native
  /\ UNCHANGED <<Updates, work, front, shown>>

\* Fault: what was prepared while the user gave up stays.
PreparedKept ==
  /\ preflight.phase = "claimed" /\ preflight.answer = "none" /\ native # "moving"
  /\ \/ /\ preflight' = [preflight EXCEPT !.phase = "over", !.done = TRUE, !.answer = "ok"]
        /\ native' = IF front.kind = "cleanup" THEN native ELSE "prepared"
     \/ /\ preflight' = [preflight EXCEPT !.phase = "over", !.done = native = "waiting",
                                          !.answer = "failed"]
        /\ native' = IF preflight.cancelled /\ front.kind # "cleanup" THEN "none" ELSE native
  /\ UNCHANGED <<Updates, work, front, shown>>

\* The preparation ends: with a plan, an error that keeps the operation (the
\* session knows it), or the withdrawal that the session asks for.
Prepared ==
  /\ preflight.phase = "claimed" /\ preflight.answer = "none" /\ native # "moving"
  /\ \/ /\ ~preflight.cancelled
        /\ preflight' = [preflight EXCEPT !.phase = "over", !.done = TRUE, !.answer = "ok"]
        /\ native' = IF front.kind = "cleanup" THEN native ELSE "prepared"
     \/ /\ preflight' = [preflight EXCEPT !.phase = "over", !.done = native = "waiting",
                                          !.answer = "failed"]
        /\ native' = IF preflight.cancelled /\ front.kind # "cleanup" THEN "none" ELSE native
  /\ UNCHANGED <<Updates, work, front, shown>>

\* A resumption goes on with the files.
Resumes ==
  /\ preflight.phase = "claimed" /\ front.kind = "resume" /\ preflight.answer = "none"
  /\ \/ native = "waiting" /\ ~preflight.cancelled /\ native' = "moving" /\ UNCHANGED preflight
     \/ /\ native = "moving" /\ native' \in {"moving", "restart_required"}
        /\ preflight' = [preflight EXCEPT !.phase = "over",
                                          !.answer = IF native' = "moving" THEN "failed" ELSE "ok"]
  /\ UNCHANGED <<Updates, work, front, shown>>

\* The answer of the preparation: its preview, unless it was given up.
CallAnswer ==
  /\ front.step = "call" /\ preflight.answer # "none"
  /\ front' = [front EXCEPT !.step = "stop",
                            !.preview = IF front.cancelled \/ preflight.answer = "failed" THEN @
                                        ELSE CASE front.kind = "cleanup" -> "cleanup"
                                               [] native = "prepared" -> "migration"
                                               [] OTHER -> @]
  /\ shown' = IF front.cancelled THEN shown ELSE native
  /\ UNCHANGED <<Updates, work, preflight, native>>

\* Its catch and finally: a session that was not claimed is cancelled, and the
\* state is read again.
Ends ==
  /\ front.step = "stop"
  /\ front.cancelled /\ front.registered => preflight.cancelled
  /\ front' = [front EXCEPT !.step = "idle", !.open = @ /\ ~front.cancelled,
                            !.preview = IF front.cancelled THEN "none" ELSE @]
  /\ preflight' = [preflight EXCEPT !.phase = IF @ = "begun" THEN "over" ELSE @]
  /\ shown' = native
  /\ UNCHANGED <<Updates, work, native>>

-----------------------------------------------------------------------------
\* confirm: the plan is carried out; the state follows by events.
Confirm ==
  /\ front.step = "idle" /\ front.preview # "none" /\ front.call = "none"
  /\ front' = [front EXCEPT !.call = "confirm", !.preview = "none"]
  /\ native' = CASE front.preview = "cleanup" /\ native = "none" -> "cleaning"
                 [] front.preview = "migration" /\ native = "prepared" -> "moving"
                 [] OTHER -> native
  /\ UNCHANGED <<Updates, work, shown, preflight>>

Carried ==
  /\ front.call = "confirm" /\ preflight.phase # "claimed"
  /\ native' \in CASE native = "moving" -> {"moving", "restart_required"}
                   [] native = "cleaning" -> {"none", "cleaning"}
                   [] OTHER -> {native}
  /\ front' = [front EXCEPT !.call = "ended"]
  /\ UNCHANGED <<Updates, work, shown, preflight>>

\* cancel: the operation that is shown, or the one of the preview.
Cancel ==
  /\ front.step = "idle" /\ front.call = "none"
  /\ shown \in {"waiting", "prepared", "cleaning"} \/ front.preview = "migration"
  /\ front' = [front EXCEPT !.call = "cancel", !.preview = "none"]
  /\ UNCHANGED <<Updates, work, shown, preflight, native>>

Cancelled ==
  /\ front.call = "cancel"
  /\ native' = IF native \in {"waiting", "prepared", "cleaning"} THEN "none" ELSE native
  /\ front' = [front EXCEPT !.call = "ended"]
  /\ UNCHANGED <<Updates, work, shown, preflight>>

\* The answer of a confirmation or a cancellation.
Answered ==
  /\ front.call = "ended"
  /\ shown' = native
  /\ front' = [front EXCEPT !.call = "none", !.open = @ /\ native # "none"]
  /\ UNCHANGED <<Updates, work, preflight, native>>

\* The sheet is closed when nothing is under way.
Close ==
  /\ front.step = "idle" /\ front.call = "none" /\ shown = "none" /\ front.open
  /\ front.preview \in {"none", "cleanup"}
  /\ front' = [front EXCEPT !.preview = "none", !.open = FALSE]
  /\ UNCHANGED <<Updates, work, shown, preflight, native>>

\* An event of the desktop process, or the poll while something is under way.
Event ==
  /\ shown # native
  /\ shown' = native
  /\ UNCHANGED <<Updates, work, front, preflight, native>>

Next ==
  \/ Check \/ Startup \/ \E c \in checks : CheckAnswer(c)
  \/ Install \/ Installed \/ postponeUpdateReminder \/ restartForUpdate
  \/ restartForDataStorage \/ Work
  \/ \E kind \in {"migration", "resume", "cleanup"} : Begin(kind)
  \/ Prepare \/ Registered \/ CancelPreparing \/ NativeCancel \/ Claim \/ Prepared \/ Resumes
  \/ CallAnswer \/ Ends \/ Confirm \/ Carried \/ Cancel \/ Cancelled \/ Answered
  \/ Close \/ Event

Spec == Init /\ [][Next]_vars

-----------------------------------------------------------------------------
\* An update is installed only while no files are moved or cleaned up, and once
\* it is installed the move of the data waits for the restart.
InstallOrMove ==
  update.active => native \notin {"moving", "cleaning"} /\ preflight.phase # "claimed"

\* An update that is installed stays to be restarted into, whatever is checked,
\* postponed or answered late.
InstalledStays ==
  update.awaiting => update.status = "ready_to_restart"

\* A preparation of a move that the user gave up leaves no operation behind,
\* wherever the desktop process was when it learned of that.
GivenUpIsGone ==
  /\ front.step = "idle" /\ front.cancelled /\ front.kind = "migration" /\ front.registered
  => native \notin {"waiting", "prepared"}
===============================================================================

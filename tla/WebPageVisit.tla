----------------------------- MODULE WebPageVisit -----------------------------
(***************************************************************************)
(* Importing a web page (app/src-tauri/src/web_page.rs with                *)
(* web_page/session.rs, ownership/native.rs, ownership/removal.rs and      *)
(* ownership/quarantine.rs; worker_runtime/native_webview_host.rs): one    *)
(* operation at a time is registered, claimed and run.  It keeps a         *)
(* directory with an owner receipt, the processes it has started and a     *)
(* receipt of what it lets the worker save; whatever it leaves behind is   *)
(* for the next start of the desktop to recover (data_storage.rs).         *)
(* The build is that for Windows, whose host has a browser of its own.     *)
(***************************************************************************)
EXTENDS Integers, FiniteSets

CONSTANTS
  Ops,         \* operations, each with its task
  MaxBoots,    \* starts of the desktop
  MaxCrashes,  \* its crashes
  None

VARIABLES
  claim,   \* WebPageOperations::active
  visit,   \* the operation that runs
  spaces,  \* its directory under .frameq-system-webviews
  procs,   \* the processes of each operation that are alive
  fed,     \* the operations whose worker has been given the article
  pages,   \* what the disk has of each operation's task
  told,    \* what the window was answered
  app      \* the desktop process

vars == <<claim, visit, spaces, procs, fed, pages, told, app>>

Roles == {"helper", "browser", "worker"}
\* half: a receipt whose write was cut off.
Controls == {"owner", "processes", "receipt", "half"}
Outcomes == {"saved", "cancelled", "timeout", "failed", "storage"}

TypeOK ==
  /\ claim \in [op : Ops, claimed : BOOLEAN, cancelled : BOOLEAN] \cup {None}
  /\ visit \in [pc : {"idle", "queued", "mkdir", "owner", "processes", "launch", "helper",
                       "host", "stop", "save", "spawn", "record", "work", "decide",
                       "clean", "remove"},
                op : Ops \cup {None}, outcome : Outcomes \cup {None}, late : BOOLEAN]
  /\ spaces \in [Ops -> [files : SUBSET Controls, members : SUBSET Roles, boot : 1 .. MaxBoots,
                          valid : BOOLEAN, going : BOOLEAN] \cup {None}]
  /\ procs \in [Ops -> SUBSET Roles] /\ fed \subseteq Ops
  /\ pages \in [Ops -> {"absent", "prepared", "saved"}]
  /\ told \in [Ops -> Outcomes \cup {"nothing", None}]
  /\ app \in [up : BOOLEAN, closing : BOOLEAN, paused : BOOLEAN, boot : 1 .. MaxBoots,
              crashes : 0 .. MaxCrashes, recovery : {"none", "busy", "ok", "failed"}]

Idle == [pc |-> "idle", op |-> None, outcome |-> None, late |-> FALSE]

Init ==
  /\ claim = None /\ visit = Idle
  /\ spaces = [o \in Ops |-> None] /\ procs = [o \in Ops |-> {}] /\ fed = {}
  /\ pages = [o \in Ops |-> "absent"] /\ told = [o \in Ops |-> None]
  /\ app = [up |-> TRUE, closing |-> FALSE, paused |-> FALSE, boot |-> 1, crashes |-> 0,
            recovery |-> "none"]

-----------------------------------------------------------------------------
\* OperationClaim::register and adopt, cancel_matching, and cancel_for_close with
\* the admission that a closing window no longer gets.
Claimed == claim # None /\ claim.claimed

Register(o) ==
  /\ app.up /\ ~app.closing /\ ~Claimed
  /\ told[o] = None  \* an identifier is used once
  /\ claim' = [op |-> o, claimed |-> FALSE, cancelled |-> FALSE]
  /\ UNCHANGED <<visit, spaces, procs, fed, pages, told, app>>

Adopt ==
  /\ ~app.closing /\ claim # None /\ ~Claimed
  /\ claim' = [claim EXCEPT !.claimed = TRUE]
  /\ visit' = [Idle EXCEPT !.pc = "queued", !.op = claim.op]
  /\ UNCHANGED <<spaces, procs, fed, pages, told, app>>

Withdrawn == IF Claimed THEN [claim EXCEPT !.cancelled = TRUE] ELSE None

Cancel ==
  /\ claim # None
  /\ claim' = Withdrawn
  /\ UNCHANGED <<visit, spaces, procs, fed, pages, told, app>>

Close ==
  /\ app.up /\ ~app.closing
  /\ app' = [app EXCEPT !.closing = TRUE]
  /\ claim' = Withdrawn
  /\ UNCHANGED <<visit, spaces, procs, fed, pages, told>>

-----------------------------------------------------------------------------
\* require_recovery marks the library; the mark is memory of the process.
Pauses == app' = [app EXCEPT !.paused = TRUE]

Return(answer) ==
  /\ told' = [told EXCEPT ![visit.op] = answer]
  /\ claim' = None /\ visit' = Idle

Goes(pc) == visit' = [visit EXCEPT !.pc = pc]
EndsWith(outcome) == visit' = [visit EXCEPT !.pc = "clean", !.outcome = outcome]
Mine == spaces[visit.op]
Kept(w) == spaces' = [spaces EXCEPT ![visit.op] = w]
Alive(ps) == procs' = [procs EXCEPT ![visit.op] = ps]

\* Why a step may be the last of the work: the flag, the deadline, or a failure.
Stops == {"failed"} \cup {a \in {"cancelled"} : claim.cancelled}
                    \cup {a \in {"timeout"} : visit.late}

Expire ==
  /\ visit.pc \notin {"idle", "queued"} /\ ~visit.late
  /\ visit' = [visit EXCEPT !.late = TRUE]
  /\ UNCHANGED <<claim, spaces, procs, fed, pages, told, app>>

\* NativeSession::load and check: a whole owner receipt of executables that are
\* still the same; members and recover_saved read the other two.
Loads(w) == "owner" \in w.files /\ w.valid
Readable(w) == Loads(w) /\ "processes" \in w.files /\ "half" \notin w.files
Older(o) == spaces[o] # None /\ spaces[o].boot < app.boot

\* recover_task_artifacts: a commit that was only prepared is undone.
Undone(o) == pages' = [pages EXCEPT ![o] = IF @ = "prepared" THEN "absent" ELSE @]

\* run_claimed_web_page up to the directory: the lane may be taken, the native
\* host may be missing, and what the desktop itself has left must be readable.
Admit ==
  /\ visit.pc = "queued"
  /\ \/ claim.cancelled /\ Return("cancelled")
     \/ (app.paused \/ app.recovery = "failed") /\ Return("storage")
     \/ ~app.paused /\ app.recovery = "ok" /\ Return("failed")
     \/ /\ app.recovery = "ok" /\ \E o \in Ops : spaces[o] # None /\ ~Loads(spaces[o])
        /\ Return("storage")
     \/ /\ ~claim.cancelled /\ ~app.paused /\ app.recovery = "ok"
        /\ \A o \in Ops : spaces[o] # None => Loads(spaces[o])
        /\ Goes("mkdir") /\ UNCHANGED <<told, claim>>
  /\ UNCHANGED <<spaces, procs, fed, pages, app>>

\* NativeSession::create: the directory, its owner, its empty list of processes.
\* An error of it is answered before there is anything that would clean up.
Create ==
  /\ \/ visit.pc = "mkdir" /\ Goes("owner")
        /\ Kept([files |-> {}, members |-> {}, boot |-> app.boot, valid |-> TRUE, going |-> FALSE])
     \/ visit.pc = "owner" /\ Goes("processes") /\ Kept([Mine EXCEPT !.files = {"owner"}])
     \/ visit.pc = "processes" /\ Goes("launch")
        /\ Kept([Mine EXCEPT !.files = @ \cup {"processes"}])
  /\ UNCHANGED <<claim, procs, fed, pages, told, app>>

CreateFails ==
  /\ visit.pc \in {"mkdir", "owner", "processes"}
  /\ Return("storage")
  /\ UNCHANGED <<spaces, procs, fed, pages, app>>

\* extract_with_cleanup_budget: the host is started, recorded, and tells of its
\* browser, which is recorded in turn before the page is opened.
Launch ==
  /\ visit.pc = "launch"
  /\ \/ UNCHANGED procs /\ \E a \in Stops : EndsWith(a)
     \/ Alive({"helper"}) /\ (Goes("helper") \/ EndsWith("failed"))
  /\ UNCHANGED <<claim, spaces, fed, pages, told, app>>

Halts(outcome) == visit' = [visit EXCEPT !.pc = "stop", !.outcome = outcome]

RecordHelper ==
  /\ visit.pc = "helper"
  /\ \/ /\ "helper" \in procs[visit.op] /\ Goes("host")
        /\ Kept([Mine EXCEPT !.members = {"helper"}])
     \/ Halts("storage") /\ UNCHANGED spaces
  /\ UNCHANGED <<claim, procs, fed, pages, told, app>>

BrowserStarts ==
  /\ visit.pc \in {"host", "stop"} /\ "helper" \in Mine.members
  /\ {"helper", "browser"} \cap procs[visit.op] = {"helper"}
  /\ Alive({"helper", "browser"})
  /\ UNCHANGED <<claim, visit, spaces, fed, pages, told, app>>

Ready ==
  /\ visit.pc = "host" /\ "browser" \notin Mine.members
  /\ \/ /\ "browser" \in procs[visit.op] /\ UNCHANGED visit
        /\ Kept([Mine EXCEPT !.members = @ \cup {"browser"}])
     \/ Halts("storage") /\ UNCHANGED spaces
  /\ UNCHANGED <<claim, procs, fed, pages, told, app>>

Extracted ==
  /\ visit.pc = "host"
  /\ \/ /\ "browser" \in Mine.members /\ ~claim.cancelled /\ ~visit.late
        /\ Halts(None)
     \/ \E a \in Stops : Halts(a)
  /\ UNCHANGED <<claim, spaces, procs, fed, pages, told, app>>

\* The tree of the host is terminated, with the browser once it was included;
\* a browser that was not recorded yet may outlive it.
StopHost ==
  /\ visit.pc = "stop"
  /\ \E left \in SUBSET procs[visit.op] :
        /\ Alive(left)
        /\ \/ left \cap (Mine.members \cup {"helper"}) = {}
              /\ IF claim.cancelled THEN EndsWith("cancelled")
                 ELSE IF visit.outcome # None THEN EndsWith(visit.outcome)
                 ELSE IF visit.late THEN EndsWith("timeout") ELSE Goes("save")
           \/ EndsWith("failed")
  /\ UNCHANGED <<claim, spaces, fed, pages, told, app>>

\* prepare_save, then the worker in the lane, recorded before it is given anything.
PrepareSave ==
  /\ visit.pc = "save"
  /\ \/ Goes("spawn") /\ Kept([Mine EXCEPT !.files = @ \cup {"receipt"}])
     \/ EndsWith("storage") /\ (UNCHANGED spaces \/ Kept([Mine EXCEPT !.files = @ \cup {"half"}]))
  /\ UNCHANGED <<claim, procs, fed, pages, told, app>>

SpawnWorker ==
  /\ visit.pc = "spawn"
  /\ \/ ~claim.cancelled /\ Goes("record") /\ Alive({"worker"})
     \/ Goes("decide") /\ UNCHANGED procs
  /\ UNCHANGED <<claim, spaces, fed, pages, told, app>>

RecordWorker ==
  /\ visit.pc = "record"
  /\ \/ "worker" \notin procs[visit.op] /\ Goes("work") /\ UNCHANGED <<spaces, procs, fed>>
     \/ /\ "worker" \in procs[visit.op] /\ Goes("work") /\ fed' = fed \cup {visit.op}
        /\ Kept([Mine EXCEPT !.members = @ \cup {"worker"}]) /\ UNCHANGED procs
     \/ Goes("decide") /\ Alive({}) /\ UNCHANGED <<spaces, fed>>
  /\ UNCHANGED <<claim, pages, told, app>>

\* The lane returns when the worker is reaped (WorkerLane).
WorkerReaped ==
  /\ visit.pc = "work" /\ "worker" \notin procs[visit.op]
  /\ Goes("decide")
  /\ UNCHANGED <<claim, spaces, procs, fed, pages, told, app>>

\* recover_saved decides what is answered, whatever the worker has said; the
\* task's lease may be taken by a reader, or the disk may fail.
Decide ==
  /\ visit.pc = "decide"
  /\ \/ EndsWith("storage") /\ UNCHANGED pages
     \/ /\ Undone(visit.op)
        /\ EndsWith(IF pages[visit.op] = "saved" THEN "saved" ELSE IF visit.late THEN "timeout"
                    ELSE IF claim.cancelled THEN "cancelled" ELSE "failed")
  /\ UNCHANGED <<claim, spaces, procs, fed, told, app>>

\* cleanup_before: nothing of the operation may be alive, recorded or not.
Clearable(o) == Readable(spaces[o]) /\ procs[o] = {}
Clear(o) == spaces' = [spaces EXCEPT ![o].going = TRUE] /\ Undone(o)

CleanUp ==
  /\ visit.pc = "clean" /\ Clearable(visit.op)
  /\ Clear(visit.op) /\ Goes("remove")
  /\ UNCHANGED <<claim, procs, fed, told, app>>

CleanUpFails ==
  /\ visit.pc = "clean" /\ Pauses /\ Return("storage")
  /\ UNCHANGED <<spaces, procs, fed, pages>>

-----------------------------------------------------------------------------
\* remove_tree_before: the control files go one by one, the owner last.
RemoveFile(o) ==
  /\ spaces[o] # None /\ spaces[o].going
  /\ \E f \in spaces[o].files :
        /\ f = "owner" => spaces[o].files = {"owner"}
        /\ spaces' = [spaces EXCEPT ![o].files = @ \ {f}]
  /\ UNCHANGED <<claim, visit, procs, fed, pages, told, app>>

RemoveDirectory(o) ==
  /\ spaces[o] # None /\ spaces[o].going /\ spaces[o].files = {}
  /\ spaces' = [spaces EXCEPT ![o] = None]
  /\ IF visit.op = o THEN Return(visit.outcome) ELSE UNCHANGED <<claim, visit, told>>
  /\ UNCHANGED <<procs, fed, pages, app>>

RemoveFails(o) ==
  /\ spaces[o] # None /\ spaces[o].going
  /\ spaces' = [spaces EXCEPT ![o].going = FALSE]
  /\ IF visit.op = o THEN Pauses /\ Return("storage")
     ELSE app' = [app EXCEPT !.recovery = "failed"] /\ UNCHANGED <<claim, visit, told>>
  /\ UNCHANGED <<procs, fed, pages>>

\* recover_web_once: the first command that needs the data recovers what earlier
\* desktops have left; its result, or a pause, stands for the rest of the process.
Access ==
  /\ app.up
  /\ \/ app.paused /\ app.recovery # "failed" /\ app' = [app EXCEPT !.recovery = "failed"]
     \/ ~app.paused /\ app.recovery = "none" /\ app' = [app EXCEPT !.recovery = "busy"]
  /\ UNCHANGED <<claim, visit, spaces, procs, fed, pages, told>>

KillOrphan(o) ==
  /\ app.recovery = "busy" /\ Older(o) /\ Loads(spaces[o]) /\ "processes" \in spaces[o].files
  /\ ~spaces[o].going
  /\ \E r \in spaces[o].members \cap procs[o] : procs' = [procs EXCEPT ![o] = @ \ {r}]
  /\ UNCHANGED <<claim, visit, spaces, fed, pages, told, app>>

RecoverEntry(o) ==
  /\ app.recovery = "busy" /\ Older(o) /\ Clearable(o)
  /\ \A p \in Ops : spaces[p] # None => ~spaces[p].going
  /\ Clear(o)
  /\ UNCHANGED <<claim, visit, procs, fed, told, app>>

RecoveryFails ==
  /\ app.recovery = "busy" /\ \A o \in Ops : spaces[o] # None => ~spaces[o].going
  /\ app' = [app EXCEPT !.recovery = "failed"]
  /\ UNCHANGED <<claim, visit, spaces, procs, fed, pages, told>>

RecoveryEnds ==
  /\ app.recovery = "busy" /\ \A o \in Ops : ~Older(o)
  /\ app' = [app EXCEPT !.recovery = "ok"]
  /\ UNCHANGED <<claim, visit, spaces, procs, fed, pages, told>>

-----------------------------------------------------------------------------
\* The worker publishes with the artifact transaction; any process may end by
\* itself or be killed, also after the desktop that started it.
WorkerSaves(o) ==
  /\ "worker" \in procs[o] /\ o \in fed /\ pages[o] # "saved"
  /\ pages' = [pages EXCEPT ![o] = IF @ = "absent" THEN "prepared" ELSE "saved"]
  /\ UNCHANGED <<claim, visit, spaces, procs, fed, told, app>>

ProcessEnds(o, r) ==
  /\ r \in procs[o]
  /\ procs' = [procs EXCEPT ![o] = @ \ {r}]
  /\ UNCHANGED <<claim, visit, spaces, fed, pages, told, app>>

Gone ==
  /\ claim' = None /\ visit' = Idle
  /\ spaces' = [o \in Ops |-> IF spaces[o] = None THEN None ELSE [spaces[o] EXCEPT !.going = FALSE]]
  /\ told' = [o \in Ops |-> IF o = visit.op THEN "nothing" ELSE told[o]]
  /\ UNCHANGED <<procs, fed, pages>>

\* ready_to_close waits for the operation; a crash does not.
Quit ==
  /\ app.up /\ app.closing /\ claim = None /\ app.recovery # "busy"
  /\ Gone /\ app' = [app EXCEPT !.up = FALSE]

Crash ==
  /\ app.up /\ app.crashes < MaxCrashes
  /\ Gone /\ app' = [app EXCEPT !.up = FALSE, !.crashes = @ + 1]

\* A desktop that was updated has other executables than its receipts name.
Restart ==
  /\ ~app.up /\ app.boot < MaxBoots
  /\ app' = [app EXCEPT !.up = TRUE, !.closing = FALSE, !.paused = FALSE, !.boot = @ + 1,
                        !.recovery = "none"]
  /\ \E updated \in BOOLEAN :
        spaces' = [o \in Ops |-> IF spaces[o] = None THEN None
                                 ELSE [spaces[o] EXCEPT !.valid = @ /\ ~updated]]
  /\ UNCHANGED <<claim, visit, procs, fed, pages, told>>

Next ==
  \/ Adopt \/ Cancel \/ Close \/ Expire \/ Admit \/ Create \/ CreateFails \/ Launch
  \/ RecordHelper \/ BrowserStarts \/ Ready \/ Extracted \/ StopHost \/ PrepareSave
  \/ SpawnWorker \/ RecordWorker \/ WorkerReaped \/ Decide \/ CleanUp \/ CleanUpFails
  \/ Access \/ RecoveryFails \/ RecoveryEnds \/ Quit \/ Crash \/ Restart
  \/ \E o \in Ops : \/ Register(o) \/ RemoveFile(o) \/ RemoveDirectory(o) \/ RemoveFails(o)
                    \/ KillOrphan(o) \/ RecoverEntry(o) \/ WorkerSaves(o)
                    \/ \E r \in Roles : ProcessEnds(o, r)

Spec == Init /\ [][Next]_vars

-----------------------------------------------------------------------------
\* Whatever the cancellation, the deadline, the worker's exit and its commit do
\* to each other, the window is told of a saved page exactly when the page is
\* saved; an error of the clean-up says neither (recover_saved).
AnswerIsOfDisk ==
  \A o \in Ops : /\ told[o] = "saved" => pages[o] = "saved"
                 /\ told[o] \in {"cancelled", "timeout", "failed"} => pages[o] = "absent"

\* No process of an import is lost: while any is alive its directory is there
\* for a recovery to find it by, and when its import is over the desktop is
\* paused, or down, or has not finished that recovery (cleanup_before, recover).
OrphansAreFound ==
  \A o \in Ops : procs[o] # {} =>
     /\ spaces[o] # None
     /\ visit.op = o \/ ~app.up \/ app.paused \/ app.recovery # "ok"

\* The claim is that of the operation that runs, and ends with it: neither a new
\* page nor the closing of the window waits for one that is over (Drop).
ClaimIsOfVisit ==
  IF visit.pc = "idle" THEN ~Claimed
  ELSE Claimed /\ claim.op = visit.op

\* docs/ARCHITECTURE.md: an uncertain clean-up pauses the library for the rest of
\* the process, and a controlled restart revalidates the durable receipts; so
\* what a desktop has left can be read by the next one (create, recover).
ReceiptsRevalidate ==
  app.up => \A o \in Ops : Older(o) /\ ~spaces[o].going => Readable(spaces[o])
=============================================================================

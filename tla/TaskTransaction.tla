-------------------------- MODULE TaskTransaction --------------------------
(***************************************************************************)
(* The artifact transaction of one task directory.                         *)
(*                                                                         *)
(* Rust (app/src-tauri/src/task_manifest/transaction.rs) and Python        *)
(* (worker/frameq_worker/task_transaction.py) run the same journal         *)
(* protocol over the same files; each step below is one durable file       *)
(* operation of either of them, and a crash may come between any two.      *)
(* Processes are the desktop operations that open the task under its lease *)
(* (task_manifest/coordinator.rs, access.rs) and the Python workers they   *)
(* start.  A task operation hands the task to its worker and waits for it, *)
(* so one process identity stands for both, and actor says which of the    *)
(* two programs is running.                                                *)
(*                                                                         *)
(* The lease is in memory only: it serialises the desktop's own operations *)
(* and, because the desktop keeps it while its worker runs, the worker.    *)
(* Two parameters name the ways out of that discipline:                    *)
(*   NewTaskWorkers   workers that create the task (process_video) run     *)
(*                    without any lease;                                   *)
(*   OrphansSurvive   a worker keeps running when the desktop crashes.     *)
(***************************************************************************)
CONSTANTS Proc,            \* desktop operations, each with its worker
          NewTaskWorkers,  \* the processes that may start an unleased worker
          OrphansSurvive,  \* whether a worker outlives a desktop crash
          Dest,            \* artifact destinations of the closed set
          Manifest,        \* the destination frameq-task.json
          Content,         \* file contents
          Tx,              \* transaction identifiers (random UUIDs)
          Absent,          \* no file
          Keep,            \* the commit has no mutation for the destination
          Unread,          \* the process has not read the destination
          NoProc,          \* nobody holds the lease
          NoTx,            \* the process has no transaction
          NoJournal        \* there is no journal file

ASSUME ConstantsAssumption ==
    /\ NewTaskWorkers \subseteq Proc
    /\ OrphansSurvive \in BOOLEAN
    /\ Manifest \in Dest
    /\ Absent \notin Content
    /\ Keep \notin Content \cup {Absent}
    /\ Unread \notin Content \cup {Absent}
    /\ NoProc \notin Proc
    /\ NoTx \notin Tx

Stored == Content \cup {Absent}

\* The journal's entries, as sets: every destination of the transaction and
\* those that existed before it.  Their order is abstracted: the manifest is
\* last (CanApply), the others come in any order.
Journals == [state : {"prepared", "committed"}, tx : Tx,
             dests : SUBSET Dest, existed : SUBSET Dest]

ASSUME JournalAssumption == NoJournal \notin Journals

VARIABLES
    \* On disk: these survive a crash.
    file,      \* the destinations
    staging,   \* .frameq-artifact-<tx>-<i>.staging, by transaction
    rollback,  \* .frameq-artifact-<tx>-<i>.rollback, by transaction
    journal,   \* .frameq-artifact-transaction.json
    \* In memory.
    lease,     \* ACTIVE_TASKS: who holds the task
    pc,        \* where each process is
    ret,       \* where recovery returns to
    actor,     \* "desktop" or its "worker"
    plan,      \* the mutations of the commit in progress
    tx,        \* its transaction
    existed,   \* existed_before of its entries
    todo,      \* entries that a loop has still to visit
    loaded,    \* the rollback payloads recovery has read
    seen,      \* what the process has read of the task since opening it
    outcome    \* what the caller of the last commit was told

disk == <<file, staging, rollback, journal>>
vars == <<file, staging, rollback, journal, lease, pc, ret, actor, plan, tx,
          existed, todo, loaded, seen, outcome>>

Plans == {f \in [Dest -> Stored \cup {Keep}] : f[Manifest] # Absent}

NoPlan == [d \in Dest |-> Keep]
NothingRead == [d \in Dest |-> Unread]
NothingStored == [d \in Dest |-> Absent]

Mentioned(f) == {d \in Dest : f[d] # Keep}

PCs == {"idle", "recover", "restore", "unjournal", "open", "serve", "view",
        "validate", "prepare", "install", "finish", "aborted", "broken",
        "returned"}

TypeOK ==
    /\ file \in [Dest -> Stored]
    /\ staging \in [Tx -> [Dest -> Stored]]
    /\ rollback \in [Tx -> [Dest -> Stored]]
    /\ journal \in Journals \cup {NoJournal}
    /\ lease \in Proc \cup {NoProc}
    /\ pc \in [Proc -> PCs]
    /\ ret \in [Proc -> {"open", "validate", "aborted"}]
    /\ actor \in [Proc -> {"desktop", "worker"}]
    /\ plan \in [Proc -> Plans]
    /\ tx \in [Proc -> Tx \cup {NoTx}]
    /\ existed \in [Proc -> SUBSET Dest]
    /\ todo \in [Proc -> SUBSET Dest]
    /\ loaded \in [Proc -> [Dest -> Stored]]
    /\ seen \in [Proc -> [Dest -> Stored \cup {Unread}]]
    /\ outcome \in [Proc -> {"none", "pending", "ok", "failed"}]

Init ==
    /\ file \in [Dest -> Stored]
    /\ staging = [t \in Tx |-> NothingStored]
    /\ rollback = [t \in Tx |-> NothingStored]
    /\ journal = NoJournal
    /\ lease = NoProc
    /\ pc = [p \in Proc |-> "idle"]
    /\ ret = [p \in Proc |-> "open"]
    /\ actor = [p \in Proc |-> "desktop"]
    /\ plan = [p \in Proc |-> NoPlan]
    /\ tx = [p \in Proc |-> NoTx]
    /\ existed = [p \in Proc |-> {}]
    /\ todo = [p \in Proc |-> {}]
    /\ loaded = [p \in Proc |-> NothingStored]
    /\ seen = [p \in Proc |-> NothingRead]
    /\ outcome = [p \in Proc |-> "none"]

-----------------------------------------------------------------------------
(* Entering and leaving the task.                                          *)

\* The transactions with staging or rollback files.
WithMaterials ==
    {t \in Tx : staging[t] # NothingStored \/ rollback[t] # NothingStored}

\* Everything the processes ps held in memory is gone.
Forgotten(ps) ==
    /\ ret' = [p \in Proc |-> IF p \in ps THEN "open" ELSE ret[p]]
    /\ actor' = [p \in Proc |-> IF p \in ps THEN "desktop" ELSE actor[p]]
    /\ plan' = [p \in Proc |-> IF p \in ps THEN NoPlan ELSE plan[p]]
    /\ tx' = [p \in Proc |-> IF p \in ps THEN NoTx ELSE tx[p]]
    /\ existed' = [p \in Proc |-> IF p \in ps THEN {} ELSE existed[p]]
    /\ todo' = [p \in Proc |-> IF p \in ps THEN {} ELSE todo[p]]
    /\ loaded' = [p \in Proc |-> IF p \in ps THEN NothingStored ELSE loaded[p]]
    /\ seen' = [p \in Proc |-> IF p \in ps THEN NothingRead ELSE seen[p]]
    /\ outcome' = [p \in Proc |-> IF p \in ps THEN "none" ELSE outcome[p]]

\* SupportedTask::open, scan: the desktop knows a task by its manifest file.
\* A held lease is refused (or the task skipped) without any change; otherwise
\* recovery comes before anything is read.
Acquire(p) ==
    /\ pc[p] = "idle"
    /\ file[Manifest] # Absent
    /\ lease = NoProc
    /\ lease' = p
    /\ pc' = [pc EXCEPT ![p] = "recover"]
    /\ ret' = [ret EXCEPT ![p] = "open"]
    /\ UNCHANGED <<disk, actor, plan, tx, existed, todo, loaded, seen, outcome>>

\* Fault: a read-only scan that does not look for a journal.
AcquireReadOnlyUnchecked(p) ==
    /\ pc[p] = "idle"
    /\ lease = NoProc
    /\ file[Manifest] # Absent
    /\ lease' = p
    /\ pc' = [pc EXCEPT ![p] = "view"]
    /\ UNCHANGED <<disk, ret, actor, plan, tx, existed, todo, loaded, seen,
                   outcome>>

\* SupportedTask::scan_read_only: an unresolved journal hides the task.
AcquireReadOnly(p) ==
    /\ pc[p] = "idle"
    /\ lease = NoProc
    /\ journal = NoJournal
    /\ file[Manifest] # Absent
    /\ lease' = p
    /\ pc' = [pc EXCEPT ![p] = "view"]
    /\ UNCHANGED <<disk, ret, actor, plan, tx, existed, todo, loaded, seen,
                   outcome>>

\* process_video: the worker makes the task directory and its manifest; the
\* desktop takes no lease.
StartNewTask(p) ==
    /\ p \in NewTaskWorkers
    /\ pc[p] = "idle"
    /\ file = NothingStored
    /\ journal = NoJournal
    /\ WithMaterials = {}
    /\ pc' = [pc EXCEPT ![p] = "serve"]
    /\ actor' = [actor EXCEPT ![p] = "worker"]
    /\ UNCHANGED <<disk, lease, ret, plan, tx, existed, todo, loaded, seen,
                   outcome>>

\* retry_insights_blocking, retry_note_title: the desktop keeps its lease and
\* waits; the worker opens the task for itself, recovery first.
StartWorker(p) ==
    /\ lease = p
    /\ pc[p] = "serve"
    /\ actor[p] = "desktop"
    /\ pc' = [pc EXCEPT ![p] = "recover"]
    /\ actor' = [actor EXCEPT ![p] = "worker"]
    /\ ret' = [ret EXCEPT ![p] = "open"]
    /\ seen' = [seen EXCEPT ![p] = NothingRead]
    /\ plan' = [plan EXCEPT ![p] = NoPlan]
    /\ outcome' = [outcome EXCEPT ![p] = "none"]
    /\ UNCHANGED <<disk, lease, tx, existed, todo, loaded>>

\* The worker exits or is killed at any step: the desktop has its task back.
\* Without a lease behind it (new task, orphan) it only disappears.
WorkerEnds(p) ==
    /\ actor[p] = "worker"
    /\ pc' = [pc EXCEPT ![p] = IF lease = p THEN "returned" ELSE "idle"]
    /\ Forgotten({p})
    /\ UNCHANGED <<disk, lease>>

\* SupportedTask::reload after a title worker.
Reload(p) ==
    /\ pc[p] = "returned"
    /\ pc' = [pc EXCEPT ![p] = "recover"]
    /\ UNCHANGED <<disk, lease, ret, actor, plan, tx, existed, todo, loaded, seen,
                   outcome>>

\* TaskLease::drop at the end of an operation, on success and on error.
Release(p) ==
    /\ actor[p] = "desktop"
    /\ \/ pc[p] \in {"serve", "view", "broken", "returned"}
       \/ pc[p] = "open" /\ file[Manifest] = Absent
    /\ lease' = NoProc
    /\ pc' = [pc EXCEPT ![p] = "idle"]
    /\ Forgotten({p})
    /\ UNCHANGED disk

\* The desktop crashes: the registry of leases is gone, the disk is not.
Crash ==
    LET survivors == {p \in Proc : OrphansSurvive /\ actor[p] = "worker"}
    IN  /\ lease' = NoProc
        /\ pc' = [p \in Proc |-> IF p \in survivors THEN pc[p] ELSE "idle"]
        /\ Forgotten(Proc \ survivors)
        /\ UNCHANGED disk

\* load_task_manifest after recovery.
LoadManifest(p) ==
    /\ pc[p] = "open"
    /\ file[Manifest] # Absent
    /\ pc' = [pc EXCEPT ![p] = "serve"]
    /\ UNCHANGED <<disk, lease, ret, actor, plan, tx, existed, todo, loaded, seen,
                   outcome>>

\* Artifacts are read one by one while the task is open.
Read(p, d) ==
    /\ pc[p] \in {"serve", "view"}
    /\ seen[p][d] = Unread
    /\ seen' = [seen EXCEPT ![p] = [@ EXCEPT ![d] = file[d]]]
    /\ UNCHANGED <<disk, lease, pc, ret, actor, plan, tx, existed, todo, loaded,
                   outcome>>

-----------------------------------------------------------------------------
(* recover_task_artifacts.                                                 *)

\* Best-effort removal of the materials of the transactions ts: what cannot
\* be removed stays.  The files of one transaction share a fate, since
\* nothing tells apart a partly and a wholly removed leftover.
Swept(ts) ==
    \E gone \in SUBSET ts :
        /\ staging' = [t \in Tx |-> IF t \in gone THEN NothingStored
                                     ELSE staging[t]]
        /\ rollback' = [t \in Tx |-> IF t \in gone THEN NothingStored
                                      ELSE rollback[t]]

\* No journal: closed-name orphans of any transaction are swept.
RecoverNone(p) ==
    /\ pc[p] = "recover"
    /\ journal = NoJournal
    /\ Swept(WithMaterials)
    /\ pc' = [pc EXCEPT ![p] = ret[p]]
    /\ UNCHANGED <<file, journal, lease, ret, actor, plan, tx, existed, todo,
                   loaded, seen, outcome>>

\* A prepared journal: every rollback is loaded before any file is touched.
RecoverPrepared(p) ==
    /\ pc[p] = "recover"
    /\ journal # NoJournal
    /\ journal.state = "prepared"
    /\ \A d \in journal.existed : rollback[journal.tx][d] # Absent
    /\ loaded' = [loaded EXCEPT ![p] =
                     [d \in Dest |-> IF d \in journal.existed
                                     THEN rollback[journal.tx][d] ELSE Absent]]
    /\ todo' = [todo EXCEPT ![p] = journal.dests]
    /\ tx' = [tx EXCEPT ![p] = journal.tx]
    /\ pc' = [pc EXCEPT ![p] = "restore"]
    /\ UNCHANGED <<disk, lease, ret, actor, plan, existed, seen, outcome>>

\* A committed journal: the files stay as they are.
RecoverCommitted(p) ==
    /\ pc[p] = "recover"
    /\ journal # NoJournal
    /\ journal.state = "committed"
    /\ tx' = [tx EXCEPT ![p] = journal.tx]
    /\ pc' = [pc EXCEPT ![p] = "unjournal"]
    /\ UNCHANGED <<disk, lease, ret, actor, plan, existed, todo, loaded, seen,
                   outcome>>

\* Fault: the rollback copy itself is moved back into place.
RestoreEntryByRename(p, d) ==
    /\ pc[p] = "restore"
    /\ d \in todo[p]
    /\ file' = [file EXCEPT ![d] = loaded[p][d]]
    /\ rollback' = [rollback EXCEPT ![tx[p]] = [@ EXCEPT ![d] = Absent]]
    /\ todo' = [todo EXCEPT ![p] = @ \ {d}]
    /\ UNCHANGED <<staging, journal, lease, pc, ret, actor, plan, tx, existed,
                   loaded, seen, outcome>>

\* One destination is restored through a fresh staging file, or removed.
RestoreEntry(p, d) ==
    /\ pc[p] = "restore"
    /\ d \in todo[p]
    /\ file' = [file EXCEPT ![d] = loaded[p][d]]
    /\ todo' = [todo EXCEPT ![p] = @ \ {d}]
    /\ UNCHANGED <<staging, rollback, journal, lease, pc, ret, actor, plan, tx,
                   existed, loaded, seen, outcome>>

\* Fault: the journal is removed before every destination is restored.
RemoveJournalEarly(p) ==
    /\ pc[p] \in {"restore", "unjournal"}
    /\ journal' = NoJournal
    /\ Swept({tx[p]})
    /\ tx' = [tx EXCEPT ![p] = NoTx]
    /\ loaded' = [loaded EXCEPT ![p] = NothingStored]
    /\ todo' = [todo EXCEPT ![p] = {}]
    /\ pc' = [pc EXCEPT ![p] = ret[p]]
    /\ UNCHANGED <<file, lease, ret, actor, plan, existed, seen, outcome>>

\* remove_journal_then_cleanup, required: only now is the journal resolved.
RemoveJournal(p) ==
    /\ \/ pc[p] = "restore" /\ todo[p] = {}
       \/ pc[p] = "unjournal"
    /\ journal' = NoJournal
    /\ Swept({tx[p]})
    /\ tx' = [tx EXCEPT ![p] = NoTx]
    /\ loaded' = [loaded EXCEPT ![p] = NothingStored]
    /\ pc' = [pc EXCEPT ![p] = ret[p]]
    /\ UNCHANGED <<file, lease, ret, actor, plan, existed, todo, seen, outcome>>

\* Any file operation of recovery fails, or a rollback is missing: the
\* journal stays, the operation ends with the recovery error.
RecoverFail(p) ==
    /\ pc[p] \in {"recover", "restore", "unjournal"}
    /\ pc' = [pc EXCEPT ![p] = "broken"]
    /\ tx' = [tx EXCEPT ![p] = NoTx]
    /\ existed' = [existed EXCEPT ![p] = {}]
    /\ todo' = [todo EXCEPT ![p] = {}]
    /\ loaded' = [loaded EXCEPT ![p] = NothingStored]
    /\ outcome' = [outcome EXCEPT ![p] = IF @ = "pending" THEN "failed" ELSE @]
    /\ UNCHANGED <<disk, lease, ret, actor, plan, seen>>

-----------------------------------------------------------------------------
(* commit_task_artifacts.                                                  *)

\* The commit starts with recovery, whatever the caller has done before.
BeginCommit(p) ==
    /\ pc[p] = "serve"
    /\ \E f \in Plans \ {NoPlan} : plan' = [plan EXCEPT ![p] = f]
    /\ outcome' = [outcome EXCEPT ![p] = "pending"]
    /\ pc' = [pc EXCEPT ![p] = "recover"]
    /\ ret' = [ret EXCEPT ![p] = "validate"]
    /\ UNCHANGED <<disk, lease, actor, tx, existed, todo, loaded, seen>>

\* A fresh random identifier: nothing on disk and no process uses it.
Fresh(t) ==
    /\ t \notin WithMaterials
    /\ journal # NoJournal => journal.tx # t
    /\ \A q \in Proc : tx[q] # t

\* Fault: an entry for every allowed destination, mentioned or not.
BuildEntriesOfAll(p) ==
    /\ pc[p] = "validate"
    /\ \E t \in Tx : Fresh(t) /\ tx' = [tx EXCEPT ![p] = t]
    /\ existed' = [existed EXCEPT ![p] = {d \in Dest : file[d] # Absent}]
    /\ todo' = [todo EXCEPT ![p] = Dest]
    /\ pc' = [pc EXCEPT ![p] = "prepare"]
    /\ UNCHANGED <<disk, lease, ret, actor, plan, loaded, seen, outcome>>

\* validate_mutations and build_entries.
BuildEntries(p) ==
    /\ pc[p] = "validate"
    /\ \E t \in Tx : Fresh(t) /\ tx' = [tx EXCEPT ![p] = t]
    /\ existed' = [existed EXCEPT ![p] =
                      {d \in Mentioned(plan[p]) : file[d] # Absent}]
    /\ todo' = [todo EXCEPT ![p] = Mentioned(plan[p])]
    /\ pc' = [pc EXCEPT ![p] = "prepare"]
    /\ UNCHANGED <<disk, lease, ret, actor, plan, loaded, seen, outcome>>

\* validate_mutations or build_entries refuse: nothing has been written.
RejectCommit(p) ==
    /\ pc[p] = "validate"
    /\ outcome' = [outcome EXCEPT ![p] = "failed"]
    /\ pc' = [pc EXCEPT ![p] = "serve"]
    /\ UNCHANGED <<disk, lease, ret, actor, plan, tx, existed, todo, loaded, seen>>

\* One entry's staging file, and a copy of what the destination holds now.
PrepareEntry(p, d) ==
    /\ pc[p] = "prepare"
    /\ d \in todo[p]
    /\ d \in existed[p] => file[d] # Absent
    /\ staging' = [staging EXCEPT ![tx[p]] = [@ EXCEPT ![d] = plan[p][d]]]
    /\ rollback' = IF d \in existed[p]
                    THEN [rollback EXCEPT ![tx[p]] = [@ EXCEPT ![d] = file[d]]]
                    ELSE rollback
    /\ todo' = [todo EXCEPT ![p] = @ \ {d}]
    /\ UNCHANGED <<file, journal, lease, pc, ret, actor, plan, tx, existed,
                   loaded, seen, outcome>>

\* A material or the prepared journal cannot be written: no trace is left
\* but, at worst, orphans.
PrepareFail(p) ==
    /\ pc[p] = "prepare"
    /\ Swept({tx[p]})
    /\ tx' = [tx EXCEPT ![p] = NoTx]
    /\ existed' = [existed EXCEPT ![p] = {}]
    /\ todo' = [todo EXCEPT ![p] = {}]
    /\ outcome' = [outcome EXCEPT ![p] = "failed"]
    /\ pc' = [pc EXCEPT ![p] = "serve"]
    /\ UNCHANGED <<file, journal, lease, ret, actor, plan, loaded, seen>>

OwnJournal(p, state) ==
    [state |-> state, tx |-> tx[p], dests |-> Mentioned(plan[p]),
     existed |-> existed[p]]

\* Fault: the journal is written while materials are still missing.
WritePreparedEarly(p) ==
    /\ pc[p] = "prepare"
    /\ journal' = OwnJournal(p, "prepared")
    /\ todo' = [todo EXCEPT ![p] = Mentioned(plan[p])]
    /\ pc' = [pc EXCEPT ![p] = "install"]
    /\ UNCHANGED <<file, staging, rollback, lease, ret, actor, plan, tx, existed,
                   loaded, seen, outcome>>

\* The prepared journal is installed once every material is durable.
WritePrepared(p) ==
    /\ pc[p] = "prepare"
    /\ todo[p] = {}
    /\ journal' = OwnJournal(p, "prepared")
    /\ todo' = [todo EXCEPT ![p] = Mentioned(plan[p])]
    /\ pc' = [pc EXCEPT ![p] = "install"]
    /\ UNCHANGED <<file, staging, rollback, lease, ret, actor, plan, tx, existed,
                   loaded, seen, outcome>>

\* The manifest is the last entry of a transaction that mentions it.
CanApply(p, d) == d \in todo[p] /\ (d = Manifest => todo[p] = {Manifest})

\* One destination is replaced by its staging file, or removed.
InstallEntry(p, d) ==
    /\ pc[p] = "install"
    /\ CanApply(p, d)
    /\ plan[p][d] # Absent => staging[tx[p]][d] # Absent
    /\ file' = [file EXCEPT ![d] = staging[tx[p]][d]]
    /\ staging' = [staging EXCEPT ![tx[p]] = [@ EXCEPT ![d] = Absent]]
    /\ todo' = [todo EXCEPT ![p] = @ \ {d}]
    /\ UNCHANGED <<rollback, journal, lease, pc, ret, actor, plan, tx, existed,
                   loaded, seen, outcome>>

\* Fault: the journal is not brought to committed.
WriteCommittedSkipped(p) ==
    /\ pc[p] = "install"
    /\ todo[p] = {}
    /\ seen' = [seen EXCEPT ![p] = NothingRead]
    /\ pc' = [pc EXCEPT ![p] = "finish"]
    /\ UNCHANGED <<disk, lease, ret, actor, plan, tx, existed, todo, loaded,
                   outcome>>

\* The commit point.
WriteCommitted(p) ==
    /\ pc[p] = "install"
    /\ todo[p] = {}
    /\ journal' = OwnJournal(p, "committed")
    /\ seen' = [seen EXCEPT ![p] = NothingRead]
    /\ pc' = [pc EXCEPT ![p] = "finish"]
    /\ UNCHANGED <<file, staging, rollback, lease, ret, actor, plan, tx, existed,
                   todo, loaded, outcome>>

\* An install, a removal or the committed journal fails: recover in place.
InstallFail(p) ==
    /\ pc[p] = "install"
    /\ pc' = [pc EXCEPT ![p] = "recover"]
    /\ ret' = [ret EXCEPT ![p] = "aborted"]
    /\ tx' = [tx EXCEPT ![p] = NoTx]
    /\ existed' = [existed EXCEPT ![p] = {}]
    /\ todo' = [todo EXCEPT ![p] = {}]
    /\ UNCHANGED <<disk, lease, actor, plan, loaded, seen, outcome>>

\* Recovered in place: the commit error is returned.
CommitFailed(p) ==
    /\ pc[p] = "aborted"
    /\ outcome' = [outcome EXCEPT ![p] = "failed"]
    /\ pc' = [pc EXCEPT ![p] = "serve"]
    /\ UNCHANGED <<disk, lease, ret, actor, plan, tx, existed, todo, loaded, seen>>

\* remove_journal_then_cleanup, not required: a journal that cannot be
\* removed keeps its materials, and the commit succeeds all the same.
Finish(p) ==
    /\ pc[p] = "finish"
    /\ \/ journal' = NoJournal /\ Swept({tx[p]})
       \/ UNCHANGED <<journal, staging, rollback>>
    /\ tx' = [tx EXCEPT ![p] = NoTx]
    /\ existed' = [existed EXCEPT ![p] = {}]
    /\ outcome' = [outcome EXCEPT ![p] = "ok"]
    /\ pc' = [pc EXCEPT ![p] = "serve"]
    /\ UNCHANGED <<file, lease, ret, actor, plan, todo, loaded, seen>>

-----------------------------------------------------------------------------
Recovery(p) ==
    \/ RecoverNone(p) \/ RecoverPrepared(p) \/ RecoverCommitted(p)
    \/ (\E d \in Dest : RestoreEntry(p, d))
    \/ RemoveJournal(p) \/ RecoverFail(p)

Commit(p) ==
    \/ BeginCommit(p) \/ BuildEntries(p) \/ RejectCommit(p)
    \/ (\E d \in Dest : PrepareEntry(p, d) \/ InstallEntry(p, d))
    \/ PrepareFail(p) \/ WritePrepared(p) \/ WriteCommitted(p)
    \/ InstallFail(p) \/ CommitFailed(p) \/ Finish(p)

Session(p) ==
    \/ Acquire(p) \/ AcquireReadOnly(p) \/ StartNewTask(p) \/ StartWorker(p)
    \/ WorkerEnds(p) \/ Reload(p) \/ Release(p) \/ LoadManifest(p)
    \/ (\E d \in Dest : Read(p, d))

Next == Crash \/ \E p \in Proc : Session(p) \/ Recovery(p) \/ Commit(p)

Spec == Init /\ [][Next]_vars

-----------------------------------------------------------------------------
(* Properties.                                                             *)

\* The revision a recovering reader would be given now: under a prepared
\* journal the state before the transaction, otherwise the files themselves.
Authoritative ==
    IF journal # NoJournal /\ journal.state = "prepared"
    THEN [d \in Dest |->
            IF d \notin journal.dests THEN file[d]
            ELSE IF d \in journal.existed THEN rollback[journal.tx][d]
            ELSE Absent]
    ELSE file

\* "Prepared means restore every existed-before destination from a preserved
\* rollback copy": as long as the journal says prepared, no step (installing,
\* sweeping orphans, restoring once and crashing) has cost a rollback copy.
PreparedIsRecoverable ==
    (journal # NoJournal /\ journal.state = "prepared")
        => \A d \in journal.existed : rollback[journal.tx][d] # Absent

\* A process that reads artifacts one by one never mixes two revisions: all
\* it has read is the revision that is authoritative now, up to the moment
\* its own commit replaces it.  It also says that what an edit was computed
\* from is still what the commit replaces (no lost update).
ReadersSeeOneRevision ==
    \A p \in Proc, d \in Dest :
        seen[p][d] # Unread => seen[p][d] = Authoritative[d]

\* A commit reported as a success stays in place while its caller still has
\* the task open: recovery started by anybody else does not undo it.
SuccessStands ==
    \A p \in Proc, d \in Dest :
        (outcome[p] = "ok" /\ plan[p][d] # Keep) => Authoritative[d] = plan[p][d]

\* The transaction implements the abstract promise: the authoritative
\* revision changes at the commit point of one commit and by exactly its
\* mutations; failure answers are given only to commits without effect.
Call == [p \in Proc |-> IF outcome[p] = "pending" /\ pc[p] = "finish"
                        THEN "applied" ELSE outcome[p]]

Promise == INSTANCE AtomicRevision
             WITH Client <- Proc, revision <- Authoritative, request <- plan,
                  call <- Call

RefinesAtomicRevision == Promise!Spec
=============================================================================

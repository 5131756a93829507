------------------------------ MODULE DataStorage ------------------------------
(***************************************************************************)
(* Moving the library to another directory                                 *)
(* (app/src-tauri/src/data_storage.rs and data_storage/engine.rs,          *)
(* migration.rs, merge.rs, cleanup.rs, control.rs): into an empty          *)
(* directory by a verified copy that keeps the originals, into one with    *)
(* files by moving what the directory does not have.  The control file is  *)
(* written before the memory copy and is all that a crash leaves of a      *)
(* migration, with what already lies in the two directories.               *)
(***************************************************************************)
EXTENDS Integers, FiniteSets

CONSTANTS
  Roots, First, \* directories, and the one the library is in at first
  Files,        \* relative paths of the files of the library
  None,
  MaxWrites,    \* bound on what the user writes
  MaxGeneration \* bound on active.generation

VARIABLES
  disk,      \* the files of each directory, with their identities
  library,   \* history: what each file of the user's library should hold
  near,      \* whether the directories are on one volume
  control,   \* the control file: active, generation, pending, receipts, cancelled
  job,       \* the command that has the directories for itself, or waits for them
  permit,    \* active_count: an operation on the library is under way
  cancelled, \* the flag of the manager
  boot       \* boot_generation

vars == <<disk, library, near, control, job, permit, cancelled, boot>>

Id(root, how, data) == <<root, how, data>>
Entry(root, how, data) == [data |-> data, id |-> Id(root, how, data)]
Other == MaxWrites + 1            \* what a file that was in a target before holds
Data == 0..Other
Ids == Roots \X {"written", "copied"} \X Data
Entries == [data : Data, id : Ids] \cup {None}

NoFiles == [f \in Files |-> None]
ItemStates == [id : Ids \cup {None}, temp : Ids \cup {None}, done : BOOLEAN]

\* An operation, with what lies in its directory under the target: the
\* inventory, the plan of a merge and its items, the payload of a copy.
Operations ==
  [phase : {"waiting", "prepared", "copying", "verifying", "merging", "publishing",
            "restart_required", "validating", "cleaning"},
   merge : BOOLEAN, generation : 0..MaxGeneration, source : Roots, target : Roots,
   error : {"none", "failed", "SourceChanged"},
   inv : [Files -> Entries], kept : [Files -> Entries],
   item : [Files -> ItemStates], payload : [Files -> Data \cup {None}]]

Receipts == [source : Roots, inv : [Files -> Entries], at : SUBSET Roots]

Jobs == [at : {"none", "wait", "scan", "verify", "copy", "check", "publish", "merge",
               "recheck", "clean"},
         next : {"none", "scan", "verify"}, done : SUBSET Files,
         file : Files \cup {None}]

TypeOK ==
  /\ disk \in [Roots -> [Files -> Entries]]
  /\ library \in [Files -> Data \cup {None}]
  /\ near \in BOOLEAN /\ permit \in BOOLEAN /\ cancelled \in BOOLEAN
  /\ control.active \in Roots /\ control.generation \in 0..MaxGeneration
  /\ control.pending \in Operations \cup {None}
  /\ control.receipts \subseteq Receipts /\ control.copies \subseteq Operations
  /\ job \in Jobs /\ boot \in 0..MaxGeneration

Idle == [at |-> "none", next |-> "none", done |-> {}, file |-> None]
At(step) == [Idle EXCEPT !.at = step]
Wait(step) == [Idle EXCEPT !.at = "wait", !.next = step]

Init ==
  /\ \E before \in SUBSET Files :
       disk = [r \in Roots |-> [f \in Files |->
                 IF r = First THEN Entry(r, "written", 0)
                 ELSE IF f \in before THEN Entry(r, "written", Other) ELSE None]]
  /\ library = [f \in Files |-> 0]
  /\ near \in BOOLEAN
  /\ control = [active |-> First, generation |-> 0, pending |-> None,
                receipts |-> {}, copies |-> {}]
  /\ job = Idle /\ permit = FALSE /\ cancelled = FALSE /\ boot = 0

-----------------------------------------------------------------------------
\* acquire: no operation on the library while a migration is pending.
Acquire ==
  /\ job = Idle /\ control.pending = None /\ ~permit
  /\ permit' = TRUE
  /\ UNCHANGED <<disk, library, near, control, job, cancelled, boot>>

Release ==
  /\ permit
  /\ permit' = FALSE
  /\ UNCHANGED <<disk, library, near, control, job, cancelled, boot>>

Write(f) ==
  /\ permit
  /\ \E d \in 1..MaxWrites :
       /\ \A g \in Files : library[g] < d \/ library[g] = Other
       /\ disk' = [disk EXCEPT ![control.active][f] = Entry(control.active, "written", d)]
       /\ library' = [library EXCEPT ![f] = d]
  /\ UNCHANGED <<near, control, job, permit, cancelled, boot>>

-----------------------------------------------------------------------------
op == control.pending

Persist(p) == control' = [control EXCEPT !.pending = p]

\* record_error, release_exclusive: the operation stays as it is persisted.
Ends(error) ==
  /\ Persist([op EXCEPT !.error = error])
  /\ job' = Idle

\* finish_cancel: what was copied is kept for a later resumption.
Withdrawn == [control EXCEPT !.pending = None, !.copies = @ \cup {op}]

FinishCancel == control' = Withdrawn /\ job' = Idle

Fresh(target, merge) ==
  [phase |-> "waiting", merge |-> merge, generation |-> control.generation,
   source |-> control.active, target |-> target,
   error |-> "none", inv |-> NoFiles, kept |-> NoFiles, payload |-> NoFiles,
   item |-> [f \in Files |-> [id |-> None, temp |-> None, done |-> FALSE]]]

Names(inv) == {f \in Files : inv[f] # None}

\* verify_sources: the inventory is what the source holds.
Changed(p) == disk[p.source] # p.inv

\* prepare_data_storage_migration, announce_waiting.  A directory that is not
\* empty is merged into; it may hold files of other kinds (requires_merge).
Choose(target, merge) ==
  /\ job = Idle /\ op = None /\ target # control.active
  /\ control.generation < MaxGeneration
  /\ Names(disk[target]) # {} => merge
  /\ Persist(Fresh(target, merge))
  /\ job' = Wait("scan") /\ cancelled' = FALSE
  /\ UNCHANGED <<disk, library, near, permit, boot>>

\* wait_exclusive, until the operations under way have ended; a cancelled
\* preparation or start does not go on.
Drained ==
  /\ job.at = "wait"
  /\ IF cancelled
     THEN IF op = None THEN job' = Idle /\ UNCHANGED control ELSE FinishCancel
     ELSE ~permit /\ job' = At(job.next) /\ UNCHANGED control
  /\ UNCHANGED <<disk, library, near, permit, cancelled, boot>>

\* prepare_inner, prepare_merge_inner: inventory and plan are durable with the
\* phase.
Scan ==
  /\ job.at = "scan"
  /\ IF cancelled THEN FinishCancel
     ELSE /\ Persist([op EXCEPT !.phase = "prepared", !.error = "none",
                        !.inv = disk[op.source],
                        !.kept = [f \in Files |-> IF op.merge THEN disk[op.target][f] ELSE None],
                        !.item = [f \in Files |->
                          [id |-> IF op.merge /\ disk[op.target][f] # None
                                  THEN disk[op.target][f].id ELSE None,
                           temp |-> None, done |-> FALSE]]])
          /\ job' = Idle
  /\ UNCHANGED <<disk, library, near, permit, cancelled, boot>>

\* cancel: not once files are moved or published.
Cancel ==
  /\ op # None /\ op.phase \in {"waiting", "prepared", "copying", "verifying"}
  /\ control.copies = {}
  /\ cancelled' = TRUE
  /\ control' = IF job.at \in {"none", "wait"} THEN Withdrawn ELSE control
  /\ UNCHANGED <<disk, library, near, job, permit, boot>>

-----------------------------------------------------------------------------
\* confirm_data_storage_migration: start.
Confirm ==
  /\ job = Idle /\ op # None /\ op.phase = "prepared"
  /\ job' = Wait("verify") /\ cancelled' = FALSE
  /\ UNCHANGED <<disk, library, near, control, permit, boot>>

\* resume_data_storage_migration of the pending operation or of a cancelled
\* one: prepared anew when its sources have changed.
Resume(p) ==
  /\ job = Idle
  /\ p \in control.copies => op = None /\ p.generation = control.generation
  /\ p.phase \in {"waiting", "prepared", "copying", "verifying", "merging", "publishing"}
  /\ cancelled' = FALSE
  /\ LET rest == control.copies \ {p}
         anew == p.phase # "waiting" /\ p.phase \notin {"merging", "publishing"}
                   /\ (Changed(p) \/ p.error = "SourceChanged")
     IN /\ control' = [control EXCEPT !.pending = IF anew THEN Fresh(p.target, p.merge) ELSE p,
                                     !.copies = IF anew THEN rest \cup {p} ELSE rest]
        /\ job' = IF anew \/ p.phase = "waiting" THEN Wait("scan")
                  ELSE IF p.phase = "prepared" THEN Idle ELSE Wait("verify")
  /\ UNCHANGED <<disk, library, near, permit, boot>>

\* start_inner, start_merge_inner, up to the first file.
Verify ==
  /\ job.at = "verify"
  /\ IF op.merge /\ op.phase = "merging" THEN job' = At("merge") /\ UNCHANGED control
     ELSE IF cancelled /\ op.phase # "publishing" THEN FinishCancel
     ELSE IF Changed(op) THEN Ends("SourceChanged")
     ELSE IF op.merge
     THEN IF \A f \in Names(op.inv) : disk[op.target][f] = op.kept[f]
          THEN Persist([op EXCEPT !.phase = "merging", !.error = "none"]) /\ job' = At("merge")
          ELSE Ends("SourceChanged")
     ELSE IF op.phase = "publishing" THEN job' = At("publish") /\ UNCHANGED control
     ELSE Persist([op EXCEPT !.phase = "copying", !.error = "none"]) /\ job' = At("copy")
  /\ UNCHANGED <<disk, library, near, permit, cancelled, boot>>

\* copy_entry: what an earlier run has copied is there with the same hash.
CopyEntry(f) ==
  /\ job.at = "copy" /\ f \in Names(op.inv) \ job.done
  /\ IF cancelled THEN FinishCancel
     ELSE IF op.payload[f] # None
     THEN job' = [job EXCEPT !.done = @ \cup {f}] /\ UNCHANGED control
     ELSE IF disk[op.source][f] # op.inv[f] THEN Ends("SourceChanged")
     ELSE /\ Persist([op EXCEPT !.payload[f] = disk[op.source][f].data])
          /\ job' = [job EXCEPT !.done = @ \cup {f}]
  /\ UNCHANGED <<disk, library, near, permit, cancelled, boot>>

Copied ==
  /\ job.at = "copy" /\ job.done = Names(op.inv)
  /\ Persist([op EXCEPT !.phase = "verifying"])
  /\ job' = At("check")
  /\ UNCHANGED <<disk, library, near, permit, cancelled, boot>>

\* verify_destination, and the sources once more: not cancelled from here on.
Checked ==
  /\ job.at = "check"
  /\ IF cancelled THEN FinishCancel
     ELSE IF Changed(op) THEN Ends("SourceChanged")
     ELSE Persist([op EXCEPT !.phase = "publishing"]) /\ job' = At("publish")
  /\ UNCHANGED <<disk, library, near, permit, cancelled, boot>>

\* publish: a rename that replaces nothing; an earlier run may have done it.
PublishEntry(f) ==
  /\ job.at = "publish" /\ f \in Names(op.inv) \ job.done
  /\ IF disk[op.target][f] = None
     THEN /\ disk' = [disk EXCEPT ![op.target][f] = Entry(op.target, "copied", op.payload[f])]
          /\ Persist([op EXCEPT !.payload[f] = None])
          /\ job' = [job EXCEPT !.done = @ \cup {f}]
     ELSE /\ UNCHANGED disk
          /\ IF op.payload[f] # None THEN Ends("failed")
             ELSE job' = [job EXCEPT !.done = @ \cup {f}] /\ UNCHANGED control
  /\ UNCHANGED <<library, near, permit, cancelled, boot>>

Committed(receipts) ==
  control' = [control EXCEPT !.active = op.target, !.generation = @ + 1, !.receipts = receipts,
                             !.pending = [op EXCEPT !.phase = "restart_required",
                                                    !.error = "none"]]

\* The control file that names the target is written when it is verified.
Published ==
  /\ job.at = "publish" /\ job.done = Names(op.inv)
  /\ IF \A f \in Files : IF op.inv[f] = None THEN disk[op.target][f] = None
                        ELSE disk[op.target][f] # None /\ disk[op.target][f].data = op.inv[f].data
     THEN /\ Committed({[r EXCEPT !.at = @ \cup {op.target}] : r \in control.receipts}
                       \cup {[source |-> op.source, inv |-> op.inv, at |-> {op.target}]})
          /\ job' = Idle
     ELSE Ends("failed")
  /\ UNCHANGED <<disk, library, near, permit, cancelled, boot>>

-----------------------------------------------------------------------------
\* merge_item, for one file after another; the state of an item is durable.
MergeItem(f) ==
  /\ job.at = "merge" /\ job.file = None /\ f \in Names(op.inv) \ job.done
  /\ job' = [job EXCEPT !.file = f]
  /\ UNCHANGED <<disk, library, near, control, permit, cancelled, boot>>

Merging == job.at = "merge" /\ job.file # None
item == op.item[job.file]
there == disk[op.target][job.file]

\* To another volume: under an identity that is noted before it is written.
copy_cross_volume(f) ==
  /\ UNCHANGED job
  /\ IF item.temp = None
     THEN /\ Persist([op EXCEPT !.item[f].temp = Id(op.target, "copied", op.inv[f].data)])
          /\ UNCHANGED disk
     ELSE /\ disk' = [disk EXCEPT ![op.target][f] =
                                 Entry(op.target, "copied", op.inv[f].data)]
          /\ UNCHANGED control

\* The target has no such file: it is moved, or copied.
MergeMove ==
  /\ Merging /\ item.id = None /\ there = None
  /\ IF disk[op.source][job.file] # op.inv[job.file]
     THEN Ends("SourceChanged") /\ UNCHANGED disk
     ELSE IF near
     THEN /\ disk' = [disk EXCEPT ![op.target][job.file] = op.inv[job.file],
                                  ![op.source][job.file] = None]
          /\ UNCHANGED <<control, job>>
     ELSE copy_cross_volume(job.file)
  /\ UNCHANGED <<library, near, permit, cancelled, boot>>

\* Fault: the identity that was noted for a copy is not considered.
MergeNoteMoved ==
  /\ Merging /\ item.id = None /\ there # None
  /\ IF there.id = op.inv[job.file].id
     THEN Persist([op EXCEPT !.item[job.file].id = there.id]) /\ UNCHANGED job
     ELSE Ends("SourceChanged")
  /\ UNCHANGED <<disk, library, near, permit, cancelled, boot>>

\* The target's file is the one that was moved there; this is noted.
MergeNote ==
  /\ Merging /\ item.id = None /\ there # None
  /\ IF there.id \in {op.inv[job.file].id, item.temp}
     THEN Persist([op EXCEPT !.item[job.file].id = there.id]) /\ UNCHANGED job
     ELSE Ends("SourceChanged")
  /\ UNCHANGED <<disk, library, near, permit, cancelled, boot>>

\* The source goes once the target's file is the one of the item.
MergeRemove ==
  /\ Merging /\ item.id # None /\ ~item.done /\ disk[op.source][job.file] # None
  /\ IF there # None /\ there.id = item.id /\ disk[op.source][job.file] = op.inv[job.file]
     THEN disk' = [disk EXCEPT ![op.source][job.file] = None] /\ UNCHANGED <<control, job>>
     ELSE Ends("SourceChanged") /\ UNCHANGED disk
  /\ UNCHANGED <<library, near, permit, cancelled, boot>>

MergeDone ==
  /\ Merging /\ item.id # None
  /\ item.done \/ disk[op.source][job.file] = None
  /\ Persist([op EXCEPT !.item[job.file].done = TRUE])
  /\ job' = [job EXCEPT !.file = None, !.done = @ \cup {job.file}]
  /\ UNCHANGED <<disk, library, near, permit, cancelled, boot>>

\* verify_merge_destination.
MergeVerified ==
  \A f \in Names(op.inv) :
    /\ op.item[f].done
    /\ disk[op.target][f] # None /\ disk[op.target][f].id = op.item[f].id

\* The library is then what the target holds: its own files come first.
Merged ==
  /\ job.at = "merge" /\ job.file = None /\ job.done = Names(op.inv)
  /\ IF MergeVerified
     THEN /\ Committed({r \in control.receipts : op.target \in r.at})
          /\ job' = Idle
          /\ library' = [f \in Files |-> IF op.kept[f] = None THEN library[f]
                                        ELSE op.kept[f].data]
     ELSE Ends("failed") /\ UNCHANGED library
  /\ UNCHANGED <<disk, near, permit, cancelled, boot>>

-----------------------------------------------------------------------------
\* An I/O error in what a command does, or the end of the process, which may
\* come at any time; open then validates what was published.
Fails ==
  /\ job.at \notin {"none", "wait"} /\ op # None
  /\ Ends("failed")
  /\ UNCHANGED <<disk, library, near, permit, cancelled, boot>>

Restart ==
  /\ Persist(IF op # None /\ op.phase = "restart_required"
             THEN [op EXCEPT !.phase = "validating"] ELSE op)
  /\ job' = Idle /\ permit' = FALSE /\ cancelled' = FALSE
  /\ boot' = control.generation
  /\ UNCHANGED <<disk, library, near>>

\* begin_validation, recheck_data_storage: not before the process has restarted.
Recheck ==
  /\ job = Idle /\ op # None /\ op.phase \in {"validating", "restart_required"}
  /\ boot = control.generation
  /\ job' = At("recheck")
  /\ UNCHANGED <<disk, library, near, control, permit, cancelled, boot>>

recheck_inner ==
  /\ job.at = "recheck"
  /\ IF IF op.merge THEN MergeVerified
        ELSE \A f \in Names(op.inv) : /\ disk[control.active][f] # None
                                      /\ disk[control.active][f].data = op.inv[f].data
     THEN Persist(None) /\ job' = Idle
     ELSE Ends("failed")
  /\ UNCHANGED <<disk, library, near, permit, cancelled, boot>>

-----------------------------------------------------------------------------
\* confirm_cleanup: the originals of a receipt, once nothing else is under way.
ConfirmCleanup(r) ==
  /\ job = Idle /\ op = None /\ ~permit
  /\ Persist([Fresh(control.active, FALSE) EXCEPT
                !.phase = "cleaning", !.source = r.source, !.inv = r.inv])
  /\ job' = At("clean")
  /\ UNCHANGED <<disk, library, near, permit, cancelled, boot>>

cleanup_candidate(f) ==
  /\ op.source # control.active /\ disk[op.source][f] = op.inv[f]
  /\ disk[control.active][f] # None
  /\ disk[control.active][f].data = op.inv[f].data

\* clean_entries: a file goes if it is the one of the inventory and the library
\* holds the same; the rest is retained.
CleanEntry(f) ==
  /\ job.at = "clean" /\ f \in Names(op.inv) \ job.done
  /\ disk' = IF cleanup_candidate(f) THEN [disk EXCEPT ![op.source][f] = None] ELSE disk
  /\ job' = [job EXCEPT !.done = @ \cup {f}]
  /\ UNCHANGED <<library, near, control, permit, cancelled, boot>>

Cleaned ==
  /\ job.at = "clean" /\ job.done = Names(op.inv)
  /\ control' = [control EXCEPT !.pending = None, !.receipts =
                   {r \in @ : r.source = op.source /\ r.inv = op.inv =>
                             \E f \in Names(op.inv) : disk[op.source][f] # None}]
  /\ job' = Idle
  /\ UNCHANGED <<disk, library, near, permit, cancelled, boot>>

ResumeCleanup ==
  /\ job = Idle /\ op # None /\ op.phase = "cleaning"
  /\ job' = At("clean")
  /\ UNCHANGED <<disk, library, near, control, permit, cancelled, boot>>

stop_cleanup ==
  /\ job = Idle /\ op # None /\ op.phase = "cleaning"
  /\ Persist(None)
  /\ UNCHANGED <<disk, library, near, job, permit, cancelled, boot>>

-----------------------------------------------------------------------------
Next ==
  \/ Acquire \/ Release \/ \E f \in Files : Write(f)
  \/ \E t \in Roots, m \in BOOLEAN : Choose(t, m)
  \/ Drained \/ Scan \/ Confirm \/ Cancel
  \/ \E p \in control.copies \cup ({op} \ {None}) : Resume(p)
  \/ Verify \/ Copied \/ Checked \/ Published
  \/ \E f \in Files : CopyEntry(f) \/ PublishEntry(f) \/ MergeItem(f) \/ CleanEntry(f)
  \/ MergeMove \/ MergeNote \/ MergeRemove \/ MergeDone \/ Merged
  \/ Fails \/ Restart \/ Recheck \/ recheck_inner
  \/ \E r \in control.receipts : ConfirmCleanup(r)
  \/ Cleaned \/ ResumeCleanup \/ stop_cleanup

Spec == Init /\ [][Next]_vars

-----------------------------------------------------------------------------
\* Whatever crashes, errors, cancellations and resumptions do to a migration or
\* a clean-up, every file of the library is where the control file says, as the
\* user last wrote it; while a merge moves files it is in one of the two
\* directories, and what the target had before is as it was.
NothingLost ==
  LET holds(r, f) == disk[r][f] # None /\ disk[r][f].data = library[f]
  IN \A f \in Files :
       IF op # None /\ op.phase = "merging"
       THEN IF op.kept[f] # None THEN disk[op.target][f] = op.kept[f]
            ELSE library[f] # None => holds(op.source, f) \/ holds(op.target, f)
       ELSE library[f] # None => holds(control.active, f)

\* A merge that was interrupted anywhere can go on: it never takes what it moved
\* itself for a change that somebody else made.
MergeGoesOn ==
  op # None /\ op.phase = "merging" => op.error # "SourceChanged"
===============================================================================

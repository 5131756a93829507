--------------------------- MODULE HistoryDeletion ---------------------------
(***************************************************************************)
(* Deleting a task of the history for good                                 *)
(* (app/src-tauri/src/history_deletion.rs with history_deletion/intent.rs  *)
(* and storage.rs), against what else touches the task: the collections    *)
(* (collections.rs) and the operations that open it (transcript_detail.rs, *)
(* audio_playback.rs).  An intent file leads the deletion through the      *)
(* rename of the task, its caches and its memberships, and is resumed.     *)
(***************************************************************************)
EXTENDS Integers, FiniteSets

CONSTANTS
  Tasks,
  None

VARIABLES
  task,       \* where the directory of each task is
  cache,      \* and its two caches: the worker's and the audio for the review
  member,     \* the tasks that are in a collection
  intent,     \* the intent file
  deletion,   \* the deletion or its resumption under way
  lease,      \* the task leases that are held, by what
  adds,       \* a task being put into a collection, under COLLECTIONS_LOCK
  active      \* is_task_active: a worker runs

vars == <<task, cache, member, intent, deletion, lease, adds, active>>

Kinds == {"worker", "review"}
Places == {"there", "staged", "gone"}
Intents == [task : Tasks, phase : {"prepared", "accepted"}, caches : SUBSET Kinds]

TypeOK ==
  /\ task \in [Tasks -> Places] /\ cache \in [Tasks -> [Kinds -> Places]]
  /\ member \subseteq Tasks
  /\ intent \in Intents \cup {None}
  /\ deletion \in [at : {"none", "stage", "accept", "worker", "review", "prune", "remove",
                          "clear"},
                   of : Intents \cup {None}]
  /\ lease \in [Tasks -> {"free", "deletion", "detail"}]
  /\ adds \in [task : Tasks \cup {None}, at : {"none", "scanned", "guarded"}]
  /\ active \in BOOLEAN

Idle == [at |-> "none", of |-> None]
NoAdd == [task |-> None, at |-> "none"]

Init ==
  /\ task = [t \in Tasks |-> "there"]
  /\ cache \in [Tasks -> [Kinds -> {"there", "gone"}]]
  /\ member \in SUBSET Tasks
  /\ intent = None /\ deletion = Idle
  /\ lease = [t \in Tasks |-> "free"]
  /\ adds = NoAdd /\ active = FALSE

-----------------------------------------------------------------------------
\* guard_pending_task.
Guarded(t) == intent # None /\ intent.task = t

\* mutate_collections: the lock is held from the scan of the tasks to the write.
AddScan(t) ==
  /\ adds = NoAdd /\ task[t] = "there" /\ t \notin member
  /\ ~(Guarded(t) /\ intent.phase = "accepted")
  /\ adds' = [task |-> t, at |-> "scanned"]
  /\ UNCHANGED <<task, cache, member, intent, deletion, lease, active>>

AddGuard ==
  /\ adds.at = "scanned"
  /\ adds' = IF Guarded(adds.task) THEN NoAdd ELSE [adds EXCEPT !.at = "guarded"]
  /\ UNCHANGED <<task, cache, member, intent, deletion, lease, active>>

AddWrite ==
  /\ adds.at = "guarded"
  /\ member' = member \cup {adds.task}
  /\ adds' = NoAdd
  /\ UNCHANGED <<task, cache, intent, deletion, lease, active>>

\* load_transcript_detail: with the task open, its audio is copied for review.
OpenDetail(t) ==
  /\ task[t] = "there" /\ lease[t] = "free" /\ ~Guarded(t)
  /\ lease' = [lease EXCEPT ![t] = "detail"]
  /\ UNCHANGED <<task, cache, member, intent, deletion, adds, active>>

CopyAudio(t) ==
  /\ lease[t] = "detail"
  /\ cache' = [cache EXCEPT ![t]["review"] = "there"]
  /\ UNCHANGED <<task, member, intent, deletion, lease, adds, active>>

CloseDetail(t) ==
  /\ lease[t] = "detail"
  /\ lease' = [lease EXCEPT ![t] = "free"]
  /\ UNCHANGED <<task, cache, member, intent, deletion, adds, active>>

Worker ==
  /\ active' = ~active
  /\ UNCHANGED <<task, cache, member, intent, deletion, lease, adds>>

-----------------------------------------------------------------------------
\* delete_from_paths: alone, with no worker and no other deletion to finish;
\* prepare notes what there is to delete, and the intent is written.
Delete(t) ==
  /\ deletion = Idle /\ ~active /\ intent = None
  /\ task[t] = "there" /\ lease[t] = "free"
  /\ intent' = [task |-> t, phase |-> "prepared",
                caches |-> {k \in Kinds : cache[t][k] = "there"}]
  /\ deletion' = [at |-> "stage", of |-> intent']
  /\ lease' = [lease EXCEPT ![t] = "deletion"]
  /\ UNCHANGED <<task, cache, member, adds, active>>

Free == lease' = [lease EXCEPT ![deletion.of.task] = "free"]

Goes(at) == deletion' = [deletion EXCEPT !.at = at] /\ UNCHANGED lease
Stops == deletion' = Idle /\ Free

\* The rename of the task; one that fails without effect takes the intent back,
\* unless that fails too.
Stage ==
  /\ deletion.at = "stage"
  /\ \/ task' = [task EXCEPT ![deletion.of.task] = "staged"] /\ Goes("accept") /\ UNCHANGED intent
     \/ task' = [task EXCEPT ![deletion.of.task] = "staged"] /\ Stops /\ UNCHANGED intent
     \/ UNCHANGED task /\ Stops /\ intent' \in {None, intent}
  /\ UNCHANGED <<cache, member, adds, active>>

\* complete_accepted_move: from here on the deletion is only completed.
Accept ==
  /\ deletion.at = "accept"
  /\ intent' = [deletion.of EXCEPT !.phase = "accepted"]
  /\ deletion' = [at |-> "worker", of |-> intent']
  /\ UNCHANGED <<task, cache, member, lease, adds, active>>

\* stage_cache, of what was there when the deletion was prepared.
StageCache(kind, next) ==
  /\ deletion.at = kind
  /\ cache' = IF kind \in deletion.of.caches /\ cache[deletion.of.task][kind] = "there"
              THEN [cache EXCEPT ![deletion.of.task][kind] = "staged"] ELSE cache
  /\ Goes(next)
  /\ UNCHANGED <<task, member, intent, adds, active>>

\* prune_deleted_note_memberships, under COLLECTIONS_LOCK.
Prune ==
  /\ deletion.at = "prune" /\ adds = NoAdd
  /\ member' = member \ {deletion.of.task}
  /\ Goes("remove")
  /\ UNCHANGED <<task, cache, intent, adds, active>>

\* remove_staged: the task, then the caches.
Remove ==
  /\ deletion.at = "remove"
  /\ LET t == deletion.of.task
         staged == {k \in Kinds : cache[t][k] = "staged"}
     IN CASE task[t] = "staged" -> task' = [task EXCEPT ![t] = "gone"]
                                   /\ UNCHANGED <<cache, deletion, lease>>
          [] task[t] # "staged" /\ staged # {} ->
               /\ \E k \in staged : cache' = [cache EXCEPT ![t][k] = "gone"]
               /\ UNCHANGED <<task, deletion, lease>>
          [] OTHER -> Goes("clear") /\ UNCHANGED <<task, cache>>
  /\ UNCHANGED <<member, intent, adds, active>>

Clear ==
  /\ deletion.at = "clear"
  /\ intent' = None
  /\ Stops
  /\ UNCHANGED <<task, cache, member, adds, active>>

\* Any of these fails: the answer is that the clean-up is pending.
Fails ==
  /\ deletion.at \in {"accept", "worker", "review", "prune", "remove", "clear"}
  /\ Stops
  /\ UNCHANGED <<task, cache, member, intent, adds, active>>

-----------------------------------------------------------------------------
\* Fault: a deletion that is not accepted is taken back unseen.
ResumeTakesBack ==
  /\ deletion = Idle /\ ~active /\ intent # None /\ lease[intent.task] = "free"
  /\ IF intent.phase = "prepared"
     THEN intent' = None /\ UNCHANGED <<deletion, lease>>
     ELSE /\ deletion' = [at |-> "accept", of |-> intent]
          /\ lease' = [lease EXCEPT ![intent.task] = "deletion"]
          /\ UNCHANGED intent
  /\ UNCHANGED <<task, cache, member, adds, active>>

\* resume_from_paths, at the start, with the history or before a migration: a
\* deletion that has not moved the task is taken back, any other is completed.
Resume ==
  /\ deletion = Idle /\ ~active /\ intent # None /\ lease[intent.task] = "free"
  /\ IF intent.phase = "prepared" /\ task[intent.task] = "there"
     THEN intent' = None /\ UNCHANGED <<deletion, lease>>
     ELSE /\ deletion' = [at |-> "accept", of |-> intent]
          /\ lease' = [lease EXCEPT ![intent.task] = "deletion"]
          /\ UNCHANGED intent
  /\ UNCHANGED <<task, cache, member, adds, active>>

Crash ==
  /\ deletion' = Idle /\ adds' = NoAdd /\ active' = FALSE
  /\ lease' = [t \in Tasks |-> "free"]
  /\ UNCHANGED <<task, cache, member, intent>>

Next ==
  \/ \E t \in Tasks : AddScan(t) \/ OpenDetail(t) \/ CopyAudio(t) \/ CloseDetail(t) \/ Delete(t)
  \/ AddGuard \/ AddWrite \/ Worker
  \/ Stage \/ Accept \/ StageCache("worker", "review") \/ StageCache("review", "prune")
  \/ Prune \/ Remove \/ Clear \/ Fails \/ Resume \/ Crash

Spec == Init /\ [][Next]_vars

\* A deletion is all or nothing whatever stops it and whatever else works on the
\* task: once no intent is left, a task is as it was, or nothing of it is left,
\* neither a cache nor a membership.
AllOrNothing ==
  intent = None =>
    \A t \in Tasks :
      \/ task[t] = "there" /\ \A k \in Kinds : cache[t][k] # "staged"
      \/ task[t] = "gone" /\ t \notin member /\ \A k \in Kinds : cache[t][k] = "gone"
===============================================================================

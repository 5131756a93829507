------------------------------ MODULE WorkerLane ------------------------------
(***************************************************************************)
(* One lane of the desktop's worker runtime (app/src-tauri/src/            *)
(* worker_runtime): the supervisor of the lane's current worker process,   *)
(* the runs that spawn, watch, reap and classify a worker, the watchdog    *)
(* thread of each run, the cancel commands, and the operating system's     *)
(* process table (external, as a Unix system keeps it).                    *)
(*                                                                         *)
(* Every critical section of ProcessSupervisor is one step; the signals    *)
(* are sent outside of it.  Time is abstracted: a deadline may expire at   *)
(* any moment a watchdog waits for it.                                     *)
(***************************************************************************)
EXTENDS Naturals, FiniteSets, TLC

CONSTANTS Caller,        \* threads that call WorkerLane::run, one run at a time
          Canceller,     \* threads that call WorkerLane::cancel
          Pid,           \* process identifiers, reused by the system
          MaxInstance,   \* bound on the instances a behaviour starts
          Lingering,     \* whether descendants may outlive their worker
          CleanupFails,  \* whether a cleanup's own signal may be refused
          Nobody,        \* holds nothing, owns nothing
          Stranger       \* processes that are none of the lane's workers

ASSUME ConstantsAssumption ==
    /\ MaxInstance \in Nat \ {0}
    /\ Lingering \in BOOLEAN /\ CleanupFails \in BOOLEAN
    /\ {Nobody, Stranger} \cap (Caller \cup Canceller) = {}
    /\ Nobody # Stranger
    /\ Caller \cap Canceller = {}

VARIABLES
    admission,  \* WorkerLane.admission: who holds the mutex
    lastId,     \* next_instance_id
    current,    \* the registered instance: its number, process and phase
    lease,      \* termination_in_flight, with its owner and its progress
    run,        \* what each caller is doing
    dog,        \* the watchdog of each caller's run
    answer,     \* what each canceller has last been told
    owner,      \* whose process (group) a pid is
    tree        \* what is left of it: "worker", "zombie", "descendant"

lane == <<admission, lastId, current, lease>>
system == <<owner, tree>>
vars == <<admission, lastId, current, lease, run, dog, answer, owner, tree>>

Terminating == {"cancelling", "idle", "absolute"}
Phases == {"running", "cleaning"} \cup Terminating
Ids == 1..MaxInstance

NoInstance == [id |-> 0]
Instances == [id : Ids, pid : Pid, phase : Phases]

NoLease == [id |-> 0]
Leases == [id : Ids, pid : Pid, phase : Terminating, by : Caller \cup Canceller,
           signal : {"pending", "sent", "failed"}]

\* What a dead worker has left on its standard output: a valid result, one that
\* breaks the protocol (an exit with success and no result does too), or
\* nothing, after a failure.
Outputs == {"valid", "broken", "missing"}

\* "reader_failed" is the protocol violation "Worker stdout reader failed.".
Errors == {"already_running", "spawn_failed", "watchdog_failed", "delivery_failed",
           "wait_failed", "protocol_violation", "reader_failed"}
Outcomes == {"none", "structured", "cancelled", "idle", "absolute", "unstructured"}
                \cup Errors

RunPCs == {"returned", "reserved", "spawned", "discard", "discarded", "registered",
           "deliver", "wait", "unwatch", "cleanup", "kill", "reap", "finish",
           "tree", "read"}

Runs == [pc : RunPCs, web : BOOLEAN, pid : Pid \cup {Nobody}, id : {0} \cup Ids,
         output : Outputs \cup {"none"}, exited : BOOLEAN, outcome : Outcomes]

TypeOK ==
    /\ admission \in Caller \cup {Nobody}
    /\ lastId \in {0} \cup Ids
    /\ current \in Instances \cup {NoInstance}
    /\ lease \in Leases \cup {NoLease}
    /\ run \in [Caller -> Runs]
    /\ dog \in [Caller -> {"off", "watch", "expired", "claimed", "signalled", "backoff"}]
    /\ answer \in [Canceller -> [status : {"none", "claimed", "cancelling", "failed"},
                                 id : {0} \cup Ids]]
    /\ owner \in [Pid -> Caller \cup {Nobody, Stranger}]
    /\ tree \in [Pid -> SUBSET {"worker", "zombie", "descendant"}]

Idle == [pc |-> "returned", web |-> FALSE, pid |-> Nobody, id |-> 0,
         output |-> "none", exited |-> FALSE, outcome |-> "none"]

Init ==
    /\ admission = Nobody
    /\ lastId = 0
    /\ current = NoInstance
    /\ lease = NoLease
    /\ run = [c \in Caller |-> Idle]
    /\ dog = [c \in Caller |-> "off"]
    /\ answer = [k \in Canceller |-> [status |-> "none", id |-> 0]]
    /\ owner = [q \in Pid |-> Nobody]
    /\ tree = [q \in Pid |-> {}]

Active == current # NoInstance

Own(c) == run[c].id # 0 /\ current.id = run[c].id

\* The phase of the lane's worker, as its run sees it.
Phase(c) == IF Own(c) THEN current.phase ELSE "none"

-----------------------------------------------------------------------------
(* The process table.                                                      *)

\* A pid is free once nothing is left of its process group.
Table(q, left) ==
    /\ tree' = [tree EXCEPT ![q] = left]
    /\ owner' = [owner EXCEPT ![q] = IF left = {} THEN Nobody ELSE @]

Alive(q) == q # Nobody /\ "worker" \in tree[q]
Dead(q) == q # Nobody /\ "zombie" \in tree[q]

\* The worker of a run dies and leaves an output.  A worker killed in the
\* middle of its work may have written its result just before.
Dies(q) ==
    IF Alive(q)
    THEN \E o \in Outputs :
            run' = [run EXCEPT ![owner[q]] = [@ EXCEPT !.output = o]]
    ELSE UNCHANGED run

\* The whole group of a pid is killed, zombies stay until they are reaped.
Killed(q) == IF tree[q] \cap {"worker", "zombie"} = {} THEN {} ELSE {"zombie"}

\* A worker exits by itself, with or without descendants; these still hold the
\* pipes they have inherited.
Exit(q) ==
    /\ Alive(q)
    /\ Dies(q)
    /\ \E kept \in IF Lingering THEN {{}, {"descendant"}} ELSE {{}} :
          Table(q, {"zombie"} \cup kept)
    /\ UNCHANGED <<lane, dog, answer>>

DescendantExits(q) ==
    /\ "descendant" \in tree[q]
    /\ Table(q, tree[q] \ {"descendant"})
    /\ UNCHANGED <<lane, run, dog, answer>>

\* A free pid is given to some other process, and comes back.
PidTaken(q) ==
    /\ owner[q] = Nobody
    /\ owner' = [owner EXCEPT ![q] = Stranger]
    /\ UNCHANGED <<lane, run, dog, answer, tree>>

PidFreed(q) ==
    /\ owner[q] = Stranger
    /\ owner' = [owner EXCEPT ![q] = Nobody]
    /\ UNCHANGED <<lane, run, dog, answer, tree>>

-----------------------------------------------------------------------------
(* WorkerLane::run.                                                        *)

At(c, pc) == run[c].pc = pc

Goes(c, pc) == run' = [run EXCEPT ![c] = [@ EXCEPT !.pc = pc]]

Fails(c, pc, error) ==
    run' = [run EXCEPT ![c] = [@ EXCEPT !.pc = pc, !.outcome = error]]

\* The run returns; an admission it still holds is released.  The output of
\* its worker is of no use any more.
Returns(c, outcome) ==
    /\ run' = [run EXCEPT ![c] = [@ EXCEPT !.pc = "returned", !.output = "none",
                                           !.outcome = outcome]]
    /\ admission' = IF admission = c THEN Nobody ELSE admission

\* Fault: the admission alone is taken for an idle lane.
ReserveUnchecked(c) ==
    /\ At(c, "returned")
    /\ lastId < MaxInstance
    /\ admission = Nobody
    /\ admission' = c
    /\ \E w \in BOOLEAN : run' = [run EXCEPT ![c] = [Idle EXCEPT !.pc = "reserved",
                                                                 !.web = w]]
    /\ UNCHANGED <<lastId, current, lease, dog, answer, system>>

\* reserve: the admission mutex, tried once, and an idle lane.
Reserve(c) ==
    /\ At(c, "returned")
    /\ lastId < MaxInstance
    /\ admission = Nobody
    /\ ~Active
    /\ admission' = c
    /\ \E w \in BOOLEAN : run' = [run EXCEPT ![c] = [Idle EXCEPT !.pc = "reserved",
                                                                 !.web = w]]
    /\ UNCHANGED <<lastId, current, lease, dog, answer, system>>

ReserveRefused(c) ==
    /\ At(c, "returned")
    /\ admission # Nobody \/ Active
    /\ run' = [run EXCEPT ![c] = [Idle EXCEPT !.outcome = "already_running"]]
    /\ UNCHANGED <<lane, dog, answer, system>>

\* The runtime check or the spawn itself fails.
SpawnFails(c) ==
    /\ At(c, "reserved")
    /\ Returns(c, "spawn_failed")
    /\ UNCHANGED <<lastId, current, lease, dog, answer, system>>

Spawn(c) ==
    /\ At(c, "reserved")
    /\ \E q \in Pid :
          /\ owner[q] = Nobody
          /\ owner' = [owner EXCEPT ![q] = c]
          /\ tree' = [tree EXCEPT ![q] = {"worker"}]
          /\ run' = [run EXCEPT ![c] = [@ EXCEPT !.pc = "spawned", !.pid = q]]
    /\ UNCHANGED <<lane, dog, answer>>

\* WebProcessTree::attach fails.
AttachFails(c) ==
    /\ At(c, "spawned")
    /\ run[c].web
    /\ Fails(c, "discard", "spawn_failed")
    /\ UNCHANGED <<lane, dog, answer, system>>

\* ProcessSupervisor::start; a lane that is not idle discards the worker.
\* Only a web page's run keeps its admission from here on.
Register(c) ==
    /\ At(c, "spawned")
    /\ IF current = NoInstance /\ lease = NoLease
       THEN /\ lastId' = lastId + 1
            /\ current' = [id |-> lastId + 1, pid |-> run[c].pid, phase |-> "running"]
            /\ run' = [run EXCEPT ![c] = [@ EXCEPT !.pc = "registered",
                                                   !.id = lastId + 1]]
            /\ admission' = IF run[c].web THEN admission ELSE Nobody
       ELSE /\ Fails(c, "discard", "already_running")
            /\ UNCHANGED <<admission, lastId, current>>
    /\ UNCHANGED <<lease, dog, answer, system>>

\* One attempt to kill the worker's group, its failure ignored, by a run that
\* is then waiting for the worker.
KillOwn(c, from, to) ==
    /\ At(c, from)
    /\ LET q == run[c].pid IN
       \/ /\ Table(q, Killed(q))
          /\ \E o \in IF Alive(q) THEN Outputs ELSE {run[c].output} :
                run' = [run EXCEPT ![c] = [@ EXCEPT !.pc = to, !.output = o]]
       \/ CleanupFails /\ Goes(c, to) /\ UNCHANGED system
    /\ UNCHANGED <<lane, dog, answer>>

\* terminate_and_reap of a worker that was never registered.
Discard(c) == KillOwn(c, "discard", "discarded")

DiscardReap(c) ==
    /\ At(c, "discarded")
    /\ Dead(run[c].pid)
    /\ Table(run[c].pid, tree[run[c].pid] \ {"zombie"})
    /\ Returns(c, run[c].outcome)
    /\ UNCHANGED <<lastId, current, lease, dog, answer>>

\* start_watchdog, or its failure; a web worker may fail before it.
StartWatchdog(c) ==
    /\ At(c, "registered")
    /\ dog' = [dog EXCEPT ![c] = "watch"]
    /\ Goes(c, "deliver")
    /\ UNCHANGED <<lane, answer, system>>

StartWatchdogFails(c) ==
    /\ At(c, "registered")
    /\ \/ run[c].web /\ Fails(c, "cleanup", "spawn_failed")
       \/ Fails(c, "cleanup", "watchdog_failed")
    /\ UNCHANGED <<lane, dog, answer, system>>

\* deliver_worker_stdin; a web worker that is already being terminated gets no
\* request.
Deliver(c) ==
    /\ At(c, "deliver")
    /\ ~(run[c].web /\ Phase(c) \in Terminating)
    /\ Goes(c, "wait")
    /\ UNCHANGED <<lane, dog, answer, system>>

DeliverFails(c) ==
    /\ At(c, "deliver")
    /\ Fails(c, "unwatch", "delivery_failed")
    /\ UNCHANGED <<lane, dog, answer, system>>

\* child.wait: the worker is reaped.
Wait(c) ==
    /\ At(c, "wait")
    /\ Dead(run[c].pid)
    /\ Table(run[c].pid, tree[run[c].pid] \ {"zombie"})
    /\ run' = [run EXCEPT ![c] = [@ EXCEPT !.pc = "unwatch", !.exited = TRUE]]
    /\ UNCHANGED <<lane, dog, answer>>

\* child.wait itself fails.  (The child's pipes are always there to be taken.)
WaitFails(c) ==
    /\ At(c, "wait")
    /\ Fails(c, "unwatch", "wait_failed")
    /\ UNCHANGED <<lane, dog, answer, system>>

\* stop_and_join: a watchdog past its deadline still makes its attempt.
StopWatchdog(c) ==
    /\ At(c, "unwatch")
    /\ dog[c] \in {"watch", "signalled", "backoff"}
    /\ dog' = [dog EXCEPT ![c] = "off"]
    /\ Goes(c, IF run[c].exited THEN "finish" ELSE "cleanup")
    /\ UNCHANGED <<lane, answer, system>>

\* cleanup_registered_child: an exited worker is reaped; a running one is
\* claimed for the cleanup, unless a termination is under way, which is
\* waited for in a loop.
CleanupReap(c) ==
    /\ At(c, "cleanup")
    /\ Dead(run[c].pid)
    /\ Table(run[c].pid, tree[run[c].pid] \ {"zombie"})
    /\ Goes(c, "finish")
    /\ UNCHANGED <<lane, dog, answer>>

CleanupClaim(c) ==
    /\ At(c, "cleanup")
    /\ Phase(c) = "running"
    /\ current' = [current EXCEPT !.phase = "cleaning"]
    /\ Goes(c, "kill")
    /\ UNCHANGED <<admission, lastId, lease, dog, answer, system>>

CleanupKill(c) == KillOwn(c, "kill", "reap")

\* Fault: the cleanup goes on without waiting for the worker.
ReapSkipped(c) ==
    /\ At(c, "reap")
    /\ Goes(c, "finish")
    /\ UNCHANGED <<lane, dog, answer, system>>

Reap(c) ==
    /\ At(c, "reap")
    /\ Dead(run[c].pid)
    /\ Table(run[c].pid, tree[run[c].pid] \ {"zombie"})
    /\ Goes(c, "finish")
    /\ UNCHANGED <<lane, dog, answer>>

\* Fault: the phase itself is reported.
ClassifiedByPhase(c, phase) ==
    LET r == run[c] IN
    CASE r.exited /\ r.output = "valid" -> "structured"
      [] (r.exited \/ r.outcome = "delivery_failed") /\ phase \in Terminating -> phase
      [] OTHER -> r.outcome

\* classify_terminal and the early returns, from the phase the run finished
\* in: a valid result comes first, an error of the set-up is kept.
Classified(c, phase) ==
    LET r == run[c] IN
    CASE r.exited /\ r.output = "valid" -> "structured"
      [] (r.exited \/ r.outcome = "delivery_failed") /\ phase \in Terminating ->
            IF phase = "cancelling" THEN "cancelled" ELSE phase
      [] r.exited /\ phase \notin Terminating ->
            IF r.output = "missing" THEN "unstructured" ELSE "protocol_violation"
      [] OTHER -> r.outcome

\* Fault: finish does not wait for a termination in flight.
FinishAtOnce(c) ==
    /\ At(c, "finish")
    /\ current' = IF Own(c) THEN NoInstance ELSE current
    /\ run' = [run EXCEPT ![c] = [@ EXCEPT
          !.pc = IF run[c].web THEN "tree" ELSE "read", !.output = "none",
          !.outcome = Classified(c, Phase(c))]]
    /\ UNCHANGED <<admission, lastId, lease, dog, answer, system>>

\* ProcessSupervisor::finish: the instance is cleared once no termination of
\* it is in flight.
Finish(c) ==
    /\ At(c, "finish")
    /\ lease.id # run[c].id
    /\ current' = IF Own(c) THEN NoInstance ELSE current
    /\ run' = [run EXCEPT ![c] = [@ EXCEPT
          !.pc = IF run[c].web THEN "tree" ELSE "read", !.output = "none",
          !.outcome = Classified(c, Phase(c))]]
    /\ UNCHANGED <<admission, lastId, lease, dog, answer, system>>

\* The runs that read what their worker has written.
Reads(c) == run[c].exited \/ run[c].outcome = "wait_failed"

\* Fault: the worker's exit is taken for the exit of its group.
FinishTreeTrusting(c) ==
    /\ At(c, "tree")
    /\ Goes(c, "read")
    /\ UNCHANGED <<lane, dog, answer, system>>

\* finish_web_tree and the drop of WebProcessTree: the group of a web page's
\* worker is killed and waited for.  A run whose tree does not end has failed;
\* one that failed already keeps its error.
FinishTree(c) ==
    /\ At(c, "tree")
    /\ LET q == run[c].pid
           ended == IF owner[q] = c THEN Table(q, {}) ELSE UNCHANGED system
       IN \/ Reads(c) /\ ended /\ Goes(c, "read") /\ UNCHANGED admission
          \/ ~Reads(c) /\ ended /\ Returns(c, run[c].outcome)
          \/ /\ Returns(c, IF Reads(c) \/ run[c].outcome = "spawn_failed"
                            THEN "wait_failed" ELSE run[c].outcome)
             /\ UNCHANGED system
    /\ UNCHANGED <<lastId, current, lease, dog, answer>>

\* The readers end when nobody holds the worker's pipes any more.  A reader of
\* the standard output that failed, on an error, a panic or a web page's message
\* over its limit, ends at once, and the run returns before it has classified
\* the end of its worker or joined the other reader.
Read(c) ==
    /\ At(c, "read")
    /\ \/ /\ Reads(c) => owner[run[c].pid] # c \/ tree[run[c].pid] = {}
          /\ Returns(c, run[c].outcome)
       \/ run[c].exited /\ Returns(c, "reader_failed")
    /\ UNCHANGED <<lastId, current, lease, dog, answer, system>>

-----------------------------------------------------------------------------
(* The watchdog of a run.                                                  *)

Barks(c, state) == dog' = [dog EXCEPT ![c] = state]

\* wait_for_expiration returns.
Expire(c) ==
    /\ dog[c] = "watch"
    /\ Barks(c, "expired")
    /\ UNCHANGED <<lane, run, answer, system>>

\* A termination claim, of a deadline or of a cancel command.
Claims(by, phase) ==
    /\ current' = [current EXCEPT !.phase = phase]
    /\ lease' = [id |-> current.id, pid |-> current.pid, phase |-> phase, by |-> by,
                 signal |-> "pending"]

Kinds(c) == IF run[c].web THEN {"absolute"} ELSE {"idle", "absolute"}

\* Fault: a deadline takes over a cancellation.
DogRelabels(c) ==
    /\ dog[c] = "expired"
    /\ Own(c)
    /\ \E kind \in Kinds(c) : Claims(c, kind)
    /\ Barks(c, "claimed")
    /\ UNCHANGED <<admission, lastId, run, answer, system>>

\* claim_timeout_termination.
DogClaim(c) ==
    /\ dog[c] = "expired"
    /\ IF Phase(c) = "running"
       THEN /\ \E kind \in Kinds(c) : Claims(c, kind)
            /\ Barks(c, "claimed")
       ELSE /\ Barks(c, IF Own(c) THEN "backoff" ELSE "signalled")
            /\ UNCHANGED <<current, lease>>
    /\ UNCHANGED <<admission, lastId, run, answer, system>>

\* wait_backoff_or_stop runs out: the deadline is looked at again.
Retry(c) ==
    /\ dog[c] = "backoff"
    /\ Barks(c, "watch")
    /\ UNCHANGED <<lane, run, answer, system>>

-----------------------------------------------------------------------------
(* WorkerLane::cancel, and the terminator that claims share.               *)

Told(k, status, id) == answer' = [answer EXCEPT ![k] = [status |-> status, id |-> id]]

\* claim_cancel_termination.
CancelClaim(k) ==
    /\ answer[k].status # "claimed"
    /\ Active /\ current.phase = "running"
    /\ Claims(k, "cancelling")
    /\ Told(k, "claimed", current.id)
    /\ UNCHANGED <<admission, lastId, run, dog, system>>

\* The lane is idle, or its worker is being terminated already.
CancelRefused(k) ==
    /\ answer[k].status # "claimed"
    /\ Active => current.phase # "running"
    /\ Told(k, "none", 0)
    /\ UNCHANGED <<lane, run, dog, system>>

\* terminate_process_tree succeeds: the group there is under this number is
\* killed.  A group that is gone makes it fail.
SignalSent(by) ==
    /\ lease # NoLease
    /\ lease.by = by /\ lease.signal = "pending"
    /\ owner[lease.pid] # Nobody
    /\ IF owner[lease.pid] = Stranger
       THEN UNCHANGED <<run, system>>
       ELSE Dies(lease.pid) /\ Table(lease.pid, Killed(lease.pid))
    /\ lease' = [lease EXCEPT !.signal = "sent"]
    /\ UNCHANGED <<admission, lastId, current, dog, answer>>

SignalFails(by) ==
    /\ lease # NoLease
    /\ lease.by = by /\ lease.signal = "pending"
    /\ lease' = [lease EXCEPT !.signal = "failed"]
    /\ UNCHANGED <<admission, lastId, current, run, dog, answer, system>>


\* complete_termination: a failed signal hands the instance back.
Complete(by) ==
    /\ lease # NoLease
    /\ lease.by = by /\ lease.signal # "pending"
    /\ current' = IF lease.signal = "failed" THEN [current EXCEPT !.phase = "running"]
                                             ELSE current
    /\ lease' = NoLease
    /\ IF by \in Caller
       THEN Barks(by, IF lease.signal = "sent" THEN "signalled" ELSE "backoff")
            /\ UNCHANGED answer
       ELSE /\ Told(by, IF lease.signal = "sent" THEN "cancelling" ELSE "failed", lease.id)
            /\ UNCHANGED dog
    /\ UNCHANGED <<admission, lastId, run, system>>

-----------------------------------------------------------------------------
Starts(c) == Reserve(c) \/ ReserveRefused(c)

\* A request that the worker does not read may block its delivery for ever.
Delivery(c) == Deliver(c) \/ DeliverFails(c)

Proceeds(c) ==
    \/ SpawnFails(c) \/ Spawn(c) \/ AttachFails(c) \/ Register(c)
    \/ Discard(c) \/ DiscardReap(c)
    \/ StartWatchdog(c) \/ StartWatchdogFails(c)
    \/ Wait(c) \/ WaitFails(c) \/ StopWatchdog(c)
    \/ CleanupReap(c) \/ CleanupClaim(c) \/ CleanupKill(c) \/ Reap(c)
    \/ Finish(c) \/ FinishTree(c) \/ Read(c)

Watches(c) == Expire(c) \/ DogClaim(c) \/ Retry(c)

Cancels(k) == CancelClaim(k) \/ CancelRefused(k)

Terminates(by) == SignalSent(by) \/ SignalFails(by) \/ Complete(by)

Processes(q) == Exit(q) \/ DescendantExits(q) \/ PidTaken(q) \/ PidFreed(q)

Next ==
    \/ \E c \in Caller : Starts(c) \/ Delivery(c) \/ Proceeds(c) \/ Watches(c)
    \/ \E k \in Canceller : Cancels(k)
    \/ \E by \in Caller \cup Canceller : Terminates(by)
    \/ \E q \in Pid : Processes(q)

Spec == Init /\ [][Next]_vars

\* Threads run; a run that waits for the watchdog, for a termination or for the
\* instance is not overtaken for ever; a delivery ends when its worker is dead;
\* the system accepts a termination that is requested again and again.  Nothing
\* is assumed of the worker itself.
Fairness ==
    /\ \A c \in Caller : /\ SF_vars(Proceeds(c))
                         /\ WF_vars(Dead(run[c].pid) /\ Delivery(c))
                         /\ WF_vars(Watches(c))
    /\ \A by \in Caller \cup Canceller : SF_vars(SignalSent(by)) /\ WF_vars(Terminates(by))

FairSpec == Spec /\ Fairness

\* Callers are interchangeable for TLC, and so are the numbers of processes.
Symmetry == Permutations(Caller) \cup Permutations(Pid)

-----------------------------------------------------------------------------
(* Properties.                                                             *)

\* A termination that is about to be signalled never aims at the worker of
\* another run, for finish waits for the helper before the lane is free again;
\* and whatever happens while the signal is sent outside of the lock, the lease
\* belongs to the registered instance in the phase it claimed, which request_cancel
\* and request_timeout debug_assert!.
SignalsOwnWorker ==
    lease # NoLease =>
        /\ lease.signal = "pending" =>
              \A c \in Caller : owner[lease.pid] = c => run[c].id = lease.id
        /\ [id |-> lease.id, pid |-> lease.pid, phase |-> lease.phase] = current

\* The lane never has two workers that are alive or not reaped, whichever runs
\* overlap in setting up, failing and cleaning up.
OneWorker ==
    \A q, r \in Pid : tree[q] \cap {"worker", "zombie"} # {}
                        /\ tree[r] \cap {"worker", "zombie"} # {} => q = r

\* A user who has been told "cancelling" is not told later that the same run
\* timed out, crashed or sent no valid result: it saved a result, was cancelled
\* or had failed in its set-up.  The one other reason is that its worker's output
\* could not be read, which is reported before the phase is looked at.
CancellationIsTruthful ==
    \A k \in Canceller, c \in Caller :
        /\ answer[k].status = "cancelling"
        /\ run[c].id = answer[k].id
        /\ run[c].pc \in {"tree", "read", "returned"}
        => run[c].outcome \in {"structured", "cancelled", "spawn_failed",
                               "watchdog_failed", "wait_failed", "reader_failed"}

\* A run that has returned, by whichever early return, has left neither a
\* worker nor a zombie behind.
NoWorkerLeft ==
    \A c \in Caller, q \in Pid :
        run[c].pc = "returned" /\ owner[q] = c => tree[q] \subseteq {"descendant"}

\* A web page's run that has reaped its worker and goes on to its result, or
\* returns without reporting a failed cleanup, has left no process of the
\* worker's group.
WebRunLeavesNoTree ==
    \A c \in Caller :
        /\ run[c].pc \in {"read", "returned"}
        /\ run[c].web /\ run[c].exited /\ run[c].outcome # "wait_failed"
        => owner[run[c].pid] # c

=============================================================================

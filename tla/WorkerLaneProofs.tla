-------------------------- MODULE WorkerLaneProofs --------------------------
(***************************************************************************)
(* Proofs about WorkerLane, for any sets of callers, cancellers and        *)
(* process numbers, with lingering descendants and refused signals.        *)
(*                                                                         *)
(* The inductive invariant follows a run from its admission to its end.    *)
(* Admitted: setting up takes the admission, and the lane is idle.         *)
(* Registered: from the registration to finish a run owns the instance,    *)
(* so that no two runs are between their reservation and their finish.     *)
(* Leased: a termination in flight belongs to the instance.  Owned: what   *)
(* is not reaped is the process of such a run.  Ended and Asked: what a    *)
(* run may report, and what a canceller was told of the instance.          *)
(***************************************************************************)
EXTENDS WorkerLane, TLAPS

Setup == {"reserved", "spawned", "discard", "discarded"}
Held == {"registered", "deliver", "wait", "unwatch", "cleanup", "kill", "reap", "finish"}
Living == (Setup \cup Held) \ {"reserved", "finish"}

Unreaped(q) == tree[q] \cap {"worker", "zombie"} # {}

Admitted ==
  \A c \in Caller :
     /\ run[c].pc \in Setup => /\ admission = c /\ current = NoInstance /\ lease = NoLease
                               /\ run[c].id = 0
     /\ run[c].pc \in {"reserved", "spawned"} => lastId < MaxInstance

Registered ==
  /\ \A c \in Caller :
     /\ run[c].pc \in Held => /\ run[c].id # 0 /\ run[c].id = current.id
                              /\ run[c].pid = current.pid
     /\ run[c].id <= lastId
     /\ \A d \in Caller : run[c].id = run[d].id /\ run[c].id # 0 => c = d
  /\ current # NoInstance =>
       /\ current.id <= lastId
       /\ \E c \in Caller : run[c].pc \in Held /\ run[c].id = current.id

Leased ==
  lease # NoLease =>
     /\ [id |-> lease.id, pid |-> lease.pid, phase |-> lease.phase] = current
     /\ lease.by \in Canceller => lease.phase = "cancelling"

Owned ==
  /\ \A q \in Pid :
     /\ tree[q] = {} <=> owner[q] \in {Nobody, Stranger}
     /\ "worker" \in tree[q] => "zombie" \notin tree[q]
     /\ Unreaped(q) => /\ run[owner[q]].pid = q /\ run[owner[q]].pc \in Living
                       /\ ~run[owner[q]].exited
  /\ \A c \in Caller :
     /\ run[c].pc \in Living \cup {"finish"} =>
          run[c].pid \in Pid /\ owner[run[c].pid] \in {c, Nobody, Stranger}
     /\ run[c].pc \in Living /\ ~run[c].exited =>
          owner[run[c].pid] = c /\ Unreaped(run[c].pid)

SetUpErrors == {"spawn_failed", "watchdog_failed", "wait_failed", "delivery_failed"}

Ended ==
  \A c \in Caller :
     /\ run[c].exited => run[c].pc \in {"unwatch", "finish", "tree", "read", "returned"}
     /\ run[c].pc \in {"unwatch", "cleanup", "kill", "reap", "finish"} /\ ~run[c].exited =>
          run[c].outcome \in SetUpErrors

Asked ==
  \A k \in Canceller : answer[k].status = "cancelling" =>
     /\ answer[k].id # 0 /\ answer[k].id <= lastId
     /\ current.id = answer[k].id => current.phase = "cancelling" /\ lease = NoLease

DogStates == {"off", "watch", "expired", "claimed", "signalled", "backoff"}

IInv == TypeOK /\ Admitted /\ Registered /\ Leased /\ Owned /\ Ended /\ Asked

-----------------------------------------------------------------------------
(* Types of what the steps assign.                                          *)

\* A run's record after a step, one field or two at a time.
LEMMA RunSteps ==
  ASSUME NEW r \in Runs, NEW pc \in RunPCs
  PROVE  /\ [r EXCEPT !.pc = pc] \in Runs
         /\ [r EXCEPT !.pc = pc, !.exited = TRUE] \in Runs
         /\ \A o \in Outcomes :
               /\ [r EXCEPT !.pc = pc, !.outcome = o] \in Runs
               /\ [r EXCEPT !.pc = pc, !.output = "none", !.outcome = o] \in Runs
         /\ \A o \in Outputs \cup {"none"} : /\ [r EXCEPT !.pc = pc, !.output = o] \in Runs
                                             /\ [r EXCEPT !.output = o] \in Runs
         /\ \A q \in Pid : [r EXCEPT !.pc = pc, !.pid = q] \in Runs
         /\ \A i \in Ids : [r EXCEPT !.pc = pc, !.id = i] \in Runs
BY DEF Runs

LEMMA NewRuns ==
  /\ Idle \in Runs
  /\ \A w \in BOOLEAN : [Idle EXCEPT !.pc = "reserved", !.web = w] \in Runs
  /\ [Idle EXCEPT !.outcome = "already_running"] \in Runs
BY DEF Idle, Runs, RunPCs, Outcomes, Errors

LEMMA GoesTyped ==
  ASSUME TypeOK, NEW c \in Caller, NEW pc \in RunPCs, Goes(c, pc)
  PROVE  run' \in [Caller -> Runs]
BY RunSteps DEF TypeOK, Goes

LEMMA FailsTyped ==
  ASSUME TypeOK, NEW c \in Caller, NEW pc \in RunPCs, NEW e \in Outcomes, Fails(c, pc, e)
  PROVE  run' \in [Caller -> Runs]
BY RunSteps DEF TypeOK, Fails

LEMMA ReturnsTyped ==
  ASSUME TypeOK, NEW c \in Caller, NEW e \in Outcomes, Returns(c, e)
  PROVE  run' \in [Caller -> Runs] /\ admission' \in Caller \cup {Nobody}
<1>1. "returned" \in RunPCs
  BY DEF RunPCs
<1> QED
  BY <1>1, RunSteps DEF TypeOK, Returns

LEMMA TableTyped ==
  ASSUME TypeOK, NEW q, NEW left \in SUBSET {"worker", "zombie", "descendant"},
         Table(q, left)
  PROVE  /\ owner' \in [Pid -> Caller \cup {Nobody, Stranger}]
         /\ tree' \in [Pid -> SUBSET {"worker", "zombie", "descendant"}]
BY DEF TypeOK, Table

LEMMA KilledType == \A q : Killed(q) \in SUBSET {"worker", "zombie", "descendant"}
BY DEF Killed

\* The outcomes that are given by name, and those of Classified.
LEMMA OutcomeTypes ==
  /\ Errors \subseteq Outcomes /\ Terminating \ {"cancelling"} \subseteq Outcomes
  /\ {"none", "structured", "cancelled", "unstructured"} \subseteq Outcomes
BY DEF Errors, Outcomes, Terminating

LEMMA ClassifiedType ==
  ASSUME TypeOK, NEW c \in Caller, NEW phase PROVE Classified(c, phase) \in Outcomes
<1>1. run[c].outcome \in Outcomes
  BY DEF TypeOK, Runs
<1>2. phase \in Terminating \ {"cancelling"} => phase \in Outcomes
  BY OutcomeTypes
<1>3. {"structured", "cancelled", "unstructured", "protocol_violation"} \subseteq Outcomes
  BY DEF Outcomes, Errors
<1> QED
  BY <1>1, <1>2, <1>3 DEF Classified

-----------------------------------------------------------------------------
(* The steps of a run.                                                      *)

USE ConstantsAssumption DEF Setup, Held, Living, Unreaped, At, lane, system, NoInstance, NoLease

\* No two runs are between their reservation and their finish.
LEMMA OneBusy ==
  ASSUME IInv, NEW c \in Caller, NEW d \in Caller,
         run[c].pc \in Setup \cup Held, run[d].pc \in Setup \cup Held
  PROVE  c = d
BY DEF IInv, Admitted, Registered

\* A run goes on, and nothing else changes but its watchdog.
LEMMA MoveKeeps ==
  ASSUME IInv, NEW c \in Caller, NEW r \in Runs,
         run' = [run EXCEPT ![c] = r],
         r.id = run[c].id, r.pid = run[c].pid, r.exited = run[c].exited,
         \/ run[c].pc = "spawned" /\ r.pc = "discard"
         \/ run[c].pc \in Held \ {"finish"} /\ r.pc \in Held \ {"finish"}
         \/ run[c].exited /\ run[c].pc = "unwatch" /\ r.pc = "finish",
         r.exited => r.pc \in {"unwatch", "finish"},
         r.pc \in {"unwatch", "cleanup"} /\ ~r.exited => r.outcome \in SetUpErrors,
         r.pc \notin {"kill", "reap"},
         dog' \in [Caller -> DogStates],
         UNCHANGED <<lane, answer, system>>
  PROVE  IInv'
<1>1. TypeOK'
  BY DEF IInv, TypeOK, DogStates
<1>2. Admitted'
  BY DEF IInv, TypeOK, Admitted
<1>3. Registered'
  BY DEF IInv, TypeOK, Registered
<1>4. Leased' /\ Asked'
  BY DEF IInv, Leased, Asked
<1>5. Owned'
  BY DEF IInv, TypeOK, Owned
<1>6. Ended'
  BY DEF IInv, TypeOK, Ended
<1> QED
  BY <1>1, <1>2, <1>3, <1>4, <1>5, <1>6 DEF IInv

LEMMA MovesKeep ==
  ASSUME IInv, NEW c \in Caller,
         \/ AttachFails(c) \/ StartWatchdog(c) \/ StartWatchdogFails(c)
         \/ Deliver(c) \/ DeliverFails(c) \/ WaitFails(c) \/ StopWatchdog(c)
  PROVE  IInv'
<1> DEFINE To(pc) == [run[c] EXCEPT !.pc = pc]
           Failed(pc, e) == [run[c] EXCEPT !.pc = pc, !.outcome = e]
<1>1. /\ run[c] \in Runs /\ run \in [Caller -> Runs] /\ dog' \in [Caller -> DogStates]
      /\ run[c].exited => run[c].pc \in {"unwatch", "finish", "tree", "read", "returned"}
      /\ run[c].pc \in {"unwatch", "cleanup"} /\ ~run[c].exited => run[c].outcome \in SetUpErrors
      /\ UNCHANGED <<lane, answer, system>>
  BY DEF IInv, TypeOK, Ended, DogStates, AttachFails, StartWatchdog, StartWatchdogFails, Deliver,
         DeliverFails, WaitFails, StopWatchdog
<1>2. ASSUME NEW pc \in RunPCs, Goes(c, pc)
      PROVE  /\ To(pc) \in Runs /\ run' = [run EXCEPT ![c] = To(pc)]
             /\ To(pc).pc = pc /\ To(pc).id = run[c].id /\ To(pc).pid = run[c].pid
             /\ To(pc).exited = run[c].exited /\ To(pc).outcome = run[c].outcome
  <2>1. To(pc) \in Runs
    BY <1>1, RunSteps
  <2> QED
    BY <1>1, <1>2, <2>1 DEF Goes, Runs
<1>3. ASSUME NEW pc \in RunPCs, NEW e \in Errors, Fails(c, pc, e)
      PROVE  /\ Failed(pc, e) \in Runs /\ run' = [run EXCEPT ![c] = Failed(pc, e)]
             /\ Failed(pc, e).pc = pc /\ Failed(pc, e).id = run[c].id
             /\ Failed(pc, e).pid = run[c].pid
             /\ Failed(pc, e).exited = run[c].exited /\ Failed(pc, e).outcome = e
  <2>1. Failed(pc, e) \in Runs
    BY <1>1, RunSteps, OutcomeTypes
  <2> QED
    BY <1>1, <1>3, <2>1 DEF Fails, Runs
<1>4. {"discard", "cleanup", "unwatch", "deliver", "wait", "finish"} \subseteq RunPCs
      /\ SetUpErrors \subseteq Errors
  BY DEF RunPCs, SetUpErrors, Errors
<1> HIDE DEF To, Failed
<1> DEFINE Moved(r) ==
      /\ r.id = run[c].id /\ r.pid = run[c].pid /\ r.exited = run[c].exited
      /\ \/ run[c].pc = "spawned" /\ r.pc = "discard"
         \/ run[c].pc \in Held \ {"finish"} /\ r.pc \in Held \ {"finish"}
         \/ run[c].exited /\ run[c].pc = "unwatch" /\ r.pc = "finish"
      /\ r.exited => r.pc \in {"unwatch", "finish"}
      /\ r.pc \in {"unwatch", "cleanup"} /\ ~r.exited => r.outcome \in SetUpErrors
      /\ r.pc \notin {"kill", "reap"}
<1>5. ASSUME NEW r \in Runs, run' = [run EXCEPT ![c] = r], Moved(r) PROVE IInv'
  BY <1>1, <1>5, MoveKeeps DEF DogStates
<1>6. CASE AttachFails(c)
  <2>1. Fails(c, "discard", "spawn_failed") /\ run[c].pc = "spawned"
    BY <1>6 DEF AttachFails
  <2> QED
    BY <1>1, <1>3, <1>4, <1>5, <2>1 DEF SetUpErrors
<1>7. CASE StartWatchdog(c)
  <2>1. Goes(c, "deliver") /\ run[c].pc = "registered"
    BY <1>7 DEF StartWatchdog
  <2> QED
    BY <1>1, <1>2, <1>4, <1>5, <2>1
<1>8. CASE StartWatchdogFails(c)
  <2>1. /\ run[c].pc = "registered"
        /\ Fails(c, "cleanup", "spawn_failed") \/ Fails(c, "cleanup", "watchdog_failed")
    BY <1>8 DEF StartWatchdogFails
  <2> QED
    BY <1>1, <1>3, <1>4, <1>5, <2>1 DEF SetUpErrors
<1>9. CASE Deliver(c)
  <2>1. Goes(c, "wait") /\ run[c].pc = "deliver"
    BY <1>9 DEF Deliver
  <2> QED
    BY <1>1, <1>2, <1>4, <1>5, <2>1
<1>10. CASE DeliverFails(c)
  <2>1. Fails(c, "unwatch", "delivery_failed") /\ run[c].pc = "deliver"
    BY <1>10 DEF DeliverFails
  <2> QED
    BY <1>1, <1>3, <1>4, <1>5, <2>1 DEF SetUpErrors
<1>11. CASE WaitFails(c)
  <2>1. Fails(c, "unwatch", "wait_failed") /\ run[c].pc = "wait"
    BY <1>11 DEF WaitFails
  <2> QED
    BY <1>1, <1>3, <1>4, <1>5, <2>1 DEF SetUpErrors
<1>12. CASE StopWatchdog(c)
  <2>1. Goes(c, IF run[c].exited THEN "finish" ELSE "cleanup") /\ run[c].pc = "unwatch"
    BY <1>12 DEF StopWatchdog
  <2> QED
    BY <1>1, <1>2, <1>4, <1>5, <2>1
<1> QED
  BY <1>6, <1>7, <1>8, <1>9, <1>10, <1>11, <1>12

LEMMA ReserveKeeps == ASSUME IInv, NEW c \in Caller, Reserve(c) PROVE IInv'
<1>1. PICK w \in BOOLEAN : run' = [run EXCEPT ![c] = [Idle EXCEPT !.pc = "reserved", !.web = w]]
  BY DEF Reserve
<1>2. /\ run' \in [Caller -> Runs]
      /\ run'[c].pc = "reserved" /\ run'[c].id = 0 /\ ~run'[c].exited
      /\ \A d \in Caller : d # c => run'[d] = run[d]
  BY <1>1, NewRuns DEF IInv, TypeOK, Idle
<1>3. /\ current = NoInstance /\ lease = NoLease /\ lastId < MaxInstance
      /\ admission = Nobody /\ admission' = c /\ run[c].pc = "returned"
      /\ UNCHANGED <<lastId, current, lease, dog, answer, system>>
  <2>1. lease \in Leases => lease.id # 0
    BY DEF Leases, Ids
  <2>2. lease # NoLease => lease \in Leases /\ lease.id = current.id
    BY DEF IInv, TypeOK, Leased
  <2> QED
    BY <2>1, <2>2 DEF Reserve, Active
<1>4. TypeOK'
  BY <1>2, <1>3 DEF IInv, TypeOK
<1>5. Admitted'
  BY <1>2, <1>3 DEF IInv, Admitted
<1>6. Registered'
  BY <1>2, <1>3 DEF IInv, Registered, TypeOK, Ids
<1>7. Leased' /\ Asked'
  BY <1>3 DEF IInv, Leased, Asked
<1>8. Owned'
  BY <1>2, <1>3 DEF IInv, TypeOK, Owned
<1>9. Ended'
  BY <1>2, <1>3 DEF IInv, Ended
<1> QED
  BY <1>4, <1>5, <1>6, <1>7, <1>8, <1>9 DEF IInv

LEMMA ReserveRefusedKeeps == ASSUME IInv, NEW c \in Caller, ReserveRefused(c) PROVE IInv'
<1>1. /\ run' \in [Caller -> Runs]
      /\ run'[c].pc = "returned" /\ run'[c].id = 0 /\ ~run'[c].exited
      /\ \A d \in Caller : d # c => run'[d] = run[d]
  BY NewRuns DEF ReserveRefused, IInv, TypeOK, Idle
<1>2. run[c].pc = "returned" /\ UNCHANGED <<lane, dog, answer, system>>
  BY DEF ReserveRefused
<1>3. TypeOK'
  BY <1>1, <1>2 DEF IInv, TypeOK
<1>4. Admitted'
  BY <1>1, <1>2 DEF IInv, Admitted
<1>5. Registered'
  BY <1>1, <1>2 DEF IInv, Registered, TypeOK, Ids
<1>6. Leased' /\ Asked'
  BY <1>2 DEF IInv, Leased, Asked
<1>7. Owned'
  BY <1>1, <1>2 DEF IInv, TypeOK, Owned
<1>8. Ended'
  BY <1>1, <1>2 DEF IInv, Ended
<1> QED
  BY <1>3, <1>4, <1>5, <1>6, <1>7, <1>8 DEF IInv

LEMMA SpawnFailsKeeps == ASSUME IInv, NEW c \in Caller, SpawnFails(c) PROVE IInv'
<1> USE DEF SpawnFails, Returns
<1>1. TypeOK'
  BY ReturnsTyped, OutcomeTypes DEF IInv, TypeOK, Errors
<1>2. Admitted'
  BY DEF IInv, TypeOK, Admitted
<1>3. Registered'
  BY DEF IInv, TypeOK, Admitted, Registered
<1>4. Leased'
  BY DEF IInv, Registered, Leased
<1>5. Owned'
  BY DEF IInv, TypeOK, Admitted, Registered, Owned, Ended
<1>6. Ended'
  BY DEF IInv, TypeOK, Ended
<1>7. Asked'
  BY DEF IInv, TypeOK, Admitted, Registered, Leased, Asked
<1> QED
  BY <1>1, <1>2, <1>3, <1>4, <1>5, <1>6, <1>7 DEF IInv

LEMMA SpawnKeeps == ASSUME IInv, NEW c \in Caller, Spawn(c) PROVE IInv'
<1> USE DEF Spawn
<1>1. TypeOK'
  <2>1. PICK q \in Pid :
          /\ owner' = [owner EXCEPT ![q] = c]
          /\ tree' = [tree EXCEPT ![q] = {"worker"}]
          /\ run' = [run EXCEPT ![c] = [@ EXCEPT !.pc = "spawned", !.pid = q]]
    OBVIOUS
  <2>2. run' \in [Caller -> Runs]
    BY <2>1, RunSteps DEF IInv, TypeOK, RunPCs
  <2> QED
    BY <2>1, <2>2 DEF IInv, TypeOK
<1>2. Admitted'
  BY DEF IInv, TypeOK, Admitted
<1>3. Registered'
  BY DEF IInv, TypeOK, Admitted, Registered
<1>4. Leased'
  BY DEF IInv, Registered, Leased
<1>5. Owned'
  BY DEF IInv, TypeOK, Admitted, Registered, Owned, Ended
<1>6. Ended'
  BY DEF IInv, TypeOK, Ended
<1>7. Asked'
  BY DEF IInv, TypeOK, Admitted, Registered, Leased, Asked
<1> QED
  BY <1>1, <1>2, <1>3, <1>4, <1>5, <1>6, <1>7 DEF IInv

LEMMA RegisterKeeps == ASSUME IInv, NEW c \in Caller, Register(c) PROVE IInv'
<1>1. /\ run[c].pc = "spawned" /\ current = NoInstance /\ lease = NoLease
      /\ lastId < MaxInstance /\ admission = c /\ run[c].id = 0
  BY DEF Register, IInv, Admitted
<1>2. /\ lastId' = lastId + 1
      /\ current' = [id |-> lastId + 1, pid |-> run[c].pid, phase |-> "running"]
      /\ run' = [run EXCEPT ![c] = [@ EXCEPT !.pc = "registered", !.id = lastId + 1]]
      /\ admission' = IF run[c].web THEN admission ELSE Nobody
      /\ UNCHANGED <<lease, dog, answer, system>>
  BY <1>1 DEF Register
<1>3. lastId + 1 \in Ids /\ lastId \in Nat
  BY <1>1 DEF IInv, TypeOK, Ids
<1>4. run' \in [Caller -> Runs] /\ run[c] \in Runs /\ run[c].pid \in Pid
  BY <1>1, <1>2, <1>3, RunSteps DEF IInv, TypeOK, RunPCs, Owned
<1>5. /\ run'[c].pc = "registered" /\ run'[c].id = lastId + 1
      /\ run'[c].pid = run[c].pid /\ run'[c].exited = run[c].exited
      /\ \A d \in Caller : d # c => run'[d] = run[d]
  BY <1>2, <1>4 DEF Runs, IInv, TypeOK
<1>6. \A d \in Caller : run[d].pc \in Setup \cup Held => d = c
  BY <1>1, OneBusy
<1>7. TypeOK'
  BY <1>2, <1>3, <1>4 DEF IInv, TypeOK, Instances, Phases
<1>8. Admitted'
  BY <1>5, <1>6 DEF Admitted
<1>9. Registered'
  <2>1. \A d \in Caller : run[d].id <= lastId
    BY DEF IInv, Registered
  <2> QED
    BY <1>2, <1>3, <1>5, <1>6, <2>1 DEF IInv, Registered, TypeOK, Runs, Ids
<1>10. Leased'
  BY <1>1, <1>2 DEF Leased
<1>11. Owned'
  BY <1>1, <1>2, <1>5 DEF IInv, TypeOK, Owned
<1>12. Ended'
  BY <1>1, <1>5 DEF IInv, Ended
<1>13. Asked'
  BY <1>1, <1>2, <1>3 DEF IInv, Asked, TypeOK, Ids
<1> QED
  BY <1>7, <1>8, <1>9, <1>10, <1>11, <1>12, <1>13 DEF IInv

\* The group of a worker that is not reaped is killed, or the signal is refused.
LEMMA KillOwnKeeps ==
  ASSUME IInv, NEW c \in Caller, NEW from, NEW to, KillOwn(c, from, to),
         \/ from = "discard" /\ to = "discarded"
         \/ from = "kill" /\ to = "reap"
  PROVE  IInv'
<1>1. PICK q \in Pid : q = run[c].pid
  BY DEF KillOwn, IInv, Owned
<1>2. /\ run[c] \in Runs /\ ~run[c].exited /\ owner[q] = c /\ Unreaped(q)
      /\ Killed(q) = {"zombie"} /\ to \in RunPCs
      /\ run[c].pc \in Living /\ to \in Living
  <2>1. run[c].pc \in {"discard", "kill"}
    BY DEF KillOwn
  <2>2. run[c] \in Runs /\ ~run[c].exited
    BY <2>1 DEF IInv, TypeOK, Ended
  <2>3. owner[q] = c /\ Unreaped(q)
    BY <1>1, <2>1, <2>2 DEF IInv, Owned
  <2> QED
    BY <2>1, <2>2, <2>3 DEF Killed, RunPCs
<1>3. /\ \/ Table(q, {"zombie"})
         \/ UNCHANGED system
      /\ \E o \in Outputs \cup {run[c].output} :
            run' = [run EXCEPT ![c] = [run[c] EXCEPT !.pc = to, !.output = o]]
      /\ UNCHANGED <<lane, dog, answer>>
  <2>1. run[c].output \in Outputs \cup {run[c].output}
    OBVIOUS
  <2>2. Goes(c, to) => run' = [run EXCEPT ![c] = [run[c] EXCEPT !.pc = to,
                                                               !.output = run[c].output]]
    BY <1>2 DEF Goes, Runs
  <2> QED
    BY <1>1, <1>2, <2>1, <2>2 DEF KillOwn
<1>4. /\ run' \in [Caller -> Runs]
      /\ run'[c].pc = to /\ run'[c].id = run[c].id /\ run'[c].pid = q
      /\ run'[c].exited = run[c].exited /\ run'[c].outcome = run[c].outcome
      /\ \A d \in Caller : d # c => run'[d] = run[d]
  <2>1. PICK o \in Outputs \cup {run[c].output} :
          run' = [run EXCEPT ![c] = [run[c] EXCEPT !.pc = to, !.output = o]]
    BY <1>3
  <2>2. o \in Outputs \cup {"none"}
    BY <1>2 DEF Runs
  <2>3. [run[c] EXCEPT !.pc = to, !.output = o] \in Runs
    BY <1>2, <2>2, RunSteps
  <2> QED
    BY <1>1, <1>2, <2>1, <2>3 DEF IInv, TypeOK, Runs
<1>5. \/ owner' = owner /\ tree' = [tree EXCEPT ![q] = {"zombie"}]
      \/ UNCHANGED system
  <2>1. owner \in [Pid -> Caller \cup {Nobody, Stranger}] /\ {"zombie"} # {}
    BY DEF IInv, TypeOK
  <2>2. CASE Table(q, {"zombie"})
    BY <2>1, <2>2 DEF Table
  <2> QED
    BY <1>3, <2>2
<1>6. TypeOK'
  <2>1. /\ owner' \in [Pid -> Caller \cup {Nobody, Stranger}]
        /\ tree' \in [Pid -> SUBSET {"worker", "zombie", "descendant"}]
    BY <1>5 DEF IInv, TypeOK
  <2> QED
    BY <1>3, <1>4, <2>1 DEF IInv, TypeOK
<1>7. run[c].pc = from
  BY DEF KillOwn
<1>8. Admitted'
  BY <1>3, <1>4, <1>7 DEF IInv, Admitted
<1>9. Registered'
  BY <1>3, <1>4, <1>7 DEF IInv, Registered
<1>10. Leased' /\ Asked'
  BY <1>3 DEF IInv, Leased, Asked
<1>11. Owned'
  <2>1. Owned /\ \A p \in Pid : Unreaped(p) => owner[p] \in Caller
    BY DEF IInv, TypeOK, Owned
  <2>2. CASE UNCHANGED system
    BY <1>2, <1>4, <2>1, <2>2 DEF Owned
  <2>3. CASE owner' = owner /\ tree' = [tree EXCEPT ![q] = {"zombie"}]
    <3>1. /\ tree'[q] = {"zombie"} /\ {"zombie", "worker"} \cap tree[q] # {}
          /\ \A p \in Pid : p # q => tree'[p] = tree[p]
      <4>1. tree \in [Pid -> SUBSET {"worker", "zombie", "descendant"}]
        BY DEF IInv, TypeOK
      <4> QED
        BY <1>2, <2>3, <4>1
    <3>2. \A p \in Pid : Unreaped(p)' <=> Unreaped(p)
      BY <1>2, <3>1
    <3>3. \A p \in Pid : /\ tree'[p] = {} <=> tree[p] = {}
                         /\ "worker" \in tree'[p] => "zombie" \notin tree'[p]
      BY <3>1, <2>1 DEF Owned
    <3> HIDE DEF Unreaped
    <3> QED
      BY <1>2, <1>4, <2>1, <2>3, <3>2, <3>3 DEF Owned
  <2> QED
    BY <1>5, <2>2, <2>3
<1>12. Ended'
  BY <1>2, <1>3, <1>4, <1>7 DEF IInv, Ended
<1> QED
  BY <1>6, <1>8, <1>9, <1>10, <1>11, <1>12 DEF IInv

LEMMA KillKeeps ==
  ASSUME IInv, NEW c \in Caller, Discard(c) \/ CleanupKill(c)
  PROVE  IInv'
BY KillOwnKeeps DEF Discard, CleanupKill

LEMMA DiscardReapKeeps == ASSUME IInv, NEW c \in Caller, DiscardReap(c) PROVE IInv'
<1> USE DEF DiscardReap, Dead, Table, Returns
<1>1. TypeOK'
  BY ReturnsTyped, TableTyped DEF IInv, TypeOK, Runs
<1>2. Admitted'
  BY DEF IInv, TypeOK, Admitted
<1>3. Registered'
  BY DEF IInv, TypeOK, Admitted, Registered
<1>4. Leased'
  BY DEF IInv, Registered, Leased
<1>5. Owned'
  BY DEF IInv, TypeOK, Admitted, Registered, Owned, Ended
<1>6. Ended'
  BY DEF IInv, TypeOK, Ended
<1>7. Asked'
  BY DEF IInv, TypeOK, Admitted, Registered, Leased, Asked
<1> QED
  BY <1>1, <1>2, <1>3, <1>4, <1>5, <1>6, <1>7 DEF IInv

LEMMA WaitKeeps == ASSUME IInv, NEW c \in Caller, Wait(c) PROVE IInv'
<1> USE DEF Wait, Dead, Table
<1>1. TypeOK'
  BY RunSteps, TableTyped DEF IInv, TypeOK, RunPCs
<1>2. Admitted'
  BY DEF IInv, TypeOK, Admitted
<1>3. Registered'
  BY DEF IInv, TypeOK, Admitted, Registered
<1>4. Leased'
  BY DEF IInv, Registered, Leased
<1>5. Owned'
  BY DEF IInv, TypeOK, Admitted, Registered, Owned, Ended
<1>6. Ended'
  BY DEF IInv, TypeOK, Ended
<1>7. Asked'
  BY DEF IInv, TypeOK, Admitted, Registered, Leased, Asked
<1> QED
  BY <1>1, <1>2, <1>3, <1>4, <1>5, <1>6, <1>7 DEF IInv

LEMMA CleanupReapKeeps == ASSUME IInv, NEW c \in Caller, CleanupReap(c) PROVE IInv'
<1> USE DEF CleanupReap, Dead, Table, Goes
<1>1. TypeOK'
  BY GoesTyped, TableTyped DEF IInv, TypeOK, RunPCs
<1>2. Admitted'
  BY DEF IInv, TypeOK, Admitted
<1>3. Registered'
  BY DEF IInv, TypeOK, Admitted, Registered
<1>4. Leased'
  BY DEF IInv, Registered, Leased
<1>5. Owned'
  BY DEF IInv, TypeOK, Admitted, Registered, Owned, Ended
<1>6. Ended'
  BY DEF IInv, TypeOK, Ended
<1>7. Asked'
  BY DEF IInv, TypeOK, Admitted, Registered, Leased, Asked
<1> QED
  BY <1>1, <1>2, <1>3, <1>4, <1>5, <1>6, <1>7 DEF IInv

LEMMA ReapKeeps == ASSUME IInv, NEW c \in Caller, Reap(c) PROVE IInv'
<1> USE DEF Reap, Dead, Table, Goes
<1>1. TypeOK'
  BY GoesTyped, TableTyped DEF IInv, TypeOK, RunPCs
<1>2. Admitted'
  BY DEF IInv, TypeOK, Admitted
<1>3. Registered'
  BY DEF IInv, TypeOK, Admitted, Registered
<1>4. Leased'
  BY DEF IInv, Registered, Leased
<1>5. Owned'
  BY DEF IInv, TypeOK, Admitted, Registered, Owned, Ended
<1>6. Ended'
  BY DEF IInv, TypeOK, Ended
<1>7. Asked'
  BY DEF IInv, TypeOK, Admitted, Registered, Leased, Asked
<1> QED
  BY <1>1, <1>2, <1>3, <1>4, <1>5, <1>6, <1>7 DEF IInv

LEMMA CleanupClaimKeeps == ASSUME IInv, NEW c \in Caller, CleanupClaim(c) PROVE IInv'
<1> USE DEF CleanupClaim, Phase, Own, Goes
<1>1. TypeOK'
  BY GoesTyped DEF IInv, TypeOK, RunPCs, Instances, Phases
<1>2. Admitted'
  BY DEF IInv, TypeOK, Admitted
<1>3. Registered'
  BY DEF IInv, TypeOK, Admitted, Registered
<1>4. Leased'
  BY DEF IInv, TypeOK, Leased, Leases, Terminating
<1>5. Owned'
  BY DEF IInv, TypeOK, Admitted, Registered, Owned, Ended
<1>6. Ended'
  BY DEF IInv, TypeOK, Ended
<1>7. Asked'
  BY DEF IInv, TypeOK, Admitted, Registered, Leased, Asked
<1> QED
  BY <1>1, <1>2, <1>3, <1>4, <1>5, <1>6, <1>7 DEF IInv

LEMMA FinishKeeps == ASSUME IInv, NEW c \in Caller, Finish(c) PROVE IInv'
<1> USE DEF Finish, Own, Phase
<1>1. TypeOK'
  <2>1. run[c] \in Runs /\ Classified(c, Phase(c)) \in Outcomes
    BY ClassifiedType DEF IInv, TypeOK
  <2>2. (IF run[c].web THEN "tree" ELSE "read") \in RunPCs
    BY DEF RunPCs
  <2>3. run' \in [Caller -> Runs]
    BY <2>1, <2>2, RunSteps DEF IInv, TypeOK
  <2> QED
    BY <2>3 DEF IInv, TypeOK
<1>2. Admitted'
  BY DEF IInv, TypeOK, Admitted
<1>3. Registered'
  BY DEF IInv, TypeOK, Admitted, Registered
<1>4. Leased'
  BY DEF IInv, Registered, Leased
<1>5. Owned'
  BY DEF IInv, TypeOK, Admitted, Registered, Owned, Ended
<1>6. Ended'
  BY DEF IInv, TypeOK, Ended
<1>7. Asked'
  BY DEF IInv, TypeOK, Registered, Asked
<1> QED
  BY <1>1, <1>2, <1>3, <1>4, <1>5, <1>6, <1>7 DEF IInv

LEMMA FinishTreeKeeps == ASSUME IInv, NEW c \in Caller, FinishTree(c) PROVE IInv'
<1> DEFINE q == run[c].pid
<1>1. /\ run[c].pc = "tree" /\ run[c] \in Runs
      /\ UNCHANGED <<lastId, current, lease, dog, answer>>
      /\ \/ owner[q] = c /\ Table(q, {})
         \/ UNCHANGED system
      /\ \/ Goes(c, "read") /\ UNCHANGED admission
         \/ \E o \in {run[c].outcome, "wait_failed"} : Returns(c, o)
  BY DEF FinishTree, IInv, TypeOK
<1>2. "read" \in RunPCs /\ {run[c].outcome, "wait_failed"} \subseteq Outcomes
  BY <1>1 DEF RunPCs, Runs, Outcomes, Errors
<1>3. run' \in [Caller -> Runs] /\ admission' \in Caller \cup {Nobody}
  BY <1>1, <1>2, GoesTyped, ReturnsTyped DEF IInv, TypeOK
<1>4. /\ run'[c].pc \in {"read", "returned"}
      /\ run'[c].id = run[c].id /\ run'[c].pid = q /\ run'[c].exited = run[c].exited
      /\ \A d \in Caller : d # c => run'[d] = run[d]
      /\ admission' \in {admission, Nobody} /\ (admission' # admission => admission = c)
  <2>1. run \in [Caller -> Runs]
    BY DEF IInv, TypeOK
  <2>2. CASE Goes(c, "read") /\ UNCHANGED admission
    BY <1>1, <2>1, <2>2 DEF Goes, Runs
  <2>3. ASSUME NEW o, Returns(c, o)
        PROVE  /\ run'[c].pc = "returned"
               /\ run'[c].id = run[c].id /\ run'[c].pid = q /\ run'[c].exited = run[c].exited
               /\ \A d \in Caller : d # c => run'[d] = run[d]
               /\ admission' \in {admission, Nobody} /\ (admission' # admission => admission = c)
    BY <1>1, <2>1, <2>3 DEF Returns, Runs
  <2> QED
    BY <1>1, <2>2, <2>3
<1>5. /\ owner' \in [Pid -> Caller \cup {Nobody, Stranger}]
      /\ tree' \in [Pid -> SUBSET {"worker", "zombie", "descendant"}]
  BY <1>1, TableTyped DEF IInv, TypeOK
<1>6. TypeOK'
  BY <1>1, <1>3, <1>5 DEF IInv, TypeOK
<1>7. Admitted'
  BY <1>1, <1>4 DEF IInv, Admitted
<1>8. Registered'
  BY <1>1, <1>4 DEF IInv, Registered
<1>9. Leased' /\ Asked'
  BY <1>1 DEF IInv, Leased, Asked
<1>10. Owned'
  <2>1. q \in Pid => ~Unreaped(q) \/ owner[q] # c
    BY <1>1 DEF IInv, Owned
  <2>2. \/ q \in Pid /\ owner[q] = c /\ owner' = [owner EXCEPT ![q] = Nobody]
           /\ tree' = [tree EXCEPT ![q] = {}]
        \/ UNCHANGED <<owner, tree>>
    BY <1>1 DEF Table, IInv, TypeOK
  <2> QED
    BY <1>1, <1>4, <2>1, <2>2 DEF IInv, TypeOK, Owned
<1>11. Ended'
  BY <1>1, <1>4 DEF IInv, Ended
<1> QED
  BY <1>6, <1>7, <1>8, <1>9, <1>10, <1>11 DEF IInv

LEMMA ReadKeeps == ASSUME IInv, NEW c \in Caller, Read(c) PROVE IInv'
<1>1. PICK e \in Outcomes : Returns(c, e)
  <2>1. run[c].outcome \in Outcomes /\ "reader_failed" \in Outcomes
    BY DEF IInv, TypeOK, Runs, Outcomes, Errors
  <2> QED
    BY <2>1 DEF Read
<1>2. At(c, "read") /\ UNCHANGED <<lastId, current, lease, dog, answer, system>>
  BY DEF Read
<1> HIDE DEF Read
<1> USE DEF Returns, At
<1>3. TypeOK'
  BY <1>1, <1>2, ReturnsTyped DEF IInv, TypeOK, system
<1>4. Admitted'
  BY <1>1, <1>2 DEF IInv, TypeOK, Admitted, system
<1>5. Registered'
  BY <1>1, <1>2 DEF IInv, TypeOK, Admitted, Registered, system
<1>6. Leased'
  BY <1>1, <1>2 DEF IInv, Registered, Leased, system
<1>7. Owned'
  BY <1>1, <1>2 DEF IInv, TypeOK, Admitted, Registered, Owned, Ended, system
<1>8. Ended'
  BY <1>1, <1>2 DEF IInv, TypeOK, Ended, system
<1>9. Asked'
  BY <1>1, <1>2 DEF IInv, TypeOK, Admitted, Registered, Leased, Asked, system
<1> QED
  BY <1>3, <1>4, <1>5, <1>6, <1>7, <1>8, <1>9 DEF IInv

-----------------------------------------------------------------------------
(* Terminations, and the process table.                                     *)

\* A claim of the running instance, by a deadline or a cancel command.
LEMMA ClaimKeeps ==
  ASSUME IInv, NEW by \in Caller \cup Canceller, NEW phase \in Terminating,
         current # NoInstance, current.phase = "running", Claims(by, phase),
         by \in Canceller => phase = "cancelling",
         dog' \in [Caller -> DogStates],
         \/ answer' = answer
         \/ by \in Canceller /\ Told(by, "claimed", current.id),
         UNCHANGED <<admission, lastId, run, system>>
  PROVE  IInv'
<1>1. current \in Instances
  BY DEF IInv, TypeOK
<1>2. lease = NoLease
  BY DEF IInv, Leased, TypeOK, Leases, Terminating
<1>3. /\ current' \in Instances /\ current'.id = current.id /\ current'.pid = current.pid
      /\ current'.phase = phase
      /\ lease' \in Leases
      /\ lease' = [id |-> current.id, pid |-> current.pid, phase |-> phase, by |-> by,
                   signal |-> "pending"]
      /\ current' = [id |-> current.id, pid |-> current.pid, phase |-> phase]
  BY <1>1 DEF Claims, Instances, Leases, Phases
<1>4. /\ answer' \in [Canceller -> [status : {"none", "claimed", "cancelling", "failed"},
                                   id : {0} \cup Ids]]
      /\ \A k \in Canceller : answer'[k].status = "cancelling" => answer'[k] = answer[k]
  BY <1>1 DEF IInv, TypeOK, Told, Instances
<1>5. TypeOK'
  BY <1>3, <1>4 DEF IInv, TypeOK, DogStates
<1>6. Admitted'
  BY DEF IInv, Admitted
<1>7. Registered'
  BY <1>1, <1>3 DEF IInv, Registered, Instances, Ids
<1>8. Leased'
  BY <1>3 DEF Leased
<1>9. Owned' /\ Ended'
  BY DEF IInv, Owned, Ended
<1>10. Asked'
  BY <1>3, <1>4 DEF IInv, Asked
<1> QED
  BY <1>5, <1>6, <1>7, <1>8, <1>9, <1>10 DEF IInv

\* Steps that change a watchdog's state, and what a canceller is told, alone.
LEMMA WatchKeeps ==
  ASSUME IInv, dog' \in [Caller -> DogStates],
         answer' \in [Canceller -> [status : {"none", "claimed", "cancelling", "failed"},
                                   id : {0} \cup Ids]],
         \A k \in Canceller : answer'[k].status = "cancelling" => answer'[k] = answer[k],
         UNCHANGED <<lane, run, system>>
  PROVE  IInv'
<1>1. TypeOK'
  BY DEF IInv, TypeOK, DogStates
<1> QED
  BY <1>1 DEF IInv, Admitted, Registered, Leased, Owned, Ended, Asked

LEMMA DogClaimKeeps == ASSUME IInv, NEW c \in Caller, DogClaim(c) PROVE IInv'
<1>1. dog' \in [Caller -> DogStates]
  BY DEF DogClaim, Barks, IInv, TypeOK, DogStates
<1>2. CASE Phase(c) = "running"
  <2>1. current # NoInstance /\ current.phase = "running"
    BY <1>2 DEF Phase, Own, IInv, TypeOK, Runs
  <2>2. PICK kind \in {"idle", "absolute"} : Claims(c, kind)
    BY <1>2 DEF DogClaim, Kinds
  <2>3. /\ kind \in Terminating /\ c \in Caller \cup Canceller
        /\ c \in Canceller => kind = "cancelling"
    BY DEF Terminating
  <2>4. answer' = answer /\ UNCHANGED <<admission, lastId, run, system>>
    BY DEF DogClaim
  <2> QED
    BY <1>1, <2>1, <2>2, <2>3, <2>4, ClaimKeeps
<1>3. CASE Phase(c) # "running"
  BY <1>1, <1>3, WatchKeeps DEF DogClaim, IInv, TypeOK
<1> QED
  BY <1>2, <1>3

LEMMA CancelClaimKeeps == ASSUME IInv, NEW k \in Canceller, CancelClaim(k) PROVE IInv'
BY ClaimKeeps DEF CancelClaim, Active, Terminating, IInv, TypeOK, DogStates

LEMMA QuietKeeps ==
  ASSUME IInv,
         \/ \E c \in Caller : Expire(c) \/ Retry(c)
         \/ \E k \in Canceller : CancelRefused(k)
         \/ UNCHANGED vars
  PROVE  IInv'
<1>1. CASE \E c \in Caller : Expire(c) \/ Retry(c)
  BY <1>1, WatchKeeps DEF Expire, Retry, Barks, IInv, TypeOK, DogStates
<1>2. CASE \E k \in Canceller : CancelRefused(k)
  <2>1. dog' \in [Caller -> DogStates]
    BY <1>2 DEF CancelRefused, IInv, TypeOK, DogStates
  <2>2. /\ answer' \in [Canceller -> [status : {"none", "claimed", "cancelling", "failed"},
                                     id : {0} \cup Ids]]
        /\ \A k \in Canceller : answer'[k].status = "cancelling" => answer'[k] = answer[k]
    BY <1>2 DEF CancelRefused, Told, IInv, TypeOK
  <2> QED
    BY <1>2, <2>1, <2>2, WatchKeeps DEF CancelRefused
<1>3. CASE UNCHANGED vars
  BY <1>3, WatchKeeps DEF vars, IInv, TypeOK, DogStates
<1> QED
  BY <1>1, <1>2, <1>3

LEMMA SignalFailsKeeps == ASSUME IInv, NEW by \in Caller \cup Canceller, SignalFails(by) PROVE IInv'
<1> USE DEF SignalFails
<1>1. TypeOK'
  BY DEF IInv, TypeOK, Leases
<1>2. Admitted'
  BY DEF IInv, TypeOK, Admitted
<1>3. Registered'
  BY DEF IInv, TypeOK, Admitted, Registered
<1>4. Leased'
  BY DEF IInv, Registered, Leased
<1>5. Owned'
  BY DEF IInv, TypeOK, Admitted, Registered, Owned, Ended
<1>6. Ended'
  BY DEF IInv, TypeOK, Ended
<1>7. Asked'
  BY DEF IInv, TypeOK, Admitted, Registered, Leased, Asked
<1> QED
  BY <1>1, <1>2, <1>3, <1>4, <1>5, <1>6, <1>7 DEF IInv

LEMMA CompleteKeeps ==
  ASSUME IInv, NEW by \in Caller \cup Canceller, Complete(by) PROVE IInv'
<1>1. /\ lease \in Leases /\ current \in Instances /\ lease.id = current.id
      /\ lease.phase = current.phase /\ lease.by = by
      /\ by \in Canceller => current.phase = "cancelling"
      /\ UNCHANGED <<admission, lastId, run, system>>
  BY DEF Complete, IInv, TypeOK, Leased, Instances
<1>2. /\ lease' = NoLease /\ current' \in Instances /\ current'.id = current.id
      /\ current'.pid = current.pid
      /\ lease.signal = "sent" => current' = current
  BY <1>1 DEF Complete, Instances, Phases
<1>3. dog' \in [Caller -> DogStates]
  BY DEF Complete, Barks, IInv, TypeOK, DogStates
<1>4. /\ answer' \in [Canceller -> [status : {"none", "claimed", "cancelling", "failed"},
                                   id : {0} \cup Ids]]
      /\ \A k \in Canceller : answer'[k].status = "cancelling" =>
           \/ answer'[k] = answer[k]
           \/ k = by /\ lease.signal = "sent" /\ answer'[k].id = current.id
  <2>1. lease.id \in Ids
    BY <1>1 DEF Leases
  <2> QED
    BY <1>1, <2>1 DEF Complete, Told, IInv, TypeOK
<1>5. TypeOK'
  BY <1>1, <1>2, <1>3, <1>4 DEF IInv, TypeOK, DogStates
<1>6. Admitted'
  BY <1>1 DEF IInv, Admitted, Leases, Ids
<1>7. Registered'
  BY <1>1, <1>2 DEF IInv, Registered, Instances, Ids
<1>8. Leased'
  BY <1>2 DEF Leased
<1>9. Owned' /\ Ended'
  BY <1>1 DEF IInv, Owned, Ended
<1>10. Asked'
  <2> SUFFICES ASSUME NEW k \in Canceller, answer'[k].status = "cancelling"
               PROVE  /\ answer'[k].id # 0 /\ answer'[k].id <= lastId
                      /\ current'.id = answer'[k].id => current'.phase = "cancelling"
    BY <1>1, <1>2 DEF Asked
  <2>1. CASE answer'[k] = answer[k]
    <3>1. current.id # answer[k].id
      BY <1>1, <2>1 DEF IInv, Asked, Leases, Ids
    <3> QED
      BY <1>2, <2>1, <3>1 DEF IInv, Asked
  <2>2. CASE k = by /\ lease.signal = "sent" /\ answer'[k].id = current.id
    BY <1>1, <1>2, <2>2 DEF IInv, Registered, Instances, Ids
  <2> QED
    BY <1>4, <2>1, <2>2
<1> QED
  BY <1>5, <1>6, <1>7, <1>8, <1>9, <1>10 DEF IInv

\* A group loses some of its processes: its worker may die, the rest may end.
LEMMA TreeKeeps ==
  ASSUME IInv, NEW q \in Pid, owner[q] \in Caller,
         NEW left \in SUBSET {"worker", "zombie", "descendant"}, Table(q, left),
         "worker" \in left => "zombie" \notin left,
         (left \cap {"worker", "zombie"} # {}) <=> Unreaped(q),
         \/ UNCHANGED run
         \/ \E o \in Outputs : run' = [run EXCEPT ![owner[q]] = [@ EXCEPT !.output = o]],
         lease' = lease \/ (lease # NoLease /\ lease' = [lease EXCEPT !.signal = "sent"]),
         UNCHANGED <<admission, lastId, current, dog, answer>>
  PROVE  IInv'
<1>1. /\ run' \in [Caller -> Runs]
      /\ \A c \in Caller :
            /\ run'[c].pc = run[c].pc /\ run'[c].id = run[c].id /\ run'[c].pid = run[c].pid
            /\ run'[c].exited = run[c].exited /\ run'[c].outcome = run[c].outcome
  <2> DEFINE Kept ==
        /\ run' \in [Caller -> Runs]
        /\ \A c \in Caller :
             /\ run'[c].pc = run[c].pc /\ run'[c].id = run[c].id /\ run'[c].pid = run[c].pid
             /\ run'[c].exited = run[c].exited /\ run'[c].outcome = run[c].outcome
  <2>1. run \in [Caller -> Runs] /\ run[owner[q]].pc \in RunPCs /\ run[owner[q]] \in Runs
    BY DEF IInv, TypeOK, Runs
  <2>2. \A o \in Outputs : [run[owner[q]] EXCEPT !.output = o] \in Runs
    BY <2>1, RunSteps
  <2>3. CASE UNCHANGED run
    BY <2>1, <2>3 DEF Kept
  <2>4. ASSUME NEW o \in Outputs,
               run' = [run EXCEPT ![owner[q]] = [run[owner[q]] EXCEPT !.output = o]]
        PROVE  Kept
    <3> DEFINE r == [run[owner[q]] EXCEPT !.output = o]
    <3>1. /\ r \in Runs /\ r.pc = run[owner[q]].pc /\ r.id = run[owner[q]].id
          /\ r.pid = run[owner[q]].pid /\ r.exited = run[owner[q]].exited
          /\ r.outcome = run[owner[q]].outcome
      BY <2>1, <2>2 DEF Runs
    <3> HIDE DEF r
    <3>2. run' = [run EXCEPT ![owner[q]] = r]
      BY <2>4 DEF r
    <3> QED
      BY <2>1, <3>1, <3>2
  <2> QED
    BY <2>3, <2>4
<1>2. /\ tree' = [tree EXCEPT ![q] = left]
      /\ owner' = [owner EXCEPT ![q] = IF left = {} THEN Nobody ELSE @]
  BY DEF Table
<1>3. TypeOK'
  <2>1. lease' \in Leases \cup {NoLease}
    BY DEF IInv, TypeOK, Leases
  <2> QED
    BY <1>1, <2>1, TableTyped DEF IInv, TypeOK
<1>4. Admitted'
  BY <1>1 DEF IInv, Admitted
<1>5. Registered'
  BY <1>1 DEF IInv, Registered
<1>6. Leased'
  BY DEF IInv, Leased, TypeOK, Leases
<1>7. Owned'
  BY <1>1, <1>2 DEF IInv, Owned, TypeOK
<1>8. Ended'
  BY <1>1 DEF IInv, Ended
<1>9. Asked'
  BY DEF IInv, Asked
<1> QED
  BY <1>3, <1>4, <1>5, <1>6, <1>7, <1>8, <1>9 DEF IInv

LEMMA SignalSentKeeps ==
  ASSUME IInv, NEW by \in Caller \cup Canceller, SignalSent(by) PROVE IInv'
<1> DEFINE q == lease.pid
<1>1. lease \in Leases /\ q \in Pid
  BY DEF SignalSent, IInv, TypeOK, Leases
<1>2. CASE owner[q] = Stranger
  <2>1. lease' \in Leases /\ lease' = [lease EXCEPT !.signal = "sent"]
        /\ UNCHANGED <<admission, lastId, current, run, dog, answer, system>>
    BY <1>1, <1>2 DEF SignalSent, Leases
  <2>2. TypeOK'
    BY <2>1 DEF IInv, TypeOK
  <2>3. Leased'
    BY <1>1, <2>1 DEF IInv, Leased, Leases, SignalSent
  <2>4. Admitted' /\ Asked'
    BY <2>1 DEF IInv, Admitted, Asked, SignalSent
  <2> QED
    BY <2>1, <2>2, <2>3, <2>4 DEF IInv, Registered, Owned, Ended
<1>3. CASE owner[q] # Stranger
  <2>1. /\ owner[q] \in Caller /\ Dies(q) /\ Table(q, Killed(q))
        /\ lease # NoLease /\ lease' = [lease EXCEPT !.signal = "sent"]
        /\ UNCHANGED <<admission, lastId, current, dog, answer>>
    BY <1>1, <1>3 DEF SignalSent, IInv, TypeOK
  <2>2. /\ Killed(q) \in SUBSET {"worker", "zombie", "descendant"}
        /\ "worker" \notin Killed(q)
        /\ (Killed(q) \cap {"worker", "zombie"} # {}) <=> Unreaped(q)
    BY DEF Killed
  <2> QED
    BY <1>1, <2>1, <2>2, TreeKeeps DEF Dies
<1> QED
  BY <1>2, <1>3

LEMMA ExitKeeps == ASSUME IInv, NEW q \in Pid, Exit(q) PROVE IInv'
<1>1. PICK kept \in {{}, {"descendant"}} : Table(q, {"zombie"} \cup kept)
  BY DEF Exit
<1>2. /\ "worker" \in tree[q] /\ Dies(q) /\ Alive(q)
      /\ UNCHANGED <<lane, dog, answer>>
  BY DEF Exit, Alive
<1>3. owner[q] \in Caller
  BY <1>2 DEF IInv, Owned, TypeOK
<1>4. {"zombie"} \cup kept \in SUBSET {"worker", "zombie", "descendant"}
      /\ "worker" \notin {"zombie"} \cup kept
      /\ ((({"zombie"} \cup kept) \cap {"worker", "zombie"} # {}) <=> Unreaped(q))
  BY <1>2
<1> QED
  BY <1>1, <1>2, <1>3, <1>4, TreeKeeps DEF Dies

LEMMA DescendantExitsKeeps == ASSUME IInv, NEW q \in Pid, DescendantExits(q) PROVE IInv'
<1> USE DEF DescendantExits, Table
<1>1. TypeOK'
  BY TableTyped DEF IInv, TypeOK
<1>2. Admitted'
  BY DEF IInv, TypeOK, Admitted
<1>3. Registered'
  BY DEF IInv, TypeOK, Admitted, Registered
<1>4. Leased'
  BY DEF IInv, Registered, Leased
<1>5. Owned'
  BY DEF IInv, TypeOK, Admitted, Registered, Owned, Ended
<1>6. Ended'
  BY DEF IInv, TypeOK, Ended
<1>7. Asked'
  BY DEF IInv, TypeOK, Admitted, Registered, Leased, Asked
<1> QED
  BY <1>1, <1>2, <1>3, <1>4, <1>5, <1>6, <1>7 DEF IInv

LEMMA PidTakenKeeps == ASSUME IInv, NEW q \in Pid, PidTaken(q) PROVE IInv'
<1> USE DEF PidTaken
<1>1. TypeOK'
  BY DEF IInv, TypeOK
<1>2. Admitted'
  BY DEF IInv, TypeOK, Admitted
<1>3. Registered'
  BY DEF IInv, TypeOK, Admitted, Registered
<1>4. Leased'
  BY DEF IInv, Registered, Leased
<1>5. Owned'
  BY DEF IInv, TypeOK, Admitted, Registered, Owned, Ended
<1>6. Ended'
  BY DEF IInv, TypeOK, Ended
<1>7. Asked'
  BY DEF IInv, TypeOK, Admitted, Registered, Leased, Asked
<1> QED
  BY <1>1, <1>2, <1>3, <1>4, <1>5, <1>6, <1>7 DEF IInv

LEMMA PidFreedKeeps == ASSUME IInv, NEW q \in Pid, PidFreed(q) PROVE IInv'
<1> USE DEF PidFreed
<1>1. TypeOK'
  BY DEF IInv, TypeOK
<1>2. Admitted'
  BY DEF IInv, TypeOK, Admitted
<1>3. Registered'
  BY DEF IInv, TypeOK, Admitted, Registered
<1>4. Leased'
  BY DEF IInv, Registered, Leased
<1>5. Owned'
  BY DEF IInv, TypeOK, Admitted, Registered, Owned, Ended
<1>6. Ended'
  BY DEF IInv, TypeOK, Ended
<1>7. Asked'
  BY DEF IInv, TypeOK, Admitted, Registered, Leased, Asked
<1> QED
  BY <1>1, <1>2, <1>3, <1>4, <1>5, <1>6, <1>7 DEF IInv

-----------------------------------------------------------------------------
(* The invariant.                                                           *)

LEMMA InitIInv == Init => IInv
<1> SUFFICES ASSUME Init PROVE IInv
  OBVIOUS
<1>1. TypeOK
  BY NewRuns DEF Init, TypeOK, Ids
<1>2. \A c \in Caller : run[c].pc = "returned" /\ run[c].id = 0 /\ ~run[c].exited
  BY DEF Init, Idle
<1> QED
  BY <1>1, <1>2 DEF Init, IInv, Admitted, Registered, Leased, Owned, Ended, Asked, Ids

LEMMA StepIInv == IInv /\ [Next]_vars => IInv'
<1> SUFFICES ASSUME IInv, [Next]_vars PROVE IInv'
  OBVIOUS
<1>1. ASSUME NEW c \in Caller, Starts(c) PROVE IInv'
  BY <1>1, ReserveKeeps, ReserveRefusedKeeps DEF Starts
<1>2. ASSUME NEW c \in Caller, Delivery(c) PROVE IInv'
  BY <1>2, MovesKeep DEF Delivery
<1>3. ASSUME NEW c \in Caller, Proceeds(c) PROVE IInv'
  BY <1>3, SpawnFailsKeeps, SpawnKeeps, RegisterKeeps, KillKeeps, DiscardReapKeeps, MovesKeep,
     WaitKeeps, CleanupReapKeeps, CleanupClaimKeeps, ReapKeeps, FinishKeeps, FinishTreeKeeps,
     ReadKeeps DEF Proceeds
<1>4. ASSUME NEW c \in Caller, Watches(c) PROVE IInv'
  BY <1>4, QuietKeeps, DogClaimKeeps DEF Watches
<1>5. ASSUME NEW k \in Canceller, Cancels(k) PROVE IInv'
  BY <1>5, QuietKeeps, CancelClaimKeeps DEF Cancels
<1>6. ASSUME NEW by \in Caller \cup Canceller, Terminates(by) PROVE IInv'
  BY <1>6, SignalSentKeeps, SignalFailsKeeps, CompleteKeeps DEF Terminates
<1>7. ASSUME NEW q \in Pid, Processes(q) PROVE IInv'
  BY <1>7, ExitKeeps, DescendantExitsKeeps, PidTakenKeeps, PidFreedKeeps DEF Processes
<1>8. CASE UNCHANGED vars
  BY <1>8, QuietKeeps
<1> QED
  BY <1>1, <1>2, <1>3, <1>4, <1>5, <1>6, <1>7, <1>8 DEF Next

LEMMA Invariant == Spec => []IInv
<1> QED
  BY InitIInv, StepIInv, PTL DEF Spec

\* Every variable keeps its type, however runs, watchdogs and cancels overlap.
THEOREM TypeCorrect == Spec => []TypeOK
<1>1. IInv => TypeOK
  BY DEF IInv
<1> QED
  BY <1>1, Invariant, PTL

\* The lane never has two workers that are alive or not reaped
\* (WorkerLane::run, ProcessSupervisor::start and the early returns).
THEOREM OneWorkerAtATime == Spec => []OneWorker
<1>1. IInv => OneWorker
  <2> SUFFICES ASSUME IInv, NEW q \in Pid, NEW r \in Pid, Unreaped(q), Unreaped(r)
               PROVE  q = r
    BY DEF OneWorker
  <2>1. owner[q] \in Caller /\ run[owner[q]].pc \in Living /\ run[owner[q]].pid = q
    BY DEF IInv, TypeOK, Owned
  <2>2. owner[r] \in Caller /\ run[owner[r]].pc \in Living /\ run[owner[r]].pid = r
    BY DEF IInv, TypeOK, Owned
  <2>3. owner[q] = owner[r]
    BY <2>1, <2>2, OneBusy
  <2> QED
    BY <2>1, <2>2, <2>3
<1> QED
  BY <1>1, Invariant, PTL

\* A termination that is about to be signalled, outside of the lock, never aims at
\* another run's worker, and the lease belongs to the registered instance in the
\* phase it claimed (request_cancel, request_timeout, complete_termination).
THEOREM OwnSignals == Spec => []SignalsOwnWorker
<1>1. IInv => SignalsOwnWorker
  <2> SUFFICES ASSUME IInv, lease # NoLease
               PROVE  /\ \A c \in Caller : owner[lease.pid] = c => run[c].id = lease.id
                      /\ [id |-> lease.id, pid |-> lease.pid, phase |-> lease.phase] = current
    BY DEF SignalsOwnWorker
  <2>1. /\ [id |-> lease.id, pid |-> lease.pid, phase |-> lease.phase] = current
        /\ lease.id = current.id /\ lease.pid = current.pid /\ lease.id # 0
    BY DEF IInv, Leased, TypeOK, Leases, Ids
  <2>2. PICK d \in Caller : run[d].pc \in Held /\ run[d].id = current.id
    BY <2>1 DEF IInv, Registered
  <2>3. run[d].pid = current.pid /\ owner[run[d].pid] \in {d, Nobody, Stranger}
    BY <2>2 DEF IInv, Registered, Owned
  <2> QED
    BY <2>1, <2>2, <2>3
<1> QED
  BY <1>1, Invariant, PTL

\* A run that has returned, by whichever early return, has left neither a worker
\* nor a zombie (terminate_and_reap, cleanup_registered_child).
THEOREM NoneLeft == Spec => []NoWorkerLeft
<1>1. IInv => NoWorkerLeft
  <2> SUFFICES ASSUME IInv, NEW c \in Caller, NEW q \in Pid, run[c].pc = "returned", owner[q] = c
               PROVE  tree[q] \subseteq {"descendant"}
    BY DEF NoWorkerLeft
  <2>1. ~Unreaped(q)
    BY DEF IInv, Owned
  <2> QED
    BY <2>1 DEF IInv, TypeOK
<1> QED
  BY <1>1, Invariant, PTL

-----------------------------------------------------------------------------
(* What a run that is over may have reported.                               *)

Rests == {"tree", "read", "returned"}

\* What a step of others does to a run, and to the processes it owns.
Untouched(c) ==
  /\ run'[c].pc = run[c].pc /\ run'[c].id = run[c].id /\ run'[c].pid = run[c].pid
  /\ run'[c].web = run[c].web /\ run'[c].exited = run[c].exited
  /\ run'[c].outcome = run[c].outcome
  /\ \A q \in Pid : owner'[q] = c => owner[q] = c

LEMMA OthersLeave ==
  ASSUME TypeOK, NEW c \in Caller, NEW d \in Caller, d # c,
         Starts(d) \/ Delivery(d) \/ Proceeds(d)
  PROVE  Untouched(c)
<1>1. run' = [run EXCEPT ![d] = run'[d]] => run'[c] = run[c]
  BY DEF TypeOK
<1>2. ASSUME NEW q, NEW left, Table(q, left)
      PROVE  \A p \in Pid : owner'[p] = c => owner[p] = c
  BY <1>2 DEF TypeOK, Table
<1>3. CASE Starts(d) \/ Delivery(d)
  BY <1>3 DEF Starts, Delivery, Reserve, ReserveRefused, Deliver, DeliverFails, Goes, Fails, TypeOK,
     Untouched
<1>4. CASE SpawnFails(d) \/ AttachFails(d) \/ Register(d)
  BY <1>4 DEF SpawnFails, AttachFails, Register, Fails, Returns, TypeOK, Untouched
<1>5. CASE Spawn(d)
  BY <1>5 DEF Spawn, TypeOK, Untouched
<1>6. CASE Discard(d) \/ CleanupKill(d)
  BY <1>2, <1>6 DEF Discard, CleanupKill, KillOwn, Goes, TypeOK, Untouched
<1>7. CASE DiscardReap(d) \/ Wait(d) \/ CleanupReap(d) \/ Reap(d)
  BY <1>2, <1>7 DEF DiscardReap, Wait, CleanupReap, Reap, Returns, Goes, TypeOK, Untouched
<1>8. CASE StartWatchdog(d) \/ StartWatchdogFails(d) \/ WaitFails(d) \/ StopWatchdog(d)
  BY <1>8 DEF StartWatchdog, StartWatchdogFails, WaitFails, StopWatchdog, Fails, Goes, TypeOK,
     Untouched
<1>9. CASE CleanupClaim(d) \/ Finish(d) \/ Read(d)
  BY <1>9 DEF CleanupClaim, Finish, Read, Goes, Returns, TypeOK, Untouched
<1>10. CASE FinishTree(d)
  BY <1>2, <1>10 DEF FinishTree, Goes, Returns, TypeOK, Untouched
<1> QED
  BY <1>3, <1>4, <1>5, <1>6, <1>7, <1>8, <1>9, <1>10 DEF Proceeds

LEMMA SystemLeaves ==
  ASSUME TypeOK, NEW c \in Caller,
         \/ \E d \in Caller : Watches(d)
         \/ \E k \in Canceller : Cancels(k)
         \/ \E by \in Caller \cup Canceller : Terminates(by)
         \/ \E q \in Pid : Processes(q)
         \/ UNCHANGED vars
  PROVE  Untouched(c)
<1>1. ASSUME NEW q, NEW left, Table(q, left)
      PROVE  \A p \in Pid : owner'[p] = c => owner[p] = c
  BY <1>1 DEF TypeOK, Table
<1> DEFINE Kept ==
      /\ run'[c].pc = run[c].pc /\ run'[c].id = run[c].id /\ run'[c].pid = run[c].pid
      /\ run'[c].web = run[c].web /\ run'[c].exited = run[c].exited
      /\ run'[c].outcome = run[c].outcome
<1>2. ASSUME NEW q, Dies(q) PROVE Kept
  <2>1. run[c] \in Runs /\ run \in [Caller -> Runs]
    BY DEF TypeOK
  <2>2. CASE UNCHANGED run
    BY <2>2
  <2>3. ASSUME NEW o, run' = [run EXCEPT ![owner[q]] = [run[owner[q]] EXCEPT !.output = o]]
        PROVE  Kept
    BY <2>1, <2>3 DEF Runs
  <2> QED
    BY <1>2, <2>2, <2>3 DEF Dies
<1>3. CASE UNCHANGED <<run, owner>>
  BY <1>3 DEF Untouched
<1>4. CASE \E d \in Caller : Watches(d)
  BY <1>3, <1>4 DEF Watches, Expire, DogClaim, Retry
<1>5. CASE \E k \in Canceller : Cancels(k)
  BY <1>3, <1>5 DEF Cancels, CancelClaim, CancelRefused
<1>6. CASE \E by \in Caller \cup Canceller : Terminates(by)
  BY <1>1, <1>2, <1>3, <1>6 DEF Terminates, SignalSent, SignalFails, Complete, Untouched
<1>7. CASE \E q \in Pid : Processes(q)
  BY <1>1, <1>2, <1>7 DEF Processes, Exit, DescendantExits, PidTaken, PidFreed, TypeOK, Untouched
<1>8. CASE UNCHANGED vars
  BY <1>3, <1>8 DEF vars
<1> QED
  BY <1>4, <1>5, <1>6, <1>7, <1>8

\* A run goes on, with its worker.
Moved(c, pc) ==
  /\ run'[c].pc = pc /\ run'[c].id = run[c].id /\ run'[c].pid = run[c].pid
  /\ run'[c].web = run[c].web /\ run'[c].exited = run[c].exited

LEMMA MoveFields ==
  ASSUME TypeOK, NEW c \in Caller
  PROVE  /\ \A pc : Goes(c, pc) => Moved(c, pc) /\ run'[c].outcome = run[c].outcome
         /\ \A pc, e : Fails(c, pc, e) => Moved(c, pc) /\ run'[c].outcome = e
         /\ \A e : Returns(c, e) => Moved(c, "returned") /\ run'[c].outcome = e
<1>1. run \in [Caller -> Runs] /\ run[c] \in Runs
  BY DEF TypeOK
<1>2. ASSUME NEW pc, Goes(c, pc) PROVE Moved(c, pc) /\ run'[c].outcome = run[c].outcome
  BY <1>1, <1>2 DEF Goes, Moved, Runs
<1>3. ASSUME NEW pc, NEW e, Fails(c, pc, e) PROVE Moved(c, pc) /\ run'[c].outcome = e
  BY <1>1, <1>3 DEF Fails, Moved, Runs
<1>4. ASSUME NEW e, Returns(c, e) PROVE Moved(c, "returned") /\ run'[c].outcome = e
  BY <1>1, <1>4 DEF Returns, Moved, Runs
<1> QED
  BY <1>2, <1>3, <1>4

\* How a run comes to be over, or stays so.
LEMMA Resting ==
  ASSUME IInv, [Next]_vars, NEW c \in Caller, run'[c].pc \in Rests
  PROVE  \/ run'[c].id = 0 /\ ~run'[c].exited
         \/ Finish(c) \/ FinishTree(c) \/ Read(c)
         \/ run[c].pc \in Rests /\ Untouched(c)
<1>1. TypeOK
  BY DEF IInv
<1>2. ASSUME NEW d \in Caller, d # c, Starts(d) \/ Delivery(d) \/ Proceeds(d)
      PROVE  run[c].pc \in Rests /\ Untouched(c)
  <2>1. Untouched(c)
    BY <1>1, <1>2, OthersLeave
  <2> QED
    BY <2>1 DEF Untouched
<1>3. ASSUME Starts(c)
      PROVE  run'[c].id = 0 /\ ~run'[c].exited
  <2>1. run \in [Caller -> Runs]
    BY <1>1 DEF TypeOK
  <2>2. CASE Reserve(c)
    BY <2>1, <2>2 DEF Reserve, Idle
  <2>3. CASE ReserveRefused(c)
    BY <2>1, <2>3 DEF ReserveRefused, Idle
  <2> QED
    BY <1>3, <2>2, <2>3 DEF Starts
<1>4. ASSUME Delivery(c)
      PROVE  FALSE
  <2>1. Goes(c, "wait") \/ Fails(c, "unwatch", "delivery_failed")
    BY <1>4 DEF Delivery, Deliver, DeliverFails
  <2> QED
    BY <1>1, <2>1, MoveFields DEF Moved, Rests
<1>5. ASSUME SpawnFails(c) \/ DiscardReap(c)
      PROVE  run'[c].id = 0 /\ ~run'[c].exited
  <2>1. run[c].id = 0 /\ ~run[c].exited /\ run[c] \in Runs
    BY <1>1, <1>5 DEF SpawnFails, DiscardReap, IInv, Admitted, Ended, TypeOK
  <2>2. \E e : Returns(c, e)
    BY <1>5 DEF SpawnFails, DiscardReap
  <2> QED
    BY <1>1, <2>1, <2>2, MoveFields DEF Moved
<1>6. ASSUME \/ Spawn(c) \/ AttachFails(c) \/ Register(c) \/ Discard(c)
             \/ StartWatchdog(c) \/ StartWatchdogFails(c) \/ Wait(c) \/ WaitFails(c)
             \/ StopWatchdog(c) \/ CleanupReap(c) \/ CleanupClaim(c) \/ CleanupKill(c) \/ Reap(c)
      PROVE  FALSE
  <2>1. run \in [Caller -> Runs] /\ run[c] \in Runs
    BY <1>1 DEF TypeOK
  <2>2. CASE \/ Spawn(c) \/ Wait(c)
             \/ Register(c) /\ current = NoInstance /\ lease = NoLease
    <3>1. run'[c].pc \in {"spawned", "registered", "unwatch"}
      <4>1. CASE Spawn(c)
        BY <2>1, <4>1 DEF Spawn, Runs
      <4>2. CASE Register(c) /\ current = NoInstance /\ lease = NoLease
        <5>1. run' = [run EXCEPT ![c] = [run[c] EXCEPT !.pc = "registered", !.id = lastId + 1]]
          BY <4>2 DEF Register
        <5>2. [run[c] EXCEPT !.pc = "registered", !.id = lastId + 1].pc = "registered"
          BY <2>1 DEF Runs
        <5> QED
          BY <2>1, <5>1, <5>2
      <4>3. CASE Wait(c)
        BY <2>1, <4>3 DEF Wait, Runs
      <4> QED
        BY <2>2, <4>1, <4>2, <4>3
    <3> QED
      BY <3>1 DEF Rests
  <2>3. CASE Discard(c) \/ CleanupKill(c)
    <3>1. ASSUME NEW to \in {"discarded", "reap"}, NEW from, KillOwn(c, from, to)
          PROVE  run'[c].pc = to
      <4>1. CASE Goes(c, to)
        BY <1>1, <4>1, MoveFields DEF Moved
      <4>2. ASSUME NEW o, run' = [run EXCEPT ![c] = [run[c] EXCEPT !.pc = to, !.output = o]]
            PROVE  run'[c].pc = to
        BY <2>1, <4>2 DEF Runs
      <4> QED
        BY <3>1, <4>1, <4>2 DEF KillOwn
    <3>2. run'[c].pc \in {"discarded", "reap"}
      BY <2>3, <3>1 DEF Discard, CleanupKill
    <3> QED
      BY <3>2 DEF Rests
  <2>4. ASSUME NEW pc, NEW e, Goes(c, pc) \/ Fails(c, pc, e),
               pc \in {"discard", "deliver", "cleanup", "unwatch", "finish", "kill"}
        PROVE  FALSE
    BY <1>1, <2>4, MoveFields DEF Moved, Rests
  <2>5. CASE \/ AttachFails(c) \/ StartWatchdog(c) \/ StartWatchdogFails(c) \/ WaitFails(c)
             \/ StopWatchdog(c) \/ CleanupReap(c) \/ CleanupClaim(c) \/ Reap(c)
    BY <2>4, <2>5 DEF AttachFails, StartWatchdog, StartWatchdogFails, WaitFails, StopWatchdog,
       CleanupReap, CleanupClaim, Reap
  <2>6. CASE Register(c) /\ ~(current = NoInstance /\ lease = NoLease)
    BY <2>4, <2>6 DEF Register
  <2> QED
    BY <1>6, <2>2, <2>3, <2>5, <2>6
<1>7. ASSUME Proceeds(c)
      PROVE  \/ run'[c].id = 0 /\ ~run'[c].exited
             \/ Finish(c) \/ FinishTree(c) \/ Read(c)
  BY <1>5, <1>6, <1>7 DEF Proceeds
<1>8. ASSUME \/ \E d \in Caller : Watches(d)
             \/ \E k \in Canceller : Cancels(k)
             \/ \E by \in Caller \cup Canceller : Terminates(by)
             \/ \E q \in Pid : Processes(q)
             \/ UNCHANGED vars
      PROVE  run[c].pc \in Rests /\ Untouched(c)
  <2>1. Untouched(c)
    BY <1>1, <1>8, SystemLeaves
  <2> QED
    BY <2>1 DEF Untouched
<1> QED
  BY <1>2, <1>3, <1>4, <1>7, <1>8 DEF Next

\* How a canceller comes to be told that its run is being cancelled.
LEMMA Answered ==
  ASSUME IInv, [Next]_vars, NEW k \in Canceller, answer'[k].status = "cancelling"
  PROVE  \/ answer'[k] = answer[k]
         \/ answer'[k].id = current.id /\ current # NoInstance /\ UNCHANGED run
<1>1. answer \in [Canceller -> [status : {"none", "claimed", "cancelling", "failed"},
                                id : {0} \cup Ids]]
  BY DEF IInv, TypeOK
<1>2. CASE UNCHANGED answer
  BY <1>2
<1>3. ASSUME NEW c \in Caller, Starts(c) \/ Delivery(c) \/ Proceeds(c) \/ Watches(c)
      PROVE  UNCHANGED answer
  BY <1>3 DEF Starts, Delivery, Proceeds, Watches, Reserve, ReserveRefused, Deliver, DeliverFails,
     SpawnFails, Spawn, AttachFails, Register, Discard, KillOwn, DiscardReap, StartWatchdog,
     StartWatchdogFails, Wait, WaitFails, StopWatchdog, CleanupReap, CleanupClaim, CleanupKill,
     Reap, Finish, FinishTree, Read, Expire, DogClaim, Retry
<1>4. ASSUME NEW j \in Canceller, Cancels(j)
      PROVE  answer'[k] = answer[k]
  BY <1>1, <1>4 DEF Cancels, CancelClaim, CancelRefused, Told
<1>5. ASSUME NEW by \in Caller \cup Canceller, SignalSent(by) \/ SignalFails(by)
      PROVE  UNCHANGED answer
  BY <1>5 DEF SignalSent, SignalFails
<1>6. ASSUME NEW by \in Caller \cup Canceller, Complete(by)
      PROVE  \/ answer'[k] = answer[k]
             \/ answer'[k].id = current.id /\ current # NoInstance /\ UNCHANGED run
  <2>1. lease # NoLease /\ lease \in Leases /\ lease.id = current.id /\ lease.id # 0
    BY <1>6 DEF Complete, IInv, Leased, TypeOK, Leases, Ids
  <2>2. UNCHANGED answer \/ \E status : Told(by, status, lease.id)
    BY <1>6 DEF Complete
  <2>3. UNCHANGED run
    BY <1>6 DEF Complete
  <2> QED
    BY <1>1, <2>1, <2>2, <2>3 DEF Told
<1>7. ASSUME NEW q \in Pid, Processes(q)
      PROVE  UNCHANGED answer
  BY <1>7 DEF Processes, Exit, DescendantExits, PidTaken, PidFreed
<1>8. CASE UNCHANGED vars
  BY <1>2, <1>8 DEF vars
<1> QED
  BY <1>2, <1>3, <1>4, <1>5, <1>6, <1>7, <1>8 DEF Next, Terminates

\* Who has been told that a run is being cancelled is not told later that the same run
\* timed out, crashed or sent no valid result, unless its output could not be read
\* (request_cancel, finish, classify_terminal).
THEOREM TruthfulCancellation == Spec => []CancellationIsTruthful
<1> DEFINE Allowed == {"structured", "cancelled", "spawn_failed", "watchdog_failed", "wait_failed",
                      "reader_failed"}
<1>1. Init => CancellationIsTruthful
  BY DEF Init, CancellationIsTruthful
<1>2. IInv /\ IInv' /\ CancellationIsTruthful /\ [Next]_vars => CancellationIsTruthful'
  <2> SUFFICES ASSUME IInv, IInv', CancellationIsTruthful, [Next]_vars,
                      NEW k \in Canceller, NEW c \in Caller,
                      answer'[k].status = "cancelling", run'[c].id = answer'[k].id,
                      run'[c].pc \in Rests
               PROVE  run'[c].outcome \in Allowed
    BY DEF CancellationIsTruthful, Rests
  <2>1. answer'[k].id # 0 /\ run \in [Caller -> Runs] /\ run[c] \in Runs
    BY DEF IInv, TypeOK, Asked
  <2>2. CASE answer'[k].id = current.id /\ current # NoInstance /\ UNCHANGED run
    <3>1. PICK d \in Caller : run[d].pc \in Held /\ run[d].id = current.id
      BY <2>2 DEF IInv, Registered
    <3>2. c = d
      BY <2>1, <2>2, <3>1 DEF IInv, Registered
    <3> QED
      BY <2>2, <3>1, <3>2 DEF Rests
  <2>3. CASE answer'[k] = answer[k]
    <3>1. run[c].pc \in Rests /\ run[c].id = answer'[k].id => run[c].outcome \in Allowed
      BY <2>3 DEF CancellationIsTruthful, Rests
    <3>2. CASE Finish(c)
      <4>1. run[c].pc = "finish" /\ run[c].id = current.id /\ run'[c].id = run[c].id
        BY <2>1, <3>2 DEF Finish, Own, IInv, Registered, Runs
      <4>2. current.phase = "cancelling" /\ Phase(c) = "cancelling"
        BY <2>1, <2>3, <4>1 DEF IInv, Asked, Phase, Own
      <4>3. run'[c].outcome = Classified(c, "cancelling")
        BY <2>1, <3>2, <4>2 DEF Finish
      <4>4. ~run[c].exited => run[c].outcome \in SetUpErrors
        BY <4>1 DEF IInv, Ended
      <4> QED
        BY <4>3, <4>4 DEF Classified, SetUpErrors, Terminating
    <3>3. CASE FinishTree(c)
      <4>1. run[c].pc = "tree" /\ run'[c].id = run[c].id
            /\ run'[c].outcome \in {run[c].outcome, "wait_failed"}
        <5>1. /\ run[c].pc = "tree"
              /\ \/ Goes(c, "read")
                 \/ \E e \in {run[c].outcome, "wait_failed"} : Returns(c, e)
          BY <3>3 DEF FinishTree
        <5> QED
          BY <5>1, MoveFields DEF Moved, IInv
      <4> QED
        BY <3>1, <4>1 DEF Rests
    <3>4. CASE Read(c)
      <4>1. /\ run[c].pc = "read" /\ run'[c].id = run[c].id
            /\ run'[c].outcome \in {run[c].outcome, "reader_failed"}
        <5>1. /\ run[c].pc = "read"
              /\ \E e \in {run[c].outcome, "reader_failed"} : Returns(c, e)
          BY <3>4 DEF Read
        <5> QED
          BY <5>1, MoveFields DEF Moved, IInv
      <4> QED
        BY <3>1, <4>1 DEF Rests
    <3>5. CASE run[c].pc \in Rests /\ Untouched(c)
      BY <3>1, <3>5 DEF Untouched
    <3> QED
      BY <2>1, <3>2, <3>3, <3>4, <3>5, Resting
  <2> QED
    BY <2>2, <2>3, Answered
<1> QED
  BY <1>1, <1>2, InitIInv, StepIInv, Invariant, PTL DEF Spec

\* A web page's run that has reaped its worker and returns without reporting a failed
\* clean-up has left no process of the worker's group (finish_web_tree).
THEOREM TreeEnds == Spec => []WebRunLeavesNoTree
<1> DEFINE Known == \A c \in Caller :
                      /\ run[c].exited => run[c].pid \in Pid
                      /\ run[c].exited /\ run[c].pc \in {"tree", "read"} =>
                            run[c].outcome # "wait_failed"
<1>1. Init => WebRunLeavesNoTree /\ Known
  BY DEF Init, Idle, WebRunLeavesNoTree
<1>2. IInv /\ IInv' /\ Known /\ [Next]_vars => Known'
  <2> SUFFICES ASSUME IInv, IInv', Known, [Next]_vars, NEW c \in Caller, run'[c].exited
               PROVE  /\ run'[c].pid \in Pid
                      /\ run'[c].pc \in {"tree", "read"} => run'[c].outcome # "wait_failed"
    OBVIOUS
  <2>1. run'[c].pc \in {"unwatch", "finish"} \cup Rests
    BY DEF IInv, Ended, Rests
  <2>2. CASE run'[c].pc \in {"unwatch", "finish"}
    BY <2>2 DEF IInv, Owned
  <2>3. CASE run'[c].pc \in Rests
    <3>1. run \in [Caller -> Runs] /\ run[c] \in Runs
      BY DEF IInv, TypeOK
    <3>2. CASE Finish(c) \/ FinishTree(c) \/ Read(c)
      <4>1. CASE Finish(c)
        <5>1. run'[c].pid = run[c].pid /\ run'[c].exited = run[c].exited
          BY <3>1, <4>1 DEF Finish, Runs
        <5>2. run'[c].outcome = Classified(c, Phase(c))
          BY <3>1, <4>1 DEF Finish
        <5>3. run'[c].outcome # "wait_failed"
          BY <5>1, <5>2 DEF Classified, Terminating
        <5> QED
          BY <5>1, <5>3
      <4>2. CASE FinishTree(c) \/ Read(c)
        <5>1. Goes(c, "read") \/ \E e : Returns(c, e)
          BY <4>2 DEF FinishTree, Read
        <5>2. /\ run[c].pc \in {"tree", "read"}
              /\ run'[c].pid = run[c].pid /\ run'[c].exited = run[c].exited
              /\ run'[c].pc = "returned" \/ run'[c].outcome = run[c].outcome
          BY <4>2, <5>1, MoveFields DEF Moved, IInv, FinishTree, Read, At
        <5> QED
          BY <5>2
      <4> QED
        BY <3>2, <4>1, <4>2
    <3>3. CASE run[c].pc \in Rests /\ Untouched(c)
      BY <3>3 DEF Untouched
    <3> QED
      BY <2>3, <3>2, <3>3, Resting
  <2> QED
    BY <2>1, <2>2, <2>3
<1>3. IInv /\ Known /\ WebRunLeavesNoTree /\ [Next]_vars => WebRunLeavesNoTree'
  <2> SUFFICES ASSUME IInv, Known, WebRunLeavesNoTree, [Next]_vars, NEW c \in Caller,
                      run'[c].pc \in {"read", "returned"}, run'[c].web, run'[c].exited,
                      run'[c].outcome # "wait_failed"
               PROVE  owner'[run'[c].pid] # c
    BY DEF WebRunLeavesNoTree
  <2>1. run \in [Caller -> Runs] /\ run[c] \in Runs
    BY DEF IInv, TypeOK
  <2>2. CASE Finish(c)
    <3>1. run'[c].web = run[c].web /\ run'[c].pc = (IF run[c].web THEN "tree" ELSE "read")
      BY <2>1, <2>2 DEF Finish, Runs
    <3> QED
      BY <3>1
  <2>3. CASE FinishTree(c)
    <3>1. run'[c].exited = run[c].exited /\ run'[c].pid = run[c].pid
      <4>1. Goes(c, "read") \/ \E e : Returns(c, e)
        BY <2>3 DEF FinishTree
      <4> QED
        BY <4>1, MoveFields DEF Moved, IInv
    <3>2. run[c].pid \in Pid /\ Reads(c)
      BY <3>1 DEF Reads
    <3>3. IF owner[run[c].pid] = c THEN Table(run[c].pid, {}) ELSE UNCHANGED system
      <4>1. ~Returns(c, "wait_failed")
        BY MoveFields DEF IInv
      <4> QED
        BY <2>3, <3>2, <4>1 DEF FinishTree
    <3> QED
      BY <3>1, <3>2, <3>3 DEF Table, IInv, TypeOK
  <2>4. CASE Read(c)
    <3>1. /\ run[c].pc = "read" /\ run'[c].web = run[c].web /\ run'[c].pid = run[c].pid
          /\ run'[c].exited = run[c].exited /\ UNCHANGED system
      <4>1. run[c].pc = "read" /\ UNCHANGED system /\ \E e : Returns(c, e)
        BY <2>4 DEF Read
      <4> QED
        BY <4>1, MoveFields DEF Moved, IInv
    <3> QED
      BY <3>1 DEF WebRunLeavesNoTree
  <2>5. CASE run[c].pc \in Rests /\ Untouched(c)
    <3>1. owner[run[c].pid] # c /\ run[c].pid \in Pid /\ run'[c].pid = run[c].pid
      BY <2>5 DEF WebRunLeavesNoTree, Untouched
    <3> QED
      BY <2>5, <3>1 DEF Untouched
  <2>6. run'[c].pc \in Rests
    BY DEF Rests
  <2> QED
    BY <2>2, <2>3, <2>4, <2>5, <2>6, Resting
<1> QED
  BY <1>1, <1>2, <1>3, InitIInv, StepIInv, Invariant, PTL DEF Spec
=============================================================================

----------------------- MODULE TaskTransactionProofs -----------------------
(***************************************************************************)
(* Proofs about TaskTransaction, for every number of processes,            *)
(* destinations, contents and transaction identifiers.                     *)
(*                                                                         *)
(* The theorems assume the lease discipline: no worker runs without the    *)
(* lease of its task.  The run of MCTaskTransactionNewTask.cfg shows that   *)
(* it is needed.                                                           *)
(***************************************************************************)
EXTENDS TaskTransaction, TLAPS

LeaseDiscipline == NewTaskWorkers = {} /\ OrphansSurvive = FALSE

-----------------------------------------------------------------------------
(* Type correctness.  It needs no lease discipline, only that a process    *)
(* inside a transaction knows its identifier and prepares what it was      *)
(* asked for.                                                              *)
Holding ==
    \A p \in Proc :
        /\ pc[p] \in {"prepare", "install", "finish"} => tx[p] \in Tx
        /\ pc[p] = "prepare" => todo[p] \subseteq Mentioned(plan[p])

TypeInv == TypeOK /\ Holding

LEMMA NoPlanIsPlan == NoPlan \in Plans
  BY ConstantsAssumption DEF NoPlan, Plans, Stored

LEMMA TypeInit == Init => TypeInv
  BY NoPlanIsPlan DEF Init, TypeInv, TypeOK, Holding, PCs, NothingStored, NothingRead,
     Stored

\* Sweeping keeps the types of the materials.
LEMMA SweptType ==
    ASSUME TypeOK, NEW ts, Swept(ts)
    PROVE  /\ staging' \in [Tx -> [Dest -> Stored]]
           /\ rollback' \in [Tx -> [Dest -> Stored]]
  BY DEF TypeOK, Swept, NothingStored, Stored

\* So does forgetting, for what is in memory.
LEMMA ForgottenType ==
    ASSUME TypeOK, NEW ps, Forgotten(ps)
    PROVE  /\ ret' \in [Proc -> {"open", "validate", "aborted"}]
           /\ actor' \in [Proc -> {"desktop", "worker"}]
           /\ plan' \in [Proc -> Plans]
           /\ tx' \in [Proc -> Tx \cup {NoTx}]
           /\ existed' \in [Proc -> SUBSET Dest]
           /\ todo' \in [Proc -> SUBSET Dest]
           /\ loaded' \in [Proc -> [Dest -> Stored]]
           /\ seen' \in [Proc -> [Dest -> Stored \cup {Unread}]]
           /\ outcome' \in [Proc -> {"none", "pending", "ok", "failed"}]
  <1>1. NoPlan \in Plans
    BY NoPlanIsPlan
  <1>2. /\ NothingStored \in [Dest -> Stored]
        /\ NothingRead \in [Dest -> Stored \cup {Unread}]
    BY DEF NothingStored, NothingRead, Stored
  <1> QED
    BY <1>1, <1>2 DEF TypeOK, Forgotten

LEMMA SessionType ==
    ASSUME TypeInv, NEW p \in Proc, Session(p)
    PROVE  TypeInv'
  <1> USE DEF TypeInv, TypeOK, Holding, disk, PCs
  <1>1. CASE Acquire(p) \/ AcquireReadOnly(p) \/ StartNewTask(p)
    BY <1>1 DEF Acquire, AcquireReadOnly, StartNewTask
  <1>2. CASE StartWorker(p)
    BY <1>2, NoPlanIsPlan DEF StartWorker, NothingRead
  <1>3. CASE WorkerEnds(p)
    <2>1. TypeOK'
      BY <1>3, ForgottenType DEF WorkerEnds
    <2>2. Holding'
      BY <1>3 DEF WorkerEnds, Forgotten
    <2> QED
      BY <2>1, <2>2
  <1>4. CASE Release(p)
    BY <1>4, ForgottenType DEF Release, Forgotten
  <1>5. CASE Reload(p) \/ LoadManifest(p)
    BY <1>5 DEF Reload, LoadManifest
  <1>6. ASSUME NEW d \in Dest, Read(p, d)
        PROVE  TypeInv'
    BY <1>6 DEF Read
  <1> QED
    BY <1>1, <1>2, <1>3, <1>4, <1>5, <1>6 DEF Session

LEMMA RecoveryType ==
    ASSUME TypeInv, NEW p \in Proc, Recovery(p)
    PROVE  TypeInv'
  <1> USE DEF TypeInv, TypeOK, Holding, disk, PCs
  <1>1. CASE RecoverNone(p)
    BY <1>1, SweptType DEF RecoverNone
  <1>2. CASE RecoverPrepared(p)
    BY <1>2 DEF RecoverPrepared, Journals, Stored
  <1>3. CASE RecoverCommitted(p)
    BY <1>3 DEF RecoverCommitted, Journals
  <1>4. ASSUME NEW d \in Dest, RestoreEntry(p, d)
        PROVE  TypeInv'
    BY <1>4 DEF RestoreEntry
  <1>5. CASE RemoveJournal(p)
    BY <1>5, SweptType DEF RemoveJournal, NothingStored, Stored
  <1>6. CASE RecoverFail(p)
    BY <1>6 DEF RecoverFail, NothingStored, Stored
  <1> QED
    BY <1>1, <1>2, <1>3, <1>4, <1>5, <1>6 DEF Recovery

LEMMA CommitType ==
    ASSUME TypeInv, NEW p \in Proc, Commit(p)
    PROVE  TypeInv'
  <1> USE DEF TypeInv, TypeOK, Holding, disk, PCs
  <1>1. CASE BeginCommit(p)
    BY <1>1 DEF BeginCommit
  <1>2. CASE BuildEntries(p)
    BY <1>2 DEF BuildEntries, Mentioned
  <1>3. CASE RejectCommit(p) \/ CommitFailed(p)
    BY <1>3 DEF RejectCommit, CommitFailed
  <1>4. ASSUME NEW d \in Dest, PrepareEntry(p, d)
        PROVE  TypeInv'
    BY <1>4 DEF PrepareEntry, Mentioned, Plans
  <1>5. ASSUME NEW d \in Dest, InstallEntry(p, d)
        PROVE  TypeInv'
    BY <1>5 DEF InstallEntry, CanApply, Stored
  <1>6. CASE PrepareFail(p)
    BY <1>6, SweptType DEF PrepareFail
  <1>7. CASE WritePrepared(p)
    BY <1>7 DEF WritePrepared, OwnJournal, Journals, Mentioned
  <1>8. CASE WriteCommitted(p)
    BY <1>8 DEF WriteCommitted, OwnJournal, Journals, Mentioned, NothingRead
  <1>9. CASE InstallFail(p)
    BY <1>9 DEF InstallFail
  <1>10. CASE Finish(p)
    BY <1>10, SweptType DEF Finish
  <1> QED
    BY <1>1, <1>2, <1>3, <1>4, <1>5, <1>6, <1>7, <1>8, <1>9, <1>10 DEF Commit

\* Every variable keeps its type, whatever the parameters are.
THEOREM TypeCorrect == Spec => []TypeOK
  <1>1. Init => TypeInv
    BY TypeInit
  <1>2. TypeInv /\ [Next]_vars => TypeInv'
    <2> SUFFICES ASSUME TypeInv, [Next]_vars
                 PROVE  TypeInv'
      OBVIOUS
    <2>1. CASE Crash
      BY <2>1, ForgottenType
         DEF Crash, Forgotten, TypeInv, TypeOK, Holding, disk, PCs
    <2>2. ASSUME NEW p \in Proc, Session(p) \/ Recovery(p) \/ Commit(p)
          PROVE  TypeInv'
      BY <2>2, SessionType, RecoveryType, CommitType
    <2>3. CASE UNCHANGED vars
      BY <2>3 DEF vars, TypeInv, TypeOK, Holding
    <2> QED
      BY <2>1, <2>2, <2>3 DEF Next
  <1>3. TypeInv => TypeOK
    BY DEF TypeInv
  <1> QED
    BY <1>1, <1>2, <1>3, PTL DEF Spec

-----------------------------------------------------------------------------
(* The inductive invariant.                                                *)

\* Whoever is anywhere but idle holds the lease: one process at a time.
Exclusive == \A p \in Proc : pc[p] # "idle" => lease = p

\* An idle process has no worker and no memory of the task.
Clean(p) == actor[p] = "desktop" /\ seen[p] = NothingRead /\ outcome[p] = "none"

IdleClean == \A p \in Proc : pc[p] = "idle" => Clean(p)

\* A journal's existed_before entries are among its destinations.
JournalShape == journal # NoJournal => journal.existed \subseteq journal.dests

\* What each control point knows about the disk.
RestorePhase(p) ==
    pc[p] = "restore" =>
        /\ journal # NoJournal
        /\ journal.state = "prepared"
        /\ tx[p] = journal.tx
        /\ todo[p] \subseteq journal.dests
        /\ \A d \in Dest : loaded[p][d] = IF d \in journal.existed
                                         THEN rollback[journal.tx][d] ELSE Absent
        /\ \A d \in journal.dests \ todo[p] : file[d] = loaded[p][d]

UnjournalPhase(p) ==
    pc[p] = "unjournal" =>
        /\ journal # NoJournal
        /\ journal.state = "committed"
        /\ tx[p] = journal.tx

CleanPhase(p) ==
    pc[p] \in {"open", "validate", "prepare", "aborted"} => journal = NoJournal

ServePhase(p) ==
    pc[p] \in {"serve", "view"} =>
        (journal # NoJournal => journal.state = "committed")

PreparePhase(p) ==
    pc[p] = "prepare" =>
        /\ tx[p] \in Tx
        /\ todo[p] \subseteq Mentioned(plan[p])
        /\ existed[p] = {d \in Mentioned(plan[p]) : file[d] # Absent}
        /\ \A d \in Mentioned(plan[p]) \ todo[p] :
              /\ staging[tx[p]][d] = plan[p][d]
              /\ d \in existed[p] => rollback[tx[p]][d] = file[d]

InstallPhase(p) ==
    pc[p] = "install" =>
        /\ tx[p] \in Tx
        /\ journal = OwnJournal(p, "prepared")
        /\ todo[p] \subseteq Mentioned(plan[p])
        /\ \A d \in todo[p] : staging[tx[p]][d] = plan[p][d]
        /\ \A d \in Mentioned(plan[p]) \ todo[p] : file[d] = plan[p][d]

FinishPhase(p) ==
    pc[p] = "finish" =>
        /\ tx[p] \in Tx
        /\ journal = OwnJournal(p, "committed")
        /\ \A d \in Mentioned(plan[p]) : file[d] = plan[p][d]

\* A success is remembered only while its caller still has the task.
OkPhase(p) ==
    outcome[p] = "ok" =>
        /\ pc[p] = "serve"
        /\ \A d \in Mentioned(plan[p]) : file[d] = plan[p][d]

Phase(p) ==
    /\ RestorePhase(p)
    /\ UnjournalPhase(p)
    /\ CleanPhase(p)
    /\ ServePhase(p)
    /\ PreparePhase(p)
    /\ InstallPhase(p)
    /\ FinishPhase(p)
    /\ OkPhase(p)

Phases == \A p \in Proc : Phase(p)

IInv ==
    /\ TypeOK
    /\ Exclusive
    /\ IdleClean
    /\ JournalShape
    /\ PreparedIsRecoverable
    /\ Phases
    /\ ReadersSeeOneRevision

-----------------------------------------------------------------------------
(* Lemmas about one step.                                                  *)

\* The process p has read nothing but the authoritative revision.
SeenHolds(p) ==
    \A d \in Dest : seen[p][d] # Unread => seen[p][d] = Authoritative[d]

\* A step leaves every process but p where it is.
OthersStay(p) ==
    \A q \in Proc \ {p} :
        /\ pc'[q] = pc[q] /\ actor'[q] = actor[q]
        /\ seen'[q] = seen[q] /\ outcome'[q] = outcome[q]

\* A process that has the task, or can take it, is alone.
LEMMA Alone ==
    ASSUME IInv, NEW p \in Proc, pc[p] # "idle" \/ lease = NoProc,
           NEW q \in Proc \ {p}
    PROVE  pc[q] = "idle" /\ Clean(q)
  BY ConstantsAssumption DEF IInv, Exclusive, IdleClean

\* An idle process with no memory satisfies every phase.
LEMMA IdlePhase ==
    ASSUME NEW q \in Proc, pc'[q] = "idle", outcome'[q] = "none"
    PROVE  Phase(q)'
  BY DEF Phase, RestorePhase, UnjournalPhase, CleanPhase, ServePhase, PreparePhase,
     InstallPhase, FinishPhase, OkPhase

\* What a step of p has to establish for the invariant: its own share of it.
LEMMA Frame ==
    ASSUME IInv, TypeOK', NEW p \in Proc, pc[p] # "idle" \/ lease = NoProc,
           OthersStay(p),
           pc'[p] # "idle" => lease' = p,
           pc'[p] = "idle" => Clean(p)',
           JournalShape', PreparedIsRecoverable', Phase(p)', SeenHolds(p)'
    PROVE  IInv'
  <1>1. ASSUME NEW q \in Proc \ {p}
        PROVE  pc'[q] = "idle" /\ Clean(q)'
    BY Alone DEF OthersStay, Clean
  <1>2. Exclusive' /\ IdleClean'
    BY <1>1 DEF Exclusive, IdleClean
  <1>3. Phases'
    BY <1>1, IdlePhase DEF Phases, Clean
  <1>4. ReadersSeeOneRevision'
    BY <1>1 DEF ReadersSeeOneRevision, SeenHolds, NothingRead, Clean
  <1> QED
    BY <1>2, <1>3, <1>4 DEF IInv

\* A step that leaves the disk alone has only p's memory to answer for.
LEMMA DiskKept ==
    ASSUME IInv, UNCHANGED disk
    PROVE  /\ JournalShape' /\ PreparedIsRecoverable'
           /\ Authoritative' = Authoritative
  BY DEF IInv, disk, JournalShape, PreparedIsRecoverable, Authoritative

\* What the invariant says of one process.
LEMMA At ==
    ASSUME IInv, NEW p \in Proc
    PROVE  /\ pc[p] # "idle" => lease = p
           /\ Phase(p)
           /\ SeenHolds(p)
  BY DEF IInv, Exclusive, Phases, SeenHolds, ReadersSeeOneRevision

\* Without a prepared journal the materials decide nothing.
LEMMA MaterialsIrrelevant ==
    ASSUME UNCHANGED file,
           journal # NoJournal => journal.state = "committed",
           journal' # NoJournal => journal'.state = "committed"
    PROVE  PreparedIsRecoverable' /\ Authoritative' = Authoritative
  BY DEF PreparedIsRecoverable, Authoritative

-----------------------------------------------------------------------------
(* The invariant is inductive.                                             *)

\* Entering, leaving and reading: the disk does not change.
LEMMA SessionStep ==
    ASSUME IInv, LeaseDiscipline, TypeOK', NEW p \in Proc, Session(p)
    PROVE  IInv'
  <1> USE DEF TypeOK
  <1> DEFINE Own == /\ pc'[p] # "idle" => lease' = p
                    /\ pc'[p] = "idle" => Clean(p)'
                    /\ Phase(p)'
                    /\ SeenHolds(p)'
  <1>1. UNCHANGED disk
    BY DEF Session, Acquire, AcquireReadOnly, StartNewTask, StartWorker, WorkerEnds,
       Reload, Release, LoadManifest, Read
  <1>2. pc[p] # "idle" \/ lease = NoProc
    BY DEF Session, Acquire, AcquireReadOnly, StartNewTask, StartWorker, WorkerEnds,
       Reload, Release, LoadManifest, Read, LeaseDiscipline, IInv, IdleClean, Clean
  <1>3. OthersStay(p)
    BY DEF Session, Acquire, AcquireReadOnly, StartNewTask, StartWorker, WorkerEnds,
       Reload, Release, LoadManifest, Read, Forgotten, OthersStay, IInv
  <1>4. SUFFICES Own
    BY <1>1, <1>2, <1>3, DiskKept, Frame DEF IInv
  <1>5. Authoritative' = Authoritative
    BY <1>1, DiskKept
  <1> USE DEF IInv, Clean, Phase, RestorePhase, UnjournalPhase, CleanPhase, ServePhase,
          PreparePhase, InstallPhase, FinishPhase, OkPhase, SeenHolds
  <1>6. CASE Acquire(p)
    BY <1>5, <1>6 DEF Acquire, IdleClean, NothingRead
  <1>7. CASE AcquireReadOnly(p)
    BY <1>5, <1>7 DEF AcquireReadOnly, IdleClean, NothingRead, disk
  <1>8. CASE StartNewTask(p)
    BY <1>8 DEF StartNewTask, LeaseDiscipline
  <1>9. CASE StartWorker(p)
    BY <1>5, <1>9 DEF StartWorker, NothingRead
  <1>10. CASE WorkerEnds(p)
    BY <1>10 DEF WorkerEnds, Forgotten, NothingRead
  <1>11. CASE Reload(p)
    BY <1>5, <1>11, At DEF Reload, Exclusive
  <1>12. CASE Release(p)
    BY <1>12 DEF Release, Forgotten, NothingRead
  <1>13. CASE LoadManifest(p)
    BY <1>5, <1>13, At DEF LoadManifest, disk, Exclusive
  <1>14. ASSUME NEW d \in Dest, Read(p, d)
         PROVE  Own
    BY <1>5, <1>14, At DEF Read, disk, Exclusive, Authoritative
  <1> QED
    BY <1>6, <1>7, <1>8, <1>9, <1>10, <1>11, <1>12, <1>13, <1>14 DEF Session

\* The step leaves the authoritative revision as it is.
RevisionKept == \A d \in Dest : Authoritative'[d] = Authoritative[d]

\* The journal a commit writes is one.
LEMMA OwnJournalIsOne ==
    ASSUME TypeOK, NEW p \in Proc, tx[p] \in Tx,
           NEW state \in {"prepared", "committed"}
    PROVE  OwnJournal(p, state) \in Journals /\ OwnJournal(p, state) # NoJournal
  BY JournalAssumption DEF TypeOK, OwnJournal, Journals, Mentioned

\* Recovery: the authoritative revision never changes.
LEMMA RecoveryStep ==
    ASSUME IInv, TypeOK', NEW p \in Proc, Recovery(p)
    PROVE  IInv' /\ RevisionKept
  <1> USE DEF TypeOK
  <1> DEFINE Own == /\ JournalShape' /\ PreparedIsRecoverable'
                    /\ Phase(p)' /\ RevisionKept
  <1>0. pc[p] # "idle" /\ pc'[p] # "idle"
    BY DEF Recovery, RecoverNone, RecoverPrepared, RecoverCommitted, RestoreEntry,
       RemoveJournal, RecoverFail, IInv
  <1>1. lease' = lease /\ seen' = seen /\ OthersStay(p)
    BY DEF Recovery, RecoverNone, RecoverPrepared, RecoverCommitted, RestoreEntry,
       RemoveJournal, RecoverFail, OthersStay, IInv
  <1>2. RevisionKept => SeenHolds(p)'
    BY <1>1, At DEF SeenHolds, RevisionKept
  <1>3. SUFFICES Own
    BY <1>0, <1>1, <1>2, At, Frame
  <1>P. Phase(p)
    BY At
  <1> USE DEF IInv, Phase, RestorePhase, UnjournalPhase, CleanPhase, ServePhase,
          PreparePhase, InstallPhase, FinishPhase, OkPhase
  <1>4. CASE RecoverNone(p)
    <2>1. PreparedIsRecoverable' /\ Authoritative' = Authoritative
      BY <1>4, MaterialsIrrelevant DEF RecoverNone
    <2> QED
      BY <1>P, <1>4, <2>1 DEF RecoverNone, JournalShape, RevisionKept
  <1>5. CASE RecoverPrepared(p)
    <2>1. UNCHANGED disk
      BY <1>5 DEF RecoverPrepared
    <2> QED
      BY <1>P, <1>5, <2>1, DiskKept DEF RecoverPrepared, disk, RevisionKept, Journals
  <1>6. CASE RecoverCommitted(p)
    <2>1. UNCHANGED disk
      BY <1>6 DEF RecoverCommitted
    <2> QED
      BY <1>P, <1>6, <2>1, DiskKept DEF RecoverCommitted, disk, RevisionKept
  <1>7. ASSUME NEW d \in Dest, RestoreEntry(p, d)
        PROVE  Own
    <2>1. /\ journal # NoJournal /\ journal.state = "prepared"
          /\ d \in journal.dests
          /\ UNCHANGED <<journal, rollback>>
          /\ \A e \in Dest : e # d => file'[e] = file[e]
      BY <1>P, <1>7 DEF RestoreEntry
    <2>2. Authoritative' = Authoritative
      BY <2>1 DEF Authoritative
    <2> QED
      BY <1>P, <1>7, <2>2 DEF RestoreEntry, JournalShape, PreparedIsRecoverable, RevisionKept
  <1>8. CASE RemoveJournal(p)
    <2>1. PreparedIsRecoverable' /\ JournalShape'
      BY <1>8 DEF RemoveJournal, PreparedIsRecoverable, JournalShape
    <2>2. \A d \in Dest : Authoritative[d] = file[d]
      <3>1. CASE pc[p] = "unjournal"
        BY <1>P, <3>1 DEF Authoritative
      <3>2. CASE pc[p] = "restore" /\ todo[p] = {}
        <4>1. /\ journal # NoJournal /\ journal.state = "prepared"
              /\ \A d \in journal.dests : file[d] = loaded[p][d]
          BY <1>P, <3>2
        <4>2. \A d \in Dest : loaded[p][d] = IF d \in journal.existed
                                             THEN rollback[journal.tx][d] ELSE Absent
          BY <1>P, <3>2
        <4> QED
          BY <4>1, <4>2 DEF Authoritative
      <3> QED
        BY <1>8, <3>1, <3>2 DEF RemoveJournal
    <2>3. Authoritative' = file
      BY <1>8 DEF RemoveJournal, Authoritative
    <2>4. RevisionKept
      BY <2>2, <2>3 DEF RevisionKept
    <2> QED
      BY <1>P, <1>8, <2>1, <2>4 DEF RemoveJournal
  <1>9. CASE RecoverFail(p)
    <2>1. UNCHANGED disk
      BY <1>9 DEF RecoverFail
    <2> QED
      BY <1>P, <1>9, <2>1, DiskKept DEF RecoverFail, RevisionKept
  <1> QED
    BY <1>4, <1>5, <1>6, <1>7, <1>8, <1>9 DEF Recovery

\* A commit: the authoritative revision changes when the journal turns
\* committed, and then p has nothing read that could be stale.
LEMMA CommitStep ==
    ASSUME IInv, TypeOK', NEW p \in Proc, Commit(p)
    PROVE  IInv' /\ (WriteCommitted(p) \/ RevisionKept)
  <1> USE DEF TypeOK
  <1> DEFINE Own == /\ JournalShape' /\ PreparedIsRecoverable'
                    /\ Phase(p)' /\ SeenHolds(p)'
                    /\ WriteCommitted(p) \/ RevisionKept
  <1>1. /\ pc[p] # "idle" /\ pc'[p] # "idle" /\ lease' = lease
        /\ OthersStay(p)
    BY DEF Commit, BeginCommit, BuildEntries, RejectCommit, PrepareEntry, InstallEntry,
       PrepareFail, WritePrepared, WriteCommitted, InstallFail, CommitFailed, Finish,
       OthersStay, IInv
  <1>2. SUFFICES Own
    BY <1>1, At, Frame
  <1>3. Phase(p) /\ SeenHolds(p)
    BY At
  <1> USE DEF IInv, Phase, RestorePhase, UnjournalPhase, CleanPhase, ServePhase,
          PreparePhase, InstallPhase, FinishPhase, OkPhase
  <1>4. CASE BeginCommit(p)
    BY <1>3, <1>4, DiskKept DEF BeginCommit, SeenHolds, RevisionKept
  <1>5. CASE BuildEntries(p)
    BY <1>3, <1>5, DiskKept DEF BuildEntries, SeenHolds, RevisionKept, disk
  <1>6. CASE RejectCommit(p)
    BY <1>3, <1>6, DiskKept DEF RejectCommit, SeenHolds, RevisionKept, disk
  <1>7. ASSUME NEW d \in Dest, PrepareEntry(p, d)
        PROVE  Own
    <2>1. PreparedIsRecoverable' /\ Authoritative' = Authoritative
      BY <1>3, <1>7, MaterialsIrrelevant DEF PrepareEntry
    <2>2. JournalShape' /\ SeenHolds(p)' /\ RevisionKept
      BY <1>3, <1>7, <2>1 DEF PrepareEntry, JournalShape, SeenHolds, RevisionKept
    <2>3. PreparePhase(p)'
      BY <1>3, <1>7 DEF PrepareEntry
    <2> QED
      BY <1>3, <1>7, <2>1, <2>2, <2>3 DEF PrepareEntry
  <1>8. CASE PrepareFail(p)
    <2>1. PreparedIsRecoverable' /\ Authoritative' = Authoritative
      BY <1>3, <1>8, MaterialsIrrelevant DEF PrepareFail
    <2> QED
      BY <1>3, <1>8, <2>1 DEF PrepareFail, JournalShape, SeenHolds, RevisionKept
  <1>9. CASE WritePrepared(p)
    <2> USE DEF WritePrepared, OwnJournal
    <2>1. /\ journal' # NoJournal
          /\ journal'.state = "prepared"
          /\ journal'.tx = tx[p]
          /\ journal'.dests = Mentioned(plan[p])
          /\ journal'.existed = existed[p]
      BY <1>3, <1>9, OwnJournalIsOne
    <2>2. \A d \in existed[p] : rollback[tx[p]][d] = file[d] /\ file[d] # Absent
      BY <1>3, <1>9
    <2>3. JournalShape' /\ PreparedIsRecoverable'
      BY <1>3, <1>9, <2>1, <2>2 DEF JournalShape, PreparedIsRecoverable
    <2>4. Authoritative = file
      BY <1>3, <1>9 DEF Authoritative
    <2>5. Authoritative' = file
      BY <1>3, <1>9, <2>1, <2>2 DEF Authoritative
    <2>6. SeenHolds(p)' /\ RevisionKept
      BY <1>3, <1>9, <2>4, <2>5 DEF SeenHolds, RevisionKept
    <2>7. Phase(p)'
      BY <1>3, <1>9 DEF Mentioned
    <2> QED
      BY <2>3, <2>6, <2>7
  <1>10. ASSUME NEW d \in Dest, InstallEntry(p, d)
         PROVE  Own
    <2>0. tx[p] \in Tx /\ journal = OwnJournal(p, "prepared") /\ d \in Mentioned(plan[p])
      BY <1>3, <1>10 DEF InstallEntry, CanApply
    <2>1. /\ journal' = journal /\ journal # NoJournal
          /\ journal.state = "prepared" /\ d \in journal.dests
          /\ rollback' = rollback
      BY <2>0, <1>10, OwnJournalIsOne DEF InstallEntry, OwnJournal
    <2>2. JournalShape' /\ PreparedIsRecoverable'
      BY <1>10, <2>1 DEF JournalShape, PreparedIsRecoverable
    <2>3. Authoritative' = Authoritative
      BY <1>10, <2>1 DEF Authoritative, InstallEntry
    <2>4. SeenHolds(p)' /\ RevisionKept
      BY <1>3, <1>10, <2>3 DEF SeenHolds, RevisionKept, InstallEntry
    <2>5. InstallPhase(p)'
      BY <1>3, <1>10 DEF InstallEntry, CanApply, OwnJournal
    <2> QED
      BY <1>3, <1>10, <2>2, <2>4, <2>5 DEF InstallEntry
  <1>11. CASE WriteCommitted(p)
    <2>1. /\ journal' # NoJournal
          /\ journal'.state = "committed"
          /\ journal'.dests = Mentioned(plan[p])
          /\ journal'.existed = existed[p]
      BY <1>3, <1>11, OwnJournalIsOne DEF WriteCommitted, OwnJournal
    <2>0. existed[p] \subseteq Mentioned(plan[p])
      BY <1>3, <1>11, OwnJournalIsOne DEF WriteCommitted, OwnJournal, JournalShape
    <2>2. JournalShape' /\ PreparedIsRecoverable'
      BY <2>0, <2>1 DEF JournalShape, PreparedIsRecoverable
    <2> QED
      BY <1>3, <1>11, <2>2 DEF WriteCommitted, OwnJournal, SeenHolds, NothingRead
  <1>12. CASE InstallFail(p)
    BY <1>3, <1>12, DiskKept DEF InstallFail, SeenHolds, RevisionKept
  <1>13. CASE CommitFailed(p)
    BY <1>3, <1>13, DiskKept DEF CommitFailed, SeenHolds, RevisionKept, disk
  <1>14. CASE Finish(p)
    <2>1. /\ journal # NoJournal => journal.state = "committed"
          /\ journal' # NoJournal => journal'.state = "committed"
      BY <1>3, <1>14 DEF Finish, OwnJournal
    <2>2. PreparedIsRecoverable' /\ Authoritative' = Authoritative
      BY <1>14, <2>1, MaterialsIrrelevant DEF Finish
    <2> QED
      BY <1>3, <1>14, <2>1, <2>2 DEF Finish, JournalShape, SeenHolds, RevisionKept
  <1> QED
    BY <1>4, <1>5, <1>6, <1>7, <1>8, <1>9, <1>10, <1>11, <1>12, <1>13, <1>14 DEF Commit

\* A crash of the desktop leaves idle processes and the disk as it was.
LEMMA CrashStep ==
    ASSUME IInv, LeaseDiscipline, Crash
    PROVE  IInv'
  <1>1. \A q \in Proc : pc'[q] = "idle" /\ Clean(q)'
    BY DEF Crash, Forgotten, LeaseDiscipline, Clean
  <1>2. TypeOK'
    BY ForgottenType DEF Crash, IInv, TypeOK, disk, PCs
  <1>3. JournalShape' /\ PreparedIsRecoverable'
    BY DiskKept DEF Crash
  <1>4. Exclusive' /\ IdleClean' /\ ReadersSeeOneRevision'
    BY <1>1 DEF Exclusive, IdleClean, Clean, ReadersSeeOneRevision, NothingRead
  <1>5. Phases'
    BY <1>1, IdlePhase DEF Phases, Clean
  <1> QED
    BY <1>2, <1>3, <1>4, <1>5 DEF IInv

LEMMA Initially == Init => IInv
  <1> SUFFICES ASSUME Init PROVE IInv
    OBVIOUS
  <1>1. TypeOK
    BY TypeInit DEF TypeInv
  <1>2. Exclusive /\ IdleClean /\ JournalShape /\ PreparedIsRecoverable
    BY DEF Init, Exclusive, IdleClean, Clean, JournalShape, PreparedIsRecoverable
  <1>3. Phases
    BY DEF Init, Phases, Phase, RestorePhase, UnjournalPhase, CleanPhase, ServePhase,
       PreparePhase, InstallPhase, FinishPhase, OkPhase
  <1>4. ReadersSeeOneRevision
    BY DEF Init, ReadersSeeOneRevision, NothingRead
  <1> QED
    BY <1>1, <1>2, <1>3, <1>4 DEF IInv

LEMMA TypeInvOfIInv == IInv => TypeInv
  BY At DEF IInv, TypeInv, Holding, Phase, PreparePhase, InstallPhase, FinishPhase

LEMMA Invariance ==
    ASSUME LeaseDiscipline
    PROVE  Spec => []IInv
  <1>1. Init => IInv
    BY Initially
  <1>2. IInv /\ [Next]_vars => IInv'
    <2> SUFFICES ASSUME IInv, [Next]_vars
                 PROVE  IInv'
      OBVIOUS
    <2>1. CASE Crash
      BY <2>1, CrashStep
    <2>2. ASSUME NEW p \in Proc, Session(p) \/ Recovery(p) \/ Commit(p)
          PROVE  IInv'
      <3>1. TypeInv'
        BY <2>2, SessionType, RecoveryType, CommitType, TypeInvOfIInv
      <3>2. TypeOK'
        BY <3>1 DEF TypeInv
      <3> QED
        BY <2>2, <3>2, SessionStep, RecoveryStep, CommitStep
    <2>3. CASE UNCHANGED vars
      BY <2>3 DEF vars, IInv, TypeOK, Exclusive, IdleClean, Clean, JournalShape,
         PreparedIsRecoverable, Phases, Phase, RestorePhase, UnjournalPhase, CleanPhase,
         ServePhase, PreparePhase, InstallPhase, FinishPhase, OkPhase, OwnJournal,
         ReadersSeeOneRevision, Authoritative
    <2> QED
      BY <2>1, <2>2, <2>3 DEF Next
  <1> QED
    BY <1>1, <1>2, PTL DEF Spec

-----------------------------------------------------------------------------
(* The theorems.                                                           *)

\* While the journal says prepared every rollback copy it needs exists,
\* whatever crashes, fails or is swept (task_manifest/transaction.rs,
\* task_transaction.py).
THEOREM RollbackPreserved ==
    ASSUME LeaseDiscipline
    PROVE  Spec => []PreparedIsRecoverable
  <1>1. IInv => PreparedIsRecoverable
    BY DEF IInv
  <1> QED
    BY <1>1, Invariance, PTL

\* Nobody who has the task open ever holds pieces of two revisions, or a
\* revision that somebody else has replaced.
THEOREM OneRevisionRead ==
    ASSUME LeaseDiscipline
    PROVE  Spec => []ReadersSeeOneRevision
  <1>1. IInv => ReadersSeeOneRevision
    BY DEF IInv
  <1> QED
    BY <1>1, Invariance, PTL

\* A commit reported as a success stays: no recovery undoes it while its
\* caller has the task open.
THEOREM SuccessIsFinal ==
    ASSUME LeaseDiscipline
    PROVE  Spec => []SuccessStands
  <1>1. ASSUME IInv
        PROVE  SuccessStands
    <2> SUFFICES ASSUME NEW p \in Proc, NEW d \in Dest,
                        outcome[p] = "ok", plan[p][d] # Keep
                 PROVE  Authoritative[d] = plan[p][d]
      BY DEF SuccessStands
    <2>1. pc[p] = "serve" /\ file[d] = plan[p][d]
      BY <1>1, At DEF Phase, OkPhase, Mentioned
    <2>2. Authoritative = file
      BY <1>1, <2>1, At DEF Phase, ServePhase, Authoritative
    <2> QED
      BY <2>1, <2>2
  <1> QED
    BY <1>1, Invariance, PTL

-----------------------------------------------------------------------------
(* TaskTransaction implements AtomicRevision, under the lease discipline.   *)

\* A call is pending exactly from BeginCommit to the answer.
Calling ==
    \A p \in Proc :
        /\ outcome[p] = "pending" <=>
              \/ pc[p] \in {"validate", "prepare", "install", "finish", "aborted"}
              \/ pc[p] \in {"recover", "restore", "unjournal"} /\ ret[p] # "open"
        /\ pc[p] = "returned" => ret[p] = "open"

RInv == IInv /\ Calling

LEMMA CallingStep ==
    ASSUME TypeOK, Calling, [Next]_vars
    PROVE  Calling'
  <1> USE DEF TypeOK, Calling
  <1>1. CASE Crash
    BY <1>1 DEF Crash, Forgotten
  <1>2. ASSUME NEW p \in Proc, Session(p)
        PROVE  Calling'
    BY <1>2 DEF Session, Acquire, AcquireReadOnly, StartNewTask, StartWorker,
       WorkerEnds, Reload, Release, LoadManifest, Read, Forgotten
  <1>3. ASSUME NEW p \in Proc, Recovery(p)
        PROVE  Calling'
    BY <1>3 DEF Recovery, RecoverNone, RecoverPrepared, RecoverCommitted, RestoreEntry,
       RemoveJournal, RecoverFail
  <1>4. ASSUME NEW p \in Proc, Commit(p)
        PROVE  Calling'
    BY <1>4 DEF Commit, BeginCommit, BuildEntries, RejectCommit, PrepareEntry,
       InstallEntry, PrepareFail, WritePrepared, WriteCommitted, InstallFail,
       CommitFailed, Finish
  <1>5. CASE UNCHANGED vars
    BY <1>5 DEF vars
  <1> QED
    BY <1>1, <1>2, <1>3, <1>4, <1>5 DEF Next

LEMMA RInvariance ==
    ASSUME LeaseDiscipline
    PROVE  Spec => []RInv
  <1>1. Init => Calling
    BY DEF Init, Calling
  <1>2. IInv /\ Calling /\ [Next]_vars => Calling'
    BY CallingStep DEF IInv
  <1> QED
    BY <1>1, <1>2, Invariance, PTL DEF Spec, RInv

-----------------------------------------------------------------------------
(* What a step of the transaction is in the abstract specification.        *)

LEMMA InitRefined == ASSUME Init PROVE Promise!Init
  <1>1. Authoritative = file
    BY DEF Init, Authoritative
  <1>2. Authoritative \in [Dest -> Content \cup {Absent}]
    BY <1>1 DEF Init, Stored
  <1>3. Call = [p \in Proc |-> "none"]
    BY DEF Init, Call
  <1>4. plan = [p \in Proc |-> [d \in Dest |-> Keep]]
    BY DEF Init, NoPlan
  <1> QED
    BY <1>2, <1>3, <1>4 DEF Promise!Init, Promise!Revisions

\* Forgetting what a set of processes has asked for.
LEMMA ForgottenRefined ==
    ASSUME RInv, Authoritative' = Authoritative, NEW ps, ps \subseteq Proc,
           plan' = [p \in Proc |-> IF p \in ps THEN NoPlan ELSE plan[p]],
           \A p \in Proc : outcome'[p] = IF p \in ps THEN "none" ELSE outcome[p],
           \A p \in Proc \ ps : pc'[p] = pc[p]
    PROVE  Promise!Next
  <1>1. Call' = [p \in Proc |-> IF p \in ps THEN "none" ELSE Call[p]]
    BY DEF Call
  <1>2. Promise!Forget(ps)
    BY <1>1 DEF Promise!Forget, NoPlan
  <1> QED
    BY <1>2 DEF Promise!Next

LEMMA SessionRefined ==
    ASSUME RInv, RInv', LeaseDiscipline, NEW p \in Proc, Session(p)
    PROVE  [Promise!Next]_(Promise!vars)
  <1>0. TypeOK
    BY DEF RInv, IInv
  <1>1. Authoritative' = Authoritative
    BY DiskKept DEF RInv, Session, Acquire, AcquireReadOnly, StartNewTask, StartWorker,
       WorkerEnds, Reload, Release, LoadManifest, Read
  <1>2. CASE StartWorker(p)
    <2>1. plan' = [q \in Proc |-> IF q \in {p} THEN NoPlan ELSE plan[q]]
      BY <1>0, <1>2 DEF StartWorker, TypeOK
    <2>2. /\ \A q \in Proc : outcome'[q] = IF q \in {p} THEN "none" ELSE outcome[q]
          /\ \A q \in Proc \ {p} : pc'[q] = pc[q]
      BY <1>0, <1>2 DEF StartWorker, TypeOK
    <2> QED
      BY <1>1, <2>1, <2>2, ForgottenRefined
  <1>3. CASE WorkerEnds(p) \/ Release(p)
    <2>1. /\ plan' = [q \in Proc |-> IF q \in {p} THEN NoPlan ELSE plan[q]]
          /\ \A q \in Proc : outcome'[q] = IF q \in {p} THEN "none" ELSE outcome[q]
          /\ \A q \in Proc \ {p} : pc'[q] = pc[q]
      BY <1>0, <1>3 DEF WorkerEnds, Release, Forgotten, TypeOK
    <2> QED
      BY <1>1, <2>1, ForgottenRefined
  <1>4. CASE \/ Acquire(p) \/ AcquireReadOnly(p) \/ StartNewTask(p) \/ Reload(p)
             \/ LoadManifest(p) \/ \E d \in Dest : Read(p, d)
    <2>1. plan' = plan /\ outcome' = outcome
      BY <1>4 DEF Acquire, AcquireReadOnly, StartNewTask, Reload, LoadManifest, Read
    <2>2. \A q \in Proc : pc'[q] = "finish" <=> pc[q] = "finish"
      BY <1>0, <1>4 DEF TypeOK, Acquire, AcquireReadOnly, StartNewTask, Reload, LoadManifest, Read
    <2>3. Call' = Call
      BY <2>1, <2>2 DEF Call
    <2> QED
      BY <1>1, <2>1, <2>3 DEF Promise!vars
  <1> QED
    BY <1>2, <1>3, <1>4 DEF Session

\* The revision is a function: equal at every destination, it is equal.
LEMMA AuthoritativeFunction ==
    ASSUME TypeOK, TypeOK', RevisionKept
    PROVE  Authoritative' = Authoritative
  <1>1. /\ Authoritative = [d \in Dest |-> Authoritative[d]]
        /\ Authoritative' = [d \in Dest |-> Authoritative'[d]]
    BY DEF Authoritative, TypeOK
  <1> QED
    BY <1>1 DEF RevisionKept

\* At the commit point the files hold the old revision and the mutations.
LEMMA CommitPoint ==
    ASSUME IInv, TypeOK', NEW p \in Proc, WriteCommitted(p)
    PROVE  Authoritative' = Promise!Overlay(Authoritative, plan[p])
  <1>1. tx[p] \in Tx /\ journal = OwnJournal(p, "prepared") /\ todo[p] = {}
    BY At DEF WriteCommitted, Phase, InstallPhase
  <1>2. /\ journal # NoJournal /\ journal.state = "prepared"
        /\ journal.dests = Mentioned(plan[p])
    BY <1>1, OwnJournalIsOne DEF OwnJournal, IInv
  <1>3. \A d \in Mentioned(plan[p]) : file[d] = plan[p][d]
    BY <1>1, At DEF WriteCommitted, Phase, InstallPhase
  <1>4. \A d \in Dest \ Mentioned(plan[p]) : Authoritative[d] = file[d]
    BY <1>2 DEF Authoritative
  <1>5. file = Promise!Overlay(Authoritative, plan[p])
    BY <1>3, <1>4 DEF Promise!Overlay, Mentioned, IInv, TypeOK
  <1>6. journal'.state = "committed" /\ file' = file
    BY DEF WriteCommitted, OwnJournal
  <1> QED
    BY <1>5, <1>6 DEF Authoritative

\* A refusal: the call of p ends without an effect.
LEMMA Refused ==
    ASSUME RInv, NEW p \in Proc, Authoritative' = Authoritative, plan' = plan,
           outcome[p] = "pending", pc[p] # "finish",
           outcome' = [outcome EXCEPT ![p] = "failed"],
           \A q \in Proc \ {p} : pc'[q] = pc[q]
    PROVE  Promise!Next
  <1>1. Call[p] = "pending" /\ Call' = [Call EXCEPT ![p] = "failed"]
    BY DEF Call, RInv, IInv, TypeOK
  <1>2. Promise!Refuse(p)
    BY <1>1 DEF Promise!Refuse
  <1> QED
    BY <1>2 DEF Promise!Next

LEMMA RecoveryRefined ==
    ASSUME RInv, RInv', NEW p \in Proc, Recovery(p)
    PROVE  [Promise!Next]_(Promise!vars)
  <1>0. IInv /\ TypeOK /\ TypeOK'
    BY DEF RInv, IInv
  <1>1. RevisionKept
    BY <1>0, RecoveryStep
  <1>2. Authoritative' = Authoritative
    BY <1>0, <1>1, AuthoritativeFunction
  <1>3. CASE RecoverFail(p)
    <2>1. CASE outcome[p] = "pending"
      <3>1. /\ plan' = plan /\ pc[p] # "finish"
            /\ outcome' = [outcome EXCEPT ![p] = "failed"]
            /\ \A q \in Proc \ {p} : pc'[q] = pc[q]
        BY <1>0, <1>3, <2>1 DEF RecoverFail, TypeOK
      <3> QED
        BY <1>2, <2>1, <3>1, Refused
    <2>2. CASE outcome[p] # "pending"
      <3>1. plan' = plan /\ outcome' = outcome
        BY <1>0, <1>3, <2>2 DEF RecoverFail, TypeOK
      <3>2. \A q \in Proc : pc'[q] = "finish" <=> pc[q] = "finish"
        BY <1>0, <1>3 DEF RecoverFail, TypeOK
      <3> QED
        BY <1>2, <3>1, <3>2 DEF Promise!vars, Call
    <2> QED
      BY <2>1, <2>2
  <1>4. CASE \/ RecoverNone(p) \/ RecoverPrepared(p) \/ RecoverCommitted(p)
             \/ RemoveJournal(p) \/ \E d \in Dest : RestoreEntry(p, d)
    <2>1. plan' = plan /\ outcome' = outcome
      BY <1>4 DEF RecoverNone, RecoverPrepared, RecoverCommitted, RestoreEntry,
         RemoveJournal
    <2>2. \A q \in Proc \ {p} : pc'[q] = pc[q]
      BY <1>0, <1>4 DEF TypeOK, RecoverNone, RecoverPrepared, RecoverCommitted,
         RestoreEntry, RemoveJournal
    <2>3. pc[p] # "finish"
      BY <1>4 DEF RecoverNone, RecoverPrepared, RecoverCommitted, RestoreEntry,
         RemoveJournal
    <2>4. pc'[p] # "finish"
      <3>1. CASE RecoverNone(p) \/ RemoveJournal(p)
        BY <1>0, <3>1 DEF TypeOK, RecoverNone, RemoveJournal
      <3>2. CASE RecoverPrepared(p) \/ RecoverCommitted(p)
        BY <1>0, <3>2 DEF TypeOK, RecoverPrepared, RecoverCommitted
      <3>3. CASE \E d \in Dest : RestoreEntry(p, d)
        BY <2>3, <3>3 DEF RestoreEntry
      <3> QED
        BY <1>4, <3>1, <3>2, <3>3
    <2>5. Call' = Call
      BY <2>1, <2>2, <2>3, <2>4 DEF Call
    <2> QED
      BY <1>2, <2>1, <2>5 DEF Promise!vars
  <1> QED
    BY <1>3, <1>4 DEF Recovery

LEMMA CommitRefined ==
    ASSUME RInv, RInv', NEW p \in Proc, Commit(p)
    PROVE  [Promise!Next]_(Promise!vars)
  <1>0. IInv /\ TypeOK /\ TypeOK'
    BY DEF RInv, IInv
  <1>1. Phase(p) /\ (outcome[p] = "pending" <=>
              \/ pc[p] \in {"validate", "prepare", "install", "finish", "aborted"}
              \/ pc[p] \in {"recover", "restore", "unjournal"} /\ ret[p] # "open")
    BY <1>0, At DEF Calling, RInv
  <1>2. CASE WriteCommitted(p)
    <2>1. Authoritative' = Promise!Overlay(Authoritative, plan[p])
      BY <1>0, <1>2, CommitPoint
    <2>2. /\ outcome[p] = "pending" /\ pc[p] # "finish" /\ pc'[p] = "finish"
          /\ outcome' = outcome
          /\ \A q \in Proc \ {p} : pc'[q] = pc[q]
      BY <1>0, <1>1, <1>2 DEF TypeOK, WriteCommitted
    <2>3. Call[p] = "pending" /\ Call' = [Call EXCEPT ![p] = "applied"]
      BY <2>2 DEF Call
    <2>4. Promise!Apply(p)
      BY <1>2, <2>1, <2>3 DEF Promise!Apply, WriteCommitted
    <2> QED
      BY <2>4 DEF Promise!Next
  <1>3. ASSUME ~WriteCommitted(p)
        PROVE  Authoritative' = Authoritative
    BY <1>0, <1>3, CommitStep, AuthoritativeFunction
  <1>4. CASE BeginCommit(p)
    <2>1. /\ plan' = [plan EXCEPT ![p] = plan'[p]]
          /\ plan'[p] \in [Dest -> Content \cup {Absent, Keep}]
      BY <1>0, <1>4 DEF TypeOK, BeginCommit, Plans, Stored
    <2>2. Call[p] \notin {"pending", "applied"}
      BY <1>0, <1>1, <1>4 DEF TypeOK, BeginCommit, Call
    <2>3. Call' = [Call EXCEPT ![p] = "pending"]
      BY <1>0, <1>4 DEF TypeOK, BeginCommit, Call
    <2>4. Authoritative' = Authoritative
      BY <1>3, <1>4 DEF BeginCommit, WriteCommitted
    <2>5. Promise!Ask(p)
      BY <2>1, <2>2, <2>3, <2>4 DEF Promise!Ask, Promise!Requests
    <2> QED
      BY <2>5 DEF Promise!Next
  <1>5. CASE RejectCommit(p) \/ PrepareFail(p) \/ CommitFailed(p)
    <2>1. Authoritative' = Authoritative
      BY <1>3, <1>5 DEF RejectCommit, PrepareFail, CommitFailed, WriteCommitted
    <2>2. /\ plan' = plan /\ pc[p] # "finish" /\ outcome[p] = "pending"
          /\ outcome' = [outcome EXCEPT ![p] = "failed"]
          /\ \A q \in Proc \ {p} : pc'[q] = pc[q]
      BY <1>0, <1>1, <1>5 DEF TypeOK, RejectCommit, PrepareFail, CommitFailed
    <2> QED
      BY <2>1, <2>2, Refused
  <1>6. CASE Finish(p)
    <2>1. Authoritative' = Authoritative
      BY <1>3, <1>6 DEF Finish, WriteCommitted
    <2>2. Call[p] = "applied" /\ Call' = [Call EXCEPT ![p] = "ok"]
      BY <1>0, <1>1, <1>6 DEF TypeOK, Finish, Call
    <2>3. Promise!Succeed(p)
      BY <1>6, <2>1, <2>2 DEF Promise!Succeed, Finish
    <2> QED
      BY <2>3 DEF Promise!Next
  <1>7. CASE \/ BuildEntries(p) \/ WritePrepared(p) \/ InstallFail(p)
             \/ \E d \in Dest : PrepareEntry(p, d) \/ InstallEntry(p, d)
    <2>1. ~WriteCommitted(p)
      BY <1>0, <1>7 DEF BuildEntries, WritePrepared, InstallFail, PrepareEntry, InstallEntry,
         CanApply, WriteCommitted, TypeOK
    <2>2. plan' = plan /\ outcome' = outcome
      BY <1>0, <1>7 DEF TypeOK, BuildEntries, WritePrepared, InstallFail, PrepareEntry, InstallEntry
    <2>3. \A q \in Proc : pc'[q] = "finish" <=> pc[q] = "finish"
      BY <1>0, <1>7 DEF TypeOK, BuildEntries, WritePrepared, InstallFail, PrepareEntry, InstallEntry
    <2> QED
      BY <1>3, <2>1, <2>2, <2>3 DEF Promise!vars, Call
  <1> QED
    BY <1>2, <1>4, <1>5, <1>6, <1>7 DEF Commit

\* The whole protocol implements the promise of one atomic revision.
THEOREM ImplementsAtomicRevision ==
    ASSUME LeaseDiscipline
    PROVE  Spec => RefinesAtomicRevision
  <1>1. Init => Promise!Init
    BY InitRefined
  <1>2. RInv /\ RInv' /\ [Next]_vars => [Promise!Next]_(Promise!vars)
    <2> SUFFICES ASSUME RInv, RInv', [Next]_vars
                 PROVE  [Promise!Next]_(Promise!vars)
      OBVIOUS
    <2>1. CASE Crash
      <3>1. Authoritative' = Authoritative
        BY <2>1, DiskKept DEF Crash, RInv
      <3> QED
        BY <2>1, <3>1, ForgottenRefined DEF Crash, Forgotten, LeaseDiscipline
    <2>2. ASSUME NEW p \in Proc, Session(p) \/ Recovery(p) \/ Commit(p)
          PROVE  [Promise!Next]_(Promise!vars)
      BY <2>2, SessionRefined, RecoveryRefined, CommitRefined
    <2>3. CASE UNCHANGED vars
      BY <2>3 DEF vars, Promise!vars, Authoritative, Call
    <2> QED
      BY <2>1, <2>2, <2>3 DEF Next
  <1> QED
    BY <1>1, <1>2, RInvariance, PTL DEF Spec, RefinesAtomicRevision, Promise!Spec
=============================================================================

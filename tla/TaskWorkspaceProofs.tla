------------------------- MODULE TaskWorkspaceProofs -------------------------
(***************************************************************************)
(* Proofs about the task workspace: its types, that the text shown is that *)
(* of the task shown, that a deleted task is not shown again, and that a   *)
(* task appears only because it was asked for last.                        *)
(***************************************************************************)
EXTENDS TaskWorkspace, TLAPS

\* A run that has begun and has not ended, and one that the workspace shows at work.
Live(c) == run[c].at \notin {"new", "over"}
AtWork(c) == run[c].at \in {"listen", "lane", "answer", "record"}

\* The operation counter never falls behind that of a run.
NoRunAhead == \A c \in Runs : run[c].op <= op

\* One run at most is of the current operation.
OneCurrent == \A c, d \in Runs : Live(c) /\ Live(d) /\ Current(c) /\ Current(d) => c = d

\* While it is, it holds the claim, unless it makes insights.
CurrentClaims ==
  \A c \in Runs : Live(c) /\ Current(c) /\ run[c].kind # "insights" => claim = c

\* A run that makes insights is always at work.
InsightsWork == \A c \in Runs : run[c].kind = "insights" /\ Live(c) => AtWork(c)

\* A run at work is the current one and the workspace shows it: whatever would count
\* the operation on waits for it.
WorkIsShown == \A c \in Runs : AtWork(c) => Current(c) /\ isProcessingStage

\* No run is current while a task is being deleted.
QuietDeletion ==
  deletion.at \in {"sent", "deleted"} => \A c \in Runs : Live(c) => ~Current(c)

\* A task that was not shown when it was confirmed is not
\* shown since, and a deleted one is not on disk.
DeletionOfTask ==
  /\ deletion.at \in {"sent", "deleted"} /\ ~deletion.shown => workflow.task # deletion.task
  /\ deletion.at = "deleted" => deletion.task \notin disk

\* Nothing that may still be shown is deleted.
NothingGone ==
  /\ disk \cap gone = {}
  /\ workflow.task \notin gone
  /\ \A c \in Runs : Live(c) /\ Current(c) => run[c].task \notin gone
  /\ \A d \in detail : d.newest => d.task \notin gone

\* Answers of the history count only if no deletion was asked for since.
NoNewestDetail == deletion.at # "none" => \A d \in detail : ~d.newest

\* What may still be shown is what was asked for last.
AskedFor ==
  /\ \A c \in Runs : Live(c) /\ Current(c) /\ run[c].at # "model" => asked.run = c
  /\ \A d \in detail : d.newest => asked.task = d.task

\* The types of the variables; a deletion names a task.
Typed == TypeOK /\ (deletion.at # "none" => deletion.task \in Tasks)

IInv ==
  /\ Typed
  /\ NoRunAhead /\ OneCurrent /\ CurrentClaims /\ InsightsWork /\ WorkIsShown
  /\ QuietDeletion /\ DeletionOfTask /\ NothingGone /\ NoNewestDetail /\ AskedFor

-----------------------------------------------------------------------------
(* Types.                                                                   *)

Places == {"new", "model", "listen", "lane", "answer", "info", "record", "late", "over"}

LEMMA WorkflowTypes ==
  ASSUME TypeOK
  PROVE  /\ createInitialWorkflow \in Workflow
         /\ \A kind \in Kinds : /\ startProcessing(kind) \in Workflow
                               /\ mergeProgressEvent(kind) \in Workflow
         /\ startInsightRetry \in Workflow
         /\ \A w \in Workflow : startNoteTitleGeneration(w) \in Workflow
         /\ requestProcessingCancellation \in Workflow
         /\ restoreProcessingAfterCancellationFailure \in Workflow
         /\ confirmProcessingCancellation \in Workflow
         /\ \A t \in Tasks \cup {None} : /\ summarizeWorkerResult(t) \in Workflow
                                         /\ finishInsightRetry(t) \in Workflow
                                         /\ applyTranscriptSave(t) \in Workflow
         /\ finishNoteTitleGeneration \in Workflow
<1>1. workflow \in Workflow /\ createInitialWorkflow \in Workflow
  BY DEF TypeOK, createInitialWorkflow, Workflow, Stages
<1>2. \A w \in Workflow, s \in Stages : /\ [w EXCEPT !.stage = s] \in Workflow
                                        /\ [w EXCEPT !.stage = s, !.from = None] \in Workflow
                                        /\ \A b \in BOOLEAN : [w EXCEPT !.stage = s, !.from = None, !.ai = b] \in Workflow
                                        /\ \A t \in Tasks \cup {None} : [w EXCEPT !.stage = s, !.task = t, !.text = t] \in Workflow
  BY DEF Workflow
<1>3. \A kind \in Kinds : StageOf[kind] \in Stages
  BY DEF Kinds, StageOf, Stages, Working
<1>4. {"title_generating", "insights_generating", "extracting", "result", "failed"} \subseteq Stages
      /\ Working \subseteq Stages
  BY DEF Stages, Working
<1>5. \A kind \in Kinds : startProcessing(kind) \in Workflow /\ mergeProgressEvent(kind) \in Workflow
  BY <1>1, <1>2, <1>3 DEF startProcessing, mergeProgressEvent
<1>6. startInsightRetry \in Workflow /\ \A w \in Workflow : startNoteTitleGeneration(w) \in Workflow
  BY <1>1, <1>2, <1>4 DEF startInsightRetry, startNoteTitleGeneration
<1>7. requestProcessingCancellation \in Workflow
  BY <1>1 DEF requestProcessingCancellation, Workflow, Stages
<1>8. restoreProcessingAfterCancellationFailure \in Workflow
  <2> DEFINE s == IF workflow.from = None THEN "extracting" ELSE workflow.from
  <2>1. s \in Stages
    BY <1>1, <1>4 DEF Workflow
  <2>2. restoreProcessingAfterCancellationFailure = [workflow EXCEPT !.stage = s, !.from = None]
    BY DEF restoreProcessingAfterCancellationFailure
  <2> HIDE DEF s
  <2> QED
    BY <1>1, <1>2, <2>1, <2>2
<1>9. confirmProcessingCancellation \in Workflow
  BY <1>1, <1>2, <1>4 DEF confirmProcessingCancellation, cancelNoteTitleGeneration
<1>10. \A t \in Tasks \cup {None} : /\ summarizeWorkerResult(t) \in Workflow
                                    /\ finishInsightRetry(t) \in Workflow
  BY <1>1, <1>2, <1>4 DEF summarizeWorkerResult, finishInsightRetry
<1>11. \A t \in Tasks \cup {None} : applyTranscriptSave(t) \in Workflow
  BY <1>1 DEF applyTranscriptSave, Workflow
<1>12. finishNoteTitleGeneration \in Workflow
  BY <1>1, <1>2, <1>4 DEF finishNoteTitleGeneration
<1> QED
  BY <1>1, <1>5, <1>6, <1>7, <1>8, <1>9, <1>10, <1>11, <1>12

LEMMA RunTypes ==
  ASSUME TypeOK, NEW c \in Runs
  PROVE  /\ \A kind \in Kinds, at \in Places, id \in Nat, t \in Tasks \cup {None} :
              Begins(c, kind, at, id, t) => run' \in [Runs -> RunStates]
         /\ \A at \in Places :
              /\ At(c, at) => run' \in [Runs -> RunStates]
              /\ \A r \in Results, t \in Tasks \cup {None} :
                   /\ [run EXCEPT ![c].at = at, ![c].result = r] \in [Runs -> RunStates]
                   /\ [run EXCEPT ![c].at = at, ![c].result = r, ![c].task = t]
                        \in [Runs -> RunStates]
              /\ \A n \in Nat : [run EXCEPT ![c].at = at, ![c].op = n] \in [Runs -> RunStates]
              /\ \A kind \in Kinds :
                   [run EXCEPT ![c].at = at, ![c].kind = kind] \in [Runs -> RunStates]
         /\ Ends(c) => /\ run' \in [Runs -> RunStates]
                       /\ claim' \in {0} \cup Runs /\ webOp' \in {0} \cup Runs
<1>1. run \in [Runs -> RunStates] /\ run[c] \in RunStates /\ claim \in {0} \cup Runs
  BY DEF TypeOK
<1>2. \A at \in Places : /\ [run[c] EXCEPT !.at = at] \in RunStates
                         /\ \A r \in Results, t \in Tasks \cup {None} :
                              /\ [run[c] EXCEPT !.at = at, !.result = r] \in RunStates
                              /\ [run[c] EXCEPT !.at = at, !.result = r, !.task = t] \in RunStates
                         /\ \A n \in Nat : [run[c] EXCEPT !.at = at, !.op = n] \in RunStates
                         /\ \A kind \in Kinds : [run[c] EXCEPT !.at = at, !.kind = kind] \in RunStates
  <2> TAKE at \in Places
  <2> USE <1>1 DEF RunStates, Places
  <2>1. [run[c] EXCEPT !.at = at] \in RunStates
    OBVIOUS
  <2>2. ASSUME NEW r \in Results PROVE [run[c] EXCEPT !.at = at, !.result = r] \in RunStates
    OBVIOUS
  <2>3. ASSUME NEW r \in Results, NEW t \in Tasks \cup {None}
        PROVE  [run[c] EXCEPT !.at = at, !.result = r, !.task = t] \in RunStates
    OBVIOUS
  <2>4. ASSUME NEW n \in Nat PROVE [run[c] EXCEPT !.at = at, !.op = n] \in RunStates
    OBVIOUS
  <2>5. ASSUME NEW kind \in Kinds PROVE [run[c] EXCEPT !.at = at, !.kind = kind] \in RunStates
    OBVIOUS
  <2> QED
    BY <2>1, <2>2, <2>3, <2>4, <2>5
<1>3. \A kind \in Kinds, at \in Places, id \in Nat, t \in Tasks \cup {None} :
         [kind |-> kind, at |-> at, op |-> id, task |-> t, result |-> "failed"] \in RunStates
  BY DEF RunStates, Places, Results
<1>4. "over" \in Places
  BY DEF Places
<1>5. \A kind \in Kinds, at \in Places, id \in Nat, t \in Tasks \cup {None} :
         Begins(c, kind, at, id, t) => run' \in [Runs -> RunStates]
  BY <1>1, <1>3 DEF Begins
<1>6. \A at \in Places :
         /\ At(c, at) => run' \in [Runs -> RunStates]
         /\ \A r \in Results, t \in Tasks \cup {None} :
              /\ [run EXCEPT ![c].at = at, ![c].result = r] \in [Runs -> RunStates]
              /\ [run EXCEPT ![c].at = at, ![c].result = r, ![c].task = t] \in [Runs -> RunStates]
         /\ \A n \in Nat : [run EXCEPT ![c].at = at, ![c].op = n] \in [Runs -> RunStates]
         /\ \A kind \in Kinds : [run EXCEPT ![c].at = at, ![c].kind = kind] \in [Runs -> RunStates]
  BY <1>1, <1>2 DEF At
<1>7. Ends(c) => /\ run' \in [Runs -> RunStates]
                /\ claim' \in {0} \cup Runs /\ webOp' \in {0} \cup Runs
  BY <1>1, <1>2, <1>4 DEF Ends
<1> QED
  BY <1>5, <1>6, <1>7

LEMMA PlaceTypes ==
  ASSUME TypeOK, NEW c \in Runs, NEW at \in Places
  PROVE  [run EXCEPT ![c].at = at] \in [Runs -> RunStates]
<1>1. run \in [Runs -> RunStates] /\ run[c] \in RunStates
  BY DEF TypeOK
<1>2. [run[c] EXCEPT !.at = at] \in RunStates
  BY <1>1 DEF RunStates, Places
<1> QED
  BY <1>1, <1>2

LEMMA RunFields ==
  ASSUME TypeOK, NEW c \in Runs
  PROVE  /\ run[c].kind \in Kinds /\ run[c].at \in Places /\ run[c].op \in Nat
         /\ run[c].task \in Tasks \cup {None} /\ run[c].result \in Results
BY DEF TypeOK, RunStates, Places

\* The literals that the actions use are of their types.
LEMMA Literals ==
  /\ "model" \in Places /\ "listen" \in Places /\ "lane" \in Places /\ "answer" \in Places
  /\ "info" \in Places /\ "record" \in Places /\ "late" \in Places /\ "over" \in Places
  /\ "media" \in Kinds /\ "web" \in Kinds /\ "title" \in Kinds /\ "insights" \in Kinds
  /\ "fresh" \in Results /\ "kept" \in Results /\ "done" \in Results
  /\ "failed" \in Results /\ "cancelled" \in Results
  /\ \A n \in Nat : n + 1 \in Nat
BY DEF Places, Kinds, Results

LEMMA ForgottenType ==
  ASSUME TypeOK PROVE ForgetDetails \subseteq [task : Tasks, newest : BOOLEAN]
<1> SUFFICES ASSUME NEW d \in detail
             PROVE  [d EXCEPT !.newest = FALSE] \in [task : Tasks, newest : BOOLEAN]
  BY DEF ForgetDetails
<1>1. d \in [task : Tasks, newest : BOOLEAN]
  BY DEF TypeOK
<1> QED
  BY <1>1

\* How a run ends or goes on when it keeps what it has.
LEMMA OverTypes ==
  ASSUME TypeOK, NEW c \in Runs
  PROVE  /\ Ends(c) => /\ run' \in [Runs -> RunStates]
                       /\ claim' \in {0} \cup Runs /\ webOp' \in {0} \cup Runs
         /\ At(c, "over") \/ At(c, "late") \/ At(c, "info") => run' \in [Runs -> RunStates]
BY RunTypes, Literals

LEMMA LateTypes ==
  ASSUME TypeOK, NEW c \in Runs, Late(c)
  PROVE  run' \in [Runs -> RunStates] /\ claim' \in {0} \cup Runs /\ webOp' \in {0} \cup Runs
         /\ workflow' = workflow /\ cancelOp' = cancelOp
BY RunTypes, Literals DEF TypeOK, Late

LEMMA InitTypes == Init => Typed
<1> SUFFICES ASSUME Init PROVE Typed
  OBVIOUS
<1>1. workflow \in Workflow
  BY DEF Init, createInitialWorkflow, Workflow, Stages
<1>2. run \in [Runs -> RunStates]
  BY DEF Init, RunStates, Kinds, Results
<1>3. deletion \in [at : {"none", "confirm", "sent", "deleted"},
                   task : Tasks \cup {None}, shown : BOOLEAN]
  BY DEF Init, NoDeletion
<1> QED
  BY <1>1, <1>2, <1>3, ConstantsAssumption DEF Init, TypeOK, Typed, NoDeletion

LEMMA StepTypes == Typed /\ [Next]_vars => Typed'
<1> SUFFICES ASSUME Typed, [Next]_vars PROVE Typed'
  OBVIOUS
<1> USE Literals DEF TypeOK, Typed
<1>1. ASSUME NEW c \in Runs, SubmitMedia(c) PROVE Typed'
  <2>1. Begins(c, "media", "model", op, None)
    BY <1>1 DEF SubmitMedia
  <2>2. run' \in [Runs -> RunStates]
    BY <2>1, RunTypes
  <2> QED
    BY <1>1, <2>2 DEF SubmitMedia
<1>2. ASSUME NEW c \in Runs, SubmitWeb(c) PROVE Typed'
  BY <1>2, RunTypes, WorkflowTypes DEF SubmitWeb
<1>3. ASSUME NEW c \in Runs, RetryTitle(c) PROVE Typed'
  <2>0. /\ Begins(c, "title", "listen", op + 1, workflow.task)
        /\ op + 1 \in Nat /\ workflow.task \in Tasks \cup {None}
    BY <1>3 DEF RetryTitle, Workflow
  <2>1. run' \in [Runs -> RunStates]
    BY <2>0, RunTypes
  <2>2. workflow' \in Workflow
    BY <1>3, WorkflowTypes DEF RetryTitle
  <2> QED
    BY <1>3, <2>1, <2>2 DEF RetryTitle
<1>4. ASSUME NEW c \in Runs, RetryInsights(c) PROVE Typed'
  <2>0. /\ Begins(c, "insights", "listen", op + 1, workflow.task)
        /\ op + 1 \in Nat /\ workflow.task \in Tasks \cup {None}
    BY <1>4 DEF RetryInsights, Workflow
  <2>1. run' \in [Runs -> RunStates]
    BY <2>0, RunTypes
  <2>2. workflow' \in Workflow /\ op' \in Nat /\ asked' = [asked EXCEPT !.run = c]
    BY <1>4, WorkflowTypes DEF RetryInsights
  <2> QED
    BY <1>4, <2>1, <2>2 DEF RetryInsights
<1>5. CASE StartNewTask
  BY <1>5, WorkflowTypes, ForgottenType DEF StartNewTask, Reset
<1>6. CASE Cancel
  BY <1>6, WorkflowTypes DEF Cancel, CancelSent
<1>7. CASE SignedOut
  BY <1>7, WorkflowTypes, ForgottenType DEF SignedOut, Reset, CancelSent
<1>8. CASE Save
  BY <1>8 DEF Save, Workflow
<1>9. ASSUME NEW t \in Tasks, OpenHistoryItem(t) PROVE Typed'
  <2>1. [task |-> t, newest |-> TRUE] \in [task : Tasks, newest : BOOLEAN]
    OBVIOUS
  <2>2. detail' = ForgetDetails \cup {[task |-> t, newest |-> TRUE]}
    BY <1>9 DEF OpenHistoryItem
  <2>3. detail' \subseteq [task : Tasks, newest : BOOLEAN]
    BY <2>1, <2>2, ForgottenType
  <2> QED
    BY <1>9, <2>3 DEF OpenHistoryItem
<1>10. ASSUME NEW t \in Tasks, RequestDeletion(t) PROVE Typed'
  BY <1>10, ForgottenType DEF RequestDeletion
<1>11. CASE CancelDeletion
  BY <1>11 DEF CancelDeletion, NoDeletion
<1>12. CASE ConfirmDeletion
  BY <1>12, ForgottenType DEF ConfirmDeletion
<1>13. ASSUME NEW c \in Runs, ModelReady(c) PROVE Typed'
  <2>1. run' \in [Runs -> RunStates] /\ claim' \in {0} \cup Runs /\ webOp' \in {0} \cup Runs
    <3>1. /\ [run EXCEPT ![c].at = "listen", ![c].op = op + 1] \in [Runs -> RunStates]
          /\ Ends(c) => /\ run' \in [Runs -> RunStates]
                        /\ claim' \in {0} \cup Runs /\ webOp' \in {0} \cup Runs
      BY RunTypes
    <3> QED
      BY <1>13, <3>1 DEF ModelReady
  <2>2. workflow' \in Workflow /\ op' \in Nat
    BY <1>13, WorkflowTypes DEF ModelReady
  <2>3. asked' \in [run : {0} \cup Runs, task : Tasks \cup {None}]
    BY <1>13 DEF ModelReady
  <2> QED
    BY <1>13, <2>1, <2>2, <2>3 DEF ModelReady
<1>14. ASSUME NEW c \in Runs, Listening(c) PROVE Typed'
  <2>1. run' \in [Runs -> RunStates]
    <3>1. /\ [run EXCEPT ![c].at = "answer", ![c].result = "failed"] \in [Runs -> RunStates]
          /\ [run EXCEPT ![c].at = "answer", ![c].result = "cancelled"] \in [Runs -> RunStates]
          /\ [run EXCEPT ![c].at = "lane"] \in [Runs -> RunStates]
          /\ [run EXCEPT ![c].at = "record"] \in [Runs -> RunStates]
      <4>1. run[c].task \in Tasks \cup {None}
        BY RunFields
      <4>2. \A r \in Results : [run EXCEPT ![c].at = "answer", ![c].result = r] \in [Runs -> RunStates]
        BY RunTypes, <4>1
      <4>3. \A at \in Places : [run EXCEPT ![c].at = at] \in [Runs -> RunStates]
        BY PlaceTypes
      <4> QED
        BY <4>2, <4>3
    <3>2. \/ run' = [run EXCEPT ![c].at = "answer", ![c].result = "failed"]
          \/ run' = [run EXCEPT ![c].at = "answer", ![c].result = "cancelled"]
          \/ run' = [run EXCEPT ![c].at = "lane"]
          \/ run' = [run EXCEPT ![c].at = "record"]
      BY <1>14 DEF Listening, Invoked, At
    <3> QED
      BY <3>1, <3>2
  <2>2. lane' = lane \/ lane' = [run |-> c, signalled |-> FALSE]
    BY <1>14 DEF Listening, Invoked
  <2>3. [run |-> c, signalled |-> FALSE] \in [run : {0} \cup Runs, signalled : BOOLEAN]
    OBVIOUS
  <2>4. lane' \in [run : {0} \cup Runs, signalled : BOOLEAN]
    BY <2>2, <2>3
  <2> QED
    BY <1>14, <2>1, <2>4 DEF Listening
<1>15. ASSUME NEW c \in Runs, WorkerEnds(c) PROVE Typed'
  <2>1. run' \in [Runs -> RunStates]
    <3>1. ASSUME NEW r \in {"done", "failed", "cancelled"},
                 run' = [run EXCEPT ![c].at = "answer", ![c].result = r]
          PROVE  run' \in [Runs -> RunStates]
      BY <3>1, RunTypes, RunFields
    <3>2. ASSUME NEW t \in Tasks, NEW r \in {"fresh", "kept"},
                 run' = [run EXCEPT ![c].at = "answer", ![c].result = r, ![c].task = t]
          PROVE  run' \in [Runs -> RunStates]
      BY <3>2, RunTypes
    <3> QED
      BY <1>15, <3>1, <3>2 DEF WorkerEnds
  <2>2. lane' \in [run : {0} \cup Runs, signalled : BOOLEAN]
    BY <1>15 DEF WorkerEnds
  <2>3. disk' \subseteq Tasks
    BY <1>15 DEF WorkerEnds
  <2> QED
    BY <1>15, <2>1, <2>2, <2>3 DEF WorkerEnds
<1>16. ASSUME NEW c \in Runs, CancelledAnswer(c) PROVE Typed'
  <2>1. /\ run' \in [Runs -> RunStates] /\ claim' \in {0} \cup Runs /\ webOp' \in {0} \cup Runs
        /\ workflow' \in Workflow /\ cancelOp' \in Nat /\ op' \in Nat
    <3>1. CASE Current(c)
      <4>1. workflow' \in Workflow /\ cancelOp' \in Nat /\ op' \in Nat
        BY <1>16, <3>1, WorkflowTypes DEF CancelledAnswer
      <4> QED
        BY <1>16, <3>1, <4>1, OverTypes DEF CancelledAnswer
    <3>2. CASE ~Current(c)
      BY <1>16, <3>2, LateTypes DEF CancelledAnswer
    <3> QED
      BY <3>1, <3>2
  <2> QED
    BY <1>16, <2>1 DEF CancelledAnswer
<1>17. ASSUME NEW c \in Runs, TaskAnswer(c) PROVE Typed'
  <2>1. /\ run' \in [Runs -> RunStates] /\ claim' \in {0} \cup Runs /\ webOp' \in {0} \cup Runs
        /\ workflow' \in Workflow /\ cancelOp' \in Nat
    <3>1. CASE Current(c)
      <4>1. \A t \in Tasks \cup {None} : /\ summarizeWorkerResult(t) \in Workflow
              /\ startNoteTitleGeneration(summarizeWorkerResult(t)) \in Workflow
        BY WorkflowTypes
      <4>2. workflow' \in Workflow
        BY <1>17, <3>1, <4>1, RunFields DEF TaskAnswer
      <4> QED
        <5>1. \A at \in {"record", "listen"} :
                 [run EXCEPT ![c].at = at, ![c].kind = "title"] \in [Runs -> RunStates]
          BY RunTypes
        <5>2. [run EXCEPT ![c].at = IF cancelOp = op THEN "record" ELSE "listen",
                         ![c].kind = "title"] \in [Runs -> RunStates]
          BY <5>1
        <5>3. run' \in [Runs -> RunStates] /\ claim' \in {0} \cup Runs /\ webOp' \in {0} \cup Runs
          BY <1>17, <3>1, <5>2, OverTypes DEF TaskAnswer
        <5> QED
          BY <1>17, <3>1, <4>2, <5>3 DEF TaskAnswer
    <3>2. CASE ~Current(c)
      BY <1>17, <3>2, LateTypes DEF TaskAnswer
    <3> QED
      BY <3>1, <3>2
  <2> QED
    BY <1>17, <2>1 DEF TaskAnswer
<1>18. ASSUME NEW c \in Runs, NoteInfo(c) PROVE Typed'
  <2>1. workflow' \in Workflow /\ cancelOp' \in Nat
    BY <1>18, RunFields, WorkflowTypes DEF NoteInfo
  <2> QED
    BY <1>18, <2>1, RunTypes DEF NoteInfo
<1>19. ASSUME NEW c \in Runs, TitleAnswer(c) PROVE Typed'
  <2>1. /\ run' \in [Runs -> RunStates] /\ claim' \in {0} \cup Runs /\ webOp' \in {0} \cup Runs
        /\ workflow' \in Workflow /\ cancelOp' \in Nat 
    <3>1. CASE Current(c)
      <4>1. workflow' \in Workflow /\ cancelOp' \in Nat
        BY <1>19, <3>1, WorkflowTypes DEF TitleAnswer
      <4> QED
        BY <1>19, <3>1, <4>1, OverTypes DEF TitleAnswer
    <3>2. CASE ~Current(c)
      BY <1>19, <3>2, LateTypes DEF TitleAnswer
    <3> QED
      BY <3>1, <3>2
  <2> QED
    BY <1>19, <2>1 DEF TitleAnswer
<1>20. ASSUME NEW c \in Runs, InsightsAnswer(c) PROVE Typed'
  <2>1. /\ run' \in [Runs -> RunStates] /\ claim' \in {0} \cup Runs /\ webOp' \in {0} \cup Runs
        /\ workflow' \in Workflow /\ cancelOp' \in Nat 
    <3>1. CASE Current(c)
      <4>1. workflow' \in Workflow /\ cancelOp' \in Nat
        BY <1>20, <3>1, RunFields, WorkflowTypes DEF InsightsAnswer
      <4> QED
        BY <1>20, <3>1, <4>1, OverTypes DEF InsightsAnswer
    <3>2. CASE ~Current(c)
      BY <1>20, <3>2, LateTypes DEF InsightsAnswer
    <3> QED
      BY <3>1, <3>2
  <2> QED
    BY <1>20, <2>1 DEF InsightsAnswer
<1>21. ASSUME NEW c \in Runs, Progress(c) PROVE Typed'
  BY <1>21, WorkflowTypes DEF Progress, RunStates
<1>22. ASSUME NEW k \in cancel, CancelArrives(k) PROVE Typed'
  <2>1. lane' \in [run : {0} \cup Runs, signalled : BOOLEAN]
    BY <1>22 DEF CancelArrives
  <2>2. cancel' \subseteq [op : Nat, web : {0} \cup Runs, status : {"sent", "failed"}]
    BY <1>22 DEF CancelArrives
  <2> QED
    BY <1>22, <2>1, <2>2 DEF CancelArrives
<1>23. ASSUME NEW k \in cancel, CancelFailed(k) PROVE Typed'
  <2>1. workflow' \in Workflow /\ cancelOp' \in Nat
    BY <1>23, WorkflowTypes DEF CancelFailed
  <2> QED
    BY <1>23, <2>1 DEF CancelFailed
<1>24. ASSUME NEW d \in detail, HistoryDetail(d) PROVE Typed'
  BY <1>24, WorkflowTypes DEF HistoryDetail
<1>25. CASE Saved
  BY <1>25, WorkflowTypes DEF Saved
<1>26. CASE DeletionDone
  <2>1. deletion' \in [at : {"none", "confirm", "sent", "deleted"},
                      task : Tasks \cup {None}, shown : BOOLEAN]
        /\ (deletion'.at # "none" => deletion'.task \in Tasks)
    <3>1. CASE deletion' = NoDeletion
      BY <3>1 DEF NoDeletion
    <3>2. CASE deletion' = [deletion EXCEPT !.at = "deleted"]
      <4>1. deletion.at = "sent"
        BY <1>26 DEF DeletionDone
      <4> QED
        BY <3>2, <4>1
    <3> QED
      BY <1>26, <3>1, <3>2 DEF DeletionDone
  <2> QED
    BY <1>26, <2>1 DEF DeletionDone
<1>27. CASE DeletionAnswered
  <2>1. deletion' \in [at : {"none", "confirm", "sent", "deleted"},
                      task : Tasks \cup {None}, shown : BOOLEAN]
        /\ (deletion'.at # "none" => deletion'.task \in Tasks)
    BY <1>27 DEF DeletionAnswered, NoDeletion
  <2>2. workflow' \in Workflow /\ claim' \in {0} \cup Runs /\ op' \in Nat /\ cancelOp' \in Nat
    BY <1>27, WorkflowTypes DEF DeletionAnswered, Reset
  <2>3. gone' \subseteq Tasks
    BY <1>27 DEF DeletionAnswered
  <2> QED
    BY <1>27, <2>1, <2>2, <2>3 DEF DeletionAnswered
<1>28. CASE UNCHANGED vars
  BY <1>28 DEF vars
<1> QED
  BY <1>1, <1>2, <1>3, <1>4, <1>5, <1>6, <1>7, <1>8, <1>9, <1>10, <1>11, <1>12, <1>13,
     <1>14, <1>15, <1>16, <1>17, <1>18, <1>19, <1>20, <1>21, <1>22, <1>23, <1>24, <1>25,
     <1>26, <1>27, <1>28
     DEF Next, User, Goes, Answers

\* Every variable of the workspace keeps to its type, whatever answers late.
THEOREM TypeCorrect == Spec => []TypeOK
<1>1. Typed => TypeOK
  BY DEF Typed
<1> QED
  BY <1>1, InitTypes, StepTypes, PTL DEF Spec
-----------------------------------------------------------------------------
(* The inductive invariant.                                                 *)

\* What the workflow's operators do to the task and to the stage.
LEMMA WorkflowShows ==
  ASSUME TypeOK
  PROVE  /\ createInitialWorkflow.task = None
         /\ \A kind \in Kinds :
              /\ startProcessing(kind).task = None /\ startProcessing(kind).stage \in Working
              /\ mergeProgressEvent(kind).task = workflow.task
              /\ mergeProgressEvent(kind).stage \in Working
         /\ startInsightRetry.task = workflow.task /\ startInsightRetry.stage \in Working
         /\ \A w \in Workflow : /\ startNoteTitleGeneration(w).task = w.task
                                /\ startNoteTitleGeneration(w).stage \in Working
         /\ requestProcessingCancellation.task = workflow.task
         /\ isProcessingStage =>
              requestProcessingCancellation.stage \in Working \cup {"cancelling"}
         /\ restoreProcessingAfterCancellationFailure.task = workflow.task
         /\ restoreProcessingAfterCancellationFailure.stage \in Working
         /\ confirmProcessingCancellation.task \in {None, workflow.task}
         /\ \A t \in Tasks \cup {None} : /\ summarizeWorkerResult(t).task = t
                                         /\ finishInsightRetry(t).task = t
                                         /\ applyTranscriptSave(t).task = workflow.task
                                         /\ applyTranscriptSave(t).stage = workflow.stage
         /\ finishNoteTitleGeneration.task = workflow.task
<1> USE DEF TypeOK
<1>1. \A kind \in Kinds : StageOf[kind] \in Working
  BY DEF Kinds, StageOf, Working
<1>2. {"title_generating", "insights_generating", "extracting"} \subseteq Working
  BY DEF Working
<1>3. createInitialWorkflow.task = None
  BY DEF createInitialWorkflow
<1>4. ASSUME NEW kind \in Kinds
      PROVE  /\ startProcessing(kind).task = None /\ startProcessing(kind).stage \in Working
             /\ mergeProgressEvent(kind).task = workflow.task
             /\ mergeProgressEvent(kind).stage \in Working
  BY <1>1 DEF startProcessing, mergeProgressEvent, createInitialWorkflow, Workflow
<1>5. startInsightRetry.task = workflow.task /\ startInsightRetry.stage \in Working
  BY <1>2 DEF startInsightRetry, Workflow
<1>6. ASSUME NEW w \in Workflow
      PROVE  /\ startNoteTitleGeneration(w).task = w.task
             /\ startNoteTitleGeneration(w).stage \in Working
  BY <1>2 DEF startNoteTitleGeneration, Workflow
<1>7. /\ requestProcessingCancellation.task = workflow.task
      /\ isProcessingStage =>
           requestProcessingCancellation.stage \in Working \cup {"cancelling"}
  BY DEF requestProcessingCancellation, isProcessingStage, Workflow
<1>8. /\ restoreProcessingAfterCancellationFailure.task = workflow.task
      /\ restoreProcessingAfterCancellationFailure.stage \in Working
  BY <1>2 DEF restoreProcessingAfterCancellationFailure, Workflow
<1>9. confirmProcessingCancellation.task \in {None, workflow.task}
  BY <1>3 DEF confirmProcessingCancellation, cancelNoteTitleGeneration, Workflow
<1>10. ASSUME NEW t \in Tasks \cup {None}
       PROVE  /\ summarizeWorkerResult(t).task = t /\ finishInsightRetry(t).task = t
              /\ applyTranscriptSave(t).task = workflow.task
              /\ applyTranscriptSave(t).stage = workflow.stage
  BY DEF summarizeWorkerResult, finishInsightRetry, applyTranscriptSave, createInitialWorkflow,
         Workflow
<1>11. finishNoteTitleGeneration.task = workflow.task
  BY DEF finishNoteTitleGeneration, Workflow
<1> QED
  BY <1>3, <1>4, <1>5, <1>6, <1>7, <1>8, <1>9, <1>10, <1>11

\* Where a submission may begin and the stage is not one of processing, no run is at
\* work and none is current.
LEMMA NobodyWorks ==
  ASSUME IInv, claim = 0, ~isProcessingStage
  PROVE  \A c \in Runs : ~AtWork(c) /\ ~(Live(c) /\ Current(c))
<1> SUFFICES ASSUME NEW c \in Runs PROVE ~AtWork(c) /\ ~(Live(c) /\ Current(c))
  OBVIOUS
<1>1. ~AtWork(c)
  BY DEF IInv, WorkIsShown
<1>2. c # 0
  BY DEF Runs
<1>3. Live(c) /\ Current(c) => FALSE
  BY <1>1, <1>2 DEF IInv, CurrentClaims, InsightsWork
<1> QED
  BY <1>1, <1>3

\* A run that is current and has not ended is the only one; no task is being deleted.
LEMMA CurrentAlone ==
  ASSUME IInv, NEW c \in Runs, Live(c), Current(c)
  PROVE  /\ \A d \in Runs \ {c} : ~AtWork(d) /\ ~(Live(d) /\ Current(d))
         /\ deletion.at \notin {"sent", "deleted"}
         /\ run[c].task \notin gone
         /\ run[c].kind # "insights" => claim = c
         /\ run[c].at # "model" => asked.run = c
<1>1. ASSUME NEW d \in Runs \ {c} PROVE ~AtWork(d) /\ ~(Live(d) /\ Current(d))
  <2>1. ~(Live(d) /\ Current(d))
    BY DEF IInv, OneCurrent
  <2>2. AtWork(d) => Live(d) /\ Current(d)
    BY DEF IInv, WorkIsShown, AtWork, Live
  <2> QED
    BY <2>1, <2>2
<1>2. /\ deletion.at \notin {"sent", "deleted"} /\ run[c].task \notin gone
      /\ run[c].kind # "insights" => claim = c
      /\ run[c].at # "model" => asked.run = c
  BY DEF IInv, QuietDeletion, NothingGone, CurrentClaims, AskedFor
<1> QED
  BY <1>1, <1>2

\* A run at work is current, so that its answer is never late.
LEMMA WorkIsCurrent ==
  ASSUME IInv, NEW c \in Runs, AtWork(c) PROVE Live(c) /\ Current(c) /\ isProcessingStage
BY DEF IInv, WorkIsShown, AtWork, Live

\* An operation that begins leaves every run behind.
LEMMA OperationBegins ==
  ASSUME IInv, op' = op + 1, NEW c \in Runs, run'[c] = run[c]
  PROVE  ~Current(c)'
BY RunFields DEF IInv, Typed, TypeOK, NoRunAhead, Current

LEMMA InitIInv == Init => IInv
<1> SUFFICES ASSUME Init PROVE IInv
  OBVIOUS
<1>1. Typed
  BY InitTypes
<1>2. \A c \in Runs : /\ run[c].at = "new" /\ run[c].op = 0 /\ ~Live(c) /\ ~AtWork(c)
  BY DEF Init, Live, AtWork
<1>3. NoRunAhead /\ OneCurrent /\ CurrentClaims /\ InsightsWork /\ WorkIsShown
  BY <1>2 DEF Init, NoRunAhead, OneCurrent, CurrentClaims, InsightsWork, WorkIsShown
<1>4. QuietDeletion /\ DeletionOfTask /\ NoNewestDetail /\ AskedFor
  BY <1>2 DEF Init, NoDeletion, QuietDeletion, DeletionOfTask, NoNewestDetail, AskedFor
<1>5. NothingGone
  BY <1>2 DEF Init, NothingGone
<1> QED
  BY <1>1, <1>3, <1>4, <1>5 DEF IInv

\* The conjuncts about runs are kept by what leaves the runs and the operation alone.
LEMMA RunsUnchanged ==
  ASSUME IInv, run' = run, op' = op, claim' = claim
  PROVE  /\ NoRunAhead' /\ OneCurrent' /\ CurrentClaims' /\ InsightsWork'
         /\ \A c \in Runs : /\ Live(c)' = Live(c) /\ AtWork(c)' = AtWork(c)
                            /\ Current(c)' = Current(c)
<1>1. \A c \in Runs : /\ Live(c)' = Live(c) /\ AtWork(c)' = AtWork(c)
                      /\ Current(c)' = Current(c)
  BY DEF Live, AtWork, Current
<1>2. NoRunAhead' /\ OneCurrent' /\ CurrentClaims' /\ InsightsWork'
  BY <1>1 DEF IInv, NoRunAhead, OneCurrent, CurrentClaims, InsightsWork
<1> QED
  BY <1>1, <1>2

\* An operation that begins without a run, while none is at work.
LEMMA RunsLeft ==
  ASSUME IInv, run' = run, op' = op + 1, \A c \in Runs : ~AtWork(c)
  PROVE  /\ NoRunAhead' /\ OneCurrent' /\ CurrentClaims' /\ InsightsWork' /\ WorkIsShown'
         /\ QuietDeletion'
         /\ \A c \in Runs : ~Current(c)'
<1>1. \A c \in Runs : ~Current(c)'
  BY OperationBegins
<1>2. NoRunAhead'
  BY RunFields DEF IInv, Typed, TypeOK, NoRunAhead
<1>3. InsightsWork' /\ WorkIsShown'
  BY DEF IInv, InsightsWork, WorkIsShown, Live, AtWork
<1> QED
  BY <1>1, <1>2, <1>3 DEF OneCurrent, CurrentClaims, QuietDeletion

\* A run begins while none is current.
LEMMA RunBegins ==
  ASSUME IInv, NEW c \in Runs, NEW kind \in Kinds, NEW at \in Places, NEW id \in Nat,
         NEW t \in Tasks \cup {None},
         Begins(c, kind, at, id, t), id = op', op' = op \/ op' = op + 1,
         at # "new" /\ at # "over",
         \A d \in Runs : ~AtWork(d) /\ ~(Live(d) /\ Current(d))
  PROVE  /\ \A d \in Runs \ {c} : ~AtWork(d)' /\ ~(Live(d)' /\ Current(d)')
         /\ run'[c] = [kind |-> kind, at |-> at, op |-> id, task |-> t, result |-> "failed"]
         /\ Current(c)' /\ Live(c)' /\ NoRunAhead' /\ OneCurrent'
<1>1. run \in [Runs -> RunStates] /\ op \in Nat
  BY DEF IInv, Typed, TypeOK
<1>2. /\ \A d \in Runs \ {c} : run'[d] = run[d]
      /\ run'[c] = [kind |-> kind, at |-> at, op |-> id, task |-> t, result |-> "failed"]
  BY <1>1 DEF Begins
<1>3. \A d \in Runs : run[d].op \in Nat /\ run[d].op <= op
  BY <1>1 DEF IInv, NoRunAhead, RunStates
<1>4. ASSUME NEW d \in Runs \ {c} PROVE ~AtWork(d)' /\ ~(Live(d)' /\ Current(d)')
  BY <1>1, <1>2, <1>3 DEF AtWork, Live, Current
<1>5. Current(c)' /\ Live(c)'
  BY <1>2 DEF Current, Live
<1>6. NoRunAhead'
  BY <1>1, <1>2, <1>3 DEF NoRunAhead
<1>7. OneCurrent'
  BY <1>4 DEF OneCurrent
<1> QED
  BY <1>2, <1>4, <1>5, <1>6, <1>7

\* A run ends, whatever it says of the claim.
LEMMA RunOver ==
  ASSUME IInv, NEW c \in Runs, run' = [run EXCEPT ![c].at = "over"],
         claim' = claim \/ (claim = c /\ claim' = 0), op' = op \/ op' = op + 1
  PROVE  /\ \A d \in Runs \ {c} : run'[d] = run[d]
         /\ ~Live(c)' /\ ~AtWork(c)'
         /\ \A d \in Runs : Live(d)' /\ Current(d)' => d # c /\ Live(d) /\ Current(d) /\ op' = op
         /\ NoRunAhead' /\ OneCurrent' /\ CurrentClaims' /\ InsightsWork'
<1>1. run \in [Runs -> RunStates] /\ op \in Nat
  BY DEF IInv, Typed, TypeOK
<1>2. /\ \A d \in Runs \ {c} : run'[d] = run[d]
      /\ run'[c].at = "over" /\ run'[c].op = run[c].op
  BY <1>1 DEF RunStates
<1>3. ~Live(c)' /\ ~AtWork(c)'
  BY <1>2 DEF Live, AtWork
<1>4. \A d \in Runs : run[d].op \in Nat /\ run[d].op <= op
  BY <1>1 DEF IInv, NoRunAhead, RunStates
<1>5. ASSUME NEW d \in Runs, Live(d)', Current(d)'
      PROVE  d # c /\ Live(d) /\ Current(d) /\ op' = op
  BY <1>1, <1>2, <1>3, <1>4, <1>5 DEF Live, Current
<1>6. NoRunAhead'
  BY <1>1, <1>2, <1>4 DEF NoRunAhead
<1>7. OneCurrent'
  BY <1>5 DEF IInv, OneCurrent
<1>8. CurrentClaims'
  <2> SUFFICES ASSUME NEW d \in Runs, Live(d)', Current(d)', run'[d].kind # "insights"
               PROVE  claim' = d
    BY DEF CurrentClaims
  <2>1. claim = d
    BY <1>2, <1>5 DEF IInv, CurrentClaims
  <2> QED
    BY <1>5, <2>1
<1>9. InsightsWork'
  BY <1>2, <1>3 DEF IInv, InsightsWork, Live, AtWork
<1> QED
  BY <1>2, <1>3, <1>5, <1>6, <1>7, <1>8, <1>9

\* A run at work stays at work, of the same operation and kind.
LEMMA RunWorksOn ==
  ASSUME IInv, NEW c \in Runs, AtWork(c), \A d \in Runs \ {c} : run'[d] = run[d],
         run'[c].op = run[c].op, run'[c].kind = run[c].kind \/ run'[c].kind = "title",
         run[c].kind # "insights" \/ run'[c].kind = "insights",
         AtWork(c)', op' = op, claim' = claim,
         workflow'.stage \in Working \cup {"cancelling"}
  PROVE  /\ \A d \in Runs : Live(d)' /\ Current(d)' => d = c
         /\ NoRunAhead' /\ OneCurrent' /\ CurrentClaims' /\ InsightsWork' /\ WorkIsShown'
<1>1. Live(c) /\ Current(c)
  BY WorkIsCurrent
<1>2. \A d \in Runs \ {c} : ~AtWork(d) /\ ~(Live(d) /\ Current(d))
  BY <1>1, CurrentAlone
<1>3. ASSUME NEW d \in Runs \ {c} PROVE ~AtWork(d)' /\ ~(Live(d)' /\ Current(d)')
  BY <1>2 DEF AtWork, Live, Current
<1>4. Current(c)'
  BY <1>1 DEF Current
<1>5. NoRunAhead'
  BY DEF IInv, NoRunAhead
<1>6. OneCurrent'
  BY <1>3 DEF OneCurrent
<1>7. CurrentClaims'
  <2>1. run'[c].kind # "insights" => claim' = c
    BY <1>1, CurrentAlone
  <2> QED
    BY <1>3, <2>1 DEF CurrentClaims
<1>8. InsightsWork'
  BY DEF IInv, InsightsWork, Live, AtWork
<1>9. WorkIsShown'
  BY <1>3, <1>4 DEF WorkIsShown, isProcessingStage
<1> QED
  BY <1>3, <1>5, <1>6, <1>7, <1>8, <1>9

\* Every step keeps the invariant.
LEMMA StepIInv == IInv /\ [Next]_vars => IInv'
<1> SUFFICES ASSUME IInv, [Next]_vars PROVE IInv'
  OBVIOUS
<1> USE Literals
<1>t. Typed' /\ TypeOK /\ Typed
  BY StepTypes DEF IInv, Typed
<1>n. None \notin gone /\ (deletion.at # "none" => deletion.task # None)
  BY <1>t, ConstantsAssumption DEF TypeOK, Typed
<1>f. \A d \in ForgetDetails : ~d.newest
  <2>1. \A d \in detail : d \in [task : Tasks, newest : BOOLEAN]
    BY <1>t DEF TypeOK
  <2> QED
    BY <2>1 DEF ForgetDetails
<1>1. ASSUME NEW c \in Runs, SubmitMedia(c) PROVE IInv'
  <2>1. /\ claim = 0 /\ ~isProcessingStage /\ deletion.at = "none"
        /\ Begins(c, "media", "model", op, None) /\ claim' = c /\ op' = op
        /\ UNCHANGED <<workflow, detail, deletion, disk, gone, asked>>
    BY <1>1 DEF SubmitMedia, canNavigate
  <2>2. \A d \in Runs : ~AtWork(d) /\ ~(Live(d) /\ Current(d))
    BY <2>1, NobodyWorks
  <2>3. /\ \A d \in Runs \ {c} : ~AtWork(d)' /\ ~(Live(d)' /\ Current(d)')
        /\ run'[c] = [kind |-> "media", at |-> "model", op |-> op, task |-> None,
                      result |-> "failed"]
        /\ NoRunAhead' /\ OneCurrent'
    BY <1>t, <2>1, <2>2, RunBegins DEF TypeOK
  <2>4. CurrentClaims' /\ InsightsWork' /\ WorkIsShown'
    <3>1. ~AtWork(c)' /\ run'[c].kind # "insights" /\ claim' = c
      BY <2>1, <2>3 DEF AtWork
    <3>2. \A d \in Runs \ {c} : run'[d] = run[d]
      BY <1>t, <2>1 DEF Begins, TypeOK
    <3>3. InsightsWork'
      BY <3>1, <3>2 DEF IInv, InsightsWork, Live, AtWork
    <3> QED
      BY <2>3, <3>1, <3>3 DEF CurrentClaims, WorkIsShown
  <2>5. QuietDeletion' /\ DeletionOfTask' /\ NoNewestDetail'
    BY <2>1 DEF QuietDeletion, DeletionOfTask, NoNewestDetail
  <2>6. NothingGone' /\ AskedFor'
    BY <1>n, <2>1, <2>3 DEF IInv, NothingGone, AskedFor
  <2> QED
    BY <1>t, <2>3, <2>4, <2>5, <2>6 DEF IInv
<1>2. ASSUME NEW c \in Runs, SubmitWeb(c) PROVE IInv'
  <2>1. /\ claim = 0 /\ ~isProcessingStage /\ deletion.at = "none"
        /\ Begins(c, "web", "listen", op + 1, None) /\ claim' = c /\ op' = op + 1
        /\ asked' = [asked EXCEPT !.run = c]
        /\ UNCHANGED <<detail, deletion, disk, gone>>
    BY <1>2 DEF SubmitWeb, canNavigate
  <2>2. \A d \in Runs : ~AtWork(d) /\ ~(Live(d) /\ Current(d))
    BY <2>1, NobodyWorks
  <2>w. /\ workflow'.task = None /\ workflow'.stage \in Working
        /\ None \in Tasks \cup {None} /\ None \notin gone
    BY <1>2, <1>t, <1>n, WorkflowShows DEF SubmitWeb, IInv, NothingGone, TypeOK, Workflow
  <2>3. /\ \A d \in Runs \ {c} : ~AtWork(d)' /\ ~(Live(d)' /\ Current(d)')
        /\ run'[c] = [kind |-> "web", at |-> "listen", op |-> op + 1, task |-> None,
                      result |-> "failed"]
        /\ NoRunAhead' /\ OneCurrent' /\ Current(c)'
    BY <1>t, <2>1, <2>2, <2>w, RunBegins DEF TypeOK
  <2>4. CurrentClaims' /\ InsightsWork' /\ WorkIsShown'
    <3>1. AtWork(c)' /\ claim' = c
      BY <2>1, <2>3 DEF AtWork
    <3>2. \A d \in Runs \ {c} : run'[d] = run[d]
      BY <1>t, <2>1 DEF Begins, TypeOK
    <3>3. InsightsWork'
      BY <3>1, <3>2 DEF IInv, InsightsWork, Live, AtWork
    <3> QED
      BY <2>w, <2>3, <3>1, <3>3 DEF CurrentClaims, WorkIsShown, isProcessingStage
  <2>5. QuietDeletion' /\ DeletionOfTask' /\ NoNewestDetail'
    BY <2>1 DEF QuietDeletion, DeletionOfTask, NoNewestDetail
  <2>6. NothingGone'
    BY <2>1, <2>w, <2>3 DEF IInv, NothingGone
  <2>7. AskedFor'
    <3>1. asked'.run = c /\ asked'.task = asked.task
      BY <1>t, <2>1 DEF TypeOK
    <3> QED
      BY <2>1, <2>3, <3>1 DEF IInv, AskedFor
  <2> QED
    BY <1>t, <2>3, <2>4, <2>5, <2>6, <2>7 DEF IInv
<1>3. ASSUME NEW c \in Runs, RetryTitle(c) PROVE IInv'
  <2>1. /\ claim = 0 /\ ~isProcessingStage /\ deletion.at = "none"
        /\ Begins(c, "title", "listen", op + 1, workflow.task) /\ claim' = c /\ op' = op + 1
        /\ asked' = [asked EXCEPT !.run = c]
        /\ UNCHANGED <<detail, deletion, disk, gone>>
    BY <1>3 DEF RetryTitle, canNavigate
  <2>2. \A d \in Runs : ~AtWork(d) /\ ~(Live(d) /\ Current(d))
    BY <2>1, NobodyWorks
  <2>w. /\ workflow'.task = workflow.task /\ workflow'.stage \in Working
        /\ workflow.task \in Tasks \cup {None} /\ workflow.task \notin gone
    BY <1>3, <1>t, <1>n, WorkflowShows DEF RetryTitle, IInv, NothingGone, TypeOK, Workflow
  <2>3. /\ \A d \in Runs \ {c} : ~AtWork(d)' /\ ~(Live(d)' /\ Current(d)')
        /\ run'[c] = [kind |-> "title", at |-> "listen", op |-> op + 1, task |-> workflow.task,
                      result |-> "failed"]
        /\ NoRunAhead' /\ OneCurrent' /\ Current(c)'
    BY <1>t, <2>1, <2>2, <2>w, RunBegins DEF TypeOK
  <2>4. CurrentClaims' /\ InsightsWork' /\ WorkIsShown'
    <3>1. AtWork(c)' /\ claim' = c
      BY <2>1, <2>3 DEF AtWork
    <3>2. \A d \in Runs \ {c} : run'[d] = run[d]
      BY <1>t, <2>1 DEF Begins, TypeOK
    <3>3. InsightsWork'
      BY <3>1, <3>2 DEF IInv, InsightsWork, Live, AtWork
    <3> QED
      BY <2>w, <2>3, <3>1, <3>3 DEF CurrentClaims, WorkIsShown, isProcessingStage
  <2>5. QuietDeletion' /\ DeletionOfTask' /\ NoNewestDetail'
    BY <2>1 DEF QuietDeletion, DeletionOfTask, NoNewestDetail
  <2>6. NothingGone'
    BY <2>1, <2>w, <2>3 DEF IInv, NothingGone
  <2>7. AskedFor'
    <3>1. asked'.run = c /\ asked'.task = asked.task
      BY <1>t, <2>1 DEF TypeOK
    <3> QED
      BY <2>1, <2>3, <3>1 DEF IInv, AskedFor
  <2> QED
    BY <1>t, <2>3, <2>4, <2>5, <2>6, <2>7 DEF IInv
<1>4. ASSUME NEW c \in Runs, RetryInsights(c) PROVE IInv'
  <2>1. /\ claim = 0 /\ ~isProcessingStage /\ deletion.at = "none"
        /\ Begins(c, "insights", "listen", op + 1, workflow.task) /\ claim' = claim /\ op' = op + 1
        /\ asked' = [asked EXCEPT !.run = c]
        /\ UNCHANGED <<detail, deletion, disk, gone>>
    BY <1>4 DEF RetryInsights, canNavigate
  <2>2. \A d \in Runs : ~AtWork(d) /\ ~(Live(d) /\ Current(d))
    BY <2>1, NobodyWorks
  <2>w. /\ workflow'.task = workflow.task /\ workflow'.stage \in Working
        /\ workflow.task \in Tasks \cup {None} /\ workflow.task \notin gone
    BY <1>4, <1>t, <1>n, WorkflowShows DEF RetryInsights, IInv, NothingGone, TypeOK, Workflow
  <2>3. /\ \A d \in Runs \ {c} : ~AtWork(d)' /\ ~(Live(d)' /\ Current(d)')
        /\ run'[c] = [kind |-> "insights", at |-> "listen", op |-> op + 1, task |-> workflow.task,
                      result |-> "failed"]
        /\ NoRunAhead' /\ OneCurrent' /\ Current(c)'
    BY <1>t, <2>1, <2>2, <2>w, RunBegins DEF TypeOK
  <2>4. CurrentClaims' /\ InsightsWork' /\ WorkIsShown'
    <3>1. AtWork(c)' /\ run'[c].kind = "insights"
      BY <2>1, <2>3 DEF AtWork
    <3>2. \A d \in Runs \ {c} : run'[d] = run[d]
      BY <1>t, <2>1 DEF Begins, TypeOK
    <3>3. InsightsWork'
      BY <3>1, <3>2 DEF IInv, InsightsWork, Live, AtWork
    <3> QED
      BY <2>w, <2>3, <3>1, <3>3 DEF CurrentClaims, WorkIsShown, isProcessingStage
  <2>5. QuietDeletion' /\ DeletionOfTask' /\ NoNewestDetail'
    BY <2>1 DEF QuietDeletion, DeletionOfTask, NoNewestDetail
  <2>6. NothingGone'
    BY <2>1, <2>w, <2>3 DEF IInv, NothingGone
  <2>7. AskedFor'
    <3>1. asked'.run = c /\ asked'.task = asked.task
      BY <1>t, <2>1 DEF TypeOK
    <3> QED
      BY <2>1, <2>3, <3>1 DEF IInv, AskedFor
  <2> QED
    BY <1>t, <2>3, <2>4, <2>5, <2>6, <2>7 DEF IInv
<1>5. CASE StartNewTask
  <2>1. /\ run' = run /\ op' = op + 1 /\ claim = 0 /\ ~isProcessingStage
        /\ deletion.at = "none" /\ deletion' = deletion /\ detail' = ForgetDetails
        /\ UNCHANGED <<disk, gone>> /\ workflow'.task = None
    BY <1>5, <1>t, WorkflowShows DEF StartNewTask, Reset, canNavigate
  <2>2. /\ NoRunAhead' /\ OneCurrent' /\ CurrentClaims' /\ InsightsWork' /\ WorkIsShown'
        /\ QuietDeletion' /\ \A c \in Runs : ~Current(c)'
    BY <2>1, NobodyWorks, RunsLeft
  <2>3. DeletionOfTask' /\ NoNewestDetail'
    BY <2>1 DEF DeletionOfTask, NoNewestDetail
  <2>4. NothingGone' /\ AskedFor'
    BY <1>n, <1>f, <2>1, <2>2 DEF IInv, NothingGone, AskedFor
  <2> QED
    BY <1>t, <2>2, <2>3, <2>4 DEF IInv
<1>6. CASE Cancel
  <2>1. /\ run' = run /\ op' = op /\ claim' = claim /\ isProcessingStage
        /\ UNCHANGED <<detail, deletion, disk, gone, asked>>
        /\ workflow'.task = workflow.task /\ workflow'.stage \in Working \cup {"cancelling"}
    BY <1>6, <1>t, WorkflowShows DEF Cancel, CancelSent, isProcessingStage
  <2>2. /\ NoRunAhead' /\ OneCurrent' /\ CurrentClaims' /\ InsightsWork'
        /\ \A c \in Runs : /\ Live(c)' = Live(c) /\ AtWork(c)' = AtWork(c)
                           /\ Current(c)' = Current(c)
    BY <2>1, RunsUnchanged
  <2>3. WorkIsShown'
    BY <2>1, <2>2 DEF IInv, WorkIsShown, isProcessingStage
  <2>4. QuietDeletion' /\ DeletionOfTask' /\ NoNewestDetail'
    BY <2>1, <2>2 DEF IInv, QuietDeletion, DeletionOfTask, NoNewestDetail
  <2>5. NothingGone' /\ AskedFor'
    BY <2>1, <2>2 DEF IInv, NothingGone, AskedFor
  <2> QED
    BY <1>t, <2>2, <2>3, <2>4, <2>5 DEF IInv
<1>7. CASE SignedOut
  <2>1. /\ run' = run /\ deletion' = deletion /\ detail' = ForgetDetails
        /\ UNCHANGED <<disk, gone>> /\ workflow'.task \in {None, workflow.task}
    BY <1>7, <1>t, WorkflowShows DEF SignedOut, Reset, CancelSent
  <2>2. NoNewestDetail'
    BY <1>f, <2>1 DEF NoNewestDetail
  <2>3. DeletionOfTask'
    BY <1>n, <2>1 DEF IInv, DeletionOfTask
  <2>4. CASE isProcessingStage
    <3>1. /\ op' = op /\ claim' = claim /\ asked'.run = asked.run
          /\ workflow'.stage \in Working \cup {"cancelling"}
      BY <1>7, <1>t, <2>4, WorkflowShows DEF SignedOut, CancelSent, isProcessingStage, TypeOK
    <3>2. /\ NoRunAhead' /\ OneCurrent' /\ CurrentClaims' /\ InsightsWork'
          /\ \A c \in Runs : /\ Live(c)' = Live(c) /\ AtWork(c)' = AtWork(c)
                             /\ Current(c)' = Current(c)
      BY <2>1, <3>1, RunsUnchanged
    <3>3. WorkIsShown' /\ QuietDeletion'
      BY <2>1, <3>1, <3>2 DEF IInv, WorkIsShown, QuietDeletion, isProcessingStage
    <3>4. NothingGone' /\ AskedFor'
      BY <1>n, <1>f, <2>1, <3>1, <3>2 DEF IInv, NothingGone, AskedFor
    <3> QED
      BY <1>t, <2>2, <2>3, <3>2, <3>3, <3>4 DEF IInv
  <2>5. CASE ~isProcessingStage
    <3>1. op' = op + 1
      BY <1>7, <2>5 DEF SignedOut, Reset
    <3>2. \A c \in Runs : ~AtWork(c)
      BY <2>5 DEF IInv, WorkIsShown
    <3>3. /\ NoRunAhead' /\ OneCurrent' /\ CurrentClaims' /\ InsightsWork' /\ WorkIsShown'
          /\ QuietDeletion' /\ \A c \in Runs : ~Current(c)'
      BY <2>1, <3>1, <3>2, RunsLeft
    <3>4. NothingGone' /\ AskedFor'
      BY <1>n, <1>f, <2>1, <3>3 DEF IInv, NothingGone, AskedFor
    <3> QED
      BY <1>t, <2>2, <2>3, <3>3, <3>4 DEF IInv
  <2> QED
    BY <2>4, <2>5
<1>8. CASE Save
  <2>1. /\ run' = run /\ op' = op /\ claim' = claim
        /\ UNCHANGED <<workflow, detail, deletion, disk, gone, asked>>
    BY <1>8 DEF Save
  <2>2. /\ NoRunAhead' /\ OneCurrent' /\ CurrentClaims' /\ InsightsWork'
        /\ \A c \in Runs : /\ Live(c)' = Live(c) /\ AtWork(c)' = AtWork(c)
                           /\ Current(c)' = Current(c)
    BY <2>1, RunsUnchanged
  <2>3. WorkIsShown'
    BY <2>1, <2>2 DEF IInv, WorkIsShown, isProcessingStage
  <2>4. QuietDeletion'
    BY <2>1, <2>2 DEF IInv, QuietDeletion
  <2>5. DeletionOfTask' /\ NoNewestDetail'
    BY <2>1 DEF IInv, DeletionOfTask, NoNewestDetail
  <2>6. NothingGone'
    BY <2>1, <2>2 DEF IInv, NothingGone
  <2>7. AskedFor'
    BY <2>1, <2>2 DEF IInv, AskedFor
  <2> QED
    BY <1>t, <2>2, <2>3, <2>4, <2>5, <2>6, <2>7 DEF IInv
<1>9. ASSUME NEW t \in Tasks, OpenHistoryItem(t) PROVE IInv'
  <2>1. /\ run' = run /\ op' = op /\ claim' = claim /\ t \in disk /\ deletion.at = "none"
        /\ detail' = ForgetDetails \cup {[task |-> t, newest |-> TRUE]}
        /\ asked' = [asked EXCEPT !.task = t]
        /\ UNCHANGED <<workflow, deletion, disk, gone>>
    BY <1>9 DEF OpenHistoryItem, canNavigate
  <2>2. /\ NoRunAhead' /\ OneCurrent' /\ CurrentClaims' /\ InsightsWork'
        /\ \A c \in Runs : /\ Live(c)' = Live(c) /\ AtWork(c)' = AtWork(c)
                           /\ Current(c)' = Current(c)
    BY <2>1, RunsUnchanged
  <2>3. WorkIsShown'
    BY <2>1, <2>2 DEF IInv, WorkIsShown, isProcessingStage
  <2>4. QuietDeletion' /\ DeletionOfTask' /\ NoNewestDetail'
    BY <2>1 DEF QuietDeletion, DeletionOfTask, NoNewestDetail
  <2>5. \A d \in detail' : d.newest => d.task = t
    BY <1>f, <2>1
  <2>6. NothingGone'
    BY <2>1, <2>2, <2>5 DEF IInv, NothingGone
  <2>7. AskedFor'
    <3>1. asked'.run = asked.run /\ asked'.task = t
      BY <1>t, <2>1 DEF TypeOK
    <3> QED
      BY <2>1, <2>2, <2>5, <3>1 DEF IInv, AskedFor
  <2> QED
    BY <1>t, <2>2, <2>3, <2>4, <2>6, <2>7 DEF IInv
<1>10. ASSUME NEW t \in Tasks, RequestDeletion(t) PROVE IInv'
  <2>1. /\ run' = run /\ op' = op /\ claim' = claim
        /\ deletion'.at = "confirm" /\ detail' = ForgetDetails /\ asked'.run = asked.run
        /\ UNCHANGED <<workflow, disk, gone>>
    BY <1>10, <1>t DEF RequestDeletion, TypeOK
  <2>2. /\ NoRunAhead' /\ OneCurrent' /\ CurrentClaims' /\ InsightsWork'
        /\ \A c \in Runs : /\ Live(c)' = Live(c) /\ AtWork(c)' = AtWork(c)
                           /\ Current(c)' = Current(c)
    BY <2>1, RunsUnchanged
  <2>3. WorkIsShown'
    BY <2>1, <2>2 DEF IInv, WorkIsShown, isProcessingStage
  <2>4. QuietDeletion'
    BY <2>1, <2>2 DEF IInv, QuietDeletion
  <2>5. DeletionOfTask' /\ NoNewestDetail'
    BY <2>1, <1>f DEF IInv, DeletionOfTask, NoNewestDetail
  <2>6. NothingGone'
    BY <2>1, <2>2, <1>f DEF IInv, NothingGone
  <2>7. AskedFor'
    BY <2>1, <2>2, <1>f DEF IInv, AskedFor
  <2> QED
    BY <1>t, <2>2, <2>3, <2>4, <2>5, <2>6, <2>7 DEF IInv
<1>11. CASE CancelDeletion
  <2>1. /\ run' = run /\ op' = op /\ claim' = claim
        /\ deletion'.at = "none"
        /\ UNCHANGED <<workflow, detail, disk, gone, asked>>
    BY <1>11 DEF CancelDeletion, NoDeletion
  <2>2. /\ NoRunAhead' /\ OneCurrent' /\ CurrentClaims' /\ InsightsWork'
        /\ \A c \in Runs : /\ Live(c)' = Live(c) /\ AtWork(c)' = AtWork(c)
                           /\ Current(c)' = Current(c)
    BY <2>1, RunsUnchanged
  <2>3. WorkIsShown'
    BY <2>1, <2>2 DEF IInv, WorkIsShown, isProcessingStage
  <2>4. QuietDeletion'
    BY <2>1, <2>2 DEF IInv, QuietDeletion
  <2>5. DeletionOfTask' /\ NoNewestDetail'
    BY <2>1 DEF IInv, DeletionOfTask, NoNewestDetail
  <2>6. NothingGone'
    BY <2>1, <2>2 DEF IInv, NothingGone
  <2>7. AskedFor'
    BY <2>1, <2>2 DEF IInv, AskedFor
  <2> QED
    BY <1>t, <2>2, <2>3, <2>4, <2>5, <2>6, <2>7 DEF IInv
<1>12. CASE ConfirmDeletion
  <2>1. /\ run' = run /\ op' = op /\ claim' = claim
        /\ claim = 0 /\ ~isProcessingStage /\ deletion'.at = "sent"
        /\ deletion'.task = deletion.task /\ deletion'.shown = (workflow.task = deletion.task)
        /\ detail' = ForgetDetails
        /\ UNCHANGED <<workflow, disk, gone, asked>>
    BY <1>12, <1>t DEF ConfirmDeletion, TypeOK
  <2>2. /\ NoRunAhead' /\ OneCurrent' /\ CurrentClaims' /\ InsightsWork'
        /\ \A c \in Runs : /\ Live(c)' = Live(c) /\ AtWork(c)' = AtWork(c)
                           /\ Current(c)' = Current(c)
    BY <2>1, RunsUnchanged
  <2>3. WorkIsShown'
    BY <2>1, <2>2 DEF IInv, WorkIsShown, isProcessingStage
  <2>4. QuietDeletion'
    BY <2>1, <2>2, NobodyWorks DEF IInv, QuietDeletion
  <2>5. DeletionOfTask' /\ NoNewestDetail'
    BY <2>1, <1>f DEF IInv, DeletionOfTask, NoNewestDetail
  <2>6. NothingGone'
    BY <2>1, <2>2, <1>f DEF IInv, NothingGone
  <2>7. AskedFor'
    BY <2>1, <2>2, <1>f DEF IInv, AskedFor
  <2> QED
    BY <1>t, <2>2, <2>3, <2>4, <2>5, <2>6, <2>7 DEF IInv
<1>13. ASSUME NEW c \in Runs, ModelReady(c) PROVE IInv'
  <2>1. /\ run[c].at = "model" /\ UNCHANGED <<detail, deletion, disk, gone>>
    BY <1>13 DEF ModelReady
  <2>2. ~AtWork(c) /\ Live(c) /\ run[c].kind # "insights"
    BY <2>1 DEF IInv, InsightsWork, AtWork, Live
  <2>3. CASE op = run[c].op /\ claim = c /\ op' = op + 1
             /\ workflow' = startProcessing("media")
             /\ run' = [run EXCEPT ![c].at = "listen", ![c].op = op + 1]
             /\ asked' = [asked EXCEPT !.run = c] /\ UNCHANGED <<claim, webOp>>
    <3>1. /\ \A d \in Runs \ {c} : ~AtWork(d) /\ ~(Live(d) /\ Current(d))
          /\ deletion.at \notin {"sent", "deleted"} /\ run[c].task \notin gone
      BY <2>2, <2>3, CurrentAlone DEF Current
    <3>2. /\ \A d \in Runs \ {c} : run'[d] = run[d]
          /\ run'[c].at = "listen" /\ run'[c].op = op + 1
          /\ run'[c].kind = run[c].kind /\ run'[c].task = run[c].task
      BY <1>t, <2>3 DEF TypeOK, RunStates
    <3>3. /\ op \in Nat /\ \A d \in Runs : run[d].op \in Nat /\ run[d].op <= op
      BY <1>t, RunFields DEF TypeOK, IInv, NoRunAhead
    <3>4. ASSUME NEW d \in Runs \ {c} PROVE ~AtWork(d)' /\ ~Current(d)'
      <4>1. op' = op + 1 /\ run'[d] = run[d] /\ run[d].op \in Nat /\ run[d].op <= op /\ ~AtWork(d)
        BY <2>3, <3>1, <3>2, <3>3
      <4> QED
        BY <3>3, <4>1 DEF AtWork, Current
    <3>5. AtWork(c)' /\ Current(c)' /\ claim' = c
      BY <2>3, <3>2 DEF AtWork, Current
    <3>6. NoRunAhead' /\ OneCurrent' /\ CurrentClaims'
      <4>1. op' = op + 1 /\ op \in Nat
        BY <2>3, <3>3
      <4>2. NoRunAhead'
        BY <4>1, <3>2, <3>3 DEF NoRunAhead
      <4> QED
        BY <4>2, <3>4, <3>5 DEF OneCurrent, CurrentClaims
    <3>7. InsightsWork'
      BY <3>2, <3>5 DEF IInv, InsightsWork, Live, AtWork
    <3>8. workflow'.task = None /\ workflow'.stage \in Working
      BY <1>t, <2>3, WorkflowShows
    <3>9. WorkIsShown'
      BY <3>4, <3>5, <3>8 DEF WorkIsShown, isProcessingStage
    <3>10. QuietDeletion' /\ DeletionOfTask' /\ NoNewestDetail'
      BY <2>1, <3>1 DEF IInv, QuietDeletion, DeletionOfTask, NoNewestDetail
    <3>11. NothingGone'
      BY <1>n, <2>1, <3>1, <3>2, <3>4, <3>8 DEF IInv, NothingGone
    <3>12. AskedFor'
      <4>1. asked'.run = c /\ asked'.task = asked.task
        BY <1>t, <2>3 DEF TypeOK
      <4> QED
        BY <2>1, <3>4, <4>1 DEF IInv, AskedFor
    <3> QED
      BY <1>t, <3>6, <3>7, <3>9, <3>10, <3>11, <3>12 DEF IInv
  <2>4. CASE Ends(c) /\ UNCHANGED <<op, workflow, asked>>
    <3>1. /\ \A d \in Runs \ {c} : run'[d] = run[d]
          /\ ~Live(c)' /\ ~AtWork(c)'
          /\ \A d \in Runs : Live(d)' /\ Current(d)' => d # c /\ Live(d) /\ Current(d)
          /\ NoRunAhead' /\ OneCurrent' /\ CurrentClaims' /\ InsightsWork'
      BY <2>4, RunOver DEF Ends
    <3>2. WorkIsShown'
      BY <2>4, <3>1 DEF IInv, WorkIsShown, AtWork, Current, isProcessingStage
    <3>3. QuietDeletion' /\ DeletionOfTask' /\ NoNewestDetail'
      BY <2>1, <2>4, <3>1 DEF IInv, QuietDeletion, DeletionOfTask, NoNewestDetail
    <3>4. NothingGone' /\ AskedFor'
      BY <2>1, <2>4, <3>1 DEF IInv, NothingGone, AskedFor
    <3> QED
      BY <1>t, <3>1, <3>2, <3>3, <3>4 DEF IInv
  <2> QED
    BY <1>13, <2>3, <2>4 DEF ModelReady
<1>14. ASSUME NEW c \in Runs, Listening(c) PROVE IInv'
  <2>1. /\ AtWork(c) /\ UNCHANGED <<workflow, claim, op, detail, deletion, disk, gone, asked>>
        /\ run[c].at = "listen"
    BY <1>14 DEF Listening, AtWork
  <2>2. /\ \A d \in Runs \ {c} : run'[d] = run[d]
        /\ run'[c].op = run[c].op /\ run'[c].kind = run[c].kind /\ run'[c].task = run[c].task
        /\ AtWork(c)'
    <3>1. \E r \in Results, at \in {"lane", "record", "answer"} :
             \/ run' = [run EXCEPT ![c].at = at]
             \/ run' = [run EXCEPT ![c].at = at, ![c].result = r]
      BY <1>14 DEF Listening, Invoked, At
    <3> QED
      BY <1>t, <3>1 DEF AtWork, TypeOK, RunStates
  <2>3. Live(c) /\ Current(c) /\ isProcessingStage
    BY <2>1, WorkIsCurrent
  <2>4. /\ \A d \in Runs : Live(d)' /\ Current(d)' => d = c
        /\ NoRunAhead' /\ OneCurrent' /\ CurrentClaims' /\ InsightsWork' /\ WorkIsShown'
    <3>1. workflow'.stage \in Working \cup {"cancelling"}
      BY <2>1, <2>3 DEF isProcessingStage
    <3> QED
      BY <2>1, <2>2, <3>1, RunWorksOn
  <2>5. /\ deletion.at \notin {"sent", "deleted"} /\ run[c].task \notin gone /\ asked.run = c
    BY <2>1, <2>3, CurrentAlone
  <2>6. QuietDeletion' /\ DeletionOfTask' /\ NoNewestDetail'
    BY <2>1, <2>5 DEF IInv, QuietDeletion, DeletionOfTask, NoNewestDetail
  <2>7. NothingGone' /\ AskedFor'
    BY <2>1, <2>2, <2>4, <2>5 DEF IInv, NothingGone, AskedFor
  <2> QED
    BY <1>t, <2>4, <2>6, <2>7 DEF IInv
<1>15. ASSUME NEW c \in Runs, WorkerEnds(c) PROVE IInv'
  <2>1. /\ AtWork(c) /\ UNCHANGED <<workflow, claim, op, detail, deletion, gone, asked>>
        /\ run[c].at = "lane"
    BY <1>15 DEF WorkerEnds, AtWork
  <2>2. Live(c) /\ Current(c) /\ isProcessingStage
    BY <2>1, WorkIsCurrent
  <2>3. /\ deletion.at \notin {"sent", "deleted"} /\ run[c].task \notin gone /\ asked.run = c
    BY <2>1, <2>2, CurrentAlone
  <2>4. /\ \A d \in Runs \ {c} : run'[d] = run[d]
        /\ run'[c].op = run[c].op /\ run'[c].kind = run[c].kind
        /\ AtWork(c)'
        /\ \/ run'[c].task = run[c].task /\ disk' = disk
           \/ run'[c].task \notin gone /\ disk' = disk \cup {run'[c].task}
    <3>1. \/ \E r \in Results : /\ run' = [run EXCEPT ![c].at = "answer", ![c].result = r]
                                /\ disk' = disk
          \/ \E t \in Tasks, r \in Results :
               /\ t \in disk \/ t \notin gone
               /\ run' = [run EXCEPT ![c].at = "answer", ![c].result = r, ![c].task = t]
               /\ disk' = disk \cup {t}
      BY <1>15 DEF WorkerEnds
    <3>2. CASE \E r \in Results : /\ run' = [run EXCEPT ![c].at = "answer", ![c].result = r]
                                  /\ disk' = disk
      BY <1>t, <3>2 DEF AtWork, TypeOK, RunStates
    <3>3. ASSUME NEW t \in Tasks, NEW r \in Results, t \in disk \/ t \notin gone,
                 run' = [run EXCEPT ![c].at = "answer", ![c].result = r, ![c].task = t],
                 disk' = disk \cup {t}
          PROVE  <2>4!1 /\ run'[c].op = run[c].op /\ run'[c].kind = run[c].kind /\ AtWork(c)'
                 /\ run'[c].task \notin gone /\ disk' = disk \cup {run'[c].task}
      <4>1. t \notin gone
        BY <3>3 DEF IInv, NothingGone
      <4> QED
        BY <1>t, <3>3, <4>1 DEF AtWork, TypeOK, RunStates
    <3> QED
      BY <3>1, <3>2, <3>3
  <2>5. /\ \A d \in Runs : Live(d)' /\ Current(d)' => d = c
        /\ NoRunAhead' /\ OneCurrent' /\ CurrentClaims' /\ InsightsWork' /\ WorkIsShown'
    <3>1. workflow'.stage \in Working \cup {"cancelling"}
      BY <2>1, <2>2 DEF isProcessingStage
    <3> QED
      BY <2>1, <2>4, <3>1, RunWorksOn
  <2>6. QuietDeletion' /\ DeletionOfTask' /\ NoNewestDetail'
    BY <2>1, <2>3 DEF IInv, QuietDeletion, DeletionOfTask, NoNewestDetail
  <2>7. NothingGone'
    BY <2>1, <2>4, <2>5, <2>3 DEF IInv, NothingGone
  <2>8. AskedFor'
    BY <2>1, <2>5, <2>3 DEF IInv, AskedFor
  <2> QED
    BY <1>t, <2>5, <2>6, <2>7, <2>8 DEF IInv
<1>16. ASSUME NEW c \in Runs, CancelledAnswer(c) PROVE IInv'
  <2>1. /\ AtWork(c) /\ UNCHANGED <<detail, deletion, disk, gone, asked>>
    BY <1>16 DEF CancelledAnswer, AtWork
  <2>2. Live(c) /\ Current(c)
    BY <2>1, WorkIsCurrent
  <2>3. /\ \A d \in Runs \ {c} : ~AtWork(d) /\ ~(Live(d) /\ Current(d))
        /\ deletion.at \notin {"sent", "deleted"} /\ run[c].task \notin gone
    BY <2>2, CurrentAlone
  <2>4. /\ run' = [run EXCEPT ![c].at = "over"] /\ (op' = op \/ op' = op + 1)
        /\ claim' = claim \/ (claim = c /\ claim' = 0)
    BY <1>16, <2>2 DEF CancelledAnswer, Ends, At
  <2>5. workflow'.task \notin gone
    BY <1>16, <1>t, <1>n, <2>2, WorkflowShows DEF CancelledAnswer, IInv, NothingGone
  <2>6. /\ \A d \in Runs \ {c} : run'[d] = run[d]
        /\ ~Live(c)' /\ ~AtWork(c)'
        /\ \A d \in Runs : Live(d)' /\ Current(d)' => d # c /\ Live(d) /\ Current(d)
        /\ NoRunAhead' /\ OneCurrent' /\ CurrentClaims' /\ InsightsWork'
    BY <2>4, RunOver
  <2>7. WorkIsShown'
    BY <2>3, <2>6 DEF WorkIsShown, AtWork
  <2>8. QuietDeletion' /\ DeletionOfTask' /\ NoNewestDetail'
    BY <2>1, <2>3 DEF IInv, QuietDeletion, DeletionOfTask, NoNewestDetail
  <2>9. NothingGone' /\ AskedFor'
    BY <2>1, <2>3, <2>5, <2>6 DEF IInv, NothingGone, AskedFor
  <2> QED
    BY <1>t, <2>6, <2>7, <2>8, <2>9 DEF IInv
<1>17. ASSUME NEW c \in Runs, TaskAnswer(c) PROVE IInv'
  <2>1. /\ AtWork(c) /\ run[c].at = "answer" /\ run[c].kind \in {"media", "web"}
        /\ UNCHANGED <<op, detail, deletion, disk, gone, asked>>
    BY <1>17 DEF TaskAnswer, AtWork
  <2>2. Live(c) /\ Current(c)
    BY <2>1, WorkIsCurrent
  <2>3. /\ \A d \in Runs \ {c} : ~AtWork(d) /\ ~(Live(d) /\ Current(d))
        /\ deletion.at \notin {"sent", "deleted"} /\ run[c].task \notin gone
        /\ claim = c /\ asked.run = c
    BY <2>1, <2>2, CurrentAlone
  <2>4. workflow'.task \notin gone
    <3>1. run[c].task \in Tasks \cup {None}
      BY <1>t, RunFields
    <3>2. \A t \in Tasks \cup {None} :
             /\ summarizeWorkerResult(t).task = t
             /\ startNoteTitleGeneration(summarizeWorkerResult(t)).task = t
      BY <1>t, WorkflowShows, WorkflowTypes
    <3> QED
      BY <1>17, <1>n, <2>2, <2>3, <3>1, <3>2 DEF TaskAnswer
  <2>5. QuietDeletion' /\ DeletionOfTask' /\ NoNewestDetail'
    BY <2>1, <2>3 DEF IInv, QuietDeletion, DeletionOfTask, NoNewestDetail
  <2>6. CASE \E at \in {"record", "listen"} :
               /\ run' = [run EXCEPT ![c].at = at, ![c].kind = "title"] /\ claim' = claim
               /\ \E w \in Workflow : workflow' = startNoteTitleGeneration(w)
    <3>1. /\ \A d \in Runs \ {c} : run'[d] = run[d]
          /\ run'[c].op = run[c].op /\ run'[c].kind = "title" /\ run'[c].task = run[c].task
          /\ AtWork(c)'
      BY <1>t, <2>6 DEF AtWork, TypeOK, RunStates
    <3>2. workflow'.stage \in Working \cup {"cancelling"}
      BY <1>t, <2>6, WorkflowShows
    <3>3. /\ \A d \in Runs : Live(d)' /\ Current(d)' => d = c
          /\ NoRunAhead' /\ OneCurrent' /\ CurrentClaims' /\ InsightsWork' /\ WorkIsShown'
      BY <2>1, <2>6, <3>1, <3>2, RunWorksOn
    <3>4. NothingGone' /\ AskedFor'
      BY <2>1, <2>3, <2>4, <3>1, <3>3 DEF IInv, NothingGone, AskedFor
    <3> QED
      BY <1>t, <2>5, <3>3, <3>4 DEF IInv
  <2>7. CASE At(c, "info") /\ claim' = claim
    <3>1. /\ \A d \in Runs \ {c} : run'[d] = run[d]
          /\ run'[c].op = run[c].op /\ run'[c].kind = run[c].kind
          /\ run'[c].task = run[c].task /\ run'[c].at = "info"
      BY <1>t, <2>7 DEF At, TypeOK, RunStates
    <3>2. ASSUME NEW d \in Runs \ {c} PROVE ~AtWork(d)' /\ ~(Live(d)' /\ Current(d)')
      BY <2>1, <2>3, <3>1 DEF AtWork, Live, Current
    <3>3. ~AtWork(c)' /\ claim' = c
      BY <2>3, <2>7, <3>1 DEF AtWork
    <3>4. NoRunAhead' /\ OneCurrent' /\ CurrentClaims' /\ WorkIsShown'
      BY <2>1, <3>1, <3>2, <3>3 DEF IInv, NoRunAhead, OneCurrent, CurrentClaims, WorkIsShown
    <3>5. InsightsWork'
      BY <2>1, <3>1 DEF IInv, InsightsWork, Live, AtWork
    <3>6. NothingGone' /\ AskedFor'
      BY <2>1, <2>3, <2>4, <3>1, <3>2 DEF IInv, NothingGone, AskedFor
    <3> QED
      BY <1>t, <2>5, <3>4, <3>5, <3>6 DEF IInv
  <2>8. CASE Ends(c)
    <3>1. /\ \A d \in Runs \ {c} : run'[d] = run[d]
          /\ ~Live(c)' /\ ~AtWork(c)'
          /\ \A d \in Runs : Live(d)' /\ Current(d)' => d # c /\ Live(d) /\ Current(d)
          /\ NoRunAhead' /\ OneCurrent' /\ CurrentClaims' /\ InsightsWork'
      BY <2>1, <2>8, RunOver DEF Ends
    <3>2. WorkIsShown'
      BY <2>3, <3>1 DEF WorkIsShown, AtWork
    <3>3. NothingGone' /\ AskedFor'
      BY <2>1, <2>3, <2>4, <3>1 DEF IInv, NothingGone, AskedFor
    <3> QED
      BY <1>t, <2>5, <3>1, <3>2, <3>3 DEF IInv
  <2>9. \A t \in Tasks \cup {None} : summarizeWorkerResult(t) \in Workflow
    BY <1>t, WorkflowTypes
  <2>10. run[c].task \in Tasks \cup {None}
    BY <1>t, RunFields
  <2> QED
    BY <1>17, <2>2, <2>6, <2>7, <2>8, <2>9, <2>10 DEF TaskAnswer
<1>18. ASSUME NEW c \in Runs, NoteInfo(c) PROVE IInv'
  <2>1. /\ Live(c) /\ ~AtWork(c) /\ Ends(c)
        /\ UNCHANGED <<op, detail, deletion, disk, gone, asked>>
    BY <1>18 DEF NoteInfo, AtWork, Live
  <2>2. /\ \A d \in Runs \ {c} : run'[d] = run[d]
        /\ ~Live(c)' /\ ~AtWork(c)'
        /\ \A d \in Runs : Live(d)' /\ Current(d)' => d # c /\ Live(d) /\ Current(d)
        /\ NoRunAhead' /\ OneCurrent' /\ CurrentClaims' /\ InsightsWork'
    BY <2>1, RunOver DEF Ends
  <2>3. CASE Current(c)
    <3>1. /\ \A d \in Runs \ {c} : ~AtWork(d) /\ ~(Live(d) /\ Current(d))
          /\ deletion.at \notin {"sent", "deleted"} /\ run[c].task \notin gone
      BY <2>1, <2>3, CurrentAlone
    <3>2. workflow'.task \notin gone
      BY <1>18, <1>t, <2>3, <3>1, RunFields, WorkflowShows DEF NoteInfo
    <3>3. WorkIsShown'
      BY <2>2, <3>1 DEF WorkIsShown, AtWork
    <3>4. QuietDeletion' /\ DeletionOfTask' /\ NoNewestDetail'
      BY <2>1, <3>1 DEF IInv, QuietDeletion, DeletionOfTask, NoNewestDetail
    <3>5. NothingGone' /\ AskedFor'
      BY <2>1, <2>2, <3>2 DEF IInv, NothingGone, AskedFor
    <3> QED
      BY <1>t, <2>2, <3>3, <3>4, <3>5 DEF IInv
  <2>4. CASE ~Current(c)
    <3>1. workflow' = workflow
      BY <1>18, <2>4 DEF NoteInfo
    <3>2. WorkIsShown'
      BY <2>1, <2>2, <3>1 DEF IInv, WorkIsShown, AtWork, Current, isProcessingStage
    <3>3. QuietDeletion' /\ DeletionOfTask' /\ NoNewestDetail'
      BY <2>1, <2>2, <3>1 DEF IInv, QuietDeletion, DeletionOfTask, NoNewestDetail
    <3>4. NothingGone' /\ AskedFor'
      BY <2>1, <2>2, <3>1 DEF IInv, NothingGone, AskedFor
    <3> QED
      BY <1>t, <2>2, <3>2, <3>3, <3>4 DEF IInv
  <2> QED
    BY <2>3, <2>4
<1>19. ASSUME NEW c \in Runs, TitleAnswer(c) PROVE IInv'
  <2>1. /\ AtWork(c) /\ UNCHANGED <<detail, deletion, disk, gone, asked>>
    BY <1>19 DEF TitleAnswer, AtWork
  <2>2. Live(c) /\ Current(c)
    BY <2>1, WorkIsCurrent
  <2>3. /\ \A d \in Runs \ {c} : ~AtWork(d) /\ ~(Live(d) /\ Current(d))
        /\ deletion.at \notin {"sent", "deleted"} /\ run[c].task \notin gone
    BY <2>2, CurrentAlone
  <2>4. /\ run' = [run EXCEPT ![c].at = "over"] /\ (op' = op \/ op' = op + 1)
        /\ claim' = claim \/ (claim = c /\ claim' = 0)
    BY <1>19, <2>2 DEF TitleAnswer, Ends, At
  <2>5. workflow'.task \notin gone
    BY <1>19, <1>t, <2>2, WorkflowShows DEF TitleAnswer, IInv, NothingGone
  <2>6. /\ \A d \in Runs \ {c} : run'[d] = run[d]
        /\ ~Live(c)' /\ ~AtWork(c)'
        /\ \A d \in Runs : Live(d)' /\ Current(d)' => d # c /\ Live(d) /\ Current(d)
        /\ NoRunAhead' /\ OneCurrent' /\ CurrentClaims' /\ InsightsWork'
    BY <2>4, RunOver
  <2>7. WorkIsShown'
    BY <2>3, <2>6 DEF WorkIsShown, AtWork
  <2>8. QuietDeletion' /\ DeletionOfTask' /\ NoNewestDetail'
    BY <2>1, <2>3 DEF IInv, QuietDeletion, DeletionOfTask, NoNewestDetail
  <2>9. NothingGone' /\ AskedFor'
    BY <2>1, <2>3, <2>5, <2>6 DEF IInv, NothingGone, AskedFor
  <2> QED
    BY <1>t, <2>6, <2>7, <2>8, <2>9 DEF IInv
<1>20. ASSUME NEW c \in Runs, InsightsAnswer(c) PROVE IInv'
  <2>1. /\ AtWork(c) /\ UNCHANGED <<detail, deletion, disk, gone, asked>>
    BY <1>20 DEF InsightsAnswer, AtWork
  <2>2. Live(c) /\ Current(c)
    BY <2>1, WorkIsCurrent
  <2>3. /\ \A d \in Runs \ {c} : ~AtWork(d) /\ ~(Live(d) /\ Current(d))
        /\ deletion.at \notin {"sent", "deleted"} /\ run[c].task \notin gone
    BY <2>2, CurrentAlone
  <2>4. /\ run' = [run EXCEPT ![c].at = "over"] /\ (op' = op \/ op' = op + 1)
        /\ claim' = claim \/ (claim = c /\ claim' = 0)
    BY <1>20, <2>2 DEF InsightsAnswer, Ends, At
  <2>5. workflow'.task \notin gone
    BY <1>20, <1>t, <2>2, <2>3, RunFields, WorkflowShows DEF InsightsAnswer
  <2>6. /\ \A d \in Runs \ {c} : run'[d] = run[d]
        /\ ~Live(c)' /\ ~AtWork(c)'
        /\ \A d \in Runs : Live(d)' /\ Current(d)' => d # c /\ Live(d) /\ Current(d)
        /\ NoRunAhead' /\ OneCurrent' /\ CurrentClaims' /\ InsightsWork'
    BY <2>4, RunOver
  <2>7. WorkIsShown'
    BY <2>3, <2>6 DEF WorkIsShown, AtWork
  <2>8. QuietDeletion' /\ DeletionOfTask' /\ NoNewestDetail'
    BY <2>1, <2>3 DEF IInv, QuietDeletion, DeletionOfTask, NoNewestDetail
  <2>9. NothingGone' /\ AskedFor'
    BY <2>1, <2>3, <2>5, <2>6 DEF IInv, NothingGone, AskedFor
  <2> QED
    BY <1>t, <2>6, <2>7, <2>8, <2>9 DEF IInv
<1>21. ASSUME NEW c \in Runs, Progress(c) PROVE IInv'
  <2>1. /\ run' = run /\ op' = op /\ claim' = claim
        /\ workflow'.task = workflow.task /\ workflow'.stage \in Working
        /\ UNCHANGED <<detail, deletion, disk, gone, asked>>
    BY <1>21, <1>t, WorkflowShows DEF Progress, TypeOK, RunStates
  <2>2. /\ NoRunAhead' /\ OneCurrent' /\ CurrentClaims' /\ InsightsWork'
        /\ \A d \in Runs : /\ Live(d)' = Live(d) /\ AtWork(d)' = AtWork(d)
                           /\ Current(d)' = Current(d)
    BY <2>1, RunsUnchanged
  <2>3. WorkIsShown'
    BY <2>1, <2>2 DEF IInv, WorkIsShown, isProcessingStage
  <2>4. QuietDeletion'
    BY <2>1, <2>2 DEF IInv, QuietDeletion
  <2>5. DeletionOfTask' /\ NoNewestDetail'
    BY <2>1 DEF IInv, DeletionOfTask, NoNewestDetail
  <2>6. NothingGone'
    BY <2>1, <2>2 DEF IInv, NothingGone
  <2>7. AskedFor'
    BY <2>1, <2>2 DEF IInv, AskedFor
  <2> QED
    BY <1>t, <2>2, <2>3, <2>4, <2>5, <2>6, <2>7 DEF IInv
<1>22. ASSUME NEW k \in cancel, CancelArrives(k) PROVE IInv'
  <2>1. /\ run' = run /\ op' = op /\ claim' = claim
        /\ UNCHANGED <<workflow, detail, deletion, disk, gone, asked>>
    BY <1>22 DEF CancelArrives
  <2>2. /\ NoRunAhead' /\ OneCurrent' /\ CurrentClaims' /\ InsightsWork'
        /\ \A c \in Runs : /\ Live(c)' = Live(c) /\ AtWork(c)' = AtWork(c)
                           /\ Current(c)' = Current(c)
    BY <2>1, RunsUnchanged
  <2>3. WorkIsShown'
    BY <2>1, <2>2 DEF IInv, WorkIsShown, isProcessingStage
  <2>4. QuietDeletion'
    BY <2>1, <2>2 DEF IInv, QuietDeletion
  <2>5. DeletionOfTask' /\ NoNewestDetail'
    BY <2>1 DEF IInv, DeletionOfTask, NoNewestDetail
  <2>6. NothingGone'
    BY <2>1, <2>2 DEF IInv, NothingGone
  <2>7. AskedFor'
    BY <2>1, <2>2 DEF IInv, AskedFor
  <2> QED
    BY <1>t, <2>2, <2>3, <2>4, <2>5, <2>6, <2>7 DEF IInv
<1>23. ASSUME NEW k \in cancel, CancelFailed(k) PROVE IInv'
  <2>1. /\ run' = run /\ op' = op /\ claim' = claim
        /\ workflow'.task = workflow.task
        /\ workflow'.stage = workflow.stage \/ workflow'.stage \in Working
        /\ UNCHANGED <<detail, deletion, disk, gone, asked>>
    BY <1>23, <1>t, WorkflowShows DEF CancelFailed
  <2>2. /\ NoRunAhead' /\ OneCurrent' /\ CurrentClaims' /\ InsightsWork'
        /\ \A c \in Runs : /\ Live(c)' = Live(c) /\ AtWork(c)' = AtWork(c)
                           /\ Current(c)' = Current(c)
    BY <2>1, RunsUnchanged
  <2>3. WorkIsShown'
    BY <2>1, <2>2 DEF IInv, WorkIsShown, isProcessingStage
  <2>4. QuietDeletion'
    BY <2>1, <2>2 DEF IInv, QuietDeletion
  <2>5. DeletionOfTask' /\ NoNewestDetail'
    BY <2>1 DEF IInv, DeletionOfTask, NoNewestDetail
  <2>6. NothingGone'
    BY <2>1, <2>2 DEF IInv, NothingGone
  <2>7. AskedFor'
    BY <2>1, <2>2 DEF IInv, AskedFor
  <2> QED
    BY <1>t, <2>2, <2>3, <2>4, <2>5, <2>6, <2>7 DEF IInv
<1>24. ASSUME NEW d \in detail, HistoryDetail(d) PROVE IInv'
  <2>1. /\ run' = run /\ claim' = claim /\ detail' = detail \ {d}
        /\ UNCHANGED <<deletion, disk, gone, asked>>
    BY <1>24 DEF HistoryDetail
  <2>2. NoNewestDetail'
    BY <2>1 DEF IInv, NoNewestDetail
  <2>3. CASE Restores(d)
    <3>1. /\ claim = 0 /\ ~isProcessingStage /\ deletion.at = "none" /\ op' = op + 1
      BY <1>24, <2>3 DEF HistoryDetail, Restores, canNavigate
    <3>2. /\ NoRunAhead' /\ OneCurrent' /\ CurrentClaims' /\ InsightsWork' /\ WorkIsShown'
          /\ QuietDeletion' /\ \A c \in Runs : ~Current(c)'
      BY <2>1, <3>1, NobodyWorks, RunsLeft
    <3>3. workflow'.task \notin gone
      BY <1>24, <1>t, <2>3, WorkflowShows DEF HistoryDetail, Restores, IInv, NothingGone, TypeOK
    <3>4. DeletionOfTask'
      BY <2>1, <3>1 DEF DeletionOfTask
    <3>5. NothingGone' /\ AskedFor'
      BY <2>1, <3>2, <3>3 DEF IInv, NothingGone, AskedFor
    <3> QED
      BY <1>t, <2>2, <3>2, <3>4, <3>5 DEF IInv
  <2>4. CASE ~Restores(d)
    <3>1. op' = op /\ workflow' = workflow
      BY <1>24, <2>4 DEF HistoryDetail
    <3>2. /\ NoRunAhead' /\ OneCurrent' /\ CurrentClaims' /\ InsightsWork'
          /\ \A c \in Runs : /\ Live(c)' = Live(c) /\ AtWork(c)' = AtWork(c)
                             /\ Current(c)' = Current(c)
      BY <2>1, <3>1, RunsUnchanged
    <3>3. WorkIsShown' /\ QuietDeletion' /\ DeletionOfTask'
      BY <2>1, <3>1, <3>2
         DEF IInv, WorkIsShown, QuietDeletion, DeletionOfTask, isProcessingStage
    <3>4. NothingGone' /\ AskedFor'
      BY <2>1, <3>1, <3>2 DEF IInv, NothingGone, AskedFor
    <3> QED
      BY <1>t, <2>2, <3>2, <3>3, <3>4 DEF IInv
  <2> QED
    BY <2>3, <2>4
<1>25. CASE Saved
  <2>1. /\ run' = run /\ op' = op /\ claim' = claim
        /\ workflow'.task = workflow.task /\ workflow'.stage = workflow.stage
        /\ UNCHANGED <<detail, deletion, disk, gone, asked>>
    BY <1>25, <1>t, WorkflowShows DEF Saved, TypeOK
  <2>2. /\ NoRunAhead' /\ OneCurrent' /\ CurrentClaims' /\ InsightsWork'
        /\ \A c \in Runs : /\ Live(c)' = Live(c) /\ AtWork(c)' = AtWork(c)
                           /\ Current(c)' = Current(c)
    BY <2>1, RunsUnchanged
  <2>3. WorkIsShown'
    BY <2>1, <2>2 DEF IInv, WorkIsShown, isProcessingStage
  <2>4. QuietDeletion'
    BY <2>1, <2>2 DEF IInv, QuietDeletion
  <2>5. DeletionOfTask' /\ NoNewestDetail'
    BY <2>1 DEF IInv, DeletionOfTask, NoNewestDetail
  <2>6. NothingGone'
    BY <2>1, <2>2 DEF IInv, NothingGone
  <2>7. AskedFor'
    BY <2>1, <2>2 DEF IInv, AskedFor
  <2> QED
    BY <1>t, <2>2, <2>3, <2>4, <2>5, <2>6, <2>7 DEF IInv
<1>26. CASE DeletionDone
  <2>1. /\ run' = run /\ op' = op /\ claim' = claim
        /\ deletion.at = "sent"
        /\ \/ deletion'.at = "none" /\ disk' = disk
           \/ /\ deletion' = [deletion EXCEPT !.at = "deleted"]
              /\ deletion'.task = deletion.task /\ deletion'.shown = deletion.shown
              /\ disk' = disk \ {deletion.task}
        /\ UNCHANGED <<workflow, detail, gone, asked>>
    BY <1>26, <1>t DEF DeletionDone, NoDeletion, TypeOK
  <2>2. /\ NoRunAhead' /\ OneCurrent' /\ CurrentClaims' /\ InsightsWork'
        /\ \A c \in Runs : /\ Live(c)' = Live(c) /\ AtWork(c)' = AtWork(c)
                           /\ Current(c)' = Current(c)
    BY <2>1, RunsUnchanged
  <2>3. WorkIsShown'
    BY <2>1, <2>2 DEF IInv, WorkIsShown, isProcessingStage
  <2>4. QuietDeletion'
    BY <2>1, <2>2 DEF IInv, QuietDeletion
  <2>5. DeletionOfTask' /\ NoNewestDetail'
    BY <2>1 DEF IInv, DeletionOfTask, NoNewestDetail
  <2>6. NothingGone'
    BY <2>1, <2>2 DEF IInv, NothingGone
  <2>7. AskedFor'
    BY <2>1, <2>2 DEF IInv, AskedFor
  <2> QED
    BY <1>t, <2>2, <2>3, <2>4, <2>5, <2>6, <2>7 DEF IInv
<1>27. CASE DeletionAnswered
  <2>1. /\ deletion.at = "deleted" /\ deletion'.at = "none" /\ gone' = gone \cup {deletion.task}
        /\ UNCHANGED <<run, detail, disk, asked>> /\ deletion.task \notin disk
    BY <1>27 DEF DeletionAnswered, NoDeletion, IInv, DeletionOfTask
  <2>2. \A c \in Runs : ~(Live(c) /\ Current(c)) /\ ~AtWork(c)
    <3>1. \A c \in Runs : ~(Live(c) /\ Current(c))
      BY <2>1 DEF IInv, QuietDeletion
    <3> QED
      BY <3>1, WorkIsCurrent
  <2>3. QuietDeletion' /\ DeletionOfTask' /\ NoNewestDetail'
    BY <2>1 DEF QuietDeletion, DeletionOfTask, NoNewestDetail
  <2>4. \A d \in detail : ~d.newest
    BY <2>1 DEF IInv, NoNewestDetail
  <2>5. CASE deletion.shown
    <3>1. op' = op + 1 /\ workflow'.task = None
      BY <1>27, <1>t, <2>5, WorkflowShows DEF DeletionAnswered, Reset
    <3>2. /\ NoRunAhead' /\ OneCurrent' /\ CurrentClaims' /\ InsightsWork' /\ WorkIsShown'
          /\ \A c \in Runs : ~Current(c)'
      BY <2>1, <2>2, <3>1, RunsLeft
    <3>3. NothingGone' /\ AskedFor'
      BY <1>n, <2>1, <2>4, <3>1, <3>2 DEF IInv, NothingGone, AskedFor
    <3> QED
      BY <1>t, <2>3, <3>2, <3>3 DEF IInv
  <2>6. CASE ~deletion.shown
    <3>1. op' = op /\ workflow' = workflow /\ claim' = claim
      BY <1>27, <2>6 DEF DeletionAnswered
    <3>2. workflow.task # deletion.task
      BY <2>1, <2>6 DEF IInv, DeletionOfTask
    <3>3. /\ NoRunAhead' /\ OneCurrent' /\ CurrentClaims' /\ InsightsWork'
          /\ \A c \in Runs : /\ Live(c)' = Live(c) /\ AtWork(c)' = AtWork(c)
                             /\ Current(c)' = Current(c)
      BY <2>1, <3>1, RunsUnchanged
    <3>4. WorkIsShown'
      BY <2>2, <3>3 DEF WorkIsShown
    <3>5. NothingGone' /\ AskedFor'
      BY <2>1, <2>2, <2>4, <3>1, <3>2, <3>3 DEF IInv, NothingGone, AskedFor
    <3> QED
      BY <1>t, <2>3, <3>3, <3>4, <3>5 DEF IInv
  <2> QED
    BY <2>5, <2>6
<1>28. CASE UNCHANGED vars
  <2>1. IInv' = IInv
    BY <1>28 DEF vars, IInv, Typed, TypeOK, NoRunAhead, OneCurrent, CurrentClaims, InsightsWork,
       WorkIsShown, QuietDeletion, DeletionOfTask, NothingGone, NoNewestDetail, AskedFor,
       Live, AtWork, Current, isProcessingStage
  <2> QED
    BY <2>1
<1> QED
  BY <1>1, <1>2, <1>3, <1>4, <1>5, <1>6, <1>7, <1>8, <1>9, <1>10, <1>11, <1>12, <1>13,
     <1>14, <1>15, <1>16, <1>17, <1>18, <1>19, <1>20, <1>21, <1>22, <1>23, <1>24,
     <1>25, <1>26, <1>27, <1>28
     DEF Next, User, Goes, Answers

\* The inductive invariant: who holds the run that is shown, what its calls carry, and
\* what the callbacks that still wait may yet write (useTaskProcessingController.ts).
THEOREM Invariant == Spec => []IInv
  BY InitIInv, StepIInv, PTL DEF Spec


-----------------------------------------------------------------------------
(* What follows.                                                            *)

\* A run that works for the workspace is always the current one and shown as work: an
\* answer of a worker is never late, and what guards against late answers in
\* useTaskProcessingController.ts protects only what runs before and after the worker.
THEOREM WorkShown == Spec => []WorkIsShown
<1>1. IInv => WorkIsShown
  BY DEF IInv
<1> QED
  BY <1>1, Invariant, PTL

\* A deleted task is not shown again, by a late answer of the history or by a run that
\* had reused it (completeHistoryTaskDeletion with restoreHistoryItem and submitTask).
THEOREM DeletedStaysHidden == Spec => []DeletedNotShown
<1>1. IInv => DeletedNotShown
  BY DEF IInv, NothingGone, DeletedNotShown
<1> QED
  BY <1>1, Invariant, PTL

\* The workflow's operators keep the text with its task.
LEMMA WorkflowTexts ==
  ASSUME TypeOK, OneTaskShown
  PROVE  /\ createInitialWorkflow.text = None
         /\ \A kind \in Kinds :
              /\ startProcessing(kind).text = None
              /\ mergeProgressEvent(kind).text \in {None, mergeProgressEvent(kind).task}
         /\ startInsightRetry.text \in {None, startInsightRetry.task}
         /\ \A w \in Workflow : startNoteTitleGeneration(w).text = w.text
         /\ requestProcessingCancellation.text \in {None, requestProcessingCancellation.task}
         /\ restoreProcessingAfterCancellationFailure.text
              \in {None, restoreProcessingAfterCancellationFailure.task}
         /\ confirmProcessingCancellation.text \in {None, confirmProcessingCancellation.task}
         /\ \A t \in Tasks \cup {None} :
              /\ summarizeWorkerResult(t).text = t /\ finishInsightRetry(t).text = t
              /\ applyTranscriptSave(t).text \in {None, applyTranscriptSave(t).task}
         /\ finishNoteTitleGeneration.text \in {None, finishNoteTitleGeneration.task}
<1> USE DEF TypeOK, OneTaskShown, Workflow
<1>1. createInitialWorkflow.text = None
  BY DEF createInitialWorkflow
<1>2. ASSUME NEW kind \in Kinds
      PROVE  /\ startProcessing(kind).text = None
             /\ mergeProgressEvent(kind).text \in {None, mergeProgressEvent(kind).task}
  BY DEF startProcessing, mergeProgressEvent, createInitialWorkflow
<1>3. startInsightRetry.text \in {None, startInsightRetry.task}
  BY DEF startInsightRetry
<1>4. ASSUME NEW w \in Workflow PROVE startNoteTitleGeneration(w).text = w.text
  BY DEF startNoteTitleGeneration
<1>5. requestProcessingCancellation.text \in {None, requestProcessingCancellation.task}
  BY DEF requestProcessingCancellation
<1>6. restoreProcessingAfterCancellationFailure.text
        \in {None, restoreProcessingAfterCancellationFailure.task}
  BY DEF restoreProcessingAfterCancellationFailure
<1>7. confirmProcessingCancellation.text \in {None, confirmProcessingCancellation.task}
  BY DEF confirmProcessingCancellation, cancelNoteTitleGeneration, createInitialWorkflow
<1>8. ASSUME NEW t \in Tasks \cup {None}
      PROVE  /\ summarizeWorkerResult(t).text = t /\ finishInsightRetry(t).text = t
             /\ applyTranscriptSave(t).text \in {None, applyTranscriptSave(t).task}
  BY DEF summarizeWorkerResult, finishInsightRetry, applyTranscriptSave, createInitialWorkflow
<1>9. finishNoteTitleGeneration.text \in {None, finishNoteTitleGeneration.task}
  BY DEF finishNoteTitleGeneration
<1> QED
  BY <1>1, <1>2, <1>3, <1>4, <1>5, <1>6, <1>7, <1>8, <1>9

\* The text shown is that of the task shown, whatever late save, result or restored
\* task arrives while another task has taken its place (workflowState.ts).
THEOREM TextOfTaskShown == Spec => []OneTaskShown
<1>1. Init => OneTaskShown
  BY DEF Init, createInitialWorkflow, OneTaskShown
<1>2. Typed /\ OneTaskShown /\ [Next]_vars => OneTaskShown'
  <2> SUFFICES ASSUME Typed, OneTaskShown, [Next]_vars PROVE OneTaskShown'
    OBVIOUS
  <2> USE Literals
  <2>t. TypeOK
    BY DEF Typed
  <2>s. \A t \in Tasks \cup {None} :
          /\ summarizeWorkerResult(t).text = t /\ summarizeWorkerResult(t).task = t
          /\ finishInsightRetry(t).text = t /\ finishInsightRetry(t).task = t
          /\ startNoteTitleGeneration(summarizeWorkerResult(t)).text = t
          /\ startNoteTitleGeneration(summarizeWorkerResult(t)).task = t
    BY <2>t, WorkflowTexts, WorkflowShows, WorkflowTypes
  <2>1. CASE workflow' = workflow
    BY <2>1 DEF OneTaskShown
  <2>2. CASE workflow' = createInitialWorkflow \/ \E kind \in Kinds : workflow' = startProcessing(kind)
    BY <2>t, <2>2, WorkflowTexts DEF OneTaskShown
  <2>3. CASE \E kind \in Kinds : workflow' = mergeProgressEvent(kind)
    BY <2>t, <2>3, WorkflowTexts DEF OneTaskShown
  <2>4. CASE \/ workflow' = startInsightRetry \/ workflow' = requestProcessingCancellation
             \/ workflow' = restoreProcessingAfterCancellationFailure
             \/ workflow' = confirmProcessingCancellation
             \/ workflow' = finishNoteTitleGeneration
    BY <2>t, <2>4, WorkflowTexts DEF OneTaskShown
  <2>5. CASE workflow' = startNoteTitleGeneration(workflow)
    BY <2>t, <2>5, WorkflowTexts, WorkflowShows DEF OneTaskShown, TypeOK
  <2>6. CASE \E t \in Tasks \cup {None} : \/ workflow' = summarizeWorkerResult(t)
                                          \/ workflow' = finishInsightRetry(t)
                                          \/ workflow' = startNoteTitleGeneration(summarizeWorkerResult(t))
    BY <2>s, <2>6 DEF OneTaskShown
  <2>7. CASE \E t \in Tasks : workflow' = applyTranscriptSave(t)
    BY <2>t, <2>7, WorkflowTexts DEF OneTaskShown
  <2>8. \A c \in Runs : run[c].task \in Tasks \cup {None} /\ run[c].kind \in Kinds
    BY <2>t, RunFields
  <2>9. CASE User
    BY <2>1, <2>2, <2>4, <2>5, <2>9
       DEF User, SubmitMedia, SubmitWeb, RetryTitle, RetryInsights, StartNewTask, Reset, Cancel,
           CancelSent, SignedOut, Save, OpenHistoryItem, RequestDeletion, CancelDeletion,
           ConfirmDeletion
  <2>10. ASSUME NEW c \in Runs, Goes(c) PROVE OneTaskShown'
    <3>1. CASE ModelReady(c) \/ Listening(c) \/ WorkerEnds(c)
      BY <3>1, <2>1, <2>2 DEF ModelReady, Listening, WorkerEnds
    <3>2. CASE CancelledAnswer(c) \/ TitleAnswer(c)
      BY <3>2, <2>1, <2>4 DEF CancelledAnswer, TitleAnswer, Late
    <3>3. CASE NoteInfo(c) \/ InsightsAnswer(c)
      BY <3>3, <2>1, <2>6, <2>8 DEF NoteInfo, InsightsAnswer, Late
    <3>4. CASE TaskAnswer(c)
      BY <3>4, <2>1, <2>6, <2>8 DEF TaskAnswer, Late
    <3> QED
      BY <2>10, <3>1, <3>2, <3>3, <3>4 DEF Goes
  <2>11. CASE Answers
    <3>1. ASSUME NEW c \in Runs, Progress(c) PROVE OneTaskShown'
      <4>1. lane.run \in Runs
        BY <3>1, <2>t DEF Progress, TypeOK
      <4> QED
        BY <3>1, <4>1, <2>3, <2>8 DEF Progress
    <3>2. ASSUME NEW k \in cancel, CancelArrives(k) \/ CancelFailed(k) PROVE OneTaskShown'
      BY <3>2, <2>1, <2>4 DEF CancelArrives, CancelFailed
    <3>3. ASSUME NEW d \in detail, HistoryDetail(d) PROVE OneTaskShown'
      <4>1. d.task \in Tasks
        BY <2>t DEF TypeOK
      <4> QED
        BY <3>3, <4>1, <2>1, <2>6 DEF HistoryDetail
    <3>4. CASE Saved
      BY <3>4, <2>t, <2>7 DEF Saved, TypeOK
    <3>5. CASE DeletionDone \/ DeletionAnswered
      BY <3>5, <2>1, <2>2 DEF DeletionDone, DeletionAnswered, Reset
    <3> QED
      BY <2>11, <3>1, <3>2, <3>3, <3>4, <3>5 DEF Answers
  <2>12. CASE UNCHANGED vars
    BY <2>1, <2>12 DEF vars
  <2> QED
    BY <2>9, <2>10, <2>11, <2>12 DEF Next
<1>3. Typed => TypeOK
  BY DEF Typed
<1> QED
  BY <1>1, <1>2, InitTypes, StepTypes, PTL DEF Spec

\* A step that shows another task shows what was asked for last.
LEMMA StepShows ==
  ASSUME IInv, [Next]_vars, workflow'.task # workflow.task, workflow'.task # None
  PROVE  \/ workflow'.task = asked.task
         \/ asked.run # 0 /\ workflow'.task = run[asked.run].task
<1> USE Literals
<1>t. TypeOK
  BY DEF IInv, Typed
<1>s. \A t \in Tasks \cup {None} :
        /\ summarizeWorkerResult(t).task = t /\ finishInsightRetry(t).task = t
        /\ startNoteTitleGeneration(summarizeWorkerResult(t)).task = t
  BY <1>t, WorkflowShows, WorkflowTypes
<1>r. \A c \in Runs : /\ run[c].task \in Tasks \cup {None} /\ run[c].kind \in Kinds
                      /\ c # 0
  BY <1>t, RunFields DEF Runs
<1>1. CASE User
  <2>1. workflow'.task \in {None, workflow.task}
    BY <1>1, <1>t, WorkflowShows
       DEF User, SubmitMedia, SubmitWeb, RetryTitle, RetryInsights, StartNewTask, Reset, Cancel,
           CancelSent, SignedOut, Save, OpenHistoryItem, RequestDeletion, CancelDeletion,
           ConfirmDeletion, TypeOK
  <2> QED
    BY <2>1
<1>2. ASSUME NEW c \in Runs, Goes(c) PROVE asked.run = c /\ workflow'.task = run[c].task
  <2>1. CASE ModelReady(c) \/ Listening(c) \/ WorkerEnds(c)
    BY <2>1, <1>t, WorkflowShows DEF ModelReady, Listening, WorkerEnds
  <2>2. CASE CancelledAnswer(c) \/ TitleAnswer(c)
    BY <2>2, <1>t, WorkflowShows DEF CancelledAnswer, TitleAnswer, Late
  <2>3. CASE NoteInfo(c) \/ InsightsAnswer(c) \/ TaskAnswer(c)
    <3>1. Live(c) /\ Current(c) /\ run[c].at # "model"
      BY <2>3 DEF NoteInfo, InsightsAnswer, TaskAnswer, Late, Live
    <3>2. asked.run = c
      BY <3>1, CurrentAlone
    <3>3. workflow'.task \in {None, run[c].task}
      BY <2>3, <3>1, <1>s, <1>r DEF NoteInfo, InsightsAnswer, TaskAnswer
    <3> QED
      BY <3>2, <3>3
  <2> QED
    BY <1>2, <2>1, <2>2, <2>3 DEF Goes
<1>3. CASE Answers
  <2>1. ASSUME NEW d \in detail, HistoryDetail(d) PROVE workflow'.task = asked.task
    <3>1. d.newest /\ workflow' = summarizeWorkerResult(d.task) /\ d.task \in Tasks
      BY <2>1, <1>t DEF HistoryDetail, Restores, TypeOK
    <3> QED
      BY <3>1, <1>s DEF IInv, AskedFor
  <2>2. ASSUME NEW c \in Runs, Progress(c) PROVE FALSE
    <3>1. lane.run \in Runs
      BY <2>2, <1>t DEF Progress, TypeOK
    <3> QED
      BY <2>2, <3>1, <1>t, <1>r, WorkflowShows DEF Progress
  <2>3. ASSUME NEW k \in cancel, CancelArrives(k) \/ CancelFailed(k) PROVE FALSE
    BY <2>3, <1>t, WorkflowShows DEF CancelArrives, CancelFailed
  <2>4. CASE Saved \/ DeletionDone \/ DeletionAnswered
    BY <2>4, <1>t, WorkflowShows DEF Saved, DeletionDone, DeletionAnswered, Reset, TypeOK
  <2> QED
    BY <1>3, <2>1, <2>2, <2>3, <2>4 DEF Answers
<1>4. CASE UNCHANGED vars
  BY <1>4 DEF vars
<1> QED
  BY <1>r, <1>1, <1>2, <1>3, <1>4 DEF Next

\* Another task appears in the workspace only because it was asked for last: by the
\* newest run, or by the newest item opened in the history since the workspace was
\* cleared (operationIdRef and detailRequestIdRef).
THEOREM ShownAsAsked == Spec => OnlyAskedShown
<1>1. IInv /\ [Next]_vars
        => [(workflow'.task # workflow.task /\ workflow'.task # None) =>
              \/ workflow'.task = asked.task
              \/ asked.run # 0 /\ workflow'.task = run[asked.run].task]_vars
  BY StepShows
<1> QED
  BY <1>1, Invariant, PTL DEF Spec, OnlyAskedShown
=============================================================================

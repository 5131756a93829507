---------------------------- MODULE TaskWorkspace ----------------------------
(***************************************************************************)
(* The task workspace of the desktop window                                *)
(* (app/src/features/workflow/useTaskProcessingController.ts with          *)
(* workflowState.ts, workerClient.ts, webPageClient.ts), the history it    *)
(* restores tasks from (useHistoryController.ts) and what App.tsx joins    *)
(* them by.                                                                *)
(*                                                                         *)
(* JavaScript runs one handler at a time: an action is a handler, or the   *)
(* part of an async function between two awaits, and React has rendered    *)
(* before the next one.  Calls of the desktop process are asynchronous; it *)
(* runs one worker at a time (WorkerLane) and deletes a task as a whole    *)
(* (HistoryDeletion).                                                      *)
(***************************************************************************)
EXTENDS Integers, FiniteSets

CONSTANTS
  Tasks,        \* the tasks on disk and those that runs may add
  Kept,         \* those on disk at first
  None,
  MaxCalls,     \* bound on the runs a behaviour starts
  MaxOps,       \* bound on operationIdRef for what a user starts
  CancelFails   \* whether the answer to a cancellation may be "failed"

\* A null task is none of the tasks; some of these are on disk at first.
ASSUME ConstantsAssumption ==
  /\ None \notin Tasks /\ Kept \subseteq Tasks
  /\ MaxCalls \in Nat /\ MaxOps \in Nat

VARIABLES
  workflow,     \* WorkflowState, as far as it steers
  claim,        \* submissionClaimRef: the run that holds it, 0 for none
  op,           \* operationIdRef
  cancelOp,     \* cancellationOperationIdRef, 0 for null
  webOp,        \* webOperationRef and webAbortRef: a web run, 0 for null
  run,          \* the async functions that run a worker, in the order of their calls
  lane,         \* the desktop's worker: the run it works for, whether it was signalled
  cancel,       \* cancellations on their way to the desktop process or back
  detail,       \* answers of getHistoryDetail on their way; those of the request that
                \* detailRequestIdRef counts are newest
  deletion,     \* the task deletion under way
  saving,       \* the task whose transcript or draft is being saved
  disk,         \* the tasks on disk
  gone,         \* history: the tasks whose deletion was reported
  asked         \* history: the run and the task of the history last asked for

vars == <<workflow, claim, op, cancelOp, webOp, run, lane, cancel, detail,
          deletion, saving, disk, gone, asked>>

Runs == 1..MaxCalls
Kinds == {"media", "web", "title", "insights"}
Started == {c \in Runs : run[c].at # "new"}

\* The stages that a worker reports, by what it works on.
Working == {"extracting", "web_loading", "title_generating", "insights_generating"}
StageOf == [media |-> "extracting", web |-> "web_loading",
            title |-> "title_generating", insights |-> "insights_generating"]
Stages == {"waiting_input", "cancelling", "result", "failed"} \cup Working

Workflow == [stage : Stages, from : Working \cup {None}, task : Tasks \cup {None},
             text : Tasks \cup {None}, ai : BOOLEAN]

Results == {"fresh", "kept", "done", "failed", "cancelled"}
RunStates == [kind : Kinds,
              at : {"new", "model", "listen", "lane", "answer", "info", "record",
                    "late", "over"},
              op : Nat, task : Tasks \cup {None}, result : Results]

NoDeletion == [at |-> "none", task |-> None, shown |-> FALSE]

TypeOK ==
  /\ workflow \in Workflow
  /\ claim \in {0} \cup Runs /\ op \in Nat /\ cancelOp \in Nat /\ webOp \in {0} \cup Runs
  /\ run \in [Runs -> RunStates]
  /\ lane \in [run : {0} \cup Runs, signalled : BOOLEAN]
  /\ cancel \subseteq [op : Nat, web : {0} \cup Runs,
                       status : {"sent", "failed"}]
  /\ detail \subseteq [task : Tasks, newest : BOOLEAN]
  /\ deletion \in [at : {"none", "confirm", "sent", "deleted"},
                   task : Tasks \cup {None}, shown : BOOLEAN]
  /\ saving \in Tasks \cup {None}
  /\ disk \subseteq Tasks /\ gone \subseteq Tasks
  /\ asked \in [run : {0} \cup Runs, task : Tasks \cup {None}]

createInitialWorkflow ==
  [stage |-> "waiting_input", from |-> None, task |-> None, text |-> None, ai |-> FALSE]

Init ==
  /\ workflow = createInitialWorkflow
  /\ claim = 0 /\ op = 0 /\ cancelOp = 0 /\ webOp = 0
  /\ run = [c \in Runs |-> [kind |-> "media", at |-> "new", op |-> 0, task |-> None,
                            result |-> "failed"]]
  /\ lane = [run |-> 0, signalled |-> FALSE]
  /\ cancel = {}
  /\ detail = {}
  /\ deletion = NoDeletion
  /\ saving = None
  /\ disk = Kept /\ gone = {}
  /\ asked = [run |-> 0, task |-> None]

-----------------------------------------------------------------------------
(* workflowState.ts                                                        *)

isProcessingStage == workflow.stage \in Working \cup {"cancelling"}

startProcessing(kind) == [createInitialWorkflow EXCEPT !.stage = StageOf[kind]]

startInsightRetry ==
  [workflow EXCEPT !.stage = "insights_generating", !.from = None, !.ai = TRUE]

startNoteTitleGeneration(w) ==
  [w EXCEPT !.stage = "title_generating", !.from = None, !.ai = FALSE]

requestProcessingCancellation ==
  IF workflow.stage \in Working
  THEN [workflow EXCEPT !.stage = "cancelling", !.from = workflow.stage] ELSE workflow

\* Fault: there is no stage to fall back to.
restoreProcessingToNone == [workflow EXCEPT !.stage = workflow.from, !.from = None]

restoreProcessingAfterCancellationFailure ==
  [workflow EXCEPT !.stage = IF workflow.from = None THEN "extracting" ELSE workflow.from,
                   !.from = None]

cancelNoteTitleGeneration == [workflow EXCEPT !.stage = "result", !.from = None]

confirmProcessingCancellation ==
  IF "title_generating" \in {workflow.from, workflow.stage} /\ workflow.task # None
  THEN cancelNoteTitleGeneration
  ELSE IF workflow.from = "insights_generating" /\ workflow.ai /\ workflow.task # None
  THEN [workflow EXCEPT !.stage = "result", !.from = None, !.ai = FALSE]
  ELSE createInitialWorkflow

\* The workflow of a finished task, or of a run that failed without one.
summarizeWorkerResult(t) ==
  [createInitialWorkflow EXCEPT !.stage = IF t = None THEN "failed" ELSE "result",
                                !.task = t, !.text = t]

\* What a retry does not return is kept as the task shown has it.
finishInsightRetry(t) == [summarizeWorkerResult(t) EXCEPT !.stage = "result"]

finishNoteTitleGeneration == [workflow EXCEPT !.stage = "result", !.from = None]

mergeProgressEvent(kind) == [workflow EXCEPT !.stage = StageOf[kind]]

-----------------------------------------------------------------------------
(* What a user may do and when (App.tsx).                                  *)

\* canNavigateShell and the sheets that block the shell.
canNavigate ==
  claim = 0 /\ ~isProcessingStage /\ deletion.at = "none" /\ saving = None

\* The next run starts; runs are numbered in the order of their start.
Begins(c, kind, at, id, t) ==
  /\ run[c].at = "new" /\ \A d \in 1..(c - 1) : run[d].at # "new"
  /\ run' = [run EXCEPT ![c] = [kind |-> kind, at |-> at, op |-> id, task |-> t,
                               result |-> "failed"]]

\* submitTask, to its first await.  A web page needs no speech model.
SubmitMedia(c) ==
  /\ canNavigate /\ op < MaxOps
  /\ Begins(c, "media", "model", op, None)
  /\ claim' = c
  /\ UNCHANGED <<workflow, op, cancelOp, webOp, lane, cancel, detail,
                 deletion, saving, disk, gone, asked>>

SubmitWeb(c) ==
  /\ canNavigate /\ op < MaxOps
  /\ Begins(c, "web", "listen", op + 1, None)
  /\ claim' = c /\ webOp' = c
  /\ op' = op + 1
  /\ workflow' = startProcessing("web")
  /\ asked' = [asked EXCEPT !.run = c]
  /\ UNCHANGED <<cancelOp, lane, cancel, detail, deletion, saving, disk, gone>>

\* Fault: the claim of a run that has ended stays.
EndsClaimed(c) == webOp' = 0 /\ run' = [run EXCEPT ![c].at = "over"] /\ UNCHANGED claim

\* The finally of submitTask, and of retryNoteTitle, which finds webOp 0 already.
Ends(c) ==
  /\ claim' = IF claim = c THEN 0 ELSE claim
  /\ webOp' = 0
  /\ run' = [run EXCEPT ![c].at = "over"]

\* ensureAsrModelReady resolves.
ModelReady(c) ==
  /\ run[c].at = "model"
  /\ \/ /\ op = run[c].op /\ claim = c
        /\ op' = op + 1
        /\ workflow' = startProcessing("media")
        /\ run' = [run EXCEPT ![c].at = "listen", ![c].op = op + 1]
        /\ asked' = [asked EXCEPT !.run = c]
        /\ UNCHANGED <<claim, webOp>>
     \/ Ends(c) /\ UNCHANGED <<op, workflow, asked>>
  /\ UNCHANGED <<cancelOp, lane, cancel, detail, deletion, saving, disk, gone>>

\* retryNoteTitle, to its first await.
RetryTitle(c) ==
  /\ claim = 0 /\ ~isProcessingStage /\ workflow.task # None /\ deletion.at = "none"
  /\ op < MaxOps
  /\ Begins(c, "title", "listen", op + 1, workflow.task)
  /\ claim' = c
  /\ op' = op + 1 /\ cancelOp' = 0
  /\ workflow' = startNoteTitleGeneration(workflow)
  /\ asked' = [asked EXCEPT !.run = c]
  /\ UNCHANGED <<webOp, lane, cancel, detail, deletion, saving, disk, gone>>

\* retryInsightGeneration, to its first await; it takes no claim.
RetryInsights(c) ==
  /\ claim = 0 /\ ~isProcessingStage /\ workflow.text # None /\ deletion.at = "none"
  /\ op < MaxOps
  /\ Begins(c, "insights", "listen", op + 1, workflow.task)
  /\ op' = op + 1
  /\ workflow' = startInsightRetry
  /\ asked' = [asked EXCEPT !.run = c]
  /\ UNCHANGED <<claim, cancelOp, webOp, lane, cancel, detail, deletion,
                 saving, disk, gone>>

\* resetWorkflow.
Reset ==
  /\ claim' = 0
  /\ op' = op + 1 /\ cancelOp' = 0
  /\ workflow' = createInitialWorkflow

\* Fault: the answers still to come count.
ForgetDetailsNever == detail

\* detailRequestIdRef is counted up: answers still to come are forgotten.
ForgetDetails == {[d EXCEPT !.newest = FALSE] : d \in detail}

\* startNewTaskFromToolbar with handleNewTaskFromToolbar, which closes the history.
StartNewTask ==
  /\ canNavigate /\ workflow.task # None /\ op < MaxOps
  /\ Reset
  /\ detail' = ForgetDetails
  /\ asked' = [run |-> 0, task |-> None]
  /\ UNCHANGED <<webOp, run, lane, cancel, deletion, saving, disk, gone>>

-----------------------------------------------------------------------------
(* A run between its awaits (workerClient.ts, webPageClient.ts).           *)

\* The run whose operation is the workspace's own.
Current(c) == run[c].op = op

\* shouldStart.
ShouldStart(c) == Current(c) /\ cancelOp # op /\ (run[c].kind = "web" => claim = c)

At(c, place) == run' = [run EXCEPT ![c].at = place]

\* The worker is invoked: it gets the lane, or the answer is that it is busy.
Invoked(c) ==
  IF lane.run = 0
  THEN lane' = [run |-> c, signalled |-> FALSE] /\ At(c, "lane")
  ELSE run' = [run EXCEPT ![c].at = "answer", ![c].result = "failed"] /\ UNCHANGED lane

\* The progress listener is registered.  Titles and web pages ask whether they
\* should still start; a title that should not is recorded as cancelled.
Listening(c) ==
  /\ run[c].at = "listen"
  /\ \/ /\ run[c].kind \in {"title", "web"} => ShouldStart(c)
        /\ Invoked(c)
     \/ /\ run[c].kind = "title" /\ ~ShouldStart(c)
        /\ At(c, "record")
        /\ UNCHANGED lane
     \/ /\ run[c].kind = "web" /\ ~ShouldStart(c)
        /\ run' = [run EXCEPT ![c].at = "answer", ![c].result = "cancelled"]
        /\ UNCHANGED lane
  /\ UNCHANGED <<workflow, claim, op, cancelOp, webOp, cancel, detail,
                 deletion, saving, disk, gone, asked>>

\* A progress event reaches every listener; that of the own operation takes it.
Progress(c) ==
  /\ run[c].at \in {"lane", "answer"} /\ Current(c) /\ lane.run # 0
  /\ workflow' = mergeProgressEvent(run[lane.run].kind)
  /\ UNCHANGED <<claim, op, cancelOp, webOp, run, lane, cancel, detail,
                 deletion, saving, disk, gone, asked>>

\* The worker ends.  A new task is on disk then; a known address reuses a task.
\* A signalled worker is cancelled, or has finished all the same.
WorkerEnds(c) ==
  /\ run[c].at = "lane"
  /\ lane' = [run |-> 0, signalled |-> FALSE]
  /\ \/ \E r \in {"done", "failed", "cancelled"} :
          /\ r = "cancelled" => lane.signalled
          /\ r = "done" => run[c].task # None
          /\ run' = [run EXCEPT ![c].at = "answer", ![c].result = r]
          /\ UNCHANGED disk
     \/ \E t \in Tasks, r \in {"fresh", "kept"} :
          /\ run[c].task = None
          /\ IF r = "kept" THEN t \in disk ELSE t \notin disk \cup gone
          /\ run' = [run EXCEPT ![c].at = "answer", ![c].result = r, ![c].task = t]
          /\ disk' = disk \cup {t}
  /\ UNCHANGED <<workflow, claim, op, cancelOp, webOp, cancel, detail,
                 deletion, saving, gone, asked>>

-----------------------------------------------------------------------------
(* A run's answer.                                                         *)

\* Another operation has begun: what the run returns is dropped, but the title of
\* a new task, which nobody asks for now, is recorded as cancelled on disk.
Late(c) ==
  /\ IF run[c].kind = "media" /\ run[c].result = "fresh"
     THEN At(c, "late") /\ UNCHANGED <<claim, webOp>>
     ELSE IF run[c].kind = "insights" THEN At(c, "over") /\ UNCHANGED <<claim, webOp>>
     ELSE Ends(c)
  /\ UNCHANGED <<workflow, cancelOp>>

\* Confirmed: the worker was cancelled, or the web page was.
CancelledAnswer(c) ==
  /\ run[c].at = "answer" /\ run[c].result = "cancelled" /\ run[c].kind # "title"
  /\ IF ~Current(c) THEN Late(c) /\ UNCHANGED op
     ELSE /\ op' = op + 1
          /\ cancelOp' = IF run[c].kind = "insights" THEN 0 ELSE cancelOp
          /\ workflow' = confirmProcessingCancellation
          /\ IF run[c].kind = "insights" THEN At(c, "over") /\ UNCHANGED <<claim, webOp>>
             ELSE Ends(c)
  /\ UNCHANGED <<lane, cancel, detail, deletion, saving, disk, gone, asked>>

\* A submitted task is shown.  Then the metadata of a reused task is read, or a
\* title is made for a new one, or recorded as cancelled if the run was.
TaskAnswer(c) ==
  /\ run[c].at = "answer" /\ run[c].kind \in {"media", "web"}
  /\ run[c].result # "cancelled"
  /\ LET shown == summarizeWorkerResult(IF run[c].result = "failed" THEN None
                                        ELSE run[c].task)
         titled == run[c].kind = "media" /\ run[c].result = "fresh"
     IN IF ~Current(c) THEN Late(c)
        ELSE /\ workflow' = IF titled THEN startNoteTitleGeneration(shown) ELSE shown
             /\ \/ /\ titled
                   /\ run' = [run EXCEPT ![c].at = IF cancelOp = op THEN "record" ELSE "listen",
                                        ![c].kind = "title"]
                   /\ UNCHANGED <<claim, webOp, cancelOp>>
                \/ /\ run[c].result = "kept"
                   /\ At(c, "info")
                   /\ UNCHANGED <<claim, webOp, cancelOp>>
                \/ ~titled /\ run[c].result # "kept" /\ Ends(c) /\ cancelOp' = 0
  /\ UNCHANGED <<op, lane, cancel, detail, deletion, saving, disk, gone, asked>>

\* getNoteInfo, or the record of a late run's title, resolves or fails.
NoteInfo(c) ==
  /\ run[c].at \in {"info", "late"}
  /\ Ends(c)
  /\ cancelOp' = IF Current(c) THEN 0 ELSE cancelOp
  /\ workflow' = IF Current(c) THEN summarizeWorkerResult(run[c].task) ELSE workflow
  /\ UNCHANGED <<op, lane, cancel, detail, deletion, saving, disk, gone, asked>>

\* The title's result, or its recorded cancellation.
TitleAnswer(c) ==
  /\ run[c].kind = "title" /\ run[c].at \in {"answer", "record"}
  /\ IF ~Current(c) THEN Late(c)
     ELSE Ends(c) /\ cancelOp' = 0 /\ workflow' = finishNoteTitleGeneration
  /\ UNCHANGED <<op, lane, cancel, detail, deletion, saving, disk, gone, asked>>

\* The retry's result.
InsightsAnswer(c) ==
  /\ run[c].kind = "insights" /\ run[c].at = "answer"
  /\ run[c].result \in {"done", "failed"}
  /\ IF ~Current(c) THEN Late(c)
     ELSE /\ At(c, "over") /\ UNCHANGED <<claim, webOp>>
          /\ cancelOp' = 0 /\ workflow' = finishInsightRetry(run[c].task)
  /\ UNCHANGED <<op, lane, cancel, detail, deletion, saving, disk, gone, asked>>

-----------------------------------------------------------------------------
(* Cancellation and signing out.                                           *)

\* cancelCurrentProcessing, to its await: once for an operation.
CancelSent ==
  IF cancelOp = op THEN UNCHANGED <<workflow, cancelOp, cancel>>
  ELSE /\ cancelOp' = op
       /\ workflow' = requestProcessingCancellation
       /\ cancel' = cancel \cup {[op |-> op, web |-> webOp, status |-> "sent"]}

Cancel ==
  /\ isProcessingStage
  /\ CancelSent
  /\ UNCHANGED <<claim, op, webOp, run, lane, detail, deletion, saving, disk,
                 gone, asked>>

\* cancel_process signals whatever worker runs, cancel_web_page that of the page.
\* Only a failure is an answer that the workspace minds.
CancelArrives(k) ==
  /\ k.status = "sent"
  /\ \/ /\ cancel' = cancel \ {k}
        /\ lane' = [lane EXCEPT !.signalled =
                      @ \/ (lane.run # 0 /\ (k.web # 0 => lane.run = k.web))]
     \/ /\ CancelFails
        /\ cancel' = (cancel \ {k}) \cup {[k EXCEPT !.status = "failed"]}
        /\ UNCHANGED lane
  /\ UNCHANGED <<workflow, claim, op, cancelOp, webOp, run, detail, deletion, saving, disk,
                 gone, asked>>

\* The failure of a cancellation resumes its operation.
CancelFailed(k) ==
  /\ k.status = "failed"
  /\ cancel' = cancel \ {k}
  /\ IF k.op = op
     THEN cancelOp' = 0 /\ workflow' = restoreProcessingAfterCancellationFailure
     ELSE UNCHANGED <<cancelOp, workflow>>
  /\ UNCHANGED <<claim, op, webOp, run, lane, detail, deletion, saving, disk, gone, asked>>

\* onSignedOut: the history is closed; a task being processed is only cancelled.
SignedOut ==
  /\ op < MaxOps
  /\ detail' = ForgetDetails
  /\ IF isProcessingStage
     THEN /\ CancelSent
          /\ asked' = [asked EXCEPT !.task = None]
          /\ UNCHANGED <<claim, op>>
     ELSE Reset /\ UNCHANGED cancel /\ asked' = [run |-> 0, task |-> None]
  /\ UNCHANGED <<webOp, run, lane, deletion, saving, disk, gone>>

-----------------------------------------------------------------------------
(* Saves and the history.                                                  *)

\* A transcript or a draft is saved: saveTranscriptEdit, saveDraft.
Save ==
  /\ canNavigate /\ workflow.text # None
  /\ saving' = workflow.task
  /\ UNCHANGED <<workflow, claim, op, cancelOp, webOp, run, lane, cancel,
                 detail, deletion, disk, gone, asked>>

\* Fault: the task is not compared.
applyTranscriptSaveUnchecked(t) == [workflow EXCEPT !.text = t]

\* applyTranscriptSave, applyDraftSave.
applyTranscriptSave(t) ==
  IF workflow.task = t THEN [workflow EXCEPT !.text = t] ELSE workflow

Saved ==
  /\ saving # None
  /\ workflow' = applyTranscriptSave(saving)
  /\ saving' = None
  /\ UNCHANGED <<claim, op, cancelOp, webOp, run, lane, cancel, detail,
                 deletion, disk, gone, asked>>

\* openHistoryItem, to its await: the newest request counts.
OpenHistoryItem(t) ==
  /\ canNavigate /\ t \in disk /\ op < MaxOps /\ Cardinality(detail) < 2
  /\ detail' = ForgetDetails \cup {[task |-> t, newest |-> TRUE]}
  /\ asked' = [asked EXCEPT !.task = t]
  /\ UNCHANGED <<workflow, claim, op, cancelOp, webOp, run, lane, cancel, deletion,
                 saving, disk, gone>>

\* Fault: any answer is as good as the newest.
RestoresAny(d) == canNavigate

\* The answer counts, and handleHistoryItemSelected may restore the task.
Restores(d) == d.newest /\ canNavigate

\* restoreHistoryItem.
HistoryDetail(d) ==
  /\ detail' = detail \ {d}
  /\ IF Restores(d)
     THEN /\ op' = op + 1 /\ cancelOp' = 0
          /\ workflow' = summarizeWorkerResult(d.task)
     ELSE UNCHANGED <<op, cancelOp, workflow>>
  /\ UNCHANGED <<claim, webOp, run, lane, cancel, deletion, saving, disk, gone,
                 asked>>

\* requestHistoryItemDeletion: answers still to come are forgotten.
RequestDeletion(t) ==
  /\ canNavigate /\ t \in disk
  /\ deletion' = [at |-> "confirm", task |-> t, shown |-> FALSE]
  /\ detail' = ForgetDetails
  /\ asked' = [asked EXCEPT !.task = None]
  /\ UNCHANGED <<workflow, claim, op, cancelOp, webOp, run, lane, cancel, saving,
                 disk, gone>>

CancelDeletion ==
  /\ deletion.at = "confirm"
  /\ deletion' = NoDeletion
  /\ UNCHANGED <<workflow, claim, op, cancelOp, webOp, run, lane, cancel,
                 detail, saving, disk, gone, asked>>

\* confirmHistoryItemDeletion, to its await.  What it does with the answer was
\* rendered before: the workflow it compares is the one of now.
ConfirmDeletion ==
  /\ deletion.at = "confirm" /\ claim = 0 /\ ~isProcessingStage /\ saving = None
  /\ deletion' = [deletion EXCEPT !.at = "sent", !.shown = workflow.task = deletion.task]
  /\ detail' = ForgetDetails
  /\ UNCHANGED <<workflow, claim, op, cancelOp, webOp, run, lane, cancel, saving,
                 disk, gone, asked>>

\* delete_history_task: the task is deleted or stays as it is.
DeletionDone ==
  /\ deletion.at = "sent" /\ lane.run = 0
  /\ deletion' \in {[deletion EXCEPT !.at = "deleted"], NoDeletion}
  /\ disk' = IF deletion'.at = "deleted" THEN disk \ {deletion.task} ELSE disk
  /\ UNCHANGED <<workflow, claim, op, cancelOp, webOp, run, lane, cancel,
                 detail, saving, gone, asked>>

\* completeHistoryTaskDeletion: a workspace that shows the task is reset.
DeletionAnswered ==
  /\ deletion.at = "deleted"
  /\ deletion' = NoDeletion
  /\ gone' = gone \cup {deletion.task}
  /\ IF deletion.shown THEN Reset ELSE UNCHANGED <<claim, op, cancelOp, workflow>>
  /\ UNCHANGED <<webOp, run, lane, cancel, detail, saving, disk, asked>>

-----------------------------------------------------------------------------
User ==
  \/ \E c \in Runs : SubmitMedia(c) \/ SubmitWeb(c) \/ RetryTitle(c) \/ RetryInsights(c)
  \/ StartNewTask \/ Cancel \/ SignedOut \/ Save
  \/ \E t \in Tasks : OpenHistoryItem(t) \/ RequestDeletion(t)
  \/ CancelDeletion \/ ConfirmDeletion

\* A run goes on, whatever the user does.
Goes(c) ==
  \/ ModelReady(c) \/ Listening(c) \/ WorkerEnds(c)
  \/ CancelledAnswer(c) \/ TaskAnswer(c) \/ NoteInfo(c)
  \/ TitleAnswer(c) \/ InsightsAnswer(c)

Answers ==
  \/ \E c \in Runs : Progress(c)
  \/ \E k \in cancel : CancelArrives(k) \/ CancelFailed(k)
  \/ \E d \in detail : HistoryDetail(d)
  \/ Saved \/ DeletionDone \/ DeletionAnswered

Next == User \/ (\E c \in Runs : Goes(c)) \/ Answers

Spec == Init /\ [][Next]_vars

\* A promise settles and a worker ends at some time; users do as they like.
Fairness == \A c \in Runs : WF_vars(Goes(c))

FairSpec == Spec /\ Fairness

-----------------------------------------------------------------------------
(* Properties.                                                             *)

\* The text shown is that of the task shown, whatever late save, result or
\* restored task arrives while another one has taken its place.
OneTaskShown == workflow.text \in {None, workflow.task}

\* A deleted task is never shown again, neither by a late answer of the history
\* nor by a run that had reused it.
DeletedNotShown == workflow.task \notin gone

\* Another task appears only because it was asked for last: by the newest run,
\* or by the newest item opened in the history since the workspace was cleared.
OnlyAskedShown ==
  [][(workflow'.task # workflow.task /\ workflow'.task # None) =>
        \/ workflow'.task = asked.task
        \/ asked.run # 0 /\ workflow'.task = run[asked.run].task]_vars

\* A submission ends and lets the next one be made.
SubmissionEnds == \A c \in Runs : claim = c ~> claim # c

\* A processing stage is shown only while a run is under way that will end it.
ProcessingHasRun ==
  isProcessingStage => \E c \in Runs : run[c].at \notin {"new", "over"} /\ Current(c)
==============================================================================

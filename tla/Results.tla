------------------------------- MODULE Results -------------------------------
(***************************************************************************)
(* What the agents make of a note and how it is shown and made again: the  *)
(* insights, one of which is the seed of the draft, the draft, which can   *)
(* be edited, and the dissection of the text.  The summary, which nothing  *)
(* depends on, is left out, and whether the account may run.  A list of    *)
(* insights is its number, a seed that of the list it was picked from.     *)
(***************************************************************************)
EXTENDS Integers, Sequences

CONSTANTS
  None,
  Notes,
  MaxDeeds,  \* bound on the runs and the edits
  MaxWire    \* bound on the commands in flight

VARIABLES
  folders,  \* what a note has on disk, None when it is deleted
  board,    \* the note of the workspace (WorkflowState)
  stint,    \* the run of the agents
  editor,   \* the sheet of the draft
  asked,    \* the other sheets and what they ask
  post,     \* the commands that read and write a draft
  leaving,  \* the note that is being deleted
  deeds,    \* how many runs and edits there were
  astray    \* a list of insights came under the sheet of the draft, or a run was
            \* cancelled when it had been stored

vars == <<folders, board, stint, editor, asked, post, leaving, deeds, astray>>

Targets == {"insights", "draft", "dissection"}
Lists == 0..MaxDeeds + 1
Drafts == [of : Notes, seed : Lists, typed : 0..MaxDeeds]

Folders == [body : Lists, list : Lists, draft : Drafts \cup {None},
            seed : Lists \cup {None}, dissection : Lists \cup {None}]

TypeOK ==
  /\ folders \in [Notes -> Folders \cup {None}]
  /\ board \in [task : Notes \cup {None}, body : Lists, list : Lists, seed : Lists \cup {None},
                hasDraft : BOOLEAN, draft : Drafts \cup {None}, edited : BOOLEAN,
                dissection : Lists \cup {None}, stale : BOOLEAN,
                target : Targets \cup {None}, cancelling : BOOLEAN, errors : SUBSET Targets,
                found : 0..MaxDeeds]
  /\ stint = None \/ stint \in [of : Notes, target : Targets, seed : Lists \cup {None},
                                result : Folders \cup {None}, warned : BOOLEAN]
  /\ editor \in [open : BOOLEAN, loading : BOOLEAN, ready : BOOLEAN, early : BOOLEAN,
                 saving : BOOLEAN, dirty : BOOLEAN, buffer : Drafts \cup {None},
                 saved : Drafts \cup {None}, seed : Lists \cup {None}, discard : BOOLEAN]
  /\ asked \in [candidate : [seed : Lists \cup {None}] \cup {None}, confirm : BOOLEAN, warned : BOOLEAN,
                preview : BOOLEAN, tab : {"insights", "dissection", None}]
  /\ \A i \in DOMAIN post :
       post[i] \in [kind : {"load", "save"}, of : Notes, buffer : Drafts \cup {None}, live : BOOLEAN]
  /\ leaving \in Notes \cup {None} /\ deeds \in 0..MaxDeeds /\ astray \in BOOLEAN

\* Which edit of the user's a note has stored in its draft, 0 when there is none.
StoredEdit(n) ==
  IF n \in Notes /\ folders[n] # None /\ folders[n].draft # None THEN folders[n].draft.typed ELSE 0

\* The draft of a note of an earlier day, or none.  What was found is for the properties
\* alone: the edit that was stored already when the workspace forgot of edits.
createInitialWorkflow ==
  [task |-> None, body |-> 0, list |-> 0, seed |-> None, hasDraft |-> FALSE, draft |-> None,
   edited |-> FALSE, dissection |-> None, stale |-> FALSE, target |-> None,
   cancelling |-> FALSE, errors |-> {}, found |-> 0]

ClosedEditor ==
  [open |-> FALSE, loading |-> FALSE, ready |-> FALSE, early |-> FALSE, saving |-> FALSE,
   dirty |-> FALSE, buffer |-> None, saved |-> None, seed |-> None, discard |-> FALSE]

NothingAsked ==
  [candidate |-> None, confirm |-> FALSE, warned |-> FALSE, preview |-> FALSE, tab |-> None]

Init ==
  /\ \E drafted \in BOOLEAN :
       folders = [n \in Notes |->
         [body |-> 0, list |-> 1, dissection |-> None, seed |-> IF drafted THEN 1 ELSE None,
          draft |-> IF drafted THEN [of |-> n, seed |-> 1, typed |-> 0] ELSE None]]
  /\ board = createInitialWorkflow /\ stint = None /\ editor = ClosedEditor
  /\ asked = NothingAsked /\ post = <<>> /\ leaving = None /\ deeds = 0 /\ astray = FALSE

-----------------------------------------------------------------------------
(* The workspace: which note is in it, and which actions its cards offer. *)

isProcessingStage == board.target # None

canNavigateWorkflow == ~isProcessingStage /\ ~editor.open /\ ~editor.saving /\ leaving = None

\* A sheet covers what lies under it.
Uncovered ==
  /\ ~editor.open /\ ~asked.confirm /\ ~asked.preview /\ asked.tab = None

historyItemToWorkerResult(n) ==
  LET f == folders[n] IN
  [createInitialWorkflow EXCEPT !.task = n, !.body = f.body, !.list = f.list,
     !.hasDraft = f.draft # None, !.dissection = f.dissection,
     !.stale = f.dissection # None /\ f.dissection # f.body, !.found = StoredEdit(n)]

\* Whatever is asked about a dissection or shown in detail is taken back.
resetTaskUi == asked' = [asked EXCEPT !.tab = None, !.preview = FALSE, !.candidate = None]

restoreHistoryItem(n) ==
  /\ canNavigateWorkflow /\ Uncovered /\ folders[n] # None /\ n # board.task
  /\ board' = historyItemToWorkerResult(n) /\ resetTaskUi
  /\ UNCHANGED <<folders, stint, editor, post, leaving, deeds, astray>>

startNewTaskFromToolbar ==
  /\ canNavigateWorkflow /\ Uncovered /\ board.task # None
  /\ board' = createInitialWorkflow /\ resetTaskUi
  /\ UNCHANGED <<folders, stint, editor, post, leaving, deeds, astray>>

confirmHistoryDeletion ==
  /\ canNavigateWorkflow /\ Uncovered /\ board.task # None
  /\ leaving' = board.task
  /\ UNCHANGED <<folders, board, stint, editor, asked, post, deeds, astray>>

\* A run that has begun keeps its note in the workspace.
completeHistoryTaskDeletion ==
  /\ leaving # None /\ leaving' = None
  /\ \/ /\ folders' = [folders EXCEPT ![leaving] = None]
        /\ IF isProcessingStage \/ board.task # leaving
           THEN UNCHANGED <<board, asked, editor, post>>
           ELSE /\ board' = createInitialWorkflow /\ resetTaskUi
                /\ editor' = [editor EXCEPT !.ready = FALSE, !.discard = FALSE]
                /\ post' = [i \in DOMAIN post |-> [post[i] EXCEPT !.live = FALSE]]
     \/ UNCHANGED <<folders, board, asked, editor, post>>
  /\ UNCHANGED <<stint, deeds, astray>>

\* The text is not edited while a run goes on.  A dissection of another text is stale.
applyTranscriptSave ==
  /\ board.task # None /\ ~isProcessingStage /\ Uncovered /\ folders[board.task] # None
  /\ leaving = None /\ deeds < MaxDeeds /\ deeds' = deeds + 1
  /\ folders' = [folders EXCEPT ![board.task].body = deeds + 1]
  /\ board' = [board EXCEPT !.body = deeds + 1, !.stale = @ \/ board.dissection # None]
  /\ UNCHANGED <<stint, editor, asked, post, leaving, astray>>

aiTargetStatus(target) ==
  CASE board.task = None -> "locked"
    [] board.target = target -> IF board.cancelling THEN "cancelling" ELSE "generating"
    [] target \in board.errors /\ board.target # target -> "failed"
    [] OTHER ->
         CASE target = "insights" /\ board.list # 0 -> "ready"
           [] target = "draft" /\ board.hasDraft -> "ready"
           [] target = "dissection" /\ board.dissection # None -> "ready"
           [] target = "draft" /\ (board.list = 0 \/ board.seed = None) -> "locked"
           [] OTHER -> "available"

AiTargetCardActs(target) ==
  Uncovered /\ ~isProcessingStage /\ aiTargetStatus(target) \in {"available", "failed"}

\* A dissection stays viewable whatever became of the next one.
AiTargetCardViews(target) ==
  /\ Uncovered
  /\ aiTargetStatus(target) = "ready" \/ (target = "dissection" /\ board.dissection # None)

openDetailTab(target) ==
  /\ target # "draft" /\ AiTargetCardViews(target)
  /\ asked' = [asked EXCEPT !.tab = target]
  /\ UNCHANGED <<folders, board, stint, editor, post, leaving, deeds, astray>>

openDraftConfirmation ==
  /\ AiTargetCardActs("draft")
  /\ asked' = [asked EXCEPT !.confirm = TRUE, !.warned = FALSE]
  /\ UNCHANGED <<folders, board, stint, editor, post, leaving, deeds, astray>>

-----------------------------------------------------------------------------
(* AiResultDetailSheet.tsx: the insights with their seed, and the dissection. *)

setDraftSeedInsightId(seed) ==
  /\ asked.tab = "insights" /\ board.seed # seed
  /\ board' = [board EXCEPT !.seed = seed]
  /\ UNCHANGED <<folders, stint, editor, asked, post, leaving, deeds, astray>>

closeDetail ==
  /\ asked' = [asked EXCEPT !.tab = None]
  /\ UNCHANGED <<folders, board, stint, editor, post, leaving, deeds, astray>>

\* The place in the text is only shown for the text that was dissected.
locateDissectionChunks ==
  asked.tab = "dissection" /\ board.dissection # None /\ ~board.stale /\ closeDetail

openDissectionConfirmation ==
  /\ asked.tab = "dissection" \/ AiTargetCardActs("dissection")
  /\ ~asked.preview /\ asked' = [asked EXCEPT !.preview = TRUE]
  /\ UNCHANGED <<folders, board, stint, editor, post, leaving, deeds, astray>>

closeDissectionConfirmation ==
  /\ asked' = [asked EXCEPT !.preview = FALSE]
  /\ UNCHANGED <<folders, board, stint, editor, post, leaving, deeds, astray>>

AiResultDetailSheet ==
  \/ /\ asked.tab # None /\ ~asked.preview
     /\ \/ closeDetail \/ locateDissectionChunks \/ openDissectionConfirmation
        \/ board.list # 0 /\ \E seed \in {board.list, None} : setDraftSeedInsightId(seed)
  \/ asked.preview /\ closeDissectionConfirmation

-----------------------------------------------------------------------------
(* The run: retryInsightGeneration and the worker's insight_retry.py. *)

\* The account, a quota or a claim may refuse the run, and then nothing happens.
retryInsightGeneration(target, seed, sheets) ==
  /\ \/ /\ ~isProcessingStage /\ board.task # None
        /\ deeds < MaxDeeds /\ deeds' = deeds + 1
        /\ board' = [board EXCEPT !.target = target, !.errors = @ \ {target}]
        /\ stint' = [of |-> board.task, target |-> target, seed |-> seed, result |-> None,
                     warned |-> target = "draft" /\ (asked.warned \/ target \in board.errors)]
        /\ asked' = [sheets EXCEPT !.tab = None]
     \/ UNCHANGED <<board, stint, deeds>> /\ asked' = sheets
  /\ UNCHANGED <<folders, editor, post, leaving, astray>>

confirmDissection ==
  asked.preview /\ retryInsightGeneration("dissection", None, [asked EXCEPT !.preview = FALSE])

\* The preferences are stored first: the run may begin under another sheet.
confirmInsightPreferences == retryInsightGeneration("insights", None, asked)

\* Without a seed nothing runs.
confirmDraftGeneration ==
  /\ asked.confirm /\ ~isProcessingStage
  /\ LET closed == [asked EXCEPT !.confirm = FALSE, !.warned = FALSE] IN
     IF board.seed = None
     THEN asked' = closed /\ UNCHANGED <<folders, board, stint, editor, post, leaving, deeds, astray>>
     ELSE retryInsightGeneration("draft", board.seed, closed)

cancelDraftConfirmation ==
  /\ asked.confirm
  /\ asked' = [asked EXCEPT !.confirm = FALSE, !.warned = FALSE]
  /\ UNCHANGED <<folders, board, stint, editor, post, leaving, deeds, astray>>

\* A seed that is not of the list is refused, unless its number is of another insight;
\* a draft that fails leaves its seed behind all the same.
WorkerCommits ==
  /\ stint # None /\ stint.result = None /\ folders[stint.of] # None
  /\ LET f == folders[stint.of]
         result == CASE stint.target = "insights" -> [f EXCEPT !.list = @ + 1, !.seed = None]
                     [] stint.target = "draft" ->
                          [f EXCEPT !.seed = stint.seed,
                             !.draft = [of |-> stint.of, seed |-> stint.seed, typed |-> 0]]
                     [] OTHER -> [f EXCEPT !.dissection = f.body]
     IN /\ folders' = [folders EXCEPT ![stint.of] = result]
        /\ stint' = [stint EXCEPT !.result = result]
  /\ UNCHANGED <<board, editor, asked, post, leaving, deeds, astray>>

Ended == [board EXCEPT !.target = None, !.cancelling = FALSE]

\* What the note has on disk comes with the result, the text of a draft that another
\* run made excepted.
finishInsightRetry ==
  LET f == stint.result IN
  /\ stint # None /\ f # None
  /\ board' = [Ended EXCEPT !.list = f.list, !.hasDraft = f.draft # None,
        !.draft = IF stint.target = "draft" THEN f.draft ELSE None,
        !.seed = IF stint.target = "insights" THEN None ELSE @,
        !.edited = @ /\ stint.target # "draft", !.dissection = f.dissection,
        !.stale = @ /\ stint.target # "dissection"]
  /\ astray' = (astray \/ (editor.open /\ f.list # board.list))
  /\ stint' = None
  /\ UNCHANGED <<folders, editor, asked, post, leaving, deeds>>

\* The failure is one of the agents, which the card shows, or another one, after which
\* the workspace takes the draft for one that was not edited.
RunFails ==
  /\ stint # None /\ stint.result = None
  /\ \E shown \in IF stint.target = "insights" THEN {TRUE} ELSE BOOLEAN :
       board' = [Ended EXCEPT !.errors = IF shown THEN @ \cup {stint.target} ELSE @ \ {stint.target},
            !.seed = IF stint.target = "insights" THEN None ELSE @,
            !.edited = @ /\ (stint.target # "draft" \/ shown),
            !.found = IF stint.target = "draft" /\ ~shown THEN StoredEdit(stint.of) ELSE @]
  /\ folders' = IF stint.target = "draft" /\ folders[stint.of] # None
                THEN [folders EXCEPT ![stint.of].seed = stint.seed] ELSE folders
  /\ stint' = None
  /\ UNCHANGED <<editor, asked, post, leaving, deeds, astray>>

requestProcessingCancellation ==
  /\ Uncovered /\ isProcessingStage /\ ~board.cancelling
  /\ board' = [board EXCEPT !.cancelling = TRUE]
  /\ UNCHANGED <<folders, stint, editor, asked, post, leaving, deeds, astray>>

restoreProcessingAfterCancellationFailure ==
  /\ board.cancelling /\ board' = [board EXCEPT !.cancelling = FALSE]
  /\ UNCHANGED <<folders, stint, editor, asked, post, leaving, deeds, astray>>

\* The worker may have committed before it was stopped.
confirmProcessingCancellation ==
  /\ board.cancelling /\ stint' = None
  /\ board' = Ended /\ resetTaskUi
  /\ astray' = (astray \/ stint.result # None)
  /\ UNCHANGED <<folders, editor, post, leaving, deeds>>

-----------------------------------------------------------------------------
(* DraftResultSheet.tsx and draft_detail.rs: the draft is read when the sheet *)
(* opens, and edited there.                                                   *)

openDraftResult ==
  /\ AiTargetCardViews("draft") /\ Len(post) < MaxWire
  /\ editor' = [editor EXCEPT !.open = TRUE, !.loading = TRUE, !.ready = FALSE, !.dirty = FALSE,
                  !.early = FALSE, !.buffer = board.draft, !.saved = board.draft, !.seed = None]
  /\ post' = Append(post, [kind |-> "load", of |-> board.task, buffer |-> None, live |-> TRUE])
  /\ UNCHANGED <<folders, board, stint, asked, leaving, deeds, astray>>

\* A note that is deleted or about to be is neither read nor written.
guard_pending_task(n) == folders[n] # None /\ leaving # n

load_draft_detail ==
  LET c == Head(post) IN
  /\ post # <<>> /\ c.kind = "load" /\ post' = Tail(post)
  /\ \/ ~c.live /\ UNCHANGED editor
     \/ /\ c.live /\ guard_pending_task(c.of)
        /\ LET f == folders[c.of] IN
           editor' = [editor EXCEPT !.buffer = f.draft, !.saved = f.draft, !.seed = f.seed,
                        !.loading = FALSE, !.ready = TRUE]
     \/ /\ c.live
        /\ editor' = [editor EXCEPT !.buffer = board.draft, !.loading = FALSE, !.ready = TRUE,
                        !.early = TRUE]
  /\ UNCHANGED <<folders, board, stint, asked, leaving, deeds, astray>>

\* The box takes what is typed while the draft is still read, too.
handleBufferChange ==
  /\ editor.open /\ ~editor.saving /\ deeds < MaxDeeds /\ editor.buffer # None
  /\ deeds' = deeds + 1
  /\ editor' = [editor EXCEPT !.dirty = TRUE, !.buffer.typed = deeds + 1,
                  !.early = @ \/ editor.loading]
  /\ UNCHANGED <<folders, board, stint, asked, post, leaving, astray>>

handleSave ==
  /\ editor.open /\ editor.dirty /\ ~editor.saving /\ board.task # None /\ ~editor.discard
  /\ Len(post) < MaxWire
  /\ editor' = [editor EXCEPT !.saving = TRUE] /\ asked' = [asked EXCEPT !.candidate = None]
  /\ post' = Append(post, [kind |-> "save", of |-> board.task, buffer |-> editor.buffer, live |-> TRUE])
  /\ UNCHANGED <<folders, board, stint, leaving, deeds, astray>>

\* A draft that is not there is not written.
save_draft_edit ==
  LET c == Head(post) IN
  /\ post # <<>> /\ c.kind = "save" /\ post' = Tail(post)
  /\ \/ /\ guard_pending_task(c.of) /\ folders[c.of].draft # None /\ c.buffer # None
        /\ folders' = [folders EXCEPT ![c.of].draft = c.buffer]
        /\ IF board.task # c.of THEN UNCHANGED board /\ editor' = [editor EXCEPT !.saving = FALSE]
           ELSE /\ board' = [board EXCEPT !.draft = c.buffer, !.hasDraft = TRUE, !.edited = TRUE]
                /\ editor' = [editor EXCEPT !.saving = FALSE, !.dirty = FALSE,
                                !.saved = c.buffer]
     \/ editor' = [editor EXCEPT !.saving = FALSE] /\ UNCHANGED <<folders, board>>
  /\ UNCHANGED <<stint, asked, leaving, deeds, astray>>

\* A load that is under way is not waited for; what the sheet held is set anew when it
\* opens again.
setDraftResultClosed ==
  /\ editor' = ClosedEditor
  /\ post' = [i \in DOMAIN post |-> [post[i] EXCEPT !.live = FALSE]]

handleClose ==
  /\ editor.open /\ ~editor.saving /\ ~editor.discard /\ asked.candidate = None
  /\ IF editor.dirty THEN editor' = [editor EXCEPT !.discard = TRUE] /\ UNCHANGED post
     ELSE setDraftResultClosed
  /\ UNCHANGED <<folders, board, stint, asked, leaving, deeds, astray>>

cancelDiscard ==
  /\ editor.discard /\ editor' = [editor EXCEPT !.discard = FALSE]
  /\ UNCHANGED <<folders, board, stint, asked, post, leaving, deeds, astray>>

confirmDiscard ==
  /\ editor.discard /\ ~editor.saving
  /\ setDraftResultClosed
  /\ UNCHANGED <<folders, board, stint, asked, leaving, deeds, astray>>

\* What the preparation of a move of the data offers for a draft that is not saved.
useStorageEditor ==
  /\ editor.open /\ editor.dirty /\ ~editor.saving
  /\ editor' = [editor EXCEPT !.buffer = editor.saved, !.dirty = FALSE]
  /\ UNCHANGED <<folders, board, stint, asked, post, leaving, deeds, astray>>

-----------------------------------------------------------------------------
(* regenerateDraft.ts. *)

proceed(seed, warned) ==
  /\ setDraftResultClosed
  /\ board' = [board EXCEPT !.seed = seed]
  /\ asked' = [asked EXCEPT !.candidate = None, !.confirm = TRUE, !.warned = warned]
  /\ UNCHANGED <<folders, stint, leaving, deeds, astray>>

\* A draft that was edited is only made again after a warning.
requestRegeneration ==
  /\ editor.open /\ editor.ready /\ ~editor.loading /\ board.task # None /\ ~editor.saving
  /\ ~editor.discard /\ asked.candidate = None /\ editor.buffer # None
  /\ LET seed == IF editor.seed # None THEN editor.seed ELSE board.seed IN
     IF ~board.edited /\ ~editor.dirty THEN proceed(seed, FALSE)
     ELSE /\ asked' = [asked EXCEPT !.candidate = [seed |-> seed]]
          /\ UNCHANGED <<folders, board, stint, editor, post, leaving, deeds, astray>>

confirmRegeneration ==
  asked.candidate # None /\ editor.open /\ ~editor.saving /\ proceed(asked.candidate.seed, TRUE)

cancelRegeneration ==
  /\ asked.candidate # None /\ asked' = [asked EXCEPT !.candidate = None]
  /\ UNCHANGED <<folders, board, stint, editor, post, leaving, deeds, astray>>

Regeneration == requestRegeneration \/ confirmRegeneration \/ cancelRegeneration

Next ==
  \/ \E n \in Notes : restoreHistoryItem(n)
  \/ startNewTaskFromToolbar \/ confirmHistoryDeletion \/ completeHistoryTaskDeletion
  \/ applyTranscriptSave \/ openDraftConfirmation \/ openDraftResult
  \/ \E target \in Targets : openDetailTab(target)
  \/ openDissectionConfirmation \/ AiResultDetailSheet
  \/ confirmDissection \/ confirmInsightPreferences
  \/ confirmDraftGeneration \/ cancelDraftConfirmation
  \/ WorkerCommits \/ finishInsightRetry \/ RunFails
  \/ requestProcessingCancellation \/ restoreProcessingAfterCancellationFailure
  \/ confirmProcessingCancellation
  \/ load_draft_detail \/ handleBufferChange \/ handleSave \/ save_draft_edit
  \/ handleClose \/ cancelDiscard \/ confirmDiscard \/ useStorageEditor
  \/ Regeneration

Spec == Init /\ [][Next]_vars

-----------------------------------------------------------------------------
\* A draft with a stored edit is only replaced after the warning, or when it is the
\* retry of a draft that failed.  The exception is an edit that was stored before the
\* note was opened again, or before a run of its draft failed otherwise than in the
\* agents: the workspace has forgotten of that one (draftEdited), and asks nothing.  And
\* no draft is filed under another note.
EditedDraftIsKept ==
  /\ /\ stint # None /\ stint.target = "draft"
     /\ StoredEdit(stint.of) \notin {0, board.found}
     => stint.warned
  /\ \A n \in Notes : folders[n] # None /\ folders[n].draft # None => folders[n].draft.of = n

\* A dissection that is not marked as stale is of the text that is shown, unless a run
\* was cancelled when it had been stored already, and a draft
\* without an edit that is not saved is the one on disk, unless it could not be read
\* or was typed into before it was.
ShownIsOfNote ==
  /\ board.dissection # None /\ ~board.stale /\ ~astray
     => board.dissection = board.body
  /\ /\ editor.open /\ editor.ready /\ board.task # None /\ folders[board.task] # None
     /\ ~editor.dirty /\ ~editor.early
     => editor.buffer = folders[board.task].draft

\* The seed is of the list of insights that is shown.  The exceptions are a list that
\* comes while the sheet of the draft holds the seed of the last one, and a run that was
\* cancelled when it had been stored.
SeedIsOfList == board.seed \in {None, board.list} \/ astray

\* Whatever is shown as running, loading or being saved is answered.
ResultsWillAnswer ==
  /\ board.target # None => stint # None /\ stint.of = board.task
  /\ editor.open /\ editor.loading /\ board.task # None =>
       \E i \in DOMAIN post : post[i].kind = "load" /\ post[i].live
  /\ editor.saving => \E i \in DOMAIN post : post[i].kind = "save"
=============================================================================

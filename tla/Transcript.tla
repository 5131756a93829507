------------------------------- MODULE Transcript -------------------------------
(***************************************************************************)
(* The transcript of a note: its files (transcript_detail.rs), the editor  *)
(* (useTranscriptDocumentController.ts), the audio beside it               *)
(* (useTranscriptReviewSession.ts) and the polished copy                   *)
(* (useTranscriptPolishController.ts).  A text is the note it is of and    *)
(* the number of its edit, Blank for one without a letter.  The commands   *)
(* are synchronous: the main thread runs and answers them in their order.  *)
(* A note without a transcript, an article, is none here; whether the      *)
(* account may run is left to the workspace's module.                      *)
(***************************************************************************)
EXTENDS Integers, Sequences

CONSTANTS
  None,
  Notes,
  MaxEdits,  \* bound on what is typed
  MaxWire    \* bound on the commands in flight

VARIABLES
  scripts,    \* what a note has on disk, None when it is deleted
  subject,    \* the note of the workspace
  paper,      \* the editor
  wire,       \* the commands in flight
  player,     \* the audio
  polish,     \* the run that polishes
  generating, \* another run of the note in the workspace
  erasing,    \* the note that is being deleted
  edits,      \* how often something was typed
  missed      \* the polished copy could not be read again

vars == <<scripts, subject, paper, wire, player, polish, generating, erasing, edits, missed>>

Blank == -1
Copies == [of : Notes, n : Blank..MaxEdits]
Maybe == Copies \cup {None}

Detail == [text : Copies, segments : Maybe, polished : Maybe, audio : BOOLEAN]

Wired == [kind : {"load", "save", "refresh"}, of : Notes, live : BOOLEAN,
          text : Maybe, segments : Maybe, after : {"save", "polish", None}]

TypeOK ==
  /\ scripts \in [Notes -> [text : Copies, segments : Maybe, polished : Maybe] \cup {None}]
  /\ {subject, erasing} \subseteq Notes \cup {None}
  /\ paper \in [detail : Detail \cup {None}, text : Maybe, draft : Maybe, segments : Maybe,
                dirty : BOOLEAN, loading : BOOLEAN, saving : BOOLEAN]
  /\ \A i \in DOMAIN wire : wire[i] \in Wired
  /\ player \in [playing : BOOLEAN, cleared : BOOLEAN, resume : BOOLEAN,
                 editing : {"segment", "full-text", None}]
  /\ polish \in [of : Notes, from : Maybe] \cup {None}
  /\ {generating, missed} \subseteq BOOLEAN /\ edits \in 0..MaxEdits

NoPlayer == [playing |-> FALSE, cleared |-> FALSE, resume |-> FALSE, editing |-> None]

Original(t) == [of |-> t, n |-> 0]

\* Notes of an earlier day, with time marks or without.
Init ==
  /\ \E marks \in BOOLEAN :
       scripts = [t \in Notes |-> [text |-> Original(t), polished |-> None,
                                  segments |-> IF marks THEN Original(t) ELSE None]]
  /\ subject = None /\ wire = <<>> /\ player = NoPlayer /\ polish = None
  /\ paper = [detail |-> None, text |-> None, draft |-> None, segments |-> None,
              dirty |-> FALSE, loading |-> FALSE, saving |-> FALSE]
  /\ generating = FALSE /\ erasing = None /\ edits = 0 /\ missed = FALSE

-----------------------------------------------------------------------------
(* transcript_detail.rs. *)

\* The polished copy is only served when it was made from the text of the file.
load_polished_transcript(s) == IF s.polished = s.text THEN s.polished ELSE None

load_transcript_detail(t) ==
  {[text |-> scripts[t].text, segments |-> scripts[t].segments,
    polished |-> load_polished_transcript(scripts[t]), audio |-> a] : a \in BOOLEAN}

\* Fault: the sidecar with the time marks is not written.
save_transcriptTextOnly(s, text, segments) == [s EXCEPT !.text = text]

\* An editor without time marks empties the ones of the file.
save_transcript(s, text, segments) == [s EXCEPT !.text = text, !.segments = segments]

\* A note that is deleted, or about to be, is neither read nor written.
guard_pending_task(t) == scripts[t] # None /\ erasing # t

-----------------------------------------------------------------------------
(* useTranscriptDocumentController.ts and useTranscriptReviewSession.ts. *)

loadTranscriptDetail(t, after) ==
  [kind |-> IF after = None THEN "load" ELSE "refresh", of |-> t, live |-> TRUE,
   text |-> None, segments |-> None, after |-> after]

saveTranscriptEdit(t, text, segments) ==
  [kind |-> "save", of |-> t, live |-> TRUE, text |-> text, segments |-> segments,
   after |-> None]

\* The clean-up of the effect: a load that is under way is not waited for.
stopped(w) == [i \in DOMAIN w |-> [w[i] EXCEPT !.live = @ /\ w[i].kind # "load"]]

\* The effect when another note, or none, comes into the workspace.
loadDetail(t) ==
  /\ LET text == IF t = None THEN None ELSE scripts[t].text IN
     paper' = [paper EXCEPT !.detail = None, !.segments = None, !.dirty = FALSE,
                 !.text = text, !.draft = text, !.loading = @ \/ t # None]
  /\ wire' = IF t = None THEN stopped(wire)
             ELSE Append(stopped(wire), loadTranscriptDetail(t, None))
  /\ player' = NoPlayer

canNavigateWorkflow ==
  /\ ~generating /\ polish = None /\ ~paper.saving /\ ~paper.dirty /\ erasing = None

\* From the history, or at the end of a submission.
restoreHistoryItem(t) ==
  /\ canNavigateWorkflow /\ t # subject /\ scripts[t] # None /\ Len(wire) < MaxWire
  /\ subject' = t /\ missed' = FALSE /\ loadDetail(t)
  /\ UNCHANGED <<scripts, polish, generating, erasing, edits>>

startNewTaskFromToolbar ==
  /\ canNavigateWorkflow /\ subject # None
  /\ subject' = None /\ missed' = FALSE /\ loadDetail(None)
  /\ UNCHANGED <<scripts, polish, generating, erasing, edits>>

\* The audio lets go of its file before the note is deleted.
prepareTranscriptForTaskDeletion ==
  player' = [player EXCEPT !.playing = FALSE, !.resume = FALSE, !.cleared = TRUE]

confirmHistoryDeletion ==
  /\ canNavigateWorkflow /\ subject # None
  /\ erasing' = subject /\ prepareTranscriptForTaskDeletion
  /\ UNCHANGED <<scripts, subject, paper, wire, polish, generating, edits, missed>>

\* The deletion is answered; a run that began meanwhile keeps the note in the workspace.
completeHistoryTaskDeletion ==
  /\ erasing # None /\ erasing' = None
  /\ \/ /\ scripts' = [scripts EXCEPT ![erasing] = None]
        /\ IF generating THEN UNCHANGED <<subject, paper, wire, player>>
           ELSE subject' = None /\ loadDetail(None)
     \/ UNCHANGED <<scripts, subject, paper, wire, player>>
  /\ UNCHANGED <<polish, generating, edits, missed>>

LoadAnswer ==
  /\ wire # <<>> /\ Head(wire).kind = "load"
  /\ wire' = Tail(wire)
  /\ \/ /\ ~Head(wire).live /\ UNCHANGED paper
     \/ /\ Head(wire).live /\ guard_pending_task(Head(wire).of)
        /\ \E d \in load_transcript_detail(Head(wire).of) :
             paper' = [paper EXCEPT !.detail = d, !.draft = d.text,
                         !.segments = d.segments, !.loading = FALSE]
     \/ /\ Head(wire).live
        /\ paper' = [paper EXCEPT !.detail = None, !.draft = paper.text,
                       !.segments = None, !.loading = FALSE]
  /\ UNCHANGED <<scripts, subject, player, polish, generating, erasing, edits, missed>>

\* The text of the file is that of the workspace: its note is shown as saved.
saveTranscriptDocument ==
  /\ subject # None /\ ~paper.saving /\ Len(wire) < MaxWire
  /\ paper' = [paper EXCEPT !.saving = TRUE]
  /\ wire' = Append(wire, saveTranscriptEdit(subject, paper.draft, paper.segments))
  /\ UNCHANGED <<scripts, subject, player, polish, generating, erasing, edits, missed>>

\* A text without a letter is refused.
SaveAnswer ==
  LET c == Head(wire) IN
  /\ wire # <<>> /\ c.kind = "save"
  /\ \/ /\ scripts[c.of] # None /\ c.text.n # Blank
        /\ scripts' = [scripts EXCEPT ![c.of] = save_transcript(@, c.text, c.segments)]
        /\ IF subject # c.of THEN wire' = Tail(wire) /\ paper' = [paper EXCEPT !.saving = FALSE]
           ELSE /\ wire' = Append(Tail(wire), loadTranscriptDetail(c.of, "save"))
                /\ paper' = [paper EXCEPT !.text = c.text, !.draft = c.text, !.dirty = FALSE,
                     !.detail = IF @ = None THEN None
                                ELSE [@ EXCEPT !.text = c.text, !.segments = c.segments]]
     \/ wire' = Tail(wire) /\ paper' = [paper EXCEPT !.saving = FALSE] /\ UNCHANGED scripts
  /\ UNCHANGED <<subject, player, polish, generating, erasing, edits, missed>>

\* What follows a save: the audio goes on.
completeSuccessfulSave ==
  \E p \in {player.playing, player.playing \/ (player.resume /\ ~player.cleared)} :
    player' = [player EXCEPT !.editing = None, !.resume = FALSE, !.playing = p]

\* Only the polished copy is taken over; a failed read leaves what is shown.
refreshPolishedTranscript ==
  LET c == Head(wire) IN
  /\ wire # <<>> /\ c.kind = "refresh"
  /\ wire' = Tail(wire)
  /\ \/ /\ guard_pending_task(c.of) /\ missed' = FALSE
        /\ \E d \in load_transcript_detail(c.of) :
             paper' = [paper EXCEPT !.saving = @ /\ c.after # "save",
                         !.detail = IF @ = None \/ subject # c.of THEN @
                                    ELSE [@ EXCEPT !.polished = d.polished]]
     \/ missed' = TRUE /\ paper' = [paper EXCEPT !.saving = @ /\ c.after # "save"]
  /\ IF c.after = "save" THEN completeSuccessfulSave /\ UNCHANGED polish
     ELSE polish' = None /\ UNCHANGED player
  /\ UNCHANGED <<scripts, subject, generating, erasing, edits>>

\* What the preparation of a move of the data offers for a text that is not saved.
discardTranscriptDraft ==
  /\ paper.dirty /\ ~paper.saving
  /\ paper' = [paper EXCEPT !.dirty = FALSE,
                 !.draft = IF paper.detail = None THEN paper.text ELSE paper.detail.text,
                 !.segments = IF paper.detail = None THEN None ELSE paper.detail.segments]
  /\ player' = [player EXCEPT !.resume = FALSE, !.editing = None]
  /\ UNCHANGED <<scripts, subject, wire, polish, generating, erasing, edits, missed>>

-----------------------------------------------------------------------------
(* useTranscriptPolishController.ts, and another run of the note. *)

polishTranscript ==
  /\ ~generating /\ polish = None /\ ~paper.loading
  /\ polish' = [of |-> subject, from |-> None]
  /\ UNCHANGED <<scripts, subject, paper, wire, player, generating, erasing, edits, missed>>

\* The worker reads the text, and stores the copy with the digest of the text.
PolishReads ==
  /\ polish # None /\ polish.from = None /\ scripts[polish.of] # None
  /\ polish' = [polish EXCEPT !.from = scripts[polish.of].text]
  /\ UNCHANGED <<scripts, subject, paper, wire, player, generating, erasing, edits, missed>>

PolishEnds ==
  /\ polish # None /\ Len(wire) < MaxWire
  /\ \A i \in DOMAIN wire : wire[i].after # "polish"
  /\ \/ /\ polish.from # None /\ scripts[polish.of] # None
        /\ scripts' = [scripts EXCEPT ![polish.of].polished = polish.from]
        /\ wire' = Append(wire, loadTranscriptDetail(polish.of, "polish"))
        /\ UNCHANGED polish
     \/ polish' = None /\ UNCHANGED <<scripts, wire>>
  /\ UNCHANGED <<subject, paper, player, generating, erasing, edits, missed>>

retryInsights ==
  /\ subject # None /\ ~generating
  /\ generating' = TRUE
  /\ UNCHANGED <<scripts, subject, paper, wire, player, polish, erasing, edits, missed>>

\* A run outlives the commands that were sent before it.
RetryEnds ==
  /\ generating /\ wire = <<>> /\ generating' = FALSE
  /\ UNCHANGED <<scripts, subject, paper, wire, player, polish, erasing, edits, missed>>

-----------------------------------------------------------------------------
(* TranscriptReviewPanel.tsx and LocalTranscriptWorkspace.tsx. *)

editingDisabled == generating \/ polish # None \/ paper.saving

\* Time marks without a letter are hidden, unless it is them that are edited.
visibleTranscriptSegments ==
  /\ paper.segments # None
  /\ paper.segments.n # Blank \/ player.editing = "segment"

\* Another part of the text is edited.
isTranscriptSegmentEditDisabled == player.editing = "full-text"

Typed == {[of |-> subject, n |-> k] : k \in {Blank} \cup (IF edits < MaxEdits THEN {edits + 1} ELSE {})}

beginTranscriptSegmentEdit(what) ==
  /\ player' = [player EXCEPT !.editing = what, !.playing = FALSE,
                  !.resume = @ \/ player.playing]
  /\ UNCHANGED <<scripts, subject, paper, wire, polish, generating, erasing, edits, missed>>

endTranscriptSegmentEdit ==
  /\ player' = [player EXCEPT !.editing = None, !.resume = FALSE]
  /\ UNCHANGED <<scripts, subject, paper, wire, polish, generating, erasing, edits, missed>>

updateTranscriptSegmentDraft(c) ==
  /\ paper' = [paper EXCEPT !.segments = c, !.draft = c, !.dirty = TRUE]
  /\ edits' = IF c.n = Blank THEN edits ELSE c.n
  /\ UNCHANGED <<scripts, subject, wire, player, polish, generating, erasing, missed>>

updateFullTranscriptDraft(c) ==
  /\ paper' = [paper EXCEPT !.draft = c, !.dirty = TRUE]
  /\ edits' = IF c.n = Blank THEN edits ELSE c.n
  /\ UNCHANGED <<scripts, subject, wire, player, polish, generating, erasing, missed>>

\* The click on the segment that is played stops it; the browser may refuse to play.
playTranscriptSegment ==
  /\ player.editing = None /\ paper.detail # None /\ paper.detail.audio
  /\ \E p \in {FALSE, ~player.cleared} : player' = [player EXCEPT !.playing = p]
  /\ UNCHANGED <<scripts, subject, paper, wire, polish, generating, erasing, edits, missed>>

toggleTranscriptAudio ==
  /\ paper.detail # None /\ paper.detail.audio
  /\ \E p \in IF player.playing THEN {FALSE} ELSE {FALSE, ~player.cleared} :
       player' = [player EXCEPT !.playing = p]
  /\ UNCHANGED <<scripts, subject, paper, wire, polish, generating, erasing, edits, missed>>

TranscriptReviewPanel ==
  \/ playTranscriptSegment \/ toggleTranscriptAudio
  \/ /\ ~editingDisabled /\ visibleTranscriptSegments
     /\ \/ ~isTranscriptSegmentEditDisabled /\ beginTranscriptSegmentEdit("segment")
        \/ /\ player.editing = "segment"
           /\ endTranscriptSegmentEdit \/ \E c \in Typed : updateTranscriptSegmentDraft(c)
  \/ /\ ~editingDisabled /\ ~visibleTranscriptSegments
     /\ \/ beginTranscriptSegmentEdit("full-text")
        \/ player.editing = "full-text" /\ \E c \in Typed : updateFullTranscriptDraft(c)
  \/ ~editingDisabled /\ paper.dirty /\ saveTranscriptDocument

polishedTranscriptText == IF paper.detail = None THEN None ELSE paper.detail.polished

LocalTranscriptWorkspace ==
  /\ subject # None
  /\ \/ TranscriptReviewPanel
     \/ polishedTranscriptText = None /\ polishTranscript

\* The sheet of a move of the data saves or discards what is not saved.
useStorageEditor ==
  paper.dirty /\ (saveTranscriptDocument \/ discardTranscriptDraft)

Next ==
  \/ \E t \in Notes : restoreHistoryItem(t)
  \/ startNewTaskFromToolbar \/ confirmHistoryDeletion \/ completeHistoryTaskDeletion
  \/ LoadAnswer \/ SaveAnswer \/ refreshPolishedTranscript
  \/ PolishReads \/ PolishEnds \/ retryInsights \/ RetryEnds
  \/ LocalTranscriptWorkspace \/ useStorageEditor

Spec == Init /\ [][Next]_vars

-----------------------------------------------------------------------------
\* The text and the time marks of a note say the same, and nothing that was typed
\* for another note, whatever is saved while notes come and go.
TranscriptIsWhole ==
  \A t \in Notes : scripts[t] # None =>
    /\ scripts[t].text.of = t
    /\ scripts[t].segments = None \/ scripts[t].segments.n = Blank
         \/ scripts[t].segments = scripts[t].text

\* The editor shows the note of the workspace, and a polished copy of another text
\* only until it is read again, or when that could not be done.
PolishedIsOfText ==
  /\ paper.draft # None => paper.draft.of = subject
  /\ paper.detail # None /\ paper.detail.polished # None =>
       \/ paper.detail.polished = paper.detail.text
       \/ missed \/ \E i \in DOMAIN wire : wire[i].kind = "refresh"

\* An editor that loads, saves or waits for the polished copy is answered.
TranscriptWillAnswer ==
  /\ paper.loading /\ subject # None => \E i \in DOMAIN wire : wire[i].kind = "load" /\ wire[i].live
  /\ paper.saving => \E i \in DOMAIN wire : wire[i].kind = "save" \/ wire[i].after = "save"
=============================================================================

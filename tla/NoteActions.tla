------------------------------ MODULE NoteActions ------------------------------
(***************************************************************************)
(* Renaming and pinning notes, and what is told of them                    *)
(* (features/notes/useNoteActionsController.ts and note_actions.rs), beside*)
(* the lists and details of the library that show the same metadata.       *)
(* Versions stand for the metadata of a note.  Requests that were          *)
(* overtaken change nothing, so only the newest of each kind is kept.      *)
(***************************************************************************)
EXTENDS Integers

CONSTANTS
  None,
  Notes,
  MaxSaves     \* bound on the changes of the metadata of all notes

VARIABLES
  metadata,  \* the version of each note on disk
  rows,      \* the version of each note that the library shows, or None
  listing,   \* the newest list in flight
  displayed,     \* the note of the workspace and its version
  opening,   \* the newest detail in flight
  deed,      \* the operation in flight
  slip,      \* the sheet of a note: its kind, its information, whether it loads
  asking,    \* the newest request of the sheet in flight
  newest     \* history: the newest version of each note that the library and the
             \* workspace have ever shown

vars == <<metadata, rows, listing, displayed, opening, deed, slip, asking, newest>>

Version == 0..MaxSaves
Rows == [Notes -> Version \cup {None}]
NoteVersion == [task : Notes, version : Version]

TypeOK ==
  /\ metadata \in [Notes -> Version] /\ rows \in Rows
  /\ listing \in [step : {"none", "sent", "read"}, got : Rows]
  /\ displayed \in NoteVersion \cup {None}
  /\ opening \in [task : Notes \cup {None}, got : Version \cup {None}]
  /\ deed \in [kind : {"none", "pin", "rename", "source"}, task : Notes \cup {None},
               step : {"sent", "done", "failed"}, got : Version]
  /\ slip \in [kind : {"none", "rename", "collection", "info"}, loading : BOOLEAN,
               task : Notes \cup {None}, info : Notes \cup {None}]
  /\ asking \in Notes \cup {None, "collections"}
  /\ newest \in [library : [Notes -> Version], workspace : [Notes -> Version]]

NoRows == [t \in Notes |-> None]
NoListing == [step |-> "none", got |-> NoRows]
NoOpening == [task |-> None, got |-> None]
NoDeed == [kind |-> "none", task |-> None, step |-> "sent", got |-> 0]
NoSlip == [kind |-> "none", task |-> None, info |-> None, loading |-> FALSE]

Init ==
  /\ metadata = [t \in Notes |-> 0]
  /\ newest = [library |-> metadata, workspace |-> metadata]
  /\ rows = NoRows /\ listing = [NoListing EXCEPT !.step = "sent"]
  /\ displayed = None /\ opening = NoOpening
  /\ deed = NoDeed /\ slip = NoSlip /\ asking = None

Most(a, b) == IF b # None /\ b > a THEN b ELSE a
available(t) == rows[t] # None
pending == deed.kind # "none"

\* What is shown anew counts for the history.
Shows(r, s) ==
  /\ rows' = r /\ displayed' = s
  /\ newest' = [library |-> [t \in Notes |-> Most(newest.library[t], r[t])],
                workspace |-> IF s = None THEN newest.workspace
                              ELSE [newest.workspace EXCEPT ![s.task] = Most(@, s.version)]]

Library == <<rows, displayed, newest>>

-----------------------------------------------------------------------------
(* The library: a list is not asked for while a detail is awaited; a detail *)
(* overtakes the list.                                                      *)

refreshHistory ==
  /\ opening = NoOpening
  /\ listing' = [NoListing EXCEPT !.step = "sent"]
  /\ UNCHANGED <<metadata, Library, opening, deed, slip, asking>>

\* From the page of the library, which offers it while an operation runs, too.
openHistory ==
  /\ slip.kind = "none"
  /\ listing' = [NoListing EXCEPT !.step = "sent"] /\ opening' = NoOpening
  /\ Shows(NoRows, displayed)
  /\ UNCHANGED <<metadata, deed, slip, asking>>

ListReads ==
  /\ listing.step = "sent"
  /\ listing' = [step |-> "read", got |-> metadata]
  /\ UNCHANGED <<metadata, Library, opening, deed, slip, asking>>

Listed ==
  /\ listing.step = "read"
  /\ listing' = NoListing
  /\ \/ Shows(listing.got, displayed)
     \/ UNCHANGED Library
  /\ UNCHANGED <<metadata, opening, deed, slip, asking>>

openHistoryItem(t) ==
  /\ available(t) /\ ~pending /\ slip.kind = "none"
  /\ opening' = [task |-> t, got |-> None] /\ listing' = NoListing
  /\ UNCHANGED <<metadata, Library, deed, slip, asking>>

DetailReads ==
  /\ opening.task # None /\ opening.got = None
  /\ opening' = [opening EXCEPT !.got = metadata[opening.task]]
  /\ UNCHANGED <<metadata, Library, listing, deed, slip, asking>>

\* The detail is refused while an operation runs or a sheet is open; another
\* note in the workspace has the list read again.
DetailArrives ==
  /\ opening.got # None
  /\ opening' = NoOpening
  /\ IF ~pending /\ slip.kind = "none"
     THEN /\ Shows(rows, [task |-> opening.task, version |-> opening.got])
          /\ listing' = [NoListing EXCEPT !.step = "sent"]
     ELSE UNCHANGED <<Library, listing>>
  /\ UNCHANGED <<metadata, deed, slip, asking>>

-----------------------------------------------------------------------------
(* useNoteActionsController. *)

\* Every operation overtakes what the sheet waits for.
Begins(kind, t) ==
  /\ deed' = [kind |-> kind, task |-> t, step |-> "sent", got |-> 0]
  /\ asking' = None
  /\ UNCHANGED <<metadata, Library, listing, opening>>

\* perform.
Pin(t) == Begins("pin", t) /\ UNCHANGED slip

Source(t) == Begins("source", t) /\ UNCHANGED slip

saveName ==
  /\ ~pending /\ available(slip.task)
  /\ Begins("rename", slip.task) /\ UNCHANGED slip

OpenSheet(kind, t) ==
  /\ slip' = [kind |-> kind, task |-> t, info |-> None, loading |-> kind # "rename"]
  /\ asking' = CASE kind = "info" -> t
                 [] kind = "collection" -> "collections"
                 [] OTHER -> asking
  /\ UNCHANGED <<metadata, Library, listing, opening, deed>>

\* refreshInfo and refreshCollections, by the button of the sheet.
RefreshSheet ==
  /\ ~pending /\ ~slip.loading
  /\ slip' = [slip EXCEPT !.info = None, !.loading = TRUE]
  /\ asking' = IF slip.kind = "info" THEN slip.task ELSE "collections"
  /\ UNCHANGED <<metadata, Library, listing, opening, deed>>

SheetAnswer ==
  /\ asking # None
  /\ \/ slip' = [slip EXCEPT !.loading = FALSE,
                             !.info = IF asking \in Notes THEN asking ELSE @]
     \/ slip' = [slip EXCEPT !.loading = FALSE]
  /\ asking' = None
  /\ UNCHANGED <<metadata, Library, listing, opening, deed>>

\* close, not while an operation runs.
Close == slip' = NoSlip /\ asking' = None

CloseSheet ==
  /\ ~pending /\ Close
  /\ UNCHANGED <<metadata, Library, listing, opening, deed>>

\* note_actions.rs: an error may come after the write.
NativeSaves ==
  /\ deed.kind \in {"pin", "rename"} /\ deed.step = "sent"
  /\ LET t == deed.task
         next == metadata[t] + 1
     IN \/ /\ next \in Version
           /\ metadata' = [metadata EXCEPT ![t] = next]
           /\ deed' \in {[deed EXCEPT !.step = "done", !.got = next],
                         [deed EXCEPT !.step = "failed"]}
        \/ UNCHANGED metadata /\ deed' = [deed EXCEPT !.step = "failed"]
  /\ UNCHANGED <<Library, listing, opening, slip, asking>>

\* applyCommittedNoteMetadata, applyNoteMetadata and refreshHistory.
Applies(t, v) ==
  /\ Shows([rows EXCEPT ![t] = v],
           IF displayed = None \/ displayed.task # t THEN displayed ELSE [displayed EXCEPT !.version = v])
  /\ listing' = [NoListing EXCEPT !.step = "sent"] /\ opening' = NoOpening

\* The answer of a mutation, for a note that is still listed.
MutationAnswer ==
  /\ deed.kind \in {"pin", "rename"} /\ deed.step # "sent"
  /\ deed' = NoDeed
  /\ IF deed.step = "done" /\ available(deed.task)
     THEN /\ Applies(deed.task, deed.got)
          /\ IF deed.kind = "rename" THEN Close ELSE UNCHANGED <<slip, asking>>
     ELSE UNCHANGED <<Library, listing, opening, slip, asking>>
  /\ UNCHANGED metadata

SourceAnswer ==
  /\ deed.kind = "source"
  /\ deed' = NoDeed
  /\ UNCHANGED <<metadata, Library, listing, opening, slip, asking>>

-----------------------------------------------------------------------------
(* What the views offer. *)

\* The menu of a note: one at a time and none beside a sheet.
SidebarNoteMenu ==
  /\ ~pending /\ slip.kind = "none"
  /\ \E t \in Notes :
       /\ available(t)
       /\ \/ Pin(t) \/ Source(t)
          \/ \E kind \in {"rename", "collection", "info"} : OpenSheet(kind, t)

NoteRenameSheet == slip.kind = "rename" /\ (saveName \/ CloseSheet)
NoteInfoSheet == slip.kind = "info" /\ (RefreshSheet \/ CloseSheet)
NoteCollectionsSheet == slip.kind = "collection" /\ (RefreshSheet \/ CloseSheet)

Next ==
  \/ refreshHistory \/ openHistory \/ ListReads \/ Listed
  \/ DetailReads \/ DetailArrives
  \/ \E t \in Notes : openHistoryItem(t)
  \/ SidebarNoteMenu \/ NoteRenameSheet \/ NoteInfoSheet \/ NoteCollectionsSheet
  \/ SheetAnswer \/ NativeSaves \/ MutationAnswer \/ SourceAnswer

Spec == Init /\ [][Next]_vars

-----------------------------------------------------------------------------
\* A note is never shown with an older title or pin than it was shown with
\* before in the library or in the workspace, whichever lists and details were on
\* their way when it was changed.
NoOlderNote ==
  /\ \A t \in Notes : available(t) => rows[t] >= newest.library[t]
  /\ displayed # None => displayed.version >= newest.workspace[displayed.task]

\* What a sheet says of a note is of that very note, and what it is loading will
\* be answered.
SheetIsOfItsNote ==
  /\ slip.info \in {None, slip.task}
  /\ slip.loading => asking # None
================================================================================

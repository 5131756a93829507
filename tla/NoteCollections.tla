----------------------------- MODULE NoteCollections -----------------------------
(***************************************************************************)
(* Collections of notes in the desktop window: the controller that loads   *)
(* and changes them (features/collections/useCollectionsController.ts) and *)
(* the making of a note for a collection (collectionNoteCreation.ts,       *)
(* useCollectionNoteCreation.ts): a submission, then its membership, which *)
(* may be retried.  The desktop process changes the collections, too: it   *)
(* takes deleted tasks out.                                                *)
(***************************************************************************)
EXTENDS Integers, FiniteSets

CONSTANTS
  None,
  Notes, Collections,
  MaxShelf,      \* bound on the changes of the collections
  MaxIntents     \* bound on the intentions to make a note

VARIABLES
  shelf,     \* the collections on disk, with how often they were changed
  view,      \* what the window shows of them
  reading,   \* the newest load in flight
  change,    \* the mutation in flight
  creation,  \* CollectionNoteCreationState
  making,    \* the submission in flight, and the creation it was made under
  made       \* the notes that exist

vars == <<shelf, view, reading, change, creation, making, made>>

Shelf == [changes : 0..MaxShelf, members : SUBSET (Collections \X Notes)]
Nobody == [of |-> 0, attempt |-> 0]
Attempt == [of : 0..MaxIntents, attempt : 0..(MaxIntents + 1)]

TypeOK ==
  /\ shelf \in Shelf /\ view \in Shelf
  /\ reading \in [step : {"none", "sent", "read"}, got : Shelf]
  /\ change \in [step : {"none", "sent", "done", "failed"}, got : Shelf, by : Attempt,
                 pair : (Collections \X Notes) \cup {None}]
  /\ creation \in [phase : {"idle", "composing", "attaching", "failed"},
                   id : 0..MaxIntents, collection : Collections \cup {None},
                   task : Notes \cup {None}, attempt : 0..(MaxIntents + 1)]
  /\ making \in [step : {"none", "running"}, of : 0..MaxIntents]
  /\ made \subseteq Notes

Nothing == [changes |-> 0, members |-> {}]
NoReading == [step |-> "none", got |-> Nothing]
Unmade == [step |-> "none", of |-> 0]
Idle(id) == [phase |-> "idle", id |-> id, collection |-> None, task |-> None,
             attempt |-> 0]
NoChange == [step |-> "none", got |-> Nothing, by |-> Nobody, pair |-> None]

Init ==
  /\ shelf = Nothing /\ view = Nothing
  /\ reading = NoReading /\ change = NoChange
  /\ creation = Idle(0) /\ making = Unmade
  /\ made = {}

Creation == <<creation, making, made>>

-----------------------------------------------------------------------------
(* useCollectionsController. *)

\* load: not while a mutation is in flight; it overtakes the load before it.
load ==
  /\ change.step = "none"
  /\ reading' = [NoReading EXCEPT !.step = "sent"]
  /\ UNCHANGED <<shelf, view, change, Creation>>

LoadReads ==
  /\ reading.step = "sent"
  /\ reading' = [step |-> "read", got |-> shelf]
  /\ UNCHANGED <<shelf, view, change, Creation>>

Loaded ==
  /\ reading.step = "read"
  /\ view' \in {view, reading.got} /\ reading' = NoReading
  /\ UNCHANGED <<shelf, change, Creation>>

\* mutate, of a membership or of a name; loads in flight are overtaken.
mutate(pair, by) ==
  /\ change' = [step |-> "sent", got |-> Nothing, by |-> by, pair |-> pair]
  /\ reading' = NoReading

\* create, rename and remove, from the page of the collections.
UserChanges ==
  /\ change.step = "none" /\ creation.phase # "attaching"
  /\ mutate(None, Nobody)
  /\ UNCHANGED <<shelf, view, Creation>>

\* setMembership of a note that exists, from there or from the sheet of the note.
UserFiles ==
  /\ change.step = "none" /\ creation.phase # "attaching"
  /\ \E p \in Collections \X made : mutate(p, Nobody)
  /\ UNCHANGED <<shelf, view, Creation>>

\* The desktop process carries it out; an error may come after the write.
Changed ==
  /\ change.step = "sent" /\ shelf.changes < MaxShelf
  /\ LET p == change.pair
         next == [changes |-> shelf.changes + 1,
                  members |-> IF p = None THEN shelf.members
                              ELSE IF change.by = Nobody /\ p \in shelf.members
                              THEN shelf.members \ {p} ELSE shelf.members \cup {p}]
     IN \/ shelf' = next /\ change' = [change EXCEPT !.step = "done", !.got = next]
        \/ shelf' = next /\ change' = [change EXCEPT !.step = "failed"]
        \/ UNCHANGED shelf /\ change' = [change EXCEPT !.step = "failed"]
  /\ UNCHANGED <<view, reading, Creation>>

\* A deleted task is taken out.
Pruned(n) ==
  /\ shelf.changes < MaxShelf /\ \E p \in shelf.members : p[2] = n
  /\ shelf' = [changes |-> shelf.changes + 1,
               members |-> {p \in shelf.members : p[2] # n}]
  /\ UNCHANGED <<view, reading, change, Creation>>

-----------------------------------------------------------------------------
(* collectionNoteCreation. *)

\* begin: a new note from the page of a collection.
begin(c) ==
  /\ creation.phase # "attaching" /\ change.step = "none" /\ making.step = "none"
  /\ creation.id < MaxIntents
  /\ creation' = [phase |-> "composing", id |-> creation.id + 1, collection |-> c,
                task |-> None, attempt |-> 0]
  /\ UNCHANGED <<shelf, view, reading, change, making, made>>

\* clear: another note is opened or begun, the user signs out, the collection
\* is deleted; and task_deleted.
clear ==
  /\ creation.phase # "idle" /\ creation.id < MaxIntents
  /\ creation' = Idle(creation.id + 1)
  /\ UNCHANGED <<shelf, view, reading, change, making, made>>

\* submit, under the creation of this moment.
submit ==
  /\ making.step = "none" /\ creation.phase # "attaching"
  /\ making' = [step |-> "running",
                of |-> IF creation.phase = "composing" THEN creation.id ELSE 0]
  /\ UNCHANGED <<shelf, view, reading, change, creation, made>>

\* The attachment of the current attempt is asked for: refused at once while
\* another mutation is in flight.
attach(i) ==
  LET by == [of |-> i.id, attempt |-> i.attempt]
  IN IF change.step = "none"
     THEN /\ mutate(<<i.collection, i.task>>, by) /\ creation' = i
     ELSE /\ creation' = [i EXCEPT !.phase = "failed"]
          /\ UNCHANGED <<reading, change>>

\* local_completed: the note is made, and the creation is still the one it was
\* made under.
completes(n) == n # None /\ creation.phase = "composing" /\ creation.id = making.of

submitted(n) ==
  /\ making.step = "running" /\ n \notin made
  /\ making' = Unmade
  /\ made' = made \cup ({n} \ {None})
  /\ IF completes(n)
     THEN attach([creation EXCEPT !.phase = "attaching", !.task = n, !.attempt = 1])
     ELSE UNCHANGED <<reading, change, creation>>
  /\ UNCHANGED <<shelf, view>>

retry ==
  /\ creation.phase = "failed" /\ creation.attempt < MaxIntents
  /\ attach([creation EXCEPT !.phase = "attaching", !.attempt = @ + 1])
  /\ UNCHANGED <<shelf, view, making, made>>

Current == [of |-> creation.id, attempt |-> creation.attempt]

\* The answer of a mutation, and with it that of the attachment that asked.
ChangeAnswer ==
  /\ change.step \in {"done", "failed"}
  /\ change' = NoChange
  /\ view' = IF change.step = "done" THEN change.got ELSE view
  /\ creation' = IF creation.phase # "attaching"
                    \/ change.by # Current
               THEN creation
               ELSE IF change.step = "failed" THEN [creation EXCEPT !.phase = "failed"]
               ELSE Idle(creation.id)
  /\ UNCHANGED <<shelf, reading, making, made>>

Next ==
  \/ load \/ LoadReads \/ Loaded \/ UserChanges \/ UserFiles \/ Changed \/ ChangeAnswer
  \/ \E n \in Notes : Pruned(n) \/ submitted(n)
  \/ \E c \in Collections : begin(c)
  \/ clear \/ submit \/ submitted(None) \/ retry

Spec == Init /\ [][Next]_vars

-----------------------------------------------------------------------------
\* The collections that are shown never go back to how they were before a change
\* that is already shown, whichever loads and mutations overlap.
ViewNotOlder == view'.changes >= view.changes

\* A note that is shown as being put into its collection is in a call that will
\* be answered, or it can be retried: no attachment is lost by an overlap.
AttachmentWillEnd ==
  creation.phase = "attaching" => change.by = Current
=================================================================================

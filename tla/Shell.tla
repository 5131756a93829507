--------------------------------- MODULE Shell ---------------------------------
(***************************************************************************)
(* The shell of the desktop window: its visits (shellNavigation.ts), the   *)
(* library of notes (features/history/useHistoryController.ts) and how     *)
(* App.tsx ties both to the task of the workspace.  Details, lists and     *)
(* deletions are answered late; an answer that was overtaken is dropped,   *)
(* so only the newest request of each kind is kept here.                   *)
(* Taken as absent: the edits and downloads that only forbid to navigate.  *)
(***************************************************************************)
EXTENDS Integers, FiniteSets, SequencesExt

CONSTANTS
  None,
  Notes,        \* the tasks of the library
  Collections,
  MaxVisits     \* bound on the visits that are kept

VARIABLES
  nav,       \* ShellNavigationState
  move,      \* pendingNavigationRef, and whether its detail is the one awaited
  list,      \* the items shown, the sheet, the newest list in flight
  detail,    \* the task whose detail is awaited
  removal,   \* the candidate of a deletion and how far it is
  dropping,  \* the collection that is being deleted
  flow,      \* stage and task of the workspace
  kept,      \* each task and collection: new, on disk, left half deleted, gone for
             \* the window too
  odd        \* history: one of the two surprises that the README tells of

vars == <<nav, move, list, detail, removal, dropping, flow, kept, odd>>

Visit(page, id) == [page |-> page, id |-> id]
Home == Visit("home", None)
Visits == {Home, Visit("notes", None)}
            \cup {Visit("task", t) : t \in Notes \cup {None}}
            \cup {Visit("collections", c) : c \in Collections \cup {None}}

TypeOK ==
  /\ nav.visits \in Seq(Visits) /\ nav.index \in 1..Len(nav.visits)
  /\ move \in [way : {"none", "back", "forward"}, own : BOOLEAN]
  /\ list \in [items : SUBSET Notes, open : BOOLEAN,
               step : {"none", "sent", "read"}, read : SUBSET Notes]
  /\ detail \in Notes \cup {None}
  /\ removal \in [task : Notes \cup {None}, cleanup : BOOLEAN,
                  step : {"none", "asked", "deleting", "recovering", "abandoned"}]
  /\ dropping \in Collections \cup {None}
  /\ flow \in [stage : {"waiting", "processing", "done"}, task : Notes \cup {None},
               claimed : BOOLEAN]
  /\ kept \in [Notes \cup Collections -> {"new", "there", "left", "gone"}]
  /\ odd \in BOOLEAN

createShellNavigation == [visits |-> <<Home>>, index |-> 1]

Init ==
  /\ nav = createShellNavigation
  /\ move = [way |-> "none", own |-> FALSE]
  /\ list = [items |-> {}, open |-> FALSE, step |-> "sent", read |-> {}]
  /\ detail = None
  /\ removal = [task |-> None, step |-> "none", cleanup |-> TRUE]
  /\ dropping = None
  /\ flow = [stage |-> "waiting", task |-> None, claimed |-> FALSE]
  /\ kept \in [Notes \cup Collections -> {"new", "there", "left"}]
  /\ \A c \in Collections : kept[c] = "there"
  /\ odd = FALSE

-----------------------------------------------------------------------------
(* shellNavigation.ts. *)

Here(n) == n.visits[n.index]

Navigate(n, v) ==
  IF Here(n) = v THEN n
  ELSE [visits |-> Append(SubSeq(n.visits, 1, n.index), v), index |-> n.index + 1]

Replace(n, v) == [n EXCEPT !.visits[n.index] = v]

Moved(n, way) ==
  LET i == n.index + (IF way = "back" THEN -1 ELSE 1)
  IN IF i \in DOMAIN n.visits THEN [n EXCEPT !.index = i] ELSE n

\* removeShellVisits: the visits in dead go, the current one is replaced, and of
\* equal neighbours the first stays.
Removed(n, dead, substitute) ==
  LET Retained(i) == IF i \in dead THEN substitute ELSE n.visits[i]
      live == SelectSeq([i \in DOMAIN n.visits |-> i], LAMBDA i : i \notin dead \/ i = n.index)
      first == SelectSeq([k \in DOMAIN live |-> k],
                         LAMBDA k : k > 1 => Retained(live[k]) # Retained(live[k - 1]))
  IN [visits |-> [j \in DOMAIN first |-> Retained(live[first[j]])],
      index |-> Cardinality({j \in DOMAIN first : live[first[j]] <= n.index})]

To(n, v) == {i \in DOMAIN n.visits : n.visits[i] = v}
removeShellTask(n, t) == Removed(n, To(n, Visit("task", t)), Home)
removeShellCollection(n, c) ==
  Removed(n, To(n, Visit("collections", c)), Visit("collections", None))

\* Visits of runs that had no task yet go, too, other than the current one.
pruneUnavailableShellTasks(n, available) ==
  Removed(n, {i \in DOMAIN n.visits :
                /\ n.visits[i].page = "task"
                /\ IF n.visits[i].id = None THEN i # n.index
                   ELSE n.visits[i].id \notin available},
          Home)

-----------------------------------------------------------------------------
(* App.tsx and useHistoryController. *)

\* The effect of a new stage or task of the workspace.
Followed(n, f) ==
  IF f.stage = "waiting"
  THEN IF Here(n).page # "task" THEN n
       ELSE IF n.index > 1 /\ n.visits[n.index - 1].page = "home"
       THEN [visits |-> RemoveAt(n.visits, n.index), index |-> n.index - 1]
       ELSE Replace(n, Home)
  ELSE IF Here(n) = Visit("task", None) THEN Replace(n, Visit("task", f.task))
       ELSE Navigate(n, Visit("task", f.task))

Follows(n, f) ==
  /\ flow' = f
  /\ nav' = IF f.stage = flow.stage /\ f.task = flow.task THEN n ELSE Followed(n, f)

resetWorkflow == [flow EXCEPT !.stage = "waiting", !.task = None, !.claimed = FALSE]

Deletes == removal.step \notin {"none", "asked"}
canNavigateWorkflow ==
  flow.stage \notin {"submitting", "processing"} /\ ~Deletes
canMutateNotes == canNavigateWorkflow /\ dropping = None
canNavigate == canMutateNotes /\ removal.task = None

NoMove == [way |-> "none", own |-> FALSE]

\* A move that waits for a detail which was given up is a leftover.
Leftover == [move EXCEPT !.own = FALSE]

\* loadHistory: nothing is read while a deletion or a detail is awaited.
Refreshed(l, awaited) ==
  IF Deletes \/ awaited # None THEN l ELSE [l EXCEPT !.step = "sent", !.read = {}]
Overtaken(l) == [l EXCEPT !.step = "none", !.read = {}]
Closed(l) == [Overtaken(l) EXCEPT !.open = FALSE]

Window == <<removal, dropping, kept, odd>>

OnDisk == {t \in Notes : kept[t] = "there"}

ListReads ==
  /\ list.step = "sent"
  /\ list' = [list EXCEPT !.step = "read", !.read = OnDisk]
  /\ UNCHANGED <<nav, move, detail, flow, Window>>

\* The newest list arrives, or its error.
ListAnswer ==
  /\ list.step = "read"
  /\ list' \in {[list EXCEPT !.step = "none", !.items = list.read, !.read = {}],
                [list EXCEPT !.step = "none", !.read = {}]}
  /\ UNCHANGED <<nav, move, detail, flow, Window>>

Refresh ==
  /\ list' = Refreshed(list, detail)
  /\ UNCHANGED <<nav, move, detail, flow, Window>>

\* navigateTo and openCollection: the sheet is closed, and the library is read
\* again.  A collection that is gone is not offered any more.
Open(v) ==
  /\ canNavigate
  /\ nav' = Navigate(nav, v) /\ move' = NoMove
  /\ detail' = None /\ list' = Refreshed(Closed(list), None)
  /\ UNCHANGED <<flow, Window>>

\* Fault: the move that waits for another detail is not given up.
openShellTaskMoving(t) ==
  /\ canNavigate
  /\ detail' = t /\ list' = Overtaken(list)
  /\ UNCHANGED <<nav, move, flow, Window>>

\* openHistoryItem, from the sidebar or the library.
openShellTask(t) ==
  /\ canNavigate
  /\ move' = NoMove /\ detail' = t /\ list' = Overtaken(list)
  /\ UNCHANGED <<nav, flow, Window>>

\* The sheet of the library: it opens over the window and reads the list anew.
openHistory ==
  /\ ~list.open /\ removal.task = None
  /\ list' = [items |-> {}, open |-> TRUE, step |-> "sent", read |-> {}]
  /\ detail' = None /\ move' = Leftover
  /\ UNCHANGED <<nav, flow, Window>>

SheetSelects(t) ==
  /\ list.open /\ canNavigate
  /\ detail' = t /\ list' = Overtaken(list) /\ move' = Leftover
  /\ UNCHANGED <<nav, flow, Window>>

closeHistory ==
  /\ removal.task = None
  /\ list' = Closed(list) /\ detail' = None /\ move' = Leftover
  /\ UNCHANGED <<nav, flow, Window>>

\* The buttons back and forward: to a task whose detail has to be read first.
moveNavigation(way) ==
  /\ canNavigate
  /\ LET pruned == pruneUnavailableShellTasks(nav, list.items \cup {flow.task})
         next == Moved(pruned, way)
         t == Here(next).id
     IN /\ next # nav
        /\ IF next = pruned THEN nav' = pruned /\ UNCHANGED <<move, list, detail>>
           ELSE IF Here(next).page = "task" /\ t \notin {None, flow.task}
           THEN /\ nav' = pruned /\ move' = [way |-> way, own |-> TRUE]
                /\ detail' = t /\ list' = Closed(list)
           ELSE /\ nav' = next /\ move' = NoMove
                /\ detail' = None /\ list' = Refreshed(Closed(list), None)
  /\ UNCHANGED <<flow, Window>>

\* handleHistoryItemSelected, when the detail arrives and the task can be left.
Selected ==
  /\ detail # None /\ kept[detail] = "there"
  /\ IF canNavigate
     THEN /\ LET n == IF move.way = "none" THEN Navigate(nav, Visit("task", detail))
                      ELSE Moved(nav, move.way)
             IN Follows(n, [stage |-> "done", task |-> detail, claimed |-> FALSE])
          /\ odd' = (move.way # "none" /\ ~move.own)
          /\ move' = NoMove
          /\ list' = [Refreshed(list, None) EXCEPT !.open = FALSE]
     ELSE /\ list' = [list EXCEPT !.open = FALSE] /\ move' = Leftover
          /\ UNCHANGED <<nav, flow, odd>>
  /\ detail' = None
  /\ UNCHANGED <<removal, dropping, kept>>

DetailFails ==
  /\ detail # None
  /\ detail' = None /\ move' = Leftover
  /\ UNCHANGED <<nav, list, flow, Window>>

-----------------------------------------------------------------------------
(* Deletions. *)

requestHistoryItemDeletion(t) ==
  /\ removal.step = "none" /\ ~removal.cleanup /\ canMutateNotes
  /\ removal' = [removal EXCEPT !.task = t, !.step = "asked"]
  /\ detail' = None /\ move' = Leftover /\ list' = Overtaken(list)
  /\ UNCHANGED <<nav, flow, dropping, kept, odd>>

cancelHistoryItemDeletion ==
  /\ removal' = [removal EXCEPT !.task = None, !.step = "none"]
  /\ UNCHANGED <<nav, move, list, detail, flow, dropping, kept, odd>>

confirmHistoryItemDeletion ==
  /\ ~removal.cleanup /\ canMutateNotes
  /\ removal' = [removal EXCEPT !.step = "deleting"]
  /\ detail' = None /\ move' = Leftover /\ list' = Overtaken(list)
  /\ UNCHANGED <<nav, flow, dropping, kept, odd>>

\* handleHistoryItemDeleted: the workspace lets go of the task unless it works
\* on it, and no visit of it stays.
Deleted(t) ==
  /\ Follows(removeShellTask(nav, t),
             IF flow.stage # "processing" /\ flow.task = t
             THEN resetWorkflow ELSE flow)
  /\ move' = NoMove
  /\ kept' = [kept EXCEPT ![t] = "gone"]
  /\ odd' = (flow.stage = "processing" /\ flow.task = t)
  /\ UNCHANGED dropping

DeleteAnswer ==
  /\ removal.step \in {"deleting", "abandoned"}
  /\ Deleted(removal.task)
  /\ list' = [Overtaken(list) EXCEPT !.items = @ \ {removal.task}]
  /\ removal' = [task |-> None, step |-> "none", cleanup |-> FALSE]
  /\ UNCHANGED detail

\* An error, perhaps after the task was moved away; the list is read again.
DeleteFails ==
  /\ removal.step \in {"deleting", "abandoned"}
  /\ removal' = [removal EXCEPT !.step = IF @ = "deleting" THEN "recovering" ELSE "asked"]
  /\ kept' \in {kept, [kept EXCEPT ![removal.task] =
                         IF @ = "there" THEN "left" ELSE @]}
  /\ UNCHANGED <<nav, move, list, detail, flow, dropping, odd>>

Recovered ==
  /\ removal.step = "recovering"
  /\ removal' = [removal EXCEPT !.step = "asked"]
  /\ list' \in {list, [list EXCEPT !.items = OnDisk]}
  /\ UNCHANGED <<nav, move, detail, flow, dropping, kept, odd>>

\* resumeHistoryCleanup: at the start, and again after a deletion was left.
resumeHistoryCleanup ==
  /\ ~removal.cleanup /\ removal.step = "none" /\ canMutateNotes
  /\ \E t \in Notes : kept[t] = "left"
  /\ removal' = [removal EXCEPT !.cleanup = TRUE]
  /\ UNCHANGED <<nav, move, list, detail, flow, dropping, kept, odd>>

CleanupAnswer ==
  /\ removal.cleanup
  /\ \/ /\ removal' = [removal EXCEPT !.cleanup = FALSE]
        /\ UNCHANGED <<nav, move, list, detail, flow, dropping, kept, odd>>
     \/ \E t \in Notes :
          /\ kept[t] = "left"
          /\ Deleted(t) /\ detail' = None
          /\ list' = [Overtaken(list) EXCEPT !.items = @ \ {t}]
          /\ removal' = IF removal.task = t /\ ~Deletes
                        THEN [task |-> None, step |-> "none", cleanup |-> FALSE]
                        ELSE [removal EXCEPT !.cleanup = FALSE]

\* deleteCollection: its visits go when the desktop process has deleted it.
deleteCollection(c) ==
  /\ canNavigateWorkflow /\ dropping = None
  /\ kept[c] = "there" /\ Here(nav) = Visit("collections", c)
  /\ dropping' = c
  /\ UNCHANGED <<nav, move, list, detail, removal, flow, kept, odd>>

CollectionDeleted ==
  /\ dropping # None /\ dropping' = None
  /\ \/ /\ nav' = removeShellCollection(nav, dropping)
        /\ kept' = [kept EXCEPT ![dropping] = "gone"]
     \/ UNCHANGED <<nav, kept>>
  /\ UNCHANGED <<move, list, detail, removal, flow, odd>>

-----------------------------------------------------------------------------
(* The workspace, as the shell sees it. *)

\* submitTask claims the workspace, and then a run begins or is refused.
Submit ==
  /\ Here(nav).page = "home" /\ ~flow.claimed /\ flow.stage # "processing" /\ ~Deletes
  /\ removal.task = None
  /\ flow' = [flow EXCEPT !.claimed = TRUE]
  /\ UNCHANGED <<nav, move, list, detail, Window>>

Starts ==
  /\ flow.claimed
  /\ Follows(nav, IF flow.stage = "processing" THEN flow
                  ELSE [flow EXCEPT !.stage = "processing", !.task = None])
  /\ UNCHANGED <<move, list, detail, Window>>

Refused ==
  /\ flow.claimed /\ flow.stage # "processing"
  /\ flow' = [flow EXCEPT !.claimed = FALSE]
  /\ UNCHANGED <<nav, move, list, detail, Window>>

\* retryInsightGeneration on the task that is shown.
Retry ==
  /\ Here(nav).page = "task" /\ flow.stage = "done" /\ flow.task # None /\ ~flow.claimed
  /\ removal.task = None
  /\ Follows(nav, [flow EXCEPT !.stage = "processing"])
  /\ UNCHANGED <<move, list, detail, Window>>

\* A run ends: with its task, without one (an early error), or cancelled.
RunEnds ==
  /\ flow.stage = "processing"
  /\ \/ \E t \in Notes :
          /\ IF flow.task = None THEN kept[t] = "new" ELSE t = flow.task
          /\ kept' = [kept EXCEPT ![t] = IF @ = "new" THEN "there" ELSE @]
          /\ Follows(nav, [flow EXCEPT !.stage = "done", !.task = t, !.claimed = FALSE])
          /\ list' = Refreshed(list, detail)
     \/ /\ Follows(nav, [flow EXCEPT !.stage = "done", !.claimed = FALSE])
        /\ list' = Refreshed(list, detail) /\ UNCHANGED kept
     \/ /\ Follows(nav, resetWorkflow)
        /\ UNCHANGED <<list, kept>>
  /\ UNCHANGED <<move, detail, removal, dropping, odd>>

handleNewTaskFromToolbar ==
  /\ canNavigate
  /\ LET f == [flow EXCEPT !.stage = "waiting", !.task = None]
     IN Follows(Navigate(nav, Home), f)
  /\ move' = NoMove /\ detail' = None /\ list' = Closed(list)
  /\ UNCHANGED Window

\* onSignedOut: the window starts anew, unless a run has to be cancelled first.
SignedOut ==
  /\ list' = Closed(list) /\ detail' = None /\ move' = NoMove
  /\ IF flow.stage = "processing" THEN UNCHANGED <<nav, flow>>
     ELSE /\ nav' = createShellNavigation
          /\ flow' = resetWorkflow
  /\ removal' = IF Deletes THEN [removal EXCEPT !.step = "abandoned"]
                ELSE [removal EXCEPT !.task = None, !.step = "none"]
  /\ UNCHANGED <<dropping, kept, odd>>

-----------------------------------------------------------------------------
(* What the views offer.  The page of artifacts is one more page like that of *)
(* the notes, and left out.                                                   *)

Destinations == \E page \in {"home", "notes", "collections"} : Open(Visit(page, None))

SidebarCollections ==
  \E c \in Collections : kept[c] = "there" /\ Open(Visit("collections", c))

\* With the menu of each note.
SidebarNotes ==
  \/ Refresh \/ handleNewTaskFromToolbar
  \/ \E t \in list.items : openShellTask(t) \/ requestHistoryItemDeletion(t)

\* Beside what the sidebar offers, too: Refresh and openShellTask.
Library == Here(nav).page = "notes" /\ openHistory

\* The sheet lies over the window.
HistorySheet ==
  /\ list.open
  /\ \/ closeHistory
     \/ \E t \in list.items : SheetSelects(t) \/ requestHistoryItemDeletion(t)

HistoryDeleteConfirmation ==
  removal.step = "asked" /\ (cancelHistoryItemDeletion \/ confirmHistoryItemDeletion)

Answers ==
  \/ ListReads \/ ListAnswer \/ Selected \/ DetailFails
  \/ DeleteAnswer \/ DeleteFails \/ Recovered \/ CleanupAnswer \/ CollectionDeleted

Workspace == Submit \/ Starts \/ Refused \/ Retry \/ RunEnds

Next ==
  /\ ~odd
  /\ \/ Destinations \/ SidebarCollections \/ SidebarNotes \/ Library
     \/ HistorySheet \/ HistoryDeleteConfirmation
     \/ moveNavigation("back") \/ moveNavigation("forward")
     \/ resumeHistoryCleanup \/ \E c \in Collections : deleteCollection(c)
     \/ Answers \/ Workspace \/ SignedOut
  /\ Len(nav'.visits) <= MaxVisits

Spec == Init /\ [][Next]_vars

-----------------------------------------------------------------------------
\* Nothing leads to a task or a collection that the window knows to be deleted,
\* whatever was on its way when the deletion was answered; aside from a run that
\* was begun on a task while a clean-up deleted it.
NoDeadVisit ==
  ~odd => /\ \A i \in DOMAIN nav.visits :
               nav.visits[i].id # None => kept[nav.visits[i].id] # "gone"
          /\ \A t \in list.items : kept[t] # "gone"

\* The page of a task shows the task of its visit, whichever details were
\* awaited, overtaken or refused on the way; aside from a move whose detail was
\* given up and that the next selection of the sheet takes for its own.
NamedIsShown ==
  ~odd /\ Here(nav).page = "task" => Here(nav).id = flow.task
===============================================================================

------------------------------ MODULE PartsProofs ------------------------------
(***************************************************************************)
(* What holds of the components that MCParts puts side by side, from the   *)
(* invariant of each in StoredProofs and RunningProofs; for what is shown  *)
(* of the results it is here.                                              *)
(***************************************************************************)
EXTENDS MCParts, StoredProofs, RunningProofs, Sequences, TLAPS

-----------------------------------------------------------------------------
(* What is shown of the results of a note (Results).                        *)

-----------------------------------------------------------------------------
\* The commands that the sheet waits for.
MadeLoads == {c \in MadeWired : c.kind = "load" /\ c.live}
MadeSaves == {c \in MadeWired : c.kind = "save"}
MadeHas(w, S) == \E i \in DOMAIN w : w[i] \in S
MadeOneLoad(w) == \A i, j \in DOMAIN w : w[i] \in MadeLoads /\ w[j] \in MadeLoads => i = j

\* What the sheet waits for is in flight, and what is in flight is of the sheet.
MadeAwaits ==
  /\ editor.open /\ editor.loading /\ board.task # None => MadeHas(post, MadeLoads)
  /\ editor.saving => MadeHas(post, MadeSaves)
  /\ MadeOneLoad(post) /\ (MadeHas(post, MadeLoads) => editor.loading)
  /\ ~editor.early => \A i \in DOMAIN post : post[i].kind = "save" => post[i].buffer = editor.buffer

\* What is typed before the draft is read, and while it is saved.
MadeTyping ==
  /\ editor.loading /\ editor.dirty => editor.early
  /\ editor.saving => editor.dirty
  /\ ~editor.open => editor.seed = None /\ asked.candidate = None
  /\ editor.discard => asked.candidate = None

\* The sheet that has read the draft has that of the note.
MadeRead ==
  /\ editor.open /\ editor.ready /\ ~editor.early
  /\ board.task # None /\ folders[board.task] # None
  => /\ editor.saved = folders[board.task].draft
     /\ ~editor.dirty => editor.buffer = editor.saved

\* What is on disk and what the run has made of it, next to what is shown.
MadeSeedIn(seed, items) == seed \in {None, items}
MadeCommitted(target) == stint # None /\ stint.result # None /\ stint.target = target

MadeStored ==
  /\ \A n \in Notes : folders[n] # None => MadeSeedIn(folders[n].seed, folders[n].list)
  /\ board.task # None /\ folders[board.task] # None =>
       /\ folders[board.task].body = board.body
       /\ ~MadeCommitted("dissection") => folders[board.task].dissection = board.dissection
       /\ ~MadeCommitted("insights") => folders[board.task].list = board.list
       /\ MadeCommitted("insights") => folders[board.task].seed = None
       /\ stint # None /\ stint.result # None =>
            /\ folders[board.task].dissection = stint.result.dissection
            /\ folders[board.task].list = stint.result.list

MadeOfRun ==
  stint # None =>
    /\ stint.target = "draft" => MadeSeedIn(stint.seed, board.list)
    /\ stint.result # None =>
         /\ stint.target # "insights" => stint.result.list = board.list
         /\ stint.result.dissection =
              IF stint.target = "dissection" THEN board.body ELSE board.dissection

MadeOfList ==
  /\ MadeSeedIn(board.seed, board.list)
  /\ board.task # None => MadeSeedIn(editor.seed, board.list)
  /\ asked.candidate # None => MadeSeedIn(asked.candidate.seed, board.list)

MadeDissected == board.dissection # None /\ ~board.stale => board.dissection = board.body

MadeSame == ~astray => MadeStored /\ MadeOfRun /\ MadeOfList /\ MadeDissected

MadeInv2 == MadeInv /\ MadeAwaits /\ MadeTyping /\ MadeRead /\ MadeSame

-----------------------------------------------------------------------------
LEMMA MadePopped2 ==
  ASSUME NEW w \in Seq(MadeWired), w # <<>>, MadeOneLoad(w)
  PROVE  /\ MadeOneLoad(Tail(w)) /\ \A i \in DOMAIN Tail(w) : \E j \in DOMAIN w : Tail(w)[i] = w[j]
         /\ Head(w) \in MadeLoads => ~MadeHas(Tail(w), MadeLoads)
         /\ \A S : Head(w) \notin S => (MadeHas(Tail(w), S) <=> MadeHas(w, S))
         /\ \A S : MadeHas(Tail(w), S) => MadeHas(w, S)
         /\ \E j \in DOMAIN w : Head(w) = w[j]
<1>1. /\ Tail(w) \in Seq(MadeWired) /\ Head(w) = w[1] /\ 1 \in DOMAIN w
      /\ \A i \in DOMAIN Tail(w) : i \in Nat /\ i + 1 # 1 /\ i + 1 \in DOMAIN w /\ Tail(w)[i] = w[i + 1]
      /\ \A j \in DOMAIN w : j # 1 => j - 1 \in DOMAIN Tail(w) /\ Tail(w)[j - 1] = w[j]
  OBVIOUS
<1>2. MadeOneLoad(Tail(w))
  <2>1. ASSUME NEW i \in DOMAIN Tail(w), NEW j \in DOMAIN Tail(w),
               Tail(w)[i] \in MadeLoads, Tail(w)[j] \in MadeLoads
        PROVE  i = j
    <3>1. i + 1 = j + 1
      BY <1>1, <2>1 DEF MadeOneLoad
    <3>2. i \in Nat /\ j \in Nat
      BY <1>1
    <3> QED
      BY <3>1, <3>2
  <2> QED
    BY <2>1 DEF MadeOneLoad
<1>3. \A i \in DOMAIN Tail(w) : \E j \in DOMAIN w : Tail(w)[i] = w[j]
  BY <1>1
<1>4. Head(w) \in MadeLoads => ~MadeHas(Tail(w), MadeLoads)
  BY <1>1 DEF MadeOneLoad, MadeHas
<1>5. \A S : Head(w) \notin S => (MadeHas(Tail(w), S) <=> MadeHas(w, S))
  BY <1>1 DEF MadeHas
<1>6. \A S : MadeHas(Tail(w), S) => MadeHas(w, S)
  BY <1>3 DEF MadeHas
<1> QED
  BY <1>1, <1>2, <1>3, <1>4, <1>5, <1>6

LEMMA MadeSends2 ==
  ASSUME NEW w \in Seq(MadeWired), NEW c \in MadeWired, MadeOneLoad(w), c \in MadeLoads => ~MadeHas(w, MadeLoads)
  PROVE  /\ MadeOneLoad(Append(w, c)) /\ \A S : MadeHas(Append(w, c), S) <=> MadeHas(w, S) \/ c \in S
         /\ \A i \in DOMAIN Append(w, c) : Append(w, c)[i] = c \/ \E j \in DOMAIN w : Append(w, c)[i] = w[j]
<1>1. /\ Len(w) + 1 \in DOMAIN Append(w, c) /\ Append(w, c)[Len(w) + 1] = c
      /\ \A i \in DOMAIN Append(w, c) :
           \/ i = Len(w) + 1 /\ Append(w, c)[i] = c
           \/ i \in DOMAIN w /\ Append(w, c)[i] = w[i]
      /\ \A i \in DOMAIN w : i \in DOMAIN Append(w, c) /\ Append(w, c)[i] = w[i]
  OBVIOUS
<1>2. MadeOneLoad(Append(w, c))
  BY <1>1 DEF MadeOneLoad, MadeHas
<1>3. \A S : MadeHas(Append(w, c), S) <=> MadeHas(w, S) \/ c \in S
  BY <1>1 DEF MadeHas
<1> QED
  BY <1>1, <1>2, <1>3

LEMMA MadeLetGo2 ==
  ASSUME post \in Seq(MadeWired), post' = [i \in DOMAIN post |-> [post[i] EXCEPT !.live = FALSE]]
  PROVE  /\ DOMAIN post' = DOMAIN post /\ ~MadeHas(post', MadeLoads) /\ MadeOneLoad(post')
         /\ (MadeHas(post', MadeSaves) <=> MadeHas(post, MadeSaves))
         /\ \A i \in DOMAIN post' : post'[i].kind = post[i].kind /\ post'[i].buffer = post[i].buffer
<1>1. ASSUME NEW i \in DOMAIN post
      PROVE  /\ post'[i] \in MadeWired /\ ~post'[i].live /\ post'[i].kind = post[i].kind
             /\ post'[i].buffer = post[i].buffer /\ post[i] \in MadeWired
  <2>1. post[i] \in MadeWired /\ post'[i] = [post[i] EXCEPT !.live = FALSE]
    OBVIOUS
  <2> QED
    BY <2>1 DEF MadeWired
<1>2. DOMAIN post' = DOMAIN post
  OBVIOUS
<1> QED
  BY <1>1, <1>2 DEF MadeHas, MadeOneLoad, MadeLoads, MadeSaves

-----------------------------------------------------------------------------
\* What the sheet waits for stays so while its state and what is in flight do.
LEMMA MadeAwaitsKeep ==
  ASSUME MadeAwaits, UNCHANGED post, editor'.open = editor.open, editor'.loading = editor.loading,
         editor'.saving = editor.saving, editor'.early \/ editor'.buffer = editor.buffer,
         editor'.early \/ ~editor.early,
         \/ board'.task \in {board.task, None}
         \/ ~editor.open
  PROVE  MadeAwaits'
BY DEF MadeAwaits

\* Nothing is waited for that was not.
LEMMA MadeAwaitsNothing ==
  ASSUME MadeInv, MadeAwaits, post' = [i \in DOMAIN post |-> [post[i] EXCEPT !.live = FALSE]],
         editor'.open => board'.task = None, editor'.saving => editor.saving,
         \/ ~editor.saving
         \/ editor'.early = editor.early /\ editor'.buffer = editor.buffer
  PROVE  MadeAwaits'
<1>1. post \in Seq(MadeWired)
  BY DEF MadeInv, MadeTypes
<1>2. /\ ~MadeHas(post', MadeLoads) /\ MadeOneLoad(post') /\ (MadeHas(post', MadeSaves) <=> MadeHas(post, MadeSaves))
      /\ \A i \in DOMAIN post' : i \in DOMAIN post /\ post'[i].kind = post[i].kind
                                 /\ post'[i].buffer = post[i].buffer
  BY <1>1, MadeLetGo2
<1>3. ~editor.saving => \A i \in DOMAIN post : post[i].kind # "save"
  BY DEF MadeInv, MadeInFlight, MadeSound
<1> QED
  BY <1>2, <1>3 DEF MadeAwaits

\* What is shown and stored stays the same but for drafts, and seeds and candidates that
\* are given up.
LEMMA MadeSameKeeps ==
  ASSUME MadeSame, UNCHANGED <<board, stint, astray>>, folders \in [Notes -> MadeNatFolders \cup {None}],
         board.task \in Notes \cup {None},
         \A n \in Notes : /\ folders'[n] # None => folders[n] # None
                          /\ folders'[n] # None => 
                               /\ folders'[n].seed = folders[n].seed
                               /\ folders'[n].list = folders[n].list
                               /\ folders'[n].body = folders[n].body
                               /\ folders'[n].dissection = folders[n].dissection,
         editor'.seed \in {editor.seed, None}, asked'.candidate \in {asked.candidate, None}
  PROVE  MadeSame'
<1> SUFFICES ASSUME ~astray PROVE MadeStored' /\ MadeOfRun' /\ MadeOfList' /\ MadeDissected'
  BY DEF MadeSame
<1>1. MadeStored /\ MadeOfRun /\ MadeOfList /\ MadeDissected
  BY DEF MadeSame
<1>2. MadeStored'
  BY <1>1 DEF MadeStored, MadeCommitted
<1>3. MadeOfRun' /\ MadeDissected'
  BY <1>1 DEF MadeOfRun, MadeDissected
<1>4. MadeOfList'
  BY <1>1 DEF MadeOfList, MadeSeedIn
<1> QED
  BY <1>2, <1>3, <1>4

LEMMA MadeAsks2 ==
  ASSUME MadeInv2, MadeInv', UNCHANGED <<folders, board, stint, editor, post, astray>>,
         asked'.candidate \in {asked.candidate, None}
  PROVE  MadeInv2'
<1>1. MadeAwaits'
  BY MadeAwaitsKeep DEF MadeInv2
<1>2. MadeTyping' /\ MadeRead'
  BY DEF MadeInv2, MadeTyping, MadeRead
<1>3. MadeSame'
  BY MadeSameKeeps DEF MadeInv2, MadeInv, MadeTypes, MadeBoards
<1> QED
  BY <1>1, <1>2, <1>3 DEF MadeInv2

\* The board shows the same, with another seed of the list.
LEMMA MadeBoards2 ==
  ASSUME MadeInv2, MadeInv', UNCHANGED <<folders, stint, editor, post, astray, asked>>,
         board'.task = board.task, board'.body = board.body, board'.list = board.list,
         board'.dissection = board.dissection, board'.stale = board.stale,
         board'.seed = board.seed \/ MadeSeedIn(board'.seed, board.list)
  PROVE  MadeInv2'
<1>1. MadeAwaits'
  BY MadeAwaitsKeep DEF MadeInv2
<1>2. MadeTyping' /\ MadeRead'
  BY DEF MadeInv2, MadeTyping, MadeRead
<1>3. MadeSame'
  BY DEF MadeInv2, MadeSame, MadeStored, MadeOfRun, MadeOfList, MadeDissected, MadeSeedIn,
         MadeCommitted
<1> QED
  BY <1>1, <1>2, <1>3 DEF MadeInv2

-----------------------------------------------------------------------------
(* The steps of the workspace. *)

LEMMA MadeStarts2 == MadeConstants /\ Made!Init => MadeInv2
<1> SUFFICES ASSUME MadeConstants, Made!Init PROVE MadeInv2
  OBVIOUS
<1>1. PICK drafted \in BOOLEAN :
        folders = [n \in Notes |->
          [body |-> 0, list |-> 1, dissection |-> None, seed |-> IF drafted THEN 1 ELSE None,
           draft |-> IF drafted THEN [of |-> n, seed |-> 1, typed |-> 0] ELSE None]]
  BY DEF Made!Init
<1>2. /\ board = Made!createInitialWorkflow /\ stint = None /\ editor = Made!ClosedEditor
      /\ asked = Made!NothingAsked /\ post = <<>> /\ astray = FALSE
  BY DEF Made!Init
<1>3. /\ ~editor.open /\ ~editor.saving /\ ~editor.loading /\ ~editor.early
      /\ editor.seed = None
  BY <1>2 DEF Made!ClosedEditor
<1>4. asked.candidate = None
  BY <1>2 DEF Made!NothingAsked
<1>5. board.task = None /\ board.seed = None /\ board.dissection = None
  BY <1>2 DEF Made!createInitialWorkflow
<1>6. MadeAwaits
  BY <1>2, <1>3 DEF MadeAwaits, MadeHas, MadeOneLoad
<1>7. MadeTyping /\ MadeRead
  BY <1>3, <1>4 DEF MadeTyping, MadeRead
<1>8. \A n \in Notes : MadeSeedIn(folders[n].seed, folders[n].list)
  BY <1>1 DEF MadeSeedIn
<1>9. MadeSame
  BY <1>2, <1>3, <1>4, <1>5, <1>8
     DEF MadeSame, MadeStored, MadeOfRun, MadeOfList, MadeSeedIn, MadeDissected
<1> QED
  BY <1>6, <1>7, <1>9, MadeStarts DEF MadeInv2

LEMMA MadeRestores2 ==
  ASSUME MadeConstants, MadeInv2, MadeInv', NEW n \in Notes, Made!restoreHistoryItem(n)
  PROVE  MadeInv2'
<1> DEFINE f == folders[n]
           stale == f.dissection # None /\ f.dissection # f.body
           drafted == f.draft # None
<1>1. /\ board.target = None /\ ~editor.open /\ f # None
      /\ board' = [Made!createInitialWorkflow EXCEPT !.task = n, !.body = f.body, !.list = f.list,
                  !.hasDraft = drafted, !.dissection = f.dissection, !.stale = stale,
                  !.found = Made!StoredEdit(n)]
      /\ asked' = [asked EXCEPT !.tab = None, !.preview = FALSE, !.candidate = None]
      /\ UNCHANGED <<folders, stint, editor, post, astray>>
  BY DEF Made!restoreHistoryItem, Made!canNavigateWorkflow, Made!isProcessingStage,
         Made!Uncovered, Made!resetTaskUi, Made!historyItemToWorkerResult
<1>2. stint = None /\ asked \in MadeQuestions
  BY <1>1 DEF MadeInv2, MadeInv, MadeTypes, MadeRunning, MadeBoards, MadeStints, MadeConstants
<1>3. asked'.candidate = None
  BY <1>1, <1>2 DEF MadeQuestions
<1>4. /\ board'.task = n /\ board'.body = f.body /\ board'.list = f.list /\ board'.seed = None
      /\ board'.dissection = f.dissection /\ board'.stale = stale
  BY <1>1 DEF Made!createInitialWorkflow
<1>5. MadeAwaits'
  BY <1>1, MadeAwaitsKeep DEF MadeInv2
<1>6. MadeTyping' /\ MadeRead'
  BY <1>1, <1>3 DEF MadeInv2, MadeTyping, MadeRead
<1>7. MadeSame'
  <2>1. editor.seed = None
    BY <1>1 DEF MadeInv2, MadeTyping
  <2> SUFFICES ASSUME ~astray PROVE MadeStored' /\ MadeOfRun' /\ MadeOfList' /\ MadeDissected'
    BY <1>1 DEF MadeSame
  <2>2. MadeStored
    BY DEF MadeInv2, MadeSame
  <2>3. MadeStored'
    BY <1>1, <1>2, <1>4, <2>2 DEF MadeStored, MadeCommitted
  <2>4. MadeOfRun' /\ MadeOfList' /\ MadeDissected'
    BY <1>1, <1>2, <1>3, <1>4, <2>1 DEF MadeOfRun, MadeOfList, MadeDissected, MadeSeedIn
  <2> QED
    BY <2>3, <2>4
<1> QED
  BY <1>5, <1>6, <1>7 DEF MadeInv2

\* The workspace is emptied: nothing runs, and what the sheet waits for is given up.
LEMMA MadeEmpties2 ==
  ASSUME MadeConstants, MadeInv2, MadeInv', board.target = None, board' = Made!createInitialWorkflow,
         Made!resetTaskUi, UNCHANGED <<stint, astray>>, editor'.open = editor.open,
         editor'.seed = editor.seed, editor'.loading = editor.loading,
         editor'.saving = editor.saving, editor'.dirty = editor.dirty,
         editor'.buffer = editor.buffer, editor'.early = editor.early,
         \/ UNCHANGED post /\ ~editor.open
         \/ post' = [i \in DOMAIN post |-> [post[i] EXCEPT !.live = FALSE]],
         \A n \in Notes : folders'[n] \in {folders[n], None}
  PROVE  MadeInv2'
<1>1. stint = None /\ asked \in MadeQuestions
  BY DEF MadeInv2, MadeInv, MadeTypes, MadeRunning, MadeBoards, MadeStints, MadeConstants
<1>2. asked'.candidate = None
  BY <1>1 DEF Made!resetTaskUi, MadeQuestions
<1>3. board'.task = None /\ board'.seed = None /\ board'.dissection = None
  BY DEF Made!createInitialWorkflow
<1>4. MadeAwaits'
  <2>1. CASE UNCHANGED post /\ ~editor.open
    BY <2>1, MadeAwaitsKeep DEF MadeInv2
  <2>2. CASE post' = [i \in DOMAIN post |-> [post[i] EXCEPT !.live = FALSE]]
    BY <1>3, <2>2, MadeAwaitsNothing DEF MadeInv2
  <2> QED
    BY <2>1, <2>2
<1>5. MadeTyping' /\ MadeRead'
  BY <1>2, <1>3 DEF MadeInv2, MadeTyping, MadeRead
<1>6. MadeSame'
  BY <1>1, <1>2, <1>3
     DEF MadeInv2, MadeSame, MadeStored, MadeOfRun, MadeOfList, MadeDissected, MadeSeedIn
<1> QED
  BY <1>4, <1>5, <1>6 DEF MadeInv2

LEMMA MadeDeletions2 ==
  ASSUME MadeConstants, MadeInv2, MadeInv', Made!completeHistoryTaskDeletion PROVE MadeInv2'
<1>1. leaving \in Notes /\ UNCHANGED <<stint, astray>>
      /\ folders \in [Notes -> MadeNatFolders \cup {None}]
      /\ board.task \in Notes \cup {None}
  BY DEF Made!completeHistoryTaskDeletion, MadeInv2, MadeInv, MadeTypes, MadeBoards
<1>2. CASE UNCHANGED <<folders, board, asked, editor, post>>
  BY <1>1, <1>2, MadeAsks2
<1>3. CASE folders' = [folders EXCEPT ![leaving] = None]
  <2>1. \A n \in Notes : folders'[n] \in {folders[n], None}
    BY <1>1, <1>3
  <2>2. CASE UNCHANGED <<board, asked, editor, post>>
    <3>1. MadeAwaits'
      BY <2>2, MadeAwaitsKeep DEF MadeInv2
    <3>2. MadeTyping' /\ MadeRead'
      BY <1>1, <2>1, <2>2 DEF MadeInv2, MadeTyping, MadeRead
    <3>3. MadeSame'
      BY <1>1, <2>1, <2>2, MadeSameKeeps DEF MadeInv2
    <3> QED
      BY <3>1, <3>2, <3>3 DEF MadeInv2
  <2>3. CASE /\ ~Made!isProcessingStage /\ board' = Made!createInitialWorkflow /\ Made!resetTaskUi
             /\ editor' = [editor EXCEPT !.ready = FALSE, !.discard = FALSE]
             /\ post' = [i \in DOMAIN post |-> [post[i] EXCEPT !.live = FALSE]]
    <3>1. editor \in MadeEditors
      BY DEF MadeInv2, MadeInv, MadeTypes
    <3>2. /\ editor'.open = editor.open /\ editor'.seed = editor.seed
          /\ editor'.loading = editor.loading /\ editor'.saving = editor.saving
          /\ editor'.dirty = editor.dirty /\ editor'.buffer = editor.buffer
          /\ editor'.early = editor.early
      BY <2>3, <3>1 DEF MadeEditors
    <3> QED
      BY <1>1, <2>1, <2>3, <3>2, MadeEmpties2 DEF Made!isProcessingStage
  <2> QED
    BY <1>3, <2>2, <2>3 DEF Made!completeHistoryTaskDeletion, Made!isProcessingStage
<1> QED
  BY <1>2, <1>3 DEF Made!completeHistoryTaskDeletion

LEMMA MadeTextSaves2 ==
  ASSUME MadeConstants, MadeInv2, MadeInv', Made!applyTranscriptSave PROVE MadeInv2'
<1> DEFINE n == deeds + 1
           t == board.task
           f == [folders[t] EXCEPT !.body = n]
           stale == board.stale \/ board.dissection # None
<1>1. /\ t \in Notes /\ board.target = None /\ folders[t] # None /\ folders[t] \in MadeNatFolders
      /\ board \in MadeBoards
      /\ folders' = [folders EXCEPT ![t] = f] /\ folders \in [Notes -> MadeNatFolders \cup {None}]
      /\ board' = [board EXCEPT !.body = n, !.stale = stale]
      /\ UNCHANGED <<stint, editor, asked, post, astray>>
  BY DEF Made!applyTranscriptSave, Made!isProcessingStage, MadeInv2, MadeInv, MadeTypes,
         MadeBoards
<1>2. stint = None
  BY <1>1 DEF MadeInv2, MadeInv, MadeTypes, MadeRunning, MadeStints, MadeBoards, MadeConstants
<1> HIDE DEF n
<1>3. /\ f.body = n /\ f.draft = folders[t].draft /\ f.seed = folders[t].seed
      /\ f.list = folders[t].list /\ f.dissection = folders[t].dissection
  BY <1>1 DEF MadeNatFolders
<1> HIDE DEF f, stale, t
<1>4. /\ board'.task = board.task /\ board'.body = n /\ board'.list = board.list
      /\ board'.seed = board.seed /\ board'.dissection = board.dissection /\ board'.stale = stale
  BY <1>1 DEF MadeBoards
<1>5. folders'[t] = f /\ \A m \in Notes : m # t => folders'[m] = folders[m]
  BY <1>1
<1>6. MadeAwaits'
  BY <1>1, <1>4, MadeAwaitsKeep DEF MadeInv2
<1>7. MadeTyping' /\ MadeRead'
  BY <1>1, <1>3, <1>4, <1>5 DEF MadeInv2, MadeTyping, MadeRead, t
<1>8. MadeSame'
  <2> SUFFICES ASSUME ~astray PROVE MadeStored' /\ MadeOfRun' /\ MadeOfList' /\ MadeDissected'
    BY <1>1 DEF MadeSame
  <2>1. MadeStored /\ MadeOfList
    BY DEF MadeInv2, MadeSame
  <2>2. MadeStored'
    BY <1>1, <1>2, <1>3, <1>4, <1>5, <2>1 DEF MadeStored, MadeCommitted, t
  <2>3. MadeOfRun' /\ MadeOfList' /\ MadeDissected'
    BY <1>1, <1>2, <1>4, <2>1 DEF MadeOfRun, MadeOfList, MadeDissected, stale
  <2> QED
    BY <2>2, <2>3
<1> QED
  BY <1>6, <1>7, <1>8 DEF MadeInv2

-----------------------------------------------------------------------------
(* The steps of the run. *)

LEMMA MadeSeeds2 ==
  ASSUME MadeInv2, MadeInv', NEW seed \in {board.list, None}, Made!setDraftSeedInsightId(seed)
  PROVE  MadeInv2'
<1>1. /\ board' = [board EXCEPT !.seed = seed] /\ board \in MadeBoards
      /\ UNCHANGED <<folders, stint, editor, asked, post, astray>>
  BY DEF Made!setDraftSeedInsightId, MadeInv2, MadeInv, MadeTypes
<1>2. /\ board'.task = board.task /\ board'.body = board.body /\ board'.list = board.list
      /\ board'.dissection = board.dissection /\ board'.stale = board.stale
      /\ MadeSeedIn(board'.seed, board.list)
  BY <1>1 DEF MadeBoards, MadeSeedIn
<1> QED
  BY <1>1, <1>2, MadeBoards2

LEMMA MadeCancels2 ==
  ASSUME MadeInv2, MadeInv', Made!requestProcessingCancellation \/ Made!restoreProcessingAfterCancellationFailure
  PROVE  MadeInv2'
<1>1. /\ \E c \in BOOLEAN : board' = [board EXCEPT !.cancelling = c]
      /\ board \in MadeBoards /\ UNCHANGED <<folders, stint, editor, asked, post, astray>>
  BY DEF Made!requestProcessingCancellation, Made!restoreProcessingAfterCancellationFailure,
         MadeInv2, MadeInv, MadeTypes
<1>2. /\ board'.task = board.task /\ board'.body = board.body /\ board'.list = board.list
      /\ board'.dissection = board.dissection /\ board'.stale = board.stale
      /\ board'.seed = board.seed
  BY <1>1 DEF MadeBoards
<1> QED
  BY <1>1, <1>2, MadeBoards2

LEMMA MadeRetries2 ==
  ASSUME MadeConstants, MadeInv2, MadeInv', NEW target \in Made!Targets, NEW seed, NEW sheets \in MadeQuestions,
         Made!retryInsightGeneration(target, seed, sheets),
         sheets.candidate \in {asked.candidate, None},
         target = "draft" => seed = board.seed
  PROVE  MadeInv2'
<1>1. UNCHANGED <<folders, editor, post, astray>>
  BY DEF Made!retryInsightGeneration
<1>2. CASE UNCHANGED <<board, stint>> /\ asked' = sheets
  BY <1>1, <1>2, MadeAsks2
<1> DEFINE warned == target = "draft" /\ (asked.warned \/ target \in board.errors)
           errors == board.errors \ {target}
<1>3. CASE /\ board.target = None /\ board.task # None
           /\ board' = [board EXCEPT !.target = target, !.errors = errors]
           /\ stint' = [of |-> board.task, target |-> target, seed |-> seed, result |-> None,
                        warned |-> warned]
           /\ asked' = [sheets EXCEPT !.tab = None]
  <2> HIDE DEF warned, errors
  <2>1. stint = None /\ board \in MadeBoards
    BY <1>3 DEF MadeInv2, MadeInv, MadeTypes, MadeRunning, MadeStints, MadeBoards, MadeConstants
  <2>2. /\ board'.task = board.task /\ board'.body = board.body /\ board'.list = board.list
        /\ board'.dissection = board.dissection /\ board'.stale = board.stale
        /\ board'.seed = board.seed
    BY <1>3, <2>1 DEF MadeBoards
  <2>3. asked'.candidate \in {asked.candidate, None}
    BY <1>3 DEF MadeQuestions
  <2>4. stint'.result = None /\ stint'.target = target /\ stint'.seed = seed
    BY <1>3
  <2>5. MadeAwaits'
    BY <1>1, <2>2, MadeAwaitsKeep DEF MadeInv2
  <2>6. MadeTyping' /\ MadeRead'
    BY <1>1, <2>2, <2>3 DEF MadeInv2, MadeTyping, MadeRead
  <2>7. MadeSame'
    <3> SUFFICES ASSUME ~astray PROVE MadeStored' /\ MadeOfRun' /\ MadeOfList' /\ MadeDissected'
      BY <1>1 DEF MadeSame
    <3>1. MadeStored /\ MadeOfList /\ MadeDissected
      BY DEF MadeInv2, MadeSame
    <3>2. MadeStored'
      BY <1>1, <2>1, <2>2, <2>4, <3>1 DEF MadeStored, MadeCommitted
    <3>3. MadeOfRun' /\ MadeOfList' /\ MadeDissected'
      BY <1>1, <2>2, <2>3, <2>4, <3>1 DEF MadeOfRun, MadeOfList, MadeDissected, MadeSeedIn
    <3> QED
      BY <3>2, <3>3
  <2> QED
    BY <2>5, <2>6, <2>7 DEF MadeInv2
<1> QED
  BY <1>2, <1>3 DEF Made!retryInsightGeneration, Made!isProcessingStage

LEMMA MadeConfirms2 ==
  ASSUME MadeConstants, MadeInv2, MadeInv', Made!confirmDissection \/ Made!confirmInsightPreferences \/ Made!confirmDraftGeneration
  PROVE  MadeInv2'
<1>1. asked \in MadeQuestions /\ "dissection" \in Made!Targets /\ "insights" \in Made!Targets /\ "draft" \in Made!Targets
  BY DEF MadeInv2, MadeInv, MadeTypes, Made!Targets
<1> DEFINE sheets == [asked EXCEPT !.preview = FALSE]
           closed == [asked EXCEPT !.confirm = FALSE, !.warned = FALSE]
<1>2. /\ sheets \in MadeQuestions /\ sheets.candidate = asked.candidate
      /\ closed \in MadeQuestions /\ closed.candidate = asked.candidate
  BY <1>1 DEF MadeQuestions
<1> HIDE DEF sheets, closed
<1>3. CASE Made!confirmDissection
  <2>1. Made!retryInsightGeneration("dissection", None, sheets)
    BY <1>3 DEF Made!confirmDissection, sheets
  <2> QED
    BY <1>1, <1>2, <2>1, MadeRetries2
<1>4. CASE Made!confirmInsightPreferences
  BY <1>1, <1>4, MadeRetries2 DEF Made!confirmInsightPreferences
<1>5. CASE Made!confirmDraftGeneration
  <2>1. \/ asked' = closed /\ UNCHANGED <<folders, board, stint, editor, post, astray>>
        \/ Made!retryInsightGeneration("draft", board.seed, closed)
    BY <1>5 DEF Made!confirmDraftGeneration, closed
  <2>2. CASE asked' = closed /\ UNCHANGED <<folders, board, stint, editor, post, astray>>
    BY <1>2, <2>2, MadeAsks2
  <2>3. CASE Made!retryInsightGeneration("draft", board.seed, closed)
    BY <1>1, <1>2, <2>3, MadeRetries2
  <2> QED
    BY <2>1, <2>2, <2>3
<1> QED
  BY <1>3, <1>4, <1>5

\* What a run changes of a folder.
LEMMA MadeMade2 ==
  ASSUME stint \in MadeStints, NEW f \in MadeNatFolders, NEW result,
         result = CASE stint.target = "insights" -> [f EXCEPT !.list = @ + 1, !.seed = None]
                    [] stint.target = "draft" ->
                         [f EXCEPT !.seed = stint.seed,
                            !.draft = [of |-> stint.of, seed |-> stint.seed, typed |-> 0]]
                    [] OTHER -> [f EXCEPT !.dissection = f.body]
  PROVE  /\ result.body = f.body
         /\ stint.target # "draft" => result.draft = f.draft
         /\ stint.target # "insights" => result.list = f.list
         /\ stint.target = "insights" => result.seed = None
         /\ stint.target = "draft" => result.seed = stint.seed
         /\ stint.target = "dissection" => result.seed = f.seed
         /\ result.dissection = IF stint.target = "dissection" THEN f.body ELSE f.dissection
<1>1. stint.target \in {"insights", "draft", "dissection"}
  BY DEF MadeStints, Made!Targets
<1>2. CASE stint.target = "insights"
  <2> DEFINE n == f.list + 1
  <2>1. result = [f EXCEPT !.list = n, !.seed = None]
    BY <1>2
  <2> HIDE DEF n
  <2> QED
    BY <1>2, <2>1 DEF MadeNatFolders
<1>3. CASE stint.target = "draft"
  <2> DEFINE d == [of |-> stint.of, seed |-> stint.seed, typed |-> 0]
  <2>1. result = [f EXCEPT !.seed = stint.seed, !.draft = d]
    BY <1>3
  <2> HIDE DEF d
  <2> QED
    BY <1>3, <2>1 DEF MadeNatFolders
<1>4. CASE stint.target = "dissection"
  <2>1. result = [f EXCEPT !.dissection = f.body]
    BY <1>4
  <2> QED
    BY <1>4, <2>1 DEF MadeNatFolders
<1> QED
  BY <1>1, <1>2, <1>3, <1>4

LEMMA MadeCommits2 ==
  ASSUME MadeConstants, MadeInv2, MadeInv', Made!WorkerCommits
  PROVE  MadeInv2'
<1> DEFINE n == stint.of
           f == folders[n]
           result == CASE stint.target = "insights" -> [f EXCEPT !.list = @ + 1, !.seed = None]
                       [] stint.target = "draft" ->
                            [f EXCEPT !.seed = stint.seed,
                               !.draft = [of |-> stint.of, seed |-> stint.seed, typed |-> 0]]
                       [] OTHER -> [f EXCEPT !.dissection = f.body]
<1>1. /\ stint # None /\ stint.result = None /\ f # None
      /\ folders' = [folders EXCEPT ![n] = result]
      /\ stint' = [stint EXCEPT !.result = result]
      /\ UNCHANGED <<board, editor, asked, post, astray>>
  BY DEF Made!WorkerCommits
<1>2. /\ stint \in MadeStints /\ n \in Notes /\ f \in MadeNatFolders /\ n = board.task
      /\ folders \in [Notes -> MadeNatFolders \cup {None}]
  BY <1>1 DEF MadeInv2, MadeInv, MadeTypes, MadeStints, MadeRunning
<1>3. /\ result.body = f.body
      /\ stint.target # "draft" => result.draft = f.draft
      /\ stint.target # "insights" => result.list = f.list
      /\ stint.target = "insights" => result.seed = None
      /\ stint.target = "draft" => result.seed = stint.seed
      /\ stint.target = "dissection" => result.seed = f.seed
      /\ result.dissection = IF stint.target = "dissection" THEN f.body ELSE f.dissection
  BY <1>1, <1>2, MadeMade2
<1>4. stint.target \in {"insights", "draft", "dissection"}
  BY <1>2 DEF MadeStints, Made!Targets
<1> HIDE DEF result
<1>5. folders'[n] = result /\ \A m \in Notes : m # n => folders'[m] = folders[m]
  BY <1>1, <1>2
<1>6. /\ stint' # None /\ stint'.target = stint.target /\ stint'.result = result
      /\ stint'.seed = stint.seed
  <2>1. stint' \in [of : Notes, target : Made!Targets, seed : MadeSeeds, result : {result}, warned : BOOLEAN]
        /\ stint'.target = stint.target /\ stint'.result = result /\ stint'.seed = stint.seed
    BY <1>1, <1>2 DEF MadeStints
  <2>2. result \in MadeNatFolders
    BY <1>1, <1>2, MadeMade DEF MadeInv2, MadeInv, MadeFiled, result
  <2>3. stint' \in MadeStints
    BY <2>1, <2>2 DEF MadeStints
  <2> QED
    BY <2>1, <2>3 DEF MadeConstants
<1> HIDE DEF f, n
<1>7. MadeAwaits'
  BY <1>1, MadeAwaitsKeep DEF MadeInv2
<1>8. MadeTyping' /\ MadeRead'
  <2>1. stint.target = "draft" => ~editor.open
    BY <1>1 DEF MadeInv2, MadeInv, MadeWarned
  <2> QED
    BY <1>1, <1>2, <1>3, <1>5, <2>1 DEF MadeInv2, MadeTyping, MadeRead, f, n
<1>9. MadeSame'
  <2> SUFFICES ASSUME ~astray PROVE MadeStored' /\ MadeOfRun' /\ MadeOfList' /\ MadeDissected'
    BY <1>1 DEF MadeSame
  <2>1. MadeStored /\ MadeOfRun /\ MadeOfList /\ MadeDissected
    BY DEF MadeInv2, MadeSame
  <2>2. /\ f.body = board.body /\ f.dissection = board.dissection /\ f.list = board.list
        /\ MadeSeedIn(f.seed, f.list)
    BY <1>1, <1>2, <2>1 DEF MadeStored, MadeCommitted, f, n, MadeConstants
  <2>3. MadeOfRun' /\ MadeOfList' /\ MadeDissected'
    BY <1>1, <1>3, <1>6, <2>1, <2>2 DEF MadeOfRun, MadeOfList, MadeDissected
  <2>4. MadeSeedIn(result.seed, result.list)
    BY <1>1, <1>3, <1>4, <2>1, <2>2 DEF MadeOfRun, MadeSeedIn
  <2>5. MadeStored'
    BY <1>1, <1>2, <1>3, <1>4, <1>5, <1>6, <2>1, <2>2, <2>4 DEF MadeStored, MadeCommitted, n
  <2> QED
    BY <2>3, <2>5
<1> QED
  BY <1>7, <1>8, <1>9 DEF MadeInv2

LEMMA MadeFinishes2 ==
  ASSUME MadeConstants, MadeInv2, MadeInv', Made!finishInsightRetry
  PROVE  MadeInv2'
<1> DEFINE f == stint.result
           hasDraft == f.draft # None
           draft == IF stint.target = "draft" THEN f.draft ELSE None
           seed == IF stint.target = "insights" THEN None ELSE Made!Ended.seed
           edited == Made!Ended.edited /\ stint.target # "draft"
           stale == Made!Ended.stale /\ stint.target # "dissection"
<1>1. /\ stint # None /\ f # None /\ stint' = None
      /\ UNCHANGED <<folders, editor, asked, post>>
      /\ astray' = (astray \/ (editor.open /\ f.list # board.list))
      /\ board' = [Made!Ended EXCEPT !.list = f.list, !.hasDraft = hasDraft, !.draft = draft,
                     !.seed = seed, !.edited = edited, !.dissection = f.dissection,
                     !.stale = stale]
  BY DEF Made!finishInsightRetry
<1>2. /\ Made!Ended \in MadeBoards /\ Made!Ended.task = board.task /\ Made!Ended.body = board.body
      /\ Made!Ended.seed = board.seed /\ Made!Ended.stale = board.stale
  BY DEF MadeInv2, MadeInv, MadeTypes, Made!Ended, MadeBoards
<1>3. /\ seed = IF stint.target = "insights" THEN None ELSE board.seed
      /\ stale <=> board.stale /\ stint.target # "dissection"
  BY <1>2
<1> HIDE DEF f, hasDraft, draft, seed, edited, stale
<1>4. /\ board'.task = board.task /\ board'.body = board.body /\ board'.list = f.list
      /\ board'.seed = seed /\ board'.dissection = f.dissection /\ board'.stale = stale
  BY <1>1, <1>2 DEF MadeBoards
<1>5. MadeAwaits'
  BY <1>1, <1>4, MadeAwaitsKeep DEF MadeInv2
<1>6. MadeTyping' /\ MadeRead'
  BY <1>1, <1>4 DEF MadeInv2, MadeTyping, MadeRead
<1>7. MadeSame'
  <2> SUFFICES ASSUME ~astray' PROVE MadeStored' /\ MadeOfRun' /\ MadeOfList' /\ MadeDissected'
    BY DEF MadeSame
  <2>1. MadeStored /\ MadeOfRun /\ MadeOfList /\ MadeDissected /\ (editor.open => f.list = board.list)
    BY <1>1 DEF MadeInv2, MadeSame
  <2>2. MadeStored'
    BY <1>1, <1>4, <2>1 DEF MadeStored, MadeCommitted, f
  <2>3. MadeOfRun'
    BY <1>1 DEF MadeOfRun
  <2>4. ~editor.open => editor.seed = None /\ asked.candidate = None
    BY DEF MadeInv2, MadeTyping
  <2>5. stint.target # "insights" => f.list = board.list
    BY <1>1, <2>1 DEF MadeOfRun, f
  <2>6. MadeOfList'
    BY <1>1, <1>3, <1>4, <2>1, <2>4, <2>5 DEF MadeOfList, MadeSeedIn
  <2>7. MadeDissected'
    BY <1>1, <1>3, <1>4, <2>1 DEF MadeDissected, MadeOfRun, f
  <2> QED
    BY <2>2, <2>3, <2>6, <2>7
<1> QED
  BY <1>5, <1>6, <1>7 DEF MadeInv2

LEMMA MadeFails2 == ASSUME MadeConstants, MadeInv2, MadeInv', Made!RunFails PROVE MadeInv2'
<1>1. /\ stint # None /\ stint.result = None /\ stint' = None /\ stint \in MadeStints
      /\ stint.of \in Notes /\ stint.of = board.task /\ folders \in [Notes -> MadeNatFolders \cup {None}]
      /\ UNCHANGED <<editor, asked, post, astray>>
  BY DEF Made!RunFails, MadeInv2, MadeInv, MadeTypes, MadeStints, MadeRunning
<1>2. PICK still \in BOOLEAN :
        board' = [Made!Ended EXCEPT !.errors = IF still THEN @ \cup {stint.target} ELSE @ \ {stint.target},
             !.seed = IF stint.target = "insights" THEN None ELSE @,
             !.edited = @ /\ (stint.target # "draft" \/ still),
             !.found = IF stint.target = "draft" /\ ~still THEN Made!StoredEdit(stint.of) ELSE @]
  BY DEF Made!RunFails
<1> DEFINE errors == IF still THEN Made!Ended.errors \cup {stint.target}
                     ELSE Made!Ended.errors \ {stint.target}
           seed == IF stint.target = "insights" THEN None ELSE Made!Ended.seed
           edited == Made!Ended.edited /\ (stint.target # "draft" \/ still)
           found == IF stint.target = "draft" /\ ~still THEN Made!StoredEdit(stint.of) ELSE Made!Ended.found
<1>3. board' = [Made!Ended EXCEPT !.errors = errors, !.seed = seed, !.edited = edited, !.found = found]
  BY <1>2
<1>4. /\ Made!Ended \in MadeBoards /\ Made!Ended.task = board.task /\ Made!Ended.body = board.body
      /\ Made!Ended.list = board.list /\ Made!Ended.dissection = board.dissection
      /\ Made!Ended.seed = board.seed /\ Made!Ended.stale = board.stale
  BY DEF MadeInv2, MadeInv, MadeTypes, Made!Ended, MadeBoards
<1>5. seed \in {None, board.seed}
  BY <1>4
<1> HIDE DEF errors, seed, edited, found
<1>6. /\ board'.task = board.task /\ board'.body = board.body /\ board'.list = board.list
      /\ board'.dissection = board.dissection /\ board'.stale = board.stale
      /\ board'.seed = seed
  BY <1>3, <1>4 DEF MadeBoards
<1>7. \A n \in Notes :
        /\ folders'[n] # None => 
             /\ folders[n] # None /\ folders'[n].draft = folders[n].draft
             /\ folders'[n].list = folders[n].list /\ folders'[n].body = folders[n].body
             /\ folders'[n].dissection = folders[n].dissection
             /\ \/ folders'[n].seed = folders[n].seed
                \/ n = board.task /\ stint.target = "draft" /\ folders'[n].seed = stint.seed
  <2>1. CASE UNCHANGED folders
    BY <2>1
  <2>2. CASE stint.target = "draft" /\ folders[stint.of] # None /\ folders' = [folders EXCEPT ![stint.of].seed = stint.seed]
    <3> DEFINE n == stint.of
               f == [folders[n] EXCEPT !.seed = stint.seed]
    <3>1. n \in Notes /\ folders[n] \in MadeNatFolders
      BY <1>1, <2>2
    <3>2. /\ f.draft = folders[n].draft /\ f.list = folders[n].list /\ f.body = folders[n].body
          /\ f.dissection = folders[n].dissection /\ f.seed = stint.seed
      BY <3>1 DEF MadeNatFolders
    <3>3. folders' = [folders EXCEPT ![n] = f]
      BY <1>1, <2>2, <3>1
    <3> HIDE DEF f
    <3> QED
      BY <1>1, <2>2, <3>1, <3>2, <3>3
  <2> QED
    BY <2>1, <2>2 DEF Made!RunFails
<1>8. MadeAwaits'
  BY <1>1, <1>6, MadeAwaitsKeep DEF MadeInv2
<1>9. MadeTyping' /\ MadeRead'
  BY <1>1, <1>6, <1>7 DEF MadeInv2, MadeTyping, MadeRead
<1>10. MadeSame'
  <2> SUFFICES ASSUME ~astray PROVE MadeStored' /\ MadeOfRun' /\ MadeOfList' /\ MadeDissected'
    BY <1>1 DEF MadeSame
  <2>1. MadeStored /\ MadeOfRun /\ MadeOfList /\ MadeDissected
    BY DEF MadeInv2, MadeSame
  <2>2. MadeOfRun' /\ MadeOfList' /\ MadeDissected'
    BY <1>1, <1>5, <1>6, <2>1 DEF MadeOfRun, MadeOfList, MadeDissected, MadeSeedIn
  <2>3. board.task \in Notes /\ None \notin Notes
    BY <1>1 DEF MadeConstants
  <2>4. folders[board.task] # None =>
          /\ folders[board.task].body = board.body
          /\ folders[board.task].dissection = board.dissection
          /\ folders[board.task].list = board.list
    BY <1>1, <2>1, <2>3 DEF MadeStored, MadeCommitted
  <2>5. stint.target = "draft" => MadeSeedIn(stint.seed, board.list)
    BY <1>1, <2>1 DEF MadeOfRun
  <2>6. \A n \in Notes : folders'[n] # None => MadeSeedIn(folders'[n].seed, folders'[n].list)
    BY <1>7, <2>1, <2>4, <2>5 DEF MadeStored
  <2>7. MadeStored'
    BY <1>1, <1>6, <1>7, <2>3, <2>4, <2>6 DEF MadeStored, MadeCommitted
  <2> QED
    BY <2>2, <2>7
<1> QED
  BY <1>8, <1>9, <1>10 DEF MadeInv2

LEMMA MadeCancelled2 ==
  ASSUME MadeConstants, MadeInv2, MadeInv', Made!confirmProcessingCancellation
  PROVE  MadeInv2'
<1>1. /\ stint' = None /\ board' = Made!Ended
      /\ asked' = [asked EXCEPT !.tab = None, !.preview = FALSE, !.candidate = None]
      /\ UNCHANGED <<folders, editor, post>>
      /\ astray' = (astray \/ stint.result # None) /\ asked \in MadeQuestions
  BY DEF Made!confirmProcessingCancellation, Made!resetTaskUi, MadeInv2, MadeInv, MadeTypes
<1>2. asked'.candidate = None
  BY <1>1 DEF MadeQuestions
<1>3. /\ board'.task = board.task /\ board'.body = board.body
      /\ board'.list = board.list /\ board'.dissection = board.dissection
      /\ board'.seed = board.seed /\ board'.stale = board.stale
  BY <1>1 DEF MadeInv2, MadeInv, MadeTypes, Made!Ended, MadeBoards
<1>4. MadeAwaits'
  BY <1>1, <1>3, MadeAwaitsKeep DEF MadeInv2
<1>5. MadeTyping' /\ MadeRead'
  BY <1>1, <1>2, <1>3 DEF MadeInv2, MadeTyping, MadeRead
<1>6. MadeSame'
  <2> SUFFICES ASSUME ~astray' PROVE MadeStored' /\ MadeOfRun' /\ MadeOfList' /\ MadeDissected'
    BY DEF MadeSame
  <2>1. MadeStored /\ MadeOfRun /\ MadeOfList /\ MadeDissected /\ stint.result = None
    BY <1>1 DEF MadeInv2, MadeSame
  <2> QED
    BY <1>1, <1>2, <1>3, <2>1
       DEF MadeStored, MadeCommitted, MadeOfRun, MadeOfList, MadeDissected
<1> QED
  BY <1>4, <1>5, <1>6 DEF MadeInv2

-----------------------------------------------------------------------------
(* The steps of the sheet of the draft. *)

LEMMA MadeOpens2 ==
  ASSUME MadeConstants, MadeInv2, MadeInv', Made!openDraftResult
  PROVE  MadeInv2'
<1> DEFINE c == [kind |-> "load", of |-> board.task, buffer |-> None, live |-> TRUE]
<1>1. /\ ~editor.open /\ Made!aiTargetStatus("draft") = "ready"
      /\ editor' = [editor EXCEPT !.open = TRUE, !.loading = TRUE, !.ready = FALSE,
                      !.dirty = FALSE, !.early = FALSE, !.buffer = board.draft,
                      !.saved = board.draft, !.seed = None]
      /\ post' = Append(post, c)
      /\ UNCHANGED <<folders, board, stint, asked, astray>>
  <2>1. Made!aiTargetStatus("draft") = "ready"
    BY DEF Made!openDraftResult, Made!AiTargetCardViews
  <2> QED
    BY <2>1 DEF Made!openDraftResult, Made!AiTargetCardViews, Made!Uncovered
<1>2. board.task \in Notes /\ editor \in MadeEditors /\ post \in Seq(MadeWired)
  <2>1. board.task # None
    BY <1>1 DEF Made!aiTargetStatus
  <2> QED
    BY <2>1 DEF MadeInv2, MadeInv, MadeTypes, MadeBoards
<1>3. /\ editor'.open /\ editor'.loading /\ ~editor'.ready /\ ~editor'.dirty /\ ~editor'.early
      /\ editor'.seed = None /\ editor'.saving = editor.saving
      /\ editor'.discard = editor.discard
  BY <1>1, <1>2 DEF MadeEditors
<1>4. ~editor.saving /\ ~MadeHas(post, MadeLoads) /\ ~MadeHas(post, MadeSaves)
      /\ \A i \in DOMAIN post : post[i].kind # "save"
  BY <1>1
     DEF MadeInv2, MadeInv, MadeShown, MadeInFlight, MadeSound, MadeHas, MadeLoads, MadeSaves
<1>5. c \in MadeWired /\ c \in MadeLoads /\ c \notin MadeSaves
  BY <1>2 DEF MadeWired, MadeMaybeDraft, MadeLoads, MadeSaves
<1>6. MadeAwaits'
  <2>1. MadeOneLoad(post)
    BY DEF MadeInv2, MadeAwaits
  <2>2. /\ MadeOneLoad(post') /\ MadeHas(post', MadeLoads)
        /\ \A i \in DOMAIN post' : post'[i] = c \/ \E j \in DOMAIN post : post'[i] = post[j]
    BY <1>1, <1>2, <1>4, <1>5, <2>1, MadeSends2
  <2>3. \A i \in DOMAIN post' : post'[i].kind # "save"
    BY <1>4, <2>2
  <2> QED
    BY <1>3, <1>4, <2>2, <2>3 DEF MadeAwaits
<1>7. MadeTyping' /\ MadeRead'
  BY <1>1, <1>3, <1>4 DEF MadeInv2, MadeTyping, MadeRead
<1>8. MadeSame'
  BY <1>1, <1>2, <1>3, MadeSameKeeps DEF MadeInv2, MadeInv, MadeTypes, MadeBoards
<1> QED
  BY <1>6, <1>7, <1>8 DEF MadeInv2

LEMMA MadeReads2 ==
  ASSUME MadeConstants, MadeInv2, MadeInv', Made!load_draft_detail
  PROVE  MadeInv2'
<1> DEFINE c == Head(post)
           f == folders[c.of]
<1>1. /\ post # <<>> /\ c.kind = "load" /\ post' = Tail(post)
      /\ UNCHANGED <<folders, board, stint, asked, astray>>
  BY DEF Made!load_draft_detail
<1>2. /\ c \in MadeWired /\ c.of \in Notes /\ (c.live => editor.open /\ c.of = board.task)
      /\ c \notin MadeSaves /\ (c \in MadeLoads <=> c.live) /\ c.live \in BOOLEAN
      /\ post \in Seq(MadeWired) /\ editor \in MadeEditors
  BY <1>1, MadeFirst
     DEF MadeSound, MadeWired, MadeInv2, MadeInv, MadeTypes, MadeLoads, MadeSaves
<1>3. /\ MadeOneLoad(post') /\ (MadeHas(post', MadeSaves) <=> MadeHas(post, MadeSaves))
      /\ c.live => ~MadeHas(post', MadeLoads)
      /\ ~c.live => (MadeHas(post', MadeLoads) <=> MadeHas(post, MadeLoads))
      /\ \A i \in DOMAIN post' : \E j \in DOMAIN post : post'[i] = post[j]
      /\ c.live => MadeHas(post, MadeLoads)
  <2>1. /\ MadeOneLoad(Tail(post)) /\ \A i \in DOMAIN Tail(post) : \E j \in DOMAIN post : Tail(post)[i] = post[j]
        /\ c \in MadeLoads => ~MadeHas(Tail(post), MadeLoads)
        /\ \A S : c \notin S => (MadeHas(Tail(post), S) <=> MadeHas(post, S))
        /\ \E j \in DOMAIN post : c = post[j]
    BY <1>1, <1>2, MadePopped2 DEF MadeInv2, MadeAwaits
  <2> QED
    BY <1>1, <1>2, <2>1 DEF MadeHas
<1>4. CASE ~c.live /\ UNCHANGED editor
  <2>1. MadeAwaits'
    BY <1>1, <1>3, <1>4 DEF MadeInv2, MadeAwaits
  <2>2. MadeTyping' /\ MadeRead'
    BY <1>1, <1>4 DEF MadeInv2, MadeTyping, MadeRead
  <2>3. MadeSame'
    BY <1>1, <1>4, MadeSameKeeps DEF MadeInv2, MadeInv, MadeTypes, MadeBoards
  <2> QED
    BY <2>1, <2>2, <2>3 DEF MadeInv2
<1>5. ASSUME c.live, editor'.open = editor.open, ~editor'.loading, editor'.saving = editor.saving,
             editor'.dirty = editor.dirty, editor'.early = editor.early \/ editor'.early,
             editor'.discard = editor.discard
      PROVE  MadeAwaits' /\ MadeTyping'
  <2>1. editor.loading /\ editor.open
    BY <1>2, <1>3, <1>5 DEF MadeInv2, MadeAwaits
  <2>2. editor.saving => editor'.early
    BY <1>5, <2>1 DEF MadeInv2, MadeTyping
  <2>3. ~editor.saving => \A i \in DOMAIN post : post[i].kind # "save"
    BY DEF MadeInv2, MadeInv, MadeInFlight, MadeSound
  <2> QED
    BY <1>1, <1>3, <1>5, <2>1, <2>2, <2>3 DEF MadeInv2, MadeAwaits, MadeTyping
<1>6. CASE /\ c.live /\ Made!guard_pending_task(c.of)
           /\ editor' = [editor EXCEPT !.buffer = f.draft, !.saved = f.draft, !.seed = f.seed,
                           !.loading = FALSE, !.ready = TRUE]
  <2>1. /\ editor'.open = editor.open /\ ~editor'.loading /\ editor'.saving = editor.saving
        /\ editor'.dirty = editor.dirty /\ editor'.early = editor.early
        /\ editor'.saved = f.draft /\ editor'.buffer = f.draft /\ editor'.seed = f.seed
        /\ editor'.discard = editor.discard
    BY <1>2, <1>6 DEF MadeEditors
  <2>2. f = folders[board.task] /\ f # None /\ board.task # None /\ editor.open
    BY <1>2, <1>6 DEF Made!guard_pending_task, MadeConstants
  <2>3. MadeAwaits' /\ MadeTyping'
    BY <1>5, <1>6, <2>1
  <2>4. MadeRead'
    BY <1>1, <2>1, <2>2 DEF MadeRead
  <2>5. MadeSame'
    <3> SUFFICES ASSUME ~astray PROVE MadeStored' /\ MadeOfRun' /\ MadeOfList' /\ MadeDissected'
      BY <1>1 DEF MadeSame
    <3>1. MadeStored /\ MadeOfRun /\ MadeOfList /\ MadeDissected
      BY DEF MadeInv2, MadeSame
    <3>2. MadeSeedIn(f.seed, board.list)
      BY <1>2, <1>6, <2>2, <3>1 DEF MadeStored, MadeCommitted, MadeSeedIn
    <3>3. MadeStored' /\ MadeOfRun' /\ MadeDissected'
      BY <1>1, <3>1 DEF MadeStored, MadeOfRun, MadeDissected, MadeCommitted
    <3>4. MadeOfList'
      BY <1>1, <2>1, <3>1, <3>2 DEF MadeOfList
    <3> QED
      BY <3>3, <3>4
  <2> QED
    BY <2>3, <2>4, <2>5 DEF MadeInv2
<1>7. CASE /\ c.live
           /\ editor' = [editor EXCEPT !.buffer = board.draft, !.loading = FALSE,
                           !.ready = TRUE, !.early = TRUE]
  <2>1. /\ editor'.open = editor.open /\ ~editor'.loading /\ editor'.saving = editor.saving
        /\ editor'.dirty = editor.dirty /\ editor'.early /\ editor'.seed = editor.seed
        /\ editor'.discard = editor.discard
    BY <1>2, <1>7 DEF MadeEditors
  <2>2. MadeAwaits' /\ MadeTyping'
    BY <1>5, <1>7, <2>1
  <2>3. MadeRead'
    BY <2>1 DEF MadeRead
  <2>4. MadeSame'
    BY <1>1, <2>1, MadeSameKeeps DEF MadeInv2, MadeInv, MadeTypes, MadeBoards
  <2> QED
    BY <2>2, <2>3, <2>4 DEF MadeInv2
<1> QED
  BY <1>4, <1>6, <1>7 DEF Made!load_draft_detail

LEMMA MadeTypes2 ==
  ASSUME MadeConstants, MadeInv2, MadeInv', Made!handleBufferChange
  PROVE  MadeInv2'
<1> DEFINE n == deeds + 1
           early == editor.early \/ editor.loading
           buffer == [editor.buffer EXCEPT !.typed = n]
<1>1. /\ editor.open /\ ~editor.saving /\ editor \in MadeEditors
      /\ editor' = [editor EXCEPT !.dirty = TRUE, !.buffer = buffer, !.early = early]
      /\ UNCHANGED <<folders, board, stint, asked, post, astray>>
  <2>1. editor \in MadeEditors /\ editor.buffer # None
    BY DEF Made!handleBufferChange, MadeInv2, MadeInv, MadeTypes
  <2>2. editor.buffer \in MadeNatDrafts
    BY <2>1 DEF MadeEditors, MadeMaybeDraft
  <2> QED
    BY <2>1, <2>2 DEF Made!handleBufferChange, MadeEditors
<1> HIDE DEF buffer
<1>2. /\ editor'.open = editor.open /\ editor'.loading = editor.loading
      /\ editor'.saving = editor.saving /\ editor'.dirty /\ editor'.saved = editor.saved
      /\ editor'.early = early /\ editor'.seed = editor.seed /\ editor'.ready = editor.ready
      /\ editor'.discard = editor.discard
  <2>1. early \in BOOLEAN
    BY <1>1 DEF MadeEditors
  <2> HIDE DEF early
  <2> QED
    BY <1>1, <2>1 DEF MadeEditors
<1>3. \A i \in DOMAIN post : post[i].kind # "save"
  BY <1>1 DEF MadeInv2, MadeInv, MadeInFlight, MadeSound
<1>4. MadeAwaits'
  BY <1>1, <1>2, <1>3 DEF MadeInv2, MadeAwaits
<1>5. MadeTyping' /\ MadeRead'
  BY <1>1, <1>2 DEF MadeInv2, MadeTyping, MadeRead
<1>6. MadeSame'
  BY <1>1, <1>2, MadeSameKeeps DEF MadeInv2, MadeInv, MadeTypes, MadeBoards
<1> QED
  BY <1>4, <1>5, <1>6 DEF MadeInv2

\* What the preparation of a move and a question about a closing change.
LEMMA MadeDiscards2 ==
  ASSUME MadeInv2, MadeInv', Made!cancelDiscard \/ Made!useStorageEditor \/ (Made!handleClose /\ editor.dirty)
  PROVE  MadeInv2'
<1>1. /\ \/ editor' = [editor EXCEPT !.discard = FALSE]
         \/ editor' = [editor EXCEPT !.discard = TRUE] /\ asked.candidate = None
         \/ ~editor.saving /\ editor' = [editor EXCEPT !.buffer = editor.saved, !.dirty = FALSE]
      /\ editor \in MadeEditors /\ UNCHANGED <<folders, board, stint, asked, post, astray>>
  BY DEF Made!cancelDiscard, Made!useStorageEditor, Made!handleClose, MadeInv2, MadeInv,
         MadeTypes
<1>2. /\ editor'.open = editor.open /\ editor'.loading = editor.loading
      /\ editor'.saving = editor.saving /\ editor'.saved = editor.saved
      /\ editor'.early = editor.early /\ editor'.seed = editor.seed /\ editor'.ready = editor.ready
      /\ \/ editor'.dirty = editor.dirty /\ editor'.buffer = editor.buffer
         \/ ~editor.saving /\ ~editor'.dirty /\ editor'.buffer = editor.saved
      /\ editor'.discard => editor.discard \/ asked.candidate = None
  BY <1>1 DEF MadeEditors
<1>3. ~editor.saving => \A i \in DOMAIN post : post[i].kind # "save"
  BY DEF MadeInv2, MadeInv, MadeInFlight, MadeSound
<1>4. MadeAwaits'
  BY <1>1, <1>2, <1>3 DEF MadeInv2, MadeAwaits
<1>5. MadeTyping' /\ MadeRead'
  BY <1>1, <1>2 DEF MadeInv2, MadeTyping, MadeRead
<1>6. MadeSame'
  BY <1>1, <1>2, MadeSameKeeps DEF MadeInv2, MadeInv, MadeTypes, MadeBoards
<1> QED
  BY <1>4, <1>5, <1>6 DEF MadeInv2

\* The sheet of the draft is closed.
LEMMA MadeCloses2 ==
  ASSUME MadeInv2, MadeInv', Made!setDraftResultClosed, ~editor.saving, UNCHANGED <<folders, stint, astray>>,
         asked'.candidate = None, board'.task = board.task, board'.body = board.body,
         board'.list = board.list, board'.dissection = board.dissection,
         board'.stale = board.stale,
         board'.seed = board.seed \/ astray \/ MadeSeedIn(board'.seed, board.list)
  PROVE  MadeInv2'
<1>1. /\ ~editor'.open /\ ~editor'.saving /\ ~editor'.loading /\ ~editor'.dirty
      /\ editor'.seed = None /\ ~editor'.discard
      /\ post' = [i \in DOMAIN post |-> [post[i] EXCEPT !.live = FALSE]]
  BY DEF Made!setDraftResultClosed, Made!ClosedEditor
<1>2. MadeAwaits'
  BY <1>1, MadeAwaitsNothing DEF MadeInv2
<1>3. MadeTyping' /\ MadeRead'
  BY <1>1 DEF MadeTyping, MadeRead
<1>4. MadeSame'
  BY <1>1
     DEF MadeInv2, MadeSame, MadeStored, MadeOfRun, MadeOfList, MadeDissected, MadeSeedIn,
         MadeCommitted
<1> QED
  BY <1>2, <1>3, <1>4 DEF MadeInv2

LEMMA MadeShuts2 ==
  ASSUME MadeConstants, MadeInv2, MadeInv', \/ Made!confirmDiscard
                                            \/ (Made!handleClose /\ ~editor.dirty)
  PROVE  MadeInv2'
<1>1. /\ Made!setDraftResultClosed /\ ~editor.saving
      /\ UNCHANGED <<folders, board, stint, asked, astray>>
      /\ asked \in MadeQuestions /\ editor \in MadeEditors
  BY DEF Made!confirmDiscard, Made!handleClose, MadeInv2, MadeInv, MadeTypes
<1>2. CASE asked.candidate = None
  BY <1>1, <1>2, MadeCloses2
<1>3. CASE asked.candidate # None
  BY <1>3 DEF Made!confirmDiscard, Made!handleClose, MadeInv2, MadeTyping
<1> QED
  BY <1>2, <1>3

LEMMA MadeProceeds2 ==
  ASSUME MadeConstants, MadeInv2, MadeInv', NEW seed, NEW warned \in BOOLEAN, Made!proceed(seed, warned),
         ~editor.saving, astray \/ MadeSeedIn(seed, board.list)
  PROVE  MadeInv2'
<1>1. /\ Made!setDraftResultClosed /\ board' = [board EXCEPT !.seed = seed]
      /\ asked' = [asked EXCEPT !.candidate = None, !.confirm = TRUE, !.warned = warned]
      /\ UNCHANGED <<folders, stint, astray>> /\ board \in MadeBoards /\ asked \in MadeQuestions
  BY DEF Made!proceed, MadeInv2, MadeInv, MadeTypes
<1>2. /\ board'.task = board.task /\ board'.body = board.body /\ board'.list = board.list
      /\ board'.dissection = board.dissection /\ board'.stale = board.stale
      /\ board'.seed = seed
  BY <1>1 DEF MadeBoards
<1>3. asked'.candidate = None
  BY <1>1 DEF MadeQuestions
<1> QED
  BY <1>1, <1>2, <1>3, MadeCloses2

LEMMA MadeRegenerations2 ==
  ASSUME MadeConstants, MadeInv2, MadeInv', Made!Regeneration
  PROVE  MadeInv2'
<1>1. ~astray => MadeOfList
  BY DEF MadeInv2, MadeSame
<1>2. asked \in MadeQuestions
  BY DEF MadeInv2, MadeInv, MadeTypes
<1>3. CASE Made!cancelRegeneration
  <2>1. /\ asked' = [asked EXCEPT !.candidate = None]
        /\ UNCHANGED <<folders, board, stint, editor, post, astray>>
    BY <1>3 DEF Made!cancelRegeneration
  <2>2. asked'.candidate = None
    BY <1>2, <2>1 DEF MadeQuestions
  <2> QED
    BY <2>1, <2>2, MadeAsks2
<1>4. CASE Made!confirmRegeneration
  <2>1. astray \/ MadeSeedIn(asked.candidate.seed, board.list)
    BY <1>1, <1>4 DEF Made!confirmRegeneration, MadeOfList
  <2> QED
    BY <1>4, <2>1, MadeProceeds2 DEF Made!confirmRegeneration
<1>5. CASE Made!requestRegeneration
  <2> DEFINE seed == IF editor.seed # None THEN editor.seed ELSE board.seed
  <2>1. astray \/ MadeSeedIn(seed, board.list)
    BY <1>1, <1>5 DEF Made!requestRegeneration, MadeOfList
  <2>2. \/ Made!proceed(seed, FALSE)
        \/ /\ asked' = [asked EXCEPT !.candidate = [seed |-> seed]]
           /\ UNCHANGED <<folders, board, stint, editor, post, astray>>
    BY <1>5 DEF Made!requestRegeneration
  <2> HIDE DEF seed
  <2>3. CASE Made!proceed(seed, FALSE)
    BY <1>5, <2>1, <2>3, MadeProceeds2 DEF Made!requestRegeneration
  <2>4. CASE /\ asked' = [asked EXCEPT !.candidate = [seed |-> seed]]
             /\ UNCHANGED <<folders, board, stint, editor, post, astray>>
    <3>1. asked'.candidate = [seed |-> seed]
      BY <1>2, <2>4 DEF MadeQuestions
    <3>2. MadeAwaits'
      BY <2>4, MadeAwaitsKeep DEF MadeInv2
    <3>3. MadeTyping' /\ MadeRead'
      BY <1>5, <2>4 DEF MadeInv2, MadeTyping, MadeRead, Made!requestRegeneration
    <3>4. MadeSame'
      BY <2>1, <2>4, <3>1
         DEF MadeInv2, MadeSame, MadeStored, MadeOfRun, MadeOfList, MadeDissected, MadeSeedIn,
             MadeCommitted
    <3> QED
      BY <3>2, <3>3, <3>4 DEF MadeInv2
  <2> QED
    BY <2>2, <2>3, <2>4
<1> QED
  BY <1>3, <1>4, <1>5 DEF Made!Regeneration

LEMMA MadeSaves2 == ASSUME MadeConstants, MadeInv2, MadeInv', Made!handleSave PROVE MadeInv2'
<1> DEFINE c == [kind |-> "save", of |-> board.task, buffer |-> editor.buffer, live |-> TRUE]
<1>1. /\ editor.open /\ editor.dirty /\ ~editor.saving /\ board.task # None
      /\ editor' = [editor EXCEPT !.saving = TRUE] /\ editor \in MadeEditors
      /\ asked' = [asked EXCEPT !.candidate = None] /\ post' = Append(post, c)
      /\ UNCHANGED <<folders, board, stint, astray>> /\ post \in Seq(MadeWired)
      /\ asked \in MadeQuestions /\ board \in MadeBoards
  BY DEF Made!handleSave, MadeInv2, MadeInv, MadeTypes
<1>2. /\ editor'.open = editor.open /\ editor'.saving /\ editor'.loading = editor.loading
      /\ editor'.buffer = editor.buffer /\ editor'.saved = editor.saved
      /\ editor'.dirty = editor.dirty /\ editor'.early = editor.early
      /\ editor'.seed = editor.seed /\ editor'.ready = editor.ready
  BY <1>1 DEF MadeEditors
<1>3. c \in MadeWired /\ c \in MadeSaves /\ c \notin MadeLoads /\ c.buffer = editor.buffer
  BY <1>1 DEF MadeBoards, MadeEditors, MadeWired, MadeSaves, MadeLoads
<1> HIDE DEF c
<1>4. asked'.candidate = None
  BY <1>1 DEF MadeQuestions
<1>5. MadeAwaits'
  <2>1. MadeOneLoad(post) /\ \A i \in DOMAIN post : post[i].kind # "save"
    BY <1>1 DEF MadeInv2, MadeInv, MadeAwaits, MadeInFlight, MadeSound
  <2>2. /\ MadeOneLoad(post') /\ \A S : MadeHas(post', S) <=> MadeHas(post, S) \/ c \in S
        /\ \A i \in DOMAIN post' : post'[i] = c \/ \E j \in DOMAIN post : post'[i] = post[j]
    BY <1>1, <1>3, <2>1, MadeSends2
  <2>3. \A i \in DOMAIN post' : post'[i].kind = "save" => post'[i].buffer = editor.buffer
    BY <1>3, <2>1, <2>2
  <2> QED
    BY <1>1, <1>2, <1>3, <2>2, <2>3 DEF MadeInv2, MadeAwaits
<1>6. MadeTyping' /\ MadeRead'
  BY <1>1, <1>2, <1>4 DEF MadeInv2, MadeTyping, MadeRead
<1>7. MadeSame'
  BY <1>1, <1>2, <1>4, MadeSameKeeps DEF MadeInv2, MadeInv, MadeTypes, MadeBoards
<1> QED
  BY <1>5, <1>6, <1>7 DEF MadeInv2

LEMMA MadeSaveAnswers2 ==
  ASSUME MadeConstants, MadeInv2, MadeInv', Made!save_draft_edit
  PROVE  MadeInv2'
<1> DEFINE c == Head(post)
<1>1. /\ post # <<>> /\ c.kind = "save" /\ post' = Tail(post) /\ UNCHANGED <<stint, asked, astray>>
      /\ post \in Seq(MadeWired) /\ editor \in MadeEditors /\ board \in MadeBoards
      /\ folders \in [Notes -> MadeNatFolders \cup {None}]
  BY DEF Made!save_draft_edit, MadeInv2, MadeInv, MadeTypes
<1>2. /\ c \in MadeWired /\ c.of \in Notes /\ editor.saving /\ c \notin MadeLoads
      /\ \A i \in DOMAIN post' : post'[i].kind # "save"
  BY <1>1, MadeFirst DEF MadeSound, MadeWired, MadeInv2, MadeLoads
<1>3. /\ MadeOneLoad(post') /\ (MadeHas(post', MadeLoads) <=> MadeHas(post, MadeLoads))
      /\ \E j \in DOMAIN post : c = post[j]
  BY <1>1, <1>2, MadePopped2 DEF MadeInv2, MadeAwaits
<1>4. editor.dirty /\ editor.open /\ (~editor.early => c.buffer = editor.buffer)
  BY <1>1, <1>2, <1>3 DEF MadeInv2, MadeInv, MadeShown, MadeAwaits, MadeTyping
<1>5. /\ ~editor'.saving /\ editor'.open = editor.open /\ editor'.loading = editor.loading
      /\ editor'.early = editor.early /\ editor'.seed = editor.seed
      /\ editor'.ready = editor.ready /\ editor'.buffer = editor.buffer
      /\ editor'.discard = editor.discard
      /\ \/ editor'.dirty = editor.dirty /\ editor'.saved = editor.saved
         \/ ~editor'.dirty /\ editor'.saved = c.buffer
  BY <1>1 DEF Made!save_draft_edit, MadeEditors
<1>6. \/ UNCHANGED folders
      \/ /\ folders[c.of] # None
         /\ folders' = [folders EXCEPT ![c.of].draft = c.buffer]
  BY DEF Made!save_draft_edit, Made!guard_pending_task
<1>7. \A n \in Notes : 
        /\ folders'[n] # None => 
             /\ folders[n] # None /\ folders'[n].seed = folders[n].seed
             /\ folders'[n].list = folders[n].list /\ folders'[n].body = folders[n].body
             /\ folders'[n].dissection = folders[n].dissection
             /\ n # c.of => folders'[n].draft = folders[n].draft
  <2>1. CASE UNCHANGED folders
    BY <2>1
  <2>2. CASE folders[c.of] # None /\ folders' = [folders EXCEPT ![c.of].draft = c.buffer]
    <3> DEFINE n == c.of
               f == [folders[n] EXCEPT !.draft = c.buffer]
    <3>1. n \in Notes /\ folders[n] \in MadeNatFolders
      BY <1>1, <1>2, <2>2
    <3>2. /\ f.draft = c.buffer /\ f.list = folders[n].list /\ f.body = folders[n].body
          /\ f.dissection = folders[n].dissection /\ f.seed = folders[n].seed
      BY <3>1 DEF MadeNatFolders
    <3>3. folders' = [folders EXCEPT ![n] = f]
      BY <1>1, <2>2, <3>1
    <3> HIDE DEF f
    <3> QED
      BY <1>1, <2>2, <3>1, <3>2, <3>3
  <2> QED
    BY <1>6, <2>1, <2>2
<1>8. /\ board'.task = board.task /\ board'.body = board.body /\ board'.list = board.list
      /\ board'.dissection = board.dissection /\ board'.stale = board.stale
      /\ board'.seed = board.seed
  BY <1>1 DEF Made!save_draft_edit, MadeBoards
<1>9. MadeAwaits'
  BY <1>2, <1>3, <1>5, <1>8 DEF MadeInv2, MadeAwaits
<1>10. MadeTyping'
  BY <1>1, <1>4, <1>5 DEF MadeInv2, MadeTyping
\* A draft that was stored for the note of the sheet is what the sheet has.
<1>11. MadeRead'
  <2>1. \/ /\ editor'.dirty = editor.dirty /\ editor'.saved = editor.saved
           /\ UNCHANGED folders \/ board.task # c.of
        \/ /\ ~editor'.dirty /\ editor'.saved = c.buffer /\ board.task = c.of
           /\ folders[c.of] # None /\ folders' = [folders EXCEPT ![c.of].draft = c.buffer]
    BY <1>1 DEF Made!save_draft_edit, Made!guard_pending_task, MadeEditors
  <2>2. CASE /\ editor'.dirty = editor.dirty /\ editor'.saved = editor.saved
             /\ UNCHANGED folders \/ board.task # c.of
    <3>1. board.task = None \/ board.task \in Notes
      BY <1>1 DEF MadeBoards
    <3> QED
      BY <1>4, <1>5, <1>7, <1>8, <2>2, <3>1 DEF MadeInv2, MadeRead
  <2>3. CASE /\ ~editor'.dirty /\ editor'.saved = c.buffer /\ board.task = c.of
             /\ folders[c.of] # None /\ folders' = [folders EXCEPT ![c.of].draft = c.buffer]
    <3> DEFINE n == c.of
               f == [folders[n] EXCEPT !.draft = c.buffer]
    <3>1. n \in Notes /\ folders[n] \in MadeNatFolders
      BY <1>1, <1>2, <2>3
    <3>2. f.draft = c.buffer
      BY <3>1 DEF MadeNatFolders
    <3>3. folders'[n] = f
      BY <1>1, <2>3, <3>1
    <3> HIDE DEF f
    <3> QED
      BY <1>4, <1>5, <1>8, <2>3, <3>2, <3>3 DEF MadeRead
  <2> QED
    BY <2>1, <2>2, <2>3
<1>12. MadeSame'
  <2> SUFFICES ASSUME ~astray PROVE MadeStored' /\ MadeOfRun' /\ MadeOfList' /\ MadeDissected'
    BY <1>1 DEF MadeSame
  <2>1. MadeStored /\ MadeOfRun /\ MadeOfList /\ MadeDissected
    BY DEF MadeInv2, MadeSame
  <2>2. board.task = None \/ board.task \in Notes
    BY <1>1 DEF MadeBoards
  <2>3. MadeStored'
    BY <1>1, <1>7, <1>8, <2>1, <2>2 DEF MadeStored, MadeCommitted
  <2>4. MadeOfRun' /\ MadeOfList' /\ MadeDissected'
    BY <1>1, <1>5, <1>8, <2>1 DEF MadeOfRun, MadeOfList, MadeDissected, MadeSeedIn
  <2> QED
    BY <2>3, <2>4
<1> QED
  BY <1>9, <1>10, <1>11, <1>12 DEF MadeInv2

-----------------------------------------------------------------------------
LEMMA MadeDetails2 ==
  ASSUME MadeInv2, MadeInv',
         \/ \E target \in Made!Targets : Made!openDetailTab(target)
         \/ Made!closeDetail
         \/ Made!openDissectionConfirmation
         \/ Made!closeDissectionConfirmation
         \/ Made!cancelDraftConfirmation
         \/ Made!openDraftConfirmation
         \/ Made!confirmHistoryDeletion
  PROVE  MadeInv2'
<1>1. /\ UNCHANGED <<folders, board, stint, editor, post, astray>> /\ asked \in MadeQuestions
      /\ \/ \E tab : asked' = [asked EXCEPT !.tab = tab]
         \/ \E preview : asked' = [asked EXCEPT !.preview = preview]
         \/ \E confirm : asked' = [asked EXCEPT !.confirm = confirm, !.warned = FALSE]
         \/ asked' = asked
  BY DEF Made!openDetailTab, Made!closeDetail, Made!openDissectionConfirmation,
         Made!closeDissectionConfirmation, Made!cancelDraftConfirmation,
         Made!openDraftConfirmation, Made!confirmHistoryDeletion, MadeInv2, MadeInv, MadeTypes
<1>2. asked'.candidate = asked.candidate
  BY <1>1 DEF MadeQuestions
<1> QED
  BY <1>1, <1>2, MadeAsks2

LEMMA MadeSheets2 == ASSUME MadeInv2, MadeInv', Made!AiResultDetailSheet PROVE MadeInv2'
BY MadeSeeds2, MadeDetails2 DEF Made!AiResultDetailSheet, Made!locateDissectionChunks

LEMMA MadeStartNew2 ==
  ASSUME MadeConstants, MadeInv2, MadeInv', Made!startNewTaskFromToolbar
  PROVE  MadeInv2'
BY MadeEmpties2
   DEF Made!startNewTaskFromToolbar, Made!canNavigateWorkflow, Made!isProcessingStage

LEMMA MadeSteps2 ==
  ASSUME MadeConstants, MadeInv2, Made!Next \/ UNCHANGED Made!vars
  PROVE  MadeInv2'
<1>1. MadeInv'
  BY MadeNextKeeps DEF MadeInv2
<1>2. CASE UNCHANGED Made!vars
  BY <1>1, <1>2, MadeAsks2 DEF Made!vars
<1>3. CASE \/ \E target \in Made!Targets : Made!openDetailTab(target)
           \/ Made!openDissectionConfirmation \/ Made!cancelDraftConfirmation
           \/ Made!openDraftConfirmation \/ Made!confirmHistoryDeletion
  BY <1>1, <1>3, MadeDetails2
<1>4. CASE Made!handleClose \/ Made!cancelDiscard \/ Made!useStorageEditor \/ Made!confirmDiscard
  BY <1>1, <1>4, MadeDiscards2, MadeShuts2
<1>5. CASE Made!requestProcessingCancellation \/ Made!restoreProcessingAfterCancellationFailure
           \/ Made!confirmProcessingCancellation
  BY <1>1, <1>5, MadeCancels2, MadeCancelled2
<1>6. CASE \/ \E n \in Notes : Made!restoreHistoryItem(n)
           \/ Made!startNewTaskFromToolbar \/ Made!completeHistoryTaskDeletion
  BY <1>1, <1>6, MadeRestores2, MadeStartNew2, MadeDeletions2
<1>7. CASE Made!confirmDissection \/ Made!confirmInsightPreferences \/ Made!confirmDraftGeneration
  BY <1>1, <1>7, MadeConfirms2
<1> QED
  BY <1>1, <1>2, <1>3, <1>4, <1>5, <1>6, <1>7, MadeTextSaves2, MadeOpens2, MadeSheets2,
     MadeCommits2, MadeFinishes2, MadeFails2, MadeReads2, MadeTypes2, MadeSaves2,
     MadeSaveAnswers2, MadeRegenerations2
     DEF Made!Next

-----------------------------------------------------------------------------
(* The edits of a draft that are stored. *)

\* What the workspace does not take for edited has no edit stored that was not found
\* there, and a draft that is made again has none.
MadeKnown ==
  /\ Made!StoredEdit(board.task) \in {0, board.found} \/ board.edited
  /\ stint # None /\ stint.target = "draft" /\ stint.result # None => Made!StoredEdit(stint.of) = 0

MadeInv3 == MadeInv2 /\ MadeKnown

LEMMA MadeStarts3 == MadeConstants /\ Made!Init => MadeInv3
<1> SUFFICES ASSUME MadeConstants, Made!Init PROVE MadeKnown
  BY MadeStarts2 DEF MadeInv3
<1>1. board.task = None /\ stint = None
  BY DEF Made!Init, Made!createInitialWorkflow
<1> QED
  BY <1>1 DEF MadeKnown, Made!StoredEdit, MadeConstants

\* A draft is the one that was there, if it is there still.
MadeSameDrafts ==
  \A n \in Notes :
    folders'[n] # None => folders[n] # None /\ folders'[n].draft = folders[n].draft

\* Steps that neither store a draft nor change what is known of it.
LEMMA MadeStays3 ==
  ASSUME MadeKnown, MadeSameDrafts,
         board'.task = board.task, board'.edited = board.edited, board'.found = board.found,
         stint' = stint \/ stint' = None \/ stint'.result = None
  PROVE  MadeKnown'
BY DEF MadeKnown, Made!StoredEdit, MadeSameDrafts

LEMMA MadeSheets3 ==
  ASSUME MadeInv2, MadeKnown,
         \/ UNCHANGED Made!vars
         \/ \E target \in Made!Targets : Made!openDetailTab(target)
         \/ Made!openDissectionConfirmation \/ Made!cancelDraftConfirmation
         \/ Made!openDraftConfirmation \/ Made!confirmHistoryDeletion
         \/ Made!handleClose \/ Made!cancelDiscard \/ Made!useStorageEditor \/ Made!confirmDiscard
         \/ Made!openDraftResult \/ Made!load_draft_detail \/ Made!handleBufferChange \/ Made!handleSave
         \/ Made!requestProcessingCancellation \/ Made!restoreProcessingAfterCancellationFailure
         \/ Made!confirmProcessingCancellation \/ Made!AiResultDetailSheet \/ Made!Regeneration
  PROVE  MadeKnown'
<1>1. board \in MadeBoards
  BY DEF MadeInv2, MadeInv, MadeTypes
<1>2. CASE UNCHANGED <<folders, board, stint>>
  BY <1>2, MadeStays3 DEF MadeSameDrafts
<1>3. CASE /\ UNCHANGED <<folders, stint>>
           /\ \/ \E seed : board' = [board EXCEPT !.seed = seed]
              \/ \E c : board' = [board EXCEPT !.cancelling = c]
  <2>1. /\ board'.task = board.task /\ board'.edited = board.edited
        /\ board'.found = board.found
    BY <1>1, <1>3 DEF MadeBoards
  <2> QED
    BY <1>3, <2>1, MadeStays3 DEF MadeSameDrafts
<1>4. CASE Made!confirmProcessingCancellation
  <2>1. /\ board'.task = board.task /\ board'.edited = board.edited
        /\ board'.found = board.found /\ stint' = None /\ UNCHANGED folders
    BY <1>1, <1>4 DEF Made!confirmProcessingCancellation, Made!Ended, MadeBoards
  <2> QED
    BY <2>1, MadeStays3 DEF MadeSameDrafts
<1>5. CASE \/ UNCHANGED Made!vars
           \/ \E target \in Made!Targets : Made!openDetailTab(target)
           \/ Made!openDissectionConfirmation \/ Made!cancelDraftConfirmation
           \/ Made!openDraftConfirmation \/ Made!confirmHistoryDeletion
           \/ Made!handleClose \/ Made!cancelDiscard \/ Made!useStorageEditor \/ Made!confirmDiscard
           \/ Made!openDraftResult \/ Made!load_draft_detail \/ Made!handleBufferChange \/ Made!handleSave
  <2>1. UNCHANGED <<folders, board, stint>>
    BY <1>5
       DEF Made!vars, Made!openDetailTab, Made!openDissectionConfirmation,
           Made!cancelDraftConfirmation, Made!openDraftConfirmation,
           Made!confirmHistoryDeletion, Made!handleClose, Made!cancelDiscard,
           Made!useStorageEditor, Made!confirmDiscard, Made!openDraftResult,
           Made!load_draft_detail, Made!handleBufferChange, Made!handleSave
  <2> QED
    BY <1>2, <2>1
<1>6. CASE Made!requestProcessingCancellation \/ Made!restoreProcessingAfterCancellationFailure
  BY <1>3, <1>6
     DEF Made!requestProcessingCancellation, Made!restoreProcessingAfterCancellationFailure
<1>7. CASE Made!AiResultDetailSheet
  <2>1. \/ UNCHANGED <<folders, board, stint>>
        \/ \E seed : Made!setDraftSeedInsightId(seed)
    BY <1>7 DEF Made!AiResultDetailSheet, Made!closeDetail, Made!locateDissectionChunks,
       Made!openDissectionConfirmation, Made!closeDissectionConfirmation
  <2> QED
    BY <1>2, <1>3, <2>1 DEF Made!setDraftSeedInsightId
<1>8. CASE Made!Regeneration
  <2>1. \/ UNCHANGED <<folders, board, stint>>
        \/ \E seed, warned : Made!proceed(seed, warned)
    BY <1>8
       DEF Made!Regeneration, Made!requestRegeneration, Made!confirmRegeneration,
           Made!cancelRegeneration
  <2> QED
    BY <1>2, <1>3, <2>1 DEF Made!proceed
<1> QED
  BY <1>4, <1>5, <1>6, <1>7, <1>8

LEMMA MadeComes3 ==
  ASSUME MadeConstants, MadeInv2,
         (\E n \in Notes : Made!restoreHistoryItem(n)) \/ Made!startNewTaskFromToolbar
  PROVE  MadeKnown'
<1>1. board.target = None /\ UNCHANGED <<folders, stint>>
  BY DEF Made!restoreHistoryItem, Made!startNewTaskFromToolbar, Made!canNavigateWorkflow,
         Made!isProcessingStage
<1>2. stint' = None
  BY <1>1 DEF MadeInv2, MadeInv, MadeTypes, MadeRunning, MadeBoards, MadeStints, MadeConstants
<1>3. CASE \E n \in Notes : Made!restoreHistoryItem(n)
  <2>1. PICK n \in Notes : board' = Made!historyItemToWorkerResult(n)
    BY <1>3 DEF Made!restoreHistoryItem
  <2>2. board'.task = n /\ board'.found = Made!StoredEdit(n)
    BY <2>1 DEF Made!historyItemToWorkerResult, Made!createInitialWorkflow
  <2> QED
    BY <1>1, <1>2, <2>2 DEF MadeKnown, Made!StoredEdit
<1>4. CASE Made!startNewTaskFromToolbar
  <2>1. board'.task = None
    BY <1>4 DEF Made!startNewTaskFromToolbar, Made!createInitialWorkflow
  <2> QED
    BY <1>2, <2>1 DEF MadeKnown, Made!StoredEdit, MadeConstants
<1> QED
  BY <1>3, <1>4

LEMMA MadeDeletions3 ==
  ASSUME MadeConstants, MadeInv2, MadeKnown, Made!completeHistoryTaskDeletion PROVE MadeKnown'
<1>1. /\ UNCHANGED stint
      /\ board' = board \/ board' = Made!createInitialWorkflow
      /\ folders' = folders \/ folders' = [folders EXCEPT ![leaving] = None]
      /\ folders \in [Notes -> MadeNatFolders \cup {None}]
  BY DEF Made!completeHistoryTaskDeletion, MadeInv2, MadeInv, MadeTypes
<1>2. MadeSameDrafts
  <2>1. \A n \in Notes : folders'[n] \in {folders[n], None}
    BY <1>1
  <2> QED
    BY <2>1 DEF MadeSameDrafts
<1>3. CASE board' = board
  BY <1>1, <1>2, <1>3, MadeStays3
<1>4. CASE board' = Made!createInitialWorkflow
  <2>1. board'.task = None
    BY <1>4 DEF Made!createInitialWorkflow
  <2>2. stint # None /\ stint.target = "draft" /\ stint.result # None =>
          stint.of \in Notes
    BY DEF MadeInv2, MadeInv, MadeTypes, MadeStints
  <2> QED
    BY <1>1, <1>2, <2>1, <2>2 DEF MadeKnown, Made!StoredEdit, MadeSameDrafts, MadeConstants
<1> QED
  BY <1>1, <1>3, <1>4

LEMMA MadeTextSaves3 ==
  ASSUME MadeConstants, MadeInv2, MadeKnown, Made!applyTranscriptSave PROVE MadeKnown'
<1> DEFINE t == board.task
           f == [folders[t] EXCEPT !.body = deeds + 1]
<1>1. /\ t \in Notes /\ folders[t] \in MadeNatFolders /\ deeds \in Nat /\ UNCHANGED stint
      /\ board \in MadeBoards /\ folders \in [Notes -> MadeNatFolders \cup {None}]
  BY DEF Made!applyTranscriptSave, MadeInv2, MadeInv, MadeTypes, MadeBoards
<1>2. folders' = [folders EXCEPT ![t] = f]
  BY <1>1 DEF Made!applyTranscriptSave
<1>3. f \in MadeNatFolders /\ f.draft = folders[t].draft
  BY <1>1 DEF MadeNatFolders
<1> HIDE DEF f
<1>4. MadeSameDrafts
  BY <1>1, <1>2, <1>3 DEF MadeConstants, MadeSameDrafts
<1>5. /\ board'.task = board.task /\ board'.edited = board.edited
      /\ board'.found = board.found
  BY <1>1 DEF Made!applyTranscriptSave, MadeBoards
<1> QED
  BY <1>1, <1>4, <1>5, MadeStays3

LEMMA MadeRetries3 ==
  ASSUME MadeKnown, board \in MadeBoards, NEW target, NEW seed, NEW sheets,
         Made!retryInsightGeneration(target, seed, sheets)
  PROVE  MadeKnown'
<1>1. CASE UNCHANGED <<board, stint, folders>>
  BY <1>1, MadeStays3 DEF MadeSameDrafts
<1>2. CASE /\ board' = [board EXCEPT !.target = target, !.errors = @ \ {target}]
           /\ stint'.result = None /\ UNCHANGED folders
  <2>1. /\ board'.task = board.task /\ board'.edited = board.edited
        /\ board'.found = board.found
    BY <1>2 DEF MadeBoards
  <2> QED
    BY <1>2, <2>1, MadeStays3 DEF MadeSameDrafts
<1> QED
  BY <1>1, <1>2 DEF Made!retryInsightGeneration

LEMMA MadeConfirms3 ==
  ASSUME MadeInv2, MadeKnown,
         Made!confirmDissection \/ Made!confirmInsightPreferences \/ Made!confirmDraftGeneration
  PROVE  MadeKnown'
<1>1. board \in MadeBoards
  BY DEF MadeInv2, MadeInv, MadeTypes
<1>2. \/ UNCHANGED <<folders, board, stint>>
      \/ \E target, seed, sheets : Made!retryInsightGeneration(target, seed, sheets)
  BY DEF Made!confirmDissection, Made!confirmInsightPreferences, Made!confirmDraftGeneration
<1> QED
  BY <1>1, <1>2, MadeStays3, MadeRetries3 DEF MadeSameDrafts

LEMMA MadeCommits3 ==
  ASSUME MadeConstants, MadeInv2, MadeKnown, Made!WorkerCommits
  PROVE  MadeKnown'
<1> DEFINE n == stint.of
           f == folders[n]
           draft == IF stint.target = "draft"
                    THEN [of |-> stint.of, seed |-> stint.seed, typed |-> 0] ELSE f.draft
<1>1. /\ stint \in MadeStints /\ n \in Notes /\ f \in MadeNatFolders /\ n = board.task
      /\ folders \in [Notes -> MadeNatFolders \cup {None}] /\ UNCHANGED board
  BY DEF Made!WorkerCommits, MadeInv2, MadeInv, MadeTypes, MadeRunning, MadeStints
<1>2. PICK result :
        /\ result = CASE stint.target = "insights" -> [f EXCEPT !.list = @ + 1, !.seed = None]
                       [] stint.target = "draft" ->
                            [f EXCEPT !.seed = stint.seed,
                               !.draft = [of |-> stint.of, seed |-> stint.seed, typed |-> 0]]
                       [] OTHER -> [f EXCEPT !.dissection = f.body]
        /\ folders' = [folders EXCEPT ![n] = result]
        /\ stint' = [stint EXCEPT !.result = result]
  BY DEF Made!WorkerCommits
<1>3. result.draft = draft
  BY <1>1, <1>2 DEF MadeNatFolders
<1>4. stint'.of = n /\ stint'.target = stint.target
  BY <1>1, <1>2 DEF MadeStints
<1>5. \A m \in Notes : m # n => folders'[m] = folders[m]
  BY <1>1, <1>2
<1>6. folders'[n] = result
  BY <1>1, <1>2
<1> HIDE DEF f
<1>7. CASE stint.target = "draft"
  <2>1. folders'[n].draft.typed = 0
    BY <1>3, <1>6, <1>7
  <2> QED
    BY <1>1, <1>4, <2>1 DEF MadeKnown, Made!StoredEdit
<1>8. CASE stint.target # "draft"
  <2>1. MadeSameDrafts
    BY <1>1, <1>3, <1>5, <1>6, <1>8 DEF MadeSameDrafts, f, MadeConstants
  <2>2. MadeKnown => MadeKnown'
    BY <1>1, <1>4, <1>8, <2>1 DEF MadeKnown, Made!StoredEdit, MadeSameDrafts
  <2> QED
    BY <2>2
<1> QED
  BY <1>7, <1>8

LEMMA MadeFinishes3 == ASSUME MadeInv2, MadeKnown, Made!finishInsightRetry PROVE MadeKnown'
<1>1. /\ board \in MadeBoards /\ stint # None /\ stint.result # None /\ stint.of = board.task
      /\ stint' = None /\ UNCHANGED folders
  BY DEF Made!finishInsightRetry, MadeInv2, MadeInv, MadeTypes, MadeRunning
<1>2. /\ board'.task = board.task /\ board'.found = board.found
      /\ stint.target # "draft" => board'.edited = board.edited
  BY <1>1 DEF Made!finishInsightRetry, Made!Ended, MadeBoards
<1>3. stint.target = "draft" => Made!StoredEdit(board.task) = 0
  BY <1>1 DEF MadeKnown
<1> QED
  BY <1>1, <1>2, <1>3 DEF MadeKnown, Made!StoredEdit

LEMMA MadeFails3 == ASSUME MadeConstants, MadeInv2, MadeKnown, Made!RunFails PROVE MadeKnown'
<1>1. /\ stint # None /\ stint' = None /\ stint \in MadeStints /\ stint.of \in Notes
      /\ stint.of = board.task /\ board \in MadeBoards
      /\ folders \in [Notes -> MadeNatFolders \cup {None}]
  BY DEF Made!RunFails, MadeInv2, MadeInv, MadeTypes, MadeStints, MadeRunning
<1>2. MadeSameDrafts
  <2> DEFINE n == stint.of
             f == [folders[n] EXCEPT !.seed = stint.seed]
  <2>1. CASE UNCHANGED folders
    BY <2>1 DEF MadeSameDrafts
  <2>2. CASE folders[n] # None /\ folders' = [folders EXCEPT ![n].seed = stint.seed]
    <3>1. f \in MadeNatFolders /\ f.draft = folders[n].draft
      BY <1>1, <2>2 DEF MadeNatFolders, MadeStints
    <3>2. folders' = [folders EXCEPT ![n] = f]
      BY <1>1, <2>2
    <3> HIDE DEF f
    <3> QED
      BY <1>1, <2>2, <3>1, <3>2 DEF MadeConstants, MadeSameDrafts
  <2> QED
    BY <2>1, <2>2 DEF Made!RunFails
<1>3. /\ board'.task = board.task
      /\ \/ board'.edited = board.edited /\ board'.found = board.found
         \/ board'.found = Made!StoredEdit(stint.of)
  BY <1>1 DEF Made!RunFails, Made!Ended, MadeBoards
<1>4. CASE board'.edited = board.edited /\ board'.found = board.found
  BY <1>1, <1>2, <1>3, <1>4, MadeStays3
<1>5. CASE board'.found = Made!StoredEdit(stint.of)
  BY <1>1, <1>2, <1>3, <1>5 DEF MadeKnown, Made!StoredEdit, MadeSameDrafts
<1> QED
  BY <1>3, <1>4, <1>5

LEMMA MadeSaveAnswers3 ==
  ASSUME MadeConstants, MadeInv2, MadeKnown, Made!save_draft_edit
  PROVE  MadeKnown'
<1> DEFINE c == Head(post)
           n == c.of
           f == [folders[n] EXCEPT !.draft = c.buffer]
<1>1. /\ board \in MadeBoards /\ folders \in [Notes -> MadeNatFolders \cup {None}]
      /\ UNCHANGED stint /\ c \in MadeWired /\ n \in Notes
  BY MadeFirst DEF Made!save_draft_edit, MadeInv2, MadeInv, MadeTypes, MadeWired
<1>2. stint # None => stint.target # "draft"
  BY MadeFirst DEF Made!save_draft_edit, MadeInv2, MadeInv, MadeShown, MadeWarned, MadeSound
<1>3. CASE UNCHANGED <<folders, board>>
  BY <1>1, <1>3, MadeStays3 DEF MadeSameDrafts
<1>4. CASE /\ folders[n] # None /\ folders' = [folders EXCEPT ![n].draft = c.buffer]
           /\ IF board.task # n THEN UNCHANGED board
              ELSE board' = [board EXCEPT !.draft = c.buffer, !.hasDraft = TRUE, !.edited = TRUE]
  <2>1. CASE board.task # n
    <3>1. folders' = [folders EXCEPT ![n] = f]
      BY <1>4
    <3>2. \A m \in Notes : m # n => folders'[m] = folders[m]
      BY <1>1, <3>1
    <3> QED
      BY <1>1, <1>2, <1>4, <2>1, <3>2 DEF MadeKnown, Made!StoredEdit
  <2>2. CASE board.task = n
    <3>1. board'.edited
      BY <1>1, <1>4, <2>2 DEF MadeBoards
    <3> QED
      BY <1>1, <1>2, <3>1 DEF MadeKnown
  <2> QED
    BY <2>1, <2>2
<1> QED
  BY <1>3, <1>4 DEF Made!save_draft_edit, Made!guard_pending_task

LEMMA MadeSteps3 ==
  ASSUME MadeConstants, MadeInv3, Made!Next \/ UNCHANGED Made!vars
  PROVE  MadeInv3'
<1>1. MadeInv2' /\ MadeInv2 /\ MadeKnown
  BY MadeSteps2 DEF MadeInv3
<1>2. MadeKnown'
  BY <1>1, MadeSheets3, MadeComes3, MadeDeletions3, MadeTextSaves3, MadeConfirms3, MadeCommits3,
     MadeFinishes3, MadeFails3, MadeSaveAnswers3
     DEF Made!Next
<1> QED
  BY <1>1, <1>2 DEF MadeInv3

LEMMA MadeDraftsKept == ASSUME MadeInv3 PROVE Made!EditedDraftIsKept
<1>1. stint # None => stint.of = board.task /\ (stint.target = "draft" /\ board.edited => stint.warned)
  BY DEF MadeInv3, MadeInv2, MadeInv, MadeRunning, MadeWarned
<1>2. \A n \in Notes : folders[n] # None /\ folders[n].draft # None => folders[n].draft.of = n
  BY DEF MadeInv3, MadeInv2, MadeInv, MadeFiled, MadeDraftOf
<1> QED
  BY <1>1, <1>2 DEF MadeInv3, MadeKnown, Made!EditedDraftIsKept

LEMMA MadeHolds2 ==
  ASSUME MadeConstants, MadeInv3
  PROVE  Made!EditedDraftIsKept /\ Made!ShownIsOfNote /\ Made!SeedIsOfList /\ Made!ResultsWillAnswer
<1>1. Made!EditedDraftIsKept
  BY MadeDraftsKept
<1>2. Made!ShownIsOfNote
  BY DEF MadeInv3, MadeInv2, MadeSame, MadeDissected, MadeRead, Made!ShownIsOfNote
<1>3. Made!SeedIsOfList
  BY DEF MadeInv3, MadeInv2, MadeSame, MadeOfList, MadeSeedIn, Made!SeedIsOfList
<1>4. Made!ResultsWillAnswer
  BY DEF MadeInv3, MadeInv2, MadeInv, MadeRunning, MadeAwaits, MadeHas, MadeLoads, MadeSaves,
         Made!ResultsWillAnswer
<1> QED
  BY <1>1, <1>2, <1>3, <1>4

-----------------------------------------------------------------------------
(* Any part (MCParts).                                                     *)

\* A step is one of the component that runs, or none.
LEMMA PartStep ==
  ASSUME [Next]_vars
  PROVE  /\ part' = part
         /\ part = "maintenance" => Upkeep!Next \/ UNCHANGED maintenanceVars
         /\ part = "panel" => Panel!Next \/ UNCHANGED panelVars
         /\ part = "collections" => Shelves!Next \/ UNCHANGED collectionsVars
         /\ part = "deletion" => Deletion!Next \/ UNCHANGED deletionVars
         /\ part = "ledger" => Vault!Next \/ UNCHANGED Vault!vars
         /\ part = "registry" => Entrance!Next \/ UNCHANGED Entrance!vars
         /\ part = "storage" => Storage!Next \/ UNCHANGED Storage!vars
         /\ part = "transcript" => Script!Next \/ UNCHANGED Script!vars
         /\ part = "results" => Made!Next \/ UNCHANGED Made!vars
         /\ part = "import" => Visits!Next \/ UNCHANGED Visits!vars
         /\ part = "models" => Models!Next \/ UNCHANGED Models!vars
         /\ part = "language" => Locale!Next \/ UNCHANGED Locale!vars
         /\ part = "settings" => Preferences!Next \/ UNCHANGED Preferences!vars
         /\ part = "notes" => Deeds!Next \/ UNCHANGED Deeds!vars
         /\ part = "preferences" => Wishes!Next \/ UNCHANGED Wishes!vars
         /\ part = "console" => Console!Next \/ UNCHANGED Console!vars
         /\ part = "server" => Process!Next \/ UNCHANGED Process!vars
BY DEF Next, vars, ledgerVars, Vault!vars, registryVars, Entrance!vars, storageVars,
       Storage!vars, transcriptVars, Script!vars, resultsVars, Made!vars, importVars,
       Visits!vars, modelsVars, Models!vars, languageVars, Locale!vars, settingsVars,
       Preferences!vars, notesVars, Deeds!vars, preferencesVars, Wishes!vars, consoleVars,
       Console!vars, serverVars, Process!vars

\* The constants are what the proofs about the components take them to be.
LEMMA PartsConstantsHold ==
  /\ VaultConstants /\ EntranceConstants
  /\ StorageConstants /\ ScriptConstants /\ MadeConstants /\ VisitsConstants
  /\ PreferencesConstants /\ WishesConstants /\ ModelsConstants /\ DeedsConstants
  /\ LocaleConstants /\ ConsoleConstants /\ ProcessConstants
<1>1. VaultConstants /\ EntranceConstants
  BY MemoryAssumption DEF VaultConstants, EntranceConstants
<1>2. StorageConstants
  BY LibraryAssumption DEF StorageConstants
<1>3. ScriptConstants /\ MadeConstants
  BY LibraryAssumption
     DEF ScriptConstants, ScriptScripts, MadeConstants, MadeNatDrafts, MadeNatFolders,
         MadeMaybeDraft, MadeStints, MadeSeeds
<1>4. /\ PreferencesConstants /\ WishesConstants /\ ModelsConstants /\ DeedsConstants
      /\ LocaleConstants /\ ConsoleConstants /\ ProcessConstants
  BY RunningAssumption
     DEF PreferencesConstants, WishesConstants, ModelsConstants, DeedsConstants,
         LocaleConstants, ConsoleConstants, ProcessConstants
<1>5. VisitsConstants
  BY RunningAssumption DEF VisitsConstants, VisitsSpaces, VisitsClaims, VisitsAnswered
<1> QED
  BY <1>1, <1>2, <1>3, <1>4, <1>5

\* Each component has its invariant while it is the one that runs.
PartsInv ==
  /\ part = "maintenance" => UpkeepInv
  /\ part = "panel" => PanelInv
  /\ part = "collections" => ShelvesInv
  /\ part = "deletion" => DeletionInv
  /\ part = "ledger" => VaultInv
  /\ part = "registry" => EntranceInv
  /\ part = "storage" => StorageInv
  /\ part = "transcript" => ScriptInv2
  /\ part = "results" => MadeInv3
  /\ part = "import" => VisitsInv2
  /\ part = "models" => ModelsInv /\ ModelsAside
  /\ part = "language" => LocaleInv
  /\ part = "settings" => PreferencesInv
  /\ part = "notes" => DeedsInv2
  /\ part = "preferences" => WishesInv
  /\ part = "console" => ConsoleInv
  /\ part = "server" => ProcessInv

LEMMA PartsStart == Init => PartsInv
BY PartsConstantsHold, UpkeepStarts, PanelStarts, ShelvesStarts, DeletionStarts, VaultStarts,
   EntranceStarts, StorageStarts, ScriptStarts2, MadeStarts3, VisitsStarts, VisitsStarts2,
   ModelsStarts, ModelsAsideStarts, LocaleStarts, PreferencesStarts, DeedsStarts2,
   WishesStarts, ConsoleStarts, ProcessStarts
   DEF Init, PartsInv

LEMMA PartsStep == PartsInv /\ [Next]_vars => PartsInv'
<1> SUFFICES ASSUME PartsInv, [Next]_vars PROVE PartsInv'
  OBVIOUS
<1>1. part' = part
  BY PartStep
<1>2. part = "import" => VisitsInv2'
  BY PartStep, PartsConstantsHold, VisitsNextKeeps, VisitsSteps2 DEF PartsInv, VisitsInv2
<1>3. /\ part = "storage" => StorageInv'
      /\ part = "transcript" => ScriptInv2'
      /\ part = "results" => MadeInv3'
      /\ part = "ledger" => VaultInv'
      /\ part = "registry" => EntranceInv'
  BY PartStep, PartsConstantsHold, VaultSteps, EntranceSteps, StorageNextKeeps, ScriptSteps2,
     MadeSteps3
     DEF PartsInv
<1>4. /\ part = "maintenance" => UpkeepInv'
      /\ part = "panel" => PanelInv'
      /\ part = "collections" => ShelvesInv'
      /\ part = "deletion" => DeletionInv'
  BY PartStep, UpkeepSteps, PanelSteps, ShelvesSteps, DeletionSteps DEF PartsInv
<1>5. /\ part = "models" => ModelsInv' /\ ModelsAside'
      /\ part = "language" => LocaleInv'
      /\ part = "settings" => PreferencesInv'
      /\ part = "notes" => DeedsInv2'
  BY PartStep, PartsConstantsHold, ModelsSteps2, ModelsAsideKeeps, LocaleSteps,
     PreferencesSteps, DeedsSteps2
     DEF PartsInv
<1>6. /\ part = "preferences" => WishesInv'
      /\ part = "console" => ConsoleInv'
      /\ part = "server" => ProcessInv'
  BY PartStep, PartsConstantsHold, WishesSteps, ConsoleSteps, ProcessSteps DEF PartsInv
<1> QED
  BY <1>1, <1>2, <1>3, <1>4, <1>5, <1>6 DEF PartsInv

LEMMA PartsInvariant == Spec => []PartsInv
BY PartsStart, PartsStep, PTL DEF Spec

\* However checks, installations, restarts, preparations that are given up, and the
\* calls of the desktop process that go on without the window interleave
\* (useAppUpdateController.ts, useDataStorageController.ts, preflight.rs): an update is
\* installed only while no files are moved, an installed one waits for the restart,
\* and what the user gave up leaves no operation behind.
THEOREM UpdatesAndMovesApart == Spec => []UpdatesAndMoves
<1>1. PartsInv => UpdatesAndMoves
  BY UpkeepHolds DEF PartsInv, UpdatesAndMoves
<1> QED
  BY <1>1, PartsInvariant, PTL

\* Whichever of the operations, links and refreshes of the account panel answer late
\* (useAccountController.ts), and whichever loads and mutations of the collections
\* overlap (useCollectionsController.ts), what is shown never goes back to how it was
\* before a change that it already shows.
THEOREM NothingGetsOlder == Spec => NothingOlder
<1>1. PartsInv /\ [Next]_vars =>
        [ /\ part = "panel" => account'.after >= account.after
          /\ part = "collections" => view'.changes >= view.changes ]_vars
  BY PartStep, PanelSteps, ShelvesSteps DEF PartsInv
<1> QED
  BY <1>1, PartsInvariant, PTL DEF Spec, NothingOlder

\* Wherever a deletion from the history stops, fails or is taken up again, and whatever
\* opens the task or files it meanwhile (history_deletion.rs), and however the writes of
\* the store in memory overlap or fail (memoryStore.ts, atomic.ts): once nothing is
\* under way, what was begun has happened with all its parts, or not at all.
THEOREM OperationsAreWhole == Spec => []AllOrNothing
<1>1. PartsInv => AllOrNothing
  BY PartsConstantsHold, DeletionHolds, VaultHolds, EntranceHolds DEF PartsInv, AllOrNothing
<1> QED
  BY <1>1, PartsInvariant, PTL

\* Whatever crashes, errors, cancellations and resumptions do to a migration, a merge or
\* a clean-up of the data directory (data_storage), every file of the library is where
\* the control file says, as it was last written; however saves, loads, polishing and
\* deletions of a transcript overlap (useStorageEditor.ts) its text is whole and of its
\* own note; a draft with an edit that was stored since its note was opened, and since its
\* last run failed otherwise than in the agents, is only made again after a warning or to
\* retry a failed draft (regenerateDraft.ts, workflowState.ts); and no process of an import
\* is left that neither this desktop nor its recovery knows of (web_page_visit).
THEOREM NothingIsLost == Spec => []NothingLost
<1>1. PartsInv => NothingLost
  BY StorageHeldIsNotLost, ScriptTranscriptsWhole, MadeDraftsKept, VisitsOrphansFound
     DEF PartsInv, ScriptInv2, VisitsInv2, NothingLost
<1> QED
  BY <1>1, PartsInvariant, PTL

\* Whatever is answered late, refused, cancelled or lost, nothing that the window or the
\* administrator's page shows as under way is so for good: each has a call under way that
\* will be answered, or can be tried again (useAsrModelDownload.ts,
\* useSettingsController.ts, useCollectionNoteCreation.ts, useNoteActionsController.ts,
\* useInsightGenerationController.ts, useTranscriptDocumentController.ts,
\* useArtifactDetailController.ts, adminPage.ts); an interrupted merge of two data
\* directories can go on (engine.rs); no claim of an import outlives it (web_page.rs); and
\* a server that was told to end has nothing that keeps it from ending (server.ts).
THEOREM NothingIsStuck == Spec => []NothingStuck
<1>1. ASSUME PartsInv PROVE NothingStuck
  <2>1. part = "storage" => Storage!MergeGoesOn
    BY <1>1 DEF PartsInv, StorageInv, StorageMergingWell, Storage!MergeGoesOn
  <2>2. /\ part = "collections" => Shelves!AttachmentWillEnd
        /\ part = "import" => Visits!ClaimIsOfVisit
    BY <1>1, VisitsClaimEnds DEF PartsInv, ShelvesInv, ShelvesAttach, VisitsInv2
  <2>3. /\ part = "transcript" => Script!TranscriptWillAnswer
        /\ part = "results" => Made!ResultsWillAnswer
    BY <1>1, PartsConstantsHold, ScriptHolds2, MadeHolds2 DEF PartsInv
  <2>4. /\ part = "models" => Models!ActiveWillEnd
        /\ part = "settings" => Preferences!BusyWillEnd
        /\ part = "notes" => Deeds!SheetIsOfItsNote
        /\ part = "preferences" => Wishes!PreferencesWillAnswer
    BY <1>1, PartsConstantsHold, ModelsHolds, PreferencesHolds, DeedsHolds2, WishesHolds
       DEF PartsInv
  <2>5. /\ part = "console" => Console!ButtonsWillAnswer
        /\ part = "server" => Process!ShutdownWillEnd
    BY <1>1, ConsoleHolds, ProcessHolds DEF PartsInv
  <2> QED
    BY <2>1, <2>2, <2>3, <2>4, <2>5 DEF NothingStuck
<1> QED
  BY <1>1, PartsInvariant, PTL

\* Whichever choices, loads, saves and runs overlap, what is shown is what is stored, with
\* these exceptions.  The language is the one on disk once no choice is being saved, unless
\* it could not be read to go back to (lost; languagePreferenceQueue.ts).  No note is shown
\* with an older name or pin than before (useNoteActionsController.ts).  The profile is the
\* stored one while no change of it is on its way (insightPreferencesClient.ts).  A polished
\* text is of the text that is shown, unless it is being read again or that has failed
\* (missed; transcriptReviewState.ts).  A dissection that is not marked as stale is of the
\* text that is shown, unless a run was cancelled after it had been stored or a list came
\* under the sheet of the draft (astray), and a draft with nothing unsaved is the one on
\* disk, unless it was typed into before it was read, or could not be read (early;
\* taskWorkspaceViewModel.ts, DraftResultSheet.tsx).  What is answered of a web page as
\* saved or not saved is so on disk; an error of the clean-up says neither (web_page.rs).
\* The credits on the administrator's page are those that its audit explains (adminPage.ts).
\* The visits of the shell, whose sequences a recursive operator selects, are left to TLC.
THEOREM ViewsAreCurrent == Spec => [](part # "shell" => NoStaleView)
<1>1. ASSUME PartsInv, part # "shell" PROVE NoStaleView
  <2>1. /\ part = "language" => Locale!LanguageIsStored
        /\ part = "notes" => Deeds!NoOlderNote
        /\ part = "preferences" => Wishes!ProfileIsStored
        /\ part = "console" => Console!CreditsAreExplained
    BY <1>1, PartsConstantsHold, LocaleHolds, DeedsHolds2, WishesHolds, ConsoleHolds DEF PartsInv
  <2>2. /\ part = "transcript" => Script!PolishedIsOfText
        /\ part = "results" => Made!ShownIsOfNote
        /\ part = "import" => Visits!AnswerIsOfDisk
    BY <1>1, PartsConstantsHold, ScriptHolds2, MadeHolds2, VisitsHolds2 DEF PartsInv
  <2> QED
    BY <1>1, <2>1, <2>2 DEF NoStaleView
<1> QED
  BY <1>1, PartsInvariant, PTL

\* Preferences are confirmed complete only (insightPreferenceFlow.ts), the seed that is
\* chosen for a draft is of the insights that are shown, unless a list came under the sheet
\* of the draft or with a run that was cancelled after it had been stored (astray;
\* AiGenerationWorkspace.tsx), a tab that was logged out leaves no session behind
\* (routes/admin.ts), and a configuration that the server accepts it can serve, with its
\* database open while any request runs (runtimeConfig.ts, server.ts).
THEOREM WhatIsAskedIsAcceptable ==
  Spec => [](part \in {"preferences", "results", "console", "server"} => Acceptable)
<1>1. ASSUME PartsInv, part \in {"preferences", "results", "console", "server"}
      PROVE  Acceptable
  <2>1. /\ part = "preferences" => Wishes!ConfirmedIsValid
        /\ part = "results" => Made!SeedIsOfList
        /\ part = "console" => Console!LoggedOutIsRevoked
        /\ part = "server" => Process!AcceptedIsServable /\ Process!RequestsHaveDatabase
    BY <1>1, PartsConstantsHold, WishesHolds, MadeHolds2, ConsoleHolds, ProcessHolds DEF PartsInv
  <2> QED
    BY <1>1, <2>1 DEF Acceptable
<1> QED
  BY <1>1, PartsInvariant, PTL
================================================================================

----------------------------- MODULE PreferenceFlow -----------------------------
(***************************************************************************)
(* What a user says of himself and of what he wants before insights are    *)
(* generated: the file of preferences (insight_preferences.rs), the steps  *)
(* of the sheet (insightPreferenceFlow.ts) and the controller              *)
(* (useInsightGenerationController.ts).  A profile is a value; of the      *)
(* directions it matters which of the required fields are chosen.  The     *)
(* commands are synchronous, so the main thread runs and answers them in   *)
(* their order.                                                            *)
(***************************************************************************)
EXTENDS Integers, Sequences, SequencesExt

CONSTANTS
  None,
  Profiles,    \* the valid profiles
  MaxCalls     \* bound on the commands in flight

VARIABLES
  prefs,       \* the file: the profile and whether there are default directions
  wizard,      \* the sheet of the preferences
  summaryOpen, \* the sheet that confirms a summary
  calls,       \* the commands in flight
  busy,        \* insightPreferenceBusy
  held,        \* the sheet shows the language of the run that was confirmed
  running,     \* a run of the task in the workspace
  awaiting     \* the confirmation waits for the run it started

vars == <<prefs, wizard, summaryOpen, calls, busy, held, running, awaiting>>

GENERATION_STEPS == <<"goal", "scenario", "angles", "audience", "styles", "avoid">>
Multi == {"angles", "styles", "avoid"}
Required == {"goal", "scenario", "angles", "audience", "styles"}

Flow == [screen : {"profile_intro", "profile_form", "default_summary",
                   "generation_step", "confirmation"},
         profile : Profiles \cup {None}, skipped : BOOLEAN, reset : BOOLEAN,
         default : BOOLEAN, chosen : SUBSET Required, step : 1..6]

Call == [kind : {"open", "profile", "direction", "skip", "save", "confirm"},
         flow : Flow \cup {None}, profile : Profiles \cup {None}]

TypeOK ==
  /\ prefs \in [profile : Profiles \cup {"missing", "skipped", "invalid"}, default : BOOLEAN]
  /\ wizard \in Flow \cup {None} /\ summaryOpen \in BOOLEAN
  /\ \A i \in DOMAIN calls : calls[i] \in Call
  /\ {busy, held, running, awaiting} \subseteq BOOLEAN

\* A first start, a profile of an older version, and directions of an earlier day.
Init ==
  /\ prefs \in [profile : Profiles \cup {"missing", "skipped", "invalid"}, default : BOOLEAN]
  /\ wizard = None /\ summaryOpen = FALSE /\ calls = <<>>
  /\ busy = FALSE /\ held = FALSE /\ running = FALSE /\ awaiting = FALSE

-----------------------------------------------------------------------------
(* insightPreferenceFlow.ts. *)

validGeneration(chosen) == chosen = Required

createInsightPreferenceFlow(p) ==
  LET decided == p.profile \in Profiles \cup {"skipped"}
  IN [screen |-> CASE ~decided -> "profile_intro"
                   [] decided /\ p.default -> "default_summary"
                   [] OTHER -> "generation_step",
      profile |-> IF p.profile \in Profiles THEN p.profile ELSE None,
      skipped |-> p.profile = "skipped", reset |-> p.profile = "invalid",
      default |-> p.default, chosen |-> IF p.default THEN Required ELSE {}, step |-> 1]

skipProfileSetupInFlow(f) ==
  [f EXCEPT !.screen = "generation_step", !.profile = None, !.skipped = TRUE,
            !.reset = FALSE, !.step = 1]
startProfileSetupInFlow(f) == [f EXCEPT !.screen = "profile_form"]
startGenerationPreferenceEditing(f) ==
  [f EXCEPT !.screen = "generation_step", !.step = 1]

\* None closes the sheet.
cancelProfileSetupInFlow(f) ==
  CASE f.reset \/ (f.profile = None /\ ~f.skipped) ->
         [f EXCEPT !.screen = "profile_intro", !.step = 1]
    [] f.default /\ ~f.reset /\ (f.profile # None \/ f.skipped) ->
         [f EXCEPT !.screen = "default_summary", !.step = 1]
    [] OTHER -> None

useDefaultGenerationPreferences(f) ==
  IF f.default THEN [f EXCEPT !.screen = "confirmation", !.chosen = Required]
  ELSE startGenerationPreferenceEditing(f)

\* A single choice replaces the former one; a multiple one may also be taken back.
selectGenerationOption(f) ==
  LET field == GENERATION_STEPS[f.step]
      kept == f.chosen \cap (Required \ {field})
  IN {[f EXCEPT !.chosen = (@ \cup {field}) \cap Required]}
     \cup (IF field \in Multi \cap f.chosen THEN {[f EXCEPT !.chosen = kept]} ELSE {})

\* A fault: the styles may be left out like what is to be avoided.
canAdvanceGenerationStepBare(f) ==
  f.screen = "generation_step" /\ GENERATION_STEPS[f.step] \in f.chosen \cup {"styles", "avoid"}

canAdvanceGenerationStep(f) ==
  f.screen = "generation_step" /\ GENERATION_STEPS[f.step] \in f.chosen \cup {"avoid"}

advanceGenerationStep(f) ==
  CASE ~canAdvanceGenerationStep(f) -> f
    [] canAdvanceGenerationStep(f) /\ f.step = 6 -> [f EXCEPT !.screen = "confirmation"]
    [] OTHER -> [f EXCEPT !.step = @ + 1]

backGenerationStep(f) == IF f.step = 1 THEN f ELSE [f EXCEPT !.step = @ - 1]

-----------------------------------------------------------------------------
(* useInsightGenerationController.ts. *)

Send(kind, f, p) ==
  /\ Len(calls) < MaxCalls
  /\ calls' = Append(calls, [kind |-> kind, flow |-> f, profile |-> p])
  /\ busy' = TRUE

NoSheet == wizard = None /\ ~summaryOpen

openInsightPreferenceFlow ==
  /\ NoSheet /\ ~running
  /\ Send("open", None, None) /\ held' = FALSE
  /\ UNCHANGED <<prefs, wizard, summaryOpen, running, awaiting>>

openProfileEditorFromSettings ==
  /\ NoSheet
  /\ Send("profile", None, None)
  /\ UNCHANGED <<prefs, wizard, summaryOpen, held, running, awaiting>>

openDirectionEditorFromDetail ==
  /\ NoSheet
  /\ Send("direction", None, None)
  /\ UNCHANGED <<prefs, wizard, summaryOpen, held, running, awaiting>>

openSummaryConfirmation ==
  /\ NoSheet /\ ~running
  /\ summaryOpen' = TRUE
  /\ UNCHANGED <<prefs, wizard, calls, busy, held, running, awaiting>>

closeSummaryConfirmation ==
  /\ summaryOpen' = FALSE
  /\ UNCHANGED <<prefs, wizard, calls, busy, held, running, awaiting>>

\* The run may be refused: a submission or a model download is under way.
confirmSummaryGeneration ==
  /\ ~running
  /\ summaryOpen' = FALSE /\ running' \in BOOLEAN
  /\ UNCHANGED <<prefs, wizard, calls, busy, held, awaiting>>

skipCurrentProfileSetup ==
  /\ Send("skip", wizard, None)
  /\ UNCHANGED <<prefs, wizard, summaryOpen, held, running, awaiting>>

saveCurrentProfile(p) ==
  /\ Send("save", None, p)
  /\ UNCHANGED <<prefs, wizard, summaryOpen, held, running, awaiting>>

\* With an account that can generate.
confirmInsightPreferences ==
  /\ Send("confirm", None, None) /\ held' = TRUE
  /\ UNCHANGED <<prefs, wizard, summaryOpen, running, awaiting>>

closeInsightPreferenceFlow ==
  /\ wizard' = None /\ held' = FALSE
  /\ UNCHANGED <<prefs, summaryOpen, calls, busy, running, awaiting>>

resetInsightGenerationUi ==
  wizard' = None /\ summaryOpen' = FALSE /\ held' = FALSE

\* insight_preferences.rs: what a command leaves in the file.
Written(c) ==
  CASE c.kind = "skip" -> [prefs EXCEPT !.profile = "skipped"]
    [] c.kind = "save" -> [prefs EXCEPT !.profile = c.profile]
    [] c.kind = "confirm" -> [prefs EXCEPT !.default = TRUE]
    [] OTHER -> prefs

\* The answer of a command that opens or goes on with the sheet.
FlowAnswer ==
  LET c == Head(calls) IN
  /\ calls # <<>> /\ c.kind # "confirm"
  /\ calls' = Tail(calls) /\ busy' = FALSE
  /\ prefs' = Written(c)
  /\ LET read == createInsightPreferenceFlow(prefs') IN
     wizard' = CASE c.kind = "open" -> read
                 [] c.kind = "profile" -> startProfileSetupInFlow(read)
                 [] c.kind \in {"direction", "save"} -> startGenerationPreferenceEditing(read)
                 [] c.kind = "skip" -> skipProfileSetupInFlow(c.flow)
  /\ UNCHANGED <<summaryOpen, held, running, awaiting>>

\* The directions are stored; the run begins unless it is refused, and the
\* confirmation waits for its end.
ConfirmAnswer ==
  /\ calls # <<>> /\ Head(calls).kind = "confirm"
  /\ calls' = Tail(calls)
  /\ prefs' = Written(Head(calls)) /\ wizard' = None
  /\ \/ /\ ~running
        /\ running' = TRUE /\ awaiting' = TRUE
        /\ UNCHANGED <<busy, held>>
     \/ busy' = FALSE /\ held' = FALSE /\ UNCHANGED <<running, awaiting>>
  /\ UNCHANGED summaryOpen

\* A command that fails leaves the file and the sheet as they are.
CallFails ==
  /\ calls # <<>>
  /\ calls' = Tail(calls) /\ busy' = FALSE
  /\ held' = (held /\ Head(calls).kind # "confirm")
  /\ UNCHANGED <<prefs, wizard, summaryOpen, running, awaiting>>

\* The end of a run resets the sheets when it was cancelled.
RunEnds ==
  /\ running /\ running' = FALSE /\ awaiting' = FALSE
  /\ busy' = (busy /\ ~awaiting)
  /\ \/ resetInsightGenerationUi
     \/ held' = (held /\ ~awaiting) /\ UNCHANGED <<wizard, summaryOpen>>
  /\ UNCHANGED <<prefs, calls>>

\* A note of the history comes into the workspace.
restoreHistoryItem ==
  /\ ~running /\ resetInsightGenerationUi
  /\ UNCHANGED <<prefs, calls, busy, running, awaiting>>

-----------------------------------------------------------------------------
(* What the sheets offer. *)

onFlowChange(f) ==
  /\ wizard' = f
  /\ UNCHANGED <<prefs, summaryOpen, calls, busy, held, running, awaiting>>

ProfileIntro ==
  /\ wizard.screen = "profile_intro"
  /\ skipCurrentProfileSetup \/ onFlowChange(startProfileSetupInFlow(wizard))

InspirationProfileForm ==
  /\ wizard.screen = "profile_form"
  /\ \/ \E p \in Profiles : saveCurrentProfile(p)
     \/ IF cancelProfileSetupInFlow(wizard) = None THEN closeInsightPreferenceFlow
        ELSE onFlowChange(cancelProfileSetupInFlow(wizard))

DefaultSummary ==
  /\ wizard.screen = "default_summary"
  /\ \/ onFlowChange(useDefaultGenerationPreferences(wizard))
     \/ onFlowChange(startGenerationPreferenceEditing(wizard))
     \/ onFlowChange(startProfileSetupInFlow(wizard))

GenerationStep ==
  /\ wizard.screen = "generation_step"
  /\ \/ \E f \in selectGenerationOption(wizard) : onFlowChange(f)
     \/ onFlowChange(backGenerationStep(wizard))
     \/ canAdvanceGenerationStep(wizard) /\ onFlowChange(advanceGenerationStep(wizard))

ConfirmationStep ==
  /\ wizard.screen = "confirmation"
  /\ confirmInsightPreferences \/ onFlowChange(startGenerationPreferenceEditing(wizard))

\* The cross and the backdrop work while the rest waits.
InsightPreferenceFlow ==
  /\ wizard # None
  /\ \/ closeInsightPreferenceFlow
     \/ /\ ~busy /\ ~running
        /\ \/ ProfileIntro \/ InspirationProfileForm \/ DefaultSummary
           \/ GenerationStep \/ ConfirmationStep

SummaryConfirmationSheet ==
  /\ summaryOpen
  /\ closeSummaryConfirmation \/ confirmSummaryGeneration

Next ==
  \/ openInsightPreferenceFlow \/ openProfileEditorFromSettings
  \/ openDirectionEditorFromDetail \/ openSummaryConfirmation
  \/ FlowAnswer \/ ConfirmAnswer \/ CallFails \/ RunEnds \/ restoreHistoryItem
  \/ InsightPreferenceFlow \/ SummaryConfirmationSheet

Spec == Init /\ [][Next]_vars

-----------------------------------------------------------------------------
\* Directions that can be confirmed are ones that the native side and the worker
\* accept, whatever was taken back on the way there.
ConfirmedIsValid ==
  wizard # None =>
    /\ wizard.screen = "confirmation" => validGeneration(wizard.chosen)
    /\ wizard.screen = "generation_step" =>
         \A i \in 1..(wizard.step - 1) : GENERATION_STEPS[i] \in wizard.chosen

\* The sheet never shows another profile than the stored one, unless a change of
\* it is on its way, whatever sheets were closed and opened meanwhile.
ProfileIsStored ==
  wizard # None /\ (\A i \in DOMAIN calls : calls[i].kind \notin {"skip", "save"}) =>
    /\ wizard.profile = (IF prefs.profile \in Profiles THEN prefs.profile ELSE None)
    /\ wizard.skipped = (prefs.profile = "skipped")

\* The preferences that are shown as busy will be answered, or their run ends.
PreferencesWillAnswer ==
  /\ busy => calls # <<>> \/ awaiting
  /\ awaiting => running
================================================================================

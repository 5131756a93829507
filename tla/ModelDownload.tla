----------------------------- MODULE ModelDownload -----------------------------
(***************************************************************************)
(* Downloads of the speech recognition model and of its runtime component  *)
(* as the user follows them (app/src/features/asrModel/                    *)
(* useAsrModelDownload.ts and its sheet): calls of the desktop process,    *)
(* the events it sends meanwhile and its answers come in any order, and a  *)
(* submission may start a download from what was true when it began.       *)
(* Notices, percentages and the opening of the sheet are left out.         *)
(***************************************************************************)
EXTENDS Integers, Sequences

CONSTANTS MaxDownloads,   \* bound on the downloads that are started
          MaxEvents       \* bound on the events under way

VARIABLES
  model,      \* the state and the references of useAsrModelDownload
  downloads,  \* where each download is
  cancels,    \* the cancellations in flight
  component,  \* the download of the runtime component
  lane,       \* what the lane of the desktop process runs: a download, or 0
  stopping,   \* it was asked to stop
  events,     \* events under way to the front end
  complete,       \* the model is complete on disk
  submission  \* ensureAsrModelReady of a submission

vars == <<model, downloads, cancels, component, lane, stopping, events, complete, submission>>

Ids == 1..MaxDownloads
Component == MaxDownloads + 1    \* the occupant of the lane that is no model
Active == {"running", "cancelling"}
Steps == {"none", "listening", "sent", "running", "ok", "cancelled", "error",
          "refreshing", "over"}

TypeOK ==
  /\ model \in [id : 0..MaxDownloads, phase : Active \cup {"finished"}, intent : 0..MaxDownloads,
                terminal : 0..MaxDownloads, before : Active \cup {"none", "completed"},
                shown : Active \cup {"idle", "completed", "cancelled", "failed"}, available : BOOLEAN]
  /\ downloads \in [Ids -> Steps]
  /\ cancels \subseteq [id : Ids, answer : {"none", "requested", "not_running", "failed"}]
  /\ component \in {"none", "running", "over"}
  /\ lane \in 0..Component /\ stopping \in BOOLEAN
  /\ events \in Seq({"progress", "completed", "cancelled"}) /\ Len(events) <= MaxEvents
  /\ complete \in BOOLEAN
  /\ submission \in [step : {"none", "config", "prepares", "over"}, id : 0..MaxDownloads]

Init ==
  /\ complete \in BOOLEAN
  /\ model = [id |-> 0, phase |-> "finished", intent |-> 0, terminal |-> 0, before |-> "none",
              shown |-> "idle", available |-> FALSE]
  /\ downloads = [i \in Ids |-> "none"] /\ cancels = {} /\ component = "none"
  /\ lane = 0 /\ stopping = FALSE /\ events = <<>> /\ submission = [step |-> "none", id |-> 0]

SubmissionOver == [step |-> "over", id |-> 0]
\* The submission that waits for the download goes on when its call ends.
SubmissionFollows(i) ==
  submission' = IF submission.id = i /\ downloads'[i] = "over" THEN SubmissionOver ELSE submission

Native == <<lane, stopping, events, complete>>

-----------------------------------------------------------------------------
modelDownloadActive == model.shown \in Active

\* A download begins, past the test of modelDownloadActive.
begins ==
  /\ model.id < MaxDownloads
  /\ model' = [model EXCEPT !.id = @ + 1, !.phase = "running", !.intent = 0, !.terminal = 0,
                            !.before = "none", !.shown = "running"]
  /\ downloads' = [downloads EXCEPT ![model.id + 1] = "listening"]

\* The button of the guide, a sheet that cannot be closed meanwhile.
startAsrModelDownload ==
  /\ ~model.available /\ ~modelDownloadActive
  /\ begins
  /\ UNCHANGED <<cancels, component, Native, submission>>

\* ensureAsrModelReady: started without a download; what it finds after the
\* configuration and the status were read decides.
Submit ==
  /\ submission.step = "none" /\ ~modelDownloadActive
  /\ submission' = [submission EXCEPT !.step = "config"]
  /\ UNCHANGED <<model, downloads, cancels, component, Native>>

ensureAsrModelReady ==
  /\ submission.step = "config"
  /\ \/ /\ complete /\ submission' = SubmissionOver
        /\ model' = [model EXCEPT !.available = TRUE] /\ UNCHANGED downloads
     \/ /\ ~complete /\ begins /\ submission' = [step |-> "prepares", id |-> model.id + 1]
     \/ /\ submission' = SubmissionOver                 \* the configuration is not readable
        /\ model' = [model EXCEPT !.shown = "failed"] /\ UNCHANGED downloads
  /\ UNCHANGED <<cancels, component, Native>>

\* shouldApplyModelDownloadUpdate.
applies(i) == i = model.id /\ model.phase # "finished"

\* Fault: a cancellation that came first is not seen.
ListeningOn(i) ==
  /\ downloads[i] = "listening"
  /\ downloads' = [downloads EXCEPT ![i] = IF i = model.id /\ model.phase = "running"
                                           THEN "sent" ELSE "over"]
  /\ SubmissionFollows(i)
  /\ UNCHANGED <<model, cancels, component, Native>>

\* The listener is registered; a cancellation may have come first.
Listening(i) ==
  /\ downloads[i] = "listening"
  /\ IF i = model.id /\ model.phase = "running"
     THEN downloads' = [downloads EXCEPT ![i] = "sent"] /\ UNCHANGED model
     ELSE /\ downloads' = [downloads EXCEPT ![i] = "over"]
          /\ model' = IF i = model.id /\ model.intent = i
                      THEN [model EXCEPT !.phase = "finished", !.terminal = i,
                                         !.shown = "cancelled"]
                      ELSE model
  /\ SubmissionFollows(i)
  /\ UNCHANGED <<cancels, component, Native>>

\* An event reaches the listeners; the current download takes it.
Event ==
  /\ events # <<>> /\ events' = Tail(events)
  /\ LET e == Head(events)
         terminal == e # "progress"
         i == model.id
     IN IF /\ i \in Ids /\ downloads[i] \notin {"listening", "over"}
           /\ model.terminal # i /\ applies(i)
        THEN model' = [model EXCEPT
               !.terminal = IF terminal THEN i ELSE @,
               !.phase = IF e = "cancelled" THEN "finished" ELSE @,
               !.before = IF ~terminal /\ model.phase = "cancelling" THEN "running" ELSE @,
               !.shown = IF terminal THEN e
                         ELSE IF model.phase = "cancelling" THEN "cancelling" ELSE "running"]
        ELSE UNCHANGED model
  /\ UNCHANGED <<downloads, cancels, component, lane, stopping, complete, submission>>

\* The answer of download_asr_model.
Answer(i) ==
  /\ downloads[i] \in {"ok", "cancelled", "error"}
  /\ downloads' = [downloads EXCEPT ![i] = IF applies(i) /\ @ = "ok" THEN "refreshing" ELSE "over"]
  /\ model' = IF applies(i) /\ downloads[i] # "ok"
              THEN [model EXCEPT !.phase = "finished",
                                 !.shown = IF downloads[i] = "error" THEN "failed" ELSE "cancelled"]
              ELSE model
  /\ SubmissionFollows(i)
  /\ UNCHANGED <<cancels, component, Native>>

\* The status after a download that ended; reading it may fail.
Refreshed(i) ==
  /\ downloads[i] = "refreshing"
  /\ downloads' = [downloads EXCEPT ![i] = "over"]
  /\ \E read \in BOOLEAN :
       LET available == IF read THEN complete ELSE model.available
           done == read /\ complete
       IN model' = IF applies(i)
                   THEN [model EXCEPT !.available = available, !.phase = "finished",
                                      !.shown = IF done THEN "completed" ELSE "failed"]
                   ELSE [model EXCEPT !.available = available]
  /\ submission' = IF submission.id = i THEN SubmissionOver ELSE submission
  /\ UNCHANGED <<cancels, component, Native>>

\* cancelCurrentAsrModelDownload and its answer.
cancelCurrentAsrModelDownload ==
  /\ modelDownloadActive /\ model.phase = "running"
  /\ model' = [model EXCEPT !.intent = model.id, !.phase = "cancelling", !.before = model.shown,
                            !.shown = "cancelling"]
  /\ cancels' = cancels \cup {[id |-> model.id, answer |-> "none"]}
  /\ UNCHANGED <<downloads, component, Native, submission>>

\* Fault: the answer of a cancellation is applied to what is shown now.
CancelAnswerLate(c) ==
  /\ c.answer # "none" /\ cancels' = cancels \ {c}
  /\ model' = IF c.answer # "failed" THEN model
              ELSE [model EXCEPT !.phase = "running", !.shown = "running"]
  /\ UNCHANGED <<downloads, component, Native, submission>>

CancelAnswer(c) ==
  /\ c.answer # "none" /\ cancels' = cancels \ {c}
  /\ model' = IF \/ c.id # model.id \/ model.phase # "cancelling" \/ model.terminal = c.id
                 \/ c.answer # "failed"
              THEN model
              ELSE [model EXCEPT !.phase = "running", !.shown = model.before]
  /\ UNCHANGED <<downloads, component, Native, submission>>

\* startRuntimeComponentDownload: the same lane, or a refusal.
startRuntimeComponentDownload ==
  /\ ~modelDownloadActive /\ component = "none"
  /\ \/ component' = "over" /\ UNCHANGED lane
     \/ lane = 0 /\ lane' = Component /\ component' = "running"
  /\ UNCHANGED <<model, downloads, cancels, stopping, events, complete, submission>>

-----------------------------------------------------------------------------
\* The desktop process: the command refuses, has nothing to do, or runs.
NativeStart(i) ==
  /\ downloads[i] = "sent"
  /\ \/ complete /\ downloads' = [downloads EXCEPT ![i] = "ok"] /\ UNCHANGED lane
     \/ ~complete /\ downloads' = [downloads EXCEPT ![i] = "error"] /\ UNCHANGED lane
     \/ ~complete /\ lane = 0 /\ lane' = i /\ downloads' = [downloads EXCEPT ![i] = "running"]
  /\ UNCHANGED <<model, cancels, component, stopping, events, complete, submission>>

\* Progress of the worker, which says itself that it has completed.
Progress ==
  /\ lane # 0 /\ Len(events) < MaxEvents
  /\ \E e \in {"progress", "completed"} :
       /\ events' = Append(events, e)
       /\ complete' = (complete \/ (e = "completed" /\ lane # Component))
  /\ UNCHANGED <<model, downloads, cancels, component, lane, stopping, submission>>

\* The worker ends: the lane is free, then the event of a cancellation is sent.
NativeEnd ==
  /\ lane # 0 /\ lane' = 0 /\ stopping' = FALSE
  /\ IF lane = Component
     THEN component' = "over" /\ UNCHANGED <<downloads, events>>
     ELSE \E r \in {"ok", "cancelled", "error"} :
            /\ r = "ok" => complete
            /\ r = "cancelled" => stopping /\ Len(events) < MaxEvents
            /\ downloads' = [downloads EXCEPT ![lane] = r]
            /\ events' = IF r = "cancelled" THEN Append(events, r) ELSE events
            /\ UNCHANGED component
  /\ UNCHANGED <<model, cancels, complete, submission>>

\* cancel_asr_model_download, whatever the lane runs.
NativeCancel(c) ==
  /\ c.answer = "none"
  /\ \E a \in {"requested", "failed", "not_running"} :
       /\ a = "not_running" <=> lane = 0
       /\ cancels' = (cancels \ {c}) \cup {[c EXCEPT !.answer = a]}
       /\ stopping' = (stopping \/ a = "requested")
  /\ UNCHANGED <<model, downloads, component, lane, events, complete, submission>>

Next ==
  \/ startAsrModelDownload \/ Submit \/ ensureAsrModelReady
  \/ \E i \in Ids : Listening(i) \/ Answer(i) \/ Refreshed(i) \/ NativeStart(i)
  \/ Event \/ cancelCurrentAsrModelDownload
  \/ \E c \in cancels : CancelAnswer(c) \/ NativeCancel(c)
  \/ startRuntimeComponentDownload \/ Progress \/ NativeEnd

Spec == Init /\ [][Next]_vars

-----------------------------------------------------------------------------
\* A download that is shown as active is one that will still end: it is not left
\* on the screen, which can be closed only after it, by an event, a cancellation
\* or an answer that came late.
ActiveWillEnd ==
  modelDownloadActive =>
    model.phase # "finished" /\ downloads[model.id] \notin {"none", "over"}
===============================================================================

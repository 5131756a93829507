----------------------------- MODULE WorkerAnswers -----------------------------
(***************************************************************************)
(* A worker's terminal answer on its way to the window: the request passes *)
(* the window's rules (desktopWorkerProtocol.ts) and the desktop's, the    *)
(* answer of the worker those of the desktop, which completes it from what *)
(* is stored (video_processing/retry_insights.rs, web_page.rs), and then   *)
(* those of the window (workerClient.ts, webPageClient.ts).  TaskResults   *)
(* has the rules of each of them.                                          *)
(***************************************************************************)
EXTENDS TaskResults

VARIABLES
  errand,     \* the operation, what it is asked for of which note, and how far it is
  parcel,     \* what the worker answers
  handed,     \* what the desktop makes of it
  outcome     \* what the window makes of that

vars == <<errand, parcel, handed, outcome>>

Targets == {"summary", "title", "insights", "dissection", "draft", "transcript"}
Operations == {"media", "web", "retry", "stop"}

\* A request for more results of a note: its members are there or not.
Optional == [preferenceSnapshot : {"whole", "no profile", "text"}, insightId : {"id", "fraction"},
             platform : {"named", "blank"}, extra : {"text"}]
Asked == [taskId : {"safe", "unsafe"}, target : Targets \cup {"other"},
          outputLanguage : {"locale", "other"}]

TypeOK ==
  /\ errand.op \in Operations /\ errand.article \in BOOLEAN
  /\ errand.target \in Targets \cup {"none", "other"}
  /\ errand.at \in {"start", "running", "answered", "handed", "end"}
  /\ \A v \in {parcel, handed} :
       v # Null => DOMAIN v \subseteq TASK_RESULT_FIELDS \cup TASK_RESULT_OPTIONAL_FIELDS \cup {"extra"}
  /\ outcome \in {"none", "shown", "invalid", "failed", "violation"}

Init ==
  /\ errand \in {[op |-> o, article |-> a, target |-> "none", asked |-> Null, at |-> "start"] :
                   o \in Operations, a \in BOOLEAN}
  /\ errand.op = "media" => ~errand.article
  /\ errand.op = "web" => errand.article
  /\ parcel = Null /\ handed = Null /\ outcome = "none"

-----------------------------------------------------------------------------
(* What is asked. *)

\* parseRetryInsightsInput: closed members by target.
parseRetryInsightsInput(p) ==
  LET required == {"taskId", "target", "outputLanguage"}
                    \cup IF p.target = "draft" THEN {"insightId", "platform"} ELSE {}
      hasSnapshot == Given(p, "preferenceSnapshot")
  IN /\ required \subseteq DOMAIN p /\ DOMAIN p \subseteq required \cup {"preferenceSnapshot"}
     /\ p.taskId = "safe" /\ p.target \in Targets /\ p.outputLanguage = "locale"
     /\ hasSnapshot => p.target = "insights" /\ p.preferenceSnapshot # "text"
     /\ p.target = "draft" => p.insightId = "id" /\ p.platform = "named"

\* parse_retry_insights_request: a title's request has no other member, a snapshot
\* has a profile, and only a draft has a seed and a platform.
parse_retry_insights_request(p) ==
  /\ DOMAIN p \subseteq {"taskId", "target", "outputLanguage", "preferenceSnapshot", "insightId", "platform"}
  /\ p.target \in Targets /\ p.outputLanguage = "locale"
  /\ p.target = "title" => DOMAIN p = {"taskId", "target", "outputLanguage"}
  /\ Given(p, "preferenceSnapshot") => p.target = "insights" /\ p.preferenceSnapshot = "whole"
  /\ IF p.target = "draft" THEN Is(p, "insightId", "id") /\ Is(p, "platform", "named")
     ELSE ~Given(p, "insightId") /\ ~Given(p, "platform")

Ends(o) == outcome' = o /\ errand' = [errand EXCEPT !.at = "end"] /\ UNCHANGED <<parcel, handed>>

retryInsights ==
  /\ errand.at = "start" /\ errand.op = "retry"
  /\ \E a \in Asked, o \in Optional : \E ks \in SUBSET DOMAIN o :
       LET p == [k \in DOMAIN a \cup ks |-> IF k \in ks THEN o[k] ELSE a[k]]
           asked == [errand EXCEPT !.target = p.target]
       IN CASE ~parseRetryInsightsInput(p) ->
                 outcome' = "invalid" /\ errand' = [asked EXCEPT !.at = "end"]
            [] parseRetryInsightsInput(p) /\ ~parse_retry_insights_request(p) ->
                 outcome' = "failed" /\ errand' = [asked EXCEPT !.at = "end", !.asked = p]
            [] OTHER -> UNCHANGED outcome /\ errand' = [asked EXCEPT !.at = "running"]
  /\ UNCHANGED <<parcel, handed>>

processMedia ==
  /\ errand.at = "start" /\ errand.op \in {"media", "web"}
  /\ errand' = [errand EXCEPT !.at = "running"]
  /\ UNCHANGED <<parcel, handed, outcome>>

\* validate_retry_source: of a page there are neither titles nor transcripts.
Unsupported == errand.op = "retry" /\ errand.article /\ errand.target \in {"title", "transcript"}
TargetUnsupported == errand.at = "running" /\ Unsupported /\ Ends("failed")

-----------------------------------------------------------------------------
(* What is answered. *)

\* The worker's results, by operation and by kind of note; the first is the one that
\* an answer may depart from in two members.
Bases ==
  CASE errand.op = "media" -> <<Speech("completed", Null), Speech("partial_completed", SafeError)>>
    [] errand.op = "web" -> <<With(AsPage(Speech("completed", Null)), "task_created", "true"), Failure("failed")>>
    [] errand.target = "title" -> <<With(Speech("completed", Null), "note_title", Title("completed")),
                                    Failure("partial_completed")>>
    [] OTHER ->
         LET note == [Speech("completed", Null) EXCEPT
                        !.insights = Array(<<AnInsight>>), !.draft = "text",
                        !.dissection = Report(IF errand.article THEN 2 ELSE 1)]
         IN <<IF errand.article THEN AsPage(note) ELSE note, Failure("partial_completed")>>

\* Members whose rules depend on each other.
Coupled == {"status", "task_id", "artifacts", "text", "error", "note_title", "task_created", "source",
            "markdown", "transcript"}
Reports == {With(Report(v), m[1], m[2]) : v \in {1, 2}, m \in Members(1)}
             \cup Miskeyed(Report(1)) \cup Miskeyed(Report(2)) \cup {Report(1), Report(2), Null}

\* Targets whose answers are treated like that of a summary.
Alike == {"insights", "draft", "transcript"}

Answers ==
  /\ errand.at = "running" /\ errand.op # "stop" /\ ~Unsupported
  /\ \/ /\ errand.target \notin Alike
        /\ \E f, g \in Coupled : \E v \in Values[f], w \in Values[g] :
             parcel' = With(With(Bases[1], f, v), g, w)
     \/ \E i \in DOMAIN Bases, f \in DOMAIN Values : \E v \in Values[f] : parcel' = With(Bases[i], f, v)
     \/ \E i \in DOMAIN Bases : \E v \in Miskeyed(Bases[i]) : parcel' = v
     \/ \E r \in Reports : parcel' = With(Bases[1], "dissection", r)
  /\ errand' = [errand EXCEPT !.at = "answered"]
  /\ UNCHANGED <<handed, outcome>>

\* An answer that the worker's own rules can make: result_with_task gives a task its
\* name and its folder together and its source to a page alone, with the article
\* that is stored; and to_dict leaves out what has no value.
Makes(v) ==
  /\ DOMAIN v \subseteq (TASK_RESULT_FIELDS \cup TASK_RESULT_OPTIONAL_FIELDS) \ {"dissection_source_status"}
  /\ v.task_id \in {"null", "own"} /\ v.task_dir = v.task_id
  /\ Given(v, "source") <=> errand.article /\ v.task_id = "own"
  /\ Given(v, "source") <=> Given(v, "markdown")
  /\ created(v) => Given(v, "source") /\ errand.op = "web"
  /\ Given(v, "source") => v.source = PageSource /\ v.text = "text" /\ v.markdown = "text"
  /\ Given(v, "note_title") => NoteTitleMetadata(v.note_title) /\ v.task_id = "own" /\ filed(v, "transcript_txt")
  /\ v.dissection # Null => parse_dissection_report(v.dissection, IF errand.article THEN 2 ELSE 1)

-----------------------------------------------------------------------------
(* What the desktop hands on. *)

accepted == parse_terminal_result(errand.op, parcel)

\* What map_task_worker_result makes of a run: its answer, or a failure of the
\* desktop's own, of a run that has ended in another way too.
Mapped == {Failure(IF errand.op = "media" THEN "failed" ELSE "partial_completed")}
            \cup IF accepted THEN {parcel} ELSE {}

\* validate_source_task: of the note itself, from the same source, with its article.
validate_source_task(v) ==
  /\ v.task_id = "own" /\ v.task_dir = "own"
  /\ IF errand.article THEN Is(v, "source", PageSource) /\ v.text = "text" /\ v.markdown = "text"
     ELSE ~Given(v, "source")

Hands(v) == /\ handed' = sent(v) /\ errand' = [errand EXCEPT !.at = "handed"]
            /\ UNCHANGED <<parcel, outcome>>

\* process_video_blocking: a task is new if it has a transcript.
HandsMedia ==
  /\ errand.at = "answered" /\ errand.op = "media"
  /\ \E v \in Mapped :
       Hands(With(v, "task_created",
                  IF v.status # "failed" /\ v.task_id # "null" /\ Given(v.artifacts, "transcript_txt")
                  THEN "true" ELSE "false"))

\* retry_insights_blocking: what names a task must be of this one, and a dissection is
\* read again from the disk, where it is of the kind of the note.
HandsRetry ==
  /\ errand.at = "answered" /\ errand.op = "retry" /\ errand.target # "title"
  /\ \E v \in Mapped :
       IF v.task_id # "null" /\ ~validate_source_task(v) THEN Ends("failed")
       ELSE IF errand.target = "dissection" /\ v.dissection # Null
       THEN \/ Ends("failed")
            \/ is_article(v.dissection) = errand.article /\ Hands(v)
       ELSE Hands(v)

\* finish_note_title_attempt: the title that is stored, if the answer is of this note
\* and has that title, or the desktop's own account of the failure; with the files and
\* the transcript that are stored.
HandsTitle ==
  /\ errand.at = "answered" /\ errand.op = "retry" /\ errand.target = "title"
  /\ \/ \E v \in Mapped :
          /\ v.task_id = "own" /\ v.status = "completed" /\ titled(v)
          /\ v.note_title.status = "completed"
          /\ Hands([With(v, "task_created", "false") EXCEPT
                      !.task_dir = "own", !.artifacts = FilesOf({"transcript_txt"}), !.text = "text"])
     \/ \E t \in {Title("failed"), Title("cancelled"), Null, Title("completed"), Title("generating")} :
          Hands(With([Speech("partial_completed", [SafeError EXCEPT !.stage = "title_generating"])
                        EXCEPT !.insights = Array(<<AnInsight>>)], "note_title", t))

\* run_claimed_web_page: what was saved, else what the worker said, if that does not
\* name another task or one that is not there.
HandsPage ==
  /\ errand.at = "answered" /\ errand.op = "web"
  /\ \E saved \in BOOLEAN :
       IF accepted /\ parcel.task_id \notin {"null", "own"} THEN Ends("failed")
       ELSE IF saved THEN Hands(With(AsPage(Speech("completed", Null)), "task_created", "true"))
       ELSE IF accepted /\ parcel.task_id = "null" THEN Hands(parcel)
       ELSE Ends("failed")

\* record_note_title_cancellation_to_task: the note as it is stored, with the report
\* that a worker stored, if the whole passes the desktop's rules (from_value).
HandsCancelled ==
  /\ errand.at = "start" /\ errand.op = "stop"
  /\ IF errand.article THEN Ends("failed")
     ELSE \E r \in Reports, s \in {"current", "stale"}, partial \in BOOLEAN,
             t \in {Null} \cup {Title(x) : x \in {"completed", "cancelled", "failed", "generating"}} :
            /\ r # Null => parse_dissection_report(r, 1)
            /\ LET unfinished == t # Null /\ t.status # "completed"
                   error == CASE unfinished -> [SafeError EXCEPT !.stage = "title_generating"]
                              [] ~unfinished /\ partial -> SafeError
                              [] OTHER -> Null
                   note == With(With([Speech(IF error = Null THEN "completed" ELSE "partial_completed", error)
                                        EXCEPT !.dissection = r, !.draft = "text"],
                                     "note_title", t),
                                "dissection_source_status", IF r = Null THEN "null" ELSE s)
               IN IF TaskTerminalResult(note) /\ validate_task_result(note)
                  THEN Hands(note) ELSE Ends("failed")

-----------------------------------------------------------------------------
(* What the window shows. *)

Read ==
  CASE errand.op = "media" -> parseMediaResult(handed)
    [] errand.op = "web" -> parseWorkerResult(handed) /\ (handed.status = "failed" \/ article(handed))
    [] errand.op = "stop" -> parseWorkerResult(handed) /\ handed.task_id = "own"
    [] OTHER -> parseWorkerResult(handed)

Shows == errand.at = "handed" /\ Ends(IF Read THEN "shown" ELSE "violation")

Next ==
  \/ retryInsights \/ processMedia \/ TargetUnsupported \/ Answers \/ HandsMedia
  \/ HandsRetry \/ HandsTitle \/ HandsPage \/ HandsCancelled \/ Shows

Spec == Init /\ [][Next]_vars

-----------------------------------------------------------------------------
\* A text of the report is a byte order mark alone.
HasMark(r) ==
  \/ \E k \in NarrativeKeys : r.overallNarrative[k] = "mark"
  \/ r.reusableTemplate.name = "mark"
  \/ \E i \in DOMAIN r.audienceFit.items : "mark" \in {r.audienceFit.items[i].audience, r.audienceFit.items[i].note}
  \/ \E l \in {r.highlights, r.strengths, r.weaknesses, r.reusableTemplate.skeleton}
               \cup {s[k] : s \in {r.segments.items[i] : i \in DOMAIN r.segments.items}, k \in SegmentLists} :
       \E i \in DOMAIN l.items : l.items[i] = "mark"
  \/ \E i \in DOMAIN r.segments.items, k \in SegmentTexts : r.segments.items[i][k] = "mark"

\* A list of a segment is longer than the window reads.
TooLong(r) == \E i \in DOMAIN r.segments.items, k \in SegmentLists :
                Len(r.segments.items[i][k].items) > DefaultMaximum

\* What the desktop took from a worker that keeps to its own rules the window reads,
\* whatever the operation: the window's rules are no stricter, with three exceptions,
\* for which a whole result is refused that was stored: a report with a list of more
\* than 32 points, with a language that starts with a digit, or with a text that is a
\* byte order mark alone.
AnswersAreRead ==
  outcome = "violation" /\ (errand.op = "stop" \/ Makes(parcel)) =>
    LET r == handed.dissection
    IN r # Null /\ (r.sourceLanguage = "digits" \/ TooLong(r) \/ HasMark(r))

\* Whatever the worker says, what is shown is sound: an error exactly with what is not
\* complete, a new note with its name and its text, of a media run no page, of a page
\* run a page or a failure, of a retry no other note; a title is shown as complete
\* only when it has one, and each segment of a report refers to chunks it has.
ShownIsSound ==
  outcome = "shown" =>
    /\ handed.status = "completed" <=> handed.error = Null
    /\ created(handed) => named(handed) /\ \E k \in {"article_txt", "transcript_txt"} : filed(handed, k)
    /\ errand.op = "media" => ~article(handed)
    /\ errand.op = "web" => handed.status = "failed" \/ article(handed)
    /\ errand.op = "retry" => handed.task_id \in {"null", "own"} /\ ~created(handed)
    /\ titled(handed) /\ handed.note_title.status = "completed" => handed.note_title.text = "text"
    /\ handed.dissection # Null =>
         \A i \in DOMAIN handed.dissection.segments.items :
           LET ids == handed.dissection.segments.items[i].sourceChunkIds.items
           IN \A j \in DOMAIN ids : ids[j] \in DOMAIN handed.dissection.sourceChunks.items

\* A request that the window passes and the desktop refuses has a preference
\* snapshot without a profile.
RequestsAreHeard ==
  errand.asked # Null => Is(errand.asked, "preferenceSnapshot", "no profile")
===============================================================================

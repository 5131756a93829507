------------------------------ MODULE TaskResults ------------------------------
(***************************************************************************)
(* The terminal result of a task: what the worker makes of one (models.py, *)
(* note_title_metadata.py), what the desktop takes from it and hands on    *)
(* (worker_runtime/result_protocol.rs, task_manifest/note_title.rs), and   *)
(* what the window reads (workerResultProtocol.ts, noteTitle.ts,           *)
(* webPageProtocol.ts).  Values are written as in Reports.                 *)
(***************************************************************************)
EXTENDS Reports, FiniteSets

TASK_RESULT_FIELDS == {"status", "task_id", "task_dir", "artifacts", "text", "summary", "insights",
                       "transcript", "dissection", "draft", "error"}
TASK_RESULT_OPTIONAL_FIELDS == {"dissection_source_status", "note_title", "task_created", "source",
                                "markdown"}
ArticleArtifacts == {"article_txt", "article_md"}
MediaArtifacts == {"video", "audio", "transcript_txt", "transcript_md", "segments"}

\* The artifacts of which there is a rule; "summary" stands for the eight others.
TASK_ARTIFACT_KEYS == ArticleArtifacts \cup MediaArtifacts \cup {"summary"}
TASK_INSIGHT_FIELDS == {"id", "topic", "matchReason", "followUpQuestions", "suitableUse",
                        "sourceChunkId"}
TASK_TERMINAL_STATUSES == {"completed", "partial_completed", "failed"}

\* A stage of the contract, for which one stands, with that of the titles.
TASK_ERROR_STAGES == {"insights_generating", "title_generating"}
\* An insight; the chunk -1 stands for null.
AnInsight == [id |-> 1, topic |-> "text", matchReason |-> "blank",
                      followUpQuestions |-> Array(<<"text">>), suitableUse |-> "text",
                      sourceChunkId |-> 1]
Metadata == [source |-> "asr", language |-> "null", engine |-> "text"]
SafeError == [code |-> "SAFE", message |-> "text", stage |-> "insights_generating"]
Title(status) == [text |-> "text", status |-> status, output_language |-> "locale",
                  error_code |-> IF status \in {"failed", "cancelled"} THEN "SAFE" ELSE "null"]
PageSource == [kind |-> "web_page", url |-> "canonical", title |-> "text", extractedAt |-> "utc"]

\* An artifact's path: the fixed one of its key, another one of the task, one that
\* leaves the task or holds what is secret, none, or no text.
Paths == {"own", "elsewhere", "unsafe", "blank", "odd"}
FilesOf(keys) == [k \in keys |-> "own"]

\* The classes of a body's text: "over" is longer than the maximum of an article.
Bodies == {"text", "mark", "over", "blank", "empty", "null", "odd"}

\* What may stand in a member of a result.
Values == [
  status |-> TASK_TERMINAL_STATUSES \cup {"other"},
  task_id |-> {"null", "blank", "own", "other", "odd"},
  task_dir |-> {"null", "blank", "own", "other", "odd"},
  artifacts |->
    {FilesOf(ks) : ks \in {{}, {"transcript_txt"}, {"summary"}, ArticleArtifacts, {"article_txt"}}}
      \cup {FilesOf(ArticleArtifacts \cup {k}) : k \in MediaArtifacts}
      \cup {FilesOf({"other"})} \cup {[transcript_txt |-> p] : p \in Paths}
      \cup {[article_txt |-> "own", article_md |-> p] : p \in Paths},
  text |-> Bodies, markdown |-> Bodies, draft |-> {"text", "empty", "null"},
  summary |-> {"text", "empty", "null"},
  insights |-> {Array(<<>>), Odd} \cup
    {Array(<<i>>) : i \in {AnInsight} \cup Miskeyed(AnInsight)
       \cup {With(AnInsight, "id", n) : n \in {-1, MAX_SAFE_INTEGER + 1}}
       \cup {With(AnInsight, "sourceChunkId", n) : n \in {-1, MAX_SAFE_INTEGER + 1}}
       \cup {With(AnInsight, "topic", t) : t \in {"mark", "blank", "odd"}}
       \cup {With(AnInsight, "followUpQuestions", l) : l \in {Odd, Array(<<"odd">>)}}},
  transcript |-> {Null, Metadata} \cup Miskeyed(Metadata)
    \cup {With(Metadata, k, v) : k \in {"source", "language"}, v \in {"subtitle", "odd"}},
  dissection_source_status |-> {"null", "current", "stale", "other"},
  error |-> {Null, SafeError} \cup Miskeyed(SafeError)
    \cup {With(SafeError, k, "odd") : k \in {"code", "message", "stage"}},
  note_title |-> {Null} \cup Miskeyed(Title("completed"))
    \cup {With(Title(s), "text", t) : s \in {"generating", "completed", "failed", "cancelled", "other"},
                                      t \in {"text", "blank", "null"}}
    \cup {With(Title(s), "error_code", c) : s \in {"generating", "completed", "failed"},
                                            c \in {"null", "SAFE", "odd"}}
    \cup {With(Title("completed"), "output_language", "other")},
  task_created |-> {"true", "false", "null"},
  source |-> {Null, PageSource} \cup Miskeyed(PageSource)
    \cup {With(PageSource, k, "odd") : k \in DOMAIN PageSource}]

-----------------------------------------------------------------------------
(* The worker. *)

\* NoteTitleMetadata, which is checked when it is made.
NoteTitleMetadata(t) ==
  /\ DOMAIN t = {"text", "status", "output_language", "error_code"}
  /\ t.text \in {"text", "null"} /\ t.output_language = "locale"
  /\ t.status \in {"generating", "completed", "failed", "cancelled"}
  /\ IF t.status \in {"generating", "completed"}
     THEN t.error_code = "null" /\ (t.status = "completed" => t.text # "null")
     ELSE t.error_code = "SAFE"

\* ProcessResult.to_dict: the optional members are there if they have a value.
to_dict(status, task_id, artifacts, text, insights, transcript, dissection, error, draft) ==
  [status |-> status, task_id |-> task_id, task_dir |-> task_id, artifacts |-> artifacts,
   text |-> text, summary |-> "empty", insights |-> insights, transcript |-> transcript,
   dissection |-> dissection, error |-> error, draft |-> draft]

Failure(status) ==
  to_dict(status, "null", FilesOf({}), "empty", Array(<<>>), Null, Null, SafeError, "empty")
Speech(status, error) ==
  to_dict(status, "own", FilesOf({"transcript_txt"}), "text", Array(<<>>), Metadata, Null, error, "empty")
AsPage(a) == With(With(With([a EXCEPT !.transcript = Null], "artifacts", FilesOf(ArticleArtifacts)),
                       "source", PageSource), "markdown", "text")

-----------------------------------------------------------------------------
(* The desktop. *)

Given(v, k) == k \in DOMAIN v
Is(v, k, x) == Given(v, k) /\ v[k] = x

\* TaskTerminalResult: members and types; null is no value of source or markdown,
\* the draft may be missing.
TaskTerminalResult(v) ==
  /\ TASK_RESULT_FIELDS \ {"draft"} \subseteq DOMAIN v
  /\ DOMAIN v \subseteq TASK_RESULT_FIELDS \cup TASK_RESULT_OPTIONAL_FIELDS
  /\ v.status \in TASK_TERMINAL_STATUSES
  /\ is_optional(v.task_id) /\ is_optional(v.task_dir)
  /\ \A k \in DOMAIN v.artifacts : is_string(v.artifacts[k])
  /\ \A k \in {"text", "summary", "draft", "markdown"} \cap DOMAIN v : is_string(v[k])
  /\ is_objects(v.insights, TASK_INSIGHT_FIELDS)
  /\ \A j \in DOMAIN v.insights.items :
       LET i == v.insights.items[j]
       IN i.id >= 0 /\ is_string(i.topic) /\ is_strings(i.followUpQuestions)
  /\ v.transcript # Null => /\ DOMAIN v.transcript = DOMAIN Metadata
                            /\ v.transcript.source \in {"asr", "subtitle"}
                            /\ is_optional(v.transcript.language)
  /\ v.dissection # Null => TaskDissection(v.dissection)
  /\ v.error # Null => /\ DOMAIN v.error = DOMAIN SafeError /\ is_string(v.error.message)
                       /\ v.error.stage \in TASK_ERROR_STAGES
  /\ Given(v, "dissection_source_status") => v.dissection_source_status # "other"
  /\ Given(v, "task_created") => v.task_created # "null"
  /\ Given(v, "source") => DOMAIN v.source = DOMAIN PageSource /\ v.source.kind = "web_page"
  /\ Given(v, "note_title") =>
       v.note_title = Null \/ DOMAIN v.note_title = {"text", "status", "output_language", "error_code"}

\* NoteTitle::is_valid.
is_valid(t) ==
  /\ t.output_language = "locale" /\ t.text \in {"text", "null"}
  /\ CASE t.status = "completed" -> t.text # "null" /\ t.error_code = "null"
       [] t.status = "generating" -> t.error_code = "null"
       [] t.status \in {"failed", "cancelled"} -> t.error_code = "SAFE"
       [] OTHER -> FALSE

\* validate_artifact_relative_path: an article's two files have fixed paths.
path_ok(k, p) ==
  k \in TASK_ARTIFACT_KEYS /\ p \in IF k \in ArticleArtifacts THEN {"own"} ELSE {"own", "elsewhere"}

source_is_safe(v) ==
  IF Given(v, "source")
  THEN /\ v.source.title = "text" /\ v.source.url = "canonical" /\ v.source.extractedAt = "utc"
       /\ v.transcript = Null /\ (Given(v, "note_title") => v.note_title = Null)
       /\ Given(v, "markdown") /\ v.markdown \in {"text", "mark"} /\ v.text \in {"text", "mark"}
       /\ \A k \in ArticleArtifacts : Is(v.artifacts, k, "own")
       /\ DOMAIN v.artifacts \cap MediaArtifacts = {}
       /\ v.dissection = Null \/ is_article(v.dissection)
  ELSE /\ Given(v, "markdown") => v.markdown = "empty"
       /\ DOMAIN v.artifacts \cap ArticleArtifacts = {}
       /\ ~is_article(v.dissection)

validate_task_result(v) ==
  /\ v.status = "completed" <=> v.error = Null
  /\ \A k \in DOMAIN v.artifacts : path_ok(k, v.artifacts[k])
  /\ source_is_safe(v)
  /\ \A j \in DOMAIN v.insights.items :
       v.insights.items[j].id <= MAX_SAFE_INTEGER /\ v.insights.items[j].sourceChunkId <= MAX_SAFE_INTEGER
  /\ v.error # Null => v.error.code = "SAFE"
  /\ v.dissection # Null => validate_task_dissection(v.dissection)
  /\ Given(v, "note_title") => v.note_title = Null \/ is_valid(v.note_title)

created(v) == Is(v, "task_created", "true")
bare(v) == /\ v.summary = "empty" /\ v.insights = Array(<<>>) /\ v.dissection = Null
           /\ (Given(v, "draft") => v.draft = "empty")

\* parse_terminal_result, by the operation of the worker.
parse_terminal_result(op, v) ==
  /\ op = "media" => ~Given(v, "source") /\ ~Given(v, "markdown")
  /\ TaskTerminalResult(v)
  /\ op = "retry" => ~created(v)
  /\ op = "media" => DOMAIN v.artifacts \cap ArticleArtifacts = {}
  /\ op = "web" /\ ~Given(v, "source") =>
       /\ v.status = "failed" /\ v.task_id = "null" /\ v.task_dir = "null"
       /\ DOMAIN v.artifacts = {} /\ v.text = "empty" /\ v.transcript = Null /\ bare(v)
       /\ (Given(v, "markdown") => v.markdown = "empty")
       /\ (Given(v, "note_title") => v.note_title = Null)
  /\ op = "web" /\ Given(v, "source") =>
       /\ v.status = "completed" /\ created(v) /\ v.task_id # "null" /\ v.task_dir # "null"
       /\ Cardinality(DOMAIN v.artifacts) = 2 /\ bare(v)
  /\ validate_task_result(v)

\* What the desktop sends of a result it holds: optional members are left out if
\* they have no value, the draft and the mark of a new task are always there.
sent(v) ==
  LET out == {k \in DOMAIN v \cap {"note_title"} : v.note_title = Null}
             \cup {k \in DOMAIN v \cap {"dissection_source_status"} : v[k] = "null"}
             \cup {k \in DOMAIN v \cap {"markdown"} : v[k] = "empty"}
  IN [k \in (DOMAIN v \ out) \cup {"draft", "task_created"} |->
        IF k \in DOMAIN v THEN v[k] ELSE IF k = "draft" THEN "empty" ELSE "false"]

-----------------------------------------------------------------------------
(* The window. *)

\* String.trim, of a member that may be missing or null.
hasText(t) == t \notin {"null", "blank", "mark", "empty", "odd"}
nullableString(t) == t # "odd"

parseArtifacts(v) == \A k \in DOMAIN v : k \in TASK_ARTIFACT_KEYS /\ v[k] # "odd"

parseInsights(v) ==
  /\ readDataArray(v)
  /\ \A j \in DOMAIN v.items :
       LET i == v.items[j]
       IN /\ readExactObject(i, TASK_INSIGHT_FIELDS)
          /\ isSafeUnsignedInteger(i.id)
          /\ i.sourceChunkId = -1 \/ isSafeUnsignedInteger(i.sourceChunkId)
          /\ i.topic \notin {"null", "odd"}
          /\ readDataArray(i.followUpQuestions)
          /\ \A q \in DOMAIN i.followUpQuestions.items : i.followUpQuestions.items[q] # "odd"

parseTranscript(v) ==
  v # Null => /\ readExactObject(v, {"source", "language", "engine"})
              /\ v.source \in {"asr", "subtitle"}
              /\ nullableString(v.language) /\ nullableString(v.engine)

parseTaskError(v) ==
  v # Null => /\ readExactObject(v, {"code", "message", "stage"})
              /\ v.code = "SAFE" /\ v.message \notin {"null", "odd"} /\ v.stage \in TASK_ERROR_STAGES

parseDissectionSourceStatus(v) ==
  Given(v, "dissection_source_status") => v.dissection_source_status \in {"null", "current", "stale"}

parseNoteTitleMetadata(t) ==
  t # Null => /\ readExactObject(t, {"text", "status", "output_language", "error_code"})
              /\ t.text \in {"null", "text"} /\ t.output_language = "locale"
              /\ t.status \in {"generating", "completed", "failed", "cancelled"}
              /\ t.status \in {"generating", "completed"} => t.error_code = "null"
              /\ t.status = "completed" => t.text # "null"
              /\ t.status \in {"failed", "cancelled"} => t.error_code = "SAFE"

parseWebPageSource(s) ==
  /\ readExactObject(s, {"kind", "url", "title", "extractedAt"})
  /\ s.kind = "web_page" /\ s.url = "canonical" /\ s.title = "text" /\ s.extractedAt = "utc"

readObjectWithOptional(v) ==
  /\ DOMAIN v \subseteq TASK_RESULT_FIELDS \cup TASK_RESULT_OPTIONAL_FIELDS
  /\ TASK_RESULT_FIELDS \subseteq DOMAIN v

article(v) == Given(v, "source") /\ v.source # Null
titled(v) == Given(v, "note_title") /\ v.note_title # Null

\* A note that has its name, its folder and the file of its text.
named(v) == hasText(v.task_id) /\ hasText(v.task_dir)
filed(v, k) == Given(v.artifacts, k) /\ hasText(v.artifacts[k])

\* Each of its members is well formed, but for those that depend on each other.
wellFormed(v) ==
  /\ readObjectWithOptional(v) /\ v.status \in TASK_TERMINAL_STATUSES
  /\ nullableString(v.task_id) /\ nullableString(v.task_dir) /\ parseArtifacts(v.artifacts)
  /\ v.text \notin {"null", "odd"} /\ v.summary \notin {"null", "odd"}
  /\ parseInsights(v.insights) /\ parseTranscript(v.transcript) /\ parseDissection(v.dissection)
  /\ parseDissectionSourceStatus(v) /\ parseTaskError(v.error)
  /\ Given(v, "note_title") => parseNoteTitleMetadata(v.note_title)
  /\ article(v) => parseWebPageSource(v.source)
  /\ Given(v, "markdown") => v.markdown \notin {"null", "odd"}
  /\ Given(v, "task_created") => v.task_created # "null"

articleWhole(v) ==
  /\ v.transcript = Null /\ ~titled(v) /\ Given(v, "markdown") /\ named(v)
  /\ hasText(v.text) /\ hasText(v.markdown) /\ "over" \notin {v.text, v.markdown}
  /\ DOMAIN v.artifacts \cap MediaArtifacts = {}
  /\ \A k \in ArticleArtifacts : Is(v.artifacts, k, "own")
  /\ v.dissection # Null => v.dissection.schemaVersion # 1

parseWorkerResult(v) ==
  /\ wellFormed(v)
  /\ IF article(v) THEN articleWhole(v)
     ELSE DOMAIN v.artifacts \cap ArticleArtifacts = {} /\ ~is_article(v.dissection)
  /\ v.status = "completed" <=> v.error = Null
  /\ created(v) => /\ v.status # "failed" /\ named(v)
                   /\ filed(v, IF article(v) THEN "article_txt" ELSE "transcript_txt")
  /\ titled(v) => named(v) /\ filed(v, "transcript_txt")

parseMediaResult(v) == parseWorkerResult(v) /\ ~article(v)
===============================================================================

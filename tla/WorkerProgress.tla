----------------------------- MODULE WorkerProgress ----------------------------
(***************************************************************************)
(* A worker's progress on its way to the window, and the short replies of  *)
(* the desktop: what a worker writes of a task or of a model download      *)
(* (worker/frameq_worker/progress_events.py) is validated by the desktop   *)
(* against the contract (progress_event.rs) and again by the window        *)
(* (app/src/desktopWorkerProtocol.ts), each with rules of its own.         *)
(***************************************************************************)
EXTENDS Integers, FiniteSets

VARIABLES
  notice,   \* what is on its way, and how far it is
  relayed,  \* whether the desktop relayed it
  heard,    \* what the window made of it
  rendered  \* which message it renders

vars == <<notice, relayed, heard, rendered>>

-----------------------------------------------------------------------------
(* The codes of the contract, one of each kind, and the rules of each. *)

Rule(status, file, args) == [status |-> status, file |-> file, args |-> args]

\* WORKER_MESSAGE_CODE_RULES: a task's codes differ in their arguments.
TaskRules == [
  plain |-> Rule("any", "forbidden", {}),
  subtitle |-> Rule("any", "forbidden", {"language"}),
  cache |-> Rule("any", "forbidden", {"model"}),
  retrying |-> Rule("any", "forbidden", {"attempt", "total"})]

\* ASR_MODEL_DOWNLOAD_MESSAGE_CODE_RULES: each code has a status and says whether
\* a file goes with it.
ModelRules == [
  preparing |-> Rule("started", "forbidden", {"model"}),
  downloading |-> Rule("downloading", "forbidden", {"model"}),
  reading |-> Rule("downloading", "forbidden", {}),
  extracting |-> Rule("extracting", "forbidden", {}),
  fileDownloading |-> Rule("downloading", "required", {}),
  completed |-> Rule("completed", "forbidden", {"model"}),
  cancelled |-> Rule("cancelled", "forbidden", {}),
  component |-> Rule("started", "forbidden", {})]

Lanes == {"task", "model"}
Rules(lane) == IF lane = "task" THEN TaskRules ELSE ModelRules
Known(e) == e.code \in DOMAIN Rules(e.lane)
CodesOf(lane) == DOMAIN Rules(lane) \cup {"newer", "unsafe"}

\* WORKER_PROGRESS_STAGES, ASR_MODEL_DOWNLOAD_WIRE_STATUSES: a value of the lane's
\* list, or another one.
Stages(lane) == IF lane = "task" THEN {"stage", "other"}
                ELSE {"started", "downloading", "extracting", "completed", "cancelled", "other"}

ArgValues == [model : {"absent", "known", "other"}, language : {"absent", "tag", "odd"},
              attempt : {-1, 0, 1, 2, 100, 101}, total : {-1, 0, 1, 2, 100, 101}]
NoArgs == [model |-> "absent", language |-> "absent", attempt |-> -1, total |-> -1]
Given(args) == {k \in DOMAIN args : args[k] # NoArgs[k]}

FileNames == {"absent", "plain", "private", "unsafe"}
Event == [lane : Lanes, code : {"newer", "unsafe"} \cup DOMAIN TaskRules \cup DOMAIN ModelRules,
          stage : {"stage"} \cup Stages("model"), progress : {-1, 0, 100, 101},
          args : ArgValues, file : FileNames, keys : {"closed", "open"}]
Plain == [lane |-> "task", code |-> "plain", stage |-> "stage", progress |-> 0,
          args |-> NoArgs, file |-> "absent", keys |-> "closed"]

\* The replies to a cancellation and to a model download.
Cancellations == [status : {"cancelling", "already_cancelling", "not_running", "failed", "other"},
                  error : {"none", "text"}]
Downloads == [status : {"completed", "cancelled", "already_available", "other"}, started : BOOLEAN]

TypeOK ==
  /\ notice \in [at : {"start", "said", "relayed", "end"}, event : Event]
             \cup [at : {"replied", "end"}, cancellation : Cancellations]
             \cup [at : {"replied", "end"}, download : Downloads]
  /\ relayed \in BOOLEAN /\ heard \in {"none", "known", "unknown", "invalid"}
  /\ rendered \in {"none", "own", "fallback"}

Init == /\ notice = [at |-> "start", event |-> Plain]
        /\ relayed = FALSE /\ heard = "none" /\ rendered = "none"

-----------------------------------------------------------------------------
(* The worker. *)

InRange(n, low, high) == low <= n /\ n <= high

\* _validate_message_args.
argsMade(args, allowed) ==
  /\ Given(args) \subseteq allowed
  /\ args.model # "other" /\ args.language # "odd"
  /\ args.attempt = -1 \/ InRange(args.attempt, 1, 100)
  /\ args.total = -1 \/ InRange(args.total, 1, 100)
  /\ {"attempt", "total"} \subseteq Given(args) => args.attempt <= args.total

\* build_worker_progress_event, build_model_progress_event: what the worker's own
\* rules let it write; of a file its bare name, if that is no credential's.
Makes(e) ==
  /\ e.keys = "closed" /\ Known(e) /\ InRange(e.progress, 0, 100)
  /\ LET r == Rules(e.lane)[e.code]
     IN /\ e.stage # "other" /\ r.status \in {"any", e.stage}
        /\ e.file \in IF r.file = "required" THEN {"plain"} ELSE {"absent"}
        /\ argsMade(e.args, r.args)

\* The worker, or something in its place, writes a line; up to two features of it
\* depart from a plain one.
Says ==
  /\ notice.at = "start"
  /\ \E lane \in Lanes, args \in ArgValues : \E code \in CodesOf(lane), stage \in Stages(lane) :
     \E p \in {-1, 0, 100, 101}, f \in FileNames, k \in {"closed", "open"} :
       /\ Cardinality(Given(args)) <= 2
       /\ lane = "task" => f = "absent"
       /\ Cardinality({x \in {<<"p", p>>, <<"f", f>>, <<"k", k>>} :
                         x \notin {<<"p", 0>>, <<"f", "absent">>, <<"k", "closed">>}}) <= 1
       /\ notice' = [at |-> "said",
                     event |-> [lane |-> lane, code |-> code, stage |-> stage, progress |-> p,
                                args |-> args, file |-> f, keys |-> k]]
  /\ UNCHANGED <<relayed, heard, rendered>>

-----------------------------------------------------------------------------
(* The desktop. *)

\* validate_arg and validate_arg_relationships, by the contract's schemas.
validate_args(args, allowed) ==
  /\ Given(args) \subseteq allowed
  /\ \A k \in {"attempt", "total"} \cap Given(args) : InRange(args[k], 1, 100)
  /\ args.model \in {"absent", "known"} /\ args.language \in {"absent", "tag"}
  /\ "attempt" \in Given(args) /\ "total" \in Given(args) => ~(args.attempt > args.total)

\* validate_worker_progress_event: only a code of the contract.
validate_worker_progress_event(e) ==
  /\ e.keys = "closed" /\ e.file = "absent" /\ e.stage # "other"
  /\ InRange(e.progress, 0, 100) /\ Known(e) /\ validate_args(e.args, TaskRules[e.code].args)

\* validate_model_download_event: with its status, and its file if one is due.
validate_model_download_event(e) ==
  /\ e.keys = "closed" /\ InRange(e.progress, 0, 100)
  /\ Known(e) /\ validate_args(e.args, ModelRules[e.code].args)
  /\ e.stage = ModelRules[e.code].status
  /\ e.file \in IF ModelRules[e.code].file = "required" THEN {"plain", "private"} ELSE {"absent"}

Relays ==
  /\ notice.at = "said"
  /\ LET valid == IF notice.event.lane = "task" THEN validate_worker_progress_event(notice.event)
                  ELSE validate_model_download_event(notice.event)
     IN /\ relayed' = valid
        /\ notice' = [notice EXCEPT !.at = IF valid THEN "relayed" ELSE "end"]
  /\ UNCHANGED <<heard, rendered>>

\* request_process_cancellation: an error exactly with a failure.
CancelReplied ==
  /\ notice.at = "start"
  /\ \E s \in {"cancelling", "already_cancelling", "not_running", "failed"} :
       notice' = [at |-> "replied",
                  cancellation |-> [status |-> s, error |-> IF s = "failed" THEN "text" ELSE "none"]]
  /\ relayed' = TRUE /\ UNCHANGED <<heard, rendered>>

\* download_asr_model_blocking: started, unless it was there or was cancelled.
DownloadReplied ==
  /\ notice.at = "start"
  /\ \E s \in {"completed", "cancelled", "already_available"} :
       notice' = [at |-> "replied", download |-> [status |-> s, started |-> s = "completed"]]
  /\ relayed' = TRUE /\ UNCHANGED <<heard, rendered>>

-----------------------------------------------------------------------------
(* The window. *)

\* isRecord, hasExactFields, isProgress, isSafeCode: the shape of every event.
shapeOk(e) ==
  /\ e.keys = "closed" /\ InRange(e.progress, 0, 100) /\ e.code # "unsafe"
  /\ e.stage \in Stages(e.lane) \ {"other"}

\* validateMessageArgs, and of a code that is not known no arguments at all.
validateMessageArgs(args, allowed) ==
  /\ Given(args) \ allowed = {}
  /\ "model" \in Given(args) => args.model = "known"
  /\ "language" \in Given(args) => args.language = "tag"
  /\ \A k \in Given(args) \cap {"attempt", "total"} : args[k] >= 1 /\ args[k] <= 100
  /\ args.attempt # -1 /\ args.total # -1 => args.attempt <= args.total

parseWorkerProgressEvent(e) ==
  IF ~shapeOk(e) \/ e.file # "absent" THEN "invalid"
  ELSE IF Known(e) THEN IF validateMessageArgs(e.args, TaskRules[e.code].args) THEN "known" ELSE "invalid"
  ELSE IF Given(e.args) = {} THEN "unknown" ELSE "invalid"

parseAsrModelDownloadProgressEvent(e) ==
  IF ~shapeOk(e) \/ e.file = "unsafe" THEN "invalid"
  ELSE IF Known(e)
       THEN LET r == ModelRules[e.code]
            IN IF /\ validateMessageArgs(e.args, r.args) /\ e.stage = r.status
                  /\ r.file = "required" <=> e.file # "absent"
               THEN "known" ELSE "invalid"
       ELSE IF Given(e.args) = {} THEN "unknown" ELSE "invalid"

\* renderWorkerProgressMessage, renderAsrModelDownloadMessage: the code's own
\* message, or that of its stage.
Hears ==
  /\ notice.at = "relayed"
  /\ heard' = IF notice.event.lane = "task" THEN parseWorkerProgressEvent(notice.event)
              ELSE parseAsrModelDownloadProgressEvent(notice.event)
  /\ rendered' = IF heard' = "invalid" THEN "none"
             ELSE IF Known(notice.event) THEN "own" ELSE "fallback"
  /\ notice' = [notice EXCEPT !.at = "end"]
  /\ UNCHANGED <<relayed>>

parseCancelProcessResult(c) ==
  /\ c.status # "other" /\ (c.status = "failed" <=> c.error = "text")

parseAsrModelDownloadResult(d) ==
  /\ d.status # "other" /\ (d.started <=> d.status = "completed")

HearsReply ==
  /\ notice.at = "replied"
  /\ heard' = IF IF "download" \in DOMAIN notice
                 THEN parseAsrModelDownloadResult(notice.download)
                 ELSE parseCancelProcessResult(notice.cancellation)
              THEN "known" ELSE "invalid"
  /\ notice' = [notice EXCEPT !.at = "end"]
  /\ UNCHANGED <<relayed, rendered>>

Next == Says \/ Relays \/ CancelReplied \/ DownloadReplied \/ Hears \/ HearsReply

Spec == Init /\ [][Next]_vars

-----------------------------------------------------------------------------
\* What the worker's rules let it write reaches the window and is rendered with its
\* own message; what the desktop relays or replies the window never drops, and
\* what it renders of a retry is no attempt beyond the total.
ProgressIsHeard ==
  notice.at = "end" =>
    /\ relayed => heard = "known"
    /\ "event" \in DOMAIN notice =>
         /\ Makes(notice.event) => rendered = "own"
         /\ heard # "none" /\ {"attempt", "total"} \subseteq Given(notice.event.args) =>
              /\ notice.event.args.attempt <= notice.event.args.total
              /\ notice.event.args.total <= 100
===============================================================================

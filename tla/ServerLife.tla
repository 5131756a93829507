----------------------------- MODULE ServerLife ------------------------------
(***************************************************************************)
(* The life of the server process: its configuration                       *)
(* (server/src/runtimeConfig.ts), what is built from it (index.ts,         *)
(* server.ts, email.ts, wechat.ts), how it starts and how a signal ends it *)
(* (bootstrap.ts, readiness.ts, database.ts, routes/health.ts).  Fastify   *)
(* is external: it finishes the requests that it has before its close      *)
(* resolves, or does not resolve.                                          *)
(***************************************************************************)
EXTENDS Integers, FiniteSets

CONSTANTS
  None,
  MaxServing   \* bound on the requests that are served at once

VARIABLES
  phase,      \* how far main() is
  runtime,    \* RuntimeConfig
  ready,      \* the flags of ReadinessController
  fastify,    \* Fastify
  database,   \* the Prisma client
  closing,    \* closePromise
  deadline,   \* whether the timer of settleShutdown runs
  exit,       \* the exit code, or the signal that killed the process
  serving,    \* how many requests are served
  probe       \* a request of /health/ready

vars == <<phase, runtime, ready, fastify, database, closing, deadline, exit, serving, probe>>

\* What process.env has: "some" of the variables of a group, and "short" secrets that
\* do not have the length.  One of the values may be garbled, and not parse.
Environment ==
  [production : BOOLEAN, selfService : {"unset", "off", "on"}, databaseUrl : BOOLEAN,
   admin : BOOLEAN, secret : {"none", "short", "full"}, smtp : {"none", "some", "all"},
   console : BOOLEAN, pay : BOOLEAN, payKeys : BOOLEAN, notifyKeys : {"none", "short", "full"},
   insecure : BOOLEAN, garbled : BOOLEAN]

Config ==
  [production : BOOLEAN, selfService : BOOLEAN, secret : BOOLEAN, smtp : BOOLEAN,
   console : BOOLEAN, pay : BOOLEAN, wechat : {"none", "insecure", "verified"}]

Phases == {"parse", "connect", "build", "verify", "ping", "listen", "started", "failing",
           "failed", "over"}

TypeOK ==
  /\ phase \in Phases
  /\ runtime \in Config \cup {None}
  /\ ready \in [schema : BOOLEAN, startup : BOOLEAN, draining : BOOLEAN]
  /\ fastify \in {"built", "listening", "closing", "closed"}
  /\ database \in {"none", "open", "closed"}
  /\ closing \in {"none", "fastify", "database", "done", "failed"}
  /\ deadline \in BOOLEAN
  /\ exit \in {None, "0", "1", "killed"}
  /\ serving \in 0..MaxServing
  /\ probe \in [step : {"none", "ping", "ready", "not_ready"}, drained : BOOLEAN]

Init ==
  /\ phase = "parse" /\ runtime = None
  /\ ready = [schema |-> FALSE, startup |-> FALSE, draining |-> FALSE]
  /\ fastify = "built" /\ database = "none"
  /\ closing = "none" /\ deadline = FALSE /\ exit = None
  /\ serving = 0 /\ probe = [step |-> "none", drained |-> FALSE]

-----------------------------------------------------------------------------
\* parseRuntimeConfig collects every issue before it throws.
ProductionIssues(env) ==
  env.production =>
    /\ env.databaseUrl /\ env.admin /\ env.secret = "full"
    /\ ~env.console /\ ~env.insecure /\ env.selfService # "unset"

Insecure(env) == env.insecure /\ ~env.production

SmtpIssues(env) ==
  /\ env.production \/ env.smtp # "none" => env.smtp = "all"
  /\ ~env.production /\ env.smtp = "none" => env.console

WechatIssues(env) ==
  env.pay => env.payKeys /\ (Insecure(env) \/ env.notifyKeys = "full")

Valid(env) ==
  /\ ~env.garbled /\ ProductionIssues(env) /\ SmtpIssues(env) /\ WechatIssues(env)

Parsed(env) ==
  [production |-> env.production, selfService |-> env.selfService = "on",
   secret |-> env.secret # "none", smtp |-> env.smtp = "all", console |-> env.console,
   pay |-> env.pay,
   wechat |-> CASE ~env.pay -> "none"
                [] env.pay /\ Insecure(env) -> "insecure"
                [] OTHER -> "verified"]

ParseRuntimeConfig(env) ==
  /\ phase = "parse"
  /\ IF Valid(env) THEN runtime' = Parsed(env) /\ phase' = "connect" /\ UNCHANGED exit
     ELSE phase' = "over" /\ exit' = "1" /\ UNCHANGED runtime
  /\ UNCHANGED <<ready, fastify, database, closing, deadline, serving, probe>>

\* createPrismaClient, which disconnects what it could not set up.
CreatePrismaClient ==
  /\ phase = "connect"
  /\ \/ phase' = "build" /\ database' = "open" /\ UNCHANGED exit
     \/ phase' = "over" /\ database' = "closed" /\ exit' = "1"
  /\ UNCHANGED <<runtime, ready, fastify, closing, deadline, serving, probe>>

\* createOtpSender throws where no code could be delivered, createActivationCodeSender
\* without a complete SmtpConfig; main then only disconnects.
SendsCodes == runtime.smtp \/ (runtime.console /\ ~runtime.production)

BuildServer ==
  /\ phase = "build"
  /\ phase' = IF SendsCodes THEN "verify" ELSE "failed"
  /\ UNCHANGED <<runtime, ready, fastify, database, closing, deadline, exit, serving, probe>>

\* ReadinessController.initialize, with a timeout for each check, and listen.
Checked(from, to, flags) ==
  /\ phase = from
  /\ phase' = to /\ ready' = flags
  /\ UNCHANGED <<runtime, fastify, database, closing, deadline, exit, serving, probe>>
VerifySchema == Checked("verify", "ping", [ready EXCEPT !.schema = TRUE])
Ping == Checked("ping", "listen", [ready EXCEPT !.startup = TRUE])

Listen ==
  /\ phase = "listen"
  /\ phase' = "started" /\ fastify' = "listening"
  /\ UNCHANGED <<runtime, ready, database, closing, deadline, exit, serving, probe>>

\* The catch of start: a check fails or takes too long, or the port is taken.
StartFails ==
  /\ phase \in {"verify", "ping", "listen"}
  /\ phase' = "failing" /\ ready' = [ready EXCEPT !.draining = TRUE]
  /\ closing' = "fastify" /\ fastify' = "closing"
  /\ UNCHANGED <<runtime, database, deadline, exit, serving, probe>>

StartFailed ==
  /\ phase = "failing" /\ closing \in {"done", "failed"}
  /\ phase' = "failed"
  /\ UNCHANGED <<runtime, ready, fastify, database, closing, deadline, exit, serving, probe>>

\* main disconnects, for a second time if start has done so, and sets the exit code.
MainFails ==
  /\ phase = "failed"
  /\ phase' = "over" /\ exit' = "1" /\ database' \in {database, "closed"}
  /\ UNCHANGED <<runtime, ready, fastify, closing, deadline, serving, probe>>

-----------------------------------------------------------------------------
\* Requests come in while the server listens, and need the database until they end.
Serve ==
  /\ phase = "started" /\ fastify = "listening" /\ serving < MaxServing
  /\ serving' = serving + 1
  /\ UNCHANGED <<phase, runtime, ready, fastify, database, closing, deadline, exit, probe>>

Served ==
  /\ phase = "started" /\ serving > 0
  /\ serving' = serving - 1
  /\ UNCHANGED <<phase, runtime, ready, fastify, database, closing, deadline, exit, probe>>

\* isReady: the flags first, and then a ping with a timeout.
AskReady ==
  /\ phase = "started" /\ fastify = "listening" /\ probe.step # "ping"
  /\ probe' = [step |-> IF ready.startup /\ ready.schema /\ ~ready.draining
                        THEN "ping" ELSE "not_ready",
               drained |-> ready.draining]
  /\ UNCHANGED <<phase, runtime, ready, fastify, database, closing, deadline, exit, serving>>

AnswerReady(step) ==
  /\ phase = "started" /\ probe.step = "ping"
  /\ step = "ready" => database = "open"
  /\ probe' = [probe EXCEPT !.step = step]
  /\ UNCHANGED <<phase, runtime, ready, fastify, database, closing, deadline, exit, serving>>

\* Until start has returned a signal kills; then the first one shuts down, and the
\* others find that it is handled.
Kill ==
  /\ phase \notin {"started", "over"}
  /\ phase' = "over" /\ exit' = "killed"
  /\ UNCHANGED <<runtime, ready, fastify, database, closing, deadline, serving, probe>>

Signal ==
  /\ phase = "started" /\ closing = "none"
  /\ ready' = [ready EXCEPT !.draining = TRUE]
  /\ closing' = "fastify" /\ fastify' = "closing" /\ deadline' = TRUE
  /\ UNCHANGED <<phase, runtime, database, exit, serving, probe>>

\* closeResources: close resolves or rejects when no request is left, and the database
\* is disconnected either way.
Idle == serving = 0 /\ probe.step # "ping"
CloseApp ==
  /\ closing = "fastify" /\ Idle
  /\ closing' = "database" /\ fastify' = "closed"
  /\ UNCHANGED <<phase, runtime, ready, database, deadline, exit, serving, probe>>

Disconnect ==
  /\ closing = "database"
  /\ \/ closing' = "done" /\ database' = "closed"
     \/ closing' = "failed" /\ database' \in {"open", "closed"}
  /\ UNCHANGED <<phase, runtime, ready, fastify, deadline, exit, serving, probe>>

\* settleShutdown: the first of the two decides, and the process exits.
Settle(code) ==
  /\ phase = "started" /\ deadline
  /\ phase' = "over" /\ exit' = code /\ deadline' = FALSE
  /\ serving' = 0 /\ probe' = [step |-> "none", drained |-> FALSE]
  /\ UNCHANGED <<runtime, ready, fastify, database, closing>>
Closed == closing \in {"done", "failed"} /\ Settle(IF closing = "done" THEN "0" ELSE "1")
TimedOut == closing \notin {"done", "failed"} /\ Settle("1")

Next ==
  \/ phase = "parse" /\ \E env \in Environment : ParseRuntimeConfig(env)
  \/ CreatePrismaClient \/ BuildServer \/ VerifySchema \/ Ping \/ Listen
  \/ StartFails \/ StartFailed \/ MainFails
  \/ Serve \/ Served \/ AskReady \/ (\E step \in {"ready", "not_ready"} : AnswerReady(step))
  \/ Kill \/ Signal \/ CloseApp \/ Disconnect \/ Closed \/ TimedOut

Spec == Init /\ [][Next]_vars

-----------------------------------------------------------------------------
\* What parseRuntimeConfig accepts the server can be built from: codes can be sent; and
\* in production they are mailed, keys are sealed, and no notification of a payment is
\* believed without its signature.
AcceptedIsServable ==
  runtime # None =>
    /\ SendsCodes
    /\ runtime.pay => runtime.wechat # "none"
    /\ runtime.production =>
         runtime.smtp /\ runtime.secret /\ ~runtime.console /\ runtime.wechat # "insecure"

\* Requests are served only with a schema that was verified and while the database is
\* connected, whether the server is in use, failing or shut down; and the exit code 0
\* says that all of it was closed.
RequestsHaveDatabase ==
  /\ fastify = "listening" => ready.schema /\ ready.startup /\ database = "open"
  /\ ~Idle => database = "open"
  /\ probe.step = "ready" => ready.startup /\ ~probe.drained
  /\ exit = "0" => fastify = "closed" /\ database = "closed" /\ ready.draining

\* A server that is shut down will end, whatever does not close: its deadline runs.
ShutdownWillEnd == phase = "started" /\ ready.draining => deadline /\ exit = None
=============================================================================

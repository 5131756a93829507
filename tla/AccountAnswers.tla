---------------------------- MODULE AccountAnswers ----------------------------
(***************************************************************************)
(* One call of the account: what the window asks (accountClient.ts), how   *)
(* the desktop asks the server (account.rs), how the routes of the server  *)
(* answer over several awaits (routes/desktopAccount.ts, routes/billing.ts,*)
(* selfServiceActivation.ts) while time passes and others change the       *)
(* account, what the network makes of the answer, and what the desktop and *)
(* the window then make of it.  A JSON object is the record of its         *)
(* members, None is null.                                                  *)
(***************************************************************************)
EXTENDS Integers

CONSTANTS
  None,
  MaxDays  \* bound on the days that pass

VARIABLES
  bureau,   \* the server's account: day, pass, session and settings
  truths,   \* the facts of the account that were true at some moment of the call
  ask,      \* the call: what it asks for and how far its handler is
  letter,   \* the answer of the server
  brought,  \* the answer of the desktop
  screen    \* what the window has of it

vars == <<bureau, truths, ask, letter, brought, screen>>

Kinds == {"status", "login", "redeem", "request", "checkout", "order"}
SELF_SERVICE_LLM_QUOTA == 1
PASS_DAYS == 1

\* An entitlement is used within its limit.
Passes == {p \in [until : 0..(MaxDays + 1), limit : 1..2, used : 0..2] : p.used <= p.limit}

ActiveAt(p, day) == p # None /\ p.until > day
FactsOf(b) ==
  LET active == ActiveAt(b.pass, b.day)
  IN {f \in {"entitled"} : active} \cup {f \in {"credited"} : active /\ b.pass.used < b.pass.limit}
       \cup {f \in {"configured"} : b.configured}

Untouched == [result |-> "none", process |-> FALSE, generate |-> FALSE, request |-> FALSE,
              reason |-> None, retryAt |-> None]
Error(reason, retryAt) == [Untouched EXCEPT !.result = "error", !.reason = reason, !.retryAt = retryAt]

TypeOK ==
  /\ bureau \in [day : 0..MaxDays, pass : Passes \cup {None}, session : BOOLEAN,
                 configured : BOOLEAN, offered : BOOLEAN]
  /\ truths \subseteq {"entitled", "credited", "configured"}
  /\ ask \in [kind : Kinds, token : {"none", "damaged", "held"}, read : Passes \cup {None},
              could : BOOLEAN, configured : BOOLEAN, now : 0..MaxDays, whole : BOOLEAN,
              at : {"idle", "sent", "entered", "prepared", "granted", "called", "read", "asks", "asked",
                    "answered", "gone", "arrived", "brought", "shown"},
              code : {"none", "prepared", "mailed", "active", "disabled"}]
  /\ screen.result \in {"none", "status", "login", "sent", "checkout", "order", "error", "invalid"}

\* offered: the feature that the call is about is switched on.
Init ==
  /\ bureau \in [day : {0}, pass : {None, [until |-> 1, limit |-> 1, used |-> 0]}, session : BOOLEAN,
                 configured : BOOLEAN, offered : BOOLEAN]
  /\ truths = FactsOf(bureau)
  /\ ask \in [kind : Kinds, at : {"idle"}, token : {"none", "damaged", "held"}, read : {None},
              could : {FALSE}, configured : {FALSE}, now : {0}, code : {"none"}, whole : {FALSE}]
  /\ ask.kind = "login" => ask.token = "held"
  /\ letter = None /\ brought = None /\ screen = Untouched

-----------------------------------------------------------------------------
(* What others do while the server works; afterwards nobody looks at it. *)

AtServer == {"sent", "entered", "prepared", "granted", "called", "read", "asks", "asked"}

Becomes(b) == bureau' = b /\ truths' = truths \cup FactsOf(b)
Goes(at) == ask' = [ask EXCEPT !.at = at]
Pass(p) == Becomes([bureau EXCEPT !.pass = p])

Others ==
  /\ ask.at \in AtServer /\ UNCHANGED <<ask, letter, brought, screen>>
  /\ \/ bureau.day < MaxDays /\ Becomes([bureau EXCEPT !.day = @ + 1])
     \/ Becomes([bureau EXCEPT !.configured = ~@])
     \/ bureau.session /\ Becomes([bureau EXCEPT !.session = FALSE])
     \/ /\ ActiveAt(bureau.pass, bureau.day) /\ bureau.pass.used < bureau.pass.limit
        /\ Pass([bureau.pass EXCEPT !.used = @ + 1])
     \/ \E until \in 0..MaxDays : bureau.pass # None /\ Pass([bureau.pass EXCEPT !.until = until])

-----------------------------------------------------------------------------
(* The desktop, to the server. *)

\* guest_account_status.
Guest == [authenticated |-> FALSE, email |-> None, entitlement_status |-> "inactive",
          entitlement_expires_at |-> None, llm_quota_limit |-> 0, llm_quota_used |-> 0,
          llm_quota_remaining |-> 0, llm_quota_resets_at |-> None, llm_configured |-> FALSE,
          last_verified_at |-> None, can_process |-> FALSE, can_generate_ai |-> FALSE,
          can_request_activation_code |-> FALSE, server_error |-> None]

Failure(message) == [ok |-> FALSE, value |-> message]
Success(view) == [ok |-> TRUE, value |-> view]
ActivationCodeRequestError(code, retryAt) ==
  Failure([error_code |-> code, retry_at |-> retryAt, message |-> "text"])

Brings(answer) == brought' = answer /\ Goes("brought") /\ UNCHANGED <<bureau, truths, letter, screen>>

\* read_account_session, require_account_session: without a session of this device,
\* or with one that cannot be read, the server is not asked.
Starts ==
  /\ ask.at = "idle"
  /\ \/ ask.token = "held" /\ Goes("sent") /\ UNCHANGED <<bureau, truths, letter, brought, screen>>
     \/ ask.token = "none" /\ Brings(CASE ask.kind = "status" -> Success(Guest)
                                       [] ask.kind = "request" -> ActivationCodeRequestError("AUTH_REQUIRED", None)
                                       [] OTHER -> Failure("text"))
     \/ ask.token = "damaged" /\ Brings(IF ask.kind = "request"
                                        THEN ActivationCodeRequestError("INTERNAL_SERVER_ERROR", None)
                                        ELSE Failure("text"))

-----------------------------------------------------------------------------
(* The server. *)

Answers(code, body) ==
  /\ letter' = [code |-> code, body |-> body, retryAfter |-> IF code = 429 THEN "seconds" ELSE None]
  /\ Goes("answered") /\ UNCHANGED <<bureau, truths, brought, screen>>
Refuses(code, error) == Answers(code, [error |-> error])

\* The switch of the billing routes, authenticateDesktop, the switch of the other.
Enters ==
  /\ ask.at = "sent"
  /\ LET off == ~bureau.offered
         pays == ask.kind \in {"checkout", "order"}
     IN \/ pays /\ off /\ Refuses(404, "WECHAT_PAY_DISABLED")
        \/ ~(pays /\ off) /\ ~bureau.session /\ Refuses(401, "AUTH_REQUIRED")
        \/ ask.kind = "request" /\ off /\ bureau.session /\ Refuses(404, "FEATURE_NOT_AVAILABLE")
        \/ /\ bureau.session /\ ~(off /\ (pays \/ ask.kind = "request"))
           /\ Goes("entered") /\ UNCHANGED <<bureau, truths, letter, brought, screen>>

\* What a route does not catch; a request for a code catches what requestCode throws.
Throws ==
  /\ ask.at \in {"sent", "entered", "called", "read", "asks"}
  /\ ask.kind = "request" => ask.at = "sent"
  /\ Refuses(500, "Internal Server Error")

llmQuotaRemaining(p, now) == IF p.until <= now \/ p.used > p.limit THEN 0 ELSE p.limit - p.used

accountStatusPayload(p, now) ==
  LET active == ActiveAt(p, now)
      remaining == IF active THEN llmQuotaRemaining(p, now) ELSE 0
  IN [authenticated |-> TRUE, email |-> "text",
      entitlement_status |-> IF active THEN "active" ELSE "inactive",
      entitlement_expires_at |-> IF p = None THEN None ELSE p.until,
      llm_quota_limit |-> IF p = None THEN 0 ELSE p.limit,
      llm_quota_used |-> IF p = None THEN 0 ELSE p.used,
      llm_quota_remaining |-> remaining,
      llm_quota_resets_at |-> IF active THEN p.until ELSE None,
      llm_configured |-> ask.configured, last_verified_at |-> now,
      can_request_activation_code |-> ask.could, can_process |-> active,
      can_generate_ai |-> active /\ remaining > 0 /\ ask.configured]

\* redeemCode, with what redeemActivationCodeAndGrantEntitlement does: a code that an
\* administrator issued adds to an entitlement, one that came by mail does not.
redeemCode ==
  /\ ask.at = "entered" /\ ask.kind = "redeem"
  /\ \/ Refuses(400, "INVALID_REQUEST")
     \/ Refuses(400, "Activation code is invalid or expired.")
     \/ ~bureau.session /\ Refuses(400, "Desktop session is invalid or expired.")
     \/ /\ bureau.session /\ ActiveAt(bureau.pass, bureau.day)
        /\ Refuses(500, "INTERNAL_SERVER_ERROR")
     \/ /\ bureau.session
        /\ LET p == bureau.pass
           IN Pass(IF ActiveAt(p, bureau.day)
                   THEN [p EXCEPT !.until = @ + PASS_DAYS, !.limit = @ + SELF_SERVICE_LLM_QUOTA]
                   ELSE [until |-> bureau.day + PASS_DAYS, limit |-> SELF_SERVICE_LLM_QUOTA, used |-> 0])
        /\ Goes("granted") /\ UNCHANGED <<letter, brought, screen>>

\* accountStatusResponse takes the time when it is called.
accountStatusResponse ==
  /\ ask.at = "granted"
  /\ ask' = [ask EXCEPT !.at = "called", !.now = bureau.day]
  /\ UNCHANGED <<bureau, truths, letter, brought, screen>>

getEntitlement ==
  /\ \/ ask.at = "entered" /\ ask.kind \in {"status", "login", "order"}
     \/ ask.at = "called"
  /\ ask' = [ask EXCEPT !.at = "read", !.read = bureau.pass]
  /\ UNCHANGED <<bureau, truths, letter, brought, screen>>

\* By the time it is when the entitlement has been read; after a redemption with the
\* feature switched off.
canRequestActivationCode ==
  /\ ask.at = "read" /\ ask.kind # "order"
  /\ ask' = [ask EXCEPT !.at = "asks",
                        !.could = ask.kind # "redeem" /\ bureau.offered /\ ~ActiveAt(ask.read, bureau.day)]
  /\ UNCHANGED <<bureau, truths, letter, brought, screen>>

isConfigured ==
  /\ ask.at = "asks"
  /\ ask' = [ask EXCEPT !.at = "asked", !.configured = bureau.configured]
  /\ UNCHANGED <<bureau, truths, letter, brought, screen>>

\* The route takes the time again, the answer to a redemption does not.
SaysStatus ==
  /\ ask.at = "asked"
  /\ Answers(200, accountStatusPayload(ask.read, IF ask.kind = "redeem" THEN ask.now ELSE bureau.day))

\* GET /api/desktop/billing/orders: of an order of this user.
SaysOrder ==
  /\ ask.kind = "order"
  /\ \/ ask.at = "entered" /\ Refuses(404, "ORDER_NOT_FOUND")
     \/ /\ ask.at = "read"
        /\ \E s \in {"pending", "paid"} :
             Answers(200, [order_id |-> "asked for", status |-> s, entitlement_expires_at |->
                             IF ask.read = None THEN None ELSE ask.read.until])

\* POST /api/desktop/billing/wechat-native.
SaysCheckout ==
  /\ ask.at = "entered" /\ ask.kind = "checkout" /\ bureau.session
  /\ Answers(200, [order_id |-> "new", amount_fen |-> 990, currency |-> "CNY", code_url |-> "text",
                   expires_at |-> "time", status |-> "pending"])

\* requestCode, to the code that is prepared.
prepareSelfServiceActivationCode ==
  /\ ask.at = "entered" /\ ask.kind = "request"
  /\ LET active == ActiveAt(bureau.pass, bureau.day)
     IN \/ Refuses(503, "SERVER_TEMPORARILY_UNAVAILABLE")
        \/ ~bureau.session /\ Refuses(401, "AUTH_REQUIRED")
        \/ bureau.session /\ active /\ Refuses(409, "ENTITLEMENT_ACTIVE")
        \/ /\ bureau.session /\ ~active
           /\ \/ Answers(429, [error |-> "ACTIVATION_REQUEST_RATE_LIMITED", retry_at |-> "time"])
              \/ /\ ask' = [ask EXCEPT !.at = "prepared", !.code = "prepared"]
                 /\ UNCHANGED <<bureau, truths, letter, brought, screen>>

\* What requestCode ends with, and what becomes of the code.
Ends(code, status, body) ==
  /\ letter' = [code |-> status, body |-> body, retryAfter |-> None]
  /\ ask' = [ask EXCEPT !.at = "answered", !.code = code]
  /\ UNCHANGED <<bureau, truths, brought, screen>>

\* sendActivationCode; when it fails the code is disabled, which may fail too.
sendActivationCode ==
  /\ ask.at = "prepared" /\ ask.code = "prepared"
  /\ \/ ask' = [ask EXCEPT !.code = "mailed"] /\ UNCHANGED <<bureau, truths, letter, brought, screen>>
     \/ Ends("disabled", 503, [error |-> "ACTIVATION_EMAIL_UNAVAILABLE"])
     \/ Ends("prepared", 503, [error |-> "SERVER_TEMPORARILY_UNAVAILABLE"])

activatePreparedSelfServiceActivationCode ==
  /\ ask.at = "prepared" /\ ask.code = "mailed"
  /\ LET active == ActiveAt(bureau.pass, bureau.day)
     IN \/ /\ ~active
           /\ Ends("active", 200, [status |-> "sent", retry_at |-> "time", redeem_by |-> "time"])
        \/ active /\ Ends("disabled", 409, [error |-> "ENTITLEMENT_ACTIVE"])
        \/ Ends("disabled", 503, [error |-> "ACTIVATION_EMAIL_UNAVAILABLE"])
        \/ \E code \in {"prepared", "active"} : Ends(code, 503, [error |-> "SERVER_TEMPORARILY_UNAVAILABLE"])

-----------------------------------------------------------------------------
(* The network: the answer arrives, or its head alone, or nothing; and something *)
(* between may answer instead.                                                    *)

Arrives ==
  /\ ask.at = "answered"
  /\ \/ ask' = [ask EXCEPT !.at = "arrived", !.whole = TRUE] /\ UNCHANGED letter
     \/ Goes("arrived") /\ letter' = [letter EXCEPT !.body = None]
     \/ Goes("gone") /\ UNCHANGED letter
  /\ UNCHANGED <<bureau, truths, brought, screen>>

Intercepted ==
  /\ ask.at = "sent"
  /\ \/ Goes("gone") /\ UNCHANGED letter
     \/ /\ Goes("arrived")
        /\ \E code \in {200, 404, 502, 503} : letter' = [code |-> code, body |-> None, retryAfter |-> None]
  /\ UNCHANGED <<bureau, truths, brought, screen>>

-----------------------------------------------------------------------------
(* The desktop, to the window. *)

\* ServerAccountStatus and the other answers: closed members, of which the mark that
\* a code can be requested may be missing.
StatusKeys == DOMAIN Guest \ {"server_error"}
ServerAccountStatus(v) ==
  StatusKeys \ {"can_request_activation_code"} \subseteq DOMAIN v /\ DOMAIN v \subseteq StatusKeys
ServerWechatCheckout(v) ==
  DOMAIN v = {"order_id", "amount_fen", "currency", "code_url", "expires_at", "status"}
ServerCheckoutStatus(v) == DOMAIN v = {"order_id", "status", "entitlement_expires_at"}
ActivationCodeRequestView(v) == DOMAIN v = {"status", "retry_at", "redeem_by"}

Reads(v) ==
  v # None /\ CASE ask.kind \in {"status", "login", "redeem"} -> ServerAccountStatus(v)
                [] ask.kind = "checkout" -> ServerWechatCheckout(v)
                [] ask.kind = "order" -> ServerCheckoutStatus(v)
                [] ask.kind = "request" -> ActivationCodeRequestView(v)

Came(kind) == ask.at \in {"arrived", "gone"} /\ ask.kind = kind
Succeeded == ask.at = "arrived" /\ letter.code = 200 /\ Reads(letter.body)

account_status_view_from_server(v) ==
  [k \in DOMAIN Guest |-> IF k \in DOMAIN v THEN v[k] ELSE Guest[k]]

get_account_status ==
  /\ Came("status")
  /\ Brings(Success(
       IF Succeeded THEN account_status_view_from_server(letter.body)
       ELSE [Guest EXCEPT !.authenticated = TRUE, !.email = "text", !.entitlement_status = "unknown",
                          !.server_error = "text"]))

complete_auth_flow ==
  /\ Came("login")
  /\ Brings(IF Succeeded
            THEN Success([authenticated |-> TRUE, email |-> "text", can_process |-> letter.body.can_process,
                          can_generate_ai |-> letter.body.can_generate_ai])
            ELSE Failure("text"))

redeem_activation_code ==
  /\ Came("redeem")
  /\ Brings(IF Succeeded THEN Success(account_status_view_from_server(letter.body)) ELSE Failure("text"))

\* create_wechat_checkout and get_checkout_status.
create_wechat_checkout ==
  /\ Came("checkout") \/ Came("order")
  /\ Brings(IF Succeeded THEN Success(letter.body) ELSE Failure("text"))

\* By the code of the answer alone.
map_activation_request_error(code) ==
  CASE code = 401 -> "AUTH_REQUIRED"
    [] code = 404 -> "ACTIVATION_REQUEST_NOT_AVAILABLE"
    [] code = 409 -> "ACTIVATION_REQUEST_CONFLICT"
    [] code = 429 -> "ACTIVATION_REQUEST_RATE_LIMITED"
    [] code = 503 -> "SERVER_TEMPORARILY_UNAVAILABLE"
    [] OTHER -> "INTERNAL_SERVER_ERROR"

\* extract_retry_at_from_value, else extract_retry_at, which is the header's.
retry_at == IF letter.body # None /\ "retry_at" \in DOMAIN letter.body
            THEN letter.body.retry_at ELSE letter.retryAfter

request_activation_code ==
  /\ Came("request")
  /\ \/ Succeeded /\ Brings(Success(letter.body))
     \/ ask.at = "gone" /\ Brings(ActivationCodeRequestError("SERVER_TEMPORARILY_UNAVAILABLE", None))
     \/ /\ ask.at = "arrived" /\ ~Succeeded
        /\ Brings(IF letter.code = 200 THEN ActivationCodeRequestError("INTERNAL_SERVER_ERROR", None)
                  ELSE ActivationCodeRequestError(map_activation_request_error(letter.code), retry_at))

-----------------------------------------------------------------------------
(* The window. *)

ACTIVATION_CODE_REQUEST_ERROR_CODES ==
  {"AUTH_REQUIRED", "FEATURE_NOT_AVAILABLE", "ENTITLEMENT_ACTIVE", "ACTIVATION_REQUEST_RATE_LIMITED",
   "ACTIVATION_EMAIL_UNAVAILABLE", "SERVER_TEMPORARILY_UNAVAILABLE", "INTERNAL_SERVER_ERROR"}

isNonNegativeInteger(n) == n \in Nat

\* canProcessWithAccount, canGenerateAiWithAccount, canRequestActivationCodeWithAccount.
Permits(v) ==
  LET active == v.authenticated /\ v.entitlement_status = "active"
  IN [Untouched EXCEPT !.result = "status", !.process = active /\ v.can_process,
                       !.generate = active /\ v.can_generate_ai,
                       !.request = v.authenticated /\ v.entitlement_status # "active"
                                     /\ v.can_request_activation_code]

Shown(parses, view) == IF parses THEN view ELSE [Untouched EXCEPT !.result = "invalid"]

parseAccountStatusResponse(v) ==
  Shown(/\ DOMAIN v \cup {"can_request_activation_code"} = DOMAIN Guest
        /\ v.entitlement_status # None
        /\ \A k \in {"llm_quota_limit", "llm_quota_used", "llm_quota_remaining"} : isNonNegativeInteger(v[k]),
        Permits(v))
parseCompleteAuthFlowResponse(v) ==
  Shown(DOMAIN v = {"authenticated", "email", "can_process", "can_generate_ai"} /\ v.email # None,
        [Untouched EXCEPT !.result = "login"])
parseWechatCheckoutResponse(v) ==
  Shown(/\ DOMAIN v = {"order_id", "amount_fen", "currency", "code_url", "expires_at", "status"}
        /\ isNonNegativeInteger(v.amount_fen)
        /\ None \notin {v.order_id, v.currency, v.code_url, v.expires_at, v.status},
        [Untouched EXCEPT !.result = "checkout"])
parseCheckoutStatusResponse(v) ==
  Shown(DOMAIN v = {"order_id", "status", "entitlement_expires_at"} /\ v.order_id = "asked for" /\ v.status # None,
        [Untouched EXCEPT !.result = "order"])

\* What requestActivationCode cannot read is the server's own error.
parseActivationCodeRequestResponse(v) ==
  IF /\ DOMAIN v = {"status", "retry_at", "redeem_by"}
     /\ v.status = "sent" /\ None \notin {v.retry_at, v.redeem_by}
  THEN [Untouched EXCEPT !.result = "sent", !.retryAt = v.retry_at]
  ELSE Error("INTERNAL_SERVER_ERROR", None)

\* A code that the window does not know is the server's own error, without a time.
parseActivationCodeRequestError(e) ==
  IF e.error_code \in ACTIVATION_CODE_REQUEST_ERROR_CODES THEN Error(e.error_code, e.retry_at)
  ELSE Error("INTERNAL_SERVER_ERROR", None)

Shows ==
  /\ ask.at = "brought" /\ Goes("shown") /\ UNCHANGED <<bureau, truths, letter, brought>>
  /\ LET v == brought.value
     IN screen' =
          CASE ~brought.ok ->
                 IF ask.kind = "request" THEN parseActivationCodeRequestError(v) ELSE Error(None, None)
            [] brought.ok /\ ask.kind \in {"status", "redeem"} -> parseAccountStatusResponse(v)
            [] brought.ok /\ ask.kind = "login" -> parseCompleteAuthFlowResponse(v)
            [] brought.ok /\ ask.kind = "checkout" -> parseWechatCheckoutResponse(v)
            [] brought.ok /\ ask.kind = "order" -> parseCheckoutStatusResponse(v)
            [] brought.ok /\ ask.kind = "request" -> parseActivationCodeRequestResponse(v)

Next ==
  \/ Others \/ Starts \/ Enters \/ Throws \/ redeemCode \/ accountStatusResponse \/ getEntitlement
  \/ canRequestActivationCode \/ isConfigured \/ SaysStatus \/ SaysOrder \/ SaysCheckout
  \/ prepareSelfServiceActivationCode \/ sendActivationCode \/ activatePreparedSelfServiceActivationCode
  \/ Arrives \/ Intercepted \/ get_account_status \/ complete_auth_flow
  \/ redeem_activation_code \/ create_wechat_checkout \/ request_activation_code \/ Shows

Spec == Init /\ [][Next]_vars

-----------------------------------------------------------------------------
\* What the server sends the window can read: its answer is shown for what it is
\* whenever it arrives whole, and an answer that the desktop makes of its own is
\* never one that the window rejects.
AccountIsRead ==
  /\ screen.result # "invalid"
  /\ ask.at = "shown" /\ ask.whole /\ letter.code = 200 => screen.result # "error"

\* What the window lets the user do was right at some moment of the call, though the
\* time is taken twice and the entitlement and the settings are read apart; it offers
\* to ask for a code only if the entitlement that was read has ended, and at the end
\* of a redemption never.
PermitsAreHeld ==
  /\ screen.process => "entitled" \in truths
  /\ screen.generate => screen.process /\ {"credited", "configured"} \subseteq truths
  /\ screen.request => bureau.offered /\ ask.kind = "status" /\ ~ActiveAt(ask.read, bureau.day)

\* What is told of a request for a code: that it was sent only if the code can be
\* redeemed; if it can be and the answer was lost, no reason that says otherwise; and
\* else the server's reason with its time, but for three reasons that the desktop's
\* table has other names for.
RefusalIsTold ==
  ask.kind = "request" /\ ask.at = "shown" =>
    /\ screen.result = "sent" => ask.code = "active" /\ screen.retryAt = "time"
    /\ screen.result = "error" /\ ask.code = "active" =>
         screen.reason \in {"SERVER_TEMPORARILY_UNAVAILABLE", "INTERNAL_SERVER_ERROR"}
    /\ screen.result = "error" /\ ask.whole =>
         /\ screen.reason =
              CASE letter.code \in {404, 409, 500} -> "INTERNAL_SERVER_ERROR"
                [] letter.code = 503 -> "SERVER_TEMPORARILY_UNAVAILABLE"
                [] OTHER -> letter.body.error
         /\ screen.reason = "ACTIVATION_REQUEST_RATE_LIMITED" => screen.retryAt = "time"
===============================================================================

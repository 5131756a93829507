---------------------------- MODULE AdminConsole ----------------------------
(***************************************************************************)
(* The page of the administrator in the tabs of a browser                  *)
(* (server/src/adminPage.ts) and the routes behind it (routes/admin.ts,    *)
(* adminAuth.ts): logging in and out, loading the page from several reads  *)
(* of the store, generating codes and adjusting the credits of a user.     *)
(* The tabs share the cookie; each keeps the CSRF token of the login that  *)
(* it was loaded under.                                                    *)
(***************************************************************************)
EXTENDS Integers

CONSTANTS
  None,
  Tabs,
  MaxPosts,    \* bound on the POSTs that are ever sent
  MaxLogins    \* bound on the logins

VARIABLES
  sessions,   \* the rows AdminSession: how many there were, and which are valid
  cookie,     \* the login in the cookies of the browser, 0 for none
  tabs,       \* the document in each tab
  posts,      \* the requests of the page's buttons
  granted     \* what llmQuotaLimit of a user was adjusted by, and the rows of the audit

vars == <<sessions, cookie, tabs, posts, granted>>

LoginNumbers == 0..MaxLogins
Posts == 1..MaxPosts
Amounts == 0..MaxPosts

\* create-code and adjustment-save, which are sent and answered alike, and logout-admin.
Buttons == {"save", "logout"}

\* What a page is loaded from, in this order.
Reads == {"limit", "audit"}
Tab == [at : {"login", "page"} \cup Reads, csrf : LoginNumbers, limit : Amounts,
        audit : Amounts, disabled : SUBSET Buttons]

\* A request, with the tab whose document waits for the answer: "gone" if the tab has
\* left the document, or the browser has given the request up.
Post == [tab : Tabs \cup {"gone"}, button : Buttons, cookie : LoginNumbers, csrf : LoginNumbers,
         step : {"sent", "known", "ok", "refused", "over"}]

TypeOK ==
  /\ sessions \in [issued : LoginNumbers, valid : SUBSET (1..MaxLogins)]
  /\ cookie \in LoginNumbers
  /\ tabs \in [Tabs -> Tab]
  /\ posts \in [Posts -> Post \cup {None}]
  /\ granted \in [limit : Amounts, audit : Amounts]

Document(at) == [at |-> at, csrf |-> 0, limit |-> 0, audit |-> 0, disabled |-> {}]

Init ==
  /\ sessions = [issued |-> 0, valid |-> {}]
  /\ cookie = 0
  /\ tabs = [t \in Tabs |-> Document("login")]
  /\ posts = [p \in Posts |-> None]
  /\ granted = [limit |-> 0, audit |-> 0]

-----------------------------------------------------------------------------
\* A tab goes to an address; the answers for the document that it had find none.
Sent(p) == posts[p] # None /\ posts[p].step # "over"
Goes(t, document) ==
  /\ tabs' = [tabs EXCEPT ![t] = document]
  /\ posts' = [p \in Posts |-> IF Sent(p) /\ posts[p].tab = t THEN [posts[p] EXCEPT !.tab = "gone"]
                               ELSE posts[p]]

\* GET /admin, without a session a redirect to the login.
Visit(t) ==
  /\ tabs[t].at \in {"login", "page"}
  /\ IF cookie \in sessions.valid THEN Goes(t, [Document("limit") EXCEPT !.csrf = cookie])
     ELSE Goes(t, Document("login"))
  /\ UNCHANGED <<sessions, cookie, granted>>

\* The entitlements are read first, the audit of their adjustments last.
ReadEntitlements(t) ==
  /\ tabs[t].at = "limit"
  /\ tabs' = [tabs EXCEPT ![t].at = "audit", ![t].limit = granted.limit]
  /\ UNCHANGED <<sessions, cookie, posts, granted>>

ReadAdjustments(t) ==
  /\ tabs[t].at = "audit"
  /\ tabs' = [tabs EXCEPT ![t].at = "page", ![t].audit = granted.audit]
  /\ UNCHANGED <<sessions, cookie, posts, granted>>

\* The code of a login is verified: a session and its cookies, unless the answer is
\* lost; the document then goes to /admin.
Verify(t) ==
  /\ tabs[t].at = "login" /\ sessions.issued < MaxLogins
  /\ LET new == sessions.issued + 1
     IN  /\ sessions' = [issued |-> new, valid |-> sessions.valid \cup {new}]
         /\ cookie' \in {cookie, new}
  /\ UNCHANGED <<tabs, posts, granted>>

\* The session is over after twelve hours; so are its cookies.
Expire(login) ==
  /\ login \in sessions.valid
  /\ sessions' = [sessions EXCEPT !.valid = @ \ {login}]
  /\ cookie' = IF cookie = login THEN 0 ELSE cookie
  /\ UNCHANGED <<tabs, posts, granted>>

-----------------------------------------------------------------------------
\* A button is disabled while its request is on its way.
Click(t, p, button) ==
  /\ tabs[t].at = "page" /\ button \notin tabs[t].disabled
  /\ posts[p] = None /\ \A q \in Posts : q < p => posts[q] # None
  /\ tabs' = [tabs EXCEPT ![t].disabled = @ \cup {button}]
  /\ posts' = [posts EXCEPT ![p] = [tab |-> t, button |-> button, cookie |-> cookie,
                                    csrf |-> tabs[t].csrf, step |-> "sent"]]
  /\ UNCHANGED <<sessions, cookie, granted>>

At(p, step) == Sent(p) /\ posts[p].step = step

\* authenticateAdminMutation: the session of the cookie, and the token of the page.
AuthenticateMutation(p) ==
  /\ At(p, "sent")
  /\ posts[p].cookie \in sessions.valid /\ posts[p].csrf = posts[p].cookie
  /\ posts' = [posts EXCEPT ![p].step = "known"]
  /\ UNCHANGED <<sessions, cookie, tabs, granted>>

\* The answer to a request, of whose session nothing is left.
Handled(p, step) ==
  posts' = [posts EXCEPT ![p].step = step, ![p].cookie = 0, ![p].csrf = 0]

\* 401 or 403; a body that the schema refuses, a user that is unknown, an entitlement
\* that needs an expiry first, or an error of the server.
Refuse(p) ==
  /\ At(p, "sent") \/ At(p, "known")
  /\ Handled(p, "refused")
  /\ UNCHANGED <<sessions, cookie, tabs, granted>>

\* The entitlement and its audit are one transaction.
Adjust(p) ==
  /\ At(p, "known") /\ posts[p].button = "save"
  /\ granted' = [limit |-> granted.limit + 1, audit |-> granted.audit + 1]
  /\ Handled(p, "ok")
  /\ UNCHANGED <<sessions, cookie, tabs>>

GenerateCode(p) ==
  /\ At(p, "known") /\ posts[p].button = "save"
  /\ Handled(p, "ok")
  /\ UNCHANGED <<sessions, cookie, tabs, granted>>

Logout(p) ==
  /\ At(p, "known") /\ posts[p].button = "logout"
  /\ sessions' = [sessions EXCEPT !.valid = @ \ {posts[p].cookie}]
  /\ posts' = [posts EXCEPT ![p].step = "ok"]
  /\ UNCHANGED <<cookie, tabs, granted>>

-----------------------------------------------------------------------------
\* The handlers of the page.
Waits(p) == posts[p].tab \in Tabs
Enabled(p) == [tabs EXCEPT ![posts[p].tab].disabled = @ \ {posts[p].button}]
Ended == [tab |-> "gone", button |-> "save", cookie |-> 0, csrf |-> 0, step |-> "over"]
Over(p) == posts' = [posts EXCEPT ![p] = Ended]

\* The cookies are cleared whatever login they are of by now; of a document that is gone
\* perhaps.
LoggedOut(p) ==
  /\ At(p, "ok") /\ posts[p].button = "logout"
  /\ IF ~Waits(p) THEN cookie' \in {0, cookie} /\ Over(p) /\ UNCHANGED tabs
     ELSE /\ cookie' = 0
          /\ tabs' = [tabs EXCEPT ![posts[p].tab] =
                        [Document("login") EXCEPT !.csrf = posts[p].csrf]]
          /\ posts' = [q \in Posts |->
                         CASE q = p -> Ended
                           [] q # p /\ Sent(q) /\ posts[q].tab = posts[p].tab ->
                                [posts[q] EXCEPT !.tab = "gone"]
                           [] OTHER -> posts[q]]
  /\ UNCHANGED <<sessions, granted>>

Answer(p) ==
  /\ \/ At(p, "refused")
     \/ At(p, "ok") /\ posts[p].button # "logout"
  /\ tabs' = IF Waits(p) THEN Enabled(p) ELSE tabs
  /\ Over(p)
  /\ UNCHANGED <<sessions, cookie, granted>>

\* The request or its answer is lost: the page says that it cannot connect, and the
\* button can be used again, whether the change is made or not.
Lose(p) ==
  /\ Sent(p) /\ Waits(p)
  /\ tabs' = Enabled(p)
  /\ IF posts[p].step \in {"ok", "refused"} THEN Over(p)
     ELSE posts' = [posts EXCEPT ![p].tab = "gone"]
  /\ UNCHANGED <<sessions, cookie, granted>>

Next ==
  \/ \E t \in Tabs :
       \/ Visit(t) \/ ReadEntitlements(t) \/ ReadAdjustments(t) \/ Verify(t)
       \/ \E p \in Posts, button \in Buttons : Click(t, p, button)
  \/ \E login \in 1..MaxLogins : Expire(login)
  \/ \E p \in Posts :
       \/ AuthenticateMutation(p) \/ Refuse(p) \/ Adjust(p) \/ GenerateCode(p) \/ Logout(p)
       \/ LoggedOut(p) \/ Answer(p) \/ Lose(p)

Spec == Init /\ [][Next]_vars

-----------------------------------------------------------------------------
\* Whatever is adjusted while a page is loaded: the credits that it shows are explained
\* by the adjustments that it lists, as long as these are not more than the last fifty.
CreditsAreExplained == \A t \in Tabs : tabs[t].at = "page" => tabs[t].limit <= tabs[t].audit

\* A tab that says that it is logged out has left no session behind: the login that it
\* was loaded under is revoked, and nothing comes of it any more; and no page of an
\* earlier login changes anything under a later one.
LoggedOutIsRevoked ==
  /\ \A t \in Tabs : tabs[t].at = "login" => tabs[t].csrf \notin sessions.valid
  /\ \A p \in Posts : At(p, "known") => posts[p].cookie = posts[p].csrf

\* A button that is disabled waits for an answer of its own request.
ButtonsWillAnswer ==
  \A t \in Tabs : \A button \in tabs[t].disabled :
    \E p \in Posts : Sent(p) /\ posts[p].tab = t /\ posts[p].button = button
=============================================================================

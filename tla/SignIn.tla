-------------------------------- MODULE SignIn --------------------------------
(***************************************************************************)
(* Signing in (server/src/prismaStore/{auth,userSession,rateLimits}.ts,    *)
(* auth.ts, userAuth.ts, adminAuth.ts; on the desktop account.rs).         *)
(*                                                                         *)
(* A code is mailed to an address for a login state; whoever knows it gets *)
(* a ticket and a browser session, or an administrator session; a desktop  *)
(* exchanges the ticket for its session.  A Store operation is one         *)
(* transaction and one action; it works with a time its caller read        *)
(* before, at most Latency ago.  Codes are random: only the code itself    *)
(* matches its hash.                                                       *)
(***************************************************************************)
EXTENDS Integers, FiniteSets, TLC

CONSTANTS
  Emails, AdminEmail,
  States,        \* login states; a desktop draws a new one for every login
  Ips,
  MaxCodes,      \* bound on the codes a behaviour issues
  None,
  MaxAttempts,   \* guesses at one code
  CodeLife,      \* OTP_TTL_MS
  TicketLife,    \* TICKET_TTL_MS
  Minute, Hour,  \* the windows of the dispatch limits
  EmailPerHour, IpPerHour,
  Latency,       \* how long a call may take
  Horizon        \* bound on the clock

ASSUME SignInAssumption ==
  /\ MaxCodes \in Nat /\ MaxAttempts \in Nat \ {0}
  /\ CodeLife \in Nat /\ TicketLife \in Nat
  /\ Minute \in Nat \ {0} /\ Hour \in Nat \ {0}
  /\ EmailPerHour \in Nat \ {0} /\ IpPerHour \in Nat \ {0}
  /\ Latency \in Nat /\ Horizon \in Nat
  /\ None \notin States /\ States # {}
  /\ AdminEmail \in Emails /\ Emails \cap Ips = {}

VARIABLES
  clock,
  issued,      \* how many codes have been issued: code i is the i-th
  otp,         \* the EmailOtp rows
  minute,      \* AuthRateLimit, scope email_minute: when a mail is allowed
  hourly,      \* AuthRateLimit, scopes email_hour and ip_hour
  ticket,      \* the DesktopLoginTicket that a code has opened
  session,     \* the kinds of live sessions that come from a code
  opened,      \* history: how often a code was accepted
  exchanged,   \* history: how often its ticket was accepted
  pending,     \* the desktop's pending_auth_state file
  begun,       \* history: the states the desktop has begun a login with
  callback,    \* complete_auth_flow: the ticket it exchanges or has exchanged
  file,        \* the desktop's session file: the code its session comes from
  leaving      \* logout_account: the session it has read from the file

limits == <<minute, hourly>>
sessions == <<ticket, session, opened, exchanged>>
server == <<issued, otp, limits, sessions>>
desktop == <<pending, begun, callback, file, leaving>>
vars == <<clock, server, desktop>>

Codes == 1..MaxCodes
Purposes == {"desktop_login", "admin_login"}
Keys == Purposes \X Emails
Windows == -1..Horizon

OtpRows == [purpose : Purposes, email : Emails, state : States, at : Nat,
            attempts : 0..MaxAttempts, live : BOOLEAN]
NoOtp == [purpose |-> "desktop_login", email |-> AdminEmail,
          state |-> CHOOSE s \in States : TRUE, at |-> 0, attempts |-> 0, live |-> FALSE]

Counters == [window : Windows, count : Nat]
NoCounter == [window |-> -1, count |-> 0]

Scopes == Keys \cup (Purposes \X Ips)

NoTicket == [status |-> "none", at |-> 0]
Tickets == [status : {"none", "live", "used"}, at : Nat]

NoCallback == [at |-> "idle", code |-> 0, state |-> None]
Callbacks == [at : {"exchange", "save"}, code : Codes, state : States] \cup {NoCallback}

TypeOK ==
  /\ clock \in 0..Horizon
  /\ issued \in 0..MaxCodes
  /\ otp \in [Codes -> OtpRows]
  /\ minute \in [Keys -> Nat]
  /\ hourly \in [Scopes -> Counters]
  /\ ticket \in [Codes -> Tickets]
  /\ session \in [Codes -> SUBSET {"desktop", "web", "admin"}]
  /\ opened \in [Codes -> Nat] /\ exchanged \in [Codes -> Nat]
  /\ pending \in States \cup {None} /\ begun \subseteq States
  /\ callback \in Callbacks
  /\ file \in {0} \cup Codes /\ leaving \in {0} \cup Codes

Init ==
  /\ clock = 0
  /\ issued = 0
  /\ otp = [c \in Codes |-> NoOtp]
  /\ minute = [k \in Keys |-> 0]
  /\ hourly = [s \in Scopes |-> NoCounter]
  /\ ticket = [c \in Codes |-> NoTicket]
  /\ session = [c \in Codes |-> {}]
  /\ opened = [c \in Codes |-> 0] /\ exchanged = [c \in Codes |-> 0]
  /\ pending = None /\ begun = {}
  /\ callback = NoCallback
  /\ file = 0 /\ leaving = 0

\* The times that a transaction may have been called with.
Nows == {n \in 0..clock : clock - n <= Latency}

Tick ==
  /\ clock < Horizon
  /\ clock' = clock + 1
  /\ UNCHANGED <<server, desktop>>

-----------------------------------------------------------------------------
(* Dispatch limits and codes.                                              *)

Issued(c) == c \in 1..issued

SameLogin(c, p, e, s) ==
  Issued(c) /\ otp[c].purpose = p /\ otp[c].email = e /\ otp[c].state = s

\* startOfFixedWindow.
Window(n) == n \div Hour

\* No row of AuthRateLimit blocks the mail.
Free(p, e, ip, n) ==
  /\ minute[<<p, e>>] <= n
  /\ hourly[<<p, e>>].window = Window(n) => hourly[<<p, e>>].count < EmailPerHour
  /\ hourly[<<p, ip>>].window = Window(n) => hourly[<<p, ip>>].count < IpPerHour

\* Fault: a new window starts at zero.
ChargedFromZero(p, e, ip, n) ==
  /\ minute' = [minute EXCEPT ![<<p, e>>] = n + Minute]
  /\ hourly' = [x \in Scopes |->
                  IF x \notin {<<p, e>>, <<p, ip>>} THEN hourly[x]
                  ELSE [window |-> Window(n),
                        count |-> IF hourly[x].window = Window(n)
                                  THEN hourly[x].count + 1 ELSE 0]]

\* reserveEmailDispatchRateLimits: a refused mail is charged to no row.
Charged(p, e, ip, n) ==
  /\ minute' = [minute EXCEPT ![<<p, e>>] = n + Minute]
  /\ hourly' = [x \in Scopes |->
                  IF x \notin {<<p, e>>, <<p, ip>>} THEN hourly[x]
                  ELSE [window |-> Window(n),
                        count |-> IF hourly[x].window = Window(n)
                                  THEN hourly[x].count + 1 ELSE 1]]

\* Fault: older codes stay as they are.
SupersedesNone(p, e, s, row) == [otp EXCEPT ![issued + 1] = row]

\* Older codes of the login are consumed, a new one is created.
Supersedes(p, e, s, row) ==
  [c \in Codes |-> IF c = issued + 1 THEN row
                   ELSE IF SameLogin(c, p, e, s) THEN [otp[c] EXCEPT !.live = FALSE]
                   ELSE otp[c]]

\* issueEmailOtp.
Issue(p, e, s, ip, n) ==
  /\ issued < MaxCodes
  /\ Free(p, e, ip, n)
  /\ Charged(p, e, ip, n)
  /\ otp' = Supersedes(p, e, s, [purpose |-> p, email |-> e, state |-> s, at |-> n,
                                 attempts |-> 0, live |-> TRUE])
  /\ issued' = issued + 1
  /\ UNCHANGED <<clock, sessions, desktop>>

\* AuthService and UserAuthService issue the same codes.
StartEmailLogin(e, s, ip, n) == Issue("desktop_login", e, s, ip, n)

StartAdminLogin(e, s, ip, n) == e = AdminEmail /\ Issue("admin_login", e, s, ip, n)

\* sendOtp fails, though the code may have been mailed all the same, and
\* invalidateIssuedOtpAfterDeliveryFailure does not find the store busy.
Invalidate(c) ==
  /\ otp[c].live
  /\ otp' = [otp EXCEPT ![c].live = FALSE]
  /\ UNCHANGED <<clock, issued, limits, sessions, desktop>>

-----------------------------------------------------------------------------
(* Codes and tickets are accepted.                                         *)

\* Fault: attempts that have run out do not stop a guess.
UsableUncounted(c, n) == otp[c].live /\ otp[c].at + CodeLife > n

Usable(c, n) ==
  otp[c].live /\ otp[c].attempts < MaxAttempts /\ otp[c].at + CodeLife > n

\* The newest usable code of a login, by its createdAt, then by its random id.
Candidates(p, e, s, n) ==
  {c \in Codes : /\ SameLogin(c, p, e, s) /\ Usable(c, n)
                 /\ \A d \in Codes : SameLogin(d, p, e, s) /\ Usable(d, n)
                                        => otp[d].at <= otp[c].at}

\* A wrong guess costs an attempt.
GuessWrong(p, e, s, n) ==
  \E c \in Candidates(p, e, s, n) :
     /\ otp' = [otp EXCEPT ![c].attempts = @ + 1]
     /\ UNCHANGED <<clock, issued, limits, sessions, desktop>>

\* What an accepted code opens: a ticket, sessions or both.
Opens(c, form, n) ==
  /\ opened' = [opened EXCEPT ![c] = @ + 1]
  /\ ticket' = IF "ticket" \in form
               THEN [ticket EXCEPT ![c] = [status |-> "live", at |-> n]] ELSE ticket
  /\ session' = [session EXCEPT ![c] = @ \cup (form \ {"ticket"})]

\* A right guess is counted and consumes the code.
Verify(p, form, e, s, n) ==
  \E c \in Candidates(p, e, s, n) :
     /\ otp' = [otp EXCEPT ![c].attempts = @ + 1, ![c].live = FALSE]
     /\ Opens(c, form, n)
     /\ UNCHANGED <<clock, issued, limits, exchanged, desktop>>

VerifyDesktop(e, s, n) == Verify("desktop_login", {"ticket"}, e, s, n)
VerifyUser(e, s, n) == Verify("desktop_login", {"web"}, e, s, n)
VerifyDesktopAndWeb(e, s, n) == Verify("desktop_login", {"ticket", "web"}, e, s, n)
VerifyAdmin(e, s, n) == e = AdminEmail /\ Verify("admin_login", {"admin"}, e, s, n)

\* Fault: the state of the ticket is not compared.
AcceptedAnyState(c, s, n) ==
  ticket[c].status = "live" /\ n < ticket[c].at + TicketLife

\* exchangeDesktopTicketAndCreateSession accepts.
Accepted(c, s, n) ==
  ticket[c].status = "live" /\ n < ticket[c].at + TicketLife /\ otp[c].state = s

\* Fault: the accepted ticket stays as it is.
ExchangeTicketUnmarked(c) ==
  /\ UNCHANGED ticket
  /\ exchanged' = [exchanged EXCEPT ![c] = @ + 1]
  /\ session' = [session EXCEPT ![c] = @ \cup {"desktop"}]

ExchangeTicket(c) ==
  /\ ticket' = [ticket EXCEPT ![c].status = "used"]
  /\ exchanged' = [exchanged EXCEPT ![c] = @ + 1]
  /\ session' = [session EXCEPT ![c] = @ \cup {"desktop"}]

\* A desktop other than this one exchanges a ticket.
ElsewhereExchange(c, s, n) ==
  /\ s \notin begun
  /\ Accepted(c, s, n)
  /\ ExchangeTicket(c)
  /\ UNCHANGED <<clock, issued, otp, limits, opened, desktop>>

Revoke(c, kind) ==
  /\ kind \in session[c]
  /\ session' = [session EXCEPT ![c] = @ \ {kind}]
  /\ UNCHANGED <<clock, issued, otp, limits, ticket, opened, exchanged, desktop>>

RevokeSession(c) == Revoke(c, "desktop")
RevokeUserSession(c) == Revoke(c, "web")
RevokeAdminSession(c) == Revoke(c, "admin")

-----------------------------------------------------------------------------
(* The desktop's account commands.                                         *)

\* begin_auth_flow.
Begin(s) ==
  /\ s \notin begun /\ \A c \in Codes : Issued(c) => otp[c].state # s
  /\ pending' = s
  /\ begun' = begun \cup {s}
  /\ UNCHANGED <<clock, server, callback, file, leaving>>

\* complete_auth_flow, called with any link: its state must be the pending one.
Callback(c, s) ==
  /\ callback = NoCallback
  /\ pending # None /\ s = pending
  /\ ticket[c].status # "none"
  /\ callback' = [at |-> "exchange", code |-> c, state |-> s]
  /\ UNCHANGED <<clock, server, pending, begun, file, leaving>>

\* The server accepts the ticket, and the answer arrives or is lost.
Exchange(n) ==
  /\ callback.at = "exchange"
  /\ Accepted(callback.code, callback.state, n)
  /\ ExchangeTicket(callback.code)
  /\ callback' \in {[callback EXCEPT !.at = "save"], NoCallback}
  /\ UNCHANGED <<clock, issued, otp, limits, opened, pending, begun, file, leaving>>

\* The server refuses the ticket or is not reached.
ExchangeFails ==
  /\ callback.at = "exchange"
  /\ callback' = NoCallback
  /\ UNCHANGED <<clock, server, pending, begun, file, leaving>>

\* write_account_session, then the removal of the pending state.
SaveSession ==
  /\ callback.at = "save"
  /\ file' = callback.code
  /\ pending' \in {None, pending}
  /\ callback' = NoCallback
  /\ UNCHANGED <<clock, server, begun, leaving>>

\* logout_account: the session is read, the server asked to revoke it, and the
\* file removed whatever the answer is.
Logout ==
  /\ leaving = 0 /\ file # 0
  /\ leaving' = file
  /\ UNCHANGED <<clock, server, pending, begun, callback, file>>

LogoutEnds ==
  /\ leaving # 0
  /\ session' \in {[session EXCEPT ![leaving] = @ \ {"desktop"}], session}
  /\ file' = 0 /\ leaving' = 0
  /\ UNCHANGED <<clock, issued, otp, limits, ticket, opened, exchanged,
                 pending, begun, callback>>

\* The desktop is closed: its files stay.
Quit ==
  /\ callback # NoCallback \/ leaving # 0
  /\ callback' = NoCallback /\ leaving' = 0
  /\ UNCHANGED <<clock, server, pending, begun, file>>

-----------------------------------------------------------------------------
Dispatch ==
  \/ \E e \in Emails, s \in States, ip \in Ips, n \in Nows :
        StartEmailLogin(e, s, ip, n) \/ StartAdminLogin(e, s, ip, n)
  \/ \E c \in Codes : Invalidate(c)

Guess ==
  \E e \in Emails, s \in States, n \in Nows :
     \/ \E p \in Purposes : GuessWrong(p, e, s, n)
     \/ VerifyDesktop(e, s, n) \/ VerifyUser(e, s, n)
     \/ VerifyDesktopAndWeb(e, s, n) \/ VerifyAdmin(e, s, n)

Sessions ==
  \/ \E c \in Codes, s \in States, n \in Nows : ElsewhereExchange(c, s, n)
  \/ \E c \in Codes : RevokeSession(c) \/ RevokeUserSession(c) \/ RevokeAdminSession(c)

Desktop ==
  \/ \E s \in States : Begin(s)
  \/ \E c \in Codes, s \in States : Callback(c, s)
  \/ \E n \in Nows : Exchange(n)
  \/ ExchangeFails \/ SaveSession \/ Logout \/ LogoutEnds \/ Quit

Next == Tick \/ Dispatch \/ Guess \/ Sessions \/ Desktop

Spec == Init /\ [][Next]_vars

\* Login states are interchangeable for TLC.
Symmetry == Permutations(States)

-----------------------------------------------------------------------------
(* Properties.                                                             *)

\* A code is accepted at most once and its ticket is exchanged at most once,
\* whichever forms and desktops use them at the same time.
UsedOnce == \A c \in Codes : opened[c] <= 1 /\ exchanged[c] <= 1

\* An older code of a login never opens anything once a newer one was issued,
\* though their times may be in another order, and the newer one may be used
\* up, expired or not delivered.
SupersededIsDead ==
  [][\A c \in Codes : opened'[c] # opened[c] =>
        \A d \in Codes : d > c => ~SameLogin(d, otp[c].purpose, otp[c].email, otp[c].state)]_vars

\* However mails of two hours overtake each other, and though a counter forgets
\* the hour it has left, an address gets at most EmailPerHour codes in an hour.
MailsPerHour ==
  \A k \in Keys, w \in 0..Horizon :
     Cardinality({c \in Codes : /\ Issued(c) /\ <<otp[c].purpose, otp[c].email>> = k
                                /\ Window(otp[c].at) = w}) <= EmailPerHour

\* The session a desktop keeps was opened by a code that was asked for with a
\* login state this desktop had begun, whatever link the system hands to it.
SessionIsOwn == file # 0 => otp[file].state \in begun
===============================================================================

------------------------------ MODULE MemoryAuth ------------------------------
(***************************************************************************)
(* Signing in with the store in memory (server/src/store/memory): codes    *)
(* that are mailed, tickets and sessions, with the limits of the mails.    *)
(* An operation is a few writes, any of which may throw; it has to keep    *)
(* what the store with a database promises (SignIn).  Every mail address   *)
(* asks from the same place.  Calls that are refused before they write     *)
(* anything are no steps.                                                  *)
(***************************************************************************)
EXTENDS Integers, Sequences, FiniteSets

CONSTANTS
  None,
  Emails, Logins,
  EmailPerHour, PlacePerHour,  \* the limits (5 and 20)
  MaxGuesses,    \* the guesses at one code (5)
  CodeLength, TicketLength,  \* how long a code and a ticket are good
  MinuteLength, HourLength, MaxMinutes,  \* in the units of the clock, and its bound
  MaxAuthCalls   \* bound on the calls

VARIABLES
  registry,   \* the tables
  underway,   \* the operation that runs
  minutes,
  authCalls

vars == <<registry, underway, minutes, authCalls>>

Atomic == INSTANCE MemoryAtomic WITH tables <- registry, running <- underway

\* The hours are counted for an address, and for a place.
Purposes == {"desktop_login", "admin_login"}
Keys == Purposes \X Emails
Scopes == Keys \cup (Purposes \X {None})

AuthRateLimitRecord == [windowStartedAt : Nat, count : Nat, nextAllowedAt : Nat]

EmailOtpRecord ==
  [purpose : Purposes, email : Emails, state : Logins, attempts : Nat, createdAt : Nat,
   status : {"issued", "consumed", "accepted"}]

\* Tickets and sessions name the code that they came from.
DesktopLoginTicketRecord == [otp : Nat, user : Emails, expiresAt : Nat, consumed : BOOLEAN]
SessionRecord == [otp : Nat, user : Emails, kind : {"desktop", "admin", "web"}, revoked : BOOLEAN]

Tables ==
  [minute : [Keys -> Nat], hour : [Scopes -> AuthRateLimitRecord \cup {None}],
   otps : Seq(EmailOtpRecord), users : SUBSET Emails,
   tickets : SUBSET DesktopLoginTicketRecord, sessions : SUBSET SessionRecord]

\* The writes that may follow the first of an operation.
Writes ==
  [write : {"upsertUserByEmail"}, row : Emails]
  \cup [write : {"createEmailOtp"}, row : EmailOtpRecord]
  \cup [write : {"createDesktopLoginTicket"}, row : DesktopLoginTicketRecord]
  \cup [write : {"createSession"}, row : SessionRecord]

Operations == [snapshot : Tables, todo : Seq(Writes)]

TypeOK ==
  /\ registry \in Tables
  /\ underway \in Operations \cup {None} /\ (underway # None => underway.todo # <<>>)
  /\ minutes \in 0..MaxMinutes /\ authCalls \in 0..MaxAuthCalls

Init ==
  /\ registry = [minute |-> [k \in Keys |-> 0], hour |-> [s \in Scopes |-> None],
                 otps |-> <<>>, users |-> {}, tickets |-> {}, sessions |-> {}]
  /\ underway = None /\ minutes = 0 /\ authCalls = 0

Called ==
  /\ authCalls < MaxAuthCalls /\ authCalls' = authCalls + 1 /\ UNCHANGED minutes

Tick ==
  /\ minutes < MaxMinutes /\ minutes' = minutes + 1 /\ UNCHANGED <<registry, underway, authCalls>>

run(written, todo) == Called /\ Atomic!run(written, todo)

\* What the following writes of an operation do to the tables.
upsertUserByEmail(i) == [write |-> "upsertUserByEmail", row |-> registry.otps[i].email]
createEmailOtp(p, e, l) ==
  [write |-> "createEmailOtp",
   row |-> [purpose |-> p, email |-> e, state |-> l, attempts |-> 0, createdAt |-> minutes,
            status |-> "issued"]]
createDesktopLoginTicket(i) ==
  [write |-> "createDesktopLoginTicket",
   row |-> [otp |-> i, user |-> registry.otps[i].email, expiresAt |-> minutes + TicketLength,
            consumed |-> FALSE]]
createSession(i, kind) ==
  [write |-> "createSession",
   row |-> [otp |-> i, user |-> registry.otps[i].email, kind |-> kind, revoked |-> FALSE]]

Written(w) ==
  CASE w.write = "upsertUserByEmail" -> [registry EXCEPT !.users = @ \cup {w.row}]
    [] w.write = "createEmailOtp" -> [registry EXCEPT !.otps = Append(@, w.row)]
    [] w.write = "createDesktopLoginTicket" -> [registry EXCEPT !.tickets = @ \cup {w.row}]
    [] OTHER -> [registry EXCEPT !.sessions = @ \cup {w.row}]

Goes == /\ underway # None /\ Atomic!WritesNext(Written(Atomic!NextWrite))
        /\ UNCHANGED <<minutes, authCalls>>
Fails == Atomic!Throws /\ UNCHANGED <<minutes, authCalls>>

-----------------------------------------------------------------------------
(* rateLimits.ts: a minute from the last mail, and windows of an hour. *)

hourWindowStart == minutes - (minutes % HourLength)

sameWindow(s) == registry.hour[s] # None /\ registry.hour[s].windowStartedAt = hourWindowStart

planReservation(s, limit) == ~(sameWindow(s) /\ registry.hour[s].count >= limit)

applyReservation(s) ==
  [windowStartedAt |-> hourWindowStart, nextAllowedAt |-> hourWindowStart + HourLength,
   count |-> IF sameWindow(s) THEN registry.hour[s].count + 1 ELSE 1]

reserveEmailDispatchRateLimits(p, e) ==
  /\ registry.minute[<<p, e>>] <= minutes
  /\ planReservation(<<p, e>>, EmailPerHour) /\ planReservation(<<p, None>>, PlacePerHour)

\* Codes of the same login are put out of use.
issueEmailOtp(p, e, l) ==
  /\ reserveEmailDispatchRateLimits(p, e)
  /\ run([registry EXCEPT !.minute[<<p, e>>] = minutes + MinuteLength,
            !.hour[<<p, e>>] = applyReservation(<<p, e>>), !.hour[<<p, None>>] = applyReservation(<<p, None>>),
            !.otps = [i \in DOMAIN @ |->
              IF @[i].purpose = p /\ @[i].email = e /\ @[i].state = l /\ @[i].status = "issued"
              THEN [@[i] EXCEPT !.status = "consumed"] ELSE @[i]]],
         <<createEmailOtp(p, e, l)>>)

invalidateIssuedOtpAfterDeliveryFailure(i) ==
  /\ registry.otps[i].status = "issued"
  /\ run([registry EXCEPT !.otps[i].status = "consumed"], <<>>)

-----------------------------------------------------------------------------
(* auth.ts and userSession.ts. *)

latestUsableOtp(i) ==
  LET usable(j) == /\ registry.otps[j].status = "issued" /\ registry.otps[j].attempts < MaxGuesses
                   /\ registry.otps[j].createdAt + CodeLength > minutes
      same(j) == /\ registry.otps[j].purpose = registry.otps[i].purpose
                 /\ registry.otps[j].email = registry.otps[i].email
                 /\ registry.otps[j].state = registry.otps[i].state
  IN usable(i) /\ \A j \in DOMAIN registry.otps : same(j) /\ usable(j) => j <= i

\* A guess counts, and what the right one opens is written one after the other.
Guess(i, opens) ==
  /\ latestUsableOtp(i)
  /\ \/ run([registry EXCEPT !.otps[i].attempts = @ + 1], <<>>)
     \/ run([registry EXCEPT !.otps[i].attempts = @ + 1, !.otps[i].status = "accepted"], opens)

verifyDesktopOtpAndCreateTicket(i) ==
  /\ registry.otps[i].purpose = "desktop_login"
  /\ Guess(i, <<upsertUserByEmail(i), createDesktopLoginTicket(i)>>)

verifyUserOtpAndCreateWebSession(i) ==
  /\ registry.otps[i].purpose = "desktop_login"
  /\ Guess(i, <<upsertUserByEmail(i), createSession(i, "web")>>)

verifyDesktopOtpAndCreateTicketAndWebSession(i) ==
  /\ registry.otps[i].purpose = "desktop_login"
  /\ Guess(i, <<upsertUserByEmail(i), createDesktopLoginTicket(i), createSession(i, "web")>>)

verifyAdminOtpAndCreateSession(i) ==
  /\ registry.otps[i].purpose = "admin_login"
  /\ Guess(i, <<createSession(i, "admin")>>)

exchangeDesktopTicketAndCreateSession(t) ==
  /\ ~t.consumed /\ t.expiresAt > minutes /\ t.user \in registry.users
  /\ run([registry EXCEPT !.tickets = (@ \ {t}) \cup {[t EXCEPT !.consumed = TRUE]}],
         <<createSession(t.otp, "desktop")>>)

\* Signing out waits for no operation.
revokeSession(s) ==
  /\ Called /\ ~s.revoked
  /\ Atomic!Unserialised(
       [registry EXCEPT !.sessions = (@ \ {s}) \cup {[s EXCEPT !.revoked = TRUE]}])

DesktopOperations ==
  \/ \E p \in Purposes, e \in Emails, l \in Logins : issueEmailOtp(p, e, l)
  \/ \E i \in DOMAIN registry.otps :
       \/ invalidateIssuedOtpAfterDeliveryFailure(i) \/ verifyAdminOtpAndCreateSession(i)
       \/ verifyDesktopOtpAndCreateTicket(i)
  \/ \E t \in registry.tickets : exchangeDesktopTicketAndCreateSession(t)

WebOperations ==
  \E i \in DOMAIN registry.otps :
    verifyUserOtpAndCreateWebSession(i) \/ verifyDesktopOtpAndCreateTicketAndWebSession(i)

Next ==
  \/ Tick \/ Goes \/ Fails \/ DesktopOperations \/ WebOperations
  \/ \E s \in registry.sessions : revokeSession(s)

Spec == Init /\ [][Next]_vars

-----------------------------------------------------------------------------
FromCode(i, kind) == Cardinality({s \in registry.sessions : s.otp = i /\ s.kind = kind})
TicketsOf(i) == {t \in registry.tickets : t.otp = i}

\* When no operation runs none is half done: a code that was accepted has opened
\* something, once, and what is used of it was opened by it.
SignInsAreWhole ==
  underway = None =>
    /\ \A i \in DOMAIN registry.otps :
         LET opened == Cardinality(TicketsOf(i)) + FromCode(i, "admin") + FromCode(i, "web") IN
         /\ registry.otps[i].status = "accepted" => opened \in {1, 2} /\ FromCode(i, "web") <= 1
         /\ registry.otps[i].status # "accepted" => opened = 0
    /\ \A t \in registry.tickets :
         /\ t.user \in registry.users
         /\ FromCode(t.otp, "desktop") = IF t.consumed THEN 1 ELSE 0

\* A code is guessed a few times at most, only the newest code of a login is good, and
\* mails to an address and from a place keep to the limits.
DispatchLimitsHold ==
  LET otps == registry.otps
      sent(p, w) == {i \in DOMAIN otps : /\ otps[i].purpose = p
                                         /\ otps[i].createdAt \in w..(w + HourLength - 1)}
  IN
  /\ \A i, j \in DOMAIN otps :
       /\ otps[i].attempts <= MaxGuesses
       /\ i < j /\ otps[i].purpose = otps[j].purpose /\ otps[i].email = otps[j].email =>
            /\ otps[j].createdAt - otps[i].createdAt >= MinuteLength
            /\ otps[i].state = otps[j].state => otps[i].status # "issued"
  /\ \A p \in Purposes, w \in {m \in 0..MaxMinutes : m % HourLength = 0} :
       /\ Cardinality(sent(p, w)) <= PlacePerHour
       /\ \A e \in Emails : Cardinality({i \in sent(p, w) : otps[i].email = e}) <= EmailPerHour
=============================================================================

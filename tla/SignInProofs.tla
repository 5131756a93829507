----------------------------- MODULE SignInProofs -----------------------------
(***************************************************************************)
(* Proofs about SignIn, for any sets of addresses, states and places and   *)
(* any values of its times and limits.                                     *)
(*                                                                         *)
(* TypeOK is inductive.  Spent, Outdated, Own and Metered strengthen the   *)
(* four properties: what a code that is still live has not done yet, which *)
(* codes of a login are not live, what the desktop's files refer to, and   *)
(* what the counters have seen.                                            *)
(***************************************************************************)
EXTENDS SignIn, FiniteSetTheorems, TLAPS

\* A live code has opened nothing, and a live ticket was not exchanged.
Spent ==
  \A c \in Codes :
     /\ opened[c] <= 1 /\ exchanged[c] <= 1
     /\ otp[c].live => Issued(c) /\ opened[c] = 0
     /\ opened[c] # 0 => Issued(c)
     /\ opened[c] = 0 => ticket[c].status = "none" /\ exchanged[c] = 0
     /\ ticket[c].status = "live" => exchanged[c] = 0

\* A live code is the newest of its login.
Outdated ==
  \A c, d \in Codes :
     d > c /\ SameLogin(d, otp[c].purpose, otp[c].email, otp[c].state) => ~otp[c].live

\* The states that the desktop's files and its callback refer to are its own.
Own ==
  /\ pending # None => pending \in begun
  /\ callback.at # "idle" => callback.state \in begun /\ Issued(callback.code)
  /\ callback.at = "save" => otp[callback.code].state = callback.state
  /\ file # 0 => Issued(file) /\ otp[file].state \in begun

\* The codes mailed for a key in a window.
Mails(k, w) ==
  {c \in Codes : /\ Issued(c) /\ <<otp[c].purpose, otp[c].email>> = k
                 /\ Window(otp[c].at) = w}

\* The counter of a key has seen the mails of its window, which is that of the last
\* mail; the minute of the key covers every mail.
MeteredAt(k) ==
  /\ \A c \in Codes : Issued(c) /\ <<otp[c].purpose, otp[c].email>> = k =>
        /\ otp[c].at + Minute <= minute[k]
        /\ Window(otp[c].at) <= hourly[k].window
  /\ hourly[k].window # -1 =>
        \E m \in Nat : m + Minute = minute[k] /\ hourly[k].window = Window(m)
  /\ Cardinality(Mails(k, hourly[k].window)) <= hourly[k].count
  /\ \A w \in Int : Cardinality(Mails(k, w)) <= EmailPerHour

Metered == \A k \in Keys : MeteredAt(k)

-----------------------------------------------------------------------------
(* Types.                                                                   *)

LEMMA WindowType == \A n \in Nat : Window(n) \in 0..n
<1> SUFFICES ASSUME NEW n \in Nat PROVE n \div Hour \in 0..n
  BY DEF Window
<1>1. Hour \in Nat /\ Hour > 0
  BY SignInAssumption
<1> QED
  BY <1>1

LEMMA WindowMonotone ==
  ASSUME NEW m \in Nat, NEW n \in Nat, m <= n PROVE Window(m) <= Window(n)
<1>1. Hour \in Nat /\ Hour > 0
  BY SignInAssumption
<1> QED
  BY <1>1 DEF Window

LEMMA NowsType == ASSUME TypeOK PROVE \A n \in Nows : n \in Nat /\ n <= clock
BY DEF Nows, TypeOK

LEMMA NoOtpType == NoOtp \in OtpRows
<1>1. (CHOOSE s \in States : TRUE) \in States
  BY SignInAssumption
<1> QED
  BY <1>1, SignInAssumption DEF NoOtp, OtpRows, Purposes

LEMMA InitTyped == ASSUME Init PROVE TypeOK
<1>1. otp \in [Codes -> OtpRows]
  BY NoOtpType DEF Init
<1>2. hourly \in [Scopes -> Counters]
  BY SignInAssumption DEF Init, NoCounter, Counters, Windows
<1>3. ticket \in [Codes -> Tickets] /\ callback \in Callbacks
  BY DEF Init, NoTicket, Tickets, NoCallback, Callbacks
<1> QED
  BY <1>1, <1>2, <1>3, SignInAssumption DEF Init, TypeOK

LEMMA IssueTyped ==
  ASSUME TypeOK, NEW p \in Purposes, NEW e \in Emails, NEW s \in States, NEW ip \in Ips,
         NEW n \in Nows, Issue(p, e, s, ip, n)
  PROVE  TypeOK'
<1> USE DEF Issue
<1>1. n \in Nat /\ n \in 0..Horizon /\ n + Minute \in Nat
  BY NowsType, SignInAssumption DEF TypeOK
<1>2. Window(n) \in Windows
  BY <1>1, WindowType, SignInAssumption DEF Windows
<1>3. issued' \in 0..MaxCodes /\ issued + 1 \in Codes
  BY SignInAssumption DEF TypeOK, Codes
<1>4. otp' \in [Codes -> OtpRows]
  <2>1. [purpose |-> p, email |-> e, state |-> s, at |-> n,
         attempts |-> 0, live |-> TRUE] \in OtpRows
    BY <1>1, SignInAssumption DEF OtpRows
  <2>2. \A c \in Codes : [otp[c] EXCEPT !.live = FALSE] \in OtpRows
    BY DEF TypeOK, OtpRows
  <2> QED
    BY <2>1, <2>2 DEF Supersedes, TypeOK
<1>5. hourly' \in [Scopes -> Counters]
  BY <1>2 DEF Charged, TypeOK, Counters
<1>6. minute' \in [Keys -> Nat]
  BY <1>1 DEF Charged, TypeOK
<1> QED
  BY <1>3, <1>4, <1>5, <1>6 DEF TypeOK, sessions, desktop

\* What a step that guesses does to the codes.
LEMMA GuessTyped ==
  ASSUME TypeOK, Guess
  PROVE  TypeOK'
<1>1. \A c \in Codes, n \in Nat : Usable(c, n) => otp[c].attempts + 1 \in 0..MaxAttempts
  BY SignInAssumption DEF TypeOK, OtpRows, Usable
<1>2. ASSUME NEW p, NEW e, NEW s, NEW n \in Nows, GuessWrong(p, e, s, n)
      PROVE  TypeOK'
  <2>1. PICK c \in Candidates(p, e, s, n) :
          /\ otp' = [otp EXCEPT ![c].attempts = @ + 1]
          /\ UNCHANGED <<clock, issued, limits, sessions, desktop>>
    BY <1>2 DEF GuessWrong
  <2>2. c \in Codes /\ otp[c].attempts + 1 \in 0..MaxAttempts
    BY <1>1, NowsType DEF Candidates
  <2>3. otp' \in [Codes -> OtpRows]
    BY <2>1, <2>2 DEF TypeOK, OtpRows
  <2> QED
    BY <2>1, <2>3 DEF TypeOK, limits, sessions, desktop
<1>3. ASSUME NEW p, NEW form \in SUBSET {"ticket", "desktop", "web", "admin"}, NEW e, NEW s,
             NEW n \in Nows, Verify(p, form, e, s, n)
      PROVE  TypeOK'
  <2>1. PICK c \in Candidates(p, e, s, n) :
          /\ otp' = [otp EXCEPT ![c].attempts = @ + 1, ![c].live = FALSE]
          /\ Opens(c, form, n)
          /\ UNCHANGED <<clock, issued, limits, exchanged, desktop>>
    BY <1>3 DEF Verify
  <2>2. c \in Codes /\ otp[c].attempts + 1 \in 0..MaxAttempts /\ n \in Nat
    BY <1>1, NowsType DEF Candidates
  <2>3. otp' \in [Codes -> OtpRows]
    BY <2>1, <2>2 DEF TypeOK, OtpRows
  <2>4. opened' \in [Codes -> Nat]
    BY <2>1, <2>2 DEF TypeOK, Opens
  <2>5. ticket' \in [Codes -> Tickets]
    <3>1. [status |-> "live", at |-> n] \in Tickets
      BY <2>2 DEF Tickets
    <3> QED
      BY <2>1, <2>2, <3>1 DEF TypeOK, Opens
  <2>6. session' \in [Codes -> SUBSET {"desktop", "web", "admin"}]
    BY <2>1, <2>2 DEF TypeOK, Opens
  <2> QED
    BY <2>1, <2>3, <2>4, <2>5, <2>6 DEF TypeOK, limits, desktop
<1> QED
  BY <1>2, <1>3 DEF Guess, VerifyDesktop, VerifyUser, VerifyDesktopAndWeb, VerifyAdmin

LEMMA ExchangeTyped ==
  ASSUME TypeOK, NEW c \in Codes, ExchangeTicket(c)
  PROVE  /\ ticket' \in [Codes -> Tickets]
         /\ exchanged' \in [Codes -> Nat]
         /\ session' \in [Codes -> SUBSET {"desktop", "web", "admin"}]
<1>1. ticket' \in [Codes -> Tickets]
  BY DEF TypeOK, ExchangeTicket, Tickets
<1> QED
  BY <1>1 DEF TypeOK, ExchangeTicket

LEMMA SessionsTyped ==
  ASSUME TypeOK, Sessions
  PROVE  TypeOK'
<1>1. ASSUME NEW c \in Codes, NEW s \in States, NEW n \in Nows, ElsewhereExchange(c, s, n)
      PROVE  TypeOK'
  BY <1>1, ExchangeTyped DEF ElsewhereExchange, TypeOK, limits, desktop
<1>2. ASSUME NEW c \in Codes, NEW kind, Revoke(c, kind)
      PROVE  TypeOK'
  <2>1. session' \in [Codes -> SUBSET {"desktop", "web", "admin"}]
    BY <1>2 DEF Revoke, TypeOK
  <2> QED
    BY <1>2, <2>1 DEF Revoke, TypeOK, limits, desktop
<1> QED
  BY <1>1, <1>2 DEF Sessions, RevokeSession, RevokeUserSession, RevokeAdminSession

LEMMA DesktopTyped ==
  ASSUME TypeOK, Desktop
  PROVE  TypeOK'
<1> USE DEF server, limits, sessions
<1>1. ASSUME NEW s \in States, Begin(s) PROVE TypeOK'
  BY <1>1 DEF Begin, TypeOK
<1>2. ASSUME NEW c \in Codes, NEW s \in States, Callback(c, s) PROVE TypeOK'
  BY <1>2 DEF Callback, TypeOK, Callbacks
<1>3. ASSUME NEW n \in Nows, Exchange(n) PROVE TypeOK'
  <2>1. callback.code \in Codes
    BY <1>3 DEF Exchange, TypeOK, Callbacks, NoCallback
  <2>2. callback' \in Callbacks
    BY <1>3 DEF Exchange, TypeOK, Callbacks, NoCallback
  <2> QED
    BY <1>3, <2>1, <2>2, ExchangeTyped DEF Exchange, TypeOK
<1>4. ASSUME ExchangeFails PROVE TypeOK'
  BY <1>4 DEF ExchangeFails, TypeOK, Callbacks, NoCallback
<1>5. ASSUME SaveSession PROVE TypeOK'
  BY <1>5 DEF SaveSession, TypeOK, Callbacks, NoCallback
<1>6. ASSUME Logout PROVE TypeOK'
  BY <1>6 DEF Logout, TypeOK
<1>7. ASSUME LogoutEnds PROVE TypeOK'
  <2>1. session' \in [Codes -> SUBSET {"desktop", "web", "admin"}]
    BY <1>7 DEF LogoutEnds, TypeOK
  <2> QED
    BY <1>7, <2>1 DEF LogoutEnds, TypeOK
<1>8. ASSUME Quit PROVE TypeOK'
  BY <1>8 DEF Quit, TypeOK, Callbacks, NoCallback
<1> QED
  BY <1>1, <1>2, <1>3, <1>4, <1>5, <1>6, <1>7, <1>8 DEF Desktop

LEMMA StepTyped == ASSUME TypeOK, [Next]_vars PROVE TypeOK'
<1>1. ASSUME Tick PROVE TypeOK'
  BY <1>1, SignInAssumption DEF Tick, TypeOK, server, limits, sessions, desktop
<1>2. ASSUME Dispatch PROVE TypeOK'
  <2>1. ASSUME NEW c \in Codes, Invalidate(c) PROVE TypeOK'
    BY <2>1 DEF Invalidate, TypeOK, OtpRows, limits, sessions, desktop
  <2> QED
    BY <1>2, <2>1, IssueTyped DEF Dispatch, StartEmailLogin, StartAdminLogin, Purposes
<1>3. ASSUME UNCHANGED vars PROVE TypeOK'
  BY <1>3 DEF vars, TypeOK, server, limits, sessions, desktop
<1> QED
  BY <1>1, <1>2, <1>3, GuessTyped, SessionsTyped, DesktopTyped DEF Next

\* Every table and every file keeps its type, and no code takes more guesses than
\* allowed (app/src-tauri/src/account.rs, server/src/prismaStore/auth.ts).
THEOREM TypeCorrect == Spec => []TypeOK
<1> QED
  BY InitTyped, StepTyped, PTL DEF Spec

-----------------------------------------------------------------------------
(* Codes and tickets are used once.                                         *)

LEMMA SpentInit == ASSUME Init PROVE Spent
BY DEF Init, Spent, NoOtp, NoTicket

LEMMA SpentIssue ==
  ASSUME TypeOK, Spent, NEW p, NEW e, NEW s, NEW ip, NEW n, Issue(p, e, s, ip, n)
  PROVE  Spent'
<1>1. UNCHANGED <<opened, exchanged, ticket>> /\ issued' = issued + 1
  BY DEF Issue, sessions
<1>2. \A c \in Codes : otp'[c].live => otp[c].live \/ c = issued + 1
  BY DEF Issue, Supersedes, TypeOK, OtpRows
<1>3. \A c \in Codes : Issued(c) => Issued(c)'
  BY <1>1 DEF Issued, TypeOK
<1>4. \A c \in Codes : c = issued + 1 => Issued(c)' /\ ~Issued(c)
  BY <1>1, SignInAssumption DEF Issued, TypeOK, Codes
<1> QED
  BY <1>1, <1>2, <1>3, <1>4 DEF Spent

LEMMA SpentVerify ==
  ASSUME TypeOK, Spent, NEW p, NEW form, NEW e, NEW s, NEW n, Verify(p, form, e, s, n)
  PROVE  Spent'
<1>1. PICK c \in Candidates(p, e, s, n) :
        /\ otp' = [otp EXCEPT ![c].attempts = @ + 1, ![c].live = FALSE]
        /\ Opens(c, form, n)
        /\ UNCHANGED <<clock, issued, limits, exchanged, desktop>>
  BY DEF Verify
<1>2. c \in Codes /\ otp[c].live /\ Issued(c)
  BY DEF Candidates, Usable, SameLogin
<1>3. \A d \in Codes : otp'[d].live => otp[d].live /\ d # c
  BY <1>1, <1>2 DEF TypeOK, OtpRows
<1>4. \A d \in Codes : d # c => opened'[d] = opened[d] /\ ticket'[d] = ticket[d]
  BY <1>1, <1>2 DEF Opens, TypeOK
<1>5. opened'[c] = 1 /\ opened[c] = 0 /\ exchanged[c] = 0
  BY <1>1, <1>2 DEF Opens, TypeOK, Spent
<1>6. exchanged' = exchanged /\ \A d : Issued(d)' = Issued(d)
  BY <1>1 DEF Issued
<1> QED
  BY <1>2, <1>3, <1>4, <1>5, <1>6 DEF Spent

LEMMA SpentExchange ==
  ASSUME TypeOK, Spent, NEW c \in Codes, ticket[c].status = "live", ExchangeTicket(c),
         UNCHANGED <<issued, otp, opened>>
  PROVE  Spent'
<1>1. \A d \in Codes : d # c => ticket'[d] = ticket[d] /\ exchanged'[d] = exchanged[d]
  BY DEF ExchangeTicket, TypeOK
<1>2. ticket'[c].status = "used" /\ exchanged'[c] = 1
  BY DEF ExchangeTicket, TypeOK, Tickets, Spent
<1>3. \A d : Issued(d)' = Issued(d)
  BY DEF Issued
<1>4. opened[c] # 0
  BY DEF Spent
<1> QED
  BY <1>1, <1>2, <1>3, <1>4 DEF Spent

LEMMA SpentStep == ASSUME TypeOK, Spent, [Next]_vars PROVE Spent'
<1>1. ASSUME \A c \in Codes : otp'[c].live => otp[c].live,
             UNCHANGED <<issued, ticket, opened, exchanged>>
      PROVE  Spent'
  BY <1>1 DEF Spent, Issued
<1>2. ASSUME Tick \/ UNCHANGED vars PROVE Spent'
  BY <1>1, <1>2 DEF Tick, vars, server, sessions
<1>3. ASSUME Dispatch PROVE Spent'
  <2>1. ASSUME NEW c \in Codes, Invalidate(c) PROVE Spent'
    BY <1>1, <2>1 DEF Invalidate, TypeOK, OtpRows, sessions
  <2> QED
    BY <1>3, <2>1, SpentIssue DEF Dispatch, StartEmailLogin, StartAdminLogin
<1>4. ASSUME Guess PROVE Spent'
  <2>1. ASSUME NEW p, NEW e, NEW s, NEW n, GuessWrong(p, e, s, n) PROVE Spent'
    <3>1. \A c \in Codes : otp'[c].live => otp[c].live
      BY <2>1 DEF GuessWrong, TypeOK, OtpRows
    <3> QED
      BY <1>1, <2>1, <3>1 DEF GuessWrong, sessions
  <2> QED
    BY <1>4, <2>1, SpentVerify
    DEF Guess, VerifyDesktop, VerifyUser, VerifyDesktopAndWeb, VerifyAdmin
<1>5. ASSUME Sessions PROVE Spent'
  <2>1. ASSUME NEW c \in Codes, NEW s, NEW n, ElsewhereExchange(c, s, n) PROVE Spent'
    BY <2>1, SpentExchange DEF ElsewhereExchange, Accepted
  <2>2. ASSUME NEW c, NEW kind, Revoke(c, kind) PROVE Spent'
    BY <1>1, <2>2 DEF Revoke
  <2> QED
    BY <1>5, <2>1, <2>2 DEF Sessions, RevokeSession, RevokeUserSession, RevokeAdminSession
<1>6. ASSUME Desktop PROVE Spent'
  <2>1. ASSUME NEW n, Exchange(n) PROVE Spent'
    <3>1. callback.code \in Codes
      BY <2>1 DEF Exchange, TypeOK, Callbacks, NoCallback
    <3> QED
      BY <2>1, <3>1, SpentExchange DEF Exchange, Accepted
  <2>2. ASSUME UNCHANGED <<issued, otp, ticket, opened, exchanged>> PROVE Spent'
    BY <1>1, <2>2
  <2> QED
    BY <1>6, <2>1, <2>2 DEF Desktop, Begin, Callback, ExchangeFails, SaveSession, Logout,
                            LogoutEnds, Quit, server, sessions
<1> QED
  BY <1>2, <1>3, <1>4, <1>5, <1>6 DEF Next

LEMMA AlwaysSpent == Spec => []Spent
<1>1. Init => Spent
  BY SpentInit
<1>2. TypeOK /\ Spent /\ [Next]_vars => Spent'
  BY SpentStep
<1> QED
  BY <1>1, <1>2, TypeCorrect, PTL DEF Spec

\* Whatever forms and desktops race, a code opens one thing at most and its ticket
\* is exchanged once at most (server/src/prismaStore/{auth,userSession}.ts).
THEOREM CodesAreUsedOnce == Spec => []UsedOnce
<1>1. Spent => UsedOnce
  BY DEF Spent, UsedOnce
<1> QED
  BY <1>1, AlwaysSpent, PTL

-----------------------------------------------------------------------------
(* A newer code of the same login.                                          *)

\* Steps that issue no code keep each code's login and make no code live.
LEMMA LoginsKept ==
  ASSUME TypeOK, [Next]_vars
  PROVE  \/ \E p \in Purposes, e \in Emails, s \in States, ip \in Ips, n \in Nows :
               Issue(p, e, s, ip, n)
         \/ /\ issued' = issued
            /\ \A c \in Codes :
                  /\ otp'[c].purpose = otp[c].purpose /\ otp'[c].email = otp[c].email
                  /\ otp'[c].state = otp[c].state /\ otp'[c].at = otp[c].at
                  /\ otp'[c].live => otp[c].live
<1> DEFINE Kept == /\ issued' = issued
                   /\ \A c \in Codes :
                        /\ otp'[c].purpose = otp[c].purpose /\ otp'[c].email = otp[c].email
                        /\ otp'[c].state = otp[c].state /\ otp'[c].at = otp[c].at
                        /\ otp'[c].live => otp[c].live
<1>1. ASSUME UNCHANGED <<issued, otp>> PROVE Kept
  BY <1>1
<1>2. ASSUME Tick \/ Sessions \/ Desktop \/ UNCHANGED vars PROVE UNCHANGED <<issued, otp>>
  BY <1>2 DEF Tick, Sessions, Desktop, vars, server, ElsewhereExchange, Revoke, RevokeSession,
              RevokeUserSession, RevokeAdminSession, Begin, Callback, Exchange, ExchangeFails,
              SaveSession, Logout, LogoutEnds, Quit
<1>3. ASSUME NEW c \in Codes, Invalidate(c) PROVE Kept
  BY <1>3 DEF Invalidate, TypeOK, OtpRows
<1>4. ASSUME NEW p, NEW e, NEW s, NEW n, GuessWrong(p, e, s, n) PROVE Kept
  BY <1>4 DEF GuessWrong, TypeOK, OtpRows
<1>5. ASSUME NEW p, NEW form, NEW e, NEW s, NEW n, Verify(p, form, e, s, n) PROVE Kept
  BY <1>5 DEF Verify, TypeOK, OtpRows
<1>6. ASSUME Guess PROVE Kept
  BY <1>4, <1>5, <1>6
  DEF Guess, VerifyDesktop, VerifyUser, VerifyDesktopAndWeb, VerifyAdmin
<1>7. ASSUME Dispatch
      PROVE  Kept \/ \E p \in Purposes, e \in Emails, s \in States, ip \in Ips, n \in Nows :
                        Issue(p, e, s, ip, n)
  BY <1>3, <1>7 DEF Dispatch, StartEmailLogin, StartAdminLogin, Purposes
<1> QED
  BY <1>1, <1>2, <1>6, <1>7 DEF Next

\* What the codes are after one is issued.
LEMMA IssuedRows ==
  ASSUME TypeOK, NEW p, NEW e, NEW s, NEW ip, NEW n, Issue(p, e, s, ip, n)
  PROVE  /\ issued' = issued + 1 /\ issued + 1 \in Codes
         /\ otp'[issued + 1] = [purpose |-> p, email |-> e, state |-> s, at |-> n,
                                attempts |-> 0, live |-> TRUE]
         /\ \A c \in Codes : c # issued + 1 =>
              /\ otp'[c].purpose = otp[c].purpose /\ otp'[c].email = otp[c].email
              /\ otp'[c].state = otp[c].state /\ otp'[c].at = otp[c].at
              /\ otp'[c].live => otp[c].live /\ ~SameLogin(c, p, e, s)
<1>1. issued' = issued + 1 /\ issued + 1 \in Codes
  BY SignInAssumption DEF Issue, TypeOK, Codes
<1> QED
  BY <1>1 DEF Issue, Supersedes, TypeOK, OtpRows

LEMMA OutdatedStep == ASSUME TypeOK, Spent, Outdated, [Next]_vars PROVE Outdated'
<1>1. ASSUME NEW p, NEW e, NEW s, NEW ip, NEW n, Issue(p, e, s, ip, n) PROVE Outdated'
  <2> SUFFICES ASSUME NEW c \in Codes, NEW d \in Codes, d > c,
                      SameLogin(d, otp[c].purpose, otp[c].email, otp[c].state)',
                      otp'[c].live
               PROVE  FALSE
    BY DEF Outdated
  <2>0. issued' = issued + 1
        /\ otp'[issued + 1] = [purpose |-> p, email |-> e, state |-> s, at |-> n,
                               attempts |-> 0, live |-> TRUE]
    BY <1>1, IssuedRows
  <2>1. issued' = issued + 1 /\ issued \in Nat
    BY <2>0 DEF TypeOK
  <2>2. Issued(d)'
    BY DEF SameLogin
  <2>3. c # issued + 1 /\ Issued(c)
    BY <2>1, <2>2 DEF Issued, Codes
  <2>4. /\ otp'[c].purpose = otp[c].purpose /\ otp'[c].email = otp[c].email
        /\ otp'[c].state = otp[c].state
        /\ otp[c].live /\ ~SameLogin(c, p, e, s)
    BY <1>1, <2>3, IssuedRows
  <2>5. CASE d = issued + 1
    <3>1. otp[c].purpose = p /\ otp[c].email = e /\ otp[c].state = s
      BY <2>0, <2>4, <2>5 DEF SameLogin
    <3> QED
      BY <2>3, <2>4, <3>1 DEF SameLogin
  <2>6. CASE d # issued + 1
    <3>1. Issued(d)
      BY <2>1, <2>2, <2>6 DEF Issued, Codes
    <3>2. SameLogin(d, otp[c].purpose, otp[c].email, otp[c].state)
      BY <1>1, <2>4, <2>6, <3>1, IssuedRows DEF SameLogin
    <3> QED
      BY <2>4, <3>2 DEF Outdated
  <2> QED
    BY <2>5, <2>6
<1>2. ASSUME issued' = issued,
             \A c \in Codes :
                /\ otp'[c].purpose = otp[c].purpose /\ otp'[c].email = otp[c].email
                /\ otp'[c].state = otp[c].state
                /\ otp'[c].live => otp[c].live
      PROVE  Outdated'
  BY <1>2 DEF Outdated, SameLogin, Issued
<1> QED
  BY <1>1, <1>2, LoginsKept

\* Once a newer code of a login was issued no older one opens anything, whatever
\* their times are and whatever becomes of the newer one (prismaStore/auth.ts).
THEOREM NewerCodeSupersedes == Spec => SupersededIsDead
<1>1. Init => Outdated
  BY DEF Init, Outdated, NoOtp
<1>2. TypeOK /\ Spent /\ Outdated /\ [Next]_vars => Outdated'
  BY OutdatedStep
<1>3. ASSUME TypeOK, Outdated, [Next]_vars, NEW c \in Codes, opened'[c] # opened[c]
      PROVE  \A d \in Codes : d > c => ~SameLogin(d, otp[c].purpose, otp[c].email, otp[c].state)
  <2>1. ASSUME NEW p, NEW form, NEW e, NEW s, NEW n, Verify(p, form, e, s, n)
        PROVE  otp[c].live
    BY <1>3, <2>1 DEF Verify, Opens, Candidates, Usable, TypeOK
  <2>2. ASSUME NEW p, NEW e, NEW s, NEW n, GuessWrong(p, e, s, n) PROVE opened' = opened
    BY <2>2 DEF GuessWrong, sessions
  <2>3. ASSUME Guess PROVE otp[c].live
    BY <1>3, <2>1, <2>2, <2>3
    DEF Guess, VerifyDesktop, VerifyUser, VerifyDesktopAndWeb, VerifyAdmin
  <2>4. ASSUME Tick \/ Dispatch \/ Sessions \/ Desktop \/ UNCHANGED vars
        PROVE  opened' = opened
    BY <2>4 DEF Tick, Dispatch, Sessions, Desktop, vars, server, sessions, StartEmailLogin,
                StartAdminLogin, Issue, Invalidate, ElsewhereExchange, Revoke, RevokeSession,
                RevokeUserSession, RevokeAdminSession, Begin, Callback, Exchange,
                ExchangeFails, SaveSession, Logout, LogoutEnds, Quit
  <2> QED
    BY <1>3, <2>3, <2>4 DEF Next, Outdated
<1>4. TypeOK /\ Outdated /\ [Next]_vars =>
        [\A c \in Codes : opened'[c] # opened[c] =>
            \A d \in Codes : d > c =>
               ~SameLogin(d, otp[c].purpose, otp[c].email, otp[c].state)]_vars
  BY <1>3
<1> QED
  BY <1>1, <1>2, <1>4, AlwaysSpent, TypeCorrect, PTL DEF Spec, SupersededIsDead

-----------------------------------------------------------------------------
(* The session that the desktop keeps.                                      *)

\* Steps of the server and of the clock leave the desktop as it is, and the states
\* of the codes that were issued.
LEMMA StatesKept ==
  ASSUME TypeOK, [Next]_vars
  PROVE  \A c \in Codes : Issued(c) => Issued(c)' /\ otp'[c].state = otp[c].state
<1>1. ASSUME NEW p, NEW e, NEW s, NEW ip, NEW n, Issue(p, e, s, ip, n), NEW c \in Codes,
             Issued(c)
      PROVE  Issued(c)' /\ otp'[c].state = otp[c].state
  <2>1. issued' = issued + 1 /\ issued \in Nat
    BY <1>1 DEF Issue, TypeOK
  <2>2. c # issued + 1 /\ Issued(c)'
    BY <1>1, <2>1 DEF Issued, Codes
  <2> QED
    BY <1>1, <2>2, IssuedRows
<1>2. ASSUME issued' = issued, \A c \in Codes : otp'[c].state = otp[c].state,
             NEW c \in Codes, Issued(c)
      PROVE  Issued(c)' /\ otp'[c].state = otp[c].state
  BY <1>2 DEF Issued
<1> QED
  BY <1>1, <1>2, LoginsKept

LEMMA OwnStep == ASSUME TypeOK, Spent, Own, [Next]_vars PROVE Own'
<1> DEFINE Found == \A c \in Codes : Issued(c) => Issued(c)' /\ otp'[c].state = otp[c].state
<1>a. Found
  BY StatesKept
<1>b. /\ callback.at # "idle" => callback.code \in Codes
      /\ file # 0 => file \in Codes
  BY DEF TypeOK, Callbacks, NoCallback
<1>1. ASSUME UNCHANGED desktop PROVE Own'
  BY <1>a, <1>b, <1>1 DEF desktop, Own
<1>2. ASSUME NEW s \in States, Begin(s) PROVE Own'
  BY <1>a, <1>b, <1>2 DEF Begin, Own
<1>3. ASSUME NEW c \in Codes, NEW s \in States, Callback(c, s) PROVE Own'
  <2>1. Issued(c)
    BY <1>3 DEF Callback, Spent
  <2> QED
    BY <1>3, <2>1, StatesKept DEF Callback, Own, TypeOK, server
<1>4. ASSUME NEW n, Exchange(n) PROVE Own'
  <2>1. /\ callback.code \in Codes /\ Issued(callback.code)
        /\ otp[callback.code].state = callback.state
        /\ callback.state \in begun
    BY <1>4 DEF Exchange, Accepted, Own, TypeOK, Callbacks, NoCallback
  <2>2. \/ /\ callback'.code = callback.code /\ callback'.state = callback.state
        \/ callback'.at = "idle"
    BY <1>4 DEF Exchange, TypeOK, Callbacks, NoCallback
  <2> QED
    BY <1>4, <2>1, <2>2, StatesKept DEF Exchange, Own, TypeOK, Issued
<1>5. ASSUME ExchangeFails PROVE Own'
  BY <1>5, StatesKept DEF ExchangeFails, Own, TypeOK, NoCallback, server
<1>6. ASSUME SaveSession PROVE Own'
  <2>1. /\ callback.code \in Codes /\ Issued(callback.code)
        /\ otp[callback.code].state \in begun
    BY <1>6 DEF SaveSession, Own, TypeOK, Callbacks, NoCallback
  <2> QED
    BY <1>6, <2>1 DEF SaveSession, Own, NoCallback, server, Issued
<1>7. ASSUME Logout \/ LogoutEnds \/ Quit PROVE Own'
  BY <1>7 DEF Logout, LogoutEnds, Quit, Own, NoCallback, server, Issued
<1> QED
  BY <1>1, <1>2, <1>3, <1>4, <1>5, <1>6, <1>7
  DEF Next, Tick, Dispatch, Guess, Sessions, Desktop, vars, StartEmailLogin, StartAdminLogin,
      Issue, Invalidate, GuessWrong, Verify, VerifyDesktop, VerifyUser, VerifyDesktopAndWeb,
      VerifyAdmin, ElsewhereExchange, Revoke, RevokeSession, RevokeUserSession,
      RevokeAdminSession

\* Whatever link the system hands to the desktop, the session it keeps comes from a
\* code that was asked for with a state it had begun (account.rs).
THEOREM OwnSession == Spec => []SessionIsOwn
<1>1. Init => Own
  BY DEF Init, Own, NoCallback
<1>2. TypeOK /\ Spent /\ Own /\ [Next]_vars => Own'
  BY OwnStep
<1>3. Own => SessionIsOwn
  BY DEF Own, SessionIsOwn
<1> QED
  BY <1>1, <1>2, <1>3, AlwaysSpent, TypeCorrect, PTL DEF Spec

-----------------------------------------------------------------------------
(* The mails of an hour.                                                    *)

LEMMA MailsFinite ==
  ASSUME NEW k, NEW w
  PROVE  IsFiniteSet(Mails(k, w)) /\ Cardinality(Mails(k, w)) \in Nat
<1>1. IsFiniteSet(Codes)
  BY FS_Interval, SignInAssumption DEF Codes
<1>2. IsFiniteSet(Mails(k, w))
  BY <1>1, FS_Subset DEF Mails
<1> QED
  BY <1>2, FS_CardinalityType

LEMMA MeteredInit == ASSUME Init PROVE Metered
<1>1. \A k, w : Mails(k, w) = {}
  BY DEF Init, Mails, Issued
<1>2. Cardinality({}) = 0
  BY FS_EmptySet
<1>3. \A k \in Keys : hourly[k].count = 0
  BY DEF Init, NoCounter, Scopes
<1>4. \A c \in Codes : ~Issued(c)
  BY DEF Init, Issued
<1>5. \A k, w : Cardinality(Mails(k, w)) = 0
  BY <1>1, <1>2
<1>6. \A k \in Keys : hourly[k].window = -1
  BY DEF Init, NoCounter, Scopes
<1> QED
  BY <1>3, <1>4, <1>5, <1>6, SignInAssumption DEF Metered, MeteredAt

\* Metered speaks of what a code was mailed for, and when, alone.
LEMMA MeteredKept ==
  ASSUME Metered, UNCHANGED limits, issued' = issued,
         \A c \in Codes : otp'[c].purpose = otp[c].purpose /\ otp'[c].email = otp[c].email
                            /\ otp'[c].at = otp[c].at
  PROVE  Metered'
<1>1. \A c : Issued(c)' = Issued(c)
  BY DEF Issued
<1>2. \A k, w : Mails(k, w)' = Mails(k, w)
  BY <1>1 DEF Mails, Window
<1> QED
  BY <1>1, <1>2 DEF Metered, MeteredAt, limits, Window

LEMMA MeteredIssue ==
  ASSUME TypeOK, Metered, NEW p \in Purposes, NEW e \in Emails, NEW s, NEW ip \in Ips,
         NEW n \in Nows, Issue(p, e, s, ip, n)
  PROVE  Metered'
<1> DEFINE k == <<p, e>>
           new == issued + 1
           W == Window(n)
<1>1. /\ issued' = new /\ new \in Codes
      /\ otp'[new].purpose = p /\ otp'[new].email = e /\ otp'[new].at = n
      /\ \A c \in Codes : c # new =>
            /\ otp'[c].purpose = otp[c].purpose /\ otp'[c].email = otp[c].email
            /\ otp'[c].at = otp[c].at
  <2>1. /\ issued' = issued + 1 /\ issued + 1 \in Codes
        /\ otp'[issued + 1] = [purpose |-> p, email |-> e, state |-> s, at |-> n,
                               attempts |-> 0, live |-> TRUE]
    BY IssuedRows
  <2>2. \A c \in Codes : c # issued + 1 =>
            /\ otp'[c].purpose = otp[c].purpose /\ otp'[c].email = otp[c].email
            /\ otp'[c].at = otp[c].at
    BY IssuedRows
  <2> QED
    BY <2>1, <2>2
<1>2. \A c \in Codes : Issued(c)' <=> Issued(c) \/ c = new
  BY <1>1 DEF Issued, TypeOK, Codes
<1>3. ~Issued(new) /\ issued \in Nat
  BY DEF Issued, TypeOK
<1>4. n \in Nat /\ W \in Nat /\ k \in Keys /\ k \in Scopes /\ Minute \in Nat
  BY NowsType, WindowType, SignInAssumption DEF Keys, Scopes
<1>5. Free(p, e, ip, n) /\ Charged(p, e, ip, n)
  BY DEF Issue
<1>6. \A c \in Codes : Issued(c) /\ <<otp[c].purpose, otp[c].email>> = k =>
         otp[c].at \in Nat /\ Window(otp[c].at) <= W
  <2> SUFFICES ASSUME NEW c \in Codes, Issued(c), <<otp[c].purpose, otp[c].email>> = k
               PROVE  otp[c].at \in Nat /\ Window(otp[c].at) <= W
    OBVIOUS
  <2>1. otp[c].at \in Nat
    BY DEF TypeOK, OtpRows
  <2>2. otp[c].at + Minute <= minute[k] /\ minute[k] <= n /\ minute[k] \in Nat
    BY <1>4, <1>5 DEF Metered, MeteredAt, Free, TypeOK
  <2>3. otp[c].at <= n
    BY <1>4, <2>1, <2>2
  <2> QED
    BY <1>4, <2>1, <2>3, WindowMonotone
<1>7. ASSUME NEW j \in Keys, j # k
      PROVE  /\ minute'[j] = minute[j] /\ hourly'[j] = hourly[j]
             /\ \A w : Mails(j, w)' = Mails(j, w)
  <2>1. j # <<p, ip>>
    BY SignInAssumption DEF Keys
  <2>2. minute'[j] = minute[j] /\ hourly'[j] = hourly[j]
    BY <1>5, <1>7, <2>1 DEF Charged, TypeOK, Scopes
  <2> QED
    BY <1>1, <1>2, <1>3, <1>7, <2>2 DEF Mails, Window
<1>8. \A w : Mails(k, w)' = Mails(k, w) \cup {c \in {new} : w = W}
  <2> SUFFICES ASSUME NEW w, NEW c
               PROVE  c \in Mails(k, w)' <=> c \in Mails(k, w) \cup {d \in {new} : w = W}
    OBVIOUS
  <2>1. CASE c = new
    BY <1>1, <1>2, <1>3, <2>1 DEF Mails, Window
  <2>2. CASE c # new
    BY <1>1, <1>2, <2>2 DEF Mails, Window
  <2> QED
    BY <2>1, <2>2
<1>9. new \notin Mails(k, W)
  BY <1>3 DEF Mails
<1>10. /\ minute'[k] = n + Minute
       /\ hourly'[k] = [window |-> W,
                        count |-> IF hourly[k].window = W THEN hourly[k].count + 1 ELSE 1]
  BY <1>4, <1>5 DEF Charged, TypeOK
<1>11. Cardinality(Mails(k, W)') = Cardinality(Mails(k, W)) + 1
  BY <1>8, <1>9, MailsFinite, FS_AddElement
<1>12. /\ Cardinality(Mails(k, W)') <= EmailPerHour
       /\ Cardinality(Mails(k, W)') <= hourly'[k].count
  <2>1. hourly[k] \in Counters /\ hourly[k].count \in Nat /\ EmailPerHour \in Nat \ {0}
    BY <1>4, SignInAssumption DEF TypeOK, Counters
  <2>2. CASE hourly[k].window = W
    <3>1. hourly[k].count < EmailPerHour /\ Cardinality(Mails(k, W)) <= hourly[k].count
      BY <1>4, <1>5, <2>2 DEF Free, Metered, MeteredAt
    <3> QED
      BY <1>10, <1>11, <2>1, <2>2, <3>1, MailsFinite
  <2>3. CASE hourly[k].window # W
    <3>1. Mails(k, W) = {}
      <4> SUFFICES ASSUME NEW c \in Mails(k, W) PROVE FALSE
        OBVIOUS
      <4>1. /\ c \in Codes /\ Issued(c) /\ <<otp[c].purpose, otp[c].email>> = k
            /\ Window(otp[c].at) = W
        BY DEF Mails
      <4>2. W <= hourly[k].window
        BY <1>4, <4>1 DEF Metered, MeteredAt
      <4>3. PICK m \in Nat : m + Minute = minute[k] /\ hourly[k].window = Window(m)
        BY <1>4, <4>2 DEF Metered, MeteredAt
      <4>4. m <= n
        BY <1>4, <1>5, <4>3 DEF Free
      <4>5. Window(m) <= W /\ Window(m) \in Nat
        BY <1>4, <4>4, WindowMonotone, WindowType
      <4> QED
        BY <1>4, <2>3, <4>2, <4>3, <4>5
    <3> QED
      BY <1>10, <1>11, <2>1, <2>3, <3>1, FS_EmptySet
  <2> QED
    BY <2>2, <2>3
<1>13. ASSUME NEW w \in Int, w # W PROVE Mails(k, w)' = Mails(k, w)
  BY <1>8, <1>13
<1>14. ASSUME NEW c \in Codes, Issued(c)', <<otp'[c].purpose, otp'[c].email>> = k
       PROVE  otp'[c].at + Minute <= minute'[k] /\ Window(otp'[c].at) <= hourly'[k].window
  <2>1. CASE c = new
    BY <1>1, <1>4, <1>10, <2>1
  <2>2. CASE c # new
    <3>1. /\ Issued(c) /\ <<otp[c].purpose, otp[c].email>> = k /\ otp'[c].at = otp[c].at
      BY <1>1, <1>2, <1>14, <2>2
    <3>2. otp[c].at \in Nat /\ Window(otp[c].at) <= W
      BY <1>6, <3>1
    <3>3. otp[c].at + Minute <= minute[k] /\ minute[k] <= n /\ minute[k] \in Nat
      BY <1>4, <1>5, <3>1 DEF Metered, MeteredAt, Free, TypeOK
    <3> QED
      BY <1>4, <1>10, <3>1, <3>2, <3>3
  <2> QED
    BY <2>1, <2>2
<1>15. \A w \in Int : Cardinality(Mails(k, w)') <= EmailPerHour
  BY <1>4, <1>12, <1>13 DEF Metered, MeteredAt
<1>16. Mails(k, hourly[k].window)' = Mails(k, W)'
  BY <1>10 DEF Mails
<1>17. \E m \in Nat : m + Minute = minute'[k] /\ hourly'[k].window = Window(m)
  BY <1>4, <1>10
<1>18. MeteredAt(k)'
  BY <1>10, <1>12, <1>14, <1>15, <1>16, <1>17 DEF MeteredAt, Window
<1>19. ASSUME NEW j \in Keys, j # k PROVE MeteredAt(j)'
  <2>1. ASSUME NEW c \in Codes, Issued(c)', <<otp'[c].purpose, otp'[c].email>> = j
        PROVE  /\ Issued(c) /\ <<otp[c].purpose, otp[c].email>> = j /\ otp'[c].at = otp[c].at
    BY <1>1, <1>2, <1>19, <2>1
  <2>2. /\ minute'[j] = minute[j] /\ hourly'[j] = hourly[j]
        /\ \A w : Mails(j, w)' = Mails(j, w)
    BY <1>7, <1>19
  <2>3. Mails(j, hourly[j].window)' = Mails(j, hourly[j].window)
    <3>1. \A w : w = hourly'[j].window => Mails(j, hourly[j].window)' = Mails(j, w)'
      BY DEF Mails
    <3> QED
      BY <2>2, <3>1
  <2>4. MeteredAt(j)
    BY DEF Metered
  <2> QED
    BY <2>1, <2>2, <2>3, <2>4 DEF MeteredAt, Window
<1> QED
  BY <1>18, <1>19 DEF Metered

LEMMA MeteredStep == ASSUME TypeOK, Metered, [Next]_vars PROVE Metered'
<1>1. ASSUME UNCHANGED limits, issued' = issued,
             \A c \in Codes : otp'[c].purpose = otp[c].purpose /\ otp'[c].email = otp[c].email
                                /\ otp'[c].at = otp[c].at
      PROVE  Metered'
  BY <1>1, MeteredKept
<1>2. CASE Tick \/ Sessions \/ Desktop \/ UNCHANGED vars
  <2>1. UNCHANGED <<limits, issued, otp>>
    BY <1>2 DEF Tick, Sessions, Desktop, vars, server, ElsewhereExchange, Revoke,
                RevokeSession, RevokeUserSession, RevokeAdminSession, Begin, Callback,
                Exchange, ExchangeFails, SaveSession, Logout, LogoutEnds, Quit
  <2> QED
    BY <1>1, <2>1
<1>3. ASSUME Dispatch PROVE Metered'
  <2>1. ASSUME NEW c \in Codes, Invalidate(c) PROVE Metered'
    BY <1>1, <2>1 DEF Invalidate, TypeOK, OtpRows
  <2> QED
    BY <1>3, <2>1, MeteredIssue DEF Dispatch, StartEmailLogin, StartAdminLogin, Purposes
<1>4. ASSUME Guess PROVE Metered'
  <2>1. ASSUME NEW p, NEW e, NEW s, NEW n, GuessWrong(p, e, s, n) PROVE Metered'
    BY <1>1, <2>1 DEF GuessWrong, TypeOK, OtpRows
  <2>2. ASSUME NEW p, NEW form, NEW e, NEW s, NEW n, Verify(p, form, e, s, n) PROVE Metered'
    BY <1>1, <2>2 DEF Verify, TypeOK, OtpRows
  <2> QED
    BY <1>4, <2>1, <2>2
    DEF Guess, VerifyDesktop, VerifyUser, VerifyDesktopAndWeb, VerifyAdmin
<1> QED
  BY <1>2, <1>3, <1>4 DEF Next

\* However the mails of two hours overtake each other, an address gets no more than
\* its number in an hour (prismaStore/rateLimits.ts).
THEOREM FewMailsPerHour == Spec => []MailsPerHour
<1>1. Metered => MailsPerHour
  <2> SUFFICES ASSUME Metered, NEW k \in Keys, NEW w \in 0..Horizon
               PROVE  Cardinality(Mails(k, w)) <= EmailPerHour
    BY DEF MailsPerHour, Mails
  <2>1. w \in Int
    BY SignInAssumption
  <2> QED
    BY <2>1 DEF Metered, MeteredAt
<1>2. TypeOK /\ Metered /\ [Next]_vars => Metered'
  BY MeteredStep
<1>3. Init => Metered
  BY MeteredInit
<1> QED
  BY <1>1, <1>2, <1>3, TypeCorrect, PTL DEF Spec
===============================================================================

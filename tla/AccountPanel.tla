----------------------------- MODULE AccountPanel -----------------------------
(***************************************************************************)
(* The account panel (app/src/features/account/useAccountController.ts,    *)
(* accountState.ts, the buttons of AccountSheet.tsx).  Each button, a link *)
(* from the browser and a refresh start a call of the desktop process; the *)
(* newest of the first kind is the active operation, and answers of the    *)
(* others, and of a refresh that was overtaken, are dropped.               *)
(***************************************************************************)
EXTENDS Integers, FiniteSets

CONSTANTS
  Slots,      \* the calls that may be in flight at the same time
  None,
  MaxChanges  \* bound on the changes of the account at the desktop process

VARIABLES
  desk,       \* the account as the desktop process and the server have it
  account,    \* AccountStatus as it is shown
  pending,    \* activeOperationPendingRef: the active operation's call
  call,       \* the calls in flight
  loading,    \* accountLoading
  redeeming,  \* activationRedeeming
  request     \* activationCodeRequest.status

vars == <<desk, account, pending, call, loading, redeeming, request>>

\* A status with how many changes of the account it comes after.
Statuses == [signedIn : BOOLEAN, active : BOOLEAN, after : Nat]
Guest(n) == [signedIn |-> FALSE, active |-> FALSE, after |-> n]

Active == {"callback", "login", "redeem", "request", "logout"}
Calls == [kind : Active \cup {"refresh"}, at : {"sent", "failed", "answered", "refresh", "refreshed"},
          newest : BOOLEAN, got : Statuses]

TypeOK ==
  /\ desk \in Statuses /\ account \in Statuses
  /\ pending \in DOMAIN call \cup {None}
  /\ DOMAIN call \subseteq Slots /\ call \in [DOMAIN call -> Calls]
  /\ loading \in BOOLEAN /\ redeeming \in BOOLEAN
  /\ request \in {"idle", "pending", "success", "error"}

Init ==
  /\ desk \in {Guest(0), [Guest(0) EXCEPT !.signedIn = TRUE]}
  /\ account = Guest(0)
  /\ pending = None
  /\ call = [i \in {} |-> None]
  /\ loading = FALSE /\ redeeming = FALSE
  /\ request = "idle"

-----------------------------------------------------------------------------
\* refreshRequestIdRef is counted up: no refresh in flight is the newest.
Overtaken == [i \in DOMAIN call |-> [call[i] EXCEPT !.newest = FALSE]]

With(calls, i, c) ==
  [j \in DOMAIN calls \cup {i} |-> IF j = i THEN c ELSE calls[j]]

Without(i) == [j \in DOMAIN call \ {i} |-> call[j]]

Free(i) == i \in Slots \ DOMAIN call

\* runAccountStatusRefresh of no operation: not while one is active.
Refresh(i) ==
  /\ Free(i) /\ pending = None
  /\ call' = With(Overtaken, i, [kind |-> "refresh", at |-> "sent", newest |-> TRUE,
                                 got |-> account])
  /\ loading' = TRUE
  /\ UNCHANGED <<desk, account, pending, redeeming, request>>

\* Fault: a refresh in flight is still the newest.
beginActiveOperationOnly(i, kind) ==
  /\ call' = With(call, i, [kind |-> kind, at |-> "sent", newest |-> FALSE, got |-> account])
  /\ pending' = i

beginActiveOperation(i, kind) ==
  /\ call' = With(Overtaken, i, [kind |-> kind, at |-> "sent", newest |-> FALSE,
                                 got |-> account])
  /\ pending' = i

\* The buttons that AccountSheet enables; a link may come at any time.
Offered(kind) ==
  CASE kind = "callback" -> TRUE
    [] kind = "login"    -> ~account.signedIn /\ ~loading
    [] kind = "redeem"   -> account.signedIn /\ ~account.active /\ ~redeeming
    [] kind = "request"  -> account.signedIn /\ ~account.active /\ request \in {"idle", "error"}
    [] kind = "logout"   -> account.signedIn /\ ~loading

\* handleAuthCallback, startLoginFlow, redeemActivationCodeFromInput,
\* requestActivationCodeByEmail and signOutAccount, to their first await.
Starts(i, kind) ==
  /\ Free(i) /\ Offered(kind)
  /\ beginActiveOperation(i, kind)
  /\ redeeming' = (kind = "redeem")
  /\ loading' = CASE kind = "redeem" -> FALSE
                  [] kind = "request" -> loading
                  [] OTHER -> TRUE
  /\ request' = IF kind = "request" THEN "pending" ELSE request
  /\ UNCHANGED <<desk, account>>

\* commitActivationCodeRequestState's timeout: the server's retry time has come.
CooledDown ==
  /\ request \in {"success", "error"}
  /\ request' = "idle"
  /\ UNCHANGED <<desk, account, pending, call, loading, redeeming>>

-----------------------------------------------------------------------------
\* The desktop process does what it was asked for, or fails.
Effect(kind) ==
  CASE kind = "callback" -> {[desk EXCEPT !.signedIn = TRUE, !.after = @ + 1],
                             [signedIn |-> TRUE, active |-> TRUE, after |-> desk.after + 1]}
    [] kind = "redeem" -> IF desk.signedIn
                          THEN {[desk EXCEPT !.active = TRUE, !.after = @ + 1]} ELSE {}
    [] kind = "logout" -> {Guest(desk.after + 1)}
    [] OTHER -> {desk}

Done(i) ==
  /\ call[i].at \in {"sent", "refresh"} /\ desk.after < MaxChanges
  /\ desk' \in IF call[i].at = "refresh" THEN {desk} ELSE Effect(call[i].kind)
  /\ call' = [call EXCEPT ![i].got = desk',
                          ![i].at = IF call[i].at = "refresh" THEN "refreshed" ELSE "answered"]
  /\ UNCHANGED <<account, pending, loading, redeeming, request>>

Failed(i) ==
  /\ call[i].at \in {"sent", "refresh"}
  /\ call' = [call EXCEPT ![i].got = Guest(desk.after),
                          ![i].at = IF call[i].at = "refresh" THEN "refreshed" ELSE "failed"]
  /\ UNCHANGED <<desk, account, pending, loading, redeeming, request>>

\* The status of a refresh, a failure being a guest's: canCommit.
RefreshAnswer(i) ==
  /\ call[i].kind = "refresh" /\ call[i].at \in {"answered", "failed"}
  /\ call' = Without(i)
  /\ IF call[i].newest /\ pending = None
     THEN account' = call[i].got /\ loading' = FALSE
     ELSE UNCHANGED <<account, loading>>
  /\ UNCHANGED <<desk, pending, redeeming, request>>

\* Fault: the active operation is not let go of.
FinishesPending(i) ==
  /\ call' = Without(i)
  /\ pending' = pending
  /\ loading' = IF pending = i /\ call[i].kind \in {"callback", "login", "logout"}
                THEN FALSE ELSE loading
  /\ redeeming' = IF pending = i /\ call[i].kind = "redeem" THEN FALSE ELSE redeeming

\* finishActiveOperation: only the active operation ends what it has shown.
Finishes(i) ==
  /\ call' = Without(i)
  /\ pending' = IF pending = i THEN None ELSE pending
  /\ loading' = IF pending = i /\ call[i].kind \in {"callback", "login", "logout"}
                THEN FALSE ELSE loading
  /\ redeeming' = IF pending = i /\ call[i].kind = "redeem" THEN FALSE ELSE redeeming

Refuses(i) ==
  /\ call[i].kind \in Active /\ call[i].at = "failed"
  /\ Finishes(i)
  /\ request' = IF call[i].kind = "request" /\ pending = i THEN "error" ELSE request
  /\ UNCHANGED <<desk, account>>

\* A login or a redemption or a sign-out has succeeded.
Succeeds(i) ==
  /\ call[i].kind \in {"login", "redeem", "logout"} /\ call[i].at = "answered"
  /\ Finishes(i)
  /\ account' = IF pending = i /\ call[i].kind # "login" THEN call[i].got ELSE account
  /\ UNCHANGED <<desk, request>>

\* After a callback or a request the status is read again, if still active.
ReadsAgain(i) ==
  /\ call[i].kind \in {"callback", "request"} /\ call[i].at = "answered"
  /\ IF pending = i
     THEN /\ call' = With(Overtaken, i, [call[i] EXCEPT !.at = "refresh", !.newest = TRUE])
          /\ loading' = TRUE
          /\ request' = IF call[i].kind = "request" THEN "success" ELSE request
          /\ UNCHANGED <<pending, redeeming>>
     ELSE Finishes(i) /\ UNCHANGED request
  /\ UNCHANGED <<desk, account>>

ReadAgain(i) ==
  /\ call[i].at = "refreshed"
  /\ call' = Without(i)
  /\ IF pending = i
     THEN /\ pending' = None
          /\ account' = IF call[i].newest THEN call[i].got ELSE account
          /\ loading' = IF call[i].newest \/ call[i].kind = "callback" THEN FALSE ELSE loading
     ELSE UNCHANGED <<pending, account, loading>>
  /\ UNCHANGED <<desk, redeeming, request>>

-----------------------------------------------------------------------------
Next ==
  \/ \E i \in Slots : Refresh(i) \/ \E kind \in Active : Starts(i, kind)
  \/ CooledDown
  \/ \E i \in DOMAIN call : \/ Done(i) \/ Failed(i)
                            \/ RefreshAnswer(i) \/ Refuses(i) \/ Succeeds(i)
                            \/ ReadsAgain(i) \/ ReadAgain(i)

Spec == Init /\ [][Next]_vars

\* The account shown never goes back to a status from before a change that it
\* already shows, in whatever order operations, links and refreshes answer.
NoOlderStatus == [][account'.after >= account.after]_vars
===============================================================================

---------------------------- MODULE AccountStore ----------------------------
(***************************************************************************)
(* The server's accounts: entitlements with their AI credits, activation   *)
(* codes, orders and payment notifications (server/src/prismaStore).       *)
(*                                                                         *)
(* A Store operation is one database transaction, retried on a conflict,   *)
(* and so one action.  What is not atomic is around it.  Every operation   *)
(* works with a time its caller read before the transaction began, at most *)
(* Latency ago.  A request for a self-service code is three transactions   *)
(* and a mail, all with the time the first one was called with, and the    *)
(* server may stop between any two of them.  The payment provider repeats, *)
(* delays and reorders its notifications.                                  *)
(*                                                                         *)
(* The session of a caller is checked before anything is changed, so a     *)
(* call without one is no step; nor is a call that is refused or reused.   *)
(***************************************************************************)
EXTENDS Integers, FiniteSets

CONSTANTS
  Users, Codes, RequestIds, Orders, Events, Transactions,
  Calls,          \* the requests for a self-service code that run at once
  None,
  PassDays,       \* what a code or an order adds to an entitlement
  RedeemDays,     \* how long a code can be redeemed, at most
  Minute,         \* the time between two mails to one user
  Credits,        \* what a redeemed code grants (SELF_SERVICE_LLM_QUOTA)
  QuotaAdds,      \* what an administrator may add at once
  Revokes,        \* may an administrator set an expiry that has passed
  Latency,        \* how long a call may take
  Horizon,        \* bound on the clock
  MaxExpires,     \* bound on an expiry
  MaxLimit        \* bound on a credit limit

ASSUME TimeAssumption ==
  /\ PassDays \in Nat \ {0} /\ RedeemDays \in Nat \ {0} /\ Minute \in Nat \ {0}
  /\ Latency \in Nat /\ Horizon \in Nat \ {0}
  /\ MaxExpires \in Nat /\ MaxLimit \in Nat
  /\ Revokes \in BOOLEAN

ASSUME CreditAssumption == Credits \in Nat /\ QuotaAdds \subseteq Nat

ASSUME NoneAssumption ==
  None \notin Users \cup Codes \cup Orders \cup Transactions \cup {"admin", "self_service_email"}

VARIABLES
  clock,
  entitlement,    \* the row of a user; row is FALSE while there is none
  charged,        \* the request identifiers in a user's LlmUsageEvents
  code,           \* the activation codes
  nextAllowed,    \* the email_minute row of a user in AuthRateLimit
  order, event,   \* the orders and the WebhookEvents
  call,           \* the calls of requestCode
  mailed,         \* the codes that a mailbox has received
  granted,        \* history: the credits ever handed out to a user
  passes          \* history: how often an order extended an entitlement

accounts == <<entitlement, charged, granted>>
codes == <<code, nextAllowed, call, mailed>>
billing == <<order, event, passes>>
vars == <<clock, accounts, codes, billing>>

Entitlements == [row : BOOLEAN, expires : Nat, limit : Nat, used : Nat]

Statuses == {"unissued", "pending_delivery", "active", "redeemed", "disabled", "expired"}

CodeRows ==
  [status : Statuses, source : {None, "admin", "self_service_email"},
   owner : Users \cup {None}, redeemBy : Nat, created : Nat,
   redeemer : Users \cup {None}, redeemedAt : Nat]

OrderRows ==
  [status : {"none", "pending", "paid"}, user : Users \cup {None},
   transaction : Transactions \cup {None}, paidAt : Nat]

EventRows == [order : Orders \cup {None}, transaction : Transactions \cup {None}]

CallStates ==
  [at : {"idle", "mail", "disable", "enable"}, user : Users \cup {None},
   code : Codes \cup {None}, now : Nat]

NoRow == [row |-> FALSE, expires |-> 0, limit |-> 0, used |-> 0]
Unissued ==
  [status |-> "unissued", source |-> None, owner |-> None, redeemBy |-> 0,
   created |-> 0, redeemer |-> None, redeemedAt |-> 0]
NoOrder == [status |-> "none", user |-> None, transaction |-> None, paidAt |-> 0]
NoEvent == [order |-> None, transaction |-> None]
Idle == [at |-> "idle", user |-> None, code |-> None, now |-> 0]
-----------------------------------------------------------------------------
\* Orders and events that versions without a transaction left behind: their
\* settlement may have stopped after the event or before the entitlement, and
\* the payload of an event may not name the transaction.
LegacyOrders ==
  [status : {"pending"}, user : Users, transaction : {None}, paidAt : {0}]
  \cup [status : {"paid"}, user : Users, transaction : Transactions, paidAt : {1}]

LegacyBilling(orders, events) ==
  \A e \in Events : events[e] # NoEvent =>
    /\ events[e].order # None /\ orders[events[e].order].status # "none"
    /\ orders[events[e].order].status = "paid" =>
         events[e].transaction \in {None, orders[events[e].order].transaction}

Init ==
  /\ clock = 1
  /\ entitlement = [u \in Users |-> NoRow]
  /\ charged = [u \in Users |-> {}]
  /\ code = [c \in Codes |-> Unissued]
  /\ nextAllowed = [u \in Users |-> 0]
  /\ order \in [Orders -> {NoOrder} \cup LegacyOrders]
  /\ event \in [Events -> EventRows]
  /\ LegacyBilling(order, event)
  /\ call = [k \in Calls |-> Idle]
  /\ mailed = {}
  /\ granted = [u \in Users |-> 0]
  /\ passes = [o \in Orders |-> 0]

\* The times that a transaction may have been called with.
Nows == {n \in 1..clock : clock - n <= Latency}

ActiveAt(u, n) == entitlement[u].expires > n

Latest(x, y) == IF x > y THEN x ELSE y

Tick ==
  /\ clock < Horizon
  /\ \A k \in Calls : call[k].at # "idle" => clock - call[k].now < Latency
  /\ clock' = clock + 1
  /\ UNCHANGED <<accounts, codes, billing>>
-----------------------------------------------------------------------------
(* Codes *)

OfUser(c, u, status) ==
  /\ code[c].source = "self_service_email"
  /\ code[c].owner = u
  /\ code[c].status = status

IssueAdminCode(c, n, days) ==
  /\ code[c].status = "unissued"
  /\ code' = [code EXCEPT ![c] =
       [Unissued EXCEPT !.status = "active", !.source = "admin",
                        !.redeemBy = n + days, !.created = n]]
  /\ UNCHANGED <<clock, nextAllowed, call, mailed, accounts, billing>>

\* A pending code of the user that the new one puts out of use.
Superseded(c, n) ==
  [code[c] EXCEPT !.status = IF code[c].redeemBy <= n THEN "expired" ELSE "disabled"]

\* The minute since the last mail is over; a fault: every request is let in.
\* (The hourly limits of the mail address and of the caller's address only
\* refuse more.)
EveryRequest(u, n) == TRUE

MayMail(u, n) == nextAllowed[u] <= n

Prepare(k, u, c, n) ==
  /\ call[k].at = "idle"
  /\ code[c].status = "unissued"
  /\ ~ActiveAt(u, n)
  /\ MayMail(u, n)
  /\ nextAllowed' = [nextAllowed EXCEPT ![u] = n + Minute]
  /\ code' = [d \in Codes |->
       IF d = c
       THEN [Unissued EXCEPT !.status = "pending_delivery",
               !.source = "self_service_email", !.owner = u,
               !.redeemBy = n + RedeemDays, !.created = n]
       ELSE IF OfUser(d, u, "pending_delivery") THEN Superseded(d, n) ELSE code[d]]
  /\ call' = [call EXCEPT ![k] = [at |-> "mail", user |-> u, code |-> c, now |-> n]]
  /\ UNCHANGED <<clock, mailed, accounts, billing>>

MailAccepted(k) ==
  /\ call[k].at = "mail"
  /\ mailed' = mailed \cup {call[k].code}
  /\ call' = [call EXCEPT ![k].at = "enable"]
  /\ UNCHANGED <<clock, code, nextAllowed, accounts, billing>>

\* The sender reports an error; the mail may have gone out all the same.
MailFails(k) ==
  /\ call[k].at = "mail"
  /\ mailed' \in {mailed, mailed \cup {call[k].code}}
  /\ call' = [call EXCEPT ![k].at = "disable"]
  /\ UNCHANGED <<clock, code, nextAllowed, accounts, billing>>

DisablePrepared(k) ==
  LET c == call[k].code IN
  /\ call[k].at = "disable"
  /\ code' = [code EXCEPT ![c].status = IF @ = "pending_delivery" THEN "disabled" ELSE @]
  /\ call' = [call EXCEPT ![k] = Idle]
  /\ UNCHANGED <<clock, nextAllowed, mailed, accounts, billing>>

\* An active code of the user that is not older than c.
Competing(c) ==
  \E d \in Codes \ {c} : OfUser(d, code[c].owner, "active") /\ code[d].created >= code[c].created

\* The user got an entitlement while the mail was under way; a fault: the
\* check of the request's beginning is relied on.
NotRechecked(c, n) == FALSE

BecameActive(c, n) == ActiveAt(code[c].owner, n)

\* What becomes of code d when c, requested at n, is enabled; a fault: the
\* other codes of the user are left alone.
EnabledBeside(c, d, n) ==
  IF d = c THEN [code[c] EXCEPT !.status = "active"] ELSE code[d]

Enabled(c, d, n) ==
  IF d = c
  THEN [code[c] EXCEPT !.status = IF code[c].redeemBy > n THEN "active" ELSE @]
  ELSE IF OfUser(d, code[c].owner, "active")
       THEN [code[d] EXCEPT !.status = "disabled"]
       ELSE code[d]

ActivatePrepared(k) ==
  LET c == call[k].code
      n == call[k].now
  IN
  /\ call[k].at = "enable"
  /\ code' = CASE code[c].status # "pending_delivery" -> code
               [] code[c].status = "pending_delivery" /\ BecameActive(c, n) ->
                    [code EXCEPT ![c].status = "disabled"]
               [] code[c].status = "pending_delivery" /\ ~BecameActive(c, n)
                    /\ Competing(c) -> code
               [] OTHER -> [d \in Codes |-> Enabled(c, d, n)]
  /\ call' = [call EXCEPT ![k] = Idle]
  /\ UNCHANGED <<clock, nextAllowed, mailed, accounts, billing>>

\* The database stays busy, or the transaction fails: nothing is written.
StoreUnavailable(k) ==
  /\ call[k].at \in {"disable", "enable"}
  /\ call' = [call EXCEPT ![k] = Idle]
  /\ UNCHANGED <<clock, code, nextAllowed, mailed, accounts, billing>>

\* The server stops; the calls are gone, the database stays.
Crash ==
  /\ \E k \in Calls : call[k].at # "idle"
  /\ call' = [k \in Calls |-> Idle]
  /\ UNCHANGED <<clock, code, nextAllowed, mailed, accounts, billing>>
-----------------------------------------------------------------------------
(* Redemption *)

\* A fault: a code whose mail is still under way is good as well.
RedeemableUnsent(c, n) ==
  code[c].status \in {"active", "pending_delivery"} /\ code[c].redeemBy > n

Redeemable(c, n) == code[c].status = "active" /\ code[c].redeemBy > n

MarkRedeemed(c, u, n) ==
  code' = [code EXCEPT ![c].status = "redeemed", ![c].redeemer = u, ![c].redeemedAt = n]

\* A redemption that comes too late fails, and marks the code.
RedeemTooLate(c, n) ==
  /\ code[c].status = "active"
  /\ code[c].redeemBy <= n
  /\ code' = [code EXCEPT ![c].status = "expired"]
  /\ UNCHANGED <<clock, nextAllowed, call, mailed, accounts, billing>>

RedeemSelfService(u, c, n) ==
  /\ code[c].source = "self_service_email"
  /\ Redeemable(c, n)
  /\ code[c].owner = u
  /\ ~ActiveAt(u, n)
  /\ MarkRedeemed(c, u, n)
  /\ entitlement' = [entitlement EXCEPT ![u] =
       [row |-> TRUE, expires |-> n + PassDays, limit |-> Credits, used |-> 0]]
  /\ granted' = [granted EXCEPT ![u] = @ + Credits]
  /\ UNCHANGED <<clock, charged, nextAllowed, call, mailed, billing>>

\* A fault: credits are stacked on an entitlement that has ended.
StackedAnyway(u, n) ==
  [row |-> TRUE, expires |-> Latest(entitlement[u].expires, n) + PassDays,
   limit |-> entitlement[u].limit + Credits,
   used |-> IF ActiveAt(u, n) THEN entitlement[u].used ELSE 0]

\* On top of an active entitlement, in place of one that has ended.
Stacked(u, n) ==
  LET e == entitlement[u] IN
  IF ActiveAt(u, n)
  THEN [row |-> TRUE, expires |-> e.expires + PassDays,
        limit |-> e.limit + Credits, used |-> e.used]
  ELSE [row |-> TRUE, expires |-> n + PassDays, limit |-> Credits, used |-> 0]

RedeemAdmin(u, c, n) ==
  /\ code[c].source = "admin"
  /\ Redeemable(c, n)
  /\ MarkRedeemed(c, u, n)
  /\ entitlement' = [entitlement EXCEPT ![u] = Stacked(u, n)]
  /\ granted' = [granted EXCEPT ![u] = @ + Credits]
  /\ entitlement'[u].expires <= MaxExpires /\ entitlement'[u].limit <= MaxLimit
  /\ UNCHANGED <<clock, charged, nextAllowed, call, mailed, billing>>
-----------------------------------------------------------------------------
(* Credits and adjustments *)

\* The request was charged before, and the call returns "reused"; a fault: the
\* event of an earlier call is not looked up.
NeverReused(u, r) == FALSE

Reused(u, r) == r \in charged[u]

\* A fault: the limit is compared too late.
OneTooMany(u) == entitlement[u].used <= entitlement[u].limit

CreditLeft(u) == entitlement[u].used < entitlement[u].limit

ConsumeLlmQuota(u, r, n) ==
  /\ ActiveAt(u, n)
  /\ ~Reused(u, r)
  /\ CreditLeft(u)
  /\ entitlement' = [entitlement EXCEPT ![u].used = @ + 1]
  /\ charged' = [charged EXCEPT ![u] = @ \cup {r}]
  /\ UNCHANGED <<clock, granted, codes, billing>>

Adjusted(u, until, extra) ==
  /\ until <= MaxExpires
  /\ entitlement[u].limit + extra <= MaxLimit
  /\ entitlement' = [entitlement EXCEPT
       ![u].row = TRUE, ![u].expires = until, ![u].limit = @ + extra]
  /\ granted' = [granted EXCEPT ![u] = @ + extra]
  /\ UNCHANGED <<clock, charged, codes, billing>>

AdjustDays(u, days, extra, n) ==
  Adjusted(u, Latest(entitlement[u].expires, n) + days, extra)

AdjustExpiry(u, until, extra) ==
  /\ Revokes \/ until > clock
  /\ Adjusted(u, until, extra)

AdjustQuota(u, extra) ==
  /\ entitlement[u].row
  /\ Adjusted(u, entitlement[u].expires, extra)
-----------------------------------------------------------------------------
(* Orders *)

CreateOrder(u, o) ==
  /\ order[o].status = "none"
  /\ order' = [order EXCEPT ![o] = [NoOrder EXCEPT !.status = "pending", !.user = u]]
  /\ UNCHANGED <<clock, event, passes, accounts, codes>>

\* An event is bound to the order and the transaction it was recorded with.
Matches(e, o, t) ==
  event[e] \in {NoEvent, [order |-> o, transaction |-> t]}

RecordEvent(e, o, t) ==
  event' = [event EXCEPT ![e] = [order |-> o, transaction |-> t]]

\* A fault: the pass runs from the payment, whatever the user has.
PassFromPayment(u, paidAt) == paidAt + PassDays

PassExpires(u, paidAt) == Latest(entitlement[u].expires, paidAt) + PassDays

ExtendMonthlyPass(u, o, paidAt) ==
  /\ entitlement' = [entitlement EXCEPT
       ![u].row = TRUE, ![u].expires = PassExpires(u, paidAt)]
  /\ entitlement'[u].expires <= MaxExpires
  /\ passes' = [passes EXCEPT ![o] = @ + 1]

\* The order was paid and its entitlement is missing; a fault: a replay of the
\* transaction is taken for its payment.
PaidAgain(o, t) == order[o].transaction = t

Incomplete(o, t) == order[o].transaction = t /\ ~entitlement[order[o].user].row

\* A notification of an order that is paid: it is recorded, and it repairs an
\* order whose entitlement is missing if its event was known before.
SettleAgain(e, o, t) ==
  LET u == order[o].user IN
  /\ order[o].status = "paid"
  /\ event[e] # NoEvent \/ entitlement[u].row
  /\ RecordEvent(e, o, t)
  /\ IF Incomplete(o, t)
     THEN ExtendMonthlyPass(u, o, order[o].paidAt)
     ELSE UNCHANGED <<entitlement, passes>>
  /\ UNCHANGED order

SettleFirst(e, o, t, paidAt) ==
  /\ order[o].status = "pending"
  /\ RecordEvent(e, o, t)
  /\ order' = [order EXCEPT ![o].status = "paid", ![o].transaction = t, ![o].paidAt = paidAt]
  /\ ExtendMonthlyPass(order[o].user, o, paidAt)

SettlePaidOrder(e, o, t, paidAt) ==
  /\ Matches(e, o, t)
  /\ SettleAgain(e, o, t) \/ SettleFirst(e, o, t, paidAt)
  /\ UNCHANGED <<clock, charged, granted, codes>>
-----------------------------------------------------------------------------
CodeStep ==
  \/ \E k \in Calls, u \in Users, c \in Codes, n \in Nows : Prepare(k, u, c, n)
  \/ \E k \in Calls : MailAccepted(k) \/ MailFails(k) \/ DisablePrepared(k)
                      \/ ActivatePrepared(k) \/ StoreUnavailable(k)
  \/ Crash
  \/ \E c \in Codes, n \in Nows, days \in 1..RedeemDays : IssueAdminCode(c, n, days)
  \/ \E c \in Codes, n \in Nows : RedeemTooLate(c, n)

AccountStep ==
  \E u \in Users :
    \/ \E c \in Codes, n \in Nows : RedeemSelfService(u, c, n) \/ RedeemAdmin(u, c, n)
    \/ \E r \in RequestIds, n \in Nows : ConsumeLlmQuota(u, r, n)
    \/ \E extra \in QuotaAdds \cup {0} :
         \/ \E n \in Nows : AdjustDays(u, PassDays, extra, n)
         \/ \E until \in 1..MaxExpires : AdjustExpiry(u, until, extra)
    \/ \E extra \in QuotaAdds : AdjustQuota(u, extra)

BillingStep ==
  \/ \E u \in Users, o \in Orders : CreateOrder(u, o)
  \/ \E e \in Events, o \in Orders, t \in Transactions, paidAt \in 1..clock :
       SettlePaidOrder(e, o, t, paidAt)

Next == Tick \/ CodeStep \/ AccountStep \/ BillingStep

Spec == Init /\ [][Next]_vars
-----------------------------------------------------------------------------
(* Properties *)

\* Every row has the shape of its table, a used credit is one of the limit's
\* and a paid order names its transaction, after any mix of operations.
TypeOK ==
  /\ clock \in Nat
  /\ entitlement \in [Users -> Entitlements]
  /\ \A u \in Users : entitlement[u].used <= entitlement[u].limit
  /\ charged \in [Users -> SUBSET RequestIds]
  /\ granted \in [Users -> Nat]
  /\ code \in [Codes -> CodeRows]
  /\ nextAllowed \in [Users -> Nat]
  /\ call \in [Calls -> CallStates]
  /\ mailed \subseteq Codes
  /\ order \in [Orders -> OrderRows]
  /\ \A o \in Orders : order[o].status = "paid" => order[o].transaction # None
  /\ event \in [Events -> EventRows]
  /\ passes \in [Orders -> Nat]

\* A user has at most one self-service code that can be redeemed, however the
\* requests overlap.  The database has a unique index for it, which the model
\* has not: activatePreparedSelfServiceActivationCode never runs into it.
OneActiveCode ==
  \A u \in Users : \A c, d \in Codes :
    OfUser(c, u, "active") /\ OfUser(d, u, "active") => c = d

\* While a code waits for its mail every active code of the user is an older
\* one, although the requests read their times before their transactions are
\* ordered: a request that the mail server accepted is refused for a newer
\* code only if that code's own request has put it out of use.
PendingIsNewest ==
  \A u \in Users : \A c, d \in Codes :
    OfUser(c, u, "pending_delivery") /\ OfUser(d, u, "active")
      => code[d].created < code[c].created

\* A code whose request began before a redemption of the same user cannot be
\* redeemed after it: a race of an old code with the enabling of a new one
\* opens one entitlement window, in any order, with any crash between.
NoSpareCode ==
  \A u \in Users : \A c, d \in Codes :
    OfUser(c, u, "active") /\ OfUser(d, u, "redeemed")
      => code[d].redeemedAt < code[c].created

\* A self-service code is redeemed only by its owner and only after the mail
\* server took the mail with it.
RedeemedWasMailed ==
  \A c \in Codes :
    code[c].status = "redeemed" /\ code[c].source = "self_service_email"
      => c \in mailed /\ code[c].redeemer = code[c].owner

\* The charges of a user and the credits that are left never exceed what was
\* handed out, whatever windows were opened, stacked or replaced on the way.
CreditsCovered ==
  \A u \in Users :
    Cardinality(charged[u]) + entitlement[u].limit - entitlement[u].used <= granted[u]

\* An order extends the entitlement of its user at most once, with repeated,
\* reordered and mismatched notifications and with the repair of old rows.
SettledOnce ==
  \A o \in Orders :
    /\ passes[o] <= 1
    /\ passes[o] = 1 => order[o].status = "paid" /\ entitlement[order[o].user].row

\* No operation shortens an entitlement, late payments and calls with an old
\* time included, except an administrator who sets an earlier expiry.
Shortens(u) ==
  \E extra \in QuotaAdds \cup {0}, until \in 1..MaxExpires : AdjustExpiry(u, until, extra)

ExpiryOnlyGrows ==
  [][\A u \in Users :
       entitlement'[u].expires >= entitlement[u].expires \/ Shortens(u)]_vars

\* The entitlement rows and usage events implement a ledger in which a request
\* identifier is spent at most once and for exactly one credit.
Ledger == INSTANCE CreditLedger WITH
  Amounts <- {Credits} \cup QuotaAdds,
  balance <- [u \in Users |-> entitlement[u].limit - entitlement[u].used],
  spent <- charged

RefinesCreditLedger == Ledger!Spec
=============================================================================

---------------------------- MODULE MemoryAccounts ----------------------------
(***************************************************************************)
(* Entitlements, activation codes and orders in the store in memory        *)
(* (server/src/store/memory), which has to keep the promises of the one    *)
(* with a database (AccountStore): an operation is a few writes with other *)
(* callbacks in between, and any of them may throw.  Calls that are        *)
(* refused before they write anything are no steps.                        *)
(***************************************************************************)
EXTENDS Integers, Sequences, FiniteSets

CONSTANTS
  None,
  Users, Codes, Orders, Events, Transactions, Requests,
  Credits,     \* what an activation grants
  PassDays,    \* what an activation or an order adds
  MaxDays,     \* bound on the clock
  MaxAccountCalls  \* bound on the calls

VARIABLES
  ledger,     \* the tables
  ongoing,    \* the operation that runs
  today,
  accountCalls

vars == <<ledger, ongoing, today, accountCalls>>

Atomic == INSTANCE MemoryAtomic WITH tables <- ledger, running <- ongoing

EntitlementRecord ==
  [expiresAt : Nat, llmQuotaLimit : Nat, llmQuotaUsed : Nat,
   grants : Seq(Codes \cup Orders), adjusted : Nat]

ActivationCodeRecord ==
  [status : {"pending_delivery", "active", "redeemed", "expired", "disabled"},
   issuanceSource : {"admin", "self_service_email"}, issuedToUserId : Users \cup {None},
   redeemBy : Nat, redeemedByUserId : Users \cup {None}]

\* old: the order was paid under a version that wrote order, event and entitlement one by one.
OrderRecord ==
  [userId : Users, status : {"pending", "paid"}, transactionId : Transactions \cup {None},
   paidAt : Nat \cup {None}, old : BOOLEAN]

WebhookEventRecord == [outTradeNo : Orders, transactionId : Transactions]

\* Of a table of records there is one per user, code, order or event, or none yet.
Tables ==
  [entitlement : [Users -> EntitlementRecord \cup {None}],
   code : [Codes -> ActivationCodeRecord \cup {None}], order : [Orders -> OrderRecord \cup {None}],
   event : [Events -> WebhookEventRecord \cup {None}], usage : SUBSET (Users \X Requests),
   nextAllowed : [Users -> Nat], session : SUBSET Users, audits : [Users -> Nat]]

\* The writes that may follow the first of an operation.
Writes ==
  [write : {"upsertEntitlement"}, user : Users, row : EntitlementRecord]
  \cup [write : {"markActivationCodeRedeemed"}, code : Codes, user : Users]
  \cup [write : {"createActivationCode"}, code : Codes, row : ActivationCodeRecord]
  \cup [write : {"createAdminEntitlementAdjustment"}, user : Users]
  \cup [write : {"createWebhookEvent"}, event : Events, row : WebhookEventRecord]
  \cup [write : {"markOrderPaid"}, order : Orders, transaction : Transactions, at : Nat]

Operations == [snapshot : Tables, todo : Seq(Writes)]

TypeOK ==
  /\ ledger \in Tables
  /\ ongoing \in Operations \cup {None} /\ (ongoing # None => ongoing.todo # <<>>)
  /\ today \in 0..MaxDays /\ accountCalls \in 0..MaxAccountCalls

\* Which order, user, transaction and event is left makes no difference.
Old == [userId |-> CHOOSE u \in Users : TRUE, status |-> "paid",
        transactionId |-> CHOOSE t \in Transactions : TRUE, paidAt |-> 0, old |-> TRUE]

Init ==
  /\ LET o == CHOOSE p \in Orders : TRUE
         e == CHOOSE f \in Events : TRUE
     IN \E left \in {"nothing", "order", "order and event"} :
       ledger =
         [entitlement |-> [u \in Users |-> None], code |-> [c \in Codes |-> None],
          order |-> [p \in Orders |-> IF left # "nothing" /\ p = o THEN Old ELSE None],
          event |-> [f \in Events |->
            IF left = "order and event" /\ f = e
            THEN [outTradeNo |-> o, transactionId |-> Old.transactionId] ELSE None],
          usage |-> {}, nextAllowed |-> [u \in Users |-> 0], session |-> Users,
          audits |-> [u \in Users |-> 0]]
  /\ ongoing = None /\ today = 0 /\ accountCalls = 0

Called ==
  /\ accountCalls < MaxAccountCalls /\ accountCalls' = accountCalls + 1 /\ UNCHANGED today

NextDay ==
  /\ today < MaxDays /\ today' = today + 1 /\ UNCHANGED <<ledger, ongoing, accountCalls>>

\* An operation, and a write that no operation waits for.
run(written, todo) == Called /\ Atomic!run(written, todo)
Unserialised(written) == Called /\ Atomic!Unserialised(written)

-----------------------------------------------------------------------------
(* entitlements.ts. *)

isActiveEntitlementAt(u) ==
  ledger.entitlement[u] # None /\ ledger.entitlement[u].expiresAt > today

NoEntitlement ==
  [expiresAt |-> 0, llmQuotaLimit |-> 0, llmQuotaUsed |-> 0, grants |-> <<>>, adjusted |-> 0]

getEntitlement(u) ==
  IF ledger.entitlement[u] = None THEN NoEntitlement ELSE ledger.entitlement[u]

\* What the following writes of an operation do to the tables.
upsertEntitlement(u, row) == [write |-> "upsertEntitlement", user |-> u, row |-> row]
markActivationCodeRedeemed(c, u) == [write |-> "markActivationCodeRedeemed", code |-> c, user |-> u]
createActivationCode(c, row) == [write |-> "createActivationCode", code |-> c, row |-> row]
createAdminEntitlementAdjustment(u) == [write |-> "createAdminEntitlementAdjustment", user |-> u]
createWebhookEvent(e, row) == [write |-> "createWebhookEvent", event |-> e, row |-> row]
markOrderPaid(o, t) == [write |-> "markOrderPaid", order |-> o, transaction |-> t, at |-> today]

Written(w) ==
  CASE w.write = "upsertEntitlement" -> [ledger EXCEPT !.entitlement[w.user] = w.row]
    [] w.write = "markActivationCodeRedeemed" ->
         [ledger EXCEPT !.code[w.code].status = "redeemed", !.code[w.code].redeemedByUserId = w.user]
    [] w.write = "createActivationCode" -> [ledger EXCEPT !.code[w.code] = w.row]
    [] w.write = "createAdminEntitlementAdjustment" -> [ledger EXCEPT !.audits[w.user] = @ + 1]
    [] w.write = "createWebhookEvent" -> [ledger EXCEPT !.event[w.event] = w.row]
    [] OTHER -> [ledger EXCEPT !.order[w.order].status = "paid",
                   !.order[w.order].transactionId = w.transaction, !.order[w.order].paidAt = w.at]

Goes == /\ ongoing # None /\ Atomic!WritesNext(Written(Atomic!NextWrite))
        /\ UNCHANGED <<today, accountCalls>>
Fails == Atomic!Throws /\ UNCHANGED <<today, accountCalls>>

consumeLlmQuota(u, r) ==
  LET e == getEntitlement(u) IN
  /\ isActiveEntitlementAt(u) /\ <<u, r>> \notin ledger.usage
  /\ e.llmQuotaUsed < e.llmQuotaLimit
  /\ run([ledger EXCEPT !.entitlement[u].llmQuotaUsed = @ + 1, !.usage = @ \cup {<<u, r>>}], <<>>)

\* Until when, and with which credits, something granted now counts.
Base(u) == IF isActiveEntitlementAt(u) THEN ledger.entitlement[u].expiresAt ELSE today

Stacked(u, c) ==
  LET e == getEntitlement(u)
      active == isActiveEntitlementAt(u)
  IN [e EXCEPT !.expiresAt = Base(u) + PassDays,
        !.llmQuotaLimit = IF active THEN @ + Credits ELSE Credits,
        !.llmQuotaUsed = IF active THEN @ ELSE 0, !.grants = Append(@, c)]

expireActivationCodeIfNeeded(c) ==
  ledger.code[c].status \in {"pending_delivery", "active"} /\ ledger.code[c].redeemBy <= today

redeemActivationCodeAndGrantEntitlement(u, c) ==
  LET code == ledger.code[c]
      redeem(row) == run(ledger, <<markActivationCodeRedeemed(c, u), upsertEntitlement(u, row)>>)
  IN
  /\ u \in ledger.session /\ code # None
  /\ \/ /\ expireActivationCodeIfNeeded(c)
        /\ run([ledger EXCEPT !.code[c].status = "expired"], <<>>)
     \/ /\ ~expireActivationCodeIfNeeded(c) /\ code.status = "active"
        /\ \/ /\ code.issuanceSource = "self_service_email" /\ code.issuedToUserId = u
              /\ ~isActiveEntitlementAt(u)
              /\ redeem([getEntitlement(u) EXCEPT !.expiresAt = today + PassDays,
                           !.llmQuotaLimit = Credits, !.llmQuotaUsed = 0, !.grants = Append(@, c)])
           \/ code.issuanceSource = "admin" /\ redeem(Stacked(u, c))

\* The expiry is extended, set or kept, and there has to be one.
applyEntitlementAdjustmentWithAudit(u, expiresAt, quotaAdd) ==
  LET e == getEntitlement(u) IN
  /\ expiresAt # 0 /\ (expiresAt # e.expiresAt \/ quotaAdd # 0)
  /\ run(ledger, <<upsertEntitlement(u, [e EXCEPT !.expiresAt = expiresAt,
                                          !.llmQuotaLimit = @ + quotaAdd, !.adjusted = @ + 1]),
                   createAdminEntitlementAdjustment(u)>>)

-----------------------------------------------------------------------------
(* selfServiceActivation.ts. *)

CodeOf(u, source, status) ==
  [status |-> status, issuanceSource |-> source, issuedToUserId |-> u,
   redeemBy |-> today + 1, redeemedByUserId |-> None]

OfUser(d, u, status) ==
  /\ ledger.code[d] # None /\ ledger.code[d].issuanceSource = "self_service_email"
  /\ ledger.code[d].issuedToUserId = u /\ ledger.code[d].status = status

\* One mail a day; a code that waits for its mail is put out of use by the next one.
prepareSelfServiceActivationCode(u, c) ==
  /\ u \in ledger.session /\ ~isActiveEntitlementAt(u)
  /\ ledger.nextAllowed[u] <= today /\ ledger.code[c] = None
  /\ run([ledger EXCEPT !.nextAllowed[u] = today + 1,
            !.code = [d \in Codes |->
              IF ~OfUser(d, u, "pending_delivery") THEN @[d]
              ELSE [@[d] EXCEPT !.status = IF ledger.code[d].redeemBy <= today
                                           THEN "expired" ELSE "disabled"]]],
         <<createActivationCode(c, CodeOf(u, "self_service_email", "pending_delivery"))>>)

disablePreparedSelfServiceActivationCode(c) ==
  /\ ledger.code[c] # None /\ ledger.code[c].status = "pending_delivery"
  /\ run([ledger EXCEPT !.code[c].status = "disabled"], <<>>)

activatePreparedSelfServiceActivationCode(c) ==
  LET u == ledger.code[c].issuedToUserId IN
  /\ ledger.code[c] # None /\ ledger.code[c].status = "pending_delivery"
  /\ run([ledger EXCEPT !.code =
            CASE ledger.code[c].redeemBy <= today -> [@ EXCEPT ![c].status = "expired"]
              [] ledger.code[c].redeemBy > today /\ isActiveEntitlementAt(u) ->
                   [@ EXCEPT ![c].status = "disabled"]
              [] OTHER -> [d \in Codes |->
                   CASE d = c -> [@[d] EXCEPT !.status = "active"]
                     [] OfUser(d, u, "active") -> [@[d] EXCEPT !.status = "disabled"]
                     [] OTHER -> @[d]]], <<>>)

-----------------------------------------------------------------------------
(* billing.ts: an event is bound to the order and the transaction it came with. *)

extendMonthlyPass(u, o, paidAt) ==
  LET e == getEntitlement(u) IN
  upsertEntitlement(u, [e EXCEPT !.grants = Append(@, o),
    !.expiresAt = (IF ledger.entitlement[u] # None /\ @ > paidAt THEN @ ELSE paidAt) + PassDays])

settlePaidOrder(e, o, t) ==
  LET order == ledger.order[o]
      event == [outTradeNo |-> o, transactionId |-> t]
      recorded == IF ledger.event[e] = None THEN <<createWebhookEvent(e, event)>> ELSE <<>>
  IN
  /\ ledger.event[e] \in {None, event} /\ order # None
  /\ \/ /\ order.status = "paid" /\ order.transactionId = t
        /\ \/ ledger.entitlement[order.userId] # None /\ run(ledger, recorded)
           \/ /\ ledger.entitlement[order.userId] = None /\ ledger.event[e] # None
              /\ run(ledger, <<extendMonthlyPass(order.userId, o, order.paidAt)>>)
     \/ /\ order.status = "pending"
        /\ run(ledger, recorded \o <<markOrderPaid(o, t), extendMonthlyPass(order.userId, o, today)>>)

-----------------------------------------------------------------------------
(* What does not wait for an operation. *)

createOrder(u, o) ==
  /\ u \in ledger.session /\ ledger.order[o] = None
  /\ Unserialised([ledger EXCEPT !.order[o] =
       [userId |-> u, status |-> "pending", transactionId |-> None, paidAt |-> None, old |-> FALSE]])

issueAdminCode(c) ==
  /\ ledger.code[c] = None
  /\ Unserialised(Written(createActivationCode(c, CodeOf(None, "admin", "active"))))

revokeSession(u) ==
  u \in ledger.session /\ Unserialised([ledger EXCEPT !.session = @ \ {u}])

BillingOperations ==
  \/ \E u \in Users, o \in Orders : createOrder(u, o)
  \/ \E e \in Events, o \in Orders, t \in Transactions : settlePaidOrder(e, o, t)

CodeOperations ==
  \E c \in Codes :
    \/ disablePreparedSelfServiceActivationCode(c) \/ activatePreparedSelfServiceActivationCode(c)
    \/ issueAdminCode(c)
    \/ \E u \in Users : redeemActivationCodeAndGrantEntitlement(u, c)
                        \/ prepareSelfServiceActivationCode(u, c)

EntitlementOperations ==
  \E u \in Users :
    \/ \E r \in Requests : consumeLlmQuota(u, r)
    \/ \E quotaAdd \in {0, 1}, expiresAt \in {Base(u) + 1, today + 1, getEntitlement(u).expiresAt} :
         applyEntitlementAdjustmentWithAudit(u, expiresAt, quotaAdd)

Next ==
  \/ NextDay \/ Goes \/ Fails
  \/ BillingOperations \/ CodeOperations \/ EntitlementOperations
  \/ \E u \in Users : revokeSession(u)

Spec == Init /\ [][Next]_vars

-----------------------------------------------------------------------------
Granted(u) == {getEntitlement(u).grants[i] : i \in DOMAIN getEntitlement(u).grants}

\* When no operation runs none is half done: a code is redeemed and an order paid for
\* whoever got the entitlement, once, and every adjustment has its audit record.
AccountOperationsAreWhole ==
  ongoing = None =>
    /\ \A u \in Users : LET e == getEntitlement(u) IN
         /\ Cardinality(Granted(u)) = Len(e.grants) /\ e.adjusted = ledger.audits[u]
         /\ \A c \in Codes : c \in Granted(u) <=>
              ledger.code[c] # None /\ ledger.code[c].redeemedByUserId = u
         /\ \A o \in Orders :
              /\ o \in Granted(u) =>
                   /\ ledger.order[o].userId = u /\ ledger.order[o].status = "paid"
                   /\ \E f \in Events : ledger.event[f] = [outTradeNo |-> o,
                                          transactionId |-> ledger.order[o].transactionId]
              /\ ledger.order[o] # None /\ ledger.order[o].userId = u /\ ~ledger.order[o].old
                 /\ ledger.order[o].status = "paid" => o \in Granted(u)

\* A user has at most one self-service code that can be redeemed, and uses no more
\* credits than there are.
AccountLimitsHold ==
  \A u \in Users :
    /\ Cardinality({c \in Codes : OfUser(c, u, "active")}) <= 1
    /\ getEntitlement(u).llmQuotaUsed <= getEntitlement(u).llmQuotaLimit
=============================================================================

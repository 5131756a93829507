------------------------- MODULE AccountStoreProofs -------------------------
(***************************************************************************)
(* Proofs about AccountStore, for any sets of users, codes, requests,      *)
(* orders and events and any values of its times and bounds.               *)
(*                                                                         *)
(* Linked says what the identifiers that the rows hold refer to; with      *)
(* TypeOK it is inductive and everything else rests on the two.  The codes *)
(* need Queued: a user has one pending code, and the minute of a user's    *)
(* last mail covers every code.  NoSpareCode needs Followed too: a         *)
(* redemption happened before the end of the entitlement it opened, as     *)
(* long as an administrator sets no expiry that has passed.  That a        *)
(* redeemed code was mailed needs it of every active code.                 *)
(***************************************************************************)
EXTENDS AccountStore, FiniteSetTheorems, TLAPS

\* The calls, codes and orders refer to rows that exist and agree with them.
Linked ==
  /\ \A k \in Calls : call[k].at # "idle" =>
       LET c == call[k].code IN
       /\ c \in Codes
       /\ call[k].user \in Users
       /\ code[c].source = "self_service_email"
       /\ code[c].owner = call[k].user
       /\ code[c].created = call[k].now
       /\ code[c].status # "unissued"
  /\ \A c \in Codes :
       /\ code[c].source = "self_service_email" => code[c].owner \in Users
       /\ code[c].status = "unissued" => code[c].source = None
  /\ \A o \in Orders : order[o].status # "none" => order[o].user \in Users

Queued ==
  \A u \in Users :
    /\ \A c, d \in Codes :
         OfUser(c, u, "pending_delivery") /\ OfUser(d, u, "pending_delivery") => c = d
    /\ \A c \in Codes :
         code[c].source = "self_service_email" /\ code[c].owner = u
           => code[c].created + Minute <= nextAllowed[u]

Followed ==
  \A u \in Users : \A d \in Codes : OfUser(d, u, "redeemed") =>
    /\ code[d].redeemedAt <= clock
    /\ code[d].redeemedAt < entitlement[u].expires

CodeInv == OneActiveCode /\ PendingIsNewest /\ Queued
-----------------------------------------------------------------------------
(* Types and links *)

LEMMA NowsType == ASSUME TypeOK PROVE \A n \in Nows : n \in Nat /\ n <= clock
BY DEF Nows, TypeOK

\* A row of which only the status changes.
Restate(c, s) == [code[c] EXCEPT !.status = s]

LEMMA Restated ==
  ASSUME code \in [Codes -> CodeRows], NEW c \in Codes, NEW s \in Statuses
  PROVE  LET q == Restate(c, s) IN
         /\ q \in CodeRows
         /\ q.status = s /\ q.source = code[c].source /\ q.owner = code[c].owner
         /\ q.redeemBy = code[c].redeemBy /\ q.created = code[c].created
         /\ q.redeemer = code[c].redeemer /\ q.redeemedAt = code[c].redeemedAt
BY DEF CodeRows, Restate

\* The rows of a code that an administrator or a request issues.
AdminRow(n, days) ==
  [Unissued EXCEPT !.status = "active", !.source = "admin",
                   !.redeemBy = n + days, !.created = n]

PendingRow(u, n) ==
  [Unissued EXCEPT !.status = "pending_delivery", !.source = "self_service_email",
                   !.owner = u, !.redeemBy = n + RedeemDays, !.created = n]

LEMMA AdminRowType ==
  ASSUME NEW n \in Nat, NEW days \in 1..RedeemDays
  PROVE  /\ AdminRow(n, days) \in CodeRows
         /\ AdminRow(n, days).source = "admin" /\ AdminRow(n, days).status = "active"
<1>1. n + days \in Nat
  BY TimeAssumption
<1> QED
  BY <1>1 DEF CodeRows, Statuses, Unissued, AdminRow

LEMMA PendingRowType ==
  ASSUME NEW u \in Users, NEW n \in Nat
  PROVE  /\ PendingRow(u, n) \in CodeRows
         /\ PendingRow(u, n).source = "self_service_email"
         /\ PendingRow(u, n).status = "pending_delivery"
         /\ PendingRow(u, n).owner = u /\ PendingRow(u, n).created = n
<1>1. n + RedeemDays \in Nat
  BY TimeAssumption
<1> QED
  BY <1>1 DEF CodeRows, Statuses, Unissued, PendingRow

\* A step that changes only the status of codes, and no code from or to unissued.
StatusOnly ==
  \A c \in Codes :
    /\ code'[c].source = code[c].source /\ code'[c].owner = code[c].owner
    /\ code'[c].created = code[c].created
    /\ code'[c].redeemedAt = code[c].redeemedAt
    /\ code'[c].redeemer = code[c].redeemer
    /\ code'[c].status = "unissued" <=> code[c].status = "unissued"

LEMMA InitTyped == ASSUME Init PROVE TypeOK /\ Linked
<1> USE TimeAssumption, CreditAssumption, NoneAssumption
    DEF Init, NoRow, Unissued, NoOrder, NoEvent, Idle
<1>1. order \in [Orders -> OrderRows]
  BY DEF LegacyOrders, OrderRows
<1>2. \A o \in Orders : order[o].status = "paid" => order[o].transaction # None
  BY DEF LegacyOrders
<1>3. code \in [Codes -> CodeRows] /\ call \in [Calls -> CallStates]
  BY DEF CodeRows, Statuses, CallStates
<1>4. entitlement \in [Users -> Entitlements]
  BY DEF Entitlements
<1>5. TypeOK
  BY <1>1, <1>2, <1>3, <1>4 DEF TypeOK, EventRows
<1>6. \A o \in Orders : order[o].status # "none" => order[o].user \in Users
  BY DEF LegacyOrders
<1> QED
  BY <1>5, <1>6 DEF Linked

\* A step that only advances or ends calls.
LEMMA CodeStepTyped ==
  ASSUME TypeOK, Linked, CodeStep
  PROVE  TypeOK' /\ Linked'
<1> USE DEF accounts, billing
<1> "active" \in Statuses /\ "disabled" \in Statuses /\ "expired" \in Statuses
  BY DEF Statuses
<1> code \in [Codes -> CodeRows]
  BY DEF TypeOK
<1>1. ASSUME NEW k \in Calls, NEW u \in Users, NEW c \in Codes, NEW n \in Nows,
             Prepare(k, u, c, n)
      PROVE  TypeOK' /\ Linked'
  <2>1. n \in Nat
    BY NowsType
  <2>2. code' \in [Codes -> CodeRows]
    <3>1. \A d \in Codes : Superseded(d, n) \in CodeRows
      BY Restated DEF Superseded, Restate
    <3>2. PendingRow(u, n) \in CodeRows
      BY <2>1, PendingRowType
    <3> QED
      BY <1>1, <3>1, <3>2 DEF Prepare, PendingRow
  <2>3. call' \in [Calls -> CallStates]
    BY <1>1, <2>1 DEF Prepare, TypeOK, CallStates
  <2>4. TypeOK'
    BY <1>1, <2>1, <2>2, <2>3, TimeAssumption DEF Prepare, TypeOK
  <2>5. \A j \in Calls : call'[j].at # "idle" =>
          LET d == call'[j].code IN
          /\ d \in Codes
          /\ call'[j].user \in Users
          /\ code'[d].source = "self_service_email"
          /\ code'[d].owner = call'[j].user
          /\ code'[d].created = call'[j].now
          /\ code'[d].status # "unissued"
    <3> SUFFICES ASSUME NEW j \in Calls, call'[j].at # "idle"
                 PROVE  LET d == call'[j].code IN
                        /\ d \in Codes
                        /\ call'[j].user \in Users
                        /\ code'[d].source = "self_service_email"
                        /\ code'[d].owner = call'[j].user
                        /\ code'[d].created = call'[j].now
                        /\ code'[d].status # "unissued"
      OBVIOUS
    <3>1. CASE j = k
      BY <1>1, <3>1 DEF Prepare, TypeOK, Unissued
    <3>2. CASE j # k
      BY <1>1, <3>2 DEF Prepare, TypeOK, Linked, Unissued, OfUser, Superseded, CodeRows
    <3> QED
      BY <3>1, <3>2
  <2>6. \A d \in Codes :
          /\ code'[d].source = "self_service_email" => code'[d].owner \in Users
          /\ code'[d].status = "unissued" => code'[d].source = None
    BY <1>1 DEF Prepare, TypeOK, Linked, Unissued, OfUser, Superseded, CodeRows
  <2> QED
    BY <1>1, <2>4, <2>5, <2>6 DEF Prepare, Linked
<1>2. ASSUME NEW k \in Calls, MailAccepted(k) PROVE TypeOK' /\ Linked'
  BY <1>2 DEF MailAccepted, TypeOK, CallStates, Linked
<1>3. ASSUME NEW k \in Calls, MailFails(k) PROVE TypeOK' /\ Linked'
  BY <1>3 DEF MailFails, TypeOK, CallStates, Linked
<1>4. ASSUME NEW k \in Calls, DisablePrepared(k) PROVE TypeOK' /\ Linked'
  <2>1. call[k].code \in Codes /\ code[call[k].code].status # "unissued"
    BY <1>4 DEF DisablePrepared, Linked
  <2>2. code' \in [Codes -> CodeRows] /\ StatusOnly
    <3> DEFINE c == call[k].code
               s == IF code[c].status = "pending_delivery" THEN "disabled" ELSE code[c].status
    <3>1. s \in Statuses /\ s # "unissued"
      BY <2>1 DEF CodeRows
    <3>2. code' = [code EXCEPT ![c] = Restate(c, s)]
      BY <1>4 DEF DisablePrepared, Restate
    <3> HIDE DEF s
    <3> QED
      BY <2>1, <3>1, <3>2, Restated DEF StatusOnly
  <2>3. call' \in [Calls -> CallStates]
    BY <1>4 DEF DisablePrepared, TypeOK, CallStates, Idle
  <2>4. TypeOK'
    BY <1>4, <2>2, <2>3 DEF DisablePrepared, TypeOK
  <2>5. \A j \in Calls : call'[j].at # "idle" => call'[j] = call[j]
    BY <1>4 DEF DisablePrepared, TypeOK, Idle
  <2>6. UNCHANGED order
    BY <1>4 DEF DisablePrepared
  <2> QED
    BY <2>2, <2>4, <2>5, <2>6 DEF Linked, StatusOnly
<1>5. ASSUME NEW k \in Calls, ActivatePrepared(k) PROVE TypeOK' /\ Linked'
  <2> DEFINE c == call[k].code
  <2>1. c \in Codes /\ code[c].status # "unissued"
    BY <1>5 DEF ActivatePrepared, Linked
  <2>2. \A d \in Codes : Enabled(c, d, call[k].now) \in CodeRows
    <3>1. \A d \in Codes : Enabled(c, d, call[k].now) \in
            {Restate(d, "active"), Restate(d, "disabled"), code[d], Restate(d, code[d].status)}
      BY <2>1 DEF Enabled, Restate
    <3>2. \A d \in Codes : code[d].status \in Statuses
      BY DEF CodeRows
    <3> QED
      BY <3>1, <3>2, Restated
  <2>3. code' \in [Codes -> CodeRows]
    BY <1>5, <2>1, <2>2, Restated DEF ActivatePrepared, Restate
  <2>4. StatusOnly
    <3>1. \A d \in Codes :
            LET e == Enabled(c, d, call[k].now) IN
            /\ e.source = code[d].source /\ e.owner = code[d].owner
            /\ e.created = code[d].created
            /\ e.redeemedAt = code[d].redeemedAt /\ e.redeemer = code[d].redeemer
            /\ e.status = "unissued" <=> code[d].status = "unissued"
      BY <2>1, Restated DEF Enabled, Restate, OfUser
    <3> QED
      BY <1>5, <2>1, <3>1, Restated DEF ActivatePrepared, StatusOnly, Restate
  <2>5. call' \in [Calls -> CallStates]
    BY <1>5 DEF ActivatePrepared, TypeOK, CallStates, Idle
  <2>6. TypeOK'
    BY <1>5, <2>3, <2>5 DEF ActivatePrepared, TypeOK
  <2>7. \A j \in Calls : call'[j].at # "idle" => call'[j] = call[j]
    BY <1>5 DEF ActivatePrepared, TypeOK, Idle
  <2>8. UNCHANGED order
    BY <1>5 DEF ActivatePrepared
  <2> QED
    BY <2>4, <2>6, <2>7, <2>8 DEF Linked, StatusOnly
<1>6. ASSUME NEW k \in Calls, StoreUnavailable(k) PROVE TypeOK' /\ Linked'
  BY <1>6 DEF StoreUnavailable, TypeOK, CallStates, Linked, Idle
<1>7. CASE Crash
  BY <1>7 DEF Crash, TypeOK, CallStates, Linked, Idle
<1>8. ASSUME NEW c \in Codes, NEW n \in Nows, NEW days \in 1..RedeemDays,
             IssueAdminCode(c, n, days)
      PROVE  TypeOK' /\ Linked'
  <2>1. n \in Nat
    BY NowsType
  <2>2. code' = [code EXCEPT ![c] = AdminRow(n, days)]
    BY <1>8 DEF IssueAdminCode, AdminRow
  <2>3. /\ AdminRow(n, days) \in CodeRows
        /\ AdminRow(n, days).source = "admin" /\ AdminRow(n, days).status = "active"
    BY <2>1, AdminRowType
  <2>4. TypeOK'
    BY <1>8, <2>2, <2>3 DEF IssueAdminCode, TypeOK
  <2>5. \A k \in Calls : call[k].at # "idle" => call[k].code # c
    BY <1>8 DEF IssueAdminCode, Linked
  <2>6. \A d \in Codes :
          /\ code'[d].source = "self_service_email" => code'[d].owner \in Users
          /\ code'[d].status = "unissued" => code'[d].source = None
    BY <2>2, <2>3 DEF TypeOK, Linked
  <2> QED
    BY <1>8, <2>4, <2>5, <2>6 DEF IssueAdminCode, Linked
<1>9. ASSUME NEW c \in Codes, NEW n \in Nows, RedeemTooLate(c, n)
      PROVE  TypeOK' /\ Linked'
  <2>1. code' \in [Codes -> CodeRows] /\ StatusOnly
    BY <1>9, Restated DEF RedeemTooLate, StatusOnly, Restate
  <2>2. TypeOK'
    BY <1>9, <2>1 DEF RedeemTooLate, TypeOK
  <2> QED
    BY <1>9, <2>1, <2>2 DEF RedeemTooLate, Linked, StatusOnly
<1> QED
  BY <1>1, <1>2, <1>3, <1>4, <1>5, <1>6, <1>7, <1>8, <1>9 DEF CodeStep

\* What a redemption does to the codes.
LEMMA MarkedRedeemed ==
  ASSUME TypeOK, Linked, NEW c \in Codes, NEW u \in Users, NEW n \in Nat,
         code[c].status # "unissued", MarkRedeemed(c, u, n)
  PROVE  /\ code' \in [Codes -> CodeRows]
         /\ code'[c].status = "redeemed" /\ code'[c].redeemer = u /\ code'[c].redeemedAt = n
         /\ \A d \in Codes \ {c} : code'[d] = code[d]
         /\ \A d \in Codes :
              /\ code'[d].source = code[d].source /\ code'[d].owner = code[d].owner
              /\ code'[d].created = code[d].created
              /\ code'[d].status = "unissued" <=> code[d].status = "unissued"
<1> DEFINE row == [code[c] EXCEPT !.status = "redeemed", !.redeemer = u, !.redeemedAt = n]
<1>1. code \in [Codes -> CodeRows]
  BY DEF TypeOK
<1>2. code[c] \in CodeRows
  BY <1>1
<1>3. /\ row \in CodeRows
      /\ row.status = "redeemed" /\ row.redeemer = u /\ row.redeemedAt = n
      /\ row.source = code[c].source /\ row.owner = code[c].owner
      /\ row.created = code[c].created
  BY <1>2 DEF CodeRows, Statuses
<1>4. code' = [code EXCEPT ![c] = row]
  BY DEF MarkRedeemed
<1> HIDE DEF row
<1> QED
  BY <1>1, <1>3, <1>4

\* A step that gives one user another entitlement.
LEMMA EntitlementSet ==
  ASSUME TypeOK, NEW u \in Users, NEW e \in Entitlements, e.used <= e.limit,
         entitlement' = [entitlement EXCEPT ![u] = e]
  PROVE  /\ entitlement' \in [Users -> Entitlements]
         /\ \A v \in Users : entitlement'[v].used <= entitlement'[v].limit
BY DEF TypeOK

LEMMA AdjustedTyped ==
  ASSUME TypeOK, Linked, NEW u \in Users, NEW until \in Nat, NEW extra \in Nat,
         Adjusted(u, until, extra)
  PROVE  TypeOK' /\ Linked'
<1> USE DEF codes, billing
<1> DEFINE e == [entitlement[u] EXCEPT !.row = TRUE, !.expires = until,
                                !.limit = entitlement[u].limit + extra]
<1>1. entitlement[u] \in Entitlements /\ entitlement[u].used <= entitlement[u].limit
  BY DEF TypeOK
<1>2. e \in Entitlements /\ e.used <= e.limit
  <2>1. /\ entitlement[u].used \in Nat
        /\ entitlement[u].limit \in Nat
        /\ entitlement[u].limit + extra \in Nat
    BY <1>1 DEF Entitlements
  <2>2. e.used = entitlement[u].used /\ e.limit = entitlement[u].limit + extra
    BY <1>1 DEF Entitlements
  <2>3. e \in Entitlements
    BY <1>1, <2>1 DEF Entitlements
  <2> HIDE DEF e
  <2> QED
    BY <1>1, <2>1, <2>2, <2>3
<1>3. entitlement' = [entitlement EXCEPT ![u] = e]
  BY DEF Adjusted
<1> HIDE DEF e
<1>4. /\ entitlement' \in [Users -> Entitlements]
      /\ \A v \in Users : entitlement'[v].used <= entitlement'[v].limit
  BY <1>2, <1>3, EntitlementSet
<1>5. granted' \in [Users -> Nat]
  BY DEF Adjusted, TypeOK
<1> QED
  BY <1>4, <1>5 DEF Adjusted, TypeOK, Linked

LEMMA AccountStepTyped ==
  ASSUME TypeOK, Linked, AccountStep
  PROVE  TypeOK' /\ Linked'
<1> USE DEF codes, billing
<1> PICK u \in Users :
      \/ \E c \in Codes, n \in Nows : RedeemSelfService(u, c, n) \/ RedeemAdmin(u, c, n)
      \/ \E r \in RequestIds, n \in Nows : ConsumeLlmQuota(u, r, n)
      \/ \E until \in Nat, extra \in Nat : Adjusted(u, until, extra)
  <2>1. PICK u \in Users :
      \/ \E c \in Codes, n \in Nows : RedeemSelfService(u, c, n) \/ RedeemAdmin(u, c, n)
      \/ \E r \in RequestIds, n \in Nows : ConsumeLlmQuota(u, r, n)
      \/ \E extra \in QuotaAdds \cup {0} :
         \/ \E n \in Nows : AdjustDays(u, PassDays, extra, n)
         \/ \E until \in 1..MaxExpires : AdjustExpiry(u, until, extra)
      \/ \E extra \in QuotaAdds : AdjustQuota(u, extra)
    BY DEF AccountStep
  <2>2. QuotaAdds \cup {0} \subseteq Nat
    BY CreditAssumption
  <2>3. entitlement[u].expires \in Nat
    BY DEF TypeOK, Entitlements
  <2>4. \A n \in Nows : Latest(entitlement[u].expires, n) + PassDays \in Nat
    BY <2>3, NowsType, TimeAssumption DEF Latest
  <2> QED
    BY <2>1, <2>2, <2>3, <2>4, TimeAssumption DEF AdjustDays, AdjustExpiry, AdjustQuota
<1>1. ASSUME NEW c \in Codes, NEW n \in Nows,
             RedeemSelfService(u, c, n) \/ RedeemAdmin(u, c, n)
      PROVE  TypeOK' /\ Linked'
  <2>1. n \in Nat /\ n + PassDays \in Nat /\ Credits \in Nat
    BY NowsType, TimeAssumption, CreditAssumption
  <2>2. code[c].status # "unissued"
    BY <1>1 DEF RedeemSelfService, RedeemAdmin, Redeemable
  <2>3. MarkRedeemed(c, u, n)
    BY <1>1 DEF RedeemSelfService, RedeemAdmin
  <2>4. Stacked(u, n) \in Entitlements /\ Stacked(u, n).used <= Stacked(u, n).limit
    BY <2>1, TimeAssumption DEF Stacked, Entitlements, TypeOK
  <2>5. /\ entitlement' \in [Users -> Entitlements]
        /\ \A v \in Users : entitlement'[v].used <= entitlement'[v].limit
    <3> DEFINE fresh == [row |-> TRUE, expires |-> n + PassDays, limit |-> Credits, used |-> 0]
    <3>1. fresh \in Entitlements /\ fresh.used <= fresh.limit
      BY <2>1 DEF Entitlements
    <3>2. \/ entitlement' = [entitlement EXCEPT ![u] = fresh]
          \/ entitlement' = [entitlement EXCEPT ![u] = Stacked(u, n)]
      BY <1>1 DEF RedeemSelfService, RedeemAdmin
    <3> HIDE DEF fresh
    <3> QED
      BY <2>4, <3>1, <3>2, EntitlementSet
  <2>6. granted' \in [Users -> Nat]
    BY <1>1, <2>1 DEF RedeemSelfService, RedeemAdmin, TypeOK
  <2>7. UNCHANGED <<clock, charged, nextAllowed, call, mailed, order, event, passes>>
    BY <1>1 DEF RedeemSelfService, RedeemAdmin
  <2> QED
    <3>1. code' \in [Codes -> CodeRows]
      BY <2>1, <2>2, <2>3, MarkedRedeemed
    <3>2. \A d \in Codes :
            /\ code'[d].source = code[d].source /\ code'[d].owner = code[d].owner
            /\ code'[d].created = code[d].created
            /\ code'[d].status = "unissued" <=> code[d].status = "unissued"
      BY <2>1, <2>2, <2>3, MarkedRedeemed
    <3>3. TypeOK'
      BY <2>5, <2>6, <2>7, <3>1 DEF TypeOK
    <3> QED
      BY <2>7, <3>2, <3>3 DEF Linked
<1>2. ASSUME NEW r \in RequestIds, NEW n \in Nows, ConsumeLlmQuota(u, r, n)
      PROVE  TypeOK' /\ Linked'
  BY <1>2 DEF ConsumeLlmQuota, CreditLeft, TypeOK, Linked, Entitlements
<1>3. ASSUME NEW until \in Nat, NEW extra \in Nat, Adjusted(u, until, extra)
      PROVE  TypeOK' /\ Linked'
  BY <1>3, AdjustedTyped
<1> QED
  BY <1>1, <1>2, <1>3

LEMMA BillingStepTyped ==
  ASSUME TypeOK, Linked, BillingStep
  PROVE  TypeOK' /\ Linked'
<1> USE DEF accounts, codes
<1>1. ASSUME NEW u \in Users, NEW o \in Orders, CreateOrder(u, o) PROVE TypeOK' /\ Linked'
  BY <1>1 DEF CreateOrder, TypeOK, OrderRows, NoOrder, Linked
<1>2. ASSUME NEW e \in Events, NEW o \in Orders, NEW t \in Transactions,
             NEW paidAt \in 1..clock, SettlePaidOrder(e, o, t, paidAt)
      PROVE  TypeOK' /\ Linked'
  <2>1. event' \in [Events -> EventRows]
    BY <1>2 DEF SettlePaidOrder, SettleAgain, SettleFirst, RecordEvent, TypeOK, EventRows
  <2>2. /\ order' \in [Orders -> OrderRows]
        /\ \A p \in Orders : order'[p].status = "paid" => order'[p].transaction # None
        /\ \A p \in Orders : order'[p].status # "none" => order'[p].user \in Users
    <3> DEFINE paid == [order[o] EXCEPT !.status = "paid", !.transaction = t, !.paidAt = paidAt]
    <3>1. paidAt \in Nat /\ order[o] \in OrderRows
      BY DEF TypeOK
    <3>2. paid \in OrderRows /\ paid.transaction = t /\ paid.user = order[o].user
      BY <3>1 DEF OrderRows
    <3>3. \/ UNCHANGED order
          \/ order[o].status = "pending" /\ order' = [order EXCEPT ![o] = paid]
      BY <1>2 DEF SettlePaidOrder, SettleAgain, SettleFirst
    <3>4. t # None
      BY NoneAssumption
    <3> HIDE DEF paid
    <3> QED
      BY <3>2, <3>3, <3>4 DEF TypeOK, Linked
  <2>3. \A u \in Users, n \in Nat : PassExpires(u, n) \in Nat
    BY TimeAssumption DEF PassExpires, Latest, TypeOK, Entitlements
  <2>4. /\ entitlement' \in [Users -> Entitlements]
        /\ \A v \in Users : entitlement'[v].used <= entitlement'[v].limit
        /\ passes' \in [Orders -> Nat]
    <3>1. paidAt \in Nat /\ order[o].paidAt \in Nat
      BY DEF TypeOK, OrderRows
    <3>2. CASE UNCHANGED <<entitlement, passes>>
      BY <3>2 DEF TypeOK
    <3>3. ASSUME NEW n \in Nat, order[o].user \in Users, ExtendMonthlyPass(order[o].user, o, n)
          PROVE  /\ entitlement' \in [Users -> Entitlements]
                 /\ \A v \in Users : entitlement'[v].used <= entitlement'[v].limit
                 /\ passes' \in [Orders -> Nat]
      <4> DEFINE u == order[o].user
                 pass == [entitlement[u] EXCEPT !.row = TRUE, !.expires = PassExpires(u, n)]
      <4>1. entitlement[u] \in Entitlements /\ entitlement[u].used <= entitlement[u].limit
        BY <3>3 DEF TypeOK
      <4>2. pass \in Entitlements /\ pass.used <= pass.limit
        BY <2>3, <3>3, <4>1 DEF Entitlements
      <4>3. entitlement' = [entitlement EXCEPT ![u] = pass] /\ passes' = [passes EXCEPT ![o] = @ + 1]
        BY <3>3 DEF ExtendMonthlyPass
      <4>4. passes' \in [Orders -> Nat]
        BY <4>3 DEF TypeOK
      <4> HIDE DEF pass
      <4> QED
        BY <3>3, <4>2, <4>3, <4>4, EntitlementSet
    <3> QED
      BY <1>2, <3>1, <3>2, <3>3 DEF SettlePaidOrder, SettleAgain, SettleFirst, Linked
  <2>5. UNCHANGED <<clock, charged, granted, code, nextAllowed, call, mailed>>
    BY <1>2 DEF SettlePaidOrder
  <2> QED
    BY <2>1, <2>2, <2>4, <2>5 DEF TypeOK, Linked
<1> QED
  BY <1>1, <1>2 DEF BillingStep

LEMMA StepTyped ==
  ASSUME TypeOK, Linked, [Next]_vars
  PROVE  TypeOK' /\ Linked'
<1>1. CASE Tick
  BY <1>1 DEF Tick, TypeOK, Linked, accounts, codes, billing
<1>2. CASE UNCHANGED vars
  BY <1>2 DEF vars, TypeOK, Linked, accounts, codes, billing
<1> QED
  BY <1>1, <1>2, CodeStepTyped, AccountStepTyped, BillingStepTyped DEF Next

\* The rows of all tables keep their types, a used credit stays within its
\* limit, and a paid order has its transaction (TypeOK).
THEOREM TypeCorrect == Spec => []TypeOK
<1>1. Spec => [](TypeOK /\ Linked)
  BY InitTyped, StepTyped, PTL DEF Spec
<1> QED
  BY <1>1, PTL
-----------------------------------------------------------------------------
(* Codes *)

\* No self-service code is issued and none becomes pending or active.
Quiet ==
  /\ \A c \in Codes : code'[c].source = "self_service_email" =>
       /\ code[c].source = "self_service_email"
       /\ code'[c].owner = code[c].owner
       /\ code'[c].created = code[c].created
       /\ code'[c].status \in {"active", "pending_delivery"} => code'[c].status = code[c].status
  /\ UNCHANGED nextAllowed

LEMMA QuietKeeps == ASSUME CodeInv, Quiet PROVE CodeInv'
BY DEF CodeInv, OneActiveCode, PendingIsNewest, Queued, OfUser, Quiet

\* A new code is the only pending one, and newer than every other.
LEMMA PrepareKeeps ==
  ASSUME TypeOK, Linked, CodeInv,
         NEW k \in Calls, NEW u \in Users, NEW c \in Codes, NEW n \in Nows, Prepare(k, u, c, n)
  PROVE  CodeInv'
<1>1. n \in Nat /\ Minute \in Nat /\ Minute > 0
  BY NowsType, TimeAssumption
<1>2. /\ code'[c] = PendingRow(u, n)
      /\ \A d \in Codes \ {c} :
           code'[d] = IF OfUser(d, u, "pending_delivery") THEN Superseded(d, n) ELSE code[d]
  BY DEF Prepare, PendingRow
<1>3. /\ PendingRow(u, n).source = "self_service_email"
      /\ PendingRow(u, n).status = "pending_delivery"
      /\ PendingRow(u, n).owner = u /\ PendingRow(u, n).created = n
  BY <1>1, PendingRowType
<1>4. \A d \in Codes : code[d] \in CodeRows
  BY DEF TypeOK
<1>5. \A d \in Codes \ {c} :
        /\ code'[d].source = code[d].source /\ code'[d].owner = code[d].owner
        /\ code'[d].created = code[d].created
        /\ code'[d].status = code[d].status \/ code'[d].status \in {"expired", "disabled"}
        /\ OfUser(d, u, "pending_delivery") => code'[d].status # "pending_delivery"
  <2>1. \A d \in Codes :
          LET q == Superseded(d, n) IN
          /\ q.source = code[d].source /\ q.owner = code[d].owner /\ q.created = code[d].created
          /\ q.status \in {"expired", "disabled"}
    BY <1>4 DEF Superseded, CodeRows
  <2> QED
    BY <1>2, <2>1
<1>6. nextAllowed[u] <= n /\ nextAllowed' = [nextAllowed EXCEPT ![u] = n + Minute]
  BY DEF Prepare, MayMail
<1>7. \A d \in Codes : code[d].created \in Nat
  BY <1>4 DEF CodeRows
<1>8. /\ nextAllowed'[u] = n + Minute
      /\ \A v \in Users :
           /\ nextAllowed[v] \in Nat /\ nextAllowed'[v] \in Nat
           /\ nextAllowed[v] <= nextAllowed'[v]
  BY <1>1, <1>6 DEF TypeOK
<1>9. \A v \in Users, d \in Codes \ {c} :
        code[d].source = "self_service_email" /\ code[d].owner = v
          => code[d].created + Minute <= nextAllowed[v]
  BY DEF CodeInv, Queued
<1>10. \A d \in Codes \ {c} :
         code[d].source = "self_service_email" /\ code[d].owner = u => code[d].created < n
  BY <1>1, <1>6, <1>7, <1>8, <1>9
<1>11. OneActiveCode'
  BY <1>2, <1>3, <1>5 DEF CodeInv, OneActiveCode, OfUser
<1>12. PendingIsNewest'
  <2> SUFFICES ASSUME NEW v \in Users, NEW a \in Codes, NEW b \in Codes,
                      OfUser(a, v, "pending_delivery")', OfUser(b, v, "active")'
               PROVE  code'[b].created < code'[a].created
    BY DEF PendingIsNewest
  <2>1. b # c
    BY <1>2, <1>3 DEF OfUser
  <2>2. CASE a = c
    BY <1>2, <1>3, <1>5, <1>10, <2>1, <2>2 DEF OfUser
  <2>3. CASE a # c
    BY <1>5, <2>1, <2>3 DEF OfUser, CodeInv, PendingIsNewest
  <2> QED
    BY <2>2, <2>3
<1>13. Queued'
  <2>1. \A v \in Users, a, b \in Codes :
          OfUser(a, v, "pending_delivery")' /\ OfUser(b, v, "pending_delivery")' => a = b
    <3> SUFFICES ASSUME NEW v \in Users, NEW a \in Codes, NEW b \in Codes,
                        OfUser(a, v, "pending_delivery")', OfUser(b, v, "pending_delivery")'
                 PROVE  a = b
      OBVIOUS
    <3>1. v = u => a = c /\ b = c
      BY <1>5 DEF OfUser
    <3>2. v # u => a # c /\ b # c
      BY <1>2, <1>3 DEF OfUser
    <3> QED
      BY <1>5, <3>1, <3>2 DEF OfUser, CodeInv, Queued
  <2>2. \A v \in Users, a \in Codes :
          code'[a].source = "self_service_email" /\ code'[a].owner = v
            => code'[a].created + Minute <= nextAllowed'[v]
    <3> SUFFICES ASSUME NEW v \in Users, NEW a \in Codes,
                        code'[a].source = "self_service_email", code'[a].owner = v
                 PROVE  code'[a].created + Minute <= nextAllowed'[v]
      OBVIOUS
    <3>1. CASE a = c
      BY <1>1, <1>2, <1>3, <1>8, <3>1
    <3>2. CASE a # c
      BY <1>1, <1>5, <1>7, <1>8, <1>9, <3>2
    <3> QED
      BY <3>1, <3>2
  <2> QED
    BY <2>1, <2>2 DEF Queued
<1> QED
  BY <1>11, <1>12, <1>13 DEF CodeInv

\* What the enabling transaction does to the code of its call and to the others.
LEMMA Activation ==
  ASSUME TypeOK, Linked, NEW k \in Calls, ActivatePrepared(k)
  PROVE  LET c == call[k].code
             u == call[k].user
         IN
         /\ c \in Codes /\ u \in Users
         /\ StatusOnly
         /\ \/ \A d \in Codes : code'[d].status = code[d].status
                                 \/ code'[d].status = "disabled"
            \/ /\ OfUser(c, u, "pending_delivery")
               /\ ~ActiveAt(u, code[c].created)
               /\ code'[c].status = "active"
               /\ \A d \in Codes \ {c} :
                    IF OfUser(d, u, "active")
                    THEN code'[d].status = "disabled"
                    ELSE code'[d].status = code[d].status
<1> DEFINE c == call[k].code
           n == call[k].now
           u == call[k].user
<1> "active" \in Statuses /\ "disabled" \in Statuses
  BY DEF Statuses
<1>1. code \in [Codes -> CodeRows]
  BY DEF TypeOK
<1>2. /\ c \in Codes /\ u \in Users
      /\ code[c].source = "self_service_email" /\ code[c].owner = u
      /\ code[c].created = n /\ code[c].status # "unissued"
  BY DEF ActivatePrepared, Linked
<1>3. \A d \in Codes : code[d].status \in Statuses
  BY <1>1 DEF CodeRows
<1>4. CASE code' = code
  BY <1>2, <1>4 DEF StatusOnly
<1>5. CASE code' = [code EXCEPT ![c].status = "disabled"]
  <2>1. code' = [code EXCEPT ![c] = Restate(c, "disabled")]
    BY <1>5 DEF Restate
  <2>2. /\ StatusOnly
        /\ \A d \in Codes : code'[d].status = code[d].status \/ code'[d].status = "disabled"
    BY <1>1, <1>2, <2>1, Restated DEF StatusOnly
  <2> QED
    BY <1>2, <2>2
<1>6. CASE /\ code[c].status = "pending_delivery"
           /\ ~BecameActive(c, n)
           /\ code' = [d \in Codes |-> Enabled(c, d, n)]
  <2> DEFINE s == IF code[c].redeemBy > n THEN "active" ELSE code[c].status
  <2>1. s \in Statuses
    BY <1>2, <1>3
  <2>2. code'[c] = Restate(c, s)
    BY <1>2, <1>6 DEF Enabled, Restate
  <2>3. \A d \in Codes \ {c} :
          code'[d] = IF OfUser(d, u, "active") THEN Restate(d, "disabled") ELSE code[d]
    BY <1>2, <1>6 DEF Enabled, Restate
  <2> HIDE DEF s
  <2>4. /\ StatusOnly
        /\ code'[c].status = s
        /\ \A d \in Codes \ {c} :
             IF OfUser(d, u, "active")
             THEN code'[d].status = "disabled"
             ELSE code'[d].status = code[d].status
    <3>1. code'[c].status = s
      BY <1>1, <1>2, <2>1, <2>2, Restated
    <3>2. \A d \in Codes \ {c} :
             IF OfUser(d, u, "active")
             THEN code'[d].status = "disabled"
             ELSE code'[d].status = code[d].status
      BY <1>1, <2>3, Restated
    <3>3. s # "unissued"
      BY <1>6 DEF s
    <3>4. \A d \in Codes : OfUser(d, u, "active") => code[d].status # "unissued"
      BY DEF OfUser
    <3>5. \A d \in Codes :
            /\ code'[d].source = code[d].source /\ code'[d].owner = code[d].owner
            /\ code'[d].created = code[d].created
            /\ code'[d].redeemedAt = code[d].redeemedAt
            /\ code'[d].redeemer = code[d].redeemer
      BY <1>1, <1>2, <2>1, <2>2, <2>3, Restated
    <3> QED
      BY <1>2, <3>1, <3>2, <3>3, <3>4, <3>5 DEF StatusOnly
  <2>5. CASE s = "active"
    BY <1>2, <1>6, <2>4, <2>5 DEF BecameActive, OfUser
  <2>6. CASE s = code[c].status
    BY <1>2, <2>4, <2>6
  <2> QED
    BY <2>5, <2>6 DEF s
<1> QED
  BY <1>4, <1>5, <1>6 DEF ActivatePrepared

LEMMA ActivationKeeps ==
  ASSUME TypeOK, Linked, CodeInv, NEW k \in Calls, ActivatePrepared(k)
  PROVE  CodeInv'
<1>1. StatusOnly
  BY Activation
<1>2. UNCHANGED nextAllowed
  BY DEF ActivatePrepared
<1>3. CASE \A d \in Codes : code'[d].status = code[d].status \/ code'[d].status = "disabled"
  <2>1. Quiet
    BY <1>1, <1>2, <1>3 DEF Quiet, StatusOnly
  <2> QED
    BY <2>1, QuietKeeps
<1>4. ASSUME NEW c \in Codes, NEW u \in Users,
             OfUser(c, u, "pending_delivery"),
             code'[c].status = "active",
             \A d \in Codes \ {c} :
               IF OfUser(d, u, "active")
               THEN code'[d].status = "disabled"
               ELSE code'[d].status = code[d].status
      PROVE  CodeInv'
  <2>1. \A d \in Codes \ {c} : \A v \in Users, s \in {"active", "pending_delivery"} :
          OfUser(d, v, s)' => OfUser(d, v, s)
    BY <1>1, <1>4 DEF OfUser, StatusOnly
  <2>2. \A d \in Codes \ {c} :
          ~ OfUser(d, u, "active")' /\ ~ OfUser(d, u, "pending_delivery")'
    BY <1>1, <1>4, <2>1 DEF OfUser, CodeInv, Queued, StatusOnly
  <2>3. \A v \in Users : ~ OfUser(c, v, "pending_delivery")'
    BY <1>4 DEF OfUser
  <2>4. \A v \in Users : OfUser(c, v, "active")' => v = u
    BY <1>1, <1>4 DEF OfUser, StatusOnly
  <2>5. OneActiveCode'
    BY <2>1, <2>2, <2>4 DEF CodeInv, OneActiveCode
  <2>6. PendingIsNewest'
    BY <1>1, <2>1, <2>2, <2>3, <2>4 DEF CodeInv, PendingIsNewest, StatusOnly
  <2>7. Queued'
    BY <1>1, <1>2, <2>1, <2>2, <2>3 DEF CodeInv, Queued, StatusOnly
  <2> QED
    BY <2>5, <2>6, <2>7 DEF CodeInv
<1> QED
  BY <1>3, <1>4, Activation

\* Of all other steps none issues or enables a self-service code.
LEMMA OthersQuiet ==
  ASSUME TypeOK, Linked, [Next]_vars,
         ~ \E k \in Calls, u \in Users, c \in Codes, n \in Nows : Prepare(k, u, c, n),
         ~ \E k \in Calls : ActivatePrepared(k)
  PROVE  Quiet
<1>1. CASE UNCHANGED <<code, nextAllowed>>
  BY <1>1 DEF Quiet
<1>2. ASSUME NEW c \in Codes, NEW n \in Nows, NEW days \in 1..RedeemDays,
             IssueAdminCode(c, n, days)
      PROVE Quiet
  <2>1. /\ code' = [code EXCEPT ![c] = AdminRow(n, days)]
        /\ UNCHANGED nextAllowed
    BY <1>2 DEF IssueAdminCode, AdminRow
  <2>2. AdminRow(n, days).source = "admin"
    BY NowsType, AdminRowType
  <2> QED
    BY <2>1, <2>2 DEF Quiet, TypeOK
<1>3. ASSUME NEW c \in Codes, NEW s \in Statuses, s \notin {"active", "pending_delivery"},
             code' = [code EXCEPT ![c] = Restate(c, s)], UNCHANGED nextAllowed
      PROVE  Quiet
  BY <1>3, Restated DEF TypeOK, Quiet
<1>4. ASSUME NEW c \in Codes, NEW n \in Nows, RedeemTooLate(c, n) PROVE Quiet
  BY <1>3, <1>4 DEF RedeemTooLate, Restate, Statuses
<1>5. ASSUME NEW k \in Calls, DisablePrepared(k) PROVE Quiet
  <2> DEFINE c == call[k].code
  <2>1. c \in Codes
    BY <1>5 DEF DisablePrepared, Linked
  <2>2. CASE code[c].status = "pending_delivery"
    <3>1. code' = [code EXCEPT ![c] = Restate(c, "disabled")] /\ UNCHANGED nextAllowed
      BY <1>5, <2>2 DEF DisablePrepared, Restate
    <3> QED
      BY <1>3, <2>1, <3>1 DEF Statuses
  <2>3. CASE code[c].status # "pending_delivery"
    <3>1. code' = [code EXCEPT ![c] = Restate(c, code[c].status)] /\ UNCHANGED nextAllowed
      BY <1>5, <2>3 DEF DisablePrepared, Restate
    <3>2. code[c].status \in Statuses
      BY <2>1 DEF TypeOK, CodeRows
    <3> QED
      BY <2>1, <3>1, <3>2, Restated DEF TypeOK, Quiet
  <2> QED
    BY <2>2, <2>3
<1>6. ASSUME NEW u \in Users, NEW c \in Codes, NEW n \in Nows,
             RedeemSelfService(u, c, n) \/ RedeemAdmin(u, c, n)
      PROVE  Quiet
  <2>1. /\ MarkRedeemed(c, u, n) /\ code[c].status # "unissued"
        /\ UNCHANGED nextAllowed
    BY <1>6 DEF RedeemSelfService, RedeemAdmin, Redeemable
  <2> QED
    BY <2>1, NowsType, MarkedRedeemed DEF Quiet
<1> QED
  <2>1. CASE CodeStep
    BY <1>1, <1>2, <1>4, <1>5, <2>1
       DEF CodeStep, MailAccepted, MailFails, StoreUnavailable, Crash
  <2>2. CASE AccountStep
    BY <1>1, <1>6, <2>2
       DEF AccountStep, ConsumeLlmQuota, AdjustDays, AdjustExpiry, AdjustQuota, Adjusted, codes
  <2>3. CASE BillingStep
    BY <1>1, <2>3 DEF BillingStep, CreateOrder, SettlePaidOrder, codes
  <2>4. CASE Tick \/ UNCHANGED vars
    BY <1>1, <2>4 DEF Tick, vars, codes
  <2> QED
    BY <2>1, <2>2, <2>3, <2>4 DEF Next

LEMMA CodeInvInit == ASSUME Init PROVE CodeInv
<1>1. \A c \in Codes : code[c].source # "self_service_email"
  BY NoneAssumption DEF Init, Unissued
<1> QED
  BY <1>1 DEF CodeInv, OneActiveCode, PendingIsNewest, Queued, OfUser

LEMMA CodeInvStep == ASSUME TypeOK, Linked, CodeInv, [Next]_vars PROVE CodeInv'
BY PrepareKeeps, ActivationKeeps, OthersQuiet, QuietKeeps

\* A user never has two self-service codes that can be redeemed, whatever
\* requests overlap, fail or are cut off (OneActiveCode).
THEOREM OneCodeAtATime == Spec => []OneActiveCode
<1>1. Init => TypeOK /\ Linked /\ CodeInv
  BY InitTyped, CodeInvInit
<1>2. TypeOK /\ Linked /\ CodeInv /\ [Next]_vars => (TypeOK /\ Linked /\ CodeInv)'
  BY StepTyped, CodeInvStep
<1>3. CodeInv => OneActiveCode
  BY DEF CodeInv
<1> QED
  BY <1>1, <1>2, <1>3, PTL DEF Spec

\* A code that waits for its mail is newer than every active one, although
\* requests read their times before they are ordered (PendingIsNewest).
THEOREM NewestWaits == Spec => []PendingIsNewest
<1>1. Init => TypeOK /\ Linked /\ CodeInv
  BY InitTyped, CodeInvInit
<1>2. TypeOK /\ Linked /\ CodeInv /\ [Next]_vars => (TypeOK /\ Linked /\ CodeInv)'
  BY StepTyped, CodeInvStep
<1>3. CodeInv => PendingIsNewest
  BY DEF CodeInv
<1> QED
  BY <1>1, <1>2, <1>3, PTL DEF Spec
-----------------------------------------------------------------------------
(* Expiry and spare codes *)

\* A step that gives one user a later expiry shortens nobody's entitlement.
LEMMA LaterExpiry ==
  ASSUME TypeOK, NEW u \in Users, NEW e \in Entitlements,
         entitlement' = [entitlement EXCEPT ![u] = e], entitlement[u].expires <= e.expires
  PROVE  \A v \in Users : entitlement'[v].expires >= entitlement[v].expires
BY DEF TypeOK, Entitlements

\* An adjustment sets the expiry it is given.
LEMMA AdjustedExpiry ==
  ASSUME TypeOK, NEW u \in Users, NEW until \in Nat, NEW extra \in Nat,
         Adjusted(u, until, extra)
  PROVE  /\ entitlement'[u].expires = until
         /\ \A v \in Users \ {u} : entitlement'[v] = entitlement[v]
BY DEF TypeOK, Entitlements, Adjusted

LEMMA Grows ==
  ASSUME TypeOK, Linked, [Next]_vars
  PROVE  \A u \in Users :
           entitlement'[u].expires >= entitlement[u].expires \/ Shortens(u)
<1> DEFINE Same == \A v \in Users : entitlement'[v].expires >= entitlement[v].expires
<1>0. \A v \in Users :
        /\ entitlement[v] \in Entitlements /\ entitlement[v].expires \in Nat
  BY DEF TypeOK, Entitlements
<1>1. CASE UNCHANGED entitlement
  BY <1>0, <1>1
<1>2. ASSUME NEW u \in Users, NEW c \in Codes, NEW n \in Nows,
             RedeemSelfService(u, c, n) \/ RedeemAdmin(u, c, n)
      PROVE  Same
  <2> DEFINE fresh == [row |-> TRUE, expires |-> n + PassDays, limit |-> Credits, used |-> 0]
  <2>1. n \in Nat /\ n + PassDays \in Nat /\ Credits \in Nat /\ PassDays \in Nat
    BY NowsType, TimeAssumption, CreditAssumption
  <2>2. fresh \in Entitlements /\ fresh.expires = n + PassDays
    BY <2>1 DEF Entitlements
  <2> HIDE DEF fresh
  <2>3. CASE ActiveAt(u, n)
    <3>1. RedeemAdmin(u, c, n)
      BY <1>2, <2>3 DEF RedeemSelfService
    <3>2. Stacked(u, n) \in Entitlements
          /\ Stacked(u, n).expires = entitlement[u].expires + PassDays
      BY <1>0, <2>1, <2>3 DEF Stacked, Entitlements
    <3> QED
      BY <1>0, <2>1, <3>1, <3>2, LaterExpiry DEF RedeemAdmin
  <2>4. CASE ~ActiveAt(u, n)
    <3>1. entitlement' = [entitlement EXCEPT ![u] = fresh]
      BY <1>2, <2>4 DEF RedeemSelfService, RedeemAdmin, Stacked, fresh
    <3>2. entitlement[u].expires <= fresh.expires
      BY <1>0, <2>1, <2>2, <2>4 DEF ActiveAt
    <3> QED
      BY <2>2, <3>1, <3>2, LaterExpiry
  <2> QED
    BY <2>3, <2>4
<1>3. ASSUME NEW u \in Users, NEW r \in RequestIds, NEW n \in Nows, ConsumeLlmQuota(u, r, n)
      PROVE  Same
  BY <1>0, <1>3 DEF ConsumeLlmQuota, TypeOK, Entitlements
<1>4. ASSUME NEW u \in Users, NEW days \in Nat, NEW extra \in Nat, NEW n \in Nows,
             AdjustDays(u, days, extra, n)
      PROVE  Same
  <2>1. /\ Latest(entitlement[u].expires, n) + days \in Nat
        /\ Latest(entitlement[u].expires, n) + days >= entitlement[u].expires
    BY <1>0, NowsType DEF Latest
  <2>2. /\ entitlement'[u].expires = Latest(entitlement[u].expires, n) + days
        /\ \A v \in Users \ {u} : entitlement'[v] = entitlement[v]
    BY <1>4, <2>1, AdjustedExpiry DEF AdjustDays
  <2> QED
    BY <1>0, <2>1, <2>2
<1>5. ASSUME NEW u \in Users, NEW extra \in Nat, AdjustQuota(u, extra) PROVE Same
  BY <1>0, <1>5, AdjustedExpiry DEF AdjustQuota
<1>6. ASSUME NEW u \in Users, NEW until \in 1..MaxExpires, NEW extra \in QuotaAdds \cup {0},
             AdjustExpiry(u, until, extra), NEW v \in Users
      PROVE  entitlement'[v].expires >= entitlement[v].expires \/ Shortens(v)
  <2>1. until \in Nat /\ extra \in Nat
    BY CreditAssumption
  <2>2. CASE v = u
    BY <1>6, <2>2 DEF Shortens
  <2>3. CASE v # u
    BY <1>0, <1>6, <2>1, <2>3, AdjustedExpiry DEF AdjustExpiry
  <2> QED
    BY <2>2, <2>3
<1>7. ASSUME NEW u \in Users, NEW o \in Orders, NEW n \in Nat, ExtendMonthlyPass(u, o, n)
      PROVE  Same
  <2> DEFINE e == [entitlement[u] EXCEPT !.row = TRUE, !.expires = PassExpires(u, n)]
  <2>1. PassExpires(u, n) \in Nat /\ entitlement[u].expires <= PassExpires(u, n)
    BY <1>0, TimeAssumption DEF PassExpires, Latest
  <2>2. e \in Entitlements /\ e.expires = PassExpires(u, n)
    BY <1>0, <2>1 DEF Entitlements
  <2>3. entitlement' = [entitlement EXCEPT ![u] = e]
    BY <1>7 DEF ExtendMonthlyPass
  <2> HIDE DEF e
  <2> QED
    BY <2>1, <2>2, <2>3, LaterExpiry
<1>8. CASE AccountStep
  <2>1. QuotaAdds \cup {0} \subseteq Nat /\ PassDays \in Nat
    BY CreditAssumption, TimeAssumption
  <2>2. \/ Same
        \/ \E u \in Users, until \in 1..MaxExpires, extra \in QuotaAdds \cup {0} :
             AdjustExpiry(u, until, extra)
    BY <1>2, <1>3, <1>4, <1>5, <1>8, <2>1 DEF AccountStep
  <2> QED
    BY <1>6, <2>2
<1>9. CASE BillingStep
  <2>1. ASSUME NEW e \in Events, NEW o \in Orders, NEW t \in Transactions,
               NEW paidAt \in 1..clock, SettlePaidOrder(e, o, t, paidAt)
        PROVE  Same
    <3>1. paidAt \in Nat /\ order[o].paidAt \in Nat
      BY DEF TypeOK, OrderRows
    <3>2. order[o].status # "none" => order[o].user \in Users
      BY DEF Linked
    <3> QED
      BY <1>1, <1>7, <2>1, <3>1, <3>2, <1>0 DEF SettlePaidOrder, SettleAgain, SettleFirst
  <2> QED
    BY <1>1, <1>9, <2>1 DEF BillingStep, CreateOrder, accounts
<1>10. CASE CodeStep
  BY <1>1, <1>10 DEF CodeStep, Prepare, MailAccepted, MailFails, DisablePrepared,
     ActivatePrepared, StoreUnavailable, Crash, IssueAdminCode, RedeemTooLate, accounts
<1> QED
  BY <1>1, <1>8, <1>9, <1>10 DEF Next, Tick, vars, accounts

\* No operation shortens an entitlement, a late payment or a call with an old
\* time included, except an administrator who sets its expiry (ExpiryOnlyGrows).
THEOREM NothingShortens == Spec => ExpiryOnlyGrows
<1>1. TypeOK /\ Linked /\ [Next]_vars =>
        [\A u \in Users :
           entitlement'[u].expires >= entitlement[u].expires \/ Shortens(u)]_vars
  BY Grows
<1>2. Spec => [](TypeOK /\ Linked)
  BY InitTyped, StepTyped, PTL DEF Spec
<1> QED
  BY <1>1, <1>2, PTL DEF Spec, ExpiryOnlyGrows
-----------------------------------------------------------------------------
\* No self-service code is redeemed.
Unspent ==
  \A d \in Codes : code'[d].source = "self_service_email" /\ code'[d].status = "redeemed" =>
    /\ code[d].source = "self_service_email" /\ code[d].status = "redeemed"
    /\ code'[d].owner = code[d].owner
    /\ code'[d].redeemer = code[d].redeemer
    /\ code'[d].redeemedAt = code[d].redeemedAt

\* No self-service code is enabled.
NothingEnabled ==
  \A c \in Codes : code'[c].source = "self_service_email" /\ code'[c].status = "active" =>
    /\ code[c].source = "self_service_email" /\ code[c].status = "active"
    /\ code'[c].owner = code[c].owner
    /\ code'[c].created = code[c].created

LEMMA PrepareSpares ==
  ASSUME TypeOK, NEW k \in Calls, NEW u \in Users, NEW c \in Codes, NEW n \in Nows,
         Prepare(k, u, c, n)
  PROVE  Unspent /\ NothingEnabled
<1>1. /\ code'[c] = PendingRow(u, n)
      /\ \A d \in Codes \ {c} : code'[d] \in {Superseded(d, n), code[d]}
  BY DEF Prepare, PendingRow
<1>2. PendingRow(u, n).status = "pending_delivery"
  BY NowsType, PendingRowType
<1>3. \A d \in Codes : Superseded(d, n).status \in {"expired", "disabled"}
  BY DEF Superseded, TypeOK, CodeRows
<1> QED
  BY <1>1, <1>2, <1>3 DEF Unspent, NothingEnabled

LEMMA SpentByRedemption ==
  ASSUME TypeOK, Linked, [Next]_vars,
         ~ \E u \in Users, c \in Codes, n \in Nows : RedeemSelfService(u, c, n)
  PROVE  Unspent
<1>1. CASE UNCHANGED code
  BY <1>1 DEF Unspent
<1>2. ASSUME NEW c \in Codes, NEW s \in Statuses, s # "redeemed",
             code' = [code EXCEPT ![c] = Restate(c, s)]
      PROVE  Unspent
  BY <1>2, Restated DEF TypeOK, Unspent
<1>3. ASSUME NEW k \in Calls, DisablePrepared(k) PROVE Unspent
  <2> DEFINE c == call[k].code
  <2>1. c \in Codes
    BY <1>3 DEF DisablePrepared, Linked
  <2>2. CASE code[c].status = "pending_delivery"
    <3>1. code' = [code EXCEPT ![c] = Restate(c, "disabled")]
      BY <1>3, <2>2 DEF DisablePrepared, Restate
    <3> QED
      BY <1>2, <2>1, <3>1 DEF Statuses
  <2>3. CASE code[c].status # "pending_delivery"
    <3>1. code' = [code EXCEPT ![c] = Restate(c, code[c].status)]
      BY <1>3, <2>3 DEF DisablePrepared, Restate
    <3>2. code[c].status \in Statuses
      BY <2>1 DEF TypeOK, CodeRows
    <3> QED
      BY <2>1, <3>1, <3>2, Restated DEF TypeOK, Unspent
  <2> QED
    BY <2>2, <2>3
<1>4. ASSUME NEW k \in Calls, ActivatePrepared(k) PROVE Unspent
  <2>1. /\ StatusOnly
        /\ \A d \in Codes : code'[d].status = "redeemed" => code[d].status = "redeemed"
    BY <1>4, Activation DEF OfUser
  <2> QED
    BY <2>1 DEF Unspent, StatusOnly
<1>5. ASSUME NEW c \in Codes, NEW n \in Nows, NEW days \in 1..RedeemDays,
             IssueAdminCode(c, n, days)
      PROVE Unspent
  <2>1. code' = [code EXCEPT ![c] = AdminRow(n, days)]
    BY <1>5 DEF IssueAdminCode, AdminRow
  <2> QED
    BY <2>1, NowsType, AdminRowType DEF Unspent, TypeOK
<1>6. ASSUME NEW c \in Codes, NEW n \in Nows, RedeemTooLate(c, n) PROVE Unspent
  BY <1>2, <1>6 DEF RedeemTooLate, Restate, Statuses
<1>7. ASSUME NEW u \in Users, NEW c \in Codes, NEW n \in Nows, RedeemAdmin(u, c, n)
      PROVE  Unspent
  <2>1. MarkRedeemed(c, u, n) /\ code[c].status # "unissued" /\ code[c].source = "admin"
    BY <1>7 DEF RedeemAdmin, Redeemable
  <2> QED
    BY <2>1, NowsType, MarkedRedeemed DEF Unspent
<1> QED
  <2>1. CASE CodeStep
    BY <1>1, <1>3, <1>4, <1>5, <1>6, <2>1, PrepareSpares
       DEF CodeStep, MailAccepted, MailFails, StoreUnavailable, Crash
  <2>2. CASE AccountStep
    BY <1>1, <1>7, <2>2
       DEF AccountStep, ConsumeLlmQuota, AdjustDays, AdjustExpiry, AdjustQuota, Adjusted, codes
  <2>3. CASE BillingStep
    BY <1>1, <2>3 DEF BillingStep, CreateOrder, SettlePaidOrder, codes
  <2>4. CASE Tick \/ UNCHANGED vars
    BY <1>1, <2>4 DEF Tick, vars, codes
  <2> QED
    BY <2>1, <2>2, <2>3, <2>4 DEF Next

LEMMA ClockGrows == ASSUME TypeOK, [Next]_vars PROVE clock <= clock'
<1>1. CASE Tick
  BY <1>1 DEF Tick, TypeOK
<1>2. CASE UNCHANGED clock
  BY <1>2 DEF TypeOK
<1>3. CASE CodeStep \/ BillingStep \/ UNCHANGED vars
  <2>1. UNCHANGED clock
    BY <1>3 DEF CodeStep, Prepare, MailAccepted, MailFails, DisablePrepared, ActivatePrepared,
       StoreUnavailable, Crash, IssueAdminCode, RedeemTooLate,
       BillingStep, CreateOrder, SettlePaidOrder, vars
  <2> QED
    BY <1>2, <2>1
<1>4. CASE AccountStep
  <2>1. UNCHANGED clock
    BY <1>4 DEF AccountStep, RedeemSelfService, RedeemAdmin, ConsumeLlmQuota,
       AdjustDays, AdjustExpiry, AdjustQuota, Adjusted
  <2> QED
    BY <1>2, <2>1
<1> QED
  BY <1>1, <1>3, <1>4 DEF Next

\* An expiry that is not revoked stays behind every redemption.
LEMMA Kept ==
  ASSUME TypeOK, TypeOK', Linked, [Next]_vars, ~Revokes, NEW u \in Users,
         NEW t \in Nat, t <= clock, t < entitlement[u].expires
  PROVE  t <= clock' /\ t < entitlement'[u].expires
<1>0. /\ clock \in Nat /\ clock' \in Nat
      /\ entitlement[u].expires \in Nat /\ entitlement'[u].expires \in Nat
  BY DEF TypeOK, Entitlements
<1>1. t <= clock'
  BY <1>0, ClockGrows
<1>2. CASE entitlement'[u].expires >= entitlement[u].expires
  BY <1>0, <1>1, <1>2
<1>3. ASSUME NEW extra \in QuotaAdds \cup {0}, NEW until \in 1..MaxExpires,
             AdjustExpiry(u, until, extra)
      PROVE  t < entitlement'[u].expires
  <2>1. until \in Nat /\ extra \in Nat /\ until > clock
    BY <1>3, CreditAssumption DEF AdjustExpiry
  <2>2. entitlement'[u].expires = until
    BY <1>3, <2>1, AdjustedExpiry DEF AdjustExpiry
  <2> QED
    BY <1>0, <2>1, <2>2
<1> QED
  BY <1>1, <1>2, <1>3, Grows DEF Shortens

LEMMA FollowedStep ==
  ASSUME TypeOK, TypeOK', Linked, Followed, [Next]_vars, ~Revokes
  PROVE  Followed'
<1>0. \A d \in Codes : code[d].redeemedAt \in Nat
  BY DEF TypeOK, CodeRows
<1>1. CASE Unspent
  <2> SUFFICES ASSUME NEW u \in Users, NEW d \in Codes, OfUser(d, u, "redeemed")'
               PROVE  /\ code'[d].redeemedAt <= clock'
                      /\ code'[d].redeemedAt < entitlement'[u].expires
    BY DEF Followed
  <2>1. OfUser(d, u, "redeemed") /\ code'[d].redeemedAt = code[d].redeemedAt
    BY <1>1 DEF Unspent, OfUser
  <2>2. code[d].redeemedAt <= clock /\ code[d].redeemedAt < entitlement[u].expires
    BY <2>1 DEF Followed
  <2> QED
    BY <1>0, <2>1, <2>2, Kept
<1>2. ASSUME NEW v \in Users, NEW c \in Codes, NEW n \in Nows, RedeemSelfService(v, c, n)
      PROVE  Followed'
  <2> SUFFICES ASSUME NEW u \in Users, NEW d \in Codes, OfUser(d, u, "redeemed")'
               PROVE  /\ code'[d].redeemedAt <= clock'
                      /\ code'[d].redeemedAt < entitlement'[u].expires
    BY DEF Followed
  <2>1. n \in Nat /\ n <= clock /\ n < n + PassDays
    BY NowsType, TimeAssumption
  <2>2. MarkRedeemed(c, v, n) /\ code[c].status # "unissued" /\ code[c].owner = v
    BY <1>2 DEF RedeemSelfService, Redeemable
  <2>3. /\ code'[c].redeemedAt = n /\ code'[c].owner = v
        /\ \A b \in Codes \ {c} : code'[b] = code[b]
    BY <2>1, <2>2, MarkedRedeemed
  <2>4. clock' = clock /\ entitlement'[v].expires = n + PassDays
    BY <1>2 DEF RedeemSelfService, TypeOK
  <2>5. CASE d = c
    BY <2>1, <2>3, <2>4, <2>5 DEF OfUser
  <2>6. CASE d # c
    <3>1. OfUser(d, u, "redeemed") /\ code'[d].redeemedAt = code[d].redeemedAt
      BY <2>3, <2>6 DEF OfUser
    <3>2. code[d].redeemedAt <= clock /\ code[d].redeemedAt < entitlement[u].expires
      BY <3>1 DEF Followed
    <3> QED
      BY <1>0, <3>1, <3>2, Kept
  <2> QED
    BY <2>5, <2>6
<1> QED
  BY <1>1, <1>2, SpentByRedemption

LEMMA SpareStep ==
  ASSUME TypeOK, Linked, CodeInv, Followed, NoSpareCode, [Next]_vars
  PROVE  NoSpareCode'
<1>1. CASE Unspent /\ NothingEnabled
  BY <1>1 DEF Unspent, NothingEnabled, NoSpareCode, OfUser
<1>2. ASSUME NEW k \in Calls, NEW u \in Users, NEW c \in Codes, NEW n \in Nows,
             Prepare(k, u, c, n)
      PROVE  NoSpareCode'
  BY <1>1, <1>2, PrepareSpares
<1>3. ASSUME NEW v \in Users, NEW c \in Codes, NEW n \in Nows, RedeemSelfService(v, c, n)
      PROVE  NoSpareCode'
  <2>1. /\ MarkRedeemed(c, v, n) /\ code[c].status # "unissued"
        /\ OfUser(c, v, "active")
    BY <1>3 DEF RedeemSelfService, Redeemable, OfUser
  <2>2. /\ code'[c].status = "redeemed" /\ code'[c].owner = v
        /\ \A b \in Codes \ {c} : code'[b] = code[b]
    BY <2>1, NowsType, MarkedRedeemed DEF OfUser
  <2>3. \A a \in Codes, u \in Users :
          OfUser(a, u, "active")' => a # c /\ u # v /\ OfUser(a, u, "active")
    BY <2>1, <2>2 DEF OfUser, CodeInv, OneActiveCode
  <2>4. \A d \in Codes, u \in Users :
          u # v /\ OfUser(d, u, "redeemed")' => d # c /\ OfUser(d, u, "redeemed")
    BY <2>2 DEF OfUser
  <2> QED
    BY <2>2, <2>3, <2>4 DEF NoSpareCode
<1>4. ASSUME NEW k \in Calls, ActivatePrepared(k) PROVE NoSpareCode'
  <2>1. StatusOnly
    BY <1>4, Activation
  <2>2. CASE \A d \in Codes : code'[d].status = code[d].status \/ code'[d].status = "disabled"
    <3>1. Unspent /\ NothingEnabled
      BY <2>1, <2>2 DEF Unspent, NothingEnabled, StatusOnly
    <3> QED
      BY <1>1, <3>1
  <2>3. ASSUME NEW c \in Codes, NEW u \in Users,
               OfUser(c, u, "pending_delivery"),
               ~ActiveAt(u, code[c].created),
               code'[c].status = "active",
               \A d \in Codes \ {c} :
                 IF OfUser(d, u, "active")
                 THEN code'[d].status = "disabled"
                 ELSE code'[d].status = code[d].status
        PROVE  NoSpareCode'
    <3> SUFFICES ASSUME NEW v \in Users, NEW a \in Codes, NEW d \in Codes,
                        OfUser(a, v, "active")', OfUser(d, v, "redeemed")'
                 PROVE  code'[d].redeemedAt < code'[a].created
      BY DEF NoSpareCode
    <3>1. OfUser(d, v, "redeemed")
      BY <2>1, <2>3 DEF OfUser, StatusOnly
    <3>2. CASE a = c
      <4>1. v = u
        BY <2>1, <2>3, <3>2 DEF OfUser, StatusOnly
      <4>2. /\ code[d].redeemedAt \in Nat /\ entitlement[u].expires \in Nat
            /\ code[c].created \in Nat
        BY DEF TypeOK, CodeRows, Entitlements
      <4>3. code[d].redeemedAt < entitlement[u].expires
        BY <3>1, <4>1 DEF Followed
      <4> QED
        BY <2>1, <2>3, <3>2, <4>2, <4>3 DEF ActiveAt, StatusOnly
    <3>3. CASE a # c
      <4>1. OfUser(a, v, "active")
        BY <2>1, <2>3, <3>3 DEF OfUser, StatusOnly
      <4> QED
        BY <2>1, <3>1, <4>1 DEF NoSpareCode, StatusOnly
    <3> QED
      BY <3>2, <3>3
  <2> QED
    BY <1>4, <2>2, <2>3, Activation
<1>5. CASE /\ ~ \E k \in Calls, u \in Users, c \in Codes, n \in Nows : Prepare(k, u, c, n)
           /\ ~ \E k \in Calls : ActivatePrepared(k)
           /\ ~ \E u \in Users, c \in Codes, n \in Nows : RedeemSelfService(u, c, n)
  <2>1. Quiet /\ Unspent
    BY <1>5, OthersQuiet, SpentByRedemption
  <2>2. NothingEnabled
    BY <2>1 DEF Quiet, NothingEnabled
  <2> QED
    BY <1>1, <2>1, <2>2
<1> QED
  BY <1>2, <1>3, <1>4, <1>5

\* While no administrator sets an expiry that has passed, no self-service code
\* whose request began before a redemption is good after it (NoSpareCode).
THEOREM NoCodeToSpare == ~Revokes => (Spec => []NoSpareCode)
<1> SUFFICES ASSUME ~Revokes PROVE Spec => []NoSpareCode
  OBVIOUS
<1> DEFINE Inv == TypeOK /\ Linked /\ CodeInv /\ Followed /\ NoSpareCode
<1>1. Init => Inv
  <2>1. Init => Followed /\ NoSpareCode
    BY DEF Init, Unissued, Followed, NoSpareCode, OfUser
  <2> QED
    BY <2>1, InitTyped, CodeInvInit
<1>2. Inv /\ [Next]_vars => Inv'
  BY StepTyped, CodeInvStep, FollowedStep, SpareStep
<1> QED
  BY <1>1, <1>2, PTL DEF Spec
-----------------------------------------------------------------------------
(* Mails *)

MailInv ==
  /\ \A k \in Calls : call[k].at = "enable" => call[k].code \in mailed
  /\ \A c \in Codes :
       code[c].source = "self_service_email" /\ code[c].status = "active" => c \in mailed
  /\ RedeemedWasMailed

LEMMA MailedGrows == ASSUME [Next]_vars PROVE mailed \subseteq mailed'
<1>1. CASE CodeStep \/ Tick \/ UNCHANGED vars
  BY <1>1 DEF CodeStep, Prepare, MailAccepted, MailFails, DisablePrepared, ActivatePrepared,
     StoreUnavailable, Crash, IssueAdminCode, RedeemTooLate, Tick, codes, vars
<1>2. CASE AccountStep
  <2>1. UNCHANGED mailed
    <3>1. \A u, c, n : RedeemSelfService(u, c, n) \/ RedeemAdmin(u, c, n) => UNCHANGED mailed
      BY DEF RedeemSelfService, RedeemAdmin
    <3>2. \A u, r, n : ConsumeLlmQuota(u, r, n) => UNCHANGED mailed
      BY DEF ConsumeLlmQuota, codes
    <3>3. \A u, until, extra : Adjusted(u, until, extra) => UNCHANGED mailed
      BY DEF Adjusted, codes
    <3> QED
      BY <1>2, <3>1, <3>2, <3>3 DEF AccountStep, AdjustDays, AdjustExpiry, AdjustQuota
  <2> QED
    BY <2>1
<1>3. CASE BillingStep
  BY <1>3 DEF BillingStep, CreateOrder, SettlePaidOrder, codes
<1> QED
  BY <1>1, <1>2, <1>3 DEF Next

\* A call gets to the enabling of its code through MailAccepted alone.
LEMMA EnableAfterMail ==
  ASSUME TypeOK, [Next]_vars
  PROVE  \A k \in Calls : call'[k].at = "enable" =>
           \/ call'[k] = call[k]
           \/ MailAccepted(k) /\ call'[k].code = call[k].code
<1> SUFFICES ASSUME NEW k \in Calls, call'[k].at = "enable", call'[k] # call[k]
             PROVE  MailAccepted(k) /\ call'[k].code = call[k].code
  OBVIOUS
<1>1. ~ UNCHANGED call
  OBVIOUS
<1>2. ~Tick /\ ~UNCHANGED vars /\ ~BillingStep
  BY <1>1 DEF Tick, vars, codes, BillingStep, CreateOrder, SettlePaidOrder
<1>3. ~AccountStep
  <2>1. \A u, c, n : RedeemSelfService(u, c, n) \/ RedeemAdmin(u, c, n) => UNCHANGED call
    BY DEF RedeemSelfService, RedeemAdmin
  <2>2. \A u, r, n : ConsumeLlmQuota(u, r, n) => UNCHANGED call
    BY DEF ConsumeLlmQuota, codes
  <2>3. \A u, until, extra : Adjusted(u, until, extra) => UNCHANGED call
    BY DEF Adjusted, codes
  <2> QED
    BY <1>1, <2>1, <2>2, <2>3 DEF AccountStep, AdjustDays, AdjustExpiry, AdjustQuota
<1>4. CodeStep
  BY <1>2, <1>3 DEF Next
<1>5. ~Crash
  BY DEF Crash, Idle
<1>6. ASSUME NEW j \in Calls, NEW u \in Users, NEW c \in Codes, NEW n \in Nows,
             Prepare(j, u, c, n)
      PROVE  FALSE
  BY <1>6 DEF Prepare, TypeOK
<1>7. ASSUME NEW c \in Codes, NEW n \in Nows,
             RedeemTooLate(c, n) \/ \E days \in 1..RedeemDays : IssueAdminCode(c, n, days)
      PROVE  FALSE
  BY <1>1, <1>7 DEF IssueAdminCode, RedeemTooLate
<1>8. PICK j \in Calls : MailAccepted(j) \/ MailFails(j) \/ DisablePrepared(j)
                         \/ ActivatePrepared(j) \/ StoreUnavailable(j)
  BY <1>4, <1>5, <1>6, <1>7 DEF CodeStep
<1>9. j = k /\ MailAccepted(j)
  <2>1. ~MailFails(j)
    BY DEF MailFails, TypeOK, CallStates
  <2>2. ~DisablePrepared(j) /\ ~ActivatePrepared(j) /\ ~StoreUnavailable(j)
    BY DEF DisablePrepared, ActivatePrepared, StoreUnavailable, TypeOK, Idle
  <2>3. MailAccepted(j)
    BY <1>8, <2>1, <2>2
  <2> QED
    BY <2>3 DEF MailAccepted, TypeOK
<1> QED
  BY <1>9 DEF MailAccepted, TypeOK, CallStates

LEMMA MailStep ==
  ASSUME TypeOK, Linked, MailInv, [Next]_vars
  PROVE  MailInv'
<1>1. \A k \in Calls : call'[k].at = "enable" => call'[k].code \in mailed'
  <2>1. \A k \in Calls : MailAccepted(k) => call[k].code \in mailed'
    BY DEF MailAccepted
  <2> QED
    BY <2>1, MailedGrows, EnableAfterMail DEF MailInv
<1>2. \A c \in Codes :
        code'[c].source = "self_service_email" /\ code'[c].status = "active" => c \in mailed'
  <2>1. CASE NothingEnabled
    BY <2>1, MailedGrows DEF NothingEnabled, MailInv
  <2>2. ASSUME NEW k \in Calls, NEW u \in Users, NEW c \in Codes, NEW n \in Nows,
               Prepare(k, u, c, n)
        PROVE  NothingEnabled
    BY <2>2, PrepareSpares
  <2>3. ASSUME NEW k \in Calls, ActivatePrepared(k),
               NEW d \in Codes, code'[d].source = "self_service_email", code'[d].status = "active"
        PROVE  d \in mailed'
    <3>1. call[k].code \in mailed /\ UNCHANGED mailed
      BY <2>3 DEF ActivatePrepared, MailInv
    <3>2. d = call[k].code \/ (code[d].status = "active" /\ code[d].source = "self_service_email")
      BY <2>3, Activation DEF StatusOnly
    <3> QED
      BY <3>1, <3>2 DEF MailInv
  <2>4. CASE /\ ~ \E k \in Calls, u \in Users, c \in Codes, n \in Nows : Prepare(k, u, c, n)
             /\ ~ \E k \in Calls : ActivatePrepared(k)
    <3>1. Quiet
      BY <2>4, OthersQuiet
    <3>2. NothingEnabled
      BY <3>1 DEF Quiet, NothingEnabled
    <3> QED
      BY <2>1, <3>2
  <2> QED
    BY <2>1, <2>2, <2>3, <2>4
<1>3. RedeemedWasMailed'
  <2>1. CASE Unspent
    BY <2>1, MailedGrows DEF Unspent, MailInv, RedeemedWasMailed
  <2>2. ASSUME NEW u \in Users, NEW c \in Codes, NEW n \in Nows, RedeemSelfService(u, c, n)
        PROVE  RedeemedWasMailed'
    <3>1. /\ MarkRedeemed(c, u, n) /\ code[c].status = "active"
          /\ code[c].source = "self_service_email" /\ code[c].owner = u
      BY <2>2 DEF RedeemSelfService, Redeemable
    <3>2. /\ code'[c].redeemer = u /\ code'[c].owner = u
          /\ \A d \in Codes \ {c} : code'[d] = code[d]
      BY <3>1, NowsType, MarkedRedeemed
    <3> QED
      BY <3>1, <3>2, MailedGrows DEF MailInv, RedeemedWasMailed
  <2> QED
    BY <2>1, <2>2, SpentByRedemption
<1> QED
  BY <1>1, <1>2, <1>3 DEF MailInv

\* A redeemed self-service code was mailed, and redeemed by the user it was
\* mailed to (RedeemedWasMailed).
THEOREM MailedBeforeRedeemed == Spec => []RedeemedWasMailed
<1>1. Init => MailInv
  BY NoneAssumption DEF Init, MailInv, RedeemedWasMailed, Unissued, Idle
<1>2. TypeOK /\ Linked /\ MailInv /\ [Next]_vars => MailInv'
  BY MailStep
<1>3. MailInv => RedeemedWasMailed
  BY DEF MailInv
<1> QED
  BY <1>1, <1>2, <1>3, InitTyped, StepTyped, PTL DEF Spec

-----------------------------------------------------------------------------
(* The credits and the orders: the rows implement CreditLedger, no credit  *)
(* is used that was not granted, and no order is settled twice.            *)
(*                                                                         *)
(* Everything follows from what one step may do to the balance of a user   *)
(* (LedgerStep): nothing, spend one credit for one request, or grant an    *)
(* amount on top of the balance or in place of it.  A replaced balance is  *)
(* never larger than the grant, so CreditsCovered is preserved whatever    *)
(* window was thrown away.                                                 *)

Left(u) == entitlement[u].limit - entitlement[u].used

Spends(u, r) == Ledger!Spend(u, r) /\ UNCHANGED granted

Grants(u, n) ==
  /\ Ledger!Credit(u, n)
  /\ granted' = [granted EXCEPT ![u] = @ + n]

\* A step that leaves credits and charges alone.
NoCredit == UNCHANGED <<[u \in Users |-> Left(u)], charged, granted>>

LEMMA LeftType ==
  ASSUME TypeOK
  PROVE  \A u \in Users :
           /\ entitlement[u].limit \in Nat /\ entitlement[u].used \in Nat
           /\ entitlement[u].expires \in Nat
           /\ Left(u) \in Nat
BY DEF TypeOK, Entitlements, Left

\* One user's entitlement is replaced by e.
LEMMA LeftSet ==
  ASSUME TypeOK, NEW u \in Users, NEW e \in Entitlements,
         entitlement' = [entitlement EXCEPT ![u] = e]
  PROVE  [v \in Users |-> Left(v)]'
           = [[v \in Users |-> Left(v)] EXCEPT ![u] = e.limit - e.used]
BY DEF TypeOK, Left

LEMMA AdjustedGrants ==
  ASSUME TypeOK, NEW u \in Users, NEW until \in Nat, NEW extra \in Nat,
         Adjusted(u, until, extra)
  PROVE  IF extra = 0 THEN NoCredit ELSE Grants(u, extra)
<1> DEFINE e == [entitlement[u] EXCEPT !.row = TRUE, !.expires = until,
                                !.limit = entitlement[u].limit + extra]
           balance == [v \in Users |-> Left(v)]
<1>1. /\ entitlement[u] \in Entitlements
      /\ entitlement[u].limit \in Nat /\ entitlement[u].used \in Nat
  BY DEF TypeOK, Entitlements
<1>2. /\ e \in Entitlements
      /\ e.limit = entitlement[u].limit + extra /\ e.used = entitlement[u].used
  <2>1. entitlement[u].limit + extra \in Nat
    BY <1>1
  <2> QED
    BY <1>1, <2>1 DEF Entitlements
<1>3. entitlement' = [entitlement EXCEPT ![u] = e]
  BY DEF Adjusted
<1> HIDE DEF e
<1>4. e.limit - e.used = Left(u) + extra
  BY <1>1, <1>2 DEF Left
<1>5. balance' = [balance EXCEPT ![u] = Left(u) + extra]
  BY <1>2, <1>3, <1>4, LeftSet
<1>6. UNCHANGED charged /\ granted' = [granted EXCEPT ![u] = @ + extra]
  BY DEF Adjusted
<1>7. CASE extra = 0
  <2>1. Left(u) + extra = balance[u]
    BY <1>7, LeftType
  <2>2. balance' = balance
    BY <1>5, <2>1
  <2>3. granted' = granted
    BY <1>6, <1>7 DEF TypeOK
  <2> QED
    BY <1>6, <1>7, <2>2, <2>3 DEF NoCredit
<1>8. CASE extra # 0
  BY <1>5, <1>6, <1>8 DEF Grants, Ledger!Credit, Left
<1> QED
  BY <1>7, <1>8

LEMMA LedgerStep ==
  ASSUME TypeOK, Linked, [Next]_vars
  PROVE  \/ NoCredit
         \/ \E u \in Users, r \in RequestIds : Spends(u, r)
         \/ \E u \in Users, n \in {Credits} \cup QuotaAdds : Grants(u, n)
<1> DEFINE balance == [v \in Users |-> Left(v)]
<1>1. CASE UNCHANGED <<entitlement, charged, granted>>
  BY <1>1 DEF NoCredit, Left
<1>2. ASSUME NEW u \in Users, NEW c \in Codes, NEW n \in Nows,
             RedeemSelfService(u, c, n) \/ RedeemAdmin(u, c, n)
      PROVE  Grants(u, Credits)
  <2>1. n \in Nat /\ n + PassDays \in Nat /\ Credits \in Nat /\ PassDays \in Nat
    BY NowsType, TimeAssumption, CreditAssumption
  <2>2. PICK e \in Entitlements :
          /\ entitlement' = [entitlement EXCEPT ![u] = e]
          /\ e.limit - e.used \in {Left(u) + Credits, Credits}
    <3> DEFINE fresh == [row |-> TRUE, expires |-> n + PassDays, limit |-> Credits, used |-> 0]
               top == [row |-> TRUE, expires |-> entitlement[u].expires + PassDays,
                       limit |-> entitlement[u].limit + Credits, used |-> entitlement[u].used]
    <3>1. fresh \in Entitlements /\ fresh.limit - fresh.used = Credits
      BY <2>1 DEF Entitlements
    <3>2. top \in Entitlements /\ top.limit - top.used = Left(u) + Credits
      BY <2>1, LeftType DEF Entitlements, Left
    <3>3. \/ entitlement' = [entitlement EXCEPT ![u] = fresh]
          \/ entitlement' = [entitlement EXCEPT ![u] = top]
      BY <1>2 DEF RedeemSelfService, RedeemAdmin, Stacked
    <3> HIDE DEF fresh, top
    <3> QED
      BY <3>1, <3>2, <3>3
  <2>3. \/ balance' = [balance EXCEPT ![u] = @ + Credits]
        \/ balance' = [balance EXCEPT ![u] = Credits]
    BY <2>2, LeftSet
  <2>4. UNCHANGED charged /\ granted' = [granted EXCEPT ![u] = @ + Credits]
    BY <1>2 DEF RedeemSelfService, RedeemAdmin
  <2> QED
    BY <2>3, <2>4 DEF Grants, Ledger!Credit, Left
<1>3. ASSUME NEW u \in Users, NEW r \in RequestIds, NEW n \in Nows, ConsumeLlmQuota(u, r, n)
      PROVE  Spends(u, r)
  <2> DEFINE e == [entitlement[u] EXCEPT !.used = entitlement[u].used + 1]
  <2>1. entitlement[u] \in Entitlements /\ entitlement[u].used + 1 \in Nat
    BY DEF TypeOK, Entitlements
  <2>2. e \in Entitlements /\ e.limit - e.used = Left(u) - 1
    BY <2>1 DEF Entitlements, Left
  <2>3. entitlement' = [entitlement EXCEPT ![u] = e]
    BY <1>3 DEF ConsumeLlmQuota
  <2> HIDE DEF e
  <2>4. balance' = [balance EXCEPT ![u] = @ - 1]
    BY <2>2, <2>3, LeftSet
  <2>5. balance[u] > 0
    BY <1>3, LeftType DEF ConsumeLlmQuota, CreditLeft, Left
  <2> QED
    BY <1>3, <2>4, <2>5 DEF ConsumeLlmQuota, Reused, Spends, Ledger!Spend, Left
<1>4. ASSUME NEW u \in Users, NEW n \in Nat, NEW o \in Orders, ExtendMonthlyPass(u, o, n),
             UNCHANGED <<charged, granted>>
      PROVE  NoCredit
  <2> DEFINE e == [entitlement[u] EXCEPT !.row = TRUE, !.expires = PassExpires(u, n)]
  <2>1. entitlement[u] \in Entitlements /\ PassExpires(u, n) \in Nat
    BY TimeAssumption DEF TypeOK, Entitlements, PassExpires, Latest
  <2>2. e \in Entitlements /\ e.limit - e.used = balance[u]
    BY <2>1 DEF Entitlements, Left
  <2>3. entitlement' = [entitlement EXCEPT ![u] = e]
    BY <1>4 DEF ExtendMonthlyPass
  <2> HIDE DEF e
  <2>4. balance' = balance
    BY <2>2, <2>3, LeftSet
  <2> QED
    BY <1>4, <2>4 DEF NoCredit
<1>5. CASE AccountStep
  <2>1. QuotaAdds \cup {0} \subseteq Nat
    BY CreditAssumption
  <2>2. \A u \in Users, n \in Nows : Latest(entitlement[u].expires, n) + PassDays \in Nat
    BY NowsType, TimeAssumption, LeftType DEF Latest
  <2>3. ASSUME NEW u \in Users, NEW until \in Nat, NEW extra \in QuotaAdds \cup {0},
               Adjusted(u, until, extra)
        PROVE  NoCredit \/ \E n \in {Credits} \cup QuotaAdds : Grants(u, n)
    BY <2>1, <2>3, AdjustedGrants
  <2> QED
    BY <1>2, <1>3, <1>5, <2>1, <2>2, <2>3, LeftType
       DEF AccountStep, AdjustDays, AdjustExpiry, AdjustQuota
<1>6. CASE BillingStep
  <2>1. ASSUME NEW e \in Events, NEW o \in Orders, NEW t \in Transactions,
               NEW paidAt \in 1..clock, SettlePaidOrder(e, o, t, paidAt)
        PROVE  NoCredit
    <3>1. paidAt \in Nat /\ order[o].paidAt \in Nat
      BY DEF TypeOK, OrderRows
    <3>2. order[o].status # "none" => order[o].user \in Users
      BY DEF Linked
    <3>3. UNCHANGED <<charged, granted>>
      BY <2>1 DEF SettlePaidOrder
    <3>4. CASE UNCHANGED entitlement
      BY <3>3, <3>4 DEF NoCredit, Left
    <3>5. CASE \E n \in Nat : order[o].user \in Users /\ ExtendMonthlyPass(order[o].user, o, n)
      BY <1>4, <3>3, <3>5
    <3> QED
      BY <2>1, <3>1, <3>2, <3>4, <3>5 DEF SettlePaidOrder, SettleAgain, SettleFirst
  <2> QED
    BY <1>1, <1>6, <2>1 DEF BillingStep, CreateOrder, accounts
<1>7. CASE CodeStep
  BY <1>1, <1>7 DEF CodeStep, Prepare, MailAccepted, MailFails, DisablePrepared,
     ActivatePrepared, StoreUnavailable, Crash, IssueAdminCode, RedeemTooLate, accounts
<1> QED
  BY <1>1, <1>5, <1>6, <1>7 DEF Next, Tick, vars, accounts

LEMMA LedgerInit == ASSUME Init PROVE Ledger!Init
BY DEF Init, Ledger!Init, NoRow

\* The entitlement rows and the usage events implement a ledger in which a
\* request is spent at most once, for one credit that was there
\* (RefinesCreditLedger).
THEOREM ImplementsLedger == Spec => RefinesCreditLedger
<1>1. TypeOK /\ Linked /\ [Next]_vars => [Ledger!Next]_(Ledger!vars)
  <2> SUFFICES ASSUME TypeOK, Linked, [Next]_vars PROVE [Ledger!Next]_(Ledger!vars)
    OBVIOUS
  <2>1. CASE NoCredit
    BY <2>1 DEF NoCredit, Left, Ledger!vars
  <2> QED
    BY <2>1, LedgerStep DEF Spends, Grants, Ledger!Next
<1>2. Spec => [](TypeOK /\ Linked)
  BY InitTyped, StepTyped, PTL DEF Spec
<1> QED
  BY <1>1, <1>2, LedgerInit, PTL DEF Spec, RefinesCreditLedger, Ledger!Spec
-----------------------------------------------------------------------------
(* Credits *)

CreditInv == CreditsCovered /\ \A u \in Users : IsFiniteSet(charged[u])

LEMMA CreditStep == ASSUME TypeOK, Linked, CreditInv, [Next]_vars PROVE CreditInv'
<1> DEFINE balance == [v \in Users |-> Left(v)]
<1>0. /\ \A u \in Users : Left(u) \in Nat /\ granted[u] \in Nat
      /\ \A u \in Users : IsFiniteSet(charged[u]) /\ Cardinality(charged[u]) \in Nat
      /\ \A u \in Users : Cardinality(charged[u]) + Left(u) <= granted[u]
  BY LeftType, FS_CardinalityType DEF CreditInv, CreditsCovered, TypeOK, Left
<1>1. SUFFICES \A u \in Users :
                 IsFiniteSet(charged'[u])
                 /\ Cardinality(charged'[u]) + Left(u)' <= granted'[u]
  BY DEF CreditInv, CreditsCovered, Left
<1>2. CASE NoCredit
  <2>1. \A u \in Users : balance'[u] = balance[u]
    BY <1>2 DEF NoCredit
  <2>2. \A u \in Users : Left(u)' = Left(u)
    BY <2>1
  <2> QED
    BY <1>0, <1>2, <2>2 DEF NoCredit
<1>3. ASSUME NEW u \in Users, NEW r \in RequestIds, Spends(u, r),
             NEW v \in Users
      PROVE  IsFiniteSet(charged'[v])
             /\ Cardinality(charged'[v]) + Left(v)' <= granted'[v]
  <2>1. /\ balance' = [balance EXCEPT ![u] = @ - 1]
        /\ charged' = [charged EXCEPT ![u] = @ \cup {r}]
        /\ r \notin charged[u] /\ granted' = granted
    BY <1>3 DEF Spends, Ledger!Spend, Left
  <2>2. balance'[v] = IF v = u THEN balance[v] - 1 ELSE balance[v]
    BY <2>1
  <2>3. Left(v)' = IF v = u THEN Left(v) - 1 ELSE Left(v)
    BY <2>2
  <2>4. /\ IsFiniteSet(charged[u] \cup {r})
        /\ Cardinality(charged[u] \cup {r}) = Cardinality(charged[u]) + 1
    BY <1>0, <2>1, FS_AddElement
  <2>5. charged'[v] = IF v = u THEN charged[u] \cup {r} ELSE charged[v]
    BY <2>1 DEF TypeOK
  <2> QED
    BY <1>0, <2>1, <2>3, <2>4, <2>5
<1>4. ASSUME NEW u \in Users, NEW n \in {Credits} \cup QuotaAdds, Grants(u, n),
             NEW v \in Users
      PROVE  IsFiniteSet(charged'[v])
             /\ Cardinality(charged'[v]) + Left(v)' <= granted'[v]
  <2>1. /\ \/ balance' = [balance EXCEPT ![u] = @ + n]
           \/ balance' = [balance EXCEPT ![u] = n]
        /\ charged' = charged /\ granted' = [granted EXCEPT ![u] = @ + n]
    BY <1>4 DEF Grants, Ledger!Credit, Left
  <2>2. n \in Nat
    BY CreditAssumption
  <2>3. \/ v # u /\ balance'[v] = balance[v]
        \/ v = u /\ balance'[v] \in {balance[v] + n, n}
    BY <2>1
  <2>4. \/ v # u /\ Left(v)' = Left(v)
        \/ v = u /\ Left(v)' \in {Left(v) + n, n}
    BY <2>3
  <2>5. granted'[v] = IF v = u THEN granted[v] + n ELSE granted[v]
    BY <2>1 DEF TypeOK
  <2> QED
    BY <1>0, <2>1, <2>2, <2>4, <2>5
<1> QED
  BY <1>2, <1>3, <1>4, LedgerStep

\* No credit is charged or left that was not handed out (CreditsCovered).
THEOREM CreditsAreCovered == Spec => []CreditsCovered
<1>1. Init => CreditInv
  BY FS_EmptySet DEF Init, CreditInv, CreditsCovered, NoRow
<1>2. TypeOK /\ Linked /\ CreditInv /\ [Next]_vars => CreditInv'
  BY CreditStep
<1>3. CreditInv => CreditsCovered
  BY DEF CreditInv
<1> QED
  BY <1>1, <1>2, <1>3, InitTyped, StepTyped, PTL DEF Spec
-----------------------------------------------------------------------------
(* Orders *)

\* The row of an entitlement is never lost, and only a settlement counts a pass.
LEMMA RowStays ==
  ASSUME TypeOK, Linked, [Next]_vars
  PROVE  /\ \A u \in Users : entitlement[u].row => entitlement'[u].row
         /\ \/ UNCHANGED passes /\ \A o \in Orders : order[o].status = "paid" => order'[o] = order[o]
            \/ \E e \in Events, o \in Orders, t \in Transactions, paidAt \in 1..clock :
                 SettlePaidOrder(e, o, t, paidAt)
<1> DEFINE Stays == \A u \in Users : entitlement[u].row => entitlement'[u].row
<1>1. CASE AccountStep
  <2>1. UNCHANGED <<order, passes>>
    <3>1. \A u, until, extra : Adjusted(u, until, extra) => UNCHANGED <<order, passes>>
      BY DEF Adjusted, billing
    <3>2. \A u, c, n : RedeemSelfService(u, c, n) \/ RedeemAdmin(u, c, n)
                         => UNCHANGED <<order, passes>>
      BY DEF RedeemSelfService, RedeemAdmin, billing
    <3>3. \A u, r, n : ConsumeLlmQuota(u, r, n) => UNCHANGED <<order, passes>>
      BY DEF ConsumeLlmQuota, billing
    <3> QED
      BY <1>1, <3>1, <3>2, <3>3 DEF AccountStep, AdjustDays, AdjustExpiry, AdjustQuota
  <2>2. ASSUME NEW u \in Users, NEW c \in Codes, NEW n \in Nows,
               RedeemSelfService(u, c, n) \/ RedeemAdmin(u, c, n)
        PROVE  Stays
    BY <2>2 DEF RedeemSelfService, RedeemAdmin, Stacked, TypeOK
  <2>3. ASSUME NEW u \in Users, NEW r \in RequestIds, NEW n \in Nows, ConsumeLlmQuota(u, r, n)
        PROVE  Stays
    BY <2>3 DEF ConsumeLlmQuota, TypeOK, Entitlements
  <2>4. ASSUME NEW u \in Users, NEW until, NEW extra, Adjusted(u, until, extra)
        PROVE  Stays
    BY <2>4 DEF Adjusted, TypeOK, Entitlements
  <2>5. Stays
    BY <1>1, <2>2, <2>3, <2>4 DEF AccountStep, AdjustDays, AdjustExpiry, AdjustQuota
  <2> QED
    BY <2>1, <2>5
<1>2. ASSUME NEW e \in Events, NEW o \in Orders, NEW t \in Transactions,
             NEW paidAt \in 1..clock, SettlePaidOrder(e, o, t, paidAt)
      PROVE  Stays
  <2>1. ASSUME NEW n, ExtendMonthlyPass(order[o].user, o, n) PROVE Stays
    BY <2>1 DEF ExtendMonthlyPass, TypeOK, Entitlements
  <2> QED
    BY <1>2, <2>1 DEF SettlePaidOrder, SettleAgain, SettleFirst
<1>3. ASSUME NEW u \in Users, NEW o \in Orders, CreateOrder(u, o)
      PROVE  /\ Stays /\ UNCHANGED passes
             /\ \A p \in Orders : order[p].status = "paid" => order'[p] = order[p]
  BY <1>3 DEF CreateOrder, accounts, TypeOK
<1>4. CASE CodeStep \/ Tick \/ UNCHANGED vars
  BY <1>4 DEF CodeStep, Prepare, MailAccepted, MailFails, DisablePrepared,
     ActivatePrepared, StoreUnavailable, Crash, IssueAdminCode, RedeemTooLate,
     Tick, vars, accounts, billing
<1> QED
  BY <1>1, <1>2, <1>3, <1>4 DEF Next, BillingStep

\* A settlement counts a pass for an order that has none, and leaves the order
\* paid and its user with a row.
LEMMA SettlementCounts ==
  ASSUME TypeOK, Linked, SettledOnce,
         NEW e \in Events, NEW o \in Orders, NEW t \in Transactions,
         NEW paidAt \in 1..clock, SettlePaidOrder(e, o, t, paidAt)
  PROVE  /\ \/ UNCHANGED passes
            \/ /\ passes[o] = 0 /\ passes' = [passes EXCEPT ![o] = 1]
               /\ entitlement'[order[o].user].row
               /\ order'[o].status = "paid"
         /\ \A p \in Orders :
              /\ order'[p].user = order[p].user
              /\ order[p].status = "paid" => order'[p].status = "paid"
<1>1. order[o] \in OrderRows /\ passes[o] \in Nat
  BY DEF TypeOK
<1>2. order[o].status # "none" => order[o].user \in Users
  BY DEF Linked
<1>3. \A n : order[o].user \in Users /\ ExtendMonthlyPass(order[o].user, o, n) =>
        entitlement'[order[o].user].row /\ passes' = [passes EXCEPT ![o] = passes[o] + 1]
  BY DEF ExtendMonthlyPass, TypeOK, Entitlements
<1>4. CASE SettleAgain(e, o, t)
  <2>1. order[o].status = "paid" /\ UNCHANGED order
    BY <1>4 DEF SettleAgain
  <2>2. CASE Incomplete(o, t)
    <3>1. passes[o] = 0
      BY <1>1, <2>2 DEF SettledOnce, Incomplete
    <3>2. ExtendMonthlyPass(order[o].user, o, order[o].paidAt)
      BY <1>4, <2>2 DEF SettleAgain
    <3>3. order[o].user \in Users
      BY <1>2, <2>1
    <3> QED
      BY <1>3, <2>1, <3>1, <3>2, <3>3
  <2>3. CASE ~Incomplete(o, t)
    BY <1>4, <2>1, <2>3 DEF SettleAgain
  <2> QED
    BY <2>2, <2>3
<1>5. CASE SettleFirst(e, o, t, paidAt)
  <2>1. order[o].status = "pending"
    BY <1>5 DEF SettleFirst
  <2>2. passes[o] = 0
    BY <1>1, <2>1 DEF SettledOnce
  <2>3. /\ order'[o].status = "paid"
        /\ \A p \in Orders :
             /\ order'[p].user = order[p].user
             /\ order[p].status = "paid" => order'[p].status = "paid"
    BY <1>5 DEF SettleFirst, TypeOK, OrderRows
  <2>4. ExtendMonthlyPass(order[o].user, o, paidAt)
    BY <1>5 DEF SettleFirst
  <2> QED
    BY <1>2, <1>3, <2>1, <2>2, <2>3, <2>4
<1> QED
  BY <1>4, <1>5 DEF SettlePaidOrder

LEMMA SettledStep == ASSUME TypeOK, Linked, SettledOnce, [Next]_vars PROVE SettledOnce'
<1>1. \A u \in Users : entitlement[u].row => entitlement'[u].row
  BY RowStays
<1>2. \A o \in Orders : order[o].status = "paid" => order[o].user \in Users
  BY DEF Linked
<1>3. \A o \in Orders : passes[o] \in Nat
  BY DEF TypeOK
<1>4. CASE UNCHANGED passes /\ \A o \in Orders : order[o].status = "paid" => order'[o] = order[o]
  BY <1>1, <1>2, <1>4 DEF SettledOnce
<1>5. ASSUME NEW e \in Events, NEW o \in Orders, NEW t \in Transactions,
             NEW paidAt \in 1..clock, SettlePaidOrder(e, o, t, paidAt)
      PROVE  SettledOnce'
  <2>1. \A p \in Orders :
          /\ order'[p].user = order[p].user
          /\ order[p].status = "paid" => order'[p].status = "paid"
    BY <1>5, SettlementCounts
  <2>2. CASE UNCHANGED passes
    BY <1>1, <1>2, <2>1, <2>2 DEF SettledOnce
  <2>3. CASE /\ passes' = [passes EXCEPT ![o] = 1]
             /\ entitlement'[order[o].user].row
             /\ order'[o].status = "paid"
    <3>1. passes'[o] = 1 /\ \A p \in Orders \ {o} : passes'[p] = passes[p]
      BY <2>3 DEF TypeOK
    <3> QED
      BY <1>1, <1>2, <2>1, <2>3, <3>1 DEF SettledOnce
  <2> QED
    BY <1>5, <2>2, <2>3, SettlementCounts
<1> QED
  BY <1>4, <1>5, RowStays

\* However notifications are repeated, reordered or mixed up, and whatever old
\* rows they repair, an order is worth one pass (SettledOnce).
THEOREM OrdersSettleOnce == Spec => []SettledOnce
<1>1. Init => SettledOnce
  BY DEF Init, SettledOnce
<1>2. TypeOK /\ Linked /\ SettledOnce /\ [Next]_vars => SettledOnce'
  BY SettledStep
<1> QED
  BY <1>1, <1>2, InitTyped, StepTyped, PTL DEF Spec
=============================================================================

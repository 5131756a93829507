------------------------------ MODULE StoredProofs -----------------------------
(***************************************************************************)
(* Proofs about the components of StoredParts.  Of each there is an        *)
(* inductive invariant here, about its own variables, which its own actions*)
(* keep.                                                                   *)
(***************************************************************************)
EXTENDS StoredParts, Sequences, FiniteSetTheorems, FunctionTheorems,
        SequenceTheorems, TLAPS

-----------------------------------------------------------------------------
(* The accounts, in the store in memory (MemoryAccounts).                   *)

\* No row and no operation is None, grants are of codes or of orders, and there is
\* someone who may have paid under an older version.
VaultConstants ==
  /\ Credits \in Nat /\ PassDays \in Nat /\ MaxDays \in Nat /\ MaxAccountCalls \in Nat
  /\ None \notin Users /\ Codes \cap Orders = {} /\ Users # {} /\ Orders # {} /\ Transactions # {}
  /\ None \notin Vault!EntitlementRecord /\ None \notin Vault!ActivationCodeRecord
  /\ None \notin Vault!OrderRecord /\ None \notin Vault!WebhookEventRecord
  /\ None \notin Vault!Operations

-----------------------------------------------------------------------------
(* The accounts in the store in memory (MemoryAccounts).  An operation that *)
(* runs is judged by the tables it will have made: its writes add up to     *)
(* them from the beginning, and each write only brings them nearer.         *)

\* What a user has of some tables, and whether something was granted to them.
VaultEntitled(l, u) == IF l.entitlement[u] = None THEN Vault!NoEntitlement ELSE l.entitlement[u]
VaultHasGrant(l, u, x) ==
  \E i \in 1..Len(VaultEntitled(l, u).grants) : VaultEntitled(l, u).grants[i] = x

\* Nothing is granted twice, and each adjustment has its audit record.
VaultCountsAgree(l) ==
  \A u \in Users :
    /\ \A i, j \in 1..Len(VaultEntitled(l, u).grants) :
         VaultEntitled(l, u).grants[i] = VaultEntitled(l, u).grants[j] => i = j
    /\ VaultEntitled(l, u).adjusted = l.audits[u]

\* A code is redeemed by the one who got the entitlement, and is marked as redeemed.
VaultCodesAgree(l) ==
  \A c \in Codes :
    /\ \A u \in Users : VaultHasGrant(l, u, c) <=> l.code[c] # None /\ l.code[c].redeemedByUserId = u
    /\ l.code[c] # None /\ l.code[c].redeemedByUserId # None => l.code[c].status = "redeemed"

\* An order is paid, with a recorded event, for the one who got the entitlement; and
\* one that is paid has granted it, unless an older version left it.
VaultOrdersAgree(l) ==
  \A o \in Orders :
    /\ \A u \in Users : VaultHasGrant(l, u, o) =>
         /\ l.order[o] # None /\ l.order[o].userId = u /\ l.order[o].status = "paid"
         /\ \E f \in Events : /\ l.event[f] # None
                            /\ l.event[f] = [outTradeNo |-> o,
                                             transactionId |-> l.order[o].transactionId]
    /\ l.order[o] # None /\ l.order[o].status = "paid" =>
         /\ l.order[o].paidAt \in Nat
         /\ l.order[o].old \/ VaultHasGrant(l, l.order[o].userId, o)

VaultWhole(l) == VaultCountsAgree(l) /\ VaultCodesAgree(l) /\ VaultOrdersAgree(l)

\* A write finds what it changes.
VaultFits(l, w) ==
  /\ w.write = "markActivationCodeRedeemed" => l.code[w.code] # None
  /\ w.write = "markOrderPaid" => l.order[w.order] # None

\* What a write makes of the tables, and what an operation will have made of them.
VaultAfterWrite(l, w) ==
  CASE w.write = "upsertEntitlement" -> [l EXCEPT !.entitlement[w.user] = w.row]
    [] w.write = "markActivationCodeRedeemed" ->
         [l EXCEPT !.code[w.code].status = "redeemed", !.code[w.code].redeemedByUserId = w.user]
    [] w.write = "createActivationCode" -> [l EXCEPT !.code[w.code] = w.row]
    [] w.write = "createAdminEntitlementAdjustment" -> [l EXCEPT !.audits[w.user] = @ + 1]
    [] w.write = "createWebhookEvent" -> [l EXCEPT !.event[w.event] = w.row]
    [] OTHER -> [l EXCEPT !.order[w.order].status = "paid",
                   !.order[w.order].transactionId = w.transaction, !.order[w.order].paidAt = w.at]
VaultAfterSecond(l, t) == IF Len(t) > 1 THEN VaultAfterWrite(l, t[2]) ELSE l
VaultAfterThird(l, t) == IF Len(t) > 2 THEN VaultAfterWrite(l, t[3]) ELSE l
VaultMade(l, t) == VaultAfterThird(VaultAfterSecond(VaultAfterWrite(l, t[1]), t), t)

VaultTodo(l, t) ==
  /\ t \in Seq(Vault!Writes) /\ Len(t) \in 1..3
  /\ \A k \in 1..Len(t) : VaultFits(l, t[k])

VaultInv ==
  /\ Vault!TypeOK
  /\ ongoing = None => VaultWhole(ledger)
  /\ ongoing # None => VaultTodo(ledger, ongoing.todo) /\ VaultWhole(ongoing.snapshot)
                         /\ VaultWhole(VaultMade(ledger, ongoing.todo))

\* What may change of tables that are whole without a grant.
VaultKeeps(l, m) ==
  /\ \A u \in Users : /\ VaultEntitled(m, u).grants = VaultEntitled(l, u).grants
                      /\ VaultEntitled(l, u).adjusted = l.audits[u] => VaultEntitled(m, u).adjusted = m.audits[u]
  /\ \A c \in Codes :
       \/ m.code[c] = l.code[c]
       \/ /\ m.code[c] # None /\ m.code[c].redeemedByUserId = None
          /\ l.code[c] = None \/ l.code[c].redeemedByUserId = None
  /\ \A o \in Orders :
       \/ m.order[o] = l.order[o]
       \/ l.order[o] = None /\ m.order[o] # None /\ m.order[o].status = "pending"
  /\ \A f \in Events : m.event[f] = l.event[f] \/ l.event[f] = None

LEMMA VaultKeptWhole ==
  ASSUME VaultConstants, NEW l \in Vault!Tables, NEW m, VaultWhole(l), VaultKeeps(l, m)
  PROVE  VaultWhole(m)
<1>1. \A u \in Users : \A x : VaultHasGrant(m, u, x) <=> VaultHasGrant(l, u, x)
  BY DEF VaultKeeps, VaultHasGrant
<1>2. VaultCountsAgree(m)
  BY DEF VaultWhole, VaultCountsAgree, VaultKeeps
<1>3. VaultCodesAgree(m)
  BY <1>1 DEF VaultConstants, VaultWhole, VaultCodesAgree, VaultKeeps
<1>4. ASSUME NEW o \in Orders, NEW u \in Users, VaultHasGrant(m, u, o)
      PROVE  /\ m.order[o] # None /\ m.order[o].userId = u /\ m.order[o].status = "paid"
             /\ \E f \in Events : /\ m.event[f] # None
                                  /\ m.event[f] = [outTradeNo |-> o,
                                                   transactionId |-> m.order[o].transactionId]
  <2>1. VaultHasGrant(l, u, o)
    BY <1>1, <1>4
  <2>2. l.order[o] # None /\ l.order[o].userId = u /\ l.order[o].status = "paid"
    BY <2>1 DEF VaultWhole, VaultOrdersAgree
  <2>3. PICK f \in Events : /\ l.event[f] # None
                            /\ l.event[f] = [outTradeNo |-> o, transactionId |-> l.order[o].transactionId]
    BY <2>1 DEF VaultWhole, VaultOrdersAgree
  <2>4. m.order[o] = l.order[o] /\ m.event[f] = l.event[f]
    BY <2>2, <2>3 DEF VaultKeeps
  <2> QED
    BY <2>2, <2>3, <2>4
<1>5. ASSUME NEW o \in Orders, m.order[o] # None, m.order[o].status = "paid"
      PROVE  m.order[o].paidAt \in Nat /\ (m.order[o].old \/ VaultHasGrant(m, m.order[o].userId, o))
  <2>1. m.order[o] = l.order[o]
    BY <1>5 DEF VaultKeeps
  <2>2. l.order[o].paidAt \in Nat /\ (l.order[o].old \/ VaultHasGrant(l, l.order[o].userId, o))
    BY <1>5, <2>1 DEF VaultWhole, VaultOrdersAgree
  <2>3. l.order[o].userId \in Users
    BY <1>5, <2>1 DEF Vault!Tables, Vault!OrderRecord
  <2> QED
    BY <1>1, <2>1, <2>2, <2>3
<1> QED
  BY <1>2, <1>3, <1>4, <1>5 DEF VaultWhole, VaultOrdersAgree


\* What a write changes.
VaultChanged(l, w, m) ==
  /\ m.session = l.session
  /\ m.entitlement = IF w.write = "upsertEntitlement"
                     THEN [l.entitlement EXCEPT ![w.user] = w.row] ELSE l.entitlement
  /\ m.code = IF w.write = "markActivationCodeRedeemed"
              THEN [l.code EXCEPT ![w.code] = [l.code[w.code] EXCEPT !.status = "redeemed",
                                                 !.redeemedByUserId = w.user]]
              ELSE IF w.write = "createActivationCode"
              THEN [l.code EXCEPT ![w.code] = w.row] ELSE l.code
  /\ m.audits = IF w.write = "createAdminEntitlementAdjustment"
                THEN [l.audits EXCEPT ![w.user] = l.audits[w.user] + 1] ELSE l.audits
  /\ m.event = IF w.write = "createWebhookEvent"
               THEN [l.event EXCEPT ![w.event] = w.row] ELSE l.event
  /\ m.order = IF w.write = "markOrderPaid"
               THEN [l.order EXCEPT ![w.order] = [l.order[w.order] EXCEPT !.status = "paid",
                                       !.transactionId = w.transaction, !.paidAt = w.at]]
               ELSE l.order

LEMMA VaultWriteTypes ==
  ASSUME NEW l \in Vault!Tables, NEW w \in Vault!Writes, VaultFits(l, w)
  PROVE  VaultAfterWrite(l, w) \in Vault!Tables /\ VaultChanged(l, w, VaultAfterWrite(l, w))
<1> DEFINE m == VaultAfterWrite(l, w)
<1>1. /\ l.entitlement \in [Users -> Vault!EntitlementRecord \cup {None}]
      /\ l.code \in [Codes -> Vault!ActivationCodeRecord \cup {None}]
      /\ l.order \in [Orders -> Vault!OrderRecord \cup {None}]
      /\ l.event \in [Events -> Vault!WebhookEventRecord \cup {None}]
      /\ l.usage \in SUBSET (Users \X Requests) /\ l.nextAllowed \in [Users -> Nat]
      /\ l.session \in SUBSET Users /\ l.audits \in [Users -> Nat]
      /\ l = [entitlement |-> l.entitlement, code |-> l.code, order |-> l.order, event |-> l.event,
              usage |-> l.usage, nextAllowed |-> l.nextAllowed, session |-> l.session,
              audits |-> l.audits]
  BY DEF Vault!Tables
<1>2. CASE w \in [write : {"upsertEntitlement"}, user : Users, row : Vault!EntitlementRecord]
  <2>1. m = [l EXCEPT !.entitlement = [l.entitlement EXCEPT ![w.user] = w.row]]
    BY <1>1, <1>2 DEF VaultAfterWrite
  <2>2. [l.entitlement EXCEPT ![w.user] = w.row] \in [Users -> Vault!EntitlementRecord \cup {None}]
    BY <1>1, <1>2
  <2> QED
    BY <1>1, <1>2, <2>1, <2>2 DEF Vault!Tables, VaultChanged
<1>3. CASE w \in [write : {"markActivationCodeRedeemed"}, code : Codes, user : Users]
  <2> DEFINE r == [l.code[w.code] EXCEPT !.status = "redeemed", !.redeemedByUserId = w.user]
  <2>1. m = [l EXCEPT !.code = [l.code EXCEPT ![w.code] = r]]
    BY <1>1, <1>3 DEF VaultAfterWrite
  <2>2. l.code[w.code] \in Vault!ActivationCodeRecord
    BY <1>1, <1>3 DEF VaultFits
  <2>3. r \in Vault!ActivationCodeRecord
    BY <1>3, <2>2 DEF Vault!ActivationCodeRecord
  <2>4. [l.code EXCEPT ![w.code] = r] \in [Codes -> Vault!ActivationCodeRecord \cup {None}]
    BY <1>1, <2>3
  <2> QED
    BY <1>1, <1>3, <2>1, <2>4 DEF Vault!Tables, VaultChanged
<1>4. CASE w \in [write : {"createActivationCode"}, code : Codes, row : Vault!ActivationCodeRecord]
  <2>1. m = [l EXCEPT !.code = [l.code EXCEPT ![w.code] = w.row]]
    BY <1>1, <1>4 DEF VaultAfterWrite
  <2>2. [l.code EXCEPT ![w.code] = w.row] \in [Codes -> Vault!ActivationCodeRecord \cup {None}]
    BY <1>1, <1>4
  <2> QED
    BY <1>1, <1>4, <2>1, <2>2 DEF Vault!Tables, VaultChanged
<1>5. CASE w \in [write : {"createAdminEntitlementAdjustment"}, user : Users]
  <2> DEFINE k == l.audits[w.user] + 1
  <2>1. m = [l EXCEPT !.audits = [l.audits EXCEPT ![w.user] = k]]
    BY <1>1, <1>5 DEF VaultAfterWrite
  <2>2. [l.audits EXCEPT ![w.user] = k] \in [Users -> Nat]
    <3>1. k \in Nat
      BY <1>1, <1>5
    <3> HIDE DEF k
    <3> QED
      BY <1>1, <3>1
  <2> QED
    BY <1>1, <1>5, <2>1, <2>2 DEF Vault!Tables, VaultChanged
<1>6. CASE w \in [write : {"createWebhookEvent"}, event : Events, row : Vault!WebhookEventRecord]
  <2>1. m = [l EXCEPT !.event = [l.event EXCEPT ![w.event] = w.row]]
    BY <1>1, <1>6 DEF VaultAfterWrite
  <2>2. [l.event EXCEPT ![w.event] = w.row] \in [Events -> Vault!WebhookEventRecord \cup {None}]
    BY <1>1, <1>6
  <2> QED
    BY <1>1, <1>6, <2>1, <2>2 DEF Vault!Tables, VaultChanged
<1>7. CASE w \in [write : {"markOrderPaid"}, order : Orders, transaction : Transactions, at : Nat]
  <2> DEFINE r == [l.order[w.order] EXCEPT !.status = "paid", !.transactionId = w.transaction,
                                           !.paidAt = w.at]
  <2>1. m = [l EXCEPT !.order = [l.order EXCEPT ![w.order] = r]]
    BY <1>1, <1>7 DEF VaultAfterWrite
  <2>2. l.order[w.order] \in Vault!OrderRecord
    BY <1>1, <1>7 DEF VaultFits
  <2>3. r \in Vault!OrderRecord
    BY <1>7, <2>2 DEF Vault!OrderRecord
  <2>4. [l.order EXCEPT ![w.order] = r] \in [Orders -> Vault!OrderRecord \cup {None}]
    BY <1>1, <2>3
  <2> QED
    BY <1>1, <1>7, <2>1, <2>4 DEF Vault!Tables, VaultChanged
<1> QED
  BY <1>2, <1>3, <1>4, <1>5, <1>6, <1>7 DEF Vault!Writes


\* Tables that differ in what may be written while an operation runs.
VaultNears(l, m) ==
  /\ m.entitlement = l.entitlement /\ m.audits = l.audits /\ m.event = l.event
  /\ \A c \in Codes :
       \/ m.code[c] = l.code[c]
       \/ l.code[c] = None /\ m.code[c] # None /\ m.code[c].redeemedByUserId = None
  /\ \A o \in Orders :
       \/ m.order[o] = l.order[o]
       \/ l.order[o] = None /\ m.order[o] # None /\ m.order[o].status = "pending"

LEMMA VaultNearsKeeps == ASSUME NEW l, NEW m, VaultNears(l, m) PROVE VaultKeeps(l, m)
BY DEF VaultNears, VaultKeeps, VaultEntitled

\* A write that fits still fits after another one.
LEMMA VaultStillFits ==
  ASSUME VaultConstants, NEW l \in Vault!Tables, NEW w \in Vault!Writes, VaultFits(l, w),
         NEW x \in Vault!Writes, VaultFits(l, x)
  PROVE  VaultFits(VaultAfterWrite(l, w), x)
<1> DEFINE m == VaultAfterWrite(l, w)
<1> HIDE DEF m
<1>1. m \in Vault!Tables /\ VaultChanged(l, w, m)
  BY VaultWriteTypes DEF m
<1>2. ASSUME NEW c \in Codes, l.code[c] # None PROVE m.code[c] # None
  <2>1. w.write = "markActivationCodeRedeemed" => w.code \in Codes
    BY DEF Vault!Writes
  <2>2. w.write = "createActivationCode" => w.code \in Codes /\ w.row \in Vault!ActivationCodeRecord
    BY DEF Vault!Writes
  <2>3. /\ l.code \in [Codes -> Vault!ActivationCodeRecord \cup {None}]
        /\ None \notin Vault!ActivationCodeRecord
    BY DEF VaultConstants, Vault!Tables
  <2>4. m.code = IF w.write = "markActivationCodeRedeemed"
                 THEN [l.code EXCEPT ![w.code] = [l.code[w.code] EXCEPT !.status = "redeemed",
                                                    !.redeemedByUserId = w.user]]
                 ELSE IF w.write = "createActivationCode"
                 THEN [l.code EXCEPT ![w.code] = w.row] ELSE l.code
    BY <1>1 DEF VaultChanged
  <2>5. CASE w.write = "markActivationCodeRedeemed"
    <3> DEFINE r == [l.code[w.code] EXCEPT !.status = "redeemed", !.redeemedByUserId = w.user]
    <3>1. l.code[w.code] \in Vault!ActivationCodeRecord /\ w.user \in Users
      BY <2>1, <2>3, <2>5 DEF VaultFits, Vault!Writes
    <3>2. r \in Vault!ActivationCodeRecord
      BY <3>1 DEF Vault!ActivationCodeRecord
    <3>3. m.code = [l.code EXCEPT ![w.code] = r]
      BY <2>4, <2>5
    <3> HIDE DEF r
    <3> QED
      BY <1>2, <2>3, <3>2, <3>3
  <2>6. CASE w.write = "createActivationCode"
    BY <1>2, <2>2, <2>3, <2>4, <2>6
  <2> QED
    BY <1>2, <2>4, <2>5, <2>6
<1>3. ASSUME NEW o \in Orders, l.order[o] # None PROVE m.order[o] # None
  <2>1. /\ l.order \in [Orders -> Vault!OrderRecord \cup {None}] /\ None \notin Vault!OrderRecord
    BY DEF VaultConstants, Vault!Tables
  <2>2. CASE w.write = "markOrderPaid"
    <3> DEFINE r == [l.order[w.order] EXCEPT !.status = "paid", !.transactionId = w.transaction,
                                             !.paidAt = w.at]
    <3>1. l.order[w.order] \in Vault!OrderRecord /\ w.transaction \in Transactions /\ w.at \in Nat
      BY <2>1, <2>2 DEF VaultFits, Vault!Writes
    <3>2. r \in Vault!OrderRecord
      BY <3>1 DEF Vault!OrderRecord
    <3>3. m.order = [l.order EXCEPT ![w.order] = r]
      BY <1>1, <2>2 DEF VaultChanged
    <3> HIDE DEF r
    <3> QED
      BY <1>3, <2>1, <3>2, <3>3
  <2>3. CASE w.write # "markOrderPaid"
    BY <1>1, <1>3, <2>3 DEF VaultChanged
  <2> QED
    BY <2>2, <2>3
<1>4. /\ x.write = "markActivationCodeRedeemed" => x.code \in Codes
      /\ x.write = "markOrderPaid" => x.order \in Orders
  BY DEF Vault!Writes
<1> QED
  BY <1>2, <1>3, <1>4 DEF VaultFits, m

\* A write makes of tables that differ so such tables again.
LEMMA VaultNearsWrite ==
  ASSUME NEW l \in Vault!Tables, NEW m \in Vault!Tables, VaultNears(l, m),
         NEW w \in Vault!Writes, VaultFits(l, w)
  PROVE  VaultFits(m, w) /\ VaultNears(VaultAfterWrite(l, w), VaultAfterWrite(m, w))
<1> DEFINE a == VaultAfterWrite(l, w)
           b == VaultAfterWrite(m, w)
<1>1. /\ w.write \in {"markActivationCodeRedeemed", "createActivationCode"} => w.code \in Codes
      /\ w.write = "markOrderPaid" => w.order \in Orders
  BY DEF Vault!Writes
<1>2. /\ w.write = "markActivationCodeRedeemed" => m.code[w.code] = l.code[w.code]
      /\ w.write = "markOrderPaid" => m.order[w.order] = l.order[w.order]
  BY <1>1 DEF VaultFits, VaultNears
<1>3. VaultFits(m, w)
  BY <1>2 DEF VaultFits
<1>0. VaultChanged(l, w, a) /\ VaultChanged(m, w, b)
  BY <1>3, VaultWriteTypes
<1> HIDE DEF a, b
<1>4. a.entitlement = b.entitlement /\ a.audits = b.audits /\ a.event = b.event
  BY <1>0 DEF VaultNears, VaultChanged
<1>5. ASSUME NEW c \in Codes
      PROVE  \/ b.code[c] = a.code[c]
             \/ a.code[c] = None /\ b.code[c] # None /\ b.code[c].redeemedByUserId = None
  <2>1. l.code \in [Codes -> Vault!ActivationCodeRecord \cup {None}]
        /\ m.code \in [Codes -> Vault!ActivationCodeRecord \cup {None}]
    BY DEF Vault!Tables
  <2>2. CASE w.write = "markActivationCodeRedeemed"
    <3> DEFINE r == [l.code[w.code] EXCEPT !.status = "redeemed", !.redeemedByUserId = w.user]
    <3>1. a.code = [l.code EXCEPT ![w.code] = r] /\ b.code = [m.code EXCEPT ![w.code] = r]
      BY <1>0, <1>2, <2>2 DEF VaultChanged
    <3> HIDE DEF r
    <3> QED
      BY <2>1, <3>1 DEF VaultNears
  <2>3. CASE w.write = "createActivationCode"
    <3>1. a.code = [l.code EXCEPT ![w.code] = w.row] /\ b.code = [m.code EXCEPT ![w.code] = w.row]
      BY <1>0, <2>3 DEF VaultChanged
    <3> QED
      BY <2>1, <3>1 DEF VaultNears
  <2>4. CASE w.write \notin {"markActivationCodeRedeemed", "createActivationCode"}
    <3>1. a.code = l.code /\ b.code = m.code
      BY <1>0, <2>4 DEF VaultChanged
    <3> QED
      BY <3>1 DEF VaultNears
  <2> QED
    BY <2>2, <2>3, <2>4
<1>6. ASSUME NEW o \in Orders
      PROVE  \/ b.order[o] = a.order[o]
             \/ a.order[o] = None /\ b.order[o] # None /\ b.order[o].status = "pending"
  <2>1. l.order \in [Orders -> Vault!OrderRecord \cup {None}]
        /\ m.order \in [Orders -> Vault!OrderRecord \cup {None}]
    BY DEF Vault!Tables
  <2>2. CASE w.write = "markOrderPaid"
    <3> DEFINE r == [l.order[w.order] EXCEPT !.status = "paid", !.transactionId = w.transaction,
                                             !.paidAt = w.at]
    <3>1. a.order = [l.order EXCEPT ![w.order] = r] /\ b.order = [m.order EXCEPT ![w.order] = r]
      BY <1>0, <1>2, <2>2 DEF VaultChanged
    <3> HIDE DEF r
    <3> QED
      BY <2>1, <3>1 DEF VaultNears
  <2>3. CASE w.write # "markOrderPaid"
    <3>1. a.order = l.order /\ b.order = m.order
      BY <1>0, <2>3 DEF VaultChanged
    <3> QED
      BY <3>1 DEF VaultNears
  <2> QED
    BY <2>2, <2>3
<1>7. VaultNears(a, b)
  BY <1>4, <1>5, <1>6 DEF VaultNears
<1> QED
  BY <1>3, <1>7 DEF a, b

\* What an operation will have made has the types of the tables, is what the rest of it
\* makes after its next write, and differs as little as what it began from.
LEMMA VaultMadeBy ==
  ASSUME VaultConstants, NEW l \in Vault!Tables, NEW t, VaultTodo(l, t)
  PROVE  /\ t # <<>> /\ t[1] \in Vault!Writes /\ VaultFits(l, t[1]) /\ Head(t) = t[1]
         /\ VaultAfterWrite(l, t[1]) \in Vault!Tables
         /\ VaultMade(l, t) \in Vault!Tables
         /\ Len(t) = 1 => VaultMade(l, t) = VaultAfterWrite(l, t[1])
         /\ Len(t) # 1 => /\ VaultTodo(VaultAfterWrite(l, t[1]), Tail(t))
                          /\ VaultMade(VaultAfterWrite(l, t[1]), Tail(t)) = VaultMade(l, t)
         /\ \A m \in Vault!Tables : VaultNears(l, m) =>
              VaultTodo(m, t) /\ VaultNears(VaultMade(l, t), VaultMade(m, t))
<1> DEFINE a == VaultAfterWrite(l, t[1])
           b == VaultAfterSecond(a, t)
<1>1. t \in Seq(Vault!Writes) /\ Len(t) \in 1..3 /\ \A k \in 1..Len(t) : t[k] \in Vault!Writes /\ VaultFits(l, t[k])
  BY DEF VaultTodo
<1>2. t # <<>> /\ Head(t) = t[1] /\ t[1] \in Vault!Writes /\ VaultFits(l, t[1])
  BY <1>1
<1>3. a \in Vault!Tables /\ \A k \in 1..Len(t) : VaultFits(a, t[k])
  BY <1>1, <1>2, VaultWriteTypes, VaultStillFits
<1>4. b \in Vault!Tables /\ \A k \in 1..Len(t) : VaultFits(b, t[k])
  <2>1. CASE Len(t) > 1
    <3>1. t[2] \in Vault!Writes /\ VaultFits(a, t[2]) /\ b = VaultAfterWrite(a, t[2])
      BY <1>1, <1>3, <2>1 DEF VaultAfterSecond
    <3> HIDE DEF a, b
    <3> QED
      BY <1>1, <1>3, <3>1, VaultWriteTypes, VaultStillFits
  <2>2. CASE ~(Len(t) > 1)
    BY <1>3, <2>2 DEF VaultAfterSecond
  <2> QED
    BY <2>1, <2>2
<1>5. VaultMade(l, t) = VaultAfterThird(b, t)
  BY DEF VaultMade
<1>6. VaultMade(l, t) \in Vault!Tables
  <2>1. CASE Len(t) > 2
    <3>1. t[3] \in Vault!Writes /\ VaultFits(b, t[3]) /\ VaultAfterThird(b, t) = VaultAfterWrite(b, t[3])
      BY <1>1, <1>4, <2>1 DEF VaultAfterThird
    <3> HIDE DEF b
    <3> QED
      BY <1>4, <1>5, <3>1, VaultWriteTypes
  <2>2. CASE ~(Len(t) > 2)
    BY <1>4, <1>5, <2>2 DEF VaultAfterThird
  <2> QED
    BY <2>1, <2>2
<1>7. Len(t) = 1 => VaultMade(l, t) = a
  BY <1>5 DEF VaultAfterThird, VaultAfterSecond
<1>8. ASSUME Len(t) # 1
      PROVE  VaultTodo(a, Tail(t)) /\ VaultMade(a, Tail(t)) = VaultMade(l, t)
  <2> DEFINE s == Tail(t)
  <2>0. Len(t) > 1
    BY <1>1, <1>8
  <2>1. /\ s \in Seq(Vault!Writes) /\ Len(s) = Len(t) - 1 /\ Len(s) \in 1..3
        /\ s[1] = t[2] /\ (Len(t) > 2 => s[2] = t[3])
        /\ \A k \in 1..Len(s) : s[k] = t[k + 1] /\ k + 1 \in 1..Len(t)
    BY <1>1, <2>0
  <2>2. VaultTodo(a, s)
    <3> HIDE DEF s, a
    <3> QED
      BY <1>3, <2>1 DEF VaultTodo
  <2>3. VaultMade(a, s) = VaultAfterThird(VaultAfterSecond(b, s), s)
    BY <2>0, <2>1 DEF VaultMade, VaultAfterSecond
  <2>4. VaultAfterThird(VaultAfterSecond(b, s), s) = VaultAfterSecond(b, s)
    BY <1>1, <2>1 DEF VaultAfterThird
  <2>5. VaultAfterSecond(b, s) = VaultAfterThird(b, t)
    BY <1>1, <2>1 DEF VaultAfterThird, VaultAfterSecond
  <2> QED
    BY <1>5, <2>2, <2>3, <2>4, <2>5
<1>9. ASSUME NEW m \in Vault!Tables, VaultNears(l, m)
      PROVE  VaultTodo(m, t) /\ VaultNears(VaultMade(l, t), VaultMade(m, t))
  <2> DEFINE c == VaultAfterWrite(m, t[1])
             d == VaultAfterSecond(c, t)
  <2>1. \A k \in 1..Len(t) : VaultFits(m, t[k])
    BY <1>1, <1>9, VaultNearsWrite
  <2>2. VaultTodo(m, t)
    BY <1>1, <2>1 DEF VaultTodo
  <2>3. c \in Vault!Tables /\ VaultNears(a, c)
    BY <1>2, <1>9, <2>1, VaultNearsWrite, VaultWriteTypes
  <2>4. d \in Vault!Tables /\ VaultNears(b, d)
    <3>1. CASE Len(t) > 1
      <4>1. /\ t[2] \in Vault!Writes /\ VaultFits(a, t[2])
            /\ b = VaultAfterWrite(a, t[2]) /\ d = VaultAfterWrite(c, t[2])
        BY <1>1, <1>3, <3>1 DEF VaultAfterSecond
      <4> HIDE DEF a, b, c, d
      <4>2. VaultFits(c, t[2]) /\ VaultNears(VaultAfterWrite(a, t[2]), VaultAfterWrite(c, t[2]))
        BY <1>3, <2>3, <4>1, VaultNearsWrite
      <4> QED
        BY <2>3, <4>1, <4>2, VaultWriteTypes
    <3>2. CASE ~(Len(t) > 1)
      BY <2>3, <3>2 DEF VaultAfterSecond
    <3> QED
      BY <3>1, <3>2
  <2>5. VaultMade(m, t) = VaultAfterThird(d, t)
    BY DEF VaultMade
  <2>6. VaultNears(VaultAfterThird(b, t), VaultAfterThird(d, t))
    <3>1. CASE Len(t) > 2
      <4>1. /\ t[3] \in Vault!Writes /\ VaultFits(b, t[3])
            /\ VaultAfterThird(b, t) = VaultAfterWrite(b, t[3]) /\ VaultAfterThird(d, t) = VaultAfterWrite(d, t[3])
        BY <1>1, <1>4, <3>1 DEF VaultAfterThird
      <4> HIDE DEF a, b, c, d
      <4> QED
        BY <1>4, <2>4, <4>1, VaultNearsWrite
    <3>2. CASE ~(Len(t) > 2)
      BY <2>4, <3>2 DEF VaultAfterThird
    <3> QED
      BY <3>1, <3>2
  <2> QED
    BY <1>5, <2>2, <2>5, <2>6
<1> QED
  BY <1>2, <1>3, <1>6, <1>7, <1>8, <1>9

LEMMA VaultSomethingToDo == ASSUME NEW l, NEW t, VaultTodo(l, t) PROVE t # <<>>
BY DEF VaultTodo


\* An operation begins, and the tables that it will have made are whole.
LEMMA VaultRunKeeps ==
  ASSUME VaultConstants, VaultInv, NEW w \in Vault!Tables, NEW t, Vault!run(w, t),
         t = <<>> => VaultWhole(w),
         t # <<>> => VaultTodo(w, t) /\ VaultWhole(VaultMade(w, t))
  PROVE  VaultInv'
<1>1. /\ ongoing = None /\ ledger \in Vault!Tables /\ VaultWhole(ledger)
      /\ ledger' = w /\ today' = today /\ today \in 0..MaxDays
      /\ accountCalls' \in 0..MaxAccountCalls
      /\ ongoing' = IF t = <<>> THEN None ELSE [snapshot |-> ledger, todo |-> t]
  BY
     DEF VaultConstants, VaultInv, Vault!TypeOK, Vault!run, Vault!Called, Vault!Atomic!run, Vault!Atomic!NothingRuns
<1>2. CASE t = <<>>
  BY <1>1, <1>2 DEF VaultInv, Vault!TypeOK
<1>3. CASE t # <<>>
  <2> DEFINE o == [snapshot |-> ledger, todo |-> t]
  <2>1. o \in Vault!Operations /\ o.todo = t /\ o.snapshot = ledger
    BY <1>1, <1>3 DEF VaultTodo, Vault!Operations
  <2>2. ongoing' = o
    BY <1>1, <1>3
  <2> HIDE DEF o
  <2>3. ongoing' # None
    BY <2>1, <2>2 DEF VaultConstants
  <2> QED
    BY <1>1, <1>3, <2>1, <2>2, <2>3 DEF VaultInv, Vault!TypeOK
<1> QED
  BY <1>2, <1>3

\* An operation goes on.
LEMMA VaultGoesKeeps == ASSUME VaultConstants, VaultInv, Vault!Goes PROVE VaultInv'
<1> DEFINE t == ongoing.todo
           m == VaultAfterWrite(ledger, t[1])
<1>1. /\ ongoing # None /\ ongoing \in Vault!Operations /\ ledger \in Vault!Tables
      /\ VaultTodo(ledger, t) /\ Len(t) \in 1..3 /\ VaultWhole(ongoing.snapshot) /\ VaultWhole(VaultMade(ledger, t))
      /\ today' = today /\ accountCalls' = accountCalls
  BY DEF VaultInv, VaultTodo, Vault!TypeOK, Vault!Goes
<1>2. \A x : Vault!Written(x) = VaultAfterWrite(ledger, x)
  BY DEF Vault!Written, VaultAfterWrite
<1>3. /\ ledger' = VaultAfterWrite(ledger, Head(t))
      /\ ongoing' = IF Len(t) = 1 THEN None ELSE [ongoing EXCEPT !.todo = Tail(t)]
  BY <1>1, <1>2
     DEF Vault!Goes, Vault!Atomic!WritesNext, Vault!Atomic!NextWrite, Vault!Operations
<1>4. /\ Head(t) = t[1] /\ m \in Vault!Tables
      /\ Len(t) = 1 => VaultMade(ledger, t) = m
      /\ Len(t) # 1 => VaultTodo(m, Tail(t)) /\ VaultMade(m, Tail(t)) = VaultMade(ledger, t)
  BY <1>1, VaultMadeBy
<1>5. ledger' = m
  BY <1>3, <1>4
<1>8. Len(t) \in 1..3 /\ t \in Seq(Vault!Writes)
  BY <1>1 DEF VaultTodo
<1>6. CASE Len(t) = 1
  <2>1. ongoing' = None
    BY <1>3, <1>6
  <2>2. VaultWhole(m)
    BY <1>1, <1>4, <1>6
  <2> QED
    BY <1>1, <1>4, <1>5, <2>1, <2>2 DEF VaultInv, Vault!TypeOK
<1>7. CASE Len(t) # 1
  <2> DEFINE o == [ongoing EXCEPT !.todo = Tail(t)]
  <2>2. VaultTodo(m, Tail(t)) /\ VaultWhole(VaultMade(m, Tail(t)))
    BY <1>1, <1>4, <1>7
  <2>3. o \in Vault!Operations /\ o.todo = Tail(t) /\ o.snapshot = ongoing.snapshot
    <3>1. Tail(t) \in Seq(Vault!Writes)
      BY <2>2 DEF VaultTodo
    <3>2. \A s \in Seq(Vault!Writes), p \in Vault!Operations :
            /\ [p EXCEPT !.todo = s] \in Vault!Operations
            /\ [p EXCEPT !.todo = s].todo = s /\ [p EXCEPT !.todo = s].snapshot = p.snapshot
      BY DEF Vault!Operations
    <3>3. ongoing \in Vault!Operations
      BY <1>1
    <3> HIDE DEF t
    <3> QED
      BY <3>1, <3>2, <3>3
  <2>4. Tail(t) # <<>>
    BY <2>2, VaultSomethingToDo
  <2>5. ongoing' = o
    BY <1>3, <1>7
  <2> HIDE DEF o, m, t
  <2>6. ongoing' # None
    BY <2>3, <2>5 DEF VaultConstants
  <2> QED
    BY <1>1, <1>4, <1>5, <2>2, <2>3, <2>4, <2>5, <2>6 DEF VaultInv, Vault!TypeOK
<1> QED
  BY <1>6, <1>7

\* An operation throws, and the tables are as they were.
LEMMA VaultFailsKeeps == ASSUME VaultConstants, VaultInv, Vault!Fails PROVE VaultInv'
<1>1. /\ ongoing # None /\ ongoing.snapshot \in Vault!Tables /\ VaultWhole(ongoing.snapshot)
      /\ ledger' = ongoing.snapshot /\ ongoing' = None
      /\ today' = today /\ accountCalls' = accountCalls
  BY DEF VaultInv, Vault!TypeOK, Vault!Fails, Vault!Atomic!Throws, Vault!Operations
<1> QED
  BY <1>1 DEF VaultInv, Vault!TypeOK

\* A write that waits for no operation.
LEMMA VaultUnserialisedKeeps ==
  ASSUME VaultConstants, VaultInv, NEW w \in Vault!Tables, Vault!Unserialised(w), VaultNears(ledger, w)
  PROVE  VaultInv'
<1>1. /\ ledger \in Vault!Tables /\ ledger' = w /\ ongoing' = ongoing /\ today' = today
      /\ accountCalls' \in 0..MaxAccountCalls
  BY
     DEF VaultConstants, VaultInv, Vault!TypeOK, Vault!Unserialised, Vault!Called, Vault!Atomic!Unserialised
<1>2. ongoing = None => VaultWhole(w)
  BY <1>1, VaultKeptWhole, VaultNearsKeeps DEF VaultInv
<1>3. ASSUME ongoing # None
      PROVE  VaultTodo(w, ongoing.todo) /\ VaultWhole(VaultMade(w, ongoing.todo))
  <2> DEFINE t == ongoing.todo
  <2>1. VaultTodo(ledger, t) /\ VaultWhole(VaultMade(ledger, t))
    BY <1>3 DEF VaultInv
  <2>2. /\ VaultMade(ledger, t) \in Vault!Tables
        /\ VaultTodo(w, t) /\ VaultNears(VaultMade(ledger, t), VaultMade(w, t))
    BY <1>1, <2>1, VaultMadeBy
  <2> QED
    BY <2>1, <2>2, VaultKeptWhole, VaultNearsKeeps
<1> QED
  BY <1>1, <1>2, <1>3 DEF VaultInv, Vault!TypeOK

\* Something is granted to a user who has not got it.
VaultGrant(l, m, u, x) ==
  \E row \in Vault!EntitlementRecord :
    /\ m.entitlement = [l.entitlement EXCEPT ![u] = row]
    /\ row.grants = Append(VaultEntitled(l, u).grants, x) /\ row.adjusted = VaultEntitled(l, u).adjusted

LEMMA VaultEntitledType ==
  ASSUME NEW l \in Vault!Tables, NEW u \in Users
  PROVE  VaultEntitled(l, u) \in Vault!EntitlementRecord
<1>1. Vault!NoEntitlement \in Vault!EntitlementRecord
  <2>1. <<>> \in Seq(Codes \cup Orders)
    OBVIOUS
  <2> QED
    BY <2>1 DEF Vault!NoEntitlement, Vault!EntitlementRecord
<1>2. l.entitlement[u] \in Vault!EntitlementRecord \cup {None}
  BY DEF Vault!Tables
<1> QED
  BY <1>1, <1>2 DEF VaultEntitled

LEMMA VaultGrantGives ==
  ASSUME VaultConstants, NEW l \in Vault!Tables, NEW m, NEW u \in Users, NEW x \in Codes \cup Orders,
         VaultGrant(l, m, u, x), ~VaultHasGrant(l, u, x), VaultCountsAgree(l), m.audits = l.audits
  PROVE  /\ VaultCountsAgree(m)
         /\ \A v \in Users : \A y : VaultHasGrant(m, v, y) <=> VaultHasGrant(l, v, y) \/ (v = u /\ y = x)
<1>1. PICK row \in Vault!EntitlementRecord :
        /\ m.entitlement = [l.entitlement EXCEPT ![u] = row]
        /\ row.grants = Append(VaultEntitled(l, u).grants, x) /\ row.adjusted = VaultEntitled(l, u).adjusted
  BY DEF VaultGrant
<1>2. VaultEntitled(m, u) = row /\ \A v \in Users : v # u => VaultEntitled(m, v) = VaultEntitled(l, v)
  BY <1>1 DEF VaultConstants, VaultEntitled, Vault!Tables
<1> DEFINE g == VaultEntitled(l, u).grants
           h == Append(g, x)
<1>3. g \in Seq(Codes \cup Orders)
  BY VaultEntitledType DEF Vault!EntitlementRecord
<1> HIDE DEF g
<1>4. /\ Len(h) = Len(g) + 1 /\ Len(g) \in Nat /\ h[Len(g) + 1] = x
      /\ \A i \in 1..Len(g) : h[i] = g[i]
  BY <1>3
<1> HIDE DEF h
<1>5. \A y : (\E i \in 1..Len(h) : h[i] = y) <=> (\E i \in 1..Len(g) : g[i] = y) \/ y = x
  BY <1>4
<1>6. VaultEntitled(m, u).grants = h
  BY <1>1, <1>2 DEF g, h
<1>7. \A v \in Users : \A y : VaultHasGrant(m, v, y) <=> VaultHasGrant(l, v, y) \/ (v = u /\ y = x)
  <2>1. \A y : VaultHasGrant(m, u, y) <=> \E i \in 1..Len(h) : h[i] = y
    BY <1>6 DEF VaultHasGrant
  <2>2. \A y : VaultHasGrant(l, u, y) <=> \E i \in 1..Len(g) : g[i] = y
    BY DEF VaultHasGrant, g
  <2>3. \A v \in Users : v # u => \A y : VaultHasGrant(m, v, y) <=> VaultHasGrant(l, v, y)
    BY <1>2 DEF VaultHasGrant
  <2> QED
    BY <1>5, <2>1, <2>2, <2>3
<1>8. \A i, j \in 1..Len(h) : h[i] = h[j] => i = j
  <2>1. /\ \A i \in 1..Len(g) : g[i] # x
        /\ \A i, j \in 1..Len(g) : g[i] = g[j] => i = j
    BY DEF VaultHasGrant, VaultCountsAgree, g
  <2> QED
    BY <1>4, <2>1
<1>9. VaultCountsAgree(m)
  BY <1>1, <1>2, <1>6, <1>8 DEF VaultCountsAgree
<1> QED
  BY <1>7, <1>9

\* A code is redeemed.
LEMMA VaultCodeGranted ==
  ASSUME VaultConstants, NEW l \in Vault!Tables, NEW m, VaultWhole(l), NEW u \in Users, NEW c \in Codes,
         l.code[c] # None, l.code[c].redeemedByUserId = None, VaultGrant(l, m, u, c),
         m.code = [l.code EXCEPT ![c] = [l.code[c] EXCEPT !.status = "redeemed",
                                           !.redeemedByUserId = u]],
         m.order = l.order, m.event = l.event, m.audits = l.audits
  PROVE  VaultWhole(m)
<1>1. ~VaultHasGrant(l, u, c)
  BY DEF VaultConstants, VaultWhole, VaultCodesAgree
<1>2. /\ VaultCountsAgree(m)
      /\ \A v \in Users : \A y : VaultHasGrant(m, v, y) <=> VaultHasGrant(l, v, y) \/ (v = u /\ y = c)
  BY <1>1, VaultGrantGives DEF VaultWhole
<1>3. VaultCodesAgree(m)
  <2> DEFINE r == [l.code[c] EXCEPT !.status = "redeemed", !.redeemedByUserId = u]
  <2>1. l.code[c] \in Vault!ActivationCodeRecord /\ l.code \in [Codes -> Vault!ActivationCodeRecord \cup {None}]
    BY DEF Vault!Tables
  <2>2. r \in Vault!ActivationCodeRecord /\ r.status = "redeemed" /\ r.redeemedByUserId = u
    BY <2>1 DEF Vault!ActivationCodeRecord
  <2>3. m.code = [l.code EXCEPT ![c] = r]
    OBVIOUS
  <2> HIDE DEF r
  <2>4. m.code[c] = r /\ r # None /\ \A d \in Codes : d # c => m.code[d] = l.code[d]
    BY <2>1, <2>2, <2>3 DEF VaultConstants
  <2>5. \A v \in Users : ~VaultHasGrant(l, v, c)
    BY DEF VaultConstants, VaultWhole, VaultCodesAgree
  <2> QED
    BY <1>2, <2>2, <2>4, <2>5 DEF VaultWhole, VaultCodesAgree
<1>4. VaultOrdersAgree(m)
  <2>1. \A o \in Orders, v \in Users : VaultHasGrant(m, v, o) <=> VaultHasGrant(l, v, o)
    BY <1>2 DEF VaultConstants
  <2>2. \A o \in Orders : l.order[o] # None => l.order[o].userId \in Users
    BY DEF Vault!Tables, Vault!OrderRecord
  <2> QED
    BY <2>1, <2>2 DEF VaultWhole, VaultOrdersAgree
<1> QED
  BY <1>2, <1>3, <1>4 DEF VaultWhole

\* An order is paid, or what it bought is made up for.
LEMMA VaultOrderGranted ==
  ASSUME VaultConstants, NEW l \in Vault!Tables, NEW m \in Vault!Tables, VaultWhole(l), NEW o \in Orders, NEW u \in Users,
         VaultGrant(l, m, u, o), \A v \in Users : ~VaultHasGrant(l, v, o),
         m.code = l.code, m.audits = l.audits,
         \A p \in Orders \ {o} : m.order[p] = l.order[p],
         m.order[o] # None, m.order[o].userId = u, m.order[o].status = "paid",
         m.order[o].paidAt \in Nat,
         \A f \in Events : m.event[f] = l.event[f] \/ l.event[f] = None,
         \E f \in Events : m.event[f] # None
           /\ m.event[f] = [outTradeNo |-> o, transactionId |-> m.order[o].transactionId]
  PROVE  VaultWhole(m)
<1>1. ~VaultHasGrant(l, u, o)
  OBVIOUS
<1>2. /\ VaultCountsAgree(m)
      /\ \A v \in Users : \A y : VaultHasGrant(m, v, y) <=> VaultHasGrant(l, v, y) \/ (v = u /\ y = o)
  BY <1>1, VaultGrantGives DEF VaultWhole
<1>3. VaultCodesAgree(m)
  <2>1. \A c \in Codes, v \in Users : VaultHasGrant(m, v, c) <=> VaultHasGrant(l, v, c)
    BY <1>2 DEF VaultConstants
  <2> QED
    BY <2>1 DEF VaultWhole, VaultCodesAgree
<1>4. ASSUME NEW p \in Orders, NEW v \in Users, VaultHasGrant(m, v, p)
      PROVE  /\ m.order[p] # None /\ m.order[p].userId = v /\ m.order[p].status = "paid"
             /\ \E f \in Events : /\ m.event[f] # None
                                  /\ m.event[f] = [outTradeNo |-> p,
                                                   transactionId |-> m.order[p].transactionId]
  <2>1. CASE p = o
    BY <1>2, <1>4, <2>1
  <2>2. CASE p # o
    <3>1. VaultHasGrant(l, v, p) /\ m.order[p] = l.order[p]
      BY <1>2, <1>4, <2>2
    <3>2. /\ l.order[p] # None /\ l.order[p].userId = v /\ l.order[p].status = "paid"
      BY <3>1 DEF VaultWhole, VaultOrdersAgree
    <3>3. PICK f \in Events : /\ l.event[f] # None
                              /\ l.event[f] = [outTradeNo |-> p,
                                               transactionId |-> l.order[p].transactionId]
      BY <3>1 DEF VaultWhole, VaultOrdersAgree
    <3>4. m.event[f] = l.event[f]
      BY <3>3
    <3> QED
      BY <3>1, <3>2, <3>3, <3>4
  <2> QED
    BY <2>1, <2>2
<1>5. ASSUME NEW p \in Orders, m.order[p] # None, m.order[p].status = "paid"
      PROVE  m.order[p].paidAt \in Nat /\ (m.order[p].old \/ VaultHasGrant(m, m.order[p].userId, p))
  <2>1. CASE p = o
    BY <1>2, <1>5, <2>1
  <2>2. CASE p # o
    <3>1. m.order[p] = l.order[p] /\ l.order[p].userId \in Users
      BY <1>5, <2>2 DEF Vault!Tables, Vault!OrderRecord
    <3> QED
      BY <1>2, <1>5, <3>1 DEF VaultWhole, VaultOrdersAgree
  <2> QED
    BY <2>1, <2>2
<1> QED
  BY <1>2, <1>3, <1>4, <1>5 DEF VaultWhole, VaultOrdersAgree


-----------------------------------------------------------------------------
(* The operations, one by one.                                              *)

LEMMA VaultTableTypes ==
  ASSUME NEW l \in Vault!Tables
  PROVE  /\ l.entitlement \in [Users -> Vault!EntitlementRecord \cup {None}]
         /\ l.code \in [Codes -> Vault!ActivationCodeRecord \cup {None}]
         /\ l.order \in [Orders -> Vault!OrderRecord \cup {None}]
         /\ l.event \in [Events -> Vault!WebhookEventRecord \cup {None}]
         /\ l.usage \in SUBSET (Users \X Requests) /\ l.nextAllowed \in [Users -> Nat]
         /\ l.session \in SUBSET Users /\ l.audits \in [Users -> Nat]
         /\ l = [entitlement |-> l.entitlement, code |-> l.code, order |-> l.order,
                 event |-> l.event, usage |-> l.usage, nextAllowed |-> l.nextAllowed,
                 session |-> l.session, audits |-> l.audits]
BY DEF Vault!Tables

LEMMA VaultIdle ==
  ASSUME VaultInv, NEW w, NEW t, Vault!run(w, t)
  PROVE  VaultWhole(ledger) /\ ledger \in Vault!Tables /\ today \in Nat
BY DEF VaultInv, Vault!TypeOK, Vault!run, Vault!Atomic!run, Vault!Atomic!NothingRuns

\* An entitlement is replaced, and what was granted is kept.
LEMMA VaultRowKeeps ==
  ASSUME VaultConstants, NEW l \in Vault!Tables, NEW m, NEW u \in Users, NEW row \in Vault!EntitlementRecord,
         m.entitlement = [l.entitlement EXCEPT ![u] = row], row.grants = VaultEntitled(l, u).grants,
         m.code = l.code, m.order = l.order, m.event = l.event,
         \/ row.adjusted = VaultEntitled(l, u).adjusted /\ m.audits = l.audits
         \/ /\ row.adjusted = VaultEntitled(l, u).adjusted + 1
            /\ m.audits = [l.audits EXCEPT ![u] = l.audits[u] + 1]
  PROVE  VaultKeeps(l, m)
<1>1. VaultEntitled(m, u) = row /\ \A v \in Users : v # u => VaultEntitled(m, v) = VaultEntitled(l, v)
  BY VaultTableTypes DEF VaultConstants, VaultEntitled
<1>2. l.audits \in [Users -> Nat]
  BY VaultTableTypes
<1>3. ASSUME NEW v \in Users, VaultEntitled(l, v).adjusted = l.audits[v]
      PROVE  VaultEntitled(m, v).adjusted = m.audits[v]
  BY <1>1, <1>2, <1>3
<1> QED
  BY <1>1, <1>3 DEF VaultKeeps

\* Codes that nobody redeemed change.
LEMMA VaultCodesKeep ==
  ASSUME NEW l \in Vault!Tables, NEW m, VaultWhole(l),
         m.entitlement = l.entitlement, m.audits = l.audits, m.order = l.order, m.event = l.event,
         \A c \in Codes :
           \/ m.code[c] = l.code[c]
           \/ /\ m.code[c] # None
              /\ \/ l.code[c] = None /\ m.code[c].redeemedByUserId = None
                 \/ /\ l.code[c] # None /\ l.code[c].status # "redeemed"
                    /\ m.code[c].redeemedByUserId = l.code[c].redeemedByUserId
  PROVE  VaultKeeps(l, m)
<1>1. \A c \in Codes : l.code[c] # None /\ l.code[c].status # "redeemed" =>
        l.code[c].redeemedByUserId = None
  BY DEF VaultWhole, VaultCodesAgree
<1> QED
  BY <1>1 DEF VaultKeeps, VaultEntitled

LEMMA VaultconsumeKeeps ==
  ASSUME VaultConstants, VaultInv, NEW u \in Users, NEW r \in Requests, Vault!consumeLlmQuota(u, r)
  PROVE  VaultInv'
<1> DEFINE e == ledger.entitlement[u]
           n == e.llmQuotaUsed + 1
           row == [e EXCEPT !.llmQuotaUsed = n]
           w == [ledger EXCEPT !.entitlement = [ledger.entitlement EXCEPT ![u] = row],
                               !.usage = ledger.usage \cup {<<u, r>>}]
<1>1. Vault!run([ledger EXCEPT !.entitlement[u].llmQuotaUsed = @ + 1, !.usage = @ \cup {<<u, r>>}], <<>>)
  BY DEF Vault!consumeLlmQuota
<1>2. ledger \in Vault!Tables /\ VaultWhole(ledger)
  BY <1>1, VaultIdle
<1>3. e \in Vault!EntitlementRecord /\ VaultEntitled(ledger, u) = e
  BY <1>2, VaultTableTypes DEF Vault!consumeLlmQuota, Vault!isActiveEntitlementAt, VaultEntitled
<1>4. row \in Vault!EntitlementRecord /\ row.grants = e.grants /\ row.adjusted = e.adjusted
  <2>1. n \in Nat
    BY <1>3 DEF Vault!EntitlementRecord
  <2> HIDE DEF n, e
  <2> QED
    BY <1>3, <2>1 DEF Vault!EntitlementRecord
<1>5. [ledger EXCEPT !.entitlement[u].llmQuotaUsed = @ + 1, !.usage = @ \cup {<<u, r>>}] = w
  BY <1>2, VaultTableTypes
<1> HIDE DEF row
<1>6. w \in Vault!Tables /\ VaultKeeps(ledger, w)
  <2>1. /\ [ledger.entitlement EXCEPT ![u] = row] \in [Users -> Vault!EntitlementRecord \cup {None}]
        /\ ledger.usage \cup {<<u, r>>} \in SUBSET (Users \X Requests)
    BY <1>2, <1>4, VaultTableTypes
  <2>2. w \in Vault!Tables
    BY <1>2, <2>1 DEF Vault!Tables
  <2>3. /\ w.entitlement = [ledger.entitlement EXCEPT ![u] = row] /\ w.code = ledger.code
        /\ w.order = ledger.order /\ w.event = ledger.event /\ w.audits = ledger.audits
    BY <1>2, VaultTableTypes
  <2>4. /\ row.grants = VaultEntitled(ledger, u).grants
        /\ row.adjusted = VaultEntitled(ledger, u).adjusted
    BY <1>3, <1>4
  <2> HIDE DEF w, e
  <2>5. VaultKeeps(ledger, w)
    BY <1>2, <1>4, <2>3, <2>4, VaultRowKeeps
  <2> QED
    BY <2>2, <2>5
<1> HIDE DEF w
<1>7. VaultWhole(w)
  BY <1>2, <1>6, VaultKeptWhole
<1> QED
  BY <1>1, <1>5, <1>6, <1>7, VaultRunKeeps


\* What operations of one, two and three further writes make.
LEMMA VaultTodoOne ==
  ASSUME NEW l \in Vault!Tables, NEW a \in Vault!Writes, VaultFits(l, a)
  PROVE  <<a>> # <<>> /\ VaultTodo(l, <<a>>) /\ VaultMade(l, <<a>>) = VaultAfterWrite(l, a)
<1> DEFINE t == <<a>>
<1>1. t \in Seq(Vault!Writes) /\ Len(t) = 1 /\ t[1] = a
  OBVIOUS
<1> HIDE DEF t
<1>2. VaultTodo(l, t) /\ VaultMade(l, t) = VaultAfterWrite(l, a)
  BY <1>1 DEF VaultTodo, VaultMade, VaultAfterSecond, VaultAfterThird
<1> QED
  BY <1>2, VaultSomethingToDo DEF t

LEMMA VaultTodoTwo ==
  ASSUME NEW l \in Vault!Tables, NEW a \in Vault!Writes, VaultFits(l, a), NEW b \in Vault!Writes, VaultFits(l, b)
  PROVE  /\ <<a, b>> # <<>> /\ VaultTodo(l, <<a, b>>)
         /\ VaultMade(l, <<a, b>>) = VaultAfterWrite(VaultAfterWrite(l, a), b)
<1> DEFINE t == <<a, b>>
<1>1. t \in Seq(Vault!Writes) /\ Len(t) = 2 /\ t[1] = a /\ t[2] = b
  OBVIOUS
<1> HIDE DEF t
<1>2. VaultTodo(l, t)
  BY <1>1 DEF VaultTodo
<1>3. VaultMade(l, t) = VaultAfterWrite(VaultAfterWrite(l, a), b)
  BY <1>1 DEF VaultMade, VaultAfterSecond, VaultAfterThird
<1> QED
  BY <1>2, <1>3, VaultSomethingToDo DEF t

LEMMA VaultTodoThree ==
  ASSUME NEW l \in Vault!Tables, NEW a \in Vault!Writes, VaultFits(l, a), NEW b \in Vault!Writes, VaultFits(l, b),
         NEW c \in Vault!Writes, VaultFits(l, c)
  PROVE  /\ <<a, b, c>> # <<>> /\ VaultTodo(l, <<a, b, c>>)
         /\ VaultMade(l, <<a, b, c>>) = VaultAfterWrite(VaultAfterWrite(VaultAfterWrite(l, a), b), c)
<1> DEFINE t == <<a, b, c>>
<1>1. t \in Seq(Vault!Writes) /\ Len(t) = 3 /\ t[1] = a /\ t[2] = b /\ t[3] = c
  OBVIOUS
<1> HIDE DEF t
<1>2. VaultTodo(l, t)
  BY <1>1 DEF VaultTodo
<1>3. VaultMade(l, t) = VaultAfterWrite(VaultAfterWrite(VaultAfterWrite(l, a), b), c)
  BY <1>1 DEF VaultMade, VaultAfterSecond, VaultAfterThird
<1> QED
  BY <1>2, <1>3, VaultSomethingToDo DEF t

\* The write of an entitlement, and what it changes.
LEMMA VaultUpsertWrites ==
  ASSUME NEW l \in Vault!Tables, NEW u \in Users, NEW row \in Vault!EntitlementRecord
  PROVE  LET w == Vault!upsertEntitlement(u, row)
             m == VaultAfterWrite(l, w)
         IN  /\ w \in Vault!Writes /\ VaultFits(l, w) /\ m \in Vault!Tables
             /\ m.entitlement = [l.entitlement EXCEPT ![u] = row]
             /\ m.code = l.code /\ m.order = l.order /\ m.event = l.event /\ m.audits = l.audits
<1> DEFINE w == Vault!upsertEntitlement(u, row)
<1>1. w \in Vault!Writes /\ w.write = "upsertEntitlement" /\ w.user = u /\ w.row = row
  BY DEF Vault!upsertEntitlement, Vault!Writes
<1>2. VaultFits(l, w)
  BY <1>1 DEF VaultFits
<1> HIDE DEF w
<1>3. VaultAfterWrite(l, w) \in Vault!Tables /\ VaultChanged(l, w, VaultAfterWrite(l, w))
  BY <1>1, <1>2, VaultWriteTypes
<1>4. /\ w \in Vault!Writes /\ VaultFits(l, w) /\ VaultAfterWrite(l, w) \in Vault!Tables
      /\ VaultAfterWrite(l, w).entitlement = [l.entitlement EXCEPT ![u] = row]
      /\ VaultAfterWrite(l, w).code = l.code /\ VaultAfterWrite(l, w).order = l.order
      /\ VaultAfterWrite(l, w).event = l.event /\ VaultAfterWrite(l, w).audits = l.audits
  BY <1>1, <1>2, <1>3 DEF VaultChanged
<1> QED
  BY <1>4 DEF w

LEMMA VaultRedeemedKeeps ==
  ASSUME VaultConstants, VaultInv, NEW u \in Users, NEW c \in Codes,
         ledger.code[c] # None, ledger.code[c].status = "active",
         NEW row \in Vault!EntitlementRecord, row.grants = Append(VaultEntitled(ledger, u).grants, c),
         row.adjusted = VaultEntitled(ledger, u).adjusted,
         Vault!run(ledger, <<Vault!markActivationCodeRedeemed(c, u), Vault!upsertEntitlement(u, row)>>)
  PROVE  VaultInv'
<1> DEFINE a == Vault!markActivationCodeRedeemed(c, u)
           b == Vault!upsertEntitlement(u, row)
           n == VaultAfterWrite(ledger, a)
           m == VaultAfterWrite(n, b)
<1>1. ledger \in Vault!Tables /\ VaultWhole(ledger)
  BY VaultIdle
<1>2. a \in Vault!Writes /\ a.write = "markActivationCodeRedeemed" /\ a.code = c /\ a.user = u
  BY DEF Vault!markActivationCodeRedeemed, Vault!Writes
<1>3. VaultFits(ledger, a)
  BY <1>2 DEF VaultFits
<1>4. n \in Vault!Tables /\ VaultChanged(ledger, a, n)
  <2> HIDE DEF a
  <2> QED
    BY <1>1, <1>2, <1>3, VaultWriteTypes
<1> HIDE DEF n
<1>5. /\ b \in Vault!Writes /\ VaultFits(ledger, b) /\ m \in Vault!Tables
      /\ m.entitlement = [n.entitlement EXCEPT ![u] = row]
      /\ m.code = n.code /\ m.order = n.order /\ m.event = n.event /\ m.audits = n.audits
  <2>1. VaultFits(ledger, b)
    BY <1>1, VaultUpsertWrites
  <2> QED
    BY <1>4, <2>1, VaultUpsertWrites
<1> HIDE DEF a, b, m
<1>6. /\ m.entitlement = [ledger.entitlement EXCEPT ![u] = row]
      /\ m.code = [ledger.code EXCEPT ![c] = [ledger.code[c] EXCEPT !.status = "redeemed",
                                                !.redeemedByUserId = u]]
      /\ m.order = ledger.order /\ m.event = ledger.event /\ m.audits = ledger.audits
  BY <1>2, <1>4, <1>5 DEF VaultChanged
<1>7. ledger.code[c].redeemedByUserId = None
  BY <1>1 DEF VaultWhole, VaultCodesAgree
<1>8. VaultWhole(m)
  <2>1. VaultGrant(ledger, m, u, c)
    BY <1>6 DEF VaultGrant
  <2> QED
    BY <1>1, <1>6, <1>7, <2>1, VaultCodeGranted
<1>9. <<a, b>> # <<>> /\ VaultTodo(ledger, <<a, b>>) /\ VaultMade(ledger, <<a, b>>) = m
  BY <1>1, <1>2, <1>3, <1>5, VaultTodoTwo DEF m, n
<1>10. Vault!run(ledger, <<a, b>>)
  BY DEF a, b
<1> DEFINE t == <<a, b>>
<1>11. t # <<>> /\ VaultTodo(ledger, t) /\ VaultWhole(VaultMade(ledger, t)) /\ Vault!run(ledger, t)
  BY <1>8, <1>9, <1>10
<1> HIDE DEF t
<1> QED
  BY <1>1, <1>11, VaultRunKeeps

\* What is granted now counts from now or from when the entitlement ends.
LEMMA VaultStackedRow ==
  ASSUME VaultConstants, ledger \in Vault!Tables, today \in Nat, NEW u \in Users, NEW c \in Codes
  PROVE  /\ Vault!Stacked(u, c) \in Vault!EntitlementRecord
         /\ Vault!Stacked(u, c).grants = Append(VaultEntitled(ledger, u).grants, c)
         /\ Vault!Stacked(u, c).adjusted = VaultEntitled(ledger, u).adjusted
<1> DEFINE e == Vault!getEntitlement(u)
           g == Append(e.grants, c)
           x == Vault!Base(u) + PassDays
           l == IF Vault!isActiveEntitlementAt(u) THEN e.llmQuotaLimit + Credits ELSE Credits
           k == IF Vault!isActiveEntitlementAt(u) THEN e.llmQuotaUsed ELSE 0
<1>1. e = VaultEntitled(ledger, u) /\ e \in Vault!EntitlementRecord
  BY VaultEntitledType DEF Vault!getEntitlement, VaultEntitled
<1>2. g \in Seq(Codes \cup Orders)
  <2> HIDE DEF e
  <2> QED
    BY <1>1 DEF Vault!EntitlementRecord
<1>3. l \in Nat /\ k \in Nat
  <2> HIDE DEF e
  <2> QED
    BY <1>1 DEF Vault!EntitlementRecord, VaultConstants
<1>4. x \in Nat
  <2>1. Vault!Base(u) \in Nat
    BY VaultTableTypes DEF Vault!Base, Vault!isActiveEntitlementAt, Vault!EntitlementRecord
  <2> QED
    BY <2>1 DEF VaultConstants
<1>5. Vault!Stacked(u, c) = [e EXCEPT !.expiresAt = x, !.llmQuotaLimit = l, !.llmQuotaUsed = k, !.grants = g]
  BY <1>1 DEF Vault!Stacked, Vault!EntitlementRecord
<1> HIDE DEF e, g, x, l, k
<1>6. /\ [e EXCEPT !.expiresAt = x, !.llmQuotaLimit = l, !.llmQuotaUsed = k, !.grants = g]
           \in Vault!EntitlementRecord
      /\ [e EXCEPT !.expiresAt = x, !.llmQuotaLimit = l, !.llmQuotaUsed = k, !.grants = g].grants = g
      /\ [e EXCEPT !.expiresAt = x, !.llmQuotaLimit = l, !.llmQuotaUsed = k, !.grants = g].adjusted
           = e.adjusted
  BY <1>1, <1>2, <1>3, <1>4 DEF Vault!EntitlementRecord
<1> QED
  BY <1>1, <1>5, <1>6 DEF g


LEMMA VaultredeemKeeps ==
  ASSUME VaultConstants, VaultInv, NEW u \in Users, NEW c \in Codes,
         ~Vault!expireActivationCodeIfNeeded(c), Vault!redeemActivationCodeAndGrantEntitlement(u, c)
  PROVE  VaultInv'
<1> DEFINE e == Vault!getEntitlement(u)
           g == Append(e.grants, c)
           x == today + PassDays
           row == [e EXCEPT !.expiresAt = x, !.llmQuotaLimit = Credits, !.llmQuotaUsed = 0,
                            !.grants = g]
           redeem(r) == Vault!run(ledger, <<Vault!markActivationCodeRedeemed(c, u), Vault!upsertEntitlement(u, r)>>)
<1>1. /\ ledger.code[c] # None /\ ledger.code[c].status = "active"
      /\ redeem([Vault!getEntitlement(u) EXCEPT !.expiresAt = today + PassDays,
                   !.llmQuotaLimit = Credits, !.llmQuotaUsed = 0, !.grants = Append(@, c)])
         \/ redeem(Vault!Stacked(u, c))
  BY DEF Vault!redeemActivationCodeAndGrantEntitlement, Vault!expireActivationCodeIfNeeded
<1>2. ledger \in Vault!Tables /\ today \in Nat
  BY DEF VaultInv, Vault!TypeOK
<1>3. e = VaultEntitled(ledger, u) /\ e \in Vault!EntitlementRecord
  BY <1>2, VaultEntitledType DEF Vault!getEntitlement, VaultEntitled
<1>4. [Vault!getEntitlement(u) EXCEPT !.expiresAt = today + PassDays,
         !.llmQuotaLimit = Credits, !.llmQuotaUsed = 0, !.grants = Append(@, c)] = row
  <2> HIDE DEF e
  <2>1. \A p \in Vault!EntitlementRecord :
          [p EXCEPT !.expiresAt = x, !.llmQuotaLimit = Credits, !.llmQuotaUsed = 0,
                    !.grants = Append(@, c)] =
          [p EXCEPT !.expiresAt = x, !.llmQuotaLimit = Credits, !.llmQuotaUsed = 0,
                    !.grants = Append(p.grants, c)]
    BY DEF Vault!EntitlementRecord
  <2> QED
    BY <1>3, <2>1 DEF e
<1>5. g \in Seq(Codes \cup Orders) /\ x \in Nat /\ Credits \in Nat
  <2> HIDE DEF e
  <2> QED
    BY <1>2, <1>3 DEF Vault!EntitlementRecord, VaultConstants
<1>6. row \in Vault!EntitlementRecord /\ row.grants = g /\ row.adjusted = e.adjusted
  <2> HIDE DEF e, g, x
  <2> QED
    BY <1>3, <1>5 DEF Vault!EntitlementRecord
<1>7. /\ Vault!Stacked(u, c) \in Vault!EntitlementRecord
      /\ Vault!Stacked(u, c).grants = Append(VaultEntitled(ledger, u).grants, c)
      /\ Vault!Stacked(u, c).adjusted = VaultEntitled(ledger, u).adjusted
  BY <1>2, VaultStackedRow
<1>8. row.grants = Append(VaultEntitled(ledger, u).grants, c) /\ row.adjusted = VaultEntitled(ledger, u).adjusted
  BY <1>3, <1>6
<1>9. redeem(row) \/ redeem(Vault!Stacked(u, c))
  BY <1>1, <1>4
<1> HIDE DEF row
<1> QED
  BY <1>1, <1>6, <1>7, <1>8, <1>9, VaultRedeemedKeeps

\* A code that nobody redeemed gets another status.
VaultCodeStatuses == {"pending_delivery", "active", "redeemed", "expired", "disabled"}
VaultMoved(c, r) ==
  /\ ledger.code[c] # None /\ ledger.code[c].status # "redeemed"
  /\ \E s \in VaultCodeStatuses : r = [ledger.code[c] EXCEPT !.status = s]

LEMMA VaultMovedCodes ==
  ASSUME VaultConstants, ledger \in Vault!Tables, VaultWhole(ledger), NEW codes,
         codes = [c \in Codes |-> codes[c]],
         \A c \in Codes : codes[c] = ledger.code[c] \/ VaultMoved(c, codes[c])
  PROVE  /\ codes \in [Codes -> Vault!ActivationCodeRecord \cup {None}]
         /\ \A c \in Codes :
              \/ codes[c] = ledger.code[c]
              \/ /\ codes[c] # None /\ ledger.code[c] # None /\ ledger.code[c].status # "redeemed"
                 /\ codes[c].redeemedByUserId = ledger.code[c].redeemedByUserId
<1>1. ledger.code \in [Codes -> Vault!ActivationCodeRecord \cup {None}]
  BY VaultTableTypes
<1>2. ASSUME NEW c \in Codes, VaultMoved(c, codes[c])
      PROVE  /\ codes[c] \in Vault!ActivationCodeRecord /\ ledger.code[c] # None
             /\ ledger.code[c].status # "redeemed"
             /\ codes[c].redeemedByUserId = ledger.code[c].redeemedByUserId
  BY <1>1, <1>2 DEF VaultMoved, VaultCodeStatuses, Vault!ActivationCodeRecord
<1>3. None \notin Vault!ActivationCodeRecord
  BY DEF VaultConstants
<1>4. \A c \in Codes : codes[c] \in Vault!ActivationCodeRecord \cup {None}
  BY <1>1, <1>2
<1>5. codes \in [Codes -> Vault!ActivationCodeRecord \cup {None}]
  BY <1>4
<1> QED
  BY <1>2, <1>3, <1>5

LEMMA VaultMovedKeeps ==
  ASSUME VaultConstants, VaultInv, NEW codes, codes = [c \in Codes |-> codes[c]],
         \A c \in Codes : codes[c] = ledger.code[c] \/ VaultMoved(c, codes[c]),
         Vault!run([ledger EXCEPT !.code = codes], <<>>)
  PROVE  VaultInv'
<1> DEFINE w == [ledger EXCEPT !.code = codes]
<1>1. ledger \in Vault!Tables /\ VaultWhole(ledger)
  BY VaultIdle
<1>2. /\ codes \in [Codes -> Vault!ActivationCodeRecord \cup {None}]
      /\ \A c \in Codes :
           \/ codes[c] = ledger.code[c]
           \/ /\ codes[c] # None /\ ledger.code[c] # None /\ ledger.code[c].status # "redeemed"
              /\ codes[c].redeemedByUserId = ledger.code[c].redeemedByUserId
  BY <1>1, VaultMovedCodes
<1>3. /\ w \in Vault!Tables /\ w.code = codes /\ w.entitlement = ledger.entitlement
      /\ w.audits = ledger.audits /\ w.order = ledger.order /\ w.event = ledger.event
  BY <1>1, <1>2 DEF Vault!Tables
<1> HIDE DEF w
<1>4. VaultKeeps(ledger, w)
  BY <1>1, <1>2, <1>3, VaultCodesKeep
<1>5. VaultWhole(w)
  BY <1>1, <1>3, <1>4, VaultKeptWhole
<1> QED
  BY <1>3, <1>5, VaultRunKeeps DEF w

LEMMA VaultOneMoves ==
  ASSUME VaultConstants, VaultInv, NEW c \in Codes, ledger.code[c] # None,
         ledger.code[c].status # "redeemed", NEW s \in VaultCodeStatuses,
         Vault!run([ledger EXCEPT !.code = [ledger.code EXCEPT ![c] = [ledger.code[c] EXCEPT !.status = s]]],
             <<>>)
  PROVE  VaultInv'
<1> DEFINE r == [ledger.code[c] EXCEPT !.status = s]
           codes == [ledger.code EXCEPT ![c] = r]
<1>1. ledger.code \in [Codes -> Vault!ActivationCodeRecord \cup {None}]
  BY VaultTableTypes DEF VaultInv, Vault!TypeOK
<1>2. VaultMoved(c, r)
  BY DEF VaultMoved
<1> HIDE DEF r
<1>3. codes = [d \in Codes |-> codes[d]] /\ codes[c] = r
      /\ \A d \in Codes : d # c => codes[d] = ledger.code[d]
  BY <1>1
<1> HIDE DEF codes
<1>4. Vault!run([ledger EXCEPT !.code = codes], <<>>)
  BY DEF codes, r
<1> QED
  BY <1>2, <1>3, <1>4, VaultMovedKeeps

LEMMA VaultexpireKeeps ==
  ASSUME VaultConstants, VaultInv, NEW u \in Users, NEW c \in Codes,
         Vault!expireActivationCodeIfNeeded(c), Vault!redeemActivationCodeAndGrantEntitlement(u, c)
  PROVE  VaultInv'
<1>1. /\ ledger.code[c] # None /\ ledger.code[c].status # "redeemed"
      /\ Vault!run([ledger EXCEPT !.code[c].status = "expired"], <<>>)
  BY DEF Vault!redeemActivationCodeAndGrantEntitlement, Vault!expireActivationCodeIfNeeded
<1>2. [ledger EXCEPT !.code[c].status = "expired"] =
      [ledger EXCEPT !.code = [ledger.code EXCEPT ![c] = [ledger.code[c] EXCEPT !.status = "expired"]]]
  BY VaultTableTypes DEF VaultInv, Vault!TypeOK
<1>3. "expired" \in VaultCodeStatuses
  BY DEF VaultCodeStatuses
<1> QED
  BY <1>1, <1>2, <1>3, VaultOneMoves

LEMMA VaultdisableKeeps ==
  ASSUME VaultConstants, VaultInv, NEW c \in Codes, Vault!disablePreparedSelfServiceActivationCode(c)
  PROVE  VaultInv'
<1>1. /\ ledger.code[c] # None /\ ledger.code[c].status # "redeemed"
      /\ Vault!run([ledger EXCEPT !.code[c].status = "disabled"], <<>>)
  BY DEF Vault!disablePreparedSelfServiceActivationCode
<1>2. [ledger EXCEPT !.code[c].status = "disabled"] =
      [ledger EXCEPT !.code = [ledger.code EXCEPT ![c] = [ledger.code[c] EXCEPT !.status = "disabled"]]]
  BY VaultTableTypes DEF VaultInv, Vault!TypeOK
<1>3. "disabled" \in VaultCodeStatuses
  BY DEF VaultCodeStatuses
<1> QED
  BY <1>1, <1>2, <1>3, VaultOneMoves


LEMMA VaultactivateKeeps ==
  ASSUME VaultConstants, VaultInv, NEW c \in Codes, Vault!activatePreparedSelfServiceActivationCode(c)
  PROVE  VaultInv'
<1> DEFINE u == ledger.code[c].issuedToUserId
           activated == [d \in Codes |->
             CASE d = c -> [ledger.code[d] EXCEPT !.status = "active"]
               [] Vault!OfUser(d, u, "active") -> [ledger.code[d] EXCEPT !.status = "disabled"]
               [] OTHER -> ledger.code[d]]
           one(s) == [ledger EXCEPT !.code = [ledger.code EXCEPT ![c] =
                                                [ledger.code[c] EXCEPT !.status = s]]]
<1>1. ledger.code[c] # None /\ ledger.code[c].status = "pending_delivery"
  BY DEF Vault!activatePreparedSelfServiceActivationCode
<1>2. ledger \in Vault!Tables
  BY DEF VaultInv, Vault!TypeOK
<1>3. \/ Vault!run(one("expired"), <<>>)
      \/ Vault!run(one("disabled"), <<>>)
      \/ Vault!run([ledger EXCEPT !.code = activated], <<>>)
  <2>1. CASE ledger.code[c].redeemBy <= today
    BY <1>2, <2>1, VaultTableTypes DEF Vault!activatePreparedSelfServiceActivationCode
  <2>2. CASE ~(ledger.code[c].redeemBy <= today) /\ Vault!isActiveEntitlementAt(u)
    <3>1. ledger.code[c].redeemBy > today
      BY <1>1, <1>2, <2>2, VaultTableTypes
         DEF Vault!ActivationCodeRecord, VaultInv, Vault!TypeOK
    <3> QED
      BY <1>2, <2>2, <3>1, VaultTableTypes DEF Vault!activatePreparedSelfServiceActivationCode
  <2>3. CASE ~(ledger.code[c].redeemBy <= today) /\ ~Vault!isActiveEntitlementAt(u)
    BY <1>2, <2>3, VaultTableTypes DEF Vault!activatePreparedSelfServiceActivationCode
  <2> QED
    BY <2>1, <2>2, <2>3
<1>4. {"expired", "disabled", "active"} \subseteq VaultCodeStatuses
  BY DEF VaultCodeStatuses
<1>5. ASSUME Vault!run([ledger EXCEPT !.code = activated], <<>>) PROVE VaultInv'
  <2>1. activated = [d \in Codes |-> activated[d]]
    OBVIOUS
  <2>2. ASSUME NEW d \in Codes PROVE activated[d] = ledger.code[d] \/ VaultMoved(d, activated[d])
    <3>1. CASE d = c
      BY <1>1, <1>4, <3>1 DEF VaultMoved
    <3>2. CASE d # c /\ Vault!OfUser(d, u, "active")
      BY <1>4, <3>2 DEF VaultMoved, Vault!OfUser
    <3>3. CASE d # c /\ ~Vault!OfUser(d, u, "active")
      BY <3>3
    <3> QED
      BY <3>1, <3>2, <3>3
  <2> HIDE DEF activated
  <2> QED
    BY <1>5, <2>1, <2>2, VaultMovedKeeps
<1> QED
  BY <1>1, <1>3, <1>4, <1>5, VaultOneMoves

LEMMA VaultprepareKeeps ==
  ASSUME VaultConstants, VaultInv, NEW u \in Users, NEW c \in Codes, Vault!prepareSelfServiceActivationCode(u, c)
  PROVE  VaultInv'
<1> DEFINE put == [d \in Codes |->
             IF ~Vault!OfUser(d, u, "pending_delivery") THEN ledger.code[d]
             ELSE [ledger.code[d] EXCEPT !.status =
                     IF ledger.code[d].redeemBy <= today THEN "expired" ELSE "disabled"]]
           row == Vault!CodeOf(u, "self_service_email", "pending_delivery")
           a == Vault!createActivationCode(c, row)
           w == [ledger EXCEPT !.nextAllowed = [ledger.nextAllowed EXCEPT ![u] = today + 1],
                               !.code = put]
<1>1. ledger \in Vault!Tables /\ today \in Nat /\ ledger.code[c] = None
  BY DEF VaultInv, Vault!TypeOK, Vault!prepareSelfServiceActivationCode
<1>2. Vault!run(w, <<a>>)
  <2>1. [ledger EXCEPT !.nextAllowed[u] = today + 1,
            !.code = [d \in Codes |->
              IF ~Vault!OfUser(d, u, "pending_delivery") THEN @[d]
              ELSE [@[d] EXCEPT !.status = IF ledger.code[d].redeemBy <= today
                                           THEN "expired" ELSE "disabled"]]] = w
    <3> HIDE DEF put
    <3>1. [d \in Codes |->
              IF ~Vault!OfUser(d, u, "pending_delivery") THEN ledger.code[d]
              ELSE [ledger.code[d] EXCEPT !.status = IF ledger.code[d].redeemBy <= today
                                                     THEN "expired" ELSE "disabled"]] = put
      BY DEF put
    <3> QED
      BY <1>1, <3>1, VaultTableTypes
  <2> QED
    BY <2>1 DEF Vault!prepareSelfServiceActivationCode
<1>3. VaultWhole(ledger)
  BY <1>2, VaultIdle
<1>4. /\ put \in [Codes -> Vault!ActivationCodeRecord \cup {None}]
      /\ put[c] = None
      /\ \A d \in Codes :
           \/ put[d] = ledger.code[d]
           \/ /\ put[d] # None /\ ledger.code[d] # None /\ ledger.code[d].status # "redeemed"
              /\ put[d].redeemedByUserId = ledger.code[d].redeemedByUserId
  <2>1. put = [d \in Codes |-> put[d]]
    OBVIOUS
  <2>2. ASSUME NEW d \in Codes PROVE put[d] = ledger.code[d] \/ VaultMoved(d, put[d])
    <3>1. CASE Vault!OfUser(d, u, "pending_delivery")
      BY <3>1 DEF VaultMoved, Vault!OfUser, VaultCodeStatuses
    <3>2. CASE ~Vault!OfUser(d, u, "pending_delivery")
      BY <3>2
    <3> QED
      BY <3>1, <3>2
  <2>3. put[c] = None
    BY <1>1 DEF Vault!OfUser
  <2> HIDE DEF put
  <2> QED
    BY <1>1, <1>3, <2>1, <2>2, <2>3, VaultMovedCodes
<1> HIDE DEF put
<1>5. row \in Vault!ActivationCodeRecord /\ row.redeemedByUserId = None
  BY <1>1 DEF Vault!CodeOf, Vault!ActivationCodeRecord
<1> HIDE DEF row
<1>6. a \in Vault!Writes /\ a.write = "createActivationCode" /\ a.code = c /\ a.row = row
  BY <1>5 DEF Vault!createActivationCode, Vault!Writes
<1>7. w \in Vault!Tables /\ w.code = put /\ w.entitlement = ledger.entitlement
      /\ w.audits = ledger.audits /\ w.order = ledger.order /\ w.event = ledger.event
  <2>1. [ledger.nextAllowed EXCEPT ![u] = today + 1] \in [Users -> Nat]
    <3> DEFINE n == today + 1
    <3>1. n \in Nat
      BY <1>1
    <3> HIDE DEF n
    <3> QED
      BY <1>1, <3>1, VaultTableTypes DEF n
  <2> QED
    BY <1>1, <1>4, <2>1 DEF Vault!Tables
<1> HIDE DEF w, a
<1>8. VaultFits(w, a) /\ VaultChanged(w, a, VaultAfterWrite(w, a)) /\ VaultAfterWrite(w, a) \in Vault!Tables
  BY <1>6, <1>7, VaultWriteTypes DEF VaultFits
<1> DEFINE m == VaultAfterWrite(w, a)
<1>9. /\ m.code = [put EXCEPT ![c] = row] /\ m.entitlement = ledger.entitlement
      /\ m.audits = ledger.audits /\ m.order = ledger.order /\ m.event = ledger.event
  BY <1>6, <1>7, <1>8 DEF VaultChanged
<1>10. VaultKeeps(ledger, m)
  <2>1. row # None
    BY <1>5 DEF VaultConstants
  <2> HIDE DEF m
  <2>2. m.code[c] = row /\ \A d \in Codes : d # c => m.code[d] = put[d]
    BY <1>4, <1>9
  <2>3. \A d \in Codes :
          \/ m.code[d] = ledger.code[d]
          \/ /\ m.code[d] # None
             /\ \/ ledger.code[d] = None /\ m.code[d].redeemedByUserId = None
                \/ /\ ledger.code[d] # None /\ ledger.code[d].status # "redeemed"
                   /\ m.code[d].redeemedByUserId = ledger.code[d].redeemedByUserId
    BY <1>1, <1>4, <1>5, <2>1, <2>2
  <2> QED
    BY <1>1, <1>3, <1>9, <2>3, VaultCodesKeep
<1>11. VaultWhole(m)
  BY <1>1, <1>3, <1>10, VaultKeptWhole
<1>12. <<a>> # <<>> /\ VaultTodo(w, <<a>>) /\ VaultMade(w, <<a>>) = m
  BY <1>6, <1>7, <1>8, VaultTodoOne
<1> HIDE DEF m
<1> DEFINE t == <<a>>
<1>13. t # <<>> /\ VaultTodo(w, t) /\ VaultWhole(VaultMade(w, t)) /\ Vault!run(w, t)
  BY <1>2, <1>11, <1>12
<1> HIDE DEF t
<1> QED
  BY <1>7, <1>13, VaultRunKeeps

\* Only the values of these are looked at.
LEMMA VaultadjustKeeps ==
  ASSUME VaultConstants, VaultInv, NEW u \in Users, NEW q \in {0, 1}, NEW x \in Nat,
         Vault!applyEntitlementAdjustmentWithAudit(u, x, q)
  PROVE  VaultInv'
<1> DEFINE e == Vault!getEntitlement(u)
           k == e.llmQuotaLimit + q
           n == e.adjusted + 1
           row == [e EXCEPT !.expiresAt = x, !.llmQuotaLimit = k, !.adjusted = n]
           a == Vault!upsertEntitlement(u, row)
           b == Vault!createAdminEntitlementAdjustment(u)
           l == VaultAfterWrite(ledger, a)
           m == VaultAfterWrite(l, b)
<1>1. ledger \in Vault!Tables
  BY DEF VaultInv, Vault!TypeOK
<1>2. e = VaultEntitled(ledger, u) /\ e \in Vault!EntitlementRecord
  BY <1>1, VaultEntitledType DEF Vault!getEntitlement, VaultEntitled
<1>3. [e EXCEPT !.expiresAt = x, !.llmQuotaLimit = @ + q, !.adjusted = @ + 1] = row
  <2> HIDE DEF e
  <2> QED
    BY <1>2 DEF Vault!EntitlementRecord
<1>4. Vault!run(ledger, <<a, b>>)
  BY <1>3 DEF Vault!applyEntitlementAdjustmentWithAudit
<1>5. VaultWhole(ledger)
  BY <1>4, VaultIdle
<1>6. row \in Vault!EntitlementRecord /\ row.grants = e.grants /\ row.adjusted = n
  <2>1. k \in Nat /\ n \in Nat
    <3> HIDE DEF e
    <3> QED
      BY <1>2 DEF Vault!EntitlementRecord
  <2> HIDE DEF e, k, n
  <2> QED
    BY <1>2, <2>1 DEF Vault!EntitlementRecord
<1> HIDE DEF row
<1>7. /\ a \in Vault!Writes /\ VaultFits(ledger, a) /\ l \in Vault!Tables
      /\ l.entitlement = [ledger.entitlement EXCEPT ![u] = row]
      /\ l.code = ledger.code /\ l.order = ledger.order /\ l.event = ledger.event
      /\ l.audits = ledger.audits
  BY <1>1, <1>6, VaultUpsertWrites
<1>8. b \in Vault!Writes /\ b.write = "createAdminEntitlementAdjustment" /\ b.user = u
  BY DEF Vault!createAdminEntitlementAdjustment, Vault!Writes
<1> HIDE DEF a, b, l
<1>9. VaultFits(ledger, b) /\ VaultFits(l, b)
  BY <1>8 DEF VaultFits
<1>10. m \in Vault!Tables /\ VaultChanged(l, b, m)
  BY <1>7, <1>8, <1>9, VaultWriteTypes
<1> HIDE DEF m
<1>11. /\ m.entitlement = [ledger.entitlement EXCEPT ![u] = row]
       /\ m.code = ledger.code /\ m.order = ledger.order /\ m.event = ledger.event
       /\ m.audits = [ledger.audits EXCEPT ![u] = ledger.audits[u] + 1]
  BY <1>7, <1>8, <1>10 DEF VaultChanged
<1>12. row.grants = VaultEntitled(ledger, u).grants /\ row.adjusted = VaultEntitled(ledger, u).adjusted + 1
  BY <1>2, <1>6
<1>13. VaultWhole(m)
  <2>1. VaultKeeps(ledger, m)
    BY <1>1, <1>6, <1>11, <1>12, VaultRowKeeps
  <2> QED
    BY <1>1, <1>5, <2>1, VaultKeptWhole
<1> DEFINE t == <<a, b>>
<1>14. t # <<>> /\ VaultTodo(ledger, t) /\ VaultMade(ledger, t) = m
  BY <1>1, <1>7, <1>8, <1>9, VaultTodoTwo DEF l, m
<1>15. Vault!run(ledger, t)
  BY <1>4
<1> HIDE DEF t
<1> QED
  BY <1>1, <1>13, <1>14, <1>15, VaultRunKeeps


\* The records of an event and of a payment, and what they change.
LEMMA VaultEventWrites ==
  ASSUME VaultConstants, NEW l \in Vault!Tables, NEW e \in Events, NEW o \in Orders, NEW t \in Transactions
  PROVE  LET row == [outTradeNo |-> o, transactionId |-> t]
             w == Vault!createWebhookEvent(e, row)
             m == VaultAfterWrite(l, w)
         IN  /\ w \in Vault!Writes /\ VaultFits(l, w) /\ m \in Vault!Tables
             /\ m.event[e] = row /\ row # None
             /\ \A f \in Events : f # e => m.event[f] = l.event[f]
             /\ m.entitlement = l.entitlement /\ m.code = l.code /\ m.order = l.order
             /\ m.audits = l.audits
<1> DEFINE row == [outTradeNo |-> o, transactionId |-> t]
           w == Vault!createWebhookEvent(e, row)
<1>1. row \in Vault!WebhookEventRecord
  BY DEF Vault!WebhookEventRecord
<1>2. row # None
  BY <1>1 DEF VaultConstants
<1> HIDE DEF row
<1>3. w \in Vault!Writes /\ w.write = "createWebhookEvent" /\ w.event = e /\ w.row = row
  BY <1>1 DEF Vault!createWebhookEvent, Vault!Writes
<1>4. VaultFits(l, w)
  BY <1>3 DEF VaultFits
<1> HIDE DEF w
<1> DEFINE m == VaultAfterWrite(l, w)
<1>5. m \in Vault!Tables /\ VaultChanged(l, w, m)
  BY <1>3, <1>4, VaultWriteTypes
<1> HIDE DEF m
<1>6. /\ m.event = [l.event EXCEPT ![e] = row] /\ m.entitlement = l.entitlement
      /\ m.code = l.code /\ m.order = l.order /\ m.audits = l.audits
  BY <1>3, <1>5 DEF VaultChanged
<1>7. m.event[e] = row /\ \A f \in Events : f # e => m.event[f] = l.event[f]
  BY <1>6, VaultTableTypes
<1> QED
  BY <1>2, <1>3, <1>4, <1>5, <1>6, <1>7 DEF m, w, row

LEMMA VaultPaidWrites ==
  ASSUME VaultConstants, today \in Nat, NEW l \in Vault!Tables, NEW o \in Orders, l.order[o] # None,
         NEW t \in Transactions
  PROVE  LET w == Vault!markOrderPaid(o, t)
             m == VaultAfterWrite(l, w)
         IN  /\ w \in Vault!Writes /\ VaultFits(l, w) /\ m \in Vault!Tables
             /\ m.order[o] # None /\ m.order[o].userId = l.order[o].userId
             /\ m.order[o].status = "paid" /\ m.order[o].transactionId = t
             /\ m.order[o].paidAt = today
             /\ \A p \in Orders : p # o => m.order[p] = l.order[p]
             /\ m.entitlement = l.entitlement /\ m.code = l.code /\ m.event = l.event
             /\ m.audits = l.audits
<1> DEFINE w == Vault!markOrderPaid(o, t)
           r == [l.order[o] EXCEPT !.status = "paid", !.transactionId = t, !.paidAt = today]
<1>1. w \in Vault!Writes /\ w.write = "markOrderPaid" /\ w.order = o /\ w.transaction = t /\ w.at = today
  BY DEF Vault!markOrderPaid, Vault!Writes
<1>2. VaultFits(l, w)
  BY <1>1 DEF VaultFits
<1> HIDE DEF w
<1> DEFINE m == VaultAfterWrite(l, w)
<1>3. m \in Vault!Tables /\ VaultChanged(l, w, m)
  BY <1>1, <1>2, VaultWriteTypes
<1> HIDE DEF m
<1>4. l.order \in [Orders -> Vault!OrderRecord \cup {None}] /\ l.order[o] \in Vault!OrderRecord
  BY VaultTableTypes
<1>5. /\ r \in Vault!OrderRecord /\ r.userId = l.order[o].userId /\ r.status = "paid"
      /\ r.transactionId = t /\ r.paidAt = today
  BY <1>4 DEF Vault!OrderRecord
<1>6. r # None
  BY <1>5 DEF VaultConstants
<1>7. /\ m.order = [l.order EXCEPT ![o] = r] /\ m.entitlement = l.entitlement
      /\ m.code = l.code /\ m.event = l.event /\ m.audits = l.audits
  BY <1>1, <1>3 DEF VaultChanged
<1> HIDE DEF r
<1>8. m.order[o] = r /\ \A p \in Orders : p # o => m.order[p] = l.order[p]
  BY <1>4, <1>7
<1> QED
  BY <1>1, <1>2, <1>3, <1>5, <1>6, <1>7, <1>8 DEF m, w

\* A pass is extended, and what for is granted.
LEMMA VaultExtendedRow ==
  ASSUME VaultConstants, ledger \in Vault!Tables, NEW u \in Users, NEW o \in Orders, NEW at \in Nat
  PROVE  \E row \in Vault!EntitlementRecord :
           /\ Vault!extendMonthlyPass(u, o, at) = Vault!upsertEntitlement(u, row)
           /\ row.grants = Append(VaultEntitled(ledger, u).grants, o)
           /\ row.adjusted = VaultEntitled(ledger, u).adjusted
<1> DEFINE e == Vault!getEntitlement(u)
           g == Append(e.grants, o)
           x == (IF ledger.entitlement[u] # None /\ e.expiresAt > at THEN e.expiresAt ELSE at) + PassDays
           row == [e EXCEPT !.grants = g, !.expiresAt = x]
<1>1. e = VaultEntitled(ledger, u) /\ e \in Vault!EntitlementRecord
  BY VaultEntitledType DEF Vault!getEntitlement, VaultEntitled
<1>2. g \in Seq(Codes \cup Orders) /\ x \in Nat
  <2> HIDE DEF e
  <2> QED
    BY <1>1 DEF Vault!EntitlementRecord, VaultConstants
<1>3. Vault!extendMonthlyPass(u, o, at) = Vault!upsertEntitlement(u, row)
  <2> HIDE DEF e
  <2>1. \A p \in Vault!EntitlementRecord :
          [p EXCEPT !.grants = Append(@, o),
             !.expiresAt = (IF ledger.entitlement[u] # None /\ @ > at THEN @ ELSE at) + PassDays] =
          [p EXCEPT !.grants = Append(p.grants, o),
             !.expiresAt = (IF ledger.entitlement[u] # None /\ p.expiresAt > at THEN p.expiresAt
                            ELSE at) + PassDays]
    BY DEF Vault!EntitlementRecord
  <2> QED
    BY <1>1, <2>1 DEF Vault!extendMonthlyPass, e
<1>4. row \in Vault!EntitlementRecord /\ row.grants = g /\ row.adjusted = e.adjusted
  <2> HIDE DEF e, g, x
  <2> QED
    BY <1>1, <1>2 DEF Vault!EntitlementRecord
<1>5. row.grants = Append(VaultEntitled(ledger, u).grants, o) /\ row.adjusted = VaultEntitled(ledger, u).adjusted
  BY <1>1, <1>4
<1> HIDE DEF row
<1> QED
  BY <1>3, <1>4, <1>5


\* Only the event is recorded of an order that was settled.
LEMMA VaultrecordKeeps ==
  ASSUME VaultConstants, VaultInv, NEW e \in Events, NEW o \in Orders, NEW t \in Transactions,
         ledger.event[e] = None,
         Vault!run(ledger, <<Vault!createWebhookEvent(e, [outTradeNo |-> o, transactionId |-> t])>>)
  PROVE  VaultInv'
<1> DEFINE w == Vault!createWebhookEvent(e, [outTradeNo |-> o, transactionId |-> t])
           m == VaultAfterWrite(ledger, w)
<1>1. ledger \in Vault!Tables /\ VaultWhole(ledger)
  BY VaultIdle
<1>2. /\ w \in Vault!Writes /\ VaultFits(ledger, w) /\ m \in Vault!Tables
      /\ \A f \in Events : f # e => m.event[f] = ledger.event[f]
      /\ m.entitlement = ledger.entitlement /\ m.code = ledger.code /\ m.order = ledger.order
      /\ m.audits = ledger.audits
  BY <1>1, VaultEventWrites
<1> DEFINE s == <<w>>
<1>3. s # <<>> /\ VaultTodo(ledger, s) /\ VaultMade(ledger, s) = m /\ Vault!run(ledger, s)
  <2>1. Vault!run(ledger, s)
    OBVIOUS
  <2> HIDE DEF w
  <2> QED
    BY <1>1, <1>2, <2>1, VaultTodoOne
<1> HIDE DEF s, m
<1>4. VaultKeeps(ledger, m)
  BY <1>2 DEF VaultKeeps, VaultEntitled
<1>5. VaultWhole(m)
  BY <1>1, <1>4, VaultKeptWhole
<1> QED
  BY <1>1, <1>3, <1>5, VaultRunKeeps

\* What an order bought is made up for.
LEMMA VaultmakeUpKeeps ==
  ASSUME VaultConstants, VaultInv, NEW e \in Events, NEW o \in Orders,
         ledger.order[o] # None, ledger.order[o].status = "paid",
         ledger.entitlement[ledger.order[o].userId] = None, ledger.event[e] # None,
         ledger.event[e] = [outTradeNo |-> o, transactionId |-> ledger.order[o].transactionId],
         Vault!run(ledger, <<Vault!extendMonthlyPass(ledger.order[o].userId, o, ledger.order[o].paidAt)>>)
  PROVE  VaultInv'
<1> DEFINE u == ledger.order[o].userId
           at == ledger.order[o].paidAt
<1>1. ledger \in Vault!Tables /\ VaultWhole(ledger)
  BY VaultIdle
<1>2. u \in Users /\ at \in Nat
  BY <1>1, VaultTableTypes DEF Vault!OrderRecord, VaultWhole, VaultOrdersAgree
<1>3. \A v \in Users : ~VaultHasGrant(ledger, v, o)
  <2>1. ~VaultHasGrant(ledger, u, o)
    <3>1. VaultEntitled(ledger, u).grants = <<>>
      BY DEF VaultEntitled, Vault!NoEntitlement
    <3> QED
      BY <3>1 DEF VaultHasGrant
  <2>2. \A v \in Users : VaultHasGrant(ledger, v, o) => u = v
    BY <1>1 DEF VaultWhole, VaultOrdersAgree
  <2> QED
    BY <2>1, <2>2
<1> HIDE DEF u, at
<1>4. PICK row \in Vault!EntitlementRecord :
        /\ Vault!extendMonthlyPass(u, o, at) = Vault!upsertEntitlement(u, row)
        /\ row.grants = Append(VaultEntitled(ledger, u).grants, o)
        /\ row.adjusted = VaultEntitled(ledger, u).adjusted
  BY <1>1, <1>2, VaultExtendedRow
<1> DEFINE w == Vault!upsertEntitlement(u, row)
           m == VaultAfterWrite(ledger, w)
<1>5. /\ w \in Vault!Writes /\ VaultFits(ledger, w) /\ m \in Vault!Tables
      /\ m.entitlement = [ledger.entitlement EXCEPT ![u] = row]
      /\ m.code = ledger.code /\ m.order = ledger.order /\ m.event = ledger.event
      /\ m.audits = ledger.audits
  BY <1>1, <1>2, VaultUpsertWrites
<1> DEFINE s == <<w>>
<1>6. s # <<>> /\ VaultTodo(ledger, s) /\ VaultMade(ledger, s) = m /\ Vault!run(ledger, s)
  <2>1. Vault!run(ledger, s)
    BY <1>4 DEF u, at
  <2> HIDE DEF w
  <2> QED
    BY <1>1, <1>5, <2>1, VaultTodoOne
<1> HIDE DEF s, m
<1>7. VaultGrant(ledger, m, u, o)
  BY <1>4, <1>5 DEF VaultGrant
<1>8. /\ m.order[o] # None /\ m.order[o].userId = u /\ m.order[o].status = "paid"
      /\ m.order[o].paidAt \in Nat
      /\ m.event[e] # None
      /\ m.event[e] = [outTradeNo |-> o, transactionId |-> m.order[o].transactionId]
  BY <1>2, <1>5 DEF u, at
<1>9. VaultWhole(m)
  BY <1>1, <1>2, <1>3, <1>5, <1>7, <1>8, VaultOrderGranted
<1> QED
  BY <1>1, <1>6, <1>9, VaultRunKeeps

\* An order is paid: with tables l in which the event is recorded.
LEMMA VaultPaidWhole ==
  ASSUME VaultConstants, VaultInv, ledger \in Vault!Tables, VaultWhole(ledger),
         NEW e \in Events, NEW o \in Orders, NEW t \in Transactions,
         ledger.order[o] # None, ledger.order[o].status = "pending",
         NEW row \in Vault!EntitlementRecord,
         row.grants = Append(VaultEntitled(ledger, ledger.order[o].userId).grants, o),
         row.adjusted = VaultEntitled(ledger, ledger.order[o].userId).adjusted,
         NEW l \in Vault!Tables, l.entitlement = ledger.entitlement, l.code = ledger.code,
         l.order = ledger.order, l.audits = ledger.audits,
         \A f \in Events : l.event[f] = ledger.event[f] \/ ledger.event[f] = None,
         l.event[e] = [outTradeNo |-> o, transactionId |-> t], l.event[e] # None
  PROVE  LET b == Vault!markOrderPaid(o, t)
             c == Vault!upsertEntitlement(ledger.order[o].userId, row)
         IN  /\ b \in Vault!Writes /\ VaultFits(l, b) /\ c \in Vault!Writes /\ VaultFits(l, c)
             /\ VaultWhole(VaultAfterWrite(VaultAfterWrite(l, b), c))
<1> DEFINE u == ledger.order[o].userId
           b == Vault!markOrderPaid(o, t)
           c == Vault!upsertEntitlement(u, row)
           n == VaultAfterWrite(l, b)
           m == VaultAfterWrite(n, c)
<1>1. u \in Users /\ today \in Nat
  BY VaultTableTypes DEF Vault!OrderRecord, VaultInv, Vault!TypeOK
<1>2. /\ b \in Vault!Writes /\ VaultFits(l, b) /\ n \in Vault!Tables
      /\ n.order[o] # None /\ n.order[o].userId = u
      /\ n.order[o].status = "paid" /\ n.order[o].transactionId = t
      /\ n.order[o].paidAt = today
      /\ \A p \in Orders : p # o => n.order[p] = l.order[p]
      /\ n.entitlement = l.entitlement /\ n.code = l.code /\ n.event = l.event
      /\ n.audits = l.audits
  BY <1>1, VaultPaidWrites
<1> HIDE DEF n
<1>3. /\ c \in Vault!Writes /\ m \in Vault!Tables
      /\ m.entitlement = [n.entitlement EXCEPT ![u] = row]
      /\ m.code = n.code /\ m.order = n.order /\ m.event = n.event /\ m.audits = n.audits
  BY <1>1, <1>2, VaultUpsertWrites
<1>4. VaultFits(l, c)
  BY <1>1, VaultUpsertWrites
<1> HIDE DEF m
<1>5. \A v \in Users : ~VaultHasGrant(ledger, v, o)
  BY DEF VaultWhole, VaultOrdersAgree
<1>6. VaultGrant(ledger, m, u, o)
  <2>1. m.entitlement = [ledger.entitlement EXCEPT ![u] = row]
    BY <1>2, <1>3
  <2>2. /\ row.grants = Append(VaultEntitled(ledger, u).grants, o)
        /\ row.adjusted = VaultEntitled(ledger, u).adjusted
    OBVIOUS
  <2> HIDE DEF u
  <2> QED
    BY <2>1, <2>2 DEF VaultGrant
<1>7. /\ m.order[o] # None /\ m.order[o].userId = u /\ m.order[o].status = "paid"
      /\ m.order[o].paidAt \in Nat /\ m.event[e] # None
      /\ m.event[e] = [outTradeNo |-> o, transactionId |-> m.order[o].transactionId]
      /\ m.code = ledger.code /\ m.audits = ledger.audits
      /\ \A p \in Orders \ {o} : m.order[p] = ledger.order[p]
      /\ \A f \in Events : m.event[f] = ledger.event[f] \/ ledger.event[f] = None
  BY <1>1, <1>2, <1>3
<1>8. VaultWhole(m)
  <2> HIDE DEF u
  <2> QED
    BY <1>1, <1>3, <1>5, <1>6, <1>7, VaultOrderGranted
<1>9. m = VaultAfterWrite(VaultAfterWrite(l, b), c)
  BY DEF m, n
<1> QED
  BY <1>2, <1>3, <1>4, <1>8, <1>9

LEMMA VaultsettleKeeps ==
  ASSUME VaultConstants, VaultInv, NEW e \in Events, NEW o \in Orders, NEW t \in Transactions,
         Vault!settlePaidOrder(e, o, t)
  PROVE  VaultInv'
<1> DEFINE event == [outTradeNo |-> o, transactionId |-> t]
           u == ledger.order[o].userId
           a == Vault!createWebhookEvent(e, event)
           b == Vault!markOrderPaid(o, t)
           recorded == IF ledger.event[e] = None THEN <<a>> ELSE <<>>
           c == Vault!extendMonthlyPass(u, o, today)
<1>1. /\ ledger.event[e] \in {None, event} /\ ledger.order[o] # None
      /\ \/ Vault!run(ledger, recorded)
         \/ /\ ledger.order[o].status = "paid" /\ ledger.order[o].transactionId = t
            /\ ledger.entitlement[u] = None /\ ledger.event[e] # None
            /\ Vault!run(ledger, <<Vault!extendMonthlyPass(u, o, ledger.order[o].paidAt)>>)
         \/ /\ ledger.order[o].status = "pending" /\ Vault!run(ledger, recorded \o <<b, c>>)
  BY DEF Vault!settlePaidOrder
<1>2. CASE Vault!run(ledger, recorded)
  <2>1. CASE ledger.event[e] = None
    BY <1>2, <2>1, VaultrecordKeeps
  <2>2. CASE ledger.event[e] # None
    <3>1. Vault!run(ledger, <<>>)
      BY <1>2, <2>2
    <3>2. ledger \in Vault!Tables /\ VaultWhole(ledger)
      BY <3>1, VaultIdle
    <3> QED
      BY <3>1, <3>2, VaultRunKeeps
  <2> QED
    BY <2>1, <2>2
<1>3. CASE /\ ledger.order[o].status = "paid" /\ ledger.order[o].transactionId = t
           /\ ledger.entitlement[u] = None /\ ledger.event[e] # None
           /\ Vault!run(ledger, <<Vault!extendMonthlyPass(u, o, ledger.order[o].paidAt)>>)
  BY <1>1, <1>3, VaultmakeUpKeeps
<1>4. CASE ledger.order[o].status = "pending" /\ Vault!run(ledger, recorded \o <<b, c>>)
  <2>1. ledger \in Vault!Tables /\ VaultWhole(ledger) /\ today \in Nat
    BY <1>4, VaultIdle
  <2>2. u \in Users
    BY <1>1, <2>1, VaultTableTypes DEF Vault!OrderRecord
  <2>3. PICK row \in Vault!EntitlementRecord :
          /\ c = Vault!upsertEntitlement(u, row)
          /\ row.grants = Append(VaultEntitled(ledger, u).grants, o)
          /\ row.adjusted = VaultEntitled(ledger, u).adjusted
    BY <2>1, <2>2, VaultExtendedRow
  <2> HIDE DEF c
  <2>4. CASE ledger.event[e] = None
    <3> DEFINE l == VaultAfterWrite(ledger, a)
               s == <<a, b, c>>
    <3>1. /\ a \in Vault!Writes /\ VaultFits(ledger, a) /\ l \in Vault!Tables
          /\ l.event[e] = event /\ event # None
          /\ \A f \in Events : f # e => l.event[f] = ledger.event[f]
          /\ l.entitlement = ledger.entitlement /\ l.code = ledger.code
          /\ l.order = ledger.order /\ l.audits = ledger.audits
      BY <2>1, VaultEventWrites
    <3> HIDE DEF l
    <3>2. b \in Vault!Writes /\ c \in Vault!Writes /\ VaultWhole(VaultAfterWrite(VaultAfterWrite(l, b), c))
      BY <1>1, <1>4, <2>1, <2>3, <2>4, <3>1, VaultPaidWhole
    <3>3. VaultFits(ledger, b) /\ VaultFits(ledger, c)
      <4>1. VaultFits(ledger, b)
        BY <1>1, <2>1, VaultPaidWrites
      <4>2. VaultFits(ledger, c)
        BY <2>1, <2>2, <2>3, VaultUpsertWrites
      <4> QED
        BY <4>1, <4>2
    <3>4. Vault!run(ledger, s)
      <4>1. Vault!run(ledger, <<a>> \o <<b, c>>)
        BY <1>4, <2>4
      <4> HIDE DEF a, b
      <4>2. /\ <<a>> \in Seq(Vault!Writes) /\ <<b, c>> \in Seq(Vault!Writes) /\ s \in Seq(Vault!Writes)
            /\ Len(<<a>>) = 1 /\ Len(<<b, c>>) = 2 /\ Len(s) = 3
        BY <3>1, <3>2
      <4>3. <<a>> \o <<b, c>> = s
        <5> DEFINE r == <<a>> \o <<b, c>>
        <5>1. /\ r \in Seq(Vault!Writes) /\ Len(r) = 3
              /\ \A i \in 1..3 : r[i] = IF i <= 1 THEN <<a>>[i] ELSE <<b, c>>[i - 1]
          BY <4>2, ConcatProperties
        <5>2. r[1] = s[1] /\ r[2] = s[2] /\ r[3] = s[3]
          BY <5>1
        <5> HIDE DEF r, s
        <5>3. \A i \in 1..3 : i = 1 \/ i = 2 \/ i = 3
          OBVIOUS
        <5> QED
          BY <4>2, <5>1, <5>2, <5>3, SeqEqual
      <4> HIDE DEF s
      <4> QED
        BY <4>1, <4>3
    <3> HIDE DEF a, b
    <3>5. s # <<>> /\ VaultTodo(ledger, s) /\ VaultMade(ledger, s) = VaultAfterWrite(VaultAfterWrite(l, b), c)
      BY <2>1, <3>1, <3>2, <3>3, VaultTodoThree DEF l
    <3> HIDE DEF s
    <3> QED
      BY <2>1, <3>2, <3>4, <3>5, VaultRunKeeps
  <2>5. CASE ledger.event[e] # None
    <3> DEFINE s == <<b, c>>
    <3>1. ledger.event[e] = event
      BY <1>1, <2>5
    <3>2. /\ b \in Vault!Writes /\ VaultFits(ledger, b) /\ c \in Vault!Writes /\ VaultFits(ledger, c)
          /\ VaultWhole(VaultAfterWrite(VaultAfterWrite(ledger, b), c))
      BY <1>1, <1>4, <2>1, <2>3, <2>5, <3>1, VaultPaidWhole
    <3>3. Vault!run(ledger, s)
      BY <1>4, <2>5
    <3> HIDE DEF a, b
    <3>4. s # <<>> /\ VaultTodo(ledger, s) /\ VaultMade(ledger, s) = VaultAfterWrite(VaultAfterWrite(ledger, b), c)
      BY <2>1, <3>2, VaultTodoTwo
    <3> HIDE DEF s
    <3> QED
      BY <2>1, <3>2, <3>3, <3>4, VaultRunKeeps
  <2> QED
    BY <2>4, <2>5
<1> QED
  BY <1>1, <1>2, <1>3, <1>4


\* What waits for no operation.
LEMMA VaultorderKeeps ==
  ASSUME VaultConstants, VaultInv, NEW u \in Users, NEW o \in Orders, Vault!createOrder(u, o)
  PROVE  VaultInv'
<1> DEFINE r == [userId |-> u, status |-> "pending", transactionId |-> None, paidAt |-> None,
                 old |-> FALSE]
           w == [ledger EXCEPT !.order = [ledger.order EXCEPT ![o] = r]]
<1>1. ledger \in Vault!Tables
  BY DEF VaultInv, Vault!TypeOK
<1>2. r \in Vault!OrderRecord /\ r.status = "pending"
  BY DEF Vault!OrderRecord
<1>3. r # None
  BY <1>2 DEF VaultConstants
<1>4. ledger.order[o] = None /\ Vault!Unserialised(w)
  <2>1. [ledger EXCEPT !.order[o] = r] = w
    <3> HIDE DEF r
    <3> QED
      BY <1>1, VaultTableTypes
  <2> QED
    BY <2>1 DEF Vault!createOrder
<1> HIDE DEF r
<1>5. /\ w \in Vault!Tables /\ w.order = [ledger.order EXCEPT ![o] = r]
      /\ w.entitlement = ledger.entitlement /\ w.audits = ledger.audits
      /\ w.event = ledger.event /\ w.code = ledger.code
  <2>1. [ledger.order EXCEPT ![o] = r] \in [Orders -> Vault!OrderRecord \cup {None}]
    BY <1>1, <1>2, VaultTableTypes
  <2> QED
    BY <1>1, <2>1 DEF Vault!Tables
<1> HIDE DEF w
<1>6. w.order[o] = r /\ \A p \in Orders : p # o => w.order[p] = ledger.order[p]
  BY <1>1, <1>5, VaultTableTypes
<1>7. VaultNears(ledger, w)
  BY <1>2, <1>3, <1>4, <1>5, <1>6 DEF VaultNears
<1> QED
  BY <1>4, <1>5, <1>7, VaultUnserialisedKeeps

LEMMA VaultissueKeeps ==
  ASSUME VaultConstants, VaultInv, NEW c \in Codes, Vault!issueAdminCode(c)
  PROVE  VaultInv'
<1> DEFINE row == Vault!CodeOf(None, "admin", "active")
           a == Vault!createActivationCode(c, row)
           w == VaultAfterWrite(ledger, a)
<1>1. ledger \in Vault!Tables /\ today \in Nat
  BY DEF VaultInv, Vault!TypeOK
<1>2. row \in Vault!ActivationCodeRecord /\ row.redeemedByUserId = None
  BY <1>1 DEF Vault!CodeOf, Vault!ActivationCodeRecord
<1>3. row # None
  BY <1>2 DEF VaultConstants
<1>4. ledger.code[c] = None /\ Vault!Unserialised(Vault!Written(a))
  BY DEF Vault!issueAdminCode
<1> HIDE DEF row
<1>5. a \in Vault!Writes /\ a.write = "createActivationCode" /\ a.code = c /\ a.row = row
  BY <1>2 DEF Vault!createActivationCode, Vault!Writes
<1> HIDE DEF a
<1>6. Vault!Written(a) = w
  BY DEF Vault!Written, VaultAfterWrite
<1>7. w \in Vault!Tables /\ VaultChanged(ledger, a, w)
  <2>1. VaultFits(ledger, a)
    BY <1>5 DEF VaultFits
  <2> QED
    BY <1>1, <1>5, <2>1, VaultWriteTypes
<1> HIDE DEF w
<1>8. /\ w.code = [ledger.code EXCEPT ![c] = row] /\ w.entitlement = ledger.entitlement
      /\ w.audits = ledger.audits /\ w.event = ledger.event /\ w.order = ledger.order
  BY <1>5, <1>7 DEF VaultChanged
<1>9. w.code[c] = row /\ \A d \in Codes : d # c => w.code[d] = ledger.code[d]
  BY <1>1, <1>8, VaultTableTypes
<1>10. VaultNears(ledger, w)
  BY <1>2, <1>3, <1>4, <1>8, <1>9 DEF VaultNears
<1> QED
  BY <1>4, <1>6, <1>7, <1>10, VaultUnserialisedKeeps

LEMMA VaultrevokeKeeps ==
  ASSUME VaultConstants, VaultInv, NEW u \in Users, Vault!revokeSession(u)
  PROVE  VaultInv'
<1> DEFINE w == [ledger EXCEPT !.session = ledger.session \ {u}]
<1>1. ledger \in Vault!Tables
  BY DEF VaultInv, Vault!TypeOK
<1>2. Vault!Unserialised(w)
  BY DEF Vault!revokeSession
<1>3. /\ w \in Vault!Tables /\ w.order = ledger.order /\ w.code = ledger.code
      /\ w.entitlement = ledger.entitlement /\ w.audits = ledger.audits /\ w.event = ledger.event
  BY <1>1 DEF Vault!Tables
<1> HIDE DEF w
<1>4. VaultNears(ledger, w)
  BY <1>3 DEF VaultNears
<1> QED
  BY <1>2, <1>3, <1>4, VaultUnserialisedKeeps

-----------------------------------------------------------------------------
(* The whole.                                                               *)

LEMMA VaultNothingGranted ==
  (\A i \in 1..Len(Vault!NoEntitlement.grants) : FALSE) /\ Vault!NoEntitlement.adjusted = 0
<1>1. Vault!NoEntitlement.grants = <<>> /\ Len(<<>>) = 0 /\ Vault!NoEntitlement.adjusted = 0
  BY DEF Vault!NoEntitlement
<1>2. Len(Vault!NoEntitlement.grants) = 0
  BY <1>1
<1> QED
  BY <1>1, <1>2

LEMMA VaultBeginning ==
  ASSUME VaultConstants, Vault!Init
  PROVE  ongoing = None /\ today \in 0..MaxDays /\ accountCalls \in 0..MaxAccountCalls
<1>1. ongoing = None /\ today = 0 /\ accountCalls = 0
  BY DEF Vault!Init
<1>2. MaxDays \in Nat /\ MaxAccountCalls \in Nat
  BY DEF VaultConstants
<1> QED
  BY <1>1, <1>2

LEMMA VaultStarts == VaultConstants /\ Vault!Init => VaultInv
<1> SUFFICES ASSUME VaultConstants, Vault!Init PROVE VaultInv
  OBVIOUS
<1> DEFINE o == CHOOSE p \in Orders : TRUE
           e == CHOOSE f \in Events : TRUE
           l(left) ==
             [entitlement |-> [u \in Users |-> None], code |-> [c \in Codes |-> None],
              order |-> [p \in Orders |-> IF left # "nothing" /\ p = o THEN Vault!Old ELSE None],
              event |-> [f \in Events |->
                IF left = "order and event" /\ f = e
                THEN [outTradeNo |-> o, transactionId |-> Vault!Old.transactionId] ELSE None],
              usage |-> {}, nextAllowed |-> [u \in Users |-> 0], session |-> Users,
              audits |-> [u \in Users |-> 0]]
<1>1. PICK left \in {"nothing", "order", "order and event"} : ledger = l(left)
  BY DEF Vault!Init
<1>2. o \in Orders
  BY DEF VaultConstants
<1>3. /\ Vault!Old \in Vault!OrderRecord /\ Vault!Old.status = "paid" /\ Vault!Old.paidAt \in Nat /\ Vault!Old.old
      /\ Vault!Old.transactionId \in Transactions
  <2>1. (CHOOSE u \in Users : TRUE) \in Users /\ (CHOOSE t \in Transactions : TRUE) \in Transactions
    BY DEF VaultConstants
  <2> QED
    BY <2>1 DEF Vault!Old, Vault!OrderRecord
<1> DEFINE row == [outTradeNo |-> o, transactionId |-> Vault!Old.transactionId]
<1>4. row \in Vault!WebhookEventRecord
  BY <1>2, <1>3 DEF Vault!WebhookEventRecord
<1> HIDE DEF row, o, e
<1>5. /\ l(left).entitlement = [u \in Users |-> None] /\ l(left).code = [c \in Codes |-> None]
      /\ l(left).order \in [Orders -> {Vault!Old, None}]
      /\ l(left).event \in [Events -> {row, None}]
      /\ l(left).audits = [u \in Users |-> 0]
      /\ l(left) = [entitlement |-> l(left).entitlement, code |-> l(left).code,
                    order |-> l(left).order, event |-> l(left).event, usage |-> {},
                    nextAllowed |-> [u \in Users |-> 0], session |-> Users,
                    audits |-> l(left).audits]
  BY DEF row
<1> HIDE DEF l
<1>6. /\ l(left).order \in [Orders -> Vault!OrderRecord \cup {None}]
      /\ l(left).event \in [Events -> Vault!WebhookEventRecord \cup {None}]
  BY <1>3, <1>4, <1>5
<1>7. ledger \in Vault!Tables
  <2>1. [u \in Users |-> None] \in [Users -> Vault!EntitlementRecord \cup {None}]
    OBVIOUS
  <2>2. [c \in Codes |-> None] \in [Codes -> Vault!ActivationCodeRecord \cup {None}]
    OBVIOUS
  <2>3. [u \in Users |-> 0] \in [Users -> Nat]
    OBVIOUS
  <2>4. l(left).entitlement \in [Users -> Vault!EntitlementRecord \cup {None}]
    BY <1>5, <2>1
  <2>5. l(left).code \in [Codes -> Vault!ActivationCodeRecord \cup {None}]
    BY <1>5, <2>2
  <2>6. l(left).audits \in [Users -> Nat]
    BY <1>5, <2>3
  <2>7. l(left).nextAllowed = [u \in Users |-> 0] /\ l(left).session = Users /\ l(left).usage = {}
    BY DEF l
  <2>8. /\ l(left).nextAllowed \in [Users -> Nat] /\ l(left).session \in SUBSET Users
        /\ l(left).usage \in SUBSET (Users \X Requests)
    BY <2>3, <2>7
  <2>9. l(left) = [entitlement |-> l(left).entitlement, code |-> l(left).code,
                   order |-> l(left).order, event |-> l(left).event, usage |-> l(left).usage,
                   nextAllowed |-> l(left).nextAllowed, session |-> l(left).session,
                   audits |-> l(left).audits]
    BY DEF l
  <2> QED
    BY <1>1, <1>6, <2>4, <2>5, <2>6, <2>8, <2>9 DEF Vault!Tables
<1>8. /\ \A u \in Users : ledger.entitlement[u] = None /\ ledger.audits[u] = 0
      /\ \A c \in Codes : ledger.code[c] = None
      /\ \A p \in Orders : ledger.order[p] \in {Vault!Old, None}
  BY <1>1, <1>5
<1>9. \A u \in Users : VaultEntitled(ledger, u) = Vault!NoEntitlement
  BY <1>8 DEF VaultEntitled
<1>10. \A u \in Users : \A x : ~VaultHasGrant(ledger, u, x)
  BY <1>9, VaultNothingGranted DEF VaultHasGrant
<1>11. VaultCountsAgree(ledger)
  BY <1>8, <1>9, VaultNothingGranted DEF VaultCountsAgree
<1>12. VaultCodesAgree(ledger)
  BY <1>8, <1>10 DEF VaultCodesAgree
<1>13. VaultOrdersAgree(ledger)
  BY <1>3, <1>8, <1>10 DEF VaultOrdersAgree
<1>14. ongoing = None /\ today \in 0..MaxDays /\ accountCalls \in 0..MaxAccountCalls
  BY VaultBeginning
<1> QED
  <2>1. Vault!TypeOK
    <3>1. ongoing \in Vault!Operations \cup {None} /\ ~(ongoing # None)
      BY <1>14
    <3> QED
      BY <1>7, <1>14, <3>1 DEF Vault!TypeOK
  <2>2. VaultWhole(ledger)
    BY <1>11, <1>12, <1>13 DEF VaultWhole
  <2> QED
    BY <1>14, <2>1, <2>2 DEF VaultInv

LEMMA VaultSteps == VaultConstants /\ VaultInv /\ (Vault!Next \/ UNCHANGED Vault!vars) => VaultInv'
<1> SUFFICES ASSUME VaultConstants, VaultInv, (Vault!Next \/ UNCHANGED Vault!vars) PROVE VaultInv'
  OBVIOUS
<1>1. CASE Vault!NextDay
  <2>1. /\ ledger' = ledger /\ ongoing' = ongoing /\ accountCalls' = accountCalls
        /\ today' \in 0..MaxDays
    BY <1>1 DEF Vault!NextDay, VaultInv, Vault!TypeOK, VaultConstants
  <2> QED
    BY <2>1 DEF VaultInv, Vault!TypeOK
<1>2. CASE Vault!Goes \/ Vault!Fails
  BY <1>2, VaultGoesKeeps, VaultFailsKeeps
<1>3. CASE Vault!BillingOperations
  BY <1>3, VaultorderKeeps, VaultsettleKeeps DEF Vault!BillingOperations
<1>4. CASE Vault!CodeOperations
  BY <1>4, VaultdisableKeeps, VaultactivateKeeps, VaultissueKeeps, VaultredeemKeeps,
     VaultexpireKeeps, VaultprepareKeeps
     DEF Vault!CodeOperations
<1>5. CASE Vault!EntitlementOperations
  <2>1. ASSUME NEW u \in Users, NEW quotaAdd \in {0, 1},
               NEW expiresAt \in {Vault!Base(u) + 1, today + 1, Vault!getEntitlement(u).expiresAt}
        PROVE  expiresAt \in Nat
    <3>1. today \in Nat /\ ledger \in Vault!Tables
      BY DEF VaultInv, Vault!TypeOK
    <3>2. Vault!Base(u) \in Nat
      BY <3>1, VaultTableTypes
         DEF Vault!Base, Vault!isActiveEntitlementAt, Vault!EntitlementRecord
    <3>3. Vault!getEntitlement(u).expiresAt \in Nat
      BY <3>1, VaultEntitledType
         DEF Vault!getEntitlement, VaultEntitled, Vault!EntitlementRecord
    <3> QED
      BY <3>1, <3>2, <3>3
  <2> QED
    BY <1>5, <2>1, VaultconsumeKeeps, VaultadjustKeeps DEF Vault!EntitlementOperations
<1>6. CASE \E u \in Users : Vault!revokeSession(u)
  BY <1>6, VaultrevokeKeeps
<1>7. CASE UNCHANGED Vault!vars
  BY <1>7 DEF VaultInv, Vault!TypeOK, Vault!vars
<1> QED
  BY <1>1, <1>2, <1>3, <1>4, <1>5, <1>6, <1>7 DEF Vault!Next

\* The numbers of elements that MemoryAccounts counts.
LEMMA VaultCounts == ASSUME NEW S PROVE Vault!Cardinality(S) = Cardinality(S)
BY Zenon DEF Vault!Cardinality, Cardinality

LEMMA VaultHolds == VaultConstants /\ VaultInv => Vault!AccountOperationsAreWhole
<1> SUFFICES ASSUME VaultConstants, VaultInv, ongoing = None PROVE Vault!AccountOperationsAreWhole
  BY DEF Vault!AccountOperationsAreWhole
<1>1. ledger \in Vault!Tables /\ VaultWhole(ledger)
  BY DEF VaultInv, Vault!TypeOK
<1>2. ASSUME NEW u \in Users
      PROVE  /\ Vault!getEntitlement(u) = VaultEntitled(ledger, u)
             /\ \A x : x \in Vault!Granted(u) <=> VaultHasGrant(ledger, u, x)
             /\ Cardinality(Vault!Granted(u)) = Len(Vault!getEntitlement(u).grants)
  <2> DEFINE g == VaultEntitled(ledger, u).grants
             n == Len(g)
             S == {g[i] : i \in 1..n}
  <2>1. Vault!getEntitlement(u) = VaultEntitled(ledger, u)
    BY DEF Vault!getEntitlement, VaultEntitled
  <2>2. g \in Seq(Codes \cup Orders)
    BY <1>1, VaultEntitledType DEF Vault!EntitlementRecord
  <2> HIDE DEF g
  <2>3. DOMAIN g = 1..n /\ n \in Nat
    BY <2>2
  <2>4. Vault!Granted(u) = S
    BY <2>1, <2>3 DEF Vault!Granted, g
  <2>5. \A x : x \in S <=> VaultHasGrant(ledger, u, x)
    BY DEF VaultHasGrant, g
  <2>6. Cardinality(S) = n
    <3>1. \A i, j \in 1..n : g[i] = g[j] => i = j
      BY <1>1 DEF VaultWhole, VaultCountsAgree, g
    <3> DEFINE f == [i \in 1..n |-> g[i]]
    <3>2. f \in [1..n -> S]
      OBVIOUS
    <3>3. \A y \in S : \E i \in 1..n : f[i] = y
      OBVIOUS
    <3>4. \A i, j \in 1..n : f[i] = f[j] => i = j
      BY <3>1
    <3>5. IsFiniteSet(1..n) /\ Cardinality(1..n) = n
      <4> HIDE DEF n
      <4>1. IsFiniteSet(1..n) /\ Cardinality(1..n) = IF 1 > n THEN 0 ELSE n - 1 + 1
        BY <2>3, FS_Interval
      <4> QED
        BY <2>3, <4>1
    <3> HIDE DEF f, S, n
    <3>6. f \in Injection(1..n, S)
      BY <3>2, <3>4, Fun_IsInj
    <3>7. f \in Bijection(1..n, S)
      BY <3>2, <3>3, <3>6, Fun_IsBij
    <3>8. ExistsBijection(1..n, S)
      BY <3>7 DEF ExistsBijection
    <3> QED
      BY <3>5, <3>8, FS_Bijection
  <2> QED
    BY <2>1, <2>4, <2>5, <2>6 DEF g
<1>3. ASSUME NEW u \in Users, NEW c \in Codes
      PROVE  c \in Vault!Granted(u) <=> ledger.code[c] # None /\ ledger.code[c].redeemedByUserId = u
  BY <1>1, <1>2 DEF VaultWhole, VaultCodesAgree
<1>4. ASSUME NEW u \in Users, NEW o \in Orders
      PROVE  /\ o \in Vault!Granted(u) =>
                  /\ ledger.order[o].userId = u /\ ledger.order[o].status = "paid"
                  /\ \E f \in Events : ledger.event[f] = [outTradeNo |-> o,
                                         transactionId |-> ledger.order[o].transactionId]
             /\ ledger.order[o] # None /\ ledger.order[o].userId = u /\ ~ledger.order[o].old
                /\ ledger.order[o].status = "paid" => o \in Vault!Granted(u)
  BY <1>1, <1>2 DEF VaultWhole, VaultOrdersAgree
<1>5. \A u \in Users : Vault!getEntitlement(u).adjusted = ledger.audits[u]
  BY <1>1, <1>2 DEF VaultWhole, VaultCountsAgree
<1>6. \A u \in Users : Vault!Cardinality(Vault!Granted(u)) = Cardinality(Vault!Granted(u))
  BY VaultCounts
<1> QED
  BY <1>2, <1>3, <1>4, <1>5, <1>6 DEF Vault!AccountOperationsAreWhole

-----------------------------------------------------------------------------
(* Signing in, in the store in memory (MemoryAuth).                         *)

\* Lengths are positive or at least no less than nothing, and no row is None.
EntranceConstants ==
  /\ HourLength \in Nat \ {0} /\ MinuteLength \in Nat /\ TicketLength \in Nat
  /\ MaxMinutes \in Nat /\ MaxAuthCalls \in Nat
  /\ None \notin Entrance!AuthRateLimitRecord /\ None \notin Entrance!Operations

-----------------------------------------------------------------------------
(* The inductive invariant.                                                 *)

EntranceAccepted(otps, i, purpose) ==
  i \in DOMAIN otps /\ otps[i].status = "accepted" /\ otps[i].purpose = purpose

EntrancePurposeOf(kind) == IF kind = "admin" THEN "admin_login" ELSE "desktop_login"
EntranceSame(s, r) == s.otp = r.otp /\ s.kind = r.kind

\* Tickets and sessions come from accepted codes, once from each; an accepted code has
\* opened something; and a ticket is consumed when it has opened a session.
EntranceTicketsAgree(otps, users, tickets) ==
  /\ \A t \in tickets : t.user \in users /\ EntranceAccepted(otps, t.otp, "desktop_login")
  /\ \A t, v \in tickets : t.otp = v.otp => t = v
EntranceSessionsAgree(otps, sessions) ==
  /\ \A s \in sessions : EntranceAccepted(otps, s.otp, EntrancePurposeOf(s.kind))
  /\ \A s, r \in sessions : EntranceSame(s, r) => s = r
EntranceCodesAgree(otps, tickets, sessions) ==
  \A i \in DOMAIN otps : otps[i].status = "accepted" =>
    IF otps[i].purpose = "admin_login" THEN \E s \in sessions : s.otp = i /\ s.kind = "admin"
    ELSE \/ \E t \in tickets : t.otp = i
         \/ \E s \in sessions : s.otp = i /\ s.kind = "web"
EntranceExchangesAgree(tickets, sessions) ==
  /\ \A t \in tickets : t.consumed <=> \E s \in sessions : s.otp = t.otp /\ s.kind = "desktop"
  /\ \A s \in sessions : s.kind = "desktop" => \E t \in tickets : t.otp = s.otp

EntranceAgree(otps, users, tickets, sessions) ==
  /\ EntranceTicketsAgree(otps, users, tickets) /\ EntranceSessionsAgree(otps, sessions)
  /\ EntranceCodesAgree(otps, tickets, sessions) /\ EntranceExchangesAgree(tickets, sessions)

EntranceWhole(l) == EntranceAgree(l.otps, l.users, l.tickets, l.sessions)

\* The rows that writes of one kind add, and the codes that there are with a first write.
EntranceRows(t, write) == {t[k].row : k \in {j \in 1..Len(t) : t[j].write = write}}
EntranceCodesAfter(l, w) == IF w.write = "createEmailOtp" THEN Append(l.otps, w.row) ELSE l.otps

\* What an operation still writes makes the tables whole.  A code is written by itself,
\* a session last, and there is none like it yet.
EntranceOwes(l, t) ==
  /\ \A k \in 1..Len(t) : t[k].write = "createEmailOtp" => Len(t) = 1
  /\ \A k \in 1..Len(t) : t[k].write = "createSession" => k = Len(t)
  /\ \A s \in EntranceRows(t, "createSession") : \A r \in l.sessions : ~EntranceSame(r, s)
  /\ EntranceAgree(EntranceCodesAfter(l, t[1]), l.users \cup EntranceRows(t, "upsertUserByEmail"),
           l.tickets \cup EntranceRows(t, "createDesktopLoginTicket"),
           l.sessions \cup EntranceRows(t, "createSession"))

EntranceInv ==
  /\ Entrance!TypeOK
  /\ underway = None => EntranceWhole(registry)
  /\ underway # None => EntranceWhole(underway.snapshot) /\ EntranceOwes(registry, underway.todo)

-----------------------------------------------------------------------------
(* Sets of rows.                                                            *)

LEMMA EntranceRowsOfTail ==
  ASSUME NEW t \in Seq(Entrance!Writes), t # <<>>, NEW write
  PROVE  EntranceRows(t, write) =
           EntranceRows(Tail(t), write) \cup (IF t[1].write = write THEN {t[1].row} ELSE {})
<1>1. /\ Len(t) \in Nat /\ Len(t) >= 1 /\ Len(Tail(t)) = Len(t) - 1
      /\ \A k \in 1..Len(Tail(t)) : Tail(t)[k] = t[k + 1]
  BY HeadTailProperties, EmptySeq, LenProperties
<1> DEFINE n == Len(t)
           v == Tail(t)
           first == IF t[1].write = write THEN {t[1].row} ELSE {}
<1>2. ASSUME NEW x \in EntranceRows(t, write) PROVE x \in EntranceRows(v, write) \cup first
  <2>1. PICK k \in 1..n : t[k].write = write /\ x = t[k].row
    BY <1>2 DEF EntranceRows
  <2>2. CASE k = 1
    BY <2>1, <2>2
  <2>3. CASE k # 1
    <3>1. k - 1 \in 1..Len(v) /\ v[k - 1] = t[k]
      BY <1>1, <2>3
    <3> QED
      BY <2>1, <3>1 DEF EntranceRows
  <2> QED
    BY <2>2, <2>3
<1>3. ASSUME NEW x \in EntranceRows(v, write) PROVE x \in EntranceRows(t, write)
  <2>1. PICK k \in 1..Len(v) : v[k].write = write /\ x = v[k].row
    BY <1>3 DEF EntranceRows
  <2>2. k + 1 \in 1..n /\ v[k] = t[k + 1]
    BY <1>1
  <2> QED
    BY <2>1, <2>2 DEF EntranceRows
<1>4. ASSUME NEW x \in first PROVE x \in EntranceRows(t, write)
  <2>1. 1 \in 1..n
    BY <1>1
  <2> QED
    BY <1>4, <2>1 DEF EntranceRows
<1> QED
  BY <1>2, <1>3, <1>4

LEMMA EntranceNoRows == \A write : EntranceRows(<<>>, write) = {}
BY DEF EntranceRows

LEMMA EntranceRowsOfOne ==
  ASSUME NEW a, NEW write
  PROVE  EntranceRows(<<a>>, write) = IF a.write = write THEN {a.row} ELSE {}
BY DEF EntranceRows

LEMMA EntranceRowsOfTwo ==
  ASSUME NEW a, NEW b, NEW write
  PROVE  EntranceRows(<<a, b>>, write) = (IF a.write = write THEN {a.row} ELSE {})
                                 \cup (IF b.write = write THEN {b.row} ELSE {})
BY DEF EntranceRows

LEMMA EntranceRowsOfThree ==
  ASSUME NEW a, NEW b, NEW c, NEW write
  PROVE  EntranceRows(<<a, b, c>>, write) = (IF a.write = write THEN {a.row} ELSE {})
                                    \cup (IF b.write = write THEN {b.row} ELSE {})
                                    \cup (IF c.write = write THEN {c.row} ELSE {})
BY DEF EntranceRows

LEMMA EntranceOneAtMost ==
  ASSUME NEW S, \A x, y \in S : x = y
  PROVE  Cardinality(S) = IF S = {} THEN 0 ELSE 1
<1>1. CASE S = {}
  BY <1>1, FS_EmptySet
<1>2. CASE S # {}
  <2>1. PICK x \in S : S = {x}
    BY <1>2
  <2> QED
    BY <2>1, FS_Singleton
<1> QED
  BY <1>1, <1>2

-----------------------------------------------------------------------------
(* What keeps tables whole.                                                 *)

\* Codes that stay of use or out of use, whatever else of them changes.
LEMMA EntranceCodesKeep ==
  ASSUME NEW otps, NEW new, NEW users, NEW tickets, NEW sessions,
         EntranceAgree(otps, users, tickets, sessions), DOMAIN new = DOMAIN otps,
         \A i \in DOMAIN otps : /\ new[i].purpose = otps[i].purpose
                                /\ new[i].status = "accepted" <=> otps[i].status = "accepted"
  PROVE  EntranceAgree(new, users, tickets, sessions)
<1>1. \A i, p : EntranceAccepted(new, i, p) <=> EntranceAccepted(otps, i, p)
  BY DEF EntranceAccepted
<1>2. EntranceTicketsAgree(new, users, tickets) /\ EntranceSessionsAgree(new, sessions)
  BY <1>1 DEF EntranceAgree, EntranceTicketsAgree, EntranceSessionsAgree
<1>3. EntranceCodesAgree(new, tickets, sessions)
  BY DEF EntranceAgree, EntranceCodesAgree
<1> QED
  BY <1>2, <1>3 DEF EntranceAgree

\* A code that was mailed.
LEMMA EntranceAppendKeeps ==
  ASSUME NEW otps \in Seq(Entrance!EmailOtpRecord), NEW row \in Entrance!EmailOtpRecord, row.status = "issued",
         NEW users, NEW tickets, NEW sessions, EntranceAgree(otps, users, tickets, sessions)
  PROVE  EntranceAgree(Append(otps, row), users, tickets, sessions)
<1> DEFINE new == Append(otps, row)
           n == Len(otps)
<1>1. /\ n \in Nat /\ DOMAIN otps = 1..n /\ DOMAIN new = 1..(n + 1)
      /\ new[n + 1] = row /\ \A i \in 1..n : new[i] = otps[i]
  BY AppendProperties, LenProperties
<1> HIDE DEF new, n
<1>2. \A i, p : EntranceAccepted(new, i, p) <=> EntranceAccepted(otps, i, p)
  BY <1>1 DEF EntranceAccepted
<1>3. EntranceTicketsAgree(new, users, tickets) /\ EntranceSessionsAgree(new, sessions)
  BY <1>2 DEF EntranceAgree, EntranceTicketsAgree, EntranceSessionsAgree
<1>4. \A i \in DOMAIN new : new[i].status = "accepted" => i \in DOMAIN otps /\ new[i] = otps[i]
  BY <1>1
<1>5. EntranceCodesAgree(new, tickets, sessions)
  BY <1>4 DEF EntranceAgree, EntranceCodesAgree
<1> QED
  BY <1>3, <1>5 DEF EntranceAgree, new

\* A session that is revoked, whatever is still to come.
LEMMA EntranceRevokedKeeps ==
  ASSUME NEW otps, NEW users, NEW tickets, NEW sessions, NEW coming, NEW s \in sessions, NEW r,
         EntranceSame(r, s), \A v \in coming : \A x \in sessions : ~EntranceSame(x, v),
         EntranceAgree(otps, users, tickets, sessions \cup coming)
  PROVE  LET new == (sessions \ {s}) \cup {r}
         IN  EntranceAgree(otps, users, tickets, new \cup coming)
             /\ \A v \in coming : \A x \in new : ~EntranceSame(x, v)
<1> DEFINE new == (sessions \ {s}) \cup {r}
<1>1. \A v \in coming : \A x \in new : ~EntranceSame(x, v)
  BY DEF EntranceSame
<1>2. \A i, k : (\E x \in new \cup coming : x.otp = i /\ x.kind = k)
                <=> \E x \in sessions \cup coming : x.otp = i /\ x.kind = k
  BY DEF EntranceSame
<1>3. \A x \in new \cup coming : x \in sessions \cup coming \/ x = r
  OBVIOUS
<1>4. EntranceSessionsAgree(otps, new \cup coming)
  <2>1. \A x \in new \cup coming : EntranceAccepted(otps, x.otp, EntrancePurposeOf(x.kind))
    BY <1>3 DEF EntranceAgree, EntranceSessionsAgree, EntranceSame
  <2>2. \A x \in sessions : EntranceSame(x, s) => x = s
    BY DEF EntranceAgree, EntranceSessionsAgree
  <2>3. \A x, y \in new \cup coming : EntranceSame(x, y) => x = y
    <3> SUFFICES ASSUME NEW x \in new \cup coming, NEW y \in new \cup coming, EntranceSame(x, y)
                 PROVE  x = y
      OBVIOUS
    <3>1. CASE x = r /\ y # r
      BY <1>1, <2>2, <3>1 DEF EntranceSame
    <3>2. CASE y = r /\ x # r
      BY <1>1, <2>2, <3>2 DEF EntranceSame
    <3>3. CASE x # r /\ y # r
      BY <3>3 DEF EntranceAgree, EntranceSessionsAgree
    <3> QED
      BY <3>1, <3>2, <3>3
  <2> QED
    BY <2>1, <2>3 DEF EntranceSessionsAgree
<1>5. EntranceCodesAgree(otps, tickets, new \cup coming)
  <2> DEFINE all == new \cup coming
             old == sessions \cup coming
  <2>1. \A i, k : (\E x \in old : x.otp = i /\ x.kind = k) => \E x \in all : x.otp = i /\ x.kind = k
    BY <1>2
  <2>2. EntranceCodesAgree(otps, tickets, old)
    BY DEF EntranceAgree
  <2> HIDE DEF all, old, new
  <2>3. EntranceCodesAgree(otps, tickets, all)
    BY <2>1, <2>2 DEF EntranceCodesAgree
  <2> QED
    BY <2>3 DEF all
<1>6. EntranceExchangesAgree(tickets, new \cup coming)
  <2>1. \A t \in tickets : t.consumed <=> \E x \in new \cup coming : x.otp = t.otp /\ x.kind = "desktop"
    BY <1>2 DEF EntranceAgree, EntranceExchangesAgree
  <2>2. \A x \in new \cup coming : x.kind = "desktop" => \E t \in tickets : t.otp = x.otp
    BY <1>3 DEF EntranceAgree, EntranceExchangesAgree, EntranceSame
  <2> QED
    BY <2>1, <2>2 DEF EntranceExchangesAgree
<1> QED
  BY <1>1, <1>4, <1>5, <1>6 DEF EntranceAgree

\* A code that is accepted, and what it opens: at most one ticket and one session.
EntranceMayOpen(otps, i, new, users, T, S) ==
  /\ i \in DOMAIN otps /\ otps[i].status = "issued"
  /\ DOMAIN new = DOMAIN otps /\ \A j \in DOMAIN otps : j # i => new[j] = otps[j]
  /\ new[i].status = "accepted" /\ new[i].purpose = otps[i].purpose
  /\ \A t \in T : /\ t.otp = i /\ t.user \in users /\ ~t.consumed
                  /\ otps[i].purpose = "desktop_login"
  /\ \A s \in S : /\ s.otp = i /\ s.kind \in {"admin", "web"}
                  /\ otps[i].purpose = EntrancePurposeOf(s.kind)
  /\ \A t, v \in T : t = v
  /\ \A s, r \in S : s = r
  /\ T # {} \/ S # {}

LEMMA EntranceAcceptedKeeps ==
  ASSUME NEW otps, NEW i, NEW new, NEW users, NEW more, NEW tickets, NEW T, NEW sessions, NEW S,
         EntranceAgree(otps, users, tickets, sessions), users \subseteq more,
         EntranceMayOpen(otps, i, new, more, T, S)
  PROVE  EntranceAgree(new, more, tickets \cup T, sessions \cup S)
         /\ \A s \in S : \A r \in sessions : ~EntranceSame(r, s)
<1> USE DEF EntranceMayOpen
<1>1. /\ \A t \in tickets : t.otp # i
      /\ \A s \in sessions : s.otp # i
  BY DEF EntranceAgree, EntranceTicketsAgree, EntranceSessionsAgree, EntranceAccepted
<1>2. \A j, p : j # i => (EntranceAccepted(new, j, p) <=> EntranceAccepted(otps, j, p))
  BY DEF EntranceAccepted
<1>3. \A p : EntranceAccepted(new, i, p) <=> p = otps[i].purpose
  BY DEF EntranceAccepted
<1>4. EntranceTicketsAgree(new, more, tickets \cup T)
  <2>1. \A t \in tickets \cup T : t.user \in more /\ EntranceAccepted(new, t.otp, "desktop_login")
    BY <1>1, <1>2, <1>3 DEF EntranceAgree, EntranceTicketsAgree
  <2>2. \A t, v \in tickets \cup T : t.otp = v.otp => t = v
    BY <1>1 DEF EntranceAgree, EntranceTicketsAgree
  <2> QED
    BY <2>1, <2>2 DEF EntranceTicketsAgree
<1>5. EntranceSessionsAgree(new, sessions \cup S)
  <2>1. \A s \in sessions \cup S : EntranceAccepted(new, s.otp, EntrancePurposeOf(s.kind))
    BY <1>1, <1>2, <1>3 DEF EntranceAgree, EntranceSessionsAgree
  <2>2. \A s, r \in sessions \cup S : EntranceSame(s, r) => s = r
    BY <1>1 DEF EntranceAgree, EntranceSessionsAgree, EntranceSame
  <2> QED
    BY <2>1, <2>2 DEF EntranceSessionsAgree
<1>6. EntranceCodesAgree(new, tickets \cup T, sessions \cup S)
  <2> SUFFICES ASSUME NEW j \in DOMAIN new, new[j].status = "accepted"
               PROVE  IF new[j].purpose = "admin_login"
                      THEN \E s \in sessions \cup S : s.otp = j /\ s.kind = "admin"
                      ELSE \/ \E t \in tickets \cup T : t.otp = j
                           \/ \E s \in sessions \cup S : s.otp = j /\ s.kind = "web"
    BY DEF EntranceCodesAgree
  <2>1. CASE j # i
    <3>1. new[j] = otps[j]
      BY <2>1
    <3>2. IF otps[j].purpose = "admin_login"
          THEN \E s \in sessions : s.otp = j /\ s.kind = "admin"
          ELSE \/ \E t \in tickets : t.otp = j
               \/ \E s \in sessions : s.otp = j /\ s.kind = "web"
      BY <3>1 DEF EntranceAgree, EntranceCodesAgree
    <3> QED
      BY <3>1, <3>2
  <2>2. CASE j = i
    <3>1. CASE \E t \in T : TRUE
      BY <2>2, <3>1
    <3>2. CASE \E s \in S : TRUE
      BY <2>2, <3>2 DEF EntrancePurposeOf
    <3> QED
      BY <3>1, <3>2
  <2> QED
    BY <2>1, <2>2
<1>7. EntranceExchangesAgree(tickets \cup T, sessions \cup S)
  <2>1. \A s \in S : s.kind # "desktop"
    OBVIOUS
  <2>2. \A t \in tickets : t.consumed <=> \E s \in sessions \cup S : s.otp = t.otp /\ s.kind = "desktop"
    BY <2>1 DEF EntranceAgree, EntranceExchangesAgree
  <2>3. \A t \in T : ~\E s \in sessions \cup S : s.otp = t.otp /\ s.kind = "desktop"
    BY <1>1, <2>1
  <2>4. \A s \in sessions \cup S : s.kind = "desktop" => \E t \in tickets \cup T : t.otp = s.otp
    BY <2>1 DEF EntranceAgree, EntranceExchangesAgree
  <2> QED
    BY <2>2, <2>3, <2>4 DEF EntranceExchangesAgree
<1>8. \A s \in S : \A r \in sessions : ~EntranceSame(r, s)
  BY <1>1 DEF EntranceSame
<1> QED
  BY <1>4, <1>5, <1>6, <1>7, <1>8 DEF EntranceAgree

\* A ticket that is exchanged for a session.
LEMMA EntranceExchangeKeeps ==
  ASSUME NEW otps, NEW users, NEW tickets, NEW sessions, NEW t \in tickets, NEW v, NEW s,
         EntranceAgree(otps, users, tickets, sessions), ~t.consumed,
         v.otp = t.otp, v.user = t.user, v.consumed, s.otp = t.otp, s.kind = "desktop"
  PROVE  EntranceAgree(otps, users, (tickets \ {t}) \cup {v}, sessions \cup {s})
         /\ \A r \in sessions : ~EntranceSame(r, s)
<1>1. \A r \in sessions : ~EntranceSame(r, s)
  BY DEF EntranceAgree, EntranceExchangesAgree, EntranceSame
<1>2. \A x \in tickets : x.otp = t.otp => x = t
  BY DEF EntranceAgree, EntranceTicketsAgree
<1>3. t.user \in users /\ EntranceAccepted(otps, t.otp, "desktop_login")
  BY DEF EntranceAgree, EntranceTicketsAgree
<1>4. EntranceTicketsAgree(otps, users, (tickets \ {t}) \cup {v})
  BY <1>2, <1>3 DEF EntranceAgree, EntranceTicketsAgree
<1>5. EntranceSessionsAgree(otps, sessions \cup {s})
  <2>1. \A x \in sessions \cup {s} : EntranceAccepted(otps, x.otp, EntrancePurposeOf(x.kind))
    BY <1>3 DEF EntranceAgree, EntranceSessionsAgree, EntrancePurposeOf
  <2>2. \A x, r \in sessions \cup {s} : EntranceSame(x, r) => x = r
    BY <1>1 DEF EntranceAgree, EntranceSessionsAgree, EntranceSame
  <2> QED
    BY <2>1, <2>2 DEF EntranceSessionsAgree
<1>6. \A i : (\E x \in (tickets \ {t}) \cup {v} : x.otp = i) <=> \E x \in tickets : x.otp = i
  OBVIOUS
<1>7. EntranceCodesAgree(otps, (tickets \ {t}) \cup {v}, sessions \cup {s})
  <2>1. \A i, k : (\E x \in sessions : x.otp = i /\ x.kind = k)
                  => \E x \in sessions \cup {s} : x.otp = i /\ x.kind = k
    OBVIOUS
  <2> QED
    BY <1>6, <2>1 DEF EntranceAgree, EntranceCodesAgree
<1>8. EntranceExchangesAgree((tickets \ {t}) \cup {v}, sessions \cup {s})
  <2>1. \A x \in tickets \ {t} :
          x.consumed <=> \E r \in sessions \cup {s} : r.otp = x.otp /\ r.kind = "desktop"
    BY <1>2 DEF EntranceAgree, EntranceExchangesAgree
  <2>2. v.consumed /\ \E r \in sessions \cup {s} : r.otp = v.otp /\ r.kind = "desktop"
    OBVIOUS
  <2>3. \A r \in sessions \cup {s} : r.kind = "desktop" => \E x \in (tickets \ {t}) \cup {v} : x.otp = r.otp
    BY <1>6 DEF EntranceAgree, EntranceExchangesAgree
  <2> QED
    BY <2>1, <2>2, <2>3 DEF EntranceExchangesAgree
<1> QED
  BY <1>1, <1>4, <1>5, <1>7, <1>8 DEF EntranceAgree

-----------------------------------------------------------------------------
(* Writes and operations.                                                   *)

LEMMA EntranceTableTypes ==
  ASSUME NEW l \in Entrance!Tables
  PROVE  /\ l.minute \in [Entrance!Keys -> Nat] /\ l.hour \in [Entrance!Scopes -> Entrance!AuthRateLimitRecord \cup {None}]
         /\ l.otps \in Seq(Entrance!EmailOtpRecord) /\ l.users \in SUBSET Emails
         /\ l.tickets \in SUBSET Entrance!DesktopLoginTicketRecord /\ l.sessions \in SUBSET Entrance!SessionRecord
         /\ l = [minute |-> l.minute, hour |-> l.hour, otps |-> l.otps, users |-> l.users,
                 tickets |-> l.tickets, sessions |-> l.sessions]
BY DEF Entrance!Tables

LEMMA EntranceIdle ==
  ASSUME EntranceInv, NEW w, NEW t, Entrance!run(w, t)
  PROVE  registry \in Entrance!Tables /\ EntranceWhole(registry) /\ minutes \in Nat
BY DEF EntranceInv, Entrance!TypeOK, Entrance!run, Entrance!Atomic!run,
       Entrance!Atomic!NothingRuns

LEMMA EntranceWriteEffect ==
  ASSUME registry \in Entrance!Tables, NEW w \in Entrance!Writes
  PROVE  LET m == Entrance!Written(w)
         IN  /\ m \in Entrance!Tables /\ m.otps = EntranceCodesAfter(registry, w)
             /\ m.users = registry.users \cup (IF w.write = "upsertUserByEmail" THEN {w.row} ELSE {})
             /\ m.tickets = registry.tickets
                            \cup (IF w.write = "createDesktopLoginTicket" THEN {w.row} ELSE {})
             /\ m.sessions = registry.sessions \cup (IF w.write = "createSession" THEN {w.row} ELSE {})
<1> DEFINE m == Entrance!Written(w)
<1>1. CASE w.write = "upsertUserByEmail"
  <2> DEFINE x == registry.users \cup {w.row}
  <2>1. x \in SUBSET Emails
    <3>1. w.row \in Emails
      BY <1>1 DEF Entrance!Writes
    <3> QED
      BY <3>1, EntranceTableTypes
  <2>2. m = [registry EXCEPT !.users = x]
    BY <1>1 DEF Entrance!Written
  <2> HIDE DEF x, m
  <2>3. m \in Entrance!Tables
    BY <2>1, <2>2, EntranceTableTypes DEF Entrance!Tables
  <2>4. /\ m.otps = registry.otps /\ m.users = x
        /\ m.tickets = registry.tickets /\ m.sessions = registry.sessions
    BY <2>2, EntranceTableTypes
  <2> QED
    BY <1>1, <2>3, <2>4 DEF EntranceCodesAfter, x, m
<1>2. CASE w.write = "createEmailOtp"
  <2> DEFINE x == Append(registry.otps, w.row)
  <2>1. x \in Seq(Entrance!EmailOtpRecord)
    <3>1. w.row \in Entrance!EmailOtpRecord
      BY <1>2 DEF Entrance!Writes
    <3> QED
      BY <3>1, EntranceTableTypes, AppendProperties
  <2>2. m = [registry EXCEPT !.otps = x]
    BY <1>2 DEF Entrance!Written
  <2> HIDE DEF x, m
  <2>3. m \in Entrance!Tables
    BY <2>1, <2>2, EntranceTableTypes DEF Entrance!Tables
  <2>4. /\ m.otps = x /\ m.users = registry.users
        /\ m.tickets = registry.tickets /\ m.sessions = registry.sessions
    BY <2>2, EntranceTableTypes
  <2> QED
    BY <1>2, <2>3, <2>4 DEF EntranceCodesAfter, x, m
<1>3. CASE w.write = "createDesktopLoginTicket"
  <2> DEFINE x == registry.tickets \cup {w.row}
  <2>1. x \in SUBSET Entrance!DesktopLoginTicketRecord
    <3>1. w.row \in Entrance!DesktopLoginTicketRecord
      BY <1>3 DEF Entrance!Writes
    <3> QED
      BY <3>1, EntranceTableTypes
  <2>2. m = [registry EXCEPT !.tickets = x]
    BY <1>3 DEF Entrance!Written
  <2> HIDE DEF x, m
  <2>3. m \in Entrance!Tables
    BY <2>1, <2>2, EntranceTableTypes DEF Entrance!Tables
  <2>4. /\ m.otps = registry.otps /\ m.users = registry.users
        /\ m.tickets = x /\ m.sessions = registry.sessions
    BY <2>2, EntranceTableTypes
  <2> QED
    BY <1>3, <2>3, <2>4 DEF EntranceCodesAfter, x, m
<1>4. CASE w.write = "createSession"
  <2> DEFINE x == registry.sessions \cup {w.row}
  <2>1. x \in SUBSET Entrance!SessionRecord
    <3>1. w.row \in Entrance!SessionRecord
      BY <1>4 DEF Entrance!Writes
    <3> QED
      BY <3>1, EntranceTableTypes
  <2>2. m = [registry EXCEPT !.sessions = x]
    BY <1>4 DEF Entrance!Written
  <2> HIDE DEF x, m
  <2>3. m \in Entrance!Tables
    BY <2>1, <2>2, EntranceTableTypes DEF Entrance!Tables
  <2>4. /\ m.otps = registry.otps /\ m.users = registry.users
        /\ m.tickets = registry.tickets /\ m.sessions = x
    BY <2>2, EntranceTableTypes
  <2> QED
    BY <1>4, <2>3, <2>4 DEF EntranceCodesAfter, x, m
<1> QED
  BY <1>1, <1>2, <1>3, <1>4 DEF Entrance!Writes

\* An operation starts, and is over when nothing is left to write.
LEMMA EntranceRunKeeps ==
  ASSUME EntranceConstants, EntranceInv, NEW w \in Entrance!Tables, NEW t \in Seq(Entrance!Writes), Entrance!run(w, t),
         t = <<>> => EntranceWhole(w), t # <<>> => EntranceOwes(w, t)
  PROVE  EntranceInv'
<1>1. /\ underway = None /\ registry \in Entrance!Tables /\ EntranceWhole(registry)
      /\ registry' = w /\ minutes' = minutes /\ minutes \in 0..MaxMinutes
      /\ authCalls' \in 0..MaxAuthCalls
      /\ underway' = IF t = <<>> THEN None ELSE [snapshot |-> registry, todo |-> t]
  BY DEF EntranceConstants, EntranceInv, Entrance!TypeOK, Entrance!run, Entrance!Called,
         Entrance!Atomic!run, Entrance!Atomic!NothingRuns
<1>2. CASE t = <<>>
  BY <1>1, <1>2 DEF EntranceInv, Entrance!TypeOK
<1>3. CASE t # <<>>
  <2> DEFINE o == [snapshot |-> registry, todo |-> t]
  <2>1. o \in Entrance!Operations /\ o.todo = t /\ o.snapshot = registry
    BY <1>1, <1>3 DEF Entrance!Operations
  <2>2. underway' = o
    BY <1>1, <1>3
  <2> HIDE DEF o
  <2>3. underway' # None
    BY <2>1, <2>2 DEF EntranceConstants
  <2> QED
    BY <1>1, <1>3, <2>1, <2>2, <2>3 DEF EntranceInv, Entrance!TypeOK
<1> QED
  BY <1>2, <1>3

\* What is left after the first of the writes.
LEMMA EntranceOwedNext ==
  ASSUME registry \in Entrance!Tables, NEW t \in Seq(Entrance!Writes), t # <<>>, EntranceOwes(registry, t)
  PROVE  LET m == Entrance!Written(t[1])
         IN  /\ m \in Entrance!Tables /\ Tail(t) \in Seq(Entrance!Writes)
             /\ Len(t) = 1 => EntranceWhole(m)
             /\ Len(t) # 1 => Tail(t) # <<>> /\ EntranceOwes(m, Tail(t))
<1> DEFINE m == Entrance!Written(t[1])
           v == Tail(t)
           n == Len(t)
<1>1. /\ n \in Nat /\ n >= 1 /\ v \in Seq(Entrance!Writes) /\ Len(v) = n - 1
      /\ \A k \in 1..Len(v) : v[k] = t[k + 1] /\ v[k] \in Entrance!Writes
      /\ t[1] \in Entrance!Writes
  BY HeadTailProperties, EmptySeq, LenProperties, ElementOfSeq
<1>2. \A x : EntranceRows(t, x) = EntranceRows(v, x) \cup (IF t[1].write = x THEN {t[1].row} ELSE {})
  BY EntranceRowsOfTail
<1>3. /\ m \in Entrance!Tables /\ m.otps = EntranceCodesAfter(registry, t[1])
      /\ m.users \cup EntranceRows(v, "upsertUserByEmail")
           = registry.users \cup EntranceRows(t, "upsertUserByEmail")
      /\ m.tickets \cup EntranceRows(v, "createDesktopLoginTicket")
           = registry.tickets \cup EntranceRows(t, "createDesktopLoginTicket")
      /\ m.sessions \cup EntranceRows(v, "createSession") = registry.sessions \cup EntranceRows(t, "createSession")
      /\ m.sessions = registry.sessions \cup (IF t[1].write = "createSession" THEN {t[1].row} ELSE {})
  BY <1>1, <1>2, EntranceWriteEffect
<1> HIDE DEF m, v, n
<1>4. CASE n = 1
  <2>1. Len(v) = 0
    BY <1>1, <1>4
  <2>2. v = <<>>
    BY <1>1, <2>1, EmptySeq
  <2>3. \A x : EntranceRows(v, x) = {}
    BY <2>2, EntranceNoRows
  <2>4. EntranceWhole(m)
    BY <1>3, <2>3 DEF EntranceOwes, EntranceWhole
  <2> QED
    BY <1>1, <1>3, <1>4, <2>4 DEF m, v, n
<1>5. CASE n # 1
  <2>1. Len(v) # 0 /\ v # <<>> /\ 1 \in 1..Len(v) /\ 1 \in 1..n
    <3>1. Len(v) # 0
      BY <1>1, <1>5
    <3>2. v # <<>>
      BY <3>1, EmptySeq
    <3> QED
      BY <1>1, <3>1, <3>2
  <2>2. t[1].write # "createEmailOtp" /\ t[1].write # "createSession"
    BY <1>5, <2>1 DEF EntranceOwes, n
  <2>3. \A k \in 1..Len(v) : /\ v[k].write # "createEmailOtp"
                             /\ v[k].write = "createSession" => k = Len(v)
    <3>1. \A k \in 1..Len(v) : k + 1 \in 1..n /\ v[k] = t[k + 1]
      BY <1>1
    <3>2. \A k \in 1..n : /\ t[k].write # "createEmailOtp"
                          /\ t[k].write = "createSession" => k = n
      BY <1>5 DEF EntranceOwes, n
    <3>3. \A k \in 1..Len(v) : /\ v[k].write # "createEmailOtp"
                               /\ v[k].write = "createSession" => k + 1 = n
      BY <3>1, <3>2
    <3> QED
      BY <1>1, <3>3
  <2>4. EntranceCodesAfter(m, v[1]) = m.otps /\ m.otps = registry.otps
    BY <1>3, <2>1, <2>2, <2>3 DEF EntranceCodesAfter
  <2>5. EntranceCodesAfter(registry, t[1]) = registry.otps
    BY <2>2 DEF EntranceCodesAfter
  <2>6. m.sessions = registry.sessions /\ EntranceRows(v, "createSession") = EntranceRows(t, "createSession")
    <3>1. m.sessions = registry.sessions
      BY <1>3, <2>2
    <3>2. EntranceRows(t, "createSession") = EntranceRows(v, "createSession") \cup {}
      BY <1>2, <2>2
    <3> QED
      BY <3>1, <3>2
  <2>7. EntranceAgree(EntranceCodesAfter(m, v[1]), m.users \cup EntranceRows(v, "upsertUserByEmail"),
              m.tickets \cup EntranceRows(v, "createDesktopLoginTicket"),
              m.sessions \cup EntranceRows(v, "createSession"))
    BY <1>3, <2>4, <2>5 DEF EntranceOwes
  <2>8. \A s \in EntranceRows(v, "createSession") : \A r \in m.sessions : ~EntranceSame(r, s)
    BY <2>6 DEF EntranceOwes
  <2>9. EntranceOwes(m, v)
    BY <2>3, <2>7, <2>8 DEF EntranceOwes
  <2> QED
    BY <1>1, <1>3, <1>5, <2>1, <2>9 DEF m, v, n
<1> QED
  BY <1>4, <1>5

\* An operation makes its next write.
LEMMA EntranceGoesKeeps ==
  ASSUME EntranceConstants, EntranceInv, Entrance!Goes
  PROVE  EntranceInv'
<1> DEFINE t == underway.todo
           m == Entrance!Written(t[1])
<1>1. /\ underway # None /\ underway \in Entrance!Operations /\ registry \in Entrance!Tables
      /\ t \in Seq(Entrance!Writes) /\ t # <<>> /\ EntranceOwes(registry, t) /\ EntranceWhole(underway.snapshot)
      /\ minutes' = minutes /\ authCalls' = authCalls
  BY DEF EntranceInv, Entrance!TypeOK, Entrance!Goes, Entrance!Operations
<1>2. Head(t) = t[1]
  BY <1>1
<1>3. /\ registry' = m
      /\ underway' = IF Len(t) = 1 THEN None ELSE [underway EXCEPT !.todo = Tail(t)]
  BY <1>1, <1>2
     DEF Entrance!Goes, Entrance!Atomic!WritesNext, Entrance!Atomic!NextWrite,
         Entrance!Operations
<1>4. /\ m \in Entrance!Tables /\ Tail(t) \in Seq(Entrance!Writes)
      /\ Len(t) = 1 => EntranceWhole(m)
      /\ Len(t) # 1 => Tail(t) # <<>> /\ EntranceOwes(m, Tail(t))
  BY <1>1, EntranceOwedNext
<1>5. CASE Len(t) = 1
  <2>1. underway' = None
    BY <1>3, <1>5
  <2> QED
    BY <1>1, <1>3, <1>4, <1>5, <2>1 DEF EntranceInv, Entrance!TypeOK
<1>6. CASE Len(t) # 1
  <2> DEFINE o == [underway EXCEPT !.todo = Tail(t)]
  <2>1. o \in Entrance!Operations /\ o.todo = Tail(t) /\ o.snapshot = underway.snapshot
    <3>1. \A s \in Seq(Entrance!Writes), p \in Entrance!Operations :
            /\ [p EXCEPT !.todo = s] \in Entrance!Operations
            /\ [p EXCEPT !.todo = s].todo = s /\ [p EXCEPT !.todo = s].snapshot = p.snapshot
      BY DEF Entrance!Operations
    <3> HIDE DEF t
    <3> QED
      BY <1>1, <1>4, <3>1
  <2>2. underway' = o
    BY <1>3, <1>6
  <2> HIDE DEF o, m, t
  <2>3. underway' # None
    BY <2>1, <2>2 DEF EntranceConstants
  <2> QED
    BY <1>1, <1>3, <1>4, <1>6, <2>1, <2>2, <2>3 DEF EntranceInv, Entrance!TypeOK
<1> QED
  BY <1>5, <1>6

\* An operation throws, and the tables are as they were.
LEMMA EntranceFailsKeeps ==
  ASSUME EntranceConstants, EntranceInv, Entrance!Fails
  PROVE  EntranceInv'
<1>1. /\ underway # None /\ underway.snapshot \in Entrance!Tables /\ EntranceWhole(underway.snapshot)
      /\ registry' = underway.snapshot /\ underway' = None
      /\ minutes' = minutes /\ authCalls' = authCalls
  BY DEF EntranceInv, Entrance!TypeOK, Entrance!Fails, Entrance!Atomic!Throws,
         Entrance!Operations
<1> QED
  BY <1>1 DEF EntranceInv, Entrance!TypeOK

\* A session is revoked, whatever operation is under way.
LEMMA EntrancerevokeKeeps ==
  ASSUME EntranceConstants, EntranceInv, NEW s \in registry.sessions, Entrance!revokeSession(s)
  PROVE  EntranceInv'
<1> DEFINE r == [s EXCEPT !.revoked = TRUE]
           new == (registry.sessions \ {s}) \cup {r}
           w == [registry EXCEPT !.sessions = new]
<1>1. /\ registry \in Entrance!Tables /\ registry' = w /\ underway' = underway
      /\ minutes' = minutes /\ authCalls' \in 0..MaxAuthCalls
  BY DEF EntranceInv, Entrance!TypeOK, EntranceConstants, Entrance!revokeSession,
         Entrance!Called, Entrance!Atomic!Unserialised
<1>2. registry.sessions \in SUBSET Entrance!SessionRecord
  BY <1>1, EntranceTableTypes
<1>3. r \in Entrance!SessionRecord /\ EntranceSame(r, s)
  BY <1>2 DEF Entrance!SessionRecord, EntranceSame
<1>4. new \in SUBSET Entrance!SessionRecord
  BY <1>2, <1>3
<1> HIDE DEF r, new
<1>5. /\ w \in Entrance!Tables /\ w.otps = registry.otps /\ w.users = registry.users
      /\ w.tickets = registry.tickets /\ w.sessions = new
  BY <1>1, <1>4, EntranceTableTypes DEF Entrance!Tables
<1> HIDE DEF w
<1>6. ASSUME underway = None PROVE EntranceWhole(w)
  <2>1. EntranceAgree(registry.otps, registry.users, registry.tickets, registry.sessions \cup {})
    BY <1>6 DEF EntranceInv, EntranceWhole
  <2>2. EntranceAgree(registry.otps, registry.users, registry.tickets, new \cup {})
    BY <1>3, <2>1, EntranceRevokedKeeps DEF new
  <2>3. new \cup {} = new
    OBVIOUS
  <2> QED
    BY <1>5, <2>2, <2>3 DEF EntranceWhole
<1>7. ASSUME underway # None PROVE EntranceOwes(w, underway.todo)
  <2> DEFINE t == underway.todo
             coming == EntranceRows(t, "createSession")
             otps == EntranceCodesAfter(registry, t[1])
             users == registry.users \cup EntranceRows(t, "upsertUserByEmail")
             tickets == registry.tickets \cup EntranceRows(t, "createDesktopLoginTicket")
  <2>1. EntranceOwes(registry, t)
    BY <1>7 DEF EntranceInv
  <2>2. /\ EntranceAgree(otps, users, tickets, registry.sessions \cup coming)
        /\ \A v \in coming : \A x \in registry.sessions : ~EntranceSame(x, v)
    BY <2>1 DEF EntranceOwes
  <2> HIDE DEF coming, otps, users, tickets
  <2>3. /\ EntranceAgree(otps, users, tickets, new \cup coming)
        /\ \A v \in coming : \A x \in new : ~EntranceSame(x, v)
    BY <1>3, <2>2, EntranceRevokedKeeps DEF new
  <2>4. otps = EntranceCodesAfter(w, t[1])
    BY <1>5 DEF otps, EntranceCodesAfter
  <2> HIDE DEF t
  <2> QED
    BY <1>5, <2>1, <2>3, <2>4 DEF EntranceOwes, t, users, tickets, coming
<1> QED
  BY <1>1, <1>5, <1>6, <1>7 DEF EntranceInv, Entrance!TypeOK

-----------------------------------------------------------------------------
(* What the operations owe.                                                 *)

\* A sequence that has an entry for each that there was.
LEMMA EntranceMappedSeq ==
  ASSUME NEW otps \in Seq(Entrance!EmailOtpRecord), NEW new, DOMAIN new = DOMAIN otps,
         new = [i \in DOMAIN otps |-> new[i]], \A i \in DOMAIN otps : new[i] \in Entrance!EmailOtpRecord
  PROVE  new \in Seq(Entrance!EmailOtpRecord)
<1>1. Len(otps) \in Nat /\ DOMAIN otps = 1..Len(otps)
  BY LenProperties
<1> DEFINE n == Len(otps)
<1>2. n \in Nat /\ new = [i \in 1..n |-> new[i]] /\ \A i \in 1..n : new[i] \in Entrance!EmailOtpRecord
  BY <1>1
<1> HIDE DEF n
<1>3. new \in [1..n -> Entrance!EmailOtpRecord]
  BY <1>2
<1> QED
  BY <1>2, <1>3, SeqDef

LEMMA EntranceOtpTypes ==
  ASSUME registry \in Entrance!Tables, NEW i \in DOMAIN registry.otps
  PROVE  /\ registry.otps[i] \in Entrance!EmailOtpRecord /\ i \in Nat
         /\ registry.otps[i].email \in Emails
<1>1. /\ registry.otps \in Seq(Entrance!EmailOtpRecord)
      /\ DOMAIN registry.otps = 1..Len(registry.otps) /\ Len(registry.otps) \in Nat
  BY EntranceTableTypes, LenProperties
<1>2. registry.otps[i] \in Entrance!EmailOtpRecord /\ i \in Nat
  BY <1>1, ElementOfSeq
<1> QED
  BY <1>2 DEF Entrance!EmailOtpRecord

\* One entry of the codes is changed.
LEMMA EntranceOtpChanged ==
  ASSUME registry \in Entrance!Tables, NEW i \in DOMAIN registry.otps, NEW r \in Entrance!EmailOtpRecord
  PROVE  LET w == [registry EXCEPT !.otps = [registry.otps EXCEPT ![i] = r]]
         IN  /\ w \in Entrance!Tables /\ DOMAIN w.otps = DOMAIN registry.otps /\ w.otps[i] = r
             /\ \A j \in DOMAIN registry.otps : j # i => w.otps[j] = registry.otps[j]
             /\ w.users = registry.users /\ w.tickets = registry.tickets
             /\ w.sessions = registry.sessions
<1> DEFINE new == [registry.otps EXCEPT ![i] = r]
           w == [registry EXCEPT !.otps = new]
<1>1. /\ registry.otps \in Seq(Entrance!EmailOtpRecord)
      /\ DOMAIN registry.otps = 1..Len(registry.otps) /\ Len(registry.otps) \in Nat
  BY EntranceTableTypes, LenProperties
<1>2. /\ new \in Seq(Entrance!EmailOtpRecord) /\ DOMAIN new = DOMAIN registry.otps /\ new[i] = r
      /\ \A j \in DOMAIN registry.otps : j # i => new[j] = registry.otps[j]
  BY <1>1, ExceptSeq
<1> HIDE DEF new
<1>3. /\ w \in Entrance!Tables /\ w.otps = new /\ w.users = registry.users
      /\ w.tickets = registry.tickets /\ w.sessions = registry.sessions
  BY <1>2, EntranceTableTypes DEF Entrance!Tables
<1> QED
  BY <1>2, <1>3 DEF new

LEMMA EntranceinvalidateKeeps ==
  ASSUME EntranceConstants, EntranceInv, NEW i \in DOMAIN registry.otps, Entrance!invalidateIssuedOtpAfterDeliveryFailure(i)
  PROVE  EntranceInv'
<1> DEFINE r == [registry.otps[i] EXCEPT !.status = "consumed"]
           w == [registry EXCEPT !.otps = [registry.otps EXCEPT ![i] = r]]
<1>1. Entrance!run([registry EXCEPT !.otps[i].status = "consumed"], <<>>) /\ registry.otps[i].status = "issued"
  BY DEF Entrance!invalidateIssuedOtpAfterDeliveryFailure
<1>2. registry \in Entrance!Tables /\ EntranceWhole(registry)
  BY <1>1, EntranceIdle
<1>3. r \in Entrance!EmailOtpRecord /\ r.purpose = registry.otps[i].purpose /\ r.status = "consumed"
  BY <1>2, EntranceOtpTypes DEF Entrance!EmailOtpRecord
<1>4. Entrance!run(w, <<>>)
  <2>1. [registry EXCEPT !.otps[i].status = "consumed"] = w
    BY <1>2, EntranceTableTypes
  <2> QED
    BY <1>1, <2>1
<1> HIDE DEF r
<1>5. /\ w \in Entrance!Tables /\ DOMAIN w.otps = DOMAIN registry.otps /\ w.otps[i] = r
      /\ \A j \in DOMAIN registry.otps : j # i => w.otps[j] = registry.otps[j]
      /\ w.users = registry.users /\ w.tickets = registry.tickets /\ w.sessions = registry.sessions
  BY <1>2, <1>3, EntranceOtpChanged
<1> HIDE DEF w
<1>6. EntranceWhole(w)
  <2>1. \A j \in DOMAIN registry.otps :
          /\ w.otps[j].purpose = registry.otps[j].purpose
          /\ w.otps[j].status = "accepted" <=> registry.otps[j].status = "accepted"
    BY <1>1, <1>3, <1>5
  <2> QED
    BY <1>2, <1>5, <2>1, EntranceCodesKeep DEF EntranceWhole
<1>7. <<>> \in Seq(Entrance!Writes)
  BY EmptySeq
<1> QED
  BY <1>4, <1>5, <1>6, <1>7, EntranceRunKeeps

\* The window of an hour, and the place in it.
LEMMA EntranceHourTypes ==
  ASSUME EntranceConstants, registry \in Entrance!Tables, minutes \in Nat, NEW s \in Entrance!Scopes
  PROVE  Entrance!applyReservation(s) \in Entrance!AuthRateLimitRecord
<1>1. HourLength \in Nat \ {0}
  BY DEF EntranceConstants
<1>2. Entrance!hourWindowStart \in Nat
  <2>1. \A m \in Nat, h \in Nat \ {0} : m - (m % h) \in Nat
    OBVIOUS
  <2> QED
    BY <1>1, <2>1 DEF Entrance!hourWindowStart
<1>3. registry.hour[s] \in Entrance!AuthRateLimitRecord \cup {None}
  BY EntranceTableTypes
<1>4. Entrance!sameWindow(s) => registry.hour[s].count \in Nat
  BY <1>3 DEF Entrance!sameWindow, Entrance!AuthRateLimitRecord
<1>5. (IF Entrance!sameWindow(s) THEN registry.hour[s].count + 1 ELSE 1) \in Nat
  BY <1>4
<1>6. Entrance!hourWindowStart + HourLength \in Nat
  BY <1>1, <1>2
<1> HIDE DEF Entrance!hourWindowStart, Entrance!sameWindow
<1> QED
  BY <1>2, <1>5, <1>6 DEF Entrance!applyReservation, Entrance!AuthRateLimitRecord

LEMMA EntranceissueKeeps ==
  ASSUME EntranceConstants, EntranceInv, NEW p \in Entrance!Purposes, NEW e \in Emails, NEW l \in Logins, Entrance!issueEmailOtp(p, e, l)
  PROVE  EntranceInv'
<1> DEFINE old == registry.otps
           new == [i \in DOMAIN old |->
                     IF /\ old[i].purpose = p /\ old[i].email = e /\ old[i].state = l
                        /\ old[i].status = "issued"
                     THEN [old[i] EXCEPT !.status = "consumed"] ELSE old[i]]
           k == <<p, e>>
           q == <<p, None>>
           minute == [registry.minute EXCEPT ![k] = minutes + MinuteLength]
           hour == [registry.hour EXCEPT ![k] = Entrance!applyReservation(k), ![q] = Entrance!applyReservation(q)]
           w == [registry EXCEPT !.minute = minute, !.hour = hour, !.otps = new]
           a == Entrance!createEmailOtp(p, e, l)
<1>1. registry \in Entrance!Tables /\ EntranceWhole(registry) /\ minutes \in Nat
  BY EntranceIdle DEF Entrance!issueEmailOtp
<1>2. Entrance!run(w, <<a>>)
  <2>1. Entrance!run([registry EXCEPT !.minute[<<p, e>>] = minutes + MinuteLength,
               !.hour[<<p, e>>] = Entrance!applyReservation(<<p, e>>),
               !.hour[<<p, None>>] = Entrance!applyReservation(<<p, None>>),
               !.otps = new], <<a>>)
    BY DEF Entrance!issueEmailOtp
  <2> HIDE DEF new, a
  <2>2. \A x, y, z : [registry EXCEPT !.minute[<<p, e>>] = x, !.hour[<<p, e>>] = y,
                        !.hour[<<p, None>>] = z, !.otps = new]
          = [registry EXCEPT !.minute = [registry.minute EXCEPT ![k] = x],
               !.hour = [registry.hour EXCEPT ![k] = y, ![q] = z], !.otps = new]
    <3>1. registry.minute \in [Entrance!Keys -> Nat]
          /\ registry.hour \in [Entrance!Scopes -> Entrance!AuthRateLimitRecord \cup {None}]
      BY <1>1, EntranceTableTypes
    <3> QED
      BY <3>1
  <2>3. [registry EXCEPT !.minute[<<p, e>>] = minutes + MinuteLength,
           !.hour[<<p, e>>] = Entrance!applyReservation(<<p, e>>),
           !.hour[<<p, None>>] = Entrance!applyReservation(<<p, None>>), !.otps = new]
          = [registry EXCEPT !.minute = [registry.minute EXCEPT ![k] = minutes + MinuteLength],
               !.hour = [registry.hour EXCEPT ![k] = Entrance!applyReservation(<<p, e>>),
                                              ![q] = Entrance!applyReservation(<<p, None>>)], !.otps = new]
    BY <2>2
  <2> QED
    BY <2>1, <2>3
<1>3. k \in Entrance!Keys /\ k \in Entrance!Scopes /\ q \in Entrance!Scopes
  BY DEF Entrance!Keys, Entrance!Scopes
<1>4. minute \in [Entrance!Keys -> Nat] /\ hour \in [Entrance!Scopes -> Entrance!AuthRateLimitRecord \cup {None}]
  <2>1. minutes + MinuteLength \in Nat
    BY <1>1 DEF EntranceConstants
  <2>2. Entrance!applyReservation(k) \in Entrance!AuthRateLimitRecord /\ Entrance!applyReservation(q) \in Entrance!AuthRateLimitRecord
    BY <1>1, <1>3, EntranceHourTypes
  <2> HIDE DEF k, q
  <2> QED
    BY <1>1, <1>3, <2>1, <2>2, EntranceTableTypes
<1>5. old \in Seq(Entrance!EmailOtpRecord) /\ DOMAIN new = DOMAIN old
      /\ \A i \in DOMAIN old : /\ new[i] \in Entrance!EmailOtpRecord
                               /\ new[i].purpose = old[i].purpose
                               /\ new[i].status = "accepted" <=> old[i].status = "accepted"
  <2>1. old \in Seq(Entrance!EmailOtpRecord) /\ DOMAIN new = DOMAIN old
    BY <1>1, EntranceTableTypes
  <2>2. ASSUME NEW i \in DOMAIN old
        PROVE  /\ new[i] \in Entrance!EmailOtpRecord
               /\ new[i].purpose = old[i].purpose
               /\ new[i].status = "accepted" <=> old[i].status = "accepted"
    <3>1. old[i] \in Entrance!EmailOtpRecord
      BY <1>1, EntranceOtpTypes
    <3>2. CASE new[i] = old[i]
      BY <3>1, <3>2
    <3>3. CASE new[i] = [old[i] EXCEPT !.status = "consumed"] /\ old[i].status = "issued"
      BY <3>1, <3>3 DEF Entrance!EmailOtpRecord
    <3> HIDE DEF old
    <3> QED
      BY <3>2, <3>3
  <2> QED
    BY <2>1, <2>2
<1>6. new \in Seq(Entrance!EmailOtpRecord)
  <2>1. new = [i \in DOMAIN old |-> new[i]]
    OBVIOUS
  <2> HIDE DEF new, old
  <2> QED
    BY <1>5, <2>1, EntranceMappedSeq
<1>7. /\ w \in Entrance!Tables /\ w.otps = new /\ w.users = registry.users
      /\ w.tickets = registry.tickets /\ w.sessions = registry.sessions
  <2> HIDE DEF new, minute, hour
  <2> QED
    BY <1>1, <1>4, <1>6, EntranceTableTypes DEF Entrance!Tables
<1>8. EntranceAgree(new, registry.users, registry.tickets, registry.sessions)
  <2>1. EntranceAgree(old, registry.users, registry.tickets, registry.sessions)
    BY <1>1 DEF EntranceWhole
  <2> HIDE DEF new, old
  <2> QED
    BY <1>5, <2>1, EntranceCodesKeep
<1>9. /\ a \in Entrance!Writes /\ a.write = "createEmailOtp" /\ a.row \in Entrance!EmailOtpRecord
      /\ a.row.status = "issued"
  <2>1. 0 \in Nat /\ "issued" \in {"issued", "consumed", "accepted"}
    OBVIOUS
  <2> QED
    BY <1>1, <2>1 DEF Entrance!createEmailOtp, Entrance!EmailOtpRecord, Entrance!Writes
<1> HIDE DEF new, w, a
<1>10. EntranceOwes(w, <<a>>) /\ <<a>> \in Seq(Entrance!Writes) /\ <<a>> # <<>>
  <2> DEFINE t == <<a>>
  <2>1. /\ t \in Seq(Entrance!Writes) /\ t # <<>> /\ Len(t) = 1 /\ t[1] = a /\ \A i \in 1..Len(t) : i = 1
    BY <1>9
  <2>2. /\ EntranceRows(t, "createSession") = {} /\ EntranceRows(t, "upsertUserByEmail") = {}
        /\ EntranceRows(t, "createDesktopLoginTicket") = {}
    BY <1>9, EntranceRowsOfOne
  <2>3. EntranceCodesAfter(w, a) = Append(new, a.row)
    BY <1>7, <1>9 DEF EntranceCodesAfter
  <2>4. EntranceAgree(Append(new, a.row), registry.users, registry.tickets, registry.sessions)
    BY <1>6, <1>8, <1>9, EntranceAppendKeeps
  <2>5. \A S : S \cup {} = S
    OBVIOUS
  <2> HIDE DEF t
  <2>6. EntranceAgree(EntranceCodesAfter(w, t[1]), w.users \cup EntranceRows(t, "upsertUserByEmail"),
              w.tickets \cup EntranceRows(t, "createDesktopLoginTicket"),
              w.sessions \cup EntranceRows(t, "createSession"))
    BY <1>7, <2>1, <2>2, <2>3, <2>4, <2>5
  <2>7. EntranceOwes(w, t)
    BY <1>9, <2>1, <2>2, <2>6 DEF EntranceOwes
  <2> QED
    BY <2>1, <2>7 DEF t
<1> QED
  BY <1>2, <1>7, <1>10, EntranceRunKeeps

\* What a code may open: one ticket and one session at most, the session last.
EntranceOpens(i, t) ==
  /\ t \in Seq(Entrance!Writes) /\ t # <<>>
  /\ \A k \in 1..Len(t) : /\ t[k].write # "createEmailOtp"
                          /\ t[k].write = "createSession" => k = Len(t)
  /\ \A x \in EntranceRows(t, "createDesktopLoginTicket") :
       /\ x.otp = i /\ ~x.consumed /\ registry.otps[i].purpose = "desktop_login"
       /\ x.user \in registry.users \cup EntranceRows(t, "upsertUserByEmail")
  /\ \A s \in EntranceRows(t, "createSession") :
       s.otp = i /\ s.kind \in {"admin", "web"} /\ registry.otps[i].purpose = EntrancePurposeOf(s.kind)
  /\ \A x, y \in EntranceRows(t, "createDesktopLoginTicket") : x = y
  /\ \A s, r \in EntranceRows(t, "createSession") : s = r
  /\ EntranceRows(t, "createDesktopLoginTicket") # {} \/ EntranceRows(t, "createSession") # {}

LEMMA EntranceGuessKeeps ==
  ASSUME EntranceConstants, EntranceInv, NEW i \in DOMAIN registry.otps, NEW t, EntranceOpens(i, t), Entrance!Guess(i, t)
  PROVE  EntranceInv'
<1> DEFINE old == registry.otps[i]
           n == old.attempts + 1
           wrong == [old EXCEPT !.attempts = n]
           right == [old EXCEPT !.attempts = n, !.status = "accepted"]
           after(r) == [registry EXCEPT !.otps = [registry.otps EXCEPT ![i] = r]]
<1>1. registry \in Entrance!Tables /\ EntranceWhole(registry) /\ minutes \in Nat
  BY EntranceIdle DEF Entrance!Guess
<1>2. old.status = "issued"
  BY DEF Entrance!Guess, Entrance!latestUsableOtp
<1>3. old \in Entrance!EmailOtpRecord /\ n \in Nat
  BY <1>1, EntranceOtpTypes DEF Entrance!EmailOtpRecord
<1>4. Entrance!run(after(wrong), <<>>) \/ Entrance!run(after(right), t)
  <2> HIDE DEF n
  <2>1. /\ [registry EXCEPT !.otps[i].attempts = n] = after(wrong)
        /\ [registry EXCEPT !.otps[i].attempts = n, !.otps[i].status = "accepted"] = after(right)
    BY <1>1, EntranceTableTypes
  <2>2. \/ Entrance!run([registry EXCEPT !.otps[i].attempts = n], <<>>)
        \/ Entrance!run([registry EXCEPT !.otps[i].attempts = n, !.otps[i].status = "accepted"], t)
    BY DEF Entrance!Guess, n
  <2> QED
    BY <2>1, <2>2
<1>5. /\ wrong \in Entrance!EmailOtpRecord /\ wrong.purpose = old.purpose /\ wrong.status = "issued"
      /\ right \in Entrance!EmailOtpRecord /\ right.purpose = old.purpose /\ right.status = "accepted"
  <2> HIDE DEF n, old
  <2> QED
    BY <1>2, <1>3 DEF Entrance!EmailOtpRecord
<1> HIDE DEF wrong, right
<1>6. ASSUME NEW r \in Entrance!EmailOtpRecord
      PROVE  /\ after(r) \in Entrance!Tables /\ DOMAIN after(r).otps = DOMAIN registry.otps
             /\ after(r).otps[i] = r
             /\ \A j \in DOMAIN registry.otps : j # i => after(r).otps[j] = registry.otps[j]
             /\ after(r).users = registry.users /\ after(r).tickets = registry.tickets
             /\ after(r).sessions = registry.sessions
  BY <1>1, EntranceOtpChanged
<1> HIDE DEF after
<1>7. CASE Entrance!run(after(wrong), <<>>)
  <2> DEFINE w == after(wrong)
  <2>1. \A j \in DOMAIN registry.otps :
          /\ w.otps[j].purpose = registry.otps[j].purpose
          /\ w.otps[j].status = "accepted" <=> registry.otps[j].status = "accepted"
    BY <1>2, <1>5, <1>6
  <2>2. w \in Entrance!Tables /\ EntranceWhole(w)
    BY <1>1, <1>5, <1>6, <2>1, EntranceCodesKeep DEF EntranceWhole
  <2>3. <<>> \in Seq(Entrance!Writes)
    BY EmptySeq
  <2> QED
    BY <1>7, <2>2, <2>3, EntranceRunKeeps
<1>8. CASE Entrance!run(after(right), t)
  <2> DEFINE w == after(right)
             U == EntranceRows(t, "upsertUserByEmail")
             T == EntranceRows(t, "createDesktopLoginTicket")
             S == EntranceRows(t, "createSession")
  <2>1. w \in Entrance!Tables
    BY <1>5, <1>6
  <2>2. /\ EntranceAgree(w.otps, registry.users \cup U, registry.tickets \cup T, registry.sessions \cup S)
        /\ \A s \in S : \A r \in registry.sessions : ~EntranceSame(r, s)
    <3> DEFINE otps == registry.otps
               new == w.otps
    <3>1. /\ i \in DOMAIN otps /\ otps[i].status = "issued"
          /\ DOMAIN new = DOMAIN otps /\ new[i].status = "accepted"
          /\ new[i].purpose = otps[i].purpose
          /\ \A j \in DOMAIN otps : j # i => new[j] = otps[j]
      BY <1>2, <1>5, <1>6
    <3>2. EntranceAgree(otps, registry.users, registry.tickets, registry.sessions)
      BY <1>1 DEF EntranceWhole
    <3>3. \A x \in T : /\ x.otp = i /\ x.user \in registry.users \cup U /\ ~x.consumed
                      /\ otps[i].purpose = "desktop_login"
      BY DEF EntranceOpens
    <3>4. \A s \in S : /\ s.otp = i /\ s.kind \in {"admin", "web"}
                      /\ otps[i].purpose = EntrancePurposeOf(s.kind)
      BY DEF EntranceOpens
    <3>5. (\A x, v \in T : x = v) /\ (\A s, r \in S : s = r) /\ (T # {} \/ S # {})
      BY DEF EntranceOpens
    <3> DEFINE more == registry.users \cup U
    <3>6. EntranceMayOpen(otps, i, new, more, T, S) /\ registry.users \subseteq more
      <4> HIDE DEF U, T, S, otps, new
      <4> QED
        BY <3>1, <3>3, <3>4, <3>5 DEF EntranceMayOpen
    <3> HIDE DEF U, T, S, otps, new, more
    <3>7. /\ EntranceAgree(new, more, registry.tickets \cup T, registry.sessions \cup S)
          /\ \A s \in S : \A r \in registry.sessions : ~EntranceSame(r, s)
      BY <3>2, <3>6, EntranceAcceptedKeeps
    <3> QED
      BY <3>7 DEF new, more
  <2>3. t \in Seq(Entrance!Writes) /\ t # <<>>
    BY DEF EntranceOpens
  <2>4. Len(t) \in Nat /\ 1 \in 1..Len(t)
    BY <2>3, EmptySeq, LenProperties
  <2>5. /\ \A k \in 1..Len(t) : t[k].write # "createEmailOtp"
        /\ \A k \in 1..Len(t) : t[k].write = "createSession" => k = Len(t)
    BY DEF EntranceOpens
  <2>6. EntranceCodesAfter(w, t[1]) = w.otps
    BY <2>4, <2>5 DEF EntranceCodesAfter
  <2>7. w.users = registry.users /\ w.tickets = registry.tickets /\ w.sessions = registry.sessions
    BY <1>5, <1>6
  <2> HIDE DEF w
  <2>8. EntranceOwes(w, t)
    BY <2>2, <2>5, <2>6, <2>7 DEF EntranceOwes
  <2> QED
    BY <1>8, <2>1, <2>3, <2>8, EntranceRunKeeps DEF w
<1> QED
  BY <1>4, <1>7, <1>8

\* What the operations open.
LEMMA EntranceOpeningWrites ==
  ASSUME EntranceConstants, registry \in Entrance!Tables, minutes \in Nat, NEW i \in DOMAIN registry.otps
  PROVE  LET u == Entrance!upsertUserByEmail(i)
             x == Entrance!createDesktopLoginTicket(i)
         IN  /\ u \in Entrance!Writes /\ u.write = "upsertUserByEmail" /\ u.row = registry.otps[i].email
             /\ x \in Entrance!Writes /\ x.write = "createDesktopLoginTicket"
             /\ x.row.otp = i /\ x.row.user = registry.otps[i].email /\ ~x.row.consumed
             /\ \A kind \in {"desktop", "admin", "web"} :
                  LET s == Entrance!createSession(i, kind)
                  IN  s \in Entrance!Writes /\ s.write = "createSession" /\ s.row.otp = i /\ s.row.kind = kind
<1>1. i \in Nat /\ registry.otps[i].email \in Emails
  BY EntranceOtpTypes
<1>2. minutes + TicketLength \in Nat
  BY DEF EntranceConstants
<1> QED
  BY <1>1, <1>2
     DEF Entrance!upsertUserByEmail, Entrance!createDesktopLoginTicket, Entrance!createSession,
         Entrance!Writes, Entrance!DesktopLoginTicketRecord, Entrance!SessionRecord

LEMMA EntranceverifyKeeps ==
  ASSUME EntranceConstants, EntranceInv, NEW i \in DOMAIN registry.otps,
         \/ Entrance!verifyDesktopOtpAndCreateTicket(i) \/ Entrance!verifyUserOtpAndCreateWebSession(i)
         \/ Entrance!verifyDesktopOtpAndCreateTicketAndWebSession(i) \/ Entrance!verifyAdminOtpAndCreateSession(i)
  PROVE  EntranceInv'
<1> DEFINE u == Entrance!upsertUserByEmail(i)
           x == Entrance!createDesktopLoginTicket(i)
           s == Entrance!createSession(i, "web")
           d == Entrance!createSession(i, "admin")
<1>1. registry \in Entrance!Tables /\ minutes \in Nat
  BY DEF EntranceInv, Entrance!TypeOK
<1>2. /\ u \in Entrance!Writes /\ u.write = "upsertUserByEmail" /\ u.row = registry.otps[i].email
      /\ x \in Entrance!Writes /\ x.write = "createDesktopLoginTicket"
      /\ x.row.otp = i /\ x.row.user = registry.otps[i].email /\ ~x.row.consumed
      /\ s \in Entrance!Writes /\ s.write = "createSession" /\ s.row.otp = i /\ s.row.kind = "web"
      /\ d \in Entrance!Writes /\ d.write = "createSession" /\ d.row.otp = i /\ d.row.kind = "admin"
  BY <1>1, EntranceOpeningWrites
<1>3. \/ registry.otps[i].purpose = "desktop_login"
         /\ (Entrance!Guess(i, <<u, x>>) \/ Entrance!Guess(i, <<u, s>>) \/ Entrance!Guess(i, <<u, x, s>>))
      \/ registry.otps[i].purpose = "admin_login" /\ Entrance!Guess(i, <<d>>)
  BY DEF Entrance!verifyDesktopOtpAndCreateTicket, Entrance!verifyUserOtpAndCreateWebSession,
         Entrance!verifyDesktopOtpAndCreateTicketAndWebSession,
         Entrance!verifyAdminOtpAndCreateSession
<1> HIDE DEF u, x, s, d
<1>4. CASE registry.otps[i].purpose = "desktop_login" /\ Entrance!Guess(i, <<u, x>>)
  <2> DEFINE t == <<u, x>>
  <2>1. /\ t \in Seq(Entrance!Writes) /\ t # <<>> /\ Len(t) = 2 /\ t[1] = u /\ t[2] = x
        /\ \A k \in 1..Len(t) : k = 1 \/ k = 2
    BY <1>2
  <2>2. /\ EntranceRows(t, "upsertUserByEmail") = {u.row}
        /\ EntranceRows(t, "createDesktopLoginTicket") = {x.row}
        /\ EntranceRows(t, "createSession") = {}
    BY <1>2, EntranceRowsOfTwo
  <2> HIDE DEF t
  <2>3. EntranceOpens(i, t)
    BY <1>2, <1>4, <2>1, <2>2 DEF EntranceOpens
  <2> QED
    BY <1>4, <2>3, EntranceGuessKeeps DEF t
<1>5. CASE registry.otps[i].purpose = "desktop_login" /\ Entrance!Guess(i, <<u, s>>)
  <2> DEFINE t == <<u, s>>
  <2>1. /\ t \in Seq(Entrance!Writes) /\ t # <<>> /\ Len(t) = 2 /\ t[1] = u /\ t[2] = s
        /\ \A k \in 1..Len(t) : k = 1 \/ k = 2
    BY <1>2
  <2>2. /\ EntranceRows(t, "upsertUserByEmail") = {u.row}
        /\ EntranceRows(t, "createDesktopLoginTicket") = {}
        /\ EntranceRows(t, "createSession") = {s.row}
    BY <1>2, EntranceRowsOfTwo
  <2> HIDE DEF t
  <2>3. EntranceOpens(i, t)
    BY <1>2, <1>5, <2>1, <2>2 DEF EntranceOpens, EntrancePurposeOf
  <2> QED
    BY <1>5, <2>3, EntranceGuessKeeps DEF t
<1>6. CASE registry.otps[i].purpose = "desktop_login" /\ Entrance!Guess(i, <<u, x, s>>)
  <2> DEFINE t == <<u, x, s>>
  <2>1. /\ t \in Seq(Entrance!Writes) /\ t # <<>> /\ Len(t) = 3 /\ t[1] = u /\ t[2] = x /\ t[3] = s
        /\ \A k \in 1..Len(t) : k = 1 \/ k = 2 \/ k = 3
    BY <1>2
  <2>2. /\ EntranceRows(t, "upsertUserByEmail") = {u.row}
        /\ EntranceRows(t, "createDesktopLoginTicket") = {x.row}
        /\ EntranceRows(t, "createSession") = {s.row}
    BY <1>2, EntranceRowsOfThree
  <2> HIDE DEF t
  <2>3. EntranceOpens(i, t)
    BY <1>2, <1>6, <2>1, <2>2 DEF EntranceOpens, EntrancePurposeOf
  <2> QED
    BY <1>6, <2>3, EntranceGuessKeeps DEF t
<1>7. CASE registry.otps[i].purpose = "admin_login" /\ Entrance!Guess(i, <<d>>)
  <2> DEFINE t == <<d>>
  <2>1. /\ t \in Seq(Entrance!Writes) /\ t # <<>> /\ Len(t) = 1 /\ t[1] = d
        /\ \A k \in 1..Len(t) : k = 1
    BY <1>2
  <2>2. /\ EntranceRows(t, "createDesktopLoginTicket") = {}
        /\ EntranceRows(t, "createSession") = {d.row}
    BY <1>2, EntranceRowsOfOne
  <2> HIDE DEF t
  <2>3. EntranceOpens(i, t)
    BY <1>2, <1>7, <2>1, <2>2 DEF EntranceOpens, EntrancePurposeOf
  <2> QED
    BY <1>7, <2>3, EntranceGuessKeeps DEF t
<1> QED
  BY <1>3, <1>4, <1>5, <1>6, <1>7

LEMMA EntranceexchangeKeeps ==
  ASSUME EntranceConstants, EntranceInv, NEW x \in registry.tickets, Entrance!exchangeDesktopTicketAndCreateSession(x)
  PROVE  EntranceInv'
<1> DEFINE v == [x EXCEPT !.consumed = TRUE]
           new == (registry.tickets \ {x}) \cup {v}
           w == [registry EXCEPT !.tickets = new]
           i == x.otp
           s == Entrance!createSession(i, "desktop")
           t == <<s>>
<1>1. /\ registry \in Entrance!Tables /\ EntranceWhole(registry) /\ minutes \in Nat
      /\ ~x.consumed /\ Entrance!run(w, t)
  BY EntranceIdle DEF Entrance!exchangeDesktopTicketAndCreateSession
<1>2. x \in Entrance!DesktopLoginTicketRecord /\ registry.tickets \in SUBSET Entrance!DesktopLoginTicketRecord
  BY <1>1, EntranceTableTypes
<1>3. v \in Entrance!DesktopLoginTicketRecord /\ v.otp = i /\ v.user = x.user /\ v.consumed
  BY <1>2 DEF Entrance!DesktopLoginTicketRecord
<1>4. new \in SUBSET Entrance!DesktopLoginTicketRecord
  BY <1>2, <1>3
<1>5. i \in DOMAIN registry.otps
  BY <1>1 DEF EntranceWhole, EntranceAgree, EntranceTicketsAgree, EntranceAccepted
<1>6. s \in Entrance!Writes /\ s.write = "createSession" /\ s.row.otp = i /\ s.row.kind = "desktop"
  <2> HIDE DEF i
  <2> QED
    BY <1>1, <1>5, EntranceOpeningWrites
<1> HIDE DEF s, v
<1>7. /\ EntranceAgree(registry.otps, registry.users, new, registry.sessions \cup {s.row})
      /\ \A r \in registry.sessions : ~EntranceSame(r, s.row)
  BY <1>1, <1>3, <1>6, EntranceExchangeKeeps DEF EntranceWhole
<1> HIDE DEF new
<1>8. /\ w \in Entrance!Tables /\ w.otps = registry.otps /\ w.users = registry.users
      /\ w.tickets = new /\ w.sessions = registry.sessions
  BY <1>1, <1>4, EntranceTableTypes DEF Entrance!Tables
<1> HIDE DEF w
<1>9. /\ t \in Seq(Entrance!Writes) /\ t # <<>> /\ Len(t) = 1 /\ t[1] = s /\ \A k \in 1..Len(t) : k = 1
  BY <1>6
<1>10. /\ EntranceRows(t, "createSession") = {s.row} /\ EntranceRows(t, "upsertUserByEmail") = {}
       /\ EntranceRows(t, "createDesktopLoginTicket") = {}
  BY <1>6, EntranceRowsOfOne
<1> HIDE DEF t
<1>11. \A S : S \cup {} = S
  OBVIOUS
<1>12. EntranceAgree(EntranceCodesAfter(w, t[1]), w.users \cup EntranceRows(t, "upsertUserByEmail"),
             w.tickets \cup EntranceRows(t, "createDesktopLoginTicket"),
             w.sessions \cup EntranceRows(t, "createSession"))
  <2>1. EntranceCodesAfter(w, t[1]) = registry.otps
    BY <1>6, <1>8, <1>9 DEF EntranceCodesAfter
  <2> QED
    BY <1>7, <1>8, <1>10, <1>11, <2>1
<1>13. EntranceOwes(w, t)
  BY <1>6, <1>7, <1>8, <1>9, <1>10, <1>12 DEF EntranceOwes
<1> QED
  BY <1>1, <1>8, <1>9, <1>13, EntranceRunKeeps

-----------------------------------------------------------------------------
(* The whole.                                                               *)

LEMMA EntranceStarts == EntranceConstants /\ Entrance!Init => EntranceInv
<1> SUFFICES ASSUME EntranceConstants, Entrance!Init PROVE EntranceInv
  OBVIOUS
<1>1. /\ registry = [minute |-> [k \in Entrance!Keys |-> 0], hour |-> [s \in Entrance!Scopes |-> None],
                     otps |-> <<>>, users |-> {}, tickets |-> {}, sessions |-> {}]
      /\ underway = None /\ minutes = 0 /\ authCalls = 0
  BY DEF Entrance!Init
<1>2. /\ [k \in Entrance!Keys |-> 0] \in [Entrance!Keys -> Nat]
      /\ [s \in Entrance!Scopes |-> None] \in [Entrance!Scopes -> Entrance!AuthRateLimitRecord \cup {None}]
      /\ <<>> \in Seq(Entrance!EmailOtpRecord)
  BY EmptySeq
<1>3. registry \in Entrance!Tables
  BY <1>1, <1>2 DEF Entrance!Tables
<1>4. minutes \in 0..MaxMinutes /\ authCalls \in 0..MaxAuthCalls
  <2>1. MaxMinutes \in Nat /\ MaxAuthCalls \in Nat
    BY DEF EntranceConstants
  <2> QED
    BY <1>1, <2>1
<1>5. /\ registry.otps = <<>> /\ registry.users = {} /\ registry.tickets = {}
      /\ registry.sessions = {} /\ DOMAIN registry.otps = {}
  BY <1>1
<1>6. EntranceWhole(registry)
  BY <1>5
     DEF EntranceWhole, EntranceAgree, EntranceTicketsAgree, EntranceSessionsAgree,
         EntranceCodesAgree, EntranceExchangesAgree
<1> QED
  BY <1>1, <1>3, <1>4, <1>6 DEF EntranceInv, Entrance!TypeOK

LEMMA EntranceSteps == EntranceConstants /\ EntranceInv /\ (Entrance!Next \/ UNCHANGED Entrance!vars) => EntranceInv'
<1> SUFFICES ASSUME EntranceConstants, EntranceInv, (Entrance!Next \/ UNCHANGED Entrance!vars) PROVE EntranceInv'
  OBVIOUS
<1>1. CASE Entrance!Tick
  <2>1. /\ registry' = registry /\ underway' = underway /\ authCalls' = authCalls
        /\ minutes' \in 0..MaxMinutes
    BY <1>1 DEF Entrance!Tick, EntranceInv, Entrance!TypeOK, EntranceConstants
  <2> QED
    BY <2>1 DEF EntranceInv, Entrance!TypeOK
<1>2. CASE Entrance!Goes \/ Entrance!Fails
  BY <1>2, EntranceGoesKeeps, EntranceFailsKeeps
<1>3. CASE Entrance!DesktopOperations
  BY <1>3, EntranceissueKeeps, EntranceinvalidateKeeps, EntranceverifyKeeps,
     EntranceexchangeKeeps
     DEF Entrance!DesktopOperations
<1>4. CASE Entrance!WebOperations
  BY <1>4, EntranceverifyKeeps DEF Entrance!WebOperations
<1>5. CASE \E s \in registry.sessions : Entrance!revokeSession(s)
  BY <1>5, EntrancerevokeKeeps
<1>6. CASE UNCHANGED Entrance!vars
  BY <1>6 DEF EntranceInv, Entrance!TypeOK, Entrance!vars
<1> QED
  BY <1>1, <1>2, <1>3, <1>4, <1>5, <1>6 DEF Entrance!Next

\* The numbers of elements that MemoryAuth counts.
LEMMA EntranceCounts == ASSUME NEW S PROVE Entrance!Cardinality(S) = Cardinality(S)
BY Zenon DEF Entrance!Cardinality, Cardinality

LEMMA EntranceHolds == EntranceConstants /\ EntranceInv => Entrance!SignInsAreWhole
<1> SUFFICES ASSUME EntranceConstants, EntranceInv, underway = None PROVE Entrance!SignInsAreWhole
  BY DEF Entrance!SignInsAreWhole
<1> DEFINE from(i, kind) == {s \in registry.sessions : s.otp = i /\ s.kind = kind}
<1>1. EntranceAgree(registry.otps, registry.users, registry.tickets, registry.sessions)
  BY DEF EntranceInv, EntranceWhole
<1>2. \A i, kind : /\ Entrance!FromCode(i, kind) = IF from(i, kind) = {} THEN 0 ELSE 1
                   /\ from(i, kind) # {} <=> \E s \in registry.sessions : s.otp = i /\ s.kind = kind
  <2> TAKE i, kind
  <2>1. \A s, r \in from(i, kind) : s = r
    BY <1>1 DEF EntranceAgree, EntranceSessionsAgree, EntranceSame
  <2>2. Entrance!FromCode(i, kind) = Cardinality(from(i, kind))
    BY EntranceCounts DEF Entrance!FromCode
  <2> HIDE DEF from
  <2>3. Cardinality(from(i, kind)) = IF from(i, kind) = {} THEN 0 ELSE 1
    BY <2>1, EntranceOneAtMost
  <2> QED
    BY <2>2, <2>3 DEF from
<1>3. \A i : /\ Cardinality(Entrance!TicketsOf(i)) = IF Entrance!TicketsOf(i) = {} THEN 0 ELSE 1
             /\ Entrance!TicketsOf(i) # {} <=> \E t \in registry.tickets : t.otp = i
  <2> TAKE i
  <2>1. \A t, v \in Entrance!TicketsOf(i) : t = v
    BY <1>1 DEF EntranceAgree, EntranceTicketsAgree, Entrance!TicketsOf
  <2>2. Cardinality(Entrance!TicketsOf(i)) = IF Entrance!TicketsOf(i) = {} THEN 0 ELSE 1
    BY <2>1, EntranceOneAtMost
  <2> QED
    BY <2>2 DEF Entrance!TicketsOf
<1>4. ASSUME NEW i \in DOMAIN registry.otps
      PROVE  LET opened == Cardinality(Entrance!TicketsOf(i)) + Entrance!FromCode(i, "admin") + Entrance!FromCode(i, "web")
             IN  /\ registry.otps[i].status = "accepted" => opened \in {1, 2} /\ Entrance!FromCode(i, "web") <= 1
                 /\ registry.otps[i].status # "accepted" => opened = 0
  <2> DEFINE tickets == \E t \in registry.tickets : t.otp = i
             of(kind) == \E s \in registry.sessions : s.otp = i /\ s.kind = kind
  <2>1. /\ Entrance!FromCode(i, "admin") = IF of("admin") THEN 1 ELSE 0
        /\ Entrance!FromCode(i, "web") = IF of("web") THEN 1 ELSE 0
        /\ Cardinality(Entrance!TicketsOf(i)) = IF tickets THEN 1 ELSE 0
    BY <1>2, <1>3
  <2>2. registry.otps[i].status # "accepted" => ~tickets /\ ~of("admin") /\ ~of("web")
    BY <1>1 DEF EntranceAgree, EntranceTicketsAgree, EntranceSessionsAgree, EntranceAccepted
  <2>3. registry.otps[i].status = "accepted" => tickets \/ of("admin") \/ of("web")
    BY <1>1 DEF EntranceAgree, EntranceCodesAgree
  <2>4. of("admin") => ~tickets /\ ~of("web")
    BY <1>1
       DEF EntranceAgree, EntranceTicketsAgree, EntranceSessionsAgree, EntranceAccepted,
           EntrancePurposeOf
  <2> HIDE DEF tickets, of
  <2> QED
    BY <2>1, <2>2, <2>3, <2>4
<1>5. ASSUME NEW t \in registry.tickets
      PROVE  /\ t.user \in registry.users
             /\ Entrance!FromCode(t.otp, "desktop") = IF t.consumed THEN 1 ELSE 0
  BY <1>1, <1>2 DEF EntranceAgree, EntranceTicketsAgree, EntranceExchangesAgree
<1> QED
  BY <1>4, <1>5, EntranceCounts DEF Entrance!SignInsAreWhole

-----------------------------------------------------------------------------
(* The data directory and its migrations (DataStorage).                     *)

\* Nothing is a name, a number, a file or an operation, and the library is somewhere.
StorageConstants ==
  /\ First \in Roots /\ MaxWrites \in Nat /\ MaxGeneration \in Nat
  /\ None \notin Storage!Data /\ None \notin Storage!Ids /\ None \notin [data : Storage!Data, id : Storage!Ids]
  /\ None \notin Storage!Operations

-----------------------------------------------------------------------------
(* The inductive invariant.                                                 *)

StorageControls ==
  [active : Roots, generation : 0..MaxGeneration, pending : Storage!Operations \cup {None},
   receipts : SUBSET Storage!Receipts, copies : SUBSET Storage!Operations]

StorageTypes ==
  /\ disk \in [Roots -> [Files -> Storage!Entries]] /\ library \in [Files -> Storage!Data]
  /\ near \in BOOLEAN /\ permit \in BOOLEAN /\ cancelled \in BOOLEAN
  /\ control \in StorageControls /\ job \in Storage!Jobs /\ boot \in 0..MaxGeneration

StorageEarly == {"waiting", "prepared", "copying", "verifying"}
StorageBegun == StorageEarly \cup {"merging", "publishing"}

\* What a merge has planned: a file of the target stays, the others come.
StoragePlanned(p) ==
  \A f \in Files : p.item[f] = [id |-> IF p.kept[f] = None THEN None ELSE p.kept[f].id,
                                temp |-> None, done |-> FALSE]

\* An operation that has not published anything leads out of the library, and
\* moves files or copies them.
StorageSound(p) ==
  /\ p.generation < MaxGeneration
  /\ p.generation = control.generation => p.source = control.active /\ p.target # control.active
  /\ p.phase = "merging" => p.merge
  /\ p.phase \in {"copying", "verifying", "publishing"} => ~p.merge
  /\ p.merge /\ p.phase = "prepared" => StoragePlanned(p)

StoragePendingSound ==
  Storage!op # None /\ Storage!op.phase \in StorageBegun => Storage!op.generation = control.generation /\ StorageSound(Storage!op)

\* Only what had neither moved nor published anything was cancelled.
StorageCopiesSound ==
  \A p \in control.copies :
    p.phase \in StorageEarly /\ p.generation <= control.generation /\ StorageSound(p)

\* The user writes to the library at most until the files are read.
StoragePermitEarly ==
  permit => job.at \in {"none", "wait"} /\ (Storage!op # None => Storage!op.phase \in StorageEarly)

\* Where the command is that has the directories, the operation is too.
StorageWaits ==
  job.at = "wait" =>
    IF cancelled THEN Storage!op = None
    ELSE /\ Storage!op # None
         /\ \/ job.next = "scan" /\ Storage!op.phase = "waiting"
            \/ job.next = "verify" /\ Storage!op.phase \in StorageBegun \ {"waiting"}

StorageSteps ==
  /\ job.at \notin {"none", "wait"} => Storage!op # None
  /\ job.at = "scan" => Storage!op.phase = "waiting"
  /\ job.at = "verify" => Storage!op.phase \in StorageBegun \ {"waiting"}
  /\ job.at = "copy" => Storage!op.phase = "copying" /\ \A f \in job.done : Storage!op.payload[f] # None
  /\ job.at = "check" => Storage!op.phase = "verifying" /\ \A f \in Storage!Names(Storage!op.inv) : Storage!op.payload[f] # None
  /\ job.at = "publish" => Storage!op.phase = "publishing"
  /\ job.at = "merge" => Storage!op.phase = "merging"
  /\ job.at = "recheck" => Storage!op.phase \in {"restart_required", "validating"}
  /\ job.at = "clean" => Storage!op.phase = "cleaning"

\* While copies are published the source is as it was read, and each file is there or
\* comes.
StoragePublishing ==
  Storage!op # None /\ Storage!op.phase = "publishing" =>
    /\ disk[Storage!op.source] = Storage!op.inv
    /\ \A f \in Storage!Names(Storage!op.inv) : Storage!op.payload[f] # None \/ disk[Storage!op.target][f] # None

\* A file that is merged: the target keeps what it had, and otherwise has the file of
\* the library before the source loses it, under the identity that is noted.
StorageMerges(p, f) ==
  /\ p.inv[f] # None /\ disk[p.source][f] \in {None, p.inv[f]}
  /\ p.kept[f] # None => disk[p.target][f] = p.kept[f] /\ p.item[f].id # None
  /\ p.kept[f] = None =>
       /\ p.inv[f].data = library[f]
       /\ disk[p.target][f] = None => disk[p.source][f] = p.inv[f]
       /\ disk[p.target][f] # None => disk[p.target][f].data = p.inv[f].data
  /\ p.item[f].id # None => disk[p.target][f] # None /\ disk[p.target][f].id = p.item[f].id
  /\ p.item[f].id = None /\ disk[p.target][f] # None =>
       disk[p.target][f].id \in {p.inv[f].id, p.item[f].temp}
  /\ p.item[f].temp \in {None, Storage!Id(p.target, "copied", p.inv[f].data)}

StorageMergingWell ==
  Storage!op # None /\ Storage!op.phase = "merging" =>
    Storage!op.error # "SourceChanged" /\ \A f \in Files : StorageMerges(Storage!op, f)

StorageHeld ==
  Storage!op = None \/ Storage!op.phase # "merging" =>
    \A f \in Files : disk[control.active][f] # None
                     /\ disk[control.active][f].data = library[f]

StorageInv ==
  /\ StorageTypes /\ StoragePendingSound /\ StorageCopiesSound /\ StoragePermitEarly /\ StorageWaits /\ StorageSteps
  /\ StoragePublishing /\ StorageMergingWell /\ StorageHeld


-----------------------------------------------------------------------------
(* What the steps have in common.                                           *)

LEMMA StoragePendingTypes ==
  ASSUME StorageConstants, StorageTypes, Storage!op # None
  PROVE  /\ Storage!op \in Storage!Operations
         /\ Storage!op.phase \in StorageBegun \cup {"restart_required", "validating", "cleaning"}
         /\ Storage!op.merge \in BOOLEAN /\ Storage!op.generation \in 0..MaxGeneration
         /\ Storage!op.source \in Roots /\ Storage!op.target \in Roots
         /\ Storage!op.error \in {"none", "failed", "SourceChanged"}
         /\ Storage!op.inv \in [Files -> Storage!Entries] /\ Storage!op.kept \in [Files -> Storage!Entries]
         /\ Storage!op.item \in [Files -> Storage!ItemStates] /\ Storage!op.payload \in [Files -> Storage!Data \cup {None}]
BY DEF StorageTypes, StorageControls, Storage!op, Storage!Operations, StorageBegun, StorageEarly

LEMMA StorageControlTypes ==
  ASSUME StorageTypes
  PROVE  /\ control.active \in Roots /\ control.generation \in 0..MaxGeneration
         /\ control.pending \in Storage!Operations \cup {None}
         /\ control.receipts \in SUBSET Storage!Receipts /\ control.copies \in SUBSET Storage!Operations
         /\ control = [active |-> control.active, generation |-> control.generation,
                       pending |-> control.pending, receipts |-> control.receipts,
                       copies |-> control.copies]
BY DEF StorageTypes, StorageControls

LEMMA StoragePersistTypes ==
  ASSUME StorageTypes, NEW p \in Storage!Operations \cup {None}, Storage!Persist(p)
  PROVE  /\ control' \in StorageControls /\ Storage!op' = p /\ control'.pending = p
         /\ control'.active = control.active /\ control'.generation = control.generation
         /\ control'.receipts = control.receipts /\ control'.copies = control.copies
BY DEF StorageTypes, StorageControls, Storage!Persist, Storage!op

\* A step that only changes the operation and the command.
LEMMA StoragePersists ==
  ASSUME StorageConstants, StorageInv, NEW p \in Storage!Operations \cup {None}, Storage!Persist(p),
         UNCHANGED <<disk, library, near, permit, cancelled, boot>>,
         job' \in Storage!Jobs, StoragePendingSound', permit => (p # None => p.phase \in StorageEarly),
         permit => job'.at \in {"none", "wait"}, StorageWaits', StorageSteps', StoragePublishing', StorageMergingWell',
         Storage!op # None /\ Storage!op.phase = "merging" => p # None /\ p.phase = "merging"
  PROVE  StorageInv'
<1>1. /\ control' \in StorageControls /\ Storage!op' = p /\ control'.pending = p
      /\ control'.active = control.active /\ control'.generation = control.generation
      /\ control'.receipts = control.receipts /\ control'.copies = control.copies
  BY StoragePersistTypes DEF StorageInv
<1>2. StorageTypes'
  BY <1>1 DEF StorageInv, StorageTypes
<1>3. StorageCopiesSound'
  BY <1>1 DEF StorageInv, StorageCopiesSound, StorageSound, StoragePlanned, StorageEarly
<1>4. StoragePermitEarly'
  BY <1>1 DEF StoragePermitEarly, Storage!op
<1>5. StorageHeld'
  BY <1>1 DEF StorageInv, StorageHeld, Storage!op
<1> QED
  BY <1>2, <1>3, <1>4, <1>5 DEF StorageInv

LEMMA StorageEndsKeeps ==
  ASSUME StorageConstants, StorageInv, Storage!op # None, job.at \notin {"none", "wait"},
         NEW error \in {"failed", "SourceChanged"}, Storage!Ends(error),
         error = "SourceChanged" => Storage!op.phase # "merging",
         UNCHANGED <<disk, library, near, permit, cancelled, boot>>
  PROVE  StorageInv'
<1> DEFINE p == [Storage!op EXCEPT !.error = error]
<1>1. /\ p \in Storage!Operations /\ p # None /\ p.phase = Storage!op.phase /\ p.generation = Storage!op.generation
      /\ p.merge = Storage!op.merge /\ p.source = Storage!op.source /\ p.target = Storage!op.target
      /\ p.inv = Storage!op.inv /\ p.kept = Storage!op.kept /\ p.item = Storage!op.item /\ p.payload = Storage!op.payload
      /\ p.error = error
  BY StoragePendingTypes DEF StorageInv, Storage!Operations, StorageConstants
<1>2. Storage!Persist(p) /\ job' = Storage!Idle
  BY DEF Storage!Ends
<1> HIDE DEF p
<1>3. /\ control' \in StorageControls /\ Storage!op' = p
      /\ control'.active = control.active /\ control'.generation = control.generation
  BY <1>1, <1>2, StoragePersistTypes DEF StorageInv
<1>4. job' \in Storage!Jobs /\ job'.at = "none"
  BY <1>2 DEF Storage!Idle, Storage!Jobs
<1>5. ~permit
  BY DEF StorageInv, StoragePermitEarly
<1>6. StoragePendingSound'
  BY <1>1, <1>3 DEF StorageInv, StoragePendingSound, StorageSound, StoragePlanned
<1>7. StorageWaits' /\ StorageSteps'
  BY <1>4 DEF StorageWaits, StorageSteps
<1>8. StoragePublishing'
  BY <1>1, <1>3 DEF StorageInv, StoragePublishing, Storage!Names
<1>9. StorageMergingWell'
  BY <1>1, <1>3 DEF StorageInv, StorageMergingWell, StorageMerges
<1> QED
  BY <1>1, <1>2, <1>4, <1>5, <1>6, <1>7, <1>8, <1>9, StoragePersists

\* What is withdrawn is kept as a copy, and nothing is pending.
LEMMA StorageWithdrawnTypes ==
  ASSUME StorageConstants, StorageTypes, Storage!op # None, control' = Storage!Withdrawn
  PROVE  /\ control' \in StorageControls /\ Storage!op' = None /\ control'.pending = None
         /\ control'.active = control.active /\ control'.generation = control.generation
         /\ control'.receipts = control.receipts
         /\ control'.copies = control.copies \cup {Storage!op}
BY StoragePendingTypes DEF StorageTypes, StorageControls, Storage!Withdrawn, Storage!op

LEMMA StorageWithdrawnKeeps ==
  ASSUME StorageConstants, StorageInv, Storage!op # None, Storage!op.phase \in StorageEarly, control' = Storage!Withdrawn,
         job'.at \in {"none", "wait"}, job' \in Storage!Jobs, job'.at = "wait" => cancelled',
         cancelled' \in BOOLEAN, UNCHANGED <<disk, library, near, permit, boot>>
  PROVE  StorageInv'
<1>1. /\ control' \in StorageControls /\ Storage!op' = None
      /\ control'.active = control.active /\ control'.generation = control.generation
      /\ control'.receipts = control.receipts /\ control'.copies = control.copies \cup {Storage!op}
  BY StorageWithdrawnTypes DEF StorageInv
<1>2. StorageTypes'
  BY <1>1 DEF StorageInv, StorageTypes
<1>3. StorageCopiesSound'
  <2>1. Storage!op.generation <= control.generation /\ StorageSound(Storage!op)
    BY StorageControlTypes DEF StorageInv, StoragePendingSound, StorageBegun
  <2> QED
    BY <1>1, <2>1 DEF StorageInv, StorageCopiesSound, StorageSound, StoragePlanned
<1>4. StoragePermitEarly' /\ StorageWaits' /\ StorageSteps' /\ StoragePendingSound' /\ StoragePublishing' /\ StorageMergingWell'
  BY <1>1
     DEF StorageInv, StoragePermitEarly, StorageWaits, StorageSteps, StoragePendingSound,
         StoragePublishing, StorageMergingWell
<1>5. StorageHeld'
  BY <1>1 DEF StorageInv, StorageHeld, StorageEarly
<1> QED
  BY <1>2, <1>3, <1>4, <1>5 DEF StorageInv

LEMMA StorageFinishCancelKeeps ==
  ASSUME StorageConstants, StorageInv, Storage!op # None, Storage!op.phase \in StorageEarly, Storage!FinishCancel,
         UNCHANGED <<disk, library, near, permit, cancelled, boot>>
  PROVE  StorageInv'
<1>1. job' \in Storage!Jobs /\ job'.at = "none"
  BY DEF Storage!FinishCancel, Storage!Idle, Storage!Jobs
<1> QED
  BY <1>1, StorageWithdrawnKeeps DEF Storage!FinishCancel, StorageInv, StorageTypes

LEMMA StorageFreshTypes ==
  ASSUME StorageConstants, StorageTypes, NEW target \in Roots, NEW merge \in BOOLEAN
  PROVE  LET p == Storage!Fresh(target, merge) IN
         /\ p \in Storage!Operations /\ p # None /\ p.phase = "waiting" /\ p.merge = merge
         /\ p.generation = control.generation /\ p.source = control.active
         /\ p.target = target
<1>1. Storage!NoFiles \in [Files -> Storage!Entries] /\ Storage!NoFiles \in [Files -> Storage!Data \cup {None}]
  BY DEF Storage!NoFiles, Storage!Entries
<1>2. [f \in Files |-> [id |-> None, temp |-> None, done |-> FALSE]] \in [Files -> Storage!ItemStates]
  BY DEF Storage!ItemStates
<1> DEFINE p == Storage!Fresh(target, merge)
           none == [f \in Files |-> [id |-> None, temp |-> None, done |-> FALSE]]
<1>3. p = [phase |-> "waiting", merge |-> merge, generation |-> control.generation,
           source |-> control.active, target |-> target, error |-> "none",
           inv |-> Storage!NoFiles, kept |-> Storage!NoFiles, payload |-> Storage!NoFiles, item |-> none]
  BY DEF Storage!Fresh
<1> HIDE DEF p, none
<1>4. p \in Storage!Operations
  BY <1>1, <1>2, <1>3, StorageControlTypes DEF Storage!Operations, none
<1>5. p # None
  BY <1>4 DEF StorageConstants
<1> QED
  BY <1>3, <1>4, <1>5 DEF p

LEMMA StorageStarts == StorageConstants /\ Storage!Init => StorageInv
<1> SUFFICES ASSUME StorageConstants, Storage!Init PROVE StorageInv
  OBVIOUS
<1>1. /\ control.active = First /\ control.generation = 0 /\ Storage!op = None
      /\ control.receipts = {} /\ control.copies = {}
      /\ job.at = "none" /\ permit = FALSE
  BY DEF Storage!Init, Storage!op, Storage!Idle
<1>2. StorageTypes
  <2>1. 0 \in Storage!Data /\ Storage!Other \in Storage!Data
    BY DEF Storage!Data, Storage!Other, StorageConstants
  <2>2. \A r \in Roots, d \in Storage!Data : Storage!Entry(r, "written", d) \in Storage!Entries
    BY DEF Storage!Entry, Storage!Entries, Storage!Id, Storage!Ids
  <2>3. disk \in [Roots -> [Files -> Storage!Entries]]
    <3>1. PICK before \in SUBSET Files :
            disk = [r \in Roots |-> [f \in Files |->
                      IF r = First THEN Storage!Entry(r, "written", 0)
                      ELSE IF f \in before THEN Storage!Entry(r, "written", Storage!Other) ELSE None]]
      BY DEF Storage!Init
    <3>2. \A r \in Roots, f \in Files :
            (IF r = First THEN Storage!Entry(r, "written", 0)
             ELSE IF f \in before THEN Storage!Entry(r, "written", Storage!Other) ELSE None) \in Storage!Entries
      BY <2>1, <2>2 DEF Storage!Entries
    <3> QED
      BY <3>1, <3>2
  <2>4. library \in [Files -> Storage!Data]
    BY <2>1 DEF Storage!Init
  <2>5. control \in StorageControls
    BY DEF Storage!Init, StorageControls, StorageConstants
  <2>6. job \in Storage!Jobs
    BY DEF Storage!Init, Storage!Idle, Storage!Jobs
  <2>7. near \in BOOLEAN /\ permit = FALSE /\ cancelled = FALSE /\ boot = 0
    BY DEF Storage!Init
  <2>8. boot \in 0..MaxGeneration
    BY <2>7 DEF StorageConstants
  <2> QED
    BY <2>3, <2>4, <2>5, <2>6, <2>7, <2>8 DEF StorageTypes
<1>3. StorageHeld
  <2>1. \A f \in Files : disk[First][f] = Storage!Entry(First, "written", 0)
    BY DEF Storage!Init, StorageConstants
  <2>2. Storage!Entry(First, "written", 0).data = 0 /\ Storage!Entry(First, "written", 0) # None
    <3>1. 0 \in Storage!Data
      BY DEF Storage!Data, Storage!Other, StorageConstants
    <3> QED
      BY <3>1 DEF Storage!Entry, Storage!Id, Storage!Ids, StorageConstants
  <2>3. \A f \in Files : library[f] = 0
    BY DEF Storage!Init
  <2> QED
    BY <1>1, <2>1, <2>2, <2>3 DEF StorageHeld
<1> QED
  BY <1>1, <1>2, <1>3
     DEF StorageInv, StoragePendingSound, StorageCopiesSound, StoragePermitEarly, StorageWaits,
         StorageSteps, StoragePublishing, StorageMergingWell


-----------------------------------------------------------------------------
(* The user, and what begins a migration.                                   *)

LEMMA StorageAcquireKeeps ==
  ASSUME StorageConstants, StorageInv, Storage!Acquire
  PROVE  StorageInv'
<1>1. job.at = "none" /\ Storage!op = None
  BY DEF Storage!Acquire, Storage!Idle, Storage!op
<1> QED
  BY <1>1
     DEF Storage!Acquire, StorageInv, StorageTypes, StoragePendingSound, StorageCopiesSound,
         StorageSound, StoragePlanned, StoragePermitEarly, StorageWaits, StorageSteps,
         StoragePublishing, StorageMergingWell, StorageHeld, Storage!op

LEMMA StorageReleaseKeeps ==
  ASSUME StorageConstants, StorageInv, Storage!Release
  PROVE  StorageInv'
<1>1. UNCHANGED <<disk, library, near, control, job, cancelled, boot>> /\ permit' = FALSE
  BY DEF Storage!Release
<1>2. StorageTypes' /\ StoragePermitEarly' /\ StorageWaits' /\ StorageHeld'
  BY <1>1
     DEF StorageInv, StorageTypes, StoragePermitEarly, StorageWaits, StorageHeld, Storage!op
<1>3. StoragePendingSound' /\ StorageCopiesSound'
  BY <1>1
     DEF StorageInv, StoragePendingSound, StorageCopiesSound, StorageSound, StoragePlanned,
         Storage!op
<1>4. StorageSteps' /\ StoragePublishing' /\ StorageMergingWell'
  BY <1>1
     DEF StorageInv, StorageSteps, StoragePublishing, StorageMergingWell, StorageMerges,
         Storage!Names, Storage!op
<1> QED
  BY <1>2, <1>3, <1>4 DEF StorageInv

LEMMA StorageWriteKeeps ==
  ASSUME StorageConstants, StorageInv, NEW f \in Files, Storage!Write(f)
  PROVE  StorageInv'
<1>1. PICK d \in 1..MaxWrites :
        /\ disk' = [disk EXCEPT ![control.active][f] = Storage!Entry(control.active, "written", d)]
        /\ library' = [library EXCEPT ![f] = d]
  BY DEF Storage!Write
<1>2. UNCHANGED <<near, control, job, permit, cancelled, boot>> /\ permit
  BY DEF Storage!Write
<1> DEFINE e == Storage!Entry(control.active, "written", d)
           files == [disk[control.active] EXCEPT ![f] = e]
<1>3. d \in Storage!Data
  BY DEF Storage!Data, Storage!Other, StorageConstants
<1>4. e \in Storage!Entries /\ e # None /\ e.data = d
  BY <1>3, StorageControlTypes
     DEF StorageInv, Storage!Entry, Storage!Entries, Storage!Id, Storage!Ids, StorageConstants
<1> HIDE DEF e
<1>5. disk' = [disk EXCEPT ![control.active] = files]
  BY <1>1, StorageControlTypes DEF StorageInv, StorageTypes, e
<1>6. StorageTypes'
  BY <1>1, <1>2, <1>3, <1>4, <1>5, StorageControlTypes DEF StorageInv, StorageTypes
<1>7. Storage!op # None => Storage!op.phase \in StorageEarly
  BY <1>2 DEF StorageInv, StoragePermitEarly
<1>8. StorageHeld'
  BY <1>1, <1>2, <1>4, <1>5, <1>7, StorageControlTypes
     DEF StorageInv, StorageHeld, StorageTypes, StorageEarly, Storage!op
<1> HIDE DEF files
<1>9. StoragePendingSound' /\ StorageCopiesSound' /\ StoragePermitEarly' /\ StorageWaits' /\ StorageSteps'
  BY <1>2
     DEF StorageInv, StoragePendingSound, StorageCopiesSound, StorageSound, StoragePlanned,
         StoragePermitEarly, StorageWaits, StorageSteps, Storage!Names, Storage!op
<1>10. StoragePublishing' /\ StorageMergingWell'
  BY <1>2, <1>7 DEF StoragePublishing, StorageMergingWell, StorageEarly, Storage!op
<1> QED
  BY <1>6, <1>8, <1>9, <1>10 DEF StorageInv

LEMMA StorageChooseKeeps ==
  ASSUME StorageConstants, StorageInv, NEW target \in Roots, NEW merge \in BOOLEAN, Storage!Choose(target, merge)
  PROVE  StorageInv'
<1> DEFINE p == Storage!Fresh(target, merge)
<1>1. /\ p \in Storage!Operations /\ p # None /\ p.phase = "waiting" /\ p.merge = merge
      /\ p.generation = control.generation /\ p.source = control.active /\ p.target = target
  BY StorageFreshTypes DEF StorageInv
<1>2. /\ job = Storage!Idle /\ Storage!op = None /\ target # control.active
      /\ control.generation < MaxGeneration /\ Storage!Persist(p)
      /\ job' = Storage!Wait("scan") /\ cancelled' = FALSE
      /\ UNCHANGED <<disk, library, near, permit, boot>>
  BY DEF Storage!Choose
<1> HIDE DEF p
<1>3. /\ control' \in StorageControls /\ Storage!op' = p
      /\ control'.active = control.active /\ control'.generation = control.generation
      /\ control'.copies = control.copies
  BY <1>1, <1>2, StoragePersistTypes DEF StorageInv
<1>4. job' \in Storage!Jobs /\ job'.at = "wait" /\ job'.next = "scan"
  BY <1>2 DEF Storage!Wait, Storage!Idle, Storage!Jobs
<1>5. StorageTypes'
  BY <1>2, <1>3, <1>4 DEF StorageInv, StorageTypes
<1>6. StoragePendingSound'
  BY <1>1, <1>2, <1>3 DEF StoragePendingSound, StorageSound
<1>7. StorageCopiesSound'
  BY <1>3 DEF StorageInv, StorageCopiesSound, StorageSound, StoragePlanned
<1>8. StoragePermitEarly' /\ StorageWaits' /\ StorageSteps' /\ StoragePublishing' /\ StorageMergingWell'
  BY <1>1, <1>2, <1>3, <1>4
     DEF StoragePermitEarly, StorageWaits, StorageSteps, StoragePublishing, StorageMergingWell,
         StorageEarly
<1>9. StorageHeld'
  BY <1>1, <1>2, <1>3 DEF StorageInv, StorageHeld
<1> QED
  BY <1>5, <1>6, <1>7, <1>8, <1>9 DEF StorageInv

\* What the steps that leave the operation alone keep.
LEMMA StorageCommandKeeps ==
  ASSUME StorageConstants, StorageInv, UNCHANGED <<disk, library, near, control, permit, boot>>,
         cancelled' \in BOOLEAN, job' \in Storage!Jobs, permit => job'.at \in {"none", "wait"},
         StorageWaits', StorageSteps'
  PROVE  StorageInv'
<1>1. StorageTypes' /\ StoragePermitEarly' /\ StorageHeld'
  BY DEF StorageInv, StorageTypes, StoragePermitEarly, StorageHeld, Storage!op
<1>2. StoragePendingSound' /\ StorageCopiesSound'
  BY DEF StorageInv, StoragePendingSound, StorageCopiesSound, StorageSound, StoragePlanned,
         Storage!op
<1>3. StoragePublishing' /\ StorageMergingWell'
  BY DEF StorageInv, StoragePublishing, StorageMergingWell, StorageMerges, Storage!Names,
         Storage!op
<1> QED
  BY <1>1, <1>2, <1>3 DEF StorageInv

LEMMA StorageDrainedKeeps ==
  ASSUME StorageConstants, StorageInv, Storage!Drained
  PROVE  StorageInv'
<1>1. CASE cancelled
  <2>1. Storage!op = None /\ job' = Storage!Idle /\ UNCHANGED <<disk, library, near, control, permit, cancelled, boot>>
    BY <1>1 DEF Storage!Drained, StorageInv, StorageWaits
  <2>2. job' \in Storage!Jobs /\ job'.at = "none"
    BY <2>1 DEF Storage!Idle, Storage!Jobs
  <2> QED
    BY <2>1, <2>2, StorageCommandKeeps DEF StorageInv, StorageTypes, StorageWaits, StorageSteps
<1>2. CASE ~cancelled
  <2>1. /\ ~permit /\ job' = Storage!At(job.next) /\ job.at = "wait"
        /\ UNCHANGED <<disk, library, near, control, permit, cancelled, boot>>
    BY <1>2 DEF Storage!Drained
  <2>2. /\ Storage!op # None
        /\ \/ job.next = "scan" /\ Storage!op.phase = "waiting"
           \/ job.next = "verify" /\ Storage!op.phase \in StorageBegun \ {"waiting"}
    BY <1>2, <2>1 DEF StorageInv, StorageWaits
  <2>3. job' \in Storage!Jobs /\ job'.at = job.next
    BY <2>1, <2>2 DEF Storage!At, Storage!Idle, Storage!Jobs
  <2>4. StorageWaits' /\ StorageSteps'
    BY <2>1, <2>2, <2>3 DEF StorageWaits, StorageSteps, Storage!op
  <2> QED
    BY <2>1, <2>3, <2>4, StorageCommandKeeps DEF StorageInv, StorageTypes
<1> QED
  BY <1>1, <1>2

LEMMA StorageScanKeeps == ASSUME StorageConstants, StorageInv, Storage!Scan PROVE StorageInv'
<1>0. Storage!op # None /\ Storage!op.phase = "waiting" /\ job.at = "scan" /\ ~permit
  BY DEF Storage!Scan, StorageInv, StorageSteps, StoragePermitEarly
<1>1. CASE cancelled
  BY <1>0, <1>1, StorageFinishCancelKeeps DEF Storage!Scan, StorageEarly
<1>2. CASE ~cancelled
  <2> DEFINE stays == [f \in Files |-> IF Storage!op.merge THEN disk[Storage!op.target][f] ELSE None]
             items == [f \in Files |->
                        [id |-> IF Storage!op.merge /\ disk[Storage!op.target][f] # None
                                THEN disk[Storage!op.target][f].id ELSE None,
                         temp |-> None, done |-> FALSE]]
             p == [Storage!op EXCEPT !.phase = "prepared", !.error = "none",
                             !.inv = disk[Storage!op.source], !.kept = stays, !.item = items]
  <2>1. Storage!Persist(p) /\ job' = Storage!Idle /\ UNCHANGED <<disk, library, near, permit, cancelled, boot>>
    BY <1>2 DEF Storage!Scan
  <2>2. /\ disk[Storage!op.source] \in [Files -> Storage!Entries] /\ stays \in [Files -> Storage!Entries]
        /\ items \in [Files -> Storage!ItemStates]
    <3>1. \A f \in Files : disk[Storage!op.target][f] \in Storage!Entries /\ disk[Storage!op.source][f] \in Storage!Entries
      BY <1>0, StoragePendingTypes DEF StorageInv, StorageTypes
    <3>2. stays \in [Files -> Storage!Entries]
      BY <3>1 DEF Storage!Entries
    <3>3. items \in [Files -> Storage!ItemStates]
      BY <3>1 DEF Storage!ItemStates, Storage!Entries
    <3>4. disk[Storage!op.source] \in [Files -> Storage!Entries]
      BY <1>0, StoragePendingTypes DEF StorageInv, StorageTypes
    <3> QED
      BY <3>2, <3>3, <3>4
  <2>3. \A f \in Files : items[f] = [id |-> IF Storage!op.merge /\ disk[Storage!op.target][f] # None
                                           THEN disk[Storage!op.target][f].id ELSE None,
                                    temp |-> None, done |-> FALSE]
                         /\ stays[f] = IF Storage!op.merge THEN disk[Storage!op.target][f] ELSE None
    OBVIOUS
  <2> HIDE DEF stays, items
  <2>4. /\ p \in Storage!Operations /\ p.phase = "prepared" /\ p.generation = Storage!op.generation
        /\ p.merge = Storage!op.merge /\ p.source = Storage!op.source /\ p.target = Storage!op.target
        /\ p.kept = stays /\ p.item = items
    BY <1>0, <2>2, StoragePendingTypes DEF StorageInv, Storage!Operations
  <2>5. p # None
    BY <2>4 DEF StorageConstants
  <2> HIDE DEF p
  <2>6. /\ Storage!op' = p /\ control'.active = control.active /\ control'.generation = control.generation
    BY <2>1, <2>4, StoragePersistTypes DEF StorageInv
  <2>7. job' \in Storage!Jobs /\ job'.at = "none"
    BY <2>1 DEF Storage!Idle, Storage!Jobs
  <2>8. Storage!op.merge => StoragePlanned(p)
    BY <2>3, <2>4 DEF StoragePlanned
  <2>9. StoragePendingSound'
    BY <1>0, <2>4, <2>6, <2>8
       DEF StorageInv, StoragePendingSound, StorageSound, StoragePlanned, StorageBegun,
           StorageEarly
  <2>10. StorageWaits' /\ StorageSteps' /\ StoragePublishing' /\ StorageMergingWell'
    BY <2>4, <2>6, <2>7 DEF StorageWaits, StorageSteps, StoragePublishing, StorageMergingWell
  <2> QED
    BY <1>0, <2>1, <2>4, <2>7, <2>9, <2>10, StoragePersists
<1> QED
  BY <1>1, <1>2

LEMMA StorageCancelKeeps ==
  ASSUME StorageConstants, StorageInv, Storage!Cancel
  PROVE  StorageInv'
<1>1. /\ Storage!op # None /\ Storage!op.phase \in StorageEarly /\ cancelled' = TRUE
      /\ UNCHANGED <<disk, library, near, job, permit, boot>>
  BY DEF Storage!Cancel, StorageEarly
<1>2. CASE job.at \in {"none", "wait"}
  BY <1>1, <1>2, StorageWithdrawnKeeps DEF Storage!Cancel, StorageInv, StorageTypes
<1>3. CASE job.at \notin {"none", "wait"}
  <2>1. control' = control
    BY <1>3 DEF Storage!Cancel
  <2>2. StorageWaits' /\ StorageSteps'
    BY <1>1, <1>3, <2>1 DEF StorageInv, StorageWaits, StorageSteps, Storage!Names, Storage!op
  <2> QED
    BY <1>1, <1>3, <2>1, <2>2, StorageCommandKeeps
       DEF StorageInv, StorageTypes, StoragePermitEarly
<1> QED
  BY <1>2, <1>3

LEMMA StorageConfirmKeeps ==
  ASSUME StorageConstants, StorageInv, Storage!Confirm
  PROVE  StorageInv'
<1>1. /\ Storage!op # None /\ Storage!op.phase = "prepared" /\ job' = Storage!Wait("verify") /\ cancelled' = FALSE
      /\ UNCHANGED <<disk, library, near, control, permit, boot>>
  BY DEF Storage!Confirm
<1>2. job' \in Storage!Jobs /\ job'.at = "wait" /\ job'.next = "verify"
  BY <1>1 DEF Storage!Wait, Storage!Idle, Storage!Jobs
<1>3. StorageWaits' /\ StorageSteps'
  BY <1>1, <1>2 DEF StorageWaits, StorageSteps, Storage!op, StorageBegun, StorageEarly
<1> QED
  BY <1>1, <1>2, <1>3, StorageCommandKeeps


-----------------------------------------------------------------------------
(* Resuming, and copies.                                                    *)

LEMMA StorageResumeKeeps ==
  ASSUME StorageConstants, StorageInv, NEW p \in control.copies \cup ({Storage!op} \ {None}), Storage!Resume(p)
  PROVE  StorageInv'
<1> DEFINE rest == control.copies \ {p}
           anew == p.phase # "waiting" /\ p.phase \notin {"merging", "publishing"}
                     /\ (Storage!Changed(p) \/ p.error = "SourceChanged")
           fresh == Storage!Fresh(p.target, p.merge)
           q == IF anew THEN fresh ELSE p
           copies == IF anew THEN rest \cup {p} ELSE rest
<1>1. /\ job = Storage!Idle /\ cancelled' = FALSE
      /\ p \in control.copies => Storage!op = None /\ p.generation = control.generation
      /\ p.phase \in StorageBegun
      /\ UNCHANGED <<disk, library, near, permit, boot>>
  BY DEF Storage!Resume, StorageBegun, StorageEarly
<1>2. control' = [control EXCEPT !.pending = q, !.copies = copies]
  BY DEF Storage!Resume
<1>3. job' = IF anew \/ p.phase = "waiting" THEN Storage!Wait("scan")
             ELSE IF p.phase = "prepared" THEN Storage!Idle ELSE Storage!Wait("verify")
  BY DEF Storage!Resume
<1>4. p \in Storage!Operations /\ p # None
  BY StorageControlTypes DEF StorageInv, StorageConstants, Storage!op
<1>5. /\ p.generation = control.generation /\ StorageSound(p)
      /\ p \notin control.copies => Storage!op # None /\ p = Storage!op
  BY <1>1 DEF StorageInv, StoragePendingSound, StorageCopiesSound
<1>6. p.target \in Roots /\ p.merge \in BOOLEAN
  BY <1>4 DEF Storage!Operations
<1>7. /\ fresh \in Storage!Operations /\ fresh # None /\ fresh.phase = "waiting" /\ fresh.merge = p.merge
      /\ fresh.generation = control.generation /\ fresh.source = control.active
      /\ fresh.target = p.target
  BY <1>6, StorageFreshTypes DEF StorageInv
<1> HIDE DEF fresh
<1>8. q \in Storage!Operations /\ q # None /\ copies \in SUBSET Storage!Operations
  BY <1>4, <1>7, StorageControlTypes DEF StorageInv
<1>9. anew => p.phase \in StorageEarly
  BY <1>1 DEF StorageBegun, StorageEarly
<1>10. CASE anew
  <2>1. q = fresh /\ copies \subseteq control.copies \cup {p} /\ p.phase \in StorageEarly
    BY <1>9, <1>10
  <2> HIDE DEF anew, q, copies
  <2>2. /\ control' \in StorageControls /\ Storage!op' = fresh /\ control'.active = control.active
        /\ control'.generation = control.generation /\ control'.copies = copies
    BY <1>2, <1>8, <2>1, StorageControlTypes DEF StorageInv, StorageControls, Storage!op
  <2>3. job' \in Storage!Jobs /\ job'.at = "wait" /\ job'.next = "scan"
    BY <1>3, <1>10 DEF Storage!Wait, Storage!Idle, Storage!Jobs
  <2>4. StorageTypes'
    BY <1>1, <2>2, <2>3 DEF StorageInv, StorageTypes
  <2>5. StoragePendingSound'
    BY <1>5, <1>7, <2>2 DEF StoragePendingSound, StorageSound
  <2>6. StorageCopiesSound'
    <3>1. p.phase \in StorageEarly /\ p.generation <= control.generation /\ StorageSound(p)
      BY <1>5, <2>1, StorageControlTypes DEF StorageInv
    <3> QED
      BY <2>1, <2>2, <3>1 DEF StorageInv, StorageCopiesSound, StorageSound, StoragePlanned
  <2>7. StoragePermitEarly' /\ StorageWaits' /\ StorageSteps' /\ StoragePublishing' /\ StorageMergingWell'
    BY <1>1, <1>7, <2>2, <2>3
       DEF StoragePermitEarly, StorageWaits, StorageSteps, StoragePublishing,
           StorageMergingWell, StorageEarly
  <2>8. StorageHeld'
    <3>1. Storage!op = None \/ Storage!op.phase # "merging"
      BY <1>1, <1>5, <2>1 DEF StorageEarly
    <3> QED
      BY <1>1, <2>2, <3>1 DEF StorageInv, StorageHeld
  <2> QED
    BY <2>4, <2>5, <2>6, <2>7, <2>8 DEF StorageInv
<1>11. CASE ~anew
  <2>1. q = p /\ copies \subseteq control.copies
    BY <1>11
  <2>2. \/ p.phase = "waiting" /\ job' = Storage!Wait("scan")
        \/ p.phase = "prepared" /\ job' = Storage!Idle
        \/ p.phase \in StorageBegun \ {"waiting"} /\ job' = Storage!Wait("verify")
    BY <1>1, <1>3, <1>11
  <2> HIDE DEF anew, q, copies
  <2>3. /\ control' \in StorageControls /\ Storage!op' = p /\ control'.active = control.active
        /\ control'.generation = control.generation /\ control'.copies = copies
    BY <1>2, <1>8, <2>1, StorageControlTypes DEF StorageInv, StorageControls, Storage!op
  <2>4. /\ job' \in Storage!Jobs /\ job'.at \in {"none", "wait"}
        /\ job'.at = "wait" => \/ p.phase = "waiting" /\ job'.next = "scan"
                               \/ p.phase \in StorageBegun \ {"waiting"} /\ job'.next = "verify"
    <3>1. Storage!Idle \in Storage!Jobs /\ Storage!Idle.at = "none"
      BY DEF Storage!Idle, Storage!Jobs
    <3>2. \A next \in {"scan", "verify"} :
            Storage!Wait(next) \in Storage!Jobs /\ Storage!Wait(next).at = "wait" /\ Storage!Wait(next).next = next
      BY DEF Storage!Wait, Storage!Idle, Storage!Jobs
    <3> QED
      BY <2>2, <3>1, <3>2
  <2>5. StorageTypes'
    BY <1>1, <2>3, <2>4 DEF StorageInv, StorageTypes
  <2>6. StoragePendingSound'
    BY <1>5, <2>3 DEF StoragePendingSound, StorageSound, StoragePlanned
  <2>7. StorageCopiesSound'
    BY <2>1, <2>3 DEF StorageInv, StorageCopiesSound, StorageSound, StoragePlanned
  <2>8. StoragePermitEarly' /\ StorageWaits' /\ StorageSteps'
    BY <1>1, <1>4, <1>5, <2>3, <2>4
       DEF StorageInv, StoragePermitEarly, StorageCopiesSound, StorageWaits, StorageSteps
  <2>9. p.phase \in {"merging", "publishing"} => Storage!op # None /\ p = Storage!op
    BY <1>5 DEF StorageInv, StorageCopiesSound, StorageEarly
  <2>10. StoragePublishing' /\ StorageMergingWell'
    BY <1>1, <2>3, <2>9
       DEF StorageInv, StoragePublishing, StorageMergingWell, StorageMerges, Storage!Names
  <2>11. StorageHeld'
    <3>1. p.phase # "merging" => Storage!op = None \/ Storage!op.phase # "merging"
      BY <1>1, <1>5
    <3> QED
      BY <1>1, <2>3, <3>1, <1>4 DEF StorageInv, StorageHeld
  <2> QED
    BY <2>5, <2>6, <2>7, <2>8, <2>10, <2>11 DEF StorageInv
<1> QED
  BY <1>10, <1>11


LEMMA StorageVerifyKeeps ==
  ASSUME StorageConstants, StorageInv, Storage!Verify
  PROVE  StorageInv'
<1>0. /\ Storage!op # None /\ Storage!op.phase \in StorageBegun \ {"waiting"} /\ job.at = "verify" /\ ~permit
      /\ UNCHANGED <<disk, library, near, permit, cancelled, boot>>
  BY DEF Storage!Verify, StorageInv, StorageSteps, StoragePermitEarly
<1>1. /\ Storage!op.generation = control.generation /\ Storage!op.source = control.active
      /\ Storage!op.target # control.active /\ StorageSound(Storage!op)
  BY <1>0 DEF StorageInv, StoragePendingSound, StorageSound, StorageBegun
<1>2. CASE Storage!op.phase = "merging"
  <2>1. job' = Storage!At("merge") /\ UNCHANGED control
    BY <1>1, <1>2 DEF Storage!Verify, StorageSound
  <2>2. job' \in Storage!Jobs /\ job'.at = "merge"
    BY <2>1 DEF Storage!At, Storage!Idle, Storage!Jobs
  <2>3. StorageWaits' /\ StorageSteps'
    BY <1>0, <1>2, <2>1, <2>2 DEF StorageWaits, StorageSteps, Storage!op
  <2> QED
    BY <1>0, <2>1, <2>2, <2>3, StorageCommandKeeps DEF StorageInv, StorageTypes
<1>3. CASE Storage!op.phase # "merging" /\ cancelled /\ Storage!op.phase # "publishing"
  BY <1>0, <1>3, StorageFinishCancelKeeps DEF Storage!Verify, StorageBegun
<1>4. CASE Storage!op.phase # "merging" /\ ~(cancelled /\ Storage!op.phase # "publishing") /\ Storage!Ends("SourceChanged")
  BY <1>0, <1>4, StorageEndsKeeps
<1>5. CASE Storage!op.phase = "publishing" /\ ~Storage!Ends("SourceChanged")
  <2>1. job' = Storage!At("publish") /\ UNCHANGED control
    BY <1>1, <1>5 DEF Storage!Verify, StorageSound
  <2>2. job' \in Storage!Jobs /\ job'.at = "publish"
    BY <2>1 DEF Storage!At, Storage!Idle, Storage!Jobs
  <2>3. StorageWaits' /\ StorageSteps'
    BY <1>0, <1>5, <2>1, <2>2 DEF StorageWaits, StorageSteps, Storage!op
  <2> QED
    BY <1>0, <2>1, <2>2, <2>3, StorageCommandKeeps DEF StorageInv, StorageTypes
<1>6. CASE /\ Storage!op.phase \notin {"merging", "publishing"} /\ ~cancelled
           /\ ~Storage!op.merge /\ ~Storage!Ends("SourceChanged")
  <2> DEFINE p == [Storage!op EXCEPT !.phase = "copying", !.error = "none"]
  <2>1. Storage!Persist(p) /\ job' = Storage!At("copy")
    BY <1>6 DEF Storage!Verify
  <2>2. /\ p \in Storage!Operations /\ p.phase = "copying" /\ p.generation = Storage!op.generation
        /\ p.merge = Storage!op.merge /\ p.source = Storage!op.source /\ p.target = Storage!op.target
    BY <1>0, StoragePendingTypes DEF StorageInv, Storage!Operations
  <2>3. p # None
    BY <2>2 DEF StorageConstants
  <2> HIDE DEF p
  <2>4. Storage!op' = p /\ control'.active = control.active /\ control'.generation = control.generation
    BY <2>1, <2>2, StoragePersistTypes DEF StorageInv
  <2>5. job' \in Storage!Jobs /\ job'.at = "copy" /\ job'.done = {}
    BY <2>1 DEF Storage!At, Storage!Idle, Storage!Jobs
  <2>6. StoragePendingSound'
    BY <1>1, <1>6, <2>2, <2>4 DEF StoragePendingSound, StorageSound
  <2>7. StorageWaits' /\ StorageSteps' /\ StoragePublishing' /\ StorageMergingWell'
    BY <2>2, <2>3, <2>4, <2>5
       DEF StorageWaits, StorageSteps, StoragePublishing, StorageMergingWell
  <2> QED
    BY <1>0, <1>6, <2>1, <2>2, <2>5, <2>6, <2>7, StoragePersists
<1>7. CASE /\ Storage!op.phase \notin {"merging", "publishing"} /\ ~cancelled
           /\ Storage!op.merge /\ ~Storage!Ends("SourceChanged")
  <2> DEFINE p == [Storage!op EXCEPT !.phase = "merging", !.error = "none"]
  <2>1. /\ Storage!Persist(p) /\ job' = Storage!At("merge") /\ disk[Storage!op.source] = Storage!op.inv
        /\ \A f \in Storage!Names(Storage!op.inv) : disk[Storage!op.target][f] = Storage!op.kept[f]
    BY <1>7 DEF Storage!Verify, Storage!Changed
  <2>2. /\ p \in Storage!Operations /\ p.phase = "merging" /\ p.generation = Storage!op.generation
        /\ p.merge = Storage!op.merge /\ p.source = Storage!op.source /\ p.target = Storage!op.target
        /\ p.inv = Storage!op.inv /\ p.kept = Storage!op.kept /\ p.item = Storage!op.item /\ p.error = "none"
    BY <1>0, StoragePendingTypes DEF StorageInv, Storage!Operations
  <2>3. p # None
    BY <2>2 DEF StorageConstants
  <2> HIDE DEF p
  <2>4. Storage!op' = p /\ control'.active = control.active /\ control'.generation = control.generation
    BY <2>1, <2>2, StoragePersistTypes DEF StorageInv
  <2>5. job' \in Storage!Jobs /\ job'.at = "merge"
    BY <2>1 DEF Storage!At, Storage!Idle, Storage!Jobs
  <2>6. StoragePendingSound'
    BY <1>1, <1>7, <2>2, <2>4 DEF StoragePendingSound, StorageSound
  <2>7. StorageWaits' /\ StorageSteps' /\ StoragePublishing'
    BY <2>2, <2>3, <2>4, <2>5 DEF StorageWaits, StorageSteps, StoragePublishing
  <2>8. ASSUME NEW f \in Files PROVE StorageMerges(Storage!op, f)
    <3>1. /\ disk[Storage!op.source][f] # None /\ disk[Storage!op.source][f].data = library[f]
          /\ disk[Storage!op.source][f] = Storage!op.inv[f]
      BY <1>1, <1>7, <2>1 DEF StorageInv, StorageHeld
    <3>2. disk[Storage!op.target][f] = Storage!op.kept[f]
      BY <2>1, <3>1 DEF Storage!Names
    <3>3. Storage!op.item[f] = [id |-> IF Storage!op.kept[f] = None THEN None ELSE Storage!op.kept[f].id,
                        temp |-> None, done |-> FALSE]
      BY <1>0, <1>1, <1>7 DEF StorageSound, StoragePlanned, StorageBegun, StorageEarly
    <3>4. Storage!op.kept[f] \in Storage!Entries
      BY <1>0, StoragePendingTypes DEF StorageInv
    <3>5. Storage!op.kept[f] # None => Storage!op.kept[f].id # None
      BY <3>4 DEF Storage!Entries, StorageConstants
    <3> QED
      BY <3>1, <3>2, <3>3, <3>5 DEF StorageMerges
  <2>9. StorageMergingWell'
    BY <1>0, <2>2, <2>4, <2>8 DEF StorageMergingWell, StorageMerges
  <2> QED
    BY <1>0, <1>7, <2>1, <2>2, <2>5, <2>6, <2>7, <2>9, StoragePersists
<1> QED
  BY <1>0, <1>2, <1>3, <1>4, <1>5, <1>6, <1>7 DEF StorageInv, StorageTypes, Storage!Operations

LEMMA StorageCopyEntryKeeps ==
  ASSUME StorageConstants, StorageInv, NEW f \in Files, Storage!CopyEntry(f)
  PROVE  StorageInv'
<1>0. /\ Storage!op # None /\ Storage!op.phase = "copying" /\ job.at = "copy" /\ ~permit
      /\ f \in Storage!Names(Storage!op.inv) \ job.done /\ \A g \in job.done : Storage!op.payload[g] # None
      /\ UNCHANGED <<disk, library, near, permit, cancelled, boot>>
  BY DEF Storage!CopyEntry, StorageInv, StorageSteps, StoragePermitEarly
<1> DEFINE j == [job EXCEPT !.done = @ \cup {f}]
<1>1. j \in Storage!Jobs /\ j.at = "copy" /\ j.done = job.done \cup {f}
  BY <1>0 DEF StorageInv, StorageTypes, Storage!Jobs
<1> HIDE DEF j
<1>2. CASE cancelled
  BY <1>0, <1>2, StorageFinishCancelKeeps DEF Storage!CopyEntry, StorageEarly
<1>3. CASE ~cancelled /\ Storage!op.payload[f] # None
  <2>1. job' = j /\ UNCHANGED control
    BY <1>3 DEF Storage!CopyEntry, j
  <2>2. StorageWaits' /\ StorageSteps'
    BY <1>0, <1>1, <1>3, <2>1 DEF StorageWaits, StorageSteps, Storage!op
  <2> QED
    BY <1>0, <1>1, <2>1, <2>2, StorageCommandKeeps DEF StorageInv, StorageTypes
<1>4. CASE ~cancelled /\ Storage!op.payload[f] = None /\ disk[Storage!op.source][f] # Storage!op.inv[f]
  BY <1>0, <1>4, StorageEndsKeeps DEF Storage!CopyEntry
<1>5. CASE ~cancelled /\ Storage!op.payload[f] = None /\ disk[Storage!op.source][f] = Storage!op.inv[f]
  <2> DEFINE d == disk[Storage!op.source][f].data
             payload == [Storage!op.payload EXCEPT ![f] = d]
             p == [Storage!op EXCEPT !.payload = payload]
  <2>1. d \in Storage!Data /\ d # None
    <3>1. disk[Storage!op.source][f] \in [data : Storage!Data, id : Storage!Ids]
      BY <1>0, <1>5, StoragePendingTypes DEF StorageInv, Storage!Names, Storage!Entries
    <3> QED
      BY <3>1 DEF StorageConstants
  <2>2. Storage!Persist(p) /\ job' = j
    BY <1>0, <1>5, StoragePendingTypes DEF Storage!CopyEntry, j, StorageInv, Storage!Operations
  <2>3. payload \in [Files -> Storage!Data \cup {None}] /\ payload[f] # None
        /\ \A g \in Files : Storage!op.payload[g] # None => payload[g] # None
    BY <1>0, <2>1, StoragePendingTypes DEF StorageInv
  <2> HIDE DEF d, payload
  <2>4. /\ p \in Storage!Operations /\ p.phase = "copying" /\ p.generation = Storage!op.generation
        /\ p.merge = Storage!op.merge /\ p.source = Storage!op.source /\ p.target = Storage!op.target
        /\ p.payload = payload
    BY <1>0, <2>3, StoragePendingTypes DEF StorageInv, Storage!Operations
  <2>5. p # None
    BY <2>4 DEF StorageConstants
  <2> HIDE DEF p
  <2>6. Storage!op' = p /\ control'.active = control.active /\ control'.generation = control.generation
    BY <2>2, <2>4, StoragePersistTypes DEF StorageInv
  <2>7. StoragePendingSound'
    BY <1>0, <2>4, <2>6
       DEF StorageInv, StoragePendingSound, StorageSound, StorageBegun, StorageEarly
  <2>8. job.done \subseteq Files
    BY DEF StorageInv, StorageTypes, Storage!Jobs
  <2>9. StorageWaits' /\ StorageSteps' /\ StoragePublishing' /\ StorageMergingWell'
    BY <1>0, <1>1, <2>2, <2>3, <2>4, <2>5, <2>6, <2>8
       DEF StorageWaits, StorageSteps, StoragePublishing, StorageMergingWell
  <2> QED
    BY <1>0, <1>1, <2>2, <2>4, <2>7, <2>9, StoragePersists
<1> QED
  BY <1>2, <1>3, <1>4, <1>5

LEMMA StorageCopiedKeeps ==
  ASSUME StorageConstants, StorageInv, Storage!Copied
  PROVE  StorageInv'
<1>0. /\ Storage!op # None /\ Storage!op.phase = "copying" /\ job.at = "copy" /\ ~permit
      /\ \A f \in Storage!Names(Storage!op.inv) : Storage!op.payload[f] # None
      /\ UNCHANGED <<disk, library, near, permit, cancelled, boot>>
  BY DEF Storage!Copied, StorageInv, StorageSteps, StoragePermitEarly
<1> DEFINE p == [Storage!op EXCEPT !.phase = "verifying"]
<1>1. Storage!Persist(p) /\ job' = Storage!At("check")
  BY DEF Storage!Copied
<1>2. /\ p \in Storage!Operations /\ p.phase = "verifying" /\ p.generation = Storage!op.generation
      /\ p.merge = Storage!op.merge /\ p.source = Storage!op.source /\ p.target = Storage!op.target
      /\ p.payload = Storage!op.payload /\ p.inv = Storage!op.inv
  BY <1>0, StoragePendingTypes DEF StorageInv, Storage!Operations
<1>3. p # None
  BY <1>2 DEF StorageConstants
<1> HIDE DEF p
<1>4. Storage!op' = p /\ control'.active = control.active /\ control'.generation = control.generation
  BY <1>1, <1>2, StoragePersistTypes DEF StorageInv
<1>5. job' \in Storage!Jobs /\ job'.at = "check"
  BY <1>1 DEF Storage!At, Storage!Idle, Storage!Jobs
<1>6. StoragePendingSound'
  BY <1>0, <1>2, <1>4
     DEF StorageInv, StoragePendingSound, StorageSound, StorageBegun, StorageEarly
<1>7. StorageWaits' /\ StorageSteps' /\ StoragePublishing' /\ StorageMergingWell'
  BY <1>0, <1>2, <1>3, <1>4, <1>5
     DEF StorageWaits, StorageSteps, StoragePublishing, StorageMergingWell, Storage!Names
<1> QED
  BY <1>0, <1>1, <1>2, <1>5, <1>6, <1>7, StoragePersists

LEMMA StorageCheckedKeeps ==
  ASSUME StorageConstants, StorageInv, Storage!Checked
  PROVE  StorageInv'
<1>0. /\ Storage!op # None /\ Storage!op.phase = "verifying" /\ job.at = "check" /\ ~permit
      /\ \A f \in Storage!Names(Storage!op.inv) : Storage!op.payload[f] # None
      /\ UNCHANGED <<disk, library, near, permit, cancelled, boot>>
  BY DEF Storage!Checked, StorageInv, StorageSteps, StoragePermitEarly
<1>1. CASE cancelled
  BY <1>0, <1>1, StorageFinishCancelKeeps DEF Storage!Checked, StorageEarly
<1>2. CASE ~cancelled /\ Storage!Changed(Storage!op)
  BY <1>0, <1>2, StorageEndsKeeps DEF Storage!Checked
<1>3. CASE ~cancelled /\ ~Storage!Changed(Storage!op)
  <2> DEFINE p == [Storage!op EXCEPT !.phase = "publishing"]
  <2>1. Storage!Persist(p) /\ job' = Storage!At("publish") /\ disk[Storage!op.source] = Storage!op.inv
    BY <1>3 DEF Storage!Checked, Storage!Changed
  <2>2. /\ p \in Storage!Operations /\ p.phase = "publishing" /\ p.generation = Storage!op.generation
        /\ p.merge = Storage!op.merge /\ p.source = Storage!op.source /\ p.target = Storage!op.target
        /\ p.payload = Storage!op.payload /\ p.inv = Storage!op.inv
    BY <1>0, StoragePendingTypes DEF StorageInv, Storage!Operations
  <2>3. p # None
    BY <2>2 DEF StorageConstants
  <2> HIDE DEF p
  <2>4. Storage!op' = p /\ control'.active = control.active /\ control'.generation = control.generation
    BY <2>1, <2>2, StoragePersistTypes DEF StorageInv
  <2>5. job' \in Storage!Jobs /\ job'.at = "publish"
    BY <2>1 DEF Storage!At, Storage!Idle, Storage!Jobs
  <2>6. StoragePendingSound'
    BY <1>0, <2>2, <2>4
       DEF StorageInv, StoragePendingSound, StorageSound, StorageBegun, StorageEarly
  <2>7. StorageWaits' /\ StorageSteps' /\ StorageMergingWell'
    BY <2>2, <2>3, <2>4, <2>5 DEF StorageWaits, StorageSteps, StorageMergingWell
  <2>8. StoragePublishing'
    BY <1>0, <2>1, <2>2, <2>4 DEF StoragePublishing, Storage!Names
  <2> QED
    BY <1>0, <2>1, <2>2, <2>5, <2>6, <2>7, <2>8, StoragePersists
<1> QED
  BY <1>1, <1>2, <1>3


LEMMA StoragePublishEntryKeeps ==
  ASSUME StorageConstants, StorageInv, NEW f \in Files, Storage!PublishEntry(f)
  PROVE  StorageInv'
<1>0. /\ Storage!op # None /\ Storage!op.phase = "publishing" /\ job.at = "publish" /\ ~permit
      /\ f \in Storage!Names(Storage!op.inv) \ job.done /\ Storage!op.target # Storage!op.source
      /\ Storage!op.source = control.active
      /\ UNCHANGED <<library, near, permit, cancelled, boot>>
  BY DEF Storage!PublishEntry, StorageInv, StorageSteps, StoragePermitEarly,
         StoragePendingSound, StorageSound, StorageBegun
<1> DEFINE j == [job EXCEPT !.done = @ \cup {f}]
<1>1. j \in Storage!Jobs /\ j.at = "publish"
  BY <1>0 DEF StorageInv, StorageTypes, Storage!Jobs
<1> HIDE DEF j
<1>2. CASE disk[Storage!op.target][f] # None /\ Storage!op.payload[f] # None
  <2>1. Storage!Ends("failed") /\ UNCHANGED disk
    BY <1>2 DEF Storage!PublishEntry
  <2> QED
    BY <1>0, <2>1, StorageEndsKeeps
<1>3. CASE disk[Storage!op.target][f] # None /\ Storage!op.payload[f] = None
  <2>1. job' = j /\ UNCHANGED <<disk, control>>
    BY <1>3 DEF Storage!PublishEntry, j
  <2>2. StorageWaits' /\ StorageSteps'
    BY <1>0, <1>1, <2>1 DEF StorageWaits, StorageSteps, Storage!op
  <2> QED
    BY <1>0, <1>1, <2>1, <2>2, StorageCommandKeeps DEF StorageInv, StorageTypes
<1>4. CASE disk[Storage!op.target][f] = None
  <2> DEFINE e == Storage!Entry(Storage!op.target, "copied", Storage!op.payload[f])
             files == [disk[Storage!op.target] EXCEPT ![f] = e]
             payload == [Storage!op.payload EXCEPT ![f] = None]
             p == [Storage!op EXCEPT !.payload = payload]
  <2>0. /\ Storage!op.target \in Roots /\ Storage!op.source \in Roots /\ Storage!op.payload \in [Files -> Storage!Data \cup {None}]
        /\ Storage!op.inv \in [Files -> Storage!Entries] /\ disk \in [Roots -> [Files -> Storage!Entries]]
    BY <1>0, StoragePendingTypes DEF StorageInv, StorageTypes
  <2>1. Storage!op.payload[f] \in Storage!Data
    BY <1>0, <1>4, <2>0 DEF StorageInv, StoragePublishing
  <2>2. e \in Storage!Entries /\ e # None
    BY <2>0, <2>1 DEF Storage!Entry, Storage!Entries, Storage!Id, Storage!Ids, StorageConstants
  <2>3. disk' = [disk EXCEPT ![Storage!op.target] = files] /\ Storage!Persist(p) /\ job' = j
    BY <1>4, <2>0, StoragePendingTypes
       DEF Storage!PublishEntry, j, StorageInv, StorageTypes, Storage!Operations
  <2>4. payload \in [Files -> Storage!Data \cup {None}]
        /\ \A g \in Files : Storage!op.payload[g] # None /\ g # f => payload[g] # None
    BY <2>0
  <2> HIDE DEF e, payload
  <2>5. /\ p \in Storage!Operations /\ p.phase = "publishing" /\ p.generation = Storage!op.generation
        /\ p.merge = Storage!op.merge /\ p.source = Storage!op.source /\ p.target = Storage!op.target
        /\ p.payload = payload /\ p.inv = Storage!op.inv
    BY <1>0, <2>4, StoragePendingTypes DEF StorageInv, Storage!Operations
  <2>6. p # None
    BY <2>5 DEF StorageConstants
  <2> HIDE DEF p
  <2>7. /\ control' \in StorageControls /\ Storage!op' = p
        /\ control'.active = control.active /\ control'.generation = control.generation
        /\ control'.copies = control.copies
    BY <2>3, <2>5, StoragePersistTypes DEF StorageInv
  <2>8. /\ disk' \in [Roots -> [Files -> Storage!Entries]] /\ disk'[Storage!op.source] = disk[Storage!op.source]
        /\ \A g \in Files : disk[Storage!op.target][g] # None \/ g = f => disk'[Storage!op.target][g] # None
    BY <1>0, <2>0, <2>2, <2>3
  <2> HIDE DEF files
  <2>9. StorageTypes'
    BY <1>0, <1>1, <2>3, <2>7, <2>8 DEF StorageInv, StorageTypes
  <2>10. StoragePendingSound' /\ StorageCopiesSound'
    BY <1>0, <2>5, <2>7
       DEF StorageInv, StoragePendingSound, StorageCopiesSound, StorageSound, StoragePlanned,
           StorageBegun
  <2>11. StoragePermitEarly' /\ StorageWaits' /\ StorageSteps' /\ StorageMergingWell'
    BY <1>0, <1>1, <2>3, <2>5, <2>6, <2>7
       DEF StoragePermitEarly, StorageWaits, StorageSteps, StorageMergingWell
  <2>12. StoragePublishing'
    BY <1>0, <2>0, <2>4, <2>5, <2>7, <2>8 DEF StorageInv, StoragePublishing, Storage!Names
  <2>13. StorageHeld'
    BY <1>0, <2>7, <2>8 DEF StorageInv, StorageHeld
  <2> QED
    BY <2>9, <2>10, <2>11, <2>12, <2>13 DEF StorageInv
<1> QED
  BY <1>2, <1>3, <1>4

\* The control file names the target once the target holds the library.
LEMMA StorageCommittedKeeps ==
  ASSUME StorageConstants, StorageInv, Storage!op # None, Storage!op.phase \in {"publishing", "merging"}, ~permit,
         NEW receipts \in SUBSET Storage!Receipts, Storage!Committed(receipts), job' = Storage!Idle,
         library' \in [Files -> Storage!Data],
         \A f \in Files : disk[Storage!op.target][f] # None /\ disk[Storage!op.target][f].data = library'[f],
         UNCHANGED <<disk, near, permit, cancelled, boot>>
  PROVE  StorageInv'
<1> DEFINE p == [Storage!op EXCEPT !.phase = "restart_required", !.error = "none"]
           n == control.generation + 1
<1>1. p \in Storage!Operations /\ p.phase = "restart_required" /\ p # None /\ Storage!op.target \in Roots
  <2>1. p \in Storage!Operations /\ p.phase = "restart_required" /\ Storage!op.target \in Roots
    BY StoragePendingTypes DEF StorageInv, Storage!Operations
  <2> QED
    BY <2>1 DEF StorageConstants
<1>2. Storage!op.generation = control.generation /\ Storage!op.generation < MaxGeneration
  BY DEF StorageInv, StoragePendingSound, StorageSound, StorageBegun
<1>3. n \in 0..MaxGeneration /\ control.generation \in Nat /\ n > control.generation
  BY <1>2, StorageControlTypes DEF StorageInv, StorageConstants
<1>4. control' = [control EXCEPT !.active = Storage!op.target, !.generation = n,
                                 !.receipts = receipts, !.pending = p]
  BY DEF Storage!Committed
<1> HIDE DEF p, n
<1>5. /\ control' \in StorageControls /\ Storage!op' = p /\ control'.active = Storage!op.target
      /\ control'.generation = n /\ control'.copies = control.copies
  BY <1>1, <1>3, <1>4 DEF StorageInv, StorageTypes, StorageControls, Storage!op
<1>6. job' \in Storage!Jobs /\ job'.at = "none"
  BY DEF Storage!Idle, Storage!Jobs
<1>7. StorageTypes'
  BY <1>5, <1>6 DEF StorageInv, StorageTypes
<1>8. StorageCopiesSound'
  <2> SUFFICES ASSUME NEW q \in control.copies
               PROVE  q.phase \in StorageEarly /\ q.generation <= n
                      /\ q.generation < MaxGeneration /\ q.generation # n
                      /\ (q.phase = "merging" => q.merge)
                      /\ (q.phase \in {"copying", "verifying", "publishing"} => ~q.merge)
                      /\ (q.merge /\ q.phase = "prepared" => StoragePlanned(q))
    BY <1>5 DEF StorageCopiesSound, StorageSound, StoragePlanned
  <2>1. q.generation \in Nat
    BY StorageControlTypes DEF StorageInv, Storage!Operations, StorageConstants
  <2> QED
    BY <1>3, <2>1 DEF StorageInv, StorageCopiesSound, StorageSound
<1>9. StoragePendingSound' /\ StoragePermitEarly' /\ StorageWaits' /\ StorageSteps' /\ StoragePublishing' /\ StorageMergingWell'
  BY <1>1, <1>5, <1>6
     DEF StoragePendingSound, StoragePermitEarly, StorageWaits, StorageSteps, StoragePublishing,
         StorageMergingWell, StorageBegun, StorageEarly
<1>10. StorageHeld'
  BY <1>5 DEF StorageHeld
<1> QED
  BY <1>7, <1>8, <1>9, <1>10 DEF StorageInv

LEMMA StoragePublishedKeeps ==
  ASSUME StorageConstants, StorageInv, Storage!Published
  PROVE  StorageInv'
<1>0. /\ Storage!op # None /\ Storage!op.phase = "publishing" /\ job.at = "publish" /\ ~permit
      /\ Storage!op.source = control.active
      /\ UNCHANGED <<disk, library, near, permit, cancelled, boot>>
  BY DEF Storage!Published, StorageInv, StorageSteps, StoragePermitEarly, StoragePendingSound,
         StorageSound, StorageBegun
<1> DEFINE same == \A f \in Files :
             IF Storage!op.inv[f] = None THEN disk[Storage!op.target][f] = None
             ELSE disk[Storage!op.target][f] # None /\ disk[Storage!op.target][f].data = Storage!op.inv[f].data
<1>1. CASE ~same
  BY <1>0, <1>1, StorageEndsKeeps DEF Storage!Published
<1>2. CASE same
  <2> DEFINE receipts == {[r EXCEPT !.at = @ \cup {Storage!op.target}] : r \in control.receipts}
                         \cup {[source |-> Storage!op.source, inv |-> Storage!op.inv, at |-> {Storage!op.target}]}
  <2>1. Storage!Committed(receipts) /\ job' = Storage!Idle
    BY <1>2 DEF Storage!Published
  <2>2. /\ Storage!op.target \in Roots /\ Storage!op.source \in Roots /\ Storage!op.inv \in [Files -> Storage!Entries]
        /\ control.receipts \in SUBSET Storage!Receipts
    BY <1>0, StoragePendingTypes, StorageControlTypes DEF StorageInv
  <2>3. receipts \in SUBSET Storage!Receipts
    BY <2>2 DEF Storage!Receipts
  <2>4. \A f \in Files : Storage!op.inv[f] # None /\ Storage!op.inv[f].data = library[f]
    BY <1>0 DEF StorageInv, StoragePublishing, StorageHeld
  <2>5. \A f \in Files : disk[Storage!op.target][f] # None /\ disk[Storage!op.target][f].data = library'[f]
    BY <1>0, <1>2, <2>4
  <2>6. library' \in [Files -> Storage!Data]
    BY <1>0 DEF StorageInv, StorageTypes
  <2> HIDE DEF receipts
  <2> QED
    BY <1>0, <2>1, <2>3, <2>5, <2>6, StorageCommittedKeeps
<1> QED
  BY <1>1, <1>2


\* What holds whenever a merge moves files.
LEMMA StorageMergeFacts ==
  ASSUME StorageConstants, StorageInv, job.at = "merge"
  PROVE  /\ Storage!op # None /\ Storage!op.phase = "merging" /\ ~permit /\ Storage!op.error # "SourceChanged"
         /\ Storage!op.source \in Roots /\ Storage!op.target \in Roots /\ Storage!op.target # Storage!op.source
         /\ Storage!op.inv \in [Files -> Storage!Entries] /\ Storage!op.kept \in [Files -> Storage!Entries]
         /\ Storage!op.item \in [Files -> Storage!ItemStates] /\ disk \in [Roots -> [Files -> Storage!Entries]]
         /\ \A f \in Files : StorageMerges(Storage!op, f)
<1>1. Storage!op # None /\ Storage!op.phase = "merging" /\ ~permit
  BY DEF StorageInv, StorageSteps, StoragePermitEarly
<1>2. Storage!op.error # "SourceChanged" /\ \A f \in Files : StorageMerges(Storage!op, f)
  BY <1>1 DEF StorageInv, StorageMergingWell
<1>3. Storage!op.target # Storage!op.source
  BY <1>1 DEF StorageInv, StoragePendingSound, StorageSound, StorageBegun
<1> QED
  BY <1>1, <1>2, <1>3, StoragePendingTypes DEF StorageInv, StorageTypes

LEMMA StorageMergeItemKeeps ==
  ASSUME StorageConstants, StorageInv, NEW f \in Files, Storage!MergeItem(f)
  PROVE  StorageInv'
<1>1. /\ job.at = "merge" /\ UNCHANGED <<disk, library, near, control, permit, cancelled, boot>>
      /\ job' = [job EXCEPT !.file = f]
  BY DEF Storage!MergeItem
<1>2. job' \in Storage!Jobs /\ job'.at = "merge"
  BY <1>1 DEF StorageInv, StorageTypes, Storage!Jobs
<1>3. StorageWaits' /\ StorageSteps'
  BY <1>1, <1>2, StorageMergeFacts DEF StorageWaits, StorageSteps, Storage!op
<1> QED
  BY <1>1, <1>2, <1>3, StorageMergeFacts, StorageCommandKeeps DEF StorageInv, StorageTypes

\* A step of a merge that changes the state of one item.
LEMMA StorageItemKeeps ==
  ASSUME StorageConstants, StorageInv, job.at = "merge", NEW f \in Files, NEW i \in Storage!ItemStates,
         Storage!Persist([Storage!op EXCEPT !.item = [Storage!op.item EXCEPT ![f] = i]]),
         i.id # None => disk[Storage!op.target][f] # None /\ disk[Storage!op.target][f].id = i.id,
         Storage!op.kept[f] # None => i.id # None,
         i.id = None /\ disk[Storage!op.target][f] # None =>
           disk[Storage!op.target][f].id \in {Storage!op.inv[f].id, i.temp},
         i.temp \in {None, Storage!Id(Storage!op.target, "copied", Storage!op.inv[f].data)},
         job' \in Storage!Jobs, job'.at = "merge",
         UNCHANGED <<disk, library, near, permit, cancelled, boot>>
  PROVE  StorageInv'
<1> DEFINE items == [Storage!op.item EXCEPT ![f] = i]
           p == [Storage!op EXCEPT !.item = items]
<1>1. /\ Storage!op # None /\ Storage!op.phase = "merging" /\ ~permit /\ Storage!op.error # "SourceChanged"
      /\ \A g \in Files : StorageMerges(Storage!op, g)
  BY StorageMergeFacts
<1>2. items \in [Files -> Storage!ItemStates] /\ items[f] = i
      /\ \A g \in Files : g # f => items[g] = Storage!op.item[g]
  BY StorageMergeFacts
<1> HIDE DEF items
<1>3. /\ p \in Storage!Operations /\ p.phase = "merging" /\ p.generation = Storage!op.generation
      /\ p.merge = Storage!op.merge /\ p.source = Storage!op.source /\ p.target = Storage!op.target
      /\ p.inv = Storage!op.inv /\ p.kept = Storage!op.kept /\ p.item = items /\ p.error = Storage!op.error
  BY <1>1, <1>2, StoragePendingTypes DEF StorageInv, Storage!Operations
<1>4. p # None
  BY <1>3 DEF StorageConstants
<1>5. Storage!Persist(p)
  BY DEF items
<1> HIDE DEF p
<1>6. Storage!op' = p /\ control'.active = control.active /\ control'.generation = control.generation
  BY <1>3, <1>5, StoragePersistTypes DEF StorageInv
<1>7. StoragePendingSound'
  BY <1>1, <1>3, <1>6 DEF StorageInv, StoragePendingSound, StorageSound, StorageBegun
<1>8. StorageWaits' /\ StorageSteps' /\ StoragePublishing'
  BY <1>3, <1>4, <1>6 DEF StorageWaits, StorageSteps, StoragePublishing
<1>9. StorageMergingWell'
  <2>1. \A g \in Files : g # f => StorageMerges(Storage!op, g)'
    BY <1>1, <1>2, <1>3, <1>6 DEF StorageMerges
  <2>2. StorageMerges(Storage!op, f)'
    BY <1>1, <1>2, <1>3, <1>6 DEF StorageMerges
  <2> QED
    BY <1>1, <1>3, <1>6, <2>1, <2>2 DEF StorageMergingWell
<1> QED
  BY <1>1, <1>3, <1>4, <1>5, <1>7, <1>8, <1>9, StoragePersists

\* A step of a merge that moves a file.
LEMMA StorageMovesKeeps ==
  ASSUME StorageConstants, StorageInv, job.at = "merge", disk' \in [Roots -> [Files -> Storage!Entries]],
         \A g \in Files : StorageMerges(Storage!op, g)',
         UNCHANGED <<library, near, control, job, permit, cancelled, boot>>
  PROVE  StorageInv'
<1>1. Storage!op # None /\ Storage!op.phase = "merging" /\ ~permit /\ Storage!op.error # "SourceChanged"
  BY StorageMergeFacts
<1>2. StorageTypes'
  BY DEF StorageInv, StorageTypes
<1>3. StoragePendingSound' /\ StorageCopiesSound' /\ StoragePermitEarly' /\ StorageWaits' /\ StorageSteps'
  BY DEF StorageInv, StoragePendingSound, StorageCopiesSound, StorageSound, StoragePlanned,
         StoragePermitEarly, StorageWaits, StorageSteps, Storage!Names, Storage!op
<1>4. StoragePublishing' /\ StorageMergingWell' /\ StorageHeld'
  BY <1>1 DEF StoragePublishing, StorageMergingWell, StorageHeld, Storage!op
<1> QED
  BY <1>2, <1>3, <1>4 DEF StorageInv

LEMMA StorageMergeMoveKeeps ==
  ASSUME StorageConstants, StorageInv, Storage!MergeMove
  PROVE  StorageInv'
<1> DEFINE f == job.file
<1>1. /\ job.at = "merge" /\ Storage!op.item[f].id = None /\ disk[Storage!op.target][f] = None
      /\ UNCHANGED <<library, near, permit, cancelled, boot>>
  BY DEF Storage!MergeMove, Storage!Merging, Storage!item, Storage!there
<1>2. f \in Files
  BY DEF Storage!MergeMove, Storage!Merging, StorageInv, StorageTypes, Storage!Jobs
<1>3. /\ StorageMerges(Storage!op, f) /\ Storage!op.kept[f] = None /\ Storage!op.inv[f] # None /\ Storage!op.inv[f] \in Storage!Entries
      /\ disk[Storage!op.source][f] = Storage!op.inv[f] /\ Storage!op.item[f] \in Storage!ItemStates
  BY <1>1, <1>2, StorageMergeFacts DEF StorageMerges
<1>4. Storage!op.inv[f].data \in Storage!Data /\ Storage!op.inv[f].data = library[f]
  BY <1>3 DEF StorageMerges, Storage!Entries
<1>5. CASE near
  <2>1. /\ disk' = [disk EXCEPT ![Storage!op.target][f] = Storage!op.inv[f], ![Storage!op.source][f] = None]
        /\ UNCHANGED <<control, job>>
    BY <1>3, <1>5 DEF Storage!MergeMove
  <2> DEFINE to == [disk[Storage!op.target] EXCEPT ![f] = Storage!op.inv[f]]
             from == [disk[Storage!op.source] EXCEPT ![f] = None]
  <2>2. disk' = [disk EXCEPT ![Storage!op.target] = to, ![Storage!op.source] = from]
    BY <1>1, <2>1, StorageMergeFacts
  <2>3. to \in [Files -> Storage!Entries] /\ from \in [Files -> Storage!Entries]
    BY <1>1, <1>2, <1>3, StorageMergeFacts DEF Storage!Entries
  <2>4. /\ to[f] = Storage!op.inv[f] /\ from[f] = None
        /\ \A g \in Files : g # f => to[g] = disk[Storage!op.target][g] /\ from[g] = disk[Storage!op.source][g]
    BY <1>1, <1>2, StorageMergeFacts
  <2> HIDE DEF to, from
  <2>5. disk' \in [Roots -> [Files -> Storage!Entries]] /\ disk'[Storage!op.target] = to /\ disk'[Storage!op.source] = from
    BY <1>1, <2>2, <2>3, StorageMergeFacts
  <2>6. ASSUME NEW g \in Files, g # f PROVE StorageMerges(Storage!op, g)'
    <3>1. StorageMerges(Storage!op, g) /\ Storage!op' = Storage!op
      BY <1>1, <2>1, StorageMergeFacts DEF Storage!op
    <3>2. disk'[Storage!op.target][g] = disk[Storage!op.target][g] /\ disk'[Storage!op.source][g] = disk[Storage!op.source][g]
      BY <2>4, <2>5, <2>6
    <3> QED
      BY <1>1, <3>1, <3>2 DEF StorageMerges
  <2>7. StorageMerges(Storage!op, f)'
    BY <1>1, <1>3, <2>1, <2>4, <2>5 DEF StorageMerges, Storage!op
  <2> QED
    BY <1>1, <2>1, <2>5, <2>6, <2>7, StorageMovesKeeps
<1>6. CASE ~near /\ Storage!op.item[f].temp = None
  <2> DEFINE i == [Storage!op.item[f] EXCEPT !.temp = Storage!Id(Storage!op.target, "copied", Storage!op.inv[f].data)]
             items == [Storage!op.item EXCEPT ![f] = i]
  <2>1. /\ Storage!Persist([Storage!op EXCEPT !.item[f].temp = Storage!Id(Storage!op.target, "copied", Storage!op.inv[f].data)])
        /\ UNCHANGED <<disk, job>>
    BY <1>3, <1>6 DEF Storage!MergeMove, Storage!copy_cross_volume, Storage!item
  <2>2. [Storage!op EXCEPT !.item[f].temp = Storage!Id(Storage!op.target, "copied", Storage!op.inv[f].data)]
        = [Storage!op EXCEPT !.item = items]
    BY <1>1, <1>2, StorageMergeFacts, StoragePendingTypes DEF StorageInv, Storage!Operations
  <2>3. i \in Storage!ItemStates /\ i.id = None /\ i.temp = Storage!Id(Storage!op.target, "copied", Storage!op.inv[f].data)
    BY <1>1, <1>3, <1>4, StorageMergeFacts DEF Storage!ItemStates, Storage!Id, Storage!Ids
  <2>4. Storage!Persist([Storage!op EXCEPT !.item = [Storage!op.item EXCEPT ![f] = i]])
    BY <2>1, <2>2
  <2> HIDE DEF i, items
  <2> QED
    BY <1>1, <1>2, <1>3, <2>1, <2>3, <2>4, StorageItemKeeps DEF StorageInv, StorageTypes
<1>7. CASE ~near /\ Storage!op.item[f].temp # None
  <2> DEFINE e == Storage!Entry(Storage!op.target, "copied", Storage!op.inv[f].data)
             to == [disk[Storage!op.target] EXCEPT ![f] = e]
  <2>1. disk' = [disk EXCEPT ![Storage!op.target] = to] /\ UNCHANGED <<control, job>>
    BY <1>1, <1>3, <1>7, StorageMergeFacts
       DEF Storage!MergeMove, Storage!copy_cross_volume, Storage!item
  <2>2. e \in Storage!Entries /\ e # None /\ e.data = Storage!op.inv[f].data
        /\ e.id = Storage!Id(Storage!op.target, "copied", Storage!op.inv[f].data)
    BY <1>1, <1>4, StorageMergeFacts
       DEF Storage!Entry, Storage!Entries, Storage!Id, Storage!Ids, StorageConstants
  <2> HIDE DEF e
  <2>3. /\ to \in [Files -> Storage!Entries] /\ to[f] = e
        /\ \A g \in Files : g # f => to[g] = disk[Storage!op.target][g]
    BY <1>1, <1>2, <2>2, StorageMergeFacts
  <2> HIDE DEF to
  <2>4. /\ disk' \in [Roots -> [Files -> Storage!Entries]] /\ disk'[Storage!op.target] = to
        /\ disk'[Storage!op.source] = disk[Storage!op.source]
    BY <1>1, <2>1, <2>3, StorageMergeFacts
  <2>5. \A g \in Files : g # f => StorageMerges(Storage!op, g)'
    BY <1>1, <2>1, <2>3, <2>4, StorageMergeFacts DEF StorageMerges, Storage!op
  <2>6. StorageMerges(Storage!op, f)'
    BY <1>1, <1>3, <1>7, <2>1, <2>2, <2>3, <2>4 DEF StorageMerges, Storage!op
  <2> QED
    BY <1>1, <2>1, <2>4, <2>5, <2>6, StorageMovesKeeps
<1> QED
  BY <1>5, <1>6, <1>7

LEMMA StorageMergeNoteKeeps ==
  ASSUME StorageConstants, StorageInv, Storage!MergeNote
  PROVE  StorageInv'
<1> DEFINE f == job.file
<1>1. /\ job.at = "merge" /\ Storage!op.item[f].id = None /\ disk[Storage!op.target][f] # None
      /\ UNCHANGED <<disk, library, near, permit, cancelled, boot>>
  BY DEF Storage!MergeNote, Storage!Merging, Storage!item, Storage!there
<1>2. f \in Files
  BY DEF Storage!MergeNote, Storage!Merging, StorageInv, StorageTypes, Storage!Jobs
<1>3. StorageMerges(Storage!op, f) /\ Storage!op.item[f] \in Storage!ItemStates /\ disk[Storage!op.target][f] \in Storage!Entries
  BY <1>1, <1>2, StorageMergeFacts
<1> DEFINE id == disk[Storage!op.target][f].id
           i == [Storage!op.item[f] EXCEPT !.id = id]
           items == [Storage!op.item EXCEPT ![f] = i]
<1>4. Storage!Persist([Storage!op EXCEPT !.item[f].id = id]) /\ UNCHANGED job
  BY <1>1, <1>3 DEF Storage!MergeNote, StorageMerges, Storage!item, Storage!there
<1>5. id \in Storage!Ids /\ id # None
  BY <1>1, <1>3 DEF Storage!Entries, StorageConstants
<1> HIDE DEF id
<1>6. [Storage!op EXCEPT !.item[f].id = id] = [Storage!op EXCEPT !.item = items]
  BY <1>1, <1>2, StorageMergeFacts, StoragePendingTypes DEF StorageInv, Storage!Operations
<1>7. i \in Storage!ItemStates /\ i.id = id /\ i.temp = Storage!op.item[f].temp
  BY <1>3, <1>5 DEF Storage!ItemStates
<1>8. Storage!Persist([Storage!op EXCEPT !.item = [Storage!op.item EXCEPT ![f] = i]])
  BY <1>4, <1>6
<1>9. Storage!op.item[f].temp \in {None, Storage!Id(Storage!op.target, "copied", Storage!op.inv[f].data)}
  BY <1>3 DEF StorageMerges
<1>10. disk[Storage!op.target][f].id = i.id
  BY <1>7 DEF id
<1>11. job' \in Storage!Jobs /\ job'.at = "merge"
  BY <1>1, <1>4 DEF StorageInv, StorageTypes
<1> HIDE DEF i, items
<1> QED
  BY <1>1, <1>2, <1>5, <1>7, <1>8, <1>9, <1>10, <1>11, StorageItemKeeps

LEMMA StorageMergeRemoveKeeps ==
  ASSUME StorageConstants, StorageInv, Storage!MergeRemove
  PROVE  StorageInv'
<1> DEFINE f == job.file
           from == [disk[Storage!op.source] EXCEPT ![f] = None]
<1>1. /\ job.at = "merge" /\ Storage!op.item[f].id # None /\ disk[Storage!op.source][f] # None
      /\ UNCHANGED <<library, near, permit, cancelled, boot>>
  BY DEF Storage!MergeRemove, Storage!Merging, Storage!item
<1>2. f \in Files
  BY DEF Storage!MergeRemove, Storage!Merging, StorageInv, StorageTypes, Storage!Jobs
<1>3. /\ StorageMerges(Storage!op, f) /\ disk[Storage!op.target][f] # None /\ disk[Storage!op.target][f].id = Storage!op.item[f].id
      /\ disk[Storage!op.source][f] = Storage!op.inv[f]
  BY <1>1, <1>2, StorageMergeFacts DEF StorageMerges
<1>4. disk' = [disk EXCEPT ![Storage!op.source] = from] /\ UNCHANGED <<control, job>>
  BY <1>1, <1>3, StorageMergeFacts DEF Storage!MergeRemove, Storage!item, Storage!there
<1>5. /\ from \in [Files -> Storage!Entries] /\ from[f] = None
      /\ \A g \in Files : g # f => from[g] = disk[Storage!op.source][g]
  BY <1>1, <1>2, StorageMergeFacts DEF Storage!Entries
<1> HIDE DEF from
<1>6. /\ disk' \in [Roots -> [Files -> Storage!Entries]] /\ disk'[Storage!op.source] = from
      /\ disk'[Storage!op.target] = disk[Storage!op.target]
  BY <1>1, <1>4, <1>5, StorageMergeFacts
<1>7. \A g \in Files : g # f => StorageMerges(Storage!op, g)'
  BY <1>1, <1>4, <1>5, <1>6, StorageMergeFacts DEF StorageMerges, Storage!op
<1>8. StorageMerges(Storage!op, f)'
  BY <1>1, <1>3, <1>4, <1>5, <1>6 DEF StorageMerges, Storage!op
<1> QED
  BY <1>1, <1>4, <1>6, <1>7, <1>8, StorageMovesKeeps

LEMMA StorageMergeDoneKeeps ==
  ASSUME StorageConstants, StorageInv, Storage!MergeDone
  PROVE  StorageInv'
<1> DEFINE f == job.file
           i == [Storage!op.item[f] EXCEPT !.done = TRUE]
           items == [Storage!op.item EXCEPT ![f] = i]
<1>1. /\ job.at = "merge" /\ Storage!op.item[f].id # None /\ Storage!Persist([Storage!op EXCEPT !.item[f].done = TRUE])
      /\ job' = [job EXCEPT !.file = None, !.done = @ \cup {f}]
      /\ UNCHANGED <<disk, library, near, permit, cancelled, boot>>
  BY DEF Storage!MergeDone, Storage!Merging, Storage!item
<1>2. f \in Files
  BY DEF Storage!MergeDone, Storage!Merging, StorageInv, StorageTypes, Storage!Jobs
<1>3. /\ StorageMerges(Storage!op, f) /\ Storage!op.item[f] \in Storage!ItemStates /\ disk[Storage!op.target][f] # None
      /\ disk[Storage!op.target][f].id = Storage!op.item[f].id
      /\ Storage!op.item[f].temp \in {None, Storage!Id(Storage!op.target, "copied", Storage!op.inv[f].data)}
  BY <1>1, <1>2, StorageMergeFacts DEF StorageMerges
<1>4. [Storage!op EXCEPT !.item[f].done = TRUE] = [Storage!op EXCEPT !.item = items]
  BY <1>1, <1>2, StorageMergeFacts, StoragePendingTypes DEF StorageInv, Storage!Operations
<1>5. i \in Storage!ItemStates /\ i.id = Storage!op.item[f].id /\ i.temp = Storage!op.item[f].temp
  BY <1>3 DEF Storage!ItemStates
<1>6. Storage!Persist([Storage!op EXCEPT !.item = [Storage!op.item EXCEPT ![f] = i]])
  BY <1>1, <1>4
<1>7. job' \in Storage!Jobs /\ job'.at = "merge"
  BY <1>1, <1>2 DEF StorageInv, StorageTypes, Storage!Jobs
<1> HIDE DEF i, items
<1> QED
  BY <1>1, <1>2, <1>3, <1>5, <1>6, <1>7, StorageItemKeeps

LEMMA StorageMergedKeeps ==
  ASSUME StorageConstants, StorageInv, Storage!Merged
  PROVE  StorageInv'
<1>0. job.at = "merge" /\ UNCHANGED <<disk, near, permit, cancelled, boot>>
  BY DEF Storage!Merged
<1>1. CASE ~Storage!MergeVerified
  <2>1. Storage!Ends("failed") /\ UNCHANGED library
    BY <1>1 DEF Storage!Merged
  <2> QED
    BY <1>0, <2>1, StorageMergeFacts, StorageEndsKeeps
<1>2. CASE Storage!MergeVerified
  <2> DEFINE receipts == {r \in control.receipts : Storage!op.target \in r.at}
  <2>1. /\ Storage!Committed(receipts) /\ job' = Storage!Idle
        /\ library' = [f \in Files |-> IF Storage!op.kept[f] = None THEN library[f] ELSE Storage!op.kept[f].data]
    BY <1>2 DEF Storage!Merged
  <2>2. receipts \in SUBSET Storage!Receipts
    BY StorageControlTypes DEF StorageInv
  <2>3. library' \in [Files -> Storage!Data]
    <3>1. \A f \in Files : Storage!op.kept[f] # None => Storage!op.kept[f].data \in Storage!Data
      BY <1>0, StorageMergeFacts DEF Storage!Entries
    <3> QED
      BY <2>1, <3>1 DEF StorageInv, StorageTypes
  <2>4. ASSUME NEW f \in Files
        PROVE  disk[Storage!op.target][f] # None /\ disk[Storage!op.target][f].data = library'[f]
    <3>1. StorageMerges(Storage!op, f)
      BY <1>0, StorageMergeFacts
    <3>2. disk[Storage!op.target][f] # None
      BY <1>2, <3>1 DEF Storage!MergeVerified, StorageMerges, Storage!Names
    <3> QED
      BY <2>1, <3>1, <3>2 DEF StorageMerges
  <2> HIDE DEF receipts
  <2> QED
    BY <1>0, <2>1, <2>2, <2>3, <2>4, StorageMergeFacts, StorageCommittedKeeps
<1> QED
  BY <1>1, <1>2


LEMMA StorageFailsKeeps == ASSUME StorageConstants, StorageInv, Storage!Fails PROVE StorageInv'
BY StorageEndsKeeps DEF Storage!Fails

LEMMA StorageRestartKeeps ==
  ASSUME StorageConstants, StorageInv, Storage!Restart
  PROVE  StorageInv'
<1> DEFINE again == Storage!op # None /\ Storage!op.phase = "restart_required"
           p == IF again THEN [Storage!op EXCEPT !.phase = "validating"] ELSE Storage!op
<1>1. /\ Storage!Persist(p) /\ job' = Storage!Idle /\ permit' = FALSE /\ cancelled' = FALSE
      /\ boot' = control.generation /\ UNCHANGED <<disk, library, near>>
  BY DEF Storage!Restart
<1>2. CASE again
  <2>1. p \in Storage!Operations /\ p.phase = "validating" /\ Storage!op.phase = "restart_required"
    BY <1>2, StoragePendingTypes DEF StorageInv, Storage!Operations
  <2>2. p # None
    BY <2>1 DEF StorageConstants
  <2> HIDE DEF p
  <2>3. /\ control' \in StorageControls /\ Storage!op' = p
        /\ control'.active = control.active /\ control'.generation = control.generation
        /\ control'.copies = control.copies
    BY <1>1, <2>1, StoragePersistTypes DEF StorageInv
  <2>4. StorageTypes'
    BY <1>1, <2>3, StorageControlTypes DEF StorageInv, StorageTypes, Storage!Idle, Storage!Jobs
  <2>5. StorageCopiesSound'
    BY <2>3 DEF StorageInv, StorageCopiesSound, StorageSound, StoragePlanned
  <2>6. StoragePendingSound' /\ StoragePermitEarly' /\ StorageWaits' /\ StorageSteps' /\ StoragePublishing' /\ StorageMergingWell'
    BY <1>1, <2>1, <2>2, <2>3
       DEF StoragePendingSound, StoragePermitEarly, StorageWaits, StorageSteps,
           StoragePublishing, StorageMergingWell, StorageBegun, StorageEarly, Storage!Idle
  <2>7. StorageHeld'
    BY <1>1, <1>2, <2>1, <2>3 DEF StorageInv, StorageHeld
  <2> QED
    BY <2>4, <2>5, <2>6, <2>7 DEF StorageInv
<1>3. CASE ~again
  <2>1. p = Storage!op /\ p \in Storage!Operations \cup {None}
    BY <1>3, StorageControlTypes DEF StorageInv, Storage!op
  <2> HIDE DEF p
  <2>2. /\ control' \in StorageControls /\ Storage!op' = Storage!op
        /\ control'.active = control.active /\ control'.generation = control.generation
        /\ control'.copies = control.copies
    BY <1>1, <2>1, StoragePersistTypes DEF StorageInv
  <2>3. StorageTypes'
    BY <1>1, <2>2, StorageControlTypes DEF StorageInv, StorageTypes, Storage!Idle, Storage!Jobs
  <2>4. StorageCopiesSound' /\ StoragePendingSound'
    BY <2>2
       DEF StorageInv, StorageCopiesSound, StoragePendingSound, StorageSound, StoragePlanned
  <2>5. StoragePermitEarly' /\ StorageWaits' /\ StorageSteps'
    BY <1>1 DEF StoragePermitEarly, StorageWaits, StorageSteps, Storage!Idle
  <2>6. StoragePublishing' /\ StorageMergingWell' /\ StorageHeld'
    BY <1>1, <2>2
       DEF StorageInv, StoragePublishing, StorageMergingWell, StorageMerges, Storage!Names,
           StorageHeld
  <2> QED
    BY <2>3, <2>4, <2>5, <2>6 DEF StorageInv
<1> QED
  BY <1>2, <1>3

LEMMA StorageRecheckKeeps ==
  ASSUME StorageConstants, StorageInv, Storage!Recheck
  PROVE  StorageInv'
<1>1. /\ Storage!op # None /\ Storage!op.phase \in {"validating", "restart_required"} /\ job' = Storage!At("recheck")
      /\ UNCHANGED <<disk, library, near, control, permit, cancelled, boot>>
  BY DEF Storage!Recheck
<1>2. job' \in Storage!Jobs /\ job'.at = "recheck" /\ ~permit
  BY <1>1
     DEF Storage!At, Storage!Idle, Storage!Jobs, StorageInv, StoragePermitEarly, StorageEarly
<1>3. StorageWaits' /\ StorageSteps'
  BY <1>1, <1>2 DEF StorageWaits, StorageSteps, Storage!op
<1> QED
  BY <1>1, <1>2, <1>3, StorageCommandKeeps DEF StorageInv, StorageTypes

\* Nothing is pending any more, and nothing was moved.
LEMMA StoragePendingEndsKeeps ==
  ASSUME StorageConstants, StorageInv, Storage!op # None, Storage!op.phase # "merging", control' \in StorageControls,
         control'.pending = None, control'.active = control.active,
         control'.generation = control.generation, control'.copies = control.copies,
         job' = Storage!Idle, UNCHANGED <<disk, library, near, permit, cancelled, boot>>
  PROVE  StorageInv'
<1>1. Storage!op' = None
  BY DEF Storage!op
<1>2. StorageTypes'
  BY DEF StorageInv, StorageTypes, Storage!Idle, Storage!Jobs
<1>3. StorageCopiesSound'
  BY DEF StorageInv, StorageCopiesSound, StorageSound, StoragePlanned
<1>4. StoragePendingSound' /\ StoragePermitEarly' /\ StorageWaits' /\ StorageSteps' /\ StoragePublishing' /\ StorageMergingWell'
  BY <1>1
     DEF StoragePendingSound, StoragePermitEarly, StorageWaits, StorageSteps, StoragePublishing,
         StorageMergingWell, Storage!Idle
<1>5. StorageHeld'
  BY <1>1 DEF StorageInv, StorageHeld
<1> QED
  BY <1>2, <1>3, <1>4, <1>5 DEF StorageInv

LEMMA StorageRecheckInnerKeeps ==
  ASSUME StorageConstants, StorageInv, Storage!recheck_inner
  PROVE  StorageInv'
<1>1. /\ Storage!op # None /\ Storage!op.phase \in {"validating", "restart_required"} /\ job.at = "recheck"
      /\ UNCHANGED <<disk, library, near, permit, cancelled, boot>>
  BY DEF Storage!recheck_inner, StorageInv, StorageSteps
<1>2. (Storage!Persist(None) /\ job' = Storage!Idle) \/ Storage!Ends("failed")
  BY DEF Storage!recheck_inner
<1>3. CASE Storage!Ends("failed")
  BY <1>1, <1>3, StorageEndsKeeps
<1>4. CASE Storage!Persist(None) /\ job' = Storage!Idle
  <2>1. /\ control' \in StorageControls /\ control'.pending = None
        /\ control'.active = control.active /\ control'.generation = control.generation
        /\ control'.copies = control.copies
    BY <1>4, StoragePersistTypes DEF StorageInv
  <2> QED
    BY <1>1, <1>4, <2>1, StoragePendingEndsKeeps
<1> QED
  BY <1>2, <1>3, <1>4

LEMMA StorageConfirmCleanupKeeps ==
  ASSUME StorageConstants, StorageInv, NEW r \in control.receipts, Storage!ConfirmCleanup(r)
  PROVE  StorageInv'
<1> DEFINE fresh == Storage!Fresh(control.active, FALSE)
           p == [fresh EXCEPT !.phase = "cleaning", !.source = r.source, !.inv = r.inv]
<1>1. /\ Storage!op = None /\ ~permit /\ Storage!Persist(p) /\ job' = Storage!At("clean")
      /\ UNCHANGED <<disk, library, near, permit, cancelled, boot>>
  BY DEF Storage!ConfirmCleanup
<1>2. fresh \in Storage!Operations
  BY StorageFreshTypes, StorageControlTypes DEF StorageInv
<1>3. r.source \in Roots /\ r.inv \in [Files -> Storage!Entries]
  BY StorageControlTypes DEF StorageInv, Storage!Receipts
<1> HIDE DEF fresh
<1>4. p \in Storage!Operations /\ p.phase = "cleaning"
  BY <1>2, <1>3 DEF Storage!Operations
<1>5. p # None
  BY <1>4 DEF StorageConstants
<1> HIDE DEF p
<1>6. Storage!op' = p
  BY <1>1, <1>4, StoragePersistTypes DEF StorageInv
<1>7. job' \in Storage!Jobs /\ job'.at = "clean"
  BY <1>1 DEF Storage!At, Storage!Idle, Storage!Jobs
<1>8. StoragePendingSound' /\ StorageWaits' /\ StorageSteps' /\ StoragePublishing' /\ StorageMergingWell'
  BY <1>4, <1>5, <1>6, <1>7
     DEF StoragePendingSound, StorageWaits, StorageSteps, StoragePublishing, StorageMergingWell,
         StorageBegun, StorageEarly
<1> QED
  BY <1>1, <1>4, <1>7, <1>8, StoragePersists

LEMMA StorageCleanEntryKeeps ==
  ASSUME StorageConstants, StorageInv, NEW f \in Files, Storage!CleanEntry(f)
  PROVE  StorageInv'
<1>1. /\ Storage!op # None /\ Storage!op.phase = "cleaning" /\ job.at = "clean" /\ ~permit
      /\ job' = [job EXCEPT !.done = @ \cup {f}]
      /\ UNCHANGED <<library, near, control, permit, cancelled, boot>>
  BY DEF Storage!CleanEntry, StorageInv, StorageSteps, StoragePermitEarly
<1>2. job' \in Storage!Jobs /\ job'.at = "clean"
  BY <1>1 DEF StorageInv, StorageTypes, Storage!Jobs
<1>3. disk' \in [Roots -> [Files -> Storage!Entries]] /\ disk'[control.active] = disk[control.active]
  <2>1. CASE Storage!cleanup_candidate(f)
    <3> DEFINE left == [disk[Storage!op.source] EXCEPT ![f] = None]
    <3>1. Storage!op.source \in Roots /\ control.active \in Roots /\ Storage!op.source # control.active
          /\ disk \in [Roots -> [Files -> Storage!Entries]]
      BY <1>1, <2>1, StoragePendingTypes, StorageControlTypes
         DEF StorageInv, StorageTypes, Storage!cleanup_candidate
    <3>2. disk' = [disk EXCEPT ![Storage!op.source] = left]
      BY <2>1, <3>1 DEF Storage!CleanEntry
    <3>3. left \in [Files -> Storage!Entries]
      BY <3>1 DEF Storage!Entries
    <3> HIDE DEF left
    <3> QED
      BY <3>1, <3>2, <3>3
  <2>2. CASE ~Storage!cleanup_candidate(f)
    BY <2>2 DEF Storage!CleanEntry, StorageInv, StorageTypes
  <2> QED
    BY <2>1, <2>2
<1>4. StorageTypes'
  BY <1>1, <1>2, <1>3 DEF StorageInv, StorageTypes
<1>5. StorageCopiesSound'
  BY <1>1 DEF StorageInv, StorageCopiesSound, StorageSound, StoragePlanned
<1>6. StoragePendingSound' /\ StoragePermitEarly' /\ StorageWaits' /\ StorageSteps' /\ StoragePublishing' /\ StorageMergingWell'
  BY <1>1, <1>2
     DEF StoragePendingSound, StoragePermitEarly, StorageWaits, StorageSteps, StoragePublishing,
         StorageMergingWell, StorageBegun, StorageEarly, Storage!op
<1>7. StorageHeld'
  BY <1>1, <1>3 DEF StorageInv, StorageHeld, Storage!op
<1> QED
  BY <1>4, <1>5, <1>6, <1>7 DEF StorageInv

LEMMA StorageCleanedKeeps ==
  ASSUME StorageConstants, StorageInv, Storage!Cleaned
  PROVE  StorageInv'
<1> DEFINE receipts == {r \in control.receipts : r.source = Storage!op.source /\ r.inv = Storage!op.inv =>
                                       \E f \in Storage!Names(Storage!op.inv) : disk[Storage!op.source][f] # None}
<1>1. /\ Storage!op # None /\ Storage!op.phase = "cleaning" /\ job' = Storage!Idle
      /\ control' = [control EXCEPT !.pending = None, !.receipts = receipts]
      /\ UNCHANGED <<disk, library, near, permit, cancelled, boot>>
  BY DEF Storage!Cleaned, StorageInv, StorageSteps
<1>2. receipts \in SUBSET Storage!Receipts
  BY StorageControlTypes DEF StorageInv
<1> HIDE DEF receipts
<1>3. /\ control' \in StorageControls /\ control'.pending = None
      /\ control'.active = control.active /\ control'.generation = control.generation
      /\ control'.copies = control.copies
  BY <1>1, <1>2 DEF StorageInv, StorageTypes, StorageControls
<1> QED
  BY <1>1, <1>3, StoragePendingEndsKeeps

LEMMA StorageResumeCleanupKeeps ==
  ASSUME StorageConstants, StorageInv, Storage!ResumeCleanup
  PROVE  StorageInv'
<1>1. /\ Storage!op # None /\ Storage!op.phase = "cleaning" /\ job' = Storage!At("clean")
      /\ UNCHANGED <<disk, library, near, control, permit, cancelled, boot>>
  BY DEF Storage!ResumeCleanup
<1>2. job' \in Storage!Jobs /\ job'.at = "clean" /\ ~permit
  BY <1>1
     DEF Storage!At, Storage!Idle, Storage!Jobs, StorageInv, StoragePermitEarly, StorageEarly
<1>3. StorageWaits' /\ StorageSteps'
  BY <1>1, <1>2 DEF StorageWaits, StorageSteps, Storage!op
<1> QED
  BY <1>1, <1>2, <1>3, StorageCommandKeeps DEF StorageInv, StorageTypes

LEMMA StorageStopCleanupKeeps ==
  ASSUME StorageConstants, StorageInv, Storage!stop_cleanup
  PROVE  StorageInv'
<1>1. /\ job = Storage!Idle /\ Storage!op # None /\ Storage!op.phase = "cleaning" /\ Storage!Persist(None) /\ job' = Storage!Idle
      /\ UNCHANGED <<disk, library, near, permit, cancelled, boot>>
  BY DEF Storage!stop_cleanup
<1>2. /\ control' \in StorageControls /\ control'.pending = None
      /\ control'.active = control.active /\ control'.generation = control.generation
      /\ control'.copies = control.copies
  BY <1>1, StoragePersistTypes DEF StorageInv
<1> QED
  BY <1>1, <1>2, StoragePendingEndsKeeps


-----------------------------------------------------------------------------
(* Nothing is lost.                                                         *)

LEMMA StorageStutterKeeps == ASSUME StorageInv, UNCHANGED Storage!vars PROVE StorageInv'
<1>1. StorageTypes' /\ StoragePermitEarly' /\ StorageWaits' /\ StorageSteps' /\ StorageHeld'
  BY DEF Storage!vars, StorageInv, StorageTypes, StoragePermitEarly, StorageWaits, StorageSteps,
         StorageHeld, Storage!Names, Storage!op
<1>2. StoragePendingSound' /\ StorageCopiesSound'
  BY DEF Storage!vars, StorageInv, StoragePendingSound, StorageCopiesSound, StorageSound,
         StoragePlanned, Storage!op
<1>3. StoragePublishing' /\ StorageMergingWell'
  BY DEF Storage!vars, StorageInv, StoragePublishing, StorageMergingWell, StorageMerges,
         Storage!Names, Storage!op
<1> QED
  BY <1>1, <1>2, <1>3 DEF StorageInv

LEMMA StorageNextKeeps ==
  ASSUME StorageConstants, StorageInv, Storage!Next \/ UNCHANGED Storage!vars
  PROVE  StorageInv'
<1>1. CASE Storage!Next
  <2>1. CASE Storage!Acquire \/ Storage!Release \/ \E f \in Files : Storage!Write(f)
    BY <2>1, StorageAcquireKeeps, StorageReleaseKeeps, StorageWriteKeeps
  <2>2. CASE \E t \in Roots, m \in BOOLEAN : Storage!Choose(t, m)
    BY <2>2, StorageChooseKeeps
  <2>3. CASE Storage!Drained \/ Storage!Scan \/ Storage!Confirm \/ Storage!Cancel
    BY <2>3, StorageDrainedKeeps, StorageScanKeeps, StorageConfirmKeeps, StorageCancelKeeps
  <2>4. CASE \E p \in control.copies \cup ({Storage!op} \ {None}) : Storage!Resume(p)
    BY <2>4, StorageResumeKeeps
  <2>5. CASE Storage!Verify \/ Storage!Copied \/ Storage!Checked \/ Storage!Published
    BY <2>5, StorageVerifyKeeps, StorageCopiedKeeps, StorageCheckedKeeps, StoragePublishedKeeps
  <2>6. CASE \E f \in Files : Storage!CopyEntry(f) \/ Storage!PublishEntry(f) \/ Storage!MergeItem(f) \/ Storage!CleanEntry(f)
    BY <2>6, StorageCopyEntryKeeps, StoragePublishEntryKeeps, StorageMergeItemKeeps,
       StorageCleanEntryKeeps
  <2>7. CASE Storage!MergeMove \/ Storage!MergeNote \/ Storage!MergeRemove \/ Storage!MergeDone \/ Storage!Merged
    BY <2>7, StorageMergeMoveKeeps, StorageMergeNoteKeeps, StorageMergeRemoveKeeps,
       StorageMergeDoneKeeps, StorageMergedKeeps
  <2>8. CASE Storage!Fails \/ Storage!Restart \/ Storage!Recheck \/ Storage!recheck_inner
    BY <2>8, StorageFailsKeeps, StorageRestartKeeps, StorageRecheckKeeps,
       StorageRecheckInnerKeeps
  <2>9. CASE \E r \in control.receipts : Storage!ConfirmCleanup(r)
    BY <2>9, StorageConfirmCleanupKeeps
  <2>10. CASE Storage!Cleaned \/ Storage!ResumeCleanup \/ Storage!stop_cleanup
    BY <2>10, StorageCleanedKeeps, StorageResumeCleanupKeeps, StorageStopCleanupKeeps
  <2> QED
    BY <1>1, <2>1, <2>2, <2>3, <2>4, <2>5, <2>6, <2>7, <2>8, <2>9, <2>10 DEF Storage!Next
<1>2. CASE UNCHANGED Storage!vars
  BY <1>2, StorageStutterKeeps
<1> QED
  BY <1>1, <1>2

LEMMA StorageHeldIsNotLost == ASSUME StorageInv PROVE Storage!NothingLost
<1> SUFFICES ASSUME NEW f \in Files
             PROVE  IF Storage!op # None /\ Storage!op.phase = "merging"
                    THEN IF Storage!op.kept[f] # None THEN disk[Storage!op.target][f] = Storage!op.kept[f]
                         ELSE library[f] # None =>
                              \/ disk[Storage!op.source][f] # None
                                 /\ disk[Storage!op.source][f].data = library[f]
                              \/ disk[Storage!op.target][f] # None
                                 /\ disk[Storage!op.target][f].data = library[f]
                    ELSE library[f] # None => disk[control.active][f] # None
                                              /\ disk[control.active][f].data = library[f]
  BY DEF Storage!NothingLost
<1>1. CASE Storage!op # None /\ Storage!op.phase = "merging"
  <2>1. StorageMerges(Storage!op, f)
    BY <1>1 DEF StorageInv, StorageMergingWell
  <2> QED
    BY <1>1, <2>1 DEF StorageMerges
<1>2. CASE ~(Storage!op # None /\ Storage!op.phase = "merging")
  BY <1>2 DEF StorageInv, StorageHeld
<1> QED
  BY <1>1, <1>2

-----------------------------------------------------------------------------
(* The transcript of a note (Transcript).                                   *)

ScriptScripts == [text : Script!Copies, segments : Script!Maybe, polished : Script!Maybe]

ScriptConstants ==
  /\ None \notin Notes /\ None \notin Script!Copies /\ None \notin ScriptScripts /\ None \notin Script!Detail
  /\ None \notin {"save", "polish"} /\ None \notin [of : Notes, from : Script!Maybe]
  /\ MaxEdits \in Nat

ScriptPapers == [detail : Script!Detail \cup {None}, text : Script!Maybe, draft : Script!Maybe, segments : Script!Maybe,
           dirty : BOOLEAN, loading : BOOLEAN, saving : BOOLEAN]

ScriptTypes ==
  /\ scripts \in [Notes -> ScriptScripts \cup {None}]
  /\ subject \in Notes \cup {None} /\ erasing \in Notes \cup {None}
  /\ paper \in ScriptPapers /\ wire \in Seq(Script!Wired)
  /\ polish \in [of : Notes, from : Script!Maybe] \cup {None} /\ edits \in 0..MaxEdits

\* Time marks that say the same as the text, or none.
ScriptAgree(text, segments) ==
  text # None /\ (segments = None \/ segments.n = Script!Blank \/ segments = text)

\* What is in flight: a text and its marks are stored under the note they were typed for,
\* and a load that counts is one of the note of the workspace.
ScriptSound(c, s) ==
  /\ c.kind = "save" => ScriptAgree(c.text, c.segments) /\ c.text.of = c.of
  /\ c.kind = "load" /\ c.live => c.of = s

ScriptInFlight == \A i \in DOMAIN wire : ScriptSound(wire[i], subject)

\* The editor shows the text of the note, or what was typed for it.
ScriptEditing ==
  /\ subject # None => paper.text # None /\ paper.text.of = subject
  /\ paper.dirty => subject # None /\ ScriptAgree(paper.draft, paper.segments)
                    /\ paper.draft.of = subject

ScriptWhole == \A t \in Notes : scripts[t] # None =>
           scripts[t].text.of = t /\ ScriptAgree(scripts[t].text, scripts[t].segments)

ScriptInv == ScriptTypes /\ ScriptInFlight /\ ScriptEditing /\ ScriptWhole


-----------------------------------------------------------------------------
LEMMA ScriptTails ==
  ASSUME NEW w \in Seq(Script!Wired), w # <<>>, NEW s, \A i \in DOMAIN w : ScriptSound(w[i], s)
  PROVE  /\ Tail(w) \in Seq(Script!Wired) /\ Head(w) \in Script!Wired /\ ScriptSound(Head(w), s)
         /\ \A i \in DOMAIN Tail(w) : ScriptSound(Tail(w)[i], s)
<1>1. /\ Tail(w) \in Seq(Script!Wired) /\ Head(w) = w[1] /\ 1 \in DOMAIN w
      /\ \A i \in DOMAIN Tail(w) : i + 1 \in DOMAIN w /\ Tail(w)[i] = w[i + 1]
  OBVIOUS
<1>2. w[1] \in Script!Wired
  BY <1>1
<1> QED
  BY <1>1, <1>2

LEMMA ScriptAppends ==
  ASSUME NEW w \in Seq(Script!Wired), NEW c \in Script!Wired, NEW s,
         \A i \in DOMAIN w : ScriptSound(w[i], s), ScriptSound(c, s)
  PROVE  /\ Append(w, c) \in Seq(Script!Wired)
         /\ \A i \in DOMAIN Append(w, c) : ScriptSound(Append(w, c)[i], s)
<1>1. /\ Append(w, c) \in Seq(Script!Wired)
      /\ \A i \in DOMAIN Append(w, c) :
           Append(w, c)[i] = c \/ (i \in DOMAIN w /\ Append(w, c)[i] = w[i])
  OBVIOUS
<1> QED
  BY <1>1

\* What is not waited for any more is of any note.
LEMMA ScriptStopped ==
  ASSUME NEW w \in Seq(Script!Wired), NEW s, NEW t, \A i \in DOMAIN w : ScriptSound(w[i], s)
  PROVE  Script!stopped(w) \in Seq(Script!Wired) /\ \A i \in DOMAIN Script!stopped(w) : ScriptSound(Script!stopped(w)[i], t)
<1>1. \A i \in DOMAIN w : w[i] \in Script!Wired
  OBVIOUS
<1>2. ASSUME NEW i \in DOMAIN w
      PROVE  /\ [w[i] EXCEPT !.live = @ /\ w[i].kind # "load"] \in Script!Wired
             /\ ScriptSound([w[i] EXCEPT !.live = @ /\ w[i].kind # "load"], t)
  <2> DEFINE live == w[i].live /\ w[i].kind # "load"
             c == [w[i] EXCEPT !.live = live]
  <2>1. live \in BOOLEAN /\ (live => w[i].kind # "load")
    OBVIOUS
  <2> HIDE DEF live
  <2>2. /\ c \in Script!Wired /\ c.kind = w[i].kind /\ c.of = w[i].of /\ c.text = w[i].text
        /\ c.segments = w[i].segments /\ c.live = live
    BY <1>1, <2>1 DEF Script!Wired
  <2> HIDE DEF c
  <2>3. ScriptSound(c, t)
    BY <2>1, <2>2 DEF ScriptSound
  <2> QED
    BY <2>2, <2>3 DEF c, live
<1>3. Script!stopped(w) = [i \in DOMAIN w |-> [w[i] EXCEPT !.live = @ /\ w[i].kind # "load"]]
  BY DEF Script!stopped
<1>4. \A i \in DOMAIN Script!stopped(w) : i \in DOMAIN w /\ Script!stopped(w)[i] \in Script!Wired /\ ScriptSound(Script!stopped(w)[i], t)
  BY <1>2, <1>3
<1>5. DOMAIN Script!stopped(w) = 1..Len(w) /\ Len(w) \in Nat
  BY <1>3
<1>6. Script!stopped(w) \in [1..Len(w) -> Script!Wired]
  BY <1>3, <1>4, <1>5
<1> QED
  BY <1>4, <1>5, <1>6

LEMMA ScriptStarts == ScriptConstants /\ Script!Init => ScriptInv
<1> SUFFICES ASSUME ScriptConstants, Script!Init PROVE ScriptInv
  OBVIOUS
<1>1. \A t \in Notes : Script!Original(t) \in Script!Copies /\ Script!Original(t) # None /\ Script!Original(t).of = t
  BY DEF Script!Original, Script!Copies, Script!Blank, ScriptConstants
<1>2. PICK marks \in BOOLEAN :
        scripts = [t \in Notes |-> [text |-> Script!Original(t), polished |-> None,
                                   segments |-> IF marks THEN Script!Original(t) ELSE None]]
  BY DEF Script!Init
<1>3. \A t \in Notes : scripts[t] \in ScriptScripts
  BY <1>1, <1>2 DEF ScriptScripts, Script!Maybe
<1>4. ScriptWhole
  BY <1>1, <1>2 DEF ScriptWhole, ScriptAgree
<1>5. wire \in Seq(Script!Wired) /\ DOMAIN wire = {}
  BY DEF Script!Init
<1>6. paper \in ScriptPapers /\ paper.dirty = FALSE /\ subject = None
  BY DEF Script!Init, ScriptPapers, Script!Maybe
<1>7. ScriptTypes
  <2>1. scripts \in [Notes -> ScriptScripts \cup {None}]
    BY <1>2, <1>3
  <2>2. polish = None /\ erasing = None /\ edits = 0
    BY DEF Script!Init
  <2> QED
    BY <1>5, <1>6, <2>1, <2>2 DEF ScriptTypes, ScriptConstants
<1> QED
  BY <1>4, <1>5, <1>6, <1>7 DEF ScriptInv, ScriptInFlight, ScriptEditing

\* Steps that change neither the texts nor what is typed nor what is in flight.
LEMMA ScriptOthers ==
  ASSUME ScriptInv, UNCHANGED <<scripts, subject, paper, wire, edits>>,
         erasing' \in Notes \cup {None}, polish' \in [of : Notes, from : Script!Maybe] \cup {None}
  PROVE  ScriptInv'
BY DEF ScriptInv, ScriptTypes, ScriptInFlight, ScriptEditing, ScriptWhole

\* Another note, or none, comes into the workspace.
LEMMA ScriptLoads ==
  ASSUME ScriptConstants, ScriptInv, NEW t \in Notes \cup {None}, t # None => scripts[t] # None,
         subject' = t, Script!loadDetail(t), UNCHANGED <<polish, edits>>,
         erasing' \in Notes \cup {None}, scripts' \in [Notes -> ScriptScripts \cup {None}], ScriptWhole'
  PROVE  ScriptInv'
<1>1. Script!stopped(wire) \in Seq(Script!Wired) /\ \A i \in DOMAIN Script!stopped(wire) : ScriptSound(Script!stopped(wire)[i], t)
  BY ScriptStopped DEF ScriptInv, ScriptTypes, ScriptInFlight
<1>2. wire' \in Seq(Script!Wired) /\ \A i \in DOMAIN wire' : ScriptSound(wire'[i], t)
  <2>1. CASE t = None
    BY <1>1, <2>1 DEF Script!loadDetail
  <2>2. CASE t # None
    <3> DEFINE c == Script!loadTranscriptDetail(t, None)
    <3>1. c \in Script!Wired /\ ScriptSound(c, t)
      BY <2>2 DEF Script!loadTranscriptDetail, Script!Wired, ScriptSound, Script!Maybe
    <3>2. wire' = Append(Script!stopped(wire), c)
      BY <2>2 DEF Script!loadDetail
    <3> HIDE DEF c
    <3> QED
      BY <1>1, <3>1, <3>2, ScriptAppends
  <2> QED
    BY <2>1, <2>2
<1> DEFINE text == IF t = None THEN None ELSE scripts[t].text
<1>3. text \in Script!Maybe /\ (t # None => text # None /\ text.of = t)
  BY DEF ScriptInv, ScriptTypes, ScriptScripts, ScriptWhole, ScriptAgree, Script!Maybe
<1>4. paper' = [paper EXCEPT !.detail = None, !.segments = None, !.dirty = FALSE,
                  !.text = text, !.draft = text, !.loading = @ \/ t # None]
  BY DEF Script!loadDetail
<1> HIDE DEF text
<1>5. paper' \in ScriptPapers /\ paper'.text = text /\ ~paper'.dirty
  BY <1>3, <1>4 DEF ScriptInv, ScriptTypes, ScriptPapers, Script!Maybe
<1>6. ScriptTypes' /\ ScriptInFlight' /\ ScriptEditing'
  BY <1>2, <1>3, <1>5 DEF ScriptInv, ScriptTypes, ScriptInFlight, ScriptEditing
<1> QED
  BY <1>6 DEF ScriptInv

LEMMA ScriptRestoreKeeps ==
  ASSUME ScriptConstants, ScriptInv, NEW t \in Notes, Script!restoreHistoryItem(t) PROVE ScriptInv'
BY ScriptLoads DEF Script!restoreHistoryItem, ScriptInv, ScriptTypes, ScriptWhole

LEMMA ScriptStartNewKeeps ==
  ASSUME ScriptConstants, ScriptInv, Script!startNewTaskFromToolbar
  PROVE  ScriptInv'
BY ScriptLoads DEF Script!startNewTaskFromToolbar, ScriptInv, ScriptTypes, ScriptWhole

LEMMA ScriptConfirmDeletionKeeps ==
  ASSUME ScriptConstants, ScriptInv, Script!confirmHistoryDeletion
  PROVE  ScriptInv'
BY ScriptOthers DEF Script!confirmHistoryDeletion, ScriptInv, ScriptTypes

LEMMA ScriptCompleteDeletionKeeps ==
  ASSUME ScriptConstants, ScriptInv, Script!completeHistoryTaskDeletion PROVE ScriptInv'
<1>1. erasing \in Notes /\ erasing' = None /\ UNCHANGED <<polish, edits>>
  BY DEF Script!completeHistoryTaskDeletion, ScriptInv, ScriptTypes
<1>2. CASE scripts' = [scripts EXCEPT ![erasing] = None]
  <2>1. scripts' \in [Notes -> ScriptScripts \cup {None}] /\ ScriptWhole'
    BY <1>1, <1>2 DEF ScriptInv, ScriptTypes, ScriptWhole
  <2>2. CASE subject' = None /\ Script!loadDetail(None)
    BY <1>1, <2>1, <2>2, ScriptLoads
  <2>3. CASE UNCHANGED <<subject, paper, wire>>
    BY <1>1, <2>1, <2>3 DEF ScriptInv, ScriptTypes, ScriptInFlight, ScriptEditing
  <2>4. CASE UNCHANGED <<scripts, subject, paper, wire>>
    BY <1>1, <2>4, ScriptOthers DEF ScriptInv, ScriptTypes
  <2> QED
    BY <2>2, <2>3, <2>4 DEF Script!completeHistoryTaskDeletion
<1>3. CASE UNCHANGED <<scripts, subject, paper, wire>>
  BY <1>1, <1>3, ScriptOthers DEF ScriptInv, ScriptTypes
<1> QED
  BY <1>2, <1>3 DEF Script!completeHistoryTaskDeletion


-----------------------------------------------------------------------------
\* What a note's files are served as.
LEMMA ScriptServed ==
  ASSUME ScriptConstants, ScriptInv, NEW t \in Notes, scripts[t] # None,
         NEW d \in Script!load_transcript_detail(t)
  PROVE  /\ d \in Script!Detail /\ d.text = scripts[t].text /\ d.segments = scripts[t].segments
         /\ d.polished \in Script!Maybe /\ d.text.of = t /\ ScriptAgree(d.text, d.segments)
<1>1. PICK a \in BOOLEAN :
        d = [text |-> scripts[t].text, segments |-> scripts[t].segments,
             polished |-> Script!load_polished_transcript(scripts[t]), audio |-> a]
  BY DEF Script!load_transcript_detail
<1>2. /\ scripts[t] \in ScriptScripts /\ scripts[t].text.of = t
      /\ ScriptAgree(scripts[t].text, scripts[t].segments)
  BY DEF ScriptInv, ScriptTypes, ScriptWhole
<1>3. Script!load_polished_transcript(scripts[t]) \in Script!Maybe
  BY <1>2 DEF Script!load_polished_transcript, ScriptScripts, Script!Maybe
<1> QED
  BY <1>1, <1>2, <1>3 DEF Script!Detail, ScriptScripts

\* The first command in flight.
LEMMA ScriptFirst ==
  ASSUME ScriptConstants, ScriptInv, wire # <<>>
  PROVE  /\ Tail(wire) \in Seq(Script!Wired) /\ Head(wire) \in Script!Wired /\ ScriptSound(Head(wire), subject)
         /\ \A i \in DOMAIN Tail(wire) : ScriptSound(Tail(wire)[i], subject)
BY ScriptTails DEF ScriptInv, ScriptTypes, ScriptInFlight

LEMMA ScriptLoadAnswerKeeps ==
  ASSUME ScriptConstants, ScriptInv, Script!LoadAnswer
  PROVE  ScriptInv'
<1> DEFINE c == Head(wire)
<1>1. /\ wire # <<>> /\ c.kind = "load" /\ wire' = Tail(wire)
      /\ UNCHANGED <<scripts, subject, polish, erasing, edits>>
  BY DEF Script!LoadAnswer
<1>2. /\ c \in Script!Wired /\ c.of \in Notes /\ (c.live => c.of = subject)
      /\ wire' \in Seq(Script!Wired) /\ \A i \in DOMAIN wire' : ScriptSound(wire'[i], subject)
  BY <1>1, ScriptFirst DEF ScriptSound, Script!Wired
<1>3. paper' \in ScriptPapers /\ ScriptEditing'
  <2>1. CASE UNCHANGED paper
    BY <1>1, <2>1 DEF ScriptInv, ScriptTypes, ScriptEditing
  <2>2. CASE c.live /\ Script!guard_pending_task(c.of)
             /\ \E d \in Script!load_transcript_detail(c.of) :
                  paper' = [paper EXCEPT !.detail = d, !.draft = d.text,
                              !.segments = d.segments, !.loading = FALSE]
    <3>1. PICK d \in Script!load_transcript_detail(c.of) :
            paper' = [paper EXCEPT !.detail = d, !.draft = d.text,
                        !.segments = d.segments, !.loading = FALSE]
      BY <2>2
    <3>2. /\ d \in Script!Detail /\ d.text.of = c.of /\ ScriptAgree(d.text, d.segments)
          /\ d.text \in Script!Maybe /\ d.segments \in Script!Maybe
      BY <1>2, <2>2, ScriptServed DEF Script!guard_pending_task, Script!Detail, Script!Maybe
    <3>3. /\ paper' \in ScriptPapers /\ paper'.draft = d.text /\ paper'.segments = d.segments
          /\ paper'.dirty = paper.dirty /\ paper'.text = paper.text
      BY <3>1, <3>2 DEF ScriptInv, ScriptTypes, ScriptPapers
    <3> QED
      BY <1>1, <1>2, <2>2, <3>2, <3>3 DEF ScriptInv, ScriptEditing
  <2>3. CASE c.live /\ paper' = [paper EXCEPT !.detail = None, !.draft = paper.text,
                                   !.segments = None, !.loading = FALSE]
    <3>1. /\ paper' \in ScriptPapers /\ paper'.draft = paper.text /\ paper'.segments = None
          /\ paper'.dirty = paper.dirty /\ paper'.text = paper.text
      BY <2>3 DEF ScriptInv, ScriptTypes, ScriptPapers, Script!Maybe
    <3> QED
      BY <1>1, <3>1 DEF ScriptInv, ScriptEditing, ScriptAgree
  <2> QED
    BY <2>1, <2>2, <2>3 DEF Script!LoadAnswer
<1>4. ScriptTypes' /\ ScriptInFlight' /\ ScriptWhole'
  BY <1>1, <1>2, <1>3 DEF ScriptInv, ScriptTypes, ScriptInFlight, ScriptWhole
<1> QED
  BY <1>3, <1>4 DEF ScriptInv

\* Only what is typed is sent.
LEMMA ScriptSaveKeeps ==
  ASSUME ScriptConstants, ScriptInv, Script!saveTranscriptDocument, paper.dirty
  PROVE  ScriptInv'
<1> DEFINE c == Script!saveTranscriptEdit(subject, paper.draft, paper.segments)
<1>1. /\ paper' = [paper EXCEPT !.saving = TRUE] /\ wire' = Append(wire, c)
      /\ UNCHANGED <<scripts, subject, polish, erasing, edits>>
  BY DEF Script!saveTranscriptDocument
<1>2. c \in Script!Wired /\ ScriptSound(c, subject)
  BY DEF Script!saveTranscriptDocument, Script!saveTranscriptEdit, Script!Wired, ScriptSound,
         ScriptInv, ScriptTypes, ScriptEditing, ScriptPapers, Script!Maybe
<1> HIDE DEF c
<1>3. wire' \in Seq(Script!Wired) /\ \A i \in DOMAIN wire' : ScriptSound(wire'[i], subject)
  BY <1>1, <1>2, ScriptAppends DEF ScriptInv, ScriptTypes, ScriptInFlight
<1>4. /\ paper' \in ScriptPapers /\ paper'.draft = paper.draft /\ paper'.segments = paper.segments
      /\ paper'.dirty = paper.dirty /\ paper'.text = paper.text
  BY <1>1 DEF ScriptInv, ScriptTypes, ScriptPapers
<1> QED
  BY <1>1, <1>3, <1>4 DEF ScriptInv, ScriptTypes, ScriptInFlight, ScriptEditing, ScriptWhole

LEMMA ScriptSaveAnswerKeeps ==
  ASSUME ScriptConstants, ScriptInv, Script!SaveAnswer
  PROVE  ScriptInv'
<1> DEFINE c == Head(wire)
<1>1. wire # <<>> /\ c.kind = "save" /\ UNCHANGED <<subject, polish, erasing, edits>>
  BY DEF Script!SaveAnswer
<1>2. /\ c \in Script!Wired /\ c.of \in Notes /\ ScriptAgree(c.text, c.segments) /\ c.text.of = c.of
      /\ c.text \in Script!Copies /\ c.segments \in Script!Maybe
      /\ Tail(wire) \in Seq(Script!Wired) /\ \A i \in DOMAIN Tail(wire) : ScriptSound(Tail(wire)[i], subject)
  BY <1>1, ScriptFirst DEF ScriptSound, Script!Wired, ScriptAgree, Script!Maybe
<1>3. \/ scripts[c.of] # None
         /\ scripts' = [scripts EXCEPT ![c.of] = Script!save_transcript(@, c.text, c.segments)]
      \/ UNCHANGED scripts
  BY DEF Script!SaveAnswer
<1>4. scripts' \in [Notes -> ScriptScripts \cup {None}] /\ ScriptWhole'
  <2>1. CASE UNCHANGED scripts
    BY <2>1 DEF ScriptInv, ScriptTypes, ScriptWhole
  <2>2. CASE scripts[c.of] # None
             /\ scripts' = [scripts EXCEPT ![c.of] = Script!save_transcript(@, c.text, c.segments)]
    <3> DEFINE s == [scripts[c.of] EXCEPT !.text = c.text, !.segments = c.segments]
    <3>1. scripts[c.of] \in ScriptScripts /\ scripts \in [Notes -> ScriptScripts \cup {None}]
      BY <1>2, <2>2 DEF ScriptInv, ScriptTypes
    <3>2. s \in ScriptScripts /\ s.text = c.text /\ s.segments = c.segments
      BY <1>2, <3>1 DEF ScriptScripts
    <3>3. scripts' = [scripts EXCEPT ![c.of] = s]
      BY <1>2, <2>2, <3>1 DEF Script!save_transcript
    <3> HIDE DEF s
    <3> QED
      BY <1>2, <3>1, <3>2, <3>3 DEF ScriptInv, ScriptWhole
  <2> QED
    BY <1>3, <2>1, <2>2
<1>5. wire' \in Seq(Script!Wired) /\ \A i \in DOMAIN wire' : ScriptSound(wire'[i], subject)
  <2> DEFINE r == Script!loadTranscriptDetail(c.of, "save")
  <2>1. r \in Script!Wired /\ ScriptSound(r, subject)
    BY <1>2
       DEF Script!loadTranscriptDetail, Script!Wired, ScriptSound, Script!Maybe, ScriptConstants
  <2>2. wire' = Tail(wire) \/ wire' = Append(Tail(wire), r)
    BY DEF Script!SaveAnswer
  <2> HIDE DEF r
  <2> QED
    BY <1>2, <2>1, <2>2, ScriptAppends
<1>6. paper' \in ScriptPapers /\ ScriptEditing'
  <2>1. CASE paper' = [paper EXCEPT !.saving = FALSE]
    <3>1. /\ paper' \in ScriptPapers /\ paper'.draft = paper.draft /\ paper'.segments = paper.segments
          /\ paper'.dirty = paper.dirty /\ paper'.text = paper.text
      BY <2>1 DEF ScriptInv, ScriptTypes, ScriptPapers
    <3> QED
      BY <1>1, <3>1 DEF ScriptInv, ScriptEditing
  <2> DEFINE words == IF paper.detail = None THEN None
                       ELSE [paper.detail EXCEPT !.text = c.text, !.segments = c.segments]
  <2>2. CASE subject = c.of /\ paper' = [paper EXCEPT !.text = c.text, !.draft = c.text,
                                           !.dirty = FALSE, !.detail = words]
    <3>1. words \in Script!Detail \cup {None}
      BY <1>2 DEF ScriptInv, ScriptTypes, ScriptPapers, Script!Detail
    <3> HIDE DEF words
    <3>2. paper' \in ScriptPapers /\ paper'.text = c.text /\ ~paper'.dirty
      BY <1>2, <2>2, <3>1 DEF ScriptInv, ScriptTypes, ScriptPapers, Script!Maybe
    <3> QED
      BY <1>1, <1>2, <2>2, <3>2 DEF ScriptEditing, ScriptAgree
  <2> QED
    BY <2>1, <2>2 DEF Script!SaveAnswer
<1> QED
  BY <1>1, <1>4, <1>5, <1>6 DEF ScriptInv, ScriptTypes, ScriptInFlight

LEMMA ScriptRefreshKeeps ==
  ASSUME ScriptConstants, ScriptInv, Script!refreshPolishedTranscript
  PROVE  ScriptInv'
<1> DEFINE c == Head(wire)
<1>1. /\ wire # <<>> /\ wire' = Tail(wire) /\ UNCHANGED <<scripts, subject, erasing, edits>>
      /\ polish' \in {polish, None}
  BY DEF Script!refreshPolishedTranscript
<1>2. /\ c \in Script!Wired /\ c.of \in Notes
      /\ wire' \in Seq(Script!Wired) /\ \A i \in DOMAIN wire' : ScriptSound(wire'[i], subject)
  BY <1>1, ScriptFirst DEF Script!Wired
<1>3. /\ paper' \in ScriptPapers /\ paper'.draft = paper.draft /\ paper'.segments = paper.segments
      /\ paper'.dirty = paper.dirty /\ paper'.text = paper.text
  <2> DEFINE saving == paper.saving /\ c.after # "save"
  <2>1. saving \in BOOLEAN
    OBVIOUS
  <2>2. CASE paper' = [paper EXCEPT !.saving = saving]
    <3> HIDE DEF saving
    <3> QED
      BY <2>1, <2>2 DEF ScriptInv, ScriptTypes, ScriptPapers
  <2>3. ASSUME Script!guard_pending_task(c.of), NEW d \in Script!load_transcript_detail(c.of),
               paper' = [paper EXCEPT !.saving = saving,
                           !.detail = IF @ = None \/ subject # c.of THEN @
                                      ELSE [@ EXCEPT !.polished = d.polished]]
        PROVE  /\ paper' \in ScriptPapers /\ paper'.draft = paper.draft
               /\ paper'.segments = paper.segments
               /\ paper'.dirty = paper.dirty /\ paper'.text = paper.text
    <3> DEFINE words == IF paper.detail = None \/ subject # c.of THEN paper.detail
                         ELSE [paper.detail EXCEPT !.polished = d.polished]
    <3>1. d.polished \in Script!Maybe
      BY <1>2, <2>3, ScriptServed DEF Script!guard_pending_task
    <3>2. words \in Script!Detail \cup {None}
      BY <3>1 DEF ScriptInv, ScriptTypes, ScriptPapers, Script!Detail
    <3>3. paper' = [paper EXCEPT !.saving = saving, !.detail = words]
      BY <2>3 DEF ScriptInv, ScriptTypes, ScriptPapers
    <3> HIDE DEF saving, words
    <3> QED
      BY <2>1, <3>2, <3>3 DEF ScriptInv, ScriptTypes, ScriptPapers
  <2> QED
    BY <2>2, <2>3 DEF Script!refreshPolishedTranscript
<1> QED
  BY <1>1, <1>2, <1>3 DEF ScriptInv, ScriptTypes, ScriptInFlight, ScriptEditing, ScriptWhole

LEMMA ScriptDiscardKeeps ==
  ASSUME ScriptConstants, ScriptInv, Script!discardTranscriptDraft
  PROVE  ScriptInv'
<1> DEFINE draft == IF paper.detail = None THEN paper.text ELSE paper.detail.text
           segments == IF paper.detail = None THEN None ELSE paper.detail.segments
<1>1. /\ paper' = [paper EXCEPT !.dirty = FALSE, !.draft = draft, !.segments = segments]
      /\ UNCHANGED <<scripts, subject, wire, polish, erasing, edits>>
  BY DEF Script!discardTranscriptDraft
<1>2. draft \in Script!Maybe /\ segments \in Script!Maybe
  BY DEF ScriptInv, ScriptTypes, ScriptPapers, Script!Detail, Script!Maybe
<1> HIDE DEF draft, segments
<1>3. paper' \in ScriptPapers /\ ~paper'.dirty /\ paper'.text = paper.text
  BY <1>1, <1>2 DEF ScriptInv, ScriptTypes, ScriptPapers
<1> QED
  BY <1>1, <1>3 DEF ScriptInv, ScriptTypes, ScriptInFlight, ScriptEditing, ScriptWhole


-----------------------------------------------------------------------------
LEMMA ScriptPolishReadsKeeps ==
  ASSUME ScriptConstants, ScriptInv, Script!PolishReads
  PROVE  ScriptInv'
<1>1. /\ polish # None /\ scripts[polish.of] # None
      /\ polish' = [polish EXCEPT !.from = scripts[polish.of].text]
      /\ UNCHANGED <<scripts, subject, paper, wire, erasing, edits>>
  BY DEF Script!PolishReads
<1>2. polish \in [of : Notes, from : Script!Maybe] /\ scripts[polish.of] \in ScriptScripts
  BY <1>1 DEF ScriptInv, ScriptTypes
<1>3. polish' \in [of : Notes, from : Script!Maybe]
  BY <1>1, <1>2 DEF ScriptScripts, Script!Maybe
<1> QED
  BY <1>1, <1>3, ScriptOthers DEF ScriptInv, ScriptTypes

LEMMA ScriptPolishEndsKeeps ==
  ASSUME ScriptConstants, ScriptInv, Script!PolishEnds
  PROVE  ScriptInv'
<1>1. polish \in [of : Notes, from : Script!Maybe] /\ UNCHANGED <<subject, paper, erasing, edits>>
  BY DEF Script!PolishEnds, ScriptInv, ScriptTypes
<1>2. CASE polish' = None /\ UNCHANGED <<scripts, wire>>
  BY <1>1, <1>2, ScriptOthers DEF ScriptInv, ScriptTypes
<1>3. CASE /\ scripts[polish.of] # None
           /\ scripts' = [scripts EXCEPT ![polish.of].polished = polish.from]
           /\ wire' = Append(wire, Script!loadTranscriptDetail(polish.of, "polish"))
           /\ UNCHANGED polish
  <2> DEFINE t == polish.of
             s == [scripts[t] EXCEPT !.polished = polish.from]
             c == Script!loadTranscriptDetail(t, "polish")
  <2>1. t \in Notes /\ polish.from \in Script!Maybe /\ scripts[t] \in ScriptScripts
        /\ scripts \in [Notes -> ScriptScripts \cup {None}]
    BY <1>1, <1>3 DEF ScriptInv, ScriptTypes
  <2>2. s \in ScriptScripts /\ s.text = scripts[t].text /\ s.segments = scripts[t].segments
    BY <2>1 DEF ScriptScripts
  <2>3. scripts' = [scripts EXCEPT ![t] = s]
    BY <1>3, <2>1
  <2>4. c \in Script!Wired /\ ScriptSound(c, subject)
    BY <2>1
       DEF Script!loadTranscriptDetail, Script!Wired, ScriptSound, Script!Maybe, ScriptConstants
  <2>5. wire' = Append(wire, c)
    BY <1>3
  <2> HIDE DEF s, c
  <2>6. scripts' \in [Notes -> ScriptScripts \cup {None}] /\ ScriptWhole'
    BY <1>3, <2>1, <2>2, <2>3 DEF ScriptInv, ScriptWhole
  <2>7. wire' \in Seq(Script!Wired) /\ \A i \in DOMAIN wire' : ScriptSound(wire'[i], subject)
    BY <2>4, <2>5, ScriptAppends DEF ScriptInv, ScriptTypes, ScriptInFlight
  <2> QED
    BY <1>1, <1>3, <2>6, <2>7 DEF ScriptInv, ScriptTypes, ScriptInFlight, ScriptEditing
<1> QED
  BY <1>2, <1>3 DEF Script!PolishEnds

LEMMA ScriptTypedIsOfSubject ==
  ASSUME ScriptConstants, ScriptInv, subject # None, NEW c \in Script!Typed
  PROVE  /\ c \in Script!Copies /\ c # None /\ c.of = subject
         /\ (IF c.n = Script!Blank THEN edits ELSE c.n) \in 0..MaxEdits
<1>1. subject \in Notes /\ edits \in 0..MaxEdits /\ MaxEdits \in Nat
  BY DEF ScriptInv, ScriptTypes, ScriptConstants
<1>2. PICK k \in {Script!Blank} \cup (IF edits < MaxEdits THEN {edits + 1} ELSE {}) :
        c = [of |-> subject, n |-> k]
  BY DEF Script!Typed
<1>3. k = Script!Blank \/ k \in 0..MaxEdits
  BY <1>1, <1>2
<1>4. c \in Script!Copies
  BY <1>1, <1>2, <1>3 DEF Script!Copies, Script!Blank
<1> QED
  BY <1>1, <1>2, <1>3, <1>4 DEF ScriptConstants

LEMMA ScriptSegmentsTyped ==
  ASSUME ScriptConstants, ScriptInv, subject # None, NEW c \in Script!Typed, Script!updateTranscriptSegmentDraft(c)
  PROVE  ScriptInv'
<1>1. /\ c \in Script!Copies /\ c # None /\ c.of = subject /\ c \in Script!Maybe /\ edits' \in 0..MaxEdits
  BY ScriptTypedIsOfSubject DEF Script!updateTranscriptSegmentDraft, Script!Maybe
<1>2. /\ paper' = [paper EXCEPT !.segments = c, !.draft = c, !.dirty = TRUE]
      /\ UNCHANGED <<scripts, subject, wire, polish, erasing>>
  BY DEF Script!updateTranscriptSegmentDraft
<1>3. /\ paper' \in ScriptPapers /\ paper'.segments = c /\ paper'.draft = c
      /\ paper'.text = paper.text
  BY <1>1, <1>2 DEF ScriptInv, ScriptTypes, ScriptPapers
<1> QED
  BY <1>1, <1>2, <1>3
     DEF ScriptInv, ScriptTypes, ScriptInFlight, ScriptEditing, ScriptWhole, ScriptAgree

\* The whole text is edited where there are no time marks, or none with a letter.
LEMMA ScriptTextTyped ==
  ASSUME ScriptConstants, ScriptInv, subject # None, NEW c \in Script!Typed, Script!updateFullTranscriptDraft(c),
         ~Script!visibleTranscriptSegments, player.editing = "full-text"
  PROVE  ScriptInv'
<1>1. /\ c \in Script!Copies /\ c # None /\ c.of = subject /\ c \in Script!Maybe /\ edits' \in 0..MaxEdits
  BY ScriptTypedIsOfSubject DEF Script!updateFullTranscriptDraft, Script!Maybe
<1>2. /\ paper' = [paper EXCEPT !.draft = c, !.dirty = TRUE]
      /\ UNCHANGED <<scripts, subject, wire, polish, erasing>>
  BY DEF Script!updateFullTranscriptDraft
<1>3. paper.segments = None \/ paper.segments.n = Script!Blank
  BY DEF Script!visibleTranscriptSegments
<1>4. /\ paper' \in ScriptPapers /\ paper'.segments = paper.segments /\ paper'.draft = c
      /\ paper'.text = paper.text
  BY <1>1, <1>2 DEF ScriptInv, ScriptTypes, ScriptPapers
<1> QED
  BY <1>1, <1>2, <1>3, <1>4
     DEF ScriptInv, ScriptTypes, ScriptInFlight, ScriptEditing, ScriptWhole, ScriptAgree

LEMMA ScriptReviewKeeps ==
  ASSUME ScriptConstants, ScriptInv, subject # None, Script!TranscriptReviewPanel PROVE ScriptInv'
<1>1. CASE Script!playTranscriptSegment \/ Script!toggleTranscriptAudio
  BY <1>1, ScriptOthers
     DEF Script!playTranscriptSegment, Script!toggleTranscriptAudio, ScriptInv, ScriptTypes
<1>2. CASE Script!beginTranscriptSegmentEdit("segment") \/ Script!beginTranscriptSegmentEdit("full-text")
           \/ Script!endTranscriptSegmentEdit
  BY <1>2, ScriptOthers
     DEF Script!beginTranscriptSegmentEdit, Script!endTranscriptSegmentEdit, ScriptInv,
         ScriptTypes
<1>3. CASE \E c \in Script!Typed : Script!updateTranscriptSegmentDraft(c)
  BY <1>3, ScriptSegmentsTyped
<1>4. CASE /\ ~Script!visibleTranscriptSegments /\ player.editing = "full-text"
           /\ \E c \in Script!Typed : Script!updateFullTranscriptDraft(c)
  BY <1>4, ScriptTextTyped
<1>5. CASE paper.dirty /\ Script!saveTranscriptDocument
  BY <1>5, ScriptSaveKeeps
<1> QED
  BY <1>1, <1>2, <1>3, <1>4, <1>5 DEF Script!TranscriptReviewPanel

LEMMA ScriptWorkspaceKeeps ==
  ASSUME ScriptConstants, ScriptInv, Script!LocalTranscriptWorkspace
  PROVE  ScriptInv'
<1>1. subject # None /\ subject \in Notes /\ None \in Script!Maybe
  BY DEF Script!LocalTranscriptWorkspace, ScriptInv, ScriptTypes, Script!Maybe
<1>2. CASE Script!TranscriptReviewPanel
  BY <1>1, <1>2, ScriptReviewKeeps
<1>3. CASE Script!polishTranscript
  <2>1. polish' \in [of : Notes, from : Script!Maybe]
    BY <1>1, <1>3 DEF Script!polishTranscript
  <2> QED
    BY <1>3, <2>1, ScriptOthers DEF Script!polishTranscript, ScriptInv, ScriptTypes
<1> QED
  BY <1>2, <1>3 DEF Script!LocalTranscriptWorkspace

LEMMA ScriptNextKeeps ==
  ASSUME ScriptConstants, ScriptInv, Script!Next \/ UNCHANGED Script!vars
  PROVE  ScriptInv'
<1>1. CASE UNCHANGED Script!vars
  BY <1>1, ScriptOthers DEF Script!vars, ScriptInv, ScriptTypes
<1>2. CASE Script!retryInsights \/ Script!RetryEnds
  BY <1>2, ScriptOthers DEF Script!retryInsights, Script!RetryEnds, ScriptInv, ScriptTypes
<1>3. CASE Script!useStorageEditor
  BY <1>3, ScriptSaveKeeps, ScriptDiscardKeeps DEF Script!useStorageEditor
<1> QED
  BY <1>1, <1>2, <1>3, ScriptRestoreKeeps, ScriptStartNewKeeps, ScriptConfirmDeletionKeeps,
     ScriptCompleteDeletionKeeps, ScriptLoadAnswerKeeps, ScriptSaveAnswerKeeps,
     ScriptRefreshKeeps, ScriptPolishReadsKeeps, ScriptPolishEndsKeeps, ScriptWorkspaceKeeps
     DEF Script!Next

LEMMA ScriptTranscriptsWhole == ASSUME ScriptInv PROVE Script!TranscriptIsWhole
BY DEF ScriptInv, ScriptWhole, Script!TranscriptIsWhole, ScriptAgree

-----------------------------------------------------------------------------
(* The results of a note (Results).                                         *)

MadeSeeds == Nat \cup {None}
MadeNatDrafts == [of : Notes, seed : MadeSeeds, typed : Nat]
MadeMaybeDraft == MadeNatDrafts \cup {None}
MadeNatFolders == [body : Nat, list : Nat, draft : MadeMaybeDraft, seed : MadeSeeds, dissection : MadeSeeds]
MadeBoards == [task : Notes \cup {None}, body : Nat, list : Nat, seed : MadeSeeds, hasDraft : BOOLEAN,
           draft : MadeMaybeDraft, edited : BOOLEAN, dissection : MadeSeeds, stale : BOOLEAN,
           target : Made!Targets \cup {None}, cancelling : BOOLEAN, errors : SUBSET Made!Targets,
           found : Nat]
MadeStints == [of : Notes, target : Made!Targets, seed : MadeSeeds, result : MadeNatFolders \cup {None},
           warned : BOOLEAN]
MadeEditors == [open : BOOLEAN, loading : BOOLEAN, ready : BOOLEAN, early : BOOLEAN, saving : BOOLEAN,
            dirty : BOOLEAN, buffer : MadeMaybeDraft, saved : MadeMaybeDraft, seed : MadeSeeds,
            discard : BOOLEAN]
MadeQuestions == [candidate : [seed : MadeSeeds] \cup {None}, confirm : BOOLEAN, warned : BOOLEAN,
              preview : BOOLEAN, tab : {"insights", "dissection", None}]
MadeWired == [kind : {"load", "save"}, of : Notes, buffer : MadeMaybeDraft, live : BOOLEAN]

MadeConstants ==
  /\ None \notin Notes /\ None \notin Made!Targets /\ None \notin MadeNatDrafts /\ None \notin MadeNatFolders
  /\ None \notin MadeStints /\ None \notin [seed : MadeSeeds] /\ MaxDeeds \in Nat

MadeTypes ==
  /\ folders \in [Notes -> MadeNatFolders \cup {None}] /\ board \in MadeBoards
  /\ stint \in MadeStints \cup {None} /\ editor \in MadeEditors /\ asked \in MadeQuestions
  /\ post \in Seq(MadeWired) /\ leaving \in Notes \cup {None} /\ deeds \in Nat

\* A draft of the note, or none.
MadeDraftOf(d, n) == d # None => d.of = n

\* What the folders and the run hold is of their notes.
MadeFiled == \A n \in Notes : folders[n] # None => MadeDraftOf(folders[n].draft, n)

MadeRunning ==
  /\ stint # None => stint.of = board.task /\ stint.target = board.target
  /\ board.target # None => stint # None
  /\ stint # None /\ stint.result # None => MadeDraftOf(stint.result.draft, stint.of)

\* A command in flight is of the note of the sheet; its text is of its note.
MadeSound(c, open, saving, t) ==
  /\ MadeDraftOf(c.buffer, c.of)
  /\ c.kind = "load" /\ c.live => open /\ c.of = t
  /\ c.kind = "save" => saving

MadeOneSave(w) == \A i, j \in DOMAIN w : w[i].kind = "save" /\ w[j].kind = "save" => i = j

MadeInFlight ==
  /\ \A i \in DOMAIN post : MadeSound(post[i], editor.open, editor.saving, board.task)
  /\ MadeOneSave(post)

MadeShown ==
  /\ editor.saving => editor.open
  /\ MadeDraftOf(board.draft, board.task) /\ (board.task = None => board.draft = None)
  /\ editor.open /\ board.task # None =>
       MadeDraftOf(editor.buffer, board.task) /\ MadeDraftOf(editor.saved, board.task)

\* The draft is made again where its sheet is closed, and who edited it was warned.
MadeWarned ==
  /\ asked.confirm => ~editor.open /\ (stint # None => stint.target # "draft")
  /\ asked.confirm /\ board.edited => asked.warned \/ "draft" \in board.errors
  /\ stint # None /\ stint.target = "draft" => ~editor.open /\ (board.edited => stint.warned)

\* A draft that was edited is there, and in what a run brings, too.
MadeEdited ==
  /\ board.edited =>
       /\ board.hasDraft /\ board.task # None
       /\ folders[board.task] # None => folders[board.task].draft # None
       /\ stint # None /\ stint.result # None => stint.result.draft # None
  /\ stint # None /\ stint.result # None /\ stint.result.draft = None /\ folders[stint.of] # None
       => folders[stint.of].draft = None

MadeInv == MadeTypes /\ MadeFiled /\ MadeRunning /\ MadeInFlight /\ MadeShown /\ MadeWarned /\ MadeEdited


-----------------------------------------------------------------------------
LEMMA MadeStarts == MadeConstants /\ Made!Init => MadeInv
<1> SUFFICES ASSUME MadeConstants, Made!Init PROVE MadeInv
  OBVIOUS
<1>1. PICK drafted \in BOOLEAN :
        folders = [n \in Notes |->
          [body |-> 0, list |-> 1, dissection |-> None, seed |-> IF drafted THEN 1 ELSE None,
           draft |-> IF drafted THEN [of |-> n, seed |-> 1, typed |-> 0] ELSE None]]
  BY DEF Made!Init
<1>2. ASSUME NEW n \in Notes
      PROVE folders[n] \in MadeNatFolders /\ MadeDraftOf(folders[n].draft, n)
  <2> DEFINE d == IF drafted THEN [of |-> n, seed |-> 1, typed |-> 0] ELSE None
             s == IF drafted THEN 1 ELSE None
  <2>1. d \in MadeMaybeDraft /\ s \in MadeSeeds /\ MadeDraftOf(d, n)
    BY DEF MadeMaybeDraft, MadeNatDrafts, MadeSeeds, MadeDraftOf
  <2>2. folders[n] = [body |-> 0, list |-> 1, dissection |-> None, seed |-> s, draft |-> d]
    BY <1>1
  <2> HIDE DEF d, s
  <2> QED
    BY <2>1, <2>2 DEF MadeNatFolders, MadeSeeds
<1>3. folders \in [Notes -> MadeNatFolders \cup {None}]
  BY <1>1, <1>2
<1>4. /\ board = Made!createInitialWorkflow /\ stint = None /\ editor = Made!ClosedEditor
      /\ asked = Made!NothingAsked /\ post = <<>> /\ leaving = None /\ deeds = 0
  BY DEF Made!Init
<1>5. /\ board \in MadeBoards /\ board.task = None /\ board.target = None /\ board.draft = None
      /\ ~board.edited
  BY <1>4 DEF Made!createInitialWorkflow, MadeBoards, MadeSeeds, MadeMaybeDraft
<1>6. editor \in MadeEditors /\ ~editor.open /\ ~editor.saving
  BY <1>4 DEF Made!ClosedEditor, MadeEditors, MadeSeeds, MadeMaybeDraft
<1>7. asked \in MadeQuestions /\ ~asked.confirm
  BY <1>4 DEF Made!NothingAsked, MadeQuestions
<1>8. MadeTypes
  BY <1>3, <1>4, <1>5, <1>6, <1>7 DEF MadeTypes
<1> QED
  BY <1>2, <1>4, <1>5, <1>6, <1>7, <1>8
     DEF MadeInv, MadeFiled, MadeRunning, MadeInFlight, MadeOneSave, MadeShown, MadeWarned,
         MadeEdited, MadeDraftOf

\* Steps of the other sheets, after which no draft is confirmed that was not before.
LEMMA MadeAsks ==
  ASSUME MadeInv, UNCHANGED <<folders, board, stint, editor, post, deeds>>,
         leaving' \in Notes \cup {None}, asked' \in MadeQuestions,
         asked'.confirm => asked.confirm /\ asked'.warned = asked.warned
  PROVE  MadeInv'
BY DEF MadeInv, MadeTypes, MadeFiled, MadeRunning, MadeInFlight, MadeShown, MadeWarned,
       MadeEdited

\* What only the workspace shows, without the run and the draft.
LEMMA MadeShows ==
  ASSUME MadeInv, UNCHANGED <<folders, stint, editor, asked, post, leaving, deeds>>,
         board' \in MadeBoards,
         \A k \in {"task", "target", "hasDraft", "draft", "edited", "errors"} :
           board'[k] = board[k]
  PROVE  MadeInv'
<1>1. /\ board'.task = board.task /\ board'.target = board.target
      /\ board'.hasDraft = board.hasDraft /\ board'.draft = board.draft
      /\ board'.edited = board.edited /\ board'.errors = board.errors
  OBVIOUS
<1> QED
  BY <1>1
     DEF MadeInv, MadeTypes, MadeFiled, MadeRunning, MadeInFlight, MadeShown, MadeWarned,
         MadeEdited

\* No command is waited for any more.
LEMMA MadeLetGo ==
  ASSUME MadeTypes, NEW open, NEW open2, NEW saving, NEW t, NEW t2,
         \A i \in DOMAIN post : MadeSound(post[i], open, saving, t), MadeOneSave(post),
         post' = [i \in DOMAIN post |-> [post[i] EXCEPT !.live = FALSE]]
  PROVE  /\ post' \in Seq(MadeWired) /\ \A i \in DOMAIN post' : MadeSound(post'[i], open2, saving, t2)
         /\ MadeOneSave(post')
<1>1. post \in Seq(MadeWired) /\ \A i \in DOMAIN post : post[i] \in MadeWired
  BY DEF MadeTypes
<1>2. ASSUME NEW i \in DOMAIN post
      PROVE  /\ [post[i] EXCEPT !.live = FALSE] \in MadeWired
             /\ [post[i] EXCEPT !.live = FALSE].kind = post[i].kind
             /\ MadeSound([post[i] EXCEPT !.live = FALSE], open2, saving, t2)
  <2> DEFINE c == [post[i] EXCEPT !.live = FALSE]
  <2>1. /\ c \in MadeWired /\ c.kind = post[i].kind /\ c.of = post[i].of
        /\ c.buffer = post[i].buffer /\ ~c.live
    BY <1>1 DEF MadeWired
  <2> HIDE DEF c
  <2>2. MadeSound(c, open2, saving, t2)
    BY <2>1 DEF MadeSound
  <2> QED
    BY <2>1, <2>2 DEF c
<1>3. \A i \in DOMAIN post' : i \in DOMAIN post /\ post'[i] \in MadeWired
                              /\ MadeSound(post'[i], open2, saving, t2)
                              /\ post'[i].kind = post[i].kind
  BY <1>2
<1>4. DOMAIN post' = 1..Len(post) /\ Len(post) \in Nat
  BY <1>1
<1>5. post' \in [1..Len(post) -> MadeWired]
  BY <1>3, <1>4
<1>6. MadeOneSave(post')
  BY <1>3 DEF MadeOneSave
<1> QED
  BY <1>3, <1>4, <1>5, <1>6

LEMMA MadeFirst ==
  ASSUME MadeInv, post # <<>>
  PROVE  /\ Tail(post) \in Seq(MadeWired) /\ Head(post) \in MadeWired
         /\ MadeSound(Head(post), editor.open, editor.saving, board.task)
         /\ \A i \in DOMAIN Tail(post) : MadeSound(Tail(post)[i], editor.open, editor.saving, board.task)
         /\ MadeOneSave(Tail(post))
         /\ Head(post).kind = "save" => \A i \in DOMAIN Tail(post) : Tail(post)[i].kind # "save"
<1>1. post \in Seq(MadeWired)
  BY DEF MadeInv, MadeTypes
<1>2. /\ Tail(post) \in Seq(MadeWired) /\ Head(post) = post[1] /\ 1 \in DOMAIN post
      /\ \A i \in DOMAIN Tail(post) : i + 1 \in DOMAIN post /\ Tail(post)[i] = post[i + 1]
  BY <1>1
<1>3. post[1] \in MadeWired
  BY <1>1, <1>2
<1>4. /\ MadeOneSave(Tail(post))
      /\ Head(post).kind = "save" => \A i \in DOMAIN Tail(post) : Tail(post)[i].kind # "save"
  <2>1. MadeOneSave(post) /\ \A i \in DOMAIN Tail(post) : i \in Int /\ i + 1 # 1
    BY <1>1 DEF MadeInv, MadeInFlight
  <2>2. ASSUME NEW i \in DOMAIN Tail(post), NEW j \in DOMAIN Tail(post),
               Tail(post)[i].kind = "save", Tail(post)[j].kind = "save"
        PROVE  i = j
    <3>1. i + 1 = j + 1
      BY <1>2, <2>1, <2>2 DEF MadeOneSave
    <3> QED
      BY <2>1, <3>1
  <2>3. ASSUME Head(post).kind = "save", NEW i \in DOMAIN Tail(post), Tail(post)[i].kind = "save"
        PROVE  FALSE
    BY <1>2, <2>1, <2>3 DEF MadeOneSave
  <2> QED
    BY <2>2, <2>3 DEF MadeOneSave
<1> QED
  BY <1>2, <1>3, <1>4 DEF MadeInv, MadeInFlight

LEMMA MadeSends ==
  ASSUME NEW w \in Seq(MadeWired), NEW c \in MadeWired, NEW open, NEW saving, NEW t,
         \A i \in DOMAIN w : MadeSound(w[i], open, saving, t), MadeSound(c, open, saving, t),
         MadeOneSave(w), c.kind = "save" => \A i \in DOMAIN w : w[i].kind # "save"
  PROVE  /\ Append(w, c) \in Seq(MadeWired)
         /\ \A i \in DOMAIN Append(w, c) : MadeSound(Append(w, c)[i], open, saving, t)
         /\ MadeOneSave(Append(w, c))
<1>1. /\ Append(w, c) \in Seq(MadeWired)
      /\ \A i \in DOMAIN Append(w, c) :
           \/ i = Len(w) + 1 /\ Append(w, c)[i] = c
           \/ i \in DOMAIN w /\ Append(w, c)[i] = w[i]
  OBVIOUS
<1>2. MadeOneSave(Append(w, c))
  BY <1>1 DEF MadeOneSave
<1> QED
  BY <1>1, <1>2

\* A board of a note that comes into the workspace while nothing runs.
LEMMA MadeComes ==
  ASSUME MadeConstants, MadeInv, board.target = None, ~editor.open, ~asked.confirm,
         board' \in MadeBoards, board'.target = None, ~board'.edited, board'.draft = None,
         asked' \in MadeQuestions, ~asked'.confirm,
         UNCHANGED <<folders, stint, editor, post, leaving, deeds>>
  PROVE  MadeInv'
<1>1. stint = None /\ ~editor.saving
  BY DEF MadeInv, MadeTypes, MadeRunning, MadeStints, MadeBoards, MadeConstants, MadeShown
<1>2. \A i \in DOMAIN post : MadeSound(post[i], editor.open, editor.saving, board'.task)
  BY DEF MadeInv, MadeInFlight, MadeSound
<1> QED
  BY <1>1, <1>2
     DEF MadeInv, MadeTypes, MadeFiled, MadeRunning, MadeInFlight, MadeShown, MadeWarned,
         MadeEdited, MadeDraftOf

LEMMA MadeInitialBoard ==
  /\ Made!createInitialWorkflow \in MadeBoards /\ Made!createInitialWorkflow.target = None
  /\ ~Made!createInitialWorkflow.edited /\ Made!createInitialWorkflow.draft = None
  /\ Made!createInitialWorkflow.task = None
BY DEF Made!createInitialWorkflow, MadeBoards, MadeSeeds, MadeMaybeDraft

LEMMA MadeTaskUi ==
  ASSUME MadeTypes, Made!resetTaskUi
  PROVE  asked' \in MadeQuestions /\ asked'.confirm = asked.confirm /\ asked'.warned = asked.warned
BY DEF MadeTypes, Made!resetTaskUi, MadeQuestions

LEMMA MadeEditTyped == ASSUME MadeTypes, NEW n PROVE Made!StoredEdit(n) \in Nat
<1>1. CASE n \in Notes /\ folders[n] # None /\ folders[n].draft # None
  <2>1. folders[n] \in MadeNatFolders
    BY <1>1 DEF MadeTypes
  <2>2. folders[n].draft \in MadeNatDrafts
    BY <1>1, <2>1 DEF MadeNatFolders, MadeMaybeDraft
  <2> QED
    BY <1>1, <2>2 DEF Made!StoredEdit, MadeNatDrafts
<1> QED
  BY <1>1 DEF Made!StoredEdit

LEMMA MadeRestoreKeeps ==
  ASSUME MadeConstants, MadeInv, NEW n \in Notes, Made!restoreHistoryItem(n) PROVE MadeInv'
<1>1. /\ board.target = None /\ ~editor.open /\ ~asked.confirm /\ folders[n] # None
      /\ board' = Made!historyItemToWorkerResult(n) /\ Made!resetTaskUi
      /\ UNCHANGED <<folders, stint, editor, post, leaving, deeds>>
  BY DEF Made!restoreHistoryItem, Made!canNavigateWorkflow, Made!isProcessingStage,
         Made!Uncovered
<1>2. folders[n] \in MadeNatFolders
  BY <1>1 DEF MadeInv, MadeTypes
<1> DEFINE f == folders[n]
           stale == f.dissection # None /\ f.dissection # f.body
           drafted == f.draft # None
           found == Made!StoredEdit(n)
<1>3. board' = [Made!createInitialWorkflow EXCEPT !.task = n, !.body = f.body, !.list = f.list,
                  !.hasDraft = drafted, !.dissection = f.dissection, !.stale = stale,
                  !.found = found]
  BY <1>1 DEF Made!historyItemToWorkerResult
<1>4. stale \in BOOLEAN /\ drafted \in BOOLEAN /\ found \in Nat
  BY MadeEditTyped DEF MadeInv
<1> HIDE DEF stale, drafted, found
<1>5. board' \in MadeBoards /\ board'.target = None /\ ~board'.edited /\ board'.draft = None
  BY <1>2, <1>3, <1>4, MadeInitialBoard
     DEF Made!createInitialWorkflow, MadeBoards, MadeNatFolders
<1> QED
  BY <1>1, <1>5, MadeComes, MadeTaskUi DEF MadeInv

LEMMA MadeStartNewKeeps ==
  ASSUME MadeConstants, MadeInv, Made!startNewTaskFromToolbar
  PROVE  MadeInv'
<1>1. /\ board.target = None /\ ~editor.open /\ ~asked.confirm
      /\ board' = Made!createInitialWorkflow /\ Made!resetTaskUi
      /\ UNCHANGED <<folders, stint, editor, post, leaving, deeds>>
  BY DEF Made!startNewTaskFromToolbar, Made!canNavigateWorkflow, Made!isProcessingStage,
         Made!Uncovered
<1> QED
  BY <1>1, MadeInitialBoard, MadeComes, MadeTaskUi DEF MadeInv

LEMMA MadeConfirmDeletionKeeps == ASSUME MadeInv, Made!confirmHistoryDeletion PROVE MadeInv'
<1>1. leaving' \in Notes \cup {None}
  BY DEF Made!confirmHistoryDeletion, MadeInv, MadeTypes, MadeBoards
<1> QED
  BY <1>1, MadeAsks DEF Made!confirmHistoryDeletion, MadeInv, MadeTypes

LEMMA MadeCompleteDeletionKeeps ==
  ASSUME MadeConstants, MadeInv, Made!completeHistoryTaskDeletion PROVE MadeInv'
<1>1. leaving \in Notes /\ leaving' = None /\ UNCHANGED <<stint, deeds>>
  BY DEF Made!completeHistoryTaskDeletion, MadeInv, MadeTypes
<1>2. CASE UNCHANGED <<folders, board, asked, editor, post>>
  BY <1>1, <1>2, MadeAsks DEF MadeInv, MadeTypes
<1>3. CASE folders' = [folders EXCEPT ![leaving] = None]
  <2>1. /\ folders' \in [Notes -> MadeNatFolders \cup {None}] /\ MadeFiled'
        /\ \A n \in Notes : folders'[n] \in {folders[n], None}
    BY <1>1, <1>3 DEF MadeInv, MadeTypes, MadeFiled
  <2>2. CASE UNCHANGED <<board, asked, editor, post>>
    <3>1. MadeEdited'
      <4>1. stint # None => stint.of \in Notes
        BY DEF MadeInv, MadeTypes, MadeStints
      <4>2. board.task # None => board.task \in Notes
        BY DEF MadeInv, MadeTypes, MadeBoards
      <4> QED
        BY <1>1, <2>1, <2>2, <4>1, <4>2 DEF MadeInv, MadeEdited
    <3> QED
      BY <1>1, <2>1, <2>2, <3>1
         DEF MadeInv, MadeTypes, MadeRunning, MadeInFlight, MadeShown, MadeWarned
  <2>3. CASE /\ ~Made!isProcessingStage /\ board' = Made!createInitialWorkflow /\ Made!resetTaskUi
             /\ editor' = [editor EXCEPT !.ready = FALSE, !.discard = FALSE]
             /\ post' = [i \in DOMAIN post |-> [post[i] EXCEPT !.live = FALSE]]
    <3>1. stint = None
      BY <2>3
         DEF Made!isProcessingStage, MadeInv, MadeTypes, MadeRunning, MadeStints, MadeBoards,
             MadeConstants
    <3>2. /\ editor' \in MadeEditors /\ editor'.open = editor.open /\ editor'.saving = editor.saving
      BY <2>3 DEF MadeInv, MadeTypes, MadeEditors
    <3>3. /\ post' \in Seq(MadeWired) /\ MadeOneSave(post')
          /\ \A i \in DOMAIN post' : MadeSound(post'[i], editor'.open, editor'.saving, board'.task)
      BY <2>3, <3>2, MadeLetGo DEF MadeInv, MadeInFlight
    <3>4. /\ board' \in MadeBoards /\ board'.target = None /\ ~board'.edited
          /\ board'.draft = None /\ board'.task = None
      BY <2>3, MadeInitialBoard
    <3>5. asked' \in MadeQuestions /\ asked'.confirm = asked.confirm
      BY <2>3, MadeTaskUi DEF MadeInv
    <3> QED
      BY <1>1, <2>1, <3>1, <3>2, <3>3, <3>4, <3>5
         DEF MadeInv, MadeTypes, MadeRunning, MadeInFlight, MadeShown, MadeWarned, MadeEdited,
             MadeDraftOf
  <2> QED
    BY <2>2, <2>3 DEF Made!completeHistoryTaskDeletion, Made!isProcessingStage
<1> QED
  BY <1>2, <1>3 DEF Made!completeHistoryTaskDeletion


-----------------------------------------------------------------------------
LEMMA MadeTextSaveKeeps ==
  ASSUME MadeConstants, MadeInv, Made!applyTranscriptSave
  PROVE  MadeInv'
<1> DEFINE n == deeds + 1
           t == board.task
<1>1. /\ t \in Notes /\ board.target = None /\ folders[t] # None /\ folders[t] \in MadeNatFolders
      /\ n \in Nat /\ deeds' = n
      /\ UNCHANGED <<stint, editor, asked, post, leaving>>
  BY DEF Made!applyTranscriptSave, Made!isProcessingStage, MadeInv, MadeTypes, MadeBoards
<1>2. stint = None
  BY <1>1 DEF MadeInv, MadeTypes, MadeRunning, MadeStints, MadeBoards, MadeConstants
<1> DEFINE f == [folders[t] EXCEPT !.body = n]
           stale == board.stale \/ board.dissection # None
<1>3. /\ folders' = [folders EXCEPT ![t] = f]
      /\ board' = [board EXCEPT !.body = n, !.stale = stale]
  BY DEF Made!applyTranscriptSave, MadeInv, MadeTypes
<1> HIDE DEF n
<1>4. f \in MadeNatFolders /\ f.draft = folders[t].draft
  BY <1>1 DEF MadeNatFolders
<1>5. stale \in BOOLEAN
  BY DEF MadeInv, MadeTypes, MadeBoards
<1> HIDE DEF f, stale, t
<1>6. /\ folders' \in [Notes -> MadeNatFolders \cup {None}]
      /\ \A m \in Notes : folders[m] # None => folders'[m] # None /\ folders'[m].draft = folders[m].draft
      /\ \A m \in Notes : folders[m] = None => folders'[m] = None
  BY <1>1, <1>3, <1>4 DEF MadeInv, MadeTypes, MadeConstants
<1>7. /\ board' \in MadeBoards /\ board'.task = board.task /\ board'.target = board.target
      /\ board'.hasDraft = board.hasDraft /\ board'.draft = board.draft
      /\ board'.edited = board.edited /\ board'.errors = board.errors
  BY <1>1, <1>3, <1>5 DEF MadeInv, MadeTypes, MadeBoards
<1>8. MadeFiled'
  BY <1>6 DEF MadeInv, MadeTypes, MadeFiled
<1>9. MadeEdited'
  BY <1>1, <1>2, <1>6, <1>7 DEF MadeInv, MadeEdited, MadeTypes, MadeBoards
<1> QED
  BY <1>1, <1>2, <1>6, <1>7, <1>8, <1>9
     DEF MadeInv, MadeTypes, MadeRunning, MadeInFlight, MadeShown, MadeWarned

\* A card offers to make the draft when there is none, or when it failed.
LEMMA MadeDraftCardActs ==
  ASSUME MadeConstants, MadeInv, Made!AiTargetCardActs("draft")
  PROVE  stint = None /\ ~editor.open /\ (board.edited => "draft" \in board.errors)
<1>1. board.target = None /\ ~editor.open
  BY DEF Made!AiTargetCardActs, Made!Uncovered, Made!isProcessingStage
<1>2. stint = None
  BY <1>1 DEF MadeInv, MadeTypes, MadeRunning, MadeStints, MadeBoards, MadeConstants
<1>3. ASSUME board.edited PROVE "draft" \in board.errors
  <2>1. board.hasDraft /\ board.task # None
    BY <1>3 DEF MadeInv, MadeEdited
  <2> SUFFICES ASSUME "draft" \notin board.errors PROVE FALSE
    OBVIOUS
  <2>2. board.target # "draft"
    BY <1>1 DEF Made!Targets, MadeConstants
  <2>3. Made!aiTargetStatus("draft") \in {"available", "failed"}
    BY DEF Made!AiTargetCardActs
  <2> QED
    BY <2>1, <2>2, <2>3 DEF Made!aiTargetStatus
<1> QED
  BY <1>1, <1>2, <1>3

LEMMA MadeAskDraftKeeps ==
  ASSUME MadeConstants, MadeInv, Made!openDraftConfirmation
  PROVE  MadeInv'
<1>1. /\ asked' = [asked EXCEPT !.confirm = TRUE, !.warned = FALSE]
      /\ UNCHANGED <<folders, board, stint, editor, post, leaving, deeds>>
      /\ stint = None /\ ~editor.open /\ (board.edited => "draft" \in board.errors)
  BY MadeDraftCardActs DEF Made!openDraftConfirmation
<1>2. asked' \in MadeQuestions
  BY <1>1 DEF MadeInv, MadeTypes, MadeQuestions
<1> QED
  BY <1>1, <1>2
     DEF MadeInv, MadeTypes, MadeFiled, MadeRunning, MadeInFlight, MadeShown, MadeWarned,
         MadeEdited

LEMMA MadeDetailKeeps ==
  ASSUME MadeInv, \/ \E target \in Made!Targets : Made!openDetailTab(target)
                  \/ Made!closeDetail \/ Made!openDissectionConfirmation \/ Made!closeDissectionConfirmation
                  \/ Made!cancelDraftConfirmation \/ Made!cancelRegeneration
  PROVE  MadeInv'
<1>1. /\ UNCHANGED <<folders, board, stint, editor, post, leaving, deeds>>
      /\ \/ \E tab \in {"insights", "dissection", None} : asked' = [asked EXCEPT !.tab = tab]
         \/ \E preview \in BOOLEAN : asked' = [asked EXCEPT !.preview = preview]
         \/ asked' = [asked EXCEPT !.confirm = FALSE, !.warned = FALSE]
         \/ asked' = [asked EXCEPT !.candidate = None]
  BY DEF Made!openDetailTab, Made!closeDetail, Made!openDissectionConfirmation,
         Made!closeDissectionConfirmation, Made!cancelDraftConfirmation,
         Made!cancelRegeneration, Made!Targets
<1>2. /\ asked' \in MadeQuestions
      /\ asked'.confirm => asked.confirm /\ asked'.warned = asked.warned
  BY <1>1 DEF MadeInv, MadeTypes, MadeQuestions
<1> QED
  BY <1>1, <1>2, MadeAsks DEF MadeInv, MadeTypes

LEMMA MadeSeedKeeps ==
  ASSUME MadeInv, NEW seed \in MadeSeeds, Made!setDraftSeedInsightId(seed) PROVE MadeInv'
<1>1. /\ board' = [board EXCEPT !.seed = seed]
      /\ UNCHANGED <<folders, stint, editor, asked, post, leaving, deeds>>
  BY DEF Made!setDraftSeedInsightId
<1>2. /\ board' \in MadeBoards
      /\ \A k \in {"task", "target", "hasDraft", "draft", "edited", "errors"} :
           board'[k] = board[k]
  BY <1>1 DEF MadeInv, MadeTypes, MadeBoards
<1> QED
  BY <1>1, <1>2, MadeShows

LEMMA MadeDetailSheetKeeps == ASSUME MadeInv, Made!AiResultDetailSheet PROVE MadeInv'
<1>1. \A seed \in {board.list, None} : seed \in MadeSeeds
  BY DEF MadeInv, MadeTypes, MadeBoards, MadeSeeds
<1> QED
  BY <1>1, MadeSeedKeeps, MadeDetailKeeps
     DEF Made!AiResultDetailSheet, Made!locateDissectionChunks

\* A run that begins: the draft's begins with its warning.
LEMMA MadeRetryKeeps ==
  ASSUME MadeConstants, MadeInv, NEW target \in Made!Targets, NEW seed \in MadeSeeds, NEW sheets \in MadeQuestions,
         Made!retryInsightGeneration(target, seed, sheets),
         sheets.confirm => asked.confirm /\ sheets.warned = asked.warned /\ target # "draft",
         target = "draft" => ~editor.open /\ (board.edited => asked.warned \/ "draft" \in board.errors)
  PROVE  MadeInv'
<1>1. UNCHANGED <<folders, editor, post, leaving>>
  BY DEF Made!retryInsightGeneration
<1>2. CASE UNCHANGED <<board, stint, deeds>> /\ asked' = sheets
  BY <1>1, <1>2, MadeAsks DEF MadeInv, MadeTypes
<1> DEFINE warned == target = "draft" /\ (asked.warned \/ target \in board.errors)
           errors == board.errors \ {target}
<1>3. CASE /\ board.target = None /\ board.task # None /\ deeds' = deeds + 1
           /\ board' = [board EXCEPT !.target = target, !.errors = errors]
           /\ stint' = [of |-> board.task, target |-> target, seed |-> seed, result |-> None,
                        warned |-> warned]
           /\ asked' = [sheets EXCEPT !.tab = None]
  <2>1. /\ warned \in BOOLEAN /\ errors \in SUBSET Made!Targets
        /\ ("draft" \in errors <=> "draft" \in board.errors /\ target # "draft")
        /\ target = "draft" /\ board.edited => warned
    BY DEF MadeInv, MadeTypes, MadeBoards
  <2> HIDE DEF warned, errors
  <2>2. /\ board' \in MadeBoards /\ board'.target = target /\ board'.errors = errors
        /\ board'.task = board.task /\ board'.hasDraft = board.hasDraft
        /\ board'.draft = board.draft /\ board'.edited = board.edited
    BY <1>3, <2>1 DEF MadeInv, MadeTypes, MadeBoards
  <2>3. board.task \in Notes
    BY <1>3 DEF MadeInv, MadeTypes, MadeBoards
  <2>4. /\ stint' \in MadeStints /\ stint'.of = board.task /\ stint'.target = target
        /\ stint'.result = None /\ stint'.warned = warned
    BY <1>3, <2>1, <2>3 DEF MadeStints
  <2>5. /\ asked' \in MadeQuestions /\ asked'.confirm = sheets.confirm
        /\ asked'.warned = sheets.warned
    BY <1>3 DEF MadeQuestions
  <2>6. deeds' \in Nat
    BY <1>3 DEF MadeInv, MadeTypes
  <2>7. MadeTypes'
    BY <1>1, <2>2, <2>4, <2>5, <2>6 DEF MadeInv, MadeTypes
  <2>8. MadeWarned'
    <3>1. asked'.confirm => ~editor'.open /\ stint'.target # "draft"
      BY <1>1, <2>4, <2>5 DEF MadeInv, MadeWarned
    <3>2. asked'.confirm /\ board'.edited => asked'.warned \/ "draft" \in board'.errors
      BY <1>1, <2>1, <2>2, <2>5 DEF MadeInv, MadeWarned
    <3>3. stint'.target = "draft" => ~editor'.open /\ (board'.edited => stint'.warned)
      BY <1>1, <2>1, <2>2, <2>4
    <3> QED
      BY <3>1, <3>2, <3>3 DEF MadeWarned
  <2>9. MadeFiled' /\ MadeInFlight' /\ MadeShown'
    BY <1>1, <2>2 DEF MadeInv, MadeFiled, MadeInFlight, MadeShown
  <2>10. MadeRunning'
    BY <2>2, <2>4 DEF MadeRunning, MadeConstants
  <2>11. MadeEdited'
    BY <1>1, <2>2, <2>4 DEF MadeInv, MadeEdited
  <2> QED
    BY <2>7, <2>8, <2>9, <2>10, <2>11 DEF MadeInv
<1> QED
  BY <1>2, <1>3 DEF Made!retryInsightGeneration, Made!isProcessingStage

LEMMA MadeConfirmsKeep ==
  ASSUME MadeConstants, MadeInv, Made!confirmDissection \/ Made!confirmInsightPreferences
  PROVE  MadeInv'
<1>1. asked \in MadeQuestions /\ None \in MadeSeeds /\ "dissection" \in Made!Targets /\ "insights" \in Made!Targets
  BY DEF MadeInv, MadeTypes, MadeSeeds, Made!Targets
<1> DEFINE sheets == [asked EXCEPT !.preview = FALSE]
<1>2. sheets \in MadeQuestions /\ sheets.confirm = asked.confirm /\ sheets.warned = asked.warned
  BY <1>1 DEF MadeQuestions
<1> HIDE DEF sheets
<1>3. CASE Made!confirmDissection
  <2>1. Made!retryInsightGeneration("dissection", None, sheets)
    BY <1>3 DEF Made!confirmDissection, sheets
  <2> QED
    BY <1>1, <1>2, <2>1, MadeRetryKeeps
<1>4. CASE Made!confirmInsightPreferences
  BY <1>1, <1>4, MadeRetryKeeps DEF Made!confirmInsightPreferences
<1> QED
  BY <1>3, <1>4

LEMMA MadeConfirmDraftKeeps ==
  ASSUME MadeConstants, MadeInv, Made!confirmDraftGeneration
  PROVE  MadeInv'
<1> DEFINE closed == [asked EXCEPT !.confirm = FALSE, !.warned = FALSE]
<1>1. closed \in MadeQuestions /\ ~closed.confirm
  BY DEF MadeInv, MadeTypes, MadeQuestions
<1>2. asked.confirm /\ board.seed \in MadeSeeds /\ "draft" \in Made!Targets
  BY DEF Made!confirmDraftGeneration, MadeInv, MadeTypes, MadeBoards, Made!Targets
<1>3. \/ asked' = closed /\ UNCHANGED <<folders, board, stint, editor, post, leaving, deeds>>
      \/ Made!retryInsightGeneration("draft", board.seed, closed)
  BY DEF Made!confirmDraftGeneration
<1> HIDE DEF closed
<1>4. CASE asked' = closed /\ UNCHANGED <<folders, board, stint, editor, post, leaving, deeds>>
  BY <1>1, <1>4, MadeAsks DEF MadeInv, MadeTypes
<1>5. CASE Made!retryInsightGeneration("draft", board.seed, closed)
  <2>1. ~editor.open /\ (board.edited => asked.warned \/ "draft" \in board.errors)
    BY <1>2 DEF MadeInv, MadeWarned
  <2> QED
    BY <1>1, <1>2, <1>5, <2>1, MadeRetryKeeps
<1> QED
  BY <1>3, <1>4, <1>5


-----------------------------------------------------------------------------
\* What a run may make of a folder: its draft is new, or the one that was there.
LEMMA MadeMade ==
  ASSUME MadeConstants, MadeInv, stint # None, NEW f \in MadeNatFolders, MadeDraftOf(f.draft, stint.of),
         NEW result,
         result = CASE stint.target = "insights" -> [f EXCEPT !.list = @ + 1, !.seed = None]
                    [] stint.target = "draft" ->
                         [f EXCEPT !.seed = stint.seed,
                            !.draft = [of |-> stint.of, seed |-> stint.seed, typed |-> 0]]
                    [] OTHER -> [f EXCEPT !.dissection = f.body]
  PROVE  /\ result \in MadeNatFolders /\ MadeDraftOf(result.draft, stint.of)
         /\ f.draft # None => result.draft # None
<1>1. stint \in MadeStints
  BY DEF MadeInv, MadeTypes
<1>2. CASE stint.target = "insights"
  <2> DEFINE n == f.list + 1
  <2>1. n \in Nat
    BY DEF MadeNatFolders
  <2>2. result = [f EXCEPT !.list = n, !.seed = None]
    BY <1>2
  <2> HIDE DEF n
  <2> QED
    BY <2>1, <2>2 DEF MadeNatFolders, MadeSeeds
<1>3. CASE stint.target = "draft"
  <2> DEFINE d == [of |-> stint.of, seed |-> stint.seed, typed |-> 0]
  <2>1. d \in MadeNatDrafts /\ d.of = stint.of
    BY <1>1 DEF MadeStints, MadeNatDrafts
  <2>2. result = [f EXCEPT !.seed = stint.seed, !.draft = d]
    BY <1>3
  <2> HIDE DEF d
  <2>3. result \in MadeNatFolders /\ result.draft = d
    BY <1>1, <2>1, <2>2 DEF MadeNatFolders, MadeMaybeDraft, MadeStints
  <2> QED
    BY <2>1, <2>3 DEF MadeDraftOf, MadeConstants
<1>4. CASE stint.target \notin {"insights", "draft"}
  <2>1. result = [f EXCEPT !.dissection = f.body]
    BY <1>4
  <2> QED
    BY <2>1 DEF MadeNatFolders, MadeSeeds
<1> QED
  BY <1>2, <1>3, <1>4

LEMMA MadeCommitKeeps == ASSUME MadeConstants, MadeInv, Made!WorkerCommits PROVE MadeInv'
<1> DEFINE n == stint.of
           f == folders[n]
           result == CASE stint.target = "insights" -> [f EXCEPT !.list = @ + 1, !.seed = None]
                       [] stint.target = "draft" ->
                            [f EXCEPT !.seed = stint.seed,
                               !.draft = [of |-> stint.of, seed |-> stint.seed, typed |-> 0]]
                       [] OTHER -> [f EXCEPT !.dissection = f.body]
<1>1. /\ stint # None /\ stint.result = None /\ f # None
      /\ folders' = [folders EXCEPT ![n] = result]
      /\ stint' = [stint EXCEPT !.result = result]
      /\ UNCHANGED <<board, editor, asked, post, leaving, deeds>>
  BY DEF Made!WorkerCommits
<1>2. stint \in MadeStints /\ n \in Notes /\ f \in MadeNatFolders /\ MadeDraftOf(f.draft, n)
  BY <1>1 DEF MadeInv, MadeTypes, MadeStints, MadeFiled
<1>3. /\ result \in MadeNatFolders /\ MadeDraftOf(result.draft, n)
      /\ f.draft # None => result.draft # None
  BY <1>1, <1>2, MadeMade
<1> HIDE DEF result, f
<1>4. /\ folders' \in [Notes -> MadeNatFolders \cup {None}] /\ MadeFiled' /\ folders'[n] = result
      /\ \A m \in Notes : m # n => folders'[m] = folders[m]
  BY <1>1, <1>2, <1>3 DEF MadeInv, MadeTypes, MadeFiled
<1>5. /\ stint' \in MadeStints /\ stint'.of = n /\ stint'.target = stint.target
      /\ stint'.result = result /\ stint'.warned = stint.warned
  BY <1>1, <1>2, <1>3 DEF MadeStints
<1>6. MadeRunning' /\ MadeWarned'
  <2>1. MadeRunning'
    BY <1>1, <1>3, <1>5 DEF MadeInv, MadeRunning, MadeConstants
  <2>2. MadeWarned'
    BY <1>1, <1>5 DEF MadeInv, MadeWarned
  <2> QED
    BY <2>1, <2>2
<1>7. MadeEdited'
  <2>1. n = board.task
    BY <1>1 DEF MadeInv, MadeRunning
  <2>2. result # None
    BY <1>3 DEF MadeConstants
  <2>3. board.edited => result.draft # None
    BY <1>1, <1>3, <2>1 DEF MadeInv, MadeEdited, f
  <2> QED
    BY <1>1, <1>4, <1>5, <2>1, <2>2, <2>3 DEF MadeInv, MadeEdited
<1> QED
  BY <1>1, <1>4, <1>5, <1>6, <1>7 DEF MadeInv, MadeTypes, MadeInFlight, MadeShown

\* The board when the run has ended.
LEMMA MadeEndedBoard ==
  ASSUME MadeInv
  PROVE  /\ Made!Ended \in MadeBoards /\ Made!Ended.target = None
         /\ Made!Ended.task = board.task /\ Made!Ended.hasDraft = board.hasDraft
         /\ Made!Ended.draft = board.draft /\ Made!Ended.edited = board.edited
         /\ Made!Ended.errors = board.errors
BY DEF MadeInv, MadeTypes, Made!Ended, MadeBoards

LEMMA MadeFinishKeeps == ASSUME MadeConstants, MadeInv, Made!finishInsightRetry PROVE MadeInv'
<1> DEFINE f == stint.result
           hasDraft == f.draft # None
           draft == IF stint.target = "draft" THEN f.draft ELSE None
           seed == IF stint.target = "insights" THEN None ELSE Made!Ended.seed
           edited == Made!Ended.edited /\ stint.target # "draft"
           stale == Made!Ended.stale /\ stint.target # "dissection"
<1>1. /\ stint # None /\ f # None /\ stint' = None
      /\ UNCHANGED <<folders, editor, asked, post, leaving, deeds>>
      /\ board' = [Made!Ended EXCEPT !.list = f.list, !.hasDraft = hasDraft, !.draft = draft,
                     !.seed = seed, !.edited = edited, !.dissection = f.dissection,
                     !.stale = stale]
  BY DEF Made!finishInsightRetry
<1>2. /\ stint \in MadeStints /\ f \in MadeNatFolders /\ MadeDraftOf(f.draft, board.task)
      /\ board.task \in Notes
  BY <1>1 DEF MadeInv, MadeTypes, MadeStints, MadeRunning
<1>3. /\ hasDraft \in BOOLEAN /\ draft \in MadeMaybeDraft /\ seed \in MadeSeeds
      /\ edited \in BOOLEAN /\ stale \in BOOLEAN /\ MadeDraftOf(draft, board.task)
      /\ edited => board.edited /\ hasDraft
  <2>1. draft \in MadeMaybeDraft /\ MadeDraftOf(draft, board.task)
    BY <1>2 DEF MadeNatFolders, MadeMaybeDraft, MadeDraftOf
  <2>2. seed \in MadeSeeds
    BY MadeEndedBoard DEF MadeBoards, MadeSeeds
  <2>3. edited => board.edited /\ hasDraft
    BY <1>1, MadeEndedBoard DEF MadeInv, MadeEdited
  <2> QED
    BY <2>1, <2>2, <2>3
<1> HIDE DEF f, hasDraft, draft, seed, edited, stale
<1>4. /\ board' \in MadeBoards /\ board'.target = None /\ board'.task = board.task
      /\ board'.hasDraft = hasDraft /\ board'.draft = draft /\ board'.edited = edited
      /\ board'.errors = board.errors
  BY <1>1, <1>2, <1>3, MadeEndedBoard DEF MadeBoards, MadeNatFolders
<1>5. MadeShown' /\ MadeInFlight'
  BY <1>1, <1>2, <1>3, <1>4 DEF MadeInv, MadeShown, MadeInFlight, MadeConstants
<1>6. MadeWarned' /\ MadeRunning' /\ MadeEdited'
  BY <1>1, <1>2, <1>3, <1>4 DEF MadeInv, MadeWarned, MadeRunning, MadeEdited
<1> QED
  BY <1>1, <1>4, <1>5, <1>6 DEF MadeInv, MadeTypes, MadeFiled

LEMMA MadeFailKeeps == ASSUME MadeConstants, MadeInv, Made!RunFails PROVE MadeInv'
<1>1. /\ stint # None /\ stint.result = None /\ stint' = None
      /\ UNCHANGED <<editor, asked, post, leaving, deeds>>
  BY DEF Made!RunFails
<1>2. PICK still \in BOOLEAN :
        board' = [Made!Ended EXCEPT !.errors = IF still THEN @ \cup {stint.target} ELSE @ \ {stint.target},
             !.seed = IF stint.target = "insights" THEN None ELSE @,
             !.edited = @ /\ (stint.target # "draft" \/ still),
             !.found = IF stint.target = "draft" /\ ~still THEN Made!StoredEdit(stint.of) ELSE @]
  BY DEF Made!RunFails
<1> DEFINE errors == IF still THEN Made!Ended.errors \cup {stint.target}
                     ELSE Made!Ended.errors \ {stint.target}
           seed == IF stint.target = "insights" THEN None ELSE Made!Ended.seed
           edited == Made!Ended.edited /\ (stint.target # "draft" \/ still)
           found == IF stint.target = "draft" /\ ~still THEN Made!StoredEdit(stint.of) ELSE Made!Ended.found
<1>3. board' = [Made!Ended EXCEPT !.errors = errors, !.seed = seed, !.edited = edited, !.found = found]
  BY <1>2
<1>4. stint \in MadeStints /\ stint.of = board.task /\ stint.of \in Notes /\ stint.target \in Made!Targets
  BY <1>1 DEF MadeInv, MadeTypes, MadeStints, MadeRunning
<1>5. /\ errors \in SUBSET Made!Targets /\ seed \in MadeSeeds /\ edited \in BOOLEAN /\ found \in Nat
      /\ edited => board.edited
      /\ stint.target # "draft" => ("draft" \in errors <=> "draft" \in board.errors)
  <2>1. errors \in SUBSET Made!Targets
    BY <1>4, MadeEndedBoard DEF MadeBoards
  <2>2. seed \in MadeSeeds
    BY MadeEndedBoard DEF MadeBoards, MadeSeeds
  <2>3. edited => board.edited
    BY MadeEndedBoard
  <2>4. stint.target # "draft" => ("draft" \in errors <=> "draft" \in board.errors)
    BY MadeEndedBoard
  <2>5. found \in Nat
    BY MadeEndedBoard, MadeEditTyped DEF MadeBoards, MadeInv
  <2> QED
    BY <2>1, <2>2, <2>3, <2>4, <2>5
<1> HIDE DEF errors, seed, edited, found
<1>6. /\ board' \in MadeBoards /\ board'.target = None /\ board'.task = board.task
      /\ board'.hasDraft = board.hasDraft /\ board'.draft = board.draft
      /\ board'.edited = edited /\ board'.errors = errors
  BY <1>3, <1>5, MadeEndedBoard DEF MadeBoards
<1>7. /\ folders' \in [Notes -> MadeNatFolders \cup {None}]
      /\ \A m \in Notes : /\ folders'[m] = None <=> folders[m] = None
                          /\ folders[m] # None => folders'[m].draft = folders[m].draft
  <2>1. CASE UNCHANGED folders
    BY <2>1 DEF MadeInv, MadeTypes
  <2>2. CASE folders[stint.of] # None /\ folders' = [folders EXCEPT ![stint.of].seed = stint.seed]
    <3> DEFINE n == stint.of
               f == [folders[n] EXCEPT !.seed = stint.seed]
    <3>1. n \in Notes /\ folders[n] \in MadeNatFolders /\ folders \in [Notes -> MadeNatFolders \cup {None}]
      BY <1>4, <2>2 DEF MadeInv, MadeTypes
    <3>2. f \in MadeNatFolders /\ f.draft = folders[n].draft
      BY <1>4, <3>1 DEF MadeNatFolders, MadeStints
    <3>3. folders' = [folders EXCEPT ![n] = f]
      BY <2>2, <3>1
    <3> HIDE DEF f
    <3> QED
      BY <2>2, <3>1, <3>2, <3>3 DEF MadeConstants
  <2> QED
    BY <2>1, <2>2 DEF Made!RunFails
<1>8. MadeFiled'
  BY <1>7 DEF MadeInv, MadeFiled
<1>9. MadeShown' /\ MadeInFlight'
  BY <1>1, <1>6 DEF MadeInv, MadeShown, MadeInFlight
<1>10. MadeWarned' /\ MadeRunning'
  BY <1>1, <1>5, <1>6 DEF MadeInv, MadeWarned, MadeRunning
<1>11. MadeEdited'
  BY <1>1, <1>4, <1>5, <1>6, <1>7 DEF MadeInv, MadeEdited
<1> QED
  BY <1>1, <1>6, <1>7, <1>8, <1>9, <1>10, <1>11 DEF MadeInv, MadeTypes

LEMMA MadeCancelKeeps ==
  ASSUME MadeConstants, MadeInv, Made!requestProcessingCancellation \/ Made!restoreProcessingAfterCancellationFailure
  PROVE  MadeInv'
<1>1. /\ \E c \in BOOLEAN : board' = [board EXCEPT !.cancelling = c]
      /\ UNCHANGED <<folders, stint, editor, asked, post, leaving, deeds>>
  BY DEF Made!requestProcessingCancellation, Made!restoreProcessingAfterCancellationFailure
<1>2. /\ board' \in MadeBoards
      /\ \A k \in {"task", "target", "hasDraft", "draft", "edited", "errors"} :
           board'[k] = board[k]
  BY <1>1 DEF MadeInv, MadeTypes, MadeBoards
<1> QED
  BY <1>1, <1>2, MadeShows

LEMMA MadeCancelledKeeps ==
  ASSUME MadeConstants, MadeInv, Made!confirmProcessingCancellation
  PROVE  MadeInv'
<1>1. /\ stint' = None /\ board' = Made!Ended /\ Made!resetTaskUi
      /\ UNCHANGED <<folders, editor, post, leaving, deeds>>
  BY DEF Made!confirmProcessingCancellation
<1>2. /\ asked' \in MadeQuestions /\ asked'.confirm = asked.confirm /\ asked'.warned = asked.warned
  BY <1>1, MadeTaskUi DEF MadeInv
<1>3. /\ board' \in MadeBoards /\ board'.target = None /\ board'.task = board.task
      /\ board'.hasDraft = board.hasDraft /\ board'.draft = board.draft
      /\ board'.edited = board.edited /\ board'.errors = board.errors
  BY <1>1, MadeEndedBoard
<1>4. MadeShown' /\ MadeInFlight' /\ MadeFiled'
  BY <1>1, <1>3 DEF MadeInv, MadeShown, MadeInFlight, MadeFiled
<1>5. MadeWarned' /\ MadeRunning' /\ MadeEdited'
  BY <1>1, <1>2, <1>3 DEF MadeInv, MadeWarned, MadeRunning, MadeEdited
<1> QED
  BY <1>1, <1>2, <1>3, <1>4, <1>5 DEF MadeInv, MadeTypes


-----------------------------------------------------------------------------
\* Steps of the sheet of the draft that leave it open and send nothing.
LEMMA MadeEdits ==
  ASSUME MadeInv, UNCHANGED <<folders, board, stint, asked, post, leaving>>, deeds' \in Nat,
         editor' \in MadeEditors, editor'.open = editor.open, editor'.saving = editor.saving,
         editor.open /\ board.task # None =>
           MadeDraftOf(editor'.buffer, board.task) /\ MadeDraftOf(editor'.saved, board.task)
  PROVE  MadeInv'
BY DEF MadeInv, MadeTypes, MadeFiled, MadeRunning, MadeInFlight, MadeShown, MadeWarned,
       MadeEdited

LEMMA MadeOpenKeeps == ASSUME MadeConstants, MadeInv, Made!openDraftResult PROVE MadeInv'
<1> DEFINE c == [kind |-> "load", of |-> board.task, buffer |-> None, live |-> TRUE]
<1>1. /\ ~editor.open /\ ~asked.confirm /\ Made!aiTargetStatus("draft") = "ready"
      /\ editor' = [editor EXCEPT !.open = TRUE, !.loading = TRUE, !.ready = FALSE,
                      !.dirty = FALSE, !.early = FALSE, !.buffer = board.draft,
                      !.saved = board.draft, !.seed = None]
      /\ post' = Append(post, c)
      /\ UNCHANGED <<folders, board, stint, asked, leaving, deeds>>
  BY DEF Made!openDraftResult, Made!AiTargetCardViews, Made!Uncovered
<1>2. board.task # None /\ board.task \in Notes /\ board.target # "draft"
  <2>1. board.task # None
    BY <1>1 DEF Made!aiTargetStatus
  <2>2. board.target # "draft"
    <3> SUFFICES ASSUME board.target = "draft" PROVE FALSE
      OBVIOUS
    <3>1. Made!aiTargetStatus("draft") = IF board.cancelling THEN "cancelling" ELSE "generating"
      BY <2>1 DEF Made!aiTargetStatus
    <3> QED
      BY <1>1, <3>1
  <2> QED
    BY <2>1, <2>2 DEF MadeInv, MadeTypes, MadeBoards
<1>3. /\ editor' \in MadeEditors /\ editor'.open /\ editor'.saving = editor.saving
      /\ editor'.buffer = board.draft /\ editor'.saved = board.draft
  BY <1>1 DEF MadeInv, MadeTypes, MadeEditors, MadeBoards, MadeSeeds
<1>4. ~editor.saving
  BY <1>1 DEF MadeInv, MadeShown
<1>5. c \in MadeWired /\ MadeSound(c, editor'.open, editor'.saving, board.task)
  BY <1>2, <1>3 DEF MadeWired, MadeMaybeDraft, MadeSound, MadeDraftOf
<1>6. \A i \in DOMAIN post : MadeSound(post[i], editor'.open, editor'.saving, board.task)
  BY <1>1, <1>3 DEF MadeInv, MadeInFlight, MadeSound
<1> HIDE DEF c
<1>7. post' \in Seq(MadeWired) /\ MadeInFlight'
  <2>1. MadeOneSave(post) /\ c.kind # "save"
    BY DEF c, MadeInv, MadeInFlight
  <2> QED
    BY <1>1, <1>3, <1>5, <1>6, <2>1, MadeSends DEF MadeInv, MadeTypes, MadeInFlight
<1>8. MadeShown'
  BY <1>1, <1>3, <1>4 DEF MadeInv, MadeShown
<1>9. MadeWarned'
  BY <1>1, <1>2 DEF MadeInv, MadeWarned, MadeRunning
<1> QED
  BY <1>1, <1>3, <1>7, <1>8, <1>9 DEF MadeInv, MadeTypes, MadeFiled, MadeRunning, MadeEdited

LEMMA MadeLoadKeeps == ASSUME MadeConstants, MadeInv, Made!load_draft_detail PROVE MadeInv'
<1> DEFINE c == Head(post)
<1>1. /\ post # <<>> /\ c.kind = "load" /\ post' = Tail(post)
      /\ UNCHANGED <<folders, board, stint, asked, leaving, deeds>>
  BY DEF Made!load_draft_detail
<1>2. /\ c \in MadeWired /\ c.of \in Notes /\ (c.live => editor.open /\ c.of = board.task)
      /\ post' \in Seq(MadeWired)
      /\ \A i \in DOMAIN post' : MadeSound(post'[i], editor.open, editor.saving, board.task)
      /\ MadeOneSave(post')
  BY <1>1, MadeFirst DEF MadeSound, MadeWired
<1>3. /\ editor' \in MadeEditors /\ editor'.open = editor.open /\ editor'.saving = editor.saving
      /\ editor.open /\ board.task # None =>
           MadeDraftOf(editor'.buffer, board.task) /\ MadeDraftOf(editor'.saved, board.task)
  <2>1. CASE UNCHANGED editor
    BY <2>1 DEF MadeInv, MadeTypes, MadeShown
  <2> DEFINE f == folders[c.of]
  <2>2. CASE /\ c.live /\ Made!guard_pending_task(c.of)
             /\ editor' = [editor EXCEPT !.buffer = f.draft, !.saved = f.draft, !.seed = f.seed,
                             !.loading = FALSE, !.ready = TRUE]
    <3>1. f \in MadeNatFolders /\ MadeDraftOf(f.draft, board.task)
      BY <1>2, <2>2 DEF Made!guard_pending_task, MadeInv, MadeTypes, MadeFiled
    <3> HIDE DEF f
    <3> QED
      BY <2>2, <3>1 DEF MadeInv, MadeTypes, MadeEditors, MadeNatFolders
  <2>3. CASE /\ c.live
             /\ editor' = [editor EXCEPT !.buffer = board.draft, !.loading = FALSE,
                             !.ready = TRUE, !.early = TRUE]
    BY <2>3 DEF MadeInv, MadeTypes, MadeEditors, MadeBoards, MadeShown
  <2> QED
    BY <2>1, <2>2, <2>3 DEF Made!load_draft_detail
<1>4. MadeShown' /\ MadeInFlight'
  BY <1>1, <1>2, <1>3 DEF MadeInv, MadeShown, MadeInFlight
<1>5. MadeWarned'
  BY <1>1, <1>3 DEF MadeInv, MadeWarned
<1> QED
  BY <1>1, <1>2, <1>3, <1>4, <1>5 DEF MadeInv, MadeTypes, MadeFiled, MadeRunning, MadeEdited

LEMMA MadeBufferKeeps == ASSUME MadeConstants, MadeInv, Made!handleBufferChange PROVE MadeInv'
<1> DEFINE n == deeds + 1
           early == editor.early \/ editor.loading
           buffer == [editor.buffer EXCEPT !.typed = n]
<1>1. /\ editor.open /\ editor.buffer # None /\ deeds' = n /\ n \in Nat
      /\ UNCHANGED <<folders, board, stint, asked, post, leaving>>
  BY DEF Made!handleBufferChange, MadeInv, MadeTypes
<1>2. editor \in MadeEditors /\ editor.buffer \in MadeNatDrafts
  BY <1>1 DEF MadeInv, MadeTypes, MadeEditors, MadeMaybeDraft
<1>3. editor' = [editor EXCEPT !.dirty = TRUE, !.buffer = buffer, !.early = early]
  BY <1>2 DEF Made!handleBufferChange, MadeEditors
<1> HIDE DEF n
<1>4. buffer \in MadeMaybeDraft /\ buffer.of = editor.buffer.of
  BY <1>1, <1>2 DEF MadeNatDrafts, MadeMaybeDraft
<1>5. early \in BOOLEAN
  BY <1>2 DEF MadeEditors
<1> HIDE DEF buffer, early
<1>6. /\ editor' \in MadeEditors /\ editor'.open = editor.open /\ editor'.saving = editor.saving
      /\ editor'.buffer = buffer /\ editor'.saved = editor.saved
  BY <1>2, <1>3, <1>4, <1>5 DEF MadeEditors
<1>7. editor.open /\ board.task # None =>
        MadeDraftOf(editor'.buffer, board.task) /\ MadeDraftOf(editor'.saved, board.task)
  BY <1>1, <1>4, <1>6 DEF MadeInv, MadeShown, MadeDraftOf
<1> QED
  BY <1>1, <1>6, <1>7, MadeEdits

LEMMA MadeDiscardsKeep ==
  ASSUME MadeInv,
         \/ Made!cancelDiscard \/ Made!useStorageEditor
         \/ Made!handleClose /\ editor.dirty
  PROVE  MadeInv'
<1>1. /\ \/ \E d \in BOOLEAN : editor' = [editor EXCEPT !.discard = d]
         \/ editor' = [editor EXCEPT !.buffer = editor.saved, !.dirty = FALSE]
      /\ UNCHANGED <<folders, board, stint, asked, post, leaving, deeds>>
  BY DEF Made!cancelDiscard, Made!useStorageEditor, Made!handleClose
<1>2. /\ editor' \in MadeEditors /\ editor'.open = editor.open /\ editor'.saving = editor.saving
      /\ editor'.buffer \in {editor.buffer, editor.saved} /\ editor'.saved = editor.saved
  BY <1>1 DEF MadeInv, MadeTypes, MadeEditors
<1>3. editor.open /\ board.task # None =>
        MadeDraftOf(editor'.buffer, board.task) /\ MadeDraftOf(editor'.saved, board.task)
  BY <1>2 DEF MadeInv, MadeShown
<1> QED
  BY <1>1, <1>2, <1>3, MadeEdits DEF MadeInv, MadeTypes

LEMMA MadeClosedPost ==
  ASSUME MadeInv, Made!setDraftResultClosed
  PROVE  /\ post' \in Seq(MadeWired) /\ MadeOneSave(post')
         /\ \A i \in DOMAIN post' : MadeSound(post'[i], editor'.open, editor.saving, board.task)
<1> DEFINE open == editor'.open
           saving == editor.saving
           t == board.task
<1>1. post' = [i \in DOMAIN post |-> [post[i] EXCEPT !.live = FALSE]]
  BY DEF Made!setDraftResultClosed
<1>2. /\ MadeTypes /\ MadeOneSave(post)
      /\ \A i \in DOMAIN post : MadeSound(post[i], editor.open, saving, t)
  BY DEF MadeInv, MadeInFlight
<1> HIDE DEF open, saving, t
<1>3. /\ post' \in Seq(MadeWired) /\ MadeOneSave(post')
      /\ \A i \in DOMAIN post' : MadeSound(post'[i], open, saving, t)
  BY <1>1, <1>2, MadeLetGo
<1> QED
  BY <1>3 DEF open, saving, t

\* The sheet of the draft is closed, and nothing of it is waited for.
LEMMA MadeCloses ==
  ASSUME MadeConstants, MadeInv, Made!setDraftResultClosed, ~editor.saving,
         UNCHANGED <<folders, stint, leaving, deeds>>, board' \in MadeBoards,
         \A k \in {"task", "target", "hasDraft", "draft", "edited", "errors"} :
           board'[k] = board[k],
         asked' \in MadeQuestions,
         \/ asked'.confirm = asked.confirm /\ asked'.warned = asked.warned
         \/ /\ stint # None => stint.target # "draft"
            /\ board.edited => asked'.warned
  PROVE  MadeInv'
<1>1. /\ board'.task = board.task /\ board'.target = board.target
      /\ board'.hasDraft = board.hasDraft /\ board'.draft = board.draft
      /\ board'.edited = board.edited /\ board'.errors = board.errors
  OBVIOUS
<1>2. /\ editor' \in MadeEditors /\ ~editor'.open /\ ~editor'.saving
  BY DEF Made!setDraftResultClosed, Made!ClosedEditor, MadeEditors, MadeMaybeDraft, MadeSeeds
<1>3. /\ post' \in Seq(MadeWired) /\ MadeOneSave(post')
      /\ \A i \in DOMAIN post' : MadeSound(post'[i], editor'.open, editor.saving, board.task)
  BY MadeClosedPost
<1>4. MadeInFlight' /\ MadeShown'
  BY <1>1, <1>2, <1>3 DEF MadeInv, MadeInFlight, MadeShown, MadeSound
<1>5. MadeWarned'
  BY <1>1, <1>2 DEF MadeInv, MadeWarned
<1> QED
  BY <1>1, <1>2, <1>3, <1>4, <1>5 DEF MadeInv, MadeTypes, MadeFiled, MadeRunning, MadeEdited

LEMMA MadeCloseKeeps ==
  ASSUME MadeConstants, MadeInv, Made!confirmDiscard \/ (Made!handleClose /\ ~editor.dirty)
  PROVE  MadeInv'
<1>1. /\ Made!setDraftResultClosed /\ ~editor.saving
      /\ UNCHANGED <<folders, board, stint, asked, leaving, deeds>>
  BY DEF Made!confirmDiscard, Made!handleClose
<1> QED
  BY <1>1, MadeCloses DEF MadeInv, MadeTypes

LEMMA MadeProceedKeeps ==
  ASSUME MadeConstants, MadeInv, NEW seed \in MadeSeeds, NEW warned \in BOOLEAN, Made!proceed(seed, warned),
         editor.open, ~editor.saving, board.edited => warned
  PROVE  MadeInv'
<1>1. /\ Made!setDraftResultClosed /\ board' = [board EXCEPT !.seed = seed]
      /\ asked' = [asked EXCEPT !.candidate = None, !.confirm = TRUE, !.warned = warned]
      /\ UNCHANGED <<folders, stint, leaving, deeds>>
  BY DEF Made!proceed
<1>2. /\ board' \in MadeBoards
      /\ \A k \in {"task", "target", "hasDraft", "draft", "edited", "errors"} :
           board'[k] = board[k]
  BY <1>1 DEF MadeInv, MadeTypes, MadeBoards
<1>3. asked' \in MadeQuestions /\ asked'.warned = warned
  BY <1>1 DEF MadeInv, MadeTypes, MadeQuestions
<1>4. stint # None => stint.target # "draft"
  BY DEF MadeInv, MadeWarned
<1> QED
  BY <1>1, <1>2, <1>3, <1>4, MadeCloses

LEMMA MadeRegenerationKeeps == ASSUME MadeConstants, MadeInv, Made!Regeneration PROVE MadeInv'
<1>1. CASE Made!cancelRegeneration
  BY <1>1, MadeDetailKeeps
<1>2. CASE Made!confirmRegeneration
  <2>1. asked.candidate.seed \in MadeSeeds
    BY <1>2 DEF Made!confirmRegeneration, MadeInv, MadeTypes, MadeQuestions
  <2> QED
    BY <1>2, <2>1, MadeProceedKeeps DEF Made!confirmRegeneration
<1>3. CASE Made!requestRegeneration
  <2> DEFINE seed == IF editor.seed # None THEN editor.seed ELSE board.seed
  <2>1. seed \in MadeSeeds
    BY DEF MadeInv, MadeTypes, MadeEditors, MadeBoards
  <2>2. \/ ~board.edited /\ Made!proceed(seed, FALSE)
        \/ /\ asked' = [asked EXCEPT !.candidate = [seed |-> seed]]
           /\ UNCHANGED <<folders, board, stint, editor, post, leaving, deeds>>
    BY <1>3 DEF Made!requestRegeneration
  <2> HIDE DEF seed
  <2>3. CASE ~board.edited /\ Made!proceed(seed, FALSE)
    BY <1>3, <2>1, <2>3, MadeProceedKeeps DEF Made!requestRegeneration
  <2>4. CASE /\ asked' = [asked EXCEPT !.candidate = [seed |-> seed]]
             /\ UNCHANGED <<folders, board, stint, editor, post, leaving, deeds>>
    <3>1. /\ asked' \in MadeQuestions /\ asked'.confirm = asked.confirm
          /\ asked'.warned = asked.warned
      BY <2>1, <2>4 DEF MadeInv, MadeTypes, MadeQuestions
    <3> QED
      BY <2>4, <3>1, MadeAsks DEF MadeInv, MadeTypes
  <2> QED
    BY <2>2, <2>3, <2>4
<1> QED
  BY <1>1, <1>2, <1>3 DEF Made!Regeneration

LEMMA MadeSaveKeeps == ASSUME MadeConstants, MadeInv, Made!handleSave PROVE MadeInv'
<1> DEFINE c == [kind |-> "save", of |-> board.task, buffer |-> editor.buffer, live |-> TRUE]
<1>1. /\ editor.open /\ ~editor.saving /\ board.task # None
      /\ editor' = [editor EXCEPT !.saving = TRUE]
      /\ asked' = [asked EXCEPT !.candidate = None] /\ post' = Append(post, c)
      /\ UNCHANGED <<folders, board, stint, leaving, deeds>>
  BY DEF Made!handleSave
<1>2. /\ editor' \in MadeEditors /\ editor'.open = editor.open /\ editor'.saving
      /\ editor'.buffer = editor.buffer /\ editor'.saved = editor.saved
  BY <1>1 DEF MadeInv, MadeTypes, MadeEditors
<1>3. c \in MadeWired /\ MadeSound(c, editor'.open, editor'.saving, board.task)
  BY <1>1, <1>2 DEF MadeInv, MadeTypes, MadeBoards, MadeEditors, MadeShown, MadeWired, MadeSound
<1>4. \A i \in DOMAIN post : MadeSound(post[i], editor'.open, editor'.saving, board.task)
  BY <1>2 DEF MadeInv, MadeInFlight, MadeSound
<1> HIDE DEF c
<1>5. post' \in Seq(MadeWired) /\ MadeInFlight'
  <2>1. MadeOneSave(post) /\ \A i \in DOMAIN post : post[i].kind # "save"
    BY <1>1 DEF MadeInv, MadeInFlight, MadeSound
  <2> QED
    BY <1>1, <1>2, <1>3, <1>4, <2>1, MadeSends DEF MadeInv, MadeTypes, MadeInFlight
<1>6. asked' \in MadeQuestions /\ asked'.confirm = asked.confirm /\ asked'.warned = asked.warned
  BY <1>1 DEF MadeInv, MadeTypes, MadeQuestions
<1>7. MadeShown' /\ MadeWarned'
  BY <1>1, <1>2, <1>6 DEF MadeInv, MadeShown, MadeWarned
<1> QED
  BY <1>1, <1>2, <1>5, <1>6, <1>7 DEF MadeInv, MadeTypes, MadeFiled, MadeRunning, MadeEdited

LEMMA MadeSaveAnswerKeeps == ASSUME MadeConstants, MadeInv, Made!save_draft_edit PROVE MadeInv'
<1> DEFINE c == Head(post)
<1>1. /\ post # <<>> /\ c.kind = "save" /\ post' = Tail(post)
      /\ UNCHANGED <<stint, asked, leaving, deeds>>
  BY DEF Made!save_draft_edit
<1>2. /\ c \in MadeWired /\ c.of \in Notes /\ MadeDraftOf(c.buffer, c.of) /\ editor.saving
      /\ post' \in Seq(MadeWired) /\ MadeOneSave(post')
      /\ \A i \in DOMAIN post' : MadeSound(post'[i], editor.open, editor.saving, board.task)
                                /\ post'[i].kind # "save"
  BY <1>1, MadeFirst DEF MadeSound, MadeWired
<1>3. editor.open /\ (stint # None => stint.target # "draft") /\ ~asked.confirm
  BY <1>2 DEF MadeInv, MadeShown, MadeWarned
\* The editor, whatever came of it, does not save any more.
<1>4. ASSUME editor'.open = editor.open, ~editor'.saving, board'.task = board.task
      PROVE  MadeInFlight'
  BY <1>2, <1>4 DEF MadeInFlight, MadeSound
<1>5. \/ UNCHANGED folders
      \/ /\ folders[c.of] # None /\ folders[c.of].draft # None /\ c.buffer # None
         /\ folders' = [folders EXCEPT ![c.of].draft = c.buffer]
  BY DEF Made!save_draft_edit, Made!guard_pending_task
\* A draft stays where there is one.
<1>6. /\ folders' \in [Notes -> MadeNatFolders \cup {None}] /\ MadeFiled'
      /\ \A n \in Notes : /\ folders[n] = None <=> folders'[n] = None
                          /\ folders[n] # None =>
                               (folders[n].draft = None <=> folders'[n].draft = None)
  <2>1. CASE UNCHANGED folders
    BY <2>1 DEF MadeInv, MadeTypes, MadeFiled
  <2>2. CASE /\ folders[c.of] # None /\ folders[c.of].draft # None /\ c.buffer # None
             /\ folders' = [folders EXCEPT ![c.of].draft = c.buffer]
    <3> DEFINE n == c.of
               f == [folders[n] EXCEPT !.draft = c.buffer]
    <3>1. n \in Notes /\ folders[n] \in MadeNatFolders /\ folders \in [Notes -> MadeNatFolders \cup {None}]
      BY <1>2, <2>2 DEF MadeInv, MadeTypes
    <3>2. f \in MadeNatFolders /\ f.draft = c.buffer /\ f # None
      BY <1>2, <3>1 DEF MadeNatFolders, MadeWired, MadeConstants
    <3>3. folders' = [folders EXCEPT ![n] = f]
      BY <2>2, <3>1
    <3> HIDE DEF f
    <3> QED
      BY <1>2, <2>2, <3>1, <3>2, <3>3 DEF MadeInv, MadeFiled
  <2> QED
    BY <1>5, <2>1, <2>2
<1>7. board.task # None => board.task \in Notes
  BY DEF MadeInv, MadeTypes, MadeBoards
<1>8. stint # None => stint.of \in Notes
  BY DEF MadeInv, MadeTypes, MadeStints
<1>9. CASE editor' = [editor EXCEPT !.saving = FALSE] /\ UNCHANGED board
  <2>1. /\ editor' \in MadeEditors /\ editor'.open = editor.open /\ ~editor'.saving
        /\ editor'.buffer = editor.buffer /\ editor'.saved = editor.saved
    BY <1>9 DEF MadeInv, MadeTypes, MadeEditors
  <2>2. MadeInFlight' /\ MadeShown' /\ MadeWarned' /\ MadeRunning'
    BY <1>1, <1>4, <1>9, <2>1 DEF MadeInv, MadeShown, MadeWarned, MadeRunning
  <2>3. MadeEdited'
    BY <1>1, <1>6, <1>7, <1>8, <1>9 DEF MadeInv, MadeEdited
  <2> QED
    BY <1>1, <1>2, <1>6, <1>9, <2>1, <2>2, <2>3 DEF MadeInv, MadeTypes
<1>10. CASE /\ board.task = c.of /\ c.buffer # None
            /\ folders[c.of] # None /\ folders[c.of].draft # None
            /\ board' = [board EXCEPT !.draft = c.buffer, !.hasDraft = TRUE, !.edited = TRUE]
            /\ editor' = [editor EXCEPT !.saving = FALSE, !.dirty = FALSE, !.saved = c.buffer]
  <2>1. /\ editor' \in MadeEditors /\ editor'.open = editor.open /\ ~editor'.saving
        /\ editor'.buffer = editor.buffer /\ editor'.saved = c.buffer
    BY <1>2, <1>10 DEF MadeInv, MadeTypes, MadeEditors, MadeWired
  <2>2. /\ board' \in MadeBoards /\ board'.task = board.task /\ board'.target = board.target
        /\ board'.draft = c.buffer /\ board'.hasDraft /\ board'.edited
        /\ board'.errors = board.errors
    BY <1>2, <1>10 DEF MadeInv, MadeTypes, MadeBoards, MadeWired
  <2>3. MadeInFlight' /\ MadeShown'
    BY <1>2, <1>4, <1>7, <1>10, <2>1, <2>2 DEF MadeInv, MadeShown, MadeConstants
  <2>4. MadeWarned' /\ MadeRunning'
    BY <1>1, <1>3, <2>1, <2>2 DEF MadeInv, MadeWarned, MadeRunning
  <2>5. stint # None /\ stint.result # None => stint.result.draft # None
    BY <1>10 DEF MadeInv, MadeEdited, MadeRunning
  <2>6. MadeEdited'
    BY <1>1, <1>2, <1>6, <1>8, <1>10, <2>2, <2>5 DEF MadeInv, MadeEdited, MadeConstants
  <2> QED
    BY <1>1, <1>2, <1>6, <2>1, <2>2, <2>3, <2>4, <2>6 DEF MadeInv, MadeTypes
<1> QED
  BY <1>9, <1>10 DEF Made!save_draft_edit, Made!guard_pending_task

-----------------------------------------------------------------------------
LEMMA MadeNextKeeps ==
  ASSUME MadeConstants, MadeInv, Made!Next \/ UNCHANGED Made!vars
  PROVE  MadeInv'
<1>1. CASE UNCHANGED Made!vars
  BY <1>1, MadeAsks DEF Made!vars, MadeInv, MadeTypes
<1>2. CASE \/ \E target \in Made!Targets : Made!openDetailTab(target)
           \/ Made!openDissectionConfirmation \/ Made!cancelDraftConfirmation
  BY <1>2, MadeDetailKeeps
<1>3. CASE Made!handleClose
  BY <1>3, MadeDiscardsKeep, MadeCloseKeeps
<1>4. CASE Made!cancelDiscard \/ Made!useStorageEditor \/ Made!confirmDiscard
  BY <1>4, MadeDiscardsKeep, MadeCloseKeeps
<1>5. CASE Made!requestProcessingCancellation \/ Made!restoreProcessingAfterCancellationFailure
           \/ Made!confirmProcessingCancellation
  BY <1>5, MadeCancelKeeps, MadeCancelledKeeps
<1>6. CASE \/ \E n \in Notes : Made!restoreHistoryItem(n)
           \/ Made!startNewTaskFromToolbar \/ Made!confirmHistoryDeletion \/ Made!completeHistoryTaskDeletion
  BY <1>6, MadeRestoreKeeps, MadeStartNewKeeps, MadeConfirmDeletionKeeps,
     MadeCompleteDeletionKeeps
<1>7. CASE Made!confirmDissection \/ Made!confirmInsightPreferences \/ Made!confirmDraftGeneration
  BY <1>7, MadeConfirmsKeep, MadeConfirmDraftKeeps
<1> QED
  BY <1>1, <1>2, <1>3, <1>4, <1>5, <1>6, <1>7, MadeTextSaveKeeps, MadeAskDraftKeeps,
     MadeOpenKeeps, MadeDetailSheetKeeps, MadeCommitKeeps, MadeFinishKeeps, MadeFailKeeps,
     MadeLoadKeeps, MadeBufferKeeps, MadeSaveKeeps, MadeSaveAnswerKeeps, MadeRegenerationKeeps
     DEF Made!Next

-----------------------------------------------------------------------------
(* What a transcript waits for, and what was polished (Transcript).         *)

\* What in flight loads, saves and reads the polished copy again.
ScriptLoadsSent == {c \in Script!Wired : c.kind = "load" /\ c.live}
ScriptSaves == {c \in Script!Wired : c.kind = "save" \/ c.after = "save"}
ScriptRefreshes == {c \in Script!Wired : c.kind = "refresh"}
ScriptPolishes == {c \in Script!Wired : c.after = "polish"}
ScriptHas(w, S) == \E i \in DOMAIN w : w[i] \in S

\* Only one of each is in flight.
ScriptOnce(w) ==
  /\ \A i, j \in DOMAIN w : w[i] \in ScriptSaves /\ w[j] \in ScriptSaves => i = j
  /\ \A i, j \in DOMAIN w : w[i] \in ScriptPolishes /\ w[j] \in ScriptPolishes => i = j

ScriptKinds(c) == /\ c.kind \in {"load", "save"} => c.after = None
                  /\ c.kind = "refresh" => c.after \in {"save", "polish"}

ScriptWaited == ScriptOnce(wire) /\ \A i \in DOMAIN wire :
            /\ ScriptKinds(wire[i])
            /\ wire[i].kind # "load" /\ subject # None => wire[i].of = subject

\* What is in flight is waited for.
ScriptAwaits ==
  /\ ScriptHas(wire, ScriptSaves) => paper.saving
  /\ ScriptHas(wire, ScriptPolishes) => polish # None
  /\ polish # None /\ subject # None => polish.of = subject

\* The editor shows the note of the workspace as it is on disk.
ScriptOfSubject ==
  /\ paper.text # None => paper.text.of = subject
  /\ paper.draft # None => paper.draft.of = subject
  /\ paper.detail # None =>
       /\ subject # None /\ paper.detail.text.of = subject
       /\ scripts[subject] # None => paper.detail.text = scripts[subject].text

ScriptPolished ==
  paper.detail # None /\ paper.detail.polished # None =>
    paper.detail.polished = paper.detail.text \/ missed \/ ScriptHas(wire, ScriptRefreshes)

ScriptLoading == paper.loading /\ subject # None => ScriptHas(wire, ScriptLoadsSent)
ScriptSaving == paper.saving => ScriptHas(wire, ScriptSaves)

ScriptInv2 == ScriptInv /\ ScriptWaited /\ ScriptAwaits /\ ScriptOfSubject /\ ScriptPolished /\ ScriptLoading /\ ScriptSaving

LEMMA ScriptPopped ==
  ASSUME NEW w \in Seq(Script!Wired), w # <<>>, ScriptOnce(w)
  PROVE  /\ ScriptOnce(Tail(w)) /\ Tail(w) \in Seq(Script!Wired) /\ Head(w) \in Script!Wired
         /\ \A i \in DOMAIN Tail(w) : \E j \in DOMAIN w : Tail(w)[i] = w[j]
         /\ Head(w) \in ScriptSaves => ~ScriptHas(Tail(w), ScriptSaves)
         /\ Head(w) \in ScriptPolishes => ~ScriptHas(Tail(w), ScriptPolishes)
         /\ \E j \in DOMAIN w : Head(w) = w[j]
<1>1. /\ Tail(w) \in Seq(Script!Wired) /\ Head(w) = w[1] /\ 1 \in DOMAIN w
      /\ \A i \in DOMAIN Tail(w) : i \in Nat /\ i + 1 # 1 /\ i + 1 \in DOMAIN w /\ Tail(w)[i] = w[i + 1]
  OBVIOUS
<1>2. Head(w) \in Script!Wired
  BY <1>1
<1>3. ScriptOnce(Tail(w))
  <2>1. ASSUME NEW i \in DOMAIN Tail(w), NEW j \in DOMAIN Tail(w), NEW S,
               Tail(w)[i] \in S, Tail(w)[j] \in S,
               \A k, l \in DOMAIN w : w[k] \in S /\ w[l] \in S => k = l
        PROVE  i = j
    <3>1. i + 1 = j + 1
      BY <1>1, <2>1
    <3> QED
      BY <1>1, <3>1
  <2> QED
    BY <2>1 DEF ScriptOnce
<1>4. ASSUME NEW S, ScriptHas(Tail(w), S) PROVE \E i \in DOMAIN w : i # 1 /\ w[i] \in S
  <2>1. PICK i \in DOMAIN Tail(w) : Tail(w)[i] \in S
    BY <1>4 DEF ScriptHas
  <2> QED
    BY <1>1, <2>1
<1>5. Head(w) \in ScriptSaves => ~ScriptHas(Tail(w), ScriptSaves)
  BY <1>1, <1>4 DEF ScriptOnce
<1>6. Head(w) \in ScriptPolishes => ~ScriptHas(Tail(w), ScriptPolishes)
  BY <1>1, <1>4 DEF ScriptOnce
<1> QED
  BY <1>1, <1>2, <1>3, <1>5, <1>6

LEMMA ScriptPoppedHas ==
  ASSUME NEW w \in Seq(Script!Wired), w # <<>>, NEW S
  PROVE  /\ ScriptHas(Tail(w), S) => ScriptHas(w, S)
         /\ ScriptHas(w, S) /\ Head(w) \notin S => ScriptHas(Tail(w), S)
         /\ Head(w) \in S => ScriptHas(w, S)
<1>1. /\ Head(w) = w[1] /\ 1 \in DOMAIN w
      /\ \A i \in DOMAIN Tail(w) : i + 1 \in DOMAIN w /\ Tail(w)[i] = w[i + 1]
      /\ \A i \in DOMAIN w : i # 1 => i - 1 \in DOMAIN Tail(w) /\ Tail(w)[i - 1] = w[i]
  OBVIOUS
<1> QED
  BY <1>1 DEF ScriptHas

LEMMA ScriptSends ==
  ASSUME NEW w \in Seq(Script!Wired), NEW c \in Script!Wired, ScriptOnce(w),
         c \in ScriptSaves => ~ScriptHas(w, ScriptSaves), c \in ScriptPolishes => ~ScriptHas(w, ScriptPolishes)
  PROVE  /\ ScriptOnce(Append(w, c)) /\ Append(w, c) \in Seq(Script!Wired)
         /\ \A i \in DOMAIN Append(w, c) : Append(w, c)[i] = c \/ \E j \in DOMAIN w : Append(w, c)[i] = w[j]
<1>1. /\ Append(w, c) \in Seq(Script!Wired)
      /\ \A i \in DOMAIN Append(w, c) :
           \/ i = Len(w) + 1 /\ Append(w, c)[i] = c
           \/ i \in DOMAIN w /\ Append(w, c)[i] = w[i]
  OBVIOUS
<1>2. ASSUME NEW i \in DOMAIN Append(w, c), NEW j \in DOMAIN Append(w, c), NEW S,
             Append(w, c)[i] \in S, Append(w, c)[j] \in S, c \in S => ~ScriptHas(w, S),
             \A k, l \in DOMAIN w : w[k] \in S /\ w[l] \in S => k = l
      PROVE  i = j
  BY <1>1, <1>2 DEF ScriptHas
<1>3. ScriptOnce(Append(w, c))
  BY <1>2 DEF ScriptOnce
<1> QED
  BY <1>1, <1>3

LEMMA ScriptSendsHas ==
  ASSUME NEW w \in Seq(Script!Wired), NEW c, NEW S
  PROVE  ScriptHas(Append(w, c), S) <=> ScriptHas(w, S) \/ c \in S
<1>1. /\ \A i \in DOMAIN Append(w, c) : Append(w, c)[i] = c \/ (i \in DOMAIN w /\ Append(w, c)[i] = w[i])
      /\ \A i \in DOMAIN w : i \in DOMAIN Append(w, c) /\ Append(w, c)[i] = w[i]
      /\ Len(w) + 1 \in DOMAIN Append(w, c) /\ Append(w, c)[Len(w) + 1] = c
  OBVIOUS
<1> QED
  BY <1>1 DEF ScriptHas

LEMMA ScriptStoppedIs ==
  ASSUME NEW w \in Seq(Script!Wired), ScriptOnce(w)
  PROVE  /\ ScriptOnce(Script!stopped(w)) /\ Script!stopped(w) \in Seq(Script!Wired) /\ DOMAIN Script!stopped(w) = DOMAIN w
         /\ \A i \in DOMAIN w : /\ Script!stopped(w)[i].kind = w[i].kind /\ Script!stopped(w)[i].after = w[i].after
                                /\ Script!stopped(w)[i].of = w[i].of
         /\ ScriptHas(Script!stopped(w), ScriptSaves) => ScriptHas(w, ScriptSaves)
         /\ ScriptHas(Script!stopped(w), ScriptPolishes) => ScriptHas(w, ScriptPolishes)
<1>1. Script!stopped(w) = [i \in DOMAIN w |-> [w[i] EXCEPT !.live = @ /\ w[i].kind # "load"]]
  BY DEF Script!stopped
<1>2. \A i \in DOMAIN w : w[i] \in Script!Wired
  OBVIOUS
<1>3. \A i \in DOMAIN w :
        /\ Script!stopped(w)[i] \in Script!Wired /\ Script!stopped(w)[i].kind = w[i].kind /\ Script!stopped(w)[i].after = w[i].after
        /\ Script!stopped(w)[i].of = w[i].of
  <2> TAKE i \in DOMAIN w
  <2> DEFINE live == w[i].live /\ w[i].kind # "load"
  <2>1. live \in BOOLEAN
    OBVIOUS
  <2>2. Script!stopped(w)[i] = [w[i] EXCEPT !.live = live]
    BY <1>1
  <2> HIDE DEF live
  <2> QED
    BY <1>2, <2>1, <2>2 DEF Script!Wired
<1>4. DOMAIN Script!stopped(w) = 1..Len(w) /\ Len(w) \in Nat /\ DOMAIN w = 1..Len(w)
  BY <1>1
<1>5. Script!stopped(w) \in [1..Len(w) -> Script!Wired]
  BY <1>1, <1>3, <1>4
<1>6. Script!stopped(w) \in Seq(Script!Wired)
  BY <1>4, <1>5
<1>7. \A i \in DOMAIN w : /\ Script!stopped(w)[i] \in ScriptSaves <=> w[i] \in ScriptSaves
                          /\ Script!stopped(w)[i] \in ScriptPolishes <=> w[i] \in ScriptPolishes
  BY <1>2, <1>3 DEF ScriptSaves, ScriptPolishes
<1> QED
  BY <1>3, <1>4, <1>6, <1>7 DEF ScriptOnce, ScriptHas

\* One more command, none of those in flight of its kind.
LEMMA ScriptQueueSends ==
  ASSUME ScriptInv2, NEW c \in Script!Wired, ScriptKinds(c), c.kind # "load" /\ subject # None => c.of = subject,
         c \in ScriptSaves => ~ScriptHas(wire, ScriptSaves), c \in ScriptPolishes => ~ScriptHas(wire, ScriptPolishes),
         wire' = Append(wire, c), UNCHANGED subject
  PROVE  ScriptWaited'
<1>1. wire \in Seq(Script!Wired) /\ ScriptOnce(wire)
  BY DEF ScriptInv2, ScriptInv, ScriptTypes, ScriptWaited
<1>2. /\ ScriptOnce(wire')
      /\ \A i \in DOMAIN wire' : wire'[i] = c \/ \E j \in DOMAIN wire : wire'[i] = wire[j]
  BY <1>1, ScriptSends
<1> QED
  BY <1>2 DEF ScriptInv2, ScriptWaited

\* The first command is answered.
LEMMA ScriptQueuePops ==
  ASSUME ScriptInv2, wire # <<>>, wire' = Tail(wire), UNCHANGED subject
  PROVE  /\ ScriptWaited' /\ wire' \in Seq(Script!Wired)
         /\ Head(wire) \in Script!Wired /\ ScriptKinds(Head(wire))
         /\ Head(wire).kind # "load" /\ subject # None => Head(wire).of = subject
         /\ Head(wire) \in ScriptSaves => paper.saving /\ ~ScriptHas(wire', ScriptSaves)
         /\ Head(wire) \in ScriptPolishes => polish # None /\ ~ScriptHas(wire', ScriptPolishes)
         /\ \A S : /\ ScriptHas(wire', S) => ScriptHas(wire, S)
                   /\ ScriptHas(wire, S) /\ Head(wire) \notin S => ScriptHas(wire', S)
<1>1. wire \in Seq(Script!Wired) /\ ScriptOnce(wire)
  BY DEF ScriptInv2, ScriptInv, ScriptTypes, ScriptWaited
<1>2. /\ ScriptOnce(wire') /\ wire' \in Seq(Script!Wired) /\ Head(wire) \in Script!Wired
      /\ \A i \in DOMAIN wire' : \E j \in DOMAIN wire : wire'[i] = wire[j]
      /\ \E j \in DOMAIN wire : Head(wire) = wire[j]
      /\ Head(wire) \in ScriptSaves => ~ScriptHas(wire', ScriptSaves)
      /\ Head(wire) \in ScriptPolishes => ~ScriptHas(wire', ScriptPolishes)
  BY <1>1, ScriptPopped
<1>3. \A S : /\ ScriptHas(wire', S) => ScriptHas(wire, S)
             /\ ScriptHas(wire, S) /\ Head(wire) \notin S => ScriptHas(wire', S)
             /\ Head(wire) \in S => ScriptHas(wire, S)
  BY <1>1, ScriptPoppedHas
<1>4. ScriptWaited'
  BY <1>2 DEF ScriptInv2, ScriptWaited
<1>5. ScriptKinds(Head(wire)) /\ (Head(wire).kind # "load" /\ subject # None => Head(wire).of = subject)
  BY <1>2 DEF ScriptInv2, ScriptWaited
<1>6. Head(wire) \in ScriptSaves => paper.saving
  BY <1>3 DEF ScriptInv2, ScriptAwaits
<1>7. Head(wire) \in ScriptPolishes => polish # None
  BY <1>3 DEF ScriptInv2, ScriptAwaits
<1> QED
  BY <1>2, <1>3, <1>4, <1>5, <1>6, <1>7

LEMMA ScriptStarts2 == ScriptConstants /\ Script!Init => ScriptInv2
<1> SUFFICES ASSUME ScriptConstants, Script!Init PROVE ScriptInv2
  OBVIOUS
<1>1. ScriptInv
  BY ScriptStarts
<1>2. wire = <<>> /\ DOMAIN wire = {}
  BY DEF Script!Init
<1>3. /\ paper.text = None /\ paper.draft = None /\ paper.detail = None /\ paper.loading = FALSE
      /\ paper.saving = FALSE /\ polish = None
  BY DEF Script!Init
<1> QED
  BY <1>1, <1>2, <1>3
     DEF ScriptInv2, ScriptWaited, ScriptOnce, ScriptHas, ScriptAwaits, ScriptOfSubject,
         ScriptPolished, ScriptLoading, ScriptSaving

\* Steps that change neither the editor nor what is in flight nor its text.
LEMMA ScriptOthers2 ==
  ASSUME ScriptInv2, ScriptInv', UNCHANGED <<scripts, subject, paper, wire, missed>>,
         ScriptHas(wire, ScriptPolishes) => polish' # None,
         polish' # None /\ subject # None => polish'.of = subject
  PROVE  ScriptInv2'
BY DEF ScriptInv2, ScriptWaited, ScriptOnce, ScriptHas, ScriptKinds, ScriptAwaits,
       ScriptOfSubject, ScriptPolished, ScriptLoading, ScriptSaving

\* Another note, or none, comes into the workspace: nothing that is in flight saves or
\* refreshes, or nothing comes.
LEMMA ScriptLoads2 ==
  ASSUME ScriptConstants, ScriptInv2, ScriptInv', NEW t \in Notes \cup {None}, t # None => scripts[t] # None,
         subject' = t, Script!loadDetail(t), UNCHANGED polish,
         t # None => paper.saving = FALSE /\ polish = None
  PROVE  ScriptInv2'
<1>1. wire \in Seq(Script!Wired) /\ ScriptOnce(wire) /\ paper \in ScriptPapers
  BY DEF ScriptInv2, ScriptInv, ScriptTypes, ScriptWaited
<1> DEFINE s == Script!stopped(wire)
<1>2. /\ ScriptOnce(s) /\ s \in Seq(Script!Wired) /\ DOMAIN s = DOMAIN wire
      /\ \A i \in DOMAIN wire : /\ s[i].kind = wire[i].kind /\ s[i].after = wire[i].after
                                /\ s[i].of = wire[i].of
      /\ ScriptHas(s, ScriptSaves) => ScriptHas(wire, ScriptSaves)
      /\ ScriptHas(s, ScriptPolishes) => ScriptHas(wire, ScriptPolishes)
  BY <1>1, ScriptStoppedIs
<1>3. \A i \in DOMAIN s : ScriptKinds(s[i])
  BY <1>2 DEF ScriptInv2, ScriptWaited, ScriptKinds
<1>4. \A S : ScriptHas(wire, S) => \E i \in DOMAIN wire : wire[i] \in S
  BY DEF ScriptHas
<1> DEFINE text == IF t = None THEN None ELSE scripts[t].text
<1>5. text # None => t # None /\ text.of = t
  BY DEF ScriptInv2, ScriptInv, ScriptWhole
<1>6. paper' = [paper EXCEPT !.detail = None, !.segments = None, !.dirty = FALSE,
                  !.text = text, !.draft = text, !.loading = @ \/ t # None]
  BY DEF Script!loadDetail
<1>7. /\ paper'.text = text /\ paper'.draft = text /\ paper'.detail = None
      /\ paper'.saving = paper.saving
  BY <1>1, <1>6 DEF ScriptPapers
<1> HIDE DEF text
<1>8. ScriptOfSubject' /\ ScriptPolished'
  BY <1>5, <1>7 DEF ScriptOfSubject, ScriptPolished
<1>9. CASE t = None
  <2>1. wire' = s
    BY <1>9 DEF Script!loadDetail
  <2> HIDE DEF s
  <2>2. ScriptWaited'
    BY <1>2, <1>3, <1>9, <2>1 DEF ScriptWaited
  <2>3. ScriptAwaits'
    BY <1>2, <1>7, <1>9, <2>1 DEF ScriptInv2, ScriptAwaits
  <2>4. ScriptSaving'
    <3>1. ASSUME ScriptHas(wire, ScriptSaves) PROVE ScriptHas(s, ScriptSaves)
      <4>1. PICK i \in DOMAIN wire : wire[i] \in ScriptSaves
        BY <3>1 DEF ScriptHas
      <4>2. s[i] \in Script!Wired
        BY <1>2
      <4>3. s[i] \in ScriptSaves
        BY <1>2, <4>1, <4>2 DEF ScriptSaves
      <4> QED
        BY <1>2, <4>3 DEF ScriptHas
    <3> QED
      BY <1>7, <2>1, <3>1 DEF ScriptInv2, ScriptSaving
  <2> QED
    BY <1>8, <1>9, <2>2, <2>3, <2>4 DEF ScriptInv2, ScriptLoading
<1>10. CASE t # None
  <2> DEFINE c == Script!loadTranscriptDetail(t, None)
  <2>1. wire' = Append(s, c)
    BY <1>10 DEF Script!loadDetail
  <2>2. c \in Script!Wired /\ c.kind = "load" /\ c.live = TRUE /\ c.after = None
    BY <1>10 DEF Script!loadTranscriptDetail, Script!Wired, Script!Maybe
  <2>3. c \in ScriptLoadsSent /\ c \notin ScriptSaves /\ c \notin ScriptPolishes /\ ScriptKinds(c)
    BY <2>2 DEF ScriptLoadsSent, ScriptSaves, ScriptPolishes, ScriptKinds, ScriptConstants
  <2> HIDE DEF c, s
  <2>4. ~ScriptHas(s, ScriptSaves) /\ ~ScriptHas(s, ScriptPolishes)
    BY <1>2, <1>10 DEF ScriptInv2, ScriptAwaits
  <2>5. /\ ScriptOnce(wire')
        /\ \A i \in DOMAIN wire' : wire'[i] = c \/ \E j \in DOMAIN s : wire'[i] = s[j]
    BY <1>2, <2>1, <2>2, <2>3, ScriptSends
  <2>6. ScriptHas(wire', ScriptLoadsSent) /\ ~ScriptHas(wire', ScriptSaves) /\ ~ScriptHas(wire', ScriptPolishes)
    BY <1>2, <2>1, <2>3, <2>4, ScriptSendsHas
  <2>7. \A j \in DOMAIN s : s[j].kind = "load"
    <3> SUFFICES ASSUME NEW j \in DOMAIN s, s[j].kind # "load" PROVE FALSE
      OBVIOUS
    <3>1. s[j] \in Script!Wired /\ ScriptKinds(s[j])
      BY <1>2, <1>3
    <3>2. s[j] \in ScriptSaves \/ s[j] \in ScriptPolishes
      BY <3>1 DEF Script!Wired, ScriptKinds, ScriptSaves, ScriptPolishes
    <3> QED
      BY <2>4, <3>2 DEF ScriptHas
  <2>8. ScriptWaited'
    BY <1>3, <2>2, <2>3, <2>5, <2>7 DEF ScriptWaited
  <2> QED
    BY <1>7, <1>8, <1>10, <2>6, <2>8 DEF ScriptInv2, ScriptAwaits, ScriptLoading, ScriptSaving
<1> QED
  BY <1>9, <1>10
LEMMA ScriptNavigates2 ==
  ASSUME ScriptConstants, ScriptInv2, ScriptInv',
         (\E t \in Notes : Script!restoreHistoryItem(t)) \/ Script!startNewTaskFromToolbar \/ Script!confirmHistoryDeletion
  PROVE  ScriptInv2'
<1>0. paper.saving \in BOOLEAN
  BY DEF ScriptInv2, ScriptInv, ScriptTypes, ScriptPapers
<1>1. ASSUME NEW t \in Notes, Script!restoreHistoryItem(t) PROVE ScriptInv2'
  BY <1>0, <1>1, ScriptLoads2 DEF Script!restoreHistoryItem, Script!canNavigateWorkflow
<1>2. CASE Script!startNewTaskFromToolbar
  BY <1>2, ScriptLoads2 DEF Script!startNewTaskFromToolbar
<1>3. CASE Script!confirmHistoryDeletion
  BY <1>3, ScriptOthers2
     DEF Script!confirmHistoryDeletion, Script!canNavigateWorkflow, ScriptInv2, ScriptAwaits
<1> QED
  BY <1>1, <1>2, <1>3

LEMMA ScriptDeleted2 ==
  ASSUME ScriptConstants, ScriptInv2, ScriptInv', Script!completeHistoryTaskDeletion
  PROVE  ScriptInv2'
<1>1. UNCHANGED <<polish, generating, edits, missed>>
  BY DEF Script!completeHistoryTaskDeletion
<1>2. CASE subject' = None /\ Script!loadDetail(None)
  BY <1>1, <1>2, ScriptLoads2
<1>3. CASE /\ scripts' = [scripts EXCEPT ![erasing] = None]
           /\ UNCHANGED <<subject, paper, wire>>
  <2>1. ScriptOfSubject'
    BY <1>3 DEF ScriptInv2, ScriptOfSubject, ScriptInv, ScriptTypes
  <2> QED
    BY <1>1, <1>3, <2>1
       DEF ScriptInv2, ScriptWaited, ScriptOnce, ScriptHas, ScriptKinds, ScriptAwaits,
           ScriptPolished, ScriptLoading, ScriptSaving
<1>4. CASE UNCHANGED <<scripts, subject, paper, wire>>
  BY <1>1, <1>4, ScriptOthers2 DEF ScriptInv2, ScriptAwaits
<1> QED
  BY <1>2, <1>3, <1>4 DEF Script!completeHistoryTaskDeletion

LEMMA ScriptLoadAnswer2 ==
  ASSUME ScriptConstants, ScriptInv2, ScriptInv', Script!LoadAnswer
  PROVE  ScriptInv2'
<1> DEFINE c == Head(wire)
<1>1. /\ wire # <<>> /\ c.kind = "load" /\ wire' = Tail(wire)
      /\ UNCHANGED <<scripts, subject, player, polish, generating, erasing, edits, missed>>
  BY DEF Script!LoadAnswer
<1>2. /\ ScriptWaited' /\ c \in Script!Wired /\ ScriptKinds(c)
      /\ \A S : /\ ScriptHas(wire', S) => ScriptHas(wire, S)
                /\ ScriptHas(wire, S) /\ c \notin S => ScriptHas(wire', S)
  BY <1>1, ScriptQueuePops
<1>3. c \notin ScriptSaves /\ c \notin ScriptRefreshes
  BY <1>1, <1>2 DEF ScriptSaves, ScriptRefreshes, ScriptKinds, ScriptConstants
<1>4. c \in Script!Wired /\ ScriptSound(c, subject)
  BY <1>1, ScriptFirst DEF ScriptInv2
<1>5. ScriptAwaits' <=> /\ ScriptHas(wire', ScriptSaves) => paper'.saving
                        /\ ScriptHas(wire', ScriptPolishes) => polish # None
                        /\ polish # None /\ subject # None => polish.of = subject
  BY <1>1 DEF ScriptAwaits
<1>6. paper \in ScriptPapers
  BY DEF ScriptInv2, ScriptInv, ScriptTypes
<1> HIDE DEF c
<1>7. CASE ~c.live /\ UNCHANGED paper
  <2>1. c \notin ScriptLoadsSent
    BY <1>7 DEF ScriptLoadsSent
  <2> QED
    BY <1>1, <1>2, <1>3, <1>7, <2>1
       DEF ScriptInv2, ScriptAwaits, ScriptOfSubject, ScriptPolished, ScriptLoading,
           ScriptSaving
<1>8. ASSUME c.live, Script!guard_pending_task(c.of), NEW d \in Script!load_transcript_detail(c.of),
             paper' = [paper EXCEPT !.detail = d, !.draft = d.text,
                         !.segments = d.segments, !.loading = FALSE]
      PROVE  ScriptInv2'
  <2>1. c.of = subject /\ c.of \in Notes /\ scripts[c.of] # None
    BY <1>1, <1>4, <1>8 DEF ScriptSound, Script!Wired, Script!guard_pending_task
  <2>2. d.text = scripts[subject].text /\ d.text.of = subject
    BY <1>8, <2>1, ScriptServed DEF ScriptInv2
  <2>3. d.polished # None => d.polished = d.text
    BY <1>8, <2>1 DEF Script!load_transcript_detail, Script!load_polished_transcript
  <2>4. /\ paper'.detail = d /\ paper'.draft = d.text /\ paper'.text = paper.text
        /\ paper'.loading = FALSE /\ paper'.saving = paper.saving
    BY <1>6, <1>8 DEF ScriptPapers
  <2>n. None \notin Notes
    BY DEF ScriptConstants
  <2>5. ScriptOfSubject'
    BY <1>1, <2>1, <2>2, <2>4, <2>n DEF ScriptInv2, ScriptOfSubject
  <2> QED
    BY <1>1, <1>2, <1>3, <2>3, <2>4, <2>5
       DEF ScriptInv2, ScriptAwaits, ScriptPolished, ScriptLoading, ScriptSaving
<1>9. CASE /\ c.live
           /\ paper' = [paper EXCEPT !.detail = None, !.draft = paper.text,
                          !.segments = None, !.loading = FALSE]
  <2>1. /\ paper'.detail = None /\ paper'.draft = paper.text /\ paper'.text = paper.text
        /\ paper'.loading = FALSE /\ paper'.saving = paper.saving
    BY <1>6, <1>9 DEF ScriptPapers
  <2> QED
    BY <1>1, <1>2, <1>3, <2>1
       DEF ScriptInv2, ScriptAwaits, ScriptOfSubject, ScriptPolished, ScriptLoading,
           ScriptSaving
<1> QED
  BY <1>7, <1>8, <1>9 DEF Script!LoadAnswer, c

LEMMA ScriptSave2 ==
  ASSUME ScriptConstants, ScriptInv2, ScriptInv', Script!saveTranscriptDocument
  PROVE  ScriptInv2'
<1> DEFINE c == Script!saveTranscriptEdit(subject, paper.draft, paper.segments)
<1>1. /\ subject # None /\ ~paper.saving /\ paper' = [paper EXCEPT !.saving = TRUE]
      /\ wire' = Append(wire, c)
      /\ UNCHANGED <<scripts, subject, player, polish, generating, erasing, edits, missed>>
  BY DEF Script!saveTranscriptDocument
<1>2. /\ c.kind = "save" /\ c.of = subject /\ c.after = None
      /\ c \in Script!Wired
  BY <1>1
     DEF Script!saveTranscriptEdit, Script!Wired, ScriptInv2, ScriptInv, ScriptTypes,
         ScriptPapers
<1>3. c \in ScriptSaves /\ c \notin ScriptPolishes /\ ScriptKinds(c)
  BY <1>2 DEF ScriptSaves, ScriptPolishes, ScriptKinds, ScriptConstants
<1>4. ~ScriptHas(wire, ScriptSaves)
  BY <1>1 DEF ScriptInv2, ScriptAwaits
<1> HIDE DEF c
<1>5. ScriptWaited'
  BY <1>1, <1>2, <1>3, <1>4, ScriptQueueSends
<1>6. \A S : ScriptHas(wire', S) <=> ScriptHas(wire, S) \/ c \in S
  BY <1>1, ScriptSendsHas DEF ScriptInv2, ScriptInv, ScriptTypes
<1>7. /\ paper'.saving = TRUE /\ paper'.text = paper.text /\ paper'.draft = paper.draft
      /\ paper'.detail = paper.detail /\ paper'.loading = paper.loading
  BY <1>1 DEF ScriptInv2, ScriptInv, ScriptTypes, ScriptPapers
<1> QED
  BY <1>1, <1>3, <1>5, <1>6, <1>7
     DEF ScriptInv2, ScriptAwaits, ScriptOfSubject, ScriptPolished, ScriptLoading, ScriptSaving

LEMMA ScriptSaveAnswer2 ==
  ASSUME ScriptConstants, ScriptInv2, ScriptInv', Script!SaveAnswer
  PROVE  ScriptInv2'
<1> DEFINE c == Head(wire)
           r == Script!loadTranscriptDetail(c.of, "save")
<1>0. paper \in ScriptPapers /\ scripts \in [Notes -> ScriptScripts \cup {None}]
  BY DEF ScriptInv2, ScriptInv, ScriptTypes
<1>1. /\ wire # <<>> /\ c.kind = "save"
      /\ UNCHANGED <<subject, player, polish, generating, erasing, edits, missed>>
  BY DEF Script!SaveAnswer
<1>2. wire \in Seq(Script!Wired) /\ ScriptOnce(wire) /\ Tail(wire) \in Seq(Script!Wired)
  BY <1>1 DEF ScriptInv2, ScriptInv, ScriptTypes, ScriptWaited
<1>3. /\ ScriptOnce(Tail(wire)) /\ c \in Script!Wired /\ ScriptKinds(c)
      /\ \A i \in DOMAIN Tail(wire) : \E j \in DOMAIN wire : Tail(wire)[i] = wire[j]
      /\ c.of \in Notes /\ (subject # None => c.of = subject)
  <2>1. /\ ScriptOnce(Tail(wire)) /\ c \in Script!Wired
        /\ \A i \in DOMAIN Tail(wire) : \E j \in DOMAIN wire : Tail(wire)[i] = wire[j]
        /\ \E j \in DOMAIN wire : c = wire[j]
    BY <1>1, <1>2, ScriptPopped
  <2> QED
    BY <1>1, <2>1 DEF ScriptInv2, ScriptWaited, Script!Wired
<1>4. c \in ScriptSaves /\ c \notin ScriptPolishes /\ c \notin ScriptLoadsSent /\ c \notin ScriptRefreshes
  BY <1>1, <1>3
     DEF ScriptSaves, ScriptPolishes, ScriptLoadsSent, ScriptRefreshes, ScriptKinds,
         ScriptConstants
<1>5. ~ScriptHas(Tail(wire), ScriptSaves) /\ paper.saving
  BY <1>1, <1>2, <1>4, ScriptPopped, ScriptPoppedHas DEF ScriptInv2, ScriptAwaits
<1>6. \A S : /\ ScriptHas(Tail(wire), S) => ScriptHas(wire, S)
             /\ ScriptHas(wire, S) /\ c \notin S => ScriptHas(Tail(wire), S)
  BY <1>1, <1>2, ScriptPoppedHas
<1>7. c.text # None /\ c.text.of = c.of
  BY <1>1, ScriptFirst DEF ScriptInv2, ScriptSound, ScriptAgree
<1>w. \A i \in DOMAIN Tail(wire) :
        /\ ScriptKinds(Tail(wire)[i])
        /\ Tail(wire)[i].kind # "load" /\ subject # None => Tail(wire)[i].of = subject
  BY <1>3 DEF ScriptInv2, ScriptWaited
<1> HIDE DEF c
<1>8. CASE /\ scripts[c.of] # None /\ subject = c.of
           /\ scripts' = [scripts EXCEPT ![c.of] = Script!save_transcript(@, c.text, c.segments)]
           /\ wire' = Append(Tail(wire), r)
           /\ paper' = [paper EXCEPT !.text = c.text, !.draft = c.text, !.dirty = FALSE,
                     !.detail = IF @ = None THEN None
                                ELSE [@ EXCEPT !.text = c.text, !.segments = c.segments]]
  <2>1. r \in Script!Wired /\ r.kind = "refresh" /\ r.after = "save" /\ r.of = c.of
    BY <1>3 DEF Script!loadTranscriptDetail, Script!Wired, Script!Maybe, ScriptConstants
  <2>2. r \in ScriptSaves /\ r \notin ScriptPolishes /\ r \in ScriptRefreshes /\ ScriptKinds(r)
    BY <2>1 DEF ScriptSaves, ScriptPolishes, ScriptRefreshes, ScriptKinds
  <2> HIDE DEF r
  <2>3. /\ ScriptOnce(wire')
        /\ \A i \in DOMAIN wire' : wire'[i] = r \/ \E j \in DOMAIN Tail(wire) : wire'[i] = Tail(wire)[j]
    <3>1. Tail(wire) \in Seq(Script!Wired) /\ ScriptOnce(Tail(wire))
      BY <1>2, <1>3
    <3>2. r \in Script!Wired /\ (r \in ScriptSaves => ~ScriptHas(Tail(wire), ScriptSaves))
          /\ (r \in ScriptPolishes => ~ScriptHas(Tail(wire), ScriptPolishes))
      BY <1>5, <2>1, <2>2
    <3>3. /\ ScriptOnce(Append(Tail(wire), r))
          /\ \A i \in DOMAIN Append(Tail(wire), r) :
               \/ Append(Tail(wire), r)[i] = r
               \/ \E j \in DOMAIN Tail(wire) : Append(Tail(wire), r)[i] = Tail(wire)[j]
      BY <3>1, <3>2, ScriptSends
    <3> QED
      BY <1>8, <3>3
  <2>4. ScriptWaited'
    BY <1>1, <1>8, <1>w, <2>1, <2>2, <2>3 DEF ScriptWaited
  <2>5. \A S : ScriptHas(wire', S) <=> ScriptHas(Tail(wire), S) \/ r \in S
    BY <1>2, <1>8, ScriptSendsHas
  <2>6. scripts'[c.of].text = c.text
    <3>1. scripts[c.of] \in ScriptScripts
      BY <1>0, <1>3, <1>8
    <3>2. scripts'[c.of] = [scripts[c.of] EXCEPT !.text = c.text, !.segments = c.segments]
      BY <1>0, <1>3, <1>8 DEF Script!save_transcript
    <3> QED
      BY <3>1, <3>2 DEF ScriptScripts
  <2>7. /\ paper'.text = c.text /\ paper'.draft = c.text
        /\ paper'.saving = paper.saving /\ paper'.loading = paper.loading
        /\ paper.detail = None => paper'.detail = None
        /\ paper.detail # None => paper'.detail = [paper.detail EXCEPT !.text = c.text, !.segments = c.segments]
    BY <1>0, <1>8 DEF ScriptPapers
  <2>8. paper.detail # None => paper'.detail.text = c.text
    BY <1>0, <2>7 DEF ScriptPapers, Script!Detail
  <2>n. None \notin Notes
    BY DEF ScriptConstants
  <2>9. ScriptOfSubject'
    BY <1>1, <1>3, <1>7, <1>8, <2>6, <2>7, <2>8, <2>n DEF ScriptOfSubject
  <2>10. ScriptHas(wire', ScriptRefreshes) /\ ScriptHas(wire', ScriptSaves)
    BY <2>2, <2>5
  <2>11. ScriptAwaits' /\ ScriptPolished' /\ ScriptLoading' /\ ScriptSaving'
    BY <1>1, <1>4, <1>5, <1>6, <1>8, <2>2, <2>5, <2>7, <2>10
       DEF ScriptInv2, ScriptAwaits, ScriptPolished, ScriptLoading, ScriptSaving
  <2> QED
    BY <2>4, <2>9, <2>11 DEF ScriptInv2
<1>9. CASE /\ wire' = Tail(wire) /\ paper' = [paper EXCEPT !.saving = FALSE]
           /\ (scripts' = scripts \/ (subject # c.of /\
                scripts' = [scripts EXCEPT ![c.of] = Script!save_transcript(@, c.text, c.segments)]))
  <2>1. /\ paper'.saving = FALSE /\ paper'.text = paper.text /\ paper'.draft = paper.draft
        /\ paper'.detail = paper.detail /\ paper'.loading = paper.loading
    BY <1>0, <1>9 DEF ScriptPapers
  <2>2. ScriptWaited'
    BY <1>1, <1>3, <1>9, <1>w DEF ScriptWaited
  <2>3. ScriptOfSubject'
    BY <1>0, <1>1, <1>3, <1>9, <2>1 DEF ScriptInv2, ScriptOfSubject
  <2>4. ScriptAwaits' /\ ScriptPolished' /\ ScriptLoading' /\ ScriptSaving'
    BY <1>1, <1>4, <1>5, <1>6, <1>9, <2>1
       DEF ScriptInv2, ScriptAwaits, ScriptPolished, ScriptLoading, ScriptSaving
  <2> QED
    BY <2>2, <2>3, <2>4 DEF ScriptInv2
<1> QED
  BY <1>8, <1>9 DEF Script!SaveAnswer, c

LEMMA ScriptRefreshed2 ==
  ASSUME ScriptConstants, ScriptInv2, ScriptInv', Script!refreshPolishedTranscript
  PROVE  ScriptInv2'
<1> DEFINE c == Head(wire)
<1>0. paper \in ScriptPapers /\ scripts \in [Notes -> ScriptScripts \cup {None}]
  BY DEF ScriptInv2, ScriptInv, ScriptTypes
<1>1. /\ wire # <<>> /\ c.kind = "refresh" /\ wire' = Tail(wire)
      /\ UNCHANGED <<scripts, subject, generating, erasing, edits>>
      /\ c.after = "save" => UNCHANGED polish
      /\ c.after # "save" => polish' = None
  BY DEF Script!refreshPolishedTranscript
<1>2. /\ ScriptWaited' /\ c \in Script!Wired /\ ScriptKinds(c)
      /\ subject # None => c.of = subject
      /\ c \in ScriptSaves => ~ScriptHas(wire', ScriptSaves)
      /\ c \in ScriptPolishes => ~ScriptHas(wire', ScriptPolishes)
      /\ \A S : /\ ScriptHas(wire', S) => ScriptHas(wire, S)
                /\ ScriptHas(wire, S) /\ c \notin S => ScriptHas(wire', S)
  BY <1>1, ScriptQueuePops
<1>3. /\ c.after \in {"save", "polish"} /\ c \notin ScriptLoadsSent /\ c.of \in Notes
      /\ c \in ScriptSaves <=> c.after = "save"
      /\ c \in ScriptPolishes <=> c.after = "polish"
  BY <1>1, <1>2 DEF ScriptKinds, ScriptLoadsSent, ScriptSaves, ScriptPolishes, Script!Wired
<1>4. paper'.saving = (paper.saving /\ c.after # "save")
  <2> DEFINE saving == paper.saving /\ c.after # "save"
  <2>1. \E words : paper' = [paper EXCEPT !.saving = saving, !.detail = words]
                    \/ paper' = [paper EXCEPT !.saving = saving]
    BY DEF Script!refreshPolishedTranscript
  <2> HIDE DEF saving
  <2>2. paper'.saving = saving
    BY <1>0, <2>1 DEF ScriptPapers
  <2> QED
    BY <2>2 DEF saving
<1>5. paper'.text = paper.text /\ paper'.draft = paper.draft /\ paper'.loading = paper.loading
  BY <1>0 DEF Script!refreshPolishedTranscript, ScriptPapers
<1>6. \/ missed' = TRUE /\ paper'.detail = paper.detail
      \/ /\ scripts[c.of] # None
         /\ \E d \in Script!load_transcript_detail(c.of) :
              paper'.detail = IF paper.detail = None \/ subject # c.of THEN paper.detail
                              ELSE [paper.detail EXCEPT !.polished = d.polished]
  BY <1>0 DEF Script!refreshPolishedTranscript, ScriptPapers, Script!guard_pending_task
<1> HIDE DEF c
<1>7. ScriptAwaits'
  BY <1>1, <1>2, <1>3, <1>4 DEF ScriptInv2, ScriptAwaits
<1>8. ScriptLoading' /\ ScriptSaving'
  BY <1>1, <1>2, <1>3, <1>4, <1>5 DEF ScriptInv2, ScriptLoading, ScriptSaving
<1>9. CASE missed' = TRUE /\ paper'.detail = paper.detail
  BY <1>1, <1>2, <1>5, <1>7, <1>8, <1>9 DEF ScriptInv2, ScriptOfSubject, ScriptPolished
<1>10. ASSUME scripts[c.of] # None, NEW d \in Script!load_transcript_detail(c.of),
              paper'.detail = IF paper.detail = None \/ subject # c.of THEN paper.detail
                              ELSE [paper.detail EXCEPT !.polished = d.polished]
       PROVE  ScriptInv2'
  <2>1. CASE paper.detail = None
    BY <1>1, <1>2, <1>5, <1>7, <1>8, <1>10, <2>1 DEF ScriptInv2, ScriptOfSubject, ScriptPolished
  <2>2. CASE paper.detail # None
    <3>1. subject = c.of /\ paper.detail.text = scripts[subject].text /\ paper.detail.text.of = subject
      BY <1>2, <1>10, <2>2 DEF ScriptInv2, ScriptOfSubject
    <3>2. paper'.detail = [paper.detail EXCEPT !.polished = d.polished]
      BY <1>10, <2>2, <3>1
    <3>3. d.polished # None => d.polished = scripts[subject].text
      BY <1>10, <3>1 DEF Script!load_transcript_detail, Script!load_polished_transcript
    <3>4. paper'.detail.text = paper.detail.text /\ paper'.detail.polished = d.polished
      BY <1>0, <2>2, <3>2 DEF ScriptPapers, Script!Detail
    <3>5. ScriptOfSubject'
      BY <1>1, <1>2, <1>5, <2>2, <3>1, <3>4 DEF ScriptInv2, ScriptOfSubject
    <3> QED
      BY <1>2, <1>7, <1>8, <3>1, <3>3, <3>4, <3>5 DEF ScriptInv2, ScriptPolished
  <2> QED
    BY <2>1, <2>2
<1> QED
  BY <1>6, <1>9, <1>10

LEMMA ScriptEdits2 ==
  ASSUME ScriptInv2, ScriptInv', paper' \in ScriptPapers, paper'.detail = paper.detail, paper'.text = paper.text,
         paper'.draft # None => paper'.draft.of = subject,
         paper'.loading = paper.loading, paper'.saving = paper.saving,
         UNCHANGED <<scripts, subject, wire, polish, missed>>
  PROVE  ScriptInv2'
BY DEF ScriptInv2, ScriptWaited, ScriptOnce, ScriptHas, ScriptKinds, ScriptAwaits,
       ScriptOfSubject, ScriptPolished, ScriptLoading, ScriptSaving

LEMMA ScriptDiscards2 ==
  ASSUME ScriptConstants, ScriptInv2, ScriptInv', Script!discardTranscriptDraft
  PROVE  ScriptInv2'
<1>0. paper \in ScriptPapers
  BY DEF ScriptInv2, ScriptInv, ScriptTypes
<1>1. /\ paper'.detail = paper.detail /\ paper'.text = paper.text
      /\ paper'.draft = IF paper.detail = None THEN paper.text ELSE paper.detail.text
      /\ paper'.loading = paper.loading /\ paper'.saving = paper.saving
      /\ UNCHANGED <<scripts, subject, wire, polish, missed>>
  BY <1>0 DEF Script!discardTranscriptDraft, ScriptPapers
<1>2. paper'.draft # None => paper'.draft.of = subject
  BY <1>1 DEF ScriptInv2, ScriptOfSubject
<1> QED
  BY <1>1, <1>2, ScriptEdits2 DEF ScriptInv, ScriptTypes

LEMMA ScriptTyped2 ==
  ASSUME ScriptConstants, ScriptInv2, ScriptInv', NEW d \in Script!Typed,
         Script!updateTranscriptSegmentDraft(d) \/ Script!updateFullTranscriptDraft(d)
  PROVE  ScriptInv2'
<1>0. paper \in ScriptPapers
  BY DEF ScriptInv2, ScriptInv, ScriptTypes
<1>1. d.of = subject
  BY DEF Script!Typed
<1>2. /\ paper'.detail = paper.detail /\ paper'.text = paper.text /\ paper'.draft = d
      /\ paper'.loading = paper.loading /\ paper'.saving = paper.saving
      /\ UNCHANGED <<scripts, subject, wire, polish, missed>>
  BY <1>0
     DEF Script!updateTranscriptSegmentDraft, Script!updateFullTranscriptDraft, ScriptPapers
<1> QED
  BY <1>1, <1>2, ScriptEdits2 DEF ScriptInv, ScriptTypes

LEMMA ScriptPolishEnds2 ==
  ASSUME ScriptConstants, ScriptInv2, ScriptInv', Script!PolishEnds
  PROVE  ScriptInv2'
<1>0. /\ wire \in Seq(Script!Wired) /\ scripts \in [Notes -> ScriptScripts \cup {None}]
      /\ polish \in [of : Notes, from : Script!Maybe] \cup {None}
  BY DEF ScriptInv2, ScriptInv, ScriptTypes
<1>1. ~ScriptHas(wire, ScriptPolishes) /\ polish # None /\ UNCHANGED <<subject, paper, missed>>
  BY DEF Script!PolishEnds, ScriptHas, ScriptPolishes
<1>2. CASE polish' = None /\ UNCHANGED <<scripts, wire>>
  BY <1>1, <1>2, ScriptOthers2
<1>3. CASE /\ scripts[polish.of] # None
           /\ scripts' = [scripts EXCEPT ![polish.of].polished = polish.from]
           /\ wire' = Append(wire, Script!loadTranscriptDetail(polish.of, "polish"))
           /\ UNCHANGED polish
  <2> DEFINE r == Script!loadTranscriptDetail(polish.of, "polish")
  <2>1. r \in Script!Wired /\ r.kind = "refresh" /\ r.after = "polish" /\ r.of = polish.of
    BY <1>0, <1>1 DEF Script!loadTranscriptDetail, Script!Wired, Script!Maybe, ScriptConstants
  <2>2. r \notin ScriptSaves /\ r \in ScriptPolishes /\ r \in ScriptRefreshes /\ ScriptKinds(r) /\ r \notin ScriptLoadsSent
    BY <2>1 DEF ScriptSaves, ScriptPolishes, ScriptRefreshes, ScriptKinds, ScriptLoadsSent
  <2>3. subject # None => r.of = subject
    BY <1>1, <2>1 DEF ScriptInv2, ScriptAwaits
  <2> HIDE DEF r
  <2>4. ScriptWaited'
    BY <1>1, <1>3, <2>1, <2>2, <2>3, ScriptQueueSends DEF r
  <2>5. \A S : ScriptHas(wire', S) <=> ScriptHas(wire, S) \/ r \in S
    BY <1>0, <1>3, ScriptSendsHas DEF r
  <2>6. \A t \in Notes : /\ scripts'[t] # None => scripts[t] # None /\ scripts'[t].text = scripts[t].text
    <3> TAKE t \in Notes
    <3>1. CASE t = polish.of
      BY <1>0, <1>3, <3>1 DEF ScriptScripts
    <3>2. CASE t # polish.of
      BY <1>0, <1>3, <3>2
    <3> QED
      BY <3>1, <3>2
  <2>7. ScriptOfSubject'
    BY <1>1, <2>6 DEF ScriptInv2, ScriptOfSubject, ScriptInv, ScriptTypes
  <2>8. ScriptAwaits' /\ ScriptPolished' /\ ScriptLoading' /\ ScriptSaving'
    BY <1>1, <1>3, <2>2, <2>5
       DEF ScriptInv2, ScriptAwaits, ScriptPolished, ScriptLoading, ScriptSaving
  <2> QED
    BY <2>4, <2>7, <2>8 DEF ScriptInv2
<1> QED
  BY <1>2, <1>3 DEF Script!PolishEnds

\* Steps of the run, of the other run and of the audio.
LEMMA ScriptRuns2 ==
  ASSUME ScriptConstants, ScriptInv2, ScriptInv', subject # None => TRUE,
         \/ Script!PolishReads \/ Script!retryInsights \/ Script!RetryEnds \/ (subject # None /\ Script!polishTranscript)
         \/ (\E w \in {"segment", "full-text"} : Script!beginTranscriptSegmentEdit(w))
         \/ Script!endTranscriptSegmentEdit \/ Script!playTranscriptSegment \/ Script!toggleTranscriptAudio
  PROVE  ScriptInv2'
<1>1. CASE Script!PolishReads
  <2>1. polish \in [of : Notes, from : Script!Maybe] \cup {None} /\ polish # None
    BY <1>1 DEF Script!PolishReads, ScriptInv2, ScriptInv, ScriptTypes
  <2>2. polish' = [polish EXCEPT !.from = scripts[polish.of].text] /\ scripts[polish.of] # None
    BY <1>1 DEF Script!PolishReads
  <2>3. polish.of \in Notes /\ scripts \in [Notes -> ScriptScripts \cup {None}]
    BY <2>1 DEF ScriptInv2, ScriptInv, ScriptTypes
  <2>4. scripts[polish.of].text \in Script!Maybe
    BY <2>2, <2>3 DEF ScriptScripts, Script!Maybe
  <2>5. polish' \in [of : Notes, from : Script!Maybe] /\ polish'.of = polish.of
    BY <2>1, <2>2, <2>4
  <2>6. polish' # None
    BY <2>5, None \notin [of : Notes, from : Script!Maybe] DEF ScriptConstants
  <2> QED
    BY <1>1, <2>1, <2>5, <2>6, ScriptOthers2 DEF Script!PolishReads, ScriptInv2, ScriptAwaits
<1>2. CASE subject # None /\ Script!polishTranscript
  <2>1. ~ScriptHas(wire, ScriptPolishes) /\ polish' = [of |-> subject, from |-> None]
        /\ UNCHANGED <<scripts, subject, paper, wire, missed>>
    BY <1>2 DEF Script!polishTranscript, ScriptInv2, ScriptAwaits
  <2> QED
    BY <2>1, ScriptOthers2
<1>3. CASE UNCHANGED <<scripts, subject, paper, wire, polish, missed>>
  BY <1>3, ScriptOthers2 DEF ScriptInv2, ScriptAwaits
<1> QED
  BY <1>1, <1>2, <1>3
     DEF Script!retryInsights, Script!RetryEnds, Script!beginTranscriptSegmentEdit,
         Script!endTranscriptSegmentEdit, Script!playTranscriptSegment,
         Script!toggleTranscriptAudio

LEMMA ScriptWorkspace2 ==
  ASSUME ScriptConstants, ScriptInv2, ScriptInv', Script!LocalTranscriptWorkspace PROVE ScriptInv2'
<1>1. subject # None
  BY DEF Script!LocalTranscriptWorkspace
<1>2. CASE Script!polishTranscript
  BY <1>1, <1>2, ScriptRuns2
<1>3. CASE Script!TranscriptReviewPanel
  BY <1>1, <1>3, ScriptRuns2, ScriptTyped2, ScriptSave2 DEF Script!TranscriptReviewPanel
<1> QED
  BY <1>2, <1>3 DEF Script!LocalTranscriptWorkspace

LEMMA ScriptSteps2 == ScriptConstants /\ ScriptInv2 /\ (Script!Next \/ UNCHANGED Script!vars) => ScriptInv2'
<1> SUFFICES ASSUME ScriptConstants, ScriptInv2, Script!Next \/ UNCHANGED Script!vars PROVE ScriptInv2'
  OBVIOUS
<1>0. ScriptInv'
  BY ScriptNextKeeps DEF ScriptInv2
<1>1. CASE UNCHANGED Script!vars
  BY <1>0, <1>1, ScriptOthers2 DEF Script!vars, ScriptInv2, ScriptAwaits
<1>2. CASE (\E t \in Notes : Script!restoreHistoryItem(t)) \/ Script!startNewTaskFromToolbar
           \/ Script!confirmHistoryDeletion \/ Script!completeHistoryTaskDeletion
  BY <1>0, <1>2, ScriptNavigates2, ScriptDeleted2
<1>3. CASE Script!LoadAnswer \/ Script!SaveAnswer \/ Script!refreshPolishedTranscript
  BY <1>0, <1>3, ScriptLoadAnswer2, ScriptSaveAnswer2, ScriptRefreshed2
<1>4. CASE Script!PolishReads \/ Script!PolishEnds \/ Script!retryInsights \/ Script!RetryEnds
  BY <1>0, <1>4, ScriptRuns2, ScriptPolishEnds2
<1>5. CASE Script!LocalTranscriptWorkspace \/ Script!useStorageEditor
  BY <1>0, <1>5, ScriptWorkspace2, ScriptSave2, ScriptDiscards2 DEF Script!useStorageEditor
<1> QED
  BY <1>1, <1>2, <1>3, <1>4, <1>5 DEF Script!Next

LEMMA ScriptHolds2 == ScriptInv2 => Script!TranscriptWillAnswer /\ Script!PolishedIsOfText
<1> SUFFICES ASSUME ScriptInv2 PROVE Script!TranscriptWillAnswer /\ Script!PolishedIsOfText
  OBVIOUS
<1>1. Script!TranscriptWillAnswer
  BY DEF ScriptInv2, ScriptLoading, ScriptSaving, ScriptHas, ScriptLoadsSent, ScriptSaves,
         Script!TranscriptWillAnswer
<1>2. Script!PolishedIsOfText
  BY DEF ScriptInv2, ScriptOfSubject, ScriptPolished, ScriptHas, ScriptRefreshes,
         Script!PolishedIsOfText
<1> QED
  BY <1>1, <1>2
================================================================================

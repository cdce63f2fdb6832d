--------------------------- MODULE SubscriptionProofs ---------------------------
(* Proofs about subscription quota for any set of subscriptions, limits,   *)
(* requests, amounts and events.                                           *)
EXTENDS SubscriptionQuota, WellFoundedInduction, TLAPS

(* A non-empty set of positions has a first one, which is what Choice is.  *)
LEMMA ChoiceIsFirst ==
  ASSUME NEW u, NEW amount, Candidates(u, amount) # {}
  PROVE  /\ Choice(u, amount) \in Candidates(u, amount)
         /\ \A j \in Candidates(u, amount) : Choice(u, amount) <= j
<1> DEFINE C == Candidates(u, amount)
<1>1. C \subseteq Nat
  BY SubOrderAssumption DEF Candidates
<1> DEFINE Less == {p \in Nat \X Nat : p[1] < p[2]}
<1>2. \E x \in C : \A y \in C : ~(<<y, x>> \in Less)
  <2>1. IsWellFoundedOn(Less, Nat)
    BY NatLessThanWellFounded DEF OpToRel
  <2>2. C # {}
    OBVIOUS
  <2> HIDE DEF C, Less
  <2> QED BY <1>1, <2>1, <2>2, WFMin
<1>3. \E x \in C : \A y \in C : x <= y
  <2>1. \A x, y \in Nat : ~(<<y, x>> \in Less) => x <= y
    OBVIOUS
  <2> HIDE DEF C, Less
  <2> QED BY <1>1, <1>2, <2>1
<1> QED BY <1>3 DEF Choice

(* What a due reset leaves is a row that is used no more than before.      *)
LEMMA ResetLowers ==
  ASSUME NEW row \in SubscriptionRow
  PROVE  /\ maybeReset(row) \in SubscriptionRow
         /\ maybeReset(row).used \in Nat
         /\ maybeReset(row).used <= row.used
<1>1. CASE row.due
  <2>1. maybeReset(row) = [used |-> 0, due |-> FALSE, status |-> row.status]
    BY <1>1 DEF maybeReset, SubscriptionRow
  <2> QED BY <2>1 DEF SubscriptionRow
<1>2. CASE ~row.due
  <2>1. maybeReset(row) = row
    BY <1>2 DEF maybeReset
  <2> QED BY <2>1 DEF SubscriptionRow
<1> QED BY <1>1, <1>2

Limited(s, row) == SubTotal[s] > 0 => row.used <= SubTotal[s]

(* UsedWithinTotal, row by row.                                            *)
LEMMA LimitedIsUsed == UsedWithinTotal <=> \A s \in Subs : Limited(s, subscription[s])
BY DEF UsedWithinTotal, Limited

(* A reset of some of the subscriptions keeps types and limits.            *)
LEMMA ResetKeeps ==
  ASSUME SubTypeOK, UsedWithinTotal, NEW s \in Subs
  PROVE  /\ subscription[s] \in SubscriptionRow /\ Limited(s, subscription[s])
         /\ maybeReset(subscription[s]) \in SubscriptionRow
         /\ Limited(s, maybeReset(subscription[s]))
<1>1. subscription[s] \in SubscriptionRow /\ SubTotal[s] \in Nat /\ subscription[s].used \in Nat
  BY SubTotalAssumption DEF SubTypeOK, SubscriptionRow
<1>2. Limited(s, subscription[s])
  BY LimitedIsUsed
<1>3. Limited(s, maybeReset(subscription[s]))
  BY <1>1, <1>2, ResetLowers DEF Limited
<1> QED BY <1>1, <1>2, <1>3, ResetLowers

(* A pre-consumption charges a subscription that covers it, after the due  *)
(* reset, so that it stays within its total.                               *)
LEMMA ConsumeKeeps ==
  ASSUME SubTypeOK, UsedWithinTotal, NEW r \in Requests, NEW u \in Customers, NEW amount \in Nat, ConsumeFrom(r, u, amount)
  PROVE  SubTypeOK' /\ UsedWithinTotal'
<1> DEFINE chosen == Choice(u, amount)
           s == SubOrder[chosen]
<1>1. chosen \in DOMAIN SubOrder /\ s \in Subs /\ Covers(s, amount)
  <2>1. chosen \in Candidates(u, amount)
    BY ChoiceIsFirst DEF ConsumeFrom
  <2> QED BY <2>1, SubOrderAssumption DEF Candidates
<1>2. PICK examined : subscription' = [x \in Subs |->
             IF x = s THEN [maybeReset(subscription[x]) EXCEPT !.used = @ + amount]
             ELSE IF x \in examined THEN maybeReset(subscription[x]) ELSE subscription[x]]
  BY DEF ConsumeFrom
<1>3. preRecord' = [preRecord EXCEPT ![r] = [status |-> "consumed", user |-> u, sub |-> s, amount |-> amount]]
      /\ UNCHANGED refunding
  BY DEF ConsumeFrom
<1> HIDE DEF s, chosen
<1> DEFINE charged == [maybeReset(subscription[s]) EXCEPT !.used = @ + amount]
<1>4. charged \in SubscriptionRow /\ Limited(s, charged)
  <2>1. maybeReset(subscription[s]) \in SubscriptionRow /\ SubTotal[s] \in Nat
    BY <1>1, ResetKeeps, SubTotalAssumption
  <2>2. /\ charged \in SubscriptionRow
        /\ charged.used = maybeReset(subscription[s]).used + amount
        /\ maybeReset(subscription[s]).used \in Nat
    BY <2>1 DEF SubscriptionRow
  <2>3. SubTotal[s] = 0 \/ SubTotal[s] - maybeReset(subscription[s]).used >= amount
    BY <1>1 DEF Covers
  <2> HIDE DEF charged
  <2> QED BY <2>1, <2>2, <2>3 DEF Limited
<1>5. ASSUME NEW x \in Subs PROVE subscription'[x] \in SubscriptionRow /\ Limited(x, subscription'[x])
  <2>1. CASE x = s
    BY <1>2, <1>4, <2>1
  <2>2. CASE x # s
    BY <1>2, <2>2, ResetKeeps
  <2> QED BY <2>1, <2>2
<1>6. subscription' \in [Subs -> SubscriptionRow]
  BY <1>2, <1>5
<1>7. preRecord' \in [Requests -> SubscriptionPreConsumeRecord]
  BY <1>1, <1>3 DEF SubTypeOK, SubscriptionPreConsumeRecord
<1> QED BY <1>3, <1>5, <1>6, <1>7 DEF SubTypeOK, UsedWithinTotal, Limited

(* A settlement or refund is clamped at zero and refused above the total.  *)
LEMMA DeltaKeeps ==
  ASSUME SubTypeOK, UsedWithinTotal, NEW s, NEW delta \in Int, PostConsumeUserSubscriptionDelta(s, delta)
  PROVE  subscription' \in [Subs -> SubscriptionRow] /\ UsedWithinTotal' /\ preRecord' = preRecord
<1>1. subscription' = [subscription EXCEPT ![s].used = UsedAfter(s, delta)] /\ preRecord' = preRecord
  BY DEF PostConsumeUserSubscriptionDelta
<1>2. CASE s \in Subs
  <2>1. subscription[s] \in SubscriptionRow /\ subscription[s].used \in Nat /\ SubTotal[s] \in Nat
    BY <1>2, SubTotalAssumption DEF SubTypeOK, SubscriptionRow
  <2>2. SubTotal[s] = 0 \/ subscription[s].used + delta <= SubTotal[s]
    BY DEF PostConsumeUserSubscriptionDelta, DeltaAllowed
  <2>3. UsedAfter(s, delta) \in Nat /\ (SubTotal[s] > 0 => UsedAfter(s, delta) <= SubTotal[s])
    BY <2>1, <2>2 DEF UsedAfter
  <2>4. subscription' \in [Subs -> SubscriptionRow]
    BY <1>1, <1>2, <2>1, <2>3 DEF SubTypeOK, SubscriptionRow
  <2>5. ASSUME NEW x \in Subs, SubTotal[x] > 0 PROVE subscription'[x].used <= SubTotal[x]
    <3>1. CASE x = s
      BY <1>1, <2>1, <2>3, <2>5, <3>1 DEF SubTypeOK, SubscriptionRow
    <3>2. CASE x # s
      BY <1>1, <2>5, <3>2 DEF SubTypeOK, UsedWithinTotal
    <3> QED BY <3>1, <3>2
  <2> QED BY <1>1, <2>4, <2>5 DEF UsedWithinTotal
<1>3. CASE s \notin Subs
  <2>1. subscription' = subscription
    BY <1>1, <1>3 DEF SubTypeOK
  <2> QED BY <1>1, <2>1 DEF SubTypeOK, UsedWithinTotal
<1> QED BY <1>2, <1>3

(* One row rewritten to a well-typed row within its limit.                 *)
LEMMA RowKeeps ==
  ASSUME SubTypeOK, UsedWithinTotal, NEW s \in Subs, NEW row \in SubscriptionRow, Limited(s, row),
         subscription' = [subscription EXCEPT ![s] = row], UNCHANGED <<preRecord, refunding>>
  PROVE  SubTypeOK' /\ UsedWithinTotal'
<1>1. \A x \in Subs : subscription'[x] = IF x = s THEN row ELSE subscription[x]
  BY DEF SubTypeOK
<1> QED BY <1>1 DEF SubTypeOK, UsedWithinTotal, Limited

(* Every step of a request keeps types and limits.                         *)
LEMMA RequestKeeps ==
  ASSUME SubTypeOK, UsedWithinTotal, NEW r \in Requests, RequestStep(r)
  PROVE  SubTypeOK' /\ UsedWithinTotal'
<1>0. preRecord[r] \in SubscriptionPreConsumeRecord /\ preRecord[r].amount \in Nat
  BY DEF SubTypeOK, SubscriptionPreConsumeRecord
<1>1. ASSUME NEW u \in Customers, NEW a \in Consumptions, PreConsumeUserSubscription(r, u, a)
      PROVE  SubTypeOK' /\ UsedWithinTotal'
  <2>1. a \in Nat
    BY ConsumptionsAssumption
  <2>2. UNCHANGED subVars \/ ConsumeFrom(r, u, a)
    BY <1>1 DEF PreConsumeUserSubscription
  <2>3. UNCHANGED subVars => SubTypeOK' /\ UsedWithinTotal'
    BY DEF subVars, SubTypeOK, UsedWithinTotal
  <2> QED BY <2>1, <2>2, <2>3, ConsumeKeeps
<1>2. CASE RefundLowersUsage(r)
  <2>1. -preRecord[r].amount \in Int
    BY <1>0
  <2>2. subscription' \in [Subs -> SubscriptionRow] /\ UsedWithinTotal' /\ preRecord' = preRecord
    BY <1>2, <2>1, DeltaKeeps DEF RefundLowersUsage
  <2> QED BY <1>2, <2>2 DEF RefundLowersUsage, SubTypeOK
<1>3. CASE RefundMarksRecord(r)
  BY <1>3, <1>0 DEF RefundMarksRecord, SubTypeOK, UsedWithinTotal, SubscriptionPreConsumeRecord
<1>4. CASE RefundRollsBack(r)
  BY <1>4 DEF RefundRollsBack, SubTypeOK, UsedWithinTotal
<1>5. CASE CleanupSubscriptionPreConsumeRecord(r)
  BY <1>5 DEF CleanupSubscriptionPreConsumeRecord, SubTypeOK, UsedWithinTotal, SubscriptionPreConsumeRecord, NoRecord
<1> QED BY <1>1, <1>2, <1>3, <1>4, <1>5 DEF RequestStep

(* Every event of a subscription keeps types and limits.                   *)
LEMMA SubscriptionKeeps ==
  ASSUME SubTypeOK, UsedWithinTotal, NEW s \in Subs, SubscriptionStep(s)
  PROVE  SubTypeOK' /\ UsedWithinTotal'
<1>0. /\ subscription[s] \in SubscriptionRow /\ Limited(s, subscription[s])
      /\ maybeReset(subscription[s]) \in SubscriptionRow
      /\ Limited(s, maybeReset(subscription[s]))
      /\ SubTotal[s] \in Nat
  BY ResetKeeps, SubTotalAssumption
<1>1. ASSUME NEW d \in Deltas, PostConsumeUserSubscriptionDelta(s, d), UNCHANGED refunding
      PROVE  SubTypeOK' /\ UsedWithinTotal'
  <2>1. d \in Int
    BY DeltasAssumption
  <2> QED BY <1>1, <2>1, DeltaKeeps DEF SubTypeOK
<1>2. CASE ResetFallsDue(s)
  <2>1. [subscription[s] EXCEPT !.due = TRUE] \in SubscriptionRow /\ Limited(s, [subscription[s] EXCEPT !.due = TRUE])
    BY <1>0 DEF SubscriptionRow, Limited
  <2> QED BY <1>2, <2>1, RowKeeps DEF ResetFallsDue
<1>3. CASE ResetDueSubscription(s)
  BY <1>3, <1>0, RowKeeps DEF ResetDueSubscription
<1>4. ASSUME NEW advance \in BOOLEAN, AdminResetUserSubscription(s, advance)
      PROVE  SubTypeOK' /\ UsedWithinTotal'
  <2>1. CASE advance
    <3> DEFINE row == [used |-> 0, due |-> FALSE, status |-> subscription[s].status]
    <3>1. subscription' = [subscription EXCEPT ![s] = row]
      BY <1>4, <2>1 DEF AdminResetUserSubscription
    <3>2. row \in SubscriptionRow /\ Limited(s, row)
      BY <1>0 DEF SubscriptionRow, Limited
    <3> HIDE DEF row
    <3> QED BY <1>4, <3>1, <3>2, RowKeeps DEF AdminResetUserSubscription
  <2>2. CASE ~advance
    <3>1. subscription' = [subscription EXCEPT ![s] = [subscription[s] EXCEPT !.used = 0]]
      BY <1>4, <2>2 DEF AdminResetUserSubscription
    <3>2. [subscription[s] EXCEPT !.used = 0] \in SubscriptionRow /\ Limited(s, [subscription[s] EXCEPT !.used = 0])
      BY <1>0 DEF SubscriptionRow, Limited
    <3> QED BY <1>4, <3>1, <3>2, RowKeeps DEF AdminResetUserSubscription
  <2> QED BY <2>1, <2>2
<1>5. CASE SubscriptionEnds(s)
  <2>1. [subscription[s] EXCEPT !.status = "ended"] \in SubscriptionRow
        /\ Limited(s, [subscription[s] EXCEPT !.status = "ended"])
    BY <1>0 DEF SubscriptionRow, Limited
  <2> QED BY <1>5, <2>1, RowKeeps DEF SubscriptionEnds
<1>6. CASE SubscriptionDeleted(s)
  <2>1. [subscription[s] EXCEPT !.status = "deleted"] \in SubscriptionRow
        /\ Limited(s, [subscription[s] EXCEPT !.status = "deleted"])
    BY <1>0 DEF SubscriptionRow, Limited
  <2> QED BY <1>6, <2>1, RowKeeps DEF SubscriptionDeleted
<1> QED BY <1>1, <1>2, <1>3, <1>4, <1>5, <1>6 DEF SubscriptionStep

(* Types and limits together are inductive: the limit after a settlement   *)
(* needs the counter to be a number.                                       *)
LEMMA LimitsInductive == SubSpec => [](SubTypeOK /\ UsedWithinTotal)
<1>1. SubInit => SubTypeOK /\ UsedWithinTotal
  BY SubTotalAssumption DEF SubInit, SubTypeOK, UsedWithinTotal, SubscriptionRow, SubscriptionPreConsumeRecord, NoRecord
<1>2. SubTypeOK /\ UsedWithinTotal /\ [SubNext]_subVars => (SubTypeOK /\ UsedWithinTotal)'
  <2>1. ASSUME SubTypeOK, UsedWithinTotal, UNCHANGED subVars PROVE SubTypeOK' /\ UsedWithinTotal'
    BY <2>1 DEF subVars, SubTypeOK, UsedWithinTotal
  <2> QED BY <2>1, RequestKeeps, SubscriptionKeeps DEF SubNext
<1> QED BY <1>1, <1>2, PTL DEF SubSpec

(* The subscriptions and the idempotency records keep their types, usage   *)
(* counters included: no order of settlements, refunds and resets drives   *)
(* one below zero (PostConsumeUserSubscriptionDelta clamps it).            *)
THEOREM SubscriptionTyping == SubSpec => []SubTypeOK
BY LimitsInductive, PTL

(* A subscription with a limit is never used beyond it, for any number of  *)
(* concurrent requests, settlements, refunds and resets                    *)
(* (PreConsumeUserSubscription and PostConsumeUserSubscriptionDelta).      *)
THEOREM SubscriptionLimit == SubSpec => []UsedWithinTotal
BY LimitsInductive, PTL

-----------------------------------------------------------------------------
(* A record that a step creates was created by ConsumeFrom.                *)
LEMMA ConsumedByRequest ==
  ASSUME SubTypeOK, [SubNext]_subVars, NEW r \in Requests,
         preRecord[r].status = "none", preRecord'[r].status = "consumed"
  PROVE  \E u, amount : ConsumeFrom(r, u, amount)
<1>0. preRecord \in [Requests -> SubscriptionPreConsumeRecord]
  BY DEF SubTypeOK
<1>1. ASSUME preRecord' = preRecord PROVE FALSE
  BY <1>1
<1>2. ASSUME NEW q \in Requests, NEW u, NEW a, PreConsumeUserSubscription(q, u, a)
      PROVE  ConsumeFrom(r, u, a)
  <2>1. ConsumeFrom(q, u, a)
    BY <1>1, <1>2 DEF PreConsumeUserSubscription, subVars
  <2>2. q = r
    BY <1>0, <2>1 DEF ConsumeFrom
  <2> QED BY <2>1, <2>2
<1>3. ASSUME NEW q \in Requests, RefundMarksRecord(q) PROVE FALSE
  BY <1>0, <1>3 DEF RefundMarksRecord, SubscriptionPreConsumeRecord
<1>4. ASSUME NEW q \in Requests, CleanupSubscriptionPreConsumeRecord(q) PROVE FALSE
  BY <1>0, <1>4 DEF CleanupSubscriptionPreConsumeRecord, NoRecord
<1>5. ASSUME NEW q \in Requests, RefundLowersUsage(q) \/ RefundRollsBack(q) PROVE FALSE
  BY <1>1, <1>5 DEF RefundLowersUsage, RefundRollsBack, PostConsumeUserSubscriptionDelta
<1>6. ASSUME NEW s \in Subs, SubscriptionStep(s) PROVE FALSE
  BY <1>1, <1>6 DEF SubscriptionStep, PostConsumeUserSubscriptionDelta, ResetFallsDue, ResetDueSubscription,
     AdminResetUserSubscription, SubscriptionEnds, SubscriptionDeleted
<1>7. ASSUME NEW q \in Requests, RequestStep(q) PROVE \E u, amount : ConsumeFrom(r, u, amount)
  BY <1>2, <1>3, <1>4, <1>5, <1>7 DEF RequestStep
<1>8. CASE UNCHANGED subVars
  BY <1>1, <1>8 DEF subVars
<1> QED BY <1>6, <1>7, <1>8 DEF SubNext

(* What a pre-consumption may say of a new record and the counters.        *)
ChargedFirst(rec) ==
  /\ Active(rec.sub, rec.user)
  /\ \A i, j \in DOMAIN SubOrder :
       i < j /\ SubOrder[j] = rec.sub /\ Active(SubOrder[i], rec.user) => ~Covers(SubOrder[i], rec.amount)
  /\ \A s \in Subs : subscription'[s].used > subscription[s].used => s = rec.sub

(* The step that creates a record charges the first active subscription of *)
(* its user that covers the amount, and raises no other counter.           *)
LEMMA ExpiryStep ==
  ASSUME SubTypeOK, [SubNext]_subVars, NEW r \in Requests,
         preRecord[r].status = "none", preRecord'[r].status = "consumed"
  PROVE  ChargedFirst(preRecord'[r])
<1>1. PICK u, amount : ConsumeFrom(r, u, amount)
  BY ConsumedByRequest
<1> DEFINE chosen == Choice(u, amount)
           k == SubOrder[chosen]
           rec == preRecord'[r]
<1>2. rec.sub = k /\ rec.amount = amount /\ rec.user = u
  BY <1>1 DEF ConsumeFrom, SubTypeOK
<1>3. chosen \in Candidates(u, amount) /\ \A j \in Candidates(u, amount) : chosen <= j
  BY <1>1, ChoiceIsFirst DEF ConsumeFrom
<1>4. chosen \in DOMAIN SubOrder /\ Active(k, u)
  BY <1>3 DEF Candidates
<1>5. PICK examined : subscription' = [x \in Subs |->
             IF x = k THEN [maybeReset(subscription[x]) EXCEPT !.used = @ + amount]
             ELSE IF x \in examined THEN maybeReset(subscription[x]) ELSE subscription[x]]
  BY <1>1 DEF ConsumeFrom
<1>6. DOMAIN SubOrder = 1..Len(SubOrder) /\ Len(SubOrder) \in Nat
  BY SubOrderAssumption
<1> HIDE DEF rec
<1>7. ASSUME NEW i \in DOMAIN SubOrder, NEW j \in DOMAIN SubOrder, i < j, SubOrder[j] = rec.sub,
             Active(SubOrder[i], rec.user), Covers(SubOrder[i], rec.amount)
      PROVE  FALSE
  <2>1. j = chosen
    BY <1>2, <1>4, <1>7, SubOrderAssumption
  <2>2. i \in Candidates(u, amount)
    BY <1>2, <1>7 DEF Candidates
  <2>3. chosen <= i
    BY <1>3, <2>2
  <2> HIDE DEF chosen
  <2> QED BY <1>6, <1>7, <2>1, <2>3
<1> HIDE DEF k, chosen
<1>8. ASSUME NEW s \in Subs, subscription'[s].used > subscription[s].used, s # k PROVE FALSE
  <2>1. /\ maybeReset(subscription[s]).used \in Nat /\ maybeReset(subscription[s]).used <= subscription[s].used
        /\ subscription[s].used \in Nat
    BY ResetLowers DEF SubTypeOK, SubscriptionRow
  <2>2. subscription'[s] = maybeReset(subscription[s]) \/ subscription'[s] = subscription[s]
    BY <1>5, <1>8
  <2> QED BY <1>8, <2>1, <2>2
<1>9. ChargedFirst(rec)
  BY <1>2, <1>4, <1>7, <1>8 DEF ChargedFirst
<1> QED BY <1>9 DEF rec

(* A request is charged to the subscription of its user that expires first *)
(* among the active ones that cover it, never to one that has ended or is  *)
(* somebody else's, and no other counter grows                             *)
(* (PreConsumeUserSubscription).                                           *)
THEOREM ExpiringQuotaFirst == SubSpec => EarliestExpiryFirst
<1>1. SubTypeOK /\ [SubNext]_subVars =>
        [\A r \in Requests : preRecord[r].status = "none" /\ preRecord'[r].status = "consumed" =>
         LET rec == preRecord'[r]
         IN  /\ Active(rec.sub, rec.user)
             /\ \A i, j \in DOMAIN SubOrder :
                  i < j /\ SubOrder[j] = rec.sub /\ Active(SubOrder[i], rec.user) => ~Covers(SubOrder[i], rec.amount)
             /\ \A s \in Subs : subscription'[s].used > subscription[s].used => s = rec.sub]_subVars
  BY ExpiryStep DEF ChargedFirst
<1> QED BY <1>1, LimitsInductive, PTL DEF SubSpec, EarliestExpiryFirst
=============================================================================

--------------------------- MODULE SubscriptionQuota ---------------------------
(***************************************************************************)
(* Subscription quota of model/subscription.go: the amount_used counter of *)
(* a user subscription, the idempotency records of pre-consumption, the    *)
(* periodic and administrative resets and the expiry of subscriptions.     *)
(*                                                                         *)
(* RefundSubscriptionPreConsume is two database transactions, not one: the *)
(* outer one locks the record, and the counter is lowered through          *)
(* PostConsumeUserSubscriptionDelta, which opens a transaction of its own  *)
(* and commits it before the outer one marks the record refunded.          *)
(***************************************************************************)
EXTENDS Integers, Sequences, FiniteSets, FiniteSetsExt

CONSTANTS
    Requests,       \* request ids
    Subs,           \* rows of user_subscriptions
    Customers,      \* users who own subscriptions
    SubOwner,       \* the user a subscription belongs to
    SubTotal,       \* amount_total, 0 means unlimited
    SubOrder,       \* the subscriptions by (end_time, id)
    Consumptions,   \* amounts a request may pre-consume (bound)
    Deltas,         \* amounts a settlement or a task may add or give back (bound)
    Events          \* the events of time, administration and failure that happen

ASSUME SubOwnerAssumption == SubOwner \in [Subs -> Customers]
ASSUME SubTotalAssumption == SubTotal \in [Subs -> Nat]
ASSUME SubOrderAssumption ==
    /\ SubOrder \in Seq(Subs)
    /\ \A i, j \in DOMAIN SubOrder : SubOrder[i] = SubOrder[j] => i = j
ASSUME ConsumptionsAssumption == Consumptions \subseteq Nat
ASSUME DeltasAssumption == Deltas \subseteq Int

VARIABLES
    subscription,   \* user_subscriptions: amount_used, reset due, status
    preRecord,      \* subscription_pre_consume_records, per request id
    refunding       \* how far the refund of a request is: "lowered" while its
                    \* outer transaction is open, "rolledback" when that one failed

subVars == <<subscription, preRecord, refunding>>

NoSub == "no subscription"
NoUser == "no user"
SubscriptionRow == [used: Nat, due: BOOLEAN, status: {"active", "ended", "deleted"}]
SubscriptionPreConsumeRecord ==
    [status: {"none", "consumed", "refunded"}, user: Customers \cup {NoUser}, sub: Subs \cup {NoSub}, amount: Nat]
NoRecord == [status |-> "none", user |-> NoUser, sub |-> NoSub, amount |-> 0]

SubInit ==
    /\ subscription = [s \in Subs |-> [used |-> 0, due |-> FALSE, status |-> "active"]]
    /\ preRecord = [r \in Requests |-> NoRecord]
    /\ refunding = [r \in Requests |-> "idle"]

-----------------------------------------------------------------------------
(* What maybeResetUserSubscriptionWithPlanTx leaves of a row: a reset that *)
(* is due zeroes the counter and moves the next reset into the future.     *)
maybeReset(row) == IF row.due THEN [row EXCEPT !.used = 0, !.due = FALSE] ELSE row

Active(s, u) == SubOwner[s] = u /\ subscription[s].status = "active"

(* HasActiveUserSubscription.                                              *)
HasActiveUserSubscription(u) == \E s \in Subs : Active(s, u)

Covers(s, amount) == SubTotal[s] = 0 \/ SubTotal[s] - maybeReset(subscription[s]).used >= amount

(* Plausible bug: the subscriptions are not filtered by their user.        *)
CandidatesOfAnyone(u, amount) ==
    {i \in DOMAIN SubOrder : subscription[SubOrder[i]].status = "active" /\ Covers(SubOrder[i], amount)}
(* The first active subscription by end time that covers the amount.       *)
Candidates(u, amount) == {i \in DOMAIN SubOrder : Active(SubOrder[i], u) /\ Covers(SubOrder[i], amount)}
(* Plausible bug: the last candidate is taken.                             *)
ChoiceLatest(u, amount) == CHOOSE i \in Candidates(u, amount) : \A j \in Candidates(u, amount) : i >= j
Choice(u, amount) == CHOOSE i \in Candidates(u, amount) : \A j \in Candidates(u, amount) : i <= j

(* Creates the record and raises the counter in one transaction; every     *)
(* active subscription examined on the way has its due reset applied.      *)
ConsumeFrom(r, u, amount) ==
    LET chosen == Choice(u, amount)
        examined == {SubOrder[i] : i \in {j \in 1..chosen : Active(SubOrder[j], u)}}
        s == SubOrder[chosen]
    IN  /\ Candidates(u, amount) # {}
        /\ subscription' = [x \in Subs |->
             IF x = s THEN [maybeReset(subscription[x]) EXCEPT !.used = @ + amount]
             ELSE IF x \in examined THEN maybeReset(subscription[x]) ELSE subscription[x]]
        /\ preRecord' = [preRecord EXCEPT ![r] = [status |-> "consumed", user |-> u, sub |-> s, amount |-> amount]]
        /\ UNCHANGED refunding

(* A known request id returns what was consumed before; a refunded one is  *)
(* an error and takes no step.                                             *)
PreConsumeUserSubscription(r, u, amount) ==
    /\ amount > 0
    /\ \/ preRecord[r].status = "consumed" /\ UNCHANGED subVars
       \/ preRecord[r].status = "none" /\ ConsumeFrom(r, u, amount)

(* Plausible bug: a settlement is applied without looking at the total.    *)
DeltaUnchecked(s, delta) == subscription[s].status # "deleted"

(* Lowers or raises the counter: clamped at zero, an error above total.    *)
DeltaAllowed(s, delta) ==
    /\ subscription[s].status # "deleted"
    /\ SubTotal[s] = 0 \/ subscription[s].used + delta <= SubTotal[s]
(* Plausible bug: a refund after a reset is not clamped at zero.           *)
UsedUnclamped(s, delta) == subscription[s].used + delta
UsedAfter(s, delta) == IF subscription[s].used + delta < 0 THEN 0 ELSE subscription[s].used + delta
PostConsumeUserSubscriptionDelta(s, delta) ==
    /\ DeltaAllowed(s, delta)
    /\ subscription' = [subscription EXCEPT ![s].used = UsedAfter(s, delta)]
    /\ UNCHANGED preRecord

(* The inner transaction of the refund commits ...                         *)
RefundLowersUsage(r) ==
    /\ preRecord[r].status = "consumed"
    /\ refunding[r] # "lowered"
    /\ PostConsumeUserSubscriptionDelta(preRecord[r].sub, -preRecord[r].amount)
    /\ refunding' = [refunding EXCEPT ![r] = "lowered"]

(* ... then the outer one marks the record.                                *)
RefundMarksRecord(r) ==
    /\ refunding[r] = "lowered"
    /\ preRecord' = [preRecord EXCEPT ![r].status = "refunded"]
    /\ refunding' = [refunding EXCEPT ![r] = "idle"]
    /\ UNCHANGED subscription

(* The outer transaction rolls back: a lost connection, a serialization    *)
(* failure or a crash.  The inner one stays committed.                     *)
RefundRollsBack(r) ==
    /\ refunding[r] = "lowered"
    /\ refunding' = [refunding EXCEPT ![r] = "rolledback"]
    /\ UNCHANGED <<subscription, preRecord>>

-----------------------------------------------------------------------------
(* Resets, expiry, administration.                                         *)

(* Time passes the next reset time of a subscription.                      *)
ResetFallsDue(s) ==
    /\ subscription[s].status = "active" /\ ~subscription[s].due
    /\ subscription' = [subscription EXCEPT ![s].due = TRUE]
    /\ UNCHANGED <<preRecord, refunding>>

(* Listed while active, reset after a second read that does not look at    *)
(* the status again: the subscription may have ended in between.           *)
ResetDueSubscription(s) ==
    /\ subscription[s].status # "deleted" /\ subscription[s].due
    /\ subscription' = [subscription EXCEPT ![s] = maybeReset(@)]
    /\ UNCHANGED <<preRecord, refunding>>

(* resetUserSubscriptionTx; advance moves the next reset time as well.     *)
AdminResetUserSubscription(s, advance) ==
    /\ subscription[s].status = "active"
    /\ subscription' = [subscription EXCEPT ![s] = IF advance THEN [used |-> 0, due |-> FALSE, status |-> @.status]
                                                               ELSE [@ EXCEPT !.used = 0]]
    /\ UNCHANGED <<preRecord, refunding>>

(* Environment: the end time passes or the subscription is cancelled, and  *)
(* an administrator hard-deletes the row.                                  *)
SubscriptionEnds(s) ==
    /\ subscription[s].status = "active"
    /\ subscription' = [subscription EXCEPT ![s].status = "ended"]
    /\ UNCHANGED <<preRecord, refunding>>

SubscriptionDeleted(s) ==
    /\ subscription[s].status # "deleted"
    /\ subscription' = [subscription EXCEPT ![s].status = "deleted"]
    /\ UNCHANGED <<preRecord, refunding>>

(* Records older than a week are removed.                                  *)
CleanupSubscriptionPreConsumeRecord(r) ==
    /\ preRecord[r].status \in {"consumed", "refunded"}
    /\ refunding[r] = "idle"
    /\ preRecord' = [preRecord EXCEPT ![r] = NoRecord]
    /\ UNCHANGED <<subscription, refunding>>

-----------------------------------------------------------------------------
RequestStep(r) ==
    \/ \E u \in Customers, a \in Consumptions : PreConsumeUserSubscription(r, u, a)
    \/ RefundLowersUsage(r)
    \/ RefundMarksRecord(r)
    \/ "rollback" \in Events /\ RefundRollsBack(r)
    \/ "cleanup" \in Events /\ CleanupSubscriptionPreConsumeRecord(r)

SubscriptionStep(s) ==
    \/ \E d \in Deltas : PostConsumeUserSubscriptionDelta(s, d) /\ UNCHANGED refunding
    \/ "reset" \in Events /\ (ResetFallsDue(s) \/ ResetDueSubscription(s))
    \/ "reset" \in Events /\ \E advance \in BOOLEAN : AdminResetUserSubscription(s, advance)
    \/ "end" \in Events /\ SubscriptionEnds(s)
    \/ "delete" \in Events /\ SubscriptionDeleted(s)

SubNext == (\E r \in Requests : RequestStep(r)) \/ (\E s \in Subs : SubscriptionStep(s))

SubSpec == SubInit /\ [][SubNext]_subVars

-----------------------------------------------------------------------------
(* Subscriptions and records have the types of their tables.               *)
SubTypeOK ==
    /\ subscription \in [Subs -> SubscriptionRow]
    /\ preRecord \in [Requests -> SubscriptionPreConsumeRecord]
    /\ refunding \in [Requests -> {"idle", "lowered", "rolledback"}]

(* A subscription with a limit is never used beyond it, whatever requests, *)
(* settlements, resets and refunds interleave: PreConsumeUserSubscription  *)
(* checks what a due reset would leave and raises the counter in the same  *)
(* transaction, PostConsumeUserSubscriptionDelta refuses to exceed it.     *)
UsedWithinTotal == \A s \in Subs : SubTotal[s] > 0 => subscription[s].used <= SubTotal[s]

Outstanding(s) ==
    {r \in Requests : preRecord[r].status = "consumed" /\ preRecord[r].sub = s /\ refunding[r] = "idle"}

(* A refund is idempotent: without resets and settlements the counter is   *)
(* exactly what the records of requests without a refund add up to, so no  *)
(* record has been given back twice (RefundSubscriptionPreConsume).        *)
UsageAccounted ==
    \A s \in Subs : subscription[s].used = SumFunction([r \in Outstanding(s) |-> preRecord[r].amount])

(* A request is charged to an active subscription of the user who sent it, *)
(* and past none of this user's that expires earlier and could have        *)
(* covered it, so that quota that lapses first is used first; no other     *)
(* counter grows, although the resets that are due on the way are applied. *)
EarliestExpiryFirst ==
    [][\A r \in Requests : preRecord[r].status = "none" /\ preRecord'[r].status = "consumed" =>
         LET rec == preRecord'[r]
         IN  /\ Active(rec.sub, rec.user)
             /\ \A i, j \in DOMAIN SubOrder :
                  i < j /\ SubOrder[j] = rec.sub /\ Active(SubOrder[i], rec.user) => ~Covers(SubOrder[i], rec.amount)
             /\ \A s \in Subs : subscription'[s].used > subscription[s].used => s = rec.sub]_subVars
=============================================================================

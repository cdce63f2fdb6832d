----------------------------- MODULE BillingLedger -----------------------------
(***************************************************************************)
(* The durable wallet ledger of model/billing_ledger.go.  Every operation  *)
(* below is one database transaction that locks the User row first and the *)
(* BillingAccount row second, so it is one atomic step.  A transaction     *)
(* that returns an error leaves the database unchanged and is therefore    *)
(* not a step of its own; callers that care about the error branch do so   *)
(* in their own modules on the enabling condition of the operation.        *)
(*                                                                         *)
(* Time advances in whole hours: an entry's PostedAt and the BillingHour   *)
(* it is aggregated into are the same number here.                         *)
(***************************************************************************)
EXTENDS Integers, FiniteSets, FiniteSetsExt

CONSTANTS
    Users,          \* customers
    Ops,            \* ids of BillingOperation rows (one UUID per request)
    Tasks,          \* rows of the tasks table
    Midjourneys,    \* rows of the midjourneys table
    Keys,           \* server-owned event keys of PostBillingAdjustment
    Owner,          \* the customer a row belongs to
    Opening,        \* wallet balances before the first ledger transaction
    JobOpening,     \* quota a job row was created with
    MaxWalletQuota, \* common.MaxWalletQuota
    Amounts,        \* quota amounts callers pass (bound)
    MaxHour,        \* last hour of the clock (bound)
    MaxVersion,     \* last profile version (bound)
    MaxSequence     \* length of a customer's journal (bound)

Jobs == Tasks \cup Midjourneys

ASSUME MaxWalletQuotaAssumption == MaxWalletQuota \in Nat
ASSUME AmountsAssumption == Amounts \subseteq Nat
ASSUME OwnerAssumption == Owner \in [Ops \cup Jobs -> Users]
ASSUME OpeningAssumption == Opening \in [Users -> 0..MaxWalletQuota]
ASSUME JobOpeningAssumption == JobOpening \in [Jobs -> 0..MaxWalletQuota]
ASSUME ClockAssumption == MaxHour \in Nat \ {0} /\ MaxVersion \in Nat /\ MaxSequence \in Nat

VARIABLES
    quota,          \* users.quota: the wallet balance, may be negative
    operation,      \* billing_operations
    entries,        \* billing_entries, append-only
    account,        \* billing_accounts
    hours,          \* billing_hours, per user and hour
    jobQuota,       \* tasks.quota and midjourneys.quota
    statements,     \* billing_statements; empty until bill closing is modelled
    now             \* the clock, in hours

ledgerVars == <<quota, operation, entries, account, hours, jobQuota, statements, now>>

States == {"absent", "reserved", "settled", "refunded"}
Kinds == {"usage", "adjustment", "task_adjustment", "funding"}
Balances == -MaxWalletQuota .. MaxWalletQuota
EmptyHour == [charge |-> 0, refund |-> 0, count |-> 0, first |-> 0, last |-> 0]

(* The uuid in the event key of a job adjustment is fresh; the position of *)
(* the entry in its customer's ledger stands for it.                       *)
EventKeys == ({"settle"} \X Ops) \cup ({"admin"} \X Keys) \cup ({"job"} \X Jobs \X Users \X Nat)

Entry == [user: Users, sequence: Nat, key: EventKeys, kind: Kinds, quota: Int,
          walletDelta: Int, balanceAfter: Balances, postedAt: Nat]

LedgerInit ==
    /\ quota = Opening
    /\ operation = [o \in Ops |-> [state |-> "absent", reserved |-> 0, actual |-> 0]]
    /\ entries = {}
    /\ account = [u \in Users |-> [startAt |-> 0, startSequence |-> 0, sequence |-> 0, version |-> 0]]
    /\ hours = [u \in Users |-> [h \in 1..MaxHour |-> EmptyHour]]
    /\ jobQuota = JobOpening
    /\ statements = {}
    /\ now = 1

-----------------------------------------------------------------------------
(* The two helpers every transaction is made of.                           *)

(* Plausible bug: only the delta is bounded, not the resulting balance.    *)
WalletFitsDeltaOnly(u, delta) == delta \in Balances

WalletFits(u, delta) ==
    /\ delta \in Balances
    /\ quota[u] + delta \in Balances

changeBillingWallet(u, delta) ==
    /\ WalletFits(u, delta)
    /\ quota' = [quota EXCEPT ![u] = @ + delta]

(* Does an entry posted now belong to the formal hourly summaries?         *)
Formal(u, kind, sequence) ==
    /\ kind # "funding"
    /\ account[u].startAt # 0
    /\ now >= account[u].startAt
    /\ sequence >= account[u].startSequence

ChargeOf(q) == IF q < 0 THEN 0 ELSE q
RefundOf(q) == IF q < 0 THEN -q ELSE 0

HourWith(h, q, sequence) ==
    [charge |-> h.charge + ChargeOf(q), refund |-> h.refund + RefundOf(q), count |-> h.count + 1,
     first |-> IF h.first = 0 THEN sequence ELSE h.first, last |-> sequence]

(* Plausible bug: the new sequence is not written back to the account.     *)
AppendWithoutSequenceUpdate(u, key, kind, q, delta) ==
    /\ \A e \in entries : e.key # key
    /\ entries' = entries \cup
         {[user |-> u, sequence |-> account[u].sequence + 1, key |-> key, kind |-> kind, quota |-> q,
           walletDelta |-> delta, balanceAfter |-> quota'[u], postedAt |-> now]}
    /\ UNCHANGED <<account, hours>>

(* Appends one entry, balance read from the user row already updated in    *)
(* the same transaction.  The unique index on event_key and the bound on   *)
(* the hourly aggregate make the whole transaction fail.                   *)
appendBillingEntry(u, key, kind, q, delta) ==
    LET sequence == account[u].sequence + 1
        hour == hours[u][now]
    IN  /\ sequence <= MaxSequence
        /\ \A e \in entries : e.key # key
        /\ entries' = entries \cup
             {[user |-> u, sequence |-> sequence, key |-> key, kind |-> kind, quota |-> q,
               walletDelta |-> delta, balanceAfter |-> quota'[u], postedAt |-> now]}
        /\ account' = [account EXCEPT ![u].sequence = sequence]
        /\ IF Formal(u, kind, sequence)
           THEN /\ hour.charge + ChargeOf(q) <= MaxWalletQuota
                /\ hour.refund + RefundOf(q) <= MaxWalletQuota
                /\ hours' = [hours EXCEPT ![u][now] = HourWith(@, q, sequence)]
           ELSE UNCHANGED hours

-----------------------------------------------------------------------------
(* Reservations.                                                           *)

(* Plausible bug: the balance check of the caller is trusted.              *)
BeginUnchecked(o, reserved) ==
    /\ operation[o].state = "absent"
    /\ changeBillingWallet(Owner[o], -reserved)
    /\ operation' = [operation EXCEPT ![o] = [state |-> "reserved", reserved |-> reserved, actual |-> 0]]
    /\ UNCHANGED <<entries, account, hours, jobQuota, statements, now>>

BeginBillingOperation(o, reserved) ==
    LET u == Owner[o] IN
    /\ operation[o].state = "absent"
    /\ reserved \in 0..MaxWalletQuota
    /\ quota[u] >= reserved
    /\ changeBillingWallet(u, -reserved)
    /\ operation' = [operation EXCEPT ![o] = [state |-> "reserved", reserved |-> reserved, actual |-> 0]]
    /\ UNCHANGED <<entries, account, hours, jobQuota, statements, now>>

(* Plausible bug: the whole target is charged instead of the difference.   *)
ResizeChargesWholeTarget(o, target) ==
    /\ target \in 0..MaxWalletQuota
    /\ operation[o].state = "reserved"
    /\ changeBillingWallet(Owner[o], -target)
    /\ operation' = [operation EXCEPT ![o].reserved = target]
    /\ UNCHANGED <<entries, account, hours, jobQuota, statements, now>>

ResizeBillingReservation(o, target) ==
    /\ target \in 0..MaxWalletQuota
    /\ operation[o].state = "reserved"
    /\ changeBillingWallet(Owner[o], operation[o].reserved - target)
    /\ operation' = [operation EXCEPT ![o].reserved = target]
    /\ UNCHANGED <<entries, account, hours, jobQuota, statements, now>>

(* A call that finds the operation already in the state it asks for.       *)
AlreadyFinished(o, actual, refund) ==
    /\ operation[o].state = (IF refund THEN "refunded" ELSE "settled")
    /\ operation[o].actual = (IF refund THEN 0 ELSE actual)

SettleOperation(o, actual) ==
    LET u == Owner[o] IN
    /\ operation[o].state = "reserved"
    /\ changeBillingWallet(u, operation[o].reserved - actual)
    /\ appendBillingEntry(u, <<"settle", o>>, "usage", actual, -actual)
    /\ operation' = [operation EXCEPT ![o] = [@ EXCEPT !.state = "settled", !.actual = actual]]
    /\ UNCHANGED <<jobQuota, statements, now>>

(* Plausible bug: a late refund ignores that the operation is settled.     *)
RefundIgnoresSettlement(o) ==
    /\ operation[o].state \in {"reserved", "settled"}
    /\ changeBillingWallet(Owner[o], operation[o].reserved)
    /\ operation' = [operation EXCEPT ![o] = [@ EXCEPT !.state = "refunded", !.actual = 0]]
    /\ UNCHANGED <<entries, account, hours, jobQuota, statements, now>>

RefundOperation(o) ==
    /\ operation[o].state = "reserved"
    /\ changeBillingWallet(Owner[o], operation[o].reserved)
    /\ operation' = [operation EXCEPT ![o] = [@ EXCEPT !.state = "refunded", !.actual = 0]]
    /\ UNCHANGED <<entries, account, hours, jobQuota, statements, now>>

(* Succeeds as a no-op when the same outcome is already recorded; any      *)
(* other finished state is ErrBillingConflict.                             *)
FinishBillingOperation(o, actual, refund) ==
    /\ actual \in 0..MaxWalletQuota
    /\ \/ AlreadyFinished(o, actual, refund) /\ UNCHANGED ledgerVars
       \/ ~AlreadyFinished(o, actual, refund) /\ ~refund /\ SettleOperation(o, actual)
       \/ ~AlreadyFinished(o, actual, refund) /\ refund /\ RefundOperation(o)

-----------------------------------------------------------------------------
(* Adjustments.                                                            *)

(* Usage-like adjustments carry WalletDelta = -Quota; funding carries      *)
(* Quota = 0 and either a delta or an absolute balance (the override).     *)
PostEntry(k, u, kind, q, delta) ==
    /\ q \in Balances
    /\ changeBillingWallet(u, delta)
    /\ appendBillingEntry(u, <<"admin", k>>, kind, q, delta)
    /\ UNCHANGED <<operation, jobQuota, statements, now>>

(* What a repeated call finds: its key, recorded with the same content.    *)
AlreadyPosted(k, u, kind, q) ==
    {e \in entries : e.key = <<"admin", k>> /\ e.user = u /\ e.kind = kind /\ e.quota = q}

KeyRecorded(k) == \E e \in entries : e.key = <<"admin", k>>

PostBillingAdjustment(k, u, kind, q, delta) ==
    /\ kind = "funding" => q = 0
    /\ kind # "funding" => delta = -q
    /\ \/ ~KeyRecorded(k) /\ PostEntry(k, u, kind, q, delta)
       \/ (\E e \in AlreadyPosted(k, u, kind, q) : e.walletDelta = delta) /\ UNCHANGED ledgerVars

(* The override form sets the balance: WalletDelta is computed from the    *)
(* locked user row.                                                        *)
OverrideBalance(k, u, balance) ==
    \/ ~KeyRecorded(k) /\ PostEntry(k, u, "funding", 0, balance - quota[u])
    \/ (\E e \in AlreadyPosted(k, u, "funding", 0) : e.balanceAfter = balance) /\ UNCHANGED ledgerVars

(* The common body of the two job adjustments.                             *)
AdjustJob(j, target) ==
    LET u == Owner[j]
        delta == target - jobQuota[j]
    IN  /\ changeBillingWallet(u, -delta)
        /\ appendBillingEntry(u, <<"job", j, u, account[u].sequence + 1>>, "task_adjustment", delta, -delta)
        /\ jobQuota' = [jobQuota EXCEPT ![j] = target]
        /\ UNCHANGED <<operation, statements, now>>

(* Plausible bug: the delta is computed from the caller's stale copy.      *)
AdjustFromStaleCopy(t, seen, target) ==
    LET u == Owner[t]
        delta == target - seen
    IN  /\ jobQuota[t] # target
        /\ changeBillingWallet(u, -delta)
        /\ appendBillingEntry(u, <<"job", t, u, account[u].sequence + 1>>, "task_adjustment", delta, -delta)
        /\ jobQuota' = [jobQuota EXCEPT ![t] = target]
        /\ UNCHANGED <<operation, statements, now>>

(* seen is the quota in the caller's copy of the task row.                 *)
AdjustBillingTaskQuota(t, seen, target) ==
    /\ target \in 0..MaxWalletQuota
    /\ \/ jobQuota[t] = target /\ UNCHANGED ledgerVars
       \/ jobQuota[t] # target /\ jobQuota[t] = seen /\ AdjustJob(t, target)

RefundBillingMidjourney(m, seen) ==
    \/ jobQuota[m] = 0 /\ UNCHANGED ledgerVars
    \/ jobQuota[m] # 0 /\ jobQuota[m] = seen /\ AdjustJob(m, 0)

-----------------------------------------------------------------------------
(* The account profile and the clock.                                      *)

FormalEntries(u) ==
    {e \in entries : /\ e.user = u /\ e.kind # "funding"
                     /\ e.sequence >= account[u].startSequence
                     /\ e.postedAt >= account[u].startAt}

(* Plausible bug: the start may move although entries already count.       *)
ConfigureStartUnlocked(u, version, requested) ==
    /\ account[u].version = version
    /\ version < MaxVersion
    /\ account' = [account EXCEPT ![u] = [startAt |-> IF requested = 0 THEN now ELSE requested,
                                          startSequence |-> @.sequence + 1,
                                          sequence |-> @.sequence, version |-> version + 1]]
    /\ UNCHANGED <<quota, operation, entries, hours, jobQuota, statements, now>>

(* requested is the start time asked for; 0 asks for the current time.     *)
(* The start may move only while no statement exists and no entry counts   *)
(* from the old start.                                                     *)
ConfigureAccountingStart(u, version, requested) ==
    LET start == IF requested = 0 THEN now ELSE requested IN
    /\ account[u].version = version
    /\ version < MaxVersion
    /\ requested # account[u].startAt \/ account[u].startAt = 0
    /\ \A s \in statements : s.user # u
    /\ account[u].startAt > 0 => FormalEntries(u) = {}
    /\ account' = [account EXCEPT ![u] = [startAt |-> start, startSequence |-> @.sequence + 1,
                                          sequence |-> @.sequence, version |-> version + 1]]
    /\ UNCHANGED <<quota, operation, entries, hours, jobQuota, statements, now>>

(* Saving the company title and tax id alone only bumps the version.       *)
SaveProfile(u, version) ==
    /\ account[u].version = version
    /\ version < MaxVersion
    /\ account' = [account EXCEPT ![u].version = @ + 1]
    /\ UNCHANGED <<quota, operation, entries, hours, jobQuota, statements, now>>

Tick ==
    /\ now < MaxHour
    /\ now' = now + 1
    /\ UNCHANGED <<quota, operation, entries, account, hours, jobQuota, statements>>

LedgerNext ==
    \/ \E o \in Ops, a \in Amounts :
         \/ BeginBillingOperation(o, a)
         \/ ResizeBillingReservation(o, a)
         \/ \E refund \in BOOLEAN : FinishBillingOperation(o, a, refund)
    \/ \E k \in Keys, u \in Users, a \in Amounts :
         \/ PostBillingAdjustment(k, u, "adjustment", a, -a)
         \/ PostBillingAdjustment(k, u, "adjustment", -a, a)
         \/ PostBillingAdjustment(k, u, "funding", 0, a)
         \/ OverrideBalance(k, u, a)
    \/ \E t \in Tasks, seen \in Amounts, target \in Amounts : AdjustBillingTaskQuota(t, seen, target)
    \/ \E m \in Midjourneys, seen \in Amounts : RefundBillingMidjourney(m, seen)
    \/ \E u \in Users, v \in 0..MaxVersion :
         \/ SaveProfile(u, v)
         \/ \E start \in 0..MaxHour : ConfigureAccountingStart(u, v, start)
    \/ Tick

LedgerSpec == LedgerInit /\ [][LedgerNext]_ledgerVars

-----------------------------------------------------------------------------
OperationRow == [state: States, reserved: 0..MaxWalletQuota, actual: 0..MaxWalletQuota]
AccountRow == [startAt: 0..MaxHour, startSequence: Nat, sequence: Nat, version: 0..MaxVersion]
HourRow == [charge: 0..MaxWalletQuota, refund: 0..MaxWalletQuota, count: Nat, first: Nat, last: Nat]

(* Every row has the type of its table and every balance, reservation,     *)
(* charge and hourly aggregate stays within the exact quota boundary.      *)
LedgerTypeOK ==
    /\ quota \in [Users -> Balances]
    /\ operation \in [Ops -> OperationRow]
    /\ entries \subseteq Entry
    /\ account \in [Users -> AccountRow]
    /\ hours \in [Users -> [1..MaxHour -> HourRow]]
    /\ jobQuota \in [Jobs -> 0..MaxWalletQuota]
    /\ now \in 1..MaxHour

EntriesOf(u) == {e \in entries : e.user = u}
OpenOperations(u) == {o \in Ops : Owner[o] = u /\ operation[o].state = "reserved"}
Held(u) == SumFunction([o \in OpenOperations(u) |-> operation[o].reserved])

(* A wallet is never off by a lost, repeated or interleaved transaction:   *)
(* its balance is the opening balance plus what the journal says, minus    *)
(* what unfinished operations still hold (changeBillingWallet versus the   *)
(* entry appended in the same transaction).                                *)
WalletReconciles ==
    \A u \in Users :
        quota[u] = Opening[u] + SumFunction([e \in EntriesOf(u) |-> e.walletDelta]) - Held(u)

(* The per-customer sequence is a gapless commit order: the entries of a   *)
(* customer carry exactly the numbers 1..sequence, each once.              *)
SequenceGapless ==
    \A u \in Users :
        /\ {e.sequence : e \in EntriesOf(u)} = 1..account[u].sequence
        /\ \A e, f \in EntriesOf(u) : e.sequence = f.sequence => e = f

SettleEntries(o) == {e \in entries : e.key = <<"settle", o>>}

(* FinishBillingOperation charges an operation exactly when it records it  *)
(* as settled, for the amount it records, to the operation's owner; a      *)
(* refunded or still reserved operation has no consumption entry.          *)
ChargedIffSettled ==
    \A o \in Ops :
        IF operation[o].state = "settled"
        THEN \E e \in SettleEntries(o) : e.user = Owner[o] /\ e.quota = operation[o].actual
        ELSE SettleEntries(o) = {}

HourEntries(u, h) == {e \in FormalEntries(u) : account[u].startAt # 0 /\ e.postedAt = h}

(* The incrementally maintained BillingHour rows equal a recomputation     *)
(* from the journal, although the accounting start may have moved.         *)
HoursReconcile ==
    \A u \in Users, h \in 1..MaxHour :
        LET es == HourEntries(u, h)
            seqs == {e.sequence : e \in es}
        IN  hours[u][h] =
              [charge |-> SumFunction([e \in es |-> ChargeOf(e.quota)]),
               refund |-> SumFunction([e \in es |-> RefundOf(e.quota)]),
               count |-> Cardinality(es),
               first |-> IF es = {} THEN 0 ELSE Min(seqs),
               last |-> IF es = {} THEN 0 ELSE Max(seqs)]

JobEntries(j) == {e \in entries : e.key[1] = "job" /\ e.key[2] = j}

(* A job's quota column always equals what the journal says it was         *)
(* charged: the stale-copy check of AdjustBillingTaskQuota never lets two  *)
(* pollers refund or settle the same job twice.                            *)
JobChargeReconciles ==
    \A j \in Jobs :
        jobQuota[j] = JobOpening[j] + SumFunction([e \in JobEntries(j) |-> e.quota])

(* The journal is append-only and a finished operation is final: no later  *)
(* call resizes it, charges it again or turns a refund into a charge.      *)
FinishedIsFinal ==
    [][/\ entries \subseteq entries'
       /\ \A o \in Ops : operation[o].state \in {"settled", "refunded"} => operation'[o] = operation[o]]_ledgerVars
=============================================================================

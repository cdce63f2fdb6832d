------------------------------- MODULE AsyncTask -------------------------------
(***************************************************************************)
(* The life cycle of an asynchronous (video, Suno) task: model/task.go,    *)
(* service/task_polling.go, service/task_billing.go, the realtime fetch of *)
(* relay/relay_task.go and the cancellation of controller/volc_native.go,  *)
(* on top of the wallet ledger and of the subscription counters.           *)
(*                                                                         *)
(* A worker loads a copy of a task row, talks to the upstream service and  *)
(* writes the whole copy back under a compare-and-swap on the status it    *)
(* loaded.  The winner of a transition into a final status settles or      *)
(* refunds the charge in further transactions.  Workers are poll rounds of *)
(* several nodes, the timeout sweep, cancellations and dashboard reads.    *)
(***************************************************************************)
EXTENDS BillingLedger, Sequences

CONSTANTS
    Workers,
    Roles,              \* what workers do: subset of AllRoles
    Legacy,             \* tasks submitted before TaskRefundLegacyCutoff
    SubTask,            \* the subscription that funds a task, for some tasks
    Actuals,            \* final charges a completed task may have (bound)
    MaxTransitions,     \* status changes of a task (bound)
    MaxFaults, Crashes,
    Subs, SubOwner, SubTotal, SubOrder

ASSUME TaskAssumption ==
    /\ IsFiniteSet(Tasks) /\ MaxTransitions \in Nat /\ MaxFaults \in Nat
    /\ Actuals \subseteq 1..MaxWalletQuota
ASSUME FundingAssumption ==
    /\ DOMAIN SubTask \subseteq Tasks /\ \A t \in DOMAIN SubTask : SubTask[t] \in Subs
    /\ SubTotal \in [Subs -> Nat]

VARIABLES
    task,               \* tasks: status and webhook_version
    events,             \* queued task.status_changed webhook events
    tokenPaid,          \* what the token of a task has paid for it
    worker,             \* the copy a worker holds and what it does next
    faults,
    subscription, preRecord, refunding

INSTANCE SubscriptionQuota WITH Requests <- {}, Customers <- Users, Consumptions <- {},
                                Deltas <- {}, Events <- {}

fundingVars == <<subscription, preRecord, refunding>>
taskVars == <<task, events, tokenPaid, worker, faults>>
vars == <<ledgerVars, fundingVars, taskVars>>
(* Everything of the ledger but tasks.quota.                               *)
otherLedgerVars == <<quota, operation, entries, account, hours, statements, now>>

AllRoles == {"poll", "sweep", "cancel", "read", "nochannel"}
Running == {"SUBMITTED", "IN_PROGRESS"}
Final == {"SUCCESS", "FAILURE"}
TaskRow == [status: {"NONE"} \cup Running \cup Final, version: 0..MaxTransitions]
Event == [task: Tasks, version: 1..MaxTransitions, status: Running \cup Final]
NoTask == "no task"
Copy == [pc: {"idle", "copied", "fund", "token", "clear"}, role: AllRoles, task: Tasks \cup {NoTask},
         status: {"NONE"} \cup Running \cup Final, quota: Int, target: Int]
Idle == [pc |-> "idle", role |-> "poll", task |-> NoTask, status |-> "NONE", quota |-> 0, target |-> 0]

(* Tasks of a subscription whose submission has been charged to it.        *)
TasksOf(s) == {t \in DOMAIN SubTask : SubTask[t] = s}

TaskInit ==
    /\ LedgerInit
    /\ subscription = [s \in Subs |-> [used |-> SumFunctionOnSet(JobOpening, TasksOf(s)),
                                       due |-> FALSE, status |-> "active"]]
    /\ preRecord = [r \in {} |-> Idle] /\ refunding = [r \in {} |-> "idle"]
    /\ task = [t \in Tasks |-> [status |-> "NONE", version |-> 0]]
    /\ events = {}
    /\ tokenPaid = [t \in Tasks |-> JobOpening[t]]
    /\ worker = [w \in Workers |-> Idle]
    /\ faults = 0

Subscribed(t) == t \in DOMAIN SubTask
Fault == faults < MaxFaults /\ faults' = faults + 1
NoFault == UNCHANGED faults
Become(w, copy) == worker' = [worker EXCEPT ![w] = copy]

-----------------------------------------------------------------------------
(* The two writers of the status column.                                   *)

(* Plausible bug: the version is not raised.                               *)
MoveKeepsVersion(t, to) ==
    /\ task' = [task EXCEPT ![t] = [status |-> to, version |-> IF task[t].version = 0 THEN 1 ELSE @.version]]
    /\ events' = events \cup {[task |-> t, version |-> task'[t].version, status |-> to]}

(* A changed status raises the version and queues one webhook event in the *)
(* same transaction; an unchanged one does neither.                        *)
MoveTo(t, to) ==
    LET changed == task[t].status # to
        version == IF changed THEN task[t].version + 1 ELSE task[t].version
    IN  /\ version <= MaxTransitions
        /\ task' = [task EXCEPT ![t] = [status |-> to, version |-> version]]
        /\ events' = IF changed THEN events \cup {[task |-> t, version |-> version, status |-> to]} ELSE events

(* Plausible bug: the row is written whatever its status has become.       *)
WriteAnyStatus(t, from, to, q) ==
    /\ task[t].status # "NONE"
    /\ MoveTo(t, to)
    /\ jobQuota' = [jobQuota EXCEPT ![t] = q]

(* Writes every column of the copy, the quota included, if the status is   *)
(* still the one the copy was loaded with.                                 *)
UpdateWithStatus(t, from, to, q) ==
    /\ task[t].status = from
    /\ MoveTo(t, to)
    /\ jobQuota' = [jobQuota EXCEPT ![t] = q]

(* No guard on the status, no billing.                                     *)
TaskBulkUpdateByID(t) == MoveTo(t, "FAILURE") /\ UNCHANGED jobQuota

(* RelayTask settles the submission in the ledger, then inserts the row.   *)
Insert(t) ==
    /\ task[t].status = "NONE"
    /\ MoveTo(t, "SUBMITTED")
    /\ UNCHANGED <<ledgerVars, fundingVars, tokenPaid, worker, faults>>

-----------------------------------------------------------------------------
(* Loading a copy.  Poll rounds, sweeps and cancellations look only at     *)
(* unfinished tasks; a dashboard read loads any task.                      *)

LoadTask(w, t, role) ==
    /\ worker[w].pc = "idle" /\ role \in Roles
    /\ IF role = "read" THEN task[t].status # "NONE" ELSE task[t].status \in Running
    /\ Become(w, [pc |-> "copied", role |-> role, task |-> t, status |-> task[t].status,
                  quota |-> jobQuota[t], target |-> 0])
    /\ UNCHANGED <<ledgerVars, fundingVars, task, events, tokenPaid, faults>>

(* What follows a won write: RefundTaskQuota and RecalculateTaskQuota do   *)
(* nothing when there is nothing to change.                                *)
BillTo(copy, target) == IF target = copy.quota THEN Idle ELSE [copy EXCEPT !.pc = "fund", !.target = target]

(* Writes copy.task with status "to" and quota q; the winner goes on with  *)
(* "next".  An error of the transaction, and an answer that is lost after  *)
(* the commit, both end the worker's interest in the task.                 *)
Persist(w, to, q, next) ==
    LET c == worker[w] IN
    /\ \/ UpdateWithStatus(c.task, c.status, to, q) /\ Become(w, next) /\ NoFault
       \/ task[c.task].status # c.status /\ Become(w, Idle) /\ NoFault /\ UNCHANGED <<task, events, jobQuota>>
       \/ Become(w, Idle) /\ Fault /\ UNCHANGED <<task, events, jobQuota>>
       \/ UpdateWithStatus(c.task, c.status, to, q) /\ Become(w, Idle) /\ Fault
    /\ UNCHANGED <<otherLedgerVars, fundingVars, tokenPaid>>

Holds(w, role) == worker[w].pc = "copied" /\ worker[w].role = role

(* actual = 0: a task billed per call, or no usage reported.               *)
updateVideoSingleTask(w, to, actual) ==
    LET c == worker[w] IN
    /\ Holds(w, "poll")
    /\ Persist(w, to, c.quota,
               CASE to = "SUCCESS" /\ actual > 0 -> BillTo(c, actual)
                 [] to = "FAILURE" -> BillTo(c, 0)
                 [] OTHER -> Idle)

(* Suno tasks are not settled again when they succeed.                     *)
updateSunoTasks(w, to) ==
    /\ Holds(w, "poll")
    /\ Persist(w, to, worker[w].quota, IF to = "FAILURE" THEN BillTo(worker[w], 0) ELSE Idle)

(* The upstream could not be asked, answered 429 or something unreadable.  *)
UpstreamFails(w) ==
    /\ \E role \in {"poll", "cancel", "read"} : Holds(w, role)
    /\ Become(w, Idle)
    /\ UNCHANGED <<ledgerVars, fundingVars, task, events, tokenPaid, faults>>

(* Plausible bug: the sweep refunds although another worker moved the task *)
(* first.                                                                  *)
SweepRefundsWithoutWinning(w) ==
    LET c == worker[w] IN
    /\ Holds(w, "sweep")
    /\ \/ UpdateWithStatus(c.task, c.status, "FAILURE", c.quota)
       \/ task[c.task].status # c.status /\ UNCHANGED <<task, events, jobQuota>>
    /\ Become(w, BillTo(c, 0))
    /\ UNCHANGED <<otherLedgerVars, fundingVars, tokenPaid, faults>>

sweepTimedOutTasks(w) ==
    LET c == worker[w] IN
    /\ Holds(w, "sweep")
    /\ IF c.task \in Legacy
       THEN Persist(w, "FAILURE", 0, Idle)
       ELSE Persist(w, "FAILURE", c.quota, BillTo(c, 0))

RelayVolcNativeTaskDelete(w) ==
    /\ Holds(w, "cancel")
    /\ Persist(w, "FAILURE", worker[w].quota, BillTo(worker[w], 0))

(* A dashboard read stores what the upstream says unless that is a final   *)
(* status the row does not have yet, or nothing changed.                   *)
tryRealtimeFetch(w, to) ==
    LET c == worker[w] IN
    /\ Holds(w, "read")
    /\ IF to \in Final /\ to # c.status
       THEN Become(w, Idle) /\ UNCHANGED <<ledgerVars, fundingVars, task, events, tokenPaid, faults>>
       ELSE Persist(w, to, c.quota, Idle)

(* A poll round finds the channel of the task gone, or no upstream id.     *)
FailWithoutChannel(w) ==
    /\ Holds(w, "nochannel")
    /\ TaskBulkUpdateByID(worker[w].task)
    /\ Become(w, Idle)
    /\ UNCHANGED <<otherLedgerVars, fundingVars, tokenPaid, faults>>

-----------------------------------------------------------------------------
(* RefundTaskQuota and RecalculateTaskQuota: the funding source, then the  *)
(* token, then, for a subscription, the quota column.                      *)

AdjustRefused(c) ==
    /\ jobQuota[c.task] # c.target
    /\ jobQuota[c.task] # c.quota \/ ~WalletFits(Owner[c.task], c.quota - c.target)

AdjustFunding(w) ==
    LET c == worker[w]
        t == c.task
    IN  /\ c.pc = "fund"
        /\ IF Subscribed(t)
           THEN /\ \/ /\ PostConsumeUserSubscriptionDelta(SubTask[t], c.target - c.quota)
                      /\ UNCHANGED refunding /\ Become(w, [c EXCEPT !.pc = "token"]) /\ NoFault
                   \/ /\ ~DeltaAllowed(SubTask[t], c.target - c.quota)
                      /\ UNCHANGED fundingVars /\ Become(w, Idle) /\ NoFault
                   \/ UNCHANGED fundingVars /\ Become(w, Idle) /\ Fault
                /\ UNCHANGED ledgerVars
           ELSE /\ \/ /\ AdjustBillingTaskQuota(t, c.quota, c.target)
                      /\ Become(w, IF jobQuota[t] = c.target THEN Idle ELSE [c EXCEPT !.pc = "token"]) /\ NoFault
                   \/ AdjustRefused(c) /\ UNCHANGED ledgerVars /\ Become(w, Idle) /\ NoFault
                   \/ UNCHANGED ledgerVars /\ Become(w, Idle) /\ Fault
                /\ UNCHANGED fundingVars
        /\ UNCHANGED <<task, events, tokenPaid>>

(* Plausible bug: the token gets the new charge instead of the difference. *)
AdjustTokenByTarget(w) ==
    LET c == worker[w] IN
    /\ c.pc = "token"
    /\ tokenPaid' = [tokenPaid EXCEPT ![c.task] = @ + c.target]
    /\ Become(w, IF Subscribed(c.task) THEN [c EXCEPT !.pc = "clear"] ELSE Idle)
    /\ UNCHANGED <<ledgerVars, fundingVars, task, events, faults>>

(* A failure is logged only.                                               *)
taskAdjustTokenQuota(w) ==
    LET c == worker[w] IN
    /\ c.pc = "token"
    /\ Become(w, IF Subscribed(c.task) THEN [c EXCEPT !.pc = "clear"] ELSE Idle)
    /\ \/ tokenPaid' = [tokenPaid EXCEPT ![c.task] = @ + c.target - c.quota] /\ NoFault
       \/ UNCHANGED tokenPaid /\ Fault
    /\ UNCHANGED <<ledgerVars, fundingVars, task, events>>

UpdateQuota(w) ==
    LET c == worker[w] IN
    /\ c.pc = "clear"
    /\ Become(w, Idle)
    /\ \/ jobQuota' = [jobQuota EXCEPT ![c.task] = c.target] /\ NoFault
       \/ UNCHANGED jobQuota /\ Fault
    /\ UNCHANGED <<otherLedgerVars, fundingVars, task, events, tokenPaid>>

(* The node stops; the copy and what remained to be done are gone.         *)
Crash(w) ==
    /\ Crashes /\ faults < MaxFaults
    /\ worker[w].pc # "idle"
    /\ Become(w, Idle)
    /\ faults' = faults + 1
    /\ UNCHANGED <<ledgerVars, fundingVars, task, events, tokenPaid>>

-----------------------------------------------------------------------------
WorkerStep(w) ==
    \/ \E to \in Running \cup Final, actual \in {0} \cup Actuals : updateVideoSingleTask(w, to, actual)
    \/ \E to \in Running \cup Final : updateSunoTasks(w, to)
    \/ UpstreamFails(w)
    \/ sweepTimedOutTasks(w)
    \/ RelayVolcNativeTaskDelete(w)
    \/ \E to \in Running \cup Final : tryRealtimeFetch(w, to)
    \/ FailWithoutChannel(w)
    \/ AdjustFunding(w)
    \/ taskAdjustTokenQuota(w)
    \/ UpdateQuota(w)

Next ==
    \/ \E t \in Tasks : Insert(t)
    \/ \E w \in Workers : WorkerStep(w) \/ Crash(w) \/ \E t \in Tasks, role \in AllRoles : LoadTask(w, t, role)

Spec == TaskInit /\ [][Next]_vars

-----------------------------------------------------------------------------
(* Rows, copies and events have their types; a token is never given back   *)
(* more than it paid.                                                      *)
AsyncTypeOK ==
    /\ task \in [Tasks -> TaskRow]
    /\ events \subseteq Event
    /\ tokenPaid \in [Tasks -> Nat]
    /\ worker \in [Workers -> Copy]

(* A final status is final: no stale copy, sweep or cancellation moves a   *)
(* task out of it (the compare-and-swap of UpdateWithStatus).              *)
TerminalIsFinal == [][\A t \in Tasks : task[t].status \in Final => task'[t].status = task[t].status]_vars

EventsOf(t) == {e \in events : e.task = t}

(* Subscribers can rebuild the history of a task: its events carry the     *)
(* versions 1..n, one each, and the last one tells the current status,     *)
(* although workers write copies loaded before other workers' writes.      *)
EventPerTransition ==
    \A t \in Tasks :
        /\ {e.version : e \in EventsOf(t)} = 1..task[t].version
        /\ Cardinality(EventsOf(t)) = task[t].version
        /\ \A e \in EventsOf(t) : e.version = task[t].version => e.status = task[t].status

Quiet(t) == \A w \in Workers : worker[w].task # t

(* The charge follows the outcome: once nobody works on it, a failed task  *)
(* costs nothing (unless a call failed or a node stopped half-way), and a  *)
(* task that succeeded is never refunded.                                  *)
ChargeMatchesOutcome ==
    \A t \in Tasks : Quiet(t) =>
        /\ task[t].status = "FAILURE" /\ faults = 0 => jobQuota[t] = 0
        /\ task[t].status = "SUCCESS" /\ JobOpening[t] > 0 => jobQuota[t] > 0

Charged(t) == JobOpening[t] + SumFunction([e \in JobEntries(t) |-> e.quota])

(* The quota column of a wallet-funded task is what the journal says the   *)
(* task was charged: no write-back of a stale copy resurrects a charge     *)
(* that AdjustBillingTaskQuota has already given back or changed.          *)
TaskChargeReconciles == \A t \in Tasks \ Legacy : ~Subscribed(t) => jobQuota[t] = Charged(t)

(* Nobody gets back more than was charged: overlapping polls, sweeps and   *)
(* cancellations never refund a task twice.                                *)
NeverRefundedTwice == \A t \in Tasks : Charged(t) >= 0

(* Token, subscription and task agree once the workers are done and no     *)
(* call has failed: the three are changed in separate transactions.        *)
BooksAgree ==
    faults = 0 =>
        /\ \A t \in Tasks \ Legacy : Quiet(t) => tokenPaid[t] = jobQuota[t]
        /\ \A s \in Subs :
             (\A t \in TasksOf(s) : Quiet(t) /\ t \notin Legacy) =>
                subscription[s].used = SumFunctionOnSet(jobQuota, TasksOf(s))
=============================================================================

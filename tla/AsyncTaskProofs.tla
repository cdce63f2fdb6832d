--------------------------- MODULE AsyncTaskProofs ---------------------------
(***************************************************************************)
(* Proofs about asynchronous tasks for any number of tasks, workers,       *)
(* customers and subscriptions, any charges and any number of faults.      *)
(*                                                                         *)
(* The history of events holds for all workers.  What a task costs is      *)
(* proved for poll rounds, sweeps and cancellations (Roles \subseteq       *)
(* Plain); dashboard reads and vanished channels break it, and TLC has the *)
(* counterexamples.  AsyncCases sorts the steps of workers into kinds,     *)
(* BillInv says how far the one worker that bills a task is with it.       *)
(***************************************************************************)
EXTENDS AsyncTask, BillingLedgerProofs

Copied(w) == worker[w].pc = "copied"
Billing(w) == worker[w].pc \in {"fund", "token", "clear"}

(* AdjustFunding changes nothing: the source refuses, or the quota column  *)
(* already has the new charge.                                             *)
Refused(w) ==
    LET c == worker[w] IN
    /\ c.pc = "fund"
    /\ IF Subscribed(c.task) THEN ~DeltaAllowed(SubTask[c.task], c.target - c.quota)
       ELSE AdjustRefused(c) \/ jobQuota[c.task] = c.target

(* What a step of a worker may be.  It drops the task, *)
Drops(w) ==
    /\ worker[w].pc # "idle" /\ Become(w, Idle)
    /\ UNCHANGED <<ledgerVars, fundingVars, task, events, tokenPaid>>
    /\ faults' \in {faults, faults + 1}
    /\ Billing(w) /\ faults' = faults => Refused(w)

(* what it goes on with once it has written the row, *)
GoesOn(c, to, q, next) ==
    \/ next = Idle
    \/ \E target : /\ next = [c EXCEPT !.pc = "fund", !.target = target]
                   /\ target # c.quota /\ q = c.quota
                   /\ (to = "SUCCESS" /\ target \in Actuals) \/ (to = "FAILURE" /\ target = 0)

(* it writes its copy, *)
Writes(w, to, q, next) ==
    LET c == worker[w] IN
    /\ Copied(w) /\ to \in Running \cup Final
    /\ UpdateWithStatus(c.task, c.status, to, q) /\ Become(w, next)
    /\ UNCHANGED <<otherLedgerVars, fundingVars, tokenPaid>>
    /\ faults' = faults \/ (faults' = faults + 1 /\ next = Idle)
    /\ q = c.quota \/ (q = 0 /\ c.task \in Legacy /\ to = "FAILURE")
    /\ GoesOn(c, to, q, next)
    /\ to = "FAILURE" /\ next = Idle /\ faults' = faults => q = 0 \/ c.role = "read"

(* or it changes the subscription or the wallet that funds the task. *)
SubscriptionFunds(w) ==
    LET c == worker[w] IN
    /\ c.pc = "fund" /\ Subscribed(c.task)
    /\ PostConsumeUserSubscriptionDelta(SubTask[c.task], c.target - c.quota)
    /\ Become(w, [c EXCEPT !.pc = "token"])
    /\ UNCHANGED <<ledgerVars, refunding, task, events, tokenPaid, faults>>

WalletFunds(w) ==
    LET c == worker[w] IN
    /\ c.pc = "fund" /\ ~Subscribed(c.task)
    /\ c.target \in 0..MaxWalletQuota /\ jobQuota[c.task] = c.quota
    /\ AdjustJob(c.task, c.target)
    /\ Become(w, [c EXCEPT !.pc = "token"])
    /\ UNCHANGED <<fundingVars, task, events, tokenPaid, faults>>

-----------------------------------------------------------------------------
(* A write of a copy wins, or the worker drops the task. *)
LEMMA PersistCases ==
  ASSUME faults \in Nat, NEW w, Copied(w), NEW to \in Running \cup Final, NEW q, NEW next, Persist(w, to, q, next),
         q = worker[w].quota \/ (q = 0 /\ worker[w].task \in Legacy /\ to = "FAILURE"),
         GoesOn(worker[w], to, q, next),
         to = "FAILURE" /\ next = Idle => q = 0 \/ worker[w].role = "read"
  PROVE  Drops(w) \/ Writes(w, to, q, next) \/ Writes(w, to, q, Idle)
<1> DEFINE c == worker[w]
<1>1. UNCHANGED <<otherLedgerVars, fundingVars, tokenPaid>>
  BY DEF Persist
<1>2. CASE UpdateWithStatus(c.task, c.status, to, q) /\ Become(w, next) /\ NoFault
  BY <1>1, <1>2 DEF Writes, NoFault
<1>3. CASE UpdateWithStatus(c.task, c.status, to, q) /\ Become(w, Idle) /\ Fault
  <2>1. faults' = faults + 1 /\ faults' # faults
    BY <1>3 DEF Fault
  <2>2. GoesOn(c, to, q, Idle)
    BY DEF GoesOn
  <2> QED BY <1>1, <1>3, <2>1, <2>2 DEF Writes
<1>4. CASE Become(w, Idle) /\ (NoFault \/ Fault) /\ UNCHANGED <<task, events, jobQuota>>
  <2>1. UNCHANGED <<ledgerVars, fundingVars, task, events, tokenPaid>>
    BY <1>1, <1>4 DEF otherLedgerVars, ledgerVars
  <2>2. c.pc # "idle" /\ ~Billing(w) /\ faults' \in {faults, faults + 1}
    BY <1>4 DEF Copied, Billing, NoFault, Fault
  <2> QED BY <1>4, <2>1, <2>2 DEF Drops
<1> QED BY <1>2, <1>3, <1>4 DEF Persist

(* After a won write the worker bills, unless there is nothing to change. *)
LEMMA BillToGoesOn ==
  ASSUME NEW c \in Copy, NEW to, NEW target,
         (to = "SUCCESS" /\ target \in Actuals) \/ (to = "FAILURE" /\ target = 0)
  PROVE  /\ GoesOn(c, to, c.quota, BillTo(c, target))
         /\ BillTo(c, target) = Idle => c.quota = target
<1>1. GoesOn(c, to, c.quota, BillTo(c, target))
  BY DEF GoesOn, BillTo
<1>2. ASSUME c.quota # target PROVE BillTo(c, target) # Idle
  <2>1. [c EXCEPT !.pc = "fund", !.target = target].pc = "fund" /\ Idle.pc = "idle"
    BY DEF Copy, Idle
  <2> QED BY <1>2, <2>1 DEF BillTo
<1> QED BY <1>1, <1>2

(* Rows, copies and counters have their types, whatever workers do.        *)
CopyOK(w) ==
    worker[w].pc # "idle" =>
        /\ worker[w].task \in Tasks /\ worker[w].role \in Roles /\ worker[w].status \in Running \cup Final
        /\ worker[w].quota \in 0..MaxWalletQuota /\ worker[w].target \in 0..MaxWalletQuota

TaskTypes ==
    /\ LedgerTypeOK
    /\ task \in [Tasks -> TaskRow]
    /\ events \subseteq Event /\ IsFiniteSet(events)
    /\ worker \in [Workers -> Copy] /\ \A w \in Workers : CopyOK(w)
    /\ tokenPaid \in [Tasks -> Int]
    /\ faults \in Nat

(* Every step of a worker is of one of these kinds. *)
StepOf(w) ==
    \/ \E t \in Tasks, role \in AllRoles : LoadTask(w, t, role)
    \/ Drops(w)
    \/ \E to \in Running \cup Final : \E q, next : Writes(w, to, q, next)
    \/ FailWithoutChannel(w)
    \/ SubscriptionFunds(w) \/ WalletFunds(w) \/ taskAdjustTokenQuota(w) \/ UpdateQuota(w)

(* The steps of a worker after it has loaded a copy. *)
LEMMA WorkerCases ==
  ASSUME TaskTypes, NEW w \in Workers, WorkerStep(w)
  PROVE  StepOf(w)
<1> DEFINE c == worker[w]
<1>0. faults \in Nat /\ c \in Copy
  BY DEF TaskTypes
<1>1. ASSUME NEW to \in Running \cup Final, NEW actual \in {0} \cup Actuals, updateVideoSingleTask(w, to, actual)
      PROVE  StepOf(w)
  <2> DEFINE next == CASE to = "SUCCESS" /\ actual > 0 -> BillTo(c, actual)
                       [] to = "FAILURE" -> BillTo(c, 0)
                       [] OTHER -> Idle
  <2>1. Copied(w) /\ Persist(w, to, c.quota, next)
    BY <1>1 DEF updateVideoSingleTask, Holds, Copied
  <2>2. \/ to = "SUCCESS" /\ actual \in Actuals /\ next = BillTo(c, actual)
        \/ to = "FAILURE" /\ next = BillTo(c, 0)
        \/ to # "FAILURE" /\ next = Idle
    BY TaskAssumption
  <2> HIDE DEF next, c
  <2>3. GoesOn(c, to, c.quota, next) /\ (to = "FAILURE" /\ next = Idle => c.quota = 0)
    <3>1. CASE to = "SUCCESS" /\ actual \in Actuals /\ next = BillTo(c, actual)
      BY <1>0, <3>1, BillToGoesOn
    <3>2. CASE to = "FAILURE" /\ next = BillTo(c, 0)
      BY <1>0, <3>2, BillToGoesOn
    <3>3. CASE to # "FAILURE" /\ next = Idle
      BY <3>3 DEF GoesOn
    <3> QED BY <2>2, <3>1, <3>2, <3>3
  <2> QED BY <1>0, <2>1, <2>3, PersistCases DEF StepOf, c
<1>2. ASSUME NEW to \in Running \cup Final, updateSunoTasks(w, to) PROVE StepOf(w)
  <2> DEFINE next == IF to = "FAILURE" THEN BillTo(c, 0) ELSE Idle
  <2>1. Copied(w) /\ Persist(w, to, c.quota, next)
    BY <1>2 DEF updateSunoTasks, Holds, Copied
  <2>2. GoesOn(c, to, c.quota, next) /\ (to = "FAILURE" /\ next = Idle => c.quota = 0)
    <3>1. CASE to = "FAILURE"
      BY <1>0, <3>1, BillToGoesOn
    <3>2. CASE to # "FAILURE"
      BY <3>2 DEF GoesOn
    <3> QED BY <3>1, <3>2
  <2> HIDE DEF next
  <2> QED BY <1>0, <2>1, <2>2, PersistCases DEF StepOf
<1>3. CASE UpstreamFails(w)
  BY <1>3 DEF UpstreamFails, Holds, StepOf, Drops, Billing
<1>4. CASE sweepTimedOutTasks(w)
  <2>1. CASE c.task \in Legacy
    <3>1. Copied(w) /\ Persist(w, "FAILURE", 0, Idle) /\ GoesOn(c, "FAILURE", 0, Idle) /\ "FAILURE" \in Running \cup Final
      BY <1>4, <2>1 DEF sweepTimedOutTasks, Holds, Copied, GoesOn, Final
    <3> QED BY <1>0, <2>1, <3>1, PersistCases DEF StepOf
  <2>2. CASE c.task \notin Legacy
    <3>1. Copied(w) /\ Persist(w, "FAILURE", c.quota, BillTo(c, 0)) /\ "FAILURE" \in Running \cup Final
      BY <1>4, <2>2 DEF sweepTimedOutTasks, Holds, Copied, Final
    <3>2. GoesOn(c, "FAILURE", c.quota, BillTo(c, 0)) /\ (BillTo(c, 0) = Idle => c.quota = 0)
      BY <1>0, BillToGoesOn
    <3> QED BY <1>0, <3>1, <3>2, PersistCases DEF StepOf
  <2> QED BY <2>1, <2>2
<1>5. CASE RelayVolcNativeTaskDelete(w)
  <2>1. Copied(w) /\ Persist(w, "FAILURE", c.quota, BillTo(c, 0)) /\ "FAILURE" \in Running \cup Final
    BY <1>5 DEF RelayVolcNativeTaskDelete, Holds, Copied, Final
  <2>2. GoesOn(c, "FAILURE", c.quota, BillTo(c, 0)) /\ (BillTo(c, 0) = Idle => c.quota = 0)
    BY <1>0, BillToGoesOn
  <2> QED BY <1>0, <2>1, <2>2, PersistCases DEF StepOf
<1>6. ASSUME NEW to \in Running \cup Final, tryRealtimeFetch(w, to) PROVE StepOf(w)
  <2>1. Copied(w) /\ c.role = "read"
    BY <1>6 DEF tryRealtimeFetch, Holds, Copied
  <2>2. CASE to \in Final /\ to # c.status
    BY <1>6, <2>1, <2>2 DEF tryRealtimeFetch, StepOf, Drops, Billing, Copied
  <2>3. CASE ~(to \in Final /\ to # c.status)
    <3>1. Persist(w, to, c.quota, Idle) /\ GoesOn(c, to, c.quota, Idle)
      BY <1>6, <2>3 DEF tryRealtimeFetch, GoesOn
    <3> QED BY <1>0, <2>1, <3>1, PersistCases DEF StepOf
  <2> QED BY <2>2, <2>3
<1>7. CASE AdjustFunding(w)
  <2>1. CASE Subscribed(c.task)
    <3>1. c.pc = "fund" /\ UNCHANGED <<ledgerVars, task, events, tokenPaid>>
      BY <1>7, <2>1 DEF AdjustFunding
    <3>2. \/ /\ PostConsumeUserSubscriptionDelta(SubTask[c.task], c.target - c.quota)
             /\ UNCHANGED refunding /\ Become(w, [c EXCEPT !.pc = "token"]) /\ NoFault
          \/ /\ ~DeltaAllowed(SubTask[c.task], c.target - c.quota)
             /\ UNCHANGED fundingVars /\ Become(w, Idle) /\ NoFault
          \/ UNCHANGED fundingVars /\ Become(w, Idle) /\ Fault
      BY <1>7, <2>1 DEF AdjustFunding
    <3>3. SubscriptionFunds(w) \/ Drops(w)
      BY <1>0, <2>1, <3>1, <3>2 DEF SubscriptionFunds, Drops, NoFault, Fault, Refused
    <3> QED BY <3>3 DEF StepOf
  <2>2. CASE ~Subscribed(c.task)
    <3>1. c.pc = "fund" /\ UNCHANGED <<fundingVars, task, events, tokenPaid>>
      BY <1>7, <2>2 DEF AdjustFunding
    <3>2. \/ /\ AdjustBillingTaskQuota(c.task, c.quota, c.target)
             /\ Become(w, IF jobQuota[c.task] = c.target THEN Idle ELSE [c EXCEPT !.pc = "token"]) /\ NoFault
          \/ AdjustRefused(c) /\ UNCHANGED ledgerVars /\ Become(w, Idle) /\ NoFault
          \/ UNCHANGED ledgerVars /\ Become(w, Idle) /\ Fault
      BY <1>7, <2>2 DEF AdjustFunding
    <3>3. WalletFunds(w) \/ Drops(w)
      BY <1>0, <2>2, <3>1, <3>2 DEF WalletFunds, Drops, NoFault, Fault, Refused, AdjustBillingTaskQuota
    <3> QED BY <3>3 DEF StepOf
  <2> QED BY <2>1, <2>2
<1> QED BY <1>1, <1>2, <1>3, <1>4, <1>5, <1>6, <1>7 DEF WorkerStep, StepOf

(* Every step inserts a row or is a step of a worker. *)
LEMMA AsyncCases ==
  ASSUME TaskTypes, [Next]_vars
  PROVE  UNCHANGED vars \/ (\E t \in Tasks : Insert(t)) \/ \E w \in Workers : StepOf(w)
<1>1. ASSUME NEW w \in Workers, Crash(w) PROVE StepOf(w)
  <2>1. Drops(w)
    BY <1>1 DEF Crash, Drops, TaskTypes
  <2> QED BY <2>1 DEF StepOf
<1>2. ASSUME NEW w \in Workers, NEW t \in Tasks, NEW role \in AllRoles, LoadTask(w, t, role) PROVE StepOf(w)
  BY <1>2 DEF StepOf
<1> QED BY <1>1, <1>2, WorkerCases DEF Next

-----------------------------------------------------------------------------
(* Tasks are jobs of the ledger, and the bounds are numbers. *)
LEMMA TaskBounds ==
  /\ Tasks \subseteq Jobs /\ MaxWalletQuota \in Nat /\ 0 \in 0..MaxWalletQuota
  /\ MaxTransitions \in Nat /\ Actuals \subseteq 1..MaxWalletQuota /\ Actuals \subseteq 0..MaxWalletQuota
BY TaskAssumption, MaxWalletQuotaAssumption DEF Jobs

(* A written status keeps the types of rows and events. *)
LEMMA MoveTypes ==
  ASSUME TaskTypes, NEW t \in Tasks, NEW to \in Running \cup Final, MoveTo(t, to)
  PROVE  /\ task' \in [Tasks -> TaskRow] /\ events' \subseteq Event /\ IsFiniteSet(events')
         /\ \A u \in Tasks : u # t => task'[u] = task[u]
         /\ task'[t].status = to
<1> DEFINE changed == task[t].status # to
           version == IF changed THEN task[t].version + 1 ELSE task[t].version
           new == [task |-> t, version |-> version, status |-> to]
<1>1. task[t] \in TaskRow /\ version <= MaxTransitions
  BY DEF TaskTypes, MoveTo
<1>2. version \in 0..MaxTransitions /\ (changed => version \in 1..MaxTransitions)
  BY <1>1, TaskBounds DEF TaskRow
<1>3. /\ task' = [task EXCEPT ![t] = [status |-> to, version |-> version]]
      /\ events' = IF changed THEN events \cup {new} ELSE events
  BY DEF MoveTo
<1>4. changed => new \in Event
  BY <1>2 DEF Event
<1> HIDE DEF changed, version, new
<1>5. events' \subseteq Event /\ IsFiniteSet(events')
  BY <1>3, <1>4, FS_AddElement DEF TaskTypes
<1>6. task' \in [Tasks -> TaskRow]
  BY <1>2, <1>3 DEF TaskTypes, TaskRow
<1> QED BY <1>3, <1>5, <1>6 DEF TaskTypes

(* The rest of the ledger stays well typed when only quota columns are written. *)
LEMMA ColumnTypes ==
  ASSUME LedgerTypeOK, UNCHANGED otherLedgerVars, jobQuota' \in [Jobs -> 0..MaxWalletQuota]
  PROVE  LedgerTypeOK'
BY DEF LedgerTypeOK, otherLedgerVars

(* A worker becomes idle, or holds a copy that is well typed. *)
LEMMA BecomeTypes ==
  ASSUME TaskTypes, NEW w \in Workers, NEW copy \in Copy, Become(w, copy),
         copy.pc # "idle" =>
            /\ copy.task \in Tasks /\ copy.role \in Roles /\ copy.status \in Running \cup Final
            /\ copy.quota \in 0..MaxWalletQuota /\ copy.target \in 0..MaxWalletQuota
  PROVE  /\ worker' \in [Workers -> Copy] /\ \A v \in Workers : CopyOK(v)'
         /\ worker'[w] = copy /\ \A v \in Workers : v # w => worker'[v] = worker[v]
BY DEF TaskTypes, Become, CopyOK

(* Idle is a copy of nothing. *)
LEMMA IdleIsCopy == Idle \in Copy /\ Idle.pc = "idle" /\ Idle.task = NoTask
BY DEF Idle, Copy, AllRoles

(* A copy that goes on has the type of a copy. *)
LEMMA NextCopy ==
  ASSUME NEW c \in Copy, NEW pc \in {"fund", "token", "clear"}
  PROVE  /\ [c EXCEPT !.pc = pc] \in Copy /\ [c EXCEPT !.pc = pc].pc = pc
         /\ [c EXCEPT !.pc = pc].task = c.task /\ [c EXCEPT !.pc = pc].role = c.role
         /\ [c EXCEPT !.pc = pc].status = c.status /\ [c EXCEPT !.pc = pc].quota = c.quota
         /\ [c EXCEPT !.pc = pc].target = c.target
BY DEF Copy

(* So has a copy with the charge it is to be billed to. *)
LEMMA TargetCopy ==
  ASSUME NEW c \in Copy, NEW target \in Int
  PROVE  /\ [c EXCEPT !.pc = "fund", !.target = target] \in Copy
         /\ [c EXCEPT !.pc = "fund", !.target = target].pc = "fund"
         /\ [c EXCEPT !.pc = "fund", !.target = target].task = c.task
         /\ [c EXCEPT !.pc = "fund", !.target = target].role = c.role
         /\ [c EXCEPT !.pc = "fund", !.target = target].status = c.status
         /\ [c EXCEPT !.pc = "fund", !.target = target].quota = c.quota
         /\ [c EXCEPT !.pc = "fund", !.target = target].target = target
BY DEF Copy

(* What a winner goes on with. *)
LEMMA WinnerCopy ==
  ASSUME TaskTypes, NEW w \in Workers, Copied(w), NEW to, NEW q, NEW next, GoesOn(worker[w], to, q, next)
  PROVE  /\ next \in Copy
         /\ next.pc \in {"idle", "fund"} /\ (next.pc = "idle" <=> next = Idle)
         /\ next.pc = "fund" =>
              /\ next.task = worker[w].task /\ next.role = worker[w].role /\ next.status = worker[w].status
              /\ next.quota = worker[w].quota /\ q = next.quota /\ next.target # next.quota
              /\ next.target \in 0..MaxWalletQuota
              /\ (to = "SUCCESS" /\ next.target > 0) \/ (to = "FAILURE" /\ next.target = 0)
<1>1. CASE next = Idle
  BY <1>1, IdleIsCopy
<1>2. ASSUME NEW target, next = [worker[w] EXCEPT !.pc = "fund", !.target = target],
             target # worker[w].quota, q = worker[w].quota,
             (to = "SUCCESS" /\ target \in Actuals) \/ (to = "FAILURE" /\ target = 0)
      PROVE  /\ next \in Copy /\ next.pc = "fund" /\ next # Idle
             /\ next.task = worker[w].task /\ next.role = worker[w].role /\ next.status = worker[w].status
             /\ next.quota = worker[w].quota /\ q = next.quota /\ next.target # next.quota
             /\ next.target \in 0..MaxWalletQuota
             /\ (to = "SUCCESS" /\ next.target > 0) \/ (to = "FAILURE" /\ next.target = 0)
  <2>1. worker[w] \in Copy
    BY DEF TaskTypes
  <2>2. target \in 0..MaxWalletQuota /\ target \in Int /\ (target \in Actuals => target > 0)
    BY <1>2, TaskBounds
  <2>3. /\ next \in Copy /\ next.pc = "fund"
        /\ next.task = worker[w].task /\ next.role = worker[w].role /\ next.status = worker[w].status
        /\ next.quota = worker[w].quota /\ next.target = target
    BY <1>2, <2>1, <2>2, TargetCopy
  <2> QED BY <1>2, <2>2, <2>3, IdleIsCopy
<1> QED BY <1>1, <1>2 DEF GoesOn

(* Every step keeps the types. *)
LEMMA TaskTypesStep ==
  ASSUME TaskTypes, [Next]_vars
  PROVE  TaskTypes'
<1>0. \A w \in Workers : worker[w] \in Copy /\ CopyOK(w)
  BY DEF TaskTypes
<1>1. CASE UNCHANGED vars
  BY <1>1, StutterTypes DEF vars, taskVars, TaskTypes, CopyOK
<1>2. ASSUME NEW t \in Tasks, Insert(t) PROVE TaskTypes'
  <2>1. /\ MoveTo(t, "SUBMITTED") /\ "SUBMITTED" \in Running \cup Final
        /\ UNCHANGED <<ledgerVars, tokenPaid, worker, faults>>
    BY <1>2 DEF Insert, Running
  <2> QED BY <2>1, MoveTypes, StutterTypes DEF TaskTypes, CopyOK
<1>3. ASSUME NEW w \in Workers, NEW t \in Tasks, NEW role \in AllRoles, LoadTask(w, t, role) PROVE TaskTypes'
  <2> DEFINE copy == [pc |-> "copied", role |-> role, task |-> t, status |-> task[t].status,
                      quota |-> jobQuota[t], target |-> 0]
  <2>1. jobQuota[t] \in 0..MaxWalletQuota /\ jobQuota[t] \in Int
    BY TaskBounds DEF TaskTypes, LedgerTypeOK
  <2>2. task[t].status \in Running \cup Final
    BY <1>3 DEF LoadTask, TaskTypes, TaskRow
  <2>3. copy \in Copy
    BY <2>1, <2>2 DEF Copy
  <2>4. Become(w, copy) /\ UNCHANGED <<ledgerVars, task, events, tokenPaid, faults>> /\ role \in Roles
    BY <1>3 DEF LoadTask
  <2>5. copy.task = t /\ copy.role = role /\ copy.status = task[t].status /\ copy.quota = jobQuota[t] /\ copy.target = 0
    OBVIOUS
  <2> HIDE DEF copy
  <2>6. worker' \in [Workers -> Copy] /\ \A v \in Workers : CopyOK(v)'
    BY <2>1, <2>2, <2>3, <2>4, <2>5, BecomeTypes, TaskBounds
  <2> QED BY <2>4, <2>6, StutterTypes DEF TaskTypes
<1>4. ASSUME NEW w \in Workers, Drops(w) PROVE TaskTypes'
  <2>1. worker' \in [Workers -> Copy] /\ \A v \in Workers : CopyOK(v)'
    BY <1>4, IdleIsCopy, BecomeTypes DEF Drops
  <2> QED BY <1>4, <2>1, StutterTypes DEF Drops, TaskTypes
<1>5. ASSUME NEW w \in Workers, NEW to \in Running \cup Final, NEW q, NEW next, Writes(w, to, q, next) PROVE TaskTypes'
  <2> DEFINE t == worker[w].task
  <2>1. /\ t \in Tasks /\ q \in 0..MaxWalletQuota
    BY <1>0, <1>5, TaskBounds DEF Writes, CopyOK, Copied
  <2>2. MoveTo(t, to) /\ jobQuota' = [jobQuota EXCEPT ![t] = q] /\ UNCHANGED <<otherLedgerVars, tokenPaid>>
    BY <1>5 DEF Writes, UpdateWithStatus
  <2>3. LedgerTypeOK'
    <3>1. jobQuota' \in [Jobs -> 0..MaxWalletQuota]
      BY <2>1, <2>2 DEF TaskTypes, LedgerTypeOK
    <3> QED BY <2>2, <3>1, ColumnTypes DEF TaskTypes
  <2>4. task' \in [Tasks -> TaskRow] /\ events' \subseteq Event /\ IsFiniteSet(events')
    BY <2>1, <2>2, MoveTypes
  <2>5. worker' \in [Workers -> Copy] /\ \A v \in Workers : CopyOK(v)'
    <3>1. Copied(w) /\ GoesOn(worker[w], to, q, next) /\ Become(w, next)
      BY <1>5 DEF Writes
    <3>2. CopyOK(w) /\ worker[w].pc # "idle"
      BY <1>0, <3>1 DEF Copied
    <3> QED BY <3>1, <3>2, WinnerCopy, BecomeTypes, SMTT(60) DEF CopyOK
  <2>6. faults' \in Nat
    BY <1>5 DEF Writes, TaskTypes
  <2> QED BY <2>2, <2>3, <2>4, <2>5, <2>6 DEF TaskTypes
<1>6. ASSUME NEW w \in Workers, FailWithoutChannel(w) PROVE TaskTypes'
  <2>1. worker[w].task \in Tasks /\ "FAILURE" \in Running \cup Final
    BY <1>0, <1>6 DEF FailWithoutChannel, Holds, CopyOK, Final
  <2>2. MoveTo(worker[w].task, "FAILURE") /\ Become(w, Idle) /\ UNCHANGED <<jobQuota, otherLedgerVars, tokenPaid, faults>>
    BY <1>6 DEF FailWithoutChannel, TaskBulkUpdateByID
  <2>3. LedgerTypeOK'
    BY <2>2, ColumnTypes DEF TaskTypes, LedgerTypeOK
  <2>4. worker' \in [Workers -> Copy] /\ \A v \in Workers : CopyOK(v)'
    BY <2>2, IdleIsCopy, BecomeTypes
  <2> QED BY <2>1, <2>2, <2>3, <2>4, MoveTypes DEF TaskTypes
<1>7. ASSUME NEW w \in Workers, SubscriptionFunds(w) \/ WalletFunds(w) PROVE TaskTypes'
  <2>1. worker[w].pc = "fund" /\ Become(w, [worker[w] EXCEPT !.pc = "token"]) /\ UNCHANGED <<task, events, tokenPaid, faults>>
    BY <1>7 DEF SubscriptionFunds, WalletFunds
  <2>2. worker' \in [Workers -> Copy] /\ \A v \in Workers : CopyOK(v)'
    BY <1>0, <2>1, NextCopy, BecomeTypes DEF CopyOK
  <2>3. CASE SubscriptionFunds(w)
    BY <2>1, <2>2, <2>3, StutterTypes DEF SubscriptionFunds, TaskTypes
  <2>4. CASE WalletFunds(w)
    <3>1. worker[w].task \in Jobs
      BY <1>0, <2>1, TaskBounds DEF CopyOK
    <3>2. LedgerTypeOK'
      BY <2>4, <3>1, AdjustTypes DEF WalletFunds, TaskTypes
    <3> QED BY <2>1, <2>2, <3>2 DEF TaskTypes
  <2> QED BY <1>7, <2>3, <2>4
<1>8. ASSUME NEW w \in Workers, taskAdjustTokenQuota(w) PROVE TaskTypes'
  <2>1. /\ worker[w].pc = "token" /\ UNCHANGED <<ledgerVars, task, events>>
        /\ Become(w, [worker[w] EXCEPT !.pc = "clear"]) \/ Become(w, Idle)
    BY <1>8 DEF taskAdjustTokenQuota
  <2>2. worker' \in [Workers -> Copy] /\ \A v \in Workers : CopyOK(v)'
    <3>1. CASE Become(w, Idle)
      BY <3>1, IdleIsCopy, BecomeTypes
    <3>2. CASE Become(w, [worker[w] EXCEPT !.pc = "clear"])
      BY <1>0, <2>1, <3>2, NextCopy, BecomeTypes DEF CopyOK
    <3> QED BY <2>1, <3>1, <3>2
  <2>3. tokenPaid' \in [Tasks -> Int] /\ faults' \in Nat
    BY <1>0, <1>8, <2>1, TaskBounds DEF taskAdjustTokenQuota, NoFault, Fault, TaskTypes, CopyOK
  <2> QED BY <2>1, <2>2, <2>3, StutterTypes DEF TaskTypes
<1>9. ASSUME NEW w \in Workers, UpdateQuota(w) PROVE TaskTypes'
  <2>1. CopyOK(w) /\ worker[w].pc = "clear" /\ Become(w, Idle) /\ UNCHANGED <<otherLedgerVars, task, events, tokenPaid>>
    BY <1>0, <1>9 DEF UpdateQuota
  <2>2. worker' \in [Workers -> Copy] /\ \A v \in Workers : CopyOK(v)'
    BY <2>1, IdleIsCopy, BecomeTypes
  <2>3. jobQuota' \in [Jobs -> 0..MaxWalletQuota] /\ faults' \in Nat
    BY <1>9, <2>1, TaskBounds DEF UpdateQuota, NoFault, Fault, TaskTypes, LedgerTypeOK, CopyOK
  <2> QED BY <2>1, <2>2, <2>3, ColumnTypes DEF TaskTypes
<1> QED BY AsyncCases, <1>1, <1>2, <1>3, <1>4, <1>5, <1>6, <1>7, <1>8, <1>9 DEF StepOf

(* No task has been inserted yet. *)
LEMMA TaskTypesInit == TaskInit => TaskTypes
<1> SUFFICES ASSUME TaskInit PROVE TaskTypes
  OBVIOUS
<1>1. LedgerTypeOK
  BY LedgerInitTypes DEF TaskInit
<1>2. task \in [Tasks -> TaskRow]
  BY TaskBounds DEF TaskInit, TaskRow
<1>3. worker \in [Workers -> Copy] /\ \A w \in Workers : CopyOK(w)
  BY IdleIsCopy DEF TaskInit, CopyOK
<1>4. events \subseteq Event /\ IsFiniteSet(events) /\ faults \in Nat
  BY FS_EmptySet DEF TaskInit
<1>5. tokenPaid \in [Tasks -> Int]
  BY TaskBounds, JobOpeningAssumption DEF TaskInit
<1> QED BY <1>1, <1>2, <1>3, <1>4, <1>5 DEF TaskTypes

(* The types are an invariant. *)
LEMMA TaskTyping == Spec => []TaskTypes
<1>1. TaskTypes /\ [Next]_vars => TaskTypes'
  BY TaskTypesStep
<1> QED BY TaskTypesInit, <1>1, PTL DEF Spec

-----------------------------------------------------------------------------
(* The history of one task: its events carry the versions 1..n. *)
History(t) ==
    /\ {e.version : e \in EventsOf(t)} = 1..task[t].version
    /\ Cardinality(EventsOf(t)) = task[t].version
    /\ \A e \in EventsOf(t) : e.version = task[t].version => e.status = task[t].status

(* A written status continues the history: its event is queued with it. *)
LEMMA MoveEvents ==
  ASSUME TaskTypes, EventPerTransition, NEW t \in Tasks, NEW to \in Running \cup Final, MoveTo(t, to)
  PROVE  EventPerTransition'
<1> SUFFICES ASSUME NEW u \in Tasks PROVE History(u)'
  BY DEF EventPerTransition, History
<1>1. History(u)
  BY DEF EventPerTransition, History
<1> DEFINE n == task[t].version
           new == [task |-> t, version |-> n + 1, status |-> to]
<1>2. task \in [Tasks -> TaskRow] /\ n \in Nat
  BY TaskBounds DEF TaskTypes, TaskRow
<1>3. CASE task[t].status = to
  <2>1. task' = [task EXCEPT ![t] = [status |-> to, version |-> n]] /\ events' = events
    BY <1>3 DEF MoveTo
  <2>2. task'[u].version = task[u].version /\ task'[u].status = task[u].status
    BY <1>2, <1>3, <2>1
  <2> QED BY <1>1, <2>1, <2>2 DEF History, EventsOf
<1>4. CASE task[t].status # to
  <2>1. task' = [task EXCEPT ![t] = [status |-> to, version |-> n + 1]] /\ events' = events \cup {new}
    BY <1>4 DEF MoveTo
  <2>2. CASE u # t
    <3>1. task'[u] = task[u] /\ EventsOf(u)' = EventsOf(u)
      BY <1>2, <2>1, <2>2 DEF EventsOf
    <3> QED BY <1>1, <3>1 DEF History
  <2>3. CASE u = t
    <3>1. task'[t].version = n + 1 /\ task'[t].status = to
      BY <1>2, <2>1
    <3>2. EventsOf(t)' = EventsOf(t) \cup {new} /\ new.version = n + 1 /\ new.status = to
      BY <2>1 DEF EventsOf
    <3>3. {e.version : e \in EventsOf(t)} = 1..n /\ Cardinality(EventsOf(t)) = n
      BY <1>1, <2>3 DEF History
    <3>4. \A e \in EventsOf(t) : e.version \in 1..n
      BY <3>3
    <3>5. IsFiniteSet(EventsOf(t))
      BY FS_Subset DEF TaskTypes, EventsOf
    <3> HIDE DEF new, n
    <3>6. new \notin EventsOf(t)
      BY <1>2, <3>2, <3>4
    <3>7. Cardinality(EventsOf(t)') = n + 1
      BY <3>2, <3>3, <3>5, <3>6, FS_AddElement
    <3>8. {e.version : e \in EventsOf(t)'} = (1..n) \cup {n + 1}
      BY <3>2, <3>3
    <3>9. (1..n) \cup {n + 1} = 1..(n + 1)
      BY <1>2
    <3>10. \A e \in EventsOf(t)' : e.version = n + 1 => e.status = to
      BY <1>2, <3>2, <3>4
    <3> QED BY <2>3, <3>1, <3>7, <3>8, <3>9, <3>10 DEF History
  <2> QED BY <2>2, <2>3
<1> QED BY <1>3, <1>4

(* A webhook subscriber can rebuild the history of every task, whatever    *)
(* copies workers write back: one event per transition, gapless versions,  *)
(* the last one telling the status (UpdateWithStatus, TaskBulkUpdateByID). *)
THEOREM EventsTellHistory == Spec => []EventPerTransition
<1>1. TaskInit => EventPerTransition
  <2> SUFFICES ASSUME TaskInit, NEW t \in Tasks PROVE History(t)
    BY DEF EventPerTransition, History
  <2>1. EventsOf(t) = {} /\ task[t].version = 0
    BY DEF TaskInit, EventsOf
  <2>2. 1..0 = {} /\ Cardinality({}) = 0
    BY FS_EmptySet
  <2> QED BY <2>1, <2>2 DEF History
<1>2. ASSUME TaskTypes, EventPerTransition, [Next]_vars PROVE EventPerTransition'
  <2>1. ASSUME UNCHANGED <<task, events>> PROVE EventPerTransition'
    BY <1>2, <2>1 DEF EventPerTransition, EventsOf
  <2>2. ASSUME NEW t \in Tasks, NEW to \in Running \cup Final, MoveTo(t, to) PROVE EventPerTransition'
    BY <1>2, <2>2, MoveEvents
  <2>3. ASSUME NEW t \in Tasks, Insert(t) PROVE EventPerTransition'
    BY <2>2, <2>3 DEF Insert, Running
  <2>4. ASSUME NEW w \in Workers, NEW to \in Running \cup Final, NEW q, NEW next, Writes(w, to, q, next)
        PROVE  EventPerTransition'
    <3>1. worker[w].task \in Tasks
      BY <1>2, <2>4 DEF Writes, Copied, TaskTypes, CopyOK
    <3> QED BY <2>2, <2>4, <3>1 DEF Writes, UpdateWithStatus
  <2>5. ASSUME NEW w \in Workers, FailWithoutChannel(w) PROVE EventPerTransition'
    <3>1. worker[w].task \in Tasks /\ "FAILURE" \in Running \cup Final
      BY <1>2, <2>5 DEF FailWithoutChannel, Holds, TaskTypes, CopyOK, Final
    <3> QED BY <2>2, <2>5, <3>1 DEF FailWithoutChannel, TaskBulkUpdateByID
  <2> QED
    BY AsyncCases, <1>2, <2>1, <2>3, <2>4, <2>5
    DEF vars, taskVars, StepOf, LoadTask, Drops, SubscriptionFunds, WalletFunds, taskAdjustTokenQuota, UpdateQuota
<1>3. TaskTypes /\ EventPerTransition /\ [Next]_vars => EventPerTransition'
  BY <1>2
<1> QED BY TaskTyping, <1>1, <1>3, PTL DEF Spec

-----------------------------------------------------------------------------
(* The workers that write a task only while it is unfinished: poll rounds, *)
(* the timeout sweep and cancellations.                                    *)
Plain == {"poll", "sweep", "cancel"}

(* A copy was loaded while the task was unfinished, with its first charge. *)
CopyFresh(w) ==
    /\ worker[w].pc # "idle" => worker[w].quota = JobOpening[worker[w].task]
    /\ Copied(w) => worker[w].status \in Running

(* How far a worker is with the bill. *)
BillOK(w) ==
    LET c == worker[w]
        t == c.task
    IN  /\ Billing(w) => /\ c.target # c.quota
                         /\ (task[t].status = "SUCCESS" /\ c.target > 0) \/ (task[t].status = "FAILURE" /\ c.target = 0)
        /\ c.pc = "fund" => jobQuota[t] = c.quota /\ tokenPaid[t] = c.quota
        /\ c.pc = "token" => /\ tokenPaid[t] = c.quota
                             /\ jobQuota[t] = IF Subscribed(t) THEN c.quota ELSE c.target
        /\ c.pc = "clear" => /\ Subscribed(t) /\ jobQuota[t] = c.quota
                             /\ faults = 0 => tokenPaid[t] = c.target

(* A task is billed by one worker at a time: the one that finished it. *)
OneBiller == \A v, w \in Workers : Billing(v) /\ Billing(w) /\ worker[v].task = worker[w].task => v = w
NoBiller(t) == \A w \in Workers : Billing(w) => worker[w].task # t

(* An unfinished task has its first charge, a task that succeeded is not   *)
(* free, and the token has paid what the task costs.                       *)
RowOK(t) ==
    /\ task[t].status \notin Final => jobQuota[t] = JobOpening[t] /\ tokenPaid[t] = JobOpening[t]
    /\ task[t].status = "SUCCESS" /\ JobOpening[t] > 0 => jobQuota[t] > 0
    /\ tokenPaid[t] \in Nat
    /\ faults = 0 /\ t \notin Legacy /\ NoBiller(t) => tokenPaid[t] = jobQuota[t]

BillInv ==
    /\ \A w \in Workers : CopyFresh(w) /\ BillOK(w)
    /\ OneBiller
    /\ \A t \in Tasks : RowOK(t)

(* A step touches at most the task t and the worker w that works on it. *)
Touches(w, t) ==
    /\ \A u \in Tasks : u # t => task'[u] = task[u] /\ jobQuota'[u] = jobQuota[u] /\ tokenPaid'[u] = tokenPaid[u]
    /\ \A v \in Workers : v # w => worker'[v] = worker[v]
    /\ worker[w].pc # "idle" => worker[w].task = t
    /\ worker'[w].pc # "idle" => worker'[w].task = t
    /\ faults' = 0 => faults = 0

(* Such a step keeps the invariant of every other task and worker, if no   *)
(* other worker bills the task.                                            *)
LEMMA OthersKept ==
  ASSUME TaskTypes, BillInv, NEW w \in Workers, NEW t \in Tasks, Touches(w, t),
         \A v \in Workers : v # w /\ Billing(v) => worker[v].task # t,
         CopyFresh(w)', BillOK(w)', RowOK(t)'
  PROVE  BillInv'
<1>1. ASSUME NEW v \in Workers, v # w PROVE CopyFresh(v)' /\ BillOK(v)'
  <2>1. worker'[v] = worker[v] /\ CopyFresh(v) /\ BillOK(v) /\ (faults' = 0 => faults = 0)
    BY <1>1 DEF Touches, BillInv
  <2>2. CopyFresh(v)'
    BY <2>1 DEF CopyFresh, Copied
  <2>3. CASE Billing(v)
    <3>1. worker[v].task # t /\ worker[v].task \in Tasks
      BY <1>1, <2>3 DEF TaskTypes, CopyOK, Billing
    <3>2. /\ task'[worker[v].task] = task[worker[v].task]
          /\ jobQuota'[worker[v].task] = jobQuota[worker[v].task]
          /\ tokenPaid'[worker[v].task] = tokenPaid[worker[v].task]
      BY <3>1 DEF Touches
    <3> QED BY <2>1, <2>2, <3>2 DEF BillOK, Billing
  <2>4. CASE ~Billing(v)
    BY <2>1, <2>2, <2>4 DEF BillOK, Billing
  <2> QED BY <2>3, <2>4
<1>2. OneBiller'
  <2>1. ASSUME NEW v \in Workers, NEW x \in Workers, Billing(v)', Billing(x)', worker'[v].task = worker'[x].task
        PROVE  v = x
    <3>1. ASSUME NEW y \in Workers, y # w, Billing(y)' PROVE Billing(y) /\ worker'[y] = worker[y] /\ worker[y].task # t
      BY <3>1 DEF Touches, Billing
    <3>2. Billing(w)' => worker'[w].task = t
      BY DEF Touches, Billing
    <3>3. CASE v # w /\ x # w
      BY <2>1, <3>1, <3>3 DEF BillInv, OneBiller
    <3>4. CASE v = w /\ x # w
      BY <2>1, <3>1, <3>2, <3>4
    <3>5. CASE v # w /\ x = w
      BY <2>1, <3>1, <3>2, <3>5
    <3> QED BY <3>3, <3>4, <3>5
  <2> QED BY <2>1 DEF OneBiller
<1>3. ASSUME NEW u \in Tasks, u # t PROVE RowOK(u)'
  <2>1. task'[u] = task[u] /\ jobQuota'[u] = jobQuota[u] /\ tokenPaid'[u] = tokenPaid[u] /\ (faults' = 0 => faults = 0)
    BY <1>3 DEF Touches
  <2>2. NoBiller(u)' => NoBiller(u)
    BY <1>3 DEF Touches, NoBiller, Billing
  <2> QED BY <2>1, <2>2 DEF RowOK, BillInv
<1> QED BY <1>1, <1>2, <1>3 DEF BillInv

(* A new row keeps the invariant: nobody knows the task yet. *)
LEMMA InsertBill ==
  ASSUME TaskTypes, BillInv, NEW t \in Tasks, Insert(t)
  PROVE  BillInv'
<1>1. /\ task[t].status = "NONE" /\ MoveTo(t, "SUBMITTED") /\ "SUBMITTED" \in Running \cup Final
      /\ UNCHANGED <<jobQuota, tokenPaid, worker, faults>>
  BY DEF Insert, Running, ledgerVars
<1>2. task'[t].status = "SUBMITTED" /\ \A u \in Tasks : u # t => task'[u] = task[u]
  BY <1>1, MoveTypes
<1>3. ASSUME NEW w \in Workers PROVE CopyFresh(w)' /\ BillOK(w)'
  <2>1. CopyFresh(w) /\ BillOK(w)
    BY DEF BillInv
  <2>2. CASE Billing(w)
    <3>1. worker[w].task \in Tasks /\ worker[w].task # t
      BY <1>1, <2>1, <2>2 DEF BillOK, Billing, TaskTypes, CopyOK
    <3>2. task'[worker[w].task] = task[worker[w].task]
      BY <1>2, <3>1
    <3> QED BY <1>1, <2>1, <3>2 DEF CopyFresh, Copied, BillOK, Billing
  <2>3. CASE ~Billing(w)
    BY <1>1, <2>1, <2>3 DEF CopyFresh, Copied, BillOK, Billing
  <2> QED BY <2>2, <2>3
<1>4. OneBiller'
  BY <1>1 DEF BillInv, OneBiller, Billing
<1>5. ASSUME NEW u \in Tasks PROVE RowOK(u)'
  <2>1. RowOK(u)
    BY DEF BillInv
  <2>2. NoBiller(u)' <=> NoBiller(u)
    BY <1>1 DEF NoBiller, Billing
  <2>3. CASE u = t
    <3>1. jobQuota[t] = JobOpening[t] /\ tokenPaid[t] = JobOpening[t]
      BY <1>1, <2>1, <2>3 DEF RowOK, Final
    <3> QED BY <1>1, <1>2, <2>1, <2>3, <3>1 DEF RowOK
  <2>4. CASE u # t
    BY <1>1, <1>2, <2>1, <2>2, <2>4 DEF RowOK
  <2> QED BY <2>3, <2>4
<1> QED BY <1>3, <1>4, <1>5 DEF BillInv

(* A copy is loaded while the task is unfinished. *)
LEMMA LoadBill ==
  ASSUME Roles \subseteq Plain, TaskTypes, BillInv, NEW w \in Workers, NEW t \in Tasks, NEW role, LoadTask(w, t, role)
  PROVE  BillInv' /\ Touches(w, t)
<1> DEFINE copy == [pc |-> "copied", role |-> role, task |-> t, status |-> task[t].status,
                    quota |-> jobQuota[t], target |-> 0]
<1>1. /\ worker[w].pc = "idle" /\ task[t].status \in Running /\ UNCHANGED <<jobQuota, task, tokenPaid, faults>>
      /\ worker' = [worker EXCEPT ![w] = copy]
  BY DEF LoadTask, Plain, Become, ledgerVars
<1>2. worker'[w] = copy /\ \A v \in Workers : v # w => worker'[v] = worker[v]
  BY <1>1 DEF TaskTypes
<1>3. jobQuota[t] = JobOpening[t] /\ RowOK(t)
  BY <1>1 DEF BillInv, RowOK, Running, Final
<1>4. CopyFresh(w)' /\ BillOK(w)'
  BY <1>1, <1>2, <1>3 DEF CopyFresh, Copied, BillOK, Billing
<1>5. \A v \in Workers : v # w /\ Billing(v) => worker[v].task # t
  BY <1>1 DEF BillInv, BillOK, Running
<1>6. RowOK(t)'
  <2>1. NoBiller(t)
    BY <1>1, <1>5 DEF NoBiller, Billing
  <2> QED BY <1>1, <1>3, <2>1 DEF RowOK
<1>7. Touches(w, t)
  BY <1>1, <1>2 DEF Touches
<1> QED BY <1>4, <1>5, <1>6, <1>7, OthersKept

(* A worker that drops a task it was billing has met a fault, or nothing   *)
(* had been changed yet.                                                   *)
LEMMA DropBill ==
  ASSUME TaskTypes, BillInv, NEW w \in Workers, Drops(w)
  PROVE  BillInv' /\ Touches(w, worker[w].task)
<1>t. PICK t : t = worker[w].task
  OBVIOUS
<1>1. /\ worker[w].pc # "idle" /\ worker' = [worker EXCEPT ![w] = Idle] /\ UNCHANGED <<jobQuota, task, tokenPaid>>
      /\ faults' \in {faults, faults + 1} /\ (Billing(w) /\ faults' = faults => Refused(w)) /\ faults \in Nat
  BY DEF Drops, Become, ledgerVars, TaskTypes
<1>2. worker'[w] = Idle /\ Idle.pc = "idle" /\ \A v \in Workers : v # w => worker'[v] = worker[v]
  BY <1>1, IdleIsCopy DEF TaskTypes
<1>3. CopyFresh(w)' /\ BillOK(w)'
  BY <1>2 DEF CopyFresh, Copied, BillOK, Billing
<1>4. t \in Tasks /\ BillOK(w) /\ RowOK(t)
  BY <1>1, <1>t DEF TaskTypes, CopyOK, BillInv
<1>5. faults' = 0 => faults = 0 /\ faults' = faults
  BY <1>1
<1>6. RowOK(t)'
  <2>1. ASSUME faults' = 0, t \notin Legacy, NoBiller(t)' PROVE tokenPaid[t] = jobQuota[t]
    <3>1. CASE Billing(w)
      BY <1>1, <1>4, <1>5, <1>t, <2>1, <3>1 DEF Refused, BillOK
    <3>2. CASE ~Billing(w)
      <4>1. NoBiller(t)
        BY <1>2, <2>1, <3>2 DEF NoBiller, Billing
      <4> QED BY <1>4, <1>5, <2>1, <4>1 DEF RowOK
    <3> QED BY <3>1, <3>2
  <2> QED BY <1>1, <1>4, <2>1 DEF RowOK
<1>7. Touches(w, t)
  BY <1>1, <1>2, <1>5, <1>t DEF Touches
<1>8. ASSUME Billing(w) PROVE BillInv'
  <2>1. \A v \in Workers : v # w /\ Billing(v) => worker[v].task # t
    BY <1>8, <1>t DEF BillInv, OneBiller
  <2> QED BY <1>3, <1>4, <1>6, <1>7, <2>1, OthersKept
<1>9. ASSUME ~Billing(w) PROVE BillInv'
  <2>1. ASSUME NEW v \in Workers PROVE CopyFresh(v)' /\ BillOK(v)'
    <3>1. CASE v = w
      BY <1>3, <3>1
    <3>2. CASE v # w
      BY <1>1, <1>2, <1>5, <3>2 DEF BillInv, CopyFresh, Copied, BillOK, Billing
    <3> QED BY <3>1, <3>2
  <2>2. OneBiller'
    BY <1>2 DEF BillInv, OneBiller, Billing
  <2>3. ASSUME NEW u \in Tasks PROVE RowOK(u)'
    <3>1. NoBiller(u)' => NoBiller(u)
      BY <1>2, <1>9 DEF NoBiller, Billing
    <3> QED BY <1>1, <1>5, <3>1 DEF BillInv, RowOK
  <2> QED BY <2>1, <2>2, <2>3 DEF BillInv
<1> QED BY <1>7, <1>8, <1>9, <1>t

(* The compare-and-swap of UpdateWithStatus: a copy that is written was    *)
(* loaded with the status the row still has, so its quota is the row's.    *)
LEMMA WriteBill ==
  ASSUME TaskTypes, BillInv, NEW w \in Workers, NEW to \in Running \cup Final, NEW q, NEW next, Writes(w, to, q, next)
  PROVE  BillInv' /\ Touches(w, worker[w].task)
<1>ct. PICK c, t : c = worker[w] /\ t = worker[w].task
  OBVIOUS
<1>0. Copied(w) /\ GoesOn(c, to, q, next) /\ CopyFresh(w) /\ CopyOK(w) /\ c.pc = "copied" /\ faults \in Nat
  BY <1>ct DEF Writes, BillInv, TaskTypes, Copied
<1>1. t \in Tasks /\ task[t].status = c.status /\ c.status \in Running /\ c.quota = JobOpening[t]
  BY <1>ct, <1>0 DEF Writes, UpdateWithStatus, CopyOK, CopyFresh
<1>2. /\ MoveTo(t, to) /\ jobQuota' = [jobQuota EXCEPT ![t] = q] /\ tokenPaid' = tokenPaid
      /\ worker' = [worker EXCEPT ![w] = next]
      /\ q = c.quota \/ (q = 0 /\ t \in Legacy /\ to = "FAILURE")
      /\ faults' = faults \/ faults' = faults + 1
  BY <1>ct DEF Writes, UpdateWithStatus, Become
<1>3. /\ task'[t].status = to /\ \A u \in Tasks : u # t => task'[u] = task[u]
  BY <1>1, <1>2, MoveTypes
<1>4. /\ jobQuota'[t] = q /\ \A u \in Tasks : u # t => jobQuota'[u] = jobQuota[u]
  BY <1>1, <1>2, TaskBounds DEF TaskTypes, LedgerTypeOK
<1>5. worker'[w] = next /\ \A v \in Workers : v # w => worker'[v] = worker[v]
  BY <1>2 DEF TaskTypes
<1>6. /\ next.pc \in {"idle", "fund"}
      /\ next.pc = "fund" =>
           /\ next.task = t /\ next.quota = c.quota /\ q = c.quota /\ next.target # next.quota
           /\ (to = "SUCCESS" /\ next.target > 0) \/ (to = "FAILURE" /\ next.target = 0)
  BY <1>ct, <1>0, WinnerCopy
<1>7. RowOK(t) /\ jobQuota[t] = JobOpening[t] /\ tokenPaid[t] = JobOpening[t]
  BY <1>1 DEF BillInv, RowOK, Running, Final
<1>8. \A v \in Workers : Billing(v) => worker[v].task # t
  BY <1>1 DEF BillInv, BillOK, Running
<1>9. CopyFresh(w)' /\ BillOK(w)'
  BY <1>1, <1>2, <1>3, <1>4, <1>5, <1>6, <1>7 DEF CopyFresh, Copied, BillOK, Billing
<1>10. RowOK(t)'
  <2>1. to \notin Final => q = JobOpening[t]
    BY <1>1, <1>2 DEF Final
  <2>2. to = "SUCCESS" => q = JobOpening[t]
    BY <1>1, <1>2
  <2>3. t \notin Legacy => tokenPaid'[t] = jobQuota'[t]
    BY <1>1, <1>2, <1>4, <1>7
  <2> QED BY <1>2, <1>3, <1>4, <1>7, <2>1, <2>2, <2>3 DEF RowOK
<1>11. Touches(w, t)
  BY <1>ct, <1>0, <1>2, <1>3, <1>4, <1>5, <1>6 DEF Touches
<1>12. BillInv'
  BY <1>1, <1>8, <1>9, <1>10, <1>11, OthersKept
<1> QED BY <1>ct, <1>11, <1>12

(* The steps of a bill: the funding source, the token, the quota column. *)
LEMMA FundBill ==
  ASSUME TaskTypes, BillInv, NEW w \in Workers,
         SubscriptionFunds(w) \/ WalletFunds(w) \/ taskAdjustTokenQuota(w) \/ UpdateQuota(w)
  PROVE  BillInv' /\ Touches(w, worker[w].task)
<1>ct. PICK c, t : c = worker[w] /\ t = worker[w].task
  OBVIOUS
<1>0. /\ c \in Copy /\ CopyOK(w) /\ CopyFresh(w) /\ BillOK(w) /\ Billing(w) /\ faults \in Nat
      /\ worker \in [Workers -> Copy]
  BY <1>ct DEF TaskTypes, BillInv, Billing, SubscriptionFunds, WalletFunds, taskAdjustTokenQuota, UpdateQuota
<1>1. /\ t \in Tasks /\ t \in Jobs /\ RowOK(t) /\ c.target # c.quota /\ c.target \in Nat /\ c.quota \in Nat
      /\ c.quota = JobOpening[t]
      /\ (task[t].status = "SUCCESS" /\ c.target > 0) \/ (task[t].status = "FAILURE" /\ c.target = 0)
  BY <1>ct, <1>0, TaskBounds DEF CopyOK, Billing, BillInv, BillOK, CopyFresh
<1>2. \A v \in Workers : v # w /\ Billing(v) => worker[v].task # t
  BY <1>ct, <1>0 DEF BillInv, OneBiller
<1>3. UNCHANGED task /\ (faults' = faults \/ faults' = faults + 1)
  BY DEF SubscriptionFunds, WalletFunds, taskAdjustTokenQuota, UpdateQuota, NoFault, Fault
<1>a. jobQuota \in [Jobs -> 0..MaxWalletQuota] /\ DOMAIN tokenPaid = Tasks
  BY DEF TaskTypes, LedgerTypeOK
<1>b. ASSUME NEW copy, Become(w, copy) PROVE worker'[w] = copy /\ \A v \in Workers : v # w => worker'[v] = worker[v]
  BY <1>0, <1>b DEF Become
<1>c. /\ Idle.pc = "idle"
      /\ \A pc \in {"token", "clear"} :
           /\ [c EXCEPT !.pc = pc].pc = pc /\ [c EXCEPT !.pc = pc].task = t
           /\ [c EXCEPT !.pc = pc].quota = c.quota /\ [c EXCEPT !.pc = pc].target = c.target
  BY <1>ct, <1>0, IdleIsCopy, NextCopy
<1>d. jobQuota[t] \in Nat /\ tokenPaid[t] \in Nat
  BY <1>1, <1>a, TaskBounds DEF RowOK
<1>4. ASSUME SubscriptionFunds(w) PROVE BillInv' /\ Touches(w, t)
  <2>1. /\ c.pc = "fund" /\ Subscribed(t) /\ UNCHANGED <<jobQuota, tokenPaid, faults>>
        /\ worker'[w] = [c EXCEPT !.pc = "token"] /\ \A v \in Workers : v # w => worker'[v] = worker[v]
    BY <1>ct, <1>4, <1>b DEF SubscriptionFunds, ledgerVars
  <2>2. /\ worker'[w].pc = "token" /\ worker'[w].task = t
        /\ worker'[w].quota = c.quota /\ worker'[w].target = c.target
    BY <1>c, <2>1
  <2>3. CopyFresh(w)' /\ BillOK(w)'
    BY <1>ct, <1>0, <1>1, <1>3, <2>1, <2>2 DEF CopyFresh, Copied, BillOK, Billing, Subscribed
  <2>4. RowOK(t)'
    BY <1>1, <1>3, <2>1, <2>2 DEF RowOK, NoBiller, Billing, Final
  <2>5. Touches(w, t)
    BY <1>ct, <1>0, <1>3, <2>1, <2>2 DEF Touches
  <2> QED BY <1>1, <1>2, <2>3, <2>4, <2>5, OthersKept
<1>5. ASSUME WalletFunds(w) PROVE BillInv' /\ Touches(w, t)
  <2>1. /\ c.pc = "fund" /\ ~Subscribed(t) /\ UNCHANGED <<tokenPaid, faults>>
        /\ jobQuota' = [jobQuota EXCEPT ![t] = c.target]
        /\ worker'[w] = [c EXCEPT !.pc = "token"] /\ \A v \in Workers : v # w => worker'[v] = worker[v]
    BY <1>ct, <1>5, <1>b DEF WalletFunds, AdjustJob
  <2>2. /\ worker'[w].pc = "token" /\ worker'[w].task = t
        /\ worker'[w].quota = c.quota /\ worker'[w].target = c.target
    BY <1>c, <2>1
  <2>3. jobQuota'[t] = c.target /\ \A u \in Tasks : u # t => jobQuota'[u] = jobQuota[u]
    BY <1>1, <1>a, <2>1, TaskBounds
  <2>4. CopyFresh(w)' /\ BillOK(w)'
    BY <1>ct, <1>0, <1>1, <1>3, <2>1, <2>2, <2>3 DEF CopyFresh, Copied, BillOK, Billing, Subscribed
  <2>5. RowOK(t)'
    BY <1>1, <1>3, <2>1, <2>2, <2>3 DEF RowOK, NoBiller, Billing, Final
  <2>6. Touches(w, t)
    BY <1>ct, <1>0, <1>3, <2>1, <2>2, <2>3 DEF Touches
  <2> QED BY <1>1, <1>2, <2>4, <2>5, <2>6, OthersKept
<1>6. ASSUME taskAdjustTokenQuota(w) PROVE BillInv' /\ Touches(w, t)
  <2>1. c.pc = "token" /\ UNCHANGED jobQuota
    BY <1>ct, <1>6 DEF taskAdjustTokenQuota, ledgerVars
  <2>2. tokenPaid[t] = c.quota /\ jobQuota[t] = IF Subscribed(t) THEN c.quota ELSE c.target
    BY <1>ct, <1>0, <2>1 DEF BillOK
  <2>3. \/ tokenPaid' = [tokenPaid EXCEPT ![t] = tokenPaid[t] + c.target - c.quota] /\ faults' = faults
        \/ tokenPaid' = tokenPaid /\ faults' = faults + 1
    BY <1>ct, <1>6 DEF taskAdjustTokenQuota, NoFault, Fault
  <2>4. /\ \A u \in Tasks : u # t => tokenPaid'[u] = tokenPaid[u]
        /\ \/ tokenPaid'[t] = c.target /\ faults' = faults
           \/ tokenPaid'[t] = tokenPaid[t] /\ faults' = faults + 1
    BY <1>1, <1>a, <2>2, <2>3
  <2>5. /\ worker'[w] = IF Subscribed(t) THEN [c EXCEPT !.pc = "clear"] ELSE Idle
        /\ \A v \in Workers : v # w => worker'[v] = worker[v]
    BY <1>ct, <1>6, <1>b DEF taskAdjustTokenQuota
  <2>6. /\ Subscribed(t) => /\ worker'[w].pc = "clear" /\ worker'[w].task = t
                            /\ worker'[w].quota = c.quota /\ worker'[w].target = c.target
        /\ ~Subscribed(t) => worker'[w].pc = "idle"
    BY <1>c, <2>5
  <2>7. CopyFresh(w)' /\ BillOK(w)'
    BY <1>0, <1>1, <1>3, <2>1, <2>2, <2>4, <2>6 DEF CopyFresh, Copied, BillOK, Billing, Subscribed
  <2>8. RowOK(t)'
    <3>1. ASSUME faults' = 0, NoBiller(t)' PROVE tokenPaid'[t] = jobQuota'[t]
      <4>1. ~Subscribed(t)
        BY <2>6, <3>1 DEF NoBiller, Billing
      <4> QED BY <1>0, <2>1, <2>2, <2>4, <3>1, <4>1
    <3>2. tokenPaid'[t] \in Nat
      BY <1>1, <1>d, <2>4
    <3> QED BY <1>1, <1>3, <2>1, <3>1, <3>2 DEF RowOK, Final
  <2>9. Touches(w, t)
    BY <1>ct, <1>0, <1>3, <2>1, <2>4, <2>5, <2>6 DEF Touches
  <2> QED BY <1>1, <1>2, <2>7, <2>8, <2>9, OthersKept
<1>7. ASSUME UpdateQuota(w) PROVE BillInv' /\ Touches(w, t)
  <2>1. c.pc = "clear" /\ UNCHANGED tokenPaid /\ worker'[w] = Idle /\ \A v \in Workers : v # w => worker'[v] = worker[v]
    BY <1>ct, <1>7, <1>b DEF UpdateQuota
  <2>2. \/ jobQuota' = [jobQuota EXCEPT ![t] = c.target] /\ faults' = faults
        \/ jobQuota' = jobQuota /\ faults' = faults + 1
    BY <1>ct, <1>7 DEF UpdateQuota, NoFault, Fault
  <2>3. /\ \A u \in Tasks : u # t => jobQuota'[u] = jobQuota[u]
        /\ \/ jobQuota'[t] = c.target /\ faults' = faults
           \/ jobQuota'[t] = jobQuota[t] /\ faults' = faults + 1
    BY <1>1, <1>a, <2>2, TaskBounds
  <2>4. CopyFresh(w)' /\ BillOK(w)'
    BY <1>c, <2>1 DEF CopyFresh, Copied, BillOK, Billing
  <2>5. faults = 0 => tokenPaid[t] = c.target
    BY <1>ct, <1>0, <2>1 DEF BillOK
  <2>6. RowOK(t)'
    <3>1. faults' = 0 => tokenPaid'[t] = jobQuota'[t]
      BY <1>0, <2>1, <2>3, <2>5
    <3>2. task[t].status = "SUCCESS" /\ JobOpening[t] > 0 => jobQuota'[t] > 0
      BY <1>1, <2>3 DEF RowOK
    <3> QED BY <1>1, <1>3, <2>1, <3>1, <3>2 DEF RowOK, Final
  <2>7. Touches(w, t)
    BY <1>ct, <1>0, <1>3, <1>c, <2>1, <2>3 DEF Touches
  <2> QED BY <1>1, <1>2, <2>4, <2>6, <2>7, OthersKept
<1> QED BY <1>ct, <1>4, <1>5, <1>6, <1>7

(* The charge, the token and the workers agree in every reachable state:   *)
(* what UpdateWithStatus and the later billing steps rely on.              *)
LEMMA BillInvariant ==
  ASSUME Roles \subseteq Plain
  PROVE  Spec => [](TaskTypes /\ BillInv)
<1>1. ASSUME TaskInit PROVE BillInv
  <2>1. \A w \in Workers : worker[w].pc = "idle"
    BY <1>1, IdleIsCopy DEF TaskInit
  <2>2. ASSUME NEW t \in Tasks PROVE RowOK(t)
    <3>1. task[t].status = "NONE" /\ jobQuota[t] = JobOpening[t] /\ tokenPaid[t] = JobOpening[t] /\ JobOpening[t] \in Nat
      BY <1>1, TaskBounds, JobOpeningAssumption DEF TaskInit, LedgerInit
    <3> QED BY <3>1 DEF RowOK
  <2> QED BY <2>1, <2>2 DEF BillInv, CopyFresh, Copied, BillOK, Billing, OneBiller
<1>2. ASSUME TaskTypes, BillInv, [Next]_vars PROVE BillInv'
  <2>1. CASE UNCHANGED vars
    BY <1>2, <2>1 DEF vars, ledgerVars, taskVars, BillInv, CopyFresh, Copied, BillOK, Billing, OneBiller, RowOK, NoBiller
  <2>2. ASSUME NEW w \in Workers PROVE ~FailWithoutChannel(w)
    BY <1>2 DEF FailWithoutChannel, Holds, TaskTypes, CopyOK, Plain
  <2> QED BY <1>2, <2>1, <2>2, AsyncCases, InsertBill, LoadBill, DropBill, WriteBill, FundBill DEF StepOf
<1>3. TaskTypes /\ BillInv /\ [Next]_vars => BillInv'
  BY <1>2
<1>4. TaskInit => BillInv
  BY <1>1
<1> QED BY TaskTyping, <1>3, <1>4, PTL DEF Spec

(* Rows, copies, events and tokens have their types, and no token is given *)
(* back more than it paid, although the calls to taskAdjustTokenQuota run  *)
(* in transactions of their own after the one that finished the task.      *)
THEOREM TaskTypesHold ==
  ASSUME Roles \subseteq Plain
  PROVE  Spec => []AsyncTypeOK
<1>1. TaskTypes /\ BillInv => AsyncTypeOK
  BY DEF TaskTypes, BillInv, RowOK, AsyncTypeOK
<1> QED BY <1>1, BillInvariant, PTL

(* A finished task is not moved again: UpdateWithStatus finds the row no   *)
(* longer in the status of the copy, whichever worker finished the task.   *)
THEOREM FinishedTaskStays ==
  ASSUME Roles \subseteq Plain
  PROVE  Spec => TerminalIsFinal
<1> DEFINE Stays == \A t \in Tasks : task[t].status \in Final => task'[t].status = task[t].status
<1>1. ASSUME TaskTypes, BillInv, [Next]_vars PROVE Stays
  <2>1. ASSUME UNCHANGED task PROVE Stays
    BY <2>1
  <2>2. ASSUME NEW t \in Tasks, task[t].status \notin Final, NEW to \in Running \cup Final, MoveTo(t, to) PROVE Stays
    BY <1>1, <2>2, MoveTypes
  <2>3. ASSUME NEW t \in Tasks, Insert(t) PROVE Stays
    BY <2>2, <2>3 DEF Insert, Running, Final
  <2>4. ASSUME NEW w \in Workers, NEW to \in Running \cup Final, NEW q, NEW next, Writes(w, to, q, next) PROVE Stays
    <3>1. worker[w].task \in Tasks /\ worker[w].status \in Running
      BY <1>1, <2>4 DEF Writes, Copied, TaskTypes, CopyOK, BillInv, CopyFresh
    <3> QED BY <2>2, <2>4, <3>1 DEF Writes, UpdateWithStatus, Running, Final
  <2>5. ASSUME NEW w \in Workers PROVE ~FailWithoutChannel(w)
    BY <1>1 DEF FailWithoutChannel, Holds, TaskTypes, CopyOK, Plain
  <2> QED
    BY AsyncCases, <1>1, <2>1, <2>3, <2>4, <2>5
    DEF vars, taskVars, StepOf, LoadTask, Drops, SubscriptionFunds, WalletFunds, taskAdjustTokenQuota, UpdateQuota
<1>2. TaskTypes /\ BillInv /\ [Next]_vars => [Stays]_vars
  BY <1>1
<1> QED BY <1>2, BillInvariant, PTL DEF Spec, TerminalIsFinal

-----------------------------------------------------------------------------
(* The quota column of a task against the journal: a subscription never    *)
(* posts entries, and the sweep clears the column of a legacy task only.   *)
ChargeOK(t) ==
    IF Subscribed(t) THEN Charged(t) = JobOpening[t]
    ELSE jobQuota[t] = Charged(t) \/ (t \in Legacy /\ Charged(t) = JobOpening[t])

ChargeInv == LedgerFinite /\ \A t \in Tasks : ChargeOK(t)

(* The charge of a task in the journal is a number, and an adjustment of   *)
(* a task changes the charge of that task by what it changes the column.   *)
LEMMA ChargedChange ==
  ASSUME LedgerTypeOK, LedgerFinite, NEW t \in Tasks, NEW target \in 0..MaxWalletQuota, AdjustJob(t, target), NEW u \in Tasks
  PROVE  /\ Charged(u) \in Int
         /\ Charged(u)' = Charged(u) + IF u = t THEN target - jobQuota[t] ELSE 0
<1> DEFINE o == Owner[t]
           q == target - jobQuota[t]
           key == <<"job", t, o, account[o].sequence + 1>>
<1>1. q \in Int /\ key[1] = "job" /\ key[2] = t /\ JobOpening[u] \in Int
  BY TaskBounds, JobOpeningAssumption DEF LedgerTypeOK
<1>2. appendBillingEntry(o, key, "task_adjustment", q, -q)
  BY DEF AdjustJob
<1>3. /\ SumFunction(Quotas(JobEntries(u))) \in Int
      /\ SumFunction(Quotas(JobEntries(u)')) = SumFunction(Quotas(JobEntries(u))) + IF t = u THEN q ELSE 0
  <2> HIDE DEF o, q, key
  <2> QED BY <1>1, <1>2, JobSum
<1>4. /\ Charged(u) = JobOpening[u] + SumFunction(Quotas(JobEntries(u)))
      /\ Charged(u)' = JobOpening[u] + SumFunction(Quotas(JobEntries(u)'))
  BY DEF Charged, Quotas
<1> QED BY <1>1, <1>3, <1>4

(* Every step keeps the quota columns and the journal together. *)
LEMMA ColumnStep ==
  ASSUME Roles \subseteq Plain, TaskTypes, BillInv, ChargeInv, [Next]_vars
  PROVE  ChargeInv'
<1>0. /\ LedgerTypeOK /\ LedgerFinite /\ jobQuota \in [Jobs -> 0..MaxWalletQuota] /\ Tasks \subseteq Jobs
      /\ \A t \in Tasks : ChargeOK(t) /\ RowOK(t)
  BY TaskBounds DEF TaskTypes, LedgerTypeOK, ChargeInv, BillInv
<1>1. ASSUME UNCHANGED <<entries, operation>> PROVE LedgerFinite' /\ \A t \in Tasks : Charged(t)' = Charged(t)
  BY <1>0, <1>1 DEF LedgerFinite, Charged, JobEntries
<1>2. ASSUME UNCHANGED <<entries, operation, jobQuota>> PROVE ChargeInv'
  BY <1>0, <1>1, <1>2 DEF ChargeInv, ChargeOK
<1>3. ASSUME NEW w \in Workers, NEW to \in Running \cup Final, NEW q, NEW next, Writes(w, to, q, next) PROVE ChargeInv'
  <2>1. PICK t : t = worker[w].task
    OBVIOUS
  <2>2. /\ t \in Tasks /\ task[t].status \in Running /\ worker[w].quota = JobOpening[t]
        /\ UNCHANGED <<entries, operation>> /\ jobQuota' = [jobQuota EXCEPT ![t] = q]
        /\ q = JobOpening[t] \/ t \in Legacy
    BY <1>3, <2>1 DEF Writes, Copied, TaskTypes, CopyOK, BillInv, CopyFresh, UpdateWithStatus, otherLedgerVars
  <2>3. jobQuota[t] = JobOpening[t]
    BY <1>0, <2>2 DEF RowOK, Running, Final
  <2>4. ASSUME NEW u \in Tasks PROVE ChargeOK(u)'
    <3>1. Charged(u)' = Charged(u) /\ ChargeOK(u)
      BY <1>0, <1>1, <2>2
    <3>2. CASE u = t
      <4>1. jobQuota'[t] = q
        BY <1>0, <2>2
      <4> QED BY <2>2, <2>3, <3>1, <3>2, <4>1 DEF ChargeOK
    <3>3. CASE u # t
      <4>1. jobQuota'[u] = jobQuota[u]
        BY <1>0, <2>2, <3>3
      <4> QED BY <3>1, <4>1 DEF ChargeOK
    <3> QED BY <3>2, <3>3
  <2> QED BY <1>1, <2>2, <2>4 DEF ChargeInv
<1>4. ASSUME NEW w \in Workers, WalletFunds(w) PROVE ChargeInv'
  <2>1. PICK t, target : t = worker[w].task /\ target = worker[w].target
    OBVIOUS
  <2>2. /\ t \in Tasks /\ target \in 0..MaxWalletQuota /\ target \in Int /\ AdjustJob(t, target)
        /\ jobQuota[t] = JobOpening[t] /\ jobQuota[t] \in Int /\ ~Subscribed(t)
    BY <1>0, <1>4, <2>1, TaskBounds DEF WalletFunds, TaskTypes, CopyOK, BillInv, CopyFresh
  <2>3. jobQuota' = [jobQuota EXCEPT ![t] = target] /\ operation' = operation
    BY <2>2 DEF AdjustJob
  <2>4. LedgerFinite'
    <3>1. \E e : entries' = entries \cup {e}
      BY <2>2, AppendedIsNew DEF AdjustJob
    <3> QED BY <1>0, <2>3, <3>1, FS_AddElement DEF LedgerFinite
  <2>5. ASSUME NEW u \in Tasks PROVE ChargeOK(u)'
    <3>1. Charged(u) \in Int /\ Charged(u)' = Charged(u) + IF u = t THEN target - jobQuota[t] ELSE 0
      BY <1>0, <2>2, ChargedChange
    <3>2. ChargeOK(u)
      BY <1>0
    <3>3. CASE u = t
      <4>1. jobQuota'[t] = target /\ Charged(t) = jobQuota[t]
        BY <1>0, <2>2, <2>3, <3>2, <3>3 DEF ChargeOK
      <4> QED BY <2>2, <3>1, <3>3, <4>1 DEF ChargeOK
    <3>4. CASE u # t
      <4>1. jobQuota'[u] = jobQuota[u] /\ Charged(u)' = Charged(u)
        BY <1>0, <2>3, <3>1, <3>4
      <4> QED BY <3>2, <4>1 DEF ChargeOK
    <3> QED BY <3>3, <3>4
  <2> QED BY <2>4, <2>5 DEF ChargeInv
<1>5. ASSUME NEW w \in Workers, UpdateQuota(w) PROVE ChargeInv'
  <2>1. PICK t : t = worker[w].task
    OBVIOUS
  <2>2. /\ Subscribed(t) /\ UNCHANGED <<entries, operation>>
        /\ \A u \in Tasks : u # t => jobQuota'[u] = jobQuota[u]
    BY <1>0, <1>5, <2>1 DEF UpdateQuota, BillInv, BillOK, otherLedgerVars
  <2>3. ASSUME NEW u \in Tasks PROVE ChargeOK(u)'
    BY <1>0, <1>1, <2>2 DEF ChargeOK, Subscribed
  <2> QED BY <1>1, <2>2, <2>3 DEF ChargeInv
<1>6. ASSUME NEW w \in Workers PROVE ~FailWithoutChannel(w)
  BY DEF FailWithoutChannel, Holds, TaskTypes, CopyOK, Plain
<1> QED
  BY AsyncCases, <1>2, <1>3, <1>4, <1>5, <1>6
  DEF vars, ledgerVars, StepOf, Insert, LoadTask, Drops, SubscriptionFunds, taskAdjustTokenQuota

(* The quota columns and the journal agree in every reachable state. *)
LEMMA ChargeInvariant ==
  ASSUME Roles \subseteq Plain
  PROVE  Spec => [](TaskTypes /\ BillInv /\ ChargeInv)
<1>1. ASSUME TaskInit PROVE ChargeInv
  <2>1. entries = {} /\ {o \in Ops : operation[o].state # "absent"} = {} /\ jobQuota = JobOpening
    BY <1>1 DEF TaskInit, LedgerInit
  <2>2. ASSUME NEW t \in Tasks PROVE Charged(t) = JobOpening[t]
    <3>1. SumFunction([e \in JobEntries(t) |-> e.quota]) = 0
      BY <2>1, SumEmpty DEF JobEntries
    <3> QED BY <3>1, TaskBounds, JobOpeningAssumption DEF Charged
  <2> QED BY <2>1, <2>2, FS_EmptySet DEF ChargeInv, LedgerFinite, ChargeOK
<1>2. TaskTypes /\ BillInv /\ ChargeInv /\ [Next]_vars => ChargeInv'
  BY ColumnStep
<1>3. TaskInit => ChargeInv
  BY <1>1
<1> QED BY BillInvariant, <1>2, <1>3, PTL DEF Spec

(* The quota column of a task paid from the wallet is what the journal     *)
(* says it was charged: no copy that a poll round, a sweep or a            *)
(* cancellation writes back resurrects a charge already given back.        *)
THEOREM TaskChargesReconcile ==
  ASSUME Roles \subseteq Plain
  PROVE  Spec => []TaskChargeReconciles
<1>1. ChargeInv => TaskChargeReconciles
  BY DEF ChargeInv, ChargeOK, TaskChargeReconciles
<1> QED BY <1>1, ChargeInvariant, PTL

(* No task is refunded more than it was charged, however many poll rounds, *)
(* sweeps and cancellations overlap and wherever nodes stop.  With         *)
(* dashboard reads (tryRealtimeFetch) this does not hold.                  *)
THEOREM RefundedOnce ==
  ASSUME Roles \subseteq Plain
  PROVE  Spec => []NeverRefundedTwice
<1>1. ASSUME TaskTypes, ChargeInv, NEW t \in Tasks PROVE Charged(t) >= 0
  <2>1. JobOpening[t] \in 0..MaxWalletQuota /\ jobQuota[t] \in 0..MaxWalletQuota
    BY <1>1, TaskBounds, JobOpeningAssumption DEF TaskTypes, LedgerTypeOK
  <2>2. Charged(t) \in {JobOpening[t], jobQuota[t]}
    BY <1>1 DEF ChargeInv, ChargeOK
  <2> QED BY <2>1, <2>2, TaskBounds
<1>2. TaskTypes /\ ChargeInv => NeverRefundedTwice
  BY <1>1 DEF NeverRefundedTwice
<1> QED BY <1>2, ChargeInvariant, PTL

-----------------------------------------------------------------------------
(* Refunds are never refused.                                              *)

WalletTasks(u) == {t \in Tasks : Owner[t] = u /\ ~Subscribed(t)}
FirstCharges(u) == SumFunction([t \in WalletTasks(u) |-> JobOpening[t]])
ChargesOf(u) == SumFunction([t \in WalletTasks(u) |-> jobQuota[t]])

(* The tasks were paid from wallets that were within the quota boundary    *)
(* before, and from subscriptions that were within their totals after.     *)
RefundsFit ==
    /\ \A u \in Users : Opening[u] + FirstCharges(u) <= MaxWalletQuota
    /\ \A s \in Subs : SubTotal[s] = 0 \/ SumFunctionOnSet(JobOpening, TasksOf(s)) <= SubTotal[s]

RoomOK(s) ==
    /\ subscription[s].used \in Nat /\ subscription[s].status = "active"
    /\ SubTotal[s] = 0 \/ subscription[s].used <= SubTotal[s]

RoomInv ==
    /\ \A u \in Users : quota[u] + ChargesOf(u) <= MaxWalletQuota
    /\ subscription \in [Subs -> SubscriptionRow]
    /\ \A s \in Subs : RoomOK(s)

FreeOK(t) == task[t].status = "FAILURE" /\ faults = 0 /\ NoBiller(t) => jobQuota[t] = 0
FreeInv == \A t \in Tasks : FreeOK(t)

(* What the tasks of a customer cost together is a number, no less than    *)
(* what one of them costs, and follows the quota columns.                  *)
LEMMA ChargesChange ==
  ASSUME LedgerTypeOK, NEW t \in Tasks, NEW q \in 0..MaxWalletQuota, jobQuota' = [jobQuota EXCEPT ![t] = q], NEW u
  PROVE  /\ ChargesOf(u) \in Nat
         /\ ChargesOf(u)' = ChargesOf(u) + IF t \in WalletTasks(u) THEN q - jobQuota[t] ELSE 0
<1>1. PICK f, h : f = [x \in WalletTasks(u) |-> jobQuota[x]] /\ h = [x \in WalletTasks(u) |-> jobQuota'[x]]
  OBVIOUS
<1>2. IsFiniteSet(WalletTasks(u)) /\ WalletTasks(u) \subseteq Jobs
  BY TaskAssumption, TaskBounds, FS_Subset DEF WalletTasks
<1>3. /\ \A x \in WalletTasks(u) : f[x] \in Nat /\ h[x] \in Nat /\ (x # t => h[x] = f[x])
      /\ DOMAIN f = WalletTasks(u) /\ DOMAIN h = WalletTasks(u)
      /\ t \in WalletTasks(u) => f[t] = jobQuota[t] /\ h[t] = q
  BY <1>1, <1>2, TaskBounds DEF LedgerTypeOK
<1>4. ChargesOf(u) = SumFunction(f) /\ ChargesOf(u)' = SumFunction(h)
  <2>1. WalletTasks(u)' = WalletTasks(u)
    BY DEF WalletTasks, Subscribed
  <2> QED BY <1>1, <2>1 DEF ChargesOf
<1>5. SumFunction(f) \in Nat
  BY <1>2, <1>3, SumNat
<1>6. CASE t \in WalletTasks(u)
  <2>1. OneOther(f, h, t)
    BY <1>2, <1>3, <1>6 DEF OneOther
  <2>2. SumFunction(h) = SumFunction(f) + h[t] - f[t]
    BY <2>1, SumChange, Zenon
  <2> QED BY <1>3, <1>4, <1>5, <1>6, <2>2
<1>7. CASE t \notin WalletTasks(u)
  <2>1. f = h
    BY <1>1, <1>3, <1>7
  <2> QED BY <1>4, <1>5, <1>7, <2>1
<1> QED BY <1>6, <1>7

(* A task costs no more than the tasks of its customer together. *)
LEMMA ChargeWithin ==
  ASSUME LedgerTypeOK, NEW u, NEW t \in WalletTasks(u)
  PROVE  jobQuota[t] <= ChargesOf(u) /\ ChargesOf(u) \in Nat
<1>1. PICK f : f = [x \in WalletTasks(u) |-> jobQuota[x]]
  OBVIOUS
<1>2. IsFiniteSet(WalletTasks(u)) /\ WalletTasks(u) \subseteq Jobs
  BY TaskAssumption, TaskBounds, FS_Subset DEF WalletTasks
<1>3. DOMAIN f = WalletTasks(u) /\ f[t] = jobQuota[t] /\ \A x \in WalletTasks(u) : f[x] \in Nat
  BY <1>1, <1>2, TaskBounds DEF LedgerTypeOK
<1>4. f[t] <= SumFunction(f) /\ SumFunction(f) \in Nat
  BY <1>2, <1>3, SumAtLeast
<1> QED BY <1>1, <1>3, <1>4 DEF ChargesOf

(* Every step leaves room for the refunds still to come. *)
LEMMA RoomStep ==
  ASSUME Roles \subseteq Plain, TaskTypes, BillInv, RoomInv, [Next]_vars
  PROVE  RoomInv'
<1>0. /\ LedgerTypeOK /\ quota \in [Users -> Balances] /\ jobQuota \in [Jobs -> 0..MaxWalletQuota]
      /\ Tasks \subseteq Jobs /\ MaxWalletQuota \in Nat
      /\ \A u \in Users : quota[u] + ChargesOf(u) <= MaxWalletQuota /\ quota[u] \in Int
  BY TaskBounds DEF TaskTypes, LedgerTypeOK, RoomInv, Balances
<1>1. ASSUME UNCHANGED subscription, \A u \in Users : (quota[u] + ChargesOf(u) <= MaxWalletQuota)' PROVE RoomInv'
  BY <1>1 DEF RoomInv, RoomOK
<1>2. ASSUME UNCHANGED <<quota, jobQuota, subscription>> PROVE RoomInv'
  BY <1>0, <1>1, <1>2 DEF ChargesOf, WalletTasks, Subscribed
<1>3. ASSUME NEW w \in Workers, NEW to \in Running \cup Final, NEW q, NEW next, Writes(w, to, q, next) PROVE RoomInv'
  <2>1. PICK t : t = worker[w].task
    OBVIOUS
  <2>2. /\ t \in Tasks /\ task[t].status \in Running /\ worker[w].quota = JobOpening[t] /\ worker[w].quota \in 0..MaxWalletQuota
        /\ UNCHANGED <<quota, subscription>> /\ jobQuota' = [jobQuota EXCEPT ![t] = q]
        /\ q = JobOpening[t] \/ q = 0
    BY <1>3, <2>1
       DEF Writes, Copied, TaskTypes, CopyOK, BillInv, CopyFresh, UpdateWithStatus, otherLedgerVars, fundingVars
  <2>3. jobQuota[t] = JobOpening[t] /\ q \in 0..MaxWalletQuota /\ q <= jobQuota[t] /\ jobQuota[t] \in Int
    BY <1>0, <2>2 DEF BillInv, RowOK, Running, Final
  <2>4. ASSUME NEW u \in Users PROVE quota'[u] + ChargesOf(u)' <= MaxWalletQuota
    <3>1. /\ ChargesOf(u) \in Nat
          /\ ChargesOf(u)' = ChargesOf(u) + IF t \in WalletTasks(u) THEN q - jobQuota[t] ELSE 0
      BY <1>0, <2>2, <2>3, ChargesChange
    <3> QED BY <1>0, <2>2, <2>3, <3>1
  <2> QED BY <1>1, <2>2, <2>4
<1>4. ASSUME NEW w \in Workers, WalletFunds(w) PROVE RoomInv'
  <2>1. PICK t, target : t = worker[w].task /\ target = worker[w].target
    OBVIOUS
  <2>2. /\ t \in Tasks /\ target \in 0..MaxWalletQuota /\ AdjustJob(t, target) /\ UNCHANGED subscription /\ ~Subscribed(t)
    BY <1>4, <2>1 DEF WalletFunds, TaskTypes, CopyOK, fundingVars
  <2>b. jobQuota' = [jobQuota EXCEPT ![t] = target]
    BY <2>2 DEF AdjustJob
  <2>c. Owner[t] \in Users /\ t \in Jobs
    BY <1>0, <2>2, OwnerAssumption
  <2>3. jobQuota' = [jobQuota EXCEPT ![t] = target] /\ Owner[t] \in Users /\ jobQuota[t] \in Int /\ target \in Int
    BY <1>0, <2>2, <2>b, <2>c
  <2>a. quota' = [quota EXCEPT ![Owner[t]] = quota[Owner[t]] + (-(target - jobQuota[t]))]
    BY <2>2 DEF AdjustJob, changeBillingWallet
  <2>4. ASSUME NEW u \in Users PROVE quota'[u] + ChargesOf(u)' <= MaxWalletQuota
    <3>1. /\ ChargesOf(u) \in Nat
          /\ ChargesOf(u)' = ChargesOf(u) + IF t \in WalletTasks(u) THEN target - jobQuota[t] ELSE 0
      BY <1>0, <2>2, <2>3, ChargesChange
    <3>2. t \in WalletTasks(u) <=> Owner[t] = u
      BY <2>2 DEF WalletTasks
    <3>3. quota'[u] = IF Owner[t] = u THEN quota[u] - (target - jobQuota[t]) ELSE quota[u]
      BY <1>0, <2>3, <2>a
    <3> QED BY <1>0, <2>3, <3>1, <3>2, <3>3
  <2> QED BY <1>1, <2>2, <2>4
<1>5. ASSUME NEW w \in Workers, UpdateQuota(w) PROVE RoomInv'
  <2>1. PICK t : t = worker[w].task
    OBVIOUS
  <2>2. /\ Subscribed(t) /\ UNCHANGED <<quota, subscription>>
        /\ \A x \in Tasks : x # t => jobQuota'[x] = jobQuota[x]
    BY <1>0, <1>5, <2>1 DEF UpdateQuota, BillInv, BillOK, otherLedgerVars, fundingVars
  <2>3. ASSUME NEW u \in Users PROVE ChargesOf(u)' = ChargesOf(u)
    <3>1. \A x \in WalletTasks(u) : jobQuota'[x] = jobQuota[x]
      BY <2>2 DEF WalletTasks
    <3>2. [x \in WalletTasks(u) |-> jobQuota'[x]] = [x \in WalletTasks(u) |-> jobQuota[x]]
      BY <3>1
    <3>3. WalletTasks(u)' = WalletTasks(u)
      BY DEF WalletTasks, Subscribed
    <3> QED BY <3>2, <3>3 DEF ChargesOf
  <2> QED BY <1>0, <1>1, <2>2, <2>3
<1>6. ASSUME NEW w \in Workers, SubscriptionFunds(w) PROVE RoomInv'
  <2>1. PICK s, delta : s = SubTask[worker[w].task] /\ delta = worker[w].target - worker[w].quota
    OBVIOUS
  <2>2. /\ s \in Subs /\ delta \in Int /\ UNCHANGED <<quota, jobQuota>>
        /\ PostConsumeUserSubscriptionDelta(s, delta)
    BY <1>0, <1>6, <2>1, FundingAssumption DEF SubscriptionFunds, TaskTypes, CopyOK, ledgerVars, Subscribed
  <2>3. subscription' = [subscription EXCEPT ![s].used = UsedAfter(s, delta)] /\ DeltaAllowed(s, delta)
    BY <2>2 DEF PostConsumeUserSubscriptionDelta
  <2>4. subscription \in [Subs -> SubscriptionRow] /\ \A x \in Subs : RoomOK(x) /\ SubTotal[x] \in Nat
    BY FundingAssumption DEF RoomInv
  <2>5. UsedAfter(s, delta) \in Nat /\ (SubTotal[s] = 0 \/ UsedAfter(s, delta) <= SubTotal[s])
    BY <2>2, <2>3, <2>4 DEF UsedAfter, DeltaAllowed, RoomOK
  <2>6. subscription' \in [Subs -> SubscriptionRow]
    BY <2>2, <2>3, <2>4, <2>5 DEF SubscriptionRow
  <2>7. ASSUME NEW x \in Subs PROVE RoomOK(x)'
    <3>1. CASE x = s
      <4>1. subscription'[s].used = UsedAfter(s, delta) /\ subscription'[s].status = subscription[s].status
        BY <2>2, <2>3, <2>4 DEF SubscriptionRow
      <4> QED BY <2>4, <2>5, <3>1, <4>1 DEF RoomOK
    <3>2. CASE x # s
      BY <2>3, <2>4, <3>2 DEF RoomOK
    <3> QED BY <3>1, <3>2
  <2>8. \A u \in Users : (quota[u] + ChargesOf(u) <= MaxWalletQuota)'
    BY <1>0, <2>2 DEF ChargesOf, WalletTasks, Subscribed
  <2> QED BY <2>6, <2>7, <2>8 DEF RoomInv
<1>7. ASSUME NEW w \in Workers PROVE ~FailWithoutChannel(w)
  BY DEF FailWithoutChannel, Holds, TaskTypes, CopyOK, Plain
<1> QED
  BY AsyncCases, <1>2, <1>3, <1>4, <1>5, <1>6, <1>7
  DEF vars, ledgerVars, fundingVars, StepOf, Insert, LoadTask, Drops, taskAdjustTokenQuota

(* A refund is not refused: the wallet and the subscription have room. *)
LEMMA RefundAccepted ==
  ASSUME TaskTypes, BillInv, RoomInv, NEW w \in Workers, worker[w].target = 0
  PROVE  ~Refused(w)
<1> SUFFICES ASSUME Refused(w) PROVE FALSE
  OBVIOUS
<1>1. PICK c, t : c = worker[w] /\ t = worker[w].task
  OBVIOUS
<1>2. /\ c.pc = "fund" /\ t \in Tasks /\ t \in Jobs /\ jobQuota[t] = c.quota /\ c.quota # 0 /\ c.target = 0
      /\ c.quota \in 0..MaxWalletQuota /\ MaxWalletQuota \in Nat
  BY <1>1, TaskBounds DEF Refused, TaskTypes, CopyOK, BillInv, BillOK, Billing
<1>3. CASE Subscribed(t)
  <2>1. ~DeltaAllowed(SubTask[t], 0 - c.quota)
    BY <1>1, <1>2, <1>3 DEF Refused
  <2>2. SubTask[t] \in Subs /\ RoomOK(SubTask[t]) /\ SubTotal[SubTask[t]] \in Nat
    BY <1>3, FundingAssumption DEF RoomInv, Subscribed
  <2> QED BY <1>2, <2>1, <2>2 DEF DeltaAllowed, RoomOK
<1>4. CASE ~Subscribed(t)
  <2>1. ~WalletFits(Owner[t], c.quota - 0)
    BY <1>1, <1>2, <1>4 DEF Refused, AdjustRefused
  <2>2. Owner[t] \in Users /\ t \in WalletTasks(Owner[t])
    BY <1>2, <1>4, OwnerAssumption DEF WalletTasks
  <2>3. c.quota <= ChargesOf(Owner[t]) /\ ChargesOf(Owner[t]) \in Nat
    BY <1>2, <2>2, ChargeWithin DEF TaskTypes
  <2>4. quota[Owner[t]] \in Balances /\ quota[Owner[t]] + ChargesOf(Owner[t]) <= MaxWalletQuota
    BY <2>2 DEF TaskTypes, LedgerTypeOK, RoomInv
  <2> QED BY <1>2, <2>1, <2>3, <2>4 DEF WalletFits, Balances
<1> QED BY <1>3, <1>4

(* A step that touches a task leaves what failed tasks cost otherwise. *)
LEMMA FreeOthers ==
  ASSUME FreeInv, NEW w \in Workers, NEW t \in Tasks, Touches(w, t), FreeOK(t)'
  PROVE  FreeInv'
<1> SUFFICES ASSUME NEW u \in Tasks, u # t PROVE FreeOK(u)'
  BY DEF FreeInv
<1>1. task'[u] = task[u] /\ jobQuota'[u] = jobQuota[u] /\ (faults' = 0 => faults = 0)
  BY DEF Touches
<1>2. NoBiller(u)' => NoBiller(u)
  BY DEF Touches, NoBiller, Billing
<1> QED BY <1>1, <1>2 DEF FreeInv, FreeOK

(* Every step keeps failed tasks free. *)
LEMMA FreeStep ==
  ASSUME Roles \subseteq Plain, TaskTypes, BillInv, RoomInv, FreeInv, [Next]_vars
  PROVE  FreeInv'
<1>1. CASE UNCHANGED vars
  BY <1>1 DEF vars, ledgerVars, taskVars, FreeInv, FreeOK, NoBiller, Billing
<1>2. ASSUME NEW t \in Tasks, Insert(t) PROVE FreeInv'
  <2>1. MoveTo(t, "SUBMITTED") /\ "SUBMITTED" \in Running \cup Final /\ UNCHANGED <<jobQuota, worker, faults>>
    BY <1>2 DEF Insert, Running, ledgerVars
  <2>2. task'[t].status = "SUBMITTED" /\ \A u \in Tasks : u # t => task'[u] = task[u]
    BY <2>1, MoveTypes
  <2> QED BY <2>1, <2>2 DEF FreeInv, FreeOK, NoBiller, Billing
<1>3. ASSUME NEW w \in Workers, NEW t \in Tasks, NEW role \in AllRoles, LoadTask(w, t, role) PROVE FreeInv'
  <2>1. Touches(w, t) /\ task[t].status \in Running /\ UNCHANGED task
    BY <1>3, LoadBill DEF LoadTask, Plain
  <2>2. FreeOK(t)'
    BY <2>1 DEF FreeOK, Running
  <2> QED BY <2>1, <2>2, FreeOthers
<1>4. ASSUME NEW w \in Workers, Drops(w) PROVE FreeInv'
  <2>1. PICK t : t = worker[w].task
    OBVIOUS
  <2>2. /\ t \in Tasks /\ Touches(w, t) /\ UNCHANGED <<task, jobQuota>> /\ (faults' = 0 => faults = 0 /\ faults' = faults)
        /\ worker[w].pc # "idle" /\ (Billing(w) /\ faults' = faults => Refused(w)) /\ BillOK(w)
    BY <1>4, <2>1, DropBill DEF Drops, TaskTypes, CopyOK, BillInv, ledgerVars
  <2>3. ASSUME task[t].status = "FAILURE", faults' = 0, NoBiller(t)' PROVE jobQuota[t] = 0
    <3>1. ~Billing(w)
      BY <2>1, <2>2, <2>3, RefundAccepted DEF BillOK
    <3>2. NoBiller(t)
      BY <2>2, <2>3, <3>1 DEF Touches, NoBiller, Billing
    <3> QED BY <2>2, <2>3, <3>2 DEF FreeInv, FreeOK
  <2>4. FreeOK(t)'
    BY <2>2, <2>3 DEF FreeOK
  <2> QED BY <2>2, <2>4, FreeOthers
<1>5. ASSUME NEW w \in Workers, NEW to \in Running \cup Final, NEW q, NEW next, Writes(w, to, q, next) PROVE FreeInv'
  <2>1. PICK t : t = worker[w].task
    OBVIOUS
  <2>2. t \in Tasks /\ Touches(w, t) /\ worker[w].role # "read"
    BY <1>5, <2>1, WriteBill DEF Writes, Copied, TaskTypes, CopyOK, Plain
  <2>3. /\ MoveTo(t, to) /\ jobQuota' = [jobQuota EXCEPT ![t] = q] /\ worker' = [worker EXCEPT ![w] = next]
        /\ Copied(w) /\ GoesOn(worker[w], to, q, next)
        /\ faults' = faults \/ faults' = faults + 1
        /\ to = "FAILURE" /\ next = Idle /\ faults' = faults => q = 0 \/ worker[w].role = "read"
    BY <1>5, <2>1 DEF Writes, UpdateWithStatus, Become
  <2>4. task'[t].status = to /\ jobQuota'[t] = q /\ worker'[w] = next
    BY <2>2, <2>3, MoveTypes, TaskBounds DEF TaskTypes, LedgerTypeOK
  <2>5. next = Idle \/ (next.pc = "fund" /\ next.task = t)
    <3>1. Copied(w) /\ GoesOn(worker[w], to, q, next)
      BY <2>3
    <3>2. next.pc \in {"idle", "fund"}
      BY <3>1, WinnerCopy, Zenon
    <3>3. next.pc = "idle" <=> next = Idle
      BY <3>1, WinnerCopy, Zenon
    <3>4. next.pc = "fund" => next.task = worker[w].task
      BY <3>1, WinnerCopy, SMTT(30)
    <3> QED BY <2>1, <3>2, <3>3, <3>4
  <2>6. ASSUME faults' = 0, NoBiller(t)', to = "FAILURE" PROVE q = 0
    <3>1. next = Idle
      BY <2>4, <2>5, <2>6 DEF NoBiller, Billing
    <3>2. faults' = faults
      BY <2>3, <2>6 DEF TaskTypes
    <3> QED BY <2>2, <2>3, <2>6, <3>1, <3>2
  <2>7. FreeOK(t)'
    BY <2>4, <2>6 DEF FreeOK
  <2> QED BY <2>2, <2>7, FreeOthers
<1>6. ASSUME NEW w \in Workers,
             SubscriptionFunds(w) \/ WalletFunds(w) \/ taskAdjustTokenQuota(w) \/ UpdateQuota(w)
      PROVE  FreeInv'
  <2>1. PICK c, t : c = worker[w] /\ t = worker[w].task
    OBVIOUS
  <2>2. /\ Touches(w, t) /\ Billing(w) /\ BillOK(w) /\ t \in Tasks /\ c \in Copy /\ UNCHANGED task
    BY <1>6, <2>1, FundBill
       DEF TaskTypes, CopyOK, BillInv, Billing, SubscriptionFunds, WalletFunds, taskAdjustTokenQuota, UpdateQuota
  <2>3. task[t].status = "FAILURE" => c.target = 0
    BY <2>1, <2>2 DEF BillOK
  <2>4. ASSUME NEW pc \in {"token", "clear"}, Become(w, [c EXCEPT !.pc = pc]) PROVE ~NoBiller(t)'
    <3>1. worker'[w] = [c EXCEPT !.pc = pc]
      BY <2>4 DEF Become, TaskTypes
    <3>2. worker'[w].pc = pc /\ worker'[w].task = t
      BY <2>1, <2>2, <3>1, NextCopy
    <3> QED BY <3>2 DEF NoBiller, Billing
  <2>5. ASSUME faults' = 0, NoBiller(t)', task[t].status = "FAILURE" PROVE jobQuota'[t] = 0
    <3>1. ~SubscriptionFunds(w) /\ ~WalletFunds(w)
      BY <2>1, <2>4, <2>5 DEF SubscriptionFunds, WalletFunds
    <3>2. CASE taskAdjustTokenQuota(w)
      <4>1. ~Subscribed(t) /\ c.pc = "token" /\ UNCHANGED jobQuota
        BY <2>1, <2>4, <2>5, <3>2 DEF taskAdjustTokenQuota, ledgerVars
      <4> QED BY <2>1, <2>2, <2>3, <2>5, <4>1 DEF BillOK
    <3>3. CASE UpdateQuota(w)
      <4>1. jobQuota' = [jobQuota EXCEPT ![t] = c.target] \/ faults' = faults + 1
        BY <2>1, <3>3 DEF UpdateQuota, Fault
      <4> QED BY <2>2, <2>3, <2>5, <4>1, TaskBounds DEF TaskTypes, LedgerTypeOK
    <3> QED BY <1>6, <3>1, <3>2, <3>3
  <2>6. FreeOK(t)'
    BY <2>2, <2>5 DEF FreeOK
  <2> QED BY <2>2, <2>6, FreeOthers
<1>7. ASSUME NEW w \in Workers PROVE ~FailWithoutChannel(w)
  BY DEF FailWithoutChannel, Holds, TaskTypes, CopyOK, Plain
<1> QED BY AsyncCases, <1>1, <1>2, <1>3, <1>4, <1>5, <1>6, <1>7 DEF StepOf

(* Refunds are accepted and failed tasks are free in every reachable state. *)
LEMMA FreeInvariant ==
  ASSUME Roles \subseteq Plain, RefundsFit
  PROVE  Spec => [](TaskTypes /\ BillInv /\ RoomInv /\ FreeInv)
<1>1. ASSUME TaskInit PROVE FreeInv
  BY <1>1 DEF TaskInit, FreeInv, FreeOK
<1>2. ASSUME TaskInit PROVE RoomInv
  <2>1. quota = Opening /\ jobQuota = JobOpening
    BY <1>2 DEF TaskInit, LedgerInit
  <2>2. ASSUME NEW u \in Users PROVE quota[u] + ChargesOf(u) <= MaxWalletQuota
    BY <2>1 DEF RefundsFit, FirstCharges, ChargesOf
  <2>3. ASSUME NEW s \in Subs PROVE RoomOK(s) /\ subscription[s] \in SubscriptionRow
    <3>1. PICK h : h = [t \in TasksOf(s) |-> JobOpening[t]]
      OBVIOUS
    <3>2. TasksOf(s) \subseteq Jobs /\ IsFiniteSet(TasksOf(s))
      BY TaskAssumption, FundingAssumption, TaskBounds, FS_Subset DEF TasksOf
    <3>3. DOMAIN h = TasksOf(s) /\ \A t \in TasksOf(s) : h[t] = JobOpening[t] /\ h[t] \in Nat /\ JobOpening[t] \in Int
      BY <3>1, <3>2, JobOpeningAssumption, TaskBounds
    <3>4. SumFunction(h) \in Nat
      BY <3>2, <3>3, SumNat
    <3>5. SumFunctionOnSet(JobOpening, DOMAIN h) = SumFunction(h)
      BY <3>2, <3>3, SumOnSet
    <3>6. subscription[s] = [used |-> SumFunction(h), due |-> FALSE, status |-> "active"]
      BY <1>2, <3>3, <3>5 DEF TaskInit
    <3>7. SubTotal[s] = 0 \/ SumFunction(h) <= SubTotal[s]
      BY <3>3, <3>5 DEF RefundsFit
    <3>8. subscription[s].used = SumFunction(h) /\ subscription[s].status = "active"
      BY <3>6
    <3>9. subscription[s] \in SubscriptionRow
      BY <3>4, <3>6 DEF SubscriptionRow
    <3> QED BY <3>4, <3>7, <3>8, <3>9 DEF RoomOK
  <2>4. subscription \in [Subs -> SubscriptionRow]
    <3>1. subscription = [s \in Subs |-> subscription[s]]
      BY <1>2 DEF TaskInit
    <3> QED BY <2>3, <3>1
  <2> QED BY <2>2, <2>3, <2>4 DEF RoomInv
<1>3. TaskTypes /\ BillInv /\ RoomInv /\ FreeInv /\ [Next]_vars => RoomInv' /\ FreeInv'
  BY RoomStep, FreeStep
<1>4. TaskInit => RoomInv /\ FreeInv
  BY <1>1, <1>2
<1> QED BY BillInvariant, <1>3, <1>4, PTL DEF Spec

(* Once nobody works on a task, it costs nothing if it failed (and no call *)
(* failed on the way), and it is not free if it succeeded: the winner of   *)
(* the transition bills it, nobody else does, and no refund is refused.    *)
THEOREM ChargesMatchOutcomes ==
  ASSUME Roles \subseteq Plain, RefundsFit
  PROVE  Spec => []ChargeMatchesOutcome
<1>1. ASSUME TaskTypes, BillInv, FreeInv, NEW t \in Tasks, Quiet(t)
      PROVE  /\ task[t].status = "FAILURE" /\ faults = 0 => jobQuota[t] = 0
             /\ task[t].status = "SUCCESS" /\ JobOpening[t] > 0 => jobQuota[t] > 0
  <2>1. NoBiller(t) /\ RowOK(t) /\ FreeOK(t)
    BY <1>1 DEF Quiet, NoBiller, BillInv, FreeInv
  <2> QED BY <2>1 DEF RowOK, FreeOK
<1>2. TaskTypes /\ BillInv /\ FreeInv => ChargeMatchesOutcome
  BY <1>1 DEF ChargeMatchesOutcome
<1> QED BY <1>2, FreeInvariant, PTL

-----------------------------------------------------------------------------
(* What a subscription has been used for.                                  *)

(* The worker has already changed the counter of the subscription. *)
Funded(w, t) == worker[w].pc \in {"token", "clear"} /\ worker[w].task = t

(* f tells what the subscription was charged for each of its tasks. *)
Shares(f, s) ==
    /\ subscription[s].used = SumFunction(f)
    /\ \A t \in TasksOf(s) :
         /\ \A w \in Workers : Funded(w, t) => f[t] = worker[w].target
         /\ (\A w \in Workers : ~Funded(w, t)) => f[t] = jobQuota[t]

Clean(s) == faults = 0 /\ \A t \in TasksOf(s) : t \notin Legacy
ShareOK(s) == Clean(s) => \E f \in [TasksOf(s) -> Nat] : Shares(f, s)
ShareInv == \A s \in Subs : ShareOK(s)

(* The tasks of a subscription are finitely many jobs. *)
LEMMA TasksOfFacts ==
  ASSUME NEW s
  PROVE  IsFiniteSet(TasksOf(s)) /\ TasksOf(s) \subseteq Tasks /\ TasksOf(s) \subseteq Jobs
BY TaskAssumption, FundingAssumption, TaskBounds, FS_Subset DEF TasksOf

(* A step that charges no subscription and leaves, of the tasks of s, the  *)
(* columns and the workers that have changed its counter.                  *)
LEMMA SharesKept ==
  ASSUME NEW s \in Subs, ShareOK(s), subscription'[s] = subscription[s], Clean(s)' => Clean(s),
         \A t \in TasksOf(s) : Clean(s)' => jobQuota'[t] = jobQuota[t],
         \A t \in TasksOf(s), w \in Workers :
            Clean(s)' => Funded(w, t)' = Funded(w, t) /\ (Funded(w, t) => worker'[w].target = worker[w].target)
  PROVE  ShareOK(s)'
<1> SUFFICES ASSUME Clean(s)' PROVE \E f \in [TasksOf(s) -> Nat] : Shares(f, s)'
  BY DEF ShareOK, TasksOf
<1>1. PICK f \in [TasksOf(s) -> Nat] : Shares(f, s)
  BY DEF ShareOK
<1>2. Shares(f, s)'
  BY <1>1 DEF Shares, TasksOf
<1> QED BY <1>1, <1>2

(* Every step of a worker keeps the account of what was charged. *)
LEMMA ShareStep ==
  ASSUME Roles \subseteq Plain, TaskTypes, BillInv, RoomInv, ShareInv, [Next]_vars, NEW s \in Subs
  PROVE  ShareOK(s)'
<1>0. /\ ShareOK(s) /\ jobQuota \in [Jobs -> 0..MaxWalletQuota] /\ faults \in Nat /\ worker \in [Workers -> Copy]
      /\ TasksOf(s) \subseteq Tasks /\ TasksOf(s) \subseteq Jobs /\ \A t \in TasksOf(s) : Subscribed(t) /\ SubTask[t] = s
  BY TasksOfFacts DEF ShareInv, TaskTypes, LedgerTypeOK, TasksOf, Subscribed
<1>1. ASSUME faults' = faults \/ faults' = faults + 1 PROVE Clean(s)' => Clean(s) /\ faults' = faults
  BY <1>0, <1>1 DEF Clean, TasksOf
<1>2. CASE UNCHANGED <<subscription, jobQuota, worker, faults>>
  BY <1>0, <1>1, <1>2, SharesKept DEF Funded
<1>3. ASSUME NEW w \in Workers, worker' = [worker EXCEPT ![w] = worker'[w]], UNCHANGED subscription,
             worker[w].pc \notin {"token", "clear"}, worker'[w].pc \notin {"token", "clear"},
             faults' = faults \/ faults' = faults + 1,
             \A t \in TasksOf(s) : Clean(s)' => jobQuota'[t] = jobQuota[t]
      PROVE  ShareOK(s)'
  <2>1. \A v \in Workers : v # w => worker'[v] = worker[v]
    BY <1>0, <1>3
  <2>2. \A t \in TasksOf(s), v \in Workers :
          Clean(s)' => Funded(v, t)' = Funded(v, t) /\ (Funded(v, t) => worker'[v].target = worker[v].target)
    BY <1>3, <2>1 DEF Funded
  <2> QED BY <1>0, <1>1, <1>3, <2>2, SharesKept
<1>4. ASSUME NEW w \in Workers, NEW t \in Tasks, NEW role \in AllRoles, LoadTask(w, t, role) PROVE ShareOK(s)'
  <2> DEFINE copy == [pc |-> "copied", role |-> role, task |-> t, status |-> task[t].status,
                      quota |-> jobQuota[t], target |-> 0]
  <2>1. /\ worker[w].pc = "idle" /\ UNCHANGED <<subscription, jobQuota, faults>>
        /\ worker' = [worker EXCEPT ![w] = copy] /\ copy.pc = "copied"
    BY <1>4 DEF LoadTask, Become, ledgerVars, fundingVars
  <2> HIDE DEF copy
  <2>2. worker' = [worker EXCEPT ![w] = worker'[w]] /\ worker'[w].pc = "copied"
    BY <1>0, <2>1
  <2> QED BY <1>3, <2>1, <2>2
<1>5. ASSUME NEW w \in Workers, Drops(w) PROVE ShareOK(s)'
  <2>1. /\ UNCHANGED <<subscription, jobQuota>> /\ worker' = [worker EXCEPT ![w] = Idle]
        /\ faults' = faults \/ faults' = faults + 1
        /\ Billing(w) /\ faults' = faults => worker[w].pc = "fund"
    BY <1>5 DEF Drops, Become, Refused, ledgerVars, fundingVars
  <2>2. worker' = [worker EXCEPT ![w] = worker'[w]] /\ worker'[w].pc = "idle"
    BY <1>0, <2>1, IdleIsCopy
  <2>3. CASE faults' = faults
    BY <1>3, <2>1, <2>2, <2>3 DEF Billing
  <2>4. CASE faults' # faults
    BY <1>1, <2>1, <2>4 DEF ShareOK
  <2> QED BY <2>3, <2>4
<1>6. ASSUME NEW w \in Workers, NEW to \in Running \cup Final, NEW q, NEW next, Writes(w, to, q, next) PROVE ShareOK(s)'
  <2>1. PICK t : t = worker[w].task
    OBVIOUS
  <2>2. /\ t \in Tasks /\ task[t].status \in Running /\ worker[w].quota = JobOpening[t] /\ worker[w].pc = "copied"
        /\ UNCHANGED subscription /\ jobQuota' = [jobQuota EXCEPT ![t] = q]
        /\ q = JobOpening[t] \/ t \in Legacy
        /\ faults' = faults \/ faults' = faults + 1
        /\ worker' = [worker EXCEPT ![w] = next]
    BY <1>6, <2>1
       DEF Writes, Copied, TaskTypes, CopyOK, BillInv, CopyFresh, UpdateWithStatus, fundingVars, Become
  <2>3. jobQuota[t] = JobOpening[t]
    BY <2>2 DEF BillInv, RowOK, Running, Final
  <2>4. \A u \in TasksOf(s) : Clean(s)' => jobQuota'[u] = jobQuota[u]
    BY <1>0, <2>2, <2>3 DEF Clean, TasksOf
  <2>5. next.pc \in {"idle", "fund"}
    <3>1. Copied(w) /\ GoesOn(worker[w], to, q, next)
      BY <1>6 DEF Writes
    <3> QED BY <3>1, WinnerCopy, Zenon
  <2>6. worker' = [worker EXCEPT ![w] = worker'[w]] /\ worker'[w].pc = next.pc
    BY <1>0, <2>2
  <2> QED BY <1>3, <2>2, <2>4, <2>5, <2>6
<1>7. ASSUME NEW w \in Workers, WalletFunds(w) \/ taskAdjustTokenQuota(w) PROVE ShareOK(s)'
  <2>1. PICK c, t : c = worker[w] /\ t = worker[w].task
    OBVIOUS
  <2>2. /\ c \in Copy /\ Touches(w, t) /\ UNCHANGED subscription /\ t \in Tasks /\ Billing(w)
        /\ faults' = faults \/ faults' = faults + 1
    BY <1>7, <2>1, FundBill
       DEF TaskTypes, CopyOK, WalletFunds, taskAdjustTokenQuota, Billing, NoFault, Fault, fundingVars
  <2>3. CASE t \notin TasksOf(s)
    <3>1. \A u \in TasksOf(s) : u # t /\ u \in Tasks
      BY <1>0, <2>3
    <3>2. \A u \in TasksOf(s) : jobQuota'[u] = jobQuota[u]
      BY <2>2, <3>1 DEF Touches
    <3>3. \A u \in TasksOf(s), v \in Workers :
            Clean(s)' => Funded(v, u)' = Funded(v, u) /\ (Funded(v, u) => worker'[v].target = worker[v].target)
      BY <2>2, <3>1 DEF Touches, Funded
    <3> QED BY <1>0, <1>1, <2>2, <3>2, <3>3, SharesKept
  <2>4. CASE t \in TasksOf(s)
    <3>1. /\ taskAdjustTokenQuota(w) /\ Subscribed(t)
      BY <1>0, <1>7, <2>1, <2>4 DEF WalletFunds
    <3>2. /\ c.pc = "token" /\ worker' = [worker EXCEPT ![w] = [c EXCEPT !.pc = "clear"]] /\ UNCHANGED jobQuota
      BY <2>1, <3>1 DEF taskAdjustTokenQuota, Become, ledgerVars
    <3>3. /\ worker'[w] = [c EXCEPT !.pc = "clear"] /\ \A v \in Workers : v # w => worker'[v] = worker[v]
      BY <1>0, <3>2
    <3>4. worker'[w].pc = "clear" /\ worker'[w].task = c.task /\ worker'[w].target = c.target
      BY <2>2, <3>3, NextCopy
    <3>5. \A u \in TasksOf(s), v \in Workers :
            Clean(s)' => Funded(v, u)' = Funded(v, u) /\ (Funded(v, u) => worker'[v].target = worker[v].target)
      BY <2>1, <3>2, <3>3, <3>4 DEF Funded
    <3> QED BY <1>0, <1>1, <2>2, <3>2, <3>5, SharesKept
  <2> QED BY <2>3, <2>4
<1>8. ASSUME NEW w \in Workers, UpdateQuota(w) PROVE ShareOK(s)'
  <2>1. PICK c, t : c = worker[w] /\ t = worker[w].task
    OBVIOUS
  <2>2. /\ c.pc = "clear" /\ t \in Tasks /\ worker' = [worker EXCEPT ![w] = Idle] /\ UNCHANGED subscription
        /\ faults' = faults \/ faults' = faults + 1
        /\ jobQuota' = [jobQuota EXCEPT ![t] = c.target] \/ faults' # faults
    BY <1>0, <1>8, <2>1 DEF UpdateQuota, TaskTypes, CopyOK, NoFault, Fault, fundingVars, Become
  <2>3. worker'[w].pc = "idle" /\ \A v \in Workers : v # w => worker'[v] = worker[v]
    BY <1>0, <2>2, IdleIsCopy
  <2> SUFFICES ASSUME Clean(s)' PROVE \E f \in [TasksOf(s) -> Nat] : Shares(f, s)'
    BY DEF ShareOK, TasksOf
  <2>4. Clean(s) /\ jobQuota' = [jobQuota EXCEPT ![t] = c.target]
    BY <1>1, <2>2
  <2>5. PICK f \in [TasksOf(s) -> Nat] : Shares(f, s)
    BY <1>0, <2>4 DEF ShareOK
  <2>6. \A v \in Workers : v # w => ~Funded(v, t)
    BY <2>1, <2>2 DEF BillInv, OneBiller, Billing, Funded
  <2>7. Funded(w, t) /\ \A v \in Workers : ~Funded(v, t)'
    BY <2>1, <2>2, <2>3, <2>6 DEF Funded
  <2>8. ASSUME NEW u \in TasksOf(s)
        PROVE  /\ \A v \in Workers : Funded(v, u)' => f[u] = worker'[v].target
               /\ (\A v \in Workers : ~Funded(v, u)') => f[u] = jobQuota'[u]
    <3>1. CASE u = t
      <4>1. f[t] = c.target
        BY <2>1, <2>5, <2>7, <3>1 DEF Shares
      <4>2. jobQuota'[t] = c.target
        BY <1>0, <2>4, <3>1
      <4> QED BY <2>7, <3>1, <4>1, <4>2
    <3>2. CASE u # t
      <4>1. jobQuota'[u] = jobQuota[u]
        BY <1>0, <2>4, <3>2
      <4>2. \A v \in Workers : (Funded(v, u)' <=> Funded(v, u)) /\ (Funded(v, u) => worker'[v] = worker[v])
        BY <2>1, <2>3, <3>2 DEF Funded
      <4> QED BY <2>5, <4>1, <4>2 DEF Shares
    <3> QED BY <3>1, <3>2
  <2>9. Shares(f, s)'
    BY <2>2, <2>5, <2>8 DEF Shares, TasksOf
  <2> QED BY <2>5, <2>9
<1>9. ASSUME NEW w \in Workers, SubscriptionFunds(w) PROVE ShareOK(s)'
  <2>1. PICK c, t : c = worker[w] /\ t = worker[w].task
    OBVIOUS
  <2>2. /\ c \in Copy /\ c.pc = "fund" /\ t \in Tasks /\ UNCHANGED <<jobQuota, faults>>
        /\ SubTask[t] \in Subs /\ t \in TasksOf(SubTask[t]) /\ c.quota \in Nat /\ c.target \in Nat /\ jobQuota[t] = c.quota
        /\ worker' = [worker EXCEPT ![w] = [c EXCEPT !.pc = "token"]]
        /\ PostConsumeUserSubscriptionDelta(SubTask[t], c.target - c.quota)
    BY <1>0, <1>9, <2>1, FundingAssumption, TaskBounds
       DEF SubscriptionFunds, TaskTypes, CopyOK, BillInv, BillOK, ledgerVars, Subscribed, TasksOf, Become
  <2>3. /\ subscription' = [subscription EXCEPT ![SubTask[t]].used = UsedAfter(SubTask[t], c.target - c.quota)]
        /\ subscription \in [Subs -> SubscriptionRow]
    BY <2>2 DEF PostConsumeUserSubscriptionDelta, RoomInv
  <2>4. /\ worker'[w] = [c EXCEPT !.pc = "token"] /\ \A v \in Workers : v # w => worker'[v] = worker[v]
    BY <1>0, <2>2
  <2>5. worker'[w].pc = "token" /\ worker'[w].task = t /\ worker'[w].target = c.target
    <3>1. c \in Copy /\ c.task = t
      BY <2>1, <2>2
    <3> QED BY <2>4, <3>1, NextCopy
  <2>6. \A v \in Workers : ~Funded(v, t)
    BY <2>1, <2>2 DEF BillInv, OneBiller, Billing, Funded
  <2>7. Clean(s)' => Clean(s)
    BY <1>1, <2>2
  <2>8. \A u \in Tasks, v \in Workers : u # t => (Funded(v, u)' <=> Funded(v, u)) /\ (Funded(v, u) => worker'[v] = worker[v])
    BY <2>1, <2>4, <2>5 DEF Funded
  <2>9. CASE s # SubTask[t]
    <3>1. subscription'[s] = subscription[s]
      BY <2>3, <2>9
    <3>2. \A u \in TasksOf(s) : u # t /\ u \in Tasks
      BY <1>0, <2>9
    <3>3. \A u \in TasksOf(s), v \in Workers :
            Clean(s)' => Funded(v, u)' = Funded(v, u) /\ (Funded(v, u) => worker'[v].target = worker[v].target)
      BY <2>8, <3>2 DEF Funded
    <3> QED BY <1>0, <2>2, <2>7, <3>1, <3>3, SharesKept
  <2>10. CASE s = SubTask[t]
    <3> SUFFICES ASSUME Clean(s)' PROVE \E f \in [TasksOf(s) -> Nat] : Shares(f, s)'
      BY DEF ShareOK, TasksOf
    <3>1. PICK f \in [TasksOf(s) -> Nat] : Shares(f, s)
      BY <1>0, <2>7 DEF ShareOK
    <3>2. f[t] = c.quota /\ subscription[s].used = SumFunction(f)
      BY <2>2, <2>6, <2>10, <3>1 DEF Shares
    <3>3. PICK g \in [TasksOf(s) -> Nat] : g = [f EXCEPT ![t] = c.target]
      BY <2>2, <3>1
    <3>4. OneOther(f, g, t) /\ g[t] = c.target
      BY <2>2, <2>10, <3>1, <3>3, TasksOfFacts DEF OneOther
    <3>5. SumFunction(g) = SumFunction(f) + g[t] - f[t]
      BY <3>4, SumChange, Zenon
    <3>6. f[t] <= SumFunction(f) /\ SumFunction(f) \in Nat
      BY <2>2, <2>10, <3>1, TasksOfFacts, SumAtLeast
    <3>7. UsedAfter(s, c.target - c.quota) = SumFunction(g)
      BY <2>2, <3>2, <3>4, <3>5, <3>6 DEF UsedAfter
    <3>8. subscription'[s].used = SumFunction(g)
      BY <2>3, <2>10, <3>7 DEF SubscriptionRow
    <3>9. ASSUME NEW u \in TasksOf(s)
          PROVE  /\ \A v \in Workers : Funded(v, u)' => g[u] = worker'[v].target
                 /\ (\A v \in Workers : ~Funded(v, u)') => g[u] = jobQuota'[u]
      <4>1. CASE u = t
        <5>1. Funded(w, t)' /\ \A v \in Workers : v # w => ~Funded(v, t)'
          BY <2>4, <2>5, <2>6 DEF Funded
        <5> QED BY <2>5, <3>4, <4>1, <5>1
      <4>2. CASE u # t
        <5>1. g[u] = f[u] /\ jobQuota'[u] = jobQuota[u]
          BY <2>2, <3>3, <4>2
        <5> QED BY <1>0, <2>8, <3>1, <4>2, <5>1 DEF Shares
      <4> QED BY <4>1, <4>2
    <3>10. Shares(g, s)'
      BY <3>8, <3>9 DEF Shares, TasksOf
    <3> QED BY <3>3, <3>10
  <2> QED BY <2>9, <2>10
<1>10. ASSUME NEW w \in Workers PROVE ~FailWithoutChannel(w)
  BY DEF FailWithoutChannel, Holds, TaskTypes, CopyOK, Plain
<1>11. ASSUME NEW t \in Tasks, Insert(t) PROVE ShareOK(s)'
  BY <1>2, <1>11 DEF Insert, ledgerVars, fundingVars
<1>12. ASSUME UNCHANGED vars PROVE ShareOK(s)'
  BY <1>2, <1>12 DEF vars, ledgerVars, fundingVars, taskVars
<1> QED BY AsyncCases, <1>4, <1>5, <1>6, <1>7, <1>8, <1>9, <1>10, <1>11, <1>12 DEF StepOf

(* Token, subscription and task agree whenever the workers are done with   *)
(* the tasks and no call has failed, although RefundTaskQuota and          *)
(* RecalculateTaskQuota change the three in separate transactions.         *)
THEOREM BooksStayInStep ==
  ASSUME Roles \subseteq Plain, RefundsFit
  PROVE  Spec => []BooksAgree
<1>1. ASSUME TaskInit PROVE ShareInv
  <2> SUFFICES ASSUME NEW s \in Subs PROVE \E f \in [TasksOf(s) -> Nat] : Shares(f, s)
    BY DEF ShareInv, ShareOK
  <2>1. PICK f : f = [t \in TasksOf(s) |-> JobOpening[t]]
    OBVIOUS
  <2>2. /\ f \in [TasksOf(s) -> Nat] /\ DOMAIN f = TasksOf(s) /\ IsFiniteSet(TasksOf(s))
        /\ \A t \in TasksOf(s) : f[t] = JobOpening[t] /\ JobOpening[t] \in Int
    BY <2>1, TasksOfFacts, JobOpeningAssumption, TaskBounds
  <2>3. SumFunctionOnSet(JobOpening, DOMAIN f) = SumFunction(f)
    BY <2>2, SumOnSet
  <2>4. subscription[s].used = SumFunction(f)
    BY <1>1, <2>2, <2>3 DEF TaskInit
  <2>5. \A w \in Workers : worker[w].pc = "idle"
    BY <1>1, IdleIsCopy DEF TaskInit
  <2>6. Shares(f, s)
    BY <1>1, <2>2, <2>4, <2>5 DEF Shares, Funded, TaskInit, LedgerInit
  <2> QED BY <2>2, <2>6
<1>2. TaskTypes /\ BillInv /\ RoomInv /\ ShareInv /\ [Next]_vars => ShareInv'
  BY ShareStep DEF ShareInv
<1>3. ASSUME TaskTypes, BillInv, ShareInv, faults = 0 PROVE BooksAgree
  <2>1. ASSUME NEW t \in Tasks \ Legacy, Quiet(t) PROVE tokenPaid[t] = jobQuota[t]
    <3>1. RowOK(t) /\ NoBiller(t)
      BY <1>3, <2>1 DEF BillInv, Quiet, NoBiller
    <3> QED BY <1>3, <2>1, <3>1 DEF RowOK
  <2>2. ASSUME NEW s \in Subs, \A t \in TasksOf(s) : Quiet(t) /\ t \notin Legacy
        PROVE  subscription[s].used = SumFunctionOnSet(jobQuota, TasksOf(s))
    <3>1. PICK f \in [TasksOf(s) -> Nat] : Shares(f, s)
      BY <1>3, <2>2 DEF ShareInv, ShareOK, Clean
    <3>2. \A t \in TasksOf(s) : f[t] = jobQuota[t]
      BY <2>2, <3>1 DEF Shares, Quiet, Funded
    <3>3. DOMAIN f = TasksOf(s) /\ IsFiniteSet(TasksOf(s)) /\ \A t \in TasksOf(s) : f[t] = jobQuota[t] /\ jobQuota[t] \in Int
      BY <3>1, <3>2, TasksOfFacts
    <3>4. SumFunctionOnSet(jobQuota, DOMAIN f) = SumFunction(f)
      BY <3>3, SumOnSet
    <3> QED BY <3>1, <3>3, <3>4 DEF Shares
  <2> QED BY <2>1, <2>2 DEF BooksAgree
<1>4. TaskTypes /\ BillInv /\ ShareInv => BooksAgree
  BY <1>3 DEF BooksAgree
<1>5. TaskInit => ShareInv
  BY <1>1
<1> QED BY FreeInvariant, <1>2, <1>4, <1>5, PTL DEF Spec
=============================================================================

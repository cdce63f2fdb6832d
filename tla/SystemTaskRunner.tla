--------------------------- MODULE SystemTaskRunner ---------------------------
(***************************************************************************)
(* The background jobs of a cluster: model/system_task.go and the runner   *)
(* of service/system_task.go, for one job type (types share nothing but    *)
(* the code).  A job row is created when no active row exists (the unique  *)
(* index on active_key), claimed under a per-type lock row with a lease,   *)
(* run by a handler whose heartbeat renews the lease, and finished while   *)
(* the lease lives.  Every statement sent to the database is a step.       *)
(*                                                                         *)
(* Time is relative: the lease of the lock row is the time that is left,   *)
(* negative once locked_until has passed, and a pass over the table knows  *)
(* how long ago it read its clock (age), since it goes on using that time. *)
(***************************************************************************)
EXTENDS Integers, FiniteSets, FiniteSetsExt

CONSTANTS
    Nodes,          \* runner ids, one per process
    Survivor,       \* a node that never stops
    MaxRows,        \* rows of system_tasks (bound)
    TTL,            \* systemTaskLockTTL in ticks
    MaxPause,       \* how long one pass of a node may take, in ticks
    Crashes,        \* may nodes stop?
    MaxErrors       \* how many statements of the claim and stale passes fail (bound)

ASSUME TTLAssumption == TTL \in Nat \ {0} /\ MaxPause \in Nat /\ MaxRows \in Nat /\ MaxErrors \in Nat
ASSUME SurvivorAssumption == Survivor \in Nodes

VARIABLES
    row,            \* system_tasks: status, active_key, locked_by
    lock,           \* the system_task_locks row of the type
    handler,        \* the goroutine that runs a row
    pass,           \* where the runner loop of a node is
    alive,
    errors          \* statements that have failed

vars == <<row, lock, handler, pass, alive, errors>>

Rows == 1..MaxRows
Statuses == {"none", "pending", "running", "succeeded", "failed"}
NoNode == "nobody"
NoLock == [task |-> 0, by |-> NoNode, left |-> 0]
Expired == -(MaxPause + 1)
IdlePass == [pc |-> "idle", task |-> 0, by |-> NoNode, old |-> 0, age |-> 0]

SystemTask == [status: Statuses, active: BOOLEAN, by: Nodes \cup {NoNode}]
SystemTaskLock == [task: {0} \cup Rows, by: Nodes \cup {NoNode}, left: Expired..TTL]
Pass == [pc: {"idle", "lock", "existing", "takeover", "expire", "run", "unclaim", "mark", "delete"},
         task: {0} \cup Rows, by: Nodes \cup {NoNode}, old: {0} \cup Rows, age: 0..MaxPause]

Init ==
    /\ row = [i \in Rows |-> [status |-> "none", active |-> FALSE, by |-> NoNode]]
    /\ lock = NoLock
    /\ handler = [i \in Rows |-> "none"]
    /\ pass = [n \in Nodes |-> IdlePass]
    /\ alive = Nodes
    /\ errors = 0

-----------------------------------------------------------------------------
At(n, pc) == n \in alive /\ pass[n].pc = pc
Goto(n, next) == pass' = [pass EXCEPT ![n] = next]
StatementFails == errors < MaxErrors /\ errors' = errors + 1
Created == {i \in Rows : row[i].status # "none"}

(* runSystemTaskScheduler and EnqueueSystemTask: the next row, if no row   *)
(* is active; the unique index decides between concurrent creators.        *)
CreateSystemTask(i) ==
    /\ i = Cardinality(Created) + 1
    /\ \A j \in Rows : ~row[j].active
    /\ row' = [row EXCEPT ![i] = [status |-> "pending", active |-> TRUE, by |-> NoNode]]
    /\ UNCHANGED <<lock, handler, pass, alive, errors>>

-----------------------------------------------------------------------------
(* ClaimSystemTask, statement by statement.                                *)

Pending == {i \in Rows : row[i].status = "pending"}

ReadPending(n) ==
    /\ At(n, "idle")
    /\ Pending # {}
    /\ Goto(n, [IdlePass EXCEPT !.pc = "lock", !.task = Min(Pending)])
    /\ UNCHANGED <<row, lock, handler, alive, errors>>

LockFor(n) == [task |-> pass[n].task, by |-> n, left |-> TTL - pass[n].age]

CreateLock(n) ==
    /\ At(n, "lock")
    /\ IF lock = NoLock
       THEN lock' = LockFor(n) /\ Goto(n, [pass[n] EXCEPT !.pc = "run"])
       ELSE UNCHANGED lock /\ Goto(n, [pass[n] EXCEPT !.pc = "existing"])
    /\ UNCHANGED <<row, handler, alive, errors>>

ExpiredAt(n) == lock # NoLock /\ lock.left + pass[n].age < 0

ReadLock(n) ==
    /\ At(n, "existing")
    /\ Goto(n, IF ExpiredAt(n) THEN [pass[n] EXCEPT !.pc = "takeover", !.old = lock.task] ELSE IdlePass)
    /\ UNCHANGED <<row, lock, handler, alive, errors>>

(* Plausible bug: the expiry is not checked again by the update.           *)
TakeOverUnchecked(n) ==
    /\ At(n, "takeover")
    /\ lock' = LockFor(n)
    /\ Goto(n, [pass[n] EXCEPT !.pc = IF pass[n].old = pass[n].task THEN "run" ELSE "expire"])
    /\ UNCHANGED <<row, handler, alive, errors>>

TakeOverLock(n) ==
    /\ At(n, "takeover")
    /\ IF ExpiredAt(n)
       THEN /\ lock' = LockFor(n)
            /\ Goto(n, [pass[n] EXCEPT !.pc = IF pass[n].old = pass[n].task THEN "run" ELSE "expire"])
       ELSE UNCHANGED lock /\ Goto(n, IdlePass)
    /\ UNCHANGED <<row, handler, alive, errors>>

(* Plausible bug: the active key of an expired row is kept.                *)
FailedKeepsKey(i) == IF row[i].status = "running" THEN [row EXCEPT ![i].status = "failed"] ELSE row

(* MarkSystemTaskLeaseExpired.                                             *)
LeaseExpired(i) ==
    IF row[i].status = "running" THEN [row EXCEPT ![i] = [@ EXCEPT !.status = "failed", !.active = FALSE]] ELSE row

ExpireOld(n) ==
    /\ At(n, "expire")
    /\ row' = LeaseExpired(pass[n].old)
    /\ Goto(n, [pass[n] EXCEPT !.pc = "run"])
    /\ UNCHANGED <<lock, handler, alive, errors>>

(* The update does not look at the lock again.  The row is read again      *)
(* before the handler is started; when that fails nobody runs it.          *)
StartRunning(n) ==
    LET i == pass[n].task IN
    /\ At(n, "run")
    /\ IF row[i].status = "pending"
       THEN /\ row' = [row EXCEPT ![i] = [@ EXCEPT !.status = "running", !.by = n]]
            /\ \/ handler' = [handler EXCEPT ![i] = "work"] /\ UNCHANGED errors
               \/ handler' = [handler EXCEPT ![i] = "done"] /\ StatementFails
            /\ Goto(n, IdlePass)
       ELSE UNCHANGED <<row, handler, errors>> /\ Goto(n, [pass[n] EXCEPT !.pc = "unclaim"])
    /\ UNCHANGED <<lock, alive>>

(* ReleaseSystemTaskLock.                                                  *)
Released(i, n) == IF lock.task = i /\ lock.by = n THEN NoLock ELSE lock

Unclaim(n) ==
    /\ At(n, "unclaim")
    /\ lock' = Released(pass[n].task, n)
    /\ Goto(n, IdlePass)
    /\ UNCHANGED <<row, handler, alive, errors>>

(* A statement fails: before the lock is acquired, and in                  *)
(* ExpireStaleSystemTaskLocks, the pass ends; afterwards the lock is       *)
(* released.  A failed release leaves the lock.                            *)
PassFails(n) ==
    /\ n \in alive /\ pass[n].pc # "idle"
    /\ StatementFails
    /\ Goto(n, IF pass[n].pc \in {"expire", "run"} THEN [pass[n] EXCEPT !.pc = "unclaim"] ELSE IdlePass)
    /\ UNCHANGED <<row, lock, handler, alive>>

-----------------------------------------------------------------------------
(* ExpireStaleSystemTaskLocks.                                             *)

ListStaleLocks(n) ==
    /\ At(n, "idle")
    /\ lock # NoLock /\ lock.left < 0
    /\ Goto(n, [IdlePass EXCEPT !.pc = "mark", !.task = lock.task, !.by = lock.by])
    /\ UNCHANGED <<row, lock, handler, alive, errors>>

MarkStale(n) ==
    /\ At(n, "mark")
    /\ row' = LeaseExpired(pass[n].task)
    /\ Goto(n, [pass[n] EXCEPT !.pc = "delete"])
    /\ UNCHANGED <<lock, handler, alive, errors>>

(* Plausible bug: the lock of the type is deleted whoever holds it now.    *)
DeleteWhateverLock(n) ==
    /\ At(n, "delete")
    /\ lock' = NoLock
    /\ Goto(n, IdlePass)
    /\ UNCHANGED <<row, handler, alive, errors>>

DeleteStale(n) ==
    /\ At(n, "delete")
    /\ lock' = IF lock.task = pass[n].task /\ lock.by = pass[n].by /\ ExpiredAt(n) THEN NoLock ELSE lock
    /\ Goto(n, IdlePass)
    /\ UNCHANGED <<row, handler, alive, errors>>

-----------------------------------------------------------------------------
(* The handler and its heartbeat (runWithLeaseHeartbeat).                  *)

HolderOf(i) == row[i].by
Working(i) == handler[i] \in {"work", "cancelled"}
Holds(i) == lock.task = i /\ lock.by = HolderOf(i) /\ lock.left >= 0

(* RenewSystemTaskLock; a refused or failed renewal cancels the handler    *)
(* and ends the heartbeat.                                                 *)
RenewSystemTaskLock(i) ==
    /\ handler[i] = "work" /\ Holds(i)
    /\ lock' = [lock EXCEPT !.left = TTL]
    /\ UNCHANGED <<row, handler, pass, alive, errors>>

HeartbeatFails(i) ==
    /\ handler[i] = "work"
    /\ handler' = [handler EXCEPT ![i] = "cancelled"]
    /\ UNCHANGED <<row, lock, pass, alive, errors>>

(* Plausible bug: the lease is not looked at when a job finishes.          *)
FinishWithoutLease(i, status) ==
    /\ Working(i)
    /\ row' = [row EXCEPT ![i] = [@ EXCEPT !.status = status, !.active = FALSE]]
    /\ handler' = [handler EXCEPT ![i] = "release"]
    /\ UNCHANGED <<lock, pass, alive, errors>>

FinishSystemTask(i, status) ==
    /\ Working(i)
    /\ IF row[i].status = "running" /\ Holds(i)
       THEN /\ row' = [row EXCEPT ![i] = [@ EXCEPT !.status = status, !.active = FALSE]]
            /\ handler' = [handler EXCEPT ![i] = "release"]
       ELSE UNCHANGED row /\ handler' = [handler EXCEPT ![i] = "done"]
    /\ UNCHANGED <<lock, pass, alive, errors>>

ReleaseAfterFinish(i) ==
    /\ handler[i] = "release"
    /\ lock' = Released(i, HolderOf(i))
    /\ handler' = [handler EXCEPT ![i] = "done"]
    /\ UNCHANGED <<row, pass, alive, errors>>

(* The handler returns without finishing the row: a panic, or an error     *)
(* of the database while it saves its state or finishes.                   *)
HandlerGivesUp(i) ==
    /\ Working(i)
    /\ handler' = [handler EXCEPT ![i] = "done"]
    /\ UNCHANGED <<row, lock, pass, alive, errors>>

-----------------------------------------------------------------------------
Crash(n) ==
    /\ Crashes /\ n \in alive /\ n # Survivor
    /\ alive' = alive \ {n}
    /\ handler' = [i \in Rows |-> IF handler[i] # "none" /\ row[i].by = n THEN "done" ELSE handler[i]]
    /\ Goto(n, IdlePass)
    /\ UNCHANGED <<row, lock, errors>>

(* Time passes; no pass of a node takes longer than MaxPause.              *)
Tick ==
    /\ \A n \in Nodes : pass[n].pc = "idle" \/ pass[n].age < MaxPause
    /\ lock' = IF lock = NoLock \/ lock.left = Expired THEN lock ELSE [lock EXCEPT !.left = @ - 1]
    /\ pass' = [n \in Nodes |-> IF pass[n].pc = "idle" THEN pass[n] ELSE [pass[n] EXCEPT !.age = @ + 1]]
    /\ UNCHANGED <<row, handler, alive, errors>>

ClaimStep(n) ==
    ReadPending(n) \/ CreateLock(n) \/ ReadLock(n) \/ TakeOverLock(n) \/ ExpireOld(n) \/ StartRunning(n) \/ Unclaim(n)
StaleStep(n) == ListStaleLocks(n) \/ MarkStale(n) \/ DeleteStale(n)
HandlerEnds(i) == (\E status \in {"succeeded", "failed"} : FinishSystemTask(i, status)) \/ ReleaseAfterFinish(i)

Next ==
    \/ \E i \in Rows : CreateSystemTask(i)
    \/ \E n \in Nodes : ClaimStep(n) \/ StaleStep(n) \/ PassFails(n) \/ Crash(n)
    \/ \E i \in Rows : RenewSystemTaskLock(i) \/ HeartbeatFails(i) \/ HandlerEnds(i) \/ HandlerGivesUp(i)
    \/ Tick

Spec == Init /\ [][Next]_vars

(* The runner loop of a live node makes a pass every 15 seconds, a handler *)
(* must return, and clocks go on.                                          *)
FairSpec ==
    /\ Spec
    /\ \A n \in Nodes : WF_vars(ClaimStep(n)) /\ WF_vars(StaleStep(n))
    /\ \A i \in Rows : WF_vars(HandlerEnds(i))
    /\ WF_vars(Tick)

-----------------------------------------------------------------------------
(* Rows, the lock and the passes have their types, and a row is active     *)
(* exactly while it is pending or running: otherwise the scheduler would   *)
(* start a second job of the type or never another one.                    *)
RunnerTypeOK ==
    /\ row \in [Rows -> SystemTask]
    /\ lock \in SystemTaskLock
    /\ handler \in [Rows -> {"none", "work", "cancelled", "release", "done"}]
    /\ pass \in [Nodes -> Pass]
    /\ alive \subseteq Nodes /\ errors \in 0..MaxErrors
    /\ \A i \in Rows : row[i].active <=> row[i].status \in {"pending", "running"}

(* A job that somebody gave up on or that died can always be expired: a    *)
(* running row without a handler still has its lock row, which is all that *)
(* ExpireStaleSystemTaskLocks and acquireSystemTaskLock look at.           *)
OrphanHasLock ==
    \A i \in Rows : row[i].status = "running" /\ handler[i] = "done" => lock.task = i

(* A live lease is never taken away: while the lock of a working handler   *)
(* has not expired, no step of another node releases or takes it.          *)
LeaseRespected ==
    [][\A i \in Rows : Working(i) /\ Holds(i) /\ handler'[i] = handler[i]
         => lock'.task = i /\ lock'.by = lock.by]_vars

(* The outcome of a job is written once, by the runner whose lease lives:  *)
(* a handler that lost its lease cannot turn an expired job into a         *)
(* success, and a finished job is never run again.                         *)
OutcomeIsFinal ==
    [][\A i \in Rows :
         /\ row[i].status \in {"succeeded", "failed"} => row'[i] = row[i]
         /\ row[i].status = "running" /\ row'[i].status = "succeeded" => Holds(i)]_vars

(* The type is never wedged: every job that is created ends, so that the   *)
(* scheduler can create the next one, although nodes stop at any step.     *)
EveryTaskEnds == \A i \in Rows : row[i].active ~> ~row[i].active
=============================================================================

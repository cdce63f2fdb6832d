-------------------------- MODULE SystemTaskProofs --------------------------
(***************************************************************************)
(* Proofs about the background jobs of a cluster, for any number of nodes, *)
(* rows, crashes and failed statements.                                    *)
(*                                                                         *)
(* The argument.  Rows are created in order, so a new row never overwrites *)
(* a finished one, and at most one is active.  A node never claims a row   *)
(* it is running or has run (NotClaimingOwn), so its claim pass cannot     *)
(* release the lock of its own handler.  As long as no pass outlives a     *)
(* lease, a pass that has acquired the lock still holds it when it starts  *)
(* the row (ClaimExclusive), and a pass that read its clock before         *)
(* somebody else started the row finds the lease alive (StalePass):        *)
(* therefore the lock of a running row stays where it is.                  *)
(***************************************************************************)
EXTENDS SystemTaskRunner, FiniteSetTheorems, WellFoundedInduction, TLAPS

Claiming(n) == pass[n].pc \in {"lock", "existing", "takeover", "expire", "run", "unclaim"}
Before(n) == pass[n].pc \in {"lock", "existing", "takeover"}
Acquired(n) == pass[n].pc \in {"expire", "run", "unclaim"}

(* Passes and locks name rows. *)
NamesRows ==
    /\ lock # NoLock => lock.task \in Rows
    /\ \A n \in Nodes : pass[n].pc # "idle" => pass[n].task \in Rows
    /\ \A n \in Nodes : pass[n].pc \in {"takeover", "expire"} => pass[n].old \in Rows

TypeInv == RunnerTypeOK /\ NamesRows

(* Rows are created one after the other. *)
CreatedInOrder == \E k \in 0..MaxRows : Created = 1..k

(* A handler exists for rows that were started only. *)
HandlersStarted ==
    \A i \in Rows : /\ Working(i) => row[i].status \notin {"none", "pending"}
                    /\ handler[i] = "release" => row[i].status \in {"succeeded", "failed"}

(* A node claims no row that it has started. *)
NotClaimingOwn ==
    \A n \in Nodes, i \in Rows :
        Claiming(n) /\ pass[n].task = i /\ row[i].status \notin {"none", "pending"} => row[i].by # n

OneActive == \A i, j \in Rows : row[i].active /\ row[j].active => i = j

(* A pass that acquired the lock holds it, with a live lease. *)
ClaimExclusive(n) ==
    Acquired(n) =>
        /\ lock.task = pass[n].task /\ lock.by = n /\ lock.left + pass[n].age >= TTL
        /\ row[pass[n].task].status # "running"

(* To a pass that began before the row was started the lease is alive. *)
StalePass(n) ==
    /\ Before(n) /\ row[pass[n].task].status # "pending" => ~ExpiredAt(n)
    /\ pass[n].pc = "delete" /\ ExpiredAt(n) => row[pass[n].task].status # "running"

PassOK(n) == ClaimExclusive(n) /\ StalePass(n)
PassesOK == \A n \in Nodes : PassOK(n)

RunningHasLock == \A i \in Rows : row[i].status = "running" => lock.task = i

OrderInv == CreatedInOrder /\ HandlersStarted /\ NotClaimingOwn
LockInv == OneActive /\ PassesOK /\ RunningHasLock

-----------------------------------------------------------------------------
(* The bounds are numbers. *)
LEMMA Bounds ==
  /\ TTL \in Nat /\ TTL > 0 /\ MaxPause \in Nat /\ MaxRows \in Nat /\ MaxErrors \in Nat
  /\ Expired \in Int /\ Expired = -(MaxPause + 1)
BY TTLAssumption DEF Expired

(* A nonempty set of natural numbers has a least element, which Min is. *)
LEMMA MinNat ==
  ASSUME NEW C \in SUBSET Nat, C # {}
  PROVE  Min(C) \in C /\ \A y \in C : Min(C) <= y
<1> DEFINE Less == {p \in Nat \X Nat : p[1] < p[2]}
<1>1. IsWellFoundedOn(Less, Nat)
  BY NatLessThanWellFounded DEF OpToRel
<1>2. \E x \in C : \A y \in C : ~(<<y, x>> \in Less)
  <2> HIDE DEF Less
  <2> QED BY <1>1, WFMin
<1>3. \E x \in C : \A y \in C : x <= y
  <2>1. \A x, y \in Nat : ~(<<y, x>> \in Less) => x <= y
    OBVIOUS
  <2> HIDE DEF Less
  <2> QED BY <1>2, <2>1
<1> QED BY <1>3 DEF Min

(* The oldest pending row is a pending row (ClaimSystemTask reads it by id). *)
LEMMA OldestPending ==
  ASSUME Pending # {}
  PROVE  Min(Pending) \in Rows /\ row[Min(Pending)].status = "pending"
<1>1. Pending \in SUBSET Nat
  BY Bounds DEF Pending, Rows
<1>2. Min(Pending) \in Pending
  BY <1>1, MinNat
<1> QED BY <1>2 DEF Pending

(* MarkSystemTaskLeaseExpired keeps the types of the rows. *)
LEMMA LeaseExpiredTypes ==
  ASSUME TypeInv, NEW i \in Rows, row' = LeaseExpired(i)
  PROVE  /\ row' \in [Rows -> SystemTask]
         /\ \A j \in Rows : row'[j].active <=> row'[j].status \in {"pending", "running"}
BY DEF TypeInv, RunnerTypeOK, LeaseExpired, SystemTask, Statuses

(* A node between two passes *)
LEMMA Idling == IdlePass \in Pass /\ IdlePass.pc = "idle"
BY Bounds DEF IdlePass, Pass

(* A pass over the table keeps the types (ClaimSystemTask). *)
LEMMA ClaimTypes ==
  ASSUME TypeInv, NEW n \in Nodes, ClaimStep(n)
  PROVE  TypeInv'
<1> USE Bounds DEF TypeInv, RunnerTypeOK, NamesRows, At, Goto
<1>1. CASE ReadPending(n)
  <2>1. Min(Pending) \in Rows
    BY <1>1, OldestPending DEF ReadPending
  <2> QED BY <1>1, <2>1, Idling DEF ReadPending, Pass
<1>2. CASE CreateLock(n)
  BY <1>2 DEF CreateLock, LockFor, NoLock, Pass, SystemTaskLock
<1>3. CASE ReadLock(n)
  <2>1. CASE ExpiredAt(n)
    <3>1. lock.task \in Rows
      BY <2>1 DEF ExpiredAt
    <3>2. pass' = [pass EXCEPT ![n] = [pass[n] EXCEPT !.pc = "takeover", !.old = lock.task]]
      BY <1>3, <2>1 DEF ReadLock
    <3>0. /\ [pass[n] EXCEPT !.pc = "takeover", !.old = lock.task] \in Pass
          /\ [pass[n] EXCEPT !.pc = "takeover", !.old = lock.task].task = pass[n].task
          /\ [pass[n] EXCEPT !.pc = "takeover", !.old = lock.task].old = lock.task
      <4> DEFINE p == pass[n]
      <4>1. p \in Pass
        OBVIOUS
      <4> HIDE DEF p
      <4> SUFFICES /\ [p EXCEPT !.pc = "takeover", !.old = lock.task] \in Pass
                   /\ [p EXCEPT !.pc = "takeover", !.old = lock.task].task = p.task
                   /\ [p EXCEPT !.pc = "takeover", !.old = lock.task].old = lock.task
        BY DEF p
      <4> QED BY <3>1, <4>1 DEF Pass
    <3>3. pass' \in [Nodes -> Pass]
      BY <3>0, <3>2
    <3>4. \A m \in Nodes : m # n => pass'[m] = pass[m]
      BY <3>2
    <3>5. pass'[n].task = pass[n].task /\ pass'[n].old = lock.task /\ pass[n].pc = "existing"
      BY <1>3, <3>0, <3>2 DEF ReadLock
    <3> QED BY <1>3, <3>1, <3>3, <3>4, <3>5 DEF ReadLock
  <2>2. CASE ~ExpiredAt(n)
    BY <1>3, <2>2 DEF ReadLock, Pass, IdlePass
  <2> QED BY <2>1, <2>2
<1>4. CASE TakeOverLock(n)
  BY <1>4 DEF TakeOverLock, LockFor, Pass, SystemTaskLock, IdlePass
<1>5. CASE ExpireOld(n)
  BY <1>5, LeaseExpiredTypes DEF ExpireOld, Pass
<1>6. CASE StartRunning(n)
  <2> DEFINE i == pass[n].task
  <2>0. i \in Rows
    BY <1>6 DEF StartRunning
  <2>1. CASE row[i].status = "pending"
    <3>1. row' = [row EXCEPT ![i] = [row[i] EXCEPT !.status = "running", !.by = n]]
      BY <1>6, <2>1 DEF StartRunning
    <3>2. row' \in [Rows -> SystemTask]
      <4>1. [row[i] EXCEPT !.status = "running", !.by = n] \in SystemTask
        BY <2>0, ZenonT(60) DEF SystemTask, Statuses
      <4> QED BY <2>0, <3>1, <4>1
    <3>3. \A j \in Rows : row'[j].active <=> row'[j].status \in {"pending", "running"}
      BY <2>0, <2>1, <3>1 DEF SystemTask
    <3>4. pass' = [pass EXCEPT ![n] = IdlePass] /\ UNCHANGED <<lock, alive>>
      BY <1>6, <2>1 DEF StartRunning
    <3>5. handler' \in [Rows -> {"none", "work", "cancelled", "release", "done"}] /\ errors' \in 0..MaxErrors
      BY <1>6, <2>0, <2>1 DEF StartRunning, StatementFails
    <3> QED BY <3>2, <3>3, <3>4, <3>5 DEF Pass, IdlePass
  <2>2. CASE row[i].status # "pending"
    BY <1>6, <2>2 DEF StartRunning, Pass
  <2> QED BY <2>1, <2>2
<1>7. CASE Unclaim(n)
  BY <1>7 DEF Unclaim, Released, Pass, SystemTaskLock, NoLock, IdlePass
<1> QED BY <1>1, <1>2, <1>3, <1>4, <1>5, <1>6, <1>7 DEF ClaimStep

(* So does ExpireStaleSystemTaskLocks, and so do failed statements and stops. *)
LEMMA StaleTypes ==
  ASSUME TypeInv, NEW n \in Nodes, StaleStep(n) \/ PassFails(n) \/ Crash(n)
  PROVE  TypeInv'
<1> USE Bounds DEF TypeInv, RunnerTypeOK, NamesRows, At, Goto
<1>1. CASE ListStaleLocks(n)
  BY <1>1, Idling DEF ListStaleLocks, Pass, SystemTaskLock
<1>2. CASE MarkStale(n)
  BY <1>2, LeaseExpiredTypes DEF MarkStale, Pass
<1>3. CASE DeleteStale(n)
  BY <1>3 DEF DeleteStale, Pass, SystemTaskLock, NoLock, IdlePass
<1>4. CASE PassFails(n)
  BY <1>4 DEF PassFails, StatementFails, Pass, IdlePass
<1>5. CASE Crash(n)
  BY <1>5 DEF Crash, Pass, IdlePass
<1> QED BY <1>1, <1>2, <1>3, <1>4, <1>5 DEF StaleStep

(* A handler and its heartbeat keep the types (runWithLeaseHeartbeat). *)
LEMMA HandlerTypes ==
  ASSUME TypeInv, NEW i \in Rows,
         RenewSystemTaskLock(i) \/ HeartbeatFails(i) \/ HandlerEnds(i) \/ HandlerGivesUp(i)
  PROVE  TypeInv'
<1> USE Bounds DEF TypeInv, RunnerTypeOK, NamesRows
<1>1. CASE RenewSystemTaskLock(i)
  BY <1>1 DEF RenewSystemTaskLock, Holds, SystemTaskLock, NoLock, Rows
<1>2. CASE HeartbeatFails(i)
  BY <1>2 DEF HeartbeatFails
<1>3. ASSUME NEW status \in {"succeeded", "failed"}, FinishSystemTask(i, status) PROVE TypeInv'
  <2>1. CASE row' = [row EXCEPT ![i] = [row[i] EXCEPT !.status = status, !.active = FALSE]]
    <3>1. row' \in [Rows -> SystemTask]
      BY <2>1, ZenonT(60) DEF SystemTask, Statuses
    <3>2. \A j \in Rows : row'[j].active <=> row'[j].status \in {"pending", "running"}
      BY <2>1 DEF SystemTask
    <3> QED BY <1>3, <3>1, <3>2 DEF FinishSystemTask
  <2>2. CASE row' = row
    BY <1>3, <2>2 DEF FinishSystemTask
  <2> QED BY <1>3, <2>1, <2>2 DEF FinishSystemTask
<1>4. CASE ReleaseAfterFinish(i)
  BY <1>4 DEF ReleaseAfterFinish, Released, SystemTaskLock, NoLock
<1>5. CASE HandlerGivesUp(i)
  BY <1>5 DEF HandlerGivesUp
<1> QED BY <1>1, <1>2, <1>3, <1>4, <1>5 DEF HandlerEnds

(* Creating a row and the passing of time keep the types. *)
LEMMA OtherTypes ==
  ASSUME TypeInv, (\E i \in Rows : CreateSystemTask(i)) \/ Tick \/ UNCHANGED vars
  PROVE  TypeInv'
<1> USE Bounds DEF TypeInv, RunnerTypeOK, NamesRows
<1>1. ASSUME NEW i \in Rows, CreateSystemTask(i) PROVE TypeInv'
  BY <1>1 DEF CreateSystemTask, SystemTask, Statuses
<1>2. CASE Tick
  BY <1>2 DEF Tick, Pass, SystemTaskLock, NoLock
<1>3. CASE UNCHANGED vars
  BY <1>3 DEF vars
<1> QED BY <1>1, <1>2, <1>3

(* Every step keeps the types. *)
LEMMA TypeStep ==
  ASSUME TypeInv, [Next]_vars
  PROVE  TypeInv'
BY ClaimTypes, StaleTypes, HandlerTypes, OtherTypes DEF Next

(* No job has been created yet. *)
LEMMA InitTypes == Init => TypeInv
<1> SUFFICES ASSUME Init PROVE TypeInv
  OBVIOUS
<1> USE Bounds DEF Init, NoLock, IdlePass
<1>1. row \in [Rows -> SystemTask] /\ \A i \in Rows : row[i].active <=> row[i].status \in {"pending", "running"}
  BY DEF SystemTask, Statuses
<1>2. lock \in SystemTaskLock /\ pass \in [Nodes -> Pass]
  BY DEF SystemTaskLock, Pass
<1>3. alive \subseteq Nodes /\ errors \in 0..MaxErrors
  OBVIOUS
<1>4. NamesRows
  BY DEF NamesRows
<1> QED BY <1>1, <1>2, <1>3, <1>4 DEF TypeInv, RunnerTypeOK

(* Rows, lock, handlers and passes have their types, and a row holds the   *)
(* active key exactly while it is pending or running.                      *)
THEOREM RunnerTyping == Spec => []RunnerTypeOK
<1>1. TypeInv /\ [Next]_vars => TypeInv'
  BY TypeStep
<1>2. TypeInv => RunnerTypeOK
  BY DEF TypeInv
<1> QED BY InitTypes, <1>1, <1>2, PTL DEF Spec

-----------------------------------------------------------------------------
(* What a step may do to a row. *)
Creates(j) == row[j].status = "none" /\ row'[j].status = "pending"
Starts(n, j) ==
    /\ At(n, "run") /\ pass[n].task = j /\ pass'[n] = IdlePass
    /\ row[j].status = "pending" /\ row'[j].status = "running" /\ row'[j].by = n
Ends(j) ==
    /\ row[j].status = "running" /\ row'[j].status \in {"succeeded", "failed"} /\ row'[j].by = row[j].by
    /\ row'[j].status = "succeeded" => Holds(j)
RowMove(j) == row'[j] = row[j] \/ Creates(j) \/ (\E n \in Nodes : Starts(n, j)) \/ Ends(j)

(* The next row is a new one: CreateSystemTask overwrites no row. *)
LEMMA NextIsNew ==
  ASSUME TypeInv, CreatedInOrder, NEW i \in Rows, CreateSystemTask(i)
  PROVE  /\ row[i].status = "none"
         /\ Created = 1..(i - 1)
<1>1. PICK k \in 0..MaxRows : Created = 1..k
  BY DEF CreatedInOrder
<1>2. Cardinality(1..k) = k
  <2>1. 1 \in Int /\ k \in Nat
    BY <1>1, Bounds
  <2>2. Cardinality(1..k) = IF 1 > k THEN 0 ELSE k - 1 + 1
    BY <2>1, FS_Interval
  <2> QED BY <2>1, <2>2
<1>3. i = k + 1
  BY <1>1, <1>2 DEF CreateSystemTask
<1> QED BY <1>1, <1>3, Bounds DEF Created, Rows

(* MarkSystemTaskLeaseExpired fails a running row and leaves the others. *)
LEMMA LeaseExpiredMoves ==
  ASSUME TypeInv, NEW i \in Rows, row' = LeaseExpired(i), NEW j \in Rows
  PROVE  \/ row'[j] = row[j]
         \/ /\ j = i /\ row[j].status = "running" /\ row'[j].status = "failed" /\ row'[j].by = row[j].by
            /\ row'[j].active = FALSE
BY DEF TypeInv, RunnerTypeOK, LeaseExpired, SystemTask

(* A row only goes forward: created, started by a pass, ended, and ended   *)
(* with success under a live lease only.                                   *)
LEMMA RowMoves ==
  ASSUME TypeInv, CreatedInOrder, [Next]_vars, NEW j \in Rows
  PROVE  RowMove(j)
<1> USE DEF RowMove
<1>1. CASE UNCHANGED row
  BY <1>1
<1>2. ASSUME NEW i \in Rows, CreateSystemTask(i) PROVE RowMove(j)
  BY <1>2, NextIsNew DEF CreateSystemTask, Creates, TypeInv, RunnerTypeOK
<1>3. ASSUME NEW n \in Nodes, ExpireOld(n) PROVE RowMove(j)
  <2>1. pass[n].old \in Rows
    BY <1>3 DEF ExpireOld, At, TypeInv, NamesRows
  <2> QED BY <1>3, <2>1, LeaseExpiredMoves DEF ExpireOld, Ends
<1>4. ASSUME NEW n \in Nodes, MarkStale(n) PROVE RowMove(j)
  <2>1. pass[n].task \in Rows
    BY <1>4 DEF MarkStale, At, TypeInv, NamesRows
  <2> QED BY <1>4, <2>1, LeaseExpiredMoves DEF MarkStale, Ends
<1>5. ASSUME NEW n \in Nodes, StartRunning(n), row' # row PROVE RowMove(j)
  <2> DEFINE i == pass[n].task
  <2>1. i \in Rows /\ At(n, "run") /\ row[i].status = "pending" /\ pass' = [pass EXCEPT ![n] = IdlePass]
    BY <1>5 DEF StartRunning, At, Goto, TypeInv, NamesRows
  <2>2. row' = [row EXCEPT ![i] = [row[i] EXCEPT !.status = "running", !.by = n]]
    BY <1>5 DEF StartRunning
  <2>3. j = i => row'[j].status = "running" /\ row'[j].by = n
    BY <2>1, <2>2 DEF TypeInv, RunnerTypeOK, SystemTask
  <2>4. pass'[n] = IdlePass
    BY <2>1 DEF TypeInv, RunnerTypeOK
  <2> QED BY <2>1, <2>2, <2>3, <2>4 DEF Starts, TypeInv, RunnerTypeOK
<1>6. ASSUME NEW i \in Rows, NEW status \in {"succeeded", "failed"}, FinishSystemTask(i, status), row' # row
      PROVE  RowMove(j)
  <2>1. /\ row[i].status = "running" /\ Holds(i)
        /\ row' = [row EXCEPT ![i] = [row[i] EXCEPT !.status = status, !.active = FALSE]]
    BY <1>6 DEF FinishSystemTask
  <2>2. j = i => row'[j].status = status /\ row'[j].by = row[j].by
    BY <2>1 DEF TypeInv, RunnerTypeOK, SystemTask
  <2> QED BY <2>1, <2>2 DEF Ends, TypeInv, RunnerTypeOK
<1> QED
  BY <1>1, <1>2, <1>3, <1>4, <1>5, <1>6
  DEF Next, vars, ClaimStep, StaleStep, HandlerEnds, ReadPending, CreateLock, ReadLock, TakeOverLock, Unclaim,
      PassFails, Crash, ListStaleLocks, DeleteStale, RenewSystemTaskLock, HeartbeatFails, ReleaseAfterFinish,
      HandlerGivesUp, Tick

(* A claim goes on with the row it began with, which was pending when it   *)
(* was read.                                                               *)
LEMMA ClaimMoves ==
  ASSUME TypeInv, [Next]_vars, NEW m \in Nodes, Claiming(m)'
  PROVE  \/ Claiming(m) /\ pass'[m].task = pass[m].task
         \/ row' = row /\ row[pass'[m].task].status = "pending"
<1> USE DEF Claiming, Goto, At
<1>0. pass \in [Nodes -> Pass] /\ IdlePass.pc = "idle"
  BY Idling DEF TypeInv, RunnerTypeOK
<1>1. CASE UNCHANGED pass
  BY <1>1
<1>2. CASE Tick
  BY <1>0, <1>2 DEF Tick, Pass
<1>3. ASSUME NEW n \in Nodes, Unclaim(n) \/ DeleteStale(n) \/ Crash(n) PROVE Claiming(m) /\ pass'[m].task = pass[m].task
  BY <1>0, <1>3 DEF Unclaim, DeleteStale, Crash
<1>4. ASSUME NEW n \in Nodes, CreateLock(n) \/ TakeOverLock(n) \/ ExpireOld(n) \/ StartRunning(n) \/ PassFails(n)
      PROVE  Claiming(m) /\ pass'[m].task = pass[m].task
  BY <1>0, <1>4 DEF CreateLock, TakeOverLock, ExpireOld, StartRunning, PassFails, Pass
<1>5. ASSUME NEW n \in Nodes, ReadLock(n) PROVE Claiming(m) /\ pass'[m].task = pass[m].task
  <2>1. ASSUME NEW x PROVE [pass[n] EXCEPT !.pc = "takeover", !.old = x].task = pass[n].task
    <3> DEFINE p == pass[n]
    <3>1. p \in Pass
      BY <1>0
    <3> HIDE DEF p
    <3> SUFFICES [p EXCEPT !.pc = "takeover", !.old = x].task = p.task
      BY DEF p
    <3> QED BY <3>1 DEF Pass
  <2> QED BY <1>0, <1>5, <2>1 DEF ReadLock
<1>6. ASSUME NEW n \in Nodes, ReadPending(n) PROVE \/ Claiming(m) /\ pass'[m].task = pass[m].task
                                                   \/ row' = row /\ row[pass'[m].task].status = "pending"
  <2>1. pass'[n].task = Min(Pending)
    BY <1>0, <1>6, Idling DEF ReadPending, Pass
  <2> QED BY <1>0, <1>6, <2>1, OldestPending DEF ReadPending
<1>7. ASSUME NEW n \in Nodes, ListStaleLocks(n) \/ MarkStale(n) PROVE Claiming(m) /\ pass'[m].task = pass[m].task
  <2>1. pass'[n].pc \in {"mark", "delete"}
    <3>1. ASSUME NEW x, NEW y PROVE [IdlePass EXCEPT !.pc = "mark", !.task = x, !.by = y].pc = "mark"
      BY Idling DEF Pass
    <3>2. CASE ListStaleLocks(n)
      BY <1>0, <3>1, <3>2 DEF ListStaleLocks
    <3>3. CASE MarkStale(n)
      BY <1>0, <3>3 DEF MarkStale, Pass
    <3> QED BY <1>7, <3>2, <3>3
  <2>2. m # n => pass'[m] = pass[m]
    BY <1>0, <1>7 DEF ListStaleLocks, MarkStale
  <2> QED BY <2>1, <2>2
<1> QED
  BY <1>1, <1>2, <1>3, <1>4, <1>5, <1>6, <1>7
  DEF Next, vars, ClaimStep, StaleStep, HandlerEnds, CreateSystemTask, RenewSystemTaskLock, HeartbeatFails,
      FinishSystemTask, ReleaseAfterFinish, HandlerGivesUp

(* Only CreateSystemTask makes a pending row. *)
LEMMA OnlyCreate ==
  ASSUME TypeInv, [Next]_vars, NEW j \in Rows, Creates(j)
  PROVE  \E i \in Rows : CreateSystemTask(i)
<1>1. ASSUME NEW n \in Nodes, ExpireOld(n) PROVE FALSE
  BY <1>1, LeaseExpiredMoves DEF ExpireOld, At, TypeInv, NamesRows, Creates
<1>2. ASSUME NEW n \in Nodes, MarkStale(n) PROVE FALSE
  BY <1>2, LeaseExpiredMoves DEF MarkStale, At, TypeInv, NamesRows, Creates
<1>3. ASSUME NEW n \in Nodes, StartRunning(n) PROVE FALSE
  BY <1>3 DEF StartRunning, At, TypeInv, NamesRows, RunnerTypeOK, Creates
<1>4. ASSUME NEW i \in Rows, NEW status \in {"succeeded", "failed"}, FinishSystemTask(i, status) PROVE FALSE
  BY <1>4 DEF FinishSystemTask, TypeInv, RunnerTypeOK, SystemTask, Creates
<1>5. row' # row
  BY DEF Creates
<1> QED
  BY <1>1, <1>2, <1>3, <1>4, <1>5
  DEF Next, vars, ClaimStep, StaleStep, HandlerEnds, ReadPending, CreateLock, ReadLock, TakeOverLock, Unclaim,
      PassFails, Crash, ListStaleLocks, DeleteStale, RenewSystemTaskLock, HeartbeatFails, ReleaseAfterFinish,
      HandlerGivesUp, Tick

(* Rows stay created in order. *)
LEMMA OrderStep ==
  ASSUME TypeInv, CreatedInOrder, [Next]_vars
  PROVE  CreatedInOrder'
<1>1. ASSUME NEW i \in Rows, CreateSystemTask(i) PROVE CreatedInOrder'
  <2>1. Created = 1..(i - 1)
    BY <1>1, NextIsNew
  <2>2. \A j \in Rows : row'[j].status = IF j = i THEN "pending" ELSE row[j].status
    BY <1>1 DEF CreateSystemTask, TypeInv, RunnerTypeOK
  <2>3. Created' = Created \cup {i}
    BY <2>2 DEF Created
  <2>4. Created' = 1..i /\ i \in 0..MaxRows
    BY <2>1, <2>3, Bounds DEF Rows
  <2> QED BY <2>4 DEF CreatedInOrder
<1>2. ASSUME \A j \in Rows : ~Creates(j) PROVE CreatedInOrder'
  <2>1. \A j \in Rows : row'[j].status # "none" <=> row[j].status # "none"
    BY <1>2, RowMoves DEF RowMove, Starts, Ends
  <2> QED BY <2>1 DEF CreatedInOrder, Created
<1>3. ASSUME NEW j \in Rows, Creates(j) PROVE \E i \in Rows : CreateSystemTask(i)
  BY <1>3, OnlyCreate
<1> QED BY <1>1, <1>2, <1>3

(* Handlers run rows that were started. *)
LEMMA HandlersStep ==
  ASSUME TypeInv, CreatedInOrder, HandlersStarted, [Next]_vars
  PROVE  HandlersStarted'
<1> SUFFICES ASSUME NEW j \in Rows
             PROVE  /\ Working(j)' => row'[j].status \notin {"none", "pending"}
                    /\ handler'[j] = "release" => row'[j].status \in {"succeeded", "failed"}
  BY DEF HandlersStarted
<1> USE DEF Working
<1>0. /\ handler \in [Rows -> {"none", "work", "cancelled", "release", "done"}]
      /\ Working(j) => row[j].status \notin {"none", "pending"}
      /\ handler[j] = "release" => row[j].status \in {"succeeded", "failed"}
  BY DEF TypeInv, RunnerTypeOK, HandlersStarted
<1>1. RowMove(j)
  BY RowMoves
<1>2. CASE handler'[j] = handler[j]
  BY <1>0, <1>1, <1>2 DEF RowMove, Creates, Starts, Ends
<1>3. CASE handler'[j] = "done"
  BY <1>3
<1>4. CASE handler'[j] = "cancelled" /\ handler[j] = "work" /\ row' = row
  BY <1>0, <1>4
<1>5. ASSUME NEW n \in Nodes, StartRunning(n), handler'[j] # handler[j] PROVE row'[j].status = "running" /\ handler'[j] # "release"
  <2> DEFINE i == pass[n].task
  <2>1. i \in Rows /\ row[i].status = "pending"
    BY <1>5 DEF StartRunning, At, TypeInv, NamesRows
  <2>2. row' = [row EXCEPT ![i] = [row[i] EXCEPT !.status = "running", !.by = n]]
    BY <1>5, <2>1 DEF StartRunning
  <2>3. j = i /\ handler'[j] # "release"
    BY <1>0, <1>5, <2>1 DEF StartRunning
  <2> QED BY <2>1, <2>2, <2>3 DEF TypeInv, RunnerTypeOK, SystemTask
<1>6. ASSUME NEW i \in Rows, NEW status \in {"succeeded", "failed"}, FinishSystemTask(i, status),
             handler'[j] # handler[j], handler'[j] # "done"
      PROVE  handler'[j] = "release" /\ row'[j].status \in {"succeeded", "failed"}
  <2>1. j = i /\ handler'[j] = "release" /\ row' = [row EXCEPT ![i] = [row[i] EXCEPT !.status = status, !.active = FALSE]]
    BY <1>0, <1>6 DEF FinishSystemTask
  <2> QED BY <2>1 DEF TypeInv, RunnerTypeOK, SystemTask
<1>7. \/ handler'[j] = handler[j]
      \/ handler'[j] = "done"
      \/ handler'[j] = "cancelled" /\ handler[j] = "work" /\ row' = row
      \/ \E n \in Nodes : StartRunning(n)
      \/ \E i \in Rows, status \in {"succeeded", "failed"} : FinishSystemTask(i, status)
  BY <1>0
  DEF Next, vars, ClaimStep, StaleStep, HandlerEnds, CreateSystemTask, ReadPending, CreateLock, ReadLock,
      TakeOverLock, ExpireOld, MarkStale, Unclaim, PassFails, Crash, ListStaleLocks, DeleteStale,
      RenewSystemTaskLock, HeartbeatFails, ReleaseAfterFinish, HandlerGivesUp, Tick
<1> QED BY <1>2, <1>3, <1>4, <1>5, <1>6, <1>7

(* A node claims no row it has started: its claim ended with the start. *)
LEMMA NotOwnStep ==
  ASSUME TypeInv, CreatedInOrder, NotClaimingOwn, [Next]_vars
  PROVE  NotClaimingOwn'
<1> SUFFICES ASSUME NEW n \in Nodes, NEW i \in Rows, Claiming(n)', pass'[n].task = i,
                    row'[i].status \notin {"none", "pending"}
             PROVE  row'[i].by # n
  BY DEF NotClaimingOwn
<1>1. \/ Claiming(n) /\ pass[n].task = i
      \/ row' = row /\ row[i].status = "pending"
  BY ClaimMoves
<1>2. Claiming(n) /\ pass[n].task = i
  BY <1>1
<1>3. RowMove(i)
  BY RowMoves
<1>4. ASSUME NEW m \in Nodes, Starts(m, i) PROVE row'[i].by # n
  BY <1>4, Idling DEF Starts, Claiming
<1> QED BY <1>2, <1>3, <1>4 DEF RowMove, Creates, Ends, NotClaimingOwn

OrderTypeInv == TypeInv /\ OrderInv

(* The order of rows, handlers and claims is an invariant. *)
LEMMA Ordering == Spec => []OrderTypeInv
<1>1. Init => OrderTypeInv
  <2> SUFFICES ASSUME Init PROVE OrderTypeInv
    OBVIOUS
  <2>1. TypeInv
    BY InitTypes
  <2>2. CreatedInOrder
    <3>1. Created = 1..0 /\ 0 \in 0..MaxRows
      BY Bounds DEF Init, Created
    <3> QED BY <3>1 DEF CreatedInOrder
  <2>3. HandlersStarted /\ NotClaimingOwn
    BY DEF Init, HandlersStarted, NotClaimingOwn, Working
  <2> QED BY <2>1, <2>2, <2>3 DEF OrderTypeInv, OrderInv
<1>2. OrderTypeInv /\ [Next]_vars => OrderTypeInv'
  BY TypeStep, OrderStep, HandlersStep, NotOwnStep DEF OrderTypeInv, OrderInv
<1> QED BY <1>1, <1>2, PTL DEF Spec

(* The outcome of a job is written once and never changes, and success is  *)
(* written under a live lease (FinishSystemTask), whatever happens to the  *)
(* node that ran it.                                                       *)
THEOREM OutcomesAreFinal == Spec => OutcomeIsFinal
<1>1. ASSUME OrderTypeInv, [Next]_vars, NEW i \in Rows
      PROVE  /\ row[i].status \in {"succeeded", "failed"} => row'[i] = row[i]
             /\ row[i].status = "running" /\ row'[i].status = "succeeded" => Holds(i)
  BY <1>1, RowMoves DEF OrderTypeInv, OrderInv, RowMove, Creates, Starts, Ends
<1>2. OrderTypeInv /\ [Next]_vars =>
        [\A i \in Rows :
            /\ row[i].status \in {"succeeded", "failed"} => row'[i] = row[i]
            /\ row[i].status = "running" /\ row'[i].status = "succeeded" => Holds(i)]_vars
  BY <1>1
<1> QED BY Ordering, <1>2, PTL DEF Spec, OutcomeIsFinal

(* While the lease of a working handler lives, its lock stays its own: no  *)
(* takeover, stale pass, release or failed claim of any node touches it.   *)
THEOREM LeasesRespected == Spec => LeaseRespected
<1>1. ASSUME OrderTypeInv, [Next]_vars, NEW i \in Rows, Working(i), Holds(i), handler'[i] = handler[i]
      PROVE  lock'.task = i /\ lock'.by = lock.by
  <2>0. /\ lock \in SystemTaskLock /\ pass \in [Nodes -> Pass] /\ TypeInv /\ NotClaimingOwn
        /\ lock.task = i /\ lock.by = row[i].by /\ lock.left >= 0 /\ i # 0
        /\ row[i].status \notin {"none", "pending"}
    BY <1>1, Bounds DEF OrderTypeInv, OrderInv, TypeInv, RunnerTypeOK, Holds, HolderOf, HandlersStarted, Rows
  <2>1. lock # NoLock
    BY <2>0 DEF NoLock
  <2>2. \A n \in Nodes : ~ExpiredAt(n)
    BY <2>0, Bounds DEF ExpiredAt, SystemTaskLock, Pass
  <2>3. ASSUME NEW n \in Nodes, CreateLock(n) \/ TakeOverLock(n) \/ DeleteStale(n) PROVE lock' = lock
    BY <2>1, <2>2, <2>3 DEF CreateLock, TakeOverLock, DeleteStale
  <2>4. ASSUME NEW n \in Nodes, Unclaim(n) PROVE lock' = lock
    <3>1. Claiming(n)
      BY <2>4 DEF Unclaim, At, Claiming
    <3>2. ~(pass[n].task = i /\ lock.by = n)
      BY <2>0, <3>1 DEF NotClaimingOwn
    <3> QED BY <2>0, <2>4, <3>2 DEF Unclaim, Released
  <2>5. ASSUME NEW j \in Rows, ReleaseAfterFinish(j) PROVE lock' = lock
    BY <1>1, <2>0, <2>5 DEF ReleaseAfterFinish, Released, Working
  <2>6. ASSUME NEW j \in Rows, RenewSystemTaskLock(j) PROVE lock'.task = lock.task /\ lock'.by = lock.by
    BY <2>0, <2>6 DEF RenewSystemTaskLock, SystemTaskLock
  <2>7. ASSUME Tick PROVE lock'.task = lock.task /\ lock'.by = lock.by
    BY <2>0, <2>7 DEF Tick, SystemTaskLock
  <2>8. \/ lock' = lock
        \/ \E n \in Nodes : CreateLock(n) \/ TakeOverLock(n) \/ DeleteStale(n) \/ Unclaim(n)
        \/ \E j \in Rows : ReleaseAfterFinish(j) \/ RenewSystemTaskLock(j)
        \/ Tick
    BY <1>1
    DEF Next, vars, ClaimStep, StaleStep, HandlerEnds, CreateSystemTask, ReadPending, ReadLock, ExpireOld,
        StartRunning, PassFails, Crash, ListStaleLocks, MarkStale, HeartbeatFails, FinishSystemTask, HandlerGivesUp
  <2> QED BY <2>0, <2>3, <2>4, <2>5, <2>6, <2>7, <2>8
<1>2. OrderTypeInv /\ [Next]_vars =>
        [\A i \in Rows : Working(i) /\ Holds(i) /\ handler'[i] = handler[i]
            => lock'.task = i /\ lock'.by = lock.by]_vars
  BY <1>1
<1> QED BY Ordering, <1>2, PTL DEF Spec, LeaseRespected

-----------------------------------------------------------------------------
(* What follows needs a pass to be shorter than a lease. *)
LockTypeInv == OrderTypeInv /\ LockInv

(* The lease of a pass that acquired the lock is alive to every pass. *)
LEMMA AcquiredAlive ==
  ASSUME LockTypeInv, MaxPause <= TTL, NEW n \in Nodes, Acquired(n)
  PROVE  lock # NoLock /\ lock.left >= 0 /\ \A m \in Nodes : ~ExpiredAt(m)
<1>1. lock.task = pass[n].task /\ lock.left + pass[n].age >= TTL /\ pass[n].task \in Rows
  BY DEF LockTypeInv, LockInv, PassesOK, PassOK, ClaimExclusive, OrderTypeInv, TypeInv, NamesRows, Acquired
<1>2. lock \in SystemTaskLock /\ pass \in [Nodes -> Pass]
  BY DEF LockTypeInv, OrderTypeInv, TypeInv, RunnerTypeOK
<1>3. lock # NoLock
  BY <1>1, Bounds DEF NoLock, Rows
<1>4. /\ lock.left \in Int
      /\ \A m \in Nodes : pass[m].age \in Nat /\ pass[m].age <= MaxPause
  BY <1>2, Bounds DEF SystemTaskLock, Pass
<1>5. lock.left >= 0
  BY <1>1, <1>4, Bounds
<1> QED BY <1>3, <1>4, <1>5 DEF ExpiredAt

(* A row that is started has a live lease: the statement that starts it    *)
(* does not look at the lock, but its pass still holds it.                 *)
LEMMA StartedAlive ==
  ASSUME LockTypeInv, MaxPause <= TTL, NEW n \in Nodes, NEW j \in Rows, Starts(n, j)
  PROVE  lock.task = j /\ lock.by = n /\ \A m \in Nodes : ~ExpiredAt(m)
<1>1. Acquired(n) /\ pass[n].task = j
  BY DEF Starts, At, Acquired
<1> QED BY <1>1, AcquiredAlive DEF LockTypeInv, LockInv, PassesOK, PassOK, ClaimExclusive

(* At most one row is active: the unique index on active_key. *)
LEMMA OneActiveStep ==
  ASSUME LockTypeInv, [Next]_vars
  PROVE  OneActive'
<1>0. TypeInv /\ TypeInv' /\ CreatedInOrder
  BY TypeStep DEF LockTypeInv, OrderTypeInv, OrderInv
<1>1. ASSUME NEW i \in Rows, CreateSystemTask(i) PROVE OneActive'
  BY <1>0, <1>1 DEF CreateSystemTask, OneActive, TypeInv, RunnerTypeOK
<1>2. ASSUME \A j \in Rows : ~Creates(j) PROVE OneActive'
  <2>1. ASSUME NEW j \in Rows PROVE row'[j].status \in {"pending", "running"} => row[j].status \in {"pending", "running"}
    BY <1>0, <1>2, RowMoves DEF RowMove, Starts, Ends
  <2>2. \A j \in Rows : row'[j].active => row[j].active
    BY <1>0, <2>1 DEF TypeInv, RunnerTypeOK
  <2> QED BY <2>2 DEF OneActive, LockTypeInv, LockInv
<1>3. ASSUME NEW j \in Rows, Creates(j) PROVE \E i \in Rows : CreateSystemTask(i)
  BY <1>0, <1>3, OnlyCreate
<1> QED BY <1>1, <1>2, <1>3

(* How a pass goes on as long as rows and lock stay. *)
PassMove(n) ==
    \/ pass'[n] = pass[n]
    \/ pass'[n].pc \in {"idle", "mark"}
    \/ /\ pass'[n].task = pass[n].task /\ pass'[n].age = pass[n].age
       /\ (Acquired(n) /\ Acquired(n)') \/ (Before(n) /\ Before(n)')
    \/ Before(n)' /\ row[pass'[n].task].status = "pending"

(* Such a pass stays what the invariant says of it. *)
LEMMA PassGoesOn ==
  ASSUME NEW n \in Nodes, PassOK(n), PassMove(n), lock' = lock, row' = row
  PROVE  PassOK(n)'
BY DEF PassOK, PassMove, ClaimExclusive, StalePass, Acquired, Before, ExpiredAt

(* A pass of which nothing changes is not disturbed by what happens to the *)
(* rows: a row it looks at is started under a live lease only.             *)
LEMMA RowsMoveOn ==
  ASSUME LockTypeInv, MaxPause <= TTL, [Next]_vars, NEW m \in Nodes, pass'[m] = pass[m], lock' = lock
  PROVE  PassOK(m)'
<1> DEFINE i == pass[m].task
<1>0. TypeInv /\ CreatedInOrder /\ PassOK(m)
  BY DEF LockTypeInv, OrderTypeInv, OrderInv, LockInv, PassesOK
<1>1. CASE pass[m].pc \in {"idle", "mark"}
  BY <1>1 DEF PassOK, ClaimExclusive, StalePass, Acquired, Before
<1>2. CASE pass[m].pc \notin {"idle", "mark"}
  <2>1. i \in Rows
    BY <1>0, <1>2 DEF TypeInv, NamesRows
  <2>2. RowMove(i)
    BY <1>0, <2>1, RowMoves
  <2>3. ASSUME NEW n \in Nodes, Starts(n, i) PROVE ~Acquired(m) /\ ~ExpiredAt(m)
    <3>1. lock.by = n /\ ~ExpiredAt(m)
      BY <2>1, <2>3, StartedAlive
    <3>2. n # m
      BY <1>2, <2>3, Idling DEF Starts
    <3> QED BY <1>0, <3>1, <3>2 DEF PassOK, ClaimExclusive
  <2> HIDE DEF i
  <2>4. (ExpiredAt(m)' <=> ExpiredAt(m)) /\ (Acquired(m)' <=> Acquired(m)) /\ (Before(m)' <=> Before(m))
    BY DEF ExpiredAt, Acquired, Before
  <2>5. ClaimExclusive(m)'
    BY <1>0, <2>2, <2>3, <2>4 DEF i, PassOK, ClaimExclusive, RowMove, Creates, Starts, Ends
  <2>6. StalePass(m)'
    BY <1>0, <2>2, <2>3, <2>4 DEF i, PassOK, StalePass, RowMove, Creates, Starts, Ends
  <2> QED BY <2>5, <2>6 DEF PassOK
<1> QED BY <1>1, <1>2

(* A running row keeps its lock as long as the lock names the same row. *)
LEMMA RunningStays ==
  ASSUME LockTypeInv, MaxPause <= TTL, [Next]_vars, lock'.task = lock.task
  PROVE  RunningHasLock'
<1> SUFFICES ASSUME NEW j \in Rows, row'[j].status = "running" PROVE lock'.task = j
  BY DEF RunningHasLock
<1>1. RowMove(j)
  BY RowMoves DEF LockTypeInv, OrderTypeInv, OrderInv
<1>2. ASSUME NEW n \in Nodes, Starts(n, j) PROVE lock.task = j
  BY <1>2, StartedAlive
<1> QED BY <1>1, <1>2 DEF RowMove, Creates, Ends, LockTypeInv, LockInv, RunningHasLock

(* A lock is created or taken over while no row runs and no pass holds it. *)
LEMMA LockTaken ==
  ASSUME LockTypeInv, MaxPause <= TTL, NEW n \in Nodes, Before(n),
         lock = NoLock \/ (ExpiredAt(n) /\ row[pass[n].task].status = "pending"),
         lock' = LockFor(n), row' = row,
         pass'[n].task = pass[n].task, pass'[n].age = pass[n].age, Acquired(n)',
         \A m \in Nodes : m # n => pass'[m] = pass[m]
  PROVE  PassesOK' /\ RunningHasLock'
<1>0. TypeInv /\ LockInv /\ pass \in [Nodes -> Pass]
  BY DEF LockTypeInv, OrderTypeInv, TypeInv, RunnerTypeOK
<1>1. pass[n].task \in Rows
  BY <1>0 DEF Before, TypeInv, NamesRows
<1>2. \A j \in Rows : row[j].status # "running"
  <2>1. CASE lock = NoLock
    BY <1>0, <2>1, Bounds DEF LockInv, RunningHasLock, NoLock, Rows
  <2>2. CASE row[pass[n].task].status = "pending"
    BY <1>0, <1>1, <2>2 DEF LockInv, OneActive, TypeInv, RunnerTypeOK
  <2> QED BY <2>1, <2>2
<1>3. \A m \in Nodes : ~Acquired(m)
  BY AcquiredAlive
<1>4. \A m \in Nodes : pass[m].age \in Nat /\ pass[m].age <= MaxPause
  BY <1>0, Bounds DEF Pass
<1>5. lock'.task = pass[n].task /\ lock'.by = n /\ lock'.left = TTL - pass[n].age /\ lock'.left >= 0
  BY <1>4, Bounds DEF LockFor
<1>6. ASSUME NEW m \in Nodes PROVE ~ExpiredAt(m)'
  BY <1>4, <1>5, Bounds DEF ExpiredAt
<1>7. ASSUME NEW m \in Nodes PROVE PassOK(m)'
  <2>1. CASE m = n
    <3>1. ClaimExclusive(n)'
      BY <1>1, <1>2, <1>4, <1>5, Bounds DEF ClaimExclusive
    <3> QED BY <2>1, <3>1, <1>6 DEF PassOK, StalePass
  <2>2. CASE m # n
    BY <2>2, <1>3, <1>6 DEF PassOK, ClaimExclusive, StalePass, Acquired
  <2> QED BY <2>1, <2>2
<1> QED BY <1>2, <1>7 DEF PassesOK, RunningHasLock

(* A lock is released or deleted when its row has ended. *)
LEMMA LockFreed ==
  ASSUME \A j \in Rows : lock.task = j => row[j].status # "running", RunningHasLock,
         lock' = NoLock, row' = row, \A m \in Nodes : ~Acquired(m)'
  PROVE  PassesOK' /\ RunningHasLock'
<1>1. RunningHasLock'
  BY DEF RunningHasLock
<1>2. ASSUME NEW m \in Nodes PROVE PassOK(m)'
  BY DEF PassOK, ClaimExclusive, StalePass, ExpiredAt
<1> QED BY <1>1, <1>2 DEF PassesOK

(* A renewal, and time, change the lease of the lock alone. *)
LEMMA LeaseMoved ==
  ASSUME PassesOK, RunningHasLock, lock'.task = lock.task, lock'.by = lock.by, row' = row,
         \A m \in Nodes : /\ Acquired(m)' => Acquired(m)
                          /\ Before(m)' => Before(m)
                          /\ pass'[m].pc = "delete" => pass[m].pc = "delete"
                          /\ pass'[m].task = pass[m].task
                          /\ ExpiredAt(m)' => ExpiredAt(m)
                          /\ Acquired(m) => lock'.left + pass'[m].age >= TTL
  PROVE  PassesOK' /\ RunningHasLock'
<1>1. RunningHasLock'
  BY DEF RunningHasLock
<1>2. ASSUME NEW m \in Nodes PROVE PassOK(m)'
  <2>1. ClaimExclusive(m)'
    BY DEF PassesOK, PassOK, ClaimExclusive
  <2>2. StalePass(m)'
    BY DEF PassesOK, PassOK, StalePass
  <2> QED BY <2>1, <2>2 DEF PassOK
<1> QED BY <1>1, <1>2 DEF PassesOK

(* An action that leaves the lock alone and of which the invariant holds   *)
(* for the pass that moved, if one did.                                    *)
LEMMA LockKept ==
  ASSUME LockTypeInv, MaxPause <= TTL, [Next]_vars, lock' = lock,
         \A m \in Nodes : pass'[m] = pass[m] \/ PassOK(m)'
  PROVE  PassesOK' /\ RunningHasLock'
<1>1. ASSUME NEW m \in Nodes PROVE PassOK(m)'
  BY RowsMoveOn
<1> QED BY <1>1, RunningStays DEF PassesOK

(* ClaimSystemTask keeps the invariant, statement by statement. *)
LEMMA ClaimKeeps ==
  ASSUME LockTypeInv, MaxPause <= TTL, NEW n \in Nodes, ClaimStep(n)
  PROVE  PassesOK' /\ RunningHasLock'
<1>0. /\ [Next]_vars
      /\ TypeInv /\ pass \in [Nodes -> Pass] /\ IdlePass.pc = "idle" /\ IdlePass \in Pass /\ PassOK(n)
  BY Idling DEF Next, LockTypeInv, OrderTypeInv, TypeInv, RunnerTypeOK, LockInv, PassesOK
<1>a. ASSUME NEW p, pass' = [pass EXCEPT ![n] = p]
      PROVE  pass'[n] = p /\ \A m \in Nodes : m # n => pass'[m] = pass[m]
  BY <1>0, <1>a
<1>b. ASSUME NEW p \in Pass, NEW pc PROVE [p EXCEPT !.pc = pc].pc = pc /\ [p EXCEPT !.pc = pc].task = p.task
                                          /\ [p EXCEPT !.pc = pc].age = p.age
  BY DEF Pass
<1>c. ASSUME pass' = [pass EXCEPT ![n] = IdlePass] PROVE PassOK(n)'
  BY <1>0, <1>a, <1>c DEF PassOK, ClaimExclusive, StalePass, Acquired, Before
<1> USE DEF At, Goto
<1>1. CASE ReadPending(n)
  <2>1. ASSUME NEW x PROVE /\ [IdlePass EXCEPT !.pc = "lock", !.task = x].pc = "lock"
                           /\ [IdlePass EXCEPT !.pc = "lock", !.task = x].task = x
    BY <1>0 DEF Pass
  <2>2. pass'[n].pc = "lock" /\ pass'[n].task = Min(Pending) /\ \A m \in Nodes : m # n => pass'[m] = pass[m]
    BY <1>1, <1>a, <2>1, ZenonT(60) DEF ReadPending
  <2>3. PassMove(n)
    BY <1>1, <2>2, OldestPending DEF ReadPending, PassMove, Before
  <2>4. PassOK(n)'
    BY <1>0, <1>1, <2>3, PassGoesOn DEF ReadPending
  <2> QED BY <1>0, <1>1, <2>2, <2>4, LockKept DEF ReadPending
<1>2. CASE CreateLock(n)
  <2>0. Before(n) /\ pass[n] \in Pass
    BY <1>0, <1>2 DEF CreateLock, Before
  <2>1. CASE lock = NoLock
    <3>1. lock' = LockFor(n) /\ row' = row /\ pass' = [pass EXCEPT ![n] = [pass[n] EXCEPT !.pc = "run"]]
      BY <1>2, <2>1 DEF CreateLock
    <3>2. /\ pass'[n].pc = "run" /\ pass'[n].task = pass[n].task /\ pass'[n].age = pass[n].age
          /\ \A m \in Nodes : m # n => pass'[m] = pass[m]
      BY <1>a, <1>b, <2>0, <3>1, ZenonT(60)
    <3>3. Acquired(n)'
      BY <3>2 DEF Acquired
    <3> QED BY <2>0, <2>1, <3>1, <3>2, <3>3, LockTaken
  <2>2. CASE lock # NoLock
    <3>1. lock' = lock /\ row' = row /\ pass' = [pass EXCEPT ![n] = [pass[n] EXCEPT !.pc = "existing"]]
      BY <1>2, <2>2 DEF CreateLock
    <3>2. /\ pass'[n].pc = "existing" /\ pass'[n].task = pass[n].task /\ pass'[n].age = pass[n].age
          /\ \A m \in Nodes : m # n => pass'[m] = pass[m]
      BY <1>a, <1>b, <2>0, <3>1, ZenonT(60)
    <3>3. PassMove(n)
      BY <2>0, <3>2 DEF PassMove, Before
    <3> QED BY <1>0, <3>1, <3>2, <3>3, PassGoesOn, LockKept
  <2> QED BY <2>1, <2>2
<1>3. CASE ReadLock(n)
  <2>0. Before(n) /\ pass[n] \in Pass /\ lock' = lock /\ row' = row
    BY <1>0, <1>3 DEF ReadLock, Before
  <2>1. ASSUME NEW p \in Pass, NEW x PROVE /\ [p EXCEPT !.pc = "takeover", !.old = x].pc = "takeover"
                                           /\ [p EXCEPT !.pc = "takeover", !.old = x].task = p.task
                                           /\ [p EXCEPT !.pc = "takeover", !.old = x].age = p.age
    BY DEF Pass
  <2>2. PICK p : pass' = [pass EXCEPT ![n] = p] /\ (p = IdlePass \/ p = [pass[n] EXCEPT !.pc = "takeover", !.old = lock.task])
    BY <1>3 DEF ReadLock
  <2>3. pass'[n] = p /\ \A m \in Nodes : m # n => pass'[m] = pass[m]
    BY <1>a, <2>2
  <2>4. PassMove(n)
    <3>1. CASE p = IdlePass
      BY <1>0, <2>3, <3>1 DEF PassMove
    <3>2. CASE p = [pass[n] EXCEPT !.pc = "takeover", !.old = lock.task]
      <4>1. pass'[n].pc = "takeover" /\ pass'[n].task = pass[n].task /\ pass'[n].age = pass[n].age
        BY <2>0, <2>1, <2>3, <3>2
      <4> QED BY <2>0, <4>1 DEF PassMove, Before
    <3> QED BY <2>2, <3>1, <3>2
  <2> QED BY <1>0, <2>0, <2>3, <2>4, PassGoesOn, LockKept
<1>4. CASE TakeOverLock(n)
  <2>0. Before(n) /\ pass[n] \in Pass /\ row' = row
    BY <1>0, <1>4 DEF TakeOverLock, Before
  <2>1. CASE ExpiredAt(n)
    <3>1. PICK pc \in {"run", "expire"} : pass' = [pass EXCEPT ![n] = [pass[n] EXCEPT !.pc = pc]]
      BY <1>4, <2>1 DEF TakeOverLock
    <3>2. /\ pass'[n].pc = pc /\ pass'[n].task = pass[n].task /\ pass'[n].age = pass[n].age
          /\ \A m \in Nodes : m # n => pass'[m] = pass[m]
      BY <1>a, <1>b, <2>0, <3>1, ZenonT(60)
    <3>3. Acquired(n)' /\ lock' = LockFor(n)
      BY <1>4, <2>1, <3>2 DEF Acquired, TakeOverLock
    <3>4. row[pass[n].task].status = "pending"
      BY <1>0, <2>0, <2>1 DEF PassOK, StalePass
    <3> QED BY <2>0, <2>1, <3>2, <3>3, <3>4, LockTaken
  <2>2. CASE ~ExpiredAt(n)
    BY <1>0, <1>4, <1>a, <1>c, <2>2, LockKept DEF TakeOverLock
  <2> QED BY <2>1, <2>2
<1>5. CASE ExpireOld(n)
  <2>1. lock' = lock /\ pass' = [pass EXCEPT ![n] = [pass[n] EXCEPT !.pc = "run"]] /\ Acquired(n)
    BY <1>5 DEF ExpireOld, Acquired
  <2>2. /\ pass'[n].pc = "run" /\ pass'[n].task = pass[n].task /\ pass'[n].age = pass[n].age
        /\ \A m \in Nodes : m # n => pass'[m] = pass[m]
    BY <1>0, <1>a, <1>b, <2>1
  <2>3. pass[n].old \in Rows /\ pass[n].task \in Rows
    BY <1>0, <1>5 DEF ExpireOld, TypeInv, NamesRows
  <2>4. row'[pass[n].task].status # "running"
    BY <1>0, <1>5, <2>1, <2>3, LeaseExpiredMoves DEF ExpireOld, PassOK, ClaimExclusive
  <2>5. PassOK(n)'
    BY <1>0, <2>1, <2>2, <2>4 DEF PassOK, ClaimExclusive, StalePass, Before
  <2> QED BY <1>0, <2>1, <2>2, <2>5, LockKept
<1>6. CASE StartRunning(n)
  <2>1. CASE row[pass[n].task].status = "pending"
    BY <1>0, <1>6, <1>a, <1>c, <2>1, LockKept DEF StartRunning
  <2>2. CASE row[pass[n].task].status # "pending"
    <3>1. lock' = lock /\ row' = row /\ pass' = [pass EXCEPT ![n] = [pass[n] EXCEPT !.pc = "unclaim"]] /\ Acquired(n)
      BY <1>6, <2>2 DEF StartRunning, Acquired
    <3>2. /\ pass'[n].pc = "unclaim" /\ pass'[n].task = pass[n].task /\ pass'[n].age = pass[n].age
          /\ \A m \in Nodes : m # n => pass'[m] = pass[m]
      BY <1>0, <1>a, <1>b, <3>1
    <3>3. PassMove(n)
      <4>1. Acquired(n)'
        BY <3>2 DEF Acquired
      <4> QED BY <3>1, <3>2, <4>1, Zenon DEF PassMove
    <3> QED BY <1>0, <3>1, <3>2, <3>3, PassGoesOn, LockKept
  <2> QED BY <2>1, <2>2
<1>7. CASE Unclaim(n)
  <2>1. Acquired(n) /\ row' = row /\ pass' = [pass EXCEPT ![n] = IdlePass]
    BY <1>7 DEF Unclaim, Acquired
  <2>2. CASE lock' = lock
    BY <1>0, <1>a, <1>c, <2>1, <2>2, LockKept
  <2>3. CASE lock' = NoLock /\ lock.task = pass[n].task /\ lock.by = n
    <3>1. \A m \in Nodes : ~Acquired(m)'
      <4> SUFFICES ASSUME NEW m \in Nodes PROVE ~Acquired(m)'
        OBVIOUS
      <4>1. m # n => ~Acquired(m)
        BY <2>3 DEF LockTypeInv, LockInv, PassesOK, PassOK, ClaimExclusive
      <4> QED BY <1>0, <1>a, <2>1, <4>1 DEF Acquired
    <3>2. row[pass[n].task].status # "running" /\ RunningHasLock
      BY <1>0, <2>1 DEF PassOK, ClaimExclusive, LockTypeInv, LockInv
    <3> QED BY <2>1, <2>3, <3>1, <3>2, LockFreed
  <2> QED BY <1>7, <2>2, <2>3 DEF Unclaim, Released
<1> QED BY <1>1, <1>2, <1>3, <1>4, <1>5, <1>6, <1>7 DEF ClaimStep

(* So does ExpireStaleSystemTaskLocks, and so do failed statements and     *)
(* stops: a lock that is deleted has expired, and its row was marked.      *)
LEMMA StaleKeeps ==
  ASSUME LockTypeInv, MaxPause <= TTL, NEW n \in Nodes, StaleStep(n) \/ PassFails(n) \/ Crash(n)
  PROVE  PassesOK' /\ RunningHasLock'
<1>0. /\ [Next]_vars
      /\ TypeInv /\ pass \in [Nodes -> Pass] /\ IdlePass.pc = "idle" /\ IdlePass \in Pass /\ PassOK(n)
  BY Idling DEF Next, LockTypeInv, OrderTypeInv, TypeInv, RunnerTypeOK, LockInv, PassesOK
<1>a. ASSUME NEW p, pass' = [pass EXCEPT ![n] = p]
      PROVE  pass'[n] = p /\ \A m \in Nodes : m # n => pass'[m] = pass[m]
  BY <1>0, <1>a
<1>b. ASSUME NEW p \in Pass, NEW pc PROVE [p EXCEPT !.pc = pc].pc = pc /\ [p EXCEPT !.pc = pc].task = p.task
                                          /\ [p EXCEPT !.pc = pc].age = p.age
  BY DEF Pass
<1>c. ASSUME pass' = [pass EXCEPT ![n] = IdlePass] PROVE PassOK(n)'
  BY <1>0, <1>a, <1>c DEF PassOK, ClaimExclusive, StalePass, Acquired, Before
<1> USE DEF At, Goto
<1>1. CASE ListStaleLocks(n)
  <2>1. ASSUME NEW x, NEW y PROVE [IdlePass EXCEPT !.pc = "mark", !.task = x, !.by = y].pc = "mark"
    BY <1>0 DEF Pass
  <2>2. pass'[n].pc = "mark" /\ \A m \in Nodes : m # n => pass'[m] = pass[m]
    <3>1. PICK x, y : pass' = [pass EXCEPT ![n] = [IdlePass EXCEPT !.pc = "mark", !.task = x, !.by = y]]
      BY <1>1 DEF ListStaleLocks
    <3> QED BY <1>a, <2>1, <3>1, ZenonT(60)
  <2>3. PassMove(n)
    BY <2>2 DEF PassMove
  <2> QED BY <1>0, <1>1, <2>2, <2>3, PassGoesOn, LockKept DEF ListStaleLocks
<1>2. CASE MarkStale(n)
  <2>1. lock' = lock /\ pass' = [pass EXCEPT ![n] = [pass[n] EXCEPT !.pc = "delete"]]
    BY <1>2 DEF MarkStale
  <2>2. /\ pass'[n].pc = "delete" /\ pass'[n].task = pass[n].task
        /\ \A m \in Nodes : m # n => pass'[m] = pass[m]
    BY <1>0, <1>a, <1>b, <2>1
  <2>3. pass[n].task \in Rows /\ row' = LeaseExpired(pass[n].task)
    BY <1>0, <1>2 DEF MarkStale, TypeInv, NamesRows
  <2>4. row'[pass[n].task].status # "running"
    BY <1>0, <2>3 DEF LeaseExpired, TypeInv, RunnerTypeOK, SystemTask
  <2>5. PassOK(n)'
    BY <2>2, <2>4 DEF PassOK, ClaimExclusive, StalePass, Acquired, Before
  <2> QED BY <1>0, <2>1, <2>2, <2>5, LockKept
<1>3. CASE DeleteStale(n)
  <2>1. row' = row /\ pass' = [pass EXCEPT ![n] = IdlePass]
    BY <1>3 DEF DeleteStale
  <2>2. CASE lock' = lock
    BY <1>0, <1>a, <1>c, <2>1, <2>2, LockKept
  <2>3. CASE lock' = NoLock /\ lock.task = pass[n].task /\ ExpiredAt(n)
    <3>1. \A m \in Nodes : ~Acquired(m)
      BY <2>3, AcquiredAlive
    <3>2. \A m \in Nodes : ~Acquired(m)'
      BY <1>0, <1>a, <2>1, <3>1 DEF Acquired
    <3>3. row[pass[n].task].status # "running" /\ RunningHasLock
      BY <1>0, <1>3, <2>3 DEF DeleteStale, PassOK, StalePass, LockTypeInv, LockInv
    <3> QED BY <2>1, <2>3, <3>2, <3>3, LockFreed
  <2> QED BY <1>3, <2>2, <2>3 DEF DeleteStale
<1>4. CASE PassFails(n)
  <2>1. lock' = lock /\ row' = row
    BY <1>4 DEF PassFails
  <2>2. CASE pass' = [pass EXCEPT ![n] = IdlePass]
    BY <1>0, <1>a, <1>c, <2>1, <2>2, LockKept
  <2>3. CASE Acquired(n) /\ pass' = [pass EXCEPT ![n] = [pass[n] EXCEPT !.pc = "unclaim"]]
    <3>1. /\ pass'[n].pc = "unclaim" /\ pass'[n].task = pass[n].task /\ pass'[n].age = pass[n].age
          /\ \A m \in Nodes : m # n => pass'[m] = pass[m]
      BY <1>0, <1>a, <1>b, <2>3
    <3>2. Acquired(n)'
      BY <3>1 DEF Acquired
    <3>3. PassMove(n)
      BY <2>3, <3>1, <3>2, Zenon DEF PassMove
    <3> QED BY <1>0, <2>1, <3>1, <3>3, PassGoesOn, LockKept
  <2> QED BY <1>4, <2>2, <2>3 DEF PassFails, Acquired
<1>5. CASE Crash(n)
  BY <1>0, <1>5, <1>a, <1>c, LockKept DEF Crash
<1> QED BY <1>1, <1>2, <1>3, <1>4, <1>5 DEF StaleStep

(* A handler and its heartbeat keep the invariant: what a finished handler *)
(* releases is the lock of its own row.                                    *)
LEMMA HandlerKeeps ==
  ASSUME LockTypeInv, MaxPause <= TTL, NEW i \in Rows,
         RenewSystemTaskLock(i) \/ HeartbeatFails(i) \/ HandlerEnds(i) \/ HandlerGivesUp(i)
  PROVE  PassesOK' /\ RunningHasLock'
<1>0. [Next]_vars /\ TypeInv /\ OrderInv /\ PassesOK /\ RunningHasLock
  BY DEF Next, LockTypeInv, OrderTypeInv, LockInv
<1>1. CASE RenewSystemTaskLock(i)
  <2>1. lock \in SystemTaskLock /\ pass \in [Nodes -> Pass]
    BY <1>0 DEF TypeInv, RunnerTypeOK
  <2>2. lock'.task = lock.task /\ lock'.by = lock.by /\ lock'.left = TTL /\ row' = row /\ pass' = pass
    BY <1>1, <2>1 DEF RenewSystemTaskLock, SystemTaskLock
  <2>3. \A m \in Nodes : pass'[m].age \in Nat
    BY <2>1, <2>2, Bounds DEF Pass
  <2>4. \A m \in Nodes : ~ExpiredAt(m)' /\ lock'.left + pass'[m].age >= TTL
    BY <2>2, <2>3, Bounds DEF ExpiredAt
  <2> QED BY <1>0, <2>2, <2>4, LeaseMoved DEF Acquired, Before
<1>2. CASE ReleaseAfterFinish(i)
  <2>1. handler[i] = "release" /\ row' = row /\ pass' = pass
    BY <1>2 DEF ReleaseAfterFinish
  <2>2. row[i].status \in {"succeeded", "failed"}
    BY <1>0, <2>1 DEF OrderInv, HandlersStarted
  <2>3. CASE lock' = lock
    BY <1>0, <2>1, <2>3, LockKept
  <2>4. CASE lock' = NoLock /\ lock.task = i /\ lock.by = row[i].by
    <3>1. ASSUME NEW m \in Nodes, Acquired(m) PROVE FALSE
      <4>1. Claiming(m) /\ pass[m].task = i /\ row[i].by = m
        BY <1>0, <2>4, <3>1 DEF PassesOK, PassOK, ClaimExclusive, Acquired, Claiming
      <4> QED BY <1>0, <2>2, <4>1 DEF OrderInv, NotClaimingOwn
    <3>2. \A m \in Nodes : ~Acquired(m)'
      BY <2>1, <3>1 DEF Acquired
    <3> QED BY <1>0, <2>1, <2>2, <2>4, <3>2, LockFreed
  <2> QED BY <1>2, <2>3, <2>4 DEF ReleaseAfterFinish, Released, HolderOf
<1>3. CASE UNCHANGED <<lock, pass>>
  BY <1>0, <1>3, LockKept
<1> QED BY <1>1, <1>2, <1>3 DEF HandlerEnds, HeartbeatFails, FinishSystemTask, HandlerGivesUp

(* Time keeps it: to a pass the lease is as old as when it began. *)
LEMMA TickKeeps ==
  ASSUME LockTypeInv, MaxPause <= TTL, Tick
  PROVE  PassesOK' /\ RunningHasLock'
<1>0. [Next]_vars /\ TypeInv /\ PassesOK /\ RunningHasLock /\ row' = row
  BY DEF Next, Tick, LockTypeInv, OrderTypeInv, LockInv
<1>1. lock \in SystemTaskLock /\ pass \in [Nodes -> Pass] /\ (lock # NoLock => lock.task \in Rows)
  BY <1>0 DEF TypeInv, RunnerTypeOK, NamesRows
<1>2. lock'.task = lock.task /\ lock'.by = lock.by
  BY <1>1 DEF Tick, SystemTaskLock
<1>3. \A m \in Nodes :
        /\ pass'[m].pc = pass[m].pc /\ pass'[m].task = pass[m].task
        /\ pass[m].age \in Nat /\ pass[m].age <= MaxPause /\ pass'[m].age \in Nat /\ pass'[m].age <= MaxPause
        /\ pass[m].pc # "idle" => pass'[m].age = pass[m].age + 1
        /\ pass[m].pc = "idle" => pass'[m].age = pass[m].age
  BY <1>1, Bounds DEF Tick, Pass
<1>4. /\ lock.left \in Int
      /\ \/ lock' = lock /\ (lock = NoLock \/ lock.left = Expired)
         \/ lock # NoLock /\ lock'.left = lock.left - 1
  BY <1>1, Bounds DEF Tick, SystemTaskLock
<1>5. ASSUME NEW m \in Nodes, ExpiredAt(m)' PROVE ExpiredAt(m) \/ pass[m].pc = "idle"
  BY <1>3, <1>4, <1>5, Bounds DEF ExpiredAt
<1>6. ASSUME NEW m \in Nodes, Acquired(m) PROVE lock'.left + pass'[m].age >= TTL
  <2>1. lock # NoLock /\ lock.left >= 0 /\ lock.left + pass[m].age >= TTL /\ pass[m].pc # "idle"
    BY <1>0, <1>6, AcquiredAlive DEF PassesOK, PassOK, ClaimExclusive, Acquired
  <2> QED BY <1>3, <1>4, <2>1, Bounds
<1>7. ASSUME NEW m \in Nodes PROVE PassOK(m)'
  <2>1. ClaimExclusive(m)'
    BY <1>0, <1>2, <1>3, <1>6 DEF PassesOK, PassOK, ClaimExclusive, Acquired
  <2>2. StalePass(m)'
    BY <1>0, <1>3, <1>5 DEF PassesOK, PassOK, StalePass, Before
  <2> QED BY <2>1, <2>2 DEF PassOK
<1> QED BY <1>0, <1>2, <1>7, RunningStays DEF PassesOK

(* The inductive invariant of the lock, for passes shorter than a lease. *)
LEMMA LockInvariant ==
  ASSUME MaxPause <= TTL
  PROVE  Spec => []LockTypeInv
<1>1. Init => LockInv
  <2> SUFFICES ASSUME Init PROVE LockInv
    OBVIOUS
  <2>1. PassesOK
    BY DEF Init, IdlePass, PassesOK, PassOK, ClaimExclusive, StalePass, Acquired, Before
  <2>2. OneActive /\ RunningHasLock
    BY DEF Init, OneActive, RunningHasLock
  <2> QED BY <2>1, <2>2 DEF LockInv
<1>2. LockTypeInv /\ [Next]_vars => LockInv'
  <2> SUFFICES ASSUME LockTypeInv, [Next]_vars PROVE LockInv'
    OBVIOUS
  <2>1. OneActive'
    BY OneActiveStep
  <2>2. CASE (\E i \in Rows : CreateSystemTask(i)) \/ UNCHANGED vars
    <3>1. lock' = lock /\ pass' = pass
      BY <2>2 DEF CreateSystemTask, vars
    <3> QED BY <2>1, <3>1, LockKept DEF LockInv
  <2>3. CASE \E n \in Nodes : ClaimStep(n) \/ StaleStep(n) \/ PassFails(n) \/ Crash(n)
    BY <2>1, <2>3, ClaimKeeps, StaleKeeps DEF LockInv
  <2>4. CASE \E i \in Rows : RenewSystemTaskLock(i) \/ HeartbeatFails(i) \/ HandlerEnds(i) \/ HandlerGivesUp(i)
    BY <2>1, <2>4, HandlerKeeps DEF LockInv
  <2>5. CASE Tick
    BY <2>1, <2>5, TickKeeps DEF LockInv
  <2> QED BY <2>2, <2>3, <2>4, <2>5 DEF Next
<1>3. LockTypeInv <=> OrderTypeInv /\ LockInv
  BY DEF LockTypeInv
<1> QED BY Ordering, <1>1, <1>2, <1>3, PTL DEF Spec

(* A job that nobody runs any more can be expired: if no pass of a node    *)
(* takes longer than a lease, a running row whose handler returned or      *)
(* died still has its lock row, which is what the other nodes look at.     *)
THEOREM OrphansHaveLocks ==
  ASSUME MaxPause <= TTL
  PROVE  Spec => []OrphanHasLock
<1>1. LockTypeInv => OrphanHasLock
  BY DEF LockTypeInv, LockInv, RunningHasLock, OrphanHasLock
<1> QED BY LockInvariant, <1>1, PTL
=============================================================================

------------------------- MODULE SessionCacheProofs -------------------------
(***************************************************************************)
(* A revoked session is refused: proofs about SessionCache, for any number *)
(* of validations and revocations, any TTL and any number of Redis faults. *)
(*                                                                         *)
(* The argument.  A snapshot carries the deadline its request took before  *)
(* it read the row.  A request that read an active row did so before the   *)
(* commit of the revocation, so its deadline is at most one TTL after the  *)
(* commit (Closing).  The tombstone is written after the commit and lives  *)
(* for one TTL from its write, so it is still there while any such         *)
(* deadline is ahead: it refuses the late snapshots, and what reaches      *)
(* Redis after its expiry has expired too.                                 *)
(***************************************************************************)
EXTENDS SessionCache, TLAPS

Revoked == row.status = "revoked"
(* The last moment a snapshot of the row as it was before the commit may live *)
Closing == row.at + TTL
(* The request has read an active row *)
HasSnapshot(p) == reader[p].pc \in {"read", "writing", "written", "stale"}

(* The ghosts follow the row: only a committed revocation sets them. *)
GhostsFollowRow ==
    /\ Revoked => row.at <= now
    /\ ~Revoked => ~over /\ \A r \in Revokers : revoker[r] # "committed"
    /\ \A p \in Readers : reader[p].late => reader[p].after
    /\ \A p \in Readers : reader[p].after => Revoked /\ ~HasSnapshot(p)

(* What was read before the commit is over by Closing. *)
SnapshotsClose ==
    Revoked => /\ \A p \in Readers : HasSnapshot(p) => reader[p].deadline <= Closing
               /\ entry.status = "active" => entry.until <= Closing

(* A deny entry stands until Closing. *)
DenyOutlivesSnapshots ==
    over /\ ~mute => now >= Closing \/ (entry.status \in Deny /\ entry.until >= Closing)

(* What the invariant says beside the types *)
CacheSafety == GhostsFollowRow /\ SnapshotsClose /\ DenyOutlivesSnapshots /\ RevokedIsRefused

(* The inductive invariant *)
CacheInv == CacheTypeOK /\ CacheSafety

-----------------------------------------------------------------------------
(* A step of a validation keeps the types (GetUserSessionCached). *)
LEMMA ReaderTypes ==
  ASSUME CacheTypeOK, NEW p \in Readers,
         Look(p) \/ ReadRow(p) \/ CacheDeny(p) \/ CheckDeadline(p)
            \/ WriteSnapshot(p) \/ CheckCompleted(p) \/ Confirm(p) \/ Leave(p)
  PROVE  CacheTypeOK'
<1> USE CacheAssumption DEF CacheTypeOK, Deny
<1>1. CASE Look(p)
  <2>1. PICK fails \in BOOLEAN :
          /\ IF fails THEN Fault ELSE UNCHANGED faults
          /\ reader' = [reader EXCEPT ![p] =
               [pc |-> CASE fails \/ Entry.status = "none" -> "missed"
                         [] ~fails /\ Entry.status = "active" -> "accepted"
                         [] OTHER -> "refused",
                deadline |-> now + TTL,
                after |-> row.status = "revoked", late |-> over]]
          /\ entry' = entry
    BY <1>1 DEF Look, AfterHit
  <2>2. faults' \in 0..MaxFaults
    BY <2>1 DEF Fault
  <2> QED BY <1>1, <2>1, <2>2 DEF Look
<1>2. CASE ReadRow(p)
  BY <1>2 DEF ReadRow, To
<1>3. CASE CacheDeny(p)
  BY <1>3 DEF CacheDeny, To, Fault, Fresh
<1>4. CASE CheckDeadline(p)
  BY <1>4 DEF CheckDeadline, To
<1>5. CASE WriteSnapshot(p)
  BY <1>5 DEF WriteSnapshot, To, Fault, Snapshot, SnapshotUntil
<1>6. CASE CheckCompleted(p)
  BY <1>6 DEF CheckCompleted, To
<1>7. CASE Confirm(p)
  BY <1>7 DEF Confirm, To
<1>8. CASE Leave(p)
  BY <1>8 DEF Leave, NewReader
<1> QED BY <1>1, <1>2, <1>3, <1>4, <1>5, <1>6, <1>7, <1>8

(* A step of a revocation keeps the types (RevokeUserSession). *)
LEMMA RevokerTypes ==
  ASSUME CacheTypeOK, NEW r \in Revokers,
         Find(r) \/ WriteFence(r) \/ Commit(r) \/ WriteTombstone(r)
  PROVE  CacheTypeOK'
<1> USE CacheAssumption DEF CacheTypeOK, Deny
<1>1. CASE Find(r)
  BY <1>1 DEF Find
<1>2. CASE WriteFence(r)
  BY <1>2 DEF WriteFence, Fault, Fresh
<1>3. CASE Commit(r)
  BY <1>3 DEF Commit
<1>4. CASE WriteTombstone(r)
  <2>1. over' \in BOOLEAN /\ mute' \in BOOLEAN
    BY <1>4, Zenon DEF WriteTombstone
  <2>2. entry' \in [status : Deny \cup {"none", "active"}, until : 0..(now + TTL)] /\ faults' \in 0..MaxFaults
    BY <1>4 DEF WriteTombstone, Fault, Fresh
  <2>3. revoker' \in [Revokers -> {"idle", "found", "fenced", "committed", "returned"}]
    BY <1>4 DEF WriteTombstone
  <2> QED BY <1>4, <2>1, <2>2, <2>3 DEF WriteTombstone
<1> QED BY <1>1, <1>2, <1>3, <1>4

(* The row, the Redis entry and the requests keep their types, and nothing *)
(* in Redis is given more than one TTL to live.                            *)
THEOREM CacheTyping == Spec => []CacheTypeOK
<1>1. Init => CacheTypeOK
  <2> SUFFICES ASSUME Init PROVE CacheTypeOK
    OBVIOUS
  <2> USE CacheAssumption DEF Init
  <2>1. entry \in [status : Deny \cup {"none", "active"}, until : 0..(now + TTL)]
    BY DEF Absent, Deny
  <2>2. over \in BOOLEAN /\ mute \in BOOLEAN
    BY Zenon
  <2>3. reader \in [Readers ->
          [pc : {"idle", "missed", "read", "denying", "writing", "written", "stale", "accepted", "refused"},
           deadline : 0..(now + TTL), after : BOOLEAN, late : BOOLEAN]]
    BY DEF NewReader
  <2> QED BY <2>1, <2>2, <2>3 DEF CacheTypeOK
<1>2. CacheTypeOK /\ [Next]_vars => CacheTypeOK'
  <2>1. ASSUME CacheTypeOK, Tick PROVE CacheTypeOK'
    BY <2>1, CacheAssumption DEF Tick, CacheTypeOK
  <2>2. ASSUME CacheTypeOK, UNCHANGED vars PROVE CacheTypeOK'
    BY <2>2 DEF vars, CacheTypeOK
  <2> QED BY <2>1, <2>2, ReaderTypes, RevokerTypes DEF Next
<1> QED BY <1>1, <1>2, PTL DEF Spec

-----------------------------------------------------------------------------
(* A request that begins after the revocation has returned, with its         *)
(* tombstone in Redis, does not find an active snapshot.                     *)
LEMMA NoLateHit ==
  ASSUME CacheInv, over, ~mute
  PROVE  Entry.status # "active"
<1>1. Revoked /\ (entry.status = "active" => entry.until <= Closing)
  BY DEF CacheInv, CacheSafety, GhostsFollowRow, SnapshotsClose
<1>2. now >= Closing \/ entry.status \in Deny
  BY DEF CacheInv, CacheSafety, DenyOutlivesSnapshots
<1>3. now \in Nat /\ row.at \in Nat /\ entry.until \in Nat /\ TTL \in Nat
  BY CacheAssumption DEF CacheInv, CacheTypeOK
<1> QED BY <1>1, <1>2, <1>3 DEF Entry, Absent, Closing, Deny

(* A step of a validation keeps the invariant (GetUserSessionCached). *)
LEMMA ReaderKeeps ==
  ASSUME CacheInv, NEW p \in Readers,
         Look(p) \/ ReadRow(p) \/ CacheDeny(p) \/ CheckDeadline(p)
            \/ WriteSnapshot(p) \/ CheckCompleted(p) \/ Confirm(p) \/ Leave(p)
  PROVE  CacheSafety'
<1>0. CacheTypeOK /\ CacheTypeOK' /\ CacheSafety
  BY ReaderTypes DEF CacheInv, CacheSafety
<1> USE CacheAssumption DEF CacheTypeOK, CacheSafety, Revoked, Closing, HasSnapshot
<1>1. CASE Look(p)
  <2>1. /\ reader'[p].pc \in {"missed", "accepted", "refused"}
        /\ reader'[p].pc = "accepted" => Entry.status = "active"
        /\ reader'[p].after = (row.status = "revoked") /\ reader'[p].late = over
        /\ \A q \in Readers \ {p} : reader'[q] = reader[q]
        /\ UNCHANGED <<now, row, entry, revoker, over, mute>>
    BY <1>0, <1>1 DEF Look, AfterHit
  <2>2. GhostsFollowRow'
    BY <1>0, <2>1 DEF GhostsFollowRow
  <2>3. SnapshotsClose' /\ DenyOutlivesSnapshots'
    BY <1>0, <2>1 DEF SnapshotsClose, DenyOutlivesSnapshots, Deny
  <2>4. RevokedIsRefused'
    BY <1>0, <2>1, NoLateHit DEF RevokedIsRefused
  <2> QED BY <2>2, <2>3, <2>4
<1>2. CASE ReadRow(p)
  <2>1. GhostsFollowRow' /\ RevokedIsRefused'
    BY <1>0, <1>2 DEF ReadRow, To, GhostsFollowRow, RevokedIsRefused
  <2>2. SnapshotsClose' /\ DenyOutlivesSnapshots'
    BY <1>0, <1>2 DEF ReadRow, To, SnapshotsClose, DenyOutlivesSnapshots, Deny
  <2> QED BY <2>1, <2>2
<1>3. CASE CacheDeny(p)
  <2>1. GhostsFollowRow' /\ RevokedIsRefused'
    BY <1>0, <1>3 DEF CacheDeny, To, GhostsFollowRow, RevokedIsRefused
  <2>2. SnapshotsClose'
    BY <1>0, <1>3 DEF CacheDeny, To, Fresh, SnapshotsClose
  <2>3. DenyOutlivesSnapshots'
    BY <1>0, <1>3 DEF CacheDeny, Fresh, GhostsFollowRow, DenyOutlivesSnapshots, Deny
  <2> QED BY <2>1, <2>2, <2>3
<1>4. CASE CheckDeadline(p)
  <2>1. GhostsFollowRow' /\ RevokedIsRefused'
    BY <1>0, <1>4 DEF CheckDeadline, To, GhostsFollowRow, RevokedIsRefused
  <2>2. SnapshotsClose' /\ DenyOutlivesSnapshots'
    BY <1>0, <1>4 DEF CheckDeadline, To, SnapshotsClose, DenyOutlivesSnapshots, Deny
  <2> QED BY <2>1, <2>2
<1>5. CASE WriteSnapshot(p)
  <2>1. GhostsFollowRow'
    BY <1>0, <1>5 DEF WriteSnapshot, To, GhostsFollowRow
  <2>2. SnapshotsClose'
    BY <1>0, <1>5 DEF WriteSnapshot, To, Snapshot, SnapshotUntil, SnapshotsClose
  <2>3. DenyOutlivesSnapshots'
    BY <1>0, <1>5 DEF WriteSnapshot, Fenced, Entry, Absent, DenyOutlivesSnapshots, Deny
  <2>4. ~reader[p].late
    BY <1>0, <1>5 DEF WriteSnapshot, GhostsFollowRow
  <2>5. RevokedIsRefused'
    BY <1>0, <1>5, <2>4 DEF WriteSnapshot, To, RevokedIsRefused
  <2> QED BY <2>1, <2>2, <2>3, <2>5
<1>6. CASE CheckCompleted(p)
  <2>1. GhostsFollowRow' /\ ~reader[p].late
    BY <1>0, <1>6 DEF CheckCompleted, To, GhostsFollowRow
  <2>2. SnapshotsClose' /\ DenyOutlivesSnapshots' /\ RevokedIsRefused'
    BY <1>0, <1>6, <2>1 DEF CheckCompleted, To, SnapshotsClose, DenyOutlivesSnapshots, Deny, RevokedIsRefused
  <2> QED BY <2>1, <2>2
<1>7. CASE Confirm(p)
  <2>1. GhostsFollowRow' /\ ~reader[p].late
    BY <1>0, <1>7 DEF Confirm, To, GhostsFollowRow
  <2>2. SnapshotsClose' /\ DenyOutlivesSnapshots' /\ RevokedIsRefused'
    BY <1>0, <1>7, <2>1 DEF Confirm, To, SnapshotsClose, DenyOutlivesSnapshots, Deny, RevokedIsRefused
  <2> QED BY <2>1, <2>2
<1>8. CASE Leave(p)
  <2>1. GhostsFollowRow' /\ RevokedIsRefused'
    BY <1>0, <1>8 DEF Leave, NewReader, GhostsFollowRow, RevokedIsRefused
  <2>2. SnapshotsClose' /\ DenyOutlivesSnapshots'
    BY <1>0, <1>8 DEF Leave, NewReader, SnapshotsClose, DenyOutlivesSnapshots, Deny
  <2> QED BY <2>1, <2>2
<1> QED BY <1>1, <1>2, <1>3, <1>4, <1>5, <1>6, <1>7, <1>8

(* A step of a revocation keeps the invariant (RevokeUserSession). *)
LEMMA RevokerKeeps ==
  ASSUME CacheInv, NEW r \in Revokers,
         Find(r) \/ WriteFence(r) \/ Commit(r) \/ WriteTombstone(r)
  PROVE  CacheSafety'
<1>0. CacheTypeOK /\ CacheTypeOK' /\ CacheSafety
  BY RevokerTypes DEF CacheInv
<1> USE CacheAssumption DEF CacheTypeOK, CacheSafety, Revoked, Closing, HasSnapshot
<1>1. CASE Find(r)
  BY <1>0, <1>1 DEF Find, GhostsFollowRow, SnapshotsClose, DenyOutlivesSnapshots, Deny, RevokedIsRefused
<1>2. CASE WriteFence(r)
  <2>1. GhostsFollowRow' /\ RevokedIsRefused'
    BY <1>0, <1>2 DEF WriteFence, GhostsFollowRow, RevokedIsRefused
  <2>2. SnapshotsClose'
    BY <1>0, <1>2 DEF WriteFence, Fresh, SnapshotsClose
  <2>3. DenyOutlivesSnapshots'
    BY <1>0, <1>2 DEF WriteFence, Fresh, GhostsFollowRow, DenyOutlivesSnapshots, Deny
  <2> QED BY <2>1, <2>2, <2>3
<1>3. CASE Commit(r)
  <2>1. CASE row.status = "active" /\ row' = [status |-> "revoked", at |-> now]
    <3>1. ~over /\ \A p \in Readers : ~reader[p].after /\ ~reader[p].late
      BY <1>0, <2>1 DEF GhostsFollowRow
    <3>2. GhostsFollowRow' /\ RevokedIsRefused' /\ DenyOutlivesSnapshots'
      BY <1>0, <1>3, <2>1, <3>1 DEF Commit, GhostsFollowRow, RevokedIsRefused, DenyOutlivesSnapshots
    <3>3. SnapshotsClose'
      BY <1>0, <1>3, <2>1 DEF Commit, SnapshotsClose
    <3> QED BY <3>2, <3>3
  <2>2. CASE row' = row /\ revoker' = [revoker EXCEPT ![r] = "returned"]
    BY <1>0, <1>3, <2>2 DEF Commit, GhostsFollowRow, SnapshotsClose, DenyOutlivesSnapshots, Deny, RevokedIsRefused
  <2> QED BY <1>3, <2>1, <2>2 DEF Commit
<1>4. CASE WriteTombstone(r)
  <2>1. Revoked /\ Revoked'
    BY <1>0, <1>4 DEF WriteTombstone, GhostsFollowRow
  <2>2. GhostsFollowRow'
    BY <1>0, <1>4, <2>1 DEF WriteTombstone, GhostsFollowRow
  <2>3. SnapshotsClose'
    BY <1>0, <1>4 DEF WriteTombstone, Fresh, SnapshotsClose
  <2>4. DenyOutlivesSnapshots'
    BY <1>0, <1>4, <2>1 DEF WriteTombstone, Fresh, GhostsFollowRow, DenyOutlivesSnapshots, Deny
  <2>5. RevokedIsRefused'
    BY <1>0, <1>4 DEF WriteTombstone, RevokedIsRefused
  <2> QED BY <2>2, <2>3, <2>4, <2>5
<1> QED BY <1>1, <1>2, <1>3, <1>4

(* Every request of GetUserSessionCached and RevokeUserSession keeps the   *)
(* invariant, and so does the passing of time.                             *)
LEMMA CacheInvariance == Spec => []CacheInv
<1>1. Init => CacheSafety
  BY DEF Init, NewReader, CacheSafety, Revoked, GhostsFollowRow, SnapshotsClose, DenyOutlivesSnapshots,
     RevokedIsRefused, HasSnapshot
<1>2. CacheSafety /\ CacheTypeOK /\ [Next]_vars => CacheSafety'
  <2> SUFFICES ASSUME CacheInv, [Next]_vars PROVE CacheSafety'
    BY DEF CacheInv
  <2> USE DEF CacheInv, CacheSafety
  <2>1. CASE Tick
    BY <2>1, CacheAssumption DEF Tick, CacheTypeOK, Revoked, Closing, HasSnapshot, GhostsFollowRow, SnapshotsClose,
       DenyOutlivesSnapshots, Deny, RevokedIsRefused
  <2>2. CASE UNCHANGED vars
    BY <2>2 DEF vars, Revoked, Closing, HasSnapshot, GhostsFollowRow, SnapshotsClose, DenyOutlivesSnapshots, Deny,
       RevokedIsRefused
  <2> QED BY <2>1, <2>2, ReaderKeeps, RevokerKeeps DEF Next
<1> QED BY <1>1, <1>2, CacheTyping, PTL DEF Spec, CacheInv

(* Once RevokeUserSession has returned with its tombstone in Redis, no     *)
(* request that begins later is let in, however late the snapshots of      *)
(* earlier requests are written (GetUserSessionCached).                    *)
THEOREM RevocationHolds == Spec => []RevokedIsRefused
BY CacheInvariance, PTL DEF CacheInv, CacheSafety

-----------------------------------------------------------------------------
(* A request that began after the commit is let in by a hit only, and a    *)
(* snapshot that can be hit was read before the commit.                    *)
LEMMA LateAcceptance ==
  ASSUME CacheInv, [Next]_vars, NEW p \in Readers,
         reader[p].pc # "accepted", reader'[p].pc = "accepted", reader'[p].after
  PROVE  now <= row.at + TTL
<1> USE DEF CacheInv, CacheTypeOK, CacheSafety
<1>1. CASE Look(p)
  <2>1. Revoked /\ Entry.status = "active"
    BY <1>1 DEF Look, Revoked
  <2>2. now < entry.until /\ entry.until <= Closing
    BY <2>1 DEF Entry, Absent, SnapshotsClose
  <2> QED BY <2>2, CacheAssumption DEF Closing
<1>2. CASE ~Look(p)
  <2>1. ~reader[p].after \/ ~HasSnapshot(p)
    BY DEF GhostsFollowRow
  <2>2. ASSUME NEW q \in Readers, q # p,
               Look(q) \/ ReadRow(q) \/ CacheDeny(q) \/ CheckDeadline(q)
                  \/ WriteSnapshot(q) \/ CheckCompleted(q) \/ Confirm(q) \/ Leave(q)
        PROVE  reader'[p] = reader[p]
    BY <2>2 DEF Look, ReadRow, CacheDeny, CheckDeadline, WriteSnapshot, CheckCompleted, Confirm, Leave, To
  <2>3. ASSUME WriteSnapshot(p) \/ CheckCompleted(p) \/ Confirm(p)
        PROVE  FALSE
    <3>1. \E pc : reader' = [reader EXCEPT ![p].pc = pc]
      BY <2>3 DEF WriteSnapshot, CheckCompleted, Confirm, To
    <3>2. HasSnapshot(p)
      BY <2>3 DEF WriteSnapshot, CheckCompleted, Confirm, HasSnapshot
    <3> QED BY <2>1, <3>1, <3>2
  <2>4. ASSUME ReadRow(p) \/ CacheDeny(p) \/ CheckDeadline(p) \/ Leave(p) PROVE FALSE
    BY <2>4 DEF ReadRow, CacheDeny, CheckDeadline, Leave, NewReader, To
  <2>5. ASSUME NEW r \in Revokers, Find(r) \/ WriteFence(r) \/ Commit(r) \/ WriteTombstone(r)
        PROVE  reader' = reader
    BY <2>5 DEF Find, WriteFence, Commit, WriteTombstone
  <2>6. Tick \/ UNCHANGED vars => reader' = reader
    BY DEF Tick, vars
  <2> QED BY <1>2, <2>1, <2>2, <2>3, <2>4, <2>5, <2>6 DEF Next
<1> QED BY <1>1, <1>2

(* Whatever fails in Redis, a revoked session is let in for at most one    *)
(* TTL after the commit: the life of the last snapshot.                    *)
THEOREM StalenessBound == Spec => StaleAtMostTTL
<1>1. CacheInv /\ [Next]_vars =>
        [\A p \in Readers :
         reader[p].pc # "accepted" /\ reader'[p].pc = "accepted" /\ reader'[p].after
            => now <= row.at + TTL]_vars
  BY LateAcceptance
<1> QED BY <1>1, CacheInvariance, PTL DEF Spec, StaleAtMostTTL

=============================================================================

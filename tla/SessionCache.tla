---------------------------- MODULE SessionCache ----------------------------
(***************************************************************************)
(* One login session on the server: its user_sessions row, its entry in    *)
(* Redis, the requests that validate it and the requests that revoke it    *)
(* (model/user_session.go).  AuthSession takes each of these requests as   *)
(* one step; here they are the separate database and Redis calls they are, *)
(* any time may pass between two of them, and Redis may fail.              *)
(*                                                                         *)
(* A refresh (RotateUserSessionRefresh) takes the same way as a validation *)
(* that misses the cache: deadline, row, write of an active snapshot.      *)
(* All nodes and Redis read one clock.                                     *)
(***************************************************************************)
EXTENDS Naturals

CONSTANTS
    Readers,    \* requests that validate the session
    Revokers,   \* requests that revoke it
    TTL,        \* userCacheTTLSeconds: life of a snapshot and of a deny entry
    Horizon,    \* the clock stops here (bound)
    MaxFaults   \* Redis calls that fail (bound)

ASSUME CacheAssumption == TTL \in Nat \ {0} /\ Horizon \in Nat /\ MaxFaults \in Nat

VARIABLES
    now,        \* the clock
    row,        \* status and revoked_at of the row
    entry,      \* the Redis hash: status and expiry
    reader,     \* the validations under way
    revoker,    \* the revocations under way
    faults,     \* bound: Redis failures so far
    over,       \* ghost: has a request that revoked the row returned?
    mute        \* ghost: did its tombstone fail to reach Redis?

vars == <<now, row, entry, reader, revoker, faults, over, mute>>

Deny == {"revoking", "revoked"}
Absent == [status |-> "none", until |-> 0]
Entry == IF now < entry.until THEN entry ELSE Absent
(* Plausible bug: the longer of sessionTTL and the cache's TTL is taken. *)
FreshTooLong(status) == [status |-> status, until |-> now + TTL + 1]
(* A deny entry lives for TTL from its write *)
Fresh(status) == [status |-> status, until |-> now + TTL]

NewReader == [pc |-> "idle", deadline |-> 0, after |-> FALSE, late |-> FALSE]

Fault == faults < MaxFaults /\ faults' = faults + 1
To(p, pc) == reader' = [reader EXCEPT ![p].pc = pc]

-----------------------------------------------------------------------------
(* GetUserSessionCached *)

(* Plausible bug: a hit prolongs the entry, as caches with a sliding expiry do. *)
SlidingExpiry == [entry EXCEPT !.until = now + TTL]
(* getUserSessionCache only reads *)
AfterHit == entry

(* The request begins; getUserSessionCache answers, misses or fails, and a *)
(* miss takes the deadline before the row is read.                         *)
Look(p) ==
    /\ reader[p].pc = "idle"
    /\ \E fails \in BOOLEAN :
         /\ IF fails THEN Fault ELSE UNCHANGED faults
         /\ reader' = [reader EXCEPT ![p] =
              [pc |-> CASE fails \/ Entry.status = "none" -> "missed"
                        [] ~fails /\ Entry.status = "active" -> "accepted"
                        [] OTHER -> "refused",
               deadline |-> now + TTL,
               after |-> row.status = "revoked", late |-> over]]
         /\ entry' = IF ~fails /\ Entry.status # "none" THEN AfterHit ELSE entry
    /\ UNCHANGED <<now, row, revoker, over, mute>>

(* GetUserSessionBySID *)
ReadRow(p) ==
    /\ reader[p].pc = "missed"
    /\ To(p, IF row.status = "active" THEN "read" ELSE "denying")
    /\ UNCHANGED <<now, row, entry, revoker, faults, over, mute>>

(* An inactive row is cached as revoked, best effort *)
CacheDeny(p) ==
    /\ reader[p].pc = "denying"
    /\ \/ entry' = Fresh("revoked") /\ UNCHANGED faults
       \/ Fault /\ entry' \in {entry, Fresh("revoked")}
    /\ To(p, "refused")
    /\ UNCHANGED <<now, row, revoker, over, mute>>

(* writeUserSessionCache, before Redis: is the observation still fresh? *)
CheckDeadline(p) ==
    /\ reader[p].pc = "read"
    /\ To(p, IF now < reader[p].deadline THEN "writing" ELSE "stale")
    /\ UNCHANGED <<now, row, entry, revoker, faults, over, mute>>

(* Plausible bug: the life of a snapshot is counted from its write. *)
DeadlineFromWrite(d) == now + TTL
(* The expiry of an active snapshot *)
SnapshotUntil(d) == d

Fenced == Entry.status \in Deny
Snapshot(p) == [status |-> "active", until |-> SnapshotUntil(reader[p].deadline)]

(* writeUserSessionCache, the script: a deny entry stands; PEXPIREAT of a   *)
(* moment that has passed removes the key.  A failure, after which the      *)
(* snapshot may or may not be in Redis, is only logged.                     *)
WriteSnapshot(p) ==
    /\ reader[p].pc = "writing"
    /\ \/ /\ Fenced
          /\ To(p, "refused")
          /\ UNCHANGED <<entry, faults>>
       \/ /\ ~Fenced
          /\ entry' = Snapshot(p)
          /\ To(p, "written")
          /\ UNCHANGED faults
       \/ /\ Fault
          /\ To(p, "accepted")
          /\ entry' = entry \/ (~Fenced /\ entry' = Snapshot(p))
    /\ UNCHANGED <<now, row, revoker, over, mute>>

(* writeUserSessionCache, after Redis *)
CheckCompleted(p) ==
    /\ reader[p].pc = "written"
    /\ To(p, IF now < reader[p].deadline THEN "accepted" ELSE "stale")
    /\ UNCHANGED <<now, row, entry, revoker, faults, over, mute>>

(* confirmUserSessionActiveSnapshot *)
Confirm(p) ==
    /\ reader[p].pc = "stale"
    /\ To(p, IF row.status = "active" THEN "accepted" ELSE "refused")
    /\ UNCHANGED <<now, row, entry, revoker, faults, over, mute>>

(* The request is over, and another begins *)
Leave(p) ==
    /\ reader[p].pc \in {"accepted", "refused"}
    /\ reader' = [reader EXCEPT ![p] = NewReader]
    /\ UNCHANGED <<now, row, entry, revoker, faults, over, mute>>

-----------------------------------------------------------------------------
(* RevokeUserSession *)

Find(r) ==
    /\ revoker[r] = "idle"
    /\ revoker' = [revoker EXCEPT ![r] = IF row.status = "active" THEN "found" ELSE "returned"]
    /\ UNCHANGED <<now, row, entry, reader, faults, over, mute>>

(* writeUserSessionDenyFence.  An error, after which the fence may or may   *)
(* not be in Redis, ends the request.                                       *)
WriteFence(r) ==
    /\ revoker[r] = "found"
    /\ \/ /\ entry' = Fresh("revoking")
          /\ revoker' = [revoker EXCEPT ![r] = "fenced"]
          /\ UNCHANGED faults
       \/ /\ Fault
          /\ entry' \in {entry, Fresh("revoking")}
          /\ revoker' = [revoker EXCEPT ![r] = "returned"]
    /\ UNCHANGED <<now, row, reader, over, mute>>

(* The transaction, which finds the row active, or revoked by another request, or fails *)
Commit(r) ==
    /\ revoker[r] = "fenced"
    /\ \/ /\ row.status = "active"
          /\ row' = [status |-> "revoked", at |-> now]
          /\ revoker' = [revoker EXCEPT ![r] = "committed"]
       \/ /\ revoker' = [revoker EXCEPT ![r] = "returned"]
          /\ UNCHANGED row
    /\ UNCHANGED <<now, entry, reader, faults, over, mute>>

(* The tombstone; a failure is only logged.  The request returns. *)
WriteTombstone(r) ==
    /\ revoker[r] = "committed"
    /\ \/ entry' = Fresh("revoked") /\ UNCHANGED <<faults, mute>>
       \/ Fault /\ mute' = TRUE /\ entry' \in {entry, Fresh("revoked")}
    /\ revoker' = [revoker EXCEPT ![r] = "returned"]
    /\ over' = TRUE
    /\ UNCHANGED <<now, row, reader>>

-----------------------------------------------------------------------------
Tick ==
    /\ now < Horizon
    /\ now' = now + 1
    /\ UNCHANGED <<row, entry, reader, revoker, faults, over, mute>>

(* CreateUserSession has inserted the row, and cached it or not *)
Init ==
    /\ now = 0
    /\ row = [status |-> "active", at |-> 0]
    /\ entry \in {Absent, [status |-> "active", until |-> TTL]}
    /\ reader = [p \in Readers |-> NewReader]
    /\ revoker = [r \in Revokers |-> "idle"]
    /\ faults = 0
    /\ over = FALSE
    /\ mute = FALSE

Next ==
    \/ \E p \in Readers :
         \/ Look(p) \/ ReadRow(p) \/ CacheDeny(p) \/ CheckDeadline(p)
         \/ WriteSnapshot(p) \/ CheckCompleted(p) \/ Confirm(p) \/ Leave(p)
    \/ \E r \in Revokers : Find(r) \/ WriteFence(r) \/ Commit(r) \/ WriteTombstone(r)
    \/ Tick

Spec == Init /\ [][Next]_vars

-----------------------------------------------------------------------------
(* Type correctness of the row, the cache entry and the requests; no entry is *)
(* ever given more than one TTL to live.                                      *)
CacheTypeOK ==
    /\ now \in 0..Horizon
    /\ row \in [status : {"active", "revoked"}, at : 0..Horizon]
    /\ entry \in [status : Deny \cup {"none", "active"}, until : 0..(now + TTL)]
    /\ reader \in [Readers ->
         [pc : {"idle", "missed", "read", "denying", "writing", "written", "stale", "accepted", "refused"},
          deadline : 0..(now + TTL), after : BOOLEAN, late : BOOLEAN]]
    /\ revoker \in [Revokers -> {"idle", "found", "fenced", "committed", "returned"}]
    /\ faults \in 0..MaxFaults /\ over \in BOOLEAN /\ mute \in BOOLEAN

(* Once RevokeUserSession has revoked the session and returned, no request    *)
(* that begins later is let in, however late the snapshots of earlier ones     *)
(* reach Redis and however long the deny entry has expired, unless the write   *)
(* of the tombstone failed: a delayed snapshot keeps the deadline taken before *)
(* its read of the row, which is over before the tombstone is.                 *)
RevokedIsRefused ==
    \A p \in Readers : reader[p].pc = "accepted" /\ reader[p].late => mute

(* Whatever fails in Redis, a request that begins after the row was revoked    *)
(* is let in for at most one TTL after that moment.                            *)
StaleAtMostTTL ==
    [][\A p \in Readers :
         reader[p].pc # "accepted" /\ reader'[p].pc = "accepted" /\ reader'[p].after
            => now <= row.at + TTL]_vars
=============================================================================

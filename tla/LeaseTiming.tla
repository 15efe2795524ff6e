----------------------------- MODULE LeaseTiming -----------------------------
(***************************************************************************)
(* Leases and heartbeats as numbers.  TaskLifecycle lets a lease run out   *)
(* at any time, or assumes HeartbeatsKeepUp: that it never does under a    *)
(* worker that is processing.  This module adds the clocks to the actions  *)
(* of TaskLifecycle and shows when the assumption is justified.            *)
(*                                                                         *)
(* lease_expires_at is computed from the clock of the process, before the  *)
(* statement that stores it is sent, and compared with NOW(), the time at  *)
(* which the claiming transaction began, of the database.  A heartbeat     *)
(* that fails is not repeated before the next tick, and there is none      *)
(* between the return of the handler and the commit of its result.         *)
(***************************************************************************)
EXTENDS TaskLifecycle, Integers

CONSTANTS
  LeaseDuration, HeartbeatInterval,
  MaxDelay,   \* bound: from a time.Now() or a tick to the end of what it starts
  MaxSkew,    \* bound: between the clocks of a process and of the database
  MaxMisses,  \* bound: failures of heartbeats in a row
  Horizon     \* bound on the clock

(* The second part is what has to hold for HeartbeatsKeepUp: claim and     *)
(* dispatch, the missed ticks and one that is under way when the handler   *)
(* returns, and the commit all fit into a lease, whatever the skew.        *)
ASSUME TimingAssumption ==
  /\ {LeaseDuration, HeartbeatInterval, MaxDelay, MaxSkew, MaxMisses, Horizon} \subseteq Nat
  /\ (MaxMisses + 1) * HeartbeatInterval + 3 * MaxDelay + MaxSkew <= LeaseDuration
  /\ MaxDelay < HeartbeatInterval
  /\ NULL \notin Int

VARIABLES
  now,      \* the clock of the database
  skew,     \* per worker: the clock of its process, less that of the database
  expires,  \* per task: lease_expires_at
  tick,     \* per worker: when its heartbeat's ticker fires next, or NULL
  misses,   \* per worker: renewals that failed since the last that did not
  by,       \* per worker: when the result it applies is committed, or NULL
  died      \* history, per worker: when its process ended, or NULL

clocks == <<tick, misses, by, died>>
timing == <<now, skew, expires, clocks>>
timedVars == <<vars, timing>>

TimedInit ==
  /\ Init
  /\ now = 0
  /\ skew \in [Workers -> -MaxSkew .. MaxSkew]
  /\ expires = [t \in Tasks |-> 0]
  /\ tick = [w \in Workers |-> NULL]
  /\ misses = [w \in Workers |-> 0]
  /\ by = [w \in Workers |-> NULL]
  /\ died = [w \in Workers |-> NULL]

(* time.Now().Add(LeaseDuration) at the database's time `at'.              *)
leaseExpires(w, at) == at + skew[w] + LeaseDuration

------------------------------------------------------------------------------
(* The claim was begun d ago.  Its dispatch is part of the delay, and      *)
(* starts the heartbeat's ticker.                                          *)
InWhere(t, d) == tasks[t].status = "running" => expires[t] < now - d

TimedClaim(w, t, d) ==
  /\ Claim(w, t)
  /\ InWhere(t, d)
  /\ expires' = [expires EXCEPT ![t] = leaseExpires(w, now - d)]
  /\ tick' = [tick EXCEPT ![w] = now + HeartbeatInterval]
  /\ misses' = [misses EXCEPT ![w] = 0]
  /\ UNCHANGED <<now, skew, by, died>>

TimedClaimLost(w, t, d) ==
  /\ ClaimLost(w, t)
  /\ InWhere(t, d)
  /\ expires' = [expires EXCEPT ![t] = leaseExpires(w, now - d)]
  /\ UNCHANGED <<now, skew, clocks>>

(* Mutant: the renewal prolongs the lease that is in the row.              *)
TimedRenewal_Extends(w) ==
  /\ renewLease(w)
  /\ tick[w] <= now
  /\ expires' = [expires EXCEPT ![job[w]] = @ + LeaseDuration]
  /\ tick' = [tick EXCEPT ![w] = @ + HeartbeatInterval]
  /\ misses' = [misses EXCEPT ![w] = 0]
  /\ UNCHANGED <<now, skew, by, died>>

(* The renewal that the last tick started.  One that is under way when the *)
(* handler returns or the process dies may still reach the database; that  *)
(* is the same as reaching it just before.                                 *)
TimedRenewal(w) ==
  /\ renewLease(w)
  /\ tick[w] <= now
  /\ expires' = [expires EXCEPT ![job[w]] = leaseExpires(w, tick[w])]
  /\ tick' = [tick EXCEPT ![w] = @ + HeartbeatInterval]
  /\ misses' = [misses EXCEPT ![w] = 0]
  /\ UNCHANGED <<now, skew, by, died>>

(* Mutant: the heartbeat ends with the first failure.                      *)
MissedRenewal_GivesUp(w) ==
  /\ phase[w] = "assigned" /\ tick[w] <= now
  /\ misses[w] < MaxMisses
  /\ tick' = [tick EXCEPT ![w] = Horizon]
  /\ misses' = [misses EXCEPT ![w] = @ + 1]
  /\ UNCHANGED <<vars, now, skew, expires, by, died>>

(* The renewal fails.  It always does once the row is no longer the        *)
(* worker's, and this is logged only.                                      *)
MissedRenewal(w) ==
  /\ phase[w] = "assigned" /\ tick[w] <= now
  /\ tick' = [tick EXCEPT ![w] = @ + HeartbeatInterval]
  /\ IF tasks[job[w]].worker_id = w
     THEN misses[w] < MaxMisses /\ misses' = [misses EXCEPT ![w] = @ + 1]
     ELSE UNCHANGED misses
  /\ UNCHANGED <<vars, now, skew, expires, by, died>>

(* Mutant: the heartbeat goes on until processTask returns.                *)
TimedHandle_KeepsTicker(w, r) ==
  /\ Handle(w, r)
  /\ by' = [by EXCEPT ![w] = now + MaxDelay]
  /\ UNCHANGED <<now, skew, expires, tick, misses, died>>

(* Of what a handler returns the status alone matters to the leases.       *)
Outcomes == {r \in Result : r.state = NULL /\ r.kids = {}}

(* cancelHeartbeat, then applyResult and Commit.                           *)
TimedHandle(w, r) ==
  /\ Handle(w, r)
  /\ by' = [by EXCEPT ![w] = now + MaxDelay]
  /\ tick' = [tick EXCEPT ![w] = NULL]
  /\ misses' = [misses EXCEPT ![w] = 0]
  /\ UNCHANGED <<now, skew, expires, died>>

Stop(W) ==
  /\ tick' = [w \in Workers |-> IF w \in W THEN NULL ELSE tick[w]]
  /\ misses' = [w \in Workers |-> IF w \in W THEN 0 ELSE misses[w]]
  /\ by' = [w \in Workers |-> IF w \in W THEN NULL ELSE by[w]]
  /\ UNCHANGED <<now, skew, expires>>

TimedEnd(w) ==
  /\ Commit(w) \/ Abandon(w)
  /\ Stop({w})
  /\ UNCHANGED died

TimedDeath(W) ==
  /\ WorkersDie(W)
  /\ Stop(W)
  /\ died' = [w \in Workers |-> IF w \in W THEN now ELSE died[w]]

RunsOut(t) ==
  /\ expires[t] < now
  /\ LeaseExpires(t)
  /\ UNCHANGED timing

(* Time passes, but not beyond the end of what is under way: the renewal   *)
(* of a tick, the commit of a result, a lease that runs out.               *)
Tick ==
  /\ now < Horizon
  /\ \A w \in Workers : /\ phase[w] = "assigned" => now < tick[w] + MaxDelay
                        /\ phase[w] = "returned" => now < by[w]
  /\ \A t \in Tasks : tasks[t].lease = "live" => expires[t] >= now
  /\ now' = now + 1
  /\ UNCHANGED <<vars, skew, expires, clocks>>

TimedApi == Api /\ UNCHANGED timing

TimedNext ==
  \/ TimedApi
  \/ \E w \in Workers, t \in Tasks, d \in 0 .. MaxDelay :
       TimedClaim(w, t, d) \/ TimedClaimLost(w, t, d)
  \/ \E w \in Workers : TimedRenewal(w) \/ MissedRenewal(w) \/ TimedEnd(w)
  \/ \E w \in Workers, r \in Outcomes : TimedHandle(w, r)
  \/ \E W \in SUBSET Workers : TimedDeath(W)
  \/ \E t \in Tasks : RunsOut(t)
  \/ Tick

TimedSpec == TimedInit /\ [][TimedNext]_timedVars

------------------------------------------------------------------------------
(* Properties.                                                             *)

(* Types of the clocks; a worker has a ticker exactly while its handler    *)
(* runs (cancelHeartbeat) and a commit to wait for exactly after that.     *)
TimingTypeOK ==
  /\ now \in 0 .. Horizon
  /\ skew \in [Workers -> -MaxSkew .. MaxSkew]
  /\ expires \in [Tasks -> Int]
  /\ \A w \in Workers : /\ (tick[w] \in Int) <=> phase[w] = "assigned"
                        /\ (by[w] \in Int) <=> phase[w] = "returned"
                        /\ misses[w] \in 0 .. MaxMisses

(* "how long a worker holds a task before it can be reclaimed" (worker.go, *)
(* LeaseDuration): no later than LeaseDuration after the end of its        *)
(* process, and the skew of its clock, the lease of a dead worker is over, *)
(* whatever renewals it had sent.                                          *)
DeadLeaseEnds ==
  \A t \in Tasks, w \in Workers :
    /\ tasks[t].status = "running" /\ tasks[t].worker_id = w
    /\ phase[w] = "dead"
    /\ now > died[w] + LeaseDuration + MaxSkew
    => expires[t] < now

(* With clocks, delays and missed heartbeats inside their bounds the       *)
(* leases keep what HeartbeatsKeepUp assumes: every step is one of         *)
(* TaskLifecycle under that assumption, so that its mutual exclusion       *)
(* follows (worker.go, heartbeat and LeaseDuration; notify.go, the claim). *)
KeepUp == INSTANCE TaskLifecycle WITH HeartbeatsKeepUp <- TRUE
ImplementsKeepUp == KeepUp!Spec
=============================================================================

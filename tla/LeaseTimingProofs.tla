-------------------------- MODULE LeaseTimingProofs --------------------------
(***************************************************************************)
(* Proofs about LeaseTiming, for all durations within TimingAssumption:    *)
(* the lease of a worker that is processing never runs out.  Hence every   *)
(* step is one of TaskLifecycle with HeartbeatsKeepUp, and what            *)
(* TaskLifecycleProofs shows under that assumption holds without it.       *)
(***************************************************************************)
EXTENDS LeaseTiming, TaskLifecycleProofs

(* The renewal of a tick, and the commit of a result, are not overdue.     *)
InTime ==
  \A w \in Workers : /\ phase[w] = "assigned" => now <= tick[w] + MaxDelay
                     /\ phase[w] = "returned" => now <= by[w]

(* The lease of a worker that owns its row outlasts the ticks that it may  *)
(* still miss, and then a renewal under way and a commit; after the        *)
(* handler's return it outlasts the commit.                                *)
LeaseReaches ==
  \A w \in Workers : tasks[job[w]].worker_id = w =>
    /\ phase[w] = "assigned" =>
         expires[job[w]] >= tick[w] + (MaxMisses - misses[w]) * HeartbeatInterval
                              + 2 * MaxDelay
    /\ phase[w] = "returned" => expires[job[w]] >= by[w]

(* No lease reaches further than one that is computed now, or was computed *)
(* when its worker died.                                                   *)
LeaseEnds ==
  \A t \in Tasks, w \in Workers :
    tasks[t].status = "running" /\ tasks[t].worker_id = w =>
      IF phase[w] = "dead"
      THEN expires[t] <= died[w] + LeaseDuration + MaxSkew
      ELSE expires[t] <= now + LeaseDuration + MaxSkew

ClockTypeOK ==
  /\ TimingTypeOK
  /\ tick \in [Workers -> Int \cup {NULL}]
  /\ misses \in [Workers -> Int]
  /\ by \in [Workers -> Int \cup {NULL}]
  /\ died \in [Workers -> Int \cup {NULL}]
  /\ \A w \in Workers : phase[w] = "dead" => died[w] \in Int

TimedInv == KeepInv /\ ClockTypeOK /\ InTime /\ LeaseReaches /\ LeaseEnds

------------------------------------------------------------------------------
(* Arithmetic.                                                             *)

(* The bounds as numbers, the product of the missed ticks apart.           *)
LEMMA Durations ==
  /\ LeaseDuration \in Nat /\ HeartbeatInterval \in Nat /\ MaxDelay \in Nat
  /\ MaxSkew \in Nat /\ MaxMisses \in Nat /\ Horizon \in Nat
  /\ MaxMisses * HeartbeatInterval \in Nat
  /\ MaxMisses * HeartbeatInterval + HeartbeatInterval + 3 * MaxDelay + MaxSkew
       <= LeaseDuration
<1>1. /\ LeaseDuration \in Nat /\ HeartbeatInterval \in Nat /\ MaxDelay \in Nat
      /\ MaxSkew \in Nat /\ MaxMisses \in Nat /\ Horizon \in Nat
  BY TimingAssumption
<1>2. MaxMisses * HeartbeatInterval \in Nat
  BY <1>1
<1>3. (MaxMisses + 1) * HeartbeatInterval = MaxMisses * HeartbeatInterval + HeartbeatInterval
  BY <1>1
<1> QED BY <1>1, <1>2, <1>3, TimingAssumption

(* One missed tick costs one interval, and what is left is not negative.   *)
LEMMA OneMiss ==
  ASSUME NEW m \in 0 .. MaxMisses
  PROVE  /\ (MaxMisses - m) * HeartbeatInterval \in Nat
         /\ (MaxMisses - (m + 1)) * HeartbeatInterval + HeartbeatInterval
              = (MaxMisses - m) * HeartbeatInterval
<1>1. PICK k \in Nat : k = MaxMisses - m
  BY Durations
<1>2. MaxMisses - (m + 1) = k - 1
  BY <1>1, Durations
<1>3. k * HeartbeatInterval \in Nat
  BY Durations
<1>4. (k - 1) * HeartbeatInterval + HeartbeatInterval = k * HeartbeatInterval
  BY Durations
<1> QED BY <1>1, <1>2, <1>3, <1>4

------------------------------------------------------------------------------
(* Every step is a step of TaskLifecycle in which no lease runs out under  *)
(* its owner.                                                              *)

(* A lease whose time has come belongs to no worker that is processing.    *)
LEMMA RunsOutUnowned ==
  ASSUME TimedInv, NEW t \in Tasks, RunsOut(t)
  PROVE  LeaseExpires(t) /\ ~Owned(t)
<1>1. LeaseExpires(t) /\ expires[t] < now
  BY DEF RunsOut
<1>2. now \in Int /\ expires[t] \in Int
  BY DEF TimedInv, ClockTypeOK, TimingTypeOK
<1>3. ASSUME NEW w \in Workers, Busy(w), job[w] = t, tasks[t].worker_id = w
      PROVE  FALSE
  <2>1. CASE phase[w] = "assigned"
    <3>1. tick[w] \in Int /\ misses[w] \in 0 .. MaxMisses
      BY <2>1 DEF TimedInv, ClockTypeOK, TimingTypeOK
    <3>2. now <= tick[w] + MaxDelay
      BY <2>1 DEF TimedInv, InTime
    <3>3. expires[t] >= tick[w] + (MaxMisses - misses[w]) * HeartbeatInterval + 2 * MaxDelay
      BY <1>3, <2>1 DEF TimedInv, LeaseReaches
    <3>4. (MaxMisses - misses[w]) * HeartbeatInterval \in Nat
      BY <3>1, OneMiss
    <3> QED BY <1>1, <1>2, <3>1, <3>2, <3>3, <3>4, Durations
  <2>2. CASE phase[w] = "returned"
    <3>1. by[w] \in Int
      BY <2>2 DEF TimedInv, ClockTypeOK, TimingTypeOK
    <3>2. now <= by[w] /\ expires[t] >= by[w]
      BY <1>3, <2>2 DEF TimedInv, InTime, LeaseReaches
    <3> QED BY <1>1, <1>2, <3>1, <3>2
  <2> QED BY <1>3, <2>1, <2>2 DEF Busy
<1> QED BY <1>1, <1>3 DEF Owned

(* Each timed step is one of the task system, or leaves it alone (a clock  *)
(* that ticks, a heartbeat that fails).                                    *)
LEMMA TimedStepKeepsUp ==
  ASSUME TimedInv, [TimedNext]_timedVars
  PROVE  [KeptUp]_vars
<1>1. CASE UNCHANGED timedVars
  BY <1>1 DEF timedVars
<1>2. CASE TimedApi
  BY <1>2 DEF TimedApi, KeptUp
<1>3. ASSUME NEW w \in Workers, NEW t \in Tasks, NEW d \in 0 .. MaxDelay,
             TimedClaim(w, t, d) \/ TimedClaimLost(w, t, d)
      PROVE  KeptUp
  BY <1>3 DEF TimedClaim, TimedClaimLost, KeptUp, Worker
<1>4. ASSUME NEW w \in Workers, TimedRenewal(w) \/ TimedEnd(w) PROVE KeptUp
  BY <1>4 DEF TimedRenewal, TimedEnd, KeptUp, Worker
<1>5. ASSUME NEW w \in Workers, MissedRenewal(w) PROVE UNCHANGED vars
  BY <1>5 DEF MissedRenewal
<1>6. ASSUME NEW w \in Workers, NEW r \in Outcomes, TimedHandle(w, r) PROVE KeptUp
  BY <1>6 DEF TimedHandle, KeptUp, Worker, Outcomes
<1>7. ASSUME NEW W \in SUBSET Workers, TimedDeath(W) PROVE KeptUp
  BY <1>7 DEF TimedDeath, KeptUp
<1>8. ASSUME NEW t \in Tasks, RunsOut(t) PROVE KeptUp
  BY <1>8, RunsOutUnowned DEF KeptUp
<1>9. Tick => UNCHANGED vars
  BY DEF Tick
<1> QED BY <1>1, <1>2, <1>3, <1>4, <1>5, <1>6, <1>7, <1>8, <1>9 DEF TimedNext

------------------------------------------------------------------------------
(* The invariant.                                                          *)

(* A worker that owns its row after a step, and was processing the same    *)
(* task before it, owned it before.                                        *)
LEMMA OwnedBefore ==
  ASSUME TimedInv, KeepInv', [KeptUp]_vars,
         NEW w \in Workers, Busy(w), Busy(w)', job'[w] = job[w],
         tasks'[job[w]].worker_id = w
  PROVE  tasks[job[w]].worker_id = w
<1>1. job[w] \in Tasks /\ ConsInv
  BY DEF TimedInv, KeepInv, ConsInv, TypeOK
<1>2. tasks'[job[w]].status \in {"running", "failed"}
  BY DEF KeepInv, WorkerOwnsTask
<1>3. tasks'[job[w]].status # "failed"
  BY <1>1, TableAssumption DEF KeepInv, ConsInv, TableConsistent, Exists, Check, CheckLease
<1>4. tasks[job[w]].status # "failed"
  BY <1>1, <1>3, FailedStep DEF KeptUp, Next, Fault, vars
<1> QED BY <1>4 DEF TimedInv, KeepInv, WorkerOwnsTask

(* Initially nobody processes anything.                                    *)
LEMMA TimedInitInv == TimedInit => TimedInv
<1> SUFFICES ASSUME TimedInit PROVE TimedInv
  OBVIOUS
<1>1. KeepInv
  <2>1. Init => OneWorkerPerTask /\ WorkerOwnsTask /\ InputIsCurrent
    BY DEF Init, OneWorkerPerTask, WorkerOwnsTask, InputIsCurrent, Busy
  <2> QED BY <2>1, ConsInit DEF KeepInv, TimedInit
<1>2. ClockTypeOK
  BY Durations, TimingAssumption DEF TimedInit, Init, ClockTypeOK, TimingTypeOK
<1>3. InTime /\ LeaseReaches
  BY DEF TimedInit, Init, InTime, LeaseReaches
<1>4. LeaseEnds
  BY DEF TimedInit, Init, EmptyTable, AbsentRow, LeaseEnds
<1> QED BY <1>1, <1>2, <1>3, <1>4 DEF TimedInv

(* Only a claim makes a task running or names another worker.              *)
LEMMA RunningBefore ==
  ASSUME ConsInv, NEW t \in Tasks, tasks'[t].status = "running",
         \/ Api \/ UNCHANGED tasks
         \/ \E w \in Workers : Commit(w)
         \/ \E u \in Tasks : LeaseExpires(u)
  PROVE  tasks[t].status = "running" /\ tasks[t].worker_id = tasks'[t].worker_id
<1>t. tasks \in [Tasks -> Row] /\ TypeOK
  BY DEF ConsInv, TypeOK
<1>1. CASE UNCHANGED tasks
  BY <1>1
<1>r. ASSUME NEW u \in Tasks, NEW r, r.status # "running", tasks' = [tasks EXCEPT ![u] = r]
      PROVE  tasks'[t] = tasks[t]
  BY <1>t, <1>r
<1>2. ASSUME NEW u \in Tasks, NEW s \in States, Create(u, s) \/ ResumeWithState(u, s)
      PROVE  tasks'[t] = tasks[t]
  <2>1. /\ NewRow(s, NULL).status = "pending"
        /\ ResumedWithStateRow(tasks[u], s).status = "pending"
    BY <1>t DEF NewRow, ResumedWithStateRow, ResumedRow, Row
  <2> QED BY <1>2, <1>r, <2>1 DEF Create, ResumeWithState
<1>3. ASSUME NEW p \in Tasks, NEW u \in Tasks, NEW s \in States, CreateChild(p, u, s)
      PROVE  tasks'[t] = tasks[t]
  BY <1>3, <1>r DEF CreateChild, NewRow
<1>4. ASSUME NEW u \in Tasks, Resume(u) \/ CancelRow(u)
      PROVE  tasks'[t] = tasks[t]
  <2>1. ResumedRow(tasks[u]).status = "pending"
    BY <1>t DEF ResumedRow, Row
  <2>2. CancelledRow(tasks[u]) = tasks[u] \/ CancelledRow(tasks[u]).status = "failed"
    BY <1>t DEF CancelledRow, Row
  <2> QED BY <1>4, <1>r, <1>t, <2>1, <2>2 DEF Resume, CancelRow
<1>5. CASE Api
  BY <1>1, <1>2, <1>3, <1>4, <1>5, LifecycleAssumption
     DEF Api, CancelBegin, CancelVisit, CancelAbort, Enter
<1>6. ASSUME NEW w \in Workers, Commit(w)
      PROVE  tasks'[t] = tasks[t]
  <2>1. /\ job[w] \in Tasks /\ result[w] \in Result /\ result[w].status # "invalid"
        /\ tasks'[job[w]] = FinishedRow(tasks[job[w]], result[w])
        /\ \A u \in result[w].kids : tasks'[u] = NewRow(EmptyState, job[w])
        /\ \A u \in Tasks : u # job[w] /\ u \notin result[w].kids =>
              \/ tasks'[u] = tasks[u]
              \/ tasks[u].status = "waiting" /\ tasks'[u] = ResumedRow(tasks[u])
    BY <1>6, CommitRows
  <2>2. FinishedRow(tasks[job[w]], result[w]).status = result[w].status
    BY <1>t, <2>1, FinishedRowType
  <2>3. t # job[w] /\ t \notin result[w].kids
    BY <2>1, <2>2 DEF Result, NewRow
  <2> QED BY <1>t, <2>1, <2>3 DEF ResumedRow, Row
<1>7. ASSUME NEW u \in Tasks, LeaseExpires(u)
      PROVE  tasks'[t].status = tasks[t].status /\ tasks'[t].worker_id = tasks[t].worker_id
  BY <1>7, <1>t DEF LeaseExpires, Row
<1> QED BY <1>1, <1>5, <1>6, <1>7

(* A step that gives no worker another task and touches neither clocks nor *)
(* lease_expires_at.                                                       *)
LEMMA TimelessStep ==
  ASSUME TimedInv, KeepInv', [KeptUp]_vars, UNCHANGED timing, phase' = phase, job' = job,
         \/ Api \/ UNCHANGED tasks
         \/ \E u \in Tasks : LeaseExpires(u)
  PROVE  TimedInv'
<1>1. ClockTypeOK' /\ InTime'
  BY DEF TimedInv, ClockTypeOK, TimingTypeOK, InTime, timing, clocks
<1>2. LeaseReaches'
  <2> SUFFICES ASSUME NEW w \in Workers, tasks'[job[w]].worker_id = w, Busy(w)
               PROVE  tasks[job[w]].worker_id = w
    BY DEF TimedInv, LeaseReaches, timing, clocks, Busy
  <2> QED BY OwnedBefore DEF Busy
<1>3. LeaseEnds'
  <2>1. \A t \in Tasks : tasks'[t].status = "running" =>
          tasks[t].status = "running" /\ tasks[t].worker_id = tasks'[t].worker_id
    BY RunningBefore DEF TimedInv, KeepInv
  <2> QED BY <2>1 DEF TimedInv, LeaseEnds, timing, clocks
<1> QED BY <1>1, <1>2, <1>3 DEF TimedInv

(* The claim of a task, dispatched or lost, by a worker that was idle.     *)
LEMMA ClaimKeepsTime ==
  ASSUME TimedInv, KeepInv', [KeptUp]_vars,
         NEW w \in Workers, NEW t \in Tasks, NEW d \in 0 .. MaxDelay,
         TimedClaim(w, t, d) \/ TimedClaimLost(w, t, d)
  PROVE  TimedInv'
<1>t. /\ tasks \in [Tasks -> Row] /\ TypeOK /\ ClockTypeOK /\ TimingTypeOK
      /\ now \in Int /\ skew[w] \in -MaxSkew .. MaxSkew
      /\ expires \in [Tasks -> Int]
  BY DEF TimedInv, KeepInv, ConsInv, TypeOK, ClockTypeOK, TimingTypeOK
<1>1. /\ phase[w] = "idle" /\ Claimable(tasks[t])
      /\ tasks' = [tasks EXCEPT ![t] = ClaimedRow(tasks[t], w)]
      /\ expires' = [expires EXCEPT ![t] = leaseExpires(w, now - d)]
      /\ UNCHANGED <<now, skew, by, died>>
  BY DEF TimedClaim, TimedClaimLost, Claim, ClaimLost, clocks
<1>2. /\ leaseExpires(w, now - d) \in Int
      /\ leaseExpires(w, now - d) <= now + LeaseDuration + MaxSkew
      /\ leaseExpires(w, now - d) >=
           now + HeartbeatInterval + MaxMisses * HeartbeatInterval + 2 * MaxDelay
  BY <1>t, Durations DEF leaseExpires
<1>3. \A v \in Workers : Busy(v) => v # w /\ job[v] \in Tasks /\ job[v] # t
  BY <1>1, InProcessNotClaimable DEF TimedInv, Busy
<1>4. /\ tasks'[t].worker_id = w
      /\ \A u \in Tasks : u # t => tasks'[u] = tasks[u] /\ expires'[u] = expires[u]
      /\ expires'[t] = leaseExpires(w, now - d)
  BY <1>t, <1>1 DEF ClaimedRow, Row
<1>5. \A v \in Workers : v # w => /\ phase'[v] = phase[v] /\ job'[v] = job[v]
                                  /\ tick'[v] = tick[v] /\ misses'[v] = misses[v]
  BY <1>t DEF TimedClaim, TimedClaimLost, Claim, ClaimLost, clocks, workerVars, TypeOK,
              ClockTypeOK
<1>6. \/ /\ phase'[w] = "assigned" /\ job'[w] = t
         /\ tick' = [tick EXCEPT ![w] = now + HeartbeatInterval]
         /\ misses' = [misses EXCEPT ![w] = 0]
      \/ UNCHANGED <<phase, job, tick, misses>>
  BY <1>t DEF TimedClaim, TimedClaimLost, Claim, ClaimLost, clocks, workerVars, TypeOK
<1>7. /\ tick' \in [Workers -> Int \cup {NULL}] /\ misses' \in [Workers -> Int]
      /\ phase'[w] = "assigned" => /\ tick'[w] = now + HeartbeatInterval
                                   /\ misses'[w] = 0 /\ job'[w] = t
      /\ phase'[w] = "idle" => tick'[w] = tick[w] /\ misses'[w] = misses[w]
      /\ phase'[w] \in {"assigned", "idle"}
  BY <1>t, <1>1, <1>6, Durations DEF ClockTypeOK
<1>8. ClockTypeOK'
  BY <1>t, <1>1, <1>2, <1>5, <1>7, Durations, TimingAssumption DEF ClockTypeOK, TimingTypeOK
<1>9. InTime'
  BY <1>t, <1>1, <1>5, <1>7, Durations DEF TimedInv, InTime
<1>10. LeaseReaches'
  <2> SUFFICES ASSUME NEW v \in Workers, tasks'[job'[v]].worker_id = v, Busy(v)'
               PROVE  /\ phase'[v] = "assigned" =>
                           expires'[job'[v]] >= tick'[v]
                             + (MaxMisses - misses'[v]) * HeartbeatInterval + 2 * MaxDelay
                      /\ phase'[v] = "returned" => expires'[job'[v]] >= by'[v]
    BY DEF LeaseReaches, Busy
  <2>1. CASE v = w
    BY <1>t, <1>2, <1>4, <1>7, <2>1, Durations DEF Busy
  <2>2. CASE v # w
    BY <1>1, <1>3, <1>4, <1>5, <2>2 DEF TimedInv, LeaseReaches, Busy
  <2> QED BY <2>1, <2>2
<1>11. LeaseEnds'
  <2> SUFFICES ASSUME NEW u \in Tasks, NEW v \in Workers,
                      tasks'[u].status = "running", tasks'[u].worker_id = v
               PROVE  IF phase'[v] = "dead"
                      THEN expires'[u] <= died'[v] + LeaseDuration + MaxSkew
                      ELSE expires'[u] <= now' + LeaseDuration + MaxSkew
    BY DEF LeaseEnds
  <2>1. CASE u = t
    BY <1>1, <1>2, <1>4, <1>7, <2>1
  <2>2. CASE u # t
    <3>1. phase'[v] = "dead" <=> phase[v] = "dead"
      BY <1>1, <1>5, <1>7
    <3> QED BY <1>1, <1>4, <2>2, <3>1 DEF TimedInv, LeaseEnds
  <2> QED BY <2>1, <2>2
<1> QED BY <1>8, <1>9, <1>10, <1>11 DEF TimedInv

(* A heartbeat that renews the lease.                                      *)
LEMMA RenewalKeepsTime ==
  ASSUME TimedInv, KeepInv', NEW w \in Workers, TimedRenewal(w)
  PROVE  TimedInv'
<1> DEFINE t == job[w]
<1>t. /\ tasks \in [Tasks -> Row] /\ TypeOK /\ ClockTypeOK /\ TimingTypeOK
      /\ now \in Int /\ skew[w] \in -MaxSkew .. MaxSkew
      /\ expires \in [Tasks -> Int]
  BY DEF TimedInv, KeepInv, ConsInv, TypeOK, ClockTypeOK, TimingTypeOK
<1>1. /\ phase[w] = "assigned" /\ t \in Tasks /\ tick[w] \in Int /\ tick[w] <= now
      /\ tasks[t].status = "running" /\ tasks[t].worker_id = w
      /\ tasks' = [tasks EXCEPT ![t].lease = "live"]
      /\ expires' = [expires EXCEPT ![t] = leaseExpires(w, tick[w])]
      /\ tick' = [tick EXCEPT ![w] = tick[w] + HeartbeatInterval]
      /\ misses' = [misses EXCEPT ![w] = 0]
      /\ UNCHANGED <<phase, job, now, skew, by, died>>
  BY <1>t DEF TimedRenewal, renewLease, workerVars, TypeOK, Busy, TimingTypeOK, ClockTypeOK
<1>2. /\ leaseExpires(w, tick[w]) \in Int
      /\ leaseExpires(w, tick[w]) <= now + LeaseDuration + MaxSkew
      /\ leaseExpires(w, tick[w]) >=
           tick[w] + HeartbeatInterval + MaxMisses * HeartbeatInterval + 2 * MaxDelay
  BY <1>t, <1>1, Durations DEF leaseExpires
<1>3. \A v \in Workers : Busy(v) /\ v # w => job[v] \in Tasks /\ job[v] # t
  BY <1>1, <1>t DEF TimedInv, KeepInv, OneWorkerPerTask, Busy, TypeOK
<1>4. /\ \A u \in Tasks : /\ tasks'[u].status = tasks[u].status
                          /\ tasks'[u].worker_id = tasks[u].worker_id
                          /\ u # t => expires'[u] = expires[u]
      /\ expires'[t] = leaseExpires(w, tick[w])
  BY <1>t, <1>1 DEF Row
<1>5. /\ \A v \in Workers : v # w => tick'[v] = tick[v] /\ misses'[v] = misses[v]
      /\ tick'[w] = tick[w] + HeartbeatInterval /\ misses'[w] = 0
      /\ tick' \in [Workers -> Int \cup {NULL}] /\ misses' \in [Workers -> Int]
  BY <1>t, <1>1, Durations DEF ClockTypeOK
<1> HIDE DEF t
<1>6. ClockTypeOK'
  BY <1>t, <1>1, <1>2, <1>5, Durations DEF ClockTypeOK, TimingTypeOK
<1>7. InTime'
  BY <1>t, <1>1, <1>5, Durations DEF TimedInv, InTime
<1>8. LeaseReaches'
  <2> SUFFICES ASSUME NEW v \in Workers, tasks'[job[v]].worker_id = v, Busy(v)
               PROVE  /\ phase[v] = "assigned" =>
                           expires'[job[v]] >= tick'[v]
                             + (MaxMisses - misses'[v]) * HeartbeatInterval + 2 * MaxDelay
                      /\ phase[v] = "returned" => expires'[job[v]] >= by[v]
    BY <1>1 DEF LeaseReaches, Busy
  <2>1. CASE v = w
    BY <1>1, <1>2, <1>4, <1>5, <2>1, Durations DEF t
  <2>2. CASE v # w
    BY <1>1, <1>3, <1>4, <1>5, <2>2 DEF TimedInv, LeaseReaches
  <2> QED BY <2>1, <2>2
<1>9. LeaseEnds'
  <2> SUFFICES ASSUME NEW u \in Tasks, NEW v \in Workers,
                      tasks[u].status = "running", tasks[u].worker_id = v
               PROVE  IF phase[v] = "dead"
                      THEN expires'[u] <= died[v] + LeaseDuration + MaxSkew
                      ELSE expires'[u] <= now + LeaseDuration + MaxSkew
    BY <1>1, <1>4 DEF LeaseEnds
  <2>1. CASE u = t
    BY <1>1, <1>2, <1>4, <2>1
  <2>2. CASE u # t
    <3>1. expires'[u] = expires[u]
      BY <1>4, <2>2
    <3> QED BY <3>1 DEF TimedInv, LeaseEnds
  <2> QED BY <2>1, <2>2
<1> QED BY <1>6, <1>7, <1>8, <1>9 DEF TimedInv

(* A heartbeat that fails: there is one tick less to miss.                 *)
LEMMA MissKeepsTime ==
  ASSUME TimedInv, KeepInv', NEW w \in Workers, MissedRenewal(w)
  PROVE  TimedInv'
<1>t. /\ ClockTypeOK /\ TimingTypeOK /\ now \in Int /\ expires \in [Tasks -> Int]
      /\ misses[w] \in 0 .. MaxMisses
  BY DEF TimedInv, ClockTypeOK, TimingTypeOK
<1>1. /\ phase[w] = "assigned" /\ tick[w] <= now /\ tick[w] \in Int
      /\ tick' = [tick EXCEPT ![w] = tick[w] + HeartbeatInterval]
      /\ tasks[job[w]].worker_id = w =>
           misses[w] < MaxMisses /\ misses' = [misses EXCEPT ![w] = misses[w] + 1]
      /\ tasks[job[w]].worker_id # w => misses' = misses
      /\ UNCHANGED <<tasks, phase, job, now, skew, expires, by, died>>
  BY <1>t DEF MissedRenewal, vars, workerVars, TimingTypeOK
<1>2. /\ tick'[w] = tick[w] + HeartbeatInterval /\ misses'[w] \in 0 .. MaxMisses
      /\ tasks[job[w]].worker_id = w => misses'[w] = misses[w] + 1
      /\ \A v \in Workers : v # w => tick'[v] = tick[v] /\ misses'[v] = misses[v]
      /\ tick' \in [Workers -> Int \cup {NULL}] /\ misses' \in [Workers -> Int]
  BY <1>t, <1>1, Durations DEF ClockTypeOK
<1>3. ClockTypeOK'
  BY <1>t, <1>1, <1>2, Durations DEF ClockTypeOK, TimingTypeOK
<1>4. InTime'
  BY <1>t, <1>1, <1>2, Durations DEF TimedInv, InTime
<1>5. LeaseReaches'
  <2> SUFFICES ASSUME NEW v \in Workers, tasks[job[v]].worker_id = v
               PROVE  /\ phase[v] = "assigned" =>
                           expires[job[v]] >= tick'[v]
                             + (MaxMisses - misses'[v]) * HeartbeatInterval + 2 * MaxDelay
                      /\ phase[v] = "returned" => expires[job[v]] >= by[v]
    BY <1>1 DEF LeaseReaches
  <2>1. CASE v = w
    <3>1. expires[job[w]] >= tick[w] + (MaxMisses - misses[w]) * HeartbeatInterval
                               + 2 * MaxDelay
      BY <1>1, <2>1 DEF TimedInv, LeaseReaches
    <3>2. (MaxMisses - misses'[w]) * HeartbeatInterval + HeartbeatInterval
            = (MaxMisses - misses[w]) * HeartbeatInterval
      BY <1>t, <1>2, <2>1, OneMiss
    <3>3. (MaxMisses - misses'[w]) * HeartbeatInterval \in Nat
      BY <1>2, OneMiss
    <3>4. expires[job[w]] \in Int
      BY <1>t, <1>1 DEF TimedInv, KeepInv, ConsInv, TypeOK, Busy
    <3> QED BY <1>1, <1>2, <2>1, <3>1, <3>2, <3>3, <3>4, Durations
  <2>2. CASE v # w
    BY <1>1, <1>2, <2>2 DEF TimedInv, LeaseReaches
  <2> QED BY <2>1, <2>2
<1>6. LeaseEnds'
  BY <1>1 DEF TimedInv, LeaseEnds
<1> QED BY <1>3, <1>4, <1>5, <1>6 DEF TimedInv

(* The handler returns: the lease that reached the next tick and two       *)
(* delays beyond it reaches the commit.                                    *)
LEMMA HandleKeepsTime ==
  ASSUME TimedInv, KeepInv', NEW w \in Workers, NEW r, TimedHandle(w, r)
  PROVE  TimedInv'
<1>t. /\ ClockTypeOK /\ TimingTypeOK /\ now \in Int /\ expires \in [Tasks -> Int]
      /\ misses[w] \in 0 .. MaxMisses /\ TypeOK
  BY DEF TimedInv, KeepInv, ConsInv, ClockTypeOK, TimingTypeOK
<1>1. /\ phase[w] = "assigned" /\ tick[w] \in Int
      /\ phase' = [phase EXCEPT ![w] = "returned"]
      /\ by' = [by EXCEPT ![w] = now + MaxDelay]
      /\ tick' = [tick EXCEPT ![w] = NULL]
      /\ misses' = [misses EXCEPT ![w] = 0]
      /\ UNCHANGED <<tasks, job, now, skew, expires, died>>
  BY <1>t DEF TimedHandle, Handle, TimingTypeOK
<1>2. /\ tick'[w] = NULL /\ misses'[w] = 0 /\ by'[w] = now + MaxDelay
      /\ phase'[w] = "returned"
      /\ \A v \in Workers : v # w => /\ tick'[v] = tick[v] /\ misses'[v] = misses[v]
                                      /\ by'[v] = by[v] /\ phase'[v] = phase[v]
      /\ tick' \in [Workers -> Int \cup {NULL}] /\ misses' \in [Workers -> Int]
      /\ by' \in [Workers -> Int \cup {NULL}]
  BY <1>t, <1>1, Durations DEF ClockTypeOK, TypeOK
<1>3. ClockTypeOK'
  BY <1>t, <1>1, <1>2, Durations, TimingAssumption DEF ClockTypeOK, TimingTypeOK
<1>4. InTime'
  BY <1>t, <1>1, <1>2, Durations DEF TimedInv, InTime
<1>5. LeaseReaches'
  <2> SUFFICES ASSUME NEW v \in Workers, tasks[job[v]].worker_id = v
               PROVE  /\ phase'[v] = "assigned" =>
                           expires[job[v]] >= tick'[v]
                             + (MaxMisses - misses'[v]) * HeartbeatInterval + 2 * MaxDelay
                      /\ phase'[v] = "returned" => expires[job[v]] >= by'[v]
    BY <1>1 DEF LeaseReaches
  <2>1. CASE v = w
    <3>1. /\ expires[job[w]] >= tick[w] + (MaxMisses - misses[w]) * HeartbeatInterval
                                 + 2 * MaxDelay
          /\ now <= tick[w] + MaxDelay
      BY <1>1, <2>1 DEF TimedInv, LeaseReaches, InTime
    <3>2. (MaxMisses - misses[w]) * HeartbeatInterval \in Nat
      BY <1>t, OneMiss
    <3>3. expires[job[w]] \in Int
      BY <1>t, <1>1 DEF TypeOK, Busy
    <3> QED BY <1>t, <1>1, <1>2, <2>1, <3>1, <3>2, <3>3, Durations
  <2>2. CASE v # w
    BY <1>1, <1>2, <2>2 DEF TimedInv, LeaseReaches
  <2> QED BY <2>1, <2>2
<1>6. LeaseEnds'
  <2>1. \A v \in Workers : phase'[v] = "dead" <=> phase[v] = "dead"
    BY <1>1, <1>2
  <2> QED BY <1>1, <2>1 DEF TimedInv, LeaseEnds
<1> QED BY <1>3, <1>4, <1>5, <1>6 DEF TimedInv

(* The assignments of the workers in W end, with them or without them.     *)
LEMMA StopKeepsTime ==
  ASSUME TimedInv, KeepInv', [KeptUp]_vars, NEW W \in SUBSET Workers, Stop(W),
         \A w \in W : /\ phase[w] # "dead" /\ phase'[w] \in {"idle", "dead"}
                      /\ phase'[w] = "dead" => died'[w] = now,
         \A w \in Workers \ W : phase'[w] = phase[w] /\ job'[w] = job[w] /\ died'[w] = died[w],
         died' \in [Workers -> Int \cup {NULL}],
         UNCHANGED tasks \/ \E w \in Workers : Commit(w)
  PROVE  TimedInv'
<1>t. /\ ClockTypeOK /\ TimingTypeOK /\ now \in Int /\ TypeOK
  BY DEF TimedInv, KeepInv, ConsInv, ClockTypeOK, TimingTypeOK
<1>1. /\ \A w \in W : tick'[w] = NULL /\ misses'[w] = 0 /\ by'[w] = NULL
      /\ \A w \in Workers \ W : tick'[w] = tick[w] /\ misses'[w] = misses[w] /\ by'[w] = by[w]
      /\ tick' \in [Workers -> Int \cup {NULL}] /\ misses' \in [Workers -> Int]
      /\ by' \in [Workers -> Int \cup {NULL}]
      /\ UNCHANGED <<now, skew, expires>>
  BY <1>t DEF Stop, ClockTypeOK
<1>2. ClockTypeOK'
  BY <1>t, <1>1, Durations, TimingAssumption DEF ClockTypeOK, TimingTypeOK
<1>3. InTime'
  BY <1>1 DEF TimedInv, InTime
<1>4. LeaseReaches'
  <2> SUFFICES ASSUME NEW v \in Workers, tasks'[job'[v]].worker_id = v, Busy(v)'
               PROVE  /\ phase'[v] = "assigned" =>
                           expires'[job'[v]] >= tick'[v]
                             + (MaxMisses - misses'[v]) * HeartbeatInterval + 2 * MaxDelay
                      /\ phase'[v] = "returned" => expires'[job'[v]] >= by'[v]
    BY DEF LeaseReaches, Busy
  <2>1. v \notin W /\ Busy(v) /\ job'[v] = job[v] /\ phase'[v] = phase[v]
    BY DEF Busy
  <2>2. tasks[job[v]].worker_id = v
    BY <2>1, OwnedBefore
  <2> QED BY <1>1, <2>1, <2>2 DEF TimedInv, LeaseReaches
<1>5. LeaseEnds'
  <2> SUFFICES ASSUME NEW u \in Tasks, NEW v \in Workers,
                      tasks'[u].status = "running", tasks'[u].worker_id = v
               PROVE  IF phase'[v] = "dead"
                      THEN expires'[u] <= died'[v] + LeaseDuration + MaxSkew
                      ELSE expires'[u] <= now' + LeaseDuration + MaxSkew
    BY DEF LeaseEnds
  <2>1. tasks[u].status = "running" /\ tasks[u].worker_id = v
    BY RunningBefore DEF TimedInv, KeepInv
  <2>2. CASE v \in W
    BY <1>1, <2>1, <2>2 DEF TimedInv, LeaseEnds
  <2>3. CASE v \notin W
    BY <1>1, <2>1, <2>3 DEF TimedInv, LeaseEnds
  <2> QED BY <2>2, <2>3
<1> QED BY <1>2, <1>3, <1>4, <1>5 DEF TimedInv

(* Time passes.                                                            *)
LEMMA TickKeepsTime ==
  ASSUME TimedInv, KeepInv', Tick
  PROVE  TimedInv'
<1>t. /\ ClockTypeOK /\ TimingTypeOK /\ now \in 0 .. Horizon /\ expires \in [Tasks -> Int]
  BY DEF TimedInv, ClockTypeOK, TimingTypeOK
<1>1. /\ UNCHANGED <<tasks, phase, job, skew, expires, tick, misses, by, died>>
      /\ now' = now + 1 /\ now < Horizon
  BY DEF Tick, vars, workerVars, clocks
<1>2. ClockTypeOK'
  BY <1>t, <1>1, Durations DEF ClockTypeOK, TimingTypeOK
<1>3. InTime'
  <2> SUFFICES ASSUME NEW w \in Workers
               PROVE  /\ phase[w] = "assigned" => now + 1 <= tick[w] + MaxDelay
                      /\ phase[w] = "returned" => now + 1 <= by[w]
    BY <1>1 DEF InTime
  <2>1. /\ phase[w] = "assigned" => tick[w] \in Int /\ now < tick[w] + MaxDelay
        /\ phase[w] = "returned" => by[w] \in Int /\ now < by[w]
    BY <1>t DEF Tick, TimingTypeOK
  <2> QED BY <1>t, <2>1, Durations
<1>4. LeaseReaches'
  BY <1>1 DEF TimedInv, LeaseReaches
<1>5. LeaseEnds'
  <2> SUFFICES ASSUME NEW u \in Tasks, NEW v \in Workers,
                      tasks[u].status = "running", tasks[u].worker_id = v, phase[v] # "dead"
               PROVE  expires[u] <= now + 1 + LeaseDuration + MaxSkew
    BY <1>1 DEF TimedInv, LeaseEnds
  <2>1. expires[u] <= now + LeaseDuration + MaxSkew /\ expires[u] \in Int
    BY <1>t DEF TimedInv, LeaseEnds
  <2> QED BY <1>t, <2>1, Durations
<1> QED BY <1>2, <1>3, <1>4, <1>5 DEF TimedInv

(* The invariant is inductive.                                             *)
LEMMA TimedNextInv == TimedInv /\ [TimedNext]_timedVars => TimedInv'
<1> SUFFICES ASSUME TimedInv, [TimedNext]_timedVars PROVE TimedInv'
  OBVIOUS
<1>k. [KeptUp]_vars
  BY TimedStepKeepsUp
<1>i. KeepInv'
  BY <1>k, KeepStep DEF TimedInv
<1>t. TypeOK /\ ClockTypeOK /\ now \in Int
  BY DEF TimedInv, KeepInv, ConsInv, ClockTypeOK, TimingTypeOK
<1>1. CASE UNCHANGED timedVars
  BY <1>1, <1>k, <1>i, TimelessStep DEF timedVars, vars, workerVars
<1>2. CASE TimedApi
  <2>1. phase' = phase /\ job' = job
    BY <1>2 DEF TimedApi, Api, Create, ResumeWithState, CreateChild, Resume, CancelRow,
                CancelBegin, CancelVisit, CancelAbort, Enter, workerVars
  <2> QED BY <1>2, <1>k, <1>i, <2>1, TimelessStep DEF TimedApi
<1>3. ASSUME NEW w \in Workers, NEW t \in Tasks, NEW d \in 0 .. MaxDelay,
             TimedClaim(w, t, d) \/ TimedClaimLost(w, t, d)
      PROVE  TimedInv'
  BY <1>3, <1>k, <1>i, ClaimKeepsTime
<1>4. ASSUME NEW w \in Workers, TimedRenewal(w) PROVE TimedInv'
  BY <1>4, <1>i, RenewalKeepsTime
<1>5. ASSUME NEW w \in Workers, MissedRenewal(w) PROVE TimedInv'
  BY <1>5, <1>i, MissKeepsTime
<1>6. ASSUME NEW w \in Workers, TimedEnd(w) PROVE TimedInv'
  <2>1. /\ phase[w] # "dead" /\ phase'[w] = "idle" /\ Stop({w}) /\ died' = died
        /\ \A v \in Workers \ {w} : phase'[v] = phase[v] /\ job'[v] = job[v]
        /\ UNCHANGED tasks \/ Commit(w)
    BY <1>6, <1>t DEF TimedEnd, Commit, Abandon, Release, Busy, TypeOK
  <2>2. died' \in [Workers -> Int \cup {NULL}]
    BY <1>t, <2>1 DEF ClockTypeOK
  <2> QED BY <1>k, <1>i, <2>1, <2>2, StopKeepsTime
<1>7. ASSUME NEW w \in Workers, NEW r \in Outcomes, TimedHandle(w, r) PROVE TimedInv'
  BY <1>7, <1>i, HandleKeepsTime
<1>8. ASSUME NEW W \in SUBSET Workers, TimedDeath(W) PROVE TimedInv'
  <2>1. /\ Stop(W) /\ UNCHANGED tasks
        /\ \A w \in W : phase[w] # "dead" /\ phase'[w] = "dead" /\ died'[w] = now
        /\ \A w \in Workers \ W : phase'[w] = phase[w] /\ job'[w] = job[w] /\ died'[w] = died[w]
    BY <1>8 DEF TimedDeath, WorkersDie
  <2>2. died' \in [Workers -> Int \cup {NULL}]
    BY <1>8, <1>t DEF TimedDeath, ClockTypeOK
  <2> QED BY <1>k, <1>i, <2>1, <2>2, StopKeepsTime
<1>9. ASSUME NEW t \in Tasks, RunsOut(t) PROVE TimedInv'
  <2>1. LeaseExpires(t) /\ UNCHANGED timing /\ phase' = phase /\ job' = job
    BY <1>9 DEF RunsOut, LeaseExpires, workerVars
  <2> QED BY <1>k, <1>i, <2>1, TimelessStep
<1>10. CASE Tick
  BY <1>10, <1>i, TickKeepsTime
<1> QED BY <1>1, <1>2, <1>3, <1>4, <1>5, <1>6, <1>7, <1>8, <1>9, <1>10 DEF TimedNext

(* The invariant holds in every state of the timed system.                 *)
LEMMA TimedAlways == TimedSpec => []TimedInv
  BY TimedInitInv, TimedNextInv, PTL DEF TimedSpec

------------------------------------------------------------------------------
(* Theorems.                                                               *)

(* A worker has a ticker exactly while its handler runs, and never misses  *)
(* more heartbeats than the bound (worker.go, heartbeat).                  *)
THEOREM TimedTypeCorrect == TimedSpec => []TimingTypeOK
<1>1. TimedInv => TimingTypeOK
  BY DEF TimedInv, ClockTypeOK
<1> QED BY <1>1, TimedAlways, PTL

(* The lease of a dead worker is over LeaseDuration, and the skew of its   *)
(* clock, after its death (worker.go, LeaseDuration and renewLease).       *)
THEOREM DeadLeasesEnd == TimedSpec => []DeadLeaseEnds
<1>1. TimedInv => DeadLeaseEnds
  <2> SUFFICES ASSUME TimedInv, NEW t \in Tasks, NEW w \in Workers,
                      tasks[t].status = "running", tasks[t].worker_id = w,
                      phase[w] = "dead", now > died[w] + LeaseDuration + MaxSkew
               PROVE  expires[t] < now
    BY DEF DeadLeaseEnds
  <2>1. expires[t] <= died[w] + LeaseDuration + MaxSkew
    BY DEF TimedInv, LeaseEnds
  <2>2. expires[t] \in Int /\ now \in Int /\ died[w] \in Int
    BY DEF TimedInv, ClockTypeOK, TimingTypeOK
  <2> QED BY <2>1, <2>2, Durations
<1> QED BY <1>1, TimedAlways, PTL

(* With clocks, delays and missed heartbeats within TimingAssumption no    *)
(* two workers process the same task, and a worker loses its row to Cancel *)
(* alone: nothing is assumed of the leases any more (notify.go, the claim; *)
(* worker.go, heartbeat).                                                  *)
THEOREM TimedMutualExclusion ==
  TimedSpec => [](OneWorkerPerTask /\ WorkerOwnsTask)
<1>1. TimedInv => OneWorkerPerTask /\ WorkerOwnsTask
  BY DEF TimedInv, KeepInv
<1> QED BY <1>1, TimedAlways, PTL

------------------------------------------------------------------------------
(* The refinement: KeptUp is the next-state relation of TaskLifecycle      *)
(* under HeartbeatsKeepUp.                                                 *)

(* The statements, which do not depend on HeartbeatsKeepUp.                *)
LEMMA SameStatements ==
  /\ KeepUp!vars = vars /\ KeepUp!workerVars = workerVars /\ KeepUp!cancelVars = cancelVars
  /\ KeepUp!NoResult = NoResult /\ KeepUp!Result = Result /\ KeepUp!Free = Free
  /\ \A s, q : KeepUp!NewRow(s, q) = NewRow(s, q)
  /\ \A r : /\ KeepUp!Exists(r) <=> Exists(r)
            /\ KeepUp!Claimable(r) <=> Claimable(r)
            /\ KeepUp!Check(r) <=> Check(r)
            /\ KeepUp!ResumedRow(r) = ResumedRow(r)
            /\ KeepUp!CancelledRow(r) = CancelledRow(r)
  /\ \A r, s : /\ KeepUp!ResumedWithStateRow(r, s) = ResumedWithStateRow(r, s)
               /\ KeepUp!ClaimedRow(r, s) = ClaimedRow(r, s)
               /\ KeepUp!FinishedRow(r, s) = FinishedRow(r, s)
  /\ \A tbl, t : /\ KeepUp!Children(tbl, t) = Children(tbl, t)
                 /\ KeepUp!Unfinished(tbl, t) <=> Unfinished(tbl, t)
  /\ \A tbl, t, s : /\ KeepUp!applyResult(tbl, t, s) = applyResult(tbl, t, s)
                    /\ KeepUp!WithChildren(tbl, t, s) = WithChildren(tbl, t, s)
  /\ \A w : KeepUp!Busy(w) <=> Busy(w)
<1>1. /\ KeepUp!vars = vars /\ KeepUp!workerVars = workerVars /\ KeepUp!cancelVars = cancelVars
  BY DEF KeepUp!vars, KeepUp!workerVars, KeepUp!cancelVars, vars, workerVars, cancelVars
<1>2. /\ KeepUp!NoResult = NoResult /\ KeepUp!Result = Result /\ KeepUp!Free = Free
  BY DEF KeepUp!NoResult, KeepUp!Result, KeepUp!Free, KeepUp!Exists,
         NoResult, Result, Free, Exists
<1>3. \A s, q : KeepUp!NewRow(s, q) = NewRow(s, q)
  BY DEF KeepUp!NewRow, NewRow
<1>4. \A r : /\ KeepUp!Exists(r) <=> Exists(r)
             /\ KeepUp!Claimable(r) <=> Claimable(r)
             /\ KeepUp!Check(r) <=> Check(r)
             /\ KeepUp!ResumedRow(r) = ResumedRow(r)
             /\ KeepUp!CancelledRow(r) = CancelledRow(r)
  BY DEF KeepUp!Exists, KeepUp!Claimable, KeepUp!Check, KeepUp!CheckLease, KeepUp!CheckError,
         KeepUp!ResumedRow, KeepUp!CancelledRow, KeepUp!Terminal,
         Exists, Claimable, Check, CheckLease, CheckError, ResumedRow, CancelledRow, Terminal
<1>5. \A r, s : /\ KeepUp!ResumedWithStateRow(r, s) = ResumedWithStateRow(r, s)
                /\ KeepUp!ClaimedRow(r, s) = ClaimedRow(r, s)
  BY DEF KeepUp!ResumedWithStateRow, KeepUp!ResumedRow, KeepUp!ClaimedRow,
         ResumedWithStateRow, ResumedRow, ClaimedRow
<1>6. \A r, s : KeepUp!FinishedRow(r, s) = FinishedRow(r, s)
  BY DEF KeepUp!FinishedRow, KeepUp!completeTask, KeepUp!updateTaskState, KeepUp!failTask,
         KeepUp!NewStateOr, FinishedRow, completeTask, updateTaskState, failTask, NewStateOr
<1>7. \A tbl, t : /\ KeepUp!Children(tbl, t) = Children(tbl, t)
                  /\ KeepUp!Unfinished(tbl, t) <=> Unfinished(tbl, t)
  BY DEF KeepUp!Children, KeepUp!Unfinished, KeepUp!Exists, KeepUp!Terminal,
         Children, Unfinished, Exists, Terminal
<1>8. \A tbl, t : KeepUp!maybeResumeParent(tbl, t) = maybeResumeParent(tbl, t)
  BY DEF KeepUp!maybeResumeParent, KeepUp!WakesParent, KeepUp!ResumedRow,
         maybeResumeParent, WakesParent, ResumedRow
<1>9. \A tbl, t, s : /\ KeepUp!applyResult(tbl, t, s) = applyResult(tbl, t, s)
                     /\ KeepUp!WithChildren(tbl, t, s) = WithChildren(tbl, t, s)
  BY <1>3, <1>6, <1>8 DEF KeepUp!applyResult, KeepUp!WithChildren, KeepUp!Terminal,
                          applyResult, WithChildren, Terminal
<1>10. \A w : KeepUp!Busy(w) <=> Busy(w)
  BY DEF KeepUp!Busy, Busy
<1> QED BY <1>1, <1>2, <1>3, <1>4, <1>5, <1>6, <1>7, <1>9, <1>10

(* A step that keeps up is a step of the specification that assumes so.    *)
LEMMA KeptUpIsNext == KeptUp => KeepUp!Next
<1> USE SameStatements DEF workerVars, cancelVars, KeepUp!workerVars, KeepUp!cancelVars
<1>1. Api => KeepUp!Api
  BY DEF Api, Create, ResumeWithState, CreateChild, Resume, CancelRow, Innermost, CancelBegin,
         CancelVisit, CancelAbort, Enter,
         KeepUp!Api, KeepUp!Create, KeepUp!ResumeWithState, KeepUp!CreateChild, KeepUp!Resume,
         KeepUp!CancelRow, KeepUp!Innermost, KeepUp!CancelBegin, KeepUp!CancelVisit,
         KeepUp!CancelAbort, KeepUp!Enter
<1>2. ASSUME NEW w \in Workers, NEW t \in Tasks, Claim(w, t) \/ ClaimLost(w, t)
      PROVE  KeepUp!Worker
  BY <1>2 DEF Claim, ClaimLost, KeepUp!Claim, KeepUp!ClaimLost, KeepUp!Worker
<1>3. ASSUME NEW w \in Workers, renewLease(w) \/ Commit(w) \/ Abandon(w)
      PROVE  KeepUp!Worker
  BY <1>3 DEF renewLease, Commit, Abandon, Release, KeepUp!renewLease, KeepUp!Commit,
              KeepUp!Abandon, KeepUp!Release, KeepUp!Worker
<1>4. ASSUME NEW w \in Workers, NEW r \in Result, Handle(w, r)
      PROVE  KeepUp!Worker
  <2>1. /\ r.kids \subseteq KeepUp!Free
        /\ JoinHandlers /\ r.status = "waiting" =>
             \/ r.kids # {}
             \/ \E c \in KeepUp!Children(tasks, job[w]) : KeepUp!Unfinished(tasks, c)
    BY <1>4 DEF Handle
  <2>2. KeepUp!Cardinality(r.kids) = Cardinality(r.kids)
    BY DEF Cardinality, KeepUp!Cardinality
  <2>3. KeepUp!Handle(w, r)
    BY <1>4, <2>1, <2>2 DEF Handle, KeepUp!Handle
  <2> QED BY <2>3 DEF KeepUp!Worker
<1>5. ASSUME NEW t \in Tasks, LeaseExpires(t), ~Owned(t)
      PROVE  KeepUp!Fault
  BY <1>5 DEF LeaseExpires, Owned, KeepUp!LeaseExpires, KeepUp!Owned, KeepUp!Fault
<1>6. ASSUME NEW W \in SUBSET Workers, WorkersDie(W)
      PROVE  KeepUp!Fault
  BY <1>6 DEF WorkersDie, KeepUp!WorkersDie, KeepUp!Fault
<1> QED BY <1>1, <1>2, <1>3, <1>4, <1>5, <1>6 DEF KeptUp, Worker, KeepUp!Next

(* The leases keep what HeartbeatsKeepUp assumes: with clocks, delays and  *)
(* missed heartbeats within TimingAssumption every step is one of          *)
(* TaskLifecycle under it (worker.go, heartbeat and LeaseDuration).        *)
THEOREM LeasesKeepUp == TimedSpec => ImplementsKeepUp
<1>1. TimedInit => KeepUp!Init
  BY SameStatements DEF TimedInit, Init, EmptyTable, AbsentRow,
                        KeepUp!Init, KeepUp!EmptyTable, KeepUp!AbsentRow
<1>2. TimedInv /\ [TimedNext]_timedVars => [KeepUp!Next]_(KeepUp!vars)
  BY TimedStepKeepsUp, KeptUpIsNext DEF vars, workerVars, cancelVars,
       KeepUp!vars, KeepUp!workerVars, KeepUp!cancelVars
<1> QED BY <1>1, <1>2, TimedAlways, PTL DEF TimedSpec, ImplementsKeepUp, KeepUp!Spec
=============================================================================

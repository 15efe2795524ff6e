------------------------- MODULE TaskDispatchProofs --------------------------
(***************************************************************************)
(* Proofs about TaskDispatch, for every set of servers, workers and tasks  *)
(* and whatever may happen: the pool of workers, the notifications and the *)
(* running tasks.                                                          *)
(***************************************************************************)
EXTENDS TaskDispatch, TaskTableProofs, SequenceTheorems, FiniteSetTheorems

(* Every row is within the constraints, and no task is its own parent; an  *)
(* id without a row has no lease.                                          *)
RowsOK ==
  \A t \in Tasks :
    IF Exists(tasks[t])
    THEN Check(tasks[t]) /\ tasks[t].state # NULL /\ tasks[t].parent_id # t
    ELSE tasks[t].lease = NULL

(* A worker has an assignment exactly while it processes one, of a task    *)
(* that exists, and a result exactly after the handler has returned.  The  *)
(* children in it do not exist yet and belong to that worker alone.        *)
CallsOK ==
  /\ \A w \in Workers : /\ Job(w) # NULL <=> goroutine[w] \in {"handling", "returned"}
                        /\ result[w] # NoResult <=> goroutine[w] = "returned"
                        /\ Job(w) # NULL => Exists(tasks[Job(w)])
                        /\ \A c \in result[w].kids : ~Exists(tasks[c])
  /\ \A v, w \in Workers : v # w => result[v].kids \cap result[w].kids = {}

(* The scanner holds a worker of its own server exactly between taking it  *)
(* and handing it on, and a claim of an existing task exactly from the     *)
(* claiming UPDATE until it has dispatched it.                             *)
ScannerOK ==
  \A s \in Servers :
    /\ held[s] # NULL <=> scan[s] \in {"claim", "commit", "empty", "dispatch"}
    /\ held[s] # NULL => Home[held[s]] = s
    /\ claimed[s].task # NULL <=> scan[s] \in {"commit", "dispatch"}
    /\ claimed[s].task # NULL => Exists(tasks[claimed[s].task])
    /\ \A i \in DOMAIN available[s] : Home[available[s][i]] = s

(* A process that has not started, or has ended, runs no goroutine.        *)
ProcessOK ==
  /\ \A s \in Servers : /\ ctx[s] = "off" => scan[s] = "off" /\ listener[s] = "off"
                        /\ ctx[s] = "dead" => scan[s] = "stopped" /\ listener[s] = "stopped"
  /\ \A w \in Workers : /\ ctx[Home[w]] = "off" => goroutine[w] = "off"
                        /\ ctx[Home[w]] = "dead" => goroutine[w] = "stopped" /\ w \notin returning

CoreInv == TypeOK /\ RowsOK /\ CallsOK /\ ScannerOK /\ ProcessOK

(* The row locks do what the transactions rely on.  Until a claim commits, *)
(* its row is the scanner's, still claimable and as the scanner read it;   *)
(* from the first statement of applyResult to the end of the transaction,  *)
(* the row is the worker's and accepts the result.                         *)
ScanLock(s) ==
  scan[s] = "commit" => LET t == claimed[s].task IN
                          /\ locks[t] = s /\ Claimable(tasks[t])
                          /\ claimed[s].state = tasks[t].state

TxLock(w) ==
  tx[w] # "none" => goroutine[w] = "returned" /\ locks[Job(w)] = w /\ Applicable(w)

LocksOK == (\A s \in Servers : ScanLock(s)) /\ (\A w \in Workers : TxLock(w))

------------------------------------------------------------------------------
(* The table.                                                              *)

(* One row changes, or is inserted, within the constraints.                *)
LEMMA RowUpdate ==
  ASSUME tasks \in [Tasks -> Row], RowsOK, NEW t \in Tasks, NEW r \in Row,
         Exists(r), Check(r), r.state # NULL, r.parent_id # t,
         tasks' = [tasks EXCEPT ![t] = r]
  PROVE  /\ tasks' \in [Tasks -> Row] /\ RowsOK'
         /\ tasks'[t] = r /\ \A u \in Tasks : u # t => tasks'[u] = tasks[u]
<1>1. /\ tasks' \in [Tasks -> Row]
      /\ tasks'[t] = r /\ \A u \in Tasks : u # t => tasks'[u] = tasks[u]
  OBVIOUS
<1> QED BY <1>1 DEF RowsOK

(* What handlers return is what applyResult can be given.                  *)
LEMMA ReturnsAreResults == Returns \subseteq Result
<1> SUFFICES ASSUME NEW r \in Returns PROVE r \in Result
  OBVIOUS
<1>1. /\ r = [status |-> r.status, state |-> r.state, kids |-> r.kids]
      /\ r.status \in Outcomes /\ r.state \in States \cup {NULL}
      /\ r.kids \in SUBSET Tasks
  BY DispatchAssumption DEF Returns
<1> QED BY <1>1, DispatchAssumption DEF Result

(* What a worker may have in hand.                                         *)
LEMMA CallTypes ==
  ASSUME TypeOK, NEW w \in Workers
  PROVE  /\ Job(w) \in Tasks \cup {NULL}
         /\ result[w].kids \subseteq Tasks
         /\ result[w] # NoResult => result[w] \in Returns /\ result[w] \in Result
<1>1. Job(w) \in Tasks \cup {NULL}
  BY DEF TypeOK, Job, Assignment, NoAssignment
<1>3. CASE result[w] = NoResult
  BY <1>1, <1>3 DEF NoResult
<1>4. CASE result[w] # NoResult
  <2>1. result[w] \in Returns
    BY <1>4 DEF TypeOK
  <2>2. result[w] \in Result
    BY <2>1, ReturnsAreResults
  <2> QED BY <1>1, <2>1, <2>2 DEF Result
<1> QED BY <1>3, <1>4

(* Steps of a listener or a scanner that touch neither the table, nor the  *)
(* pool, nor a worker.                                                     *)
LEMMA CoreSimple ==
  ASSUME CoreInv, NEW s \in Servers,
         \/ Listen(s) \/ ListenerFails(s) \/ WaitForNotification(s) \/ SendEvent(s)
         \/ SendAborted(s) \/ NothingToClaim(s) \/ BackoffEnds(s) \/ ScannerStops(s)
         \/ Shutdown(s)
  PROVE  CoreInv'
<1> USE DispatchAssumption DEF CoreInv, scannerVars, workerVars, poolVars, listenVars, lockVars
<1>1. TypeOK'
  <2>1. CASE Listen(s)
    BY <2>1 DEF TypeOK, Listen
  <2>2. CASE ListenerFails(s)
    BY <2>2 DEF TypeOK, ListenerFails
  <2>3. CASE WaitForNotification(s)
    BY <2>3 DEF TypeOK, WaitForNotification
  <2>4. CASE SendEvent(s)
    BY <2>4 DEF TypeOK, SendEvent
  <2>5. CASE SendAborted(s)
    BY <2>5 DEF TypeOK, SendAborted
  <2>6. CASE NothingToClaim(s)
    BY <2>6 DEF TypeOK, NothingToClaim
  <2>7. CASE BackoffEnds(s)
    BY <2>7 DEF TypeOK, BackoffEnds
  <2>8. CASE ScannerStops(s)
    BY <2>8 DEF TypeOK, ScannerStops
  <2>9. CASE Shutdown(s)
    BY <2>9 DEF TypeOK, Shutdown
  <2> QED BY <2>1, <2>2, <2>3, <2>4, <2>5, <2>6, <2>7, <2>8, <2>9
<1>2. RowsOK' /\ CallsOK'
  BY DEF RowsOK, CallsOK, Job, Listen, ListenerFails, WaitForNotification, SendEvent,
         SendAborted, NothingToClaim, BackoffEnds, ScannerStops, Shutdown
<1>3. ScannerOK'
  BY DEF ScannerOK, TypeOK, Listen, ListenerFails, WaitForNotification, SendEvent,
         SendAborted, NothingToClaim, BackoffEnds, ScannerStops, Shutdown
<1>4. ProcessOK'
  <2>1. CASE Listen(s) \/ ListenerFails(s) \/ Shutdown(s)
    BY <2>1 DEF ProcessOK, TypeOK, Listen, ListenerFails, Shutdown
  <2>2. CASE WaitForNotification(s) \/ SendAborted(s)
    BY <2>2 DEF ProcessOK, TypeOK, WaitForNotification, SendAborted
  <2>3. CASE SendEvent(s)
    BY <2>3 DEF ProcessOK, TypeOK, Alive, SendEvent
  <2>4. CASE NothingToClaim(s) \/ BackoffEnds(s) \/ ScannerStops(s)
    BY <2>4 DEF ProcessOK, TypeOK, Alive, NothingToClaim, BackoffEnds, ScannerStops
  <2> QED BY <2>1, <2>2, <2>3, <2>4
<1> QED BY <1>1, <1>2, <1>3, <1>4

(* The start and the end of a process.                                     *)
LEMMA CoreProcess ==
  ASSUME CoreInv, NEW s \in Servers, StartHandlers(s) \/ Die(s)
  PROVE  CoreInv'
<1> USE DispatchAssumption DEF CoreInv, scannerVars, workerVars, poolVars, listenVars, lockVars
<1>1. CASE StartHandlers(s)
  <2>1. TypeOK'
    BY <1>1 DEF TypeOK, StartHandlers
  <2>2. RowsOK' /\ CallsOK'
    BY <1>1 DEF RowsOK, CallsOK, ProcessOK, Job, StartHandlers, Crew, TypeOK
  <2>3. ScannerOK'
    BY <1>1 DEF ScannerOK, TypeOK, ProcessOK, StartHandlers
  <2>4. ProcessOK'
    BY <1>1 DEF ProcessOK, TypeOK, StartHandlers, Crew
  <2> QED BY <2>1, <2>2, <2>3, <2>4
<1>2. CASE Die(s)
  <2>1. TypeOK'
    BY <1>2 DEF TypeOK, Die, Unlock
  <2>2. RowsOK' /\ CallsOK'
    BY <1>2, TableAssumption DEF RowsOK, CallsOK, Job, Die, Crew, TypeOK, NoResult, NoAssignment
  <2>3. ScannerOK'
    BY <1>2, TableAssumption DEF ScannerOK, TypeOK, Die, NoAssignment
  <2>4. ProcessOK'
    BY <1>2 DEF ProcessOK, TypeOK, Die, Crew, Alive
  <2> QED BY <2>1, <2>2, <2>3, <2>4
<1> QED BY <1>1, <1>2

(* The way of a worker through the pool.                                   *)
LEMMA CorePool ==
  ASSUME CoreInv,
         \/ \E s \in Servers : \/ TakeWorker(s) \/ BeginFails(s) \/ AwaitEvents(s)
                               \/ ClaimFails(s) \/ Dispatch(s) \/ DispatchInVain(s)
                               \/ DispatchAborted(s)
         \/ \E w \in Workers : Offer(w) \/ Return(w) \/ ReturnAborted(w) \/ WorkerStops(w)
  PROVE  CoreInv'
<1> USE DispatchAssumption DEF CoreInv, scannerVars, workerVars, poolVars, listenVars, lockVars
<1>1. ASSUME NEW s \in Servers, TakeWorker(s) \/ BeginFails(s) PROVE CoreInv'
  <2>1. /\ available[s] \in Seq(Workers) /\ available[s] # <<>>
        /\ Head(available[s]) \in Workers /\ Tail(available[s]) \in Seq(Workers)
        /\ Head(available[s]) = available[s][1] /\ 1 \in DOMAIN available[s]
        /\ \A i \in DOMAIN Tail(available[s]) : /\ i + 1 \in DOMAIN available[s]
                                                /\ Tail(available[s])[i] = available[s][i + 1]
    BY <1>1 DEF TakeWorker, BeginFails, TypeOK
  <2>2. TypeOK'
    <3>1. CASE TakeWorker(s)
      BY <2>1, <3>1 DEF TypeOK, TakeWorker
    <3>2. CASE BeginFails(s)
      BY <2>1, <3>2 DEF TypeOK, BeginFails
    <3> QED BY <1>1, <3>1, <3>2
  <2>3. RowsOK' /\ CallsOK'
    BY <1>1 DEF RowsOK, CallsOK, Job, TakeWorker, BeginFails
  <2>a. Home[Head(available[s])] = s
    BY <2>1 DEF ScannerOK
  <2>4. ScannerOK'
    <3>1. CASE TakeWorker(s)
      BY <2>1, <2>a, <3>1, TableAssumption DEF ScannerOK, TypeOK, TakeWorker
    <3>2. CASE BeginFails(s)
      BY <2>1, <3>2 DEF ScannerOK, TypeOK, BeginFails
    <3> QED BY <1>1, <3>1, <3>2
  <2>5. ProcessOK'
    BY <1>1, <2>a DEF ProcessOK, TypeOK, TakeWorker, BeginFails, Alive
  <2> QED BY <2>2, <2>3, <2>4, <2>5
<1>2. ASSUME NEW s \in Servers, AwaitEvents(s) \/ ClaimFails(s) PROVE CoreInv'
  <2>0. scan[s] \in {"claim", "commit", "empty"}
    BY <1>2 DEF AwaitEvents, ClaimFails
  <2>1. held[s] \in Workers /\ Home[held[s]] = s /\ Alive(s)
    <3>1. held[s] \in Workers /\ Home[held[s]] = s
      BY <2>0 DEF ScannerOK, TypeOK
    <3>2. ctx[s] \in {"off", "up", "cancelled", "dead"} /\ ctx[s] # "off" /\ ctx[s] # "dead"
      BY <2>0 DEF ProcessOK, TypeOK
    <3> QED BY <3>1, <3>2 DEF Alive
  <2>2. TypeOK'
    <3>1. CASE AwaitEvents(s)
      BY <2>1, <3>1 DEF TypeOK, AwaitEvents, ReturnHeld
    <3>2. CASE ClaimFails(s)
      BY <2>1, <3>2 DEF TypeOK, ClaimFails, ReturnHeld, Unlock
    <3> QED BY <1>2, <3>1, <3>2
  <2>3. RowsOK' /\ CallsOK'
    BY <1>2 DEF RowsOK, CallsOK, Job, AwaitEvents, ClaimFails, ReturnHeld
  <2>4. ScannerOK'
    <3>1. CASE AwaitEvents(s)
      BY <2>1, <3>1 DEF ScannerOK, TypeOK, AwaitEvents, ReturnHeld
    <3>2. CASE ClaimFails(s)
      <4>1. /\ scan'[s] = "backoff" /\ held'[s] = NULL /\ claimed'[s].task = NULL
            /\ \A v \in Servers : v # s => /\ scan'[v] = scan[v] /\ held'[v] = held[v]
                                           /\ claimed'[v] = claimed[v]
            /\ UNCHANGED <<available, tasks>>
        BY <2>1, <3>2 DEF TypeOK, ClaimFails, ReturnHeld, NoAssignment
      <4> QED BY <4>1 DEF ScannerOK
    <3> QED BY <1>2, <3>1, <3>2
  <2>5. ProcessOK'
    BY <1>2, <2>1 DEF ProcessOK, TypeOK, AwaitEvents, ClaimFails, ReturnHeld, Alive
  <2> QED BY <2>2, <2>3, <2>4, <2>5
<1>3. ASSUME NEW s \in Servers, Dispatch(s) PROVE CoreInv'
  <2>1. /\ held[s] \in Workers /\ Home[held[s]] = s /\ Alive(s)
        /\ claimed[s] \in Assignment /\ claimed[s].task \in Tasks
        /\ Exists(tasks[claimed[s].task])
    BY <1>3 DEF Dispatch, ScannerOK, TypeOK, Alive, Assignment, NoAssignment
  <2>2. TypeOK'
    BY <1>3, <2>1 DEF TypeOK, Dispatch
  <2>3. RowsOK'
    BY <1>3 DEF RowsOK, Dispatch
  <2>a. /\ goroutine[held[s]] = "waiting"
        /\ goroutine'[held[s]] = "handling" /\ assignment'[held[s]] = claimed[s]
        /\ \A w \in Workers : w # held[s] => /\ goroutine'[w] = goroutine[w]
                                             /\ assignment'[w] = assignment[w]
        /\ UNCHANGED <<tasks, ctx, result, returning>>
    BY <1>3, <2>1 DEF Dispatch, TypeOK
  <2>4. CallsOK'
    BY <2>1, <2>a, TableAssumption DEF CallsOK, Job
  <2>5. ScannerOK'
    BY <1>3, <2>1 DEF ScannerOK, TypeOK, Dispatch, NoAssignment
  <2>6. ProcessOK'
    <3>1. scan[s] = "dispatch" /\ scan' = [scan EXCEPT ![s] = "need"] /\ listener' = listener
      BY <1>3 DEF Dispatch
    <3> QED BY <2>1, <2>a, <3>1 DEF ProcessOK, TypeOK, Alive
  <2> QED BY <2>2, <2>3, <2>4, <2>5, <2>6
<1>v. ASSUME NEW s \in Servers, DispatchInVain(s) PROVE CoreInv'
  <2>1. /\ held[s] \in Workers /\ Home[held[s]] = s /\ goroutine[held[s]] = "waiting"
        /\ goroutine'[held[s]] = "offering"
        /\ \A w \in Workers : w # held[s] => goroutine'[w] = goroutine[w]
        /\ UNCHANGED <<tasks, ctx, assignment, result, returning, listener>>
    BY <1>v DEF DispatchInVain, ScannerOK, TypeOK
  <2>a. /\ goroutine' = [goroutine EXCEPT ![held[s]] = "offering"]
        /\ claimed' = [claimed EXCEPT ![s] = NoAssignment]
        /\ held' = [held EXCEPT ![s] = NULL] /\ scan' = [scan EXCEPT ![s] = "need"]
        /\ Alive(s) /\ UNCHANGED <<available, notif, announced, skipped, locks, tx>>
    BY <1>v DEF DispatchInVain
  <2>2. TypeOK'
    BY <2>1, <2>a DEF TypeOK
  <2>3. RowsOK' /\ CallsOK'
    BY <2>1 DEF RowsOK, CallsOK, Job
  <2>4. ScannerOK'
    BY <1>v, <2>1 DEF ScannerOK, TypeOK, DispatchInVain, NoAssignment
  <2>5. ProcessOK'
    <3>1. ctx[s] # "off" /\ ctx[s] # "dead" /\ \A v \in Servers : v # s => scan'[v] = scan[v]
      BY <2>a DEF Alive, TypeOK
    <3> QED BY <2>1, <3>1 DEF ProcessOK
  <2> QED BY <2>2, <2>3, <2>4, <2>5
<1>4. ASSUME NEW s \in Servers, DispatchAborted(s) PROVE CoreInv'
  <2>1. held[s] \in Workers /\ Home[held[s]] = s
    BY <1>4 DEF DispatchAborted, ScannerOK, TypeOK
  <2>2. TypeOK'
    BY <1>4, <2>1 DEF TypeOK, DispatchAborted, ReturnHeld
  <2>3. RowsOK' /\ CallsOK'
    BY <1>4 DEF RowsOK, CallsOK, Job, DispatchAborted, ReturnHeld
  <2>4. ScannerOK'
    BY <1>4, <2>1 DEF ScannerOK, TypeOK, DispatchAborted, ReturnHeld, NoAssignment
  <2>5. ProcessOK'
    BY <1>4, <2>1 DEF ProcessOK, TypeOK, DispatchAborted, ReturnHeld, Alive
  <2> QED BY <2>2, <2>3, <2>4, <2>5
<1>5. ASSUME NEW w \in Workers, Offer(w) \/ Return(w) PROVE CoreInv'
  <2> DEFINE s == Home[w]
  <2>1. /\ s \in Servers /\ available[s] \in Seq(Workers)
        /\ Append(available[s], w) \in Seq(Workers)
        /\ \A i \in DOMAIN Append(available[s], w) :
             \/ i \in DOMAIN available[s] /\ Append(available[s], w)[i] = available[s][i]
             \/ Append(available[s], w)[i] = w
    BY DEF TypeOK
  <2>2. available' = [available EXCEPT ![s] = Append(available[s], w)]
    BY <1>5 DEF Offer, Return, Put
  <2> HIDE DEF s
  <2>3. TypeOK'
    <3>1. available' \in [Servers -> Seq(Workers)]
      BY <2>1, <2>2 DEF TypeOK
    <3>2. CASE Offer(w)
      BY <3>1, <3>2 DEF TypeOK, Offer
    <3>3. CASE Return(w)
      BY <3>1, <3>3 DEF TypeOK, Return
    <3> QED BY <1>5, <3>2, <3>3
  <2>4. RowsOK' /\ CallsOK'
    BY <1>5 DEF RowsOK, CallsOK, Job, Offer, Return, TypeOK
  <2>5. ScannerOK'
    <3>1. UNCHANGED <<tasks, scan, held, claimed>>
      BY <1>5 DEF Offer, Return
    <3>2. ASSUME NEW v \in Servers, NEW i \in DOMAIN available'[v]
          PROVE  Home[available'[v][i]] = v
      <4>1. CASE v = s
        BY <2>1, <2>2, <3>2, <4>1 DEF TypeOK, ScannerOK, s
      <4>2. CASE v # s
        BY <2>2, <3>2, <4>2 DEF TypeOK, ScannerOK
      <4> QED BY <4>1, <4>2
    <3> QED BY <3>1, <3>2 DEF ScannerOK
  <2>6. ProcessOK'
    BY <1>5 DEF ProcessOK, TypeOK, Offer, Return, Alive
  <2> QED BY <2>3, <2>4, <2>5, <2>6
<1>6. ASSUME NEW w \in Workers, ReturnAborted(w) \/ WorkerStops(w) PROVE CoreInv'
  <2>1. TypeOK'
    <3>1. CASE ReturnAborted(w)
      BY <3>1 DEF TypeOK, ReturnAborted
    <3>2. CASE WorkerStops(w)
      BY <3>2 DEF TypeOK, WorkerStops
    <3> QED BY <1>6, <3>1, <3>2
  <2>2. RowsOK' /\ CallsOK'
    BY <1>6 DEF RowsOK, CallsOK, Job, ReturnAborted, WorkerStops, TypeOK
  <2>3. ScannerOK'
    BY <1>6 DEF ScannerOK, TypeOK, ReturnAborted, WorkerStops
  <2>4. ProcessOK'
    BY <1>6 DEF ProcessOK, TypeOK, ReturnAborted, WorkerStops
  <2> QED BY <2>1, <2>2, <2>3, <2>4
<1> QED BY <1>1, <1>2, <1>3, <1>v, <1>4, <1>5, <1>6

------------------------------------------------------------------------------
(* Steps that change the table or a worker's call.                         *)

(* A NOTIFY keeps the types of what it changes.                            *)
LEMMA NotifyType ==
  ASSUME TypeOK, NEW T \in SUBSET Tasks, NEW L, notify(T, L)
  PROVE  /\ notif' \in [Servers -> 0 .. MaxNotify] /\ announced' \in [Servers -> SUBSET Tasks]
         /\ skipped' \in [Servers -> SUBSET Tasks] /\ listener' = listener
BY DispatchAssumption DEF TypeOK, notify

(* A step that changes one existing row, or inserts one that is free, and  *)
(* leaves the workers' calls alone.                                        *)
LEMMA RowStep ==
  ASSUME CoreInv, NEW t \in Tasks, NEW r \in Row, Exists(tasks[t]) \/ t \in Free,
         Exists(r), Check(r), r.state # NULL, r.parent_id # t,
         tasks' = [tasks EXCEPT ![t] = r],
         UNCHANGED <<goroutine, assignment, result>>
  PROVE  /\ tasks' \in [Tasks -> Row] /\ RowsOK' /\ CallsOK'
         /\ \A u \in Tasks : Exists(tasks[u]) => Exists(tasks'[u])
<1>t. TypeOK /\ CallsOK /\ tasks \in [Tasks -> Row]
  BY DEF CoreInv, TypeOK
<1>1. /\ tasks' \in [Tasks -> Row] /\ RowsOK'
      /\ tasks'[t] = r /\ \A u \in Tasks : u # t => tasks'[u] = tasks[u]
  BY RowUpdate DEF CoreInv, TypeOK
<1>2. \A u \in Tasks : Exists(tasks[u]) => Exists(tasks'[u])
  BY <1>1
<1>3. \A w \in Workers : Job(w) \in Tasks \cup {NULL} /\ result[w].kids \subseteq Tasks
  BY <1>t, CallTypes
<1>4. ASSUME NEW w \in Workers, NEW c \in result[w].kids PROVE ~Exists(tasks'[c])
  <2>1. ~Exists(tasks[c]) /\ c \in Tasks
    BY <1>t, <1>3 DEF CallsOK
  <2>2. c # t
    BY <2>1 DEF Free
  <2> QED BY <1>1, <2>1, <2>2
<1>5. CallsOK'
  BY <1>t, <1>2, <1>3, <1>4 DEF CallsOK, Job
<1> QED BY <1>1, <1>2, <1>5

(* Requests of clients, claims and leases.                                 *)
LEMMA CoreTable ==
  ASSUME CoreInv, LocksOK,
         \/ \E s \in Servers, t \in Tasks :
              \/ \E st \in States : Create(s, t, st)
              \/ Resume(s, t) \/ Claim(s, t)
         \/ \E s \in Servers : scanAndAssign(s) \/ ClaimLost(s)
         \/ \E w \in Workers : renewLease(w)
         \/ \E t \in Tasks : LeaseExpires(t)
  PROVE  CoreInv'
<1> USE DispatchAssumption DEF CoreInv, scannerVars, workerVars, poolVars, listenVars, lockVars
<1>t. TypeOK /\ tasks \in [Tasks -> Row]
  BY DEF TypeOK
<1>f. ASSUME tasks' \in [Tasks -> Row], RowsOK', CallsOK',
             \A u \in Tasks : Exists(tasks[u]) => Exists(tasks'[u]),
             UNCHANGED <<ctx, scan, held, claimed, available, returning, goroutine,
                         assignment, result, listener, locks, tx>>,
             notif' \in [Servers -> 0 .. MaxNotify], announced' \in [Servers -> SUBSET Tasks],
             skipped' \in [Servers -> SUBSET Tasks]
      PROVE  CoreInv'
  <2>1. TypeOK'
    BY <1>f DEF TypeOK
  <2>2. \A s \in Servers : claimed[s].task \in Tasks \cup {NULL}
    BY <1>t DEF TypeOK, Assignment, NoAssignment
  <2>3. ScannerOK' /\ ProcessOK'
    BY <1>f, <2>2 DEF ScannerOK, ProcessOK
  <2> QED BY <1>f, <2>1, <2>3
<1>1. ASSUME NEW s \in Servers, NEW t \in Tasks, NEW st \in States, Create(s, t, st)
      PROVE  CoreInv'
  <2>1. /\ NewRow(st, NULL) \in Row /\ Exists(NewRow(st, NULL)) /\ Check(NewRow(st, NULL))
        /\ NewRow(st, NULL).state # NULL /\ NewRow(st, NULL).parent_id # t
    BY NewRowGood, TableAssumption
  <2>2. /\ tasks' \in [Tasks -> Row] /\ RowsOK' /\ CallsOK'
        /\ \A u \in Tasks : Exists(tasks[u]) => Exists(tasks'[u])
    BY <1>1, <2>1, RowStep DEF Create
  <2>3. /\ notif' \in [Servers -> 0 .. MaxNotify] /\ announced' \in [Servers -> SUBSET Tasks]
        /\ skipped' \in [Servers -> SUBSET Tasks] /\ listener' = listener
    BY <1>1, NotifyType DEF Create
  <2> QED BY <1>1, <1>f, <2>2, <2>3 DEF Create
<1>2. ASSUME NEW s \in Servers, NEW t \in Tasks, Resume(s, t)
      PROVE  CoreInv'
  <2>1. /\ ResumedRow(tasks[t]) \in Row /\ Exists(tasks[t]) /\ Exists(ResumedRow(tasks[t]))
        /\ Check(ResumedRow(tasks[t]))
        /\ ResumedRow(tasks[t]).state # NULL /\ ResumedRow(tasks[t]).parent_id # t
    BY <1>t, <1>2, ResumedRowGood DEF Resume, RowsOK
  <2>2. /\ tasks' \in [Tasks -> Row] /\ RowsOK' /\ CallsOK'
        /\ \A u \in Tasks : Exists(tasks[u]) => Exists(tasks'[u])
    BY <1>2, <2>1, RowStep DEF Resume
  <2>3. /\ notif' \in [Servers -> 0 .. MaxNotify] /\ announced' \in [Servers -> SUBSET Tasks]
        /\ skipped' \in [Servers -> SUBSET Tasks] /\ listener' = listener
    BY <1>2, NotifyType DEF Resume
  <2> QED BY <1>2, <1>f, <2>2, <2>3 DEF Resume
<1>c. ASSUME NEW s \in Servers, NEW t \in Tasks, Claim(s, t) PROVE CoreInv'
  <2>1. /\ scan[s] = "claim" /\ ctx[s] = "up" /\ Exists(tasks[t])
        /\ claimed' = [claimed EXCEPT ![s] = [task |-> t, state |-> tasks[t].state]]
        /\ scan' = [scan EXCEPT ![s] = "commit"]
        /\ locks' = [locks EXCEPT ![t] = s]
        /\ UNCHANGED <<tasks, ctx, held, available, returning, goroutine, assignment, result,
                       listener, notif, announced, skipped, tx>>
    BY <1>c DEF Claim, Reachable, Claimable, Exists
  <2>2. [task |-> t, state |-> tasks[t].state] \in Assignment
    BY <1>t, <2>1 DEF RowsOK, Row, Assignment
  <2>3. TypeOK'
    BY <2>1, <2>2 DEF TypeOK
  <2>4. RowsOK' /\ CallsOK'
    BY <2>1 DEF RowsOK, CallsOK, Job
  <2>5. ScannerOK'
    BY <1>t, <2>1, TableAssumption DEF ScannerOK, TypeOK
  <2>6. ProcessOK'
    BY <2>1 DEF ProcessOK, TypeOK
  <2> QED BY <2>3, <2>4, <2>5, <2>6
<1>3. ASSUME NEW s \in Servers, scanAndAssign(s) \/ ClaimLost(s)
      PROVE  CoreInv'
  <2>t. PICK t \in Tasks : t = claimed[s].task
    BY <1>3, <1>t DEF scanAndAssign, ClaimLost, CommitClaim, ScannerOK, TypeOK, Assignment,
                      NoAssignment
  <2>0. /\ scan[s] = "commit" /\ ctx[s] = "up"
        /\ tasks' = [tasks EXCEPT ![t] = ClaimedRow(tasks[t], held[s])]
        /\ announced' = [v \in Servers |-> announced[v] \ {t}]
        /\ skipped' = [v \in Servers |-> skipped[v] \ {t}]
        /\ locks' = [u \in Tasks |-> IF locks[u] \in {s} THEN NULL ELSE locks[u]]
        /\ UNCHANGED <<ctx, goroutine, assignment, result, listener, notif, available, tx>>
    BY <1>3, <2>t DEF scanAndAssign, ClaimLost, CommitClaim, ReturnHeld, Unlock
  <2>a. Claimable(tasks[t])
    BY <2>t, <2>0 DEF LocksOK, ScanLock
  <2>1. held[s] \in Workers /\ Home[held[s]] = s
    BY <1>t, <2>0 DEF ScannerOK, TypeOK
  <2>2. Exists(tasks[t])
    BY <2>a DEF Claimable, Exists
  <2>3. /\ ClaimedRow(tasks[t], held[s]) \in Row /\ Exists(ClaimedRow(tasks[t], held[s]))
        /\ Check(ClaimedRow(tasks[t], held[s]))
        /\ ClaimedRow(tasks[t], held[s]).state # NULL
        /\ ClaimedRow(tasks[t], held[s]).parent_id # t
    BY <1>t, <2>a, <2>1, <2>2, ClaimedRowGood DEF RowsOK
  <2>4. /\ tasks' \in [Tasks -> Row] /\ RowsOK' /\ CallsOK'
        /\ \A u \in Tasks : Exists(tasks[u]) => Exists(tasks'[u])
    BY <2>0, <2>2, <2>3, RowStep
  <2>5. \A v \in Servers : claimed[v].task \in Tasks \cup {NULL}
    BY <1>t DEF TypeOK, Assignment, NoAssignment
  <2>6. CASE scanAndAssign(s)
    <3>1. scan' = [scan EXCEPT ![s] = "dispatch"] /\ UNCHANGED <<held, claimed, available, returning>>
      BY <2>6 DEF scanAndAssign
    <3>3. TypeOK'
      BY <2>0, <2>4, <3>1 DEF TypeOK
    <3>4. ScannerOK'
      BY <1>t, <2>0, <2>4, <2>5, <3>1 DEF ScannerOK, TypeOK
    <3>5. ProcessOK'
      BY <2>0, <3>1 DEF ProcessOK, TypeOK
    <3> QED BY <2>4, <3>3, <3>4, <3>5
  <2>7. CASE ClaimLost(s)
    <3>1. /\ scan' = [scan EXCEPT ![s] = "backoff"]
          /\ claimed' = [claimed EXCEPT ![s] = NoAssignment]
          /\ returning' = returning \cup {held[s]} /\ held' = [held EXCEPT ![s] = NULL]
      BY <2>7 DEF ClaimLost, ReturnHeld
    <3>2. TypeOK'
      BY <2>0, <2>1, <2>4, <3>1 DEF TypeOK
    <3>3. ScannerOK'
      BY <1>t, <2>0, <2>4, <2>5, <3>1 DEF ScannerOK, TypeOK, NoAssignment
    <3>4. ProcessOK'
      BY <2>0, <2>1, <3>1 DEF ProcessOK, TypeOK
    <3> QED BY <2>4, <3>2, <3>3, <3>4
  <2> QED BY <1>3, <2>6, <2>7
<1>4. ASSUME NEW t \in Tasks, NEW l \in {"live", "expired"}, tasks[t].lease # NULL, Exists(tasks[t]),
             tasks' = [tasks EXCEPT ![t] = [tasks[t] EXCEPT !.lease = l]],
             UNCHANGED <<ctx, scannerVars, workerVars, poolVars, listenVars, lockVars>>
      PROVE  CoreInv'
  <2> DEFINE r == [tasks[t] EXCEPT !.lease = l]
  <2>0. tasks[t] \in Row /\ Check(tasks[t]) /\ tasks[t].state # NULL /\ tasks[t].parent_id # t
    BY <1>t, <1>4 DEF RowsOK
  <2>1. r \in Row /\ Exists(r) /\ Check(r) /\ r.state # NULL /\ r.parent_id # t
    BY <1>4, <2>0, LeaseRowGood
  <2>2. /\ tasks' \in [Tasks -> Row] /\ RowsOK' /\ CallsOK'
        /\ \A u \in Tasks : Exists(tasks[u]) => Exists(tasks'[u])
    BY <1>4, <2>1, RowStep
  <2> QED BY <1>4, <1>f, <1>t, <2>2 DEF TypeOK
<1>5. ASSUME NEW w \in Workers, renewLease(w) PROVE CoreInv'
  <2>1. /\ Job(w) \in Tasks /\ tasks[Job(w)].status = "running" /\ Exists(tasks[Job(w)])
        /\ tasks' = [tasks EXCEPT ![Job(w)] = [tasks[Job(w)] EXCEPT !.lease = "live"]]
        /\ UNCHANGED <<ctx, scannerVars, workerVars, poolVars, listenVars, lockVars>>
    BY <1>5, <1>t DEF renewLease, CallsOK, Job, TypeOK, Assignment, NoAssignment, Exists
  <2>2. tasks[Job(w)].lease # NULL
    BY <2>1 DEF RowsOK, Check, CheckLease
  <2> QED BY <1>4, <2>1, <2>2
<1>6. ASSUME NEW t \in Tasks, LeaseExpires(t) PROVE CoreInv'
  <2>1. /\ tasks[t].lease = "live" /\ tasks[t].lease # NULL
        /\ tasks' = [tasks EXCEPT ![t] = [tasks[t] EXCEPT !.lease = "expired"]]
        /\ UNCHANGED <<ctx, scannerVars, workerVars, poolVars, listenVars, lockVars>>
    BY <1>6, TableAssumption DEF LeaseExpires
  <2>2. Exists(tasks[t])
    BY <2>1 DEF RowsOK
  <2> QED BY <1>4, <2>1, <2>2
<1> QED BY <1>1, <1>2, <1>c, <1>3, <1>5, <1>6

(* The end of processTask, with or without an effect on the table.         *)
LEMMA FinishKeepsCore ==
  ASSUME CoreInv, NEW w \in Workers, Finish(w), goroutine[w] \in {"handling", "returned"},
         tasks' \in [Tasks -> Row], RowsOK',
         \A t \in Tasks : Exists(tasks[t]) => Exists(tasks'[t]),
         \A t \in Tasks : Exists(tasks'[t]) => Exists(tasks[t]) \/ t \in result[w].kids,
         listener' = listener, notif' \in [Servers -> 0 .. MaxNotify],
         announced' \in [Servers -> SUBSET Tasks], skipped' \in [Servers -> SUBSET Tasks]
  PROVE  CoreInv'
<1> USE DispatchAssumption DEF CoreInv, scannerVars, poolVars
<1>t. TypeOK
  OBVIOUS
<1>1. TypeOK'
  BY DEF TypeOK, Finish, Unlock
<1>2. /\ goroutine'[w] = "offering" /\ assignment'[w] = NoAssignment /\ result'[w] = NoResult
      /\ \A v \in Workers : v # w => /\ goroutine'[v] = goroutine[v]
                                     /\ assignment'[v] = assignment[v]
                                     /\ result'[v] = result[v]
      /\ UNCHANGED <<ctx, scan, held, claimed, available, returning>>
  BY DEF Finish, TypeOK
<1>3. \A v \in Workers : Job(v) \in Tasks \cup {NULL} /\ result[v].kids \subseteq Tasks
  BY CallTypes
<1>4. CallsOK'
  <2>1. ASSUME NEW v \in Workers, v # w, NEW c \in result[v].kids PROVE ~Exists(tasks'[c])
    BY <1>3, <2>1 DEF CallsOK
  <2>2. NoResult.kids = {} /\ NoAssignment.task = NULL
    BY DEF NoResult, NoAssignment
  <2> QED BY <1>2, <1>3, <2>1, <2>2 DEF CallsOK, Job
<1>5. ScannerOK'
  <2>1. \A s \in Servers : claimed[s].task \in Tasks \cup {NULL}
    BY <1>t DEF TypeOK, Assignment, NoAssignment
  <2> QED BY <1>2, <2>1 DEF ScannerOK
<1>6. ProcessOK'
  BY <1>2 DEF ProcessOK
<1> QED BY <1>1, <1>4, <1>5, <1>6

(* The commit, row by row: the children are new, the task is finished, and *)
(* the parent that is announced has been resumed.                          *)
LEMMA CommitTable ==
  ASSUME CoreInv, LocksOK, NEW w \in Workers, Commit(w)
  PROVE  /\ Job(w) \in Tasks /\ result[w] \in Result /\ result[w].status # "invalid"
         /\ Exists(tasks[Job(w)]) /\ Job(w) \notin result[w].kids
         /\ tasks' \in [Tasks -> Row]
         /\ tasks'[Job(w)] = FinishedRow(tasks[Job(w)], result[w])
         /\ Check(tasks'[Job(w)])
         /\ \A u \in result[w].kids : u \in Tasks /\ tasks'[u] = NewRow(EmptyState, Job(w))
         /\ \A u \in Tasks : u # Job(w) /\ u \notin result[w].kids =>
              \/ tasks'[u] = tasks[u]
              \/ tasks[u].status = "waiting" /\ tasks'[u] = ResumedRow(tasks[u])
         /\ Announces(w) \subseteq Tasks
         /\ \A u \in Announces(w) : tasks'[u].status = "pending" /\ tasks[u].status # "pending"
<1> DEFINE t == Job(w)
<1>t. TypeOK /\ tasks \in [Tasks -> Row] /\ CallsOK
  BY DEF CoreInv, TypeOK
<1>1. /\ goroutine[w] = "returned" /\ result[w].status # "invalid"
      /\ Check(FinishedRow(tasks[t], result[w]))
      /\ tasks' = applyResult(WithChildren(tasks, t, result[w].kids), t, result[w])
  BY DEF Commit, LocksOK, TxLock, Applicable
<1>2. t \in Tasks /\ Exists(tasks[t]) /\ result[w] \in Result /\ result[w].kids \subseteq Tasks
  BY <1>t, <1>1, CallTypes DEF CallsOK
<1>3. t \notin result[w].kids
  BY <1>t, <1>2 DEF CallsOK
<1> HIDE DEF t
<1>4. tasks' \in [Tasks -> Row] /\ tasks'[t] = FinishedRow(tasks[t], result[w])
  BY <1>t, <1>1, <1>2, <1>3, CommitShape
<1>5. \A u \in result[w].kids : u \in Tasks /\ tasks'[u] = NewRow(EmptyState, t)
  BY <1>t, <1>1, <1>2, <1>3, CommitShape
<1>6. ASSUME NEW u \in Tasks, u # t, u \notin result[w].kids
      PROVE  \/ tasks'[u] = tasks[u]
             \/ tasks[u].status = "waiting" /\ tasks'[u] = ResumedRow(tasks[u])
  BY <1>t, <1>1, <1>2, <1>3, <1>6, CommitShape
<1>7. ASSUME NEW u \in Announces(w)
      PROVE  u \in Tasks /\ tasks'[u].status = "pending" /\ tasks[u].status # "pending"
  <2>1. CASE u \in result[w].kids
    BY <1>t, <1>5, <2>1 DEF NewRow, CallsOK, Exists
  <2>2. CASE u \notin result[w].kids
    <3>1. /\ u \in Tasks /\ result[w].status \in Terminal /\ WakesParent(tasks, t)
          /\ u = tasks[t].parent_id
      BY <2>2 DEF Announces, Resumes, t
    <3>2. tasks[t].parent_id # t
      BY <1>2 DEF CoreInv, RowsOK
    <3>3. tasks'[u] = ResumedRow(tasks[u])
      BY <1>t, <1>1, <1>2, <1>3, <2>2, <3>1, <3>2, CommitWakes
    <3> QED BY <1>t, <3>1, <3>3 DEF ResumedRow, Row, WakesParent
  <2> QED BY <2>1, <2>2
<1> QED BY <1>1, <1>2, <1>3, <1>4, <1>5, <1>6, <1>7 DEF t

(* processTask.                                                            *)
LEMMA CoreCalls ==
  ASSUME CoreInv, LocksOK, NEW w \in Workers,
         \/ (\E r \in Returns : Handle(w, r)) \/ Commit(w) \/ Abandon(w)
         \/ UpdateOwn(w) \/ ReachParent(w) \/ LockParent(w)
  PROVE  CoreInv'
<1> USE DispatchAssumption DEF CoreInv, scannerVars, workerVars, poolVars, listenVars, lockVars
<1>t. TypeOK /\ tasks \in [Tasks -> Row]
  BY DEF TypeOK
<1>1. ASSUME NEW r \in Returns, Handle(w, r) PROVE CoreInv'
  <2>1. TypeOK'
    BY <1>1 DEF TypeOK, Handle
  <2>2. /\ goroutine[w] = "handling" /\ goroutine'[w] = "returned" /\ result'[w] = r
        /\ \A v \in Workers : v # w => goroutine'[v] = goroutine[v] /\ result'[v] = result[v]
        /\ r.kids \subseteq Free /\ r # NoResult
        /\ UNCHANGED <<tasks, ctx, assignment, scan, held, claimed, available, returning,
                       listener>>
    <3>1. r # NoResult
      <4>1. r.status \in Outcomes /\ "none" \notin Outcomes
        BY DEF Returns
      <4> QED BY <4>1 DEF NoResult
    <3> QED BY <1>1, <3>1 DEF Handle, TypeOK
  <2>3. CallsOK'
    BY <2>2 DEF CallsOK, Job, Free
  <2>4. RowsOK' /\ ScannerOK' /\ ProcessOK'
    BY <2>2 DEF RowsOK, ScannerOK, ProcessOK
  <2> QED BY <2>1, <2>3, <2>4
<1>2. CASE Abandon(w)
  <2>1. /\ Finish(w) /\ goroutine[w] \in {"handling", "returned"}
        /\ UNCHANGED <<tasks, listener, notif, announced, skipped>>
    BY <1>2 DEF Abandon
  <2>2. RowsOK'
    BY <2>1 DEF RowsOK
  <2> QED BY <1>t, <2>1, <2>2, FinishKeepsCore DEF TypeOK
<1>3. CASE Commit(w)
  <2>1. /\ Job(w) \in Tasks /\ result[w] \in Result /\ result[w].status # "invalid"
        /\ Exists(tasks[Job(w)]) /\ Job(w) \notin result[w].kids
        /\ tasks' \in [Tasks -> Row]
        /\ tasks'[Job(w)] = FinishedRow(tasks[Job(w)], result[w])
        /\ Check(tasks'[Job(w)])
        /\ \A u \in result[w].kids : u \in Tasks /\ tasks'[u] = NewRow(EmptyState, Job(w))
        /\ \A u \in Tasks : u # Job(w) /\ u \notin result[w].kids =>
             \/ tasks'[u] = tasks[u]
             \/ tasks[u].status = "waiting" /\ tasks'[u] = ResumedRow(tasks[u])
        /\ Announces(w) \subseteq Tasks
    BY <1>3, CommitTable
  <2>2. /\ Exists(tasks'[Job(w)]) /\ tasks'[Job(w)].state # NULL
        /\ tasks'[Job(w)].parent_id # Job(w)
    BY <1>t, <2>1, FinishedRowType DEF RowsOK, Exists, Result
  <2>3. ASSUME NEW u \in result[w].kids
        PROVE  /\ Exists(tasks'[u]) /\ Check(tasks'[u]) /\ tasks'[u].state # NULL
               /\ tasks'[u].parent_id # u
    BY <2>1, NewRowGood, TableAssumption
  <2>4. ASSUME NEW u \in Tasks, u # Job(w), u \notin result[w].kids
        PROVE  /\ Exists(tasks'[u]) <=> Exists(tasks[u])
               /\ IF Exists(tasks'[u])
                  THEN Check(tasks'[u]) /\ tasks'[u].state # NULL /\ tasks'[u].parent_id # u
                  ELSE tasks'[u].lease = NULL
    <3>1. CASE tasks'[u] = tasks[u]
      BY <3>1 DEF RowsOK
    <3>2. CASE tasks[u].status = "waiting" /\ tasks'[u] = ResumedRow(tasks[u])
      BY <1>t, <3>2, ResumedRowGood DEF RowsOK
    <3> QED BY <2>1, <2>4, <3>1, <3>2
  <2>5. RowsOK'
    BY <2>1, <2>2, <2>3, <2>4 DEF RowsOK
  <2>6. /\ \A u \in Tasks : Exists(tasks[u]) => Exists(tasks'[u])
        /\ \A u \in Tasks : Exists(tasks'[u]) => Exists(tasks[u]) \/ u \in result[w].kids
    BY <2>1, <2>2, <2>3, <2>4
  <2>7. /\ notif' \in [Servers -> 0 .. MaxNotify] /\ announced' \in [Servers -> SUBSET Tasks]
        /\ skipped' \in [Servers -> SUBSET Tasks] /\ listener' = listener
    BY <1>3, <2>1, NotifyType DEF Commit
  <2> QED BY <1>3, <2>1, <2>5, <2>6, <2>7, FinishKeepsCore DEF Commit
<1>4. CASE UpdateOwn(w) \/ ReachParent(w) \/ LockParent(w)
  <2>1. UNCHANGED <<tasks, ctx, scan, held, claimed, goroutine, assignment, result, available,
                    returning, listener, notif, announced, skipped>>
    BY <1>4 DEF UpdateOwn, ReachParent, LockParent, Step
  <2>2. tx' \in [Workers -> {"none", "updated", "queued", "joined"}]
    <3>1. \E to \in {"updated", "queued", "joined"} : tx' = [tx EXCEPT ![w] = to]
      BY <1>4 DEF UpdateOwn, ReachParent, LockParent, Step
    <3> QED BY <3>1 DEF TypeOK
  <2>3. locks' \in [Tasks -> Servers \cup Workers \cup {NULL}]
    <3>1. ASSUME NEW u, locks' = [locks EXCEPT ![u] = w]
          PROVE  locks' \in [Tasks -> Servers \cup Workers \cup {NULL}]
      <4>1. locks \in [Tasks -> Servers \cup Workers \cup {NULL}]
        BY DEF TypeOK
      <4> QED BY <3>1, <4>1
    <3>2. CASE UpdateOwn(w)
      BY <3>1, <3>2 DEF UpdateOwn
    <3>3. CASE LockParent(w)
      BY <3>1, <3>3 DEF LockParent
    <3>4. CASE ReachParent(w)
      BY <3>4 DEF ReachParent, TypeOK
    <3> QED BY <1>4, <3>2, <3>3, <3>4
  <2> QED BY <2>1, <2>2, <2>3 DEF TypeOK, RowsOK, CallsOK, Job, ScannerOK, ProcessOK
<1> QED BY <1>1, <1>2, <1>3, <1>4

(* The core invariant is inductive.                                        *)
LEMMA CoreNext == CoreInv /\ LocksOK /\ [Next]_vars => CoreInv'
<1> SUFFICES ASSUME CoreInv, LocksOK, [Next]_vars PROVE CoreInv'
  OBVIOUS
<1>1. CASE UNCHANGED vars
  BY <1>1 DEF CoreInv, TypeOK, RowsOK, CallsOK, ScannerOK, ProcessOK, Job, vars, scannerVars,
              workerVars, poolVars, listenVars, lockVars
<1>2. CASE Next
  BY <1>2, CoreSimple, CoreProcess, CorePool, CoreTable, CoreCalls
     DEF Next, Scanner, Listener, Worker, Unwind, Client, Environment
<1> QED BY <1>1, <1>2

------------------------------------------------------------------------------
(* Row locks.                                                              *)

(* Whether a row accepts a result depends on its error alone.              *)
LEMMA ErrorDecides ==
  ASSUME NEW r \in Row, NEW q \in Row, NEW res \in Result, res.status # "invalid",
         q.error = r.error, Check(FinishedRow(r, res))
  PROVE  Check(FinishedRow(q, res))
<1>1. res.status \in {"pending", "waiting", "completed", "failed"}
  BY DEF Result
<1>2. CASE res.status = "failed"
  BY <1>2, TableAssumption DEF FinishedRow, failTask, Row, Check, CheckLease, CheckError
<1>3. CASE res.status = "completed"
  BY <1>3 DEF FinishedRow, completeTask, updateTaskState, Row, Check, CheckLease, CheckError
<1>4. CASE res.status \in {"pending", "waiting"}
  BY <1>4 DEF FinishedRow, updateTaskState, Row, Check, CheckLease, CheckError
<1> QED BY <1>1, <1>2, <1>3, <1>4

(* A step keeps the locks in order if whoever has locked a row either      *)
(* still has it, with nothing changed that matters to him, or is through   *)
(* with his transaction.                                                   *)
LEMMA LocksFrame ==
  ASSUME CoreInv, LocksOK, tasks' \in [Tasks -> Row],
         \A s \in Servers : scan'[s] = "commit" =>
           ScanLock(s)' \/ (scan[s] = "commit" /\ claimed'[s] = claimed[s]),
         \A w \in Workers : tx'[w] # "none" =>
           \/ TxLock(w)'
           \/ /\ tx[w] # "none" /\ goroutine'[w] = goroutine[w]
              /\ assignment'[w] = assignment[w] /\ result'[w] = result[w],
         \A t \in Tasks : Exists(tasks[t]) /\ locks[t] # NULL =>
           \/ /\ locks'[t] = locks[t] /\ tasks'[t].error = tasks[t].error
              /\ Claimable(tasks[t]) => tasks'[t] = tasks[t]
           \/ locks[t] \in Servers /\ scan'[locks[t]] # "commit"
           \/ locks[t] \in Workers /\ tx'[locks[t]] = "none"
  PROVE  LocksOK'
<1>t. TypeOK /\ CallsOK /\ ScannerOK /\ tasks \in [Tasks -> Row]
  BY DEF CoreInv, TypeOK
<1>0. Servers \cap Workers = {} /\ NULL \notin Servers /\ NULL \notin Workers
  BY DispatchAssumption, TableAssumption
<1>1. ASSUME NEW s \in Servers, scan'[s] = "commit", scan[s] = "commit", claimed'[s] = claimed[s]
      PROVE  ScanLock(s)'
  <2>t. PICK t \in Tasks : t = claimed[s].task
    BY <1>t, <1>1 DEF ScannerOK, TypeOK, Assignment, NoAssignment
  <2>1. locks[t] = s /\ Claimable(tasks[t]) /\ claimed[s].state = tasks[t].state
    BY <1>1, <2>t DEF LocksOK, ScanLock
  <2>2. Exists(tasks[t])
    BY <2>1 DEF Claimable, Exists
  <2>3. locks'[t] = s /\ tasks'[t] = tasks[t]
    BY <1>0, <1>1, <2>1, <2>2
  <2> QED BY <1>1, <2>t, <2>1, <2>3 DEF ScanLock
<1>2. ASSUME NEW w \in Workers, tx'[w] # "none", tx[w] # "none", goroutine'[w] = goroutine[w],
             assignment'[w] = assignment[w], result'[w] = result[w]
      PROVE  TxLock(w)'
  <2>1. goroutine[w] = "returned" /\ locks[Job(w)] = w /\ Applicable(w)
    BY <1>2 DEF LocksOK, TxLock
  <2>2. Job(w) \in Tasks /\ Exists(tasks[Job(w)]) /\ result[w] \in Result
    BY <1>t, <2>1, CallTypes DEF CallsOK
  <2>3. locks'[Job(w)] = w /\ tasks'[Job(w)].error = tasks[Job(w)].error
    BY <1>0, <1>2, <2>1, <2>2
  <2>4. /\ tasks[Job(w)] \in Row /\ tasks'[Job(w)] \in Row /\ result[w].status # "invalid"
        /\ Check(FinishedRow(tasks[Job(w)], result[w]))
    BY <1>t, <2>1, <2>2 DEF Applicable
  <2>5. Check(FinishedRow(tasks'[Job(w)], result[w]))
    BY <2>2, <2>3, <2>4, ErrorDecides
  <2>6. Job(w)' = Job(w)
    BY <1>2 DEF Job
  <2> QED BY <1>2, <2>1, <2>3, <2>4, <2>5, <2>6 DEF TxLock, Applicable
<1>3. \A s \in Servers : ScanLock(s)'
  <2> SUFFICES ASSUME NEW s \in Servers PROVE ScanLock(s)'
    OBVIOUS
  <2>1. CASE scan'[s] = "commit"
    BY <1>1, <2>1
  <2>2. CASE scan'[s] # "commit"
    BY <2>2 DEF ScanLock
  <2> QED BY <2>1, <2>2
<1>4. \A w \in Workers : TxLock(w)'
  <2> SUFFICES ASSUME NEW w \in Workers PROVE TxLock(w)'
    OBVIOUS
  <2>1. CASE tx'[w] # "none"
    BY <1>2, <2>1
  <2>2. CASE tx'[w] = "none"
    BY <2>2 DEF TxLock
  <2> QED BY <2>1, <2>2
<1> QED BY <1>3, <1>4 DEF LocksOK

(* Steps that touch no lock, no transaction and no locked row.             *)
LEMMA LocksQuiet ==
  ASSUME CoreInv, LocksOK, tasks' \in [Tasks -> Row], UNCHANGED <<locks, tx>>,
         \A s \in Servers : scan'[s] = "commit" => scan[s] = "commit" /\ claimed'[s] = claimed[s],
         \A w \in Workers : goroutine[w] = "returned" =>
           /\ goroutine'[w] = goroutine[w] /\ assignment'[w] = assignment[w]
           /\ result'[w] = result[w],
         \A t \in Tasks : Exists(tasks[t]) /\ locks[t] # NULL =>
           /\ tasks'[t].error = tasks[t].error
           /\ Claimable(tasks[t]) => tasks'[t] = tasks[t]
  PROVE  LocksOK'
<1>1. \A w \in Workers : tx[w] # "none" => goroutine[w] = "returned"
  BY DEF LocksOK, TxLock
<1> QED BY <1>1, LocksFrame

(* The goroutines outside a transaction, and the start of a process.       *)
LEMMA LocksOutside ==
  ASSUME CoreInv, LocksOK,
         \/ UNCHANGED vars
         \/ \E s \in Servers :
              \/ TakeWorker(s) \/ BeginFails(s) \/ NothingToClaim(s) \/ AwaitEvents(s)
              \/ BackoffEnds(s) \/ Dispatch(s) \/ DispatchInVain(s) \/ DispatchAborted(s)
              \/ ScannerStops(s) \/ Listener(s) \/ ListenerFails(s) \/ SendAborted(s)
              \/ StartHandlers(s) \/ Shutdown(s)
         \/ \E w \in Workers : \/ Offer(w) \/ Return(w) \/ ReturnAborted(w) \/ WorkerStops(w)
                               \/ \E r \in Returns : Handle(w, r)
  PROVE  LocksOK'
<1> USE DEF scannerVars, workerVars, poolVars, listenVars, lockVars
<1>t. TypeOK /\ tasks \in [Tasks -> Row]
  BY DEF CoreInv, TypeOK
<1>q. ASSUME UNCHANGED <<tasks, locks, tx>>,
             \A s \in Servers : scan'[s] = "commit" => scan[s] = "commit" /\ claimed'[s] = claimed[s],
             \A w \in Workers : goroutine[w] = "returned" =>
               /\ goroutine'[w] = goroutine[w] /\ assignment'[w] = assignment[w]
               /\ result'[w] = result[w]
      PROVE  LocksOK'
  BY <1>t, <1>q, LocksQuiet
<1>1. CASE UNCHANGED vars
  BY <1>1, <1>q DEF vars
<1>2. ASSUME NEW s \in Servers,
             \/ TakeWorker(s) \/ BeginFails(s) \/ NothingToClaim(s) \/ AwaitEvents(s)
             \/ BackoffEnds(s) \/ ScannerStops(s) \/ DispatchAborted(s)
      PROVE  LocksOK'
  <2>1. /\ scan'[s] # "commit" /\ UNCHANGED <<tasks, locks, tx, goroutine, assignment, result>>
        /\ \A v \in Servers : v # s => scan'[v] = scan[v] /\ claimed'[v] = claimed[v]
    BY <1>t, <1>2 DEF TakeWorker, BeginFails, NothingToClaim, AwaitEvents, BackoffEnds,
                      ScannerStops, DispatchAborted, ReturnHeld, TypeOK
  <2> QED BY <1>q, <2>1
<1>3. ASSUME NEW s \in Servers, Listener(s) \/ ListenerFails(s) \/ SendAborted(s) \/ Shutdown(s)
      PROVE  LocksOK'
  <2>1. /\ \A v \in Servers : scan'[v] = scan[v] \/ scan'[v] = "need"
        /\ UNCHANGED <<tasks, locks, tx, goroutine, assignment, result, claimed>>
    BY <1>t, <1>3 DEF Listener, Listen, WaitForNotification, SendEvent, ListenerFails,
                      SendAborted, Shutdown, TypeOK
  <2> QED BY <1>q, <2>1
<1>4. ASSUME NEW s \in Servers, StartHandlers(s) PROVE LocksOK'
  <2>1. /\ \A v \in Servers : scan'[v] = scan[v] \/ scan'[v] = "need"
        /\ UNCHANGED <<tasks, locks, tx, assignment, result, claimed>>
        /\ \A w \in Workers : Home[w] # s => goroutine'[w] = goroutine[w]
    BY <1>t, <1>4 DEF StartHandlers, TypeOK, Crew
  <2>2. \A w \in Workers : Home[w] = s => goroutine[w] = "off"
    BY <1>4 DEF StartHandlers, CoreInv, ProcessOK
  <2> QED BY <1>q, <2>1, <2>2
<1>5. ASSUME NEW s \in Servers, Dispatch(s) \/ DispatchInVain(s) PROVE LocksOK'
  <2>1. /\ scan'[s] = "need" /\ UNCHANGED <<tasks, locks, tx, result>>
        /\ \A v \in Servers : v # s => scan'[v] = scan[v] /\ claimed'[v] = claimed[v]
        /\ goroutine[held[s]] = "waiting"
        /\ \A w \in Workers : w # held[s] => /\ goroutine'[w] = goroutine[w]
                                             /\ assignment'[w] = assignment[w]
    BY <1>t, <1>5 DEF Dispatch, DispatchInVain, TypeOK
  <2> QED BY <1>q, <2>1
<1>6. ASSUME NEW w \in Workers,
             \/ Offer(w) \/ Return(w) \/ ReturnAborted(w) \/ WorkerStops(w)
             \/ \E r \in Returns : Handle(w, r)
      PROVE  LocksOK'
  <2>1. UNCHANGED <<tasks, locks, tx, scan, claimed, assignment>>
    BY <1>6 DEF Offer, Return, ReturnAborted, WorkerStops, Handle
  <2>2. ASSUME NEW v \in Workers, goroutine[v] = "returned"
        PROVE  goroutine'[v] = goroutine[v] /\ result'[v] = result[v]
    BY <1>t, <1>6, <2>2 DEF Offer, Return, ReturnAborted, WorkerStops, Handle, TypeOK
  <2> QED BY <1>q, <2>1, <2>2
<1> QED BY <1>1, <1>2, <1>3, <1>4, <1>5, <1>6

(* The transaction of a claim.                                             *)
LEMMA LocksScan ==
  ASSUME CoreInv, LocksOK, NEW s \in Servers, tasks' \in [Tasks -> Row],
         \/ \E t \in Tasks : Claim(s, t)
         \/ scanAndAssign(s) \/ ClaimLost(s) \/ ClaimFails(s)
  PROVE  LocksOK'
<1> USE DEF scannerVars, workerVars, poolVars, listenVars, lockVars
<1>t. TypeOK /\ ScannerOK /\ tasks \in [Tasks -> Row] /\ locks \in [Tasks -> Servers \cup Workers \cup {NULL}]
  BY DEF CoreInv, TypeOK
<1>1. ASSUME NEW t \in Tasks, Claim(s, t) PROVE LocksOK'
  <2>1. /\ locks[t] = NULL /\ Claimable(tasks[t]) /\ locks'[t] = s
        /\ claimed'[s].task = t /\ claimed'[s].state = tasks[t].state
        /\ \A v \in Servers : v # s => scan'[v] = scan[v] /\ claimed'[v] = claimed[v]
        /\ \A u \in Tasks : u # t => locks'[u] = locks[u]
        /\ UNCHANGED <<tasks, goroutine, assignment, result, tx>>
    BY <1>t, <1>1 DEF Claim, Reachable, Locked, TypeOK
  <2>2. ScanLock(s)'
    BY <2>1 DEF ScanLock
  <2> QED BY <2>1, <2>2, LocksFrame
<1>2. CASE scanAndAssign(s) \/ ClaimLost(s) \/ ClaimFails(s)
  <2>1. /\ scan'[s] # "commit"
        /\ \A v \in Servers : v # s => scan'[v] = scan[v] /\ claimed'[v] = claimed[v]
        /\ \A u \in Tasks : locks'[u] = IF locks[u] = s THEN NULL ELSE locks[u]
        /\ UNCHANGED <<goroutine, assignment, result, tx>>
    BY <1>t, <1>2 DEF scanAndAssign, ClaimLost, ClaimFails, CommitClaim, ReturnHeld, Unlock, TypeOK
  <2>2. ASSUME NEW u \in Tasks, locks[u] # s PROVE tasks'[u] = tasks[u]
    <3>1. CASE ClaimFails(s)
      BY <3>1 DEF ClaimFails
    <3>2. CASE scanAndAssign(s) \/ ClaimLost(s)
      <4>1. /\ scan[s] = "commit"
            /\ tasks' = [tasks EXCEPT ![claimed[s].task] = ClaimedRow(tasks[claimed[s].task], held[s])]
        BY <3>2 DEF scanAndAssign, ClaimLost, CommitClaim
      <4>2. u # claimed[s].task
        BY <2>2, <4>1 DEF LocksOK, ScanLock
      <4> QED BY <1>t, <4>1, <4>2
    <3> QED BY <1>2, <3>1, <3>2
  <2> QED BY <2>1, <2>2, LocksFrame
<1> QED BY <1>1, <1>2

(* The transaction of processTask.                                         *)
LEMMA LocksCalls ==
  ASSUME CoreInv, LocksOK, NEW w \in Workers, tasks' \in [Tasks -> Row],
         UpdateOwn(w) \/ ReachParent(w) \/ LockParent(w) \/ Commit(w) \/ Abandon(w)
  PROVE  LocksOK'
<1> USE DEF scannerVars, workerVars, poolVars, listenVars
<1>t. TypeOK /\ tasks \in [Tasks -> Row] /\ locks \in [Tasks -> Servers \cup Workers \cup {NULL}]
      /\ tx \in [Workers -> {"none", "updated", "queued", "joined"}]
  BY DEF CoreInv, TypeOK
<1>1. CASE UpdateOwn(w)
  <2>1. /\ goroutine[w] = "returned" /\ locks[Job(w)] = NULL /\ Applicable(w)
        /\ locks' = [locks EXCEPT ![Job(w)] = w] /\ tx' = [tx EXCEPT ![w] = "updated"]
        /\ UNCHANGED <<tasks, scan, claimed, goroutine, assignment, result>>
    BY <1>1 DEF UpdateOwn, Step, Locked
  <2>2. Job(w) \in Tasks
    BY <2>1, CallTypes DEF CoreInv, CallsOK
  <2>3. Job(w)' = Job(w) /\ Applicable(w)'
    BY <2>1 DEF Job, Applicable
  <2>4. TxLock(w)'
    BY <1>t, <2>1, <2>2, <2>3 DEF TxLock
  <2> QED BY <1>t, <2>1, <2>2, <2>4, LocksFrame
<1>2. CASE ReachParent(w)
  <2>1. /\ tx[w] = "updated" /\ \A v \in Workers : v # w => tx'[v] = tx[v]
        /\ UNCHANGED <<tasks, locks, scan, claimed, goroutine, assignment, result>>
    BY <1>t, <1>2 DEF ReachParent, Step
  <2> QED BY <1>t, <2>1, LocksFrame
<1>3. CASE LockParent(w)
  <2>1. /\ tx[w] = "queued" /\ \A v \in Workers : v # w => tx'[v] = tx[v]
        /\ \A u \in Tasks : locks[u] # NULL => locks'[u] = locks[u]
        /\ UNCHANGED <<tasks, scan, claimed, goroutine, assignment, result>>
    BY <1>t, <1>3 DEF LockParent, Step, Locked
  <2> QED BY <1>t, <2>1, LocksFrame
<1>4. CASE Commit(w) \/ Abandon(w)
  <2>1. /\ tx'[w] = "none"
        /\ \A v \in Workers : v # w => /\ tx'[v] = tx[v] /\ goroutine'[v] = goroutine[v]
                                       /\ assignment'[v] = assignment[v] /\ result'[v] = result[v]
        /\ \A u \in Tasks : locks'[u] = IF locks[u] = w THEN NULL ELSE locks[u]
        /\ UNCHANGED <<scan, claimed>>
    BY <1>t, <1>4 DEF Commit, Abandon, Finish, Unlock, TypeOK
  <2>2. ASSUME NEW u \in Tasks, Exists(tasks[u]), locks[u] # w
        PROVE  \/ tasks'[u] = tasks[u]
               \/ tasks[u].status = "waiting" /\ tasks'[u] = ResumedRow(tasks[u])
    <3>1. CASE Abandon(w)
      BY <3>1 DEF Abandon
    <3>2. CASE Commit(w)
      <4>1. u # Job(w)
        BY <2>2, <3>2 DEF Commit, LocksOK, TxLock
      <4>2. u \notin result[w].kids
        BY <2>2 DEF CoreInv, CallsOK
      <4> QED BY <3>2, <4>1, <4>2, CommitTable
    <3> QED BY <1>4, <3>1, <3>2
  <2>3. ASSUME NEW u \in Tasks, Exists(tasks[u]), locks[u] # w
        PROVE  /\ tasks'[u].error = tasks[u].error
               /\ Claimable(tasks[u]) => tasks'[u] = tasks[u]
    <3>1. CASE tasks'[u] = tasks[u]
      BY <3>1
    <3>2. CASE tasks[u].status = "waiting" /\ tasks'[u] = ResumedRow(tasks[u])
      BY <1>t, <3>2 DEF ResumedRow, Row, Claimable
    <3> QED BY <2>2, <2>3, <3>1, <3>2
  <2> QED BY <2>1, <2>3, LocksFrame
<1> QED BY <1>1, <1>2, <1>3, <1>4

(* Statements on unlocked rows, the lease, and the end of a process.       *)
LEMMA LocksOthers ==
  ASSUME CoreInv, LocksOK, tasks' \in [Tasks -> Row],
         \/ Client
         \/ \E w \in Workers : renewLease(w)
         \/ \E t \in Tasks : LeaseExpires(t)
         \/ \E s \in Servers : Die(s)
  PROVE  LocksOK'
<1> USE DEF scannerVars, workerVars, poolVars, listenVars, lockVars
<1>t. TypeOK /\ RowsOK /\ tasks \in [Tasks -> Row] /\ locks \in [Tasks -> Servers \cup Workers \cup {NULL}]
  BY DEF CoreInv, TypeOK
<1>q. ASSUME NEW t \in Tasks, ~Exists(tasks[t]) \/ locks[t] = NULL,
             \A u \in Tasks : u # t => tasks'[u] = tasks[u],
             UNCHANGED <<locks, tx, scan, claimed, goroutine, assignment, result>>
      PROVE  LocksOK'
  BY <1>q, LocksQuiet
<1>1. ASSUME NEW s \in Servers, NEW t \in Tasks, NEW st \in States, Create(s, t, st)
      PROVE  LocksOK'
  BY <1>t, <1>q, <1>1 DEF Create, Free
<1>2. ASSUME NEW s \in Servers, NEW t \in Tasks, Resume(s, t) PROVE LocksOK'
  BY <1>t, <1>q, <1>2 DEF Resume, Locked
<1>3. ASSUME NEW w \in Workers, renewLease(w) PROVE LocksOK'
  <2>1. Job(w) \in Tasks
    BY <1>3, CallTypes DEF renewLease, CoreInv, CallsOK
  <2> QED BY <1>t, <1>q, <1>3, <2>1 DEF renewLease, Locked
<1>4. ASSUME NEW t \in Tasks, LeaseExpires(t) PROVE LocksOK'
  <2>1. /\ tasks[t].lease = "live" /\ tasks'[t].error = tasks[t].error
        /\ \A u \in Tasks : u # t => tasks'[u] = tasks[u]
        /\ UNCHANGED <<locks, tx, scan, claimed, goroutine, assignment, result>>
    BY <1>t, <1>4 DEF LeaseExpires, Row
  <2>2. ~Claimable(tasks[t])
    BY <1>t, <2>1, TableAssumption DEF RowsOK, Claimable, Check, CheckLease, Exists
  <2> QED BY <2>1, <2>2, LocksQuiet
<1>5. ASSUME NEW s \in Servers, Die(s) PROVE LocksOK'
  <2>1. /\ scan'[s] = "stopped" /\ tasks' = tasks
        /\ \A v \in Servers : v # s => scan'[v] = scan[v] /\ claimed'[v] = claimed[v]
        /\ \A w \in Workers : w \in Crew(s) => tx'[w] = "none"
        /\ \A w \in Workers : w \notin Crew(s) =>
             /\ tx'[w] = tx[w] /\ goroutine'[w] = goroutine[w]
             /\ assignment'[w] = assignment[w] /\ result'[w] = result[w]
        /\ \A u \in Tasks : locks'[u] = IF locks[u] \in Crew(s) \cup {s} THEN NULL ELSE locks[u]
    BY <1>t, <1>5 DEF Die, Unlock, TypeOK
  <2>2. Crew(s) \subseteq Workers
    BY DEF Crew
  <2> QED BY <2>1, <2>2, LocksFrame
<1> QED BY <1>1, <1>2, <1>3, <1>4, <1>5 DEF Client

(* The core of the invariant, and with it the row locks, hold in every     *)
(* state.                                                                  *)
LEMMA CoreAlways == Spec => [](CoreInv /\ LocksOK)
<1>1. Init => CoreInv /\ LocksOK
  <2> SUFFICES ASSUME Init PROVE CoreInv /\ LocksOK
    OBVIOUS
  <2>1. TypeOK
    BY DispatchAssumption DEF Init, TypeOK, EmptyTable, AbsentRow, Row
  <2>2. RowsOK /\ CallsOK
    BY DEF Init, RowsOK, CallsOK, Job, EmptyTable, AbsentRow, Exists, NoResult, NoAssignment
  <2>3. ScannerOK /\ ProcessOK
    BY DispatchAssumption DEF Init, ScannerOK, ProcessOK, NoAssignment
  <2>4. LocksOK
    BY DEF Init, LocksOK, ScanLock, TxLock
  <2> QED BY <2>1, <2>2, <2>3, <2>4 DEF CoreInv
<1>2. CoreInv /\ LocksOK /\ [Next]_vars => CoreInv' /\ LocksOK'
  <2> SUFFICES ASSUME CoreInv, LocksOK, [Next]_vars PROVE CoreInv' /\ LocksOK'
    OBVIOUS
  <2>1. CoreInv'
    BY CoreNext
  <2>2. tasks' \in [Tasks -> Row]
    BY <2>1 DEF CoreInv, TypeOK
  <2>3. LocksOK'
    BY <2>2, LocksOutside, LocksScan, LocksCalls, LocksOthers
       DEF Next, Scanner, Worker, Unwind, Environment
  <2> QED BY <2>1, <2>3
<1> QED BY <1>1, <1>2, PTL DEF Spec

(* Types of the goroutines' counters, channels and notifications           *)
(* (notify.go, worker.go).                                                 *)
THEOREM DispatchTypeCorrect == Spec => []TypeOK
<1>1. CoreInv => TypeOK
  BY DEF CoreInv
<1> QED BY <1>1, CoreAlways, PTL

------------------------------------------------------------------------------
(* The pool of workers.                                                    *)

Queued(w) == \E i \in DOMAIN available[Home[w]] : available[Home[w]][i] = w
InHand(w) == held[Home[w]] = w
Offered(w) == Queued(w) \/ InHand(w) \/ w \in returning

(* A worker is at one place of the pool at most, and only when it waits    *)
(* for an assignment or has left; while the context lives, a worker that   *)
(* waits is at one of them.                                                *)
PoolOK ==
  /\ \A s \in Servers : \A i, j \in DOMAIN available[s] :
       available[s][i] = available[s][j] => i = j
  /\ \A w \in Workers :
       /\ ~(Queued(w) /\ InHand(w))
       /\ ~(Queued(w) /\ w \in returning)
       /\ ~(InHand(w) /\ w \in returning)
       /\ Offered(w) => goroutine[w] \in {"waiting", "stopped"}
       /\ goroutine[w] = "waiting" /\ ctx[Home[w]] = "up" => Offered(w)

(* The numbers that OneToken speaks of, from the places.                   *)
LEMMA PoolCounts ==
  ASSUME TypeOK, PoolOK, NEW w \in Workers
  PROVE  Tokens(w) = IF Offered(w) THEN 1 ELSE 0
<1> DEFINE s == Home[w]
           P == {i \in DOMAIN available[s] : available[s][i] = w}
<1>0. s \in Servers
  BY DispatchAssumption
<1>1. CASE Queued(w)
  <2>1. PICK i \in DOMAIN available[s] : available[s][i] = w
    BY <1>1 DEF Queued
  <2>2. P = {i}
    BY <1>0, <2>1 DEF PoolOK
  <2>3. Cardinality(P) = 1
    BY <2>2, FS_Singleton
  <2> QED BY <1>1, <2>3 DEF Tokens, PoolOK, Offered, InHand
<1>2. CASE ~Queued(w)
  <2>1. P = {}
    BY <1>2 DEF Queued
  <2>2. Cardinality(P) = 0
    BY <2>1, FS_EmptySet
  <2> QED BY <1>2, <2>2 DEF Tokens, PoolOK, Offered, InHand
<1> QED BY <1>1, <1>2

(* A step that leaves the pool alone, and moves only workers that are      *)
(* nowhere in it, to another place where they are not offered.             *)
LEMMA PoolFrame ==
  ASSUME PoolOK, UNCHANGED <<available, held, returning>>,
         \A w \in Workers : \/ goroutine'[w] = goroutine[w]
                            \/ ~Offered(w) /\ goroutine'[w] # "waiting"
                            \/ goroutine'[w] = "stopped" /\ goroutine[w] \in {"waiting", "offering"},
         \A w \in Workers : /\ ctx'[Home[w]] = "up" /\ goroutine'[w] = "waiting"
                              => ctx[Home[w]] = "up"
  PROVE  PoolOK'
BY DEF PoolOK, Offered, Queued, InHand

(* The scanner takes a worker out of the channel.                          *)
LEMMA PoolTake ==
  ASSUME CoreInv, PoolOK, NEW s \in Servers, TakeWorker(s)
  PROVE  PoolOK'
<1> DEFINE q == available[s]
           h == Head(q)
<1>t. TypeOK /\ ScannerOK
  BY DEF CoreInv
<1>1. /\ q \in Seq(Workers) /\ q # <<>> /\ h \in Workers /\ 1 \in DOMAIN q /\ q[1] = h
      /\ \A i \in DOMAIN Tail(q) : i \in Nat /\ i >= 1 /\ i + 1 \in DOMAIN q /\ Tail(q)[i] = q[i + 1]
      /\ \A i \in DOMAIN q : i = 1 \/ (i - 1 \in DOMAIN Tail(q) /\ Tail(q)[i - 1] = q[i])
  BY <1>t DEF TakeWorker, TypeOK
<1>2. /\ Home[h] = s /\ held[s] = NULL
      /\ held' = [held EXCEPT ![s] = h] /\ available' = [available EXCEPT ![s] = Tail(q)]
      /\ UNCHANGED <<ctx, returning, goroutine>>
  <2>1. scan[s] = "need" /\ held' = [held EXCEPT ![s] = h]
        /\ available' = [available EXCEPT ![s] = Tail(q)] /\ UNCHANGED <<ctx, returning, goroutine>>
    BY DEF TakeWorker, workerVars
  <2>2. held[s] = NULL
    BY <1>t, <2>1 DEF ScannerOK
  <2>3. Home[h] = s
    BY <1>t, <1>1 DEF ScannerOK
  <2> QED BY <2>1, <2>2, <2>3
<1>3. /\ available'[s] = Tail(q) /\ held'[s] = h
      /\ \A v \in Servers : v # s => available'[v] = available[v] /\ held'[v] = held[v]
  BY <1>t, <1>2 DEF TypeOK
<1> HIDE DEF q, h
<1>4. ASSUME NEW v \in Servers, NEW i \in DOMAIN available'[v], NEW j \in DOMAIN available'[v],
             available'[v][i] = available'[v][j]
      PROVE  i = j
  <2>1. CASE v = s
    <3>1. i + 1 \in DOMAIN q /\ j + 1 \in DOMAIN q /\ q[i + 1] = q[j + 1] /\ i \in Nat /\ j \in Nat
      BY <1>1, <1>3, <1>4, <2>1
    <3>2. i + 1 = j + 1
      BY <3>1 DEF PoolOK, q
    <3> QED BY <3>1, <3>2
  <2>2. CASE v # s
    BY <1>3, <1>4, <2>2 DEF PoolOK
  <2> QED BY <2>1, <2>2
<1>5. ASSUME NEW w \in Workers, Home[w] = s
      PROVE  /\ Queued(w)' <=> Queued(w) /\ w # h
             /\ InHand(w)' <=> w = h
             /\ ~InHand(w)
  <2>1. ASSUME Queued(w)' PROVE Queued(w) /\ w # h
    <3>1. PICK i \in DOMAIN Tail(q) : Tail(q)[i] = w
      BY <1>3, <1>5, <2>1 DEF Queued
    <3>2. i + 1 \in DOMAIN q /\ q[i + 1] = w /\ i + 1 # 1
      BY <1>1, <3>1
    <3>3. w # h
      BY <1>1, <3>2 DEF PoolOK, q
    <3> QED BY <1>5, <3>2, <3>3 DEF Queued, q
  <2>2. ASSUME Queued(w), w # h PROVE Queued(w)'
    <3>1. PICK i \in DOMAIN q : q[i] = w
      BY <1>5, <2>2 DEF Queued, q
    <3>2. i - 1 \in DOMAIN Tail(q) /\ Tail(q)[i - 1] = w
      BY <1>1, <2>2, <3>1
    <3> QED BY <1>3, <1>5, <3>2 DEF Queued
  <2>3. w # NULL
    BY TableAssumption
  <2> QED BY <1>2, <1>3, <1>5, <2>1, <2>2, <2>3 DEF InHand
<1>6. Queued(h)
  BY <1>1, <1>2 DEF Queued, q
<1>7. ASSUME NEW w \in Workers, Home[w] # s
      PROVE  /\ Queued(w)' <=> Queued(w)
             /\ InHand(w)' <=> InHand(w)
  BY <1>3, <1>7, DispatchAssumption DEF Queued, InHand
<1> QED BY <1>1, <1>2, <1>4, <1>5, <1>6, <1>7 DEF PoolOK, Offered

(* The scanner takes a worker out of the channel and hands it back at once.*)
LEMMA PoolTakeBack ==
  ASSUME CoreInv, PoolOK, NEW s \in Servers, BeginFails(s)
  PROVE  PoolOK'
<1> DEFINE q == available[s]
           h == Head(q)
<1>t. TypeOK /\ ScannerOK
  BY DEF CoreInv
<1>1. /\ q \in Seq(Workers) /\ q # <<>> /\ h \in Workers /\ 1 \in DOMAIN q /\ q[1] = h
      /\ \A i \in DOMAIN Tail(q) : i \in Nat /\ i >= 1 /\ i + 1 \in DOMAIN q /\ Tail(q)[i] = q[i + 1]
      /\ \A i \in DOMAIN q : i = 1 \/ (i - 1 \in DOMAIN Tail(q) /\ Tail(q)[i - 1] = q[i])
  <2>1. q \in Seq(Workers) /\ q # <<>>
    BY <1>t DEF BeginFails, TypeOK
  <2> HIDE DEF q
  <2> QED BY <2>1
<1>2. /\ Home[h] = s /\ available' = [available EXCEPT ![s] = Tail(q)]
      /\ returning' = returning \cup {h} /\ UNCHANGED <<ctx, held, goroutine>>
  <2>1. Home[h] = s
    BY <1>t, <1>1 DEF ScannerOK
  <2> QED BY <2>1 DEF BeginFails, workerVars
<1>3. /\ available'[s] = Tail(q)
      /\ \A v \in Servers : v # s => available'[v] = available[v]
  BY <1>t, <1>2 DEF TypeOK
<1> HIDE DEF q, h
<1>4. ASSUME NEW v \in Servers, NEW i \in DOMAIN available'[v], NEW j \in DOMAIN available'[v],
             available'[v][i] = available'[v][j]
      PROVE  i = j
  <2>1. CASE v = s
    <3>1. i + 1 \in DOMAIN q /\ j + 1 \in DOMAIN q /\ q[i + 1] = q[j + 1] /\ i \in Nat /\ j \in Nat
      BY <1>1, <1>3, <1>4, <2>1
    <3>2. i + 1 = j + 1
      BY <3>1 DEF PoolOK, q
    <3> QED BY <3>1, <3>2
  <2>2. CASE v # s
    BY <1>3, <1>4, <2>2 DEF PoolOK
  <2> QED BY <2>1, <2>2
<1>5. ASSUME NEW w \in Workers, Home[w] = s
      PROVE  Queued(w)' <=> Queued(w) /\ w # h
  <2>1. ASSUME Queued(w)' PROVE Queued(w) /\ w # h
    <3>1. PICK i \in DOMAIN Tail(q) : Tail(q)[i] = w
      BY <1>3, <1>5, <2>1 DEF Queued
    <3>2. i + 1 \in DOMAIN q /\ q[i + 1] = w /\ i + 1 # 1
      BY <1>1, <3>1
    <3>3. w # h
      BY <1>1, <3>2 DEF PoolOK, q
    <3> QED BY <1>5, <3>2, <3>3 DEF Queued, q
  <2>2. ASSUME Queued(w), w # h PROVE Queued(w)'
    <3>1. PICK i \in DOMAIN q : q[i] = w
      BY <1>5, <2>2 DEF Queued, q
    <3>2. i - 1 \in DOMAIN Tail(q) /\ Tail(q)[i - 1] = w
      BY <1>1, <2>2, <3>1
    <3> QED BY <1>3, <1>5, <3>2 DEF Queued
  <2> QED BY <2>1, <2>2
<1>6. Queued(h)
  BY <1>1, <1>2 DEF Queued, q
<1>7. ASSUME NEW w \in Workers, Home[w] # s PROVE Queued(w)' <=> Queued(w)
  BY <1>3, <1>7, DispatchAssumption DEF Queued
<1>8. ASSUME NEW w \in Workers PROVE InHand(w)' <=> InHand(w)
  BY <1>2 DEF InHand
<1> QED BY <1>1, <1>2, <1>4, <1>5, <1>6, <1>7, <1>8 DEF PoolOK, Offered

(* Every worker id, NULL not being one, that the scanner hands back goes   *)
(* to a helper goroutine.                                                  *)
LEMMA PoolReturn ==
  ASSUME CoreInv, PoolOK, NEW s \in Servers, scan[s] \in {"claim", "commit", "empty", "dispatch"},
         ReturnHeld(s), UNCHANGED <<ctx, goroutine>>
  PROVE  PoolOK'
<1>t. TypeOK /\ ScannerOK
  BY DEF CoreInv
<1>1. held[s] \in Workers /\ Home[held[s]] = s
  BY <1>t DEF ScannerOK, TypeOK
<1>2. /\ available' = available /\ returning' = returning \cup {held[s]}
      /\ held'[s] = NULL /\ \A v \in Servers : v # s => held'[v] = held[v]
  BY <1>t DEF ReturnHeld, TypeOK
<1>3. \A w \in Workers : w # NULL /\ Home[w] \in Servers
  BY TableAssumption, DispatchAssumption
<1>4. \A w \in Workers : /\ Queued(w)' <=> Queued(w)
                         /\ InHand(w)' <=> InHand(w) /\ w # held[s]
                         /\ w = held[s] => InHand(w)
  BY <1>1, <1>2, <1>3 DEF Queued, InHand
<1> QED BY <1>1, <1>2, <1>4 DEF PoolOK, Offered

(* A worker, or the helper goroutine that has it, puts it into the         *)
(* channel.                                                                *)
LEMMA PoolPut ==
  ASSUME CoreInv, PoolOK, NEW w \in Workers, Offer(w) \/ Return(w)
  PROVE  PoolOK'
<1> DEFINE s == Home[w]
           q == available[s]
<1>t. TypeOK /\ ScannerOK
  BY DEF CoreInv
<1>1. /\ s \in Servers /\ q \in Seq(Workers)
      /\ \A i \in DOMAIN q : i \in DOMAIN Append(q, w) /\ Append(q, w)[i] = q[i]
      /\ Len(q) + 1 \in DOMAIN Append(q, w) /\ Append(q, w)[Len(q) + 1] = w
      /\ \A i \in DOMAIN Append(q, w) : i \in DOMAIN q \/ i = Len(q) + 1
  BY <1>t, DispatchAssumption DEF TypeOK
<1>2. available' = [available EXCEPT ![s] = Append(q, w)] /\ UNCHANGED <<ctx, held>>
  BY DEF Offer, Return, Put, scannerVars
<1>3. available'[s] = Append(q, w) /\ \A v \in Servers : v # s => available'[v] = available[v]
  BY <1>t, <1>1, <1>2 DEF TypeOK
<1>4. ~Queued(w) /\ ~InHand(w)
  BY DEF Offer, Return, PoolOK, Offered
<1>5. /\ \A v \in Workers : v # w => goroutine'[v] = goroutine[v] /\ (v \in returning' <=> v \in returning)
      /\ w \notin returning'
      /\ goroutine'[w] \in {"waiting", "stopped"}
  <2>1. CASE Offer(w)
    BY <1>t, <2>1 DEF Offer, PoolOK, Offered, TypeOK
  <2>2. CASE Return(w)
    BY <1>t, <2>2 DEF Return, PoolOK, Offered, TypeOK, workerVars
  <2> QED BY <2>1, <2>2
<1>6. ~\E i \in DOMAIN q : q[i] = w
  BY <1>4 DEF Queued
<1> HIDE DEF q
<1>7. ASSUME NEW v \in Servers, NEW i \in DOMAIN available'[v], NEW j \in DOMAIN available'[v],
             available'[v][i] = available'[v][j]
      PROVE  i = j
  <2>1. CASE v = s
    <3>1. \A k \in DOMAIN q, l \in DOMAIN q : q[k] = q[l] => k = l
      BY <1>1 DEF PoolOK, q
    <3> QED BY <1>1, <1>3, <1>6, <1>7, <2>1, <3>1
  <2>2. CASE v # s
    BY <1>3, <1>7, <2>2 DEF PoolOK
  <2> QED BY <2>1, <2>2
<1>8. ASSUME NEW v \in Workers, v # w
      PROVE  (Queued(v)' <=> Queued(v)) /\ (InHand(v)' <=> InHand(v))
  <2>1. CASE Home[v] = s
    <3>1. Queued(v) <=> \E i \in DOMAIN q : q[i] = v
      BY <2>1 DEF Queued, q
    <3>2. Queued(v)' <=> \E i \in DOMAIN Append(q, w) : Append(q, w)[i] = v
      BY <1>3, <2>1 DEF Queued
    <3> QED BY <1>1, <1>2, <1>8, <3>1, <3>2 DEF InHand
  <2>2. CASE Home[v] # s
    BY <1>2, <1>3, <2>2, DispatchAssumption DEF Queued, InHand
  <2> QED BY <2>1, <2>2
<1>9. Queued(w)' /\ ~InHand(w)'
  BY <1>1, <1>2, <1>3, <1>4 DEF Queued, InHand
<1> QED BY <1>2, <1>5, <1>7, <1>8, <1>9 DEF PoolOK, Offered

(* The start and the end of a process.                                     *)
LEMMA PoolProcess ==
  ASSUME CoreInv, PoolOK, NEW s \in Servers, StartHandlers(s) \/ Die(s)
  PROVE  PoolOK'
<1>t. TypeOK /\ ScannerOK /\ ProcessOK
  BY DEF CoreInv
<1>1. CASE StartHandlers(s)
  <2>1. /\ UNCHANGED <<available, held, returning>> /\ ctx[s] = "off"
        /\ ctx'[s] = "up" /\ \A v \in Servers : v # s => ctx'[v] = ctx[v]
        /\ \A w \in Workers : goroutine'[w] = IF Home[w] = s THEN "offering" ELSE goroutine[w]
    BY <1>t, <1>1 DEF StartHandlers, TypeOK, poolVars, Crew
  <2>2. \A w \in Workers : Home[w] \in Servers
    BY DispatchAssumption
  <2>3. \A w \in Workers : Home[w] = s => ~Offered(w)
    BY <1>t, <2>1 DEF ProcessOK, PoolOK
  <2> QED BY <2>1, <2>2, <2>3, PoolFrame
<1>2. CASE Die(s)
  <2>1. /\ available'[s] = <<>> /\ held'[s] = NULL
        /\ \A v \in Servers : v # s => /\ available'[v] = available[v] /\ held'[v] = held[v]
                                       /\ ctx'[v] = ctx[v]
    BY <1>t, <1>2 DEF Die, TypeOK
  <2>2. /\ returning' = returning \ {w \in Workers : Home[w] = s}
        /\ \A w \in Workers : goroutine'[w] = IF Home[w] = s THEN "stopped" ELSE goroutine[w]
    BY <1>2 DEF Die, Crew
  <2>3. \A w \in Workers : w # NULL /\ Home[w] \in Servers
    BY TableAssumption, DispatchAssumption
  <2>4. ASSUME NEW w \in Workers, Home[w] # s
        PROVE  /\ Queued(w)' <=> Queued(w)
               /\ InHand(w)' <=> InHand(w)
    BY <2>1, <2>3, <2>4 DEF Queued, InHand
  <2>5. ASSUME NEW w \in Workers, Home[w] = s
        PROVE  ~Queued(w)' /\ ~InHand(w)'
    BY <2>1, <2>3, <2>5 DEF Queued, InHand
  <2>6. ASSUME NEW v \in Servers, NEW i \in DOMAIN available'[v], NEW j \in DOMAIN available'[v],
               available'[v][i] = available'[v][j]
        PROVE  i = j
    BY <2>1, <2>6 DEF PoolOK
  <2> QED BY <2>1, <2>2, <2>3, <2>4, <2>5, <2>6 DEF PoolOK, Offered
<1> QED BY <1>1, <1>2

(* The dispatch, and the end of a worker or of a helper goroutine.         *)
LEMMA PoolLeave ==
  ASSUME CoreInv, PoolOK,
         \/ \E s \in Servers : Dispatch(s) \/ DispatchInVain(s)
         \/ \E w \in Workers : ReturnAborted(w) \/ WorkerStops(w)
  PROVE  PoolOK'
<1>t. TypeOK /\ ScannerOK
  BY DEF CoreInv
<1>1. ASSUME NEW s \in Servers, Dispatch(s) \/ DispatchInVain(s) PROVE PoolOK'
  <2>1. held[s] \in Workers /\ Home[held[s]] = s
    BY <1>t, <1>1 DEF Dispatch, DispatchInVain, ScannerOK, TypeOK
  <2>2. /\ UNCHANGED <<available, returning, ctx>>
        /\ held'[s] = NULL /\ \A v \in Servers : v # s => held'[v] = held[v]
        /\ goroutine'[held[s]] \in {"handling", "offering"}
        /\ \A v \in Workers : v # held[s] => goroutine'[v] = goroutine[v]
    BY <1>t, <1>1, <2>1 DEF Dispatch, DispatchInVain, TypeOK, poolVars
  <2>3. \A w \in Workers : w # NULL /\ Home[w] \in Servers
    BY TableAssumption, DispatchAssumption
  <2>4. \A w \in Workers : /\ Queued(w)' <=> Queued(w)
                           /\ InHand(w)' <=> InHand(w) /\ w # held[s]
                           /\ w = held[s] => InHand(w)
    BY <2>1, <2>2, <2>3 DEF Queued, InHand
  <2> QED BY <2>1, <2>2, <2>4 DEF PoolOK, Offered
<1>2. ASSUME NEW w \in Workers, ReturnAborted(w) PROVE PoolOK'
  <2>1. /\ UNCHANGED <<available, held, ctx, goroutine>> /\ returning' = returning \ {w}
        /\ ctx[Home[w]] = "cancelled"
    BY <1>2 DEF ReturnAborted, scannerVars, workerVars
  <2> QED BY <2>1 DEF PoolOK, Offered, Queued, InHand
<1>3. ASSUME NEW w \in Workers, WorkerStops(w) PROVE PoolOK'
  <2>1. /\ UNCHANGED <<available, held, returning, ctx>>
        /\ \A v \in Workers : \/ goroutine'[v] = goroutine[v]
                              \/ /\ goroutine'[v] = "stopped"
                                 /\ goroutine[v] \in {"waiting", "offering"}
    BY <1>t, <1>3 DEF WorkerStops, scannerVars, poolVars, TypeOK
  <2> QED BY <2>1, PoolFrame
<1> QED BY <1>1, <1>2, <1>3

(* processTask: the worker is nowhere in the pool.                         *)
LEMMA PoolCalls ==
  ASSUME CoreInv, PoolOK, NEW w \in Workers,
         (\E r \in Returns : Handle(w, r)) \/ Commit(w) \/ Abandon(w)
  PROVE  PoolOK'
<1>1. goroutine[w] \in {"handling", "returned"}
  BY DEF Handle, Commit, Abandon
<1>2. ~Offered(w)
  BY <1>1 DEF PoolOK
<1>3. /\ UNCHANGED <<available, held, returning, ctx>>
      /\ \A v \in Workers : \/ goroutine'[v] = goroutine[v]
                            \/ v = w /\ goroutine'[v] # "waiting"
  BY DEF Handle, Commit, Abandon, Finish, scannerVars, poolVars, CoreInv, TypeOK
<1> QED BY <1>2, <1>3, PoolFrame

(* Every step keeps the pool in order.                                     *)
LEMMA PoolNext == CoreInv /\ PoolOK /\ [Next]_vars => PoolOK'
<1> SUFFICES ASSUME CoreInv, PoolOK, [Next]_vars PROVE PoolOK'
  OBVIOUS
<1> USE DEF scannerVars, workerVars, poolVars, listenVars, lockVars
<1>1. ASSUME UNCHANGED <<available, held, returning, goroutine>>,
             \A s \in Servers : ctx'[s] = "up" => ctx[s] = "up"
      PROVE  PoolOK'
  <2>1. \A w \in Workers : Home[w] \in Servers
    BY DispatchAssumption
  <2> QED BY <1>1, <2>1, PoolFrame
<1>2. CASE UNCHANGED vars
  BY <1>1, <1>2 DEF vars
<1>3. ASSUME NEW s \in Servers, Scanner(s) PROVE PoolOK'
  <2>1. CASE TakeWorker(s)
    BY <2>1, PoolTake
  <2>2. CASE NothingToClaim(s) \/ BackoffEnds(s) \/ scanAndAssign(s)
    BY <1>1, <2>2 DEF NothingToClaim, BackoffEnds, scanAndAssign, CommitClaim
  <2>3. CASE AwaitEvents(s)
    BY <2>3, PoolReturn DEF AwaitEvents
  <2>4. CASE Dispatch(s)
    BY <2>4, PoolLeave
  <2>5. ASSUME NEW t \in Tasks, Claim(s, t) PROVE PoolOK'
    BY <1>1, <2>5 DEF Claim
  <2> QED BY <1>3, <2>1, <2>2, <2>3, <2>4, <2>5 DEF Scanner
<1>4. ASSUME NEW s \in Servers, Listener(s) PROVE PoolOK'
  BY <1>1, <1>4 DEF Listener, Listen, WaitForNotification, SendEvent
<1>5. ASSUME NEW w \in Workers, Worker(w) \/ renewLease(w) PROVE PoolOK'
  <2>1. CASE renewLease(w) \/ UpdateOwn(w) \/ ReachParent(w) \/ LockParent(w)
    BY <1>1, <2>1 DEF renewLease, UpdateOwn, ReachParent, LockParent, Step
  <2> QED BY <1>5, <2>1, PoolPut, PoolCalls DEF Worker
<1>6. CASE Unwind
  <2>1. ASSUME NEW s \in Servers, ListenerFails(s) \/ SendAborted(s) \/ ScannerStops(s)
        PROVE  PoolOK'
    BY <1>1, <2>1 DEF ListenerFails, SendAborted, ScannerStops, CoreInv, TypeOK
  <2>2. ASSUME NEW s \in Servers, ClaimFails(s) \/ DispatchAborted(s) PROVE PoolOK'
    BY <2>2, PoolReturn DEF ClaimFails, DispatchAborted
  <2>3. ASSUME NEW s \in Servers, ClaimLost(s) PROVE PoolOK'
    BY <2>3, PoolReturn DEF ClaimLost, CommitClaim
  <2> QED BY <1>6, <2>1, <2>2, <2>3, PoolTakeBack, PoolLeave, PoolCalls DEF Unwind
<1>7. CASE Client
  BY <1>1, <1>7 DEF Client, Create, Resume
<1>8. CASE Environment
  <2>1. ASSUME NEW s \in Servers, Shutdown(s) PROVE PoolOK'
    BY <1>1, <2>1 DEF Shutdown, CoreInv, TypeOK
  <2>2. ASSUME NEW t \in Tasks, LeaseExpires(t) PROVE PoolOK'
    BY <1>1, <2>2 DEF LeaseExpires
  <2> QED BY <1>8, <2>1, <2>2, PoolProcess DEF Environment
<1> QED BY <1>2, <1>3, <1>4, <1>5, <1>6, <1>7, <1>8 DEF Next

(* The pool is in order in every state.                                    *)
LEMMA PoolAlways == Spec => []PoolOK
<1>1. Init => PoolOK
  BY TableAssumption, DispatchAssumption DEF Init, PoolOK, Queued, InHand, Offered
<1> QED BY <1>1, CoreAlways, PoolNext, PTL DEF Spec

(* A worker is on offer exactly once while it waits and never while it has *)
(* an assignment: the send on w.work always meets its receiver, and the    *)
(* buffered channel never overflows (notify.go, scanAndAssign and run;     *)
(* worker.go, run), whatever fails and however many workers there are.     *)
THEOREM EveryWorkerOneToken == Spec => []OneToken
<1>1. CoreInv /\ PoolOK => OneToken
  <2> SUFFICES ASSUME CoreInv, PoolOK, NEW w \in Workers
               PROVE  CASE goroutine[w] = "waiting" /\ ctx[Home[w]] = "up" -> Tokens(w) = 1
                        [] goroutine[w] \in {"waiting", "stopped"}         -> Tokens(w) <= 1
                        [] OTHER                                           -> Tokens(w) = 0
    BY DEF OneToken
  <2>1. Tokens(w) = IF Offered(w) THEN 1 ELSE 0
    BY PoolCounts DEF CoreInv
  <2>2. /\ Offered(w) => goroutine[w] \in {"waiting", "stopped"}
        /\ goroutine[w] = "waiting" /\ ctx[Home[w]] = "up" => Offered(w)
    BY DEF PoolOK
  <2>3. CASE goroutine[w] = "waiting" /\ ctx[Home[w]] = "up"
    BY <2>1, <2>2, <2>3
  <2>4. CASE goroutine[w] = "waiting" /\ ctx[Home[w]] # "up"
    BY <2>1, <2>4
  <2>5. CASE goroutine[w] = "stopped"
    BY <2>1, <2>5
  <2>6. CASE goroutine[w] \notin {"waiting", "stopped"}
    BY <2>1, <2>2, <2>6
  <2> QED BY <2>3, <2>4, <2>5, <2>6
<1> QED BY <1>1, CoreAlways, PoolAlways, PTL

------------------------------------------------------------------------------
(* Notifications.                                                          *)

(* A scanner that found nothing to claim, and has not been sent an event   *)
(* since, has a notification left for what was announced to its server,    *)
(* unless its query skipped that.                                          *)
WakeOK ==
  \A s \in Servers :
    /\ \A t \in announced[s] : tasks[t].status = "pending"
    /\ ctx[s] = "up" /\ scan[s] \in {"empty", "idle"} /\ announced[s] \ skipped[s] # {}
         => notif[s] > 0 \/ listener[s] = "sending"

(* Steps of a server's goroutines that announce nothing and leave the      *)
(* statuses of the tasks alone.                                            *)
LEMMA WakeServer ==
  ASSUME CoreInv, WakeOK, NEW s \in Servers,
         \/ Scanner(s) \/ Listener(s) \/ StartHandlers(s) \/ Shutdown(s) \/ Die(s)
         \/ ListenerFails(s) \/ SendAborted(s) \/ BeginFails(s) \/ ClaimFails(s)
         \/ ClaimLost(s) \/ DispatchInVain(s) \/ DispatchAborted(s) \/ ScannerStops(s)
  PROVE  WakeOK'
<1> USE DEF CoreInv, scannerVars, workerVars, poolVars, listenVars, lockVars
<1>t. TypeOK
  OBVIOUS
<1>1. CASE NothingToClaim(s)
  <2>1. /\ UNCHANGED <<tasks, ctx, notif, listener, announced>>
        /\ \A v \in Servers : v # s => scan'[v] = scan[v] /\ skipped'[v] = skipped[v]
        /\ skipped'[s] = {t \in Tasks : tasks[t].status = "pending"}
    BY <1>1 DEF NothingToClaim, TypeOK
  <2>2. announced'[s] \ skipped'[s] = {}
    BY <2>1 DEF TypeOK, WakeOK
  <2> QED BY <2>1, <2>2 DEF WakeOK
<1>2. CASE scanAndAssign(s) \/ ClaimLost(s)
  <2>t. PICK t \in Tasks : t = claimed[s].task
    BY <1>2 DEF scanAndAssign, ClaimLost, CommitClaim, ScannerOK, TypeOK, Assignment, NoAssignment
  <2>1. /\ announced' = [v \in Servers |-> announced[v] \ {t}]
        /\ skipped' = [v \in Servers |-> skipped[v] \ {t}]
        /\ tasks' = [tasks EXCEPT ![t] = ClaimedRow(tasks[t], held[s])]
        /\ UNCHANGED <<ctx, notif, listener>>
        /\ scan'[s] \in {"dispatch", "backoff"}
        /\ \A v \in Servers : v # s => scan'[v] = scan[v]
    BY <1>2, <2>t DEF scanAndAssign, ClaimLost, CommitClaim, TypeOK
  <2>2. ASSUME NEW v \in Servers
        PROVE  /\ announced'[v] = announced[v] \ {t} /\ skipped'[v] = skipped[v] \ {t}
               /\ \A u \in announced'[v] : u \in Tasks /\ tasks'[u] = tasks[u]
    BY <1>t, <2>1 DEF TypeOK
  <2>3. \A v \in Servers : announced'[v] \ skipped'[v] \subseteq announced[v] \ skipped[v]
    BY <2>2
  <2> QED BY <2>1, <2>2, <2>3 DEF WakeOK
<1>3. CASE WaitForNotification(s)
  BY <1>t, <1>3 DEF WaitForNotification, WakeOK, TypeOK
<1>4. CASE SendEvent(s)
  BY <1>t, <1>4 DEF SendEvent, WakeOK, TypeOK
<1>5. CASE Listen(s)
  BY <1>t, <1>5 DEF Listen, WakeOK, TypeOK
<1>6. CASE StartHandlers(s)
  BY <1>t, <1>6 DEF StartHandlers, WakeOK, TypeOK
<1>7. CASE Die(s)
  BY <1>t, <1>7 DEF Die, WakeOK, TypeOK
<1>8. CASE Shutdown(s) \/ ListenerFails(s) \/ SendAborted(s)
  BY <1>t, <1>8 DEF Shutdown, ListenerFails, SendAborted, WakeOK, TypeOK
<1>9. CASE TakeWorker(s) \/ BeginFails(s) \/ BackoffEnds(s) \/ Dispatch(s) \/ DispatchInVain(s)
  <2>1. /\ UNCHANGED <<tasks, ctx, listener, notif, announced, skipped>>
        /\ scan'[s] \in {"claim", "backoff", "need"}
        /\ \A v \in Servers : v # s => scan'[v] = scan[v]
    BY <1>t, <1>9 DEF TakeWorker, BeginFails, BackoffEnds, Dispatch, DispatchInVain, TypeOK
  <2> QED BY <2>1 DEF WakeOK
<1>c. ASSUME NEW t \in Tasks, Claim(s, t) PROVE WakeOK'
  <2>1. /\ UNCHANGED <<tasks, ctx, listener, notif, announced, skipped>> /\ scan'[s] = "commit"
        /\ \A v \in Servers : v # s => scan'[v] = scan[v]
    BY <1>t, <1>c DEF Claim, TypeOK
  <2> QED BY <2>1 DEF WakeOK
<1>10. CASE AwaitEvents(s)
  <2>1. /\ UNCHANGED <<tasks, ctx, listener, notif, announced, skipped>> /\ scan[s] = "empty"
        /\ \A v \in Servers : v # s => scan'[v] = scan[v]
    BY <1>t, <1>10 DEF AwaitEvents, TypeOK
  <2> QED BY <2>1 DEF WakeOK
<1>12. CASE ScannerStops(s)
  <2>1. /\ UNCHANGED <<tasks, ctx, listener, notif, announced, skipped>> /\ scan'[s] = "stopped"
        /\ \A v \in Servers : v # s => scan'[v] = scan[v]
    BY <1>t, <1>12 DEF ScannerStops, TypeOK
  <2> QED BY <2>1 DEF WakeOK
<1>11. CASE ClaimFails(s) \/ DispatchAborted(s)
  <2>1. /\ UNCHANGED <<tasks, ctx, listener, notif, announced, skipped>> /\ scan'[s] = "backoff"
        /\ \A v \in Servers : v # s => scan'[v] = scan[v]
    BY <1>t, <1>11 DEF ClaimFails, DispatchAborted, TypeOK
  <2> QED BY <2>1 DEF WakeOK
<1> QED BY <1>1, <1>2, <1>3, <1>4, <1>5, <1>6, <1>7, <1>8, <1>9, <1>10, <1>11,
           <1>12, <1>c DEF Scanner, Listener

(* A transaction that announces the tasks it makes pending.                *)
LEMMA WakeNotify ==
  ASSUME TypeOK, WakeOK, NEW T \in SUBSET Tasks, NEW L, notify(T, L),
         UNCHANGED <<ctx, scan>>,
         \A t \in T : tasks'[t].status = "pending" /\ tasks[t].status # "pending",
         \A t \in Tasks : t \notin L /\ tasks[t].status = "pending" => tasks'[t].status = "pending"
  PROVE  WakeOK'
<1> SUFFICES ASSUME NEW s \in Servers
             PROVE  /\ \A t \in announced'[s] : tasks'[t].status = "pending"
                    /\ ctx'[s] = "up" /\ scan'[s] \in {"empty", "idle"}
                       /\ announced'[s] \ skipped'[s] # {}
                         => notif'[s] > 0 \/ listener'[s] = "sending"
  BY DEF WakeOK
<1>1. /\ announced'[s] = (announced[s] \ L) \cup (IF Listening(s) THEN T ELSE {})
      /\ notif'[s] = IF T # {} /\ Listening(s) /\ notif[s] < MaxNotify THEN notif[s] + 1
                                                                     ELSE notif[s]
      /\ listener'[s] = listener[s] /\ notif[s] \in 0 .. MaxNotify /\ MaxNotify \in Nat \ {0}
      /\ announced[s] \subseteq Tasks /\ skipped'[s] = skipped[s] \ (T \cup L)
  BY DispatchAssumption DEF notify, TypeOK
<1>2. \A t \in announced'[s] : tasks'[t].status = "pending"
  BY <1>1 DEF WakeOK
<1>3. CASE T # {} /\ Listening(s)
  BY <1>1, <1>2, <1>3
<1>4. CASE ~(T # {} /\ Listening(s))
  <2>1. announced'[s] = announced[s] \ L /\ notif'[s] = notif[s]
    BY <1>1, <1>4
  <2>2. announced[s] \cap T = {}
    BY DEF WakeOK
  <2>3. announced'[s] \ skipped'[s] \subseteq announced[s] \ skipped[s]
    BY <1>1, <2>1, <2>2
  <2> QED BY <1>1, <1>2, <2>1, <2>3 DEF WakeOK
<1> QED BY <1>3, <1>4

(* Every step keeps the wakeups.                                           *)
LEMMA WakeNext == CoreInv /\ LocksOK /\ WakeOK /\ [Next]_vars => WakeOK'
<1> SUFFICES ASSUME CoreInv, LocksOK, WakeOK, [Next]_vars PROVE WakeOK'
  OBVIOUS
<1> USE DEF scannerVars, workerVars, poolVars, listenVars, lockVars
<1>t. TypeOK
  BY DEF CoreInv
<1>1. ASSUME UNCHANGED <<ctx, scan, announced, skipped, notif, listener>>,
             \A t \in Tasks : tasks'[t].status = tasks[t].status
      PROVE  WakeOK'
  BY <1>t, <1>1 DEF WakeOK, TypeOK
<1>2. CASE UNCHANGED vars
  BY <1>1, <1>2 DEF vars
<1>3. ASSUME NEW w \in Workers,
             \/ Offer(w) \/ Return(w) \/ ReturnAborted(w) \/ WorkerStops(w) \/ Abandon(w)
             \/ UpdateOwn(w) \/ ReachParent(w) \/ LockParent(w)
             \/ \E r \in Returns : Handle(w, r)
      PROVE  WakeOK'
  BY <1>1, <1>3 DEF Offer, Return, ReturnAborted, WorkerStops, Abandon, Finish, Handle,
                    UpdateOwn, ReachParent, LockParent, Step
<1>4. ASSUME NEW w \in Workers, Commit(w) PROVE WakeOK'
  <2> DEFINE L == {t \in {Job(w)} : result[w].status # "pending"}
  <2>1. notify(Announces(w), L) /\ UNCHANGED <<ctx, scan>>
    BY <1>4 DEF Commit, Finish
  <2>2. /\ Announces(w) \subseteq Tasks
        /\ \A u \in Announces(w) : tasks'[u].status = "pending" /\ tasks[u].status # "pending"
    BY <1>4, CommitTable
  <2>3. ASSUME NEW t \in Tasks, t \notin L, tasks[t].status = "pending"
        PROVE  tasks'[t].status = "pending"
    <3>1. CASE t = Job(w)
      <4>1. /\ result[w] \in Result /\ result[w].status = "pending" /\ tasks[t] \in Row
            /\ tasks'[t] = FinishedRow(tasks[t], result[w])
        BY <1>4, <1>t, <2>3, <3>1, CommitTable DEF TypeOK
      <4> QED BY <4>1, FinishedRowType
    <3>2. CASE t \in result[w].kids
      <4>1. tasks'[t] = NewRow(EmptyState, Job(w))
        BY <1>4, <3>2, CommitTable
      <4> QED BY <4>1 DEF NewRow
    <3>3. CASE t # Job(w) /\ t \notin result[w].kids
      BY <1>4, <2>3, <3>3, CommitTable
    <3> QED BY <3>1, <3>2, <3>3
  <2> HIDE DEF L
  <2> QED BY <1>t, <2>1, <2>2, <2>3, WakeNotify
<1>5. ASSUME NEW w \in Workers, renewLease(w) PROVE WakeOK'
  BY <1>1, <1>t, <1>5 DEF renewLease, TypeOK, Row
<1>6. ASSUME NEW t \in Tasks, LeaseExpires(t) PROVE WakeOK'
  BY <1>1, <1>t, <1>6 DEF LeaseExpires, TypeOK, Row
<1>7. ASSUME NEW s \in Servers, NEW t \in Tasks, NEW r \in Row, r.status = "pending",
             tasks[t].status # "pending", tasks' = [tasks EXCEPT ![t] = r], notify({t}, {}), UNCHANGED <<ctx, scan>>
      PROVE  WakeOK'
  <2>1. \A u \in Tasks : tasks'[u] = IF u = t THEN r ELSE tasks[u]
    BY <1>t, <1>7 DEF TypeOK
  <2>2. \A u \in {t} : tasks'[u].status = "pending" /\ tasks[u].status # "pending"
    BY <1>7, <2>1
  <2>3. \A u \in Tasks : u \notin {} /\ tasks[u].status = "pending" => tasks'[u].status = "pending"
    BY <1>7, <2>1
  <2> QED BY <1>t, <1>7, <2>2, <2>3, WakeNotify
<1>8. CASE Client
  <2>1. ASSUME NEW s \in Servers, NEW t \in Tasks, NEW st \in States, Create(s, t, st)
        PROVE  WakeOK'
    <3>1. NewRow(st, NULL) \in Row /\ NewRow(st, NULL).status = "pending"
      BY NewRowGood
    <3>2. tasks[t].status # "pending"
      BY <2>1 DEF Create, Free, Exists
    <3> QED BY <1>7, <2>1, <3>1, <3>2 DEF Create
  <2>2. ASSUME NEW s \in Servers, NEW t \in Tasks, Resume(s, t)
        PROVE  WakeOK'
    <3>1. tasks[t] \in Row /\ tasks[t].status = "waiting"
      BY <1>t, <2>2 DEF Resume, TypeOK
    <3> QED BY <1>7, <2>2, <3>1, ResumedRowGood DEF Resume
  <2> QED BY <1>8, <2>1, <2>2 DEF Client
<1> QED BY <1>2, <1>3, <1>4, <1>5, <1>6, <1>8, WakeServer
        DEF Next, Worker, Unwind, Environment

(* No lost wakeup: a scanner that waits for events has a notification left *)
(* for every pending task its server was notified of, except for those     *)
(* whose row its last query found locked by an open transaction and that   *)
(* were not announced again (notify.go, run, the listener and the query's  *)
(* SKIP LOCKED), for any number of processes, whatever fails, and however  *)
(* many notifications Postgres folds into one.                             *)
THEOREM NoWakeupIsLost == Spec => []NoLostWakeup
<1>1. Init => WakeOK
  BY DEF Init, WakeOK
<1>2. WakeOK => NoLostWakeup
  BY DEF WakeOK, NoLostWakeup
<1> QED BY <1>1, <1>2, CoreAlways, WakeNext, PTL DEF Spec

------------------------------------------------------------------------------
(* Running tasks.                                                          *)

(* The worker that a running row names belongs to a server that has        *)
(* started; while that server is up, the worker, or the scanner that       *)
(* claimed for it, has the task.                                           *)
OwnedOK ==
  \A t \in Tasks, w \in Workers :
    tasks[t].status = "running" /\ tasks[t].worker_id = w =>
      /\ ctx[Home[w]] # "off"
      /\ ctx[Home[w]] = "up" => Holds(w, t)

(* A step after which the running tasks are among those that were running  *)
(* before, with the same worker, and in the same hands.                    *)
LEMMA OwnedFrame ==
  ASSUME OwnedOK,
         \A t \in Tasks : tasks'[t].status = "running" =>
           /\ tasks[t].status = "running" /\ tasks'[t].worker_id = tasks[t].worker_id,
         \A s \in Servers : /\ ctx'[s] = "off" => ctx[s] = "off"
                            /\ ctx'[s] = "up" => ctx[s] \in {"up", "off"},
         \A w \in Workers, t \in Tasks :
           /\ ctx'[Home[w]] = "up" /\ tasks'[t].status = "running" /\ tasks'[t].worker_id = w
           /\ Holds(w, t)
           => Holds(w, t)'
  PROVE  OwnedOK'
<1>1. \A w \in Workers : Home[w] \in Servers
  BY DispatchAssumption
<1> QED BY <1>1 DEF OwnedOK

(* The scanner's claim, and the hand-over of the claim to the worker.      *)
LEMMA OwnedScan ==
  ASSUME CoreInv, LocksOK, OwnedOK, "database" \notin MayHappen, NEW s \in Servers,
         \/ \E t \in Tasks : Claim(s, t)
         \/ scanAndAssign(s) \/ ClaimLost(s)
         \/ TakeWorker(s) \/ BeginFails(s) \/ AwaitEvents(s) \/ ClaimFails(s)
         \/ Dispatch(s) \/ DispatchInVain(s) \/ DispatchAborted(s)
  PROVE  OwnedOK'
<1>t. TypeOK /\ ScannerOK
  BY DEF CoreInv
<1>0. \A w \in Workers : Home[w] \in Servers /\ w # NULL
  BY DispatchAssumption, TableAssumption
<1>1. CASE scanAndAssign(s)
  <2>0. PICK t \in Tasks : t = claimed[s].task
    BY <1>t, <1>1, TableAssumption
       DEF scanAndAssign, CommitClaim, ScannerOK, TypeOK, Assignment, NoAssignment
  <2>1. /\ scan[s] = "commit" /\ ctx[s] = "up" /\ scan'[s] = "dispatch"
        /\ tasks' = [tasks EXCEPT ![t] = ClaimedRow(tasks[t], held[s])]
        /\ UNCHANGED <<ctx, assignment, held, claimed>>
        /\ \A v \in Servers : v # s => scan'[v] = scan[v]
    BY <1>t, <1>1, <2>0 DEF scanAndAssign, CommitClaim, workerVars, TypeOK
  <2>2. /\ held[s] \in Workers /\ Home[held[s]] = s
        /\ tasks'[t].worker_id = held[s]
        /\ \A u \in Tasks : u # t => tasks'[u] = tasks[u]
    BY <1>t, <2>1 DEF ScannerOK, TypeOK, ClaimedRow, Row
  <2>3. ASSUME NEW u \in Tasks, NEW w \in Workers, u # t, Holds(w, u) PROVE Holds(w, u)'
    BY <1>0, <2>1, <2>3 DEF Holds, Job, Promised
  <2>4. Holds(held[s], t)'
    <3>1. /\ held'[Home[held[s]]'] = held[s] /\ scan'[Home[held[s]]'] = "dispatch"
          /\ claimed'[Home[held[s]]'].task = t
      BY <2>0, <2>1, <2>2
    <3> QED BY <2>1, <3>1 DEF Holds, Promised
  <2>5. ASSUME NEW w \in Workers, tasks'[t].worker_id = w
        PROVE  ctx'[Home[w]] # "off" /\ Holds(w, t)'
    <3>1. w = held[s] /\ Home[w] = s
      BY <2>2, <2>5
    <3>2. held'[Home[w]] = w /\ scan'[Home[w]] = "dispatch" /\ claimed'[Home[w]].task = t
      BY <2>0, <2>1, <3>1
    <3>3. Holds(w, t)'
      BY <3>2 DEF Holds, Promised
    <3> QED BY <2>1, <3>1, <3>3
  <2> QED BY <2>1, <2>2, <2>3, <2>5 DEF OwnedOK
<1>2. CASE ClaimLost(s)
  BY <1>2 DEF ClaimLost
<1>3. CASE \/ \E t \in Tasks : Claim(s, t)
           \/ TakeWorker(s) \/ BeginFails(s) \/ AwaitEvents(s) \/ ClaimFails(s)
  <2>1. /\ UNCHANGED <<tasks, ctx, assignment>> /\ scan[s] # "dispatch"
        /\ \A v \in Servers : v # s => /\ held'[v] = held[v] /\ claimed'[v] = claimed[v]
                                       /\ scan'[v] = scan[v]
    BY <1>t, <1>3 DEF Claim, TakeWorker, BeginFails, AwaitEvents, ClaimFails, ReturnHeld,
                      TypeOK, workerVars
  <2>2. ASSUME NEW w \in Workers, NEW t \in Tasks, Holds(w, t) PROVE Holds(w, t)'
    BY <1>0, <2>1, <2>2 DEF Holds, Job, Promised
  <2> QED BY <2>1, <2>2, OwnedFrame
<1>5. CASE Dispatch(s)
  <2>1. /\ UNCHANGED <<tasks, ctx>> /\ held[s] \in Workers /\ Home[held[s]] = s
        /\ goroutine[held[s]] = "waiting"
        /\ assignment'[held[s]] = claimed[s]
        /\ \A v \in Workers : v # held[s] => assignment'[v] = assignment[v]
        /\ \A v \in Servers : v # s => /\ held'[v] = held[v] /\ claimed'[v] = claimed[v]
                                       /\ scan'[v] = scan[v]
    BY <1>t, <1>5 DEF Dispatch, ScannerOK, TypeOK
  <2>2. Job(held[s]) = NULL
    BY <2>1 DEF CoreInv, CallsOK
  <2>3. ASSUME NEW w \in Workers, NEW t \in Tasks, Holds(w, t) PROVE Holds(w, t)'
    <3>1. CASE w = held[s]
      BY <2>1, <2>2, <2>3, <3>1, TableAssumption DEF Holds, Job, Promised
    <3>2. CASE w # held[s] /\ Home[w] = s
      BY <2>1, <2>3, <3>2 DEF Holds, Job, Promised
    <3>3. CASE w # held[s] /\ Home[w] # s
      BY <1>0, <2>1, <2>3, <3>3 DEF Holds, Job, Promised
    <3> QED BY <3>1, <3>2, <3>3
  <2> QED BY <2>1, <2>3, OwnedFrame
<1>6. CASE DispatchAborted(s) \/ DispatchInVain(s)
  <2>1. /\ UNCHANGED <<tasks, ctx, assignment>> /\ ctx[s] = "cancelled"
        /\ \A v \in Servers : v # s => /\ held'[v] = held[v] /\ claimed'[v] = claimed[v]
                                       /\ scan'[v] = scan[v]
    BY <1>t, <1>6 DEF DispatchAborted, DispatchInVain, DbMayFail, ReturnHeld, TypeOK, workerVars
  <2>2. ASSUME NEW w \in Workers, NEW t \in Tasks, ctx'[Home[w]] = "up", Holds(w, t)
        PROVE  Holds(w, t)'
    BY <1>0, <2>1, <2>2 DEF Holds, Job, Promised
  <2> QED BY <2>1, <2>2, OwnedFrame
<1> QED BY <1>1, <1>2, <1>3, <1>5, <1>6

(* The end of processTask.  A statement fails only because the context is  *)
(* cancelled, and a row within the constraints accepts every valid result. *)
LEMMA OwnedCalls ==
  ASSUME CoreInv, LocksOK, OwnedOK, "database" \notin MayHappen, "invalid" \notin Outcomes,
         NEW w \in Workers, Commit(w) \/ Abandon(w)
  PROVE  OwnedOK'
<1>t. TypeOK /\ RowsOK /\ CallsOK
  BY DEF CoreInv
<1>0. \A v \in Workers : Home[v] \in Servers /\ v # NULL
  BY DispatchAssumption, TableAssumption
<1>1. /\ UNCHANGED <<ctx, scan, held, claimed>>
      /\ \A v \in Workers : v # w => assignment'[v] = assignment[v]
  BY <1>t DEF Commit, Abandon, Finish, scannerVars, TypeOK
<1>2. ASSUME NEW v \in Workers, NEW t \in Tasks, Holds(v, t), ~(v = w /\ t = Job(w))
      PROVE  Holds(v, t)'
  BY <1>0, <1>1, <1>2 DEF Holds, Job, Promised
<1>3. CASE Commit(w)
  <2>1. /\ Job(w) \in Tasks /\ result[w] \in Result /\ result[w].status # "invalid"
        /\ tasks'[Job(w)] = FinishedRow(tasks[Job(w)], result[w])
        /\ \A u \in result[w].kids : u \in Tasks /\ tasks'[u] = NewRow(EmptyState, Job(w))
        /\ \A u \in Tasks : u # Job(w) /\ u \notin result[w].kids =>
             \/ tasks'[u] = tasks[u]
             \/ tasks[u].status = "waiting" /\ tasks'[u] = ResumedRow(tasks[u])
    BY <1>3, CommitTable
  <2>2. tasks'[Job(w)].status # "running"
    <3>1. tasks'[Job(w)].status = result[w].status
      BY <1>t, <2>1, FinishedRowType DEF TypeOK
    <3> QED BY <2>1, <3>1 DEF Result
  <2>3. ASSUME NEW u \in Tasks, u # Job(w), tasks'[u].status = "running"
        PROVE  tasks'[u] = tasks[u]
    <3>1. CASE u \in result[w].kids
      <4>1. tasks'[u] = NewRow(EmptyState, Job(w))
        BY <2>1, <3>1
      <4> QED BY <2>3, <4>1 DEF NewRow
    <3>2. CASE tasks[u].status = "waiting" /\ tasks'[u] = ResumedRow(tasks[u])
      <4>1. tasks[u] \in Row
        BY <1>t DEF TypeOK
      <4>2. tasks'[u].status = "pending"
        BY <3>2, <4>1, ResumedRowGood
      <4> QED BY <2>3, <4>2
    <3> QED BY <2>1, <2>3, <3>1, <3>2
  <2>4. \A u \in Tasks : tasks'[u].status = "running" =>
          u # Job(w) /\ tasks[u].status = "running" /\ tasks'[u].worker_id = tasks[u].worker_id
    BY <2>2, <2>3
  <2> QED BY <1>1, <1>2, <2>4, OwnedFrame
<1>4. CASE Abandon(w)
  <2>1. tasks' = tasks
    BY <1>4 DEF Abandon
  <2>2. ASSUME NEW t \in Tasks, t = Job(w), tasks[t].status = "running",
               ctx[Home[w]] = "up"
        PROVE  FALSE
    <3>1. goroutine[w] = "returned" /\ Rejected(w)
      BY <1>4, <2>2 DEF Abandon, DbMayFail
    <3>2. /\ result[w] \in Result /\ result[w].status # "invalid"
      <4>1. result[w] # NoResult
        BY <1>t, <3>1 DEF CallsOK
      <4>2. result[w] \in Returns /\ result[w] \in Result
        BY <1>t, <4>1, CallTypes
      <4> QED BY <4>2 DEF Returns
    <3>3. /\ tasks[t] \in Row /\ tasks[t].error = NULL
      BY <1>t, <2>2 DEF RowsOK, TypeOK, Exists, Check, CheckError
    <3>4. Check(FinishedRow(tasks[t], result[w]))
      BY <3>2, <3>3, FinishedRowCheck
    <3> QED BY <2>2, <3>1, <3>2, <3>4 DEF Rejected, Applicable
  <2>3. ASSUME NEW v \in Workers, NEW t \in Tasks, ctx'[Home[v]] = "up",
               tasks'[t].status = "running", Holds(v, t)
        PROVE  Holds(v, t)'
    BY <1>1, <1>2, <2>1, <2>2, <2>3
  <2> QED BY <1>1, <2>1, <2>3, OwnedFrame
<1> QED BY <1>3, <1>4

(* Every step keeps running tasks in somebody's hands.                     *)
LEMMA OwnedNext ==
  ASSUME "database" \notin MayHappen, "invalid" \notin Outcomes
  PROVE  CoreInv /\ LocksOK /\ OwnedOK /\ [Next]_vars => OwnedOK'
<1> SUFFICES ASSUME CoreInv, LocksOK, OwnedOK, [Next]_vars PROVE OwnedOK'
  OBVIOUS
<1> USE DEF scannerVars, workerVars, poolVars, listenVars, lockVars
<1>t. TypeOK
  BY DEF CoreInv
<1>0. \A w \in Workers : Home[w] \in Servers
  BY DispatchAssumption
<1>1. ASSUME UNCHANGED <<held, claimed, assignment>>,
             \A s \in Servers : scan[s] = "dispatch" => scan'[s] = "dispatch",
             \A t \in Tasks : tasks'[t].status = "running" =>
               /\ tasks[t].status = "running" /\ tasks'[t].worker_id = tasks[t].worker_id,
             \A s \in Servers : /\ ctx'[s] = "off" => ctx[s] = "off"
                                /\ ctx'[s] = "up" => ctx[s] \in {"up", "off"}
      PROVE  OwnedOK'
  <2>1. \A w \in Workers, t \in Tasks : Holds(w, t) => Holds(w, t)'
    BY <1>0, <1>1 DEF Holds, Job, Promised
  <2> QED BY <1>1, <2>1, OwnedFrame
<1>2. CASE UNCHANGED vars
  BY <1>1, <1>2 DEF vars
<1>3. ASSUME NEW s \in Servers,
             \/ NothingToClaim(s) \/ BackoffEnds(s) \/ ScannerStops(s) \/ Listen(s)
             \/ WaitForNotification(s) \/ SendEvent(s) \/ SendAborted(s)
             \/ StartHandlers(s) \/ Shutdown(s) \/ ListenerFails(s)
      PROVE  OwnedOK'
  <2>1. UNCHANGED <<held, claimed, assignment, tasks>>
    BY <1>3 DEF NothingToClaim, BackoffEnds, ScannerStops, Listen, WaitForNotification,
                SendEvent, SendAborted, StartHandlers, Shutdown, ListenerFails
  <2>2. \A v \in Servers : /\ ctx'[v] = "off" => ctx[v] = "off"
                           /\ ctx'[v] = "up" => ctx[v] \in {"up", "off"}
    BY <1>t, <1>3
       DEF NothingToClaim, BackoffEnds, ScannerStops, Listen, WaitForNotification,
           SendEvent, SendAborted, StartHandlers, Shutdown, ListenerFails, TypeOK
  <2>3. \A v \in Servers : scan[v] = "dispatch" => scan'[v] = "dispatch"
    <3>1. CASE StartHandlers(s)
      BY <1>t, <3>1 DEF StartHandlers, CoreInv, ProcessOK, TypeOK
    <3>2. CASE ~StartHandlers(s)
      BY <1>t, <1>3, <3>2
         DEF NothingToClaim, BackoffEnds, ScannerStops, Listen, WaitForNotification,
             SendEvent, SendAborted, Shutdown, ListenerFails, TypeOK
    <3> QED BY <3>1, <3>2
  <2> QED BY <1>1, <2>1, <2>2, <2>3
<1>4. ASSUME NEW s \in Servers, Die(s) PROVE OwnedOK'
  <2>1. /\ tasks' = tasks /\ ctx'[s] = "dead"
        /\ \A v \in Servers : v # s => /\ ctx'[v] = ctx[v] /\ held'[v] = held[v]
                                       /\ claimed'[v] = claimed[v] /\ scan'[v] = scan[v]
        /\ \A w \in Workers : Home[w] # s => assignment'[w] = assignment[w]
    BY <1>t, <1>4 DEF Die, TypeOK, Crew
  <2>2. ASSUME NEW w \in Workers, NEW t \in Tasks, ctx'[Home[w]] = "up", Holds(w, t)
        PROVE  Holds(w, t)'
    BY <1>0, <2>1, <2>2 DEF Holds, Job, Promised
  <2> QED BY <2>1, <2>2, OwnedFrame
<1>5. ASSUME NEW w \in Workers,
             \/ Offer(w) \/ Return(w) \/ ReturnAborted(w) \/ WorkerStops(w)
             \/ UpdateOwn(w) \/ ReachParent(w) \/ LockParent(w)
             \/ \E r \in Returns : Handle(w, r)
      PROVE  OwnedOK'
  BY <1>1, <1>5 DEF Offer, Return, ReturnAborted, WorkerStops, Handle, UpdateOwn,
                    ReachParent, LockParent, Step
<1>6. ASSUME NEW w \in Workers, renewLease(w) PROVE OwnedOK'
  BY <1>1, <1>t, <1>6 DEF renewLease, TypeOK, Row
<1>7. ASSUME NEW t \in Tasks, LeaseExpires(t) PROVE OwnedOK'
  BY <1>1, <1>t, <1>7 DEF LeaseExpires, TypeOK, Row
<1>8. CASE Client
  <2>1. ASSUME NEW s \in Servers, NEW t \in Tasks, NEW st \in States, Create(s, t, st)
        PROVE  OwnedOK'
    BY <1>1, <1>t, <2>1 DEF Create, TypeOK, NewRow
  <2>2. ASSUME NEW s \in Servers, NEW t \in Tasks, Resume(s, t)
        PROVE  OwnedOK'
    BY <1>1, <1>t, <2>2 DEF Resume, TypeOK, ResumedRow, Row
  <2> QED BY <1>8, <2>1, <2>2 DEF Client
<1> QED BY <1>2, <1>3, <1>4, <1>5, <1>6, <1>7, <1>8, OwnedScan, OwnedCalls
        DEF Next, Scanner, Listener, Worker, Unwind, Environment

(* As long as a server lives, every running task whose row names one of    *)
(* its workers is in the hands of that worker or of the scanner that       *)
(* claimed it, if statements fail only when the context ends and handlers  *)
(* return valid statuses (notify.go, scanAndAssign; worker.go,             *)
(* processTask): nothing is left for the lease to repair.                  *)
THEOREM NoRunningTaskStranded ==
  ASSUME "database" \notin MayHappen, "invalid" \notin Outcomes
  PROVE  Spec => []RunningIsOwned
<1>1. Init => OwnedOK
  BY DEF Init, OwnedOK, EmptyTable, AbsentRow
<1>2. CoreInv /\ OwnedOK => RunningIsOwned
  <2> SUFFICES ASSUME CoreInv, OwnedOK, NEW t \in Tasks, tasks[t].status = "running"
               PROVE  Owned(t) \/ ctx[Home[tasks[t].worker_id]] # "up"
    BY DEF RunningIsOwned
  <2>1. tasks[t].worker_id \in Workers
    BY DEF CoreInv, TypeOK, Row, RowsOK, Exists, Check, CheckLease
  <2> QED BY <2>1 DEF OwnedOK, Owned
<1>3. CoreInv /\ LocksOK /\ OwnedOK /\ [Next]_vars => OwnedOK'
  BY OwnedNext
<1> QED BY <1>1, <1>2, <1>3, CoreAlways, PTL DEF Spec

------------------------------------------------------------------------------
(* The refinement of TaskLifecycle.                                        *)

(* The abstract workers, as functions.                                     *)
absPhase == [w \in Workers |-> PhaseOf(w)]
absJob == [w \in Workers |-> AssignmentOf(w).task]
absInput == [w \in Workers |-> AssignmentOf(w).state]
absVars == <<absPhase, absJob, absInput>>

(* The statements of the table are the same in both.                       *)
LEMMA SameTable ==
  /\ Lifecycle!NoResult = NoResult /\ Lifecycle!Result = Result /\ Lifecycle!Free = Free
  /\ \A st, q : Lifecycle!NewRow(st, q) = NewRow(st, q)
  /\ \A r : /\ Lifecycle!Claimable(r) <=> Claimable(r)
            /\ Lifecycle!Check(r) <=> Check(r)
            /\ Lifecycle!ResumedRow(r) = ResumedRow(r)
  /\ \A r, x : /\ Lifecycle!ClaimedRow(r, x) = ClaimedRow(r, x)
               /\ Lifecycle!FinishedRow(r, x) = FinishedRow(r, x)
  /\ \A tbl, t, x : /\ Lifecycle!applyResult(tbl, t, x) = applyResult(tbl, t, x)
                    /\ Lifecycle!WithChildren(tbl, t, x) = WithChildren(tbl, t, x)
<1>1. /\ Lifecycle!NoResult = NoResult /\ Lifecycle!Result = Result
      /\ Lifecycle!Free = Free
  BY DEF Lifecycle!NoResult, Lifecycle!Result, Lifecycle!Free, Lifecycle!Exists,
         NoResult, Result, Free, Exists
<1>2. /\ \A st, q : Lifecycle!NewRow(st, q) = NewRow(st, q)
      /\ \A r : /\ Lifecycle!Claimable(r) <=> Claimable(r)
                /\ Lifecycle!Check(r) <=> Check(r)
                /\ Lifecycle!ResumedRow(r) = ResumedRow(r)
      /\ \A r, x : Lifecycle!ClaimedRow(r, x) = ClaimedRow(r, x)
  BY DEF Lifecycle!NewRow, Lifecycle!Claimable, Lifecycle!Check, Lifecycle!CheckLease,
         Lifecycle!CheckError, Lifecycle!ResumedRow, Lifecycle!ClaimedRow,
         NewRow, Claimable, Check, CheckLease, CheckError, ResumedRow, ClaimedRow
<1>3. \A r, x : Lifecycle!FinishedRow(r, x) = FinishedRow(r, x)
  BY DEF Lifecycle!FinishedRow, Lifecycle!completeTask, Lifecycle!updateTaskState,
         Lifecycle!failTask, Lifecycle!NewStateOr,
         FinishedRow, completeTask, updateTaskState, failTask, NewStateOr
<1>4. \A tbl, t : Lifecycle!maybeResumeParent(tbl, t) = maybeResumeParent(tbl, t)
  BY DEF Lifecycle!maybeResumeParent, Lifecycle!WakesParent, Lifecycle!ResumedRow,
         maybeResumeParent, WakesParent, ResumedRow
<1>5. \A tbl, t, x : /\ Lifecycle!applyResult(tbl, t, x) = applyResult(tbl, t, x)
                     /\ Lifecycle!WithChildren(tbl, t, x) = WithChildren(tbl, t, x)
  BY <1>2, <1>3, <1>4 DEF Lifecycle!applyResult, Lifecycle!WithChildren, Lifecycle!Terminal,
                          applyResult, WithChildren, Terminal
<1> QED BY <1>1, <1>2, <1>3, <1>5

(* What is abstractly a step, in terms of the abstract workers.            *)
LEMMA MapClaim ==
  ASSUME NEW w \in Workers, NEW t \in Tasks, absPhase[w] = "idle", Claimable(tasks[t]),
         tasks' = [tasks EXCEPT ![t] = ClaimedRow(tasks[t], w)], result' = result,
         \/ UNCHANGED absVars
         \/ /\ absPhase' = [absPhase EXCEPT ![w] = "assigned"]
            /\ absJob' = [absJob EXCEPT ![w] = t]
            /\ absInput' = [absInput EXCEPT ![w] = tasks[t].state]
  PROVE  Lifecycle!Next
<1>1. Lifecycle!Claim(w, t) \/ Lifecycle!ClaimLost(w, t)
  BY SameTable DEF absVars, absPhase, absJob, absInput, Lifecycle!Claim, Lifecycle!ClaimLost,
                   Lifecycle!workerVars, Lifecycle!cancelVars
<1> QED BY <1>1 DEF Lifecycle!Next, Lifecycle!Worker

(* A call that ends, with or without a commit, ends in TaskLifecycle too.  *)
LEMMA MapEnd ==
  ASSUME NEW w \in Workers,
         absPhase' = [absPhase EXCEPT ![w] = "idle"],
         absJob' = [absJob EXCEPT ![w] = NULL],
         absInput' = [absInput EXCEPT ![w] = NULL],
         result' = [result EXCEPT ![w] = NoResult],
         \/ absPhase[w] \in {"assigned", "returned"} /\ tasks' = tasks
         \/ /\ absPhase[w] = "returned" /\ result[w].status # "invalid"
            /\ Check(FinishedRow(tasks[absJob[w]], result[w]))
            /\ tasks' = applyResult(WithChildren(tasks, absJob[w], result[w].kids),
                                    absJob[w], result[w])
  PROVE  Lifecycle!Next
<1>1. Lifecycle!Release(w)
  BY SameTable DEF absPhase, absJob, absInput, Lifecycle!Release, Lifecycle!cancelVars
<1>2. Lifecycle!Commit(w) \/ Lifecycle!Abandon(w)
  BY <1>1, SameTable DEF absPhase, absJob, absInput, Lifecycle!Commit, Lifecycle!Abandon,
                         Lifecycle!Busy
<1> QED BY <1>2 DEF Lifecycle!Next, Lifecycle!Worker

(* A handler's return maps to one in TaskLifecycle.                        *)
LEMMA MapHandle ==
  ASSUME NEW w \in Workers, NEW r \in Returns, r \in Result, absPhase[w] = "assigned",
         r.kids \subseteq Free,
         absPhase' = [absPhase EXCEPT ![w] = "returned"],
         result' = [result EXCEPT ![w] = r],
         UNCHANGED <<tasks, absJob, absInput>>
  PROVE  Lifecycle!Next
<1>1. Cardinality(r.kids) <= MaxKids
  BY DEF Returns
<1>2. Lifecycle!Cardinality(r.kids) = Cardinality(r.kids)
  BY DEF Cardinality, Lifecycle!Cardinality
<1>3. Lifecycle!Handle(w, r)
  BY <1>1, <1>2, SameTable DEF absPhase, absJob, absInput, Lifecycle!Handle, Lifecycle!cancelVars
<1> QED BY <1>3, SameTable DEF Lifecycle!Next, Lifecycle!Worker

(* A statement of a caller, a heartbeat or time on one row maps to itself. *)
LEMMA MapTable ==
  ASSUME UNCHANGED <<absVars, result>>, NEW t \in Tasks,
         \/ \E st \in States : t \in Free /\ tasks' = [tasks EXCEPT ![t] = NewRow(st, NULL)]
         \/ /\ tasks[t].status = "waiting"
            /\ tasks' = [tasks EXCEPT ![t] = ResumedRow(tasks[t])]
         \/ \E w \in Workers :
              /\ absPhase[w] = "assigned" /\ absJob[w] = t
              /\ tasks[t].status = "running" /\ tasks[t].worker_id = w
              /\ tasks' = [tasks EXCEPT ![t].lease = "live"]
         \/ /\ tasks[t].lease = "live"
            /\ HeartbeatsKeepUp => ~\E w \in Workers : /\ absPhase[w] \in {"assigned", "returned"}
                                                       /\ absJob[w] = t
                                                       /\ tasks[t].worker_id = w
            /\ tasks' = [tasks EXCEPT ![t].lease = "expired"]
  PROVE  Lifecycle!Next
<1> USE SameTable DEF absVars, absPhase, absJob, absInput, Lifecycle!workerVars,
                      Lifecycle!cancelVars
<1>1. ASSUME NEW st \in States, t \in Free, tasks' = [tasks EXCEPT ![t] = NewRow(st, NULL)]
      PROVE  Lifecycle!Next
  BY <1>1 DEF Lifecycle!Create, Lifecycle!Api, Lifecycle!Next
<1>2. ASSUME tasks[t].status = "waiting", tasks' = [tasks EXCEPT ![t] = ResumedRow(tasks[t])]
      PROVE  Lifecycle!Next
  BY <1>2 DEF Lifecycle!Resume, Lifecycle!Api, Lifecycle!Next
<1>3. ASSUME NEW w \in Workers, absPhase[w] = "assigned", absJob[w] = t,
             tasks[t].status = "running", tasks[t].worker_id = w,
             tasks' = [tasks EXCEPT ![t].lease = "live"]
      PROVE  Lifecycle!Next
  BY <1>3 DEF Lifecycle!renewLease, Lifecycle!Worker, Lifecycle!Next
<1>4. ASSUME tasks[t].lease = "live",
             HeartbeatsKeepUp => ~\E w \in Workers : /\ absPhase[w] \in {"assigned", "returned"}
                                                     /\ absJob[w] = t
                                                     /\ tasks[t].worker_id = w,
             tasks' = [tasks EXCEPT ![t].lease = "expired"]
      PROVE  Lifecycle!Next
  BY <1>4 DEF Lifecycle!LeaseExpires, Lifecycle!Owned, Lifecycle!Busy, Lifecycle!Fault,
              Lifecycle!Next
<1> QED BY <1>1, <1>2, <1>3, <1>4

(* The end of a process maps to the death of its workers.                  *)
LEMMA MapDie ==
  ASSUME NEW W \in SUBSET Workers, W # {}, \A w \in W : absPhase[w] # "dead",
         absPhase' = [w \in Workers |-> IF w \in W THEN "dead" ELSE absPhase[w]],
         absJob' = [w \in Workers |-> IF w \in W THEN NULL ELSE absJob[w]],
         absInput' = [w \in Workers |-> IF w \in W THEN NULL ELSE absInput[w]],
         result' = [w \in Workers |-> IF w \in W THEN NoResult ELSE result[w]],
         tasks' = tasks
  PROVE  Lifecycle!Next
<1>1. Lifecycle!WorkersDie(W)
  BY SameTable DEF absPhase, absJob, absInput, Lifecycle!WorkersDie, Lifecycle!cancelVars
<1> QED BY <1>1 DEF Lifecycle!Next, Lifecycle!Fault

(* A worker that the scanner has a claim for is at its receive, or has     *)
(* left; only a worker that processes a task has an assignment of its own. *)
LEMMA MapFacts ==
  ASSUME CoreInv, PoolOK, NEW w \in Workers
  PROVE  /\ Home[w] \in Servers /\ w # NULL
         /\ Promised(w) => goroutine[w] \in {"waiting", "stopped"} /\ ctx[Home[w]] # "dead"
         /\ goroutine[w] \notin {"handling", "returned"} =>
              assignment[w] = NoAssignment /\ result[w] = NoResult
         /\ goroutine[w] \in {"handling", "returned"} =>
              /\ ctx[Home[w]] # "dead" /\ ~Promised(w)
              /\ PhaseOf(w) = (IF goroutine[w] = "handling" THEN "assigned" ELSE "returned")
              /\ AssignmentOf(w) = assignment[w]
<1>1. Home[w] \in Servers /\ w # NULL
  BY DispatchAssumption, TableAssumption
<1>2. Promised(w) => goroutine[w] \in {"waiting", "stopped"} /\ ctx[Home[w]] # "dead"
  BY <1>1 DEF Promised, PoolOK, Offered, InHand, CoreInv, ProcessOK
<1>3. goroutine[w] \notin {"handling", "returned"} =>
        assignment[w] = NoAssignment /\ result[w] = NoResult
  <2> SUFFICES ASSUME goroutine[w] \notin {"handling", "returned"}
               PROVE  assignment[w] = NoAssignment /\ result[w] = NoResult
    OBVIOUS
  <2>1. Job(w) = NULL /\ result[w] = NoResult
    BY DEF CoreInv, CallsOK
  <2>2. assignment[w] \in Assignment \cup {NoAssignment}
    BY DEF CoreInv, TypeOK
  <2> QED BY <2>1, <2>2, TableAssumption DEF Job, Assignment
<1>4. ASSUME goroutine[w] \in {"handling", "returned"}
      PROVE  /\ ctx[Home[w]] # "dead" /\ ~Promised(w)
             /\ PhaseOf(w) = (IF goroutine[w] = "handling" THEN "assigned" ELSE "returned")
             /\ AssignmentOf(w) = assignment[w]
  <2>1. ctx[Home[w]] # "dead" /\ ~Promised(w)
    BY <1>2, <1>4 DEF CoreInv, ProcessOK
  <2>2. PhaseOf(w) = (IF goroutine[w] = "handling" THEN "assigned" ELSE "returned")
    BY <1>4, <2>1 DEF PhaseOf
  <2> QED BY <2>1, <2>2 DEF AssignmentOf
<1> QED BY <1>1, <1>2, <1>3, <1>4

(* One abstract worker changes, or none.                                   *)
LEMMA MapOne ==
  ASSUME NEW w \in Workers, NEW p, NEW a, PhaseOf(w)' = p, AssignmentOf(w)' = a,
         \A v \in Workers : v # w => PhaseOf(v)' = PhaseOf(v) /\ AssignmentOf(v)' = AssignmentOf(v)
  PROVE  /\ absPhase' = [absPhase EXCEPT ![w] = p]
         /\ absJob' = [absJob EXCEPT ![w] = a.task]
         /\ absInput' = [absInput EXCEPT ![w] = a.state]
BY DEF absPhase, absJob, absInput

(* What the mapping sees, if no worker changes its phase or assignment.    *)
LEMMA MapNone ==
  ASSUME \A v \in Workers : PhaseOf(v)' = PhaseOf(v) /\ AssignmentOf(v)' = AssignmentOf(v)
  PROVE  UNCHANGED absVars
BY DEF absPhase, absJob, absInput, absVars

(* A step that no abstract worker sees.                                    *)
LEMMA MapHidden ==
  ASSUME \A v \in Workers :
           /\ Promised(v)' <=> Promised(v)
           /\ Promised(v) => claimed'[Home[v]] = claimed[Home[v]]
           /\ assignment'[v] = assignment[v]
           /\ ctx'[Home[v]] = "dead" <=> ctx[Home[v]] = "dead"
           /\ goroutine'[v] = "handling" <=> goroutine[v] = "handling"
           /\ goroutine'[v] = "returned" <=> goroutine[v] = "returned"
  PROVE  /\ UNCHANGED absVars
         /\ UNCHANGED <<tasks, result>> => UNCHANGED Lifecycle!vars
<1>1. ASSUME NEW v \in Workers
      PROVE  PhaseOf(v)' = PhaseOf(v) /\ AssignmentOf(v)' = AssignmentOf(v)
  <2>1. AssignmentOf(v)' = AssignmentOf(v)
    BY DEF AssignmentOf
  <2>2. PhaseOf(v)' = PhaseOf(v)
    BY DEF PhaseOf
  <2> QED BY <2>1, <2>2
<1>2. UNCHANGED absVars
  BY <1>1, MapNone
<1> QED BY <1>2 DEF absVars, absPhase, absJob, absInput, Lifecycle!vars, Lifecycle!workerVars,
                    Lifecycle!cancelVars

(* The pool, the dispatch, the listener and the start of a process.        *)
LEMMA StepsHidden ==
  ASSUME CoreInv, PoolOK,
         \/ UNCHANGED vars
         \/ \E s \in Servers :
              \/ TakeWorker(s) \/ NothingToClaim(s) \/ AwaitEvents(s) \/ BackoffEnds(s)
              \/ BeginFails(s) \/ (\E t \in Tasks : Claim(s, t)) \/ ClaimFails(s)
              \/ Dispatch(s) \/ ScannerStops(s)
              \/ Listener(s) \/ ListenerFails(s) \/ SendAborted(s)
              \/ StartHandlers(s) \/ Shutdown(s)
         \/ \E w \in Workers : \/ Offer(w) \/ Return(w) \/ ReturnAborted(w) \/ WorkerStops(w)
                              \/ UpdateOwn(w) \/ ReachParent(w) \/ LockParent(w)
  PROVE  UNCHANGED Lifecycle!vars
<1> USE DEF scannerVars, workerVars, poolVars, listenVars, lockVars
<1>t. TypeOK /\ ScannerOK
  BY DEF CoreInv
<1>0. \A v \in Workers : Home[v] \in Servers
  BY DispatchAssumption
<1>1. CASE UNCHANGED vars
  BY <1>1, MapHidden DEF vars, Promised
<1>2. ASSUME NEW s \in Servers,
             \/ TakeWorker(s) \/ NothingToClaim(s) \/ AwaitEvents(s) \/ BackoffEnds(s)
             \/ BeginFails(s) \/ (\E t \in Tasks : Claim(s, t)) \/ ClaimFails(s)
             \/ ScannerStops(s)
      PROVE  UNCHANGED Lifecycle!vars
  <2>1. /\ scan[s] # "dispatch" /\ scan'[s] # "dispatch"
        /\ \A v \in Servers : v # s => /\ scan'[v] = scan[v] /\ held'[v] = held[v]
                                       /\ claimed'[v] = claimed[v]
        /\ UNCHANGED <<tasks, result, assignment, ctx, goroutine>>
    BY <1>t, <1>2 DEF TakeWorker, NothingToClaim, AwaitEvents, BackoffEnds, BeginFails, Claim,
                      ClaimFails, ScannerStops, ReturnHeld, TypeOK
  <2>2. \A v \in Workers : /\ Promised(v)' <=> Promised(v)
                           /\ Promised(v) => claimed'[Home[v]] = claimed[Home[v]]
    BY <1>0, <2>1 DEF Promised
  <2> QED BY <2>1, <2>2, MapHidden
<1>3. ASSUME NEW s \in Servers,
             \/ Listener(s) \/ ListenerFails(s) \/ SendAborted(s) \/ Shutdown(s)
      PROVE  UNCHANGED Lifecycle!vars
  <2>1. /\ \A v \in Servers : scan'[v] = "dispatch" <=> scan[v] = "dispatch"
        /\ UNCHANGED <<tasks, result, held, claimed, assignment, goroutine>>
    BY <1>t, <1>3 DEF Listener, Listen, WaitForNotification, SendEvent, ListenerFails,
                      SendAborted, Shutdown, TypeOK
  <2>2. \A v \in Servers : ctx'[v] = "dead" <=> ctx[v] = "dead"
    BY <1>t, <1>3 DEF Listener, Listen, WaitForNotification, SendEvent, ListenerFails,
                      SendAborted, Shutdown, TypeOK
  <2>3. \A v \in Workers : Promised(v)' <=> Promised(v)
    BY <1>0, <2>1 DEF Promised
  <2> QED BY <1>0, <2>1, <2>2, <2>3, MapHidden
<1>4. ASSUME NEW s \in Servers, StartHandlers(s) PROVE UNCHANGED Lifecycle!vars
  <2>1. /\ scan'[s] = "need" /\ ctx'[s] = "up" /\ ctx[s] = "off"
        /\ \A v \in Servers : v # s => scan'[v] = scan[v] /\ ctx'[v] = ctx[v]
        /\ UNCHANGED <<tasks, result, held, claimed, assignment>>
        /\ \A w \in Workers : goroutine'[w] = IF Home[w] = s THEN "offering" ELSE goroutine[w]
    BY <1>t, <1>4 DEF StartHandlers, TypeOK, Crew
  <2>2. scan[s] = "off" /\ \A w \in Workers : Home[w] = s => goroutine[w] = "off"
    BY <2>1 DEF CoreInv, ProcessOK
  <2>3. \A v \in Workers : Promised(v)' <=> Promised(v)
    BY <1>0, <2>1, <2>2 DEF Promised
  <2> QED BY <1>0, <2>1, <2>2, <2>3, MapHidden
<1>5. ASSUME NEW w \in Workers,
             \/ Offer(w) \/ Return(w) \/ ReturnAborted(w) \/ WorkerStops(w)
             \/ UpdateOwn(w) \/ ReachParent(w) \/ LockParent(w)
      PROVE  UNCHANGED Lifecycle!vars
  <2>1. /\ UNCHANGED <<tasks, result, ctx, scan, held, claimed, assignment>>
        /\ \A v \in Workers : \/ goroutine'[v] = goroutine[v]
                              \/ /\ goroutine[v] \in {"offering", "waiting"}
                                 /\ goroutine'[v] \in {"waiting", "stopped"}
    BY <1>t, <1>5 DEF Offer, Return, ReturnAborted, WorkerStops, UpdateOwn, ReachParent,
                      LockParent, Step, TypeOK
  <2>2. \A v \in Workers : Promised(v)' <=> Promised(v)
    BY <2>1 DEF Promised
  <2> QED BY <2>1, <2>2, MapHidden
<1>6. ASSUME NEW s \in Servers, Dispatch(s) PROVE UNCHANGED Lifecycle!vars
  <2>w. PICK w \in Workers : w = held[s]
    BY <1>t, <1>6 DEF Dispatch, ScannerOK, TypeOK
  <2>1. /\ w \in Workers /\ Home[w] = s /\ Promised(w) /\ ctx[s] # "dead"
        /\ scan[s] = "dispatch" /\ scan'[s] = "need" /\ goroutine[w] = "waiting"
        /\ goroutine'[w] = "handling" /\ assignment'[w] = claimed[s]
    BY <1>t, <1>6, <2>w DEF Dispatch, Promised, ScannerOK, TypeOK, Alive
  <2>2. /\ \A v \in Workers : v # w => /\ goroutine'[v] = goroutine[v]
                                       /\ assignment'[v] = assignment[v]
        /\ \A v \in Servers : v # s => /\ scan'[v] = scan[v] /\ held'[v] = held[v]
                                       /\ claimed'[v] = claimed[v]
        /\ UNCHANGED <<tasks, ctx, result>>
    BY <1>t, <1>6, <2>w DEF Dispatch, TypeOK
  <2>3. PhaseOf(w)' = PhaseOf(w)
    <3>1. PhaseOf(w) = "assigned"
      BY <2>1 DEF PhaseOf
    <3>2. PhaseOf(w)' = "assigned"
      BY <2>1, <2>2 DEF PhaseOf
    <3> QED BY <3>1, <3>2
  <2>4. AssignmentOf(w)' = AssignmentOf(w)
    <3>1. ~Promised(w)'
      BY <2>1 DEF Promised
    <3> QED BY <2>1, <3>1 DEF AssignmentOf
  <2>5. ASSUME NEW v \in Workers, v # w
        PROVE  PhaseOf(v)' = PhaseOf(v) /\ AssignmentOf(v)' = AssignmentOf(v)
    <3>1. /\ Promised(v)' <=> Promised(v)
          /\ Promised(v) => claimed'[Home[v]] = claimed[Home[v]]
      BY <1>0, <2>w, <2>1, <2>2, <2>5 DEF Promised
    <3>2. AssignmentOf(v)' = AssignmentOf(v)
      BY <2>2, <2>5, <3>1 DEF AssignmentOf
    <3>3. PhaseOf(v)' = PhaseOf(v)
      BY <2>2, <2>5, <3>1 DEF PhaseOf
    <3> QED BY <3>2, <3>3
  <2>6. UNCHANGED absVars
    BY <2>3, <2>4, <2>5, MapNone
  <2> QED BY <2>2, <2>6 DEF absVars, absPhase, absJob, absInput, Lifecycle!vars,
                            Lifecycle!workerVars, Lifecycle!cancelVars
<1> QED BY <1>1, <1>2, <1>3, <1>4, <1>5, <1>6

(* The scanner claims, and gives a claim up.                               *)
LEMMA StepsScan ==
  ASSUME CoreInv, LocksOK, PoolOK, NEW s \in Servers,
         \/ scanAndAssign(s) \/ ClaimLost(s)
         \/ DispatchInVain(s) \/ DispatchAborted(s)
  PROVE  Lifecycle!Next
<1>t. TypeOK /\ ScannerOK
  BY DEF CoreInv
<1>0. \A v \in Workers : Home[v] \in Servers
  BY DispatchAssumption
<1>1. scan[s] \in {"commit", "dispatch"}
  BY DEF scanAndAssign, ClaimLost, CommitClaim, DispatchInVain, DispatchAborted
<1>w. PICK w \in Workers : w = held[s]
  BY <1>1, <1>t DEF ScannerOK, TypeOK
<1>2. Home[w] = s /\ InHand(w)
  BY <1>1, <1>t, <1>w DEF ScannerOK, InHand
<1>3. goroutine[w] \in {"waiting", "stopped"} /\ assignment[w] = NoAssignment /\ result[w] = NoResult
  BY <1>2, MapFacts DEF PoolOK, Offered
<1>4. /\ UNCHANGED <<ctx, assignment, result>>
      /\ \A v \in Workers : v # w => goroutine'[v] = goroutine[v]
      /\ \A v \in Servers : v # s => /\ scan'[v] = scan[v] /\ held'[v] = held[v]
                                     /\ claimed'[v] = claimed[v]
      /\ scan'[s] # "dispatch" \/ held'[s] = w
  BY <1>t, <1>w DEF scanAndAssign, ClaimLost, CommitClaim, DispatchInVain, DispatchAborted,
              ReturnHeld, TypeOK, workerVars, listenVars
<1>5. ASSUME NEW v \in Workers, v # w
      PROVE  PhaseOf(v)' = PhaseOf(v) /\ AssignmentOf(v)' = AssignmentOf(v)
  <2>1. /\ Promised(v)' <=> Promised(v)
        /\ Promised(v) => claimed'[Home[v]] = claimed[Home[v]]
    BY <1>0, <1>w, <1>2, <1>4, <1>5 DEF Promised
  <2>2. AssignmentOf(v)' = AssignmentOf(v)
    BY <1>4, <2>1 DEF AssignmentOf
  <2>3. PhaseOf(v)' = PhaseOf(v)
    BY <1>4, <1>5, <2>1 DEF PhaseOf
  <2> QED BY <2>2, <2>3
<1>6. ASSUME scan[s] = "commit", ctx[s] = "up" PROVE absPhase[w] = "idle"
  BY <1>2, <1>3, <1>6 DEF absPhase, PhaseOf, Promised
<1>c. ASSUME scan[s] = "commit"
      PROVE  \E t \in Tasks : /\ t = claimed[s].task /\ Claimable(tasks[t])
                              /\ claimed[s] = [task |-> t, state |-> tasks[t].state]
  <2>1. claimed[s] \in Assignment
    BY <1>t, <1>c, TableAssumption DEF ScannerOK, TypeOK, NoAssignment
  <2>2. Claimable(tasks[claimed[s].task]) /\ claimed[s].state = tasks[claimed[s].task].state
    BY <1>c DEF LocksOK, ScanLock
  <2> QED BY <2>1, <2>2 DEF Assignment
<1>7. CASE scanAndAssign(s)
  <2>0. PICK t \in Tasks : /\ t = claimed[s].task /\ Claimable(tasks[t])
                           /\ claimed[s] = [task |-> t, state |-> tasks[t].state]
    BY <1>c, <1>7 DEF scanAndAssign, CommitClaim
  <2>1. /\ scan[s] = "commit" /\ ctx[s] = "up" /\ Claimable(tasks[t])
        /\ tasks' = [tasks EXCEPT ![t] = ClaimedRow(tasks[t], w)]
        /\ claimed'[s] = [task |-> t, state |-> tasks[t].state]
        /\ scan'[s] = "dispatch" /\ held'[s] = w
    BY <1>t, <1>w, <1>7, <2>0 DEF scanAndAssign, CommitClaim, TypeOK
  <2>2. Promised(w)'
    BY <1>w, <1>2, <2>1 DEF Promised
  <2>3. PhaseOf(w)' = "assigned"
    <3>1. ctx'[Home[w]] # "dead" /\ goroutine'[w] # "returned"
      BY <1>2, <1>3, <1>4, <1>7, <2>1 DEF scanAndAssign, CommitClaim, workerVars
    <3> QED BY <2>2, <3>1 DEF PhaseOf
  <2>4. AssignmentOf(w)' = [task |-> t, state |-> tasks[t].state]
    BY <1>2, <2>1, <2>2 DEF AssignmentOf
  <2>5. /\ absPhase' = [absPhase EXCEPT ![w] = "assigned"]
        /\ absJob' = [absJob EXCEPT ![w] = [task |-> t, state |-> tasks[t].state].task]
        /\ absInput' = [absInput EXCEPT ![w] = [task |-> t, state |-> tasks[t].state].state]
    BY <1>2, <1>5, <2>3, <2>4, MapOne
  <2> QED BY <1>2, <1>4, <1>6, <2>1, <2>5, MapClaim
<1>8. CASE ClaimLost(s)
  <2>0. PICK t \in Tasks : t = claimed[s].task /\ Claimable(tasks[t])
    BY <1>c, <1>8 DEF ClaimLost, CommitClaim
  <2>1. /\ scan[s] = "commit" /\ ctx[s] = "up" /\ Claimable(tasks[t])
        /\ tasks' = [tasks EXCEPT ![t] = ClaimedRow(tasks[t], w)]
        /\ scan'[s] = "backoff" /\ goroutine' = goroutine
    BY <1>t, <1>w, <1>8, <2>0 DEF ClaimLost, CommitClaim, TypeOK, workerVars
  <2>2. ~Promised(w) /\ ~Promised(w)'
    BY <1>w, <1>2, <2>1 DEF Promised
  <2>3. PhaseOf(w)' = PhaseOf(w) /\ AssignmentOf(w)' = AssignmentOf(w)
    BY <1>4, <2>1, <2>2 DEF PhaseOf, AssignmentOf
  <2>4. UNCHANGED absVars
    BY <1>5, <2>3, MapNone
  <2> QED BY <1>2, <1>4, <1>6, <2>1, <2>4, MapClaim
<1>9. CASE DispatchInVain(s) \/ DispatchAborted(s)
  <2>1. /\ scan[s] = "dispatch" /\ ctx[s] # "dead" /\ scan'[s] # "dispatch" /\ tasks' = tasks
        /\ goroutine'[w] \in {"waiting", "stopped", "offering"}
    BY <1>t, <1>w, <1>3, <1>9 DEF DispatchInVain, DispatchAborted, Alive, workerVars, TypeOK
  <2>2. Promised(w) /\ ~Promised(w)'
    BY <1>w, <1>2, <2>1 DEF Promised
  <2>3. absPhase[w] = "assigned"
    <3>1. ctx[Home[w]] # "dead" /\ goroutine[w] # "returned"
      BY <1>2, <1>3, <2>1
    <3> QED BY <2>2, <3>1 DEF absPhase, PhaseOf
  <2>4. PhaseOf(w)' = "idle"
    BY <1>2, <1>3, <1>4, <2>1, <2>2 DEF PhaseOf
  <2>5. AssignmentOf(w)' = NoAssignment
    BY <1>3, <1>4, <2>2 DEF AssignmentOf
  <2>6. /\ absPhase' = [absPhase EXCEPT ![w] = "idle"]
        /\ absJob' = [absJob EXCEPT ![w] = NoAssignment.task]
        /\ absInput' = [absInput EXCEPT ![w] = NoAssignment.state]
    BY <1>2, <1>5, <2>4, <2>5, MapOne
  <2>7. NoAssignment.task = NULL /\ NoAssignment.state = NULL
    BY DEF NoAssignment
  <2>8. result' = [result EXCEPT ![w] = NoResult]
    BY <1>2, <1>3, <1>4, <1>t DEF TypeOK
  <2> QED BY <1>2, <2>1, <2>3, <2>6, <2>7, <2>8, MapEnd
<1> QED BY <1>7, <1>8, <1>9

(* The steps of processTask.                                               *)
LEMMA StepsCalls ==
  ASSUME CoreInv, LocksOK, PoolOK, NEW w \in Workers,
         (\E r \in Returns : Handle(w, r)) \/ Commit(w) \/ Abandon(w) \/ renewLease(w)
  PROVE  Lifecycle!Next
<1> USE DEF scannerVars, workerVars, poolVars, listenVars, lockVars
<1>t. TypeOK
  BY DEF CoreInv
<1>1. goroutine[w] \in {"handling", "returned"}
  BY DEF Handle, Commit, Abandon, renewLease
<1>2. /\ ctx[Home[w]] # "dead" /\ ~Promised(w)
      /\ absPhase[w] = (IF goroutine[w] = "handling" THEN "assigned" ELSE "returned")
      /\ absJob[w] = Job(w)
      /\ AssignmentOf(w) = assignment[w]
  BY <1>1, MapFacts DEF absPhase, absJob, Job
<1>3. UNCHANGED <<ctx, scan, held, claimed>>
  BY DEF Handle, Commit, Abandon, Finish, renewLease
<1>4. \A v \in Workers : Promised(v)' <=> Promised(v)
  BY <1>3 DEF Promised
<1>5. ASSUME NEW v \in Workers, assignment'[v] = assignment[v]
      PROVE  AssignmentOf(v)' = AssignmentOf(v)
  BY <1>3, <1>4, <1>5 DEF AssignmentOf
<1>6. ASSUME NEW v \in Workers, goroutine'[v] = goroutine[v]
      PROVE  PhaseOf(v)' = PhaseOf(v)
  BY <1>3, <1>4, <1>6 DEF PhaseOf
<1>7. ASSUME NEW r \in Returns, Handle(w, r) PROVE Lifecycle!Next
  <2>1. /\ goroutine[w] = "handling" /\ goroutine'[w] = "returned"
        /\ \A v \in Workers : v # w => goroutine'[v] = goroutine[v]
        /\ result' = [result EXCEPT ![w] = r] /\ r.kids \subseteq Free
        /\ UNCHANGED <<tasks, assignment>>
    BY <1>t, <1>7 DEF Handle, TypeOK
  <2>2. PhaseOf(w)' = "returned"
    BY <1>2, <1>3, <1>4, <2>1 DEF PhaseOf
  <2>3. absPhase' = [absPhase EXCEPT ![w] = "returned"]
    BY <1>6, <2>1, <2>2 DEF absPhase
  <2>4. UNCHANGED <<absJob, absInput>>
    BY <1>5, <2>1 DEF absJob, absInput
  <2>5. r \in Result
    BY ReturnsAreResults
  <2> QED BY <1>2, <2>1, <2>3, <2>4, <2>5, MapHandle
<1>8. CASE Commit(w) \/ Abandon(w)
  <2>1. /\ goroutine'[w] = "offering" /\ assignment'[w] = NoAssignment
        /\ result' = [result EXCEPT ![w] = NoResult]
        /\ \A v \in Workers : v # w => /\ goroutine'[v] = goroutine[v]
                                       /\ assignment'[v] = assignment[v]
    BY <1>t, <1>8 DEF Commit, Abandon, Finish, TypeOK
  <2>2. PhaseOf(w)' = "idle"
    BY <1>2, <1>3, <1>4, <2>1 DEF PhaseOf
  <2>3. AssignmentOf(w)' = NoAssignment
    BY <1>2, <1>4, <2>1 DEF AssignmentOf
  <2>4. /\ absPhase' = [absPhase EXCEPT ![w] = "idle"]
        /\ absJob' = [absJob EXCEPT ![w] = NoAssignment.task]
        /\ absInput' = [absInput EXCEPT ![w] = NoAssignment.state]
    BY <1>5, <1>6, <2>1, <2>2, <2>3, MapOne
  <2>5. NoAssignment.task = NULL /\ NoAssignment.state = NULL
    BY DEF NoAssignment
  <2>6. \/ absPhase[w] \in {"assigned", "returned"} /\ tasks' = tasks
        \/ /\ absPhase[w] = "returned" /\ result[w].status # "invalid"
           /\ Check(FinishedRow(tasks[absJob[w]], result[w]))
           /\ tasks' = applyResult(WithChildren(tasks, absJob[w], result[w].kids),
                                   absJob[w], result[w])
    BY <1>1, <1>2, <1>8 DEF Commit, Abandon, LocksOK, TxLock, Applicable
  <2> QED BY <2>1, <2>4, <2>5, <2>6, MapEnd
<1>9. CASE renewLease(w)
  <2>1. /\ UNCHANGED <<goroutine, assignment, result>>
        /\ goroutine[w] = "handling"
        /\ tasks[Job(w)].status = "running" /\ tasks[Job(w)].worker_id = w
        /\ tasks' = [tasks EXCEPT ![Job(w)].lease = "live"]
    BY <1>9 DEF renewLease
  <2>2. UNCHANGED absVars
    BY <1>5, <1>6, <2>1, MapNone
  <2>3. Job(w) \in Tasks
    BY <1>1, <1>t, CallTypes DEF CoreInv, CallsOK
  <2> QED BY <1>2, <2>1, <2>2, <2>3, MapTable
<1> QED BY <1>7, <1>8, <1>9

(* Clients, time, and the end of a process.                                *)
LEMMA StepsOthers ==
  ASSUME CoreInv, PoolOK,
         \/ Client
         \/ \E t \in Tasks : LeaseExpires(t)
         \/ \E s \in Servers : Die(s)
  PROVE  Lifecycle!Next
<1> USE DEF scannerVars, workerVars, poolVars, listenVars, lockVars
<1>t. TypeOK /\ ProcessOK
  BY DEF CoreInv
<1>0. \A v \in Workers : Home[v] \in Servers
  BY DispatchAssumption
<1>1. ASSUME UNCHANGED <<ctx, scan, held, claimed, goroutine, assignment>>
      PROVE  UNCHANGED absVars
  <2>1. \A v \in Workers : Promised(v)' <=> Promised(v)
    BY <1>1 DEF Promised
  <2> QED BY <1>1, <2>1, MapHidden
<1>2. ASSUME NEW s \in Servers, NEW t \in Tasks, NEW st \in States, Create(s, t, st)
      PROVE  Lifecycle!Next
  BY <1>1, <1>2, MapTable DEF Create
<1>3. ASSUME NEW s \in Servers, NEW t \in Tasks, Resume(s, t) PROVE Lifecycle!Next
  BY <1>1, <1>3, MapTable DEF Resume
<1>4. ASSUME NEW t \in Tasks, LeaseExpires(t) PROVE Lifecycle!Next
  <2>1. UNCHANGED absVars /\ result' = result
    BY <1>1, <1>4 DEF LeaseExpires
  <2>2. ASSUME NEW w \in Workers, absJob[w] = t PROVE Holds(w, t)
    BY <2>2 DEF absJob, AssignmentOf, Promised, Holds, Job
  <2>3. HeartbeatsKeepUp => ~\E w \in Workers : /\ absPhase[w] \in {"assigned", "returned"}
                                                /\ absJob[w] = t
                                                /\ tasks[t].worker_id = w
    BY <1>4, <2>2 DEF LeaseExpires, Owned
  <2> QED BY <1>4, <2>1, <2>3, MapTable DEF LeaseExpires
<1>5. ASSUME NEW s \in Servers, Die(s) PROVE Lifecycle!Next
  <2>1. /\ ctx[s] # "dead" /\ ctx'[s] = "dead" /\ scan'[s] = "stopped"
        /\ \A v \in Servers : v # s => /\ ctx'[v] = ctx[v] /\ held'[v] = held[v]
                                       /\ claimed'[v] = claimed[v] /\ scan'[v] = scan[v]
        /\ tasks' = tasks
    BY <1>t, <1>5 DEF Die, TypeOK, Alive
  <2>2. /\ \A w \in Workers : Home[w] = s => assignment'[w] = NoAssignment
        /\ \A w \in Workers : Home[w] # s => /\ assignment'[w] = assignment[w]
                                             /\ goroutine'[w] = goroutine[w]
        /\ result' = [w \in Workers |-> IF w \in Crew(s) THEN NoResult ELSE result[w]]
    BY <1>t, <1>5 DEF Die, Crew
  <2>3. Crew(s) # {} /\ Crew(s) \in SUBSET Workers
    BY DispatchAssumption DEF Crew
  <2>4. \A w \in Crew(s) : absPhase[w] # "dead"
    BY <2>1 DEF Crew, absPhase, PhaseOf
  <2>5. ASSUME NEW w \in Workers, Home[w] = s
        PROVE  PhaseOf(w)' = "dead" /\ AssignmentOf(w)' = NoAssignment
    <3>1. ~Promised(w)'
      BY <2>1, <2>5 DEF Promised
    <3>2. AssignmentOf(w)' = NoAssignment
      BY <2>2, <2>5, <3>1 DEF AssignmentOf
    <3>3. ctx'[Home[w]] = "dead" /\ goroutine'[w] = "stopped"
      BY <1>5, <2>1, <2>5 DEF Die, Crew
    <3>4. PhaseOf(w)' = "dead"
      BY <3>1, <3>3 DEF PhaseOf
    <3> QED BY <3>2, <3>4
  <2>6. ASSUME NEW w \in Workers, Home[w] # s
        PROVE  PhaseOf(w)' = PhaseOf(w) /\ AssignmentOf(w)' = AssignmentOf(w)
    <3>1. Promised(w)' <=> Promised(w)
      BY <1>0, <2>1, <2>6 DEF Promised
    <3>2. AssignmentOf(w)' = AssignmentOf(w)
      BY <1>0, <2>1, <2>2, <2>6, <3>1 DEF AssignmentOf
    <3>3. PhaseOf(w)' = PhaseOf(w)
      BY <1>0, <2>1, <2>2, <2>6, <3>1 DEF PhaseOf
    <3> QED BY <3>2, <3>3
  <2>7. NoAssignment.task = NULL /\ NoAssignment.state = NULL
    BY DEF NoAssignment
  <2>8. /\ absPhase' = [w \in Workers |-> IF w \in Crew(s) THEN "dead" ELSE absPhase[w]]
        /\ absJob' = [w \in Workers |-> IF w \in Crew(s) THEN NULL ELSE absJob[w]]
        /\ absInput' = [w \in Workers |-> IF w \in Crew(s) THEN NULL ELSE absInput[w]]
    BY <2>5, <2>6, <2>7 DEF absPhase, absJob, absInput, Crew
  <2> QED BY <2>1, <2>2, <2>3, <2>4, <2>8, MapDie
<1> QED BY <1>2, <1>3, <1>4, <1>5 DEF Client

(* The goroutines implement the task life cycle: every step of the         *)
(* scanners, workers, listeners and clients of any number of processes,    *)
(* and every shutdown, failure and death, is a step of TaskLifecycle or    *)
(* changes nothing that it knows (notify.go, worker.go).  What is proved   *)
(* of the life cycle therefore holds of the dispatch.                      *)
THEOREM DispatchImplementsLifecycle == Spec => ImplementsLifecycle
<1>1. Init => Lifecycle!Init
  <2> SUFFICES ASSUME Init PROVE Lifecycle!Init
    OBVIOUS
  <2>1. \A w \in Workers : /\ Home[w] \in Servers /\ ~Promised(w) /\ PhaseOf(w) = "idle"
                           /\ AssignmentOf(w) = NoAssignment
    BY DispatchAssumption, TableAssumption DEF Init, Promised, PhaseOf, AssignmentOf
  <2>2. NoAssignment.task = NULL /\ NoAssignment.state = NULL
    BY DEF NoAssignment
  <2> QED BY <2>1, <2>2, SameTable DEF Init, EmptyTable, AbsentRow, Lifecycle!Init,
                                     Lifecycle!EmptyTable, Lifecycle!AbsentRow
<1>2. CoreInv /\ LocksOK /\ PoolOK /\ [Next]_vars => [Lifecycle!Next]_(Lifecycle!vars)
  BY StepsHidden, StepsScan, StepsCalls, StepsOthers
     DEF Next, Scanner, Worker, Unwind, Environment
<1> QED BY <1>1, <1>2, CoreAlways, PoolAlways, PTL DEF Spec, ImplementsLifecycle, Lifecycle!Spec

------------------------------------------------------------------------------
(* What is proved of TaskLifecycle, of the dispatch.                       *)

LifecycleFacts == INSTANCE TaskLifecycleProofs WITH
  phase <- [w \in Workers |-> PhaseOf(w)],
  job <- [w \in Workers |-> AssignmentOf(w).task],
  input <- [w \in Workers |-> AssignmentOf(w).state],
  open <- {}, todo <- [t \in Tasks |-> {}],
  JoinHandlers <- FALSE, Cancellable <- {}, MaxKids <- MaxKids

(* The two instances of the life cycle are one specification.              *)
LEMMA SameLifecycle ==
  /\ Lifecycle!Init <=> LifecycleFacts!Init
  /\ Lifecycle!Next <=> LifecycleFacts!Next
<1>1. Lifecycle!Init <=> LifecycleFacts!Init
  BY DEF Lifecycle!Init, Lifecycle!EmptyTable, Lifecycle!AbsentRow, Lifecycle!NoResult,
         LifecycleFacts!Init, LifecycleFacts!EmptyTable, LifecycleFacts!AbsentRow,
         LifecycleFacts!NoResult
<1>2. Lifecycle!Next <=> LifecycleFacts!Next
  BY DEF Lifecycle!Innermost, LifecycleFacts!Innermost, Lifecycle!Enter,
         LifecycleFacts!Enter, Lifecycle!Children, LifecycleFacts!Children,
         Lifecycle!Unfinished, LifecycleFacts!Unfinished, Lifecycle!Exists,
         LifecycleFacts!Exists, Lifecycle!Terminal, LifecycleFacts!Terminal,
         Lifecycle!NewRow, LifecycleFacts!NewRow, Lifecycle!ResumedRow,
         LifecycleFacts!ResumedRow, Lifecycle!ResumedWithStateRow,
         LifecycleFacts!ResumedWithStateRow, Lifecycle!CancelledRow,
         LifecycleFacts!CancelledRow, Lifecycle!Claimable, LifecycleFacts!Claimable,
         Lifecycle!ClaimedRow, LifecycleFacts!ClaimedRow, Lifecycle!Check,
         LifecycleFacts!Check, Lifecycle!CheckLease, LifecycleFacts!CheckLease,
         Lifecycle!CheckError, LifecycleFacts!CheckError, Lifecycle!NewStateOr,
         LifecycleFacts!NewStateOr, Lifecycle!updateTaskState,
         LifecycleFacts!updateTaskState, Lifecycle!completeTask,
         LifecycleFacts!completeTask, Lifecycle!failTask, LifecycleFacts!failTask,
         Lifecycle!FinishedRow, LifecycleFacts!FinishedRow, Lifecycle!WakesParent,
         LifecycleFacts!WakesParent, Lifecycle!maybeResumeParent,
         LifecycleFacts!maybeResumeParent, Lifecycle!applyResult,
         LifecycleFacts!applyResult, Lifecycle!WithChildren, LifecycleFacts!WithChildren,
         Lifecycle!Result, LifecycleFacts!Result, Lifecycle!NoResult,
         LifecycleFacts!NoResult, Lifecycle!Busy, LifecycleFacts!Busy, Lifecycle!Free,
         LifecycleFacts!Free, Lifecycle!workerVars, LifecycleFacts!workerVars,
         Lifecycle!cancelVars, LifecycleFacts!cancelVars, Lifecycle!Create,
         LifecycleFacts!Create, Lifecycle!CreateChild, LifecycleFacts!CreateChild,
         Lifecycle!Resume, LifecycleFacts!Resume, Lifecycle!ResumeWithState,
         LifecycleFacts!ResumeWithState, Lifecycle!CancelBegin, LifecycleFacts!CancelBegin,
         Lifecycle!CancelVisit, LifecycleFacts!CancelVisit, Lifecycle!CancelRow,
         LifecycleFacts!CancelRow, Lifecycle!CancelAbort, LifecycleFacts!CancelAbort,
         Lifecycle!Claim, LifecycleFacts!Claim, Lifecycle!ClaimLost,
         LifecycleFacts!ClaimLost, Lifecycle!renewLease, LifecycleFacts!renewLease,
         Lifecycle!Handle, LifecycleFacts!Handle, Lifecycle!Release,
         LifecycleFacts!Release, Lifecycle!Commit, LifecycleFacts!Commit,
         Lifecycle!Abandon, LifecycleFacts!Abandon, Lifecycle!Owned, LifecycleFacts!Owned,
         Lifecycle!LeaseExpires, LifecycleFacts!LeaseExpires, Lifecycle!WorkersDie,
         LifecycleFacts!WorkersDie, Lifecycle!Api, LifecycleFacts!Api, Lifecycle!Worker,
         LifecycleFacts!Worker, Lifecycle!Fault, LifecycleFacts!Fault, Lifecycle!Next,
         LifecycleFacts!Next, Lifecycle!Cardinality, LifecycleFacts!Cardinality
<1> QED BY <1>1, <1>2

(* A task is in the hands of one worker at most, from the moment a claim   *)
(* commits until its handler's transaction ends.                           *)
OneHolder == \A t \in Tasks, v, w \in Workers : Holds(v, t) /\ Holds(w, t) => v = w

(* As long as heartbeats keep up, no task is dispatched to two workers, of *)
(* one process or of two (notify.go, scanAndAssign; worker.go).            *)
THEOREM DispatchMutualExclusion ==
  ASSUME HeartbeatsKeepUp
  PROVE  Spec => []OneHolder
<1>1. LifecycleFacts!Spec => []LifecycleFacts!OneWorkerPerTask
  BY TableAssumption, DispatchAssumption, LifecycleFacts!MutualExclusion
<1>2. CoreInv /\ PoolOK /\ LifecycleFacts!OneWorkerPerTask => OneHolder
  <2> SUFFICES ASSUME CoreInv, PoolOK, LifecycleFacts!OneWorkerPerTask, NEW t \in Tasks,
                      NEW v \in Workers, NEW w \in Workers, Holds(v, t), Holds(w, t)
               PROVE  v = w
    BY DEF OneHolder
  <2>1. ASSUME NEW u \in Workers, Holds(u, t)
        PROVE  absPhase[u] \in {"assigned", "returned"} /\ absJob[u] = t
    <3>0. t # NULL /\ Home[u] \in Servers
      BY TableAssumption, DispatchAssumption
    <3>1. CASE Job(u) = t
      <4>1. goroutine[u] \in {"handling", "returned"}
        BY <3>0, <3>1 DEF CoreInv, CallsOK
      <4>2. /\ PhaseOf(u) = (IF goroutine[u] = "handling" THEN "assigned" ELSE "returned")
            /\ AssignmentOf(u) = assignment[u]
        BY <4>1, MapFacts
      <4> QED BY <3>1, <4>2 DEF absPhase, absJob, Job
    <3>2. CASE Promised(u) /\ claimed[Home[u]].task = t
      <4>1. Promised(u)
        BY <3>2
      <4>2. ctx[Home[u]] # "dead" /\ goroutine[u] # "returned"
        BY <4>1, MapFacts
      <4>3. PhaseOf(u) = "assigned" /\ AssignmentOf(u) = claimed[Home[u]]
        BY <4>1, <4>2 DEF PhaseOf, AssignmentOf
      <4> QED BY <3>2, <4>3 DEF absPhase, absJob
    <3> QED BY <2>1, <3>1, <3>2 DEF Holds
  <2>2. /\ absPhase[v] \in {"assigned", "returned"} /\ absJob[v] = t
        /\ absPhase[w] \in {"assigned", "returned"} /\ absJob[w] = t
    BY <2>1
  <2> QED BY <2>2 DEF LifecycleFacts!OneWorkerPerTask, LifecycleFacts!Busy, absPhase, absJob
<1>3. Spec => LifecycleFacts!Spec
  <2>1. Spec => Lifecycle!Spec
    BY DispatchImplementsLifecycle DEF ImplementsLifecycle
  <2>2. Lifecycle!Init => LifecycleFacts!Init
    BY SameLifecycle
  <2>3. [Lifecycle!Next]_(Lifecycle!vars) => [LifecycleFacts!Next]_(LifecycleFacts!vars)
    BY SameLifecycle
       DEF Lifecycle!vars, Lifecycle!workerVars, Lifecycle!cancelVars,
           LifecycleFacts!vars, LifecycleFacts!workerVars, LifecycleFacts!cancelVars
  <2> QED BY <2>1, <2>2, <2>3, PTL DEF Lifecycle!Spec, LifecycleFacts!Spec
<1> QED BY <1>1, <1>2, <1>3, CoreAlways, PoolAlways, PTL
=============================================================================

------------------------- MODULE DvdIngestionProofs --------------------------
(***************************************************************************)
(* Proofs about DvdIngestion, for every set of tasks, workers, discs and   *)
(* inbox directories, whether or not workers crash, transactions fail and  *)
(* leases are lost.  The task side of every step is one of TaskLifecycle,  *)
(* so that its invariant ConsInv is there to build on.                     *)
(***************************************************************************)
EXTENDS DvdIngestion, TaskLifecycleProofs

(* A media has the path of an inbox directory or its own final path, and   *)
(* so has what a call of Handle has read, as long as the call is under way.*)
OwnPaths ==
  /\ \A t \in Tasks : path[t] \in Names \cup {MediaName(t), NULL}
  /\ \A w \in Workers : step[w] # "start" =>
       phase[w] = "assigned" /\ seen[w] \in Names \cup {MediaName(job[w])}

(* A call of Handle that has renamed, or has returned "completed", has its *)
(* disc in place.                                                          *)
MovedBefore ==
  \A w \in Workers : step[w] = "renamed" \/ result[w].status = "completed" =>
    dirs[MediaDvdId(job[w])] # NULL

IngestInv ==
  ConsInv /\ IngestTypeOK /\ OwnPaths /\ MovedBefore /\ DoneIsMoved

------------------------------------------------------------------------------
(* Paths.                                                                  *)

(* The directories of two media differ, and from those that clients name.  *)
LEMMA DirsDiffer ==
  ASSUME NEW t \in Tasks
  PROVE  /\ MediaDvdId(t) \in MediaDirs /\ MediaDvdId(t) \notin Inbox
         /\ MediaDvdId(t) # Nowhere
         /\ \A u \in Tasks : MediaDvdId(u) = MediaDvdId(t) => u = t
         /\ \A u \in Tasks : MediaName(u) = MediaName(t) => u = t
         /\ MediaName(t) \notin Names
<1>1. MediaDvdId(t) \in MediaDirs /\ MediaDvdId(t) \notin Inbox
  BY PathsAssumption DEF MediaDirs
<1>2. MediaDvdId(t) # Nowhere
  BY DEF MediaDvdId, Nowhere
<1>3. \A u \in Tasks : MediaDvdId(u) = MediaDvdId(t) => u = t
  BY DEF MediaDvdId
<1>4. \A u \in Tasks : MediaName(u) = MediaName(t) => u = t
  BY <1>3 DEF MediaName
<1>5. MediaName(t) \notin Names
  BY <1>1 DEF MediaName, Names
<1> QED BY <1>1, <1>2, <1>3, <1>4, <1>5

(* What a rename moves is no other media's disc.                           *)
LEMMA RenameSource ==
  ASSUME IngestInv, NEW w \in Workers, Rename(w)
  PROVE  /\ job[w] \in Tasks
         /\ Absolute(seen[w]) \in Inbox \cup {Nowhere}
         /\ dirs[Absolute(seen[w])] # NULL /\ dirs[MediaDvdId(job[w])] = NULL
         /\ \A d \in DOMAIN dirs :
              dirs'[d] = IF d = MediaDvdId(job[w]) THEN dirs[Absolute(seen[w])]
                         ELSE IF d = Absolute(seen[w]) THEN NULL ELSE dirs[d]
<1>1. /\ step[w] = "selected" /\ phase[w] = "assigned"
      /\ CanRename(Absolute(seen[w]), MediaDvdId(job[w]))
      /\ dirs' = [dirs EXCEPT ![Absolute(seen[w])] = NULL,
                              ![MediaDvdId(job[w])] = dirs[Absolute(seen[w])]]
  BY DEF Rename
<1>2. job[w] \in Tasks
  BY <1>1 DEF IngestInv, ConsInv, TypeOK, Busy
<1>3. seen[w] \in Names \cup {MediaName(job[w])}
  BY <1>1 DEF IngestInv, OwnPaths
<1>4. seen[w] # MediaName(job[w])
  BY <1>1 DEF CanRename, Absolute, MediaName
<1>5. Absolute(seen[w]) \in Inbox \cup {Nowhere}
  BY <1>3, <1>4 DEF Absolute, Names
<1>6. DOMAIN dirs = Inbox \cup MediaDirs \cup {Nowhere}
  BY DEF IngestInv, IngestTypeOK
<1> QED BY <1>1, <1>2, <1>5, <1>6, DirsDiffer DEF CanRename

------------------------------------------------------------------------------
(* The task side.                                                          *)

(* What a handler of this module returns.                                  *)
LEMMA ReturnsHandles ==
  ASSUME NEW w \in Workers, NEW s, Returns(w, s)
  PROVE  \E r \in Result : r.status = s /\ r.kids = {} /\ Handle(w, r)
<1> DEFINE r == [status |-> s, state |-> NULL, kids |-> {}]
<1>1. Handle(w, r) /\ r \in Result
  BY DEF Returns, Handle
<1> QED BY <1>1

(* Every step of the ingestion is one of TaskLifecycle, or leaves it alone. *)
LEMMA IngestStepIsTaskStep == [IngestNext]_allVars => [Next]_vars
<1> SUFFICES ASSUME [IngestNext]_allVars PROVE [Next]_vars
  OBVIOUS
<1>1. CASE UNCHANGED allVars
  BY <1>1 DEF allVars
<1>2. CASE Service
  <2>1. ASSUME NEW t \in Tasks, Create(t, EmptyState) PROVE Next
    BY <2>1, TableAssumption DEF Next, Api
  <2> QED BY <1>2, <2>1 DEF Service, Rip, PostMedia, PatchMedia, DeleteMedia
<1>3. CASE Handler
  <2> SUFFICES ASSUME NEW w \in Workers,
                      \/ SelectPath(w) \/ SelectFails(w) \/ Rename(w) \/ RenameFails(w)
                      \/ UpdatePath(w) \/ CommitIngestion(w) \/ RollBack(w)
               PROVE  [Next]_vars
    BY <1>3 DEF Handler
  <2>1. ASSUME NEW s, Returns(w, s) PROVE Next
    BY <2>1, ReturnsHandles DEF Next, Worker
  <2>2. CASE SelectPath(w) \/ Rename(w)
    BY <2>2 DEF SelectPath, Rename
  <2>3. CASE SelectFails(w) \/ RenameFails(w) \/ UpdatePath(w)
    BY <2>1, <2>3 DEF SelectFails, RenameFails, UpdatePath
  <2>4. CASE CommitIngestion(w) \/ RollBack(w)
    BY <2>4 DEF CommitIngestion, RollBack, Next, Worker
  <2> QED BY <2>2, <2>3, <2>4
<1>4. CASE TaskSystem
  BY <1>4 DEF TaskSystem, Next, Worker, Fault
<1> QED BY <1>1, <1>2, <1>3, <1>4 DEF IngestNext

(* A step of the task system alone, by one worker or none.  It gives a     *)
(* task only to an idle worker and completes none.                         *)
LEMMA TaskSystemStep ==
  ASSUME ConsInv, TaskSystem
  PROVE  /\ UNCHANGED <<path, dirs, step, seen, result>>
         /\ \A w \in Workers : phase[w] # "idle" => phase'[w] = phase[w] /\ job'[w] = job[w]
         /\ \A w \in Workers : phase[w] = "idle" => phase'[w] \in {"idle", "assigned"}
         /\ \A t \in Tasks : tasks'[t].status = "completed" => tasks[t].status = "completed"
<1>t. tasks \in [Tasks -> Row] /\ TypeOK
  BY DEF ConsInv, TypeOK
<1>0. UNCHANGED <<path, dirs, step, seen>>
  BY DEF TaskSystem, handlerVars
<1>1. ASSUME NEW w \in Workers, NEW t \in Tasks, Claim(w, t) \/ ClaimLost(w, t)
      PROVE  /\ UNCHANGED result
             /\ \A v \in Workers : phase[v] # "idle" => phase'[v] = phase[v] /\ job'[v] = job[v]
             /\ \A v \in Workers : phase[v] = "idle" => phase'[v] \in {"idle", "assigned"}
             /\ \A u \in Tasks : tasks'[u].status = "completed" => tasks[u].status = "completed"
  <2>1. /\ phase[w] = "idle" /\ UNCHANGED result
        /\ tasks' = [tasks EXCEPT ![t] = ClaimedRow(tasks[t], w)]
        /\ \/ phase' = [phase EXCEPT ![w] = "assigned"] /\ job' = [job EXCEPT ![w] = t]
           \/ UNCHANGED <<phase, job>>
    BY <1>1 DEF Claim, ClaimLost, workerVars
  <2>2. ClaimedRow(tasks[t], w).status = "running"
    BY <1>t DEF ClaimedRow, Row
  <2> QED BY <1>t, <2>1, <2>2 DEF TypeOK
<1>2. ASSUME NEW t \in Tasks, NEW l,
             tasks' = [tasks EXCEPT ![t].lease = l], UNCHANGED workerVars
      PROVE  /\ UNCHANGED <<phase, job, result>>
             /\ \A u \in Tasks : tasks'[u].status = "completed" => tasks[u].status = "completed"
  BY <1>t, <1>2 DEF workerVars, Row
<1>3. ASSUME NEW w \in Workers, renewLease(w)
      PROVE  job[w] \in Tasks /\ UNCHANGED workerVars
             /\ tasks' = [tasks EXCEPT ![job[w]].lease = "live"]
  BY <1>3, <1>t DEF renewLease, TypeOK, Busy
<1>4. ASSUME NEW t \in Tasks, LeaseExpires(t)
      PROVE  UNCHANGED workerVars /\ tasks' = [tasks EXCEPT ![t].lease = "expired"]
  BY <1>4 DEF LeaseExpires
<1>5. CASE \E w \in Workers : renewLease(w)
  BY <1>0, <1>2, <1>3, <1>5
<1>6. CASE \E t \in Tasks : LeaseExpires(t)
  BY <1>0, <1>2, <1>4, <1>6
<1>7. CASE \E w \in Workers, t \in Tasks : Claim(w, t) \/ ClaimLost(w, t)
  BY <1>0, <1>1, <1>7
<1> QED BY <1>5, <1>6, <1>7 DEF TaskSystem

------------------------------------------------------------------------------
(* The invariant.                                                          *)

(* A disc that has arrived in its final place is never moved away.         *)
LEMMA ArrivedStays ==
  ASSUME IngestInv, [IngestNext]_allVars, NEW t \in Tasks, dirs[MediaDvdId(t)] # NULL
  PROVE  dirs'[MediaDvdId(t)] # NULL
<1>0. /\ DOMAIN dirs = Inbox \cup MediaDirs \cup {Nowhere} /\ MediaDvdId(t) \in DOMAIN dirs
      /\ dirs \in [DOMAIN dirs -> Discs \cup {NULL}]
  BY DirsDiffer DEF IngestInv, IngestTypeOK
<1>1. CASE \E w \in Workers : Rename(w)
  BY <1>0, <1>1, RenameSource, DirsDiffer
<1>2. CASE \E d \in Inbox, disc \in Discs : Rip(d, disc)
  BY <1>0, <1>2, DirsDiffer DEF Rip
<1>3. CASE UNCHANGED dirs
  BY <1>3
<1> QED BY <1>1, <1>2, <1>3
        DEF IngestNext, Service, Handler, TaskSystem, allVars, PostMedia, PatchMedia, DeleteMedia,
            SelectPath, SelectFails, RenameFails, UpdatePath, CommitIngestion, RollBack

(* The paths that the service writes.                                      *)
LEMMA ServiceWritesPath ==
  ASSUME IngestInv, NEW t \in Tasks, NEW n \in Names \cup {NULL},
         path' = [path EXCEPT ![t] = n]
  PROVE  /\ path' \in [Tasks -> Names \cup {MediaName(u) : u \in Tasks} \cup {NULL}]
         /\ \A u \in Tasks : path'[u] \in Names \cup {MediaName(u), NULL}
<1>1. /\ path \in [Tasks -> Names \cup {MediaName(u) : u \in Tasks} \cup {NULL}]
      /\ \A u \in Tasks : path[u] \in Names \cup {MediaName(u), NULL}
  BY DEF IngestInv, IngestTypeOK, OwnPaths
<1>2. /\ path' \in [Tasks -> Names \cup {MediaName(u) : u \in Tasks} \cup {NULL}]
      /\ path'[t] = n /\ \A u \in Tasks : u # t => path'[u] = path[u]
  BY <1>1
<1> QED BY <1>1, <1>2

(* Requests of users and clients.                                          *)
LEMMA ServiceKeepsInv ==
  ASSUME IngestInv, ConsInv', [IngestNext]_allVars, Service
  PROVE  IngestInv'
<1>t. TypeOK /\ TypeOK' /\ tasks \in [Tasks -> Row]
  BY DEF IngestInv, ConsInv, TypeOK
<1>a. \A t \in Tasks : dirs[MediaDvdId(t)] # NULL => dirs'[MediaDvdId(t)] # NULL
  BY ArrivedStays
<1>b. ASSUME NEW w \in Workers, step[w] = "renamed" \/ result[w].status = "completed"
      PROVE  job[w] \in Tasks
  BY <1>b, <1>t DEF IngestInv, OwnPaths, TypeOK, Busy, NoResult
<1>1. ASSUME NEW d \in Inbox, NEW disc \in Discs, Rip(d, disc) PROVE IngestInv'
  <2>1. dirs' \in [Inbox \cup MediaDirs \cup {Nowhere} -> Discs \cup {NULL}]
    BY <1>1 DEF IngestInv, IngestTypeOK, Rip
  <2>2. UNCHANGED <<tasks, phase, job, result, path, step, seen>>
    BY <1>1 DEF Rip, vars, workerVars, handlerVars
  <2>3. IngestTypeOK' /\ OwnPaths'
    BY <1>t, <2>1, <2>2 DEF IngestInv, IngestTypeOK, OwnPaths
  <2>4. MovedBefore' /\ DoneIsMoved'
    BY <1>a, <1>b, <2>2 DEF IngestInv, MovedBefore, DoneIsMoved
  <2> QED BY <2>3, <2>4 DEF IngestInv
<1>2. ASSUME NEW t \in Tasks, NEW n \in Names \cup {NULL}, path' = [path EXCEPT ![t] = n],
             UNCHANGED <<phase, job, result, dirs, step, seen>>,
             \A u \in Tasks : tasks'[u].status = "completed" => tasks[u].status = "completed"
      PROVE  IngestInv'
  <2>1. /\ path' \in [Tasks -> Names \cup {MediaName(u) : u \in Tasks} \cup {NULL}]
        /\ \A u \in Tasks : path'[u] \in Names \cup {MediaName(u), NULL}
    BY <1>2, ServiceWritesPath
  <2>2. IngestTypeOK' /\ OwnPaths'
    BY <1>t, <1>2, <2>1 DEF IngestInv, IngestTypeOK, OwnPaths
  <2>3. MovedBefore' /\ DoneIsMoved'
    BY <1>2 DEF IngestInv, MovedBefore, DoneIsMoved
  <2> QED BY <2>1, <2>2, <2>3 DEF IngestInv
<1>3. ASSUME NEW t \in Tasks, NEW n \in Clientside, PostMedia(t, n) PROVE IngestInv'
  <2>1. /\ n \in Names /\ path' = [path EXCEPT ![t] = n]
        /\ UNCHANGED <<phase, job, result, dirs, step, seen>>
        /\ tasks' = [tasks EXCEPT ![t] = NewRow(EmptyState, NULL)]
    BY <1>3 DEF PostMedia, Create, Clientside, workerVars, handlerVars
  <2>2. \A u \in Tasks : tasks'[u].status = "completed" => tasks[u].status = "completed"
    BY <1>t, <2>1 DEF NewRow
  <2> QED BY <1>2, <2>1, <2>2
<1>4. ASSUME NEW t \in Tasks, NEW n \in Clientside, PatchMedia(t, n) PROVE IngestInv'
  <2>1. /\ n \in Names /\ path' = [path EXCEPT ![t] = n]
        /\ UNCHANGED <<tasks, phase, job, result, dirs, step, seen>>
    BY <1>4 DEF PatchMedia, Clientside, vars, workerVars, handlerVars
  <2> QED BY <1>2, <2>1
<1>5. ASSUME NEW t \in Tasks, DeleteMedia(t) PROVE IngestInv'
  <2>1. /\ path' = [path EXCEPT ![t] = NULL]
        /\ UNCHANGED <<tasks, phase, job, result, dirs, step, seen>>
    BY <1>5 DEF DeleteMedia, vars, workerVars, handlerVars
  <2> QED BY <1>2, <2>1
<1> QED BY <1>1, <1>3, <1>4, <1>5 DEF Service

(* A call of Handle that returns: with "completed" only after the rename.  *)
LEMMA ReturnKeepsInv ==
  ASSUME IngestInv, ConsInv', NEW w \in Workers, NEW s, Returns(w, s), UNCHANGED <<path, dirs>>,
         s = "completed" => step[w] = "renamed"
  PROVE  IngestInv'
<1>t. TypeOK /\ TypeOK' /\ step \in [Workers -> {"start", "selected", "renamed"}]
      /\ seen \in [Workers -> Names \cup {MediaName(t) : t \in Tasks} \cup {NULL}]
  BY DEF IngestInv, ConsInv, TypeOK, IngestTypeOK
<1>1. /\ phase[w] = "assigned" /\ phase' = [phase EXCEPT ![w] = "returned"]
      /\ result' = [result EXCEPT ![w] = [status |-> s, state |-> NULL, kids |-> {}]]
      /\ step' = [step EXCEPT ![w] = "start"] /\ seen' = [seen EXCEPT ![w] = NULL]
      /\ UNCHANGED <<tasks, job>>
  BY DEF Returns, Handle
<1>2. /\ step' \in [Workers -> {"start", "selected", "renamed"}]
      /\ seen' \in [Workers -> Names \cup {MediaName(t) : t \in Tasks} \cup {NULL}]
      /\ step'[w] = "start" /\ result'[w].status = s
      /\ \A v \in Workers : v # w => /\ step'[v] = step[v] /\ seen'[v] = seen[v]
                                     /\ phase'[v] = phase[v] /\ result'[v] = result[v]
  BY <1>t, <1>1 DEF TypeOK
<1>3. IngestTypeOK'
  BY <1>t, <1>2 DEF IngestInv, IngestTypeOK
<1>4. OwnPaths'
  BY <1>1, <1>2 DEF IngestInv, OwnPaths
<1>5. MovedBefore' /\ DoneIsMoved'
  BY <1>1, <1>2 DEF IngestInv, MovedBefore, DoneIsMoved
<1> QED BY <1>3, <1>4, <1>5 DEF IngestInv

(* The commit of a call: it stores the final path of the media, and        *)
(* completes only what has been moved.                                     *)
LEMMA CommitIngestionKeepsInv ==
  ASSUME IngestInv, ConsInv', NEW w \in Workers, CommitIngestion(w)
  PROVE  IngestInv'
<1>t. /\ TypeOK /\ TypeOK' /\ ConsInv /\ tasks \in [Tasks -> Row]
      /\ path \in [Tasks -> Names \cup {MediaName(t) : t \in Tasks} \cup {NULL}]
  BY DEF IngestInv, ConsInv, TypeOK, IngestTypeOK
<1>1. Commit(w) /\ phase[w] = "returned" /\ UNCHANGED <<dirs, step, seen>>
  BY DEF CommitIngestion, handlerVars
<1>2. /\ job[w] \in Tasks /\ result[w] \in Result /\ result[w].status # "invalid"
      /\ tasks'[job[w]] = FinishedRow(tasks[job[w]], result[w])
      /\ \A u \in result[w].kids : tasks'[u] = NewRow(EmptyState, job[w])
      /\ \A u \in Tasks : u # job[w] /\ u \notin result[w].kids =>
            \/ tasks'[u] = tasks[u]
            \/ tasks[u].status = "waiting" /\ tasks'[u] = ResumedRow(tasks[u])
  BY <1>t, <1>1, CommitRows
<1>3. /\ phase'[w] = "idle" /\ result'[w] = NoResult
      /\ \A v \in Workers : v # w => /\ phase'[v] = phase[v] /\ job'[v] = job[v]
                                     /\ result'[v] = result[v]
  BY <1>t, <1>1 DEF Commit, Release, TypeOK
<1>4. step[w] = "start"
  BY <1>1 DEF IngestInv, OwnPaths
<1>5. /\ path' \in [Tasks -> Names \cup {MediaName(t) : t \in Tasks} \cup {NULL}]
      /\ path' = path \/ path'[job[w]] = MediaName(job[w])
      /\ \A u \in Tasks : u # job[w] => path'[u] = path[u]
  BY <1>t, <1>2 DEF CommitIngestion
<1>6. IngestTypeOK'
  BY <1>t, <1>1, <1>5 DEF IngestInv, IngestTypeOK
<1>7. OwnPaths'
  BY <1>1, <1>3, <1>4, <1>5 DEF IngestInv, OwnPaths
<1>9. MovedBefore'
  BY <1>1, <1>3, <1>4 DEF IngestInv, MovedBefore, NoResult
<1>10. DoneIsMoved'
  <2> SUFFICES ASSUME NEW u \in Tasks, tasks'[u].status = "completed"
               PROVE  dirs[MediaDvdId(u)] # NULL
    BY <1>1 DEF DoneIsMoved
  <2>1. CASE u = job[w]
    <3>1. result[w].status = "completed"
      BY <1>t, <1>2, <2>1, FinishedRowType
    <3> QED BY <2>1, <3>1 DEF IngestInv, MovedBefore
  <2>2. CASE u # job[w]
    <3>1. u \notin result[w].kids
      BY <1>2 DEF NewRow
    <3>2. ResumedRow(tasks[u]).status = "pending"
      BY <1>t DEF ResumedRow, Row
    <3>3. tasks'[u] = tasks[u]
      BY <1>2, <2>2, <3>1, <3>2
    <3> QED BY <3>3 DEF IngestInv, DoneIsMoved
  <2> QED BY <2>1, <2>2
<1> QED BY <1>6, <1>7, <1>9, <1>10 DEF IngestInv

(* The other steps of a call of Handle.                                    *)
LEMMA HandlerKeepsInv ==
  ASSUME IngestInv, ConsInv', [IngestNext]_allVars, Handler
  PROVE  IngestInv'
<1> SUFFICES ASSUME NEW w \in Workers,
                    \/ SelectPath(w) \/ SelectFails(w) \/ Rename(w) \/ RenameFails(w)
                    \/ UpdatePath(w) \/ CommitIngestion(w) \/ RollBack(w)
             PROVE  IngestInv'
  BY DEF Handler
<1>t. /\ TypeOK /\ TypeOK' /\ step \in [Workers -> {"start", "selected", "renamed"}]
      /\ seen \in [Workers -> Names \cup {MediaName(t) : t \in Tasks} \cup {NULL}]
  BY DEF IngestInv, ConsInv, TypeOK, IngestTypeOK
<1>a. \A t \in Tasks : dirs[MediaDvdId(t)] # NULL => dirs'[MediaDvdId(t)] # NULL
  BY ArrivedStays
<1>b. \A v \in Workers : step[v] = "renamed" \/ result[v].status = "completed" => job[v] \in Tasks
  BY <1>t DEF IngestInv, OwnPaths, TypeOK, Busy, NoResult
<1>1. CASE SelectPath(w)
  <2>1. /\ phase[w] = "assigned" /\ job[w] \in Tasks /\ path[job[w]] # NULL
        /\ step' = [step EXCEPT ![w] = "selected"]
        /\ seen' = [seen EXCEPT ![w] = path[job[w]]]
        /\ UNCHANGED <<tasks, phase, job, result, path, dirs>>
    BY <1>1, <1>t DEF SelectPath, vars, workerVars, TypeOK, Busy
  <2>2. path[job[w]] \in Names \cup {MediaName(job[w])}
    BY <2>1 DEF IngestInv, OwnPaths
  <2>3. IngestTypeOK'
    BY <1>t, <2>1, <2>2 DEF IngestInv, IngestTypeOK
  <2>4. OwnPaths'
    BY <1>t, <2>1, <2>2 DEF IngestInv, OwnPaths
  <2>5. MovedBefore' /\ DoneIsMoved'
    BY <1>t, <2>1 DEF IngestInv, MovedBefore, DoneIsMoved
  <2> QED BY <2>3, <2>4, <2>5 DEF IngestInv
<1>2. CASE SelectFails(w) \/ RenameFails(w) \/ UpdatePath(w)
  BY <1>2, ReturnKeepsInv DEF SelectFails, RenameFails, UpdatePath
<1>3. CASE Rename(w)
  <2>1. /\ phase[w] = "assigned" /\ step[w] = "selected" /\ job[w] \in Tasks
        /\ step' = [step EXCEPT ![w] = "renamed"]
        /\ UNCHANGED <<tasks, phase, job, result, path, seen>>
    BY <1>3, <1>t DEF Rename, vars, workerVars, TypeOK, Busy
  <2>2. /\ Absolute(seen[w]) \in Inbox \cup {Nowhere} /\ dirs[Absolute(seen[w])] # NULL
        /\ dirs'[MediaDvdId(job[w])] = dirs[Absolute(seen[w])]
    BY <1>3, <2>1, RenameSource, DirsDiffer DEF IngestInv, IngestTypeOK
  <2>3. dirs' \in [Inbox \cup MediaDirs \cup {Nowhere} -> Discs \cup {NULL}]
    BY <1>3, <2>2 DEF Rename, IngestInv, IngestTypeOK
  <2>4. IngestTypeOK'
    BY <1>t, <2>1, <2>3 DEF IngestInv, IngestTypeOK
  <2>5. OwnPaths'
    BY <1>t, <2>1 DEF IngestInv, OwnPaths
  <2>6. MovedBefore' /\ DoneIsMoved'
    BY <1>t, <1>a, <1>b, <2>1, <2>2 DEF IngestInv, MovedBefore, DoneIsMoved
  <2> QED BY <2>4, <2>5, <2>6 DEF IngestInv
<1>4. CASE CommitIngestion(w)
  BY <1>4, CommitIngestionKeepsInv
<1>5. CASE RollBack(w)
  <2>1. /\ step' = [step EXCEPT ![w] = "start"] /\ seen' = [seen EXCEPT ![w] = NULL]
        /\ UNCHANGED <<tasks, path, dirs>>
        /\ phase' = [phase EXCEPT ![w] = "idle"] /\ job' = [job EXCEPT ![w] = NULL]
        /\ result' = [result EXCEPT ![w] = NoResult]
    BY <1>5 DEF RollBack, Abandon, Release
  <2>2. /\ step'[w] = "start" /\ result'[w] = NoResult
        /\ \A v \in Workers : v # w => /\ step'[v] = step[v] /\ seen'[v] = seen[v]
                                       /\ phase'[v] = phase[v] /\ job'[v] = job[v]
                                       /\ result'[v] = result[v]
    BY <1>t, <2>1 DEF TypeOK
  <2>3. IngestTypeOK'
    BY <1>t, <2>1 DEF IngestInv, IngestTypeOK
  <2>4. OwnPaths'
    BY <2>1, <2>2 DEF IngestInv, OwnPaths
  <2>5. MovedBefore' /\ DoneIsMoved'
    BY <2>1, <2>2 DEF IngestInv, MovedBefore, DoneIsMoved, NoResult
  <2> QED BY <2>3, <2>4, <2>5 DEF IngestInv
<1> QED BY <1>1, <1>2, <1>3, <1>4, <1>5

(* Every step keeps the invariant of the ingestion.                        *)
LEMMA IngestNextInv == IngestInv /\ [IngestNext]_allVars => IngestInv'
<1> SUFFICES ASSUME IngestInv, [IngestNext]_allVars PROVE IngestInv'
  OBVIOUS
<1>c. ConsInv /\ ConsInv'
  BY IngestStepIsTaskStep, ConsNext DEF IngestInv
<1>t. TypeOK /\ TypeOK'
  BY <1>c DEF ConsInv
<1>1. CASE UNCHANGED allVars
  <2>1. UNCHANGED <<tasks, phase, job, result, path, dirs, step, seen>>
    BY <1>1 DEF allVars, vars, workerVars, handlerVars
  <2> QED BY <1>c, <1>t, <2>1 DEF IngestInv, IngestTypeOK, OwnPaths, MovedBefore, DoneIsMoved
<1>2. CASE Service
  BY <1>c, <1>2, ServiceKeepsInv
<1>3. CASE Handler
  BY <1>c, <1>3, HandlerKeepsInv
<1>4. CASE TaskSystem
  <2>1. /\ UNCHANGED <<path, dirs, step, seen, result>>
        /\ \A w \in Workers : phase[w] # "idle" => phase'[w] = phase[w] /\ job'[w] = job[w]
        /\ \A t \in Tasks : tasks'[t].status = "completed" => tasks[t].status = "completed"
    BY <1>c, <1>4, TaskSystemStep
  <2>2. IngestTypeOK'
    BY <1>t, <2>1 DEF IngestInv, IngestTypeOK
  <2>3. OwnPaths'
    BY <2>1 DEF IngestInv, OwnPaths
  <2>4. MovedBefore' /\ DoneIsMoved'
    <3>1. \A w \in Workers : step[w] = "renamed" \/ result[w].status = "completed" =>
            phase[w] # "idle"
      BY <1>t DEF IngestInv, OwnPaths, TypeOK, NoResult
    <3> QED BY <2>1, <3>1 DEF IngestInv, MovedBefore, DoneIsMoved
  <2> QED BY <1>c, <2>2, <2>3, <2>4 DEF IngestInv
<1> QED BY <1>1, <1>2, <1>3, <1>4 DEF IngestNext

(* The invariant holds in every state of the ingestion.                    *)
LEMMA IngestAlways == IngestSpec => []IngestInv
<1>1. IngestInit => IngestInv
  <2> SUFFICES ASSUME IngestInit PROVE IngestInv
    OBVIOUS
  <2>1. ConsInv
    BY ConsInit DEF IngestInit
  <2>2. IngestTypeOK
    BY <2>1 DEF ConsInv, IngestInit, IngestTypeOK
  <2>3. OwnPaths
    BY DEF IngestInit, OwnPaths
  <2>4. MovedBefore /\ DoneIsMoved
    BY DEF IngestInit, Init, MovedBefore, DoneIsMoved, NoResult, EmptyTable, AbsentRow
  <2> QED BY <2>1, <2>2, <2>3, <2>4 DEF IngestInv
<1> QED BY <1>1, IngestNextInv, PTL DEF IngestSpec

------------------------------------------------------------------------------
(* Theorems.                                                               *)

(* Types of the media_dvds table, of the file system and of the handler's  *)
(* progress (media.go, dvd_ingestion.go).                                  *)
THEOREM IngestTypeCorrect == IngestSpec => []IngestTypeOK
<1>1. IngestInv => IngestTypeOK
  BY DEF IngestInv
<1> QED BY <1>1, IngestAlways, PTL

(* An ingestion that is reported done has its disc at media/dvd/<id>: also *)
(* after crashes, retries by workers that lost their leases, patches and   *)
(* deletions (Handle of the ingestion).                                    *)
THEOREM DoneMeansMoved == IngestSpec => []DoneIsMoved
<1>1. IngestInv => DoneIsMoved
  BY DEF IngestInv
<1> QED BY <1>1, IngestAlways, PTL

(* No step, however it interleaves with others, overwrites a disc.         *)
THEOREM NoDiscIsLost == IngestSpec => DiscsSurvive
<1>1. ASSUME IngestInv, [IngestNext]_allVars, NEW disc \in Discs,
             NEW d \in DOMAIN dirs, dirs[d] = disc
      PROVE  \E e \in DOMAIN dirs : dirs'[e] = disc
  <2>0. /\ DOMAIN dirs = Inbox \cup MediaDirs \cup {Nowhere} /\ disc # NULL
        /\ dirs \in [DOMAIN dirs -> Discs \cup {NULL}]
    BY <1>1, IngestionAssumption DEF IngestInv, IngestTypeOK
  <2>1. ASSUME NEW w \in Workers, Rename(w) PROVE \E e \in DOMAIN dirs : dirs'[e] = disc
    <3>1. d # MediaDvdId(job[w]) /\ MediaDvdId(job[w]) \in DOMAIN dirs
      BY <1>1, <2>0, <2>1, RenameSource, DirsDiffer
    <3> QED BY <1>1, <2>0, <2>1, <3>1, RenameSource
  <2>2. ASSUME NEW e \in Inbox, NEW new \in Discs, Rip(e, new)
        PROVE  \E f \in DOMAIN dirs : dirs'[f] = disc
    BY <1>1, <2>0, <2>2 DEF Rip
  <2>3. CASE UNCHANGED dirs
    BY <1>1, <2>3
  <2> QED BY <1>1, <2>1, <2>2, <2>3
          DEF IngestNext, Service, Handler, TaskSystem, allVars, PostMedia, PatchMedia,
              DeleteMedia, SelectPath, SelectFails, RenameFails, UpdatePath, CommitIngestion,
              RollBack
<1>2. IngestInv /\ [IngestNext]_allVars =>
        [\A disc \in Discs : (\E d \in DOMAIN dirs : dirs[d] = disc)
                               => (\E d \in DOMAIN dirs : dirs'[d] = disc)]_allVars
  BY <1>1
<1> QED BY <1>2, IngestAlways, PTL DEF IngestSpec, DiscsSurvive
=============================================================================

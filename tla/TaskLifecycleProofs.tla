------------------------ MODULE TaskLifecycleProofs --------------------------
(***************************************************************************)
(* Proofs about TaskLifecycle, for every set of tasks, workers and states. *)
(* The argument has two layers.  ConsInv is inductive whatever heartbeats  *)
(* do; it gives TableConsistent and FailedIsFinal.  KeepInv adds what      *)
(* holds when HeartbeatsKeepUp; it gives mutual exclusion of workers and   *)
(* TerminalIsFinal.                                                        *)
(***************************************************************************)
EXTENDS TaskLifecycle, TaskTableProofs

ConsInv == TypeOK /\ TableConsistent /\ JobsExist /\ KidsReserved

KeepInv == ConsInv /\ OneWorkerPerTask /\ WorkerOwnsTask /\ InputIsCurrent

------------------------------------------------------------------------------
(* Lemmas about changes of one row.                                        *)

(* A statement that updates an existing row within the constraints keeps   *)
(* the table consistent and neither adds nor removes a row.                *)
LEMMA UpdateKeepsTable ==
  ASSUME tasks \in [Tasks -> Row], TableConsistent,
         NEW t \in Tasks, NEW r \in Row,
         Exists(tasks[t]), Exists(r), Check(r), r.state # NULL,
         r.parent_id = tasks[t].parent_id,
         tasks' = [tasks EXCEPT ![t] = r]
  PROVE  /\ tasks' \in [Tasks -> Row] /\ TableConsistent'
         /\ \A u \in Tasks : Exists(tasks'[u]) <=> Exists(tasks[u])
<1>1. tasks' \in [Tasks -> Row]
  OBVIOUS
<1>2. \A u \in Tasks : Exists(tasks'[u]) <=> Exists(tasks[u])
  OBVIOUS
<1>3. ASSUME NEW u \in Tasks, Exists(tasks'[u])
      PROVE  /\ Check(tasks'[u]) /\ tasks'[u].state # NULL
             /\ tasks'[u].parent_id = tasks[u].parent_id
  BY <1>3 DEF TableConsistent
<1>4. ASSUME NEW u \in Tasks, Exists(tasks'[u]), tasks'[u].parent_id # NULL
      PROVE  Exists(tasks'[tasks'[u].parent_id])
  <2>1. tasks[u].parent_id # NULL /\ tasks[u].parent_id \in Tasks
    BY <1>3, <1>4 DEF Row
  <2>2. Exists(tasks[tasks[u].parent_id])
    BY <1>2, <1>4, <2>1 DEF TableConsistent
  <2> QED BY <1>2, <1>3, <1>4, <2>1, <2>2
<1> QED BY <1>1, <1>2, <1>3, <1>4 DEF TableConsistent

(* An INSERT (api.go, Create and CreateChild) does so too, and adds one    *)
(* row.                                                                    *)
LEMMA InsertKeepsTable ==
  ASSUME tasks \in [Tasks -> Row], TableConsistent,
         NEW t \in Tasks, NEW s \in States, NEW p \in Tasks \cup {NULL},
         p # NULL => Exists(tasks[p]),
         ~Exists(tasks[t]),
         tasks' = [tasks EXCEPT ![t] = NewRow(s, p)]
  PROVE  /\ tasks' \in [Tasks -> Row] /\ TableConsistent'
         /\ \A u \in Tasks : Exists(tasks'[u]) <=> u = t \/ Exists(tasks[u])
<1>1. /\ NewRow(s, p) \in Row /\ Check(NewRow(s, p)) /\ Exists(NewRow(s, p))
      /\ NewRow(s, p).state = s /\ NewRow(s, p).parent_id = p
  BY DEF NewRow, Row, Statuses, Check, CheckLease, CheckError, Exists
<1>2. tasks' \in [Tasks -> Row]
  BY <1>1
<1>3. \A u \in Tasks : Exists(tasks'[u]) <=> u = t \/ Exists(tasks[u])
  BY <1>1
<1>4. ASSUME NEW u \in Tasks, Exists(tasks'[u])
      PROVE  /\ Check(tasks'[u]) /\ tasks'[u].state # NULL
             /\ tasks'[u].parent_id # NULL => Exists(tasks'[tasks'[u].parent_id])
  <2>1. CASE u = t
    BY <1>1, <1>3, <2>1, TableAssumption
  <2>2. CASE u # t
    <3>1. tasks'[u] = tasks[u] /\ Exists(tasks[u])
      BY <1>3, <1>4, <2>2
    <3>2. tasks[u].parent_id \in Tasks \cup {NULL}
      BY DEF Row
    <3> QED BY <1>3, <3>1, <3>2 DEF TableConsistent
  <2> QED BY <2>1, <2>2
<1> QED BY <1>2, <1>3, <1>4 DEF TableConsistent

(* ConsInv survives every step that changes the table as these two lemmas  *)
(* allow, inserting only free ids, and leaves the workers alone.           *)
LEMMA TableStepKeepsInv ==
  ASSUME ConsInv, UNCHANGED workerVars,
         tasks' \in [Tasks -> Row], TableConsistent',
         \A u \in Tasks : Exists(tasks'[u]) <=> Exists(tasks[u]) \/ (u \in Free /\ Exists(tasks'[u])),
         open' \in SUBSET Tasks, todo' \in [Tasks -> SUBSET Tasks]
  PROVE  ConsInv'
<1>1. TypeOK'
  BY DEF ConsInv, TypeOK, Busy, workerVars
<1>2. JobsExist'
  BY TableAssumption DEF ConsInv, JobsExist, TypeOK, Busy, workerVars
<1>3. KidsReserved'
  <2>1. \A w \in Workers : result[w].kids \subseteq Tasks
    BY DEF ConsInv, TypeOK, Result, NoResult
  <2> QED BY <2>1 DEF ConsInv, KidsReserved, Free, workerVars
<1> QED BY <1>1, <1>2, <1>3 DEF ConsInv
------------------------------------------------------------------------------
(* The commit of a handler's transaction.                                  *)

(* Commit as the layers below use it: the job, the result and every row.   *)
LEMMA CommitRows ==
  ASSUME ConsInv, NEW w \in Workers, Commit(w)
  PROVE  /\ job[w] \in Tasks /\ result[w] \in Result /\ result[w].kids \subseteq Tasks
         /\ result[w].status # "invalid"
         /\ Exists(tasks[job[w]]) /\ job[w] \notin result[w].kids
         /\ Check(FinishedRow(tasks[job[w]], result[w]))
         /\ tasks' \in [Tasks -> Row]
         /\ tasks'[job[w]] = FinishedRow(tasks[job[w]], result[w])
         /\ \A u \in result[w].kids : tasks'[u] = NewRow(EmptyState, job[w])
         /\ \A u \in Tasks : u # job[w] /\ u \notin result[w].kids =>
              \/ tasks'[u] = tasks[u]
              \/ tasks[u].status = "waiting" /\ tasks'[u] = ResumedRow(tasks[u])
<1>1. /\ phase[w] = "returned" /\ result[w].status # "invalid"
      /\ Check(FinishedRow(tasks[job[w]], result[w]))
      /\ tasks' = applyResult(WithChildren(tasks, job[w], result[w].kids), job[w], result[w])
  BY DEF Commit
<1>2. job[w] \in Tasks /\ result[w] \in Result /\ tasks \in [Tasks -> Row]
  BY <1>1 DEF ConsInv, TypeOK, Busy
<1>3. Exists(tasks[job[w]])
  BY <1>1 DEF ConsInv, JobsExist, Busy
<1>4. job[w] \notin result[w].kids
  BY <1>3 DEF ConsInv, KidsReserved
<1>5. result[w].kids \subseteq Tasks
  BY <1>2 DEF Result
<1>6. tasks' \in [Tasks -> Row] /\ tasks'[job[w]] = FinishedRow(tasks[job[w]], result[w])
  BY <1>1, <1>2, <1>4, CommitShape
<1>7. \A u \in result[w].kids : tasks'[u] = NewRow(EmptyState, job[w])
  BY <1>1, <1>2, <1>4, <1>5, CommitShape
<1>8. ASSUME NEW u \in Tasks, u # job[w], u \notin result[w].kids
      PROVE  \/ tasks'[u] = tasks[u]
             \/ tasks[u].status = "waiting" /\ tasks'[u] = ResumedRow(tasks[u])
  BY <1>1, <1>2, <1>4, <1>8, CommitShape
<1> QED BY <1>1, <1>2, <1>3, <1>4, <1>5, <1>6, <1>7, <1>8

(* A worker that ends processTask leaves the invariant's worker part true. *)
LEMMA ReleaseKeepsInv ==
  ASSUME ConsInv, NEW w \in Workers, Release(w),
         tasks' \in [Tasks -> Row], TableConsistent',
         \A u \in Tasks : Exists(tasks[u]) => Exists(tasks'[u]),
         \A u \in Tasks : Exists(tasks'[u]) => Exists(tasks[u]) \/ u \in result[w].kids
  PROVE  ConsInv'
<1> USE DEF ConsInv, Release, cancelVars
<1>1. NoResult.kids = {} /\ NoResult \notin Result
  BY DEF NoResult, Result
<1>2. TypeOK'
  BY DEF TypeOK, Busy
<1>3. \A v \in Workers : v # w => /\ phase'[v] = phase[v] /\ job'[v] = job[v]
                                  /\ result'[v] = result[v]
  BY DEF TypeOK
<1>4. phase'[w] = "idle" /\ result'[w] = NoResult
  BY DEF TypeOK
<1>5. JobsExist'
  BY <1>3, <1>4 DEF JobsExist, Busy, TypeOK
<1>6. \A v \in Workers : result[v].kids \subseteq Tasks
  BY DEF TypeOK, Result, NoResult
<1>7. KidsReserved'
  BY <1>1, <1>3, <1>4, <1>6 DEF KidsReserved
<1> QED BY <1>2, <1>5, <1>7

(* The commit of a worker, stale or not (worker.go, processTask), keeps    *)
(* ConsInv: the CHECK constraints guard the row it finishes, the row of a  *)
(* resumed parent stays within them, and its children were reserved.       *)
LEMMA CommitKeepsInv ==
  ASSUME ConsInv, NEW w \in Workers, Commit(w)
  PROVE  ConsInv'
<1> DEFINE t == job[w]
           fin == FinishedRow(tasks[t], result[w])
<1>1. /\ t \in Tasks /\ result[w] \in Result /\ result[w].kids \subseteq Tasks
      /\ result[w].status # "invalid" /\ Exists(tasks[t]) /\ t \notin result[w].kids
      /\ Check(fin) /\ tasks' \in [Tasks -> Row] /\ tasks'[t] = fin
  BY CommitRows
<1>2. \A u \in result[w].kids : tasks'[u] = NewRow(EmptyState, t)
  BY CommitRows
<1>3. \A u \in Tasks : u # t /\ u \notin result[w].kids =>
         \/ tasks'[u] = tasks[u]
         \/ tasks[u].status = "waiting" /\ tasks'[u] = ResumedRow(tasks[u])
  BY CommitRows
<1>4. /\ tasks \in [Tasks -> Row] /\ TableConsistent /\ tasks[t] \in Row
      /\ tasks[t].state # NULL
  BY <1>1 DEF ConsInv, TypeOK, TableConsistent
<1>5. /\ fin.status \in Statuses /\ fin.state # NULL
      /\ fin.parent_id = tasks[t].parent_id
  <2>1. /\ fin.status = result[w].status /\ fin.state # NULL
        /\ fin.parent_id = tasks[t].parent_id
    BY <1>1, <1>4, FinishedRowType
  <2>2. result[w].status \in Statuses
    BY <1>1 DEF Result, Statuses
  <2> QED BY <2>1, <2>2
<1>6. \A u \in Tasks : tasks[u].status = "waiting" =>
        /\ Exists(ResumedRow(tasks[u]))
        /\ Check(tasks[u]) => Check(ResumedRow(tasks[u]))
        /\ ResumedRow(tasks[u]).state = tasks[u].state
        /\ ResumedRow(tasks[u]).parent_id = tasks[u].parent_id
  BY <1>4 DEF ResumedRow, Exists, Check, CheckLease, CheckError, Row
<1>7. /\ Exists(NewRow(EmptyState, t)) /\ Check(NewRow(EmptyState, t))
      /\ NewRow(EmptyState, t).state # NULL /\ NewRow(EmptyState, t).parent_id = t
  BY TableAssumption DEF NewRow, Exists, Check, CheckLease, CheckError
<1> HIDE DEF t, fin
<1>8. Exists(fin)
  BY <1>5 DEF Exists, Statuses
<1>9. \A u \in Tasks : Exists(tasks[u]) => Exists(tasks'[u])
  BY <1>1, <1>2, <1>3, <1>6, <1>7, <1>8
<1>10. \A u \in Tasks : Exists(tasks'[u]) => Exists(tasks[u]) \/ u \in result[w].kids
  <2>1. \A u \in Tasks : tasks[u].status = "waiting" => Exists(tasks[u])
    BY DEF Exists
  <2> QED BY <1>1, <1>3, <2>1
<1>11. ASSUME NEW u \in Tasks, Exists(tasks'[u])
       PROVE  /\ Check(tasks'[u]) /\ tasks'[u].state # NULL
              /\ tasks'[u].parent_id # NULL => Exists(tasks'[tasks'[u].parent_id])
  <2>1. CASE u = t
    <3>1. tasks[t].parent_id \in Tasks \cup {NULL}
      BY <1>4 DEF Row
    <3>2. tasks[t].parent_id # NULL => Exists(tasks[tasks[t].parent_id])
      BY <1>1, <1>4 DEF TableConsistent
    <3> QED BY <2>1, <3>1, <3>2, <1>1, <1>5, <1>9
  <2>2. CASE u \in result[w].kids
    BY <2>2, <1>1, <1>2, <1>7, <1>8
  <2>3. CASE u # t /\ u \notin result[w].kids
    <3>1. Exists(tasks[u])
      BY <1>10, <1>11, <2>3
    <3>2. /\ Check(tasks[u]) /\ tasks[u].state # NULL
          /\ tasks[u].parent_id # NULL => Exists(tasks[tasks[u].parent_id])
      BY <3>1, <1>4 DEF TableConsistent
    <3>3. tasks[u].parent_id \in Tasks \cup {NULL}
      BY <1>4 DEF Row
    <3>4. /\ Check(tasks'[u]) /\ tasks'[u].state # NULL
          /\ tasks'[u].parent_id = tasks[u].parent_id
      BY <2>3, <3>2, <1>3, <1>6
    <3> QED BY <3>2, <3>3, <3>4, <1>9
  <2> QED BY <2>1, <2>2, <2>3
<1>12. TableConsistent'
  BY <1>11 DEF TableConsistent
<1>13. Release(w)
  BY DEF Commit
<1> QED BY <1>1, <1>9, <1>10, <1>12, <1>13, ReleaseKeepsInv
------------------------------------------------------------------------------
(* The first layer: ConsInv is inductive.                                  *)

(* The empty table and idle workers satisfy ConsInv.                       *)
LEMMA ConsInit == Init => ConsInv
<1> SUFFICES ASSUME Init PROVE ConsInv
  OBVIOUS
<1>1. tasks \in [Tasks -> Row] /\ \A t \in Tasks : ~Exists(tasks[t])
  BY DEF Init, EmptyTable, AbsentRow, Row, Exists
<1>2. TypeOK
  BY <1>1 DEF Init, TypeOK, Busy
<1>3. TableConsistent
  BY <1>1 DEF TableConsistent
<1>4. JobsExist /\ KidsReserved
  BY DEF Init, JobsExist, KidsReserved, Busy, NoResult
<1> QED BY <1>2, <1>3, <1>4 DEF ConsInv

(* A step that updates the row of t within the constraints and leaves the  *)
(* workers alone.                                                          *)
LEMMA UpdateKeepsInv ==
  ASSUME ConsInv, UNCHANGED workerVars,
         NEW t \in Tasks, NEW r \in Row,
         Exists(tasks[t]), Exists(r), Check(r), r.state # NULL,
         r.parent_id = tasks[t].parent_id,
         tasks' = [tasks EXCEPT ![t] = r],
         open' \in SUBSET Tasks, todo' \in [Tasks -> SUBSET Tasks]
  PROVE  ConsInv'
<1>1. tasks \in [Tasks -> Row] /\ TableConsistent
  BY DEF ConsInv, TypeOK
<1>2. /\ tasks' \in [Tasks -> Row] /\ TableConsistent'
      /\ \A u \in Tasks : Exists(tasks'[u]) <=> Exists(tasks[u])
  BY <1>1, UpdateKeepsTable
<1> QED BY <1>2, TableStepKeepsInv

(* Every call of the API, and every statement of Cancel (api.go), keeps    *)
(* ConsInv.                                                                *)
LEMMA ApiKeepsInv == ConsInv /\ Api => ConsInv'
<1> SUFFICES ASSUME ConsInv, Api PROVE ConsInv'
  OBVIOUS
<1>t. /\ tasks \in [Tasks -> Row] /\ TableConsistent
      /\ open \in SUBSET Tasks /\ todo \in [Tasks -> SUBSET Tasks]
  BY DEF ConsInv, TypeOK
<1>1. ASSUME NEW t \in Tasks, NEW s \in States, Create(t, s) PROVE ConsInv'
  <2>1. /\ t \in Free /\ ~Exists(tasks[t]) /\ tasks' = [tasks EXCEPT ![t] = NewRow(s, NULL)]
        /\ UNCHANGED <<workerVars, open, todo>>
    BY <1>1 DEF Create, Free, cancelVars
  <2>2. /\ tasks' \in [Tasks -> Row] /\ TableConsistent'
        /\ \A u \in Tasks : Exists(tasks'[u]) <=> u = t \/ Exists(tasks[u])
    BY <1>t, <2>1, InsertKeepsTable
  <2> QED BY <1>t, <2>1, <2>2, TableStepKeepsInv
<1>2. ASSUME NEW p \in Tasks, NEW t \in Tasks, NEW s \in States, CreateChild(p, t, s)
      PROVE  ConsInv'
  <2>1. /\ t \in Free /\ ~Exists(tasks[t]) /\ tasks' = [tasks EXCEPT ![t] = NewRow(s, p)]
        /\ Exists(tasks[p]) /\ UNCHANGED <<workerVars, open, todo>>
    BY <1>2 DEF CreateChild, Free, cancelVars
  <2>2. /\ tasks' \in [Tasks -> Row] /\ TableConsistent'
        /\ \A u \in Tasks : Exists(tasks'[u]) <=> u = t \/ Exists(tasks[u])
    BY <1>t, <2>1, InsertKeepsTable
  <2> QED BY <1>t, <2>1, <2>2, TableStepKeepsInv
<1>3. ASSUME NEW t \in Tasks, Resume(t) PROVE ConsInv'
  <2>1. Exists(tasks[t]) /\ Check(tasks[t]) /\ tasks[t].state # NULL
    BY <1>3, <1>t DEF Resume, Exists, TableConsistent
  <2>2. /\ ResumedRow(tasks[t]) \in Row /\ Check(ResumedRow(tasks[t]))
        /\ Exists(ResumedRow(tasks[t])) /\ ResumedRow(tasks[t]).state # NULL
        /\ ResumedRow(tasks[t]).parent_id = tasks[t].parent_id
    BY <1>3, <1>t, <2>1
       DEF Resume, ResumedRow, Row, Statuses, Exists, Check, CheckLease, CheckError
  <2> QED BY <1>3, <1>t, <2>1, <2>2, UpdateKeepsInv DEF Resume, cancelVars
<1>4. ASSUME NEW t \in Tasks, NEW s \in States, ResumeWithState(t, s) PROVE ConsInv'
  <2>1. Exists(tasks[t]) /\ Check(tasks[t])
    BY <1>4, <1>t DEF ResumeWithState, Exists, TableConsistent
  <2> DEFINE r == ResumedWithStateRow(tasks[t], s)
  <2>2. /\ r \in Row /\ Check(r) /\ Exists(r) /\ r.state # NULL
        /\ r.parent_id = tasks[t].parent_id
    BY <1>4, <1>t, <2>1, TableAssumption
       DEF ResumeWithState, ResumedWithStateRow, ResumedRow, Row, Statuses, Exists,
           Check, CheckLease, CheckError
  <2>3. tasks' = [tasks EXCEPT ![t] = r] /\ UNCHANGED <<workerVars, open, todo>>
    BY <1>4 DEF ResumeWithState, cancelVars
  <2> HIDE DEF r
  <2> QED BY <1>t, <2>1, <2>2, <2>3, UpdateKeepsInv
<1>5. ASSUME NEW t \in Tasks, CancelBegin(t) PROVE ConsInv'
  BY <1>5, <1>t, TableStepKeepsInv DEF CancelBegin, Enter, Children, TableConsistent
<1>6. ASSUME NEW t \in Tasks, NEW c \in Tasks, CancelVisit(t, c) PROVE ConsInv'
  BY <1>6, <1>t, TableStepKeepsInv DEF CancelVisit, Enter, Children, TableConsistent
<1>7. ASSUME NEW t \in Tasks, CancelRow(t) PROVE ConsInv'
  <2> DEFINE r == CancelledRow(tasks[t])
  <2>1. /\ tasks' = [tasks EXCEPT ![t] = r] /\ UNCHANGED workerVars
        /\ open' \in SUBSET Tasks /\ todo' \in [Tasks -> SUBSET Tasks]
    BY <1>7, <1>t DEF CancelRow
  <2>2. CASE Exists(tasks[t])
    <3>1. Check(tasks[t]) /\ tasks[t].state # NULL
      BY <1>t, <2>2 DEF TableConsistent
    <3>2. /\ r \in Row /\ Check(r) /\ Exists(r) /\ r.state # NULL
          /\ r.parent_id = tasks[t].parent_id
      BY <1>t, <2>2, <3>1, CancelledRowGood
    <3> HIDE DEF r
    <3> QED BY <1>t, <2>1, <2>2, <3>2, UpdateKeepsInv
  <2>3. CASE ~Exists(tasks[t])
    <3>1. tasks' = tasks
      BY <1>t, <2>1, <2>3 DEF CancelledRow
    <3> QED BY <1>t, <2>1, <3>1, TableStepKeepsInv DEF TableConsistent
  <2> QED BY <2>2, <2>3
<1>8. ASSUME CancelAbort PROVE ConsInv'
  BY <1>8, <1>t, TableStepKeepsInv DEF CancelAbort, TableConsistent
<1> QED BY <1>1, <1>2, <1>3, <1>4, <1>5, <1>6, <1>7, <1>8, LifecycleAssumption DEF Api

(* Claims, heartbeats, handler calls and the ends of processTask (notify.go, *)
(* worker.go) keep ConsInv, whoever owns the row.                          *)
LEMMA WorkerKeepsInv == ConsInv /\ Worker => ConsInv'
<1> SUFFICES ASSUME ConsInv, Worker PROVE ConsInv'
  OBVIOUS
<1>t. /\ tasks \in [Tasks -> Row] /\ TableConsistent
      /\ open \in SUBSET Tasks /\ todo \in [Tasks -> SUBSET Tasks]
      /\ TypeOK /\ JobsExist /\ KidsReserved
  BY DEF ConsInv, TypeOK
<1>c. ASSUME NEW w \in Workers, NEW t \in Tasks, Claimable(tasks[t]),
             tasks' = [tasks EXCEPT ![t] = ClaimedRow(tasks[t], w)]
      PROVE  /\ tasks' \in [Tasks -> Row] /\ TableConsistent' /\ Exists(tasks[t])
             /\ \A u \in Tasks : Exists(tasks'[u]) <=> Exists(tasks[u])
  <2>1. Check(tasks[t]) /\ tasks[t].state # NULL
    BY <1>t, <1>c DEF TableConsistent, Claimable, Exists
  <2>2. /\ ClaimedRow(tasks[t], w) \in Row /\ Exists(tasks[t])
        /\ Exists(ClaimedRow(tasks[t], w)) /\ Check(ClaimedRow(tasks[t], w))
        /\ ClaimedRow(tasks[t], w).state = tasks[t].state
        /\ ClaimedRow(tasks[t], w).parent_id = tasks[t].parent_id
    BY <1>t, <1>c, <2>1, ClaimedRowGood
  <2> QED BY <1>t, <1>c, <2>1, <2>2, UpdateKeepsTable
<1>1. ASSUME NEW w \in Workers, NEW t \in Tasks, Claim(w, t) PROVE ConsInv'
  <2>1. /\ phase[w] = "idle" /\ Claimable(tasks[t])
        /\ tasks' = [tasks EXCEPT ![t] = ClaimedRow(tasks[t], w)]
        /\ phase' = [phase EXCEPT ![w] = "assigned"] /\ job' = [job EXCEPT ![w] = t]
        /\ input' = [input EXCEPT ![w] = tasks[t].state]
        /\ result' = result /\ open' = open /\ todo' = todo
    BY <1>1 DEF Claim, cancelVars
  <2>2. /\ tasks' \in [Tasks -> Row] /\ TableConsistent' /\ Exists(tasks[t])
        /\ \A u \in Tasks : Exists(tasks'[u]) <=> Exists(tasks[u])
    BY <1>c, <2>1
  <2>3. tasks[t].state \in States \cup {NULL} /\ result[w] = NoResult
    BY <1>t, <2>1 DEF Row, TypeOK
  <2>4. TypeOK'
    BY <1>t, <2>1, <2>2, <2>3, TableAssumption DEF TypeOK, Busy
  <2>5. JobsExist'
    BY <1>t, <2>1, <2>2 DEF JobsExist, TypeOK, Busy
  <2>6. KidsReserved'
    <3>1. \A v \in Workers : result[v].kids \subseteq Tasks
      BY <1>t DEF TypeOK, Result, NoResult
    <3> QED BY <1>t, <2>1, <2>2, <3>1 DEF KidsReserved
  <2> QED BY <2>2, <2>4, <2>5, <2>6 DEF ConsInv
<1>2. ASSUME NEW w \in Workers, NEW t \in Tasks, ClaimLost(w, t) PROVE ConsInv'
  BY <1>2, <1>c, <1>t, TableStepKeepsInv DEF ClaimLost, cancelVars
<1>3. ASSUME NEW w \in Workers, renewLease(w) PROVE ConsInv'
  <2> DEFINE t == job[w]
             r == [tasks[t] EXCEPT !.lease = "live"]
  <2>1. t \in Tasks
    BY <1>3, <1>t DEF renewLease, TypeOK, Busy
  <2>2. /\ tasks[t].status = "running" /\ tasks' = [tasks EXCEPT ![t] = r]
        /\ UNCHANGED <<workerVars, open, todo>>
    BY <1>3, <1>t, <2>1 DEF renewLease, cancelVars
  <2>3. Exists(tasks[t]) /\ Check(tasks[t]) /\ tasks[t].state # NULL
    BY <1>t, <2>1, <2>2 DEF Exists, TableConsistent
  <2>4. /\ r \in Row /\ Exists(r) /\ Check(r) /\ r.state # NULL
        /\ r.parent_id = tasks[t].parent_id
    BY <1>t, <2>1, <2>2, <2>3, TableAssumption
       DEF Row, Exists, Check, CheckLease, CheckError
  <2> HIDE DEF t, r
  <2> QED BY <1>t, <2>1, <2>2, <2>3, <2>4, UpdateKeepsInv
<1>4. ASSUME NEW w \in Workers, Commit(w) PROVE ConsInv'
  BY <1>4, CommitKeepsInv
<1>5. ASSUME NEW w \in Workers, Abandon(w) PROVE ConsInv'
  BY <1>5, <1>t, ReleaseKeepsInv DEF Abandon, TableConsistent
<1>6. ASSUME NEW w \in Workers, NEW r \in Result, Handle(w, r) PROVE ConsInv'
  <2>1. /\ phase[w] = "assigned" /\ r.kids \subseteq Free
        /\ phase' = [phase EXCEPT ![w] = "returned"] /\ result' = [result EXCEPT ![w] = r]
        /\ UNCHANGED <<tasks, job, input, open, todo>>
    BY <1>6 DEF Handle, cancelVars
  <2>2. r # NoResult
    BY DEF Result, NoResult
  <2>3. TypeOK'
    BY <1>t, <2>1, <2>2 DEF TypeOK, Busy
  <2>4. TableConsistent' /\ JobsExist'
    BY <1>t, <2>1 DEF TableConsistent, JobsExist, Busy, TypeOK
  <2>5. KidsReserved'
    BY <1>t, <2>1 DEF KidsReserved, Free, TypeOK
  <2> QED BY <2>3, <2>4, <2>5 DEF ConsInv
<1> QED BY <1>1, <1>2, <1>3, <1>4, <1>5, <1>6 DEF Worker

(* So do the end of a lease and the death of a process.                    *)
LEMMA FaultKeepsInv == ConsInv /\ Fault => ConsInv'
<1> SUFFICES ASSUME ConsInv, Fault PROVE ConsInv'
  OBVIOUS
<1>t. /\ tasks \in [Tasks -> Row] /\ TableConsistent
      /\ open \in SUBSET Tasks /\ todo \in [Tasks -> SUBSET Tasks]
      /\ TypeOK /\ JobsExist /\ KidsReserved
  BY DEF ConsInv, TypeOK
<1>1. ASSUME NEW t \in Tasks, LeaseExpires(t) PROVE ConsInv'
  <2> DEFINE r == [tasks[t] EXCEPT !.lease = "expired"]
  <2>1. /\ tasks[t].lease = "live" /\ tasks' = [tasks EXCEPT ![t] = r]
        /\ UNCHANGED <<workerVars, open, todo>>
    BY <1>1, <1>t DEF LeaseExpires, cancelVars
  <2>2. CASE Exists(tasks[t])
    <3>1. Check(tasks[t]) /\ tasks[t].state # NULL
      BY <1>t, <2>2 DEF TableConsistent
    <3>2. /\ r \in Row /\ Exists(r) /\ Check(r) /\ r.state # NULL
          /\ r.parent_id = tasks[t].parent_id
      BY <1>t, <2>1, <2>2, <3>1, TableAssumption
         DEF Row, Exists, Check, CheckLease, CheckError
    <3> HIDE DEF r
    <3> QED BY <1>t, <2>1, <2>2, <3>2, UpdateKeepsInv
  <2>3. CASE ~Exists(tasks[t])
    <3>1. tasks' \in [Tasks -> Row] /\ ~Exists(tasks'[t])
      BY <1>t, <2>1, <2>3 DEF Row, Exists
    <3>2. \A u \in Tasks : u # t => tasks'[u] = tasks[u]
      BY <1>t, <2>1
    <3>3. \A u \in Tasks : Exists(tasks'[u]) <=> Exists(tasks[u])
      BY <2>3, <3>1, <3>2
    <3>4. TableConsistent'
      <4>1. \A u \in Tasks : tasks[u].parent_id \in Tasks \cup {NULL}
        BY <1>t DEF Row
      <4> QED BY <1>t, <2>3, <3>1, <3>2, <3>3, <4>1 DEF TableConsistent
    <3> QED BY <1>t, <2>1, <3>1, <3>3, <3>4, TableStepKeepsInv
  <2> QED BY <2>2, <2>3
<1>2. ASSUME NEW W \in SUBSET Workers, WorkersDie(W) PROVE ConsInv'
  <2> USE <1>2 DEF WorkersDie, cancelVars
  <2>1. NoResult.kids = {}
    BY DEF NoResult
  <2>2. TypeOK'
    BY <1>t DEF TypeOK, Busy
  <2>3. TableConsistent' /\ JobsExist'
    BY <1>t DEF TableConsistent, JobsExist, Busy
  <2>4. KidsReserved'
    BY <1>t, <2>1 DEF KidsReserved
  <2> QED BY <2>2, <2>3, <2>4 DEF ConsInv
<1> QED BY <1>1, <1>2 DEF Fault

(* ConsInv is inductive.                                                   *)
LEMMA ConsNext == ConsInv /\ [Next]_vars => ConsInv'
<1>1. ConsInv /\ UNCHANGED vars => ConsInv'
  BY DEF ConsInv, TypeOK, TableConsistent, JobsExist, KidsReserved, Busy,
         vars, workerVars, cancelVars
<1> QED BY <1>1, ApiKeepsInv, WorkerKeepsInv, FaultKeepsInv DEF Next

(* ConsInv holds in every behaviour of the task system.                    *)
LEMMA ConsAlways == Spec => []ConsInv
BY ConsInit, ConsNext, PTL DEF Spec

(* The variables keep their types, and a worker has an assignment exactly  *)
(* while it processes one and a result exactly while it saves one          *)
(* (worker.go, processTask), whatever leases, callers and processes do.    *)
THEOREM TypeCorrect == Spec => []TypeOK
<1>1. ConsInv => TypeOK
  BY DEF ConsInv
<1> QED BY <1>1, ConsAlways, PTL

(* No interleaving of the API, the scanner, the workers (stale ones        *)
(* included) and crashes leaves a row that breaks the CHECK constraints or *)
(* the foreign key of the tasks table (migration 000001).                  *)
THEOREM TableAlwaysConsistent == Spec => []TableConsistent
<1>1. ConsInv => TableConsistent
  BY DEF ConsInv
<1> QED BY <1>1, ConsAlways, PTL
------------------------------------------------------------------------------
(* Failed tasks stay failed.  The interesting step is Commit: a result     *)
(* other than failed keeps the error, which CheckError forbids.            *)

(* No step takes a task out of failed, given ConsInv.                      *)
LEMMA FailedStep ==
  ASSUME ConsInv, Next, NEW t \in Tasks, tasks[t].status = "failed"
  PROVE  tasks'[t].status = "failed"
<1>t. tasks \in [Tasks -> Row] /\ TableConsistent /\ TypeOK
  BY DEF ConsInv, TypeOK
<1>1. Exists(tasks[t]) /\ tasks[t].error # NULL
  BY <1>t DEF Exists, TableConsistent, Check, CheckError
<1>2. ASSUME NEW u \in Tasks, NEW s \in States, Create(u, s) \/ ResumeWithState(u, s)
      PROVE  tasks'[t].status = "failed"
  BY <1>2, <1>t, <1>1 DEF Create, ResumeWithState, Free
<1>3. ASSUME NEW p \in Tasks, NEW u \in Tasks, NEW s \in States, CreateChild(p, u, s)
      PROVE  tasks'[t].status = "failed"
  BY <1>3, <1>t, <1>1 DEF CreateChild, Free
<1>4. ASSUME NEW u \in Tasks, Resume(u) \/ CancelRow(u)
      PROVE  tasks'[t].status = "failed"
  BY <1>4, <1>t DEF Resume, CancelRow, CancelledRow, Terminal
<1>5. ASSUME UNCHANGED tasks
      PROVE  tasks'[t].status = "failed"
  BY <1>5
<1>6. ASSUME NEW w \in Workers, NEW u \in Tasks, Claim(w, u) \/ ClaimLost(w, u)
      PROVE  tasks'[t].status = "failed"
  BY <1>6, <1>t DEF Claim, ClaimLost, Claimable
<1>7. ASSUME NEW w \in Workers, renewLease(w)
      PROVE  tasks'[t].status = "failed"
  <2>1. job[w] \in Tasks
    BY <1>7, <1>t DEF renewLease, TypeOK, Busy
  <2> QED BY <1>7, <1>t, <2>1 DEF renewLease
<1>8. ASSUME NEW w \in Workers, Commit(w)
      PROVE  tasks'[t].status = "failed"
  <2>1. CASE t = job[w]
    <3>1. /\ tasks'[t] = FinishedRow(tasks[t], result[w]) /\ result[w] \in Result
          /\ result[w].status # "invalid" /\ Check(FinishedRow(tasks[t], result[w]))
      BY <1>8, <2>1, CommitRows
    <3>2. /\ FinishedRow(tasks[t], result[w]).status = result[w].status
          /\ result[w].status # "failed" =>
               FinishedRow(tasks[t], result[w]).error = tasks[t].error
      BY <1>t, <3>1, FinishedRowType
    <3> QED BY <1>1, <3>1, <3>2 DEF Check, CheckError
  <2>2. CASE t # job[w]
    <3>1. t \notin result[w].kids
      BY <1>1, <1>8 DEF ConsInv, KidsReserved
    <3> QED BY <1>8, <2>2, <3>1, CommitRows
  <2> QED BY <2>1, <2>2
<1>9. ASSUME NEW u \in Tasks, LeaseExpires(u)
      PROVE  tasks'[t].status = "failed"
  BY <1>9, <1>t DEF LeaseExpires
<1>10. CASE Api
  <2>1. ASSUME NEW u \in Tasks, CancelBegin(u) PROVE UNCHANGED tasks
    BY <2>1 DEF CancelBegin, Enter
  <2>2. ASSUME NEW u \in Tasks, NEW c \in Tasks, CancelVisit(u, c) PROVE UNCHANGED tasks
    BY <2>2 DEF CancelVisit, Enter
  <2>3. CancelAbort => UNCHANGED tasks
    BY DEF CancelAbort
  <2> QED BY <1>2, <1>3, <1>4, <1>5, <1>10, <2>1, <2>2, <2>3, LifecycleAssumption DEF Api
<1>11. CASE Worker
  <2>1. ASSUME NEW w \in Workers, Abandon(w) PROVE UNCHANGED tasks
    BY <2>1 DEF Abandon
  <2>2. ASSUME NEW w \in Workers, NEW r \in Result, Handle(w, r) PROVE UNCHANGED tasks
    BY <2>2 DEF Handle
  <2> QED BY <1>5, <1>6, <1>7, <1>8, <1>11, <2>1, <2>2 DEF Worker
<1>12. CASE Fault
  <2>1. ASSUME NEW W \in SUBSET Workers, WorkersDie(W) PROVE UNCHANGED tasks
    BY <2>1 DEF WorkersDie
  <2> QED BY <1>5, <1>9, <1>12, <2>1 DEF Fault
<1> QED BY <1>10, <1>11, <1>12 DEF Next

(* A failed task stays failed, even when leases are lost: a worker that    *)
(* finishes a cancelled task cannot bring it back, because worker.go's     *)
(* statements keep the error that the CHECK constraint then rejects.       *)
THEOREM FailedStaysFailed == Spec => FailedIsFinal
<1>1. ConsInv /\ [Next]_vars =>
        [\A t \in Tasks : tasks[t].status = "failed" => tasks'[t].status = "failed"]_vars
  BY FailedStep
<1> QED BY <1>1, ConsAlways, PTL DEF Spec, FailedIsFinal

------------------------------------------------------------------------------
(* Leases are renewed by their owners only, also when heartbeats do not    *)
(* keep up.  The one thing that ConsInv does not say is that ids without a *)
(* row have no lease either.                                               *)

AbsentHasNoLease == \A t \in Tasks : ~Exists(tasks[t]) => tasks[t].lease = NULL

(* No step gives a lease to an id without a row.                           *)
LEMMA AbsentStep ==
  ASSUME ConsInv, AbsentHasNoLease, [Next]_vars
  PROVE  AbsentHasNoLease'
<1>t. tasks \in [Tasks -> Row] /\ TypeOK /\ ConsInv'
  BY ConsNext DEF ConsInv, TypeOK
<1> SUFFICES ASSUME NEW t \in Tasks, ~Exists(tasks'[t]) PROVE tasks'[t].lease = NULL
  BY DEF AbsentHasNoLease
<1>1. CASE UNCHANGED tasks
  BY <1>1 DEF AbsentHasNoLease
<1>r. ASSUME NEW u \in Tasks, NEW r \in Row, Exists(r), tasks' = [tasks EXCEPT ![u] = r]
      PROVE  tasks'[t].lease = NULL
  BY <1>r, <1>t DEF AbsentHasNoLease
<1>2. ASSUME NEW u \in Tasks, NEW s \in States, Create(u, s) \/ ResumeWithState(u, s)
      PROVE  tasks'[t].lease = NULL
  <2>1. /\ NewRow(s, NULL) \in Row /\ Exists(NewRow(s, NULL))
        /\ ResumedWithStateRow(tasks[u], s) \in Row
        /\ Exists(ResumedWithStateRow(tasks[u], s))
    BY <1>t DEF ResumedWithStateRow, ResumedRow, NewRow, Row, Statuses, Exists
  <2> QED BY <1>2, <1>r, <2>1 DEF Create, ResumeWithState
<1>3. ASSUME NEW p \in Tasks, NEW u \in Tasks, NEW s \in States, CreateChild(p, u, s)
      PROVE  tasks'[t].lease = NULL
  BY <1>3, <1>t DEF CreateChild, NewRow, AbsentHasNoLease
<1>4. ASSUME NEW u \in Tasks, Resume(u) \/ CancelRow(u)
      PROVE  tasks'[t].lease = NULL
  <2>1. ResumedRow(tasks[u]) \in Row /\ Exists(ResumedRow(tasks[u]))
    BY <1>t DEF ResumedRow, Row, Statuses, Exists
  <2>2. \/ CancelledRow(tasks[u]) = tasks[u]
        \/ CancelledRow(tasks[u]) \in Row /\ Exists(CancelledRow(tasks[u]))
    BY <1>t DEF CancelledRow, Row, Statuses, Exists
  <2> QED BY <1>1, <1>4, <1>r, <1>t, <2>1, <2>2 DEF Resume, CancelRow
<1>5. ASSUME NEW w \in Workers, NEW u \in Tasks, Claim(w, u) \/ ClaimLost(w, u)
      PROVE  tasks'[t].lease = NULL
  BY <1>5, <1>t DEF Claim, ClaimLost, ClaimedRow, Row, Exists, AbsentHasNoLease
<1>6. ASSUME NEW w \in Workers, renewLease(w)
      PROVE  tasks'[t].lease = NULL
  <2>1. job[w] \in Tasks
    BY <1>6, <1>t DEF renewLease, TypeOK, Busy
  <2> QED BY <1>6, <1>t, <2>1 DEF renewLease, Row, Exists, AbsentHasNoLease
<1>7. ASSUME NEW w \in Workers, Commit(w)
      PROVE  tasks'[t].lease = NULL
  <2>1. /\ Exists(tasks[job[w]]) /\ tasks'[job[w]] = FinishedRow(tasks[job[w]], result[w])
        /\ tasks[job[w]] \in Row /\ result[w] \in Result /\ result[w].status # "invalid"
        /\ \A u \in result[w].kids : tasks'[u] = NewRow(EmptyState, job[w])
        /\ \A u \in Tasks : u # job[w] /\ u \notin result[w].kids =>
              \/ tasks'[u] = tasks[u]
              \/ tasks[u].status = "waiting" /\ tasks'[u] = ResumedRow(tasks[u])
    BY <1>7, <1>t, CommitRows
  <2>2. FinishedRow(tasks[job[w]], result[w]).status = result[w].status
    BY <2>1, FinishedRowType
  <2>3. t # job[w]
    BY <2>1, <2>2 DEF Exists, Result
  <2>4. t \notin result[w].kids
    BY <2>1 DEF NewRow, Exists
  <2>5. tasks'[t] = tasks[t]
    BY <1>t, <2>1, <2>3, <2>4 DEF ResumedRow, Row, Exists
  <2> QED BY <2>5 DEF AbsentHasNoLease
<1>8. ASSUME NEW u \in Tasks, LeaseExpires(u)
      PROVE  tasks'[t].lease = NULL
  BY <1>8, <1>t, TableAssumption DEF LeaseExpires, Row, Exists, AbsentHasNoLease
<1>9. CASE Api
  BY <1>1, <1>2, <1>3, <1>4, <1>9, LifecycleAssumption
     DEF Api, CancelBegin, CancelVisit, CancelAbort, Enter
<1>10. CASE Worker
  BY <1>1, <1>5, <1>6, <1>7, <1>10 DEF Worker, Abandon, Handle
<1>11. CASE Fault
  BY <1>1, <1>8, <1>11 DEF Fault, WorkersDie
<1> QED BY <1>1, <1>9, <1>10, <1>11 DEF Next, vars

(* While the row names a dead worker, its expired lease stays expired:     *)
(* heartbeats of workers that lost the task match no row (worker.go,       *)
(* renewLease), and whoever takes the task over names himself.             *)
THEOREM DeadLeaseStaysExpired == Spec => OnlyOwnerRenews
<1> DEFINE Kept(t) == \/ tasks'[t].lease = "expired"
                      \/ tasks'[t].worker_id # tasks[t].worker_id
<1>1. ASSUME ConsInv, AbsentHasNoLease, Next, NEW t \in Tasks,
             tasks[t].lease = "expired", phase[tasks[t].worker_id] = "dead"
      PROVE  Kept(t)
  <2>t. /\ tasks \in [Tasks -> Row] /\ TypeOK /\ Exists(tasks[t])
        /\ tasks[t].status = "running" /\ tasks[t].worker_id \in Workers
    <3>1. tasks \in [Tasks -> Row] /\ TypeOK /\ Exists(tasks[t])
      BY <1>1, TableAssumption DEF ConsInv, TypeOK, AbsentHasNoLease
    <3>2. tasks[t].status = "running" /\ tasks[t].worker_id # NULL
      BY <1>1, <3>1, TableAssumption DEF ConsInv, TableConsistent, Check, CheckLease
    <3> QED BY <3>1, <3>2 DEF Row
  <2>1. CASE Api
    <3>1. ASSUME NEW u \in Tasks, CancelRow(u) PROVE Kept(t)
      BY <3>1, <2>t, <1>1, TableAssumption DEF CancelRow, CancelledRow, Row
    <3> QED BY <1>1, <2>1, <2>t, <3>1, LifecycleAssumption
               DEF Api, Create, CreateChild, Resume, ResumeWithState, CancelBegin,
                   CancelVisit, CancelAbort, Enter, Free
  <2>2. ASSUME NEW w \in Workers, NEW u \in Tasks, Claim(w, u) \/ ClaimLost(w, u)
        PROVE  Kept(t)
    <3>1. w # tasks[t].worker_id
      BY <1>1, <2>2 DEF Claim, ClaimLost
    <3> QED BY <1>1, <2>2, <2>t, <3>1 DEF Claim, ClaimLost, ClaimedRow, Row
  <2>3. ASSUME NEW w \in Workers, renewLease(w) PROVE Kept(t)
    <3>1. job[w] \in Tasks /\ job[w] # t
      BY <1>1, <2>3, <2>t DEF renewLease, TypeOK, Busy
    <3> QED BY <1>1, <2>3, <2>t, <3>1 DEF renewLease
  <2>4. ASSUME NEW w \in Workers, Commit(w) PROVE Kept(t)
    <3>1. CASE t = job[w]
      <4>1. /\ tasks'[t] = FinishedRow(tasks[t], result[w]) /\ result[w] \in Result
            /\ result[w].status # "invalid" /\ Check(FinishedRow(tasks[t], result[w]))
        BY <1>1, <2>4, <3>1, CommitRows
      <4>2. FinishedRow(tasks[t], result[w]).status = result[w].status
        BY <2>t, <4>1, FinishedRowType
      <4>3. tasks'[t].worker_id = NULL
        BY <4>1, <4>2 DEF Check, CheckLease, Result
      <4> QED BY <2>t, <4>3, TableAssumption
    <3>2. CASE t # job[w]
      <4>1. t \notin result[w].kids
        BY <1>1, <2>t DEF ConsInv, KidsReserved
      <4>2. tasks'[t] = tasks[t]
        BY <1>1, <2>4, <2>t, <3>2, <4>1, CommitRows
      <4> QED BY <1>1, <4>2
    <3> QED BY <3>1, <3>2
  <2>5. CASE Worker
    BY <1>1, <2>2, <2>3, <2>4, <2>5 DEF Worker, Abandon, Handle
  <2>6. CASE Fault
    BY <1>1, <2>6, <2>t DEF Fault, LeaseExpires, WorkersDie
  <2> QED BY <1>1, <2>1, <2>5, <2>6 DEF Next
<1>2. ConsInv /\ AbsentHasNoLease /\ [Next]_vars =>
        [\A t \in Tasks :
           tasks[t].lease = "expired" /\ phase[tasks[t].worker_id] = "dead"
             => \/ tasks'[t].lease = "expired"
                \/ tasks'[t].worker_id # tasks[t].worker_id]_vars
  BY <1>1
<1>3. Init => AbsentHasNoLease
  BY DEF Init, EmptyTable, AbsentRow, AbsentHasNoLease
<1> QED BY <1>2, <1>3, AbsentStep, ConsAlways, PTL DEF Spec, OnlyOwnerRenews

------------------------------------------------------------------------------
(* The second layer: leases that are renewed in time.                      *)

(* A step that keeps the rows of all tasks in process as WorkerOwnsTask    *)
(* and InputIsCurrent want them, and gives no worker a new task.           *)
LEMMA QuietStep ==
  ASSUME KeepInv, ConsInv',
         \A w \in Workers : Busy(w)' =>
            /\ Busy(w) /\ job'[w] = job[w] /\ input'[w] = input[w]
            /\ \/ tasks'[job[w]] = tasks[job[w]]
               \/ tasks'[job[w]].status = "failed"
  PROVE  KeepInv'
<1>1. OneWorkerPerTask'
  BY DEF KeepInv, OneWorkerPerTask
<1>2. WorkerOwnsTask'
  BY DEF KeepInv, WorkerOwnsTask
<1>3. InputIsCurrent'
  BY DEF KeepInv, InputIsCurrent
<1> QED BY <1>1, <1>2, <1>3 DEF KeepInv

(* A task in process cannot be claimed.                                    *)
LEMMA InProcessNotClaimable ==
  ASSUME KeepInv, NEW w \in Workers, Busy(w)
  PROVE  /\ job[w] \in Tasks /\ ~Claimable(tasks[job[w]])
         /\ tasks[job[w]].status \in {"running", "failed"}
<1>1. job[w] \in Tasks
  BY DEF KeepInv, ConsInv, TypeOK
<1> QED BY <1>1 DEF KeepInv, WorkerOwnsTask, Claimable

(* The steps in which no lease runs out under its owner.                   *)
KeptUp ==
  \/ Api \/ Worker
  \/ \E t \in Tasks : LeaseExpires(t) /\ ~Owned(t)
  \/ \E W \in SUBSET Workers : WorkersDie(W)

(* Such a step keeps KeepInv: one step of the proof per action, and under  *)
(* it one per conjunct that the action can disturb.                        *)
LEMMA KeepStep == KeepInv /\ [KeptUp]_vars => KeepInv'
<1> SUFFICES ASSUME KeepInv, [KeptUp]_vars PROVE KeepInv'
  OBVIOUS
<1>t. ConsInv /\ tasks \in [Tasks -> Row] /\ TypeOK
  BY DEF KeepInv, ConsInv, TypeOK
<1>n. ConsInv'
  BY <1>t, ConsNext DEF KeptUp, Next, Fault
<1>b. \A w \in Workers : Busy(w) =>
        /\ job[w] \in Tasks /\ ~Claimable(tasks[job[w]])
        /\ tasks[job[w]].status \in {"running", "failed"} /\ Exists(tasks[job[w]])
  BY InProcessNotClaimable DEF Exists
<1>1. ASSUME UNCHANGED vars PROVE KeepInv'
  BY <1>1, <1>n, QuietStep DEF vars, workerVars, Busy
<1>2. ASSUME NEW t \in Tasks, NEW s \in States, Create(t, s) \/ ResumeWithState(t, s)
      PROVE  KeepInv'
  BY <1>2, <1>n, <1>t, <1>b, QuietStep DEF Create, ResumeWithState, Free, workerVars, Busy
<1>3. ASSUME NEW p \in Tasks, NEW t \in Tasks, NEW s \in States, CreateChild(p, t, s)
      PROVE  KeepInv'
  BY <1>3, <1>n, <1>t, <1>b, QuietStep DEF CreateChild, Free, workerVars, Busy
<1>4. ASSUME NEW t \in Tasks, Resume(t) \/ CancelRow(t) PROVE KeepInv'
  <2>1. CancelledRow(tasks[t]) = tasks[t] \/ CancelledRow(tasks[t]).status = "failed"
    BY <1>t DEF CancelledRow, Row
  <2> QED BY <1>4, <1>n, <1>t, <1>b, <2>1, QuietStep DEF Resume, CancelRow, workerVars, Busy
<1>5. ASSUME UNCHANGED <<tasks, workerVars>> PROVE KeepInv'
  BY <1>5, <1>n, QuietStep DEF workerVars, Busy
<1>6. ASSUME NEW w \in Workers, NEW t \in Tasks, Claim(w, t) PROVE KeepInv'
  <2>1. /\ Claimable(tasks[t]) /\ tasks' = [tasks EXCEPT ![t] = ClaimedRow(tasks[t], w)]
        /\ phase' = [phase EXCEPT ![w] = "assigned"] /\ job' = [job EXCEPT ![w] = t]
        /\ input' = [input EXCEPT ![w] = tasks[t].state]
    BY <1>6 DEF Claim
  <2>2. /\ job'[w] = t /\ input'[w] = tasks[t].state
        /\ tasks'[t] = ClaimedRow(tasks[t], w)
    BY <1>t, <2>1 DEF TypeOK
  <2>3. /\ tasks'[t].status = "running" /\ tasks'[t].worker_id = w
        /\ tasks'[t].lease = "live" /\ tasks'[t].state = tasks[t].state
    BY <1>t, <2>2 DEF ClaimedRow, Row
  <2>4. \A v \in Workers : v # w /\ Busy(v)' =>
          /\ Busy(v) /\ job'[v] = job[v] /\ input'[v] = input[v]
          /\ job[v] # t /\ tasks'[job[v]] = tasks[job[v]]
    BY <1>t, <1>b, <2>1 DEF TypeOK, Busy
  <2>5. OneWorkerPerTask'
    BY <2>2, <2>4 DEF KeepInv, OneWorkerPerTask
  <2>6. WorkerOwnsTask'
    BY <2>2, <2>3, <2>4 DEF KeepInv, WorkerOwnsTask
  <2>7. InputIsCurrent'
    BY <2>2, <2>3, <2>4 DEF KeepInv, InputIsCurrent
  <2> QED BY <1>n, <2>5, <2>6, <2>7 DEF KeepInv
<1>7. ASSUME NEW w \in Workers, NEW t \in Tasks, ClaimLost(w, t) PROVE KeepInv'
  BY <1>7, <1>n, <1>t, <1>b, QuietStep DEF ClaimLost, workerVars, Busy
<1>8. ASSUME NEW w \in Workers, renewLease(w) PROVE KeepInv'
  <2>1. /\ Busy(w) /\ job[w] \in Tasks /\ tasks[job[w]].lease = "live"
        /\ tasks' = [tasks EXCEPT ![job[w]].lease = "live"]
        /\ UNCHANGED workerVars
    BY <1>8, <1>t, <1>b
       DEF renewLease, Busy, KeepInv, WorkerOwnsTask
  <2>2. tasks' = tasks
    <3>1. tasks[job[w]] \in Row
      BY <1>t, <2>1
    <3>2. [tasks[job[w]] EXCEPT !.lease = "live"] = tasks[job[w]]
      BY <2>1, <3>1 DEF Row
    <3> QED BY <1>t, <2>1, <3>2
  <2> QED BY <1>5, <2>1, <2>2
<1>9. ASSUME NEW w \in Workers, Commit(w) PROVE KeepInv'
  <2>1. /\ \A u \in Tasks : u # job[w] /\ u \notin result[w].kids =>
              tasks'[u] = tasks[u] \/ tasks[u].status = "waiting"
        /\ \A u \in result[w].kids : ~Exists(tasks[u])
    BY <1>9, <1>t, CommitRows DEF ConsInv, KidsReserved
  <2>2. Busy(w) /\ phase'[w] = "idle"
    BY <1>9, <1>t DEF Commit, Release, Busy, TypeOK
  <2>3. \A v \in Workers : v # w => /\ phase'[v] = phase[v] /\ job'[v] = job[v]
                                    /\ input'[v] = input[v]
    BY <1>9, <1>t DEF Commit, Release, TypeOK
  <2>4. \A v \in Workers : v # w /\ Busy(v) => job[v] # job[w]
    BY <2>2 DEF KeepInv, OneWorkerPerTask
  <2> QED BY <1>n, <1>b, <2>1, <2>2, <2>3, <2>4, QuietStep DEF Busy
<1>10. ASSUME NEW w \in Workers, Abandon(w) PROVE KeepInv'
  BY <1>10, <1>n, <1>t, QuietStep DEF Abandon, Release, Busy, TypeOK
<1>11. ASSUME NEW w \in Workers, NEW r \in Result, Handle(w, r) PROVE KeepInv'
  BY <1>11, <1>n, <1>t, QuietStep DEF Handle, Busy, TypeOK
<1>12. ASSUME NEW t \in Tasks, LeaseExpires(t), ~Owned(t) PROVE KeepInv'
  <2>1. /\ tasks[t].lease = "live" /\ ~Owned(t) /\ UNCHANGED workerVars
        /\ tasks' = [tasks EXCEPT ![t].lease = "expired"]
    BY <1>12 DEF LeaseExpires
  <2>2. \A w \in Workers : Busy(w) /\ job[w] = t => FALSE
    <3> SUFFICES ASSUME NEW w \in Workers, Busy(w), job[w] = t PROVE FALSE
      OBVIOUS
    <3>1. tasks[t].status = "failed"
      BY <2>1 DEF Owned, KeepInv, WorkerOwnsTask
    <3>2. tasks[t].lease = NULL
      BY <1>t, <3>1 DEF ConsInv, TableConsistent, Exists, Check, CheckLease
    <3> QED BY <2>1, <3>2, TableAssumption
  <2> QED BY <1>n, <1>t, <1>b, <2>1, <2>2, QuietStep DEF workerVars, Busy
<1>13. ASSUME NEW W \in SUBSET Workers, WorkersDie(W) PROVE KeepInv'
  BY <1>13, <1>n, <1>t, QuietStep DEF WorkersDie, Busy, TypeOK
<1>14. CASE Api
  <2>1. ASSUME NEW u \in Tasks, CancelBegin(u) PROVE UNCHANGED <<tasks, workerVars>>
    BY <2>1 DEF CancelBegin, Enter
  <2>2. ASSUME NEW u \in Tasks, NEW c \in Tasks, CancelVisit(u, c)
        PROVE  UNCHANGED <<tasks, workerVars>>
    BY <2>2 DEF CancelVisit, Enter
  <2>3. CancelAbort => UNCHANGED <<tasks, workerVars>>
    BY DEF CancelAbort
  <2> QED BY <1>2, <1>3, <1>4, <1>5, <1>14, <2>1, <2>2, <2>3, LifecycleAssumption DEF Api
<1>15. CASE Worker
  BY <1>6, <1>7, <1>8, <1>9, <1>10, <1>11, <1>15 DEF Worker
<1> QED BY <1>1, <1>12, <1>13, <1>14, <1>15 DEF KeptUp

(* If heartbeats keep up, this is every step, and KeepInv is inductive.    *)
LEMMA KeepNext ==
  ASSUME HeartbeatsKeepUp
  PROVE  KeepInv /\ [Next]_vars => KeepInv'
<1>1. Next => KeptUp
  BY DEF Next, Fault, KeptUp, LeaseExpires
<1> QED BY <1>1, KeepStep

(* KeepInv holds in every behaviour in which heartbeats keep up.           *)
LEMMA KeepAlways ==
  ASSUME HeartbeatsKeepUp
  PROVE  Spec => []KeepInv
<1>1. Init => KeepInv
  <2>1. Init => OneWorkerPerTask /\ WorkerOwnsTask /\ InputIsCurrent
    BY DEF Init, OneWorkerPerTask, WorkerOwnsTask, InputIsCurrent, Busy
  <2> QED BY <2>1, ConsInit DEF KeepInv
<1> QED BY <1>1, KeepNext, PTL DEF Spec

(* If no lease runs out under a worker that processes its task, no two     *)
(* workers ever process the same task: the claim statement of notify.go    *)
(* and the lease columns give mutual exclusion, across cancellations,      *)
(* resumptions, lost claims, failed commits and process deaths.            *)
THEOREM MutualExclusion ==
  ASSUME HeartbeatsKeepUp
  PROVE  Spec => []OneWorkerPerTask
<1>1. KeepInv => OneWorkerPerTask
  BY DEF KeepInv
<1> QED BY <1>1, KeepAlways, PTL

(* Under the same assumption a worker that processes a task owns its row,  *)
(* with a live lease, or the task was cancelled (notify.go, the claim;     *)
(* api.go, Cancel): nothing else takes a task away from its worker.        *)
THEOREM OwnershipHolds ==
  ASSUME HeartbeatsKeepUp
  PROVE  Spec => []WorkerOwnsTask
<1>1. KeepInv => WorkerOwnsTask
  BY DEF KeepInv
<1> QED BY <1>1, KeepAlways, PTL

(* Under the same assumption the state handed to a handler is the state in *)
(* the row for as long as the task runs, so that the NewState it returns   *)
(* overwrites nothing it has not seen (api.go, ResumeWithState).           *)
THEOREM InputStaysCurrent ==
  ASSUME HeartbeatsKeepUp
  PROVE  Spec => []InputIsCurrent
<1>1. KeepInv => InputIsCurrent
  BY DEF KeepInv
<1> QED BY <1>1, KeepAlways, PTL

(* Under the same assumption a finished task keeps its status: Commit, the *)
(* only step that could change it, is taken by the worker that owns the    *)
(* row, which therefore is running or was cancelled (worker.go,            *)
(* applyResult).                                                           *)
THEOREM TerminalStaysTerminal ==
  ASSUME HeartbeatsKeepUp
  PROVE  Spec => TerminalIsFinal
<1>1. ASSUME KeepInv, Next, NEW t \in Tasks, tasks[t].status = "completed"
      PROVE  tasks'[t].status = "completed"
  <2>t. tasks \in [Tasks -> Row] /\ Exists(tasks[t]) /\ ConsInv
    BY <1>1 DEF KeepInv, ConsInv, TypeOK, Exists
  <2>b. \A w \in Workers : Busy(w) => job[w] \in Tasks /\ job[w] # t
    BY <1>1, InProcessNotClaimable
  <2>1. CASE Api
    BY <1>1, <2>1, <2>t, LifecycleAssumption
       DEF Api, Create, CreateChild, Resume, ResumeWithState, CancelBegin, CancelVisit,
           CancelRow, CancelAbort, Enter, Free, CancelledRow, Terminal
  <2>2. ASSUME NEW w \in Workers, Commit(w) PROVE tasks'[t].status = "completed"
    <3>1. t # job[w]
      BY <2>b, <2>2 DEF Commit, Busy
    <3>2. t \notin result[w].kids
      BY <2>t DEF ConsInv, KidsReserved
    <3> QED BY <1>1, <2>t, <2>2, <3>1, <3>2, CommitRows
  <2>3. ASSUME NEW w \in Workers, renewLease(w) PROVE tasks'[t].status = "completed"
    <3>1. job[w] \in Tasks /\ t # job[w]
      BY <2>b, <2>3 DEF renewLease, Busy
    <3> QED BY <1>1, <2>t, <2>3, <3>1 DEF renewLease
  <2>4. CASE Worker
    BY <1>1, <2>2, <2>3, <2>4, <2>t
       DEF Worker, Claim, ClaimLost, Claimable, Abandon, Handle
  <2>5. ASSUME NEW u \in Tasks, LeaseExpires(u) PROVE tasks'[t].status = "completed"
    BY <1>1, <2>5, <2>t DEF LeaseExpires
  <2>6. ASSUME NEW W \in SUBSET Workers, WorkersDie(W) PROVE UNCHANGED tasks
    BY <2>6 DEF WorkersDie
  <2>7. CASE Fault
    BY <1>1, <2>5, <2>6, <2>7 DEF Fault
  <2> QED BY <1>1, <2>1, <2>4, <2>7 DEF Next
<1>2. KeepInv /\ [Next]_vars =>
        [\A t \in Tasks : tasks[t].status \in Terminal
                             => tasks'[t].status = tasks[t].status]_vars
  BY <1>1, FailedStep DEF Terminal, KeepInv
<1> QED BY <1>2, KeepAlways, PTL DEF Spec, TerminalIsFinal
=============================================================================

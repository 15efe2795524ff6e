--------------------------- MODULE TaskTableProofs ----------------------------
(***************************************************************************)
(* Lemmas about the statements of TaskTable: what each does to a row, and  *)
(* that a row within the CHECK constraints stays within them.              *)
(***************************************************************************)
EXTENDS TaskTable, TLAPS

------------------------------------------------------------------------------
(* Single rows.                                                            *)

(* The row that an INSERT makes (api.go, Create and CreateChild).          *)
LEMMA NewRowGood ==
  ASSUME NEW s \in States, NEW p \in Tasks \cup {NULL}
  PROVE  /\ NewRow(s, p) \in Row /\ Exists(NewRow(s, p)) /\ Check(NewRow(s, p))
         /\ NewRow(s, p).state = s /\ NewRow(s, p).state # NULL
         /\ NewRow(s, p).parent_id = p /\ NewRow(s, p).status = "pending"
BY TableAssumption DEF NewRow, Row, Statuses, Exists, Check, CheckLease, CheckError

(* The row that is taken out of waiting (api.go, Resume).                  *)
LEMMA ResumedRowGood ==
  ASSUME NEW r \in Row, r.status = "waiting"
  PROVE  /\ ResumedRow(r) \in Row /\ Exists(r) /\ Exists(ResumedRow(r))
         /\ Check(r) => Check(ResumedRow(r))
         /\ ResumedRow(r).status = "pending" /\ ResumedRow(r).state = r.state
         /\ ResumedRow(r).parent_id = r.parent_id
BY DEF ResumedRow, Row, Statuses, Exists, Check, CheckLease, CheckError

(* A lease that is renewed (worker.go, renewLease), or runs out.           *)
LEMMA LeaseRowGood ==
  ASSUME NEW r \in Row, NEW l \in {"live", "expired"}, r.lease # NULL, Check(r), Exists(r)
  PROVE  LET q == [r EXCEPT !.lease = l] IN
         /\ q \in Row /\ Exists(q) /\ Check(q)
         /\ q.status = r.status /\ q.state = r.state /\ q.parent_id = r.parent_id
         /\ q.worker_id = r.worker_id /\ q.error = r.error
BY TableAssumption DEF Row, Statuses, Exists, Check, CheckLease, CheckError

(* The claim (notify.go) leaves a row that satisfies the constraints.      *)
LEMMA ClaimedRowGood ==
  ASSUME NEW r \in Row, NEW w \in Workers, Claimable(r), Check(r)
  PROVE  /\ ClaimedRow(r, w) \in Row /\ Exists(r) /\ Exists(ClaimedRow(r, w))
         /\ Check(ClaimedRow(r, w))
         /\ ClaimedRow(r, w).state = r.state
         /\ ClaimedRow(r, w).parent_id = r.parent_id
BY TableAssumption
   DEF ClaimedRow, Claimable, Row, Statuses, Exists, Check, CheckLease, CheckError

(* So does the cancellation of an existing task (api.go).                  *)
LEMMA CancelledRowGood ==
  ASSUME NEW r \in Row, Exists(r), Check(r)
  PROVE  /\ CancelledRow(r) \in Row /\ Exists(CancelledRow(r))
         /\ Check(CancelledRow(r))
         /\ CancelledRow(r).state = r.state
         /\ CancelledRow(r).parent_id = r.parent_id
<1>1. CASE r.status \in Terminal
  BY <1>1 DEF CancelledRow
<1>2. CASE r.status \notin Terminal
  BY <1>2, TableAssumption
     DEF CancelledRow, Row, Statuses, Exists, Check, CheckLease, CheckError
<1> QED BY <1>1, <1>2

------------------------------------------------------------------------------
(* The end of a handler call (worker.go, applyResult).                     *)

(* The row that a valid handler result leaves (worker.go, applyResult) is  *)
(* a row; it keeps its parent and its state is set if it was set.          *)
LEMMA FinishedRowType ==
  ASSUME NEW r \in Row, NEW res \in Result, res.status # "invalid"
  PROVE  /\ FinishedRow(r, res) \in Row
         /\ FinishedRow(r, res).status = res.status
         /\ FinishedRow(r, res).parent_id = r.parent_id
         /\ res.status # "failed" => FinishedRow(r, res).error = r.error
         /\ r.state # NULL => FinishedRow(r, res).state # NULL
<1>1. res.status \in {"pending", "waiting", "completed", "failed"}
  BY DEF Result
<1>2. CASE res.status = "failed"
  BY <1>2 DEF FinishedRow, failTask, Row, Result, Statuses
<1>3. CASE res.status = "completed"
  BY <1>3 DEF FinishedRow, completeTask, updateTaskState, NewStateOr, Row, Result, Statuses
<1>4. CASE res.status \in {"pending", "waiting"}
  BY <1>4 DEF FinishedRow, updateTaskState, NewStateOr, Row, Result, Statuses
<1> QED BY <1>1, <1>2, <1>3, <1>4

(* A row whose task has not failed accepts every valid result within its   *)
(* constraints (worker.go, applyResult).                                   *)
LEMMA FinishedRowCheck ==
  ASSUME NEW r \in Row, NEW res \in Result, res.status # "invalid", r.error = NULL
  PROVE  Check(FinishedRow(r, res))
<1>1. res.status \in {"pending", "waiting", "completed", "failed"}
  BY DEF Result
<1>2. CASE res.status = "failed"
  BY <1>2, TableAssumption DEF FinishedRow, failTask, Row, Check, CheckLease, CheckError
<1>3. CASE res.status = "completed"
  BY <1>3 DEF FinishedRow, completeTask, updateTaskState, Row, Check, CheckLease, CheckError
<1>4. CASE res.status \in {"pending", "waiting"}
  BY <1>4 DEF FinishedRow, updateTaskState, Row, Check, CheckLease, CheckError
<1> QED BY <1>1, <1>2, <1>3, <1>4

(* What the transaction of a finished handler call does to each row: the   *)
(* task's own row is finished, its new children are inserted, and of the   *)
(* others at most a waiting parent changes, to pending (worker.go,         *)
(* applyResult and maybeResumeParent).                                     *)
LEMMA CommitShape ==
  ASSUME NEW tbl \in [Tasks -> Row], NEW t \in Tasks, NEW res \in Result,
         res.status # "invalid", t \notin res.kids,
         NEW u \in Tasks
  PROVE  LET new == applyResult(WithChildren(tbl, t, res.kids), t, res) IN
         /\ new \in [Tasks -> Row]
         /\ u = t => new[u] = FinishedRow(tbl[t], res)
         /\ u \in res.kids => new[u] = NewRow(EmptyState, t)
         /\ u # t /\ u \notin res.kids =>
              \/ new[u] = tbl[u]
              \/ tbl[u].status = "waiting" /\ new[u] = ResumedRow(tbl[u])
<1> DEFINE base == WithChildren(tbl, t, res.kids)
           done == [base EXCEPT ![t] = FinishedRow(base[t], res)]
           new == applyResult(base, t, res)
<1>1. base \in [Tasks -> Row] /\ base[t] = tbl[t]
  BY TableAssumption DEF WithChildren, NewRow, Row, Statuses
<1>2. FinishedRow(tbl[t], res) \in Row /\ FinishedRow(tbl[t], res).status = res.status
  BY FinishedRowType
<1>3. done \in [Tasks -> Row] /\ done[t] = FinishedRow(tbl[t], res)
  BY <1>1, <1>2
<1>4. /\ u \in res.kids => done[u] = NewRow(EmptyState, t)
      /\ u # t /\ u \notin res.kids => done[u] = tbl[u]
  BY <1>1 DEF WithChildren
<1>5. CASE res.status \notin Terminal
  <2>1. new = done
    BY <1>5 DEF applyResult
  <2> HIDE DEF new, done, base
  <2> QED BY <2>1, <1>3, <1>4 DEF new, base
<1>6. CASE res.status \in Terminal
  <2>1. new = maybeResumeParent(done, t)
    BY <1>6 DEF applyResult
  <2>2. CASE ~WakesParent(done, t)
    <3>1. new = done
      BY <2>1, <2>2 DEF maybeResumeParent
    <3> HIDE DEF new, done, base
    <3> QED BY <3>1, <1>3, <1>4 DEF new, base
  <2>3. CASE WakesParent(done, t)
    <3> DEFINE p == done[t].parent_id
    <3>1. p \in Tasks /\ done[p].status = "waiting"
      BY <2>3, <1>3 DEF WakesParent, Row
    <3>2. new = [done EXCEPT ![p] = ResumedRow(done[p])]
      BY <2>1, <2>3 DEF maybeResumeParent
    <3>3. ResumedRow(done[p]) \in Row
      BY <3>1, <1>3 DEF ResumedRow, Row, Statuses
    <3>4. p # t
      BY <3>1, <1>2, <1>3, <1>6 DEF Terminal
    <3>5. u \in res.kids => u # p
      BY <3>1, <1>4 DEF NewRow
    <3> HIDE DEF new, done, base, p
    <3>6. new \in [Tasks -> Row]
      BY <3>1, <3>2, <3>3, <1>3
    <3>7. u # p => new[u] = done[u]
      BY <3>1, <3>2, <1>3
    <3>8. u = p => new[u] = ResumedRow(done[u])
      BY <3>1, <3>2, <1>3
    <3>9. new[t] = FinishedRow(tbl[t], res)
      BY <3>1, <3>2, <3>4, <1>3
    <3>10. u = p /\ u \notin res.kids =>
             tbl[u].status = "waiting" /\ new[u] = ResumedRow(tbl[u])
      BY <3>1, <3>4, <3>8, <1>4
    <3> QED BY <3>5, <3>6, <3>7, <3>9, <3>10, <1>4 DEF new, base
  <2> QED BY <2>2, <2>3
<1> QED BY <1>5, <1>6

(* The parent that maybeResumeParent finds waiting is pending afterwards.  *)
LEMMA CommitWakes ==
  ASSUME NEW tbl \in [Tasks -> Row], NEW t \in Tasks, NEW res \in Result,
         res.status \in Terminal, t \notin res.kids, WakesParent(tbl, t),
         tbl[t].parent_id # t, tbl[t].parent_id \notin res.kids
  PROVE  /\ tbl[t].parent_id \in Tasks
         /\ applyResult(WithChildren(tbl, t, res.kids), t, res)[tbl[t].parent_id]
              = ResumedRow(tbl[tbl[t].parent_id])
<1> DEFINE base == WithChildren(tbl, t, res.kids)
           fin == FinishedRow(tbl[t], res)
           done == [base EXCEPT ![t] = fin]
           p == tbl[t].parent_id
           new == applyResult(base, t, res)
<1>1. res.status # "invalid" /\ fin \in Row /\ fin.parent_id = p
  BY FinishedRowType DEF Terminal
<1>2. base \in [Tasks -> Row] /\ base[t] = tbl[t]
  BY TableAssumption DEF WithChildren, NewRow, Row, Statuses
<1>3. p \in Tasks /\ base[p] = tbl[p] /\ tbl[p].status = "waiting"
  BY DEF WakesParent, WithChildren, Row
<1>4. done[t] = fin /\ done[p] = tbl[p] /\ done \in [Tasks -> Row]
  BY <1>1, <1>2, <1>3
<1>5. new = maybeResumeParent(done, t)
  BY <1>2 DEF applyResult
<1>6. WakesParent(done, t)
  <2> HIDE DEF done, fin
  <2> QED BY <1>1, <1>3, <1>4 DEF WakesParent
<1>7. new = [done EXCEPT ![done[t].parent_id] = ResumedRow(done[done[t].parent_id])]
  BY <1>5, <1>6 DEF maybeResumeParent
<1> HIDE DEF done, new, fin, base
<1>8. new[p] = ResumedRow(tbl[p])
  BY <1>1, <1>3, <1>4, <1>7
<1> QED BY <1>3, <1>8 DEF new, base
=============================================================================

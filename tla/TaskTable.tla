------------------------------ MODULE TaskTable ------------------------------
(***************************************************************************)
(* The "tasks" table of the video manager (migration 000001_initial) and   *)
(* the SQL statements of internal/lib/vmtask that read and write it, as    *)
(* operators on rows and on whole tables.  The module has no variables:    *)
(* TaskLifecycle and TaskDispatch both build their actions from it.        *)
(*                                                                         *)
(* Data abstraction.  The JSON state is a value of the set States.  A      *)
(* lease is NULL, "live" (lease_expires_at is in the future) or "expired"; *)
(* the clock only appears as the step that turns the one into the other.   *)
(* An error text is "cancelled" (api.go) or "error" (any other message).   *)
(***************************************************************************)

CONSTANTS Tasks,       \* ids the SERIAL column can hand out
          Workers,     \* worker ids (a uuid per worker goroutine, never reused)
          States,      \* values of the state column
          EmptyState,  \* '{}', the state of a task created with a nil state
          NULL

ASSUME TableAssumption ==
  /\ EmptyState \in States
  /\ NULL \notin Tasks
  /\ NULL \notin Workers
  /\ NULL \notin States
  /\ NULL \notin {"live", "expired", "cancelled", "error"}

------------------------------------------------------------------------------

Statuses == {"pending", "running", "waiting", "completed", "failed"}
Terminal == {"completed", "failed"}

(* One row.  "absent" is the row of an id that has not been inserted yet.  *)
Row == [status    : Statuses \cup {"absent"},
        worker_id : Workers \cup {NULL},
        lease     : {"live", "expired", NULL},
        error     : {"cancelled", "error", NULL},
        state     : States \cup {NULL},
        parent_id : Tasks \cup {NULL}]

AbsentRow == [status |-> "absent", worker_id |-> NULL, lease |-> NULL,
              error |-> NULL, state |-> NULL, parent_id |-> NULL]

EmptyTable == [t \in Tasks |-> AbsentRow]

Exists(r) == r.status # "absent"

(* The two CHECK constraints: a statement whose new row breaks one of them *)
(* is an error and aborts its transaction.                                 *)
CheckLease(r) ==
  \/ r.status = "running" /\ r.worker_id # NULL /\ r.lease # NULL
  \/ r.status # "running" /\ r.worker_id = NULL /\ r.lease = NULL

CheckError(r) ==
  \/ r.status = "failed" /\ r.error # NULL
  \/ r.status # "failed" /\ r.error = NULL

Check(r) == CheckLease(r) /\ CheckError(r)

------------------------------------------------------------------------------
(* Statements of api.go and of the scanner.                                *)

(* INSERT INTO tasks (task_type, state[, parent_id]): the column defaults  *)
(* fill the rest.                                                          *)
NewRow(s, p) == [status |-> "pending", worker_id |-> NULL, lease |-> NULL,
                 error |-> NULL, state |-> s, parent_id |-> p]

(* The WHERE clause of the claim.                                          *)
Claimable(r) == \/ r.status = "pending"
                \/ r.status = "running" /\ r.lease = "expired"

ClaimedRow(r, w) == [r EXCEPT !.status = "running",
                              !.worker_id = w,
                              !.lease = "live"]

(* SET status = 'pending' ... WHERE status = 'waiting' [, state = s].      *)
ResumedRow(r) == [r EXCEPT !.status = "pending"]
ResumedWithStateRow(r, s) == [ResumedRow(r) EXCEPT !.state = s]

(* Cancel leaves a finished task, or an id without a row, alone.           *)
CancelledRow(r) ==
  IF ~Exists(r) \/ r.status \in Terminal THEN r
  ELSE [r EXCEPT !.status = "failed", !.error = "cancelled",
                 !.worker_id = NULL, !.lease = NULL]

Children(tbl, p) == {c \in Tasks : Exists(tbl[c]) /\ tbl[c].parent_id = p}
Unfinished(tbl, t) == Exists(tbl[t]) /\ tbl[t].status \notin Terminal

------------------------------------------------------------------------------
(* Statements of worker.go: what a finished handler call does to the table.*)
(* None of them looks at the row's worker_id, and none resets its error.   *)

NewStateOr(r, ns) == IF ns = NULL THEN r.state ELSE ns

(* Mutant: the lease is left in the row.                                   *)
updateTaskState_KeepLease(r, ns, status) ==
  [r EXCEPT !.state = NewStateOr(r, ns), !.status = status]

(* Mutant: the statement resets the error as well.                         *)
updateTaskState_ClearError(r, ns, status) ==
  [r EXCEPT !.state = NewStateOr(r, ns), !.status = status,
            !.worker_id = NULL, !.lease = NULL, !.error = NULL]

updateTaskState(r, ns, status) ==
  [r EXCEPT !.state = NewStateOr(r, ns), !.status = status,
            !.worker_id = NULL, !.lease = NULL]

completeTask(r, ns) == updateTaskState(r, ns, "completed")

failTask(r) == [r EXCEPT !.status = "failed", !.error = "error",
                         !.worker_id = NULL, !.lease = NULL]

FinishedRow(r, res) ==
  CASE res.status = "completed"            -> completeTask(r, res.state)
    [] res.status = "failed"               -> failTask(r)
    [] res.status \in {"pending", "waiting"} ->
                          updateTaskState(r, res.state, res.status)

(* The parent that the end of task c takes out of waiting.                 *)
WakesParent(tbl, c) ==
  LET p == tbl[c].parent_id IN p # NULL /\ tbl[p].status = "waiting"

maybeResumeParent(tbl, c) ==
  IF WakesParent(tbl, c)
  THEN [tbl EXCEPT ![tbl[c].parent_id] = ResumedRow(tbl[tbl[c].parent_id])]
  ELSE tbl

applyResult(tbl, t, res) ==
  LET done == [tbl EXCEPT ![t] = FinishedRow(tbl[t], res)]
  IN  IF res.status \in Terminal THEN maybeResumeParent(done, t) ELSE done

(* The children a handler inserted in its transaction with CreateChild.    *)
WithChildren(tbl, p, kids) ==
  [t \in Tasks |-> IF t \in kids THEN NewRow(EmptyState, p) ELSE tbl[t]]

(* What a handler returns, with the children its transaction created.      *)
(* "invalid" stands for 'running' and for every unknown status, which      *)
(* applyResult turns into an error.                                        *)
Result == [status : {"pending", "waiting", "completed", "failed", "invalid"},
           state  : States \cup {NULL},
           kids   : SUBSET Tasks]

NoResult == [status |-> "none", state |-> NULL, kids |-> {}]
=============================================================================

---------------------------- MODULE TaskLifecycle ----------------------------
(***************************************************************************)
(* The life of a task: the API of api.go, the claim of the scanner, the    *)
(* worker's processTask with its heartbeat, and the loss of leases and of  *)
(* processes.  Which live worker claims which claimable task is left open  *)
(* here; TaskDispatch says how the scanner decides it, and implements this *)
(* specification.                                                          *)
(*                                                                         *)
(* Atomicity.  Every statement outside a transaction is one step, and so   *)
(* is the short claim transaction.  The handler's transaction is READ      *)
(* COMMITTED: the handler runs (reads) in one step and everything the      *)
(* transaction writes appears in the later step that commits it.           *)
(***************************************************************************)
EXTENDS TaskTable, FiniteSets, Naturals

CONSTANTS
  HeartbeatsKeepUp, \* TRUE: no lease runs out while its owner is processing
  JoinHandlers,     \* TRUE: handlers return Waiting only for unfinished children
  Cancellable,      \* the tasks that callers may pass to Cancel
  MaxKids           \* bound: children one handler call creates

ASSUME LifecycleAssumption ==
  /\ HeartbeatsKeepUp \in BOOLEAN
  /\ JoinHandlers \in BOOLEAN
  /\ Cancellable \subseteq Tasks
  /\ MaxKids \in Nat

VARIABLES
  tasks,  \* the table
  phase,  \* per worker: "idle", "assigned" (Handle runs), "returned", "dead"
  job,    \* per worker: the task of its assignment
  input,  \* per worker: the state column as the claim returned it
  result, \* per worker: what Handle returned, until it is committed
  open,   \* Cancel: the calls of cancelRecursive that have not returned
  todo    \* Cancel: per open call, the child ids it read and has yet to visit

workerVars == <<phase, job, input, result>>
cancelVars == <<open, todo>>
vars == <<tasks, workerVars, cancelVars>>

Busy(w) == phase[w] \in {"assigned", "returned"}

(* Ids nobody has inserted or drawn from the sequence.                     *)
Free == {t \in Tasks : /\ ~Exists(tasks[t])
                       /\ \A w \in Workers : t \notin result[w].kids}

Init ==
  /\ tasks = EmptyTable
  /\ phase = [w \in Workers |-> "idle"]
  /\ job = [w \in Workers |-> NULL]
  /\ input = [w \in Workers |-> NULL]
  /\ result = [w \in Workers |-> NoResult]
  /\ open = {}
  /\ todo = [t \in Tasks |-> {}]

------------------------------------------------------------------------------
(* The API (api.go).                                                       *)

Create(t, s) ==
  /\ t \in Free
  /\ tasks' = [tasks EXCEPT ![t] = NewRow(s, NULL)]
  /\ UNCHANGED <<workerVars, cancelVars>>

(* The foreign key on parent_id makes the insert fail without the parent.  *)
CreateChild(p, t, s) ==
  /\ t \in Free
  /\ Exists(tasks[p])
  /\ tasks' = [tasks EXCEPT ![t] = NewRow(s, p)]
  /\ UNCHANGED <<workerVars, cancelVars>>

Resume(t) ==
  /\ tasks[t].status = "waiting"
  /\ tasks' = [tasks EXCEPT ![t] = ResumedRow(tasks[t])]
  /\ UNCHANGED <<workerVars, cancelVars>>

(* Mutant: the statement without "AND status = 'waiting'".                 *)
ResumeWithState_AnyStatus(t, s) ==
  /\ tasks[t].status \in {"waiting", "running"}
  /\ tasks' = [tasks EXCEPT ![t].state = s]
  /\ UNCHANGED <<workerVars, cancelVars>>

ResumeWithState(t, s) ==
  /\ tasks[t].status = "waiting"
  /\ tasks' = [tasks EXCEPT ![t] = ResumedWithStateRow(tasks[t], s)]
  /\ UNCHANGED <<workerVars, cancelVars>>

(* Cancel walks the tree of descendants depth first, one autocommitted     *)
(* statement at a time.  The open calls form a path in the tree, so the    *)
(* innermost one is the open task none of whose children is open.          *)
Innermost(t) == t \in open /\ Children(tasks, t) \cap open = {}

Enter(t) ==
  /\ open' = open \cup {t}
  /\ UNCHANGED <<tasks, workerVars>>

CancelBegin(t) ==
  /\ open = {}
  /\ Enter(t)
  /\ todo' = [todo EXCEPT ![t] = Children(tasks, t)]

CancelVisit(t, c) ==
  /\ Innermost(t)
  /\ c \in todo[t]
  /\ Enter(c)
  /\ todo' = [todo EXCEPT ![t] = @ \ {c}, ![c] = Children(tasks, c)]

CancelRow(t) ==
  /\ Innermost(t)
  /\ todo[t] = {}
  /\ tasks' = [tasks EXCEPT ![t] = CancelledRow(tasks[t])]
  /\ open' = open \ {t}
  /\ UNCHANGED <<todo, workerVars>>

(* A statement failed: every open call returns the error.                  *)
CancelAbort ==
  /\ open # {}
  /\ open' = {}
  /\ todo' = [t \in Tasks |-> {}]
  /\ UNCHANGED <<tasks, workerVars>>

------------------------------------------------------------------------------
(* Claim, processing and heartbeat (notify.go, worker.go).                 *)

(* Mutant: the claim takes any running task, expired or not.               *)
Claim_AnyRunning(w, t) ==
  /\ phase[w] = "idle"
  /\ tasks[t].status \in {"pending", "running"}
  /\ tasks' = [tasks EXCEPT ![t] = ClaimedRow(tasks[t], w)]
  /\ phase' = [phase EXCEPT ![w] = "assigned"]
  /\ job' = [job EXCEPT ![w] = t]
  /\ input' = [input EXCEPT ![w] = tasks[t].state]
  /\ UNCHANGED <<result, cancelVars>>

Claim(w, t) ==
  /\ phase[w] = "idle"
  /\ Claimable(tasks[t])
  /\ tasks' = [tasks EXCEPT ![t] = ClaimedRow(tasks[t], w)]
  /\ phase' = [phase EXCEPT ![w] = "assigned"]
  /\ job' = [job EXCEPT ![w] = t]
  /\ input' = [input EXCEPT ![w] = tasks[t].state]
  /\ UNCHANGED <<result, cancelVars>>

(* The claim is committed but its assignment never reaches the worker: the *)
(* commit reported an error, or the context ended before the dispatch.     *)
ClaimLost(w, t) ==
  /\ phase[w] = "idle"
  /\ Claimable(tasks[t])
  /\ tasks' = [tasks EXCEPT ![t] = ClaimedRow(tasks[t], w)]
  /\ UNCHANGED <<workerVars, cancelVars>>

(* Mutant: the heartbeat's statement without "AND worker_id = $2".         *)
RenewLease_AnyOwner(w) ==
  /\ phase[w] = "assigned"
  /\ tasks[job[w]].status = "running"
  /\ tasks' = [tasks EXCEPT ![job[w]].lease = "live"]
  /\ UNCHANGED <<workerVars, cancelVars>>

(* One tick of the heartbeat.  A tick that updates no row is logged only.  *)
renewLease(w) ==
  /\ phase[w] = "assigned"
  /\ tasks[job[w]].status = "running" /\ tasks[job[w]].worker_id = w
  /\ tasks' = [tasks EXCEPT ![job[w]].lease = "live"]
  /\ UNCHANGED <<workerVars, cancelVars>>

(* handler.Handle returns r.  Its transaction is still open.               *)
Handle(w, r) ==
  /\ phase[w] = "assigned"
  /\ r \in Result
  /\ r.kids \subseteq Free /\ Cardinality(r.kids) <= MaxKids
  /\ JoinHandlers /\ r.status = "waiting" =>
       \/ r.kids # {}
       \/ \E c \in Children(tasks, job[w]) : Unfinished(tasks, c)
  /\ phase' = [phase EXCEPT ![w] = "returned"]
  /\ result' = [result EXCEPT ![w] = r]
  /\ UNCHANGED <<tasks, job, input, cancelVars>>

(* Mutant: the finished assignment stays behind.                           *)
Release_KeepJob(w) ==
  /\ phase' = [phase EXCEPT ![w] = "idle"]
  /\ result' = [result EXCEPT ![w] = NoResult]
  /\ UNCHANGED <<job, input, cancelVars>>

Release(w) ==
  /\ phase' = [phase EXCEPT ![w] = "idle"]
  /\ job' = [job EXCEPT ![w] = NULL]
  /\ input' = [input EXCEPT ![w] = NULL]
  /\ result' = [result EXCEPT ![w] = NoResult]
  /\ UNCHANGED cancelVars

(* Mutant: the result is written although the row breaks a constraint.     *)
Commit_Unchecked(w) ==
  LET t == job[w] IN
  /\ phase[w] = "returned"
  /\ result[w].status # "invalid"
  /\ tasks' = applyResult(WithChildren(tasks, t, result[w].kids), t, result[w])
  /\ Release(w)

(* applyResult and tx.Commit succeed.                                      *)
Commit(w) ==
  LET t == job[w] IN
  /\ phase[w] = "returned"
  /\ result[w].status # "invalid"
  /\ Check(FinishedRow(tasks[t], result[w]))
  /\ tasks' = applyResult(WithChildren(tasks, t, result[w].kids), t, result[w])
  /\ Release(w)

(* processTask logs an error and returns: Begin, applyResult (an invalid   *)
(* status, a CHECK, an aborted transaction) or Commit failed.  The row is  *)
(* untouched, so the task stays 'running' until its lease runs out.        *)
Abandon(w) ==
  /\ Busy(w)
  /\ Release(w)
  /\ UNCHANGED tasks

------------------------------------------------------------------------------
(* Time and faults.                                                        *)

Owned(t) == \E w \in Workers : Busy(w) /\ job[w] = t /\ tasks[t].worker_id = w

(* Mutant: a lease so short that it runs out between two heartbeats.       *)
LeaseExpires_TooShort(t) ==
  /\ tasks[t].lease = "live"
  /\ tasks' = [tasks EXCEPT ![t].lease = "expired"]
  /\ UNCHANGED <<workerVars, cancelVars>>

(* NOW() passes lease_expires_at.  LeaseDuration is five heartbeats long.  *)
LeaseExpires(t) ==
  /\ tasks[t].lease = "live"
  /\ HeartbeatsKeepUp => ~Owned(t)
  /\ tasks' = [tasks EXCEPT ![t].lease = "expired"]
  /\ UNCHANGED <<workerVars, cancelVars>>

(* The process that hosts the workers in W ends.  A restarted process      *)
(* gives its workers new ids, so a dead worker stays dead; open            *)
(* transactions roll back.                                                 *)
WorkersDie(W) ==
  /\ W # {}
  /\ \A w \in W : phase[w] # "dead"
  /\ phase' = [w \in Workers |-> IF w \in W THEN "dead" ELSE phase[w]]
  /\ job' = [w \in Workers |-> IF w \in W THEN NULL ELSE job[w]]
  /\ input' = [w \in Workers |-> IF w \in W THEN NULL ELSE input[w]]
  /\ result' = [w \in Workers |-> IF w \in W THEN NoResult ELSE result[w]]
  /\ UNCHANGED <<tasks, cancelVars>>

------------------------------------------------------------------------------

Api ==
  \/ \E t \in Tasks, s \in States : Create(t, s) \/ ResumeWithState(t, s)
  \/ \E p, t \in Tasks, s \in States : CreateChild(p, t, s)
  \/ \E t \in Tasks : Resume(t) \/ CancelRow(t)
  \/ \E t \in Cancellable : CancelBegin(t)
  \/ \E t, c \in Tasks : CancelVisit(t, c)
  \/ CancelAbort

Worker ==
  \/ \E w \in Workers, t \in Tasks : Claim(w, t) \/ ClaimLost(w, t)
  \/ \E w \in Workers : renewLease(w) \/ Commit(w) \/ Abandon(w)
  \/ \E w \in Workers, r \in Result : Handle(w, r)

Fault ==
  \/ \E t \in Tasks : LeaseExpires(t)
  \/ \E W \in SUBSET Workers : WorkersDie(W)

Next == Api \/ Worker \/ Fault

Spec == Init /\ [][Next]_vars

------------------------------------------------------------------------------
(* Invariants.                                                             *)

(* Types; a worker has an assignment exactly while it processes one, and a *)
(* result exactly between the handler's return and the end of processTask. *)
TypeOK ==
  /\ tasks \in [Tasks -> Row]
  /\ phase \in [Workers -> {"idle", "assigned", "returned", "dead"}]
  /\ job \in [Workers -> Tasks \cup {NULL}]
  /\ input \in [Workers -> States \cup {NULL}]
  /\ result \in [Workers -> Result \cup {NoResult}]
  /\ open \in SUBSET Tasks
  /\ todo \in [Tasks -> SUBSET Tasks]
  /\ \A w \in Workers : /\ Busy(w) <=> job[w] # NULL
                        /\ phase[w] = "returned" <=> result[w] # NoResult

(* Every row satisfies the CHECK constraints and the foreign key of the    *)
(* tasks table (migration 000001), whatever the statements of vmtask do.   *)
TableConsistent ==
  \A t \in Tasks : Exists(tasks[t]) =>
    /\ Check(tasks[t])
    /\ tasks[t].state # NULL
    /\ tasks[t].parent_id # NULL => Exists(tasks[tasks[t].parent_id])

(* As long as heartbeats keep up, no two workers process the same task:    *)
(* claiming with FOR UPDATE and leases gives mutual exclusion, across      *)
(* cancellations, resumptions, failed commits and process deaths.          *)
OneWorkerPerTask ==
  \A v, w \in Workers : Busy(v) /\ Busy(w) /\ job[v] = job[w] => v = w

(* As long as heartbeats keep up, the row of a task that is being          *)
(* processed names its worker and holds a live lease, unless the task was  *)
(* cancelled meanwhile: leases are lost to Cancel alone.                   *)
WorkerOwnsTask ==
  \A w \in Workers : Busy(w) =>
    \/ tasks[job[w]].status = "failed"
    \/ /\ tasks[job[w]].status = "running" /\ tasks[job[w]].worker_id = w
       /\ tasks[job[w]].lease = "live"

(* The state a worker was handed at the claim is still the state in the    *)
(* row while the task runs: nobody, ResumeWithState included, changes it   *)
(* under a running handler, so its NewState overwrites nothing unseen.     *)
InputIsCurrent ==
  \A w \in Workers :
    Busy(w) /\ tasks[job[w]].status = "running" => input[w] = tasks[job[w]].state

(* What TableConsistent needs to be inductive: a task that is processed    *)
(* has a row, and the children a handler has created, but not committed,   *)
(* have none and belong to one worker only.                                *)
JobsExist == \A w \in Workers : Busy(w) => Exists(tasks[job[w]])

KidsReserved ==
  /\ \A w \in Workers : \A c \in result[w].kids : ~Exists(tasks[c])
  /\ \A v, w \in Workers : v # w => result[v].kids \cap result[w].kids = {}

(* A parent that waits for its children always has an unfinished one, so   *)
(* that some child's end will resume it (worker.go, maybeResumeParent).    *)
WaitingParentHasLiveChild ==
  \A t \in Tasks : tasks[t].status = "waiting" =>
    \E c \in Children(tasks, t) : Unfinished(tasks, c)

------------------------------------------------------------------------------
(* Action properties.                                                      *)

(* A failed task, cancelled or not, stays failed: a worker that finishes   *)
(* a task after it was cancelled, or after losing its lease, cannot bring  *)
(* it back, because its UPDATE leaves the error set and breaks a CHECK.    *)
FailedIsFinal ==
  [][\A t \in Tasks : tasks[t].status = "failed" => tasks'[t].status = "failed"]_vars

(* As long as heartbeats keep up, a finished task never changes status.    *)
TerminalIsFinal ==
  [][\A t \in Tasks : tasks[t].status \in Terminal
                        => tasks'[t].status = tasks[t].status]_vars

(* The expired lease of a dead worker is never revived while the row      *)
(* names that worker: the heartbeat of a worker that lost the task to it   *)
(* does not keep the task from being reclaimed (worker.go, renewLease).    *)
OnlyOwnerRenews ==
  [][\A t \in Tasks :
       tasks[t].lease = "expired" /\ phase[tasks[t].worker_id] = "dead"
         => \/ tasks'[t].lease = "expired"
            \/ tasks'[t].worker_id # tasks[t].worker_id]_vars
=============================================================================

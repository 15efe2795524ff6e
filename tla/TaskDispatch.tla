---------------------------- MODULE TaskDispatch -----------------------------
(***************************************************************************)
(* How tasks reach workers: the goroutines that StartHandlers runs in each *)
(* process (one scanner, the workers, the notification listener), the      *)
(* channels between them, Postgres LISTEN/NOTIFY, and the end of the       *)
(* context or of the process.  It implements TaskLifecycle.                *)
(*                                                                         *)
(* A process is a member of Servers and is started at most once; a restart *)
(* is the start of another member, with other worker ids.  ORDER BY        *)
(* created_at is left open: the scanner may claim any task its query can   *)
(* lock.  Cancel, which no goroutine of a server calls, is left to         *)
(* TaskLifecycle.                                                          *)
(*                                                                         *)
(* Row locks.  A transaction keeps the rows it has updated, or selected    *)
(* FOR UPDATE, locked until it ends.  A statement that finds a row locked  *)
(* waits (its action is not enabled); the scanner's query skips the row.   *)
(* What a transaction writes appears in the table when it commits.         *)
(***************************************************************************)
EXTENDS TaskTable, FiniteSets, Naturals, Sequences

CONSTANTS
  Servers,
  Home,             \* the server each worker belongs to
  Outcomes,         \* the statuses that handlers return
  NewStates,        \* the NewState that handlers return, NULL for none
  MayHappen,        \* what callers, time and failures may do
  HeartbeatsKeepUp, \* see TaskLifecycle
  MaxKids,          \* bound: children one handler call creates
  MaxNotify         \* bound: notifications counted per connection

ASSUME DispatchAssumption ==
  /\ NULL \notin Servers
  /\ Servers \cap Workers = {}
  /\ Home \in [Workers -> Servers]
  /\ \A s \in Servers : \E w \in Workers : Home[w] = s
  /\ Outcomes \subseteq {"pending", "waiting", "completed", "failed", "invalid"}
  /\ NewStates \subseteq States \cup {NULL}
  /\ MayHappen \subseteq {"crash", "database", "listener", "shutdown", "lease", "resume"}
  /\ HeartbeatsKeepUp \in BOOLEAN
  /\ MaxKids \in Nat
  /\ MaxNotify \in Nat \ {0}

VARIABLES
  tasks,      \* the table
  locks,      \* per row: who has locked it, a server's scanner or a worker
  ctx,        \* per server: its context, or "dead" once the process has ended
  scan,       \* per server: where the scanner is
  held,       \* per server: the worker the scanner took from the pool
  claimed,    \* per server: the claim the scanner commits and dispatches
  available,  \* per server: the buffered channel of idle workers
  returning,  \* workers that a helper goroutine is putting back
  goroutine,  \* per worker: where its goroutine is
  assignment, \* per worker: the taskAssignment it processes
  result,     \* per worker: what Handle returned, until it is committed
  tx,         \* per worker: how far applyResult has come in its transaction
  listener,   \* per server: where the notification goroutine is
  notif,      \* per server: notifications its connection holds
  announced,  \* history, per server: tasks it was notified of that are pending since
  skipped     \* history, per server: tasks that its last query without a result
              \* skipped, and that are pending since and not announced again

scannerVars == <<scan, held, claimed>>
workerVars == <<goroutine, assignment, result>>
poolVars == <<available, returning>>
listenVars == <<listener, notif, announced, skipped>>
lockVars == <<locks, tx>>
vars == <<tasks, ctx, scannerVars, workerVars, poolVars, listenVars, lockVars>>

Assignment == [task : Tasks, state : States]
NoAssignment == [task |-> NULL, state |-> NULL]

Alive(s) == ctx[s] \in {"up", "cancelled"}
Crew(s) == {w \in Workers : Home[w] = s}

(* The environment of a database statement: it succeeds only while the     *)
(* context lives, and it may fail at any time if MayHappen says so.        *)
DbMayFail(s) == ctx[s] = "cancelled" \/ "database" \in MayHappen

Free == {t \in Tasks : /\ ~Exists(tasks[t])
                       /\ \A w \in Workers : t \notin result[w].kids}

(* Row locks, by the sessions that hold them.                              *)
Locked(t) == locks[t] # NULL
Unlock(S) == locks' = [t \in Tasks |-> IF locks[t] \in S THEN NULL ELSE locks[t]]

(* The foreign key of children that are not committed yet locks the row of *)
(* their parent FOR KEY SHARE, which only FOR UPDATE cannot stand.         *)
Referenced(t) == \E w \in Workers : assignment[w].task = t /\ result[w].kids # {}

Listening(s) == Alive(s) /\ listener[s] \in {"waiting", "sending"}

(* A transaction that executed NOTIFY for the tasks in T, and takes those  *)
(* in L out of pending, commits.                                           *)
notify(T, L) ==
  /\ notif' = [s \in Servers |->
                 IF T # {} /\ Listening(s) /\ notif[s] < MaxNotify THEN notif[s] + 1
                                                                   ELSE notif[s]]
  /\ announced' = [s \in Servers |->
                     (announced[s] \ L) \cup (IF Listening(s) THEN T ELSE {})]
  /\ skipped' = [s \in Servers |-> skipped[s] \ (T \cup L)]
  /\ UNCHANGED listener

Init ==
  /\ tasks = EmptyTable
  /\ locks = [t \in Tasks |-> NULL]
  /\ ctx = [s \in Servers |-> "off"]
  /\ scan = [s \in Servers |-> "off"]
  /\ held = [s \in Servers |-> NULL]
  /\ claimed = [s \in Servers |-> NoAssignment]
  /\ available = [s \in Servers |-> <<>>]
  /\ returning = {}
  /\ goroutine = [w \in Workers |-> "off"]
  /\ assignment = [w \in Workers |-> NoAssignment]
  /\ result = [w \in Workers |-> NoResult]
  /\ tx = [w \in Workers |-> "none"]
  /\ listener = [s \in Servers |-> "off"]
  /\ notif = [s \in Servers |-> 0]
  /\ announced = [s \in Servers |-> {}]
  /\ skipped = [s \in Servers |-> {}]

------------------------------------------------------------------------------
(* StartHandlers, and the HTTP side of the process, which main starts only *)
(* after StartHandlers has returned.                                       *)

StartHandlers(s) ==
  /\ ctx[s] = "off"
  /\ ctx' = [ctx EXCEPT ![s] = "up"]
  /\ scan' = [scan EXCEPT ![s] = "need"]
  /\ goroutine' = [w \in Workers |->
                     IF w \in Crew(s) THEN "offering" ELSE goroutine[w]]
  /\ listener' = [listener EXCEPT ![s] = "starting"]
  /\ UNCHANGED <<tasks, held, claimed, poolVars, assignment, result, notif, announced,
                 skipped, lockVars>>

Listen(s) ==
  /\ ctx[s] = "up" /\ listener[s] = "starting"
  /\ listener' = [listener EXCEPT ![s] = "waiting"]
  /\ UNCHANGED <<tasks, ctx, scannerVars, workerVars, poolVars, notif, announced, skipped,
                 lockVars>>

(* LISTEN fails, or WaitForNotification reports an error: the context of   *)
(* all goroutines is cancelled.                                            *)
ListenerFails(s) ==
  /\ listener[s] \in {"starting", "waiting"}
  /\ ctx[s] = "cancelled" \/ (ctx[s] = "up" /\ "listener" \in MayHappen)
  /\ ctx' = [ctx EXCEPT ![s] = "cancelled"]
  /\ listener' = [listener EXCEPT ![s] = "stopped"]
  /\ UNCHANGED <<tasks, scannerVars, workerVars, poolVars, notif, announced, skipped, lockVars>>

Serving(s) == Alive(s) /\ listener[s] \notin {"off", "starting"}

Create(s, t, st) ==
  /\ Serving(s)
  /\ t \in Free
  /\ tasks' = [tasks EXCEPT ![t] = NewRow(st, NULL)]
  /\ notify({t}, {})
  /\ UNCHANGED <<ctx, scannerVars, workerVars, poolVars, lockVars>>

Resume(s, t) ==
  /\ "resume" \in MayHappen
  /\ Serving(s)
  /\ tasks[t].status = "waiting" /\ ~Locked(t)
  /\ tasks' = [tasks EXCEPT ![t] = ResumedRow(tasks[t])]
  /\ notify({t}, {})
  /\ UNCHANGED <<ctx, scannerVars, workerVars, poolVars, lockVars>>

------------------------------------------------------------------------------
(* The listener goroutine.                                                 *)

(* Mutant: a wakeup that is no notification is counted as one.             *)
WaitForNotification_Spurious(s) ==
  /\ ctx[s] = "up" /\ listener[s] = "waiting"
  /\ listener' = [listener EXCEPT ![s] = "sending"]
  /\ notif' = [notif EXCEPT ![s] = @ - 1]
  /\ UNCHANGED <<tasks, ctx, scannerVars, workerVars, poolVars, announced, skipped, lockVars>>

WaitForNotification(s) ==
  /\ ctx[s] = "up" /\ listener[s] = "waiting"
  /\ notif[s] > 0
  /\ listener' = [listener EXCEPT ![s] = "sending"]
  /\ notif' = [notif EXCEPT ![s] = @ - 1]
  /\ UNCHANGED <<tasks, ctx, scannerVars, workerVars, poolVars, announced, skipped, lockVars>>

(* Mutant: a non-blocking send, which drops the event of a busy scanner.   *)
SendEvent_NonBlocking(s) ==
  /\ Alive(s) /\ listener[s] = "sending"
  /\ scan' = [scan EXCEPT ![s] = IF @ = "idle" THEN "need" ELSE @]
  /\ listener' = [listener EXCEPT ![s] = "waiting"]
  /\ UNCHANGED <<tasks, ctx, held, claimed, workerVars, poolVars, notif, announced, skipped,
                 lockVars>>

(* events is unbuffered: the scanner receives when it has nothing to scan. *)
SendEvent(s) ==
  /\ Alive(s) /\ listener[s] = "sending"
  /\ scan[s] = "idle"
  /\ scan' = [scan EXCEPT ![s] = "need"]
  /\ listener' = [listener EXCEPT ![s] = "waiting"]
  /\ UNCHANGED <<tasks, ctx, held, claimed, workerVars, poolVars, notif, announced, skipped,
                 lockVars>>

SendAborted(s) ==
  /\ ctx[s] = "cancelled" /\ listener[s] = "sending"
  /\ listener' = [listener EXCEPT ![s] = "stopped"]
  /\ UNCHANGED <<tasks, ctx, scannerVars, workerVars, poolVars, notif, announced, skipped,
                 lockVars>>

------------------------------------------------------------------------------
(* The scanner goroutine.                                                  *)

(* A worker is available, and the claim's transaction begins.              *)
TakeWorker(s) ==
  /\ ctx[s] = "up" /\ scan[s] = "need"
  /\ available[s] # <<>>
  /\ held' = [held EXCEPT ![s] = Head(available[s])]
  /\ available' = [available EXCEPT ![s] = Tail(@)]
  /\ scan' = [scan EXCEPT ![s] = "claim"]
  /\ UNCHANGED <<tasks, ctx, claimed, returning, workerVars, listenVars, lockVars>>

(* The transaction does not begin: with an ended context it never does,    *)
(* although the select may still prefer the worker to ctx.Done().          *)
BeginFails(s) ==
  /\ Alive(s) /\ scan[s] = "need" /\ DbMayFail(s)
  /\ available[s] # <<>>
  /\ available' = [available EXCEPT ![s] = Tail(@)]
  /\ returning' = returning \cup {Head(available[s])}
  /\ scan' = [scan EXCEPT ![s] = "backoff"]
  /\ UNCHANGED <<tasks, ctx, held, claimed, workerVars, listenVars, lockVars>>

(* go func() { w.available <- w }                                          *)
ReturnHeld(s) ==
  /\ returning' = returning \cup {held[s]}
  /\ held' = [held EXCEPT ![s] = NULL]
  /\ UNCHANGED available

(* What FOR UPDATE SKIP LOCKED returns a row of.                           *)
Reachable(t) == Claimable(tasks[t]) /\ ~Locked(t) /\ ~Referenced(t)

(* Mutant: the claim does not look at the lease of a running task.         *)
Claim_AnyRunning(s, t) ==
  /\ scan[s] = "claim" /\ ctx[s] = "up"
  /\ tasks[t].status \in {"pending", "running"} /\ ~Locked(t)
  /\ locks' = [locks EXCEPT ![t] = s]
  /\ claimed' = [claimed EXCEPT ![s] = [task |-> t, state |-> tasks[t].state]]
  /\ scan' = [scan EXCEPT ![s] = "commit"]
  /\ UNCHANGED <<tasks, ctx, held, workerVars, poolVars, listenVars, tx>>

(* The claiming UPDATE: the row is locked, and to everybody else it is     *)
(* still what it was.                                                      *)
Claim(s, t) ==
  /\ scan[s] = "claim" /\ ctx[s] = "up"
  /\ Reachable(t)
  /\ locks' = [locks EXCEPT ![t] = s]
  /\ claimed' = [claimed EXCEPT ![s] = [task |-> t, state |-> tasks[t].state]]
  /\ scan' = [scan EXCEPT ![s] = "commit"]
  /\ UNCHANGED <<tasks, ctx, held, workerVars, poolVars, listenVars, tx>>

CommitClaim(s) ==
  LET t == claimed[s].task IN
  /\ scan[s] = "commit" /\ ctx[s] = "up"
  /\ tasks' = [tasks EXCEPT ![t] = ClaimedRow(tasks[t], held[s])]
  /\ announced' = [v \in Servers |-> announced[v] \ {t}]
  /\ skipped' = [v \in Servers |-> skipped[v] \ {t}]
  /\ Unlock({s})
  /\ UNCHANGED <<ctx, workerVars, listener, notif, tx>>

scanAndAssign(s) ==
  /\ CommitClaim(s)
  /\ scan' = [scan EXCEPT ![s] = "dispatch"]
  /\ UNCHANGED <<held, claimed, poolVars>>

(* The claim commits, but the commit is reported as an error.              *)
ClaimLost(s) ==
  /\ "database" \in MayHappen
  /\ CommitClaim(s)
  /\ claimed' = [claimed EXCEPT ![s] = NoAssignment]
  /\ scan' = [scan EXCEPT ![s] = "backoff"]
  /\ ReturnHeld(s)

(* The query finds no row: no task is claimable, or all that are have been *)
(* locked by open transactions.  What it read may be stale by the time the *)
(* scanner has ended its transaction and waits for events.                 *)
NothingToClaim(s) ==
  /\ scan[s] = "claim" /\ ctx[s] = "up"
  /\ \A t \in Tasks : ~Reachable(t)
  /\ scan' = [scan EXCEPT ![s] = "empty"]
  /\ skipped' = [skipped EXCEPT ![s] = {t \in Tasks : tasks[t].status = "pending"}]
  /\ UNCHANGED <<tasks, ctx, held, claimed, workerVars, poolVars, listener, notif,
                 announced, lockVars>>

AwaitEvents(s) ==
  /\ Alive(s) /\ scan[s] = "empty"
  /\ scan' = [scan EXCEPT ![s] = "idle"]
  /\ ReturnHeld(s)
  /\ UNCHANGED <<tasks, ctx, claimed, workerVars, listenVars, lockVars>>

(* The query or the commit fails, and the transaction is rolled back.      *)
ClaimFails(s) ==
  /\ scan[s] \in {"claim", "commit"} /\ DbMayFail(s)
  /\ claimed' = [claimed EXCEPT ![s] = NoAssignment]
  /\ scan' = [scan EXCEPT ![s] = "backoff"]
  /\ ReturnHeld(s)
  /\ Unlock({s})
  /\ UNCHANGED <<tasks, ctx, workerVars, listenVars, tx>>

BackoffEnds(s) ==
  /\ Alive(s) /\ scan[s] = "backoff"
  /\ scan' = [scan EXCEPT ![s] = "need"]
  /\ UNCHANGED <<tasks, ctx, held, claimed, workerVars, poolVars, listenVars, lockVars>>

(* Mutant: the worker is put back into the pool after the dispatch too.    *)
Dispatch_AndReturn(s) ==
  LET w == held[s] IN
  /\ ctx[s] = "up" /\ scan[s] = "dispatch"
  /\ goroutine[w] = "waiting"
  /\ goroutine' = [goroutine EXCEPT ![w] = "handling"]
  /\ assignment' = [assignment EXCEPT ![w] = claimed[s]]
  /\ claimed' = [claimed EXCEPT ![s] = NoAssignment]
  /\ ReturnHeld(s)
  /\ scan' = [scan EXCEPT ![s] = "need"]
  /\ UNCHANGED <<tasks, ctx, result, listenVars, lockVars>>

(* w.work is unbuffered: the send needs the worker at its receive, and     *)
(* processTask begins its transaction.                                     *)
Dispatch(s) ==
  LET w == held[s] IN
  /\ ctx[s] = "up" /\ scan[s] = "dispatch"
  /\ goroutine[w] = "waiting"
  /\ goroutine' = [goroutine EXCEPT ![w] = "handling"]
  /\ assignment' = [assignment EXCEPT ![w] = claimed[s]]
  /\ claimed' = [claimed EXCEPT ![s] = NoAssignment]
  /\ held' = [held EXCEPT ![s] = NULL]
  /\ scan' = [scan EXCEPT ![s] = "need"]
  /\ UNCHANGED <<tasks, ctx, result, poolVars, listenVars, lockVars>>

(* The worker receives the assignment, but its transaction does not begin: *)
(* processTask returns, and the task stays 'running' in the table.         *)
DispatchInVain(s) ==
  LET w == held[s] IN
  /\ Alive(s) /\ scan[s] = "dispatch" /\ DbMayFail(s)
  /\ goroutine[w] = "waiting"
  /\ goroutine' = [goroutine EXCEPT ![w] = "offering"]
  /\ claimed' = [claimed EXCEPT ![s] = NoAssignment]
  /\ held' = [held EXCEPT ![s] = NULL]
  /\ scan' = [scan EXCEPT ![s] = "need"]
  /\ UNCHANGED <<tasks, ctx, assignment, result, poolVars, listenVars, lockVars>>

(* Mutant: a plain send on w.work, which only a waiting worker can end.    *)
DispatchAborted_PlainSend(s) ==
  /\ ctx[s] = "cancelled" /\ scan[s] = "dispatch"
  /\ FALSE
  /\ UNCHANGED vars

DispatchAborted(s) ==
  /\ ctx[s] = "cancelled" /\ scan[s] = "dispatch"
  /\ claimed' = [claimed EXCEPT ![s] = NoAssignment]
  /\ scan' = [scan EXCEPT ![s] = "backoff"]
  /\ ReturnHeld(s)
  /\ UNCHANGED <<tasks, ctx, workerVars, listenVars, lockVars>>

ScannerStops(s) ==
  /\ ctx[s] = "cancelled" /\ scan[s] \in {"need", "backoff", "idle"}
  /\ scan' = [scan EXCEPT ![s] = "stopped"]
  /\ UNCHANGED <<tasks, ctx, held, claimed, workerVars, poolVars, listenVars, lockVars>>

------------------------------------------------------------------------------
(* The pool, from the side of the workers and of the helper goroutines.    *)

Put(w) ==
  LET s == Home[w] IN
  /\ Len(available[s]) < Cardinality(Crew(s))
  /\ available' = [available EXCEPT ![s] = Append(@, w)]

Offer(w) ==
  /\ Alive(Home[w]) /\ goroutine[w] = "offering"
  /\ Put(w)
  /\ goroutine' = [goroutine EXCEPT ![w] = "waiting"]
  /\ UNCHANGED <<tasks, ctx, scannerVars, returning, assignment, result, listenVars, lockVars>>

Return(w) ==
  /\ w \in returning
  /\ Put(w)
  /\ returning' = returning \ {w}
  /\ UNCHANGED <<tasks, ctx, scannerVars, workerVars, listenVars, lockVars>>

ReturnAborted(w) ==
  /\ w \in returning /\ ctx[Home[w]] = "cancelled"
  /\ returning' = returning \ {w}
  /\ UNCHANGED <<tasks, ctx, scannerVars, available, workerVars, listenVars, lockVars>>

WorkerStops(w) ==
  /\ ctx[Home[w]] = "cancelled" /\ goroutine[w] \in {"offering", "waiting"}
  /\ goroutine' = [goroutine EXCEPT ![w] = "stopped"]
  /\ UNCHANGED <<tasks, ctx, scannerVars, poolVars, assignment, result, listenVars, lockVars>>

------------------------------------------------------------------------------
(* processTask and its heartbeat.                                          *)

Job(w) == assignment[w].task

(* The foreign key of a new child waits for a claim of its parent's row.   *)
Handle(w, r) ==
  /\ goroutine[w] = "handling"
  /\ r.kids \subseteq Free
  /\ r.kids # {} => locks[Job(w)] \notin Servers
  /\ goroutine' = [goroutine EXCEPT ![w] = "returned"]
  /\ result' = [result EXCEPT ![w] = r]
  /\ UNCHANGED <<tasks, ctx, scannerVars, assignment, poolVars, listenVars, lockVars>>

Applicable(w) == /\ result[w].status # "invalid"
                 /\ Check(FinishedRow(tasks[Job(w)], result[w]))

Resumes(w) == result[w].status \in Terminal /\ WakesParent(tasks, Job(w))

Step(w, from, to) ==
  /\ goroutine[w] = "returned" /\ ctx[Home[w]] = "up"
  /\ tx[w] = from
  /\ tx' = [tx EXCEPT ![w] = to]
  /\ UNCHANGED <<tasks, ctx, scannerVars, workerVars, poolVars, listenVars>>

(* The first statement of applyResult updates the task's own row.          *)
UpdateOwn(w) ==
  /\ Step(w, "none", "updated")
  /\ Applicable(w) /\ ~Locked(Job(w))
  /\ locks' = [locks EXCEPT ![Job(w)] = w]

(* The UPDATE of maybeResumeParent finds the parent waiting, queues for    *)
(* its lock and gets it.  If the parent is no longer waiting by then, it   *)
(* updates nothing and keeps the lock.                                     *)
ReachParent(w) ==
  /\ Step(w, "updated", "queued")
  /\ Resumes(w)
  /\ UNCHANGED locks

LockParent(w) ==
  LET p == tasks[Job(w)].parent_id IN
  /\ Step(w, "queued", "joined")
  /\ ~Locked(p)
  /\ locks' = [locks EXCEPT ![p] = w]

Finish(w) ==
  /\ goroutine' = [goroutine EXCEPT ![w] = "offering"]
  /\ assignment' = [assignment EXCEPT ![w] = NoAssignment]
  /\ result' = [result EXCEPT ![w] = NoResult]
  /\ tx' = [tx EXCEPT ![w] = "none"]
  /\ Unlock({w})
  /\ UNCHANGED <<ctx, scannerVars, poolVars>>

(* Mutant: maybeResumeParent without its NOTIFY.                           *)
Announces_ChildrenOnly(w) == result[w].kids

(* The tasks that the transaction announces: its new children, and the     *)
(* parent it resumes.  A task that goes back to pending is not announced.  *)
Announces(w) ==
  result[w].kids \cup {p \in Tasks : Resumes(w) /\ p = tasks[Job(w)].parent_id}

(* A transaction whose UPDATE of the parent found it not waiting commits   *)
(* without having touched it.                                              *)
Commit(w) ==
  /\ goroutine[w] = "returned" /\ ctx[Home[w]] = "up"
  /\ tx[w] = "joined" \/ (tx[w] = "updated" /\ ~Resumes(w))
  /\ tasks' = applyResult(WithChildren(tasks, Job(w), result[w].kids), Job(w), result[w])
  /\ notify(Announces(w), {t \in {Job(w)} : result[w].status # "pending"})
  /\ Finish(w)

(* applyResult returns an error, for the status or for a constraint.       *)
Rejected(w) ==
  \/ result[w].status = "invalid"
  \/ ~Locked(Job(w)) /\ ~Applicable(w)

Abandon(w) ==
  /\ \/ goroutine[w] = "handling" /\ DbMayFail(Home[w])
     \/ goroutine[w] = "returned" /\ (DbMayFail(Home[w]) \/ Rejected(w))
  /\ Finish(w)
  /\ UNCHANGED <<tasks, listenVars>>

renewLease(w) ==
  /\ goroutine[w] = "handling" /\ ctx[Home[w]] = "up"
  /\ tasks[Job(w)].status = "running" /\ tasks[Job(w)].worker_id = w
  /\ ~Locked(Job(w))
  /\ tasks' = [tasks EXCEPT ![Job(w)].lease = "live"]
  /\ UNCHANGED <<ctx, scannerVars, workerVars, poolVars, listenVars, lockVars>>

------------------------------------------------------------------------------
(* Time, shutdown and death.                                               *)

(* A committed claim that the scanner is about to hand to worker w.        *)
Promised(w) == held[Home[w]] = w /\ scan[Home[w]] = "dispatch"

(* The worker has task t, or the scanner holds the claim of t for it.      *)
Holds(w, t) == Job(w) = t \/ (Promised(w) /\ claimed[Home[w]].task = t)

Owned(t) == \E w \in Workers : Holds(w, t) /\ tasks[t].worker_id = w

LeaseExpires(t) ==
  /\ "lease" \in MayHappen
  /\ tasks[t].lease = "live"
  /\ HeartbeatsKeepUp => ~Owned(t)
  /\ tasks' = [tasks EXCEPT ![t].lease = "expired"]
  /\ UNCHANGED <<ctx, scannerVars, workerVars, poolVars, listenVars, lockVars>>

(* The caller cancels the context it gave to StartHandlers.                *)
Shutdown(s) ==
  /\ "shutdown" \in MayHappen
  /\ ctx[s] = "up"
  /\ ctx' = [ctx EXCEPT ![s] = "cancelled"]
  /\ UNCHANGED <<tasks, scannerVars, workerVars, poolVars, listenVars, lockVars>>

InTransaction(s) ==
  \/ scan[s] \in {"claim", "commit", "empty"}
  \/ \E w \in Crew(s) : goroutine[w] \in {"handling", "returned"}

(* The process ends with all its goroutines: it is killed, or the rollback *)
(* of an open transaction fails because of the cancelled context or the    *)
(* lost connection, and vmdb's Rollback panics.                            *)
Die(s) ==
  /\ Alive(s)
  /\ "crash" \in MayHappen \/ (InTransaction(s) /\ DbMayFail(s))
  /\ ctx' = [ctx EXCEPT ![s] = "dead"]
  /\ scan' = [scan EXCEPT ![s] = "stopped"]
  /\ held' = [held EXCEPT ![s] = NULL]
  /\ claimed' = [claimed EXCEPT ![s] = NoAssignment]
  /\ available' = [available EXCEPT ![s] = <<>>]
  /\ returning' = returning \ Crew(s)
  /\ goroutine' = [w \in Workers |-> IF w \in Crew(s) THEN "stopped" ELSE goroutine[w]]
  /\ assignment' = [w \in Workers |->
                      IF w \in Crew(s) THEN NoAssignment ELSE assignment[w]]
  /\ result' = [w \in Workers |-> IF w \in Crew(s) THEN NoResult ELSE result[w]]
  /\ listener' = [listener EXCEPT ![s] = "stopped"]
  /\ notif' = [notif EXCEPT ![s] = 0]
  /\ announced' = [announced EXCEPT ![s] = {}]
  /\ skipped' = [skipped EXCEPT ![s] = {}]
  /\ tx' = [w \in Workers |-> IF w \in Crew(s) THEN "none" ELSE tx[w]]
  /\ Unlock(Crew(s) \cup {s})
  /\ UNCHANGED tasks

------------------------------------------------------------------------------

Returns == [status : Outcomes, state : NewStates,
            kids : {K \in SUBSET Tasks : Cardinality(K) <= MaxKids}]

Scanner(s) ==
  \/ TakeWorker(s) \/ NothingToClaim(s) \/ AwaitEvents(s)
  \/ scanAndAssign(s) \/ Dispatch(s) \/ BackoffEnds(s)
  \/ \E t \in Tasks : Claim(s, t)

Worker(w) ==
  \/ Offer(w) \/ Return(w)
  \/ UpdateOwn(w) \/ ReachParent(w) \/ LockParent(w) \/ Commit(w)
  \/ \E r \in Returns : Handle(w, r)

Listener(s) == Listen(s) \/ WaitForNotification(s) \/ SendEvent(s)

(* What the goroutines do when a statement or the context fails.           *)
Unwind ==
  \/ \E s \in Servers : \/ ListenerFails(s) \/ SendAborted(s) \/ BeginFails(s)
                        \/ ClaimFails(s) \/ ClaimLost(s) \/ DispatchInVain(s)
                        \/ DispatchAborted(s) \/ ScannerStops(s)
  \/ \E w \in Workers : ReturnAborted(w) \/ WorkerStops(w) \/ Abandon(w)

Client ==
  \/ \E s \in Servers, t \in Tasks, st \in States : Create(s, t, st)
  \/ \E s \in Servers, t \in Tasks : Resume(s, t)

Environment ==
  \/ \E s \in Servers : StartHandlers(s) \/ Shutdown(s) \/ Die(s)
  \/ \E t \in Tasks : LeaseExpires(t)

Next ==
  \/ \E s \in Servers : Scanner(s) \/ Listener(s)
  \/ \E w \in Workers : Worker(w) \/ renewLease(w)
  \/ Unwind \/ Client \/ Environment

Spec == Init /\ [][Next]_vars

(* What keeps the goroutines of a server going.  Statements fail for sure  *)
(* only once the context is cancelled.                                     *)
ScannerRuns(s) ==
  \/ Scanner(s)
  \/ ctx[s] = "cancelled" /\ (ClaimFails(s) \/ DispatchAborted(s))

ListenerRuns(s) ==
  \/ Listener(s) \/ SendAborted(s)
  \/ ctx[s] = "cancelled" /\ ListenerFails(s)

WorkerRuns(w) ==
  \/ Worker(w) \/ ReturnAborted(w) \/ WorkerStops(w)
  \/ ctx[Home[w]] = "cancelled" /\ goroutine[w] = "returned" /\ Abandon(w)

(* Every goroutine that can proceed does; handlers return; Postgres        *)
(* delivers notifications.  A select with the context's Done among its     *)
(* ready cases picks it sooner or later (Go chooses at random), hence      *)
(* strong fairness for the scanner, whose loop keeps leaving the select.   *)
FairSpec ==
  /\ Spec
  /\ \A s \in Servers : /\ WF_vars(StartHandlers(s))
                        /\ WF_vars(ScannerRuns(s)) /\ SF_vars(ScannerStops(s))
                        /\ WF_vars(ListenerRuns(s))
  /\ \A w \in Workers : WF_vars(WorkerRuns(w))

------------------------------------------------------------------------------
(* Invariants.                                                             *)

(* Types: the program counters of all goroutines (notify.go, worker.go), the *)
(* channels between them, and counts of notifications within their bound.  *)
TypeOK ==
  /\ tasks \in [Tasks -> Row]
  /\ locks \in [Tasks -> Servers \cup Workers \cup {NULL}]
  /\ ctx \in [Servers -> {"off", "up", "cancelled", "dead"}]
  /\ scan \in [Servers -> {"off", "need", "claim", "commit", "empty", "dispatch", "backoff",
                          "idle", "stopped"}]
  /\ held \in [Servers -> Workers \cup {NULL}]
  /\ claimed \in [Servers -> Assignment \cup {NoAssignment}]
  /\ available \in [Servers -> Seq(Workers)]
  /\ returning \in SUBSET Workers
  /\ goroutine \in [Workers -> {"off", "offering", "waiting", "handling", "returned", "stopped"}]
  /\ assignment \in [Workers -> Assignment \cup {NoAssignment}]
  /\ result \in [Workers -> Returns \cup {NoResult}]
  /\ tx \in [Workers -> {"none", "updated", "queued", "joined"}]
  /\ listener \in [Servers -> {"off", "starting", "waiting", "sending", "stopped"}]
  /\ notif \in [Servers -> 0..MaxNotify]
  /\ announced \in [Servers -> SUBSET Tasks]
  /\ skipped \in [Servers -> SUBSET Tasks]

(* How often worker w is on offer: in the channel, in the scanner's hands, *)
(* or with a helper goroutine.                                             *)
Tokens(w) ==
  LET s == Home[w] IN
    Cardinality({i \in DOMAIN available[s] : available[s][i] = w})
    + (IF held[s] = w THEN 1 ELSE 0)
    + (IF w \in returning THEN 1 ELSE 0)

(* A worker is on offer exactly once while it waits for an assignment and  *)
(* never while it has one.  So the buffered channel never overflows, the   *)
(* scanner's send on w.work (notify.go, scanAndAssign) always meets its    *)
(* receiver, and no worker drops out of the pool after a scanner error.    *)
OneToken ==
  \A w \in Workers :
    CASE goroutine[w] = "waiting" /\ ctx[Home[w]] = "up" -> Tokens(w) = 1
      [] goroutine[w] \in {"waiting", "stopped"}         -> Tokens(w) <= 1
      [] OTHER                                           -> Tokens(w) = 0

(* No lost wakeup: while a scanner waits for events, every pending task    *)
(* that its server was notified of has a notification left to deliver, be  *)
(* it on the connection or in the listener's hands (notify.go, run), with  *)
(* one exception: a task that the scanner's last query skipped because an  *)
(* open transaction had its row locked, and that nobody announced since.   *)
NoLostWakeup ==
  \A s \in Servers : \A t \in announced[s] :
    ctx[s] = "up" /\ scan[s] = "idle" /\ tasks[t].status = "pending"
      => notif[s] > 0 \/ listener[s] = "sending" \/ t \in skipped[s]

(* As long as a server lives and its statements succeed, every running     *)
(* task whose row names one of its workers is in the hands of that worker, *)
(* or of the scanner that claimed it: no task is stranded until its lease  *)
(* runs out (notify.go, scanAndAssign; worker.go, processTask).            *)
RunningIsOwned ==
  \A t \in Tasks : tasks[t].status = "running" =>
    Owned(t) \/ ctx[Home[tasks[t].worker_id]] # "up"

(* All goroutines of a server block: only a notification of something new, *)
(* or the end of its context, can wake one of them.                        *)
Asleep(s) ==
  /\ ctx[s] = "up" /\ scan[s] = "idle" /\ listener[s] = "waiting" /\ notif[s] = 0
  /\ \A w \in Crew(s) : goroutine[w] = "waiting" /\ w \notin returning

(* A parent that the end of a child has resumed, and announced, gets to    *)
(* "check child statuses and decide how to proceed" (worker.go,            *)
(* maybeResumeParent): a server does not fall asleep over it.              *)
AnnouncedIsClaimed ==
  \A s \in Servers : Asleep(s) => \A t \in announced[s] : tasks[t].status # "pending"

------------------------------------------------------------------------------
(* Liveness.                                                               *)

(* A pending task is claimed as long as one server stays up, unless that   *)
(* server's scanner skips its locked row and goes to sleep.                *)
PendingIsClaimed ==
  \A s \in Servers, t \in Tasks :
    (tasks[t].status = "pending" /\ ctx[s] = "up")
      ~> (tasks[t].status # "pending" \/ ctx[s] # "up" \/ t \in skipped[s])

(* Every goroutine of the server has returned, none has panicked.          *)
Returned(s) ==
  /\ ctx[s] # "dead"
  /\ scan[s] = "stopped" /\ listener[s] = "stopped"
  /\ \A w \in Crew(s) : goroutine[w] = "stopped" /\ w \notin returning

(* After its context is cancelled, by the caller or by the listener, every *)
(* goroutine of a server returns, so that Registry.Wait returns, unless a  *)
(* transaction was open at that moment: then a Rollback with the ended     *)
(* context may panic and end the process instead (vmdb, new.go), but no    *)
(* goroutine hangs.                                                        *)
ShutdownCompletes ==
  \A s \in Servers :
    /\ ctx[s] = "cancelled" ~> (Returned(s) \/ ctx[s] = "dead")
    /\ (ctx[s] = "cancelled" /\ ~InTransaction(s)) ~> Returned(s)

------------------------------------------------------------------------------
(* Refinement.  A worker is assigned from the moment the scanner's claim   *)
(* for it commits; the dispatch itself changes nothing in TaskLifecycle.   *)

PhaseOf(w) == CASE ctx[Home[w]] = "dead"                         -> "dead"
                [] goroutine[w] = "handling" \/ Promised(w)      -> "assigned"
                [] goroutine[w] = "returned"                     -> "returned"
                [] OTHER                                         -> "idle"

AssignmentOf(w) == IF Promised(w) THEN claimed[Home[w]] ELSE assignment[w]

Lifecycle == INSTANCE TaskLifecycle WITH
  phase <- [w \in Workers |-> PhaseOf(w)],
  job <- [w \in Workers |-> AssignmentOf(w).task],
  input <- [w \in Workers |-> AssignmentOf(w).state],
  open <- {}, todo <- [t \in Tasks |-> {}],
  JoinHandlers <- FALSE, Cancellable <- {}, MaxKids <- MaxKids

(* The goroutines implement the task life cycle: whatever the scanners,    *)
(* workers, listeners, shutdowns and deaths of all servers do to the table *)
(* and to the assignments is a step that TaskLifecycle allows.             *)
ImplementsLifecycle == Lifecycle!Spec
=============================================================================

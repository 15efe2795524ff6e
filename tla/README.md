# video-manager: specification, model checking and proofs

video-manager is a server for a video collection: a catalog of cards (movies,
editions), media (ripped DVDs) linked to cards, an inbox directory of discs, and
a persistent task system that moves discs from the inbox into the collection.
Its own hard logic is the task system (`internal/lib/vmtask`): tasks are rows of
a PostgreSQL table, claimed by worker goroutines of any number of processes
under leases, resumed by their children, cancelled by callers, and announced
with LISTEN/NOTIFY. The specifications start there.

## 1. Inventory

| Component | State | Operations | Interacts with |
|---|---|---|---|
| tasks table (`000001_initial.up.sql`) | one row per task: status, worker_id, lease_expires_at, error, state, parent_id; two CHECK constraints, a foreign key | SQL statements of vmtask | everything below |
| task API (`vmtask/api.go`) | none | Create, CreateChild, Resume, ResumeWithState, Get, GetChildTasks, Cancel (one statement after the other) | table; NOTIFY |
| worker (`vmtask/worker.go`) | its assignment, an open transaction, a heartbeat goroutine | run, processTask, renewLease, applyResult, maybeResumeParent | table, pool channel, handler |
| scanner, listener (`vmtask/notify.go`) | needScan, the worker in hand, backoff; a LISTEN connection; channels `available` (buffered), `events` and `work` (unbuffered) | run, scanAndAssign, StartHandlers, the notification goroutine | table, workers, context |
| registry (`vmtask/registry.go`) | handlers, wait group | Register, Get, Types, Wait | StartHandlers |
| DVD ingestion (`media/dvd_ingestion_task.go`, `config`, `inbox`) | `media_dvds.path`; directories `inbox/dvd/<name>`, `media/dvd/<id>` | Handle, CreateDvdIngestionTask, ListInboxDVDs | tasks, media service, file system |
| media service (`media/media.go`) | media, media_dvds, media_x_cards | List, Get, Post, Patch, Delete | ingestion tasks, catalog |
| media sets (`media/media_set.go`) | media_sets, media_sets_x_cards, media.media_set_id | List, Get, Post, Patch, Delete | media, catalog |
| catalog (`services/catalog`) | cards, movies, editions, edition kinds, cascades and triggers | List, Get, Post, Patch, Delete | media links |
| pagination (`lib/vmpage`) | none (tokens) | ListPtr, ListFromStrings | all List operations |
| database access (`lib/vmdb`) | connection pool, isolation levels | Exec, Query, Begin, Commit, Rollback (panics on error) | all |
| errors, migrations, TMDb stub, main | none that changes | start-up order | |

What is hard here, and what has to be right:

* **Leases.** A worker may outlive its lease; another worker then runs the same
  task. Mutual exclusion, who may renew, who may commit, and whether a stale
  result can damage the table.
* **Cancel** runs against live workers, against new children, and may fail half
  way. A cancelled task must stay cancelled.
* **Parents and children.** A parent waits until a child's end resumes it; the
  wakeup may come before the parent waits.
* **Wakeups.** A scanner that found nothing must not miss the task that was
  committed just after its query; no worker may drop out of the pool; nobody may
  block for ever when the context ends.
* **Listings** are walked page by page with no state on the server, while rows come
  and go: nothing that stays may be missed, nothing may come twice.
* **Requests** check with a SELECT and write later, in transactions that overlap:
  names that must not clash, a default that must be the only one, rows that are
  deleted while others are being linked to them.
* **Clocks.** A lease is computed from one clock and judged by another; every delay
  and every failed heartbeat eats into it.
* **Crashes** between the claim and the dispatch, between the move of a
  directory and the commit that records it.

`PROJECT.json` lists each hazard at its line.

## 2. Modules

| Module | Models | Composition |
|---|---|---|
| `TaskTable` | rows, constraints, and each SQL statement of vmtask as an operator on rows or tables; no variables | used by all |
| `TaskLifecycle` | what callers, workers, time and crashes do to the table and to assignments; any idle worker may claim any claimable task | EXTENDS `TaskTable` |
| `TaskDispatch` | the goroutines and channels of StartHandlers in each process, LISTEN/NOTIFY, context, shutdown, death | EXTENDS `TaskTable`; refines `TaskLifecycle` |
| `DvdIngestion` | the media service's side of media_dvds, the ingestion handler, the file system | EXTENDS `TaskLifecycle`, whose Create, Claim, Handle, Commit, Abandon are conjuncts of its actions |
| `LeaseTiming` | lease_expires_at, ticker and clocks as numbers | EXTENDS `TaskLifecycle`, whose actions are conjuncts of its own; refines it with `HeartbeatsKeepUp` TRUE |
| `Schema` | the tables of the catalog and the media service: rows, foreign keys, cascades, triggers; no variables | used by the next three |
| `Transactions` | serializable transactions: vmdb's Begin, statements, Commit, Rollback, and what PostgreSQL does with them | EXTENDS `Schema` |
| `Catalog` | the requests on cards and edition kinds | EXTENDS `Transactions` |
| `MediaService` | the requests on media, sets and card links, composed with those of the catalog | EXTENDS `Catalog` |
| `Pagination` | ListPtr, ListFromStrings and the five endpoints that use them, while others insert and delete | alone |
| `TaskTableProofs` | lemmas about single statements | EXTENDS `TaskTable` |
| `TaskLifecycleProofs`, `LeaseTimingProofs`, `DvdIngestionProofs` | theorems about the module of that name | each EXTENDS it; the last two also EXTEND `TaskLifecycleProofs` |
| `TaskDispatchProofs` | theorems about `TaskDispatch` and its refinement | EXTENDS `TaskDispatch`, `TaskTableProofs`; INSTANCEs `TaskLifecycleProofs` under the refinement mapping |
| `PaginationProofs` | theorems about `Pagination` | EXTENDS `Pagination` |
| `TransactionsProofs`, `MediaServiceProofs` | lemmas about tables and transactions; theorems about `MediaService`, the catalog included | the second EXTENDS `MediaService` and the first |
| `MC*` | TLC instances: symmetry sets, homes of workers | |

Definitions whose names end in a suffix (`Claim_AnyRunning`, ...) and whose
comment says "Mutant" are deliberately wrong variants of the definition that
follows them. No specification uses them; they record which mistake in the code
each property would catch.

### Correspondence with the code

**Table.** The state column is a value of `States`, `EmptyState` is `'{}'`. A
lease is NULL, `"live"` or `"expired"`; the clock only appears as the step
`LeaseExpires`. An error is `"cancelled"` or `"error"`. `Check` is the pair of
CHECK constraints: a statement whose row breaks them fails and its transaction
rolls back, which is how a stale worker is kept from reviving a failed task.

**TaskLifecycle.** One action per operation: `Create`, `CreateChild`, `Resume`,
`ResumeWithState`; `Cancel` as `CancelBegin`, `CancelVisit`, `CancelRow`,
`CancelAbort`, one per statement of `cancelRecursive` (`open` is the stack of its
calls, `todo` the child ids each has read); `Claim` (the claim transaction and
the dispatch), `ClaimLost` (the claim commits but nobody gets the task),
`renewLease`, `Handle` (the handler returns a result, with the children it
inserted), `Commit` (applyResult and Commit), `Abandon` (processTask returns with
an error: the row stays running), `LeaseExpires`, `WorkersDie` (a process ends;
worker ids are never reused).
The handler's transaction is READ COMMITTED. Its writes become visible at its
commit, so `applyResult` is evaluated there, and any claimable task may be claimed at
any time. The row locks between a statement and its commit are in `TaskDispatch`: they
take behaviour away (a claim skips a locked row, an UPDATE waits for it), so what holds
here holds with them. What they can do to progress is not the same as claiming a
little later, because a scanner that has skipped a row does not look again.

**TaskDispatch.** Program counters: `scan` for the scanner (`need` a worker,
`claim` about to query, `commit` the claim, `empty` when the query found nothing,
`dispatch`, `backoff`, `idle` waiting for events), `goroutine` per worker,
`listener`. The channel `available`
is a sequence bounded by the number of workers, `returning` the workers that a
helper goroutine is putting back; `events` and `w.work` are unbuffered, so a send
is one step with its receive. `NOTIFY` reaches the processes that have executed
LISTEN when its transaction commits. `announced` is a history variable for
`NoLostWakeup`: the tasks a process was notified of that have been pending since; a
task that leaves pending leaves it. A database statement fails when the context is cancelled, or at
any time if `MayHappen` allows it; a failed rollback panics and ends the process
(`Die`, which leaves `ctx` at `"dead"` and is not a return of the goroutines:
`Returned`). The branch of scanAndAssign for a task type without a handler cannot be
reached, because the claim filters on the registered types, and is left out. The
scanner may claim any claimable task: ORDER BY created_at is left open. Cancel is
left to `TaskLifecycle`.
Row locks: `locks` has, for each row, the scanner (its server) or the worker whose open
transaction has locked it. A claim is the UPDATE (`Claim`), which locks the row and
leaves it pending for everybody else, and then its commit (`scanAndAssign`, or
`ClaimLost` when the commit is reported as an error) or a rollback (`ClaimFails`, `Die`).
A handler's transaction updates its own row (`UpdateOwn`), then queues for the parent if
it saw it waiting (`ReachParent`), gets its lock (`LockParent`), and commits; `tx` says
how far it is. The second of two children finds the parent no longer waiting when it
gets the lock, updates nothing, sends no NOTIFY, and keeps the lock until it commits.
A statement that meets a locked row waits; the scanner's query skips it (`Reachable`),
also a row that the foreign key of uncommitted children has locked FOR KEY SHARE
(`Referenced`). A query without a result records the pending rows it skipped in the
history variable `skipped`; a task leaves it when it is announced again or leaves
pending. A transaction whose UPDATE did not see the parent waiting takes no lock; that
it did not is decided at its commit, as in `TaskLifecycle`.
Refinement mapping: a worker is assigned from the commit of the claim on, whether
its assignment is still with the scanner (`Promised`) or with the worker.

**DvdIngestion.** PostMedia draws a media id and a task id in one transaction; one
element of `Tasks` stands for both. Requests of the service are serializable
transactions and single steps. `Handle` is split where other actors can come in
between: SELECT of the path, `os.Rename`, UPDATE, commit. The rename is not part
of the transaction: `RollBack` undoes the one and not the other. `Absolute`
prefixes the root to any path, absolute or not, as `Paths.Absolute` does: the path
of a listed inbox directory, which is absolute, leads nowhere. Clients name inbox
directories only; a client that patches a path to `media/dvd/<id>` of another disc
is outside the model. Nothing is claimed about paths being different: the service's
check (media.go) does not establish it (see the observations). Of PatchMedia only the DVD path is modelled here; the rest is
in `MediaService`.

**LeaseTiming.** Each action of `TaskLifecycle` gets its effect on the clocks: a
claim that was begun `d` ago stores a lease computed then, and starts the ticker; a
renewal stores what was computed at its tick, at most `MaxDelay` later; the handler's
return stops the ticker (`cancelHeartbeat`) and leaves `MaxDelay` for the commit;
`Tick` moves time, but not beyond the end of what is under way. `now` is the clock of
the database, `skew` what the process's clock adds to it. A claim compares with the
NOW() of its transaction, that is, with the time at which it was begun. A lease that
`now` has passed is marked `"expired"` before time goes on (`RunsOut`).

**Schema, Transactions.** A table is a function from ids to rows or NULL. A request
that is one transaction up to its commit is one step that executes it (`Post`) and
one that commits (`Commit`), with any steps of others in between; a PATCH request is
a `Begin`, a step for each patch of its list, and a `Commit`. A transaction has the
snapshot it began with (`view`), and sets of rows: `reads` and `wrote`; `shared`,
which its foreign keys have locked; `missed`, which others have committed since its
snapshot; `seen`, which those others had read; `hot`, those of `missed` whose writer
had itself read something outdated. From these follow PostgreSQL's rules: a statement
waits for rows that an open transaction has written and fails on rows of `missed`
(`Writable`); a deletion waits for `shared` rows; a commit fails in the dangerous
structure of serializable snapshot isolation (`Serializable`). PostgreSQL may refuse
more than that, because it tracks reads by page as well; this is a `RollBack`, which
may come at any time and stands for every failure, for a rejected patch (an empty
name, a missing row, no field or two fields) and for the deferred Rollback. DELETE
requests are one statement without Begin and one step. SELECT COUNT(*) over names
reads every row of its table, rows to come included. `used` keeps ids from being
given out twice, also after a rollback. `Settled` drops from a transaction that has
executed its last statement what cannot influence it any more; it only merges states.

**Catalog, MediaService.** One action per request or patch. `PostMovie` and
`PostMovieEdition` are the two cases of PostCard. Notes, names of sets, tmdb_id,
fanart_id and release_year are not kept: a patch of them writes its row and changes
nothing in it. The unique index on the default kind is left out on purpose:
`AtMostOneDefault` shows that the requests never run into it. GET requests change
nothing and are left out.

**Pagination.** One client walks through one listing; `token`, `page` and `ended`
are what it has received, `before` the earlier pages, `turn` makes each answer a
step of its own, so that an answer that repeats the last one counts as going
round, `stayed` the items that were there throughout. A request is one step: one
SELECT, or one sorted directory listing (a disc that is moved while the directory
is read counts as before or after it). ListPtr reads one row more than the page
holds and gives a token if there is one; ListFromStrings gives a token whenever
the page is full, so that the last page may be an empty one. Ids are never used
again but their inserts commit in any order; inbox names do come back. Each media
has one ingestion task (only PostMedia creates one), so that the join in ListMedia
gives one row per media. Asked for zero items, ListPtr answers with an empty page
and a token for id 0, and ListFromStrings with one item and no token: the
operators say so, but the properties are about clients that ask for at least one
item.

## 3. Runs

Deadlock checking is off where the system may come to rest (nothing left to do,
or all processes gone).

| Run | Shows |
|---|---|
| `LifecycleFaulty` | Leases run out at any time, two workers, two tasks (parent and child, or unrelated), Cancel at every statement: `TableConsistent`, `FailedIsFinal` and `OnlyOwnerRenews` hold. |
| `LifecycleKeepUp` | If no lease runs out under its worker: `OneWorkerPerTask`, `WorkerOwnsTask`, `InputIsCurrent` (two states, so that ResumeWithState can change one) and `TerminalIsFinal` hold. |
| `DispatchRefines` | Two processes with a worker each, one task, all handler results, deaths, lost leases and failing statements: every step is a step of `TaskLifecycle`; `NoLostWakeup`: no wakeup is lost but for a row that the scanner skipped. |
| `DispatchLive` | One process, two workers, two tasks, under `FairSpec`, with shutdown and listener errors: `OneToken` (a worker is on offer exactly once, or never while it has a task), `RunningIsOwned`, `PendingIsClaimed`, `ShutdownCompletes`. |
| `LeaseClocks` | One task, two workers, LeaseDuration 8, HeartbeatInterval 2, delays and skew of up to 1, one failed heartbeat in a row, Cancel, deaths: `ImplementsKeepUp` and `DeadLeaseEnds`. |
| `CatalogConcurrent` | Two clients, two cards, two kinds, names that differ in case only: `OneDetail`, `EditionsComplete`, `UniqueNames`, `AtMostOneDefault`. |
| `MediaConcurrent` | Two clients, one card, one media, two sets, PATCH requests of up to two patches: `LinksComplete`, `ClearedByOwnSet`. |
| `Paging` | Any listing of up to five items, page sizes 1, 4 (above the maximum 3) or none (default 2): `NothingTwice`, `NothingMissed`, `WalkEnds`. |
| `IngestionCrashes` | Two media, two inbox names, three discs, rollbacks anywhere: `DoneIsMoved`, `DiscsSurvive`. |

Three runs end in a counterexample. Each states what a comment of the code says and
what the code does not do; `findings` in `PROJECT.json` quotes the lines.

| Run | Counterexample |
|---|---|
| `LostResume` | The last child ends after its parent's handler has seen it unfinished and before the parent's Waiting commits: nobody resumes the parent. |
| `SkippedParent` | No fault at all, two children: the first resumes and announces the parent; the second was queued for the parent's row, gets its lock, updates nothing and announces nothing; the scanner that the first has woken skips the locked parent and goes to sleep. The parent stays pending. |
| `MoveNotUndone` | The process dies after the rename; the retry does not find the old directory and fails for good. |

Observations without a run of their own:

* A worker whose lease ran out, and whose task was claimed again, commits its result
  all the same (worker.go:170: the statements of applyResult do not look at
  worker_id), although worker.go:112 says that "the main transaction will fail if we
  truly lost the lease". `LifecycleFaulty` has this behaviour and shows what it
  cannot damage.
* A handler that returns Pending puts its task back without a NOTIFY (worker.go:141),
  and the lease of a dead worker runs out without one: an idle scanner
  (notify.go:118) sees neither before the next notification. `PendingIsClaimed`
  fails if `Outcomes` includes Pending; this is why `DispatchLive` leaves it out.
* A process that is notified of a task while another one's claim of it is not committed
  skips the row and goes to sleep. If the other process then dies before its commit, or
  its commit fails, the task is pending and the first process does not look for it.
  This and `SkippedParent` are the exception that `NoLostWakeup` and `PendingIsClaimed`
  make with `skipped`; without it both fail.
* When the context ends while a transaction is open, its deferred Rollback gets the
  ended context and may panic (vmdb/new.go:71): the process ends, and Registry.Wait does
  not return. `ShutdownCompletes` promises a return only to a server without an open
  transaction, and otherwise that nothing hangs.
* Two media may end up with the same path: PATCH sets the path of one to
  `media/dvd/<id>` of another, which nobody has yet, and then the other's handler writes
  it without a check (dvd_ingestion_task.go:54).
* A child that a handler inserts after Cancel has read the children of its parent
  survives the cancellation.
* A path that ListInboxDVDs returns cannot be ingested (see `Absolute` above).
* A task that another process creates between a starting process's initial scan and
  its LISTEN, and that dies before claiming it, is not seen by the starting process
  (`StartHandlers` starts the scanner before LISTEN).
* PatchCard and PatchMovieEditionKind do not check whether a name is taken, the
  latter not even whether it is empty, as PostCard and PostMovieEditionKind do. Hence
  `UniqueNames` speaks of names that were never patched.
* A deadlock (SQLSTATE 40P01), which two batches of patches can run into, is answered
  as an internal error (vmdb/error.go), although vmerr/err.go:15 names deadlocks among
  the errors that clients may retry. And a serialization failure that comes with the
  rows of a query, as for INSERT ... RETURNING, is not mapped at all (vmdb/run.go,
  finishRows).

### Bounds

Two tasks are enough for a parent and its child and for two competing tasks; two
workers for an owner and a thief; two processes for two scanners. `DispatchRefines` has
one task, over which two scanners, a stale worker and a caller compete; parents and
children are in `DispatchLive`, and both are in the proofs. `MaxKids` bounds
the children of one handler call to 1, to 2 in `SkippedParent`, which has three tasks;
`NewStates` are the states a handler returns (none, or one; only none in `DispatchLive`
and `SkippedParent`, where no property looks at states). `MaxNotify` bounds the
notifications counted per connection to 1, or 3 in `SkippedParent` (a scanner needs to
know only whether one is left; more than the bound are merged, which can only make
`NoLostWakeup` harder to keep, and in the counterexample none is merged). `JoinHandlers` is
TRUE only in `LostResume`: there a handler returns Waiting only while it sees an
unfinished child or has created one, which is what a parent that waits for its
children would do. In `DvdIngestion` a third disc lets the user refill an inbox
directory after a first ingestion has emptied it.
In `LeaseTiming`, the lease is four heartbeats long, not five as in the code, so that
delays, skew and misses together use it up to the last unit; `TimingAssumption`
states the inequality, and a lease one unit shorter is too short. `Horizon` ends time
after one lease has been lost and taken over.
In `Transactions`, two clients are two overlapping transactions, and a third one in
sequence, which the dangerous structure takes. `MaxPatches` bounds the patches of one
request, `MaxPatchRequests` the PATCH requests of a behaviour to two, so that two of
them can overlap; POST and DELETE requests are bounded by the ids. Two cards are a
movie and its edition; two kinds can compete for the default; two sets for a media.
In `Pagination`, five items and pages of one to three make walks of up to five
pages, full and partly filled last pages, and items that appear behind and ahead of
the token. Tasks, workers, inbox names and
discs are interchangeable, hence the symmetry in safety runs; liveness runs have
none.

### Fairness

`FairSpec` asks for weak fairness of every goroutine (`ScannerRuns`, `ListenerRuns`,
`WorkerRuns`): the Go scheduler runs each one that can proceed, PostgreSQL delivers
notifications and hands on row locks, and handlers return; a server that may be started
is. The scanner's end (`ScannerStops`) gets strong fairness: after the context is
cancelled its loop keeps passing a `select` in which Done is ready, and Go chooses
among ready cases at random. Statements that fail because the context is cancelled
do fail. In `Pagination` the client goes on asking until a page has no token;
inserts and deletes get no fairness. Nothing is assumed of callers, crashes,
leases, listener errors or database errors.

## 4. Proofs

Every theorem is for all values of the constants: any tasks, workers, processes,
clients, rows, sizes and durations. Under *assumes* stands what a theorem needs beyond
the assumptions on constants that are listed at the end.

| Module | Theorem | Statement | Assumes |
|---|---|---|---|
| `TaskLifecycleProofs` | `TypeCorrect` | `Spec => []TypeOK` | |
| | `TableAlwaysConsistent` | `Spec => []TableConsistent` | |
| | `FailedStaysFailed` | `Spec => FailedIsFinal` | |
| | `DeadLeaseStaysExpired` | `Spec => OnlyOwnerRenews` | |
| | `MutualExclusion` | `Spec => []OneWorkerPerTask` | `HeartbeatsKeepUp` |
| | `OwnershipHolds` | `Spec => []WorkerOwnsTask` | `HeartbeatsKeepUp` |
| | `InputStaysCurrent` | `Spec => []InputIsCurrent` | `HeartbeatsKeepUp` |
| | `TerminalStaysTerminal` | `Spec => TerminalIsFinal` | `HeartbeatsKeepUp` |
| `LeaseTimingProofs` | `TimedTypeCorrect` | `TimedSpec => []TimingTypeOK` | |
| | `DeadLeasesEnd` | `TimedSpec => []DeadLeaseEnds` | |
| | `TimedMutualExclusion` | `TimedSpec => [](OneWorkerPerTask /\ WorkerOwnsTask)` | |
| | `LeasesKeepUp` | `TimedSpec => ImplementsKeepUp` | |
| `TaskDispatchProofs` | `DispatchTypeCorrect` | `Spec => []TypeOK` | |
| | `EveryWorkerOneToken` | `Spec => []OneToken` | |
| | `NoWakeupIsLost` | `Spec => []NoLostWakeup` | |
| | `NoRunningTaskStranded` | `Spec => []RunningIsOwned` | no database errors, valid handler statuses |
| | `DispatchImplementsLifecycle` | `Spec => ImplementsLifecycle` | |
| | `DispatchMutualExclusion` | `Spec => []OneHolder` | `HeartbeatsKeepUp` |
| `DvdIngestionProofs` | `IngestTypeCorrect` | `IngestSpec => []IngestTypeOK` | |
| | `DoneMeansMoved` | `IngestSpec => []DoneIsMoved` | |
| | `NoDiscIsLost` | `IngestSpec => DiscsSurvive` | |
| `PaginationProofs` | `PagesTypeCorrect` | `Spec => []TypeOK` | |
| | `NothingShownTwice` | `Spec => []NothingTwice` | page sizes other than 0 |
| | `NothingIsMissed` | `Spec => []NothingMissed` | page sizes other than 0 |
| `MediaServiceProofs` | `ServiceTypeCorrect` | `Spec => []TypeOK` | |
| | `OneDetailHolds` | `Spec => []OneDetail` | |
| | `EditionsStayComplete` | `Spec => []EditionsComplete` | |
| | `LinksStayComplete` | `Spec => []LinksComplete` | |
| | `NamesStayUnique` | `Spec => []UniqueNames` | |
| | `OneDefaultOnly` | `Spec => []AtMostOneDefault` | |
| | `OnlyOwnMediaCleared` | `Spec => ClearedByOwnSet` | |

**TaskLifecycle.** The argument has two layers.

* `ConsInv == TypeOK /\ TableConsistent /\ JobsExist /\ KidsReserved`. Table
  consistency is not inductive alone: a commit writes the row of the worker's job
  and inserts its children, so the job must have a row and the children must be
  ids that nobody else has used. `CommitShape` says what a commit does to every
  row; `UpdateKeepsTable` and `InsertKeepsTable` say which changes of one row keep
  the table; each action is an instance. `FailedStaysFailed` follows from
  `ConsInv` and the CHECK on `error`: no statement of worker.go resets it.
* `KeepInv == ConsInv /\ OneWorkerPerTask /\ WorkerOwnsTask /\ InputIsCurrent`.
  Mutual exclusion needs to know why a task in process cannot be claimed: its row
  is running with a live lease and names its worker, or the task was cancelled,
  and failed tasks are never claimable (`WorkerOwnsTask`). `LeaseExpires` is the
  one step that could break it, and `HeartbeatsKeepUp` rules it out for owned tasks.
  Without that the last four theorems are false: a worker that has lost its lease
  commits all the same.

**LeaseTiming** discharges `HeartbeatsKeepUp`. The invariant `TimedInv` adds to
`KeepInv` that nothing under way is overdue (`InTime`), that the lease of an owner
reaches beyond its next tick by the ticks it may still miss and two delays
(`LeaseReaches`), and that no lease reaches further than one computed now or at its
worker's death (`LeaseEnds`). That the lease of a worker in process never runs out is
then arithmetic with `TimingAssumption`; hence `LeasesKeepUp`, a refinement, and
`TimedMutualExclusion` from the numbers alone.

**TaskDispatch.** `CoreInv` ties program counters to what each goroutine holds.
`PoolOK` says of each worker that it is in at most one of three places (the channel,
the scanner's hand, on its way back) and when it must be in one; counting follows
(`OneToken`). `WakeOK` is the reason that no wakeup is lost: a scanner that has found
nothing and does not know of a notification has nothing announced that is pending and
that its query did not skip. `LocksOK` says what a lock stands for: until a claim
commits, its row is the scanner's, claimable and as it was read (`ScanLock`); from
`UpdateOwn` to the end of the transaction the row is the worker's and accepts the result
(`TxLock`). Without it a claim, now two steps, could commit on a row that has changed
since, and would be no step of `TaskLifecycle`.
The proof of this showed that an earlier `announced`, which kept tasks that had been
claimed and put back since, was too large: with three workers the property failed,
and rightly so, because a handler's Pending is not announced. The refinement is
proved step by step: each action of the goroutines is mapped to an action of
`TaskLifecycle` or to a stutter, and `MutualExclusion` is then carried over by
instantiating `TaskLifecycleProofs` under the mapping (`OneHolder` counts the
assignment that a scanner has not handed over yet).

**DvdIngestion.** `IngestInv` has `ConsInv` of the tasks below, since each step is one
of `TaskLifecycle`; what a media's path and what a call of Handle has read can be
(`OwnPaths`); and that a call which has renamed or returned "completed" has its disc
in place (`MovedBefore`).

**Pagination.** `WalkOK`: nothing beyond the token has been shown, and everything up to
it that was there throughout. The part about the two list functions is that they
return good pages (`GoodPage`), with lemmas about the least and the greatest elements
of finite sets in place of induction.

**Catalog and MediaService.** `ServiceInv` says of each open transaction what its
commit would do to the tables as they are by then (`TxInv`).

* `RowTx`, of each row it has written: the row is there or new (`RowStays`), and what
  it names is locked or was named before (`RowEdition`, `RowMedia`, `RowLink`). No other
  transaction can write the row meanwhile, so this stays true until the commit; and
  nobody can delete what is locked (`SharedStay`). This gives the foreign keys, and
  `OnlyOwnMediaCleared` from the second part of `RowMedia`.
* Uniqueness is not protected by locks. If a name that a POST request has inserted is
  committed by another meanwhile, then that other had read the whole table, and so had
  the request: it is `Doomed`, which is half of the condition `Serializable` refuses
  (`NewCardName`, `NewKindName`). For the default kind the same holds of whoever sets it
  (`NewDefault`), but a PATCH request may set it after it has missed a commit: then
  the default that it does not see was set by one that had read every kind, itself
  included (`UnseenDefault`), and setting it dooms the request.
* `Snapshot` and `NoLostUpdate` connect `view` with the committed tables.

`WarnKeeps` shows that `TxInv` survives the commit of another (`Discreet` says what
that commit may do), `PatchKeeps` that it survives a patch of its own; the lemmas
`Commit...` and `Delete...` show that the tables stay in order.

**Assumptions on constants**, all evaluated by TLC in the runs: `TableAssumption`,
`LifecycleAssumption` and `DispatchAssumption` (types; each process has a worker);
`TimingAssumption` (the lease is at least as long as the heartbeats that may fail, the
delays and the skew together, and a delay is shorter than a heartbeat; with the five
to one of LeaseDuration and HeartbeatInterval this leaves room for three failed
heartbeats in a row if three delays and the skew fit into one heartbeat);
`PathsAssumption` (the inbox and the media directory are different);
`PaginationAssumption`, `TokenAssumption`,
`SchemaAssumption`, `TransactionsAssumption` (types, and NULL is none of the values).
They exclude no use of the code, but for the bound on delays and skew, which a
deployment has to meet.

**Only model-checked**: liveness (`PendingIsClaimed`, `ShutdownCompletes`, `WalkEnds`),
since fairness and ENABLED are out of the prover's reach, and the three counterexamples.

## 5. Not modelled

The registry's map, error mapping and HTTP, building of SQL statements and scanning of
rows, migrations, the TMDb stub, GET requests; the text of notes and of error
messages; the connection pool's size; ORDER BY created_at; page-level predicate locks
and the order of lock queues of PostgreSQL (a statement that has to wait is one that
cannot step yet). GetDvdIngestionTask is not called by the services.

## 6. Plan

1. (done) `TaskTable`, `TaskLifecycle`, its proofs; `TaskDispatch` and its
   refinement; `DvdIngestion`; `Pagination`.
2. (done) `Schema`, `Transactions`, `Catalog`, `MediaService`; `LeaseTiming` and its
   refinement.
3. (done) Proofs of every safety property that a passing run checks, and of both
   refinements.
4. `ParentJoin`: what a parent that waits for several children may rely on, given the
   two ways in which it can be left behind (`LostResume`, `SkippedParent`), with the
   cancellation of a last child.
5. Proofs, next: the abstract serializability that the transactions of the services
   rely on, as a property of `Transactions` alone.

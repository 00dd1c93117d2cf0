# Verification of distributed-sql

TLA+ models of the distributed SQL engine in `src/`, the TLC configurations that
check them, and TLAPS proofs about them. Line numbers refer to files under
`src/src/distributed_sql/`; `PROJECT.json` maps every definition to the lines it models.

## 1. The system

A Coordinator process (FastAPI, one asyncio event loop) accepts SQL over HTTP, plans it
and executes the plan as a sequence of task schedules on Worker processes. Workers
register with the Coordinator and renew a lease by heartbeats. The Coordinator sends a
task attempt to a Worker by POST, polls it by GET and cancels it by DELETE. Workers run
an attempt in a thread and leave its output in an object store that all processes share.

| Component | State | Operations | Talks to |
|---|---|---|---|
| Query service (`coordinator/queries.py`) | one `_QueryRecord` per query: state, error, rows, `cancel_requested`, executor, coroutine | submit, `_run`, cancel (with timeout), close, reads | planner thread, remote executor, registry |
| Remote executor (`coordinator/remote_execution.py`) | `_cancelled_queries`, stage counter, metrics | execute, cancel; one scheduler run per plan node, two per exchange | scheduler, object store |
| Task scheduler (`execution/scheduler.py`) | stages, tasks, attempts of a run; a cancellation token per query | run, cancel; per task: choose a Worker, execute, watch the lease, time out, discard, back off, retry | registry, `RemoteWorker` |
| Worker client (`coordinator/remote.py`) | semaphore of slots, recorded output locations | execute (POST, polls, DELETE on cancel), discard | Worker HTTP API, object store |
| Worker registry (`coordinator/registry.py`) | worker id -> state, lease id, expiry, slots | register, heartbeat, expire_leases, list | agents, scheduler |
| Worker agent (`worker/agent.py`) | lease id, registered flag | register and heartbeat loop with retries | registry |
| Worker task manager (`worker/tasks.py`) | attempt id -> record (submission, status, token, future) | submit, status, cancel (with timeout), close, `_execute`, `_execute_sync` | executor threads, object store |
| Shuffle store (`execution/shuffle.py`), object stores (`catalog/storage.py`) | objects | write partitions, publish a manifest, read with checks, delete | |
| Catalog, importer (`catalog/`) | SQLite tables, data files, manifests | DDL in threads, import under a lock (write, publish, commit, roll back) | object store, query service |
| Memory accounts, spill files (`execution/memory.py`) | nested accounts, directories per attempt | reserve, release, write a run, clean up | operators |
| Binder, expressions (`planner/`) | scopes of a statement | bind a parsed statement to a logical plan | catalog schemas |
| Optimizer (`optimizer/`) | plans seen, estimates | rewrite rules to a fixed point, join order, join strategies | |
| Physical planning (`execution/physical.py`) | none | put exchanges into a plan | executors |
| Operators, engine, runtime filters (`execution/`) | rows, hash tables, runs, filters | scan, filter, project, join, aggregate, window, sort, limit | memory, spill files |
| In-process executor (`execution/distributed.py`) | as the remote executor, with `LogicalWorker` backends; no mark for cancelled queries | execute, cancel | scheduler, operators |
| Data sources, observability, advisor, CLI, web page, configuration | none that other parts read | reading files, reporting, entry points | |

### What is hard, and what correctness means

* **Planning and execution.** A statement passes a binder, nine rewrite rules that are
  applied until nothing changes, a join reordering, and then either the local engine or a
  cut into partitions. Each stage is short, and each has to respect the others: NULLs,
  outer joins, names that a rule moves past a renaming, columns that are pruned and read
  again, operators that change their algorithm when memory runs out. Correct: the answer
  of the plan is the answer of the statement after every step, on every path.
* **Worker task manager.** The event loop and the executor threads share the token and
  the object store. The token may be set between a thread's check and its next write; a
  DELETE may time out; a shutdown may give up on a thread; the store may refuse a write or
  a delete; the process may die. Correct: a terminal state is final and quiet, a failed or
  cancelled attempt left nothing behind, a succeeded one left everything, and the answer
  to a DELETE can be trusted.
* **Queries on shared Workers.** Attempt ids do not name the query, so queries of the same
  shape meet in the records of a Worker. Correct: each gets its own result.
* **Membership.** Requests are lost, delayed and overtaken; both sides restart. Correct:
  an expired lease never comes back, an old lease has no effect, a running Worker ends up
  with a lease it keeps, a dead one is not listed as active.
* **Scheduler and Worker client.** Several coroutines, leases, timeouts, unreliable HTTP
  calls and a cancellation meet at every await. Correct: stages in dependency order, one
  intact winning attempt per task, no two attempts of one task unless the earlier was
  given up as lost, nothing sent after a cancel, every run ends.
* **In-process executor.** A join gathers its inputs, so that two scheduler runs of one
  query are under way with one registered token. Correct: a cancel that reaches a run
  keeps the query from succeeding, and the registration goes.
* **Query service.** A cancel call may come before the executor exists, between two
  scheduler runs (each has its own token) or after the end; it may time out; the service
  may be shut down. Correct: results only for queries nobody cancelled, no run after a
  cancel, terminal means stopped, outcomes are final, everything ends.
* **Importer and catalog.** An import is a chain of store calls and transactions of which
  any can fail, also after its effect, or be the last before a crash; other threads change
  the catalog and queries read it meanwhile. Correct: what the catalog and the manifests
  list is complete, a failed import leaves the previous state, files in use stay.
* **Memory and spill files.** Threads share a budget and a directory tree. Correct: budgets
  hold, no row is lost, no attempt waits for ever or fails because of another, nothing is
  left in the end.

`PROJECT.json` lists the hazards one by one with the properties that cover them.

## 2. Modules

| Module | Role |
|---|---|
| `Expressions`, `LogicalPlans` | bound expressions and their evaluation; plan nodes |
| `Binder` | a parsed statement becomes a plan, or is rejected |
| `Rules` | the rewrite rules and their recursive application |
| `JoinPlanning` | join reordering, join strategies and the distributions they give |
| `Operators` | batch operators, runtime filters, the local engine |
| `DistributedExecution` | exchanges, tasks per partition, both distributed executors |
| `SqlMeaning` | reference: what a statement means |
| `QueryPlanning` | composes the eight above: a statement from the binder to its result |
| `WorkerTasks` | Worker task manager, executor threads, objects in the store |
| `SharedWorkers` | scheduler tasks of several queries at the records of common Workers |
| `InProcessRuns` | the scheduler runs of one query in the in-process executor, and its cancel |
| `WorkerRegistry` | registry, agents, network, time |
| `TaskScheduler` | a scheduler run with its Worker clients, Workers as seen from outside |
| `ScheduleRun` | abstract specification of a scheduler run |
| `WorkerAttempt` | abstract specification of the lives of attempts, which both sides of the Worker's HTTP API keep to |
| `QueryService` | a query's coroutine, cancel calls, shutdown; composes with `ScheduleRun` |
| `CatalogImport` | catalog tables, the import and its rollback, manifests, data files, queries that read them |
| `SpillMemory` | memory accounts, the external sort's spilling, spill directories |
| `*_proofs` | theorems and proofs of the eight modules from `WorkerTasks` to `SpillMemory`, the two abstract specifications apart |
| `MC*` | instances for TLC |

Definitions called `Mutant` in a comment are plausible bugs. None of them is part of a
specification; substituting one for the definition it varies violates the property it is
listed with in `PROJECT.json`, which shows that the property depends on that code.

**Atomicity.** An asyncio coroutine runs alone between two awaits, so an action of an
event-loop component is what happens between two awaits. Awaiting an uncontended lock, as
in `WorkerRegistry`, does not suspend. An executor thread is different: it interleaves
with the event loop between any two statements. Its steps are cut at its effects on shared
state: a step is one effect on the store and the token check that follows it, so that the
token can be set between a check and the next effect.

### The planning pipeline

An expression is a record with a kind, an operator, operands, a value and a type; its text,
which names columns in rows, is the record without the type of a column. Values are
integers, booleans and NULL; `Err` stands for an exception. A plan is a record with its
inputs. A row is a function from names to values, a table a sequence of rows.

`QueryPlanning` has the steps of `QueryService._plan` and of the executors: `BindStatement`
(`Binder.bind`), `ApplyNextRule` and `EndIteration` (the two loops of
`RuleOptimizer.optimize`, one rule at a time), `ReorderJoins`, then `RunPlan` (the local
engine with some budget of memory) or `PlanExchanges` (`materialize_exchanges` after the
join decisions) and `RunDistributed` (on Workers, or in process with or without partial
aggregation). Costs are floating-point estimates; which order or strategy is the cheapest
is left open, so every candidate is followed. The budget is the number of rows an operator
holds before it spills; the protocol of reservations is `SpillMemory`'s.

Operators keep what decides their results: stable sorts and the k-way merge of runs, the
order of groups, the Bloom filter and ranges of a runtime filter and the scans they reach,
the hash join and its partitioned variant, the sort-merge fallback and its treatment of
rows without a key, frames and peers of windows, partial aggregates and the way they are
added, the columns of a partition without rows, the two hash functions of importer and
shuffle. `SqlMeaning` shares only `Evaluate` on one row with them.

### WorkerTasks

`sub`, `state`, `token`, `future` are the fields of `_TaskRecord`; `thread` and `next` say
where `_execute_sync` is; `part`, `manifest`, `output` are the attempt's objects; `mgr` is
the life of the manager, `call` and `reply` the DELETE requests. `Submit`, `Cancel` (with
`CancelReturn`, `CancelTimeout`), `Close` (with `CloseReturn`, `CloseTimeout`) are the
handlers; `Start`, `Succeed`, `CleanUp`, `CleanUpFails`, `Abort` the coroutine `_execute`;
`Compute`, `WritePart`, `Publish`, `Fail`, `ThreadExit` the thread. `Crash` loses the
records and keeps the store. The history variable `refused` marks an attempt whose cleanup
the store has refused: its record stays RUNNING and its objects are what they are. What an
operator computes is abstracted to "computes, may raise". A data file may be torn by a
failed `write_bytes`; `publish_bytes` is atomic. `wait_for`'s timer can fire after the
future is done and before the caller is resumed, so `CancelTimeout` does not ask for a
pending future. An attempt of the model is the pair of a query and an attempt id; that the
manager keys its records by the attempt id alone is the subject of `SharedWorkers`.

### WorkerAttempt

`WorkerTasks` models one Worker in detail and knows nothing of the Coordinator;
`TaskScheduler` has a Worker that is a few states (`remote`) and moves by itself. What
keeps the two from drifting apart is `WorkerAttempt`, the life of an attempt as the
protocol promises it: accepted once; live until it succeeds, fails or is told to stop;
once told to stop, never successful; a success has its whole output in the store and any
other end none, unless the Coordinator removes the output itself; terminal for good,
except that the process may end and the attempt be lost. `ImplementsWorkerAttempt` shows
that the Worker gives its attempts such lives, and `RemoteIsWorkerAttempt` that those in
`TaskScheduler` are of the same kind. The mapping of the Worker (`View` in `WorkerTasks`)
looks at the record, the token and the objects, and has a value "broken" outside the
contract for a terminal state that the store contradicts. That of the scheduler maps a
POST that can still arrive to "none" and one that cannot, because its caller has gone on
and no request is in flight, to "lost". A shutdown that gave up on its threads ends the
process and counts as its loss. Attempts that a Worker refuses because another query uses
their id are outside this contract, and the subject of `SharedWorkers`.

### SharedWorkers

`owner` and `state` are the records of the Workers' task managers, found by the attempt
number: stage counter, plan node and task number are the same for queries of one shape.
One task of each query is followed through `_run_task`: `Choose`, which takes a healthy
Worker and an unused one if there is any, `NoWorker` (none is healthy, and the task fails
with attempts left), `Post` or `Conflict`
(the 409 of `submit`, which the client takes for a lost Worker), the polls, `Lose`
(lease, timeout, failed call), `Unconfirmed` and `Discard`, whose DELETE cancels whatever
record has the id. Workers restart and forget. Which Workers the registry lists as healthy
is any member of `Listings` at every choice; `WorkerRegistry` has the leases behind it. `disturbed` is the history of queries that
poll a Worker which has restarted since their POST.

### InProcessRuns

`pc` and `left` follow the parts of a plan whose scheduler runs come one after the other:
the inputs of a join that are gathered, and the rest of the plan. `entry` is what
`TaskScheduler._cancellations` holds for the query, which the run started last takes and
the first to end removes; `token` is each run's own token. `hit` records that a cancel has
found a run with tasks to stop.

### WorkerRegistry

Time is relative: a record has the ticks left of its lease, an agent the ticks to its next
turn; the clock needs no bound. A request its client has given up on may stay in `late`
and arrive at any time. `calm` marks the end of the faults. Three observations from the
translation: an expired heartbeat marks the record LOST and leaves its slots, while
`expire_leases` zeroes them; the 422 answer and the DRAINING state cannot be reached by
this repository's agent, which always reports ACTIVE and its configured slots; and nothing
in `common/config.py` makes the heartbeat interval shorter than the lease, which
`RunningWorkersStayHealthy` needs (the run has Beat < TTL). Lease ids are drawn among
those nobody carries; `IdsLeft`, which says that there is one, is a bound that never stops
a registration in the run (six ids, at most three carried at a time).

### TaskScheduler

`run`, `cur`, `batch`, `first` are the locals of `TaskScheduler.run`; `pc`, `tries`,
`started`, `why`, `out` those of `_run_task`, `_execute_attempt` and
`RemoteWorker.execute`; `att` is what the Coordinator records of an attempt, `remote` what
is true of it on its Worker, `healthy` the registry's view. The two can differ: a POST
whose answer was lost, or that arrives after its DELETE (`flying`), runs an attempt the
Coordinator has given up. Calls fail before or after their effect. A Worker may lose and
regain its lease at any time and crash at any time. Which Worker round robin picks among
the candidates is left open; backoff and timeouts are moments without durations. The
runner is always a `RemoteTaskCommand`; the slots of `LogicalWorker`, the in-process
backend, are not modelled.

`Status` maps a run to what its caller sees, and `ImplementsScheduleRun` says that
`TaskScheduler` under `FairSpec` implements `ScheduleRun`.

### QueryService

Queries share no state in the service, so one query stands for all. `pc` is the await at
which `_run` is, `left` the scheduler runs its plan still needs (0 to `MaxRuns`), `token`
the current run's token, `flagged` membership in `_cancelled_queries`. A scheduler run ends
in any way `ScheduleRun!Outcomes` allows: that is where the composition with
`TaskScheduler` lies. `close` cancels all queries through the caller `Closer` and waits for
them. uvicorn takes no requests while the application shuts down, so nothing is submitted
after `Close`. As in the Worker, the timer of `wait_for` may beat the resumption of the
waiting call, so a call may mark a query FAILED (timeout) that has just become CANCELED;
and a query a call has given up on becomes CANCELED later and keeps the timeout's error.
`OutcomeIsFinal` states exactly this much freedom.

### CatalogImport

`at` and `lists` are the rows of a table in the catalog (its location, the import that
produced its partitions), `manifest` and `data` the objects in the store, `pc`, `cur`,
`tab`, `loc`, `prev`, `n` the locals of `_import_table`. The API's handlers are plain
functions that FastAPI runs in a thread pool, so DDL interleaves with an import at every
store call and transaction; imports exclude each other by a lock. A local write may tear;
any call may raise although it went through, as an S3 request over HTTP may. The read that
`replace_import_metadata` makes after its commit is a step of its own, in the importer's
`try`. The history variable `seen` keeps whether a table has been moved or dropped, an
answer of the store lost, and the read after a commit failed: each property names the
trouble it does not survive, and is checked under all the others.

### SpillMemory

Attempts of a query run `_external_sorted_rows`: `rows`, `reserved`, `spilled` are its
locals, `account` and `query` the two accounts of the chain. A refused reservation makes
the sort write what it has as a run and try again; refused again, the row becomes a run by
itself, uncharged. The directory calls are cut at every system call, as
`pathlib.Path.mkdir` makes them: up to the first parent that exists, then down again, where
a parent that has gone missing is an error. Joins reserve and spill by the same protocol.

## 3. Runs

| Run | Checks | Instance |
|---|---|---|
| `planning` | `RewritesKeepTheAnswer`, `ReorderKeepsTheAnswer`, `SpillingKeepsTheAnswer`, `DistributionKeepsTheAnswer`, `RulesSettle` | 56 statements over 3 tables, 40 databases, 4 ways of importing the tables, budgets of 0, 1 and 3 rows, 2 Workers (44 806 states) |
| `distribution` | `DecisionsKeepTheAnswer`, violated | a join of two tables as imported by default |
| `sharing` | `OwnOutcome`, `OnlySharingRefuses`, `EveryQueryEnds` | 2 queries, 2 Workers that may be healthy or not, 2 attempts, 1 restart (498 528 states) |
| `in_process` | `HitMeansNoResult`, `EverythingEnds` | 2 gathered inputs and the root, up to 3 runs each (9 593 states) |
| `worker_tasks` | `TerminalIsQuiet`, `ConfirmedMeansStopped`, `CancelSettles`, `ImplementsWorkerAttempt` | 2 attempts, shuffle write of 2 partitions or another task, 1 client |
| `registry` | `LostNeedsNewLease`, `OldLeaseIsInert`, `LeaseIsKept`, `RunningWorkersStayHealthy`, `DeadWorkersAreLost` | 1 Worker, lease 3, beat 2, retry 1, 2 delayed requests |
| `scheduler` | `OnlyLostAttemptsLinger`, `ReturnedIsSettled`, `NothingSentAfterCancel`, `CancelIsBounded` | 2 tasks in a stage, 1 Worker of 1 slot, 2 attempts |
| `scheduler_chain` | `StageOrder`, `OneIntactWinner`, `RemoteIsWorkerAttempt` | 2 dependent stages of 1 task, one of them a shuffle write, 2 Workers |
| `scheduler_live` | `CancelEndsRun`, `ImplementsScheduleRun` | 2 dependent stages, 1 Worker |
| `query` | `ResultsAreWanted`, `NoRunAfterCancel`, `OutcomeIsFinal`, `EverythingEnds` | 2 cancel calls and the shutdown, up to 3 scheduler runs |
| `catalog_import` | `CatalogListsWholeData`, `ManifestFollowsCatalog`, `SnapshotsStayReadable` | 2 tables, 2 locations, 3 imports of 2 files, a query |
| `spill` | `BudgetsHold`, `NoRowIsLost`, `NothingIsLeft`, `EverySortEnds`, `SortsAdvance` | 2 attempts of 3 rows that charge 1 or 3, budgets 2 (attempt) and 3 (query) |

Type invariants are left out of the runs, and so are properties that follow from the shape
of an inductive invariant, where section 6 proves them. `NoDebris` and
`SucceededIsComplete` are part of `ImplementsWorkerAttempt`: a terminal state without them
maps outside the contract, as long as no shutdown has given up on its threads.

**What `planning` compares.** After binding, after every rule of the first round that
changed the plan and after every later round that did, after reordering, and after every
run, with `IsAnswer`: the rows of the reference, as often as they occur there, in an order
the ORDER BY allows, and for a LIMIT a first part of such an order. The statements use
every clause and every operator: predicates with three-valued logic and constant parts,
CASE, COALESCE, IN, BETWEEN; GROUP BY, HAVING, DISTINCT, grouping sets, expressions as
keys; windows with several partitions, orders and frames; inner, left, right, full and
self joins of two and three tables with WHERE on either side; eleven regions of inner
joins for the reordering, with conjuncts in a star, in a chain and over all three inputs,
with an outer join as an input, and with a WHERE above the region, inside it, and on one,
two or all of its relations; ordinals and aliases in
ORDER BY; LIMIT 0; and seven statements the binder rejects. The databases have empty
tables, duplicates, and NULLs in keys and values. Exceptions are part of the properties.
`ReorderKeepsTheAnswer` names two: a plan that joins a filtered relation below the root of
its region has lost the relation's columns (`LosesNames`, cbo.py 272-281; a plan that joins
it at the root has not, and must answer), and one that cuts through an operand of an
equality over three relations raises on every database (`SplitsEquality`, engine.py
208-226); and it says when planning itself may raise, namely where two relations of a
region are filtered, whose bare names then clash. The two properties of runs make the same
exceptions. Besides, `SpillingKeepsTheAnswer` lets a spilled join whose probe side is empty raise
(it takes the probe's columns from the output schema, which pruning may have narrowed,
operators.py 1065), and `DistributionKeepsTheAnswer` speaks of joins whose sides are
brought together (`Colocated`) and lets a run raise where partitions of an exchange differ
in their columns (an empty partition has those of the schema, distributed.py 577-590),
where a partial sum meets the NULL of a partition without values (738-745), and where an
exchange key is not a column. The other statements on
which the code is known to fail (section 5) have configurations of their own.

**Bounds.** Two Workers and up to three partitions make a partition empty, a key meet
another in one partition and two partitions differ; budgets 0, 1 and 3 make a single row
exceed the budget, every operator spill, and a build side fit while its partition does not.
The optimizer's bound of 32 rounds is that of the code. Two queries are the fewest that can
share an id, two attempts let one be refused and the other cancelled, and two Workers make
the preference for an unused one matter, also when only one of them is healthy; a restart of one Worker is all that
`OwnOutcome`'s exception needs. Two inputs are what a join gathers; three runs give a
first, a middle and a last one. Two attempts on a Worker are enough to see one action disturb another
attempt's record (attempts share only the manager's life), and two partitions to see a
cleanup or a write stop between them. Two tasks on one slot make one wait while the other
holds it, and make "the first to raise" a choice; two attempts per task make every retry
path and the last attempt happen. Two stages make dependency order matter. Three scheduler
runs of a query give a first, a middle and a last one; two cancel calls can overlap, and
one can time out while the other waits. Leases are drawn from as many ids as can be in use
at once plus one. Delayed requests are bounded by `MaxLate` per Worker. Three imports make
one fail over the manifest of a crashed one that followed a good one; two locations let a
table move away from its manifest and two tables share one. A charge of 3 exceeds the
attempt's budget, two attempts together exceed the query's, and two rows make one stay in
memory while the next is refused. Records of different Workers have nothing in common but
the lock, so one Worker is enough for the registry.

Symmetry is used only in runs without liveness, over sets the specification treats alike
(Workers; tasks of one stage; tables, locations, imports, queries).

**Deadlock** is checked in every run but `planning`, `distribution` and `sharing`, where a
behaviour ends with the statement's run or the last query; `EveryQueryEnds` says that
`sharing` ends nowhere else. Elsewhere `Over` (scheduler, query), `Exit` (Worker), `Done`
(spill) and the like are the only places where a system may stop, and say when.

## 4. Fairness

* `WorkerTasks`: the event loop runs ready coroutines, and a thread whose token is set
  reaches its next check: operators call `check` between batches, and I/O has timeouts.
  A thread nobody cancels may compute for ever.
* `SharedWorkers`: a scheduler goes on polling, retrying and discarding, and the thread of
  an attempt ends. Nothing is assumed of lost leases, timeouts or restarts.
* `InProcessRuns`: ready coroutines run, and the tasks of a run end. No cancel has to come.
* `WorkerRegistry`: time passes, the lease monitor and the agents' loops go on. Nothing is
  assumed of faults or of when a delayed request arrives. The liveness properties start
  when the faults end (`calm`), which never has to happen.
* `TaskScheduler`, `EventLoop`: ready coroutines run and HTTP calls end, with or without
  success, since every `AsyncClient` has a timeout. A semaphore is granted to a waiter
  while it is free (`asyncio.Semaphore` is FIFO). Nothing is assumed of Workers. `FairSpec`
  adds that an attempt seen running times out (`attempt_timeout_seconds`), but not once the
  run is cancelled: that a cancelled run ends must not depend on the timeout.
* `QueryService`: the coroutine and the calls are resumed; a scheduler run ends because
  `ScheduleRun` says so, which `scheduler_live` checks. No cancellation timer is fair.
* `SpillMemory`: the operating system runs every thread. No cancellation has to come.

`QueryPlanning` states no liveness beyond `RulesSettle`, which is an invariant.

## 5. Where code and documents disagree

The run `distribution` shows the one that matters most: **a broadcast join multiplies the
result** (`DecisionsKeepTheAnswer`). The documents ask for the cheapest plan "that meets
the distribution the join keys require" (`docs/implementation.md:40`, `spec.md:154`). The
broadcast candidate (cost.py 522-530) is offered whatever the join type and however many
partitions the probe side has. The exchange makes `worker_count` copies of the build side
(physical.py 118-126), and a probe side of one partition, as an import leaves it by
default, is joined with each copy, so that every row appears once per copy.

Ten further disagreements have a configuration each, which TLC is expected to find
violated; they are not among the runs of `PROJECT.json`. (`spec.md`, `tasks.md` and
`checklist.md` are in `src/.trae/specs/build-distributed-sql-engine/`.)

| Configuration | Property | What happens, and what it contradicts |
|---|---|---|
| `MCQueryPlanningHash` | `DecisionsKeepTheAnswer` | An import hashes the JSON text of the key (importer.py 233-255), the shuffle that of the list of keys (shuffle.py 228-240). Repartitioning one side to an imported partitioning (`docs/implementation.md:58`) loses matches. The end-to-end test lays its tables out with the shuffle's function and does not meet this. |
| `MCQueryPlanningReorder` | `ReorderedPlansAnswer` | `_qualified_fields` qualifies the names of a Scan only (cbo.py 272-281). Pushdown makes a relation with a WHERE a Filter over a Scan; a join that the reordering builds over it lists bare names, and the engine, whose rows carry qualified ones, drops the columns: above the join they are NULL. With a WHERE on two relations that have a column name in common, the schema has a name twice and planning raises. Both against `spec.md:112`, and both explicit exceptions in `ReorderKeepsTheAnswer`. |
| `MCQueryPlanningWindow` | `RewritesKeepTheAnswer` | `expression_children` does not list the ORDER BY of a window (utils.py 43-63), so pruning drops a column that only this ORDER BY reads, and the window raises. Against `docs/implementation.md:19`. |
| `MCQueryPlanningFilter` | `SpillingKeepsTheAnswer` | A runtime filter is handed on through an outer join below to its null-supplying scan (engine.py 149-175). With a key such as `COALESCE(b.k, 1)` the removed row becomes a NULL-extended one that may match. Against `spec.md:199`. |
| `MCSharedWorkersHealthy` | `HealthyQueriesSucceed` | Attempt ids count stages from 0 in every executor (remote_execution.py 343-346) and Workers keep ended records (tasks.py 118-124): refusals alone can use up a task's attempts, and a query fails although every Worker is healthy all the time (`Listings` has the set of all Workers only). It takes no concurrency, only an earlier query of the same shape. Against `spec.md:224`, `docs/implementation.md:111`. |
| `MCInProcessRunsCancel` | `CancelStopsNewRuns` | `DistributedExecutor.cancel` sets only the token of the run started last (scheduler.py 225-243); the other input of a gathered join goes on and starts new runs. Against `checklist.md:62`. |
| `MCTaskSchedulerCancel` | `CancelWaitsForAttempts` | A run waits for the siblings of the first task to raise only if that task raised a cancellation (scheduler.py 274-290). One that fails otherwise around the time of the cancel ends the run (291-293) while siblings still drive their attempts. Against `tasks.md:214`. |
| `MCTaskSchedulerDiscard` | `DiscardRemovesOutput` | A DELETE does not delete the output of an attempt that has already succeeded, and `RemoteWorker.discard` deletes only an artifact it recorded: after a lost answer, or for a shuffle write, the output stays. Against `docs/implementation.md:120`. `OneIntactWinner` shows that it is never mistaken for the winner's. |
| `MCCatalogImportDrop` | `FilesAreImmutable` | A table dropped between an import's commit and the read after it (repository.py 405) makes the handler delete committed files that a query may have found in the catalog. Against `importer.py:1`. With a failing SQLite read instead of the drop the catalog even keeps listing them. |
| `MCSpillMemoryIsolation` | `SpillsAreIsolated` | `cleanup` of an attempt removes the query's directory when it is empty (memory.py 169-173), which can be just when another attempt has made it for its first run: that run fails as RESOURCE_EXHAUSTED. Against `docs/architecture.md:118`. |

Observations from the translation that no document speaks of, and that no property is
about: constant folding visits neither windows nor grouping sets; the binder accepts
`SELECT k ... GROUP BY k + 1`, some HAVING clauses and ON conditions that are not
equalities, which the engine then refuses or fails on; ORDER BY on a column that is not
projected fails at run time; an equality over three relations, such as `a.v + b.w = c.u`,
may be moved by the reordering to a join that the engine refuses (engine.py 226), although
it runs the plan as written; a GROUP BY expression fails when distributed remotely, and a
join on cast keys has no distribution keys and is refused; a query whose Worker restarts
between its POST and a poll may be given the result of another query of the same shape
(the exception in `OwnOutcome`); `update_table` (repository.py 249) writes back fields it
read earlier, so that it can undo the partition strategy of an import in between.

## 6. Proofs

Eight modules prove, for every value of the constants (any number of attempts, submissions,
partitions, clients, queries, Workers, tasks, stages, scheduler runs, tables, imports, rows,
limits and periods), the type invariant and every safety property that the code satisfies
of every module but the planning pipeline. The assumptions are the `ASSUME`s of the
modules, which give the constants their types and keep them apart, and say that there are
finitely many attempts in `SpillMemory`; TLC evaluates them in every run. One theorem,
`LeaseCorrect`, has a hypothesis of its own. Proved and in no run are the type invariants,
`NoDebris`, `SucceededIsComplete`, `ManifestDescribesData` and `TerminalIsFinal`
(`WorkerTasks`), `TerminalHasStopped` and `ClosedIsSettled` (`QueryService`),
`ManifestListsWholeData` (`CatalogImport`) and `NothingIsRegistered` (`InProcessRuns`).
TLC has checked every inductive invariant below on the instances of section 3.

*WorkerTasks.* `NoDebris` and its companions speak of terminal states; whether the step
into one is right depends on what the thread had put in the store before. `IndInv` adds,
for every place of the thread, what the store holds there (`StoreInv`), what the record
says (`RecordInv`: a busy thread has a pending future and a RUNNING record), that a
shuffle write has no artifact and another task no shuffle files (`Shape`), and that
success is for good even when a shutdown was aborted (`SuccessInv`). It is a conjunction
over attempts, and an action concerns one attempt: `OthersUntouched` and `FrameKeeps`
dispose of the others, one lemma per action of the rest. `TerminalIsFinal` follows from
`IndInv` as an action property. `ManifestInv` excepts attempts with `refused`: a store
that refuses a delete can leave a manifest without its files. `AttemptContractKept` is the
refinement of `WorkerAttempt`: `IndInv` gives every attempt a view inside the contract
(`Seen`), and `ViewMoves` takes one action at a time and shows that it moves the view of
its attempt as the contract allows and leaves the views of others, or, for a shutdown or a
crash, moves each.

*SharedWorkers.* That a query returns its own result needs to know whose record it polls.
`PollersOwn` says that a query which polls an undisturbed Worker owns the record under its
id; `RecordsHaveOwners`, that a record exists exactly when it has an owner, which used that
Worker for that number;
`AttemptsInOrder`, that attempts have Workers and reasons up to the current number and none
beyond, unless the task has failed for want of a Worker, which makes the retries of one
query use different numbers;
`CancelsHaveACause`, that a record in cancellation was given up by its owner or its number
was used by another query at the same Worker. `OwnOutcome` and `OnlySharingRefuses` are
inductive together with these: a query fails because a discard was not confirmed, because
no Worker was healthy, or after all its attempts, each of which ended in a fault or met
another query's record.

*InProcessRuns.* `hit` must doom the query although the run whose token was set may itself
end without an exception. `HitDooms` says that after a hit some part has raised or is about
to; `EntryIsLive`, that the entry is that of a part with a run under way; `RootComesLast`,
that the root starts after all inputs are done. From these follow `HitMeansNoResult` and
`NothingIsRegistered`.

*QueryService.* `IndInv` adds to the properties how the state follows the coroutine
(`StateFollowsPc`), that runs are outstanding only while the query runs (`RunsLeft`), and
`Books`: who knows of a request to cancel. The key is `pc = "running" /\ requested =>
flagged`: a request that comes before the executor exists is caught by the check after
planning, and one that comes later flags the executor, so no interleaving hides it. From
it follow `ResultsAreWanted` and, as action properties, `NoRunAfterCancel` and
`OutcomeIsFinal`.

*CatalogImport.* That the catalog lists complete files is not inductive: a rollback deletes
files, so nobody may refer to the import whose files it deletes. `Unlisted` says that the
catalog lists the import in progress only after its commit, `Unpublished` the same of
manifests, `Unread` of queries; `Progress` says which files are complete at each step, and
`Fresh` that an unused id is referred to nowhere. Each of the three holds until the
trouble that breaks it has been seen: a failing read after the commit breaks `Unlisted`, a
lost answer `Unpublished`, a dropped table `Unread`; and `seen` only grows (`SeenStep`).
`DataStep`, `ListsStep`, `ManifestStep`, `SnapStep` and `PcStep` summarise what a step does
to one variable, so that the invariants need no case per action. `ManifestFollowsCatalog`
speaks of the time between imports, so its invariant, `FollowInv`, says what holds during
one: the manifest at the import's location is the one it replaces or its own, by `pc`
(`Held`), and the one it replaces is fit to stand there again (`Matched`). A table becomes
the only one at a location just by being created where there was none, and there no
manifest lies (`Empty`).

*TaskScheduler.* The properties speak of attempts left behind and of runs that returned;
whether letting go of an attempt was right depends on what the Coordinator had learnt of
it. `TaskInv` says so for every place of a task's coroutine: nothing is on the Worker
before the POST (`Unsent`), an outcome says how the attempt ended there (`Outcome`), an
attempt is stopped or discarded for a reason (`Reason`), what runs unwatched was LOST
(`Linger`), the winner is the last attempt and its output is there (`Won`), attempts not
made are nowhere (`Unmade`, `Counted`). `RunInv` ties the tasks to the loop of `run`: the
stages of a batch are ready (`Loop`), a task has begun or has its result with its stage
(`InStep`), a cancelled run was asked to be (`Asked`), a returned one is quiet (`Back`).
A step of one task leaves the others alone (`FrameKeeps`, `OneTask`), and there is one
lemma per action. `ContractKept` is the safety part of `ImplementsScheduleRun`: the initial
states of `TaskScheduler` map to that of `ScheduleRun`, and each step to a step or a
stutter (`ContractStep`); its fairness stays with TLC. `RemoteContractKept` is the other
half of `WorkerAttempt`: `TaskChanges` says of each action what it can do to `remote` and
to the place of its task, `ChangeMoves` that each such change moves the view as the
contract allows; it needs from `TaskInv` that an attempt which is on its Worker has
arrived there (`OnWorkerHasArrived`), so that its POST is not counted as lost.
`CancelBounded` is what `CancelEndsRun` rests on: once the token is set, each step of a
task's coroutine lowers `Countdown`, which starts at eight at most and which no other step
raises (`CountsDown`). TLC adds that a coroutine that can take its next step does.

*SpillMemory.* `NoRowIsLost` speaks of the end of a sort; inductive is that every row is in
the input, in hand, in memory or in a run while the sort can succeed (`Rows`), together with
when there is a row in hand (`Hand`). `Charged` says that the account holds what the rows
are charged, and nothing after the sort; `Removed`, that an attempt past its `rmdir` has no
directory; `Kept`, that the query's directory is there only while some attempt is still to
end: the attempt that finds it empty removes it, and a directory in it is that of an
attempt still to end. That the query's account is the sum of the attempts' accounts needs
facts about sums over a set of any size: `TotalChange` (a sum changes as one summand does),
`TotalAtLeast` and `TotalZero`. They are proved by the least counterexample
(`Least`, from the library's theorem on well-founded relations, `CountUp`, `SetsByPick`),
since the library's induction theorems are out of reach of the provers. `SortsCorrect` is
what `EverySortEnds` rests on: each step of an attempt lowers `Rank`, 21 for every row it
has still to read plus the steps left from its place, the longest way through a spill
included; a step of another attempt leaves it (`StepLowers`). So no refused reservation or
vanished directory makes a sort repeat itself, and it ends after 21 steps per row and 19
more if it is run.

*WorkerRegistry.* A step changes a record only as the lease the request carries says
(`HeartbeatRecord`). For `OldLeaseIsInert` the invariant must know that a heartbeat under
way carries the lease of its agent (`Carries`), for `LostNeedsNewLease` that a LOST record
has no time left (`Lapsed`); a new lease differs from all that are carried (`Drawn`).
`RecordStep` says what a step may do to one record, and both action properties follow.
`LeaseCorrect` is what `RunningWorkersStayHealthy` rests on. It has a hypothesis, Beat <
TTL: the defaults satisfy it (2 s and 6 s in `common/config.py`), nothing enforces it, and
without it the claim is false. A lease is in force (`InForce`) if its Worker has it and
its next heartbeat is due before it runs out, is under way, or has just extended it. Time
does not pass while a request of a running Worker waits to be handled in calm times, so
each of the three leads to the next, and no delayed heartbeat interferes; a delayed
registration does, and the property names it.

## 7. Only model-checked, and not modelled

TLC only, and for good: liveness under fairness and ENABLED, with it the fairness of
`ScheduleRun` in `ImplementsScheduleRun`. Three of the liveness properties have their
safety core proved, the measure that falls or the condition that persists (`CancelBounded`,
`SortsCorrect`, `LeaseCorrect`); that fair steps are taken, and the other liveness
properties, remain. And the five invariants of the planning pipeline, whose plans and
expressions are trees and whose operators are RECURSIVE, which the provers do not take.
`QueryPlanning` has no type invariant: its plans have no bound that a set could state.

Not modelled: data sources (readers over libraries), observability and advisor (reports
over finished results), command line, web page, local cluster, configuration; SQL text,
which a library parses; string, date, decimal and floating-point functions; estimates of
rows and costs; statistics; wording of errors, metrics and logging; HTTP authentication and
the transport of S3 requests; durations (beyond the registry's ticks); slots of
`LogicalWorker`; the stage graph of `StagePlanner`, which is only reported. `PROJECT.json`
gives the reason for each component.

## 8. Plan

Every safety property of the concurrent modules is proved, and the two abstract
specifications are shown to be implemented by what stands on either side of them. What
could follow: measures for the remaining liveness properties (a query of `SharedWorkers`
has finitely many attempts left; a shutdown of the query service waits for finitely many
calls), and the pure helpers of the planning pipeline that need no recursion.

# bask in TLA+

bask runs a pipeline of typed tasks inside one process. Workers receive tasks,
emit new ones into a bounded queue, feed routers, may fail and be retried, and
may be made durable by checkpoints. This directory holds TLA+ models of that
behaviour, the TLC configurations that check them on small instances, and
proofs, checked by TLAPS, of what holds for every instance. Paths below are
relative to `src/`; `core/` stands for `crates/bask-core/src/`.

## 1. The system

| Part | State it keeps | Operations | Interacts through |
|---|---|---|---|
| Dispatcher (`core/scheduler.rs`, `run`) | program counter, tick timer, `interrupted` | receive, take the global permit, dispatch, flush routers, drain, stop | the mpsc channel, semaphores, latches, `InFlight` |
| Dispatched task (`dispatch`) | its envelope, permits, checkpoint claim | admit, select an instance, acquire, process, settle or retry | everything below |
| Queue (`Queue`) | channel, `depth`, per-type `queued` | `try_send`, `send`, `blocking_send`, notes | monitor samples |
| `InFlight` | count and a `Notify` | `inc`, `dec`, `wait_idle` | decides when a run is over |
| `RunSlot`, `Emitter` | the permits of a running task | `release`, `reacquire` | backpressure in `Context::emit` |
| Interrupt (`core/interrupt.rs`) | two one-shot latches | `trigger`, `cancel`, `wait` | dispatcher, workers, backoff timers |
| Retry and selection (`core/retry.rs`, `resource.rs`, `registry.rs`) | attempt, tried mask, last instance | `decide`, `Backoff::delay`, `Group::select` | envelope |
| Checkpoints (`core/checkpoint.rs`, `sqlite.rs`) | store rows, write-through index, claims, extents | `admit`, `claim`, `consume`, `release`, `record_extents` | dispatched tasks; the next run |
| Resume (`prepare_seeds`) | none of its own | prune covered seeds, reseed stored items | store, dataset |
| File dataset (`crates/bask-io/src/dataset.rs`) | shard files, sqlite rows | `commit`, `put`, `supersede`, `stored` | checkpoints |
| Routers, dedup (`core/router.rs`, `dedup.rs`) | sharded fold state, pending coverage | `route`, `flush`, `finalize` | flush epochs of the dispatcher |
| I/O and formats (`bask-io`, `bask-formats`) | open readers and writers | `next`, `write`, `finish` | source and sink workers, `on_stop` |
| Agents and sandboxes (`bask-agents`, `bask-sandbox`) | a conversation, a spawned sandbox | tool loop, `exec`, `teardown` | `Context::emit` |
| Python bindings (`bask-python`) | threads, a bounded stream | emit from threads, `RowBatch` | `Emitter`, flush hook |

What makes each of them correct, and what is hard about it:

* **Run.** Every task that comes to exist is settled once; the run returns
  exactly when none is left; it always returns when workers do. Hard: the count
  that decides this is changed by many concurrent tasks, a child must be counted
  before its parent is discounted, and the only consumer of the bounded queue
  itself waits for permits that producers hold.
* **Permits.** Exact on every way out of `process`: return, error, timeout,
  cancellation, panic, and while parked. Hard: futures are dropped at any
  suspension point.
* **Shutdown.** Reaches every state of a run and ends it within the grace
  period. Hard: two latches, two phases, and a flag that is read twice.
* **Queue counters.** Agree with the channel when it is at rest, and the last
  sample of a run nearly so. Hard: the note follows the send it describes, and
  the run does not wait for the notes of feeders and retries.
* **Checkpoints.** A claim comes back on every way out of a worker, two workers
  run for one key only where the code lets first arrivals race, and a covered
  source row is either done or can be replayed. Hard: three locks taken one after
  the other, two writes that are not one transaction, crashes between any two
  steps.
* **Dataset.** Superseding drops a shard only when its rows are elsewhere, and
  removes a file only when no live row needs it. Hard: every statement commits on
  its own, keys with equal contents share a file, and what is newer is decided by
  coverage, which routers stamp.
* **Routers.** Every buffered row is emitted and covered once. Hard: coverage
  waits for the next emission, also of a shard that emits nothing for a while.
* **Retries.** Bounded by the policy of the instance that ran last; a targeted
  constraint is never silently rerouted. Hard: policies, hints and the tried mask
  of several attempts are mixed.
* **Streams.** A training loop gets every row once and always gets to its end.
  Hard: four things are waited for (interpreter lock, queue, dataset lock,
  channel) by threads that hold others of them, and threads outlive their tasks.
* **Agents.** A conversation is complete whenever the model is asked, one attempt
  emits the tasks of one answer, and no container that a sandbox owns stays.
  Hard: process may be dropped at every suspension point, and what Drop starts
  may be dropped too.
* **Sinks and sources.** A chunk has the same rows whenever it is read, and rows
  whose write was acknowledged are in a finished file. Hard: writers move into
  blocking jobs that outlive the future that waits for them.

The complete list of hazards with their lines is in `PROJECT.json`.

## 2. Modules

| Module | Models | Uses |
|---|---|---|
| `RunContract` | what a run promises, abstractly: tasks are created, settled once, and the run returns over settled tasks only | – |
| `Scheduler` | `scheduler::run` and `dispatch`, `Context::emit_envelope`, `RunSlot`, `RetryPolicy::decide`, the latches as booleans | refines `RunContract` |
| `OneShot` | what a latch promises: one boolean, set once | – |
| `Latch` | `Latch::set` and `Latch::wait` over a flag and a tokio `Notify` | refines `OneShot` |
| `SchedulerProofs` | theorems about `Scheduler` and `Latch` | `Scheduler`, `Latch`, TLAPS |
| `QueueDepth` | the counters of `Queue` and the samples a monitor takes of them | – |
| `QueueDepthProofs` | theorems about `QueueDepth` | `QueueDepth`, TLAPS |
| `Checkpoint` | `Durability`, `Store`, `Dataset::put` and `prepare_seeds` over several runs with crashes | – |
| `CheckpointProofs` | theorems about `Checkpoint` | `Checkpoint`, TLAPS |
| `FileDataset` | the shards, rows and statements of one `FileDataset` | – |
| `Router` | a registered router: `Holder`, `stamp`, `Routers::flush_all`, with `RowAggregator` as its operator | – |
| `DatasetPipeline` | a save, edit, save pipeline over several runs with crashes | extends `FileDataset` and `Router` |
| `DatasetProofs` | theorems about `DatasetPipeline` | `DatasetPipeline`, TLAPS |
| `PyStream` | a Python engine consumed as a stream: interpreter lock, blocking `Emitter`, collector, `StreamHandle`, `TaskStream` | – |
| `PyStreamProofs` | theorems about `PyStream` | `PyStream`, TLAPS |
| `Sandbox` | the sandboxes of one agent's attempts and their commands | – |
| `Agent` | one task whose worker is an `Agent`, from its first attempt to its end | extends `Sandbox` |
| `AgentProofs` | theorems about `Agent` | `Agent`, TLAPS |
| `RetrySelect` | instances as the builder makes them, `Group::select`, `Select`, `RetryPolicy::decide`, the emit policy, dead letters | – |
| `RetrySelectProofs` | theorems about `RetrySelect` | `RetrySelect`, TLAPS |
| `Records` | `SourceWorker` with `ReBatch`, `SinkWorker` with the rotating sink, for one file | – |
| `RecordsProofs` | theorems about `Records` | `Records`, TLAPS |
| `MC...` | the small instances TLC checks | the modules above |

Operators marked *Fault* are mutated forms of the definition that follows them.
No specification uses one; they exist to show that a property notices the
mistake, and `PROJECT.json` names which.

### 2.1 Scheduler

A task is one `Envelope`; `stage[t]` says where it is. A step runs from one
suspension point (or one atomic that others can see) to the next.

| State | Code |
|---|---|
| `queue`, `Capacity` | the mpsc channel of `run` |
| `inFlight`, `owes` | `InFlight`; a task that recorded its outcome *owes* the `dec()` that follows it |
| `free`, `held`, `Slots` | semaphores; a task takes the global permit, its instance's, then its pools' in the order of `requires()` |
| `child` | the envelope whose sender is suspended in `Queue::send` (`context.rs:64`) |
| `loop` | the dispatcher: `check` (loop head), `select`, `permit` (awaits the global permit), `phase2`, `drain`, `stop`, `done` |
| `shutdown`, `cancel`, `interrupted`, `extents` | the two latches, the report's flag, whether `record_extents` ran |

| Actions | Code |
|---|---|
| `Look`, `Wake`, `Recv`, `Dispatch`, `EndEpochs`, `Flush` | phase 1 of `run` |
| `Phase2`, `GraceElapsed`, `DrainRecv`, `Drained`, `Stop` | phase 2, `on_stop`, the report |
| `Reject`, `Select`, `Acquire`, `Enter`, `CancelBeforeRun` | `dispatch` up to the call of `process` |
| `Emit`, `EmitParks`, `Unpark` | the two arms of `emit_envelope`; re-acquisition goes through `Acquire`'s order |
| `Complete`, `Error` (`Retry` or `FailTask`), `Timeout`, `CancelTask`, `Panic` | the ways out of `process` |
| `DelayElapsed`, `CancelDelay`, `Send`, `Dec` | backoff timer, waiting sender, `in_flight.dec()` |

Payloads, types and the choice of the instance are abstract: any instance may
be selected, and any dispatch may be rejected (no worker, no eligible instance,
a checkpoint error). Whether an error is retried is a choice while attempts
remain, which covers every policy and hint.

### 2.2 QueueDepth

Producers (tasks, feeders, emitter threads) send and then run
`note_enqueued`, two `fetch_add`s; the dispatcher receives and then runs
`note_dequeued`, two `fetch_sub`s. Counters are words of `Width` values that
wrap (`Up`, `Down`). A sample reads the depth first and the types' counts one
by one, as `snapshot` does; the dispatcher samples only between receives, and
`LastSample` once more when nothing is in flight (`scheduler.rs:525`). An emitter
has then noted its sends, because its own envelope is in flight until `process`
returns; the senders in `Detached`, which the feeder of the seeds and the tasks of
retry delays are (`:360`, `:849`), have not necessarily, nor has the thread of a
blocking emitter whose process was cancelled.

### 2.3 Checkpoint

One checkpoint type, its store and (with `HasDataset`) its shards, over any
number of runs. An envelope of the type is emitted while the source is read
(`Sourced`), is a seed (`Plain`), or is the replay of a stored item. `pc[e]`
is its position in `Durability::admit`, the worker and `Durability::consume`;
each lock section or write is one step. `StartRun(w)` is `Durability::new` and
`prepare_seeds`, with (`w`) or without a worker for the type, the latter also
standing for a type selected as terminal. `EndRun` includes `record_extents`;
`Crash` may come between any two steps and leaves `row`, `cov`, `shard` and
`extent` only. `done` is a history variable: the keys a worker succeeded for.

`Panic` unwinds the spawned task (`scheduler.rs:787`): `release` and
`in_flight.dec()` are never reached, so the claim stays and the run never ends
(`Hung`); only a crash, which then needs no further fault, gets out of it.
`raced` is a history variable, too: the keys whose claim a first arrival took,
after its commit, although somebody held it (`checkpoint.rs:454`).

The queue, the permits and the backoff of a retry are those of `Scheduler` and
are left out: a retried envelope is simply queued again.

### 2.4 FileDataset, Router, DatasetPipeline

A key is a checkpoint type and the set of rows in the item; `HashOf` is the
content hash, so that different keys may share a file. `stat`, `cov`, `shard`,
`seq` and `live` are the columns of the table; `file[h]` is `absent`, `torn`
(created, not yet written) or `whole`.

| State and actions | Code |
|---|---|
| `op` | the `put` that holds the connection's lock and its next statement |
| `BeginPut`; `Check`, `Fill`, `Point` | `put`; `materialize`: `path.exists()`, the write, the UPDATE with the next `seq` |
| `Drop`, `Collect`, `Remove`, `EndPut` | `supersede`: one UPDATE per superseded row, the SELECT of what is live, one removal per dead hash, the return |
| `AbortPut` | an error of a statement, or the end of the process: the lock is free, the rest is not done |
| `held`, `pending`, `Route`, `FlushAll` | `Shard` with `RowAggregator`; `Holder::route`; `Routers::flush_all` |
| `Fold`, `Admit`, `StartPut`, `FinishPut`, `FailPut` | `ctx.route` in the reader; `Durability::admit` of a batch up to its claim |
| `Edit`, `Consume`, `Flush`, `EndRun`, `Crash`, `StartRun` | the worker of the saved type; `consume`; a flush epoch; `record_extents`; the resume of the next run |

`supersede` reads the rows first and updates them one by one. `Drop` evaluates
each row when it is updated: a row's condition depends on `seq`, `cov` and
`shard` only, which no UPDATE of `supersede` changes. Rows of one run are folded
in any order, since the tasks that fold them run concurrently. Admission is that
of `Checkpoint` with one arrival per key: a key whose row exists is skipped, or
worked on when it is a replay that nobody claims.
`Permits` is the engine's concurrency: `Admit` takes a permit before the store is
asked, as the loop of `run` does before it calls `dispatch`.

### 2.5 PyStream

`gil` is the piece whose thread was *left* inside a Python callable; a step that
runs Python code needs it to be free and is otherwise atomic, because CPython
switches threads between bytecodes and only a callable of the user (the group's
constructor, `LoseLock`) gives it the occasion in this code. `at[p]` follows the
thread of one worker through `RowAggregator.push` and `Emitter::enqueue`;
`stage[g]` follows the task of a full group through admission, the Python
dataset (`dlock`, taken *before* the interpreter lock), the collector's one
instance and `consume`; `eng` is the engine's thread (`loop`, `drain`, `cancel`,
`end`, then `over`: the engine and its channels are dropped, `outcome`, `exited`: the
runtime has waited for its blocking threads); `con` is the training loop in
`__next__`, `close` and `join_thread`. `Cancel` leaves an `orphan`: its process
is dropped, its thread and the permits it shares are not. The engine itself is
reduced to what its tasks can wait for; `Scheduler` models it in full.

### 2.6 Agent and Sandbox

`phase` is where `Agent::process` waits: `create`, `start` and `prepare` in
`spawn`, `ask` for the model, `emit` in `Context::emit`, `tool` and `exec` in
`step_builtins`, `text` in `on_text`; `ended`, `error` and `fatal` are results of
`run_loop` before `teardown`. A sandbox is named after its attempt. `Dropped` is
the engine's timeout or cancellation; it can hit every suspension point and drops
what is owned there. A container's request is carried out by the daemon (`Serve`)
whether or not `spawn` still waits for it, and it is `owned` only once
`start_container` has returned and a `ContainerSandbox` is built
(`container.rs:108`): dropped or failing before, `spawn` leaves a container that
may be running, or start later, and that nobody removes. A command may not start
(an error of `create_exec` or of the subprocess), end, exceed its time limit,
which is a result, or fail while it is read (`CommandFails`), which ends the
attempt and leaves what runs in a container to its removal. `removals` are the
tasks that `Drop` spawned. `left` says of whom a process runs on unattended. A
model may give any of the listed answers at any time.

### 2.7 RetrySelect

`Specs` are the registered workers; `Attr`, `Permits` and `Policy` are what
`EngineBuilder::build` and `dispatch` make of them. One task is followed through
its attempts; `OtherStarts` and `OtherEnds` are tasks of the same type that
only matter as load. `log` is a history variable, from which `Wanted` tells,
without mask or envelope, what the error of an attempt asks of the next one.

### 2.8 Records

A file is given by the number of rows up to the end of each of its batches, and a
batch in the reader's buffer by the rows it still holds. `Pull` and `Filled` are
the first loop of `ReBatch::next_chunk` and its end, `Take` is one round of the
second, which removes the first batch of the buffer and puts back what of it is
not needed, and `Emit` is the return of the chunk and its emission by
`SourceWorker`. `buffered` is the code's own counter beside the buffer: it is
adjusted when a chunk is complete and not while it is cut. `at[c]` follows the
write of a chunk through `finish`, `open` and `write`, the three blocking jobs of
`RotatingRecordSink::write`; with `rotate = None` the same steps are those of
`FormatSink`. `late` are jobs whose future was dropped; `made` tells whether the
file a job still has open is the one that is on disk now. `framed` stands for
formats that are unreadable without their footer (Parquet, Arrow), the others
(CSV, JSON lines) are readable as they are. `lost` and `of` are history
variables. Arrow, CSV and JSON lines read through `ReBatch`; Parquet's own reader
is told the chunk size.

### 2.9 Latch

A step is one access to the flag or to `Notify`, of a thread in `set` or of a task
in `wait`. Of `Notify`, which is a library, the model has what its users rely on:
`notify_waiters` wakes whom it finds in the list and is counted (`calls`); a
`Notified` knows the count at its creation (`seen`) and enters the list only if it
has not changed. A wait can be dropped where it awaits, as the branches of
`select!` in `run` and `dispatch` do. The latch that nobody is inside is the
boolean of `OneShot`, and of `Scheduler`, which the refinement allows to abstract
from the handshake.

## 3. Runs

| Run | Question | Result |
|---|---|---|
| `scheduler_safety` | Are the count, the permits and the channel exact on every path, and is `RunContract` kept? | holds |
| `scheduler_progress` | Does a run always return when workers do, with a full queue, retries, router flushes and instances that share two pools? | yes, when both take the pools in one order |
| `scheduler_shutdown` | Does a shutdown at any moment end the run, even when workers never return? | yes, unless an envelope was lost or the dispatcher waits for a permit for ever |
| `queue_depth` | Do the depth counters describe the channel, and what does the last sample of a run show? | yes, up to notes still to be taken; the last sample up to those of detached senders |
| `checkpoint_safety` | Do races, errors, panics, refused retries, shutdowns and crashes lose an item, a claim or a status, and which let two workers run for one key? | no item and no status, with payloads in the store; a claim only by a panic or a refused retry; two workers only by the race of two first arrivals |
| `checkpoint_live` | Does resuming finish the work and then settle? | yes, but for items torn between store and dataset, and for a run that hangs on a panic and is not killed |
| `dataset_pipeline` | Does superseding, interrupted anywhere, ever drop the only shard of a row or a file somebody needs? | no, with one group per emission |
| `dataset_siblings` | The same when a flush emits two groups? | **violated** |
| `py_stream` | Does a stream deliver every row once, end, and leave nothing behind? | holds |
| `agent` | Are conversations complete, emissions those of one answer, does the task settle and do containers go? | holds; of containers, for those a sandbox owns, unless the daemon refused the removal or the runtime ended first |
| `selection` | Does every retry land where its error asked, and is a task given up exactly when due? | holds |
| `records` | Are chunks the same in every attempt, does the buffer never run out inside one, and are acknowledged rows readable? | yes, unless a later call lost or tore their part |

`Latch.cfg` stands beside these runs: two setters, of which one loses the swap,
and three waiters (2,233 states, calls are not bounded). TLC finds that nobody
sleeps over a set latch (`NoLostWakeup`), that a wait returns only after the
latch was set (`KeepsLatch`) and that each wait of a set latch ends (`WaitsEnd`);
the first two are proved. A wait without its second look violates the first, one
that takes any poll for the notification the second.

**Bounds.** Scheduler: three envelopes of which one is a seed, so that a seed can
emit a child and the child or a router another; a queue of one and one permit, so
that every send meets a full queue and every dispatch a missing permit; two
attempts, so that a task is retried and exhausts its policy. `scheduler_progress`
has two instances and one permit for each of two pools. Larger values add tasks
that behave alike: every guard compares a length, a count or an attempt with a
bound that these instances reach. QueueDepth: an emitter, a feeder and a retry,
of which the latter two are detached, with up to two envelopes each; a queue of
two, and words with more values than the ledger's range needs. Checkpoint: two
keys, two source rows that share one, one seed; `MaxFaults` (two or three) bounds
crashes, shutdowns, panics, store and worker errors and runs without the worker
together, which is enough for a fault in one run to meet a fault in the next; the
crash of a run that hangs is free. Retries may be refused an instance
(`Targeted`) in both runs. Runs are not bounded: the state space is finite
without it. `dataset_pipeline`: three rows in batches of two, so that a run emits
one full batch and one at the flush, and a run after a crash may pair the rows
differently and supersede in part; two permits and two faults; a batch of one row
shares its contents with its edited form. Rows are symmetric there. `py_stream`:
three pieces in groups of two (one full group, one flushed), every queue of one,
two permits, so that a thread waits with a permit while another has one. `agent`:
two attempts of two answers, at most two calls of any kind per answer, all three
backends, two faults. `selection`: three instances with three different policies,
two of them with one attribute, four attempts, more than there are instances, so
that the mask fills and is reset. `records`: files of up to five rows in batches
that are empty, smaller and larger than a chunk of two, parts of three rows that
two chunks fill or (`rotate_rows` 0) of one row that one overfills; two attempts;
two faults.

**Deadlock** is checked except where the code may stop: with timeouts or panics a
lost envelope makes the run wait for ever (section 4), and hung workers are the
subject of `scheduler_shutdown`; the queue's run, a stream, an agent's task and a
copy are over when they are over.

**Fairness.** `HungSpec` assumes of the engine only that it takes *some* step
when one is ready: tokio polls ready tasks, timers fire, semaphores and channels
hand what is free to a waiter. `FairSpec` adds that running workers keep
returning; `scheduler_shutdown` does without it. Neither says which task moves;
termination does not depend on it. `QueueDepth` assumes that each producer
finishes its note, that the sampling in progress ends, and (strongly) that
`recv`, and in the end the last sample, is taken although ticks compete with it
in the same `select!`, which picks at random and whose interval leaves time
between ticks. Periodic samples need not be taken. `Checkpoint` assumes that each
envelope's next step is taken and that runs end and are started again with a
worker; faults are never required to happen or to stop, only bounded. `PyStream`
assumes strong fairness of its five groups of threads (engine, consumer, workers,
workers that wait for the interpreter lock inside a callable, sinks): CPython
makes the holder of its lock give way after an interval and hands it to one that
waits, and mutexes, channels and semaphores wake a waiter. Within a group it says
nothing of who moves. A consumer is free to close, never obliged to. `Agent`
assumes weak fairness of `Advance` (the runtime polls what is ready, the model
answers or fails, timers fire), of `Serve` (the daemon carries out what `spawn`
asked for) and of `Collect` (it answers a removal while the runtime exists); a
command or what it leaves behind is never assumed to end. `Latch` assumes weak
fairness of each thread inside `set` and each task inside `wait`; nobody has to
call either.

## 4. What is violated

`dataset_siblings` (`dataset.rs:146`, with `router.rs:20`). All envelopes that
one `route` or `flush` emits are stamped with one coverage. When a flush emits
two groups, their edited forms cover the same rows although they contain
different ones; the second to be saved supersedes the first, and one group of a
clean pass is in no live shard. The module doc of `dataset.rs` promises that
what is dropped was re-derived from the same rows. With one group per emission
(`dataset_pipeline`) the promise holds.

Seven counterexamples are kept as configurations of their own, beside the runs
above; each is the named property, violated by the named model:

1. *Timeout in emit* (`SchedulerTimeout.cfg`, `InFlightCountsExisting`,
   `scheduler.rs:791`). Dropping `process` while it is suspended in `Queue::send`
   drops the envelope but not its count; a run without a shutdown then never
   ends. The doc of `InFlight` says that it counts tasks that exist.
2. *Deaf dispatcher* (`SchedulerHung.cfg`, `ShutdownEndsRun`, `scheduler.rs:389`).
   The global permit is awaited inside a `select!` branch; a shutdown is not seen
   while workers that hang hold every permit.
3. *A consumed item run again* (`CheckpointAgain.cfg`, `NeverRunsAgain`,
   `checkpoint.rs:420`): the status and the claim are read under two locks, one
   after the other.
4. *Covered but not recoverable* (`CheckpointTorn.cfg`, `CoveredIsRecoverable`,
   `checkpoint.rs:439`): a crash between `commit` and `put`.
5. *A seed pruned by a stranger's coverage* (`CheckpointOrdinals.cfg`,
   `CleanRunDone`, `scheduler.rs:561`).
6. *A claim nobody gives back* (`CheckpointTarget.cfg`, `NoOrphanClaim`,
   `scheduler.rs:737`). A panic of `process` keeps its claim as well, but then the
   run hangs, too.
7. *Two workers for one key* (`CheckpointRace.cfg`, `MutualRun`,
   `checkpoint.rs:454`): a second arrival of a key wins the claim between the first
   one's commit and its claim, whose outcome is ignored, so both run the worker.
   The comment at `checkpoint.rs:420` says that "a concurrent reseed/re-emit of
   the same key is skipped"; `TwoWorkRaced` says that this order is the only one in
   which it is not.

The models show more when a constant or an exception is taken away:

* `CoveredIsRecoverable` fails there with `KeyOnly = TRUE`: key-only items cover
  their rows when they are admitted, and `stored_items` does not return them.
* After an error behind the reservation (`checkpoint.rs:422`), the index says
  `Stored` for a row the store does not hold, and a later arrival is skipped.
* In `QueueDepth`, `depth` itself (not `Signed(depth)`) exceeds the capacity by
  far when the dispatcher notes an envelope before its sender does
  (`scheduler.rs:64`), which `tests/backpressure.rs:85` does not allow for. The
  last sample of a run is no exception when a feeder or a retry has sent and not
  yet noted: a monitor may end with a depth, and a queued count, near `2^64`.
* `LivePresent` does not hold of `whole` files: a shard torn by a crash is
  trusted by its name when equal contents are put again (`dataset.rs:97`).
* `RowsKept` exempts `Torn` rows: a batch whose row was committed by a process
  that died before the put is skipped by every later run.
* `PartsKeep` without `lost`: a write or finish that fails, or whose future is
  dropped, takes the writer with it, and the next write re-creates the part over
  rows that were acknowledged (`records.rs:89`, `:169`).
* `ContainersGo` of all containers, not only the owned: one whose `spawn` failed or
  was dropped between its creation and line 108, even while or after the daemon
  started it, is left, running or not (`container.rs:103`). Without its other two
  cases: so is one whose removal the daemon refused (twice, if `teardown` tried
  first), and one whose removal was still to be sent when the runtime ended (`:291`).
* `EmitsOneAnswer` is of one attempt: what an attempt emitted before an emission
  failed is emitted again by its retry (`agent.rs:330`).

## 5. What is proved

Every invariant and action property of a passing run is a theorem. The
assumptions named `...Assumption` next to the constants are made everywhere; TLC
evaluates them in every run of their modules. Four theorems about checkpoints and
datasets need more, and name it in their statement (section 5.3). Each inductive
invariant was checked by TLC, on the run that checks its property, before it was
proved.

### 5.1 The run (`SchedulerProofs`, `QueueDepthProofs`)

* `Types`: `Spec => []TypeOK`, for every set of envelopes, pools, capacity and
  number of attempts. `inFlight \in Nat` is the hard part: a decrement below zero
  would wrap in the code.
* `LedgerExact`: `InFlightLedger`, the count is the number of tasks created and
  not given up. It is not inductive: a parked worker's timeout loses *its
  child*, so one has to know that the child of a parked worker is being sent, by
  that worker alone (`ParkedChild`); a receive moves the task at the head of the
  channel, so the channel must hold queued tasks, each once (`QueueOwnsQueued`);
  and a task that owes its decrement has ended (`OwesEnded`). `CountInv ==
  TypeOK /\ Shape /\ InFlightLedger`, with `Shape` the conjunction of the three,
  is inductive, and the base of all that follows.
* `QueueIsExact`: `QueueExact`. `CountInv` has that the channel holds queued
  tasks, each once; `QueueInv` adds the converse and the capacity.
* `PermitsExact` and `WaitersReleased`: `PermitLedger` and `WaitersHoldNothing`,
  together (`PermitInv`). The ledger needs the other: the dispatcher hands the
  permit it took to the task it received, which must not hold one already.
* `ReturnsQuiescent`, `ExtentsClean`, `UnfinishedOnlyInterrupted`: what holds when
  a run returns, by `ReturnInv == CountInv /\ Latches /\ NothingLeft`. The
  dispatcher looks at the count, not at the tasks; that a count of zero leaves no
  task anywhere is `LedgerExact`. `Latches` says in which order shutdown,
  interruption and cancellation are set, and that only the last leaves work
  unfinished.
* `ImplementsContract`: `Spec => KeepsContract`, the refinement of `RunContract`.
  Every step of one task or of the dispatcher is a step of the contract or a
  stutter; that the contract's run returns over settled tasks is `NothingLeft`.
* `NobodySleepsOn` and `LatchIsOneShot`: `NoLostWakeup` and `KeepsLatch`, by
  `LatchInv`: who set the flag owes a notification until it is given (`Owed`), and
  who sleeps in the list looked at the flag before it was given (`Listing`). The
  second look is what `Listing` rests on: a waiter may enter the list after the
  notification, and then finds the flag set.
* `DepthExact`, `QueuedExact`: `DepthLedger` and `QueuedLedger`, by `DepthInv ==
  TypeOK /\ DepthLedger` and `GroupInv == DepthInv /\ QueuedLedger`. Two
  arithmetic lemmas say that a word read as a signed number follows `fetch_add`
  and `fetch_sub` while the result is representable; each ledger itself bounds
  the result.
* `LastSampleShort`: `FinalSampleShort`, by `OverInv`. After the last sample the
  channel is empty, nothing is received and only detached senders still owe a note
  (`RunOver`), so both ledgers bound what a counter reads, whenever the sample
  reads it.

### 5.2 Agents, streams, selection

* `AgentProofs!AllAnswered` and `OneAnswerEmitted`: `AnswersComplete` and
  `EmitsOneAnswer`, for every set of answers, number of steps and attempts.
  `AgentInv` says of the conversation that nothing is open before the model is
  asked (`Closed`), and that while tools run its last answer alone is, answered
  up to what is still to be carried out (`Open`); and of the tasks that they split
  into those of earlier attempts and a first part of what the last answer asked
  for, whose rest is owed (`Emission`). `StepIsMove` reduces the actions to the
  moves of the loop; nothing of the sandbox is used. The increasing enumeration
  `Positions` is shown to exist (`Enumerable`) by a least counterexample.
* `PyStreamProofs!ExitsClean`: `CleanExit`, by `StreamInv`: who holds a lock is
  where its holder must be (`Locks`); the queue holds what is queued (`Queued`); a
  piece is in one place (`Parted`); after the end of the run only threads it did
  not wait for still move (`Phases`); and every permit is free, with a piece's
  task or with a group's (`Ledger`). `StreamTypes`: `TypeOK`.
* `PyStreamProofs!DeliversOnce`: `StreamExact`, by `FlowInv`, which adds what
  became of every piece and group while no shutdown is asked: how a run can end
  (`Ends`), that a piece is placed unless it failed (`Pieces`), and that a group is
  in the channel, in the window or handed to the loop exactly if it was sent, and
  in one of them only (`Delivered`).
* `RetrySelectProofs!RetriesLand`, `GivenUpWhenDue`: `RetryLands` and
  `FailsWhenDue`, for all workers, policies, hints and loads. Neither speaks of the
  envelope, which is what the code has; the invariant `SelectInv` says that the
  envelope of an open task, with its mask and its reset, *serves* exactly whom
  the last logged error wants (`Envelope`), and that the least loaded of a
  nonempty set exists, so that a retry is given up only when nobody is wanted.

### 5.3 Checkpoints and datasets

* `CheckpointProofs!Types`: `TypeOK`. That a shard has a row needs `PutHasRow`:
  whoever is about to put the payload has committed its row, and no step removes
  one. `TypeInv == TypeOK /\ PutHasRow` is inductive.
* `Monotone`: `Spec => StoreMonotone`, over any number of arrivals, runs and
  crashes. `INSERT OR REPLACE` alone would write over a consumed row; that it
  never meets one follows from the reservation. `ReserveInv` adds to `TypeInv`
  that whoever is about to commit a key reserved it when the store had no row of
  it, and alone (`CommitsOwn`), and that during a run the index knows every row
  (`IndexKnows`).
* `ClaimsKnown`: `ClaimsAccounted`, which is inductive with `TypeOK` (`ClaimInv`).
  Each way out of a worker either gives the claim back, or makes its item done, or
  leaves an envelope that `Claims` names.
* `OneWorkerButRaces`: `TwoWorkRaced`, for any arrivals of any keys. `HolderInv`
  says of every key that is not in `raced` that at most one envelope is between its
  claim and its end, and that the key is then claimed (`OneHolder`).
* `CoveredKept`: `CoveredIsRecoverable`. `DoneInv` says that only a key's own item
  covers its rows, and that what is consumed is done.
* `CleanRunsComplete`: `CleanRunDone`. `RunInv` says, at every moment of a run that
  is clean so far, of every item that it is done or on its way, and of every
  claim that it is worked for.
* `DatasetProofs!PipelineTypes`, `CoverageSurvives`, `LiveFilesExist`: `TypeOK`,
  `NewestLive`, `LivePresent` of the whole pipeline, for every set of rows,
  grouping, batch size, sharding, content hash and number of faults. `DatasetInv`
  is inductive for every step of the dataset, whoever calls it: to the two
  properties it adds that a row with a shard exists (`RowsExist`), that the file
  of the put in progress is there from `fill` on (`FileHeld`), and that no live row
  needs a hash about to be removed (`DeadUnused`). `StepOfDataset` shows that each
  action of the pipeline is one of those steps or leaves the dataset alone.
  `NewestLive` rests on the order of `seq`: a shard may be dropped only by
  strictly newer ones, so the newest one that covers a row never is, and `Point`
  makes its row strictly newest.
* `NoRowLost`: `RowsKept`. `KeptInv` adds that what a shard covers is covered by a
  live one not older (`LiveCovers`), that coverage is contents (`Exact`), and that
  every kept row has a home: unread, held by a router shard, in a batch under
  way, or in a batch with a row (`Housed`).
* `FinalShardsOnly`: `FinalOnly`. `FreshInv` follows the pipeline while nothing has
  failed: batches are disjoint (`Parted`); each is edited once, and an unedited one
  is live only while its task goes on (`Lines`); every file is of a live row, of one
  about to be dropped or of the put in progress (`Tidy`); and a run that follows
  finds nothing to do (`Calm`).

What they assume beyond the constants' assumptions, and why it cannot be left out:

| Theorem | Assumes | Without it |
|---|---|---|
| `CoveredKept`, `CleanRunsComplete` | `OwnRows`: different keys cover different rows | `CheckpointOrdinals.cfg` |
| | `InStore`: payloads are in the store, not in a dataset | `CheckpointTorn.cfg` |
| `NoRowLost`, `FinalShardsOnly` | `SameGroup`: an emission has one group | the run `dataset_siblings` |
| `FinalShardsOnly` | `Filtered = {}`: no row is dropped by the filter | a dropped row behind the last batch is stamped on none, so that the source is read again and its rows are batched anew |

The runs that check these properties satisfy the assumptions.

### 5.4 Sources and sinks (`RecordsProofs`)

For every file (any batches, empty ones included), chunk size, rotation, number of
attempts and of faults:

* `ExactChunks` and `RemovesFind`: `ChunksExact` and `RemoveFinds`. The code keeps
  a counter beside the buffer, so the invariant says what both mean at every
  moment of the two loops: the batches of the buffer are one gapless line of rows,
  from the row after those taken so far (`Here`) to the last one pulled
  (`BufferInv`), and the counter is the distance between the start of the chunk and
  that row (`CountInv`). While a chunk is cut, the rows taken and those in the
  buffer thus add up to the counter, and what is wanted is at most that: there is a
  batch to take. `Yielded` has each smaller key already emitted, in this attempt or
  an earlier one, and `ChunkInv` that whoever emitted it, it holds the rows its key
  names.
* `KeptParts`: `PartsKeep`. What is readable at the end is decided by who may still
  write where. One call at a time has the sink (`LockInv`); while somebody has the
  writer of the current part, no job that was left behind has its file open, since
  each of them belongs to an earlier file of that name (`LateInv`, `Fresh`); the
  rows in such a part are what the sink has counted, unless a call lost it
  (`CurrentInv`); an acknowledged chunk is in the file of its part once, which is
  closed when the sink moves on (`DoneInv`); and what holds when a part is closed
  stays true of it (`PartInv`). `CurrentInv` counts the rows of the file and not the
  chunks in it: that a part is neither rolled over early nor late is arithmetic on
  that sum.

### 5.5 Only model-checked

* Liveness (`Termination`, `ShutdownReturns`, `DepthSettles`, `ResumeCompletes`,
  `ResumeSettles`, `IterationEnds`, `Settles`, `ContainersGo`, `WaitsEnd`): it
  needs ENABLED, which the prover does not handle.
* The counterexamples of section 4.

## 6. What is not modelled

* `finalize` of routers, which merges shards into one when a run ends, and
  `DedupSet`, one insertion under one lock.
* `Backoff::delay`: floating-point arithmetic, which TLC does not have. That a
  panic in it unwinds the task is in `Scheduler`.
* `on_start` failures, several sources, and seeds that change between runs.
* The HTTP cache, object stores, blobs and Postgres: one request or query each,
  of external services.
* The files of a sandbox, the truncation of output and the isolation; what the
  operating system, the daemon and the model do is nondeterministic.
* In the Python bindings the conversion of values, the registration of workers
  and the command line; a constructor that raises, `first_seen`, and the replay
  of snapshots, whose directory an earlier process wrote.
* The command line, derive macros, the facade crate and packaging keep no state
  that changes during a run.

## 7. Plan

1. `finalize` in `Router` and a pipeline with several shards per type.
2. Several sources and changing seeds in `Checkpoint`.
3. A refinement of `RunContract` by the engine that `PyStream` reduces.

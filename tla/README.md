# A formal model of souplite

souplite fine-tunes language models on small machines. Two things make it hard to
get right, and neither shows in a crash.

It trains models larger than the GPU by *layer streaming*: the base weights stay off
the device and are copied, one layer at a time, into a few device buffers. With the
asynchronous disk tier they are not even in host memory: a background thread reads
layers ahead of the walk into a handful of reusable pinned buffers. A buffer recycled
one step too early puts another layer's weights under a kernel, and training goes on
with wrong gradients; a notification lost leaves a run that never ends. The comments
of the code record that both have happened.

And it is a set of *long-lived processes* that share files: a loop daemon and the
commands that steer it, an MCP server and the trainings it starts, a web UI and the
subprocess it shows, a controller that rents a machine and has to give it back, recipe
runs and RL trainings that die and are resumed in the directory they left.

This directory models both, checks them with TLC and proves the central safety
properties with TLAPS. All paths below are relative to `src/src/souplite/`.

## Inventory

### The parts that are modelled

**Asynchronous disk source** (`utils/async_disk_source.py`, class
`AsyncDiskSource`). State under one lock and one condition variable: the queue
of layers to stage, the table from resident layers to slots, one live flag and
one drain event per slot, an anchor and a direction per layer shape ("spec
group"), the layer in flight and since when, an error, a closed flag. Actors:
the reader thread (`_run`), the consumer (`get`, `release`), whoever calls
`close`, and the GPU, whose copies out of a slot go on after `release`.
Hard: the reader works outside the lock between two critical sections; copies
outlive the loan they were made from; the wait for work is untimed; a thread can
die before its first statement; `close` gives up on the reader after 10 s.
Correct means: no slot is rewritten under a reader of it, bytes are always the
layer that was asked for, every `get` returns or raises, the source stops.

**Range worker pool** (same file, class `_RangeReaders`). State: a job queue, N
threads with a start counter each, a closed flag, one outcome per job. `run`
hands out one layer's byte ranges and waits; `close` queues one sentinel per
thread. Hard: jobs behind sentinels, workers that die in bootstrap, reads that
fail or never return, `close` in the middle of `run`. Correct means: a layer is
whole or an error, nobody writes once `run` is over, `run` ends, workers leave,
and the error names its cause.

**Layer-stream runtime** (`utils/layer_stream_runtime.py`: `LayerBufferPool`,
`LargeLayerBufferPool`, `StreamPrefetcher`, the streamed layers,
`StreamRuntime`). State: owner and event of each device buffer, the
prefetcher's previous layer and direction, the two CUDA streams. It calls `get`
and `release` of the source; the trainer's forward and backward call it. Hard:
host, side stream and compute stream run at their own pace, ordered only by
`wait_stream` and `wait_event`; the backward walks the layers in the other
direction; the embedding and an untied output weight share one device slot,
which autograd may still have a view of. Correct means: every kernel reads the
layer it was enqueued for, the schedule always loads what is waited for, and
every pass ends.

**Loop daemon** (`utils/loop_daemon.py`, `loop_state.py`, `loop_budget.py`,
`loop_stages.py`, `commands/loop.py`). State: one YAML control file with status,
canary and counters, replaced atomically by the daemon after each iteration and by
`pause`, `resume`, `canary` and `init --force` from other processes. Hard: every
writer writes back a copy it read earlier, without a lock, the daemon one it read
before an iteration of hours; a kill leaves `running` behind; midnight and the end of
a month fall into iterations. Correct means: counters claim nothing that did not
happen, caps hold, only an operator pauses, a signal ends the daemon.

**Recipe runner** (`utils/recipe_dag.py`, `recipe_run.py`). State: a checkpoint
with the completed nodes, one sidecar of rows per node, a published file per sampler.
Hard: a run dies between any two of these writes; a sidecar is saved best-effort; a
directory holds what earlier runs left. Correct means: a resumed run goes on as if it
had never stopped. (`resume=True` is reachable only through the Python API.)

**RL checkpoint ladder** (`utils/rl_checkpoint.py`, `pid_lagrangian` mode of
`reward_hack_control.py`). State: checkpoint directories, each with an adapter
and an optimizer that are saved and loaded each for itself, and the callback's list of
them; per rank a HACK streak, the last good step and the attempts used. Hard: pruning
runs against a remembered rollback target, directories outlive a training and are
written over, every rank has a ladder but one writes. Correct means: a rollback goes
behind the hacking, finds its checkpoint and loads what its own training wrote there,
and rollbacks end.

**KL controller** (`kl_control` mode of `reward_hack_control.py`). State: the
coefficient, tripped flag, dwell and patience counters, the trainer's own `beta`.
Hard: counters that must be reset on every path. Correct means: no flapping, no dead
end, and the coefficient follows a steady signal to ceiling or rest.

**Web UI** (`ui/app.py`): a training subprocess, the thread that drains
its pipe into a bounded log buffer, SSE readers that resume by `Last-Event-ID`, and a
stream of metrics polled from the tracker. Hard: training, thread and readers
each go at their own pace, a buffer that drops its oldest line, a new training replacing the
buffer under a reader. Correct means: every line that fits is sent once, in order, and
nobody blocks for ever.

**MCP execution and tracker** (`mcp_server/execution.py`, `experiment/tracker.py`).
State: per server a slot and confirmation tokens in memory; rows of runs in SQLite
with a status and a pid. Actors: servers, watcher threads, the children, commands
that reconcile or expunge rows. Hard: a crash between recording, spawning and marking;
four writers of one status; two servers. Correct means: one execution at a time, one
per token, outcomes that stand, a slot that is freed whatever raises once `execute` is
in its `try`.

**Registry lineage** (`registry/store.py`). State: entries and edges in SQLite. Hard:
the cycle check is a query per level and the insert another transaction. Correct
means: no cycle, no edge of a deleted entry, and the check ends.

**Graceful save** (`utils/graceful_save.py`). State: a signal count and flags under a
non-reentrant lock which the handler also takes, on top of the thread it interrupted.
Correct means: the first SIGINT saves, the second stops. (No trainer of the
repository installs it yet.)

**Lambda submission** (`cloud/lambda_labs.py`). A parent waits for a controller that
launches a paid instance, trains, copies back and terminates it; Ctrl+C reaches both.
Correct means: no instance is left behind, and the status returned is what happened.

What these share is little: `LayerStream` drives `AsyncDiskSource`, whose reads are
runs of `_RangeReaders`; `watch` and the MCP children start trainings as subprocesses;
the metrics stream reads rows the tracker writes. The rest meets only through the
operator.

### The parts that are not modelled

| Part | Why |
|---|---|
| sharding, sizing (`utils/layer_shard.py`, `layer_stream.py`, `trainer/stream_setup.py`) | no state at run time: arithmetic that fixes the constants of the source |
| safetensors reader (`utils/safetensors_reader.py`) | byte I/O; `plan_ranges` is the constant `NParts`, a short read is `WorkerFails` |
| trainers, recovery callbacks | wrappers of transformers/TRL loops driven by one thread; the passes they make are `BeginForward` and `BeginBackward` |
| configuration, recipes catalogue, data pipeline | declarative validation, data, batch transformations of files |
| evaluation gates, environment and supply-chain locks | pure functions of measured scores or recorded digests |
| best-of-N, local RL scheduler, autodistill publishing | sequential, with a resume file or an atomic directory swap; candidates for later modules |
| cans, other clouds, hub push, serving, CLI | packaging, remote I/O, request handling by external engines |

Within the modelled parts, the following is left out: quantised layers, gradient
checkpoint plumbing, `RamSource` and `DiskSource` in the runtime; packing an iteration
as a can, and replay, in the loop; metrics and evaluation tables and `delete_run` in
the tracker, re-validation of a plan's input files in the MCP server; tickets, chat
and the event stream `/api/train/stream` in the UI (events are pushed in the training
process and so never reach the server's buffer); the PID law and reward shaping beside
the KL controller; tags, artifacts, name resolution and depth-capped listings of the
registry; rendering, ssh and payloads of the Lambda controller.

## Modules

| Module | Models | Corresponds to |
|---|---|---|
| `LayerLoan` | what a source promises | a `get` ends with a loan of the layer asked for or a refusal; bytes lent and bytes in transit do not change |
| `AsyncDiskSource` | the source in detail | one action per stretch between two acquisitions of the lock |
| `LayerRead` | what a layer read promises | whole or refused, and nothing written before or after |
| `RangeReaders` | the worker pool in detail | one action per queue operation; `_check_workers` is two |
| `LayerStream` | the runtime on top of the source | EXTENDS `AsyncDiskSource` and drives its `Ask`, `EnqueueCopy`, `Release` |
| `LoopDaemon` | daemons and operators on one control file | one action per read, stage or write |
| `RecipeOrder` | the topological sort | one action per node taken from the queue |
| `RecipeRun` | running and resuming a recipe | one action per file written |
| `RollbackLadder` | checkpoints and rollbacks of several ranks | one action per callback of a step |
| `KlControl` | the bang-bang controller | one action per vote |
| `TrainLog`, `TrainMetrics` | the UI's two SSE streams | one action per line, batch, frame or poll |
| `McpExecution` | servers, watchers, children, rows | one action per transaction or process event |
| `Lineage` | `push`, `delete`, `add_lineage` | one action per query |
| `GracefulSave` | the SIGINT handler | one action per step of the innermost frame |
| `LambdaRun` | parent, controller, provider | one action per request or wait |
| `MCAsyncDiskSource`, `MCLayerStream`, `MCRangeReaders` | instances for TLC | the layer-to-shape functions of small models |
| `MCProcesses`, `MCRecords`, `MCLimits` | the process components; the record components; caps and walks; each side by side | see below |
| `MCLoopDaemon`, `MCKlControl`, `MCLambdaRun`, `MCTrainMetrics` | single components for TLC | the counterexamples |
| `SourceProofs`, `PoolProofs`, `LoopProofs`, `McpProofs`, `RecipeProofs` | theorems about `AsyncDiskSource`, `RangeReaders`, `LoopDaemon`, `McpExecution`, and `RecipeRun` with `RecipeOrder` | |
| `StreamProofs` | theorems about `LayerStream` | extends `SourceProofs` |
| `ProcessProofs` | theorems about `LambdaRun`, `KlControl`, `GracefulSave`, `TrainMetrics`, `TrainLog`, and about `MCProcesses` | a part for each; extends `LoopProofs` and `McpProofs` |
| `RecordProofs` | theorems about `RollbackLadder`, `Lineage`, and about `MCRecords` | a part for each; extends `LoopProofs`, `McpProofs` and `RecipeProofs` |

`MCProcesses`, `MCRecords` and `MCLimits` check several components in one TLC run. A variable
`subject`, chosen initially and never changed, names the component that acts; the
others stay in one initial state. As no two components share a variable, every
behaviour is a behaviour of one component, and the states are the sum, not the
product, of theirs. A property of a component that does not act holds of its initial
state. `ProcessesTyped` and `RecordsTyped` are the conjunctions of the components'
type invariants. `Spec` of `MCProcesses` has each component's own fairness while that
component acts, that of `MCLimits` the lineage's.

### AsyncDiskSource

Variables carry the names of the attributes. Four are not attributes: `region`
says which layer's bytes a slot holds (`Torn` while they are being written),
`stream` is the FIFO of copies on the side stream, `loan` is what the consumer
obtained and has not given back, `overdue` says that the 300 s of
`_MAX_READ_SECONDS` have passed. A drain event is the number of copies that must
still execute before it fires; it counts down as the device works. A slot is a
pair of group and position, because a layer fits only its own group's slots.

The reader's program counter follows `_run`: `asleep` is the untimed
`Condition.wait`, `draining` the wait for the event outside the lock, `reading`
and `loaded` the read and the moment before the second critical section. The
one-second wait of a reader with no slot to claim is the state in which
`ReaderClaim` is not enabled at `top`; `TargetsHaveASlot` says that it never comes to
that. `get` is `Ask` (index, direction, a possible demand of the queue), then
`GetServe` or `GetMiss` in turn. `GetMiss` models a whole turn of the loop, the
progress check included. `PlanQueue`, `Targets` and `RoomyStep` compute
`_plan_queue`'s loop as the longest run of steps whose groups have room, rather than
as a loop, so that the module stays within the reach of the prover.

Abstractions. A layer has several tensors and the pools call `get` for each; the
model has one `get` per load, as the later ones find the layer resident and on
loan to the same consumer and change nothing. A `torch.cuda.Event` is one object
per buffer that later loads record again: a reader waiting for it may wait
longer than in the model, where an event keeps its first position, never
shorter. Sizes, offsets, direct I/O and identities of files are left out; a
failed check of any of them is `ReaderReadFails`.

### RangeReaders

`bytes` says which parts of the region are fresh. A worker is `born` until its
first statement; from there it may become `stillborn` (a tracer kills it in
bootstrap). A job taken is `reading`, and ends as read, failed or `wedged` for
good. `RunPolls` and `RunJudges` are the two halves of `_check_workers`: between
them a thread that was just started may die again, which the code foresees with a
comment and an extra condition, but `close` cannot begin because the pool's lock
is held. In `AsyncDiskSource` a whole run is `ReaderBeginRead` followed by
`ReaderEndRead` or `ReaderReadFails`; `LayerRead` is what justifies that.

### LayerStream

The host is one thread whose work is a walk over stops: the embedding, the decoder
layers, the output weight, up in a forward and down in a backward. At each stop it
waits for the buffer (`LayerWaits`, with the ownership check of `wait`), lets the
prefetcher advance (`Advances`) and enqueues a kernel (`LayerComputes`). A load is a
sequence of `LoadAsks`, the source's own steps, `LoadCopies` and `LoadReleases`;
`loads` holds those the current call has still to make. `sideTo` and `compute` are
the streams as FIFO queues: a copy carries the number of kernels it waits for
(`wait_stream`), a kernel the number of copies (`wait_event`). A preference loss
makes two forwards before its backward (`RefillBeforeBackward`); `refilled`, `grad`
and `graph` model autograd's version check on the vocabulary weight, and
`NeedsPrivateWeight` the clone the code takes to satisfy it.

The CUDA streams themselves (`SideExecutes`, `KernelExecutes`, `CopyExecutes`) are
external: FIFO queues honouring their events, which is all the code relies on.

### The long-lived processes and the records on disk

**LoopDaemon.** `file` is the control file; each daemon and operator keeps in its
record the copy it has read. `Reads` and `Writes` are the only ways to it. A turn
of `watch` is `Decides` (read, roll over, ask the budget), `Trains`, `Deploys`,
`Records` (write back) and `Files` (the manifest). `Raises`, `RecordFails`,
`DaemonDies` and `Signalled` may come between any of them. Stages appear by their
outcomes: no pairs, a failed train and an unreadable suite are a skipped gate.

**RecipeOrder, RecipeRun.** Kahn's algorithm over any graph without self-loops; a
run then visits `1 .. N`, which the order has made topological. A node's output is
any subset of its input, because a judge, a validator or a provider may drop any row;
a row stands for the seed row it came from. `Persists` and `MarksFinished` are the two
writes; `RunDies` may fall between them.

**RollbackLadder.** A step is `TrainsStep` (all ranks together: they exchange
gradients), then each rank's two callbacks in their order, saving and judging.
Verdicts are arbitrary. A directory carries, as history, the training whose adapter and
the one whose optimizer are in it. `Saves` writes the adapter; the optimizer may be left
as it is found (`include_optimizer_state` is off, `optimizer.pt` is a link, or its save
raised), and the step is recorded all the same. `SaveFails` raises before or after either
file. A rollback loads of what it finds both, one or neither (`Restored`), without
asking the manifest; a file that cannot be read is a load that fails.

**KlControl.** One action per vote. Coefficients are integers chosen so that the
divisions by the gain are exact.

**TrainLog, TrainMetrics.** Lines are their ids. The pipe holds `PipeLines` lines and
blocks the training beyond. A reader takes a batch, sends it frame by frame, and looks
once more before `done`. `Breaks` drops a connection and what is under way in it; the
reader may come back with its last id. Metrics rows are their steps.

**McpExecution.** The tracker's rows and pids are shared, a server's slot and plans are
not. `Claim` is the locked part of `execute`, with reconciliation; `Launches`,
`Spawns`, `Marks` the writes that follow; `Reaps` and `Settles` the watcher.
`LogPathFails` raises between the claim and the `try`, and leaves the server `stuck`; what
fails within the `try` is `SpawnFails`, which frees the slot. A train
child writes its own row in two statements (`ChildRegisters`, `ChildMarks`).
`Crashes` takes a server and its memory, not its children.

**Lineage.** `Walks` is one level of `_reaches_ancestor`: one query. `Inserts` has the
foreign key's refusal beside it (`InsertFails`). Edges carry one relation.

**GracefulSave.** The main thread is a stack of frames; only the innermost moves. A
signal puts a handler on top, which waits for ever when a frame below it has the lock.

**LambdaRun.** Each process takes a pending SIGINT as `KeyboardInterrupt` between two
of its steps. In the controller no `except Exception` stops it; in its `try` it leads
to `finally`, in `finally` out of it.

**History variables.** What the code guarantees only as long as something else has not
happened is stated with a history variable that records that something, so that the
excuse is as narrow as the code makes it: a write from a stale read (`overlapped`) or an
iteration that left no record (`lossy`) in the loop; a launch, or a row that vanished,
where no row could tell of a child (`blindSpot`, whose cases are listed at
`OneAtATime`); an insert on an overtaken check (`raced`); an id of another training's
line (`stranger`); a step not judged, or a half-written save (`mishap`); a step recorded
without its optimizer (`bare`); a sidecar that could not be saved (`unsaved`); a signal
while the lock was held (`caught`); where an interrupt fell and which requests failed
(`struck`, `refused`). One excuse needs no history, since the state itself tells: a
server that is `stuck` (`LeakedSlot`, in `SlotIsFreed`). Each of these excuses is a
behaviour of the code; they are listed under "Where documentation and code differ" or in
the hazards.

## What is checked

| Run | Instance | Shows |
|---|---|---|
| `source_pinned` | 3 decoder layers in 2 slots and a vocabulary weight, pinned; 2 starts, 2 copies in flight | under any sequence of calls, `close` at any time, failing, stalled and unborn readers: no slot overwritten in use, bytes intact, the table sound, no release lost, no reader forgotten, and refinement of `LayerLoan` |
| `source_live` | 3 layers, pageable, fairness | every `get` is answered; the reader stops after `close`; its wait for a release is never needed |
| `source_depth_one` | 2 decoder layers, embedding, untied head at depth 1 | a docstring that does not hold (below) |
| `stream_train` | 3 decoder layers in 2 buffers, embedding, untied head, depth 2, two forwards per backward, fairness | kernels, schedule, version check, loans and evictions; every pass ends |
| `ranges` | 3 workers, 2 parts, 2 starts, 2 reads, fairness | reads are whole or refused and quiet afterwards; errors name their cause; refinement of `LayerRead`; runs end, workers leave |
| `processes` | the process components, see their constants in `Processes.cfg`, fairness | pauses, signals, streams, slots and instances, in safety and in liveness |
| `records` | 2 daemons; 2 trainings of 6 steps; a 3-node recipe; all graphs of 4 nodes; 2 servers; 2 processes on 3 entries | counters, rollbacks, resumes, orders, executions, outcomes, lineage |
| `limits` | 1 daemon, 1 operator, 3 days, 2 months, 2 estimates; 2 processes on 3 entries, fairness | daily cap and monthly budget across midnight, pauses, stops and restarts; every `add_lineage` returns, on a table with a cycle too |
| `loop_pause` | 1 daemon, 1 operator | a pause that is overwritten (below) |
| `kl_range` | coefficients inside and outside the range 4 to 128 | a raise that ends below the floor (below) |
| `lambda_ctrlc` | 1 Ctrl+C | a cleanup that is skipped (below) |
| `metrics_eval` | 2 rows | a row that is never sent (below) |

Several properties are conjunctions of named parts; the parts are stated one by one,
with comments, beside them:

| Property | Parts |
|---|---|
| `TableIsSound` | `ResidentIsStaged`, `NoResurrection` |
| `ReaderIsAccountedFor` | `NoLostWakeup`, `BackstopNeverFires` |
| `SourceIsLive` | `GetAnswered`, `ReaderStops` |
| `PoolIsSound`, `PoolIsLive` | `RRTypeOK`, `QuietBetweenRuns`, `BlameIsRight`; `RunEnds`, `WorkersLeave` |
| `CountersAreTrue` | `CountersAreEarned`, `CountersAreExact` |
| `ResumeIsReal` | `FinishedBackToTheSeeds`, `SidecarIsReal`, `InputsAreReal`, `PublishedIsReal` |
| `SortsOrRefuses` | `OrderIsTopological`, `RefusedIfCyclic` |
| `RollbackIsSound` | `LedgerIsOnDisk`, `RollbackGoesBehindTheHacking`, `TargetOutlivesTheStreak`, `LadderIsBounded` |
| `ExecutionIsExclusive`, `OutcomesStand` | `OneAtATime`, `OneSpawnPerRun`; `OutcomeIsSettled`, `ReportsAreKept` |
| `LineageIsSound` | `WalkIsSound`, `AcyclicIfSerial` |
| `FollowsTheSignal` | `NoFlapping`, `LiveIsCommitted`, `TrippedIsRaised`, `RangeIsKept`, `EscalatesToTheCeiling`, `ComesToRest` |
| `SigintsAreHeeded` | `OneSigintDoesNotStop`, `TwoSigintsEnd` |
| `LinesArriveOnce`, `NobodyIsStuck` | `NothingSkipped`, `DoneMeansAll`, `NoLineTwice`; `PipeIsDrained`, `ReadersAreReleased` |
| `StepsArriveOnce` | `StepsArrive`, `NoRowTwice`, `StreamEnds` |
| `StatusIsTrue` | `SuccessIsWhole`, `ReportedIsOver` |

`KeepsItsPromise` and `ReadsWholeOrRefuses` are refinements, checked as properties
of the detailed specification under a mapping written in the detailed module.

### Bounds

In the streaming pipeline slots are interchangeable but for rotation, and two of
them already allow one on loan, one in flight and a third layer wanted, which is
where eviction and draining meet. Two copies in flight let an event have a
position other than the end of the stream. `source_pinned` has the constraint
`RestartOrTwoCopies`: either the reader has been restarted or two copies are in
flight, not both; a restarted reader differs from a first one only in the count of its
starts, and the theorems cover the combination. Three decoder layers in two device
buffers force reuse in both directions and give the walk an inner layer and two
turnarounds; two buffers is also the default of `stream_buffers`. Two starts per
thread separate the first death from the last. Two reads of the pool let a job of
one read meet the next. The number of passes is not bounded: the state returns to
itself. Bounds that are not in the code: `MaxStream` (copies in flight),
`MaxCompute` (kernels in flight), `MaxRuns` (reads of the pool).

In the rest, `MaxDay` and `MaxStarts` (days, and iterations begun on one of them) bound
the loop: three days in months of two have a midnight with and one without a new month,
a budget of 3 takes one estimate of 2 and not a second, and two starts are one over a cap
of 1. `limits` has the constraint `Unexcused`, which cuts off what follows a write
from a stale read or a lost iteration: neither excuse is ever taken back. A ladder of 6 steps, saving every 2 and
keeping 2, prunes within one training, and `MaxRuns` = 2 leaves it directories of an
earlier one; the run has the main rank alone, as the others hold no checkpoint and
never roll back. A recipe of a seed, a node and a sampler of both has a node with two
predecessors and one that is skipped on resume between two that are not; two rows
separate a lost row from a lost file. Graphs of 4 vertices contain every shape of cycle
and diamond. Two servers and two runs are what a double booking needs; the second of two
runs is the one that must wait. Three entries are the smallest cycle with an inner
edge and leave a third entry to walk into a cycle of two; two processes are the
smallest race. A buffer of 2 lines, a pipe of 2 and a
training of 3 (`Lines`) lose a line, fill the pipe and let a reader lag; two
`Trainings` replace the buffer under it. Five rows and `MaxPolls` = 3 let a stream
catch up, idle and end. `Presses` = 3 and `Signals` = 3 let one fall into each place and another
into its handling. The controller's gain of 2 between 4 and 128 has five raises; the
configured coefficients lie at both ends of the range, between them, and on either side of
it, because the schema relates floor and ceiling to one another and to nothing else. What
holds only of a controller that starts in the range says so (`StartsIn`).

`records` uses symmetry of daemons and of entries, which its properties do not tell
apart; it checks invariants and an action property, no liveness.

Deadlock checking is on for the source, where an idle consumer may always call
again. It is off where a run stops at the first error (`LayerStream`), where the
pool has been closed and emptied (`RangeReaders`), and where bounded runs, tokens,
trainings or signals are used up.

### Fairness

Threads are scheduled and the clock runs: weak fairness of the reader's,
the consumer's own and each worker's steps, and of `ReadGoesOverdue`, because the
`get` loop wakes every half second and looks at the clock. `source_live` assumes
nothing of the drive or the GPU: a read may hang and a copy may never finish, and
`get` still answers, which is what the progress check is for. Nobody is obliged to
call `get`, `release` or `close`. `ranges` lets a read hang and then promises
nothing of its run. `stream_train` also assumes that the drive answers and the device
works, because a pass that waits for a kernel cannot end otherwise; it does not
assume that a new pass begins.

In `processes`, and for `add_lineage` in `limits`, weak fairness of:

- a daemon's own steps (`DaemonStep`): it is scheduled, its waits have a timeout, and
  its train has one of 24 h; nobody has to start, stop, pause or signal it;
- a server's and a child's steps (`ServerStep`, `ChildStep`): threads run and children
  end; nobody has to call, restart or list;
- the thread that drains a training's pipe (`Worker`) and a generator whose client
  takes (`Serves`, `Polls`, `Checks`); readers need not connect, trainings need not print;
- the Lambda parent, controller and provider, each on its own: every request and wait
  of the code has a timeout, the copy is taken to end, the provider carries out what it
  has accepted; interrupts and refusals are free;
- the controller of the coefficient: a training takes its next step;
- a process in `add_lineage` (`AddStep`), while others go on inserting;
- the main thread of `GracefulSave`; and strong fairness of `TrainerSteps`, since the
  end of a step is enabled again and again between calls of the three methods, and a
  trainer that never comes to one of them is not training.

### Where documentation and code differ

Five divergences are runs that end in a counterexample:

- `source_depth_one`: `_plan_queue`'s docstring (`utils/async_disk_source.py:841`) says
  that at `read_ahead=1` the plan is empty. The budget charges only the group of the
  layer just served, so the get of a layer whose neighbour is of another shape plans
  that neighbour: serving the embedding arms the untied output weight and so on. The
  target has a slot of its own, so this is harmless (every safety property holds at
  depth 1 by the theorems, which cover all depths); the sentence is wrong, not the code.
- `loop_pause`: `pause` is documented to stop the daemon at the next iteration
  boundary (`docs/commands.md:171`). The daemon writes back what it read before the
  iteration (`utils/loop_daemon.py:281`), and the pause is gone.
- `kl_range`: `docs/training.md:438` and `utils/reward_hack_control.py:34` say that the
  controller's coefficient is clamped to `[beta_floor, beta_ceil]`. A raise takes only the
  minimum with the ceiling (`:529`, `:534`) and starts from the trainer's own coefficient,
  which the schema bounds by zero alone (`config/schema.py:1386`): one that is configured
  well below the floor is below it after the raise too. One above the ceiling is lowered
  by the step the log calls a raise.
- `lambda_ctrlc`: `docs/backends-and-ops.md:237` says that Ctrl+C leaves the controller's
  `finally` block to run. An interrupt that falls into that block ends it
  (`cloud/lambda_labs.py:265`), and the instance may run on.
- `metrics_eval`: `ui/app.py:812` promises metrics as they are logged. An evaluation's
  row has the step of the row before it, so it is never sent once that one was
  (`ui/app.py:840`).

Others came up while modelling. They are the excuses named above, or behaviour the
properties were stated around:

| Where | What |
|---|---|
| `utils/loop_state.py:46` | counters go back when a command or a second daemon writes what it read before an iteration was recorded (`overlapped`) |
| `commands/loop.py:75` | iterations that raise or die are not counted, so a restarted daemon may exceed the daily cap (`lossy`) |
| `commands/loop.py:72`, `utils/loop_daemon.py:225` | the monthly budget is charged and never reset |
| `mcp_server/execution.py:282` | two servers between their look at the rows and their first row both launch |
| `experiment/tracker.py:299`, `:324` | a row is expunged while a child of which no pid is known is alive |
| `mcp_server/execution.py:293` | when the log directory cannot be made, the slot taken two lines above is not given back, and that server refuses every later `execute()` until it is restarted (`LeakedSlot`) |
| `utils/rl_checkpoint.py:320`, `:326`, `:405` | in a directory that an earlier training left, a step whose optimizer was not written keeps the earlier `optimizer.pt`; the manifest says there is none, and a rollback loads it without asking (`bare`) |
| `utils/reward_hack_control.py:1080`, `utils/rl_checkpoint.py:440` | the rollback target may have been pruned |
| `utils/rl_checkpoint.py:434` | `keep_last` keeps the highest step numbers, an earlier training's included, and prunes this training's own |
| `utils/reward_hack_control.py:1154` | the last good step is the newest one saved when a calm verdict comes, and may itself have been judged HACK |
| `utils/rl_checkpoint.py:317` | only the main rank has saved anything, so the others never roll back |
| `utils/reward_hack_control.py:1097` | giving up stops the rank that gives up, not the others |
| `utils/reward_hack_control.py:1033` | a coefficient seeded outside the band stays outside until it is raised or relaxed |
| `registry/store.py:547` | two concurrent `add_lineage` close a cycle (`raced`) |
| `utils/recipe_run.py:760` | a node whose sidecar was not saved is finished, and a resume gives its successors nothing (`unsaved`) |
| `ui/app.py:770` | a `Last-Event-ID` of one training is applied to the buffer of another (`stranger`) |
| `ui/app.py:856`, `:864` | the metrics stream ends after idle polls while the training runs, and may end without the last rows |
| `utils/graceful_save.py:59` | a SIGINT while the main thread holds the lock hangs it (`caught`) |

## What is proved

For every value of the constants that the named assumptions allow. Every invariant and
every refinement of the passing runs is stated by a theorem; what TLC alone answers for
is liveness.

Each argument has the same form. The invariants of the runs are not inductive: they say
what must not happen and not why it cannot. So each proof module states an inductive
invariant first, as a conjunction of named parts, shows that the initial states have
it and every action keeps it, one lemma per action or per part, and then draws the
properties from it. The larger of these invariants (of the source, the walk and its
window, the MCP executions, the log lines) were model-checked before they were proved.

### The source

From `SourceAssumption` alone (sizes positive, every group inhabited, depth 1 to 8), for
any number of layers, shapes, slots, starts and copies:

| Theorem | States |
|---|---|
| `TypeCorrect` | `Spec => []TypeOK` |
| `NeverOverwrittenInUse` | no slot is being written while on loan or being copied |
| `BytesStayIntact` | loans and copies read the layer that was asked for |
| `ReleaseIsNeverLost` | what the consumer holds is resident and live, so `release`'s early return never loses one |
| `ResidencyIsSound` | resident layers are staged whole, one per slot, and none after `close` |
| `ReaderIsNeverForgotten` | no lost wakeup; the "exited without an error" backstop is dead code |
| `ReaderNeverWaitsForALoan` | whatever the reader has in its queue has a slot that is not on loan, or is staged |
| `SourceKeepsItsPromise` | `Spec => KeepsItsPromise`, the refinement of `LayerLoan` |

`BytesIntact` says that a copy in flight reads the right bytes but not why the reader
cannot reach its slot. `StagingInv` supplies the reason. A copy is *guarded*
(`CopiesAreGuarded`) as long as its slot is on loan, or its slot's drain event lies at or
behind it in the stream, or the reader has claimed the slot and is waiting for such an
event, or the slot is out of reach because the reader is spent. `ReaderHasItsSlot` says
what the reader owns between its two critical sections, `LoanIsWhole` that a loan's slot
is not the reader's, `CopiesArePinned` that pageable copies are never in flight. Each
action moves a copy from one guard to the next: enqueueing needs the loan, `release`
turns the loan into the event, a claim takes the event along, and the read starts only
when it has counted down to zero. `MissedLoanIsOver` covers the one `get` that ends a
loan and then misses. Most actions touch none of this and share the lemma `QuietStep`.

The refinement uses `SafetyInv` too: with `lent` mapped to the bytes of the slot on
loan, not to the label of the loan, a step that rewrote a lent slot would change the
abstract state without an abstract action.

That the reader never waits for the consumer, which may be waiting for it, is a matter
of counting slots (`RoomInv`): slots fit the shape of their layer, at most one loan is
out and none while a `get` waits, and each layer in the queue has the shape of the lent
slot only if it is staged or its shape has a second slot. The last is what `_plan_queue`'s
budget is for; `RoomForTwo` shows that it charges the slot on loan.

### The runtime

From `StreamAssumption` as well (the vocabulary layers lie outside the decoder's range),
for any number of decoder layers and device buffers, tied or untied weights, with or
without a second forward:

| Theorem | States |
|---|---|
| `RuntimeIsASourceClient` | `LSSpec => Spec`: every step of the composition is a step of the source or a stutter |
| `RuntimeCopiesIntactBytes` | so the copies of the real pools are intact |
| `PoolsNeverFindALoan` | so the pools never meet the pinned refusal |
| `StreamStaysTyped` | `LSSpec => []LSTypeOK` |
| `ScheduleStaysSound` | no wait finds another layer in its buffer, no backward a weight refilled since autograd saved it |
| `KernelsAlwaysReadTheirLayer` | a kernel whose turn it is finds its layer's bytes in its buffer |
| `ReadAheadSparesTheWindow` | `OneShape => (LSSpec => ReadAheadEvictsNothingWanted)` |

*The schedule.* `Coming` is the set of layers that will be in their buffers once the
loads of the current call are made. `WalkIsOnCourse` says, for each stop, phase and
direction of the walk, which layers those are: at the stop of a layer, that layer and
the one after it; at the end of a forward, the last two and the output weight, which is
why the backward that follows finds them. `LoadsInTurn` adds that no two pending loads
share a buffer, so that making one takes nothing from `Coming`.

*The device.* A wait of the host only enqueues; what a kernel reads is decided by the
queues. `BuffersSettle` says that the last copy under way into a buffer brings what
`owner` says, and that the buffer's event covers it. `KernelIsFed` gives the
reason for each kernel in the queue: its layer's bytes are there, or a copy that it
or a kernel before it waits for brings them; and every later copy into the buffer
waits for the kernel. `ViewIsKept` and `TiedStays` keep the vocabulary weight a view
of which autograd has, the second because a tied weight is never loaded over.

*Reading ahead.* The reader may evict only what the walk is done with, if it can.
`QueueIsWanted` says that a queued decoder layer lies in the window of layers ahead of
its walk (or the walk has not begun, or the waiting `get` demanded it). The window has
as many layers as there are slots of that shape (`FullWindow`), so one that is missing
from the slots leaves a slot to something outside it (`ClaimTakesOneDoneWith`). This
needs `OneShape`: the decoder layers have one shape and each vocabulary weight is alone
in its own, as `utils/async_disk_source.py:471` describes the models. Without it the
statement is false. With a first decoder layer of another shape than the rest, TLC finds
a read that evicts a layer still wanted; it is the fallback `_claim_slot` documents,
and costs a read, not correctness.

### The worker pool

`PoolAlwaysSound` (`[]PoolIsSound`) and `PoolReadsWholeOrRefuses` (the refinement of
`LayerRead`), for any workers, parts, starts and reads. The invariant is about owners:
each part of the read is in the queue, or held by exactly one worker, or decided, and
never two of these (`Owned`). So a read that ends with all parts decided has nobody left
who could write (`QuietBetweenRuns`), and one that gives up has no worker alive; the jobs
it leaves in the queue are nobody's, as it is the last read (`NoJobLeftBehind`,
`RaisedIsTheLast`). `BlameIsRight` needs to know that only `close` sends workers away.

### The long-lived processes

**The loop**, for any number of daemons and operators, any caps, budgets and estimates:

| Theorem | States |
|---|---|
| `LoopStaysTyped` | `[]LDTypeOK` |
| `CountersStayTrue` | `[]CountersAreTrue` |
| `OnlyOperatorsPause` | `[]PauseIsTheOperators` |
| `CapsAlwaysHold` | `[]CapsHold` |

A claim to an iteration is on its way in two places: in the copy a daemon is
about to record, which is one iteration ahead (`Pending`), and between the control file
and the manifest (`Filing`, a set whose cardinality `ManifestsAreEarned` adds).
`AllEarned` extends the property to every copy in anybody's memory, stale or not, which
is why it survives writes that overtake one another; `FreshIsExact` ties the copies that
are still fresh to the file, `FreshIsHeld` says who may hold one. Of pauses, fresh
copies have the file's status (`StatusIsFresh`), and a daemon coming or going flips
the status it found (`FlipsWhatItFound`). Of caps, the history of what was begun
and paid for is compared with somebody's account of it (`Books`): between iterations the
file's (`IdleBooks`), during one that of the daemon at work, which counts the iteration
only when it is over (`WorkBooks`). `InOrder` is the condition for all this: no write from
a stale read so far, no iteration lost, and nobody at work on a stale copy. Once it is
lost it never comes back, so nothing needs to be shown beyond it.

**MCP executions**, for any servers and runs: `McpIsExclusive` (`[]ExecutionIsExclusive`)
and `McpOutcomesStand` (`OutcomesStand`). A run belongs to one server, once, because its
plan was consumed with the claim (`SlotIsTheOnlyOne`); where its child is follows from
where the server is (`ChildFollows`), and it is spawned once (`SpawnedOnce`). Outside the
blind spots the row of every child at work says so, and there is one such run
(`RowsTell`): that is what the next `Claim`, of any server, sees. A final row is justified by
the child's report or exit (`RowIsJustified`), which is why only the mark of a parent that
has just spawned can overwrite it.

**Lambda submissions**, for any number of interrupts: `LambdaStatusIsTrue` and
`LambdaCleansUp`. There is an instance only between the controller's request and its
end (`InstanceFollows`), and `rc` is 0 only past the copy (`SuccessIsEarned`).

**The KL controller**, for any range, gain, dwell, patience and configured coefficient:
`KlHolds` (`LiveIsCommitted`, `TrippedIsRaised`, `RangeIsKept`) and `KlDoesNotFlap`. The
patience the counters show is patience the votes have had (`VotesAreEarned`).

**SIGINTs**, for any number of them: `GraceOneSigint` and `GraceStaysTyped`. A
handler acts on a count that the signals have reached (`ActsOnWhatItCounted`), whatever
handlers came above or below it. Counted signals and handlers that have still to count
theirs are together no more than the signals sent (`GraceBounds`).

**Metrics**: `MetricsOnce` and `MetricsStaysTyped`. Steps do not go down from row to row
(`RowsInOrder`, evaluations repeat one), and the last step sent is that of a row a
poll found (`LastStepIsPolled`).

**Log lines**, for any trainings, pages, pipe and buffer sizes: `LogLinesArriveOnce` (the
whole of `LinesArriveOnce`) and `LogStaysTyped`. The buffer holds the last lines that
were emitted, in a row (`BufferHoldsTheEnd`). A page asks for what follows the last line it
got (`OnCourse`); its batch begins there or later, and what lies between has been dropped
(`BatchFollows`). So what it is past it has got, or it was dropped (`KeptUp`). `done` is
read before the last look at the buffer and nothing is emitted after it, so that look
brings the rest (`LastLook`, `AllSent`).

**The lineage**, for any processes and entries: `LineageTyped` and `LineageStaysSound`
(`[]LineageIsSound`). "No cycle" is stated by sets: every non-empty
set of entries has a root, one without a parent in the set. So an insert can be judged
without following paths. The walk's invariant is that the parents of what has been
seen, but for the frontier, have been seen, and that the child is not among them; when
the frontier is empty, the visited set is closed under parents, has the new parent in it
and not the child. Take any set after the insert. If it meets the visited set, a root of
their intersection is a root of it, for the visited set is closed and the new edge does
not start in it; if it does not, the new edge does not lead into it, and its old root
remains. Deletion only removes edges. What has to be carried along is that a check nobody
has overtaken is still true of the present edges, which is what `unraced` records.

**The recipe run**, for any DAG, samplers and rows, and any number of runs:
`RecipeStaysTyped` and `ResumeStaysReal` (`[]ResumeIsReal`). The
property speaks of files and finished nodes; a run in progress works from memory.
`RecipeInv` adds what it knows: that its list of finished nodes is the checkpoint's and
it has been through all nodes before the one it is at (`RunIsOnCourse`), that what it has
in hand is already in the files it has written (`HandIsSaved`), and that the rows it holds
of finished nodes are those they produced (`MemoryIsReal`). `GivenIsReal` is
`InputsAreReal` with the weaker premise that no *finished* node is unsaved: a node that
failed to save and died before its checkpoint must not excuse the others.

**The order of the nodes**, for any graph: `OrderStaysTyped` and `KahnSorts`
(`[]SortsOrRefuses`). In `KahnInv` the degree of a node is the number of its sources
not yet taken; those taken and those queued are together the nodes that wait for nothing,
none twice; and no edge goes against the order so far. When the queue is empty and nodes
are left, each of them waits for another of them, which is a cycle. And if all were
taken there is none: the node of a cycle that came first would have its source after it.

**The rollback ladder**, for any ranks, periods, retention, patience and attempts, over
trainings in one directory: `LadderStaysTyped` and `RollbackStaysSound`
(`[]RollbackIsSound`). The target was saved at the last calm step or before
(`TargetIsCalm`), so a rollback goes behind the hacking. What a ledger entry's directory
holds is this training's (`LedgerIsOwn`): its adapter always, its optimizer unless the
step is in `bare`. This rests on a step being saved once in a training (`NotSavedYet`):
a save that fails half-way never touches a directory that the ledger names. The target,
which may have left the ledger, promises the same of what is still there of it. That it
is there is counting. The steps since then are at most the HACK verdicts in a row, and
these at most `Patience * attempts + streak` (`VerdictsAreCounted`). When retention
covers the climb (`AmplyKept`), fewer than `KeepLast` multiples of `SaveEvery` lie in
that stretch (`FewMultiples`), so pruning has not come to the target (`TargetIsKept`),
provided that the directory holds what the ledger says (`DiskIsTheLedger`: a first
training, no half-written save). The bound on the ladder is the same count.

**Side by side.** `ProcessesStayTyped` and `RecordsStayTyped` are the type invariants
of `MCProcesses` and `MCRecords`, from the components' own: a step of one leaves the
others as they are (`EachStepsAlone`).

### Only model-checked

Liveness, as fairness and `ENABLED` are out of the prover's reach: `SourceIsLive`,
`PoolIsLive`, `PassEnds`, `NobodyIsStuck`, `SlotIsFreed`, `InstancesEnd`, `SignalStops`,
`CallsReturn`, and of three mixed properties the live part: `EscalatesToTheCeiling` and
`ComesToRest` of `FollowsTheSignal`, `TwoSigintsEnd` of `SigintsAreHeeded`, `StreamEnds` of
`StepsArriveOnce`. Their safety parts are proved (`KlHolds`, `KlDoesNotFlap`,
`GraceOneSigint`, `MetricsOnce`). The counterexamples are TLC's as well.

## Plan

1. `AsyncDiskSource` over `RangeReaders`: the reader's read as an instance of
   `LayerRead`, so that the composition is checked and not only argued.
2. Proofs: that the composition of point 1 refines what `SourceProofs` assumes of a read;
   the rates behind the liveness properties as safety (how many polls, votes or levels of a
   walk a wait can take), which the prover can reach where it cannot reach `~>`.
3. Modules for autodistill publishing (the atomic directory swap and its recovery), the
   local RL scheduler and best-of-N's resume file.
4. The parts of modelled components listed as left out above.

# A TLA+ model of Flash-Aurora's serving stack

Flash-Aurora runs Microsoft Aurora forecasts as a service: a coordinator hands
jobs to long-lived GPU workers, and around them an engine, a registry that shares
one GPU between processes, a disk cache for initial conditions and background
writers keep the GPU busy. This directory models the parts whose correctness
depends on the order in which things happen, checks them with TLC and proves what
matters most with TLAPS. Paths below are relative to the repository root.

## 1. The system

| component | source | state | operations | talks to |
|---|---|---|---|---|
| coordinator | `flash_aurora/scheduler/coordinator.py` | job queue, running set, status, capacity and silence of each worker, request-to-worker and sticky-key maps, last announced status | enqueue, dispatch, handle a worker event, probe, declare unresponsive, shutdown | clients and workers over ZeroMQ pipes |
| worker | `flash_aurora/scheduler/worker.py` | `_running`, `_busy`, `_model_ready`, loaded preset, fatal error, job queue, event deque; a control and a compute thread | accept, run, fail, switch preset, report, stop | coordinator; engine by calls |
| client | `flash_aurora/scheduler/client.py` | two sockets | submit, wait for events, health, shutdown | coordinator |
| wire protocol | `flash_aurora/scheduler/protocol.py` | none | encode, decode, validate | all of the above |
| supervisor, process groups, localhost launcher | `scheduler/supervisor.py`, `processes.py`, `localhost.py`, `__main__.py`, `addresses.py` | child processes, socket files | spawn, wait for bind, stop, clean up | workers and coordinator as processes |
| engine | `engine/core/engine.py`, `rollout_session.py`, `prepare.py`, ... | model, device, loaded flag, caches | load, prepare, roll out, export, release, close | guard, cache, writers |
| GPU guard | `engine/runtime/gpu_guard.py`, `gpu_budget.py` | JSON registry of leases and waiters under a file lock, heartbeat threads | acquire, wait, resize, heartbeat, purge, release | other processes through the file |
| preflight and monitors | `engine/runtime/vram_preflight.py`, `resource_monitor.py`, `gpu_memory.py`, `graph_pool.py`, `rollout_prep.py` | counters | estimate, compare, sample | engine |
| initial-condition cache | `engine/ingress/ic_cache.py`, `build_ic.py` | one tensor file and one metadata file per key | lookup, store, validate | disk, shared by processes |
| ingress | `engine/ingress/adapters`, `engine/ingress/download` | files | download, decode, regrid | network, disk |
| egress | `engine/egress` | worker pool, pending futures, retained steps | submit a step, drain, close | disk |
| distributed rollout | `engine/distributed` | a plan of stages per device, streams and events | plan, run stage, hand over | several GPUs of one process |
| models and kernels | `models/` | tensors | numerics | engine |

What is hard in it:

* The coordinator is single threaded, but every one of its decisions rests on
  reports that are old when they arrive; workers fall silent and come back with
  answers to jobs that were already failed; loops over the queue are entered from
  several handlers and replace the queue they run over.
* A worker has two threads that share flags, one of them set by the other when it
  dies; the thread that accepts jobs is not the one that knows whether they will
  be run.
* The GPU registry and the cache are files several processes write; locks,
  heartbeats and renames stand in for transactions.
* Exports finish out of order, on threads that outlive the call that raised, and the
  file a thread removes may be one that another thread still writes.
* A rollout over several GPUs is a program of launches on streams that run side by
  side; what orders two of them is a wait that somebody has to have written.
* An engine keeps flags that stand for where its model is, and rollouts that are
  suspended generators: whatever is released or loaded in between, they go on.
* Three programs may bring the same processes down at once and know of each other
  only through the process table.

What makes each part correct: the coordinator never books a job twice, loses one
or books beyond capacity, and leaves no slot idle; a worker answers what it
accepted, in order, from the right weights, and does not lie about its health; the
guard never grants more memory than there is nor two exclusive leases; the cache
returns the initial condition that was asked for, of the inputs as they are; each exported step is
written once, whole, before the call that promises it returns; an engine's flags and
ticket say what is so; a process that was stopped is down, and its socket file gone;
a client that reads an answer has read all that came before it.

## 2. The modules

| module | models | kind |
|---|---|---|
| `Coordinator` | the coordinator, with its workers as far as it can observe them | specification and properties |
| `JobService` | what the scheduler promises its clients | abstract specification |
| `Queues` | what `[x for x in queue if x in those]` returns | one operator |
| `QueueLemmas` | facts about queues: what appending, removing and keeping does to ranges, order and distinctness | lemmas |
| `CoordinatorProofs` | theorems about `Coordinator`, the refinement of `JobService` among them | proofs |
| `Worker` | both threads of one worker | specification and properties |
| `WorkerProofs` | theorems about `Worker` | proofs |
| `Client` | the clients of one peer, worker or coordinator, and its event pipe | specification and properties |
| `Reclaim` | how scheduler processes are brought down: by their owner, by the next program, by the supervisor | specification and properties |
| `GpuGuard` | the registry of GPU leases and the processes that use it | specification and properties |
| `GpuGuardProofs` | theorems about `GpuGuard` | proofs |
| `Engine` | one engine: ticket, model instances, flags, graphs and rollouts | specification and properties |
| `EngineProofs` | theorems about `Engine` | proofs |
| `StepExport` | rollouts that write their steps to files, with and without the thread pool | specification and properties |
| `ExportProofs` | theorems about `StepExport` | proofs |
| `StagedRollout` | the streams of a rollout over one to three devices | specification and properties |
| `Backbone` | the geometry of the Swin3D backbone: shapes, windows, masks, layout kernels | operators, a state machine over layers, properties |
| `IcCache` | the disk cache for initial conditions and the processes that use it | specification and properties |
| `CacheProofs` | theorems about `IcCache` | proofs |
| `Node` | the parts of a node that share no state, side by side | composition and properties |
| `NodeProofs` | theorems about `Node`: about `StagedRollout`, `Backbone`, `Reclaim` and `Client`, and what the modules of proofs above show of the other parts | proofs |
| `MCCoordinator`, `MCWorker`, `MCGpuGuard`, `MCIcCache`, `MCNode` | instances of the above | model checking |
| `MCPool`, `MCWorkerSettings` | several settings of `Coordinator` and of `Worker` side by side | model checking |

`Coordinator` implements `JobService` (an `INSTANCE` with a refinement mapping). The
other modules stand beside each other: the worker's calls into the engine appear in
`Worker` as steps that succeed or fail, the guard's refusals among the failures;
`Client` has an abstract peer that stands for either of `Worker` and `Coordinator`;
`Engine` leaves exporting to `StepExport` and several devices to `StagedRollout`.

Operators whose comment begins with "Mutant" are deliberately wrong versions of
the operator that follows. No specification uses them; each was put in place of
the right one to make sure that the property it is named with notices.

### Coordinator

Each VARIABLE is a field of the source, named in its comment. A handler is one
action, except that the two loops over the queue (`_dispatch_ready`,
`_fail_queued_jobs_without_live_worker`) take one step per job: `phase` says which
loop the coordinator is inside, and while it is inside one no other handler runs,
only workers do. An answer from a worker that had been given up dispatches twice,
as in the code (`dispatchTwice`). `_publish_cluster_status` runs after the nested
dispatch in the code and in the event's own step here; dispatching changes nothing
it reads. Time is left out: a worker that was heard may be found silent at any
moment, whether dead or only held up. `capacity - len(running)` is not cut off at
zero, which makes no difference to a comparison with zero while
`CapacityRespected` holds.

Workers appear as `WorkerStarts`, `WorkerReports`, `WorkerComputes` and
`WorkerCrashes`: a queue `holds` of jobs sent and not finished and a queue `events`
of messages not yet read. A job is answered before health stops saying busy, and
between two presets health names none, as in the worker. A crash loses the job in
hand, any number of those behind it that had reached the process, and any number
of the last events. A worker that rejects a request at once, or fails its queue
after running out of GPU memory, is covered as a worker that fails its jobs in
order.

### Worker

`control` and `compute` are the program counters of the two threads; a step is a
stretch of one of them that the other, or a client, could tell apart from the next.
`resident` is the one ghost variable: the preset whose weights are on the GPU.
`sent \o pending` is everything a client will ever see in order, because one deque
feeds one pipe. The commands a worker receives are chosen by the environment.

### GpuGuard

The registry is a JSON file; each transaction under its file lock is one action, and
the file is replaced by a rename, so that a crash leaves the file before or after.
`lease` is the list of leases and `queue` the list of waiters. A process opens one
lease at most, which all its tickets share, so `lease` is a function from processes
to records; a lease is named by the job that opened it where the code draws a uuid.
Clocks are left out: a lease is fresh, or its process was held up (`Stall`) for
longer than `_STALE_SECONDS`, and anybody's next transaction drops it. The memory a
job uses stays in use between `Release` and `Unload`, since `release_gpu` gives the
ticket back before it moves the weights. `acquire(queue=False)`, which nothing in the
repository calls, is not modelled, nor are the estimates of `gpu_budget.py`, beyond
the threshold above which a job is exclusive. "Exclusive" is weaker than its name: two
exclusive leases exclude each other, while an exclusive job may share the GPU with
others that fit the budget, so the property is `AtMostOneExclusive` and no more (the
docstring at `gpu_budget.py:264` says "should not share the GPU").

### IcCache

One lookup-build-store of `from_source` per process at a time, each read, write and
rename of a file being a step. Three points matter and are kept. All processes write
through the same temporary names, so that a writer that has a file open writes into
whatever that file has been renamed to (`Moved`), a rename may find nothing and
raise, and a file may hold parts of two batches (`Torn`). Requests share entries
(`FileOf`): an entry is named by preset, day, time index and the directory of the first
input file, so that requests that name other files of theirs (`raw_paths`) take turns at
it, and `with_suffix` cuts the name at its last dot, which for a preset such as
`hres_0.1` makes all its days share one entry. And the inputs are hashed twice, for the
lookup and again for the store, with the build in between, while input files change at
any moment, and back (`Change`). A batch is what it was built from, a key and the
content of the input files, and a fingerprint says the same; `regrid_res`, levels and
version are part of the key. The inputs of a request are read and hashed in one step, and
all of them are hashed; the hazards list where an adapter reads others. A fingerprint is
small and is written in one step.

The cache does not promise by itself what its document does, `ReplaysExactBatch`: the
runs `dotted` and `restamped` violate it. `UnspoiltReplaysExactBatch` says what it keeps:
a batch from an entry that is not `spoilt` is the one asked for. `spoilt` is a history
variable that no step of the code reads. An entry gets into it when somebody writes it
whose batch is not of the inputs he hashed for the store, when processes with different
batches meet at it while one of them writes it (`Clash` has both), or when a process fails or dies between
its two renames and the fingerprint beside its tensors is another's (`Halved`); it gets
out when a process has written and renamed both files without any of these (`Mended`).
Without any one of the three TLC finds the property violated, so none is there for
convenience.

### StepExport

`rollout_and_export`, the pool of `io_backend.py` and the worker's loop over ensemble
members. `caller` is the thread that advances the rollout: it submits a write per
step, awaits the oldest when more than `MaxInflight` are pending, and closes the pool
at the end, where the first write that failed raises and those behind it are not
awaited. The threads go on after that: `write` has a state for each step of each
rollout, and what a thread does is `Take`, `Open` (which truncates), `Save`,
`DropStale`. A file holds the step of a rollout or is `Torn`; a file that two threads
have open may come out as either (`mixed`), and one that was removed while it was
written is gone (`cut`). A rollout that does not use the pool writes in the caller.
Names, formats and regions are abstracted to the step.

### StagedRollout

The host executes a list of instructions (`Program`): launch work on a stream, make a
stream wait for what another has been given so far, or wait for a stream itself.
`work` is what each stream was given and `ended` how far it got; streams advance in
any order their waits permit. A tensor is unwritten, right, or wrong when it was
computed from one that was not there yet. A copy between devices waits in both
directions, as `Tensor.to` does; one that stays on its device is no copy. Which plan
is chosen is an input; the release of memory is left to the allocator's order.

### Engine

`lease` is the ticket, by the rollout length it was given for; with the GPU guard off
(`config.guard`) an engine runs without one. The engine is one of one device: a
distributed one takes no ticket, and is not modelled. `model` is the instance in
use and `place` where each instance is, since a generator of an earlier rollout may
still hold one that the engine has dropped. `stream` are the generators: `new` ones
have run nothing. Every public call is an action, its failures (no memory, a forward
pass that raises) included; `graph` is the step at which an instance's CUDA graph was
captured, and `LayerFor` the LoRA layer a step is meant to apply. The two threads of
`prepare` are one step: they share nothing before they are joined.

### Backbone

Encoder layers halve an image of patches, with padding when it is odd; decoder layers
double it and crop it to what their encoder saw. `res`, `skips`, `context` and `saved`
follow the shapes through `forward`, one layer per action. Within a layer the
operators give for each place its window, and for each pair of places of a window
whether the mask lets them communicate, once as `swin3d.py` does it with padding,
rolling and partitioning, and once as the Triton layout kernels compute it with
indices. Numerics are left out.

### Reclaim

`proc` is the process table's view of the children: running, dying, a zombie until its
parent reaps it, gone. `ending` is `shutdown_scheduler_subprocesses`, `cleanup`
`cleanup_stale_scheduler_processes` of the next program, `scan` one scan of the
supervisor; each is a sequence of looks at the table and signals, and they interleave
freely. The owner may die, whereupon init adopts and reaps its children. Whether a
child leads a process group (`leads`) is open: `start_new_session` is what the
repository's own launcher passes, and an example does not. A pid is never used again,
signals are permitted, and `dry_run` is left out. Which socket files are removed
(`ListAgain`, `RemoveFiles`) is modelled, but no property is about it.

### Client

`link` is a client's sockets, `call` the call it is in, `inbox` what has been sent to
it and not been read. The peer's socket deals its events out among the clients that
are connected, whosever they are, and keeps them while nobody is. `Reads` is the common part of
`events`, `wait_for_ready` and `health`: all three take from one inbox, and drop what
they were not looking for. `told` and `got` are histories of what was said and what
was handed to the caller; `disturbed` marks the requests whose caller did something
else that reads while it was waiting.

## 3. Runs

Coordinator: two workers, first set up for preset A, and at most three jobs. Two
workers are needed for a job to be late at one while it could run at another; three
jobs for one to run, one to wait and one to overtake. Bounds: `MaxStarts` (how
often a worker is started), `MaxPauses` (how often a live worker is taken for
silent), `MaxEvents` (a worker reports only while fewer events are on their way;
job events are not limited). Jobs with equal preset and key are interchangeable
and declared symmetric in the runs without liveness.

| run | what varies | shows |
|---|---|---|
| `pool` | one of three settings (`MCPool`): `sticky`, 3 jobs share a key, worker 1 has two slots and may die, or 2 jobs and a pause of either worker; `pauses`, 2 jobs without a key and a pause; `restarts`, 2 jobs, worker 1 crashes and restarts, a client shuts down, workers list no presets | `TypeOK`, `CapacityRespected`, `OneOwner`, `NoJobForgotten`, `AnnouncedForAll`, `SecondAnswerOnlyAfterLoss`, `NoOvertaking`, `StickySessionsStay`, and the refinement `ImplementsJobService` |
| `live` | 2 jobs of different presets, one with a sticky key; fair; worker 1 may die, one pause, a shutdown with one job sent at most | `UnresponsiveHoldsNothing`, `QueuedAreServable`, `FillsIdleWorkers`, `EveryJobAnswered`, `RunningWorkersRejoin` |
| `sticky_stall` | 2 of 3 jobs share a key, their worker may die | violation of `FillsIdleWorkers`, see section 5 |

With three jobs no worker is taken for silent while it lives (`PoolNext`), to keep the
run short; a dead one that is found silent takes the same path through the code. The
theorems of section 4 have no such bound. The two liveness properties of `live` are
claimed while the coordinator serves, so the constraint `ShutsDownEarly`, which cuts
off a shutdown with both jobs sent, leaves every behaviour they speak of whole.

Worker: two presets, two or three jobs, one of them wanting the other preset, so that
a switch lies between two jobs. Bounds: `Steps` (steps of a forecast), `MaxQueued`
(what the event deque holds; a full one drops new events), `MaxProbes`.

| run | what varies | shows |
|---|---|---|
| `jobs` | one of three settings (`MCWorkerSettings`), fair: an invalid job, preload, failures, shutdown and a join that times out; two jobs and a probe; or a pipe that blocks, a deque of two, memory exhaustion and signals | `TypeOK`, `EventsInOrder`, `HealthIsTrue`, `RunsOnItsModel`, `StopCompletes`; in the first two also `AcceptedIsAnswered` and `ReceivedIsAnswered` (as `JobsAreAnswered`, `JobsReceivedAreAnswered`) |
| `fatal_accept` | memory exhaustion with three jobs | violation of `AcceptedIsAnswered`, see section 5 |

GPU guard: three processes and five jobs on a GPU of 9 units with 8 to be reserved.
Two processes have two jobs each: one lease may grow and become exclusive, an
exclusive one may grow beyond what the others leave of the budget. `MaxStalls` bounds
how often a process is held up.

| run | what varies | shows |
|---|---|---|
| `guard` | one process may be killed, one job times out, one stall; fair | `TypeOK`, `AtMostOneExclusive`, `WithinBudget`, `TicketsBacked`, `TicketsFit`, `EveryWaiterServed` |
| `abandoned` | one job times out | violation of `QueueHoldsWaiters`, see section 5 |

The other parts share no state with each other, so one run has them side by side
(`Node`, with the values of `MCNode`): the variable `part` says which of them a behaviour is about, and the
others stay as they began. `node` is the union of seven small state spaces, not their
product.

| part of `node` | bounds | shows |
|---|---|---|
| `export` | three rollouts, two of them members of one ensemble; two directories; two failures of writes or forwards; a pool of two threads with one more write pending | `CompletedIsOnDisk`, `AWholeStepSurvives` |
| `cache` | two processes, each killed at any moment, one entry that may be there from before, inputs that change once, to or from what the entry holds (`MaxChanges`); two contents of one request's files meet at an entry as two requests that share it do | `UnspoiltReplaysExactBatch` |
| `staged` | every shape of a plan: one device, encoder apart, three stages apart, decoder split; two steps, so that the second reads what the first made | `UnifiedExportsItsSteps`, `OnlyTheEastHalfRaces` |
| `engine` | four settings of LoRA mode and graph scope, one with the guard off; two generators of length 4, which a caller may leave at any step, `LoraSteps` = 3, so that they pass it or not; two instances of the model (`MaxLoads`) | `FlagsAreTrue`, `AppliesItsLayer` |
| `backbone` | 2 or 4 levels, heights 3, 5, 8, widths 3, 4, 6, 7, window 2 x 4 x 2, three encoder layers: images that fit, that need padding, that are smaller than a window, and odd or even before and after each halving | `LayersMeet`, `LayoutsAgree`, `MaskFollowsTheGlobe` |
| `reclaim` | two children, each with or without a process group | `StoppedAreDown` |
| `client` | two clients and two requests, of which three take part (`MaxParties`): one client with two requests, or two with one; one event before an answer (`MaxProgress`), one command or report that is about no request (`MaxExtra`), besides any number of calls of `wait_for_ready` and `close` | `ForecastIsComplete` |

| run | what varies | shows |
|---|---|---|
| `node` | the parts above | their types (`NodeTypeOK`) and the properties above |
| `spatial` | as `staged` | violation of `ExportsItsSteps` |
| `orphans` | as `reclaim` | violation of `KilledAreDown` |
| `dotted` (`MCIcCache`) | the cache, one process, two requests that share an entry | violation of `ReplaysExactBatch` |
| `restamped` (`MCIcCache`) | the cache, one process, one request, inputs that change once | violation of `ReplaysExactBatch` |

Section 5 has the violations. `AppliesItsLayer` leaves out what the backbone's graph
does from step `lora_steps` on, where LoRA ends in every mode: the graph is replayed
at any step, with the layer it was captured with (`cuda_graph.py:196`). It is checked
for `single` with and without that graph, which is what presets and defaults give, and
for `from_second` and `all` with the graph of the whole model, which minds the step;
with the backbone's graph those two modes would apply the wrong layer too. Nothing in these parts needs
fairness: their properties are invariants.

The bounds are the smallest at which each interleaving of interest happens: every
action of the modules fires in a passing run, and for each property a mutated
definition breaks it within these bounds.

`CHECK_DEADLOCK FALSE` stands only where the system really stops: after a
shutdown, when a worker process has ended, when all jobs of the guard are done, and
when the part of a node that a behaviour is about is through.

Fairness. The coordinator's `Fairness` asks that a loop over the queue goes on,
that an event is read once it is there and the coordinator is idle, that a dead
worker which was heard is found silent, that a running worker answers probes, and
that its compute thread goes on. The first three hold because `serve_forever`
never blocks for more than its poll timeout, reads every worker's socket and looks
at every worker's silence in each iteration; the others because probes are sent on
a fixed cadence, answered on a thread of their own, and a forecast ends. Jobs are
finitely many in a run, so weak fairness is enough. No fairness is asked of clients,
crashes, restarts or pauses. `EveryJobAnswered` assumes that each worker is heard
from once: the code exempts workers that never spoke from the silence limit
(`coordinator.py:81-83`), so a job sent to one waits as long as it takes. The
liveness runs start each worker once: one that crashes and restarts faster than the
silence limit is never found silent and its job is lost, which the hazards list.
`EveryJobAnswered` excepts jobs that share a sticky key with another job (`SharesKey`),
since two paths of the code leave such a job waiting beside idle workers: while its key
is bound to a live worker that does not accept its preset, `_choose_worker` returns None
(`coordinator.py:345-355`), for as long as that worker lives; and when the bound worker
falls silent the key is freed but nothing is dispatched (`coordinator.py:472-497`), until
some other event dispatches. With both jobs of `live` on one key and without the
exception TLC finds the second. In `live` one job has a key of its own, so that binding
and unbinding take part, in `UnresponsiveHoldsNothing` too.

The worker's fairness is one weak fairness per thread. The guard's is weak fairness of
`Poll` and `Unload` for each job: a waiting process polls every `_POLL_SECONDS`, and
memory is given back right after the ticket. Nobody is obliged to ask, to load, to die or
to give a ticket back: a worker keeps its ticket after a successful forecast
(`engine.py:246`, `worker.py:517-537`), with a heartbeat that keeps its lease fresh, so
that behind an idle warm worker a job may wait until its timeout. `EveryWaiterServed`
therefore has a premise, that no ticket is kept for good.

## 4. Proofs

`CoordinatorProofs` holds for any finite non-empty set of workers and any sets of
jobs, presets and keys, from the assumptions `WorkersAssumption`,
`RequestsAssumption` and `BoundsAssumption` alone.

* `TypeCorrect`: `TypeOK` is invariant. One lemma each for the coordinator's own
  steps, for events and silence, and for workers.
* `UnresponsiveHoldNothing`: a worker given up has no booked job and no sticky key.
  Inductive with `TypeOK`: dispatch never chooses such a worker, which for the sticky
  path needs the second conjunct.
* `WithinCapacity`: `CapacityRespected`, from `CapacityInv`, which adds that
  running sets are finite and that a report only ever raises the capacity. The
  second is an assumption about deployments (`ConfigCapacity[w] <= RealCapacity[w]`):
  were a worker configured with more slots than it reports, the report would leave
  it overbooked until jobs end.
* `OwnedOnce` and `NeverForgotten`: `OneOwner` and `NoJobForgotten`, from `JobsInv`.
  Neither is inductive alone. A late answer would take a job from another worker's
  running set or answer a queued one, unless each job that a worker still has, or
  has an event under way for, is booked on that worker or was answered already
  (`Traced`); and moving jobs between the two queues would lose or double one unless
  they are disjoint and hold no job twice, and unless the set-aside queue is empty
  between loops (`JobsTraced`). `HeadOfQueue` collects what follows for the job a
  loop looks at, `JobsUntouched` what a step needs not to matter.

What clients rely on stands on these, with more hypotheses only where they are named.

* `CoordinatorServes`: `ImplementsJobService`, the refinement. `JobService` has
  waiting, active and settled jobs and the workers that are down; the mapping reads
  them off the two queues, the running sets, the answers and `unresponsive`. Each step is shown to be a step of the service or
  a stutter: deferring a job and putting the deferred ones back leave the waiting jobs
  as they were; dispatch assigns one; an answer settles its job, or, late, changes
  nothing the service knows; silence answers all jobs of a worker at once. The mapping
  rests on `JobsInv`, `CapacityInv` and `UnresponsiveHoldsNothing`, and on `FailingInv`,
  that jobs are refused off the queue only while some worker is down.
* `AnswersInv`, behind `AnsweredOnceButForLoss`, gives each worker its debts: the jobs
  it has and the answers on their way. A job is owed at most once and by at most one
  worker, and until that answer is read the client has seen nothing final but, perhaps,
  that the worker was lost. That a job is never dispatched twice alone would not do: a
  worker that was given up may still answer.
* `ServableInv`, behind `QueueIsServable`, says of the deferred queue what the property
  says of the main one, and exempts the loop that is about to refuse jobs. It needs
  `FixedPresets`: a worker without a list of presets never loads, and never reports,
  another than its own, because it is sent no job of another.
* `OrderInv` and `StuckInv`, behind `NothingOvertakes`: both queues keep the order of
  submission, what was deferred came before what is still to be looked at, and what
  this loop deferred could not be placed and cannot be now, since the loop only fills
  slots.
* `AnnouncementsHold` (`AnnouncedInv`) and `SessionsStay`, the latter for any number of
  keys.
* `KeylessJobsWaitForSlots`: a job without a session waits only while every live worker
  for its preset has all the slots it was configured with in use (`FilledInv`).
  `IdleWorkersAreFilled` concludes `FillsIdleWorkers` from it where nobody has a
  session and workers report the slots they are configured with. Without the first
  hypothesis it is false (run `sticky_stall`), without the second too: a report that
  raises a capacity dispatches nothing.

`GpuGuardProofs` holds for any processes, any finite set of jobs of any sizes, any
budget and threshold, from `GuardAssumption` and `LeaseAssumption`.

* `TicketTypes`, `RegistryTypes`: leases, tickets and jobs keep their types, and the
  queue is one of processes that wait in it once (`TypeOK`). What a purge and a release
  keep of the queue is what the lemmas about `Only` in `QueueLemmas` say.
* `SingleExclusive`: `AtMostOneExclusive`. Inductive with the types: a purge only
  removes leases (`PurgedOneExclusive`), and a lease that becomes exclusive, new or
  grown, was checked against all others (`ReplacedOneExclusive`); a release leaves a
  lease as exclusive as it was.
* `TicketsAreBacked`: `TicketsBacked`, from `Backed`, which adds that the jobs with a
  ticket are those that hold or use the GPU, that their processes live, and that no
  lease is stale while nobody was held up. Without the second part a purge could take
  the lease of a live ticket; without the first a process could open a new lease
  beside tickets that no lease counts. `GrantBacked` and `ReleaseBacked` are the two
  steps that change a count, by one, together with the set of tickets (`TicketsCount`).
* `BudgetIsKept`: `WithinBudget`, from `FitsBudget`, which adds that only processes
  with jobs have leases, so that they are finitely many and have a sum. A purge takes
  summands away, and a lease is opened or grown only where it fits beside the others
  (`ReplacedFits`).
* `TicketsFitTogether`: `TicketsFit`. `TicketsCovered` says that each ticket's need is
  within its lease while nobody was held up; where each lease has one holder, no two
  tickets share one, so their sum is within that of the leases (`SumFitsBelow`).

The last two need facts about sums over finite sets, which no library theorem has.
The library's theorems on induction take a predicate as a parameter, so the proofs go
by a smallest counterexample instead (`SmallestSet`): the sets for which a fact fails
are a set, and one of them would have no smaller one in it. `TotalExists` shows in this
way that the recursive function behind `SumFunctionOnSet` exists, `SumWithout` that it
does not matter what is added first, `SumGrows`, `SumOfPart` and `SumFitsBelow` how
sums compare.

`WorkerProofs` holds for any requests, presets, number of steps and length of the
deque, from `WorkerAssumption`.

* `OwnWeights` and `TrueHealth`: `RunsOnItsModel` and `HealthIsTrue`, both from
  `EngineInv`, which says what `_model_ready` stands for: the weights of the loaded
  preset are on the GPU. A job that fails is exempt, since `release_gpu` moves the
  weights away before the flag falls; that health says busy until then is what makes
  `HealthIsTrue` hold all the same.
* `TypeCorrect`: `TypeOK`, from `TypeInv`, which adds that whoever works on a job has
  one. `FlushMoves` shows that a flush, however far it gets, moves events from the
  deque to the pipe and changes nothing of the two in a row, on which the next
  theorem rests.
* `OrderOfEvents`: `EventsInOrder`. It is not inductive: an event is in order only if
  its job has not come further before. `OrderInv` bounds how far the events of each
  job that may still emit one have come (not received 0, accepted or queued 1, taken
  1, prepared 2, rolling out 4), and `QueueInv` adds that a job has one such place at
  a time, without which the event of one thread could overtake a bound of the other.
  `EmitForJob` is the step that all of them share.
* `AcceptedAreAnswered`: `AcceptedIsAnswered`, for behaviours in which nothing is lost
  in one of three ways (`NothingLost`): no event finds the deque full, memory does not
  run out, no signal comes between the acknowledgement of a job and its queueing. Each
  of the three does lose jobs; they are in section 5. `AnswerInv` follows a job from
  its acknowledgement to its answer, by whoever has it; `StopInv` says that behind a
  STOP there are only STOPs and that the compute thread ends at one, so that nothing
  is left in the queue then.

`EngineProofs` holds for any settings, rollout lengths, generators and numbers of
loads, from `EngineAssumption`.

* `EngineTypeCorrect` and `NobodyRunsTheFreed`: `TypeOK`, and `HeldInv`, that neither
  the engine nor a suspended generator has an instance that was freed. The two are one
  induction, since a forward pass puts its instance on a device.
* `EngineFlagsAreTrue`: `FlagsAreTrue`, after every failure, release and reload.
* `EngineAppliesItsLayer`: `AppliesItsLayer`, from `GraphInv`, that a graph of the
  backbone was captured before the layers end. It assumes `ReplaySuits`: with a graph
  of the backbone, a mode that has one layer for all steps, and a warm-up shorter than
  `LoraSteps`. The code asks neither, and without them the property is false, as
  section 3 explains.

`ExportProofs` holds for any number of rollouts, steps, threads and directories, from
`ExportAssumption`. All its theorems rest on `BaseInv`: the types, what a rollout that
has not begun leaves alone, the window of steps the caller has not waited for with
what threads may have done to each (`PooledWindow`, `InlineWindow`), and that a file
that holds a step was saved by that rollout (`TracedInv`, the theorem `FilesAreTraced`).

* `WholeStepsSurvive`: `AWholeStepSurvives`, without hypotheses. `WholeInv` says that
  of a rollout with a directory of its own each step that was written is on disk or a
  later one is, since a file is removed only by a thread that has written a later one.
* `CompletedRolloutsAreOnDisk`: `CompletedIsOnDisk`, from `StaleInv`, that a step is
  finished before the one that makes it stale is submitted, and `ExactInv`, which file
  is there at which state of the writes. It assumes `RetainsEnough`: more files
  retained than writes may be pending, or all of them. With one retained and one
  pending, three steps and two threads TLC finds it false: step 1 is written and looks
  for the file of step 0 to remove it, in vain, before the thread of step 0 creates
  it, and both stay, where `_drop_stale` is to "Keep only the newest files"
  (`io_backend.py:122`). The repository's callers are within the hypothesis: the worker
  keeps all files, the benchmark two with one pending.

`CacheProofs` holds for any processes, requests, keys, entries however shared, changes of
the inputs, failures and crashes, from `CacheAssumption`, which only says what the
constants are functions of.

* `CacheReplaysExactBatch`: `UnspoiltReplaysExactBatch`. Neither the two files of an entry
  nor a fingerprint and the tensors beside it belong together at all times, so `CacheInv`
  is about what may be where: for each process what it has in hand (`InHand`) and, as
  long as it works in peace, what its entry's files may hold at its point of the protocol
  (`FilesOf`), and for each entry that is not spoilt that its fingerprint vouches for the
  tensors beside it, unless somebody is between the two renames (`EntryOf`, the theorem
  `EntriesAreVouchedFor`). The step of one process is shown to keep what another relies
  on: whoever is at an entry in peace has the same batch in mind as all others there
  (`SameMind`), so the files they overwrite, rename and remove for each other are of that
  batch or torn (`HandStep`, `OthersFiles`, `EntryStep`); a change of the inputs changes
  no file and nothing a process has in hand (`ChangeKeeps`).

`NodeProofs` is about the parts as they stand side by side in `Node`, from
`NodeAssumption`, which is the conjunction of what the parts assume. `NodeStep` splits
a step of the node: it is one of each part or leaves that part's variables alone. So
each part has an invariant of its own, and `NodeReplaysExactBatch`, `NodeFlagsAreTrue`
and `NodeAppliesItsLayer` carry over what `CacheProofs` and `EngineProofs` show, the last with
its hypothesis `ReplaySuits`.

* `NodeStoppedAreDown`, for any finite set of children, from `DownInv`: what the owner
  has still to terminate is all that is not gone (`EndingInv`), since `_wait_for_processes`
  drops a process only when it found it gone or reaped it (`PolledLeaves`), and no
  clean-up has found a process that did not run yet (`StaleFoundInv`).
* `NodeForecastIsComplete`, for any clients and requests, from `ClientInv`. That what was
  said of a request is what its client was handed and what is on its way to it
  (`BalanceInv`) is not inductive: a second copy of the request, an event that reaches
  another client, or a call that reads and drops one would break it. So `AskInv` says
  that a request is on its way once, and before anything was said of it; `PipeInv` that
  nothing is on the way that was not said; `AloneInv` that nobody else is connected to
  hear of it and its client asks for nothing else; `ToldInv` that an answer comes last.
* `NodeLayersMeet`, for any images, windows and numbers of layers, from `SwinInv`: the
  encoder leaves the image of each level, and the decoder is at the image of its own.
  `AllResSteps` is the induction over levels, that each is half of the one above, and
  `HalvedAndSplit` that doubling and cropping undo halving and padding, odd or even.
* `NodeLayoutsAgree` and `NodeMaskFollowsTheGlobe`, for any image and any window, fitting
  or padded. They are not inductive but theorems about every shape, which `SwinInv` says
  the layers have. `PartitionHolds` says what an image that was padded and partitioned
  has at place `n` of window `k`, by lemmas about quotients and remainders
  (`DivUnique`, `BlockWithin`, `PadToBlocks`): a number within a shape is that of one
  place (`NumberOfPlace`), and a place that of one window (`WindowOfPlace`). So the
  kernel's partition is the reference's (`PartitionAgrees`), and both ways back return a
  token to its place, since rolling by `ss` undoes rolling by `-ss` (`RollBack`). For the
  mask, an axis at a time: two places of a window that are in one slice are rolled over
  the edge together or not at all, so they stay near each other, and on the axis that
  closes to a circle they do so in any slice (`NearAxis`); conversely near ones are in
  one slice where the last window begins where the slices do, without padding
  (`OneSlice`). A group stands for the slices of the first two axes and for whether the
  third is the first of its axis (`GroupIs`), which is why merging the other two loses
  nothing.
* `NodeUnifiedExportsItsSteps` and `NodeOnlyTheEastHalfRaces`, for any plans, any number
  of steps and any order in which streams advance, from `StagedInv`. It is an outline of
  the host's program: an assertion before and after each instruction, which says for
  each stream what it will find in place once it has done what it was given, and for the
  host what it has waited for (`Leads`). That an outline exists is shown instruction by
  instruction (`LaunchRule`, `WaitRule` and their like), then piece by piece for copies,
  stages and steps, and by induction over the steps (`ProgramRule`). `Meets` says what it takes for the
  state to be as the outline has it: for each piece of work that waits on a stream, what
  it is to find is in place, or what stands before it on its stream, or on the stream it
  waits for, will put it there. A launch and a wait add such a piece (`EnqueueKeeps`), and a stream
  that advances does what was foreseen (`StreamStep`). Only the eastern half of a split
  decoder is launched without finding what it reads (`Races`). TLC cannot evaluate
  `StagedInv`, which quantifies over outlines; it checks what follows from it.
* `NodeTypeCorrect`: `NodeTypeOK`, the types of all parts, from these invariants.

Only model-checked, since the prover has no `ENABLED` and no proof rule for fairness
here: the liveness properties `EveryJobAnswered`, `RunningWorkersRejoin`,
`StopCompletes`, `ReceivedIsAnswered` and `EveryWaiterServed`. `JobsAreAnswered` is
`AcceptedIsAnswered` of the two settings without memory exhaustion, as
`AcceptedAreAnswered` shows it for behaviours that lose nothing.
The assumptions of the modules that `Node` instantiates are evaluated by the runs of
`MCNode`, as `NodeAssumption`.

## 5. Findings

* `sticky_stall`: the silence of a sticky worker frees its key but dispatches
  nothing, so a job that waited for it stays beside an idle worker
  until some other event dispatches (`coordinator.py:484`; `README.md:75` "fills idle
  workers").
* `fatal_accept`: a job accepted by the control thread after the compute thread has
  failed the queue and ended is never answered (docstring at `worker.py:543`).
* `abandoned`: a job that times out leaves its process in the registry's queue. A
  process is served only at the head of the queue, so as long as this one lives and
  asks for nothing everybody behind it is refused, even on an empty GPU
  (`gpu_guard.py:452`; `docs/tutorial.md:225` "seconds to wait for GPU slot").
  `EveryWaiterServed` is stated up to this.
* `dotted`: requests that share a cache entry, as all days of a preset with a dot in its
  name do, and requests of one key that name their own files (`raw_paths`): a crash
  between the renames of its two files makes the next lookup return another request's
  batch (`ic_cache.py:195`, `:174`; `docs/tutorial.md:324` "replay bit-for-bit", `:331`).
* `restamped`: the input files are hashed again for the store, after the batch was built;
  files that change in between vouch for a batch of the old ones, which is replayed for
  the new ones from then on (`ic_cache.py:310`; `docs/tutorial.md:324`, `:331` "input file
  hashes").
* `spatial`: the eastern half of a split decoder stays on its device, so its copy
  orders nothing, and its stream does not wait for the one the backbone runs on
  (`decoder_spatial.py:272`; `tests/engine/test_decoder_spatial.py:72`).
  `OnlyTheEastHalfRaces` shows that nothing else is out of order.
* `orphans`: a scan lists as killed an orphan that leads no process group and was sent
  no signal (`supervisor.py:124`; `supervisor.py:120`).

`PROJECT.json` lists the hazards of this code, with the properties that would notice.
Known besides, without a property:

* a report that raises a worker's capacity dispatches nothing (`coordinator.py:285`);
  terminal events are dropped when 1024 events wait for a client
  (`coordinator.py:202`, and in a worker `worker.py:283`);
* a signal between the acknowledgement of a job and its queueing drops it
  (`worker.py:620`), and a job that outlasts the join of 120 s dies with its process
  (`worker.py:579`);
* a shareable job is admitted with three quarters of its memory free
  (`gpu_guard.py:264`);
* a job waits for ever while its sticky key is bound to a live worker that does not accept
  its preset (`coordinator.py:352`);
* a worker keeps its GPU ticket while it is idle (`engine.py:246`), and a job of another
  process may wait behind it until its timeout;
* all members of an ensemble job export to the job's directory under names that tell steps
  apart only, so each member replaces the files of the one before (`worker.py:512`);
* after a write that failed `close()` raises and leaves threads that write on
  (`io_backend.py:137`);
* weights may still be on the GPU when their ticket is back (`engine.py:271`), and two jobs
  of one process reserve the larger of their needs (`gpu_guard.py:319`);
* with `raw_paths` that name some files only, the others are not hashed (`ic_cache.py:132`);
* an engine that holds a ticket uses it for a longer rollout too (`engine.py:246`);
* the backbone's graph applies its layer in rollouts longer than `lora_steps`
  (`cuda_graph.py:196`), see section 3.

## 6. Not modelled, and the plan

Not modelled: what tensors hold (`models/` but for the backbone's geometry, the
kernels), formats and network (`ingress`, the writers' encodings, the wire encoding),
estimates of memory, command lines and start-up, configuration. Their correctness is
numerical or functional, not a matter of order. They are most of the repository's
lines: models and kernels alone have 21,000 of some 47,000, benchmarks and
notebooks much of the rest, and a model of them would restate arithmetic that TLC
cannot evaluate on tensors.

Done: `Coordinator`, `JobService`, `Worker`, `GpuGuard`, `IcCache`, `StepExport`,
`StagedRollout`, `Engine`, `Backbone`, `Reclaim`, `Client`, and theorems about all of
them. Left, in this order:

1. One abstract worker that `Worker` is shown to implement and `Coordinator` uses.
2. A composition of client, coordinator and worker over their pipes.

# TLA+ specifications of the policy-cce campaign machinery

The repository holds a game-theoretic experiment (coarse correlated equilibria of
manufacturing task allocation), the machinery that ran it as a campaign of restartable
jobs on several nodes, one of them a preemptible Spot VM, and offline tools that turn the
archived results into tables and figures. What is hard to get right, and hardly reached by
the tests under `src/tests`, is in three places: the machinery (threads that share a node,
a heartbeat that uploads files while another process writes them, restarts with and without
the disk, a remote store in which most objects may never change), the plan that connects
jobs on different nodes (dependencies, seeds, slots, what reducers demand of runners), and
the caches and random streams the numerical parts share. The specifications cover all three.

Paths below are relative to `src/cmfg_cce/` unless they begin with `src/`.

## 1. Inventory

### Components that keep state over time

| component | state | operations | interacts with |
|---|---|---|---|
| `ResourceGate` (`orchestration/worker.py:50`) | `_active_bulk`, `_exclusive_active`, `_exclusive_waiting`, one condition variable | `acquire("bulk")`, `acquire("exclusive_runtime")`, release on every exit of the `with` block | one slot thread each; nothing in it looks at `stop_event` |
| `CampaignWorker`, node level (`worker.py:1026-1160`) | job list per slot, `stop_event`, `completed`, `failures`, active jobs, `node_complete.json` | `run`, `_run_slot`, signal handler, heartbeat loop | gate, ledger, job lifecycle |
| `RuntimeLedger` (`worker.py:94`) and the control files | checkpointed seconds, start of the session, local and remote ledger file, `heartbeat.json` | `__post_init__`, `accumulated_seconds`, `exhausted`, `checkpoint`, `_write_heartbeat` in two threads | `atomic_json`, remote store, the end of `run()` |
| job lifecycle (`worker.py:252-440, 921-1024`) | `job_complete.json`, artifacts, dependency directories, each local and remote | `_restore_completion`, `_prepare_dependencies`, `_validate_artifacts`, publication of the marker, `_prune_completed_job` | remote store, other slots and other nodes |
| `ImmutableChunkStore` (`orchestration/chunks.py`) | plan file, and a payload and a record file for each chunk | `status`, `commit`, `_quarantine`, `pending`, `validate_complete` | the runner writes, the heartbeat reads |
| chunk synchronization (`worker.py:446-492, 695-848`) | upload caches, `runner_sync_lock`, remote plan, payloads, records | `_restore_runner_plans_and_chunks`, `_sync_runner_managed_job`, `_upload_chunk` | chunk store, remote store |
| adaptive training (`evaluation/resumable_training_chunks.py`, `experiments/run_revision_cnc.py:403-515`) | assignment checkpoint, blocks of slots, estimates, frozen result | `assign`, `record`, `restore_or_repair`, `finalize`, `_run_or_load_training` | chunk store, sidecars |
| runner sidecars (`worker.py:530-693`) | remote `objects/<digest>` and a mutable pointer for each sidecar | `_restore_runner_sidecars`, `_sync_runner_sidecars` | adaptive training, remote store |
| remote stores (`orchestration/storage.py`) | one object per key, its metadata | `upload_immutable`, `upload_mutable`, `download`, `exists` in three backends | everything above |
| runtime attempts (`experiments/run_revision_full_v1.py:1277`) | attempt directories, completed attempt | `_load_completed_runtime_attempt`, `_atomic_runtime_attempt` | job lifecycle |
| runners (`experiments/run_revision_mwu_tuning.py`, `run_revision_full_v1.py`, `run_revision_cnc.py`, `run_revision_transplant.py`) | position in their stages, frozen distributions, chunks of each stage | measure or restore, freeze, plan, simulate block by block, publish | chunk store, heartbeat, results of other jobs, MWU selection |
| campaign builder and manifest (`orchestration/manifest_cli.py`, `manifest.py`, `experiments/revision_full_v1_spec.py`) | jobs with slots, dependencies and seed streams | `physical_jobs`, `_assign_lpt`, build, `validate` with its depth-first search | every worker that loads the manifest |
| reducers (`evaluation/revision_campaign_reducers.py`, `orchestration/revision_reducer_cli.py`) | summaries, written once | discover, check completeness and cross-checks, write | results of all runners |
| payoff caches (`evaluation/payoff_cache.py`, `backend_cache.py`, `cache_io.py`) | estimates per profile, paired samples, access log, files | `ensure`, resampling, `reset_access_log`, save, load | solvers, experiments |
| solvers and baselines (`solvers/`, `baselines/simple.py`) | support, restricted master, bounds, traces | one loop each | payoff caches |
| environments and auctions (`envs/`, `mechanisms/`, `evaluation/route_rollout.py`, `rollout.py`) | rates, pressures, queues, reservations, four random streams | one period of an episode | rollouts of every solver and audit |

### Components that are left aside

Operator tools (`active_pointer.py`, `cross_arch_compare.py`, `recovery_smoke.py`), the
formulas of the bidding policies, statistics, exploratory scripts that call solvers in a row
and print tables, and the offline tools under `src/policy_cce_repro`. PROJECT.json lists
every component with its status.

### What is hard, and what makes each component correct

* **Interleavings.** Slot threads share the gate; the heartbeat shares files and caches
  with the runner and the slots, and `run()` writes a heartbeat of its own; consumers copy
  what another slot prunes. Correct means: a measurement has the node for itself; no thread
  sleeps on after what it waited for; a chunk that may be read is not rewritten; everybody
  who is served a result gets the same one; bookkeeping does not break the node.
* **Crashes and restarts.** A process can die between any two file operations; a Spot VM
  also loses its disk. Correct means: what was published can be restored whole; a recreated
  host goes on with the same assignment, the same plans and the same measurements; paid
  time is not forgotten; a case study goes on from the estimates its result was computed
  from.
* **Unreliable requests.** A request can fail after its effect. Correct means: a retry
  recognises its own object, and a refusal is about contents that differ.
* **Order of uploads.** Payload before record, artifacts before marker, blocks before
  sidecars, object before pointer, the chunks of a stage before those of a later one.
* **Stopping.** Exceptions, signals, an exhausted budget and deadlines pass through the
  gate. Correct means: the node ends and no job is dropped silently, and a node over its
  budget stops although its heartbeats fail.
* **Agreement across jobs.** Training, tuning and audit draw from disjoint streams; MWU has
  the measured time of its DSS partner; an audit simulates every profile it reads; a
  reducer accepts what the runners publish.
* **Shared state of computations.** A reported gap rests on the estimates in the cache; the
  access log is what a solver costs; a certificate is about the whole game; two episodes
  that are compared meet one world; an award fits the capacity when it is made.

The list of hazards with their lines is in PROJECT.json.

## 2. Modules

| module | models | refines or composes |
|---|---|---|
| `PriorityGate` | what the gate promises its threads: a measurement is alone, and no bulk job overtakes one that waits | abstract specification of `ResourceGate` |
| `ResourceGate` | every critical section of the gate's condition variable as one action, for any finite set of threads | used by `NodeSchedule`, which implements `PriorityGate` (`ImplementsGate`, checked and proved) |
| `NodeSchedule` | the threads of one node: slots, gate, stop, budget, heartbeat decision, `run()`, restarts; jobs of other nodes complete by themselves | EXTENDS `ResourceGate`: its gate steps are the gate's own actions |
| `NodeControl` | the ledger and the heartbeat files of a node: two writers, one temporary name, a store that fails, kills, and how `run()` ends | the jobs are reduced to how they end (`NodeSchedule`) |
| `ChunkRegister` | what the chunk machinery promises: registers that hold one whole commit, cleared by a restart only, and copies that are published once | abstract specification of `ChunkStore` |
| `ChunkStore` | chunks file by file: commit, quarantine, heartbeat upload, restore | implements `ChunkRegister` (`ImplementsRegister`, checked and proved) |
| `AdaptiveTraining` | assignments, blocks, the frozen result, and the sidecar protocol under restarts | uses a chunk as one step, which `ChunkStore` justifies |
| `JobLifecycle` | artifacts, marker, pruning, and consumers that copy the result | |
| `ObjectStore` | the calls of several processes on one key, in all three backends | the other modules use the contract its properties state |
| `RevisionMatrix` | the experiment matrix: units of the design and the physical jobs that group them, seed namespaces | constant-level, used by `CampaignPlan` |
| `CampaignPlan` | build and load of a manifest: phases, selection, slots, dependencies, the search for cycles call by call | EXTENDS `RevisionMatrix` |
| `FrozenAudit` | the closure an audit simulates and the profiles it reads | used by runners and reducers |
| `RunnerPipelines` | the stages of all runners with their restarts, time budgets and plans, beside a heartbeat | EXTENDS `FrozenAudit`; a chunk, the adaptive search and the publication are one step each |
| `CampaignReducers` | what each reducer demands and what its summary stands for | EXTENDS `FrozenAudit` |
| `CampaignRun` | a campaign from its first measurement to its summaries | composes `RunnerPipelines` and `CampaignReducers` |
| `PayoffCache` | estimates, paired samples and the access log | used by the solvers |
| `SparseSearch` | the searches without a complete table: SAD, repair, pair, beam, KKT, no-regret traces | EXTENDS `PayoffCache` |
| `ColumnGeneration` | the solvers that claim optimality: certified KKT, T-CARM, exhaustive column generation | EXTENDS `SparseSearch` |
| `SolverRuns` | lists of solvers on one cache, and a case study with checkpoints and crashes | composes the three above |
| `Mechanisms` | the four auctions in exact arithmetic | used by `MarketEpisodes` |
| `ToyMarket`, `RouteCapacity` | providers of the aggregate and of the route market | `RouteCapacity` EXTENDS `ToyMarket` |
| `MarketEpisodes` | two episodes of one replication side by side | composes the three above |
| `MC*` | instances for TLC | |
| `*_proof` | proofs about the module of that name; `NodeSchedule_proof` holds those of the gate too, `Stores_proof` those of `ObjectStore` and `ChunkStore`, `Payoffs_proof` those of `MarketEpisodes` and of `SolverRuns` with the solvers it composes | |

### Correspondence

**ResourceGate.** `activeBulk`, `exclusiveActive`, `exclusiveWaiting` are the three
attributes. `place` is where a thread is: outside, asleep in `wait_for`, woken but not yet
running, or past the `yield`. Taking the lock, looking at the predicate and sleeping, or
entering, is one action, because the lock is held in between. A wakeup is separate from
the re-evaluation of the predicate, so woken threads race with newcomers.

**NodeSchedule.** `pc[s]` follows a slot through `_run_slot`: head of the loop, `acquire`,
marker, dependency wait, command, the end of the `with` block, and the `except` handler.
An exception first leaves the gate and only then sets `stop_event`; both are actions, so
other slots can enter in between, as in the code. `stop`, `exhausted` and `ledger` are the
event, the budget now, and the budget as checkpointed. `local` and `remote` are the jobs
with a completion marker on the disk and in the store: `WriteMarker` writes the first,
where the other slots find it at once, `PublishMarker` uploads it, and `PublishRaises` is an
upload that fails before or after it arrived. With `--prune-completed-local` the directory
goes, its marker too, once the store has it. A restart clears what is in memory and keeps
the disk or, on a Spot VM, loses it; `lost` remembers the jobs whose only marker went with
it. Through gcloud (`GcloudCommand`) a question to the store may be answered with no.
`PriorityGate` has no counters and nobody asleep: a thread waits, is inside or is outside.

**NodeControl.** `do[w]` walks a writer through `_write_heartbeat`: the payload, then for
each of the two files open (which truncates), write, replace and upload, then the look at
the budget. `file[w]` is the file it is at, `fd[w]` the name under which the file it has
open is found now: a replace by the other writer takes that file along to its final name.
`temp` and `target` are the contents under the two names of each file, `Torn` one that is
no JSON, `remote` the ledger in the store. The time is in ticks. `Start` is
`RuntimeLedger.__post_init__` with every outcome of its download; `Raised` is an exception
in either writer, which the loop catches and `run()` does not.

**ChunkStore.** `payload` and `record` are the two files of a chunk, `remotePayload` and
`remoteRecord` its objects, `cached` the upload cache. A record is the session that wrote
it, because `created_at` makes two commits of one chunk differ; this is why a restore has
to precede the runner. With `GcloudCommand` every question of a restore may be answered as if
the object were missing; `unseen` remembers of which chunks that was untrue. A refused record
stops a synchronization (`SyncRefused`), as a failing store does. `worker`, `runner` and
`beat` are the control states of the slot thread, the runner process and the heartbeat, each action one file or object. A restart
that keeps the disk may find a record of the last session damaged: records are not
flushed with `fsync`.

**AdaptiveTraining.** `slots` and `final` are `assignments` and `finalized`; `file` is the
checkpoint on disk; `chunk[b]` is what block b holds, profile by profile; `result` the
profiles on which the frozen q was solved. `beat` walks through one synchronization:
list the blocks, upload them, then `stat`, digest, object and pointer of the assignment
sidecar, then the result sidecar. The restored state goes through `restore_or_repair`
block by block. The digest of a file is its content, so an object is a pair of the digest
in its name and the content that was read for it.

**JobLifecycle.** A file is the version of the result it holds. A simulation job has one
version, a measured one a new version for each attempt that does not find a completed one
on its disk. Artifacts are uploaded one by one, then the local and the remote marker are
written, then the directory is pruned file by file. A consumer in another slot looks for a
local file and copies it in a second step; one elsewhere downloads. A download may raise, the
wait may end at its deadline or by a stop, a kill tears the file a copy is writing, and with
gcloud an object that is there may be reported missing; each ends a consumer, whose node then
starts it again. `calm` says that from now on nothing of this kind happens.

**ObjectStore.** `pc[c]` walks through one call: for the mirror look, copy, link, replace;
for the buckets send, observe, retry, describe, fetch. A request arrives, arrives and
loses its answer, or fails. `steady` says whether local files keep their content during an
upload. Objects of a bucket carry the announced digest beside their content.

**RevisionMatrix, CampaignPlan.** A job is a record of what the plan reads of it: game,
family, stages, solvers, selectors, tuning configurations. `physical_jobs` and
`all_compute_jobs` are the code's two views of the design. `stage` follows a command
(begin, assign, check, visit); `_assign_lpt` assigns one job per step; `visit()` is a
stack of calls, each with the dependencies it still has to look at. A hash that is compared
is whether it fits: `flaw` is what is wrong with the input. `deps` of a loaded manifest
ranges over every dependency map of its ids.

**RunnerPipelines.** `pos` is the position in the script of a job (`StagesOf`), `step` and
`trial` the attempt in progress, `held` the frozen distributions in memory. `disk` holds
attempts, plans and chunks, `remote` what was uploaded. `beat` is the stage a heartbeat is
at, in the order the stages are listed in the code, and the indexes of the chunks it still
has to upload of it, the least first; an attempt of the tuning job has the index of its
place in the script.
A measured run ends with any support of `Measured` and takes any of `Times`.
`CampaignReducers` is constant-level: a result is a record of what reducers read of it. A
root is a map from places to results: those of the campaign are at the place of their job,
and at most one place has a copy, a smoke test or a result of another campaign. The summary
of a family that has a single job may be that of the other campaign's result, since nothing
a reducer reads tells it which campaign is meant; it is never of both.

**PayoffCache, SparseSearch, ColumnGeneration, SolverRuns.** An estimate is its number of
rollouts, because seeds are fixed. In `SparseSearch` a linear program may answer with any
support within its columns and a gap on either side of the target. `pc` is the part of a solver's loop it is
in, or what a case study does between its solvers (`RunsSpec`); `result` is a snapshot of the estimates its reported gap was computed from. In
`ColumnGeneration` there is a game with integer payoffs (`Payoffs`). `Gain` is an entry of
`deviation_rows`, `Gap` the greatest gain of a deviation from a distribution, `Price` what
`_pricing_values` computes. A restricted master is a distribution of the least gap over its
columns, its duals are any weights of the deviations under which no column is cheaper than
that gap, and both are searched among the multiples of 1/`Grain` (`Mixes`, `Weights`); on the games of
the run there always are such weights, as otherwise TLC would report a deadlock. All bounds and stopping tests are computed from
these, with `Tolerance` for `target_gap` and `tolerance`, and `Feasible` for the
`max(1e-6, tolerance)` of `cg_cce.py`, whose fall back to all profiles and final error are
there. Nothing in the module says that a price is a bound.

**Mechanisms, ToyMarket, RouteCapacity, MarketEpisodes.** Prices, costs and workloads are
numbers; amounts are compared over common denominators. `step` is the part of a
period both episodes are in, `turn` the one that is played next. `position[e]` is how many numbers
an episode has drawn from each of its four streams; two episodes draw the same where their
streams stand at the same place. Every feasible provider may skip or bid anything its limits
allow.

## 3. Runs

Passing runs:

| run | question | instance, and why it is enough |
|---|---|---|
| `node` | no lost wakeup, a gate with priority for measurements, measurements alone, markers closed under dependencies, a poll loop wherever a node is blocked, no gap without a stop, sessions end | four jobs on three slots: one slot measures and then runs a worker-chunked job, one has the audit of the measurement, one a job that needs the chunked one and a foreign one, so that the wait of the gate for the poll loop occurs; failures of two jobs, pruning, gcloud, a signal, the budget, two process starts, with the disk kept or lost; 1,251,132 states |
| `control` | bookkeeping does not break the node, paid time is not taken back, a node over budget stops | three kinds of hosts: one where the last heartbeat of `run()` may overlap the thread's, one with failing requests and lost disks, one with the gcloud backend; limit of one tick in two, three process starts; 335,623 states |
| `store` | write-once keys, true answers, real conflicts | two processes with all combinations of calls and backends, two contents, two attempts; conflicts and races need no third party |
| `chunks` | restorable objects, truthful cache, no conflict but over an overlooked chunk, refinement of `ChunkRegister`, an end | three chunks and three process starts: a chunk committed, one half written and one missing at a crash, twice, with a store that fails or, through gcloud, denies what it has; 220,174 states |
| `training` | stable slots, blocks that match them, a frozen q solved on all its profiles, an end with a result or with an error there is a reason for | two batches of which the second repeats a profile, completes the first block and half fills the second; two process starts; three kinds of hosts (below); 867,371 states |
| `job` | markers of whole results, consumers that agree, service of other nodes | two artifacts, a consumer in another slot and one elsewhere, measured and simulated producers with and without pruning and gcloud, failing and torn copies, three process starts of the producer's node and any number of another's; 186,236 states |
| `campaign` | the cycle check is exact, audit streams are fresh, every unit has one job, slots are balanced | every phase, selection and flaw on a design with one or two values per axis and every family in it; all dependency maps of three jobs, which have every shape of cycle and diamond a search can confuse; 109,773 states |
| `runner` | MWU has the time of its DSS partner, restarts go on, audits cover what they read, complete campaigns are reduced, summaries are whole, waves end | seven waves with a job of every runner and family, two policies (three in the expanded library), blocks of two profiles, two measured times and supports, two process starts of a job, with and without lost disks and slow uploads; 316,215 states |
| `solver` | a reported gap rests on current estimates, the log is the cost, certificates are about the whole game | two agents with three policies, every solver on a cold cache or after another one, a case study with a crash at any point; for the certificates games with a dominant policy and with and without a pure equilibrium, distributions and weights in quarters on up to two profiles or deviations, a tolerance of one quarter; 1,495,492 states up to symmetry |
| `market` | awards fit, payments are within the reserve, two episodes meet one world | two providers, one of which lacks a machine group, two periods after one of burn-in, under all four auctions and in all four markets; 5,237,412 states |

Bounds: `MaxSessions` bounds process starts in every module (a guard of the restart
actions), `MaxTime` the ticks and `MaxCrashes` the crashes of a case study; `Retries`, the
sizes of supports, batches and rounds, and `Horizon` are the code's own parameters with
small values; all else is finite by itself. `MaxRedraws` bounds how often in a row the market
draws an order nobody is eligible for, which the code does not bound. `Mixes` and `Weights` bound the distributions of `solver`. Heartbeats may start at
any time and any number of times. The symmetry of `solver` permutes agents and policies, of
which no definition singles one out; all its properties are invariants.

*Hosts.* `FaultSets` and `Hosts` give the faults that may happen together on a host, and a
property that the code keeps only on some of them names them:

* `training`: `SlotsStable` and `BlocksMatchSlots` are stated for `PlainHost`, a host that
  only loses its disk or only uploads slowly. On one where both happen the code breaks
  them: the runner assigns its last profiles and finishes during a slow upload, the result
  is published next to an older assignment list, and after a lost disk the search is
  skipped, the short list is padded, and profiles lose their slots. `QIsFrozen` holds on all
  hosts. `EndsWithResult` takes only some errors for an end (`Explained`): those of a store
  that fails, the one of `training_beyond` where a disk can be lost, and any on a host that
  is not plain.
* `control`: `EndIsClean` excepts the overlap of two writers, `LedgerGrows` also a restart
  of a gcloud node on an empty disk (below).
* `runner`: `RestartGoesOn` excepts one kind of failure on a host with slow uploads and lost
  disks (below).

Violation runs, each a disagreement between the code and a docstring (quoted in
PROJECT.json under findings):

| run | what TLC finds |
|---|---|
| `training_beyond` | The disk is lost between the upload of a block and that of the assignment pointer; from then on every session refuses the restored block as extending beyond the assignments. |
| `reduce` | The benchmark reducer demands `empty_cache_confirmed` of every solver record of a runtime job. The records of the DSS/MWU pair do not have it, so every complete benchmark is refused. |

### What else the models show of the code

These are no disagreements with a line of the repository, or are excepted by a property:

* **Transplants.** The transplant reducer refuses every result the transplant runner
  publishes: the check of complete results compares a field `mechanism`, and a transplant
  names two others. `CompleteIsReduced` leaves it out together with the benchmark.
* **Repeated measurements.** A runtime job whose artifact was uploaded before its node was
  lost, with no marker yet, measures again and is refused under the same key in every later
  session (`worker.py:934`).
* **Plans that overtake.** A slow heartbeat that has passed the attempts of a tuning job can
  find and upload the plan of a later stage; if the disk is then lost, the job measures
  again, computes another plan and is refused for ever (`worker.py:758-848`). `RestartGoesOn`
  and `WaveEnds` except exactly this.
* **A frozen q ahead of its support.** A heartbeat lists the blocks, the runner finishes, and
  the same heartbeat publishes the frozen q before the last blocks are in the store.
* **Order of families.** A bulk job holds the gate while it polls for a measurement that waits
  for the gate. `physical_jobs` lists evidence before the runtime jobs it needs
  (`experiments/revision_full_v1_spec.py:914-930`), and the builder puts runtime jobs on the
  first slot of the Spot node and evidence on any slot (`orchestration/manifest_cli.py:273-284`),
  so a node that runs both families does come to this. Only the dependency deadline
  (`dependency_wait_seconds`, a day) ends it, and the node with it, as failed. The family filters
  (`worker.py:1200-1207`) can keep the families apart; no launcher that sets them is in the
  repository, so nothing is assumed of waves. `DeadlineEndsDeadlock` says what the code does
  guarantee: a blocked node always has a slot in the poll loop, never only sleepers.
* **Markers on a lost disk.** A marker whose upload failed stays on the disk and is trusted
  there (`worker.py:252-258`): another slot goes on from it (`worker.py:311-315`) and may
  publish its own result. If the disk is lost, the consumer's marker is in the store without
  that of its dependency. `MarkersAreClosed` excepts exactly such dependencies (`lost`).
* **Torn markers.** `copyfile` writes the marker of a dependency in place (`worker.py:315`). A
  kill in between leaves a copy that exists and cannot be read, and every later session on
  that disk fails; a torn artifact is fetched again. `PublishedIsServed` excepts the former.
* **A measurement made again beside its consumer.** With gcloud, a published measurement whose
  marker is not seen after a lost disk is made again and refused. Its artifacts stay on the
  disk, and a consumer in another slot of the node prefers them to the published ones
  (`worker.py:345-348`), finds another digest and fails, until the directory is pruned.
  `PublishedIsServed` excepts such a node.
* **Two heartbeats at once.** If the last heartbeat of `run()` overlaps the thread's, one of
  the two replaces can fail, and `run()` then raises before it scales the node to zero; or a
  half-written file gets its final name, and no later start can read the ledger.
* **gcloud outage.** The gcloud backend takes a failing request for a missing object
  (`orchestration/storage.py:151-152`). On an empty disk the ledger then starts at zero, which
  `LedgerGrows` excepts. A restore that is told so of a chunk leaves it to the runner, which
  commits it with another record, and the store refuses that for ever; `NoConflict` says that a
  commit collides in no other case. Both are in the models.
* **Warm caches.** `paired_profile_evaluations` of the pair search counts new samples only,
  so it depends on what ran before; the access log (`CostIsCounted`) does not.
* **Certificates.** `cg_cce` reports `full_optimality_certified` also when a `max_iterations`
  of the caller stopped its pricing; the model has the default, which is never reached.
* **Padding.** The loop that pads a support (`solvers/sparse_cce.py:433`) does not end when a
  game has fewer profiles than it wants; `RoomAssumption` says how many there must be.

### Fairness

* Node: each slot thread is scheduled as long as it can step (weak fairness), and `run()`
  collects its futures. A command is assumed to end, and a dependency wait to end at its
  deadline. Signals, the budget and other nodes' jobs have no fairness. The fairness of
  `ResourceGate` stands for what the notified threads of a condition variable are given.
* Control: both writers and the end of the process make progress. Of the store, that it
  answers some of the thread's requests of each kind: its beginning and each of its two
  uploads are strongly fair. Without this the budget is never looked at, as `_write_heartbeat`
  does it last.
* Chunks and training: the slot thread, the runner and a synchronization that has begun
  make progress. The full synchronization after the command has strong fairness, since the
  heartbeats that compete for `runner_sync_lock` come at intervals. In `AdaptiveTraining`
  the runner too is strongly fair: it is the model's `MayWrite`, and no lock of the code,
  that makes it pause during an upload. No heartbeat has to start or to succeed.
* Jobs: the producer and the consumers make progress. Failures, deadlines, stops and restarts
  of consumers have no fairness and may go on for ever; `PublishedIsServed` is about a consumer
  at a moment from which on there are none (`calm`), whatever was left behind before.
* Runners: a heartbeat goes on once it can, and the runner is strongly fair, because in the
  model a quick heartbeat is over before the runner takes its next step.
* Store, campaign, solver and market are checked for safety only.

`Completes`, `EndsWithResult` and `WaveEnds` are about the time after the last restart.
`Completes` counts a failure as an end: it excludes that threads wait for each other, not that
the store refuses them. `EndsWithResult` counts only an error there is a reason for, and
`WaveEnds` only the failure that `RestartGoesOn` excepts.

## 4. Proofs

TLAPS checks these for all values of the constants under the named assumptions of the
modules.

| theorem | statement |
|---|---|
| `GateIsExclusive` | `GateSpec => [](WholeNode /\ CountsExact /\ GateTypeOK)` |
| `GateLosesNoWakeup` | `GateSpec => []NoLostWakeup` |
| `NodeImplementsGate` | `Spec => ImplementsGate`: the gate of a node, with its exceptions and restarts, implements `PriorityGate` |
| `MeasurementIsAlone`, `MarkersStayClosed`, `NoJobIsDropped`, `GateNeverStopsNode` | `MeasuredAlone`, `MarkersAreClosed`, `StopExplainsGaps`, `DeadlineEndsDeadlock` of a node |
| `EndOfRunIsClean`, `PaidTimeIsKept` | `EndIsClean`, `LedgerGrows` of the control files |
| `StoreIsTyped`, `KeyIsWrittenOnce`, `UploadIsStored`, `ConflictsAreReal` | `StoreTypeOK`, `WriteOnce`, `ReturnedDigestIsStored`, `ConflictIsReal` of the store |
| `StoreIsRestorable`, `UploadCacheIsTrue`, `CommitsDoNotCollide` | `RemoteIsRestorable`, `CacheTellsTruth`, `NoConflict` of the chunks |
| `FilesImplementRegister` | `Spec => ImplementsRegister`: the chunk files implement registers of whole commits, published once |
| `LifecycleIsTyped`, `MarkersAreWhole`, `ConsumersHaveOneResult` | `TypeOK`, `MarkerMeansWhole`, `ConsumersAgree` of a job |
| `FrozenQIsThatOfAWholeSearch`, `AssignmentIsFrozen`, `BlocksHoldTheirSlots` | `QIsFrozen` on every host, `SlotsStable` and `BlocksMatchSlots` on a plain one |
| `AcceptedIsAcyclic`, `TheCheckIsExact` | an accepted manifest, of any size, has no cycle; `CheckIsExact`: acceptance is decided by the input and the dependencies alone |
| `NoStreamIsUsedTwice`, `EveryUnitIsCarriedOnce`, `EveryPlanGoesThrough` | `EvidenceIsFresh` and `UnitsAreCovered` for any design; no plan is refused for the jobs the matrix gave it |
| `SlotsShareTheWork` | `NoSlotOverloaded` for any design, calibration and slots |
| `EpisodesStayPaired`, `AwardsAreSound` | `StreamsStayPaired` and `AwardIsSound` for any market, bids and horizon |
| `ReportsRestOnTheCache`, `CostsAreComplete` | `ResultIsCurrent`, `CostIsCounted` for any list of solvers on one cache, and for a case study that crashes |
| `CertifiedIsOptimal` | `CertificateIsSound` for any integer payoffs, tolerance, grain and weights |
| `RunInvariant` | `Spec => []RunInv`, the inductive invariant of a campaign |
| `BudgetsAreMeasured`, `RestartsGoOn`, `AuditsCover`, `CampaignsAreReduced`, `SummariesAreWhole` | `BudgetIsMeasured`, `RestartGoesOn`, `AuditCovers`, `CompleteIsReduced`, `ReportsAreWhole` of a campaign |

*Gate.* The predicates of `acquire` read counters, exclusion is about threads. `GateInv`
joins types, `CountsExact` (each counter is the number of threads it counts) and
`WholeNode`; each is needed for the others. The step lemmas use the cardinality lemmas
`SlotJoins` and `SlotLeaves`. `NoLostWakeup` is inductive relative to `GateInv`. For
`ImplementsGate` the counters are translated into what the threads do (`CountersTell`), and
every step of the gate is one of `PriorityGate` or a stutter (`GateStepIsAbstract`).

*Node.* Every step of a slot is a step of the gate or leaves it alone, and a restart
resets it (`GatePart`), so `GateInv` carries over. `Holders` ties the control state of a
slot to its place in the gate, and the mode of its place to the mode of its job;
`MeasuredAlone` follows. `MarkersStayClosed` adds `Supplied`, that a running job has the markers
of its dependencies somewhere; no step takes a marker from all three places at once
(`FindableGrows`), since pruning asks for the one in the store. `NoJobIsDropped` adds `Progress` (the jobs before the position of a slot
are completed, and a slot only ends early when the node stops or is about to).
For `GateNeverStopsNode`, `Waiting` says that who sleeps in the gate has a job of that mode;
with exact counters and no lost wakeup a sleeper waits for somebody inside, and who is inside
and blocked polls (`SomebodyPolls`).

*Control files.* On a host without overlap one writer at a time is in a heartbeat (`Alone`),
so it finds its own payload in the file it goes on with (`OwnFile`), and its replace has
something to replace. `InTime` says that no payload is ahead of the time, `Newer` that
whatever is on its way to the store (the file on disk, the time, a payload) is no less than
what is there: a request that lands late lands above what it replaces. `Recorded` is the
rest of `EndIsClean`. Neither property is inductive without knowing where a payload is.

*Store.* What an upload compares is a digest; what it stores is a file. `Announced` says
where in a call the two belong together, `Phases` which calls and backends a control state
belongs to, `Filled` that what a call goes on with exists, and `Honest` that metadata tell
the truth on a host whose files keep still. A step then leaves an existing object alone
(`ObjectStays`), which carries an answer given earlier over the steps of all others.
`ConflictsAreReal` adds `Seen`: what a download describes and what it fetches are one object.

*Chunks.* The argument is about order. A payload is uploaded before its record, so a record
in the store is restorable; a session looks at every chunk before it commits one
(`Restored`), so a chunk the runner commits has no record in the store, or one that the restore
was told is missing (`RunnerAt`); a valid
chunk is left alone, so one that is listed for upload stays what it was (`SyncAt`). With this
invariant every step of the files is a step of `ChunkRegister` or a stutter, for which
`FilesImplementRegister` goes through the actions one by one.

*Job.* While artifacts are uploaded there is no marker, and they are of one attempt
(`Uploading`); once a marker was seen every object is there (`CopiesAreWhole`), and
`upload_immutable` changes none. `Fetched` says how far a copy has come.

*Training.* `Upto[k]` is the list after k requests of a search that is never interrupted.
`FreezeInv` says of every list, in memory, on disk, under a digest and behind the pointer,
that it is one of these, or one of them padded once the search is over (`Lists`), that the
runner has been answered what it requested (`Memory`), and `QIsFrozen`. It is inductive on
every host because a restored list is one of these again and the search goes on from it.
`PlainInv` adds, on a plain host, that what is remote is no more than what the lists there
say: `Sound` lists (`SoundFiles`), results that come with whole lists (`SoundResults`), the
order of a synchronization (`SoundSync`), and blocks that lists begin with (`SoundBlocks`).
The lemmas about `Upto` (`UptoStep` to `PrefixBegins`) say that lists only grow, so that a
block of an earlier list is a block of a later one.

*Manifest.* `SearchInv` says of the visited jobs that they are closed under dependencies and
well-founded, and of every call in progress that what it has left behind is visited, except
the job the next call is about. A job joins a well-founded set when all its dependencies are
in it (`JoinVisited`). For the converse the calls in progress form a path of dependencies
(`ChainInv`), so that a job that is met again lies on a circle, and the jobs of a circle are
complete in no round (`CycleIsStuck`); `WellFoundedCompletes` puts the visited jobs into
rounds. `PlanInv` joins these with what each stage of a command has checked before.

*Matrix.* `NoStreamIsUsedTwice` rests on arithmetic: the namespaces are multiples of a
million apart and bases and seeds stay below (`StreamWindow`, `WindowsApart`), and a family
that evaluates uses another namespace than one that measures. `EveryUnitIsCarriedOnce`
shows of each kind of family that a unit determines the game and the phase of its job
(`EveryUnitFits`, `GameRebuilt`), and that every job has one (`EveryJobCarriesOne`).
`EveryPlanGoesThrough`: jobs that others depend on have no dependencies themselves
(`DependenciesAreLeaves`), so nothing of the matrix is `Stuck`.

*Slots.* The load of a slot is a sum over the jobs it has, so `LoadsInv` is about sums: the
jobs of the slots and those still to assign are the keys of the plan, each once, and when a
job goes to the least loaded slot, that slot has no more than the share (`LeastLoaded`). It
stays below share plus one job from then on, since only a least loaded slot gets more, the
measuring slot but for its measurements.

*Sums.* The library defines a sum over a finite set by a recursive function. `TableExists`
shows that there is one, `SumStep` unfolds it, and from `SumRemoves` on the order in which
it is taken does not matter. Each of these takes a smallest set for which it would fail
(`Smallest`, from the least member of a set of numbers) and removes an element; the
induction theorems of the library are not needed. The lemmas stand in `CampaignPlan_proof`
and in `Payoffs_proof`, which share no other definition.

*Episodes.* What of a provider's state bids do not touch is a function of itself and of what
was drawn (`SameWorld`); streams that are at one place draw the same and move on by the same
number (`SamePlace`). The shapes of the records are in the invariant because the prover has
no types. `AwardsAreSound` adds `MarketInv`: what was offered to an episode still holds when
it is its turn (`Open`), because the other one reserves in states of its own; a reservation
adds to each group of the route what it was free for (`WorkloadAppends`, `ReservedFits`);
what is free group by group is free in sum (`RouteIsAggregate`); and the reserve is a maximum
over the prices that includes the winner's (`PaymentBounds`).

*Solvers.* `CacheInv` says of the cache that an estimate is never more than was asked for and
every access is logged, of the result that its estimates and pairs are those of the cache
(`CurrentInv`), of the log that it claims no more than was simulated (`CostInv`), and of the
files of a case that they hold what its checkpointed result rests on (`FilesInv`). Each call
of the cache makes it grow (`Grows`), all but a resampling keep the estimates it has
(`Extends`), and a solver's step is one of these and a result computed after it (`Goes`,
`Follows`), which is all that `FollowsKeeps` has to know of the many kinds of steps.
`CertifiedIsOptimal` proves weak duality from the gains: the gain of weighted deviations is a
sum over profiles and deviations, and may be taken in either order (`SumsCommute`); by profiles
it is an average of prices and at least the least one, by deviations it is an average of
`RowGain` and at most the `Gap` (`LeastPriceIs`, `GapIs`), so no distribution has a gap below the
least price (`PricesBoundTheGap`). `GameInv` carries this through the rounds of the KKT search:
`lower` was the least price under some weights, and `upper` is a gap that was reached. The
exhaustive solver is the other case: when it falls back, its columns are all the profiles, and
otherwise its epsilon is within the tolerance (`LeastGapIs`).

*Campaign.* A restart finds what was committed and what was uploaded, so `RunInv` is about
how these fit what the runner holds. Every payload, in an attempt or in a chunk, was measured
with the time of the DSS run it comes with, or of the one that is committed (`PayloadOK`),
and DSS is the first attempt and the first that is uploaded (`TuningBeat`), so that no MWU
run outlives the DSS run it was measured against. All attempts of the tuning job are
committed before its audit plan is written (`TuningPlanOK`), so that the plan that is found
is the one that would be computed again; this needs a host that does not both lose its disk
and upload slowly, which is where `RestartGoesOn` makes its exception. A job that measures no
time finds its q in the published results (`Determined`), and each of its plans is empty or
the one these give. What is uploaded is a part of what is on disk (`Uploaded`), so a lost
disk leaves a smaller disk of the same kind. `ResultOK` says what follows for a published
result: `BudgetIsMeasured` is a part of it, `AuditCovers` follows since the audit plan is the
closure of each q (`ArmIsAudited`), and `CompleteIsReduced` family by family (`AllFit`). For
the summaries, `DiscoveredIs` describes every root there may be, and `CompleteIs` shows that
an accepted one has each job at its own place.

*Assumptions.* They are those of the modules: finite sets of slots, jobs and agents, at
least one retry, block and session (`SlotsFinite`, `ChunkAssumption`, `StoreAssumption` and
others); job lists that share no job (`PlanAssumption` of `NodeSchedule`); a capacity that
the requested profiles fit in (`TrainingAssumption`); seeds below a million and mechanisms
that the design names (`SeedAssumption`, `MatrixAssumption`); lists made of the solvers of
the program; waves in which a job comes after the jobs it depends on, and once
(`WaveAssumption`: the runner is started when its dependencies are published, which
`NodeSchedule` shows); configurations that do not have the name of a solver
(`ConfigAssumption`); solvers that return a distribution over profiles of their game
(`SolverAssumption`); faults and requested reducers that exist (`FaultAssumption`,
`RequestAssumption`); sizes of the design that are positive, as `RevisionJobKey` demands
(`SizeAssumption`); amounts of the markets that are natural numbers of a common unit, with
workloads and due dates that are positive, as `MachiningOrder` demands and every configuration of
the aggregate market says (`ToyAssumption`, `RouteAssumption`, `MarketAssumption`). TLC evaluates each of them on the instance of a run.

Only model-checked: the liveness properties `Terminates`, `Completes`, `EndsWithResult`,
`PublishedIsServed`, `BudgetStops` and `WaveEnds` (the prover has no fairness and no
ENABLED). Every invariant and every action property of the passing runs is proved.

## 5. Not modelled

* Contents: a payload, a result or a measurement is a version or a set of profiles. That
  a deterministic simulation gives the same bytes when it is repeated is assumed, as the
  code assumes it; measured jobs are the exception and are modelled as such.
* Numbers: regret updates, confidence intervals, bootstrap samples, the bidding formulas and
  all metrics. Sparse searches may find anything a linear program can answer; policies may bid
  anything within their limits. The linear programs of the certificates are exact, over
  multiples of 1/`Grain`: floating point, the thresholds that cut a support (`1e-9` in
  `certified_kkt_cg.py`), its weights when all duals vanish (`certified_kkt_cg.py:96-101`; other
  weights are as good, as any give a bound), and the objectives of the second phase of
  `cg_cce.py` and the columns that enter for them are left out.
* The identity hashes in plans, records and markers, other than by whether they fit.
* Two hosts that run the same node at the same time. The deployment starts each node once.
* Sidecars other than the assignment checkpoint and the result: they follow the same path.
  The holdout audit of a CNC job has the checkpoint mechanism of its other stages.
* The upload caches are per job. In the code two slots share them, and one may insert while
  another rebuilds them (`worker.py:282`); a lost entry is harmless, since `upload_immutable`
  recognises its own object, and the error of an iteration over a dictionary that changes
  its size is the failure of a job like any other.
* Restarts that change the code or the manifest.
* SAD on complete games (`solvers/sad_cce.py`), which reads a table and shares nothing; the
  operator tools; exploratory scripts that call solvers in a row; the offline tools under
  `src/policy_cce_repro`, which read, check and plot a fixed data set and keep no state
  between two calls.

## 6. What could come next

1. A composition of `CampaignPlan` with `NodeSchedule`, in which the job lists are those the
   builder makes, family filter by family filter, to find the filters under which a node never
   has to wait for the dependency deadline.
2. The shared upload caches of two slots next to `ChunkStore`.

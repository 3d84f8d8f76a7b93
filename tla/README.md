# takeln: a specification of durable graph execution

takeln is a Rust runtime for agent workflows: nodes run one after another along
edges (`Graph::run`) or in parallel waves along dependencies (`Graph::run_dag`),
every step is saved as a checkpoint of its *thread*, and a node may *yield* an
interrupt that a human answers later, from another process, through
`Graph::resume_with_input`. This directory holds TLA+ models of that runtime,
the TLC configurations that check them and the TLAPS proofs about them. Paths
such as `graph.rs` are relative to `src/src/`.

## The system and its hazards

| Component | State it keeps | Operations | What must be right |
| --- | --- | --- | --- |
| Checkpoint store: `checkpoint.rs`, `checkpoint_meta.rs`, `store/memory.rs`, `store/sqlite.rs`, `store/postgres.rs` | per thread a sequence of rows: state, next node, status, yield request, claimed and resolved interrupt, DAG snapshot | `save_state`, `save_state_bound` (compares an expected head if the store overrides it), `current_head`, `load_state`, `claim_interrupt`, `load_version`, `list_checkpoints`, `delete_checkpoints` | an interrupt is claimed by one caller, once; a stale write is refused where promised |
| Sequential executor: `graph.rs` 1153-1715 | locals of one call: current node, step count, attempt, pending input, resolved interrupt, expected head | `run`, and inside it: step limit, gates (`interrupt_before`, `interrupt_after`), node call with retry and timeout, step, yield and gate checkpoints | every call returns; a step's checkpoint extends what the call has seen |
| Resumption: `graph.rs` 51-77, 1717-1984 | the loaded row, the claim | `resume`, `resume_with` (crash recovery policies), `resume_with_input` (re-entry, handoff), `revert_to_yielded` | an answer takes effect once; a failed answer can be given again; nobody else's work is lost |
| Wave executor: `graph.rs` 668-1148, 2068-2128 | the DAG's node statuses, the results of the wave | `run_dag`, `resume_dag` | a node runs after its dependencies, once; a restart continues where the snapshot says |
| DAG builder: `dag.rs` | entries, allowlist; nodes, dependencies, statuses | `allow_step_types`, `node`, `build` (Kahn's algorithm), `restore_statuses` | `build` accepts exactly the acyclic graphs |
| Retry delays, execution records, limits: `graph.rs`, `resource_limits.rs` | a bounded queue of records | `delay_for`, the eviction loop | bounds hold at zero and at the cap |
| Execution identity: `context.rs` | none | `NodeContext::execution_id` | the same across the retries of one execution |
| Dynamic nodes: `dynamic.rs` | none | `ChildRunner::run_child` | a child's yield fails the parent |
| Requests and schemas: `hitl.rs` | none | hashing, audit records, requests | (telemetry and data types) |
| Observers and text: `merge.rs`, `history.rs`, `metrics.rs`, `emitter.rs`, `safe_error.rs` | none | hooks for user code | (no influence on execution) |

The calls of one thread share nothing but the store. They are made by different
tasks or processes, at any time, and each of them suspends at every `await`: at
each store call, each node call, and each sleep between retries. What is hard is
what happens between two awaits of one call: a duplicate delivery of the same
answer, a recovery of a thread whose worker still lives, a write between a load
and the read of the head, a process that dies holding a claim, a step that fails
after an earlier one was saved. `PROJECT.json` lists these hazards at their
lines, with the properties that look for them.

## Modules

| Module | What it is |
| --- | --- |
| `Checkpoints` | the rows of one thread as the executor sees them, and what a store does with them |
| `ThreadRuns` | the sequential executor and resumption by any number of workers over one thread's store |
| `InterruptLifecycle` | the promise of the human-in-the-loop interface, without rows, calls or workers |
| `PostgresClaims` | `ThreadRuns` composed with PostgreSQL's claim, statement by statement |
| `NodeCalls` | `ThreadRuns` as the nodes see it: contexts, pauses, children, execution records |
| `WaveDag` | `run_dag`, `resume_dag` and the answer to a yielded wave, over one thread's latest checkpoint |
| `DagProgress` | what the checkpoints of a DAG run promise: a set of completed nodes |
| `DagBuilder` | `DAGBuilder::build` with Kahn's algorithm, one loop iteration per action |
| `StoreRows`, `MemoryStore`, `SqlStore` | every method of the stores over rows, ids and `created_at`: the common row, the in-memory list, the SQL table |
| `MCThreadRuns`, `MCPostgresClaims`, `MCNodeCalls`, `MCWaveDag`, `MCDagBuilder`, `MCSqlStore` | graphs, outcomes and entry lists for the runs |
| `ThreadRunsProofs`, `SingleWriterProofs`, `PostgresClaimsProofs`, `NodeCallsProofs`, `WaveDagProofs`, `DagCheckpointProofs`, `DagBuilderProofs`, `SqlStoreProofs` | the theorems, see below |

What composes what: `PostgresClaims` and `NodeCalls` EXTEND `ThreadRuns`, whose actions
they use unchanged and to whose state they add; `ThreadRuns` implements
`InterruptLifecycle`, `WaveDag` implements `DagProgress` and `SqlStore` implements
`MemoryStore`, each by an INSTANCE with a refinement mapping that a run checks.

### Checkpoints

A row keeps `status`, `next_node`, the three interrupt fields, and three fields
that stand for data. The workflow state of a row is abstracted to `basis`, the
number of the row whose state its writer computed from (0 for the state handed
to `run`); this is what tells a lost update from an honest one. `by` numbers the
call that wrote the row and `write` names the save in the code; the model never
branches on them, only properties look. Row ids are their numbers, and so is the
head: a store that does not override `current_head` answers `None` (0) always
(`HasHead = FALSE`: the built-in stores), one that does compares it with the
expected head inside `save_state_bound` (`HasHead = TRUE`: `HeadStore` of
`tests/checkpoint_proof_tests.rs`).

`claim_interrupt` of the in-memory and SQLite stores runs under one mutex or one
transaction and is one operator pair: `Claimable` (no row has resolved the
interrupt, the latest row is `Yielded` and asks for it) and `Claimed` (that row
becomes `Running`, in place). Every other answer changes nothing. PostgreSQL's claim is
not one step; it is in `PostgresClaims`.

### ThreadRuns

One action is one stretch of code between two awaits, so that other workers act
exactly where they can. `pc[w]` says at which await a worker is, `op[w]` holds
the locals of its call.

| Actions | Code (`graph.rs`) |
| --- | --- |
| `StartRun`, `StartResume`, `StartClaim` | entry of `run` (1153), `resume_with` up to `run_inner` (1739), a granted `claim_interrupt` (1840) |
| `LoadRejected`, `SchemaRejected`, `LoadClaimed` | `resume_with_input` after its `load_state` (1842-1950) |
| `ReadHead` | `run_inner` reads `current_head` (1200) |
| `StepLimit`, `ReachEnd`, `InterruptAtGate`, `NodeNotFound`, `EnterNode` | the loop head (1203-1280) |
| `NodeOk`, `NodeYields`, `NodeRetries`, `NodeFails` | the node call, its retry loop and its error arms (1281-1710) |
| `SaveStep`, `SaveYield`, `SaveGate`, `SaveConflict` | the three bound writes and their `Conflict` |
| `RevertHead`, `Revert`, `RevertConflict` | `revert_to_yielded` (51) |
| `Crash`, `StoreFails`, `AnswerLost` | the process dies; a store call fails without effect; it commits and reports an error |

A node call returns one of `Outcomes[node][got input]`. A timeout, a budget
overrun and a fatal error are one outcome, `fail`; a cancellation is a yield, as
in the code. A conditional edge may pick any of its targets at any time, since it
reads a state that the model does not keep. `SaveStep` includes the advance of
`expected_head` and the check of `interrupt_after`.

Not in the model: a resume that finds nothing, is refused by `FailFast` or is
denied its claim reads and returns, so it is no action. Metrics, events, spans,
and response hashes do not feed back into execution. Execution records, contexts and
pauses do not either, and are added by `NodeCalls`. The `?` of the checkpoint-size check
before each save has the effect of a failing save, and is part of `StoreFails`.

`Exclusive` is a discipline of the callers, not a lock in the code: with it,
`run` and `resume` start only when no call is in progress and
`resume_with_input` starts at any time except during a `run` or `resume`.

### InterruptLifecycle

The promise has two variables: what the thread waits for (`none`, `pending(i)`,
`claimed(i)`) and the set of resolved interrupts. It allows asking, claiming a
pending and unresolved interrupt, resolving a claimed one, and moving on.
`ThreadRuns` maps its latest row and the set of resolutions in its history onto
them; `LifecycleSpec` is the refinement, checked by TLC and proved.

### PostgresClaims

`store/postgres.rs` claims with three statements and no transaction around them: it
searches the history, reads the latest row, and updates the latest row if it is
`Yielded`. `claim[w]` holds the stage of a call inside `claim_interrupt`; the UPDATE is
two steps, because its subquery picks a row from the statement's snapshot and, under
READ COMMITTED, the row's status is tested again on the version that gets locked.

| Actions | Code (`store/postgres.rs`) |
| --- | --- |
| `Deliver` | `resume_with_input` is called (`graph.rs` 1829) |
| `SearchHistory`, `ReadLatest` | SELECT EXISTS (299), SELECT of the latest row and its checks (313) |
| `PickRow`, `Update`, `UpdateNothing` | the UPDATE: subquery, status test, rows affected (364-391) |
| `ClaimFails`, `ClaimAnswerLost` | a statement fails or the process dies; the UPDATE commits and its answer is lost |
| `StartOther`, `Works` | everything else of `ThreadRuns`, without its one-step claim |

### NodeCalls

`invoked` is the set of all `NodeContext`s that nodes were given. `execution_id` is a
hash of thread, node and last checkpoint; it is the pair of the last two here, so the
hash is taken to be free of collisions. `SaveWithId` sets `last_checkpoint_id` as
`run_inner` does after a step checkpoint, and every call begins with `None` (0). `Retry`
sleeps one of `Delays(attempt)`, which is `delay_for` over small widths (`U64Max`
stands for `u64::MAX`); `RunChild` is `ChildRunner::run_child`. Execution records come
from two places, each with an eviction loop of its own: `CallOk` pushes one with status
"success" for every node call that returns Ok (`graph.rs` 1459), and `resume_with_input`
pushes one with status "resumed" when its run has returned Ok (1990), after the last row
was saved or the end of the graph was reached (`Audit`, of `SaveWithId` and `Succeed`).
Each worker has a `Graph` of its own, whose records end with the process (`Die`); its
workers make no DAG calls, whose nodes push records too.

### StoreRows, MemoryStore, SqlStore

`MemoryStore` is the list of `store/memory.rs`: saves append, `load_state` is the last
element, and the claim looks at it. `SqlStore` is the table of `store/sqlite.rs`, and of
`store/postgres.rs` but for its claim: a save is stamped with `created_at` (`Stamp`)
before the row is there (`Insert`), and queries order by `created_at`, in any order where
stamps are equal. Between two stamps the clock moves by one of `Ticks`, which may be
negative: the host's clock may step back. Statuses go through text (`ParseStatus`). `load_version`,
`list_checkpoints` and the three retention policies of `delete_checkpoints` are actions
of both; `answer` is what the last call returned, so that the refinement `MemorySpec`
compares answers as well as rows. What retention leaves is `Picked`: the rows at the
positions kept, each at the place that its rank among them gives it.

### DagBuilder

`phase` says in which stage or loop `build` is: the allowlist, the resolution of names,
the filling of the queue, `while let Some(idx)`, and the loop over all nodes that
decrements in-degrees. An id is the position of the entry it was made for; `name_to_id`
keeps the last entry of a step type, as the `HashMap` does. In-degrees are `usize` (up
to `UsizeMax`), and a decrement of zero panics or wraps with the build profile
(`OverflowChecks`).

### WaveDag

The tasks of a wave are the concurrent actors: `task[n]` is what the task of node
`n` does (queued for a permit, running, or the result it has returned to the
`JoinSet`), and the call waits at `join_next`.

| Actions | Code (`graph.rs`) |
| --- | --- |
| `StartRun`, `StartResume`, `StartAnswer` | entry of `run_dag` (668), `resume_dag` up to `run_dag` (2068), the claim of `resume_with_input` on a yielded wave (1840) |
| `ReadHead`, `Deadlock`, `Finish`, `StopAtGate`, `LaunchWave`, `NodeNotFound` | `run_dag` up to the spawned tasks (700-823) |
| `Acquire`, `TaskRetries`, `TaskEnds` | the body of a task: semaphore, node call, retry loop (822-935) |
| `CollectOk`, `CollectYield`, `CollectFailure`, `FailFast`, `FailUnmarked` | the arms of the `join_next` loop (936-1044) |
| `PartialFailure`, `WaveYields`, `MergeWave`, `OverBudget` | the end of a wave (1046-1106) |
| `SaveGate`, `SaveYield`, `SaveWave` | the three bound writes (744, 1063, 1108), `interrupt_after` with the last |
| `AnswerNotFound`, `AnswerRuns`, `AnswerHandsOff` | `resume_with_input` once it holds the claim (1842-1984), each with all it writes |
| `Crash`, `SaveFails`, `AnswerLost` | the process dies; a store call fails or conflicts; it commits and reports an error |

The nodes are `1..N`, in the order of `dag.nodes`; `Registered` says for each DAG
which of its step types the graph knows. The workflow state is the
sequence of nodes whose outputs were merged into it, which tells a lost, a doubled
and a misplaced output apart. `status` is the caller's `DAG` value, mutated in place
by `run_dag` and left as it is by an error. Every node costs one unit of the budget.
A checkpoint keeps the snapshot, the state and the set of nodes that `next_node`
names; only the latest one matters to `resume_dag`.

The caller owns the `DAG` value and hands one to every call; neither `run_dag` nor
`resume_dag` resets it. `Given` says which values callers hand over:

* `"kept"`: a copy from before the run, all `Pending`, with the ids that were saved;
* `"left"`: the value as the last call left it, with nodes `Done`, `Yielded`, and after an
  error `Failed` and `Running`;
* `"rebuilt"`: the same DAG built again, say by the process that takes over after a crash.
  `add_node` and `build` give every node a fresh v4 UUID (`dag.rs` 59, 194).

`ids` numbers the builds, and a row remembers the build it was saved from. `Restored` is
`restore_statuses` (`dag.rs` 69-80), which looks up each node of the caller's value by its
UUID: with the same ids every node is found and takes the status saved, with others none
is and the caller's value stays as it is; after it `resume_dag` applies the crash recovery
policy. `stale` is history: the nodes that were `Running` or `Failed` in the value a run
began with.

`DagProgress` sees of a checkpoint the build of its DAG and the nodes that are `Done`
(`SavedDone`). Its promise: they could have been completed one after another in the order
of their dependencies, and they only grow, until the DAG is built again or an answer, whose
rows have no DAG, gives the progress up.

Abstractions: one call at a time works on the thread (what concurrent calls do to
each other is the subject of `ThreadRuns`); tasks that are aborted with the dropped
`JoinSet` disappear at once, while the code lets them run to their next await, where
they can change nothing of the workflow; a kept copy is given to `run_dag` only on a
thread without a checkpoint, since on another one it asks for every node again, and
`run_dag` starts from an empty state or the one saved last; a DAG value has all the ids
of the snapshot or none of them (a caller may also add nodes to a value it has kept);
graphs whose steps are DAG nodes have no edges, so a resumed sequential executor stops
after its first node.

## Runs

The runs of `ThreadRuns` and `PostgresClaims` have two nodes, two interrupts and two
workers: the hazards are between two calls, and with two workers one may be at any await
while the other starts, finishes and starts again. `MaxOps` bounds the calls begun in a
behaviour and `MaxFaults` the crashes and store errors. Because of `MaxOps` every finite
behaviour ends, so the runs do not check for deadlock; that no call hangs is
`CallsReturn`. Workers are interchangeable, so the safety runs use symmetry. The shortest
counterexamples found need two or three calls and at most one fault, which the bounds
of the passing runs exceed.

| Run | Checks | Shows |
| --- | --- | --- |
| `duplicate_deliveries` | `TypeOK`, `SingleWorker`, `NothingOverwritten`, `ResolvedOnce`, `LifecycleSpec` | with the discipline, on a store without a head, 5 calls, 2 faults, a looping graph with a gate, re-entry and handoff: the claim alone keeps duplicates out, and the promise is kept |
| `head_store` | `RunsContiguous` | callers without discipline, lost answers, unknown targets, `interrupt_after`, dynamic nodes, schemas, on a store that compares heads: no call writes behind another one's row |
| `calls_return` | `RowsPerCallBounded`, `InProgressIsActive`, `CallsReturn` | on a looping graph, with retries, conflicts and rollbacks, every call returns and writes at most `max_sequential_steps` rows and a rollback; without faults, schemas and handoffs no claim outlives its call |
| `postgres_claims` | `PostgresTypeOK`, `SingleWorker`, `NothingOverwritten`, `RowClaimedOnce` | the setting of `duplicate_deliveries` with claims that interleave statement by statement |
| `node_calls` | `NodeCallsTypeOK`, `KeysNameSteps`, `InputReachesFirstAttempt`, `PauseInRange`, `RecordsAreTheLast` | what nodes are given, over loops, retries, children, a crash and a resume, and the records of node calls and answers |
| `rollback_unclaimable`, `key_changes_on_resume` | one property each, violated | findings 1 and 3 |

`postgres_claims` has no lost answers of bound writes: on a store without a head a yield
that commits with a lost answer is rolled back by its call while another worker claims
it, whatever the claim does. A lost answer of the UPDATE itself is included.
`node_calls` has one worker, since contexts and records belong to one call or process.
With a base delay of 10, a cap of 16 and three attempts, one backoff is below the cap and
one is cut by it; a ring of two records overflows at the third of three steps, and at the
record of an answer that ran two; two children follow one dynamic call.

`dag_all_graphs` covers all 512 dependency relations on three nodes, cycles and
self-loops included, so every shape of wave up to width three and depth three, for callers
who keep a copy of the DAG. Four calls leave room for a run, two restarts and an answer,
and two faults for a failed save and a crash. `dag_outcomes` adds the DAG values that
multiply its states, and has eight relations (`Shapes`: chains against and along the index
order, a fork, joins, all dependencies there can be, a cycle behind a node), three calls
and one fault: a run that fails, a restart with what it left or with the DAG built again,
and a third call that sees what that one saved. The theorems about its properties hold for
every relation and any number of calls and faults. Nodes are ordered, so there is no
symmetry.

| Run | Checks | Shows |
| --- | --- | --- |
| `dag_all_graphs` | `TypeOK`, `InputsComplete`, `SavedOutputs`, `MergeOrder`, `FinishedIsComplete`, `DeadlockIsReal` | without yields, with a kept copy of the DAG, under `FailFast`, with gates, faults and restarts: outputs are saved once, in an order that only the DAG decides, and the verdicts are right |
| `dag_outcomes` | `DependenciesFirst`, `BudgetPerCall`, `SnapshotSettled`, `CheckpointedNotRerun`, `DagCallsReturn`, `ProgressSpec` | every outcome, yields and their answers, `ContinueOnError`, budget overruns, retries, an unknown step type, whatever DAG value is handed over: a wave is never saved with one of its own nodes unsettled, a saved node runs again only in a DAG built again; with a concurrency limit of zero every call still returns, and `DagProgress` is implemented |
| `yield_drops_outputs` | `SavedOutputs`, violated | finding 2 |
| `dag_builder` | `TypeOK`, `AcceptedIsSound`, `ReportedCycleIsReal`, `NoUnderflow`, `BuildReturns` | every list of three entries with up to two dependencies each (unknown, repeated and own names included), some with three, and lists that share a step type, with and without an allowlist |
| `sql_store` | `TypeOK`, `MemorySpec`, `HeadSurvivesKeepLast`, `RegrantedOnlyAfterRetention` | every method, in any order, with every row contents: one saver at a time and a clock that advances between saves make the table answer as the list does |

`dag_all_graphs` has no yields on purpose: finding 2 is what `SavedOutputs` says once a
node may yield. It has two permits, `dag_outcomes` one. In `sql_store` cutoffs of
`OlderThan` go one tick beyond the clock and `KeepLast` keeps none, one or two rows.

**Fairness.** In `ThreadRuns`, `FairSpec` assumes weak fairness of each worker's `Step`: the
async runtime polls every task whose future is ready, a store call answers, and a
node call returns. The last is an assumption on user code, which a timeout gives
for regular nodes. Nothing is assumed of `Start` (callers need not call) or of
the faults. In `WaveDag`, `FairSpec` assumes weak fairness of the call (`CallStep`) and
of each task (`TaskStep(n)`): they are separate tokio tasks, tokio's semaphore serves
waiters in order, and a wave is finite, so a queued task cannot be passed for ever.
In `DagBuilder`, `build` is one synchronous call, so weak fairness of its next step.

## Findings

1. `rollback_unclaimable`: a resume that fails after its first saved step rolls
   back to `Yielded`, but that step already carries the resolution, so the next
   answer is taken for a duplicate (`AlreadyCompleted`) and the thread cannot be
   answered any more.
2. `yield_drops_outputs`: when a node of a wave yields, the state from before the wave is
   saved with a DAG in which the finished siblings are `Done`; their outputs are lost.
3. `key_changes_on_resume`: `last_checkpoint_id` begins as `None` in every call
   (`graph.rs:1196`), so a step that a resume executes again gets another `execution_id`
   than it had before the crash, while `context.rs:44` offers it for idempotency keys
   "that must survive crash/resume".

The models also contain these behaviours, for which no run is kept.

Of one call:

* An input that the schema refuses returns with `?` after the claim (`graph.rs:1879`,
  `SchemaRejected`); the row stays `Running` and later answers get `InProgress` for ever.
* A handoff from a node without an edge ends at `__END__` with no write, so the claim
  is neither resolved nor given back (`LoadClaimed`, `ReachEnd`). For these two reasons
  `InProgressIsActive` is checked without schemas and handoffs.
* `interrupt_before` is skipped at the first step of every call (`graph.rs:1227`), also
  when a handoff starts at a node where the thread never stopped (`AtGate`).
* `SkipAndContinue` executes the node it should skip when that node has no outgoing
  edge (`RestartAt`).
* Only the first attempt of a re-entered node sees the input (`Taken`, `NodeRetries`).
* All children of one dynamic call share one `execution_id`, and the first steps of two
  resumes share the one seeded with "initial" (`ContextOf`).
* Jitter is plus or minus an eighth of the capped delay, added after the cap
  (`Delays`), where the comment at `graph.rs:88` says a quarter; a delay may exceed
  `max_delay_ms`.
* The step limit is tested before `__END__` (`graph.rs:1205`): a run of exactly
  `max_sequential_steps` nodes saves them all and then returns `StepLimitExceeded`
  (`StepLimit`).
* With `max_execution_records = 0` the eviction loops (`graph.rs` 1474, 2006) never end;
  `LimitAssumption` excludes it.

Of several calls:

* `resume` loads the row before it reads the head (`graph.rs:1749`); a row written in
  between is the expected head of a run that computes from the older state, so a
  head-comparing store accepts the lost update (`StartResume`, `ReadHead`).
* The UPDATE of PostgreSQL's claim does not look at the interrupt the row asks for
  (`postgres.rs:365`): when the thread moves on between its statements, a late delivery
  claims a row that asks for something else. `resume_with_input` finds the mismatch and
  returns an error, with the row left `Running` (`LoadRejected`); and if the row asks for
  the same interrupt again, the late answer takes effect although the history has one
  already, so that `ResolvedOnce` fails. `checkpoint.rs:151` calls the claim atomic.
* Two savers on one thread, stamps that are equal, or a clock that steps back make
  `load_state` of the SQL stores return another row than the one inserted last.
* `KeepLast` and `OlderThan` may delete the row that records a resolution; the interrupt
  can then be granted again. `RegrantedOnlyAfterRetention` says that nothing else does it.

Of a DAG:

* Of a DAG built again, say after a crash, `resume_dag` restores nothing: the fresh UUIDs
  match none in the snapshot (`dag.rs:75`), and nothing reports it. All nodes start
  `Pending` on the state that was saved, so saved nodes are called again, their outputs are
  merged a second time, and the next snapshot has lost their completions (`Restored`).
  `README.md:94` of the repository says that `resume_dag` aligns node statuses
  automatically, and its example shows `&mut dag` without saying where it comes from: it
  must be a value with the saved ids. `CheckpointedNotRerun` and `DagProgress` are stated
  up to this.
* `run_dag` resets nothing (`graph.rs:700`). Called again with the DAG that a failed call
  left, it never calls the nodes that are `Failed` or `Running` in it, and saves them as
  such with its next wave; it returns `Ok` without them, or `DAGDeadlock` when others depend
  on them (`StartRun` with "left"). Nodes that were `Done` in a wave that failed or could
  not be saved stay `Done`, with outputs that no state has. `FinishedIsComplete`,
  `DeadlockIsReal`, `SavedOutputs`, `InputsComplete` and `MergeOrder` are about kept copies.
  What does hold is that the new run adds no such node of its own (`SnapshotSettled`).
* If such a snapshot is claimed by an answer and its process dies, `SkipAndContinue` marks
  the left-over `Running` node `Done` without it ever having finished (`Restored`).
* A restored `Yielded` node is never called again (`graph.rs:715`, 2102); `resume_dag`
  returns `Ok` without it, or `DAGDeadlock` when others depend on it.
* `running_cost_eur` starts from zero in every call (`graph.rs:699`), though the cap is
  documented as per thread (`:396`); `BudgetPerCall` is what holds.
* A DAG run that ends between a wave's checkpoint and the gate's lets the next
  one through the gate (`AtGate` of `WaveDag`).
* `resume_with_input` of a yielded wave writes checkpoints without a DAG, its rollback
  included; `resume_dag` then answers `None` (`RolledBack`, `AnswerRuns`; `Abandon` of
  `DagProgress`).
* `PartialWaveFailure` returns before the wave is merged or saved (`PartialFailure`),
  while `ARCHITECTURE.md:90` saves first.
* A dependency that is listed twice counts twice in the in-degree but is decremented
  once (`dag.rs:217`), so `build` reports a cycle where there is none.
* Entries with the same step type share the id of the last; an in-degree may then be
  decremented below zero, which panics in a debug build and wraps in a release build.

## Proofs

All theorems hold for every graph, number of workers, bound and setting that the
named assumptions of the modules allow.

* `ThreadRunsProofs!TypeCorrect`. `TypeOK` is not inductive: a save needs that the
  worker's node is a registered one, a rollback that the row number it remembers
  exists and asks for an interrupt. `TypeInv` adds `RowsOK` (a row that asks for
  input was yielded by a node; only such a row is `Yielded` or `Running`) and
  `WorkersOK` (the locals mean what each `pc` takes them for).
* `SingleWriterProofs`: `OneWorkerAtATime`, `NothingIsOverwritten`,
  `InterruptsResolveOnce` and `KeepsTheLifecycle`, assuming `Exclusive` and that
  answers do not get lost. The invariant `AloneInv` says why a claim excludes:
  while a call works, the latest row is not one that could be claimed
  (`WorkerAlone`), the call computes from the latest row, all rows since its claim
  are its own, and the interrupt it resolves is claimed on the latest row or already
  resolved by it; and every claim that is left on a row is unresolved
  (`ClaimsOpen`), which recovery by `resume` relies on. Crashes and failing
  store calls are included. Both assumptions are needed: without the first a `resume`
  writes over rows it has not seen (the lost update under Findings); without the second a
  yield that commits with a lost answer is rolled back while another worker claims it.
* Also in `ThreadRunsProofs`, for callers who keep no discipline at all:
  * `CallsStayTogether`, assuming only `HasHead`. The invariant `HeadInv` adds to
    `RunsContiguous` that the head a call expects is never ahead of the store, and that
    when it is the store's head, the call's rows end there (`KnowsItsRows`); and that
    calls are numbered apart (`Numbered`).
  * `CallsWriteBoundedly`, on any store and with every fault. `CountsOK` accounts for
    the rows under a call's number by its `steps`, with room for the one that the call
    is about to write (`WithinSteps`), a rollback included.
  * `InProgressMeansActive`, assuming that no schema refuses a claimed answer and that no
    handoff goes straight to the end (`NoHandoffToEnd`): the two ways, described under
    Findings, in which the code drops a claim. Nothing is assumed of the callers.
    `ActiveInv` says who holds the claim of a latest row in status `Running`: the call that
    has just been granted it, or one whose loaded row is still the latest (`HoldsClaim`);
    and that such a call expects the head it will find, so that it does not give up on a
    conflict, rollback included (`AtLatest`).
* `PostgresClaimsProofs`: `PostgresTypeCorrect` and `RowsAreClaimedOnce` for any callers,
  `OneWorkerOnPostgres` and `NothingIsOverwrittenOnPostgres` under the assumptions of
  `SingleWriterProofs`. `RowsAreClaimedOnce` rests on `MarkedRows` (a row that carries a
  claim is not `Yielded`), which makes the second test of the status enough. The claim
  is not atomic, so `AloneInv` cannot say that no other delivery holds a pick; it says
  that of the rows picked by pending UPDATEs only the latest may still be `Yielded`
  (`PicksAreLatest`), that claims are pending only beside other claims
  (`ClaimsAmongClaims`), and that while a claiming call works the latest row is not
  `Yielded` (`Undisturbed`). `ResolvedOnce` is not among them: it fails on PostgreSQL.
* `NodeCallsProofs`: `PausesKeepToTheBackoff` for every retry policy and integer width,
  `ExecutionIdsNameSteps` and `InputIsGivenOnce` for every graph, `TheRingHoldsTheNewest`
  for every positive limit, and `NodeCallsTypeCorrect`. `KeysInv` says that all
  invocations of a running call were given either the state it began with and no
  checkpoint, or the state and the id of one of the rows that this call has written. On it
  rests `InputsInv`: a call that still holds an input at the loop head has invoked nothing,
  and one that saves a step has none left. The ring is proved by positions: it is an end
  of the history (`RingsOK`), and each eviction loop keeps ends ends, before the record of
  a node call as before that of an answer. The types need that a
  retry stays within `max_attempts` (`NextAttempt`) and a delay within its width
  (`DelaysFit`).
* `WaveDagProofs`, for every dependency relation, cyclic ones included, every outcome
  of the nodes and every setting. The inductive invariant `DagInv` relates statuses,
  tasks and snapshot and needs neither the state nor the results: inside a wave the
  `Running` nodes that are not `stale` are exactly those with a task (`TasksInStep`), and
  nothing stale is ever in a wave (`StaleApart`), so that a collected wave without a
  failure leaves every node settled but what was handed over unsettled
  (`SettledBetweenWaves`) and no wave adds unsettled nodes to a snapshot; dependencies are
  `Done` before a node leaves `Pending` (`Closed`, of the statuses and of the snapshot,
  which is what a restart with the same ids continues from; a DAG built again is all
  `Pending`); and a run whose DAG has the ids of the latest checkpoint knows its
  completions (`SavedIsKnown`). From it `DependenciesComeFirst`, `SnapshotsAreSettled` and
  `CheckpointedIsNotRerun`, for any DAG values. Assuming that no node yields (`NoYields`)
  and no caller hands over what a failed call left, nothing is stale, also not in a
  snapshot (`NothingLeftOver`), and a node is only ever `Pending` or `Done` where the
  verdict falls, which gives `FinishedRunsAreComplete` and `DeadlocksAreReal`: the witness
  of the cycle is the set of pending nodes. Without the first assumption a yielded node is
  called by no resume, without the second a failed one by no run.
* `DagCheckpointProofs`, of what the checkpoints of a DAG hold. `KeepsProgress`: `WaveDag`
  implements `DagProgress`, with yields, every fault and any DAG value. That completions do
  not shrink within a build is `SavedIsKnown`; that they could have been completed in order
  is `ProgressInv`: no nodes that are `Done` wait for one another, in the statuses as in
  the snapshot (`Grounded`, `NoCircle`), because a wave starts only nodes whose
  dependencies are `Done`. `DagTypesHold` and `SavedWithinBudget` are of every behaviour
  too: `Affordable` counts the outputs that a call adds against what it has spent,
  and the saved ones against one budget for each earlier call.
  `SnapshotsMatchState`, `InputsAreComplete` and `MergesInOrder` assume `NoYields` and
  kept copies of the DAG, as their runs do. `StoryInv` tells how a state came about: the
  saved state is a sequence of whole waves and holds exactly the outputs of the nodes that the snapshot has as `Done`
  (`SavedStory`); between waves the same is true of the call's state and statuses
  (`MergedAreDone`); inside one the wave is the front of the nodes merged so far, and what
  else is `Done` are its results (`WaveStory`). Sorting a wave's results is by a lemma
  (`SortExists`): the rank of a result, the number of results up to it, is its place.
* `DagBuilderProofs`, for lists of any length: `BuilderTypeCorrect`,
  `AcceptedDagsAreSound`, `ReportedCyclesAreReal` and `DegreesNeverUnderflow`. `KahnInv`
  says that an in-degree counts the listed dependencies that are not popped yet, but for
  those the running loop has still to reach (`Counts`), that the queue holds exactly the
  unpopped nodes whose in-degree is zero (`QueueIsReady`), and that no cycle lies among
  the popped nodes (`PoppedAcyclic`); the cycle behind a refusal is the set of nodes
  never popped.

* `SqlStoreProofs`. For any savers and any clock, equal stamps and steps back included:
  `StoreTypeCorrect` (ids are given in the order of insertion, so they stay unique,
  `IdsBelow`), `RetentionKeepsTheHead` (the rows that `KeepLast` keeps hold a newest row of
  all) and `GrantsAreForgotten`, whose invariant `Remembered` says that a resolution is in
  the table until a deletion records its loss. `TablesAnswerAsTheList`: the table
  implements `MemoryStore`, assuming one saver at a time (`OneSaver`) and a clock that
  advances from save to save by any amount (`ClockAdvances`, which also says that the
  bound `MaxTime` covers the cutoffs). `InOrder` says that the stamps increase along the
  table and that the row that waits is newer than all of it; then the row that
  `ORDER BY created_at DESC LIMIT 1` answers is the last (`NewestIsLast`), the rows kept are
  a suffix (`NewestRowsAreLast`, `PickedSuffix`), and the only order to list them in is
  their own, since an order preserving map of `1..n` into itself moves nothing
  (`OrderPreserved`). Both assumptions are needed: without them `load_state` answers
  another row than the one inserted last (Findings).

Only model-checked: liveness (`CallsReturn`, `DagCallsReturn`, `BuildReturns`), which the
proof system does not reach, and the violated properties (`SavedOutputs` is a theorem only
without yields, the other two not at all). Every other property of a passing run is a
theorem for all values of the constants; an assumption that its run satisfies by
configuration is named above.

## Plan

Done, in this order: `Checkpoints`, `ThreadRuns`, `InterruptLifecycle`; `WaveDag`;
`DagBuilder`; `PostgresClaims`; `StoreRows`, `MemoryStore`, `SqlStore`; `NodeCalls`;
`DagProgress`; and their proofs.

Left: two callers on one DAG thread (`WaveDag` has one call at a time); and a proof that
the claim of the in-memory and SQLite stores, as `Checkpoints` has it, is what
`MemoryStore` answers, so that the two views of a store are one.

The project keeps to a dozen runs: the runs of a new module took the place of violated
ones, whose behaviours stay described under the findings.

## Not modelled

Merging of states, hashing, formatting, metrics, events and the graph setters are
data or telemetry without influence on control. Opening and migrating a database is pure
I/O. Checks that refuse a call before it changes anything (checkpoint size, input depth,
number of nodes) only shorten behaviours. `PROJECT.json` gives the reason for each
component.

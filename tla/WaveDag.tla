------------------------------ MODULE WaveDag ------------------------------
(***************************************************************************)
(* Wave-parallel execution of a DAG: Graph::run_dag and Graph::resume_dag, *)
(* one call after another over one thread's latest checkpoint, with the    *)
(* tasks of a wave running concurrently, and resume_with_input of a wave   *)
(* that yielded.  One action is one stretch of code between two awaits, of *)
(* the call or of one task.                                                *)
(*                                                                         *)
(* The program counter `pc`:                                               *)
(*   "idle"    no call in progress                                         *)
(*   "head"    run_dag is about to read current_head                       *)
(*   "loop"    at the top of run_dag's loop                                *)
(*   "wave"    waiting at join_next                                        *)
(*   "saveGate" | "saveYield" | "saveWave"   a bound write is pending      *)
(*   "answer"  resume_with_input holds the claim on a yielded wave         *)
(*                                                                         *)
(* The workflow state is the sequence of nodes whose outputs were merged   *)
(* into it, in merge order.                                                *)
(*                                                                         *)
(* The caller owns the DAG value and hands it to every call: see Given.    *)
(***************************************************************************)
EXTENDS Integers, Sequences, FiniteSets, Functions

CONSTANTS
  N,                  \* the nodes are 1..N, in the order of dag.nodes
  Graphs,             \* the dependency functions to start with
  Outcomes,           \* Nodes -> what a call of the node may return
  Registered,         \* DAG -> the nodes whose step type the graph knows
  InterruptBefore, InterruptAfter,
  FailurePolicy,      \* WaveFailurePolicy
  Policy,             \* CrashRecoveryPolicy
  MaxConcurrent,      \* resource_limits.max_concurrent_nodes
  MaxAttempts,        \* retry_policy.max_attempts
  Budget,             \* budget_eur, every node costing 1
  Given,              \* the DAG values that callers hand over:
                      \*   "kept"     a copy from before the run, all Pending
                      \*   "left"     the value as the last call left it
                      \*   "rebuilt"  the same DAG built again, with fresh ids
  MaxCalls,           \* bound: calls in a behaviour
  MaxFaults           \* bound: crashes and failed saves in a behaviour

Nodes == 1..N

\* "overspent": Ok, but over the node's own budget.  "panic": the task dies.
OutcomeKinds ==
  {"ok", "overspent", "yield", "retryable", "fatal", "budget", "panic"}

ASSUME DagAssumption ==
  /\ N \in Nat \ {0}
  /\ Graphs \subseteq [Nodes -> SUBSET Nodes]
  /\ Outcomes \in [Nodes -> SUBSET OutcomeKinds]
  /\ Registered \in [Graphs -> SUBSET Nodes]
  /\ InterruptBefore \subseteq Nodes
  /\ InterruptAfter \subseteq Nodes
ASSUME DagSettingsAssumption ==
  /\ FailurePolicy \in {"FailFast", "ContinueOnError"}
  /\ Policy \in {"ResetToPending", "FailFast", "SkipAndContinue"}
  /\ MaxConcurrent \in Nat
  /\ MaxAttempts \in Nat
  /\ Budget \in Nat
  /\ Given \subseteq {"kept", "left", "rebuilt"}
  /\ MaxCalls \in Nat
  /\ MaxFaults \in Nat

VARIABLES
  deps,       \* Nodes -> depends_on; fixed once chosen
  status,     \* the caller's DAG value: Nodes -> NodeStatus
  ids,        \* which build of the DAG it is: the UUIDs of its nodes
  stale,      \* history: the nodes Running or Failed in it when the run began
  row,        \* the thread's latest checkpoint
  pc,
  state,      \* the state of the call
  wave,       \* ready: the nodes of the current wave
  results,    \* wave_states: finished nodes of the wave, in arrival order
  first,      \* is_first_wave
  spent,      \* running_cost_eur
  task,       \* Nodes -> what its task is doing, or has returned
  attempt,    \* Nodes -> attempt of its task
  answer,     \* how the last call ended
  calls, faults

locals == <<state, wave, results, first, spent, task, attempt>>
given == <<ids, stale>>
vars == <<deps, status, given, row, pc, locals, answer, calls, faults>>

NodeStatus == {"Pending", "Running", "Done", "Failed", "Yielded"}
Results == {"ok", "overspent", "yield", "fatal", "budget", "panic"}
Answers == {"none", "finished", "interrupted", "yielded", "deadlock", "partial",
            "error", "crashed", "answered"}
RowStatus == {"None", "Complete", "Running", "Yielded", "Interrupted"}

\* A checkpoint: `next` are the nodes that next_node names, joined by commas, and
\* `ids` is the build of its DAG.
NoDag == <<>>
WithoutDag(kind, merged, next) ==
  [status |-> kind, dag |-> NoDag, ids |-> 0, state |-> merged, next |-> next]
NoRow == WithoutDag("None", <<>>, {})

TypeOK ==
  /\ deps \in Graphs
  /\ status \in [Nodes -> NodeStatus]
  /\ ids \in Nat \ {0}
  /\ stale \subseteq Nodes
  /\ row \in [status : RowStatus,
              dag    : [Nodes -> NodeStatus] \cup {NoDag},
              ids    : Nat,
              state  : Seq(Nodes),
              next   : SUBSET Nodes]
  /\ pc \in {"idle", "head", "loop", "wave", "saveGate", "saveYield",
             "saveWave", "answer"}
  /\ state \in Seq(Nodes)
  /\ wave \subseteq Nodes
  /\ results \in Seq(Nodes)
  /\ first \in BOOLEAN
  /\ spent \in Nat
  /\ task \in [Nodes -> {"none", "queued", "running"} \cup Results]
  /\ attempt \in [Nodes -> Nat]
  /\ answer \in Answers
  /\ calls \in Nat
  /\ faults \in Nat

AllPending == [n \in Nodes |-> "Pending"]
NoTasks == [n \in Nodes |-> "none"]
NoAttempts == [n \in Nodes |-> 0]

\* The locals of a call as it begins, holding the state `merged`.
Fresh(merged) == /\ state' = merged
                 /\ wave' = {}
                 /\ results' = <<>>
                 /\ first' = TRUE
                 /\ spent' = 0
                 /\ task' = NoTasks
                 /\ attempt' = NoAttempts

Init == /\ deps \in Graphs
        /\ status = AllPending
        /\ ids = 1
        /\ stale = {}
        /\ row = NoRow
        /\ pc = "idle"
        /\ state = <<>> /\ wave = {} /\ results = <<>>
        /\ first = TRUE /\ spent = 0
        /\ task = NoTasks /\ attempt = NoAttempts
        /\ answer = "none"
        /\ calls = 0
        /\ faults = 0

-----------------------------------------------------------------------------
(* The entry points. *)

Begin(to) == /\ pc = "idle"
             /\ calls < MaxCalls
             /\ calls' = calls + 1
             /\ pc' = to
             /\ answer' = "none"
             /\ UNCHANGED <<deps, faults>>

GivenStatus(how) == IF how = "left" THEN status ELSE AllPending
GivenIds(how) == IF how = "rebuilt" THEN ids + 1 ELSE ids

Unsettled(dag) == {n \in Nodes : dag[n] \in {"Running", "Failed"}}

\* run_dag takes the caller's DAG and state as they are.  It is the callers'
\* discipline to give it a kept copy on a thread without checkpoints only: to start
\* over from the copy of a DAG that has been saved is to ask for all nodes again.
StartRun == \E how \in Given :
  /\ how = "kept" => row = NoRow
  /\ Begin("head")
  /\ status' = GivenStatus(how)
  /\ ids' = GivenIds(how)
  /\ stale' = Unsettled(status')
  /\ \E merged \in {<<>>, row.state} : Fresh(merged)
  /\ UNCHANGED row

\* Fault: the snapshot is ignored.
ForgottenSnapshot(saved, dag, id) == dag

\* restore_statuses matches nodes by their ids, all or none of which the snapshot
\* has, and the crash recovery policy looks at the nodes then found Running.
Restored(saved, dag, id) ==
  LET found == IF saved.ids = id THEN saved.dag ELSE dag
  IN [n \in Nodes |->
        IF saved.status = "Running" /\ found[n] = "Running"
        THEN CASE Policy = "ResetToPending" -> "Pending"
               [] Policy = "SkipAndContinue" -> "Done"
               [] OTHER -> "Running"
        ELSE found[n]]

\* resume_dag.  Without a snapshot it answers None, and under FailFast it refuses
\* a row in status Running; both change nothing.
StartResume == \E how \in Given :
  /\ row.dag # NoDag
  /\ row.status = "Running" => Policy # "FailFast"
  /\ Begin("head")
  /\ status' = Restored(row, GivenStatus(how), GivenIds(how))
  /\ ids' = GivenIds(how)
  /\ stale' = Unsettled(status')
  /\ Fresh(row.state)
  /\ UNCHANGED row

\* resume_with_input: the claim of the interrupt that a wave yielded.
StartAnswer == /\ row.status = "Yielded"
               /\ Begin("answer")
               /\ row' = [row EXCEPT !.status = "Running"]
               /\ UNCHANGED <<status, given, locals>>

-----------------------------------------------------------------------------
(* Returning.  The JoinSet is dropped with the call, which aborts its tasks. *)

Quit(how) == /\ pc' = "idle"
             /\ answer' = how
             /\ Fresh(<<>>)
             /\ UNCHANGED <<deps, given, calls>>

Return(how) == Quit(how) /\ UNCHANGED faults

\* Going on within a call; each action says what it changes of the rest.
Goto(to) == /\ pc' = to
            /\ UNCHANGED <<deps, given, answer, calls, faults>>

-----------------------------------------------------------------------------
(* run_dag's loop, up to the launch of a wave. *)

ReadHead == /\ pc = "head"
            /\ Goto("loop")
            /\ UNCHANGED <<status, row, locals>>

Having(dag, kind) == {n \in Nodes : dag[n] = kind}
Done == Having(status, "Done")
Pending == Having(status, "Pending")

\* Fault: dependencies are not looked at.
AllPendingReady == Pending

Ready == {n \in Pending : deps[n] \subseteq Done}

Deadlock == /\ pc = "loop"
            /\ Ready = {} /\ Pending # {}
            /\ Return("deadlock")
            /\ UNCHANGED <<status, row>>

\* Fault: nodes still pending are not noticed.
FinishAnyway == /\ pc = "loop"
                /\ Ready = {}
                /\ Return("finished")
                /\ UNCHANGED <<status, row>>

Finish == /\ pc = "loop"
          /\ Ready = {} /\ Pending = {}
          /\ Return("finished")
          /\ UNCHANGED <<status, row>>

AtGate == ~first /\ Ready \cap InterruptBefore # {}

StopAtGate == /\ pc = "loop"
              /\ AtGate
              /\ Goto("saveGate")
              /\ UNCHANGED <<status, row, locals>>

\* The nodes are marked Running before their step types are looked up.
MarkRunning == status' = [n \in Nodes |-> IF n \in Ready THEN "Running" ELSE status[n]]

LaunchWave == /\ pc = "loop"
              /\ Ready # {} /\ ~AtGate
              /\ Ready \subseteq Registered[deps]
              /\ Goto("wave")
              /\ MarkRunning
              /\ wave' = Ready
              /\ task' = [n \in Nodes |-> IF n \in Ready THEN "queued" ELSE "none"]
              /\ attempt' = NoAttempts
              /\ results' = <<>>
              /\ first' = FALSE
              /\ UNCHANGED <<row, state, spent>>

NodeNotFound == /\ pc = "loop"
                /\ Ready # {} /\ ~AtGate
                /\ ~(Ready \subseteq Registered[deps])
                /\ Return("error")
                /\ MarkRunning
                /\ UNCHANGED row

-----------------------------------------------------------------------------
(* The tasks of a wave. *)

\* Fault: a limit of zero is taken as it is.
UnclampedPermits == MaxConcurrent

Permits == IF MaxConcurrent = 0 THEN 1 ELSE MaxConcurrent

TaskOnly == UNCHANGED <<deps, status, given, row, pc, state, wave, results, first, spent,
                        answer, calls, faults>>

\* A task waits for a permit of the semaphore and keeps it over its retries.
Acquire(n) == /\ task[n] = "queued"
              /\ Cardinality({m \in Nodes : task[m] = "running"}) < Permits
              /\ task' = [task EXCEPT ![n] = "running"]
              /\ UNCHANGED attempt
              /\ TaskOnly

TaskRetries(n) == /\ task[n] = "running"
                  /\ "retryable" \in Outcomes[n]
                  /\ attempt[n] + 1 < MaxAttempts
                  /\ attempt' = [attempt EXCEPT ![n] = @ + 1]
                  /\ UNCHANGED task
                  /\ TaskOnly

\* What a call may return for good: the last attempt's retryable error is as
\* fatal as any.
Final(n) == (Outcomes[n] \cap Results) \cup
            (IF "retryable" \in Outcomes[n] /\ attempt[n] + 1 >= MaxAttempts
             THEN {"fatal"} ELSE {})

TaskEnds(n) == /\ task[n] = "running"
               /\ \E out \in Final(n) : task' = [task EXCEPT ![n] = out]
               /\ UNCHANGED attempt
               /\ TaskOnly

-----------------------------------------------------------------------------
(* join_next: results are collected as they arrive. *)

Taken(n) == /\ task' = [task EXCEPT ![n] = "none"]
            /\ UNCHANGED <<row, state, wave, first, spent, attempt>>

Mark(n, kind) == status' = [status EXCEPT ![n] = kind]

\* Fault: the node is not marked.
CollectUnmarked(n) == /\ pc = "wave" /\ task[n] = "ok"
                      /\ Goto("wave")
                      /\ results' = Append(results, n)
                      /\ Taken(n)
                      /\ UNCHANGED status

CollectOk(n) == /\ pc = "wave" /\ task[n] = "ok"
                /\ Goto("wave")
                /\ Mark(n, "Done")
                /\ results' = Append(results, n)
                /\ Taken(n)

CollectYield(n) == /\ pc = "wave" /\ task[n] = "yield"
                   /\ Goto("wave")
                   /\ Mark(n, "Yielded")
                   /\ Taken(n)
                   /\ UNCHANGED results

\* A failure among siblings that are waited for.
CollectFailure(n) == /\ pc = "wave" /\ task[n] = "fatal"
                     /\ FailurePolicy = "ContinueOnError"
                     /\ Goto("wave")
                     /\ Mark(n, "Failed")
                     /\ Taken(n)
                     /\ UNCHANGED results

\* Fault: the node's result is taken for its status.
FailAsReturned(n) == /\ pc = "wave"
                     /\ task[n] \in {"fatal", "budget"}
                     /\ Return("error")
                     /\ Mark(n, task[n])
                     /\ UNCHANGED row

\* A failure that ends the call at once: FailFast, a budget error of a node.
FailFast(n) == /\ pc = "wave"
               /\ \/ task[n] = "fatal" /\ FailurePolicy = "FailFast"
                  \/ task[n] = "budget"
               /\ Return("error")
               /\ Mark(n, "Failed")
               /\ UNCHANGED row

\* The node's own budget, and a panic: the node's status stays Running.
FailUnmarked(n) == /\ pc = "wave"
                   /\ task[n] \in {"overspent", "panic"}
                   /\ Return("error")
                   /\ UNCHANGED <<status, row>>

Collected == pc = "wave" /\ \A n \in wave : task[n] = "none"

\* Fault: failures among siblings are forgotten.
FailuresForgotten == FALSE

WaveFailed == \E n \in wave : status[n] = "Failed"
WaveYielded == \E n \in wave : status[n] = "Yielded"

PartialFailure == /\ Collected /\ WaveFailed
                  /\ Return("partial")
                  /\ UNCHANGED <<status, row>>

WaveYields == /\ Collected /\ ~WaveFailed /\ WaveYielded
              /\ Goto("saveYield")
              /\ UNCHANGED <<status, row, locals>>

-----------------------------------------------------------------------------
(* Merging and saving a wave. *)

\* Fault: outputs are merged as they arrived.
MergedByArrival(merged, finished) == merged \o finished

\* sort_by_key on the index: a node of a wave finishes once.
Increasing(s) == \A i, j \in DOMAIN s : i < j => s[i] < s[j]
Sorted(finished) ==
  CHOOSE s \in [DOMAIN finished -> Range(finished)] :
    Increasing(s) /\ Range(s) = Range(finished)

\* Fault: a wave's outputs replace the state.
OnlyTheWave(merged, finished) == Sorted(finished)

Merged(merged, finished) == merged \o Sorted(finished)

\* Fault: the budget is tested before the wave's costs are added.
MergeUnchecked == /\ Collected /\ ~WaveFailed /\ ~WaveYielded
                  /\ spent <= Budget
                  /\ Goto("saveWave")
                  /\ state' = Merged(state, results)
                  /\ spent' = spent + Len(results)
                  /\ results' = <<>>
                  /\ UNCHANGED <<status, row, wave, first, task, attempt>>

MergeWave == /\ Collected /\ ~WaveFailed /\ ~WaveYielded
             /\ spent + Len(results) <= Budget
             /\ Goto("saveWave")
             /\ state' = Merged(state, results)
             /\ spent' = spent + Len(results)
             /\ results' = <<>>
             /\ UNCHANGED <<status, row, wave, first, task, attempt>>

OverBudget == /\ Collected /\ ~WaveFailed /\ ~WaveYielded
              /\ spent + Len(results) > Budget
              /\ Return("error")
              /\ UNCHANGED <<status, row>>

\* The row of a pending save.
NextPending == {n \in Pending : \A m \in Pending : n <= m}
WithDag(kind, next) ==
  [status |-> kind, dag |-> status, ids |-> ids, state |-> state, next |-> next]
PendingRow ==
  CASE pc = "saveGate"  -> WithDag("Interrupted", Ready)
    [] pc = "saveYield" -> WithDag("Yielded", Pending \cup Having(status, "Yielded"))
    [] OTHER            -> WithDag("Complete", NextPending)

SaveGate == /\ pc = "saveGate"
            /\ row' = PendingRow
            /\ Return("interrupted")
            /\ UNCHANGED status

SaveYield == /\ pc = "saveYield"
             /\ row' = PendingRow
             /\ Return("yielded")
             /\ UNCHANGED status

SaveWave == /\ pc = "saveWave"
            /\ row' = PendingRow
            /\ IF wave \cap InterruptAfter # {}
               THEN Return("interrupted")
               ELSE Goto("loop") /\ wave' = {}
                    /\ UNCHANGED <<state, results, first, spent, task, attempt>>
            /\ UNCHANGED status

-----------------------------------------------------------------------------
(* resume_with_input of a wave that yielded.  It runs the sequential executor  *)
(* at the node that next_node names; graphs of DAG nodes have no edges.        *)

AnswerWrites(how, new) == /\ pc = "answer"
                          /\ row' = new
                          /\ Return(how)
                          /\ UNCHANGED status

RolledBack == WithoutDag("Yielded", row.state, row.next)

\* Several names joined by a comma are no node's name.
AnswerNotFound == /\ \A n \in Registered[deps] : row.next # {n}
                  /\ AnswerWrites("error", RolledBack)

AnswerRuns == \E n \in Registered[deps] :
  /\ row.next = {n}
  /\ \/ /\ "ok" \in Outcomes[n] /\ Budget > 0
        /\ AnswerWrites("answered", WithoutDag("Complete", Append(row.state, n), {}))
     \/ /\ "yield" \in Outcomes[n]
        /\ AnswerWrites("yielded", RolledBack)
     \/ /\ Outcomes[n] \ (IF Budget = 0 THEN {"yield"} ELSE {"ok", "yield"}) # {}
        /\ AnswerWrites("error", RolledBack)

\* A handoff goes to the edge of the node, that is to __END__, and writes nothing.
AnswerHandsOff == AnswerWrites("answered", row)

-----------------------------------------------------------------------------
(* Faults. *)

Fault == faults < MaxFaults /\ faults' = faults + 1

Crash == /\ pc # "idle"
         /\ Quit("crashed")
         /\ Fault
         /\ UNCHANGED <<status, row>>

\* A store call fails, or a bound write meets a Conflict.
SaveFails == /\ pc \in {"head", "saveGate", "saveYield", "saveWave"}
             /\ Quit("error")
             /\ Fault
             /\ UNCHANGED <<status, row>>

\* A bound write commits and reports an error.
AnswerLost == /\ pc \in {"saveGate", "saveYield", "saveWave"}
              /\ row' = PendingRow
              /\ Quit("error")
              /\ Fault
              /\ UNCHANGED status

-----------------------------------------------------------------------------
Start == StartRun \/ StartResume \/ StartAnswer

CallStep == \/ ReadHead \/ Deadlock \/ Finish \/ StopAtGate
            \/ LaunchWave \/ NodeNotFound
            \/ \E n \in Nodes : \/ CollectOk(n) \/ CollectYield(n)
                                \/ CollectFailure(n) \/ FailFast(n)
                                \/ FailUnmarked(n)
            \/ PartialFailure \/ WaveYields \/ MergeWave \/ OverBudget
            \/ SaveGate \/ SaveYield \/ SaveWave
            \/ AnswerNotFound \/ AnswerRuns \/ AnswerHandsOff

TaskStep(n) == Acquire(n) \/ TaskRetries(n) \/ TaskEnds(n)

Next == \/ Start \/ CallStep
        \/ \E n \in Nodes : TaskStep(n)
        \/ Crash \/ SaveFails \/ AnswerLost

Spec == Init /\ [][Next]_vars

\* The call and every spawned task are polled while they can move, and the
\* semaphore hands its permits on in the order they were asked for.
FairSpec == /\ Spec
            /\ WF_vars(CallStep)
            /\ \A n \in Nodes : WF_vars(TaskStep(n))
-----------------------------------------------------------------------------
(* Safety. *)

\* A node is called only when all its dependencies are Done, and no node becomes
\* Done before them: waves respect the topological order, also after restarts.
DependenciesFirst ==
  \A n \in Nodes : status[n] \in {"Running", "Done", "Failed", "Yielded"} => deps[n] \subseteq Done

\* The state that a node is called with holds the output of each dependency, if
\* callers start with a copy of the DAG from before the run.
InputsComplete ==
  \A n \in Nodes : task[n] = "running" => deps[n] \subseteq Range(state)

\* A snapshot and the state saved with it tell the same story: exactly the nodes
\* marked Done have their output in the state, once.  Callers keep a copy of the
\* DAG: one built again adds the outputs a second time, and one that a failed call
\* left has nodes Done whose outputs are lost.
SavedOutputs ==
  row.dag # NoDag => /\ Range(row.state) = Having(row.dag, "Done")
                     /\ Len(row.state) = Cardinality(Range(row.state))

\* The outputs from c + 1 to d are one wave: the nodes whose dependencies lie among
\* the first c outputs, in index order.
IsWave(merged, c, d) ==
  LET before == {merged[i] : i \in 1..c}
      here   == {merged[i] : i \in (c+1)..d}
  IN  /\ here = {n \in Nodes \ before : deps[n] \subseteq before}
      /\ \A i, j \in (c+1)..d : i < j => merged[i] < merged[j]

\* A sequence of outputs cut at the positions where one wave ends and the next begins.
CutIntoWaves(merged, cuts) ==
  /\ cuts \subseteq 0..Len(merged)
  /\ {0, Len(merged)} \subseteq cuts
  /\ \A c, d \in cuts : c < d => IsWave(merged, c, d) \/ \E e \in cuts : c < e /\ e < d

\* The saved state depends on the DAG only, not on which task finished first or
\* where a run was broken off: whole waves one after another, each in index order,
\* if callers keep a copy of the DAG.
MergeOrder == \E cuts \in SUBSET (0..Len(row.state)) : CutIntoWaves(row.state, cuts)

\* run_dag and resume_dag report a finished DAG only when every node is Done, unless
\* the caller hands over what a failed call left: its Failed nodes stay so.
FinishedIsComplete == answer = "finished" => Done = Nodes

HasCycle == \E S \in SUBSET Nodes : S # {} /\ \A n \in S : deps[n] \cap S # {}

\* DAGDeadlock is reported of DAGs that no schedule completes, and of no others,
\* unless the caller hands over what a failed call left.
DeadlockIsReal == answer = "deadlock" => HasCycle

\* Nothing over budget reaches a checkpoint: a thread of k calls has saved
\* outputs for at most k budgets, since every call counts from zero again.
BudgetPerCall == Len(row.state) <= calls * Budget

-----------------------------------------------------------------------------
(* Action properties. *)

\* No wave is saved with one of its nodes Running or Failed: what a snapshot holds
\* of these was so already in the DAG that the caller handed over.
SnapshotSettled ==
  [][pc # "idle" /\ row' # row /\ row'.dag # NoDag => Unsettled(row'.dag) \subseteq stale]_vars

\* A node whose completion the checkpoint holds is never called again, as long as
\* the caller's DAG is the one that was saved or a copy: of a DAG that was built
\* again nothing is restored, and all of its nodes run.
CheckpointedNotRerun ==
  [][\A n \in Nodes : task[n] = "queued" /\ task'[n] = "running"
       => ~(row.dag # NoDag /\ row.ids = ids /\ row.dag[n] = "Done")]_vars

-----------------------------------------------------------------------------
(* Liveness. *)

\* Every call returns: tasks are bounded by their attempts, the semaphore always
\* has a permit, and every wave makes progress or ends the call.
DagCallsReturn == (pc # "idle") ~> (pc = "idle")

-----------------------------------------------------------------------------
(* Refinement. *)

\* The latest checkpoint, as DagProgress sees it.
SavedDone == IF row.dag = NoDag THEN {} ELSE Having(row.dag, "Done")

Progress == INSTANCE DagProgress WITH completed <- SavedDone, build <- row.ids

\* Waves, partial waves saved at a yield, failed and lost saves, crashes, resumed
\* calls and calls with any DAG value keep the promise of DagProgress.
ProgressSpec == Progress!Spec
=============================================================================

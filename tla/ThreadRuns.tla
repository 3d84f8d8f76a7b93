---------------------------- MODULE ThreadRuns ----------------------------
(***************************************************************************)
(* Sequential execution of one thread: Graph::run, Graph::resume and       *)
(* Graph::resume_with_input, called by any number of workers (processes or *)
(* tasks) that share nothing but the store.  One action is one stretch of  *)
(* code between two awaits on the store or on a node, so that everything   *)
(* another worker may do while a call is pending happens between actions.  *)
(*                                                                         *)
(* A worker's program counter `pc`:                                        *)
(*   "idle"       no call in progress (or its process died)                *)
(*   "claimed"    resume_with_input holds the claim, load_state is next    *)
(*   "head"       run_inner is about to read current_head                  *)
(*   "loop"       at the top of run_inner's loop                           *)
(*   "call"       the node's future is pending                             *)
(*   "saveStep" | "saveYield" | "saveGate"   a bound write is pending      *)
(*   "revertHead" | "revert"  revert_to_yielded, before and after its head *)
(***************************************************************************)
EXTENDS Checkpoints, FiniteSets

CONSTANTS
  Workers,
  Starts,             \* start nodes that callers give to run
  EdgeTargets,        \* Nodes -> the targets its edge may pick, {} for no edge
  NoEvent,            \* a node output without an explicit next node
  Outcomes,           \* Nodes -> got input? -> what a call may return
  DynamicNodes,       \* nodes called without the retry and timeout wrapper
  InterruptBefore, InterruptAfter,
  HandoffInterrupts,  \* interrupts whose request says ResumeMode::Handoff
  SchemaInterrupts,   \* interrupts whose request carries a schema
  Policy,             \* CrashRecoveryPolicy
  MaxSteps,           \* resource_limits.max_sequential_steps
  MaxAttempts,        \* retry_policy.max_attempts
  Kinds,              \* the entry points that callers use
  Exclusive,          \* callers start run and resume only on a quiet thread
  StoreErrors,        \* store calls may fail without effect
  LostAnswers,        \* a bound write may commit and still report an error
  MaxOps,             \* bound: calls started in a behaviour
  MaxFaults           \* bound: crashes and store errors in a behaviour

Outcome == [kind : {"ok"}, event : Targets \cup {NoEvent}]
           \cup [kind : {"yield"}, request : Interrupts]
           \cup [kind : {"retryable", "fail"}]

ASSUME GraphAssumption ==
  /\ Starts \subseteq Targets
  /\ EdgeTargets \in [Nodes -> SUBSET Targets]
  /\ NoEvent \notin Targets
  /\ Outcomes \in [Nodes -> [BOOLEAN -> SUBSET Outcome]]
  /\ DynamicNodes \subseteq Nodes
  /\ InterruptBefore \subseteq Nodes
  /\ InterruptAfter \subseteq Nodes
  /\ HandoffInterrupts \subseteq Interrupts
  /\ SchemaInterrupts \subseteq Interrupts
ASSUME SettingsAssumption ==
  /\ Policy \in {"ResetToPending", "FailFast", "SkipAndContinue"}
  /\ MaxSteps \in Nat
  /\ MaxAttempts \in Nat
  /\ Kinds \subseteq {"run", "resume", "input"}
  /\ Exclusive \in BOOLEAN
  /\ StoreErrors \in BOOLEAN
  /\ LostAnswers \in BOOLEAN
  /\ MaxOps \in Nat
  /\ MaxFaults \in Nat

VARIABLES rows,       \* the thread's checkpoints in the shared store
          pc,         \* Workers -> program counter
          op,         \* Workers -> the locals of its call
          started,    \* calls started so far; the last one's number
          faults      \* crashes and store errors so far

vars == <<rows, pc, op, started, faults>>

PC == {"idle", "claimed", "head", "loop", "call", "saveStep", "saveYield",
       "saveGate", "revertHead", "revert"}

Op == [kind      : {"none", "run", "resume", "input"},
       id        : Nat,               \* the call's number
       resolved  : MaybeInterrupt,    \* resolved_interrupt; of a
                                      \* resume_with_input, its interrupt_id
       loaded    : Nat,               \* the row that load_state returned
       basis     : Nat,               \* the row whose state it holds
       node      : Targets,           \* current_node_name
       input     : BOOLEAN,           \* pending_resumed_input is Some
       expected  : Nat,               \* expected_head
       knowsHead : BOOLEAN,           \* last_head is Some
       steps     : Nat,               \* step_count
       attempt   : Nat,
       next      : Targets,           \* next_node of the pending step save
       request   : MaybeInterrupt]    \* request of the pending yield save

\* The locals of a call as it begins, holding the state of row `loaded`.
NewOp(kind, id, node, resolved, loaded) ==
  [kind |-> kind, id |-> id, resolved |-> resolved, loaded |-> loaded,
   basis |-> loaded, node |-> node, input |-> FALSE, expected |-> 0,
   knowsHead |-> FALSE, steps |-> 0, attempt |-> 0, next |-> End,
   request |-> NoInterrupt]

NoOp == NewOp("none", 0, End, NoInterrupt, 0)

TypeOK == /\ rows \in Seq(Row)
          /\ pc \in [Workers -> PC]
          /\ op \in [Workers -> Op]
          /\ started \in Nat
          /\ faults \in Nat

Init == /\ rows = <<>>
        /\ pc = [w \in Workers |-> "idle"]
        /\ op = [w \in Workers |-> NoOp]
        /\ started = 0
        /\ faults = 0

Live(w) == pc[w] # "idle"

-----------------------------------------------------------------------------
(* Moving a worker. *)

Move(w, to, o) == /\ pc' = [pc EXCEPT ![w] = to]
                  /\ op' = [op EXCEPT ![w] = o]

Return(w) == Move(w, "idle", NoOp)

Begin(w, to, o) == /\ started < MaxOps
                   /\ started' = started + 1
                   /\ Move(w, to, o)

\* Fault: the rollback reads the head anew, always.
RevertFromFreshHead(w) ==
  IF op[w].kind = "input" THEN Move(w, "revertHead", op[w]) ELSE Return(w)

\* Fault: the claim is not given back.
FailWithoutRevert(w) == Return(w)

\* run_inner's Err.  Only resume_with_input reacts to it: it reverts the row it
\* claimed, from the head the failed run last knew if it got that far.
Fail(w) == IF op[w].kind # "input" THEN Return(w)
           ELSE Move(w, IF op[w].knowsHead THEN "revert" ELSE "revertHead", op[w])

\* A bound write of `row` that the store accepts.
Written(row) == rows' = Append(rows, row)

Unchanged == UNCHANGED <<started, faults>>

\* A call without an edge ends the graph; a conditional edge is a function of
\* the state and may pick any of its targets.
EdgeFrom(n) == IF EdgeTargets[n] = {} THEN {End} ELSE EdgeTargets[n]

-----------------------------------------------------------------------------
(* The entry points. *)

\* Quiet and ClaimsOnly are the callers' discipline, not a lock in the code.
Quiet == \A w \in Workers : ~Live(w)
ClaimsOnly == \A w \in Workers : Live(w) => op[w].kind = "input"

StartRun(w, n) ==
  /\ "run" \in Kinds
  /\ Exclusive => Quiet
  /\ ~Live(w)
  /\ Begin(w, "head", NewOp("run", started + 1, n, NoInterrupt, 0))
  /\ UNCHANGED <<rows, faults>>

\* Where resume restarts a loaded row, under the crash recovery policy.
RestartAt(row) ==
  IF row.status # "Running" THEN {row.next}
  ELSE CASE Policy = "ResetToPending"  -> {row.next}
         [] Policy = "FailFast"        -> {}
         [] Policy = "SkipAndContinue" ->
              IF EdgeTargets[row.next] # {} THEN EdgeTargets[row.next] ELSE {row.next}

\* resume: load_state and the policy.  With nothing stored it returns None,
\* under FailFast an error, and neither changes anything.
StartResume(w) ==
  /\ "resume" \in Kinds
  /\ Exclusive => Quiet
  /\ ~Live(w)
  /\ rows # <<>>
  /\ \E n \in RestartAt(Latest(rows)) :
       Begin(w, "head",
             NewOp("resume", started + 1, n, Latest(rows).claimed, Len(rows)))
  /\ UNCHANGED <<rows, faults>>

\* resume_with_input: a granted claim_interrupt.  Every other answer
\* (AlreadyCompleted, InProgress, an error) returns without a change.
StartClaim(w, i) ==
  /\ "input" \in Kinds
  /\ Exclusive => ClaimsOnly
  /\ ~Live(w)
  /\ Claimable(rows, i)
  /\ rows' = Claimed(rows, i)
  /\ Begin(w, "claimed", NewOp("input", started + 1, End, i, 0))
  /\ UNCHANGED faults

-----------------------------------------------------------------------------
(* resume_with_input between the claim and run_inner. *)

\* The row loaded after the claim asks for this interrupt: another writer may
\* have appended a row in between.
AsksFor(row, i) == row.request = i

LoadRejected(w) ==
  /\ pc[w] = "claimed"
  /\ ~AsksFor(Latest(rows), op[w].resolved)
  /\ Return(w)
  /\ UNCHANGED rows /\ Unchanged

\* An input the schema refuses: the `?` returns with the claim still in place.
SchemaRejected(w) ==
  /\ pc[w] = "claimed"
  /\ AsksFor(Latest(rows), op[w].resolved)
  /\ op[w].resolved \in SchemaInterrupts
  /\ Return(w)
  /\ UNCHANGED rows /\ Unchanged

LoadClaimed(w) ==
  /\ pc[w] = "claimed"
  /\ AsksFor(Latest(rows), op[w].resolved)
  /\ LET row     == Latest(rows)
         handoff == op[w].resolved \in HandoffInterrupts
     IN \E n \in IF handoff THEN EdgeFrom(row.next) ELSE {row.next} :
          Move(w, "head",
               [op[w] EXCEPT !.loaded = Len(rows), !.basis = Len(rows),
                             !.node = n, !.input = ~handoff])
  /\ UNCHANGED rows /\ Unchanged

-----------------------------------------------------------------------------
(* run_inner. *)

ReadHead(w) ==
  /\ pc[w] = "head"
  /\ Move(w, "loop", [op[w] EXCEPT !.expected = CurrentHead(rows), !.knowsHead = TRUE])
  /\ UNCHANGED rows /\ Unchanged

StepLimit(w) ==
  /\ pc[w] = "loop"
  /\ op[w].steps >= MaxSteps
  /\ Fail(w)
  /\ UNCHANGED rows /\ Unchanged

ReachEnd(w) ==
  /\ pc[w] = "loop"
  /\ op[w].steps < MaxSteps
  /\ op[w].node = End
  /\ Return(w)
  /\ UNCHANGED rows /\ Unchanged

\* is_first_step: no node was entered yet, so interrupt_before is not consulted.
AtGate(o) == o.steps > 0 /\ o.node \in InterruptBefore

InterruptAtGate(w) ==
  /\ pc[w] = "loop"
  /\ op[w].steps < MaxSteps
  /\ AtGate(op[w])
  /\ Move(w, "saveGate", op[w])
  /\ UNCHANGED rows /\ Unchanged

NodeNotFound(w) ==
  /\ pc[w] = "loop"
  /\ op[w].steps < MaxSteps
  /\ op[w].node \notin Nodes \cup {End}
  /\ Fail(w)
  /\ UNCHANGED rows /\ Unchanged

\* Fault: the step is not counted.
EnterUncounted(w) ==
  /\ pc[w] = "loop"
  /\ op[w].steps < MaxSteps
  /\ op[w].node \in Nodes
  /\ ~AtGate(op[w])
  /\ Move(w, "call", [op[w] EXCEPT !.attempt = 0])
  /\ UNCHANGED rows /\ Unchanged

EnterNode(w) ==
  /\ pc[w] = "loop"
  /\ op[w].steps < MaxSteps
  /\ op[w].node \in Nodes
  /\ ~AtGate(op[w])
  /\ Move(w, "call", [op[w] EXCEPT !.steps = @ + 1, !.attempt = 0])
  /\ UNCHANGED rows /\ Unchanged

\* Fault: the input is kept for the next attempt and the next node.
InputKept(o) == o

\* The call takes the pending input, whatever it then returns.
Taken(o) == [o EXCEPT !.input = FALSE]

NodeOk(w) ==
  /\ pc[w] = "call"
  /\ \E out \in Outcomes[op[w].node][op[w].input] :
       /\ out.kind = "ok"
       /\ \E n \in IF out.event # NoEvent THEN {out.event} ELSE EdgeFrom(op[w].node) :
            Move(w, "saveStep", [Taken(op[w]) EXCEPT !.next = n])
  /\ UNCHANGED rows /\ Unchanged

NodeYields(w) ==
  /\ pc[w] = "call"
  /\ \E out \in Outcomes[op[w].node][op[w].input] :
       /\ out.kind = "yield"
       /\ Move(w, "saveYield", [Taken(op[w]) EXCEPT !.request = out.request])
  /\ UNCHANGED rows /\ Unchanged

\* Fault: max_attempts does not count the first attempt.
AttemptsAfterFirst(n) == IF n \in DynamicNodes THEN 1 ELSE MaxAttempts + 1

AttemptsOf(n) == IF n \in DynamicNodes THEN 1 ELSE MaxAttempts

\* Fault: the attempts are counted, but not limited, and the counter wraps.
RetryForEver(w) ==
  /\ pc[w] = "call"
  /\ \E out \in Outcomes[op[w].node][op[w].input] : out.kind = "retryable"
  /\ Move(w, "call", [Taken(op[w]) EXCEPT !.attempt = (@ + 1) % 2])
  /\ UNCHANGED rows /\ Unchanged

NodeRetries(w) ==
  /\ pc[w] = "call"
  /\ \E out \in Outcomes[op[w].node][op[w].input] : out.kind = "retryable"
  /\ op[w].attempt + 1 < AttemptsOf(op[w].node)
  /\ Move(w, "call", [Taken(op[w]) EXCEPT !.attempt = @ + 1])
  /\ UNCHANGED rows /\ Unchanged

\* The last attempt was retryable, or the call failed for good: a fatal error,
\* a timeout, a budget, a yield inside a dynamic node's child.
NodeFails(w) ==
  /\ pc[w] = "call"
  /\ \E out \in Outcomes[op[w].node][op[w].input] :
       \/ out.kind = "fail"
       \/ out.kind = "retryable" /\ op[w].attempt + 1 >= AttemptsOf(op[w].node)
  /\ Fail(w)
  /\ UNCHANGED rows /\ Unchanged

SaveStep(w) ==
  /\ pc[w] = "saveStep"
  /\ ~Conflicts(rows, op[w].expected)
  /\ Written(StepRow(op[w].next, op[w].resolved, op[w].basis, op[w].id))
  /\ IF op[w].node \in InterruptAfter
     THEN Return(w)
     ELSE Move(w, "loop", [op[w] EXCEPT !.node = op[w].next, !.basis = Len(rows) + 1,
                                        !.expected = CurrentHead(rows'), !.next = End])
  /\ Unchanged

SaveYield(w) ==
  /\ pc[w] = "saveYield"
  /\ ~Conflicts(rows, op[w].expected)
  /\ Written(YieldRow(op[w].node, op[w].request, op[w].basis, op[w].id))
  /\ Return(w)
  /\ Unchanged

SaveGate(w) ==
  /\ pc[w] = "saveGate"
  /\ ~Conflicts(rows, op[w].expected)
  /\ Written(GateRow(op[w].node, op[w].resolved, op[w].basis, op[w].id))
  /\ Return(w)
  /\ Unchanged

Saving(w) == pc[w] \in {"saveStep", "saveYield", "saveGate"}

SaveConflict(w) ==
  /\ Saving(w)
  /\ Conflicts(rows, op[w].expected)
  /\ Fail(w)
  /\ UNCHANGED rows /\ Unchanged

-----------------------------------------------------------------------------
(* revert_to_yielded. *)

RevertHead(w) ==
  /\ pc[w] = "revertHead"
  /\ Move(w, "revert", [op[w] EXCEPT !.expected = CurrentHead(rows)])
  /\ UNCHANGED rows /\ Unchanged

Revert(w) ==
  /\ pc[w] = "revert"
  /\ ~Conflicts(rows, op[w].expected)
  /\ Written(RollbackRow(rows[op[w].loaded], op[w].loaded, op[w].id))
  /\ Return(w)
  /\ Unchanged

\* "Rollback save failed": the caller is told, the store is left as it is.
RevertConflict(w) ==
  /\ pc[w] = "revert"
  /\ Conflicts(rows, op[w].expected)
  /\ Return(w)
  /\ UNCHANGED rows /\ Unchanged

-----------------------------------------------------------------------------
(* Faults. *)

Fault == /\ faults < MaxFaults
         /\ faults' = faults + 1
         /\ UNCHANGED started

\* The process of a worker dies; its call's locals die with it.
Crash(w) ==
  /\ Live(w)
  /\ Return(w)
  /\ Fault
  /\ UNCHANGED rows

\* A store call fails and had no effect.  In the run it ends the run with an
\* error, in the rollback it ends the rollback.
StoreFails(w) ==
  /\ StoreErrors
  /\ \/ (pc[w] = "head" \/ Saving(w)) /\ Fail(w)
     \/ pc[w] \in {"claimed", "revertHead", "revert"} /\ Return(w)
  /\ Fault
  /\ UNCHANGED rows

\* A bound write commits but its answer is lost: the run believes it failed.
PendingRow(w) ==
  CASE pc[w] = "saveStep"  -> StepRow(op[w].next, op[w].resolved, op[w].basis, op[w].id)
    [] pc[w] = "saveYield" -> YieldRow(op[w].node, op[w].request, op[w].basis, op[w].id)
    [] pc[w] = "saveGate"  -> GateRow(op[w].node, op[w].resolved, op[w].basis, op[w].id)
    [] pc[w] = "revert"    -> RollbackRow(rows[op[w].loaded], op[w].loaded, op[w].id)

AnswerLost(w) ==
  /\ LostAnswers
  /\ Saving(w) \/ pc[w] = "revert"
  /\ ~Conflicts(rows, op[w].expected)
  /\ Written(PendingRow(w))
  /\ IF Saving(w) THEN Fail(w) ELSE Return(w)
  /\ Fault

-----------------------------------------------------------------------------
Start(w) == \/ \E n \in Starts : StartRun(w, n)
            \/ StartResume(w)
            \/ \E i \in Interrupts : StartClaim(w, i)

Step(w) == \/ LoadRejected(w) \/ SchemaRejected(w) \/ LoadClaimed(w)
           \/ ReadHead(w)
           \/ StepLimit(w) \/ ReachEnd(w) \/ InterruptAtGate(w)
           \/ NodeNotFound(w) \/ EnterNode(w)
           \/ NodeOk(w) \/ NodeYields(w) \/ NodeRetries(w) \/ NodeFails(w)
           \/ SaveStep(w) \/ SaveYield(w) \/ SaveGate(w) \/ SaveConflict(w)
           \/ RevertHead(w) \/ Revert(w) \/ RevertConflict(w)

Faulty(w) == Crash(w) \/ StoreFails(w) \/ AnswerLost(w)

Next == \E w \in Workers : Start(w) \/ Step(w) \/ Faulty(w)

Spec == Init /\ [][Next]_vars

\* The runtime polls every pending future: a node call returns, a store call
\* answers, and the code between two awaits runs on.
FairSpec == Spec /\ \A w \in Workers : WF_vars(Step(w))

-----------------------------------------------------------------------------
(* Safety. *)

\* At most one call works on the thread at a time.  Callers keep run and resume
\* to a quiet thread (Exclusive), but any number of resume_with_input calls may
\* be made at any time: duplicate webhook deliveries.  It is claim_interrupt
\* that lets one of them through, also after rollbacks, crashes and yields.
SingleWorker == \A v, w \in Workers : Live(v) /\ Live(w) => v = w

\* A row is computed from the row before it, or from the state given to run;
\* a rollback may drop rows only of the very run that it rolls back.  No
\* worker's write buries a row that it has not seen.
NothingOverwritten ==
  \A k \in 1..Len(rows) :
    rows[k].basis # 0 =>
      \A j \in (rows[k].basis + 1)..(k - 1) : rows[j].by = rows[k].by

\* All rows that carry an interrupt as resolved were written by one call: the
\* interrupt takes effect at most once, whatever is retried or recovered.
ResolvedOnce ==
  \A j, k \in 1..Len(rows) :
    rows[j].resolved = rows[k].resolved /\ rows[j].resolved # NoInterrupt
      => rows[j].by = rows[k].by

\* With a store that compares heads the rows of one call, its rollback included,
\* are consecutive, whoever else writes and whatever answers get lost: a call
\* never resumes writing behind another writer's row.
RunsContiguous ==
  \A j, l \in 1..Len(rows) :
    rows[j].by = rows[l].by => \A k \in j..l : rows[k].by = rows[j].by

\* max_sequential_steps bounds what one call writes, loops or not: that many
\* steps and a rollback.
RowsPerCallBounded ==
  \A k \in 1..Len(rows) :
    Cardinality({l \in 1..Len(rows) : rows[l].by = rows[k].by}) <= MaxSteps + 1

\* ClaimResult::InProgress, "active but unresolved": without faults a row in
\* status Running belongs to a resume_with_input that is still working.
InProgressIsActive ==
  faults = 0 /\ rows # <<>> /\ Latest(rows).status = "Running" =>
    \E w \in Workers :
      Live(w) /\ op[w].kind = "input" /\ op[w].resolved = Latest(rows).claimed

\* An interrupt that a thread waits for can be answered: its row is not one that
\* claim_interrupt takes for resolved already.
PendingIsClaimable ==
  rows # <<>> /\ Latest(rows).status = "Yielded" =>
    Claimable(rows, Latest(rows).request)

-----------------------------------------------------------------------------
(* Liveness and refinement. *)

\* Every call returns: loops are cut by max_sequential_steps, retries by
\* max_attempts, and no conflict or rollback waits for anybody.
CallsReturn == \A w \in Workers : Live(w) ~> ~Live(w)

\* The thread's latest row and its resolutions, as the promise sees them.
Waiting ==
  CASE rows # <<>> /\ Latest(rows).status = "Yielded" ->
         [phase |-> "pending", interrupt |-> Latest(rows).request]
    [] rows # <<>> /\ Latest(rows).status = "Running" ->
         [phase |-> "claimed", interrupt |-> Latest(rows).claimed]
    [] OTHER -> [phase |-> "none", interrupt |-> NoInterrupt]

Lifecycle == INSTANCE InterruptLifecycle
               WITH waiting  <- Waiting,
                    resolved <- {i \in Interrupts : Resolved(rows, i)}

\* Calls, retries and recoveries keep the promise of InterruptLifecycle.
LifecycleSpec == Lifecycle!Spec
=============================================================================

----------------------------- MODULE NodeCalls -----------------------------
(***************************************************************************)
(* ThreadRuns seen from the nodes: the NodeContext of every invocation,    *)
(* the pauses between attempts, the children of dynamic nodes and the ring *)
(* of execution records.  Each worker has a Graph of its own.              *)
(***************************************************************************)
EXTENDS ThreadRuns

CONSTANTS
  ChildNodes,       \* nodes that dynamic nodes run as children
  BaseDelay,        \* retry_policy.base_delay_ms
  MaxDelay,         \* retry_policy.max_delay_ms
  Jitter,           \* retry_policy.jitter
  U64Max,
  RecordLimit,      \* resource_limits.max_execution_records
  MaxChildren       \* bound: children that one call of a dynamic node runs

ASSUME RetryAssumption == /\ U64Max \in Nat
                          /\ BaseDelay \in 0..U64Max
                          /\ MaxDelay \in 0..U64Max
                          /\ Jitter \in BOOLEAN
ASSUME LimitAssumption == /\ RecordLimit \in Nat \ {0}
                          /\ ChildNodes \subseteq Nodes
                          /\ MaxChildren \in Nat

VARIABLES last,      \* Workers -> last_checkpoint_id, 0 for None
          invoked,   \* history: the invocations of nodes
          children,  \* Workers -> children that the pending call has run
          pause,     \* Workers -> the delay slept last, and the attempt it followed
          records,   \* Workers -> execution_records, by checkpoint number and node
          recorded   \* Workers -> history: all records ever pushed

extra == <<last, invoked, children, pause, records, recorded>>
nvars == <<vars, extra>>

\* execution_id: a hash of thread, node and last checkpoint.
Key(node, checkpoint) == <<node, checkpoint>>

Attempts == {0} \cup 0..(MaxAttempts - 1)

Invocation == [call : Nat, node : Nodes, attempt : Attempts, child : BOOLEAN,
               basis : Nat,         \* the row whose state it was given
               input : BOOLEAN,     \* resumed_input is Some
               key : Nodes \X Nat]

\* "success" of a node call, with the row whose state it was given, or "resumed" of
\* an answer, with the checkpoint that asked for it.
Record == [status : {"success", "resumed"}, call : Nat, node : Nodes, basis : Nat]

NoPause == [after |-> 0, delay |-> 0]

NodeCallsTypeOK ==
  /\ TypeOK
  /\ last \in [Workers -> 0..Len(rows)]
  /\ invoked \subseteq Invocation
  /\ children \in [Workers -> 0..MaxChildren]
  /\ pause \in [Workers -> [after : Attempts, delay : 0..U64Max]]
  /\ records \in [Workers -> Seq(Record)]
  /\ recorded \in [Workers -> Seq(Record)]

NodeCallsInit == /\ Init
                 /\ last = [w \in Workers |-> 0]
                 /\ invoked = {}
                 /\ children = [w \in Workers |-> 0]
                 /\ pause = [w \in Workers |-> NoPause]
                 /\ records = [w \in Workers |-> <<>>]
                 /\ recorded = [w \in Workers |-> <<>>]

-----------------------------------------------------------------------------
(* RetryPolicy::delay_for. *)

Saturated(ms) == IF ms > U64Max THEN U64Max ELSE ms

Shifted(attempt) ==
  <<1, 2, 4, 8, 16, 32, 64, 128, 256, 512, 1024>>[IF attempt > 10 THEN 11 ELSE attempt + 1]

Capped(attempt) ==
  LET base == Saturated(BaseDelay * Shifted(attempt))
  IN IF base < MaxDelay THEN base ELSE MaxDelay

\* Fault: the jitter goes one way, upwards.
DelaysUpwards(attempt) ==
  LET capped == Capped(attempt)
      range  == capped \div 4
  IN {Saturated(capped + r) : r \in IF range > 0 THEN 0..(range - 1) ELSE {0}}

Delays(attempt) ==
  LET capped == Capped(attempt)
      range  == capped \div 4
  IN IF ~Jitter THEN {capped}
     ELSE {Saturated(capped - range \div 2 + r) :
             r \in IF range > 0 THEN 0..(range - 1) ELSE {0}}

-----------------------------------------------------------------------------
(* The executor around a call. *)

\* NodeContext::new for the attempt that a worker's locals `o` stand for.
ContextOf(w, o, node, child) ==
  [call |-> o.id, node |-> node, attempt |-> IF child THEN 0 ELSE o.attempt,
   child |-> child, basis |-> o.basis, input |-> ~child /\ o.input,
   key |-> Key(node, last[w])]

Invoke(w) == /\ invoked' = invoked \cup {ContextOf(w, op'[w], op'[w].node, FALSE)}
             /\ children' = [children EXCEPT ![w] = 0]

CallNode(w) == /\ EnterNode(w)
               /\ Invoke(w)
               /\ UNCHANGED <<last, pause, records, recorded>>

\* Sleep, then the next attempt.
Retry(w) ==
  /\ NodeRetries(w)
  /\ Invoke(w)
  /\ \E d \in Delays(op[w].attempt) :
       pause' = [pause EXCEPT ![w] = [after |-> op[w].attempt, delay |-> d]]
  /\ UNCHANGED <<last, records, recorded>>

\* ChildRunner::run_child; what the child returns is up to the dynamic node.
RunChild(w, c) ==
  /\ pc[w] = "call"
  /\ op[w].node \in DynamicNodes
  /\ children[w] < MaxChildren
  /\ children' = [children EXCEPT ![w] = @ + 1]
  /\ invoked' = invoked \cup {ContextOf(w, op[w], c, TRUE)}
  /\ UNCHANGED <<vars, last, pause, records, recorded>>

\* while records.len() >= max_execution_records { pop_front }
Evict(s) ==
  IF Len(s) >= RecordLimit THEN SubSeq(s, Len(s) - RecordLimit + 2, Len(s)) ELSE s

Push(w, record) == /\ records' = [records EXCEPT ![w] = Append(Evict(@), record)]
                   /\ recorded' = [recorded EXCEPT ![w] = Append(@, record)]

NodeRecord(o) ==
  [status |-> "success", call |-> o.id, node |-> o.node, basis |-> o.basis]
ResumeRecord(o) ==
  [status |-> "resumed", call |-> o.id, node |-> rows[o.loaded].next, basis |-> o.loaded]

CallOk(w) ==
  /\ NodeOk(w)
  /\ Push(w, NodeRecord(op[w]))
  /\ UNCHANGED <<last, invoked, children, pause>>

\* Fault: the record of an answer is pushed without its eviction loop.
AuditUnbounded(w) ==
  IF op[w].kind = "input" /\ ~Live(w)'
  THEN /\ records' = [records EXCEPT ![w] = Append(@, ResumeRecord(op[w]))]
       /\ recorded' = [recorded EXCEPT ![w] = Append(@, ResumeRecord(op[w]))]
  ELSE UNCHANGED <<records, recorded>>

\* What resume_with_input does when its run has returned Ok.
Audit(w) == IF op[w].kind = "input" /\ ~Live(w)'
            THEN Push(w, ResumeRecord(op[w]))
            ELSE UNCHANGED <<records, recorded>>

\* Fault: last_checkpoint_id is set when the call begins only.
SaveWithoutId(w) == SaveStep(w) /\ UNCHANGED extra

\* last_checkpoint_id is what this call has saved; a call begins with None.
SaveWithId(w) == /\ SaveStep(w)
                 /\ last' = [last EXCEPT ![w] = IF pc'[w] = "loop" THEN Len(rows') ELSE 0]
                 /\ Audit(w)
                 /\ UNCHANGED <<invoked, children, pause>>

\* The locals end with the call, the records with the process.
Forget(w) == /\ last' = [last EXCEPT ![w] = IF Live(w)' THEN @ ELSE 0]
             /\ UNCHANGED <<invoked, children, pause>>

\* The run ends well: at the end of the graph, at a gate or with a yield.
Succeed(w) == /\ ReachEnd(w) \/ SaveGate(w) \/ SaveYield(w)
              /\ Audit(w)
              /\ Forget(w)

Otherwise(w) ==
  /\ \/ LoadRejected(w) \/ SchemaRejected(w) \/ LoadClaimed(w) \/ ReadHead(w)
     \/ StepLimit(w) \/ InterruptAtGate(w) \/ NodeNotFound(w)
     \/ NodeYields(w) \/ NodeFails(w) \/ SaveConflict(w)
     \/ RevertHead(w) \/ Revert(w) \/ RevertConflict(w)
     \/ StoreFails(w) \/ AnswerLost(w)
  /\ Forget(w)
  /\ UNCHANGED <<records, recorded>>

Die(w) == /\ Crash(w)
          /\ Forget(w)
          /\ records' = [records EXCEPT ![w] = <<>>]
          /\ recorded' = [recorded EXCEPT ![w] = <<>>]

NodeCallsNext ==
  \E w \in Workers :
    \/ Start(w) /\ UNCHANGED extra
    \/ CallNode(w) \/ Retry(w) \/ CallOk(w) \/ SaveWithId(w)
    \/ (\E c \in ChildNodes : RunChild(w, c))
    \/ Succeed(w) \/ Otherwise(w) \/ Die(w)

NodeCallsSpec == NodeCallsInit /\ [][NodeCallsNext]_nvars

-----------------------------------------------------------------------------
StepOf(x) == <<x.basis, x.node>>

\* Within one call execution_id names the step: all attempts share it, and a node
\* that a loop calls again gets another one.
KeysNameSteps ==
  \A x, y \in invoked :
    x.call = y.call /\ ~x.child /\ ~y.child =>
      (x.key = y.key <=> StepOf(x) = StepOf(y))

\* "Must survive crash/resume": a step that is executed again from the same
\* checkpoint has the execution_id that it had before.
KeySurvivesResume ==
  \A x, y \in invoked :
    ~x.child /\ ~y.child /\ StepOf(x) = StepOf(y) => x.key = y.key

\* A human's input reaches one invocation of a call, the first attempt of its
\* first step: neither a retry nor a child nor a later visit sees it again.
InputReachesFirstAttempt ==
  \A x \in invoked :
    x.input =>
      /\ x.attempt = 0 /\ ~x.child
      /\ \A y \in invoked : y.call = x.call /\ y # x => ~y.input /\ y.basis >= x.basis

\* A pause is at least 7/8 of the exponential backoff and at most 9/8 of
\* max_delay_ms: jitter is added after the cap and may exceed it.
PauseInRange ==
  \A w \in Workers :
    LET p == pause[w]
    IN p # NoPause =>
         /\ 8 * p.delay >= 7 * Capped(p.after)
         /\ 8 * p.delay <= 9 * MaxDelay

\* The ring holds the last records of its process, as many as the limit allows: those
\* of node calls, pushed by the step loop, and those of answers, pushed by
\* resume_with_input after an eviction loop of its own.
RecordsAreTheLast ==
  \A w \in Workers :
    LET all == recorded[w]
    IN records[w] = SubSeq(all, IF Len(all) > RecordLimit THEN Len(all) - RecordLimit + 1 ELSE 1,
                           Len(all))
=============================================================================

---------------------------- MODULE DagBuilder ----------------------------
(***************************************************************************)
(* DAGBuilder::build: vetting the step types, resolving dependency names   *)
(* to node ids, and Kahn's algorithm.  One action is one stage before the  *)
(* algorithm and one iteration of a loop inside it.                        *)
(*                                                                         *)
(* The id of a node is the position of the entry whose random UUID it got: *)
(* name_to_id keeps one id per step type, that of the last entry.          *)
(*                                                                         *)
(* `phase` is where build stands: "vet" (allowlist), "resolve" (names),    *)
(* "fill" (the queue's initial filter), "pop" (while let), "scan" (the     *)
(* loop over the popped node's dependents), "done" (it has returned) or    *)
(* "panic" (a subtraction overflowed in a build that checks for it).       *)
(***************************************************************************)
EXTENDS Naturals, Sequences, FiniteSets

CONSTANTS
  Names,             \* step types
  Inputs,            \* the entry lists that callers build
  Allowlists,        \* the sets of step types given to allow_step_types
  Unconstrained,     \* the None of allowed_step_types
  UsizeMax,          \* usize::MAX
  OverflowChecks     \* the build profile panics on overflow (debug)

Entry == [type : Names, deps : Seq(Names)]

ASSUME InputAssumption == /\ Inputs \subseteq Seq(Entry)
                          /\ \A a \in Allowlists : a \subseteq Names
                          /\ Unconstrained \notin Allowlists
ASSUME BuildAssumption == /\ UsizeMax \in Nat
                          /\ \A e \in Inputs : \A k \in 1..Len(e) :
                               Len(e[k].deps) <= UsizeMax
                          /\ OverflowChecks \in BOOLEAN

VARIABLES entries,   \* DAGBuilder::entries
          allowed,   \* DAGBuilder::allowed_step_types
          phase,
          inDegree,  \* in_degree
          queue,     \* indices with an in-degree of zero, not popped yet
          visited,   \* how many were popped
          popped,    \* which were popped (history, the code only counts)
          idx,       \* the index popped last
          i,         \* the iteration of the loop in progress
          verdict    \* what build returned

vars == <<entries, allowed, phase, inDegree, queue, visited, popped, idx, i, verdict>>

Verdicts == {"none", "accepted", "not allowed", "not found", "cycle"}

n == Len(entries)

\* The step types that name_to_id knows, and the id it keeps for one.
Known(e) == {e[k].type : k \in 1..Len(e)}
IdOf(e, name) ==
  CHOOSE k \in 1..Len(e) : e[k].type = name /\ \A l \in (k + 1)..Len(e) : e[l].type # name

AllFound(e) == \A k \in 1..Len(e) : \A d \in 1..Len(e[k].deps) : e[k].deps[d] \in Known(e)

\* dag.nodes: the id and the resolved depends_on of each.
NodeId(e, k) == IdOf(e, e[k].type)
DependsOn(e, k) == {IdOf(e, e[k].deps[d]) : d \in 1..Len(e[k].deps)}

TypeOK == /\ entries \in Seq(Entry)
          /\ allowed \in Allowlists \cup {Unconstrained}
          /\ phase \in {"vet", "resolve", "fill", "pop", "scan", "done", "panic"}
          /\ inDegree \in Seq(0..UsizeMax)
          /\ queue \in Seq(1..n)
          /\ visited \in Nat
          /\ popped \subseteq 1..n
          /\ idx \in 0..n
          /\ i \in 1..(n + 1)
          /\ verdict \in Verdicts

Init == /\ entries \in Inputs
        /\ allowed \in Allowlists \cup {Unconstrained}
        /\ phase = "vet"
        /\ inDegree = <<>>
        /\ queue = <<>>
        /\ visited = 0
        /\ popped = {}
        /\ idx = 0
        /\ i = 1
        /\ verdict = "none"

input == <<entries, allowed>>
kahn == <<inDegree, queue, visited, popped, idx, i>>

Return(v) == phase' = "done" /\ verdict' = v

-----------------------------------------------------------------------------
(* Before the algorithm. *)

Offenders == {k \in 1..n : entries[k].type \notin allowed}

RejectStepTypes ==
  /\ phase = "vet"
  /\ allowed # Unconstrained
  /\ Offenders # {}
  /\ Return("not allowed")
  /\ UNCHANGED <<input, kahn>>

PassStepTypes ==
  /\ phase = "vet"
  /\ allowed # Unconstrained => Offenders = {}
  /\ phase' = "resolve"
  /\ UNCHANGED <<input, kahn, verdict>>

RejectNames ==
  /\ phase = "resolve"
  /\ ~AllFound(entries)
  /\ Return("not found")
  /\ UNCHANGED <<input, kahn>>

\* Fault: the dependency of a node on itself is not counted.
DegreeWithoutSelf(k) ==
  Cardinality({d \in 1..Len(entries[k].deps) : entries[k].deps[d] # entries[k].type})

\* in_degree counts the dependencies as they are listed, repeated ones too.
DegreeOf(k) == Len(entries[k].deps)

ResolveNames ==
  /\ phase = "resolve"
  /\ AllFound(entries)
  /\ inDegree' = [k \in 1..n |-> DegreeOf(k)]
  /\ phase' = "fill"
  /\ i' = 1
  /\ UNCHANGED <<input, queue, visited, popped, idx, verdict>>

-----------------------------------------------------------------------------
(* Kahn's algorithm. *)

\* Fault: indices are taken to begin with zero.
FillFromZero ==
  /\ phase = "fill"
  /\ i <= n
  /\ queue' = IF inDegree[i] = 0 THEN Append(queue, i - 1) ELSE queue
  /\ i' = i + 1
  /\ UNCHANGED <<input, phase, inDegree, visited, popped, idx, verdict>>

\* Fault: the filter ends one index early.
FillAllButLast ==
  /\ phase = "fill"
  /\ i <= n
  /\ queue' = IF inDegree[i] = 0 /\ i < n THEN Append(queue, i) ELSE queue
  /\ i' = i + 1
  /\ UNCHANGED <<input, phase, inDegree, visited, popped, idx, verdict>>

Fill ==
  /\ phase = "fill"
  /\ i <= n
  /\ queue' = IF inDegree[i] = 0 THEN Append(queue, i) ELSE queue
  /\ i' = i + 1
  /\ UNCHANGED <<input, phase, inDegree, visited, popped, idx, verdict>>

Filled ==
  /\ phase = "fill"
  /\ i > n
  /\ phase' = "pop"
  /\ UNCHANGED <<input, kahn, verdict>>

Pop ==
  /\ phase = "pop"
  /\ queue # <<>>
  /\ idx' = Head(queue)
  /\ queue' = Tail(queue)
  /\ visited' = visited + 1
  /\ popped' = popped \cup {Head(queue)}
  /\ i' = 1
  /\ phase' = "scan"
  /\ UNCHANGED <<input, inDegree, verdict>>

\* in_degree[i] -= 1 in a build that does not check for overflow.
Decremented(d) == IF d = 0 THEN UsizeMax ELSE d - 1

WaitsForPopped(k) == NodeId(entries, idx) \in DependsOn(entries, k)

\* Fault: the node is queued when one dependency is left.
QueuedEarly ==
  /\ phase = "scan"
  /\ i <= n
  /\ WaitsForPopped(i)
  /\ ~(OverflowChecks /\ inDegree[i] = 0)
  /\ inDegree' = [inDegree EXCEPT ![i] = Decremented(@)]
  /\ queue' = IF inDegree'[i] <= 1 THEN Append(queue, i) ELSE queue
  /\ i' = i + 1
  /\ UNCHANGED <<input, phase, visited, popped, idx, verdict>>

Decrement ==
  /\ phase = "scan"
  /\ i <= n
  /\ WaitsForPopped(i)
  /\ ~(OverflowChecks /\ inDegree[i] = 0)
  /\ inDegree' = [inDegree EXCEPT ![i] = Decremented(@)]
  /\ queue' = IF inDegree'[i] = 0 THEN Append(queue, i) ELSE queue
  /\ i' = i + 1
  /\ UNCHANGED <<input, phase, visited, popped, idx, verdict>>

Overflow ==
  /\ phase = "scan"
  /\ i <= n
  /\ WaitsForPopped(i)
  /\ OverflowChecks
  /\ inDegree[i] = 0
  /\ phase' = "panic"
  /\ UNCHANGED <<input, kahn, verdict>>

Skip ==
  /\ phase = "scan"
  /\ i <= n
  /\ ~WaitsForPopped(i)
  /\ i' = i + 1
  /\ UNCHANGED <<input, phase, inDegree, queue, visited, popped, idx, verdict>>

Scanned ==
  /\ phase = "scan"
  /\ i > n
  /\ phase' = "pop"
  /\ UNCHANGED <<input, kahn, verdict>>

\* Fault: the visited nodes are not compared with all nodes.
AcceptUnchecked ==
  /\ phase = "pop"
  /\ queue = <<>>
  /\ Return("accepted")
  /\ UNCHANGED <<input, kahn>>

Accept ==
  /\ phase = "pop"
  /\ queue = <<>>
  /\ visited = n
  /\ Return("accepted")
  /\ UNCHANGED <<input, kahn>>

RejectCycle ==
  /\ phase = "pop"
  /\ queue = <<>>
  /\ visited # n
  /\ Return("cycle")
  /\ UNCHANGED <<input, kahn>>

Next == \/ RejectStepTypes \/ PassStepTypes \/ RejectNames \/ ResolveNames
        \/ Fill \/ Filled \/ Pop \/ Decrement \/ Overflow \/ Skip \/ Scanned
        \/ Accept \/ RejectCycle

Spec == Init /\ [][Next]_vars

\* build is one synchronous call: it runs until it returns.
FairSpec == Spec /\ WF_vars(Next)

-----------------------------------------------------------------------------
(* What the entries say, without the algorithm. *)

DistinctTypes(e) == \A k, l \in 1..Len(e) : e[k].type = e[l].type => k = l

NoRepeats(e) == \A k \in 1..Len(e) : \A c, d \in 1..Len(e[k].deps) :
                  e[k].deps[c] = e[k].deps[d] => c = d

\* A cycle is a set of nodes each of which waits for one of the set.
Cyclic(e) ==
  \E S \in SUBSET (1..Len(e)) : S # {} /\ \A k \in S : DependsOn(e, k) \cap S # {}

\* "Returns an error if [...] a cycle is detected": an accepted DAG has none, all
\* its names are known and its step types allowed, repeated dependencies or not.
\* The wave executor relies on it to make progress until every node has run.
AcceptedIsSound ==
  verdict = "accepted" /\ DistinctTypes(entries) =>
    /\ ~Cyclic(entries)
    /\ AllFound(entries)
    /\ allowed # Unconstrained => Known(entries) \subseteq allowed

\* Only a cycle is reported as one, provided that no dependency is repeated.
ReportedCycleIsReal ==
  verdict = "cycle" /\ DistinctTypes(entries) /\ NoRepeats(entries) => Cyclic(entries)

\* in_degree[i] -= 1 never goes below zero: the builder does not panic, and in a
\* release build does not wrap, when step types are distinct.
NoUnderflow ==
  DistinctTypes(entries) =>
    /\ phase # "panic"
    /\ phase = "scan" /\ i <= n /\ WaitsForPopped(i) => inDegree[i] > 0

\* The loops end and build returns: every node is queued and popped at most once.
BuildReturns == DistinctTypes(entries) ~> phase = "done"
=============================================================================

--------------------------- MODULE MCThreadRuns ---------------------------
(***************************************************************************)
(* Small graphs for ThreadRuns: a node `a` that asks a human, and its      *)
(* successor `b`, with the callers' inputs and outcomes each run needs.    *)
(***************************************************************************)
EXTENDS ThreadRuns, FiniteSets, TLC

CONSTANTS a, b, i, j

Ok(event)   == [kind |-> "ok", event |-> event]
Yield(k)    == [kind |-> "yield", request |-> k]
Retryable   == [kind |-> "retryable"]
Failed      == [kind |-> "fail"]

\* a -> b -> __END__, and a conditional edge that may loop.
LineEdges == (a :> {b}) @@ (b :> {End})
LoopEdges == (a :> {b}) @@ (b :> {a, End})
\* b may name a target that no node has.
BrokenEdges == (a :> {b}) @@ (b :> {a, Missing})

\* Nodes of which nothing is known: with and without the input, any outcome.
AnyAnswer(asks) == {Ok(NoEvent), Failed} \cup {Yield(k) : k \in asks}
AnyOutcomes ==
  (a :> [input \in BOOLEAN |-> AnyAnswer({i})]) @@
  (b :> [input \in BOOLEAN |-> AnyAnswer({j}) \cup {Retryable}])

\* The approval node of the guide: it yields until it is given the input.
ApprovalOutcomes ==
  (a :> [input \in BOOLEAN |-> IF input THEN {Ok(NoEvent), Retryable} ELSE {Yield(i)}]) @@
  (b :> [input \in BOOLEAN |-> {Ok(NoEvent), Failed}])

WorkerSymmetry == Permutations(Workers)
=============================================================================

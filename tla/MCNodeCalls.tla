---------------------------- MODULE MCNodeCalls ----------------------------
(* Graphs for NodeCalls: `a` loops over the dynamic node `b`. *)
EXTENDS MCThreadRuns, NodeCalls

\* a is flaky and asks once; b runs a as its child.
FlakyOutcomes ==
  (a :> [input \in BOOLEAN |-> {Ok(NoEvent), Retryable} \cup IF input THEN {} ELSE {Yield(i)}]) @@
  (b :> [input \in BOOLEAN |-> {Ok(NoEvent), Failed}])
=============================================================================

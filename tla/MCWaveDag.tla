----------------------------- MODULE MCWaveDag -----------------------------
(***************************************************************************)
(* Dependency graphs and node outcomes for the runs of WaveDag.            *)
(***************************************************************************)
EXTENDS WaveDag

\* Every way the nodes may depend on each other, cycles and self-loops too.
AllGraphs == [Nodes -> SUBSET Nodes]

\* Three nodes of which one depends on another: two apart, chains in both orders, a
\* fork, joins of a known and of an unknown step type, all dependencies that there can
\* be, and a cycle behind a node.
Shapes == {<<{}, {}, {1}>>, <<{}, {1}, {2}>>, <<{2}, {3}, {}>>, <<{}, {1}, {1}>>,
           <<{2, 3}, {}, {}>>, <<{}, {}, {1, 2}>>, <<{}, {1}, {1, 2}>>, <<{}, {1, 3}, {2}>>}

Pair == {<<{}, {}>>}
Chain == {<<{}, {1}>>}

\* Every step type is known, or all but that of a node 3 that joins 1 and 2.
AllKnown   == [g \in Graphs |-> Nodes]
JoinUnknown == [g \in Graphs |-> IF g[3] = {1, 2} THEN {1, 2} ELSE Nodes]

OkOnly    == [n \in Nodes |-> {"ok"}]
OkOrYield == [n \in Nodes |-> {"ok", "yield"}]
AnythingButYield == [n \in Nodes |-> OutcomeKinds \ {"yield"}]
Anything  == [n \in Nodes |-> OutcomeKinds]
=============================================================================

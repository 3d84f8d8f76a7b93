---------------------------- MODULE DagProgress ----------------------------
(***************************************************************************)
(* What the checkpoints of a DAG run promise, without calls, waves or      *)
(* statuses: the completed nodes could have been completed one after       *)
(* another in the order of their dependencies, and they only grow, over    *)
(* failures and restarts, until the DAG is built again or the answer to a  *)
(* wave that yielded gives the progress up.                                *)
(***************************************************************************)
EXTENDS Naturals

CONSTANTS Nodes, Graphs

VARIABLES deps,         \* Nodes -> depends_on
          completed,    \* the nodes that the checkpoint holds as Done
          build         \* which build of the DAG it holds, 0 for none

Init == deps \in Graphs /\ completed = {} /\ build = 0

\* Each comes after its dependencies, and no nodes wait for one another.
Completable(S) ==
  /\ \A n \in S : deps[n] \subseteq S
  /\ \A T \in SUBSET S : T # {} => \E n \in T : deps[n] \cap T = {}

Save == /\ build' \in Nat \ {0}
        /\ build' >= build
        /\ build' = build => completed \subseteq completed'
        /\ completed' \in SUBSET Nodes
        /\ Completable(completed')
        /\ UNCHANGED deps

Abandon == build' = 0 /\ completed' = {} /\ UNCHANGED deps

Spec == Init /\ [][Save \/ Abandon]_<<deps, completed, build>>
=============================================================================

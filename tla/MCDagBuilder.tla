--------------------------- MODULE MCDagBuilder ---------------------------
(***************************************************************************)
(* Entry lists for DagBuilder.  Every list of three entries of distinct    *)
(* step types with up to two dependencies each, repeated and unknown ones  *)
(* included; some with three; some that share a step type.                 *)
(***************************************************************************)
EXTENDS DagBuilder

CONSTANTS a, b, c, unknown

E(type, deps) == [type |-> type, deps |-> deps]

\* Dependency lists of up to two names, repeated ones included.
UpToTwo == {<<>>} \cup {<<x>> : x \in Names} \cup {<<x, y>> : x, y \in Names}

ThreeOf(Deps) == {<<E(a, p), E(b, q), E(c, r)>> : p, q, r \in Deps}

\* Two entries share the step type `a`.
Shared == {<<E(a, p), E(a, q), E(b, r)>> : p, q, r \in {<<>>, <<a>>, <<b>>, <<a, b>>}}
          \cup {<<E(a, <<>>), E(a, <<>>), E(c, <<a, b>>), E(b, <<c>>)>>}

ThreeDeep == {<<E(a, p), E(b, q), E(c, r)>> :
                p, q, r \in {<<>>, <<a, b, c>>, <<b, b, a>>, <<c>>}}

AllInputs == {<<>>} \cup ThreeOf(UpToTwo) \cup Shared \cup ThreeDeep

SomeLists == {{}, {a, c}}
=============================================================================

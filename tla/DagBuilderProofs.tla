------------------------- MODULE DagBuilderProofs -------------------------
(***************************************************************************)
(* What DAGBuilder::build returns, for entry lists of every length: Kahn's *)
(* counters never underflow, an accepted DAG has no cycle, and a reported  *)
(* cycle is one.                                                           *)
(***************************************************************************)
EXTENDS DagBuilder, FunctionTheorems, FiniteSetTheorems, TLAPS

-----------------------------------------------------------------------------
(* Facts about one entry list. *)

\* An entry list from which the algorithm starts, with distinct step types.
Sound(e) == e \in Inputs /\ DistinctTypes(e) /\ AllFound(e)

\* With distinct step types the id of a known name is the position of its entry.
LEMMA IdOfKnown ==
  ASSUME NEW e \in Inputs, DistinctTypes(e), NEW name \in Known(e)
  PROVE  IdOf(e, name) \in 1..Len(e) /\ e[IdOf(e, name)].type = name
<1>1. PICK k \in 1..Len(e) : e[k].type = name
  BY DEF Known
<1>2. Len(e) \in Nat
  BY InputAssumption
<1>3. \A l \in (k + 1)..Len(e) : l \in 1..Len(e) /\ l # k
  BY <1>2
<1>4. \A l \in (k + 1)..Len(e) : e[l].type # name
  BY <1>1, <1>3 DEF DistinctTypes
<1> QED
  BY <1>1, <1>4 DEF IdOf

LEMMA NodeIdIsPosition ==
  ASSUME NEW e \in Inputs, DistinctTypes(e), NEW k \in 1..Len(e)
  PROVE  NodeId(e, k) = k
<1>1. e[k].type \in Known(e)
  BY DEF Known
<1> QED
  BY <1>1, IdOfKnown DEF NodeId, DistinctTypes

\* The dependencies of a node are nodes, at most as many as it lists, and as many
\* if it lists none twice.
LEMMA DependenciesCounted ==
  ASSUME NEW e, Sound(e), NEW k \in 1..Len(e)
  PROVE  /\ DependsOn(e, k) \subseteq 1..Len(e)
         /\ IsFiniteSet(DependsOn(e, k))
         /\ Len(e[k].deps) \in 0..UsizeMax
         /\ Cardinality(DependsOn(e, k)) \in Nat
         /\ Cardinality(DependsOn(e, k)) <= Len(e[k].deps)
         /\ NoRepeats(e) => Cardinality(DependsOn(e, k)) = Len(e[k].deps)
<1> DEFINE m == Len(e[k].deps)
           f == [d \in 1..m |-> IdOf(e, e[k].deps[d])]
           D == DependsOn(e, k)
<1>1. e \in Seq(Entry) /\ DistinctTypes(e) /\ AllFound(e) /\ e \in Inputs
  BY InputAssumption DEF Sound
<1>2. m \in 0..UsizeMax
  <2>1. e[k] \in Entry
    BY <1>1
  <2>2. m \in Nat
    BY <2>1 DEF Entry
  <2> QED
    BY <1>1, <2>2, BuildAssumption
<1>3. \A d \in 1..m : f[d] \in 1..Len(e) /\ e[f[d]].type = e[k].deps[d]
  BY <1>1, IdOfKnown DEF AllFound
<1>4. D \subseteq 1..Len(e)
  BY <1>3 DEF DependsOn
<1>5. f \in Surjection(1..m, D)
  BY DEF DependsOn, Surjection
<1>6. IsFiniteSet(1..m) /\ Cardinality(1..m) = m
  <2>1. m \in Nat
    BY <1>2, BuildAssumption
  <2> HIDE DEF m
  <2>2. IsFiniteSet(1..m) /\ Cardinality(1..m) = IF 1 > m THEN 0 ELSE m - 1 + 1
    BY <2>1, FS_Interval
  <2> QED
    BY <2>1, <2>2
<1>7. IsFiniteSet(D) /\ Cardinality(D) <= m
  BY <1>5, <1>6, FS_Surjection
<1>8. Cardinality(D) \in Nat
  BY <1>7, FS_CardinalityType
<1>9. ASSUME NoRepeats(e) PROVE Cardinality(D) = m
  <2>1. ASSUME NEW c \in 1..m, NEW d \in 1..m, f[c] = f[d]
        PROVE  c = d
    <3>1. e[f[c]].type = e[k].deps[c] /\ e[f[d]].type = e[k].deps[d]
      BY <1>3
    <3>2. e[k].deps[c] = e[k].deps[d]
      <4> HIDE DEF f
      <4> QED BY <2>1, <3>1
    <3> QED
      BY <1>9, <3>2 DEF NoRepeats
  <2>2. f \in Injection(1..m, D)
    BY <1>5, <2>1 DEF Injection, IsInjective, Surjection
  <2> QED
    BY <1>5, <1>6, <2>2, FS_Surjection
<1> QED
  BY <1>2, <1>4, <1>7, <1>8, <1>9

-----------------------------------------------------------------------------
(* The inductive invariant. *)

\* The nodes taken off k's in-degree so far: those popped, but for the last one
\* while the scan has not come to k.
Applied(k) == IF phase = "scan" /\ k >= i THEN popped \ {idx} ELSE popped

Queued == {queue[q] : q \in 1..Len(queue)}

\* The in-degree of k is the number of its listed dependencies minus those applied.
Counts == \A k \in 1..n :
            inDegree[k] = Len(entries[k].deps)
                          - Cardinality(DependsOn(entries, k) \cap Applied(k))

\* A node is in the queue or popped exactly when its in-degree is zero, once.
QueueIsReady ==
  /\ \A p, q \in 1..Len(queue) : queue[p] = queue[q] => p = q
  /\ Queued \cap popped = {}
  /\ \A k \in Queued \cup popped : inDegree[k] = 0
  /\ \A k \in 1..n : inDegree[k] = 0 /\ (phase = "fill" => k < i) => k \in Queued \cup popped
  /\ phase = "fill" => popped = {} /\ \A k \in Queued : k < i

\* No cycle among the popped nodes.
PoppedAcyclic ==
  \A S \in SUBSET popped : S # {} => \E k \in S : DependsOn(entries, k) \cap S = {}

KahnInv ==
  /\ phase = "scan" => idx \in popped
  /\ visited = Cardinality(popped)
  /\ Counts
  /\ QueueIsReady
  /\ PoppedAcyclic

Working == {"fill", "pop", "scan"}

Shaped == phase \in Working => inDegree \in [1..n -> 0..UsizeMax]

Vetted == phase \in Working \cup {"resolve"} /\ allowed # Unconstrained
            => Known(entries) \subseteq allowed

Resolved == phase \in Working => AllFound(entries)

Returned == verdict # "none" => phase = "done"

Untouched == phase \in {"vet", "resolve"} => queue = <<>> /\ visited = 0 /\ popped = {}

Counting == DistinctTypes(entries) => /\ phase # "panic"
                                      /\ phase \in Working => KahnInv

BuilderInv == /\ entries \in Inputs
              /\ TypeOK
              /\ Shaped
              /\ Vetted
              /\ Resolved
              /\ Returned
              /\ Untouched
              /\ Counting
              /\ AcceptedIsSound
              /\ ReportedCycleIsReal

-----------------------------------------------------------------------------
(* Types and the stages before the algorithm. *)

LEMMA AppendTyped ==
  ASSUME NEW S, NEW s \in Seq(S), NEW x \in S
  PROVE  Append(s, x) \in Seq(S)
OBVIOUS

LEMMA IntervalCounted ==
  ASSUME NEW m \in Nat
  PROVE  IsFiniteSet(1..m) /\ Cardinality(1..m) = m
<1>1. IsFiniteSet(1..m) /\ Cardinality(1..m) = IF 1 > m THEN 0 ELSE m - 1 + 1
  BY FS_Interval
<1> QED
  BY <1>1

LEMMA FunctionTyped ==
  ASSUME NEW S, NEW m \in Nat, NEW f \in [1..m -> S]
  PROVE  f \in Seq(S)
BY SMT

LEMMA HeadTailTyped ==
  ASSUME NEW S, NEW s \in Seq(S), s # <<>>
  PROVE  Head(s) \in S /\ Tail(s) \in Seq(S)
OBVIOUS

LEMMA InitialTypes == Init => entries \in Inputs /\ TypeOK /\ Shaped
<1> SUFFICES ASSUME Init PROVE entries \in Inputs /\ TypeOK /\ Shaped
  OBVIOUS
<1>1. entries \in Seq(Entry)
  BY InputAssumption DEF Init
<1>2. n \in Nat
  BY <1>1 DEF n
<1> QED
  BY <1>1, <1>2 DEF Init, TypeOK, Shaped, Working, Verdicts

LEMMA TypedStep ==
  ASSUME entries \in Inputs, TypeOK, Shaped, [Next]_vars
  PROVE  entries' \in Inputs /\ TypeOK' /\ Shaped'
<1>1. entries' = entries /\ allowed' = allowed /\ n' = n
  BY DEF Next, RejectStepTypes, PassStepTypes, RejectNames, ResolveNames, Fill, Filled, Pop,
         Decrement, Overflow, Skip, Scanned, Accept, RejectCycle, input, vars, n
<1>2. n \in Nat
  BY DEF TypeOK, n
<1>3. \A f \in [1..n -> 0..UsizeMax] : f \in Seq(0..UsizeMax)
  BY <1>2, FunctionTyped
<1>4. CASE UNCHANGED vars
  BY <1>4, <1>1 DEF vars, TypeOK, Shaped
<1>5. CASE RejectStepTypes \/ PassStepTypes \/ RejectNames \/ Overflow \/ Accept \/ RejectCycle
  BY <1>5, <1>1 DEF RejectStepTypes, PassStepTypes, RejectNames, Overflow, Accept, RejectCycle,
                    Return, kahn, TypeOK, Shaped, Working, Verdicts
<1>6. CASE Filled \/ Scanned
  BY <1>6, <1>1 DEF Filled, Scanned, kahn, TypeOK, Shaped, Working
<1>7. CASE ResolveNames
  <2>1. \A k \in 1..n : DegreeOf(k) \in 0..UsizeMax
    <3>1. \A k \in 1..n : entries[k] \in Entry
      BY DEF TypeOK, n
    <3>2. \A k \in 1..n : Len(entries[k].deps) \in Nat
      BY <3>1 DEF Entry
    <3> QED
      BY <3>2, BuildAssumption DEF DegreeOf, n
  <2>2. inDegree' \in [1..n -> 0..UsizeMax]
    BY <1>7, <2>1 DEF ResolveNames
  <2>3. inDegree' \in Seq(0..UsizeMax)
    BY <1>3, <2>2
  <2>4. i' \in 1..(n + 1)
    BY <1>2, <1>7 DEF ResolveNames
  <2> QED
    BY <1>7, <1>1, <2>2, <2>3, <2>4 DEF ResolveNames, TypeOK, Shaped, Working
<1>8. CASE Fill
  <2>1. i \in 1..n
    BY <1>2, <1>8 DEF Fill, TypeOK
  <2>2. queue' \in Seq(1..n)
    <3>1. queue \in Seq(1..n)
      BY DEF TypeOK
    <3>2. Append(queue, i) \in Seq(1..n)
      BY <3>1, <2>1, AppendTyped
    <3> QED
      BY <1>8, <3>1, <3>2 DEF Fill
  <2>3. i' \in 1..(n + 1)
    BY <1>2, <1>8, <2>1 DEF Fill
  <2> QED
    BY <1>8, <1>1, <2>2, <2>3 DEF Fill, TypeOK, Shaped, Working
<1>9. CASE Pop
  <2>1. Head(queue) \in 1..n /\ Tail(queue) \in Seq(1..n)
    <3>1. queue \in Seq(1..n)
      BY DEF TypeOK
    <3> QED
      BY <1>9, <3>1, HeadTailTyped DEF Pop
  <2>2. i' \in 1..(n + 1)
    BY <1>2, <1>9 DEF Pop
  <2>3. idx' \in 0..n /\ visited' \in Nat
    BY <1>2, <1>9, <2>1 DEF Pop, TypeOK
  <2>4. popped' \subseteq 1..n
    BY <1>9, <2>1 DEF Pop, TypeOK
  <2> QED
    BY <1>9, <1>1, <2>1, <2>2, <2>3, <2>4 DEF Pop, TypeOK, Shaped, Working
<1>10. CASE Skip
  <2>1. i' \in 1..(n + 1)
    BY <1>2, <1>10 DEF Skip, TypeOK
  <2> QED
    BY <1>10, <1>1, <2>1 DEF Skip, TypeOK, Shaped, Working
<1>11. CASE Decrement
  <2>1. i \in 1..n
    BY <1>2, <1>11 DEF Decrement, TypeOK
  <2>2. inDegree \in [1..n -> 0..UsizeMax]
    BY <1>11 DEF Decrement, Shaped, Working
  <2>3. Decremented(inDegree[i]) \in 0..UsizeMax
    BY <2>1, <2>2, BuildAssumption DEF Decremented
  <2>4. inDegree' \in [1..n -> 0..UsizeMax]
    BY <1>11, <2>1, <2>2, <2>3 DEF Decrement
  <2>5. inDegree' \in Seq(0..UsizeMax)
    BY <1>3, <2>4
  <2>6. queue' \in Seq(1..n)
    <3>1. queue \in Seq(1..n)
      BY DEF TypeOK
    <3>2. Append(queue, i) \in Seq(1..n)
      BY <3>1, <2>1, AppendTyped
    <3> QED
      BY <1>11, <3>1, <3>2 DEF Decrement
  <2>7. i' \in 1..(n + 1)
    BY <1>2, <1>11, <2>1 DEF Decrement
  <2> QED
    BY <1>11, <1>1, <2>4, <2>5, <2>6, <2>7 DEF Decrement, TypeOK, Shaped, Working
<1> QED
  BY <1>4, <1>5, <1>6, <1>7, <1>8, <1>9, <1>10, <1>11 DEF Next

LEMMA StagesStep ==
  ASSUME BuilderInv, [Next]_vars
  PROVE  Vetted' /\ Resolved' /\ Returned' /\ Untouched'
<1>1. CASE UNCHANGED vars
  BY <1>1 DEF vars, BuilderInv, Vetted, Resolved, Returned, Untouched, Working
<1>2. CASE PassStepTypes
  <2>1. allowed # Unconstrained => Known(entries) \subseteq allowed
    BY <1>2 DEF PassStepTypes, Offenders, Known, n
  <2> QED
    BY <1>2, <2>1 DEF PassStepTypes, input, kahn, BuilderInv, Vetted, Resolved, Returned,
                      Untouched, Working
<1>3. CASE RejectStepTypes \/ RejectNames \/ ResolveNames
  BY <1>3 DEF RejectStepTypes, RejectNames, ResolveNames, Return, input, kahn, BuilderInv,
              Vetted, Resolved, Returned, Untouched, Working
<1>4. CASE Fill \/ Filled \/ Pop \/ Decrement \/ Overflow \/ Skip \/ Scanned
  BY <1>4 DEF Fill, Filled, Pop, Decrement, Overflow, Skip, Scanned, input, kahn, BuilderInv,
              Vetted, Resolved, Returned, Untouched, Working
<1>5. CASE Accept \/ RejectCycle
  BY <1>5 DEF Accept, RejectCycle, Return, input, kahn, BuilderInv, Vetted, Resolved, Returned,
              Untouched, Working
<1> QED
  BY <1>1, <1>2, <1>3, <1>4, <1>5 DEF Next

-----------------------------------------------------------------------------
(* The counters of Kahn's algorithm. *)

LEMMA Running ==
  ASSUME BuilderInv, DistinctTypes(entries), phase \in Working
  PROVE  /\ Sound(entries) /\ KahnInv
         /\ n \in Nat /\ n = Len(entries) /\ UsizeMax \in Nat
         /\ inDegree \in [1..n -> 0..UsizeMax]
         /\ queue \in Seq(1..n) /\ i \in 1..(n + 1) /\ idx \in 0..n
         /\ popped \subseteq 1..n /\ IsFiniteSet(popped) /\ IsFiniteSet(1..n)
<1>1. n \in Nat /\ n = Len(entries)
  BY DEF BuilderInv, TypeOK, n
<1>2. IsFiniteSet(1..n)
  BY <1>1, FS_Interval
<1>3. popped \subseteq 1..n
  BY DEF BuilderInv, TypeOK
<1>4. IsFiniteSet(popped)
  BY <1>2, <1>3, FS_Subset
<1> QED
  BY <1>1, <1>2, <1>3, <1>4, BuildAssumption
     DEF BuilderInv, TypeOK, Shaped, Resolved, Counting, Sound

\* What has been taken off a node's in-degree is part of what it listed.
LEMMA CutCounted ==
  ASSUME BuilderInv, DistinctTypes(entries), phase \in Working, NEW k \in 1..n
  PROVE  LET D == DependsOn(entries, k)
             A == Applied(k)
         IN  /\ IsFiniteSet(D \cap A)
             /\ Cardinality(D \cap A) \in Nat
             /\ Cardinality(D \cap A) <= Cardinality(D)
             /\ Cardinality(D \cap A) = Cardinality(D) => D \subseteq A
             /\ A \subseteq popped
<1> DEFINE D == DependsOn(entries, k)
           A == Applied(k)
<1>1. IsFiniteSet(D)
  BY Running, DependenciesCounted
<1>2. D \cap A \in SUBSET D
  OBVIOUS
<1>3. /\ IsFiniteSet(D \cap A)
      /\ Cardinality(D \cap A) <= Cardinality(D)
      /\ Cardinality(D) = Cardinality(D \cap A) => D = D \cap A
  BY <1>1, <1>2, FS_Subset
<1>4. Cardinality(D \cap A) \in Nat
  BY <1>3, FS_CardinalityType
<1>5. A \subseteq popped
  BY DEF Applied
<1> QED
  BY <1>3, <1>4, <1>5

\* An in-degree of zero means that every dependency was popped.
LEMMA ZeroDegree ==
  ASSUME BuilderInv, DistinctTypes(entries), phase \in Working,
         NEW k \in 1..n, inDegree[k] = 0
  PROVE  DependsOn(entries, k) \subseteq Applied(k) /\ DependsOn(entries, k) \subseteq popped
<1> DEFINE C == Cardinality(DependsOn(entries, k) \cap Applied(k))
           m == Len(entries[k].deps)
<1>1. inDegree[k] = m - C
  BY Running DEF KahnInv, Counts
<1>2. m \in 0..UsizeMax /\ Cardinality(DependsOn(entries, k)) \in Nat
      /\ Cardinality(DependsOn(entries, k)) <= m
  BY Running, DependenciesCounted
<1>3. C \in Nat /\ C <= Cardinality(DependsOn(entries, k))
  BY CutCounted
<1>4. C = Cardinality(DependsOn(entries, k))
  <2> HIDE DEF C, m
  <2> QED BY <1>1, <1>2, <1>3, Running
<1> QED
  BY <1>4, CutCounted

\* With a node's dependency popped and the scan not past the node, there is
\* something left to take off.
LEMMA PositiveDegree ==
  ASSUME BuilderInv, DistinctTypes(entries), phase = "scan", i <= n, WaitsForPopped(i)
  PROVE  /\ i \in 1..n
         /\ idx \in DependsOn(entries, i) \ Applied(i)
         /\ inDegree[i] > 0
<1>1. phase \in Working
  BY DEF Working
<1>2. i \in 1..n
  BY <1>1, Running
<1>3. idx \in 1..n /\ NodeId(entries, idx) = idx
  BY <1>1, Running, NodeIdIsPosition DEF KahnInv, Sound
<1>4. idx \in DependsOn(entries, i) \ Applied(i)
  BY <1>1, <1>2, <1>3, Running DEF WaitsForPopped, Applied
<1>5. inDegree[i] # 0
  BY <1>1, <1>2, <1>4, ZeroDegree
<1>6. inDegree[i] \in 0..UsizeMax /\ UsizeMax \in Nat
  BY <1>1, <1>2, Running
<1> QED
  BY <1>2, <1>4, <1>5, <1>6

\* A step that takes nothing off keeps the counts.
LEMMA CountsKept ==
  ASSUME BuilderInv, DistinctTypes(entries), phase \in Working,
         entries' = entries, inDegree' = inDegree,
         \A k \in 1..n : DependsOn(entries, k) \cap Applied(k)'
                         = DependsOn(entries, k) \cap Applied(k)
  PROVE  Counts'
<1>1. \A k \in 1..n : inDegree[k] = Len(entries[k].deps)
                        - Cardinality(DependsOn(entries, k) \cap Applied(k)')
  BY Running DEF KahnInv, Counts
<1> QED
  BY <1>1 DEF Counts, n

-----------------------------------------------------------------------------
(* The steps of the algorithm.  In each, the entries and so the dependencies stay. *)

\* The elements of a queue after an append at its end, and after its head is popped.
LEMMA QueueAppended ==
  ASSUME NEW S, NEW s \in Seq(S), NEW x \in S
  PROVE  /\ {Append(s, x)[q] : q \in 1..Len(Append(s, x))} = {s[q] : q \in 1..Len(s)} \cup {x}
         /\ (\A p, q \in 1..Len(s) : s[p] = s[q] => p = q) /\ x \notin {s[q] : q \in 1..Len(s)}
              => \A p, q \in 1..Len(Append(s, x)) : Append(s, x)[p] = Append(s, x)[q] => p = q
<1> DEFINE t == Append(s, x)
<1>1. Len(s) \in Nat /\ Len(t) = Len(s) + 1
  OBVIOUS
<1>2. \A q \in 1..Len(s) : t[q] = s[q]
  OBVIOUS
<1>3. t[Len(s) + 1] = x
  OBVIOUS
<1>4. 1..Len(t) = 1..Len(s) \cup {Len(s) + 1}
  BY <1>1
<1> HIDE DEF t
<1>5. {t[q] : q \in 1..Len(t)} = {s[q] : q \in 1..Len(s)} \cup {x}
  BY <1>2, <1>3, <1>4
<1>6. ASSUME \A p, q \in 1..Len(s) : s[p] = s[q] => p = q, x \notin {s[q] : q \in 1..Len(s)},
             NEW p \in 1..Len(t), NEW q \in 1..Len(t), t[p] = t[q]
      PROVE  p = q
  BY <1>2, <1>3, <1>4, <1>6
<1> QED
  BY <1>5, <1>6 DEF t

LEMMA QueuePopped ==
  ASSUME NEW S, NEW s \in Seq(S), s # <<>>, \A p, q \in 1..Len(s) : s[p] = s[q] => p = q
  PROVE  /\ {Tail(s)[q] : q \in 1..Len(Tail(s))} = {s[q] : q \in 1..Len(s)} \ {Head(s)}
         /\ Head(s) \in {s[q] : q \in 1..Len(s)}
         /\ \A p, q \in 1..Len(Tail(s)) : Tail(s)[p] = Tail(s)[q] => p = q
<1> DEFINE t == Tail(s)
<1>1. Len(s) \in Nat /\ Len(s) > 0 /\ Len(t) = Len(s) - 1 /\ Head(s) = s[1]
  OBVIOUS
<1>2. \A q \in 1..Len(t) : t[q] = s[q + 1] /\ q + 1 \in 1..Len(s)
  BY <1>1
<1> HIDE DEF t
<1>3. \A q \in 1..Len(s) : q # 1 => q - 1 \in 1..Len(t) /\ t[q - 1] = s[q]
  <2> TAKE q \in 1..Len(s)
  <2> HAVE q # 1
  <2>1. q - 1 \in 1..Len(t) /\ (q - 1) + 1 = q
    BY <1>1
  <2> QED
    BY <1>2, <2>1
<1>4. \A q \in 1..Len(t) : t[q] # s[1]
  <2> TAKE q \in 1..Len(t)
  <2>1. q + 1 # 1 /\ 1 \in 1..Len(s) /\ q \in Nat
    BY <1>1
  <2> QED
    BY <1>2, <2>1
<1>5. {t[q] : q \in 1..Len(t)} \subseteq {s[q] : q \in 1..Len(s)} \ {Head(s)}
  BY <1>1, <1>2, <1>4
<1>6. {s[q] : q \in 1..Len(s)} \ {Head(s)} \subseteq {t[q] : q \in 1..Len(t)}
  BY <1>1, <1>3
<1>7. Head(s) \in {s[q] : q \in 1..Len(s)}
  BY <1>1
<1>8. ASSUME NEW p \in 1..Len(t), NEW q \in 1..Len(t), t[p] = t[q]
      PROVE  p = q
  <2>1. p + 1 = q + 1
    BY <1>2, <1>8
  <2> QED
    BY <2>1
<1> QED
  BY <1>5, <1>6, <1>7, <1>8 DEF t

LEMMA ResolveStep ==
  ASSUME BuilderInv, DistinctTypes(entries), ResolveNames
  PROVE  KahnInv'
<1>1. /\ entries' = entries /\ phase' = "fill" /\ popped' = {} /\ queue' = <<>> /\ i' = 1
      /\ visited' = 0 /\ n \in Nat
      /\ inDegree' = [k \in 1..n |-> Len(entries[k].deps)]
  BY DEF ResolveNames, BuilderInv, Untouched, input, DegreeOf, TypeOK, n
<1>2. Sound(entries)
  BY DEF ResolveNames, BuilderInv, Sound
<1>3. Counts'
  <2> SUFFICES ASSUME NEW k \in 1..n
               PROVE  Len(entries[k].deps) = Len(entries[k].deps)
                        - Cardinality(DependsOn(entries, k) \cap Applied(k)')
    BY <1>1 DEF Counts, n
  <2>1. Applied(k)' = {}
    BY <1>1 DEF Applied
  <2>2. Cardinality(DependsOn(entries, k) \cap Applied(k)') = 0
    BY <2>1, FS_EmptySet
  <2>3. Len(entries[k].deps) \in 0..UsizeMax
    BY <1>2, DependenciesCounted DEF n
  <2> QED
    BY <2>2, <2>3, BuildAssumption
<1>4. QueueIsReady'
  BY <1>1 DEF QueueIsReady, Queued, n
<1>5. PoppedAcyclic'
  BY <1>1 DEF PoppedAcyclic
<1>6. visited' = Cardinality(popped')
  BY <1>1, FS_EmptySet
<1> QED
  BY <1>1, <1>3, <1>4, <1>5, <1>6 DEF KahnInv

LEMMA FillStep ==
  ASSUME BuilderInv, DistinctTypes(entries), Fill
  PROVE  KahnInv'
<1>1. /\ phase = "fill" /\ phase' = "fill" /\ entries' = entries /\ popped' = popped
      /\ inDegree' = inDegree /\ visited' = visited /\ i' = i + 1 /\ i <= n
      /\ queue' = IF inDegree[i] = 0 THEN Append(queue, i) ELSE queue
  BY DEF Fill, input
<1>2. KahnInv /\ i \in 1..n /\ n \in Nat /\ queue \in Seq(1..n) /\ phase \in Working
  BY <1>1, Running DEF Working
<1>3. i \notin Queued
  BY <1>1, <1>2 DEF KahnInv, QueueIsReady
<1>4. Queued' = Queued \cup {k \in {i} : inDegree[k] = 0}
  BY <1>1, <1>2, QueueAppended DEF Queued
<1>5. \A p, q \in 1..Len(queue') : queue'[p] = queue'[q] => p = q
  BY <1>1, <1>2, <1>3, QueueAppended DEF Queued, KahnInv, QueueIsReady
<1>6. popped = {} /\ \A k \in Queued : k < i /\ k \in 1..n
  BY <1>1, <1>2 DEF KahnInv, QueueIsReady, Queued
<1>7. \A k \in 1..n : k < i + 1 => k < i \/ k = i
  BY <1>2
<1>8. \A k \in Queued' : k < i + 1
  BY <1>2, <1>4, <1>6
<1>9. QueueIsReady'
  BY <1>1, <1>2, <1>4, <1>5, <1>6, <1>7, <1>8 DEF KahnInv, QueueIsReady, n
<1>10. Counts'
  BY <1>1, <1>2, CountsKept DEF Applied
<1> QED
  BY <1>1, <1>2, <1>9, <1>10 DEF KahnInv, PoppedAcyclic

LEMMA FilledStep ==
  ASSUME BuilderInv, DistinctTypes(entries), Filled
  PROVE  KahnInv'
<1>1. /\ phase = "fill" /\ phase' = "pop" /\ entries' = entries /\ popped' = popped
      /\ inDegree' = inDegree /\ visited' = visited /\ queue' = queue /\ i > n
  BY DEF Filled, input, kahn
<1>2. KahnInv /\ n \in Nat /\ i \in 1..(n + 1) /\ phase \in Working
  BY <1>1, Running DEF Working
<1>3. \A k \in 1..n : k < i
  BY <1>1, <1>2
<1>4. QueueIsReady'
  BY <1>1, <1>2, <1>3 DEF KahnInv, QueueIsReady, Queued, n
<1>5. Counts'
  BY <1>1, <1>2, CountsKept DEF Applied
<1> QED
  BY <1>1, <1>2, <1>4, <1>5 DEF KahnInv, PoppedAcyclic

\* A popped node's dependencies were popped before it, so it closes no cycle.
LEMMA PopStep ==
  ASSUME BuilderInv, DistinctTypes(entries), Pop
  PROVE  KahnInv'
<1> DEFINE x == Head(queue)
<1>1. /\ phase = "pop" /\ phase' = "scan" /\ entries' = entries /\ inDegree' = inDegree
      /\ popped' = popped \cup {x} /\ visited' = visited + 1 /\ i' = 1 /\ idx' = x
      /\ queue' = Tail(queue) /\ queue # <<>>
  BY DEF Pop, input
<1>2. /\ KahnInv /\ n \in Nat /\ queue \in Seq(1..n) /\ phase \in Working
      /\ popped \subseteq 1..n /\ IsFiniteSet(popped)
  BY <1>1, Running DEF Working
<1>3. /\ Queued' = Queued \ {x} /\ x \in Queued /\ x \in 1..n
      /\ \A p, q \in 1..Len(queue') : queue'[p] = queue'[q] => p = q
  <2>1. \A p, q \in 1..Len(queue) : queue[p] = queue[q] => p = q
    BY <1>2 DEF KahnInv, QueueIsReady
  <2>2. x \in 1..n
    BY <1>1, <1>2, HeadTailTyped
  <2>3. {Tail(queue)[q] : q \in 1..Len(Tail(queue))} = Queued \ {x} /\ x \in Queued
    BY <1>1, <1>2, <2>1, QueuePopped DEF Queued
  <2>4. \A p, q \in 1..Len(Tail(queue)) : Tail(queue)[p] = Tail(queue)[q] => p = q
    BY <1>1, <1>2, <2>1, QueuePopped
  <2> QED
    BY <1>1, <2>2, <2>3, <2>4 DEF Queued
<1>4. x \notin popped /\ inDegree[x] = 0
  BY <1>2, <1>3 DEF KahnInv, QueueIsReady
<1>5. DependsOn(entries, x) \subseteq popped
  BY <1>2, <1>3, <1>4, ZeroDegree
<1>6. \A k \in popped : DependsOn(entries, k) \subseteq popped
  BY <1>2, ZeroDegree DEF KahnInv, QueueIsReady
<1>7. QueueIsReady'
  BY <1>1, <1>2, <1>3, <1>4 DEF KahnInv, QueueIsReady, n
<1>8. Counts'
  <2>1. \A k \in 1..n : Applied(k)' = popped /\ Applied(k) = popped
    BY <1>1, <1>4 DEF Applied
  <2> QED
    BY <1>1, <1>2, <2>1, CountsKept
<1>9. PoppedAcyclic'
  <2> SUFFICES ASSUME NEW S \in SUBSET (popped \cup {x}), S # {}
               PROVE  \E k \in S : DependsOn(entries, k) \cap S = {}
    BY <1>1 DEF PoppedAcyclic
  <2>1. CASE S = {x}
    BY <2>1, <1>4, <1>5
  <2>2. CASE S # {x}
    <3>1. S \ {x} \in SUBSET popped /\ S \ {x} # {}
      BY <2>2
    <3>2. PICK k \in S \ {x} : DependsOn(entries, k) \cap (S \ {x}) = {}
      BY <3>1, <1>2 DEF KahnInv, PoppedAcyclic
    <3>3. x \notin DependsOn(entries, k)
      BY <3>2, <1>4, <1>6
    <3> QED
      BY <3>2, <3>3
  <2> QED
    BY <2>1, <2>2
<1>10. visited' = Cardinality(popped')
  <2>1. Cardinality(popped \cup {x}) = Cardinality(popped) + 1
    BY <1>2, <1>4, FS_AddElement
  <2> QED
    BY <1>1, <1>2, <2>1 DEF KahnInv
<1> QED
  BY <1>1, <1>7, <1>8, <1>9, <1>10 DEF KahnInv

LEMMA DecrementStep ==
  ASSUME BuilderInv, DistinctTypes(entries), Decrement
  PROVE  KahnInv'
<1>1. /\ phase = "scan" /\ phase' = "scan" /\ entries' = entries /\ popped' = popped
      /\ visited' = visited /\ idx' = idx /\ i' = i + 1 /\ i <= n /\ WaitsForPopped(i)
      /\ inDegree' = [inDegree EXCEPT ![i] = Decremented(inDegree[i])]
      /\ queue' = IF inDegree'[i] = 0 THEN Append(queue, i) ELSE queue
  BY DEF Decrement, input
<1>2. /\ KahnInv /\ n \in Nat /\ queue \in Seq(1..n) /\ phase \in Working
      /\ inDegree \in [1..n -> 0..UsizeMax] /\ UsizeMax \in Nat /\ Sound(entries)
  BY <1>1, Running DEF Working
<1>0. PICK j \in 1..n : j = i
  BY <1>1, PositiveDegree
<1> DEFINE D == DependsOn(entries, j)
           A == Applied(j)
<1>3. idx \in D \ A /\ inDegree[j] > 0 /\ idx \in popped
  BY <1>0, <1>1, <1>2, PositiveDegree DEF KahnInv
<1>4. /\ inDegree'[j] = inDegree[j] - 1
      /\ \A k \in 1..n : k # j => inDegree'[k] = inDegree[k]
  BY <1>0, <1>1, <1>2, <1>3 DEF Decremented
<1>5. Applied(j)' = A \cup {idx}
  <2>1. j >= i /\ ~(j >= i + 1)
    BY <1>0, <1>2
  <2> QED
    BY <1>1, <1>3, <2>1 DEF Applied
<1>6. \A k \in 1..n : k # j => Applied(k)' = Applied(k)
  <2> TAKE k \in 1..n
  <2> HAVE k # j
  <2>1. k >= i + 1 <=> k >= i
    BY <1>0, <1>2
  <2> QED
    BY <1>1, <2>1 DEF Applied
<1>7. Counts'
  <2>1. Cardinality(D \cap Applied(j)') = Cardinality(D \cap A) + 1
    <3>1. D \cap Applied(j)' = (D \cap A) \cup {idx} /\ idx \notin D \cap A
      BY <1>3, <1>5
    <3>2. IsFiniteSet(D \cap A)
      BY <1>2, <1>3, CutCounted
    <3> HIDE DEF D, A
    <3>3. Cardinality((D \cap A) \cup {idx}) = Cardinality(D \cap A) + 1
      BY <3>1, <3>2, FS_AddElement
    <3> QED
      BY <3>1, <3>3
  <2>2. inDegree'[j] = Len(entries[j].deps) - Cardinality(D \cap Applied(j)')
    <3>1. inDegree[j] = Len(entries[j].deps) - Cardinality(D \cap A)
      BY <1>2, <1>3 DEF KahnInv, Counts
    <3>2. Cardinality(D \cap A) \in Nat /\ Len(entries[j].deps) \in 0..UsizeMax
      BY <1>2, <1>3, CutCounted, DependenciesCounted, Running
    <3>3. inDegree'[j] = inDegree[j] - 1
      BY <1>4
    <3> DEFINE c == Cardinality(D \cap A)
               L == Len(entries[j].deps)
               b == Cardinality(D \cap Applied(j)')
    <3>4. /\ c \in Nat /\ L \in Nat /\ b = c + 1
          /\ inDegree'[j] = (L - c) - 1
      BY <1>2, <2>1, <3>1, <3>2, <3>3
    <3> HIDE DEF c, L, b
    <3>5. inDegree'[j] = L - b
      BY <3>4
    <3> QED
      BY <3>5 DEF L, b
  <2>3. ASSUME NEW k \in 1..n, k # j
        PROVE  inDegree'[k] = Len(entries[k].deps)
                                - Cardinality(DependsOn(entries, k) \cap Applied(k)')
    BY <1>2, <1>4, <1>6, <2>3 DEF KahnInv, Counts
  <2> QED
    BY <1>1, <2>2, <2>3 DEF Counts, n
<1>8. j \notin Queued \cup popped
  <2>1. \A k \in Queued \cup popped : inDegree[k] = 0
    BY <1>2 DEF KahnInv, QueueIsReady
  <2> QED
    BY <1>3, <2>1
<1>9. Queued' = Queued \cup {k \in {j} : inDegree'[k] = 0}
  <2>1. CASE inDegree'[j] = 0
    <3>1. queue' = Append(queue, j)
      BY <1>0, <1>1, <2>1
    <3>2. n \in Nat /\ queue \in Seq(1..n) /\ j \in 1..n
      BY <1>2
    <3>3. {Append(queue, j)[q] : q \in 1..Len(Append(queue, j))}
            = {queue[q] : q \in 1..Len(queue)} \cup {j}
      <4> DEFINE m  == Len(queue)
                 s  == Append(queue, j)
      <4>1. /\ m \in Nat /\ Len(s) = m + 1 /\ s[m + 1] = j
            /\ \A q \in 1..m : s[q] = queue[q]
        BY <3>2
      <4>2. 1..(m + 1) = 1..m \cup {m + 1}
        BY <4>1
      <4>3. QED
        <5> HIDE DEF m, s
        <5>1. {s[q] : q \in 1..(m + 1)} = {s[q] : q \in 1..m} \cup {s[m + 1]}
          BY <4>2
        <5>2. {s[q] : q \in 1..m} = {queue[q] : q \in 1..m}
          BY <4>1
        <5>3. QED
          BY <4>1, <5>1, <5>2 DEF m, s
    <3> QED
      BY <2>1, <3>1, <3>3 DEF Queued
  <2>2. CASE inDegree'[j] # 0
    BY <1>0, <1>1, <2>2 DEF Queued
  <2> QED
    BY <2>1, <2>2
<1>10. \A p, q \in 1..Len(queue') : queue'[p] = queue'[q] => p = q
  <2>1. \A p, q \in 1..Len(queue) : queue[p] = queue[q] => p = q
    BY <1>2 DEF KahnInv, QueueIsReady
  <2>2. j \notin {queue[q] : q \in 1..Len(queue)}
    BY <1>8 DEF Queued
  <2>3. \A p, q \in 1..Len(Append(queue, j)) : Append(queue, j)[p] = Append(queue, j)[q] => p = q
    BY <1>2, <2>1, <2>2, QueueAppended
  <2> QED
    BY <1>0, <1>1, <2>1, <2>3
<1>11. Queued \subseteq 1..n /\ popped \subseteq 1..n
  <2>1. \A q \in 1..Len(queue) : queue[q] \in 1..n
    BY <1>2
  <2> QED
    BY <1>2, <2>1, Running DEF Queued
<1>12. QueueIsReady'
  <2>1. Queued' \cap popped' = {}
    BY <1>1, <1>2, <1>8, <1>9 DEF KahnInv, QueueIsReady
  <2>2. \A k \in Queued' \cup popped' : inDegree'[k] = 0
    BY <1>1, <1>2, <1>4, <1>8, <1>9, <1>11 DEF KahnInv, QueueIsReady
  <2>3. \A k \in 1..n : inDegree'[k] = 0 => k \in Queued' \cup popped'
    BY <1>1, <1>2, <1>4, <1>9 DEF KahnInv, QueueIsReady
  <2> QED
    BY <1>1, <1>10, <2>1, <2>2, <2>3 DEF QueueIsReady, n
<1> QED
  BY <1>1, <1>2, <1>3, <1>7, <1>12 DEF KahnInv, PoppedAcyclic

LEMMA SkipStep ==
  ASSUME BuilderInv, DistinctTypes(entries), Skip
  PROVE  KahnInv'
<1>1. /\ phase = "scan" /\ phase' = "scan" /\ entries' = entries /\ popped' = popped
      /\ visited' = visited /\ idx' = idx /\ i' = i + 1 /\ i <= n /\ ~WaitsForPopped(i)
      /\ inDegree' = inDegree /\ queue' = queue
  BY DEF Skip, input
<1>2. KahnInv /\ n \in Nat /\ phase \in Working /\ Sound(entries) /\ i \in 1..n
      /\ popped \subseteq 1..n
  BY <1>1, Running DEF Working
<1>3. idx \notin DependsOn(entries, i)
  BY <1>1, <1>2, NodeIdIsPosition DEF WaitsForPopped, KahnInv, Sound, n
<1>4. \A k \in 1..n : DependsOn(entries, k) \cap Applied(k)'
                      = DependsOn(entries, k) \cap Applied(k)
  <2> TAKE k \in 1..n
  <2>1. CASE k = i
    BY <2>1, <1>1, <1>3 DEF Applied
  <2>2. CASE k # i
    <3>1. k >= i + 1 <=> k >= i
      BY <1>2, <2>2
    <3> QED
      BY <1>1, <3>1 DEF Applied
  <2> QED
    BY <2>1, <2>2
<1>5. Counts'
  BY <1>1, <1>2, <1>4, CountsKept
<1>6. QueueIsReady'
  BY <1>1, <1>2 DEF KahnInv, QueueIsReady, Queued, n
<1> QED
  BY <1>1, <1>2, <1>5, <1>6 DEF KahnInv, PoppedAcyclic

LEMMA ScannedStep ==
  ASSUME BuilderInv, DistinctTypes(entries), Scanned
  PROVE  KahnInv'
<1>1. /\ phase = "scan" /\ phase' = "pop" /\ entries' = entries /\ popped' = popped
      /\ inDegree' = inDegree /\ visited' = visited /\ queue' = queue /\ i > n
  BY DEF Scanned, input, kahn
<1>2. KahnInv /\ n \in Nat /\ i \in 1..(n + 1) /\ phase \in Working
  BY <1>1, Running DEF Working
<1>3. \A k \in 1..n : ~(k >= i)
  BY <1>1, <1>2
<1>4. Counts'
  <2>1. \A k \in 1..n : Applied(k)' = Applied(k)
    BY <1>1, <1>3 DEF Applied
  <2> QED
    BY <1>1, <1>2, <2>1, CountsKept
<1>5. QueueIsReady'
  BY <1>1, <1>2 DEF KahnInv, QueueIsReady, Queued, n
<1> QED
  BY <1>1, <1>2, <1>4, <1>5 DEF KahnInv, PoppedAcyclic

-----------------------------------------------------------------------------
(* The verdicts. *)

\* All nodes popped, none of them on a cycle.
LEMMA AcceptStep ==
  ASSUME BuilderInv, Accept
  PROVE  AcceptedIsSound' /\ ReportedCycleIsReal'
<1>1. /\ phase = "pop" /\ entries' = entries /\ allowed' = allowed /\ verdict' = "accepted"
      /\ visited = n
  BY DEF Accept, Return, input
<1>2. ASSUME DistinctTypes(entries)
      PROVE  ~Cyclic(entries)
  <2>1. KahnInv /\ n \in Nat /\ n = Len(entries) /\ popped \subseteq 1..n /\ IsFiniteSet(1..n)
    BY <1>1, <1>2, Running DEF Working
  <2>2. Cardinality(1..n) = n
    BY <2>1, IntervalCounted
  <2>3. popped = 1..n
    BY <1>1, <2>1, <2>2, FS_Subset DEF KahnInv
  <2> QED
    BY <2>1, <2>3 DEF KahnInv, PoppedAcyclic, Cyclic
<1>3. AllFound(entries) /\ (allowed # Unconstrained => Known(entries) \subseteq allowed)
  BY <1>1 DEF BuilderInv, Resolved, Vetted, Working
<1> QED
  BY <1>1, <1>2, <1>3 DEF AcceptedIsSound, ReportedCycleIsReal

\* The nodes that were never popped wait for each other: they are the cycle.
LEMMA RejectStep ==
  ASSUME BuilderInv, RejectCycle
  PROVE  AcceptedIsSound' /\ ReportedCycleIsReal'
<1> DEFINE S == (1..n) \ popped
<1>1. /\ phase = "pop" /\ entries' = entries /\ verdict' = "cycle" /\ queue = <<>> /\ visited # n
  BY DEF RejectCycle, Return, input
<1>2. ASSUME DistinctTypes(entries), NoRepeats(entries)
      PROVE  Cyclic(entries)
  <2>1. /\ KahnInv /\ n \in Nat /\ n = Len(entries) /\ popped \subseteq 1..n
        /\ Sound(entries) /\ phase \in Working /\ UsizeMax \in Nat
    BY <1>1, <1>2, Running DEF Working
  <2>2. Cardinality(1..n) = n
    BY <2>1, IntervalCounted
  <2>3. S # {}
    BY <1>1, <2>1, <2>2 DEF KahnInv
  <2>4. Queued = {}
    BY <1>1 DEF Queued
  <2>5. ASSUME NEW k \in S
        PROVE  DependsOn(entries, k) \cap S # {}
    <3>1. inDegree[k] # 0
      BY <1>1, <2>1, <2>4, <2>5 DEF KahnInv, QueueIsReady
    <3>2. inDegree[k] = Len(entries[k].deps) - Cardinality(DependsOn(entries, k) \cap popped)
      BY <1>1, <2>1 DEF KahnInv, Counts, Applied
    <3>3. /\ Cardinality(DependsOn(entries, k)) = Len(entries[k].deps)
          /\ Len(entries[k].deps) \in 0..UsizeMax
          /\ DependsOn(entries, k) \subseteq 1..n
      BY <1>2, <2>1, DependenciesCounted
    <3>4. DependsOn(entries, k) \cap popped # DependsOn(entries, k)
      <4>1. ASSUME DependsOn(entries, k) \cap popped = DependsOn(entries, k)
            PROVE  FALSE
        <5>1. inDegree[k] = Len(entries[k].deps) - Len(entries[k].deps)
          BY <3>2, <3>3, <4>1
        <5>2. Len(entries[k].deps) \in Nat
          BY <2>1, <3>3
        <5> QED
          BY <3>1, <5>1, <5>2
      <4> QED
        BY <4>1
    <3> QED
      BY <3>3, <3>4
  <2> QED
    BY <2>1, <2>3, <2>5 DEF Cyclic
<1> QED
  BY <1>1, <1>2 DEF AcceptedIsSound, ReportedCycleIsReal

-----------------------------------------------------------------------------
(* Every step keeps the invariant. *)

LEMMA InitialInv == Init => BuilderInv
<1> SUFFICES ASSUME Init PROVE BuilderInv
  OBVIOUS
<1>1. entries \in Inputs /\ TypeOK /\ Shaped
  BY InitialTypes
<1> QED
  BY <1>1 DEF Init, BuilderInv, Vetted, Resolved, Returned, Untouched, Counting, Working,
              AcceptedIsSound, ReportedCycleIsReal

LEMMA InvStep == BuilderInv /\ [Next]_vars => BuilderInv'
<1> SUFFICES ASSUME BuilderInv, [Next]_vars PROVE BuilderInv'
  OBVIOUS
<1>1. entries' \in Inputs /\ TypeOK' /\ Shaped'
  BY TypedStep DEF BuilderInv
<1>2. Vetted' /\ Resolved' /\ Returned' /\ Untouched'
  BY StagesStep
<1>3. Counting'
  <2>1. entries' = entries
    BY DEF Next, RejectStepTypes, PassStepTypes, RejectNames, ResolveNames, Fill, Filled, Pop,
           Decrement, Overflow, Skip, Scanned, Accept, RejectCycle, input, vars
  <2> SUFFICES ASSUME DistinctTypes(entries)
               PROVE  phase' # "panic" /\ (phase' \in Working => KahnInv')
    BY <2>1 DEF Counting
  <2>2. phase # "panic"
    BY DEF BuilderInv, Counting
  <2>3. CASE UNCHANGED vars
    <3>1. phase \in Working => KahnInv
      BY Running
    <3> QED
      BY <2>2, <2>3, <3>1 DEF vars, KahnInv, Counts, QueueIsReady, Queued, PoppedAcyclic,
                              Applied, n
  <2>4. CASE RejectStepTypes \/ PassStepTypes \/ RejectNames \/ Accept \/ RejectCycle
    BY <2>4 DEF RejectStepTypes, PassStepTypes, RejectNames, Accept, RejectCycle, Return, Working
  <2>5. CASE ResolveNames
    BY <2>5, ResolveStep DEF ResolveNames
  <2>6. CASE Fill
    BY <2>6, FillStep DEF Fill
  <2>7. CASE Filled
    BY <2>7, FilledStep DEF Filled
  <2>8. CASE Pop
    BY <2>8, PopStep DEF Pop
  <2>9. CASE Decrement
    BY <2>9, DecrementStep DEF Decrement
  <2>10. CASE Overflow
    BY <2>10, PositiveDegree DEF Overflow
  <2>11. CASE Skip
    BY <2>11, SkipStep DEF Skip
  <2>12. CASE Scanned
    BY <2>12, ScannedStep DEF Scanned
  <2> QED
    BY <2>3, <2>4, <2>5, <2>6, <2>7, <2>8, <2>9, <2>10, <2>11, <2>12 DEF Next
<1>4. AcceptedIsSound' /\ ReportedCycleIsReal'
  <2>1. CASE Accept
    BY <2>1, AcceptStep
  <2>2. CASE RejectCycle
    BY <2>2, RejectStep
  <2>3. CASE RejectStepTypes \/ RejectNames
    BY <2>3 DEF RejectStepTypes, RejectNames, Return, AcceptedIsSound, ReportedCycleIsReal
  <2>4. CASE UNCHANGED <<entries, allowed, verdict>>
    BY <2>4 DEF BuilderInv, AcceptedIsSound, ReportedCycleIsReal
  <2> QED
    BY <2>1, <2>2, <2>3, <2>4
       DEF Next, PassStepTypes, ResolveNames, Fill, Filled, Pop, Decrement, Overflow, Skip,
           Scanned, input, vars
<1> QED
  BY <1>1, <1>2, <1>3, <1>4 DEF BuilderInv

LEMMA Invariance == Spec => []BuilderInv
<1> QED
  BY InitialInv, InvStep, PTL DEF Spec

-----------------------------------------------------------------------------
(* Theorems. *)

\* Every reachable state of build is well typed.
THEOREM BuilderTypeCorrect == Spec => []TypeOK
<1>1. BuilderInv => TypeOK
  BY DEF BuilderInv
<1> QED
  BY <1>1, Invariance, PTL

\* An accepted DAG has no cycle, known dependencies and allowed step types, for
\* every list of entries with distinct step types.
THEOREM AcceptedDagsAreSound == Spec => []AcceptedIsSound
<1>1. BuilderInv => AcceptedIsSound
  BY DEF BuilderInv
<1> QED
  BY <1>1, Invariance, PTL

\* "Cycle detected" is never said of an acyclic list without repeated dependencies.
THEOREM ReportedCyclesAreReal == Spec => []ReportedCycleIsReal
<1>1. BuilderInv => ReportedCycleIsReal
  BY DEF BuilderInv
<1> QED
  BY <1>1, Invariance, PTL

\* in_degree never underflows when step types are distinct, whatever is repeated.
THEOREM DegreesNeverUnderflow == Spec => []NoUnderflow
<1>1. BuilderInv => NoUnderflow
  BY PositiveDegree DEF BuilderInv, Counting, NoUnderflow
<1> QED
  BY <1>1, Invariance, PTL
=============================================================================

------------------------ MODULE DagCheckpointProofs ------------------------
(***************************************************************************)
(* What the checkpoints of WaveDag hold, for every dependency relation,    *)
(* every setting and all bounds: that WaveDag implements DagProgress, the  *)
(* types, what a thread may have spent, and, when no node yields, that the *)
(* saved state tells the same story as the saved statuses.                 *)
(***************************************************************************)
EXTENDS WaveDagProofs, FiniteSetTheorems

-----------------------------------------------------------------------------
(* Progress.  The inductive invariant, beside DagInv: no completed nodes, in the *)
(* caller's DAG or in the checkpoint, depend on one another in a circle.         *)

NoCircle(S) == \A T \in SUBSET S : T # {} => \E n \in T : deps[n] \cap T = {}

Grounded(dag) == NoCircle(Having(dag, "Done"))

ProgressInv == Grounded(status) /\ (row.dag # NoDag => Grounded(row.dag))

-----------------------------------------------------------------------------
(* Facts about DAG values. *)

\* A DAG value is never the missing one: there is a node.
LEMMA DagIsNotMissing ==
  ASSUME NEW dag \in [Nodes -> NodeStatus]
  PROVE  dag # NoDag
PROOF
  <1>1. 1 \in Nodes
    BY DagAssumption DEF Nodes
  <1>2. 1 \in DOMAIN dag
    BY <1>1
  <1>3. DOMAIN NoDag = {}
    BY DEF NoDag
  <1>4. QED
    BY <1>2, <1>3

\* A closed DAG has only completed dependencies.
LEMMA ClosedHolds ==
  ASSUME Formed, NEW dag, Closed(dag), NEW n \in Nodes, dag[n] # "Pending"
  PROVE  deps[n] \subseteq Having(dag, "Done")
  BY DepsAreNodes DEF Closed, Having

\* Nodes that depend on completed ones only close no circle.
LEMMA MoreDone ==
  ASSUME NEW S, NoCircle(S), \A n \in S : deps[n] \subseteq S,
         NEW R, R \cap S = {}, \A n \in R : deps[n] \subseteq S
  PROVE  NoCircle(S \cup R)
PROOF
  <1> SUFFICES ASSUME NEW T \in SUBSET (S \cup R), T # {}
               PROVE  \E n \in T : deps[n] \cap T = {}
    BY DEF NoCircle
  <1>1. CASE T \cap S = {}
    <2>1. PICK n \in T : n \in R
      BY <1>1
    <2>2. deps[n] \cap T = {}
      BY <1>1, <2>1
    <2>3. QED
      BY <2>2
  <1>2. CASE T \cap S # {}
    <2>1. PICK n \in T \cap S : deps[n] \cap (T \cap S) = {}
      BY <1>2 DEF NoCircle
    <2>2. deps[n] \cap T = {}
      BY <2>1
    <2>3. QED
      BY <2>2
  <1>3. QED
    BY <1>1, <1>2

\* A DAG value grows from another by nodes that had left Pending there.
LEMMA GrowsGrounded ==
  ASSUME Formed, NEW dag, Closed(dag), Grounded(dag), NEW next,
         \A n \in Nodes : /\ dag[n] = "Done" => next[n] = "Done"
                          /\ next[n] = "Done" => dag[n] # "Pending"
  PROVE  Grounded(next)
PROOF
  <1> DEFINE S == Having(dag, "Done")
             R == Having(next, "Done") \ S
  <1>1. Having(next, "Done") = S \cup R
    BY DEF Having
  <1>2. \A n \in S : deps[n] \subseteq S
    BY ClosedHolds DEF Having
  <1>3. \A n \in R : deps[n] \subseteq S
    BY ClosedHolds DEF Having
  <1>4. NoCircle(S) /\ R \cap S = {}
    BY DEF Grounded
  <1> HIDE DEF S, R
  <1>5. NoCircle(S \cup R)
    BY <1>2, <1>3, <1>4, MoreDone
  <1>6. QED
    BY <1>1, <1>5 DEF Grounded

-----------------------------------------------------------------------------
(* ProgressInv is inductive. *)

\* The caller's DAG grows, and is saved or not.
LEMMA GrowsProgress ==
  ASSUME DagInv, ProgressInv, UNCHANGED deps,
         \A n \in Nodes : /\ status[n] = "Done" => status'[n] = "Done"
                          /\ status'[n] = "Done" => status[n] # "Pending",
         row'.dag \in {row.dag, NoDag} \/ (row'.dag = status /\ status' = status)
  PROVE  ProgressInv'
PROOF
  <1>1. Grounded(status')
    BY GrowsGrounded DEF DagInv, ProgressInv
  <1>2. Grounded(status)'
    BY <1>1 DEF Grounded, NoCircle, Having
  <1>3. row'.dag # NoDag => Grounded(row.dag)'
    BY DEF ProgressInv, Grounded, NoCircle, Having
  <1>4. QED
    BY <1>2, <1>3 DEF ProgressInv

\* A call begins with a DAG whose completions are grounded.
LEMMA StartKeepsProgress ==
  ASSUME DagInv, ProgressInv, Start
  PROVE  ProgressInv'
PROOF
  <1>1. NoCircle({})
    BY DEF NoCircle
  <1>2. Having(AllPending, "Done") = {}
    BY DEF Having, AllPending
  <1>3. \A how : Grounded(GivenStatus(how)) /\ Closed(GivenStatus(how))
    BY <1>1, <1>2 DEF GivenStatus, ProgressInv, Grounded, DagInv, Closed, AllPending
  <1>4. ASSUME NEW s, Grounded(s), status' = s, UNCHANGED <<deps, row>>
        PROVE  ProgressInv'
    BY <1>4 DEF ProgressInv, Grounded, NoCircle, Having
  <1>5. CASE StartRun
    BY <1>3, <1>4, <1>5 DEF StartRun, Begin
  <1>6. CASE StartResume
    <2>1. PICK how \in Given :
            /\ row.dag # NoDag /\ UNCHANGED <<deps, row>>
            /\ status' = Restored(row, GivenStatus(how), GivenIds(how))
      BY <1>6 DEF StartResume, Begin
    <2> DEFINE found == IF row.ids = GivenIds(how) THEN row.dag ELSE GivenStatus(how)
               s     == Restored(row, GivenStatus(how), GivenIds(how))
    <2>2. Grounded(found) /\ Closed(found)
      BY <1>3, <2>1 DEF ProgressInv, DagInv, SnapshotSound
    <2>3. s = [n \in Nodes |->
                 IF row.status = "Running" /\ found[n] = "Running"
                 THEN CASE Policy = "ResetToPending" -> "Pending"
                        [] Policy = "SkipAndContinue" -> "Done"
                        [] OTHER -> "Running"
                 ELSE found[n]]
      BY DEF Restored
    <2>4. status' = s
      BY <2>1
    <2> HIDE DEF found, s
    <2>5. \A n \in Nodes : /\ found[n] = "Done" => s[n] = "Done"
                           /\ s[n] = "Done" => found[n] # "Pending"
      BY <2>3
    <2>6. Grounded(s)
      BY <2>2, <2>5, GrowsGrounded DEF DagInv
    <2>7. QED
      BY <1>4, <2>1, <2>4, <2>6
  <1>7. CASE StartAnswer
    <2>1. row'.dag = row.dag /\ UNCHANGED <<deps, status>>
      BY <1>7 DEF StartAnswer, Begin, DagInv, Formed, IsRow
    <2>2. QED
      BY <2>1 DEF ProgressInv, Grounded, NoCircle, Having
  <1>8. QED
    BY <1>5, <1>6, <1>7 DEF Start

\* Every step preserves ProgressInv: a node becomes Done that was Running.
LEMMA ProgressInvNext ==
  ASSUME DagInv, ProgressInv, Next
  PROVE  ProgressInv'
PROOF
  <1>1. ASSUME UNCHANGED <<deps, status>>, row'.dag \in {row.dag, NoDag, status}
        PROVE  ProgressInv'
    BY <1>1 DEF ProgressInv, Grounded, NoCircle, Having
  <1>2. CASE Start
    BY <1>2, StartKeepsProgress
  <1>3. CASE SaveGate \/ SaveYield \/ SaveWave \/ AnswerLost
    BY <1>1, <1>3
       DEF SaveGate, SaveYield, SaveWave, AnswerLost, PendingRow, WithDag, Return, Quit, Goto
  <1>4. CASE AnswerNotFound \/ AnswerRuns \/ AnswerHandsOff
    BY <1>1, <1>4
       DEF AnswerNotFound, AnswerRuns, AnswerHandsOff, AnswerWrites, RolledBack, WithoutDag,
           Return, Quit
  <1>5. CASE \/ ReadHead \/ Deadlock \/ Finish \/ StopAtGate \/ PartialFailure \/ WaveYields
             \/ MergeWave \/ OverBudget \/ Crash \/ SaveFails
    BY <1>1, <1>5
       DEF ReadHead, Deadlock, Finish, StopAtGate, PartialFailure, WaveYields, MergeWave,
           OverBudget, Crash, SaveFails, Return, Quit, Goto
  <1>6. CASE LaunchWave \/ NodeNotFound
    <2>1. MarkRunning /\ UNCHANGED <<deps, row>>
      BY <1>6 DEF LaunchWave, NodeNotFound, Return, Quit, Goto
    <2>2. \A n \in Nodes : status'[n] = "Done" <=> status[n] = "Done"
      BY <2>1 DEF MarkRunning, Ready, Pending, Having
    <2>3. QED
      BY <2>1, <2>2, GrowsProgress
  <1>7. ASSUME NEW n \in Nodes, NEW kind, task[n] # "none",
               Mark(n, kind), UNCHANGED <<deps, row>>
        PROVE  ProgressInv'
    <2>1. status[n] = "Running" /\ status \in [Nodes -> NodeStatus]
      BY <1>7, TaskMeansRunning DEF DagInv, Formed
    <2>2. \A m \in Nodes : /\ m # n => status'[m] = status[m]
      BY <1>7, <2>1 DEF Mark
    <2>3. QED
      BY <1>7, <2>1, <2>2, GrowsProgress
  <1>8. CASE \E n \in Nodes : \/ CollectOk(n) \/ CollectYield(n) \/ CollectFailure(n)
                              \/ FailFast(n)
    BY <1>7, <1>8
       DEF CollectOk, CollectYield, CollectFailure, Taken, FailFast, Return, Quit, Goto
  <1>9. CASE \E n \in Nodes : FailUnmarked(n) \/ TaskStep(n)
    BY <1>1, <1>9
       DEF FailUnmarked, Return, Quit, TaskStep, Acquire, TaskRetries, TaskEnds, TaskOnly
  <1>10. QED
    BY <1>2, <1>3, <1>4, <1>5, <1>6, <1>8, <1>9 DEF Next, CallStep

\* The invariant of the refinement.
LEMMA ProgressInvariant == Spec => [](DagInv /\ ProgressInv)
PROOF
  <1>1. Init => ProgressInv
    BY DEF Init, ProgressInv, Grounded, NoCircle, Having, AllPending, NoRow, WithoutDag
  <1>2. DagInv /\ ProgressInv /\ [Next]_vars => ProgressInv'
    <2> SUFFICES ASSUME DagInv, ProgressInv, [Next]_vars PROVE ProgressInv'
      OBVIOUS
    <2>1. CASE Next
      BY <2>1, ProgressInvNext
    <2>2. CASE UNCHANGED vars
      BY <2>2 DEF vars, ProgressInv, Grounded, NoCircle, Having
    <2>3. QED
      BY <2>1, <2>2
  <1>3. QED
    BY <1>1, <1>2, DagInvariant, PTL DEF Spec

-----------------------------------------------------------------------------
(* The refinement. *)

ProgressStep == [Progress!Save \/ Progress!Abandon]_<<deps, SavedDone, row.ids>>

\* A save of a run keeps what the checkpoint held of the same build, and saves nodes
\* that can have been completed in the order of their dependencies.
LEMMA SaveIsProgress ==
  ASSUME DagInv, ProgressInv, pc \in {"saveGate", "saveYield", "saveWave"},
         row' = PendingRow, UNCHANGED <<status, deps, ids>>
  PROVE  ProgressStep
PROOF
  <1>1. row'.dag = status /\ row'.ids = ids /\ status # NoDag
    BY SavesAreSound, DagIsNotMissing DEF DagInv, Formed
  <1>2. SavedDone' = Done
    BY <1>1 DEF SavedDone, Done, Having
  <1>3. row'.ids \in Nat \ {0} /\ row'.ids >= row.ids
    BY <1>1 DEF DagInv, Formed
  <1>4. row'.ids = row.ids => SavedDone \subseteq SavedDone'
    BY <1>1, <1>2 DEF DagInv, SavedIsKnown, SavedDone, Done, Having
  <1>5. Done \in SUBSET Nodes
    BY DEF Done, Having
  <1>6. Progress!Completable(Done)
    <2>1. \A n \in Done : deps[n] \subseteq Done
      BY ClosedHolds DEF DagInv, Done, Having
    <2>2. NoCircle(Done)
      BY DEF ProgressInv, Grounded, Done
    <2>3. QED
      BY <2>1, <2>2 DEF Progress!Completable, NoCircle
  <1>7. Progress!Save
    BY <1>2, <1>3, <1>4, <1>5, <1>6 DEF Progress!Save
  <1>8. QED
    BY <1>7 DEF ProgressStep

\* The answer to a yielded wave leaves a checkpoint without a DAG, or as it was.
LEMMA AnswerIsProgress ==
  ASSUME AnswerNotFound \/ AnswerRuns \/ AnswerHandsOff
  PROVE  ProgressStep
PROOF
  <1>1. UNCHANGED deps
    BY DEF AnswerNotFound, AnswerRuns, AnswerHandsOff, AnswerWrites, Return, Quit
  <1>2. CASE row' = row
    BY <1>1, <1>2 DEF ProgressStep, SavedDone
  <1>3. CASE row'.dag = NoDag /\ row'.ids = 0
    BY <1>1, <1>3 DEF ProgressStep, Progress!Abandon, SavedDone
  <1>4. QED
    BY <1>2, <1>3
       DEF AnswerNotFound, AnswerRuns, AnswerHandsOff, AnswerWrites, RolledBack, WithoutDag

\* Every step of the calls is a step of the promise or changes nothing it sees.
LEMMA NextIsProgress ==
  ASSUME DagInv, ProgressInv, [Next]_vars
  PROVE  ProgressStep
PROOF
  <1>1. ASSUME UNCHANGED <<deps, row>> PROVE ProgressStep
    BY <1>1 DEF ProgressStep, SavedDone
  <1>2. CASE UNCHANGED vars
    BY <1>1, <1>2 DEF vars
  <1>3. CASE SaveGate \/ SaveYield \/ SaveWave \/ AnswerLost
    BY <1>3, SaveIsProgress
       DEF SaveGate, SaveYield, SaveWave, AnswerLost, Return, Quit, Goto, given
  <1>4. CASE AnswerNotFound \/ AnswerRuns \/ AnswerHandsOff
    BY <1>4, AnswerIsProgress
  <1>5. CASE StartAnswer
    <2>1. UNCHANGED deps /\ row'.dag = row.dag /\ row'.ids = row.ids
      BY <1>5 DEF StartAnswer, Begin, DagInv, Formed, IsRow
    <2>2. QED
      BY <2>1 DEF ProgressStep, SavedDone
  <1>6. CASE StartRun \/ StartResume
    BY <1>1, <1>6 DEF StartRun, StartResume, Begin
  <1>7. CASE \/ ReadHead \/ Deadlock \/ Finish \/ StopAtGate \/ LaunchWave \/ NodeNotFound
             \/ PartialFailure \/ WaveYields \/ MergeWave \/ OverBudget \/ Crash \/ SaveFails
    BY <1>1, <1>7
       DEF ReadHead, Deadlock, Finish, StopAtGate, LaunchWave, NodeNotFound, PartialFailure,
           WaveYields, MergeWave, OverBudget, Crash, SaveFails, Return, Quit, Goto
  <1>8. CASE \E n \in Nodes : \/ CollectOk(n) \/ CollectYield(n) \/ CollectFailure(n)
                              \/ FailFast(n) \/ FailUnmarked(n) \/ TaskStep(n)
    BY <1>1, <1>8
       DEF CollectOk, CollectYield, CollectFailure, FailFast, FailUnmarked, Return, Quit,
           Goto, Taken, TaskStep, Acquire, TaskRetries, TaskEnds, TaskOnly
  <1>9. QED
    BY <1>2, <1>3, <1>4, <1>5, <1>6, <1>7, <1>8 DEF Next, CallStep, Start

\* The completions in a checkpoint respect the dependencies and never shrink, over any
\* sequence of calls with any DAG value, crashes and lost answers, but for two ways to
\* lose them: a save of a DAG that was built again (its fresh ids match nothing in the
\* snapshot, dag.rs 75), and the answer to a wave that yielded (its rows hold no DAG).
THEOREM KeepsProgress == Spec => ProgressSpec
PROOF
  <1>1. Init => Progress!Init
    BY DEF Init, Progress!Init, SavedDone, NoRow, WithoutDag
  <1>2. DagInv /\ ProgressInv /\ [Next]_vars =>
          [Progress!Save \/ Progress!Abandon]_<<deps, SavedDone, row.ids>>
    BY NextIsProgress DEF ProgressStep
  <1>3. QED
    BY <1>1, <1>2, ProgressInvariant, PTL DEF Spec, ProgressSpec, Progress!Spec
-----------------------------------------------------------------------------
(* Sorting, and sequences of distinct nodes. *)

\* There are n positions up to n.
LEMMA UpToHas ==
  ASSUME NEW n \in Nat
  PROVE  IsFiniteSet(1..n) /\ Cardinality(1..n) = n
  BY FS_Interval

\* Distinct numbers can be sorted: the rank of each, the number of elements up to it,
\* is its place.
LEMMA SortExists ==
  ASSUME NEW f \in Seq(Nodes), IsInjective(f)
  PROVE  \E s \in [DOMAIN f -> Range(f)] : Increasing(s) /\ Range(s) = Range(f)
PROOF
  <1> DEFINE I == 1..Len(f)
  <1>1. /\ Len(f) \in Nat /\ DOMAIN f = I /\ \A i \in I : f[i] \in Nodes /\ f[i] \in Int
        /\ IsFiniteSet(I) /\ Cardinality(I) = Len(f)
    <2>1. Len(f) \in Nat /\ DOMAIN f = I /\ \A i \in I : f[i] \in Nodes
      OBVIOUS
    <2>2. \A n \in Nodes : n \in Int
      BY DagAssumption DEF Nodes
    <2>3. IsFiniteSet(I) /\ Cardinality(I) = Len(f)
      BY <2>1, UpToHas
    <2>4. QED
      BY <2>1, <2>2, <2>3
  <1>11. \A i, j \in I : i # j => f[i] # f[j]
    BY <1>1 DEF IsInjective
  <1> DEFINE UpTo(i) == {j \in I : f[j] <= f[i]}
             rank == [i \in I |-> Cardinality(UpTo(i))]
  <1>2. \A i \in I : /\ IsFiniteSet(UpTo(i))
                     /\ Cardinality(UpTo(i)) \in I
    <2> SUFFICES ASSUME NEW i \in I PROVE IsFiniteSet(UpTo(i)) /\ Cardinality(UpTo(i)) \in I
      OBVIOUS
    <2>1. UpTo(i) \in SUBSET I /\ i \in UpTo(i)
      BY <1>1
    <2>2. IsFiniteSet(UpTo(i)) /\ Cardinality(UpTo(i)) <= Len(f)
      BY <1>1, <2>1, FS_Subset
    <2>3. Cardinality(UpTo(i)) \in Nat /\ Cardinality(UpTo(i)) # 0
      BY <2>1, <2>2, FS_CardinalityType, FS_EmptySet
    <2>4. QED
      BY <1>1, <2>2, <2>3
  <1>3. \A i, j \in I : f[i] < f[j] => rank[i] < rank[j]
    <2> SUFFICES ASSUME NEW i \in I, NEW j \in I, f[i] < f[j] PROVE rank[i] < rank[j]
      OBVIOUS
    <2>1. UpTo(i) \in SUBSET UpTo(j) /\ j \in UpTo(j) /\ j \notin UpTo(i)
      BY <1>1
    <2>2. /\ Cardinality(UpTo(i)) <= Cardinality(UpTo(j))
          /\ Cardinality(UpTo(i)) # Cardinality(UpTo(j))
      BY <1>2, <2>1, FS_Subset
    <2>3. rank[i] = Cardinality(UpTo(i)) /\ rank[j] = Cardinality(UpTo(j))
      OBVIOUS
    <2> HIDE DEF rank, UpTo
    <2>4. Cardinality(UpTo(i)) \in Int /\ Cardinality(UpTo(j)) \in Int
      BY <1>2
    <2>5. QED
      BY <2>2, <2>3, <2>4
  <1>4. rank \in Injection(I, I)
    <2>1. rank \in [I -> I]
      BY <1>2
    <2> HIDE DEF rank
    <2>2. ASSUME NEW i \in I, NEW j \in I, rank[i] = rank[j], i # j PROVE FALSE
      <3>1. f[i] # f[j]
        BY <1>11, <2>2
      <3>2. f[i] < f[j] \/ f[j] < f[i]
        BY <1>1, <2>2, <3>1
      <3>3. rank[i] \in Int /\ rank[j] \in Int
        BY <1>1, <2>1, <2>2
      <3>4. QED
        BY <1>3, <2>2, <3>2, <3>3
    <2>3. QED
      BY <2>1, <2>2 DEF Injection, IsInjective
  <1>5. \A k \in I : \E i \in I : rank[i] = k
    <2>1. rank \in Surjection(I, I)
      BY <1>1, <1>4, FS_Injection
    <2>2. QED
      BY <2>1 DEF Surjection
  <1> DEFINE at == [k \in I |-> CHOOSE i \in I : rank[i] = k]
             s  == [k \in I |-> f[at[k]]]
  <1>6. \A k \in I : at[k] \in I /\ rank[at[k]] = k
    BY <1>5
  <1>12. \A k \in I : s[k] = f[at[k]]
    OBVIOUS
  <1> HIDE DEF rank, at
  <1>7. s \in [I -> Range(f)]
    BY <1>1, <1>6 DEF Range
  <1>8. Increasing(s)
    <2>1. ASSUME NEW i \in I, NEW j \in I, i < j PROVE s[i] < s[j]
      <3>1. ~(f[at[j]] < f[at[i]])
        BY <1>3, <1>6, <2>1
      <3>2. at[i] # at[j]
        BY <1>6, <2>1
      <3>3. f[at[i]] # f[at[j]]
        BY <1>6, <1>11, <2>1, <3>2
      <3>4. QED
        BY <1>1, <1>6, <2>1, <3>1, <3>3
    <2>2. DOMAIN s = I
      OBVIOUS
    <2> HIDE DEF s
    <2>3. QED
      BY <2>1, <2>2 DEF Increasing
  <1>9. Range(s) = Range(f)
    <2>1. ASSUME NEW i \in I PROVE \E k \in I : s[k] = f[i]
      <3>1. rank[i] \in I /\ at[rank[i]] \in I /\ rank[at[rank[i]]] = rank[i]
        BY <1>4, <1>6 DEF Injection
      <3>2. at[rank[i]] = i
        BY <1>4, <3>1 DEF Injection, IsInjective
      <3>3. QED
        BY <3>1, <3>2
    <2>2. DOMAIN s = I
      OBVIOUS
    <2> HIDE DEF s
    <2>3. Range(s) \subseteq Range(f)
      BY <1>7, <2>2 DEF Range
    <2>4. Range(f) \subseteq Range(s)
      BY <1>1, <2>1, <2>2 DEF Range
    <2>5. QED
      BY <2>3, <2>4
  <1>10. QED
    BY <1>1, <1>7, <1>8, <1>9

\* What sorting a wave's results gives.
LEMMA SortedProperties ==
  ASSUME NEW f \in Seq(Nodes), IsInjective(f)
  PROVE  /\ Sorted(f) \in Seq(Nodes)
         /\ Len(Sorted(f)) = Len(f)
         /\ Range(Sorted(f)) = Range(f)
         /\ Increasing(Sorted(f))
         /\ IsInjective(Sorted(f))
PROOF
  <1>1. DOMAIN f = 1..Len(f) /\ Len(f) \in Nat /\ \A x \in Range(f) : x \in Nodes /\ x \in Int
    BY DagAssumption DEF Range, Nodes
  <1>2. /\ Sorted(f) \in [1..Len(f) -> Range(f)]
        /\ Increasing(Sorted(f))
        /\ Range(Sorted(f)) = Range(f)
    BY <1>1, SortExists DEF Sorted
  <1> DEFINE s == Sorted(f)
  <1> HIDE DEF s
  <1>3. s \in [1..Len(f) -> Range(f)] /\ Increasing(s) /\ Range(s) = Range(f)
    BY <1>2 DEF s
  <1>4. s \in Seq(Nodes) /\ Len(s) = Len(f)
    BY <1>1, <1>3
  <1>5. IsInjective(s)
    BY <1>1, <1>3 DEF Increasing, IsInjective
  <1>6. QED
    BY <1>3, <1>4, <1>5 DEF s

\* One more output.
LEMMA AppendOutput ==
  ASSUME NEW s \in Seq(Nodes), IsInjective(s), NEW n \in Nodes \ Range(s)
  PROVE  /\ Append(s, n) \in Seq(Nodes)
         /\ Range(Append(s, n)) = Range(s) \cup {n}
         /\ IsInjective(Append(s, n))
PROOF
  <1> DEFINE t == Append(s, n)
  <1>1. /\ t \in Seq(Nodes)
        /\ DOMAIN s = 1..Len(s) /\ Len(s) \in Nat
        /\ DOMAIN t = 1..(Len(s) + 1)
        /\ \A i \in 1..Len(s) : t[i] = s[i]
        /\ t[Len(s) + 1] = n
    OBVIOUS
  <1> HIDE DEF t
  <1>2. \A i \in 1..Len(s) : s[i] # n
    BY <1>1 DEF Range
  <1>3. \A i \in DOMAIN t : i \in 1..Len(s) \/ i = Len(s) + 1
    BY <1>1
  <1>4. IsInjective(t)
    BY <1>1, <1>2, <1>3 DEF IsInjective
  <1>5. \A i \in 1..Len(s) : i \in DOMAIN t
    BY <1>1
  <1>6. Len(s) + 1 \in DOMAIN t
    BY <1>1
  <1>7. Range(t) = Range(s) \cup {n}
    BY <1>1, <1>3, <1>5, <1>6 DEF Range
  <1>8. QED
    BY <1>1, <1>4, <1>7 DEF t

\* Outputs after outputs of other nodes.
LEMMA JoinOutputs ==
  ASSUME NEW s \in Seq(Nodes), IsInjective(s), NEW t \in Seq(Nodes), IsInjective(t),
         Range(s) \cap Range(t) = {}
  PROVE  /\ s \o t \in Seq(Nodes)
         /\ Range(s \o t) = Range(s) \cup Range(t)
         /\ IsInjective(s \o t)
PROOF
  <1> DEFINE u == s \o t
  <1>1. /\ u \in Seq(Nodes)
        /\ DOMAIN s = 1..Len(s) /\ Len(s) \in Nat /\ DOMAIN t = 1..Len(t) /\ Len(t) \in Nat
        /\ DOMAIN u = 1..(Len(s) + Len(t))
        /\ \A i \in 1..Len(s) : u[i] = s[i]
        /\ \A i \in 1..Len(t) : u[Len(s) + i] = t[i]
    OBVIOUS
  <1> HIDE DEF u
  <1>2. \A i \in DOMAIN u : \/ i \in 1..Len(s) /\ u[i] = s[i]
                            \/ i - Len(s) \in 1..Len(t) /\ u[i] = t[i - Len(s)]
    <2> SUFFICES ASSUME NEW i \in DOMAIN u, i \notin 1..Len(s)
                 PROVE  i - Len(s) \in 1..Len(t) /\ u[i] = t[i - Len(s)]
      BY <1>1
    <2>1. i - Len(s) \in 1..Len(t) /\ Len(s) + (i - Len(s)) = i
      BY <1>1
    <2>2. u[Len(s) + (i - Len(s))] = t[i - Len(s)]
      BY <1>1, <2>1
    <2>3. QED
      BY <2>1, <2>2
  <1>3. \A i \in 1..Len(s), j \in 1..Len(t) : s[i] # t[j]
    BY <1>1 DEF Range
  <1>4. \A i, j \in 1..Len(s) : s[i] = s[j] => i = j
    BY <1>1 DEF IsInjective
  <1>5. \A i, j \in 1..Len(t) : t[i] = t[j] => i = j
    BY <1>1 DEF IsInjective
  <1>6. \A i, j \in DOMAIN u : u[i] = u[j] => i = j
    <2> SUFFICES ASSUME NEW i \in DOMAIN u, NEW j \in DOMAIN u, u[i] = u[j] PROVE i = j
      OBVIOUS
    <2>1. i \in Int /\ j \in Int /\ Len(s) \in Int
      BY <1>1
    <2>2. CASE i \in 1..Len(s) /\ u[i] = s[i]
      <3>1. j \in 1..Len(s) /\ u[j] = s[j]
        BY <1>2, <1>3, <2>2
      <3>2. QED
        BY <1>4, <2>2, <3>1
    <2>3. CASE i - Len(s) \in 1..Len(t) /\ u[i] = t[i - Len(s)]
      <3>1. j - Len(s) \in 1..Len(t) /\ u[j] = t[j - Len(s)]
        BY <1>2, <1>3, <2>3
      <3>2. i - Len(s) = j - Len(s)
        BY <1>5, <2>3, <3>1
      <3>3. QED
        BY <2>1, <3>2
    <2>4. QED
      BY <1>2, <2>2, <2>3
  <1>7. Range(u) \subseteq Range(s) \cup Range(t)
    BY <1>1, <1>2 DEF Range
  <1>8. Range(s) \subseteq Range(u)
    <2>1. \A i \in 1..Len(s) : i \in DOMAIN u
      BY <1>1
    <2>2. QED
      BY <1>1, <2>1 DEF Range
  <1>9. Range(t) \subseteq Range(u)
    <2>1. \A i \in 1..Len(t) : Len(s) + i \in DOMAIN u
      BY <1>1
    <2>2. QED
      BY <1>1, <2>1 DEF Range
  <1>10. QED
    BY <1>1, <1>6, <1>7, <1>8, <1>9 DEF u, IsInjective

-----------------------------------------------------------------------------
(* Types, and the results of a wave, whatever the nodes return. *)

RowType == [status : RowStatus,
            dag    : [Nodes -> NodeStatus] \cup {NoDag},
            ids    : Nat,
            state  : Seq(Nodes),
            next   : SUBSET Nodes]

\* What DagInv leaves to say of the types.
GlobalsOK == /\ row \in RowType
             /\ stale \subseteq Nodes
             /\ pc \in InRun \cup {"idle", "answer"}
             /\ answer \in Answers
             /\ calls \in Nat
             /\ faults \in Nat
LocalsOK == /\ state \in Seq(Nodes)
            /\ wave \subseteq Nodes
            /\ results \in Seq(Nodes)
            /\ first \in BOOLEAN
            /\ spent \in Nat
            /\ attempt \in [Nodes -> Nat]

\* A wave collects the result of a node once, and marks the node Done with it.
ResultsOK == /\ IsInjective(results)
             /\ pc = "wave" => \A n \in Range(results) : status[n] = "Done"

CallInv == GlobalsOK /\ LocalsOK /\ ResultsOK

\* The empty sequence.
LEMMA EmptyOutputs ==
  /\ <<>> \in Seq(Nodes)
  /\ IsInjective(<<>>)
  /\ Range(<<>>) = {}
  BY DEF IsInjective, Range

\* The locals of a call as it begins.
LEMMA FreshKeepsLocals ==
  ASSUME NEW merged \in Seq(Nodes), Fresh(merged)
  PROVE  LocalsOK' /\ ResultsOK'
  BY EmptyOutputs DEF Fresh, LocalsOK, ResultsOK, NoAttempts

\* A call that ends.
LEMMA QuitKeepsCalls ==
  ASSUME CallInv, NEW how \in Answers, Quit(how), row' \in RowType, faults' \in Nat
  PROVE  CallInv'
PROOF
  <1>1. LocalsOK' /\ ResultsOK'
    BY EmptyOutputs, FreshKeepsLocals DEF Quit
  <1>2. GlobalsOK'
    BY DEF CallInv, GlobalsOK, Quit, given
  <1>3. QED
    BY <1>1, <1>2 DEF CallInv

\* Going on between waves with the locals as they are.
LEMMA MoveKeepsCalls ==
  ASSUME CallInv, NEW to \in BetweenWaves, Goto(to), row' \in RowType,
         UNCHANGED <<state, results, first, spent, attempt, faults>>,
         wave' \in {wave, {}}
  PROVE  CallInv'
PROOF
  <1>1. pc' = to /\ pc' # "wave" /\ UNCHANGED <<answer, calls, stale>>
    BY DEF Goto, BetweenWaves, given
  <1>2. GlobalsOK'
    BY <1>1 DEF CallInv, GlobalsOK, InRun
  <1>3. LocalsOK' /\ ResultsOK'
    BY <1>1 DEF CallInv, LocalsOK, ResultsOK
  <1>4. QED
    BY <1>2, <1>3 DEF CallInv

\* A bound write saves a row of the right type.
LEMMA SavesARow ==
  ASSUME DagInv, CallInv
  PROVE  PendingRow \in RowType
PROOF
  <1>1. /\ status \in [Nodes -> NodeStatus] /\ state \in Seq(Nodes)
        /\ Ready \in SUBSET Nodes /\ NextPending \in SUBSET Nodes
        /\ Pending \cup Having(status, "Yielded") \in SUBSET Nodes
    BY DEF DagInv, Formed, CallInv, LocalsOK, Ready, NextPending, Pending, Having
  <1>2. {"Interrupted", "Yielded", "Complete"} \subseteq RowStatus
    BY DEF RowStatus
  <1>3. ids \in Nat
    BY DEF DagInv, Formed
  <1>4. QED
    BY <1>1, <1>2, <1>3 DEF PendingRow, WithDag, RowType

\* Every call begins with a state of the right type.
LEMMA StartKeepsCalls ==
  ASSUME CallInv, Start
  PROVE  CallInv'
PROOF
  <1>1. ASSUME NEW to \in {"head", "answer"}, Begin(to), row' \in RowType,
               stale' \subseteq Nodes, LocalsOK', ResultsOK'
        PROVE  CallInv'
    BY <1>1 DEF CallInv, GlobalsOK, Begin, InRun, BetweenWaves, Answers
  <1>2. CASE StartRun \/ StartResume
    <2>1. row.state \in Seq(Nodes) /\ <<>> \in Seq(Nodes)
      BY DEF CallInv, GlobalsOK, RowType
    <2>2. stale' \subseteq Nodes
      BY <1>2 DEF StartRun, StartResume, Unsettled
    <2>3. LocalsOK' /\ ResultsOK'
      BY <1>2, <2>1, FreshKeepsLocals DEF StartRun, StartResume
    <2>4. QED
      BY <1>1, <1>2, <2>2, <2>3 DEF StartRun, StartResume, CallInv, GlobalsOK
  <1>4. CASE StartAnswer
    <2>1. /\ Begin("answer") /\ row' = [row EXCEPT !.status = "Running"]
          /\ UNCHANGED <<status, stale, state, wave, results, first, spent, attempt>>
      BY <1>4 DEF StartAnswer, locals, given
    <2>2. row' \in RowType
      BY <2>1 DEF CallInv, GlobalsOK, RowType, RowStatus
    <2>3. LocalsOK' /\ ResultsOK'
      BY <2>1 DEF CallInv, LocalsOK, ResultsOK, Begin
    <2>4. stale' \subseteq Nodes
      BY <2>1 DEF CallInv, GlobalsOK
    <2>5. QED
      BY <1>1, <2>1, <2>2, <2>3, <2>4
  <1>5. QED
    BY <1>2, <1>4 DEF Start

\* A wave begins without results.
LEMMA LaunchKeepsCalls ==
  ASSUME CallInv, LaunchWave
  PROVE  CallInv'
PROOF
  <1>1. /\ pc' = "wave" /\ UNCHANGED <<stale, row, answer, calls, faults, state, spent>>
        /\ wave' = Ready /\ attempt' = NoAttempts /\ results' = <<>> /\ first' = FALSE
    BY DEF LaunchWave, Goto, given
  <1>2. GlobalsOK'
    BY <1>1 DEF CallInv, GlobalsOK, InRun
  <1>3. LocalsOK' /\ ResultsOK'
    BY <1>1, EmptyOutputs DEF CallInv, LocalsOK, ResultsOK, NoAttempts, Ready, Pending, Having
  <1>4. QED
    BY <1>2, <1>3 DEF CallInv

\* A node whose task has ended is not among the results yet.
LEMMA EndedIsNotCollected ==
  ASSUME DagInv, ResultsOK, NEW n \in Nodes, task[n] # "none"
  PROVE  n \notin Range(results)
  BY TaskMeansRunning DEF ResultsOK

\* A collected result is a new one.
LEMMA CollectKeepsCalls ==
  ASSUME DagInv, CallInv, NEW n \in Nodes, CollectOk(n) \/ CollectYield(n) \/ CollectFailure(n)
  PROVE  CallInv'
PROOF
  <1>1. /\ pc' = "wave" /\ pc = "wave"
        /\ UNCHANGED <<stale, row, answer, calls, faults, state, wave, first, spent, attempt>>
        /\ n \notin Range(results)
    BY EndedIsNotCollected
       DEF CollectOk, CollectYield, CollectFailure, Goto, Taken, CallInv, given
  <1>2. \A m \in Nodes : m # n => status'[m] = status[m]
    BY DEF CollectOk, CollectYield, CollectFailure, Mark, DagInv, Formed
  <1>3. \A m \in Range(results) : m \in Nodes /\ status'[m] = "Done"
    <2>1. \A m \in Range(results) : m \in Nodes
      BY DEF CallInv, LocalsOK, Range
    <2>2. \A m \in Range(results) : m # n /\ status[m] = "Done"
      BY <1>1 DEF CallInv, ResultsOK
    <2>3. QED
      BY <1>2, <2>1, <2>2
  <1>4. results' \in Seq(Nodes) /\ ResultsOK'
    <2>1. CASE CollectOk(n)
      <3>1. results' = Append(results, n) /\ status'[n] = "Done"
        BY <2>1 DEF CollectOk, Mark, DagInv, Formed
      <3>2. /\ results' \in Seq(Nodes) /\ IsInjective(results')
            /\ Range(results') = Range(results) \cup {n}
        BY <1>1, <3>1, AppendOutput DEF CallInv, LocalsOK, ResultsOK
      <3>3. QED
        BY <1>3, <3>1, <3>2 DEF ResultsOK
    <2>2. CASE CollectYield(n) \/ CollectFailure(n)
      BY <1>3, <2>2 DEF CollectYield, CollectFailure, CallInv, LocalsOK, ResultsOK
    <2>3. QED
      BY <2>1, <2>2
  <1>5. GlobalsOK' /\ LocalsOK'
    BY <1>1, <1>4 DEF CallInv, GlobalsOK, LocalsOK
  <1>6. QED
    BY <1>4, <1>5 DEF CallInv

\* Merging: the wave's outputs follow, in index order.
LEMMA MergeKeepsCalls ==
  ASSUME CallInv, MergeWave
  PROVE  CallInv'
PROOF
  <1>1. /\ pc' = "saveWave"
        /\ UNCHANGED <<stale, row, answer, calls, faults, wave, first, attempt>>
        /\ state' = state \o Sorted(results)
        /\ spent' = spent + Len(results)
        /\ results' = <<>>
    BY DEF MergeWave, Goto, Merged, given
  <1>2. state' \in Seq(Nodes) /\ spent' \in Nat
    BY <1>1, SortedProperties DEF CallInv, LocalsOK, ResultsOK
  <1>3. GlobalsOK' /\ LocalsOK' /\ ResultsOK'
    BY <1>1, <1>2, EmptyOutputs DEF CallInv, GlobalsOK, LocalsOK, ResultsOK, InRun, BetweenWaves
  <1>4. QED
    BY <1>3 DEF CallInv

\* The row that an answer leaves.
LEMMA AnswerKeepsCalls ==
  ASSUME DagInv, CallInv, AnswerNotFound \/ AnswerRuns \/ AnswerHandsOff
  PROVE  CallInv'
PROOF
  <1>1. RolledBack \in RowType /\ row \in RowType
    BY DEF CallInv, GlobalsOK, RowType, RowStatus, RolledBack, WithoutDag
  <1>2. ASSUME NEW n \in Nodes
        PROVE  WithoutDag("Complete", Append(row.state, n), {}) \in RowType
    <2>1. row.state \in Seq(Nodes)
      BY <1>1 DEF RowType
    <2>2. Append(row.state, n) \in Seq(Nodes)
      BY <2>1
    <2>3. QED
      BY <2>2 DEF WithoutDag, RowType, RowStatus
  <1>3. ASSUME NEW how \in {"error", "answered", "yielded"}, NEW new \in RowType,
               AnswerWrites(how, new)
        PROVE  CallInv'
    BY <1>3, QuitKeepsCalls DEF AnswerWrites, Return, Answers, CallInv, GlobalsOK
  <1>4. CASE AnswerNotFound
    BY <1>1, <1>3, <1>4 DEF AnswerNotFound
  <1>5. CASE AnswerRuns
    <2>1. PICK n \in Registered[deps] :
            \/ AnswerWrites("answered", WithoutDag("Complete", Append(row.state, n), {}))
            \/ AnswerWrites("yielded", RolledBack)
            \/ AnswerWrites("error", RolledBack)
      BY <1>5 DEF AnswerRuns
    <2>2. n \in Nodes
      BY DagAssumption DEF DagInv, Formed
    <2>3. QED
      BY <1>1, <1>2, <1>3, <2>1, <2>2
  <1>6. CASE AnswerHandsOff
    BY <1>1, <1>3, <1>6 DEF AnswerHandsOff
  <1>7. QED
    BY <1>4, <1>5, <1>6

\* Every step preserves CallInv.
LEMMA CallInvNext ==
  ASSUME DagInv, CallInv, Next
  PROVE  CallInv'
PROOF
  <1>1. row \in RowType /\ faults \in Nat /\ faults + 1 \in Nat /\ PendingRow \in RowType
    BY SavesARow DEF CallInv, GlobalsOK
  <1>2. CASE Start
    BY <1>2, StartKeepsCalls
  <1>3. CASE ReadHead \/ StopAtGate \/ WaveYields
    BY <1>1, <1>3, MoveKeepsCalls
       DEF ReadHead, StopAtGate, WaveYields, BetweenWaves, locals, Goto
  <1>4. CASE LaunchWave
    BY <1>4, LaunchKeepsCalls
  <1>5. CASE \/ Deadlock \/ Finish \/ NodeNotFound \/ PartialFailure \/ OverBudget
             \/ SaveGate \/ SaveYield
             \/ \E n \in Nodes : FailFast(n) \/ FailUnmarked(n)
    BY <1>1, <1>5, QuitKeepsCalls
       DEF Deadlock, Finish, NodeNotFound, PartialFailure, OverBudget, SaveGate, SaveYield,
           FailFast, FailUnmarked, Return, Answers
  <1>6. CASE Crash \/ SaveFails \/ AnswerLost
    BY <1>1, <1>6, QuitKeepsCalls DEF Crash, SaveFails, AnswerLost, Fault, Answers
  <1>7. CASE \E n \in Nodes : CollectOk(n) \/ CollectYield(n) \/ CollectFailure(n)
    BY <1>7, CollectKeepsCalls
  <1>8. CASE MergeWave
    BY <1>8, MergeKeepsCalls
  <1>9. CASE SaveWave
    <2>1. CASE Return("interrupted")
      BY <1>1, <1>9, <2>1, QuitKeepsCalls DEF SaveWave, Return, Answers
    <2>2. CASE /\ Goto("loop") /\ wave' = {}
               /\ UNCHANGED <<state, results, first, spent, task, attempt>>
      BY <1>1, <1>9, <2>2, MoveKeepsCalls DEF SaveWave, BetweenWaves, Goto
    <2>3. QED
      BY <1>9, <2>1, <2>2 DEF SaveWave
  <1>10. CASE AnswerNotFound \/ AnswerRuns \/ AnswerHandsOff
    BY <1>10, AnswerKeepsCalls
  <1>11. CASE \E n \in Nodes : TaskStep(n)
    <2>1. /\ UNCHANGED <<status, stale, row, pc, state, wave, results, first, spent>>
          /\ UNCHANGED <<answer, calls, faults>>
          /\ attempt' \in [Nodes -> Nat]
      BY <1>11 DEF TaskStep, Acquire, TaskRetries, TaskEnds, TaskOnly, CallInv, LocalsOK, given
    <2>2. QED
      BY <2>1 DEF CallInv, GlobalsOK, LocalsOK, ResultsOK
  <1>12. QED
    BY <1>2, <1>3, <1>4, <1>5, <1>6, <1>7, <1>8, <1>9, <1>10, <1>11 DEF Next, CallStep

\* The invariant behind the types.
LEMMA CallInvariant == Spec => [](DagInv /\ CallInv)
PROOF
  <1>1. Init => CallInv
    <2> SUFFICES ASSUME Init PROVE CallInv
      OBVIOUS
    <2>1. row \in RowType
      BY EmptyOutputs DEF Init, NoRow, WithoutDag, RowType, RowStatus
    <2>2. GlobalsOK
      BY <2>1 DEF Init, GlobalsOK, Answers
    <2>3. LocalsOK /\ ResultsOK
      BY EmptyOutputs DEF Init, LocalsOK, ResultsOK, NoAttempts
    <2>4. QED
      BY <2>2, <2>3 DEF CallInv
  <1>2. DagInv /\ CallInv /\ [Next]_vars => CallInv'
    <2> SUFFICES ASSUME DagInv, CallInv, [Next]_vars PROVE CallInv'
      OBVIOUS
    <2>1. CASE Next
      BY <2>1, CallInvNext
    <2>2. CASE UNCHANGED vars
      BY <2>2 DEF vars, locals, given, CallInv, GlobalsOK, LocalsOK, ResultsOK
    <2>3. QED
      BY <2>1, <2>2
  <1>3. QED
    BY <1>1, <1>2, DagInvariant, PTL DEF Spec

\* Every value keeps its type: rows hold a DAG or none, the state and the results of a
\* wave are sequences of nodes even after sorting and merging (graph.rs 1081).
THEOREM DagTypesHold == Spec => []TypeOK
PROOF
  <1>1. DagInv /\ CallInv => TypeOK
    BY DEF DagInv, Formed, CallInv, GlobalsOK, LocalsOK, TypeOK, RowType, InRun, BetweenWaves
  <1>2. QED
    BY <1>1, CallInvariant, PTL
-----------------------------------------------------------------------------
(* What the calls may have spent, whatever the nodes return. *)

\* A call adds to the state what it spends, and its budget bounds that before the
\* state reaches a checkpoint.
Affordable ==
  /\ Len(row.state) <= calls * Budget
  /\ pc \in InRun => /\ calls >= 1
                     /\ spent <= Budget
                     /\ Len(state) <= (calls - 1) * Budget + spent
  /\ pc = "answer" => calls >= 1 /\ Len(row.state) <= (calls - 1) * Budget

\* The budgets of k calls.
LEMMA Budgets ==
  ASSUME NEW k \in Nat
  PROVE  k * Budget \in Nat /\ (k + 1) * Budget = k * Budget + Budget
PROOF
  <1>1. Budget \in Nat
    BY DagSettingsAssumption
  <1>2. QED
    BY <1>1

\* The sizes that count, as numbers.
LEMMA SizesAreNumbers ==
  ASSUME CallInv
  PROVE  /\ calls \in Nat /\ spent \in Nat /\ Budget \in Nat
         /\ Len(row.state) \in Nat /\ Len(state) \in Nat
         /\ calls >= 1 => /\ calls - 1 \in Nat
                          /\ (calls - 1) * Budget \in Nat
                          /\ calls * Budget = (calls - 1) * Budget + Budget
PROOF
  <1>1. row.state \in Seq(Nodes) /\ state \in Seq(Nodes) /\ calls \in Nat /\ spent \in Nat
    BY DEF CallInv, GlobalsOK, LocalsOK, RowType
  <1>2. ASSUME calls >= 1
        PROVE  /\ calls - 1 \in Nat
               /\ (calls - 1) * Budget \in Nat
               /\ calls * Budget = (calls - 1) * Budget + Budget
    <2>1. calls - 1 \in Nat /\ (calls - 1) + 1 = calls
      BY <1>1, <1>2
    <2>2. QED
      BY <2>1, Budgets
  <1>3. QED
    BY <1>1, <1>2, DagSettingsAssumption

\* A call that ends with the row it found, or with a bound write.
LEMMA QuitIsAffordable ==
  ASSUME CallInv, Affordable, NEW how, Quit(how),
         row'.state = row.state \/ (pc \in InRun /\ row'.state = state)
  PROVE  Affordable'
PROOF
  <1>1. pc' = "idle" /\ calls' = calls
    BY DEF Quit
  <1>2. Len(row'.state) <= calls * Budget
    <2>1. CASE row'.state = row.state
      BY <2>1 DEF Affordable
    <2>2. CASE pc \in InRun /\ row'.state = state
      BY <2>2, SizesAreNumbers DEF Affordable
    <2>3. QED
      BY <2>1, <2>2
  <1>3. QED
    BY <1>1, <1>2 DEF Affordable, InRun, BetweenWaves

\* Going on within a run, at no cost.
LEMMA MoveIsAffordable ==
  ASSUME CallInv, Affordable, pc \in InRun, pc' \in InRun, UNCHANGED <<calls, state, spent>>,
         row'.state \in {row.state, state}
  PROVE  Affordable'
PROOF
  <1>1. Len(row'.state) <= calls * Budget
    <2>1. CASE row'.state = row.state
      BY <2>1 DEF Affordable
    <2>2. CASE row'.state = state
      BY <2>2, SizesAreNumbers DEF Affordable
    <2>3. QED
      BY <2>1, <2>2
  <1>2. pc' # "answer"
    BY DEF InRun, BetweenWaves
  <1>3. QED
    BY <1>1, <1>2 DEF Affordable

\* A call begins with what the calls before it may have spent.
LEMMA StartIsAffordable ==
  ASSUME CallInv, Affordable, Start
  PROVE  Affordable'
PROOF
  <1>1. /\ calls' = calls + 1 /\ pc' \in {"head", "answer"}
        /\ Len(row'.state) = Len(row.state)
        /\ pc' = "head" => spent' = 0 /\ state' \in {<<>>, row.state}
    <2>1. CASE StartRun \/ StartResume
      BY <2>1 DEF StartRun, StartResume, Begin, Fresh
    <2>2. CASE StartAnswer
      BY <2>2 DEF StartAnswer, Begin, CallInv, GlobalsOK, RowType
    <2>3. QED
      BY <2>1, <2>2 DEF Start
  <1>2. /\ calls \in Nat /\ calls' - 1 = calls /\ calls' >= 1
        /\ calls * Budget \in Nat /\ calls' * Budget = calls * Budget + Budget
        /\ Budget \in Nat /\ Len(row.state) \in Nat
    <2>1. calls \in Nat /\ Budget \in Nat /\ Len(row.state) \in Nat
      BY SizesAreNumbers
    <2>2. calls' - 1 = calls /\ calls' >= 1
      BY <1>1, <2>1
    <2>3. calls * Budget \in Nat /\ (calls + 1) * Budget = calls * Budget + Budget
      BY <2>1, Budgets
    <2>4. QED
      BY <1>1, <2>1, <2>2, <2>3
  <1>3. Len(row'.state) <= calls * Budget /\ Len(row'.state) <= calls' * Budget
    BY <1>1, <1>2 DEF Affordable
  <1>4. pc' = "head" => Len(state') <= calls * Budget + spent' /\ spent' <= Budget
    BY <1>1, <1>2, <1>3
  <1>5. QED
    BY <1>1, <1>2, <1>3, <1>4 DEF Affordable, InRun, BetweenWaves

\* Merging adds to the state what it adds to the cost.
LEMMA MergeIsAffordable ==
  ASSUME CallInv, Affordable, MergeWave
  PROVE  Affordable'
PROOF
  <1>1. /\ pc = "wave" /\ pc' = "saveWave" /\ UNCHANGED <<row, calls>>
        /\ state' = state \o Sorted(results)
        /\ spent' = spent + Len(results) /\ spent' <= Budget
    BY DEF MergeWave, Goto, Merged, Collected
  <1>2. Len(state') = Len(state) + Len(results) /\ Len(results) \in Nat
    BY <1>1, SortedProperties DEF CallInv, LocalsOK, ResultsOK
  <1>3. Len(state) <= (calls - 1) * Budget + spent /\ calls >= 1
    BY <1>1 DEF Affordable, InRun
  <1>4. Len(state') <= (calls - 1) * Budget + spent'
    <2>1. /\ (calls - 1) * Budget \in Nat /\ Len(state) \in Nat
          /\ spent \in Nat
      BY <1>3, SizesAreNumbers
    <2> DEFINE before == (calls - 1) * Budget
    <2> HIDE DEF before
    <2>2. before \in Nat /\ Len(state) <= before + spent
      BY <1>3, <2>1 DEF before
    <2>3. Len(state') <= before + spent'
      BY <1>1, <1>2, <2>1, <2>2
    <2>4. QED
      BY <2>3 DEF before
  <1>5. QED
    BY <1>1, <1>3, <1>4 DEF Affordable

\* An answered node costs 1 of a budget that must allow it.
LEMMA AnswerIsAffordable ==
  ASSUME CallInv, Affordable, AnswerNotFound \/ AnswerRuns \/ AnswerHandsOff
  PROVE  Affordable'
PROOF
  <1>1. pc = "answer" /\ pc' = "idle" /\ calls' = calls
    BY DEF AnswerNotFound, AnswerRuns, AnswerHandsOff, AnswerWrites, Return, Quit
  <1>2. row'.state = row.state \/ (Budget > 0 /\ Len(row'.state) = Len(row.state) + 1)
    <2>1. ASSUME NEW n PROVE Len(Append(row.state, n)) = Len(row.state) + 1
      BY DEF CallInv, GlobalsOK, RowType
    <2>2. QED
      BY <2>1 DEF AnswerNotFound, AnswerRuns, AnswerHandsOff, AnswerWrites, RolledBack, WithoutDag
  <1>3. Len(row.state) <= (calls - 1) * Budget /\ calls >= 1
    BY <1>1 DEF Affordable
  <1>4. Len(row'.state) <= calls * Budget
    BY <1>2, <1>3, SizesAreNumbers
  <1>5. QED
    BY <1>1, <1>4 DEF Affordable, InRun, BetweenWaves

\* Every step preserves Affordable.
LEMMA AffordableNext ==
  ASSUME DagInv, CallInv, Affordable, Next
  PROVE  Affordable'
PROOF
  <1>1. pc \in {"saveGate", "saveYield", "saveWave"} => pc \in InRun
    BY DEF InRun, BetweenWaves
  <1>2. PendingRow.state = state
    BY DEF PendingRow, WithDag
  <1>3. CASE Start
    BY <1>3, StartIsAffordable
  <1>4. CASE ReadHead \/ StopAtGate \/ LaunchWave \/ WaveYields
    BY <1>4, MoveIsAffordable
       DEF ReadHead, StopAtGate, LaunchWave, WaveYields, Collected, Goto, locals, InRun,
           BetweenWaves
  <1>5. CASE \/ Deadlock \/ Finish \/ NodeNotFound \/ PartialFailure \/ OverBudget
             \/ Crash \/ SaveFails \/ \E n \in Nodes : FailFast(n) \/ FailUnmarked(n)
    BY <1>5, QuitIsAffordable
       DEF Deadlock, Finish, NodeNotFound, PartialFailure, OverBudget, Crash, SaveFails,
           FailFast, FailUnmarked, Return
  <1>6. CASE SaveGate \/ SaveYield \/ AnswerLost
    BY <1>1, <1>2, <1>6, QuitIsAffordable DEF SaveGate, SaveYield, AnswerLost, Return
  <1>7. CASE SaveWave
    <2>1. CASE Return("interrupted")
      BY <1>1, <1>2, <1>7, <2>1, QuitIsAffordable DEF SaveWave, Return
    <2>2. CASE Goto("loop") /\ UNCHANGED <<state, spent>>
      BY <1>1, <1>2, <1>7, <2>2, MoveIsAffordable DEF SaveWave, Goto, InRun, BetweenWaves
    <2>3. QED
      BY <1>7, <2>1, <2>2 DEF SaveWave
  <1>8. CASE \E n \in Nodes : CollectOk(n) \/ CollectYield(n) \/ CollectFailure(n)
    BY <1>8, MoveIsAffordable
       DEF CollectOk, CollectYield, CollectFailure, Goto, Taken, InRun
  <1>9. CASE MergeWave
    BY <1>9, MergeIsAffordable
  <1>10. CASE AnswerNotFound \/ AnswerRuns \/ AnswerHandsOff
    BY <1>10, AnswerIsAffordable
  <1>11. CASE \E n \in Nodes : TaskStep(n)
    BY <1>11 DEF TaskStep, Acquire, TaskRetries, TaskEnds, TaskOnly, Affordable
  <1>12. QED
    BY <1>3, <1>4, <1>5, <1>6, <1>7, <1>8, <1>9, <1>10, <1>11 DEF Next, CallStep

\* The budget of run_dag (graph.rs 1089) is tested before a wave is saved: whatever
\* crashes, is lost or is resumed, no thread has saved outputs that cost more than one
\* budget for each of its calls.
THEOREM SavedWithinBudget == Spec => []BudgetPerCall
PROOF
  <1>1. Init => Affordable
    <2> SUFFICES ASSUME Init PROVE Affordable
      OBVIOUS
    <2>1. calls = 0 /\ pc = "idle" /\ Len(row.state) = 0 /\ Budget \in Nat
      BY DagSettingsAssumption DEF Init, NoRow, WithoutDag
    <2>2. QED
      BY <2>1 DEF Affordable, InRun, BetweenWaves
  <1>2. DagInv /\ CallInv /\ Affordable /\ [Next]_vars => Affordable'
    <2> SUFFICES ASSUME DagInv, CallInv, Affordable, [Next]_vars PROVE Affordable'
      OBVIOUS
    <2>1. CASE Next
      BY <2>1, AffordableNext
    <2>2. CASE UNCHANGED vars
      BY <2>2 DEF vars, locals, Affordable
    <2>3. QED
      BY <2>1, <2>2
  <1>3. Affordable => BudgetPerCall
    BY DEF Affordable, BudgetPerCall
  <1>4. QED
    BY <1>1, <1>2, <1>3, CallInvariant, PTL DEF Spec
-----------------------------------------------------------------------------
(* Sequences of outputs. *)

\* Distinct outputs are as many as the nodes they are of.
LEMMA OutputsAreCounted ==
  ASSUME NEW s \in Seq(Nodes), IsInjective(s)
  PROVE  Len(s) = Cardinality(Range(s))
PROOF
  <1>1. Len(s) \in Nat /\ DOMAIN s = 1..Len(s)
    OBVIOUS
  <1>2. IsFiniteSet(1..Len(s)) /\ Cardinality(1..Len(s)) = Len(s)
    BY <1>1, UpToHas
  <1>3. s \in [1..Len(s) -> Range(s)]
    BY <1>1 DEF Range
  <1>4. s \in Surjection(1..Len(s), Range(s))
    BY <1>1, <1>3 DEF Surjection, Range
  <1>5. s \in Injection(1..Len(s), Range(s))
    BY <1>3 DEF Injection
  <1>6. QED
    BY <1>2, <1>4, <1>5, FS_Surjection

\* The nodes that can be called once those of `done` have been.
Front(done) == {n \in Nodes \ done : deps[n] \subseteq done}

InWaves(s) == \E cuts \in SUBSET (0..Len(s)) : CutIntoWaves(s, cuts)

\* Waves are a matter of the dependencies, which are fixed.
LEMMA SameWave ==
  ASSUME UNCHANGED deps, NEW s, NEW c, NEW d
  PROVE  IsWave(s, c, d)' <=> IsWave(s, c, d)
  BY DEF IsWave

\* And so are sequences of waves.
LEMMA SameWaves ==
  ASSUME UNCHANGED deps, NEW s
  PROVE  InWaves(s)' <=> InWaves(s)
  BY SameWave DEF InWaves, CutIntoWaves

\* No output makes no wave.
LEMMA NothingIsInWaves == InWaves(<<>>)
PROOF
  <1>1. {0} \in SUBSET (0..Len(<<>>)) /\ CutIntoWaves(<<>>, {0})
    BY DEF CutIntoWaves
  <1>2. QED
    BY <1>1 DEF InWaves

\* The nodes of a sequence, by position.
LEMMA OutputsUpTo ==
  ASSUME NEW s \in Seq(Nodes)
  PROVE  {s[i] : i \in 1..Len(s)} = Range(s)
  BY DEF Range

\* A wave inside a sequence stays one when outputs follow.
LEMMA WaveStays ==
  ASSUME NEW s \in Seq(Nodes), NEW u \in Seq(Nodes), Len(s) <= Len(u),
         \A i \in 1..Len(s) : u[i] = s[i],
         NEW c \in 0..Len(s), NEW d \in 0..Len(s), c < d, IsWave(s, c, d)
  PROVE  IsWave(u, c, d)
PROOF
  <1>1. /\ \A i \in 1..c : i \in 1..Len(s)
        /\ \A i \in (c + 1)..d : i \in 1..Len(s)
    OBVIOUS
  <1>2. {u[i] : i \in 1..c} = {s[i] : i \in 1..c}
    BY <1>1
  <1>3. {u[i] : i \in (c + 1)..d} = {s[i] : i \in (c + 1)..d}
    BY <1>1
  <1>4. \A i, j \in (c + 1)..d : i < j => u[i] < u[j]
    BY <1>1 DEF IsWave
  <1>5. QED
    BY <1>2, <1>3, <1>4 DEF IsWave

\* A whole wave, in index order, after whole waves.
LEMMA WaveAfterWaves ==
  ASSUME NEW s \in Seq(Nodes), InWaves(s), NEW t \in Seq(Nodes), Increasing(t),
         Range(t) = Front(Range(s))
  PROVE  InWaves(s \o t)
PROOF
  <1> DEFINE u == s \o t
  <1>1. /\ u \in Seq(Nodes) /\ Len(s) \in Nat /\ Len(t) \in Nat
        /\ Len(u) = Len(s) + Len(t)
        /\ \A i \in 1..Len(s) : u[i] = s[i]
        /\ \A i \in 1..Len(t) : u[Len(s) + i] = t[i]
        /\ DOMAIN t = 1..Len(t)
    OBVIOUS
  <1> HIDE DEF u
  <1>2. \A i \in (Len(s) + 1)..Len(u) : i - Len(s) \in 1..Len(t) /\ u[i] = t[i - Len(s)]
    <2> SUFFICES ASSUME NEW i \in (Len(s) + 1)..Len(u)
                 PROVE  i - Len(s) \in 1..Len(t) /\ u[i] = t[i - Len(s)]
      OBVIOUS
    <2>1. i - Len(s) \in 1..Len(t) /\ Len(s) + (i - Len(s)) = i
      BY <1>1
    <2>2. u[Len(s) + (i - Len(s))] = t[i - Len(s)]
      BY <1>1, <2>1
    <2>3. QED
      BY <2>1, <2>2
  <1>3. {u[i] : i \in (Len(s) + 1)..Len(u)} = Range(t)
    <2>1. \A i \in 1..Len(t) : Len(s) + i \in (Len(s) + 1)..Len(u)
      BY <1>1
    <2>2. \A x \in Range(t) : \E i \in (Len(s) + 1)..Len(u) : u[i] = x
      BY <1>1, <2>1 DEF Range
    <2>3. \A i \in (Len(s) + 1)..Len(u) : u[i] \in Range(t)
      BY <1>1, <1>2 DEF Range
    <2>4. QED
      BY <2>2, <2>3
  <1>4. {u[i] : i \in 1..Len(s)} = Range(s)
    BY <1>1, OutputsUpTo
  <1>5. IsWave(u, Len(s), Len(u))
    <2>1. \A i, j \in (Len(s) + 1)..Len(u) : i < j => u[i] < u[j]
      <3> SUFFICES ASSUME NEW i \in (Len(s) + 1)..Len(u), NEW j \in (Len(s) + 1)..Len(u), i < j
                   PROVE  u[i] < u[j]
        OBVIOUS
      <3>1. i - Len(s) < j - Len(s)
        BY <1>1
      <3>2. t[i - Len(s)] < t[j - Len(s)]
        BY <1>1, <1>2, <3>1 DEF Increasing
      <3>3. QED
        BY <1>2, <3>2
    <2>2. QED
      BY <1>3, <1>4, <2>1 DEF IsWave, Front
  <1>6. PICK cuts \in SUBSET (0..Len(s)) : CutIntoWaves(s, cuts)
    BY DEF InWaves
  <1> DEFINE longer == cuts \cup {Len(u)}
  <1>7. longer \in SUBSET (0..Len(u)) /\ {0, Len(u)} \subseteq longer /\ Len(s) \in longer
    <2>1. {0, Len(s)} \subseteq cuts
      BY <1>6 DEF CutIntoWaves
    <2>2. \A c \in 0..Len(s) : c \in 0..Len(u)
      BY <1>1
    <2>3. Len(u) \in 0..Len(u)
      BY <1>1
    <2>4. QED
      BY <2>1, <2>2, <2>3
  <1>8. ASSUME NEW c \in longer, NEW d \in longer, c < d
        PROVE  IsWave(u, c, d) \/ \E e \in longer : c < e /\ e < d
    <2>1. (c \in 0..Len(s) /\ c \in cuts) \/ c = Len(u)
      BY <1>6
    <2>2. (d \in 0..Len(s) /\ d \in cuts) \/ d = Len(u)
      BY <1>6
    <2>3. CASE c \in cuts /\ d \in cuts
      <3>1. IsWave(s, c, d) \/ \E e \in cuts : c < e /\ e < d
        BY <1>6, <1>8, <2>3 DEF CutIntoWaves
      <3>2. c \in 0..Len(s) /\ d \in 0..Len(s)
        BY <1>6, <2>3
      <3>3. IsWave(s, c, d) => IsWave(u, c, d)
        BY <1>1, <1>8, <3>2, WaveStays
      <3>4. QED
        BY <3>1, <3>3
    <2>4. CASE c \in cuts /\ d = Len(u) /\ c # Len(s)
      <3>1. c < Len(s)
        <4>1. c \in 0..Len(s) /\ c # Len(s) /\ Len(s) \in Nat
          BY <1>1, <1>6, <2>4
        <4>2. QED
          BY <4>1
      <3>2. Len(s) < d \/ Len(s) = d
        BY <1>1, <2>4
      <3>3. Len(s) = d => d \in cuts
        BY <1>6 DEF CutIntoWaves
      <3>4. QED
        BY <1>7, <2>3, <2>4, <3>1, <3>2, <3>3
    <2>5. CASE c = Len(s) /\ d = Len(u)
      BY <1>5, <2>5
    <2>6. CASE c = Len(u)
      BY <1>1, <1>8, <2>2, <2>6
    <2>7. QED
      BY <2>1, <2>2, <2>3, <2>4, <2>5, <2>6
  <1> HIDE DEF longer
  <1>9. CutIntoWaves(u, longer)
    BY <1>7, <1>8 DEF CutIntoWaves
  <1>10. QED
    BY <1>7, <1>9 DEF InWaves, u
-----------------------------------------------------------------------------
(* The state and the statuses tell the same story, when no node yields and callers *)
(* hand over copies of the DAG from before the run.                               *)

\* Nothing is answered, as nothing waits for an answer.
NoQuestions == pc \notin {"answer", "saveYield"} /\ row.status # "Yielded"

SavedStory ==
  /\ row.dag = NoDag => row.state = <<>>
  /\ row.dag # NoDag => Range(row.state) = Having(row.dag, "Done") /\ row.ids = ids
  /\ IsInjective(row.state)
  /\ InWaves(row.state)

RunStory == pc \in InRun => IsInjective(state) /\ InWaves(state)

\* Between waves the outputs are merged of the nodes that are Done; within one, its
\* results are still to come.
MergedAreDone == pc \in BetweenWaves => Range(state) = Done
WaveStory ==
  pc = "wave" => /\ wave = Front(Range(state))
                 /\ Done = Range(state) \cup Range(results)
                 /\ Range(results) \subseteq wave
                 /\ \A n \in wave : status[n] # "Pending"

StoryInv == NoQuestions /\ SavedStory /\ RunStory /\ MergedAreDone /\ WaveStory

\* A call that ends with a good row.
LEMMA QuitKeepsStory ==
  ASSUME NEW how, Quit(how), SavedStory', row'.status # "Yielded"
  PROVE  StoryInv'
  BY DEF Quit, StoryInv, NoQuestions, RunStory, MergedAreDone, WaveStory, InRun, BetweenWaves

\* The row is as it was.
LEMMA SameRowSameStory ==
  ASSUME StoryInv, UNCHANGED <<row, deps, ids>>
  PROVE  SavedStory' /\ row'.status # "Yielded"
  BY SameWaves DEF StoryInv, NoQuestions, SavedStory, Having

\* A bound write saves the story of the run.
LEMMA SaveTellsStory ==
  ASSUME DagInv, StoryInv, pc \in {"saveGate", "saveYield", "saveWave"},
         row' = PendingRow, UNCHANGED <<status, deps, ids>>
  PROVE  SavedStory' /\ row'.status # "Yielded"
PROOF
  <1>1. pc # "saveYield" /\ pc \in InRun /\ pc \in BetweenWaves
    BY DEF StoryInv, NoQuestions, InRun, BetweenWaves
  <1>2. /\ row'.dag = status /\ row'.ids = ids /\ row'.state = state
        /\ row'.status # "Yielded" /\ status # NoDag
    BY <1>1, DagIsNotMissing DEF PendingRow, WithDag, DagInv, Formed
  <1>3. IsInjective(state) /\ InWaves(state) /\ Range(state) = Having(status, "Done")
    BY <1>1 DEF StoryInv, RunStory, MergedAreDone, Done
  <1>4. SavedStory'
    BY <1>2, <1>3, SameWaves DEF SavedStory, Having
  <1>5. QED
    BY <1>2, <1>4

\* Going on between waves.
LEMMA MoveKeepsStory ==
  ASSUME StoryInv, pc \in BetweenWaves, pc' \in BetweenWaves \ {"saveYield"},
         UNCHANGED <<deps, status, state>>, SavedStory', row'.status # "Yielded"
  PROVE  StoryInv'
PROOF
  <1>1. pc' # "answer" /\ pc' # "wave" /\ pc \in InRun
    BY DEF BetweenWaves, InRun
  <1>2. NoQuestions' /\ WaveStory'
    BY <1>1 DEF NoQuestions, WaveStory
  <1>3. RunStory'
    BY <1>1, SameWaves DEF StoryInv, RunStory
  <1>4. MergedAreDone'
    BY DEF StoryInv, MergedAreDone, Done, Having
  <1>5. QED
    BY <1>2, <1>3, <1>4 DEF StoryInv

\* A run begins with the story of the latest checkpoint.
LEMMA StartKeepsStory ==
  ASSUME Given \subseteq {"kept"}, DagInv, NothingLeftOver, StoryInv, Start
  PROVE  StoryInv'
PROOF
  <1>1. ASSUME pc' = "head", IsInjective(state'), InWaves(state)', Range(state') = Done',
               UNCHANGED <<row, deps, ids>>
        PROVE  StoryInv'
    BY <1>1, SameRowSameStory
       DEF StoryInv, NoQuestions, RunStory, MergedAreDone, WaveStory, Range, IsInjective
  <1>2. CASE StartRun
    <2>1. /\ pc' = "head" /\ status' = AllPending /\ row = NoRow
          /\ UNCHANGED <<row, deps, ids>>
          /\ \E merged \in {<<>>, row.state} : Fresh(merged)
      BY <1>2 DEF StartRun, Begin, GivenStatus, GivenIds
    <2>2. state' = <<>>
      BY <2>1 DEF Fresh, NoRow, WithoutDag
    <2>3. IsInjective(state') /\ Range(state') = {} /\ Done' = {}
      BY <2>1, <2>2, EmptyOutputs DEF Done, Having, AllPending
    <2>4. InWaves(state)'
      BY <2>1, <2>2, NothingIsInWaves, SameWaves
    <2>5. QED
      BY <1>1, <2>1, <2>3, <2>4
  <1>3. CASE StartResume
    <2>1. /\ pc' = "head" /\ state' = row.state /\ status' = Restored(row, AllPending, ids)
          /\ UNCHANGED <<row, deps, ids>> /\ row.dag # NoDag
      BY <1>3 DEF StartResume, Begin, Fresh, GivenStatus, GivenIds
    <2>2. row.ids = ids /\ \A n \in Nodes : row.dag[n] # "Running"
      BY <2>1 DEF NothingLeftOver, Settled, SettledStatus, StoryInv, SavedStory
    <2>3. \A n \in Nodes : status'[n] = row.dag[n]
      BY <2>1, <2>2 DEF Restored
    <2>4. Done' = Having(row.dag, "Done")
      BY <2>3 DEF Done, Having
    <2>5. IsInjective(state') /\ Range(state') = Done'
      BY <2>1, <2>4 DEF StoryInv, SavedStory
    <2>6. InWaves(state)'
      BY <2>1, SameWaves DEF StoryInv, SavedStory
    <2>7. QED
      BY <1>1, <2>1, <2>5, <2>6
  <1>4. CASE StartAnswer
    BY <1>4 DEF StartAnswer, StoryInv, NoQuestions
  <1>5. QED
    BY <1>2, <1>3, <1>4 DEF Start

\* A wave is the nodes that the state has the inputs of.
LEMMA LaunchKeepsStory ==
  ASSUME DagInv, NeverYielded, NothingLeftOver, StoryInv, LaunchWave
  PROVE  StoryInv'
PROOF
  <1>1. /\ pc = "loop" /\ pc' = "wave" /\ UNCHANGED <<deps, ids, row, state>> /\ MarkRunning
        /\ wave' = Ready /\ results' = <<>>
    BY DEF LaunchWave, Goto, given
  <1>2. Settled(status) /\ Range(state) = Done /\ IsInjective(state) /\ InWaves(state)
    BY <1>1 DEF DagInv, SettledBetweenWaves, SettledButStale, NothingLeftOver, Settled,
                BetweenWaves, StoryInv, MergedAreDone, RunStory, InRun
  <1>3. \A n \in Nodes : status[n] = "Pending" <=> n \notin Done
    BY <1>2 DEF Settled, SettledStatus, NeverYielded, Done, Having
  <1>4. Ready = Front(Range(state))
    BY <1>2, <1>3 DEF Ready, Pending, Having, Front
  <1>5. Done' = Done
    BY <1>1 DEF MarkRunning, Ready, Pending, Done, Having
  <1>6. \A n \in Ready : status'[n] # "Pending"
    BY <1>1 DEF MarkRunning, Ready, Pending, Having
  <1>7. WaveStory'
    BY <1>1, <1>2, <1>4, <1>5, <1>6, EmptyOutputs DEF WaveStory, Front
  <1>8. RunStory'
    BY <1>1, <1>2, SameWaves DEF RunStory
  <1>9. NoQuestions' /\ MergedAreDone' /\ SavedStory'
    BY <1>1, SameRowSameStory DEF NoQuestions, MergedAreDone, BetweenWaves
  <1>10. QED
    BY <1>7, <1>8, <1>9 DEF StoryInv

\* A result makes its node Done, a failure does not.
LEMMA CollectKeepsStory ==
  ASSUME DagInv, CallInv, StoryInv, NEW n \in Nodes, CollectOk(n) \/ CollectFailure(n)
  PROVE  StoryInv'
PROOF
  <1>1. /\ pc = "wave" /\ pc' = "wave" /\ UNCHANGED <<deps, ids, row, state, wave>>
        /\ n \in wave /\ status[n] = "Running"
    BY TaskMeansRunning DEF CollectOk, CollectFailure, Goto, Taken, given
  <1>2. /\ wave = Front(Range(state)) /\ Range(results) \subseteq wave
        /\ Done = Range(state) \cup Range(results)
        /\ \A m \in wave : m \in Nodes /\ status[m] # "Pending"
    BY <1>1 DEF StoryInv, WaveStory, Front
  <1>3. Done' = Range(state) \cup Range(results') /\ Range(results') \subseteq wave
    <2>1. CASE CollectOk(n)
      <3>1. results' = Append(results, n) /\ status' = [status EXCEPT ![n] = "Done"]
        BY <2>1 DEF CollectOk, Mark
      <3>2. Range(results') = Range(results) \cup {n}
        BY <3>1, AppendOutput, EndedIsNotCollected, <2>1
           DEF CollectOk, CallInv, LocalsOK, ResultsOK
      <3>3. Done' = Done \cup {n}
        BY <3>1 DEF DagInv, Formed, Done, Having
      <3>4. QED
        BY <1>1, <1>2, <3>2, <3>3
    <2>2. CASE CollectFailure(n)
      <3>1. results' = results /\ status' = [status EXCEPT ![n] = "Failed"]
        BY <2>2 DEF CollectFailure, Mark
      <3>2. Done' = Done
        BY <1>1, <3>1 DEF DagInv, Formed, Done, Having
      <3>3. QED
        BY <1>2, <3>1, <3>2
    <2>3. QED
      BY <2>1, <2>2
  <1>4. \A m \in wave : status'[m] # "Pending"
    BY <1>2 DEF CollectOk, CollectFailure, Mark, DagInv, Formed
  <1>5. WaveStory'
    BY <1>1, <1>2, <1>3, <1>4 DEF WaveStory, Front
  <1>6. RunStory'
    BY <1>1, SameWaves DEF StoryInv, RunStory, InRun
  <1>7. NoQuestions' /\ MergedAreDone' /\ SavedStory'
    BY <1>1, SameRowSameStory DEF NoQuestions, MergedAreDone, BetweenWaves
  <1>8. QED
    BY <1>5, <1>6, <1>7 DEF StoryInv

\* A wave collected without a failure is done, so its results are all of it: merging
\* them in order adds one whole wave.
LEMMA MergeKeepsStory ==
  ASSUME DagInv, CallInv, NeverYielded, NothingLeftOver, StoryInv, MergeWave
  PROVE  StoryInv'
PROOF
  <1>1. /\ pc = "wave" /\ pc' = "saveWave" /\ UNCHANGED <<deps, ids, row, status>>
        /\ state' = state \o Sorted(results)
        /\ Collected /\ ~WaveFailed
    BY DEF MergeWave, Goto, Merged, Collected, given
  <1>2. /\ wave = Front(Range(state)) /\ Range(results) \subseteq wave
        /\ Done = Range(state) \cup Range(results)
        /\ \A m \in wave : m \in Nodes /\ m \notin Range(state) /\ status[m] # "Pending"
        /\ IsInjective(state) /\ InWaves(state)
    BY <1>1 DEF StoryInv, WaveStory, Front, RunStory, InRun
  <1>3. Settled(status)
    BY <1>1, CollectedIsSettled DEF SettledButStale, NothingLeftOver, Settled
  <1>4. \A m \in wave : m \in Done
    BY <1>2, <1>3 DEF Settled, SettledStatus, NeverYielded, Done, Having
  <1>5. Range(results) = wave
    BY <1>2, <1>4
  <1>6. /\ Sorted(results) \in Seq(Nodes) /\ Range(Sorted(results)) = wave
        /\ Increasing(Sorted(results)) /\ IsInjective(Sorted(results))
        /\ state \in Seq(Nodes)
    BY <1>5, SortedProperties DEF CallInv, LocalsOK, ResultsOK
  <1>7. Range(state') = Done /\ IsInjective(state')
    BY <1>1, <1>2, <1>5, <1>6, JoinOutputs
  <1>8. InWaves(state \o Sorted(results))
    BY <1>2, <1>6, WaveAfterWaves
  <1>9. InWaves(state)'
    BY <1>1, <1>8, SameWaves
  <1>10. RunStory' /\ MergedAreDone'
    BY <1>1, <1>7, <1>9 DEF RunStory, MergedAreDone, Done, Having, Range, IsInjective
  <1>11. NoQuestions' /\ WaveStory' /\ SavedStory'
    BY <1>1, SameRowSameStory DEF NoQuestions, WaveStory
  <1>12. QED
    BY <1>10, <1>11 DEF StoryInv

\* Every step preserves StoryInv.
LEMMA StoryNext ==
  ASSUME Given \subseteq {"kept"}, DagInv, CallInv, NeverYielded, NothingLeftOver, StoryInv,
         Next
  PROVE  StoryInv'
PROOF
  <1>1. CASE Start
    BY <1>1, StartKeepsStory
  <1>2. CASE ReadHead \/ StopAtGate
    <2>1. UNCHANGED <<row, deps, ids, status, state>>
      BY <1>2 DEF ReadHead, StopAtGate, Goto, locals, given
    <2>2. QED
      BY <1>2, <2>1, SameRowSameStory, MoveKeepsStory
         DEF ReadHead, StopAtGate, Goto, BetweenWaves
  <1>3. CASE LaunchWave
    BY <1>3, LaunchKeepsStory
  <1>4. ASSUME NEW how, Quit(how), UNCHANGED row
        PROVE  StoryInv'
    BY <1>4, SameRowSameStory, QuitKeepsStory DEF Quit, given
  <1>5. CASE \/ Deadlock \/ Finish \/ NodeNotFound \/ PartialFailure \/ OverBudget
             \/ Crash \/ SaveFails \/ \E n \in Nodes : FailFast(n) \/ FailUnmarked(n)
    BY <1>4, <1>5
       DEF Deadlock, Finish, NodeNotFound, PartialFailure, OverBudget, Crash, SaveFails,
           FailFast, FailUnmarked, Return
  <1>6. CASE SaveGate \/ SaveYield \/ AnswerLost
    BY <1>6, SaveTellsStory, QuitKeepsStory
       DEF SaveGate, SaveYield, AnswerLost, Return, Quit, given
  <1>7. CASE SaveWave
    <2>1. pc \in BetweenWaves /\ row' = PendingRow /\ UNCHANGED <<status, deps, ids>>
      BY <1>7 DEF SaveWave, Return, Quit, Goto, BetweenWaves, given
    <2>2. SavedStory' /\ row'.status # "Yielded"
      BY <1>7, <2>1, SaveTellsStory DEF SaveWave
    <2>3. CASE Return("interrupted")
      BY <2>2, <2>3, QuitKeepsStory DEF Return
    <2>4. CASE Goto("loop") /\ UNCHANGED state
      BY <2>1, <2>2, <2>4, MoveKeepsStory DEF Goto, BetweenWaves
    <2>5. QED
      BY <1>7, <2>3, <2>4 DEF SaveWave
  <1>8. CASE \E n \in Nodes : CollectOk(n) \/ CollectFailure(n)
    BY <1>8, CollectKeepsStory
  <1>9. CASE MergeWave
    BY <1>9, MergeKeepsStory
  <1>10. CASE \/ WaveYields \/ AnswerNotFound \/ AnswerRuns \/ AnswerHandsOff
              \/ \E n \in Nodes : CollectYield(n)
    BY <1>10 DEF WaveYields, WaveYielded, CollectYield, NeverYielded, CallInv, LocalsOK,
                 AnswerNotFound, AnswerRuns, AnswerHandsOff, AnswerWrites, StoryInv, NoQuestions
  <1>11. CASE \E n \in Nodes : TaskStep(n)
    <2>1. UNCHANGED <<deps, ids, status, row, pc, state, wave, results>>
      BY <1>11 DEF TaskStep, Acquire, TaskRetries, TaskEnds, TaskOnly, given
    <2>2. QED
      BY <2>1, SameWaves
         DEF StoryInv, NoQuestions, SavedStory, RunStory, MergedAreDone, WaveStory, Having,
             Done, Front
  <1>12. QED
    BY <1>1, <1>2, <1>3, <1>5, <1>6, <1>7, <1>8, <1>9, <1>10, <1>11 DEF Next, CallStep

\* The invariant behind outputs, inputs and their order.
LEMMA StoryInvariant ==
  ASSUME NoYields, Given \subseteq {"kept"}
  PROVE  Spec => [](DagInv /\ CallInv /\ StoryInv)
PROOF
  <1> DEFINE I == NeverYielded /\ NothingLeftOver /\ StoryInv
  <1>1. Init => I
    <2> SUFFICES ASSUME Init PROVE I
      OBVIOUS
    <2>1. /\ row.dag = NoDag /\ row.state = <<>> /\ row.status = "None" /\ pc = "idle"
          /\ status = AllPending /\ task = NoTasks /\ stale = {}
      BY DEF Init, NoRow, WithoutDag
    <2>2. NeverYielded /\ NothingLeftOver
      BY <2>1 DEF NeverYielded, NothingLeftOver, AllPending, NoTasks
    <2>3. SavedStory
      BY <2>1, EmptyOutputs, NothingIsInWaves DEF SavedStory
    <2>4. QED
      BY <2>1, <2>2, <2>3
         DEF StoryInv, NoQuestions, RunStory, MergedAreDone, WaveStory, InRun, BetweenWaves
  <1>2. DagInv /\ CallInv /\ I /\ [Next]_vars => I'
    <2> SUFFICES ASSUME DagInv, CallInv, I, [Next]_vars
                 PROVE  I'
      OBVIOUS
    <2>1. CASE Next
      <3>1. "left" \notin Given
        OBVIOUS
      <3>2. QED
        BY NoYields, <2>1, <3>1, NeverYieldedStep, NothingLeftOverStep, StoryNext
    <2>2. CASE UNCHANGED vars
      BY <2>2, SameWaves
         DEF vars, locals, given, NeverYielded, NothingLeftOver, Settled, StoryInv, NoQuestions,
             SavedStory, RunStory, MergedAreDone, WaveStory, Having, Done, Front
    <2>3. QED
      BY <2>1, <2>2
  <1>3. I => StoryInv
    OBVIOUS
  <1>4. QED
    BY <1>1, <1>2, <1>3, CallInvariant, PTL DEF Spec

\* When no node yields and callers hand over copies of the DAG from before the run, a
\* checkpoint's snapshot and state agree: exactly the nodes that the snapshot has as Done
\* have their output in the state, and have it once (graph.rs 1079-1107).
THEOREM SnapshotsMatchState ==
  ASSUME NoYields, Given \subseteq {"kept"}
  PROVE  Spec => []SavedOutputs
PROOF
  <1>1. CallInv /\ StoryInv => SavedOutputs
    <2>1. CallInv => row.state \in Seq(Nodes)
      BY DEF CallInv, GlobalsOK, RowType
    <2>2. QED
      BY <2>1, OutputsAreCounted DEF StoryInv, SavedStory, SavedOutputs
  <1>2. QED
    BY <1>1, StoryInvariant, PTL

\* Under the same conditions, a node is called with a state that holds the outputs of all
\* its dependencies (graph.rs 800), in a run as in a resumed one.
THEOREM InputsAreComplete ==
  ASSUME NoYields, Given \subseteq {"kept"}
  PROVE  Spec => []InputsComplete
PROOF
  <1>1. DagInv /\ StoryInv => InputsComplete
    <2> SUFFICES ASSUME DagInv, StoryInv, NEW n \in Nodes, task[n] = "running"
                 PROVE  deps[n] \subseteq Range(state)
      BY DEF InputsComplete
    <2>1. pc = "wave" /\ n \in wave
      BY TaskMeansRunning
    <2>2. QED
      BY <2>1 DEF StoryInv, WaveStory, Front
  <1>2. QED
    BY <1>1, StoryInvariant, PTL

\* Under the same conditions, the state that a checkpoint holds is made of whole waves, each
\* in the order of the DAG's nodes: it depends neither on the order in which concurrent
\* nodes finished (graph.rs 1081) nor on where earlier calls were broken off.
THEOREM MergesInOrder ==
  ASSUME NoYields, Given \subseteq {"kept"}
  PROVE  Spec => []MergeOrder
PROOF
  <1>1. StoryInv => MergeOrder
    BY DEF StoryInv, SavedStory, InWaves, MergeOrder
  <1>2. QED
    BY <1>1, StoryInvariant, PTL
=============================================================================

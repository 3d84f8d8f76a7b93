--------------------------- MODULE WaveDagProofs ---------------------------
(***************************************************************************)
(* Proofs about WaveDag for every dependency relation, with cycles too,    *)
(* every outcome of the nodes, every setting and all bounds, and whatever  *)
(* DAG value callers hand over unless a theorem says otherwise.            *)
(***************************************************************************)
EXTENDS WaveDag, TLAPS

-----------------------------------------------------------------------------
(* The inductive invariant.  It says nothing of the state and of results: the   *)
(* order of nodes depends on statuses alone.                                  *)

SettledStatus == {"Pending", "Done", "Yielded"}
Settled(dag) == \A n \in Nodes : dag[n] \in SettledStatus

\* No node has left Pending before its dependencies were Done.
Closed(dag) ==
  \A n \in Nodes : \A d \in deps[n] : dag[n] # "Pending" => dag[d] = "Done"

\* Settled but for nodes that were Running or Failed before the run.
SettledButStale(dag) == \A n \in Nodes : n \in stale \/ dag[n] \in SettledStatus

SnapshotSound == row.dag # NoDag => row.dag \in [Nodes -> NodeStatus] /\ Closed(row.dag)

IsRow(r) == r = [status |-> r.status, dag |-> r.dag, ids |-> r.ids,
                 state |-> r.state, next |-> r.next]

Formed == /\ deps \in Graphs
          /\ status \in [Nodes -> NodeStatus]
          /\ task \in [Nodes -> {"none", "queued", "running"} \cup Results]
          /\ ids \in Nat \ {0}
          /\ IsRow(row) /\ row.ids \in Nat /\ row.ids <= ids

\* A task belongs to a node of the wave that is marked Running, and inside a wave
\* a node is Running or Failed on account of the wave, or was so before the run.
TaskInStep(n) ==
  /\ task[n] # "none" => pc = "wave" /\ n \in wave /\ status[n] = "Running"
  /\ pc = "wave" /\ status[n] = "Running" => task[n] # "none" \/ n \in stale
  /\ pc = "wave" /\ status[n] = "Failed" => n \in wave \/ n \in stale

TasksInStep == \A n \in Nodes : TaskInStep(n)

\* Where the run has no wave under way, and where it has one.
BetweenWaves == {"head", "loop", "saveGate", "saveYield", "saveWave"}
InRun == BetweenWaves \cup {"wave"}

SettledBetweenWaves == pc \in BetweenWaves => SettledButStale(status)

\* No wave takes up a node that was Running or Failed before the run.
StaleApart ==
  /\ pc \in InRun => \A n \in Nodes : n \in stale => status[n] \in {"Running", "Failed"}
  /\ pc = "wave" => wave \cap stale = {}

\* The caller's DAG, if it is the one that was saved, knows of every completion that
\* the latest checkpoint holds.
SavedIsKnown ==
  row.dag # NoDag /\ row.ids = ids =>
    \A n \in Nodes : row.dag[n] = "Done" => status[n] = "Done"

DagInv == /\ Formed
          /\ Closed(status)
          /\ SnapshotSound
          /\ TasksInStep
          /\ SettledBetweenWaves
          /\ StaleApart
          /\ SavedIsKnown

-----------------------------------------------------------------------------
(* Steps that share a shape. *)

\* A node's dependencies are nodes.
LEMMA DepsAreNodes ==
  ASSUME Formed, NEW n \in Nodes, NEW d \in deps[n]
  PROVE  d \in Nodes
  BY DagAssumption DEF Formed

\* DependenciesFirst is the invariant's Closed(status).
LEMMA ClosedMeansFirst ==
  ASSUME Formed
  PROVE  Closed(status) <=> DependenciesFirst
PROOF
  <1>1. \A n \in Nodes : status[n] # "Pending" <=>
                           status[n] \in {"Running", "Done", "Failed", "Yielded"}
    BY DEF Formed, NodeStatus
  <1>2. \A n \in Nodes : deps[n] \subseteq Done <=> \A d \in deps[n] : status[d] = "Done"
    BY DepsAreNodes DEF Done, Having
  <1>3. QED
    BY <1>1, <1>2 DEF Closed, DependenciesFirst

\* A return preserves the invariant if its last status changes and its last save
\* are sound.
LEMMA QuitPreserves ==
  ASSUME DagInv, NEW how, Quit(how),
         status' \in [Nodes -> NodeStatus], Closed(status)', SnapshotSound',
         IsRow(row'), row'.ids \in {0, row.ids, ids}, SavedIsKnown'
  PROVE  DagInv'
PROOF
  <1>1. pc' = "idle" /\ deps' = deps /\ task' = NoTasks /\ UNCHANGED <<ids, stale>>
    BY DEF Quit, Fresh, given
  <1>2. Formed'
    BY <1>1 DEF DagInv, Formed, NoTasks, IsRow
  <1>3. TasksInStep'
    BY <1>1 DEF TasksInStep, TaskInStep, NoTasks
  <1>4. SettledBetweenWaves' /\ StaleApart'
    BY <1>1 DEF SettledBetweenWaves, StaleApart, InRun, BetweenWaves
  <1>5. QED
    BY <1>2, <1>3, <1>4 DEF DagInv

\* The same when the checkpoint stays and no node ceases to be Done.
LEMMA UnsavedQuitPreserves ==
  ASSUME DagInv, NEW how, Quit(how), row' = row,
         status' \in [Nodes -> NodeStatus], Closed(status)',
         \A n \in Nodes : status[n] = "Done" => status'[n] = "Done"
  PROVE  DagInv'
PROOF
  <1>1. deps' = deps /\ UNCHANGED <<ids, stale>>
    BY DEF Quit, given
  <1>2. SnapshotSound' /\ IsRow(row') /\ row'.ids = row.ids
    BY <1>1 DEF DagInv, Formed, Closed, SnapshotSound
  <1>3. SavedIsKnown'
    BY <1>1 DEF DagInv, SavedIsKnown
  <1>4. QED
    BY <1>2, <1>3, QuitPreserves

\* The same when only the call returns.
LEMMA QuietQuitPreserves ==
  ASSUME DagInv, NEW how, Quit(how), UNCHANGED <<status, row>>
  PROVE  DagInv'
PROOF
  <1>1. deps' = deps
    BY DEF Quit
  <1>2. status' \in [Nodes -> NodeStatus] /\ Closed(status)'
    BY <1>1 DEF DagInv, Formed, Closed
  <1>3. QED
    BY <1>2, UnsavedQuitPreserves

\* A node that is marked by its result was Running, so its dependencies were Done
\* and no dependent had started.
LEMMA MarkKeepsClosed ==
  ASSUME DagInv, NEW n \in Nodes, status[n] = "Running", NEW kind \in NodeStatus,
         kind # "Pending", Mark(n, kind), deps' = deps
  PROVE  status' \in [Nodes -> NodeStatus] /\ Closed(status)'
PROOF
  <1>1. status' \in [Nodes -> NodeStatus]
    BY DEF DagInv, Formed, Mark
  <1>2. ASSUME NEW m \in Nodes, NEW d \in deps[m], status'[m] # "Pending"
        PROVE  status'[d] = "Done"
    <2>1. status[m] # "Pending"
      BY <1>2 DEF DagInv, Formed, Mark
    <2>2. status[d] = "Done"
      BY <2>1 DEF DagInv, Closed
    <2>3. d \in Nodes
      BY DepsAreNodes DEF DagInv
    <2>4. QED
      BY <2>2, <2>3 DEF DagInv, Formed, Mark
  <1>3. QED
    BY <1>1, <1>2 DEF Closed

\* A node whose task has ended is Running.
LEMMA TaskMeansRunning ==
  ASSUME DagInv, NEW n \in Nodes, task[n] # "none"
  PROVE  pc = "wave" /\ n \in wave /\ status[n] = "Running"
  BY DEF DagInv, TasksInStep, TaskInStep

\* Collecting one result within a wave.
LEMMA CollectPreserves ==
  ASSUME DagInv, NEW n \in Nodes, task[n] # "none",
         NEW kind \in {"Done", "Yielded", "Failed"},
         Goto("wave"), Mark(n, kind), Taken(n)
  PROVE  DagInv'
PROOF
  <1>1. pc = "wave" /\ n \in wave /\ status[n] = "Running"
    BY TaskMeansRunning
  <1>2. /\ pc' = "wave" /\ deps' = deps /\ row' = row /\ wave' = wave
        /\ task' = [task EXCEPT ![n] = "none"]
        /\ status' = [status EXCEPT ![n] = kind]
        /\ UNCHANGED <<ids, stale>>
    BY DEF Goto, Taken, Mark, given
  <1>3. status' \in [Nodes -> NodeStatus] /\ Closed(status)'
    BY <1>1, <1>2, MarkKeepsClosed DEF NodeStatus
  <1>4. Formed'
    BY <1>2, <1>3 DEF DagInv, Formed
  <1>5. SnapshotSound'
    BY <1>2 DEF DagInv, SnapshotSound, Closed
  <1>6. TasksInStep'
    BY <1>1, <1>2 DEF DagInv, Formed, TasksInStep, TaskInStep
  <1>7. SettledBetweenWaves'
    BY <1>2 DEF SettledBetweenWaves, BetweenWaves
  <1>8. SavedIsKnown'
    BY <1>1, <1>2 DEF DagInv, Formed, SavedIsKnown
  <1>9. StaleApart'
    BY <1>1, <1>2 DEF DagInv, Formed, StaleApart, InRun
  <1>10. QED
    BY <1>3, <1>4, <1>5, <1>6, <1>7, <1>8, <1>9 DEF DagInv

\* Moving on between waves.
LEMMA MovePreserves ==
  ASSUME DagInv, NEW to \in BetweenWaves, pc \in InRun, Goto(to), SettledButStale(status),
         \A n \in Nodes : task[n] = "none", UNCHANGED <<status, row, task>>
  PROVE  DagInv'
PROOF
  <1>1. pc' = to /\ deps' = deps /\ UNCHANGED <<ids, stale>>
    BY DEF Goto, given
  <1>2. Formed' /\ Closed(status)' /\ SnapshotSound'
    BY <1>1 DEF DagInv, Formed, Closed, SnapshotSound
  <1>3. TasksInStep'
    BY <1>1 DEF TasksInStep, TaskInStep, BetweenWaves
  <1>4. SettledBetweenWaves' /\ SavedIsKnown' /\ StaleApart'
    BY <1>1 DEF DagInv, SettledBetweenWaves, SavedIsKnown, StaleApart, SettledButStale,
                BetweenWaves
  <1>5. QED
    BY <1>2, <1>3, <1>4 DEF DagInv

\* Only inside a wave there are tasks.
LEMMA NoTasksBetween ==
  ASSUME DagInv, pc # "wave"
  PROVE  \A n \in Nodes : task[n] = "none"
  BY DEF DagInv, TasksInStep, TaskInStep

\* A wave that is collected without a failure has left every node settled, but those
\* that were not before the run.
LEMMA CollectedIsSettled ==
  ASSUME DagInv, Collected, ~WaveFailed
  PROVE  SettledButStale(status) /\ \A n \in Nodes : task[n] = "none"
PROOF
  <1>1. \A n \in Nodes : task[n] = "none"
    BY DEF DagInv, TasksInStep, TaskInStep, Collected
  <1>2. ASSUME NEW n \in Nodes, n \notin stale
        PROVE  status[n] \in SettledStatus
    <2>1. status[n] # "Running"
      BY <1>1, <1>2 DEF DagInv, TasksInStep, TaskInStep, Collected
    <2>2. status[n] # "Failed"
      BY <1>2 DEF DagInv, TasksInStep, TaskInStep, Collected, WaveFailed
    <2>3. QED
      BY <2>1, <2>2 DEF DagInv, Formed, NodeStatus, SettledStatus
  <1>3. QED
    BY <1>1, <1>2 DEF SettledButStale

\* A bound write of a run saves the DAG as it is.
LEMMA SavesAreSound ==
  ASSUME DagInv, pc \in {"saveGate", "saveYield", "saveWave"},
         row' = PendingRow, UNCHANGED <<status, deps, ids>>
  PROVE  /\ IsRow(row') /\ row'.dag = status /\ row'.ids = ids
         /\ SnapshotSound' /\ SavedIsKnown'
         /\ Closed(status)'
         /\ status' \in [Nodes -> NodeStatus]
PROOF
  <1>1. IsRow(row') /\ row'.dag = status /\ row'.ids = ids
    BY DEF PendingRow, WithDag, IsRow
  <1>2. SnapshotSound' /\ SavedIsKnown'
    BY <1>1 DEF DagInv, Formed, SnapshotSound, Closed, SavedIsKnown
  <1>3. QED
    BY <1>1, <1>2 DEF DagInv, Formed, Closed

\* A save with which the call returns.
LEMMA SaveAndQuitPreserves ==
  ASSUME DagInv, pc \in {"saveGate", "saveYield", "saveWave"},
         row' = PendingRow, UNCHANGED status, NEW how, Quit(how)
  PROVE  DagInv'
  BY SavesAreSound, QuitPreserves DEF Quit, given

\* Marking the ready nodes: their dependencies are Done, which they stay.
LEMMA LaunchKeepsClosed ==
  ASSUME DagInv, MarkRunning, deps' = deps
  PROVE  status' \in [Nodes -> NodeStatus] /\ Closed(status)'
PROOF
  <1>1. status' \in [Nodes -> NodeStatus]
    BY DEF DagInv, Formed, MarkRunning, NodeStatus
  <1>2. ASSUME NEW m \in Nodes, NEW d \in deps[m], status'[m] # "Pending"
        PROVE  status'[d] = "Done"
    <2>1. d \in Nodes
      BY DepsAreNodes DEF DagInv
    <2>2. status[d] = "Done"
      <3>1. CASE m \in Ready
        BY <3>1, <2>1 DEF Ready, Done, Having
      <3>2. CASE m \notin Ready
        BY <1>2, <3>2 DEF MarkRunning, DagInv, Closed
      <3>3. QED
        BY <3>1, <3>2
    <2>3. d \notin Ready
      BY <2>2 DEF Ready, Pending, Having
    <2>4. QED
      BY <2>1, <2>2, <2>3 DEF MarkRunning
  <1>3. QED
    BY <1>1, <1>2 DEF Closed

\* A dependency's node stays Done when its dependents are marked.
LEMMA LaunchKeepsDone ==
  ASSUME MarkRunning, NEW n \in Nodes
  PROVE  /\ status[n] = "Done" => status'[n] = "Done"
         /\ n \in Ready => status[n] = "Pending" /\ status'[n] = "Running"
         /\ n \notin Ready => status'[n] = status[n]
  BY DEF MarkRunning, Ready, Pending, Having

\* What resume_with_input writes has no snapshot, or is what it found.
LEMMA AnswerPreserves ==
  ASSUME DagInv, NEW how, Return(how), UNCHANGED status,
         row' = row \/ (IsRow(row') /\ row'.dag = NoDag /\ row'.ids = 0)
  PROVE  DagInv'
PROOF
  <1>1. Quit(how) /\ deps' = deps /\ ids' = ids
    BY DEF Return, Quit, given
  <1>2. CASE row' = row
    BY <1>1, <1>2, QuietQuitPreserves
  <1>3. CASE IsRow(row') /\ row'.dag = NoDag /\ row'.ids = 0
    <2>1. /\ status' \in [Nodes -> NodeStatus] /\ Closed(status)' /\ SnapshotSound'
          /\ SavedIsKnown'
      BY <1>1, <1>3 DEF DagInv, Formed, Closed, SnapshotSound, SavedIsKnown
    <2>2. QED
      BY <1>1, <1>3, <2>1, QuitPreserves
  <1>4. QED
    BY <1>2, <1>3

-----------------------------------------------------------------------------
(* Every step preserves the invariant. *)

\* The caller's DAG value, whichever it is, has its dependencies in order and does not
\* know less than the latest checkpoint of it.
LEMMA GivenIsSound ==
  ASSUME DagInv, NEW how \in Given, how = "kept" => row.dag = NoDag
  PROVE  /\ GivenStatus(how) \in [Nodes -> NodeStatus] /\ Closed(GivenStatus(how))
         /\ row.dag # NoDag /\ row.ids = GivenIds(how) =>
              \A n \in Nodes : row.dag[n] = "Done" => GivenStatus(how)[n] = "Done"
PROOF
  <1>1. AllPending \in [Nodes -> NodeStatus] /\ Closed(AllPending)
    BY DEF AllPending, NodeStatus, Closed
  <1>2. how \in {"kept", "left", "rebuilt"}
    BY DagSettingsAssumption
  <1>3. row.ids # ids + 1
    BY DEF DagInv, Formed
  <1>4. QED
    BY <1>1, <1>2, <1>3 DEF GivenStatus, GivenIds, DagInv, Formed, SavedIsKnown

LEMMA GivenIdsGrow ==
  ASSUME DagInv, NEW how
  PROVE  GivenIds(how) \in Nat \ {0} /\ ids <= GivenIds(how) /\ row.ids <= GivenIds(how)
  BY DEF GivenIds, DagInv, Formed

\* Restoring changes a Running node only, whose dependencies are Done.
LEMMA RestoredIsSound ==
  ASSUME DagInv, row.dag # NoDag, NEW dag \in [Nodes -> NodeStatus], Closed(dag), NEW id
  PROVE  /\ Restored(row, dag, id) \in [Nodes -> NodeStatus]
         /\ Closed(Restored(row, dag, id))
         /\ row.ids = id =>
              \A n \in Nodes : row.dag[n] = "Done" => Restored(row, dag, id)[n] = "Done"
PROOF
  <1> DEFINE found == IF row.ids = id THEN row.dag ELSE dag
             s == Restored(row, dag, id)
  <1>1. found \in [Nodes -> NodeStatus] /\ Closed(found)
    BY DEF DagInv, SnapshotSound
  <1>2. s = [n \in Nodes |->
               IF row.status = "Running" /\ found[n] = "Running"
               THEN CASE Policy = "ResetToPending" -> "Pending"
                      [] Policy = "SkipAndContinue" -> "Done"
                      [] OTHER -> "Running"
               ELSE found[n]]
    BY DEF Restored
  <1>3. row.ids = id => found = row.dag
    OBVIOUS
  <1> HIDE DEF found, s
  <1>4. ASSUME NEW n \in Nodes
        PROVE  /\ s[n] \in NodeStatus
               /\ found[n] = "Done" => s[n] = "Done"
               /\ s[n] # "Pending" => found[n] # "Pending"
    BY <1>1, <1>2 DEF NodeStatus
  <1>5. s \in [Nodes -> NodeStatus]
    BY <1>2, <1>4
  <1>6. Closed(s)
    BY <1>1, <1>4, DepsAreNodes DEF Closed, DagInv
  <1>7. QED
    BY <1>3, <1>4, <1>5, <1>6 DEF s

\* A call begins with the DAG that the caller hands over, or with the snapshot of it.
LEMMA StartPreserves ==
  ASSUME DagInv, Start
  PROVE  DagInv'
PROOF
  <1>1. \A n \in Nodes : task[n] = "none"
    BY NoTasksBetween DEF Start, StartRun, StartResume, StartAnswer, Begin
  <1>2. ASSUME NEW s, status' = s, s \in [Nodes -> NodeStatus], Closed(s),
               row' = row, deps' = deps, pc' = "head", task' = NoTasks,
               ids' \in Nat \ {0}, row.ids <= ids', stale' = Unsettled(s),
               row.dag # NoDag /\ row.ids = ids' =>
                 \A n \in Nodes : row.dag[n] = "Done" => s[n] = "Done"
        PROVE  DagInv'
    <2>1. Formed'
      BY <1>2 DEF DagInv, Formed, NoTasks
    <2>2. Closed(status)' /\ SnapshotSound'
      BY <1>2 DEF DagInv, SnapshotSound, Closed
    <2>3. TasksInStep'
      BY <1>2 DEF TasksInStep, TaskInStep, NoTasks
    <2>4. SettledBetweenWaves'
      BY <1>2 DEF SettledBetweenWaves, SettledButStale, SettledStatus, NodeStatus, Unsettled
    <2>5. StaleApart'
      BY <1>2 DEF StaleApart, Unsettled
    <2>6. SavedIsKnown'
      BY <1>2 DEF SavedIsKnown
    <2>7. QED
      BY <2>1, <2>2, <2>3, <2>4, <2>5, <2>6 DEF DagInv
  <1>3. CASE StartRun
    <2>1. PICK how \in Given :
            /\ how = "kept" => row = NoRow
            /\ Begin("head") /\ status' = GivenStatus(how) /\ ids' = GivenIds(how)
            /\ stale' = Unsettled(status') /\ row' = row
            /\ \E merged \in {<<>>, row.state} : Fresh(merged)
      BY <1>3 DEF StartRun
    <2>2. how = "kept" => row.dag = NoDag
      BY <2>1 DEF NoRow, WithoutDag
    <2>3. /\ GivenStatus(how) \in [Nodes -> NodeStatus] /\ Closed(GivenStatus(how))
          /\ row.dag # NoDag /\ row.ids = GivenIds(how) =>
               \A n \in Nodes : row.dag[n] = "Done" => GivenStatus(how)[n] = "Done"
      BY <2>2, GivenIsSound
    <2>4. deps' = deps /\ pc' = "head" /\ task' = NoTasks
      BY <2>1 DEF Begin, Fresh
    <2>5. ids' \in Nat \ {0} /\ row.ids <= ids'
      BY <2>1, GivenIdsGrow
    <2>6. QED
      BY <1>2, <2>1, <2>3, <2>4, <2>5
  <1>4. CASE StartResume
    <2>1. PICK how \in Given :
            /\ row.dag # NoDag
            /\ Begin("head") /\ ids' = GivenIds(how)
            /\ status' = Restored(row, GivenStatus(how), GivenIds(how))
            /\ stale' = Unsettled(status') /\ row' = row /\ Fresh(row.state)
      BY <1>4 DEF StartResume
    <2>2. GivenStatus(how) \in [Nodes -> NodeStatus] /\ Closed(GivenStatus(how))
      BY DEF GivenStatus, AllPending, NodeStatus, Closed, DagInv, Formed
    <2> DEFINE s == Restored(row, GivenStatus(how), GivenIds(how))
    <2>3. /\ s \in [Nodes -> NodeStatus] /\ Closed(s)
          /\ row.ids = GivenIds(how) => \A n \in Nodes : row.dag[n] = "Done" => s[n] = "Done"
      BY <2>1, <2>2, RestoredIsSound
    <2>4. deps' = deps /\ pc' = "head" /\ task' = NoTasks
      BY <2>1 DEF Begin, Fresh
    <2>5. ids' \in Nat \ {0} /\ row.ids <= ids'
      BY <2>1, GivenIdsGrow
    <2>6. status' = s /\ stale' = Unsettled(s)
      BY <2>1
    <2> HIDE DEF s
    <2>7. QED
      BY <1>2, <2>1, <2>3, <2>4, <2>5, <2>6
  <1>5. CASE StartAnswer
    <2>1. row'.dag = row.dag /\ row'.ids = row.ids /\ IsRow(row')
      BY <1>5 DEF StartAnswer, DagInv, Formed, IsRow
    <2>2. pc' = "answer" /\ UNCHANGED <<deps, status, ids, stale, task>>
      BY <1>5 DEF StartAnswer, Begin, locals, given
    <2>3. Formed' /\ Closed(status)' /\ SnapshotSound' /\ SavedIsKnown'
      BY <2>1, <2>2 DEF DagInv, Formed, Closed, SnapshotSound, SavedIsKnown
    <2>4. TasksInStep'
      BY <1>1, <2>2 DEF TasksInStep, TaskInStep
    <2>5. SettledBetweenWaves' /\ StaleApart'
      BY <2>2 DEF SettledBetweenWaves, StaleApart, InRun, BetweenWaves
    <2>6. QED
      BY <2>3, <2>4, <2>5 DEF DagInv
  <1>6. QED
    BY <1>3, <1>4, <1>5 DEF Start

\* Steps of the call up to the launch of a wave.
LEMMA LoopPreserves ==
  ASSUME DagInv,
         ReadHead \/ Deadlock \/ Finish \/ StopAtGate \/ LaunchWave \/ NodeNotFound
  PROVE  DagInv'
PROOF
  <1>1. CASE ReadHead
    <2>1. SettledButStale(status)
      BY <1>1 DEF ReadHead, DagInv, SettledBetweenWaves, BetweenWaves
    <2>2. QED
      BY <1>1, <2>1, MovePreserves, NoTasksBetween DEF ReadHead, InRun, BetweenWaves, locals
  <1>2. CASE Deadlock
    BY <1>2, QuietQuitPreserves DEF Deadlock, Return
  <1>3. CASE Finish
    BY <1>3, QuietQuitPreserves DEF Finish, Return
  <1>4. CASE StopAtGate
    <2>1. SettledButStale(status)
      BY <1>4 DEF StopAtGate, DagInv, SettledBetweenWaves, BetweenWaves
    <2>2. QED
      BY <1>4, <2>1, MovePreserves, NoTasksBetween DEF StopAtGate, InRun, BetweenWaves, locals
  <1>5. CASE LaunchWave
    <2>1. /\ pc = "loop" /\ pc' = "wave" /\ deps' = deps /\ row' = row
          /\ MarkRunning /\ wave' = Ready /\ UNCHANGED <<ids, stale>>
          /\ task' = [n \in Nodes |-> IF n \in Ready THEN "queued" ELSE "none"]
      BY <1>5 DEF LaunchWave, Goto, given
    <2>2. status' \in [Nodes -> NodeStatus] /\ Closed(status)'
      BY <2>1, LaunchKeepsClosed
    <2>3. SettledButStale(status)
      BY <2>1 DEF DagInv, SettledBetweenWaves, BetweenWaves
    <2>4. \A n \in Nodes : n \in stale => status[n] \in {"Running", "Failed"}
      BY <2>1 DEF DagInv, StaleApart, InRun, BetweenWaves
    <2>5. Formed' /\ SnapshotSound'
      BY <2>1, <2>2 DEF DagInv, Formed, SnapshotSound, Closed
    <2>6. TasksInStep'
      BY <2>1, <2>3, LaunchKeepsDone DEF TasksInStep, TaskInStep, SettledButStale, SettledStatus
    <2>7. SettledBetweenWaves'
      BY <2>1 DEF SettledBetweenWaves, BetweenWaves
    <2>8. StaleApart'
      <3>1. Ready \subseteq Nodes
        BY DEF Ready, Pending, Having
      <3>2. QED
        BY <2>1, <2>4, <3>1, LaunchKeepsDone DEF StaleApart
    <2>9. SavedIsKnown'
      BY <2>1, LaunchKeepsDone DEF DagInv, SavedIsKnown
    <2>10. QED
      BY <2>2, <2>5, <2>6, <2>7, <2>8, <2>9 DEF DagInv
  <1>6. CASE NodeNotFound
    <2>1. Quit("error") /\ deps' = deps /\ row' = row /\ MarkRunning
      BY <1>6 DEF NodeNotFound, Return, Quit
    <2>2. QED
      BY <2>1, LaunchKeepsClosed, LaunchKeepsDone, UnsavedQuitPreserves
  <1>7. QED
    BY <1>1, <1>2, <1>3, <1>4, <1>5, <1>6

\* Collecting the results of a wave.
LEMMA CollectionPreserves ==
  ASSUME DagInv, NEW n \in Nodes,
         CollectOk(n) \/ CollectYield(n) \/ CollectFailure(n) \/ FailFast(n) \/ FailUnmarked(n)
  PROVE  DagInv'
PROOF
  <1>1. CASE CollectOk(n)
    BY <1>1, CollectPreserves DEF CollectOk
  <1>2. CASE CollectYield(n)
    BY <1>2, CollectPreserves DEF CollectYield
  <1>3. CASE CollectFailure(n)
    BY <1>3, CollectPreserves DEF CollectFailure
  <1>4. CASE FailFast(n)
    <2>1. task[n] # "none" /\ Quit("error") /\ deps' = deps /\ row' = row /\ Mark(n, "Failed")
      BY <1>4 DEF FailFast, Return, Quit
    <2>2. status[n] = "Running"
      BY <2>1, TaskMeansRunning
    <2>3. status' \in [Nodes -> NodeStatus] /\ Closed(status)'
      BY <2>1, <2>2, MarkKeepsClosed DEF NodeStatus
    <2>4. \A m \in Nodes : status[m] = "Done" => status'[m] = "Done"
      BY <2>1, <2>2 DEF DagInv, Formed, Mark
    <2>5. QED
      BY <2>1, <2>3, <2>4, UnsavedQuitPreserves
  <1>5. CASE FailUnmarked(n)
    BY <1>5, QuietQuitPreserves DEF FailUnmarked, Return
  <1>6. QED
    BY <1>1, <1>2, <1>3, <1>4, <1>5

\* A wave that is over: its failure, its yield, its merge and the saves.
LEMMA WaveEndPreserves ==
  ASSUME DagInv,
         \/ PartialFailure \/ WaveYields \/ MergeWave \/ OverBudget
         \/ SaveGate \/ SaveYield \/ SaveWave
  PROVE  DagInv'
PROOF
  <1>1. CASE PartialFailure
    BY <1>1, QuietQuitPreserves DEF PartialFailure, Return
  <1>2. CASE WaveYields
    BY <1>2, CollectedIsSettled, MovePreserves
       DEF WaveYields, Collected, InRun, BetweenWaves, locals
  <1>3. CASE MergeWave
    BY <1>3, CollectedIsSettled, MovePreserves
       DEF MergeWave, Collected, InRun, BetweenWaves
  <1>4. CASE OverBudget
    BY <1>4, QuietQuitPreserves DEF OverBudget, Return
  <1>5. CASE SaveGate
    BY <1>5, SaveAndQuitPreserves DEF SaveGate, Return
  <1>6. CASE SaveYield
    BY <1>6, SaveAndQuitPreserves DEF SaveYield, Return
  <1>7. CASE SaveWave
    <2>1. pc = "saveWave" /\ row' = PendingRow /\ UNCHANGED status
      BY <1>7 DEF SaveWave
    <2>2. CASE wave \cap InterruptAfter # {}
      BY <1>7, <2>1, <2>2, SaveAndQuitPreserves DEF SaveWave, Return
    <2>3. CASE wave \cap InterruptAfter = {}
      <3>1. pc' = "loop" /\ UNCHANGED <<deps, task, ids, stale>>
        BY <1>7, <2>3 DEF SaveWave, Goto, given
      <3>2. /\ IsRow(row') /\ row'.dag = status /\ row'.ids = ids
            /\ SnapshotSound' /\ SavedIsKnown' /\ Closed(status)'
            /\ status' \in [Nodes -> NodeStatus]
        BY <2>1, <3>1, SavesAreSound
      <3>3. Formed'
        BY <3>1, <3>2 DEF DagInv, Formed
      <3>4. TasksInStep'
        BY <2>1, <3>1 DEF DagInv, TasksInStep, TaskInStep
      <3>5. SettledBetweenWaves' /\ StaleApart'
        BY <2>1, <3>1
           DEF DagInv, SettledBetweenWaves, BetweenWaves, SettledButStale, StaleApart, InRun
      <3>6. QED
        BY <3>2, <3>3, <3>4, <3>5 DEF DagInv
    <2>4. QED
      BY <2>2, <2>3
  <1>8. QED
    BY <1>1, <1>2, <1>3, <1>4, <1>5, <1>6, <1>7

\* The answer to a yielded wave.
LEMMA AnsweringPreserves ==
  ASSUME DagInv, AnswerNotFound \/ AnswerRuns \/ AnswerHandsOff
  PROVE  DagInv'
PROOF
  <1>1. ASSUME NEW how, NEW kind, NEW merged, NEW next,
               AnswerWrites(how, WithoutDag(kind, merged, next))
        PROVE  DagInv'
    <2>1. IsRow(row') /\ row'.dag = NoDag /\ row'.ids = 0
      BY <1>1 DEF AnswerWrites, WithoutDag, IsRow
    <2>2. QED
      BY <1>1, <2>1, AnswerPreserves DEF AnswerWrites
  <1>2. CASE AnswerNotFound
    BY <1>1, <1>2 DEF AnswerNotFound, RolledBack
  <1>3. CASE AnswerRuns
    BY <1>1, <1>3 DEF AnswerRuns, RolledBack
  <1>4. CASE AnswerHandsOff
    BY <1>4, AnswerPreserves DEF AnswerHandsOff, AnswerWrites
  <1>5. QED
    BY <1>2, <1>3, <1>4

\* Tasks move while their node stays Running.
LEMMA TaskPreserves ==
  ASSUME DagInv, NEW n \in Nodes, TaskStep(n)
  PROVE  DagInv'
PROOF
  <1>1. PICK to \in {"running"} \cup Results \cup {task[n]} :
          task[n] # "none" /\ task' = [task EXCEPT ![n] = to]
    <2>1. CASE Acquire(n)
      BY <2>1 DEF Acquire
    <2>2. CASE TaskRetries(n)
      BY <2>2 DEF TaskRetries, DagInv, Formed
    <2>3. CASE TaskEnds(n)
      BY <2>3 DEF TaskEnds, Final, Results
    <2>4. QED
      BY <2>1, <2>2, <2>3 DEF TaskStep
  <1>2. to # "none" /\ to \in {"queued", "running"} \cup Results
    BY <1>1 DEF DagInv, Formed, Results
  <1>3. UNCHANGED <<deps, status, row, pc, wave, ids, stale>>
    BY DEF TaskStep, Acquire, TaskRetries, TaskEnds, TaskOnly, given
  <1>4. Formed'
    BY <1>1, <1>2, <1>3 DEF DagInv, Formed
  <1>5. /\ Closed(status)' /\ SnapshotSound' /\ SettledBetweenWaves' /\ SavedIsKnown'
        /\ StaleApart'
    BY <1>3 DEF DagInv, Closed, SnapshotSound, SettledBetweenWaves, SavedIsKnown,
                SettledButStale, StaleApart
  <1>6. TasksInStep'
    BY <1>1, <1>2, <1>3 DEF DagInv, Formed, TasksInStep, TaskInStep
  <1>7. QED
    BY <1>4, <1>5, <1>6 DEF DagInv

\* Crashes and failing stores.
LEMMA FaultPreserves ==
  ASSUME DagInv, Crash \/ SaveFails \/ AnswerLost
  PROVE  DagInv'
PROOF
  <1>1. CASE Crash
    BY <1>1, QuietQuitPreserves DEF Crash
  <1>2. CASE SaveFails
    BY <1>2, QuietQuitPreserves DEF SaveFails
  <1>3. CASE AnswerLost
    BY <1>3, SaveAndQuitPreserves DEF AnswerLost
  <1>4. QED
    BY <1>1, <1>2, <1>3

\* The invariant of the specification.
LEMMA DagInvariant == Spec => []DagInv
PROOF
  <1>1. Init => DagInv
    <2> SUFFICES ASSUME Init PROVE DagInv
      OBVIOUS
    <2>2. AllPending \in [Nodes -> NodeStatus]
      BY DEF AllPending, NodeStatus
    <2>3. Formed
      BY <2>2 DEF Init, Formed, NoTasks, NoRow, WithoutDag, IsRow
    <2>4. Closed(status)
      BY DEF Init, Closed, AllPending, DagAssumption
    <2>5. SnapshotSound /\ SavedIsKnown
      BY DEF Init, SnapshotSound, SavedIsKnown, NoRow, WithoutDag
    <2>6. TasksInStep /\ SettledBetweenWaves /\ StaleApart
      BY DEF Init, TasksInStep, TaskInStep, SettledBetweenWaves, StaleApart, InRun, BetweenWaves,
             NoTasks
    <2>7. QED
      BY <2>3, <2>4, <2>5, <2>6 DEF DagInv
  <1>2. DagInv /\ [Next]_vars => DagInv'
    <2> SUFFICES ASSUME DagInv, [Next]_vars PROVE DagInv'
      OBVIOUS
    <2>2. CASE Start
      BY <2>2, StartPreserves
    <2>3. CASE CallStep
      BY <2>3, LoopPreserves, CollectionPreserves, WaveEndPreserves, AnsweringPreserves
         DEF CallStep
    <2>4. ASSUME NEW n \in Nodes, TaskStep(n) PROVE DagInv'
      BY <2>4, TaskPreserves
    <2>5. CASE Crash \/ SaveFails \/ AnswerLost
      BY <2>5, FaultPreserves
    <2>6. CASE UNCHANGED vars
      BY <2>6 DEF vars, locals, given, DagInv, Formed, Closed, SnapshotSound, TasksInStep,
                  TaskInStep, SettledBetweenWaves, SavedIsKnown, SettledButStale, StaleApart
    <2>7. QED
      BY <2>2, <2>3, <2>4, <2>5, <2>6 DEF Next
  <1>3. QED
    BY <1>1, <1>2, PTL DEF Spec

-----------------------------------------------------------------------------
(* Theorems. *)

\* Waves respect the dependencies, also on cyclic relations, whatever nodes return,
\* and over any number of crashes and restarts: no node is called, and none becomes
\* Done, before everything it depends on is Done (graph.rs 712).
THEOREM DependenciesComeFirst == Spec => []DependenciesFirst
PROOF
  <1>1. DagInv => DependenciesFirst
    BY ClosedMeansFirst DEF DagInv
  <1>2. QED
    BY <1>1, DagInvariant, PTL

\* What a step does to the checkpoint: it saves the DAG between waves, or writes no DAG,
\* or leaves the snapshot as it is.
LEMMA CheckpointStep ==
  ASSUME DagInv, Next
  PROVE  \/ row' = row
         \/ pc = "idle"
         \/ row'.dag = NoDag
         \/ pc \in BetweenWaves /\ row'.dag = status
PROOF
  <1>1. CASE Start
    BY <1>1 DEF Start, StartRun, StartResume, StartAnswer, Begin
  <1>2. CASE SaveGate \/ SaveYield \/ SaveWave \/ AnswerLost
    BY <1>2 DEF SaveGate, SaveYield, SaveWave, AnswerLost, PendingRow, WithDag, BetweenWaves
  <1>3. CASE AnswerNotFound \/ AnswerRuns \/ AnswerHandsOff
    BY <1>3 DEF AnswerNotFound, AnswerRuns, AnswerHandsOff, AnswerWrites, RolledBack, WithoutDag
  <1>4. CASE \/ ReadHead \/ Deadlock \/ Finish \/ StopAtGate \/ LaunchWave \/ NodeNotFound
             \/ PartialFailure \/ WaveYields \/ MergeWave \/ OverBudget
             \/ Crash \/ SaveFails
    BY <1>4 DEF ReadHead, Deadlock, Finish, StopAtGate, LaunchWave, NodeNotFound,
                PartialFailure, WaveYields, MergeWave, OverBudget, Crash, SaveFails
  <1>5. ASSUME NEW n \in Nodes,
               \/ CollectOk(n) \/ CollectYield(n) \/ CollectFailure(n)
               \/ FailFast(n) \/ FailUnmarked(n) \/ TaskStep(n)
        PROVE  row' = row
    BY <1>5 DEF CollectOk, CollectYield, CollectFailure, Taken, FailFast, FailUnmarked,
                TaskStep, Acquire, TaskRetries, TaskEnds, TaskOnly
  <1>6. QED
    BY <1>1, <1>2, <1>3, <1>4, <1>5 DEF Next, CallStep

\* Whatever DAG value is handed over, also one that a failed call left, and over
\* crashes, failed saves and lost answers, a run adds no Running or Failed node to a
\* checkpoint: what is saved as such was so in the value handed over (graph.rs 700),
\* or in the snapshot that resume_dag restored into it (graph.rs 2102).
THEOREM SnapshotsAreSettled == Spec => SnapshotSettled
PROOF
  <1>1. ASSUME DagInv, Next, pc # "idle", row' # row, row'.dag # NoDag
        PROVE  Unsettled(row'.dag) \subseteq stale
    <2>1. pc \in BetweenWaves /\ row'.dag = status
      BY <1>1, CheckpointStep
    <2>2. SettledButStale(status)
      BY <1>1, <2>1 DEF DagInv, SettledBetweenWaves
    <2>3. QED
      BY <2>1, <2>2 DEF Unsettled, SettledButStale, SettledStatus
  <1>2. DagInv /\ [Next]_vars =>
          [pc # "idle" /\ row' # row /\ row'.dag # NoDag => Unsettled(row'.dag) \subseteq stale]_vars
    BY <1>1
  <1>3. QED
    BY <1>2, DagInvariant, PTL DEF Spec, SnapshotSettled

\* A node whose completion is in the latest checkpoint is never called again, over
\* crashes, failed saves, lost answers and restarts, for as long as callers hand over
\* the DAG that was saved, a copy of it or what a failed call left of it.  Of a DAG
\* that was built again, whose nodes have fresh ids (dag.rs 59, 194), restore_statuses
\* finds none (dag.rs 75) and the theorem says nothing.
THEOREM CheckpointedIsNotRerun == Spec => CheckpointedNotRerun
PROOF
  <1>1. ASSUME DagInv, Next, NEW n \in Nodes, task[n] = "queued"
        PROVE  ~(row.dag # NoDag /\ row.ids = ids /\ row.dag[n] = "Done")
    <2>1. status[n] = "Running"
      BY <1>1 DEF DagInv, TasksInStep, TaskInStep
    <2>2. QED
      BY <2>1, <1>1 DEF DagInv, SavedIsKnown
  <1>2. DagInv /\ [Next]_vars =>
          [\A n \in Nodes : task[n] = "queued" /\ task'[n] = "running"
             => ~(row.dag # NoDag /\ row.ids = ids /\ row.dag[n] = "Done")]_vars
    BY <1>1
  <1>3. QED
    BY <1>2, DagInvariant, PTL DEF Spec, CheckpointedNotRerun

-----------------------------------------------------------------------------
(* What a run answers, when no node yields and callers hand over copies of the *)
(* DAG, or build it again.                                                     *)

NoYields == \A n \in Nodes : "yield" \notin Outcomes[n]

NeverYielded ==
  \A n \in Nodes : /\ status[n] # "Yielded"
                   /\ task[n] # "yield"
                   /\ row.dag # NoDag => row.dag[n] # "Yielded"

\* Nothing in the caller's DAG or in the checkpoint is left over from a failed call.
NothingLeftOver == /\ stale = {}
                   /\ row.dag # NoDag => Settled(row.dag)

HonestAnswer == /\ pc # "idle" => answer = "none"
                /\ FinishedIsComplete
                /\ DeadlockIsReal

\* An answer other than these two promises nothing.
LEMMA OtherAnswersAreHonest ==
  ASSUME NEW how, answer' = how, how \notin {"finished", "deadlock"},
         pc' # "idle" => how = "none"
  PROVE  HonestAnswer'
  BY DEF HonestAnswer, FinishedIsComplete, DeadlockIsReal

\* A call that begins with such a DAG has none of its nodes Running or Failed.
LEMMA StartsSettled ==
  ASSUME "left" \notin Given, DagInv, NothingLeftOver, StartRun \/ StartResume
  PROVE  stale' = {}
PROOF
  <1>1. \A how \in Given : GivenStatus(how) = AllPending
    BY DEF GivenStatus
  <1>2. Unsettled(AllPending) = {}
    BY DEF Unsettled, AllPending
  <1>3. CASE StartRun
    BY <1>1, <1>2, <1>3 DEF StartRun
  <1>4. CASE StartResume
    <2>1. PICK how \in Given :
            /\ row.dag # NoDag
            /\ status' = Restored(row, GivenStatus(how), GivenIds(how))
            /\ stale' = Unsettled(status')
      BY <1>4 DEF StartResume
    <2> DEFINE found == IF row.ids = GivenIds(how) THEN row.dag ELSE AllPending
    <2>2. \A n \in Nodes : found[n] \in SettledStatus
      BY <2>1 DEF NothingLeftOver, Settled, AllPending, SettledStatus
    <2>3. status' = [n \in Nodes |->
                       IF row.status = "Running" /\ found[n] = "Running"
                       THEN CASE Policy = "ResetToPending" -> "Pending"
                              [] Policy = "SkipAndContinue" -> "Done"
                              [] OTHER -> "Running"
                       ELSE found[n]]
      BY <1>1, <2>1 DEF Restored
    <2> HIDE DEF found
    <2>4. \A n \in Nodes : status'[n] \in SettledStatus
      BY <2>2, <2>3 DEF SettledStatus
    <2>5. QED
      BY <2>1, <2>4 DEF Unsettled, SettledStatus
  <1>5. QED
    BY <1>3, <1>4

LEMMA NothingLeftOverStep ==
  ASSUME "left" \notin Given, DagInv, NothingLeftOver, Next
  PROVE  NothingLeftOver'
PROOF
  <1>1. CASE StartRun \/ StartResume
    <2>1. row' = row
      BY <1>1 DEF StartRun, StartResume
    <2>2. QED
      BY <1>1, <2>1, StartsSettled DEF NothingLeftOver, Settled
  <1>2. CASE StartAnswer
    <2>1. row'.dag = row.dag
      BY <1>2 DEF StartAnswer, DagInv, Formed, IsRow
    <2>2. QED
      BY <1>2, <2>1 DEF StartAnswer, given, NothingLeftOver, Settled
  <1>3. ASSUME pc # "idle", UNCHANGED stale
        PROVE  NothingLeftOver'
    <2>1. CASE row' = row
      BY <1>3, <2>1 DEF NothingLeftOver, Settled
    <2>2. CASE row'.dag = NoDag
      BY <1>3, <2>2 DEF NothingLeftOver
    <2>3. CASE pc \in BetweenWaves /\ row'.dag = status
      BY <1>3, <2>3 DEF NothingLeftOver, Settled, DagInv, SettledBetweenWaves, SettledButStale
    <2>4. QED
      BY <1>3, <2>1, <2>2, <2>3, CheckpointStep
  <1>4. CASE \/ ReadHead \/ Deadlock \/ Finish \/ StopAtGate \/ LaunchWave \/ NodeNotFound
             \/ PartialFailure \/ WaveYields \/ MergeWave \/ OverBudget
             \/ SaveGate \/ SaveYield \/ SaveWave
             \/ AnswerNotFound \/ AnswerRuns \/ AnswerHandsOff
             \/ Crash \/ SaveFails \/ AnswerLost
    <2>1. pc # "idle"
      BY <1>4 DEF ReadHead, Deadlock, Finish, StopAtGate, LaunchWave, NodeNotFound,
                  PartialFailure, WaveYields, MergeWave, OverBudget, Collected, SaveGate,
                  SaveYield, SaveWave, AnswerNotFound, AnswerRuns, AnswerHandsOff,
                  AnswerWrites, Crash, SaveFails, AnswerLost
    <2>2. UNCHANGED stale
      BY <1>4 DEF ReadHead, Deadlock, Finish, StopAtGate, LaunchWave, NodeNotFound,
                  PartialFailure, WaveYields, MergeWave, OverBudget, SaveGate,
                  SaveYield, SaveWave, AnswerNotFound, AnswerRuns, AnswerHandsOff,
                  AnswerWrites, Crash, SaveFails, AnswerLost, Return, Quit, Goto, given
    <2>3. QED
      BY <1>3, <2>1, <2>2
  <1>5. ASSUME NEW n \in Nodes,
               \/ CollectOk(n) \/ CollectYield(n) \/ CollectFailure(n)
               \/ FailFast(n) \/ FailUnmarked(n) \/ TaskStep(n)
        PROVE  UNCHANGED <<row, stale>>
    BY <1>5 DEF CollectOk, CollectYield, CollectFailure, Taken, FailFast, FailUnmarked,
                TaskStep, Acquire, TaskRetries, TaskEnds, TaskOnly, Return, Quit, Goto, given
  <1>6. ASSUME UNCHANGED <<row, stale>>
        PROVE  NothingLeftOver'
    BY <1>6 DEF NothingLeftOver, Settled
  <1>7. QED
    BY <1>1, <1>2, <1>4, <1>5, <1>6 DEF Next, Start, CallStep

\* Without yields a node is never marked, saved or restored as Yielded.
LEMMA NeverYieldedStep ==
  ASSUME NoYields, DagInv, NeverYielded, Next
  PROVE  NeverYielded'
PROOF
  <1>1. ASSUME task' = NoTasks \/ task' = task, status' = status, row' = row
        PROVE  NeverYielded'
    BY <1>1 DEF NeverYielded, NoTasks
  <1>2. ASSUME status' = status, task' = NoTasks \/ task' = task,
               row'.dag \in {NoDag, row.dag, status}
        PROVE  NeverYielded'
    BY <1>2 DEF NeverYielded, NoTasks
  <1>3. CASE Start
    <2>1. \A how \in Given : \A n \in Nodes : GivenStatus(how)[n] # "Yielded"
      BY DEF GivenStatus, AllPending, NeverYielded
    <2>2. CASE StartRun
      BY <2>1, <2>2 DEF StartRun, Begin, Fresh, NeverYielded, NoTasks
    <2>3. CASE StartResume
      <3>1. PICK how \in Given :
              /\ row.dag # NoDag /\ row' = row /\ task' = NoTasks
              /\ status' = Restored(row, GivenStatus(how), GivenIds(how))
        BY <2>3 DEF StartResume, Fresh
      <3> DEFINE found == IF row.ids = GivenIds(how) THEN row.dag ELSE GivenStatus(how)
      <3>2. \A n \in Nodes : found[n] # "Yielded"
        BY <2>1, <3>1 DEF NeverYielded
      <3>3. status' = [n \in Nodes |->
                         IF row.status = "Running" /\ found[n] = "Running"
                         THEN CASE Policy = "ResetToPending" -> "Pending"
                                [] Policy = "SkipAndContinue" -> "Done"
                                [] OTHER -> "Running"
                         ELSE found[n]]
        BY <3>1 DEF Restored
      <3> HIDE DEF found
      <3>4. \A n \in Nodes : status'[n] # "Yielded"
        BY <3>2, <3>3
      <3>5. QED
        BY <3>1, <3>4 DEF NeverYielded, NoTasks
    <2>4. CASE StartAnswer
      <3>1. row'.dag = row.dag
        BY <2>4 DEF StartAnswer, DagInv, Formed, IsRow
      <3>2. QED
        BY <1>2, <2>4, <3>1 DEF StartAnswer, locals
    <2>5. QED
      BY <1>3, <2>2, <2>3, <2>4 DEF Start
  <1>4. CASE \/ ReadHead \/ Deadlock \/ Finish \/ StopAtGate
             \/ PartialFailure \/ WaveYields \/ MergeWave \/ OverBudget
    BY <1>1, <1>4 DEF ReadHead, Deadlock, Finish, StopAtGate, PartialFailure, WaveYields,
                      MergeWave, OverBudget, Return, Quit, Fresh, locals
  <1>5. CASE LaunchWave \/ NodeNotFound
    BY <1>5 DEF LaunchWave, NodeNotFound, MarkRunning, NeverYielded, Return, Quit, Fresh, NoTasks
  <1>6. ASSUME NEW n \in Nodes, NEW kind \in {"Done", "Failed"},
               Mark(n, kind), row' = row,
               task' = NoTasks \/ task' = [task EXCEPT ![n] = "none"]
        PROVE  NeverYielded'
    BY <1>6 DEF DagInv, Formed, Mark, NeverYielded, NoTasks
  <1>7. ASSUME NEW n \in Nodes,
               \/ CollectOk(n) \/ CollectYield(n) \/ CollectFailure(n)
               \/ FailFast(n) \/ FailUnmarked(n)
        PROVE  NeverYielded'
    <2>1. CASE CollectOk(n) \/ CollectFailure(n)
      BY <1>6, <2>1 DEF CollectOk, CollectFailure, Taken
    <2>2. CASE CollectYield(n)
      BY <2>2 DEF CollectYield, NeverYielded
    <2>3. CASE FailFast(n)
      BY <1>6, <2>3 DEF FailFast, Return, Quit, Fresh
    <2>4. CASE FailUnmarked(n)
      BY <1>1, <2>4 DEF FailUnmarked, Return, Quit, Fresh
    <2>5. QED
      BY <1>7, <2>1, <2>2, <2>3, <2>4
  <1>8. CASE SaveGate \/ SaveYield \/ SaveWave \/ AnswerLost
    <2>1. row'.dag = status
      BY <1>8 DEF SaveGate, SaveYield, SaveWave, AnswerLost, PendingRow, WithDag
    <2>2. status' = status /\ (task' = NoTasks \/ task' = task)
      BY <1>8 DEF SaveGate, SaveYield, SaveWave, AnswerLost, Return, Quit, Fresh
    <2>3. QED
      BY <1>2, <2>1, <2>2
  <1>9. CASE AnswerNotFound \/ AnswerRuns \/ AnswerHandsOff
    <2>1. row'.dag \in {NoDag, row.dag}
      BY <1>9 DEF AnswerNotFound, AnswerRuns, AnswerHandsOff, AnswerWrites, RolledBack, WithoutDag
    <2>2. status' = status /\ task' = NoTasks
      BY <1>9 DEF AnswerNotFound, AnswerRuns, AnswerHandsOff, AnswerWrites, Return, Quit, Fresh
    <2>3. QED
      BY <1>2, <2>1, <2>2
  <1>10. ASSUME NEW n \in Nodes, TaskStep(n)
         PROVE  NeverYielded'
    <2>1. PICK to \in {"running", task[n]} \cup (Results \ {"yield"}) :
            task' = [task EXCEPT ![n] = to]
      <3>1. CASE Acquire(n)
        BY <3>1 DEF Acquire
      <3>2. CASE TaskRetries(n)
        BY <3>2 DEF TaskRetries, DagInv, Formed
      <3>3. CASE TaskEnds(n)
        BY <3>3 DEF TaskEnds, Final, Results, NoYields
      <3>4. QED
        BY <1>10, <3>1, <3>2, <3>3 DEF TaskStep
    <2>2. UNCHANGED <<status, row>>
      BY <1>10 DEF TaskStep, Acquire, TaskRetries, TaskEnds, TaskOnly
    <2>3. QED
      BY <2>1, <2>2 DEF DagInv, Formed, NeverYielded
  <1>11. CASE Crash \/ SaveFails
    BY <1>1, <1>11 DEF Crash, SaveFails, Quit, Fresh
  <1>12. QED
    BY <1>3, <1>4, <1>5, <1>7, <1>8, <1>9, <1>10, <1>11 DEF Next, CallStep

\* A run that finds nothing ready and nothing pending has finished every node; one
\* that finds only blocked nodes has found a set of nodes that wait on each other.
LEMMA VerdictsAreHonest ==
  ASSUME DagInv, NeverYielded, NothingLeftOver, Finish \/ Deadlock
  PROVE  HonestAnswer'
PROOF
  <1>1. /\ pc' = "idle" /\ UNCHANGED <<deps, status>>
        /\ pc = "loop"
    BY DEF Finish, Deadlock, Return, Quit
  <1>2. \A n \in Nodes : status[n] \in {"Pending", "Done"}
    BY <1>1 DEF DagInv, SettledBetweenWaves, BetweenWaves, SettledButStale, SettledStatus,
                NeverYielded, NothingLeftOver
  <1>3. CASE Finish
    <2>1. answer' = "finished" /\ Pending = {}
      BY <1>3 DEF Finish, Return, Quit
    <2>2. \A n \in Nodes : status[n] = "Done"
      BY <1>2, <2>1 DEF Pending, Having
    <2>3. FinishedIsComplete'
      BY <1>1, <2>2 DEF FinishedIsComplete, Done, Having
    <2>4. DeadlockIsReal'
      BY <2>1 DEF DeadlockIsReal
    <2>5. QED
      BY <1>1, <2>3, <2>4 DEF HonestAnswer
  <1>4. CASE Deadlock
    <2>1. answer' = "deadlock" /\ Ready = {} /\ Pending # {}
      BY <1>4 DEF Deadlock, Return, Quit
    <2>2. ASSUME NEW n \in Pending
          PROVE  deps[n] \cap Pending # {}
      <3>1. n \in Nodes /\ ~(deps[n] \subseteq Done)
        BY <2>1, <2>2 DEF Ready, Pending, Having
      <3>2. PICK d \in deps[n] : d \notin Done
        BY <3>1
      <3>3. d \in Nodes
        BY <3>1, DepsAreNodes DEF DagInv
      <3>4. d \in Pending
        BY <1>2, <3>2, <3>3 DEF Done, Pending, Having
      <3>5. QED
        BY <3>4
    <2>3. Pending \in SUBSET Nodes
      BY DEF Pending, Having
    <2>4. HasCycle
      BY <2>1, <2>2, <2>3 DEF HasCycle
    <2>5. HasCycle'
      BY <1>1, <2>4 DEF HasCycle
    <2>6. DeadlockIsReal' /\ FinishedIsComplete'
      BY <2>1, <2>5 DEF DeadlockIsReal, FinishedIsComplete
    <2>7. QED
      BY <1>1, <2>6 DEF HonestAnswer
  <1>5. QED
    BY <1>3, <1>4

\* Every step leaves an honest answer, or none yet.
LEMMA HonestAnswerStep ==
  ASSUME DagInv, NeverYielded, NothingLeftOver, HonestAnswer, Next
  PROVE  HonestAnswer'
PROOF
  <1>1. CASE Start
    <2>1. answer' = "none"
      BY <1>1 DEF Start, StartRun, StartResume, StartAnswer, Begin
    <2>2. QED
      BY <2>1, OtherAnswersAreHonest
  <1>2. ASSUME pc # "idle", answer' = answer
        PROVE  HonestAnswer'
    BY <1>2, OtherAnswersAreHonest DEF HonestAnswer
  <1>3. ASSUME NEW how, Quit(how), how \notin {"finished", "deadlock"}
        PROVE  HonestAnswer'
    BY <1>3, OtherAnswersAreHonest DEF Quit
  <1>4. CASE Finish \/ Deadlock
    BY <1>4, VerdictsAreHonest
  <1>5. CASE ReadHead \/ StopAtGate \/ LaunchWave \/ WaveYields \/ MergeWave
    BY <1>2, <1>5 DEF ReadHead, StopAtGate, LaunchWave, WaveYields, MergeWave, Collected, Goto
  <1>6. CASE NodeNotFound \/ PartialFailure \/ OverBudget \/ SaveGate \/ SaveYield
    BY <1>3, <1>6 DEF NodeNotFound, PartialFailure, OverBudget, SaveGate, SaveYield, Return
  <1>7. CASE SaveWave
    <2>1. CASE wave \cap InterruptAfter # {}
      BY <1>3, <1>7, <2>1 DEF SaveWave, Return
    <2>2. CASE wave \cap InterruptAfter = {}
      BY <1>2, <1>7, <2>2 DEF SaveWave, Goto
    <2>3. QED
      BY <2>1, <2>2
  <1>8. ASSUME NEW n \in Nodes, CollectOk(n) \/ CollectYield(n) \/ CollectFailure(n)
        PROVE  HonestAnswer'
    BY <1>2, <1>8 DEF CollectOk, CollectYield, CollectFailure, Goto
  <1>9. ASSUME NEW n \in Nodes, FailFast(n) \/ FailUnmarked(n)
        PROVE  HonestAnswer'
    BY <1>3, <1>9 DEF FailFast, FailUnmarked, Return
  <1>10. CASE AnswerNotFound \/ AnswerRuns \/ AnswerHandsOff
    BY <1>3, <1>10 DEF AnswerNotFound, AnswerRuns, AnswerHandsOff, AnswerWrites, Return
  <1>11. ASSUME NEW n \in Nodes, TaskStep(n)
         PROVE  HonestAnswer'
    <2>1. task[n] # "none" /\ answer' = answer
      BY <1>11 DEF TaskStep, Acquire, TaskRetries, TaskEnds, TaskOnly
    <2>2. QED
      BY <1>2, <2>1, TaskMeansRunning
  <1>12. CASE Crash \/ SaveFails \/ AnswerLost
    BY <1>3, <1>12 DEF Crash, SaveFails, AnswerLost
  <1>13. QED
    BY <1>1, <1>4, <1>5, <1>6, <1>7, <1>8, <1>9, <1>10, <1>11, <1>12 DEF Next, CallStep

\* The invariant behind both verdicts.
LEMMA HonestAnswerInvariant ==
  ASSUME NoYields, "left" \notin Given
  PROVE  Spec => []HonestAnswer
PROOF
  <1> DEFINE I == NeverYielded /\ NothingLeftOver /\ HonestAnswer
  <1>1. Init => I
    BY DEF Init, NeverYielded, NothingLeftOver, HonestAnswer, AllPending, NoTasks, NoRow,
           WithoutDag, FinishedIsComplete, DeadlockIsReal
  <1>2. DagInv /\ I /\ [Next]_vars => I'
    <2> SUFFICES ASSUME DagInv, I, [Next]_vars
                 PROVE  I'
      OBVIOUS
    <2>1. CASE Next
      BY NoYields, <2>1, NeverYieldedStep, NothingLeftOverStep, HonestAnswerStep
    <2>2. CASE UNCHANGED vars
      BY <2>2 DEF vars, locals, given, NeverYielded, NothingLeftOver, Settled, HonestAnswer,
                  FinishedIsComplete, DeadlockIsReal, HasCycle, Done, Having
    <2>3. QED
      BY <2>1, <2>2
  <1>3. I => HonestAnswer
    OBVIOUS
  <1>4. QED
    BY <1>1, <1>2, <1>3, DagInvariant, PTL DEF Spec

\* When no node yields and no caller hands over what a failed call left, a call that
\* reports a finished DAG (graph.rs 734) leaves every node Done, whatever crashed or
\* failed before, however often it was resumed, and also of a DAG built again.
THEOREM FinishedRunsAreComplete ==
  ASSUME NoYields, "left" \notin Given
  PROVE  Spec => []FinishedIsComplete
PROOF
  <1>1. HonestAnswer => FinishedIsComplete
    BY DEF HonestAnswer
  <1>2. QED
    BY <1>1, HonestAnswerInvariant, PTL

\* Under the same conditions, a call that reports DAGDeadlock (graph.rs 732) has met
\* nodes that wait on each other, never a node whose dependency was lost in a restart.
THEOREM DeadlocksAreReal ==
  ASSUME NoYields, "left" \notin Given
  PROVE  Spec => []DeadlockIsReal
PROOF
  <1>1. HonestAnswer => DeadlockIsReal
    BY DEF HonestAnswer
  <1>2. QED
    BY <1>1, HonestAnswerInvariant, PTL
=============================================================================

------------------------- MODULE ThreadRunsProofs -------------------------
(***************************************************************************)
(* Proofs about ThreadRuns for all graphs, workers, settings and bounds:   *)
(* its types, and what holds for callers who keep no discipline at all,    *)
(* with crashes, failing store calls and lost answers.  That is how much   *)
(* one call writes, what a row in status Running means, and, on a store    *)
(* that compares heads, that the rows of one call, its rollback included,  *)
(* stay together.                                                          *)
(***************************************************************************)
EXTENDS ThreadRuns, SequenceTheorems, FiniteSetTheorems, TLAPS

-----------------------------------------------------------------------------
(* Rows. *)

\* What Append does to a sequence of rows, field by field of the new one.
LEMMA AppendRow ==
  ASSUME NEW s \in Seq(Row), NEW r \in Row
  PROVE  /\ Append(s, r) \in Seq(Row)
         /\ Len(Append(s, r)) = Len(s) + 1
         /\ \A k \in 1..Len(s) : Append(s, r)[k] = s[k]
         /\ Append(s, r)[Len(s) + 1] = r
  OBVIOUS

\* What a granted claim does: the latest row changes status and claimant, and
\* nothing else does.
LEMMA ClaimedRow ==
  ASSUME NEW s \in Seq(Row), s # <<>>, NEW i \in Interrupts
  PROVE  /\ Claimed(s, i) \in Seq(Row)
         /\ Len(Claimed(s, i)) = Len(s)
         /\ \A k \in 1..Len(s) :
              k # Len(s) => Claimed(s, i)[k] = s[k]
         /\ Len(s) \in 1..Len(s)
         /\ Claimed(s, i)[Len(s)].status = "Running"
         /\ Claimed(s, i)[Len(s)].claimed = i
         /\ Claimed(s, i)[Len(s)].request = s[Len(s)].request
         /\ Claimed(s, i)[Len(s)].next = s[Len(s)].next
         /\ Claimed(s, i)[Len(s)].resolved = s[Len(s)].resolved
         /\ Claimed(s, i)[Len(s)].basis = s[Len(s)].basis
         /\ Claimed(s, i)[Len(s)].by = s[Len(s)].by
         /\ Claimed(s, i)[Len(s)].write = s[Len(s)].write
PROOF
  <1> DEFINE n == Len(s)
             r == [s[n] EXCEPT !.status = "Running", !.claimed = i]
  <1>1. n \in 1..Len(s) /\ s[n] \in Row
    OBVIOUS
  <1>2. r \in Row
    BY <1>1 DEF Row, Status, MaybeInterrupt
  <1>3. Claimed(s, i) = [s EXCEPT ![n] = r]
    BY <1>1 DEF Claimed, Row
  <1>4. /\ [s EXCEPT ![n] = r] \in Seq(Row)
        /\ Len([s EXCEPT ![n] = r]) = n
        /\ \A k \in 1..n : [s EXCEPT ![n] = r][k] = IF k = n THEN r ELSE s[k]
    <2> HIDE DEF r
    <2> QED BY <1>1, <1>2, ExceptSeq
  <1>5. /\ r.status = "Running" /\ r.claimed = i
        /\ r.request = s[n].request /\ r.next = s[n].next
        /\ r.resolved = s[n].resolved /\ r.basis = s[n].basis
        /\ r.by = s[n].by /\ r.write = s[n].write
    BY <1>1 DEF Row
  <1>6. QED
    <2> HIDE DEF r
    <2> QED BY <1>1, <1>3, <1>4, <1>5
-----------------------------------------------------------------------------
(* The typing invariant: TypeOK, with what the types alone do not say.     *)

\* A row that asks for input was yielded by a registered node, and only such a
\* row is ever Yielded or Running.
RowOK(r) == /\ r.request # NoInterrupt => r.next \in Nodes
            /\ r.status \in {"Running", "Yielded"} => r.request \in Interrupts

RowsOK == \A k \in 1..Len(rows) : RowOK(rows[k])

\* Where a worker is, its locals mean what the code takes them for; `s` are the
\* rows it may look at.
WorkerOK(at, o, s) ==
  /\ at \in {"call", "saveStep", "saveYield"} => o.node \in Nodes
  /\ at = "saveYield" => o.request \in Interrupts
  /\ at = "claimed" => o.kind = "input" /\ o.resolved \in Interrupts /\ s # <<>>
  /\ at \in {"revert", "revertHead"} => o.kind = "input"
  /\ at \notin {"idle", "claimed"} /\ o.kind = "input" =>
       /\ o.loaded \in 1..Len(s)
       /\ s[o.loaded].request \in Interrupts

WorkersOK == \A w \in Workers : WorkerOK(pc[w], op[w], rows)

TypeInv == TypeOK /\ RowsOK /\ WorkersOK

\* Later rows keep what a worker relied on: rows are appended, and a claim leaves
\* what a row asks for.
Grown(s, t) == /\ s \in Seq(Row) /\ t \in Seq(Row)
               /\ Len(s) <= Len(t)
               /\ \A k \in 1..Len(s) : t[k].request = s[k].request

\* A row number that a call remembers still names a row when rows are added.
LEMMA GrownKeepsWorkerOK ==
  ASSUME NEW at, NEW o \in Op, NEW s, NEW t, Grown(s, t), WorkerOK(at, o, s)
  PROVE  WorkerOK(at, o, t)
PROOF
  <1>1. s # <<>> => t # <<>>
    BY DEF Grown
  <1>2. at \notin {"idle", "claimed"} /\ o.kind = "input" =>
          o.loaded \in 1..Len(t) /\ t[o.loaded].request \in Interrupts
    BY DEF Grown, WorkerOK
  <1>3. QED
    BY <1>1, <1>2 DEF WorkerOK

\* A step that moves one worker to a sound place, while the rows only grow,
\* preserves the typing invariant.
LEMMA MovePreservesType ==
  ASSUME TypeInv, NEW w \in Workers, NEW to \in PC, NEW o \in Op,
         Move(w, to, o), Grown(rows, rows'), RowsOK',
         WorkerOK(to, o, rows'), started' \in Nat, faults' \in Nat
  PROVE  TypeInv'
PROOF
  <1>1. TypeOK'
    BY DEF TypeInv, TypeOK, Move, Grown
  <1>2. ASSUME NEW v \in Workers
        PROVE  WorkerOK(pc'[v], op'[v], rows')
    <2>1. CASE v = w
      BY <2>1 DEF TypeInv, TypeOK, Move
    <2>2. CASE v # w
      <3>1. pc'[v] = pc[v] /\ op'[v] = op[v] /\ op[v] \in Op
        BY <2>2 DEF TypeInv, TypeOK, Move
      <3>2. WorkerOK(pc[v], op[v], rows)
        BY DEF TypeInv, WorkersOK
      <3>3. WorkerOK(pc[v], op[v], rows')
        BY <3>1, <3>2, GrownKeepsWorkerOK
      <3>4. QED
        BY <3>1, <3>3
    <2>3. QED
      BY <2>1, <2>2
  <1>3. QED
    BY <1>1, <1>2 DEF TypeInv, WorkersOK

\* The same for a step that leaves the rows alone.
LEMMA QuietMovePreservesType ==
  ASSUME TypeInv, NEW w \in Workers, NEW to \in PC, NEW o \in Op,
         Move(w, to, o), UNCHANGED rows, WorkerOK(to, o, rows),
         started' \in Nat, faults' \in Nat
  PROVE  TypeInv'
PROOF
  <1>1. Grown(rows, rows') /\ RowsOK'
    BY DEF TypeInv, TypeOK, Grown, RowsOK, RowOK
  <1>2. QED
    BY <1>1, MovePreservesType

\* The same for a step that appends a sound row.
LEMMA WritePreservesType ==
  ASSUME TypeInv, NEW w \in Workers, NEW to \in PC, NEW o \in Op,
         NEW r \in Row, RowOK(r),
         Move(w, to, o), Written(r), WorkerOK(to, o, rows),
         started' \in Nat, faults' \in Nat
  PROVE  TypeInv'
PROOF
  <1>1. rows \in Seq(Row) /\ rows' = Append(rows, r)
    BY DEF TypeInv, TypeOK, Written
  <1>2. Grown(rows, rows') /\ RowsOK'
    BY <1>1, AppendRow DEF TypeInv, Grown, RowsOK, Row
  <1>3. WorkerOK(to, o, rows')
    BY <1>2, GrownKeepsWorkerOK
  <1>4. QED
    BY <1>2, <1>3, MovePreservesType

\* The rows that a worker may save are sound.
LEMMA PendingRowsOK ==
  ASSUME TypeInv, NEW w \in Workers
  PROVE  /\ pc[w] = "saveStep" =>
              LET r == StepRow(op[w].next, op[w].resolved, op[w].basis, op[w].id)
              IN r \in Row /\ RowOK(r)
         /\ pc[w] = "saveYield" =>
              LET r == YieldRow(op[w].node, op[w].request, op[w].basis, op[w].id)
              IN r \in Row /\ RowOK(r)
         /\ pc[w] = "saveGate" =>
              LET r == GateRow(op[w].node, op[w].resolved, op[w].basis, op[w].id)
              IN r \in Row /\ RowOK(r)
         /\ pc[w] = "revert" =>
              LET r == RollbackRow(rows[op[w].loaded], op[w].loaded, op[w].id)
              IN r \in Row /\ RowOK(r)
PROOF
  <1>1. op[w] \in Op /\ rows \in Seq(Row) /\ WorkerOK(pc[w], op[w], rows)
    BY DEF TypeInv, TypeOK, WorkersOK
  <1>2. NoInterrupt \notin Interrupts
    BY NamesAssumption
  <1>3. pc[w] = "saveStep" =>
          LET r == StepRow(op[w].next, op[w].resolved, op[w].basis, op[w].id)
          IN r \in Row /\ RowOK(r)
    BY <1>1, <1>2 DEF Op, Row, RowOK, StepRow, Status, Writes, MaybeInterrupt
  <1>4. pc[w] = "saveYield" =>
          LET r == YieldRow(op[w].node, op[w].request, op[w].basis, op[w].id)
          IN r \in Row /\ RowOK(r)
    BY <1>1, <1>2 DEF Op, Row, RowOK, YieldRow, Status, Writes, MaybeInterrupt, WorkerOK
  <1>5. pc[w] = "saveGate" =>
          LET r == GateRow(op[w].node, op[w].resolved, op[w].basis, op[w].id)
          IN r \in Row /\ RowOK(r)
    BY <1>1, <1>2 DEF Op, Row, RowOK, GateRow, Status, Writes, MaybeInterrupt
  <1>6. ASSUME pc[w] = "revert"
        PROVE  LET r == RollbackRow(rows[op[w].loaded], op[w].loaded, op[w].id)
               IN r \in Row /\ RowOK(r)
    <2>1. /\ op[w].loaded \in 1..Len(rows)
          /\ rows[op[w].loaded].request \in Interrupts
      BY <1>1, <1>6 DEF WorkerOK
    <2>2. rows[op[w].loaded] \in Row /\ RowOK(rows[op[w].loaded])
      BY <1>1, <2>1 DEF TypeInv, RowsOK
    <2>3. QED
      BY <1>1, <1>2, <2>1, <2>2
         DEF Op, Row, RowOK, RollbackRow, Status, Writes, MaybeInterrupt
  <1>7. QED
    BY <1>3, <1>4, <1>5, <1>6

\* Giving up a call, with or without a rollback, is a sound move.
LEMMA FailIsMove ==
  ASSUME TypeInv, NEW w \in Workers, pc[w] \notin {"idle", "claimed"}, Fail(w)
  PROVE  \E to \in PC, o \in Op : Move(w, to, o) /\ WorkerOK(to, o, rows)
PROOF
  <1>1. op[w] \in Op /\ WorkerOK(pc[w], op[w], rows)
    BY DEF TypeInv, TypeOK, WorkersOK
  <1>2. CASE op[w].kind # "input"
    <2>1. Move(w, "idle", NoOp)
      BY <1>2 DEF Fail, Return
    <2>2. NoOp \in Op /\ WorkerOK("idle", NoOp, rows)
      BY DEF NoOp, NewOp, Op, WorkerOK, MaybeInterrupt, Targets
    <2>3. QED
      BY <2>1, <2>2 DEF PC
  <1>3. CASE op[w].kind = "input"
    <2>1. PICK to \in {"revert", "revertHead"} : Move(w, to, op[w])
      BY <1>3 DEF Fail
    <2>2. WorkerOK(to, op[w], rows)
      BY <1>1, <1>3 DEF WorkerOK
    <2>3. QED
      BY <1>1, <2>1, <2>2 DEF PC
  <1>4. QED
    BY <1>2, <1>3

\* Returning is a sound move for any worker.
LEMMA ReturnIsMove ==
  ASSUME NEW w, Return(w)
  PROVE  /\ Move(w, "idle", NoOp)
         /\ "idle" \in PC /\ NoOp \in Op
         /\ \A s : WorkerOK("idle", NoOp, s)
  BY DEF Return, NoOp, NewOp, Op, PC, WorkerOK, MaybeInterrupt, Targets

-----------------------------------------------------------------------------
(* The typing invariant is inductive. *)

\* An empty thread without calls is sound.
LEMMA TypeInvInit == Init => TypeInv
PROOF
  <1> SUFFICES ASSUME Init PROVE TypeInv
    OBVIOUS
  <1>1. NoOp \in Op
    BY DEF NoOp, NewOp, Op, MaybeInterrupt, Targets
  <1>2. TypeOK
    BY <1>1 DEF Init, TypeOK, PC
  <1>3. RowsOK /\ WorkersOK
    BY DEF Init, RowsOK, WorkersOK, WorkerOK
  <1>4. QED
    BY <1>2, <1>3 DEF TypeInv

\* A call of run, resume or resume_with_input begins with sound locals.
LEMMA TypeInvStart ==
  ASSUME TypeInv, NEW w \in Workers, Start(w)
  PROVE  TypeInv'
PROOF
  <1> USE DEF PC
  <1>0. rows \in Seq(Row) /\ started \in Nat /\ faults \in Nat /\ NoOp \in Op
    BY DEF TypeInv, TypeOK, NoOp, NewOp, Op, MaybeInterrupt, Targets
  <1>1. CASE \E n \in Starts : StartRun(w, n)
    <2>1. PICK n \in Starts : StartRun(w, n)
      BY <1>1
    <2> DEFINE o == NewOp("run", started + 1, n, NoInterrupt, 0)
    <2>2. /\ Move(w, "head", o)
          /\ started' = started + 1 /\ UNCHANGED <<rows, faults>>
      BY <2>1 DEF StartRun, Begin
    <2>3. o \in Op
      BY <1>0, GraphAssumption DEF NewOp, Op, MaybeInterrupt, Targets
    <2>4. WorkerOK("head", o, rows)
      BY DEF NewOp, WorkerOK
    <2>5. QED
      BY <1>0, <2>2, <2>3, <2>4, QuietMovePreservesType
  <1>2. CASE StartResume(w)
    <2>1. Latest(rows) \in Row /\ RowOK(Latest(rows)) /\ Len(rows) \in Nat
      BY <1>0, <1>2 DEF StartResume, Latest, TypeInv, RowsOK
    <2>2. PICK n \in RestartAt(Latest(rows)) :
            Begin(w, "head",
                  NewOp("resume", started + 1, n, Latest(rows).claimed, Len(rows)))
      BY <1>2 DEF StartResume
    <2> DEFINE o == NewOp("resume", started + 1, n, Latest(rows).claimed, Len(rows))
    <2>3. n \in Targets
      BY <2>1, GraphAssumption, NamesAssumption, SettingsAssumption
         DEF RestartAt, Row, RowOK
    <2>4. o \in Op
      BY <1>0, <2>1, <2>3 DEF NewOp, Op, Row, Targets, MaybeInterrupt
    <2>5. WorkerOK("head", o, rows)
      BY DEF NewOp, WorkerOK
    <2>6. Move(w, "head", o) /\ started' = started + 1 /\ UNCHANGED <<rows, faults>>
      BY <1>2, <2>2 DEF StartResume, Begin
    <2>7. QED
      BY <1>0, <2>4, <2>5, <2>6, QuietMovePreservesType
  <1>3. CASE \E i \in Interrupts : StartClaim(w, i)
    <2>1. PICK i \in Interrupts : StartClaim(w, i)
      BY <1>3
    <2> DEFINE o == NewOp("input", started + 1, End, i, 0)
    <2>2. /\ Move(w, "claimed", o)
          /\ started' = started + 1 /\ faults' = faults
          /\ rows # <<>> /\ rows' = Claimed(rows, i)
          /\ Latest(rows).request = i
      BY <2>1 DEF StartClaim, Begin, Claimable
    <2>3. o \in Op
      BY <1>0 DEF NewOp, Op, MaybeInterrupt, Targets
    <2>4. /\ rows' \in Seq(Row) /\ Len(rows') = Len(rows) /\ Len(rows) \in 1..Len(rows)
          /\ \A k \in 1..Len(rows) : k # Len(rows) => rows'[k] = rows[k]
          /\ rows'[Len(rows)].request = rows[Len(rows)].request
          /\ rows'[Len(rows)].next = rows[Len(rows)].next
      BY <1>0, <2>2, ClaimedRow
    <2>5. rows[Len(rows)] \in Row /\ rows[Len(rows)].request = i
      BY <1>0, <2>2, <2>4 DEF Latest
    <2>6. \A k \in 1..Len(rows) : /\ rows'[k].request = rows[k].request
                                  /\ rows'[k].next = rows[k].next
      BY <2>4
    <2>7. Grown(rows, rows')
      BY <1>0, <2>4, <2>6 DEF Grown
    <2>8. RowsOK'
      BY <2>4, <2>5, <2>6 DEF TypeInv, RowsOK, RowOK
    <2>9. WorkerOK("claimed", o, rows')
      BY <2>2, <2>4 DEF NewOp, WorkerOK
    <2>10. QED
      BY <1>0, <2>2, <2>3, <2>7, <2>8, <2>9, MovePreservesType
  <1>4. QED
    BY <1>1, <1>2, <1>3 DEF Start

\* Every stretch of code of a call in progress keeps its locals and the rows sound.
LEMMA TypeInvStep ==
  ASSUME TypeInv, NEW w \in Workers, Step(w)
  PROVE  TypeInv'
PROOF
  <1> USE DEF PC
  <1>0. /\ rows \in Seq(Row) /\ Len(rows) \in Nat
        /\ started \in Nat /\ faults \in Nat
        /\ op[w] \in Op /\ pc[w] \in PC
        /\ WorkerOK(pc[w], op[w], rows)
    BY DEF TypeInv, TypeOK, WorkersOK
  <1>1. CASE LoadRejected(w)
    BY <1>0, <1>1, ReturnIsMove, QuietMovePreservesType DEF LoadRejected, Unchanged
  <1>2. CASE SchemaRejected(w)
    BY <1>0, <1>2, ReturnIsMove, QuietMovePreservesType DEF SchemaRejected, Unchanged
  <1>3. CASE LoadClaimed(w)
    <2> DEFINE row == Latest(rows)
               handoff == op[w].resolved \in HandoffInterrupts
    <2>1. PICK n \in IF handoff THEN EdgeFrom(row.next) ELSE {row.next} :
            Move(w, "head", [op[w] EXCEPT !.loaded = Len(rows), !.basis = Len(rows),
                                          !.node = n, !.input = ~handoff])
      BY <1>3 DEF LoadClaimed
    <2> DEFINE o == [op[w] EXCEPT !.loaded = Len(rows), !.basis = Len(rows),
                                  !.node = n, !.input = ~handoff]
    <2>2. /\ Len(rows) \in 1..Len(rows) /\ row = rows[Len(rows)]
          /\ row.request \in Interrupts /\ row \in Row /\ RowOK(row)
      BY <1>0, <1>3 DEF LoadClaimed, AsksFor, WorkerOK, Latest, TypeInv, RowsOK
    <2>3. row.next \in Nodes
      BY <2>2, NamesAssumption DEF RowOK
    <2>4. n \in Targets
      <3>1. EdgeTargets[row.next] \subseteq Targets
        BY <2>3, GraphAssumption
      <3>2. QED
        BY <2>1, <2>3, <3>1 DEF EdgeFrom, Targets
    <2>5. o \in Op
      <3> HIDE DEF handoff
      <3>1. (~handoff) \in BOOLEAN
        OBVIOUS
      <3>2. QED
        BY <1>0, <2>4, <3>1 DEF Op
    <2>6. o.loaded = Len(rows)
      BY <1>0 DEF Op
    <2>7. WorkerOK("head", o, rows)
      BY <2>2, <2>6 DEF WorkerOK
    <2>8. UNCHANGED rows /\ Unchanged
      BY <1>3 DEF LoadClaimed
    <2>9. QED
      BY <1>0, <2>1, <2>5, <2>7, <2>8, QuietMovePreservesType DEF Unchanged
  <1>4. CASE ReadHead(w)
    <2> DEFINE o == [op[w] EXCEPT !.expected = CurrentHead(rows), !.knowsHead = TRUE]
    <2>1. Move(w, "loop", o) /\ UNCHANGED rows /\ Unchanged
      BY <1>4 DEF ReadHead
    <2>2. CurrentHead(rows) \in Nat
      BY <1>0 DEF CurrentHead
    <2>3. o \in Op
      BY <1>0, <2>2 DEF Op
    <2>4. WorkerOK("loop", o, rows)
      BY <1>0, <1>4 DEF ReadHead, WorkerOK, Op
    <2>5. QED
      BY <1>0, <2>1, <2>3, <2>4, QuietMovePreservesType DEF Unchanged
  <1>5. CASE StepLimit(w)
    <2>1. pc[w] \notin {"idle", "claimed"} /\ Fail(w) /\ UNCHANGED rows /\ Unchanged
      BY <1>5 DEF StepLimit
    <2>2. QED
      BY <1>0, <2>1, FailIsMove, QuietMovePreservesType DEF Unchanged
  <1>6. CASE ReachEnd(w)
    BY <1>0, <1>6, ReturnIsMove, QuietMovePreservesType DEF ReachEnd, Unchanged
  <1>7. CASE InterruptAtGate(w)
    <2> DEFINE o == op[w]
    <2>1. Move(w, "saveGate", o) /\ UNCHANGED rows /\ Unchanged
      BY <1>7 DEF InterruptAtGate
    <2>2. o \in Op
      BY <1>0 DEF Op
    <2>3. WorkerOK("saveGate", o, rows)
      BY <1>0, <1>7 DEF InterruptAtGate, WorkerOK, Op
    <2>4. QED
      BY <1>0, <2>1, <2>2, <2>3, QuietMovePreservesType DEF Unchanged
  <1>8. CASE NodeNotFound(w)
    <2>1. pc[w] \notin {"idle", "claimed"} /\ Fail(w) /\ UNCHANGED rows /\ Unchanged
      BY <1>8 DEF NodeNotFound
    <2>2. QED
      BY <1>0, <2>1, FailIsMove, QuietMovePreservesType DEF Unchanged
  <1>9. CASE EnterNode(w)
    <2> DEFINE o == [op[w] EXCEPT !.steps = @ + 1, !.attempt = 0]
    <2>1. Move(w, "call", o) /\ UNCHANGED rows /\ Unchanged
      BY <1>9 DEF EnterNode
    <2>2. o \in Op
      <3>1. op[w].steps + 1 \in Nat /\ 0 \in Nat
        BY <1>0 DEF Op
      <3>2. QED
        BY <1>0, <3>1 DEF Op
    <2>3. WorkerOK("call", o, rows)
      BY <1>0, <1>9 DEF EnterNode, WorkerOK, Op
    <2>4. QED
      BY <1>0, <2>1, <2>2, <2>3, QuietMovePreservesType DEF Unchanged
  <1>10. CASE NodeOk(w)
    <2>1. op[w].node \in Nodes /\ op[w].input \in BOOLEAN
      BY <1>0, <1>10 DEF NodeOk, WorkerOK, Op
    <2>2. PICK out \in Outcomes[op[w].node][op[w].input] :
            /\ out.kind = "ok"
            /\ \E n \in IF out.event # NoEvent THEN {out.event} ELSE EdgeFrom(op[w].node) :
                 Move(w, "saveStep", [Taken(op[w]) EXCEPT !.next = n])
      BY <1>10 DEF NodeOk
    <2>3. PICK n \in IF out.event # NoEvent THEN {out.event} ELSE EdgeFrom(op[w].node) :
            Move(w, "saveStep", [Taken(op[w]) EXCEPT !.next = n])
      BY <2>2
    <2>4. out \in Outcome
      BY <2>1, GraphAssumption
    <2>5. EdgeFrom(op[w].node) \subseteq Targets
      BY <2>1, GraphAssumption DEF EdgeFrom, Targets
    <2>6. n \in Targets
      BY <2>2, <2>3, <2>4, <2>5 DEF Outcome
    <2> DEFINE o == [Taken(op[w]) EXCEPT !.next = n]
    <2>7. o \in Op /\ o.node = op[w].node /\ o.kind = op[w].kind /\ o.loaded = op[w].loaded
      BY <1>0, <2>6 DEF Op, Taken
    <2>8. WorkerOK("saveStep", o, rows)
      BY <1>0, <1>10, <2>1, <2>7 DEF NodeOk, WorkerOK
    <2>9. UNCHANGED rows /\ Unchanged
      BY <1>10 DEF NodeOk
    <2>10. QED
      BY <1>0, <2>3, <2>7, <2>8, <2>9, QuietMovePreservesType DEF Unchanged
  <1>11. CASE NodeYields(w)
    <2>1. op[w].node \in Nodes /\ op[w].input \in BOOLEAN
      BY <1>0, <1>11 DEF NodeYields, WorkerOK, Op
    <2>2. PICK out \in Outcomes[op[w].node][op[w].input] :
            /\ out.kind = "yield"
            /\ Move(w, "saveYield", [Taken(op[w]) EXCEPT !.request = out.request])
      BY <1>11 DEF NodeYields
    <2>3. out \in Outcome
      BY <2>1, GraphAssumption
    <2>4. out.request \in Interrupts
      BY <2>2, <2>3 DEF Outcome
    <2> DEFINE o == [Taken(op[w]) EXCEPT !.request = out.request]
    <2>5. /\ o \in Op /\ o.node = op[w].node /\ o.kind = op[w].kind
          /\ o.loaded = op[w].loaded /\ o.request = out.request
      BY <1>0, <2>4 DEF Op, Taken, MaybeInterrupt
    <2>6. WorkerOK("saveYield", o, rows)
      BY <1>0, <1>11, <2>1, <2>4, <2>5 DEF NodeYields, WorkerOK
    <2>7. UNCHANGED rows /\ Unchanged
      BY <1>11 DEF NodeYields
    <2>8. QED
      BY <1>0, <2>2, <2>5, <2>6, <2>7, QuietMovePreservesType DEF Unchanged
  <1>12. CASE NodeRetries(w)
    <2> DEFINE o == [Taken(op[w]) EXCEPT !.attempt = @ + 1]
    <2>1. Move(w, "call", o) /\ UNCHANGED rows /\ Unchanged
      BY <1>12 DEF NodeRetries
    <2>2. o \in Op
      <3>1. Taken(op[w]) \in Op
        BY <1>0 DEF Op, Taken
      <3>2. Taken(op[w]).attempt + 1 \in Nat
        BY <3>1 DEF Op
      <3>3. QED
        <4> HIDE DEF Taken
        <4> QED BY <3>1, <3>2 DEF Op
    <2>3. WorkerOK("call", o, rows)
      BY <1>0, <1>12 DEF NodeRetries, WorkerOK, Op, Taken
    <2>4. QED
      BY <1>0, <2>1, <2>2, <2>3, QuietMovePreservesType DEF Unchanged
  <1>13. CASE NodeFails(w)
    <2>1. pc[w] \notin {"idle", "claimed"} /\ Fail(w) /\ UNCHANGED rows /\ Unchanged
      BY <1>13 DEF NodeFails
    <2>2. QED
      BY <1>0, <2>1, FailIsMove, QuietMovePreservesType DEF Unchanged
  <1>14. CASE SaveStep(w)
    <2> DEFINE r == StepRow(op[w].next, op[w].resolved, op[w].basis, op[w].id)
    <2>1. r \in Row /\ RowOK(r)
      BY <1>14, PendingRowsOK DEF SaveStep
    <2>2. Written(r) /\ Unchanged
      BY <1>14 DEF SaveStep
    <2>3. CASE op[w].node \in InterruptAfter
      <3>1. Return(w)
        BY <1>14, <2>3 DEF SaveStep
      <3> HIDE DEF r
      <3>2. QED
        BY <1>0, <2>1, <2>2, <3>1, ReturnIsMove, WritePreservesType DEF Unchanged
    <2>4. CASE op[w].node \notin InterruptAfter
      <3> DEFINE o == [op[w] EXCEPT !.node = op[w].next, !.basis = Len(rows) + 1,
                                    !.expected = CurrentHead(rows'), !.next = End]
      <3>1. Move(w, "loop", o)
        BY <1>14, <2>4 DEF SaveStep
      <3> HIDE DEF r
      <3>2. rows' \in Seq(Row)
        BY <1>0, <2>1, <2>2, AppendRow DEF Written
      <3>3. CurrentHead(rows') \in Nat
        BY <3>2 DEF CurrentHead
      <3>4. o \in Op
        <4>1. op[w].next \in Targets /\ End \in Targets /\ Len(rows) + 1 \in Nat
          BY <1>0 DEF Op, Targets
        <4>2. QED
          BY <1>0, <3>3, <4>1 DEF Op
      <3>5. o.kind = op[w].kind /\ o.loaded = op[w].loaded
        BY <1>0 DEF Op
      <3>6. WorkerOK("loop", o, rows)
        BY <1>0, <1>14, <3>5 DEF SaveStep, WorkerOK
      <3>7. QED
        <4> HIDE DEF o
        <4> QED BY <1>0, <2>1, <2>2, <3>1, <3>4, <3>6, WritePreservesType DEF Unchanged
    <2>5. QED
      BY <2>3, <2>4
  <1>15. CASE SaveYield(w)
    <2> DEFINE r == YieldRow(op[w].node, op[w].request, op[w].basis, op[w].id)
    <2>1. r \in Row /\ RowOK(r)
      BY <1>15, PendingRowsOK DEF SaveYield
    <2>2. Written(r) /\ Return(w) /\ Unchanged
      BY <1>15 DEF SaveYield
    <2>3. QED
      <3> HIDE DEF r
      <3> QED BY <1>0, <2>1, <2>2, ReturnIsMove, WritePreservesType DEF Unchanged
  <1>16. CASE SaveGate(w)
    <2> DEFINE r == GateRow(op[w].node, op[w].resolved, op[w].basis, op[w].id)
    <2>1. r \in Row /\ RowOK(r)
      BY <1>16, PendingRowsOK DEF SaveGate
    <2>2. Written(r) /\ Return(w) /\ Unchanged
      BY <1>16 DEF SaveGate
    <2>3. QED
      <3> HIDE DEF r
      <3> QED BY <1>0, <2>1, <2>2, ReturnIsMove, WritePreservesType DEF Unchanged
  <1>17. CASE SaveConflict(w)
    <2>1. pc[w] \notin {"idle", "claimed"} /\ Fail(w) /\ UNCHANGED rows /\ Unchanged
      BY <1>17 DEF SaveConflict, Saving
    <2>2. QED
      BY <1>0, <2>1, FailIsMove, QuietMovePreservesType DEF Unchanged
  <1>18. CASE RevertHead(w)
    <2> DEFINE o == [op[w] EXCEPT !.expected = CurrentHead(rows)]
    <2>1. Move(w, "revert", o) /\ UNCHANGED rows /\ Unchanged
      BY <1>18 DEF RevertHead
    <2>2. CurrentHead(rows) \in Nat
      BY <1>0 DEF CurrentHead
    <2>3. o \in Op
      BY <1>0, <2>2 DEF Op
    <2>4. WorkerOK("revert", o, rows)
      BY <1>0, <1>18 DEF RevertHead, WorkerOK, Op
    <2>5. QED
      BY <1>0, <2>1, <2>3, <2>4, QuietMovePreservesType DEF Unchanged
  <1>19. CASE Revert(w)
    <2> DEFINE r == RollbackRow(rows[op[w].loaded], op[w].loaded, op[w].id)
    <2>1. r \in Row /\ RowOK(r)
      BY <1>19, PendingRowsOK DEF Revert
    <2>2. Written(r) /\ Return(w) /\ Unchanged
      BY <1>19 DEF Revert
    <2>3. QED
      <3> HIDE DEF r
      <3> QED BY <1>0, <2>1, <2>2, ReturnIsMove, WritePreservesType DEF Unchanged
  <1>20. CASE RevertConflict(w)
    BY <1>0, <1>20, ReturnIsMove, QuietMovePreservesType DEF RevertConflict, Unchanged
  <1>21. QED
    BY <1>1, <1>2, <1>3, <1>4, <1>5, <1>6, <1>7, <1>8, <1>9, <1>10, <1>11, <1>12, <1>13, <1>14, <1>15, <1>16, <1>17, <1>18, <1>19, <1>20 DEF Step

\* Crashes, failing store calls and lost answers keep everything sound.
LEMMA TypeInvFaulty ==
  ASSUME TypeInv, NEW w \in Workers, Faulty(w)
  PROVE  TypeInv'
PROOF
  <1> USE DEF PC
  <1>0. started \in Nat /\ faults \in Nat
    BY DEF TypeInv, TypeOK
  <1>1. CASE Crash(w)
    BY <1>0, <1>1, ReturnIsMove, QuietMovePreservesType DEF Crash, Fault
  <1>2. CASE StoreFails(w)
    <2>1. CASE (pc[w] = "head" \/ Saving(w)) /\ Fail(w)
      BY <1>0, <1>2, <2>1, FailIsMove, QuietMovePreservesType DEF StoreFails, Fault, Saving
    <2>2. CASE Return(w)
      BY <1>0, <1>2, <2>2, ReturnIsMove, QuietMovePreservesType DEF StoreFails, Fault
    <2>3. QED
      BY <1>2, <2>1, <2>2 DEF StoreFails
  <1>3. CASE AnswerLost(w)
    <2>1. PendingRow(w) \in Row /\ RowOK(PendingRow(w))
      BY <1>3, PendingRowsOK DEF AnswerLost, Saving, PendingRow
    <2>2. PICK to \in PC, o \in Op : Move(w, to, o) /\ WorkerOK(to, o, rows)
      BY <1>3, FailIsMove, ReturnIsMove DEF AnswerLost, Saving
    <2>3. QED
      BY <1>0, <1>3, <2>1, <2>2, WritePreservesType DEF AnswerLost, Fault
  <1>4. QED
    BY <1>1, <1>2, <1>3 DEF Faulty

\* Every step of the specification preserves the typing invariant.
LEMMA TypeInvNext == TypeInv /\ [Next]_vars => TypeInv'
PROOF
  <1> SUFFICES ASSUME TypeInv, [Next]_vars PROVE TypeInv'
    OBVIOUS
  <1>1. CASE Next
    BY <1>1, TypeInvStart, TypeInvStep, TypeInvFaulty DEF Next
  <1>2. CASE UNCHANGED vars
    BY <1>2 DEF vars, TypeInv, TypeOK, RowsOK, RowOK, WorkersOK, WorkerOK
  <1>3. QED
    BY <1>1, <1>2

\* Type correctness, whatever the graph, the store and the callers.
THEOREM TypeCorrect == Spec => []TypeOK
PROOF
  <1>1. TypeInv => TypeOK
    BY DEF TypeInv
  <1>2. QED
    BY <1>1, TypeInvInit, TypeInvNext, PTL DEF Spec
-----------------------------------------------------------------------------
(* The shapes of a step, for invariants that do not look at the code's place. *)

\* Two sets of locals of one call, computing from the same rows.
SameCall(o, p) == /\ o.kind = p.kind /\ o.id = p.id /\ o.resolved = p.resolved
                  /\ o.loaded = p.loaded /\ o.basis = p.basis

\* The worker returns, or goes on with the same call after the claim was loaded.
QuietStep(w) == /\ UNCHANGED rows
                /\ \/ pc'[w] = "idle"
                   \/ /\ pc[w] # "claimed" /\ pc'[w] # "claimed"
                      /\ SameCall(op'[w], op[w])

\* A bound write of r: a rollback builds on the loaded row, any other on the basis.
OwnWrite(w, r) ==
  /\ pc[w] # "claimed"
  /\ Written(r)
  /\ r \in Row /\ RowOK(r)
  /\ r.status # "Running" /\ r.claimed = NoInterrupt /\ r.by = op[w].id
  /\ IF pc[w] = "revert" THEN r.basis = op[w].loaded /\ op[w].kind = "input"
                         ELSE r.basis = op[w].basis

\* A write ends the call, or is a step after which the call goes on from its row.
WriteStep(w) ==
  \E r : /\ OwnWrite(w, r)
         /\ \/ pc'[w] = "idle"
            \/ /\ pc'[w] = "loop" /\ r.status = "Complete"
               /\ op'[w].kind = op[w].kind /\ op'[w].id = op[w].id
               /\ op'[w].loaded = op[w].loaded /\ op'[w].basis = Len(rows) + 1

\* A working call moves its worker and no other.
LEMMA WorkIsMove ==
  ASSUME NEW w \in Workers, Step(w) \/ Faulty(w)
  PROVE  \E at, o : Move(w, at, o)
  BY DEF Step, Faulty, LoadRejected, SchemaRejected, LoadClaimed, ReadHead,
         StepLimit, ReachEnd, InterruptAtGate, NodeNotFound, EnterNode, NodeOk, NodeYields,
         NodeRetries, NodeFails, SaveStep, SaveYield, SaveGate, SaveConflict, RevertHead,
         Revert, RevertConflict, Crash, StoreFails, AnswerLost, Fail, Return

\* The rows that a worker may save are written as OwnWrite says.
LEMMA PendingRowsAreOwn ==
  ASSUME TypeInv, NEW w \in Workers
  PROVE  /\ LET r == StepRow(op[w].next, op[w].resolved, op[w].basis, op[w].id)
            IN pc[w] = "saveStep" /\ Written(r) => OwnWrite(w, r)
         /\ LET r == YieldRow(op[w].node, op[w].request, op[w].basis, op[w].id)
            IN pc[w] = "saveYield" /\ Written(r) => OwnWrite(w, r)
         /\ LET r == GateRow(op[w].node, op[w].resolved, op[w].basis, op[w].id)
            IN pc[w] = "saveGate" /\ Written(r) => OwnWrite(w, r)
         /\ LET r == RollbackRow(rows[op[w].loaded], op[w].loaded, op[w].id)
            IN pc[w] = "revert" /\ Written(r) => OwnWrite(w, r)
PROOF
  <1>1. LET r == StepRow(op[w].next, op[w].resolved, op[w].basis, op[w].id)
        IN pc[w] = "saveStep" /\ Written(r) => OwnWrite(w, r)
    <2> DEFINE r == StepRow(op[w].next, op[w].resolved, op[w].basis, op[w].id)
    <2>1. r.status # "Running" /\ r.claimed = NoInterrupt /\ r.by = op[w].id /\ r.basis = op[w].basis
      BY DEF StepRow
    <2>2. pc[w] = "saveStep" => r \in Row /\ RowOK(r)
      BY PendingRowsOK
    <2>3. QED
      <3> HIDE DEF r
      <3> SUFFICES pc[w] = "saveStep" /\ Written(r) => OwnWrite(w, r)
        BY DEF r
      <3> QED BY <2>1, <2>2 DEF OwnWrite
  <1>2. LET r == YieldRow(op[w].node, op[w].request, op[w].basis, op[w].id)
        IN pc[w] = "saveYield" /\ Written(r) => OwnWrite(w, r)
    <2> DEFINE r == YieldRow(op[w].node, op[w].request, op[w].basis, op[w].id)
    <2>1. r.status # "Running" /\ r.claimed = NoInterrupt /\ r.by = op[w].id /\ r.basis = op[w].basis
      BY DEF YieldRow
    <2>2. pc[w] = "saveYield" => r \in Row /\ RowOK(r)
      BY PendingRowsOK
    <2>3. QED
      <3> HIDE DEF r
      <3> SUFFICES pc[w] = "saveYield" /\ Written(r) => OwnWrite(w, r)
        BY DEF r
      <3> QED BY <2>1, <2>2 DEF OwnWrite
  <1>3. LET r == GateRow(op[w].node, op[w].resolved, op[w].basis, op[w].id)
        IN pc[w] = "saveGate" /\ Written(r) => OwnWrite(w, r)
    <2> DEFINE r == GateRow(op[w].node, op[w].resolved, op[w].basis, op[w].id)
    <2>1. r.status # "Running" /\ r.claimed = NoInterrupt /\ r.by = op[w].id /\ r.basis = op[w].basis
      BY DEF GateRow
    <2>2. pc[w] = "saveGate" => r \in Row /\ RowOK(r)
      BY PendingRowsOK
    <2>3. QED
      <3> HIDE DEF r
      <3> SUFFICES pc[w] = "saveGate" /\ Written(r) => OwnWrite(w, r)
        BY DEF r
      <3> QED BY <2>1, <2>2 DEF OwnWrite
  <1>4. LET r == RollbackRow(rows[op[w].loaded], op[w].loaded, op[w].id)
        IN pc[w] = "revert" /\ Written(r) => OwnWrite(w, r)
    <2> DEFINE r == RollbackRow(rows[op[w].loaded], op[w].loaded, op[w].id)
    <2>1. r.status # "Running" /\ r.claimed = NoInterrupt /\ r.by = op[w].id /\ r.basis = op[w].loaded
      BY DEF RollbackRow
    <2>2. pc[w] = "revert" => r \in Row /\ RowOK(r) /\ op[w].kind = "input"
      BY PendingRowsOK DEF TypeInv, WorkersOK, WorkerOK
    <2>3. QED
      <3> HIDE DEF r
      <3> SUFFICES pc[w] = "revert" /\ Written(r) => OwnWrite(w, r)
        BY DEF r
      <3> QED BY <2>1, <2>2 DEF OwnWrite
  <1>5. QED
    BY <1>1, <1>2, <1>3, <1>4

\* Giving up changes no row and keeps the call's locals for its rollback.
LEMMA FailIsQuiet ==
  ASSUME TypeInv, NEW w \in Workers, pc[w] # "claimed", Fail(w), UNCHANGED rows
  PROVE  QuietStep(w)
  BY DEF Fail, Return, Move, TypeInv, TypeOK, QuietStep, SameCall

LEMMA ReturnIsQuiet ==
  ASSUME TypeInv, NEW w \in Workers, Return(w), UNCHANGED rows
  PROVE  QuietStep(w)
  BY DEF Return, Move, TypeInv, TypeOK, QuietStep

\* Going on to another place of run_inner.
LEMMA MoveIsQuiet ==
  ASSUME TypeInv, NEW w \in Workers, NEW to, NEW o, pc[w] # "claimed", to # "claimed",
         Move(w, to, o), SameCall(o, op[w]), UNCHANGED rows
  PROVE  QuietStep(w)
  BY DEF Move, TypeInv, TypeOK, QuietStep

\* A step of a call loads the row that it claimed, writes one row or writes none.
LEMMA StepShapes ==
  ASSUME TypeInv, NEW w \in Workers, Step(w)
  PROVE  /\ Live(w)
         /\ QuietStep(w) \/ LoadClaimed(w) \/ WriteStep(w)
PROOF
  <1>0. op[w] \in Op /\ pc[w] \in PC
    BY DEF TypeInv, TypeOK
  <1>1. CASE LoadRejected(w) \/ SchemaRejected(w) \/ ReachEnd(w) \/ RevertConflict(w)
    BY <1>1, ReturnIsQuiet DEF LoadRejected, SchemaRejected, ReachEnd, RevertConflict, Live
  <1>2. CASE LoadClaimed(w)
    BY <1>2 DEF LoadClaimed, Live
  <1>3. CASE StepLimit(w) \/ NodeNotFound(w) \/ NodeFails(w) \/ SaveConflict(w)
    BY <1>3, FailIsQuiet DEF StepLimit, NodeNotFound, NodeFails, SaveConflict, Saving, Live
  <1>4. CASE ReadHead(w)
    <2> DEFINE o == [op[w] EXCEPT !.expected = CurrentHead(rows), !.knowsHead = TRUE]
    <2>1. Move(w, "loop", o) /\ SameCall(o, op[w]) /\ UNCHANGED rows
      BY <1>0, <1>4 DEF ReadHead, SameCall, Op
    <2>2. QED
      BY <1>4, <2>1, MoveIsQuiet DEF ReadHead, Live
  <1>5. CASE InterruptAtGate(w)
    BY <1>5, MoveIsQuiet DEF InterruptAtGate, SameCall, Live
  <1>6. CASE EnterNode(w)
    <2> DEFINE o == [op[w] EXCEPT !.steps = @ + 1, !.attempt = 0]
    <2>1. Move(w, "call", o) /\ SameCall(o, op[w]) /\ UNCHANGED rows
      BY <1>0, <1>6 DEF EnterNode, SameCall, Op
    <2>2. QED
      BY <1>6, <2>1, MoveIsQuiet DEF EnterNode, Live
  <1>7. CASE NodeOk(w)
    <2>1. PICK n : Move(w, "saveStep", [Taken(op[w]) EXCEPT !.next = n])
      BY <1>7 DEF NodeOk
    <2>2. SameCall([Taken(op[w]) EXCEPT !.next = n], op[w])
      BY <1>0 DEF SameCall, Op, Taken
    <2>3. QED
      BY <1>7, <2>1, <2>2, MoveIsQuiet DEF NodeOk, Live
  <1>8. CASE NodeYields(w)
    <2>1. PICK r : Move(w, "saveYield", [Taken(op[w]) EXCEPT !.request = r])
      BY <1>8 DEF NodeYields
    <2>2. SameCall([Taken(op[w]) EXCEPT !.request = r], op[w])
      BY <1>0 DEF SameCall, Op, Taken
    <2>3. QED
      BY <1>8, <2>1, <2>2, MoveIsQuiet DEF NodeYields, Live
  <1>9. CASE NodeRetries(w)
    <2> DEFINE o == [Taken(op[w]) EXCEPT !.attempt = @ + 1]
    <2>1. Move(w, "call", o) /\ SameCall(o, op[w]) /\ UNCHANGED rows
      BY <1>0, <1>9 DEF NodeRetries, SameCall, Op, Taken
    <2>2. QED
      BY <1>9, <2>1, MoveIsQuiet DEF NodeRetries, Live
  <1>10. CASE RevertHead(w)
    <2> DEFINE o == [op[w] EXCEPT !.expected = CurrentHead(rows)]
    <2>1. Move(w, "revert", o) /\ SameCall(o, op[w]) /\ UNCHANGED rows
      BY <1>0, <1>10 DEF RevertHead, SameCall, Op
    <2>2. QED
      BY <1>10, <2>1, MoveIsQuiet DEF RevertHead, Live
  <1>11. CASE SaveStep(w)
    <2> DEFINE r == StepRow(op[w].next, op[w].resolved, op[w].basis, op[w].id)
    <2>1. OwnWrite(w, r) /\ r.status = "Complete" /\ Live(w)
      BY <1>11, PendingRowsAreOwn DEF SaveStep, StepRow, Live
    <2>2. CASE Return(w)
      <3>1. pc'[w] = "idle"
        BY <2>2 DEF Return, Move, TypeInv, TypeOK
      <3>2. QED
        <4> HIDE DEF r
        <4> QED BY <2>1, <3>1 DEF WriteStep
    <2>3. CASE Move(w, "loop", [op[w] EXCEPT !.node = op[w].next, !.basis = Len(rows) + 1,
                                             !.expected = CurrentHead(rows'), !.next = End])
      <3>1. /\ pc'[w] = "loop"
            /\ op'[w].kind = op[w].kind /\ op'[w].id = op[w].id
            /\ op'[w].loaded = op[w].loaded /\ op'[w].basis = Len(rows) + 1
        BY <1>0, <2>3 DEF Move, TypeInv, TypeOK, Op
      <3>2. QED
        <4> HIDE DEF r
        <4> QED BY <2>1, <3>1 DEF WriteStep
    <2>4. QED
      BY <1>11, <2>2, <2>3 DEF SaveStep
  <1>12. CASE SaveYield(w) \/ SaveGate(w) \/ Revert(w)
    <2>1. pc'[w] = "idle" /\ Live(w)
      BY <1>12 DEF SaveYield, SaveGate, Revert, Return, Move, Live, TypeInv, TypeOK
    <2>2. \E r : OwnWrite(w, r)
      BY <1>12, PendingRowsAreOwn DEF SaveYield, SaveGate, Revert
    <2>3. QED
      BY <2>1, <2>2 DEF WriteStep
  <1>13. QED
    BY <1>1, <1>2, <1>3, <1>4, <1>5, <1>6, <1>7, <1>8, <1>9, <1>10, <1>11, <1>12 DEF Step

\* A fault ends or breaks off the call; only a lost answer has written a row.
LEMMA FaultyShapes ==
  ASSUME TypeInv, NEW w \in Workers, Faulty(w)
  PROVE  /\ Live(w)
         /\ QuietStep(w) \/ (LostAnswers /\ \E r : OwnWrite(w, r))
PROOF
  <1>1. CASE Crash(w)
    BY <1>1, ReturnIsQuiet DEF Crash
  <1>2. CASE StoreFails(w)
    BY <1>2, ReturnIsQuiet, FailIsQuiet DEF StoreFails, Saving, Live
  <1>3. CASE AnswerLost(w)
    <2>1. OwnWrite(w, PendingRow(w))
      BY <1>3, PendingRowsAreOwn DEF AnswerLost, Saving, PendingRow
    <2>2. QED
      BY <1>3, <2>1 DEF AnswerLost, Saving, Live
  <1>4. QED
    BY <1>1, <1>2, <1>3 DEF Faulty

-----------------------------------------------------------------------------
(* Calls are numbered in the order they start, and a call writes under its number. *)

Numbered ==
  /\ \A k \in 1..Len(rows) : rows[k].by <= started
  /\ \A w \in Workers : Live(w) => op[w].id <= started
  /\ \A v, w \in Workers : Live(v) /\ Live(w) /\ v # w => op[v].id # op[w].id

\* A step of a working call ends it, or goes on with it; it writes one row or none.
LEMMA WorkKeepsNumber ==
  ASSUME TypeInv, NEW w \in Workers, Step(w) \/ Faulty(w)
  PROVE  /\ Live(w) /\ started' = started
         /\ pc'[w] = "idle" \/ op'[w].id = op[w].id
         /\ \A v \in Workers : v # w => pc'[v] = pc[v] /\ op'[v] = op[v]
         /\ UNCHANGED rows \/ \E r \in Row : Written(r) /\ r.by = op[w].id
PROOF
  <1>0. op \in [Workers -> Op] /\ pc \in [Workers -> PC]
    BY DEF TypeInv, TypeOK
  <1>1. \A v \in Workers : v # w => pc'[v] = pc[v] /\ op'[v] = op[v]
    BY <1>0, WorkIsMove DEF Move
  <1>2. CASE Step(w)
    <2>1. started' = started
      BY <1>2 DEF Step, LoadRejected, SchemaRejected, LoadClaimed, ReadHead, StepLimit, ReachEnd,
           InterruptAtGate, NodeNotFound, EnterNode, NodeOk, NodeYields, NodeRetries, NodeFails,
           SaveStep, SaveYield, SaveGate, SaveConflict, RevertHead, Revert, RevertConflict,
           Unchanged
    <2>2. CASE LoadClaimed(w)
      BY <1>0, <1>1, <2>1, <2>2 DEF LoadClaimed, Live, Move, Op
    <2>3. CASE QuietStep(w) \/ WriteStep(w)
      BY <1>1, <1>2, <2>1, <2>3, StepShapes DEF QuietStep, SameCall, WriteStep, OwnWrite
    <2>4. QED
      BY <1>2, <2>2, <2>3, StepShapes
  <1>3. CASE Faulty(w)
    <2>1. started' = started
      BY <1>3 DEF Faulty, Crash, StoreFails, AnswerLost, Fault
    <2>2. pc'[w] = "idle" \/ op'[w].id = op[w].id
      BY <1>0, <1>3 DEF Faulty, Crash, StoreFails, AnswerLost, Fail, Return, Move
    <2>3. QED
      BY <1>1, <1>3, <2>1, <2>2, FaultyShapes DEF QuietStep, OwnWrite
  <1>4. QED
    BY <1>2, <1>3

\* A new call takes the next number; a claim changes who wrote no row.
LEMMA StartTakesNumber ==
  ASSUME TypeInv, NEW w \in Workers, Start(w)
  PROVE  /\ ~Live(w) /\ started' = started + 1 /\ faults' = faults
         /\ pc'[w] \in {"head", "claimed"}
         /\ op'[w].id = started + 1 /\ op'[w].steps = 0 /\ ~op'[w].knowsHead
         /\ \A v \in Workers : v # w => pc'[v] = pc[v] /\ op'[v] = op[v]
         /\ Len(rows') = Len(rows) /\ Len(rows) \in Nat
         /\ \A k \in 1..Len(rows) : rows'[k].by = rows[k].by
PROOF
  <1>0. rows \in Seq(Row) /\ op \in [Workers -> Op] /\ pc \in [Workers -> PC]
    BY DEF TypeInv, TypeOK
  <1>1. /\ \E to \in {"head", "claimed"} : \E kind, n, i, l :
              Move(w, to, NewOp(kind, started + 1, n, i, l))
        /\ ~Live(w) /\ started' = started + 1 /\ faults' = faults
    BY DEF Start, StartRun, StartResume, StartClaim, Begin
  <1>2. /\ pc'[w] \in {"head", "claimed"}
        /\ op'[w].id = started + 1 /\ op'[w].steps = 0 /\ ~op'[w].knowsHead
        /\ \A v \in Workers : v # w => pc'[v] = pc[v] /\ op'[v] = op[v]
    <2>1. PICK to \in {"head", "claimed"} :
            \E kind, n, i, l : Move(w, to, NewOp(kind, started + 1, n, i, l))
      BY <1>1
    <2>2. PICK kind, n, i, l : Move(w, to, NewOp(kind, started + 1, n, i, l))
      BY <2>1
    <2>3. /\ pc'[w] = to /\ op'[w] = NewOp(kind, started + 1, n, i, l)
          /\ \A v \in Workers : v # w => pc'[v] = pc[v] /\ op'[v] = op[v]
      BY <1>0, <2>2 DEF Move
    <2>4. QED
      BY <2>3 DEF NewOp
  <1>3. CASE UNCHANGED rows
    BY <1>0, <1>1, <1>2, <1>3
  <1>4. CASE \E i \in Interrupts : rows # <<>> /\ rows' = Claimed(rows, i)
    <2>1. PICK i \in Interrupts : rows # <<>> /\ rows' = Claimed(rows, i)
      BY <1>4
    <2>2. Len(rows') = Len(rows) /\ Len(rows) \in 1..Len(rows)
      BY <1>0, <2>1, ClaimedRow
    <2>3. \A k \in 1..Len(rows) : k # Len(rows) => rows'[k] = rows[k]
      BY <1>0, <2>1, ClaimedRow
    <2>4. rows'[Len(rows)].by = rows[Len(rows)].by
      BY <1>0, <2>1, ClaimedRow
    <2>5. QED
      BY <1>0, <1>1, <1>2, <2>2, <2>3, <2>4
  <1>5. QED
    BY <1>3, <1>4 DEF Start, StartRun, StartResume, StartClaim, Claimable

LEMMA NumberedInit == Init => Numbered
  BY DEF Init, Numbered, Live

\* No two calls in progress share a number, and no row has one of the future.
LEMMA NumberedNext ==
  ASSUME TypeInv, TypeInv', Numbered, [Next]_vars
  PROVE  Numbered'
PROOF
  <1>0. /\ rows \in Seq(Row) /\ Len(rows) \in Nat /\ started \in Nat
        /\ \A v \in Workers : op[v].id \in Nat
    BY DEF TypeInv, TypeOK, Op
  <1>1. \A k \in 1..Len(rows) : rows[k].by \in Nat
    <2> SUFFICES ASSUME NEW k \in 1..Len(rows) PROVE rows[k].by \in Nat
      OBVIOUS
    <2>1. rows[k] \in Row
      BY <1>0
    <2>2. QED
      BY <2>1 DEF Row
  <1>2. ASSUME NEW w \in Workers, Start(w)
        PROVE  Numbered'
    <2>1. /\ started' = started + 1 /\ op'[w].id = started + 1
          /\ \A v \in Workers : v # w => pc'[v] = pc[v] /\ op'[v] = op[v]
          /\ Len(rows') = Len(rows)
          /\ \A k \in 1..Len(rows) : rows'[k].by = rows[k].by
      BY <1>2, StartTakesNumber
    <2>2. \A k \in 1..Len(rows') : rows'[k].by <= started'
      BY <1>0, <1>1, <2>1 DEF Numbered
    <2>3. \A v \in Workers : Live(v)' => op'[v].id <= started'
      BY <1>0, <2>1 DEF Numbered, Live
    <2>4. \A v \in Workers : v # w /\ Live(v)' => op'[v].id # op'[w].id
      BY <1>0, <2>1 DEF Numbered, Live
    <2>5. \A u, v \in Workers : Live(u)' /\ Live(v)' /\ u # v => op'[u].id # op'[v].id
      BY <2>1, <2>4 DEF Numbered, Live
    <2>6. QED
      BY <2>2, <2>3, <2>5 DEF Numbered
  <1>3. ASSUME NEW w \in Workers, Step(w) \/ Faulty(w)
        PROVE  Numbered'
    <2>1. /\ Live(w) /\ started' = started
          /\ pc'[w] = "idle" \/ op'[w].id = op[w].id
          /\ \A v \in Workers : v # w => pc'[v] = pc[v] /\ op'[v] = op[v]
          /\ UNCHANGED rows \/ \E r \in Row : Written(r) /\ r.by = op[w].id
      BY <1>3, WorkKeepsNumber
    <2>2. \A v \in Workers : Live(v)' => Live(v) /\ op'[v].id = op[v].id
      <3> SUFFICES ASSUME NEW v \in Workers, pc'[v] # "idle"
                   PROVE  Live(v) /\ op'[v].id = op[v].id
        BY DEF Live
      <3>1. CASE v = w
        BY <2>1, <3>1
      <3>2. CASE v # w
        BY <2>1, <3>2 DEF Live
      <3>3. QED
        BY <3>1, <3>2
    <2>3. \A k \in 1..Len(rows') : rows'[k].by <= started
      <3>1. CASE UNCHANGED rows
        BY <3>1 DEF Numbered
      <3>2. CASE \E r \in Row : Written(r) /\ r.by = op[w].id
        BY <1>0, <2>1, <3>2, AppendRow DEF Numbered, Written
      <3>3. QED
        BY <2>1, <3>1, <3>2
    <2>4. QED
      BY <2>1, <2>2, <2>3 DEF Numbered
  <1>4. CASE UNCHANGED vars
    BY <1>4 DEF vars, Numbered, Live
  <1>5. QED
    BY <1>2, <1>3, <1>4 DEF Next

\* The typing invariant and the numbering, for the proofs below.
LEMMA NumberedHolds == Spec => [](TypeInv /\ Numbered)
PROOF
  <1>1. Init => TypeInv /\ Numbered
    BY TypeInvInit, NumberedInit
  <1>2. TypeInv /\ Numbered /\ [Next]_vars => (TypeInv /\ Numbered)'
    BY TypeInvNext, NumberedNext
  <1>3. QED
    BY <1>1, <1>2, PTL DEF Spec
-----------------------------------------------------------------------------
(* max_sequential_steps.  The inductive invariant: a call at a given place has   *)
(* written no more rows than it has entered nodes, which leaves room for the row *)
(* it is about to save and for one rollback.                                     *)

RowsBy(s, id) == {l \in 1..Len(s) : s[l].by = id}
Count(s, id) == Cardinality(RowsBy(s, id))

\* `c` rows are accounted for by the steps that the call has counted.
WithinSteps(at, o, c) ==
  /\ o.steps <= MaxSteps
  /\ at \in {"claimed", "head", "loop"} => c <= o.steps
  /\ at \in {"call", "saveStep", "saveYield"} => c + 1 <= o.steps
  /\ at = "saveGate" => c + 1 <= MaxSteps
  /\ at \in {"revertHead", "revert"} => c <= MaxSteps

CountsOK ==
  /\ \A id \in Nat : Count(rows, id) <= MaxSteps + 1
  /\ \A w \in Workers : Live(w) => WithinSteps(pc[w], op[w], Count(rows, op[w].id))

LEMMA CountIsNat ==
  ASSUME NEW s \in Seq(Row), NEW id
  PROVE  IsFiniteSet(RowsBy(s, id)) /\ Count(s, id) \in Nat
PROOF
  <1>1. Len(s) \in Nat
    OBVIOUS
  <1>2. IsFiniteSet(1..Len(s)) /\ RowsBy(s, id) \subseteq 1..Len(s)
    BY <1>1, FS_Interval DEF RowsBy
  <1>3. IsFiniteSet(RowsBy(s, id))
    BY <1>2, FS_Subset
  <1>4. QED
    BY <1>3, FS_CardinalityType DEF Count

\* Appending a row counts for its writer.
LEMMA CountAppended ==
  ASSUME NEW s \in Seq(Row), NEW r \in Row, NEW id
  PROVE  Count(Append(s, r), id) = IF r.by = id THEN Count(s, id) + 1 ELSE Count(s, id)
PROOF
  <1> DEFINE n == Len(s)
             t == Append(s, r)
  <1>1. /\ n \in Nat /\ t \in Seq(Row) /\ Len(t) = n + 1
        /\ \A k \in 1..n : t[k] = s[k]
        /\ t[n + 1] = r
    BY AppendRow
  <1> HIDE DEF n, t
  <1>2. RowsBy(s, id) \subseteq 1..n /\ n + 1 \notin RowsBy(s, id)
    BY <1>1 DEF RowsBy, n
  <1>3. CASE r.by = id
    <2>1. RowsBy(t, id) = RowsBy(s, id) \cup {n + 1}
      BY <1>1, <1>3 DEF RowsBy, n
    <2>2. QED
      BY <1>2, <1>3, <2>1, CountIsNat, FS_AddElement DEF Count, t
  <1>4. CASE r.by # id
    <2>1. RowsBy(t, id) = RowsBy(s, id)
      BY <1>1, <1>4 DEF RowsBy, n
    <2>2. QED
      BY <1>4, <2>1 DEF Count, t
  <1>5. QED
    BY <1>3, <1>4

\* Where a step of a call leads, and how it counts.
LEMMA StepsCounted ==
  ASSUME TypeInv, NEW w \in Workers, Step(w) \/ Faulty(w), pc'[w] # "idle"
  PROVE  \/ /\ pc[w] = "loop" /\ pc'[w] = "call" /\ UNCHANGED rows
            /\ op[w].steps < MaxSteps /\ op'[w].steps = op[w].steps + 1
         \/ /\ op'[w].steps = op[w].steps /\ UNCHANGED rows
            /\ \/ pc[w] \in {"claimed", "head"} /\ pc'[w] \in {"head", "loop"}
               \/ pc[w] = "call" /\ pc'[w] \in {"call", "saveStep", "saveYield"}
               \/ pc[w] = "loop" /\ pc'[w] = "saveGate" /\ op[w].steps < MaxSteps
               \/ pc'[w] \in {"revertHead", "revert"}
         \/ /\ op'[w].steps = op[w].steps
            /\ \/ pc[w] = "saveStep" /\ pc'[w] = "loop"
               \/ Saving(w) /\ pc'[w] \in {"revertHead", "revert"}
PROOF
  <1>0. op \in [Workers -> Op] /\ pc \in [Workers -> PC]
    BY DEF TypeInv, TypeOK
  <1>1. CASE \/ LoadRejected(w) \/ SchemaRejected(w) \/ ReachEnd(w) \/ SaveYield(w) \/ SaveGate(w)
             \/ Revert(w) \/ RevertConflict(w) \/ Crash(w)
    BY <1>0, <1>1 DEF LoadRejected, SchemaRejected, ReachEnd, SaveYield, SaveGate, Revert,
       RevertConflict, Crash, Return, Move
  <1>2. CASE LoadClaimed(w) \/ ReadHead(w)
    <2>1. /\ UNCHANGED rows
          /\ pc[w] \in {"claimed", "head"} /\ pc'[w] \in {"head", "loop"}
      BY <1>0, <1>2 DEF LoadClaimed, ReadHead, Move
    <2>2. CASE LoadClaimed(w)
      <3>1. PICK n, b : Move(w, "head", [op[w] EXCEPT !.loaded = Len(rows), !.basis = Len(rows),
                                                      !.node = n, !.input = b])
        BY <2>2 DEF LoadClaimed
      <3>2. op'[w].steps = op[w].steps
        BY <1>0, <3>1 DEF Move, Op
      <3>3. QED
        BY <2>1, <3>2
    <2>3. CASE ReadHead(w)
      <3>1. op'[w].steps = op[w].steps
        BY <1>0, <2>3 DEF ReadHead, Move, Op
      <3>2. QED
        BY <2>1, <3>1
    <2>4. QED
      BY <1>2, <2>2, <2>3
  <1>3. CASE StepLimit(w) \/ NodeNotFound(w) \/ NodeFails(w) \/ SaveConflict(w)
    <2>1. Fail(w) /\ UNCHANGED rows
      BY <1>3 DEF StepLimit, NodeNotFound, NodeFails, SaveConflict
    <2>2. QED
      BY <1>0, <2>1 DEF Fail, Return, Move
  <1>4. CASE InterruptAtGate(w)
    BY <1>0, <1>4 DEF InterruptAtGate, Move
  <1>5. CASE EnterNode(w)
    BY <1>0, <1>5 DEF EnterNode, Move, Op
  <1>6. CASE NodeOk(w)
    BY <1>0, <1>6 DEF NodeOk, Taken, Move, Op
  <1>7. CASE NodeYields(w)
    BY <1>0, <1>7 DEF NodeYields, Taken, Move, Op
  <1>8. CASE NodeRetries(w)
    BY <1>0, <1>8 DEF NodeRetries, Taken, Move, Op
  <1>9. CASE SaveStep(w)
    <2>1. pc[w] = "saveStep" /\ pc'[w] = "loop"
      BY <1>0, <1>9 DEF SaveStep, Return, Move
    <2>2. Move(w, "loop", [op[w] EXCEPT !.node = op[w].next, !.basis = Len(rows) + 1,
                                        !.expected = CurrentHead(rows'), !.next = End])
      BY <1>0, <1>9, <2>1 DEF SaveStep, Return, Move
    <2>3. op'[w].steps = op[w].steps
      BY <1>0, <2>2 DEF Move, Op
    <2>4. QED
      BY <2>1, <2>3
  <1>10. CASE RevertHead(w)
    BY <1>0, <1>10 DEF RevertHead, Move, Op
  <1>11. CASE StoreFails(w)
    BY <1>0, <1>11 DEF StoreFails, Fail, Return, Move
  <1>12. CASE AnswerLost(w)
    BY <1>0, <1>12 DEF AnswerLost, Fail, Return, Move
  <1>13. QED
    BY <1>1, <1>2, <1>3, <1>4, <1>5, <1>6, <1>7, <1>8, <1>9, <1>10, <1>11, <1>12 DEF Step, Faulty

LEMMA CountsOKNext ==
  ASSUME TypeInv, TypeInv', Numbered, CountsOK, [Next]_vars
  PROVE  CountsOK'
PROOF
  <1>0. /\ rows \in Seq(Row) /\ rows' \in Seq(Row) /\ started \in Nat /\ MaxSteps \in Nat
        /\ \A v \in Workers : op[v] \in Op /\ op[v].id \in Nat /\ op[v].steps \in Nat
    BY SettingsAssumption DEF TypeInv, TypeOK, Op
  <1>1. ASSUME NEW w \in Workers, Start(w)
        PROVE  CountsOK'
    <2>1. /\ started' = started + 1 /\ op'[w].id = started + 1 /\ op'[w].steps = 0
          /\ pc'[w] \in {"head", "claimed"}
          /\ \A v \in Workers : v # w => pc'[v] = pc[v] /\ op'[v] = op[v]
          /\ Len(rows') = Len(rows)
          /\ \A k \in 1..Len(rows) : rows'[k].by = rows[k].by
      BY <1>1, StartTakesNumber
    <2>2. \A id : RowsBy(rows', id) = RowsBy(rows, id)
      BY <2>1 DEF RowsBy
    <2>3. \A id : Count(rows', id) = Count(rows, id)
      BY <2>2 DEF Count
    <2>4. Count(rows, started + 1) = 0
      <3>1. RowsBy(rows, started + 1) = {}
        <4> SUFFICES ASSUME NEW k \in 1..Len(rows), rows[k].by = started + 1 PROVE FALSE
          BY DEF RowsBy
        <4>1. rows[k].by <= started
          BY DEF Numbered
        <4>2. QED
          BY <1>0, <4>1
      <3>2. QED
        BY <3>1, FS_EmptySet DEF Count
    <2>5. WithinSteps(pc'[w], op'[w], Count(rows', op'[w].id))
      BY <1>0, <2>1, <2>3, <2>4 DEF WithinSteps
    <2>6. ASSUME NEW v \in Workers, pc'[v] # "idle"
          PROVE  WithinSteps(pc'[v], op'[v], Count(rows', op'[v].id))
      <3>1. CASE v = w
        BY <2>5, <3>1
      <3>2. CASE v # w
        BY <2>1, <2>3, <2>6, <3>2 DEF CountsOK, Live
      <3>3. QED
        BY <3>1, <3>2
    <2>7. QED
      BY <2>3, <2>6 DEF CountsOK, Live
  <1>2. ASSUME NEW w \in Workers, Step(w) \/ Faulty(w)
        PROVE  CountsOK'
    <2> DEFINE c == Count(rows, op[w].id)
    <2>1. /\ Live(w) /\ started' = started
          /\ pc'[w] = "idle" \/ op'[w].id = op[w].id
          /\ \A v \in Workers : v # w => pc'[v] = pc[v] /\ op'[v] = op[v]
          /\ UNCHANGED rows \/ \E r \in Row : Written(r) /\ r.by = op[w].id
      BY <1>2, WorkKeepsNumber
    <2>2. /\ WithinSteps(pc[w], op[w], c) /\ c \in Nat /\ pc[w] \in PC /\ pc[w] # "idle"
      BY <1>0, <2>1, CountIsNat DEF CountsOK, TypeInv, TypeOK, Live
    <2>3. /\ \A id : id # op[w].id => Count(rows', id) = Count(rows, id)
          /\ Count(rows', op[w].id) = IF UNCHANGED rows THEN c ELSE c + 1
      <3>1. CASE UNCHANGED rows
        BY <3>1
      <3>2. CASE \E r \in Row : Written(r) /\ r.by = op[w].id
        <4>1. PICK r \in Row : rows' = Append(rows, r) /\ r.by = op[w].id
          BY <3>2 DEF Written
        <4>2. \A id : Count(rows', id) = IF r.by = id THEN Count(rows, id) + 1 ELSE Count(rows, id)
          BY <1>0, <4>1, CountAppended
        <4>3. rows' # rows
          BY <1>0, <4>1, AppendRow
        <4>4. QED
          BY <4>1, <4>2, <4>3
      <3>3. QED
        BY <2>1, <3>1, <3>2
    <2> HIDE DEF c
    <2>5. c <= MaxSteps
      BY <1>0, <2>2 DEF WithinSteps, PC
    <2>6. \A id \in Nat : Count(rows', id) <= MaxSteps + 1
      <3> SUFFICES ASSUME NEW id \in Nat PROVE Count(rows', id) <= MaxSteps + 1
        OBVIOUS
      <3>1. CASE id = op[w].id
        BY <1>0, <2>2, <2>3, <2>5, <3>1
      <3>2. CASE id # op[w].id
        BY <2>3, <3>2 DEF CountsOK
      <3>3. QED
        BY <3>1, <3>2
    <2>7. ASSUME pc'[w] # "idle"
          PROVE  WithinSteps(pc'[w], op'[w], Count(rows', op'[w].id))
      <3>1. /\ Count(rows', op'[w].id) = IF UNCHANGED rows THEN c ELSE c + 1
            /\ op[w].steps \in Nat
        BY <1>0, <2>1, <2>3, <2>7
      <3> DEFINE d == Count(rows', op'[w].id)
                 n == op[w].steps
      <3>2. d \in Nat /\ d <= c + 1 /\ (UNCHANGED rows => d = c) /\ n \in Nat
        BY <2>2, <3>1
      <3> HIDE DEF d, n
      <3>3. \/ /\ pc[w] = "loop" /\ pc'[w] = "call" /\ d = c
               /\ n < MaxSteps /\ op'[w].steps = n + 1
            \/ /\ op'[w].steps = n /\ d = c
               /\ \/ pc[w] \in {"claimed", "head"} /\ pc'[w] \in {"head", "loop"}
                  \/ pc[w] = "call" /\ pc'[w] \in {"call", "saveStep", "saveYield"}
                  \/ pc[w] = "loop" /\ pc'[w] = "saveGate" /\ n < MaxSteps
                  \/ pc'[w] \in {"revertHead", "revert"}
            \/ /\ op'[w].steps = n
               /\ \/ pc[w] = "saveStep" /\ pc'[w] = "loop"
                  \/ Saving(w) /\ pc'[w] \in {"revertHead", "revert"}
        BY <1>2, <2>7, <3>2, StepsCounted DEF n
      <3>4. /\ n <= MaxSteps
            /\ pc[w] \in {"claimed", "head", "loop"} => c <= n
            /\ pc[w] \in {"call", "saveStep", "saveYield"} => c + 1 <= n
            /\ pc[w] = "saveGate" => c + 1 <= MaxSteps
        BY <2>2 DEF WithinSteps, n
      <3>5. WithinSteps(pc'[w], op'[w], d)
        BY <1>0, <2>2, <2>5, <3>2, <3>3, <3>4 DEF WithinSteps, Saving
      <3>6. QED
        BY <3>5 DEF d
    <2>8. ASSUME NEW v \in Workers, pc'[v] # "idle"
          PROVE  WithinSteps(pc'[v], op'[v], Count(rows', op'[v].id))
      <3>1. CASE v = w
        BY <2>7, <2>8, <3>1
      <3>2. CASE v # w
        <4>1. pc'[v] = pc[v] /\ op'[v] = op[v] /\ Live(v) /\ op[v].id # op[w].id
          BY <2>1, <2>8, <3>2 DEF Numbered, Live
        <4>2. Count(rows', op[v].id) = Count(rows, op[v].id)
          BY <2>3, <4>1
        <4>3. QED
          BY <4>1, <4>2 DEF CountsOK
      <3>3. QED
        BY <3>1, <3>2
    <2>9. QED
      BY <2>6, <2>8 DEF CountsOK, Live
  <1>3. CASE UNCHANGED vars
    BY <1>3 DEF vars, CountsOK, Live
  <1>4. QED
    BY <1>1, <1>2, <1>3 DEF Next

\* A call writes max_sequential_steps rows and a rollback at most, whatever loops
\* the graph has, whoever else calls, and whichever answers are lost.
THEOREM CallsWriteBoundedly == Spec => []RowsPerCallBounded
PROOF
  <1>1. Init => CountsOK
    <2> SUFFICES ASSUME Init PROVE CountsOK
      OBVIOUS
    <2>1. \A id : RowsBy(rows, id) = {}
      BY DEF Init, RowsBy
    <2>2. \A id : Count(rows, id) = 0
      BY <2>1, FS_EmptySet DEF Count
    <2>3. QED
      BY <2>2, SettingsAssumption DEF Init, CountsOK, Live
  <1>2. TypeInv /\ TypeInv' /\ Numbered /\ CountsOK /\ [Next]_vars => CountsOK'
    BY CountsOKNext
  <1>3. TypeInv /\ CountsOK => RowsPerCallBounded
    <2> SUFFICES ASSUME TypeInv, CountsOK, NEW k \in 1..Len(rows)
                 PROVE  Cardinality({l \in 1..Len(rows) : rows[l].by = rows[k].by}) <= MaxSteps + 1
      BY DEF RowsPerCallBounded
    <2>1. rows[k] \in Row
      BY DEF TypeInv, TypeOK
    <2>2. rows[k].by \in Nat
      BY <2>1 DEF Row
    <2>3. QED
      BY <2>2 DEF CountsOK, Count, RowsBy
  <1>4. QED
    BY <1>1, <1>2, <1>3, NumberedHolds, PTL DEF Spec
-----------------------------------------------------------------------------
(* ClaimResult::InProgress.  While nothing fails, the call that claimed the      *)
(* latest row is at work on it: until it saves a row of its own, the head that   *)
(* it expects is the store's, so that neither its writes nor its rollback are    *)
(* refused, and it does not reach the end of the graph.                          *)

\* No handoff leads from a yielded node straight to the end of the graph.
NoHandoffToEnd == HandoffInterrupts = {} \/ \A n \in Nodes : End \notin EdgeFrom(n)

RunningOK == \A k \in 1..Len(rows) :
               rows[k].status = "Running" => rows[k].claimed = rows[k].request

\* A call whose loaded row is still the latest one.
AtLatest(at, o, s) ==
  o.kind = "input" /\ at \notin {"idle", "claimed"} /\ o.loaded = Len(s) =>
    /\ at \in {"head", "loop"} => o.node # End
    /\ at \in {"loop", "call", "saveStep", "saveYield", "saveGate", "revert"} =>
         o.expected = CurrentHead(s)

HoldsClaim(at, o, s) ==
  /\ o.kind = "input" /\ o.resolved = Latest(s).claimed
  /\ at = "claimed" \/ (at \notin {"idle", "claimed"} /\ o.loaded = Len(s))

ActiveInv ==
  /\ RunningOK
  /\ faults = 0 =>
       /\ \A w \in Workers : AtLatest(pc[w], op[w], rows)
       /\ rows # <<>> /\ Latest(rows).status = "Running" =>
            \E w \in Workers : HoldsClaim(pc[w], op[w], rows)

\* A row that somebody asks about is in the sequence.
LEMMA LatestIsRow ==
  ASSUME TypeInv, rows # <<>>
  PROVE  /\ Len(rows) \in 1..Len(rows) /\ Latest(rows) = rows[Len(rows)]
         /\ Latest(rows) \in Row /\ RowOK(Latest(rows))
PROOF
  <1>1. rows \in Seq(Row)
    BY DEF TypeInv, TypeOK
  <1>2. Len(rows) \in 1..Len(rows) /\ rows[Len(rows)] \in Row
    BY <1>1
  <1>3. QED
    BY <1>2 DEF Latest, TypeInv, RowsOK

\* An error of run_inner before the call has saved anything: the rollback knows
\* the head, or reads it anew.
LEMMA FailKeepsHold ==
  ASSUME TypeInv, NEW w \in Workers, Fail(w), UNCHANGED rows,
         pc[w] \in {"loop", "call", "saveStep", "saveYield", "saveGate"},
         AtLatest(pc[w], op[w], rows)
  PROVE  /\ AtLatest(pc'[w], op'[w], rows)
         /\ HoldsClaim(pc[w], op[w], rows) => HoldsClaim(pc'[w], op'[w], rows)
PROOF
  <1>1. pc \in [Workers -> PC] /\ op \in [Workers -> Op]
    BY DEF TypeInv, TypeOK
  <1>2. CASE op[w].kind # "input"
    <2>1. pc'[w] = "idle"
      BY <1>1, <1>2 DEF Fail, Return, Move
    <2>2. QED
      BY <1>2, <2>1 DEF AtLatest, HoldsClaim
  <1>3. CASE op[w].kind = "input"
    <2>1. pc'[w] \in {"revertHead", "revert"} /\ op'[w] = op[w]
      BY <1>1, <1>3 DEF Fail, Move
    <2>2. QED
      BY <2>1 DEF AtLatest, HoldsClaim
  <1>4. QED
    BY <1>2, <1>3

\* A step of the holder that writes nothing keeps the claim in its hands.
LEMMA HolderGoesOn ==
  ASSUME NoHandoffToEnd, SchemaInterrupts = {}, TypeInv, RunningOK, rows # <<>>,
         NEW w \in Workers, Step(w), UNCHANGED rows, AtLatest(pc[w], op[w], rows)
  PROVE  /\ AtLatest(pc'[w], op'[w], rows)
         /\ Latest(rows).status = "Running" /\ HoldsClaim(pc[w], op[w], rows) =>
              HoldsClaim(pc'[w], op'[w], rows)
PROOF
  <1>0. /\ pc \in [Workers -> PC] /\ op \in [Workers -> Op] /\ op[w] \in Op
        /\ rows \in Seq(Row) /\ WorkerOK(pc[w], op[w], rows)
    BY DEF TypeInv, TypeOK, WorkersOK
  <1>1. CASE LoadRejected(w)
    <2>1. pc[w] = "claimed" /\ pc'[w] = "idle" /\ Latest(rows).request # op[w].resolved
      BY <1>0, <1>1 DEF LoadRejected, AsksFor, Return, Move
    <2>2. Latest(rows).status = "Running" => Latest(rows).claimed = Latest(rows).request
      BY LatestIsRow DEF RunningOK
    <2>3. QED
      BY <2>1, <2>2 DEF AtLatest, HoldsClaim
  <1>2. CASE SchemaRejected(w)
    BY <1>2 DEF SchemaRejected
  <1>3. CASE LoadClaimed(w)
    <2> DEFINE handoff == op[w].resolved \in HandoffInterrupts
    <2>1. /\ pc[w] = "claimed" /\ Latest(rows).request = op[w].resolved
          /\ op[w].resolved \in Interrupts
      BY <1>0, <1>3 DEF LoadClaimed, AsksFor, WorkerOK
    <2>2. Latest(rows).next \in Nodes /\ End \notin Nodes
      BY <2>1, LatestIsRow, NamesAssumption DEF RowOK
    <2>3. PICK n \in IF handoff THEN EdgeFrom(Latest(rows).next) ELSE {Latest(rows).next}, b \in BOOLEAN :
            Move(w, "head", [op[w] EXCEPT !.loaded = Len(rows), !.basis = Len(rows),
                                          !.node = n, !.input = b])
      BY <1>3 DEF LoadClaimed
    <2>4. n # End
      BY <2>2, <2>3 DEF NoHandoffToEnd
    <2> HIDE DEF handoff
    <2>5. /\ pc'[w] = "head" /\ op'[w].kind = op[w].kind /\ op'[w].resolved = op[w].resolved
          /\ op'[w].loaded = Len(rows) /\ op'[w].node = n
      BY <1>0, <2>3 DEF Move, Op
    <2>6. QED
      BY <2>1, <2>4, <2>5 DEF AtLatest, HoldsClaim
  <1>4. CASE ReadHead(w)
    <2>1. /\ pc[w] = "head" /\ pc'[w] = "loop" /\ op'[w].kind = op[w].kind
          /\ op'[w].resolved = op[w].resolved /\ op'[w].loaded = op[w].loaded
          /\ op'[w].node = op[w].node /\ op'[w].expected = CurrentHead(rows)
      BY <1>0, <1>4 DEF ReadHead, Move, Op
    <2>2. QED
      BY <2>1 DEF AtLatest, HoldsClaim
  <1>5. CASE StepLimit(w) \/ NodeNotFound(w) \/ NodeFails(w) \/ SaveConflict(w)
    BY <1>5, FailKeepsHold DEF StepLimit, NodeNotFound, NodeFails, SaveConflict, Saving
  <1>6. CASE ReachEnd(w)
    <2>1. pc[w] = "loop" /\ op[w].node = End /\ pc'[w] = "idle"
      BY <1>0, <1>6 DEF ReachEnd, Return, Move
    <2>2. QED
      BY <2>1 DEF AtLatest, HoldsClaim
  <1>7. CASE InterruptAtGate(w) \/ EnterNode(w) \/ NodeOk(w) \/ NodeYields(w) \/ NodeRetries(w)
    <2>1. /\ pc[w] \in {"loop", "call"}
          /\ pc'[w] \in {"call", "saveStep", "saveYield", "saveGate"}
      BY <1>0, <1>7 DEF InterruptAtGate, EnterNode, NodeOk, NodeYields, NodeRetries, Move
    <2>2. /\ op'[w].kind = op[w].kind /\ op'[w].resolved = op[w].resolved
          /\ op'[w].loaded = op[w].loaded /\ op'[w].expected = op[w].expected
      <3>1. CASE InterruptAtGate(w)
        BY <1>0, <3>1 DEF InterruptAtGate, Move
      <3>2. CASE EnterNode(w)
        BY <1>0, <3>2 DEF EnterNode, Move, Op
      <3>3. CASE NodeRetries(w)
        BY <1>0, <3>3 DEF NodeRetries, Taken, Move, Op
      <3>4. CASE NodeOk(w)
        <4>1. PICK x : Move(w, "saveStep", [Taken(op[w]) EXCEPT !.next = x])
          BY <3>4 DEF NodeOk
        <4>2. QED
          BY <1>0, <4>1 DEF Taken, Move, Op
      <3>5. CASE NodeYields(w)
        <4>1. PICK x : Move(w, "saveYield", [Taken(op[w]) EXCEPT !.request = x])
          BY <3>5 DEF NodeYields
        <4>2. QED
          BY <1>0, <4>1 DEF Taken, Move, Op
      <3>6. QED
        BY <1>7, <3>1, <3>2, <3>3, <3>4, <3>5
    <2>3. QED
      BY <2>1, <2>2 DEF AtLatest, HoldsClaim
  <1>8. CASE RevertHead(w)
    <2>1. /\ pc[w] = "revertHead" /\ pc'[w] = "revert" /\ op'[w].kind = op[w].kind
          /\ op'[w].resolved = op[w].resolved /\ op'[w].loaded = op[w].loaded
          /\ op'[w].expected = CurrentHead(rows)
      BY <1>0, <1>8 DEF RevertHead, Move, Op
    <2>2. QED
      BY <2>1 DEF AtLatest, HoldsClaim
  <1>9. CASE RevertConflict(w)
    <2>1. pc[w] = "revert" /\ pc'[w] = "idle" /\ op[w].expected # CurrentHead(rows)
      BY <1>0, <1>9 DEF RevertConflict, Conflicts, Return, Move
    <2>2. QED
      BY <2>1 DEF AtLatest, HoldsClaim
  <1>10. CASE SaveStep(w) \/ SaveYield(w) \/ SaveGate(w) \/ Revert(w)
    <2>1. PICK r \in Row : rows' = Append(rows, r)
      BY <1>10, PendingRowsOK DEF SaveStep, SaveYield, SaveGate, Revert, Written
    <2>2. QED
      BY <1>0, <2>1, AppendRow
  <1>11. QED
    BY <1>1, <1>2, <1>3, <1>4, <1>5, <1>6, <1>7, <1>8, <1>9, <1>10 DEF Step

\* A saved row is not Running, and no call has loaded it.
LEMMA WriteKeepsActive ==
  ASSUME TypeInv, ActiveInv, NEW w \in Workers, NEW r \in Row, Written(r), r.status # "Running",
         \A v \in Workers : v # w => pc'[v] = pc[v] /\ op'[v] = op[v],
         pc'[w] = "idle" \/ /\ op'[w].kind = op[w].kind /\ op'[w].loaded = op[w].loaded
                            /\ pc[w] \notin {"idle", "claimed"}
  PROVE  ActiveInv'
PROOF
  <1> DEFINE n == Len(rows)
  <1>1. /\ n \in Nat /\ Len(rows') = n + 1
        /\ \A k \in 1..n : rows'[k] = rows[k]
        /\ rows'[n + 1] = r
    BY AppendRow DEF Written, TypeInv, TypeOK
  <1> HIDE DEF n
  <1>2. RunningOK'
    BY <1>1 DEF ActiveInv, RunningOK, n
  <1>3. Latest(rows').status # "Running"
    BY <1>1 DEF Latest
  <1>4. ASSUME NEW v \in Workers
        PROVE  AtLatest(pc'[v], op'[v], rows')
    <2> SUFFICES ASSUME op'[v].kind = "input", pc'[v] \notin {"idle", "claimed"}
                 PROVE  op'[v].loaded # Len(rows')
      BY DEF AtLatest
    <2>1. /\ op'[v].kind = op[v].kind /\ op'[v].loaded = op[v].loaded
          /\ pc[v] \notin {"idle", "claimed"}
      <3>1. CASE v = w
        BY <3>1
      <3>2. CASE v # w
        BY <3>2
      <3>3. QED
        BY <3>1, <3>2
    <2>2. op[v].loaded \in 1..n
      BY <2>1 DEF TypeInv, WorkersOK, WorkerOK, n
    <2>3. QED
      BY <1>1, <2>1, <2>2
  <1>5. QED
    BY <1>2, <1>3, <1>4 DEF ActiveInv

\* A claim puts the latest row into the hands of the call that begins with it.
LEMMA StartKeepsActive ==
  ASSUME TypeInv, ActiveInv, NEW w \in Workers, Start(w)
  PROVE  ActiveInv'
PROOF
  <1>0. /\ pc \in [Workers -> PC] /\ op \in [Workers -> Op] /\ rows \in Seq(Row)
        /\ ~Live(w) /\ faults' = faults
        /\ \A v \in Workers : v # w => pc'[v] = pc[v] /\ op'[v] = op[v]
    BY StartTakesNumber DEF TypeInv, TypeOK
  <1>1. CASE StartResume(w) \/ \E n \in Starts : StartRun(w, n)
    <2>1. UNCHANGED rows /\ op'[w].kind # "input"
      BY <1>0, <1>1 DEF StartRun, StartResume, Begin, Move, NewOp
    <2>2. \A v \in Workers : HoldsClaim(pc[v], op[v], rows) => v # w
      BY <1>0 DEF HoldsClaim, Live
    <2>3. ASSUME NEW v \in Workers, AtLatest(pc[v], op[v], rows)
          PROVE  AtLatest(pc'[v], op'[v], rows)
      <3>1. CASE v = w
        BY <2>1, <3>1 DEF AtLatest
      <3>2. CASE v # w
        BY <1>0, <2>3, <3>2
      <3>3. QED
        BY <3>1, <3>2
    <2>4. \A v \in Workers : HoldsClaim(pc[v], op[v], rows) => HoldsClaim(pc'[v], op'[v], rows)
      BY <1>0, <2>2
    <2>5. RunningOK'
      BY <2>1 DEF ActiveInv, RunningOK
    <2>6. QED
      BY <1>0, <2>1, <2>3, <2>4, <2>5 DEF ActiveInv
  <1>2. CASE \E i \in Interrupts : StartClaim(w, i)
    <2>1. PICK i \in Interrupts : StartClaim(w, i)
      BY <1>2
    <2>2. /\ rows # <<>> /\ rows' = Claimed(rows, i) /\ Latest(rows).request = i
          /\ pc'[w] = "claimed" /\ op'[w].kind = "input" /\ op'[w].resolved = i
      BY <1>0, <2>1 DEF StartClaim, Claimable, Begin, Move, NewOp
    <2>3. /\ Len(rows') = Len(rows) /\ Len(rows) \in 1..Len(rows)
          /\ \A k \in 1..Len(rows) : k # Len(rows) => rows'[k] = rows[k]
          /\ rows'[Len(rows)].claimed = i
          /\ rows'[Len(rows)].request = rows[Len(rows)].request
      BY <1>0, <2>2, ClaimedRow
    <2>4. RunningOK'
      BY <2>2, <2>3 DEF ActiveInv, RunningOK, Latest
    <2>5. HoldsClaim(pc'[w], op'[w], rows')
      BY <2>2, <2>3 DEF HoldsClaim, Latest
    <2>6. ASSUME NEW v \in Workers, AtLatest(pc[v], op[v], rows)
          PROVE  AtLatest(pc'[v], op'[v], rows')
      <3>1. CASE v = w
        BY <2>2, <3>1 DEF AtLatest
      <3>2. CASE v # w
        BY <1>0, <2>3, <2>6, <3>2 DEF AtLatest, CurrentHead
      <3>3. QED
        BY <3>1, <3>2
    <2>7. QED
      BY <1>0, <2>4, <2>5, <2>6 DEF ActiveInv
  <1>3. QED
    BY <1>1, <1>2 DEF Start

\* Without a fault the holder of a claim keeps it; with one, nothing is said.
LEMMA ActiveInvNext ==
  ASSUME NoHandoffToEnd, SchemaInterrupts = {}, TypeInv, ActiveInv, [Next]_vars
  PROVE  ActiveInv'
PROOF
  <1>0. pc \in [Workers -> PC] /\ op \in [Workers -> Op] /\ rows \in Seq(Row) /\ faults \in Nat
    BY DEF TypeInv, TypeOK
  <1>1. ASSUME NEW w \in Workers, Start(w)
        PROVE  ActiveInv'
    BY <1>1, StartKeepsActive
  <1>2. ASSUME NEW w \in Workers, Step(w)
        PROVE  ActiveInv'
    <2>1. \A v \in Workers : v # w => pc'[v] = pc[v] /\ op'[v] = op[v]
      BY <1>2, WorkKeepsNumber
    <2>2. faults' = faults
      BY <1>2 DEF Step, LoadRejected, SchemaRejected, LoadClaimed, ReadHead, StepLimit, ReachEnd,
           InterruptAtGate, NodeNotFound, EnterNode, NodeOk, NodeYields, NodeRetries, NodeFails,
           SaveStep, SaveYield, SaveGate, SaveConflict, RevertHead, Revert, RevertConflict,
           Unchanged
    <2>3. CASE UNCHANGED rows
      <3>1. RunningOK'
        BY <2>3 DEF ActiveInv, RunningOK
      <3>2. CASE rows = <<>>
        <4>1. ASSUME NEW v \in Workers, faults = 0
              PROVE  AtLatest(pc'[v], op'[v], rows)
          <5>1. \A u \in Workers : pc'[u] \notin {"idle", "claimed"} /\ op'[u].kind = "input" =>
                  op'[u].loaded \in 1..Len(rows)
            BY <2>3, TypeInvNext, <1>2 DEF TypeInv, WorkersOK, WorkerOK, Next
          <5>2. QED
            BY <3>2, <5>1 DEF AtLatest
        <4>2. QED
          BY <2>2, <2>3, <3>1, <3>2, <4>1 DEF ActiveInv
      <3>3. CASE rows # <<>> /\ faults = 0
        <4>1. RunningOK /\ \A v \in Workers : AtLatest(pc[v], op[v], rows)
          BY <3>3 DEF ActiveInv
        <4>2. /\ AtLatest(pc'[w], op'[w], rows)
              /\ Latest(rows).status = "Running" /\ HoldsClaim(pc[w], op[w], rows) =>
                   HoldsClaim(pc'[w], op'[w], rows)
          BY <1>2, <2>3, <3>3, <4>1, HolderGoesOn
        <4>3. ASSUME NEW v \in Workers
              PROVE  /\ AtLatest(pc'[v], op'[v], rows)
                     /\ Latest(rows).status = "Running" /\ HoldsClaim(pc[v], op[v], rows) =>
                          HoldsClaim(pc'[v], op'[v], rows)
          <5>1. CASE v = w
            BY <4>2, <5>1
          <5>2. CASE v # w
            BY <2>1, <4>1, <5>2
          <5>3. QED
            BY <5>1, <5>2
        <4>4. Latest(rows).status = "Running" =>
                \E v \in Workers : HoldsClaim(pc[v], op[v], rows)
          BY <3>3 DEF ActiveInv
        <4>5. QED
          BY <2>3, <3>1, <4>3, <4>4 DEF ActiveInv
      <3>4. CASE faults # 0
        BY <2>2, <3>1, <3>4 DEF ActiveInv
      <3>5. QED
        BY <3>2, <3>3, <3>4
    <2>4. CASE WriteStep(w)
      <3>1. PICK r : OwnWrite(w, r)
        BY <2>4 DEF WriteStep
      <3>2. r \in Row /\ Written(r) /\ r.status # "Running"
        BY <3>1 DEF OwnWrite
      <3>3. pc'[w] = "idle" \/ /\ op'[w].kind = op[w].kind /\ op'[w].loaded = op[w].loaded
                               /\ pc[w] \notin {"idle", "claimed"}
        BY <1>2, <2>4, StepShapes DEF WriteStep, OwnWrite, Live
      <3>4. QED
        BY <2>1, <3>2, <3>3, WriteKeepsActive
    <2>5. QED
      BY <1>2, <2>3, <2>4, StepShapes DEF QuietStep, LoadClaimed
  <1>3. ASSUME NEW w \in Workers, Faulty(w)
        PROVE  ActiveInv'
    <2>1. faults' # 0
      BY <1>0, <1>3 DEF Faulty, Crash, StoreFails, AnswerLost, Fault
    <2>2. RunningOK'
      <3>1. CASE UNCHANGED rows
        BY <3>1 DEF ActiveInv, RunningOK
      <3>2. CASE \E r \in Row : Written(r) /\ r.status # "Running"
        <4>1. PICK r \in Row : rows' = Append(rows, r) /\ r.status # "Running"
          BY <3>2 DEF Written
        <4>2. QED
          BY <1>0, <4>1, AppendRow DEF ActiveInv, RunningOK
      <3>3. QED
        BY <1>3, <3>1, <3>2, FaultyShapes DEF QuietStep, OwnWrite
    <2>3. QED
      BY <2>1, <2>2 DEF ActiveInv
  <1>4. CASE UNCHANGED vars
    BY <1>4 DEF vars, ActiveInv, RunningOK
  <1>5. QED
    BY <1>1, <1>2, <1>3, <1>4 DEF Next

\* As long as no process dies and no store call fails, InProgress means what it
\* says, whoever calls what and whatever conflicts and errors there are: unless a
\* schema refuses the input, or a handoff goes straight to the end, a row in status
\* Running belongs to a call of resume_with_input that is still working.
THEOREM InProgressMeansActive ==
  ASSUME NoHandoffToEnd, SchemaInterrupts = {}
  PROVE  Spec => []InProgressIsActive
PROOF
  <1>1. Init => ActiveInv
    <2> SUFFICES ASSUME Init PROVE ActiveInv
      OBVIOUS
    <2>1. rows = <<>> /\ \A w \in Workers : pc[w] = "idle"
      BY DEF Init
    <2>2. QED
      BY <2>1 DEF ActiveInv, RunningOK, AtLatest
  <1>2. TypeInv /\ ActiveInv /\ [Next]_vars => (TypeInv /\ ActiveInv)'
    BY ActiveInvNext, TypeInvNext
  <1>3. ActiveInv => InProgressIsActive
    BY DEF ActiveInv, InProgressIsActive, HoldsClaim, Live
  <1>4. QED
    BY <1>1, <1>2, <1>3, TypeInvInit, PTL DEF Spec
-----------------------------------------------------------------------------
(* A store that compares heads.  HeadInv is the inductive invariant.             *)

Writing == {"loop", "call", "saveStep", "saveYield", "saveGate"}

\* Before a call knows a head it has written nothing.  From then on the head that
\* it expects is not ahead of the store; and if it is the store's, the call's
\* latest row, if any, is the store's latest row.
KnowsItsRows(at, o, s) ==
  /\ at \in {"claimed", "head", "revertHead"} => \A k \in 1..Len(s) : s[k].by # o.id
  /\ at \in {"claimed", "head"} => ~o.knowsHead
  /\ at \in Writing => o.knowsHead
  /\ at \in Writing \cup {"revert"} =>
       /\ o.expected <= Len(s)
       /\ o.expected = Len(s) =>
            \A k \in 1..Len(s) : s[k].by = o.id => s[Len(s)].by = o.id

HeadInv == /\ RunsContiguous
           /\ Numbered
           /\ \A w \in Workers : KnowsItsRows(pc[w], op[w], rows)

\* A step of a working call that writes nothing.
LEMMA HeadQuiet ==
  ASSUME TypeInv, HeadInv, Numbered', NEW w \in Workers, NEW to \in PC, NEW o \in Op,
         Live(w), Move(w, to, o), UNCHANGED <<rows, started>>,
         to = "idle" \/ (o.id = op[w].id /\ KnowsItsRows(to, o, rows))
  PROVE  HeadInv'
PROOF
  <1>1. /\ pc'[w] = to /\ op'[w] = o
        /\ \A v \in Workers : v # w => pc'[v] = pc[v] /\ op'[v] = op[v]
    BY DEF TypeInv, TypeOK, Move
  <1>2. RunsContiguous'
    BY DEF HeadInv, RunsContiguous
  <1>3. KnowsItsRows("idle", o, rows)
    BY DEF KnowsItsRows, Writing
  <1>4. \A v \in Workers : KnowsItsRows(pc'[v], op'[v], rows')
    BY <1>1, <1>3 DEF HeadInv
  <1>5. QED
    BY <1>2, <1>4 DEF HeadInv

\* A call that returns without a write leaves nothing that could matter later.
LEMMA HeadReturn ==
  ASSUME TypeInv, HeadInv, Numbered', NEW w \in Workers, Live(w), Return(w),
         UNCHANGED <<rows, started>>
  PROVE  HeadInv'
  BY ReturnIsMove, HeadQuiet

\* run_inner's error: the rollback starts from the head that the run knew, or
\* from a fresh one when it had not written anything yet.
LEMMA HeadFail ==
  ASSUME TypeInv, HeadInv, Numbered', NEW w \in Workers,
         pc[w] \in Writing \cup {"head"},
         Fail(w), UNCHANGED <<rows, started>>
  PROVE  HeadInv'
PROOF
  <1>1. Live(w) /\ KnowsItsRows(pc[w], op[w], rows) /\ op[w] \in Op
    BY DEF Live, Writing, HeadInv, TypeInv, TypeOK
  <1>2. CASE Return(w)
    BY <1>1, <1>2, HeadReturn
  <1>3. CASE Move(w, "revert", op[w]) /\ op[w].knowsHead
    <2>1. KnowsItsRows("revert", op[w], rows)
      BY <1>1, <1>3 DEF KnowsItsRows, Writing
    <2>2. QED
      BY <1>1, <1>3, <2>1, HeadQuiet DEF PC
  <1>4. CASE Move(w, "revertHead", op[w]) /\ ~op[w].knowsHead
    <2>1. KnowsItsRows("revertHead", op[w], rows)
      BY <1>1, <1>4 DEF KnowsItsRows, Writing
    <2>2. QED
      BY <1>1, <1>4, <2>1, HeadQuiet DEF PC
  <1>5. QED
    BY <1>2, <1>3, <1>4 DEF Fail

\* A bound write that the store accepts: the writer's rows so far end at the head
\* that it compared, and those of every other call are as before.
LEMMA HeadWrite ==
  ASSUME HasHead, TypeInv, HeadInv, Numbered', NEW w \in Workers,
         pc[w] \in Writing \cup {"revert"}, ~Conflicts(rows, op[w].expected),
         NEW to \in PC, NEW o \in Op, Move(w, to, o),
         NEW r \in Row, r.by = op[w].id, Written(r), UNCHANGED started,
         to = "idle" \/ (o.id = op[w].id /\ KnowsItsRows(to, o, rows'))
  PROVE  HeadInv'
PROOF
  <1> DEFINE n == Len(rows)
  <1>1. /\ n \in Nat /\ Len(rows') = n + 1 /\ rows' \in Seq(Row)
        /\ \A k \in 1..n : rows'[k] = rows[k]
        /\ rows'[n + 1] = r
        /\ \A k \in 1..(n + 1) : k \in 1..n \/ k = n + 1
    BY AppendRow DEF TypeInv, TypeOK, Written
  <1>2. /\ pc'[w] = to /\ op'[w] = o
        /\ \A v \in Workers : v # w => pc'[v] = pc[v] /\ op'[v] = op[v]
    BY DEF TypeInv, TypeOK, Move
  <1>3. Live(w) /\ KnowsItsRows(pc[w], op[w], rows) /\ op[w].expected = n
    BY DEF Live, Writing, HeadInv, Conflicts, CurrentHead
  <1>4. \A j \in 1..n : rows[j].by = r.by => \A k \in j..n : rows[k].by = r.by
    <2> SUFFICES ASSUME NEW j \in 1..n, rows[j].by = r.by, NEW k \in j..n
                 PROVE  rows[k].by = r.by
      OBVIOUS
    <2>1. rows[n].by = r.by /\ n \in 1..n
      BY <1>1, <1>3 DEF KnowsItsRows
    <2>2. QED
      BY <2>1 DEF HeadInv, RunsContiguous
  <1>5. RunsContiguous'
    <2> SUFFICES ASSUME NEW j \in 1..(n + 1), NEW l \in 1..(n + 1),
                        rows'[j].by = rows'[l].by, NEW k \in j..l
                 PROVE  rows'[k].by = rows'[j].by
      BY <1>1 DEF RunsContiguous
    <2>1. CASE l \in 1..n
      <3>1. j \in 1..n /\ k \in 1..n
        BY <1>1, <2>1
      <3>2. QED
        BY <1>1, <2>1, <3>1 DEF HeadInv, RunsContiguous
    <2>2. CASE l = n + 1 /\ k = n + 1
      BY <2>2
    <2>3. CASE l = n + 1 /\ k \in 1..n
      <3>1. j \in 1..n /\ k \in j..n /\ rows[j].by = r.by
        BY <1>1, <2>3
      <3>2. QED
        BY <1>1, <1>4, <2>3, <3>1
    <2>4. k \in 1..(n + 1)
      BY <1>1
    <2>5. QED
      BY <1>1, <2>1, <2>2, <2>3, <2>4
  <1>6. ASSUME NEW v \in Workers
        PROVE  KnowsItsRows(pc'[v], op'[v], rows')
    <2>1. CASE v = w
      BY <1>2, <2>1 DEF KnowsItsRows, Writing
    <2>2. CASE v # w /\ ~Live(v)
      BY <1>2, <2>2 DEF Live, KnowsItsRows, Writing
    <2>3. CASE v # w /\ Live(v)
      <3>1. KnowsItsRows(pc[v], op[v], rows) /\ op[v].id # r.by /\ op[v] \in Op
        BY <1>3, <2>3 DEF HeadInv, Numbered, TypeInv, TypeOK
      <3>2. pc[v] \in {"claimed", "head", "revertHead"} =>
              \A k \in 1..(n + 1) : rows'[k].by # op[v].id
        BY <1>1, <3>1 DEF KnowsItsRows
      <3>3. pc[v] \in Writing \cup {"revert"} =>
              op[v].expected <= n + 1 /\ op[v].expected # n + 1
        <4>1. op[v].expected \in Nat
          BY <3>1 DEF Op
        <4>2. pc[v] \in Writing \cup {"revert"} => op[v].expected <= n
          BY <3>1 DEF KnowsItsRows
        <4>3. QED
          <5> HIDE DEF n
          <5> QED BY <1>1, <4>1, <4>2
      <3>4. KnowsItsRows(pc[v], op[v], rows')
        BY <1>1, <3>1, <3>2, <3>3 DEF KnowsItsRows
      <3>5. QED
        BY <1>2, <2>3, <3>4
    <2>4. QED
      BY <2>1, <2>2, <2>3
  <1>7. QED
    BY <1>5, <1>6 DEF HeadInv

-----------------------------------------------------------------------------
(* HeadInv is inductive. *)

\* An empty thread has no rows and no calls.
LEMMA HeadInvInit == Init => HeadInv
  BY NumberedInit DEF Init, HeadInv, RunsContiguous, KnowsItsRows, Writing

\* A call begins with a number of its own; a claim does not move the head.
LEMMA HeadStart ==
  ASSUME TypeInv, TypeInv', HeadInv, Numbered', NEW w \in Workers, Start(w)
  PROVE  HeadInv'
PROOF
  <1> DEFINE n == Len(rows)
  <1>1. /\ op'[w].id = started + 1 /\ ~op'[w].knowsHead /\ pc'[w] \in {"head", "claimed"}
        /\ \A v \in Workers : v # w => pc'[v] = pc[v] /\ op'[v] = op[v]
        /\ Len(rows') = n /\ n \in Nat
        /\ \A k \in 1..n : rows'[k].by = rows[k].by
    BY StartTakesNumber
  <1> HIDE DEF n
  <1>2. RunsContiguous'
    <2> SUFFICES ASSUME NEW j \in 1..n, NEW l \in 1..n,
                        rows'[j].by = rows'[l].by, NEW k \in j..l
                 PROVE  rows'[k].by = rows'[j].by
      BY <1>1 DEF RunsContiguous
    <2>1. k \in 1..n
      BY <1>1
    <2>2. QED
      BY <1>1, <2>1 DEF HeadInv, RunsContiguous, n
  <1>3. ASSUME NEW v \in Workers
        PROVE  KnowsItsRows(pc'[v], op'[v], rows')
    <2>1. CASE v = w
      <3>1. \A k \in 1..n : rows'[k].by # started + 1
        <4> SUFFICES ASSUME NEW k \in 1..n PROVE rows[k].by # started + 1
          BY <1>1
        <4>1. rows[k].by <= started /\ started \in Nat
          BY DEF HeadInv, Numbered, TypeInv, TypeOK, n
        <4>2. QED
          BY <4>1
      <3>2. QED
        BY <1>1, <2>1, <3>1 DEF KnowsItsRows, Writing
    <2>2. CASE v # w
      <3>1. KnowsItsRows(pc[v], op[v], rows) /\ (n \in 1..n \/ n = 0)
        BY <1>1 DEF HeadInv
      <3>2. KnowsItsRows(pc[v], op[v], rows')
        BY <1>1, <3>1 DEF KnowsItsRows, n
      <3>3. QED
        BY <1>1, <2>2, <3>2
    <2>3. QED
      BY <2>1, <2>2
  <1>4. QED
    BY <1>2, <1>3 DEF HeadInv

\* The steps of a call.
LEMMA HeadStep ==
  ASSUME HasHead, TypeInv, TypeInv', HeadInv, Numbered', NEW w \in Workers, Step(w)
  PROVE  HeadInv'
PROOF
  <1> USE DEF PC
  <1>0. /\ op[w] \in Op /\ op'[w] \in Op /\ rows \in Seq(Row) /\ Len(rows) \in Nat
        /\ KnowsItsRows(pc[w], op[w], rows)
    BY DEF TypeInv, TypeOK, HeadInv
  <1>1. CASE LoadRejected(w)
    BY <1>1, HeadReturn DEF LoadRejected, Live, Unchanged
  <1>2. CASE SchemaRejected(w)
    BY <1>2, HeadReturn DEF SchemaRejected, Live, Unchanged
  <1>3. CASE LoadClaimed(w)
    <2>1. PICK n, b : Move(w, "head", [op[w] EXCEPT !.loaded = Len(rows), !.basis = Len(rows),
                                                    !.node = n, !.input = b])
      BY <1>3 DEF LoadClaimed
    <2>2. pc[w] = "claimed" /\ Live(w) /\ UNCHANGED <<rows, started>>
      BY <1>3 DEF LoadClaimed, Live, Unchanged
    <2>3. op'[w] = [op[w] EXCEPT !.loaded = Len(rows), !.basis = Len(rows),
                                 !.node = n, !.input = b]
      BY <2>1 DEF Move, TypeInv, TypeOK
    <2>4. op'[w].id = op[w].id /\ op'[w].knowsHead = op[w].knowsHead
      BY <1>0, <2>3 DEF Op
    <2>5. KnowsItsRows("head", op'[w], rows)
      BY <1>0, <2>2, <2>4 DEF KnowsItsRows, Writing
    <2>6. QED
      BY <1>0, <2>1, <2>2, <2>3, <2>4, <2>5, HeadQuiet
  <1>4. CASE ReadHead(w)
    <2>1. Move(w, "loop", [op[w] EXCEPT !.expected = CurrentHead(rows), !.knowsHead = TRUE])
      BY <1>4 DEF ReadHead
    <2>2. pc[w] = "head" /\ Live(w) /\ UNCHANGED <<rows, started>>
      BY <1>4 DEF ReadHead, Live, Unchanged
    <2>3. op'[w] = [op[w] EXCEPT !.expected = CurrentHead(rows), !.knowsHead = TRUE]
      BY <2>1 DEF Move, TypeInv, TypeOK
    <2>4. op'[w].id = op[w].id /\ op'[w].knowsHead /\ op'[w].expected = Len(rows)
      BY <1>0, <2>3 DEF Op, CurrentHead
    <2>5. KnowsItsRows("loop", op'[w], rows)
      BY <1>0, <2>2, <2>4 DEF KnowsItsRows, Writing
    <2>6. QED
      BY <1>0, <2>1, <2>2, <2>3, <2>4, <2>5, HeadQuiet
  <1>5. CASE StepLimit(w)
    BY <1>5, HeadFail DEF StepLimit, Writing, Unchanged
  <1>6. CASE ReachEnd(w)
    BY <1>6, HeadReturn DEF ReachEnd, Live, Unchanged
  <1>7. CASE InterruptAtGate(w)
    <2> DEFINE o == op[w]
    <2>1. Move(w, "saveGate", o) /\ UNCHANGED <<rows, started>> /\ Live(w)
      BY <1>7 DEF InterruptAtGate, Live, Unchanged
    <2>2. op'[w] = o
      BY <2>1 DEF Move, TypeInv, TypeOK
    <2>3. op'[w].id = op[w].id /\ op'[w].expected = op[w].expected /\ op'[w].knowsHead = op[w].knowsHead
      BY <1>0, <2>2 DEF Op
    <2>4. KnowsItsRows("saveGate", op'[w], rows)
      BY <1>0, <1>7, <2>3 DEF InterruptAtGate, KnowsItsRows, Writing
    <2>5. QED
      BY <1>0, <2>1, <2>2, <2>3, <2>4, HeadQuiet
  <1>8. CASE NodeNotFound(w)
    BY <1>8, HeadFail DEF NodeNotFound, Writing, Unchanged
  <1>9. CASE EnterNode(w)
    <2> DEFINE o == [op[w] EXCEPT !.steps = @ + 1, !.attempt = 0]
    <2>1. Move(w, "call", o) /\ UNCHANGED <<rows, started>> /\ Live(w)
      BY <1>9 DEF EnterNode, Live, Unchanged
    <2>2. op'[w] = o
      BY <2>1 DEF Move, TypeInv, TypeOK
    <2>3. op'[w].id = op[w].id /\ op'[w].expected = op[w].expected /\ op'[w].knowsHead = op[w].knowsHead
      BY <1>0, <2>2 DEF Op
    <2>4. KnowsItsRows("call", op'[w], rows)
      BY <1>0, <1>9, <2>3 DEF EnterNode, KnowsItsRows, Writing
    <2>5. QED
      BY <1>0, <2>1, <2>2, <2>3, <2>4, HeadQuiet
  <1>10. CASE NodeOk(w)
    <2>1. PICK x : Move(w, "saveStep", [Taken(op[w]) EXCEPT !.next = x])
      BY <1>10 DEF NodeOk
    <2>2. pc[w] = "call" /\ Live(w) /\ UNCHANGED <<rows, started>>
      BY <1>10 DEF NodeOk, Live, Unchanged
    <2>3. op'[w] = [Taken(op[w]) EXCEPT !.next = x]
      BY <2>1 DEF Move, TypeInv, TypeOK
    <2>4. op'[w].id = op[w].id /\ op'[w].expected = op[w].expected /\ op'[w].knowsHead = op[w].knowsHead
      BY <1>0, <2>3 DEF Op, Taken
    <2>5. KnowsItsRows("saveStep", op'[w], rows)
      BY <1>0, <2>2, <2>4 DEF KnowsItsRows, Writing
    <2>6. QED
      BY <1>0, <2>1, <2>2, <2>3, <2>4, <2>5, HeadQuiet
  <1>11. CASE NodeYields(w)
    <2>1. PICK x : Move(w, "saveYield", [Taken(op[w]) EXCEPT !.request = x])
      BY <1>11 DEF NodeYields
    <2>2. pc[w] = "call" /\ Live(w) /\ UNCHANGED <<rows, started>>
      BY <1>11 DEF NodeYields, Live, Unchanged
    <2>3. op'[w] = [Taken(op[w]) EXCEPT !.request = x]
      BY <2>1 DEF Move, TypeInv, TypeOK
    <2>4. op'[w].id = op[w].id /\ op'[w].expected = op[w].expected /\ op'[w].knowsHead = op[w].knowsHead
      BY <1>0, <2>3 DEF Op, Taken
    <2>5. KnowsItsRows("saveYield", op'[w], rows)
      BY <1>0, <2>2, <2>4 DEF KnowsItsRows, Writing
    <2>6. QED
      BY <1>0, <2>1, <2>2, <2>3, <2>4, <2>5, HeadQuiet
  <1>12. CASE NodeRetries(w)
    <2> DEFINE o == [Taken(op[w]) EXCEPT !.attempt = @ + 1]
    <2>1. Move(w, "call", o) /\ UNCHANGED <<rows, started>> /\ Live(w)
      BY <1>12 DEF NodeRetries, Live, Unchanged
    <2>2. op'[w] = o
      BY <2>1 DEF Move, TypeInv, TypeOK
    <2>3. op'[w].id = op[w].id /\ op'[w].expected = op[w].expected /\ op'[w].knowsHead = op[w].knowsHead
      BY <1>0, <2>2 DEF Op, Taken
    <2>4. KnowsItsRows("call", op'[w], rows)
      BY <1>0, <1>12, <2>3 DEF NodeRetries, KnowsItsRows, Writing
    <2>5. QED
      BY <1>0, <2>1, <2>2, <2>3, <2>4, HeadQuiet
  <1>13. CASE NodeFails(w)
    BY <1>13, HeadFail DEF NodeFails, Writing, Unchanged
  <1>14. CASE SaveStep(w)
    <2> DEFINE r == StepRow(op[w].next, op[w].resolved, op[w].basis, op[w].id)
    <2>1. r \in Row /\ r.by = op[w].id
      BY <1>14, PendingRowsOK DEF SaveStep, StepRow
    <2>2. /\ pc[w] \in Writing \cup {"revert"} /\ ~Conflicts(rows, op[w].expected)
          /\ Written(r) /\ UNCHANGED started
      BY <1>14 DEF SaveStep, Writing, Unchanged
    <2>3. CASE Return(w)
      <3> HIDE DEF r
      <3> QED BY <2>1, <2>2, <2>3, ReturnIsMove, HeadWrite
    <2>4. CASE Move(w, "loop", [op[w] EXCEPT !.node = op[w].next, !.basis = Len(rows) + 1,
                                             !.expected = CurrentHead(rows'), !.next = End])
      <3> HIDE DEF r
      <3>1. op'[w] = [op[w] EXCEPT !.node = op[w].next, !.basis = Len(rows) + 1,
                                   !.expected = CurrentHead(rows'), !.next = End]
        BY <2>4 DEF Move, TypeInv, TypeOK
      <3>2. /\ Len(rows') = Len(rows) + 1 /\ rows'[Len(rows) + 1].by = op[w].id
        BY <1>0, <2>1, <2>2, AppendRow DEF Written
      <3>3. /\ op'[w].id = op[w].id /\ op'[w].knowsHead = op[w].knowsHead
            /\ op'[w].expected = Len(rows) + 1
        BY <1>0, <3>1, <3>2 DEF Op, CurrentHead
      <3>4. op[w].knowsHead
        BY <1>0, <1>14 DEF SaveStep, KnowsItsRows, Writing
      <3>5. KnowsItsRows("loop", op'[w], rows')
        BY <1>0, <3>2, <3>3, <3>4 DEF KnowsItsRows, Writing
      <3>6. QED
        BY <1>0, <2>1, <2>2, <2>4, <3>1, <3>3, <3>5, HeadWrite
    <2>5. QED
      BY <1>14, <2>3, <2>4 DEF SaveStep
  <1>15. CASE SaveYield(w)
    <2> DEFINE r == YieldRow(op[w].node, op[w].request, op[w].basis, op[w].id)
    <2>1. r \in Row /\ r.by = op[w].id
      BY <1>15, PendingRowsOK DEF SaveYield, YieldRow
    <2>2. /\ pc[w] \in Writing \cup {"revert"} /\ ~Conflicts(rows, op[w].expected)
          /\ Written(r) /\ Return(w) /\ UNCHANGED started
      BY <1>15 DEF SaveYield, Writing, Unchanged
    <2>3. QED
      <3> HIDE DEF r
      <3> QED BY <2>1, <2>2, ReturnIsMove, HeadWrite
  <1>16. CASE SaveGate(w)
    <2> DEFINE r == GateRow(op[w].node, op[w].resolved, op[w].basis, op[w].id)
    <2>1. r \in Row /\ r.by = op[w].id
      BY <1>16, PendingRowsOK DEF SaveGate, GateRow
    <2>2. /\ pc[w] \in Writing \cup {"revert"} /\ ~Conflicts(rows, op[w].expected)
          /\ Written(r) /\ Return(w) /\ UNCHANGED started
      BY <1>16 DEF SaveGate, Writing, Unchanged
    <2>3. QED
      <3> HIDE DEF r
      <3> QED BY <2>1, <2>2, ReturnIsMove, HeadWrite
  <1>17. CASE SaveConflict(w)
    BY <1>17, HeadFail DEF SaveConflict, Writing, Unchanged, Saving
  <1>18. CASE RevertHead(w)
    <2>1. Move(w, "revert", [op[w] EXCEPT !.expected = CurrentHead(rows)])
      BY <1>18 DEF RevertHead
    <2>2. pc[w] = "revertHead" /\ Live(w) /\ UNCHANGED <<rows, started>>
      BY <1>18 DEF RevertHead, Live, Unchanged
    <2>3. op'[w] = [op[w] EXCEPT !.expected = CurrentHead(rows)]
      BY <2>1 DEF Move, TypeInv, TypeOK
    <2>4. op'[w].id = op[w].id /\ op'[w].expected = Len(rows)
      BY <1>0, <2>3 DEF Op, CurrentHead
    <2>5. KnowsItsRows("revert", op'[w], rows)
      BY <1>0, <2>2, <2>4 DEF KnowsItsRows, Writing
    <2>6. QED
      BY <1>0, <2>1, <2>2, <2>3, <2>4, <2>5, HeadQuiet
  <1>19. CASE Revert(w)
    <2> DEFINE r == RollbackRow(rows[op[w].loaded], op[w].loaded, op[w].id)
    <2>1. r \in Row /\ r.by = op[w].id
      BY <1>19, PendingRowsOK DEF Revert, RollbackRow
    <2>2. /\ pc[w] \in Writing \cup {"revert"} /\ ~Conflicts(rows, op[w].expected)
          /\ Written(r) /\ Return(w) /\ UNCHANGED started
      BY <1>19 DEF Revert, Writing, Unchanged
    <2>3. QED
      <3> HIDE DEF r
      <3> QED BY <2>1, <2>2, ReturnIsMove, HeadWrite
  <1>20. CASE RevertConflict(w)
    BY <1>20, HeadReturn DEF RevertConflict, Live, Unchanged
  <1>21. QED
    BY <1>1, <1>2, <1>3, <1>4, <1>5, <1>6, <1>7, <1>8, <1>9, <1>10, <1>11, <1>12, <1>13, <1>14, <1>15, <1>16, <1>17, <1>18, <1>19, <1>20 DEF Step

\* After a lost answer the call's own row stands in the way of its rollback.
LEMMA HeadFaulty ==
  ASSUME HasHead, TypeInv, TypeInv', HeadInv, Numbered', NEW w \in Workers, Faulty(w)
  PROVE  HeadInv'
PROOF
  <1>0. /\ op[w] \in Op /\ rows \in Seq(Row) /\ Len(rows) \in Nat
        /\ KnowsItsRows(pc[w], op[w], rows)
    BY DEF TypeInv, TypeOK, HeadInv
  <1>1. CASE Crash(w)
    BY <1>1, HeadReturn DEF Crash, Fault
  <1>2. CASE StoreFails(w)
    BY <1>2, HeadReturn, HeadFail DEF StoreFails, Saving, Live, Writing, Fault
  <1>3. CASE AnswerLost(w)
    <2> DEFINE r == PendingRow(w)
    <2>1. r \in Row /\ r.by = op[w].id
      BY <1>3, PendingRowsOK
         DEF AnswerLost, Saving, PendingRow, StepRow, YieldRow, GateRow, RollbackRow
    <2>2. /\ pc[w] \in Writing \cup {"revert"} /\ ~Conflicts(rows, op[w].expected)
          /\ Written(r) /\ UNCHANGED started
      BY <1>3 DEF AnswerLost, Saving, Writing, Fault
    <2> HIDE DEF r
    <2>3. Len(rows') = Len(rows) + 1
      BY <1>0, <2>1, <2>2, AppendRow DEF Written
    <2>4. CASE Return(w)
      BY <2>1, <2>2, <2>4, ReturnIsMove, HeadWrite
    <2>5. CASE Saving(w) /\ Fail(w) /\ op[w].kind = "input"
      <3>1. op[w].knowsHead /\ op[w].expected <= Len(rows) /\ op[w].expected \in Nat
        BY <1>0, <2>5 DEF Saving, KnowsItsRows, Writing, Op
      <3>2. Move(w, "revert", op[w])
        BY <2>5, <3>1 DEF Fail
      <3>3. KnowsItsRows("revert", op[w], rows')
        BY <1>0, <2>3, <3>1 DEF KnowsItsRows, Writing
      <3>4. QED
        BY <1>0, <2>1, <2>2, <3>2, <3>3, HeadWrite DEF PC
    <2>6. QED
      BY <1>3, <2>4, <2>5 DEF AnswerLost, Fail
  <1>4. QED
    BY <1>1, <1>2, <1>3 DEF Faulty

\* The rows of one call and of its rollback are consecutive, whoever else calls,
\* crashes, or misses an answer: no call writes behind a row of another one.
THEOREM CallsStayTogether ==
  ASSUME HasHead
  PROVE  Spec => []RunsContiguous
PROOF
  <1>1. Init => TypeInv /\ HeadInv
    BY TypeInvInit, HeadInvInit
  <1>2. TypeInv /\ HeadInv /\ [Next]_vars => (TypeInv /\ HeadInv)'
    <2> SUFFICES ASSUME TypeInv, HeadInv, [Next]_vars PROVE (TypeInv /\ HeadInv)'
      OBVIOUS
    <2>1. TypeInv' /\ Numbered'
      BY TypeInvNext, NumberedNext DEF HeadInv
    <2>2. CASE Next
      BY <2>1, <2>2, HeadStart, HeadStep, HeadFaulty DEF Next
    <2>3. CASE UNCHANGED vars
      BY <2>1, <2>3 DEF vars, HeadInv, RunsContiguous, Numbered, Live, KnowsItsRows
    <2>4. QED
      BY <2>1, <2>2, <2>3
  <1>3. TypeInv /\ HeadInv => RunsContiguous
    BY DEF HeadInv
  <1>4. QED
    BY <1>1, <1>2, <1>3, PTL DEF Spec
=============================================================================

------------------------ MODULE SingleWriterProofs ------------------------
(***************************************************************************)
(* What holds when callers keep run and resume to a quiet thread, make any *)
(* number of resume_with_input calls at any time, and the store reports    *)
(* every write that it commits: one worker at a time, nothing overwritten, *)
(* each interrupt resolved by one call, the promise of InterruptLifecycle. *)
(* Crashes and failing store calls are included.                           *)
(***************************************************************************)
EXTENDS ThreadRunsProofs

\* The claim on the latest row has not been resolved, and only a row in status
\* Running carries a claim.
ClaimsOpen ==
  \A k \in 1..Len(rows) :
    rows[k].claimed # NoInterrupt =>
      /\ rows[k].status = "Running"
      /\ k = Len(rows) => ~Resolved(rows, rows[k].claimed)

\* What a working call may rely on, `s` being the rows: the latest row is not
\* one that another call could claim; the call computes from the latest row;
\* all rows since the one that it claimed are its own; and the interrupt that
\* it resolves is either still claimed on the latest row or resolved by it.
WorkerAlone(at, o, s) ==
  at # "idle" =>
    /\ o.kind = "input" => s # <<>> /\ Latest(s).status # "Yielded"
    /\ at # "claimed" => o.basis \in {0, Len(s)}
    /\ at # "claimed" /\ o.kind = "input" =>
         \A j \in (o.loaded + 1)..Len(s) : s[j].by = o.id
    /\ o.resolved # NoInterrupt =>
         /\ \A k \in 1..Len(s) : s[k].resolved = o.resolved => s[k].by = o.id
         /\ \/ s # <<>> /\ Latest(s).status = "Running" /\ Latest(s).claimed = o.resolved
            \/ Resolved(s, o.resolved)

RowsInv == NothingOverwritten /\ ResolvedOnce /\ ClaimsOpen

AloneInv == /\ SingleWorker
            /\ \A w \in Workers : WorkerAlone(pc[w], op[w], rows)
            /\ RowsInv

Inv == TypeInv /\ AloneInv

\* A step of a worker that is alone preserves AloneInv if it leaves that worker
\* and the rows sound: the others are idle and stay so.
LEMMA AloneMove ==
  ASSUME TypeInv, AloneInv, NEW w \in Workers, NEW to \in PC, NEW o \in Op,
         \A v \in Workers : Live(v) => v = w,
         Move(w, to, o), WorkerAlone(to, o, rows'), RowsInv'
  PROVE  AloneInv'
PROOF
  <1>1. \A v \in Workers : v # w => pc'[v] = pc[v] /\ pc[v] = "idle"
    BY DEF TypeInv, TypeOK, Move, Live
  <1>2. pc'[w] = to /\ op'[w] = o
    BY DEF TypeInv, TypeOK, Move
  <1>3. SingleWorker'
    BY <1>1 DEF SingleWorker, Live
  <1>4. ASSUME NEW v \in Workers
        PROVE  WorkerAlone(pc'[v], op'[v], rows')
    <2>1. CASE v = w
      BY <1>2, <2>1
    <2>2. CASE v # w
      BY <1>1, <2>2 DEF WorkerAlone
    <2>3. QED
      BY <2>1, <2>2
  <1>5. QED
    BY <1>3, <1>4 DEF AloneInv

\* A step that writes nothing and keeps the call's identity.
LEMMA AloneQuiet ==
  ASSUME TypeInv, AloneInv, NEW w \in Workers, NEW to \in PC, NEW o \in Op,
         Live(w), pc[w] # "claimed", Move(w, to, o), UNCHANGED rows,
         to = "idle" \/ (to # "claimed" /\ SameCall(o, op[w]))
  PROVE  AloneInv'
PROOF
  <1>1. WorkerAlone(pc[w], op[w], rows) /\ pc[w] # "idle"
    BY DEF AloneInv, Live
  <1>2. WorkerAlone(to, o, rows)
    BY <1>1 DEF WorkerAlone, SameCall
  <1>3. RowsInv' /\ WorkerAlone(to, o, rows')
    BY <1>2 DEF AloneInv, RowsInv, NothingOverwritten, ResolvedOnce, ClaimsOpen
  <1>4. \A v \in Workers : Live(v) => v = w
    BY DEF AloneInv, SingleWorker
  <1>5. QED
    BY <1>3, <1>4, AloneMove

\* Returning without a write.
LEMMA AloneReturn ==
  ASSUME TypeInv, AloneInv, NEW w \in Workers, Live(w), Return(w), UNCHANGED rows
  PROVE  AloneInv'
PROOF
  <1>1. Move(w, "idle", NoOp) /\ "idle" \in PC /\ NoOp \in Op
    BY ReturnIsMove
  <1>2. RowsInv' /\ WorkerAlone("idle", NoOp, rows')
    BY DEF AloneInv, RowsInv, NothingOverwritten, ResolvedOnce, ClaimsOpen, WorkerAlone
  <1>3. \A v \in Workers : Live(v) => v = w
    BY DEF AloneInv, SingleWorker
  <1>4. QED
    BY <1>1, <1>2, <1>3, AloneMove

\* run_inner's error, whatever follows it.
LEMMA AloneFail ==
  ASSUME TypeInv, AloneInv, NEW w \in Workers, Live(w), pc[w] # "claimed",
         Fail(w), UNCHANGED rows
  PROVE  AloneInv'
PROOF
  <1>1. CASE Return(w)
    BY <1>1, AloneReturn
  <1>2. CASE op[w].kind = "input"
    <2>1. PICK to \in {"revert", "revertHead"} : Move(w, to, op[w])
      BY <1>2 DEF Fail
    <2>2. op[w] \in Op /\ to \in PC
      BY DEF TypeInv, TypeOK, PC
    <2>3. QED
      BY <2>1, <2>2, AloneQuiet DEF SameCall
  <1>3. QED
    BY <1>1, <1>2 DEF Fail

-----------------------------------------------------------------------------
(* Writing. *)

\* A row keeps RowsInv if it is its writer's own: computed from the latest row,
\* or after a run of rows of the same call, and resolving at most the call's
\* interrupt.
OwnRow(w, r) ==
  /\ r.claimed = NoInterrupt
  /\ r.by = op[w].id
  /\ r.resolved \in {NoInterrupt, op[w].resolved}
  /\ r.basis # 0 => \A j \in (r.basis + 1)..Len(rows) : rows[j].by = r.by

\* An accepted bound write keeps the rows sound if the new row is: nobody else's row
\* lies above its basis, and an interrupt it resolves is resolved by this call.
LEMMA WriteKeepsRows ==
  ASSUME TypeInv, AloneInv, NEW w \in Workers, Live(w),
         NEW r \in Row, OwnRow(w, r), Written(r)
  PROVE  RowsInv'
PROOF
  <1> DEFINE n == Len(rows)
  <1>1. /\ n \in Nat /\ rows' \in Seq(Row) /\ Len(rows') = n + 1
        /\ \A k \in 1..n : rows'[k] = rows[k] /\ rows[k] \in Row
        /\ rows'[n + 1] = r
        /\ \A k \in 1..(n + 1) : k \in 1..n \/ k = n + 1
    BY AppendRow DEF TypeInv, TypeOK, Written
  <1>2. NothingOverwritten'
    <2> SUFFICES ASSUME NEW k \in 1..(n + 1), rows'[k].basis # 0,
                        NEW j \in (rows'[k].basis + 1)..(k - 1)
                 PROVE  rows'[j].by = rows'[k].by
      BY <1>1 DEF NothingOverwritten
    <2>1. CASE k \in 1..n
      <3>1. rows[k].basis \in Nat /\ rows'[k] = rows[k]
        BY <1>1, <2>1 DEF Row
      <3>2. j \in 1..n /\ j \in (rows[k].basis + 1)..(k - 1)
        BY <1>1, <2>1, <3>1
      <3>3. rows[j].by = rows[k].by
        BY <2>1, <3>1, <3>2 DEF AloneInv, RowsInv, NothingOverwritten
      <3>4. QED
        BY <1>1, <3>1, <3>2, <3>3
    <2>2. CASE k = n + 1
      <3>1. rows'[k] = r /\ r.basis \in Nat
        BY <1>1, <2>2 DEF Row
      <3>2. j \in 1..n /\ j \in (r.basis + 1)..n
        BY <1>1, <2>2, <3>1
      <3>3. rows[j].by = r.by
        BY <3>1, <3>2 DEF OwnRow
      <3>4. QED
        BY <1>1, <3>1, <3>2, <3>3
    <2>3. QED
      BY <1>1, <2>1, <2>2
  <1>3. ResolvedOnce'
    <2>1. \A k \in 1..n :
            rows[k].resolved = r.resolved /\ r.resolved # NoInterrupt
              => rows[k].by = r.by
      BY <1>1 DEF OwnRow, AloneInv, WorkerAlone, Live
    <2>2. \A j, k \in 1..n :
            rows[j].resolved = rows[k].resolved /\ rows[j].resolved # NoInterrupt
              => rows[j].by = rows[k].by
      BY DEF AloneInv, RowsInv, ResolvedOnce
    <2>3. QED
      BY <1>1, <2>1, <2>2 DEF ResolvedOnce
  <1>4. ClaimsOpen'
    <2> SUFFICES ASSUME NEW k \in 1..(n + 1), rows'[k].claimed # NoInterrupt
                 PROVE  rows'[k].status = "Running" /\ k # n + 1
      BY <1>1 DEF ClaimsOpen
    <2>1. k \in 1..n
      BY <1>1 DEF OwnRow
    <2>2. QED
      BY <1>1, <2>1 DEF AloneInv, RowsInv, ClaimsOpen
  <1>5. QED
    BY <1>2, <1>3, <1>4 DEF RowsInv

\* The rows that a worker may save are its own.
LEMMA PendingRowsOwn ==
  ASSUME TypeInv, AloneInv, NEW w \in Workers
  PROVE  /\ pc[w] = "saveStep" => OwnRow(w, StepRow(op[w].next, op[w].resolved, op[w].basis, op[w].id))
         /\ pc[w] = "saveYield" => OwnRow(w, YieldRow(op[w].node, op[w].request, op[w].basis, op[w].id))
         /\ pc[w] = "saveGate" => OwnRow(w, GateRow(op[w].node, op[w].resolved, op[w].basis, op[w].id))
         /\ pc[w] = "revert" => OwnRow(w, RollbackRow(rows[op[w].loaded], op[w].loaded, op[w].id))
PROOF
  <1>1. /\ op[w] \in Op /\ Len(rows) \in Nat
        /\ WorkerAlone(pc[w], op[w], rows) /\ WorkerOK(pc[w], op[w], rows)
    BY DEF TypeInv, TypeOK, WorkersOK, AloneInv
  <1>2. pc[w] \in {"saveStep", "saveYield", "saveGate"} /\
          op[w].basis # 0 => \A j \in (op[w].basis + 1)..Len(rows) : rows[j].by = op[w].id
    BY <1>1 DEF WorkerAlone
  <1>3. pc[w] = "revert" => \A j \in (op[w].loaded + 1)..Len(rows) : rows[j].by = op[w].id
    BY <1>1 DEF WorkerAlone, WorkerOK
  <1>4. pc[w] = "saveStep" => OwnRow(w, StepRow(op[w].next, op[w].resolved, op[w].basis, op[w].id))
    BY <1>2 DEF OwnRow, StepRow
  <1>5. pc[w] = "saveYield" => OwnRow(w, YieldRow(op[w].node, op[w].request, op[w].basis, op[w].id))
    BY <1>2 DEF OwnRow, YieldRow
  <1>6. pc[w] = "saveGate" => OwnRow(w, GateRow(op[w].node, op[w].resolved, op[w].basis, op[w].id))
    BY <1>2 DEF OwnRow, GateRow
  <1>7. pc[w] = "revert" => OwnRow(w, RollbackRow(rows[op[w].loaded], op[w].loaded, op[w].id))
    BY <1>3 DEF OwnRow, RollbackRow
  <1>8. QED
    BY <1>4, <1>5, <1>6, <1>7

\* A write after which the call returns.
LEMMA AloneLastWrite ==
  ASSUME TypeInv, AloneInv, NEW w \in Workers, Live(w),
         NEW r \in Row, OwnRow(w, r), Written(r), Return(w)
  PROVE  AloneInv'
PROOF
  <1>1. Move(w, "idle", NoOp) /\ "idle" \in PC /\ NoOp \in Op
    BY ReturnIsMove
  <1>2. RowsInv'
    BY WriteKeepsRows
  <1>3. WorkerAlone("idle", NoOp, rows')
    BY DEF WorkerAlone
  <1>4. \A v \in Workers : Live(v) => v = w
    BY DEF AloneInv, SingleWorker
  <1>5. QED
    BY <1>1, <1>2, <1>3, <1>4, AloneMove

\* A step's checkpoint after which the call goes on.
LEMMA AloneStepWrite ==
  ASSUME TypeInv, AloneInv, NEW w \in Workers, pc[w] = "saveStep",
         NEW o \in Op, Move(w, "loop", o),
         Written(StepRow(op[w].next, op[w].resolved, op[w].basis, op[w].id)),
         o.kind = op[w].kind, o.id = op[w].id, o.resolved = op[w].resolved,
         o.loaded = op[w].loaded, o.basis = Len(rows) + 1
  PROVE  AloneInv'
PROOF
  <1> DEFINE r == StepRow(op[w].next, op[w].resolved, op[w].basis, op[w].id)
             n == Len(rows)
  <1>1. r \in Row /\ OwnRow(w, r) /\ Live(w)
    BY PendingRowsOK, PendingRowsOwn DEF Live
  <1>2. RowsInv'
    BY <1>1, WriteKeepsRows
  <1>3. r.status = "Complete" /\ r.resolved = op[w].resolved /\ r.by = op[w].id
    BY DEF StepRow
  <1> HIDE DEF r
  <1>4. /\ n \in Nat /\ rows' # <<>> /\ Len(rows') = n + 1 /\ Latest(rows') = r
        /\ rows'[n + 1] = r
        /\ \A k \in 1..n : rows'[k] = rows[k]
        /\ \A k \in 1..(n + 1) : k \in 1..n \/ k = n + 1
    BY <1>1, AppendRow DEF TypeInv, TypeOK, Written, Latest, r
  <1>5. WorkerAlone(pc[w], op[w], rows) /\ op[w] \in Op
    BY DEF AloneInv, TypeInv, TypeOK
  <1>6. o.kind = "input" => \A j \in (o.loaded + 1)..(n + 1) : rows'[j].by = o.id
    <2> SUFFICES ASSUME o.kind = "input", NEW j \in (o.loaded + 1)..(n + 1)
                 PROVE  rows'[j].by = o.id
      OBVIOUS
    <2>1. o.loaded \in Nat /\ (j \in (o.loaded + 1)..n \/ j = n + 1) /\ j \in 1..(n + 1)
      BY <1>4 DEF Op
    <2>2. QED
      BY <1>3, <1>4, <1>5, <2>1 DEF WorkerAlone
  <1>7. o.resolved # NoInterrupt =>
          \A k \in 1..(n + 1) : rows'[k].resolved = o.resolved => rows'[k].by = o.id
    BY <1>3, <1>4, <1>5 DEF WorkerAlone
  <1>8. Resolved(rows', o.resolved)
    BY <1>3, <1>4 DEF Resolved
  <1>9. WorkerAlone("loop", o, rows')
    BY <1>3, <1>4, <1>6, <1>7, <1>8 DEF WorkerAlone
  <1>10. \A v \in Workers : Live(v) => v = w
    BY <1>1 DEF AloneInv, SingleWorker
  <1>11. QED
    BY <1>2, <1>9, <1>10, AloneMove DEF PC

-----------------------------------------------------------------------------
(* AloneInv is inductive. *)

\* Nobody works on an empty thread.
LEMMA AloneInvInit == Init => AloneInv
  BY DEF Init, AloneInv, SingleWorker, Live, WorkerAlone, RowsInv,
         NothingOverwritten, ResolvedOnce, ClaimsOpen

\* Quiet workers leave room for any call; a claim needs a row that no working
\* call leaves behind, so the claimant is alone as well.
LEMMA AloneStart ==
  ASSUME Exclusive, TypeInv, TypeInv', AloneInv, NEW w \in Workers, Start(w)
  PROVE  AloneInv'
PROOF
  <1>0. rows \in Seq(Row) /\ op'[w] \in Op
    BY DEF TypeInv, TypeOK
  <1>1. CASE \E n \in Starts : StartRun(w, n)
    <2>1. PICK n \in Starts : StartRun(w, n)
      BY <1>1
    <2> DEFINE o == NewOp("run", started + 1, n, NoInterrupt, 0)
    <2>2. Move(w, "head", o) /\ UNCHANGED rows /\ Quiet
      BY <2>1 DEF StartRun, Begin
    <2>3. o \in Op
      BY <1>0, <2>2 DEF Move, TypeInv, TypeOK
    <2>4. WorkerAlone("head", o, rows')
      BY DEF WorkerAlone, NewOp
    <2>5. RowsInv'
      BY <2>2 DEF AloneInv, RowsInv, NothingOverwritten, ResolvedOnce, ClaimsOpen
    <2>6. QED
      BY <2>2, <2>3, <2>4, <2>5, AloneMove DEF Quiet, PC
  <1>2. CASE StartResume(w)
    <2> DEFINE i == Latest(rows).claimed
    <2>1. PICK n \in RestartAt(Latest(rows)) :
            Move(w, "head", NewOp("resume", started + 1, n, i, Len(rows)))
      BY <1>2 DEF StartResume, Begin
    <2> DEFINE o == NewOp("resume", started + 1, n, i, Len(rows))
    <2>2. rows # <<>> /\ UNCHANGED rows /\ Quiet
      BY <1>2 DEF StartResume
    <2>3. o \in Op
      BY <1>0, <2>1 DEF Move, TypeInv, TypeOK
    <2>4. Len(rows) \in 1..Len(rows) /\ Latest(rows) = rows[Len(rows)]
      BY <1>0, <2>2 DEF Latest
    <2>5. i # NoInterrupt => Latest(rows).status = "Running" /\ ~Resolved(rows, i)
      BY <2>4 DEF AloneInv, RowsInv, ClaimsOpen
    <2>6. o.kind = "resume" /\ o.basis = Len(rows) /\ o.resolved = i
      BY DEF NewOp
    <2>7. WorkerAlone("head", o, rows)
      <3> HIDE DEF o
      <3> QED BY <2>2, <2>5, <2>6 DEF WorkerAlone, Resolved
    <2>8. RowsInv' /\ WorkerAlone("head", o, rows')
      BY <2>2, <2>7 DEF AloneInv, RowsInv, NothingOverwritten, ResolvedOnce, ClaimsOpen
    <2>9. QED
      BY <2>1, <2>2, <2>3, <2>8, AloneMove DEF Quiet, PC
  <1>3. CASE \E i \in Interrupts : StartClaim(w, i)
    <2>1. PICK i \in Interrupts : StartClaim(w, i)
      BY <1>3
    <2> DEFINE o == NewOp("input", started + 1, End, i, 0)
               n == Len(rows)
    <2>2. /\ Move(w, "claimed", o) /\ rows # <<>> /\ rows' = Claimed(rows, i)
          /\ ~Resolved(rows, i) /\ Latest(rows).status = "Yielded" /\ ClaimsOnly
      BY <2>1 DEF StartClaim, Begin, Claimable
    <2>3. o \in Op
      BY <1>0, <2>2 DEF Move, TypeInv, TypeOK
    <2>4. \A v \in Workers : ~Live(v)
      BY <2>2 DEF AloneInv, WorkerAlone, ClaimsOnly, Live
    <2>5. /\ Len(rows') = n /\ n \in 1..n
          /\ \A k \in 1..n : k # n => rows'[k] = rows[k]
          /\ rows'[n].status = "Running" /\ rows'[n].claimed = i
          /\ rows'[n].resolved = rows[n].resolved /\ rows'[n].basis = rows[n].basis
          /\ rows'[n].by = rows[n].by
      BY <1>0, <2>2, ClaimedRow
    <2>6. \A k \in 1..n : /\ rows'[k].resolved = rows[k].resolved
                          /\ rows'[k].basis = rows[k].basis
                          /\ rows'[k].by = rows[k].by
      BY <2>5
    <2>7. NothingOverwritten'
      <3> SUFFICES ASSUME NEW k \in 1..n, rows'[k].basis # 0,
                          NEW j \in (rows'[k].basis + 1)..(k - 1)
                   PROVE  rows'[j].by = rows'[k].by
        BY <2>5 DEF NothingOverwritten
      <3>1. n \in Nat /\ rows[k] \in Row /\ rows'[k].basis = rows[k].basis
        BY <1>0, <2>6
      <3>2. j \in 1..n /\ j \in (rows[k].basis + 1)..(k - 1) /\ rows[k].basis # 0
        <4>1. rows[k].basis \in Nat
          BY <3>1 DEF Row
        <4>2. QED
          BY <3>1, <4>1
      <3>3. rows[j].by = rows[k].by
        BY <3>2 DEF AloneInv, RowsInv, NothingOverwritten
      <3>4. QED
        BY <2>6, <3>2, <3>3
    <2>8. ResolvedOnce'
      BY <2>5, <2>6 DEF AloneInv, RowsInv, ResolvedOnce
    <2>9. \A k \in 1..n : rows'[k].resolved # i
      BY <2>2, <2>6 DEF Resolved
    <2>10. ClaimsOpen'
      <3>1. ~Resolved(rows', i)
        BY <2>5, <2>9 DEF Resolved
      <3>2. QED
        BY <2>5, <3>1 DEF AloneInv, RowsInv, ClaimsOpen
    <2>11. Latest(rows').status = "Running" /\ Latest(rows').claimed = i /\ rows' # <<>>
      BY <2>5 DEF Latest
    <2>12. WorkerAlone("claimed", o, rows')
      BY <2>5, <2>9, <2>11 DEF WorkerAlone, NewOp
    <2>13. QED
      BY <2>2, <2>3, <2>4, <2>7, <2>8, <2>10, <2>12, AloneMove DEF RowsInv, PC
  <1>4. QED
    BY <1>1, <1>2, <1>3 DEF Start

\* The steps of a call that is alone.
LEMMA AloneStep ==
  ASSUME TypeInv, TypeInv', AloneInv, NEW w \in Workers, Step(w)
  PROVE  AloneInv'
PROOF
  <1> USE DEF PC
  <1>0. op[w] \in Op /\ op'[w] \in Op /\ rows \in Seq(Row)
    BY DEF TypeInv, TypeOK
  <1>1. CASE LoadRejected(w)
    BY <1>1, AloneReturn DEF LoadRejected, Live
  <1>2. CASE SchemaRejected(w)
    BY <1>2, AloneReturn DEF SchemaRejected, Live
  <1>3. CASE LoadClaimed(w)
    <2>1. PICK n, b : Move(w, "head", [op[w] EXCEPT !.loaded = Len(rows), !.basis = Len(rows),
                                                    !.node = n, !.input = b])
      BY <1>3 DEF LoadClaimed
    <2>2. pc[w] = "claimed" /\ UNCHANGED rows
      BY <1>3 DEF LoadClaimed
    <2>3. op'[w] = [op[w] EXCEPT !.loaded = Len(rows), !.basis = Len(rows),
                                 !.node = n, !.input = b]
      BY <2>1 DEF Move, TypeInv, TypeOK
    <2>4. /\ op'[w].loaded = Len(rows) /\ op'[w].basis = Len(rows)
          /\ op'[w].kind = op[w].kind /\ op'[w].id = op[w].id
          /\ op'[w].resolved = op[w].resolved
      BY <1>0, <2>3 DEF Op
    <2>5. WorkerAlone("claimed", op[w], rows)
      BY <2>2 DEF AloneInv
    <2>6. Len(rows) \in Nat /\ (Len(rows) + 1)..Len(rows) = {}
      BY <1>0
    <2>7. WorkerAlone("head", op'[w], rows')
      BY <2>2, <2>4, <2>5, <2>6 DEF WorkerAlone
    <2>8. RowsInv'
      BY <2>2 DEF AloneInv, RowsInv, NothingOverwritten, ResolvedOnce, ClaimsOpen
    <2>9. \A v \in Workers : Live(v) => v = w
      BY <2>2 DEF AloneInv, SingleWorker, Live
    <2>10. QED
      BY <1>0, <2>1, <2>3, <2>7, <2>8, <2>9, AloneMove
  <1>4. CASE ReadHead(w)
    <2> DEFINE o == [op[w] EXCEPT !.expected = CurrentHead(rows), !.knowsHead = TRUE]
    <2>1. Move(w, "loop", o) /\ UNCHANGED rows /\ Live(w) /\ pc[w] # "claimed"
      BY <1>4 DEF ReadHead, Live
    <2>2. SameCall(o, op[w])
      BY <1>0 DEF SameCall, Op
    <2>3. Move(w, "loop", op'[w]) /\ op'[w] \in Op /\ SameCall(op'[w], op[w])
      BY <1>0, <2>1, <2>2 DEF Move, TypeInv, TypeOK
    <2>4. QED
      BY <2>1, <2>3, AloneQuiet
  <1>5. CASE StepLimit(w)
    BY <1>5, AloneFail DEF StepLimit, Live
  <1>6. CASE ReachEnd(w)
    BY <1>6, AloneReturn DEF ReachEnd, Live
  <1>7. CASE InterruptAtGate(w)
    <2> DEFINE o == op[w]
    <2>1. Move(w, "saveGate", o) /\ UNCHANGED rows /\ Live(w) /\ pc[w] # "claimed"
      BY <1>7 DEF InterruptAtGate, Live
    <2>2. SameCall(o, op[w])
      BY <1>0 DEF SameCall, Op
    <2>3. Move(w, "saveGate", op'[w]) /\ op'[w] \in Op /\ SameCall(op'[w], op[w])
      BY <1>0, <2>1, <2>2 DEF Move, TypeInv, TypeOK
    <2>4. QED
      BY <2>1, <2>3, AloneQuiet
  <1>8. CASE NodeNotFound(w)
    BY <1>8, AloneFail DEF NodeNotFound, Live
  <1>9. CASE EnterNode(w)
    <2> DEFINE o == [op[w] EXCEPT !.steps = @ + 1, !.attempt = 0]
    <2>1. Move(w, "call", o) /\ UNCHANGED rows /\ Live(w) /\ pc[w] # "claimed"
      BY <1>9 DEF EnterNode, Live
    <2>2. SameCall(o, op[w])
      BY <1>0 DEF SameCall, Op
    <2>3. Move(w, "call", op'[w]) /\ op'[w] \in Op /\ SameCall(op'[w], op[w])
      BY <1>0, <2>1, <2>2 DEF Move, TypeInv, TypeOK
    <2>4. QED
      BY <2>1, <2>3, AloneQuiet
  <1>10. CASE NodeOk(w)
    <2>1. PICK n : Move(w, "saveStep", [Taken(op[w]) EXCEPT !.next = n])
      BY <1>10 DEF NodeOk
    <2>2. UNCHANGED rows /\ Live(w) /\ pc[w] # "claimed"
      BY <1>10 DEF NodeOk, Live
    <2>3. Move(w, "saveStep", op'[w]) /\ SameCall(op'[w], op[w])
      BY <1>0, <2>1 DEF Move, SameCall, Op, Taken, TypeInv, TypeOK
    <2>4. QED
      BY <1>0, <2>2, <2>3, AloneQuiet
  <1>11. CASE NodeYields(w)
    <2>1. PICK r : Move(w, "saveYield", [Taken(op[w]) EXCEPT !.request = r])
      BY <1>11 DEF NodeYields
    <2>2. UNCHANGED rows /\ Live(w) /\ pc[w] # "claimed"
      BY <1>11 DEF NodeYields, Live
    <2>3. Move(w, "saveYield", op'[w]) /\ SameCall(op'[w], op[w])
      BY <1>0, <2>1 DEF Move, SameCall, Op, Taken, TypeInv, TypeOK
    <2>4. QED
      BY <1>0, <2>2, <2>3, AloneQuiet
  <1>12. CASE NodeRetries(w)
    <2> DEFINE o == [Taken(op[w]) EXCEPT !.attempt = @ + 1]
    <2>1. Move(w, "call", o) /\ UNCHANGED rows /\ Live(w) /\ pc[w] # "claimed"
      BY <1>12 DEF NodeRetries, Live
    <2>2. SameCall(o, op[w])
      BY <1>0 DEF SameCall, Op, Taken
    <2>3. Move(w, "call", op'[w]) /\ op'[w] \in Op /\ SameCall(op'[w], op[w])
      BY <1>0, <2>1, <2>2 DEF Move, TypeInv, TypeOK
    <2>4. QED
      BY <2>1, <2>3, AloneQuiet
  <1>13. CASE NodeFails(w)
    BY <1>13, AloneFail DEF NodeFails, Live
  <1>14. CASE SaveStep(w)
    <2>1. pc[w] = "saveStep" /\ Written(StepRow(op[w].next, op[w].resolved, op[w].basis, op[w].id))
      BY <1>14 DEF SaveStep
    <2>2. CASE Return(w)
      <3> DEFINE r == StepRow(op[w].next, op[w].resolved, op[w].basis, op[w].id)
      <3>1. r \in Row /\ OwnRow(w, r) /\ Written(r) /\ Live(w)
        BY <2>1, PendingRowsOK, PendingRowsOwn DEF Live
      <3> HIDE DEF r
      <3>2. QED
        BY <2>2, <3>1, AloneLastWrite
    <2>3. CASE Move(w, "loop", [op[w] EXCEPT !.node = op[w].next, !.basis = Len(rows) + 1,
                                             !.expected = CurrentHead(rows'), !.next = End])
      <3>1. op'[w] = [op[w] EXCEPT !.node = op[w].next, !.basis = Len(rows) + 1,
                                   !.expected = CurrentHead(rows'), !.next = End]
        BY <2>3 DEF Move, TypeInv, TypeOK
      <3>2. /\ op'[w].kind = op[w].kind /\ op'[w].id = op[w].id
            /\ op'[w].resolved = op[w].resolved /\ op'[w].loaded = op[w].loaded
            /\ op'[w].basis = Len(rows) + 1
        BY <1>0, <3>1 DEF Op
      <3>3. Move(w, "loop", op'[w])
        BY <2>3, <3>1
      <3>4. QED
        BY <1>0, <2>1, <3>2, <3>3, AloneStepWrite
    <2>4. QED
      BY <1>14, <2>2, <2>3 DEF SaveStep
  <1>15. CASE SaveYield(w)
    <2> DEFINE r == YieldRow(op[w].node, op[w].request, op[w].basis, op[w].id)
    <2>1. r \in Row /\ OwnRow(w, r)
      BY <1>15, PendingRowsOK, PendingRowsOwn DEF SaveYield
    <2>2. Written(r) /\ Return(w) /\ Live(w)
      BY <1>15 DEF SaveYield, Live
    <2>3. QED
      <3> HIDE DEF r
      <3> QED BY <2>1, <2>2, AloneLastWrite
  <1>16. CASE SaveGate(w)
    <2> DEFINE r == GateRow(op[w].node, op[w].resolved, op[w].basis, op[w].id)
    <2>1. r \in Row /\ OwnRow(w, r)
      BY <1>16, PendingRowsOK, PendingRowsOwn DEF SaveGate
    <2>2. Written(r) /\ Return(w) /\ Live(w)
      BY <1>16 DEF SaveGate, Live
    <2>3. QED
      <3> HIDE DEF r
      <3> QED BY <2>1, <2>2, AloneLastWrite
  <1>17. CASE SaveConflict(w)
    BY <1>17, AloneFail DEF SaveConflict, Live, Saving
  <1>18. CASE RevertHead(w)
    <2> DEFINE o == [op[w] EXCEPT !.expected = CurrentHead(rows)]
    <2>1. Move(w, "revert", o) /\ UNCHANGED rows /\ Live(w) /\ pc[w] # "claimed"
      BY <1>18 DEF RevertHead, Live
    <2>2. SameCall(o, op[w])
      BY <1>0 DEF SameCall, Op
    <2>3. Move(w, "revert", op'[w]) /\ op'[w] \in Op /\ SameCall(op'[w], op[w])
      BY <1>0, <2>1, <2>2 DEF Move, TypeInv, TypeOK
    <2>4. QED
      BY <2>1, <2>3, AloneQuiet
  <1>19. CASE Revert(w)
    <2> DEFINE r == RollbackRow(rows[op[w].loaded], op[w].loaded, op[w].id)
    <2>1. r \in Row /\ OwnRow(w, r)
      BY <1>19, PendingRowsOK, PendingRowsOwn DEF Revert
    <2>2. Written(r) /\ Return(w) /\ Live(w)
      BY <1>19 DEF Revert, Live
    <2>3. QED
      <3> HIDE DEF r
      <3> QED BY <2>1, <2>2, AloneLastWrite
  <1>20. CASE RevertConflict(w)
    BY <1>20, AloneReturn DEF RevertConflict, Live
  <1>21. QED
    BY <1>1, <1>2, <1>3, <1>4, <1>5, <1>6, <1>7, <1>8, <1>9, <1>10, <1>11, <1>12, <1>13, <1>14, <1>15, <1>16, <1>17, <1>18, <1>19, <1>20 DEF Step

\* Crashes and store calls that fail without effect.
LEMMA AloneFaulty ==
  ASSUME ~LostAnswers, TypeInv, AloneInv, NEW w \in Workers, Faulty(w)
  PROVE  AloneInv'
PROOF
  <1>1. CASE Crash(w)
    BY <1>1, AloneReturn DEF Crash
  <1>2. CASE StoreFails(w)
    BY <1>2, AloneReturn, AloneFail DEF StoreFails, Saving, Live
  <1>3. QED
    BY <1>1, <1>2 DEF Faulty, AnswerLost

\* Every step of the specification preserves the two invariants together.
LEMMA InvNext ==
  ASSUME Exclusive, ~LostAnswers
  PROVE  Inv /\ [Next]_vars => Inv'
PROOF
  <1> SUFFICES ASSUME Inv, [Next]_vars PROVE Inv'
    OBVIOUS
  <1>1. TypeInv /\ AloneInv /\ TypeInv'
    BY TypeInvNext DEF Inv
  <1>2. CASE Next
    BY <1>1, <1>2, AloneStart, AloneStep, AloneFaulty DEF Next, Inv
  <1>3. CASE UNCHANGED vars
    BY <1>1, <1>3 DEF vars, Inv, AloneInv, SingleWorker, Live, WorkerAlone, RowsInv,
                      NothingOverwritten, ResolvedOnce, ClaimsOpen
  <1>4. QED
    BY <1>2, <1>3

\* The two invariants hold in every behaviour.
LEMMA InvHolds ==
  ASSUME Exclusive, ~LostAnswers
  PROVE  Spec => []Inv
PROOF
  <1>1. Init => Inv
    BY TypeInvInit, AloneInvInit DEF Inv
  <1>2. QED
    BY <1>1, InvNext, PTL DEF Spec

\* At most one call works on the thread: duplicate deliveries of an answer are
\* kept out by claim_interrupt alone, in every graph and store.
THEOREM OneWorkerAtATime ==
  ASSUME Exclusive, ~LostAnswers
  PROVE  Spec => []SingleWorker
PROOF
  <1>1. Inv => SingleWorker
    BY DEF Inv, AloneInv
  <1>2. QED
    BY <1>1, InvHolds, PTL

\* No write and no rollback of run_inner buries a row that its call has not seen.
THEOREM NothingIsOverwritten ==
  ASSUME Exclusive, ~LostAnswers
  PROVE  Spec => []NothingOverwritten
PROOF
  <1>1. Inv => NothingOverwritten
    BY DEF Inv, AloneInv, RowsInv
  <1>2. QED
    BY <1>1, InvHolds, PTL

\* An interrupt takes effect in the rows of one call only, across rollbacks,
\* crashes, recoveries and repeated answers.
THEOREM InterruptsResolveOnce ==
  ASSUME Exclusive, ~LostAnswers
  PROVE  Spec => []ResolvedOnce
PROOF
  <1>1. Inv => ResolvedOnce
    BY DEF Inv, AloneInv, RowsInv
  <1>2. QED
    BY <1>1, InvHolds, PTL

-----------------------------------------------------------------------------
(* ThreadRuns implements InterruptLifecycle. *)

ResolvedSet == {i \in Interrupts : Resolved(rows, i)}

LifecycleStep == [Lifecycle!Next]_<<Waiting, ResolvedSet>>

\* A step that writes nothing is a stutter of the promise.
LEMMA QuietIsStutter == UNCHANGED rows => LifecycleStep
  BY DEF LifecycleStep, Waiting, ResolvedSet

\* Appending a row of one's own asks, resolves, or moves on.
LEMMA WriteIsLifecycleStep ==
  ASSUME Inv, NEW w \in Workers, Live(w),
         NEW r \in Row, RowOK(r), OwnRow(w, r), Written(r),
         r.status # "Running", r.status = "Yielded" => r.resolved = NoInterrupt
  PROVE  LifecycleStep
PROOF
  <1> DEFINE n == Len(rows)
  <1>1. /\ n \in Nat /\ rows \in Seq(Row) /\ rows' # <<>> /\ Len(rows') = n + 1
        /\ Latest(rows') = r /\ rows'[n + 1] = r
        /\ \A k \in 1..n : rows'[k] = rows[k]
        /\ \A k \in 1..(n + 1) : k \in 1..n \/ k = n + 1
    BY AppendRow DEF Inv, TypeInv, TypeOK, Written, Latest
  <1>2. \A i : Resolved(rows', i) <=> Resolved(rows, i) \/ r.resolved = i
    BY <1>1 DEF Resolved
  <1>3. NoInterrupt \notin Interrupts
    BY NamesAssumption
  <1>4. CASE r.status = "Yielded"
    <2>1. Waiting' = [phase |-> "pending", interrupt |-> r.request]
      BY <1>1, <1>4 DEF Waiting
    <2>2. r.request \in Interrupts
      BY <1>4 DEF RowOK
    <2>3. ResolvedSet' = ResolvedSet
      BY <1>2, <1>3, <1>4 DEF ResolvedSet
    <2>4. Lifecycle!Ask(r.request)
      BY <2>1, <2>3 DEF Lifecycle!Ask, Lifecycle!Pending, ResolvedSet
    <2>5. QED
      BY <2>2, <2>4 DEF LifecycleStep, Lifecycle!Next
  <1>5. CASE r.status # "Yielded"
    <2>1. Waiting' = [phase |-> "none", interrupt |-> NoInterrupt]
      BY <1>1, <1>5 DEF Waiting
    <2>2. CASE r.resolved = NoInterrupt \/ Resolved(rows, r.resolved)
      <3>1. ResolvedSet' = ResolvedSet
        BY <1>2, <1>3, <2>2 DEF ResolvedSet
      <3>2. Lifecycle!MoveOn
        BY <2>1, <3>1 DEF Lifecycle!MoveOn, Lifecycle!Nobody, ResolvedSet
      <3>3. QED
        BY <3>2 DEF LifecycleStep, Lifecycle!Next
    <2>3. CASE r.resolved # NoInterrupt /\ ~Resolved(rows, r.resolved)
      <3> DEFINE i == r.resolved
      <3>1. i \in Interrupts /\ op[w].resolved = i
        BY <2>3 DEF OwnRow, Row, MaybeInterrupt
      <3>2. rows # <<>> /\ Latest(rows).status = "Running" /\ Latest(rows).claimed = i
        BY <2>3, <3>1 DEF Inv, AloneInv, WorkerAlone, Live
      <3>3. Waiting = [phase |-> "claimed", interrupt |-> i]
        BY <3>2 DEF Waiting
      <3>4. ResolvedSet' = ResolvedSet \cup {i}
        BY <1>2, <3>1 DEF ResolvedSet
      <3>5. Lifecycle!Resolve(i)
        BY <2>1, <3>3, <3>4
           DEF Lifecycle!Resolve, Lifecycle!ClaimedFor, Lifecycle!Nobody, ResolvedSet
      <3>6. QED
        BY <3>1, <3>5 DEF LifecycleStep, Lifecycle!Next
    <2>4. QED
      BY <2>2, <2>3
  <1>6. QED
    BY <1>4, <1>5

\* A granted claim is the promise's claim.
LEMMA ClaimIsLifecycleStep ==
  ASSUME Inv, NEW w \in Workers, NEW i \in Interrupts, StartClaim(w, i)
  PROVE  LifecycleStep
PROOF
  <1>1. /\ rows \in Seq(Row) /\ rows # <<>> /\ rows' = Claimed(rows, i)
        /\ ~Resolved(rows, i) /\ Latest(rows).status = "Yielded"
        /\ Latest(rows).request = i
    BY DEF Inv, TypeInv, TypeOK, StartClaim, Claimable
  <1>2. /\ rows' \in Seq(Row) /\ Len(rows') = Len(rows) /\ Len(rows) \in 1..Len(rows)
        /\ \A k \in 1..Len(rows) : rows'[k].resolved = rows[k].resolved
        /\ rows'[Len(rows)].status = "Running" /\ rows'[Len(rows)].claimed = i
    <2>1. \A k \in 1..Len(rows) : k # Len(rows) => rows'[k] = rows[k]
      BY <1>1, ClaimedRow
    <2>2. rows'[Len(rows)].resolved = rows[Len(rows)].resolved
      BY <1>1, ClaimedRow
    <2>3. QED
      BY <1>1, <2>1, <2>2, ClaimedRow
  <1>3. ResolvedSet' = ResolvedSet
    BY <1>2 DEF ResolvedSet, Resolved
  <1>4. Waiting = [phase |-> "pending", interrupt |-> i]
    BY <1>1 DEF Waiting
  <1>5. rows' # <<>> /\ Latest(rows') = rows'[Len(rows)]
    BY <1>2 DEF Latest
  <1>6. Waiting' = [phase |-> "claimed", interrupt |-> i]
    BY <1>2, <1>5 DEF Waiting
  <1>7. i \notin ResolvedSet
    BY <1>1 DEF ResolvedSet
  <1>8. Lifecycle!Claim(i)
    BY <1>3, <1>4, <1>6, <1>7
       DEF Lifecycle!Claim, Lifecycle!Pending, Lifecycle!ClaimedFor, ResolvedSet
  <1>9. QED
    BY <1>8 DEF LifecycleStep, Lifecycle!Next

\* The four writes, each with the status that its place in the code gives it.
LEMMA SaveIsLifecycleStep ==
  ASSUME Inv, NEW w \in Workers,
         SaveStep(w) \/ SaveYield(w) \/ SaveGate(w) \/ Revert(w)
  PROVE  LifecycleStep
PROOF
  <1>0. TypeInv /\ AloneInv
    BY DEF Inv
  <1>1. CASE SaveStep(w)
    <2> DEFINE r == StepRow(op[w].next, op[w].resolved, op[w].basis, op[w].id)
    <2>1. r \in Row /\ RowOK(r) /\ OwnRow(w, r)
      BY <1>0, <1>1, PendingRowsOK, PendingRowsOwn DEF SaveStep
    <2>2. Written(r) /\ Live(w)
      BY <1>1 DEF SaveStep, Live
    <2>3. r.status # "Running" /\ (r.status = "Yielded" => r.resolved = NoInterrupt)
      BY DEF StepRow
    <2>4. QED
      <3> HIDE DEF r
      <3> QED BY <2>1, <2>2, <2>3, WriteIsLifecycleStep
  <1>2. CASE SaveYield(w)
    <2> DEFINE r == YieldRow(op[w].node, op[w].request, op[w].basis, op[w].id)
    <2>1. r \in Row /\ RowOK(r) /\ OwnRow(w, r)
      BY <1>0, <1>2, PendingRowsOK, PendingRowsOwn DEF SaveYield
    <2>2. Written(r) /\ Live(w)
      BY <1>2 DEF SaveYield, Live
    <2>3. r.status # "Running" /\ (r.status = "Yielded" => r.resolved = NoInterrupt)
      BY DEF YieldRow
    <2>4. QED
      <3> HIDE DEF r
      <3> QED BY <2>1, <2>2, <2>3, WriteIsLifecycleStep
  <1>3. CASE SaveGate(w)
    <2> DEFINE r == GateRow(op[w].node, op[w].resolved, op[w].basis, op[w].id)
    <2>1. r \in Row /\ RowOK(r) /\ OwnRow(w, r)
      BY <1>0, <1>3, PendingRowsOK, PendingRowsOwn DEF SaveGate
    <2>2. Written(r) /\ Live(w)
      BY <1>3 DEF SaveGate, Live
    <2>3. r.status # "Running" /\ (r.status = "Yielded" => r.resolved = NoInterrupt)
      BY DEF GateRow
    <2>4. QED
      <3> HIDE DEF r
      <3> QED BY <2>1, <2>2, <2>3, WriteIsLifecycleStep
  <1>4. CASE Revert(w)
    <2> DEFINE r == RollbackRow(rows[op[w].loaded], op[w].loaded, op[w].id)
    <2>1. r \in Row /\ RowOK(r) /\ OwnRow(w, r)
      BY <1>0, <1>4, PendingRowsOK, PendingRowsOwn DEF Revert
    <2>2. Written(r) /\ Live(w)
      BY <1>4 DEF Revert, Live
    <2>3. r.status # "Running" /\ (r.status = "Yielded" => r.resolved = NoInterrupt)
      BY DEF RollbackRow
    <2>4. QED
      <3> HIDE DEF r
      <3> QED BY <2>1, <2>2, <2>3, WriteIsLifecycleStep
  <1>5. QED
    BY <1>1, <1>2, <1>3, <1>4

\* Every step of the calls is a step of the promise or changes nothing it sees.
LEMMA NextIsLifecycleStep ==
  ASSUME ~LostAnswers, Inv, [Next]_vars
  PROVE  LifecycleStep
PROOF
  <1>1. CASE UNCHANGED vars
    BY <1>1, QuietIsStutter DEF vars
  <1>2. CASE Next
    <2>1. PICK w \in Workers : Start(w) \/ Step(w) \/ Faulty(w)
      BY <1>2 DEF Next
    <2>2. CASE Start(w)
      BY <2>2, QuietIsStutter, ClaimIsLifecycleStep DEF Start, StartRun, StartResume
    <2>3. CASE Step(w)
      BY <2>3, QuietIsStutter, SaveIsLifecycleStep
         DEF Step, LoadRejected, SchemaRejected, LoadClaimed, ReadHead, StepLimit,
             ReachEnd, InterruptAtGate, NodeNotFound, EnterNode, NodeOk, NodeYields,
             NodeRetries, NodeFails, SaveConflict, RevertHead, RevertConflict
    <2>4. CASE Faulty(w)
      BY <2>4, QuietIsStutter DEF Faulty, Crash, StoreFails, AnswerLost
    <2>5. QED
      BY <2>1, <2>2, <2>3, <2>4
  <1>3. QED
    BY <1>1, <1>2

\* Calls, duplicates, failures, rollbacks and recoveries keep the promise: an
\* interrupt is claimed only while the thread waits for it unresolved, and only
\* the holder of the claim resolves it.
THEOREM KeepsTheLifecycle ==
  ASSUME Exclusive, ~LostAnswers
  PROVE  Spec => LifecycleSpec
PROOF
  <1>1. Init => Lifecycle!Init
    BY DEF Init, Lifecycle!Init, Lifecycle!Nobody, Waiting, Resolved
  <1>2. Inv /\ [Next]_vars => LifecycleStep
    BY NextIsLifecycleStep
  <1>3. LifecycleStep = [Lifecycle!Next]_<<Waiting, {i \in Interrupts : Resolved(rows, i)}>>
    BY DEF LifecycleStep, ResolvedSet
  <1>4. Inv /\ [Next]_vars =>
          [Lifecycle!Next]_<<Waiting, {i \in Interrupts : Resolved(rows, i)}>>
    BY <1>2, <1>3
  <1>5. QED
    BY <1>1, <1>4, InvHolds, PTL DEF Spec, LifecycleSpec, Lifecycle!Spec
=============================================================================

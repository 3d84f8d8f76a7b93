----------------------- MODULE PostgresClaimsProofs -----------------------
(***************************************************************************)
(* The claim of the PostgreSQL store, statement by statement, for any      *)
(* graph and any number of deliveries: a row is claimed once; and when     *)
(* callers keep run and resume to a quiet thread and writes that commit    *)
(* are reported, one call works on the thread at a time.                   *)
(***************************************************************************)
EXTENDS PostgresClaims, ThreadRunsProofs

-----------------------------------------------------------------------------
(* Types. *)

\* A worker inside claim_interrupt is idle otherwise and names an interrupt; the
\* row that its UPDATE has picked exists.
ClaimsOK ==
  /\ claim \in [Workers -> ClaimCall]
  /\ \A w \in Workers :
       /\ Claiming(w) => claim[w].interrupt \in Interrupts /\ ~Live(w)
       /\ claim[w].stage = "pick" => rows # <<>>
       /\ claim[w].stage = "update" => claim[w].row \in 1..Len(rows)

PostgresTypeInv == TypeInv /\ ClaimsOK

\* What the UPDATE does to a row that is still Yielded.
LEMMA ClaimSetsOneRow ==
  ASSUME PostgresTypeInv, NEW w \in Workers, claim[w].stage = "update",
         StillYielded(claim[w].row), SetClaimed(w)
  PROVE  /\ rows \in Seq(Row) /\ rows' \in Seq(Row) /\ Len(rows') = Len(rows)
         /\ claim[w].row \in 1..Len(rows)
         /\ \A k \in 1..Len(rows) : k # claim[w].row => rows'[k] = rows[k]
         /\ \A k \in 1..Len(rows) : /\ rows'[k].request = rows[k].request
                                    /\ rows'[k].next = rows[k].next
                                    /\ rows'[k].basis = rows[k].basis
                                    /\ rows'[k].by = rows[k].by
         /\ rows'[claim[w].row].status = "Running"
PROOF
  <1> DEFINE n == claim[w].row
             i == claim[w].interrupt
             r == [rows[n] EXCEPT !.status = "Running", !.claimed = i]
  <1>1. rows \in Seq(Row) /\ n \in 1..Len(rows) /\ rows[n] \in Row /\ i \in Interrupts
    BY DEF PostgresTypeInv, TypeInv, TypeOK, ClaimsOK, Claiming
  <1>2. r \in Row
    <2> HIDE DEF i, n
    <2> QED BY <1>1 DEF Row, Status, MaybeInterrupt
  <1>3. rows' = [rows EXCEPT ![n] = r]
    BY <1>1 DEF SetClaimed, Row
  <1>4. /\ [rows EXCEPT ![n] = r] \in Seq(Row)
        /\ Len([rows EXCEPT ![n] = r]) = Len(rows)
        /\ \A k \in 1..Len(rows) : [rows EXCEPT ![n] = r][k] = IF k = n THEN r ELSE rows[k]
    <2> HIDE DEF r, n
    <2> QED BY <1>1, <1>2, ExceptSeq
  <1>5. /\ r.status = "Running" /\ r.request = rows[n].request
        /\ r.next = rows[n].next /\ r.basis = rows[n].basis /\ r.by = rows[n].by
    <2> HIDE DEF i, n
    <2> QED BY <1>1 DEF Row
  <1>6. QED
    <2> HIDE DEF r, n
    <2>1. \A k \in 1..Len(rows) : rows'[k] = IF k = n THEN r ELSE rows[k]
      BY <1>3, <1>4
    <2>2. rows' \in Seq(Row) /\ Len(rows') = Len(rows)
      BY <1>3, <1>4
    <2>3. QED
      BY <1>1, <1>5, <2>1, <2>2 DEF n

\* The row asks for what it asked, so the claimed row is sound.
LEMMA ClaimKeepsRowsOK ==
  ASSUME PostgresTypeInv, NEW w \in Workers, claim[w].stage = "update",
         StillYielded(claim[w].row), SetClaimed(w)
  PROVE  Grown(rows, rows') /\ RowsOK' /\ rows' # <<>>
PROOF
  <1>1. /\ rows \in Seq(Row) /\ rows' \in Seq(Row) /\ Len(rows') = Len(rows)
        /\ claim[w].row \in 1..Len(rows)
        /\ \A k \in 1..Len(rows) : k # claim[w].row => rows'[k] = rows[k]
        /\ \A k \in 1..Len(rows) : /\ rows'[k].request = rows[k].request
                                   /\ rows'[k].next = rows[k].next
    BY ClaimSetsOneRow
  <1>2. Grown(rows, rows') /\ rows' # <<>>
    BY <1>1 DEF Grown
  <1>3. RowsOK'
    <2> SUFFICES ASSUME NEW k \in 1..Len(rows) PROVE RowOK(rows'[k])
      BY <1>1 DEF RowsOK
    <2>1. RowOK(rows[k]) /\ rows'[k].request = rows[k].request /\ rows'[k].next = rows[k].next
      BY <1>1 DEF PostgresTypeInv, TypeInv, RowsOK
    <2>2. k = claim[w].row => rows[k].status = "Yielded"
      BY DEF StillYielded
    <2>3. QED
      BY <1>1, <2>1, <2>2 DEF RowOK
  <1>4. QED
    BY <1>2, <1>3

\* Rows that grow under calls that do not move.
LEMMA StandingPreservesType ==
  ASSUME TypeInv, Grown(rows, rows'), RowsOK', UNCHANGED <<pc, op>>,
         started' \in Nat, faults' \in Nat
  PROVE  TypeInv'
PROOF
  <1>1. TypeOK'
    BY DEF TypeInv, TypeOK, Grown
  <1>2. ASSUME NEW v \in Workers PROVE WorkerOK(pc'[v], op'[v], rows')
    <2>1. op[v] \in Op /\ WorkerOK(pc[v], op[v], rows) /\ pc'[v] = pc[v] /\ op'[v] = op[v]
      BY DEF TypeInv, TypeOK, WorkersOK
    <2>2. QED
      BY <2>1, GrownKeepsWorkerOK
  <1>3. QED
    BY <1>1, <1>2 DEF TypeInv, WorkersOK

\* The base typing invariant under every action on PostgreSQL.
LEMMA PostgresKeepsTypeInv ==
  ASSUME PostgresTypeInv, PostgresNext
  PROVE  TypeInv'
PROOF
  <1>0. TypeInv /\ started \in Nat /\ faults \in Nat /\ rows \in Seq(Row)
    BY DEF PostgresTypeInv, TypeInv, TypeOK
  <1>1. ASSUME UNCHANGED vars PROVE TypeInv'
    BY <1>0, <1>1, TypeInvNext
  <1>2. PICK w \in Workers :
          \/ StartOther(w) \/ Works(w) \/ (\E k \in Interrupts : Deliver(w, k))
          \/ Claims(w) \/ ClaimFails(w) \/ ClaimAnswerLost(w)
    BY DEF PostgresNext
  <1>3. CASE StartOther(w)
    BY <1>0, <1>3, TypeInvStart DEF StartOther, Start
  <1>4. CASE Works(w)
    BY <1>0, <1>4, TypeInvStep, TypeInvFaulty DEF Works
  <1>5. CASE \E k \in Interrupts : Deliver(w, k)
    BY <1>1, <1>5 DEF Deliver
  <1>6. CASE SearchHistory(w) \/ ReadLatest(w) \/ PickRow(w) \/ UpdateNothing(w)
    BY <1>1, <1>6 DEF SearchHistory, ReadLatest, PickRow, UpdateNothing
  <1>7. CASE Update(w)
    <2> DEFINE o == NewOp("input", started + 1, End, claim[w].interrupt, 0)
    <2>1. /\ Move(w, "claimed", o) /\ started' = started + 1 /\ faults' = faults
          /\ claim[w].stage = "update" /\ claim[w].interrupt \in Interrupts
      BY <1>7 DEF Update, Begin, PostgresTypeInv, ClaimsOK, Claiming
    <2>2. o \in Op
      BY <1>0, <2>1 DEF NewOp, Op, MaybeInterrupt, Targets
    <2>3. Grown(rows, rows') /\ RowsOK' /\ rows' # <<>>
      BY <1>7, ClaimKeepsRowsOK DEF Update
    <2>4. WorkerOK("claimed", o, rows')
      BY <2>1, <2>3 DEF NewOp, WorkerOK
    <2>5. started' \in Nat /\ faults' \in Nat /\ "claimed" \in PC
      BY <1>0, <2>1 DEF PC
    <2>6. QED
      <3> HIDE DEF o
      <3> QED BY <1>0, <2>1, <2>2, <2>3, <2>4, <2>5, MovePreservesType
  <1>8. CASE ClaimFails(w)
    <2>1. Grown(rows, rows') /\ RowsOK'
      BY <1>0, <1>8 DEF ClaimFails, Grown, TypeInv, RowsOK, RowOK
    <2>2. QED
      BY <1>0, <1>8, <2>1, StandingPreservesType DEF ClaimFails, Fault
  <1>9. CASE ClaimAnswerLost(w)
    <2>1. Grown(rows, rows') /\ RowsOK'
      BY <1>9, ClaimKeepsRowsOK DEF ClaimAnswerLost
    <2>2. QED
      BY <1>0, <1>9, <2>1, StandingPreservesType DEF ClaimAnswerLost, Fault
  <1>10. QED
    BY <1>2, <1>3, <1>4, <1>5, <1>6, <1>7, <1>8, <1>9 DEF Claims

\* The statements of a claim move it from stage to stage, and only idle workers
\* are inside one.
LEMMA PostgresKeepsClaimsOK ==
  ASSUME PostgresTypeInv, PostgresNext
  PROVE  ClaimsOK'
PROOF
  <1>0. /\ claim \in [Workers -> ClaimCall] /\ rows \in Seq(Row)
        /\ pc \in [Workers -> PC] /\ TypeInv
        /\ \A v \in Workers :
             /\ Claiming(v) => claim[v].interrupt \in Interrupts /\ ~Live(v)
             /\ claim[v].stage = "pick" => rows # <<>>
             /\ claim[v].stage = "update" => claim[v].row \in 1..Len(rows)
    BY DEF PostgresTypeInv, TypeInv, TypeOK, ClaimsOK
  <1>1. NoClaim \in ClaimCall /\ NoClaim.stage = "none"
    BY DEF NoClaim, ClaimCall, Stages, MaybeInterrupt
  <1>2. PICK w \in Workers :
          \/ StartOther(w) \/ Works(w) \/ (\E k \in Interrupts : Deliver(w, k))
          \/ Claims(w) \/ ClaimFails(w) \/ ClaimAnswerLost(w)
    BY DEF PostgresNext
  <1>3. ASSUME UNCHANGED claim, NEW at, NEW o, Move(w, at, o), ~Claiming(w),
               rows' \in Seq(Row), Len(rows) <= Len(rows')
        PROVE  ClaimsOK'
    <2>1. \A v \in Workers : v # w => pc'[v] = pc[v]
      BY <1>0, <1>3 DEF Move
    <2>2. Len(rows) \in Nat /\ Len(rows') \in Nat /\ (rows # <<>> => rows' # <<>>)
      BY <1>0, <1>3
    <2>3. QED
      BY <1>0, <1>3, <2>1, <2>2 DEF ClaimsOK, Claiming, Live
  <1>4. ASSUME GiveUp(w), rows' \in Seq(Row), Len(rows') = Len(rows),
               \A v \in Workers : v # w => pc'[v] = pc[v]
        PROVE  ClaimsOK'
    <2>1. rows # <<>> => rows' # <<>>
      BY <1>0, <1>4
    <2>2. QED
      BY <1>0, <1>1, <1>4, <2>1 DEF GiveUp, ClaimsOK, Claiming, Live
  <1>5. CASE StartOther(w)
    <2>1. \E at, o : Move(w, at, o)
      BY <1>5 DEF StartOther, StartRun, StartResume, Begin
    <2>2. UNCHANGED <<rows, claim>> /\ ~Claiming(w) /\ Len(rows) \in Nat
      BY <1>0, <1>5 DEF StartOther, StartRun, StartResume
    <2>3. rows' \in Seq(Row) /\ Len(rows) <= Len(rows')
      BY <1>0, <2>2
    <2>4. QED
      BY <1>3, <2>1, <2>2, <2>3
  <1>6. CASE Works(w)
    <2>1. Live(w) /\ (UNCHANGED rows \/ \E r \in Row : Written(r))
      BY <1>0, <1>6, StepShapes, FaultyShapes
         DEF Works, QuietStep, WriteStep, OwnWrite, LoadClaimed
    <2>2. rows' \in Seq(Row) /\ Len(rows) <= Len(rows')
      BY <1>0, <2>1, AppendRow DEF Written
    <2>3. \E at, o : Move(w, at, o)
      BY <1>6, WorkIsMove DEF Works
    <2>4. ~Claiming(w)
      BY <1>0, <2>1
    <2>5. QED
      BY <1>3, <1>6, <2>2, <2>3, <2>4 DEF Works
  <1>7. CASE \E k \in Interrupts : Deliver(w, k)
    <2>1. PICK k \in Interrupts : Deliver(w, k)
      BY <1>7
    <2>2. [stage |-> "history", interrupt |-> k, row |-> 0] \in ClaimCall
      BY DEF ClaimCall, Stages, MaybeInterrupt
    <2>3. QED
      BY <1>0, <2>1, <2>2 DEF Deliver, ClaimsOK, Claiming, Live, vars
  <1>8. CASE UNCHANGED vars /\ GiveUp(w)
    BY <1>0, <1>4, <1>8 DEF vars
  <1> DEFINE Passes(v, stage) == /\ UNCHANGED vars /\ Claiming(v) /\ Proceed(v, stage)
                                 /\ stage = "pick" => rows # <<>>
  <1>9. CASE \E stage \in {"latest", "pick"} : Passes(w, stage)
    <2>1. PICK stage \in {"latest", "pick"} : Passes(w, stage)
      BY <1>9
    <2> DEFINE c == [claim[w] EXCEPT !.stage = stage]
    <2>2. c \in ClaimCall /\ c.interrupt = claim[w].interrupt /\ c.stage = stage
      BY <1>0 DEF ClaimCall, Stages
    <2>3. claim' = [claim EXCEPT ![w] = c]
      BY <1>0, <2>1 DEF Proceed
    <2>4. QED
      <3> HIDE DEF c
      <3> QED BY <1>0, <2>1, <2>2, <2>3 DEF ClaimsOK, Claiming, Live, vars
  <1>10. CASE PickRow(w)
    <2> DEFINE c == [claim[w] EXCEPT !.stage = "update", !.row = Len(rows)]
    <2>1. Len(rows) \in Nat /\ claim[w].stage = "pick"
      BY <1>0, <1>10 DEF PickRow
    <2>2. /\ c \in ClaimCall /\ c.interrupt = claim[w].interrupt
          /\ c.stage = "update" /\ c.row = Len(rows)
      BY <1>0, <2>1 DEF ClaimCall, Stages
    <2>3. claim' = [claim EXCEPT ![w] = c]
      BY <1>0, <1>10 DEF PickRow, ClaimCall
    <2>4. UNCHANGED vars
      BY <1>10 DEF PickRow
    <2>5. rows # <<>> /\ Len(rows) \in 1..Len(rows)
      BY <1>0, <2>1
    <2>6. QED
      <3> HIDE DEF c
      <3> QED BY <1>0, <2>1, <2>2, <2>3, <2>4, <2>5 DEF ClaimsOK, Claiming, Live, vars
  <1>11. CASE Update(w)
    <2>1. rows' \in Seq(Row) /\ Len(rows') = Len(rows) /\ GiveUp(w)
      BY <1>11, ClaimSetsOneRow DEF Update
    <2>2. \A v \in Workers : v # w => pc'[v] = pc[v]
      BY <1>0, <1>11 DEF Update, Begin, Move
    <2>3. QED
      BY <1>4, <2>1, <2>2
  <1>12. CASE ClaimFails(w)
    BY <1>0, <1>4, <1>12 DEF ClaimFails
  <1>13. CASE ClaimAnswerLost(w)
    BY <1>4, <1>13, ClaimSetsOneRow DEF ClaimAnswerLost
  <1>14. Claims(w) => \/ PickRow(w) \/ Update(w)
                      \/ UNCHANGED vars /\ GiveUp(w)
                      \/ \E stage \in {"latest", "pick"} :
                           Passes(w, stage)
    BY DEF Claims, SearchHistory, ReadLatest, UpdateNothing, Claiming
  <1>15. QED
    BY <1>2, <1>5, <1>6, <1>7, <1>8, <1>9, <1>10, <1>11, <1>12, <1>13, <1>14

\* Types hold in every behaviour.
LEMMA PostgresTypeInvHolds == PostgresSpec => []PostgresTypeInv
PROOF
  <1>1. PostgresInit => PostgresTypeInv
    <2> SUFFICES ASSUME PostgresInit PROVE PostgresTypeInv
      OBVIOUS
    <2>1. NoClaim \in ClaimCall /\ NoClaim.stage = "none"
      BY DEF NoClaim, ClaimCall, Stages, MaybeInterrupt
    <2>2. TypeInv
      BY TypeInvInit DEF PostgresInit
    <2>3. QED
      BY <2>1, <2>2 DEF PostgresInit, PostgresTypeInv, ClaimsOK, Claiming
  <1>2. PostgresTypeInv /\ [PostgresNext]_pvars => PostgresTypeInv'
    <2> SUFFICES ASSUME PostgresTypeInv, [PostgresNext]_pvars PROVE PostgresTypeInv'
      OBVIOUS
    <2>1. CASE PostgresNext
      BY <2>1, PostgresKeepsTypeInv, PostgresKeepsClaimsOK DEF PostgresTypeInv
    <2>2. CASE UNCHANGED pvars
      <3>1. TypeInv'
        BY <2>2, TypeInvNext DEF pvars, PostgresTypeInv
      <3>2. QED
        BY <2>2, <3>1 DEF pvars, vars, PostgresTypeInv, ClaimsOK, Claiming, Live
    <2>3. QED
      BY <2>1, <2>2
  <1>3. QED
    BY <1>1, <1>2, PTL DEF PostgresSpec

\* Every state of the executor on PostgreSQL is well typed, the rows that pending
\* UPDATE statements have picked included.
THEOREM PostgresTypeCorrect == PostgresSpec => []PostgresTypeOK
PROOF
  <1>1. PostgresTypeInv => PostgresTypeOK
    BY DEF PostgresTypeInv, PostgresTypeOK, TypeInv, ClaimsOK
  <1>2. QED
    BY <1>1, PostgresTypeInvHolds, PTL

-----------------------------------------------------------------------------
(* A row is claimed once. *)

\* Only a row in status Running carries a claim.
MarkedRows == \A k \in 1..Len(rows) : rows[k].claimed # NoInterrupt => rows[k].status = "Running"

\* What one action does to the rows: nothing, a row appended, or a Yielded row claimed.
LEMMA RowChanges ==
  ASSUME PostgresTypeInv, PostgresNext
  PROVE  \/ UNCHANGED rows
         \/ \E r \in Row : Written(r) /\ r.claimed = NoInterrupt
         \/ \E w \in Workers : claim[w].stage = "update" /\ StillYielded(claim[w].row) /\ SetClaimed(w)
PROOF
  <1>1. PICK w \in Workers :
          \/ StartOther(w) \/ Works(w) \/ (\E k \in Interrupts : Deliver(w, k))
          \/ Claims(w) \/ ClaimFails(w) \/ ClaimAnswerLost(w)
    BY DEF PostgresNext
  <1>2. CASE Works(w)
    BY <1>2, StepShapes, FaultyShapes
       DEF Works, PostgresTypeInv, QuietStep, WriteStep, OwnWrite, LoadClaimed
  <1>3. CASE Update(w) \/ ClaimAnswerLost(w)
    BY <1>3 DEF Update, ClaimAnswerLost
  <1>4. CASE StartOther(w) \/ (\E k \in Interrupts : Deliver(w, k)) \/ ClaimFails(w)
    BY <1>4 DEF StartOther, StartRun, StartResume, Deliver, ClaimFails, vars
  <1>5. CASE SearchHistory(w) \/ ReadLatest(w) \/ PickRow(w) \/ UpdateNothing(w)
    BY <1>5 DEF SearchHistory, ReadLatest, PickRow, UpdateNothing, vars
  <1>6. QED
    BY <1>1, <1>2, <1>3, <1>4, <1>5 DEF Claims

\* A claimed row stays as it is, and new rows carry no claim.
LEMMA MarkedRowsNext ==
  ASSUME PostgresTypeInv, MarkedRows, [PostgresNext]_pvars
  PROVE  /\ MarkedRows'
         /\ \A k \in 1..Len(rows) : rows[k].claimed # NoInterrupt => rows'[k] = rows[k]
PROOF
  <1>0. rows \in Seq(Row)
    BY DEF PostgresTypeInv, TypeInv, TypeOK
  <1>1. CASE UNCHANGED rows
    BY <1>1 DEF MarkedRows
  <1>2. CASE \E r \in Row : Written(r) /\ r.claimed = NoInterrupt
    <2>1. PICK r \in Row : Written(r) /\ r.claimed = NoInterrupt
      BY <1>2
    <2>2. /\ Len(rows') = Len(rows) + 1 /\ rows'[Len(rows) + 1] = r
          /\ \A k \in 1..Len(rows) : rows'[k] = rows[k]
          /\ \A k \in 1..(Len(rows) + 1) : k \in 1..Len(rows) \/ k = Len(rows) + 1
      BY <1>0, <2>1, AppendRow DEF Written
    <2>3. QED
      BY <2>1, <2>2 DEF MarkedRows
  <1>3. CASE \E w \in Workers :
               claim[w].stage = "update" /\ StillYielded(claim[w].row) /\ SetClaimed(w)
    <2>1. PICK w \in Workers :
            claim[w].stage = "update" /\ StillYielded(claim[w].row) /\ SetClaimed(w)
      BY <1>3
    <2>2. /\ Len(rows') = Len(rows)
          /\ claim[w].row \in 1..Len(rows)
          /\ \A k \in 1..Len(rows) : k # claim[w].row => rows'[k] = rows[k]
          /\ rows'[claim[w].row].status = "Running"
      BY <2>1, ClaimSetsOneRow
    <2>3. rows[claim[w].row].claimed = NoInterrupt
      BY <2>1, <2>2 DEF MarkedRows, StillYielded
    <2>4. QED
      BY <2>2, <2>3 DEF MarkedRows
  <1>4. QED
    BY <1>1, <1>2, <1>3, RowChanges DEF pvars, vars

\* "AND status = 'Yielded'" suffices for this: of all deliveries that read a row as
\* Yielded one is granted, with crashes and lost answers, whatever the callers do.
THEOREM RowsAreClaimedOnce == PostgresSpec => RowClaimedOnce
PROOF
  <1>1. PostgresInit => MarkedRows
    BY DEF PostgresInit, Init, MarkedRows
  <1>2. PostgresTypeInv /\ MarkedRows /\ [PostgresNext]_pvars => MarkedRows'
    BY MarkedRowsNext
  <1>3. PostgresTypeInv /\ MarkedRows /\ [PostgresNext]_pvars =>
          [\A k \in 1..Len(rows) : rows[k].claimed # NoInterrupt => rows'[k] = rows[k]]_pvars
    BY MarkedRowsNext
  <1>4. QED
    BY <1>1, <1>2, <1>3, PostgresTypeInvHolds, PTL DEF PostgresSpec, RowClaimedOnce

-----------------------------------------------------------------------------
(* One call at a time. *)

\* What a working call may rely on, `s` being the rows: while a resume_with_input
\* works the latest row is not one that an UPDATE would claim; the call computes
\* from the latest row; all rows since the one it claimed are its own.
Undisturbed(at, o, s) ==
  at # "idle" =>
    /\ o.kind = "input" => s # <<>> /\ Latest(s).status # "Yielded"
    /\ at # "claimed" => o.basis \in {0, Len(s)}
    /\ at # "claimed" /\ o.kind = "input" =>
         \A j \in (o.loaded + 1)..Len(s) : s[j].by = o.id

\* Of the rows that pending UPDATE statements have picked only the latest may
\* still be Yielded.
PicksAreLatest ==
  \A w \in Workers :
    claim[w].stage = "update" /\ StillYielded(claim[w].row) => claim[w].row = Len(rows)

\* Callers start claims only beside other claims and their runs.
ClaimsAmongClaims == (\E w \in Workers : Claiming(w)) => ClaimsOnly

AloneInv == /\ SingleWorker
            /\ \A w \in Workers : Undisturbed(pc[w], op[w], rows)
            /\ NothingOverwritten
            /\ PicksAreLatest
            /\ ClaimsAmongClaims

\* A step of the only worker at work preserves the parts that are about workers.
LEMMA MoveStaysAlone ==
  ASSUME TypeInv, TypeInv', NEW w \in Workers, \A v \in Workers : Live(v) => v = w,
         NEW to, NEW o, Move(w, to, o), Undisturbed(pc'[w], op'[w], rows')
  PROVE  SingleWorker' /\ \A v \in Workers : Undisturbed(pc'[v], op'[v], rows')
PROOF
  <1>1. \A v \in Workers : v # w => pc'[v] = "idle"
    BY DEF TypeInv, TypeOK, Move, Live
  <1>2. SingleWorker'
    BY <1>1 DEF SingleWorker, Live
  <1>3. QED
    BY <1>1, <1>2 DEF Undisturbed

\* A call's own write: nobody else's row lies above its basis.
LEMMA OwnWriteBuriesNothing ==
  ASSUME TypeInv, NEW w \in Workers, Live(w), NEW r, OwnWrite(w, r),
         Undisturbed(pc[w], op[w], rows), NothingOverwritten
  PROVE  NothingOverwritten'
PROOF
  <1> DEFINE n == Len(rows)
  <1>1. /\ n \in Nat /\ rows' \in Seq(Row) /\ Len(rows') = n + 1
        /\ \A k \in 1..n : rows'[k] = rows[k] /\ rows[k] \in Row
        /\ rows'[n + 1] = r /\ r \in Row
        /\ \A k \in 1..(n + 1) : k \in 1..n \/ k = n + 1
    BY AppendRow DEF TypeInv, TypeOK, Written, OwnWrite
  <1>2. r.basis # 0 => \A j \in (r.basis + 1)..n : rows[j].by = r.by
    <2>1. CASE pc[w] = "revert"
      BY <2>1 DEF OwnWrite, Undisturbed
    <2>2. CASE pc[w] # "revert"
      <3>1. r.basis = 0 \/ r.basis = n
        BY <2>2 DEF OwnWrite, Undisturbed, Live
      <3>2. QED
        BY <1>1, <3>1
    <2>3. QED
      BY <2>1, <2>2
  <1> SUFFICES ASSUME NEW k \in 1..(n + 1), rows'[k].basis # 0,
                      NEW j \in (rows'[k].basis + 1)..(k - 1)
               PROVE  rows'[j].by = rows'[k].by
    BY <1>1 DEF NothingOverwritten
  <1>3. CASE k \in 1..n
    <2>1. rows[k].basis \in Nat /\ rows'[k] = rows[k]
      BY <1>1, <1>3 DEF Row
    <2>2. j \in 1..n /\ j \in (rows[k].basis + 1)..(k - 1)
      BY <1>1, <1>3, <2>1
    <2>3. rows[j].by = rows[k].by
      BY <1>3, <2>1, <2>2 DEF NothingOverwritten
    <2>4. QED
      BY <1>1, <2>1, <2>2, <2>3
  <1>4. CASE k = n + 1
    <2>1. rows'[k] = r /\ r.basis \in Nat
      BY <1>1, <1>4 DEF Row
    <2>2. j \in 1..n /\ j \in (r.basis + 1)..n
      BY <1>1, <1>4, <2>1
    <2>3. QED
      BY <1>1, <1>2, <2>1, <2>2
  <1>5. QED
    BY <1>1, <1>3, <1>4

\* A step of the only worker that keeps its call's kind.
LEMMA WorkStaysAlone ==
  ASSUME TypeInv, TypeInv', AloneInv, NEW w \in Workers, Live(w),
         \A v \in Workers : Live(v) => v = w, UNCHANGED claim,
         NEW to, NEW o, Move(w, to, o), Undisturbed(pc'[w], op'[w], rows'),
         pc'[w] # "idle" => op'[w].kind = op[w].kind,
         NothingOverwritten', PicksAreLatest'
  PROVE  AloneInv'
PROOF
  <1>1. SingleWorker' /\ \A v \in Workers : Undisturbed(pc'[v], op'[v], rows')
    BY MoveStaysAlone
  <1>2. \A v \in Workers : v # w => pc'[v] = "idle"
    BY DEF TypeInv, TypeOK, Move, Live
  <1>3. ClaimsAmongClaims'
    BY <1>2 DEF AloneInv, ClaimsAmongClaims, Claiming, ClaimsOnly, Live
  <1>4. QED
    BY <1>1, <1>3 DEF AloneInv

\* After its own write a call that goes on is as undisturbed as before.
LEMMA WriteUndisturbed ==
  ASSUME TypeInv, NEW w \in Workers, Live(w), WriteStep(w),
         Undisturbed(pc[w], op[w], rows)
  PROVE  Undisturbed(pc'[w], op'[w], rows')
PROOF
  <1> DEFINE n == Len(rows)
  <1>1. PICK r : /\ OwnWrite(w, r)
                 /\ \/ pc'[w] = "idle"
                    \/ /\ pc'[w] = "loop" /\ r.status = "Complete"
                       /\ op'[w].kind = op[w].kind /\ op'[w].id = op[w].id
                       /\ op'[w].loaded = op[w].loaded /\ op'[w].basis = Len(rows) + 1
    BY DEF WriteStep
  <1>2. CASE pc'[w] = "idle"
    BY <1>2 DEF Undisturbed
  <1>3. CASE pc'[w] = "loop"
    <2>1. /\ n \in Nat /\ Len(rows') = n + 1 /\ Latest(rows') = r /\ rows' # <<>>
          /\ \A k \in 1..n : rows'[k] = rows[k]
          /\ rows'[n + 1] = r
      BY <1>1, AppendRow DEF TypeInv, TypeOK, Written, OwnWrite, Latest
    <2>2. op[w].loaded \in Nat
      BY DEF TypeInv, TypeOK, Op
    <2>3. op[w].kind = "input" => \A j \in (op[w].loaded + 1)..(n + 1) : rows'[j].by = op[w].id
      <3> SUFFICES ASSUME op[w].kind = "input", NEW j \in (op[w].loaded + 1)..(n + 1)
                   PROVE  rows'[j].by = op[w].id
        OBVIOUS
      <3>1. (j \in (op[w].loaded + 1)..n /\ j \in 1..n) \/ j = n + 1
        BY <2>1, <2>2
      <3>2. pc[w] # "claimed" /\ r.by = op[w].id
        BY <1>1 DEF OwnWrite
      <3>3. QED
        BY <2>1, <3>1, <3>2 DEF Undisturbed, Live
    <2>4. QED
      BY <1>1, <1>3, <2>1, <2>3 DEF Undisturbed
  <1>4. QED
    BY <1>1, <1>2, <1>3

-----------------------------------------------------------------------------
(* The actions keep one call at a time. *)

\* A claim that is about to be granted finds nobody at work: a working
\* resume_with_input would have left the latest row in another status.
LEMMA ClaimFindsNobody ==
  ASSUME PostgresTypeInv, AloneInv, NEW w \in Workers,
         claim[w].stage = "update", StillYielded(claim[w].row)
  PROVE  /\ claim[w].row = Len(rows) /\ rows # <<>> /\ Latest(rows).status = "Yielded"
         /\ Quiet
PROOF
  <1>1. claim[w].row = Len(rows) /\ claim[w].row \in 1..Len(rows) /\ rows \in Seq(Row)
    BY DEF AloneInv, PicksAreLatest, PostgresTypeInv, TypeInv, TypeOK, ClaimsOK
  <1>2. rows # <<>> /\ Latest(rows).status = "Yielded"
    BY <1>1 DEF StillYielded, Latest
  <1>3. ClaimsOnly
    BY DEF AloneInv, ClaimsAmongClaims, Claiming
  <1>4. QED
    BY <1>1, <1>2, <1>3 DEF Quiet, ClaimsOnly, AloneInv, Undisturbed, Live

\* A statement of a claim that changes no row.
LEMMA StatementKeepsAlone ==
  ASSUME PostgresTypeInv, AloneInv, UNCHANGED <<rows, pc, op>>,
         NEW w \in Workers, NEW c, claim' = [claim EXCEPT ![w] = c],
         c.stage = "update" => c.row = Len(rows),
         c.stage # "none" => ClaimsOnly
  PROVE  AloneInv'
PROOF
  <1>1. /\ claim'[w] = c /\ claim \in [Workers -> ClaimCall]
        /\ \A v \in Workers : v # w => claim'[v] = claim[v]
    BY DEF PostgresTypeInv, ClaimsOK
  <1>2. SingleWorker' /\ NothingOverwritten'
    BY DEF AloneInv, SingleWorker, Live, NothingOverwritten
  <1>3. \A v \in Workers : Undisturbed(pc'[v], op'[v], rows')
    BY DEF AloneInv
  <1>4. PicksAreLatest'
    BY <1>1 DEF AloneInv, PicksAreLatest, StillYielded
  <1>5. ClaimsAmongClaims'
    BY <1>1 DEF AloneInv, ClaimsAmongClaims, Claiming, ClaimsOnly, Live
  <1>6. QED
    BY <1>2, <1>3, <1>4, <1>5 DEF AloneInv

\* The UPDATE, answered or not: no other pick of the row can be granted.
LEMMA ClaimKeepsAlone ==
  ASSUME PostgresTypeInv, TypeInv', AloneInv, NEW w \in Workers,
         claim[w].stage = "update", StillYielded(claim[w].row), SetClaimed(w), GiveUp(w),
         \/ UNCHANGED <<pc, op>>
         \/ (\E o : Move(w, "claimed", o) /\ o.kind = "input")
  PROVE  AloneInv'
PROOF
  <1> DEFINE n == Len(rows)
  <1>1. claim[w].row = n /\ rows # <<>> /\ \A v \in Workers : ~Live(v)
    BY ClaimFindsNobody DEF Quiet
  <1>2. /\ rows' \in Seq(Row) /\ Len(rows') = n
        /\ \A k \in 1..n : k # claim[w].row => rows'[k] = rows[k]
        /\ \A k \in 1..n : rows'[k].basis = rows[k].basis /\ rows'[k].by = rows[k].by
        /\ rows'[claim[w].row].status = "Running"
    BY ClaimSetsOneRow
  <1>3. /\ n \in 1..n /\ n \in Nat /\ rows' # <<>> /\ Latest(rows').status = "Running"
        /\ \A k \in 1..n : rows[k].basis \in Nat
    <2>1. rows \in Seq(Row)
      BY DEF PostgresTypeInv, TypeInv, TypeOK
    <2>2. n \in 1..n /\ n \in Nat
      BY <1>1, <2>1
    <2>3. rows' # <<>>
      <3>1. Len(rows') # 0
        BY <1>2, <2>2
      <3>2. QED
        BY <3>1
    <2>4. \A k \in 1..n : rows[k].basis \in Nat
      <3>1. \A k \in 1..n : rows[k] \in Row
        BY <2>1
      <3>2. QED
        BY <3>1 DEF Row
    <2>5. QED
      <3>1. Latest(rows') = rows'[claim[w].row]
        BY <1>1, <1>2 DEF Latest
      <3>2. QED
        <4> HIDE DEF n
        <4> QED BY <1>2, <2>2, <2>3, <2>4, <3>1
  <1>4. /\ \A v \in Workers : v # w => claim'[v] = claim[v] /\ pc'[v] = "idle"
        /\ claim'[w].stage = "none"
        /\ \/ pc'[w] = "idle"
           \/ pc'[w] = "claimed" /\ op'[w].kind = "input"
    BY <1>1 DEF GiveUp, NoClaim, Move, Live, PostgresTypeInv, TypeInv, TypeOK, ClaimsOK
  <1>5. SingleWorker'
    BY <1>4 DEF SingleWorker, Live
  <1>6. \A v \in Workers : Undisturbed(pc'[v], op'[v], rows')
    BY <1>3, <1>4 DEF Undisturbed
  <1>7. NothingOverwritten'
    <2> SUFFICES ASSUME NEW k \in 1..n, rows[k].basis # 0,
                        NEW j \in (rows[k].basis + 1)..(k - 1)
                 PROVE  rows'[j].by = rows'[k].by
      BY <1>2 DEF NothingOverwritten
    <2>1. j \in 1..n
      BY <1>3
    <2>2. rows[j].by = rows[k].by
      BY DEF AloneInv, NothingOverwritten
    <2>3. QED
      BY <1>2, <2>1, <2>2
  <1>8. PicksAreLatest'
    <2> SUFFICES ASSUME NEW v \in Workers, claim'[v].stage = "update",
                        rows'[claim'[v].row].status = "Yielded"
                 PROVE  FALSE
      BY DEF PicksAreLatest, StillYielded
    <2>1. v # w /\ claim'[v] = claim[v] /\ claim[v].row \in 1..n
      BY <1>4 DEF PostgresTypeInv, ClaimsOK
    <2>2. rows'[claim[v].row] = rows[claim[v].row] /\ claim[v].row # n
      BY <1>1, <1>2, <2>1
    <2>3. QED
      BY <2>1, <2>2 DEF AloneInv, PicksAreLatest, StillYielded
  <1>9. ClaimsAmongClaims'
    BY <1>4 DEF ClaimsAmongClaims, ClaimsOnly, Live
  <1>10. QED
    BY <1>5, <1>6, <1>7, <1>8, <1>9 DEF AloneInv

\* A call begins on a quiet thread.
LEMMA StartKeepsAlone ==
  ASSUME Exclusive, PostgresTypeInv, TypeInv', AloneInv, NEW w \in Workers, StartOther(w)
  PROVE  AloneInv'
PROOF
  <1>1. /\ Quiet /\ UNCHANGED <<rows, claim>>
        /\ \A v \in Workers : ~Claiming(v)
    BY DEF StartOther, StartRun, StartResume
  <1>2. PICK o : /\ Move(w, "head", o) /\ o.kind \in {"run", "resume"}
                 /\ o.basis \in {0, Len(rows)}
    <2>1. CASE StartResume(w)
      <3>1. PICK m : Move(w, "head", NewOp("resume", started + 1, m, Latest(rows).claimed, Len(rows)))
        BY <2>1 DEF StartResume, Begin
      <3>2. QED
        BY <3>1 DEF NewOp
    <2>2. CASE \E m \in Starts : StartRun(w, m)
      <3>1. PICK m : Move(w, "head", NewOp("run", started + 1, m, NoInterrupt, 0))
        BY <2>2 DEF StartRun, Begin
      <3>2. QED
        BY <3>1 DEF NewOp
    <2>3. QED
      BY <2>1, <2>2 DEF StartOther
  <1>3. pc'[w] = "head" /\ op'[w] = o
    BY <1>2 DEF Move, PostgresTypeInv, TypeInv, TypeOK
  <1>4. Undisturbed(pc'[w], op'[w], rows')
    BY <1>1, <1>2, <1>3 DEF Undisturbed
  <1>5. \A v \in Workers : Live(v) => v = w
    BY <1>1 DEF Quiet
  <1>6. SingleWorker' /\ \A v \in Workers : Undisturbed(pc'[v], op'[v], rows')
    BY <1>2, <1>4, <1>5, MoveStaysAlone DEF PostgresTypeInv
  <1>7. NothingOverwritten' /\ PicksAreLatest' /\ ClaimsAmongClaims'
    BY <1>1 DEF AloneInv, NothingOverwritten, PicksAreLatest, StillYielded,
                ClaimsAmongClaims, Claiming
  <1>8. QED
    BY <1>6, <1>7 DEF AloneInv

\* The working call goes on, and is of the same kind; whatever it writes, it
\* leaves no row behind that a pending UPDATE could claim.
LEMMA WorkKeepsAlone ==
  ASSUME ~LostAnswers, PostgresTypeInv, TypeInv', AloneInv, NEW w \in Workers, Works(w)
  PROVE  AloneInv'
PROOF
  <1>0. TypeInv /\ op[w] \in Op /\ UNCHANGED claim
    BY DEF PostgresTypeInv, TypeInv, TypeOK, Works
  <1>1. Live(w) /\ (QuietStep(w) \/ LoadClaimed(w) \/ WriteStep(w))
    BY <1>0, StepShapes, FaultyShapes DEF Works
  <1>2. PICK to, o : Move(w, to, o)
    BY WorkIsMove DEF Works
  <1>3. \A v \in Workers : Live(v) => v = w
    BY <1>1 DEF AloneInv, SingleWorker
  <1>4. Undisturbed(pc[w], op[w], rows) /\ NothingOverwritten
    BY DEF AloneInv
  <1>5. CASE QuietStep(w)
    <2>1. Undisturbed(pc'[w], op'[w], rows')
      BY <1>1, <1>4, <1>5 DEF QuietStep, Undisturbed, SameCall, Live
    <2>2. pc'[w] # "idle" => op'[w].kind = op[w].kind
      BY <1>5 DEF QuietStep, SameCall
    <2>3. NothingOverwritten' /\ PicksAreLatest'
      BY <1>0, <1>5 DEF QuietStep, AloneInv, NothingOverwritten, PicksAreLatest, StillYielded
    <2>4. QED
      BY <1>0, <1>1, <1>2, <1>3, <2>1, <2>2, <2>3, WorkStaysAlone
  <1>6. CASE LoadClaimed(w)
    <2>1. /\ UNCHANGED rows /\ pc[w] = "claimed"
          /\ op'[w].kind = op[w].kind /\ op'[w].loaded = Len(rows) /\ op'[w].basis = Len(rows)
      BY <1>0, <1>6 DEF LoadClaimed, Move, TypeInv, TypeOK, Op
    <2>2. \A j \in (Len(rows) + 1)..Len(rows) : FALSE
      BY <1>0 DEF TypeInv, TypeOK
    <2>3. Undisturbed(pc'[w], op'[w], rows')
      BY <1>4, <2>1, <2>2 DEF Undisturbed
    <2>4. NothingOverwritten' /\ PicksAreLatest'
      BY <1>0, <2>1 DEF AloneInv, NothingOverwritten, PicksAreLatest, StillYielded
    <2>5. QED
      BY <1>0, <1>1, <1>2, <1>3, <2>1, <2>3, <2>4, WorkStaysAlone
  <1>7. CASE WriteStep(w)
    <2>1. Undisturbed(pc'[w], op'[w], rows')
      BY <1>0, <1>1, <1>4, <1>7, WriteUndisturbed
    <2>2. PICK r : OwnWrite(w, r)
      BY <1>7 DEF WriteStep
    <2>3. NothingOverwritten'
      BY <1>0, <1>1, <1>4, <2>2, OwnWriteBuriesNothing
    <2>4. pc'[w] # "idle" => op'[w].kind = op[w].kind
      BY <1>7 DEF WriteStep
    <2>5. PicksAreLatest'
      <3> SUFFICES ASSUME NEW v \in Workers, claim[v].stage = "update",
                          rows'[claim[v].row].status = "Yielded"
                   PROVE  FALSE
        BY <1>0 DEF PicksAreLatest, StillYielded
      <3>1. claim[v].row \in 1..Len(rows)
        BY DEF PostgresTypeInv, ClaimsOK
      <3>2. rows'[claim[v].row] = rows[claim[v].row]
        BY <1>0, <2>2, <3>1, AppendRow DEF OwnWrite, Written, TypeInv, TypeOK
      <3>3. QED
        BY <1>1, <3>2, ClaimFindsNobody DEF StillYielded, Quiet
    <2>6. QED
      BY <1>0, <1>1, <1>2, <1>3, <2>1, <2>3, <2>4, <2>5, WorkStaysAlone
  <1>8. QED
    BY <1>1, <1>5, <1>6, <1>7

\* The three parts together are an invariant.
LEMMA PostgresInvNext ==
  ASSUME Exclusive, ~LostAnswers
  PROVE  PostgresTypeInv /\ AloneInv /\ [PostgresNext]_pvars => AloneInv'
PROOF
  <1> SUFFICES ASSUME PostgresTypeInv, AloneInv, [PostgresNext]_pvars PROVE AloneInv'
    OBVIOUS
  <1>0. claim \in [Workers -> ClaimCall] /\ NoClaim.stage = "none"
    BY DEF PostgresTypeInv, ClaimsOK, NoClaim
  <1>1. CASE UNCHANGED pvars
    BY <1>1 DEF pvars, vars, AloneInv, SingleWorker, Live, NothingOverwritten,
                PicksAreLatest, StillYielded, ClaimsAmongClaims, Claiming, ClaimsOnly
  <1>2. CASE PostgresNext
    <2>0. TypeInv'
      BY <1>2, PostgresKeepsTypeInv
    <2>1. PICK w \in Workers :
            \/ StartOther(w) \/ Works(w) \/ (\E k \in Interrupts : Deliver(w, k))
            \/ Claims(w) \/ ClaimFails(w) \/ ClaimAnswerLost(w)
      BY <1>2 DEF PostgresNext
    <2>2. Claiming(w) => ClaimsOnly
      BY DEF AloneInv, ClaimsAmongClaims
    <2>3. CASE StartOther(w)
      BY <2>0, <2>3, StartKeepsAlone
    <2>4. CASE Works(w)
      BY <2>0, <2>4, WorkKeepsAlone
    <2>5. CASE \E k \in Interrupts : Deliver(w, k)
      BY <2>5, StatementKeepsAlone DEF Deliver, vars
    <2>6. CASE SearchHistory(w) \/ ReadLatest(w)
      <3>1. UNCHANGED <<rows, pc, op>> /\ Claiming(w)
        BY <2>6 DEF SearchHistory, ReadLatest, Claiming, vars
      <3>2. CASE GiveUp(w)
        BY <1>0, <3>1, <3>2, StatementKeepsAlone DEF GiveUp
      <3>3. CASE \E stage \in {"latest", "pick"} : Proceed(w, stage)
        <4>1. PICK stage \in {"latest", "pick"} : Proceed(w, stage)
          BY <3>3
        <4> DEFINE c == [claim[w] EXCEPT !.stage = stage]
        <4>2. claim' = [claim EXCEPT ![w] = c] /\ c.stage = stage
          BY <1>0, <4>1 DEF Proceed, ClaimCall
        <4>3. QED
          <5> HIDE DEF c
          <5> QED BY <2>2, <3>1, <4>1, <4>2, StatementKeepsAlone
      <3>4. QED
        BY <2>6, <3>2, <3>3 DEF SearchHistory, ReadLatest
    <2>7. CASE PickRow(w)
      <3> DEFINE c == [claim[w] EXCEPT !.stage = "update", !.row = Len(rows)]
      <3>1. claim' = [claim EXCEPT ![w] = c] /\ c.row = Len(rows) /\ ClaimsOnly
        BY <1>0, <2>2, <2>7 DEF PickRow, ClaimCall, Claiming
      <3>2. UNCHANGED <<rows, pc, op>>
        BY <2>7 DEF PickRow, vars
      <3>3. QED
        <4> HIDE DEF c
        <4> QED BY <3>1, <3>2, StatementKeepsAlone
    <2>8. CASE Update(w)
      <3>1. \E o : Move(w, "claimed", o) /\ o.kind = "input"
        BY <2>8 DEF Update, Begin, NewOp
      <3>2. QED
        BY <2>0, <2>8, <3>1, ClaimKeepsAlone DEF Update
    <2>9. CASE ClaimAnswerLost(w)
      BY <2>0, <2>9, ClaimKeepsAlone DEF ClaimAnswerLost
    <2>10. CASE UpdateNothing(w) \/ ClaimFails(w)
      BY <1>0, <2>10, StatementKeepsAlone DEF UpdateNothing, ClaimFails, GiveUp, vars
    <2>11. QED
      BY <2>1, <2>3, <2>4, <2>5, <2>6, <2>7, <2>8, <2>9, <2>10 DEF Claims
  <1>3. QED
    BY <1>1, <1>2

LEMMA PostgresInvHolds ==
  ASSUME Exclusive, ~LostAnswers
  PROVE  PostgresSpec => []AloneInv
PROOF
  <1>1. PostgresInit => AloneInv
    BY DEF PostgresInit, Init, AloneInv, SingleWorker, Live, Undisturbed, NothingOverwritten,
           PicksAreLatest, ClaimsAmongClaims, Claiming, NoClaim
  <1>2. QED
    BY <1>1, PostgresInvNext, PostgresTypeInvHolds, PTL DEF PostgresSpec

\* The three statements of the claim let one delivery through, although they are
\* not one transaction: between them only other claims and their runs may write.
THEOREM OneWorkerOnPostgres ==
  ASSUME Exclusive, ~LostAnswers
  PROVE  PostgresSpec => []SingleWorker
PROOF
  <1>1. AloneInv => SingleWorker
    BY DEF AloneInv
  <1>2. QED
    BY <1>1, PostgresInvHolds, PTL

\* No write or rollback on PostgreSQL buries a row that its call has not seen.
THEOREM NothingIsOverwrittenOnPostgres ==
  ASSUME Exclusive, ~LostAnswers
  PROVE  PostgresSpec => []NothingOverwritten
PROOF
  <1>1. AloneInv => NothingOverwritten
    BY DEF AloneInv
  <1>2. QED
    BY <1>1, PostgresInvHolds, PTL
=============================================================================

-------------------------- MODULE PostgresClaims --------------------------
(***************************************************************************)
(* ThreadRuns on the PostgreSQL store, whose claim_interrupt is not one    *)
(* step: it searches the history, reads the latest row and updates the     *)
(* latest row in three statements of their own, without a transaction      *)
(* around them.  Other calls may write between any two.                    *)
(*                                                                         *)
(* The third statement is two steps again: under READ COMMITTED its        *)
(* subquery picks the row from the statement's snapshot, and the row's     *)
(* status is tested once more on the version that is then locked.          *)
(*                                                                         *)
(* While `claim[w].stage` is not "none" worker w is inside claim_interrupt *)
(* and pc[w] is still "idle"; a granted claim goes on at pc "claimed".     *)
(***************************************************************************)
EXTENDS ThreadRuns

VARIABLE claim    \* Workers -> the call of claim_interrupt in progress

pvars == <<vars, claim>>

Stages == {"none", "history", "latest", "pick", "update"}

ClaimCall == [stage     : Stages,
              interrupt : MaybeInterrupt,
              row       : Nat]      \* the id that the subquery picked

NoClaim == [stage |-> "none", interrupt |-> NoInterrupt, row |-> 0]

PostgresTypeOK == /\ TypeOK
                  /\ claim \in [Workers -> ClaimCall]
                  /\ \A w \in Workers :
                       claim[w].stage = "update" => claim[w].row \in 1..Len(rows)

PostgresInit == Init /\ claim = [w \in Workers |-> NoClaim]

Claiming(w) == claim[w].stage # "none"

Proceed(w, stage) == claim' = [claim EXCEPT ![w].stage = stage]
GiveUp(w) == claim' = [claim EXCEPT ![w] = NoClaim]

-----------------------------------------------------------------------------
(* claim_interrupt, statement by statement. *)

\* resume_with_input is called: a delivery of the answer to interrupt k.
Deliver(w, k) ==
  /\ "input" \in Kinds
  /\ Exclusive => ClaimsOnly
  /\ ~Live(w) /\ ~Claiming(w)
  /\ started < MaxOps
  /\ claim' = [claim EXCEPT ![w] = [stage |-> "history", interrupt |-> k, row |-> 0]]
  /\ UNCHANGED vars

\* SELECT EXISTS: AlreadyCompleted, or on to the next statement.
SearchHistory(w) ==
  /\ claim[w].stage = "history"
  /\ IF Resolved(rows, claim[w].interrupt) THEN GiveUp(w) ELSE Proceed(w, "latest")
  /\ UNCHANGED vars

\* SELECT of the latest row: InProgress, nothing to resume, another status or
\* another interrupt end the call.
ReadLatest(w) ==
  /\ claim[w].stage = "latest"
  /\ IF /\ rows # <<>>
        /\ Latest(rows).status = "Yielded"
        /\ Latest(rows).request = claim[w].interrupt
     THEN Proceed(w, "pick")
     ELSE GiveUp(w)
  /\ UNCHANGED vars

\* Fault: the rows are taken to be numbered from zero.
PickRowBefore(w) ==
  /\ claim[w].stage = "pick"
  /\ claim' = [claim EXCEPT ![w].stage = "update", ![w].row = Len(rows) - 1]
  /\ UNCHANGED vars

\* The UPDATE's subquery.
PickRow(w) ==
  /\ claim[w].stage = "pick"
  /\ claim' = [claim EXCEPT ![w].stage = "update", ![w].row = Len(rows)]
  /\ UNCHANGED vars

\* Fault: the UPDATE has no condition on the status.
AnyStatus(k) == TRUE

\* AND status = 'Yielded', on the current version of the row.
StillYielded(k) == rows[k].status = "Yielded"

SetClaimed(w) ==
  rows' = [rows EXCEPT ![claim[w].row].status = "Running",
                       ![claim[w].row].claimed = claim[w].interrupt]

\* rows_affected = 1: Claimed.
Update(w) ==
  /\ claim[w].stage = "update"
  /\ StillYielded(claim[w].row)
  /\ SetClaimed(w)
  /\ Begin(w, "claimed", NewOp("input", started + 1, End, claim[w].interrupt, 0))
  /\ GiveUp(w)
  /\ UNCHANGED faults

\* rows_affected = 0: "Concurrent resume claim failed".
UpdateNothing(w) ==
  /\ claim[w].stage = "update"
  /\ ~StillYielded(claim[w].row)
  /\ GiveUp(w)
  /\ UNCHANGED vars

Claims(w) == SearchHistory(w) \/ ReadLatest(w) \/ PickRow(w) \/ Update(w) \/ UpdateNothing(w)

-----------------------------------------------------------------------------
(* Faults. *)

\* A statement fails without effect, or the process dies in claim_interrupt.
ClaimFails(w) ==
  /\ Claiming(w)
  /\ GiveUp(w)
  /\ Fault
  /\ UNCHANGED <<rows, pc, op>>

\* The UPDATE commits, but its answer is lost: nobody works on the claimed row.
ClaimAnswerLost(w) ==
  /\ StoreErrors
  /\ claim[w].stage = "update"
  /\ StillYielded(claim[w].row)
  /\ SetClaimed(w)
  /\ GiveUp(w)
  /\ Fault
  /\ UNCHANGED <<pc, op>>

-----------------------------------------------------------------------------
\* run and resume of ThreadRuns; their callers wait for claims to be answered.
StartOther(w) ==
  /\ ~Claiming(w)
  /\ Exclusive => \A v \in Workers : ~Claiming(v)
  /\ StartResume(w) \/ \E n \in Starts : StartRun(w, n)
  /\ UNCHANGED claim

Works(w) == (Step(w) \/ Faulty(w)) /\ UNCHANGED claim

PostgresNext ==
  \E w \in Workers :
    \/ StartOther(w) \/ Works(w)
    \/ (\E k \in Interrupts : Deliver(w, k))
    \/ Claims(w) \/ ClaimFails(w) \/ ClaimAnswerLost(w)

PostgresSpec == PostgresInit /\ [][PostgresNext]_pvars

-----------------------------------------------------------------------------
\* A row is claimed once: of any number of deliveries that read it as Yielded one
\* is granted, and no later claim, crash or rollback touches a claimed row again.
RowClaimedOnce ==
  [][\A k \in 1..Len(rows) : rows[k].claimed # NoInterrupt => rows'[k] = rows[k]]_pvars
=============================================================================

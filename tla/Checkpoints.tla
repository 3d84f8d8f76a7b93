---------------------------- MODULE Checkpoints ----------------------------
(***************************************************************************)
(* The checkpoints of one thread, as every store of takeln keeps them: a   *)
(* sequence of rows, oldest first, whose last element is what load_state   *)
(* returns.  This module is data and operators only; ThreadRuns moves it.  *)
(*                                                                         *)
(* A row's workflow state is abstracted to where it came from: `basis` is  *)
(* the number of the row whose state the writer held when it produced this *)
(* one (0: the state handed to Graph::run).  `by` is the operation that    *)
(* wrote the row and `write` the place in the code that did; both are      *)
(* history, the code never reads them.                                     *)
(***************************************************************************)
EXTENDS Naturals, Sequences

CONSTANTS Nodes,         \* node names registered in the graph
          End,           \* the target "__END__"
          Missing,       \* a target that no registered node has
          Interrupts,    \* interrupt ids that nodes yield
          NoInterrupt,   \* the None of an optional interrupt id
          HasHead        \* the store compares expected_head (save_state_bound
                         \* overridden); the built-in stores do not

ASSUME NamesAssumption == /\ End \notin Nodes
                          /\ Missing \notin Nodes \cup {End}
                          /\ NoInterrupt \notin Interrupts
ASSUME HasHeadAssumption == HasHead \in BOOLEAN

Targets == Nodes \cup {End, Missing}
MaybeInterrupt == Interrupts \cup {NoInterrupt}

\* "Failed" is a CheckpointStatus that the executor never saves.
Status == {"Complete", "Running", "Yielded", "Interrupted"}
Writes == {"step", "gate", "yield", "rollback"}

Row == [status   : Status,
        next     : Targets,
        request  : MaybeInterrupt,     \* yield_request, by its interrupt_id
        claimed  : MaybeInterrupt,
        resolved : MaybeInterrupt,
        basis    : Nat,
        by       : Nat,
        write    : Writes]

-----------------------------------------------------------------------------
(* What a store answers. *)

Latest(rows) == rows[Len(rows)]

\* current_head: the number of the last row, 0 for None.
CurrentHead(rows) == IF HasHead THEN Len(rows) ELSE 0

\* A bound write is refused exactly when the store has a head and it moved.
Conflicts(rows, expected) == HasHead /\ expected # CurrentHead(rows)

-----------------------------------------------------------------------------
(* claim_interrupt.  The history is searched for a resolution first        *)
(* (AlreadyCompleted), then the latest row alone decides.                  *)

\* Fault: the history is not searched.
NeverResolved(rows, i) == FALSE

Resolved(rows, i) == \E k \in 1..Len(rows) : rows[k].resolved = i

\* Fault: the status of the latest row is not checked.
ClaimableInAnyStatus(rows, i) ==
  /\ rows # <<>>
  /\ ~Resolved(rows, i)
  /\ Latest(rows).request = i

Claimable(rows, i) ==
  /\ rows # <<>>
  /\ ~Resolved(rows, i)
  /\ Latest(rows).status = "Yielded"
  /\ Latest(rows).request = i

\* Fault: the claimant is noted, the status stays.
ClaimedStillYielded(rows, i) == [rows EXCEPT ![Len(rows)].claimed = i]

\* The compare-and-swap of a granted claim, in place on the latest row.
Claimed(rows, i) ==
  [rows EXCEPT ![Len(rows)].status = "Running", ![Len(rows)].claimed = i]

-----------------------------------------------------------------------------
(* The four kinds of row the sequential executor saves. *)

\* Fault: a finished step is saved as a failed one.
FailedStepRow(next, resolved, basis, by) ==
  [status |-> "Failed", next |-> next, request |-> NoInterrupt,
   claimed |-> NoInterrupt, resolved |-> resolved,
   basis |-> basis, by |-> by, write |-> "step"]

StepRow(next, resolved, basis, by) ==
  [status |-> "Complete", next |-> next, request |-> NoInterrupt,
   claimed |-> NoInterrupt, resolved |-> resolved,
   basis |-> basis, by |-> by, write |-> "step"]

GateRow(next, resolved, basis, by) ==
  [status |-> "Interrupted", next |-> next, request |-> NoInterrupt,
   claimed |-> NoInterrupt, resolved |-> resolved,
   basis |-> basis, by |-> by, write |-> "gate"]

YieldRow(node, request, basis, by) ==
  [status |-> "Yielded", next |-> node, request |-> request,
   claimed |-> NoInterrupt, resolved |-> NoInterrupt,
   basis |-> basis, by |-> by, write |-> "yield"]

RollbackRow(loaded, basis, by) ==
  [status |-> "Yielded", next |-> loaded.next, request |-> loaded.request,
   claimed |-> NoInterrupt, resolved |-> NoInterrupt,
   basis |-> basis, by |-> by, write |-> "rollback"]
=============================================================================

---------------------------- MODULE StoreRows ----------------------------
(***************************************************************************)
(* What one thread's checkpoints look like to the callers of a             *)
(* Checkpointer, and what its methods answer.  MemoryStore keeps them in a *)
(* list, SqlStore in a table.  State, next node and DAG snapshot are what  *)
(* the id stands for: no store looks into them.                            *)
(***************************************************************************)
EXTENDS Naturals, Sequences, FiniteSets

CONSTANTS Interrupts, NoInterrupt,
          Keeps,          \* the n of KeepLast(n) that callers use
          MaxSaves,       \* bound: rows saved in a behaviour
          MaxTime         \* bound: the cutoffs of OlderThan

ASSUME RowsAssumption == /\ NoInterrupt \notin Interrupts
                         /\ Keeps \subseteq Nat
                         /\ MaxSaves \in Nat
                         /\ MaxTime \in Nat

MaybeInterrupt == Interrupts \cup {NoInterrupt}

Status == {"Complete", "Running", "Yielded", "Interrupted", "Failed"}

Checkpoint == [id : Nat, status : Status, request : MaybeInterrupt,
               claimed : MaybeInterrupt, resolved : MaybeInterrupt, created : Nat]

\* What the executors save: steps and gates, and yields.
Contents == [status : {"Complete", "Interrupted"}, request : {NoInterrupt},
             resolved : MaybeInterrupt]
            \cup [status : {"Yielded"}, request : Interrupts, resolved : {NoInterrupt}]

NewRow(id, c, created) ==
  [id |-> id, status |-> c.status, request |-> c.request,
   claimed |-> NoInterrupt, resolved |-> c.resolved, created |-> created]

\* What retain leaves of s, or DELETE of a table: the rows at positions K, in order.
Picked(s, K) ==
  [j \in 1..Cardinality(K) |-> s[CHOOSE k \in K : Cardinality({l \in K : l <= k}) = j]]

-----------------------------------------------------------------------------
(* The answer of the last call. *)

Answer == [call  : {"none", "save", "load", "version", "list", "delete", "claim"},
           rows  : Seq(Checkpoint),
           word  : {"", "Claimed", "AlreadyCompleted", "InProgress", "Running",
                    "NothingToResume", "InvalidResume"},
           count : Nat]

Silent == [call |-> "none", rows |-> <<>>, word |-> "", count |-> 0]

Number(call, k) == [Silent EXCEPT !.call = call, !.count = k]
RowsOf(call, s) == [Silent EXCEPT !.call = call, !.rows = s]
Word(w) == [Silent EXCEPT !.call = "claim", !.word = w]

\* claim_interrupt on a history without a resolution of i, by its latest row.
Verdict(row, i) ==
  CASE row.status = "Running" /\ row.claimed = i  -> "InProgress"
    [] row.status = "Running" /\ row.claimed # i  -> "Running"
    [] row.status = "Yielded" /\ row.request = i  -> "Claimed"
    [] row.status = "Yielded" /\ row.request # i  -> "InvalidResume"
    [] OTHER                                      -> "NothingToResume"
=============================================================================

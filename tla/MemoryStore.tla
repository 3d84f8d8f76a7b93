---------------------------- MODULE MemoryStore ----------------------------
(***************************************************************************)
(* InMemoryCheckpointer: the checkpoints of a thread in a list, in the     *)
(* order in which save_state pushed them, under one mutex.  Every method   *)
(* is one step.  This is also what a caller expects of any store.          *)
(***************************************************************************)
EXTENDS StoreRows

VARIABLES list, answer,
          saves    \* rows saved so far, the last one's checkpoint id

Init == list = <<>> /\ answer = Silent /\ saves = 0

\* Two saves may take created_at in one order and the mutex in the other.
SaveState ==
  \E c \in Contents, t \in 0..MaxTime :
    /\ saves < MaxSaves
    /\ saves' = saves + 1
    /\ list' = Append(list, NewRow(saves + 1, c, t))
    /\ answer' = Number("save", saves + 1)

LoadState ==
  /\ answer' = RowsOf("load", IF list = <<>> THEN <<>> ELSE <<list[Len(list)]>>)
  /\ UNCHANGED <<list, saves>>

LoadVersion ==
  \E id \in 1..saves :
    /\ answer' = RowsOf("version", Picked(list, {k \in 1..Len(list) : list[k].id = id}))
    /\ UNCHANGED <<list, saves>>

ListCheckpoints == answer' = RowsOf("list", list) /\ UNCHANGED <<list, saves>>

KeepAll == answer' = Number("delete", 0) /\ UNCHANGED <<list, saves>>

Drop(kept) == /\ list' = kept
              /\ answer' = Number("delete", Len(list) - Len(kept))
              /\ UNCHANGED saves

KeepLast ==
  \E k \in Keeps :
    Drop(IF Len(list) > k THEN SubSeq(list, Len(list) - k + 1, Len(list)) ELSE list)

OlderThan ==
  \E cutoff \in 0..MaxTime :
    Drop(Picked(list, {k \in 1..Len(list) : list[k].created >= cutoff}))

Resolved(i) == \E k \in 1..Len(list) : list[k].resolved = i

ClaimInterrupt ==
  \E i \in Interrupts :
    LET verdict == CASE Resolved(i)  -> "AlreadyCompleted"
                     [] list = <<>>  -> "NothingToResume"
                     [] OTHER        -> Verdict(list[Len(list)], i)
    IN /\ answer' = Word(verdict)
       /\ list' = IF verdict = "Claimed"
                  THEN [list EXCEPT ![Len(list)].status = "Running",
                                    ![Len(list)].claimed = i]
                  ELSE list
       /\ UNCHANGED saves

Next == \/ SaveState \/ LoadState \/ LoadVersion \/ ListCheckpoints
        \/ KeepAll \/ KeepLast \/ OlderThan \/ ClaimInterrupt

Spec == Init /\ [][Next]_<<list, answer, saves>>
=============================================================================

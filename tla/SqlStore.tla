----------------------------- MODULE SqlStore -----------------------------
(***************************************************************************)
(* The checkpoints of a thread in a table, as SqliteCheckpointer and       *)
(* PostgresCheckpointer keep them: rows in the order of insertion, found   *)
(* by queries that order by created_at.  The two stores issue the same     *)
(* statements for everything but the claim, which is one transaction here  *)
(* as in SQLite; PostgresClaims has PostgreSQL's.                          *)
(*                                                                         *)
(* A save is two steps: created_at is taken (SQLite: before the mutex;     *)
(* PostgreSQL: NOW() of the statement's transaction), the row is there     *)
(* later.  Every other method is one statement or one critical section.    *)
(***************************************************************************)
EXTENDS StoreRows, Integers

CONSTANTS
  Savers,    \* callers that may be saving at the same time
  Ticks,     \* by how much the clock moves from one save to the next; a clock that
             \* is set back has negative ones
  Skew       \* bound: how far a caller's clock is ahead of the store's

ASSUME ClockAssumption == Ticks \subseteq Int /\ Skew \in Nat

VARIABLES table, answer, saves,
          clock,     \* what the next save is stamped with
          saving,    \* Savers -> the rows stamped, but not inserted yet
          resolvedEver,   \* history: interrupts with a resolution inserted
          forgotten       \* history: interrupts whose resolution was deleted

vars == <<table, answer, saves, clock, saving, resolvedEver, forgotten>>
history == <<resolvedEver, forgotten>>

TypeOK == /\ table \in Seq(Checkpoint)
          /\ answer \in Answer
          /\ saves \in Nat
          /\ clock \in Nat
          /\ saving \in [Savers -> Seq(Checkpoint)]
          /\ \A s \in Savers : Len(saving[s]) <= 1
          /\ resolvedEver \subseteq Interrupts
          /\ forgotten \subseteq resolvedEver
          /\ \A k, l \in 1..Len(table) : table[k].id = table[l].id => k = l

Init == /\ table = <<>>
        /\ answer = Silent
        /\ saves = 0
        /\ clock = 1
        /\ saving = [s \in Savers |-> <<>>]
        /\ resolvedEver = {}
        /\ forgotten = {}

ResolutionsIn(rows) == {rows[k].resolved : k \in 1..Len(rows)} \ {NoInterrupt}

-----------------------------------------------------------------------------
(* Queries. *)

\* Fault: ORDER BY created_at without DESC.
Oldest(rows) == {k \in 1..Len(rows) : \A l \in 1..Len(rows) : rows[k].created <= rows[l].created}

\* ORDER BY created_at DESC LIMIT 1: rows with equal stamps are in no order.
Newest(rows) == {k \in 1..Len(rows) : \A l \in 1..Len(rows) : rows[l].created <= rows[k].created}

\* Fault: the oldest rows are kept.
FirstRows(rows, n) ==
  {K \in SUBSET (1..Len(rows)) :
     /\ Cardinality(K) = IF Len(rows) > n THEN n ELSE Len(rows)
     /\ \A k \in K : \A l \in (1..Len(rows)) \ K : rows[k].created <= rows[l].created}

\* The same with LIMIT n: the sets of rows it may answer.
NewestRows(rows, n) ==
  {K \in SUBSET (1..Len(rows)) :
     /\ Cardinality(K) = IF Len(rows) > n THEN n ELSE Len(rows)
     /\ \A k \in K : \A l \in (1..Len(rows)) \ K : rows[l].created <= rows[k].created}

\* ORDER BY created_at ASC: the orders in which the rows may be listed.
Ascending(rows) ==
  LET n == Len(rows)
      InOrder(p) == \A k, l \in 1..n : k < l => /\ p[k] # p[l]
                                                /\ rows[p[k]].created <= rows[p[l]].created
  IN {[k \in 1..n |-> rows[p[k]]] : p \in {q \in [1..n -> 1..n] : InOrder(q)}}

\* The status column is text, written with {:?}; an unknown text reads as Complete.
ParseStatus(text) == IF text \in Status THEN text ELSE "Complete"

ToMeta(row) == [row EXCEPT !.status = ParseStatus(@)]

-----------------------------------------------------------------------------
(* The methods of Checkpointer. *)

Stamp(s) ==
  /\ saving[s] = <<>>
  /\ saves + Cardinality({r \in Savers : saving[r] # <<>>}) < MaxSaves
  /\ \E c \in Contents, d \in Ticks :
       /\ clock + d >= 0
       /\ saving' = [saving EXCEPT ![s] = <<NewRow(0, c, clock)>>]
       /\ clock' = clock + d
  /\ UNCHANGED <<table, answer, saves, history>>

\* The row is there: its id, a random UUID, is told to the caller.
Insert(s) ==
  /\ saving[s] # <<>>
  /\ LET row == [saving[s][1] EXCEPT !.id = saves + 1]
     IN /\ table' = Append(table, row)
        /\ resolvedEver' = resolvedEver \cup ResolutionsIn(<<row>>)
  /\ saves' = saves + 1
  /\ saving' = [saving EXCEPT ![s] = <<>>]
  /\ answer' = Number("save", saves + 1)
  /\ UNCHANGED <<clock, forgotten>>

LoadState ==
  /\ IF table = <<>>
     THEN answer' = RowsOf("load", <<>>)
     ELSE \E k \in Newest(table) : answer' = RowsOf("load", <<ToMeta(table[k])>>)
  /\ UNCHANGED <<table, saves, clock, saving, history>>

LoadVersion ==
  /\ \E id \in 1..saves :
       answer' = IF \E k \in 1..Len(table) : table[k].id = id
                 THEN RowsOf("version", <<ToMeta(CHOOSE r \in {table[k] : k \in 1..Len(table)} :
                                                   r.id = id)>>)
                 ELSE RowsOf("version", <<>>)
  /\ UNCHANGED <<table, saves, clock, saving, history>>

ListCheckpoints ==
  /\ \E rows \in Ascending(table) :
       answer' = RowsOf("list", [k \in 1..Len(rows) |-> ToMeta(rows[k])])
  /\ UNCHANGED <<table, saves, clock, saving, history>>

KeepAll ==
  /\ answer' = Number("delete", 0)
  /\ UNCHANGED <<table, saves, clock, saving, history>>

\* Fault: what is left is counted from the wrong side.
DeleteMiscounted(kept) ==
  /\ table' = Picked(table, {k \in 1..Len(table) : table[k].id \in kept})
  /\ answer' = Number("delete", Len(table') - Len(table))
  /\ forgotten' = forgotten \cup (ResolutionsIn(table) \ ResolutionsIn(table'))
  /\ UNCHANGED <<saves, clock, saving, resolvedEver>>

\* DELETE of the rows that are not kept.
Delete(kept) ==
  /\ table' = Picked(table, {k \in 1..Len(table) : table[k].id \in kept})
  /\ answer' = Number("delete", Len(table) - Len(table'))
  /\ forgotten' = forgotten \cup (ResolutionsIn(table) \ ResolutionsIn(table'))
  /\ UNCHANGED <<saves, clock, saving, resolvedEver>>

KeepLast(n) == \E K \in NewestRows(table, n) : Delete({table[k].id : k \in K})

OlderThan ==
  \E cutoff \in 0..(clock + Skew) :
    Delete({table[k].id : k \in {l \in 1..Len(table) : table[l].created >= cutoff}})

\* Fault: only the latest row is searched for a resolution.
ResolvedByNewest(rows, i) == \E k \in Newest(rows) : rows[k].resolved = i

Resolved(rows, i) == \E k \in 1..Len(rows) : rows[k].resolved = i

\* One transaction: the history and the latest row decide, and the UPDATE's
\* subquery finds the row that was just looked at.
ClaimAnswers(w) == answer' = Word(w) /\ UNCHANGED table

ClaimInterrupt(i) ==
  /\ IF Resolved(table, i) THEN ClaimAnswers("AlreadyCompleted")
     ELSE IF table = <<>> THEN ClaimAnswers("NothingToResume")
     ELSE \E k \in Newest(table) :
            LET verdict == Verdict(ToMeta(table[k]), i)
            IN IF verdict # "Claimed" THEN ClaimAnswers(verdict)
               ELSE /\ table' = [table EXCEPT ![k].status = "Running", ![k].claimed = i]
                    /\ answer' = Word("Claimed")
  /\ UNCHANGED <<saves, clock, saving, history>>

Next == \/ \E s \in Savers : Stamp(s) \/ Insert(s)
        \/ LoadState \/ LoadVersion \/ ListCheckpoints
        \/ KeepAll \/ (\E n \in Keeps : KeepLast(n)) \/ OlderThan
        \/ \E i \in Interrupts : ClaimInterrupt(i)

Spec == Init /\ [][Next]_vars

-----------------------------------------------------------------------------
\* A store with one saver at a time and a clock that advances from save to save
\* answers every call as the list does: what was saved last is what load_state
\* returns, what a claim is decided by, and what retention keeps.
Memory == INSTANCE MemoryStore WITH list <- table
MemorySpec == Memory!Spec

\* KeepLast, but with n = 0, never changes what load_state answers: a pending or
\* claimed interrupt survives every such retention.
HeadSurvivesKeepLast ==
  [][\A n \in Keeps \ {0} : KeepLast(n) /\ table # <<>> =>
       {table'[k] : k \in Newest(table')} \subseteq {table[k] : k \in Newest(table)}
       /\ table' # <<>>]_vars

\* An interrupt that was resolved before is granted again only when retention
\* has deleted the row that said so.
RegrantedOnlyAfterRetention ==
  [][\A i \in Interrupts :
       ClaimInterrupt(i) /\ answer'.word = "Claimed" /\ i \in resolvedEver => i \in forgotten]_vars
=============================================================================

-------------------------- MODULE SqlStoreProofs --------------------------
(***************************************************************************)
(* Proofs about SqlStore: for any savers and any clock, what retention     *)
(* keeps and forgets; for one saver and a clock that advances, that the    *)
(* table answers as the list of MemoryStore does.                          *)
(***************************************************************************)
EXTENDS SqlStore, SequenceTheorems, FiniteSetTheorems, TLAPS

-----------------------------------------------------------------------------
(* Picked: the rank of a position among those picked is its place. *)

Rank(K, k) == Cardinality({l \in K : l <= k})
Nth(K, j) == CHOOSE k \in K : Rank(K, k) = j

\* Positions of a sequence are finitely many.
LEMMA PositionsFinite ==
  ASSUME NEW n \in Nat, NEW K \in SUBSET (1..n)
  PROVE  /\ IsFiniteSet(K) /\ Cardinality(K) \in Nat /\ Cardinality(K) <= n
         /\ Cardinality(K) = n => K = 1..n
PROOF
  <1>1. IsFiniteSet(1..n) /\ Cardinality(1..n) = n
    BY FS_Interval
  <1>2. QED
    BY <1>1, FS_Subset, FS_CardinalityType

\* A later position has a higher rank.
LEMMA RankIncreases ==
  ASSUME NEW n \in Nat, NEW K \in SUBSET (1..n), NEW k \in K
  PROVE  /\ Rank(K, k) \in 1..Cardinality(K)
         /\ \A l \in K : k < l => Rank(K, k) < Rank(K, l)
PROOF
  <1> DEFINE UpTo(m) == {l \in K : l <= m}
  <1>0. \A m \in K : m \in Nat
    OBVIOUS
  <1>1. \A m : UpTo(m) \in SUBSET (1..n) /\ UpTo(m) \in SUBSET K
    OBVIOUS
  <1>2. \A m : IsFiniteSet(UpTo(m)) /\ Cardinality(UpTo(m)) \in Nat
    BY <1>1, PositionsFinite
  <1>3. IsFiniteSet(K) /\ Cardinality(K) \in Nat
    BY PositionsFinite
  <1>4. Cardinality(UpTo(k)) <= Cardinality(K)
    BY <1>1, <1>3, FS_Subset
  <1>5. Cardinality(UpTo(k)) # 0
    <2>1. k \in UpTo(k)
      OBVIOUS
    <2>2. QED
      BY <1>2, <2>1, FS_EmptySet
  <1>6. \A m : Rank(K, m) = Cardinality(UpTo(m))
    BY DEF Rank
  <1>7. ASSUME NEW l \in K, k < l PROVE Cardinality(UpTo(k)) < Cardinality(UpTo(l))
    <2>1. UpTo(k) \in SUBSET UpTo(l)
      <3>1. \A m \in K : m <= k => m <= l
        BY <1>0, <1>7
      <3>2. QED
        BY <3>1
    <2>2. l \in UpTo(l) /\ l \notin UpTo(k)
      BY <1>0, <1>7
    <2> HIDE DEF UpTo
    <2>3. Cardinality(UpTo(k)) <= Cardinality(UpTo(l)) /\ Cardinality(UpTo(k)) # Cardinality(UpTo(l))
      BY <1>2, <2>1, <2>2, FS_Subset
    <2>4. QED
      BY <1>2, <2>3
  <1> HIDE DEF UpTo
  <1>8. QED
    BY <1>2, <1>3, <1>4, <1>5, <1>6, <1>7

\* Every place is taken by exactly one of the positions picked.
LEMMA NthOfRank ==
  ASSUME NEW n \in Nat, NEW K \in SUBSET (1..n)
  PROVE  /\ \A j \in 1..Cardinality(K) : Nth(K, j) \in K /\ Rank(K, Nth(K, j)) = j
         /\ \A k \in K : Rank(K, k) \in 1..Cardinality(K) /\ Nth(K, Rank(K, k)) = k
         /\ \A i, j \in 1..Cardinality(K) : i < j => Nth(K, i) < Nth(K, j)
PROOF
  <1> DEFINE c == Cardinality(K)
             rank == [k \in K |-> Rank(K, k)]
  <1>1. /\ c \in Nat /\ IsFiniteSet(K) /\ Cardinality(K) = c
        /\ IsFiniteSet(1..c) /\ Cardinality(1..c) = c
    <2>1. c \in Nat /\ IsFiniteSet(K) /\ Cardinality(K) = c
      BY PositionsFinite
    <2> HIDE DEF c
    <2>2. QED
      BY <2>1, FS_Interval
  <1>2. \A k \in K : Rank(K, k) \in 1..c /\ k \in Nat
    <2>1. \A k \in K : k \in Nat
      OBVIOUS
    <2>2. QED
      BY <2>1, RankIncreases
  <1>3. \A k, l \in K : k < l => Rank(K, k) < Rank(K, l)
    BY RankIncreases
  <1> HIDE DEF c
  <1>4. \A k, l \in K : Rank(K, k) = Rank(K, l) => k = l
    <2>1. \A k, l \in K : k < l \/ l < k \/ k = l
      BY <1>2
    <2>2. \A k \in K : ~(Rank(K, k) < Rank(K, k))
      BY <1>1, <1>2
    <2>3. QED
      BY <1>3, <2>1, <2>2
  <1>5. rank \in Injection(K, 1..c)
    <2>1. rank \in [K -> 1..c]
      BY <1>2
    <2>2. \A k, l \in K : rank[k] = rank[l] => k = l
      BY <1>4
    <2>3. QED
      BY <2>1, <2>2 DEF Injection, IsInjective
  <1>6. rank \in Surjection(K, 1..c)
    BY <1>1, <1>5, FS_Injection
  <1>7. \A j \in 1..c : \E k \in K : Rank(K, k) = j
    BY <1>6 DEF Surjection
  <1>8. \A j \in 1..c : Nth(K, j) \in K /\ Rank(K, Nth(K, j)) = j
    BY <1>7 DEF Nth
  <1>9. \A k \in K : Nth(K, Rank(K, k)) = k
    BY <1>2, <1>4, <1>8
  <1>10. \A i, j \in 1..c : i < j => Nth(K, i) < Nth(K, j)
    <2> SUFFICES ASSUME NEW i \in 1..c, NEW j \in 1..c, i < j PROVE Nth(K, i) < Nth(K, j)
      OBVIOUS
    <2>1. ~(j < i) /\ i # j
      BY <1>1
    <2>2. Nth(K, i) \in K /\ Nth(K, j) \in K /\ Nth(K, i) \in Nat /\ Nth(K, j) \in Nat
      BY <1>2, <1>8
    <2>3. Nth(K, i) # Nth(K, j)
      BY <1>8, <2>1
    <2>4. ~(Nth(K, j) < Nth(K, i))
      BY <1>3, <1>8, <2>1, <2>2
    <2>5. QED
      BY <2>2, <2>3, <2>4
  <1>11. QED
    BY <1>2, <1>8, <1>9, <1>10 DEF c

\* The rows picked are those at the positions picked, in their order.
LEMMA PickedRows ==
  ASSUME NEW S, NEW s \in Seq(S), NEW K \in SUBSET (1..Len(s))
  PROVE  /\ Picked(s, K) \in Seq(S)
         /\ Len(Picked(s, K)) = Cardinality(K)
         /\ Cardinality(K) \in Nat /\ Cardinality(K) <= Len(s) /\ Len(s) \in Nat
         /\ \A j \in 1..Cardinality(K) : /\ Nth(K, j) \in K
                                         /\ Nth(K, j) \in 1..Len(s)
                                         /\ Picked(s, K)[j] = s[Nth(K, j)]
         /\ \A k \in K : \E j \in 1..Cardinality(K) : Picked(s, K)[j] = s[k] /\ Nth(K, j) = k
         /\ \A i, j \in 1..Cardinality(K) : i < j => Nth(K, i) < Nth(K, j)
PROOF
  <1> DEFINE c == Cardinality(K)
             p == Picked(s, K)
  <1>1. Len(s) \in Nat /\ c \in Nat /\ c <= Len(s)
    BY PositionsFinite
  <1>2. /\ \A j \in 1..c : Nth(K, j) \in K
        /\ \A k \in K : Rank(K, k) \in 1..c /\ Nth(K, Rank(K, k)) = k
        /\ \A i, j \in 1..c : i < j => Nth(K, i) < Nth(K, j)
    BY <1>1, NthOfRank
  <1>3. p = [j \in 1..c |-> s[Nth(K, j)]]
    BY DEF Picked, Nth, Rank
  <1> HIDE DEF p, c
  <1>4. \A j \in 1..c : Nth(K, j) \in 1..Len(s) /\ p[j] = s[Nth(K, j)]
    BY <1>2, <1>3
  <1>5. p \in [1..c -> S]
    BY <1>2, <1>3, <1>4
  <1>6. p \in Seq(S) /\ Len(p) = c
    BY <1>1, <1>5
  <1>7. \A k \in K : \E j \in 1..c : p[j] = s[k] /\ Nth(K, j) = k
    BY <1>2, <1>4
  <1>8. QED
    BY <1>1, <1>2, <1>4, <1>6, <1>7 DEF p, c
-----------------------------------------------------------------------------
(* Rows and answers. *)

\* A stamped row, with no id yet, and the row that is inserted for it.
LEMMA NewRowTyped ==
  ASSUME NEW c \in Contents, NEW n \in Nat, NEW t \in Nat
  PROVE  /\ NewRow(n, c, t) \in Checkpoint
         /\ NewRow(n, c, t).created = t /\ NewRow(n, c, t).id = n
         /\ NewRow(n, c, t).resolved = c.resolved
         /\ [NewRow(0, c, t) EXCEPT !.id = n] = NewRow(n, c, t)
  BY DEF NewRow, Contents, Checkpoint, Status, MaybeInterrupt

\* An inserted row has its id.
LEMMA IdentifiedRow ==
  ASSUME NEW r \in Checkpoint, NEW n \in Nat
  PROVE  /\ [r EXCEPT !.id = n] \in Checkpoint /\ [r EXCEPT !.id = n].id = n
         /\ [r EXCEPT !.id = n].resolved = r.resolved
         /\ [r EXCEPT !.id = n].created = r.created
         /\ r.resolved \in MaybeInterrupt
  BY DEF Checkpoint

\* Every status written is read back as it was.
LEMMA ToMetaIsIdentity ==
  ASSUME NEW r \in Checkpoint
  PROVE  ToMeta(r) = r
  BY DEF ToMeta, ParseStatus, Checkpoint

\* The answers of the methods are answers.
LEMMA AnswersTyped ==
  /\ Silent \in Answer
  /\ \A n \in Nat : Number("save", n) \in Answer /\ Number("delete", n) \in Answer
  /\ \A s \in Seq(Checkpoint) :
       RowsOf("load", s) \in Answer /\ RowsOf("version", s) \in Answer /\ RowsOf("list", s) \in Answer
  /\ \A w \in {"Claimed", "AlreadyCompleted", "InProgress", "Running", "NothingToResume",
               "InvalidResume"} : Word(w) \in Answer /\ Word(w).word = w
PROOF
  <1>1. Silent \in Answer
    BY EmptySeq DEF Silent, Answer
  <1>2. QED
    BY <1>1 DEF Number, RowsOf, Word, Answer

\* A decision is one of the answers to a claim.
LEMMA VerdictTyped ==
  ASSUME NEW r, NEW i
  PROVE  Verdict(r, i) \in {"Claimed", "InProgress", "Running", "NothingToResume", "InvalidResume"}
  BY DEF Verdict

\* A saved row adds its own resolution.
LEMMA ResolutionsOfAppend ==
  ASSUME NEW s \in Seq(Checkpoint), NEW r \in Checkpoint
  PROVE  ResolutionsIn(Append(s, r)) = ResolutionsIn(s) \cup ResolutionsIn(<<r>>)
PROOF
  <1>1. /\ Len(s) \in Nat /\ Len(Append(s, r)) = Len(s) + 1
        /\ \A k \in 1..Len(s) : Append(s, r)[k] = s[k]
        /\ Append(s, r)[Len(s) + 1] = r
    OBVIOUS
  <1>2. {Append(s, r)[k].resolved : k \in 1..Len(Append(s, r))}
          = {s[k].resolved : k \in 1..Len(s)} \cup {r.resolved}
    <2>1. 1..(Len(s) + 1) = (1..Len(s)) \cup {Len(s) + 1}
      BY <1>1
    <2>2. QED
      BY <1>1, <2>1
  <1>3. Len(<<r>>) = 1 /\ <<r>>[1] = r
    OBVIOUS
  <1>4. {<<r>>[k].resolved : k \in 1..Len(<<r>>)} = {r.resolved}
    <2>1. 1..1 = {1}
      OBVIOUS
    <2>2. QED
      BY <1>3, <2>1
  <1>5. QED
    BY <1>2, <1>4 DEF ResolutionsIn

\* Retention adds none.
LEMMA ResolutionsOfPicked ==
  ASSUME NEW s \in Seq(Checkpoint), NEW K \in SUBSET (1..Len(s))
  PROVE  ResolutionsIn(Picked(s, K)) \subseteq ResolutionsIn(s)
  BY PickedRows DEF ResolutionsIn

\* A granted claim changes the status and the claimant of one row.
ClaimedAt(s, k, i) == [s EXCEPT ![k].status = "Running", ![k].claimed = i]

\* Such a row stays where it is, with its id, its stamp and its resolution.
LEMMA ClaimedAtRows ==
  ASSUME NEW s \in Seq(Checkpoint), NEW k \in 1..Len(s), NEW i \in Interrupts
  PROVE  /\ ClaimedAt(s, k, i) \in Seq(Checkpoint)
         /\ Len(ClaimedAt(s, k, i)) = Len(s)
         /\ \A l \in 1..Len(s) : /\ ClaimedAt(s, k, i)[l].id = s[l].id
                                 /\ ClaimedAt(s, k, i)[l].created = s[l].created
                                 /\ ClaimedAt(s, k, i)[l].resolved = s[l].resolved
         /\ ResolutionsIn(ClaimedAt(s, k, i)) = ResolutionsIn(s)
PROOF
  <1> DEFINE r == [s[k] EXCEPT !.status = "Running", !.claimed = i]
             t == ClaimedAt(s, k, i)
  <1>1. s[k] \in Checkpoint /\ Len(s) \in Nat /\ \A l \in 1..Len(s) : s[l] \in Checkpoint
    OBVIOUS
  <1>2. /\ r \in Checkpoint
        /\ r.id = s[k].id /\ r.created = s[k].created /\ r.resolved = s[k].resolved
    BY <1>1 DEF Checkpoint, Status, MaybeInterrupt
  <1>3. t = [s EXCEPT ![k] = r]
    BY <1>1 DEF ClaimedAt, Checkpoint
  <1> HIDE DEF r, t
  <1>4. t \in Seq(Checkpoint) /\ Len(t) = Len(s)
    BY <1>2, <1>3, ExceptSeq
  <1>5. \A l \in 1..Len(s) : t[l] = IF l = k THEN r ELSE s[l]
    BY <1>3
  <1>6. \A l \in 1..Len(s) : /\ t[l].id = s[l].id /\ t[l].created = s[l].created
                             /\ t[l].resolved = s[l].resolved
    BY <1>2, <1>5
  <1>7. ResolutionsIn(t) = ResolutionsIn(s)
    BY <1>4, <1>6 DEF ResolutionsIn
  <1>8. QED
    BY <1>4, <1>6, <1>7 DEF t
-----------------------------------------------------------------------------
(* Type correctness: ids are given in the order of insertion, so no two rows share one. *)

IdsBelow(rows, n) ==
  /\ rows \in Seq(Checkpoint)
  /\ \A k \in 1..Len(rows) : rows[k].id \in 1..n
  /\ \A k, l \in 1..Len(rows) : rows[k].id = rows[l].id => k = l

\* The next id is new.
LEMMA InsertKeepsIds ==
  ASSUME NEW s, NEW n \in Nat, IdsBelow(s, n), NEW r \in Checkpoint, r.id = n + 1
  PROVE  IdsBelow(Append(s, r), n + 1)
PROOF
  <1> DEFINE t == Append(s, r)
  <1>1. /\ s \in Seq(Checkpoint) /\ Len(s) \in Nat
        /\ t \in Seq(Checkpoint) /\ Len(t) = Len(s) + 1
        /\ \A k \in 1..Len(s) : t[k] = s[k]
        /\ t[Len(s) + 1] = r
    BY DEF IdsBelow
  <1> HIDE DEF t
  <1>2. \A k \in 1..Len(t) : k \in 1..Len(s) \/ k = Len(s) + 1
    BY <1>1
  <1>3. \A k \in 1..Len(t) : t[k].id \in 1..(n + 1)
    BY <1>1, <1>2 DEF IdsBelow
  <1>4. \A k \in 1..Len(s) : t[k].id # n + 1
    BY <1>1 DEF IdsBelow
  <1>5. \A k, l \in 1..Len(t) : t[k].id = t[l].id => k = l
    BY <1>1, <1>2, <1>4 DEF IdsBelow
  <1>6. QED
    BY <1>1, <1>3, <1>5 DEF IdsBelow, t

\* Retention and claims change no id.
LEMMA PickKeepsIds ==
  ASSUME NEW s, NEW n \in Nat, IdsBelow(s, n), NEW K \in SUBSET (1..Len(s))
  PROVE  IdsBelow(Picked(s, K), n) /\ Len(s) - Len(Picked(s, K)) \in Nat
PROOF
  <1> DEFINE t == Picked(s, K)
             c == Cardinality(K)
  <1>1. /\ t \in Seq(Checkpoint) /\ Len(t) = c
        /\ c \in Nat /\ c <= Len(s) /\ Len(s) \in Nat
        /\ \A j \in 1..c : Nth(K, j) \in 1..Len(s) /\ t[j] = s[Nth(K, j)]
        /\ \A i, j \in 1..c : i < j => Nth(K, i) < Nth(K, j)
    BY PickedRows DEF IdsBelow
  <1> HIDE DEF t, c
  <1>2. \A j \in 1..c : t[j].id \in 1..n
    BY <1>1 DEF IdsBelow
  <1>3. ASSUME NEW i \in 1..c, NEW j \in 1..c, t[i].id = t[j].id PROVE i = j
    <2>1. Nth(K, i) = Nth(K, j)
      BY <1>1, <1>3 DEF IdsBelow
    <2>2. ~(i < j) /\ ~(j < i)
      BY <1>1, <2>1
    <2>3. QED
      BY <1>1, <2>2
  <1>4. QED
    BY <1>1, <1>2, <1>3 DEF IdsBelow, t

\* A claim leaves every id in place.
LEMMA ClaimKeepsIds ==
  ASSUME NEW s, NEW n \in Nat, IdsBelow(s, n), NEW k \in 1..Len(s), NEW i \in Interrupts
  PROVE  IdsBelow(ClaimedAt(s, k, i), n)
PROOF
  <1> DEFINE t == ClaimedAt(s, k, i)
  <1>1. s \in Seq(Checkpoint)
    BY DEF IdsBelow
  <1>2. t \in Seq(Checkpoint) /\ Len(t) = Len(s) /\ \A l \in 1..Len(s) : t[l].id = s[l].id
    BY <1>1, ClaimedAtRows
  <1> HIDE DEF t
  <1>3. IdsBelow(t, n)
    BY <1>2 DEF IdsBelow
  <1>4. QED
    BY <1>3 DEF t

\* What is in the table was inserted before.
Stored == /\ IdsBelow(table, saves)
          /\ ResolutionsIn(table) \subseteq resolvedEver

\* Retention forgets what it deletes.
LEMMA DeleteKeepsTypes ==
  ASSUME TypeOK, Stored, NEW kept, Delete(kept)
  PROVE  TypeOK' /\ Stored'
PROOF
  <1> DEFINE K == {k \in 1..Len(table) : table[k].id \in kept}
  <1>1. /\ K \in SUBSET (1..Len(table)) /\ table' = Picked(table, K)
        /\ answer' = Number("delete", Len(table) - Len(table'))
        /\ forgotten' = forgotten \cup (ResolutionsIn(table) \ ResolutionsIn(table'))
        /\ UNCHANGED <<saves, clock, saving, resolvedEver>>
    BY DEF Delete
  <1> HIDE DEF K
  <1>2. IdsBelow(table', saves) /\ Len(table) - Len(table') \in Nat
    BY <1>1, PickKeepsIds DEF TypeOK, Stored
  <1>3. ResolutionsIn(table') \subseteq ResolutionsIn(table)
    BY <1>1, ResolutionsOfPicked DEF TypeOK
  <1>4. answer' \in Answer
    BY <1>1, <1>2, AnswersTyped
  <1>5. ResolutionsIn(table') \subseteq resolvedEver /\ forgotten' \subseteq resolvedEver
    BY <1>1, <1>3 DEF TypeOK, Stored
  <1>6. table' \in Seq(Checkpoint)
        /\ \A k, l \in 1..Len(table') : table'[k].id = table'[l].id => k = l
    BY <1>2 DEF IdsBelow
  <1>7. Stored'
    BY <1>1, <1>2, <1>5 DEF Stored, ResolutionsIn, IdsBelow
  <1>8. QED
    BY <1>1, <1>4, <1>5, <1>6, <1>7 DEF TypeOK

\* A stamped row waits outside the table.
LEMMA StampKeepsTypes ==
  ASSUME TypeOK, Stored, NEW s \in Savers, Stamp(s)
  PROVE  TypeOK' /\ Stored'
PROOF
  <1>1. PICK c \in Contents, d \in Ticks :
          /\ clock + d >= 0
          /\ saving' = [saving EXCEPT ![s] = <<NewRow(0, c, clock)>>] /\ clock' = clock + d
    BY DEF Stamp
  <1>2. UNCHANGED <<table, answer, saves, resolvedEver, forgotten>>
    BY DEF Stamp, history
  <1>3. clock \in Nat /\ clock' \in Nat
    BY <1>1, ClockAssumption DEF TypeOK
  <1>4. NewRow(0, c, clock) \in Checkpoint
    BY <1>3, NewRowTyped
  <1>5. <<NewRow(0, c, clock)>> \in Seq(Checkpoint) /\ Len(<<NewRow(0, c, clock)>>) = 1
    BY <1>4
  <1>6. saving' \in [Savers -> Seq(Checkpoint)] /\ \A r \in Savers : Len(saving'[r]) <= 1
    BY <1>1, <1>5 DEF TypeOK
  <1>7. Stored'
    BY <1>2 DEF Stored, ResolutionsIn, IdsBelow
  <1>8. QED
    BY <1>2, <1>3, <1>6, <1>7 DEF TypeOK

\* The inserted row takes the next id, and its resolution is recorded.
LEMMA InsertKeepsTypes ==
  ASSUME TypeOK, Stored, NEW s \in Savers, Insert(s)
  PROVE  TypeOK' /\ Stored'
PROOF
  <1> DEFINE row == [saving[s][1] EXCEPT !.id = saves + 1]
  <1>1. /\ saving[s] # <<>>
        /\ table' = Append(table, row)
        /\ resolvedEver' = resolvedEver \cup ResolutionsIn(<<row>>)
        /\ saves' = saves + 1
        /\ saving' = [saving EXCEPT ![s] = <<>>]
        /\ answer' = Number("save", saves + 1)
        /\ UNCHANGED <<clock, forgotten>>
    BY DEF Insert
  <1>2. saving[s] \in Seq(Checkpoint) /\ saves \in Nat /\ table \in Seq(Checkpoint)
    BY DEF TypeOK
  <1>3. saving[s][1] \in Checkpoint
    BY <1>1, <1>2
  <1>4. row \in Checkpoint /\ row.id = saves + 1 /\ row.resolved \in MaybeInterrupt
    <2>1. saves + 1 \in Nat
      BY <1>2
    <2>2. QED
      BY <1>3, <2>1, IdentifiedRow
  <1> HIDE DEF row
  <1>5. IdsBelow(table', saves')
    BY <1>1, <1>2, <1>4, InsertKeepsIds DEF Stored
  <1>6. ResolutionsIn(<<row>>) \subseteq Interrupts
    <2>1. Len(<<row>>) = 1 /\ <<row>>[1] = row
      OBVIOUS
    <2>2. QED
      BY <1>4, <2>1 DEF ResolutionsIn, MaybeInterrupt
  <1>7. /\ ResolutionsIn(table') \subseteq resolvedEver'
        /\ resolvedEver' \subseteq Interrupts /\ forgotten' \subseteq resolvedEver'
    BY <1>1, <1>2, <1>4, <1>6, ResolutionsOfAppend DEF TypeOK, Stored
  <1>8. answer' \in Answer /\ saves' \in Nat
    BY <1>1, <1>2, AnswersTyped
  <1>9. saving' \in [Savers -> Seq(Checkpoint)] /\ \A r \in Savers : Len(saving'[r]) <= 1
    <2>1. <<>> \in Seq(Checkpoint) /\ Len(<<>>) = 0
      OBVIOUS
    <2>2. QED
      BY <1>1, <2>1 DEF TypeOK
  <1>10. Stored'
    BY <1>5, <1>7 DEF Stored, ResolutionsIn, IdsBelow
  <1>11. QED
    BY <1>1, <1>5, <1>7, <1>8, <1>9, <1>10 DEF TypeOK, IdsBelow
\* What is listed are rows of the table, read back as they were written.
LEMMA ListedRows ==
  ASSUME NEW s \in Seq(Checkpoint), NEW t \in Ascending(s)
  PROVE  /\ t \in Seq(Checkpoint)
         /\ [k \in 1..Len(t) |-> ToMeta(t[k])] = t
PROOF
  <1>1. PICK p \in [1..Len(s) -> 1..Len(s)] : t = [k \in 1..Len(s) |-> s[p[k]]]
    BY DEF Ascending
  <1>2. Len(s) \in Nat /\ \A k \in 1..Len(s) : s[p[k]] \in Checkpoint
    OBVIOUS
  <1>3. t \in [1..Len(s) -> Checkpoint]
    BY <1>1, <1>2
  <1>4. t \in Seq(Checkpoint) /\ Len(t) = Len(s) /\ DOMAIN t = 1..Len(s)
    BY <1>2, <1>3
  <1>5. \A k \in 1..Len(t) : ToMeta(t[k]) = t[k]
    BY <1>3, <1>4, ToMetaIsIdentity
  <1>6. QED
    BY <1>3, <1>4, <1>5

\* The version that was asked for is a row of the table.
LEMMA VersionFound ==
  ASSUME NEW s \in Seq(Checkpoint), NEW n, NEW k \in 1..Len(s), s[k].id = n
  PROVE  LET r == CHOOSE r \in {s[l] : l \in 1..Len(s)} : r.id = n
         IN  r \in Checkpoint /\ r \in {s[l] : l \in 1..Len(s)} /\ r.id = n
PROOF
  <1> DEFINE R == {s[l] : l \in 1..Len(s)}
             r == CHOOSE x \in R : x.id = n
  <1>1. \E x \in R : x.id = n
    OBVIOUS
  <1>2. r \in R /\ r.id = n
    BY <1>1
  <1>3. QED
    BY <1>2

\* Reading changes the answer only.
Read == LoadState \/ LoadVersion \/ ListCheckpoints \/ KeepAll

\* Each of the reading methods answers with rows of the table.
LEMMA ReadAnswers ==
  ASSUME TypeOK, Read
  PROVE  answer' \in Answer /\ UNCHANGED <<table, saves, clock, saving, resolvedEver, forgotten>>
PROOF
  <1>1. UNCHANGED <<table, saves, clock, saving, resolvedEver, forgotten>>
    BY DEF Read, LoadState, LoadVersion, ListCheckpoints, KeepAll, history
  <1>2. table \in Seq(Checkpoint) /\ \A k \in 1..Len(table) : table[k] \in Checkpoint
    BY DEF TypeOK
  <1>3. <<>> \in Seq(Checkpoint) /\ \A r \in Checkpoint : <<r>> \in Seq(Checkpoint)
    OBVIOUS
  <1>4. CASE LoadState
    <2>1. CASE table = <<>>
      BY <1>1, <1>3, <1>4, <2>1, AnswersTyped DEF LoadState
    <2>2. CASE table # <<>>
      <3>1. PICK k \in Newest(table) : answer' = RowsOf("load", <<ToMeta(table[k])>>)
        BY <1>4, <2>2 DEF LoadState
      <3>2. table[k] \in Checkpoint
        BY <1>2 DEF Newest
      <3>3. QED
        BY <1>1, <1>3, <3>1, <3>2, ToMetaIsIdentity, AnswersTyped
    <2>3. QED
      BY <2>1, <2>2
  <1>5. CASE LoadVersion
    <2>1. PICK n \in 1..saves :
            answer' = IF \E k \in 1..Len(table) : table[k].id = n
                      THEN RowsOf("version", <<ToMeta(CHOOSE r \in {table[k] : k \in 1..Len(table)} :
                                                        r.id = n)>>)
                      ELSE RowsOf("version", <<>>)
      BY <1>5 DEF LoadVersion
    <2>2. CASE \E k \in 1..Len(table) : table[k].id = n
      <3> DEFINE v == CHOOSE r \in {table[k] : k \in 1..Len(table)} : r.id = n
      <3>1. v \in Checkpoint
        BY <1>2, <2>2, VersionFound
      <3>2. answer' = RowsOf("version", <<ToMeta(v)>>)
        BY <2>1, <2>2
      <3> HIDE DEF v
      <3>3. QED
        BY <1>1, <1>3, <3>1, <3>2, ToMetaIsIdentity, AnswersTyped
    <2>3. CASE ~\E k \in 1..Len(table) : table[k].id = n
      BY <1>1, <1>3, <2>1, <2>3, AnswersTyped
    <2>4. QED
      BY <2>2, <2>3
  <1>6. CASE ListCheckpoints
    <2>1. PICK t \in Ascending(table) :
            answer' = RowsOf("list", [k \in 1..Len(t) |-> ToMeta(t[k])])
      BY <1>6 DEF ListCheckpoints
    <2>2. QED
      BY <1>1, <1>2, <2>1, ListedRows, AnswersTyped
  <1>7. CASE KeepAll
    BY <1>1, <1>7, AnswersTyped DEF KeepAll
  <1>8. QED
    BY <1>1, <1>4, <1>5, <1>6, <1>7 DEF Read

\* A claim answers, and changes at most the status and the claimant of a newest row.
LEMMA ClaimShapes ==
  ASSUME TypeOK, NEW i \in Interrupts, ClaimInterrupt(i)
  PROVE  /\ answer' \in Answer
         /\ UNCHANGED <<saves, clock, saving, resolvedEver, forgotten>>
         /\ \/ table' = table
            \/ \E k \in Newest(table) : table' = ClaimedAt(table, k, i)
         /\ answer'.word = "Claimed" => ~Resolved(table, i)
PROOF
  <1>1. UNCHANGED <<saves, clock, saving, resolvedEver, forgotten>>
    BY DEF ClaimInterrupt, history
  <1>2. CASE Resolved(table, i)
    <2>1. answer' = Word("AlreadyCompleted") /\ table' = table
      BY <1>2 DEF ClaimInterrupt, ClaimAnswers
    <2>2. QED
      BY <1>1, <2>1, AnswersTyped
  <1>3. CASE ~Resolved(table, i) /\ table = <<>>
    <2>1. answer' = Word("NothingToResume") /\ table' = table
      BY <1>3 DEF ClaimInterrupt, ClaimAnswers
    <2>2. QED
      BY <1>1, <2>1, AnswersTyped
  <1>4. CASE ~Resolved(table, i) /\ table # <<>>
    <2>1. PICK k \in Newest(table) :
            IF Verdict(ToMeta(table[k]), i) # "Claimed"
            THEN ClaimAnswers(Verdict(ToMeta(table[k]), i))
            ELSE table' = ClaimedAt(table, k, i) /\ answer' = Word("Claimed")
      BY <1>4 DEF ClaimInterrupt, ClaimedAt
    <2>2. Verdict(ToMeta(table[k]), i)
            \in {"Claimed", "InProgress", "Running", "NothingToResume", "InvalidResume"}
      BY VerdictTyped
    <2>3. QED
      BY <1>1, <1>4, <2>1, <2>2, AnswersTyped DEF ClaimAnswers
  <1>5. QED
    BY <1>2, <1>3, <1>4

\* A claim keeps ids and resolutions.
LEMMA ClaimKeepsTypes ==
  ASSUME TypeOK, Stored, NEW i \in Interrupts, ClaimInterrupt(i)
  PROVE  TypeOK' /\ Stored'
PROOF
  <1>1. /\ answer' \in Answer
        /\ UNCHANGED <<saves, clock, saving, resolvedEver, forgotten>>
    BY ClaimShapes
  <1>2. IdsBelow(table', saves) /\ ResolutionsIn(table') = ResolutionsIn(table)
    <2>1. CASE table' = table
      BY <2>1 DEF Stored
    <2>2. CASE \E k \in Newest(table) : table' = ClaimedAt(table, k, i)
      <3>1. PICK k \in 1..Len(table) : table' = ClaimedAt(table, k, i)
        BY <2>2 DEF Newest
      <3>2. QED
        BY <3>1, ClaimKeepsIds, ClaimedAtRows DEF TypeOK, Stored
    <2>3. QED
      BY <2>1, <2>2, ClaimShapes
  <1>3. Stored'
    BY <1>1, <1>2 DEF Stored, ResolutionsIn, IdsBelow
  <1>4. QED
    BY <1>1, <1>2, <1>3 DEF TypeOK, IdsBelow

\* One action after the other.
LEMMA StepKeepsTypes ==
  ASSUME TypeOK, Stored, [Next]_vars
  PROVE  TypeOK' /\ Stored'
PROOF
  <1>1. ASSUME Read PROVE TypeOK' /\ Stored'
    BY <1>1, ReadAnswers DEF TypeOK, Stored, ResolutionsIn, IdsBelow
  <1>2. CASE UNCHANGED vars
    BY <1>2 DEF vars, TypeOK, Stored, ResolutionsIn, IdsBelow
  <1>3. CASE Next
    BY <1>1, <1>3, StampKeepsTypes, InsertKeepsTypes, DeleteKeepsTypes, ClaimKeepsTypes
       DEF Next, Read, KeepLast, OlderThan
  <1>4. QED
    BY <1>2, <1>3

\* The table is empty at first.
LEMMA StartTyped ==
  ASSUME Init
  PROVE  TypeOK /\ Stored
PROOF
  <1>1. <<>> \in Seq(Checkpoint) /\ Len(<<>>) = 0 /\ 1..0 = {}
    OBVIOUS
  <1>2. ResolutionsIn(<<>>) = {}
    BY <1>1 DEF ResolutionsIn
  <1>3. QED
    BY <1>1, <1>2, AnswersTyped DEF Init, TypeOK, Stored, IdsBelow

\* The inductive invariant of the store.
LEMMA TypesHold == Spec => [](TypeOK /\ Stored)
PROOF
  <1>1. Init => TypeOK /\ Stored
    BY StartTyped
  <1>2. TypeOK /\ Stored /\ [Next]_vars => (TypeOK /\ Stored)'
    BY StepKeepsTypes
  <1>3. QED
    BY <1>1, <1>2, PTL DEF Spec

\* For any savers and retention, and any clock, also one that is set back: ids are
\* unique, answers are answers, and what retention forgot had been resolved.
THEOREM StoreTypeCorrect == Spec => []TypeOK
  BY TypesHold, PTL
-----------------------------------------------------------------------------
(* Retention and grants: a resolution is in the table until retention deletes it. *)

Remembered == resolvedEver \subseteq forgotten \cup ResolutionsIn(table)

\* A resolution leaves the table by a deletion only, which records it.
LEMMA StepRemembers ==
  ASSUME TypeOK, Remembered, [Next]_vars
  PROVE  Remembered'
PROOF
  <1>1. CASE Read \/ UNCHANGED vars
    BY <1>1, ReadAnswers DEF vars, Remembered, ResolutionsIn
  <1>2. ASSUME NEW s \in Savers, Stamp(s) PROVE Remembered'
    BY <1>2 DEF Stamp, history, Remembered, ResolutionsIn
  <1>3. ASSUME NEW s \in Savers, Insert(s) PROVE Remembered'
    <2> DEFINE row == [saving[s][1] EXCEPT !.id = saves + 1]
    <2>1. /\ saving[s] # <<>>
          /\ table' = Append(table, row)
          /\ resolvedEver' = resolvedEver \cup ResolutionsIn(<<row>>)
          /\ forgotten' = forgotten
      BY <1>3 DEF Insert
    <2>2. table \in Seq(Checkpoint) /\ saving[s][1] \in Checkpoint /\ saves + 1 \in Nat
      BY <2>1 DEF TypeOK
    <2>3. row \in Checkpoint
      BY <2>2, IdentifiedRow
    <2> HIDE DEF row
    <2>4. ResolutionsIn(table') = ResolutionsIn(table) \cup ResolutionsIn(<<row>>)
      BY <2>1, <2>2, <2>3, ResolutionsOfAppend
    <2>5. resolvedEver' \subseteq forgotten' \cup ResolutionsIn(table')
      BY <2>1, <2>4 DEF Remembered
    <2>6. QED
      BY <2>5 DEF Remembered, ResolutionsIn
  <1>4. ASSUME NEW kept, Delete(kept) PROVE Remembered'
    BY <1>4 DEF Delete, Remembered, ResolutionsIn
  <1>5. ASSUME NEW i \in Interrupts, ClaimInterrupt(i) PROVE Remembered'
    <2>1. table \in Seq(Checkpoint)
      BY DEF TypeOK
    <2>2. ResolutionsIn(table') = ResolutionsIn(table)
      BY <1>5, <2>1, ClaimShapes, ClaimedAtRows DEF Newest
    <2>3. resolvedEver' \subseteq forgotten' \cup ResolutionsIn(table')
      BY <1>5, <2>2, ClaimShapes DEF Remembered
    <2>4. QED
      BY <2>3 DEF Remembered, ResolutionsIn
  <1>6. QED
    BY <1>1, <1>2, <1>3, <1>4, <1>5 DEF Next, Read, KeepLast, OlderThan

\* The step that is granted finds no resolution: retention must have deleted it.
LEMMA GrantNeedsRetention ==
  ASSUME TypeOK, Remembered
  PROVE  \A i \in Interrupts :
           ClaimInterrupt(i) /\ answer'.word = "Claimed" /\ i \in resolvedEver => i \in forgotten
PROOF
  <1> SUFFICES ASSUME NEW i \in Interrupts, ClaimInterrupt(i), answer'.word = "Claimed",
                      i \in resolvedEver
               PROVE  i \in forgotten
    OBVIOUS
  <1>1. ~Resolved(table, i)
    BY ClaimShapes
  <1>2. i \notin ResolutionsIn(table)
    BY <1>1 DEF Resolved, ResolutionsIn
  <1>3. QED
    BY <1>2 DEF Remembered

\* An interrupt that was resolved is granted again only after retention deleted the
\* row that said so, for any savers and order of the calls, and a clock that may be
\* set back.
THEOREM GrantsAreForgotten == Spec => RegrantedOnlyAfterRetention
PROOF
  <1>1. Init => Remembered
    BY DEF Init, Remembered
  <1>2. TypeOK /\ Remembered /\ [Next]_vars => Remembered'
    BY StepRemembers
  <1>3. TypeOK /\ Remembered =>
          \A i \in Interrupts :
            ClaimInterrupt(i) /\ answer'.word = "Claimed" /\ i \in resolvedEver => i \in forgotten
    BY GrantNeedsRetention
  <1>4. QED
    BY <1>1, <1>2, <1>3, StoreTypeCorrect, PTL DEF Spec, RegrantedOnlyAfterRetention

\* The newest of the rows that retention keeps is a newest row of all: K holds a row,
\* and every row outside K is older than each row of K.
LEMMA KeptHead ==
  ASSUME NEW s \in Seq(Checkpoint), NEW K \in SUBSET (1..Len(s)), K # {},
         \A k \in K : \A l \in (1..Len(s)) \ K : s[l].created <= s[k].created
  PROVE  /\ Picked(s, K) # <<>>
         /\ \A j \in Newest(Picked(s, K)) : \E k \in Newest(s) : Picked(s, K)[j] = s[k]
PROOF
  <1> DEFINE t == Picked(s, K)
             c == Cardinality(K)
  <1>1. /\ t \in Seq(Checkpoint) /\ Len(t) = c /\ c \in Nat
        /\ \A j \in 1..c : /\ Nth(K, j) \in K /\ Nth(K, j) \in 1..Len(s)
                           /\ t[j] = s[Nth(K, j)]
        /\ \A k \in K : \E j \in 1..c : t[j] = s[k]
    BY PickedRows
  <1> HIDE DEF t, c
  <1>2. t # <<>>
    <2>1. PICK k \in K : TRUE
      OBVIOUS
    <2>2. PICK j \in 1..c : t[j] = s[k]
      BY <1>1, <2>1
    <2>3. QED
      BY <1>1, <2>2
  <1>3. ASSUME NEW j \in Newest(t) PROVE \E k \in Newest(s) : t[j] = s[k]
    <2>1. j \in 1..c /\ \A i \in 1..c : t[i].created <= t[j].created
      BY <1>1, <1>3 DEF Newest
    <2> DEFINE k == Nth(K, j)
    <2>2. k \in K /\ k \in 1..Len(s) /\ t[j] = s[k]
      BY <1>1, <2>1
    <2> HIDE DEF k
    <2>3. \A l \in 1..Len(s) : s[l].created <= s[k].created
      <3> SUFFICES ASSUME NEW l \in 1..Len(s) PROVE s[l].created <= s[k].created
        OBVIOUS
      <3>1. CASE l \in K
        BY <1>1, <2>1, <2>2, <3>1
      <3>2. CASE l \notin K
        BY <2>2, <3>2
      <3>3. QED
        BY <3>1, <3>2
    <2>4. k \in Newest(s)
      BY <2>2, <2>3 DEF Newest
    <2>5. QED
      BY <2>2, <2>4
  <1>4. QED
    BY <1>2, <1>3 DEF t

\* A deletion by id keeps exactly the positions it was told to keep.
LEMMA KeptPositions ==
  ASSUME TypeOK, NEW K \in SUBSET (1..Len(table))
  PROVE  {k \in 1..Len(table) : table[k].id \in {table[l].id : l \in K}} = K
  BY DEF TypeOK

\* KeepLast deletes by id, and keeps the positions that its subquery answered.
LEMMA RetentionKeepsHead ==
  ASSUME TypeOK
  PROVE  \A n \in Keeps \ {0} : KeepLast(n) /\ table # <<>> =>
           {table'[k] : k \in Newest(table')} \subseteq {table[k] : k \in Newest(table)}
           /\ table' # <<>>
PROOF
  <1> SUFFICES ASSUME NEW n \in Keeps \ {0}, KeepLast(n), table # <<>>
               PROVE  /\ table' # <<>>
                      /\ \A k \in Newest(table') : \E l \in Newest(table) : table'[k] = table[l]
    OBVIOUS
  <1>1. PICK K \in NewestRows(table, n) : Delete({table[k].id : k \in K})
    BY DEF KeepLast
  <1>2. /\ K \in SUBSET (1..Len(table))
        /\ Cardinality(K) = IF Len(table) > n THEN n ELSE Len(table)
        /\ \A k \in K : \A l \in (1..Len(table)) \ K : table[l].created <= table[k].created
    BY DEF NewestRows
  <1>3. table' = Picked(table, K)
    BY <1>1, <1>2, KeptPositions DEF Delete
  <1>4. table \in Seq(Checkpoint) /\ Len(table) \in Nat /\ Len(table) # 0 /\ n \in Nat /\ n # 0
    BY RowsAssumption DEF TypeOK
  <1>5. K # {}
    BY <1>2, <1>4, FS_EmptySet
  <1>6. QED
    BY <1>2, <1>3, <1>4, <1>5, KeptHead

\* KeepLast with n > 0 leaves what load_state answers as it was, whatever stamps the
\* rows have, equal ones too.
THEOREM RetentionKeepsTheHead == Spec => HeadSurvivesKeepLast
PROOF
  <1>1. TypeOK => \A n \in Keeps \ {0} : KeepLast(n) /\ table # <<>> =>
           {table'[k] : k \in Newest(table')} \subseteq {table[k] : k \in Newest(table)}
           /\ table' # <<>>
    BY RetentionKeepsHead
  <1>2. QED
    BY <1>1, StoreTypeCorrect, PTL DEF HeadSurvivesKeepLast
-----------------------------------------------------------------------------
(* Rows whose stamps increase: the queries by created_at find them by position. *)

Ascend(s) == \A k, l \in 1..Len(s) : k < l => s[k].created < s[l].created

\* Stamps can be compared.
LEMMA StampsAreNumbers ==
  ASSUME NEW s \in Seq(Checkpoint)
  PROVE  Len(s) \in Nat /\ \A k \in 1..Len(s) : s[k] \in Checkpoint /\ s[k].created \in Nat
PROOF
  <1>1. Len(s) \in Nat /\ \A k \in 1..Len(s) : s[k] \in Checkpoint
    OBVIOUS
  <1>2. QED
    BY <1>1 DEF Checkpoint

\* LIMIT 1 answers the last row.
LEMMA NewestIsLast ==
  ASSUME NEW s \in Seq(Checkpoint), Ascend(s), s # <<>>
  PROVE  Newest(s) = {Len(s)} /\ Len(s) \in 1..Len(s)
PROOF
  <1>1. Len(s) \in 1..Len(s) /\ Len(s) \in Nat /\ \A k \in 1..Len(s) : s[k].created \in Nat
    BY StampsAreNumbers
  <1>2. \A k \in 1..Len(s) : s[k].created <= s[Len(s)].created
    BY <1>1 DEF Ascend
  <1>3. \A k \in 1..Len(s) : k # Len(s) => ~(s[Len(s)].created <= s[k].created)
    BY <1>1 DEF Ascend
  <1>4. QED
    BY <1>1, <1>2, <1>3 DEF Newest

\* Two numbers up to n, in order.
LEMMA Between ==
  ASSUME NEW n \in Nat, NEW x \in 1..n, NEW y \in 1..n, x < y \/ x = y
  PROVE  x \in 1..y /\ y \in x..n /\ x \in Nat /\ y \in Nat
  OBVIOUS

\* An order preserving map of 1..n into itself moves nothing.
LEMMA OrderPreserved ==
  ASSUME NEW n \in Nat, NEW p \in [1..n -> 1..n],
         \A k, l \in 1..n : k < l => p[k] < p[l]
  PROVE  \A k \in 1..n : p[k] = k
PROOF
  <1> SUFFICES ASSUME NEW k \in 1..n PROVE p[k] = k
    OBVIOUS
  <1>1. k \in Nat /\ p[k] \in 1..n /\ p[k] \in Nat
    OBVIOUS
  <1>2. \A i, j \in 1..n : p[i] = p[j] => i = j
    <2>1. \A i, j \in 1..n : i < j \/ j < i \/ i = j
      OBVIOUS
    <2>2. \A i \in 1..n : p[i] \in Nat
      OBVIOUS
    <2>3. QED
      BY <2>1, <2>2
  <1>3. k <= p[k]
    <2> DEFINE f == [i \in 1..k |-> p[i]]
    <2>1. \A i \in 1..k : i \in 1..n /\ p[i] \in Nat /\ p[i] \in 1..p[k]
      <3> SUFFICES ASSUME NEW i \in 1..k PROVE i \in 1..n /\ p[i] \in Nat /\ p[i] \in 1..p[k]
        OBVIOUS
      <3>1. i \in 1..n /\ (i < k \/ i = k)
        BY <1>1
      <3>2. p[i] \in 1..n /\ (p[i] < p[k] \/ p[i] = p[k])
        BY <3>1
      <3>3. QED
        BY <1>1, <3>1, <3>2, Between
    <2>2. f \in Injection(1..k, 1..p[k])
      BY <1>2, <2>1 DEF Injection, IsInjective
    <2>3. /\ IsFiniteSet(1..p[k]) /\ Cardinality(1..p[k]) = p[k]
          /\ Cardinality(1..k) = k
      BY <1>1, FS_Interval
    <2>4. QED
      BY <2>2, <2>3, FS_Injection
  <1>4. p[k] <= k
    <2> DEFINE f == [i \in k..n |-> p[i]]
    <2>1. \A i \in k..n : i \in 1..n /\ p[i] \in Nat /\ p[i] \in p[k]..n
      <3> SUFFICES ASSUME NEW i \in k..n PROVE i \in 1..n /\ p[i] \in Nat /\ p[i] \in p[k]..n
        OBVIOUS
      <3>1. i \in 1..n /\ (k < i \/ i = k)
        BY <1>1
      <3>2. p[i] \in 1..n /\ (p[k] < p[i] \/ p[i] = p[k])
        BY <3>1
      <3>3. QED
        BY <1>1, <3>1, <3>2, Between
    <2>2. f \in Injection(k..n, p[k]..n)
      BY <1>2, <2>1 DEF Injection, IsInjective
    <2>3. /\ IsFiniteSet(p[k]..n) /\ Cardinality(p[k]..n) = n - p[k] + 1
          /\ Cardinality(k..n) = n - k + 1
      <3>1. p[k] \in Int /\ k \in Int /\ n \in Int /\ ~(p[k] > n) /\ ~(k > n)
        BY <1>1
      <3>2. QED
        BY <3>1, FS_Interval
    <2>4. n - k + 1 <= n - p[k] + 1
      BY <2>2, <2>3, FS_Injection
    <2>5. QED
      BY <1>1, <2>4
  <1>5. QED
    BY <1>1, <1>3, <1>4

\* ORDER BY created_at ASC lists the rows as they were inserted.
LEMMA ListedInOrder ==
  ASSUME NEW s \in Seq(Checkpoint), Ascend(s)
  PROVE  Ascending(s) = {s}
PROOF
  <1> DEFINE n == Len(s)
  <1>1. n \in Nat /\ \A k \in 1..n : s[k].created \in Nat
    BY StampsAreNumbers
  <1>2. s = [k \in 1..n |-> s[k]]
    OBVIOUS
  <1>3. ASSUME NEW t \in Ascending(s) PROVE t = s
    <2>1. PICK p \in [1..n -> 1..n] :
            /\ t = [k \in 1..n |-> s[p[k]]]
            /\ \A k, l \in 1..n : k < l => p[k] # p[l] /\ s[p[k]].created <= s[p[l]].created
      BY <1>3 DEF Ascending
    <2> HIDE DEF n
    <2>2. ASSUME NEW k \in 1..n, NEW l \in 1..n, k < l PROVE p[k] < p[l]
      <3>1. p[k] \in 1..n /\ p[l] \in 1..n /\ p[k] # p[l]
        BY <2>1, <2>2
      <3>2. ~(p[l] < p[k])
        <4>1. s[p[k]].created <= s[p[l]].created
          BY <2>1, <2>2
        <4>2. s[p[k]].created \in Nat /\ s[p[l]].created \in Nat
          BY <1>1, <3>1
        <4>3. p[l] < p[k] => s[p[l]].created < s[p[k]].created
          BY <3>1 DEF Ascend, n
        <4>4. QED
          BY <4>1, <4>2, <4>3
      <3>3. QED
        BY <1>1, <3>1, <3>2, Between
    <2>3. \A k \in 1..n : p[k] = k
      BY <1>1, <2>2, OrderPreserved
    <2>4. QED
      BY <1>2, <2>1, <2>3
  <1>4. s \in Ascending(s)
    <2> DEFINE id == [k \in 1..n |-> k]
    <2>1. id \in [1..n -> 1..n] /\ \A k \in 1..n : id[k] = k
      OBVIOUS
    <2>2. \A k, l \in 1..n : k < l => id[k] # id[l] /\ s[id[k]].created <= s[id[l]].created
      BY <1>1, <2>1 DEF Ascend
    <2>3. s = [k \in 1..n |-> s[id[k]]]
      BY <1>2, <2>1
    <2> HIDE DEF id
    <2>4. QED
      BY <2>1, <2>2, <2>3 DEF Ascending
  <1>5. QED
    BY <1>3, <1>4
\* LIMIT n answers the last n positions: they are closed upwards.
LEMMA NewestRowsAreLast ==
  ASSUME NEW s \in Seq(Checkpoint), Ascend(s), NEW n \in Nat, NEW K \in NewestRows(s, n)
  PROVE  /\ Len(s) > n => K = (Len(s) - n + 1)..Len(s)
         /\ ~(Len(s) > n) => K = 1..Len(s)
PROOF
  <1> DEFINE m == Len(s)
  <1>1. m \in Nat /\ \A k \in 1..m : s[k].created \in Nat
    BY StampsAreNumbers
  <1>2. /\ K \in SUBSET (1..m)
        /\ Cardinality(K) = IF m > n THEN n ELSE m
        /\ \A k \in K : \A l \in (1..m) \ K : s[l].created <= s[k].created
    BY DEF NewestRows
  <1>3. IsFiniteSet(K) /\ Cardinality(K) \in Nat
    BY <1>1, <1>2, PositionsFinite
  <1>4. ~(m > n) => K = 1..m
    BY <1>1, <1>2, PositionsFinite
  <1>5. ASSUME NEW k \in K, NEW l \in 1..m, k < l PROVE l \in K
    <2>1. s[k].created < s[l].created /\ s[k].created \in Nat /\ s[l].created \in Nat
      BY <1>1, <1>2, <1>5 DEF Ascend
    <2>2. QED
      BY <1>2, <2>1
  <1> HIDE DEF m
  <1>6. ASSUME m > n PROVE K = (m - n + 1)..m
    <2> DEFINE U == (m - n + 1)..m
    <2>1. IsFiniteSet(U) /\ Cardinality(U) = n
      BY <1>1, <1>6, FS_Interval
    <2>2. Cardinality(K) = n
      BY <1>2, <1>6
    <2>3. ASSUME NEW k \in K PROVE k \in U
      <3>1. k \in 1..m
        BY <1>2
      <3>2. k..m \in SUBSET K
        <4> SUFFICES ASSUME NEW l \in k..m PROVE l \in K
          OBVIOUS
        <4>1. l \in 1..m /\ (k < l \/ k = l)
          BY <1>1, <3>1
        <4>2. QED
          BY <1>5, <4>1
      <3>3. Cardinality(k..m) = m - k + 1
        BY <1>1, <3>1, FS_Interval
      <3>4. m - k + 1 <= n
        BY <1>3, <2>2, <3>2, <3>3, FS_Subset
      <3>5. QED
        BY <1>1, <1>6, <3>1, <3>4
    <2>4. K \in SUBSET U
      BY <2>3
    <2> HIDE DEF U
    <2>5. K = U
      BY <2>1, <2>2, <2>4, FS_Subset
    <2>6. QED
      BY <2>5 DEF U
  <1>7. QED
    BY <1>4, <1>6 DEF m

\* The rows of the positions from a on are a suffix.
LEMMA PickedSuffix ==
  ASSUME NEW S, NEW s \in Seq(S), NEW a \in 1..(Len(s) + 1)
  PROVE  Picked(s, a..Len(s)) = SubSeq(s, a, Len(s))
PROOF
  <1> DEFINE m == Len(s)
             K == a..m
             c == Cardinality(K)
  <1>1. m \in Nat /\ a \in Nat /\ 1 <= a /\ a <= m + 1
    OBVIOUS
  <1>2. K \in SUBSET (1..m)
    BY <1>1
  <1> HIDE DEF m
  <1>3. c = m - a + 1
    <2>1. a \in Int /\ m \in Int
      BY <1>1
    <2>2. c = IF a > m THEN 0 ELSE m - a + 1
      BY <2>1, FS_Interval
    <2> HIDE DEF c
    <2>3. QED
      BY <1>1, <2>2
  <1> HIDE DEF c
  <1>4. \A k \in K : Rank(K, k) = k - a + 1
    <2> SUFFICES ASSUME NEW k \in K PROVE Rank(K, k) = k - a + 1
      OBVIOUS
    <2>1. {l \in K : l <= k} = a..k
      BY <1>1
    <2>2. Cardinality(a..k) = k - a + 1
      BY <1>1, FS_Interval
    <2>3. QED
      BY <2>1, <2>2 DEF Rank
  <1> HIDE DEF K
  <1>5. /\ Picked(s, K) \in Seq(S)
        /\ Len(Picked(s, K)) = c
        /\ \A j \in 1..c : Picked(s, K)[j] = s[Nth(K, j)]
    BY <1>2, PickedRows DEF m, c
  <1>6. \A j \in 1..c : Nth(K, j) = a + j - 1
    <2> SUFFICES ASSUME NEW j \in 1..c PROVE Nth(K, j) = a + j - 1
      OBVIOUS
    <2>1. Nth(K, j) \in K /\ Rank(K, Nth(K, j)) = j
      BY <1>1, <1>2, NthOfRank DEF c
    <2>2. Nth(K, j) \in Nat
      <3>1. \A k \in K : k \in Nat
        BY <1>2
      <3>2. QED
        BY <2>1, <3>1
    <2>3. QED
      BY <1>1, <1>4, <2>1, <2>2
  <1>7. /\ SubSeq(s, a, m) \in Seq(S)
        /\ Len(SubSeq(s, a, m)) = c
        /\ \A j \in 1..c : SubSeq(s, a, m)[j] = s[a + j - 1]
    <2>1. \A k \in a..m : s[k] \in S
      BY <1>1 DEF m
    <2>2. QED
      BY <1>1, <1>3, <2>1, SubSeqProperties
  <1>8. Picked(s, K) = SubSeq(s, a, m)
    BY <1>5, <1>6, <1>7, SeqEqual
  <1>9. QED
    BY <1>8 DEF K, m

\* All the rows are the sequence.
LEMMA PickedAll ==
  ASSUME NEW S, NEW s \in Seq(S)
  PROVE  Picked(s, 1..Len(s)) = s
PROOF
  <1>1. Len(s) \in Nat /\ 1 \in 1..(Len(s) + 1)
    OBVIOUS
  <1>2. Picked(s, 1..Len(s)) = SubSeq(s, 1, Len(s))
    BY <1>1, PickedSuffix
  <1>3. /\ SubSeq(s, 1, Len(s)) \in Seq(S)
        /\ Len(SubSeq(s, 1, Len(s))) = Len(s)
        /\ \A j \in 1..Len(s) : SubSeq(s, 1, Len(s))[j] = s[j]
    <2>1. \A k \in 1..Len(s) : s[k] \in S
      OBVIOUS
    <2>2. QED
      BY <1>1, <2>1, SubSeqProperties
  <1>4. QED
    BY <1>2, <1>3, SeqEqual

\* One position, and none.
LEMMA PickedOne ==
  ASSUME NEW S, NEW s \in Seq(S), NEW k \in 1..Len(s)
  PROVE  Picked(s, {k}) = <<s[k]>>
PROOF
  <1> DEFINE K == {k}
  <1>1. Cardinality(K) = 1 /\ K \in SUBSET (1..Len(s)) /\ \A x \in K : x = k
    BY FS_Singleton
  <1> HIDE DEF K
  <1>2. /\ Picked(s, K) \in Seq(S) /\ Len(Picked(s, K)) = 1
        /\ Nth(K, 1) \in K /\ Picked(s, K)[1] = s[Nth(K, 1)]
    <2>1. /\ Picked(s, K) \in Seq(S) /\ Len(Picked(s, K)) = Cardinality(K)
          /\ \A j \in 1..Cardinality(K) : Nth(K, j) \in K /\ Picked(s, K)[j] = s[Nth(K, j)]
      BY <1>1, PickedRows
    <2>2. 1 \in 1..Cardinality(K)
      BY <1>1
    <2>3. QED
      BY <1>1, <2>1, <2>2
  <1>3. s[k] \in S /\ <<s[k]>> \in Seq(S) /\ Len(<<s[k]>>) = 1 /\ <<s[k]>>[1] = s[k]
    OBVIOUS
  <1>4. Picked(s, K)[1] = s[k]
    BY <1>1, <1>2
  <1>5. Picked(s, K) = <<s[k]>>
    BY <1>2, <1>3, <1>4, SeqEqual
  <1>6. QED
    BY <1>5 DEF K

\* No position at all.
LEMMA PickedNone ==
  ASSUME NEW S, NEW s \in Seq(S)
  PROVE  Picked(s, {}) = <<>>
PROOF
  <1>1. Cardinality({}) = 0
    BY FS_EmptySet
  <1>2. Picked(s, {}) \in Seq(S) /\ Len(Picked(s, {})) = 0
    BY <1>1, PickedRows
  <1>3. QED
    BY <1>2

\* Retention, claims and a later row keep the order.
LEMMA AscendPicked ==
  ASSUME NEW s \in Seq(Checkpoint), Ascend(s), NEW K \in SUBSET (1..Len(s))
  PROVE  /\ Ascend(Picked(s, K))
         /\ \A j \in 1..Len(Picked(s, K)) : \E k \in 1..Len(s) : Picked(s, K)[j] = s[k]
PROOF
  <1> DEFINE t == Picked(s, K)
  <1>1. /\ Len(t) = Cardinality(K)
        /\ \A j \in 1..Cardinality(K) : Nth(K, j) \in 1..Len(s) /\ t[j] = s[Nth(K, j)]
        /\ \A i, j \in 1..Cardinality(K) : i < j => Nth(K, i) < Nth(K, j)
    BY PickedRows
  <1> HIDE DEF t
  <1>2. Ascend(t)
    BY <1>1 DEF Ascend
  <1>3. QED
    BY <1>1, <1>2 DEF t

\* A row that is newer than all goes last.
LEMMA AscendAppend ==
  ASSUME NEW s \in Seq(Checkpoint), Ascend(s), NEW r \in Checkpoint,
         \A k \in 1..Len(s) : s[k].created < r.created
  PROVE  Ascend(Append(s, r))
PROOF
  <1> DEFINE t == Append(s, r)
  <1>1. /\ Len(s) \in Nat /\ Len(t) = Len(s) + 1
        /\ \A k \in 1..Len(s) : t[k] = s[k]
        /\ t[Len(s) + 1] = r
    OBVIOUS
  <1> HIDE DEF t
  <1>2. \A k, l \in 1..Len(t) : k < l => k \in 1..Len(s) /\ (l \in 1..Len(s) \/ l = Len(s) + 1)
    BY <1>1
  <1>3. Ascend(t)
    BY <1>1, <1>2 DEF Ascend
  <1>4. QED
    BY <1>3 DEF t
-----------------------------------------------------------------------------
(* One saver and a clock that advances: rows are inserted in the order of their stamps. *)

OneSaver == \A r, s \in Savers : r = s

\* The clock advances from save to save, and the bound on cutoffs covers all it reads.
ClockAdvances(D) == /\ D \in Nat
                    /\ Ticks \subseteq 1..D
                    /\ 1 + D * MaxSaves + Skew <= MaxTime

\* The bound on the clock is linear in the number of saves.
LEMMA Product ==
  ASSUME NEW D \in Nat, NEW m \in Nat, NEW n \in Nat
  PROVE  D * m \in Nat /\ D * (m + 1) = D * m + D /\ (m <= n => D * m <= D * n)
  OBVIOUS

\* A row that waits to be inserted is newer than the table and older than the clock.
Waiting(s) ==
  \E c \in Contents, t \in Nat :
    /\ saving[s] = <<NewRow(0, c, t)>>
    /\ t < clock
    /\ \A k \in 1..Len(table) : table[k].created < t

InOrder(D) ==
  /\ Ascend(table)
  /\ \A k \in 1..Len(table) : table[k].created < clock
  /\ \A s \in Savers : saving[s] # <<>> =>
       Waiting(s) /\ saves + 1 <= MaxSaves /\ clock <= 1 + D * (saves + 1)
  /\ saves <= MaxSaves
  /\ (\A s \in Savers : saving[s] = <<>>) => clock <= 1 + D * saves

\* The order does not depend on the answer, and survives the loss of rows.
LEMMA FewerRowsInOrder ==
  ASSUME NEW D, InOrder(D), UNCHANGED <<saves, clock, saving>>, Ascend(table'),
         \A k \in 1..Len(table') : \E l \in 1..Len(table) : table'[k].created = table[l].created
  PROVE  InOrder(D)'
PROOF
  <1>1. \A k \in 1..Len(table') : table'[k].created < clock'
    BY DEF InOrder
  <1>2. ASSUME NEW s \in Savers, Waiting(s) PROVE Waiting(s)'
    BY <1>2 DEF Waiting
  <1>3. \A s \in Savers : saving'[s] # <<>> =>
          Waiting(s)' /\ saves' + 1 <= MaxSaves /\ clock' <= 1 + D * (saves' + 1)
    BY <1>2 DEF InOrder
  <1>4. QED
    BY <1>1, <1>3 DEF InOrder, Ascend

\* With one saver no other row waits: the new stamp is the newest.
LEMMA StampInOrder ==
  ASSUME TypeOK, NEW D, OneSaver, ClockAdvances(D), InOrder(D), NEW s \in Savers, Stamp(s)
  PROVE  InOrder(D)'
PROOF
  <1>1. PICK c \in Contents, d \in Ticks :
          saving' = [saving EXCEPT ![s] = <<NewRow(0, c, clock)>>] /\ clock' = clock + d
    BY DEF Stamp
  <1>2. /\ saving[s] = <<>>
        /\ saves + Cardinality({r \in Savers : saving[r] # <<>>}) < MaxSaves
        /\ UNCHANGED <<table, saves>>
    BY DEF Stamp
  <1>3. \A r \in Savers : r = s /\ saving[r] = <<>>
    BY <1>2 DEF OneSaver
  <1>4. saves < MaxSaves /\ saves \in Nat /\ clock \in Nat
    <2>1. {r \in Savers : saving[r] # <<>>} = {}
      BY <1>3
    <2>2. Cardinality({r \in Savers : saving[r] # <<>>}) = 0
      BY <2>1, FS_EmptySet
    <2>3. saves + 0 < MaxSaves
      BY <1>2, <2>2
    <2>4. QED
      BY <2>3 DEF TypeOK
  <1>5. MaxSaves \in Nat /\ d \in 1..D /\ D \in Nat
    BY RowsAssumption DEF ClockAdvances
  <1>6. clock < clock' /\ clock' <= 1 + D * (saves + 1)
    <2>1. clock <= 1 + D * saves
      BY <1>3 DEF InOrder
    <2>2. D * (saves + 1) = D * saves + D /\ D * saves \in Nat
      BY <1>4, <1>5, Product
    <2>3. QED
      BY <1>1, <1>4, <1>5, <2>1, <2>2
  <1>7. saving'[s] = <<NewRow(0, c, clock)>> /\ saving'[s] # <<>>
    BY <1>1 DEF TypeOK
  <1>8. \A k \in 1..Len(table') : table'[k].created < clock
    BY <1>2 DEF InOrder
  <1>9. Waiting(s)'
    BY <1>4, <1>6, <1>7, <1>8 DEF Waiting
  <1>10. \A k \in 1..Len(table') : table'[k].created < clock'
    <2>1. \A k \in 1..Len(table) : table[k].created \in Nat
      BY StampsAreNumbers DEF TypeOK
    <2>2. clock' \in Nat
      BY <1>1, <1>4, <1>5
    <2>3. QED
      BY <1>2, <1>4, <1>6, <1>8, <2>1, <2>2
  <1>11. \A r \in Savers : Waiting(r)'
    BY <1>3, <1>9
  <1>12. saves' + 1 <= MaxSaves /\ saves' <= MaxSaves
    BY <1>2, <1>4, <1>5
  <1>13. QED
    BY <1>2, <1>3, <1>6, <1>7, <1>10, <1>11, <1>12 DEF InOrder, Ascend

\* The row that waited is the one that the list would have pushed.
LEMMA InsertInOrder ==
  ASSUME TypeOK, NEW D, OneSaver, ClockAdvances(D), InOrder(D), NEW s \in Savers, Insert(s)
  PROVE  /\ InOrder(D)'
         /\ \E c \in Contents, t \in 0..MaxTime :
              table' = Append(table, NewRow(saves + 1, c, t))
         /\ saves < MaxSaves /\ saves' = saves + 1 /\ answer' = Number("save", saves + 1)
PROOF
  <1>1. /\ saving[s] # <<>>
        /\ table' = Append(table, [saving[s][1] EXCEPT !.id = saves + 1])
        /\ saves' = saves + 1
        /\ saving' = [saving EXCEPT ![s] = <<>>]
        /\ answer' = Number("save", saves + 1)
        /\ clock' = clock
    BY DEF Insert
  <1>2. Waiting(s) /\ saves + 1 <= MaxSaves /\ clock <= 1 + D * (saves + 1)
    BY <1>1 DEF InOrder
  <1>3. PICK c \in Contents, t \in Nat :
          /\ saving[s] = <<NewRow(0, c, t)>>
          /\ t < clock
          /\ \A k \in 1..Len(table) : table[k].created < t
    BY <1>2 DEF Waiting
  <1>4. /\ saves \in Nat /\ saves + 1 \in Nat /\ clock \in Nat /\ MaxSaves \in Nat /\ MaxTime \in Nat
        /\ D \in Nat /\ Skew \in Nat /\ table \in Seq(Checkpoint)
    BY RowsAssumption, ClockAssumption DEF TypeOK, ClockAdvances
  <1> DEFINE row == NewRow(saves + 1, c, t)
  <1>5. row \in Checkpoint /\ row.created = t
    BY <1>4, NewRowTyped
  <1>6. table' = Append(table, row)
    <2>1. saving[s][1] = NewRow(0, c, t)
      BY <1>3
    <2>2. \A n \in Nat : [NewRow(0, c, t) EXCEPT !.id = n] = NewRow(n, c, t)
      BY NewRowTyped
    <2>3. [NewRow(0, c, t) EXCEPT !.id = saves + 1] = row
      BY <1>4, <2>2, Zenon
    <2>4. QED
      BY <1>1, <2>1, <2>3
  <1>7. t \in 0..MaxTime
    <2>1. D * (saves + 1) <= D * MaxSaves /\ D * (saves + 1) \in Nat /\ D * MaxSaves \in Nat
      BY <1>2, <1>4, Product
    <2>2. 1 + D * MaxSaves + Skew <= MaxTime
      BY DEF ClockAdvances
    <2>3. t < clock
      BY <1>3
    <2>4. \A p, q \in Nat : clock <= 1 + p /\ p <= q /\ 1 + q + Skew <= MaxTime => t \in 0..MaxTime
      BY <1>4, <2>3
    <2>5. QED
      BY <1>2, <2>1, <2>2, <2>4, Zenon
  <1> HIDE DEF row
  <1>8. Ascend(table')
    <2>1. \A k \in 1..Len(table) : table[k].created < row.created
      BY <1>3, <1>5
    <2>2. Ascend(table)
      BY DEF InOrder
    <2>3. QED
      BY <1>4, <1>5, <1>6, <2>1, <2>2, AscendAppend
  <1>9. \A k \in 1..Len(table') : table'[k].created < clock'
    <2>1. /\ Len(table) \in Nat /\ Len(table') = Len(table) + 1
          /\ \A k \in 1..Len(table) : table'[k] = table[k]
          /\ table'[Len(table) + 1] = row
      BY <1>4, <1>5, <1>6
    <2>2. \A k \in 1..Len(table') : k \in 1..Len(table) \/ k = Len(table) + 1
      BY <2>1
    <2>3. QED
      BY <1>1, <1>3, <1>5, <2>1, <2>2 DEF InOrder
  <1>10. \A r \in Savers : saving'[r] = <<>>
    BY <1>1 DEF OneSaver, TypeOK
  <1>11. saves' <= MaxSaves /\ clock' <= 1 + D * saves'
    BY <1>1, <1>2
  <1>12. InOrder(D)'
    BY <1>8, <1>9, <1>10, <1>11 DEF InOrder, Ascend
  <1>13. saves < MaxSaves
    BY <1>2, <1>4
  <1>14. QED
    BY <1>1, <1>6, <1>7, <1>12, <1>13 DEF row

\* No call breaks the order.
LEMMA StepKeepsOrder ==
  ASSUME TypeOK, NEW D, OneSaver, ClockAdvances(D), InOrder(D), [Next]_vars
  PROVE  InOrder(D)'
PROOF
  <1>1. table \in Seq(Checkpoint) /\ Ascend(table)
    BY DEF TypeOK, InOrder
  <1>2. CASE Read \/ UNCHANGED vars
    <2>1. UNCHANGED <<table, saves, clock, saving>>
      BY <1>2, ReadAnswers DEF vars
    <2>2. QED
      BY <1>1, <2>1, FewerRowsInOrder DEF Ascend
  <1>3. ASSUME NEW kept, Delete(kept) PROVE InOrder(D)'
    <2> DEFINE K == {k \in 1..Len(table) : table[k].id \in kept}
    <2>1. /\ K \in SUBSET (1..Len(table)) /\ table' = Picked(table, K)
          /\ UNCHANGED <<saves, clock, saving>>
      BY <1>3 DEF Delete
    <2> HIDE DEF K
    <2>2. Ascend(table') /\ \A j \in 1..Len(table') : \E k \in 1..Len(table) : table'[j] = table[k]
      BY <1>1, <2>1, AscendPicked
    <2>3. QED
      BY <2>1, <2>2, FewerRowsInOrder
  <1>4. ASSUME NEW i \in Interrupts, ClaimInterrupt(i) PROVE InOrder(D)'
    <2>1. UNCHANGED <<saves, clock, saving>>
      BY <1>4, ClaimShapes
    <2>2. CASE table' = table
      BY <1>1, <2>1, <2>2, FewerRowsInOrder DEF Ascend
    <2>3. CASE \E k \in Newest(table) : table' = ClaimedAt(table, k, i)
      <3>1. PICK k \in 1..Len(table) : table' = ClaimedAt(table, k, i)
        BY <2>3 DEF Newest
      <3>2. Len(table') = Len(table) /\ \A l \in 1..Len(table) : table'[l].created = table[l].created
        BY <1>1, <3>1, ClaimedAtRows
      <3>3. Ascend(table')
        BY <1>1, <3>2 DEF Ascend
      <3>4. QED
        BY <2>1, <3>2, <3>3, FewerRowsInOrder
    <2>4. QED
      BY <1>4, <2>2, <2>3, ClaimShapes
  <1>5. QED
    BY <1>2, <1>3, <1>4, StampInOrder, InsertInOrder DEF Next, Read, KeepLast, OlderThan
-----------------------------------------------------------------------------
(* Each method answers as MemoryStore's does. *)

\* MemoryStore picks rows as this module does: the position of a rank is unique.
LEMMA SamePicked ==
  ASSUME NEW s \in Seq(Checkpoint), NEW K \in SUBSET (1..Len(s))
  PROVE  Memory!Picked(s, K) = Picked(s, K)
PROOF
  <1> DEFINE at(j)  == CHOOSE k \in K : Memory!Cardinality({l \in K : l <= k}) = j
             c == Cardinality(K)
  <1>1. \A S : Memory!Cardinality(S) = Cardinality(S)
    BY DEF Memory!Cardinality, Cardinality
  <1>2. Memory!Picked(s, K) = [j \in 1..Memory!Cardinality(K) |-> s[at(j)]]
    BY DEF Memory!Picked
  <1>3. Picked(s, K) = [j \in 1..c |-> s[Nth(K, j)]]
    BY DEF Picked, Nth, Rank
  <1>4. /\ \A j \in 1..c : Nth(K, j) \in K /\ Rank(K, Nth(K, j)) = j
        /\ \A k \in K : Nth(K, Rank(K, k)) = k
    <2>1. Len(s) \in Nat
      OBVIOUS
    <2>2. QED
      BY <2>1, NthOfRank
  <1>5. ASSUME NEW j \in 1..c PROVE at(j) = Nth(K, j)
    <2>1. \A k : Memory!Cardinality({l \in K : l <= k}) = Rank(K, k)
      BY <1>1 DEF Rank
    <2>2. \E k \in K : Memory!Cardinality({l \in K : l <= k}) = j
      BY <1>4, <1>5, <2>1
    <2>3. at(j) \in K /\ Memory!Cardinality({l \in K : l <= at(j)}) = j
      BY <2>2
    <2> HIDE DEF at
    <2>4. Rank(K, at(j)) = j
      BY <2>1, <2>3
    <2>5. QED
      BY <1>4, <2>3, <2>4
  <1> HIDE DEF at, c
  <1>6. Memory!Cardinality(K) = c
    BY <1>1 DEF c
  <1>7. QED
    BY <1>2, <1>3, <1>5, <1>6

\* The operators that both modules take from StoreRows.
LEMMA SameOperators ==
  /\ Memory!Contents = Contents
  /\ \A n, c, t : Memory!NewRow(n, c, t) = NewRow(n, c, t)
  /\ \A s \in Seq(Checkpoint) : \A K \in SUBSET (1..Len(s)) : Memory!Picked(s, K) = Picked(s, K)
  /\ \A c, s : Memory!RowsOf(c, s) = RowsOf(c, s)
  /\ \A c, n : Memory!Number(c, n) = Number(c, n)
  /\ \A w : Memory!Word(w) = Word(w)
  /\ \A r, i : Memory!Verdict(r, i) = Verdict(r, i)
  /\ \A i : Memory!Resolved(i) <=> Resolved(table, i)
PROOF
  <1>1. Memory!Silent = Silent
    BY DEF Memory!Silent, Silent
  <1>2. Memory!Contents = Contents
    BY DEF Memory!Contents, Contents, Memory!MaybeInterrupt, MaybeInterrupt
  <1>3. \A n, c, t : Memory!NewRow(n, c, t) = NewRow(n, c, t)
    BY DEF Memory!NewRow, NewRow
  <1>4. \A s \in Seq(Checkpoint) : \A K \in SUBSET (1..Len(s)) : Memory!Picked(s, K) = Picked(s, K)
    BY SamePicked
  <1>5. \A c, s : Memory!RowsOf(c, s) = RowsOf(c, s)
    BY <1>1 DEF Memory!RowsOf, RowsOf
  <1>6. \A c, n : Memory!Number(c, n) = Number(c, n)
    BY <1>1 DEF Memory!Number, Number
  <1>7. \A w : Memory!Word(w) = Word(w)
    BY <1>1 DEF Memory!Word, Word
  <1>8. \A r, i : Memory!Verdict(r, i) = Verdict(r, i)
    BY DEF Memory!Verdict, Verdict
  <1>9. \A i : Memory!Resolved(i) <=> Resolved(table, i)
    BY DEF Memory!Resolved, Resolved
  <1>10. QED
    BY <1>2, <1>3, <1>4, <1>5, <1>6, <1>7, <1>8, <1>9

\* An insertion is save_state of the list: it comes when the row is there.
LEMMA SaveAsMemory ==
  ASSUME TypeOK, NEW D, OneSaver, ClockAdvances(D), InOrder(D), NEW s \in Savers, Insert(s)
  PROVE  Memory!SaveState
PROOF
  <1>1. PICK c \in Contents, t \in 0..MaxTime : table' = Append(table, NewRow(saves + 1, c, t))
    BY InsertInOrder
  <1>2. saves < MaxSaves /\ saves' = saves + 1 /\ answer' = Number("save", saves + 1)
    BY InsertInOrder
  <1>3. QED
    BY <1>1, <1>2, SameOperators DEF Memory!SaveState

\* The newest row is the last.
LEMMA LoadAsMemory ==
  ASSUME TypeOK, Ascend(table), LoadState
  PROVE  Memory!LoadState
PROOF
  <1>1. UNCHANGED <<table, saves>>
    BY DEF LoadState
  <1>2. CASE table = <<>>
    BY <1>1, <1>2, SameOperators DEF LoadState, Memory!LoadState
  <1>3. CASE table # <<>>
    <2>1. Newest(table) = {Len(table)} /\ Len(table) \in 1..Len(table)
      BY <1>3, NewestIsLast DEF TypeOK
    <2>2. PICK k \in Newest(table) : answer' = RowsOf("load", <<ToMeta(table[k])>>)
      BY <1>3 DEF LoadState
    <2>3. k = Len(table) /\ table[k] \in Checkpoint
      BY <2>1, <2>2 DEF TypeOK
    <2>4. answer' = RowsOf("load", <<table[Len(table)]>>)
      BY <2>2, <2>3, ToMetaIsIdentity
    <2>5. QED
      BY <1>1, <1>3, <2>4, SameOperators DEF Memory!LoadState
  <1>4. QED
    BY <1>2, <1>3

\* No two rows have the id that was asked for.
LEMMA VersionAsMemory ==
  ASSUME TypeOK, LoadVersion
  PROVE  Memory!LoadVersion
PROOF
  <1>1. UNCHANGED <<table, saves>> /\ table \in Seq(Checkpoint)
    BY DEF LoadVersion, TypeOK
  <1>2. PICK n \in 1..saves :
          answer' = IF \E k \in 1..Len(table) : table[k].id = n
                    THEN RowsOf("version", <<ToMeta(CHOOSE r \in {table[k] : k \in 1..Len(table)} :
                                                      r.id = n)>>)
                    ELSE RowsOf("version", <<>>)
    BY DEF LoadVersion
  <1> DEFINE K == {k \in 1..Len(table) : table[k].id = n}
  <1>3. answer' = RowsOf("version", Picked(table, K))
    <2>1. CASE \E k \in 1..Len(table) : table[k].id = n
      <3>1. PICK k \in 1..Len(table) : table[k].id = n
        BY <2>1
      <3> DEFINE v == CHOOSE r \in {table[l] : l \in 1..Len(table)} : r.id = n
      <3>2. v \in Checkpoint /\ v \in {table[l] : l \in 1..Len(table)} /\ v.id = n
        BY <1>1, <3>1, VersionFound
      <3>3. answer' = RowsOf("version", <<ToMeta(v)>>)
        BY <1>2, <2>1
      <3> HIDE DEF v
      <3>4. v = table[k]
        BY <3>1, <3>2 DEF TypeOK
      <3>5. K = {k}
        BY <3>1 DEF TypeOK
      <3>6. Picked(table, K) = <<table[k]>>
        BY <1>1, <3>5, PickedOne
      <3>7. QED
        BY <3>2, <3>3, <3>4, <3>6, ToMetaIsIdentity
    <2>2. CASE ~\E k \in 1..Len(table) : table[k].id = n
      <3>1. K = {}
        BY <2>2
      <3>2. Picked(table, K) = <<>>
        BY <1>1, <3>1, PickedNone
      <3>3. QED
        BY <1>2, <2>2, <3>2
    <2>3. QED
      BY <2>1, <2>2
  <1>4. QED
    BY <1>1, <1>3, SameOperators DEF Memory!LoadVersion

\* The order of the stamps is the order of the list.
LEMMA ListAsMemory ==
  ASSUME TypeOK, Ascend(table), ListCheckpoints
  PROVE  Memory!ListCheckpoints
PROOF
  <1>1. UNCHANGED <<table, saves>> /\ table \in Seq(Checkpoint)
    BY DEF ListCheckpoints, TypeOK
  <1>2. PICK t \in Ascending(table) :
          answer' = RowsOf("list", [k \in 1..Len(t) |-> ToMeta(t[k])])
    BY DEF ListCheckpoints
  <1>3. t = table
    BY <1>1, <1>2, ListedInOrder
  <1>4. answer' = RowsOf("list", table)
    BY <1>1, <1>2, <1>3, ListedRows
  <1>5. QED
    BY <1>1, <1>4, SameOperators DEF Memory!ListCheckpoints

\* The newest n rows are the last n.
LEMMA KeepLastAsMemory ==
  ASSUME TypeOK, Ascend(table), NEW n \in Keeps, KeepLast(n)
  PROVE  Memory!KeepLast
PROOF
  <1>1. PICK K \in NewestRows(table, n) : Delete({table[k].id : k \in K})
    BY DEF KeepLast
  <1>2. K \in SUBSET (1..Len(table)) /\ n \in Nat /\ table \in Seq(Checkpoint) /\ Len(table) \in Nat
    BY <1>1, RowsAssumption DEF NewestRows, TypeOK
  <1>3. /\ table' = Picked(table, K)
        /\ answer' = Number("delete", Len(table) - Len(table'))
        /\ saves' = saves
    BY <1>1, <1>2, KeptPositions DEF Delete
  <1>4. table' = IF Len(table) > n THEN SubSeq(table, Len(table) - n + 1, Len(table)) ELSE table
    <2>1. CASE Len(table) > n
      <3>1. K = (Len(table) - n + 1)..Len(table)
        BY <1>2, <2>1, NewestRowsAreLast
      <3>2. Len(table) - n + 1 \in 1..(Len(table) + 1)
        BY <1>2, <2>1
      <3>3. Picked(table, (Len(table) - n + 1)..Len(table))
              = SubSeq(table, Len(table) - n + 1, Len(table))
        BY <1>2, <3>2, PickedSuffix
      <3>4. QED
        BY <1>3, <2>1, <3>1, <3>3
    <2>2. CASE ~(Len(table) > n)
      BY <1>2, <1>3, <2>2, NewestRowsAreLast, PickedAll
    <2>3. QED
      BY <2>1, <2>2
  <1>5. Memory!Drop(IF Len(table) > n THEN SubSeq(table, Len(table) - n + 1, Len(table)) ELSE table)
    BY <1>3, <1>4, SameOperators DEF Memory!Drop
  <1>6. QED
    BY <1>5 DEF Memory!KeepLast

\* The rows of a cutoff are the same in both.
LEMMA OlderThanAsMemory ==
  ASSUME TypeOK, NEW D, ClockAdvances(D), clock <= 1 + D * MaxSaves, OlderThan
  PROVE  Memory!OlderThan
PROOF
  <1>1. PICK cutoff \in 0..(clock + Skew) :
          Delete({table[k].id : k \in {l \in 1..Len(table) : table[l].created >= cutoff}})
    BY DEF OlderThan
  <1> DEFINE K == {l \in 1..Len(table) : table[l].created >= cutoff}
  <1>2. K \in SUBSET (1..Len(table))
    OBVIOUS
  <1>3. /\ table' = Picked(table, K)
        /\ answer' = Number("delete", Len(table) - Len(table'))
        /\ saves' = saves
    <2>1. Delete({table[k].id : k \in K})
      BY <1>1
    <2> HIDE DEF K
    <2>2. QED
      BY <1>2, <2>1, KeptPositions DEF Delete
  <1>4. cutoff \in 0..MaxTime
    <2>1. D * MaxSaves \in Nat
      BY RowsAssumption, Product DEF ClockAdvances
    <2>2. 1 + D * MaxSaves + Skew <= MaxTime
      BY DEF ClockAdvances
    <2>3. clock \in Nat /\ Skew \in Nat /\ MaxTime \in Nat
      BY RowsAssumption, ClockAssumption DEF TypeOK
    <2>4. \A q \in Nat : clock <= 1 + q /\ 1 + q + Skew <= MaxTime => cutoff \in 0..MaxTime
      BY <2>3
    <2>5. QED
      BY <2>1, <2>2, <2>4, Zenon
  <1>5. Memory!Drop(Picked(table, K))
    BY <1>3, SameOperators DEF Memory!Drop
  <1>6. Memory!Drop(Memory!Picked(table, K))
    <2>1. Memory!Picked(table, K) = Picked(table, K)
      BY <1>2, SamePicked DEF TypeOK
    <2>2. QED
      BY <1>5, <2>1
  <1>7. QED
    BY <1>4, <1>6 DEF Memory!OlderThan

\* The row that decides a claim is the last, and it is the one that changes.
LEMMA ClaimAsMemory ==
  ASSUME TypeOK, Ascend(table), NEW i \in Interrupts, ClaimInterrupt(i)
  PROVE  Memory!ClaimInterrupt
PROOF
  <1> DEFINE n == Len(table)
  <1>1. saves' = saves /\ table \in Seq(Checkpoint)
    BY ClaimShapes DEF TypeOK
  <1>2. CASE Resolved(table, i)
    <2>1. answer' = Word("AlreadyCompleted") /\ table' = table
      BY <1>2 DEF ClaimInterrupt, ClaimAnswers
    <2>2. table # <<>> /\ Memory!Resolved(i)
      BY <1>1, <1>2, SameOperators DEF Resolved
    <2>3. QED
      BY <1>1, <2>1, <2>2, SameOperators DEF Memory!ClaimInterrupt
  <1>3. CASE ~Resolved(table, i) /\ table = <<>>
    <2>1. answer' = Word("NothingToResume") /\ table' = table
      BY <1>3 DEF ClaimInterrupt, ClaimAnswers
    <2>2. QED
      BY <1>1, <1>3, <2>1, SameOperators DEF Memory!ClaimInterrupt
  <1>4. CASE ~Resolved(table, i) /\ table # <<>>
    <2>1. PICK k \in Newest(table) :
            IF Verdict(ToMeta(table[k]), i) # "Claimed"
            THEN ClaimAnswers(Verdict(ToMeta(table[k]), i))
            ELSE /\ table' = [table EXCEPT ![k].status = "Running", ![k].claimed = i]
                 /\ answer' = Word("Claimed")
      BY <1>4 DEF ClaimInterrupt
    <2>2. k = n /\ table[n] \in Checkpoint
      BY <1>1, <1>4, <2>1, NewestIsLast DEF TypeOK
    <2>3. ToMeta(table[n]) = table[n]
      BY <2>2, ToMetaIsIdentity
    <2> DEFINE v == Verdict(table[n], i)
    <2>4. /\ answer' = Word(v)
          /\ table' = IF v = "Claimed"
                      THEN [table EXCEPT ![n].status = "Running", ![n].claimed = i]
                      ELSE table
      BY <2>1, <2>2, <2>3 DEF ClaimAnswers
    <2>5. Memory!Verdict(table[n], i) = v
      BY SameOperators
    <2> HIDE DEF v
    <2>6. QED
      BY <1>1, <1>4, <2>4, <2>5, SameOperators DEF Memory!ClaimInterrupt
  <1>5. QED
    BY <1>2, <1>3, <1>4
\* Every step of the table is a step of the list, or leaves it alone.
LEMMA StepAsMemory ==
  ASSUME TypeOK, NEW D, OneSaver, ClockAdvances(D), InOrder(D), [Next]_vars
  PROVE  [Memory!Next]_<<table, answer, saves>>
PROOF
  <1>1. Ascend(table)
    BY DEF InOrder
  <1>2. clock <= 1 + D * MaxSaves
    <2>1. saves \in Nat /\ MaxSaves \in Nat /\ D \in Nat /\ clock \in Nat /\ saves <= MaxSaves
      BY RowsAssumption DEF TypeOK, ClockAdvances, InOrder
    <2>2. D * saves <= D * MaxSaves /\ D * saves \in Nat /\ D * MaxSaves \in Nat
      BY <2>1, Product
    <2>3. CASE \A s \in Savers : saving[s] = <<>>
      <3>1. clock <= 1 + D * saves
        BY <2>3 DEF InOrder
      <3>2. \A p, q \in Nat : clock <= 1 + p /\ p <= q => clock <= 1 + q
        BY <2>1
      <3>3. QED
        BY <2>2, <3>1, <3>2, Zenon
    <2>4. CASE \E s \in Savers : saving[s] # <<>>
      <3>1. saves + 1 <= MaxSaves /\ clock <= 1 + D * (saves + 1)
        BY <2>4 DEF InOrder
      <3>2. D * (saves + 1) <= D * MaxSaves /\ D * (saves + 1) \in Nat
        BY <2>1, <3>1, Product
      <3>3. \A p, q \in Nat : clock <= 1 + p /\ p <= q => clock <= 1 + q
        BY <2>1
      <3>4. QED
        BY <2>2, <3>1, <3>2, <3>3, Zenon
    <2>5. QED
      BY <2>3, <2>4
  <1>3. ASSUME NEW s \in Savers, Stamp(s) PROVE UNCHANGED <<table, answer, saves>>
    BY <1>3 DEF Stamp
  <1>4. KeepAll => Memory!KeepAll
    BY SameOperators DEF KeepAll, Memory!KeepAll
  <1>5. CASE UNCHANGED vars
    BY <1>5 DEF vars
  <1>6. ASSUME NEW s \in Savers, Insert(s) PROVE Memory!Next
    BY <1>6, SaveAsMemory DEF Memory!Next
  <1>7. ASSUME NEW n \in Keeps, KeepLast(n) PROVE Memory!Next
    BY <1>1, <1>7, KeepLastAsMemory DEF Memory!Next
  <1>8. ASSUME NEW i \in Interrupts, ClaimInterrupt(i) PROVE Memory!Next
    BY <1>1, <1>8, ClaimAsMemory DEF Memory!Next
  <1>9. LoadState \/ LoadVersion \/ ListCheckpoints \/ KeepAll \/ OlderThan => Memory!Next
    BY <1>1, <1>2, <1>4, LoadAsMemory, VersionAsMemory, ListAsMemory, OlderThanAsMemory
       DEF Memory!Next
  <1>10. QED
    BY <1>3, <1>5, <1>6, <1>7, <1>8, <1>9 DEF Next

\* Under one saver and a clock that advances from save to save, SqliteCheckpointer and
\* PostgresCheckpointer are InMemoryCheckpointer: every call has the same answer and
\* the same effect.
THEOREM TablesAnswerAsTheList ==
  ASSUME OneSaver, NEW D \in Nat, ClockAdvances(D)
  PROVE  Spec => MemorySpec
PROOF
  <1>1. Init => InOrder(D)
    <2>1. Len(<<>>) = 0 /\ 1..0 = {} /\ D * 0 = 0 /\ 0 <= MaxSaves
      BY RowsAssumption
    <2>2. QED
      BY <2>1 DEF Init, InOrder, Ascend
  <1>2. TypeOK /\ InOrder(D) /\ [Next]_vars => InOrder(D)'
    BY StepKeepsOrder
  <1>3. Init => Memory!Init
    BY DEF Init, Memory!Init, Memory!Silent, Silent
  <1>4. TypeOK /\ InOrder(D) /\ [Next]_vars => [Memory!Next]_<<table, answer, saves>>
    BY StepAsMemory
  <1>5. QED
    BY <1>1, <1>2, <1>3, <1>4, StoreTypeCorrect, PTL DEF Spec, MemorySpec, Memory!Spec
=============================================================================

------------------------- MODULE AgentTracesProofs -------------------------
(***************************************************************************)
(* Proofs about AgentTraces, for any traces, recorders and sizes.  What a  *)
(* page is comes down to one fact: the newest ids of a set are everything  *)
(* from its smallest member on.                                            *)
(* The viewer and the recorder agree on what a document is because the     *)
(* levels of what the recorder accepts have no span in common and come     *)
(* without a gap.                                                          *)
(***************************************************************************)
EXTENDS AgentTraces, FiniteSetTheorems, WellFoundedInduction, TLAPS

\* Ids are bounded, so every set of them is finite, and one that is not empty
\* has a smallest and a greatest member.
LEMMA IdsAreFinite ==
  ASSUME NEW S \in SUBSET Id PROVE IsFiniteSet(S)
<1>1. IsFiniteSet(1 .. MaxId)
  BY FS_Interval, SizesAssumption
<1> QED BY <1>1, FS_Subset DEF Id

\* The naturals are well-founded.
LEMMA SmallestOfNat ==
  ASSUME NEW S \in SUBSET Nat, S # {}
  PROVE  \E x \in S : \A y \in S : x <= y
<1>1. PICK n \in S : \A m \in S : ~(<<m, n>> \in OpToRel(<, Nat))
  BY NatLessThanWellFounded, WFMin, Zenon
<1>2. \A m \in S : ~(m < n)
  BY <1>1 DEF OpToRel
<1> QED BY <1>2

LEMMA GreatestOfIds ==
  ASSUME NEW S \in SUBSET Id, S # {}
  PROVE  \E x \in S : \A y \in S : y <= x
<1> DEFINE T == {MaxId + 1 - x : x \in S}
<1>1. T \in SUBSET Nat /\ T # {}
  <2>1. ASSUME NEW x \in S PROVE MaxId + 1 - x \in Nat
    BY SizesAssumption DEF Id
  <2> QED BY <2>1
<1>2. PICK t \in T : \A u \in T : t <= u
  BY <1>1, SmallestOfNat
<1>3. PICK x \in S : t = MaxId + 1 - x
  BY <1>2
<1>4. ASSUME NEW y \in S PROVE y <= x
  <2>1. t <= MaxId + 1 - y
    BY <1>2
  <2> QED BY <2>1, <1>3, SizesAssumption DEF Id
<1> QED BY <1>4

LEMMA MinOfIds ==
  ASSUME NEW S \in SUBSET Id, S # {}
  PROVE  Min(S) \in S /\ \A y \in S : Min(S) <= y
<1>1. S \in SUBSET Nat
  BY DEF Id
<1> QED BY <1>1, SmallestOfNat DEF Min

-----------------------------------------------------------------------------
\* What a page holds and where the next one starts.
LEMMA NewestFromMin ==
  ASSUME NEW S \in SUBSET Id, S # {}
  PROVE  /\ Newest(S) # {} /\ Newest(S) \subseteq S
         /\ \A i \in S : i >= Min(Newest(S)) => i \in Newest(S)
<1> DEFINE From(i) == {j \in S : j >= i}
<1>1. PICK x \in S : \A y \in S : y <= x
  BY GreatestOfIds
<1>2. From(x) = {x}
  <2>1. ASSUME NEW j \in S, j >= x PROVE j = x
    BY <1>1, <2>1 DEF Id
  <2>2. x >= x
    BY DEF Id
  <2> QED BY <2>1, <2>2
<1>3. x \in Newest(S)
  <2>1. Cardinality(From(x)) = 1
    BY <1>2, FS_Singleton
  <2>2. 1 <= PageSize
    BY SizesAssumption
  <2> QED BY <2>1, <2>2 DEF Newest
<1>4. Newest(S) \subseteq S
  BY DEF Newest
<1>5. ASSUME NEW i \in S, i >= Min(Newest(S)) PROVE i \in Newest(S)
  <2> DEFINE m == Min(Newest(S))
  <2>1. m \in Newest(S)
    BY <1>3, <1>4, MinOfIds
  <2>2. From(i) \in SUBSET From(m)
    <3>1. m \in Id /\ i >= m
      BY <1>4, <1>5, <2>1
    <3> HIDE DEF m
    <3>2. ASSUME NEW j \in S, j >= i PROVE j >= m
      BY <3>1, <3>2 DEF Id
    <3> QED BY <3>2
  <2>3. From(m) \in SUBSET Id
    BY DEF Id
  <2>4. Cardinality(From(i)) <= Cardinality(From(m)) /\ Cardinality(From(i)) \in Nat
          /\ Cardinality(From(m)) \in Nat
    BY <2>2, <2>3, IdsAreFinite, FS_Subset, FS_CardinalityType
  <2>5. Cardinality(From(m)) <= PageSize
    BY <2>1 DEF Newest
  <2> QED BY <2>4, <2>5, SizesAssumption DEF Newest
<1> QED BY <1>3, <1>4, <1>5

\* A page and its cursor: what is older than the page's own cursor and not
\* older than the next page's is on it.
LEMMA PageHasAll ==
  ASSUME NEW before, Retained \in SUBSET Id
  PROVE  /\ Page(before).rows \in SUBSET Id
         /\ Page(before).next \in 0 .. MaxId
         /\ \A i \in Older(before) : i >= Page(before).next => i \in Page(before).rows
<1> DEFINE older == Older(before)
           page  == Newest(older)
<1>1. older \in SUBSET Id
  BY DEF Older
<1>2. page \subseteq older
  BY DEF Newest
<1>3. CASE page = older
  BY <1>1, <1>3, SizesAssumption DEF Page, NoMore
<1>4. CASE page # older
  <2>1. older # {}
    BY <1>2, <1>4
  <2>2. page # {} /\ \A i \in older : i >= Min(page) => i \in page
    BY <1>1, <2>1, NewestFromMin
  <2>3. Min(page) \in page
    BY <1>1, <1>2, <2>2, MinOfIds
  <2> QED BY <1>1, <1>2, <1>4, <2>2, <2>3 DEF Page, Id
<1> QED BY <1>3, <1>4

-----------------------------------------------------------------------------
\* Types.
LEMMA BatchIsSafe ==
  ASSUME TypeOK, prune # Idle, Cardinality(Batch) >= BatchSize
  PROVE  Max(Batch) \in Id
<1>1. Batch \in SUBSET Id
  BY DEF Batch, Expired, TypeOK
<1>2. Batch # {}
  BY FS_EmptySet, SizesAssumption
<1>3. \E x \in Batch : \A y \in Batch : y <= x
  BY <1>1, <1>2, GreatestOfIds
<1>4. \E x \in Batch : \A y \in Batch : x >= y
  BY <1>1, <1>3 DEF Id
<1> QED BY <1>1, <1>4 DEF Max

LEMMA RetainedAreIds == TypeOK => Retained \in SUBSET Id
  BY DEF Retained, TypeOK

LEMMA TypeInit == Init => TypeOK
  BY SizesAssumption DEF Init, TypeOK, Idle

LEMMA TypeStep == TypeOK /\ [Next]_vars => TypeOK'
<1> SUFFICES ASSUME TypeOK, [Next]_vars PROVE TypeOK'
  OBVIOUS
<1> USE DEF Idle
<1>1. CASE UNCHANGED vars
  BY <1>1 DEF vars, TypeOK
<1>2. CASE Tick
  BY <1>2, SizesAssumption DEF Tick, TypeOK
<1>3. ASSUME NEW r \in Recorders, Commit(r) PROVE TypeOK'
  <2>1. inserts[r].id \in Id /\ inserts[r].row \in Row
    BY <1>3 DEF Commit, Inserting, TypeOK
  <2>2. DOMAIN rows' = DOMAIN rows \cup {inserts[r].id}
    BY <1>3 DEF Commit
  <2>3. ASSUME NEW i \in DOMAIN rows' PROVE rows'[i] \in Row
    BY <1>3, <2>1, <2>2, <2>3 DEF Commit, TypeOK
  <2> QED BY <1>3, <2>1, <2>2, <2>3 DEF Commit, TypeOK
<1>4. ASSUME NEW r \in Recorders, Rollback(r) PROVE TypeOK'
  BY <1>4 DEF Rollback, TypeOK
<1>5. ASSUME NEW r \in Recorders, NEW t \in Traces, NEW s \in horizon .. MaxTime,
             NEW p \in Payloads, Insert(r, t, s, p)
      PROVE TypeOK'
  <2> DEFINE row == [trace |-> t, started |-> s, spans |-> p, document |-> Document(p)]
             open == [at |-> "inserted", id |-> lastId + 1, row |-> row]
  <2>1. s \in 0 .. MaxTime
    BY SizesAssumption DEF TypeOK
  <2>2. Document(p) \in {Document(q) : q \in Payloads} \ {Invalid}
    BY <1>5 DEF Insert
  <2>3. row \in Row
    BY <2>1, <2>2 DEF Row
  <2>4. lastId + 1 \in Id /\ lastId' \in 0 .. MaxId
    BY <1>5, SizesAssumption DEF Insert, TypeOK, Id
  <2>5. open \in [at : {"inserted"}, id : Id, row : Row]
    BY <2>3, <2>4
  <2> HIDE DEF row
  <2>6. inserts' = inserts \/ inserts' = [inserts EXCEPT ![r] = open]
    BY <1>5 DEF Insert, row
  <2>7. inserts' \in [Recorders -> {Idle} \cup [at : {"inserted"}, id : Id, row : Row]]
    BY <2>5, <2>6 DEF TypeOK
  <2> QED BY <1>5, <2>4, <2>7 DEF Insert, TypeOK
<1>6. CASE BeginPrune
  BY <1>6, SizesAssumption DEF BeginPrune, TypeOK
<1>7. CASE PruneBatch
  <2>1. DOMAIN rows' \subseteq DOMAIN rows /\ \A i \in DOMAIN rows' : rows'[i] = rows[i]
    BY <1>7 DEF PruneBatch
  <2>2. Cardinality(Batch) \in Nat
    <3>1. Batch \in SUBSET Id
      BY DEF Batch, Expired, TypeOK
    <3> QED BY <3>1, IdsAreFinite, FS_CardinalityType
  <2>3. \/ prune' = Idle
        \/ prune' = [prune EXCEPT !.after = Max(Batch)] /\ Max(Batch) \in Id
    BY <1>7, <2>2, BatchIsSafe, SizesAssumption DEF PruneBatch
  <2>4. prune' \in {Idle} \cup [at : {"pruning"}, horizon : 0 .. MaxTime, after : 0 .. MaxId]
    BY <1>7, <2>3, SizesAssumption DEF PruneBatch, TypeOK, Id
  <2> QED BY <1>7, <2>1, <2>4 DEF PruneBatch, TypeOK
<1>8. CASE PruneCrash
  BY <1>8 DEF PruneCrash, TypeOK
<1>9. ASSUME NEW before \in 1 .. Latest, NEW shown \in SUBSET Id, NEW expected \in SUBSET Id,
             Show(before, shown, expected)
      PROVE TypeOK'
  <2>1. Page(before).rows \in SUBSET Id /\ Page(before).next \in 0 .. MaxId
    BY RetainedAreIds, PageHasAll
  <2> QED BY <1>9, <2>1 DEF Show, TypeOK
<1>10. CASE Open
  BY <1>9, <1>10, RetainedAreIds, SizesAssumption DEF Open, Latest
<1>11. CASE Earlier
  BY <1>9, <1>11, SizesAssumption DEF Earlier, TypeOK, Latest, NoMore
<1>12. CASE Refresh
  BY <1>9, <1>12 DEF Refresh, TypeOK
<1> QED BY <1>1, <1>2, <1>3, <1>4, <1>5, <1>6, <1>7, <1>8, <1>10, <1>11, <1>12 DEF Next

\* Every variable keeps its type: a stored document is a valid one, a cursor
\* an id.
THEOREM TypeCorrect == Spec => []TypeOK
  BY TypeInit, TypeStep, PTL DEF Spec

-----------------------------------------------------------------------------
\* What a step can make of the retained rows: one that commits joins them, and
\* otherwise they get fewer.
LEMMA RetainedShrinks ==
  ASSUME TypeOK, horizon' \in Nat, horizon' >= horizon, DOMAIN rows' \subseteq DOMAIN rows,
         \A i \in DOMAIN rows' : rows'[i] = rows[i]
  PROVE  Retained' \subseteq Retained
<1> SUFFICES ASSUME NEW i \in DOMAIN rows, i \in DOMAIN rows',
                    rows'[i].started >= horizon'
             PROVE  rows[i].started >= horizon
  BY DEF Retained
<1>1. rows[i].started \in Nat /\ horizon \in Nat
  BY DEF TypeOK, Row
<1> QED BY <1>1

LEMMA FreshStep ==
  ASSUME TypeOK, IdsAreFresh, [Next]_vars PROVE IdsAreFresh'
<1> USE DEF Idle
<1>1. CASE UNCHANGED vars
  BY <1>1 DEF vars, IdsAreFresh, Inserting
<1>2. CASE Tick
  BY <1>2 DEF Tick, IdsAreFresh, Inserting
<1>3. ASSUME NEW r \in Recorders, Commit(r) PROVE IdsAreFresh'
  <2>1. DOMAIN rows' = DOMAIN rows \cup {inserts[r].id} /\ inserts[r].id \in 1 .. lastId
    BY <1>3 DEF Commit, IdsAreFresh
  <2>2. ASSUME NEW q \in Recorders, Inserting(q)'
        PROVE  q # r /\ Inserting(q) /\ inserts'[q] = inserts[q]
    BY <1>3, <2>2 DEF Commit, Inserting, TypeOK
  <2> QED BY <1>3, <2>1, <2>2 DEF Commit, IdsAreFresh
<1>4. ASSUME NEW r \in Recorders, Rollback(r) PROVE IdsAreFresh'
  <2>1. ASSUME NEW q \in Recorders, Inserting(q)'
        PROVE  q # r /\ Inserting(q) /\ inserts'[q] = inserts[q]
    BY <1>4, <2>1 DEF Rollback, Inserting, TypeOK
  <2> QED BY <1>4, <2>1 DEF Rollback, IdsAreFresh
<1>5. ASSUME NEW r \in Recorders, NEW t \in Traces, NEW s \in horizon .. MaxTime,
             NEW p \in Payloads, Insert(r, t, s, p)
      PROVE IdsAreFresh'
  <2>1. lastId \in Nat /\ lastId' = lastId + 1
    BY <1>5, SizesAssumption DEF Insert, TypeOK
  <2>2. ASSUME NEW q \in Recorders, Inserting(q)'
        PROVE  \/ Inserting(q) /\ inserts'[q] = inserts[q]
               \/ q = r /\ inserts'[q].id = lastId + 1
    BY <1>5, <2>2 DEF Insert, Inserting, TypeOK
  <2>3. ASSUME NEW i \in 1 .. lastId PROVE i \in 1 .. lastId' /\ i # lastId + 1
    BY <2>1
  <2>4. lastId + 1 \in 1 .. lastId'
    BY <2>1
  <2>5. rows' = rows /\ walk' = walk
    BY <1>5 DEF Insert
  <2>6. lastId + 1 \notin DOMAIN rows /\ (walk # Idle => lastId + 1 \notin walk.expected)
    BY <2>3 DEF IdsAreFresh
  <2>7. DOMAIN rows' \subseteq 1 .. lastId' /\ (walk' # Idle => walk'.expected \subseteq 1 .. lastId')
    BY <2>3, <2>5 DEF IdsAreFresh
  <2>8. ASSUME NEW q \in Recorders, Inserting(q)'
        PROVE  /\ inserts'[q].id \in (1 .. lastId') \ DOMAIN rows'
               /\ walk' # Idle => inserts'[q].id \notin walk'.expected
    BY <2>2, <2>3, <2>4, <2>5, <2>6, <2>8 DEF IdsAreFresh
  <2>9. ASSUME NEW q \in Recorders, Inserting(q)', NEW u \in Recorders, Inserting(u)',
               inserts'[u].id = inserts'[q].id
        PROVE  u = q
    BY <2>2, <2>3, <2>9 DEF IdsAreFresh
  <2> QED BY <2>7, <2>8, <2>9 DEF IdsAreFresh
<1>6. CASE BeginPrune
  BY <1>6 DEF BeginPrune, IdsAreFresh, Inserting
<1>7. CASE PruneBatch
  <2>1. DOMAIN rows' \subseteq DOMAIN rows
    BY <1>7 DEF PruneBatch
  <2> QED BY <1>7, <2>1 DEF PruneBatch, IdsAreFresh, Inserting
<1>8. CASE PruneCrash
  BY <1>8 DEF PruneCrash, IdsAreFresh, Inserting
<1>9. ASSUME NEW before, NEW shown, NEW expected, Show(before, shown, expected),
             expected \subseteq 1 .. lastId,
             \A r \in Recorders : Inserting(r) => inserts[r].id \notin expected
      PROVE IdsAreFresh'
  BY <1>9 DEF Show, IdsAreFresh, Inserting
<1>10. CASE Open
  <2>1. Retained \subseteq DOMAIN rows
    BY DEF Retained
  <2> QED BY <1>9, <1>10, <2>1 DEF Open, IdsAreFresh
<1>11. CASE Earlier
  BY <1>9, <1>11 DEF Earlier, IdsAreFresh
<1>12. CASE Refresh
  BY <1>9, <1>12 DEF Refresh, IdsAreFresh
<1> QED BY <1>1, <1>2, <1>3, <1>4, <1>5, <1>6, <1>7, <1>8, <1>10, <1>11, <1>12 DEF Next

LEMMA LateStep ==
  ASSUME TypeOK, PruneIsLate, [Next]_vars PROVE PruneIsLate'
<1>1. horizon \in Nat
  BY DEF TypeOK
<1> USE DEF PruneIsLate, Idle
<1>2. CASE Tick
  BY <1>1, <1>2 DEF Tick, TypeOK
<1>3. CASE BeginPrune
  BY <1>1, <1>3 DEF BeginPrune
<1>4. CASE PruneBatch
  BY <1>4 DEF PruneBatch, TypeOK
<1>5. CASE PruneCrash
  BY <1>5 DEF PruneCrash
<1>6. CASE UNCHANGED <<prune, horizon>>
  BY <1>6
<1> QED BY <1>2, <1>3, <1>4, <1>5, <1>6
  DEF Next, vars, Commit, Rollback, Insert, Open, Earlier, Refresh, Show

LEMMA PagesStep ==
  ASSUME TypeOK, IdsAreFresh, PagesShowAll, [Next]_vars PROVE PagesShowAll'
<1> USE DEF Idle
<1>1. horizon \in Nat
  BY DEF TypeOK
<1>2. CASE UNCHANGED walk /\ Retained' \subseteq Retained
  BY <1>2 DEF PagesShowAll
<1>3. CASE UNCHANGED vars
  BY <1>2, <1>3 DEF vars, Retained
<1>4. CASE Tick
  <2>1. Retained' \subseteq Retained
    BY <1>1, <1>4, RetainedShrinks DEF Tick
  <2> QED BY <1>2, <1>4, <2>1 DEF Tick
<1>5. ASSUME NEW r \in Recorders, Commit(r) PROVE PagesShowAll'
  <2>1. Retained' \subseteq Retained \cup {inserts[r].id}
    BY <1>5 DEF Commit, Retained
  <2>2. walk # Idle => inserts[r].id \notin walk.expected
    BY <1>5 DEF Commit, IdsAreFresh
  <2> QED BY <1>5, <2>1, <2>2 DEF Commit, PagesShowAll
<1>6. CASE PruneBatch
  <2>1. Retained' \subseteq Retained
    BY <1>1, <1>6, RetainedShrinks DEF PruneBatch
  <2> QED BY <1>2, <1>6, <2>1 DEF PruneBatch
<1>7. CASE UNCHANGED <<rows, horizon, walk>>
  BY <1>2, <1>7 DEF Retained
<1>8. ASSUME NEW before, NEW shown, NEW expected, Show(before, shown, expected),
             before \in 1 .. Latest,
             \A i \in expected \cap Retained : i >= before => i \in shown
      PROVE PagesShowAll'
  <2>1. Retained' = Retained /\ Retained \in SUBSET Id
    BY <1>8, RetainedAreIds DEF Show, Retained
  <2>2. \A i \in Older(before) : i >= Page(before).next => i \in Page(before).rows
    BY <2>1, PageHasAll
  <2>3. ASSUME NEW i \in expected \cap Retained, i >= before \/ i >= Page(before).next
        PROVE  i \in shown \cup Page(before).rows
    <3>1. before \in Nat
      BY <1>8, SizesAssumption DEF Latest
    <3>2. i \in Id
      BY <2>1
    <3>3. i \in Nat
      BY <3>2, SizesAssumption DEF Id
    <3>4. i < before \/ i >= before
      BY <3>1, <3>3
    <3>5. i \in Older(before) \/ i >= before
      BY <3>4 DEF Older
    <3> QED BY <1>8, <2>2, <2>3, <3>5
  <2> QED BY <1>8, <2>1, <2>3 DEF Show, PagesShowAll
<1>9. CASE Open
  <2>1. \A i \in Retained : ~(i >= Latest)
    BY RetainedAreIds, SizesAssumption DEF Id, Latest
  <2> QED BY <1>8, <1>9, <2>1, SizesAssumption DEF Open, Latest
<1>10. CASE Earlier
  BY <1>8, <1>10, SizesAssumption DEF Earlier, TypeOK, PagesShowAll, Latest, NoMore
<1>11. CASE Refresh
  BY <1>8, <1>11 DEF Refresh, TypeOK, PagesShowAll
<1> QED BY <1>3, <1>4, <1>5, <1>6, <1>7, <1>9, <1>10, <1>11
  DEF Next, Rollback, Insert, BeginPrune, PruneCrash

LEMMA InductiveHolds == Spec => []Inductive
<1>1. Init => Inductive
  BY TypeInit DEF Init, Inductive, IdsAreFresh, PruneIsLate, PagesShowAll, Inserting, Idle
<1>2. Inductive /\ [Next]_vars => Inductive'
  BY TypeStep, FreshStep, LateStep, PagesStep DEF Inductive
<1> QED BY <1>1, <1>2, PTL DEF Spec

\* A walk through the pages misses no retained trace, whatever is recorded,
\* pruned and fetched again on the way.
THEOREM WalksMissNoTrace == Spec => []WalksMissNothing
<1>1. Inductive => WalksMissNothing
  BY DEF Inductive, PagesShowAll, WalksMissNothing
<1> QED BY <1>1, InductiveHolds, PTL

\* prune, however long it takes, deletes nothing within the retention.
THEOREM PruneSparesTheRetained == Spec => PruneSparesRetained
<1> DEFINE Spares == \A i \in DOMAIN rows \ DOMAIN rows' : rows[i].started < horizon
<1>1. Inductive /\ [Next]_vars => [Spares]_vars
  <2> SUFFICES ASSUME Inductive, Next PROVE Spares
    OBVIOUS
  <2>1. CASE PruneBatch
    <3> SUFFICES ASSUME NEW i \in DOMAIN rows \ DOMAIN rows' PROVE rows[i].started < horizon
      OBVIOUS
    <3>1. i \in Batch
      BY <2>1 DEF PruneBatch
    <3>2. rows[i].started < prune.horizon
      BY <3>1 DEF Batch, Expired
    <3>3. prune.horizon <= horizon
      BY <2>1 DEF PruneBatch, Inductive, PruneIsLate
    <3>4. rows[i].started \in Nat /\ horizon \in Nat /\ prune.horizon \in Nat
      BY <2>1 DEF PruneBatch, Inductive, TypeOK, Row, Idle
    <3> QED BY <3>2, <3>3, <3>4
  <2>2. ASSUME NEW r \in Recorders, Commit(r) PROVE Spares
    BY <2>2 DEF Commit
  <2>3. CASE UNCHANGED rows
    BY <2>3
  <2> QED BY <2>1, <2>2, <2>3
    DEF Next, Tick, Rollback, Insert, BeginPrune, PruneCrash, Open, Earlier, Refresh, Show
<1> QED BY <1>1, InductiveHolds, PTL DEF Spec, PruneSparesRetained

-----------------------------------------------------------------------------
\* Induction over a set of naturals.
LEMMA Induction ==
  ASSUME NEW T, 0 \in T, \A n \in Nat : n \in T => n + 1 \in T
  PROVE  \A n \in Nat : n \in T
<1> SUFFICES ASSUME Nat \ T # {} PROVE FALSE
  OBVIOUS
<1>1. PICK n \in Nat \ T : \A m \in Nat \ T : n <= m
  BY SmallestOfNat
<1>2. n # 0 /\ n - 1 \in Nat
  OBVIOUS
<1> QED BY <1>1, <1>2

\* Steps taken again and again from a start are a function of their number.
Iterates(f, A, a, step, n) ==
  /\ f \in [0 .. n -> A] /\ f[0] = a
  /\ \A k \in 1 .. n : f[k] = step[f[k - 1]]

LEMMA IterateExists ==
  ASSUME NEW A, NEW a \in A, NEW step \in [A -> A], NEW n \in Nat
  PROVE  \E f : Iterates(f, A, a, step, n)
<1> USE DEF Iterates
<1> DEFINE Good(f, m) == Iterates(f, A, a, step, m)
           T == {m \in Nat : \E f : Good(f, m)}
<1>1. 0 \in T
  <2> DEFINE f == [k \in 0 .. 0 |-> a]
  <2>1. Good(f, 0)
    OBVIOUS
  <2> QED BY <2>1
<1>2. ASSUME NEW m \in Nat, m \in T PROVE m + 1 \in T
  <2>1. PICK f : Good(f, m)
    BY <1>2
  <2> DEFINE g == [k \in 0 .. m + 1 |-> IF k = m + 1 THEN step[f[m]] ELSE f[k]]
  <2>2. f[m] \in A /\ \A k \in 0 .. m : f[k] \in A
    BY <2>1
  <2>3. \A k \in 0 .. m + 1 : k = m + 1 \/ k \in 0 .. m
    OBVIOUS
  <2>4. g \in [0 .. m + 1 -> A] /\ g[0] = a
    BY <2>1, <2>2, <2>3
  <2>5. ASSUME NEW k \in 1 .. m + 1 PROVE g[k] = step[g[k - 1]]
    <3>1. k - 1 \in 0 .. m /\ k \in 0 .. m + 1 /\ k - 1 \in 0 .. m + 1 /\ k - 1 # m + 1
      OBVIOUS
    <3>2. CASE k = m + 1
      BY <3>1, <3>2
    <3>3. CASE k # m + 1
      <4>1. k \in 1 .. m
        BY <3>3
      <4> QED BY <2>1, <3>1, <3>3, <4>1
    <3> QED BY <3>2, <3>3
  <2> HIDE DEF g
  <2>6. Good(g, m + 1)
    BY <2>4, <2>5
  <2> QED BY <2>6
<1>3. \A m \in Nat : m \in T
  <2> HIDE DEF T
  <2> QED BY <1>1, <1>2, Induction
<1> QED BY <1>3

-----------------------------------------------------------------------------
\* The ids of a list of spans, a depth at a time.
LEMMA LevelsAre ==
  ASSUME NEW spans, NEW limit \in Nat \ {0}
  PROVE  LET level == Levels(spans, limit)
         IN  /\ level[1] = RootIds(spans)
             /\ \A d \in 2 .. limit : level[d] = Children(spans, level[d - 1])
             /\ \A d \in 1 .. limit : level[d] \subseteq Ids(spans)
<1> DEFINE A == SUBSET Ids(spans)
           step == [T \in A |-> Children(spans, T)]
           Eq(l) == l = [d \in 1 .. limit |->
                           IF d = 1 THEN RootIds(spans) ELSE Children(spans, l[d - 1])]
           level == CHOOSE l : Eq(l)
<1>1. level = Levels(spans, limit)
  BY Zenon DEF Levels
<1>2. RootIds(spans) \in A /\ \A T : Children(spans, T) \in A
  BY DEF RootIds, Children, Ids
<1>3. step \in [A -> A] /\ \A T \in A : step[T] = Children(spans, T)
  BY <1>2
<1>4. PICK f : Iterates(f, A, RootIds(spans), step, limit - 1)
  <2> DEFINE a == RootIds(spans)
             n == limit - 1
  <2>1. n \in Nat
    OBVIOUS
  <2>2. a \in A /\ step \in [A -> A]
    BY <1>2, <1>3
  <2> HIDE DEF A, a, n, step
  <2>3. \E f : Iterates(f, A, a, step, n)
    BY <2>1, <2>2, IterateExists
  <2> QED BY <2>3 DEF a, n
<1> DEFINE h == [d \in 1 .. limit |-> f[d - 1]]
<1>5. Eq(h)
  <2>1. ASSUME NEW d \in 1 .. limit
        PROVE  h[d] = IF d = 1 THEN RootIds(spans) ELSE Children(spans, h[d - 1])
    <3>1. CASE d = 1
      BY <1>4, <3>1 DEF Iterates
    <3>2. CASE d # 1
      <4>1. d - 1 \in 1 .. limit - 1 /\ d - 1 \in 1 .. limit /\ d - 2 \in 0 .. limit - 1
            /\ (d - 1) - 1 = d - 2
        BY <3>2
      <4>2. f[d - 1] = step[f[d - 2]] /\ f[d - 2] \in A
        BY <1>4, <4>1 DEF Iterates
      <4>3. f[d - 1] = Children(spans, f[d - 2])
        BY <1>3, <4>2
      <4>4. h[d] = f[d - 1] /\ h[d - 1] = f[d - 2]
        BY <4>1
      <4> QED BY <3>2, <4>3, <4>4
    <3> QED BY <3>1, <3>2
  <2>2. h = [d \in 1 .. limit |-> h[d]]
    OBVIOUS
  <2> HIDE DEF h
  <2> QED BY <2>1, <2>2
<1>6. Eq(level)
  BY <1>5
<1> HIDE DEF level
<1>7. \A d \in 1 .. limit :
        level[d] = IF d = 1 THEN RootIds(spans) ELSE Children(spans, level[d - 1])
  BY <1>6
<1>8. level[1] = RootIds(spans)
  BY <1>7
<1>9. \A d \in 2 .. limit : level[d] = Children(spans, level[d - 1])
  BY <1>7
<1>10. \A d \in 1 .. limit : level[d] \subseteq Ids(spans)
  BY <1>2, <1>7
<1> QED BY <1>1, <1>8, <1>9, <1>10

\* What is stored: a list of spans that are all in order, visited within the
\* depth limit.
Accepted(spans) ==
  /\ spans \in Seq(ToSet(spans))
  /\ \A span \in ToSet(spans) : span.sound => span.id # NoParent
  /\ WellFormed(spans) /\ Converted(spans, MaxDepth) = Ids(spans)

LEMMA AcceptedSpans ==
  ASSUME NEW spans, Accepted(spans)
  PROVE  /\ Len(spans) \in 1 .. MaxSpans /\ DOMAIN spans = 1 .. Len(spans)
         /\ IsFiniteSet(Ids(spans)) /\ Cardinality(Ids(spans)) = Len(spans)
         /\ Ids(spans) = {spans[i].id : i \in 1 .. Len(spans)}
         /\ \A i, j \in 1 .. Len(spans) : spans[i].id = spans[j].id => i = j
         /\ NoParent \notin Ids(spans)
         /\ \E i \in 1 .. Len(spans) :
              /\ spans[i].parent = NoParent /\ RootIds(spans) = {spans[i].id}
              /\ \A j \in 1 .. Len(spans) : spans[j].parent = NoParent => j = i
<1> DEFINE n == Len(spans)
           ids == [i \in 1 .. n |-> spans[i].id]
<1>1. n \in 1 .. MaxSpans /\ n \in Nat /\ DOMAIN spans = 1 .. n
  BY DEF Accepted, WellFormed
<1>2. ToSet(spans) = {spans[i] : i \in 1 .. n}
  BY <1>1 DEF ToSet
<1>3. Ids(spans) = {spans[i].id : i \in 1 .. n}
  BY <1>2 DEF Ids
<1>4. ids \in Surjection(1 .. n, Ids(spans))
  BY <1>3 DEF Surjection
<1>5. IsFiniteSet(1 .. n) /\ Cardinality(1 .. n) = n
  BY <1>1, FS_Interval
<1>6. Cardinality(Ids(spans)) = n
  BY DEF Accepted, WellFormed
<1>7. IsFiniteSet(Ids(spans)) /\ ids \in Injection(1 .. n, Ids(spans))
  <2> HIDE DEF ids
  <2> QED BY <1>4, <1>5, <1>6, FS_Surjection
<1>8. \A i, j \in 1 .. n : spans[i].id = spans[j].id => i = j
  BY <1>7 DEF Injection, IsInjective
<1>9. NoParent \notin Ids(spans)
  BY <1>2, <1>3 DEF Accepted, WellFormed
<1> DEFINE R == {i \in 1 .. n : spans[i].parent = NoParent}
<1>10. IsFiniteSet(R) /\ Cardinality(R) = 1
  <2>1. IsFiniteSet(R)
    BY <1>5, FS_Subset
  <2> QED BY <2>1 DEF Accepted, WellFormed
<1>11. PICK i : R = {i}
  <2> HIDE DEF R
  <2> QED BY <1>10, FS_Singleton
<1>12. i \in 1 .. n /\ spans[i].parent = NoParent
       /\ \A j \in 1 .. n : spans[j].parent = NoParent => j = i
  BY <1>11
<1>13. RootIds(spans) = {spans[i].id}
  BY <1>2, <1>12 DEF RootIds
<1> HIDE DEF n, ids, R
<1>14. /\ n \in 1 .. MaxSpans /\ DOMAIN spans = 1 .. n
       /\ IsFiniteSet(Ids(spans)) /\ Cardinality(Ids(spans)) = n
  BY <1>1, <1>6, <1>7
<1>15. \E k \in 1 .. n :
              /\ spans[k].parent = NoParent /\ RootIds(spans) = {spans[k].id}
              /\ \A j \in 1 .. n : spans[j].parent = NoParent => j = k
  BY <1>12, <1>13
<1> QED BY <1>3, <1>8, <1>9, <1>14, <1>15 DEF n

\* A level holds the spans whose parent is in the one before, each once.
LEMMA LevelsAreApart ==
  ASSUME NEW spans, Accepted(spans)
  PROVE  LET level == Levels(spans, MaxDepth)
         IN  \A d, e \in 1 .. MaxDepth : d < e => level[d] \cap level[e] = {}
<1> DEFINE level == Levels(spans, MaxDepth)
           n == Len(spans)
           Apart(d) == \A e \in 1 .. MaxDepth : d < e => level[d] \cap level[e] = {}
           T == {k \in Nat : k + 1 <= MaxDepth => Apart(k + 1)}
<1>1. /\ level[1] = RootIds(spans)
      /\ \A d \in 2 .. MaxDepth : level[d] = Children(spans, level[d - 1])
      /\ \A d \in 1 .. MaxDepth : level[d] \subseteq Ids(spans)
  BY LevelsAre, LimitsAssumption
<1> HIDE DEF level
<1>2. /\ DOMAIN spans = 1 .. n /\ NoParent \notin Ids(spans)
      /\ \A i, j \in 1 .. n : spans[i].id = spans[j].id => i = j
  BY AcceptedSpans
<1>3. ASSUME NEW x, x \in RootIds(spans) PROVE \E i \in 1 .. n : spans[i].id = x /\ spans[i].parent = NoParent
  BY <1>2, <1>3 DEF RootIds, ToSet
<1>4. ASSUME NEW d \in 2 .. MaxDepth, NEW x \in level[d]
      PROVE  \E i \in 1 .. n : spans[i].id = x /\ spans[i].parent \in level[d - 1]
  <2>1. x \in Children(spans, level[d - 1])
    BY <1>1
  <2> QED BY <1>2, <2>1 DEF Children, ToSet
<1>5. 0 \in T
  <2> SUFFICES ASSUME NEW e \in 1 .. MaxDepth, 1 < e, NEW x \in level[1], x \in level[e]
               PROVE  FALSE
    OBVIOUS
  <2>1. PICK i \in 1 .. n : spans[i].id = x /\ spans[i].parent = NoParent
    BY <1>1, <1>3
  <2>2. e \in 2 .. MaxDepth /\ e - 1 \in 1 .. MaxDepth
    BY LimitsAssumption
  <2>3. PICK j \in 1 .. n : spans[j].id = x /\ spans[j].parent \in level[e - 1]
    BY <1>4, <2>2
  <2> QED BY <1>1, <1>2, <2>1, <2>2, <2>3
<1>6. ASSUME NEW k \in Nat, k \in T PROVE k + 1 \in T
  <2> SUFFICES ASSUME (k + 1) + 1 <= MaxDepth, NEW e \in 1 .. MaxDepth, (k + 1) + 1 < e,
                      NEW x \in level[(k + 1) + 1], x \in level[e]
               PROVE  FALSE
    OBVIOUS
  <2>1. /\ (k + 1) + 1 \in 2 .. MaxDepth /\ ((k + 1) + 1) - 1 = k + 1 /\ k + 1 <= MaxDepth
        /\ e \in 2 .. MaxDepth /\ e - 1 \in 1 .. MaxDepth /\ k + 1 < e - 1
    BY LimitsAssumption
  <2>2. PICK i \in 1 .. n : spans[i].id = x /\ spans[i].parent \in level[k + 1]
    <3>1. \E i \in 1 .. n : spans[i].id = x /\ spans[i].parent \in level[((k + 1) + 1) - 1]
      BY <1>4, <2>1
    <3> QED BY <2>1, <3>1
  <2>3. PICK j \in 1 .. n : spans[j].id = x /\ spans[j].parent \in level[e - 1]
    BY <1>4, <2>1
  <2>4. level[k + 1] \cap level[e - 1] = {}
    BY <1>6, <2>1
  <2> QED BY <1>2, <2>2, <2>3, <2>4
<1>7. \A k \in Nat : k \in T
  <2> HIDE DEF T
  <2> QED BY <1>5, <1>6, Induction
<1>8. ASSUME NEW d \in 1 .. MaxDepth PROVE Apart(d)
  <2>1. d - 1 \in Nat /\ (d - 1) + 1 = d /\ d <= MaxDepth
    BY LimitsAssumption
  <2>2. d - 1 \in T
    BY <1>7, <2>1
  <2>3. (d - 1) + 1 <= MaxDepth => Apart((d - 1) + 1)
    BY <2>2
  <2> HIDE DEF Apart
  <2> QED BY <2>1, <2>3
<1> QED BY <1>8 DEF level

\* The depths that hold a span are the first ones.
LEMMA DepthsAreFirst ==
  ASSUME NEW spans, Accepted(spans)
  PROVE  LET level == Levels(spans, MaxDepth)
         IN  \E m \in 1 .. MaxDepth : {d \in 1 .. MaxDepth : level[d] # {}} = 1 .. m
<1> DEFINE level == Levels(spans, MaxDepth)
           depths == {d \in 1 .. MaxDepth : level[d] # {}}
           above == {m \in Nat : \A d \in depths : d <= m}
           T == {k \in Nat : \A d \in depths : k < d => d - k \in depths}
<1>1. /\ level[1] = RootIds(spans)
      /\ \A d \in 2 .. MaxDepth : level[d] = Children(spans, level[d - 1])
  BY LevelsAre, LimitsAssumption
<1> HIDE DEF level
<1>2. 1 \in depths
  <2>1. RootIds(spans) # {}
    BY AcceptedSpans
  <2>2. level[1] # {} /\ 1 \in 1 .. MaxDepth
    BY <1>1, <2>1, LimitsAssumption
  <2> QED BY <2>2
<1>3. ASSUME NEW d \in depths, d > 1 PROVE d - 1 \in depths
  <2>1. d \in 2 .. MaxDepth /\ d - 1 \in 1 .. MaxDepth
    BY <1>3, LimitsAssumption
  <2>2. Children(spans, {}) = {}
    BY DEF Children
  <2> QED BY <1>1, <2>1, <2>2
<1>4. depths \subseteq 1 .. MaxDepth
  OBVIOUS
<1> HIDE DEF depths
<1>5. PICK m \in above : \A k \in above : m <= k
  <2>1. MaxDepth \in above
    BY <1>4, LimitsAssumption
  <2> QED BY <2>1, SmallestOfNat
<1>6. m \in depths
  <2>1. m >= 1
    BY <1>2, <1>5
  <2>2. m - 1 \in Nat /\ m - 1 \notin above
    BY <1>5, <2>1
  <2>3. PICK d \in depths : ~(d <= m - 1)
    BY <2>2
  <2>4. d = m
    BY <1>4, <1>5, <2>1, <2>3, LimitsAssumption
  <2> QED BY <2>4
<1>7. \A k \in Nat : k \in T
  <2>1. 0 \in T
    BY <1>4, LimitsAssumption
  <2>2. ASSUME NEW k \in Nat, k \in T PROVE k + 1 \in T
    <3> SUFFICES ASSUME NEW d \in depths, k + 1 < d PROVE d - (k + 1) \in depths
      OBVIOUS
    <3>1. d \in Nat
      BY <1>4, LimitsAssumption
    <3>2. d - k \in depths /\ d - k > 1 /\ (d - k) - 1 = d - (k + 1)
      BY <2>2, <3>1
    <3> QED BY <1>3, <3>2
  <2> HIDE DEF T
  <2> QED BY <2>1, <2>2, Induction
<1>8. ASSUME NEW d \in 1 .. m PROVE d \in depths
  <2>1. d = m \/ (m - d \in Nat /\ m - d < m /\ m - (m - d) = d)
    BY <1>5
  <2> QED BY <1>6, <1>7, <2>1
<1>9. depths = 1 .. m
  <2>1. m \in Nat /\ \A d \in depths : d \in Nat /\ 1 <= d /\ d <= m
    BY <1>4, <1>5, LimitsAssumption
  <2>2. depths \subseteq 1 .. m
    BY <2>1
  <2> QED BY <1>8, <2>2
<1>10. m \in 1 .. MaxDepth
  BY <1>4, <1>6
<1> QED BY <1>9, <1>10 DEF depths, level

\* What the viewer counts over levels that have nothing in common is how many
\* spans there are.
LEMMA SumOfLevels ==
  ASSUME NEW m \in Nat, NEW level, NEW A, IsFiniteSet(A),
         \A d \in 1 .. m : level[d] \subseteq A,
         \A d, e \in 1 .. m : d < e => level[d] \cap level[e] = {}
  PROVE  FoldSeq(LAMBDA n, total : n + total, 0, [d \in 1 .. m |-> Cardinality(level[d])])
           = Cardinality(UNION {level[d] : d \in 1 .. m})
<1> DEFINE sizes == [d \in 1 .. m |-> Cardinality(level[d])]
           Eq(g) == g = [s \in SUBSET (1 .. m) |->
                           IF s = {} THEN 0
                           ELSE LET x == CHOOSE x \in s : TRUE
                                IN  sizes[x] + g[s \ {x}]]
           iter == CHOOSE g : Eq(g)
           Size(s) == Cardinality(UNION {level[d] : d \in s})
           h == [s \in SUBSET (1 .. m) |-> Size(s)]
<1>1. FoldSeq(LAMBDA n, total : n + total, 0, sizes) = iter[1 .. m]
  <2>1. DOMAIN sizes = 1 .. m
    OBVIOUS
  <2> HIDE DEF sizes
  <2> QED BY <2>1, Zenon DEF FoldSeq, FoldFunction, FoldFunctionOnSet, MapThenFoldSet
<1>2. ASSUME NEW s \in SUBSET (1 .. m), NEW x \in s PROVE Size(s) = sizes[x] + Size(s \ {x})
  <2> DEFINE U == UNION {level[d] : d \in s \ {x}}
  <2>1. U \subseteq A /\ level[x] \subseteq A
    OBVIOUS
  <2>2. IsFiniteSet(U) /\ IsFiniteSet(level[x])
    BY <2>1, FS_Subset
  <2>3. U \cap level[x] = {}
    <3>1. \A d \in s \ {x} : level[d] \cap level[x] = {}
      <4>1. \A d \in s \ {x} : d \in 1 .. m /\ x \in 1 .. m /\ d # x
        OBVIOUS
      <4>2. \A d, e \in 1 .. m : d # e => d < e \/ e < d
        OBVIOUS
      <4> QED BY <4>1, <4>2
    <3> QED BY <3>1
  <2>4. UNION {level[d] : d \in s} = U \cup level[x]
    OBVIOUS
  <2>5. Cardinality(U) \in Nat /\ Cardinality(level[x]) \in Nat
    BY <2>2, FS_CardinalityType
  <2>6. Cardinality(U \cup level[x]) = Cardinality(U) + Cardinality(level[x]) - Cardinality({})
    <3> HIDE DEF U
    <3> QED BY <2>2, <2>3, FS_Union
  <2>7. sizes[x] = Cardinality(level[x])
    OBVIOUS
  <2> HIDE DEF U, sizes
  <2>8. Size(s) = Cardinality(level[x]) + Cardinality(U)
    <3>1. Cardinality({}) = 0
      BY FS_EmptySet
    <3>2. Size(s) = Cardinality(U \cup level[x])
      BY <2>4
    <3> HIDE DEF Size
    <3> QED BY <2>5, <2>6, <3>1, <3>2
  <2> QED BY <2>7, <2>8 DEF U
<1>3. Size({}) = 0
  <2>1. UNION {level[d] : d \in {}} = {}
    OBVIOUS
  <2> QED BY <2>1, FS_EmptySet
<1>4. Eq(h)
  <2>1. ASSUME NEW s \in SUBSET (1 .. m)
        PROVE  h[s] = IF s = {} THEN 0
                      ELSE LET x == CHOOSE x \in s : TRUE IN sizes[x] + h[s \ {x}]
    <3>1. h[s] = Size(s) /\ \A x : h[s \ {x}] = Size(s \ {x})
      OBVIOUS
    <3>2. CASE s = {}
      BY <1>3, <3>1, <3>2
    <3>3. CASE s # {}
      <4> DEFINE x == CHOOSE x \in s : TRUE
      <4>1. x \in s
        BY <3>3
      <4> HIDE DEF x
      <4>2. h[s] = sizes[x] + h[s \ {x}]
        BY <1>2, <3>1, <4>1
      <4> QED BY <3>3, <4>2 DEF x
    <3> HIDE DEF h, sizes
    <3> QED BY <3>2, <3>3
  <2>2. h = [s \in SUBSET (1 .. m) |-> h[s]]
    OBVIOUS
  <2> HIDE DEF h, sizes
  <2> QED BY <2>1, <2>2
<1>5. Eq(iter)
  BY <1>4
<1> HIDE DEF iter
<1> DEFINE T == {n \in Nat : \A s \in SUBSET (1 .. m) : Cardinality(s) = n => iter[s] = Size(s)}
<1>6. \A s \in SUBSET (1 .. m) : IsFiniteSet(s)
  <2>1. IsFiniteSet(1 .. m)
    BY FS_Interval
  <2> QED BY <2>1, FS_Subset
<1>7. 0 \in T
  <2> SUFFICES ASSUME NEW s \in SUBSET (1 .. m), Cardinality(s) = 0 PROVE iter[s] = Size(s)
    OBVIOUS
  <2>1. s = {}
    BY <1>6, FS_EmptySet
  <2>2. iter[{}] = 0
    BY <1>5
  <2> QED BY <1>3, <2>1, <2>2
<1>8. ASSUME NEW n \in Nat, n \in T PROVE n + 1 \in T
  <2> SUFFICES ASSUME NEW s \in SUBSET (1 .. m), Cardinality(s) = n + 1 PROVE iter[s] = Size(s)
    OBVIOUS
  <2> DEFINE x == CHOOSE x \in s : TRUE
  <2>1. s # {}
    BY FS_EmptySet
  <2>2. x \in s
    BY <2>1
  <2>3. iter[s] = sizes[x] + iter[s \ {x}]
    <3> HIDE DEF sizes
    <3> QED BY <1>5, <2>1
  <2> HIDE DEF x
  <2>4. Cardinality(s \ {x}) = n
    <3>1. Cardinality(s \ {x}) = Cardinality(s) - 1
      BY <1>6, <2>2, FS_RemoveElement
    <3> QED BY <3>1
  <2>5. iter[s \ {x}] = Size(s \ {x})
    BY <1>8, <2>4
  <2>6. Size(s) = sizes[x] + Size(s \ {x})
    BY <1>2, <2>2
  <2> HIDE DEF sizes, Size
  <2> QED BY <2>3, <2>5, <2>6
<1>9. \A n \in Nat : n \in T
  <2> HIDE DEF T
  <2> QED BY <1>7, <1>8, Induction
<1>10. iter[1 .. m] = Size(1 .. m)
  <2>1. Cardinality(1 .. m) \in Nat
    BY <1>6, FS_CardinalityType
  <2> HIDE DEF Size
  <2> QED BY <1>9, <2>1
<1> QED BY <1>1, <1>10

\* The viewer decodes what the recorder accepts, and counts every span of it.
LEMMA AcceptedDecodes ==
  ASSUME NEW spans, Accepted(spans)
  PROVE  Decodes(Sized(spans, MaxDepth)) /\ Sized(spans, MaxDepth).spansCount = Len(spans)
<1> DEFINE level == Levels(spans, MaxDepth)
           depths == {d \in 1 .. MaxDepth : level[d] # {}}
           sizes(m) == [d \in 1 .. m |-> Cardinality(level[d])]
           count(s) == FoldSeq(LAMBDA n, total : n + total, 0, s)
<1>1. /\ level[1] = RootIds(spans)
      /\ \A d \in 1 .. MaxDepth : level[d] \subseteq Ids(spans)
  BY LevelsAre, LimitsAssumption
<1>2. PICK m \in 1 .. MaxDepth : depths = 1 .. m
  BY DepthsAreFirst
<1>3. Sized(spans, MaxDepth) =
        [spansCount |-> Cardinality(Converted(spans, MaxDepth)), levels |-> sizes(Cardinality(depths))]
  BY Zenon DEF Sized
<1>4. Converted(spans, MaxDepth) = UNION {level[d] : d \in 1 .. MaxDepth}
  BY Zenon DEF Converted
<1>5. \A d, e \in 1 .. MaxDepth : d < e => level[d] \cap level[e] = {}
  BY LevelsAreApart
<1>6. IsFiniteSet(Ids(spans)) /\ Cardinality(Ids(spans)) = Len(spans) /\ Len(spans) \in 1 .. MaxSpans
      /\ Cardinality(RootIds(spans)) = 1
  <2>1. \E x : RootIds(spans) = {x}
    BY AcceptedSpans
  <2> QED BY <2>1, AcceptedSpans, FS_Singleton
<1> HIDE DEF level
<1>7. m \in Nat /\ 1 <= m /\ m <= MaxDepth /\ 1 .. m \subseteq 1 .. MaxDepth
  BY LimitsAssumption
<1>8. Cardinality(depths) = m
  <2>1. Cardinality(1 .. m) = m
    BY <1>7, FS_Interval
  <2> HIDE DEF depths
  <2> QED BY <1>2, <2>1
<1>9. UNION {level[d] : d \in 1 .. m} = Ids(spans)
  <2>1. \A d \in 1 .. MaxDepth : level[d] # {} => d \in 1 .. m
    BY <1>2
  <2>2. UNION {level[d] : d \in 1 .. MaxDepth} = Ids(spans)
    BY <1>4 DEF Accepted
  <2> QED BY <1>7, <2>1, <2>2
<1>10. count(sizes(m)) = Len(spans)
  <2>1. \A d \in 1 .. m : level[d] \subseteq Ids(spans)
    BY <1>1, <1>7
  <2>2. \A d, e \in 1 .. m : d < e => level[d] \cap level[e] = {}
    BY <1>5, <1>7
  <2>3. count(sizes(m)) = Cardinality(UNION {level[d] : d \in 1 .. m})
    BY <1>6, <1>7, <2>1, <2>2, SumOfLevels
  <2> HIDE DEF count, sizes
  <2> QED BY <1>6, <1>9, <2>3
<1> DEFINE document == Sized(spans, MaxDepth)
<1>11. document.levels = sizes(m) /\ document.spansCount = Len(spans)
  <2> HIDE DEF sizes, depths
  <2>1. document.levels = sizes(Cardinality(depths))
        /\ document.spansCount = Cardinality(Converted(spans, MaxDepth))
    BY <1>3
  <2> HIDE DEF document
  <2> QED BY <1>6, <1>8, <2>1 DEF Accepted
<1>12. Len(sizes(m)) = m /\ sizes(m)[1] = 1
  BY <1>1, <1>6, <1>7
<1>13. Len(document.levels) \in 1 .. MaxDepth /\ document.levels[1] = 1
  <2> HIDE DEF document, sizes
  <2> QED BY <1>11, <1>12
<1>14. count(document.levels) = document.spansCount /\ count(document.levels) <= MaxSpans
  <2>1. Len(spans) <= MaxSpans
    BY <1>6, LimitsAssumption
  <2> HIDE DEF document, sizes, count
  <2> QED BY <1>10, <1>11, <2>1
<1>15. Decodes(document)
  <2> HIDE DEF document
  <2> QED BY <1>13, <1>14, Zenon DEF Decodes
<1> QED BY <1>11, <1>15

\* Every span of what the recorder accepts is below the one root.
LEMMA AcceptedIsTree ==
  ASSUME NEW spans, Accepted(spans)
  PROVE  IsTree(spans)
<1> DEFINE level == Levels(spans, MaxDepth)
           size == Len(spans)
<1>1. /\ level[1] = RootIds(spans)
      /\ \A d \in 2 .. MaxDepth : level[d] = Children(spans, level[d - 1])
      /\ \A d \in 1 .. MaxDepth : level[d] \subseteq Ids(spans)
  BY LevelsAre, LimitsAssumption
<1>2. Ids(spans) = UNION {level[d] : d \in 1 .. MaxDepth}
  BY Zenon DEF Converted, Accepted
<1> HIDE DEF level
<1>3. /\ DOMAIN spans = 1 .. size
      /\ \A i, j \in 1 .. size : spans[i].id = spans[j].id => i = j
      /\ \E x : RootIds(spans) = {x}
  BY AcceptedSpans
<1>4. IsInjective([i \in 1 .. size |-> spans[i].id])
  BY <1>3 DEF IsInjective
<1>5. Cardinality(RootIds(spans)) = 1
  BY <1>3, FS_Singleton
<1>6. ASSUME NEW d \in 2 .. MaxDepth, NEW x \in level[d]
      PROVE  ParentOf(spans, x) \in level[d - 1]
  <2>1. x \in Children(spans, level[d - 1])
    BY <1>1
  <2>2. PICK i \in 1 .. size : spans[i].id = x /\ spans[i].parent \in level[d - 1]
    BY <1>3, <2>1 DEF Children, ToSet
  <2>3. (CHOOSE j \in 1 .. size : spans[j].id = x) = i
    BY <1>3, <2>2
  <2> QED BY <2>2, <2>3 DEF ParentOf
<1>7. ASSUME NEW id \in Ids(spans)
      PROVE  \E n \in 0 .. MaxDepth - 1 :
               LET up[k \in 0 .. n] ==
                     IF k = 0 THEN id
                     ELSE IF up[k - 1] \in Ids(spans) THEN ParentOf(spans, up[k - 1]) ELSE up[k - 1]
               IN  up[n] \in RootIds(spans)
  <2>1. PICK d \in 1 .. MaxDepth : id \in level[d]
    BY <1>2
  <2> DEFINE n == d - 1
             A == Ids(spans) \cup {ParentOf(spans, x) : x \in Ids(spans)}
             step == [x \in A |-> IF x \in Ids(spans) THEN ParentOf(spans, x) ELSE x]
             Eq(u) == u = [k \in 0 .. n |->
                             IF k = 0 THEN id
                             ELSE IF u[k - 1] \in Ids(spans) THEN ParentOf(spans, u[k - 1]) ELSE u[k - 1]]
             up == CHOOSE u : Eq(u)
  <2>2. n \in 0 .. MaxDepth - 1 /\ n \in Nat
    BY LimitsAssumption
  <2>3. PICK f : Iterates(f, A, id, step, n)
    <3>1. step \in [A -> A] /\ id \in A
      OBVIOUS
    <3> HIDE DEF A, step, n
    <3> QED BY <2>2, <3>1, IterateExists
  <2>4. Eq(f)
    <3>1. f \in [0 .. n -> A] /\ f[0] = id /\ \A k \in 1 .. n : f[k] = step[f[k - 1]]
      BY <2>3 DEF Iterates
    <3>2. ASSUME NEW k \in 0 .. n
          PROVE  f[k] = IF k = 0 THEN id
                        ELSE IF f[k - 1] \in Ids(spans) THEN ParentOf(spans, f[k - 1]) ELSE f[k - 1]
      <4>1. CASE k = 0
        BY <3>1, <4>1
      <4>2. CASE k # 0
        <5>1. k \in 1 .. n /\ k - 1 \in 0 .. n
          BY <2>2, <4>2
        <5>2. f[k] = step[f[k - 1]] /\ f[k - 1] \in A
          <6> HIDE DEF A, step, n
          <6> QED BY <3>1, <5>1
        <5> QED BY <4>2, <5>2
      <4> QED BY <4>1, <4>2
    <3> HIDE DEF A, n
    <3> QED BY <3>1, <3>2
  <2>5. Eq(up)
    BY <2>4
  <2> HIDE DEF up
  <2>6. \A k \in 0 .. n : up[k] = IF k = 0 THEN id
          ELSE IF up[k - 1] \in Ids(spans) THEN ParentOf(spans, up[k - 1]) ELSE up[k - 1]
    BY <2>5
  <2> DEFINE T == {k \in Nat : k <= n => up[k] \in level[d - k]}
  <2>7. 0 \in T
    <3>1. up[0] = id /\ d - 0 = d
      BY <2>2, <2>6
    <3> QED BY <2>1, <3>1
  <2>8. ASSUME NEW k \in Nat, k \in T PROVE k + 1 \in T
    <3> SUFFICES ASSUME k + 1 <= n PROVE up[k + 1] \in level[d - (k + 1)]
      OBVIOUS
    <3>1. /\ k + 1 \in 0 .. n /\ k + 1 # 0 /\ (k + 1) - 1 = k /\ k <= n
          /\ d - k \in 2 .. MaxDepth /\ (d - k) - 1 = d - (k + 1) /\ d - k \in 1 .. MaxDepth
      BY <2>2, LimitsAssumption
    <3>2. up[k] \in level[d - k]
      BY <2>8, <3>1
    <3>3. up[k] \in Ids(spans)
      BY <1>1, <3>1, <3>2
    <3>4. up[k + 1] = ParentOf(spans, up[k])
      BY <2>6, <3>1, <3>3
    <3>5. ParentOf(spans, up[k]) \in level[(d - k) - 1]
      BY <1>6, <3>1, <3>2
    <3> QED BY <3>1, <3>4, <3>5
  <2>9. \A k \in Nat : k \in T
    <3> HIDE DEF T
    <3> QED BY <2>7, <2>8, Induction
  <2>10. up[n] \in RootIds(spans)
    <3>1. n \in T /\ d - n = 1
      BY <2>2, <2>9
    <3> QED BY <1>1, <2>2, <3>1
  <2> QED BY <2>2, <2>10 DEF up
<1> QED BY <1>4, <1>5, <1>7 DEF IsTree

LEMMA DocumentsDecode ==
  ASSUME NEW spans \in Payloads, Document(spans) # Invalid
  PROVE  /\ Decodes(Document(spans)) /\ IsTree(spans)
         /\ Document(spans).spansCount = Len(spans)
<1>1. Accepted(spans) /\ Document(spans) = Sized(spans, MaxDepth)
  BY PayloadsAssumption DEF Accepted, Document
<1> QED BY <1>1, AcceptedDecodes, AcceptedIsTree

\* A row, stored or about to be, has the document of its own spans.
OfItsSpans(row) ==
  row.spans \in Payloads /\ row.document = Document(row.spans) /\ row.document # Invalid

DocumentsAreOwn ==
  /\ \A i \in DOMAIN rows : OfItsSpans(rows[i])
  /\ \A r \in Recorders : Inserting(r) => OfItsSpans(inserts[r].row)

LEMMA DocumentsStep == TypeOK /\ DocumentsAreOwn /\ [Next]_vars => DocumentsAreOwn'
<1> SUFFICES ASSUME TypeOK, DocumentsAreOwn, [Next]_vars PROVE DocumentsAreOwn'
  OBVIOUS
<1>1. DOMAIN inserts = Recorders
  BY DEF TypeOK
<1>2. CASE UNCHANGED <<rows, inserts>>
  BY <1>2 DEF DocumentsAreOwn, Inserting
<1>3. ASSUME NEW r \in Recorders, NEW t \in Traces, NEW s \in horizon .. MaxTime,
             NEW p \in Payloads, Insert(r, t, s, p)
      PROVE  DocumentsAreOwn'
  <2> DEFINE row == [trace |-> t, started |-> s, spans |-> p, document |-> Document(p)]
  <2>1. OfItsSpans(row)
    BY <1>3 DEF Insert, OfItsSpans
  <2>2. \/ inserts' = inserts
        \/ inserts' = [inserts EXCEPT ![r] = [at |-> "inserted", id |-> lastId + 1, row |-> row]]
    BY <1>3 DEF Insert
  <2>3. rows' = rows
    BY <1>3 DEF Insert
  <2>4. ASSUME NEW q \in Recorders, Inserting(q)' PROVE OfItsSpans(inserts'[q].row)
    <3>1. CASE inserts'[q] = inserts[q]
      BY <2>4, <3>1 DEF Inserting, DocumentsAreOwn
    <3>2. CASE inserts'[q] = [at |-> "inserted", id |-> lastId + 1, row |-> row]
      BY <2>1, <3>2
    <3> QED BY <1>1, <2>2, <3>1, <3>2
  <2> QED BY <2>3, <2>4 DEF DocumentsAreOwn, Inserting
<1>4. ASSUME NEW r \in Recorders, Commit(r) PROVE DocumentsAreOwn'
  BY <1>1, <1>4 DEF Commit, DocumentsAreOwn, Inserting, Idle, OfItsSpans
<1>5. ASSUME NEW r \in Recorders, Rollback(r) PROVE DocumentsAreOwn'
  BY <1>1, <1>5 DEF Rollback, DocumentsAreOwn, Inserting, Idle, OfItsSpans
<1>6. CASE PruneBatch
  BY <1>6 DEF PruneBatch, DocumentsAreOwn, Inserting, OfItsSpans
<1> QED BY <1>2, <1>3, <1>4, <1>5, <1>6
  DEF Next, vars, Tick, BeginPrune, PruneCrash, Open, Earlier, Refresh, Show

\* The viewer (decodeTracePage) accepts every stored trace, and each is a whole
\* tree of the spans it was made of: attributes of AgentTraceRecorder refuses the
\* rest.
THEOREM RowsAlwaysDecode == Spec => []RowsDecode
<1>1. Init => DocumentsAreOwn
  BY DEF Init, DocumentsAreOwn, Inserting, Idle
<1>2. TypeOK /\ DocumentsAreOwn /\ [Next]_vars => DocumentsAreOwn'
  BY DocumentsStep
<1>3. DocumentsAreOwn => RowsDecode
  BY DocumentsDecode DEF DocumentsAreOwn, OfItsSpans, RowsDecode
<1> QED BY <1>1, <1>2, <1>3, TypeCorrect, PTL DEF Spec

=============================================================================

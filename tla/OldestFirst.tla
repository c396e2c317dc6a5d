---------------------------- MODULE OldestFirst -----------------------------
(***************************************************************************)
(* SELECT ... ORDER BY age LIMIT n, as Outbox, Evidence and Jobs write it: *)
(* the members that fewer than n others precede.  The lemmas say what such *)
(* a query returns for any finite set in which no two are of one age.      *)
(***************************************************************************)
EXTENDS FiniteSetTheorems, TLAPS

\* Those that come before p, and how many they are.
Before(A, age, p) == {q \in A : age[q] < age[p]}
Rank(A, age, p) == Cardinality(Before(A, age, p))

\* The first n of them.
FirstN(A, age, n) == {p \in A : Rank(A, age, p) < n}

Ages(A) == {age \in [A -> Nat] : \A p, q \in A : age[p] = age[q] => p = q}

\* The smaller of two bounds: what the query finds, and what it may return.
Least(m, n) == IF m <= n THEN m ELSE n

\* No member precedes itself, so at most all the others do.
LEMMA RankIsSmall ==
  ASSUME NEW A, IsFiniteSet(A), NEW age \in Ages(A), NEW p \in A
  PROVE  Rank(A, age, p) \in 0 .. (Cardinality(A) - 1)
<1>1. Before(A, age, p) \subseteq A /\ p \in A \ Before(A, age, p)
  BY DEF Before, Ages
<1>2. /\ IsFiniteSet(Before(A, age, p))
      /\ Rank(A, age, p) <= Cardinality(A)
      /\ Rank(A, age, p) # Cardinality(A)
  BY <1>1, FS_Subset DEF Rank
<1>3. Rank(A, age, p) \in Nat /\ Cardinality(A) \in Nat
  BY <1>2, FS_CardinalityType DEF Rank
<1> QED
  BY <1>2, <1>3

\* Of two members the younger has the higher rank.
LEMMA RanksDiffer ==
  ASSUME NEW A, IsFiniteSet(A), NEW age \in Ages(A), NEW p \in A, NEW q \in A,
         age[p] < age[q]
  PROVE  Rank(A, age, p) < Rank(A, age, q)
<1>1. Before(A, age, p) \subseteq Before(A, age, q)
  BY DEF Before, Ages
<1>2. p \in Before(A, age, q) \ Before(A, age, p)
  BY DEF Before, Ages
<1>3. IsFiniteSet(Before(A, age, q))
  BY FS_Subset DEF Before
<1>4. Rank(A, age, p) <= Rank(A, age, q) /\ Rank(A, age, p) # Rank(A, age, q)
  BY <1>1, <1>2, <1>3, FS_Subset DEF Rank
<1>5. Rank(A, age, p) \in Nat /\ Rank(A, age, q) \in Nat
  BY RankIsSmall, FS_CardinalityType
<1> QED
  BY <1>4, <1>5

\* The ranks number the members from 0, without a gap.
LEMMA RanksNumber ==
  ASSUME NEW A, IsFiniteSet(A), NEW age \in Ages(A)
  PROVE  [p \in A |-> Rank(A, age, p)] \in Bijection(A, 0 .. (Cardinality(A) - 1))
<1> DEFINE rank == [p \in A |-> Rank(A, age, p)]
           All == 0 .. (Cardinality(A) - 1)
           Found == {rank[p] : p \in A}
<1>1. Cardinality(A) \in Nat
  BY FS_CardinalityType
<1>2. IsFiniteSet(All) /\ Cardinality(All) = Cardinality(A)
  BY <1>1, FS_Interval
<1>3. Found \subseteq All
  BY RankIsSmall
<1>4. \A p, q \in A : rank[p] = rank[q] => p = q
  <2> SUFFICES ASSUME NEW p \in A, NEW q \in A, p # q PROVE rank[p] # rank[q]
    OBVIOUS
  <2>1. age[p] \in Nat /\ age[q] \in Nat /\ age[p] # age[q]
    BY DEF Ages
  <2>2. rank[p] \in Nat /\ rank[q] \in Nat
    BY <1>1, RankIsSmall
  <2>3. CASE age[p] < age[q]
    BY <2>2, <2>3, RanksDiffer
  <2>4. CASE age[q] < age[p]
    BY <2>2, <2>4, RanksDiffer
  <2> QED
    BY <2>1, <2>3, <2>4
<1>5. rank \in Surjection(A, Found) /\ rank \in Injection(A, Found)
  BY <1>4 DEF Surjection, Injection, IsInjective
<1>6. Cardinality(Found) = Cardinality(A)
  BY <1>5, FS_Surjection
<1>7. Found = All
  BY <1>2, <1>3, <1>6, FS_Subset
<1> QED
  BY <1>5, <1>7 DEF Bijection

\* The query returns as many as there are, up to its limit.
LEMMA FirstNAreCounted ==
  ASSUME NEW A, IsFiniteSet(A), NEW age \in Ages(A), NEW n \in Nat
  PROVE  /\ IsFiniteSet(FirstN(A, age, n))
         /\ Cardinality(FirstN(A, age, n)) = Least(n, Cardinality(A))
<1> DEFINE rank == [p \in A |-> Rank(A, age, p)]
           All == 0 .. (Cardinality(A) - 1)
           Chosen == FirstN(A, age, n)
           Low == 0 .. (Least(n, Cardinality(A)) - 1)
           low == [p \in Chosen |-> rank[p]]
<1>1. Cardinality(A) \in Nat /\ Least(n, Cardinality(A)) \in Nat
  BY FS_CardinalityType DEF Least
<1>2. rank \in Bijection(A, All)
  BY RanksNumber
<1>3. Chosen \subseteq A /\ \A p \in A : p \in Chosen <=> rank[p] \in Low
  <2>1. \A p \in A : rank[p] \in All
    BY RankIsSmall
  <2> QED
    BY <1>1, <2>1 DEF FirstN, Least
<1>4. Low \subseteq All
  BY <1>1 DEF Least
<1>5. low \in Bijection(Chosen, Low)
  <2>1. low \in [Chosen -> Low]
    BY <1>3
  <2>2. \A p, q \in Chosen : low[p] = low[q] => p = q
    BY <1>2, <1>3 DEF Bijection, Injection, IsInjective
  <2>3. \A k \in Low : \E p \in Chosen : low[p] = k
    BY <1>2, <1>3, <1>4 DEF Bijection, Surjection
  <2> QED
    BY <2>1, <2>2, <2>3 DEF Bijection, Injection, IsInjective, Surjection
<1>6. IsFiniteSet(Chosen)
  BY <1>3, FS_Subset
<1>7. IsFiniteSet(Low) /\ Cardinality(Low) = Cardinality(Chosen)
  BY <1>5, <1>6, FS_Bijection DEF ExistsBijection
<1>8. Cardinality(Low) = Least(n, Cardinality(A))
  BY <1>1, FS_Interval
<1> QED
  BY <1>6, <1>7, <1>8

=============================================================================

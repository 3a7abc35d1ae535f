-------------------------- MODULE RetrievalProofs ---------------------------
(***************************************************************************)
(* Whatever builds fail, models are replaced and services go down, for any  *)
(* corpus, routing table and budgets: an answer's evidence is from the      *)
(* snapshots the session pinned, as they were released, judged on its own   *)
(* scale, and what the envelope leaves of it would be judged sufficient     *)
(* again.                                                                  *)
(*                                                                         *)
(* The first half is about the pure part.  An item is sorted by the number  *)
(* of items before it.  Trimming and the parents are recursions over a      *)
(* sequence; what they do in every step is carried along by StepByStep, and *)
(* RecursionExists gives the function.                                      *)
(***************************************************************************)
EXTENDS Retrieval, SequenceTheorems, FiniteSetTheorems, WellFoundedInduction, TLAPS

----------------------------------------------------------------------------
(* Recursion over a sequence. *)

LEMMA NatHasLeast ==
  ASSUME NEW T, T \subseteq Nat, T # {}
  PROVE  \E x \in T : \A y \in T : x <= y
<1> DEFINE R == OpToRel(<, Nat)
<1>1. IsWellFoundedOn(R, Nat)
  BY NatLessThanWellFounded
<1>2. \A x, y \in Nat : <<y, x>> \in R <=> y < x
  BY DEF OpToRel
<1> HIDE DEF R
<1>3. PICK x \in T : \A y \in T : ~(<<y, x>> \in R)
  BY <1>1, WFMin
<1>4. ASSUME NEW y \in T PROVE x <= y
  <2>1. x \in Nat /\ y \in Nat /\ ~(<<y, x>> \in R)
    BY <1>3
  <2>2. ~(y < x)
    BY <1>2, <2>1
  <2> QED BY <2>1, <2>2
<1> QED BY <1>4

\* What holds at first and is kept by every step holds after each of them.
LEMMA StepByStep ==
  ASSUME NEW n \in Nat, NEW P, 0 \in P, \A k \in 1..n : k - 1 \in P => k \in P
  PROVE  \A k \in 0..n : k \in P
<1> DEFINE T == {k \in 0..n : k \notin P}
<1>1. ASSUME T # {} PROVE FALSE
  <2>0. T \subseteq Nat
    OBVIOUS
  <2>1. PICK x \in T : \A y \in T : x <= y
    <3> HIDE DEF T
    <3> QED
      BY <1>1, <2>0, NatHasLeast
  <2>2. x \in 1..n /\ x - 1 \in 0..n /\ ~(x <= x - 1)
    OBVIOUS
  <2>3. x - 1 \in P
    BY <2>1, <2>2
  <2> QED
    BY <2>2, <2>3
<1> QED
  BY <1>1

\* n steps, each a function on X, can be run one after the other.
Steps(g, n, X) == g \in [1..n -> [X -> X]]

Runs(f, g, n, X, b) ==
  f \in [0..n -> X] /\ f[0] = b /\ \A i \in 1..n : f[i] = g[i][f[i - 1]]

LEMMA RecursionExists ==
  ASSUME NEW n \in Nat, NEW X, NEW b \in X, NEW g, Steps(g, n, X)
  PROVE  \E f : Runs(f, g, n, X, b)
<1> DEFINE P == {k \in 0..n : \E f : Runs(f, g, k, X, b)}
<1>0. g \in [1..n -> [X -> X]]
  BY DEF Steps
<1>1. 0 \in P
  <2>1. Runs([i \in 0..0 |-> b], g, 0, X, b)
    BY DEF Runs
  <2> QED
    BY <2>1
<1>2. ASSUME NEW k \in 1..n, k - 1 \in P PROVE k \in P
  <2>1. PICK f : Runs(f, g, k - 1, X, b)
    BY <1>2
  <2> DEFINE h == [i \in 0..k |-> IF i = k THEN g[k][f[k - 1]] ELSE f[i]]
  <2>2. f[k - 1] \in X /\ g[k] \in [X -> X]
    BY <1>0, <2>1 DEF Runs
  <2>3. h \in [0..k -> X]
    BY <2>1, <2>2 DEF Runs
  <2>4. h[0] = b /\ \A i \in 1..k : h[i] = g[i][h[i - 1]]
    BY <2>1 DEF Runs
  <2>5. Runs(h, g, k, X, b)
    BY <2>3, <2>4 DEF Runs
  <2> HIDE DEF h
  <2> QED
    BY <2>5
<1>3. n \in P
  <2> HIDE DEF P
  <2>1. \A k \in 0..n : k \in P
    BY <1>1, <1>2, StepByStep
  <2> QED
    BY <2>1
<1> QED
  BY <1>3

----------------------------------------------------------------------------
(* Items in their order. *)

\* Scored chunks first, best first; then the parents.
Ordered(e) ==
  \A p, q \in 1..Len(e) : p < q /\ ~e[q].parent => ~e[p].parent /\ e[q].score <= e[p].score

\* No chunk twice.
Distinct(e) == \A p, q \in 1..Len(e) : e[p].chunk = e[q].chunk => p = q

Neat(e) == e \in Seq(Item) /\ Ordered(e) /\ Distinct(e)

LEMMA ItemFields ==
  ASSUME NEW s \in Item
  PROVE  /\ s.chunk \in Chunks /\ s.score \in Nat /\ s.scale \in {"rerank", "bm25"}
         /\ s.parent \in BOOLEAN /\ Id[s.chunk] \in Nat
  BY EvidenceAssumption, RetrievalAssumption DEF Item

LEMMA SeqItems ==
  ASSUME NEW e \in Seq(Item)
  PROVE  /\ Len(e) \in Nat /\ DOMAIN e = 1..Len(e) /\ \A p \in 1..Len(e) : e[p] \in Item
         /\ ToSet(e) = {e[p] : p \in 1..Len(e)} /\ ToSet(e) \subseteq Item
  BY LenProperties, ElementOfSeq DEF ToSet

\* An item taken out.
LEMMA RemoveAtParts ==
  ASSUME NEW e \in Seq(Item), NEW i \in 1..Len(e)
  PROVE  /\ RemoveAt(e, i) \in Seq(Item) /\ Len(RemoveAt(e, i)) = Len(e) - 1
         /\ \A p \in 1..(Len(e) - 1) : RemoveAt(e, i)[p] = IF p < i THEN e[p] ELSE e[p + 1]
<1> DEFINE a == SubSeq(e, 1, i - 1)
           b == SubSeq(e, i + 1, Len(e))
<1>1. Len(e) \in Nat /\ \A p \in 1..Len(e) : e[p] \in Item
  BY SeqItems
<1>2. a \in Seq(Item) /\ Len(a) = i - 1 /\ \A p \in 1..(i - 1) : a[p] = e[p]
  <2>1. \A p \in 1..(i - 1) : e[p] \in Item
    BY <1>1
  <2>2. /\ SubSeq(e, 1, i - 1) \in Seq(Item)
        /\ Len(SubSeq(e, 1, i - 1)) = IF 1 <= i - 1 THEN i - 1 - 1 + 1 ELSE 0
        /\ \A p \in 1..(i - 1 - 1 + 1) : SubSeq(e, 1, i - 1)[p] = e[1 + p - 1]
    BY <1>1, <2>1, SubSeqProperties
  <2> QED
    BY <1>1, <2>2
<1>3. b \in Seq(Item) /\ Len(b) = Len(e) - i /\ \A p \in 1..(Len(e) - i) : b[p] = e[i + p]
  <2>1. \A p \in (i + 1)..Len(e) : e[p] \in Item
    BY <1>1
  <2>2. /\ SubSeq(e, i + 1, Len(e)) \in Seq(Item)
        /\ Len(SubSeq(e, i + 1, Len(e))) = IF i + 1 <= Len(e) THEN Len(e) - (i + 1) + 1 ELSE 0
        /\ \A p \in 1..(Len(e) - (i + 1) + 1) : SubSeq(e, i + 1, Len(e))[p] = e[i + 1 + p - 1]
    BY <1>1, <2>1, SubSeqProperties
  <2> QED
    BY <1>1, <2>2
<1> HIDE DEF a, b
<1>4. /\ a \o b \in Seq(Item) /\ Len(a \o b) = Len(e) - 1
      /\ \A p \in 1..(Len(e) - 1) : (a \o b)[p] = IF p <= i - 1 THEN a[p] ELSE b[p - (i - 1)]
  <2>1. /\ a \o b \in Seq(Item) /\ Len(a \o b) = Len(a) + Len(b)
        /\ \A p \in 1..(Len(a) + Len(b)) : (a \o b)[p] = IF p <= Len(a) THEN a[p] ELSE b[p - Len(a)]
    <3>1. a \in Seq(Item) /\ b \in Seq(Item)
      BY <1>2, <1>3
    <3> QED
      BY <3>1, ConcatProperties
  <2>2. Len(a) + Len(b) = Len(e) - 1 /\ Len(a) = i - 1
    BY <1>1, <1>2, <1>3
  <2> QED
    BY <2>1, <2>2
<1>5. \A p \in 1..(Len(e) - 1) : (a \o b)[p] = IF p < i THEN e[p] ELSE e[p + 1]
  <2> SUFFICES ASSUME NEW p \in 1..(Len(e) - 1)
               PROVE  (a \o b)[p] = IF p < i THEN e[p] ELSE e[p + 1]
    OBVIOUS
  <2>1. CASE p < i
    BY <1>1, <1>2, <1>4, <2>1
  <2>2. CASE ~(p < i)
    <3>1. p - (i - 1) \in 1..(Len(e) - i) /\ i + (p - (i - 1)) = p + 1
      BY <1>1, <2>2
    <3> QED
      BY <1>1, <1>3, <1>4, <2>2, <3>1
  <2> QED
    BY <2>1, <2>2
<1> QED
  BY <1>4, <1>5 DEF RemoveAt, a, b

LEMMA RemoveAtNeat ==
  ASSUME NEW e, Neat(e), NEW i \in 1..Len(e)
  PROVE  Neat(RemoveAt(e, i)) /\ ToSet(RemoveAt(e, i)) = ToSet(e) \ {e[i]}
<1> DEFINE r == RemoveAt(e, i)
           up(p) == IF p < i THEN p ELSE p + 1
<1>1. e \in Seq(Item) /\ Len(e) \in Nat /\ Ordered(e) /\ Distinct(e)
  BY SeqItems DEF Neat
<1>2. r \in Seq(Item) /\ Len(r) = Len(e) - 1 /\ \A p \in 1..Len(r) : r[p] = e[up(p)]
  <2>1. /\ r \in Seq(Item) /\ Len(r) = Len(e) - 1
        /\ \A p \in 1..(Len(e) - 1) : r[p] = IF p < i THEN e[p] ELSE e[p + 1]
    BY <1>1, RemoveAtParts
  <2> HIDE DEF r
  <2>2. \A p \in 1..Len(r) : r[p] = IF p < i THEN e[p] ELSE e[p + 1]
    BY <2>1
  <2>3. \A p : (IF p < i THEN e[p] ELSE e[p + 1]) = e[up(p)]
    OBVIOUS
  <2> QED
    BY <2>1, <2>2, <2>3
<1> HIDE DEF r
<1>3. /\ \A p \in 1..Len(r) : up(p) \in 1..Len(e) /\ up(p) # i
      /\ \A p, q \in 1..Len(r) : p < q => up(p) < up(q)
      /\ \A p, q \in 1..Len(r) : up(p) = up(q) => p = q
      /\ \A q \in 1..Len(e) : q # i => \E p \in 1..Len(r) : up(p) = q
  <2>1. \A q \in 1..Len(e) : q # i => \E p \in 1..Len(r) : up(p) = q
    <3> SUFFICES ASSUME NEW q \in 1..Len(e), q # i PROVE \E p \in 1..Len(r) : up(p) = q
      OBVIOUS
    <3>1. CASE q < i
      <4>1. q \in 1..Len(r) /\ up(q) = q
        BY <1>1, <1>2, <3>1
      <4> QED
        BY <4>1
    <3>2. CASE q > i
      <4>1. q - 1 \in 1..Len(r) /\ up(q - 1) = q
        BY <1>1, <1>2, <3>2
      <4> QED
        BY <4>1
    <3> QED
      BY <3>1, <3>2
  <2> QED
    BY <1>1, <1>2, <2>1
<1> HIDE DEF up
<1>4. Ordered(r)
  <2> SUFFICES ASSUME NEW p \in 1..Len(r), NEW q \in 1..Len(r), p < q, ~r[q].parent
               PROVE  ~r[p].parent /\ r[q].score <= r[p].score
    BY DEF Ordered
  <2>1. up(p) \in 1..Len(e) /\ up(q) \in 1..Len(e) /\ up(p) < up(q)
    BY <1>3
  <2>2. r[p] = e[up(p)] /\ r[q] = e[up(q)]
    BY <1>2
  <2> QED
    BY <1>1, <2>1, <2>2 DEF Ordered
<1>5. Distinct(r)
  <2> SUFFICES ASSUME NEW p \in 1..Len(r), NEW q \in 1..Len(r), r[p].chunk = r[q].chunk
               PROVE  p = q
    BY DEF Distinct
  <2>1. up(p) \in 1..Len(e) /\ up(q) \in 1..Len(e)
    BY <1>3
  <2>2. r[p] = e[up(p)] /\ r[q] = e[up(q)]
    BY <1>2
  <2>3. up(p) = up(q)
    BY <1>1, <2>1, <2>2 DEF Distinct
  <2> QED
    BY <1>3, <2>3
<1>6. ToSet(r) = ToSet(e) \ {e[i]}
  <2>1. ToSet(r) = {r[p] : p \in 1..Len(r)} /\ ToSet(e) = {e[p] : p \in 1..Len(e)}
    BY <1>1, <1>2, SeqItems
  <2>2. ASSUME NEW p \in 1..Len(r) PROVE r[p] \in ToSet(e) \ {e[i]}
    <3>1. up(p) \in 1..Len(e) /\ up(p) # i /\ r[p] = e[up(p)]
      BY <1>2, <1>3
    <3>2. e[up(p)] # e[i]
      BY <1>1, <3>1 DEF Distinct
    <3> QED
      BY <2>1, <3>1, <3>2
  <2>3. ASSUME NEW q \in 1..Len(e), e[q] # e[i] PROVE e[q] \in ToSet(r)
    <3>1. PICK p \in 1..Len(r) : up(p) = q
      BY <1>3, <2>3
    <3>2. r[p] = e[q]
      BY <1>2, <3>1
    <3> QED
      BY <2>1, <3>2
  <2> QED
    BY <2>1, <2>2, <2>3
<1> QED
  BY <1>2, <1>4, <1>5, <1>6 DEF Neat, r

\* A parent of a chunk that is not there yet.
LEMMA AppendNeat ==
  ASSUME NEW e, Neat(e), NEW s \in Item, s.parent = TRUE,
         \A t \in ToSet(e) : t.chunk # s.chunk
  PROVE  Neat(Append(e, s)) /\ ToSet(Append(e, s)) = ToSet(e) \union {s}
<1> DEFINE r == Append(e, s)
<1>1. e \in Seq(Item) /\ Len(e) \in Nat /\ Ordered(e) /\ Distinct(e)
      /\ ToSet(e) = {e[p] : p \in 1..Len(e)}
  BY SeqItems DEF Neat
<1>2. /\ r \in Seq(Item) /\ Len(r) = Len(e) + 1
      /\ r[Len(r)] = s /\ \A p \in 1..Len(e) : r[p] = e[p]
  BY <1>1
<1> HIDE DEF r
<1>3. \A p \in 1..Len(e) : e[p].chunk # s.chunk
  BY <1>1
<1>4. Ordered(r)
  <2> SUFFICES ASSUME NEW p \in 1..Len(r), NEW q \in 1..Len(r), p < q, ~r[q].parent
               PROVE  ~r[p].parent /\ r[q].score <= r[p].score
    BY DEF Ordered
  <2>1. q # Len(r)
    BY <1>2
  <2>2. p \in 1..Len(e) /\ q \in 1..Len(e)
    <3>1. Len(r) = Len(e) + 1 /\ Len(e) \in Nat
      BY <1>1, <1>2
    <3> QED
      BY <2>1, <3>1
  <2>3. r[p] = e[p] /\ r[q] = e[q]
    BY <1>2, <2>2
  <2> QED
    BY <1>1, <2>2, <2>3 DEF Ordered
<1>5. Distinct(r)
  <2> SUFFICES ASSUME NEW p \in 1..Len(r), NEW q \in 1..Len(r), r[p].chunk = r[q].chunk
               PROVE  p = q
    BY DEF Distinct
  <2>1. (p \in 1..Len(e) \/ p = Len(r)) /\ (q \in 1..Len(e) \/ q = Len(r))
    BY <1>1, <1>2
  <2> QED
    BY <1>1, <1>2, <1>3, <2>1 DEF Distinct
<1>6. ToSet(r) = ToSet(e) \union {s}
  <2>1. ToSet(r) = {r[p] : p \in 1..Len(r)}
    BY <1>2, SeqItems
  <2>2. \A p \in 1..Len(r) : p \in 1..Len(e) \/ p = Len(r)
    BY <1>1, <1>2
  <2>3. 1..Len(e) \subseteq 1..Len(r) /\ Len(r) \in 1..Len(r)
    BY <1>1, <1>2
  <2> QED
    BY <1>1, <1>2, <2>1, <2>2, <2>3
<1> QED
  BY <1>2, <1>4, <1>5, <1>6 DEF Neat, r

----------------------------------------------------------------------------
(* Ranking. *)

\* What a search scored: each chunk once, and no parent yet.
Pool(items) ==
  /\ items \subseteq Item /\ IsFiniteSet(items)
  /\ \A a, b \in items : a.chunk = b.chunk => a = b
  /\ \A a \in items : ~a.parent

LEMMA BeforeOrders ==
  ASSUME NEW a \in Item, NEW b \in Item, NEW c \in Item
  PROVE  /\ ~Before(a, a)
         /\ Before(a, b) /\ Before(b, c) => Before(a, c)
         /\ a.chunk = b.chunk \/ Before(a, b) \/ Before(b, a)
         /\ Before(a, b) => b.score <= a.score
<1>1. /\ a.score \in Nat /\ b.score \in Nat /\ c.score \in Nat
      /\ Id[a.chunk] \in Nat /\ Id[b.chunk] \in Nat /\ Id[c.chunk] \in Nat
      /\ a.chunk \in Chunks /\ b.chunk \in Chunks
  BY ItemFields
<1>2. Id[a.chunk] = Id[b.chunk] => a.chunk = b.chunk
  BY <1>1, EvidenceAssumption
<1> QED
  BY <1>1, <1>2 DEF Before

\* The rank of an item, which no two share.
LEMMA RankRises ==
  ASSUME NEW items, Pool(items), NEW a \in items, NEW b \in items, Before(a, b)
  PROVE  Cardinality({t \in items : Before(t, a)}) < Cardinality({t \in items : Before(t, b)})
<1> DEFINE A == {t \in items : Before(t, a)}
           B == {t \in items : Before(t, b)}
<1>1. items \subseteq Item /\ IsFiniteSet(items)
  BY DEF Pool
<1>2. A \in SUBSET B /\ a \in B /\ a \notin A
  BY <1>1, BeforeOrders
<1>3. IsFiniteSet(B)
  <2>1. B \in SUBSET items
    OBVIOUS
  <2> HIDE DEF B
  <2> QED
    BY <1>1, <2>1, FS_Subset
<1> HIDE DEF A, B
<1>4. IsFiniteSet(A) /\ Cardinality(A) <= Cardinality(B) /\ Cardinality(A) # Cardinality(B)
  BY <1>2, <1>3, FS_Subset
<1>5. Cardinality(A) \in Nat /\ Cardinality(B) \in Nat
  BY <1>3, <1>4, FS_CardinalityType
<1>6. Cardinality(A) < Cardinality(B)
  BY <1>4, <1>5
<1> QED
  BY <1>6 DEF A, B

LEMMA RanksAreTaken ==
  ASSUME NEW items, Pool(items)
  PROVE  /\ Cardinality(items) \in Nat
         /\ \A n \in 1..Cardinality(items) :
              \E s \in items : Cardinality({t \in items : Before(t, s)}) = n - 1
<1> DEFINE N == Cardinality(items)
           rank == [s \in items |-> Cardinality({t \in items : Before(t, s)})]
<1>1. items \subseteq Item /\ IsFiniteSet(items) /\ N \in Nat
  BY FS_CardinalityType DEF Pool
<1>2. ASSUME NEW s \in items PROVE rank[s] \in 0..(N - 1)
  <2> DEFINE A == {t \in items : Before(t, s)}
  <2>1. A \in SUBSET items /\ s \notin A
    BY <1>1, BeforeOrders
  <2>2. rank[s] = Cardinality(A)
    OBVIOUS
  <2> HIDE DEF A, rank
  <2>3. IsFiniteSet(A) /\ Cardinality(A) <= N /\ (N = Cardinality(A) => A = items)
    BY <1>1, <2>1, FS_Subset
  <2>4. Cardinality(A) \in Nat /\ Cardinality(A) # N
    BY <2>1, <2>3, FS_CardinalityType
  <2> QED
    BY <1>1, <2>2, <2>3, <2>4
<1>3. ASSUME NEW a \in items, NEW b \in items, rank[a] = rank[b] PROVE a = b
  <2>1. ~Before(a, b) /\ ~Before(b, a)
    <3>1. rank[a] \in Nat /\ rank[b] \in Nat
      <4> HIDE DEF rank
      <4> QED
        BY <1>1, <1>2
    <3>2. Before(a, b) => rank[a] < rank[b]
      BY RankRises
    <3>3. Before(b, a) => rank[b] < rank[a]
      BY RankRises
    <3> HIDE DEF rank
    <3> QED
      BY <1>3, <3>1, <3>2, <3>3
  <2>2. a.chunk = b.chunk
    BY <1>1, <2>1, BeforeOrders
  <2> QED
    BY <2>2 DEF Pool
<1>4. rank \in [items -> 0..(N - 1)]
  <2>1. rank = [s \in items |-> rank[s]]
    OBVIOUS
  <2> HIDE DEF rank
  <2> QED
    BY <1>2, <2>1
<1>5. rank \in Injection(items, 0..(N - 1))
  <2> HIDE DEF rank
  <2> QED
    BY <1>3, <1>4 DEF Injection, IsInjective
<1>6. IsFiniteSet(0..(N - 1)) /\ Cardinality(0..(N - 1)) = N
  <2>1. /\ IsFiniteSet(0..(N - 1))
        /\ Cardinality(0..(N - 1)) = IF 0 > N - 1 THEN 0 ELSE (N - 1) - 0 + 1
    BY <1>1, FS_Interval
  <2> QED
    BY <1>1, <2>1
<1>7. rank \in Surjection(items, 0..(N - 1))
  <2> HIDE DEF rank
  <2> QED
    BY <1>5, <1>6, FS_Injection
<1>8. ASSUME NEW n \in 1..N PROVE \E s \in items : rank[s] = n - 1
  <2>1. n - 1 \in 0..(N - 1)
    BY <1>1
  <2> HIDE DEF rank
  <2> QED
    BY <1>7, <2>1 DEF Surjection
<1> QED
  BY <1>1, <1>8

\* What is ranked is a pool, in order.
LEMMA RankedIsNeat ==
  ASSUME NEW items, Pool(items)
  PROVE  Neat(Ranked(items)) /\ ToSet(Ranked(items)) \subseteq items
<1> DEFINE N == Cardinality(items)
           rank(s) == Cardinality({t \in items : Before(t, s)})
           e == Ranked(items)
<1>1. N \in Nat /\ \A n \in 1..N : \E s \in items : rank(s) = n - 1
  BY RanksAreTaken
<1>2. items \subseteq Item
  BY DEF Pool
<1>3. e = [n \in 1..N |-> CHOOSE s \in items : rank(s) = n - 1]
  BY DEF Ranked
<1>4. \A a, b \in items : Before(a, b) => rank(a) < rank(b)
  BY RankRises
<1> HIDE DEF e, rank, N
<1>5. \A n \in 1..N : e[n] \in items /\ rank(e[n]) = n - 1
  BY <1>1, <1>3
<1>6. e \in Seq(Item) /\ Len(e) = N
  <2>1. e \in [1..N -> Item]
    BY <1>2, <1>3, <1>5
  <2> QED
    BY <1>1, <2>1
<1>7. Ordered(e)
  <2> SUFFICES ASSUME NEW p \in 1..N, NEW q \in 1..N, p < q
               PROVE  ~e[p].parent /\ e[q].score <= e[p].score
    BY <1>6 DEF Ordered
  <2>1. e[p] \in items /\ e[q] \in items /\ rank(e[p]) = p - 1 /\ rank(e[q]) = q - 1
    BY <1>5
  <2>2. rank(e[p]) < rank(e[q])
    BY <1>1, <2>1
  <2>3. ~Before(e[q], e[p])
    <3>1. Before(e[q], e[p]) => rank(e[q]) < rank(e[p])
      BY <1>4, <2>1
    <3> QED
      BY <1>1, <2>1, <3>1
  <2>4. e[p] # e[q]
    BY <1>1, <2>1
  <2>5. e[p].chunk # e[q].chunk
    BY <2>1, <2>4 DEF Pool
  <2>6. Before(e[p], e[q])
    BY <1>2, <2>1, <2>3, <2>5, BeforeOrders
  <2>7. e[q].score <= e[p].score
    BY <1>2, <2>1, <2>6, BeforeOrders
  <2> QED
    BY <2>1, <2>7 DEF Pool
<1>8. Distinct(e)
  <2> SUFFICES ASSUME NEW p \in 1..N, NEW q \in 1..N, e[p].chunk = e[q].chunk
               PROVE  p = q
    BY <1>6 DEF Distinct
  <2>1. e[p] = e[q]
    BY <1>5 DEF Pool
  <2>2. p - 1 = q - 1
    BY <1>5, <2>1
  <2> QED
    BY <1>1, <2>2
<1>9. ToSet(e) \subseteq items
  BY <1>5, <1>6, SeqItems
<1> QED
  BY <1>6, <1>7, <1>8, <1>9 DEF Neat, e

----------------------------------------------------------------------------
(* Trimming. *)

\* After n turns f[n] is left, from the last item to the first.
Trims(f, items) ==
  /\ f[0] = items
  /\ \A n \in 1..Len(items) : f[n] = f[n - 1] \/ f[n] = RemoveAt(f[n - 1], Len(items) + 1 - n)

\* The items before the one whose turn it is are still in their places.
LEMMA TrimsParts ==
  ASSUME NEW items \in Seq(Item), NEW f, Trims(f, items)
  PROVE  \A n \in 0..Len(items) :
           /\ f[n] \in Seq(Item) /\ Len(f[n]) \in (Len(items) - n)..Len(items)
           /\ \A p \in 1..(Len(items) - n) : f[n][p] = items[p]
<1> DEFINE N == Len(items)
           Good(n) == /\ f[n] \in Seq(Item) /\ Len(f[n]) \in (N - n)..N
                      /\ \A p \in 1..(N - n) : f[n][p] = items[p]
           P == {n \in 0..N : Good(n)}
<1>1. N \in Nat
  BY SeqItems
<1>2. 0 \in P
  BY <1>1 DEF Trims
<1>3. ASSUME NEW n \in 1..N, n - 1 \in P PROVE n \in P
  <2> DEFINE rest == f[n - 1]
             at == N + 1 - n
  <2>1. rest \in Seq(Item) /\ Len(rest) \in at..N /\ \A p \in 1..at : rest[p] = items[p]
    BY <1>1, <1>3
  <2>2. f[n] = rest \/ f[n] = RemoveAt(rest, at)
    BY DEF Trims
  <2>3. at \in 1..Len(rest) /\ at \in Nat /\ N - n = at - 1 /\ Len(rest) \in Nat
    BY <1>1, <2>1, SeqItems
  <2> HIDE DEF rest, at
  <2>4. /\ RemoveAt(rest, at) \in Seq(Item) /\ Len(RemoveAt(rest, at)) = Len(rest) - 1
        /\ \A p \in 1..(Len(rest) - 1) : RemoveAt(rest, at)[p] = IF p < at THEN rest[p] ELSE rest[p + 1]
    BY <2>1, <2>3, RemoveAtParts
  <2>5. Good(n)
    <3>1. CASE f[n] = rest
      BY <1>1, <2>1, <2>3, <3>1
    <3>2. CASE f[n] = RemoveAt(rest, at)
      <4>1. Len(f[n]) \in (N - n)..N /\ f[n] \in Seq(Item)
        BY <1>1, <2>1, <2>3, <2>4, <3>2
      <4>2. ASSUME NEW p \in 1..(N - n) PROVE f[n][p] = items[p]
        <5>1. p \in 1..(Len(rest) - 1) /\ p < at /\ p \in 1..at
          BY <1>1, <2>1, <2>3
        <5> QED
          BY <2>1, <2>4, <3>2, <5>1
      <4> QED
        BY <4>1, <4>2
    <3> QED
      BY <2>2, <3>1, <3>2
  <2> HIDE DEF Good
  <2> QED
    BY <2>5
<1> HIDE DEF P, N
<1>4. \A n \in 0..N : n \in P
  BY <1>1, <1>2, <1>3, StepByStep
<1> QED
  BY <1>4 DEF P, N

\* Each turn takes out the item in its place, or none.
LEMMA TrimsNeat ==
  ASSUME NEW items, Neat(items), NEW f, Trims(f, items)
  PROVE  /\ \A n \in 0..Len(items) : Neat(f[n])
         /\ \A n \in 1..Len(items) :
              \/ f[n] = f[n - 1]
              \/ ToSet(f[n]) = ToSet(f[n - 1]) \ {items[Len(items) + 1 - n]}
<1> DEFINE N == Len(items)
           P == {n \in 0..N : Neat(f[n])}
<1>1. N \in Nat /\ items \in Seq(Item)
  BY SeqItems DEF Neat
<1>2. 0 \in P
  BY <1>1 DEF Trims
<1>3. ASSUME NEW n \in 1..N, Neat(f[n - 1])
      PROVE  /\ Neat(f[n])
             /\ f[n] = f[n - 1] \/ ToSet(f[n]) = ToSet(f[n - 1]) \ {items[N + 1 - n]}
  <2>1. n - 1 \in 0..N
    BY <1>1
  <2>2. /\ f[n - 1] \in Seq(Item) /\ Len(f[n - 1]) \in (N - (n - 1))..N
        /\ \A p \in 1..(N - (n - 1)) : f[n - 1][p] = items[p]
    BY <1>1, <2>1, TrimsParts
  <2>3. N + 1 - n \in 1..Len(f[n - 1]) /\ f[n - 1][N + 1 - n] = items[N + 1 - n]
    BY <1>1, <2>2
  <2>4. f[n] = f[n - 1] \/ f[n] = RemoveAt(f[n - 1], N + 1 - n)
    BY DEF Trims
  <2> HIDE DEF N
  <2> QED
    BY <1>3, <2>3, <2>4, RemoveAtNeat
<1>4. \A n \in 1..N : n - 1 \in P => n \in P
  BY <1>1, <1>3
<1> HIDE DEF P
<1>5. \A n \in 0..N : n \in P
  BY <1>1, <1>2, <1>4, StepByStep
<1>6. \A n \in 0..N : Neat(f[n])
  BY <1>5 DEF P
<1>7. \A n \in 1..N : n - 1 \in 0..N
  BY <1>1
<1> QED
  BY <1>3, <1>6, <1>7

\* Whatever decides who goes, the turns can be taken.
LEMMA TrimRuns ==
  ASSUME NEW items \in Seq(Item), NEW G
  PROVE  \E f : /\ Trims(f, items)
                /\ f = [n \in 0..Len(items) |->
                          IF n = 0 THEN items
                          ELSE IF <<f[n - 1], f[n - 1][Len(items) + 1 - n]>> \in G
                               THEN RemoveAt(f[n - 1], Len(items) + 1 - n) ELSE f[n - 1]]
<1> DEFINE N == Len(items)
           goes(rest, n) == N + 1 - n \in 1..Len(rest) /\ <<rest, rest[N + 1 - n]>> \in G
           step(rest, n) == IF goes(rest, n) THEN RemoveAt(rest, N + 1 - n) ELSE rest
           g == [n \in 1..N |-> [rest \in Seq(Item) |-> step(rest, n)]]
<1>1. N \in Nat
  BY SeqItems
<1>2. \A n \in 1..N : \A rest \in Seq(Item) : step(rest, n) \in Seq(Item)
  <2>1. \A rest \in Seq(Item) : \A i \in 1..Len(rest) : RemoveAt(rest, i) \in Seq(Item)
    BY RemoveAtParts
  <2> QED
    BY <2>1
<1>3. g \in [1..N -> [Seq(Item) -> Seq(Item)]]
  <2> HIDE DEF step, N
  <2> QED
    BY <1>2
<1>4. PICK f : Runs(f, g, N, Seq(Item), items)
  <2>1. N \in Nat /\ items \in Seq(Item) /\ Steps(g, N, Seq(Item))
    BY <1>1, <1>3 DEF Steps
  <2> HIDE DEF g, N
  <2> QED
    BY <2>1, RecursionExists
<1> USE <1>4 DEF Runs
<1>5. ASSUME NEW n \in 1..N PROVE f[n] = step(f[n - 1], n)
  <2>1. n - 1 \in 0..N
    BY <1>1
  <2>2. f[n - 1] \in Seq(Item)
    BY <1>4, <2>1
  <2> HIDE DEF step, N
  <2>3. g[n][f[n - 1]] = step(f[n - 1], n)
    BY <2>2
  <2> QED
    BY <1>4, <2>3
<1>6. Trims(f, items)
  BY <1>4, <1>5 DEF Trims
<1>7. ASSUME NEW n \in 1..N PROVE N + 1 - n \in 1..Len(f[n - 1])
  <2>1. n - 1 \in 0..N
    BY <1>1
  <2>2. Len(f[n - 1]) \in (N - (n - 1))..N
    BY <1>6, <2>1, TrimsParts
  <2> QED
    BY <1>1, <2>2
<1>8. \A n \in 0..N : f[n] = IF n = 0 THEN items
                            ELSE IF <<f[n - 1], f[n - 1][N + 1 - n]>> \in G
                                 THEN RemoveAt(f[n - 1], N + 1 - n) ELSE f[n - 1]
  <2> SUFFICES ASSUME NEW n \in 1..N
               PROVE  f[n] = IF <<f[n - 1], f[n - 1][N + 1 - n]>> \in G
                             THEN RemoveAt(f[n - 1], N + 1 - n) ELSE f[n - 1]
    BY <1>1, <1>4
  <2> HIDE DEF N
  <2> QED
    BY <1>5, <1>7
<1> HIDE DEF N
<1>9. f = [n \in 0..N |-> f[n]]
  BY <1>4
<1>10. f = [n \in 0..N |-> IF n = 0 THEN items
                            ELSE IF <<f[n - 1], f[n - 1][N + 1 - n]>> \in G
                                 THEN RemoveAt(f[n - 1], N + 1 - n) ELSE f[n - 1]]
  BY <1>8, <1>9
<1> QED
  BY <1>6, <1>10 DEF N

LEMMA TrimsEnd ==
  ASSUME NEW items, Neat(items), NEW f, Trims(f, items)
  PROVE  Neat(f[Len(items)]) /\ ToSet(f[Len(items)]) \subseteq ToSet(items)
<1> DEFINE N == Len(items)
           P == {n \in 0..N : ToSet(f[n]) \subseteq ToSet(items)}
<1>1. N \in Nat
  BY SeqItems DEF Neat
<1>2. 0 \in P
  BY <1>1 DEF Trims
<1>3. \A n \in 1..N : n - 1 \in P => n \in P
  BY <1>1, TrimsNeat
<1>4. N \in 0..N
  BY <1>1
<1> HIDE DEF P
<1>5. \A n \in 0..N : n \in P
  BY <1>1, <1>2, <1>3, StepByStep
<1> QED
  BY <1>4, <1>5, TrimsNeat DEF P

\* The chunks kept for a question are candidates, in order.
LEMMA SelectIsNeat ==
  ASSUME NEW items, Pool(items), NEW quotas
  PROVE  Neat(Select(items, quotas)) /\ ToSet(Select(items, quotas)) \subseteq items
<1> DEFINE owed == UNION {Best(Of(items, d), quotas[d]) : d \in Collections}
           room == IF Cardinality(owed) < Keep THEN Keep - Cardinality(owed) ELSE 0
           kept == owed \union Best(items \ owed, room)
           e == Ranked(kept)
           N == Len(e)
           Goes(r, s) == Tokens(r) > Budget /\ AboveQuota(ToSet(r), s, quotas)
           G == {x \in Seq(Item) \X Item : Goes(x[1], x[2])}
           P(f) == f = [n \in 0..N |->
                          IF n = 0 THEN e
                          ELSE IF Goes(f[n - 1], f[n - 1][N + 1 - n])
                               THEN RemoveAt(f[n - 1], N + 1 - n) ELSE f[n - 1]]
<1>1. Pool(kept) /\ kept \subseteq items
  <2>1. \A d : Best(Of(items, d), quotas[d]) \subseteq items
    BY DEF Best, Of
  <2>2. Best(items \ owed, room) \subseteq items
    BY DEF Best
  <2>3. kept \in SUBSET items
    BY <2>1, <2>2
  <2> HIDE DEF kept
  <2>4. IsFiniteSet(kept)
    BY <2>3, FS_Subset DEF Pool
  <2> QED
    BY <2>3, <2>4 DEF Pool
<1>2. Select(items, quotas) = (CHOOSE f : P(f))[N]
  BY DEF Select, Trim
<1> HIDE DEF kept
<1>3. Neat(e) /\ ToSet(e) \subseteq kept
  BY <1>1, RankedIsNeat
<1>4. e \in Seq(Item) /\ N \in Nat
  BY <1>3, SeqItems DEF Neat
<1> HIDE DEF e
<1>5. PICK f : /\ Trims(f, e)
               /\ f = [n \in 0..N |->
                         IF n = 0 THEN e
                         ELSE IF <<f[n - 1], f[n - 1][N + 1 - n]>> \in G
                              THEN RemoveAt(f[n - 1], N + 1 - n) ELSE f[n - 1]]
  <2> HIDE DEF G
  <2> QED
    BY <1>4, TrimRuns
<1>6. ASSUME NEW n \in 1..N
      PROVE  <<f[n - 1], f[n - 1][N + 1 - n]>> \in G <=> Goes(f[n - 1], f[n - 1][N + 1 - n])
  <2> DEFINE r == f[n - 1]
             i == N + 1 - n
  <2>1. n - 1 \in 0..N
    BY <1>4
  <2>2. r \in Seq(Item) /\ Len(r) \in (N - (n - 1))..N
    BY <1>4, <1>5, <2>1, TrimsParts
  <2>3. i \in 1..Len(r)
    BY <1>4, <2>2
  <2> HIDE DEF r, i, Goes
  <2>4. r[i] \in Item
    BY <2>2, <2>3, SeqItems
  <2>5. <<r, r[i]>> \in G <=> Goes(r, r[i])
    BY <2>2, <2>4
  <2> HIDE DEF G
  <2> QED
    BY <2>5 DEF r, i
<1>7. P(f)
  <2> DEFINE went(n) == <<f[n - 1], f[n - 1][N + 1 - n]>> \in G
             goes(n) == Goes(f[n - 1], f[n - 1][N + 1 - n])
             less(n) == RemoveAt(f[n - 1], N + 1 - n)
  <2>1. f = [n \in 0..N |-> IF n = 0 THEN e ELSE IF went(n) THEN less(n) ELSE f[n - 1]]
    BY <1>5
  <2>2. \A n \in 0..N : n = 0 \/ (n \in 1..N /\ (went(n) <=> goes(n)))
    BY <1>4, <1>6
  <2>3. f = [n \in 0..N |-> IF n = 0 THEN e ELSE IF goes(n) THEN less(n) ELSE f[n - 1]]
    <3> HIDE DEF went, goes, less, N
    <3> QED
      BY <2>1, <2>2
  <2> QED
    BY <2>3
<1>8. ASSUME NEW h, P(h) PROVE Trims(h, e)
  <2> HIDE DEF Goes
  <2> QED
    BY <1>4, <1>8 DEF Trims
<1> HIDE DEF P
<1>9. P(CHOOSE h : P(h))
  BY <1>7
<1>10. Trims(CHOOSE h : P(h), e)
  BY <1>8, <1>9
<1> DEFINE h == CHOOSE h : P(h)
<1>11. Trims(h, e) /\ Select(items, quotas) = h[N]
  BY <1>2, <1>10
<1> HIDE DEF h
<1>12. Neat(h[N]) /\ ToSet(h[N]) \subseteq ToSet(e)
  BY <1>3, <1>11, TrimsEnd
<1> QED
  BY <1>1, <1>3, <1>11, <1>12

----------------------------------------------------------------------------
(* The parents. *)

\* The kept chunks and, of some of them, the section they are in.
LEMMA AddParentsIsNeat ==
  ASSUME NEW kept, Neat(kept), NEW found, found \subseteq Chunks, NEW scale \in {"rerank", "bm25"}
  PROVE  LET evidence == AddParents(kept, found, scale)
         IN  /\ Neat(evidence)
             /\ \A s \in ToSet(evidence) :
                  s \in ToSet(kept) \/ (s.chunk \in found /\ s.scale = scale)
<1> DEFINE N == Len(kept)
           new(n, r) == {p \in ParentOf(kept[n].chunk, found) :
                           /\ \A t \in ToSet(r) : t.chunk # p
                           /\ Tokens(Append(r, Parent(p, scale))) <= Budget}
           step(n, r) == IF new(n, r) = {} THEN r
                         ELSE Append(r, Parent(CHOOSE p \in new(n, r) : TRUE, scale))
           P(f) == f = [n \in 0..N |-> IF n = 0 THEN kept ELSE step(n, f[n - 1])]
           g == [n \in 1..N |-> [r \in Seq(Item) |-> step(n, r)]]
           From(r) == \A s \in ToSet(r) : s \in ToSet(kept) \/ (s.chunk \in found /\ s.scale = scale)
           Good(r) == Neat(r) /\ From(r)
<1>1. kept \in Seq(Item) /\ N \in Nat
  BY SeqItems DEF Neat
<1>2. AddParents(kept, found, scale) = (CHOOSE f : P(f))[N]
  BY DEF AddParents
<1>3. ASSUME NEW n, NEW r, new(n, r) # {}
      PROVE  \E p \in found : /\ Parent(p, scale) \in Item
                              /\ \A t \in ToSet(r) : t.chunk # p
                              /\ step(n, r) = Append(r, Parent(p, scale))
  <2> DEFINE p == CHOOSE q \in new(n, r) : TRUE
  <2>1. p \in new(n, r) /\ step(n, r) = Append(r, Parent(p, scale))
    BY <1>3
  <2> HIDE DEF p
  <2>2. p \in found /\ p \in Chunks /\ \A t \in ToSet(r) : t.chunk # p
    BY <2>1 DEF ParentOf
  <2>3. Parent(p, scale) \in Item
    BY <2>2, RetrievalAssumption DEF Parent, Item
  <2> QED
    BY <2>1, <2>2, <2>3
<1>4. \A n \in 1..N : \A r : new(n, r) = {} => step(n, r) = r
  OBVIOUS
<1> HIDE DEF new, step
<1>5. \A n \in 1..N : \A r \in Seq(Item) : step(n, r) \in Seq(Item)
  <2> SUFFICES ASSUME NEW n \in 1..N, NEW r \in Seq(Item) PROVE step(n, r) \in Seq(Item)
    OBVIOUS
  <2>1. CASE new(n, r) = {}
    BY <1>4, <2>1
  <2>2. CASE new(n, r) # {}
    BY <1>3, <2>2
  <2> QED
    BY <2>1, <2>2
<1>6. ASSUME NEW n \in 1..N, NEW r, Good(r) PROVE Good(step(n, r))
  <2>1. CASE new(n, r) = {}
    BY <1>4, <1>6, <2>1
  <2>2. CASE new(n, r) # {}
    <3>1. PICK p \in found : /\ Parent(p, scale) \in Item
                             /\ \A t \in ToSet(r) : t.chunk # p
                             /\ step(n, r) = Append(r, Parent(p, scale))
      BY <1>3, <2>2
    <3> DEFINE s == Parent(p, scale)
    <3>2. s \in Item /\ s.parent = TRUE /\ s.chunk = p /\ s.scale = scale
      BY <3>1 DEF Parent
    <3> HIDE DEF s
    <3>3. Neat(Append(r, s)) /\ ToSet(Append(r, s)) = ToSet(r) \union {s}
      BY <1>6, <3>1, <3>2, AppendNeat
    <3>4. Good(Append(r, s))
      BY <1>6, <3>2, <3>3
    <3> QED
      BY <3>1, <3>4 DEF s
  <2> QED
    BY <2>1, <2>2
<1>7. PICK f : Runs(f, g, N, Seq(Item), kept)
  <2>1. Steps(g, N, Seq(Item))
    <3> HIDE DEF N
    <3> QED
      BY <1>5 DEF Steps
  <2> HIDE DEF g, N
  <2> QED
    BY <1>1, <2>1, RecursionExists
<1>8. P(f)
  <2>1. \A n \in 0..N : f[n] = IF n = 0 THEN kept ELSE step(n, f[n - 1])
    <3> SUFFICES ASSUME NEW n \in 1..N PROVE f[n] = step(n, f[n - 1])
      BY <1>1, <1>7 DEF Runs
    <3>1. n - 1 \in 0..N
      BY <1>1
    <3>2. f[n - 1] \in Seq(Item) /\ f[n] = g[n][f[n - 1]]
      BY <1>7, <3>1 DEF Runs
    <3> HIDE DEF N
    <3> QED
      BY <3>2
  <2>2. f = [n \in 0..N |-> f[n]]
    BY <1>7 DEF Runs
  <2> HIDE DEF N
  <2> QED
    BY <2>1, <2>2
<1>9. ASSUME NEW h, P(h) PROVE Good(h[N])
  <2> DEFINE Q == {n \in 0..N : Good(h[n])}
  <2>1. h[0] = kept /\ \A n \in 1..N : h[n] = step(n, h[n - 1])
    BY <1>1, <1>9
  <2>2. 0 \in Q
    BY <1>1, <2>1
  <2>3. \A n \in 1..N : n - 1 \in Q => n \in Q
    <3> HIDE DEF Good
    <3> QED
      BY <1>1, <1>6, <2>1
  <2> HIDE DEF Q
  <2>4. \A n \in 0..N : n \in Q
    BY <1>1, <2>2, <2>3, StepByStep
  <2>5. N \in 0..N
    BY <1>1
  <2> QED
    BY <2>4, <2>5 DEF Q
<1> HIDE DEF P
<1>10. P(CHOOSE h : P(h))
  BY <1>8
<1>11. Good((CHOOSE h : P(h))[N])
  <2> HIDE DEF Good
  <2> QED
    BY <1>9, <1>10
<1> QED
  BY <1>2, <1>11

----------------------------------------------------------------------------
(* What the envelope leaves. *)

\* The turns of the prompt's envelope.
EnvelopeTurns(f, e, quotas) ==
  f = [n \in 0..Len(e) |->
         IF n = 0 THEN e
         ELSE IF /\ Tokens(f[n - 1]) > EnvelopeBudget
                 /\ Spare(ToSet(f[n - 1]), f[n - 1][Len(e) + 1 - n], quotas)
              THEN RemoveAt(f[n - 1], Len(e) + 1 - n) ELSE f[n - 1]]

LEMMA EnvelopeRuns ==
  ASSUME NEW e \in Seq(Item), NEW quotas
  PROVE  \E f : /\ Trims(f, e) /\ EnvelopeTurns(f, e, quotas)
                /\ Envelope(e, quotas) = f[Len(e)]
<1> DEFINE N == Len(e)
           G == {x \in Seq(Item) \X Item :
                   Tokens(x[1]) > EnvelopeBudget /\ Spare(ToSet(x[1]), x[2], quotas)}
           P(f) == EnvelopeTurns(f, e, quotas)
<1>1. N \in Nat
  BY SeqItems
<1>2. PICK f : /\ Trims(f, e)
               /\ f = [n \in 0..N |->
                         IF n = 0 THEN e
                         ELSE IF <<f[n - 1], f[n - 1][N + 1 - n]>> \in G
                              THEN RemoveAt(f[n - 1], N + 1 - n) ELSE f[n - 1]]
  <2> HIDE DEF G
  <2> QED
    BY TrimRuns
<1>3. ASSUME NEW n \in 1..N
      PROVE  <<f[n - 1], f[n - 1][N + 1 - n]>> \in G <=>
               /\ Tokens(f[n - 1]) > EnvelopeBudget
               /\ Spare(ToSet(f[n - 1]), f[n - 1][N + 1 - n], quotas)
  <2> DEFINE r == f[n - 1]
             i == N + 1 - n
  <2>1. n - 1 \in 0..N
    BY <1>1
  <2>2. r \in Seq(Item) /\ Len(r) \in (N - (n - 1))..N
    BY <1>2, <2>1, TrimsParts
  <2>3. i \in 1..Len(r)
    BY <1>1, <2>2
  <2> HIDE DEF r, i
  <2>4. r[i] \in Item
    BY <2>2, <2>3, SeqItems
  <2>5. <<r, r[i]>> \in G <=> Tokens(r) > EnvelopeBudget /\ Spare(ToSet(r), r[i], quotas)
    BY <2>2, <2>4
  <2> HIDE DEF G
  <2> QED
    BY <2>5 DEF r, i
<1>4. P(f)
  <2> DEFINE went(n) == <<f[n - 1], f[n - 1][N + 1 - n]>> \in G
             goes(n) == /\ Tokens(f[n - 1]) > EnvelopeBudget
                        /\ Spare(ToSet(f[n - 1]), f[n - 1][N + 1 - n], quotas)
             less(n) == RemoveAt(f[n - 1], N + 1 - n)
  <2>1. f = [n \in 0..N |-> IF n = 0 THEN e ELSE IF went(n) THEN less(n) ELSE f[n - 1]]
    BY <1>2
  <2>2. \A n \in 0..N : n = 0 \/ (n \in 1..N /\ (went(n) <=> goes(n)))
    BY <1>1, <1>3
  <2>3. f = [n \in 0..N |-> IF n = 0 THEN e ELSE IF goes(n) THEN less(n) ELSE f[n - 1]]
    <3> HIDE DEF went, goes, less, N
    <3> QED
      BY <2>1, <2>2
  <2> QED
    BY <2>3 DEF EnvelopeTurns
<1>5. Envelope(e, quotas) = (CHOOSE h : P(h))[N]
  BY DEF Envelope, Trim, EnvelopeTurns
<1>6. ASSUME NEW h, P(h) PROVE Trims(h, e)
  BY <1>1, <1>6 DEF EnvelopeTurns, Trims
<1> HIDE DEF P
<1>7. P(CHOOSE h : P(h))
  BY <1>4
<1>8. Trims(CHOOSE h : P(h), e)
  BY <1>6, <1>7
<1> DEFINE h == CHOOSE h : P(h)
<1>9. Trims(h, e) /\ P(h) /\ Envelope(e, quotas) = h[N]
  BY <1>5, <1>7, <1>8
<1> HIDE DEF h
<1> QED
  BY <1>9 DEF P

LEMMA TokensOfOne ==
  ASSUME NEW e \in Seq(Item), Len(e) = 1
  PROVE  Tokens(e) = Size[e[1].chunk] /\ Size[e[1].chunk] <= EnvelopeBudget
<1> DEFINE P(h) == h = [n \in 0..Len(e) |-> IF n = 0 THEN 0 ELSE h[n - 1] + Size[e[n].chunk]]
           one == [n \in 0..1 |-> IF n = 0 THEN 0 ELSE Size[e[1].chunk]]
<1>1. e[1].chunk \in Chunks /\ Size[e[1].chunk] \in Nat /\ Size[e[1].chunk] <= EnvelopeBudget
  <2>1. e[1].chunk \in Chunks
    BY SeqItems, ItemFields
  <2>2. Size[e[1].chunk] \in 1..Budget /\ Budget \in Nat /\ Size[e[1].chunk] <= EnvelopeBudget
    BY <2>1, EvidenceAssumption
  <2> QED
    BY <2>1, <2>2
<1>2. P(one)
  BY <1>1
<1>3. Tokens(e) = (CHOOSE h : P(h))[1]
  BY DEF Tokens
<1>4. ASSUME NEW h, P(h) PROVE h[1] = Size[e[1].chunk]
  <2>1. h[0] = 0 /\ h[1] = h[0] + Size[e[1].chunk]
    BY <1>4
  <2> QED
    BY <1>1, <2>1
<1> HIDE DEF P, one
<1>5. P(CHOOSE h : P(h))
  BY <1>2
<1> QED
  BY <1>1, <1>3, <1>4, <1>5

Hits(L, d) == {t \in Of(L, d) : ~t.parent}

CollectionOf(s) == Collection[s.chunk]

\* No collection goes below its quota,
Owed(L, quotas) == \A d \in Collections : Cardinality(Hits(L, d)) >= quotas[d]

\* its chunks go from the worst to the best,
Closed(L, e) ==
  \A p, q \in 1..Len(e) :
    /\ p < q /\ ~e[p].parent /\ ~e[q].parent /\ CollectionOf(e[p]) = CollectionOf(e[q])
    /\ e[q] \in L
    => e[p] \in L

\* and those that stayed while there was no room could not go.
Stuck(L, e, k, quotas) ==
  \A p \in 1..Len(e) :
    p > Len(e) - k /\ e[p] \in L
    => ~e[p].parent /\ Cardinality(Hits(L, CollectionOf(e[p]))) <= quotas[CollectionOf(e[p])]

LEMMA CountFalls ==
  ASSUME NEW L, IsFiniteSet(L), NEW s \in L, NEW d
  PROVE  /\ Cardinality(Hits(L, d)) \in Nat /\ Cardinality(Hits(L \ {s}, d)) \in Nat
         /\ Cardinality(Hits(L \ {s}, d)) <= Cardinality(Hits(L, d))
         /\ s.parent \/ CollectionOf(s) # d =>
              Cardinality(Hits(L \ {s}, d)) = Cardinality(Hits(L, d))
         /\ Cardinality(Hits(L \ {s}, d)) >= Cardinality(Hits(L, d)) - 1
<1> DEFINE A == Hits(L, d)
           B == Hits(L \ {s}, d)
<1>1. B = A \ {s} /\ A \in SUBSET L /\ (s.parent \/ CollectionOf(s) # d => B = A)
  BY DEF Hits, Of, CollectionOf
<1> HIDE DEF A, B
<1>2. IsFiniteSet(A) /\ Cardinality(A) \in Nat
  BY <1>1, FS_Subset, FS_CardinalityType
<1>3. Cardinality(B) = IF s \in A THEN Cardinality(A) - 1 ELSE Cardinality(A)
  BY <1>1, <1>2, FS_RemoveElement
<1>4. IsFiniteSet(B) /\ Cardinality(B) \in Nat
  BY <1>1, <1>2, FS_RemoveElement, FS_CardinalityType
<1>5. B = A => Cardinality(B) = Cardinality(A)
  OBVIOUS
<1>6. /\ Cardinality(A) \in Nat /\ Cardinality(B) \in Nat
      /\ Cardinality(B) <= Cardinality(A)
      /\ Cardinality(B) >= Cardinality(A) - 1
  BY <1>2, <1>3, <1>4
<1> QED
  BY <1>1, <1>5, <1>6 DEF A, B

LEMMA SeqIsFinite ==
  ASSUME NEW e \in Seq(Item)
  PROVE  IsFiniteSet(ToSet(e))
<1> DEFINE N == Len(e)
           S == ToSet(e)
           h == [p \in 1..N |-> e[p]]
<1>1. N \in Nat /\ S = {e[p] : p \in 1..N}
  BY SeqItems
<1>2. IsFiniteSet(1..N)
  BY <1>1, FS_Interval
<1>3. h \in Surjection(1..N, S)
  BY <1>1 DEF Surjection
<1> HIDE DEF N, S, h
<1>4. IsFiniteSet(S)
  BY <1>2, <1>3, FS_Surjection
<1> QED
  BY <1>4 DEF S

\* One turn: L is what was left before it, K after it.
LEMMA EnvelopeTurn ==
  ASSUME NEW e \in Seq(Item), NEW n \in 1..Len(e), NEW quotas \in [Collections -> Nat],
         NEW L, IsFiniteSet(L), L \subseteq Item, e[Len(e) + 1 - n] \in L,
         \A p, q \in 1..Len(e) : e[p] = e[q] => p = q,
         Owed(L, quotas), Closed(L, e), Stuck(L, e, n - 1, quotas),
         NEW K,
         K = IF Spare(L, e[Len(e) + 1 - n], quotas) THEN L \ {e[Len(e) + 1 - n]} ELSE L
  PROVE  Owed(K, quotas) /\ Closed(K, e) /\ Stuck(K, e, n, quotas)
<1> DEFINE at == Len(e) + 1 - n
           s == e[at]
           d == CollectionOf(s)
           C(M, c) == Cardinality(Hits(M, c))
<1>1. /\ Len(e) \in Nat /\ at \in 1..Len(e) /\ s \in Item /\ s \in L /\ at - 1 = Len(e) - n
      /\ at = Len(e) - (n - 1)
  BY SeqItems
<1>2. \A c \in Collections : quotas[c] \in Nat
  OBVIOUS
<1>3. \A t \in Item : CollectionOf(t) \in Collections
  BY ItemFields DEF Collections, CollectionOf
<1>4. /\ \A c : C(L, c) \in Nat
      /\ \A c : /\ C(L \ {s}, c) \in Nat /\ C(L \ {s}, c) <= C(L, c)
                /\ (s.parent \/ d # c => C(L \ {s}, c) = C(L, c))
                /\ C(L \ {s}, c) >= C(L, c) - 1
  BY <1>1, CountFalls
<1>5. Spare(L, s, quotas) <=> (s.parent \/ C(L, d) > quotas[d])
  BY DEF Spare, Hits, CollectionOf
<1>6. K = IF Spare(L, s, quotas) THEN L \ {s} ELSE L
  OBVIOUS
<1>7. \A p \in 1..Len(e) : p > Len(e) - (n - 1) /\ e[p] \in L
        => ~e[p].parent /\ C(L, CollectionOf(e[p])) <= quotas[CollectionOf(e[p])]
  BY DEF Stuck
<1>8. \A c \in Collections : C(L, c) >= quotas[c]
  BY DEF Owed
<1> HIDE DEF C, d, s, at
<1>9. \A p \in 1..Len(e) : p > Len(e) - n => p = at \/ p > Len(e) - (n - 1)
  BY <1>1
<1>10. CASE Spare(L, s, quotas)
  <2>1. K = L \ {s}
    BY <1>6, <1>10
  <2>2. ASSUME NEW c \in Collections PROVE C(K, c) >= quotas[c]
    <3>1. CASE s.parent \/ d # c
      <4>1. C(K, c) = C(L, c)
        BY <1>4, <2>1, <3>1
      <4> QED
        BY <1>8, <4>1
    <3>2. CASE ~s.parent /\ d = c
      <4>1. C(L, c) > quotas[c]
        BY <1>5, <1>10, <3>2
      <4>2. C(K, c) >= C(L, c) - 1 /\ C(K, c) \in Nat /\ C(L, c) \in Nat /\ quotas[c] \in Nat
        BY <1>2, <1>4, <2>1
      <4> QED
        BY <4>1, <4>2
    <3> QED
      BY <3>1, <3>2
  <2>3. ASSUME NEW p \in 1..Len(e), NEW q \in 1..Len(e), p < q, ~e[p].parent, ~e[q].parent,
               CollectionOf(e[p]) = CollectionOf(e[q]), e[q] \in K
        PROVE  e[p] \in K
    <3>1. e[q] \in L /\ e[p] \in L
      BY <2>1, <2>3 DEF Closed
    <3>2. p # at
      <4>1. SUFFICES ASSUME p = at PROVE FALSE
        OBVIOUS
      <4>2. q > Len(e) - (n - 1)
        BY <1>1, <2>3, <4>1
      <4>3. C(L, d) <= quotas[d] /\ ~s.parent
        BY <1>7, <2>3, <3>1, <4>1, <4>2 DEF d, s
      <4>4. C(L, d) > quotas[d]
        BY <1>5, <1>10, <4>3
      <4>5. C(L, d) \in Nat /\ quotas[d] \in Nat
        BY <1>1, <1>2, <1>3, <1>4 DEF d
      <4> QED
        BY <4>3, <4>4, <4>5
    <3>3. e[p] # s
      BY <1>1, <3>2 DEF s
    <3> QED
      BY <2>1, <3>1, <3>3
  <2>4. ASSUME NEW p \in 1..Len(e), p > Len(e) - n, e[p] \in K
        PROVE  ~e[p].parent /\ C(K, CollectionOf(e[p])) <= quotas[CollectionOf(e[p])]
    <3>1. p # at /\ e[p] \in L
      BY <2>1, <2>4 DEF s
    <3>2. ~e[p].parent /\ C(L, CollectionOf(e[p])) <= quotas[CollectionOf(e[p])]
      BY <1>7, <1>9, <2>4, <3>1
    <3>3. quotas[CollectionOf(e[p])] \in Nat
      BY <1>2, <1>3, SeqItems
    <3>4. /\ C(K, CollectionOf(e[p])) <= C(L, CollectionOf(e[p]))
          /\ C(K, CollectionOf(e[p])) \in Nat /\ C(L, CollectionOf(e[p])) \in Nat
      BY <1>4, <2>1
    <3> QED
      BY <3>2, <3>3, <3>4
  <2> QED
    BY <2>2, <2>3, <2>4 DEF Owed, Closed, Stuck, C
<1>11. CASE ~Spare(L, s, quotas)
  <2>1. K = L /\ ~s.parent /\ ~(C(L, d) > quotas[d])
    BY <1>5, <1>6, <1>11
  <2>2. C(L, d) <= quotas[d]
    <3>1. C(L, d) \in Nat /\ quotas[d] \in Nat
      BY <1>1, <1>2, <1>3, <1>4 DEF d
    <3> QED
      BY <2>1, <3>1
  <2>3. Stuck(K, e, n, quotas)
    <3>1. \A p \in 1..Len(e) : p > Len(e) - n /\ e[p] \in L
            => ~e[p].parent /\ C(L, CollectionOf(e[p])) <= quotas[CollectionOf(e[p])]
      BY <1>7, <1>9, <2>1, <2>2 DEF d, s
    <3> QED
      BY <2>1, <3>1 DEF Stuck, C
  <2> QED
    BY <2>1, <2>3
<1> QED
  BY <1>10, <1>11

LEMMA PassingAreHits ==
  ASSUME NEW e, NEW T, NEW d
  PROVE  /\ Of(Passing(e, T), d) \subseteq Hits(ToSet(e), d)
         /\ \A s : s \in Of(Passing(e, T), d) <=> s \in Hits(ToSet(e), d) /\ s.score >= T
  BY DEF Of, Passing, Hits

LEMMA EnvelopeInvariant ==
  ASSUME NEW e, Neat(e), NEW quotas \in [Collections -> Nat], NEW T \in Nat,
         Sufficient(e, quotas, T),
         NEW f, Trims(f, e), EnvelopeTurns(f, e, quotas)
  PROVE  \A n \in 0..Len(e) :
           /\ Neat(f[n]) /\ ToSet(f[n]) \subseteq ToSet(e)
           /\ Owed(ToSet(f[n]), quotas) /\ Closed(ToSet(f[n]), e)
           /\ Tokens(f[n]) > EnvelopeBudget => Stuck(ToSet(f[n]), e, n, quotas)
<1> DEFINE N == Len(e)
           at(n) == N + 1 - n
           L(n) == ToSet(f[n])
           Over(n) == Tokens(f[n]) > EnvelopeBudget
           Good(n) == /\ L(n) \subseteq ToSet(e) /\ Owed(L(n), quotas) /\ Closed(L(n), e)
                      /\ Over(n) => Stuck(L(n), e, n, quotas)
           P == {n \in 0..N : Good(n)}
<1>1. /\ e \in Seq(Item) /\ N \in Nat /\ ToSet(e) = {e[p] : p \in 1..N} /\ ToSet(e) \subseteq Item
      /\ \A p \in 1..N : e[p] \in Item
  BY SeqItems DEF Neat
<1>2. \A p, q \in 1..N : e[p] = e[q] => p = q
  BY DEF Neat, Distinct
<1>3. \A n \in 0..N : Neat(f[n])
  BY TrimsNeat
<1>4. 0 \in P
  <2>1. f[0] = e /\ L(0) = ToSet(e)
    BY <1>1 DEF Trims
  <2>2. Owed(L(0), quotas)
    <3> SUFFICES ASSUME NEW d \in Collections PROVE Cardinality(Hits(ToSet(e), d)) >= quotas[d]
      BY <2>1 DEF Owed
    <3> DEFINE A == Of(Passing(e, T), d)
               B == Hits(ToSet(e), d)
    <3>1. Cardinality(A) >= quotas[d] /\ quotas[d] \in Nat
      BY DEF Sufficient
    <3>2. A \in SUBSET B /\ B \in SUBSET ToSet(e)
      BY PassingAreHits DEF Hits, Of
    <3>3. IsFiniteSet(ToSet(e))
      BY <1>1, SeqIsFinite
    <3> HIDE DEF A, B
    <3>4. IsFiniteSet(B) /\ Cardinality(B) \in Nat
      BY <3>2, <3>3, FS_Subset, FS_CardinalityType
    <3>5. Cardinality(A) <= Cardinality(B) /\ Cardinality(A) \in Nat
      BY <3>2, <3>4, FS_Subset, FS_CardinalityType
    <3>6. Cardinality(B) >= quotas[d]
      BY <3>1, <3>4, <3>5
    <3> QED
      BY <3>6 DEF B
  <2>3. Closed(L(0), e)
    BY <1>1, <2>1 DEF Closed
  <2>4. Stuck(L(0), e, 0, quotas)
    BY <1>1 DEF Stuck
  <2> QED
    BY <1>1, <2>1, <2>2, <2>3, <2>4
<1>5. ASSUME NEW n \in 1..N, n - 1 \in P PROVE n \in P
  <2> DEFINE s == e[at(n)]
  <2>0. n - 1 \in 0..N /\ at(n) \in 1..N /\ n \in 0..N
    BY <1>1
  <2>1. /\ f[n - 1] \in Seq(Item) /\ Len(f[n - 1]) \in (N - (n - 1))..N
        /\ \A p \in 1..(N - (n - 1)) : f[n - 1][p] = e[p]
    BY <1>1, <2>0, TrimsParts
  <2>2. f[n - 1][at(n)] = s /\ s \in L(n - 1) /\ at(n) \in 1..Len(f[n - 1])
    <3>1. at(n) \in 1..(N - (n - 1)) /\ at(n) \in 1..Len(f[n - 1])
      BY <1>1, <2>1
    <3>2. f[n - 1][at(n)] = s
      BY <2>1, <3>1
    <3>3. f[n - 1][at(n)] \in L(n - 1)
      BY <2>1, <3>1, SeqItems
    <3> QED
      BY <3>1, <3>2, <3>3
  <2>3. f[n] = IF Over(n - 1) /\ Spare(L(n - 1), s, quotas)
               THEN RemoveAt(f[n - 1], at(n)) ELSE f[n - 1]
    <3>1. f[n] = IF n = 0 THEN e
                 ELSE IF /\ Tokens(f[n - 1]) > EnvelopeBudget
                         /\ Spare(ToSet(f[n - 1]), f[n - 1][at(n)], quotas)
                      THEN RemoveAt(f[n - 1], at(n)) ELSE f[n - 1]
      BY <2>0 DEF EnvelopeTurns
    <3> HIDE DEF at
    <3>2. n # 0
      OBVIOUS
    <3> QED
      BY <2>2, <3>1, <3>2
  <2>4. /\ L(n - 1) \subseteq ToSet(e) /\ Owed(L(n - 1), quotas) /\ Closed(L(n - 1), e)
        /\ Over(n - 1) => Stuck(L(n - 1), e, n - 1, quotas)
    BY <1>5
  <2>5. CASE ~Over(n - 1)
    <3>1. f[n] = f[n - 1]
      BY <2>3, <2>5
    <3>2. Good(n)
      BY <2>4, <2>5, <3>1
    <3> HIDE DEF Good
    <3> QED
      BY <2>0, <3>2
  <2>6. CASE Over(n - 1)
    <3>1. L(n) = IF Spare(L(n - 1), s, quotas) THEN L(n - 1) \ {s} ELSE L(n - 1)
      <4>1. ToSet(RemoveAt(f[n - 1], at(n))) = L(n - 1) \ {s}
        BY <1>3, <2>0, <2>2, RemoveAtNeat
      <4> HIDE DEF at, s
      <4> QED
        BY <2>3, <2>6, <4>1
    <3>2. IsFiniteSet(L(n - 1)) /\ L(n - 1) \subseteq Item
      BY <1>1, <2>1, <2>4, SeqIsFinite
    <3>3. Owed(L(n), quotas) /\ Closed(L(n), e) /\ Stuck(L(n), e, n, quotas)
      <4> DEFINE A == L(n - 1)
                 K == L(n)
      <4>1. /\ A \subseteq Item /\ IsFiniteSet(A) /\ e[Len(e) + 1 - n] \in A
            /\ Owed(A, quotas) /\ Closed(A, e) /\ Stuck(A, e, n - 1, quotas)
            /\ K = IF Spare(A, e[Len(e) + 1 - n], quotas) THEN A \ {e[Len(e) + 1 - n]} ELSE A
            /\ \A p, q \in 1..Len(e) : e[p] = e[q] => p = q
            /\ n \in 1..Len(e) /\ e \in Seq(Item)
        BY <1>1, <1>2, <2>2, <2>4, <2>6, <3>1, <3>2
      <4>2. Owed(K, quotas) /\ Closed(K, e) /\ Stuck(K, e, n, quotas)
        <5> HIDE DEF A, K
        <5> QED
          BY <4>1, EnvelopeTurn
      <4> QED
        BY <4>2
    <3>4. L(n) \subseteq ToSet(e)
      BY <2>4, <3>1
    <3>5. Good(n)
      BY <3>3, <3>4
    <3> HIDE DEF Good
    <3> QED
      BY <2>0, <3>5
  <2> QED
    BY <2>5, <2>6
<1> HIDE DEF P
<1>6. \A n \in 0..N : n \in P
  <2> HIDE DEF N
  <2> QED
    BY <1>1, <1>4, <1>5, StepByStep
<1> QED
  BY <1>3, <1>6 DEF P

LEMMA SufficientPassing ==
  ASSUME NEW e, NEW quotas \in [Collections -> Nat], NEW T, Sufficient(e, quotas, T)
  PROVE  /\ Passing(e, T) # {}
         /\ \A d \in Collections :
              quotas[d] \in Nat /\ Cardinality(Of(Passing(e, T), d)) >= quotas[d]
  BY DEF Sufficient

\* The best chunk passes if any does.
LEMMA FirstPasses ==
  ASSUME NEW e, Neat(e), NEW T \in Nat, Passing(e, T) # {}
  PROVE  1 \in 1..Len(e) /\ ~e[1].parent /\ e[1].score >= T
<1>1. e \in Seq(Item) /\ Len(e) \in Nat /\ ToSet(e) = {e[p] : p \in 1..Len(e)} /\ Ordered(e)
  BY SeqItems DEF Neat
<1>2. PICK q \in 1..Len(e) : ~e[q].parent /\ e[q].score >= T
  BY <1>1 DEF Passing
<1>3. 1 \in 1..Len(e) /\ (q = 1 \/ 1 < q)
  BY <1>1
<1>4. e[1].score \in Nat /\ e[q].score \in Nat
  BY <1>1, <1>3, SeqItems, ItemFields
<1>5. 1 < q => ~e[1].parent /\ e[q].score <= e[1].score
  BY <1>1, <1>2, <1>3 DEF Ordered
<1> QED
  BY <1>2, <1>3, <1>4, <1>5

\* Trimming ends before the best chunk, unless it is alone and fits.
LEMMA FirstStays ==
  ASSUME NEW e, Neat(e), NEW quotas \in [Collections -> Nat], NEW T \in Nat,
         Sufficient(e, quotas, T), \A d \in Collections : quotas[d] = 0,
         NEW f, Trims(f, e), EnvelopeTurns(f, e, quotas)
  PROVE  e[1] \in ToSet(f[Len(e)])
<1> DEFINE N == Len(e)
           r == f[N - 1]
           L == ToSet(r)
<1>1. e \in Seq(Item) /\ N \in Nat
  BY SeqItems DEF Neat
<1>2. 1 \in 1..N /\ ~e[1].parent
  BY FirstPasses, SufficientPassing
<1>3. N - 1 \in 0..N /\ N - (N - 1) = 1 /\ N # 0 /\ N \in 0..N /\ N + 1 - N = 1
  BY <1>1, <1>2
<1>4. r \in Seq(Item) /\ Len(r) \in 1..N /\ r[1] = e[1] /\ e[1] \in L
  <2>1. /\ r \in Seq(Item) /\ Len(r) \in (N - (N - 1))..N
        /\ \A p \in 1..(N - (N - 1)) : r[p] = e[p]
    BY <1>1, <1>3, TrimsParts
  <2>2. r \in Seq(Item) /\ Len(r) \in 1..N /\ r[1] = e[1] /\ 1 \in 1..Len(r)
    BY <1>1, <1>3, <2>1
  <2> HIDE DEF r
  <2> QED
    BY <2>2, SeqItems
<1>5. /\ Neat(r) /\ L \subseteq ToSet(e)
      /\ Tokens(r) > EnvelopeBudget => Stuck(L, e, N - 1, quotas)
  BY <1>3, EnvelopeInvariant
<1>6. f[N] = IF Tokens(r) > EnvelopeBudget /\ Spare(L, r[1], quotas)
             THEN RemoveAt(r, 1) ELSE r
  <2>1. f[N] = IF N = 0 THEN e
               ELSE IF /\ Tokens(f[N - 1]) > EnvelopeBudget
                       /\ Spare(ToSet(f[N - 1]), f[N - 1][N + 1 - N], quotas)
                    THEN RemoveAt(f[N - 1], N + 1 - N) ELSE f[N - 1]
    BY <1>3 DEF EnvelopeTurns
  <2> QED
    BY <1>3, <2>1
<1>7. ASSUME Tokens(r) > EnvelopeBudget PROVE FALSE
  <2>1. Stuck(L, e, N - 1, quotas)
    BY <1>5, <1>7
  <2>2. \A p \in 1..N : p > 1 => e[p] \notin L
    <3> SUFFICES ASSUME NEW p \in 1..N, p > 1, e[p] \in L PROVE FALSE
      OBVIOUS
    <3> DEFINE d == CollectionOf(e[p])
               A == Hits(L, d)
    <3>1. d \in Collections
      BY <1>1, SeqItems, ItemFields DEF Collections, CollectionOf
    <3>2. p > N - (N - 1)
      BY <1>3
    <3>3. ~e[p].parent /\ Cardinality(A) <= quotas[d]
      BY <2>1, <3>2 DEF Stuck
    <3>4. e[p] \in A /\ A \in SUBSET L
      BY <3>3 DEF Hits, Of, CollectionOf
    <3>5. IsFiniteSet(L)
      BY <1>4, SeqIsFinite
    <3> HIDE DEF A, d, L
    <3>6. IsFiniteSet(A) /\ Cardinality(A) \in Nat /\ (Cardinality(A) = 0 => A = {})
      BY <3>4, <3>5, FS_Subset, FS_CardinalityType, FS_EmptySet
    <3>7. Cardinality(A) <= 0
      BY <3>1, <3>3
    <3> QED
      BY <3>4, <3>6, <3>7
  <2>3. L = {e[1]}
    <3>1. ToSet(e) = {e[p] : p \in 1..N} /\ \A p \in 1..N : p = 1 \/ p > 1
      BY <1>1, SeqItems
    <3> HIDE DEF L, N
    <3> QED
      BY <1>4, <1>5, <2>2, <3>1
  <2>4. Len(r) = 1
    <3>1. \A p \in 1..Len(r) : r[p] = r[1]
      BY <1>4, <2>3, SeqItems
    <3>2. Distinct(r) /\ Len(r) \in Nat
      BY <1>4, <1>5, SeqItems DEF Neat
    <3> HIDE DEF r
    <3>3. 1 \in 1..Len(r) /\ Len(r) \in 1..Len(r)
      BY <1>4, <3>2
    <3> QED
      BY <3>1, <3>2, <3>3 DEF Distinct
  <2>5. Tokens(r) = Size[r[1].chunk] /\ Size[r[1].chunk] <= EnvelopeBudget
    BY <1>4, <2>4, TokensOfOne
  <2>6. Size[r[1].chunk] \in 1..Budget /\ Budget \in Nat /\ EnvelopeBudget \in Nat
    <3>1. r[1].chunk \in Chunks
      BY <1>1, <1>2, <1>4, SeqItems, ItemFields
    <3> QED
      BY <3>1, EvidenceAssumption
  <2> HIDE DEF r
  <2> QED
    BY <1>7, <2>5, <2>6
<1>8. f[N] = r
  BY <1>6, <1>7
<1> QED
  BY <1>4, <1>8

\* What was judged sufficient is still sufficient when the envelope has been cut, for any evidence
\* in order, any quotas and any threshold: the cut spares what a quota needs and the best chunk
\* (envelope.py).
THEOREM EnvelopeKeeps ==
  ASSUME NEW e, Neat(e), NEW quotas \in [Collections -> Nat], NEW T \in Nat,
         Sufficient(e, quotas, T)
  PROVE  LET shown == Envelope(e, quotas)
         IN  Neat(shown) /\ ToSet(shown) \subseteq ToSet(e) /\ Sufficient(shown, quotas, T)
<1> DEFINE N == Len(e)
           shown == Envelope(e, quotas)
           L == ToSet(shown)
<1>1. /\ e \in Seq(Item) /\ N \in Nat /\ ToSet(e) = {e[p] : p \in 1..N}
      /\ \A p \in 1..N : e[p] \in Item
  BY SeqItems DEF Neat
<1>2. PICK f : Trims(f, e) /\ EnvelopeTurns(f, e, quotas) /\ shown = f[N]
  BY <1>1, EnvelopeRuns
<1>3. Neat(shown) /\ L \subseteq ToSet(e) /\ Owed(L, quotas) /\ Closed(L, e)
  <2>1. N \in 0..N
    BY <1>1
  <2> HIDE DEF shown
  <2> QED
    BY <1>2, <2>1, EnvelopeInvariant
<1> HIDE DEF shown
<1>4. ASSUME NEW d \in Collections
      PROVE  Cardinality(Of(Passing(shown, T), d)) >= quotas[d]
  <2> DEFINE A == Of(Passing(shown, T), d)
             B == Of(Passing(e, T), d)
             H == Hits(L, d)
  <2>1. Cardinality(H) >= quotas[d] /\ Cardinality(B) >= quotas[d]
    BY <1>3, SufficientPassing DEF Owed
  <2>2. CASE \A s \in H : s.score >= T
    <3>1. A = H
      BY <2>2, PassingAreHits
    <3>2. Cardinality(A) >= quotas[d]
      <4> HIDE DEF A, H
      <4> QED
        BY <2>1, <3>1
    <3> QED
      BY <3>2
  <2>3. CASE ~(\A s \in H : s.score >= T)
    <3>1. PICK s \in H : ~(s.score >= T)
      BY <2>3
    <3>2. s \in L /\ ~s.parent /\ CollectionOf(s) = d
      BY <3>1 DEF Hits, Of, CollectionOf
    <3>3. PICK q \in 1..N : e[q] = s
      BY <1>1, <1>3, <3>2
    <3>4. ASSUME NEW t \in B PROVE t \in A
      <4>1. t \in ToSet(e) /\ ~t.parent /\ CollectionOf(t) = d /\ t.score >= T
        BY <3>4 DEF Of, Passing, CollectionOf
      <4>2. PICK p \in 1..N : e[p] = t
        BY <1>1, <4>1
      <4>3. e[p].score \in Nat /\ e[q].score \in Nat
        BY <1>1, ItemFields
      <4>4. p # q
        BY <3>1, <3>3, <4>1, <4>2
      <4>5. ~(q < p)
        <5>1. q < p => e[p].score <= e[q].score
          BY <4>1, <4>2 DEF Neat, Ordered
        <5> QED
          BY <3>1, <3>3, <4>1, <4>2, <4>3, <5>1
      <4>6. p < q
        BY <1>1, <4>4, <4>5
      <4>7. t \in L
        BY <1>3, <3>2, <3>3, <4>1, <4>2, <4>6 DEF Closed
      <4> QED
        BY <4>1, <4>7 DEF Of, Passing, CollectionOf
    <3>5. A \in SUBSET L /\ IsFiniteSet(L)
      BY <1>3, SeqIsFinite DEF Of, Passing, Neat
    <3>6. B \in SUBSET A
      BY <3>4
    <3> HIDE DEF A, B
    <3>7. IsFiniteSet(A) /\ Cardinality(A) \in Nat
      BY <3>5, FS_Subset, FS_CardinalityType
    <3>8. Cardinality(B) <= Cardinality(A) /\ Cardinality(B) \in Nat
      BY <3>6, <3>7, FS_Subset, FS_CardinalityType
    <3>9. quotas[d] \in Nat /\ Cardinality(B) >= quotas[d]
      BY <2>1
    <3>10. Cardinality(A) >= quotas[d]
      BY <3>7, <3>8, <3>9
    <3> QED
      BY <3>10 DEF A
  <2> QED
    BY <2>2, <2>3
<1>5. Passing(shown, T) # {}
  <2>1. CASE \A d \in Collections : quotas[d] = 0
    <3>1. e[1] \in L
      BY <1>2, <2>1, FirstStays
    <3>2. ~e[1].parent /\ e[1].score >= T
      BY FirstPasses, SufficientPassing
    <3> QED
      BY <3>1, <3>2 DEF Passing
  <2>2. CASE ~(\A d \in Collections : quotas[d] = 0)
    <3>1. PICK d \in Collections : quotas[d] # 0
      BY <2>2
    <3>2. Cardinality(Of(Passing(shown, T), d)) >= quotas[d] /\ quotas[d] \in Nat
      BY <1>4
    <3>3. ASSUME Passing(shown, T) = {} PROVE FALSE
      <4>1. Of(Passing(shown, T), d) = {}
        BY <3>3 DEF Of
      <4>2. Cardinality(Of(Passing(shown, T), d)) = 0
        BY <4>1, FS_EmptySet
      <4> QED
        BY <3>1, <3>2, <4>2
    <3> QED
      BY <3>3
  <2> QED
    BY <2>1, <2>2
<1>6. Sufficient(shown, quotas, T)
  BY <1>4, <1>5 DEF Sufficient
<1> QED
  BY <1>3, <1>6 DEF shown

----------------------------------------------------------------------------
(* Routing. *)

\* The state forbids a product only while none is in focus.
Speaks(q) == q.focus \/ q.state \in ProductStates

\* The last rule matches; a rule's quotas are of the corpus's collections.
LEMMA RouteIsOpen ==
  ASSUME NEW q
  PROVE  /\ Route(q).quotas \in [Collections -> Nat]
         /\ Route(q).collections \subseteq Collections
         /\ "product" \in Route(q).collections => Speaks(q)
<1> DEFINE M(r) == Matches(r, q)
           I == {i \in 1..Len(Rules) : M(Rules[i])}
           n == SelectInSeq(Rules, M)
<1>1. Len(Rules) \in I /\ DOMAIN Rules = 1..Len(Rules)
  BY EvidenceAssumption DEF Matches
<1>2. n \in I
  <2>1. n = Min(I)
    BY <1>1 DEF SelectInSeq
  <2>2. \E x \in I : \A y \in I : x <= y
    <3>1. I \subseteq Nat /\ I # {}
      BY <1>1
    <3> HIDE DEF I
    <3> QED
      BY <3>1, NatHasLeast
  <2> HIDE DEF I, n
  <2> QED
    BY <2>1, <2>2 DEF Min
<1>3. /\ Rules[n].collections \subseteq Collections
      /\ Rules[n].quotas \in [Collections -> Nat]
  BY <1>1, <1>2, EvidenceAssumption
<1> DEFINE rule == Rules[n]
           gated == /\ "product" \in rule.collections /\ q.state \notin ProductStates /\ ~q.focus
           open == IF gated THEN rule.collections \ {"product"} ELSE rule.collections
<1>4. Route(q).quotas = rule.quotas /\ Route(q).collections = open
  BY DEF Route
<1> HIDE DEF n
<1> QED
  BY <1>3, <1>4 DEF Speaks

----------------------------------------------------------------------------
(* The invariant. *)

\* A recorded snapshot is what its manifest named, and Qdrant never holds more under its name.
CatalogInv ==
  /\ DOMAIN catalog = Snapshots /\ points \in [Snapshots -> SUBSET Chunks]
  /\ \A s \in Snapshots : catalog[s] # None =>
       /\ catalog[s].chunks \in Releases[s] /\ catalog[s].model \in EmbedModels
       /\ points[s] \subseteq catalog[s].chunks

\* The job only writes chunks of its manifest, to a snapshot that is not recorded.
BuildInv ==
  \/ build = Idle
  \/ /\ build \in [at : {"vectors", "upsert"}, snapshot : Snapshots, chunks : SUBSET Chunks,
                   todo : SUBSET Chunks, model : EmbedModels]
     /\ build.chunks \in Releases[build.snapshot] /\ build.todo \subseteq build.chunks
     /\ build.at = "upsert" =>
          catalog[build.snapshot] = None /\ points[build.snapshot] \subseteq build.chunks

\* What the service remembers as checked is complete, and stays so.
VerifiedInv ==
  /\ verified \subseteq Snapshots
  /\ \A s \in verified : catalog[s] # None /\ points[s] = catalog[s].chunks

\* The snapshots of a question are recorded, and a product's only where it may be spoken of.
Pinned(pins, q) ==
  \A s \in pins : /\ s \in Snapshots /\ catalog[s] # None
                  /\ Holds[s] = "product" => Speaks(q)

InPinned(c, pins) == \E s \in pins : c \in catalog[s].chunks

\* Each step of a question can rely on what the steps before it left.
AskInv ==
  /\ ask.at \in {"idle", "verify", "embed", "search", "score", "again", "gate", "done"}
  /\ ask.at \in {"verify", "embed", "search", "score", "again", "gate"} =>
       /\ {"at", "question", "quotas", "pins"} \subseteq DOMAIN ask
       /\ ask.quotas \in [Collections -> Nat] /\ Pinned(ask.pins, ask.question)
  /\ ask.at \in {"embed", "search", "score", "again", "gate"} => ask.pins \subseteq verified
  /\ ask.at \in {"search", "score", "again", "gate"} =>
       {"dense", "reranker"} \subseteq DOMAIN ask /\ ask.dense \in BOOLEAN
  /\ ask.at = "score" =>
       "pool" \in DOMAIN ask /\ \A c \in ask.pool : c \in Chunks /\ InPinned(c, ask.pins)
  /\ ask.at = "gate" =>
       /\ {"items", "scale"} \subseteq DOMAIN ask /\ ask.scale \in {"rerank", "bm25"}
       /\ Pool(ask.items)
       /\ \A i \in ask.items : i.scale = ask.scale /\ InPinned(i.chunk, ask.pins)
  /\ ask.at = "done" =>
       /\ ask.outcome \in {"answered", "abstained", "unavailable"}
       /\ ask.evidence \in Seq(Item) /\ ask.shown \in Seq(Item)
       /\ ask.outcome = "answered" =>
            /\ Pinned(ask.pins, ask.question)
            /\ \A i \in ToSet(ask.evidence) : InPinned(i.chunk, ask.pins)
            /\ AnswersAreEarned

ServedOK == served \in [embed : EmbedModels, rerank : RerankModels]

IInv == CatalogInv /\ BuildInv /\ VerifiedInv /\ AskInv /\ ServedOK

LEMMA InitInv ==
  ASSUME Init PROVE IInv
<1>1. /\ catalog \in [Snapshots -> {None} \union
           (UNION {[chunks : Releases[s], model : {served.embed}] : s \in Snapshots})]
      /\ DOMAIN catalog = Snapshots
  BY DEF Init
<1>2. served \in [embed : EmbedModels, rerank : RerankModels] /\ served.embed \in EmbedModels
  BY RetrievalAssumption DEF Init
<1>3. ASSUME NEW s \in Snapshots
      PROVE  /\ points[s] \subseteq Chunks
             /\ catalog[s] # None => /\ catalog[s].chunks \in Releases[s]
                                    /\ catalog[s].model \in EmbedModels
                                    /\ points[s] \subseteq catalog[s].chunks
  <2>1. CASE s \in Recorded
    <3>1. catalog[s] # None /\ catalog[s].chunks \in Releases[s] /\ points[s] = catalog[s].chunks
      BY <2>1 DEF Init
    <3>2. catalog[s].model \in EmbedModels
      BY <1>1, <1>2, <3>1
    <3>3. catalog[s].chunks \subseteq Chunks
      BY <3>1, RetrievalAssumption
    <3> QED
      BY <3>1, <3>2, <3>3
  <2>2. CASE s \notin Recorded
    BY <2>2 DEF Init
  <2> QED
    BY <2>1, <2>2
<1>4. CatalogInv
  <2>1. points = [s \in Snapshots |-> points[s]]
    BY DEF Init
  <2>2. points \in [Snapshots -> SUBSET Chunks]
    BY <1>3, <2>1
  <2> QED
    BY <1>1, <1>3, <2>2 DEF CatalogInv
<1>5. BuildInv /\ VerifiedInv /\ AskInv
  BY DEF Init, BuildInv, VerifiedInv, AskInv, Idle
<1> QED
  BY <1>2, <1>4, <1>5 DEF IInv, ServedOK

----------------------------------------------------------------------------
(* What happens around a question. *)

\* No step takes a recorded snapshot back or touches one the service has checked.
Steady ==
  /\ UNCHANGED retrieval
  /\ \A s \in Snapshots : catalog[s] # None => catalog'[s] = catalog[s]
  /\ \A s \in verified : points'[s] = points[s]

LEMMA SteadyKeeps ==
  ASSUME VerifiedInv, AskInv, Steady
  PROVE  VerifiedInv' /\ AskInv'
<1>1. ask' = ask /\ verified' = verified
  BY DEF Steady, retrieval
<1>2. VerifiedInv'
  BY <1>1 DEF VerifiedInv, Steady
<1>3. Pinned(ask.pins, ask.question) => Pinned(ask.pins, ask.question)'
  BY <1>1 DEF Pinned, Steady
<1>4. ASSUME NEW c, Pinned(ask.pins, ask.question), InPinned(c, ask.pins)
      PROVE  InPinned(c, ask.pins)'
  BY <1>1, <1>4 DEF Pinned, InPinned, Steady
<1>5. AnswersAreEarned => AnswersAreEarned'
  BY <1>1 DEF AnswersAreEarned, JudgedOnItsScale, EnoughIsShown, IsAnswer, Demanded
<1> DEFINE pinned == Pinned(ask.pins, ask.question)
           pinnedNext == Pinned(ask.pins, ask.question)'
           in(c) == InPinned(c, ask.pins)
           inNext(c) == InPinned(c, ask.pins)'
<1>6. pinned => pinnedNext /\ \A c : in(c) => inNext(c)
  BY <1>3, <1>4
<1>7. /\ ask.at \in {"verify", "embed", "search", "score", "again", "gate"} => pinned
      /\ ask.at = "score" => \A c \in ask.pool : c \in Chunks /\ in(c)
      /\ ask.at = "gate" => \A i \in ask.items : i.scale = ask.scale /\ in(i.chunk)
      /\ ask.at = "done" /\ ask.outcome = "answered" =>
           pinned /\ (\A i \in ToSet(ask.evidence) : in(i.chunk)) /\ AnswersAreEarned
  BY DEF AskInv
<1>8. /\ ask.at \in {"verify", "embed", "search", "score", "again", "gate"} => pinnedNext
      /\ ask.at = "score" => \A c \in ask.pool : c \in Chunks /\ inNext(c)
      /\ ask.at = "gate" => \A i \in ask.items : i.scale = ask.scale /\ inNext(i.chunk)
      /\ ask.at = "done" /\ ask.outcome = "answered" =>
           pinnedNext /\ (\A i \in ToSet(ask.evidence) : inNext(i.chunk)) /\ AnswersAreEarned'
  <2> HIDE DEF pinned, pinnedNext, in, inNext
  <2> QED
    BY <1>5, <1>6, <1>7
<1>9. AskInv'
  BY <1>1, <1>8 DEF AskInv
<1> QED
  BY <1>2, <1>9

LEMMA ReleasesAreChunks ==
  ASSUME NEW s \in Snapshots, NEW r \in Releases[s]
  PROVE  r \subseteq Chunks /\ \A c \in r : Collection[c] = Holds[s]
  BY RetrievalAssumption

LEMMA BuildSteps ==
  ASSUME IInv, Build
  PROVE  CatalogInv' /\ BuildInv' /\ Steady /\ ServedOK'
<1> USE DEF IInv, ServedOK
<1>1. PICK s \in Snapshots : Begins(s) \/ Works(s)
  BY DEF Build
<1>2. CASE Begins(s)
  <2>1. PICK chunks \in Releases[s] : StartBuild(s, chunks)
    BY <1>2 DEF Begins
  <2>2. /\ build' = [at |-> "vectors", snapshot |-> s, chunks |-> chunks, todo |-> chunks,
                    model |-> served.embed]
        /\ UNCHANGED <<points, catalog, served, retrieval>>
    BY <2>1 DEF StartBuild
  <2>3. chunks \subseteq Chunks /\ served.embed \in EmbedModels
    BY ReleasesAreChunks
  <2>4. CatalogInv' /\ Steady /\ ServedOK'
    BY <2>2 DEF CatalogInv, Steady, ServedOK
  <2>5. BuildInv'
    BY <2>2, <2>3 DEF BuildInv
  <2> QED
    BY <2>4, <2>5
<1>3. CASE Index(s)
  <2>1. build.at = "vectors" /\ build.snapshot = s /\ UNCHANGED <<catalog, served, retrieval>>
    BY <1>3 DEF Index
  <2>2. /\ build \in [at : {"vectors", "upsert"}, snapshot : Snapshots, chunks : SUBSET Chunks,
                     todo : SUBSET Chunks, model : EmbedModels]
        /\ build.chunks \in Releases[build.snapshot] /\ build.todo \subseteq build.chunks
    BY <2>1 DEF BuildInv, Idle
  <2>3. CASE catalog[s] # None
    <3>1. build' = Idle /\ points' = points
      BY <1>3, <2>3 DEF Index
    <3> QED
      BY <2>1, <3>1 DEF CatalogInv, BuildInv, Steady, ServedOK
  <2>4. CASE catalog[s] = None
    <3>1. points' = [points EXCEPT ![s] = {}] /\ build' = [build EXCEPT !.at = "upsert"]
      BY <1>3, <2>4 DEF Index
    <3>2. CatalogInv'
      BY <2>1, <2>4, <3>1 DEF CatalogInv
    <3>3. points'[s] = {}
      BY <3>1 DEF CatalogInv
    <3>4. BuildInv'
      BY <2>1, <2>2, <2>4, <3>1, <3>3 DEF BuildInv
    <3>5. Steady /\ ServedOK'
      BY <2>1, <2>4, <3>1 DEF Steady, ServedOK, VerifiedInv, CatalogInv
    <3> QED
      BY <3>2, <3>4, <3>5
  <2> QED
    BY <2>3, <2>4
<1>4. ASSUME NEW c \in Chunks, Upsert(s, c)
      PROVE  CatalogInv' /\ BuildInv' /\ Steady /\ ServedOK'
  <2>1. /\ build.at = "upsert" /\ build.snapshot = s /\ c \in build.todo
        /\ points' = [points EXCEPT ![s] = @ \union {c}]
        /\ build' = [build EXCEPT !.todo = @ \ {c}]
        /\ UNCHANGED <<catalog, served, retrieval>>
    BY <1>4 DEF Upsert
  <2>2. /\ build \in [at : {"vectors", "upsert"}, snapshot : Snapshots, chunks : SUBSET Chunks,
                     todo : SUBSET Chunks, model : EmbedModels]
        /\ build.chunks \in Releases[s] /\ build.todo \subseteq build.chunks
        /\ catalog[s] = None /\ points[s] \subseteq build.chunks
    BY <2>1 DEF BuildInv, Idle
  <2>3. points'[s] = points[s] \union {c} /\ points \in [Snapshots -> SUBSET Chunks]
    BY <2>1 DEF CatalogInv
  <2>4. CatalogInv'
    BY <2>1, <2>2, <2>3 DEF CatalogInv
  <2>5. BuildInv'
    BY <2>1, <2>2, <2>3 DEF BuildInv
  <2>6. Steady /\ ServedOK'
    BY <2>1, <2>2, <2>3 DEF Steady, ServedOK, VerifiedInv
  <2> QED
    BY <2>4, <2>5, <2>6
<1>5. CASE Record(s)
  <2>1. /\ build.at = "upsert" /\ build.snapshot = s /\ build' = Idle
        /\ UNCHANGED <<points, served, retrieval>>
        /\ IF Cardinality(points[s]) = Cardinality(build.chunks)
           THEN catalog' = [catalog EXCEPT ![s] = [chunks |-> build.chunks, model |-> build.model]]
           ELSE catalog' = catalog
    BY <1>5 DEF Record
  <2>2. /\ build.chunks \in Releases[s] /\ build.model \in EmbedModels
        /\ catalog[s] = None /\ points[s] \subseteq build.chunks
    BY <2>1 DEF BuildInv, Idle
  <2>3. CASE catalog' = catalog
    BY <2>1, <2>3 DEF CatalogInv, BuildInv, Steady, ServedOK
  <2>4. CASE catalog' = [catalog EXCEPT ![s] = [chunks |-> build.chunks, model |-> build.model]]
    <3>1. DOMAIN catalog' = Snapshots /\ catalog'[s] = [chunks |-> build.chunks, model |-> build.model]
      BY <2>4 DEF CatalogInv
    <3>2. catalog'[s].chunks = build.chunks /\ catalog'[s].model = build.model
      BY <3>1
    <3>3. \A t \in Snapshots : t # s => catalog'[t] = catalog[t]
      BY <2>4 DEF CatalogInv
    <3>4. CatalogInv'
      BY <2>1, <2>2, <3>1, <3>2, <3>3 DEF CatalogInv
    <3>5. Steady
      BY <2>1, <2>2, <3>3 DEF Steady, VerifiedInv
    <3> QED
      BY <2>1, <3>4, <3>5 DEF BuildInv, ServedOK
  <2> QED
    BY <2>1, <2>3, <2>4
<1> QED
  BY <1>1, <1>2, <1>3, <1>4, <1>5 DEF Works

LEMMA OtherWorldSteps ==
  ASSUME IInv, BuildFails \/ Redeploy \/ Lost
  PROVE  CatalogInv' /\ BuildInv' /\ Steady /\ ServedOK'
<1> USE DEF IInv, ServedOK
<1>1. CASE BuildFails
  BY <1>1 DEF BuildFails, CatalogInv, BuildInv, Steady, ServedOK
<1>2. CASE Redeploy
  BY <1>2 DEF Redeploy, CatalogInv, BuildInv, Steady, ServedOK
<1>3. CASE Lost
  <2>1. PICK s \in Snapshots, left \in SUBSET Chunks : Lose(s, left)
    BY <1>3 DEF Lost
  <2>2. /\ s \notin verified /\ catalog[s] # None /\ left \subseteq points[s]
        /\ points' = [points EXCEPT ![s] = left]
        /\ UNCHANGED <<catalog, build, served, retrieval>>
    BY <2>1 DEF Lose
  <2>3. points'[s] = left /\ \A t \in Snapshots : t # s => points'[t] = points[t]
    BY <2>2 DEF CatalogInv
  <2>4. CatalogInv'
    BY <2>2, <2>3 DEF CatalogInv
  <2>5. BuildInv'
    BY <2>2, <2>3 DEF BuildInv
  <2>6. Steady /\ ServedOK'
    BY <2>2, <2>3 DEF Steady, ServedOK, VerifiedInv
  <2> QED
    BY <2>4, <2>5, <2>6
<1> QED
  BY <1>1, <1>2, <1>3

----------------------------------------------------------------------------
(* The steps of a question. *)

LEMMA WorldStays ==
  ASSUME CatalogInv, BuildInv, ServedOK, UNCHANGED world
  PROVE  /\ CatalogInv' /\ BuildInv' /\ ServedOK'
         /\ catalog' = catalog /\ points' = points /\ served' = served
  BY DEF world, CatalogInv, BuildInv, ServedOK

\* What a step does not update, the question keeps.
LEMMA OnwardParts ==
  ASSUME NEW step, NEW update, Onward(step, update), "at" \in DOMAIN ask
  PROVE  /\ ask'.at = step /\ UNCHANGED world
         /\ DOMAIN ask' = DOMAIN ask \union DOMAIN update
         /\ \A f \in DOMAIN update : f # "at" => ask'[f] = update[f]
         /\ \A f \in DOMAIN ask : f # "at" /\ f \notin DOMAIN update => ask'[f] = ask[f]
  BY DEF Onward

\* The session's part of a question, which every step before the answer keeps.
Session ==
  /\ {"at", "question", "quotas", "pins"} \subseteq DOMAIN ask
  /\ ask.quotas \in [Collections -> Nat] /\ Pinned(ask.pins, ask.question)

LEMMA SessionStays ==
  ASSUME Session, NEW step, NEW update, Onward(step, update),
         DOMAIN update \cap {"at", "question", "quotas", "pins"} = {}
  PROVE  /\ Session' /\ ask'.at = step /\ ask'.pins = ask.pins /\ UNCHANGED world
         /\ DOMAIN ask' = DOMAIN ask \union DOMAIN update
         /\ \A f \in DOMAIN update : ask'[f] = update[f]
         /\ \A f \in DOMAIN ask : f # "at" /\ f \notin DOMAIN update => ask'[f] = ask[f]
         /\ \A c : InPinned(c, ask.pins)' <=> InPinned(c, ask.pins)
<1>1. /\ ask'.at = step /\ UNCHANGED world
      /\ DOMAIN ask' = DOMAIN ask \union DOMAIN update
      /\ \A f \in DOMAIN update : f # "at" => ask'[f] = update[f]
      /\ \A f \in DOMAIN ask : f # "at" /\ f \notin DOMAIN update => ask'[f] = ask[f]
  BY OnwardParts DEF Session
<1>2. ask'.pins = ask.pins /\ ask'.quotas = ask.quotas /\ ask'.question = ask.question
  BY <1>1 DEF Session
<1>3. catalog' = catalog
  BY <1>1 DEF world
<1>4. Session'
  BY <1>1, <1>2, <1>3 DEF Session, Pinned
<1>5. \A c : InPinned(c, ask.pins)' <=> InPinned(c, ask.pins)
  BY <1>2, <1>3 DEF InPinned
<1>6. \A f \in DOMAIN update : ask'[f] = update[f]
  BY <1>1
<1> QED
  BY <1>1, <1>2, <1>4, <1>5, <1>6

LEMMA DoneKeeps ==
  ASSUME NEW outcome \in {"abstained", "unavailable"}, NEW q,
         ask' = [at |-> "done", outcome |-> outcome, evidence |-> <<>>, shown |-> <<>>, question |-> q]
  PROVE  AskInv'
<1>1. /\ ask'.at = "done" /\ ask'.outcome = outcome
      /\ ask'.evidence = <<>> /\ ask'.shown = <<>>
  OBVIOUS
<1>2. <<>> \in Seq(Item)
  OBVIOUS
<1> QED
  BY <1>1, <1>2 DEF AskInv

\* The chunks the pinned snapshots hold are the ones they were released with.
LEMMA FoundIsPinned ==
  ASSUME CatalogInv, VerifiedInv, ask.pins \subseteq verified
  PROVE  \A c \in Found : c \in Chunks /\ InPinned(c, ask.pins)
  BY DEF CatalogInv, VerifiedInv, Found, InPinned

\* What a search scored is a pool.
ScoredAs(pool, score, scale) ==
  {[chunk |-> c, score |-> score[c], scale |-> scale, parent |-> FALSE] : c \in pool}

LEMMA ScoredIsPool ==
  ASSUME NEW pool, pool \subseteq Chunks, NEW score \in [pool -> 0..MaxScore],
         NEW scale \in {"rerank", "bm25"}
  PROVE  /\ Pool(ScoredAs(pool, score, scale))
         /\ \A i \in ScoredAs(pool, score, scale) : i.scale = scale /\ i.chunk \in pool
<1> DEFINE items == ScoredAs(pool, score, scale)
<1> USE DEF ScoredAs
<1> DEFINE h == [c \in pool |-> [chunk |-> c, score |-> score[c], scale |-> scale, parent |-> FALSE]]
<1>1. /\ items \subseteq Item /\ \A a \in items : ~a.parent /\ a.scale = scale /\ a.chunk \in pool
      /\ \A a, b \in items : a.chunk = b.chunk => a = b
  <2>1. ASSUME NEW a \in items
        PROVE  /\ a \in Item /\ ~a.parent /\ a.scale = scale /\ a.chunk \in pool
               /\ a = [chunk |-> a.chunk, score |-> score[a.chunk], scale |-> scale, parent |-> FALSE]
    <3>1. PICK c \in pool :
            a = [chunk |-> c, score |-> score[c], scale |-> scale, parent |-> FALSE]
      OBVIOUS
    <3>2. score[c] \in 0..MaxScore /\ c \in Chunks
      OBVIOUS
    <3> QED
      BY <3>1, <3>2 DEF Item
  <2> QED
    BY <2>1
<1>2. h \in Surjection(pool, items)
  BY DEF Surjection
<1>3. IsFiniteSet(pool)
  BY EvidenceAssumption, FS_Subset
<1> HIDE DEF h
<1>4. IsFiniteSet(items)
  BY <1>2, <1>3, FS_Surjection
<1> QED
  BY <1>1, <1>4 DEF Pool

LEMMA BeginStep ==
  ASSUME IInv, NEW q, NEW pins \in [Collections -> Snapshots \union {None}], Begin(q, pins)
  PROVE  AskInv' /\ VerifiedInv' /\ UNCHANGED world
<1> DEFINE route == Route(q)
           chosen == {pins[d] : d \in route.collections}
           asked == [at |-> "verify", question |-> q, quotas |-> route.quotas, pins |-> chosen]
           ended(outcome) == [at |-> "done", outcome |-> outcome, evidence |-> <<>>, shown |-> <<>>,
                              question |-> q]
<1>1. /\ \A d \in Collections : pins[d] \in Pinnable(d)
      /\ UNCHANGED <<verified, world>>
      /\ ask' = IF route.abstains THEN ended("abstained")
                ELSE IF None \in chosen THEN ended("unavailable") ELSE asked
  BY DEF Begin
<1>2. /\ route.quotas \in [Collections -> Nat] /\ route.collections \subseteq Collections
      /\ "product" \in route.collections => Speaks(q)
  BY RouteIsOpen
<1>3. VerifiedInv'
  BY <1>1 DEF IInv, VerifiedInv, world
<1> HIDE DEF route
<1>4. CASE ask' = asked /\ None \notin chosen
  <2>1. ASSUME NEW s \in chosen
        PROVE  /\ s \in Snapshots /\ catalog[s] # None
               /\ Holds[s] = "product" => Speaks(q)
    <3>1. PICK d \in route.collections : s = pins[d]
      OBVIOUS
    <3>2. s \in Pinnable(d) /\ s # None
      BY <1>1, <1>2, <1>4, <3>1
    <3>3. s \in Snapshots /\ Holds[s] = d /\ catalog[s] # None
      BY <3>2 DEF Pinnable
    <3> QED
      BY <1>2, <3>1, <3>3
  <2>2. /\ ask'.at = "verify" /\ ask'.question = q /\ ask'.quotas = route.quotas
        /\ ask'.pins = chosen /\ DOMAIN ask' = {"at", "question", "quotas", "pins"}
    BY <1>4
  <2>3. Pinned(ask.pins, ask.question)'
    <3>1. catalog' = catalog
      BY <1>1 DEF world
    <3> HIDE DEF chosen
    <3> QED
      BY <2>1, <2>2, <3>1 DEF Pinned, Speaks
  <2>4. AskInv'
    <3> HIDE DEF chosen
    <3> QED
      BY <1>2, <2>2, <2>3 DEF AskInv
  <2> QED
    BY <1>1, <1>3, <2>4
<1>5. CASE ask' = ended("abstained") \/ ask' = ended("unavailable")
  <2>1. AskInv'
    BY <1>5, DoneKeeps
  <2> QED
    BY <1>1, <1>3, <2>1
<1> QED
  BY <1>1, <1>4, <1>5

LEMMA VerifyStep ==
  ASSUME IInv, NEW ok, Verify(ok)
  PROVE  AskInv' /\ VerifiedInv' /\ UNCHANGED world
<1>1. /\ ask.at = "verify" /\ ok \subseteq ask.pins \ verified
      /\ \A s \in ok : Cardinality(points[s]) = Cardinality(catalog[s].chunks)
      /\ verified' = verified \union ok
      /\ IF ask.pins \subseteq verified \union ok
         THEN Onward("embed", <<>>)
         ELSE ask' = Done("unavailable") /\ UNCHANGED world
  BY DEF Verify
<1>2. Session
  BY <1>1 DEF IInv, AskInv, Session
<1>3. UNCHANGED world
  BY <1>1 DEF Onward
<1>4. ASSUME NEW s \in ok
      PROVE  s \in Snapshots /\ catalog[s] # None /\ points[s] = catalog[s].chunks
  <2>1. s \in Snapshots /\ catalog[s] # None
    BY <1>1, <1>2 DEF Session, Pinned
  <2>2. catalog[s].chunks \in Releases[s] /\ points[s] \in SUBSET catalog[s].chunks
    BY <2>1 DEF IInv, CatalogInv
  <2>3. IsFiniteSet(catalog[s].chunks)
    BY <2>1, <2>2, ReleasesAreChunks, EvidenceAssumption, FS_Subset
  <2>4. Cardinality(points[s]) = Cardinality(catalog[s].chunks)
    BY <1>1
  <2>5. points[s] = catalog[s].chunks
    BY <2>2, <2>3, <2>4, FS_Subset
  <2> QED
    BY <2>1, <2>5
<1>5. VerifiedInv'
  BY <1>1, <1>3, <1>4 DEF IInv, VerifiedInv, world
<1>6. AskInv'
  <2>1. CASE ask.pins \subseteq verified \union ok
    <3>1. Onward("embed", <<>>) /\ DOMAIN <<>> = {}
      BY <1>1, <2>1
    <3>2. Session' /\ ask'.at = "embed" /\ ask'.pins = ask.pins
      BY <1>2, <3>1, SessionStays
    <3>3. ask'.pins \subseteq verified'
      BY <1>1, <2>1, <3>2
    <3> QED
      BY <3>2, <3>3 DEF AskInv, Session
  <2>2. CASE ~(ask.pins \subseteq verified \union ok)
    BY <1>1, <2>2, DoneKeeps DEF Done
  <2> QED
    BY <2>1, <2>2
<1> QED
  BY <1>3, <1>5, <1>6

LEMMA EmbedStep ==
  ASSUME IInv, NEW embedUp \in BOOLEAN, NEW rerankUp \in BOOLEAN, Embed(embedUp, rerankUp)
  PROVE  AskInv' /\ VerifiedInv' /\ UNCHANGED world
<1> DEFINE stale == embedUp /\ \E s \in ask.pins : catalog[s].model # served.embed
           update == [dense |-> embedUp, reranker |-> IF rerankUp THEN served.rerank ELSE None]
<1>1. /\ ask.at = "embed" /\ verified' = verified
      /\ IF stale THEN ask' = Done("unavailable") /\ UNCHANGED world ELSE Onward("search", update)
  BY DEF Embed
<1>2. Session /\ ask.pins \subseteq verified
  BY <1>1 DEF IInv, AskInv, Session
<1>3. UNCHANGED world
  BY <1>1 DEF Onward
<1>4. VerifiedInv'
  BY <1>1, <1>3 DEF IInv, VerifiedInv, world
<1>5. CASE stale
  BY <1>1, <1>3, <1>4, <1>5, DoneKeeps DEF Done
<1>6. CASE ~stale
  <2>1. Onward("search", update)
    BY <1>1, <1>6
  <2>2. DOMAIN update = {"dense", "reranker"} /\ update["dense"] = embedUp
    OBVIOUS
  <2> HIDE DEF update, stale
  <2>3. DOMAIN update \cap {"at", "question", "quotas", "pins"} = {}
    BY <2>2
  <2>4. /\ Session' /\ ask'.at = "search" /\ ask'.pins = ask.pins
        /\ DOMAIN ask' = DOMAIN ask \union DOMAIN update
        /\ \A f \in DOMAIN update : ask'[f] = update[f]
    BY <1>2, <2>1, <2>3, SessionStays
  <2>5. {"dense", "reranker"} \subseteq DOMAIN ask' /\ ask'["dense"] = embedUp
    BY <2>2, <2>4
  <2>6. AskInv'
    BY <1>1, <1>2, <2>4, <2>5 DEF AskInv, Session
  <2> QED
    BY <1>3, <1>4, <2>6
<1> QED
  BY <1>5, <1>6

LEMMA SearchStep ==
  ASSUME IInv, NEW pool, Search(pool)
  PROVE  AskInv' /\ VerifiedInv' /\ UNCHANGED world
<1> DEFINE update == [pool |-> pool, by |-> None]
<1>1. ask.at = "search" /\ pool \subseteq Found /\ verified' = verified /\ Onward("score", update)
  BY DEF Search
<1>2. /\ Session /\ ask.pins \subseteq verified
      /\ {"dense", "reranker"} \subseteq DOMAIN ask /\ ask.dense \in BOOLEAN
  BY <1>1 DEF IInv, AskInv, Session
<1>3. UNCHANGED world
  BY <1>1 DEF Onward
<1>4. VerifiedInv'
  BY <1>1, <1>3 DEF IInv, VerifiedInv, world
<1>5. DOMAIN update = {"pool", "by"} /\ update["pool"] = pool
  OBVIOUS
<1> HIDE DEF update
<1>6. DOMAIN update \cap {"at", "question", "quotas", "pins"} = {}
  BY <1>5
<1>7. /\ Session' /\ ask'.at = "score" /\ ask'.pins = ask.pins
      /\ DOMAIN ask' = DOMAIN ask \union DOMAIN update
      /\ \A f \in DOMAIN update : ask'[f] = update[f]
      /\ \A f \in DOMAIN ask : f # "at" /\ f \notin DOMAIN update => ask'[f] = ask[f]
      /\ \A c : InPinned(c, ask.pins)' <=> InPinned(c, ask.pins)
  BY <1>1, <1>2, <1>6, SessionStays
<1>8. /\ {"dense", "reranker", "pool"} \subseteq DOMAIN ask' /\ ask'["pool"] = pool
      /\ ask'["dense"] = ask["dense"]
  BY <1>2, <1>5, <1>7
<1>9. \A c \in pool : c \in Chunks /\ InPinned(c, ask.pins)'
  BY <1>1, <1>2, <1>7, FoundIsPinned DEF IInv
<1>10. AskInv'
  BY <1>1, <1>2, <1>7, <1>8, <1>9 DEF AskInv, Session
<1> QED
  BY <1>3, <1>4, <1>10

\* A question is ready for the gate when a search has scored it, on one scale.
LEMMA ToGate ==
  ASSUME IInv, Session, ask.pins \subseteq verified, verified' = verified,
         {"dense", "reranker"} \subseteq DOMAIN ask, ask.dense \in BOOLEAN,
         NEW update, Onward("gate", update),
         DOMAIN update \cap {"at", "question", "quotas", "pins", "dense"} = {},
         {"items", "scale"} \subseteq DOMAIN update,
         NEW pool, \A c \in pool : c \in Chunks /\ InPinned(c, ask.pins),
         NEW score \in [pool -> 0..MaxScore], NEW scale \in {"rerank", "bm25"},
         update["scale"] = scale,
         update["items"] = ScoredAs(pool, score, scale)
  PROVE  AskInv' /\ VerifiedInv' /\ UNCHANGED world
<1>1. DOMAIN update \cap {"at", "question", "quotas", "pins"} = {} /\ "dense" \notin DOMAIN update
  OBVIOUS
<1>2. /\ Session' /\ ask'.at = "gate" /\ ask'.pins = ask.pins /\ UNCHANGED world
      /\ DOMAIN ask' = DOMAIN ask \union DOMAIN update
      /\ \A f \in DOMAIN update : ask'[f] = update[f]
      /\ \A f \in DOMAIN ask : f # "at" /\ f \notin DOMAIN update => ask'[f] = ask[f]
      /\ \A c : InPinned(c, ask.pins)' <=> InPinned(c, ask.pins)
  BY <1>1, SessionStays
<1> DEFINE items == update["items"]
<1>3. Pool(items) /\ \A i \in items : i.scale = scale /\ i.chunk \in pool
  <2>1. pool \subseteq Chunks
    OBVIOUS
  <2> QED
    BY <2>1, ScoredIsPool
<1> HIDE DEF items
<1>4. /\ {"dense", "reranker", "items", "scale"} \subseteq DOMAIN ask'
      /\ ask'["items"] = items /\ ask'["scale"] = scale /\ ask'["dense"] = ask["dense"]
  BY <1>1, <1>2 DEF items
<1>5. \A i \in items : i.scale = scale /\ InPinned(i.chunk, ask.pins)'
  BY <1>2, <1>3
<1>6. AskInv'
  BY <1>2, <1>3, <1>4, <1>5 DEF AskInv, Session
<1>7. VerifiedInv'
  BY <1>2 DEF IInv, VerifiedInv, world
<1> QED
  BY <1>2, <1>6, <1>7

LEMMA RerankStep ==
  ASSUME IInv, NEW score, Rerank(score)
  PROVE  AskInv' /\ VerifiedInv' /\ UNCHANGED world
<1> DEFINE update == [items |-> Scored(score, "rerank"), scale |-> "rerank", by |-> served.rerank]
<1>1. /\ ask.at = "score" /\ score \in [ask.pool -> 0..MaxScore] /\ verified' = verified
      /\ Onward("gate", update)
  BY DEF Rerank
<1>2. /\ Session /\ ask.pins \subseteq verified
      /\ {"dense", "reranker"} \subseteq DOMAIN ask /\ ask.dense \in BOOLEAN
      /\ \A c \in ask.pool : c \in Chunks /\ InPinned(c, ask.pins)
  BY <1>1 DEF IInv, AskInv, Session
<1>3. /\ DOMAIN update = {"items", "scale", "by"} /\ update["scale"] = "rerank"
      /\ update["items"] = ScoredAs(ask.pool, score, "rerank")
  BY DEF Scored, ScoredAs
<1> HIDE DEF update
<1>4. /\ DOMAIN update \cap {"at", "question", "quotas", "pins", "dense"} = {}
      /\ {"items", "scale"} \subseteq DOMAIN update
  BY <1>3
<1> QED
  BY <1>1, <1>2, <1>3, <1>4, ToGate

LEMMA NoRerankStep ==
  ASSUME IInv, NoRerank
  PROVE  AskInv' /\ VerifiedInv' /\ UNCHANGED world
<1>1. ask.at = "score" /\ verified' = verified
  BY DEF NoRerank
<1>2. /\ Session /\ ask.pins \subseteq verified
      /\ {"dense", "reranker"} \subseteq DOMAIN ask /\ ask.dense \in BOOLEAN
      /\ \A c \in ask.pool : c \in Chunks /\ InPinned(c, ask.pins)
  BY <1>1 DEF IInv, AskInv, Session
<1>3. CASE ask.dense
  <2> DEFINE update == [reranker |-> None]
  <2>1. Onward("again", update)
    BY <1>3 DEF NoRerank
  <2>2. DOMAIN update = {"reranker"}
    OBVIOUS
  <2> HIDE DEF update
  <2>3. DOMAIN update \cap {"at", "question", "quotas", "pins"} = {}
    BY <2>2
  <2>4. /\ Session' /\ ask'.at = "again" /\ ask'.pins = ask.pins /\ UNCHANGED world
        /\ DOMAIN ask' = DOMAIN ask \union DOMAIN update
        /\ \A f \in DOMAIN ask : f # "at" /\ f \notin DOMAIN update => ask'[f] = ask[f]
    BY <1>2, <2>1, <2>3, SessionStays
  <2>5. {"dense", "reranker"} \subseteq DOMAIN ask' /\ ask'["dense"] = ask["dense"]
    BY <1>2, <2>2, <2>4
  <2>6. AskInv'
    BY <1>1, <1>2, <2>4, <2>5 DEF AskInv, Session
  <2>7. VerifiedInv'
    BY <1>1, <2>4 DEF IInv, VerifiedInv, world
  <2> QED
    BY <2>4, <2>6, <2>7
<1>4. CASE ~ask.dense
  <2>1. PICK score \in [ask.pool -> 0..MaxScore] :
          Onward("gate", [items |-> Scored(score, "bm25"), scale |-> "bm25", reranker |-> None])
    BY <1>4 DEF NoRerank
  <2> DEFINE update == [items |-> Scored(score, "bm25"), scale |-> "bm25", reranker |-> None]
  <2>2. /\ DOMAIN update = {"items", "scale", "reranker"} /\ update["scale"] = "bm25"
        /\ update["items"] = ScoredAs(ask.pool, score, "bm25")
        /\ Onward("gate", update)
    BY <2>1 DEF Scored, ScoredAs
  <2> HIDE DEF update
  <2>3. /\ DOMAIN update \cap {"at", "question", "quotas", "pins", "dense"} = {}
        /\ {"items", "scale"} \subseteq DOMAIN update
    BY <2>2
  <2> QED
    BY <1>1, <1>2, <2>2, <2>3, ToGate
<1> QED
  BY <1>3, <1>4

LEMMA SearchAgainStep ==
  ASSUME IInv, NEW pool, SearchAgain(pool)
  PROVE  AskInv' /\ VerifiedInv' /\ UNCHANGED world
<1>1. ask.at = "again" /\ pool \subseteq Found /\ verified' = verified
  BY DEF SearchAgain
<1>2. /\ Session /\ ask.pins \subseteq verified
      /\ {"dense", "reranker"} \subseteq DOMAIN ask /\ ask.dense \in BOOLEAN
  BY <1>1 DEF IInv, AskInv, Session
<1>3. \A c \in pool : c \in Chunks /\ InPinned(c, ask.pins)
  BY <1>1, <1>2, FoundIsPinned DEF IInv
<1>4. PICK score \in [pool -> 0..MaxScore] :
        Onward("gate", [pool |-> pool, scale |-> "bm25",
                       items |-> {[chunk |-> c, score |-> score[c], scale |-> "bm25",
                                   parent |-> FALSE] : c \in pool}])
  BY DEF SearchAgain
<1> DEFINE update == [pool |-> pool, scale |-> "bm25",
                      items |-> {[chunk |-> c, score |-> score[c], scale |-> "bm25",
                                  parent |-> FALSE] : c \in pool}]
<1>5. /\ DOMAIN update = {"items", "scale", "pool"} /\ update["scale"] = "bm25"
      /\ update["items"] = ScoredAs(pool, score, "bm25")
      /\ Onward("gate", update)
  BY <1>4 DEF ScoredAs
<1> HIDE DEF update
<1>6. /\ DOMAIN update \cap {"at", "question", "quotas", "pins", "dense"} = {}
      /\ {"items", "scale"} \subseteq DOMAIN update
  BY <1>5
<1> QED
  BY <1>1, <1>2, <1>3, <1>5, <1>6, ToGate

\* What the gate lets through is from the pinned snapshots, on its own scale, and stays enough in
\* the envelope.
LEMMA DecideStep ==
  ASSUME IInv, Decide
  PROVE  AskInv' /\ VerifiedInv' /\ UNCHANGED world
<1> DEFINE selected == Select(ask.items, ask.quotas)
           evidence == AddParents(selected, Found, ask.scale)
           shown == Envelope(evidence, ask.quotas)
           answer == [at |-> "done", outcome |-> "answered", evidence |-> evidence, shown |-> shown,
                      question |-> ask.question, pins |-> ask.pins, quotas |-> ask.quotas,
                      reranker |-> ask.reranker, by |-> ask.by, dense |-> ask.dense,
                      scale |-> ask.scale]
<1>1. /\ ask.at = "gate" /\ UNCHANGED <<verified, world>>
      /\ ask' = IF Defective THEN Done("unavailable")
                ELSE IF ~Sufficient(evidence, ask.quotas, Bar) THEN Done("abstained") ELSE answer
  BY DEF Decide
<1>2. /\ Session /\ ask.pins \subseteq verified /\ ask.dense \in BOOLEAN
      /\ ask.scale \in {"rerank", "bm25"} /\ Pool(ask.items)
      /\ \A i \in ask.items : i.scale = ask.scale /\ InPinned(i.chunk, ask.pins)
  BY <1>1 DEF IInv, AskInv, Session
<1>3. VerifiedInv'
  BY <1>1 DEF IInv, VerifiedInv, world
<1>4. CASE Defective \/ ~Sufficient(evidence, ask.quotas, Bar)
  <2>1. ask' = Done("unavailable") \/ ask' = Done("abstained")
    BY <1>1, <1>4
  <2>2. AskInv'
    BY <2>1, DoneKeeps DEF Done
  <2> QED
    BY <1>1, <1>3, <2>2
<1>5. CASE ~Defective /\ Sufficient(evidence, ask.quotas, Bar)
  <2>1. ask' = answer
    BY <1>1, <1>5
  <2>2. /\ ask'.at = "done" /\ ask'.outcome = "answered" /\ ask'.evidence = evidence
        /\ ask'.shown = shown /\ ask'.question = ask.question /\ ask'.pins = ask.pins
        /\ ask'.quotas = ask.quotas /\ ask'.reranker = ask.reranker /\ ask'.by = ask.by
        /\ ask'.dense = ask.dense /\ ask'.scale = ask.scale
    <3> HIDE DEF evidence, shown
    <3> QED
      BY <2>1
  <2>3. Neat(selected) /\ ToSet(selected) \subseteq ask.items
    BY <1>2, SelectIsNeat
  <2>4. \A c \in Found : c \in Chunks /\ InPinned(c, ask.pins)
    BY <1>2, FoundIsPinned DEF IInv
  <2>5. /\ Neat(evidence)
        /\ \A i \in ToSet(evidence) :
             i \in ToSet(selected) \/ (i.chunk \in Found /\ i.scale = ask.scale)
    <3>1. Found \subseteq Chunks
      BY <2>4
    <3> HIDE DEF selected
    <3> QED
      BY <1>2, <2>3, <3>1, AddParentsIsNeat
  <2>6. Bar \in Nat /\ ask.quotas \in [Collections -> Nat]
    <3>1. Threshold[ask.scale] \in Nat /\ DegradedFactor \in Nat
      BY <1>2, RetrievalAssumption
    <3> QED
      BY <1>2, <3>1 DEF Bar, Session
  <2> HIDE DEF evidence, selected
  <2>7. Neat(shown) /\ ToSet(shown) \subseteq ToSet(evidence) /\ Sufficient(shown, ask.quotas, Bar)
    BY <1>5, <2>5, <2>6, EnvelopeKeeps
  <2> HIDE DEF shown
  <2>8. \A i \in ToSet(evidence) : i.scale = ask.scale /\ InPinned(i.chunk, ask.pins)
    BY <1>2, <2>3, <2>4, <2>5
  <2>9. Demanded' = Bar
    BY <1>2, <2>2 DEF Demanded, Bar, Degraded
  <2>10. Passing(evidence, Bar) # {}
    BY <1>5 DEF Sufficient
  <2>11. JudgedOnItsScale'
    <3>1. ask.scale = "rerank" => ask.reranker = CalibratedFor
      BY <1>5 DEF Defective
    <3> QED
      BY <2>2, <2>8, <2>9, <2>10, <3>1 DEF JudgedOnItsScale
  <2>12. EnoughIsShown'
    BY <2>2, <2>7, <2>9 DEF EnoughIsShown
  <2>13. catalog' = catalog
    BY <1>1 DEF world
  <2>14. /\ Pinned(ask.pins, ask.question)'
         /\ \A i \in ToSet(evidence) : InPinned(i.chunk, ask.pins)'
    BY <1>2, <2>2, <2>8, <2>13 DEF Session, Pinned, InPinned
  <2>15. evidence \in Seq(Item) /\ shown \in Seq(Item)
    BY <2>5, <2>7 DEF Neat
  <2>16. AskInv'
    BY <2>2, <2>11, <2>12, <2>14, <2>15 DEF AskInv, AnswersAreEarned
  <2> QED
    BY <1>1, <1>3, <2>16
<1> QED
  BY <1>4, <1>5

LEMMA RetrieveStep ==
  ASSUME IInv, Retrieve
  PROVE  IInv'
<1>1. ASSUME AskInv' /\ VerifiedInv' /\ UNCHANGED world
      PROVE  IInv'
  BY <1>1, WorldStays DEF IInv
<1>2. CASE \E q \in Questions, pins \in [Collections -> Snapshots \union {None}] : Begin(q, pins)
  BY <1>1, <1>2, BeginStep
<1>3. CASE \E ok \in SUBSET Snapshots : Verify(ok)
  BY <1>1, <1>3, VerifyStep
<1>4. CASE \E embedUp, rerankUp \in BOOLEAN : Embed(embedUp, rerankUp)
  BY <1>1, <1>4, EmbedStep
<1>5. CASE \E pool \in SUBSET Chunks : Search(pool) \/ SearchAgain(pool)
  BY <1>1, <1>5, SearchStep, SearchAgainStep
<1>6. CASE ask.at = "score" /\ \E score \in [ask.pool -> 0..MaxScore] : Rerank(score)
  BY <1>1, <1>6, RerankStep
<1>7. CASE NoRerank
  BY <1>1, <1>7, NoRerankStep
<1>8. CASE Decide
  BY <1>1, <1>8, DecideStep
<1>9. CASE QdrantDown
  <2>1. ask' = Done("unavailable") /\ UNCHANGED <<verified, world>>
    BY <1>9 DEF QdrantDown, Unavailable
  <2>2. AskInv'
    BY <2>1, DoneKeeps DEF Done
  <2>3. VerifiedInv'
    BY <2>1 DEF IInv, VerifiedInv, world
  <2> QED
    BY <1>1, <2>1, <2>2, <2>3
<1>10. CASE Answered
  <2>1. ask' = Idle /\ UNCHANGED <<verified, world>>
    BY <1>10 DEF Answered
  <2>2. AskInv'
    BY <2>1 DEF AskInv, Idle
  <2>3. VerifiedInv'
    BY <2>1 DEF IInv, VerifiedInv, world
  <2> QED
    BY <1>1, <2>1, <2>2, <2>3
<1>11. CASE Restart
  <2>1. ask = Idle /\ ask' = Idle /\ verified' = {} /\ UNCHANGED world
    BY <1>11 DEF Restart
  <2> QED
    BY <1>1, <2>1 DEF AskInv, VerifiedInv, Idle
<1> QED
  BY <1>2, <1>3, <1>4, <1>5, <1>6, <1>7, <1>8, <1>9, <1>10, <1>11 DEF Retrieve

LEMMA NextInv ==
  ASSUME IInv, [Next]_vars
  PROVE  IInv'
<1>1. CASE Build \/ BuildFails \/ Redeploy \/ Lost
  BY <1>1, BuildSteps, OtherWorldSteps, SteadyKeeps DEF IInv
<1>2. CASE Retrieve
  BY <1>2, RetrieveStep
<1>3. CASE UNCHANGED vars
  <2>1. Steady /\ CatalogInv' /\ BuildInv' /\ ServedOK'
    BY <1>3 DEF vars, IInv, Steady, retrieval, CatalogInv, BuildInv, ServedOK
  <2> QED
    BY <2>1, SteadyKeeps DEF IInv
<1> QED
  BY <1>1, <1>2, <1>3 DEF Next

LEMMA SpecInv == Spec => []IInv
  BY InitInv, NextInv, PTL DEF Spec

----------------------------------------------------------------------------
(* The results. *)

\* Every state is typed: a question is in one of its steps, an answer's evidence and what is shown
\* of it are sequences of scored chunks, whatever was selected, added and trimmed.
THEOREM RetrievalTyped == Spec => []TypeOK
<1>1. IInv => TypeOK
  BY DEF IInv, CatalogInv, BuildInv, VerifiedInv, AskInv, ServedOK, TypeOK, Idle
<1> QED
  BY <1>1, SpecInv, PTL

\* Builds that fail and are rerun, lost points and restarts never come between an answer and the
\* released text: a snapshot checked once holds exactly its release, an answer quotes only the
\* session's snapshots, and a product's text only where products may be spoken of.
THEOREM AnswersAreFromReleases == Spec => []EvidenceIsReleased
<1>1. IInv => EvidenceIsReleased
  <2> SUFFICES ASSUME IInv PROVE EvidenceIsReleased
    OBVIOUS
  <2>1. \A s \in verified : points[s] = catalog[s].chunks
    BY DEF IInv, VerifiedInv
  <2>2. ASSUME IsAnswer, NEW i \in ToSet(ask.evidence)
        PROVE  /\ \E s \in ask.pins : i.chunk \in catalog[s].chunks
               /\ Collection[i.chunk] = "product" =>
                    ask.question.focus \/ ask.question.state \in ProductStates
    <3>1. Pinned(ask.pins, ask.question) /\ InPinned(i.chunk, ask.pins)
      BY <2>2 DEF IInv, AskInv, IsAnswer
    <3>2. PICK s \in ask.pins : i.chunk \in catalog[s].chunks
      BY <3>1 DEF InPinned
    <3>3. s \in Snapshots /\ catalog[s] # None /\ (Holds[s] = "product" => Speaks(ask.question))
      BY <3>1 DEF Pinned
    <3>4. catalog[s].chunks \in Releases[s]
      BY <3>3 DEF IInv, CatalogInv
    <3>5. Collection[i.chunk] = Holds[s]
      BY <3>2, <3>3, <3>4, ReleasesAreChunks
    <3> QED
      BY <3>2, <3>3, <3>5 DEF Speaks
  <2> QED
    BY <2>1, <2>2 DEF EvidenceIsReleased
<1> QED
  BY <1>1, SpecInv, PTL

\* Through every combination of outages, and for any corpus, quotas and budgets: an answer was
\* judged on the scale it was scored on, and what the envelope leaves of it would be judged
\* sufficient again.
THEOREM AnswersStayEarned == Spec => []AnswersAreEarned
<1>1. IInv => AnswersAreEarned
  BY DEF IInv, AskInv, AnswersAreEarned, JudgedOnItsScale, EnoughIsShown, IsAnswer
<1> QED
  BY <1>1, SpecInv, PTL

\* A recorded snapshot is immutable (assets.py:6): whatever is built, rerun or fails, no step
\* changes its row or adds a point under its id; the points can only be lost.
RecordedSnapshotsStay ==
  \A s \in Snapshots :
    catalog[s] # None => catalog'[s] = catalog[s] /\ points'[s] \subseteq points[s]

LEMMA BuildsLeaveTheRecorded ==
  ASSUME IInv, NEW t \in Snapshots, Begins(t) \/ Works(t)
  PROVE  RecordedSnapshotsStay
<1>0. points \in [Snapshots -> SUBSET Chunks] /\ DOMAIN catalog = Snapshots
  BY DEF IInv, CatalogInv
<1>1. CASE Begins(t)
  BY <1>1 DEF Begins, StartBuild, RecordedSnapshotsStay
<1>2. CASE Index(t)
  BY <1>0, <1>2 DEF Index, RecordedSnapshotsStay
<1>3. ASSUME build.at = "upsert", build.snapshot = t
      PROVE  catalog[t] = None
  BY <1>3 DEF IInv, BuildInv, Idle
<1>4. ASSUME NEW c \in Chunks, Upsert(t, c) PROVE RecordedSnapshotsStay
  BY <1>0, <1>3, <1>4 DEF Upsert, RecordedSnapshotsStay
<1>5. CASE Record(t)
  BY <1>0, <1>3, <1>5 DEF Record, RecordedSnapshotsStay
<1> QED
  BY <1>1, <1>2, <1>4, <1>5 DEF Works

\* The job's steps delete and write points only under ids without a row, and a row is written once.
THEOREM RecordedIsImmutable == Spec => [][RecordedSnapshotsStay]_vars
<1>1. ASSUME IInv, Next PROVE RecordedSnapshotsStay
  <2>0. points \in [Snapshots -> SUBSET Chunks]
    BY <1>1 DEF IInv, CatalogInv
  <2>1. CASE Build
    BY <1>1, <2>1, BuildsLeaveTheRecorded DEF Build
  <2>2. CASE BuildFails \/ Redeploy
    BY <2>2 DEF BuildFails, Redeploy, RecordedSnapshotsStay
  <2>3. CASE Lost
    <3>1. PICK s \in Snapshots, left \in SUBSET Chunks : Lose(s, left)
      BY <2>3 DEF Lost
    <3>2. catalog' = catalog /\ left \subseteq points[s] /\ points' = [points EXCEPT ![s] = left]
      BY <3>1 DEF Lose
    <3> QED
      BY <2>0, <3>2 DEF RecordedSnapshotsStay
  <2>4. CASE Retrieve
    <3>1. catalog' = catalog /\ points' = points
      BY <2>4 DEF Retrieve, Begin, Verify, Embed, Search, SearchAgain, Rerank, NoRerank, Decide,
                  QdrantDown, Unavailable, Answered, Restart, Onward, world
    <3> QED
      BY <3>1 DEF RecordedSnapshotsStay
  <2> QED
    BY <1>1, <2>1, <2>2, <2>3, <2>4 DEF Next
<1>2. IInv /\ [Next]_vars => [RecordedSnapshotsStay]_vars
  BY <1>1
<1> QED
  BY <1>2, SpecInv, PTL DEF Spec

=============================================================================

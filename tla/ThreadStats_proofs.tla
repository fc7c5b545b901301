------------------------- MODULE ThreadStats_proofs -------------------------
(***************************************************************************)
(* Proofs about the mean and median programs for every array size, number  *)
(* of runs, command line and file.                                         *)
(*                                                                         *)
(* The argument has three parts.  First, slices of different workers are   *)
(* disjoint, and a worker lives only between its creation and its join,    *)
(* when no thread that looks at the whole array exists (ControlInv): no    *)
(* two threads are at one cell.  Second, Count tells how many cells of a   *)
(* range hold a value of a given set.  A sorter permutes its cells and     *)
(* leaves the others alone (WriteBack), and merge keeps the counts and     *)
(* makes sorted of sorted (MergeAll), so that the array always has the     *)
(* numbers of the file (CountsInv) and a sorted part that grows (SortInv); *)
(* a sorted array has its median in the middle.  Third, the sum of a slice *)
(* is a difference of prefix sums, so the workers' sums add up (MeanInv).  *)
(*                                                                         *)
(* merge, the loops it consists of and FoldLeft are recursive functions.   *)
(* That they exist and do what is said of them is shown by least           *)
(* counterexamples (IntervalInduction, IterateExists, as in                *)
(* BankImpl_proofs).                                                       *)
(***************************************************************************)
EXTENDS ThreadStats, FiniteSetTheorems, SequenceTheorems, WellFoundedInduction, TLAPS

-----------------------------------------------------------------------------
(***************************************************************************)
(* Induction on a loop index.                                              *)
(***************************************************************************)

\* Induction from 0 to N, for the set of the indices something holds for.
LEMMA IntervalInduction ==
  ASSUME NEW N \in Nat, NEW P, 0 \in P, \A k \in 1 .. N : k - 1 \in P => k \in P
  PROVE  0 .. N \subseteq P
<1> DEFINE Bad == {k \in 0 .. N : k \notin P}
<1>1. SUFFICES ASSUME Bad # {} PROVE FALSE
  OBVIOUS
<1>2. PICK k \in Bad : \A j \in Bad : ~ (<<j, k>> \in OpToRel(<, Nat))
  <2>1. Bad \subseteq Nat
    OBVIOUS
  <2> HIDE DEF Bad
  <2>2. QED
    BY <1>1, <2>1, NatLessThanWellFounded, WFMin
<1>3. \A j \in 0 .. N : j < k => j \in P
  <2>1. \A j \in Nat : j < k => <<j, k>> \in OpToRel(<, Nat)
    <3>1. k \in Nat
      OBVIOUS
    <3> HIDE DEF Bad
    <3> QED BY <3>1, Zenon DEF OpToRel
  <2>2. \A j \in 0 .. N : j < k => <<j, k>> \in OpToRel(<, Nat)
    <3>1. \A j \in 0 .. N : j \in Nat
      OBVIOUS
    <3> HIDE DEF Bad
    <3> QED BY <2>1, <3>1, Zenon
  <2>3. QED
    BY <1>2, <2>2, Zenon
<1>4. k \in 1 .. N
  OBVIOUS
<1>5. k - 1 \in P
  BY <1>3, <1>4
<1>6. QED
  BY <1>4, <1>5

\* g is what a loop of N iterations of F makes of base.
Iterates(g, N, base, F) == g[0] = base /\ \A k \in 1 .. N : g[k] = F[<<g[k - 1], k>>]

\* There is such a function.
LEMMA IterateExists ==
  ASSUME NEW N \in Nat, NEW T, NEW base \in T, NEW F \in [T \X (1 .. N) -> T]
  PROVE  \E g \in [0 .. N -> T] : Iterates(g, N, base, F)
<1> USE DEF Iterates
<1> DEFINE Upto(m) == \E g \in [0 .. m -> T] : Iterates(g, m, base, F)
           P == {m \in 0 .. N : Upto(m)}
<1>1. Upto(0)
  <2> DEFINE g == [k \in 0 .. 0 |-> base]
  <2>1. g \in [0 .. 0 -> T] /\ g[0] = base
    OBVIOUS
  <2>2. \A k \in 1 .. 0 : g[k] = F[<<g[k - 1], k>>]
    OBVIOUS
  <2> HIDE DEF g
  <2>3. QED
    BY <2>1, <2>2
<1>2. ASSUME NEW m \in 1 .. N, Upto(m - 1) PROVE Upto(m)
  <2>1. PICK g \in [0 .. m - 1 -> T] :
          g[0] = base /\ \A k \in 1 .. m - 1 : g[k] = F[<<g[k - 1], k>>]
    BY <1>2
  <2> DEFINE h == [k \in 0 .. m |-> IF k = m THEN F[<<g[m - 1], m>>] ELSE g[k]]
  <2>2. h \in [0 .. m -> T] /\ h[0] = base
    BY <2>1
  <2>3. ASSUME NEW k \in 1 .. m PROVE h[k] = F[<<h[k - 1], k>>]
    <3>1. h[k - 1] = g[k - 1]
      OBVIOUS
    <3>2. CASE k = m
      BY <3>1, <3>2, SMTT(30)
    <3>3. CASE k # m
      <4>1. k \in 1 .. m - 1 /\ h[k] = g[k]
        BY <3>3
      <4>2. QED
        BY <2>1, <3>1, <4>1
    <3>4. QED
      BY <3>2, <3>3
  <2>4. QED
    BY <2>2, <2>3
<1>3. 0 .. N \subseteq P
  <2>1. 0 \in P /\ \A k \in 1 .. N : k - 1 \in P => k \in P
    <3> HIDE DEF Upto
    <3> QED BY <1>1, <1>2
  <2>2. QED
    <3> HIDE DEF P
    <3> QED BY <2>1, IntervalInduction
<1>4. Upto(N)
  <2> HIDE DEF Upto
  <2> QED BY <1>3
<1>5. QED
  BY <1>4

-----------------------------------------------------------------------------
(***************************************************************************)
(* Counting.                                                               *)
(***************************************************************************)

\* The cells a + 1 to b of s that hold a value of V, and their number.
Hits(s, V, a, b) == {k \in a + 1 .. b : s[k] \in V}
Count(s, V, a, b) == Cardinality(Hits(s, V, a, b))

\* The number is one.
LEMMA CountType ==
  ASSUME NEW s, NEW V, NEW a \in Int, NEW b \in Int
  PROVE  IsFiniteSet(Hits(s, V, a, b)) /\ Count(s, V, a, b) \in Nat
<1>1. Hits(s, V, a, b) \in SUBSET (a + 1 .. b)
  BY DEF Hits
<1>2. IsFiniteSet(a + 1 .. b)
  BY FS_Interval
<1>3. IsFiniteSet(Hits(s, V, a, b))
  BY <1>1, <1>2, FS_Subset, Zenon
<1>4. QED
  BY <1>3, FS_CardinalityType, Zenon DEF Count

\* No cells, no hits.
LEMMA CountNone ==
  ASSUME NEW s, NEW V, NEW a \in Int PROVE Count(s, V, a, a) = 0
<1>1. Hits(s, V, a, a) = {}
  BY DEF Hits
<1>2. QED
  BY <1>1, FS_EmptySet, Zenon DEF Count

\* A range of cells can be counted in two parts.
LEMMA CountSplit ==
  ASSUME NEW s, NEW V, NEW a \in Int, NEW b \in Int, NEW c \in Int, a <= b, b <= c
  PROVE  Count(s, V, a, c) = Count(s, V, a, b) + Count(s, V, b, c)
<1> DEFINE L == Hits(s, V, a, b)
           R == Hits(s, V, b, c)
<1>1. L \cup R = Hits(s, V, a, c) /\ L \cap R = {}
  BY DEF Hits
<1>2. /\ IsFiniteSet(L) /\ IsFiniteSet(R)
      /\ Cardinality(L) = Count(s, V, a, b) /\ Cardinality(R) = Count(s, V, b, c)
      /\ Count(s, V, a, b) \in Nat /\ Count(s, V, b, c) \in Nat
      /\ Cardinality(L \cup R) = Count(s, V, a, c)
  BY <1>1, CountType DEF Count
<1> HIDE DEF L, R
<1>3. Cardinality(L \cup R) = Cardinality(L) + Cardinality(R) - Cardinality(L \cap R)
  BY <1>2, FS_Union, Zenon
<1>4. Cardinality(L \cap R) = 0
  BY <1>1, FS_EmptySet, Zenon
<1>5. QED
  BY <1>2, <1>3, <1>4

\* One cell.
LEMMA CountOne ==
  ASSUME NEW s, NEW V, NEW b \in Int
  PROVE  Count(s, V, b - 1, b) = IF s[b] \in V THEN 1 ELSE 0
<1>1. CASE s[b] \in V
  <2>1. Hits(s, V, b - 1, b) = {b}
    BY <1>1 DEF Hits
  <2>2. QED
    BY <1>1, <2>1, FS_Singleton, Zenon DEF Count
<1>2. CASE s[b] \notin V
  <2>1. Hits(s, V, b - 1, b) = {}
    BY <1>2 DEF Hits
  <2>2. QED
    BY <1>2, <2>1, FS_EmptySet, Zenon DEF Count
<1>3. QED
  BY <1>1, <1>2

\* The last cell of a range.
LEMMA CountLast ==
  ASSUME NEW s, NEW V, NEW a \in Int, NEW b \in Int, a < b
  PROVE  Count(s, V, a, b) = Count(s, V, a, b - 1) + IF s[b] \in V THEN 1 ELSE 0
<1>1. Count(s, V, a, b) = Count(s, V, a, b - 1) + Count(s, V, b - 1, b)
  BY CountSplit
<1>2. QED
  BY <1>1, CountOne

\* The same values d cells further on.
Shifted(s, u, a, b, d) == \A k \in a + 1 .. b : s[k] = u[k + d]

\* There are as many hits.
LEMMA CountShift ==
  ASSUME NEW s, NEW u, NEW V, NEW a \in Int, NEW b \in Int, NEW d \in Int,
         Shifted(s, u, a, b, d)
  PROVE  Count(s, V, a, b) = Count(u, V, a + d, b + d)
<1> DEFINE S == Hits(s, V, a, b)
           T == Hits(u, V, a + d, b + d)
           f == [k \in S |-> k + d]
<1>1. f \in [S -> T]
  BY DEF Hits, Shifted
<1>2. \A j, k \in S : f[j] = f[k] => j = k
  BY DEF Hits, Shifted
<1>3. ASSUME NEW m \in T PROVE \E k \in S : f[k] = m
  <2>1. m - d \in S
    BY DEF Hits, Shifted
  <2>2. f[m - d] = m
    BY <2>1 DEF Hits, Shifted
  <2>3. QED
    BY <2>1, <2>2
<1>4. IsFiniteSet(S)
  BY CountType
<1> HIDE DEF f, S, T
<1>5. f \in Bijection(S, T)
  BY <1>1, <1>2, <1>3 DEF Bijection, Injection, Surjection, IsInjective
<1>6. Cardinality(T) = Cardinality(S)
  BY <1>4, <1>5, FS_Bijection, Zenon DEF ExistsBijection
<1>7. QED
  BY <1>6 DEF S, T, Count

\* The same values.
LEMMA CountAgree ==
  ASSUME NEW s, NEW u, NEW V, NEW a \in Int, NEW b \in Int,
         \A k \in a + 1 .. b : s[k] = u[k]
  PROVE  Count(s, V, a, b) = Count(u, V, a, b)
<1>1. Hits(s, V, a, b) = Hits(u, V, a, b)
  BY DEF Hits
<1>2. QED
  BY <1>1 DEF Count

\* The same values in another order.
LEMMA CountPermuted ==
  ASSUME NEW s, NEW u, NEW V, NEW N \in Nat, NEW p \in Bijection(1 .. N, 1 .. N),
         \A k \in 1 .. N : u[k] = s[p[k]]
  PROVE  Count(u, V, 0, N) = Count(s, V, 0, N)
<1> DEFINE S == Hits(u, V, 0, N)
           T == Hits(s, V, 0, N)
           f == [k \in S |-> p[k]]
<1>0. /\ p \in [1 .. N -> 1 .. N]
      /\ \A j, k \in 1 .. N : p[j] = p[k] => j = k
      /\ \A m \in 1 .. N : \E k \in 1 .. N : p[k] = m
  BY DEF Bijection, Injection, Surjection, IsInjective
<1>1. /\ \A k : k \in S <=> k \in 1 .. N /\ u[k] \in V
      /\ \A k : k \in T <=> k \in 1 .. N /\ s[k] \in V
  BY DEF Hits
<1>2. IsFiniteSet(S)
  BY CountType
<1> HIDE DEF S, T
<1>3. f \in [S -> T]
  BY <1>0, <1>1
<1>4. \A j, k \in S : f[j] = f[k] => j = k
  BY <1>0, <1>1
<1>5. ASSUME NEW m \in T PROVE \E k \in S : f[k] = m
  <2>1. PICK k \in 1 .. N : p[k] = m
    BY <1>0, <1>1
  <2>2. k \in S
    BY <1>1, <2>1
  <2>3. QED
    BY <2>1, <2>2
<1> HIDE DEF f
<1>6. f \in Bijection(S, T)
  BY <1>3, <1>4, <1>5 DEF Bijection, Injection, Surjection, IsInjective
<1>7. Cardinality(T) = Cardinality(S)
  BY <1>2, <1>6, FS_Bijection, Zenon DEF ExistsBijection
<1>8. QED
  BY <1>7 DEF S, T, Count
-----------------------------------------------------------------------------
(***************************************************************************)
(* Merging two sequences.                                                  *)
(***************************************************************************)

\* The loops of merge as MergeTwo has them: taken[k] after k iterations.
Takes(taken, first, second, length) ==
  /\ taken[0] = 0
  /\ \A k \in 1 .. length :
       taken[k] = IF TakesFirst(first, second, taken[k - 1], k - 1 - taken[k - 1])
                  THEN taken[k - 1] + 1 ELSE taken[k - 1]

\* What they leave behind.
Woven(taken, first, second, length) ==
  [k \in 1 .. length |-> IF taken[k] # taken[k - 1] THEN first[taken[k]]
                         ELSE second[k - taken[k]]]

\* There are such numbers, and MergeTwo is what they leave.
LEMMA MergeLoop ==
  ASSUME NEW first \in Seq(Int), NEW second \in Seq(Int)
  PROVE  \E taken \in [0 .. Len(first) + Len(second) -> Nat] :
           /\ Takes(taken, first, second, Len(first) + Len(second))
           /\ MergeTwo(first, second) =
                Woven(taken, first, second, Len(first) + Len(second))
<1> DEFINE length == Len(first) + Len(second)
           taken[k \in 0 .. length] ==
             IF k = 0 THEN 0
             ELSE IF TakesFirst(first, second, taken[k - 1], k - 1 - taken[k - 1])
                  THEN taken[k - 1] + 1 ELSE taken[k - 1]
           F == [p \in Nat \X (1 .. length) |->
                   IF TakesFirst(first, second, p[1], p[2] - 1 - p[1])
                   THEN p[1] + 1 ELSE p[1]]
<1>0. length \in Nat
  OBVIOUS
<1>1. MergeTwo(first, second) = Woven(taken, first, second, length)
  BY DEF MergeTwo, Woven
<1>2. taken = [k \in 0 .. length |->
                 IF k = 0 THEN 0
                 ELSE IF TakesFirst(first, second, taken[k - 1], k - 1 - taken[k - 1])
                      THEN taken[k - 1] + 1 ELSE taken[k - 1]]
  <2> HIDE DEF length
  <2>1. F \in [Nat \X (1 .. length) -> Nat]
    OBVIOUS
  <2>2. PICK g \in [0 .. length -> Nat] :
          g[0] = 0 /\ \A k \in 1 .. length : g[k] = F[<<g[k - 1], k>>]
    <3>1. \E g \in [0 .. length -> Nat] : Iterates(g, length, 0, F)
      <4>1. 0 \in Nat
        OBVIOUS
      <4> HIDE DEF F, taken
      <4> QED BY <1>0, <2>1, <4>1, IterateExists, Zenon
    <3> HIDE DEF F, taken
    <3> QED BY <3>1 DEF Iterates
  <2>3. ASSUME NEW k \in 0 .. length
        PROVE  g[k] = IF k = 0 THEN 0
                      ELSE IF TakesFirst(first, second, g[k - 1], k - 1 - g[k - 1])
                           THEN g[k - 1] + 1 ELSE g[k - 1]
    <3>1. CASE k = 0
      BY <2>2, <3>1
    <3>2. CASE k # 0
      <4>1. k \in 1 .. length /\ g[k - 1] \in Nat
        BY <1>0, <3>2
      <4>2. g[k] = F[<<g[k - 1], k>>]
        BY <2>2, <4>1
      <4>3. QED
        BY <3>2, <4>1, <4>2
    <3>3. QED
      BY <3>1, <3>2
  <2>4. g = [k \in 0 .. length |->
               IF k = 0 THEN 0
               ELSE IF TakesFirst(first, second, g[k - 1], k - 1 - g[k - 1])
                    THEN g[k - 1] + 1 ELSE g[k - 1]]
    <3> HIDE DEF F, taken
    <3> QED BY <2>3
  <2>5. QED
    BY <2>4
<1> HIDE DEF taken, length, F
<1>3. taken[0] = 0
  BY <1>0, <1>2
<1>4. ASSUME NEW k \in 1 .. length
      PROVE  taken[k] = IF TakesFirst(first, second, taken[k - 1], k - 1 - taken[k - 1])
                        THEN taken[k - 1] + 1 ELSE taken[k - 1]
  BY <1>0, <1>2
<1>5. \A k \in 0 .. length : taken[k] \in Nat
  <2> DEFINE P == {k \in 0 .. length : taken[k] \in Nat}
  <2>1. 0 \in P
    BY <1>0, <1>3
  <2>2. ASSUME NEW k \in 1 .. length, k - 1 \in P PROVE k \in P
    <3>1. taken[k - 1] \in Nat /\ k \in 0 .. length
      BY <1>0, <2>2
    <3>2. taken[k] \in Nat
      BY <1>4, <3>1
    <3>3. QED
      BY <3>1, <3>2
  <2>3. 0 .. length \subseteq P
    <3> HIDE DEF P
    <3> QED BY <1>0, <2>1, <2>2, IntervalInduction
  <2>4. QED
    BY <2>3
<1>6. taken \in [0 .. length -> Nat]
  BY <1>2, <1>5
<1>7. Takes(taken, first, second, length)
  BY <1>3, <1>4 DEF Takes
<1>8. QED
  BY <1>1, <1>6, <1>7 DEF length

\* What has been taken from each half is there, and each iteration takes the next
\* element of one half, namely, in ascending halves, a smallest that is left.
LEMMA TakesRange ==
  ASSUME NEW first \in Seq(Int), NEW second \in Seq(Int), NEW length,
         length = Len(first) + Len(second),
         NEW taken \in [0 .. length -> Nat], Takes(taken, first, second, length)
  PROVE  \A k \in 0 .. length : taken[k] <= Len(first) /\ k - taken[k] \in 0 .. Len(second)
<1> DEFINE P == {k \in 0 .. length : taken[k] <= Len(first)
                                     /\ k - taken[k] \in 0 .. Len(second)}
<1>0. length \in Nat /\ Len(first) \in Nat /\ Len(second) \in Nat
  OBVIOUS
<1>1. 0 \in P
  BY <1>0 DEF Takes
<1>2. ASSUME NEW k \in 1 .. length, k - 1 \in P PROVE k \in P
  <2>1. /\ k - 1 \in 0 .. length /\ taken[k - 1] \in Nat /\ taken[k] \in Nat
        /\ taken[k - 1] <= Len(first) /\ k - 1 - taken[k - 1] \in 0 .. Len(second)
    <3>1. k - 1 \in 0 .. length /\ k \in 0 .. length
      BY <1>0
    <3>2. QED
      BY <1>2, <3>1
  <2>2. CASE TakesFirst(first, second, taken[k - 1], k - 1 - taken[k - 1])
    <3>1. taken[k] = taken[k - 1] + 1 /\ taken[k - 1] < Len(first)
      BY <2>2 DEF Takes, TakesFirst
    <3>2. QED
      BY <1>0, <2>1, <3>1
  <2>3. CASE ~ TakesFirst(first, second, taken[k - 1], k - 1 - taken[k - 1])
    <3>1. /\ taken[k] = taken[k - 1]
          /\ taken[k - 1] < Len(first) => k - 1 - taken[k - 1] < Len(second)
      BY <2>3 DEF Takes, TakesFirst
    <3>2. QED
      BY <1>0, <2>1, <3>1
  <2>4. QED
    BY <2>2, <2>3
<1>3. 0 .. length \subseteq P
  <2> HIDE DEF P
  <2> QED BY <1>0, <1>1, <1>2, IntervalInduction
<1>4. QED
  BY <1>3

\* An iteration takes the next element of the first half or of the second.
TakesOne(taken, first, second, length, k) ==
  \/ /\ TakesFirst(first, second, taken[k - 1], k - 1 - taken[k - 1])
     /\ taken[k] = taken[k - 1] + 1 /\ taken[k] \in 1 .. Len(first)
     /\ k - taken[k] \in 0 .. Len(second)
     /\ Woven(taken, first, second, length)[k] = first[taken[k]]
  \/ /\ ~ TakesFirst(first, second, taken[k - 1], k - 1 - taken[k - 1])
     /\ taken[k] = taken[k - 1] /\ k - taken[k] \in 1 .. Len(second)
     /\ taken[k] \in 0 .. Len(first)
     /\ Woven(taken, first, second, length)[k] = second[k - taken[k]]

\* It does.
LEMMA WovenStep ==
  ASSUME NEW first \in Seq(Int), NEW second \in Seq(Int), NEW length,
         length = Len(first) + Len(second),
         NEW taken \in [0 .. length -> Nat], Takes(taken, first, second, length),
         NEW k \in 1 .. length
  PROVE  TakesOne(taken, first, second, length, k)
<1>1. /\ k - 1 \in 0 .. length /\ k \in 0 .. length
      /\ Len(first) \in Nat /\ Len(second) \in Nat
  OBVIOUS
<1>2. /\ taken[k] \in Nat /\ taken[k] <= Len(first) /\ k - taken[k] \in 0 .. Len(second)
      /\ taken[k - 1] \in Nat /\ k - 1 - taken[k - 1] \in 0 .. Len(second)
  BY <1>1, TakesRange
<1>3. Woven(taken, first, second, length)[k] =
        IF taken[k] # taken[k - 1] THEN first[taken[k]] ELSE second[k - taken[k]]
  BY DEF Woven
<1>4. taken[k] = IF TakesFirst(first, second, taken[k - 1], k - 1 - taken[k - 1])
                 THEN taken[k - 1] + 1 ELSE taken[k - 1]
  BY DEF Takes
<1>5. CASE TakesFirst(first, second, taken[k - 1], k - 1 - taken[k - 1])
  BY <1>1, <1>2, <1>3, <1>4, <1>5 DEF TakesOne
<1>6. CASE ~ TakesFirst(first, second, taken[k - 1], k - 1 - taken[k - 1])
  BY <1>1, <1>2, <1>3, <1>4, <1>6 DEF TakesOne
<1>7. QED
  BY <1>5, <1>6

\* s is a sequence of length ints.
IntsOfLength(s, length) == s \in Seq(Int) /\ Len(s) = length

\* What is merged is a sequence of all elements.
LEMMA WovenType ==
  ASSUME NEW first \in Seq(Int), NEW second \in Seq(Int), NEW length,
         length = Len(first) + Len(second),
         NEW taken \in [0 .. length -> Nat], Takes(taken, first, second, length)
  PROVE  IntsOfLength(Woven(taken, first, second, length), length)
<1> DEFINE w == Woven(taken, first, second, length)
<1>1. length \in Nat
  OBVIOUS
<1>2. ASSUME NEW k \in 1 .. length PROVE w[k] \in Int
  <2>1. TakesOne(taken, first, second, length, k)
    BY WovenStep, Zenon
  <2>2. \/ taken[k] \in 1 .. Len(first) /\ w[k] = first[taken[k]]
        \/ k - taken[k] \in 1 .. Len(second) /\ w[k] = second[k - taken[k]]
    BY <2>1 DEF TakesOne
  <2>3. QED
    BY <2>2
<1>3. w = [k \in 1 .. length |-> w[k]]
  BY DEF Woven
<1> HIDE DEF w
<1>4. w \in [1 .. length -> Int]
  BY <1>2, <1>3
<1>5. w \in Seq(Int)
  BY <1>1, <1>2, <1>3
<1>6. DOMAIN w = 1 .. length /\ Len(w) \in Nat /\ DOMAIN w = 1 .. Len(w)
  BY <1>4, <1>5
<1>7. Len(w) = length
  BY <1>1, <1>6
<1>8. QED
  BY <1>5, <1>7 DEF w, IntsOfLength

\* Nothing is lost or doubled.
LEMMA WovenCount ==
  ASSUME NEW first \in Seq(Int), NEW second \in Seq(Int), NEW length,
         length = Len(first) + Len(second),
         NEW taken \in [0 .. length -> Nat], NEW V, Takes(taken, first, second, length)
  PROVE  Count(Woven(taken, first, second, length), V, 0, length) =
           Count(first, V, 0, Len(first)) + Count(second, V, 0, Len(second))
<1> DEFINE w == Woven(taken, first, second, length)
           P == {k \in 0 .. length :
                   Count(w, V, 0, k) = Count(first, V, 0, taken[k])
                                       + Count(second, V, 0, k - taken[k])}
<1>0. length \in Nat /\ Len(first) \in Nat /\ Len(second) \in Nat
  OBVIOUS
<1>1. 0 \in P
  <2>1. taken[0] = 0
    BY DEF Takes
  <2>2. Count(w, V, 0, 0) = 0 /\ Count(first, V, 0, 0) = 0 /\ Count(second, V, 0, 0) = 0
    <3> HIDE DEF w
    <3> QED BY CountNone
  <2>3. QED
    BY <1>0, <2>1, <2>2
<1>2. ASSUME NEW k \in 1 .. length, k - 1 \in P PROVE k \in P
  <2> HIDE DEF w
  <2> DEFINE i == taken[k]
             h == taken[k - 1]
  <2>1. /\ k \in 0 .. length /\ k - 1 \in 0 .. length /\ k \in Int /\ 0 < k
        /\ i \in Nat /\ h \in Nat
    <3>1. k \in 0 .. length /\ k - 1 \in 0 .. length /\ k \in Int /\ 0 < k
      BY <1>0
    <3>2. QED
      BY <3>1
  <2>2. Count(w, V, 0, k - 1) = Count(first, V, 0, h) + Count(second, V, 0, k - 1 - h)
    BY <1>2
  <2>3. Count(w, V, 0, k) = Count(w, V, 0, k - 1) + IF w[k] \in V THEN 1 ELSE 0
    BY <2>1, CountLast
  <2>4. \/ /\ i = h + 1 /\ i \in 1 .. Len(first) /\ k - i \in 0 .. Len(second)
           /\ w[k] = first[i]
        \/ /\ i = h /\ k - i \in 1 .. Len(second)
           /\ w[k] = second[k - i]
    <3>1. TakesOne(taken, first, second, length, k)
      BY WovenStep, Zenon
    <3>2. QED
      BY <3>1 DEF TakesOne, w
  <2>5. /\ Count(first, V, 0, h) \in Nat /\ Count(second, V, 0, k - 1 - h) \in Nat
        /\ Count(w, V, 0, k - 1) \in Nat
    BY <2>1, CountType
  <2> HIDE DEF i, h, P
  <2>6. CASE i = h + 1 /\ i \in 1 .. Len(first) /\ w[k] = first[i]
    <3>1. Count(first, V, 0, i) = Count(first, V, 0, i - 1)
                                  + IF first[i] \in V THEN 1 ELSE 0
      BY <1>0, <2>6, CountLast
    <3>2. i - 1 = h /\ k - i = k - 1 - h
      BY <2>1, <2>6
    <3>3. Count(w, V, 0, k) = Count(first, V, 0, i) + Count(second, V, 0, k - i)
      BY <2>2, <2>3, <2>5, <2>6, <3>1, <3>2, SMTT(30)
    <3>4. QED
      BY <2>1, <3>3 DEF P, i
  <2>7. CASE i = h /\ k - i \in 1 .. Len(second) /\ w[k] = second[k - i]
    <3>1. Count(second, V, 0, k - i) = Count(second, V, 0, k - i - 1)
                                       + IF second[k - i] \in V THEN 1 ELSE 0
      BY <1>0, <2>7, CountLast, SMTT(30)
    <3>2. k - i - 1 = k - 1 - h
      BY <2>1, <2>7
    <3>3. Count(w, V, 0, k) = Count(first, V, 0, i) + Count(second, V, 0, k - i)
      BY <2>2, <2>3, <2>5, <2>7, <3>1, <3>2
    <3>4. QED
      BY <2>1, <3>3 DEF P, i
  <2>8. QED
    BY <2>4, <2>6, <2>7
<1>3. 0 .. length \subseteq P
  <2> HIDE DEF P
  <2> QED BY <1>0, <1>1, <1>2, IntervalInduction
<1>4. taken[length] = Len(first) /\ length - taken[length] = Len(second)
  <2>1. /\ taken[length] \in Nat /\ taken[length] <= Len(first)
        /\ length - taken[length] \in 0 .. Len(second)
    BY <1>0, TakesRange
  <2>2. QED
    BY <1>0, <2>1
<1>5. length \in P
  BY <1>0, <1>3
<1>6. QED
  <2> HIDE DEF w
  <2> QED BY <1>4, <1>5 DEF w

\* A sequence is ascending if each element is followed by one that is not smaller.
LEMMA AscendingNeighbours ==
  ASSUME NEW s \in Seq(Int), \A k \in 1 .. Len(s) - 1 : s[k] <= s[k + 1]
  PROVE  Ascending(s)
<1> DEFINE P == {d \in 0 .. Len(s) :
                   \A k \in 1 .. Len(s) : k + d <= Len(s) => s[k] <= s[k + d]}
<1>0. Len(s) \in Nat /\ DOMAIN s = 1 .. Len(s) /\ \A k \in 1 .. Len(s) : s[k] \in Int
  OBVIOUS
<1>1. 0 \in P
  BY <1>0
<1>2. ASSUME NEW d \in 1 .. Len(s), d - 1 \in P PROVE d \in P
  <2>1. ASSUME NEW k \in 1 .. Len(s), k + d <= Len(s) PROVE s[k] <= s[k + d]
    <3>1. k + (d - 1) \in 1 .. Len(s) - 1 /\ k + d \in 1 .. Len(s)
          /\ k + (d - 1) \in 1 .. Len(s)
      BY <1>0, <2>1
    <3>2. s[k] <= s[k + (d - 1)]
      BY <1>0, <1>2, <2>1
    <3>3. s[k + (d - 1)] <= s[(k + (d - 1)) + 1] /\ (k + (d - 1)) + 1 = k + d
      BY <3>1
    <3>4. QED
      BY <1>0, <3>1, <3>2, <3>3
  <2>2. QED
    BY <1>0, <2>1
<1>3. 0 .. Len(s) \subseteq P
  <2> HIDE DEF P
  <2> QED BY <1>0, <1>1, <1>2, IntervalInduction
<1>4. ASSUME NEW j \in DOMAIN s, NEW k \in DOMAIN s, j <= k PROVE s[j] <= s[k]
  <2>1. k - j \in P
    BY <1>0, <1>3, <1>4
  <2>2. s[j] <= s[j + (k - j)] /\ j + (k - j) = k
    BY <1>0, <1>4, <2>1
  <2>3. QED
    BY <2>2
<1>5. QED
  BY <1>4 DEF Ascending

\* Two ascending halves give something ascending.
LEMMA WovenAscending ==
  ASSUME NEW first \in Seq(Int), NEW second \in Seq(Int), NEW length,
         length = Len(first) + Len(second),
         NEW taken \in [0 .. length -> Nat], Takes(taken, first, second, length),
         Ascending(first), Ascending(second)
  PROVE  Ascending(Woven(taken, first, second, length))
<1> DEFINE w == Woven(taken, first, second, length)
<1>0. /\ length \in Nat /\ Len(first) \in Nat /\ Len(second) \in Nat
      /\ \A i \in 1 .. Len(first) : first[i] \in Int
      /\ \A i \in 1 .. Len(second) : second[i] \in Int
      /\ \A i, j \in 1 .. Len(first) : i <= j => first[i] <= first[j]
      /\ \A i, j \in 1 .. Len(second) : i <= j => second[i] <= second[j]
  BY DEF Ascending
<1>1. ASSUME NEW k \in 1 .. length - 1 PROVE w[k] <= w[k + 1]
  <2> DEFINE i == taken[k - 1]
             j == k - 1 - i
             i1 == taken[k]
             i2 == taken[k + 1]
  <2>1. /\ k \in 1 .. length /\ k + 1 \in 1 .. length /\ (k + 1) - 1 = k
        /\ i \in Nat /\ i1 \in Nat /\ i2 \in Nat
    <3>1. /\ k \in 1 .. length /\ k + 1 \in 1 .. length /\ (k + 1) - 1 = k
          /\ k - 1 \in 0 .. length /\ k \in 0 .. length /\ k + 1 \in 0 .. length
      BY <1>0
    <3>2. QED
      BY <3>1
  <2>2. \/ /\ TakesFirst(first, second, i, j)
           /\ i1 = i + 1 /\ i1 \in 1 .. Len(first) /\ w[k] = first[i1]
        \/ /\ ~ TakesFirst(first, second, i, j)
           /\ i1 = i /\ k - i1 \in 1 .. Len(second) /\ w[k] = second[k - i1]
    <3>1. TakesOne(taken, first, second, length, k)
      BY <2>1, WovenStep, Zenon
    <3>2. QED
      BY <3>1 DEF TakesOne
  <2>3. \/ /\ i2 = i1 + 1 /\ i2 \in 1 .. Len(first) /\ w[k + 1] = first[i2]
        \/ /\ i2 = i1 /\ k + 1 - i2 \in 1 .. Len(second) /\ w[k + 1] = second[k + 1 - i2]
    <3>1. TakesOne(taken, first, second, length, k + 1)
      BY <2>1, WovenStep, Zenon
    <3> HIDE DEF w
    <3>2. QED
      BY <2>1, <3>1 DEF TakesOne, w
  <2> HIDE DEF w, i, j, i1, i2
  <2>4. CASE TakesFirst(first, second, i, j) /\ i1 = i + 1 /\ i1 \in 1 .. Len(first)
             /\ w[k] = first[i1]
    <3>1. j < Len(second) => first[i1] < second[j + 1]
      BY <2>4 DEF TakesFirst
    <3>2. CASE i2 = i1 + 1 /\ i2 \in 1 .. Len(first) /\ w[k + 1] = first[i2]
      BY <1>0, <2>1, <2>4, <3>2
    <3>3. CASE i2 = i1 /\ k + 1 - i2 \in 1 .. Len(second) /\ w[k + 1] = second[k + 1 - i2]
      <4>1. k + 1 - i2 = j + 1 /\ j < Len(second)
        BY <1>0, <2>1, <2>4, <3>3 DEF j
      <4>2. second[j + 1] \in Int /\ first[i1] \in Int
        BY <1>0, <2>4, <3>3, <4>1
      <4>3. QED
        BY <2>4, <3>1, <3>3, <4>1, <4>2, SMTT(30)
    <3>4. QED
      BY <2>3, <3>2, <3>3
  <2>5. CASE ~ TakesFirst(first, second, i, j) /\ i1 = i /\ k - i1 \in 1 .. Len(second)
             /\ w[k] = second[k - i1]
    <3>1. k - i1 = j + 1 /\ j + 1 \in 1 .. Len(second) /\ j \in Nat /\ j < Len(second)
      BY <1>0, <2>1, <2>5 DEF j
    <3>2. CASE i2 = i1 + 1 /\ i2 \in 1 .. Len(first) /\ w[k + 1] = first[i2]
      <4>1. i < Len(first) /\ i2 = i + 1
        BY <1>0, <2>1, <2>5, <3>2
      <4>2. ~ (first[i + 1] < second[j + 1])
        BY <2>5, <3>1, <4>1 DEF TakesFirst
      <4>3. first[i + 1] \in Int /\ second[j + 1] \in Int
        BY <1>0, <3>1, <3>2, <4>1
      <4>4. QED
        BY <2>5, <3>1, <3>2, <4>1, <4>2, <4>3
    <3>3. CASE i2 = i1 /\ k + 1 - i2 \in 1 .. Len(second) /\ w[k + 1] = second[k + 1 - i2]
      <4>1. k - i1 <= k + 1 - i2 /\ k - i1 \in 1 .. Len(second)
        BY <2>1, <2>5, <3>3
      <4>2. QED
        BY <1>0, <2>5, <3>3, <4>1
    <3>4. QED
      BY <2>3, <3>2, <3>3
  <2>6. QED
    BY <2>2, <2>4, <2>5
<1>2. w \in Seq(Int) /\ Len(w) = length
  BY WovenType DEF IntsOfLength
<1> HIDE DEF w
<1>3. Ascending(w)
  BY <1>1, <1>2, AscendingNeighbours
<1>4. QED
  BY <1>3 DEF w

\* merge keeps what is in the halves, and sorts it if they are sorted.
LEMMA MergeTwoRight ==
  ASSUME NEW first \in Seq(Int), NEW second \in Seq(Int)
  PROVE  /\ MergeTwo(first, second) \in Seq(Int)
         /\ Len(MergeTwo(first, second)) = Len(first) + Len(second)
         /\ \A V : Count(MergeTwo(first, second), V, 0, Len(first) + Len(second)) =
                     Count(first, V, 0, Len(first)) + Count(second, V, 0, Len(second))
         /\ Ascending(first) /\ Ascending(second) => Ascending(MergeTwo(first, second))
<1> DEFINE length == Len(first) + Len(second)
<1>1. PICK taken \in [0 .. length -> Nat] :
        /\ Takes(taken, first, second, length)
        /\ MergeTwo(first, second) = Woven(taken, first, second, length)
  BY MergeLoop, Zenon
<1>2. length = Len(first) + Len(second)
  OBVIOUS
<1> HIDE DEF length
<1>3. /\ Woven(taken, first, second, length) \in Seq(Int)
      /\ Len(Woven(taken, first, second, length)) = length
  <2>1. IntsOfLength(Woven(taken, first, second, length), length)
    BY <1>1, <1>2, WovenType, Zenon
  <2>2. QED
    BY <2>1, Zenon DEF IntsOfLength
<1>4. ASSUME NEW V
      PROVE  Count(Woven(taken, first, second, length), V, 0, length) =
               Count(first, V, 0, Len(first)) + Count(second, V, 0, Len(second))
  <2> HIDE DEF Count
  <2>1. length = Len(first) + Len(second) /\ Takes(taken, first, second, length)
    BY <1>1, <1>2
  <2>2. QED
    BY <2>1, WovenCount
<1>5. Ascending(first) /\ Ascending(second) =>
        Ascending(Woven(taken, first, second, length))
  BY <1>1, <1>2, WovenAscending, Zenon
<1>6. QED
  BY <1>1, <1>2, <1>3, <1>4, <1>5, Zenon
-----------------------------------------------------------------------------
(***************************************************************************)
(* The recursion of merge.                                                 *)
(***************************************************************************)

Arrays == [1 .. SIZE -> Int]

\* The cells a + 1 to b are in ascending order.
SortedCells(s, a, b) == \A j, k \in a + 1 .. b : j <= k => s[j] <= s[k]

\* A part of the array as a sequence.
LEMMA Segment ==
  ASSUME NEW s \in Arrays, NEW a \in Nat, NEW b \in Nat, a <= b, b <= SIZE
  PROVE  /\ SubSeq(s, a + 1, b) \in Seq(Int)
         /\ Len(SubSeq(s, a + 1, b)) = b - a
         /\ \A k \in 1 .. b - a : SubSeq(s, a + 1, b)[k] = s[k + a]
         /\ \A V : Count(SubSeq(s, a + 1, b), V, 0, b - a) = Count(s, V, a, b)
         /\ SortedCells(s, a, b) <=> Ascending(SubSeq(s, a + 1, b))
<1> DEFINE x == SubSeq(s, a + 1, b)
<1>0. SIZE \in Nat
  BY StatsAssumption
<1>1. s \in Seq(Int) /\ Len(s) = SIZE
  BY <1>0 DEF Arrays
<1>2. x \in Seq(Int) /\ Len(x) = b - a
  BY <1>0, <1>1
<1>3. \A k \in 1 .. b - a : x[k] = s[k + a]
  BY <1>0, <1>1
<1> HIDE DEF x
<1>4. ASSUME NEW V PROVE Count(x, V, 0, b - a) = Count(s, V, a, b)
  <2> DEFINE z == 0
             c == b - a
  <2>1. z \in Int /\ c \in Int /\ a \in Int /\ z + a = a /\ c + a = b
    OBVIOUS
  <2>2. Shifted(x, s, z, c, a)
    BY <1>3 DEF Shifted
  <2> HIDE DEF z, c
  <2>3. Count(x, V, z, c) = Count(s, V, z + a, c + a)
    BY <2>1, <2>2, CountShift
  <2>4. QED
    BY <2>1, <2>3 DEF z, c
<1>5. SortedCells(s, a, b) <=> Ascending(x)
  <2>1. DOMAIN x = 1 .. b - a
    BY <1>2
  <2>2. ASSUME SortedCells(s, a, b), NEW j \in 1 .. b - a, NEW k \in 1 .. b - a, j <= k
        PROVE  x[j] <= x[k]
    <3>1. j + a \in a + 1 .. b /\ k + a \in a + 1 .. b /\ j + a <= k + a
      BY <2>2
    <3>2. QED
      BY <1>3, <2>2, <3>1 DEF SortedCells
  <2>3. ASSUME Ascending(x), NEW j \in a + 1 .. b, NEW k \in a + 1 .. b, j <= k
        PROVE  s[j] <= s[k]
    <3>1. j - a \in 1 .. b - a /\ k - a \in 1 .. b - a /\ j - a <= k - a
          /\ (j - a) + a = j /\ (k - a) + a = k
      BY <2>3
    <3>2. x[j - a] = s[j] /\ x[k - a] = s[k]
      BY <1>3, <3>1
    <3>3. x[j - a] <= x[k - a]
      BY <2>1, <2>3, <3>1 DEF Ascending
    <3>4. QED
      BY <3>2, <3>3
  <2>4. QED
    BY <2>1, <2>2, <2>3 DEF SortedCells, Ascending
<1>6. QED
  BY <1>2, <1>3, <1>4, <1>5 DEF x

\* The calls of merge for k slices; g has those for fewer.
Call(g, k, size, part) ==
  [s \in 0 .. size - k |->
     IF k <= 1 THEN SubSeq(array, s * part + 1, (s + k) * part)
     ELSE MergeTwo(g[k \div 2][s], g[k - k \div 2][s + k \div 2])]

\* All calls for up to m slices.
Calls(g, m, size, part) == g = [k \in 0 .. m |-> Call(g, k, size, part)]

\* Half of k slices are fewer slices.
LEMMA Halves ==
  ASSUME NEW k \in Nat, 1 < k
  PROVE  /\ k \div 2 \in 1 .. k - 1 /\ k - k \div 2 \in 1 .. k - 1
OBVIOUS

\* The recursion ends.
LEMMA CallsExist ==
  ASSUME NEW size \in Nat, NEW part PROVE \E g : Calls(g, size, size, part)
<1> DEFINE P == {m \in 0 .. size : \E g : Calls(g, m, size, part)}
<1>1. 0 \in P
  <2> DEFINE g == [k \in 0 .. 0 |-> Call(<<>>, k, size, part)]
  <2>1. \A k \in 0 .. 0 : Call(<<>>, k, size, part) = Call(g, k, size, part)
    BY DEF Call
  <2>2. g = [k \in 0 .. 0 |-> Call(g, k, size, part)]
    BY <2>1
  <2> HIDE DEF g
  <2>3. QED
    BY <2>2 DEF Calls
<1>2. ASSUME NEW m \in 1 .. size, m - 1 \in P PROVE m \in P
  <2>1. PICK g : Calls(g, m - 1, size, part)
    BY <1>2
  <2> DEFINE h == [k \in 0 .. m |-> Call(g, k, size, part)]
  <2>2. \A k \in 0 .. m - 1 : h[k] = g[k]
    <3> DEFINE C(k) == Call(g, k, size, part)
    <3>1. g = [k \in 0 .. m - 1 |-> C(k)]
      BY <2>1 DEF Calls
    <3> HIDE DEF C
    <3>2. \A k \in 0 .. m - 1 : g[k] = C(k) /\ k \in 0 .. m
      BY <3>1
    <3>3. \A k \in 0 .. m : h[k] = C(k)
      BY DEF C
    <3>4. QED
      BY <3>2, <3>3
  <2>3. ASSUME NEW k \in 0 .. m PROVE Call(g, k, size, part) = Call(h, k, size, part)
    <3>1. CASE k <= 1
      BY <3>1 DEF Call
    <3>2. CASE ~ (k <= 1)
      <4>1. k \div 2 \in 0 .. m - 1 /\ k - k \div 2 \in 0 .. m - 1
        BY <3>2
      <4>2. h[k \div 2] = g[k \div 2] /\ h[k - k \div 2] = g[k - k \div 2]
        BY <2>2, <4>1
      <4> HIDE DEF h
      <4>3. QED
        BY <3>2, <4>2 DEF Call
    <3>3. QED
      BY <3>1, <3>2
  <2>4. Calls(h, m, size, part)
    <3>1. h = [k \in 0 .. m |-> Call(h, k, size, part)]
      BY <2>3
    <3> HIDE DEF h
    <3>2. QED
      BY <3>1 DEF Calls
  <2>5. QED
    BY <2>4
<1>3. 0 .. size \subseteq P
  <2> HIDE DEF P
  <2> QED BY <1>1, <1>2, IntervalInduction
<1>4. size \in P
  BY <1>3
<1>5. QED
  BY <1>4

\* A product of a sum.
LEMMA Product ==
  ASSUME NEW a \in Nat, NEW b \in Nat, NEW p \in Nat
  PROVE  /\ a * p \in Nat /\ b * p \in Nat /\ (a + b) * p \in Nat
         /\ (a + b) * p = a * p + b * p
OBVIOUS

\* Each slice is sorted.
SlicesSorted(size, part) ==
  \A i \in 0 .. size - 1 : SortedCells(array, i * part, (i + 1) * part)

\* m is what merge makes of the k slices from s on.
MergedCells(m, k, s, size, part) ==
  /\ m \in Seq(Int) /\ Len(m) = k * part
  /\ \A V : Count(m, V, 0, k * part) = Count(array, V, s * part, (s + k) * part)
  /\ SlicesSorted(size, part) => Ascending(m)

\* No slice, or one.
LEMMA MergedBase ==
  ASSUME array \in Arrays, NEW size \in Nat, NEW part \in Nat, size * part <= SIZE,
         NEW k \in 0 .. size, k <= 1, NEW s \in 0 .. size - k
  PROVE  MergedCells(SubSeq(array, s * part + 1, (s + k) * part), k, s, size, part)
<1> DEFINE a == s * part
           b == (s + k) * part
           rest == size - (s + k)
<1>1. /\ s \in Nat /\ k \in Nat /\ s + k \in Nat /\ rest \in Nat
      /\ (s + k) + rest = size
  OBVIOUS
<1>2. /\ a \in Nat /\ b \in Nat /\ k * part \in Nat /\ b = a + k * part
  BY <1>1, Product
<1>3. b <= SIZE
  <2>1. size * part = b + rest * part /\ rest * part \in Nat
    BY <1>1, Product
  <2>2. size * part \in Nat /\ SIZE \in Nat
    BY StatsAssumption
  <2> HIDE DEF a, b, rest
  <2>3. QED
    BY <1>2, <2>1, <2>2
<1>4. SlicesSorted(size, part) => SortedCells(array, a, b)
  <2>1. CASE k = 1
    <3>1. s \in 0 .. size - 1
      BY <2>1
    <3>2. QED
      BY <2>1, <3>1 DEF SlicesSorted
  <2>2. CASE k = 0
    <3>1. k * part = 0
      BY <2>2
    <3>2. b = a
      BY <1>2, <3>1
    <3>3. a + 1 .. b = {}
      BY <1>2, <3>2
    <3>4. QED
      BY <3>3 DEF SortedCells
  <2>3. QED
    BY <1>1, <2>1, <2>2
<1> DEFINE m == SubSeq(array, a + 1, b)
<1>5. /\ m \in Seq(Int) /\ Len(m) = b - a
      /\ \A V : Count(m, V, 0, b - a) = Count(array, V, a, b)
      /\ SortedCells(array, a, b) <=> Ascending(m)
  <2>1. a <= b
    BY <1>2
  <2> HIDE DEF a, b
  <2>2. QED
    BY <1>2, <1>3, <2>1, Segment
<1>6. b - a = k * part
  BY <1>2
<1> HIDE DEF m
<1>7. MergedCells(m, k, s, size, part)
  BY <1>4, <1>5, <1>6 DEF MergedCells
<1>8. QED
  BY <1>7 DEF m

\* Two halves.
LEMMA MergedHalves ==
  ASSUME array \in Arrays, NEW size \in Nat, NEW part \in Nat,
         NEW j \in Nat, NEW h \in Nat, NEW s \in Nat,
         NEW first, MergedCells(first, j, s, size, part),
         NEW second, MergedCells(second, h, s + j, size, part)
  PROVE  MergedCells(MergeTwo(first, second), j + h, s, size, part)
<1> DEFINE m == MergeTwo(first, second)
           a == s * part
           b == (s + j) * part
           c == (s + (j + h)) * part
           k == j + h
<1>1. /\ a \in Nat /\ b \in Nat /\ c \in Nat /\ a <= b /\ b <= c
      /\ k * part = j * part + h * part
      /\ k * part \in Nat /\ j * part \in Nat /\ h * part \in Nat
  <2>1. b = a + j * part /\ a \in Nat /\ j * part \in Nat
    BY Product
  <2>2. s + j \in Nat /\ (s + j) + h = s + (j + h)
    OBVIOUS
  <2>3. c = b + h * part /\ b \in Nat /\ h * part \in Nat
    BY <2>2, Product
  <2>4. k * part = j * part + h * part
    BY Product
  <2> HIDE DEF a, b, c, k
  <2>5. QED
    BY <2>1, <2>3, <2>4
<1>2. (s + j) + h = s + (j + h)
  OBVIOUS
<1>3. /\ first \in Seq(Int) /\ Len(first) = j * part
      /\ \A V : Count(first, V, 0, j * part) = Count(array, V, a, b)
      /\ SlicesSorted(size, part) => Ascending(first)
  BY DEF MergedCells
<1>4. /\ second \in Seq(Int) /\ Len(second) = h * part
      /\ \A V : Count(second, V, 0, h * part) = Count(array, V, b, c)
      /\ SlicesSorted(size, part) => Ascending(second)
  BY <1>2 DEF MergedCells
<1> HIDE DEF m, a, b, c, k
<1>5. /\ m \in Seq(Int) /\ Len(m) = k * part
      /\ \A V : Count(m, V, 0, k * part) =
                  Count(first, V, 0, j * part) + Count(second, V, 0, h * part)
      /\ Ascending(first) /\ Ascending(second) => Ascending(m)
  <2>1. /\ m \in Seq(Int) /\ Len(m) = Len(first) + Len(second)
        /\ \A V : Count(m, V, 0, Len(first) + Len(second)) =
                    Count(first, V, 0, Len(first)) + Count(second, V, 0, Len(second))
        /\ Ascending(first) /\ Ascending(second) => Ascending(m)
    BY <1>3, <1>4, MergeTwoRight, Zenon DEF m
  <2>2. Len(first) + Len(second) = k * part
    BY <1>1, <1>3, <1>4
  <2>3. QED
    BY <1>3, <1>4, <2>1, <2>2
<1>6. \A V : Count(array, V, a, c) = Count(array, V, a, b) + Count(array, V, b, c)
  <2>1. a \in Int /\ b \in Int /\ c \in Int
    BY <1>1
  <2>2. QED
    BY <1>1, <2>1, CountSplit
<1>7. \A V : Count(m, V, 0, k * part) = Count(array, V, a, c)
  BY <1>3, <1>4, <1>5, <1>6
<1>8. MergedCells(m, k, s, size, part)
  BY <1>3, <1>4, <1>5, <1>7 DEF MergedCells, a, c, k
<1>9. QED
  BY <1>8 DEF m, k

\* merge as a whole.
LEMMA MergedRight ==
  ASSUME array \in Arrays, NEW size \in Nat, NEW part \in Nat, size * part <= SIZE
  PROVE  MergedCells(Merged(size, part), size, 0, size, part)
<1> DEFINE merge[k \in 0 .. size] ==
             [s \in 0 .. size - k |->
                IF k <= 1 THEN SubSeq(array, s * part + 1, (s + k) * part)
                ELSE MergeTwo(merge[k \div 2][s], merge[k - k \div 2][s + k \div 2])]
<1>1. Merged(size, part) = merge[size][0]
  BY DEF Merged
<1>2. merge = [k \in 0 .. size |-> Call(merge, k, size, part)]
  <2>1. PICK g : g = [k \in 0 .. size |-> Call(g, k, size, part)]
    <3>1. \E g : Calls(g, size, size, part)
      BY CallsExist, Zenon
    <3>2. QED
      BY <3>1 DEF Calls
  <2>2. g = [k \in 0 .. size |->
               [s \in 0 .. size - k |->
                 IF k <= 1 THEN SubSeq(array, s * part + 1, (s + k) * part)
                 ELSE MergeTwo(g[k \div 2][s], g[k - k \div 2][s + k \div 2])]]
    BY <2>1, Zenon DEF Call
  <2>3. merge = [k \in 0 .. size |->
               [s \in 0 .. size - k |->
                 IF k <= 1 THEN SubSeq(array, s * part + 1, (s + k) * part)
                 ELSE MergeTwo(merge[k \div 2][s], merge[k - k \div 2][s + k \div 2])]]
    BY <2>2, Zenon
  <2>4. QED
    BY <2>3, Zenon DEF Call
<1> HIDE DEF merge
<1> DEFINE Good(k) == \A s \in 0 .. size - k :
                        MergedCells(merge[k][s], k, s, size, part)
           P == {m \in 0 .. size : \A k \in 0 .. m : Good(k)}
<1>3. ASSUME NEW k \in 0 .. size, NEW s \in 0 .. size - k
      PROVE  merge[k][s] = IF k <= 1 THEN SubSeq(array, s * part + 1, (s + k) * part)
                           ELSE MergeTwo(merge[k \div 2][s], merge[k - k \div 2][s + k \div 2])
  <2>1. merge[k] = Call(merge, k, size, part)
    BY <1>2
  <2>2. QED
    BY <2>1 DEF Call
<1>4. ASSUME NEW k \in 0 .. size, k <= 1 PROVE Good(k)
  <2>1. ASSUME NEW s \in 0 .. size - k PROVE MergedCells(merge[k][s], k, s, size, part)
    <3>1. merge[k][s] = SubSeq(array, s * part + 1, (s + k) * part)
      BY <1>3, <1>4
    <3>2. QED
      BY <1>4, <3>1, MergedBase
  <2>2. QED
    BY <2>1
<1>5. ASSUME NEW k \in 0 .. size, 1 < k, \A j \in 0 .. k - 1 : Good(j) PROVE Good(k)
  <2> DEFINE j == k \div 2
             h == k - k \div 2
  <2>1. j \in 1 .. k - 1 /\ h \in 1 .. k - 1
    BY <1>5, Halves
  <2>2. j + h = k
    BY <2>1
  <2>3. ASSUME NEW s \in 0 .. size - k PROVE MergedCells(merge[k][s], k, s, size, part)
    <3>1. merge[k][s] = MergeTwo(merge[j][s], merge[h][s + j])
      <4>1. ~ (k <= 1)
        BY <1>5
      <4>2. QED
        BY <1>3, <4>1, Zenon
    <3> HIDE DEF j, h
    <3>2. /\ s \in 0 .. size - j /\ s + j \in 0 .. size - h
          /\ j \in 0 .. k - 1 /\ h \in 0 .. k - 1
          /\ s \in Nat /\ j \in Nat /\ h \in Nat
      BY <2>1, <2>2
    <3>3. MergedCells(merge[j][s], j, s, size, part)
      BY <1>5, <3>2
    <3>4. MergedCells(merge[h][s + j], h, s + j, size, part)
      BY <1>5, <3>2
    <3>5. MergedCells(MergeTwo(merge[j][s], merge[h][s + j]), j + h, s, size, part)
      BY <3>2, <3>3, <3>4, MergedHalves
    <3>6. QED
      BY <2>2, <3>1, <3>5
  <2>4. QED
    BY <2>3
<1>6. 0 \in P
  BY <1>4
<1>7. ASSUME NEW m \in 1 .. size, m - 1 \in P PROVE m \in P
  <2>1. \A k \in 0 .. m - 1 : Good(k)
    BY <1>7
  <2> HIDE DEF Good
  <2>2. Good(m)
    BY <1>4, <1>5, <2>1
  <2>3. \A k \in 0 .. m : k \in 0 .. m - 1 \/ k = m
    OBVIOUS
  <2>4. QED
    BY <2>1, <2>2, <2>3
<1>8. 0 .. size \subseteq P
  <2> HIDE DEF P
  <2> QED BY <1>6, <1>7, IntervalInduction
<1>9. Good(size)
  <2> HIDE DEF Good
  <2> QED BY <1>8
<1>10. QED
  BY <1>1, <1>9
-----------------------------------------------------------------------------
(***************************************************************************)
(* The slices and what is done to them.                                    *)
(***************************************************************************)

\* Where slice i of n slices of p cells each begins and ends.
LEMMA SliceBounds ==
  ASSUME NEW N \in Nat, NEW p \in Nat, NEW i \in 0 .. N - 1
  PROVE  /\ i * p \in Nat /\ (i + 1) * p \in Nat /\ N * p \in Nat
         /\ i * p <= (i + 1) * p /\ (i + 1) * p <= N * p
<1>1. (i + 1) * p = i * p + 1 * p /\ i * p \in Nat /\ 1 * p \in Nat
  BY Product
<1>2. i + 1 \in Nat /\ N - (i + 1) \in Nat /\ (i + 1) + (N - (i + 1)) = N
  OBVIOUS
<1>3. N * p = (i + 1) * p + (N - (i + 1)) * p /\ (N - (i + 1)) * p \in Nat
      /\ (i + 1) * p \in Nat
  BY <1>2, Product
<1> DEFINE a == i * p
           b == (i + 1) * p
           c == N * p
           d == (N - (i + 1)) * p
           e == 1 * p
<1> HIDE DEF a, b, c, d, e
<1>4. /\ b = a + e /\ a \in Nat /\ e \in Nat /\ c = b + d /\ d \in Nat /\ b \in Nat
  BY <1>1, <1>3 DEF a, b, c, d, e
<1>5. a \in Nat /\ b \in Nat /\ c \in Nat /\ a <= b /\ b <= c
  BY <1>4
<1>6. QED
  BY <1>5 DEF a, b, c

\* A slice ends before the next begins.
LEMMA SlicesApart ==
  ASSUME NEW p \in Nat, NEW i \in Nat, NEW j \in Nat, i < j
  PROVE  (i + 1) * p <= j * p
<1>1. i + 1 \in Nat /\ j - (i + 1) \in Nat /\ (i + 1) + (j - (i + 1)) = j
  OBVIOUS
<1>2. j * p = (i + 1) * p + (j - (i + 1)) * p /\ (j - (i + 1)) * p \in Nat
      /\ (i + 1) * p \in Nat
  BY <1>1, Product
<1> DEFINE b == (i + 1) * p
           c == j * p
           d == (j - (i + 1)) * p
<1> HIDE DEF b, c, d
<1>3. c = b + d /\ d \in Nat /\ b \in Nat
  BY <1>2 DEF b, c, d
<1>4. b <= c
  BY <1>3
<1>5. QED
  BY <1>4 DEF b, c

\* SliceOf cuts out the cells of a worker, also when there are none.
LEMMA SliceOfCells ==
  ASSUME array \in Arrays, partitionSize \in Nat, NEW i \in Nat,
         (i + 1) * partitionSize <= SIZE
  PROVE  SliceOf(Cells(i)) = SubSeq(array, i * partitionSize + 1, (i + 1) * partitionSize)
<1> DEFINE a == i * partitionSize
           b == (i + 1) * partitionSize
<1>1. b = a + 1 * partitionSize /\ a \in Nat /\ b \in Nat
  BY Product
<1>2. SIZE \in Nat /\ b <= SIZE
  BY StatsAssumption
<1>3. Cells(i) = a + 1 .. b
  BY DEF Cells
<1> HIDE DEF a, b
<1>4. SliceOf(a + 1 .. b) = SubSeq(array, a + 1, b)
  <2>1. CASE a = b
    <3>1. a + 1 .. b = {}
      BY <1>1, <2>1
    <3>2. array \in Seq(Int)
      BY <1>2 DEF Arrays
    <3>3. SubSeq(array, a + 1, b) = <<>>
      BY <1>1, <2>1, <3>2
    <3>4. QED
      BY <3>1, <3>3 DEF SliceOf
  <2>2. CASE a # b
    <3>1. a + 1 \in a + 1 .. b /\ b \in a + 1 .. b
      BY <1>1, <2>2
    <3>2. Min(a + 1 .. b) = a + 1
      BY <1>1, <3>1 DEF Min
    <3>3. Max(a + 1 .. b) = b
      BY <1>1, <3>1 DEF Max
    <3>4. a + 1 .. b # {}
      BY <3>1
    <3>5. QED
      BY <3>2, <3>3, <3>4 DEF SliceOf
  <2>3. QED
    BY <2>1, <2>2
<1>5. QED
  BY <1>3, <1>4 DEF a, b

\* A slice depends on its cells alone.
LEMMA SegmentSame ==
  ASSUME NEW s \in Arrays, NEW u \in Arrays, NEW a \in Nat, NEW b \in Nat,
         a <= b, b <= SIZE, \A k \in a + 1 .. b : s[k] = u[k]
  PROVE  /\ SubSeq(s, a + 1, b) = SubSeq(u, a + 1, b)
         /\ SortedCells(s, a, b) <=> SortedCells(u, a, b)
<1>1. /\ SubSeq(s, a + 1, b) \in Seq(Int) /\ Len(SubSeq(s, a + 1, b)) = b - a
      /\ \A k \in 1 .. b - a : SubSeq(s, a + 1, b)[k] = s[k + a]
  BY Segment
<1>2. /\ SubSeq(u, a + 1, b) \in Seq(Int) /\ Len(SubSeq(u, a + 1, b)) = b - a
      /\ \A k \in 1 .. b - a : SubSeq(u, a + 1, b)[k] = u[k + a]
  BY Segment
<1>3. \A k \in 1 .. b - a : s[k + a] = u[k + a]
  <2>1. \A k \in 1 .. b - a : k + a \in a + 1 .. b
    OBVIOUS
  <2>2. QED
    BY <2>1
<1> DEFINE x == SubSeq(s, a + 1, b)
           y == SubSeq(u, a + 1, b)
<1>4. x = y
  <2> HIDE DEF x, y
  <2>1. /\ x \in Seq(Int) /\ y \in Seq(Int) /\ Len(x) = b - a /\ Len(y) = b - a
        /\ \A k \in 1 .. b - a : x[k] = y[k]
    BY <1>1, <1>2, <1>3 DEF x, y
  <2>2. QED
    BY <2>1
<1>5. SortedCells(s, a, b) <=> SortedCells(u, a, b)
  BY DEF SortedCells
<1>6. QED
  BY <1>4, <1>5

\* u is s with the cells a + 1 to b replaced.
Replaced(u, s, a, b, sorted) ==
  u = [k \in 1 .. SIZE |-> IF k \in a + 1 .. b THEN sorted[k - a] ELSE s[k]]

\* What writing a slice back sorted does: the array keeps its numbers, and the other cells.
WrittenBack(u, s, a, b) ==
  /\ u \in Arrays /\ SortedCells(u, a, b)
  /\ \A V : Count(u, V, 0, SIZE) = Count(s, V, 0, SIZE)
  /\ \A k \in (1 .. SIZE) \ (a + 1 .. b) : u[k] = s[k]

\* When a slice is written back sorted, the array keeps its numbers, and the other cells.
LEMMA WriteBack ==
  ASSUME NEW s \in Arrays, NEW a \in Nat, NEW b \in Nat, a <= b, b <= SIZE,
         NEW sorted \in Sorts(SubSeq(s, a + 1, b)), NEW u, Replaced(u, s, a, b, sorted)
  PROVE  WrittenBack(u, s, a, b)
<1> DEFINE x == SubSeq(s, a + 1, b)
           d == b - a
<1>0. SIZE \in Nat /\ d \in Nat /\ d + a = b
  BY StatsAssumption
<1>1. /\ x \in Seq(Int) /\ Len(x) = d
      /\ \A k \in 1 .. d : x[k] = s[k + a]
      /\ \A V : Count(x, V, 0, d) = Count(s, V, a, b)
  BY Segment, Zenon
<1> HIDE DEF x, d
<1>2. PICK p \in Bijection(1 .. d, 1 .. d) : sorted = [k \in 1 .. d |-> x[p[k]]]
  <2>1. DOMAIN x = 1 .. d
    BY <1>1
  <2>2. \E p \in Bijection(DOMAIN x, DOMAIN x) : sorted = [k \in DOMAIN x |-> x[p[k]]]
    BY DEF Sorts, x
  <2>3. QED
    BY <2>1, <2>2
<1>3. \A k \in 1 .. d : p[k] \in 1 .. d /\ sorted[k] = x[p[k]] /\ sorted[k] \in Int
  <2>1. p \in [1 .. d -> 1 .. d]
    BY DEF Bijection, Injection
  <2>2. \A k \in 1 .. d : x[k] \in Int
    BY <1>1
  <2>3. \A k \in 1 .. d : p[k] \in 1 .. d /\ sorted[k] = x[p[k]]
    BY <1>2, <2>1
  <2>4. QED
    BY <2>2, <2>3
<1>4. \A j, k \in 1 .. d : j <= k => sorted[j] <= sorted[k]
  <2>1. Ascending(sorted)
    BY DEF Sorts
  <2>2. QED
    BY <1>2, <2>1 DEF Ascending
<1>5. \A k \in a + 1 .. b : k - a \in 1 .. d /\ k \in 1 .. SIZE /\ u[k] = sorted[k - a]
  BY <1>0 DEF Replaced
<1>6. \A k \in (1 .. SIZE) \ (a + 1 .. b) : u[k] = s[k]
  BY <1>0 DEF Replaced
<1>7. u \in Arrays
  <2>1. \A k \in 1 .. SIZE : u[k] \in Int
    BY <1>3, <1>5, <1>6 DEF Arrays
  <2>2. QED
    BY <2>1 DEF Arrays, Replaced
<1>8. SortedCells(u, a, b)
  <2>1. ASSUME NEW j \in a + 1 .. b, NEW k \in a + 1 .. b, j <= k PROVE u[j] <= u[k]
    <3>1. j - a \in 1 .. d /\ k - a \in 1 .. d /\ j - a <= k - a
      BY <1>5, <2>1
    <3>2. QED
      BY <1>4, <1>5, <3>1
  <2>2. QED
    BY <2>1 DEF SortedCells
<1>9. ASSUME NEW V PROVE Count(u, V, 0, SIZE) = Count(s, V, 0, SIZE)
  <2>1. Count(u, V, 0, a) = Count(s, V, 0, a)
    <3>1. \A k \in 0 + 1 .. a : u[k] = s[k]
      BY <1>0, <1>6
    <3>2. QED
      BY <3>1, CountAgree
  <2>2. Count(u, V, b, SIZE) = Count(s, V, b, SIZE)
    <3>1. \A k \in b + 1 .. SIZE : u[k] = s[k]
      BY <1>0, <1>6
    <3>2. QED
      BY <1>0, <3>1, CountAgree
  <2>3. Count(u, V, a, b) = Count(s, V, a, b)
    <3>1. Count(sorted, V, 0, d) = Count(x, V, 0, d)
      BY <1>0, <1>3, CountPermuted
    <3>2. Count(sorted, V, 0, d) = Count(u, V, 0 + a, d + a)
      <4>1. Shifted(sorted, u, 0, d, a)
        <5>1. \A k \in 1 .. d : k + a \in a + 1 .. b /\ (k + a) - a = k
          BY <1>0
        <5>2. QED
          BY <1>5, <5>1 DEF Shifted
      <4>2. QED
        BY <1>0, <4>1, CountShift
    <3>3. 0 + a = a /\ d + a = b
      BY <1>0
    <3>4. QED
      BY <1>1, <3>1, <3>2, <3>3
  <2>4. /\ Count(u, V, 0, SIZE) = Count(u, V, 0, a) + Count(u, V, a, SIZE)
        /\ Count(u, V, a, SIZE) = Count(u, V, a, b) + Count(u, V, b, SIZE)
    BY <1>0, CountSplit
  <2>5. /\ Count(s, V, 0, SIZE) = Count(s, V, 0, a) + Count(s, V, a, SIZE)
        /\ Count(s, V, a, SIZE) = Count(s, V, a, b) + Count(s, V, b, SIZE)
    BY <1>0, CountSplit
  <2>6. QED
    BY <2>1, <2>2, <2>3, <2>4, <2>5
<1>10. QED
  BY <1>6, <1>7, <1>8, <1>9 DEF WrittenBack

\* u is what the merger makes of the array.
AllMerged(u, size, part) ==
  u = Merged(size, part) \o SubSeq(array, size * part + 1, SIZE)

\* It keeps the numbers and sorts the cells of all slices.
LEMMA MergeAll ==
  ASSUME array \in Arrays, NEW size \in Nat, NEW part \in Nat, size * part <= SIZE,
         SlicesSorted(size, part), NEW u, AllMerged(u, size, part)
  PROVE  /\ u \in Arrays /\ SortedCells(u, 0, size * part)
         /\ \A V : Count(u, V, 0, SIZE) = Count(array, V, 0, SIZE)
<1> DEFINE m == Merged(size, part)
           c == size * part
           tail == SubSeq(array, c + 1, SIZE)
<1>0. SIZE \in Nat /\ c \in Nat /\ c <= SIZE
  BY StatsAssumption, Product
<1>1. /\ m \in Seq(Int) /\ Len(m) = c /\ Ascending(m)
      /\ \A V : Count(m, V, 0, c) = Count(array, V, 0, c)
  <2>1. MergedCells(m, size, 0, size, part)
    BY MergedRight
  <2>2. 0 * part = 0 /\ (0 + size) * part = c
    OBVIOUS
  <2> HIDE DEF m
  <2>3. QED
    BY <2>1, <2>2 DEF MergedCells
<1>2. /\ tail \in Seq(Int) /\ Len(tail) = SIZE - c
      /\ \A V : Count(tail, V, 0, SIZE - c) = Count(array, V, c, SIZE)
  <2>1. SIZE <= SIZE
    BY <1>0
  <2> HIDE DEF c
  <2>2. QED
    BY <1>0, <2>1, Segment, Zenon
<1> HIDE DEF m, c, tail
<1>3. u = m \o tail
  BY DEF m, tail, c, AllMerged
<1>4. /\ u \in Seq(Int) /\ Len(u) = SIZE
      /\ \A k \in 1 .. c : u[k] = m[k]
      /\ \A k \in 1 .. SIZE - c : u[k + c] = tail[k]
  <2> DEFINE d == SIZE - c
  <2>1. d \in Nat /\ Len(tail) = d /\ c + d = SIZE
    BY <1>0, <1>2
  <2> HIDE DEF d
  <2>2. u \in Seq(Int) /\ Len(u) = c + d
    <3>1. m \o tail \in Seq(Int) /\ Len(m \o tail) = Len(m) + Len(tail)
      BY <1>1, <1>2
    <3>2. QED
      BY <1>1, <1>3, <2>1, <3>1
  <2>3. \A k \in 1 .. c : (m \o tail)[k] = m[k]
    BY <1>0, <1>1, <1>2, <2>1
  <2>4. \A k \in 1 .. d : (m \o tail)[k + c] = tail[k]
    BY <1>0, <1>1, <1>2, <2>1, SMTT(30)
  <2>5. QED
    BY <1>3, <2>1, <2>2, <2>3, <2>4 DEF d
<1>5. u \in Arrays
  <2>1. DOMAIN u = 1 .. SIZE /\ u = [k \in DOMAIN u |-> u[k]]
        /\ \A k \in DOMAIN u : u[k] \in Int
    BY <1>4
  <2>2. QED
    BY <2>1 DEF Arrays
<1>6. \A k \in 1 .. c : u[k] = m[k]
  BY <1>4
<1>7. \A k \in 1 .. SIZE - c : u[k + c] = tail[k]
  BY <1>4
<1>8. SortedCells(u, 0, c)
  <2>1. DOMAIN m = 1 .. c
    BY <1>1
  <2>2. \A j, k \in 1 .. c : j <= k => m[j] <= m[k]
    BY <1>1, <2>1 DEF Ascending
  <2>3. \A k : k \in 0 + 1 .. c <=> k \in 1 .. c
    OBVIOUS
  <2>4. QED
    BY <1>6, <2>2, <2>3 DEF SortedCells
<1>9. ASSUME NEW V PROVE Count(u, V, 0, SIZE) = Count(array, V, 0, SIZE)
  <2>1. Count(u, V, 0, c) = Count(m, V, 0, c)
    <3>1. \A k \in 0 + 1 .. c : u[k] = m[k]
      BY <1>6
    <3>2. QED
      BY <1>0, <3>1, CountAgree
  <2>2. Count(tail, V, 0, SIZE - c) = Count(u, V, c, SIZE)
    <3> DEFINE d == SIZE - c
    <3>1. d \in Int /\ 0 + c = c /\ d + c = SIZE
      BY <1>0
    <3>2. Shifted(tail, u, 0, d, c)
      BY <1>7 DEF Shifted
    <3> HIDE DEF d
    <3>3. Count(tail, V, 0, d) = Count(u, V, 0 + c, d + c)
      BY <1>0, <3>1, <3>2, CountShift
    <3>4. QED
      BY <3>1, <3>3 DEF d
  <2>3. Count(u, V, 0, SIZE) = Count(u, V, 0, c) + Count(u, V, c, SIZE)
    BY <1>0, CountSplit
  <2>4. Count(array, V, 0, SIZE) = Count(array, V, 0, c) + Count(array, V, c, SIZE)
    BY <1>0, CountSplit
  <2>5. QED
    BY <1>1, <1>2, <2>1, <2>2, <2>3, <2>4
<1>10. QED
  BY <1>5, <1>8, <1>9 DEF c
-----------------------------------------------------------------------------
(***************************************************************************)
(* The numbers of a file, and sums.                                        *)
(***************************************************************************)

\* The loop of FlattenSeq: what the first k sequences are together.
Flattens(f, s) ==
  /\ f[1] = s[1]
  /\ \A k \in 2 .. Len(s) : f[k] = f[k - 1] \o s[k]

\* FlattenSeq is the result of that loop.
LEMMA FlattenLoop ==
  ASSUME NEW s \in Seq(Seq(Int)), s # <<>>
  PROVE  \E f \in [1 .. Len(s) -> Seq(Int)] : Flattens(f, s) /\ FlattenSeq(s) = f[Len(s)]
<1> DEFINE N == Len(s)
           flatten[i \in 1 .. N] == IF i = 1 THEN s[i] ELSE flatten[i - 1] \o s[i]
           T == Seq(Int)
           F == [p \in T \X (1 .. N - 1) |-> p[1] \o s[p[2] + 1]]
<1>0. N \in Nat /\ N # 0 /\ N - 1 \in Nat /\ \A k \in 1 .. N : s[k] \in T
  OBVIOUS
<1>1. FlattenSeq(s) = flatten[N]
  BY <1>0 DEF FlattenSeq
<1>2. flatten = [i \in 1 .. N |-> IF i = 1 THEN s[i] ELSE flatten[i - 1] \o s[i]]
  <2>1. F \in [T \X (1 .. N - 1) -> T] /\ s[1] \in T
    <3>1. ASSUME NEW p \in T \X (1 .. N - 1) PROVE p[1] \o s[p[2] + 1] \in T
      <4>1. p[1] \in T /\ p[2] \in 1 .. N - 1
        OBVIOUS
      <4>2. s[p[2] + 1] \in T
        BY <1>0, <4>1
      <4>3. QED
        BY <4>1, <4>2
    <3>2. s[1] \in T
      BY <1>0
    <3> HIDE DEF T, N, flatten
    <3>3. QED
      BY <3>1, <3>2
  <2> DEFINE M == N - 1
             base == s[1]
  <2>2. PICK g \in [0 .. M -> T] : g[0] = base /\ \A k \in 1 .. M : g[k] = F[<<g[k - 1], k>>]
    <3>1. \E g \in [0 .. M -> T] : Iterates(g, M, base, F)
      <4> HIDE DEF F, T, N, flatten
      <4>1. M \in Nat
        BY <1>0
      <4> HIDE DEF M, base
      <4>2. F \in [T \X (1 .. M) -> T] /\ base \in T
        BY <2>1 DEF M, base
      <4>3. QED
        BY <4>1, <4>2, IterateExists, Zenon
    <3> HIDE DEF F, T, M, N, base, flatten
    <3> QED BY <3>1 DEF Iterates
  <2> DEFINE f == [i \in 1 .. N |-> g[i - 1]]
  <2>3. ASSUME NEW i \in 1 .. N PROVE f[i] = IF i = 1 THEN s[i] ELSE f[i - 1] \o s[i]
    <3>1. CASE i = 1
      BY <2>2, <3>1
    <3>2. CASE i # 1
      <4>1. i - 1 \in 1 .. M /\ i - 1 \in 1 .. N /\ i - 1 \in 0 .. M /\ (i - 1) - 1 \in 0 .. M
            /\ (i - 1) + 1 = i
        BY <1>0, <3>2
      <4>2. f[i] = g[i - 1] /\ f[i - 1] = g[(i - 1) - 1]
        BY <4>1
      <4>3. g[i - 1] = F[<<g[(i - 1) - 1], i - 1>>] /\ g[(i - 1) - 1] \in T
        BY <2>2, <4>1
      <4>4. F[<<g[(i - 1) - 1], i - 1>>] = g[(i - 1) - 1] \o s[(i - 1) + 1]
        <5> HIDE DEF T, f, flatten
        <5> QED BY <4>1, <4>3
      <4> HIDE DEF F, T, f, flatten
      <4>5. QED
        BY <3>2, <4>1, <4>2, <4>3, <4>4
    <3>3. QED
      BY <3>1, <3>2
  <2>4. f = [i \in 1 .. N |-> IF i = 1 THEN s[i] ELSE f[i - 1] \o s[i]]
    <3>1. f = [i \in 1 .. N |-> f[i]]
      OBVIOUS
    <3> HIDE DEF f, F, flatten
    <3>2. QED
      BY <2>3, <3>1
  <2> HIDE DEF f
  <2>5. QED
    BY <2>4
<1> HIDE DEF flatten, F
<1>3. \A i \in 1 .. N : flatten[i] = IF i = 1 THEN s[i] ELSE flatten[i - 1] \o s[i]
  BY <1>2
<1>4. flatten[1] = s[1] /\ \A k \in 2 .. N : flatten[k] = flatten[k - 1] \o s[k]
  <2>1. 1 \in 1 .. N /\ \A k \in 2 .. N : k \in 1 .. N /\ k # 1
    BY <1>0
  <2> HIDE DEF N
  <2>2. QED
    BY <1>3, <2>1, Zenon
<1>5. \A k \in 1 .. N : flatten[k] \in T
  <2> DEFINE P == {k \in 0 .. N - 1 : flatten[k + 1] \in T}
  <2>1. 0 \in P
    BY <1>0, <1>4
  <2>2. ASSUME NEW k \in 1 .. N - 1, k - 1 \in P PROVE k \in P
    <3>1. flatten[k] \in T
      BY <2>2
    <3>2. k + 1 \in 2 .. N /\ (k + 1) - 1 = k /\ s[k + 1] \in T
      BY <1>0
    <3>3. flatten[k + 1] = flatten[k] \o s[k + 1]
      BY <1>4, <3>2
    <3>4. flatten[k + 1] \in T
      BY <3>1, <3>2, <3>3
    <3>5. QED
      BY <1>0, <3>4
  <2>3. 0 .. N - 1 \subseteq P
    <3> HIDE DEF P, N, T
    <3> QED BY <1>0, <2>1, <2>2, IntervalInduction
  <2>4. ASSUME NEW k \in 1 .. N PROVE flatten[k] \in T
    <3>1. k - 1 \in 0 .. N - 1 /\ (k - 1) + 1 = k
      BY <1>0
    <3>2. flatten[(k - 1) + 1] \in T
      <4> HIDE DEF N, T
      <4> QED BY <2>3, <3>1
    <3>3. QED
      BY <3>1, <3>2
  <2>5. QED
    BY <2>4
<1>6. flatten \in [1 .. N -> T]
  BY <1>2, <1>5
<1>7. QED
  BY <1>1, <1>4, <1>6 DEF Flattens

\* The numbers of a file are numbers.
LEMMA NumbersType ==
  ASSUME file \in Files
  PROVE  file \in Seq(Field) /\ file \in Seq(Seq(Int)) /\ Numbers \in Seq(Int)
<1>1. file \in Seq(Field)
  BY StatsAssumption
<1>2. file \in Seq(Seq(Int))
  <2>1. Field \subseteq Seq(Int)
    BY DEF Field
  <2> HIDE DEF Field
  <2>2. QED
    BY <1>1, <2>1
<1>3. CASE file = <<>>
  BY <1>1, <1>2, <1>3 DEF Numbers, FlattenSeq
<1>4. CASE file # <<>>
  <2>1. PICK f \in [1 .. Len(file) -> Seq(Int)] : Numbers = f[Len(file)]
    BY <1>2, <1>4, FlattenLoop, Zenon DEF Numbers
  <2>2. Len(file) \in 1 .. Len(file)
    BY <1>1, <1>4
  <2>3. QED
    BY <1>1, <1>2, <2>1, <2>2
<1>5. QED
  BY <1>3, <1>4

\* A field that is not empty is one number.
LEMMA OneField ==
  ASSUME NEW y \in Field, y # <<>> PROVE Len(y) = 1 /\ y[1] \in Int
<1>1. y \in Seq(Int) /\ Len(y) <= 1
  BY DEF Field
<1>2. Len(y) \in Nat /\ (Len(y) = 0 => y = <<>>)
  BY <1>1
<1>3. Len(y) = 1
  <2> DEFINE l == Len(y)
  <2>1. l \in Nat /\ l <= 1 /\ l # 0
    BY <1>1, <1>2, Zenon
  <2> HIDE DEF l
  <2>2. l = 1
    BY <2>1
  <2>3. QED
    BY <2>2 DEF l
<1>4. QED
  BY <1>1, <1>3

\* u is g, of length N, and behind it y, of length M.
Joined(u, g, y, N, M) ==
  /\ Len(u) = N + M
  /\ \A j \in 1 .. N : u[j] = g[j]
  /\ \A j \in 1 .. M : u[j + N] = y[j]

\* Two sequences one after the other.
LEMMA Concatenation ==
  ASSUME NEW g \in Seq(Int), NEW y \in Seq(Int)
  PROVE  Joined(g \o y, g, y, Len(g), Len(y))
<1> DEFINE u == g \o y
           N == Len(g)
           M == Len(y)
<1>0. N \in Nat /\ M \in Nat
  OBVIOUS
<1>1. /\ Len(u) = N + M
      /\ \A i \in 1 .. N + M : u[i] = IF i <= N THEN g[i] ELSE y[i - N]
  BY ConcatProperties
<1> HIDE DEF u, N, M
<1>2. \A j \in 1 .. N : u[j] = g[j]
  BY <1>0, <1>1
<1>3. ASSUME NEW j \in 1 .. M PROVE u[j + N] = y[j]
  <2>1. j + N \in 1 .. N + M /\ ~ (j + N <= N) /\ (j + N) - N = j
    BY <1>0
  <2>2. QED
    BY <1>1, <2>1
<1>4. QED
  BY <1>1, <1>2, <1>3 DEF u, N, M, Joined

\* A regular file of N fields and a blank at the end has N numbers.
LEMMA NumbersRegular ==
  ASSUME file \in Files, Regular, NEW N \in Nat, Len(file) = N + 1
  PROVE  /\ Numbers \in Seq(Int) /\ Len(Numbers) = N
         /\ \A k \in 1 .. N : file[k] # <<>> /\ Numbers[k] = file[k][1]
<1>1. /\ file \in Seq(Field) /\ file \in Seq(Seq(Int)) /\ Numbers \in Seq(Int)
      /\ file # <<>> /\ file[N + 1] = <<>>
      /\ \A k \in 1 .. N : file[k] # <<>>
  BY NumbersType DEF Regular, Last
<1>2. \A k \in 1 .. N : Len(file[k]) = 1
  <2>1. ASSUME NEW k \in 1 .. N PROVE Len(file[k]) = 1
    <3>1. file[k] \in Field /\ file[k] # <<>>
      BY <1>1
    <3>2. QED
      BY <3>1, OneField, Zenon
  <2>2. QED
    BY <2>1
<1>3. PICK f \in [1 .. N + 1 -> Seq(Int)] : Flattens(f, file) /\ Numbers = f[N + 1]
  BY <1>1, FlattenLoop, Zenon DEF Numbers
<1> DEFINE Good(k) == Len(f[k]) = k /\ \A j \in 1 .. k : f[k][j] = file[j][1]
           P == {k \in 0 .. N : k # 0 => Good(k)}
<1>4. 0 \in P
  OBVIOUS
<1>5. ASSUME NEW k \in 1 .. N, k - 1 \in P PROVE k \in P
  <2>1. f[k] \in Seq(Int) /\ file[k] \in Seq(Int) /\ Len(file[k]) = 1
    <3> HIDE DEF P
    <3>1. k \in 1 .. N + 1 /\ k \in 1 .. Len(file)
      OBVIOUS
    <3>2. file[k] \in Seq(Int)
      BY <1>1, <3>1
    <3>3. QED
      BY <1>2, <3>1, <3>2
  <2>2. CASE k = 1
    BY <1>3, <2>1, <2>2 DEF Flattens
  <2>3. CASE k # 1
    <3>1. f[k] = f[k - 1] \o file[k] /\ f[k - 1] \in Seq(Int) /\ Good(k - 1)
      <4>1. k \in 2 .. Len(file) /\ k - 1 \in 1 .. N + 1 /\ k - 1 # 0
        BY <2>3
      <4>2. f[k] = f[k - 1] \o file[k]
        BY <1>3, <4>1 DEF Flattens
      <4>3. QED
        BY <1>5, <4>1, <4>2
    <3> DEFINE g == f[k - 1]
               x == file[k]
               u == f[k]
    <3>2. /\ u = g \o x /\ g \in Seq(Int) /\ x \in Seq(Int) /\ u \in Seq(Int) /\ Len(x) = 1
          /\ Len(g) = k - 1 /\ \A j \in 1 .. k - 1 : g[j] = file[j][1]
      BY <2>1, <3>1
    <3>3. x[1] = file[k][1]
      OBVIOUS
    <3> HIDE DEF g, x, u
    <3>4. /\ Len(u) = (k - 1) + 1 /\ \A j \in 1 .. k - 1 : u[j] = g[j]
          /\ \A j \in 1 .. 1 : u[j + (k - 1)] = x[j]
      <4>1. Joined(g \o x, g, x, Len(g), Len(x))
        BY <3>2, Concatenation, Zenon
      <4>2. Joined(u, g, x, k - 1, 1)
        BY <3>2, <4>1, Zenon
      <4>3. QED
        BY <4>2 DEF Joined
    <3>5. (k - 1) + 1 = k /\ 1 + (k - 1) = k /\ 1 \in 1 .. 1
      OBVIOUS
    <3>6. /\ Len(u) = k /\ u[k] = x[1] /\ \A j \in 1 .. k - 1 : u[j] = g[j]
      BY <3>2, <3>4, <3>5, Zenon
    <3>7. ASSUME NEW j \in 1 .. k PROVE u[j] = file[j][1]
      <4>1. CASE j = k
        BY <3>3, <3>6, <4>1
      <4>2. CASE j # k
        <5>1. j \in 1 .. k - 1
          BY <4>2
        <5>2. QED
          BY <3>2, <3>6, <5>1, Zenon
      <4>3. QED
        BY <4>1, <4>2
    <3>8. QED
      BY <3>6, <3>7 DEF u
  <2>4. QED
    BY <2>2, <2>3
<1>6. 0 .. N \subseteq P
  <2> HIDE DEF P
  <2> QED BY <1>4, <1>5, IntervalInduction
<1>7. Len(Numbers) = N /\ \A k \in 1 .. N : Numbers[k] = file[k][1]
  <2>1. CASE N = 0
    <3>1. Numbers = <<>>
      BY <1>1, <1>3, <2>1 DEF Flattens
    <3>2. QED
      BY <2>1, <3>1
  <2>2. CASE N # 0
    <3>1. N + 1 \in 2 .. Len(file) /\ (N + 1) - 1 = N
      BY <2>2
    <3>2. Numbers = f[N] \o file[N + 1]
      BY <1>3, <3>1 DEF Flattens
    <3>3. f[N] \in Seq(Int)
      BY <2>2
    <3>4. Numbers = f[N]
      BY <1>1, <3>2, <3>3
    <3>5. Good(N)
      BY <1>6, <2>2
    <3>6. QED
      BY <3>4, <3>5
  <2>3. QED
    BY <2>1, <2>2
<1>8. QED
  BY <1>1, <1>7

\* What FoldLeft makes of numbers and +.
Sum(s) == FoldLeft(+, 0, s)

\* A set of indices has a greatest one.
LEMMA Greatest ==
  ASSUME NEW N \in Nat, NEW S \in SUBSET (1 .. N), S # {}
  PROVE  Max(S) \in S /\ \A y \in S : Max(S) >= y
<1> DEFINE Top(A) == \E x \in A : \A y \in A : x >= y
           P == {m \in 0 .. N : \A A \in SUBSET (1 .. m) : A # {} => Top(A)}
<1>1. 0 \in P
  <2>1. 1 .. 0 = {} /\ 0 \in 0 .. N
    OBVIOUS
  <2> HIDE DEF Top
  <2>2. QED
    BY <2>1
<1>2. ASSUME NEW m \in 1 .. N, m - 1 \in P PROVE m \in P
  <2>1. ASSUME NEW A \in SUBSET (1 .. m), A # {} PROVE Top(A)
    <3>1. CASE m \in A
      <4>1. \A y \in A : m >= y
        OBVIOUS
      <4>2. QED
        BY <3>1, <4>1
    <3>2. CASE m \notin A
      <4>1. A \in SUBSET (1 .. m - 1)
        BY <3>2
      <4>2. QED
        BY <1>2, <2>1, <4>1
    <3>3. QED
      BY <3>1, <3>2
  <2> HIDE DEF Top
  <2>2. QED
    BY <2>1
<1>3. 0 .. N \subseteq P
  <2> HIDE DEF P
  <2> QED BY <1>1, <1>2, IntervalInduction
<1>4. Top(S)
  <2> HIDE DEF Top
  <2> QED BY <1>3
<1>5. QED
  BY <1>4, Zenon DEF Max

\* The sums over sets of indices: iter[S] as FoldLeft computes it, from any element of S.
Sums(iter, s) ==
  /\ iter[{}] = 0
  /\ \A S \in SUBSET (1 .. Len(s)) : iter[S] \in Int
  /\ \A S \in SUBSET (1 .. Len(s)) : \A x \in S : iter[S] = iter[S \ {x}] + s[x]

\* There are such sums.
LEMMA SumsExist ==
  ASSUME NEW s \in Seq(Int)
  PROVE  \E iter \in [SUBSET (1 .. Len(s)) -> Int] : Sums(iter, s)
<1> DEFINE N == Len(s)
           D == SUBSET (1 .. N)
           T == [D -> Int]
           base == [S \in D |-> 0]
           F == [p \in T \X (1 .. N) |->
                   [S \in D |-> p[1][S] + IF p[2] \in S THEN s[p[2]] ELSE 0]]
<1>0. N \in Nat /\ \A k \in 1 .. N : s[k] \in Int
  OBVIOUS
<1> HIDE DEF N
<1>1. base \in T
  OBVIOUS
<1>2. F \in [T \X (1 .. N) -> T]
  <2>1. ASSUME NEW p \in T \X (1 .. N)
        PROVE  [S \in D |-> p[1][S] + IF p[2] \in S THEN s[p[2]] ELSE 0] \in T
    <3>1. p[1] \in T /\ p[2] \in 1 .. N
      OBVIOUS
    <3>2. s[p[2]] \in Int
      BY <1>0, <3>1
    <3> DEFINE q == p[1]
               j == p[2]
    <3> HIDE DEF D
    <3>3. ASSUME NEW S \in D PROVE q[S] + (IF j \in S THEN s[j] ELSE 0) \in Int
      <4>1. q[S] \in Int
        BY <3>1
      <4> HIDE DEF q, j
      <4>2. s[j] \in Int
        BY <3>2 DEF j
      <4>3. QED
        BY <4>1, <4>2
    <3>4. QED
      BY <3>3
  <2> HIDE DEF T, D
  <2>2. QED
    BY <2>1
<1>3. PICK h \in [0 .. N -> T] :
        h[0] = base /\ \A k \in 1 .. N : h[k] = F[<<h[k - 1], k>>]
  <2>1. \E h \in [0 .. N -> T] : Iterates(h, N, base, F)
    <3> HIDE DEF F, T, base
    <3> QED BY <1>0, <1>1, <1>2, IterateExists, Zenon
  <2> HIDE DEF F, T, base
  <2>2. QED
    BY <2>1 DEF Iterates
<1>4. ASSUME NEW k \in 1 .. N, NEW S \in D
      PROVE  h[k][S] = h[k - 1][S] + IF k \in S THEN s[k] ELSE 0
  <2> HIDE DEF T, base, D
  <2>1. k - 1 \in 0 .. N /\ h[k - 1] \in T
    <3> HIDE DEF F
    <3>1. k - 1 \in 0 .. N
      BY <1>0
    <3>2. QED
      BY <3>1
  <2>2. h[k] = [A \in D |-> h[k - 1][A] + IF k \in A THEN s[k] ELSE 0]
    BY <1>3, <2>1
  <2> HIDE DEF F
  <2>3. QED
    BY <2>2
<1>5. \A k \in 0 .. N : \A S \in D : h[k][S] \in Int
  OBVIOUS
<1>6. h[0] = base
  BY <1>3
<1> HIDE DEF F, T
<1> DEFINE Good(k) == \A S \in D : \A x \in S :
                        h[k][S] = h[k][S \ {x}] + IF x <= k THEN s[x] ELSE 0
           P == {k \in 0 .. N : Good(k)}
<1>7. 0 \in P
  <2>1. ASSUME NEW S \in D, NEW x \in S
        PROVE  h[0][S] = h[0][S \ {x}] + IF x <= 0 THEN s[x] ELSE 0
    <3>1. S \ {x} \in D /\ (IF x <= 0 THEN s[x] ELSE 0) = 0
      OBVIOUS
    <3>2. h[0][S] = 0 /\ h[0][S \ {x}] = 0
      BY <1>6, <3>1
    <3> HIDE DEF D, base
    <3>3. QED
      BY <3>1, <3>2
  <2>2. 0 \in 0 .. N
    BY <1>0
  <2>3. QED
    BY <2>1, <2>2
<1>8. ASSUME NEW k \in 1 .. N, k - 1 \in P PROVE k \in P
  <2>1. ASSUME NEW S \in D, NEW x \in S
        PROVE  h[k][S] = h[k][S \ {x}] + IF x <= k THEN s[x] ELSE 0
    <3> DEFINE U == S \ {x}
    <3>1. U \in D /\ x \in 1 .. N /\ (k \in U <=> k \in S /\ k # x)
      OBVIOUS
    <3>2. h[k - 1][S] = h[k - 1][U] + IF x <= k - 1 THEN s[x] ELSE 0
      BY <1>8
    <3>3. h[k][S] = h[k - 1][S] + IF k \in S THEN s[k] ELSE 0
      BY <1>4
    <3> HIDE DEF U
    <3>4. h[k][U] = h[k - 1][U] + IF k \in U THEN s[k] ELSE 0
      BY <1>4, <3>1
    <3>5. h[k - 1][S] \in Int /\ h[k - 1][U] \in Int /\ h[k][S] \in Int /\ h[k][U] \in Int
      <4>1. k - 1 \in 0 .. N /\ k \in 0 .. N
        BY <1>0
      <4>2. S \in D
        OBVIOUS
      <4> HIDE DEF D
      <4>3. QED
        BY <1>5, <3>1, <4>1, <4>2
    <3>6. s[k] \in Int /\ s[x] \in Int
      BY <1>0, <3>1
    <3>7. h[k][S] = h[k][U] + IF x <= k THEN s[x] ELSE 0
      <4>1. CASE x = k
        BY <3>1, <3>2, <3>3, <3>4, <3>5, <3>6, <4>1
      <4>2. CASE x # k
        <5>1. x <= k <=> x <= k - 1
          BY <3>1, <4>2
        <5>2. QED
          BY <3>1, <3>2, <3>3, <3>4, <3>5, <3>6, <4>2, <5>1, SMTT(30)
      <4>3. QED
        BY <4>1, <4>2
    <3>8. QED
      BY <3>7 DEF U
  <2>2. k \in 0 .. N
    BY <1>0
  <2>3. QED
    BY <2>1, <2>2
<1>9. 0 .. N \subseteq P
  <2> HIDE DEF P
  <2> QED BY <1>0, <1>7, <1>8, IntervalInduction
<1>10. Good(N)
  <2>1. N \in 0 .. N
    BY <1>0
  <2> HIDE DEF Good
  <2>2. QED
    BY <1>9, <2>1
<1>11. ASSUME NEW S \in D, NEW x \in S PROVE h[N][S] = h[N][S \ {x}] + s[x]
  <2>1. x <= N
    BY <1>0
  <2>2. QED
    BY <1>10, <2>1
<1>12. h[N][{}] = 0
  <2> DEFINE Q == {k \in 0 .. N : h[k][{}] = 0}
  <2>1. {} \in D /\ \A k \in 1 .. N : k \notin {}
    OBVIOUS
  <2>2. 0 \in Q
    BY <1>0, <1>6, <2>1
  <2>3. ASSUME NEW k \in 1 .. N, k - 1 \in Q PROVE k \in Q
    <3>1. h[k][{}] = h[k - 1][{}] + 0
      BY <1>4, <2>1
    <3>2. h[k - 1][{}] = 0 /\ k \in 0 .. N
      BY <1>0, <2>3
    <3>3. QED
      BY <3>1, <3>2
  <2>4. 0 .. N \subseteq Q
    <3> HIDE DEF Q
    <3> QED BY <1>0, <2>2, <2>3, IntervalInduction
  <2>5. QED
    BY <1>0, <2>4
<1>13. h[N] \in [D -> Int]
  <2>1. N \in 0 .. N
    BY <1>0
  <2> HIDE DEF D
  <2>2. QED
    BY <2>1 DEF T
<1>14. Sums(h[N], s)
  <2>1. \A S \in D : h[N][S] \in Int
    <3> HIDE DEF D
    <3> QED BY <1>13
  <2>2. \A S \in D : \A x \in S : h[N][S] = h[N][S \ {x}] + s[x]
    BY <1>11
  <2> HIDE DEF D
  <2>3. D = SUBSET (1 .. Len(s))
    BY DEF D, N
  <2>4. QED
    BY <1>12, <2>1, <2>2, <2>3, Zenon DEF Sums
<1>15. QED
  BY <1>13, <1>14 DEF N

\* g adds the elements of s up, from whatever it starts with.
PrefixSums(g, s) == \A k \in 1 .. Len(s) : g[k] = g[k - 1] + s[k]

\* FoldLeft adds them up as well.
LEMMA SumIs ==
  ASSUME NEW s \in Seq(Int), NEW g \in [0 .. Len(s) -> Int], PrefixSums(g, s)
  PROVE  Sum(s) = g[Len(s)] - g[0]
<1> DEFINE N == Len(s)
           D == SUBSET (1 .. N)
           iter[S \in D] == IF S = {} THEN 0 ELSE iter[S \ {Max(S)}] + s[Max(S)]
<1>0. /\ N \in Nat /\ \A k \in 1 .. N : s[k] \in Int
      /\ DOMAIN s = 1 .. N
  OBVIOUS
<1>1. Sum(s) = iter[1 .. N]
  BY <1>0 DEF Sum, FoldLeft, MapThenFoldSet
<1>2. iter = [S \in D |-> IF S = {} THEN 0 ELSE iter[S \ {Max(S)}] + s[Max(S)]]
  <2>1. PICK f \in [D -> Int] : Sums(f, s)
    BY SumsExist
  <2>2. ASSUME NEW S \in D
        PROVE  f[S] = IF S = {} THEN 0 ELSE f[S \ {Max(S)}] + s[Max(S)]
    <3>1. CASE S = {}
      BY <2>1, <3>1 DEF Sums
    <3>2. CASE S # {}
      <4>1. Max(S) \in S
        BY <1>0, <3>2, Greatest
      <4>2. QED
        BY <2>1, <3>2, <4>1 DEF Sums
    <3>3. QED
      BY <3>1, <3>2
  <2>3. f = [S \in D |-> IF S = {} THEN 0 ELSE f[S \ {Max(S)}] + s[Max(S)]]
    <3> HIDE DEF D, iter
    <3> QED BY <2>2
  <2>4. QED
    BY <2>3
<1> HIDE DEF iter
<1> DEFINE P == {k \in 0 .. N : iter[1 .. k] = g[k] - g[0]}
<1>3. 0 \in P
  <2>1. 1 .. 0 = {} /\ {} \in D
    OBVIOUS
  <2>2. iter[1 .. 0] = 0 /\ g[0] \in Int /\ 0 \in 0 .. N
    BY <1>0, <1>2, <2>1
  <2>3. QED
    BY <2>2
<1>4. ASSUME NEW k \in 1 .. N, k - 1 \in P PROVE k \in P
  <2> DEFINE S == 1 .. k
  <2>1. S \in D /\ S # {} /\ S \ {k} = 1 .. k - 1 /\ k \in S /\ k \in 0 .. N
        /\ k - 1 \in 0 .. N
    BY <1>0
  <2>2. Max(S) = k
    <3>1. Max(S) \in S /\ \A y \in S : Max(S) >= y
      BY <1>0, <2>1, Greatest
    <3>2. QED
      BY <3>1
  <2> HIDE DEF S
  <2>3. iter[S] = iter[S \ {Max(S)}] + s[Max(S)]
    BY <1>2, <2>1
  <2>4. iter[S] = iter[1 .. k - 1] + s[k]
    BY <2>1, <2>2, <2>3
  <2>5. /\ iter[1 .. k - 1] = g[k - 1] - g[0] /\ g[k] = g[k - 1] + s[k]
        /\ g[k] \in Int /\ g[k - 1] \in Int /\ g[0] \in Int /\ s[k] \in Int
    <3>1. iter[1 .. k - 1] = g[k - 1] - g[0]
      BY <1>4
    <3>2. g[k] = g[k - 1] + s[k]
      BY DEF PrefixSums
    <3>3. 0 \in 0 .. N
      BY <1>0
    <3> HIDE DEF D, P
    <3>4. g[k] \in Int /\ g[k - 1] \in Int /\ g[0] \in Int
      BY <2>1, <3>3
    <3>5. QED
      BY <1>0, <3>1, <3>2, <3>4
  <2>6. iter[S] = g[k] - g[0]
    BY <2>4, <2>5
  <2>7. QED
    BY <2>1, <2>6 DEF S
<1>5. 0 .. N \subseteq P
  <2> HIDE DEF P, D
  <2> QED BY <1>0, <1>3, <1>4, IntervalInduction
<1>6. N \in P
  BY <1>0, <1>5
<1>7. QED
  BY <1>1, <1>6

\* Every sequence of numbers has such sums.
LEMMA PrefixSumsExist ==
  ASSUME NEW s \in Seq(Int) PROVE \E g \in [0 .. Len(s) -> Int] : PrefixSums(g, s)
<1> DEFINE N == Len(s)
           F == [p \in Int \X (1 .. N) |-> p[1] + s[p[2]]]
<1>1. N \in Nat /\ \A k \in 1 .. N : s[k] \in Int
  OBVIOUS
<1> HIDE DEF N
<1>2. F \in [Int \X (1 .. N) -> Int]
  <2>1. ASSUME NEW p \in Int \X (1 .. N) PROVE p[1] + s[p[2]] \in Int
    <3>1. p[1] \in Int /\ p[2] \in 1 .. N
      OBVIOUS
    <3>2. s[p[2]] \in Int
      BY <1>1, <3>1
    <3>3. QED
      BY <3>1, <3>2
  <2>2. QED
    BY <2>1
<1>3. \E g \in [0 .. N -> Int] : Iterates(g, N, 0, F)
  <2>1. 0 \in Int
    OBVIOUS
  <2> HIDE DEF F
  <2>2. QED
    BY <1>1, <1>2, <2>1, IterateExists, Zenon
<1>4. PICK g \in [0 .. N -> Int] : Iterates(g, N, 0, F)
  BY <1>3
<1>5. ASSUME NEW k \in 1 .. N PROVE g[k] = g[k - 1] + s[k]
  <2>1. g[k - 1] \in Int
    BY <1>1
  <2>2. g[k] = F[<<g[k - 1], k>>]
    <3> HIDE DEF F
    <3> QED BY <1>4 DEF Iterates
  <2>3. QED
    BY <2>1, <2>2
<1>6. QED
  BY <1>5 DEF PrefixSums, N
-----------------------------------------------------------------------------
(***************************************************************************)
(* The invariant.                                                          *)
(***************************************************************************)

\* Between NextCount and the end of the last run.
InRuns == pc \in {"create", "join", "merge", "answer"}

\* What is given, and the bounds that need this.
GivenInv ==
  /\ program \in {"mean", "median"} /\ file \in Files /\ args \in CommandLines
  /\ arg \in 1 .. Len(args) + 1 /\ t \in 0 .. NUMBER_TIME_AVG

\* The slices of this thread count are inside of the array.
SlicesInv ==
  /\ n \in Nat /\ partitionSize \in 0 .. SIZE /\ cur \in 0 .. n
  /\ array \in Arrays
  /\ InRuns => /\ n * partitionSize <= SIZE
               /\ t < NUMBER_TIME_AVG
               /\ DOMAIN worker = 0 .. n - 1 /\ DOMAIN local = 0 .. n - 1
               /\ DOMAIN temp_array = 0 .. n - 1

\* Who may be at work, and that nobody else works meanwhile.
ControlInv ==
  /\ \A i \in DOMAIN worker :
       /\ worker[i] \in {"none", "ready", "sorting", "done"}
       /\ worker[i] # "none" => \/ pc = "create" /\ i < cur
                                \/ pc = "join" /\ cur <= i
  /\ pc \in {"read", "next", "create", "join", "merge", "answer",
             "success", "failure", "crashed"}
  /\ pc \notin {"merge", "answer"} => helper = "none"
  /\ pc = "merge" => program = "median" /\ helper \in {"merger", "done"}
  /\ pc = "answer" => helper \in {"done", IF program = "median" THEN "find_median"
                                          ELSE "global_mean"}

\* The parameters of the combining threads.
AwsInv ==
  /\ aws \in [size : Nat, secondarySize : Nat]
  /\ pc = "merge" => aws = [size |-> n, secondarySize |-> partitionSize]
  /\ pc = "answer" => aws.size = IF program = "median" THEN SIZE ELSE n

\* Also while it is sorted the array holds the numbers of the file.
CountsInv ==
  program = "median" /\ pc \notin {"read", "failure"} =>
    /\ Numbers \in Seq(Int) /\ SIZE <= Len(Numbers)
    /\ \A V : Count(array, V, 0, SIZE) = Count(Numbers, V, 0, SIZE)

\* How far it is sorted: a slice when its worker is done, and all that the merger had.
SortInv ==
  program = "median" /\ InRuns =>
    /\ \A i \in DOMAIN worker :
         /\ worker[i] = "sorting" =>
              local[i] = SubSeq(array, i * partitionSize + 1, (i + 1) * partitionSize)
         /\ \/ worker[i] = "done"
            \/ pc = "join" /\ i < cur
            \/ pc = "merge" /\ helper = "merger"
            => SortedCells(array, i * partitionSize, (i + 1) * partitionSize)
    /\ (pc = "merge" /\ helper = "done") \/ pc = "answer" =>
         SortedCells(array, 0, n * partitionSize)
    /\ pc = "answer" /\ helper = "done" => answer = <<array[SIZE \div 2 + 1], 1>>

\* Only the median's workers sort.
SortersInv == \A i \in DOMAIN worker : worker[i] = "sorting" => program = "median"

\* The mean's array is the file, and each sum is that of a slice of it.
MeanInv ==
  program = "mean" /\ (InRuns \/ pc = "next") =>
    /\ Len(file) = SIZE + 1
    /\ array = [k \in 1 .. SIZE |-> IF file[k] = <<>> THEN 0 ELSE file[k][1]]
    /\ InRuns =>
         \A i \in DOMAIN worker :
           /\ worker[i] = "done" =>
                local[i] = <<Sum(SubSeq(array, i * partitionSize + 1, (i + 1) * partitionSize))>>
           /\ (pc = "join" /\ i < cur) \/ pc = "answer" =>
                temp_array[i] =
                  Sum(SubSeq(array, i * partitionSize + 1, (i + 1) * partitionSize))
    /\ pc = "answer" /\ helper = "done" =>
         answer = <<Sum([i \in 1 .. n |-> temp_array[i - 1]]), n * partitionSize>>

IInv == /\ GivenInv /\ SlicesInv /\ ControlInv /\ AwsInv
        /\ CountsInv /\ SortInv /\ SortersInv /\ MeanInv

-----------------------------------------------------------------------------
(***************************************************************************)
(* The steps.                                                              *)
(***************************************************************************)

\* The initial states satisfy the invariant.
LEMMA InitInv == Init => IInv
<1> SUFFICES ASSUME Init PROVE IInv
  OBVIOUS
<1> USE DEF Init
<1>1. GivenInv
  <2>1. args \in Seq(Nat)
    BY StatsAssumption
  <2>2. Len(args) \in Nat
    BY <2>1
  <2>3. QED
    BY <2>2, StatsAssumption DEF GivenInv
<1>2. SlicesInv
  BY StatsAssumption DEF SlicesInv, InRuns, Arrays
<1>3. ControlInv
  BY DEF ControlInv
<1>4. AwsInv
  BY DEF AwsInv
<1>5. CountsInv /\ SortInv /\ SortersInv /\ MeanInv
  BY DEF CountsInv, SortInv, SortersInv, MeanInv, InRuns
<1>6. QED
  BY <1>1, <1>2, <1>3, <1>4, <1>5 DEF IInv

\* What there is to know of what is given.
LEMMA GivenTypes ==
  ASSUME GivenInv
  PROVE  /\ args \in Seq(Nat) /\ Len(args) \in Nat
         /\ \A k \in 1 .. Len(args) : args[k] \in Nat
         /\ file \in Seq(Field) /\ Numbers \in Seq(Int)
<1>1. args \in Seq(Nat)
  BY StatsAssumption DEF GivenInv
<1>2. file \in Seq(Field) /\ Numbers \in Seq(Int)
  BY NumbersType DEF GivenInv
<1>3. QED
  BY <1>1, <1>2

\* median.c reads the numbers.
LEMMA ReadNumbersStep == IInv /\ ReadNumbers => IInv'
<1> SUFFICES ASSUME IInv, ReadNumbers PROVE IInv'
  OBVIOUS
<1>1. /\ GivenInv /\ SlicesInv /\ ControlInv /\ AwsInv
      /\ CountsInv /\ SortInv /\ SortersInv /\ MeanInv
  BY DEF IInv
<1>2. Numbers \in Seq(Int) /\ SIZE \in Nat
  BY <1>1, GivenTypes, StatsAssumption
<1>3. /\ pc = "read" /\ program = "median" /\ pc' \in {"next", "failure"}
      /\ input' = input /\ loop' = loop /\ cur' = cur /\ worker' = worker /\ local' = local
      /\ temp_array' = temp_array /\ aws' = aws /\ helper' = helper /\ answer' = answer
      /\ \/ Len(Numbers) >= SIZE /\ array' = SubSeq(Numbers, 1, SIZE)
         \/ pc' = "failure" /\ array' = array
  BY DEF ReadNumbers, NotRead
<1>4. GivenInv'
  BY <1>1, <1>3 DEF GivenInv, input, loop
<1>5. /\ array' \in Arrays
      /\ pc' = "next" => /\ SIZE <= Len(Numbers)
                         /\ \A k \in 1 .. SIZE : array'[k] = Numbers[k]
  <2>1. CASE Len(Numbers) >= SIZE /\ array' = SubSeq(Numbers, 1, SIZE)
    <3> DEFINE u == SubSeq(Numbers, 1, SIZE)
               s == Numbers
    <3>1. s \in Seq(Int) /\ SIZE <= Len(s)
      BY <1>2, <2>1
    <3> HIDE DEF s
    <3>2. /\ u \in Seq(Int) /\ Len(u) = SIZE /\ DOMAIN u = 1 .. SIZE
          /\ \A k \in 1 .. SIZE : u[k] = s[k]
      <4>1. u = SubSeq(s, 1, SIZE)
        BY DEF s
      <4> HIDE DEF u
      <4>2. u \in Seq(Int) /\ Len(u) = SIZE
        BY <1>2, <3>1, <4>1
      <4>3. \A k \in 1 .. SIZE : u[k] = s[k]
        BY <1>2, <3>1, <4>1
      <4>4. QED
        BY <4>2, <4>3
    <3> HIDE DEF u
    <3>3. u \in Arrays
      BY <3>2 DEF Arrays
    <3>4. array' = u
      BY <2>1 DEF u
    <3>5. QED
      BY <3>1, <3>2, <3>3, <3>4 DEF s
  <2>2. CASE pc' = "failure" /\ array' = array
    BY <1>1, <2>2 DEF SlicesInv
  <2>3. QED
    BY <1>3, <2>1, <2>2
<1>6. SlicesInv'
  BY <1>1, <1>3, <1>5 DEF SlicesInv, InRuns, loop
<1>7. ControlInv' /\ AwsInv' /\ SortersInv'
  BY <1>1, <1>3 DEF ControlInv, AwsInv, SortersInv, input, loop
<1>8. SortInv' /\ MeanInv'
  BY <1>3 DEF SortInv, MeanInv, InRuns, input
<1>9. CountsInv'
  <2>1. Numbers' = Numbers /\ program' = program
    BY <1>3 DEF Numbers, input
  <2>2. ASSUME pc' = "next", NEW V
        PROVE  Count(array', V, 0, SIZE) = Count(Numbers, V, 0, SIZE)
    <3>1. \A k \in 0 + 1 .. SIZE : array'[k] = Numbers[k]
      BY <1>5, <2>2
    <3>2. QED
      BY <1>2, <3>1, CountAgree
  <2>3. QED
    BY <1>2, <1>3, <1>5, <2>1, <2>2 DEF CountsInv
<1>10. QED
  BY <1>4, <1>6, <1>7, <1>8, <1>9 DEF IInv

\* mean.c reads the fields.
LEMMA ReadFieldsStep == IInv /\ ReadFields => IInv'
<1> SUFFICES ASSUME IInv, ReadFields PROVE IInv'
  OBVIOUS
<1>1. /\ GivenInv /\ SlicesInv /\ ControlInv /\ AwsInv
      /\ CountsInv /\ SortInv /\ SortersInv /\ MeanInv
  BY DEF IInv
<1>2. file \in Seq(Field) /\ SIZE \in Nat
  BY <1>1, GivenTypes, StatsAssumption
<1> DEFINE fields == [k \in 1 .. SIZE |-> IF file[k] = <<>> THEN 0 ELSE file[k][1]]
<1>3. /\ pc = "read" /\ program = "mean" /\ pc' \in {"next", "failure", "crashed"}
      /\ input' = input /\ loop' = loop /\ cur' = cur /\ worker' = worker /\ local' = local
      /\ temp_array' = temp_array /\ aws' = aws /\ helper' = helper /\ answer' = answer
      /\ \/ Len(file) = SIZE + 1 /\ array' = fields
         \/ pc' # "next" /\ array' = array
  BY DEF ReadFields, NotRead
<1>4. GivenInv'
  BY <1>1, <1>3 DEF GivenInv, input, loop
<1>5. array' \in Arrays
  <2>1. CASE Len(file) = SIZE + 1 /\ array' = fields
    <3>1. ASSUME NEW k \in 1 .. SIZE
          PROVE  (IF file[k] = <<>> THEN 0 ELSE file[k][1]) \in Int
      <4>1. file[k] \in Field
        BY <1>2, <2>1
      <4>2. QED
        BY <4>1, OneField
    <3>2. fields \in Arrays
      BY <3>1 DEF Arrays
    <3>3. QED
      BY <2>1, <3>2
  <2>2. CASE array' = array
    BY <1>1, <2>2 DEF SlicesInv
  <2>3. QED
    BY <1>3, <2>1, <2>2
<1>6. SlicesInv'
  BY <1>1, <1>3, <1>5 DEF SlicesInv, InRuns, loop
<1>7. ControlInv' /\ AwsInv' /\ SortersInv'
  BY <1>1, <1>3 DEF ControlInv, AwsInv, SortersInv, input, loop
<1>8. SortInv' /\ CountsInv'
  BY <1>3 DEF SortInv, CountsInv, InRuns, input
<1>9. MeanInv'
  BY <1>3 DEF MeanInv, InRuns, input
<1>10. QED
  BY <1>4, <1>6, <1>7, <1>8, <1>9 DEF IInv

\* The slices of a thread count fit.
LEMMA SlicesFit ==
  ASSUME NEW N \in Nat, N # 0
  PROVE  SIZE \div N \in 0 .. SIZE /\ N * (SIZE \div N) <= SIZE
<1>1. SIZE \in Nat /\ N \in Nat \ {0}
  BY StatsAssumption
<1> DEFINE q == SIZE \div N
           r == SIZE % N
<1>2. q \in Int /\ r \in 0 .. N - 1 /\ SIZE = N * q + r
  BY <1>1
<1>3. q \in Nat
  BY <1>1
<1>4. N * q \in Nat
  BY <1>3
<1>5. q <= N * q
  <2>1. N - 1 \in Nat /\ (N - 1) + 1 = N
    BY <1>1
  <2>2. N * q = (N - 1) * q + 1 * q /\ (N - 1) * q \in Nat
    BY <1>3, <2>1, Product
  <2> HIDE DEF q
  <2>3. 1 * q = q
    BY <1>3
  <2> DEFINE a == (N - 1) * q
             b == N * q
  <2> HIDE DEF a, b
  <2>4. b = a + q /\ a \in Nat /\ q \in Nat
    BY <1>3, <2>2, <2>3 DEF a, b
  <2>5. q <= b
    BY <2>4
  <2>6. QED
    BY <2>5 DEF b
<1> DEFINE b == N * q
<1>6. b \in Nat /\ SIZE = b + r /\ r \in Nat /\ q <= b /\ q \in Nat
  BY <1>1, <1>2, <1>3, <1>4, <1>5
<1> HIDE DEF b, q, r
<1>7. q \in 0 .. SIZE /\ b <= SIZE
  BY <1>6
<1>8. QED
  BY <1>7 DEF b, q

\* The next thread count.
LEMMA NextCountStep == IInv /\ NextCount => IInv'
<1> SUFFICES ASSUME IInv, NextCount PROVE IInv'
  OBVIOUS
<1>1. /\ GivenInv /\ SlicesInv /\ ControlInv /\ AwsInv
      /\ CountsInv /\ SortInv /\ SortersInv /\ MeanInv
  BY DEF IInv
<1> DEFINE N == args[arg]
<1>2. /\ N \in Nat /\ arg + 1 \in 1 .. Len(args) + 1
      /\ 0 < NUMBER_TIME_AVG /\ NUMBER_TIME_AVG \in Nat
  BY <1>1, GivenTypes, StatsAssumption DEF NextCount, GivenInv
<1>3. /\ pc = "next" /\ n' = N /\ arg' = arg + 1 /\ t' = 0 /\ cur' = 0
      /\ program' = program /\ file' = file /\ args' = args
      /\ array' = array /\ aws' = aws /\ helper' = helper /\ answer' = answer
  BY DEF NextCount, FollowingArg, input
<1>4. \A i \in DOMAIN worker : worker[i] = "none"
  BY <1>1, <1>3 DEF ControlInv
<1>5. \/ /\ N = 0 /\ pc' = "crashed" /\ partitionSize' = partitionSize
         /\ worker' = worker /\ local' = local /\ temp_array' = temp_array
      \/ /\ N # 0 /\ pc' = "create" /\ partitionSize' = SIZE \div N
         /\ worker' = [i \in 0 .. N - 1 |-> "none"]
         /\ DOMAIN local' = 0 .. N - 1 /\ DOMAIN temp_array' = 0 .. N - 1
  BY DEF NextCount
<1> HIDE DEF N
<1>6. GivenInv'
  BY <1>1, <1>2, <1>3 DEF GivenInv
<1>7. \A i \in DOMAIN worker' : worker'[i] = "none"
  BY <1>4, <1>5
<1>8. SlicesInv'
  <2>1. CASE N = 0
    BY <1>1, <1>2, <1>3, <1>5, <2>1 DEF SlicesInv, InRuns
  <2>2. CASE N # 0
    <3>1. SIZE \div N \in 0 .. SIZE /\ N * (SIZE \div N) <= SIZE
      BY <1>2, <2>2, SlicesFit
    <3> DEFINE q == SIZE \div N
    <3>2. partitionSize' = q /\ DOMAIN worker' = 0 .. N - 1
      BY <1>5, <2>2
    <3>3. q \in 0 .. SIZE /\ N * q <= SIZE
      BY <3>1
    <3> HIDE DEF q
    <3>4. QED
      BY <1>1, <1>2, <1>3, <1>5, <2>2, <3>2, <3>3 DEF SlicesInv, InRuns
  <2>3. QED
    BY <2>1, <2>2
<1>9. ControlInv'
  BY <1>1, <1>3, <1>5, <1>7 DEF ControlInv
<1>10. AwsInv'
  BY <1>1, <1>3, <1>5 DEF AwsInv
<1>11. CountsInv'
  <2>1. Numbers' = Numbers
    BY <1>3 DEF Numbers
  <2>2. QED
    BY <1>1, <1>3, <1>5, <2>1 DEF CountsInv
<1>12. SortersInv'
  BY <1>7 DEF SortersInv
<1>13. SortInv'
  BY <1>3, <1>5, <1>7 DEF SortInv, InRuns
<1>14. MeanInv'
  BY <1>1, <1>3, <1>5, <1>7 DEF MeanInv, InRuns
<1>15. QED
  BY <1>6, <1>8, <1>9, <1>10, <1>11, <1>12, <1>13, <1>14 DEF IInv

\* Steps that leave the array and the slices alone keep what is said of these alone.
LEMMA QuietStep ==
  ASSUME IInv, UNCHANGED <<input, n, partitionSize, array>>,
         pc' \in {"read", "failure"} <=> pc \in {"read", "failure"}
  PROVE  /\ CountsInv'
         /\ GivenInv /\ SlicesInv /\ ControlInv /\ AwsInv
         /\ CountsInv /\ SortInv /\ SortersInv /\ MeanInv
         /\ program' = program /\ file' = file /\ args' = args
         /\ n' = n /\ partitionSize' = partitionSize /\ array' = array
<1>1. /\ program' = program /\ file' = file /\ args' = args
      /\ n' = n /\ partitionSize' = partitionSize /\ array' = array
  BY DEF input
<1>2. Numbers' = Numbers
  BY <1>1 DEF Numbers
<1>3. CountsInv'
  BY <1>1, <1>2 DEF CountsInv, IInv
<1>4. QED
  BY <1>1, <1>3 DEF IInv

\* main returns.
LEMMA FinishStep == IInv /\ Finish => IInv'
<1> SUFFICES ASSUME IInv, Finish PROVE IInv'
  OBVIOUS
<1>1. /\ pc = "next" /\ pc' = "success" /\ arg' = arg /\ t' = t /\ cur' = cur
      /\ worker' = worker /\ local' = local /\ temp_array' = temp_array
      /\ aws' = aws /\ helper' = helper /\ answer' = answer
      /\ UNCHANGED <<input, n, partitionSize, array>>
  BY DEF Finish, loop
<1>2. /\ CountsInv'
      /\ GivenInv /\ SlicesInv /\ ControlInv /\ AwsInv
      /\ CountsInv /\ SortInv /\ SortersInv /\ MeanInv
      /\ program' = program /\ file' = file /\ args' = args
      /\ n' = n /\ partitionSize' = partitionSize /\ array' = array
  BY <1>1, QuietStep
<1>3. GivenInv' /\ SlicesInv'
  BY <1>1, <1>2 DEF GivenInv, SlicesInv, InRuns
<1>4. ControlInv' /\ AwsInv' /\ SortersInv'
  BY <1>1, <1>2 DEF ControlInv, AwsInv, SortersInv
<1>5. SortInv' /\ MeanInv'
  BY <1>1, <1>2 DEF SortInv, MeanInv, InRuns
<1>6. QED
  BY <1>2, <1>3, <1>4, <1>5 DEF IInv

\* A worker is created.
LEMMA CreateWorkerStep == IInv /\ CreateWorker => IInv'
<1> SUFFICES ASSUME IInv, CreateWorker PROVE IInv'
  OBVIOUS
<1>1. /\ pc = "create" /\ pc' = "create" /\ cur < n /\ cur' = cur + 1
      /\ worker' = [worker EXCEPT ![cur] = "ready"]
      /\ arg' = arg /\ t' = t /\ local' = local /\ temp_array' = temp_array
      /\ aws' = aws /\ helper' = helper /\ answer' = answer
      /\ UNCHANGED <<input, n, partitionSize, array>>
  BY DEF CreateWorker, MoreWorkers, loop
<1>2. /\ CountsInv'
      /\ GivenInv /\ SlicesInv /\ ControlInv /\ AwsInv
      /\ CountsInv /\ SortInv /\ SortersInv /\ MeanInv
      /\ program' = program /\ file' = file /\ args' = args
      /\ n' = n /\ partitionSize' = partitionSize /\ array' = array
  BY <1>1, QuietStep
<1>3. /\ n \in Nat /\ cur \in 0 .. n /\ DOMAIN worker = 0 .. n - 1 /\ DOMAIN worker' = 0 .. n - 1
      /\ \A i \in 0 .. n - 1 : worker'[i] = IF i = cur THEN "ready" ELSE worker[i]
  BY <1>1, <1>2 DEF SlicesInv, InRuns
<1>4. GivenInv' /\ SlicesInv'
  BY <1>1, <1>2, <1>3 DEF GivenInv, SlicesInv, InRuns
<1>5. ControlInv'
  BY <1>1, <1>2, <1>3 DEF ControlInv
<1>6. AwsInv' /\ SortersInv'
  BY <1>1, <1>2, <1>3 DEF AwsInv, SortersInv
<1>7. SortInv'
  BY <1>1, <1>2, <1>3 DEF SortInv, InRuns
<1>8. MeanInv'
  BY <1>1, <1>2, <1>3 DEF MeanInv, InRuns
<1>9. QED
  BY <1>2, <1>4, <1>5, <1>6, <1>7, <1>8 DEF IInv

\* All are created.
LEMMA AllCreatedStep == IInv /\ AllCreated => IInv'
<1> SUFFICES ASSUME IInv, AllCreated PROVE IInv'
  OBVIOUS
<1>1. /\ pc = "create" /\ pc' = "join" /\ cur = n /\ cur' = 0 /\ worker' = worker
      /\ arg' = arg /\ t' = t /\ local' = local /\ temp_array' = temp_array
      /\ aws' = aws /\ helper' = helper /\ answer' = answer
      /\ UNCHANGED <<input, n, partitionSize, array>>
  BY DEF AllCreated, loop
<1>2. /\ CountsInv'
      /\ GivenInv /\ SlicesInv /\ ControlInv /\ AwsInv
      /\ CountsInv /\ SortInv /\ SortersInv /\ MeanInv
      /\ program' = program /\ file' = file /\ args' = args
      /\ n' = n /\ partitionSize' = partitionSize /\ array' = array
  BY <1>1, QuietStep
<1>3. n \in Nat /\ DOMAIN worker = 0 .. n - 1
  BY <1>1, <1>2 DEF SlicesInv, InRuns
<1>4. GivenInv' /\ SlicesInv'
  BY <1>1, <1>2, <1>3 DEF GivenInv, SlicesInv, InRuns
<1>5. ControlInv'
  BY <1>1, <1>2, <1>3 DEF ControlInv
<1>6. AwsInv' /\ SortersInv'
  BY <1>1, <1>2 DEF AwsInv, SortersInv
<1>7. SortInv'
  BY <1>1, <1>2, <1>3 DEF SortInv, InRuns
<1>8. MeanInv'
  BY <1>1, <1>2, <1>3 DEF MeanInv, InRuns
<1>9. QED
  BY <1>2, <1>4, <1>5, <1>6, <1>7, <1>8 DEF IInv

\* A worker is joined.
LEMMA JoinStep == IInv /\ (JoinSorter \/ JoinMean) => IInv'
<1> SUFFICES ASSUME IInv, JoinSorter \/ JoinMean PROVE IInv'
  OBVIOUS
<1>1. /\ pc = "join" /\ pc' = "join" /\ cur < n /\ cur' = cur + 1
      /\ worker[cur] = "done" /\ worker' = [worker EXCEPT ![cur] = "none"]
      /\ arg' = arg /\ t' = t /\ local' = local
      /\ aws' = aws /\ helper' = helper /\ answer' = answer
      /\ UNCHANGED <<input, n, partitionSize, array>>
      /\ \/ program = "median" /\ temp_array' = temp_array
         \/ program = "mean" /\ temp_array' = [temp_array EXCEPT ![cur] = local[cur][1]]
  BY DEF JoinSorter, JoinMean, loop
<1>2. /\ CountsInv'
      /\ GivenInv /\ SlicesInv /\ ControlInv /\ AwsInv
      /\ CountsInv /\ SortInv /\ SortersInv /\ MeanInv
      /\ program' = program /\ file' = file /\ args' = args
      /\ n' = n /\ partitionSize' = partitionSize /\ array' = array
  BY <1>1, QuietStep
<1>3. /\ n \in Nat /\ cur \in 0 .. n /\ DOMAIN worker = 0 .. n - 1 /\ DOMAIN worker' = 0 .. n - 1
      /\ cur \in 0 .. n - 1
      /\ DOMAIN temp_array = 0 .. n - 1 /\ DOMAIN temp_array' = 0 .. n - 1
      /\ \A i \in 0 .. n - 1 : worker'[i] = IF i = cur THEN "none" ELSE worker[i]
  BY <1>1, <1>2 DEF SlicesInv, InRuns
<1>4. GivenInv' /\ SlicesInv'
  BY <1>1, <1>2, <1>3 DEF GivenInv, SlicesInv, InRuns
<1>5. ControlInv'
  BY <1>1, <1>2, <1>3 DEF ControlInv
<1>6. AwsInv' /\ SortersInv'
  BY <1>1, <1>2, <1>3 DEF AwsInv, SortersInv
<1>7. SortInv'
  <2>1. \A i \in 0 .. n - 1 : i < cur + 1 => i < cur \/ i = cur
    BY <1>3
  <2>2. QED
    BY <1>1, <1>2, <1>3, <2>1 DEF SortInv, InRuns
<1>8. MeanInv'
  <2> SUFFICES ASSUME program = "mean" PROVE MeanInv'
    BY <1>2 DEF MeanInv
  <2>1. \A i \in 0 .. n - 1 : i < cur + 1 => i < cur \/ i = cur
    BY <1>3
  <2>2. /\ \A i \in 0 .. n - 1 : i # cur => temp_array'[i] = temp_array[i]
        /\ temp_array'[cur] = local[cur][1]
    BY <1>1, <1>3
  <2> DEFINE S(i) == Sum(SubSeq(array, i * partitionSize + 1, (i + 1) * partitionSize))
  <2>3. /\ Len(file) = SIZE + 1
        /\ array = [k \in 1 .. SIZE |-> IF file[k] = <<>> THEN 0 ELSE file[k][1]]
        /\ \A i \in 0 .. n - 1 : worker[i] = "done" => local[i] = <<S(i)>>
        /\ \A i \in 0 .. n - 1 : i < cur => temp_array[i] = S(i)
    BY <1>1, <1>2, <1>3 DEF MeanInv, InRuns
  <2>4. \A i \in 0 .. n - 1 : S(i)' = S(i)
    BY <1>2
  <2> HIDE DEF S
  <2>5. temp_array'[cur] = S(cur)
    BY <1>1, <1>3, <2>2, <2>3
  <2>6. \A i \in 0 .. n - 1 : i < cur' => temp_array'[i] = S(i)
    BY <1>1, <1>3, <2>1, <2>2, <2>3, <2>5
  <2>7. \A i \in 0 .. n - 1 : worker'[i] = "done" => local'[i] = <<S(i)>>
    BY <1>1, <1>3, <2>3
  <2>8. QED
    BY <1>1, <1>2, <1>3, <2>3, <2>6, <2>7 DEF MeanInv, InRuns, S
<1>9. QED
  BY <1>2, <1>4, <1>5, <1>6, <1>7, <1>8 DEF IInv

\* The merger is created: all workers are joined.
LEMMA CreateMergerStep == IInv /\ CreateMerger => IInv'
<1> SUFFICES ASSUME IInv, CreateMerger PROVE IInv'
  OBVIOUS
<1>1. /\ pc = "join" /\ pc' = "merge" /\ cur = n /\ cur' = cur /\ program = "median"
      /\ aws' = [size |-> n, secondarySize |-> partitionSize] /\ helper' = "merger"
      /\ worker' = worker /\ arg' = arg /\ t' = t /\ local' = local
      /\ temp_array' = temp_array /\ answer' = answer
      /\ UNCHANGED <<input, n, partitionSize, array>>
  BY DEF CreateMerger, AllJoined, loop
<1>2. /\ CountsInv'
      /\ GivenInv /\ SlicesInv /\ ControlInv /\ AwsInv
      /\ CountsInv /\ SortInv /\ SortersInv /\ MeanInv
      /\ program' = program /\ file' = file /\ args' = args
      /\ n' = n /\ partitionSize' = partitionSize /\ array' = array
  BY <1>1, QuietStep
<1>3. /\ n \in Nat /\ DOMAIN worker = 0 .. n - 1 /\ partitionSize \in Nat
      /\ \A i \in DOMAIN worker : worker[i] = "none" /\ i < cur
  <2>1. n \in Nat /\ DOMAIN worker = 0 .. n - 1 /\ partitionSize \in Nat
    BY <1>1, <1>2, StatsAssumption DEF SlicesInv, InRuns
  <2>2. \A i \in DOMAIN worker : i < cur
    BY <1>1, <2>1
  <2>3. \A i \in DOMAIN worker : worker[i] # "none" => cur <= i
    BY <1>1, <1>2 DEF ControlInv
  <2>4. \A i \in DOMAIN worker : ~ (i < cur /\ cur <= i)
    BY <1>1, <2>1
  <2>5. QED
    BY <2>1, <2>2, <2>3, <2>4
<1>4. GivenInv' /\ SlicesInv'
  BY <1>1, <1>2, <1>3 DEF GivenInv, SlicesInv, InRuns
<1>5. ControlInv'
  BY <1>1, <1>2, <1>3 DEF ControlInv
<1>6. AwsInv' /\ SortersInv'
  BY <1>1, <1>2, <1>3 DEF AwsInv, SortersInv
<1>7. SortInv'
  BY <1>1, <1>2, <1>3 DEF SortInv, InRuns
<1>8. MeanInv'
  BY <1>1, <1>2 DEF MeanInv
<1>9. QED
  BY <1>2, <1>4, <1>5, <1>6, <1>7, <1>8 DEF IInv

\* The merger is joined.
LEMMA JoinMergerStep == IInv /\ JoinMerger => IInv'
<1> SUFFICES ASSUME IInv, JoinMerger PROVE IInv'
  OBVIOUS
<1>1. /\ pc = "merge" /\ pc' = "answer" /\ helper = "done" /\ helper' = "find_median"
      /\ aws' = [aws EXCEPT !.size = SIZE] /\ cur' = cur
      /\ worker' = worker /\ arg' = arg /\ t' = t /\ local' = local
      /\ temp_array' = temp_array /\ answer' = answer
      /\ UNCHANGED <<input, n, partitionSize, array>>
  BY DEF JoinMerger, loop
<1>2. /\ CountsInv'
      /\ GivenInv /\ SlicesInv /\ ControlInv /\ AwsInv
      /\ CountsInv /\ SortInv /\ SortersInv /\ MeanInv
      /\ program' = program /\ file' = file /\ args' = args
      /\ n' = n /\ partitionSize' = partitionSize /\ array' = array
  BY <1>1, QuietStep
<1>3. program = "median" /\ \A i \in DOMAIN worker : worker[i] = "none"
  BY <1>1, <1>2 DEF ControlInv
<1>4. GivenInv' /\ SlicesInv'
  BY <1>1, <1>2 DEF GivenInv, SlicesInv, InRuns
<1>5. ControlInv'
  BY <1>1, <1>2, <1>3 DEF ControlInv
<1>6. AwsInv' /\ SortersInv'
  BY <1>1, <1>2, <1>3, StatsAssumption DEF AwsInv, SortersInv
<1>7. SortInv'
  BY <1>1, <1>2, <1>3 DEF SortInv, InRuns
<1>8. MeanInv'
  BY <1>2, <1>3 DEF MeanInv
<1>9. QED
  BY <1>2, <1>4, <1>5, <1>6, <1>7, <1>8 DEF IInv

\* The thread for the global mean is created: all workers are joined.
LEMMA CreateGlobalMeanStep == IInv /\ CreateGlobalMean => IInv'
<1> SUFFICES ASSUME IInv, CreateGlobalMean PROVE IInv'
  OBVIOUS
<1>1. /\ pc = "join" /\ pc' = "answer" /\ cur = n /\ cur' = cur /\ program = "mean"
      /\ aws' = [aws EXCEPT !.size = n] /\ helper' = "global_mean"
      /\ worker' = worker /\ arg' = arg /\ t' = t /\ local' = local
      /\ temp_array' = temp_array /\ answer' = answer
      /\ UNCHANGED <<input, n, partitionSize, array>>
  BY DEF CreateGlobalMean, AllJoined, loop
<1>2. /\ CountsInv'
      /\ GivenInv /\ SlicesInv /\ ControlInv /\ AwsInv
      /\ CountsInv /\ SortInv /\ SortersInv /\ MeanInv
      /\ program' = program /\ file' = file /\ args' = args
      /\ n' = n /\ partitionSize' = partitionSize /\ array' = array
  BY <1>1, QuietStep
<1>3. /\ n \in Nat /\ DOMAIN worker = 0 .. n - 1
      /\ \A i \in DOMAIN worker : worker[i] = "none" /\ i < cur
  <2>1. n \in Nat /\ DOMAIN worker = 0 .. n - 1
    BY <1>1, <1>2, StatsAssumption DEF SlicesInv, InRuns
  <2>2. \A i \in DOMAIN worker : i < cur
    BY <1>1, <2>1
  <2>3. \A i \in DOMAIN worker : worker[i] # "none" => cur <= i
    BY <1>1, <1>2 DEF ControlInv
  <2>4. \A i \in DOMAIN worker : ~ (i < cur /\ cur <= i)
    BY <1>1, <2>1
  <2>5. QED
    BY <2>1, <2>2, <2>3, <2>4
<1>4. GivenInv' /\ SlicesInv'
  BY <1>1, <1>2, <1>3 DEF GivenInv, SlicesInv, InRuns
<1>5. ControlInv'
  BY <1>1, <1>2, <1>3 DEF ControlInv
<1>6. AwsInv' /\ SortersInv'
  BY <1>1, <1>2, <1>3 DEF AwsInv, SortersInv
<1>7. SortInv'
  BY <1>1, <1>2 DEF SortInv
<1>8. MeanInv'
  BY <1>1, <1>2, <1>3 DEF MeanInv, InRuns
<1>9. QED
  BY <1>2, <1>4, <1>5, <1>6, <1>7, <1>8 DEF IInv

\* The answer is there.
LEMMA EndRunStep == IInv /\ EndRun => IInv'
<1> SUFFICES ASSUME IInv, EndRun PROVE IInv'
  OBVIOUS
<1>1. /\ pc = "answer" /\ helper' = "none" /\ t' = t + 1 /\ cur' = 0
      /\ pc' = IF t + 1 < NUMBER_TIME_AVG THEN "create" ELSE "next"
      /\ worker' = worker /\ arg' = arg /\ local' = local
      /\ temp_array' = temp_array /\ aws' = aws /\ answer' = answer
      /\ UNCHANGED <<input, n, partitionSize, array>>
  BY DEF EndRun
<1>2. /\ CountsInv'
      /\ GivenInv /\ SlicesInv /\ ControlInv /\ AwsInv
      /\ CountsInv /\ SortInv /\ SortersInv /\ MeanInv
      /\ program' = program /\ file' = file /\ args' = args
      /\ n' = n /\ partitionSize' = partitionSize /\ array' = array
  BY <1>1, QuietStep
<1>3. \A i \in DOMAIN worker : worker[i] = "none"
  BY <1>1, <1>2 DEF ControlInv
<1>4. GivenInv' /\ SlicesInv'
  BY <1>1, <1>2, StatsAssumption DEF GivenInv, SlicesInv, InRuns
<1>5. ControlInv'
  BY <1>1, <1>2, <1>3 DEF ControlInv
<1>6. AwsInv' /\ SortersInv'
  BY <1>1, <1>2, <1>3 DEF AwsInv, SortersInv
<1>7. SortInv'
  BY <1>1, <1>2, <1>3 DEF SortInv, InRuns
<1>8. MeanInv'
  BY <1>1, <1>2, <1>3 DEF MeanInv, InRuns
<1>9. QED
  BY <1>2, <1>4, <1>5, <1>6, <1>7, <1>8 DEF IInv

\* The slice of worker i: from a to b, inside of the array.
LEMMA WorkerSlice ==
  ASSUME SlicesInv, InRuns, NEW i \in DOMAIN worker
  PROVE  /\ n \in Nat /\ i \in 0 .. n - 1 /\ partitionSize \in Nat /\ SIZE \in Nat
         /\ i * partitionSize \in Nat /\ (i + 1) * partitionSize \in Nat
         /\ i * partitionSize <= (i + 1) * partitionSize
         /\ (i + 1) * partitionSize <= SIZE
         /\ array \in Arrays
<1>1. /\ n \in Nat /\ i \in 0 .. n - 1 /\ partitionSize \in Nat /\ SIZE \in Nat
      /\ array \in Arrays /\ n * partitionSize <= SIZE
  BY StatsAssumption DEF SlicesInv
<1> DEFINE a == i * partitionSize
           b == (i + 1) * partitionSize
           c == n * partitionSize
<1>2. a \in Nat /\ b \in Nat /\ a <= b /\ b <= c /\ c \in Nat
  BY <1>1, SliceBounds
<1>3. c <= SIZE
  BY <1>1
<1> HIDE DEF a, b, c
<1>4. b <= SIZE
  BY <1>1, <1>2, <1>3
<1>5. QED
  BY <1>1, <1>2, <1>4 DEF a, b

\* A sorter looks at its slice.
LEMMA SortBeginsStep == \A i \in DOMAIN worker : IInv /\ SortBegins(i) => IInv'
<1> SUFFICES ASSUME NEW i \in DOMAIN worker, IInv, SortBegins(i) PROVE IInv'
  OBVIOUS
<1>1. /\ worker[i] = "ready" /\ program = "median"
      /\ local' = [local EXCEPT ![i] = SliceOf(Cells(i))]
      /\ worker' = [worker EXCEPT ![i] = "sorting"]
      /\ pc' = pc /\ cur' = cur /\ arg' = arg /\ t' = t
      /\ temp_array' = temp_array /\ aws' = aws /\ helper' = helper /\ answer' = answer
      /\ UNCHANGED <<input, n, partitionSize, array>>
  BY DEF SortBegins, loop
<1>2. /\ CountsInv'
      /\ GivenInv /\ SlicesInv /\ ControlInv /\ AwsInv
      /\ CountsInv /\ SortInv /\ SortersInv /\ MeanInv
      /\ program' = program /\ file' = file /\ args' = args
      /\ n' = n /\ partitionSize' = partitionSize /\ array' = array
  BY <1>1, QuietStep
<1>3. InRuns /\ (\/ pc = "create" /\ i < cur
                 \/ pc = "join" /\ cur <= i)
  <2>1. worker[i] # "none"
    BY <1>1
  <2>2. \/ pc = "create" /\ i < cur
        \/ pc = "join" /\ cur <= i
    BY <1>2, <2>1 DEF ControlInv
  <2>3. QED
    BY <2>2 DEF InRuns
<1>4. /\ DOMAIN worker' = DOMAIN worker /\ DOMAIN local' = DOMAIN local
      /\ DOMAIN worker = 0 .. n - 1 /\ DOMAIN local = 0 .. n - 1
      /\ \A j \in DOMAIN worker : worker'[j] = IF j = i THEN "sorting" ELSE worker[j]
      /\ \A j \in DOMAIN worker : local'[j] = IF j = i THEN SliceOf(Cells(i)) ELSE local[j]
  BY <1>1, <1>2, <1>3 DEF SlicesInv
<1>5. SliceOf(Cells(i)) = SubSeq(array, i * partitionSize + 1, (i + 1) * partitionSize)
  <2>1. i \in Nat /\ partitionSize \in Nat /\ array \in Arrays
        /\ (i + 1) * partitionSize <= SIZE
    BY <1>2, <1>3, WorkerSlice
  <2>2. QED
    BY <2>1, SliceOfCells
<1>6. GivenInv' /\ SlicesInv'
  BY <1>1, <1>2, <1>4 DEF GivenInv, SlicesInv, InRuns
<1>7. ControlInv'
  BY <1>1, <1>2, <1>3, <1>4 DEF ControlInv
<1>8. AwsInv' /\ SortersInv'
  BY <1>1, <1>2, <1>4 DEF AwsInv, SortersInv
<1>9. SortInv'
  BY <1>1, <1>2, <1>3, <1>4, <1>5 DEF SortInv, InRuns
<1>10. MeanInv'
  BY <1>1, <1>2 DEF MeanInv
<1>11. QED
  BY <1>2, <1>6, <1>7, <1>8, <1>9, <1>10 DEF IInv

\* A worker of the mean adds its slice up.
LEMMA GetTemporalMeanStep == \A i \in DOMAIN worker : IInv /\ GetTemporalMean(i) => IInv'
<1> SUFFICES ASSUME NEW i \in DOMAIN worker, IInv, GetTemporalMean(i) PROVE IInv'
  OBVIOUS
<1>1. /\ worker[i] = "ready" /\ program = "mean"
      /\ local' = [local EXCEPT ![i] = <<Sum(SliceOf(Cells(i)))>>]
      /\ worker' = [worker EXCEPT ![i] = "done"]
      /\ pc' = pc /\ cur' = cur /\ arg' = arg /\ t' = t
      /\ temp_array' = temp_array /\ aws' = aws /\ helper' = helper /\ answer' = answer
      /\ UNCHANGED <<input, n, partitionSize, array>>
  BY DEF GetTemporalMean, SliceSum, Sum, loop
<1>2. /\ CountsInv'
      /\ GivenInv /\ SlicesInv /\ ControlInv /\ AwsInv
      /\ CountsInv /\ SortInv /\ SortersInv /\ MeanInv
      /\ program' = program /\ file' = file /\ args' = args
      /\ n' = n /\ partitionSize' = partitionSize /\ array' = array
  BY <1>1, QuietStep
<1>3. InRuns /\ (\/ pc = "create" /\ i < cur
                 \/ pc = "join" /\ cur <= i)
  <2>1. worker[i] # "none"
    BY <1>1
  <2>2. \/ pc = "create" /\ i < cur
        \/ pc = "join" /\ cur <= i
    BY <1>2, <2>1 DEF ControlInv
  <2>3. QED
    BY <2>2 DEF InRuns
<1>4. /\ DOMAIN worker' = DOMAIN worker /\ DOMAIN local' = DOMAIN local
      /\ DOMAIN worker = 0 .. n - 1 /\ DOMAIN local = 0 .. n - 1
      /\ \A j \in DOMAIN worker : worker'[j] = IF j = i THEN "done" ELSE worker[j]
      /\ \A j \in DOMAIN worker :
           local'[j] = IF j = i THEN <<Sum(SliceOf(Cells(i)))>> ELSE local[j]
  BY <1>1, <1>2, <1>3 DEF SlicesInv
<1>5. SliceOf(Cells(i)) = SubSeq(array, i * partitionSize + 1, (i + 1) * partitionSize)
  <2>1. i \in Nat /\ partitionSize \in Nat /\ array \in Arrays
        /\ (i + 1) * partitionSize <= SIZE
    BY <1>2, <1>3, WorkerSlice
  <2>2. QED
    BY <2>1, SliceOfCells
<1>6. GivenInv' /\ SlicesInv'
  BY <1>1, <1>2, <1>4 DEF GivenInv, SlicesInv, InRuns
<1>7. ControlInv'
  BY <1>1, <1>2, <1>3, <1>4 DEF ControlInv
<1>8. AwsInv' /\ SortersInv'
  BY <1>1, <1>2, <1>4 DEF AwsInv, SortersInv
<1>9. SortInv'
  BY <1>1, <1>2 DEF SortInv
<1>10. MeanInv'
  BY <1>1, <1>2, <1>3, <1>4, <1>5 DEF MeanInv, InRuns
<1>11. QED
  BY <1>2, <1>6, <1>7, <1>8, <1>9, <1>10 DEF IInv

\* The median is looked up.
LEMMA FindMedianStep == IInv /\ FindMedian => IInv'
<1> SUFFICES ASSUME IInv, FindMedian PROVE IInv'
  OBVIOUS
<1>1. /\ helper = "find_median" /\ helper' = "done"
      /\ answer' = <<array[aws.size \div 2 + 1], 1>>
      /\ pc' = pc /\ cur' = cur /\ arg' = arg /\ t' = t /\ worker' = worker
      /\ local' = local /\ temp_array' = temp_array /\ aws' = aws
      /\ UNCHANGED <<input, n, partitionSize, array>>
  BY DEF FindMedian, loop
<1>2. /\ CountsInv'
      /\ GivenInv /\ SlicesInv /\ ControlInv /\ AwsInv
      /\ CountsInv /\ SortInv /\ SortersInv /\ MeanInv
      /\ program' = program /\ file' = file /\ args' = args
      /\ n' = n /\ partitionSize' = partitionSize /\ array' = array
  BY <1>1, QuietStep
<1>3. pc = "answer" /\ program = "median"
  BY <1>1, <1>2 DEF ControlInv, SlicesInv, GivenInv
<1>4. aws.size = SIZE
  BY <1>2, <1>3 DEF AwsInv
<1>5. GivenInv' /\ SlicesInv'
  BY <1>1, <1>2 DEF GivenInv, SlicesInv, InRuns
<1>6. ControlInv'
  BY <1>1, <1>2, <1>3 DEF ControlInv
<1>7. AwsInv' /\ SortersInv'
  BY <1>1, <1>2 DEF AwsInv, SortersInv
<1>8. SortInv'
  BY <1>1, <1>2, <1>3, <1>4 DEF SortInv, InRuns
<1>9. MeanInv'
  BY <1>2, <1>3 DEF MeanInv
<1>10. QED
  BY <1>2, <1>5, <1>6, <1>7, <1>8, <1>9 DEF IInv

\* The means of the slices are added up.
LEMMA GetGlobalMeanStep == IInv /\ GetGlobalMean => IInv'
<1> SUFFICES ASSUME IInv, GetGlobalMean PROVE IInv'
  OBVIOUS
<1>1. /\ helper = "global_mean" /\ helper' = "done"
      /\ answer' = <<Sum([i \in 1 .. aws.size |-> temp_array[i - 1]]),
                     aws.size * partitionSize>>
      /\ pc' = pc /\ cur' = cur /\ arg' = arg /\ t' = t /\ worker' = worker
      /\ local' = local /\ temp_array' = temp_array /\ aws' = aws
      /\ UNCHANGED <<input, n, partitionSize, array>>
  BY DEF GetGlobalMean, Sum, loop
<1>2. /\ CountsInv'
      /\ GivenInv /\ SlicesInv /\ ControlInv /\ AwsInv
      /\ CountsInv /\ SortInv /\ SortersInv /\ MeanInv
      /\ program' = program /\ file' = file /\ args' = args
      /\ n' = n /\ partitionSize' = partitionSize /\ array' = array
  BY <1>1, QuietStep
<1>3. pc = "answer" /\ program = "mean"
  BY <1>1, <1>2 DEF ControlInv, SlicesInv, GivenInv
<1>4. aws.size = n
  BY <1>2, <1>3 DEF AwsInv
<1>5. GivenInv' /\ SlicesInv'
  BY <1>1, <1>2 DEF GivenInv, SlicesInv, InRuns
<1>6. ControlInv'
  BY <1>1, <1>2, <1>3 DEF ControlInv
<1>7. AwsInv' /\ SortersInv'
  BY <1>1, <1>2 DEF AwsInv, SortersInv
<1>8. SortInv'
  BY <1>2, <1>3 DEF SortInv
<1>9. MeanInv'
  BY <1>1, <1>2, <1>3, <1>4 DEF MeanInv, InRuns
<1>10. QED
  BY <1>2, <1>5, <1>6, <1>7, <1>8, <1>9 DEF IInv

\* A sorter writes its slice back; that of another worker stays as it is.
LEMMA SortEndsStep == \A i \in DOMAIN worker : IInv /\ SortEnds(i) => IInv'
<1> SUFFICES ASSUME NEW i \in DOMAIN worker, IInv, SortEnds(i) PROVE IInv'
  OBVIOUS
<1>1. /\ GivenInv /\ SlicesInv /\ ControlInv /\ AwsInv
      /\ CountsInv /\ SortInv /\ SortersInv /\ MeanInv
  BY DEF IInv
<1>2. /\ worker[i] = "sorting" /\ worker' = [worker EXCEPT ![i] = "done"]
      /\ pc' = pc /\ cur' = cur /\ arg' = arg /\ t' = t /\ local' = local
      /\ temp_array' = temp_array /\ aws' = aws /\ helper' = helper /\ answer' = answer
      /\ program' = program /\ file' = file /\ args' = args
      /\ n' = n /\ partitionSize' = partitionSize
  BY DEF SortEnds, input, loop
<1>3. InRuns /\ (\/ pc = "create" /\ i < cur
                 \/ pc = "join" /\ cur <= i)
  <2>1. worker[i] # "none"
    BY <1>2
  <2>2. \/ pc = "create" /\ i < cur
        \/ pc = "join" /\ cur <= i
    BY <1>1, <2>1 DEF ControlInv
  <2>3. QED
    BY <2>2 DEF InRuns
<1>4. program = "median"
  BY <1>1, <1>2 DEF SortersInv
<1>5. \A j \in DOMAIN worker :
        /\ j \in Nat /\ partitionSize \in Nat /\ SIZE \in Nat
        /\ j * partitionSize \in Nat /\ (j + 1) * partitionSize \in Nat
        /\ j * partitionSize <= (j + 1) * partitionSize
        /\ (j + 1) * partitionSize <= SIZE
        /\ array \in Arrays
  <2> SUFFICES ASSUME NEW j \in DOMAIN worker
               PROVE  /\ j \in Nat /\ partitionSize \in Nat /\ SIZE \in Nat
                      /\ j * partitionSize \in Nat /\ (j + 1) * partitionSize \in Nat
                      /\ j * partitionSize <= (j + 1) * partitionSize
                      /\ (j + 1) * partitionSize <= SIZE
                      /\ array \in Arrays
    OBVIOUS
  <2>1. j \in 0 .. n - 1 /\ n \in Nat
    BY <1>1, <1>3, WorkerSlice
  <2>2. QED
    BY <1>1, <1>3, <2>1, WorkerSlice
<1> DEFINE a == i * partitionSize
           b == (i + 1) * partitionSize
<1>6. a \in Nat /\ b \in Nat /\ a <= b /\ b <= SIZE /\ SIZE \in Nat /\ array \in Arrays
  BY <1>5
<1>7. local[i] = SubSeq(array, a + 1, b)
  BY <1>1, <1>2, <1>3, <1>4 DEF SortInv
<1>8. Cells(i) = a + 1 .. b
  BY DEF Cells
<1> HIDE DEF a, b
<1>9. PICK sorted \in Sorts(SubSeq(array, a + 1, b)) :
        array' = [k \in 1 .. SIZE |-> IF k \in a + 1 .. b
                                      THEN sorted[k + 1 - Min(a + 1 .. b)] ELSE array[k]]
  BY <1>7, <1>8 DEF SortEnds
<1>10. Replaced(array', array, a, b, sorted)
  <2>1. ASSUME NEW k \in a + 1 .. b PROVE k + 1 - Min(a + 1 .. b) = k - a
    <3>1. a + 1 \in a + 1 .. b /\ \A y \in a + 1 .. b : a + 1 <= y
      BY <1>6
    <3>2. Min(a + 1 .. b) = a + 1
      BY <1>6, <3>1 DEF Min
    <3>3. QED
      BY <1>6, <3>2
  <2>2. \A k \in 1 .. SIZE :
          (IF k \in a + 1 .. b THEN sorted[k + 1 - Min(a + 1 .. b)] ELSE array[k]) =
          (IF k \in a + 1 .. b THEN sorted[k - a] ELSE array[k])
    BY <2>1
  <2> DEFINE old(k) == IF k \in a + 1 .. b THEN sorted[k + 1 - Min(a + 1 .. b)] ELSE array[k]
             new(k) == IF k \in a + 1 .. b THEN sorted[k - a] ELSE array[k]
  <2>3. array' = [k \in 1 .. SIZE |-> old(k)] /\ \A k \in 1 .. SIZE : old(k) = new(k)
    BY <1>9, <2>2
  <2> HIDE DEF old, new
  <2>4. array' = [k \in 1 .. SIZE |-> new(k)]
    BY <2>3
  <2>5. QED
    BY <2>4, Zenon DEF Replaced, new
<1>11. /\ array' \in Arrays /\ SortedCells(array', a, b)
       /\ \A V : Count(array', V, 0, SIZE) = Count(array, V, 0, SIZE)
       /\ \A k \in (1 .. SIZE) \ (a + 1 .. b) : array'[k] = array[k]
  <2>1. sorted \in Sorts(SubSeq(array, a + 1, b))
    OBVIOUS
  <2>2. ASSUME NEW s0, s0 = array, NEW u, u = array' PROVE WrittenBack(u, s0, a, b)
    <3>1. s0 \in Arrays /\ sorted \in Sorts(SubSeq(s0, a + 1, b)) /\ Replaced(u, s0, a, b, sorted)
      BY <1>6, <1>10, <2>1, <2>2
    <3>2. QED
      BY <1>6, <3>1, WriteBack, Zenon
  <2>3. WrittenBack(array', array, a, b)
    BY <2>2
  <2>4. QED
    BY <2>3, Zenon DEF WrittenBack
<1>12. ASSUME NEW j \in DOMAIN worker, j # i
       PROVE  LET c == j * partitionSize
                  d == (j + 1) * partitionSize
              IN /\ SubSeq(array', c + 1, d) = SubSeq(array, c + 1, d)
                 /\ SortedCells(array', c, d) <=> SortedCells(array, c, d)
  <2> DEFINE c == j * partitionSize
             d == (j + 1) * partitionSize
  <2>1. c \in Nat /\ d \in Nat /\ c <= d /\ d <= SIZE /\ i \in Nat /\ j \in Nat
        /\ partitionSize \in Nat
    BY <1>5
  <2>2. d <= a \/ b <= c
    <3>1. i < j \/ j < i
      BY <1>12, <2>1
    <3>2. CASE i < j
      BY <2>1, <3>2, SlicesApart DEF b
    <3>3. CASE j < i
      BY <2>1, <3>3, SlicesApart DEF a
    <3>4. QED
      BY <3>1, <3>2, <3>3
  <2> HIDE DEF c, d
  <2>3. \A k \in c + 1 .. d : array'[k] = array[k]
    <3>1. \A k \in c + 1 .. d : k \in (1 .. SIZE) \ (a + 1 .. b)
      BY <1>6, <2>1, <2>2
    <3>2. QED
      BY <1>11, <3>1
  <2>4. /\ SubSeq(array', c + 1, d) = SubSeq(array, c + 1, d)
        /\ SortedCells(array', c, d) <=> SortedCells(array, c, d)
    BY <1>6, <1>11, <2>1, <2>3, SegmentSame
  <2>5. QED
    BY <2>4 DEF c, d
<1>13. /\ DOMAIN worker' = DOMAIN worker
       /\ \A j \in DOMAIN worker : worker'[j] = IF j = i THEN "done" ELSE worker[j]
  BY <1>2
<1>14. GivenInv' /\ AwsInv' /\ MeanInv'
  BY <1>1, <1>2, <1>4 DEF GivenInv, AwsInv, MeanInv
<1>15. SlicesInv'
  BY <1>1, <1>2, <1>11, <1>13 DEF SlicesInv, InRuns
<1>16. ControlInv' /\ SortersInv'
  BY <1>1, <1>2, <1>3, <1>4, <1>13 DEF ControlInv, SortersInv
<1>17. CountsInv'
  <2>1. Numbers' = Numbers
    BY <1>2 DEF Numbers
  <2>2. QED
    BY <1>1, <1>2, <1>11, <2>1 DEF CountsInv
<1>18. SortInv'
  <2> DEFINE S(j) == SortedCells(array, j * partitionSize, (j + 1) * partitionSize)
             Slice(j) == SubSeq(array, j * partitionSize + 1, (j + 1) * partitionSize)
  <2>1. \A j \in DOMAIN worker : j # i => S(j)' = S(j) /\ Slice(j)' = Slice(j)
    <3>1. \A j \in DOMAIN worker : j # i =>
            /\ SubSeq(array', j * partitionSize + 1, (j + 1) * partitionSize) =
               SubSeq(array, j * partitionSize + 1, (j + 1) * partitionSize)
            /\ SortedCells(array', j * partitionSize, (j + 1) * partitionSize) =
               SortedCells(array, j * partitionSize, (j + 1) * partitionSize)
      <4> SUFFICES ASSUME NEW j \in DOMAIN worker, j # i
                   PROVE  /\ SubSeq(array', j * partitionSize + 1, (j + 1) * partitionSize) =
                             SubSeq(array, j * partitionSize + 1, (j + 1) * partitionSize)
                          /\ SortedCells(array', j * partitionSize, (j + 1) * partitionSize) =
                             SortedCells(array, j * partitionSize, (j + 1) * partitionSize)
        OBVIOUS
      <4>1. SortedCells(array', j * partitionSize, (j + 1) * partitionSize) \in BOOLEAN
            /\ SortedCells(array, j * partitionSize, (j + 1) * partitionSize) \in BOOLEAN
        BY DEF SortedCells
      <4>2. QED
        BY <1>12, <4>1
    <3>2. QED
      BY <1>2, <3>1
  <2>2. S(i)'
    BY <1>2, <1>11 DEF a, b
  <2>3. \A j \in DOMAIN worker :
          /\ worker[j] = "sorting" => local[j] = Slice(j)
          /\ worker[j] = "done" \/ (pc = "join" /\ j < cur) => S(j)
    BY <1>1, <1>3, <1>4 DEF SortInv
  <2> HIDE DEF S, Slice
  <2>4. \A j \in DOMAIN worker :
          /\ worker'[j] = "sorting" => local'[j] = Slice(j)'
          /\ worker'[j] = "done" \/ (pc' = "join" /\ j < cur') => S(j)'
    BY <1>2, <1>13, <2>1, <2>2, <2>3
  <2>5. pc' \notin {"merge", "answer"}
    BY <1>2, <1>3
  <2>6. QED
    BY <1>13, <2>4, <2>5 DEF SortInv, S, Slice
<1>19. QED
  BY <1>14, <1>15, <1>16, <1>17, <1>18 DEF IInv

\* The merger sorts the slices together.
LEMMA MergerStep == IInv /\ Merger => IInv'
<1> SUFFICES ASSUME IInv, Merger PROVE IInv'
  OBVIOUS
<1>1. /\ GivenInv /\ SlicesInv /\ ControlInv /\ AwsInv
      /\ CountsInv /\ SortInv /\ SortersInv /\ MeanInv
  BY DEF IInv
<1>2. /\ helper = "merger" /\ helper' = "done" /\ pc' = pc /\ cur' = cur /\ arg' = arg
      /\ t' = t /\ local' = local /\ worker' = worker
      /\ temp_array' = temp_array /\ aws' = aws /\ answer' = answer
      /\ program' = program /\ file' = file /\ args' = args
      /\ n' = n /\ partitionSize' = partitionSize
  BY DEF Merger, input, loop
<1>3. pc = "merge" /\ program = "median"
  BY <1>1, <1>2 DEF ControlInv
<1>4. aws.size = n /\ aws.secondarySize = partitionSize
  BY <1>1, <1>3 DEF AwsInv
<1>5. /\ n \in Nat /\ partitionSize \in Nat /\ n * partitionSize <= SIZE /\ array \in Arrays
      /\ DOMAIN worker = 0 .. n - 1
  BY <1>1, <1>3, StatsAssumption DEF SlicesInv, InRuns
<1>6. \A i \in DOMAIN worker : worker[i] = "none"
  BY <1>1, <1>3 DEF ControlInv
<1>7. SlicesSorted(n, partitionSize)
  BY <1>1, <1>2, <1>3, <1>5 DEF SortInv, InRuns, SlicesSorted
<1>8. AllMerged(array', n, partitionSize)
  BY <1>4 DEF Merger, AllMerged
<1>9. /\ array' \in Arrays /\ SortedCells(array', 0, n * partitionSize)
      /\ \A V : Count(array', V, 0, SIZE) = Count(array, V, 0, SIZE)
  BY <1>5, <1>7, <1>8, MergeAll, Zenon
<1>10. GivenInv' /\ AwsInv' /\ MeanInv' /\ SortersInv'
  BY <1>1, <1>2, <1>3, <1>6 DEF GivenInv, AwsInv, MeanInv, SortersInv
<1>11. SlicesInv'
  BY <1>1, <1>2, <1>9 DEF SlicesInv, InRuns
<1>12. ControlInv'
  BY <1>1, <1>2, <1>3 DEF ControlInv
<1>13. CountsInv'
  <2>1. Numbers' = Numbers
    BY <1>2 DEF Numbers
  <2>2. QED
    BY <1>1, <1>2, <1>9, <2>1 DEF CountsInv
<1>14. SortInv'
  BY <1>2, <1>3, <1>6, <1>9 DEF SortInv
<1>15. QED
  BY <1>10, <1>11, <1>12, <1>13, <1>14 DEF IInv

\* Nothing happens.
LEMMA StutterStep == IInv /\ UNCHANGED vars => IInv'
<1> SUFFICES ASSUME IInv, UNCHANGED vars PROVE IInv'
  OBVIOUS
<1>1. /\ pc' = pc /\ cur' = cur /\ arg' = arg /\ t' = t /\ local' = local
      /\ worker' = worker /\ temp_array' = temp_array /\ aws' = aws
      /\ helper' = helper /\ answer' = answer
      /\ UNCHANGED <<input, n, partitionSize, array>>
  BY DEF vars, loop
<1>2. /\ CountsInv'
      /\ GivenInv /\ SlicesInv /\ ControlInv /\ AwsInv
      /\ CountsInv /\ SortInv /\ SortersInv /\ MeanInv
      /\ program' = program /\ file' = file /\ args' = args
      /\ n' = n /\ partitionSize' = partitionSize /\ array' = array
  BY <1>1, QuietStep
<1>3. GivenInv' /\ SlicesInv'
  BY <1>1, <1>2 DEF GivenInv, SlicesInv, InRuns
<1>4. ControlInv' /\ AwsInv' /\ SortersInv'
  BY <1>1, <1>2 DEF ControlInv, AwsInv, SortersInv
<1>5. SortInv'
  BY <1>1, <1>2 DEF SortInv, InRuns
<1>6. MeanInv'
  BY <1>1, <1>2 DEF MeanInv, InRuns
<1>7. QED
  BY <1>2, <1>3, <1>4, <1>5, <1>6 DEF IInv

\* Every step keeps the invariant.
LEMMA StepInv == IInv /\ [Next]_vars => IInv'
<1> SUFFICES ASSUME IInv, [Next]_vars PROVE IInv'
  OBVIOUS
<1>1. CASE Main
  BY <1>1, ReadNumbersStep, ReadFieldsStep, NextCountStep, FinishStep, CreateWorkerStep,
     AllCreatedStep, JoinStep, CreateMergerStep, JoinMergerStep, CreateGlobalMeanStep,
     EndRunStep DEF Main
<1>2. ASSUME NEW i \in DOMAIN worker, Worker(i) PROVE IInv'
  BY <1>2, SortBeginsStep, SortEndsStep, GetTemporalMeanStep DEF Worker
<1>3. CASE Combine
  BY <1>3, MergerStep, FindMedianStep, GetGlobalMeanStep DEF Combine
<1>4. CASE Stopped \/ UNCHANGED vars
  BY <1>4, StutterStep DEF Stopped
<1>5. QED
  BY <1>1, <1>2, <1>3, <1>4 DEF Next

-----------------------------------------------------------------------------
(***************************************************************************)
(* The theorems.                                                           *)
(***************************************************************************)

\* The invariant holds in every state of the two programs.
THEOREM Invariance == Spec => []IInv
BY InitInv, StepInv, PTL DEF Spec

\* The variables have their types; a slice does not reach over the end of the array.
THEOREM TypeCorrect == Spec => []TypeOK
<1>1. IInv => TypeOK
  <2> SUFFICES ASSUME IInv PROVE TypeOK
    OBVIOUS
  <2>1. GivenInv /\ SlicesInv /\ ControlInv /\ AwsInv
    BY DEF IInv
  <2>2. /\ pc \in {"read", "next", "create", "join", "merge", "answer",
                   "success", "failure", "crashed"}
        /\ \A i \in DOMAIN worker : worker[i] \in {"none", "ready", "sorting", "done"}
        /\ helper \in {"none", "merger", "find_median", "global_mean", "done"}
    BY <2>1 DEF ControlInv
  <2>3. arg \in 1 .. Len(args) + 1 /\ t \in 0 .. NUMBER_TIME_AVG
    BY <2>1 DEF GivenInv
  <2>4. /\ n \in Nat /\ partitionSize \in 0 .. SIZE /\ cur \in 0 .. n
        /\ array \in [1 .. SIZE -> Int]
    BY <2>1 DEF SlicesInv, Arrays
  <2>5. aws \in [size : Nat, secondarySize : Nat]
    BY <2>1 DEF AwsInv
  <2>6. QED
    BY <2>2, <2>3, <2>4, <2>5 DEF TypeOK
<1>2. QED
  BY <1>1, Invariance, PTL

\* No two threads are at the same cell of the array when one of them may write it,
\* although the programs have no locks.
THEOREM RaceFree == Spec => []NoRace
<1>1. IInv => NoRace
  <2>1. SUFFICES ASSUME IInv, NEW i \in DOMAIN worker, Live(i)
                 PROVE  /\ helper = "none"
                        /\ \A j \in DOMAIN worker \ {i} :
                             Live(j) => Cells(i) \cap Cells(j) = {}
    BY DEF NoRace
  <2>2. SlicesInv /\ ControlInv
    BY <2>1 DEF IInv
  <2>3. InRuns /\ helper = "none"
    <3>1. worker[i] # "none"
      BY <2>1 DEF Live
    <3>2. pc \in {"create", "join"}
      BY <2>2, <3>1 DEF ControlInv
    <3>3. QED
      BY <2>2, <3>2 DEF ControlInv, InRuns
  <2>4. ASSUME NEW j \in DOMAIN worker \ {i} PROVE Cells(i) \cap Cells(j) = {}
    <3> DEFINE a == i * partitionSize
               b == (i + 1) * partitionSize
               c == j * partitionSize
               d == (j + 1) * partitionSize
    <3>1. /\ i \in Nat /\ j \in Nat /\ partitionSize \in Nat /\ (i < j \/ j < i)
          /\ a \in Nat /\ b \in Nat /\ c \in Nat /\ d \in Nat
      <4>1. /\ i \in 0 .. n - 1 /\ partitionSize \in Nat /\ a \in Nat /\ b \in Nat /\ n \in Nat
        BY <2>2, <2>3, WorkerSlice
      <4>2. /\ j \in 0 .. n - 1 /\ c \in Nat /\ d \in Nat
        BY <2>2, <2>3, WorkerSlice
      <4>3. QED
        BY <4>1, <4>2
    <3>2. b <= c \/ d <= a
      <4>1. CASE i < j
        BY <3>1, <4>1, SlicesApart
      <4>2. CASE j < i
        BY <3>1, <4>2, SlicesApart
      <4>3. QED
        BY <3>1, <4>1, <4>2
    <3>3. Cells(i) = a + 1 .. b /\ Cells(j) = c + 1 .. d
      BY DEF Cells
    <3> HIDE DEF a, b, c, d
    <3>4. \A k : ~ (k \in a + 1 .. b /\ k \in c + 1 .. d)
      BY <3>1, <3>2
    <3>5. QED
      BY <3>3, <3>4
  <2>5. QED
    BY <2>3, <2>4
<1>2. QED
  BY <1>1, Invariance, PTL

\* Between the steps of all threads the array holds the numbers of the file, each as
\* often: qsort, the slicing and merge lose and double none, for every array size and
\* every thread count.
THEOREM AllKept == Spec => []NothingLost
<1>1. IInv => NothingLost
  <2> SUFFICES ASSUME IInv, program = "median", pc \notin {"read", "failure"}, NEW v
               PROVE  HowOften(array, v) = HowOften(SubSeq(Numbers, 1, SIZE), v)
    BY DEF NothingLost
  <2>1. /\ Numbers \in Seq(Int) /\ SIZE <= Len(Numbers) /\ SIZE \in Nat /\ array \in Arrays
        /\ \A V : Count(array, V, 0, SIZE) = Count(Numbers, V, 0, SIZE)
    BY StatsAssumption DEF IInv, CountsInv, SlicesInv
  <2> DEFINE s == Numbers
             u == SubSeq(s, 1, SIZE)
  <2>2. s \in Seq(Int) /\ SIZE <= Len(s)
    BY <2>1
  <2> HIDE DEF s
  <2>3. DOMAIN u = 1 .. SIZE /\ \A k \in 1 .. SIZE : u[k] = s[k]
    <3>1. u \in Seq(Int) /\ Len(u) = SIZE
      BY <2>1, <2>2
    <3>2. \A k \in 1 .. SIZE : u[k] = s[k]
      BY <2>1, <2>2
    <3>3. QED
      BY <3>1, <3>2
  <2> HIDE DEF u
  <2>4. HowOften(u, v) = Count(s, {v}, 0, SIZE)
    <3>1. {k \in DOMAIN u : u[k] = v} = Hits(s, {v}, 0, SIZE)
      BY <2>3 DEF Hits
    <3>2. QED
      BY <3>1 DEF HowOften, Count
  <2>5. HowOften(array, v) = Count(array, {v}, 0, SIZE)
    <3>1. {k \in DOMAIN array : array[k] = v} = Hits(array, {v}, 0, SIZE)
      BY <2>1 DEF Hits, Arrays
    <3>2. QED
      BY <3>1 DEF HowOften, Count
  <2>6. QED
    BY <2>1, <2>4, <2>5 DEF s, u
<1>2. QED
  BY <1>1, Invariance, PTL

\* With a thread count that divides SIZE each run of the median program finds the median.
THEOREM MedianCorrect == Spec => []MedianRight
<1>1. IInv => MedianRight
  <2> SUFFICES ASSUME IInv, Answered, program = "median", n * partitionSize = SIZE
               PROVE  IsMedian(answer[1], SubSeq(Numbers, 1, SIZE))
    BY DEF MedianRight
  <2> DEFINE h == SIZE \div 2
             s == Numbers
             u == SubSeq(s, 1, SIZE)
             v == array[h + 1]
             less == {x \in Int : x < v}
             upto == {x \in Int : x <= v}
  <2>1. /\ s \in Seq(Int) /\ SIZE <= Len(s) /\ SIZE \in Nat /\ SIZE # 0
        /\ array \in Arrays
        /\ \A V : Count(array, V, 0, SIZE) = Count(s, V, 0, SIZE)
    BY StatsAssumption DEF IInv, CountsInv, SlicesInv, Answered
  <2>2. SortedCells(array, 0, SIZE) /\ answer = <<v, 1>>
    BY DEF IInv, SortInv, Answered, InRuns
  <2>3. h \in Nat /\ h + 1 \in 1 .. SIZE
    BY <2>1
  <2> HIDE DEF s, h
  <2>4. v \in Int /\ \A k \in 1 .. SIZE : array[k] \in Int
    BY <2>1, <2>3 DEF Arrays
  <2>5. /\ \A k \in 1 .. h : array[k] <= v /\ k \in 1 .. SIZE
        /\ \A k \in h + 1 .. SIZE : v <= array[k] /\ k \in 1 .. SIZE
    BY <2>1, <2>2, <2>3 DEF SortedCells
  <2>6. DOMAIN u = 1 .. SIZE /\ \A k \in 1 .. SIZE : u[k] = s[k] /\ s[k] \in Int
    <3>1. u \in Seq(Int) /\ Len(u) = SIZE
      BY <2>1
    <3>2. \A k \in 1 .. SIZE : u[k] = s[k] /\ s[k] \in Int
      BY <2>1
    <3>3. QED
      BY <3>1, <3>2
  <2> HIDE DEF u, v
  <2>7. Cardinality({k \in DOMAIN u : u[k] < v}) = Count(array, less, 0, SIZE)
    <3>1. {k \in DOMAIN u : u[k] < v} = Hits(s, less, 0, SIZE)
      BY <2>6 DEF Hits
    <3> HIDE DEF less
    <3>2. QED
      BY <2>1, <3>1 DEF Count
  <2>8. Cardinality({k \in DOMAIN u : u[k] <= v}) = Count(array, upto, 0, SIZE)
    <3>1. {k \in DOMAIN u : u[k] <= v} = Hits(s, upto, 0, SIZE)
      BY <2>6 DEF Hits
    <3> HIDE DEF upto
    <3>2. QED
      BY <2>1, <3>1 DEF Count
  <2>9. Count(array, less, 0, SIZE) <= h
    <3>1. Hits(array, less, 0, SIZE) \in SUBSET (1 .. h)
      BY <2>1, <2>3, <2>4, <2>5 DEF Hits
    <3>2. IsFiniteSet(1 .. h) /\ Cardinality(1 .. h) = h
      BY <2>3, FS_Interval
    <3>3. Cardinality(Hits(array, less, 0, SIZE)) <= Cardinality(1 .. h)
      BY <3>1, <3>2, FS_Subset, Zenon
    <3>4. QED
      BY <3>2, <3>3 DEF Count
  <2>10. Count(array, upto, 0, SIZE) > h
    <3>1. 1 .. h + 1 \in SUBSET Hits(array, upto, 0, SIZE)
      <4>1. \A k \in 1 .. h + 1 : k \in 1 .. h \/ k = h + 1
        BY <2>3
      <4>2. \A k \in 1 .. h + 1 : k \in 1 .. SIZE /\ array[k] <= v
        BY <2>1, <2>3, <2>4, <2>5, <4>1 DEF v
      <4>3. QED
        BY <2>1, <2>4, <4>2 DEF Hits
    <3>2. Cardinality(1 .. h + 1) = h + 1
      BY <2>3, FS_Interval
    <3>3. IsFiniteSet(Hits(array, upto, 0, SIZE)) /\ Count(array, upto, 0, SIZE) \in Nat
      BY <2>1, CountType
    <3>4. Cardinality(1 .. h + 1) <= Cardinality(Hits(array, upto, 0, SIZE))
      BY <3>1, <3>3, FS_Subset, Zenon
    <3>5. QED
      BY <2>3, <3>2, <3>3, <3>4 DEF Count
  <2>11. IsMedian(v, u)
    BY <2>7, <2>8, <2>9, <2>10 DEF IsMedian, h
  <2>12. answer[1] = v
    BY <2>2
  <2>13. QED
    BY <2>11, <2>12 DEF u, s
<1>2. QED
  BY <1>1, Invariance, PTL

\* With a thread count that divides SIZE, and a file that has SIZE numbers with one
\* whitespace character behind each, each run of the mean program finds the mean.
THEOREM MeanCorrect == Spec => []MeanRight
<1>1. IInv => MeanRight
  <2> SUFFICES ASSUME IInv, Answered, program = "mean", Regular, n * partitionSize = SIZE
               PROVE  answer[1] * SIZE = Sum(Numbers) * answer[2]
    BY DEF MeanRight, Sum
  <2> DEFINE temp == [i \in 1 .. n |-> temp_array[i - 1]]
             S(i) == SubSeq(array, i * partitionSize + 1, (i + 1) * partitionSize)
  <2>1. GivenInv /\ SlicesInv /\ InRuns
    BY DEF IInv, Answered, InRuns
  <2>2. /\ Len(file) = SIZE + 1
        /\ array = [k \in 1 .. SIZE |-> IF file[k] = <<>> THEN 0 ELSE file[k][1]]
        /\ \A i \in DOMAIN worker : temp_array[i] = Sum(S(i))
        /\ answer = <<Sum(temp), n * partitionSize>>
    BY <2>1 DEF IInv, MeanInv, Answered
  <2> HIDE DEF temp, S
  <2>3. /\ n \in Nat /\ partitionSize \in Nat /\ SIZE \in Nat /\ array \in Arrays
        /\ DOMAIN worker = 0 .. n - 1
    BY <2>1, StatsAssumption DEF SlicesInv
  <2>4. array \in Seq(Int) /\ Len(array) = SIZE /\ DOMAIN array = 1 .. SIZE
    BY <2>3 DEF Arrays
  <2>5. Numbers = array
    <3>1. /\ Numbers \in Seq(Int) /\ Len(Numbers) = SIZE
          /\ \A k \in 1 .. SIZE : file[k] # <<>> /\ Numbers[k] = file[k][1]
      BY <2>1, <2>2, <2>3, NumbersRegular DEF GivenInv
    <3>2. \A k \in 1 .. SIZE : Numbers[k] = array[k]
      BY <2>2, <3>1
    <3> DEFINE s == Numbers
    <3>3. s \in Seq(Int) /\ Len(s) = SIZE /\ \A k \in 1 .. SIZE : s[k] = array[k]
      BY <3>1, <3>2
    <3> HIDE DEF s
    <3>4. s = array
      BY <2>4, <3>3, SeqEqual
    <3>5. QED
      BY <3>4 DEF s
  <2>6. PICK g \in [0 .. SIZE -> Int] : PrefixSums(g, array)
    BY <2>4, PrefixSumsExist
  <2>7. Sum(array) = g[SIZE] - g[0]
    BY <2>4, <2>6, SumIs
  <2>8. ASSUME NEW i \in 0 .. n - 1
        PROVE  Sum(S(i)) = g[(i + 1) * partitionSize] - g[i * partitionSize]
    <3> DEFINE a == i * partitionSize
               b == (i + 1) * partitionSize
               f == [k \in 0 .. b - a |-> g[k + a]]
    <3>1. a \in Nat /\ b \in Nat /\ a <= b /\ b <= SIZE
      BY <2>1, <2>3, WorkerSlice
    <3>2. S(i) = SubSeq(array, a + 1, b)
      BY DEF S
    <3> HIDE DEF a, b
    <3>3. /\ S(i) \in Seq(Int) /\ Len(S(i)) = b - a
          /\ \A k \in 1 .. b - a : S(i)[k] = array[k + a]
      BY <2>3, <3>1, <3>2, Segment
    <3>4. f \in [0 .. b - a -> Int]
      BY <2>3, <3>1
    <3>5. PrefixSums(f, S(i))
      <4>1. ASSUME NEW k \in 1 .. b - a PROVE f[k] = f[k - 1] + S(i)[k]
        <5>1. k + a \in 1 .. SIZE /\ (k - 1) + a = (k + a) - 1 /\ k \in 0 .. b - a
              /\ k - 1 \in 0 .. b - a
          BY <2>3, <3>1
        <5>2. g[k + a] = g[(k + a) - 1] + array[k + a]
          BY <2>4, <2>6, <5>1 DEF PrefixSums
        <5>3. f[k] = g[k + a] /\ f[k - 1] = g[(k - 1) + a]
          BY <5>1
        <5> HIDE DEF f
        <5>4. QED
          BY <3>3, <5>1, <5>2, <5>3
      <4> HIDE DEF f
      <4>2. QED
        BY <3>3, <4>1 DEF PrefixSums
    <3>6. Sum(S(i)) = f[b - a] - f[0]
      <4> HIDE DEF f
      <4> QED BY <3>3, <3>4, <3>5, SumIs
    <3>7. f[b - a] = g[b] /\ f[0] = g[a]
      BY <3>1
    <3> HIDE DEF f
    <3>8. QED
      BY <3>6, <3>7 DEF a, b
  <2>9. Sum(temp) = g[SIZE] - g[0]
    <3> DEFINE f == [k \in 0 .. n |-> g[k * partitionSize]]
    <3>1. ASSUME NEW k \in 0 .. n PROVE k * partitionSize \in 0 .. SIZE
      <4> DEFINE a == k * partitionSize
                 b == (n - k) * partitionSize
                 c == n * partitionSize
      <4>1. k \in Nat /\ n - k \in Nat /\ k + (n - k) = n
        BY <2>3
      <4>2. c = a + b /\ a \in Nat /\ b \in Nat /\ c = SIZE
        BY <2>3, <4>1, Product
      <4> HIDE DEF a, b, c
      <4>3. a \in 0 .. SIZE
        BY <4>2
      <4>4. QED
        BY <4>3 DEF a
    <3>2. f \in [0 .. n -> Int]
      BY <3>1
    <3>3. ASSUME NEW k \in 1 .. n
          PROVE  /\ temp[k] = f[k] - f[k - 1]
                 /\ temp[k] \in Int /\ f[k] \in Int /\ f[k - 1] \in Int
      <4>1. k - 1 \in 0 .. n - 1 /\ k - 1 \in 0 .. n /\ k \in 0 .. n /\ (k - 1) + 1 = k
        BY <2>3
      <4>2. temp[k] = Sum(S(k - 1))
        BY <2>2, <2>3, <4>1 DEF temp
      <4>3. Sum(S(k - 1)) = g[((k - 1) + 1) * partitionSize] - g[(k - 1) * partitionSize]
        BY <2>8, <4>1
      <4>4. f[k] = g[k * partitionSize] /\ f[k - 1] = g[(k - 1) * partitionSize]
        BY <4>1
      <4>5. f[k] \in Int /\ f[k - 1] \in Int
        <5> HIDE DEF f
        <5> QED BY <3>2, <4>1
      <4> HIDE DEF f
      <4>6. temp[k] = f[k] - f[k - 1]
        BY <4>1, <4>2, <4>3, <4>4
      <4>7. QED
        BY <4>5, <4>6
    <3>4. temp \in Seq(Int) /\ Len(temp) = n
      <4> HIDE DEF f
      <4>1. temp = [k \in 1 .. n |-> temp[k]]
        BY DEF temp
      <4>2. temp \in [1 .. n -> Int]
        BY <3>3, <4>1
      <4>3. QED
        BY <2>3, <3>3, <4>1, <4>2
    <3>5. f[n] = g[SIZE] /\ f[0] = g[0]
      <4>1. n \in 0 .. n /\ 0 \in 0 .. n /\ 0 * partitionSize = 0
        BY <2>3
      <4>2. QED
        BY <4>1
    <3> HIDE DEF f
    <3>6. PrefixSums(f, temp)
      BY <3>3, <3>4 DEF PrefixSums
    <3>7. Sum(temp) = f[n] - f[0]
      BY <3>2, <3>4, <3>6, SumIs
    <3>8. QED
      BY <3>5, <3>7
  <2>10. Sum(temp) = Sum(Numbers)
    BY <2>5, <2>7, <2>9
  <2>11. answer[1] = Sum(Numbers) /\ answer[2] = SIZE
    BY <2>2, <2>10
  <2>12. QED
    BY <2>11
<1>2. QED
  BY <1>1, Invariance, PTL
=============================================================================

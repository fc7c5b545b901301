--------------------------- MODULE BankImpl_proofs ---------------------------
(***************************************************************************)
(* Proofs about BankImpl, for any number of threads and resources and any  *)
(* interleaving of addCustomer with the monitor.                           *)
(*                                                                         *)
(* The first part is about checkSafe as an algorithm: its sweeps are       *)
(* recursive functions, and what they compute is proved by induction on    *)
(* the loop index.  Since the induction theorems of the library cannot be  *)
(* instantiated by the provers used, IntervalInduction and IterateExists   *)
(* state it for a set and for a function, from least counterexamples.      *)
(*                                                                         *)
(* The second part is about the threads.  RowsInv is the reason why it     *)
(* does no harm that addCustomer is not synchronized: where a thread may   *)
(* find something else than the row of need that is there, the customer    *)
(* of the row holds nothing, and such a row does not decide whether a      *)
(* state is safe.                                                          *)
(***************************************************************************)
EXTENDS BankImpl, Vectors_proofs, WellFoundedInduction

-----------------------------------------------------------------------------
(***************************************************************************)
(* Induction on a loop index.                                              *)
(***************************************************************************)

\* Induction from 0 to N, for the set of the indices something holds for.
LEMMA IntervalInduction ==
  ASSUME NEW N \in Nat, NEW P, 0 \in P, \A k \in 1 .. N : k - 1 \in P => k \in P
  PROVE  0 .. N \subseteq P
<1> DEFINE Bad == {k \in 0 .. N : k \notin P}
<1>1. SUFFICES ASSUME Bad # {} PROVE FALSE
  OBVIOUS
<1>2. PICK k \in Bad : \A j \in Bad : ~ (<<j, k>> \in OpToRel(<, Nat))
  <2>1. Bad \subseteq Nat
    OBVIOUS
  <2> HIDE DEF Bad
  <2>2. QED
    BY <1>1, <2>1, NatLessThanWellFounded, WFMin
<1>3. \A j \in 0 .. N : j < k => j \in P
  <2>1. \A j \in Nat : j < k => <<j, k>> \in OpToRel(<, Nat)
    <3>1. k \in Nat
      OBVIOUS
    <3> HIDE DEF Bad
    <3> QED BY <3>1, Zenon DEF OpToRel
  <2>2. \A j \in 0 .. N : j < k => <<j, k>> \in OpToRel(<, Nat)
    <3>1. \A j \in 0 .. N : j \in Nat
      OBVIOUS
    <3> HIDE DEF Bad
    <3> QED BY <2>1, <3>1, Zenon
  <2>3. QED
    BY <1>2, <2>2, Zenon
<1>4. k \in 1 .. N
  OBVIOUS
<1>5. k - 1 \in P
  BY <1>3, <1>4
<1>6. QED
  BY <1>4, <1>5

\* g is what a loop of N iterations of F makes of base.
Iterates(g, N, base, F) == g[0] = base /\ \A k \in 1 .. N : g[k] = F[<<g[k - 1], k>>]

\* There is such a function.
LEMMA IterateExists ==
  ASSUME NEW N \in Nat, NEW T, NEW base \in T, NEW F \in [T \X (1 .. N) -> T]
  PROVE  \E g \in [0 .. N -> T] : Iterates(g, N, base, F)
<1> USE DEF Iterates
<1> DEFINE Upto(m) == \E g \in [0 .. m -> T] : Iterates(g, m, base, F)
           P == {m \in 0 .. N : Upto(m)}
<1>1. Upto(0)
  <2> DEFINE g == [k \in 0 .. 0 |-> base]
  <2>1. g \in [0 .. 0 -> T] /\ g[0] = base
    OBVIOUS
  <2>2. \A k \in 1 .. 0 : g[k] = F[<<g[k - 1], k>>]
    OBVIOUS
  <2> HIDE DEF g
  <2>3. QED
    BY <2>1, <2>2
<1>2. ASSUME NEW m \in 1 .. N, Upto(m - 1) PROVE Upto(m)
  <2>1. PICK g \in [0 .. m - 1 -> T] :
          g[0] = base /\ \A k \in 1 .. m - 1 : g[k] = F[<<g[k - 1], k>>]
    BY <1>2
  <2> DEFINE h == [k \in 0 .. m |-> IF k = m THEN F[<<g[m - 1], m>>] ELSE g[k]]
  <2>2. h \in [0 .. m -> T] /\ h[0] = base
    BY <2>1
  <2>3. ASSUME NEW k \in 1 .. m PROVE h[k] = F[<<h[k - 1], k>>]
    <3>1. h[k - 1] = g[k - 1]
      OBVIOUS
    <3>2. CASE k = m
      BY <3>1, <3>2
    <3>3. CASE k # m
      <4>1. k \in 1 .. m - 1 /\ h[k] = g[k]
        BY <3>3
      <4>2. QED
        BY <2>1, <3>1, <4>1
    <3>4. QED
      BY <3>2, <3>3
  <2>4. QED
    BY <2>2, <2>3
<1>3. 0 .. N \subseteq P
  <2>1. 0 \in P /\ \A k \in 1 .. N : k - 1 \in P => k \in P
    <3> HIDE DEF Upto
    <3> QED BY <1>1, <1>2
  <2>2. QED
    <3> HIDE DEF P
    <3> QED BY <2>1, IntervalInduction
<1>4. Upto(N)
  <2> HIDE DEF Upto
  <2> QED BY <1>3
<1>5. QED
  BY <1>4

-----------------------------------------------------------------------------
(***************************************************************************)
(* checkSafe.                                                              *)
(***************************************************************************)

\* The states of its loops: work is what is available and what the finished ones hold,
\* and every set with a finished one in it is served.
SweepState(avail, alloc, nd) ==
  {s \in [work : Vector, finish : SUBSET Customer] :
     /\ \A r \in Resource : s.work[r] = avail[r] + Held(alloc, s.finish, r)
     /\ Served(avail, alloc, nd, s.finish)}

\* Nobody else can finish.
Stuck(nd, s) == \A d \in Customer \ s.finish : ~Leq(nd[d], s.work)

\* A visit keeps the invariant, and changes nothing unless the customer can finish.
LEMMA VisitStep ==
  ASSUME NEW avail \in Vector, NEW alloc \in Tables, NEW nd \in Tables,
         NEW s \in SweepState(avail, alloc, nd), NEW d \in Customer
  PROVE  /\ Visit(alloc, nd, s, d) \in SweepState(avail, alloc, nd)
         /\ IF d \notin s.finish /\ Leq(nd[d], s.work)
            THEN Visit(alloc, nd, s, d).finish = s.finish \cup {d}
            ELSE Visit(alloc, nd, s, d) = s
<1>1. CASE ~(d \notin s.finish /\ Leq(nd[d], s.work))
  BY <1>1 DEF Visit, Finishing
<1>2. CASE d \notin s.finish /\ Leq(nd[d], s.work)
  <2> DEFINE n == [work |-> Plus(s.work, alloc[d]), finish |-> s.finish \cup {d}]
  <2>1. Visit(alloc, nd, s, d) = n
    BY <1>2 DEF Visit, Finishing
  <2>2. /\ s.work \in Vector /\ s.finish \subseteq Customer /\ alloc[d] \in Vector
        /\ \A r \in Resource : s.work[r] = avail[r] + Held(alloc, s.finish, r)
        /\ Served(avail, alloc, nd, s.finish)
    BY DEF SweepState, Tables
  <2>3. n \in [work : Vector, finish : SUBSET Customer]
    BY <2>2, VectorOps
  <2>4. ASSUME NEW r \in Resource
        PROVE  n.work[r] = avail[r] + Held(alloc, n.finish, r)
    <3>1. n.work[r] = s.work[r] + alloc[d][r] /\ n.finish = s.finish \cup {d}
      BY DEF Plus
    <3>2. Held(alloc, s.finish \cup {d}, r) = Held(alloc, s.finish, r) + alloc[d][r]
      BY <1>2, <2>2, HeldAdd
    <3>3. Held(alloc, s.finish, r) \in Nat /\ alloc[d][r] \in Nat /\ avail[r] \in Nat
      BY <2>2, HeldBounds DEF Vector
    <3>4. QED
      BY <2>2, <3>1, <3>2, <3>3
  <2>5. Served(avail, alloc, nd, s.finish \cup {d})
    <3>1. \A r \in Resource : nd[d][r] <= avail[r] + Held(alloc, s.finish, r)
      BY <1>2, <2>2 DEF Leq
    <3>2. QED
      BY <2>2, <3>1, ServedGrows
  <2>6. n.finish = s.finish \cup {d}
    OBVIOUS
  <2>7. n \in SweepState(avail, alloc, nd)
    <3> HIDE DEF n
    <3> QED BY <2>3, <2>4, <2>5, <2>6 DEF SweepState
  <2>8. QED
    BY <1>2, <2>1, <2>6, <2>7
<1>3. QED
  BY <1>1, <1>2

\* A sweep keeps the invariant and the finished ones.  It changes nothing if nobody else
\* can finish, and only then.
LEMMA SweepStep ==
  ASSUME NEW avail \in Vector, NEW alloc \in Tables, NEW nd \in Tables,
         NEW s \in SweepState(avail, alloc, nd)
  PROVE  /\ Sweep(alloc, nd, s) \in SweepState(avail, alloc, nd)
         /\ s.finish \subseteq Sweep(alloc, nd, s).finish
         /\ Stuck(nd, s) => Sweep(alloc, nd, s) = s
         /\ Sweep(alloc, nd, s).finish = s.finish => Stuck(nd, s)
<1> DEFINE visited[k \in 0 .. numberOfCustomers] ==
             IF k = 0 THEN s ELSE Visit(alloc, nd, visited[k - 1], k - 1)
           T == SweepState(avail, alloc, nd)
<1>0. numberOfCustomers \in Nat /\ \A k \in 1 .. numberOfCustomers : k - 1 \in Customer
  BY SizeAssumption DEF Customer
<1>1. visited = [k \in 0 .. numberOfCustomers |->
                   IF k = 0 THEN s ELSE Visit(alloc, nd, visited[k - 1], k - 1)]
  <2> DEFINE F == [p \in T \X (1 .. numberOfCustomers) |-> Visit(alloc, nd, p[1], p[2] - 1)]
  <2>1. F \in [T \X (1 .. numberOfCustomers) -> T] /\ s \in T
    <3>1. ASSUME NEW p \in T \X (1 .. numberOfCustomers)
          PROVE  Visit(alloc, nd, p[1], p[2] - 1) \in T
      <4>1. p[1] \in T /\ p[2] - 1 \in Customer
        BY <1>0
      <4>2. QED
        BY <4>1, VisitStep
    <3>2. s \in T
      OBVIOUS
    <3> HIDE DEF T
    <3>3. QED
      BY <3>1, <3>2
  <2>2. PICK g \in [0 .. numberOfCustomers -> T] :
          g[0] = s /\ \A k \in 1 .. numberOfCustomers : g[k] = F[<<g[k - 1], k>>]
    <3>1. \E g \in [0 .. numberOfCustomers -> T] : Iterates(g, numberOfCustomers, s, F)
      <4> HIDE DEF F, T, visited
      <4> QED BY <1>0, <2>1, IterateExists, Zenon
    <3> HIDE DEF F, T, visited
    <3> QED BY <3>1 DEF Iterates
  <2> HIDE DEF T
  <2>3. ASSUME NEW k \in 0 .. numberOfCustomers
        PROVE  g[k] = IF k = 0 THEN s ELSE Visit(alloc, nd, g[k - 1], k - 1)
    <3>1. CASE k = 0
      BY <2>2, <3>1
    <3>2. CASE k # 0
      <4>1. k \in 1 .. numberOfCustomers /\ g[k - 1] \in T
        BY <1>0, <3>2
      <4>2. g[k] = F[<<g[k - 1], k>>]
        BY <2>2, <4>1
      <4>3. QED
        BY <3>2, <4>1, <4>2
    <3>3. QED
      BY <3>1, <3>2
  <2>4. g = [k \in 0 .. numberOfCustomers |->
               IF k = 0 THEN s ELSE Visit(alloc, nd, g[k - 1], k - 1)]
    <3> HIDE DEF F, visited
    <3> QED BY <2>3
  <2>5. QED
    BY <2>4
<1>2. Sweep(alloc, nd, s) = visited[numberOfCustomers]
  BY DEF Sweep
<1> HIDE DEF visited
<1>3. visited[0] = s
  BY <1>0, <1>1
<1>4. ASSUME NEW k \in 1 .. numberOfCustomers
      PROVE  visited[k] = Visit(alloc, nd, visited[k - 1], k - 1)
  BY <1>0, <1>1
<1> DEFINE Good(k) == /\ visited[k] \in T
                      /\ s.finish \subseteq visited[k].finish
                      /\ Stuck(nd, s) => visited[k] = s
                      /\ visited[k].finish = s.finish =>
                           /\ visited[k] = s
                           /\ \A d \in Customer \ s.finish : d < k => ~Leq(nd[d], s.work)
           P == {k \in 0 .. numberOfCustomers : Good(k)}
<1>5. Good(0)
  BY <1>3 DEF Customer
<1>6. ASSUME NEW k \in 1 .. numberOfCustomers, Good(k - 1) PROVE Good(k)
  <2> DEFINE v == visited[k - 1]
  <2>1. k - 1 \in Customer /\ v \in T
    BY <1>0, <1>6
  <2>2. /\ visited[k] \in T
        /\ IF k - 1 \notin v.finish /\ Leq(nd[k - 1], v.work)
           THEN visited[k].finish = v.finish \cup {k - 1}
           ELSE visited[k] = v
    BY <1>4, <2>1, VisitStep
  <2>3. s.finish \subseteq v.finish
    BY <1>6
  <2>4. s.finish \subseteq visited[k].finish
    BY <2>2, <2>3
  <2>5. ASSUME visited[k].finish = s.finish
        PROVE  /\ visited[k] = s
               /\ \A d \in Customer \ s.finish : d < k => ~Leq(nd[d], s.work)
    <3>1. visited[k] = v /\ ~(k - 1 \notin v.finish /\ Leq(nd[k - 1], v.work))
      BY <2>2, <2>3, <2>5
    <3>2. v = s /\ \A d \in Customer \ s.finish : d < k - 1 => ~Leq(nd[d], s.work)
      BY <1>6, <2>5, <3>1
    <3>3. ASSUME NEW d \in Customer \ s.finish, d < k PROVE d = k - 1 \/ d < k - 1
      BY <3>3 DEF Customer
    <3>4. QED
      BY <3>1, <3>2, <3>3
  <2>6. Stuck(nd, s) => visited[k] = s
    BY <1>6, <2>1, <2>2 DEF Stuck
  <2>7. QED
    BY <2>2, <2>4, <2>5, <2>6
<1>7. 0 .. numberOfCustomers \subseteq P
  <2>1. 0 \in P /\ \A k \in 1 .. numberOfCustomers : k - 1 \in P => k \in P
    <3> HIDE DEF Good
    <3> QED BY <1>0, <1>5, <1>6
  <2>2. QED
    <3> HIDE DEF P
    <3> QED BY <1>0, <2>1, IntervalInduction
<1>8. Good(numberOfCustomers)
  <2> HIDE DEF Good
  <2> QED BY <1>0, <1>7
<1>9. \A d \in Customer : d < numberOfCustomers
  BY <1>0 DEF Customer
<1>10. QED
  BY <1>2, <1>8, <1>9 DEF Stuck

\* checkSafe finds everyone finished exactly if the state of the copies is safe.
LEMMA CheckSafeMeans ==
  ASSUME NEW c \in Customer, NEW a \in Vector, NEW v \in Tables,
         available \in Vector, allocation \in Tables, Leq(a, available), Leq(a, v[c])
  PROVE  CheckSafe(c, a, v)
           <=> Safe(Minus(available, a), tempAllocation(c, a), tempNeed(c, a, v))
<1> DEFINE avail == Minus(available, a)
           alloc == tempAllocation(c, a)
           nd == tempNeed(c, a, v)
           T == SweepState(avail, alloc, nd)
           base == [work |-> avail, finish |-> {}]
           swept[k \in 0 .. numberOfCustomers] ==
             IF k = 0 THEN base ELSE Sweep(alloc, nd, swept[k - 1])
<1>1. numberOfCustomers \in Nat /\ Cardinality(Customer) = numberOfCustomers
  BY SizeAssumption, FS_Interval DEF Customer
<1>2. avail \in Vector /\ alloc \in Tables /\ nd \in Tables
  <2>1. avail \in Vector /\ Minus(v[c], a) \in Vector /\ Plus(allocation[c], a) \in Vector
    BY VectorOps DEF Tables
  <2>2. QED
    BY <2>1 DEF tempAllocation, tempNeed, Tables
<1>3. CheckSafe(c, a, v) <=> swept[numberOfCustomers].finish = Customer
  BY DEF CheckSafe
<1>4. base \in T
  <2>1. \A r \in Resource : avail[r] = avail[r] + Held(alloc, {}, r)
    BY <1>2, HeldNobody DEF Vector
  <2>2. Served(avail, alloc, nd, {})
    BY DEF Served
  <2>3. base \in [work : Vector, finish : SUBSET Customer] /\ base.work = avail /\ base.finish = {}
    BY <1>2
  <2> HIDE DEF avail, alloc, nd, base
  <2>4. QED
    BY <2>1, <2>2, <2>3 DEF SweepState
<1> HIDE DEF avail, alloc, nd, base
<1>5. ASSUME NEW s \in T
      PROVE  /\ Sweep(alloc, nd, s) \in T
             /\ s.finish \subseteq Sweep(alloc, nd, s).finish
             /\ Stuck(nd, s) => Sweep(alloc, nd, s) = s
             /\ Sweep(alloc, nd, s).finish = s.finish => Stuck(nd, s)
  BY <1>2, SweepStep
<1>6. \A s \in T : s.finish \subseteq Customer
  BY DEF SweepState
<1> HIDE DEF T
<1>7. swept = [k \in 0 .. numberOfCustomers |->
                 IF k = 0 THEN base ELSE Sweep(alloc, nd, swept[k - 1])]
  <2> DEFINE F == [p \in T \X (1 .. numberOfCustomers) |-> Sweep(alloc, nd, p[1])]
  <2>1. F \in [T \X (1 .. numberOfCustomers) -> T]
    BY <1>5
  <2>2. PICK g \in [0 .. numberOfCustomers -> T] :
          g[0] = base /\ \A k \in 1 .. numberOfCustomers : g[k] = F[<<g[k - 1], k>>]
    <3>1. \E g \in [0 .. numberOfCustomers -> T] : Iterates(g, numberOfCustomers, base, F)
      <4> HIDE DEF F, swept
      <4> QED BY <1>1, <1>4, <2>1, IterateExists, Zenon
    <3> HIDE DEF F, swept
    <3> QED BY <3>1 DEF Iterates
  <2>3. ASSUME NEW k \in 0 .. numberOfCustomers
        PROVE  g[k] = IF k = 0 THEN base ELSE Sweep(alloc, nd, g[k - 1])
    <3>1. CASE k = 0
      BY <2>2, <3>1
    <3>2. CASE k # 0
      <4>1. k \in 1 .. numberOfCustomers /\ g[k - 1] \in T
        BY <1>1, <3>2
      <4>2. g[k] = F[<<g[k - 1], k>>]
        BY <2>2, <4>1
      <4>3. QED
        BY <3>2, <4>1, <4>2
    <3>3. QED
      BY <3>1, <3>2
  <2>4. g = [k \in 0 .. numberOfCustomers |->
               IF k = 0 THEN base ELSE Sweep(alloc, nd, g[k - 1])]
    <3> HIDE DEF F, swept
    <3> QED BY <2>3
  <2>5. QED
    BY <2>4
<1> HIDE DEF swept
<1> DEFINE Good(k) == swept[k] \in T /\ (k <= Cardinality(swept[k].finish) \/ Stuck(nd, swept[k]))
           P == {k \in 0 .. numberOfCustomers : Good(k)}
<1>8. ASSUME NEW s \in T PROVE IsFiniteSet(s.finish) /\ Cardinality(s.finish) \in Nat
  BY <1>6, CustomersFinite, FS_Subset, FS_CardinalityType
<1>9. Good(0)
  <2>1. swept[0] = base
    BY <1>1, <1>7
  <2>2. QED
    BY <1>4, <1>8, <2>1
<1>10. ASSUME NEW k \in 1 .. numberOfCustomers, Good(k - 1) PROVE Good(k)
  <2>1. swept[k] = Sweep(alloc, nd, swept[k - 1])
    BY <1>1, <1>7
  <2>2. swept[k] \in T
    BY <1>5, <1>10, <2>1
  <2>3. CASE Stuck(nd, swept[k - 1])
    BY <1>5, <1>10, <2>1, <2>2, <2>3
  <2>4. CASE ~Stuck(nd, swept[k - 1])
    <3>1. swept[k - 1].finish \subseteq swept[k].finish /\ swept[k - 1].finish # swept[k].finish
      BY <1>5, <1>10, <2>1, <2>4
    <3>2. Cardinality(swept[k - 1].finish) < Cardinality(swept[k].finish)
      <4>1. /\ IsFiniteSet(swept[k].finish) /\ Cardinality(swept[k].finish) \in Nat
            /\ Cardinality(swept[k - 1].finish) \in Nat
        BY <1>8, <1>10, <2>2
      <4>2. QED
        BY <3>1, <4>1, FS_Subset
    <3>3. /\ k - 1 <= Cardinality(swept[k - 1].finish)
          /\ Cardinality(swept[k - 1].finish) \in Nat /\ Cardinality(swept[k].finish) \in Nat
      BY <1>8, <1>10, <2>2, <2>4
    <3>4. QED
      BY <2>2, <3>2, <3>3
  <2>5. QED
    BY <2>3, <2>4
<1>11. 0 .. numberOfCustomers \subseteq P
  <2>1. 0 \in P /\ \A k \in 1 .. numberOfCustomers : k - 1 \in P => k \in P
    <3> HIDE DEF Good
    <3> QED BY <1>1, <1>9, <1>10
  <2>2. QED
    <3> HIDE DEF P
    <3> QED BY <1>1, <2>1, IntervalInduction
<1> DEFINE s == swept[numberOfCustomers]
<1>12. s \in T /\ (numberOfCustomers <= Cardinality(s.finish) \/ Stuck(nd, s))
  <2>1. Good(numberOfCustomers)
    <3> HIDE DEF Good
    <3> QED BY <1>1, <1>11
  <2>2. QED
    BY <2>1
<1> HIDE DEF s
<1>13. /\ s.finish \subseteq Customer /\ Served(avail, alloc, nd, s.finish)
       /\ \A r \in Resource : s.work[r] = avail[r] + Held(alloc, s.finish, r)
  BY <1>12 DEF T, SweepState
<1>14. CASE s.finish = Customer
  <2>1. Safe(avail, alloc, nd)
    BY <1>13, <1>14, ServedSafe
  <2>2. QED
    BY <1>3, <1>14, <2>1 DEF s, avail, alloc, nd
<1>15. CASE s.finish # Customer
  <2>1. Cardinality(s.finish) < numberOfCustomers /\ Cardinality(s.finish) \in Nat
    BY <1>1, <1>8, <1>12, <1>13, <1>15, CustomersFinite, FS_Subset
  <2>2. Stuck(nd, s)
    BY <1>1, <1>12, <2>1
  <2>3. \A d \in Customer \ s.finish :
          ~ \A r \in Resource : nd[d][r] <= avail[r] + Held(alloc, s.finish, r)
    BY <1>13, <2>2 DEF Stuck, Leq
  <2>4. ~Safe(avail, alloc, nd)
    BY <1>13, <1>15, <2>3, StuckUnsafe
  <2>5. QED
    BY <1>3, <1>15, <2>4 DEF s, avail, alloc, nd
<1>16. QED
  BY <1>14, <1>15

-----------------------------------------------------------------------------
(***************************************************************************)
(* The invariant.                                                          *)
(***************************************************************************)

BooksInv ==
  \A r \in Resource :
    /\ available[r] + Held(allocation, Customer, r) = Resources[r]
    /\ \A c \in Customer : need[c][r] + allocation[c][r] = maximum[c][r]

\* What is in the rows, and what others may find there.
RowsInv ==
  \A c \in Customer :
    /\ Leq(maximum[c], Resources)
    /\ \A row \in visible[c] : Leq(row, Resources)
    /\ visible[c] = {need[c]} \/ allocation[c] = Zero
    /\ IF Idle(c)
       THEN maximum[c] = claimed[c]
       ELSE /\ allocation[c] = Zero /\ maximumDemand[c] \in Demands
            /\ \A r \in Resource : r < cur[c] => maximum[c][r] = maximumDemand[c][r]

IInv == TypeOK /\ BooksInv /\ RowsInv

\* A request is decided as if it had read the true needs, or any others that differ from
\* them only in customers who hold nothing.
LEMMA DecisionMeans ==
  ASSUME IInv, NEW c \in Customer, NEW a \in Amounts, Plausible(c, a), NEW v \in Views(c),
         NEW other \in Tables, other[c] = Minus(need[c], a),
         \A d \in Customer \ {c} :
           other[d] = need[d] \/ (allocation[d] = Zero /\ Leq(other[d], Resources))
  PROVE  CheckSafe(c, a, v) <=> Safe(Minus(available, a), tempAllocation(c, a), other)
<1> DEFINE avail == Minus(available, a)
           alloc == tempAllocation(c, a)
           nd == tempNeed(c, a, v)
<1>1. /\ TypeOK /\ BooksInv /\ RowsInv
      /\ available \in Vector /\ allocation \in Tables /\ a \in Vector /\ Resources \in Vector
      /\ Leq(a, available) /\ Leq(a, need[c])
  BY BankAssumption DEF IInv, TypeOK, Tables, Plausible
<1>2. v[c] = need[c] /\ \A d \in Customer \ {c} : v[d] \in visible[d]
  BY DEF Views
<1>3. v \in Tables
  <2>1. \A d \in Customer : v[d] \in Vector
    BY <1>1, <1>2 DEF TypeOK
  <2>2. v \in [Customer -> UNION Range(visible) \cup {need[c]}]
    BY DEF Views
  <2>3. QED
    BY <2>1, <2>2 DEF Tables
<1>4. CheckSafe(c, a, v) <=> Safe(avail, alloc, nd)
  BY <1>1, <1>2, <1>3, CheckSafeMeans
<1>5. avail \in Vector /\ alloc \in Tables /\ nd \in Tables
  <2>1. avail \in Vector /\ Minus(v[c], a) \in Vector /\ Plus(allocation[c], a) \in Vector
    BY <1>1, <1>2, <1>3, VectorOps DEF Tables
  <2>2. QED
    BY <1>1, <1>3, <2>1 DEF tempAllocation, tempNeed, Tables
<1>6. ASSUME NEW r \in Resource
      PROVE  avail[r] + Held(alloc, Customer, r) = Resources[r]
  <2>1. /\ a[r] \in Nat /\ available[r] \in Nat /\ allocation[c][r] \in Nat
        /\ Held(allocation, Customer, r) \in Nat
        /\ available[r] + Held(allocation, Customer, r) = Resources[r]
    BY <1>1, HeldBounds DEF Vector, Tables, BooksInv
  <2>2. /\ avail[r] = available[r] - a[r]
        /\ alloc[c][r] = allocation[c][r] + a[r]
        /\ \A d \in Customer \ {c} : allocation[d][r] = alloc[d][r]
    BY <1>1 DEF tempAllocation, Plus, Minus, Tables
  <2>3. a[r] \in Int
    BY <2>1
  <2> HIDE DEF avail, alloc
  <2>4. Held(alloc, Customer, r) = Held(allocation, Customer, r) + a[r]
    <3>1. allocation \in Tables /\ alloc \in Tables
      BY <1>1, <1>5
    <3>2. /\ alloc[c][r] = allocation[c][r] + a[r]
          /\ \A d \in Customer \ {c} : allocation[d][r] = alloc[d][r]
      BY <2>2
    <3>3. QED
      BY <2>3, <3>1, <3>2, HeldChange
  <2>5. QED
    BY <2>1, <2>2, <2>4
<1>7. ASSUME NEW d \in Customer
      PROVE  nd[d] = other[d]
               \/ (alloc[d] = Zero /\ Leq(nd[d], Resources) /\ Leq(other[d], Resources))
  <2>1. CASE d = c
    BY <1>2, <1>3, <2>1 DEF tempNeed, Tables
  <2>2. CASE d # c
    <3>1. nd[d] = v[d] /\ alloc[d] = allocation[d]
      BY <1>1, <1>3, <2>2 DEF tempNeed, tempAllocation, Tables
    <3>2. /\ v[d] \in visible[d] /\ need[d] \in visible[d]
          /\ Leq(v[d], Resources) /\ Leq(need[d], Resources)
          /\ visible[d] = {need[d]} \/ allocation[d] = Zero
      BY <1>1, <1>2, <2>2 DEF RowsInv, TypeOK
    <3>3. QED
      BY <2>2, <3>1, <3>2
  <2>3. QED
    BY <2>1, <2>2
<1>8. Safe(avail, alloc, nd) <=> Safe(avail, alloc, other)
  <2> HIDE DEF avail, alloc, nd
  <2>1. Safe(avail, alloc, nd) => Safe(avail, alloc, other)
    BY <1>1, <1>5, <1>6, <1>7, SafeAgree
  <2>2. Safe(avail, alloc, other) => Safe(avail, alloc, nd)
    BY <1>1, <1>5, <1>6, <1>7, SafeAgree
  <2>3. QED
    BY <2>1, <2>2
<1>9. QED
  BY <1>4, <1>8

-----------------------------------------------------------------------------
(***************************************************************************)
(* The initial state, and the steps of each part of the invariant.         *)
(***************************************************************************)

\* The initial states satisfy the invariant.
LEMMA InitInv == Init => IInv
<1> SUFFICES ASSUME Init PROVE IInv
  OBVIOUS
<1>1. Resources \in Vector /\ Zero \in Vector /\ Leq(Zero, Resources)
  BY BankAssumption, VectorOps DEF Leq, Zero, Vector
<1>2. TypeOK
  <2>1. numberOfResources \in 0 .. numberOfResources
    BY SizeAssumption
  <2>2. QED
    BY <1>1, <2>1 DEF Init, TypeOK
<1>3. BooksInv
  <2> SUFFICES ASSUME NEW r \in Resource
               PROVE  /\ available[r] + Held(allocation, Customer, r) = Resources[r]
                      /\ \A c \in Customer : need[c][r] + allocation[c][r] = maximum[c][r]
    BY DEF BooksInv
  <2>1. \A c \in Customer : need[c][r] = 0 /\ allocation[c][r] = 0 /\ maximum[c][r] = 0
    BY DEF Init, Zero
  <2>2. Held(allocation, Customer, r) = 0
    BY <2>1, HeldZero
  <2>3. available[r] = Resources[r] /\ Resources[r] \in Nat
    BY <1>1 DEF Init, Vector
  <2>4. QED
    BY <2>1, <2>2, <2>3
<1>4. RowsInv
  BY <1>1 DEF Init, RowsInv, Idle
<1>5. QED
  BY <1>2, <1>3, <1>4 DEF IInv

\* Every step keeps the types.
LEMMA TypeStep == TypeOK /\ RowsInv /\ [Next]_vars => TypeOK'
<1> SUFFICES ASSUME TypeOK, RowsInv, [Next]_vars
             PROVE  TypeOK'
  OBVIOUS
<1>0. /\ Demands \subseteq Vector /\ Amounts \subseteq Vector
      /\ numberOfResources \in Nat \ {0} /\ 0 \in 0 .. numberOfResources
      /\ available \in Vector
      /\ \A c \in Customer : need[c] \in Vector /\ allocation[c] \in Vector
  BY BankAssumption, SizeAssumption DEF TypeOK
<1>1. ASSUME NEW c \in Customer, NEW demand \in Demands, AddCustomer(c, demand)
      PROVE  TypeOK'
  BY <1>0, <1>1 DEF AddCustomer, bank, TypeOK
<1>2. ASSUME NEW c \in Customer, AddElement(c)
      PROVE  TypeOK'
  <2> DEFINE i == cur[c]
             d == maximumDemand[c][i]
  <2>1. /\ i \in Resource /\ i + 1 \in 0 .. numberOfResources
        /\ maximumDemand[c] \in Vector /\ d \in Nat
    <3>1. i \in 0 .. numberOfResources /\ i # numberOfResources
      BY <1>2 DEF AddElement, Idle, TypeOK
    <3>2. i \in Resource /\ i + 1 \in 0 .. numberOfResources
      BY <1>0, <3>1 DEF Resource
    <3>3. maximumDemand[c] \in Vector
      BY <1>0, <1>2 DEF AddElement, RowsInv
    <3>4. QED
      BY <3>2, <3>3 DEF Vector
  <2>2. \A row \in Vector : [row EXCEPT ![i] = d] \in Vector
    BY <2>1 DEF Vector
  <2>3. /\ maximum' = [maximum EXCEPT ![c] = [maximum[c] EXCEPT ![i] = d]]
        /\ need' = [need EXCEPT ![c] = [need[c] EXCEPT ![i] = d]]
        /\ visible' = [visible EXCEPT ![c] = @ \cup {[row EXCEPT ![i] = d] : row \in @}]
        /\ cur' = [cur EXCEPT ![c] = i + 1]
        /\ claimed' \in {claimed, [claimed EXCEPT ![c] = maximumDemand[c]]}
        /\ UNCHANGED <<available, allocation, maximumDemand>>
    BY <1>2 DEF AddElement, TypeOK
  <2> HIDE DEF i, d
  <2>4. maximum' \in [Customer -> Vector] /\ need' \in [Customer -> Vector]
    BY <1>0, <2>2, <2>3 DEF TypeOK
  <2>5. cur' \in [Customer -> 0 .. numberOfResources]
    BY <2>1, <2>3 DEF TypeOK
  <2>6. claimed' \in [Customer -> Demands \cup {Zero}]
    BY <2>3 DEF TypeOK
  <2>7. visible' \in [Customer -> SUBSET Vector]
    <3>1. {[row EXCEPT ![i] = d] : row \in visible[c]} \subseteq Vector
      BY <2>2 DEF TypeOK
    <3>2. QED
      BY <2>3, <3>1 DEF TypeOK
  <2>8. ASSUME NEW e \in Customer
        PROVE  need'[e] \in visible'[e]
    <3>1. need[e] \in visible[e] /\ visible \in [Customer -> SUBSET Vector]
      BY DEF TypeOK
    <3>2. CASE e = c
      <4>1. visible'[e] = visible[c] \cup {[row EXCEPT ![i] = d] : row \in visible[c]}
        BY <2>3, <3>1, <3>2
      <4>2. need'[e] = [need[c] EXCEPT ![i] = d]
        BY <2>3, <3>2 DEF TypeOK
      <4>3. QED
        BY <2>2, <3>1, <3>2, <4>1, <4>2
    <3>3. CASE e # c
      BY <2>3, <3>1, <3>3 DEF TypeOK
    <3>4. QED
      BY <3>2, <3>3
  <2>9. QED
    BY <2>3, <2>4, <2>5, <2>6, <2>7, <2>8 DEF TypeOK
<1>3. ASSUME NEW c \in Customer, NEW a \in Amounts, RequestResources(c, a)
      PROVE  TypeOK'
  <2>1. CASE UNCHANGED <<available, allocation, need>>
    <3>1. need'[c] \in Vector /\ visible' = [visible EXCEPT ![c] = {need'[c]}]
      BY <1>0, <1>3, <2>1 DEF RequestResources, Publish
    <3>2. QED
      BY <1>3, <2>1, <3>1 DEF RequestResources, adding, TypeOK
  <2>2. CASE /\ Plausible(c, a)
             /\ available' = Minus(available, a)
             /\ allocation' = [allocation EXCEPT ![c] = Plus(@, a)]
             /\ need' = [need EXCEPT ![c] = Minus(@, a)]
    <3>1. /\ Minus(available, a) \in Vector /\ Plus(allocation[c], a) \in Vector
          /\ Minus(need[c], a) \in Vector
      BY <1>0, <2>2, VectorOps DEF Plausible
    <3>2. need'[c] \in Vector /\ visible' = [visible EXCEPT ![c] = {need'[c]}]
      BY <1>3, <2>2, <3>1 DEF RequestResources, Publish, TypeOK
    <3>3. QED
      BY <1>3, <2>2, <3>1, <3>2 DEF RequestResources, adding, TypeOK
  <2>3. QED
    BY <1>3, <2>1, <2>2 DEF RequestResources
<1>4. ASSUME NEW c \in Customer, NEW a \in Amounts, ReleaseResources(c, a)
      PROVE  TypeOK'
  <2>1. /\ Plus(available, a) \in Vector /\ Minus(allocation[c], a) \in Vector
        /\ Plus(need[c], a) \in Vector
    BY <1>0, <1>4, VectorOps DEF ReleaseResources
  <2>2. need'[c] \in Vector /\ visible' = [visible EXCEPT ![c] = {need'[c]}]
    BY <1>4, <2>1 DEF ReleaseResources, Publish, TypeOK
  <2>3. QED
    BY <1>4, <2>1, <2>2 DEF ReleaseResources, adding, TypeOK
<1>5. CASE UNCHANGED vars
  BY <1>5 DEF vars, bank, adding, TypeOK
<1>6. QED
  BY <1>1, <1>2, <1>3, <1>4, <1>5 DEF Next

\* What an iteration of addCustomer's loop does to the entries of its two rows.
LEMMA ElementEntries ==
  ASSUME TypeOK, RowsInv, NEW c \in Customer, AddElement(c)
  PROVE  /\ cur[c] \in Resource /\ maximumDemand[c] \in Vector
         /\ allocation[c] = Zero
         /\ \A r \in Resource :
              /\ maximum'[c][r] = IF r = cur[c] THEN maximumDemand[c][r] ELSE maximum[c][r]
              /\ need'[c][r] = IF r = cur[c] THEN maximumDemand[c][r] ELSE need[c][r]
         /\ \A d \in Customer \ {c} : /\ maximum'[d] = maximum[d] /\ need'[d] = need[d]
                                      /\ visible'[d] = visible[d] /\ cur'[d] = cur[d]
                                      /\ claimed'[d] = claimed[d]
         /\ \A row \in visible'[c] : \A r \in Resource :
              \E old \in visible[c] : row[r] = old[r] \/ row[r] = maximumDemand[c][r]
         /\ UNCHANGED <<available, allocation, maximumDemand>>
<1>1. cur[c] \in Resource /\ maximumDemand[c] \in Vector /\ allocation[c] = Zero
  BY BankAssumption, SizeAssumption DEF AddElement, Idle, TypeOK, RowsInv, Resource
<1>2. ASSUME NEW r \in Resource
      PROVE  /\ maximum'[c][r] = IF r = cur[c] THEN maximumDemand[c][r] ELSE maximum[c][r]
             /\ need'[c][r] = IF r = cur[c] THEN maximumDemand[c][r] ELSE need[c][r]
  <2>1. maximum'[c] = [maximum[c] EXCEPT ![cur[c]] = maximumDemand[c][cur[c]]]
    BY DEF AddElement, TypeOK
  <2>2. need'[c] = [need[c] EXCEPT ![cur[c]] = maximumDemand[c][cur[c]]]
    BY DEF AddElement, TypeOK
  <2>3. maximum[c] \in Vector /\ need[c] \in Vector
    BY DEF TypeOK
  <2>4. QED
    BY <2>1, <2>2, <2>3 DEF Vector
<1>3. \A d \in Customer \ {c} : /\ maximum'[d] = maximum[d] /\ need'[d] = need[d]
                                /\ visible'[d] = visible[d] /\ cur'[d] = cur[d]
                                /\ claimed'[d] = claimed[d]
  BY DEF AddElement, TypeOK
<1>4. ASSUME NEW row \in visible'[c], NEW r \in Resource
      PROVE  \E old \in visible[c] : row[r] = old[r] \/ row[r] = maximumDemand[c][r]
  <2>1. visible'[c] = visible[c] \cup {[old EXCEPT ![cur[c]] = maximumDemand[c][cur[c]]] :
                                         old \in visible[c]}
    BY DEF AddElement, TypeOK
  <2>2. CASE row \in visible[c]
    BY <2>2
  <2>3. CASE row \notin visible[c]
    <3>1. PICK old \in visible[c] : row = [old EXCEPT ![cur[c]] = maximumDemand[c][cur[c]]]
      BY <2>1, <2>3
    <3>2. old \in Vector
      BY DEF TypeOK
    <3>3. row[r] = old[r] \/ row[r] = maximumDemand[c][r]
      BY <3>1, <3>2 DEF Vector
    <3>4. QED
      BY <3>3
  <2>4. QED
    BY <2>2, <2>3
<1>5. UNCHANGED <<available, allocation, maximumDemand>>
  BY DEF AddElement
<1>6. QED
  BY <1>1, <1>2, <1>3, <1>4, <1>5

\* addCustomer keeps need and maximum of a row alike, whatever it has written of them; a
\* grant moves units to the customer, a release moves them back.
LEMMA BooksStep ==
  TypeOK /\ TypeOK' /\ BooksInv /\ RowsInv /\ [Next]_vars => BooksInv'
<1> SUFFICES ASSUME TypeOK, TypeOK', BooksInv, RowsInv, [Next]_vars, NEW r \in Resource
             PROVE  /\ available'[r] + Held(allocation', Customer, r) = Resources[r]
                    /\ \A c \in Customer : need'[c][r] + allocation'[c][r] = maximum'[c][r]
  BY DEF BooksInv
<1>0. /\ allocation \in Tables /\ allocation' \in Tables
      /\ available[r] \in Nat
      /\ \A c \in Customer : need[c][r] \in Nat /\ allocation[c][r] \in Nat /\ maximum[c][r] \in Nat
      /\ Held(allocation, Customer, r) \in Nat
  BY HeldBounds DEF TypeOK, Tables, Vector
<1>a. /\ available[r] + Held(allocation, Customer, r) = Resources[r]
      /\ \A c \in Customer : need[c][r] + allocation[c][r] = maximum[c][r]
  BY DEF BooksInv
<1>b. \A a \in Amounts : a[r] \in Nat
  BY BankAssumption DEF Vector
<1>1. CASE UNCHANGED bank
  BY <1>a, <1>1 DEF bank
<1>2. ASSUME NEW c \in Customer, AddElement(c)
      PROVE  /\ available'[r] + Held(allocation', Customer, r) = Resources[r]
             /\ \A d \in Customer : need'[d][r] + allocation'[d][r] = maximum'[d][r]
  <2>1. maximumDemand[c][r] \in Nat /\ allocation[c][r] = 0
    BY <1>2, ElementEntries DEF Vector, Zero
  <2>2. need'[c][r] + allocation[c][r] = maximum'[c][r]
    BY <1>a, <1>2, <2>1, ElementEntries
  <2>3. QED
    BY <1>a, <1>2, <2>2, ElementEntries
<1>3. ASSUME NEW c \in Customer, NEW a \in Amounts, RequestResources(c, a)
      PROVE  /\ available'[r] + Held(allocation', Customer, r) = Resources[r]
             /\ \A d \in Customer : need'[d][r] + allocation'[d][r] = maximum'[d][r]
  <2>1. CASE UNCHANGED <<available, allocation, need>>
    BY <1>a, <1>3, <2>1 DEF RequestResources
  <2>2. CASE /\ available' = Minus(available, a)
             /\ allocation' = [allocation EXCEPT ![c] = Plus(@, a)]
             /\ need' = [need EXCEPT ![c] = Minus(@, a)]
    <3>1. /\ available'[r] = available[r] - a[r]
          /\ allocation'[c][r] = allocation[c][r] + a[r]
          /\ need'[c][r] = need[c][r] - a[r]
          /\ \A d \in Customer \ {c} : allocation'[d] = allocation[d] /\ need'[d] = need[d]
          /\ maximum' = maximum
      BY <1>3, <2>2 DEF RequestResources, TypeOK, Plus, Minus
    <3>2. a[r] \in Nat /\ a[r] \in Int
      BY <1>b
    <3>3. \A d \in Customer \ {c} : allocation[d][r] = allocation'[d][r]
      BY <3>1
    <3>4. Held(allocation', Customer, r) = Held(allocation, Customer, r) + a[r]
      BY <1>0, <3>1, <3>2, <3>3, HeldChange
    <3>5. QED
      BY <1>0, <1>a, <3>1, <3>2, <3>4
  <2>3. QED
    BY <1>3, <2>1, <2>2 DEF RequestResources
<1>4. ASSUME NEW c \in Customer, NEW a \in Amounts, ReleaseResources(c, a)
      PROVE  /\ available'[r] + Held(allocation', Customer, r) = Resources[r]
             /\ \A d \in Customer : need'[d][r] + allocation'[d][r] = maximum'[d][r]
  <2>1. a[r] \in Nat /\ 0 - a[r] \in Int
    BY <1>b
  <2>2. /\ available'[r] = available[r] + a[r]
        /\ allocation'[c][r] = allocation[c][r] + (0 - a[r])
        /\ need'[c][r] = need[c][r] + a[r]
        /\ \A d \in Customer \ {c} : allocation'[d] = allocation[d] /\ need'[d] = need[d]
        /\ maximum' = maximum
    BY <1>0, <1>4, <2>1 DEF ReleaseResources, TypeOK, Plus, Minus
  <2>3. \A d \in Customer \ {c} : allocation[d][r] = allocation'[d][r]
    BY <2>2
  <2>4. Held(allocation', Customer, r) = Held(allocation, Customer, r) + (0 - a[r])
    BY <1>0, <2>1, <2>2, <2>3, HeldChange
  <2>5. QED
    BY <1>0, <1>a, <2>1, <2>2, <2>4
<1>5. QED
  BY <1>1, <1>2, <1>3, <1>4 DEF Next, AddCustomer, vars

\* Rows are torn only of customers that hold nothing, and what is found in a row is within
\* what the bank has.
LEMMA RowsStep ==
  TypeOK /\ TypeOK' /\ BooksInv' /\ RowsInv /\ [Next]_vars => RowsInv'
<1> DEFINE RowInv(c) ==
      /\ Leq(maximum[c], Resources)
      /\ \A row \in visible[c] : Leq(row, Resources)
      /\ visible[c] = {need[c]} \/ allocation[c] = Zero
      /\ IF Idle(c)
         THEN maximum[c] = claimed[c]
         ELSE /\ allocation[c] = Zero /\ maximumDemand[c] \in Demands
              /\ \A r \in Resource : r < cur[c] => maximum[c][r] = maximumDemand[c][r]
<1> SUFFICES ASSUME TypeOK, TypeOK', BooksInv', RowsInv, [Next]_vars, NEW e \in Customer
             PROVE  RowInv(e)'
  BY DEF RowsInv
<1>0. RowInv(e)
  BY DEF RowsInv
<1>1. ASSUME NEW c \in Customer, NEW demand \in Demands, AddCustomer(c, demand)
      PROVE  RowInv(e)'
  <2>1. CASE e = c
    <3>1. /\ cur'[e] = 0 /\ maximumDemand'[e] = demand /\ allocation[e] = Zero
          /\ UNCHANGED <<maximum, need, allocation, visible>>
      BY <1>1, <2>1 DEF AddCustomer, bank, TypeOK
    <3>2. ~Idle(e)' /\ \A r \in Resource : ~(r < 0)
      BY <3>1, SizeAssumption DEF Idle, Resource
    <3>3. QED
      BY <1>0, <3>1, <3>2
  <2>2. CASE e # c
    <3>1. /\ cur'[e] = cur[e] /\ maximumDemand'[e] = maximumDemand[e]
          /\ UNCHANGED <<maximum, need, allocation, visible, claimed>>
      BY <1>1, <2>2 DEF AddCustomer, bank, TypeOK
    <3>2. QED
      BY <1>0, <3>1 DEF Idle
  <2>3. QED
    BY <2>1, <2>2
<1>2. ASSUME NEW c \in Customer, AddElement(c)
      PROVE  RowInv(e)'
  <2>0. UNCHANGED <<allocation, maximumDemand>>
    BY <1>2 DEF AddElement
  <2>1. CASE e = c
    <3>1. /\ cur[e] \in Resource /\ allocation[e] = Zero
          /\ maximumDemand[e] \in Demands /\ maximumDemand[e] \in Vector
          /\ \A r \in Resource : maximumDemand[e][r] <= Resources[r]
      BY <1>0, <1>2, <2>1, ElementEntries, BankAssumption DEF AddElement, Leq
    <3>2. Leq(maximum'[e], Resources)
      BY <1>0, <1>2, <2>1, <3>1, ElementEntries DEF Leq
    <3>3. ASSUME NEW row \in visible'[e] PROVE Leq(row, Resources)
      <4>1. ASSUME NEW r \in Resource PROVE row[r] <= Resources[r]
        <5>1. PICK old \in visible[e] : row[r] = old[r] \/ row[r] = maximumDemand[e][r]
          BY <1>2, <2>1, <3>3, ElementEntries
        <5>2. old[r] <= Resources[r]
          BY <1>0 DEF Leq
        <5>3. QED
          BY <3>1, <5>1, <5>2
      <4>2. QED
        BY <4>1 DEF Leq
    <3>4. cur'[e] = cur[e] + 1
      BY <1>2, <2>1 DEF AddElement, TypeOK
    <3>5. ASSUME NEW r \in Resource, r < cur'[e] PROVE maximum'[e][r] = maximumDemand[e][r]
      <4>1. r = cur[e] \/ r < cur[e]
        BY <3>1, <3>4, <3>5 DEF Resource
      <4>2. r < cur[e] => maximum[e][r] = maximumDemand[e][r]
        BY <1>0, <1>2, <2>1 DEF AddElement
      <4>3. QED
        BY <1>2, <2>1, <4>1, <4>2, ElementEntries
    <3>6. ASSUME Idle(e)' PROVE maximum'[e] = claimed'[e]
      <4>1. cur[e] + 1 = numberOfResources
        BY <3>4, <3>6 DEF Idle
      <4>2. claimed'[e] = maximumDemand[e]
        BY <1>2, <2>1, <4>1 DEF AddElement, TypeOK
      <4>3. \A r \in Resource : maximum'[e][r] = maximumDemand[e][r]
        BY <3>4, <3>5, <4>1, SizeAssumption DEF Resource
      <4>4. maximum'[e] \in Vector
        BY DEF TypeOK
      <4>5. QED
        BY <3>1, <4>2, <4>3, <4>4 DEF Vector
    <3>7. QED
      BY <2>0, <3>1, <3>2, <3>3, <3>5, <3>6
  <2>2. CASE e # c
    <3>1. /\ maximum'[e] = maximum[e] /\ need'[e] = need[e] /\ visible'[e] = visible[e]
          /\ cur'[e] = cur[e] /\ claimed'[e] = claimed[e]
      BY <1>2, <2>2, ElementEntries
    <3>2. QED
      BY <1>0, <2>0, <3>1 DEF Idle
  <2>3. QED
    BY <2>1, <2>2
<1>3. ASSUME NEW c \in Customer, Idle(c), Publish(c), UNCHANGED <<maximum, adding>>,
             \A d \in Customer \ {c} : need'[d] = need[d] /\ allocation'[d] = allocation[d]
      PROVE  RowInv(e)'
  <2>1. CASE e = c
    <3>1. visible'[e] = {need'[e]}
      BY <1>3, <2>1 DEF Publish, TypeOK
    <3>2. Leq(need'[e], Resources)
      <4>1. ASSUME NEW r \in Resource PROVE need'[e][r] <= Resources[r]
        <5>1. need'[e][r] + allocation'[e][r] = maximum'[e][r]
          BY DEF BooksInv
        <5>2. maximum'[e][r] <= Resources[r]
          BY <1>0, <1>3 DEF Leq
        <5>3. need'[e][r] \in Nat /\ allocation'[e][r] \in Nat /\ Resources[r] \in Nat
          BY BankAssumption DEF TypeOK, Vector
        <5>4. QED
          BY <5>1, <5>2, <5>3
      <4>2. QED
        BY <4>1 DEF Leq
    <3>3. Idle(e)' /\ maximum'[e] = claimed'[e]
      BY <1>0, <1>3, <2>1 DEF Idle, adding
    <3>4. Leq(maximum'[e], Resources)
      BY <1>0, <1>3
    <3>5. QED
      BY <3>1, <3>2, <3>3, <3>4
  <2>2. CASE e # c
    <3>1. visible'[e] = visible[e]
      BY <1>3, <2>2 DEF Publish, TypeOK
    <3>2. QED
      BY <1>0, <1>3, <2>2, <3>1 DEF Idle, adding
  <2>3. QED
    BY <2>1, <2>2
<1>4. ASSUME NEW c \in Customer, NEW a \in Amounts, RequestResources(c, a)
      PROVE  RowInv(e)'
  <2>1. \A d \in Customer \ {c} : need'[d] = need[d] /\ allocation'[d] = allocation[d]
    BY <1>4 DEF RequestResources, TypeOK
  <2>2. QED
    BY <1>3, <1>4, <2>1 DEF RequestResources
<1>5. ASSUME NEW c \in Customer, NEW a \in Amounts, ReleaseResources(c, a)
      PROVE  RowInv(e)'
  <2>1. \A d \in Customer \ {c} : need'[d] = need[d] /\ allocation'[d] = allocation[d]
    BY <1>5 DEF ReleaseResources, TypeOK
  <2>2. QED
    BY <1>3, <1>5, <2>1 DEF ReleaseResources
<1>6. CASE UNCHANGED vars
  BY <1>0, <1>6 DEF vars, bank, adding, Idle, Leq
<1>7. QED
  BY <1>1, <1>2, <1>4, <1>5, <1>6 DEF Next

\* Every step keeps the invariant.
LEMMA StepInv == IInv /\ [Next]_vars => IInv'
BY TypeStep, BooksStep, RowsStep DEF IInv

-----------------------------------------------------------------------------
(***************************************************************************)
(* The theorems.                                                           *)
(***************************************************************************)

\* The parts of the invariant hold together in every reachable state of BankImpl.
THEOREM Invariance == Spec => []IInv
BY InitInv, StepInv, PTL DEF Spec

\* The tables hold amounts, never a negative one; and a row holds what its customer finds
\* in it.
THEOREM TypeCorrect == Spec => []TypeOK
<1>1. IInv => TypeOK
  BY DEF IInv
<1>2. QED
  BY <1>1, Invariance, PTL

\* Whatever mixture of half-written and outdated claims checkSafe reads, it decides
\* whether the true state with the request granted is safe.
THEOREM DecisionsExact == Spec => []DecisionExact
<1>1. ASSUME IInv, NEW c \in Customer, NEW a \in Amounts, Plausible(c, a), NEW v \in Views(c)
      PROVE  CheckSafe(c, a, v)
               <=> Safe(Minus(available, a), [allocation EXCEPT ![c] = Plus(@, a)],
                        [need EXCEPT ![c] = Minus(@, a)])
  <2> DEFINE other == [need EXCEPT ![c] = Minus(@, a)]
  <2>1. need \in Tables /\ a \in Vector /\ Leq(a, need[c])
    BY <1>1, BankAssumption DEF IInv, TypeOK, Tables, Plausible
  <2>2. Minus(need[c], a) \in Vector
    BY <2>1, VectorOps DEF Tables
  <2>3. /\ other \in Tables /\ other[c] = Minus(need[c], a)
        /\ \A d \in Customer \ {c} : other[d] = need[d]
    BY <2>1, <2>2 DEF Tables
  <2> HIDE DEF other
  <2>4. CheckSafe(c, a, v) <=> Safe(Minus(available, a), tempAllocation(c, a), other)
    BY <1>1, <2>3, DecisionMeans
  <2>5. QED
    BY <2>4 DEF other, tempAllocation
<1>2. IInv => DecisionExact
  BY <1>1 DEF DecisionExact
<1>3. QED
  BY <1>2, Invariance, PTL

\* SafeBank speaks of the same customers, vectors and safe states.
LEMMA SameWords ==
  /\ Abstract!Customer = Customer /\ Abstract!Resource = Resource /\ Abstract!Zero = Zero
  /\ \A v, w : /\ Abstract!Leq(v, w) <=> Leq(v, w)
               /\ Abstract!Plus(v, w) = Plus(v, w)
               /\ Abstract!Minus(v, w) = Minus(v, w)
  /\ \A avail, alloc, nd : Abstract!Safe(avail, alloc, nd) <=> Safe(avail, alloc, nd)
<1>1. Abstract!Customer = Customer /\ Abstract!Resource = Resource
  BY DEF Abstract!Customer, Customer, Abstract!Resource, Resource
<1>2. \A alloc, S, r : Abstract!Held(alloc, S, r) = Held(alloc, S, r)
  <2>1. \A alloc, S, r : Abstract!Units(alloc, S, r) = Units(alloc, S, r)
    BY DEF Abstract!Units, Units
  <2>2. QED
    BY <2>1 DEF Abstract!Held, Held, Abstract!Cardinality, Cardinality
<1>3. \A avail, alloc, nd : Abstract!Safe(avail, alloc, nd) <=> Safe(avail, alloc, nd)
  BY <1>1, <1>2 DEF Abstract!Safe, Safe
<1>4. QED
  BY <1>1, <1>3 DEF Abstract!Zero, Zero, Abstract!Leq, Leq, Abstract!Plus, Plus, Abstract!Minus, Minus

\* The bank whose addCustomer is not synchronized implements SafeBank, where a claim is one
\* step: it takes effect when addCustomer returns.
THEOREM Refinement == Spec => ImplementsSafeBank
<1> DEFINE Max == Settled(maximum)
           Nd == Settled(need)
<1>1. Init => Abstract!Init
  <2> SUFFICES ASSUME Init PROVE Abstract!Init
    OBVIOUS
  <2>1. Max = [c \in Customer |-> Zero] /\ Nd = [c \in Customer |-> Zero]
    BY DEF Init, Settled, Idle
  <2>2. QED
    BY <2>1, SameWords DEF Init, Abstract!Init
<1>2. IInv /\ IInv' /\ [Next]_vars => [Abstract!Next]_(Abstract!bank)
  <2> SUFFICES ASSUME IInv, IInv', [Next]_vars
               PROVE  Abstract!Next \/ UNCHANGED <<available, Max, allocation, Nd>>
    BY DEF Abstract!bank
  <2>0. /\ TypeOK /\ BooksInv /\ RowsInv /\ TypeOK' /\ BooksInv' /\ RowsInv'
        /\ Demands \subseteq Vector /\ Amounts \subseteq Vector /\ Zero \in Vector
        /\ \A demand \in Demands \cup {Zero} : Leq(demand, Resources)
    <3>1. Leq(Zero, Resources) /\ Zero \in Vector
      BY BankAssumption, VectorOps DEF Leq, Zero, Vector
    <3>2. QED
      BY <3>1, BankAssumption DEF IInv
  <2>a. /\ Max = [c \in Customer |-> IF Idle(c) THEN maximum[c] ELSE claimed[c]]
        /\ Nd = [c \in Customer |-> IF Idle(c) THEN need[c] ELSE claimed[c]]
        /\ Max' = [c \in Customer |-> IF Idle(c)' THEN maximum'[c] ELSE claimed'[c]]
        /\ Nd' = [c \in Customer |-> IF Idle(c)' THEN need'[c] ELSE claimed'[c]]
    BY DEF Settled
  <2> HIDE DEF Max, Nd
  \* A row of a customer that holds nothing is all need.
  <2>b. ASSUME NEW c \in Customer, allocation[c] = Zero PROVE need[c] = maximum[c]
    <3>1. \A r \in Resource : need[c][r] + 0 = maximum[c][r] /\ need[c][r] \in Nat
      BY <2>0, <2>b DEF BooksInv, Zero, TypeOK, Vector
    <3>2. need[c] \in Vector /\ maximum[c] \in Vector
      BY <2>0 DEF TypeOK
    <3>3. QED
      BY <3>1, <3>2 DEF Vector
  <2>1. ASSUME NEW c \in Customer, NEW demand \in Demands, AddCustomer(c, demand)
        PROVE  UNCHANGED <<available, Max, allocation, Nd>>
    <3>1. /\ Idle(c) /\ allocation[c] = Zero /\ UNCHANGED <<bank, claimed>>
          /\ cur' = [cur EXCEPT ![c] = 0]
      BY <2>1 DEF AddCustomer
    <3>2. ~Idle(c)' /\ \A d \in Customer \ {c} : Idle(d)' <=> Idle(d)
      BY <2>0, <3>1, SizeAssumption DEF Idle, TypeOK
    <3>3. maximum[c] = claimed[c] /\ need[c] = claimed[c]
      BY <2>0, <2>b, <3>1 DEF RowsInv
    <3>4. ASSUME NEW d \in Customer
          PROVE  /\ (IF Idle(d)' THEN maximum'[d] ELSE claimed'[d])
                      = (IF Idle(d) THEN maximum[d] ELSE claimed[d])
                 /\ (IF Idle(d)' THEN need'[d] ELSE claimed'[d])
                      = (IF Idle(d) THEN need[d] ELSE claimed[d])
      BY <3>1, <3>2, <3>3 DEF bank
    <3>5. Max' = Max /\ Nd' = Nd
      BY <2>a, <3>4
    <3>6. QED
      BY <3>1, <3>5 DEF bank
  <2>2. ASSUME NEW c \in Customer, AddElement(c)
        PROVE  Abstract!Next \/ UNCHANGED <<available, Max, allocation, Nd>>
    <3>1. /\ ~Idle(c) /\ allocation[c] = Zero /\ UNCHANGED <<available, allocation>>
          /\ \A d \in Customer \ {c} : /\ maximum'[d] = maximum[d] /\ need'[d] = need[d]
                                       /\ claimed'[d] = claimed[d] /\ (Idle(d)' <=> Idle(d))
      BY <2>0, <2>2, ElementEntries DEF AddElement, Idle
    <3>2. maximumDemand[c] \in Demands
      BY <2>0, <3>1 DEF RowsInv
    <3>3. cur'[c] = cur[c] + 1
      BY <2>0, <2>2 DEF AddElement, TypeOK
    <3>4. CASE ~Idle(c)'
      <4>1. claimed' = claimed
        BY <2>2, <3>3, <3>4 DEF AddElement, Idle
      <4>2. Max' = Max /\ Nd' = Nd
        BY <2>a, <3>1, <3>4, <4>1
      <4>3. QED
        BY <3>1, <4>2
    <3>5. CASE Idle(c)'
      <4>1. claimed'[c] = maximumDemand[c]
        BY <2>0, <2>2, <3>3, <3>5 DEF AddElement, Idle, TypeOK
      <4>2. maximum'[c] = maximumDemand[c]
        BY <2>0, <3>5, <4>1 DEF RowsInv
      <4>3. need'[c] = maximum'[c]
        <5>1. allocation'[c] = Zero
          BY <3>1
        <5>2. \A r \in Resource : need'[c][r] + 0 = maximum'[c][r] /\ need'[c][r] \in Nat
          BY <2>0, <5>1 DEF BooksInv, Zero, TypeOK, Vector
        <5>3. need'[c] \in Vector /\ maximum'[c] \in Vector
          BY <2>0 DEF TypeOK
        <5>4. QED
          BY <5>2, <5>3 DEF Vector
      <4>4. /\ Max' = [Max EXCEPT ![c] = maximumDemand[c]]
            /\ Nd' = [Nd EXCEPT ![c] = maximumDemand[c]]
        BY <2>a, <3>1, <3>5, <4>2, <4>3
      <4>5. Abstract!Claim(c, maximumDemand[c])
        BY <3>1, <4>4, SameWords DEF Abstract!Claim, Max, Nd
      <4>6. QED
        BY <3>2, <4>5, SameWords DEF Abstract!Next
    <3>6. QED
      BY <3>4, <3>5
  <2>3. ASSUME NEW c \in Customer, NEW a \in Amounts, RequestResources(c, a)
        PROVE  Abstract!Next \/ UNCHANGED <<available, Max, allocation, Nd>>
    <3>1. Idle(c) /\ UNCHANGED <<maximum, cur, claimed>> /\ \A d \in Customer : Idle(d)' <=> Idle(d)
      BY <2>3 DEF RequestResources, adding, Idle
    <3>2. Max' = Max
      BY <2>a, <3>1
    <3>3. CASE UNCHANGED <<available, allocation, need>>
      BY <2>a, <3>1, <3>2, <3>3
    <3>4. ASSUME Plausible(c, a), NEW v \in Views(c), CheckSafe(c, a, v),
                 available' = Minus(available, a),
                 allocation' = [allocation EXCEPT ![c] = Plus(@, a)],
                 need' = [need EXCEPT ![c] = Minus(@, a)]
          PROVE  Abstract!Next
      <4>1. Nd' = [Nd EXCEPT ![c] = Minus(@, a)] /\ Nd[c] = need[c]
        BY <2>0, <2>a, <3>1, <3>4 DEF TypeOK
      <4>2. Nd' \in Tables
        <5>1. \A d \in Customer : need'[d] \in Vector /\ claimed'[d] \in Vector
          BY <2>0 DEF TypeOK
        <5>2. QED
          BY <2>a, <5>1 DEF Tables
      <4>3. Nd'[c] = Minus(need[c], a)
        BY <2>a, <4>1
      <4>4. ASSUME NEW d \in Customer \ {c}
            PROVE  Nd'[d] = need[d] \/ (allocation[d] = Zero /\ Leq(Nd'[d], Resources))
        <5>1. CASE Idle(d)
          BY <2>0, <2>a, <3>1, <3>4, <5>1 DEF TypeOK
        <5>2. CASE ~Idle(d)
          <6>1. Nd'[d] = claimed[d] /\ allocation[d] = Zero
            BY <2>0, <2>a, <3>1, <5>2 DEF RowsInv
          <6>2. claimed[d] \in Demands \cup {Zero}
            BY <2>0 DEF TypeOK
          <6>3. QED
            BY <2>0, <6>1, <6>2
        <5>3. QED
          BY <5>1, <5>2
      <4>5. Safe(available', allocation', Nd')
        <5>1. Safe(Minus(available, a), tempAllocation(c, a), Nd')
          BY <3>4, <4>2, <4>3, <4>4, DecisionMeans
        <5>2. QED
          BY <3>4, <5>1 DEF tempAllocation
      <4>6. Leq(a, Nd[c]) /\ Leq(a, available)
        BY <3>4, <4>1 DEF Plausible
      <4>7. Abstract!Grant(c, a)
        BY <3>2, <3>4, <4>1, <4>5, <4>6, SameWords DEF Abstract!Grant, Max, Nd
      <4>8. QED
        BY <4>7, SameWords DEF Abstract!Next
    <3>5. QED
      BY <2>3, <3>3, <3>4 DEF RequestResources
  <2>4. ASSUME NEW c \in Customer, NEW a \in Amounts, ReleaseResources(c, a)
        PROVE  Abstract!Next
    <3>1. /\ Idle(c) /\ UNCHANGED <<maximum, cur, claimed>>
          /\ \A d \in Customer : Idle(d)' <=> Idle(d)
          /\ Leq(a, allocation[c]) /\ available' = Plus(available, a)
          /\ allocation' = [allocation EXCEPT ![c] = Minus(@, a)]
          /\ need' = [need EXCEPT ![c] = Plus(@, a)]
      BY <2>4 DEF ReleaseResources, adding, Idle
    <3>2. Max' = Max
      BY <2>a, <3>1
    <3>3. Nd' = [Nd EXCEPT ![c] = Plus(@, a)]
      BY <2>0, <2>a, <3>1 DEF TypeOK
    <3>4. Abstract!Return(c, a)
      BY <3>1, <3>2, <3>3, SameWords DEF Abstract!Return, Max, Nd
    <3>5. QED
      BY <3>4, SameWords DEF Abstract!Next
  <2>5. CASE UNCHANGED vars
    BY <2>a, <2>5 DEF vars, bank, adding, Idle
  <2>6. QED
    BY <2>1, <2>2, <2>3, <2>4, <2>5 DEF Next
<1>3. QED
  BY <1>1, <1>2, Invariance, PTL DEF Spec, ImplementsSafeBank, Abstract!Spec

==============================================================================

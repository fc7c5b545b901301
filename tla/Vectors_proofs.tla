---------------------------- MODULE Vectors_proofs ----------------------------
(***************************************************************************)
(* Facts about what customers hold, and about safe states, for any number  *)
(* of customers and resources.                                             *)
(*                                                                         *)
(* The last three are the correctness argument of the banker's algorithm:  *)
(* letting a customer finish who can keeps every set that it touches       *)
(* served (ServedGrows); once all have finished the state is safe          *)
(* (ServedSafe); and if nobody else can finish it is not (StuckUnsafe).    *)
(***************************************************************************)
EXTENDS Vectors, FiniteSetTheorems, TLAPS

Tables == [Customer -> Vector]

\* Of any set that a customer in finished belongs to, someone can have all he may still
\* ask for, from what is available and what the customers outside the set return.
Served(avail, alloc, nd, finished) ==
  \A S \in SUBSET Customer : S \cap finished # {} =>
    \E c \in S : \A r \in Resource : nd[c][r] <= avail[r] + Held(alloc, Customer \ S, r)

\* Sums of vectors are vectors; differences, if what is taken away is there.
LEMMA VectorOps ==
  ASSUME NEW v \in Vector, NEW w \in Vector
  PROVE  Plus(v, w) \in Vector /\ (Leq(w, v) => Minus(v, w) \in Vector) /\ Zero \in Vector
BY DEF Vector, Plus, Minus, Leq, Zero

\* There are finitely many customers.
LEMMA CustomersFinite == IsFiniteSet(Customer)
BY SizeAssumption, FS_Interval DEF Customer

\* One customer's units of a resource are as many as its entry says.
LEMMA OwnUnits ==
  ASSUME NEW c, NEW k \in Nat
  PROVE  IsFiniteSet({c} \X (1 .. k)) /\ Cardinality({c} \X (1 .. k)) = k
<1>1. IsFiniteSet(1 .. k) /\ Cardinality(1 .. k) = k
  BY FS_Interval
<1>2. IsFiniteSet({c}) /\ Cardinality({c}) = 1
  BY FS_Singleton
<1>3. IsFiniteSet({c} \X (1 .. k)) /\ Cardinality({c} \X (1 .. k)) = 1 * k
  BY <1>1, <1>2, FS_Product
<1>4. QED
  BY <1>3

\* Only the entries of the members matter.
LEMMA HeldSame ==
  ASSUME NEW alloc, NEW other, NEW S, NEW r, \A c \in S : alloc[c][r] = other[c][r]
  PROVE  Held(alloc, S, r) = Held(other, S, r)
<1>1. Units(alloc, S, r) = Units(other, S, r)
  BY DEF Units
<1>2. QED
  BY <1>1 DEF Held

\* What customers hold is a number, and the more of them the larger.
LEMMA HeldBounds ==
  ASSUME NEW alloc \in Tables, NEW S, NEW T, S \subseteq T, T \subseteq Customer, NEW r \in Resource
  PROVE  /\ IsFiniteSet(Units(alloc, S, r))
         /\ Held(alloc, S, r) \in Nat /\ Held(alloc, T, r) \in Nat
         /\ Held(alloc, S, r) <= Held(alloc, T, r)
<1>1. ASSUME NEW R, R \subseteq Customer PROVE IsFiniteSet(Units(alloc, R, r))
  <2> DEFINE Own(c) == {c} \X (1 .. alloc[c][r])
             Parts == {Own(c) : c \in R}
  <2>1. IsFiniteSet(R)
    BY <1>1, CustomersFinite, FS_Subset
  <2>2. [c \in R |-> Own(c)] \in Surjection(R, Parts)
    BY DEF Surjection
  <2>3. IsFiniteSet(Parts)
    BY <2>1, <2>2, FS_Surjection
  <2>4. \A P \in Parts : IsFiniteSet(P)
    <3>1. ASSUME NEW c \in R PROVE IsFiniteSet(Own(c))
      <4>1. alloc[c][r] \in Nat
        BY <1>1 DEF Tables, Vector
      <4>2. QED
        BY <4>1, OwnUnits
    <3>2. QED
      BY <3>1
  <2>5. IsFiniteSet(UNION Parts)
    BY <2>3, <2>4, FS_UNION
  <2>6. QED
    BY <2>5 DEF Units
<1>2. Units(alloc, S, r) \subseteq Units(alloc, T, r)
  BY DEF Units
<1>3. IsFiniteSet(Units(alloc, S, r)) /\ IsFiniteSet(Units(alloc, T, r))
  BY <1>1
<1>4. QED
  BY <1>2, <1>3, FS_Subset, FS_CardinalityType DEF Held

\* Nobody holds nothing.
LEMMA HeldNobody == ASSUME NEW alloc, NEW r PROVE Held(alloc, {}, r) = 0
<1>1. Units(alloc, {}, r) = {}
  BY DEF Units
<1>2. QED
  BY <1>1, FS_EmptySet DEF Held

\* Nor do customers whose entries are 0.
LEMMA HeldZero ==
  ASSUME NEW alloc, NEW S, NEW r, \A c \in S : alloc[c][r] = 0
  PROVE  Held(alloc, S, r) = 0
<1>1. ASSUME NEW c \in S PROVE {c} \X (1 .. alloc[c][r]) = {}
  <2>1. alloc[c][r] = 0
    OBVIOUS
  <2>2. QED
    BY <2>1
<1>2. Units(alloc, S, r) = {}
  BY <1>1 DEF Units
<1>3. QED
  BY <1>2, FS_EmptySet DEF Held

\* One more customer adds what it holds.
LEMMA HeldAdd ==
  ASSUME NEW alloc \in Tables, NEW S, S \subseteq Customer, NEW c \in Customer, c \notin S,
         NEW r \in Resource
  PROVE  Held(alloc, S \cup {c}, r) = Held(alloc, S, r) + alloc[c][r]
<1> DEFINE U == Units(alloc, S, r)  V == {c} \X (1 .. alloc[c][r])
<1>1. Units(alloc, S \cup {c}, r) = U \cup V
  BY DEF Units
<1>2. U \cap V = {}
  BY DEF Units
<1>3. IsFiniteSet(U) /\ Cardinality(U) \in Nat
  BY HeldBounds, FS_CardinalityType
<1>4. alloc[c][r] \in Nat
  BY DEF Tables, Vector
<1>5. IsFiniteSet(V) /\ Cardinality(V) = alloc[c][r]
  BY <1>4, OwnUnits
<1>6. Cardinality(U \cup V) = Cardinality(U) + Cardinality(V)
  <2>1. Cardinality(U \cup V) = Cardinality(U) + Cardinality(V) - Cardinality({})
    <3> HIDE DEF U, V
    <3> QED BY <1>2, <1>3, <1>5, FS_Union
  <2>2. Cardinality({}) = 0
    BY FS_EmptySet
  <2> DEFINE a == Cardinality(U)  b == Cardinality(V)
  <2>3. a \in Nat /\ b \in Nat
    BY <1>3, <1>4, <1>5
  <2>4. a + b - 0 = a + b
    <3> HIDE DEF a, b
    <3> QED BY <2>3
  <2>5. QED
    BY <2>1, <2>2, <2>4
<1>7. QED
  BY <1>1, <1>5, <1>6, Zenon DEF Held

\* If one member's entry changes by k, what the members hold changes by k.
LEMMA HeldChange ==
  ASSUME NEW alloc \in Tables, NEW other \in Tables, NEW S, S \subseteq Customer, NEW c \in S,
         NEW r \in Resource, \A d \in S \ {c} : alloc[d][r] = other[d][r],
         NEW k \in Int, other[c][r] = alloc[c][r] + k
  PROVE  Held(other, S, r) = Held(alloc, S, r) + k
<1> DEFINE R == S \ {c}
<1>1. S = R \cup {c} /\ R \subseteq Customer /\ c \notin R /\ c \in Customer
  OBVIOUS
<1> HIDE DEF R
<1>2. Held(alloc, S, r) = Held(alloc, R, r) + alloc[c][r]
  BY <1>1, HeldAdd
<1>3. Held(other, S, r) = Held(other, R, r) + other[c][r]
  BY <1>1, HeldAdd
<1>4. Held(alloc, R, r) = Held(other, R, r)
  BY HeldSame DEF R
<1>5. Held(alloc, R, r) \in Nat /\ alloc[c][r] \in Nat
  BY <1>1, HeldBounds DEF Tables, Vector
<1> DEFINE h == Held(alloc, R, r)  a == alloc[c][r]
<1>6. h + (a + k) = (h + a) + k
  <2> h \in Nat /\ a \in Nat
    BY <1>5
  <2> HIDE DEF h, a
  <2> QED OBVIOUS
<1>7. Held(other, S, r) = h + (a + k)
  BY <1>3, <1>4
<1>8. QED
  BY <1>2, <1>6, <1>7

-----------------------------------------------------------------------------

\* Who can finish with what the finished ones have returned keeps every set served.
LEMMA ServedGrows ==
  ASSUME NEW avail \in Vector, NEW alloc \in Tables, NEW nd \in Tables,
         NEW finished, finished \subseteq Customer, NEW c \in Customer,
         Served(avail, alloc, nd, finished),
         \A r \in Resource : nd[c][r] <= avail[r] + Held(alloc, finished, r)
  PROVE  Served(avail, alloc, nd, finished \cup {c})
<1> SUFFICES ASSUME NEW S \in SUBSET Customer, S \cap (finished \cup {c}) # {}
             PROVE  \E d \in S : \A r \in Resource :
                      nd[d][r] <= avail[r] + Held(alloc, Customer \ S, r)
  BY DEF Served
<1>1. CASE S \cap finished # {}
  BY <1>1 DEF Served
<1>2. CASE S \cap finished = {}
  <2>1. c \in S /\ finished \subseteq Customer \ S
    BY <1>2
  <2>2. ASSUME NEW r \in Resource
        PROVE  nd[c][r] <= avail[r] + Held(alloc, Customer \ S, r)
    <3>1. /\ Held(alloc, finished, r) \in Nat /\ Held(alloc, Customer \ S, r) \in Nat
          /\ Held(alloc, finished, r) <= Held(alloc, Customer \ S, r)
      BY <2>1, HeldBounds
    <3>2. avail[r] \in Nat /\ nd[c][r] \in Nat
      BY DEF Tables, Vector
    <3>3. QED
      BY <3>1, <3>2
  <2>3. QED
    BY <2>1, <2>2
<1>3. QED
  BY <1>1, <1>2

\* If all could finish in this way the state is safe.
LEMMA ServedSafe ==
  ASSUME NEW avail, NEW alloc, NEW nd, Served(avail, alloc, nd, Customer)
  PROVE  Safe(avail, alloc, nd)
BY DEF Served, Safe

\* If some are left and none of them can finish it is not.
LEMMA StuckUnsafe ==
  ASSUME NEW avail, NEW alloc, NEW nd, NEW finished, finished \subseteq Customer,
         finished # Customer,
         \A c \in Customer \ finished :
           ~ \A r \in Resource : nd[c][r] <= avail[r] + Held(alloc, finished, r)
  PROVE  ~Safe(avail, alloc, nd)
<1> DEFINE S == Customer \ finished
<1>1. S \in (SUBSET Customer) \ {{}} /\ Customer \ S = finished
  OBVIOUS
<1>2. QED
  BY <1>1 DEF Safe

\* Customers who hold nothing may be left out.
LEMMA HeldIgnores ==
  ASSUME NEW alloc, NEW S, NEW T, NEW r, S \subseteq T, \A c \in T \ S : alloc[c][r] = 0
  PROVE  Held(alloc, S, r) = Held(alloc, T, r)
<1>1. ASSUME NEW c \in T \ S PROVE {c} \X (1 .. alloc[c][r]) = {}
  <2>1. alloc[c][r] = 0
    OBVIOUS
  <2>2. QED
    BY <2>1
<1>2. Units(alloc, S, r) = Units(alloc, T, r)
  BY <1>1 DEF Units
<1>3. QED
  BY <1>2 DEF Held

\* Whether a state is safe does not depend on the claims of customers that hold nothing,
\* as long as they are within what the bank has: these customers can be served last.
LEMMA SafeAgree ==
  ASSUME NEW avail \in Vector, NEW alloc \in Tables, NEW nd \in Tables, NEW other \in Tables,
         NEW total \in Vector,
         \A r \in Resource : avail[r] + Held(alloc, Customer, r) = total[r],
         \A c \in Customer : nd[c] = other[c] \/ (alloc[c] = Zero /\ Leq(other[c], total)),
         Safe(avail, alloc, nd)
  PROVE  Safe(avail, alloc, other)
<1> SUFFICES ASSUME NEW S \in (SUBSET Customer) \ {{}}
             PROVE  \E c \in S : \A r \in Resource :
                      other[c][r] <= avail[r] + Held(alloc, Customer \ S, r)
  BY DEF Safe
<1> DEFINE T == {c \in S : nd[c] = other[c]}
<1>1. ASSUME NEW r \in Resource
      PROVE  Held(alloc, Customer \ S, r) = Held(alloc, Customer \ T, r)
  <2>1. \A c \in (Customer \ T) \ (Customer \ S) : alloc[c][r] = 0
    BY DEF Zero
  <2>2. Customer \ S \subseteq Customer \ T
    OBVIOUS
  <2>3. QED
    <3> HIDE DEF T
    <3> QED BY <2>1, <2>2, HeldIgnores
<1>2. CASE T # {}
  <2>1. T \in (SUBSET Customer) \ {{}}
    BY <1>2
  <2>2. PICK c \in T : \A r \in Resource : nd[c][r] <= avail[r] + Held(alloc, Customer \ T, r)
    BY <2>1 DEF Safe
  <2>3. c \in S /\ nd[c] = other[c]
    OBVIOUS
  <2>4. QED
    BY <1>1, <2>2, <2>3
<1>3. CASE T = {}
  <2>1. PICK c \in S : TRUE
    OBVIOUS
  <2>2. c \in Customer /\ Leq(other[c], total)
    BY <1>3
  <2>3. ASSUME NEW r \in Resource PROVE other[c][r] <= avail[r] + Held(alloc, Customer \ S, r)
    <3>1. Held(alloc, Customer \ S, r) = Held(alloc, Customer, r)
      BY <1>1, <1>3
    <3>2. other[c][r] <= total[r] /\ avail[r] + Held(alloc, Customer, r) = total[r]
      BY <2>2 DEF Leq
    <3>3. QED
      BY <3>1, <3>2
  <2>4. QED
    BY <2>3
<1>4. QED
  BY <1>2, <1>3
===============================================================================

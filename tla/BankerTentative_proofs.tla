------------------------ MODULE BankerTentative_proofs ------------------------
(***************************************************************************)
(* Proofs about BankerTentative for any number of customers and resources, *)
(* any bank and any claims and requests.                                   *)
(*                                                                         *)
(* BooksInv are the ledgers, entry by entry, which hold with the tentative *)
(* request entered.  CheckInv is the invariant of the loops of checkSafe:  *)
(* work is what is available and what the finished customers hold, every   *)
(* set with a finished one in it is served, finishNumber counts them, and  *)
(* a sweep in which nobody has finished began with somebody left and has   *)
(* passed only customers who cannot finish.                                *)
(***************************************************************************)
EXTENDS BankerTentative, Vectors_proofs

Finished == {c \in Customer : finish[c]}

BooksInv ==
  \A r \in Resource :
    /\ available[r] + Held(allocation, Customer, r) = Resources[r]
    /\ \A c \in Customer : need[c][r] + allocation[c][r] = maximum[c][r]

CheckInv ==
  pc = "check" =>
    /\ customer \in Customer /\ request \in Amounts
    /\ Leq(request, allocation[customer])
    /\ \A r \in Resource : work[r] = available[r] + Held(allocation, Finished, r)
    /\ Served(available, allocation, need, Finished)
    /\ finishNumber = Cardinality(Finished)
    /\ ~toContinue => /\ Finished # Customer
                      /\ \A c \in Customer : c < cur /\ ~finish[c] => ~Leq(need[c], work)

IInv == TypeOK /\ BooksInv /\ CheckInv

-----------------------------------------------------------------------------
(***************************************************************************)
(* What the steps of a request have to do with the tables.                 *)
(***************************************************************************)

\* Entry by entry or vector by vector, the ledgers are the same.
LEMMA BooksEntries == ASSUME TypeOK PROVE BooksInv <=> Books
<1>1. ASSUME NEW c \in Customer
      PROVE  Plus(need[c], allocation[c]) = maximum[c]
               <=> \A r \in Resource : need[c][r] + allocation[c][r] = maximum[c][r]
  <2>1. maximum[c] \in Vector
    BY DEF TypeOK
  <2>2. QED
    BY <2>1 DEF Plus, Vector
<1>2. QED
  BY <1>1 DEF BooksInv, Books

\* There are finishNumber finished customers; all, if it has reached their number.
LEMMA FinishedCount ==
  /\ Finished \subseteq Customer /\ IsFiniteSet(Finished)
  /\ Cardinality(Finished) \in 0 .. numberOfCustomers
  /\ Cardinality(Finished) = numberOfCustomers => Finished = Customer
<1>1. Finished \subseteq Customer
  BY DEF Finished
<1>2. Cardinality(Customer) = numberOfCustomers
  <2>1. Cardinality(0 .. numberOfCustomers - 1)
          = IF 0 > numberOfCustomers - 1 THEN 0 ELSE numberOfCustomers - 1 - 0 + 1
    BY SizeAssumption, FS_Interval
  <2>2. QED
    BY <2>1, SizeAssumption DEF Customer
<1>3. /\ IsFiniteSet(Finished) /\ Cardinality(Finished) \in Nat
      /\ Cardinality(Finished) <= Cardinality(Customer)
      /\ Cardinality(Finished) = Cardinality(Customer) => Finished = Customer
  BY <1>1, CustomersFinite, FS_Subset, FS_CardinalityType
<1>4. QED
  BY <1>1, <1>2, <1>3, SizeAssumption

\* What can finish in a sweep, in terms of the tables.
LEMMA FinishMeaning ==
  ASSUME CheckInv, pc = "check", NEW c \in Customer
  PROVE  Leq(need[c], work) <=>
           \A r \in Resource : need[c][r] <= available[r] + Held(allocation, Finished, r)
BY DEF CheckInv, Leq

\* When checkSafe returns 1 the tables are safe.
LEMMA GrantedSafe == TypeOK /\ CheckInv /\ Granted => Safe(available, allocation, need)
<1> SUFFICES ASSUME TypeOK, CheckInv, Granted PROVE Safe(available, allocation, need)
  OBVIOUS
<1>1. finishNumber >= numberOfCustomers /\ finishNumber = Cardinality(Finished) /\ pc = "check"
  BY DEF Granted, SweepEnds, CheckInv
<1>2. Finished = Customer
  BY <1>1, FinishedCount, SizeAssumption
<1>3. QED
  BY <1>1, <1>2, ServedSafe DEF CheckInv

\* When it returns 0 they are not.
LEMMA RollBackUnsafe == TypeOK /\ CheckInv /\ RollBack => ~Safe(available, allocation, need)
<1> SUFFICES ASSUME TypeOK, CheckInv, RollBack PROVE ~Safe(available, allocation, need)
  OBVIOUS
<1>1. pc = "check" /\ ~toContinue /\ cur = numberOfCustomers
  BY DEF RollBack, SweepEnds, FoundNone
<1>2. Finished \subseteq Customer /\ Finished # Customer
  BY <1>1, FinishedCount DEF CheckInv
<1>3. ASSUME NEW c \in Customer \ Finished
      PROVE  ~ \A r \in Resource : need[c][r] <= available[r] + Held(allocation, Finished, r)
  <2>1. c \in Customer /\ ~finish[c]
    BY DEF Finished
  <2>2. c < cur
    BY <1>1, <2>1, SizeAssumption DEF Customer
  <2>3. ~Leq(need[c], work)
    BY <1>1, <2>1, <2>2 DEF CheckInv
  <2>4. QED
    BY <1>1, <2>1, <2>3, FinishMeaning
<1>4. QED
  BY <1>2, <1>3, StuckUnsafe

-----------------------------------------------------------------------------
(***************************************************************************)
(* The initial state, and the steps of each part of the invariant.         *)
(***************************************************************************)

\* The initial states satisfy the invariant.
LEMMA InitInv == Init => IInv
<1> SUFFICES ASSUME Init PROVE IInv
  OBVIOUS
<1>1. /\ Resources \in Vector /\ Zero \in Vector
      /\ 0 \in 0 .. numberOfCustomers
  BY BankAssumption, VectorOps, SizeAssumption
<1>2. TypeOK
  BY <1>1 DEF Init, TypeOK
<1>3. \A r \in Resource : Held(allocation, Customer, r) = 0
  <2>1. ASSUME NEW r \in Resource, NEW c \in Customer PROVE allocation[c][r] = 0
    BY DEF Init, Zero
  <2>2. QED
    BY <2>1, HeldZero
<1>4. BooksInv
  <2>1. ASSUME NEW r \in Resource
        PROVE  /\ available[r] + Held(allocation, Customer, r) = Resources[r]
               /\ \A c \in Customer : need[c][r] + allocation[c][r] = maximum[c][r]
    <3>1. available[r] = Resources[r] /\ Resources[r] \in Nat
      BY <1>1 DEF Init, Vector
    <3>2. \A c \in Customer : need[c][r] = 0 /\ allocation[c][r] = 0 /\ maximum[c][r] = 0
      BY DEF Init, Zero
    <3>3. QED
      BY <1>3, <3>1, <3>2
  <2>2. QED
    BY <2>1 DEF BooksInv
<1>5. QED
  BY <1>2, <1>4 DEF IInv, Init, CheckInv

\* Every step keeps the types.
LEMMA TypeStep == TypeOK /\ CheckInv /\ [Next]_vars => TypeOK'
<1> SUFFICES ASSUME TypeOK, CheckInv, [Next]_vars
             PROVE  TypeOK'
  OBVIOUS
<1>0. /\ Demands \subseteq Vector /\ Amounts \subseteq Vector
      /\ numberOfCustomers \in Nat /\ 0 \in 0 .. numberOfCustomers
      /\ available \in Vector /\ request \in Vector
      /\ \A c \in Customer : need[c] \in Vector /\ allocation[c] \in Vector
  BY BankAssumption, SizeAssumption DEF TypeOK
<1>1. ASSUME NEW c \in Customer, NEW d \in Demands, AddCustomer(c, d)
      PROVE  TypeOK'
  BY <1>0, <1>1 DEF AddCustomer, TypeOK, locals
<1>2. ASSUME NEW c \in Customer, NEW a \in Amounts, RequestResources(c, a)
      PROVE  TypeOK'
  <2>1. /\ a \in Vector /\ Minus(available, a) \in Vector
        /\ Plus(allocation[c], a) \in Vector /\ Minus(need[c], a) \in Vector
    BY <1>0, <1>2, VectorOps DEF RequestResources
  <2>2. QED
    BY <1>0, <1>2, <2>1 DEF RequestResources, StartWork, TypeOK
<1>3. CASE CheckCustomer
  <2>1. cur + 1 \in 0 .. numberOfCustomers /\ cur \in Customer
    BY <1>0, <1>3 DEF CheckCustomer, Customer
  <2>2. Plus(work, allocation[cur]) \in Vector
    BY <1>0, <2>1, VectorOps DEF TypeOK
  <2>3. CanFinish(cur) => finishNumber + 1 \in 0 .. numberOfCustomers
    <3>1. CanFinish(cur) => Finished # Customer
      BY <2>1 DEF CanFinish, Finished
    <3>2. finishNumber = Cardinality(Finished)
      BY <1>3 DEF CheckInv, CheckCustomer
    <3>3. Finished # Customer => finishNumber # numberOfCustomers
      BY <3>2, FinishedCount
    <3>4. QED
      BY <1>0, <3>1, <3>3 DEF TypeOK
  <2>4. QED
    BY <1>3, <2>1, <2>2, <2>3 DEF CheckCustomer, bank, TypeOK
<1>4. CASE NextSweep
  BY <1>0, <1>4 DEF NextSweep, bank, TypeOK
<1>5. CASE Granted
  BY <1>5 DEF Granted, bank, TypeOK
<1>6. CASE RollBack
  <2>1. /\ customer \in Customer
        /\ Plus(available, request) \in Vector /\ Plus(need[customer], request) \in Vector
        /\ Minus(allocation[customer], request) \in Vector
    BY <1>0, <1>6, VectorOps DEF RollBack, SweepEnds, CheckInv
  <2>2. QED
    BY <1>6, <2>1 DEF RollBack, TakeBack, locals, TypeOK
<1>7. CASE UNCHANGED vars
  BY <1>7 DEF vars, bank, locals, TypeOK
<1>8. QED
  BY <1>1, <1>2, <1>3, <1>4, <1>5, <1>6, <1>7 DEF Next, ReleaseResources

\* Entering a request moves units from the bank to the customer, taking it back returns them.
LEMMA BooksStep == TypeOK /\ TypeOK' /\ BooksInv /\ CheckInv /\ [Next]_vars => BooksInv'
<1> SUFFICES ASSUME TypeOK, TypeOK', BooksInv, CheckInv, [Next]_vars, NEW r \in Resource
             PROVE  /\ available'[r] + Held(allocation', Customer, r) = Resources[r]
                    /\ \A c \in Customer : need'[c][r] + allocation'[c][r] = maximum'[c][r]
  BY DEF BooksInv
<1>0. /\ allocation \in Tables /\ allocation' \in Tables
      /\ available[r] \in Nat /\ request[r] \in Nat
      /\ \A c \in Customer : need[c][r] \in Nat /\ allocation[c][r] \in Nat /\ maximum[c][r] \in Nat
      /\ Held(allocation, Customer, r) \in Nat
  BY HeldBounds DEF TypeOK, Tables, Vector
<1>a. /\ available[r] + Held(allocation, Customer, r) = Resources[r]
      /\ \A c \in Customer : need[c][r] + allocation[c][r] = maximum[c][r]
  BY DEF BooksInv
\* Moving k units from the bank to c keeps the ledgers.
<1>m. ASSUME NEW c \in Customer, NEW k \in Int,
             /\ available'[r] = available[r] - k
             /\ allocation'[c][r] = allocation[c][r] + k
             /\ need'[c][r] = need[c][r] - k
             /\ \A d \in Customer \ {c} : allocation'[d] = allocation[d] /\ need'[d] = need[d]
             /\ maximum' = maximum
      PROVE  /\ available'[r] + Held(allocation', Customer, r) = Resources[r]
             /\ \A d \in Customer : need'[d][r] + allocation'[d][r] = maximum'[d][r]
  <2>1. \A d \in Customer \ {c} : allocation[d][r] = allocation'[d][r]
    BY <1>m
  <2>2. Held(allocation', Customer, r) = Held(allocation, Customer, r) + k
    BY <1>0, <1>m, <2>1, HeldChange
  <2>3. QED
    BY <1>0, <1>a, <1>m, <2>2
<1>1. ASSUME NEW c \in Customer, NEW d \in Demands, AddCustomer(c, d)
      PROVE  /\ available'[r] + Held(allocation', Customer, r) = Resources[r]
             /\ \A e \in Customer : need'[e][r] + allocation'[e][r] = maximum'[e][r]
  <2>1. d[r] \in Nat /\ allocation[c][r] = 0
    BY <1>1, BankAssumption DEF AddCustomer, Vector, Zero
  <2>2. /\ need'[c][r] = d[r] /\ maximum'[c][r] = d[r]
        /\ allocation' = allocation /\ available' = available
    BY <1>1 DEF AddCustomer, TypeOK
  <2>3. \A e \in Customer : e # c => need'[e] = need[e] /\ maximum'[e] = maximum[e]
    BY <1>1 DEF AddCustomer, TypeOK
  <2>4. QED
    BY <1>a, <2>1, <2>2, <2>3
<1>2. ASSUME NEW c \in Customer, NEW a \in Amounts, RequestResources(c, a)
      PROVE  /\ available'[r] + Held(allocation', Customer, r) = Resources[r]
             /\ \A e \in Customer : need'[e][r] + allocation'[e][r] = maximum'[e][r]
  <2>1. a[r] \in Int
    BY BankAssumption DEF Vector
  <2>2. /\ available'[r] = available[r] - a[r]
        /\ allocation'[c][r] = allocation[c][r] + a[r]
        /\ need'[c][r] = need[c][r] - a[r]
        /\ \A d \in Customer \ {c} : allocation'[d] = allocation[d] /\ need'[d] = need[d]
        /\ maximum' = maximum
    BY <1>2 DEF RequestResources, TypeOK, Plus, Minus
  <2>3. QED
    BY <1>m, <2>1, <2>2
<1>3. CASE RollBack
  <2>1. customer \in Customer /\ 0 - request[r] \in Int
    BY <1>0, <1>3 DEF RollBack, SweepEnds, CheckInv
  <2>2. /\ available'[r] = available[r] + request[r]
        /\ allocation'[customer][r] = allocation[customer][r] - request[r]
        /\ need'[customer][r] = need[customer][r] + request[r]
        /\ \A d \in Customer \ {customer} : allocation'[d] = allocation[d] /\ need'[d] = need[d]
        /\ maximum' = maximum
    BY <1>3, <2>1 DEF RollBack, TakeBack, TypeOK, Plus, Minus
  <2>3. /\ available'[r] = available[r] - (0 - request[r])
        /\ allocation'[customer][r] = allocation[customer][r] + (0 - request[r])
        /\ need'[customer][r] = need[customer][r] - (0 - request[r])
    BY <1>0, <2>1, <2>2
  <2>4. QED
    BY <1>m, <2>1, <2>2, <2>3
<1>4. CASE UNCHANGED bank
  BY <1>a, <1>4 DEF bank
<1>5. QED
  BY <1>1, <1>2, <1>3, <1>4 DEF Next, CheckCustomer, NextSweep, Granted, ReleaseResources, bank, vars

\* The loops of checkSafe keep what is known about work and the finished customers.
LEMMA CheckStep == TypeOK /\ TypeOK' /\ CheckInv /\ [Next]_vars => CheckInv'
<1> SUFFICES ASSUME TypeOK, TypeOK', CheckInv, [Next]_vars, pc' = "check"
             PROVE  CheckInv'
  BY DEF CheckInv
<1>1. ASSUME NEW c \in Customer, NEW a \in Amounts, RequestResources(c, a)
      PROVE  CheckInv'
  <2>1. /\ customer' = c /\ request' = a
        /\ available' = Minus(available, a) /\ work' = Minus(available, a)
        /\ allocation'[c] = Plus(allocation[c], a)
        /\ cur' = 0 /\ finishNumber' = 0
        /\ finish' = [d \in Customer |-> FALSE]
    BY <1>1 DEF RequestResources, StartWork, TypeOK
  <2>2. Finished' = {} /\ Finished' # Customer
    BY <2>1 DEF Finished
  <2>3. (\A r \in Resource : work[r] = available[r] + Held(allocation, Finished, r))'
    <3>1. ASSUME NEW r \in Resource PROVE Held(allocation', {}, r) = 0 /\ available'[r] \in Nat
      BY HeldNobody DEF TypeOK, Vector
    <3>2. QED
      BY <2>1, <2>2, <3>1
  <2>4. Served(available, allocation, need, Finished)'
    BY <2>2 DEF Served
  <2>5. \A d \in Customer : ~(d < cur')
    BY <2>1, SizeAssumption DEF Customer
  <2>6. Leq(a, Plus(allocation[c], a))
    <3>1. a \in Vector /\ allocation[c] \in Vector
      BY BankAssumption DEF TypeOK
    <3>2. QED
      BY <3>1 DEF Leq, Plus, Vector
  <2>7. finishNumber' = Cardinality(Finished')
    BY <2>1, <2>2, FS_EmptySet
  <2>8. QED
    BY <2>1, <2>2, <2>3, <2>4, <2>5, <2>6, <2>7 DEF CheckInv
<1>2. CASE CheckCustomer
  <2>1. /\ pc = "check" /\ cur \in Customer /\ cur \in 0 .. numberOfCustomers
        /\ UNCHANGED <<bank, customer, request>> /\ cur' = cur + 1
        /\ available \in Vector /\ allocation \in Tables /\ need \in Tables
    BY <1>2 DEF CheckCustomer, TypeOK, Tables
  <2>2. CASE CanFinish(cur)
    <3>1. /\ work' = Plus(work, allocation[cur])
          /\ finish' = [finish EXCEPT ![cur] = TRUE]
          /\ finishNumber' = finishNumber + 1
          /\ toContinue'
      BY <1>2, <2>2 DEF CheckCustomer
    <3>2. Finished' = Finished \cup {cur} /\ cur \notin Finished /\ Finished \subseteq Customer
      BY <2>1, <2>2, <3>1 DEF Finished, CanFinish, TypeOK
    <3>3. ASSUME NEW r \in Resource
          PROVE  work'[r] = available[r] + Held(allocation, Finished \cup {cur}, r)
      <4>1. work'[r] = work[r] + allocation[cur][r]
        BY <3>1 DEF Plus
      <4>2. work[r] = available[r] + Held(allocation, Finished, r)
        BY <2>1 DEF CheckInv
      <4>3. Held(allocation, Finished \cup {cur}, r) = Held(allocation, Finished, r) + allocation[cur][r]
        BY <2>1, <3>2, HeldAdd
      <4>4. /\ available[r] \in Nat /\ Held(allocation, Finished, r) \in Nat
            /\ allocation[cur][r] \in Nat
        BY <2>1, <3>2, HeldBounds DEF Tables, Vector
      <4>5. QED
        BY <4>1, <4>2, <4>3, <4>4
    <3>4. Served(available, allocation, need, Finished \cup {cur})
      <4>1. \A r \in Resource : need[cur][r] <= available[r] + Held(allocation, Finished, r)
        BY <2>1, <2>2, FinishMeaning DEF CanFinish
      <4>2. Served(available, allocation, need, Finished)
        BY <2>1 DEF CheckInv
      <4>3. QED
        BY <2>1, <3>2, <4>1, <4>2, ServedGrows
    <3>5. finishNumber' = Cardinality(Finished \cup {cur})
      <4>1. Cardinality(Finished \cup {cur}) = Cardinality(Finished) + 1
        BY <3>2, FinishedCount, FS_AddElement
      <4>2. QED
        BY <2>1, <3>1, <4>1 DEF CheckInv
    <3>6. QED
      BY <2>1, <3>1, <3>2, <3>3, <3>4, <3>5 DEF CheckInv, bank
  <2>3. CASE ~CanFinish(cur)
    <3>1. UNCHANGED <<work, finish, finishNumber, toContinue>>
      BY <1>2, <2>3 DEF CheckCustomer
    <3>2. Finished' = Finished
      BY <3>1 DEF Finished
    <3>3. ASSUME ~toContinue, NEW c \in Customer, c < cur + 1, ~finish[c]
          PROVE  ~Leq(need[c], work)
      <4>1. CASE c = cur
        BY <2>3, <3>3, <4>1 DEF CanFinish
      <4>2. CASE c < cur
        BY <2>1, <3>3, <4>2 DEF CheckInv
      <4>3. c = cur \/ c < cur
        BY <2>1, <3>3, SizeAssumption DEF Customer
      <4>4. QED
        BY <4>1, <4>2, <4>3
    <3>4. QED
      BY <2>1, <3>1, <3>2, <3>3 DEF CheckInv, bank
  <2>4. QED
    BY <2>2, <2>3
<1>3. CASE NextSweep
  <2>1. /\ pc = "check" /\ finishNumber < numberOfCustomers /\ cur' = 0
        /\ UNCHANGED <<bank, customer, request, work, finish, finishNumber>>
    BY <1>3 DEF NextSweep, SweepEnds
  <2>2. Finished' = Finished
    BY <2>1 DEF Finished
  <2>3. Finished # Customer
    <3>1. finishNumber = Cardinality(Customer) => finishNumber = numberOfCustomers
      <4>1. Cardinality(0 .. numberOfCustomers - 1)
              = IF 0 > numberOfCustomers - 1 THEN 0 ELSE numberOfCustomers - 1 - 0 + 1
        BY SizeAssumption, FS_Interval
      <4>2. QED
        BY <4>1, SizeAssumption DEF Customer
    <3>2. QED
      BY <2>1, <3>1, SizeAssumption DEF CheckInv
  <2>4. \A d \in Customer : ~(d < cur')
    BY <2>1, SizeAssumption DEF Customer
  <2>5. QED
    BY <2>1, <2>2, <2>3, <2>4 DEF CheckInv, bank
<1>4. CASE UNCHANGED vars
  BY <1>4 DEF CheckInv, Finished, vars, locals, bank
<1>5. QED
  BY <1>1, <1>2, <1>3, <1>4 DEF Next, AddCustomer, Granted, RollBack, ReleaseResources

\* Every step keeps the invariant.
LEMMA StepInv == IInv /\ [Next]_vars => IInv'
BY TypeStep, BooksStep, CheckStep DEF IInv

-----------------------------------------------------------------------------
(***************************************************************************)
(* The theorems.                                                           *)
(***************************************************************************)

\* The parts of the invariant hold together in every reachable state of the lab's banker.c.
THEOREM Invariance == Spec => []IInv
BY InitInv, StepInv, PTL DEF Spec

\* The tables never hold a negative amount, also while a request is entered, and
\* finishNumber never counts a customer twice.
THEOREM TypeCorrect == Spec => []TypeOK
<1>1. IInv => TypeOK
  BY DEF IInv
<1>2. QED
  BY <1>1, Invariance, PTL

\* Entering requests and taking them back makes or loses no unit and forgets no claim.
THEOREM BooksCorrect == Spec => []Books
<1>1. IInv => Books
  BY BooksEntries DEF IInv
<1>2. QED
  BY <1>1, Invariance, PTL

\* checkSafe keeps a request only in safe tables, and takes one back only from unsafe ones.
THEOREM DecisionsExact == Spec => CheckSafeExact
<1>1. IInv => [/\ Granted => Safe(available, allocation, need)
               /\ RollBack => ~Safe(available, allocation, need)]_vars
  BY GrantedSafe, RollBackUnsafe DEF IInv
<1>2. QED
  BY <1>1, Invariance, PTL DEF CheckSafeExact

\* SafeBank speaks of the same customers, vectors and safe states.
LEMMA SameWords ==
  /\ Committed!Customer = Customer /\ Committed!Resource = Resource /\ Committed!Zero = Zero
  /\ \A v, w : /\ Committed!Leq(v, w) <=> Leq(v, w)
               /\ Committed!Plus(v, w) = Plus(v, w)
               /\ Committed!Minus(v, w) = Minus(v, w)
  /\ \A avail, alloc, nd : Committed!Safe(avail, alloc, nd) <=> Safe(avail, alloc, nd)
<1>1. Committed!Customer = Customer /\ Committed!Resource = Resource
  BY DEF Committed!Customer, Customer, Committed!Resource, Resource
<1>2. \A alloc, S, r : Committed!Held(alloc, S, r) = Held(alloc, S, r)
  <2>1. \A alloc, S, r : Committed!Units(alloc, S, r) = Units(alloc, S, r)
    BY DEF Committed!Units, Units
  <2>2. QED
    BY <2>1 DEF Committed!Held, Held, Committed!Cardinality, Cardinality
<1>3. \A avail, alloc, nd : Committed!Safe(avail, alloc, nd) <=> Safe(avail, alloc, nd)
  BY <1>1, <1>2 DEF Committed!Safe, Safe
<1>4. QED
  BY <1>1, <1>3 DEF Committed!Zero, Zero, Committed!Leq, Leq, Committed!Plus, Plus, Committed!Minus, Minus

\* Adding and taking away the same amount changes nothing.
LEMMA ThereAndBack ==
  ASSUME NEW v \in Vector, NEW w \in Vector
  PROVE  Plus(Minus(v, w), w) = v /\ Minus(Plus(v, w), w) = v /\ Leq(w, Plus(v, w))
BY DEF Vector, Plus, Minus, Leq

\* Seen without the request that is being decided, the bank implements SafeBank.
THEOREM Refinement == Spec => ImplementsSafeBank
<1> DEFINE avail == IF pc = "check" THEN Plus(available, request) ELSE available
           alloc == [c \in Customer |->
                      IF Undecided(c) THEN Minus(allocation[c], request) ELSE allocation[c]]
           nd == [c \in Customer |-> IF Undecided(c) THEN Plus(need[c], request) ELSE need[c]]
           table == <<avail, maximum, alloc, nd>>
<1>1. Init => Committed!Init
  BY SameWords DEF Init, Committed!Init, Undecided
<1>2. IInv /\ [Next]_vars => [Committed!Next]_(Committed!bank)
  <2> SUFFICES ASSUME IInv, [Next]_vars
               PROVE  Committed!Next \/ UNCHANGED table
    BY DEF Committed!bank
  <2>0. /\ TypeOK /\ CheckInv
        /\ Demands \subseteq Vector /\ Amounts \subseteq Vector
        /\ available \in Vector /\ request \in Vector
        /\ \A c \in Customer : allocation[c] \in Vector /\ need[c] \in Vector
    BY BankAssumption DEF IInv, TypeOK
  <2>a. pc = "idle" => avail = available /\ alloc = allocation /\ nd = need
    BY <2>0 DEF TypeOK, Undecided
  <2>b. pc = "check" => /\ avail = Plus(available, request)
                        /\ customer \in Customer /\ request \in Amounts
                        /\ alloc = [allocation EXCEPT ![customer] = Minus(@, request)]
                        /\ nd = [need EXCEPT ![customer] = Plus(@, request)]
    BY <2>0 DEF TypeOK, Undecided, CheckInv
  <2>1. ASSUME NEW c \in Customer, NEW d \in Demands, AddCustomer(c, d)
        PROVE  Committed!Next
    <3>1. pc = "idle" /\ pc' = "idle" /\ allocation' = allocation /\ available' = available
      BY <2>1 DEF AddCustomer
    <3>2. nd' = need' /\ alloc' = allocation /\ avail' = available
      BY <2>0, <2>1, <3>1 DEF AddCustomer, TypeOK, Undecided
    <3>3. Committed!Claim(c, d)
      BY <2>1, <2>a, <3>1, <3>2, SameWords DEF AddCustomer, Committed!Claim
    <3>4. QED
      BY <3>3, SameWords DEF Committed!Next
  <2>2. ASSUME NEW c \in Customer, NEW a \in Amounts, RequestResources(c, a)
        PROVE  UNCHANGED table
    <3>1. /\ pc = "idle" /\ pc' = "check" /\ customer' = c /\ request' = a
          /\ available' = Minus(available, a) /\ maximum' = maximum
          /\ allocation' = [allocation EXCEPT ![c] = Plus(allocation[c], a)]
          /\ need' = [need EXCEPT ![c] = Minus(need[c], a)]
      BY <2>2 DEF RequestResources
    <3>2. /\ Plus(Minus(available, a), a) = available
          /\ Minus(Plus(allocation[c], a), a) = allocation[c]
          /\ Plus(Minus(need[c], a), a) = need[c]
      BY <2>0, ThereAndBack
    <3>3. avail' = available
      BY <3>1, <3>2
    <3>4. alloc' = allocation
      BY <2>0, <3>1, <3>2 DEF TypeOK, Undecided
    <3>5. nd' = need
      BY <2>0, <3>1, <3>2 DEF TypeOK, Undecided
    <3>6. QED
      BY <2>a, <3>1, <3>3, <3>4, <3>5
  <2>3. CASE CheckCustomer \/ NextSweep
    BY <2>3 DEF CheckCustomer, NextSweep, SweepEnds, bank, Undecided
  <2>4. CASE Granted
    <3>1. /\ pc = "check" /\ pc' = "idle" /\ UNCHANGED <<bank, customer, request>>
      BY <2>4 DEF Granted, SweepEnds
    <3>2. avail' = available /\ alloc' = allocation /\ nd' = need /\ maximum' = maximum
      BY <2>0, <3>1 DEF TypeOK, Undecided, bank
    <3>3. /\ Minus(Plus(available, request), request) = available
          /\ Plus(Minus(allocation[customer], request), request) = allocation[customer]
          /\ Minus(Plus(need[customer], request), request) = need[customer]
          /\ Leq(request, Plus(available, request)) /\ Leq(request, Plus(need[customer], request))
      BY <2>0, <2>b, <3>1, ThereAndBack
    <3>4. /\ avail' = Minus(avail, request)
          /\ alloc' = [alloc EXCEPT ![customer] = Plus(@, request)]
          /\ nd' = [nd EXCEPT ![customer] = Minus(@, request)]
          /\ Leq(request, avail) /\ Leq(request, nd[customer])
      <4>1. avail' = Minus(avail, request) /\ Leq(request, avail)
        BY <2>b, <3>1, <3>2, <3>3
      <4>2. alloc' = [alloc EXCEPT ![customer] = Plus(@, request)]
        BY <2>0, <2>b, <3>1, <3>2, <3>3 DEF TypeOK
      <4>3. nd' = [nd EXCEPT ![customer] = Minus(@, request)] /\ Leq(request, nd[customer])
        BY <2>0, <2>b, <3>1, <3>2, <3>3 DEF TypeOK
      <4>4. QED
        BY <4>1, <4>2, <4>3
    <3>5. Safe(avail', alloc', nd')
      BY <2>0, <2>4, <3>2, GrantedSafe
    <3>6. Committed!Grant(customer, request)
      BY <3>2, <3>4, <3>5, SameWords DEF Committed!Grant
    <3>7. customer \in Committed!Customer /\ request \in Amounts
      BY <2>b, <3>1, SameWords
    <3>8. QED
      BY <3>6, <3>7 DEF Committed!Next, Committed!Grant
  <2>5. CASE RollBack
    <3>1. /\ pc = "check" /\ pc' = "idle" /\ maximum' = maximum
          /\ available' = Plus(available, request)
          /\ allocation' = [allocation EXCEPT ![customer] = Minus(@, request)]
          /\ need' = [need EXCEPT ![customer] = Plus(@, request)]
      BY <2>5 DEF RollBack, SweepEnds, TakeBack
    <3>2. avail' = available' /\ alloc' = allocation' /\ nd' = need'
      BY <2>0, <3>1 DEF TypeOK, Undecided
    <3>3. QED
      BY <2>b, <3>1, <3>2
  <2>6. CASE UNCHANGED vars
    BY <2>6 DEF vars, bank, locals, Undecided
  <2>7. QED
    BY <2>1, <2>2, <2>3, <2>4, <2>5, <2>6 DEF Next, ReleaseResources
<1>3. QED
  BY <1>1, <1>2, Invariance, PTL DEF Spec, ImplementsSafeBank, Committed!Spec

===============================================================================

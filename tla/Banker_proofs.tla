---------------------------- MODULE Banker_proofs ----------------------------
(***************************************************************************)
(* Proofs about Banker for any number of customers and resources, any bank *)
(* and any claims, requests and releases.                                  *)
(*                                                                         *)
(* BooksInv are the ledgers, entry by entry.  CheckInv is the invariant of *)
(* the loops of checkSafe: work is what is available and what the finished *)
(* customers hold, every set with a finished one in it is served, and      *)
(* those behind the loop index could not finish if nobody has in this      *)
(* sweep.  HoldersInv is what remains of a safe state when a claim exceeds *)
(* what the bank has: the customers that hold something can be served; it  *)
(* is needed because such a claim may be replaced by a legal one.          *)
(***************************************************************************)
EXTENDS Banker, Vectors_proofs

Finished == {c \in Customer : finish[c]}

\* The copies checkSafe works on.
tempAvailable == Minus(available, request)
tempAllocations == [c \in Customer |-> tempAllocation(c)]
tempNeeds == [c \in Customer |-> tempNeed(c)]

Holders == {c \in Customer : allocation[c] # Zero}

BooksInv ==
  \A r \in Resource :
    /\ available[r] + Held(allocation, Customer, r) = Resources[r]
    /\ \A c \in Customer : need[c][r] + allocation[c][r] = maximum[c][r]

CheckInv ==
  pc = "check" =>
    /\ customer \in Customer /\ request \in Amounts
    /\ Leq(request, need[customer]) /\ Leq(request, available)
    /\ \A r \in Resource : work[r] = tempAvailable[r] + Held(tempAllocations, Finished, r)
    /\ Served(tempAvailable, tempAllocations, tempNeeds, Finished)
    /\ ~possible => \A c \in Customer : c < cur /\ ~finish[c] => ~Leq(tempNeed(c), work)

HoldersInv ==
  \A S \in (SUBSET Holders) \ {{}} :
    \E c \in S : \A r \in Resource :
      need[c][r] <= available[r] + Held(allocation, Customer \ S, r)

IInv == TypeOK /\ BooksInv /\ CheckInv /\ HoldersInv

-----------------------------------------------------------------------------
(***************************************************************************)
(* What the steps of a request have to do with the state it asks for.      *)
(***************************************************************************)

\* Entry by entry or vector by vector, the ledgers are the same.
LEMMA BooksEntries == ASSUME TypeOK PROVE BooksInv <=> Books
<1>1. ASSUME NEW c \in Customer
      PROVE  Plus(need[c], allocation[c]) = maximum[c]
               <=> \A r \in Resource : need[c][r] + allocation[c][r] = maximum[c][r]
  <2>1. maximum[c] \in Vector
    BY DEF TypeOK
  <2>2. QED
    BY <2>1 DEF Plus, Vector
<1>2. QED
  BY <1>1 DEF BooksInv, Books

\* The copies are tables of amounts.
LEMMA CopyTypes ==
  ASSUME TypeOK, CheckInv, pc = "check"
  PROVE  /\ tempAvailable \in Vector
         /\ tempAllocations \in Tables
         /\ tempNeeds \in Tables
<1>1. /\ customer \in Customer /\ request \in Vector /\ available \in Vector
      /\ \A c \in Customer : need[c] \in Vector /\ allocation[c] \in Vector
      /\ Leq(request, need[customer]) /\ Leq(request, available)
  BY DEF TypeOK, CheckInv
<1>2. tempAvailable \in Vector
  BY <1>1, VectorOps DEF tempAvailable
<1>3. \A c \in Customer : tempAllocation(c) \in Vector /\ tempNeed(c) \in Vector
  BY <1>1, VectorOps DEF tempAllocation, tempNeed
<1>4. QED
  BY <1>2, <1>3 DEF tempAllocations, tempNeeds, Tables

\* What can finish in a sweep, in terms of the copies.
LEMMA FinishMeaning ==
  ASSUME CheckInv, pc = "check", NEW c \in Customer
  PROVE  Leq(tempNeed(c), work) <=>
           \A r \in Resource : tempNeeds[c][r] <= tempAvailable[r] + Held(tempAllocations, Finished, r)
BY DEF CheckInv, Leq, tempNeeds

\* checkSafe finds everyone finished exactly if the copies are a safe state.
LEMMA FoundExact ==
  ASSUME TypeOK, CheckInv, Decide
  PROVE  FoundSafe <=> Safe(tempAvailable, tempAllocations, tempNeeds)
<1>1. pc = "check" /\ ~possible /\ cur = numberOfCustomers
  BY DEF Decide
<1>2. ASSUME FoundSafe PROVE Safe(tempAvailable, tempAllocations, tempNeeds)
  <2>1. Finished = Customer
    BY <1>2 DEF FoundSafe, Finished
  <2>2. QED
    BY <1>1, <2>1, ServedSafe DEF CheckInv
<1>3. ASSUME ~FoundSafe PROVE ~Safe(tempAvailable, tempAllocations, tempNeeds)
  <2>1. Finished \subseteq Customer /\ Finished # Customer
    BY <1>3 DEF FoundSafe, Finished
  <2>2. ASSUME NEW c \in Customer \ Finished
        PROVE  ~ \A r \in Resource :
                   tempNeeds[c][r] <= tempAvailable[r] + Held(tempAllocations, Finished, r)
    <3>1. c \in Customer /\ ~finish[c]
      BY DEF Finished
    <3>2. c < cur
      BY <1>1, <3>1, SizeAssumption DEF Customer
    <3>3. ~Leq(tempNeed(c), work)
      BY <1>1, <3>1, <3>2 DEF CheckInv
    <3>4. QED
      BY <1>1, <3>1, <3>3, FinishMeaning
  <2>3. QED
    BY <2>1, <2>2, StuckUnsafe
<1>4. QED
  BY <1>2, <1>3

\* A granted request makes the copies the bank's state.
LEMMA GrantedState ==
  ASSUME TypeOK, CheckInv, Decide, FoundSafe
  PROVE  /\ available' = tempAvailable
         /\ allocation' = tempAllocations
         /\ need' = tempNeeds
         /\ Safe(available', allocation', need')
<1>1. /\ available' = tempAvailable
      /\ allocation' = [allocation EXCEPT ![customer] = tempAllocation(customer)]
      /\ need' = [need EXCEPT ![customer] = tempNeed(customer)]
  BY DEF Decide, tempAvailable
<1>2. allocation \in [Customer -> Vector] /\ need \in [Customer -> Vector]
  BY DEF TypeOK
<1>3. allocation' = tempAllocations /\ need' = tempNeeds
  BY <1>1, <1>2 DEF tempAllocations, tempNeeds, tempAllocation, tempNeed
<1>4. QED
  BY <1>1, <1>3, FoundExact

-----------------------------------------------------------------------------
(***************************************************************************)
(* The initial state, and the steps of each part of the invariant.         *)
(***************************************************************************)

\* The initial states satisfy the invariant.
LEMMA InitInv == Init => IInv
<1> SUFFICES ASSUME Init PROVE IInv
  OBVIOUS
<1>1. Resources \in Vector /\ Zero \in Vector
  BY BankAssumption, VectorOps
<1>2. TypeOK
  <2>1. 0 \in 0 .. numberOfCustomers
    BY SizeAssumption
  <2>2. QED
    BY <1>1, <2>1 DEF Init, TypeOK
<1>3. \A r \in Resource : Held(allocation, Customer, r) = 0
  <2>1. ASSUME NEW r \in Resource, NEW c \in Customer PROVE allocation[c][r] = 0
    BY DEF Init, Zero
  <2>2. QED
    BY <2>1, HeldZero
<1>4. BooksInv
  <2>1. ASSUME NEW r \in Resource
        PROVE  /\ available[r] + Held(allocation, Customer, r) = Resources[r]
               /\ \A c \in Customer : need[c][r] + allocation[c][r] = maximum[c][r]
    <3>1. available[r] = Resources[r] /\ Resources[r] \in Nat
      BY <1>1 DEF Init, Vector
    <3>2. \A c \in Customer : need[c][r] = 0 /\ allocation[c][r] = 0 /\ maximum[c][r] = 0
      BY DEF Init, Zero
    <3>3. QED
      BY <1>3, <3>1, <3>2
  <2>2. QED
    BY <2>1 DEF BooksInv
<1>5. CheckInv
  BY DEF Init, CheckInv
<1>6. HoldersInv
  BY DEF Init, HoldersInv, Holders
<1>7. QED
  BY <1>2, <1>4, <1>5, <1>6 DEF IInv

\* Every step keeps the types.
LEMMA TypeStep == TypeOK /\ CheckInv /\ [Next]_vars => TypeOK'
<1> SUFFICES ASSUME TypeOK, CheckInv, [Next]_vars
             PROVE  TypeOK'
  OBVIOUS
<1>0. /\ Demands \subseteq Vector /\ Amounts \subseteq Vector
      /\ numberOfCustomers \in Nat /\ 0 \in 0 .. numberOfCustomers
      /\ available \in Vector
      /\ \A c \in Customer : need[c] \in Vector /\ allocation[c] \in Vector
  BY BankAssumption, SizeAssumption DEF TypeOK
<1>1. ASSUME NEW c \in Customer, NEW d \in Demands, AddCustomer(c, d)
      PROVE  TypeOK'
  BY <1>0, <1>1 DEF AddCustomer, TypeOK, locals
<1>2. ASSUME NEW c \in Customer, NEW a \in Amounts, RequestResources(c, a)
      PROVE  TypeOK'
  <2>1. a \in Vector /\ Minus(available, a) \in Vector
    BY <1>0, <1>2, VectorOps DEF RequestResources, Plausible
  <2>2. QED
    BY <1>0, <1>2, <2>1 DEF RequestResources, BeginSweep, bank, TypeOK
<1>3. CASE CheckCustomer
  <2>1. cur + 1 \in 0 .. numberOfCustomers /\ cur \in Customer
    BY <1>0, <1>3 DEF CheckCustomer, Customer
  <2>2. tempAllocation(cur) \in Vector
    BY <1>0, <2>1, VectorOps DEF tempAllocation, TypeOK
  <2>3. Plus(work, tempAllocation(cur)) \in Vector
    BY <2>2, VectorOps DEF TypeOK
  <2>4. QED
    BY <1>3, <2>1, <2>3 DEF CheckCustomer, bank, TypeOK
<1>4. CASE NextSweep
  BY <1>0, <1>4 DEF NextSweep, BeginSweep, bank, TypeOK
<1>5. CASE Decide
  <2>1. CASE FoundSafe
    <3>1. available' \in Vector /\ allocation' \in Tables /\ need' \in Tables
      BY <1>5, <2>1, CopyTypes, GrantedState DEF Decide
    <3>2. QED
      BY <1>5, <3>1 DEF Decide, locals, TypeOK, Tables
  <2>2. CASE ~FoundSafe
    BY <1>5, <2>2 DEF Decide, locals, TypeOK
  <2>3. QED
    BY <2>1, <2>2
<1>6. ASSUME NEW c \in Customer, NEW a \in Amounts, ReleaseResources(c, a)
      PROVE  TypeOK'
  <2>1. /\ a \in Vector /\ Plus(available, a) \in Vector
        /\ Minus(allocation[c], a) \in Vector /\ Plus(need[c], a) \in Vector
    BY <1>0, <1>6, VectorOps DEF ReleaseResources
  <2>2. QED
    BY <1>6, <2>1 DEF ReleaseResources, locals, TypeOK
<1>7. CASE UNCHANGED vars
  BY <1>7 DEF vars, bank, locals, TypeOK
<1>8. QED
  BY <1>1, <1>2, <1>3, <1>4, <1>5, <1>6, <1>7 DEF Next

\* A request moves units from the bank to the customer, a release moves them back.
LEMMA BooksStep == TypeOK /\ TypeOK' /\ BooksInv /\ CheckInv /\ [Next]_vars => BooksInv'
<1> SUFFICES ASSUME TypeOK, TypeOK', BooksInv, CheckInv, [Next]_vars, NEW r \in Resource
             PROVE  /\ available'[r] + Held(allocation', Customer, r) = Resources[r]
                    /\ \A c \in Customer : need'[c][r] + allocation'[c][r] = maximum'[c][r]
  BY DEF BooksInv
<1>0. /\ allocation \in Tables /\ allocation' \in Tables
      /\ available[r] \in Nat /\ available'[r] \in Nat
      /\ \A c \in Customer : need[c][r] \in Nat /\ allocation[c][r] \in Nat /\ maximum[c][r] \in Nat
      /\ Held(allocation, Customer, r) \in Nat
      /\ request[r] \in Nat
  BY HeldBounds DEF TypeOK, Tables, Vector
<1>a. /\ available[r] + Held(allocation, Customer, r) = Resources[r]
      /\ \A c \in Customer : need[c][r] + allocation[c][r] = maximum[c][r]
  BY DEF BooksInv
<1>1. ASSUME NEW c \in Customer, NEW d \in Demands, AddCustomer(c, d)
      PROVE  \A e \in Customer : need'[e][r] + allocation'[e][r] = maximum'[e][r]
  <2>1. d[r] \in Nat /\ allocation[c][r] = 0
    BY <1>1, BankAssumption DEF AddCustomer, Vector, Zero
  <2>2. need'[c][r] = d[r] /\ maximum'[c][r] = d[r] /\ allocation' = allocation
    BY <1>1 DEF AddCustomer, TypeOK
  <2>3. \A e \in Customer : e # c => need'[e] = need[e] /\ maximum'[e] = maximum[e]
    BY <1>1 DEF AddCustomer, TypeOK
  <2>4. QED
    BY <1>a, <2>1, <2>2, <2>3
<1>2. CASE Decide /\ FoundSafe
  <2>1. customer \in Customer /\ maximum' = maximum
    BY <1>2 DEF Decide, CheckInv
  <2>2. /\ available' = tempAvailable /\ allocation' = tempAllocations /\ need' = tempNeeds
    BY <1>2, GrantedState
  <2>3. /\ available'[r] = available[r] - request[r]
        /\ allocation'[customer][r] = allocation[customer][r] + request[r]
        /\ need'[customer][r] = need[customer][r] - request[r]
        /\ \A c \in Customer : c # customer =>
             allocation'[c] = allocation[c] /\ need'[c] = need[c]
    BY <2>1, <2>2 DEF tempAvailable, tempAllocations, tempNeeds, tempAllocation, tempNeed, Plus, Minus
  <2>4. Held(allocation', Customer, r) = Held(allocation, Customer, r) + request[r]
    <3>1. \A c \in Customer \ {customer} : allocation[c][r] = allocation'[c][r]
      BY <2>3
    <3>2. request[r] \in Int
      BY <1>0
    <3>3. QED
      BY <1>0, <2>1, <2>3, <3>1, <3>2, HeldChange
  <2>5. QED
    BY <1>0, <1>a, <2>1, <2>3, <2>4
<1>3. ASSUME NEW c \in Customer, NEW a \in Amounts, ReleaseResources(c, a)
      PROVE  /\ available'[r] + Held(allocation', Customer, r) = Resources[r]
             /\ \A e \in Customer : need'[e][r] + allocation'[e][r] = maximum'[e][r]
  <2>1. a[r] \in Nat /\ maximum' = maximum
    BY <1>3, BankAssumption DEF ReleaseResources, Vector
  <2>2. /\ available'[r] = available[r] + a[r]
        /\ allocation'[c][r] = allocation[c][r] + (0 - a[r])
        /\ need'[c][r] = need[c][r] + a[r]
        /\ \A e \in Customer : e # c => allocation'[e] = allocation[e] /\ need'[e] = need[e]
    BY <1>0, <1>3, <2>1 DEF ReleaseResources, TypeOK, Plus, Minus
  <2>3. Held(allocation', Customer, r) = Held(allocation, Customer, r) + (0 - a[r])
    <3>1. \A e \in Customer \ {c} : allocation[e][r] = allocation'[e][r]
      BY <2>2
    <3>2. 0 - a[r] \in Int
      BY <2>1
    <3>3. QED
      BY <1>0, <2>2, <3>1, <3>2, HeldChange
  <2>4. QED
    BY <1>0, <1>a, <2>1, <2>2, <2>3
<1>4. CASE UNCHANGED bank
  BY <1>a, <1>4 DEF bank
<1>5. ASSUME NEW c \in Customer, NEW d \in Demands, AddCustomer(c, d)
      PROVE  available'[r] + Held(allocation', Customer, r) = Resources[r]
  BY <1>a, <1>5 DEF AddCustomer
<1>6. QED
  BY <1>1, <1>2, <1>3, <1>4, <1>5 DEF Next, RequestResources, CheckCustomer, NextSweep, Decide, bank, vars

\* The loops of checkSafe keep what is known about work and the finished customers.
LEMMA CheckStep == TypeOK /\ CheckInv /\ [Next]_vars => CheckInv'
<1> SUFFICES ASSUME TypeOK, CheckInv, [Next]_vars, pc' = "check"
             PROVE  CheckInv'
  BY DEF CheckInv
<1>1. ASSUME NEW c \in Customer, NEW a \in Amounts, RequestResources(c, a)
      PROVE  CheckInv'
  <2>1. /\ customer' = c /\ request' = a /\ UNCHANGED bank
        /\ Leq(a, need[c]) /\ Leq(a, available)
        /\ work' = Minus(available, a) /\ cur' = 0
        /\ finish' = [d \in Customer |-> FALSE]
    BY <1>1 DEF RequestResources, Plausible, BeginSweep
  <2>2. Finished' = {}
    BY <2>1 DEF Finished
  <2>3. (\A r \in Resource : work[r] = tempAvailable[r] + Held(tempAllocations, Finished, r))'
    <3>1. work' = tempAvailable' /\ work' \in Vector
      BY <2>1, VectorOps, BankAssumption DEF tempAvailable, bank, TypeOK
    <3>2. ASSUME NEW r \in Resource PROVE Held(tempAllocations', {}, r) = 0 /\ work'[r] \in Nat
      BY <3>1, HeldNobody DEF Vector
    <3>3. QED
      BY <2>2, <3>1, <3>2
  <2>4. Served(tempAvailable, tempAllocations, tempNeeds, Finished)'
    BY <2>2 DEF Served
  <2>5. \A d \in Customer : ~(d < cur')
    BY <2>1, SizeAssumption DEF Customer
  <2>6. QED
    BY <2>1, <2>3, <2>4, <2>5 DEF CheckInv, bank
<1>2. CASE CheckCustomer
  <2>1. /\ pc = "check" /\ cur \in Customer /\ cur \in 0 .. numberOfCustomers
        /\ UNCHANGED <<bank, customer, request>> /\ cur' = cur + 1
    BY <1>2 DEF CheckCustomer, TypeOK
  <2>2. /\ tempAvailable' = tempAvailable /\ tempAllocations' = tempAllocations
        /\ tempNeeds' = tempNeeds /\ \A c \in Customer : tempNeed(c)' = tempNeed(c)
    BY <2>1 DEF bank, tempAvailable, tempAllocations, tempNeeds, tempAllocation, tempNeed
  <2>3. CASE CanFinish(cur)
    <3>1. /\ work' = Plus(work, tempAllocation(cur))
          /\ finish' = [finish EXCEPT ![cur] = TRUE]
          /\ possible' = TRUE
      BY <1>2, <2>3 DEF CheckCustomer
    <3>2. Finished' = Finished \cup {cur} /\ cur \notin Finished /\ Finished \subseteq Customer
      BY <2>1, <2>3, <3>1 DEF Finished, CanFinish, TypeOK
    <3>3. ASSUME NEW r \in Resource
          PROVE  work'[r] = tempAvailable[r] + Held(tempAllocations, Finished \cup {cur}, r)
      <4>1. work'[r] = work[r] + tempAllocations[cur][r]
        BY <2>1, <3>1 DEF Plus, tempAllocations
      <4>2. work[r] = tempAvailable[r] + Held(tempAllocations, Finished, r)
        BY <2>1 DEF CheckInv
      <4>3. Held(tempAllocations, Finished \cup {cur}, r)
              = Held(tempAllocations, Finished, r) + tempAllocations[cur][r]
        BY <2>1, <3>2, CopyTypes, HeldAdd
      <4>4. /\ tempAvailable[r] \in Nat /\ Held(tempAllocations, Finished, r) \in Nat
            /\ tempAllocations[cur][r] \in Nat
        BY <2>1, <3>2, CopyTypes, HeldBounds DEF Tables, Vector
      <4>5. QED
        BY <4>1, <4>2, <4>3, <4>4
    <3>4. Served(tempAvailable, tempAllocations, tempNeeds, Finished \cup {cur})
      <4>1. \A r \in Resource :
              tempNeeds[cur][r] <= tempAvailable[r] + Held(tempAllocations, Finished, r)
        BY <2>1, <2>3, FinishMeaning DEF CanFinish
      <4>2. Served(tempAvailable, tempAllocations, tempNeeds, Finished)
        BY <2>1 DEF CheckInv
      <4>3. QED
        BY <2>1, <3>2, <4>1, <4>2, CopyTypes, ServedGrows
    <3>5. QED
      BY <2>1, <2>2, <3>1, <3>2, <3>3, <3>4 DEF CheckInv, bank
  <2>4. CASE ~CanFinish(cur)
    <3>1. UNCHANGED <<work, finish, possible>>
      BY <1>2, <2>4 DEF CheckCustomer
    <3>2. Finished' = Finished
      BY <3>1 DEF Finished
    <3>3. ASSUME ~possible, NEW c \in Customer, c < cur + 1, ~finish[c]
          PROVE  ~Leq(tempNeed(c), work)
      <4>1. CASE c = cur
        BY <2>4, <3>3, <4>1 DEF CanFinish
      <4>2. CASE c < cur
        BY <2>1, <3>3, <4>2 DEF CheckInv
      <4>3. c = cur \/ c < cur
        BY <2>1, <3>3, SizeAssumption DEF Customer
      <4>4. QED
        BY <4>1, <4>2, <4>3
    <3>4. QED
      BY <2>1, <2>2, <3>1, <3>2, <3>3 DEF CheckInv, bank, Leq
  <2>5. QED
    BY <2>3, <2>4
<1>3. CASE NextSweep
  <2>1. /\ pc = "check" /\ UNCHANGED <<bank, customer, request, work, finish>> /\ cur' = 0
    BY <1>3 DEF NextSweep, BeginSweep
  <2>2. /\ tempAvailable' = tempAvailable /\ tempAllocations' = tempAllocations
        /\ tempNeeds' = tempNeeds /\ Finished' = Finished
    BY <2>1 DEF bank, tempAvailable, tempAllocations, tempNeeds, tempAllocation, tempNeed, Finished
  <2>3. \A d \in Customer : ~(d < cur')
    BY <2>1, SizeAssumption DEF Customer
  <2>4. QED
    BY <2>1, <2>2, <2>3 DEF CheckInv, bank
<1>4. CASE UNCHANGED vars
  <2>1. /\ tempAvailable' = tempAvailable /\ tempAllocations' = tempAllocations
        /\ tempNeeds' = tempNeeds /\ Finished' = Finished
        /\ \A c \in Customer : tempNeed(c)' = tempNeed(c)
    BY <1>4 DEF vars, locals, bank, tempAvailable, tempAllocations, tempNeeds, tempAllocation, tempNeed,
                Finished
  <2>2. QED
    BY <1>4, <2>1 DEF CheckInv, vars, locals, bank, Leq
<1>5. QED
  BY <1>1, <1>2, <1>3, <1>4 DEF Next, AddCustomer, Decide, ReleaseResources

\* Who holds something can be served: a claim is new only for who holds nothing, a grant
\* leads to a safe state, and what is released is there for all.
LEMMA HoldersStep == TypeOK /\ TypeOK' /\ CheckInv /\ HoldersInv /\ [Next]_vars => HoldersInv'
<1> SUFFICES ASSUME TypeOK, TypeOK', CheckInv, HoldersInv, [Next]_vars,
                    NEW S \in (SUBSET Holders') \ {{}}
             PROVE  \E c \in S : \A r \in Resource :
                      need'[c][r] <= available'[r] + Held(allocation', Customer \ S, r)
  BY DEF HoldersInv
<1>0. S \subseteq Customer /\ S # {}
  BY DEF Holders
<1>1. ASSUME NEW c \in Customer, NEW d \in Demands, AddCustomer(c, d)
      PROVE  \E e \in S : \A r \in Resource :
               need'[e][r] <= available'[r] + Held(allocation', Customer \ S, r)
  <2>1. /\ UNCHANGED <<available, allocation>> /\ allocation[c] = Zero
        /\ \A e \in Customer \ {c} : need'[e] = need[e]
    BY <1>1 DEF AddCustomer, TypeOK
  <2>2. Holders' = Holders /\ c \notin S
    BY <2>1 DEF Holders
  <2>3. PICK e \in S : \A r \in Resource :
          need[e][r] <= available[r] + Held(allocation, Customer \ S, r)
    BY <1>0, <2>2 DEF HoldersInv
  <2>4. need'[e] = need[e]
    BY <1>0, <2>1, <2>2, <2>3
  <2>5. QED
    BY <2>1, <2>3, <2>4
<1>2. CASE Decide /\ FoundSafe
  <2>1. Safe(available', allocation', need')
    BY <1>2, GrantedState
  <2>2. QED
    BY <1>0, <2>1 DEF Safe
<1>3. ASSUME NEW c \in Customer, NEW a \in Amounts, ReleaseResources(c, a)
      PROVE  \E e \in S : \A r \in Resource :
               need'[e][r] <= available'[r] + Held(allocation', Customer \ S, r)
  <2>1. /\ Leq(a, allocation[c]) /\ a \in Vector
        /\ allocation' = [allocation EXCEPT ![c] = Minus(allocation[c], a)]
        /\ need' = [need EXCEPT ![c] = Plus(need[c], a)]
        /\ available' = Plus(available, a)
    BY <1>3, BankAssumption DEF ReleaseResources
  <2>2. Holders' \subseteq Holders
    <3>1. ASSUME allocation[c] = Zero PROVE Minus(allocation[c], a) = Zero
      BY <2>1, <3>1 DEF Leq, Zero, Minus, Vector
    <3>2. \A e \in Customer \ {c} : allocation'[e] = allocation[e]
      BY <2>1 DEF TypeOK
    <3>3. allocation'[c] = Minus(allocation[c], a)
      BY <2>1 DEF TypeOK
    <3>4. QED
      BY <3>1, <3>2, <3>3 DEF Holders
  <2>3. PICK e \in S : \A r \in Resource :
          need[e][r] <= available[r] + Held(allocation, Customer \ S, r)
    BY <1>0, <2>2 DEF HoldersInv
  <2>4. ASSUME NEW r \in Resource
        PROVE  need'[e][r] <= available'[r] + Held(allocation', Customer \ S, r)
    <3>1. /\ e \in Customer /\ allocation \in Tables /\ allocation' \in Tables
          /\ Customer \ S \subseteq Customer
      BY <1>0 DEF TypeOK, Tables
    <3>2. /\ a[r] \in Nat /\ available[r] \in Nat
          /\ need[c][r] \in Nat /\ need[e][r] \in Nat /\ allocation[c][r] \in Nat
          /\ Held(allocation, Customer \ S, r) \in Nat
      BY <2>1, <3>1, HeldBounds DEF TypeOK, Vector
    <3>3. /\ available'[r] = available[r] + a[r]
          /\ allocation'[c][r] = allocation[c][r] + (0 - a[r])
          /\ need'[c][r] = need[c][r] + a[r]
          /\ \A d \in Customer \ {c} : allocation'[d] = allocation[d] /\ need'[d] = need[d]
      BY <2>1, <3>2 DEF TypeOK, Plus, Minus
    <3>4. need[e][r] <= available[r] + Held(allocation, Customer \ S, r)
      BY <2>3
    <3>5. CASE c \in S
      <4>1. \A d \in Customer \ S : allocation[d][r] = allocation'[d][r]
        BY <3>3, <3>5
      <4>2. Held(allocation', Customer \ S, r) = Held(allocation, Customer \ S, r)
        BY <4>1, HeldSame
      <4>3. need'[e][r] <= need[e][r] + a[r]
        BY <3>1, <3>2, <3>3
      <4>4. need'[e][r] \in Nat
        BY <3>1 DEF TypeOK, Vector
      <4>5. QED
        BY <3>2, <3>3, <3>4, <4>2, <4>3, <4>4
    <3>6. CASE c \notin S
      <4>1. \A d \in (Customer \ S) \ {c} : allocation[d][r] = allocation'[d][r]
        BY <3>3
      <4>2. 0 - a[r] \in Int /\ c \in Customer \ S
        BY <3>2, <3>6
      <4>3. Held(allocation', Customer \ S, r) = Held(allocation, Customer \ S, r) + (0 - a[r])
        BY <3>1, <3>3, <4>1, <4>2, HeldChange
      <4>4. need'[e] = need[e]
        BY <3>1, <3>3, <3>6
      <4>5. QED
        BY <3>2, <3>3, <3>4, <4>3, <4>4
    <3>7. QED
      BY <3>5, <3>6
  <2>5. QED
    BY <2>4
<1>4. CASE UNCHANGED bank
  <2>1. S \in (SUBSET Holders) \ {{}}
    BY <1>4 DEF bank, Holders
  <2>2. QED
    BY <1>4, <2>1 DEF HoldersInv, bank
<1>5. QED
  BY <1>1, <1>2, <1>3, <1>4 DEF Next, RequestResources, CheckCustomer, NextSweep, Decide, bank, vars

\* Every step keeps the invariant.
LEMMA StepInv == IInv /\ [Next]_vars => IInv'
BY TypeStep, BooksStep, CheckStep, HoldersStep DEF IInv

-----------------------------------------------------------------------------
(***************************************************************************)
(* The theorems.                                                           *)
(***************************************************************************)

\* The parts of the invariant hold together in every reachable state of Banker.c.
THEOREM Invariance == Spec => []IInv
BY InitInv, StepInv, PTL DEF Spec

\* The tables hold amounts, never a negative one, and the locals of checkSafe stay in range.
THEOREM TypeCorrect == Spec => []TypeOK
<1>1. IInv => TypeOK
  BY DEF IInv
<1>2. QED
  BY <1>1, Invariance, PTL

\* No history of Banker.c makes or loses a unit, or forgets a part of a claim.
THEOREM BooksCorrect == Spec => []Books
<1>1. IInv => Books
  BY BooksEntries DEF IInv
<1>2. QED
  BY <1>1, Invariance, PTL

\* While no claim exceeds what the bank has, the bank is in a safe state, also if there
\* was such a claim before.
THEOREM SafeAlways == Spec => []AlwaysSafe
<1>1. ASSUME IInv, \A c \in Customer : Leq(maximum[c], Resources)
      PROVE  Safe(available, allocation, need)
  <2> SUFFICES ASSUME NEW S \in (SUBSET Customer) \ {{}}
               PROVE  \E c \in S : \A r \in Resource :
                        need[c][r] <= available[r] + Held(allocation, Customer \ S, r)
    BY DEF Safe
  <2> DEFINE T == S \cap Holders
  <2>1. TypeOK /\ BooksInv /\ HoldersInv /\ allocation \in Tables
    BY <1>1 DEF IInv, TypeOK, Tables
  <2>2. ASSUME NEW r \in Resource
        PROVE  Held(allocation, Customer \ S, r) = Held(allocation, Customer \ T, r)
    <3>1. ASSUME NEW c \in Customer, c \notin Holders
          PROVE  {c} \X (1 .. allocation[c][r]) = {}
      <4>1. allocation[c][r] = 0
        BY <3>1 DEF Holders, Zero
      <4>2. QED
        BY <4>1
    <3>2. Units(allocation, Customer \ S, r) = Units(allocation, Customer \ T, r)
      BY <3>1 DEF Units, Holders
    <3>3. QED
      BY <3>2 DEF Held
  <2>3. CASE T # {}
    <3>1. T \in (SUBSET Holders) \ {{}}
      BY <2>3
    <3>2. PICK c \in T : \A r \in Resource :
            need[c][r] <= available[r] + Held(allocation, Customer \ T, r)
      BY <2>1, <3>1 DEF HoldersInv
    <3>3. QED
      BY <2>2, <3>2
  <2>4. CASE T = {}
    <3>1. PICK c \in S : TRUE
      OBVIOUS
    <3>2. ASSUME NEW r \in Resource
          PROVE  need[c][r] <= available[r] + Held(allocation, Customer \ S, r)
      <4>1. Held(allocation, Customer \ S, r) = Held(allocation, Customer, r)
        BY <2>2, <2>4
      <4>2. available[r] + Held(allocation, Customer, r) = Resources[r]
        BY <2>1 DEF BooksInv
      <4>3. maximum[c][r] <= Resources[r] /\ need[c][r] + allocation[c][r] = maximum[c][r]
        BY <1>1, <2>1, <3>1 DEF BooksInv, Leq
      <4>4. /\ need[c][r] \in Nat /\ allocation[c][r] \in Nat /\ maximum[c][r] \in Nat
            /\ Resources[r] \in Nat
        BY <2>1, BankAssumption DEF TypeOK, Vector
      <4>5. QED
        BY <4>1, <4>2, <4>3, <4>4
    <3>3. QED
      BY <3>2
  <2>5. QED
    BY <2>3, <2>4
<1>2. IInv => AlwaysSafe
  BY <1>1 DEF AlwaysSafe
<1>3. QED
  BY <1>2, Invariance, PTL

\* checkSafe is exact: what it decides about a request is whether the state with the
\* request granted is safe.
THEOREM DecisionsExact == Spec => CheckSafeExact
<1> DEFINE Exact == Decide /\ request # Zero =>
              ((available' = Minus(available, request) /\ allocation'[customer] = tempAllocation(customer))
                <=> Safe(Minus(available, request),
                         [c \in Customer |-> tempAllocation(c)],
                         [c \in Customer |-> tempNeed(c)]))
<1>1. IInv => Exact
  <2> SUFFICES ASSUME TypeOK, CheckInv, Decide, request # Zero
               PROVE  (available' = tempAvailable /\ allocation'[customer] = tempAllocation(customer))
                        <=> Safe(tempAvailable, tempAllocations, tempNeeds)
    BY DEF IInv, tempAvailable, tempAllocations, tempNeeds
  <2>1. CASE FoundSafe
    <3>1. customer \in Customer
      BY DEF CheckInv, Decide
    <3>2. available' = tempAvailable /\ allocation'[customer] = tempAllocation(customer)
      BY <2>1, <3>1, GrantedState DEF tempAllocations
    <3>3. QED
      BY <2>1, <3>2, FoundExact
  <2>2. CASE ~FoundSafe
    <3>1. available' = available
      BY <2>2 DEF Decide
    <3>2. PICK r \in Resource : request[r] # 0
      BY DEF TypeOK, Vector, Zero
    <3>3. available[r] \in Nat /\ request[r] \in Nat
      BY DEF TypeOK, Vector
    <3>4. tempAvailable[r] # available[r]
      BY <3>2, <3>3 DEF tempAvailable, Minus
    <3>5. QED
      BY <2>2, <3>1, <3>4, FoundExact
  <2>3. QED
    BY <2>1, <2>2
<1>2. IInv => [Exact]_vars
  BY <1>1
<1>3. QED
  BY <1>2, Invariance, PTL DEF CheckSafeExact

\* SafeBank speaks of the same customers, vectors and safe states.
LEMMA SameWords ==
  /\ Abstract!Customer = Customer /\ Abstract!Resource = Resource /\ Abstract!Zero = Zero
  /\ \A v, w : /\ Abstract!Leq(v, w) <=> Leq(v, w)
               /\ Abstract!Plus(v, w) = Plus(v, w)
               /\ Abstract!Minus(v, w) = Minus(v, w)
  /\ \A avail, alloc, nd : Abstract!Safe(avail, alloc, nd) <=> Safe(avail, alloc, nd)
<1>1. Abstract!Customer = Customer /\ Abstract!Resource = Resource
  BY DEF Abstract!Customer, Customer, Abstract!Resource, Resource
<1>2. \A alloc, S, r : Abstract!Held(alloc, S, r) = Held(alloc, S, r)
  <2>1. \A alloc, S, r : Abstract!Units(alloc, S, r) = Units(alloc, S, r)
    BY DEF Abstract!Units, Units
  <2>2. QED
    BY <2>1 DEF Abstract!Held, Held, Abstract!Cardinality, Cardinality
<1>3. \A avail, alloc, nd : Abstract!Safe(avail, alloc, nd) <=> Safe(avail, alloc, nd)
  BY <1>1, <1>2 DEF Abstract!Safe, Safe
<1>4. QED
  BY <1>1, <1>3 DEF Abstract!Zero, Zero, Abstract!Leq, Leq, Abstract!Plus, Plus, Abstract!Minus, Minus

\* The bank of Banker.c implements SafeBank: whole grants, from safe state to safe state,
\* and refusals that leave no trace.
THEOREM Refinement == Spec => ImplementsSafeBank
<1>1. Init => Abstract!Init
  BY SameWords DEF Init, Abstract!Init
<1>2. IInv /\ [Next]_vars => [Abstract!Next]_(Abstract!bank)
  <2> SUFFICES ASSUME IInv, [Next]_vars
               PROVE  Abstract!Next \/ UNCHANGED bank
    BY DEF bank, Abstract!bank
  <2>0. TypeOK /\ CheckInv
    BY DEF IInv
  <2>1. ASSUME NEW c \in Customer, NEW d \in Demands, AddCustomer(c, d)
        PROVE  Abstract!Next
    <3>1. Abstract!Claim(c, d)
      BY <2>1, SameWords DEF AddCustomer, Abstract!Claim
    <3>2. QED
      BY <3>1, SameWords DEF Abstract!Next
  <2>2. CASE Decide /\ FoundSafe
    <3>1. /\ customer \in Customer /\ request \in Amounts /\ maximum' = maximum
          /\ Leq(request, need[customer]) /\ Leq(request, available)
      BY <2>0, <2>2 DEF CheckInv, Decide
    <3>2. /\ available' = Minus(available, request)
          /\ allocation' = [allocation EXCEPT ![customer] = Plus(@, request)]
          /\ need' = [need EXCEPT ![customer] = Minus(@, request)]
      BY <2>0, <2>2, <3>1 DEF Decide, tempAllocation, tempNeed, TypeOK
    <3>3. Safe(available', allocation', need')
      BY <2>0, <2>2, GrantedState
    <3>4. Abstract!Grant(customer, request)
      BY <3>1, <3>2, <3>3, SameWords DEF Abstract!Grant
    <3>5. QED
      BY <3>1, <3>4, SameWords DEF Abstract!Next
  <2>3. ASSUME NEW c \in Customer, NEW a \in Amounts, ReleaseResources(c, a)
        PROVE  Abstract!Next
    <3>1. Abstract!Return(c, a)
      BY <2>3, SameWords DEF ReleaseResources, Abstract!Return
    <3>2. QED
      BY <3>1, SameWords DEF Abstract!Next
  <2>4. QED
    BY <2>1, <2>2, <2>3 DEF Next, RequestResources, CheckCustomer, NextSweep, Decide, bank, vars
<1>3. QED
  BY <1>1, <1>2, Invariance, PTL DEF Spec, ImplementsSafeBank, Abstract!Spec

===============================================================================

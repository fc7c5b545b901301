------------------------------ MODULE BankImpl ------------------------------
(***************************************************************************)
(* lab3/sampleSolution/Java/BankImpl.java: the bank as a monitor, one      *)
(* thread for each customer.  requestResources, checkSafe and              *)
(* releaseResources are synchronized and one step each, on copies or under *)
(* the lock; addCustomer is not.  It writes its two rows element by        *)
(* element, and until its thread takes the lock other threads may read any *)
(* mixture of the values a row has had (the Java memory model).            *)
(***************************************************************************)
EXTENDS Vectors, Functions

CONSTANTS
  Resources,   \* what the constructor is given: of each resource how many units
  Demands,     \* maximum demands customers may be added with
  Amounts      \* requests and releases

\* A claim beyond what the bank has could not be met by any order; TestBankQ1 and
\* TestBankQ2 make none.
ASSUME BankAssumption ==
  /\ Resources \in Vector /\ Demands \subseteq Vector /\ Amounts \subseteq Vector
  /\ \A demand \in Demands : Leq(demand, Resources)

VARIABLES
  available, maximum, allocation, need,  \* the bank's state
  maximumDemand,   \* the argument of the addCustomer each customer's thread is in
  cur,             \* its i; numberOfResources if the thread is not in addCustomer
  visible,         \* of each row of need, what other threads may find in it
  claimed          \* history: the claims whose addCustomer has returned

bank == <<available, maximum, allocation, need>>
adding == <<maximumDemand, cur, claimed>>
vars == <<bank, adding, visible>>

Idle(c) == cur[c] = numberOfResources

\* The constructor; Java zeroes the arrays.
Init ==
  /\ available = Resources
  /\ maximum = [c \in Customer |-> Zero]
  /\ allocation = [c \in Customer |-> Zero]
  /\ need = [c \in Customer |-> Zero]
  /\ maximumDemand = [c \in Customer |-> Zero]
  /\ cur = [c \in Customer |-> numberOfResources]
  /\ visible = [c \in Customer |-> {Zero}]
  /\ claimed = [c \in Customer |-> Zero]

\* addCustomer is called for a customer that holds nothing.
AddCustomer(c, demand) ==
  /\ Idle(c) /\ allocation[c] = Zero
  /\ maximumDemand' = [maximumDemand EXCEPT ![c] = demand]
  /\ cur' = [cur EXCEPT ![c] = 0]
  /\ UNCHANGED <<bank, visible, claimed>>

\* An iteration of its loop.
AddElement(c) ==
  /\ ~Idle(c)
  /\ LET i == cur[c]
         d == maximumDemand[c][i]
     IN /\ maximum' = [maximum EXCEPT ![c][i] = d]
        /\ need' = [need EXCEPT ![c][i] = d]
        /\ visible' = [visible EXCEPT ![c] = @ \cup {[row EXCEPT ![i] = d] : row \in @}]
        /\ cur' = [cur EXCEPT ![c] = i + 1]
        /\ claimed' = IF i + 1 = numberOfResources
                      THEN [claimed EXCEPT ![c] = maximumDemand[c]] ELSE claimed
  /\ UNCHANGED <<available, allocation, maximumDemand>>

\* The needs c's thread may read: its own as it is, of the others what is visible.
Views(c) ==
  {v \in [Customer -> UNION Range(visible) \cup {need[c]}] :
     \A d \in Customer : IF d = c THEN v[d] = need[c] ELSE v[d] \in visible[d]}

\* Mutant: a customer is looked at only if the one before it has finished.
Finishing_InOrder(s, c) == c > 0 => c - 1 \in s.finish

\* Mutant: a customer that has finished is let finish again.
Finishing_Again(s, c) == TRUE

\* Does the sweep consider c?
Finishing(s, c) == c \notin s.finish

\* The copies checkSafe works on: c's request is granted, the others' needs are as in v.
tempNeed(c, request, v) == [v EXCEPT ![c] = Minus(@, request)]
tempAllocation(c, request) == [allocation EXCEPT ![c] = Plus(@, request)]

\* An iteration of its inner loop: d finishes if it can.
Visit(alloc, nd, s, d) ==
  IF Finishing(s, d) /\ Leq(nd[d], s.work)
  THEN [work |-> Plus(s.work, alloc[d]), finish |-> s.finish \cup {d}]
  ELSE s

\* Its inner loop.
Sweep(alloc, nd, s) ==
  LET visited[k \in 0 .. numberOfCustomers] ==
        IF k = 0 THEN s ELSE Visit(alloc, nd, visited[k - 1], k - 1)
  IN visited[numberOfCustomers]

\* checkSafe: the sweeps after the last that finished someone change nothing.
CheckSafe(c, request, v) ==
  LET swept[k \in 0 .. numberOfCustomers] ==
        IF k = 0 THEN [work |-> Minus(available, request), finish |-> {}]
        ELSE Sweep(tempAllocation(c, request), tempNeed(c, request, v), swept[k - 1])
  IN swept[numberOfCustomers].finish = Customer

\* Mutant: the need is not compared.
Plausible_AnyNeed(c, request) == Leq(request, available)

\* The comparisons requestResources makes before it calls checkSafe.
Plausible(c, request) == Leq(request, need[c]) /\ Leq(request, available)

\* What others read of a row after its thread has left the monitor.
Publish(c) == visible' = [visible EXCEPT ![c] = {need'[c]}]

\* requestResources: granted or refused.
RequestResources(c, request) ==
  /\ Idle(c)
  /\ \/ /\ Plausible(c, request) /\ \E v \in Views(c) : CheckSafe(c, request, v)
        /\ available' = Minus(available, request)
        /\ allocation' = [allocation EXCEPT ![c] = Plus(@, request)]
        /\ need' = [need EXCEPT ![c] = Minus(@, request)]
     \/ /\ Plausible(c, request) => \E v \in Views(c) : ~CheckSafe(c, request, v)
        /\ UNCHANGED <<available, allocation, need>>
  /\ Publish(c)
  /\ UNCHANGED <<maximum, adding>>

\* releaseResources; that the amount is held is up to the caller.
ReleaseResources(c, release) ==
  /\ Idle(c) /\ Leq(release, allocation[c])
  /\ available' = Plus(available, release)
  /\ allocation' = [allocation EXCEPT ![c] = Minus(@, release)]
  /\ need' = [need EXCEPT ![c] = Plus(@, release)]
  /\ Publish(c)
  /\ UNCHANGED <<maximum, adding>>

Next ==
  \E c \in Customer :
    \/ \E demand \in Demands : AddCustomer(c, demand)
    \/ AddElement(c)
    \/ \E a \in Amounts : RequestResources(c, a) \/ ReleaseResources(c, a)

Spec == Init /\ [][Next]_vars

-----------------------------------------------------------------------------
(***************************************************************************)
(* Properties.                                                             *)
(***************************************************************************)

\* The types of the variables; and a row holds what its customer finds in it.
TypeOK ==
  /\ available \in Vector
  /\ maximum \in [Customer -> Vector]
  /\ allocation \in [Customer -> Vector]
  /\ need \in [Customer -> Vector]
  /\ maximumDemand \in [Customer -> Demands \cup {Zero}]
  /\ cur \in [Customer -> 0 .. numberOfResources]
  /\ claimed \in [Customer -> Demands \cup {Zero}]
  /\ visible \in [Customer -> SUBSET Vector]
  /\ \A c \in Customer : need[c] \in visible[c]

\* Whatever mixture of half-written and outdated claims a request reads, it is decided
\* as if it had read the true ones: the state it would lead to is safe, or is not.
\* (A customer whose claim is torn holds nothing, and can be served last.)
DecisionExact ==
  \A c \in Customer : \A a \in Amounts :
    Idle(c) /\ Plausible(c, a) =>
      \A v \in Views(c) :
        CheckSafe(c, a, v)
          <=> Safe(Minus(available, a), [allocation EXCEPT ![c] = Plus(@, a)],
                   [need EXCEPT ![c] = Minus(@, a)])

\* A customer's claim counts from when its addCustomer returns.
Settled(table) == [c \in Customer |-> IF Idle(c) THEN table[c] ELSE claimed[c]]

Abstract == INSTANCE SafeBank WITH maximum <- Settled(maximum), need <- Settled(need)

\* In spite of the unsynchronized addCustomer the bank is a SafeBank: every grant leads
\* from a safe state to a safe state, a refusal leaves no trace.
ImplementsSafeBank == Abstract!Spec
=============================================================================

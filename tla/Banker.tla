------------------------------- MODULE Banker -------------------------------
(***************************************************************************)
(* lab3/sampleSolution/C/Banker.c: the banker's algorithm.                 *)
(*                                                                         *)
(* Requests, releases and new customers come in any order, one at a time.  *)
(* The work of a request, checkSafe, is modelled loop iteration by loop    *)
(* iteration: it keeps a copy of the state in which the request is granted *)
(* (here the operators temp...) and sweeps over the customers, letting     *)
(* each that could have its remaining need finish, until a sweep finishes  *)
(* nobody.                                                                 *)
(***************************************************************************)
EXTENDS Vectors

CONSTANTS
  Resources,   \* what initBank is given: of each resource how many units
  Demands,     \* maximum demands customers may be added with
  Amounts      \* requests and releases

ASSUME BankAssumption ==
  Resources \in Vector /\ Demands \subseteq Vector /\ Amounts \subseteq Vector

VARIABLES
  available, maximum, allocation, need,   \* the bank's state
  pc,         \* "idle", or "check": in checkSafe
  customer,   \* customerId of the request that is being decided
  request,    \* and its amounts
  work, finish, possible, cur             \* locals of checkSafe; cur is its i

bank == <<available, maximum, allocation, need>>
locals == <<customer, request, work, finish, possible, cur>>
vars == <<bank, pc, locals>>

\* initBank; the tables are zero-initialised globals.
Init ==
  /\ available = Resources
  /\ maximum = [c \in Customer |-> Zero]
  /\ allocation = [c \in Customer |-> Zero]
  /\ need = [c \in Customer |-> Zero]
  /\ pc = "idle"
  /\ customer = 0 /\ request = Zero
  /\ work = Zero /\ finish = [c \in Customer |-> FALSE]
  /\ possible = FALSE /\ cur = 0

\* A customer is added, or added again, while it holds nothing (as the test code
\* does: before its first request).
AddCustomer(c, maximumDemand) ==
  /\ pc = "idle"
  /\ allocation[c] = Zero
  /\ maximum' = [maximum EXCEPT ![c] = maximumDemand]
  /\ need' = [need EXCEPT ![c] = maximumDemand]
  /\ UNCHANGED <<available, allocation, pc, locals>>

\* Mutant: the request is not compared with the need.
Plausible_AnyNeed(c, amount) == Leq(amount, available)

\* The request is within the need and the available amount.
Plausible(c, amount) == Leq(amount, need[c]) /\ Leq(amount, available)

\* Mutant: possible is not reset.
BeginSweep_StillPossible == cur' = 0 /\ UNCHANGED possible

BeginSweep == cur' = 0 /\ possible' = FALSE

\* requestResources up to its call of checkSafe, and the start of checkSafe.  An
\* implausible one is refused without a trace: no step.
RequestResources(c, amount) ==
  /\ pc = "idle"
  /\ Plausible(c, amount)
  /\ customer' = c /\ request' = amount
  /\ work' = Minus(available, amount)
  /\ finish' = [d \in Customer |-> FALSE]
  /\ BeginSweep
  /\ pc' = "check"
  /\ UNCHANGED bank

\* Mutant: the request is not taken off the need.
tempNeed_Unchanged(c) == need[c]

tempNeed(c) == IF c = customer THEN Minus(need[c], request) ELSE need[c]
tempAllocation(c) == IF c = customer THEN Plus(allocation[c], request) ELSE allocation[c]

\* Mutant: compares the need from before the request.
CanFinish_OldNeed(c) == ~finish[c] /\ Leq(need[c], work)

CanFinish(c) == ~finish[c] /\ Leq(tempNeed(c), work)

\* One iteration of the inner loop.
CheckCustomer ==
  /\ pc = "check"
  /\ cur \in Customer
  /\ IF CanFinish(cur)
     THEN /\ work' = Plus(work, tempAllocation(cur))
          /\ finish' = [finish EXCEPT ![cur] = TRUE]
          /\ possible' = TRUE
     ELSE UNCHANGED <<work, finish, possible>>
  /\ cur' = cur + 1
  /\ UNCHANGED <<bank, pc, customer, request>>

\* The sweep finished someone: another one.
NextSweep ==
  /\ pc = "check"
  /\ cur = numberOfCustomers
  /\ possible
  /\ BeginSweep
  /\ UNCHANGED <<bank, pc, customer, request, work, finish>>

\* Mutant: granted when any customer can finish.
FoundSafe_Anyone == \E c \in Customer : finish[c]

FoundSafe == \A c \in Customer : finish[c]

\* It did not: checkSafe returns, and the request is granted or refused.
Decide ==
  /\ pc = "check"
  /\ cur = numberOfCustomers
  /\ ~possible
  /\ IF FoundSafe
     THEN /\ available' = Minus(available, request)
          /\ allocation' = [allocation EXCEPT ![customer] = tempAllocation(customer)]
          /\ need' = [need EXCEPT ![customer] = tempNeed(customer)]
     ELSE UNCHANGED <<available, allocation, need>>
  /\ pc' = "idle"
  /\ UNCHANGED <<maximum, locals>>

\* A customer releases what it holds, or part of it ("we do not judge the release
\* request": that the amount is held is up to the caller).
ReleaseResources(c, amount) ==
  /\ pc = "idle"
  /\ Leq(amount, allocation[c])
  /\ available' = Plus(available, amount)
  /\ allocation' = [allocation EXCEPT ![c] = Minus(@, amount)]
  /\ need' = [need EXCEPT ![c] = Plus(@, amount)]
  /\ UNCHANGED <<maximum, pc, locals>>

Next ==
  \/ \E c \in Customer : \E d \in Demands : AddCustomer(c, d)
  \/ \E c \in Customer : \E a \in Amounts : RequestResources(c, a)
  \/ CheckCustomer
  \/ NextSweep
  \/ Decide
  \/ \E c \in Customer : \E a \in Amounts : ReleaseResources(c, a)

\* checkSafe runs to its end.
Spec == Init /\ [][Next]_vars /\ WF_vars(CheckCustomer \/ NextSweep \/ Decide)

-----------------------------------------------------------------------------
(***************************************************************************)
(* Properties.                                                             *)
(***************************************************************************)

\* The types of the variables.
TypeOK ==
  /\ available \in Vector
  /\ maximum \in [Customer -> Vector]
  /\ allocation \in [Customer -> Vector]
  /\ need \in [Customer -> Vector]
  /\ pc \in {"idle", "check"}
  /\ customer \in Customer \cup {0} /\ request \in Vector
  /\ work \in Vector /\ finish \in [Customer -> BOOLEAN]
  /\ possible \in BOOLEAN /\ cur \in 0 .. numberOfCustomers

\* Units are neither made nor lost, and a customer's need is the part of its claim it
\* does not hold, over any history of requests, refusals, releases and new claims.
Books ==
  /\ \A r \in Resource : available[r] + Held(allocation, Customer, r) = Resources[r]
  /\ \A c \in Customer : Plus(need[c], allocation[c]) = maximum[c]

\* As long as no claim exceeds what the bank has, the bank is in a safe state: every
\* customer can still be given all it claimed, in some order.
AlwaysSafe ==
  (\A c \in Customer : Leq(maximum[c], Resources)) => Safe(available, allocation, need)

\* A request for something that reaches checkSafe is granted exactly if the state after
\* it is safe: the greedy sweeps neither miss a safe order nor see one that is not there.
CheckSafeExact ==
  [][Decide /\ request # Zero =>
       (available' = Minus(available, request) /\ allocation'[customer] = tempAllocation(customer))
         <=> Safe(Minus(available, request),
                  [c \in Customer |-> tempAllocation(c)],
                  [c \in Customer |-> tempNeed(c)])]_vars

\* Every request is answered: the sweeps end.
Answered == pc = "check" ~> pc = "idle"

Abstract == INSTANCE SafeBank

\* The bank is a SafeBank: requests are granted as a whole, from safe state to safe
\* state, and one that is refused leaves no trace.
ImplementsSafeBank == Abstract!Spec
=============================================================================

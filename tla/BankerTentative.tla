--------------------------- MODULE BankerTentative ---------------------------
(***************************************************************************)
(* lab3/startingCode/C/banker.c, the lab's own version of the banker.      *)
(* Unlike the sample (module Banker) it works without copies: a request is *)
(* entered in the tables, checkSafe looks at the tables, and if they are   *)
(* unsafe the entry is taken back.                                         *)
(***************************************************************************)
EXTENDS Vectors

CONSTANTS
  Resources,   \* what initBank is given
  Demands,     \* maximum demands customers may be added with
  Amounts      \* requests

ASSUME BankAssumption ==
  Resources \in Vector /\ Demands \subseteq Vector /\ Amounts \subseteq Vector

VARIABLES
  available, maximum, allocation, need,   \* the tables
  pc,                                     \* "idle", or "check": in checkSafe
  customer, request,                      \* what is being decided
  work, finish, finishNumber, toContinue, cur   \* locals of checkSafe; cur is its i

bank == <<available, maximum, allocation, need>>
locals == <<customer, request, work, finish, finishNumber, toContinue, cur>>
vars == <<bank, pc, locals>>

\* initBank; the tables are zero-initialised globals.
Init ==
  /\ available = Resources
  /\ maximum = [c \in Customer |-> Zero]
  /\ allocation = [c \in Customer |-> Zero]
  /\ need = [c \in Customer |-> Zero]
  /\ pc = "idle"
  /\ customer = 0 /\ request = Zero
  /\ work = Zero /\ finish = [c \in Customer |-> FALSE]
  /\ finishNumber = 0 /\ toContinue = FALSE /\ cur = 0

\* A customer is added, or added again, while it holds nothing (as main does).
AddCustomer(c, maximumDemand) ==
  /\ pc = "idle"
  /\ allocation[c] = Zero
  /\ maximum' = [maximum EXCEPT ![c] = maximumDemand]
  /\ need' = [need EXCEPT ![c] = maximumDemand]
  /\ UNCHANGED <<available, allocation, pc, locals>>

\* Mutant: work is copied before the request is entered.
StartWork_Old(amount) == available

\* What work starts with.
StartWork(amount) == Minus(available, amount)

\* A request within need and available is entered, and checkSafe starts; any other
\* is refused without a trace: no step.
RequestResources(c, amount) ==
  /\ pc = "idle"
  /\ Leq(amount, need[c]) /\ Leq(amount, available)
  /\ available' = Minus(available, amount)
  /\ allocation' = [allocation EXCEPT ![c] = Plus(@, amount)]
  /\ need' = [need EXCEPT ![c] = Minus(@, amount)]
  /\ customer' = c /\ request' = amount
  /\ work' = StartWork(amount)
  /\ finish' = [d \in Customer |-> FALSE]
  /\ finishNumber' = 0 /\ toContinue' = FALSE /\ cur' = 0
  /\ pc' = "check"
  /\ UNCHANGED maximum

\* Mutant: without the test of finish.
CanFinish_Again(c) == Leq(need[c], work)

CanFinish(c) == ~finish[c] /\ Leq(need[c], work)

\* One iteration of the for loop of checkSafe.
CheckCustomer ==
  /\ pc = "check" /\ cur \in Customer
  /\ IF CanFinish(cur)
     THEN /\ work' = Plus(work, allocation[cur])
          /\ finish' = [finish EXCEPT ![cur] = TRUE]
          /\ finishNumber' = finishNumber + 1
          /\ toContinue' = TRUE
     ELSE UNCHANGED <<work, finish, finishNumber, toContinue>>
  /\ cur' = cur + 1
  /\ UNCHANGED <<bank, pc, customer, request>>

SweepEnds == pc = "check" /\ cur = numberOfCustomers

\* Someone has finished, but not everyone: another sweep.
NextSweep ==
  /\ SweepEnds /\ toContinue /\ finishNumber < numberOfCustomers
  /\ toContinue' = FALSE /\ cur' = 0
  /\ UNCHANGED <<bank, pc, customer, request, work, finish, finishNumber>>

\* Everyone has: checkSafe returns 1 and the request stays.
Granted ==
  /\ SweepEnds /\ toContinue /\ finishNumber >= numberOfCustomers
  /\ toContinue' = FALSE
  /\ pc' = "idle"
  /\ UNCHANGED <<bank, customer, request, work, finish, finishNumber, cur>>

\* Mutant: checkSafe gives up after the first sweep.
FoundNone_OneSweep == finishNumber < numberOfCustomers

FoundNone == ~toContinue

\* Mutant: need is not rolled back.
TakeBack_NotNeed ==
  /\ available' = Plus(available, request)
  /\ allocation' = [allocation EXCEPT ![customer] = Minus(@, request)]
  /\ UNCHANGED need

\* The entry leaves the three tables.
TakeBack ==
  /\ available' = Plus(available, request)
  /\ allocation' = [allocation EXCEPT ![customer] = Minus(@, request)]
  /\ need' = [need EXCEPT ![customer] = Plus(@, request)]

\* Nobody has finished in this sweep: checkSafe returns 0 and the entry is taken back.
RollBack ==
  /\ SweepEnds /\ FoundNone
  /\ TakeBack
  /\ pc' = "idle"
  /\ UNCHANGED <<maximum, locals>>

\* releaseResources is a stub: it returns 0 and releases nothing.
ReleaseResources ==
  /\ pc = "idle"
  /\ UNCHANGED vars

Next ==
  \/ \E c \in Customer : \E d \in Demands : AddCustomer(c, d)
  \/ \E c \in Customer : \E a \in Amounts : RequestResources(c, a)
  \/ CheckCustomer
  \/ NextSweep
  \/ Granted
  \/ RollBack
  \/ ReleaseResources

Spec == Init /\ [][Next]_vars

-----------------------------------------------------------------------------
(***************************************************************************)
(* Properties.                                                             *)
(***************************************************************************)

\* The types of the variables; finishNumber counts customers, so each at most once.
TypeOK ==
  /\ available \in Vector
  /\ maximum \in [Customer -> Vector]
  /\ allocation \in [Customer -> Vector]
  /\ need \in [Customer -> Vector]
  /\ pc \in {"idle", "check"}
  /\ customer \in Customer \cup {0} /\ request \in Vector
  /\ work \in Vector /\ finish \in [Customer -> BOOLEAN]
  /\ finishNumber \in 0 .. numberOfCustomers
  /\ toContinue \in BOOLEAN /\ cur \in 0 .. numberOfCustomers

\* The three ledgers agree in every state, also while a request is entered that may
\* be taken back: no unit is made or lost, and need and allocation make up the claim.
Books ==
  /\ \A r \in Resource : available[r] + Held(allocation, Customer, r) = Resources[r]
  /\ \A c \in Customer : Plus(need[c], allocation[c]) = maximum[c]

\* checkSafe is exact on the tables: entered requests stay if and only if the state
\* with them is safe.
CheckSafeExact ==
  [][/\ Granted => Safe(available, allocation, need)
     /\ RollBack => ~Safe(available, allocation, need)]_vars

\* The tables without the request that is being checked.
Undecided(c) == pc = "check" /\ c = customer

Committed == INSTANCE SafeBank WITH
  available <- IF pc = "check" THEN Plus(available, request) ELSE available,
  allocation <- [c \in Customer |->
                   IF Undecided(c) THEN Minus(allocation[c], request) ELSE allocation[c]],
  need <- [c \in Customer |-> IF Undecided(c) THEN Plus(need[c], request) ELSE need[c]]

\* Seen without the entry that is being checked, the bank is a SafeBank: it grants
\* whole requests, and refusing one, whatever the sweeps found, leaves nothing behind.
ImplementsSafeBank == Committed!Spec
=============================================================================

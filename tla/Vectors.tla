------------------------------- MODULE Vectors -------------------------------
(***************************************************************************)
(* Customers, resources and amounts of each resource, as the C versions of *)
(* the banker (lab3) have them, and what a safe state is.                  *)
(***************************************************************************)
EXTENDS Integers, FiniteSets

CONSTANTS numberOfCustomers, numberOfResources

ASSUME SizeAssumption ==
  numberOfCustomers \in Nat /\ numberOfResources \in Nat \ {0}

Customer == 0 .. numberOfCustomers - 1
Resource == 0 .. numberOfResources - 1
Vector == [Resource -> Nat]

Leq(v, w) == \A r \in Resource : v[r] <= w[r]
Plus(v, w) == [r \in Resource |-> v[r] + w[r]]
Minus(v, w) == [r \in Resource |-> v[r] - w[r]]
Zero == [r \in Resource |-> 0]

\* The units of resource r the members of S hold: the k-th one of customer c is <<c, k>>.
Units(alloc, S, r) == UNION {{c} \X (1 .. alloc[c][r]) : c \in S}

\* What they hold together.
Held(alloc, S, r) == Cardinality(Units(alloc, S, r))

\* The definition of a safe state, without an algorithm: whatever set of customers is
\* unfinished, one of them could have all it may still ask for from what is available
\* and what the finished ones have returned.
Safe(avail, alloc, nd) ==
  \A S \in (SUBSET Customer) \ {{}} : \E c \in S :
    \A r \in Resource : nd[c][r] <= avail[r] + Held(alloc, Customer \ S, r)
=============================================================================

------------------------------ MODULE MCBanker ------------------------------
(***************************************************************************)
(* An instance of Banker: three customers, two resources.                  *)
(***************************************************************************)
EXTENDS Banker

Vec(a, b) == [r \in {0, 1} |-> IF r = 0 THEN a ELSE b]

MCResources == Vec(2, 2)
MCDemands == {Vec(2, 1), Vec(1, 2), Vec(3, 0)}
MCAmounts == {Vec(1, 0), Vec(0, 1), Vec(1, 1)}
=============================================================================

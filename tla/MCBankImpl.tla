----------------------------- MODULE MCBankImpl -----------------------------
(***************************************************************************)
(* An instance of BankImpl: three threads, two resources.                  *)
(***************************************************************************)
EXTENDS BankImpl

Vec(a, b) == [r \in {0, 1} |-> IF r = 0 THEN a ELSE b]

MCResources == Vec(3, 1)
MCDemands == {Vec(3, 1), Vec(1, 0)}
MCAmounts == {Vec(1, 0), Vec(0, 1)}
=============================================================================

------------------------------ MODULE SafeBank ------------------------------
(***************************************************************************)
(* What the banker promises, without its algorithm: a request is granted   *)
(* at once and as a whole, and only if the state after it is safe; a       *)
(* refused one leaves no trace.                                            *)
(***************************************************************************)
EXTENDS Vectors

CONSTANTS Resources, Demands, Amounts

VARIABLES available, maximum, allocation, need

bank == <<available, maximum, allocation, need>>

Init ==
  /\ available = Resources
  /\ maximum = [c \in Customer |-> Zero]
  /\ allocation = [c \in Customer |-> Zero]
  /\ need = [c \in Customer |-> Zero]

Claim(c, demand) ==
  /\ allocation[c] = Zero
  /\ maximum' = [maximum EXCEPT ![c] = demand]
  /\ need' = [need EXCEPT ![c] = demand]
  /\ UNCHANGED <<available, allocation>>

Grant(c, amount) ==
  /\ Leq(amount, need[c]) /\ Leq(amount, available)
  /\ available' = Minus(available, amount)
  /\ allocation' = [allocation EXCEPT ![c] = Plus(@, amount)]
  /\ need' = [need EXCEPT ![c] = Minus(@, amount)]
  /\ Safe(available', allocation', need')
  /\ UNCHANGED maximum

Return(c, amount) ==
  /\ Leq(amount, allocation[c])
  /\ available' = Plus(available, amount)
  /\ allocation' = [allocation EXCEPT ![c] = Minus(@, amount)]
  /\ need' = [need EXCEPT ![c] = Plus(@, amount)]
  /\ UNCHANGED maximum

Next == \E c \in Customer :
          \/ \E demand \in Demands : Claim(c, demand)
          \/ \E amount \in Amounts : Grant(c, amount) \/ Return(c, amount)

Spec == Init /\ [][Next]_bank
=============================================================================

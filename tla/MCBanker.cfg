SPECIFICATION Spec
CONSTANTS
  numberOfCustomers = 3
  numberOfResources = 2
  Resources <- MCResources
  Demands <- MCDemands
  Amounts <- MCAmounts
INVARIANTS
  TypeOK
  Books
  AlwaysSafe
PROPERTIES
  CheckSafeExact
  Answered
  ImplementsSafeBank

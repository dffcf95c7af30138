CONSTANTS
  Absent = Absent
  Domains = {"a.example", "A.example", "b.example"}
  Fold <- MCFold
  Specs <- MCSpecs
  MaxOrders = 3
  MaxTrouble = 4
SPECIFICATION FairSpec
INVARIANTS
  IInv
  OrdersAreAccounted
  OrdersAreOwed
PROPERTIES
  OutcomesAreFinal
  OutcomeIsSeen
CHECK_DEADLOCK FALSE

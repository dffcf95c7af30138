CONSTANTS
  Absent = Absent
  Domains = {"a.example", "A.example", "b.example"}
  Fold <- MCFold
  Specs <- MCSpecs
  MaxOrders = 3
  MaxTrouble = 4
SPECIFICATION Spec
INVARIANTS
  DomainChangeIsReplace
CHECK_DEADLOCK FALSE

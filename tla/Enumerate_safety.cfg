CONSTANTS
  Blank = Blank
  Domains = {"a", "b", "c", "d", "e"}
  PageSize = 2
  Lists <- MCLists
  MaxChanges = 2
SPECIFICATION Spec
INVARIANTS
  TypeOK
  EachChangeDamagesOne
  ReportedWereHosted
PROPERTIES
  EnumerationEnds
CHECK_DEADLOCK FALSE

CONSTANTS
  Absent = Absent
  NotAMap = NotAMap
  MX = "MX"
  Types <- MCTypes
  Upper <- MCUpper
  HostNames = {"www"}
  Lower <- MCLower
  Datas = {"d1", "d2"}
  Domains <- MCDomains
  Fold <- MCFold
  DefaultMXPref = 10
  Calls = {c1, c2}
  Jobs <- MCStoreJobs
  UiZones <- MCUiZones
  InitialZone <- MCInitialZone
  MaxLate = 1
  MayDecline = TRUE
SPECIFICATION Spec
INVARIANTS
  AnswerIsHonest

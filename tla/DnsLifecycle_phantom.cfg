CONSTANTS
  Absent = Absent
  NotAMap = NotAMap
  MX = "MX"
  Types <- MCTypes
  Upper <- MCUpper
  HostNames = {"www", "WWW"}
  Lower <- MCLower
  Datas = {"d1", "d2"}
  Domains <- MCDomains
  Fold <- MCFold
  DefaultMXPref = 10
  Specs <- MCGoodSpecs
  UiZones <- MCUiZones
  InitialZone <- MCInitialZone
  MaxTrouble = 2
SPECIFICATION Spec
INVARIANTS
  MatchIsQuiet

CONSTANTS
  Absent = Absent
  NotAMap = NotAMap
  MX = "MX"
  Types <- MCTypes
  Upper <- MCUpper
  HostNames = {"www", "WWW"}
  Lower <- MCLower
  Datas = {"d1", "d2"}
  Domains <- MCDomains
  Fold <- MCFold
  DefaultMXPref = 10
  Specs <- MCSpecs
  UiZones <- MCUiZones
  InitialZone <- MCInitialZone
  MaxTrouble = 3
SPECIFICATION FairSpec
INVARIANTS
  TypeOK
  FreshQuietMeansMatch
  NoiseIsEmpty
  PlannedUpdateNamesItsZone
PROPERTIES
  MovesReleaseTheOldZone
  ZoneSettles

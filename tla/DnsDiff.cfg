CONSTANTS
  Absent = Absent
  NotAMap = NotAMap
  MX = "MX"
  Types = {"A", "MX"}
  Upper <- MCUpper
  HostNames = {"www", "WWW"}
  Lower <- MCLower
  Datas = {"d1"}
  Domains = {"a.example"}
  Fold <- MCFold
  DefaultMXPref = Absent
  Pool <- MCPool
  MaxLength = 3
  Key <- MCKey
SPECIFICATION Spec
INVARIANTS
  ChangesArePatch
  QuietIffSame
  WireIsTransparent
  OwnOutputIsQuiet
CHECK_DEADLOCK FALSE

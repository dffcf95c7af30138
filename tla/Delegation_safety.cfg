CONSTANTS
  Absent = Absent
  Domains = {"a.example", "A.example", "A.example.", "b.example"}
  Clean <- MCClean
  Fold <- MCFold
  Servers = {"ns1", "NS1.", "ns2", "ns3", " "}
  Host <- MCHost
  Specs <- MCSpecs
  InitialServers = {"ns2", "ns3"}
  UiServers = {{"ns1", "ns2", "ns3"}}
  MaxTrouble = 4
SPECIFICATION FairSpec
INVARIANTS
  TypeOK
  FreshDiffIsExact
  AtLeastTwoServers
  FreshIsDelegated
PROPERTIES
  DelegationIsKept
  Converges

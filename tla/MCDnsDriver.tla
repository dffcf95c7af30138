----------------------------- MODULE MCDnsDriver -----------------------------
(* Small instances of DnsDriver: two zones, one of them spelled two ways. *)
EXTENDS DnsDriver, TLC

MCUpper(ty) == IF ty = "mx" THEN "MX" ELSE ty
MCLower(nm) == nm
MCFold(d) == IF d = "A.example" THEN "a.example" ELSE d

MCTypes == {"A", "MX", "mx"}
MCDomains == {"a.example", "A.example", "b.example"}

AEntry(ttl) == [type |-> "A", name |-> "www", data |-> "d1", ttl |-> ttl, mx |-> Absent]
MXEntry(ty, mx) == [type |-> ty, name |-> "www", data |-> "d2", ttl |-> Absent, mx |-> mx]

Asked(domain, records) == [name |-> "a.example", domain |-> domain, records |-> records]
NoSpec == Absent

Job(op, id, spec) == [op |-> op, id |-> id, name |-> "a.example", spec |-> spec]

\* Jobs that write: every field of a request, both spellings of a zone.
MCWriteJobs == {
  Job("create", Absent, Asked(Absent, <<AEntry(30), MXEntry("mx", 10)>>)),
  Job("create", Absent, Asked("b.example", <<>>)),
  Job("update", "A.example", Asked("a.example", <<MXEntry("MX", 255)>>)),
  Job("delete", "a.example", NoSpec)}

\* Jobs the driver refuses, each at another check.
MCRefusedJobs == {
  Job("update", Absent, Asked("A.example", <<MXEntry("MX", 256)>>)),
  Job("update", "a.example", Asked("b.example", <<AEntry(300)>>)),
  Job("update", "b.example", Asked("b.example", Absent)),
  Job("create", Absent, Asked("a.example", <<AEntry(300), NotAMap>>))}

MCReadJobs == {Job("read", "A.example", NoSpec), Job("health", Absent, NoSpec)}

MCJobs == MCWriteJobs \cup MCRefusedJobs \cup MCReadJobs

\* Enough for the abstract store: two writes to one zone, a refusal, a look.
MCStoreJobs == {
  Job("update", "A.example", Asked("a.example", <<MXEntry("MX", 255)>>)),
  Job("delete", "a.example", NoSpec),
  Job("update", Absent, Asked("A.example", <<MXEntry("MX", 256)>>)),
  Job("update", "a.example", Asked("b.example", <<AEntry(300)>>)),
  Job("health", Absent, NoSpec)}

Symmetry == Permutations(Calls)

MCInitialZone ==
  [hosts |-> <<[type |-> "A", name |-> "www", data |-> "d2", ttl |-> 1800, mx |-> Absent]>>,
   email |-> "unset"]
MCUiZones == {MCInitialZone}
=============================================================================

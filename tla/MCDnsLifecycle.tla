--------------------------- MODULE MCDnsLifecycle ---------------------------
(* A small instance of DnsLifecycle: two zones and a handful of specs. *)
EXTENDS DnsLifecycle

MCUpper(ty) == IF ty = "mx" THEN "MX" ELSE ty
MCLower(nm) == IF nm = "WWW" THEN "www" ELSE nm
MCFold(d) == IF d = "A.example" THEN "a.example" ELSE d

MCTypes == {"A", "MX", "mx"}
MCDomains == {"a.example", "A.example", "b.example"}

AEntry(nm, ttl) == [type |-> "A", name |-> nm, data |-> "d1", ttl |-> ttl, mx |-> Absent]
MXEntry(ty, mx) == [type |-> ty, name |-> "www", data |-> "d2", ttl |-> Absent, mx |-> mx]

Asked(domain, records) == [name |-> "a.example", domain |-> domain, records |-> records]

\* Specs the driver accepts: folded spellings, a clamped TTL, a priority change.
MCGoodSpecs == {
  Asked(Absent, <<AEntry("WWW", 30), MXEntry("mx", 10)>>),
  Asked("A.example", <<MXEntry("MX", 20), AEntry("www", 60)>>),
  Asked("b.example", <<AEntry("www", 60)>>),
  Asked("a.example", <<>>)}

\* And some that list a record twice or that it refuses.
MCSpecs == MCGoodSpecs \cup {
  Asked(Absent, <<AEntry("WWW", 60), AEntry("www", 300)>>),
  Asked("a.example", Absent),
  Asked("a.example", <<MXEntry("MX", 256)>>)}

MCInitialZone ==
  [hosts |-> <<[type |-> "A", name |-> "www", data |-> "d1", ttl |-> 60, mx |-> Absent]>>,
   email |-> "unset"]
MCUiZones ==
  {[hosts |-> <<[type |-> "MX", name |-> "www", data |-> "d2", ttl |-> 1800, mx |-> 10]>>,
    email |-> "MX"]}
=============================================================================

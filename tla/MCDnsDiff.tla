------------------------------ MODULE MCDnsDiff ------------------------------
EXTENDS DnsWire, TLC

MCUpper(ty) == ty
MCLower(nm) == IF nm = "WWW" THEN "www" ELSE nm
MCFold(d) == d
MCKey(i) == "record_" \o ToString(i - 1)

Rec(ty, nm, ttl, mx) == [type |-> ty, name |-> nm, data |-> "d1", ttl |-> ttl, mx |-> mx]

\* Equal keys with another TTL, another priority, another spelling of the name.
MCPool == {
  Rec("A", "www", 60, 0), Rec("A", "WWW", 60, 0), Rec("A", "www", 300, 0),
  Rec("A", "www", 60, 10), Rec("MX", "www", 60, 10), Rec("MX", "www", 60, 20)}
=============================================================================

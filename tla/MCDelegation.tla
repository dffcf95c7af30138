---------------------------- MODULE MCDelegation ----------------------------
(* A small instance of Delegation: two domains, two spellings of a server. *)
EXTENDS Delegation

MCClean(d) == IF d \in {"A.example.", "A.example"} THEN "a.example" ELSE d
MCFold(d) == CASE d = "A.example" -> "a.example" [] d = "A.example." -> "a.example." [] OTHER -> d
MCHost(s) == CASE s = "NS1." -> "ns1" [] s = " " -> Absent [] OTHER -> s

MCSpecs == {
  [name |-> "a.example", domain |-> "A.example.", nameservers |-> {"ns1", "ns2"}],
  [name |-> "a.example", domain |-> Absent, nameservers |-> {"NS1.", "ns3"}],
  [name |-> "a.example", domain |-> Absent, nameservers |-> {"ns1", "NS1.", " "}],
  [name |-> "a.example", domain |-> "b.example", nameservers |-> {"ns1", "ns2"}]}
=============================================================================

-------------------------- MODULE MCProviderServer --------------------------
(* Three RPCs on a server: two accounts, two domains. *)
EXTENDS ProviderServer, TLC

Config(user, ip) == [user |-> user, key |-> "k", ip |-> ip, sandbox |-> FALSE]

MCOwner(n) == IF n = "a.example" THEN <<"alice", FALSE>> ELSE <<"bob", FALSE>>
MCListing(account) == IF account[1] = "alice" THEN <<"a.example">> ELSE <<"b.example">>

Job(rpc, op, type, items) ==
  [rpc |-> rpc, op |-> op, config |-> Malformed, type |-> type, refs |-> items]
InitializeJob(config) == [Job("Initialize", "initialize", Blank, <<>>) EXCEPT !.config = config]
Ref(n, ty) == [name |-> n, type |-> ty]

\* Each RPC once, and every way it can be refused.
MCJobs == {
  InitializeJob(Config("alice", "ip")), InitializeJob(Config("bob", "ip")),
  InitializeJob(Config("alice", "ip/24")), InitializeJob(Malformed),
  Job("Destroy", "delete", Blank,
      <<Ref("a.example", "infra.dns_delegation"), Ref("a.example", Blank)>>),
  Job("Status", "read", Blank,
      <<Ref("b.example", "infra.domain_transfer"), Ref("a.example", "other")>>),
  Job("Import", "read", Blank, <<Ref("a.example", "infra.dns")>>),
  Job("Plan", "diff", Blank, <<Ref("b.example", "infra.dns_delegation")>>),
  Job("Resource", "write", "infra.dns", <<Ref("b.example", "infra.dns")>>),
  Job("Resource", "delete", Blank, <<Ref("b.example", Blank)>>),
  Job("Resource", "read", "other", <<Ref("b.example", "other")>>),
  Job("EnumerateAll", "read", "infra.dns", <<>>),
  Job("EnumerateAll", "read", "infra.dns_delegation", <<>>),
  Job("EnumerateAll", "read", "infra.domain_transfer", <<>>)}

Symmetry == Permutations(Calls)
=============================================================================

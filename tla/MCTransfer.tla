----------------------------- MODULE MCTransfer -----------------------------
(* A small instance of Transfer: two domains, one of them spelled two ways. *)
EXTENDS Transfer

MCFold(d) == IF d = "A.example" THEN "a.example" ELSE d

MCSpecs == {
  [domain |-> "a.example", complete |-> TRUE, confirm |-> TRUE],
  [domain |-> "A.example", complete |-> TRUE, confirm |-> FALSE],
  [domain |-> "b.example", complete |-> TRUE, confirm |-> TRUE],
  [domain |-> "b.example", complete |-> FALSE, confirm |-> TRUE],
  [domain |-> Absent, complete |-> TRUE, confirm |-> TRUE]}
=============================================================================

---------------------------- MODULE MCEnumerate ----------------------------
(* Up to five rows on pages of two: full, short and empty last pages. *)
EXTENDS Enumerate

Order == <<"a", "b", "c", "d", "e">>
Plain(n) == [i \in 1..n |-> [name |-> Order[i], ours |-> "yes"]]

\* Every length; foreign and unsaid DNS and a row without a name among them.
MCLists ==
  {Plain(n) : n \in 0..5}
    \cup {[Plain(3) EXCEPT ![i].ours = o] : i \in 1..3, o \in {"no", "unknown"}}
    \cup {[Plain(3) EXCEPT ![i].name = Blank] : i \in 1..3}
=============================================================================

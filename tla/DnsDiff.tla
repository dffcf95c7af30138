------------------------------- MODULE DnsDiff -------------------------------
(***************************************************************************)
(* diffRecords against what it should compute, over every pair of record   *)
(* lists of bounded length: current and desired grow one record at a time. *)
(***************************************************************************)
EXTENDS DnsRecords

CONSTANTS
  Pool,      \* the records lists are made of, types as ToUpper leaves them
  MaxLength  \* bound on the length of a list

VARIABLES current, desired

vars == <<current, desired>>

ASSUME PoolAssumption ==
  /\ Pool \subseteq Record
  /\ \A r \in Pool : Upper(r.type) = r.type
  /\ MaxLength \in Nat

Init == current = <<>> /\ desired = <<>>

Grow(list, other) ==
  /\ Len(list) < MaxLength
  /\ \E r \in Pool : list' = Append(list, r)
  /\ UNCHANGED other

Next == Grow(current, desired) \/ Grow(desired, current)

Spec == Init /\ [][Next]_vars

-----------------------------------------------------------------------------
Changes == DiffRecords(current, desired)

\* The record lists as the plan shows them: one entry per key, with its TTL and,
\* on MX only, its priority.
Entered(k, m) == <<k, m.ttl, m.mx>>
Shown(recs) == {Entered(k, RecordToMap(Keyed(recs)[k])) : k \in Keys(recs)}

\* The changes are a patch: carrying them out on the current records gives the
\* desired ones, nothing is missing and nothing is left over.
ChangesArePatch ==
  LET old == {ch \in Changes : ch.old # Absent}
      new == {ch \in Changes : ch.new # Absent}
  IN  /\ {Entered(ch.path, ch.old) : ch \in old} \subseteq Shown(current)
      /\ Shown(desired) = (Shown(current) \ {Entered(ch.path, ch.old) : ch \in old})
                            \cup {Entered(ch.path, ch.new) : ch \in new}

\* What diffRecords takes a record for, spelling folded.  It compares the priority
\* of every record, so that counts here too, although only an MX record has one:
\* what comes of that is MatchIsQuiet of DnsLifecycle.
Meaning(r) == <<Upper(r.type), Lower(r.name), r.data, r.ttl, r.mx>>
MeaningOf(recs) == {Meaning(recs[i]) : i \in DOMAIN recs}

\* For lists that name no record twice, no changes means the same records with
\* the same TTL and priority in any order, and the other way round.
QuietIffSame ==
  NamesEachOnce(current) /\ NamesEachOnce(desired)
    => (Changes = {} <=> MeaningOf(current) = MeaningOf(desired))
=============================================================================

----------------------------- MODULE DnsRecords -----------------------------
(***************************************************************************)
(* The record algebra of internal/drivers/dns.go: how a resource spec is   *)
(* parsed into records, how records become a SetHosts request and an       *)
(* output, and how Diff compares a desired spec with a saved output.       *)
(*                                                                         *)
(* One shape serves the records of a config, of the API and of an output:  *)
(* [type, name, data, ttl, mx].  Absent stands for a map key that is       *)
(* missing, empty or of a Go type the code does not accept, and for a nil  *)
(* pointer.  Spellings matter only up to the case folds the code applies,  *)
(* which are parameters: strings.ToUpper on record types, strings.ToLower  *)
(* on host names, strings.EqualFold on domains.                            *)
(***************************************************************************)
EXTENDS Integers, Sequences

CONSTANTS
  Absent,        \* no value: missing key, empty string, wrong type, nil
  NotAMap,       \* an entry of "records" that is not a map
  Types,         \* spellings of record types
  Upper(_),      \* strings.ToUpper on Types
  MX,            \* the type "MX"
  HostNames,     \* spellings of host names
  Lower(_),      \* strings.ToLower on HostNames
  Datas,         \* record data ("address" on the API side)
  Domains,       \* spellings of domain names
  Fold(_),       \* the zone a spelling of a domain names
  DefaultMXPref  \* what GetHosts reports as MXPref of a host without one

ASSUME SentinelAssumption ==
  /\ Absent \notin Types \cup HostNames \cup Datas \cup Domains \cup Int
  /\ NotAMap \notin
       [type : Types \cup {Absent}, name : HostNames \cup {Absent},
        data : Datas \cup {Absent}, ttl : Int \cup {Absent}, mx : Int \cup {Absent}]

ASSUME SpellingAssumption ==
  /\ MX \in Types
  /\ \A ty \in Types : Upper(ty) \in Types /\ Upper(Upper(ty)) = Upper(ty)
  /\ Upper(MX) = MX
  /\ \A nm \in HostNames : Lower(nm) \in HostNames

ASSUME PrefAssumption == DefaultMXPref \in 0..255 \cup {Absent}

Zones == {Fold(d) : d \in Domains}

-----------------------------------------------------------------------------
(* Parsing a spec                                                          *)

Entry == {NotAMap} \cup
  [type : Types \cup {Absent}, name : HostNames \cup {Absent},
   data : Datas \cup {Absent}, ttl : Int \cup {Absent}, mx : Int \cup {Absent}]

\* A ResourceSpec as a caller may write it; records is Absent when the key is
\* missing or is not an array.
Shape == [name : Domains \cup {Absent}, domain : Domains \cup {Absent},
          records : {Absent} \cup Seq(Entry)]

Record == [type : Types, name : HostNames, data : Datas, ttl : Int, mx : Int]

SpecDomain(s) == IF s.domain # Absent THEN s.domain ELSE s.name

DefaultTTL == 1800
MinTTL == 60

\* The slice the handler iterates: nil when the key is missing or mistyped.
RawRecords(s) == IF s.records = Absent THEN <<>> ELSE s.records

EntryValid(e) == e # NotAMap /\ Absent \notin {e.type, e.name, e.data}

\* Broken form: a missing or mistyped "records" passes for an empty list.
RecordsOptional(s) ==
  /\ SpecDomain(s) # Absent
  /\ \A i \in DOMAIN RawRecords(s) : EntryValid(RawRecords(s)[i])

\* parseDNSSpec accepts the spec.
SpecValid(s) ==
  /\ SpecDomain(s) # Absent
  /\ s.records # Absent
  /\ \A i \in DOMAIN RawRecords(s) : EntryValid(RawRecords(s)[i])

ParseTTL(ttl) ==
  LET asked == IF ttl = Absent THEN DefaultTTL ELSE ttl
  IN  IF asked < MinTTL THEN MinTTL ELSE asked

ParseRecordMap(e) ==
  [type |-> Upper(e.type), name |-> e.name, data |-> e.data,
   ttl |-> ParseTTL(e.ttl), mx |-> IF e.mx = Absent THEN 0 ELSE e.mx]

\* The records parseDNSSpec returns when SpecValid(s).
ParsedRecords(s) ==
  [i \in DOMAIN RawRecords(s) |-> ParseRecordMap(RawRecords(s)[i])]

-----------------------------------------------------------------------------
(* The SetHosts request and the outputs                                    *)

Host == [type : Types, name : HostNames, data : Datas, ttl : Int,
         mx : Int \cup {Absent}]

ASSUME RecordAssumption == Absent \notin Record \cup Host \cup Seq(Host)

\* Broken form: off by one.
MXUpTo256(recs) ==
  \A i \in DOMAIN recs : recs[i].type = MX => recs[i].mx \in 0..256

\* setHosts accepts the priorities.
MXInRange(recs) ==
  \A i \in DOMAIN recs : recs[i].type = MX => recs[i].mx \in 0..255

\* uint8(rec.MX), for MX records only.
HostRecords(recs) ==
  [i \in DOMAIN recs |-> [recs[i] EXCEPT
     !.mx = IF recs[i].type = MX THEN recs[i].mx % 256 ELSE Absent]]

\* Broken form: only the first record is looked at.
EmailTypeOfFirst(recs) ==
  IF recs # <<>> /\ recs[1].type = MX THEN "MX" ELSE "unset"

\* The nil EmailType leaves mail routing unset.
EmailType(recs) ==
  IF \E i \in DOMAIN recs : recs[i].type = MX THEN "MX" ELSE "unset"

\* What a SetHosts request puts in the place of the whole zone.
ZoneOf(recs) == [hosts |-> HostRecords(recs), email |-> EmailType(recs)]
EmptyZone == [hosts |-> <<>>, email |-> "unset"]

Contents == [hosts : Seq(Host), email : {"MX", "unset"}]

\* Broken forms: the two zones are not compared; they are compared by spelling.
AnyZone(current, s) == SpecValid(s)
SpelledAlike(current, s) == SpecValid(s) /\ SpecDomain(s) = current

\* Update refuses a spec that names another zone than the resource has.
UpdateAccepted(current, s) ==
  SpecValid(s) /\ Fold(SpecDomain(s)) = Fold(current)

\* Broken form: ProviderID is left empty.
OutputWithoutId(domain, recs) == [id |-> Absent, records |-> recs]

\* dnsOutputFromRecords: the output Create and Update answer with.
OutputFromRecords(domain, recs) ==
  [id |-> domain,
   records |-> [i \in DOMAIN recs |-> [recs[i] EXCEPT
     !.mx = IF recs[i].type = MX THEN recs[i].mx ELSE Absent]]]

\* What GetHosts reports of a zone's hosts (the Namecheap API, external).
Reported(hosts) ==
  [i \in DOMAIN hosts |-> [hosts[i] EXCEPT
     !.mx = IF hosts[i].mx = Absent THEN DefaultMXPref ELSE hosts[i].mx]]

\* dnsOutput: every field the API reports is copied, whatever the type.
OutputFromHosts(domain, reported) == [id |-> domain, records |-> reported]

\* Broken form: mx_pref is not read back.
RecordsWithoutPriority(out) ==
  [i \in DOMAIN out.records |-> [out.records[i] EXCEPT !.mx = 0]]

\* recordsFromOutputs: the records an output describes.
RecordsFromOutputs(out) ==
  [i \in DOMAIN out.records |-> [out.records[i] EXCEPT
     !.mx = IF out.records[i].mx = Absent THEN 0 ELSE out.records[i].mx]]

\* Two entries describe one and the same record, whatever its TTL and priority.
SameRecord(r, q) ==
  Upper(r.type) = Upper(q.type) /\ Lower(r.name) = Lower(q.name) /\ r.data = q.data

NamesEachOnce(recs) ==
  \A i, j \in DOMAIN recs : SameRecord(recs[i], recs[j]) => i = j

-----------------------------------------------------------------------------
(* Diff                                                                    *)

\* Broken form: host names are compared by spelling.
SpelledKey(r) == <<Upper(r.type), r.name, r.data>>

\* A tuple for the code's "TYPE/name/data": no type and no host name holds a
\* slash, so the string and the tuple tell the same records apart.
RecordKey(r) == <<Upper(r.type), Lower(r.name), r.data>>

Keys(recs) == {RecordKey(recs[i]) : i \in DOMAIN recs}

\* The Go map filled in order: of two records with one key the last stays.
Keyed(recs) ==
  [k \in Keys(recs) |->
     recs[CHOOSE i \in DOMAIN recs :
            /\ RecordKey(recs[i]) = k
            /\ \A j \in DOMAIN recs : RecordKey(recs[j]) = k => j <= i]]

RecordToMap(r) == [r EXCEPT !.mx = IF r.type = MX THEN r.mx ELSE Absent]

\* Broken forms: one of the two comparisons is missing.
DiffersInTTL(c, d) == c.ttl # d.ttl
DiffersInPriority(c, d) == c.mx # d.mx

\* What can still differ between two records with one key.
Differs(c, d) == c.ttl # d.ttl \/ c.mx # d.mx

DiffRecords(current, desired) ==
  LET cur == Keyed(current)
      des == Keyed(desired)
  IN {[path |-> k, old |-> Absent, new |-> RecordToMap(des[k])] :
         k \in DOMAIN des \ DOMAIN cur}
     \cup {[path |-> k, old |-> RecordToMap(cur[k]), new |-> RecordToMap(des[k])] :
         k \in {j \in DOMAIN des \cap DOMAIN cur : Differs(cur[j], des[j])}}
     \cup {[path |-> k, old |-> RecordToMap(cur[k]), new |-> Absent] :
         k \in DOMAIN cur \ DOMAIN des}

\* Broken form: the resource's name, for which the config's domain stands in, is
\* not considered.
NamesAnotherInConfig(spec, current) ==
  spec.domain # Absent /\ Fold(spec.domain) # Fold(current.id)

\* The spec names another zone than the output.
NamesAnother(spec, current) ==
  current.id # Absent /\ Fold(SpecDomain(spec)) # Fold(current.id)

\* DNSDriver.Diff: "error", "replace", "update" or "none".
Diff(spec, current) ==
  IF current = Absent THEN "update"
  ELSE IF ~SpecValid(spec) THEN "error"
  ELSE IF NamesAnother(spec, current) THEN "replace"
  ELSE IF DiffRecords(RecordsFromOutputs(current), ParsedRecords(spec)) = {}
       THEN "none"
  ELSE "update"
=============================================================================

-------------------------- MODULE DnsRecordsProofs --------------------------
(***************************************************************************)
(* Lemmas about the record algebra: what parsing, requests and outputs     *)
(* are made of, and when an output made from memory is what was written.   *)
(***************************************************************************)
EXTENDS DnsRecords, SequenceTheorems, TLAPS

\* uint8() keeps the priorities the range check lets through.
LEMMA ByteKeepsPriority == \A n \in 0..255 : n % 256 = n
OBVIOUS

\* A spec the parser accepts names a domain.
LEMMA DomainTyped ==
  ASSUME NEW s \in Shape, SpecValid(s)
  PROVE  SpecDomain(s) \in Domains /\ Fold(SpecDomain(s)) \in Zones
<1>1. {s.name, s.domain} \subseteq Domains \cup {Absent}
  BY DEF Shape
<1>2. SpecDomain(s) \in Domains \cup {Absent} /\ SpecDomain(s) # Absent
  BY <1>1 DEF SpecValid, SpecDomain
<1> QED BY <1>2 DEF Zones

\* One accepted config entry becomes one record of the canonical shape.
LEMMA ParsedTyped ==
  ASSUME NEW e \in Entry, EntryValid(e)
  PROVE  ParseRecordMap(e) \in Record
<1>1. e \in [type : Types \cup {Absent}, name : HostNames \cup {Absent},
             data : Datas \cup {Absent}, ttl : Int \cup {Absent}, mx : Int \cup {Absent}]
  BY DEF Entry, EntryValid
<1>2. e.type \in Types /\ e.name \in HostNames /\ e.data \in Datas
  BY <1>1 DEF EntryValid
<1>3. Upper(e.type) \in Types
  BY <1>2, SpellingAssumption
<1>4. ParseTTL(e.ttl) \in Int
  BY <1>1 DEF ParseTTL, DefaultTTL, MinTTL
<1>5. (IF e.mx = Absent THEN 0 ELSE e.mx) \in Int
  BY <1>1
<1> QED BY <1>2, <1>3, <1>4, <1>5 DEF ParseRecordMap, Record

\* The records of an accepted spec are a list of canonical records.
LEMMA RecordsTyped ==
  ASSUME NEW s \in Shape, SpecValid(s)
  PROVE  ParsedRecords(s) \in Seq(Record)
<1>1. RawRecords(s) \in Seq(Entry)
  BY DEF Shape, SpecValid, RawRecords
<1>2. DOMAIN RawRecords(s) = 1..Len(RawRecords(s)) /\ Len(RawRecords(s)) \in Nat
  BY <1>1
<1>3. \A i \in DOMAIN RawRecords(s) : RawRecords(s)[i] \in Entry /\ EntryValid(RawRecords(s)[i])
  BY <1>1, <1>2 DEF SpecValid
<1>4. \A i \in DOMAIN RawRecords(s) : ParseRecordMap(RawRecords(s)[i]) \in Record
  BY <1>3, ParsedTyped
<1>5. ParsedRecords(s) \in [1..Len(RawRecords(s)) -> Record]
  BY <1>2, <1>4 DEF ParsedRecords
<1> QED BY <1>2, <1>5, SeqDef

\* A SetHosts request built from canonical records is a well-formed zone.
LEMMA ZoneTyped ==
  ASSUME NEW recs \in Seq(Record)
  PROVE  ZoneOf(recs) \in Contents
<1>1. DOMAIN recs = 1..Len(recs) /\ Len(recs) \in Nat
  BY ElementOfSeq
<1>2. \A i \in DOMAIN recs : HostRecords(recs)[i] \in Host
  <2> SUFFICES ASSUME NEW i \in DOMAIN recs PROVE HostRecords(recs)[i] \in Host
    OBVIOUS
  <2>1. recs[i] \in Record
    BY <1>1, ElementOfSeq
  <2>2. recs[i].mx % 256 \in Int
    BY <2>1 DEF Record
  <2> QED BY <2>1, <2>2 DEF HostRecords, Record, Host
<1>3. HostRecords(recs) \in [1..Len(recs) -> Host]
  BY <1>1, <1>2 DEF HostRecords
<1>4. HostRecords(recs) \in Seq(Host)
  BY <1>1, <1>3, SeqDef
<1>5. EmailType(recs) \in {"MX", "unset"}
  BY DEF EmailType
<1> QED BY <1>4, <1>5 DEF ZoneOf, Contents

\* What GetHosts reports of a well-formed zone is a well-formed list of hosts.
LEMMA ReportedTyped ==
  ASSUME NEW hosts \in Seq(Host)
  PROVE  Reported(hosts) \in Seq(Host)
<1>1. DOMAIN hosts = 1..Len(hosts) /\ Len(hosts) \in Nat
  BY ElementOfSeq
<1>2. \A i \in DOMAIN hosts : Reported(hosts)[i] \in Host
  <2> SUFFICES ASSUME NEW i \in DOMAIN hosts PROVE Reported(hosts)[i] \in Host
    OBVIOUS
  <2>1. hosts[i] \in Host
    BY <1>1, ElementOfSeq
  <2>2. DefaultMXPref \in Int \cup {Absent}
    BY PrefAssumption
  <2> QED BY <2>1, <2>2 DEF Reported, Host
<1>3. Reported(hosts) \in [1..Len(hosts) -> Host]
  BY <1>1, <1>2 DEF Reported
<1> QED BY <1>1, <1>3, SeqDef

\* With every MX priority in 0..255 the conversion to a byte loses nothing: the
\* output made from memory lists the very hosts of the request.
LEMMA MemoryIsRequest ==
  ASSUME NEW recs \in Seq(Record), MXInRange(recs), NEW d
  PROVE  OutputFromRecords(d, recs).records = HostRecords(recs)
<1>1. DOMAIN recs = 1..Len(recs)
  BY ElementOfSeq
<1>2. ASSUME NEW i \in DOMAIN recs
      PROVE  OutputFromRecords(d, recs).records[i] = HostRecords(recs)[i]
  <2>1. CASE recs[i].type = MX
    <3>1. recs[i].mx \in 0..255
      BY <2>1 DEF MXInRange
    <3>2. recs[i].mx % 256 = recs[i].mx
      BY <3>1, ByteKeepsPriority
    <3> QED BY <2>1, <3>2 DEF OutputFromRecords, HostRecords
  <2>2. CASE recs[i].type # MX
    BY <2>2 DEF OutputFromRecords, HostRecords
  <2> QED BY <2>1, <2>2
<1>3. /\ OutputFromRecords(d, recs).records = [i \in DOMAIN recs |-> OutputFromRecords(d, recs).records[i]]
      /\ HostRecords(recs) = [i \in DOMAIN recs |-> HostRecords(recs)[i]]
  BY DEF OutputFromRecords, HostRecords
<1> QED BY <1>2, <1>3

\* The output made from memory is well formed.
LEMMA MemoryTyped ==
  ASSUME NEW recs \in Seq(Record), NEW d \in Domains
  PROVE  OutputFromRecords(d, recs) \in [id : Domains, records : Seq(Host)]
<1> DEFINE rs == OutputFromRecords(d, recs).records
<1>1. DOMAIN recs = 1..Len(recs) /\ Len(recs) \in Nat
  BY ElementOfSeq
<1>2. \A i \in DOMAIN recs : rs[i] \in Host
  <2> SUFFICES ASSUME NEW i \in DOMAIN recs PROVE rs[i] \in Host
    OBVIOUS
  <2>1. recs[i] \in Record
    BY <1>1, ElementOfSeq
  <2> QED BY <2>1 DEF OutputFromRecords, Record, Host
<1>3. rs \in [1..Len(recs) -> Host]
  BY <1>1, <1>2 DEF OutputFromRecords
<1>4. rs \in Seq(Host)
  BY <1>1, <1>3, SeqDef
<1> QED BY <1>4 DEF OutputFromRecords

-----------------------------------------------------------------------------
(* The comparison of two record lists                                      *)

\* The keys of diffRecords tell apart exactly what are different records.
LEMMA KeyIsRecord ==
  ASSUME NEW r, NEW q
  PROVE  RecordKey(r) = RecordKey(q) <=> SameRecord(r, q)
BY DEF RecordKey, SameRecord

\* In a list that names no record twice, the map of diffRecords hides nothing.
LEMMA KeyedIsRecord ==
  ASSUME NEW recs, DOMAIN recs \subseteq Int, NamesEachOnce(recs), NEW i \in DOMAIN recs
  PROVE  /\ RecordKey(recs[i]) \in Keys(recs)
         /\ Keyed(recs)[RecordKey(recs[i])] = recs[i]
<1> DEFINE k == RecordKey(recs[i])
           IsLast(m) == RecordKey(recs[m]) = k
                          /\ \A j \in DOMAIN recs : RecordKey(recs[j]) = k => j <= m
<1>1. k \in Keys(recs)
  BY DEF Keys
<1>2. \A m \in DOMAIN recs : RecordKey(recs[m]) = k => m = i
  BY KeyIsRecord DEF NamesEachOnce
<1>3. IsLast(i)
  BY <1>2
<1>4. (CHOOSE m \in DOMAIN recs : IsLast(m)) = i
  <2>1. \E m \in DOMAIN recs : IsLast(m)
    BY <1>3
  <2>2. \A m \in DOMAIN recs : IsLast(m) => m = i
    BY <1>2
  <2> HIDE DEF IsLast
  <2> QED BY <2>1, <2>2
<1> QED BY <1>1, <1>4 DEF Keyed

\* No changes: the same keys, and nothing that differs under any of them.
LEMMA QuietPairs ==
  ASSUME NEW current, NEW desired, DiffRecords(current, desired) = {}
  PROVE  /\ Keys(current) = Keys(desired)
         /\ \A k \in Keys(current) : ~Differs(Keyed(current)[k], Keyed(desired)[k])
<1>1. DOMAIN Keyed(current) = Keys(current) /\ DOMAIN Keyed(desired) = Keys(desired)
  BY DEF Keyed
<1>2. ASSUME NEW k \in Keys(desired), k \notin Keys(current)
      PROVE  FALSE
  BY <1>1, <1>2 DEF DiffRecords
<1>3. ASSUME NEW k \in Keys(current), k \notin Keys(desired)
      PROVE  FALSE
  BY <1>1, <1>3 DEF DiffRecords
<1>4. ASSUME NEW k \in Keys(current), k \in Keys(desired),
             Differs(Keyed(current)[k], Keyed(desired)[k])
      PROVE  FALSE
  BY <1>1, <1>4 DEF DiffRecords
<1> QED BY <1>2, <1>3, <1>4

\* With equal keys on both sides, every change is an update of one of them.
LEMMA ChangeOfPair ==
  ASSUME NEW current, NEW desired, Keys(current) = Keys(desired),
         NEW ch \in DiffRecords(current, desired)
  PROVE  \E k \in Keys(current) :
           /\ Differs(Keyed(current)[k], Keyed(desired)[k])
           /\ ch.old = RecordToMap(Keyed(current)[k])
           /\ ch.new = RecordToMap(Keyed(desired)[k])
<1>1. DOMAIN Keyed(current) = Keys(current) /\ DOMAIN Keyed(desired) = Keys(desired)
  BY DEF Keyed
<1> QED BY <1>1 DEF DiffRecords

\* Of two lists that name no record twice: no changes means that each record has
\* its like, of equal TTL and priority, in the other list.
LEMMA QuietPairing ==
  ASSUME NEW current, NEW desired,
         DOMAIN current \subseteq Int, DOMAIN desired \subseteq Int,
         NamesEachOnce(current), NamesEachOnce(desired),
         DiffRecords(current, desired) = {}
  PROVE  /\ \A i \in DOMAIN current : \E j \in DOMAIN desired :
              SameRecord(current[i], desired[j]) /\ ~Differs(current[i], desired[j])
         /\ \A j \in DOMAIN desired : \E i \in DOMAIN current :
              SameRecord(current[i], desired[j]) /\ ~Differs(current[i], desired[j])
<1>1. Keys(current) = Keys(desired)
  BY QuietPairs
<1>2. ASSUME NEW i \in DOMAIN current, NEW j \in DOMAIN desired,
             RecordKey(current[i]) = RecordKey(desired[j])
      PROVE  SameRecord(current[i], desired[j]) /\ ~Differs(current[i], desired[j])
  <2> DEFINE k == RecordKey(current[i])
  <2>1. k \in Keys(current) /\ Keyed(current)[k] = current[i]
    BY KeyedIsRecord
  <2>2. Keyed(desired)[k] = desired[j]
    BY <1>2, KeyedIsRecord
  <2> HIDE DEF k
  <2> QED BY <1>2, <2>1, <2>2, QuietPairs, KeyIsRecord
<1>3. \A i \in DOMAIN current : \E j \in DOMAIN desired : RecordKey(current[i]) = RecordKey(desired[j])
  BY <1>1 DEF Keys
<1>4. \A j \in DOMAIN desired : \E i \in DOMAIN current : RecordKey(current[i]) = RecordKey(desired[j])
  BY <1>1 DEF Keys
<1> QED BY <1>2, <1>3, <1>4

\* If each record of either list has its like in the other, all changes are
\* updates of a record that differs in TTL or priority from its like.
LEMMA ChangePairing ==
  ASSUME NEW current, NEW desired,
         DOMAIN current \subseteq Int, DOMAIN desired \subseteq Int,
         NamesEachOnce(current), NamesEachOnce(desired),
         \A i \in DOMAIN current : \E j \in DOMAIN desired : SameRecord(current[i], desired[j]),
         \A j \in DOMAIN desired : \E i \in DOMAIN current : SameRecord(current[i], desired[j]),
         NEW ch \in DiffRecords(current, desired)
  PROVE  \E i \in DOMAIN current, j \in DOMAIN desired :
           /\ SameRecord(current[i], desired[j]) /\ Differs(current[i], desired[j])
           /\ ch.old = RecordToMap(current[i]) /\ ch.new = RecordToMap(desired[j])
<1>1. Keys(current) = Keys(desired)
  BY KeyIsRecord DEF Keys
<1>2. PICK k \in Keys(current) :
        /\ Differs(Keyed(current)[k], Keyed(desired)[k])
        /\ ch.old = RecordToMap(Keyed(current)[k])
        /\ ch.new = RecordToMap(Keyed(desired)[k])
  BY <1>1, ChangeOfPair
<1>3. PICK i \in DOMAIN current, j \in DOMAIN desired :
        RecordKey(current[i]) = k /\ RecordKey(desired[j]) = k
  BY <1>1 DEF Keys
<1>4. Keyed(current)[k] = current[i] /\ Keyed(desired)[k] = desired[j]
  BY <1>3, KeyedIsRecord
<1>5. SameRecord(current[i], desired[j])
  BY <1>3, KeyIsRecord
<1> QED BY <1>2, <1>4, <1>5

\* The records an output describes are its hosts, a missing priority read as 0.
LEMMA OutputRecords ==
  ASSUME NEW out \in [id : Domains, records : Seq(Host)]
  PROVE  LET recs == RecordsFromOutputs(out)
         IN  /\ recs \in Seq(Record) /\ DOMAIN recs = DOMAIN out.records
             /\ \A i \in DOMAIN recs :
                  /\ SameRecord(recs[i], out.records[i])
                  /\ recs[i].type = out.records[i].type /\ recs[i].ttl = out.records[i].ttl
                  /\ out.records[i].mx # Absent => recs[i].mx = out.records[i].mx
<1> DEFINE recs == RecordsFromOutputs(out)
<1>1. out.records \in Seq(Host)
  OBVIOUS
<1>2. DOMAIN out.records = 1..Len(out.records) /\ Len(out.records) \in Nat
  BY <1>1, ElementOfSeq
<1>3. DOMAIN recs = DOMAIN out.records
  BY DEF RecordsFromOutputs
<1>4. ASSUME NEW i \in DOMAIN recs
      PROVE  /\ recs[i] \in Record
             /\ SameRecord(recs[i], out.records[i])
             /\ recs[i].type = out.records[i].type /\ recs[i].ttl = out.records[i].ttl
             /\ out.records[i].mx # Absent => recs[i].mx = out.records[i].mx
  <2>1. out.records[i] \in Host
    BY <1>1, <1>2, <1>3, ElementOfSeq
  <2>2. recs[i] = [out.records[i] EXCEPT
                     !.mx = IF out.records[i].mx = Absent THEN 0 ELSE out.records[i].mx]
    BY <1>3 DEF RecordsFromOutputs
  <2>3. ASSUME NEW h \in Host, NEW r, r = [h EXCEPT !.mx = IF h.mx = Absent THEN 0 ELSE h.mx]
        PROVE  /\ r \in Record /\ SameRecord(r, h) /\ r.type = h.type /\ r.ttl = h.ttl
               /\ h.mx # Absent => r.mx = h.mx
    BY <2>3 DEF Host, Record, SameRecord
  <2> HIDE DEF recs
  <2> QED BY <2>1, <2>2, <2>3
<1>5. recs \in [1..Len(out.records) -> Record]
  BY <1>2, <1>3, <1>4 DEF RecordsFromOutputs
<1>6. recs \in Seq(Record)
  BY <1>2, <1>5, SeqDef
<1> QED BY <1>3, <1>4, <1>6

\* What GetHosts reports are the zone's hosts, save for a missing priority.
LEMMA ReportedHosts ==
  ASSUME NEW hosts \in Seq(Host)
  PROVE  /\ DOMAIN Reported(hosts) = DOMAIN hosts
         /\ \A i \in DOMAIN hosts :
              /\ SameRecord(Reported(hosts)[i], hosts[i])
              /\ Reported(hosts)[i].type = hosts[i].type
              /\ Reported(hosts)[i].ttl = hosts[i].ttl
              /\ hosts[i].mx # Absent => Reported(hosts)[i].mx = hosts[i].mx
<1>1. ASSUME NEW i \in DOMAIN hosts
      PROVE  hosts[i] \in Host
  BY ElementOfSeq
<1> QED BY <1>1 DEF Reported, Host, SameRecord

\* The hosts of a request: the records, in upper case as they were parsed.
LEMMA RequestHosts ==
  ASSUME NEW s \in Shape, SpecValid(s), NEW i \in DOMAIN ParsedRecords(s)
  PROVE  LET r == ParsedRecords(s)[i]
         IN  /\ r \in Record /\ Upper(r.type) = r.type
             /\ i \in DOMAIN HostRecords(ParsedRecords(s))
             /\ HostRecords(ParsedRecords(s))[i].type = r.type
             /\ r.type = MX => HostRecords(ParsedRecords(s))[i].mx # Absent
<1> DEFINE r == ParsedRecords(s)[i]
<1>1. ParsedRecords(s) \in Seq(Record)
  BY RecordsTyped
<1>2. r \in Record
  BY <1>1, ElementOfSeq
<1>3. Upper(r.type) = r.type
  <2>1. RawRecords(s) \in Seq(Entry) /\ i \in DOMAIN RawRecords(s)
    BY DEF Shape, SpecValid, RawRecords, ParsedRecords
  <2>2. RawRecords(s)[i] \in Entry /\ EntryValid(RawRecords(s)[i])
    BY <2>1, ElementOfSeq DEF SpecValid
  <2>3. RawRecords(s)[i].type \in Types
    BY <2>2 DEF Entry, EntryValid
  <2>4. r.type = Upper(RawRecords(s)[i].type)
    BY <2>1 DEF ParsedRecords, ParseRecordMap
  <2> QED BY <2>3, <2>4, SpellingAssumption
<1>4. HostRecords(ParsedRecords(s))[i] =
        [r EXCEPT !.mx = IF r.type = MX THEN r.mx % 256 ELSE Absent]
  BY DEF HostRecords
<1>5. r.mx % 256 \in Int
  BY <1>2 DEF Record
<1>6. Absent \notin Int
  BY SentinelAssumption
<1>7. i \in DOMAIN HostRecords(ParsedRecords(s))
  BY DEF HostRecords
<1> HIDE DEF r
<1>8. HostRecords(ParsedRecords(s))[i].type = r.type
  BY <1>2, <1>4 DEF Record
<1>9. r.type = MX => HostRecords(ParsedRecords(s))[i].mx # Absent
  BY <1>2, <1>4, <1>5, <1>6 DEF Record
<1> QED BY <1>2, <1>3, <1>7, <1>8, <1>9 DEF r
=============================================================================

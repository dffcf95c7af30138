---------------------------- MODULE DnsDiffProofs ----------------------------
(***************************************************************************)
(* diffRecords computes a patch, and the empty one exactly when both lists *)
(* say the same, for lists of any length over any records.                 *)
(*                                                                         *)
(* That a map filled in order holds, under each key, the last record of    *)
(* that key needs the last one to exist: an induction on the length of the *)
(* list, which is the induction over the steps of Spec, as lists grow by   *)
(* one record a step.                                                      *)
(***************************************************************************)
EXTENDS DnsWire, DnsRecordsProofs, WellFoundedInduction

Lists ==
  /\ current \in Seq(Pool) /\ Len(current) <= MaxLength
  /\ desired \in Seq(Pool) /\ Len(desired) <= MaxLength

\* Of the records with one key there is a last.
HasLast(recs) ==
  \A k \in Keys(recs) : \E i \in DOMAIN recs :
    RecordKey(recs[i]) = k /\ \A j \in DOMAIN recs : RecordKey(recs[j]) = k => j <= i

IInv == Lists /\ HasLast(current) /\ HasLast(desired)

\* A list that is one record longer still has a last record of each key.
LEMMA LongerHasLast ==
  ASSUME NEW recs \in Seq(Pool), HasLast(recs), NEW r \in Pool
  PROVE  HasLast(Append(recs, r))
<1> DEFINE long == Append(recs, r)
<1>1. /\ Len(recs) \in Nat /\ DOMAIN recs = 1..Len(recs)
      /\ DOMAIN long = 1..(Len(recs) + 1)
      /\ long[Len(recs) + 1] = r
      /\ \A i \in DOMAIN recs : long[i] = recs[i]
  OBVIOUS
<1> HIDE DEF long
<1> SUFFICES ASSUME NEW k \in Keys(long)
             PROVE  \E i \in DOMAIN long :
                      /\ RecordKey(long[i]) = k
                      /\ \A j \in DOMAIN long : RecordKey(long[j]) = k => j <= i
  BY DEF HasLast, long
<1>2. CASE k = RecordKey(r)
  <2>1. Len(recs) + 1 \in DOMAIN long /\ \A j \in DOMAIN long : j <= Len(recs) + 1
    BY <1>1
  <2> QED BY <1>1, <1>2, <2>1
<1>3. CASE k # RecordKey(r)
  <2>1. \A j \in DOMAIN long :
          RecordKey(long[j]) = k => j \in DOMAIN recs /\ RecordKey(recs[j]) = k
    <3> SUFFICES ASSUME NEW j \in DOMAIN long, RecordKey(long[j]) = k
                 PROVE  j \in DOMAIN recs /\ RecordKey(recs[j]) = k
      OBVIOUS
    <3>1. j # Len(recs) + 1
      BY <1>1, <1>3
    <3>2. j \in DOMAIN recs
      BY <1>1, <3>1
    <3> QED BY <1>1, <3>2
  <2>2. k \in Keys(recs)
    BY <2>1 DEF Keys
  <2>3. PICK i \in DOMAIN recs :
          /\ RecordKey(recs[i]) = k
          /\ \A j \in DOMAIN recs : RecordKey(recs[j]) = k => j <= i
    BY <2>2 DEF HasLast
  <2>4. i \in DOMAIN long /\ long[i] = recs[i]
    BY <1>1
  <2> QED BY <2>1, <2>3, <2>4
<1> QED BY <1>2, <1>3

\* The map of diffRecords holds, under each key, a record of that key.
LEMMA KeyedTyped ==
  ASSUME NEW recs \in Seq(Pool), HasLast(recs), NEW k \in Keys(recs)
  PROVE  Keyed(recs)[k] \in Pool /\ RecordKey(Keyed(recs)[k]) = k
<1> DEFINE IsLast(m) == RecordKey(recs[m]) = k
                          /\ \A j \in DOMAIN recs : RecordKey(recs[j]) = k => j <= m
           last == CHOOSE m \in DOMAIN recs : IsLast(m)
<1>1. \E m \in DOMAIN recs : IsLast(m)
  BY DEF HasLast
<1>2. last \in DOMAIN recs /\ IsLast(last)
  <2> HIDE DEF IsLast
  <2> QED BY <1>1
<1>3. Keyed(recs)[k] = recs[last]
  BY DEF Keyed
<1> HIDE DEF last
<1>4. recs[last] \in Pool
  BY <1>2, ElementOfSeq
<1> QED BY <1>2, <1>3, <1>4

\* A record is shown with its own TTL; of two records with one key that differ in
\* neither TTL nor priority the same is shown.
LEMMA ShownRecord ==
  ASSUME NEW r \in Pool
  PROVE  /\ RecordToMap(r) # Absent
         /\ \A q \in Pool : RecordKey(r) = RecordKey(q) /\ ~Differs(r, q)
              => \A k : Entered(k, RecordToMap(r)) = Entered(k, RecordToMap(q))
<1>1. r \in Record /\ Upper(r.type) = r.type
  BY PoolAssumption
<1>2. RecordToMap(r) \in Host
  BY <1>1 DEF RecordToMap, Record, Host
<1>3. ASSUME NEW q \in Pool, RecordKey(r) = RecordKey(q), ~Differs(r, q), NEW k
      PROVE  Entered(k, RecordToMap(r)) = Entered(k, RecordToMap(q))
  <2>1. q \in Record /\ Upper(q.type) = q.type
    BY PoolAssumption
  <2>2. r.type = q.type
    BY <1>1, <1>3, <2>1, KeyIsRecord DEF SameRecord
  <2>3. r.ttl = q.ttl /\ r.mx = q.mx
    BY <1>3 DEF Differs
  <2>4. RecordToMap(r).ttl = RecordToMap(q).ttl /\ RecordToMap(r).mx = RecordToMap(q).mx
    BY <1>1, <2>1, <2>2, <2>3 DEF RecordToMap, Record
  <2> QED BY <2>4 DEF Entered
<1> QED BY <1>2, <1>3, RecordAssumption

\* What the changes take away, and what they bring.
LEMMA ChangesByKey ==
  ASSUME IInv
  PROVE  LET cur == Keyed(current)
             des == Keyed(desired)
             common == Keys(current) \cap Keys(desired)
             differing == {k \in common : Differs(cur[k], des[k])}
         IN  /\ {Entered(ch.path, ch.old) : ch \in {x \in Changes : x.old # Absent}}
                  = {Entered(k, RecordToMap(cur[k])) :
                       k \in differing \cup (Keys(current) \ Keys(desired))}
             /\ {Entered(ch.path, ch.new) : ch \in {x \in Changes : x.new # Absent}}
                  = {Entered(k, RecordToMap(des[k])) :
                       k \in differing \cup (Keys(desired) \ Keys(current))}
<1> DEFINE cur == Keyed(current)
           des == Keyed(desired)
           differing == {k \in Keys(current) \cap Keys(desired) : Differs(cur[k], des[k])}
           Taken == {x \in Changes : x.old # Absent}
           Brought == {x \in Changes : x.new # Absent}
           Add(k) == [path |-> k, old |-> Absent, new |-> RecordToMap(des[k])]
           Upd(k) == [path |-> k, old |-> RecordToMap(cur[k]), new |-> RecordToMap(des[k])]
           Del(k) == [path |-> k, old |-> RecordToMap(cur[k]), new |-> Absent]
<1>1. DOMAIN cur = Keys(current) /\ DOMAIN des = Keys(desired)
  BY DEF Keyed
<1>2. \A k \in Keys(current) : RecordToMap(cur[k]) # Absent
  BY KeyedTyped, ShownRecord DEF IInv, Lists
<1>3. \A k \in Keys(desired) : RecordToMap(des[k]) # Absent
  BY KeyedTyped, ShownRecord DEF IInv, Lists
<1>4. Changes = {Add(k) : k \in Keys(desired) \ Keys(current)}
                  \cup {Upd(k) : k \in differing}
                  \cup {Del(k) : k \in Keys(current) \ Keys(desired)}
  BY <1>1 DEF Changes, DiffRecords
<1>5. Taken = {Upd(k) : k \in differing} \cup {Del(k) : k \in Keys(current) \ Keys(desired)}
  <2> HIDE DEF cur, des
  <2> QED BY <1>2, <1>4
<1>6. Brought = {Upd(k) : k \in differing} \cup {Add(k) : k \in Keys(desired) \ Keys(current)}
  <2> HIDE DEF cur, des
  <2> QED BY <1>3, <1>4
<1>7. {Entered(ch.path, ch.old) : ch \in Taken}
        = {Entered(k, RecordToMap(cur[k])) : k \in differing \cup (Keys(current) \ Keys(desired))}
  <2>1. \A ch \in Taken : \E k \in differing \cup (Keys(current) \ Keys(desired)) :
          ch.path = k /\ ch.old = RecordToMap(cur[k])
    BY <1>5
  <2>2. \A k \in differing \cup (Keys(current) \ Keys(desired)) : \E ch \in Taken :
          ch.path = k /\ ch.old = RecordToMap(cur[k])
    <3>1. /\ \A k \in differing : Upd(k) \in Taken
          /\ \A k \in Keys(current) \ Keys(desired) : Del(k) \in Taken
      BY <1>5
    <3>2. \A k : /\ Upd(k).path = k /\ Upd(k).old = RecordToMap(cur[k])
                 /\ Del(k).path = k /\ Del(k).old = RecordToMap(cur[k])
      OBVIOUS
    <3> HIDE DEF Upd, Del, Taken, differing, cur, des
    <3> QED BY <3>1, <3>2
  <2> HIDE DEF cur, des, differing, Taken
  <2> QED BY <2>1, <2>2
<1>8. {Entered(ch.path, ch.new) : ch \in Brought}
        = {Entered(k, RecordToMap(des[k])) : k \in differing \cup (Keys(desired) \ Keys(current))}
  <2>1. \A ch \in Brought : \E k \in differing \cup (Keys(desired) \ Keys(current)) :
          ch.path = k /\ ch.new = RecordToMap(des[k])
    BY <1>6
  <2>2. \A k \in differing \cup (Keys(desired) \ Keys(current)) : \E ch \in Brought :
          ch.path = k /\ ch.new = RecordToMap(des[k])
    <3>1. /\ \A k \in differing : Upd(k) \in Brought
          /\ \A k \in Keys(desired) \ Keys(current) : Add(k) \in Brought
      BY <1>6
    <3>2. \A k : /\ Upd(k).path = k /\ Upd(k).new = RecordToMap(des[k])
                 /\ Add(k).path = k /\ Add(k).new = RecordToMap(des[k])
      OBVIOUS
    <3> HIDE DEF Upd, Add, Brought, differing, cur, des
    <3> QED BY <3>1, <3>2
  <2> HIDE DEF cur, des, differing, Brought
  <2> QED BY <2>1, <2>2
<1> QED BY <1>7, <1>8

-----------------------------------------------------------------------------
(* An output on the wire                                                   *)

\* Induction over the numbers, for a property given as the set of those that have it.
LEMMA NumberInduction ==
  ASSUME NEW S, 0 \in S, \A n \in Nat : n \in S => n + 1 \in S
  PROVE  \A n \in Nat : n \in S
<1> SUFFICES ASSUME Nat \ S # {} PROVE FALSE
  OBVIOUS
<1>1. \E x \in Nat \ S : \A y \in Nat \ S : ~ (<<y, x>> \in OpToRel(<, Nat))
  BY NatLessThanWellFounded, WFMin
<1>2. PICK x \in Nat \ S : \A y \in Nat \ S : ~ (y < x)
  BY <1>1 DEF OpToRel
<1>3. x - 1 \in Nat \ S
  BY <1>2
<1> QED BY <1>2, <1>3

\* The records of an output that has all it counts are those under its keys.
LEMMA NumberedAll ==
  ASSUME NEW outputs, NEW count \in Nat, \A n \in 1..count : IsMap(Field(outputs, Key(n)))
  PROVE  Numbered(outputs, count) = [n \in 1..count |-> Field(outputs, Key(n))]
<1> DEFINE At(n) == Field(outputs, Key(n))
           Step(f, n) == IF n = 0 THEN <<>>
                         ELSE IF IsMap(At(n)) THEN Append(f[n - 1], At(n)) ELSE f[n - 1]
           IsLoop(f) == f = [n \in 0..count |-> Step(f, n)]
           g == [n \in 0..count |-> [i \in 1..n |-> At(i)]]
           found == CHOOSE f : IsLoop(f)
<1>1. Numbered(outputs, count) = found[count]
  BY Zenon DEF Numbered
<1>2. \A n \in Nat : Append([i \in 1..n |-> At(i)], At(n + 1)) = [i \in 1..(n + 1) |-> At(i)]
  <2> HIDE DEF At
  <2> SUFFICES ASSUME NEW n \in Nat
               PROVE  Append([i \in 1..n |-> At(i)], At(n + 1)) = [i \in 1..(n + 1) |-> At(i)]
    OBVIOUS
  <2>1. [i \in 1..n |-> At(i)] \in Seq({At(i) : i \in 1..n})
    OBVIOUS
  <2>2. Len([i \in 1..n |-> At(i)]) = n
    OBVIOUS
  <2> QED BY <2>1, <2>2
<1>3. IsLoop(g)
  <2>1. \A n \in 0..count : g[n] = Step(g, n)
    <3> SUFFICES ASSUME NEW n \in 0..count PROVE g[n] = Step(g, n)
      OBVIOUS
    <3>1. CASE n = 0
      BY <3>1
    <3>2. CASE n # 0
      <4>1. n - 1 \in 0..count /\ n \in 1..count /\ (n - 1) + 1 = n
        BY <3>2
      <4>2. g[n] = [i \in 1..n |-> At(i)] /\ g[n - 1] = [i \in 1..(n - 1) |-> At(i)]
        BY <4>1
      <4>3. Append([i \in 1..(n - 1) |-> At(i)], At(n)) = [i \in 1..n |-> At(i)]
        BY <1>2, <4>1
      <4>4. IsMap(At(n))
        BY <4>1
      <4> HIDE DEF g, At
      <4> QED BY <3>2, <4>2, <4>3, <4>4
    <3> QED BY <3>1, <3>2
  <2>2. g = [n \in 0..count |-> g[n]]
    OBVIOUS
  <2> HIDE DEF g, Step
  <2> QED BY <2>1, <2>2
<1>4. IsLoop(found)
  <2> HIDE DEF g, IsLoop
  <2> QED BY <1>3, Zenon
<1>5. \A n \in 0..count : found[n] = Step(found, n)
  <2> HIDE DEF found, Step
  <2> QED BY <1>4
<1> HIDE DEF found
<1>6. \A n \in Nat : n <= count => found[n] = g[n]
  <2> DEFINE S == {m \in Nat : m <= count => found[m] = g[m]}
  <2>1. 0 \in S
    BY <1>5
  <2>2. ASSUME NEW n \in Nat, n \in S PROVE n + 1 \in S
    <3> SUFFICES ASSUME n + 1 <= count PROVE found[n + 1] = g[n + 1]
      OBVIOUS
    <3>1. n + 1 \in 1..count /\ n + 1 \in 0..count /\ n \in 0..count /\ n + 1 # 0 /\ (n + 1) - 1 = n
      OBVIOUS
    <3>2. found[n] = g[n]
      BY <2>2
    <3>3. IsMap(At(n + 1))
      BY <3>1
    <3>4. found[n + 1] = Append(found[n], At(n + 1))
      <4> HIDE DEF At
      <4> QED BY <1>5, <3>1, <3>3
    <3>5. g[n + 1] = Append(g[n], At(n + 1))
      BY <1>2, <3>1
    <3> HIDE DEF g, At
    <3> QED BY <3>2, <3>4, <3>5
  <2> HIDE DEF S
  <2>3. \A n \in Nat : n \in S
    BY <2>1, <2>2, NumberInduction
  <2> QED BY <2>3 DEF S
<1>7. found[count] = g[count]
  <2> HIDE DEF g
  <2> QED BY <1>6
<1> QED BY <1>1, <1>7

\* JSON leaves text and what is missing alone, and makes a float64 of a number.
LEMMA JsonOfPlain ==
  /\ \A s : /\ JsonPlain(Text(s)) = Text(s)
           /\ JsonRecord(Text(s)) = Text(s)
           /\ JsonRecords(Text(s)) = Text(s)
  /\ \A n : /\ JsonPlain(Number(n)) = [kind |-> "float64", val |-> n]
           /\ JsonRecords(Number(n)) = [kind |-> "float64", val |-> n]
  /\ JsonPlain(Missing) = Missing
  /\ JsonRecord(Missing) = Missing
  /\ JsonRecords(Missing) = Missing
BY DEF JsonPlain, JsonRecord, JsonRecords, Layer, Text, Number, Missing

\* JSON keeps the keys of a map.
LEMMA JsonOfMap ==
  ASSUME NEW m, IsMap(m), NEW k
  PROVE  /\ IsMap(JsonRecord(m)) /\ Field(JsonRecord(m), k) = JsonPlain(Field(m, k))
         /\ IsMap(JsonRecords(m)) /\ Field(JsonRecords(m), k) = JsonRecord(Field(m, k))
         /\ IsMap(Json(m)) /\ Field(Json(m), k) = JsonRecords(Field(m, k))
<1>1. /\ JsonRecord(m) = Map([j \in DOMAIN m.val |-> JsonPlain(m.val[j])])
      /\ JsonRecords(m) = Map([j \in DOMAIN m.val |-> JsonRecord(m.val[j])])
      /\ Json(m) = Map([j \in DOMAIN m.val |-> JsonRecords(m.val[j])])
  BY DEF IsMap, JsonRecord, JsonRecords, Json, Layer
<1>2. \A f : IsMap(Map(f)) /\ Map(f).val = f
  BY DEF IsMap, Map
<1> QED BY <1>1, <1>2, JsonOfPlain DEF Field

\* What the keys of an output's record hold.
LEMMA RecordFields ==
  ASSUME NEW r \in Host
  PROVE  LET e == OutputRecord(r)
         IN  /\ IsMap(e)
             /\ Field(e, "type") = Text(r.type) /\ Field(e, "name") = Text(r.name)
             /\ Field(e, "address") = Text(r.data) /\ Field(e, "ttl") = Number(r.ttl)
             /\ Field(e, "mx_pref") = IF r.mx = Absent THEN Missing ELSE Number(r.mx)
             /\ DOMAIN e.val = {"type", "name", "address", "ttl"}
                                 \cup IF r.mx = Absent THEN {} ELSE {"mx_pref"}
BY DEF OutputRecord, IsMap, Map, Field

\* What the keys of an output hold: a record each, and their number.
LEMMA OutputFields ==
  ASSUME NEW out \in [id : Domains, records : Seq(Host)], Len(out.records) <= MaxLength
  PROVE  LET m == Outputs(out)
         IN  /\ IsMap(m)
             /\ Field(m, "domain") = Text(out.id)
             /\ Field(m, "record_count") = Number(Len(out.records))
             /\ \A i \in 1..Len(out.records) : Field(m, Key(i)) = OutputRecord(out.records[i])
<1> DEFINE recs == out.records
           always == [domain |-> Text(out.id), record_count |-> Number(Len(recs))]
           At(k) == recs[CHOOSE i \in DOMAIN recs : Key(i) = k]
           numbered == {Key(i) : i \in DOMAIN recs}
           all == [k \in DOMAIN always \cup numbered |->
                     IF k \in DOMAIN always THEN always[k] ELSE OutputRecord(At(k))]
<1>1. Outputs(out) = Map(all)
  BY DEF Outputs
<1>2. DOMAIN recs = 1..Len(recs) /\ Len(recs) \in Nat /\ MaxLength \in Nat
  BY PoolAssumption
<1>3. \A i \in DOMAIN recs : i \in 1..MaxLength
  BY <1>2
<1>4. \A i \in DOMAIN recs : Key(i) \notin {"domain", "record_count"}
  BY <1>3, KeyAssumption
<1>5. \A i \in DOMAIN recs : At(Key(i)) = recs[i]
  <2> SUFFICES ASSUME NEW i \in DOMAIN recs PROVE At(Key(i)) = recs[i]
    OBVIOUS
  <2>1. \A j \in DOMAIN recs : Key(j) = Key(i) => j = i
    BY <1>3, KeyAssumption
  <2> QED BY <2>1
<1>6. /\ DOMAIN all = {"domain", "record_count"} \cup numbered
      /\ all["domain"] = Text(out.id) /\ all["record_count"] = Number(Len(recs))
      /\ \A k \in numbered : k \notin {"domain", "record_count"} => all[k] = OutputRecord(At(k))
  <2> HIDE DEF At, numbered
  <2> QED OBVIOUS
<1>7. \A i \in DOMAIN recs : all[Key(i)] = OutputRecord(recs[i])
  <2> HIDE DEF all, At
  <2> QED BY <1>4, <1>5, <1>6
<1>8. \A f, k : IsMap(Map(f)) /\ (k \in DOMAIN f => Field(Map(f), k) = f[k])
  BY DEF IsMap, Map, Field
<1> HIDE DEF all, At
<1> QED BY <1>1, <1>2, <1>6, <1>7, <1>8

\* e holds what recordsFromOutputs takes for the record r.
Describes(e, r) ==
  /\ IsMap(e)
  /\ StringOf(Field(e, "type")) = r.type /\ StringOf(Field(e, "name")) = r.name
  /\ StringOf(Field(e, "address")) = r.data /\ IntOf(Field(e, "ttl"), 0) = r.ttl
  /\ IntOf(Field(e, "mx_pref"), 0) = IF r.mx = Absent THEN 0 ELSE r.mx

\* A record of an output holds the record before its trip and after.
LEMMA RecordDescribed ==
  ASSUME NEW r \in Host
  PROVE  Describes(OutputRecord(r), r) /\ Describes(JsonRecords(OutputRecord(r)), r)
<1> DEFINE e == OutputRecord(r)
           j == JsonRecords(e)
<1>1. /\ IsMap(e)
      /\ Field(e, "type") = Text(r.type) /\ Field(e, "name") = Text(r.name)
      /\ Field(e, "address") = Text(r.data) /\ Field(e, "ttl") = Number(r.ttl)
      /\ Field(e, "mx_pref") = IF r.mx = Absent THEN Missing ELSE Number(r.mx)
  BY RecordFields
<1> HIDE DEF e
<1>2. IsMap(j) /\ \A k : Field(j, k) = JsonRecord(Field(e, k))
  BY <1>1, JsonOfMap
<1> HIDE DEF j
<1>3. \A n : JsonRecord(Number(n)) = [kind |-> "float64", val |-> n]
  BY DEF JsonRecord, Layer, Number
<1>4. /\ \A s : StringOf(Text(s)) = s
      /\ \A n : IntOf(Number(n), 0) = n /\ IntOf([kind |-> "float64", val |-> n], 0) = n
      /\ IntOf(Missing, 0) = 0
  BY DEF StringOf, IntOf, Text, Number, Missing
<1>5. Describes(e, r)
  BY <1>1, <1>4 DEF Describes
<1>6. Describes(j, r)
  BY <1>1, <1>2, <1>3, <1>4, JsonOfPlain DEF Describes
<1> QED BY <1>5, <1>6 DEF e, j

\* Who counts right and finds each record reads the records of the output.
LEMMA RecordsReadOf ==
  ASSUME NEW out \in [id : Domains, records : Seq(Host)], NEW m,
         IntOf(Field(m, "record_count"), 0) = Len(out.records),
         \A i \in 1..Len(out.records) : Describes(Field(m, Key(i)), out.records[i])
  PROVE  RecordsRead(m) = RecordsFromOutputs(out)
<1> DEFINE recs == out.records
           n == Len(recs)
           e(i) == Field(m, Key(i))
           Read(x) == [type |-> StringOf(Field(x, "type")), name |-> StringOf(Field(x, "name")),
                       data |-> StringOf(Field(x, "address")), ttl |-> IntOf(Field(x, "ttl"), 0),
                       mx |-> IntOf(Field(x, "mx_pref"), 0)]
           Kept(r) == [r EXCEPT !.mx = IF r.mx = Absent THEN 0 ELSE r.mx]
<1>1. n \in Nat /\ DOMAIN recs = 1..n /\ \A i \in 1..n : recs[i] \in Host
  BY ElementOfSeq
<1>2. Numbered(m, n) = [i \in 1..n |-> e(i)]
  BY <1>1, NumberedAll DEF Describes
<1>3. \A i \in 1..n : Read(e(i)) = Kept(recs[i])
  <2> SUFFICES ASSUME NEW i \in 1..n PROVE Read(e(i)) = Kept(recs[i])
    OBVIOUS
  <2>1. Describes(e(i), recs[i])
    OBVIOUS
  <2>2. ASSUME NEW x, NEW r \in Host, Describes(x, r) PROVE Read(x) = Kept(r)
    BY <2>2 DEF Describes, Host
  <2> HIDE DEF e, Read, Kept, recs
  <2> QED BY <1>1, <2>1, <2>2
<1>4. RecordsRead(m) = [i \in DOMAIN Numbered(m, n) |-> Read(Numbered(m, n)[i])]
  BY DEF RecordsRead
<1>5. RecordsFromOutputs(out) = [i \in 1..n |-> Kept(recs[i])]
  BY <1>1 DEF RecordsFromOutputs
<1> HIDE DEF e, Read, Kept, recs, n
<1> QED BY <1>2, <1>3, <1>4, <1>5

\* An output describes its records before its trip and after.
LEMMA OutputIsTransparent ==
  ASSUME NEW out \in [id : Domains, records : Seq(Host)], Len(out.records) <= MaxLength
  PROVE  /\ RecordsRead(Outputs(out)) = RecordsFromOutputs(out)
         /\ RecordsRead(Json(Outputs(out))) = RecordsFromOutputs(out)
<1> DEFINE m == Outputs(out)
<1>1. /\ IsMap(m)
      /\ Field(m, "record_count") = Number(Len(out.records))
      /\ \A i \in 1..Len(out.records) : Field(m, Key(i)) = OutputRecord(out.records[i])
  BY OutputFields
<1>2. \A i \in 1..Len(out.records) : out.records[i] \in Host
  BY ElementOfSeq
<1>3. /\ Field(Json(m), "record_count") = [kind |-> "float64", val |-> Len(out.records)]
      /\ \A i \in 1..Len(out.records) :
           Field(Json(m), Key(i)) = JsonRecords(OutputRecord(out.records[i]))
  <2> HIDE DEF m
  <2> QED BY <1>1, JsonOfMap, JsonOfPlain
<1>4. \A n : IntOf(Number(n), 0) = n /\ IntOf([kind |-> "float64", val |-> n], 0) = n
  BY DEF IntOf, Number
<1> HIDE DEF m
<1>5. RecordsRead(m) = RecordsFromOutputs(out)
  BY <1>1, <1>2, <1>4, RecordDescribed, RecordsReadOf
<1>6. RecordsRead(Json(m)) = RecordsFromOutputs(out)
  BY <1>2, <1>3, <1>4, RecordDescribed, RecordsReadOf
<1> QED BY <1>5, <1>6 DEF m

-----------------------------------------------------------------------------
(* The config of an import                                                 *)

\* The entry of a config that parseDNSSpec gets to see of a record's map.
EntryRead(e) ==
  [type |-> StringOf(Field(e, "type")), name |-> StringOf(Field(e, "name")),
   data |-> StringOf(Field(e, "data")),
   ttl |-> IntOf(Field(e, "ttl"), Absent), mx |-> IntOf(Field(e, "mx"), Absent)]

\* The config's entry for a record of an output is that record.
LEMMA ImportedEntry ==
  ASSUME NEW r \in Host
  PROVE  LET e == JsonRecord(ImportedRecord(OutputRecord(r)))
         IN  IsMap(e) /\ EntryRead(e) = r
<1> DEFINE o == OutputRecord(r)
           i == ImportedRecord(o)
           e == JsonRecord(i)
<1>1. /\ Field(o, "type") = Text(r.type) /\ Field(o, "name") = Text(r.name)
      /\ Field(o, "address") = Text(r.data) /\ Field(o, "ttl") = Number(r.ttl)
      /\ Field(o, "mx_pref") = IF r.mx = Absent THEN Missing ELSE Number(r.mx)
  BY RecordFields
<1> HIDE DEF o
<1>2. IsMap(i) /\ \A k \in DOMAIN Source : Field(i, k) = Field(o, Source[k])
  BY DEF ImportedRecord, IsMap, Map, Field
<1>3. /\ Field(i, "type") = Field(o, "type") /\ Field(i, "name") = Field(o, "name")
      /\ Field(i, "data") = Field(o, "address") /\ Field(i, "ttl") = Field(o, "ttl")
      /\ Field(i, "mx") = Field(o, "mx_pref")
  <2>1. {"type", "name", "data", "ttl", "mx"} \subseteq DOMAIN Source
    BY DEF Source
  <2>2. /\ Source["type"] = "type" /\ Source["name"] = "name" /\ Source["data"] = "address"
        /\ Source["ttl"] = "ttl" /\ Source["mx"] = "mx_pref"
    BY DEF Source
  <2> HIDE DEF i
  <2> QED BY <1>2, <2>1, <2>2
<1> HIDE DEF i
<1>4. IsMap(e) /\ \A k : Field(e, k) = JsonPlain(Field(i, k))
  BY <1>2, JsonOfMap
<1> HIDE DEF e
<1>5. /\ \A s : StringOf(Text(s)) = s
      /\ \A n : IntOf([kind |-> "float64", val |-> n], Absent) = n
      /\ IntOf(Missing, Absent) = Absent
  BY DEF StringOf, IntOf, Text, Missing
<1>6. /\ StringOf(Field(e, "type")) = r.type /\ StringOf(Field(e, "name")) = r.name
      /\ StringOf(Field(e, "data")) = r.data /\ IntOf(Field(e, "ttl"), Absent) = r.ttl
      /\ IntOf(Field(e, "mx"), Absent) = r.mx
  BY <1>1, <1>3, <1>4, <1>5, JsonOfPlain
<1>7. EntryRead(e) = [type |-> r.type, name |-> r.name, data |-> r.data,
                      ttl |-> r.ttl, mx |-> r.mx]
  BY <1>6 DEF EntryRead
<1>8. r = [type |-> r.type, name |-> r.name, data |-> r.data, ttl |-> r.ttl, mx |-> r.mx]
  BY DEF Host
<1> QED BY <1>4, <1>7, <1>8 DEF e, i, o

\* The config Import makes of an output describes, once it has come back, the
\* zone and the records of the output.
LEMMA ImportedSpec ==
  ASSUME NEW out \in [id : Domains, records : Seq(Host)], Len(out.records) <= MaxLength
  PROVE  SpecOf(out.id, Json(ImportedConfig(Outputs(out))))
           = [name |-> out.id, domain |-> out.id, records |-> out.records]
<1> DEFINE m == Outputs(out)
           recs == out.records
           n == Len(recs)
           Rec(i) == ImportedRecord(OutputRecord(recs[i]))
           list == [kind |-> "[]map", val |-> [i \in 1..n |-> Rec(i)]]
           back == [kind |-> "[]any", val |-> [i \in 1..n |-> JsonRecord(Rec(i))]]
           config == ImportedConfig(m)
           json == Json(config)
<1>1. n \in Nat /\ DOMAIN recs = 1..n /\ \A i \in 1..n : recs[i] \in Host
  BY ElementOfSeq
<1>2. /\ Field(m, "domain") = Text(out.id) /\ Field(m, "record_count") = Number(n)
      /\ \A i \in 1..n : Field(m, Key(i)) = OutputRecord(recs[i])
  BY OutputFields
<1>3. \A i \in 1..n : IsMap(OutputRecord(recs[i]))
  BY <1>1, RecordFields
<1>4. Numbered(m, n) = [i \in 1..n |-> OutputRecord(recs[i])]
  <2> HIDE DEF m, recs, n
  <2>1. Numbered(m, n) = [i \in 1..n |-> Field(m, Key(i))]
    BY <1>1, <1>2, <1>3, NumberedAll
  <2> QED BY <1>2, <2>1
<1>5. config = Map([provider |-> Text("namecheap"), domain |-> Text(out.id), records |-> list])
  <2> HIDE DEF m, recs, n
  <2>1. Number(n).kind = "int" /\ Number(n).val = n
    BY DEF Number
  <2>2. config = Map([provider |-> Text("namecheap"), domain |-> Field(m, "domain"),
                      records |-> [kind |-> "[]map", val |->
                        [i \in DOMAIN Numbered(m, n) |-> ImportedRecord(Numbered(m, n)[i])]]])
    BY <1>2, <2>1 DEF ImportedConfig
  <2>3. [i \in DOMAIN Numbered(m, n) |-> ImportedRecord(Numbered(m, n)[i])] = [i \in 1..n |-> Rec(i)]
    BY <1>4
  <2> QED BY <1>2, <2>2, <2>3
<1> HIDE DEF config
<1>6. /\ IsMap(config)
      /\ Field(config, "domain") = Text(out.id) /\ Field(config, "records") = list
  <2> HIDE DEF list
  <2> QED BY <1>5 DEF IsMap, Map, Field
<1>7. JsonRecords(list) = back
  <2>1. JsonRecords(list) = [kind |-> "[]any", val |-> [i \in 1..n |-> JsonRecord([j \in 1..n |-> Rec(j)][i])]]
    BY DEF JsonRecords, Layer
  <2> HIDE DEF Rec, n
  <2> QED BY <2>1
<1>8. Field(json, "domain") = Text(out.id) /\ Field(json, "records") = back
  <2> HIDE DEF list, back
  <2> QED BY <1>6, <1>7, JsonOfMap, JsonOfPlain
<1>9. \A i \in 1..n : IsMap(JsonRecord(Rec(i))) /\ EntryRead(JsonRecord(Rec(i))) = recs[i]
  BY <1>1, ImportedEntry
<1> HIDE DEF json, Rec
<1>10. SpecOf(out.id, json)
         = [name |-> out.id, domain |-> StringOf(Field(json, "domain")),
            records |-> [i \in 1..n |-> IF IsMap(JsonRecord(Rec(i)))
                                       THEN EntryRead(JsonRecord(Rec(i))) ELSE NotAMap]]
  <2>1. back.kind = "[]any" /\ back.val = [i \in 1..n |-> JsonRecord(Rec(i))]
    OBVIOUS
  <2> HIDE DEF back, n
  <2> QED BY <1>8, <2>1 DEF SpecOf, EntryRead
<1>11. StringOf(Text(out.id)) = out.id
  BY DEF StringOf, Text
<1>12. recs = [i \in 1..n |-> recs[i]]
  BY <1>1
<1> HIDE DEF recs, n
<1>13. SpecOf(out.id, json) = [name |-> out.id, domain |-> out.id, records |-> recs]
  BY <1>8, <1>9, <1>10, <1>11, <1>12
<1> QED BY <1>13 DEF json, config, m, recs

\* Lists of records are of canonical records, and no longer than the bound.
LEMMA ListTyped ==
  ASSUME NEW recs \in Seq(Pool), Len(recs) <= MaxLength
  PROVE  /\ recs \in Seq(Record) /\ recs \in Seq(Host)
         /\ DOMAIN recs = 1..Len(recs) /\ Len(recs) \in Nat
         /\ \A i \in DOMAIN recs : recs[i] \in Record /\ Upper(recs[i].type) = recs[i].type
<1>1. Pool \subseteq Record /\ Pool \subseteq Host
  BY PoolAssumption DEF Record, Host
<1>2. recs \in [1..Len(recs) -> Pool] /\ Len(recs) \in Nat
  OBVIOUS
<1>3. recs \in [1..Len(recs) -> Record] /\ recs \in [1..Len(recs) -> Host]
  BY <1>1, <1>2
<1>4. recs \in Seq(Record) /\ recs \in Seq(Host)
  BY <1>2, <1>3, SeqDef
<1>5. \A i \in DOMAIN recs : recs[i] \in Pool
  BY ElementOfSeq
<1> QED BY <1>1, <1>2, <1>4, <1>5, PoolAssumption

\* An output made in this plugin is well formed, and no longer than the bound.
LEMMA OutputsTyped ==
  ASSUME IInv, NEW d \in Domains
  PROVE  /\ \A out \in ReadOutputs(d) :
              /\ out \in [id : Domains, records : Seq(Host)]
              /\ out.id = d /\ Len(out.records) <= MaxLength
              /\ DOMAIN out.records = DOMAIN current
              /\ \A i \in DOMAIN current : /\ out.records[i].type = current[i].type
                                          /\ out.records[i].ttl = current[i].ttl
         /\ OutputFromRecords(d, desired) \in [id : Domains, records : Seq(Host)]
         /\ Len(OutputFromRecords(d, desired).records) <= MaxLength
<1>1. /\ current \in Seq(Record) /\ current \in Seq(Host) /\ Len(current) <= MaxLength
      /\ DOMAIN current = 1..Len(current) /\ Len(current) \in Nat
      /\ \A i \in DOMAIN current : current[i] \in Record
  BY ListTyped DEF IInv, Lists
<1>2. desired \in Seq(Record) /\ DOMAIN desired = 1..Len(desired)
  BY ListTyped DEF IInv, Lists
<1>3. /\ HostRecords(current) \in Seq(Host)
      /\ DOMAIN HostRecords(current) = DOMAIN current
      /\ \A i \in DOMAIN current : /\ HostRecords(current)[i].type = current[i].type
                                  /\ HostRecords(current)[i].ttl = current[i].ttl
  <2>1. HostRecords(current) \in Seq(Host)
    BY <1>1, ZoneTyped DEF ZoneOf, Contents
  <2> QED BY <1>1, <2>1 DEF HostRecords, Record
<1>4. Len(HostRecords(current)) = Len(current)
  BY <1>1, <1>3
<1>5. OutputFromRecords(d, desired) \in [id : Domains, records : Seq(Host)]
  BY <1>2, MemoryTyped
<1>6. Len(OutputFromRecords(d, desired).records) = Len(desired)
  <2>1. DOMAIN OutputFromRecords(d, desired).records = DOMAIN desired
    BY DEF OutputFromRecords
  <2>2. Len(desired) \in Nat
    BY <1>2
  <2> DEFINE rs == OutputFromRecords(d, desired).records
  <2>3. rs \in Seq(Host)
    BY <1>5
  <2> HIDE DEF rs
  <2>4. Len(rs) \in Nat /\ DOMAIN rs = 1..Len(rs)
    BY <2>3
  <2>5. DOMAIN rs = 1..Len(desired)
    BY <1>2, <2>1 DEF rs
  <2>6. Len(rs) = Len(desired)
    BY <2>2, <2>4, <2>5
  <2> QED BY <2>6 DEF rs
<1>7. \A out \in ReadOutputs(d) :
        out.id = d /\ (out.records = current \/ out.records = HostRecords(current))
          /\ out = [id |-> d, records |-> out.records]
  BY DEF ReadOutputs, OutputFromHosts
<1>8. Len(desired) <= MaxLength
  BY DEF IInv, Lists
<1>9. ASSUME NEW out \in ReadOutputs(d)
      PROVE  /\ out \in [id : Domains, records : Seq(Host)]
             /\ out.id = d /\ Len(out.records) <= MaxLength
             /\ DOMAIN out.records = DOMAIN current
             /\ \A i \in DOMAIN current : /\ out.records[i].type = current[i].type
                                         /\ out.records[i].ttl = current[i].ttl
  <2>1. CASE out.records = current
    BY <1>1, <1>7, <2>1
  <2>2. CASE out.records = HostRecords(current)
    BY <1>1, <1>3, <1>4, <1>7, <2>2
  <2> QED BY <1>7, <2>1, <2>2
<1> QED BY <1>5, <1>6, <1>8, <1>9

\* A list has no changes against itself.
LEMMA SameIsQuiet == \A recs : DiffRecords(recs, recs) = {}
BY DEF DiffRecords, Differs

-----------------------------------------------------------------------------
(* The theorems                                                            *)

\* The lists are lists of records, and their maps are well defined.
THEOREM Invariance == Spec => []IInv
<1>1. Init => IInv
  BY PoolAssumption DEF Init, IInv, Lists, HasLast, Keys
<1>2. ASSUME IInv, [Next]_vars PROVE IInv'
  <2>1. CASE Grow(current, desired)
    <3>1. PICK r \in Pool : current' = Append(current, r)
      BY <2>1 DEF Grow
    <3>2. HasLast(Append(current, r))
      BY <1>2, LongerHasLast DEF IInv, Lists
    <3>3. desired' = desired
      BY <2>1 DEF Grow
    <3>4. HasLast(current)'
      BY <3>1, <3>2
    <3>5. HasLast(desired)'
      BY <1>2, <3>3 DEF IInv, HasLast, Keys
    <3>6. Lists'
      <4>1. Len(Append(current, r)) = Len(current) + 1 /\ Len(current) < MaxLength
        BY <1>2, <2>1 DEF IInv, Lists, Grow
      <4>2. Len(Append(current, r)) <= MaxLength
        BY <1>2, <4>1, PoolAssumption DEF IInv, Lists
      <4> QED BY <1>2, <3>1, <3>3, <4>2 DEF IInv, Lists
    <3> QED BY <3>4, <3>5, <3>6 DEF IInv
  <2>2. CASE Grow(desired, current)
    <3>1. PICK r \in Pool : desired' = Append(desired, r)
      BY <2>2 DEF Grow
    <3>2. HasLast(Append(desired, r))
      BY <1>2, LongerHasLast DEF IInv, Lists
    <3>3. current' = current
      BY <2>2 DEF Grow
    <3>4. HasLast(desired)'
      BY <3>1, <3>2
    <3>5. HasLast(current)'
      BY <1>2, <3>3 DEF IInv, HasLast, Keys
    <3>6. Lists'
      <4>1. Len(Append(desired, r)) = Len(desired) + 1 /\ Len(desired) < MaxLength
        BY <1>2, <2>2 DEF IInv, Lists, Grow
      <4>2. Len(Append(desired, r)) <= MaxLength
        BY <1>2, <4>1, PoolAssumption DEF IInv, Lists
      <4> QED BY <1>2, <3>1, <3>3, <4>2 DEF IInv, Lists
    <3> QED BY <3>4, <3>5, <3>6 DEF IInv
  <2>3. CASE UNCHANGED vars
    BY <1>2, <2>3 DEF vars, IInv, Lists, HasLast, Keys
  <2> QED BY <1>2, <2>1, <2>2, <2>3 DEF Next
<1> QED BY <1>1, <1>2, PTL DEF Spec

\* Carrying out the changes a plan shows turns the records there are into the
\* desired ones, whatever both lists name and however often (dns.go, diffRecords).
THEOREM ChangesPatch == Spec => []ChangesArePatch
<1>1. ASSUME IInv PROVE ChangesArePatch
  <2> DEFINE cur == Keyed(current)
             des == Keyed(desired)
             C(k) == Entered(k, RecordToMap(cur[k]))
             D(k) == Entered(k, RecordToMap(des[k]))
             differing == {k \in Keys(current) \cap Keys(desired) : Differs(cur[k], des[k])}
             Gone == {C(k) : k \in differing \cup (Keys(current) \ Keys(desired))}
             Come == {D(k) : k \in differing \cup (Keys(desired) \ Keys(current))}
             old == {ch \in Changes : ch.old # Absent}
             new == {ch \in Changes : ch.new # Absent}
  <2>1. /\ {Entered(ch.path, ch.old) : ch \in old} = Gone
        /\ {Entered(ch.path, ch.new) : ch \in new} = Come
    BY <1>1, ChangesByKey
  <2>2. \A k \in (Keys(current) \cap Keys(desired)) \ differing : C(k) = D(k)
    <3> SUFFICES ASSUME NEW k \in (Keys(current) \cap Keys(desired)) \ differing
                 PROVE  C(k) = D(k)
      OBVIOUS
    <3>1. /\ cur[k] \in Pool /\ RecordKey(cur[k]) = k
          /\ des[k] \in Pool /\ RecordKey(des[k]) = k
      BY <1>1, KeyedTyped DEF IInv, Lists
    <3>2. ~Differs(cur[k], des[k])
      OBVIOUS
    <3> HIDE DEF cur, des
    <3> QED BY <3>1, <3>2, ShownRecord
  <2>3. \A j, k : C(j) = C(k) => j = k
    BY DEF Entered
  <2>4. /\ Shown(current) = {C(k) : k \in Keys(current)}
        /\ Shown(desired) = {D(k) : k \in Keys(desired)}
    BY DEF Shown
  <2>5. /\ Gone \subseteq Shown(current)
        /\ Shown(desired) = (Shown(current) \ Gone) \cup Come
    <3>1. differing \subseteq Keys(current) \cap Keys(desired)
      OBVIOUS
    <3> HIDE DEF C, D, differing
    <3>2. Gone \subseteq Shown(current)
      BY <2>4, <3>1
    <3>3. \A x \in Shown(desired) : x \in (Shown(current) \ Gone) \cup Come
      <4> SUFFICES ASSUME NEW k \in Keys(desired)
                   PROVE  D(k) \in (Shown(current) \ Gone) \cup Come
        BY <2>4
      <4>1. CASE k \in differing \cup (Keys(desired) \ Keys(current))
        BY <4>1
      <4>2. CASE k \in (Keys(current) \cap Keys(desired)) \ differing
        BY <2>2, <2>3, <2>4, <4>2
      <4> QED BY <4>1, <4>2
    <3>4. \A x \in (Shown(current) \ Gone) \cup Come : x \in Shown(desired)
      <4>1. \A x \in Come : x \in Shown(desired)
        BY <2>4, <3>1
      <4>2. ASSUME NEW k \in Keys(current), C(k) \notin Gone
            PROVE  C(k) \in Shown(desired)
        <5>1. k \in (Keys(current) \cap Keys(desired)) \ differing
          BY <4>2
        <5> QED BY <2>2, <2>4, <5>1
      <4> QED BY <2>4, <4>1, <4>2
    <3> QED BY <3>2, <3>3, <3>4
  <2> HIDE DEF Gone, Come, old, new
  <2>6. /\ {Entered(ch.path, ch.old) : ch \in old} \subseteq Shown(current)
        /\ Shown(desired) = (Shown(current) \ {Entered(ch.path, ch.old) : ch \in old})
                              \cup {Entered(ch.path, ch.new) : ch \in new}
    BY <2>1, <2>5
  <2> QED BY <2>6 DEF ChangesArePatch, old, new
<1> QED BY <1>1, Invariance, PTL

\* diffRecords finds nothing exactly when both lists, neither of which names a
\* record twice, hold the same records with the same TTL and priority.
THEOREM QuietMeansSame == Spec => []QuietIffSame
<1>1. ASSUME IInv PROVE QuietIffSame
  <2> SUFFICES ASSUME NamesEachOnce(current), NamesEachOnce(desired)
               PROVE  Changes = {} <=> MeaningOf(current) = MeaningOf(desired)
    BY DEF QuietIffSame
  <2>1. DOMAIN current \subseteq Int /\ DOMAIN desired \subseteq Int
    BY <1>1 DEF IInv, Lists
  <2>2. \A r, q : Meaning(r) = Meaning(q) <=> SameRecord(r, q) /\ ~Differs(r, q)
    BY DEF Meaning, SameRecord, Differs
  <2>3. ASSUME Changes = {} PROVE MeaningOf(current) = MeaningOf(desired)
    <3>1. /\ \A i \in DOMAIN current : \E j \in DOMAIN desired : Meaning(current[i]) = Meaning(desired[j])
          /\ \A j \in DOMAIN desired : \E i \in DOMAIN current : Meaning(current[i]) = Meaning(desired[j])
      BY <2>1, <2>2, <2>3, QuietPairing DEF Changes
    <3> QED BY <3>1 DEF MeaningOf
  <2>4. ASSUME MeaningOf(current) = MeaningOf(desired) PROVE Changes = {}
    <3>1. /\ \A i \in DOMAIN current : \E j \in DOMAIN desired : Meaning(current[i]) = Meaning(desired[j])
          /\ \A j \in DOMAIN desired : \E i \in DOMAIN current : Meaning(current[i]) = Meaning(desired[j])
      BY <2>4 DEF MeaningOf
    <3>2. /\ \A i \in DOMAIN current : \E j \in DOMAIN desired : SameRecord(current[i], desired[j])
          /\ \A j \in DOMAIN desired : \E i \in DOMAIN current : SameRecord(current[i], desired[j])
      BY <2>2, <3>1
    <3>3. ASSUME NEW ch \in Changes PROVE FALSE
      <4>1. PICK i \in DOMAIN current, j \in DOMAIN desired :
              SameRecord(current[i], desired[j]) /\ Differs(current[i], desired[j])
        BY <2>1, <3>2, <3>3, ChangePairing DEF Changes
      <4>2. PICK k \in DOMAIN desired : Meaning(current[i]) = Meaning(desired[k])
        BY <3>1
      <4>3. SameRecord(desired[j], desired[k])
        BY <2>2, <4>1, <4>2 DEF SameRecord
      <4>4. j = k
        BY <4>3 DEF NamesEachOnce
      <4> QED BY <2>2, <4>1, <4>2, <4>4
    <3> QED BY <3>3
  <2> QED BY <2>3, <2>4
<1> QED BY <1>1, Invariance, PTL

\* The records of an output are the same to whoever reads it in the plugin that
\* made it and after a trip through the host's state, where numbers have become
\* floats (dns.go, dnsOutput and recordsFromOutputs; iacserver.go, marshalling).
THEOREM Transparent == Spec => []WireIsTransparent
<1>1. ASSUME IInv PROVE WireIsTransparent
  BY <1>1, OutputsTyped, OutputIsTransparent DEF WireIsTransparent
<1> QED BY <1>1, Invariance, PTL

\* An answer from memory never asks for a change against its own spec, and an
\* imported zone never against the config of its import, which is accepted and
\* describes what was read (dns.go, Diff; iacserver.go, importedAppliedConfigNC).
THEOREM OwnOutputQuiet == Spec => []OwnOutputIsQuiet
<1>1. ASSUME IInv PROVE OwnOutputIsQuiet
  <2> SUFFICES ASSUME NEW d \in Domains
               PROVE  /\ (\A i \in DOMAIN desired : desired[i].type # MX => desired[i].mx = 0)
                           => Quiet(OutputFromRecords(d, desired), desired)
                      /\ (\A i \in DOMAIN current : current[i].ttl >= MinTTL)
                           => \A out \in ReadOutputs(d) :
                                LET spec == SpecOf(d, Json(ImportedConfig(Outputs(out))))
                                IN  /\ spec = [name |-> d, domain |-> d, records |-> out.records]
                                    /\ SpecValid(spec)
                                    /\ Quiet(out, ParsedRecords(spec))
    BY DEF OwnOutputIsQuiet
  <2>1. ASSUME \A i \in DOMAIN desired : desired[i].type # MX => desired[i].mx = 0
        PROVE  Quiet(OutputFromRecords(d, desired), desired)
    <3> DEFINE out == OutputFromRecords(d, desired)
    <3>1. RecordsRead(Json(Outputs(out))) = RecordsFromOutputs(out)
      BY <1>1, OutputsTyped, OutputIsTransparent
    <3>2. DOMAIN desired = 1..Len(desired) /\ \A i \in DOMAIN desired : desired[i] \in Record
      BY <1>1, ListTyped DEF IInv, Lists
    <3>3. RecordsFromOutputs(out) = desired
      <4> DEFINE Kept(r) == [r EXCEPT !.mx = IF r.mx = Absent THEN 0 ELSE r.mx]
                 Made(r) == [r EXCEPT !.mx = IF r.type = MX THEN r.mx ELSE Absent]
      <4>1. RecordsFromOutputs(out) = [i \in DOMAIN desired |-> Kept(Made(desired[i]))]
        BY DEF RecordsFromOutputs, OutputFromRecords
      <4>2. ASSUME NEW r \in Record, r.type # MX => r.mx = 0 PROVE Kept(Made(r)) = r
        BY <4>2, SentinelAssumption DEF Record
      <4>3. desired = [i \in DOMAIN desired |-> desired[i]]
        BY <1>1 DEF IInv, Lists
      <4> HIDE DEF out, Kept, Made
      <4> QED BY <2>1, <3>2, <4>1, <4>2, <4>3
    <3> HIDE DEF out
    <3>4. Quiet(out, desired)
      BY <3>1, <3>3, SameIsQuiet DEF Quiet
    <3> QED BY <3>4 DEF out
  <2>2. ASSUME \A i \in DOMAIN current : current[i].ttl >= MinTTL, NEW out \in ReadOutputs(d)
        PROVE  LET spec == SpecOf(d, Json(ImportedConfig(Outputs(out))))
               IN  /\ spec = [name |-> d, domain |-> d, records |-> out.records]
                   /\ SpecValid(spec)
                   /\ Quiet(out, ParsedRecords(spec))
    <3> DEFINE spec == SpecOf(d, Json(ImportedConfig(Outputs(out))))
               recs == out.records
    <3>1. /\ out \in [id : Domains, records : Seq(Host)]
          /\ out.id = d /\ Len(recs) <= MaxLength
          /\ DOMAIN recs = DOMAIN current
          /\ \A i \in DOMAIN current : recs[i].type = current[i].type /\ recs[i].ttl = current[i].ttl
      BY <1>1, <2>2, OutputsTyped
    <3>2. spec = [name |-> d, domain |-> d, records |-> recs]
      BY <3>1, ImportedSpec
    <3>3. RecordsRead(Json(Outputs(out))) = RecordsFromOutputs(out)
      BY <3>1, OutputIsTransparent
    <3> HIDE DEF spec
    <3>4. \A i \in DOMAIN recs : recs[i] \in Host
      BY <3>1, ElementOfSeq
    <3>5. recs # Absent /\ d # Absent
      BY <3>1, RecordAssumption, SentinelAssumption
    <3>6. \A i \in DOMAIN recs : EntryValid(recs[i])
      <4> SUFFICES ASSUME NEW r \in Host PROVE EntryValid(r)
        BY <3>4
      <4> QED BY SentinelAssumption DEF EntryValid, Host
    <3>7. RawRecords(spec) = recs /\ SpecDomain(spec) = d /\ spec.records = recs
      BY <3>2, <3>5 DEF RawRecords, SpecDomain
    <3>8. SpecValid(spec)
      BY <3>5, <3>6, <3>7 DEF SpecValid
    <3>9. \A i \in DOMAIN recs : Upper(recs[i].type) = recs[i].type /\ recs[i].ttl >= MinTTL
      BY <1>1, <2>2, <3>1, ListTyped DEF IInv, Lists
    <3>10. ParsedRecords(spec) = RecordsFromOutputs(out)
      <4> DEFINE Kept(r) == [r EXCEPT !.mx = IF r.mx = Absent THEN 0 ELSE r.mx]
      <4>1. ParsedRecords(spec) = [i \in DOMAIN recs |-> ParseRecordMap(recs[i])]
        BY <3>7 DEF ParsedRecords
      <4>2. RecordsFromOutputs(out) = [i \in DOMAIN recs |-> Kept(recs[i])]
        BY DEF RecordsFromOutputs
      <4>3. ASSUME NEW r \in Host, Upper(r.type) = r.type, r.ttl >= MinTTL
            PROVE  ParseRecordMap(r) = Kept(r)
        <5>1. ParseTTL(r.ttl) = r.ttl
          BY <4>3, SentinelAssumption DEF ParseTTL, MinTTL, Host
        <5> QED BY <4>3, <5>1 DEF ParseRecordMap, Host
      <4> HIDE DEF Kept, recs
      <4> QED BY <3>4, <3>9, <4>1, <4>2, <4>3
    <3>11. Quiet(out, ParsedRecords(spec))
      BY <3>3, <3>10, SameIsQuiet DEF Quiet
    <3> QED BY <3>2, <3>8, <3>11 DEF spec
  <2> QED BY <2>1, <2>2
<1> QED BY <1>1, Invariance, PTL
=============================================================================

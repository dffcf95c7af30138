------------------------------- MODULE DnsWire -------------------------------
(***************************************************************************)
(* What the wire does to an infra.dns output and to the config Import      *)
(* makes of it.  Outputs and configs are Go maps of values of many types;  *)
(* they travel as JSON, which knows one type of number and one of array,   *)
(* and the handlers take a value only in the Go types they expect.  A Go   *)
(* value is [kind, val] here.  The other modules speak of records alone:   *)
(* this one shows that they may.                                           *)
(***************************************************************************)
EXTENDS DnsDiff

CONSTANT Key(_)  \* the key of the i-th record of an output: "record_<i - 1>"

\* Keys of two records differ, and from the other keys of an output.
ASSUME KeyAssumption ==
  \A i \in 1..MaxLength :
    /\ Key(i) \notin {"domain", "record_count"}
    /\ \A j \in 1..MaxLength : Key(i) = Key(j) => i = j

Text(s) == [kind |-> "string", val |-> s]
Number(n) == [kind |-> "int", val |-> n]
Map(f) == [kind |-> "map", val |-> f]
Missing == [kind |-> "nil", val |-> Absent]

Field(m, k) == IF k \in DOMAIN m.val THEN m.val[k] ELSE Missing

\* One level of a value after json.Marshal and json.Unmarshal: numbers become
\* float64, slices []any; its elements go the way of Inner.
Layer(v, Inner(_)) ==
  CASE v.kind \in {"int", "int64", "float64"} -> [kind |-> "float64", val |-> v.val]
    [] v.kind \in {"[]any", "[]map"} ->
         [kind |-> "[]any", val |-> [i \in DOMAIN v.val |-> Inner(v.val[i])]]
    [] v.kind = "map" -> Map([k \in DOMAIN v.val |-> Inner(v.val[k])])
    [] OTHER -> v

\* An output or a config: a map, of records or lists of them, of plain values.
JsonPlain(v) == Layer(v, LAMBDA u : u)
JsonRecord(v) == Layer(v, JsonPlain)
JsonRecords(v) == Layer(v, JsonRecord)
Json(v) == Layer(v, JsonRecords)

-----------------------------------------------------------------------------
(* The output, as the driver writes it and as Diff reads it                *)

\* A record of an output; a host without priority has no such key.
OutputRecord(r) ==
  LET full == [name |-> Text(r.name), type |-> Text(r.type), address |-> Text(r.data),
               ttl |-> Number(r.ttl), mx_pref |-> Number(r.mx)]
      without == IF r.mx = Absent THEN {"mx_pref"} ELSE {}
  IN  Map([k \in DOMAIN full \ without |-> full[k]])

\* The Go map of an output [id, records]; its records have a key each.
Outputs(out) ==
  LET always == [domain |-> Text(out.id), record_count |-> Number(Len(out.records))]
      numbered == {Key(i) : i \in DOMAIN out.records}
      At(k) == out.records[CHOOSE i \in DOMAIN out.records : Key(i) = k]
  IN  Map([k \in DOMAIN always \cup numbered |->
             IF k \in DOMAIN always THEN always[k] ELSE OutputRecord(At(k))])

StringOf(v) == IF v.kind = "string" THEN v.val ELSE Absent

\* Broken form: numbers are read as the driver wrote them.
IntOnly(v, otherwise) == IF v.kind = "int" THEN v.val ELSE otherwise

IntOf(v, otherwise) == IF v.kind \in {"int", "float64"} THEN v.val ELSE otherwise

IsMap(v) == v.kind = "map"

\* The records under the numbered keys; what is missing is passed over.
Numbered(outputs, count) ==
  LET At(n) == Field(outputs, Key(n))
      found[n \in 0..count] ==
        IF n = 0 THEN <<>>
        ELSE IF IsMap(At(n)) THEN Append(found[n - 1], At(n)) ELSE found[n - 1]
  IN  found[count]

\* recordsFromOutputs, types and all.
RecordsRead(outputs) ==
  LET found == Numbered(outputs, IntOf(Field(outputs, "record_count"), 0))
  IN  [i \in DOMAIN found |->
         [type |-> StringOf(Field(found[i], "type")),
          name |-> StringOf(Field(found[i], "name")),
          data |-> StringOf(Field(found[i], "address")),
          ttl |-> IntOf(Field(found[i], "ttl"), 0),
          mx |-> IntOf(Field(found[i], "mx_pref"), 0)]]

-----------------------------------------------------------------------------
(* The config Import makes of an output, and how it is parsed              *)

\* Broken form: the data of a record keeps its name.
SourceByName ==
  [type |-> "type", name |-> "name", data |-> "data", ttl |-> "ttl", mx |-> "mx_pref"]

\* The key of an output's record each key of a config's record is taken from.
Source ==
  [type |-> "type", name |-> "name", data |-> "address", ttl |-> "ttl", mx |-> "mx_pref"]

ImportedRecord(rec) ==
  Map([k \in {j \in DOMAIN Source : Source[j] \in DOMAIN rec.val} |-> rec.val[Source[k]]])

\* importedAppliedConfigNC for a zone; its records are a []map[string]any.
ImportedConfig(outputs) ==
  LET count == Field(outputs, "record_count")
      found == Numbered(outputs,
                 IF count.kind \in {"int", "int64", "float64"} THEN count.val ELSE 0)
  IN  Map([provider |-> Text("namecheap"),
           domain |-> Field(outputs, "domain"),
           records |-> [kind |-> "[]map",
                        val |-> [i \in DOMAIN found |-> ImportedRecord(found[i])]]])

\* What parseDNSSpec gets to see of a config: values of other Go types are
\* errors, or count as missing.
SpecOf(name, config) ==
  LET raw == Field(config, "records")
      EntryOf(e) ==
        IF IsMap(e)
        THEN [type |-> StringOf(Field(e, "type")), name |-> StringOf(Field(e, "name")),
              data |-> StringOf(Field(e, "data")),
              ttl |-> IntOf(Field(e, "ttl"), Absent), mx |-> IntOf(Field(e, "mx"), Absent)]
        ELSE NotAMap
  IN  [name |-> name, domain |-> StringOf(Field(config, "domain")),
       records |-> IF raw.kind = "[]any"
                   THEN [i \in DOMAIN raw.val |-> EntryOf(raw.val[i])]
                   ELSE Absent]

-----------------------------------------------------------------------------
(* Properties                                                              *)

\* Outputs as Read makes them of hosts with and without a priority; Create and
\* Update make theirs of a spec.
ReadOutputs(d) == {OutputFromHosts(d, current), OutputFromHosts(d, HostRecords(current))}

\* An output describes the same records to whoever reads it in the plugin that
\* wrote it and to a plugin that gets it back from the host's state.
WireIsTransparent ==
  \A d \in Domains : \A out \in ReadOutputs(d) \cup {OutputFromRecords(d, desired)} :
    /\ RecordsRead(Outputs(out)) = RecordsFromOutputs(out)
    /\ RecordsRead(Json(Outputs(out))) = RecordsFromOutputs(out)

\* What Diff is asked after a trip of the output through the host.
Quiet(out, recs) == DiffRecords(RecordsRead(Json(Outputs(out))), recs) = {}

\* An output never makes Diff ask for a change against the config it belongs to:
\* an answer from memory against the spec it was made of, if only MX records
\* carry a priority, and an imported zone against the config Import makes of it,
\* which the driver accepts and which describes the records that were read, if no
\* TTL is below the minimum, as none is in the API.
OwnOutputIsQuiet ==
  \A d \in Domains :
    /\ (\A i \in DOMAIN desired : desired[i].type # MX => desired[i].mx = 0)
         => Quiet(OutputFromRecords(d, desired), desired)
    /\ (\A i \in DOMAIN current : current[i].ttl >= MinTTL)
         => \A out \in ReadOutputs(d) :
              LET spec == SpecOf(d, Json(ImportedConfig(Outputs(out))))
              IN  /\ spec = [name |-> d, domain |-> d, records |-> out.records]
                  /\ SpecValid(spec)
                  /\ Quiet(out, ParsedRecords(spec))
=============================================================================

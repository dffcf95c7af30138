---------------------------- MODULE DnsLifecycle ----------------------------
(***************************************************************************)
(* One infra.dns resource over its life: the Workflow host (external)      *)
(* keeps a spec and a saved output, asks Diff what to do, and drives       *)
(* Create, Update, Delete and Read, while the zone can also be edited in   *)
(* the Namecheap dashboard.  A driver call is one step here; DnsDriver     *)
(* shows how it is made of smaller ones.  What can go wrong on the way:    *)
(* the host stops between two steps, an apply fails, the host gives a      *)
(* write up that lands later or not at all, or the API answers without an  *)
(* error and has not done the write: the drivers drop that answer.         *)
(***************************************************************************)
EXTENDS DnsRecords

CONSTANTS
  Specs,        \* the specs a user may write
  UiZones,      \* whole zones the account owner may save in the dashboard
  InitialZone,  \* what every zone holds at the start
  MaxTrouble    \* bound on edits, failures and crashes

VARIABLES
  zone,    \* per zone: what the API serves
  spec,    \* the desired state
  saved,   \* the output in the host's state, Absent when there is none
  plan,    \* [action, spec] the host is about to apply, or Absent
  late,    \* requests [zone, content] the host has given up, still under way
           \* (two like ones are one)
  fresh,   \* history: whether saved was "written" or "read" after the last
           \* change of its zone, is "stale", or tells of a write that the API
           \* has "declined"
  trouble  \* what is left of MaxTrouble

vars == <<zone, spec, saved, plan, late, fresh, trouble>>

ASSUME SpecsAssumption == Specs \subseteq Shape
ASSUME TroubleAssumption == MaxTrouble \in Nat

\* The API lists record types in upper case and every MX record with its priority.
Canonical(hosts) ==
  \A i \in DOMAIN hosts :
    Upper(hosts[i].type) = hosts[i].type /\ (hosts[i].type = MX => hosts[i].mx # Absent)

ASSUME ContentsAssumption ==
  \A content \in UiZones \cup {InitialZone} : content \in Contents /\ Canonical(content.hosts)

Outputs == [id : Domains, records : Seq(Host)]
Plans == [action : {"create", "update", "replace"}, spec : Shape]
Requests == [zone : Zones, content : Contents]

ASSUME StateAssumption == Absent \notin Outputs \cup Plans

Init ==
  /\ zone = [z \in Zones |-> InitialZone]
  /\ spec \in Specs
  /\ saved = Absent
  /\ plan = Absent
  /\ late = {}
  /\ fresh = "stale"
  /\ trouble = MaxTrouble

Trouble == trouble > 0 /\ trouble' = trouble - 1

-----------------------------------------------------------------------------
(* The host (external) and the driver calls it makes                       *)

\* Read for a refresh, or the Read behind Scale.
Refresh ==
  /\ saved # Absent /\ plan = Absent
  /\ saved' = OutputFromHosts(saved.id, Reported(zone[Fold(saved.id)].hosts))
  /\ fresh' = "read"
  /\ UNCHANGED <<zone, spec, plan, late, trouble>>

\* The config Import records for a zone: the output's records, renamed.
ImportedSpec(out) == [name |-> out.id, domain |-> out.id, records |-> out.records]

\* Import of an existing zone, whose user goes on with the imported config.
Adopt(d) ==
  /\ saved = Absent /\ plan = Absent
  /\ saved' = OutputFromHosts(d, Reported(zone[Fold(d)].hosts))
  /\ spec' = ImportedSpec(saved')
  /\ fresh' = "read"
  /\ UNCHANGED <<zone, plan, late, trouble>>

\* A resource without state is created; otherwise Diff decides.
MakePlan ==
  /\ plan = Absent
  /\ Diff(spec, saved) \in {"update", "replace"}
  /\ plan' = [action |-> IF saved = Absent THEN "create" ELSE Diff(spec, saved),
              spec |-> spec]
  /\ UNCHANGED <<zone, spec, saved, late, fresh, trouble>>

\* Broken form: the domain of every call is taken from the spec.
DomainOfSpec == SpecDomain(plan.spec)

\* The domain the planned call names: Update and Delete take the ref's.
PlanDomain == IF plan.action = "create" THEN SpecDomain(plan.spec) ELSE saved.id

PlanAccepted ==
  /\ IF plan.action = "create" THEN SpecValid(plan.spec)
                               ELSE UpdateAccepted(saved.id, plan.spec)
  /\ MXInRange(ParsedRecords(plan.spec))

\* The request of the planned call: a whole zone.
PlannedRequest ==
  [zone |-> Fold(PlanDomain),
   content |-> IF plan.action = "replace" THEN EmptyZone
                                          ELSE ZoneOf(ParsedRecords(plan.spec))]

\* The zones with a request carried out.
Written(request) == [zone EXCEPT ![request.zone] = request.content]

\* The API carries a request out, or it answers without an error and leaves the
\* zone alone; the driver tells no difference.
Answered(reply) ==
  \/ reply = "done" /\ zone' = Written(PlannedRequest) /\ UNCHANGED trouble
  \/ reply = "declined" /\ Trouble /\ UNCHANGED zone

\* Create or Update answers and the host saves the output.
Apply(reply) ==
  /\ plan # Absent /\ plan.action \in {"create", "update"}
  /\ PlanAccepted
  /\ Answered(reply)
  /\ saved' = OutputFromRecords(PlanDomain, ParsedRecords(plan.spec))
  /\ plan' = Absent
  /\ fresh' = IF reply = "done" THEN "written" ELSE "declined"
  /\ UNCHANGED <<spec, late>>

\* Create or Update refuses the spec; the host drops the plan.
ApplyRefused ==
  /\ plan # Absent /\ plan.action \in {"create", "update"}
  /\ ~PlanAccepted
  /\ plan' = Absent
  /\ UNCHANGED <<zone, spec, saved, late, fresh, trouble>>

\* First half of a replace: Delete empties the old zone, its state goes.
ApplyDelete(reply) ==
  /\ plan # Absent /\ plan.action = "replace"
  /\ Answered(reply)
  /\ saved' = Absent
  /\ plan' = [plan EXCEPT !.action = "create"]
  /\ fresh' = IF reply = "done" THEN "stale" ELSE "declined"
  /\ UNCHANGED <<spec, late>>

-----------------------------------------------------------------------------
(* What goes wrong, and what others do                                     *)

\* An API error, or the host stops before the call: the plan is lost.
PlanLost ==
  /\ plan # Absent
  /\ plan' = Absent
  /\ Trouble
  /\ UNCHANGED <<zone, spec, saved, late, fresh>>

\* The request is sent, but its answer never reaches the host's state.
AnswerLost ==
  /\ plan # Absent
  /\ plan.action = "replace" \/ PlanAccepted
  /\ late' = late \cup {PlannedRequest}
  /\ plan' = Absent
  /\ Trouble
  /\ UNCHANGED <<zone, spec, saved, fresh>>

\* A zone changes without the host: an output about it is stale from then on.
ChangeBehind(request) ==
  /\ zone' = Written(request)
  /\ fresh' = IF saved # Absent /\ Fold(saved.id) = request.zone THEN "stale" ELSE fresh
  /\ UNCHANGED <<spec, saved, plan>>

\* A request without an answer is carried out, at once or after later ones.
Land(request) ==
  /\ ChangeBehind(request)
  /\ late' = late \ {request}
  /\ UNCHANGED trouble

EditSpec(s) == spec' = s /\ Trouble /\ UNCHANGED <<zone, saved, plan, late, fresh>>

SaveInDashboard(z, content) ==
  /\ ChangeBehind([zone |-> z, content |-> content])
  /\ Trouble
  /\ UNCHANGED late

Replies == {"done", "declined"}

HostStep ==
  \/ Refresh \/ MakePlan \/ ApplyRefused
  \/ \E reply \in Replies : Apply(reply) \/ ApplyDelete(reply)

Next ==
  \/ HostStep
  \/ \E d \in Domains : Adopt(d)
  \/ PlanLost
  \/ AnswerLost
  \/ \E request \in late : Land(request)
  \/ \E s \in Specs : EditSpec(s)
  \/ \E z \in Zones, content \in UiZones : SaveInDashboard(z, content)

\* The host keeps refreshing, planning and applying, and what it applies is done
\* in the end; whether a lost request ever lands is open.
Fairness ==
  /\ WF_vars(Refresh)
  /\ WF_vars(MakePlan)
  /\ WF_vars(Apply("done") \/ ApplyRefused \/ ApplyDelete("done"))

Spec == Init /\ [][Next]_vars
FairSpec == Spec /\ Fairness

-----------------------------------------------------------------------------
(* Properties                                                              *)

\* The type invariant; a create is planned just while there is no output, an
\* update or a replace only for a resource that has one.
TypeOK ==
  /\ zone \in [Zones -> Contents]
  /\ spec \in Shape
  /\ saved # Absent => saved \in Outputs
  /\ plan # Absent => plan \in Plans /\ (plan.action = "create" <=> saved = Absent)
  /\ late \subseteq Requests
  /\ fresh \in {"written", "read", "stale", "declined"}
  /\ trouble \in 0..MaxTrouble

\* What a record means in DNS: spelling folded, a priority only on MX.
Meaning(r) ==
  <<Upper(r.type), Lower(r.name), r.data, r.ttl,
    IF Upper(r.type) = MX THEN r.mx ELSE Absent>>
MeaningOf(recs) == {Meaning(recs[i]) : i \in DOMAIN recs}

\* The zone of the saved output holds exactly what the spec declares.
ZoneMatchesSpec ==
  /\ saved # Absent
  /\ UpdateAccepted(saved.id, spec)
  /\ MeaningOf(zone[Fold(saved.id)].hosts) = MeaningOf(ParsedRecords(spec))

\* Neither zone nor spec lists a record twice.
Unambiguous ==
  NamesEachOnce(zone[Fold(saved.id)].hosts) /\ NamesEachOnce(ParsedRecords(spec))

\* The saved output is not older than the zone, and not of a declined write.
Fresh == fresh \in {"written", "read"}

\* "reports NeedsUpdate when the desired set differs": as long as the saved
\* output is fresh, a quiet Diff means the zone is as desired, however edits,
\* lost and late writes came before.  A declined write is the exception.
\* Of two entries for one record Diff sees the last one only.
FreshQuietMeansMatch ==
  Fresh /\ Diff(spec, saved) = "none" /\ Unambiguous => ZoneMatchesSpec

\* The converse: while the saved output is fresh and the zone is as desired, Diff
\* asks for nothing, whether the output came from the memory of Create and
\* Update or from Read.
MatchIsQuiet ==
  Fresh /\ ZoneMatchesSpec => Diff(spec, saved) = "none"

\* What is left of the converse: for a zone that is as desired Diff names no
\* other zone, and every change it lists is one in which the plan shows no
\* difference, spelling aside.
NoiseIsEmpty ==
  Fresh /\ ZoneMatchesSpec /\ Unambiguous =>
    /\ Diff(spec, saved) \in {"none", "update"}
    /\ \A ch \in DiffRecords(RecordsFromOutputs(saved), ParsedRecords(spec)) :
         /\ Absent \notin {ch.old, ch.new}
         /\ [ch.old EXCEPT !.name = ch.new.name] = ch.new

\* The same without the freshness: Diff notices whatever happened to the zone.
QuietMeansMatch ==
  saved # Absent /\ Diff(spec, saved) = "none" => ZoneMatchesSpec

\* Diff and Update agree on when a change of domain is a replace: an update
\* that Diff asked for is never refused for naming another zone.
PlannedUpdateNamesItsZone ==
  plan # Absent /\ plan.action = "update" => UpdateAccepted(saved.id, plan.spec)

\* A resource leaves nothing behind when it moves: its output gives up a zone
\* only in the step that empties that very zone, or whose Delete was declined
\* without an error.
MovesReleaseTheOldZone ==
  [][saved # Absent /\ (saved' = Absent \/ Fold(saved'.id) # Fold(saved.id))
       => zone'[Fold(saved.id)].hosts = <<>> \/ fresh' = "declined"]_vars

\* Once edits and failures stop, the zone comes to be as desired and stays so,
\* though Diff may have it written over and over; unless the spec is refused, or
\* the zone holds a record twice and hides the second behind the first.
ZoneSettles ==
  <>[](\/ ZoneMatchesSpec
       \/ ~(SpecValid(spec) /\ MXInRange(ParsedRecords(spec)))
       \/ saved # Absent /\ ~Unambiguous)
=============================================================================

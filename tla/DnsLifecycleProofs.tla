------------------------- MODULE DnsLifecycleProofs -------------------------
(***************************************************************************)
(* Proofs about DnsLifecycle, for any zones, specs and spellings and any   *)
(* number of edits, failures and crashes: what Diff says of a resource     *)
(* whose state is up to date, which updates it plans, and what a resource  *)
(* leaves behind when it moves to another zone.                            *)
(***************************************************************************)
EXTENDS DnsLifecycle, DnsRecordsProofs

\* Every zone lists types in upper case and MX records with their priority,
\* since the request of setHosts does.
ZonesAreCanonical == \A z \in Zones : Canonical(zone[z].hosts)

\* So does what is still under way.
RequestsAreCanonical == \A request \in late : Canonical(request.content.hosts)

\* An up-to-date output lists the hosts of its zone: the very ones, if it was
\* made from memory, or as GetHosts reports them.
FreshIsZone ==
  Fresh =>
    /\ saved # Absent
    /\ saved.records \in {zone[Fold(saved.id)].hosts, Reported(zone[Fold(saved.id)].hosts)}

\* The inductive invariant.
IInv ==
  /\ TypeOK /\ PlannedUpdateNamesItsZone
  /\ ZonesAreCanonical /\ RequestsAreCanonical /\ FreshIsZone

\* The config Import makes of an output is one a user may write.
LEMMA ImportTyped ==
  ASSUME NEW out \in Outputs
  PROVE  ImportedSpec(out) \in Shape
<1>1. out.id \in Domains /\ out.records \in Seq(Host)
  BY DEF Outputs
<1>2. Host \subseteq Entry
  BY DEF Host, Entry
<1>3. out.records \in Seq(Entry)
  <2>1. /\ DOMAIN out.records = 1..Len(out.records) /\ Len(out.records) \in Nat
        /\ \A i \in DOMAIN out.records : out.records[i] \in Entry
    BY <1>1, <1>2, ElementOfSeq
  <2>2. out.records \in [1..Len(out.records) -> Entry]
    BY <1>1, <2>1
  <2> QED BY <2>1, <2>2, SeqDef
<1> QED BY <1>1, <1>3 DEF ImportedSpec, Shape

\* The output Read makes of a zone.
LEMMA ReadTyped ==
  ASSUME TypeOK, NEW d \in Domains
  PROVE  LET out == OutputFromHosts(d, Reported(zone[Fold(d)].hosts))
         IN  /\ out \in Outputs /\ out # Absent
             /\ out.id = d /\ out.records = Reported(zone[Fold(d)].hosts)
<1>1. zone[Fold(d)].hosts \in Seq(Host)
  BY DEF TypeOK, Zones, Contents
<1>2. Reported(zone[Fold(d)].hosts) \in Seq(Host)
  BY <1>1, ReportedTyped
<1> QED BY <1>2, StateAssumption DEF OutputFromHosts, Outputs

-----------------------------------------------------------------------------
\* The invariant holds at the start.
LEMMA InitEstablishes == Init => IInv
<1> SUFFICES ASSUME Init PROVE IInv
  OBVIOUS
<1>1. TypeOK
  BY SpecsAssumption, ContentsAssumption, TroubleAssumption DEF Init, TypeOK
<1>2. ZonesAreCanonical
  BY ContentsAssumption DEF Init, ZonesAreCanonical
<1> QED
  BY <1>1, <1>2
  DEF Init, IInv, PlannedUpdateNamesItsZone, RequestsAreCanonical, FreshIsZone, Fresh

\* Refresh and Import take over what GetHosts reports.
LEMMA ReadStep ==
  ASSUME IInv, Refresh \/ \E d \in Domains : Adopt(d)
  PROVE  IInv'
<1>0. TypeOK /\ ZonesAreCanonical /\ RequestsAreCanonical
  BY DEF IInv
<1>1. UNCHANGED <<zone, plan, late, trouble>> /\ plan = Absent /\ fresh' = "read"
  BY DEF Refresh, Adopt
<1>2. PICK d \in Domains :
        /\ saved' = OutputFromHosts(d, Reported(zone[Fold(d)].hosts))
        /\ UNCHANGED spec \/ spec' = ImportedSpec(saved')
  <2>1. CASE Refresh
    BY <1>0, <2>1 DEF TypeOK, Refresh, Outputs
  <2>2. CASE \E d \in Domains : Adopt(d)
    BY <2>2 DEF Adopt
  <2> QED BY <2>1, <2>2
<1>3. /\ saved' \in Outputs /\ saved' # Absent
      /\ saved'.id = d /\ saved'.records = Reported(zone[Fold(d)].hosts)
  BY <1>0, <1>2, ReadTyped
<1>4. spec' \in Shape
  BY <1>0, <1>2, <1>3, ImportTyped DEF TypeOK
<1>5. TypeOK'
  BY <1>0, <1>1, <1>3, <1>4 DEF TypeOK
<1> QED
  BY <1>0, <1>1, <1>3, <1>5
  DEF IInv, PlannedUpdateNamesItsZone, ZonesAreCanonical, RequestsAreCanonical, FreshIsZone

\* Diff asks for an update only for the zone of the resource.
LEMMA UpdateNamesZone ==
  ASSUME TypeOK, saved # Absent, Diff(spec, saved) = "update"
  PROVE  UpdateAccepted(saved.id, spec)
<1>1. saved.id \in Domains /\ saved.id # Absent
  BY SentinelAssumption DEF TypeOK, Outputs
<1>2. SpecValid(spec) /\ ~NamesAnother(spec, saved)
  BY DEF Diff
<1> QED BY <1>1, <1>2 DEF NamesAnother, UpdateAccepted

\* A plan carries a spec that Diff has just accepted for the saved zone.
LEMMA PlanStep ==
  ASSUME IInv, MakePlan
  PROVE  IInv'
<1>0. TypeOK
  BY DEF IInv
<1>1. /\ plan' = [action |-> IF saved = Absent THEN "create" ELSE Diff(spec, saved),
                  spec |-> spec]
      /\ Diff(spec, saved) \in {"update", "replace"}
      /\ UNCHANGED <<zone, spec, saved, late, fresh, trouble>>
  BY DEF MakePlan
<1>2. plan' \in Plans /\ (plan'.action = "create" <=> saved = Absent)
  BY <1>0, <1>1 DEF TypeOK, Plans
<1>3. TypeOK'
  BY <1>0, <1>1, <1>2 DEF TypeOK
<1>4. PlannedUpdateNamesItsZone'
  BY <1>0, <1>1, UpdateNamesZone DEF PlannedUpdateNamesItsZone
<1> QED
  BY <1>1, <1>3, <1>4 DEF IInv, ZonesAreCanonical, RequestsAreCanonical, FreshIsZone, Fresh

-----------------------------------------------------------------------------
(* The writes                                                              *)

\* The domain a planned call names.
LEMMA PlanTyped ==
  ASSUME TypeOK, plan # Absent, plan.action = "replace" \/ PlanAccepted
  PROVE  /\ plan.spec \in Shape
         /\ PlanDomain \in Domains /\ Fold(PlanDomain) \in Zones
         /\ saved # Absent => PlanDomain = saved.id
         /\ PlanAccepted => SpecValid(plan.spec)
<1>1. plan \in Plans /\ plan.spec \in Shape /\ (plan.action = "create" <=> saved = Absent)
  BY DEF TypeOK, Plans
<1>2. CASE plan.action = "create"
  <2>1. SpecValid(plan.spec) /\ PlanDomain = SpecDomain(plan.spec)
    BY <1>2 DEF PlanAccepted, PlanDomain
  <2> QED BY <1>1, <1>2, <2>1, DomainTyped
<1>3. CASE plan.action # "create"
  <2>1. saved # Absent /\ PlanDomain = saved.id
    BY <1>1, <1>3 DEF PlanDomain
  <2>2. saved.id \in Domains
    BY <2>1 DEF TypeOK, Outputs
  <2> QED BY <1>1, <1>3, <2>1, <2>2 DEF Zones, PlanAccepted, UpdateAccepted
<1> QED BY <1>2, <1>3

\* A request of accepted records leaves a canonical zone, and so does the empty one.
LEMMA RequestCanonical ==
  ASSUME NEW s \in Shape, SpecValid(s)
  PROVE  /\ ZoneOf(ParsedRecords(s)) \in Contents
         /\ ZoneOf(ParsedRecords(s)).hosts = HostRecords(ParsedRecords(s))
         /\ Canonical(ZoneOf(ParsedRecords(s)).hosts)
<1>1. ZoneOf(ParsedRecords(s)) \in Contents
  BY RecordsTyped, ZoneTyped
<1>2. ZoneOf(ParsedRecords(s)).hosts = HostRecords(ParsedRecords(s))
  BY DEF ZoneOf
<1>3. DOMAIN HostRecords(ParsedRecords(s)) = DOMAIN ParsedRecords(s)
  BY DEF HostRecords
<1>4. Canonical(HostRecords(ParsedRecords(s)))
  BY <1>3, RequestHosts DEF Canonical
<1> QED BY <1>1, <1>2, <1>4

\* What Delete leaves behind is a zone as the API lists one.
LEMMA EmptyCanonical == EmptyZone \in Contents /\ EmptyZone.hosts = <<>> /\ Canonical(EmptyZone.hosts)
<1>1. EmptyZone.hosts = <<>> /\ EmptyZone \in Contents
  BY DEF EmptyZone, Contents
<1> QED BY <1>1 DEF Canonical

\* The request of a planned call is a canonical one, for the zone of the call.
LEMMA RequestTyped ==
  ASSUME TypeOK, plan # Absent, plan.action = "replace" \/ PlanAccepted
  PROVE  /\ PlannedRequest \in Requests /\ Canonical(PlannedRequest.content.hosts)
         /\ PlannedRequest.zone = Fold(PlanDomain)
         /\ plan.action = "replace" => PlannedRequest.content.hosts = <<>>
         /\ plan.action # "replace" =>
              PlannedRequest.content.hosts = HostRecords(ParsedRecords(plan.spec))
<1>1. Fold(PlanDomain) \in Zones /\ plan.spec \in Shape /\ (PlanAccepted => SpecValid(plan.spec))
  BY PlanTyped
<1>2. /\ PlannedRequest.zone = Fold(PlanDomain)
      /\ PlannedRequest.content = IF plan.action = "replace" THEN EmptyZone
                                  ELSE ZoneOf(ParsedRecords(plan.spec))
  BY DEF PlannedRequest
<1>3. CASE plan.action = "replace"
  <2>1. PlannedRequest.content \in Contents
    BY <1>2, <1>3, EmptyCanonical
  <2> QED BY <1>1, <1>2, <1>3, <2>1, EmptyCanonical DEF Requests, PlannedRequest
<1>4. CASE plan.action # "replace"
  <2>1. PlannedRequest.content \in Contents
    BY <1>1, <1>2, <1>4, RequestCanonical
  <2> QED BY <1>1, <1>2, <1>4, <2>1, RequestCanonical DEF Requests, PlannedRequest
<1> QED BY <1>3, <1>4

\* A whole-zone write of canonical content keeps the zones well formed.
LEMMA WriteKeeps ==
  ASSUME TypeOK, ZonesAreCanonical, NEW request \in Requests,
         Canonical(request.content.hosts), zone' = Written(request)
  PROVE  /\ zone' \in [Zones -> Contents] /\ ZonesAreCanonical'
         /\ zone'[request.zone] = request.content
BY DEF TypeOK, ZonesAreCanonical, Written, Requests

\* An answer, whichever it is, keeps the zones well formed and the bound.
LEMMA AnswerKeeps ==
  ASSUME TypeOK, ZonesAreCanonical, plan # Absent,
         plan.action = "replace" \/ PlanAccepted, NEW reply, Answered(reply)
  PROVE  /\ zone' \in [Zones -> Contents] /\ ZonesAreCanonical'
         /\ trouble' \in 0..MaxTrouble
         /\ reply \in Replies
         /\ reply = "done" => zone'[PlannedRequest.zone] = PlannedRequest.content
<1>1. PlannedRequest \in Requests /\ Canonical(PlannedRequest.content.hosts)
  BY RequestTyped
<1>2. CASE reply = "done"
  <2>1. zone' = Written(PlannedRequest) /\ UNCHANGED trouble
    BY <1>2 DEF Answered
  <2> QED BY <1>1, <1>2, <2>1, WriteKeeps DEF TypeOK, Replies
<1>3. CASE reply # "done"
  <2>1. reply = "declined" /\ UNCHANGED zone /\ trouble > 0 /\ trouble' = trouble - 1
    BY <1>3 DEF Answered, Trouble
  <2> QED BY <2>1, TroubleAssumption DEF TypeOK, ZonesAreCanonical, Replies
<1> QED BY <1>2, <1>3

\* Create and Update answer from memory, with the very hosts of their request,
\* for the zone that the planned spec names; a request that is done leaves them
\* there.
LEMMA ApplyFacts ==
  ASSUME TypeOK, ZonesAreCanonical, NEW reply, Apply(reply)
  PROVE  /\ plan.spec \in Shape /\ SpecValid(plan.spec)
         /\ MXInRange(ParsedRecords(plan.spec))
         /\ zone' \in [Zones -> Contents] /\ ZonesAreCanonical'
         /\ trouble' \in 0..MaxTrouble
         /\ reply \in Replies
         /\ reply = "done" =>
              zone'[Fold(PlanDomain)].hosts = HostRecords(ParsedRecords(plan.spec))
         /\ saved' \in Outputs /\ saved' # Absent /\ saved'.id = PlanDomain
         /\ saved'.records = HostRecords(ParsedRecords(plan.spec))
         /\ saved # Absent => PlanDomain = saved.id
<1> DEFINE recs == ParsedRecords(plan.spec)
<1>1. /\ plan # Absent /\ PlanAccepted /\ plan.action # "replace"
      /\ Answered(reply)
      /\ saved' = OutputFromRecords(PlanDomain, recs)
  BY DEF Apply
<1>2. /\ plan.spec \in Shape /\ SpecValid(plan.spec)
      /\ PlanDomain \in Domains /\ Fold(PlanDomain) \in Zones
      /\ saved # Absent => PlanDomain = saved.id
  BY <1>1, PlanTyped
<1>3. recs \in Seq(Record) /\ MXInRange(recs)
  BY <1>1, <1>2, RecordsTyped DEF PlanAccepted
<1>4. /\ zone' \in [Zones -> Contents] /\ ZonesAreCanonical'
      /\ trouble' \in 0..MaxTrouble /\ reply \in Replies
      /\ reply = "done" => zone'[PlannedRequest.zone] = PlannedRequest.content
  BY <1>1, AnswerKeeps
<1>5. /\ PlannedRequest.zone = Fold(PlanDomain)
      /\ PlannedRequest.content.hosts = HostRecords(recs)
  BY <1>1, RequestTyped
<1>6. saved' \in Outputs /\ saved'.records = HostRecords(recs)
  BY <1>1, <1>2, <1>3, MemoryTyped, MemoryIsRequest DEF Outputs
<1>7. saved'.id = PlanDomain
  BY <1>1 DEF OutputFromRecords
<1> QED BY <1>2, <1>3, <1>4, <1>5, <1>6, <1>7, StateAssumption

\* Create and Update leave an output that is up to date, or tell that the write
\* was declined.
LEMMA ApplyStep ==
  ASSUME IInv, NEW reply, Apply(reply)
  PROVE  IInv'
<1>0. TypeOK /\ ZonesAreCanonical /\ RequestsAreCanonical
  BY DEF IInv
<1>1. /\ plan' = Absent /\ UNCHANGED <<spec, late>>
      /\ fresh' = IF reply = "done" THEN "written" ELSE "declined"
  BY DEF Apply
<1>2. /\ zone' \in [Zones -> Contents] /\ ZonesAreCanonical'
      /\ trouble' \in 0..MaxTrouble
      /\ saved' \in Outputs /\ saved' # Absent
      /\ reply = "done" => saved'.records = zone'[Fold(saved'.id)].hosts
  BY <1>0, ApplyFacts
<1>3. TypeOK'
  BY <1>0, <1>1, <1>2 DEF TypeOK
<1> QED
  BY <1>0, <1>1, <1>2, <1>3
  DEF IInv, PlannedUpdateNamesItsZone, RequestsAreCanonical, FreshIsZone, Fresh

\* The Delete of a replace gives the state up, whatever became of the zone.
LEMMA DeleteStep ==
  ASSUME IInv, NEW reply, ApplyDelete(reply)
  PROVE  IInv'
<1>0. TypeOK /\ ZonesAreCanonical /\ RequestsAreCanonical
  BY DEF IInv
<1>1. /\ plan # Absent /\ plan.action = "replace" /\ saved' = Absent
      /\ Answered(reply)
      /\ fresh' \in {"stale", "declined"}
      /\ plan' = [plan EXCEPT !.action = "create"]
      /\ UNCHANGED <<spec, late>>
  BY DEF ApplyDelete
<1>2. zone' \in [Zones -> Contents] /\ ZonesAreCanonical' /\ trouble' \in 0..MaxTrouble
  BY <1>0, <1>1, AnswerKeeps
<1>3. plan' \in Plans /\ plan'.action = "create"
  BY <1>0, <1>1 DEF TypeOK, Plans
<1>4. TypeOK'
  BY <1>0, <1>1, <1>2, <1>3 DEF TypeOK
<1> QED
  BY <1>0, <1>1, <1>2, <1>3, <1>4
  DEF IInv, PlannedUpdateNamesItsZone, RequestsAreCanonical, FreshIsZone, Fresh

\* A zone that changes behind the host: its output is stale from then on if it
\* is about that zone.
LEMMA ChangeKeeps ==
  ASSUME IInv, NEW request \in Requests, Canonical(request.content.hosts),
         ChangeBehind(request), late' \subseteq late, trouble' \in 0..MaxTrouble
  PROVE  IInv'
<1>0. /\ TypeOK /\ ZonesAreCanonical /\ RequestsAreCanonical
      /\ PlannedUpdateNamesItsZone /\ FreshIsZone
  BY DEF IInv
<1>1. /\ zone' = Written(request)
      /\ fresh' = IF saved # Absent /\ Fold(saved.id) = request.zone THEN "stale" ELSE fresh
      /\ UNCHANGED <<spec, saved, plan>>
  BY DEF ChangeBehind
<1>2. zone' \in [Zones -> Contents] /\ ZonesAreCanonical'
  BY <1>0, <1>1, WriteKeeps
<1>3. TypeOK'
  BY <1>0, <1>1, <1>2 DEF TypeOK
<1>4. saved # Absent => Fold(saved.id) \in Zones
  BY <1>0 DEF TypeOK, Outputs, Zones
<1>5. FreshIsZone'
  BY <1>0, <1>1, <1>4 DEF FreshIsZone, Fresh, TypeOK, Written
<1>6. RequestsAreCanonical'
  BY <1>0 DEF RequestsAreCanonical
<1> QED BY <1>0, <1>1, <1>2, <1>3, <1>5, <1>6 DEF IInv, PlannedUpdateNamesItsZone

\* Requests that land late and dashboard edits.
LEMMA ForeignWrite ==
  ASSUME IInv,
         \/ \E request \in late : Land(request)
         \/ \E z \in Zones, content \in UiZones : SaveInDashboard(z, content)
  PROVE  IInv'
<1>0. TypeOK /\ RequestsAreCanonical
  BY DEF IInv
<1>1. ASSUME NEW request \in late, Land(request)
      PROVE  IInv'
  <2>1. request \in Requests /\ Canonical(request.content.hosts)
    BY <1>0 DEF TypeOK, RequestsAreCanonical
  <2>2. ChangeBehind(request) /\ late' \subseteq late /\ trouble' \in 0..MaxTrouble
    BY <1>0, <1>1 DEF TypeOK, Land
  <2> QED BY <2>1, <2>2, ChangeKeeps
<1>2. ASSUME NEW z \in Zones, NEW content \in UiZones, SaveInDashboard(z, content)
      PROVE  IInv'
  <2> DEFINE request == [zone |-> z, content |-> content]
  <2>1. request \in Requests /\ Canonical(request.content.hosts)
    BY ContentsAssumption DEF Requests
  <2>2. ChangeBehind(request) /\ late' \subseteq late /\ trouble' \in 0..MaxTrouble
    BY <1>0, <1>2, TroubleAssumption DEF TypeOK, SaveInDashboard, Trouble
  <2> HIDE DEF request
  <2> QED BY <2>1, <2>2, ChangeKeeps
<1> QED BY <1>1, <1>2

\* A request whose answer is lost stays under way, canonical as it is.
LEMMA LostStep ==
  ASSUME IInv, AnswerLost
  PROVE  IInv'
<1>0. TypeOK /\ ZonesAreCanonical /\ RequestsAreCanonical
  BY DEF IInv
<1>1. /\ plan # Absent /\ (plan.action = "replace" \/ PlanAccepted)
      /\ late' = late \cup {PlannedRequest}
      /\ plan' = Absent /\ UNCHANGED <<zone, spec, saved, fresh>>
  BY DEF AnswerLost
<1>2. PlannedRequest \in Requests /\ Canonical(PlannedRequest.content.hosts)
  BY <1>0, <1>1, RequestTyped
<1>3. trouble' \in 0..MaxTrouble
  BY <1>0, TroubleAssumption DEF TypeOK, AnswerLost, Trouble
<1>4. TypeOK'
  BY <1>0, <1>1, <1>2, <1>3 DEF TypeOK
<1>5. RequestsAreCanonical'
  BY <1>0, <1>1, <1>2 DEF RequestsAreCanonical
<1> QED
  BY <1>1, <1>4, <1>5
  DEF IInv, PlannedUpdateNamesItsZone, ZonesAreCanonical, FreshIsZone, Fresh

\* Refusing, giving up and editing leave zones and state alone.
LEMMA QuietSteps ==
  ASSUME IInv, ApplyRefused \/ PlanLost \/ \E s \in Specs : EditSpec(s)
  PROVE  IInv'
<1>0. TypeOK
  BY DEF IInv
<1>1. UNCHANGED <<zone, saved, late, fresh>> /\ (plan' = Absent \/ plan' = plan)
  BY DEF ApplyRefused, PlanLost, EditSpec
<1>2. spec' \in Shape /\ trouble' \in 0..MaxTrouble
  BY <1>0, SpecsAssumption, TroubleAssumption
  DEF TypeOK, ApplyRefused, PlanLost, EditSpec, Trouble
<1>3. TypeOK'
  BY <1>0, <1>1, <1>2 DEF TypeOK
<1> QED
  BY <1>1, <1>3
  DEF IInv, PlannedUpdateNamesItsZone, ZonesAreCanonical, RequestsAreCanonical, FreshIsZone,
      Fresh

\* Every step keeps the invariant.
LEMMA StepPreserves == IInv /\ [Next]_vars => IInv'
<1>1. ASSUME IInv, Next PROVE IInv'
  BY <1>1, ReadStep, PlanStep, ApplyStep, DeleteStep, LostStep, ForeignWrite, QuietSteps
  DEF Next, HostStep
<1>2. ASSUME IInv, UNCHANGED vars PROVE IInv'
  BY <1>2
  DEF IInv, TypeOK, PlannedUpdateNamesItsZone, ZonesAreCanonical, RequestsAreCanonical,
      FreshIsZone, Fresh, vars
<1> QED BY <1>1, <1>2

\* The inductive invariant holds in every reachable state.
THEOREM Invariance == Spec => []IInv
BY InitEstablishes, StepPreserves, PTL DEF Spec

\* Every zone, spec and output stays well formed whatever fails on the way.
THEOREM TypeCorrect == Spec => []TypeOK
<1>1. IInv => TypeOK
  BY DEF IInv
<1> QED BY <1>1, Invariance, PTL

\* Diff and Update agree on what another zone is: an update that Diff asked for
\* is never refused for naming another zone.
THEOREM UpdatesNameTheirZone == Spec => []PlannedUpdateNamesItsZone
<1>1. IInv => PlannedUpdateNamesItsZone
  BY DEF IInv
<1> QED BY <1>1, Invariance, PTL

\* A resource gives up a zone only in the Delete that empties this very zone, or
\* that was declined: Refresh, Create and Update keep the zone of its output.
THEOREM MovesLeaveNothing == Spec => MovesReleaseTheOldZone
<1> DEFINE Releases ==
      saved # Absent /\ (saved' = Absent \/ Fold(saved'.id) # Fold(saved.id))
        => zone'[Fold(saved.id)].hosts = <<>> \/ fresh' = "declined"
<1>1. ASSUME IInv, [Next]_vars
      PROVE  Releases
  <2>0. TypeOK
    BY <1>1 DEF IInv
  <2>1. CASE Refresh
    <3>1. saved.id \in Domains /\ saved' = OutputFromHosts(saved.id, Reported(zone[Fold(saved.id)].hosts))
      BY <2>0, <2>1 DEF TypeOK, Refresh, Outputs
    <3> QED BY <2>0, <3>1, ReadTyped
  <2>2. ASSUME NEW reply, Apply(reply) PROVE Releases
    <3>1. saved' # Absent /\ saved'.id = PlanDomain /\ (saved # Absent => PlanDomain = saved.id)
      BY <1>1, <2>0, <2>2, ApplyFacts DEF IInv
    <3> QED BY <3>1
  <2>3. ASSUME NEW reply, ApplyDelete(reply) PROVE Releases
    <3>1. /\ plan # Absent /\ plan.action = "replace" /\ Answered(reply)
          /\ fresh' = IF reply = "done" THEN "stale" ELSE "declined"
      BY <2>3 DEF ApplyDelete
    <3>2. /\ reply = "done" => zone'[PlannedRequest.zone] = PlannedRequest.content
          /\ PlannedRequest.zone = Fold(PlanDomain) /\ PlannedRequest.content.hosts = <<>>
          /\ saved # Absent => PlanDomain = saved.id
      BY <1>1, <2>0, <3>1, AnswerKeeps, RequestTyped, PlanTyped DEF IInv
    <3> QED BY <3>1, <3>2
  <2>4. CASE \E d \in Domains : Adopt(d)
    BY <2>4 DEF Adopt
  <2>5. CASE UNCHANGED saved
    BY <2>5
  <2> QED
    BY <1>1, <2>1, <2>2, <2>3, <2>4, <2>5
    DEF Next, HostStep, vars, MakePlan, ApplyRefused, PlanLost, AnswerLost, EditSpec,
        Land, SaveInDashboard, ChangeBehind
<1>2. Spec => [][Releases]_vars
  BY <1>1, Invariance, PTL DEF Spec
<1> QED BY <1>2 DEF MovesReleaseTheOldZone

-----------------------------------------------------------------------------
(* What Diff says of an up-to-date output                                  *)

\* Two records mean the same just when they are one record with one TTL and, on
\* MX, one priority.
LEMMA MeaningParts ==
  ASSUME NEW r, NEW q
  PROVE  Meaning(r) = Meaning(q) <=>
           /\ SameRecord(r, q) /\ r.ttl = q.ttl
           /\ Upper(r.type) = MX => r.mx = q.mx
BY DEF Meaning, SameRecord

\* The records Diff reads from an up-to-date output are those of the zone, up to
\* the priority of records that are not MX.
LEMMA CurrentIsZone ==
  ASSUME IInv, Fresh
  PROVE  LET hosts == zone[Fold(saved.id)].hosts
             current == RecordsFromOutputs(saved)
         IN  /\ hosts \in Seq(Host) /\ current \in Seq(Record)
             /\ DOMAIN current = DOMAIN hosts
             /\ \A i \in DOMAIN hosts :
                  /\ SameRecord(current[i], hosts[i])
                  /\ current[i].type = hosts[i].type /\ Upper(hosts[i].type) = hosts[i].type
                  /\ current[i].ttl = hosts[i].ttl
                  /\ hosts[i].type = MX => current[i].mx = hosts[i].mx
<1> DEFINE hosts == zone[Fold(saved.id)].hosts
           current == RecordsFromOutputs(saved)
<1>1. /\ saved \in Outputs /\ saved.records \in {hosts, Reported(hosts)}
      /\ Fold(saved.id) \in Zones
  BY DEF IInv, TypeOK, FreshIsZone, Fresh, Outputs, Zones
<1>2. hosts \in Seq(Host) /\ Canonical(hosts)
  BY <1>1 DEF IInv, TypeOK, Contents, ZonesAreCanonical
<1>3. /\ current \in Seq(Record) /\ DOMAIN current = DOMAIN saved.records
      /\ \A i \in DOMAIN current :
           /\ SameRecord(current[i], saved.records[i])
           /\ current[i].type = saved.records[i].type /\ current[i].ttl = saved.records[i].ttl
           /\ saved.records[i].mx # Absent => current[i].mx = saved.records[i].mx
  BY <1>1, OutputRecords DEF Outputs
<1> HIDE DEF hosts, current
<1>4. /\ DOMAIN saved.records = DOMAIN hosts
      /\ \A i \in DOMAIN hosts :
           /\ SameRecord(saved.records[i], hosts[i])
           /\ saved.records[i].type = hosts[i].type /\ saved.records[i].ttl = hosts[i].ttl
           /\ hosts[i].mx # Absent => saved.records[i].mx = hosts[i].mx
  <2>1. CASE saved.records = hosts
    BY <2>1 DEF SameRecord
  <2>2. CASE saved.records = Reported(hosts)
    BY <1>2, <2>2, ReportedHosts
  <2> QED BY <1>1, <2>1, <2>2
<1>5. ASSUME NEW i \in DOMAIN hosts
      PROVE  /\ SameRecord(current[i], hosts[i])
             /\ current[i].type = hosts[i].type /\ Upper(hosts[i].type) = hosts[i].type
             /\ current[i].ttl = hosts[i].ttl
             /\ hosts[i].type = MX => current[i].mx = hosts[i].mx
  BY <1>2, <1>3, <1>4 DEF Canonical, SameRecord
<1> QED BY <1>2, <1>3, <1>4, <1>5 DEF hosts, current

\* A zone that names no record twice gives a list that names none twice.
LEMMA CurrentNamesOnce ==
  ASSUME IInv, Fresh, NamesEachOnce(zone[Fold(saved.id)].hosts)
  PROVE  NamesEachOnce(RecordsFromOutputs(saved))
BY CurrentIsZone DEF NamesEachOnce, SameRecord

\* The desired records are canonical, in upper case.
LEMMA DesiredTyped ==
  ASSUME TypeOK, SpecValid(spec)
  PROVE  /\ ParsedRecords(spec) \in Seq(Record)
         /\ \A j \in DOMAIN ParsedRecords(spec) :
              /\ ParsedRecords(spec)[j] \in Record
              /\ Upper(ParsedRecords(spec)[j].type) = ParsedRecords(spec)[j].type
BY RecordsTyped, RequestHosts DEF TypeOK

\* As long as the output is not older than the zone and no record is listed
\* twice, a quiet Diff means that the zone is as desired.
THEOREM QuietIsTrue == Spec => []FreshQuietMeansMatch
<1>1. ASSUME IInv, Fresh, Diff(spec, saved) = "none", Unambiguous
      PROVE  ZoneMatchesSpec
  <2> DEFINE hosts == zone[Fold(saved.id)].hosts
             current == RecordsFromOutputs(saved)
             desired == ParsedRecords(spec)
  <2>0. TypeOK
    BY <1>1 DEF IInv
  <2>1. /\ saved # Absent /\ SpecValid(spec) /\ ~NamesAnother(spec, saved)
        /\ DiffRecords(current, desired) = {}
    BY <1>1 DEF IInv, FreshIsZone, Diff
  <2>2. saved.id # Absent
    BY <2>0, <2>1, SentinelAssumption DEF TypeOK, Outputs
  <2>3. UpdateAccepted(saved.id, spec)
    BY <2>1, <2>2 DEF NamesAnother, UpdateAccepted
  <2>4. DOMAIN current \subseteq Int /\ DOMAIN desired \subseteq Int
    BY <1>1, <2>0, <2>1, CurrentIsZone, DesiredTyped, ElementOfSeq
  <2>5. NamesEachOnce(current) /\ NamesEachOnce(desired)
    BY <1>1, CurrentNamesOnce DEF Unambiguous
  <2>6. ASSUME NEW i \in DOMAIN hosts, NEW j \in DOMAIN desired,
               SameRecord(current[i], desired[j]), ~Differs(current[i], desired[j])
        PROVE  Meaning(hosts[i]) = Meaning(desired[j])
    <3>1. /\ SameRecord(current[i], hosts[i]) /\ current[i].ttl = hosts[i].ttl
          /\ Upper(hosts[i].type) = MX => current[i].mx = hosts[i].mx
      BY <1>1, CurrentIsZone
    <3>2. SameRecord(hosts[i], desired[j])
      BY <2>6, <3>1 DEF SameRecord
    <3> QED BY <2>6, <3>1, <3>2, MeaningParts DEF Differs
  <2>7. /\ \A i \in DOMAIN hosts : \E j \in DOMAIN desired : Meaning(hosts[i]) = Meaning(desired[j])
        /\ \A j \in DOMAIN desired : \E i \in DOMAIN hosts : Meaning(hosts[i]) = Meaning(desired[j])
    <3>1. DOMAIN current = DOMAIN hosts
      BY <1>1, CurrentIsZone
    <3> HIDE DEF hosts, current, desired
    <3> QED BY <2>1, <2>4, <2>5, <2>6, <3>1, QuietPairing
  <2>8. MeaningOf(hosts) = MeaningOf(desired)
    BY <2>7 DEF MeaningOf
  <2> QED BY <2>1, <2>3, <2>8 DEF ZoneMatchesSpec
<1>2. IInv => FreshQuietMeansMatch
  BY <1>1 DEF FreshQuietMeansMatch
<1> QED BY <1>2, Invariance, PTL

\* A record of the zone and its like in the spec, shown as a change, differ in
\* the spelling of the host name only.
LEMMA NoDifferenceShown ==
  ASSUME IInv, Fresh, ZoneMatchesSpec,
         NEW i \in DOMAIN zone[Fold(saved.id)].hosts, NEW j \in DOMAIN ParsedRecords(spec),
         Meaning(zone[Fold(saved.id)].hosts[i]) = Meaning(ParsedRecords(spec)[j])
  PROVE  LET old == RecordToMap(RecordsFromOutputs(saved)[i])
             new == RecordToMap(ParsedRecords(spec)[j])
         IN  Absent \notin {old, new} /\ [old EXCEPT !.name = new.name] = new
<1> DEFINE hosts == zone[Fold(saved.id)].hosts
           c == RecordsFromOutputs(saved)[i]
           d == ParsedRecords(spec)[j]
<1>1. TypeOK /\ SpecValid(spec)
  BY DEF IInv, ZoneMatchesSpec, UpdateAccepted
<1>2. /\ RecordsFromOutputs(saved) \in Seq(Record)
      /\ i \in DOMAIN RecordsFromOutputs(saved)
      /\ SameRecord(c, hosts[i])
      /\ c.type = hosts[i].type /\ Upper(hosts[i].type) = hosts[i].type
      /\ c.ttl = hosts[i].ttl
      /\ hosts[i].type = MX => c.mx = hosts[i].mx
  BY CurrentIsZone
<1>3. c \in Record
  BY <1>2, ElementOfSeq
<1>4. d \in Record /\ Upper(d.type) = d.type
  BY <1>1, DesiredTyped
<1>5. /\ SameRecord(hosts[i], d) /\ hosts[i].ttl = d.ttl
      /\ Upper(hosts[i].type) = MX => hosts[i].mx = d.mx
  BY MeaningParts
<1> HIDE DEF hosts, c, d
<1>6. c.type = d.type /\ c.data = d.data /\ c.ttl = d.ttl /\ (c.type = MX => c.mx = d.mx)
  BY <1>2, <1>4, <1>5 DEF SameRecord
<1>7. ASSUME NEW x \in Record, NEW y \in Record,
             x.type = y.type, x.data = y.data, x.ttl = y.ttl, x.type = MX => x.mx = y.mx
      PROVE  /\ RecordToMap(x) \in Host /\ RecordToMap(y) \in Host
             /\ [RecordToMap(x) EXCEPT !.name = RecordToMap(y).name] = RecordToMap(y)
  BY <1>7 DEF RecordToMap, Record, Host
<1> QED BY <1>3, <1>4, <1>6, <1>7, RecordAssumption DEF c, d

\* For a zone that is as desired Diff names no other zone, and whatever update it
\* still asks for shows no difference, spelling aside.
THEOREM NoiseShowsNothing == Spec => []NoiseIsEmpty
<1>1. ASSUME IInv, Fresh, ZoneMatchesSpec, Unambiguous
      PROVE  /\ Diff(spec, saved) \in {"none", "update"}
             /\ \A ch \in DiffRecords(RecordsFromOutputs(saved), ParsedRecords(spec)) :
                  /\ Absent \notin {ch.old, ch.new}
                  /\ [ch.old EXCEPT !.name = ch.new.name] = ch.new
  <2> DEFINE hosts == zone[Fold(saved.id)].hosts
             current == RecordsFromOutputs(saved)
             desired == ParsedRecords(spec)
  <2>0. TypeOK /\ SpecValid(spec)
    BY <1>1 DEF IInv, ZoneMatchesSpec, UpdateAccepted
  <2>1. Diff(spec, saved) \in {"none", "update"}
    BY <1>1 DEF ZoneMatchesSpec, UpdateAccepted, Diff, NamesAnother
  <2>2. DOMAIN current \subseteq Int /\ DOMAIN desired \subseteq Int
    BY <1>1, <2>0, CurrentIsZone, DesiredTyped, ElementOfSeq
  <2>3. NamesEachOnce(current) /\ NamesEachOnce(hosts) /\ NamesEachOnce(desired)
    BY <1>1, CurrentNamesOnce DEF Unambiguous
  <2>4. /\ DOMAIN current = DOMAIN hosts
        /\ \A i \in DOMAIN hosts : SameRecord(current[i], hosts[i])
    BY <1>1, CurrentIsZone
  <2>5. MeaningOf(hosts) = MeaningOf(desired)
    BY <1>1 DEF ZoneMatchesSpec
  <2>6. ASSUME NEW i \in DOMAIN hosts, NEW j \in DOMAIN desired,
               SameRecord(current[i], desired[j])
        PROVE  Meaning(hosts[i]) = Meaning(desired[j])
    <3>1. PICK m \in DOMAIN hosts : Meaning(hosts[m]) = Meaning(desired[j])
      BY <2>5 DEF MeaningOf
    <3>2. SameRecord(hosts[m], desired[j]) /\ SameRecord(current[i], hosts[i])
      BY <2>4, <3>1, MeaningParts
    <3>3. SameRecord(hosts[m], hosts[i])
      BY <2>6, <3>2 DEF SameRecord
    <3> QED BY <2>3, <3>1, <3>3 DEF NamesEachOnce
  <2>7. /\ \A i \in DOMAIN current : \E j \in DOMAIN desired : SameRecord(current[i], desired[j])
        /\ \A j \in DOMAIN desired : \E i \in DOMAIN current : SameRecord(current[i], desired[j])
    <3>1. /\ \A i \in DOMAIN hosts : \E j \in DOMAIN desired : Meaning(hosts[i]) = Meaning(desired[j])
          /\ \A j \in DOMAIN desired : \E i \in DOMAIN hosts : Meaning(hosts[i]) = Meaning(desired[j])
      BY <2>5 DEF MeaningOf
    <3>2. /\ \A i \in DOMAIN hosts : \E j \in DOMAIN desired : SameRecord(hosts[i], desired[j])
          /\ \A j \in DOMAIN desired : \E i \in DOMAIN hosts : SameRecord(hosts[i], desired[j])
      BY <3>1, MeaningParts
    <3> HIDE DEF hosts, current, desired
    <3> QED BY <2>4, <3>2 DEF SameRecord
  <2>8. ASSUME NEW ch \in DiffRecords(current, desired)
        PROVE  /\ Absent \notin {ch.old, ch.new}
               /\ [ch.old EXCEPT !.name = ch.new.name] = ch.new
    <3>1. PICK i \in DOMAIN hosts, j \in DOMAIN desired :
            /\ SameRecord(current[i], desired[j])
            /\ ch.old = RecordToMap(current[i]) /\ ch.new = RecordToMap(desired[j])
      <4> HIDE DEF hosts, current, desired
      <4> QED BY <2>2, <2>3, <2>4, <2>7, ChangePairing
    <3>2. Meaning(hosts[i]) = Meaning(desired[j])
      BY <2>6, <3>1
    <3> QED BY <1>1, <3>1, <3>2, NoDifferenceShown
  <2> QED BY <2>1, <2>8
<1>2. IInv => NoiseIsEmpty
  BY <1>1 DEF NoiseIsEmpty
<1> QED BY <1>2, Invariance, PTL

-----------------------------------------------------------------------------
(* What it rests on that the zone settles                                  *)

\* A Delete of the host never empties a zone that the planned spec names.
ReplaceNamesAnotherZone ==
  plan # Absent /\ plan.action = "replace" => Fold(SpecDomain(plan.spec)) # Fold(saved.id)

\* Create or Update of the current spec makes the zone match it, unless it was
\* declined, and no step of the host undoes a match, declined or not, as long as
\* its plan was made from the current spec.
HostLeadsToMatch ==
  [][/\ Apply("done") /\ plan.spec = spec => ZoneMatchesSpec'
     /\ HostStep /\ ZoneMatchesSpec /\ (plan # Absent => plan.spec = spec)
          => ZoneMatchesSpec']_vars

\* Diff asks for a replace only when the two zones differ, and the output stays
\* as it is until the plan is applied or lost.
THEOREM ReplacesLeaveTheirZone == Spec => []ReplaceNamesAnotherZone
<1>1. Init => ReplaceNamesAnotherZone
  BY DEF Init, ReplaceNamesAnotherZone
<1>2. ASSUME IInv, ReplaceNamesAnotherZone, [Next]_vars
      PROVE  ReplaceNamesAnotherZone'
  <2>1. CASE MakePlan
    <3>1. /\ plan' = [action |-> IF saved = Absent THEN "create" ELSE Diff(spec, saved),
                      spec |-> spec]
          /\ UNCHANGED saved
      BY <2>1 DEF MakePlan
    <3>2. plan'.action = "replace" => saved # Absent /\ Diff(spec, saved) = "replace"
      BY <3>1
    <3>3. saved # Absent /\ Diff(spec, saved) = "replace" => NamesAnother(spec, saved)
      BY DEF Diff
    <3> QED BY <3>1, <3>2, <3>3 DEF ReplaceNamesAnotherZone, NamesAnother
  <2>2. CASE \E reply \in Replies : ApplyDelete(reply)
    <3>1. plan' = [plan EXCEPT !.action = "create"] /\ plan \in Plans
      BY <1>2, <2>2 DEF ApplyDelete, IInv, TypeOK
    <3>2. plan'.action = "create"
      BY <3>1 DEF Plans
    <3> QED BY <3>2 DEF ReplaceNamesAnotherZone
  <2>3. CASE plan' = Absent
    BY <2>3 DEF ReplaceNamesAnotherZone
  <2>4. CASE UNCHANGED <<saved, plan>>
    BY <1>2, <2>4 DEF ReplaceNamesAnotherZone
  <2> QED
    BY <1>2, <2>1, <2>2, <2>3, <2>4
    DEF Next, HostStep, vars, Refresh, Adopt, Apply, ApplyRefused, PlanLost, AnswerLost,
        EditSpec, Land, SaveInDashboard, ChangeBehind
<1> QED BY <1>1, <1>2, Invariance, PTL DEF Spec

\* The hosts of a request mean what the records mean: the byte keeps every
\* priority in range, and only those of other types are dropped.
LEMMA RequestMeans ==
  ASSUME NEW s \in Shape, SpecValid(s), MXInRange(ParsedRecords(s))
  PROVE  MeaningOf(HostRecords(ParsedRecords(s))) = MeaningOf(ParsedRecords(s))
<1> DEFINE recs == ParsedRecords(s)
<1>1. DOMAIN HostRecords(recs) = DOMAIN recs
  BY DEF HostRecords
<1>2. ASSUME NEW i \in DOMAIN recs
      PROVE  Meaning(HostRecords(recs)[i]) = Meaning(recs[i])
  <2>1. recs[i] \in Record /\ Upper(recs[i].type) = recs[i].type
    BY RequestHosts
  <2>2. recs[i].type = MX => recs[i].mx % 256 = recs[i].mx
    BY ByteKeepsPriority DEF MXInRange
  <2> HIDE DEF recs
  <2>3. HostRecords(recs)[i] = [recs[i] EXCEPT
          !.mx = IF recs[i].type = MX THEN recs[i].mx % 256 ELSE Absent]
    BY DEF HostRecords
  <2>4. /\ HostRecords(recs)[i].type = recs[i].type /\ HostRecords(recs)[i].name = recs[i].name
        /\ HostRecords(recs)[i].data = recs[i].data /\ HostRecords(recs)[i].ttl = recs[i].ttl
        /\ recs[i].type = MX => HostRecords(recs)[i].mx = recs[i].mx
    BY <2>1, <2>2, <2>3 DEF Record
  <2> QED BY <2>1, <2>4 DEF Meaning
<1> HIDE DEF recs
<1>3. MeaningOf(HostRecords(recs)) = MeaningOf(recs)
  BY <1>1, <1>2 DEF MeaningOf
<1> QED BY <1>3 DEF recs

\* Create and Update bring the zone of their plan to the spec of their plan; a
\* declined one leaves a match as it was.
LEMMA ApplyMatches ==
  ASSUME IInv, NEW reply, Apply(reply), plan.spec = spec,
         reply = "done" \/ ZoneMatchesSpec
  PROVE  ZoneMatchesSpec'
<1>0. /\ TypeOK /\ ZonesAreCanonical /\ PlanAccepted /\ UNCHANGED spec
      /\ Answered(reply) /\ plan # Absent
  BY DEF IInv, Apply
<1>1. /\ spec \in Shape /\ SpecValid(spec) /\ MXInRange(ParsedRecords(spec))
      /\ reply = "done" =>
           zone'[Fold(PlanDomain)].hosts = HostRecords(ParsedRecords(spec))
      /\ saved' # Absent /\ saved'.id = PlanDomain
      /\ saved # Absent => PlanDomain = saved.id
  BY <1>0, ApplyFacts
<1>2. UpdateAccepted(PlanDomain, spec)
  BY <1>0, <1>1 DEF PlanAccepted, PlanDomain, UpdateAccepted
<1>3. MeaningOf(zone'[Fold(PlanDomain)].hosts) = MeaningOf(ParsedRecords(spec))
  <2>1. CASE reply = "done"
    BY <1>1, <2>1, RequestMeans
  <2>2. CASE reply # "done"
    <3>1. UNCHANGED zone /\ ZoneMatchesSpec
      BY <1>0, <2>2 DEF Answered
    <3> QED BY <1>1, <3>1 DEF ZoneMatchesSpec
  <2> QED BY <2>1, <2>2
<1> QED BY <1>0, <1>1, <1>2, <1>3 DEF ZoneMatchesSpec

\* The safety behind ZoneSettles: each applied plan that is done brings the zone
\* to the spec, and Refresh, Diff, a repeated write and a Delete keep it there.
THEOREM ApplySettles == Spec => HostLeadsToMatch
<1> DEFINE Leads ==
      /\ Apply("done") /\ plan.spec = spec => ZoneMatchesSpec'
      /\ HostStep /\ ZoneMatchesSpec /\ (plan # Absent => plan.spec = spec)
           => ZoneMatchesSpec'
<1>1. ASSUME IInv, ReplaceNamesAnotherZone,
             HostStep, ZoneMatchesSpec, plan # Absent => plan.spec = spec
      PROVE  ZoneMatchesSpec'
  <2>0. /\ TypeOK /\ ZonesAreCanonical /\ saved # Absent /\ UpdateAccepted(saved.id, spec)
        /\ saved.id \in Domains
    BY <1>1 DEF IInv, TypeOK, Outputs, ZoneMatchesSpec
  <2>1. CASE Refresh
    <3>1. saved' # Absent /\ saved'.id = saved.id
      BY <2>0, <2>1, ReadTyped DEF Refresh
    <3> QED BY <1>1, <2>1, <3>1 DEF ZoneMatchesSpec, Refresh
  <2>2. ASSUME NEW reply, Apply(reply) PROVE ZoneMatchesSpec'
    <3>1. plan # Absent
      BY <2>2 DEF Apply
    <3> QED BY <1>1, <2>2, <3>1, ApplyMatches
  <2>3. CASE \E reply \in Replies : ApplyDelete(reply)
    <3>1. plan # Absent /\ plan.action = "replace"
      BY <2>3 DEF ApplyDelete
    <3>2. Fold(SpecDomain(spec)) # Fold(saved.id)
      BY <1>1, <3>1 DEF ReplaceNamesAnotherZone
    <3> QED BY <2>0, <3>2 DEF UpdateAccepted
  <2>4. CASE MakePlan \/ ApplyRefused
    BY <1>1, <2>4 DEF ZoneMatchesSpec, MakePlan, ApplyRefused
  <2> QED BY <1>1, <2>1, <2>2, <2>3, <2>4 DEF HostStep
<1>2. IInv /\ ReplaceNamesAnotherZone => Leads
  BY <1>1, ApplyMatches
<1>3. Spec => [][Leads]_vars
  BY <1>2, Invariance, ReplacesLeaveTheirZone, PTL DEF Spec
<1> QED BY <1>3 DEF HostLeadsToMatch
=============================================================================

-------------------------- MODULE DelegationProofs --------------------------
(***************************************************************************)
(* Proofs about Delegation, for any domains, spellings and nameservers:    *)
(* Diff is exact while the host's state is up to date, no domain is left   *)
(* with fewer than two nameservers, and nothing but the domain of spec and *)
(* state is ever touched.                                                  *)
(***************************************************************************)
EXTENDS Delegation, TLAPS

\* The inductive invariant.  What is written is up to date because the output
\* is normalised as the request is, and stays so until its domain is changed.
IInv == TypeOK /\ AtLeastTwoServers /\ FreshIsDelegated

\* The domain of an accepted spec is one of the registrar's.
LEMMA DomainRegistered ==
  ASSUME NEW s \in Shape, SpecValid(s)
  PROVE  SpecDomain(s) \in Domains /\ Fold(SpecDomain(s)) \in Registered
<1>1. RawDomain(s) \in Domains
  BY DEF SpecValid, RawDomain, Shape
<1> QED BY <1>1, CleanAssumption DEF SpecDomain, Registered

\* What normalizeNameservers returns are nameservers.
LEMMA NormalizedTyped ==
  ASSUME NEW servers \in SUBSET Servers
  PROVE  Normalized(servers) \in SUBSET Hosts
BY DEF Normalized, Hosts

\* A nameserver is one of its own spellings, and no other's.
LEMMA HostsAreNormal ==
  ASSUME NEW h \in Hosts
  PROVE  h \in Servers /\ Host(h) = h /\ h # Absent
BY HostAssumption DEF Hosts

\* Normalising a normal list changes nothing.
LEMMA NormalizedTwice ==
  ASSUME NEW servers \in SUBSET Hosts
  PROVE  servers \in SUBSET Servers /\ Normalized(servers) = servers
BY HostsAreNormal DEF Normalized

\* An output is well formed, holds nameservers only, and is not the missing state.
LEMMA OutputTyped ==
  ASSUME NEW d \in Domains, NEW servers \in SUBSET Servers
  PROVE  /\ Output(d, servers) \in Outputs /\ Output(d, servers) # Absent
         /\ Output(d, servers).id = d
         /\ Output(d, servers).nameservers = Normalized(servers)
<1>1. Output(d, servers) \in Outputs
  BY NormalizedTyped DEF Output, Outputs
<1> QED BY <1>1, SentinelAssumption DEF Output

-----------------------------------------------------------------------------
\* The invariant holds at the start.
LEMMA InitEstablishes == Init => IInv
BY ServersAssumption, SpecAssumption, TroubleAssumption
DEF Init, IInv, TypeOK, AtLeastTwoServers, FreshIsDelegated

\* The host takes over what the registrar says of a domain; a reply without a
\* list leaves it without nameservers, and not up to date.
LEMMA ReadStep ==
  ASSUME IInv, NEW reply \in {"listed", "nothing"},
         Refresh(reply) \/ \E d \in Domains : Adopt(d, reply)
  PROVE  IInv'
<1>0. TypeOK
  BY DEF IInv
<1>1. UNCHANGED <<delegated, plan, late>> /\ plan = Absent
  BY DEF Refresh, Adopt
<1>2. PICK d \in Domains :
        /\ Fold(d) \in Registered
        /\ Read(d, reply)
        /\ \/ UNCHANGED spec
           \/ spec' = [name |-> d, domain |-> d, nameservers |-> saved'.nameservers]
  <2>1. CASE Refresh(reply)
    BY <1>0, <2>1 DEF TypeOK, Refresh, Outputs
  <2>2. CASE \E d \in Domains : Adopt(d, reply)
    BY <2>2 DEF Adopt
  <2> QED BY <2>1, <2>2
<1>3. delegated[Fold(d)] \in SUBSET Hosts /\ {} \in SUBSET Hosts
  BY <1>0, <1>2 DEF TypeOK
<1>4. /\ saved' \in Outputs /\ saved' # Absent /\ saved'.id = d
      /\ saved'.nameservers \in {delegated[Fold(d)], {}}
      /\ fresh' \in {"read", "stale"}
      /\ fresh' # "stale" => saved'.nameservers = delegated[Fold(d)]
  <2>1. CASE reply = "listed"
    BY <1>2, <1>3, <2>1, NormalizedTwice, OutputTyped DEF Read
  <2>2. CASE reply = "nothing"
    BY <1>2, <1>3, <2>2, NormalizedTwice, OutputTyped DEF Read
  <2> QED BY <2>1, <2>2
<1>5. spec' \in Shape
  <2>1. saved'.nameservers \in SUBSET Servers
    BY <1>3, <1>4, NormalizedTwice
  <2> QED BY <1>0, <1>2, <2>1 DEF TypeOK, Shape
<1>6. trouble' \in 0..MaxTrouble
  BY <1>0, <1>2, TroubleAssumption DEF TypeOK, Read, Trouble
<1>7. TypeOK'
  BY <1>0, <1>1, <1>2, <1>4, <1>5, <1>6 DEF TypeOK
<1>8. AtLeastTwoServers' /\ FreshIsDelegated'
  BY <1>1, <1>4 DEF IInv, AtLeastTwoServers, FreshIsDelegated
<1> QED BY <1>7, <1>8 DEF IInv

\* The domain an accepted plan writes, and the nameservers it writes there.
LEMMA PlanTyped ==
  ASSUME TypeOK, PlanAccepted
  PROVE  /\ PlanDomain \in Domains /\ Fold(PlanDomain) \in Registered
         /\ plan.spec.nameservers \in SUBSET Servers
         /\ Cardinality(Normalized(plan.spec.nameservers)) >= 2
         /\ Fold(SpecDomain(plan.spec)) = Fold(PlanDomain)
         /\ saved # Absent => PlanDomain = saved.id
<1>1. plan # Absent /\ plan \in Plans /\ plan.spec \in Shape
  BY DEF TypeOK, PlanAccepted, Plans
<1>2. plan.spec.nameservers \in SUBSET Servers
  BY <1>1 DEF Shape
<1>3. CASE plan.action = "create"
  <2>1. saved = Absent /\ SpecValid(plan.spec) /\ PlanDomain = SpecDomain(plan.spec)
    BY <1>1, <1>3 DEF TypeOK, PlanAccepted, PlanDomain
  <2> QED BY <1>1, <1>2, <2>1, DomainRegistered DEF SpecValid
<1>4. CASE plan.action # "create"
  <2>1. saved # Absent /\ UpdateAccepted(saved.id, plan.spec) /\ PlanDomain = saved.id
    BY <1>1, <1>4 DEF TypeOK, PlanAccepted, PlanDomain
  <2>2. saved.id \in Domains /\ Fold(saved.id) \in Registered
    BY <2>1 DEF TypeOK, Outputs
  <2> QED BY <1>2, <2>1, <2>2 DEF UpdateAccepted, SpecValid
<1> QED BY <1>3, <1>4

\* The write of an accepted plan keeps the registrar's data in order.
LEMMA WriteKeeps ==
  ASSUME IInv, PlanAccepted, SetCustom
  PROVE  /\ delegated' \in [Registered -> SUBSET Hosts] /\ AtLeastTwoServers'
         /\ delegated'[Fold(PlanDomain)] = Normalized(plan.spec.nameservers)
         /\ \A z \in Registered : z # Fold(PlanDomain) => delegated'[z] = delegated[z]
<1>0. TypeOK /\ AtLeastTwoServers
  BY DEF IInv
<1>1. /\ Fold(PlanDomain) \in Registered
      /\ Normalized(plan.spec.nameservers) \in SUBSET Hosts
      /\ Cardinality(Normalized(plan.spec.nameservers)) >= 2
  BY <1>0, PlanTyped, NormalizedTyped
<1>2. /\ delegated \in [Registered -> SUBSET Hosts]
      /\ delegated' = [delegated EXCEPT ![Fold(PlanDomain)] = Normalized(plan.spec.nameservers)]
  BY <1>0 DEF TypeOK, SetCustom
<1> QED BY <1>0, <1>1, <1>2 DEF AtLeastTwoServers

\* What an accepted plan asks for is a well-formed request.
LEMMA RequestTyped ==
  ASSUME TypeOK, PlanAccepted
  PROVE  PlannedRequest \in Requests /\ AskedFor(PlannedRequest)
<1>1. /\ Fold(PlanDomain) \in Registered
      /\ Normalized(plan.spec.nameservers) \in SUBSET Hosts
      /\ Cardinality(Normalized(plan.spec.nameservers)) >= 2
  BY PlanTyped, NormalizedTyped
<1> QED BY <1>1, PlanTyped DEF PlannedRequest, Requests, AskedFor

\* Create and Update: an output is saved only on a confirmed write, else what
\* the host holds counts as stale as soon as the registrar's data change.
LEMMA ApplyStep ==
  ASSUME IInv, NEW reply \in {"updated", "unconfirmed"}, Apply(reply)
  PROVE  IInv'
<1>0. TypeOK /\ AtLeastTwoServers /\ FreshIsDelegated
  BY DEF IInv
<1>1. PlanAccepted /\ plan' = Absent /\ UNCHANGED spec
  BY DEF Apply
<1>2. trouble' \in 0..MaxTrouble
  BY <1>0, TroubleAssumption DEF TypeOK, Apply, Trouble
<1>3. late' \subseteq Requests
  BY <1>0, <1>1, RequestTyped DEF TypeOK, Apply
<1>4. CASE reply = "updated"
  <2>1. /\ SetCustom /\ fresh' = "written"
        /\ saved' = Output(PlanDomain, plan.spec.nameservers)
    BY <1>4 DEF Apply, Confirmed
  <2>2. /\ saved' \in Outputs /\ saved' # Absent /\ saved'.id = PlanDomain
        /\ saved'.nameservers = Normalized(plan.spec.nameservers)
        /\ Fold(PlanDomain) \in Registered
    BY <1>0, <1>1, <2>1, PlanTyped, OutputTyped
  <2>3. /\ delegated' \in [Registered -> SUBSET Hosts] /\ AtLeastTwoServers'
        /\ delegated'[Fold(PlanDomain)] = Normalized(plan.spec.nameservers)
    BY <1>1, <2>1, WriteKeeps
  <2>4. TypeOK'
    BY <1>0, <1>1, <1>2, <1>3, <2>1, <2>2, <2>3 DEF TypeOK
  <2> QED BY <2>2, <2>3, <2>4 DEF IInv, FreshIsDelegated
<1>5. CASE reply = "unconfirmed"
  <2>1. /\ UNCHANGED saved
        /\ fresh' = IF delegated' = delegated THEN fresh ELSE "stale"
        /\ SetCustom \/ UNCHANGED delegated
    BY <1>5 DEF Apply, Confirmed
  <2>2. delegated' \in [Registered -> SUBSET Hosts] /\ AtLeastTwoServers'
    BY <1>0, <1>1, <2>1, WriteKeeps DEF TypeOK, AtLeastTwoServers
  <2>3. TypeOK'
    BY <1>0, <1>1, <1>2, <1>3, <2>1, <2>2 DEF TypeOK
  <2> QED BY <1>0, <2>1, <2>2, <2>3 DEF IInv, FreshIsDelegated
<1> QED BY <1>4, <1>5

\* A change behind the host's back makes its state of that domain stale.
LEMMA BehindKeeps ==
  ASSUME IInv, NEW z \in Registered, NEW servers \in SUBSET Hosts, Cardinality(servers) >= 2,
         ChangeBehind(z, servers), late' \subseteq late, trouble' \in 0..MaxTrouble
  PROVE  IInv'
<1>0. TypeOK /\ AtLeastTwoServers /\ FreshIsDelegated
  BY DEF IInv
<1>1. /\ delegated \in [Registered -> SUBSET Hosts]
      /\ delegated' = [delegated EXCEPT ![z] = servers]
      /\ fresh' = IF saved # Absent /\ Fold(saved.id) = z THEN "stale" ELSE fresh
      /\ UNCHANGED <<spec, saved, plan>>
  BY <1>0 DEF TypeOK, ChangeBehind
<1>2. TypeOK'
  BY <1>0, <1>1 DEF TypeOK
<1>3. AtLeastTwoServers'
  BY <1>0, <1>1 DEF AtLeastTwoServers
<1>4. FreshIsDelegated'
  <2>1. saved # Absent => Fold(saved.id) \in Registered
    BY <1>0 DEF TypeOK
  <2> QED BY <1>0, <1>1, <2>1 DEF FreshIsDelegated
<1> QED BY <1>2, <1>3, <1>4 DEF IInv

\* The owner saves two nameservers at least.
LEMMA DashboardStep ==
  ASSUME IInv, NEW z \in Registered, NEW servers \in UiServers, SaveInDashboard(z, servers)
  PROVE  IInv'
<1>1. servers \in SUBSET Hosts /\ Cardinality(servers) >= 2
  BY ServersAssumption
<1>2. ChangeBehind(z, servers) /\ late' \subseteq late /\ trouble' \in 0..MaxTrouble
  BY TroubleAssumption DEF IInv, TypeOK, SaveInDashboard, Trouble
<1> QED BY <1>1, <1>2, BehindKeeps

\* So does a request that lands after the host has given it up.
LEMMA LandStep ==
  ASSUME IInv, NEW request \in late, Land(request)
  PROVE  IInv'
<1>1. /\ request.zone \in Registered /\ request.servers \in SUBSET Hosts
      /\ Cardinality(request.servers) >= 2
  BY DEF IInv, TypeOK, Requests
<1>2. /\ ChangeBehind(request.zone, request.servers)
      /\ late' \subseteq late /\ trouble' \in 0..MaxTrouble
  BY DEF IInv, TypeOK, Land
<1> QED BY <1>1, <1>2, BehindKeeps

\* Planning, refusing, giving up and editing leave registrar and state alone.
LEMMA HostSteps ==
  ASSUME IInv, MakePlan \/ ApplyRefused \/ PlanLost \/ \E s \in Specs : EditSpec(s)
  PROVE  IInv'
<1>0. TypeOK
  BY DEF IInv
<1>1. UNCHANGED <<delegated, saved, late, fresh>>
  BY DEF MakePlan, ApplyRefused, PlanLost, EditSpec
<1>2. spec' \in Shape /\ trouble' \in 0..MaxTrouble
  BY <1>0, SpecAssumption, TroubleAssumption
  DEF TypeOK, MakePlan, ApplyRefused, PlanLost, EditSpec, Trouble
<1>3. plan' # Absent => plan' \in Plans /\ (plan'.action = "create" <=> saved = Absent)
  <2>1. CASE MakePlan
    <3>1. /\ plan' = [action |-> IF saved = Absent THEN "create" ELSE Diff(spec, saved),
                      spec |-> spec]
          /\ Diff(spec, saved) \in {"update", "replace"} /\ spec \in Shape
      BY <1>0, <2>1 DEF MakePlan, TypeOK
    <3> QED BY <3>1 DEF Plans
  <2>2. CASE ApplyRefused \/ PlanLost \/ \E s \in Specs : EditSpec(s)
    BY <1>0, <2>2 DEF TypeOK, ApplyRefused, PlanLost, EditSpec
  <2> QED BY <2>1, <2>2
<1>4. TypeOK'
  BY <1>0, <1>1, <1>2, <1>3 DEF TypeOK
<1> QED BY <1>1, <1>4 DEF IInv, AtLeastTwoServers, FreshIsDelegated

\* Every step keeps the invariant.
LEMMA StepPreserves == IInv /\ [Next]_vars => IInv'
<1>1. ASSUME IInv, Next PROVE IInv'
  BY <1>1, ReadStep, ApplyStep, LandStep, DashboardStep, HostSteps DEF Next
<1>2. ASSUME IInv, UNCHANGED vars PROVE IInv'
  BY <1>2 DEF IInv, TypeOK, AtLeastTwoServers, FreshIsDelegated, vars
<1> QED BY <1>1, <1>2

-----------------------------------------------------------------------------
(* The theorems                                                            *)

\* The inductive invariant holds in every reachable state.
THEOREM Invariance == Spec => []IInv
BY InitEstablishes, StepPreserves, PTL DEF Spec

\* Whatever delegation.go writes and saves holds nameservers only, never a blank.
THEOREM TypeCorrect == Spec => []TypeOK
<1>1. IInv => TypeOK
  BY DEF IInv
<1> QED BY <1>1, Invariance, PTL

\* parseDelegationSpec counts the nameservers after it normalised them: no
\* domain is ever left with fewer than two.
THEOREM TwoServersStay == Spec => []AtLeastTwoServers
<1>1. IInv => AtLeastTwoServers
  BY DEF IInv
<1> QED BY <1>1, Invariance, PTL

\* Success is reported only of an update setCustom saw confirmed: what the host
\* holds as up to date is what the registrar has.
THEOREM ReportedIsDelegated == Spec => []FreshIsDelegated
<1>1. IInv => FreshIsDelegated
  BY DEF IInv
<1> QED BY <1>1, Invariance, PTL

\* While the host's state is up to date Diff is quiet just when the domain is
\* delegated as the spec says.
THEOREM DiffIsExact == Spec => []FreshDiffIsExact
<1>1. ASSUME IInv, fresh # "stale"
      PROVE  Diff(spec, saved) = "none" <=> Matches
  <2>1. /\ saved # Absent /\ saved \in Outputs /\ saved.nameservers \in SUBSET Hosts
        /\ saved.nameservers = delegated[Fold(saved.id)]
    BY <1>1 DEF IInv, TypeOK, FreshIsDelegated, Outputs
  <2>2. SameServers(saved.nameservers, spec.nameservers)
          <=> delegated[Fold(saved.id)] = Normalized(spec.nameservers)
    BY <2>1, NormalizedTwice DEF SameServers
  <2> QED BY <2>1, <2>2 DEF Diff, Matches, UpdateAccepted
<1>2. IInv => FreshDiffIsExact
  BY <1>1 DEF FreshDiffIsExact
<1> QED BY <1>2, Invariance, PTL

\* A delegation is never undone or moved: Create and Update touch only the
\* domain that spec and state name, with nothing but what the spec lists, at
\* once or late, and the refusing Delete leaves the host's state in place.
THEOREM DelegationStays == Spec => DelegationIsKept
<1> DEFINE Keeps ==
      /\ saved # Absent => saved' # Absent /\ saved'.id = saved.id
      /\ \A request \in late' \ late : AskedFor(request)
      /\ \A z \in Registered : delegated'[z] # delegated[z] =>
           LET request == [zone |-> z, servers |-> delegated'[z]]
           IN  request.servers \in UiServers \/ request \in late \/ AskedFor(request)
<1>1. ASSUME IInv, [Next]_vars
      PROVE  Keeps
  <2>0. TypeOK
    BY <1>1 DEF IInv
  <2>1. CASE \E reply \in {"updated", "unconfirmed"} : Apply(reply)
    <3>1. PlanAccepted /\ (SetCustom \/ UNCHANGED delegated)
      BY <2>1 DEF Apply
    <3>2. UNCHANGED saved \/ saved' = Output(PlanDomain, plan.spec.nameservers)
      BY <2>1 DEF Apply
    <3>3. saved # Absent => saved' # Absent /\ saved'.id = saved.id
      BY <2>0, <3>1, <3>2, PlanTyped, OutputTyped
    <3>4. late' \ late \subseteq {PlannedRequest} /\ AskedFor(PlannedRequest)
      BY <2>0, <2>1, <3>1, RequestTyped DEF Apply
    <3>5. ASSUME NEW z \in Registered, delegated'[z] # delegated[z]
          PROVE  AskedFor([zone |-> z, servers |-> delegated'[z]])
      <4>1. SetCustom
        BY <3>1, <3>5
      <4>2. z = Fold(PlanDomain) /\ delegated'[z] = Normalized(plan.spec.nameservers)
        BY <1>1, <3>1, <3>5, <4>1, WriteKeeps
      <4>3. [zone |-> z, servers |-> delegated'[z]] = PlannedRequest
        BY <4>2 DEF PlannedRequest
      <4> QED BY <3>4, <4>3
    <3> QED BY <3>3, <3>4, <3>5
  <2>2. CASE \E z \in Registered, servers \in UiServers : SaveInDashboard(z, servers)
    BY <2>0, <2>2 DEF TypeOK, SaveInDashboard, ChangeBehind
  <2>3. ASSUME NEW reply \in {"listed", "nothing"}, Refresh(reply)
        PROVE  Keeps
    <3>1. /\ saved.id \in Domains /\ delegated[Fold(saved.id)] \in SUBSET Servers
          /\ {} \in SUBSET Servers
      BY <2>0, <2>3, NormalizedTwice DEF TypeOK, Refresh, Outputs
    <3>2. UNCHANGED <<delegated, late>>
      BY <2>3 DEF Refresh
    <3>3. saved' # Absent /\ saved'.id = saved.id
      BY <2>3, <3>1, OutputTyped DEF Refresh, Read
    <3> QED BY <3>2, <3>3
  <2>4. CASE \E d \in Domains, reply \in {"listed", "nothing"} : Adopt(d, reply)
    BY <2>4 DEF Adopt
  <2>5. ASSUME NEW request \in late, Land(request)
        PROVE  Keeps
    <3>1. request \in Requests /\ request = [zone |-> request.zone, servers |-> request.servers]
      BY <2>0 DEF TypeOK, Requests
    <3>2. /\ delegated' = [delegated EXCEPT ![request.zone] = request.servers]
          /\ late' = late \ {request} /\ UNCHANGED saved
      BY <2>5 DEF Land, ChangeBehind
    <3>3. ASSUME NEW z \in Registered, delegated'[z] # delegated[z]
          PROVE  [zone |-> z, servers |-> delegated'[z]] \in late
      <4>1. z = request.zone /\ delegated'[z] = request.servers
        BY <2>0, <3>2, <3>3 DEF TypeOK
      <4>2. [zone |-> z, servers |-> delegated'[z]] = request
        BY <3>1, <4>1
      <4> QED BY <4>2
    <3> QED BY <3>2, <3>3
  <2>6. CASE UNCHANGED <<delegated, saved, late>>
    BY <2>6
  <2> QED
    BY <1>1, <2>1, <2>2, <2>3, <2>4, <2>6, <2>5
    DEF Next, vars, MakePlan, ApplyRefused, PlanLost, EditSpec
<1>2. Spec => [][Keeps]_vars
  BY <1>1, Invariance, PTL DEF Spec
<1> QED BY <1>2 DEF DelegationIsKept

-----------------------------------------------------------------------------
(* What the convergence of the resource rests on                           *)

\* What the host does by itself to the resource, the adoption of a domain aside.
HostStep ==
  \/ \E reply \in {"listed", "nothing"} : Refresh(reply)
  \/ MakePlan \/ ApplyRefused
  \/ \E reply \in {"updated", "unconfirmed"} : Apply(reply)

\* A confirmed Create or Update of the current spec delegates the domain as the
\* spec says and leaves Diff nothing to ask for; and no step of the host undoes
\* a match, as long as its plan was made from the current spec.
HostLeadsToMatch ==
  [][/\ Apply("updated") /\ plan.spec = spec => Matches' /\ Diff(spec, saved)' = "none"
     /\ HostStep /\ Matches /\ (plan # Absent => plan.spec = spec) => Matches']_vars

\* A confirmed apply makes the domain of its plan match its plan.
LEMMA ApplyMatches ==
  ASSUME IInv, Apply("updated"), plan.spec = spec
  PROVE  Matches' /\ Diff(spec, saved)' = "none"
<1>1. /\ TypeOK /\ PlanAccepted /\ SetCustom /\ UNCHANGED spec
      /\ saved' = Output(PlanDomain, plan.spec.nameservers)
  BY DEF IInv, Apply, Confirmed
<1>2. /\ PlanDomain \in Domains /\ plan.spec.nameservers \in SUBSET Servers
      /\ Fold(SpecDomain(plan.spec)) = Fold(PlanDomain)
  BY <1>1, PlanTyped
<1>3. SpecValid(plan.spec)
  BY <1>1 DEF PlanAccepted, UpdateAccepted
<1>4. /\ saved' # Absent /\ saved'.id = PlanDomain
      /\ saved'.nameservers = Normalized(plan.spec.nameservers)
  BY <1>1, <1>2, OutputTyped
<1>5. delegated'[Fold(PlanDomain)] = Normalized(plan.spec.nameservers)
  BY <1>1, WriteKeeps
<1>6. Normalized(Normalized(plan.spec.nameservers)) = Normalized(plan.spec.nameservers)
  BY <1>2, NormalizedTyped, NormalizedTwice
<1>7. /\ SpecValid(spec') /\ Fold(SpecDomain(spec')) = Fold(saved'.id)
      /\ SameServers(saved'.nameservers, spec'.nameservers)
  BY <1>1, <1>2, <1>3, <1>4, <1>6 DEF SameServers
<1>8. Matches'
  BY <1>1, <1>4, <1>5, <1>7 DEF Matches, UpdateAccepted
<1>9. Diff(spec', saved') = "none"
  BY <1>4, <1>7 DEF Diff
<1> QED BY <1>8, <1>9

\* The safety behind Converges: each apply the registrar confirms brings the
\* domain to the spec, and Refresh, Diff, and a repeated, refused or unconfirmed
\* write keep it there.
THEOREM ApplyConverges == Spec => HostLeadsToMatch
<1> DEFINE Leads ==
      /\ Apply("updated") /\ plan.spec = spec => Matches' /\ Diff(spec, saved)' = "none"
      /\ HostStep /\ Matches /\ (plan # Absent => plan.spec = spec) => Matches'
<1>1. ASSUME IInv, HostStep, Matches, plan # Absent => plan.spec = spec
      PROVE  Matches'
  <2>0. /\ TypeOK /\ saved # Absent /\ UpdateAccepted(saved.id, spec)
        /\ delegated[Fold(saved.id)] = Normalized(spec.nameservers)
    BY <1>1 DEF IInv, Matches
  <2>1. ASSUME NEW reply \in {"listed", "nothing"}, Refresh(reply)
        PROVE  Matches'
    <3>1. /\ saved.id \in Domains /\ delegated[Fold(saved.id)] \in SUBSET Servers
          /\ {} \in SUBSET Servers
      BY <2>0, NormalizedTwice DEF TypeOK, Outputs
    <3>2. saved' # Absent /\ saved'.id = saved.id
      BY <2>1, <3>1, OutputTyped DEF Refresh, Read
    <3> QED BY <2>0, <2>1, <3>2 DEF Matches, Refresh
  <2>2. ASSUME NEW reply \in {"updated", "unconfirmed"}, Apply(reply)
        PROVE  Matches'
    <3>1. /\ PlanAccepted /\ UNCHANGED spec /\ plan.spec = spec
          /\ SetCustom \/ UNCHANGED delegated
          /\ UNCHANGED saved \/ saved' = Output(PlanDomain, plan.spec.nameservers)
      BY <1>1, <2>2 DEF Apply, PlanAccepted
    <3>2. /\ PlanDomain = saved.id /\ PlanDomain \in Domains
          /\ plan.spec.nameservers \in SUBSET Servers
      BY <2>0, <3>1, PlanTyped
    <3>3. saved' # Absent /\ saved'.id = saved.id
      BY <2>0, <3>1, <3>2, OutputTyped
    <3>4. delegated'[Fold(saved.id)] = Normalized(spec.nameservers)
      BY <1>1, <2>0, <3>1, <3>2, WriteKeeps
    <3> QED BY <2>0, <3>1, <3>3, <3>4 DEF Matches
  <2>3. CASE MakePlan \/ ApplyRefused
    BY <2>0, <2>3 DEF Matches, MakePlan, ApplyRefused
  <2> QED BY <1>1, <2>1, <2>2, <2>3 DEF HostStep
<1>2. IInv => Leads
  BY <1>1, ApplyMatches
<1>3. Spec => [][Leads]_vars
  BY <1>2, Invariance, PTL DEF Spec
<1> QED BY <1>3 DEF HostLeadsToMatch
=============================================================================

----------------------------- MODULE Delegation -----------------------------
(***************************************************************************)
(* One infra.dns_delegation resource over its life                         *)
(* (internal/drivers/delegation.go): which nameservers the registrar       *)
(* delegates a domain to.  The Workflow host (external) plans with Diff    *)
(* and drives Create, Update, Delete and Read; the owner may also change   *)
(* the nameservers in the dashboard.  Unlike SetHosts, SetCustom must      *)
(* confirm the update, and Delete always refuses.  The client's requests   *)
(* do not take the call's context: one that the host has given up may      *)
(* reach the registrar at any later time.                                  *)
(*                                                                         *)
(* Nameserver lists are sets: normalizeNameservers drops order,            *)
(* repetitions, case and the trailing dot.  A list that is missing or of   *)
(* the wrong type is the empty set, as nameserversFromConfig has it.       *)
(***************************************************************************)
EXTENDS Integers, FiniteSets

CONSTANTS
  Absent,        \* no value, or blank
  Domains,       \* spellings of domain names
  Clean(_),      \* a spelling without spaces and trailing dot, in lower case
  Fold(_),       \* strings.EqualFold: the spellings equal but for case
  Servers,       \* spellings of nameservers
  Host(_),       \* the nameserver a spelling names, Absent for a blank one
  Specs,         \* the specs a user may write
  InitialServers,\* what every domain is delegated to at the start
  UiServers,     \* what the owner may choose in the dashboard
  MaxTrouble     \* bound on edits, failures and crashes

ASSUME CleanAssumption ==
  \A d \in Domains : Clean(d) \in Domains /\ Clean(d) # Absent
\* No spelling ends in two dots: what normalizeNameservers returns, it returns
\* unchanged when the driver applies it again.
ASSUME HostAssumption ==
  \A s \in Servers : Host(s) # Absent => Host(s) \in Servers /\ Host(Host(s)) = Host(s)

Hosts == {Host(s) : s \in Servers} \ {Absent}
Shape == [name : Domains \cup {Absent}, domain : Domains \cup {Absent},
          nameservers : SUBSET Servers]
Outputs == [id : Domains, nameservers : SUBSET Hosts]
Plans == [action : {"create", "update", "replace"}, spec : Shape]

Registered == {Fold(Clean(d)) : d \in Domains}
Requests == [zone : Registered, servers : {list \in SUBSET Hosts : Cardinality(list) >= 2}]

ASSUME SpecAssumption == Specs \subseteq Shape
ASSUME SentinelAssumption == Absent \notin Domains \cup Outputs \cup Plans
\* The registrar lists nameservers in their normal form, at least two of them.
ASSUME ServersAssumption ==
  \A servers \in UiServers \cup {InitialServers} :
    servers \subseteq Hosts /\ Cardinality(servers) >= 2
ASSUME TroubleAssumption == MaxTrouble \in Nat

VARIABLES
  delegated,  \* per domain: the nameservers the registrar has
  spec,       \* the desired state
  saved,      \* the output in the host's state, [id, nameservers], or Absent
  plan,       \* [action, spec] the host is about to apply, or Absent
  late,       \* requests [zone, servers] the host has given up, still under way
  fresh,      \* history: saved was "written" or "read" after the last change
              \* of its domain, or is "stale"
  trouble     \* what is left of MaxTrouble

vars == <<delegated, spec, saved, plan, late, fresh, trouble>>

-----------------------------------------------------------------------------
(* The driver's helpers                                                    *)

\* Broken form: blank entries count as nameservers.
WithBlanks(servers) == {Host(s) : s \in servers}

\* normalizeNameservers.
Normalized(servers) == {Host(s) : s \in servers} \ {Absent}

RawDomain(s) == IF s.domain # Absent THEN s.domain ELSE s.name
SpecDomain(s) == Clean(RawDomain(s))

\* Broken form: the entries are counted before they are normalised.
CountedRaw(s) == RawDomain(s) # Absent /\ Cardinality(s.nameservers) >= 2

SpecValid(s) ==
  RawDomain(s) # Absent /\ Cardinality(Normalized(s.nameservers)) >= 2

\* Broken form: the domains are compared by spelling.
SpelledAlike(current, s) == SpecValid(s) /\ SpecDomain(s) = current

UpdateAccepted(current, s) ==
  SpecValid(s) /\ Fold(SpecDomain(s)) = Fold(current)

Output(domain, servers) == [id |-> domain, nameservers |-> Normalized(servers)]

\* Broken form: the lists are compared as they are written.
SameSpelling(a, b) == a = b

\* equalNameserverSets.
SameServers(a, b) == Normalized(a) = Normalized(b)

Diff(s, current) ==
  IF current = Absent THEN "update"
  ELSE IF ~SpecValid(s) THEN "error"
  ELSE IF Fold(SpecDomain(s)) # Fold(current.id) THEN "replace"
  ELSE IF SameServers(current.nameservers, s.nameservers) THEN "none"
  ELSE "update"

-----------------------------------------------------------------------------
Init ==
  /\ delegated = [z \in Registered |-> InitialServers]
  /\ spec \in Specs
  /\ saved = Absent
  /\ plan = Absent
  /\ late = {}
  /\ fresh = "stale"
  /\ trouble = MaxTrouble

Trouble == trouble > 0 /\ trouble' = trouble - 1

\* Read: the registrar lists the nameservers, or answers without an error and
\* without a list, which nameserversFromGetList takes for an empty one.
Read(domain, reply) ==
  \/ /\ reply = "listed" /\ UNCHANGED trouble
     /\ saved' = Output(domain, delegated[Fold(domain)])
     /\ fresh' = "read"
  \/ /\ reply = "nothing" /\ Trouble
     /\ saved' = Output(domain, {})
     /\ fresh' = "stale"

Refresh(reply) ==
  /\ saved # Absent /\ plan = Absent
  /\ Read(saved.id, reply)
  /\ UNCHANGED <<delegated, spec, plan, late>>

\* Import of a domain by its name, whose user goes on with the imported config.
Adopt(d, reply) ==
  /\ saved = Absent /\ plan = Absent
  /\ Fold(d) \in Registered
  /\ Read(d, reply)
  /\ spec' = [name |-> d, domain |-> d, nameservers |-> saved'.nameservers]
  /\ UNCHANGED <<delegated, plan, late>>

MakePlan ==
  /\ plan = Absent
  /\ Diff(spec, saved) \in {"update", "replace"}
  /\ plan' = [action |-> IF saved = Absent THEN "create" ELSE Diff(spec, saved),
              spec |-> spec]
  /\ UNCHANGED <<delegated, spec, saved, late, fresh, trouble>>

PlanDomain == IF plan.action = "create" THEN SpecDomain(plan.spec) ELSE saved.id

PlanAccepted ==
  /\ plan # Absent /\ plan.action # "replace"
  /\ IF plan.action = "create" THEN SpecValid(plan.spec)
                               ELSE UpdateAccepted(saved.id, plan.spec)

SetCustom ==
  delegated' = [delegated EXCEPT ![Fold(PlanDomain)] = Normalized(plan.spec.nameservers)]

PlannedRequest ==
  [zone |-> Fold(PlanDomain), servers |-> Normalized(plan.spec.nameservers)]

\* Broken form: any reply without an error counts, as in DNSDriver.setHosts.
AnyReply(reply) == TRUE

\* What setCustom makes of the registrar's reply: an error unless the reply
\* confirms the update.
Confirmed(reply) == reply = "updated"

\* Create or Update: SetCustom is sent, the registrar performs it or not, and
\* says so or not, or does so later.
Apply(reply) ==
  /\ PlanAccepted
  /\ \/ reply = "updated" /\ SetCustom /\ UNCHANGED <<late, trouble>>
     \/ /\ reply = "unconfirmed" /\ Trouble
        /\ \/ SetCustom /\ UNCHANGED late
           \/ UNCHANGED delegated /\ late' \in {late, late \cup {PlannedRequest}}
  /\ IF Confirmed(reply)
     THEN /\ saved' = Output(PlanDomain, plan.spec.nameservers)
          /\ fresh' = "written"
     ELSE /\ fresh' = IF delegated' = delegated THEN fresh ELSE "stale"
          /\ UNCHANGED saved
  /\ plan' = Absent
  /\ UNCHANGED spec

\* Broken form: the Delete of a replace answers without an error and the host
\* drops its state.
ReplaceForgets ==
  /\ plan # Absent /\ ~PlanAccepted
  /\ plan' = Absent
  /\ saved' = IF plan.action = "replace" THEN Absent ELSE saved
  /\ UNCHANGED <<delegated, spec, late, fresh, trouble>>

\* The driver refuses the spec, or the Delete of a replace.
ApplyRefused ==
  /\ plan # Absent /\ ~PlanAccepted
  /\ plan' = Absent
  /\ UNCHANGED <<delegated, spec, saved, late, fresh, trouble>>

\* The host stops before it applies its plan.
PlanLost ==
  /\ plan # Absent /\ plan' = Absent
  /\ Trouble
  /\ UNCHANGED <<delegated, spec, saved, late, fresh>>

EditSpec(s) == spec' = s /\ Trouble /\ UNCHANGED <<delegated, saved, plan, late, fresh>>

\* The nameservers of a domain change behind the host's back.
ChangeBehind(z, servers) ==
  /\ delegated' = [delegated EXCEPT ![z] = servers]
  /\ fresh' = IF saved # Absent /\ Fold(saved.id) = z THEN "stale" ELSE fresh
  /\ UNCHANGED <<spec, saved, plan>>

\* A request that was given up reaches the registrar after all.
Land(request) ==
  /\ ChangeBehind(request.zone, request.servers)
  /\ late' = late \ {request}
  /\ UNCHANGED trouble

SaveInDashboard(z, servers) == ChangeBehind(z, servers) /\ Trouble /\ UNCHANGED late

Next ==
  \/ \E reply \in {"listed", "nothing"} :
       Refresh(reply) \/ \E d \in Domains : Adopt(d, reply)
  \/ MakePlan
  \/ \E reply \in {"updated", "unconfirmed"} : Apply(reply)
  \/ ApplyRefused
  \/ PlanLost
  \/ \E request \in late : Land(request)
  \/ \E s \in Specs : EditSpec(s)
  \/ \E z \in Registered, servers \in UiServers : SaveInDashboard(z, servers)

\* The host keeps refreshing, planning and applying; a request that was given up
\* need never reach the registrar.
Fairness ==
  /\ WF_vars(Refresh("listed"))
  /\ WF_vars(MakePlan)
  /\ WF_vars(ApplyRefused \/ Apply("updated"))

Spec == Init /\ [][Next]_vars
FairSpec == Spec /\ Fairness

-----------------------------------------------------------------------------
(* Properties                                                              *)

\* The type invariant: no blank ever counts as a nameserver, a request names two
\* at least, and a create is planned just while the host has no state.
TypeOK ==
  /\ delegated \in [Registered -> SUBSET Hosts]
  /\ spec \in Shape
  /\ saved # Absent => saved \in Outputs /\ Fold(saved.id) \in Registered
  /\ plan # Absent => plan \in Plans /\ (plan.action = "create" <=> saved = Absent)
  /\ late \subseteq Requests
  /\ fresh \in {"written", "read", "stale"}
  /\ trouble \in 0..MaxTrouble

Matches ==
  /\ saved # Absent
  /\ UpdateAccepted(saved.id, spec)
  /\ delegated[Fold(saved.id)] = Normalized(spec.nameservers)

\* While the saved output is not older than the registrar's data, Diff is exact:
\* it is quiet just when the domain is delegated as the spec says, in whatever
\* order and spelling.  The answer from memory of Create and Update counts too.
FreshDiffIsExact ==
  fresh # "stale" => (Diff(spec, saved) = "none" <=> Matches)

\* No domain is ever left with fewer than two nameservers, however often one
\* of them is repeated in a config.
AtLeastTwoServers ==
  \A z \in Registered : Cardinality(delegated[z]) >= 2

\* What the host holds as up to date is what the registrar has.  Above all,
\* success is never reported of an update the registrar did not confirm.
FreshIsDelegated ==
  fresh # "stale" => saved # Absent /\ saved.nameservers = delegated[Fold(saved.id)]

\* The spec being applied, and the state if there is one, ask for this request.
AskedFor(request) ==
  /\ Fold(SpecDomain(plan.spec)) = request.zone
  /\ saved # Absent => Fold(saved.id) = request.zone
  /\ request.servers = Normalized(plan.spec.nameservers)

\* A delegation is never undone or moved behind its owner's back: the host's
\* state keeps its domain, and only the domain of the spec and of the state is
\* ever touched, with nothing but what the spec lists; a request that arrives
\* late was asked for in the same way when it was given up.
DelegationIsKept ==
  [][/\ saved # Absent => saved' # Absent /\ saved'.id = saved.id
     /\ \A request \in late' \ late : AskedFor(request)
     /\ \A z \in Registered : delegated'[z] # delegated[z] =>
          LET request == [zone |-> z, servers |-> delegated'[z]]
          IN  request.servers \in UiServers \/ request \in late \/ AskedFor(request)]_vars

\* Once edits and failures stop, a resource whose spec keeps its domain comes
\* to rest: the domain is delegated as desired and Diff asks for nothing more.
\* A changed domain leads nowhere, since Delete refuses, and neither does a spec
\* the driver does not accept.
Converges ==
  <>[](\/ Matches /\ plan = Absent /\ Diff(spec, saved) = "none"
       \/ Diff(spec, saved) = "replace"
       \/ ~SpecValid(spec))
=============================================================================

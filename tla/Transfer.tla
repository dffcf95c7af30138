------------------------------ MODULE Transfer ------------------------------
(***************************************************************************)
(* One infra.domain_transfer resource over its life                        *)
(* (internal/drivers/transfer.go).  Creating a transfer places a           *)
(* chargeable order at Namecheap; Update only reads the order's status,    *)
(* and Delete always refuses.  The Workflow host (external) plans with     *)
(* Diff and drives the driver; the registrar moves orders on by itself.    *)
(*                                                                         *)
(* The client's request does not take the call's context, so a request     *)
(* whose caller has given up goes on and may place its order at any later  *)
(* time, also when the host has created again.                             *)
(*                                                                         *)
(* Orders are numbered in the order they were placed; the number is the    *)
(* transfer id.                                                            *)
(***************************************************************************)
EXTENDS Integers, Sequences, FiniteSets

CONSTANTS
  Absent,     \* no value
  Domains,    \* spellings of domain names, without trailing dot and spaces
  Fold(_),    \* the domain a spelling names (strings.EqualFold)
  Specs,      \* the specs a user may write
  MaxOrders,  \* bound on the orders at the registrar
  MaxTrouble  \* bound on edits, lost answers and crashes

\* complete: years, EPP code and the whois options parse; domain is Absent when
\* neither the config nor the name holds a valid one.
ASSUME SpecAssumption ==
  Specs \subseteq [domain : Domains \cup {Absent}, complete : BOOLEAN, confirm : BOOLEAN]
ASSUME BoundAssumption == MaxOrders \in Nat /\ MaxTrouble \in Nat

Statuses == {"pending", "completed", "failed"}
Order == [domain : Domains, status : Statuses]
Outputs == [id : Nat \cup {Absent}, domain : Domains \cup {Absent}, status : Statuses]
\* A request whose caller has given up; the tag, what was left of MaxTrouble then,
\* tells like ones apart.
Requests == [domain : Domains, tag : 1..MaxTrouble]
Plans == [action : {"create", "replace"}, spec : Specs]

ASSUME SentinelAssumption == Absent \notin Domains \cup Nat \cup Outputs \cup Plans

VARIABLES
  orders,      \* the orders at the registrar: [domain, status]
  spec,        \* the desired state
  saved,       \* the host's state: [id, domain, status], or Absent
  plan,        \* [action, spec] the host is about to apply, or Absent
  late,        \* the requests still under way whose callers have given up
  lost,        \* history: orders whose answer never reached the host's state
  unanswered,  \* history: how many creates ended without an answer
  wished,      \* history: the domains of the specs the user has confirmed
  trouble      \* what is left of MaxTrouble

vars == <<orders, spec, saved, plan, late, lost, unanswered, wished, trouble>>

\* parseTransferSpec accepts the spec.
SpecValid(s) == s.domain # Absent /\ s.complete

\* transferCreateOutput, for an answer [transfer, id, domain]: the flag makes the
\* status, whatever id the answer has.
CreateOutput(answer) ==
  [id |-> answer.id, domain |-> answer.domain,
   status |-> IF answer.transfer THEN "pending" ELSE "failed"]

\* What the registrar answers about an order.
StatusAnswer(id) == [id |-> id, status |-> orders[id].status]

\* Broken forms: the status of the answer is not taken over; its id is not.
FixedStatus(answer) == [id |-> answer.id, domain |-> Absent, status |-> "pending"]
NamelessStatus(answer) == [id |-> Absent, domain |-> Absent, status |-> answer.status]

\* transferStatusOutput: id and status are the answer's, which names no domain.
StatusOutput(answer) == [id |-> answer.id, domain |-> Absent, status |-> answer.status]

Diff(s, current) ==
  IF ~SpecValid(s) THEN "error"
  ELSE IF current = Absent THEN "update"
  ELSE IF current.domain # Absent /\ Fold(current.domain) # Fold(s.domain) THEN "replace"
  ELSE "none"

\* What a spec asks to spend money on.
Wish(s) == IF s.complete /\ s.confirm THEN {s.domain} \ {Absent} ELSE {}

-----------------------------------------------------------------------------
Init ==
  /\ orders = <<>>
  /\ spec \in Specs
  /\ saved = Absent
  /\ plan = Absent
  /\ late = {} /\ lost = {} /\ unanswered = 0
  /\ wished = Wish(spec)
  /\ trouble = MaxTrouble

Trouble == trouble > 0 /\ trouble' = trouble - 1

\* A resource without state is created; otherwise Diff decides.
MakePlan ==
  /\ plan = Absent
  /\ saved = Absent \/ Diff(spec, saved) \in {"update", "replace"}
  /\ plan' = [action |-> IF saved = Absent THEN "create" ELSE Diff(spec, saved),
              spec |-> spec]
  /\ UNCHANGED <<orders, spec, saved, late, lost, unanswered, wished, trouble>>

\* Broken forms: the confirmation is not asked for; the spec is not parsed.
ParsedOnly(s) == SpecValid(s)
ConfirmedOnly(s) == s.confirm

\* Create's checks before it contacts the registrar.
CreateAccepted(s) == SpecValid(s) /\ s.confirm

Planned(action) == plan # Absent /\ plan.action = action

\* The registrar takes an order, or keeps one that it turns down.
PlaceOrder(domain, status) ==
  /\ Len(orders) < MaxOrders /\ status \in {"pending", "failed"}
  /\ orders' = Append(orders, [domain |-> domain, status |-> status])

\* Create succeeds: the registrar took the order or turned it down, and answered
\* with the order's id or, having kept none, without.
Create ==
  /\ Planned("create") /\ CreateAccepted(plan.spec)
  /\ \/ \E status \in Statuses :
          /\ PlaceOrder(plan.spec.domain, status)
          /\ saved' = CreateOutput([transfer |-> status = "pending", id |-> Len(orders'),
                                    domain |-> plan.spec.domain])
     \/ /\ saved' = CreateOutput([transfer |-> FALSE, id |-> Absent,
                                  domain |-> plan.spec.domain])
        /\ UNCHANGED orders
  /\ plan' = Absent
  /\ UNCHANGED <<spec, late, lost, unanswered, wished, trouble>>

\* The order is placed but its answer is lost, or the host stops before it
\* saves the output; or the call is given up while its request is under way.
CreateAnswerLost ==
  /\ Planned("create") /\ CreateAccepted(plan.spec)
  /\ \/ /\ \E status \in Statuses : PlaceOrder(plan.spec.domain, status)
        /\ lost' = lost \cup {Len(orders')} /\ UNCHANGED late
     \/ /\ late' = late \cup {[domain |-> plan.spec.domain, tag |-> trouble]}
        /\ UNCHANGED <<orders, lost>>
  /\ plan' = Absent
  /\ unanswered' = unanswered + 1
  /\ Trouble
  /\ UNCHANGED <<spec, saved, wished>>

\* A request that was given up reaches the registrar after all.
Land(request) ==
  /\ late' = late \ {request}
  /\ \/ /\ \E status \in Statuses : PlaceOrder(request.domain, status)
        /\ lost' = lost \cup {Len(orders')}
     \/ UNCHANGED <<orders, lost>>
  /\ UNCHANGED <<spec, saved, plan, unanswered, wished, trouble>>

\* Create refuses the spec, the registrar answers an error, or the host stops.
CreateFails ==
  /\ Planned("create")
  /\ plan' = Absent
  /\ UNCHANGED <<orders, spec, saved, late, lost, unanswered, wished, trouble>>

\* Broken form: Delete answers without an error and the host drops its state.
ReplaceForgets ==
  /\ Planned("replace")
  /\ plan' = Absent
  /\ saved' = Absent
  /\ UNCHANGED <<orders, spec, late, lost, unanswered, wished, trouble>>

\* Delete always refuses, so a replace ends before it begins.
Replace ==
  /\ Planned("replace")
  /\ plan' = Absent
  /\ UNCHANGED <<orders, spec, saved, late, lost, unanswered, wished, trouble>>

\* Read, and Update which is a Read.  Without an id it asks for the resource's
\* name, which is no transfer id: an error, nothing changes.
Refresh ==
  /\ saved # Absent /\ plan = Absent /\ saved.id # Absent
  /\ saved' = StatusOutput(StatusAnswer(saved.id))
  /\ UNCHANGED <<orders, spec, plan, late, lost, unanswered, wished, trouble>>

\* Import by transfer id.
Adopt(id) ==
  /\ saved = Absent /\ plan = Absent
  /\ saved' = StatusOutput(StatusAnswer(id))
  /\ lost' = lost \ {id}
  /\ UNCHANGED <<orders, spec, plan, late, unanswered, wished, trouble>>

\* The registrar decides a transfer.
Decide(id, status) ==
  /\ orders[id].status = "pending"
  /\ orders' = [orders EXCEPT ![id].status = status]
  /\ UNCHANGED <<spec, saved, plan, late, lost, unanswered, wished, trouble>>

EditSpec(s) ==
  /\ spec' = s /\ wished' = wished \cup Wish(s)
  /\ Trouble
  /\ UNCHANGED <<orders, saved, plan, late, lost, unanswered>>

Next ==
  \/ MakePlan \/ Create \/ CreateAnswerLost \/ CreateFails \/ Replace \/ Refresh
  \/ \E request \in late : Land(request)
  \/ \E id \in DOMAIN orders : Adopt(id)
  \/ \E id \in DOMAIN orders, status \in {"completed", "failed"} : Decide(id, status)
  \/ \E s \in Specs : EditSpec(s)

Spec == Init /\ [][Next]_vars
\* The host carries out the plan it made, and it refreshes again and again: also
\* where it plans, in between, a replace that never succeeds, Refresh comes up
\* over and over and is not missed every time.
FairSpec ==
  Spec /\ WF_vars(Create \/ CreateFails \/ Replace) /\ SF_vars(Refresh)

-----------------------------------------------------------------------------
(* Properties                                                              *)

\* The type invariant: an order names a domain and is in one of three states,
\* and a replace is only planned for a transfer the host has state of.
TypeOK ==
  /\ orders \in Seq(Order)
  /\ Len(orders) <= MaxOrders
  /\ spec \in Specs
  /\ saved # Absent => saved \in Outputs /\ saved.id \in DOMAIN orders \cup {Absent}
  /\ plan # Absent =>
       /\ plan \in Plans
       /\ plan.action = "create" <=> saved = Absent
  /\ lost \subseteq DOMAIN orders
  /\ late \subseteq Requests /\ IsFiniteSet(late)
  /\ \A request \in late : request.tag > trouble
  /\ unanswered \in Nat
  /\ wished \subseteq Domains
  /\ trouble \in 0..MaxTrouble

\* Every chargeable order is accounted for: it is the one the host tracks, or
\* its answer was lost.  However often plan and apply run, no order is placed
\* beside the one already tracked.
OrdersAreAccounted ==
  DOMAIN orders = lost \cup (IF saved = Absent THEN {} ELSE {saved.id} \ {Absent})

\* Money is spent only for a domain the user has asked for in a complete and
\* confirmed spec, also where the order arrives after the host has given it up
\* and the user has changed the spec; and once, but for creates that were never
\* answered: each of those may have cost one order more.
OrdersAreOwed ==
  /\ \A id \in DOMAIN orders : orders[id].domain \in wished
  /\ \A request \in late : request.domain \in wished
  /\ Len(orders) + Cardinality(late) <= unanswered + (IF saved = Absent THEN 0 ELSE 1)

\* An order is for one domain for good and its outcome is final; the host goes on
\* tracking its order, and an outcome it has seen it does not forget.
OutcomesAreFinal ==
  [][\A id \in DOMAIN orders :
       /\ id \in DOMAIN orders' /\ orders'[id].domain = orders[id].domain
       /\ orders[id].status # "pending" => orders'[id].status = orders[id].status
       /\ saved # Absent /\ saved.id = id =>
            /\ saved' # Absent /\ saved'.id = id
            /\ saved.status # "pending" => saved'.status = saved.status]_vars

\* "want domain replacement": a spec for another domain than the tracked order's
\* makes Diff ask for a replace.
DomainChangeIsReplace ==
  saved # Absent /\ saved.id # Absent /\ SpecValid(spec)
    /\ Fold(orders[saved.id].domain) # Fold(spec.domain)
      => Diff(spec, saved) = "replace"

\* The outcome of a tracked transfer reaches the host, if it keeps refreshing.
OutcomeIsSeen ==
  \A id \in 1..MaxOrders :
    [](saved # Absent /\ saved.id = id /\ id \in DOMAIN orders /\ orders[id].status # "pending"
         => <>(saved # Absent /\ saved.id = id /\ saved.status = orders[id].status))

-----------------------------------------------------------------------------
(* The inductive invariant behind the theorems of TransferProofs           *)

\* What the host knows of a transfer is about the order it tracks, and is what
\* the registrar has decided or "pending"; without an order it is "failed".
SavedIsOwnOrder ==
  /\ saved # Absent /\ saved.id # Absent =>
       /\ saved.id \in DOMAIN orders
       /\ saved.domain \in {Absent, orders[saved.id].domain}
       /\ saved.status \in {"pending", orders[saved.id].status}
  /\ saved # Absent /\ saved.id = Absent => saved.status = "failed"

\* What the spec and the plan made of it ask for has been wished.
WishesAreKept ==
  /\ Wish(spec) \subseteq wished
  /\ plan # Absent => Wish(plan.spec) \subseteq wished

\* That an order is accounted for rests on the type invariant's "a create is
\* planned only without state", that an outcome is final on SavedIsOwnOrder.
IInv == TypeOK /\ OrdersAreAccounted /\ SavedIsOwnOrder /\ WishesAreKept /\ OrdersAreOwed
=============================================================================

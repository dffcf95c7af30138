------------------------------ MODULE DnsDriver ------------------------------
(***************************************************************************)
(* The RPC handlers of DNSDriver (internal/drivers/dns.go) as they run     *)
(* side by side: each call is a goroutine, the driver holds no lock, and   *)
(* the zones live behind the Namecheap API.  SetHosts replaces a whole     *)
(* zone; it takes no context, so once it is sent only the transport ends   *)
(* the wait, and a request the caller has given up on may still land.      *)
(*                                                                         *)
(* A call goes through the places where another actor can step in:         *)
(*   entered   the handler was invoked, nothing checked yet                *)
(*   parsed    Create and Update: spec accepted, context not yet rechecked *)
(*   sent      the API request is on its way                               *)
(*   applied   the API has performed it, the reply is on its way           *)
(*   returned  the caller has its answer                                   *)
(***************************************************************************)
EXTENDS DnsRecords, FiniteSets

CONSTANTS
  Calls,        \* the concurrent RPCs
  Jobs,         \* what a call may be asked: [op, id, name, spec]
  UiZones,      \* whole zones the account owner may save in the dashboard
  InitialZone,  \* what every zone holds at the start
  MayDecline,   \* whether the API may answer a write without an error and
                \* yet not perform it (IsSuccess = false in the response)
  MaxLate       \* bound on abandoned requests the network still carries

VARIABLES
  zone,       \* per zone: what the API serves, [hosts, email]
  pc,         \* per call: where it is
  job,        \* per call: what it was asked, Absent while idle
  cancelled,  \* per call: its context is done
  answer,     \* per call: [err, out], set when a read is served or a call returns
  late,       \* jobs whose abandoned write request may still be performed
  effect      \* history, per call: "none", "standing", "overwritten"

vars == <<zone, pc, job, cancelled, answer, late, effect>>

Ops == {"create", "read", "update", "delete", "health"}
Writes == {"create", "update", "delete"}

IsJob(j) ==
  /\ DOMAIN j = {"op", "id", "name", "spec"}
  /\ j.op \in Ops
  /\ {j.id, j.name} \subseteq Domains \cup {Absent}
  /\ j.op \in {"create", "update"} => j.spec \in Shape
  /\ j.op # "create" => ~(j.id = Absent /\ j.name = Absent)

ASSUME JobAssumption == Absent \notin Jobs /\ \A j \in Jobs : IsJob(j)
ASSUME ZoneAssumption == UiZones \cup {InitialZone} \subseteq Contents

\* Mail works: where a zone serves an MX record, its mail is routed by it.
MailFollows(content) ==
  (\E i \in DOMAIN content.hosts : Upper(content.hosts[i].type) = MX) => content.email = "MX"

\* The account owner keeps the mail of a zone in order; the driver has to do so
\* when it replaces the zone.
ASSUME MailAssumption == \A content \in UiZones \cup {InitialZone} : MailFollows(content)

ASSUME BoundAssumption == MayDecline \in BOOLEAN /\ MaxLate \in Nat

-----------------------------------------------------------------------------
(* What a call is about                                                    *)

\* ref.ProviderID, or ref.Name when it is empty.
RefDomain(j) == IF j.id # Absent THEN j.id ELSE j.name

\* The domain the request names: Create takes the spec's, the others the ref's.
Target(j) == IF j.op = "create" THEN SpecDomain(j.spec) ELSE RefDomain(j)

SpecAccepted(j) ==
  IF j.op = "update" THEN UpdateAccepted(RefDomain(j), j.spec) ELSE SpecValid(j.spec)

\* The SetHosts arguments beside the domain.
Payload(j) == IF j.op = "delete" THEN EmptyZone ELSE ZoneOf(ParsedRecords(j.spec))

\* What a successful call answers.
Output(j, z) ==
  CASE j.op \in {"create", "update"} ->
         OutputFromRecords(Target(j), ParsedRecords(j.spec))
    [] j.op = "read" ->
         OutputFromHosts(Target(j), Reported(z[Fold(Target(j))].hosts))
    [] OTHER -> Absent

NoAnswer == [err |-> FALSE, out |-> Absent]
Error == [err |-> TRUE, out |-> Absent]

-----------------------------------------------------------------------------
Init ==
  /\ zone = [z \in Zones |-> InitialZone]
  /\ pc = [c \in Calls |-> "idle"]
  /\ job = [c \in Calls |-> Absent]
  /\ cancelled = [c \in Calls |-> FALSE]
  /\ answer = [c \in Calls |-> NoAnswer]
  /\ late = {}
  /\ effect = [c \in Calls |-> "none"]

\* The gRPC server starts a handler.
Invoke(c) ==
  /\ pc[c] = "idle"
  /\ \E j \in Jobs : job' = [job EXCEPT ![c] = j]
  /\ pc' = [pc EXCEPT ![c] = "entered"]
  /\ UNCHANGED <<zone, cancelled, answer, late, effect>>

\* The caller gives up, or its deadline passes, at any point of the call.
Cancel(c) ==
  /\ pc[c] \notin {"idle", "returned"}
  /\ ~cancelled[c]
  /\ cancelled' = [cancelled EXCEPT ![c] = TRUE]
  /\ UNCHANGED <<zone, pc, job, answer, late, effect>>

Return(c, a) ==
  /\ pc' = [pc EXCEPT ![c] = "returned"]
  /\ answer' = [answer EXCEPT ![c] = a]

MayEnter(c) ==
  /\ ~cancelled[c]
  /\ job[c].op \in {"create", "update"} => SpecAccepted(job[c])

\* The handler's checks before it first touches the network.
Enter(c) ==
  /\ pc[c] = "entered"
  /\ IF MayEnter(c)
     THEN /\ pc' = [pc EXCEPT ![c] =
                      IF job[c].op \in {"create", "update"} THEN "parsed" ELSE "sent"]
          /\ UNCHANGED answer
     ELSE Return(c, Error)
  /\ UNCHANGED <<zone, job, cancelled, late, effect>>

\* Broken forms: the priorities are not checked; the context is not rechecked.
MaySendAnyPriority(c) == ~cancelled[c]
MaySendCancelled(c) == MXInRange(ParsedRecords(job[c].spec))

MaySend(c) == ~cancelled[c] /\ MXInRange(ParsedRecords(job[c].spec))

\* Broken form: a refused call is left without an answer.
SendOrHang(c) ==
  /\ pc[c] = "parsed" /\ MaySend(c)
  /\ pc' = [pc EXCEPT ![c] = "sent"]
  /\ UNCHANGED <<zone, job, cancelled, answer, late, effect>>

\* Create and Update: recheck the context, build the request and send it.  The
\* recheck is the last look at the context: a caller who withdraws after it finds
\* the call in phase "sent", where the request is performed or not.
Send(c) ==
  /\ pc[c] = "parsed"
  /\ IF MaySend(c)
     THEN pc' = [pc EXCEPT ![c] = "sent"] /\ UNCHANGED answer
     ELSE Return(c, Error)
  /\ UNCHANGED <<zone, job, cancelled, late, effect>>

-----------------------------------------------------------------------------
(* The Namecheap API and the network                                       *)

\* A write to zone z ends the standing of every earlier write to z.
Overwritten(z) ==
  [d \in Calls |-> IF effect[d] = "standing" /\ Fold(Target(job[d])) = z
                   THEN "overwritten" ELSE effect[d]]

\* The API performs the request of c.
Perform(c) ==
  /\ pc[c] = "sent"
  /\ pc' = [pc EXCEPT ![c] = "applied"]
  /\ IF job[c].op \in Writes
     THEN LET z == Fold(Target(job[c]))
          IN  /\ zone' = [zone EXCEPT ![z] = Payload(job[c])]
              /\ effect' = [Overwritten(z) EXCEPT ![c] = "standing"]
              /\ UNCHANGED answer
     ELSE /\ answer' = [answer EXCEPT ![c] = [err |-> FALSE, out |-> Output(job[c], zone)]]
          /\ UNCHANGED <<zone, effect>>
  /\ UNCHANGED <<job, cancelled, late>>

\* The API answers a write without an error, IsSuccess = false.  The driver
\* looks at the error only: it goes on as after Perform.
Decline(c) ==
  /\ MayDecline
  /\ pc[c] = "sent" /\ job[c].op \in Writes
  /\ pc' = [pc EXCEPT ![c] = "applied"]
  /\ UNCHANGED <<zone, job, cancelled, answer, late, effect>>

\* The reply arrives and the handler builds its answer from it.
Reply(c) ==
  /\ pc[c] = "applied"
  /\ Return(c, IF job[c].op \in Writes
               THEN [err |-> FALSE, out |-> Output(job[c], zone)]
               ELSE answer[c])
  /\ UNCHANGED <<zone, job, cancelled, late, effect>>

\* Broken form: the error of a write is dropped.
DropError(j) == IF j.op \in Writes THEN NoAnswer ELSE Error

\* What the handler answers when the client reports an error (for a health
\* check: unhealthy).
OnFailure(j) == Error

\* The API refuses the request, or the connection breaks: before the request
\* was performed, with a write perhaps still under way, or after it.
Fail(c) ==
  /\ pc[c] \in {"sent", "applied"}
  /\ Return(c, OnFailure(job[c]))
  /\ \/ late' = late
     \/ /\ pc[c] = "sent" /\ job[c].op \in Writes
        /\ late' = late \cup {job[c]}
        /\ Cardinality(late') <= MaxLate
  /\ UNCHANGED <<zone, job, cancelled, effect>>

\* An abandoned write is performed after all.
PerformLate(j) ==
  /\ zone' = [zone EXCEPT ![Fold(Target(j))] = Payload(j)]
  /\ effect' = Overwritten(Fold(Target(j)))
  /\ late' = late \ {j}
  /\ UNCHANGED <<pc, job, cancelled, answer>>

\* The account owner saves a zone in the dashboard.
SaveInDashboard(z, content) ==
  /\ zone' = [zone EXCEPT ![z] = content]
  /\ effect' = Overwritten(z)
  /\ UNCHANGED <<pc, job, cancelled, answer, late>>

\* The caller is done with the answer; the slot may serve another call.
Release(c) ==
  /\ pc[c] = "returned"
  /\ pc' = [pc EXCEPT ![c] = "idle"]
  /\ job' = [job EXCEPT ![c] = Absent]
  /\ cancelled' = [cancelled EXCEPT ![c] = FALSE]
  /\ answer' = [answer EXCEPT ![c] = NoAnswer]
  /\ effect' = [effect EXCEPT ![c] = "none"]
  /\ UNCHANGED <<zone, late>>

Next ==
  \/ \E c \in Calls :
       \/ Invoke(c) \/ Cancel(c) \/ Enter(c) \/ Send(c)
       \/ Perform(c) \/ Decline(c) \/ Reply(c) \/ Fail(c) \/ Release(c)
  \/ \E j \in late : PerformLate(j)
  \/ \E z \in Zones, content \in UiZones : SaveInDashboard(z, content)

\* A handler runs to its end and the API or the transport answers; a caller
\* need not call, cancel or release, an abandoned request need never land.
Progress(c) == Enter(c) \/ Send(c) \/ Perform(c) \/ Decline(c) \/ Reply(c) \/ Fail(c)
Fairness == \A c \in Calls : WF_vars(Progress(c))

Spec == Init /\ [][Next]_vars
FairSpec == Spec /\ Fairness
-----------------------------------------------------------------------------
(* Properties                                                              *)

Statuses == {"idle", "entered", "parsed", "sent", "applied", "returned"}

Outputs == {Absent} \cup [id : Domains, records : Seq(Host)]

\* The type invariant: whatever is written to a zone is a well-formed list of
\* hosts, whatever is answered a well-formed output.
TypeOK ==
  /\ zone \in [Zones -> Contents]
  /\ pc \in [Calls -> Statuses]
  /\ job \in [Calls -> Jobs \cup {Absent}]
  /\ \A c \in Calls : pc[c] # "idle" => job[c] \in Jobs
  /\ cancelled \in [Calls -> BOOLEAN]
  /\ answer \in [Calls -> [err : BOOLEAN, out : Outputs]]
  /\ late \subseteq {j \in Jobs : j.op \in Writes}
  /\ effect \in [Calls -> {"none", "standing", "overwritten"}]

\* What the driver has checked of a job before its write request is sent.
Sendable(j) ==
  /\ j.op \in Writes
  /\ j.op # "delete" => SpecAccepted(j) /\ MXInRange(ParsedRecords(j.spec))

\* A call past its first checks carries a spec they accepted, and a write
\* request is only ever sent for a job that passed all of them.
SentIsChecked ==
  /\ \A c \in Calls :
       /\ pc[c] = "parsed" => job[c].op \in {"create", "update"} /\ SpecAccepted(job[c])
       /\ pc[c] \in {"sent", "applied"} /\ job[c].op \in Writes => Sendable(job[c])
  /\ \A j \in late : Sendable(j)

\* A standing effect is a performed write that its zone still shows.
StandingIsInZone ==
  \A c \in Calls : effect[c] = "standing" =>
    /\ pc[c] \in {"applied", "returned"}
    /\ Sendable(job[c])
    /\ zone[Fold(Target(job[c]))] = Payload(job[c])

\* The answer of a successful Create or Update is made from its own spec.
AnswerIsOwnOutput ==
  \A c \in Calls :
    pc[c] = "returned" /\ ~answer[c].err /\ job[c].op \in {"create", "update"} =>
      answer[c].out = OutputFromRecords(Target(job[c]), ParsedRecords(job[c].spec))

\* The inductive invariant behind the theorems of DnsDriverProofs.
IInv == TypeOK /\ SentIsChecked /\ StandingIsInZone /\ AnswerIsOwnOutput

\* Ok and still standing: the caller was told its write succeeded and nothing
\* has written the zone since.
Stands(c) == pc[c] = "returned" /\ ~answer[c].err /\ effect[c] = "standing"

\* Create and Update answer from memory, without reading the zone back: as
\* long as no other write reaches the zone, that answer is what the zone holds.
StandingOutputIsTruth ==
  \A c \in Calls :
    Stands(c) /\ job[c].op \in {"create", "update"} =>
      /\ Fold(answer[c].out.id) = Fold(Target(job[c]))
      /\ answer[c].out.records = zone[Fold(Target(job[c]))].hosts

\* A write answered without error was performed: "if it succeeded, the zone
\* now matches", until somebody else writes it.
AnswerIsHonest ==
  \A c \in Calls :
    pc[c] = "returned" /\ job[c].op \in Writes /\ ~answer[c].err => effect[c] # "none"

\* Mail works: a zone that serves an MX record also routes mail by its MX
\* records, however the type was spelled in the config.
MailFollowsRecords == \A z \in Zones : MailFollows(zone[z])

\* The write requests the API may perform now.
Pending == {job[c] : c \in {d \in Calls : pc[d] = "sent" /\ job[d].op \in Writes}} \cup late

\* A write touches the zone its caller named and no other; an Update only a
\* zone that both its ref and its spec name.
WritesStayInZone ==
  [][\A z \in Zones : zone'[z] # zone[z] =>
       \/ zone'[z] \in UiZones
       \/ \E j \in Pending :
            /\ j.op \in {"update", "delete"} => Fold(RefDomain(j)) = z
            /\ j.op \in {"create", "update"} => Fold(SpecDomain(j.spec)) = z]_vars

\* A zone is emptied only by a Delete of it or by a spec for it that says
\* "records: []", never by one whose records are missing or mistyped.
EmptiedOnlyOnRequest ==
  [][\A z \in Zones : zone[z].hosts # <<>> /\ zone'[z].hosts = <<>> =>
       \/ zone'[z] \in UiZones
       \/ \E j \in Pending :
            Fold(Target(j)) = z /\ (j.op = "delete" \/ j.spec.records = <<>>)]_vars

\* Every call that enters a handler is answered, cancelled or not.
EveryCallReturns ==
  \A c \in Calls : pc[c] = "entered" ~> pc[c] = "returned"

-----------------------------------------------------------------------------
(* The abstract specification this driver implements                       *)

\* What a call would do to a zone: nothing unless its spec is acceptable.
Intent(j) ==
  IF j = Absent THEN [kind |-> "none"]
  ELSE IF j.op \in {"create", "update"}
          /\ ~(SpecAccepted(j) /\ MXInRange(ParsedRecords(j.spec)))
       THEN [kind |-> "refuse"]
  ELSE IF j.op \in Writes
       THEN [kind |-> "write", zone |-> Fold(Target(j)), content |-> Payload(j)]
  ELSE [kind |-> "look"]

\* A call withdrawn before it sent anything can only fail; one that sent its
\* request is out of its caller's hands.
PhaseOf(place, withdrawn, failed) ==
  CASE place = "idle" -> "idle"
    [] place \in {"entered", "parsed"} -> IF withdrawn THEN "withdrawn" ELSE "open"
    [] place = "sent" -> "open"
    [] place = "applied" -> "done"
    [] OTHER -> IF failed THEN "failed" ELSE "ok"

Phase(c) == PhaseOf(pc[c], cancelled[c], answer[c].err)

Store == INSTANCE ZoneStore WITH
  Contents <- UiZones,
  Intents <- {Intent(j) : j \in Jobs},
  Initial <- InitialZone,
  MaxStray <- MaxLate,
  store <- zone,
  intent <- [c \in Calls |-> Intent(job[c])],
  phase <- [c \in Calls |-> Phase(c)],
  stray <- {Intent(j) : j \in late}

\* The driver implements the atomic whole-zone store of ZoneStore.
ImplementsStore == Store!Spec
=============================================================================

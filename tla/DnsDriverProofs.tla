--------------------------- MODULE DnsDriverProofs ---------------------------
(***************************************************************************)
(* Proofs about DnsDriver, for every set of calls and jobs, every set of   *)
(* zones and every bound: its type invariant, that the answer of a write   *)
(* that still stands is what the zone holds, which write may change a      *)
(* zone, and that the driver implements the atomic store of ZoneStore.     *)
(***************************************************************************)
EXTENDS DnsDriver, DnsRecordsProofs, FiniteSetTheorems

\* The domain of every job names a zone, whatever the job is refused for later.
LEMMA TargetTyped ==
  ASSUME NEW j \in Jobs, j.op = "create" => SpecValid(j.spec)
  PROVE  Target(j) \in Domains /\ Fold(Target(j)) \in Zones
<1>1. IsJob(j)
  BY JobAssumption
<1>2. CASE j.op = "create"
  BY <1>1, <1>2, DomainTyped DEF IsJob, Target
<1>3. CASE j.op # "create"
  <2>1. {j.id, j.name} \subseteq Domains \cup {Absent} /\ ~(j.id = Absent /\ j.name = Absent)
    BY <1>1, <1>3 DEF IsJob
  <2>2. RefDomain(j) \in Domains
    BY <2>1 DEF RefDomain
  <2> QED BY <1>3, <2>2 DEF Target, Zones
<1> QED BY <1>2, <1>3

\* Update's acceptance of a spec includes the parser's.
LEMMA AcceptedIsValid ==
  ASSUME NEW j \in Jobs, SpecAccepted(j)
  PROVE  SpecValid(j.spec)
BY DEF SpecAccepted, UpdateAccepted

\* A job that passed its checks writes a well-formed zone to a zone that exists.
LEMMA SendableTyped ==
  ASSUME NEW j \in Jobs, Sendable(j)
  PROVE  Fold(Target(j)) \in Zones /\ Payload(j) \in Contents
<1>1. IsJob(j)
  BY JobAssumption
<1>2. CASE j.op = "delete"
  <2>1. Fold(Target(j)) \in Zones
    BY <1>2, TargetTyped
  <2>2. EmptyZone \in Contents
    BY DEF EmptyZone, Contents
  <2> QED BY <1>2, <2>1, <2>2 DEF Payload
<1>3. CASE j.op # "delete"
  <2>1. j.op \in {"create", "update"} /\ SpecAccepted(j)
    BY <1>3 DEF Sendable, Writes
  <2>2. j.spec \in Shape /\ SpecValid(j.spec)
    BY <1>1, <2>1, AcceptedIsValid DEF IsJob
  <2>3. ParsedRecords(j.spec) \in Seq(Record)
    BY <2>2, RecordsTyped
  <2>4. Fold(Target(j)) \in Zones
    BY <2>2, TargetTyped
  <2> QED BY <1>3, <2>3, <2>4, ZoneTyped DEF Payload
<1> QED BY <1>2, <1>3

\* The output of a call that may answer is well formed.
LEMMA OutputTyped ==
  ASSUME NEW j \in Jobs, NEW z \in [Zones -> Contents],
         j.op \in {"create", "update"} => SpecAccepted(j)
  PROVE  Output(j, z) \in Outputs
<1>1. IsJob(j)
  BY JobAssumption
<1>2. CASE j.op \in {"create", "update"}
  <2>1. j.spec \in Shape /\ SpecValid(j.spec)
    BY <1>1, <1>2, AcceptedIsValid DEF IsJob
  <2>2. ParsedRecords(j.spec) \in Seq(Record) /\ Target(j) \in Domains
    BY <2>1, RecordsTyped, TargetTyped
  <2>3. Output(j, z) = OutputFromRecords(Target(j), ParsedRecords(j.spec))
    BY <1>2 DEF Output
  <2> QED BY <2>2, <2>3, MemoryTyped DEF Outputs
<1>3. CASE j.op = "read"
  <2>1. Target(j) \in Domains /\ Fold(Target(j)) \in Zones
    BY <1>3, TargetTyped
  <2>2. z[Fold(Target(j))].hosts \in Seq(Host)
    BY <2>1 DEF Contents
  <2>3. Reported(z[Fold(Target(j))].hosts) \in Seq(Host)
    BY <2>2, ReportedTyped
  <2>4. Output(j, z) = OutputFromHosts(Target(j), Reported(z[Fold(Target(j))].hosts))
    BY <1>3 DEF Output
  <2> QED BY <2>1, <2>3, <2>4 DEF OutputFromHosts, Outputs
<1>4. CASE j.op \notin {"create", "update", "read"}
  BY <1>4 DEF Output, Outputs
<1> QED BY <1>2, <1>3, <1>4

\* An error is an answer without an output.
LEMMA ErrorTyped == Error \in [err : BOOLEAN, out : Outputs]
BY DEF Error, Outputs

\* History bookkeeping never leaves its range.
LEMMA OverwrittenTyped ==
  ASSUME effect \in [Calls -> {"none", "standing", "overwritten"}], NEW z
  PROVE  Overwritten(z) \in [Calls -> {"none", "standing", "overwritten"}]
BY DEF Overwritten

-----------------------------------------------------------------------------
(* The inductive invariant                                                 *)

\* The invariant holds at the start.
LEMMA InitEstablishes == Init => IInv
<1> SUFFICES ASSUME Init PROVE IInv
  OBVIOUS
<1> USE DEF Init
<1>1. TypeOK
  <2>1. InitialZone \in Contents
    BY ZoneAssumption
  <2>2. NoAnswer \in [err : BOOLEAN, out : Outputs]
    BY DEF NoAnswer, Outputs
  <2> QED BY <2>1, <2>2 DEF TypeOK, Statuses
<1>2. SentIsChecked
  BY DEF SentIsChecked
<1>3. StandingIsInZone
  BY DEF StandingIsInZone
<1>4. AnswerIsOwnOutput
  BY DEF AnswerIsOwnOutput
<1> QED BY <1>1, <1>2, <1>3, <1>4 DEF IInv

\* A write to zone z, of a well-formed content, leaves every effect that is still
\* standing where it was: on another zone.
LEMMA WriteKeepsStanding ==
  ASSUME IInv, NEW z \in Zones, NEW content,
         zone' = [zone EXCEPT ![z] = content],
         NEW d \in Calls, Overwritten(z)[d] = "standing"
  PROVE  /\ effect[d] = "standing"
         /\ Sendable(job[d])
         /\ zone'[Fold(Target(job[d]))] = Payload(job[d])
<1>1. effect[d] = "standing" /\ Fold(Target(job[d])) # z
  BY DEF Overwritten
<1>2. Sendable(job[d]) /\ zone[Fold(Target(job[d]))] = Payload(job[d]) /\ pc[d] # "idle"
  BY <1>1 DEF IInv, StandingIsInZone
<1>3. job[d] \in Jobs
  BY <1>2 DEF IInv, TypeOK
<1>4. Fold(Target(job[d])) \in Zones
  BY <1>2, <1>3, SendableTyped
<1> QED BY <1>1, <1>2, <1>4 DEF IInv, TypeOK

-----------------------------------------------------------------------------
(* Every step keeps the invariant: one lemma per group of actions          *)

\* Actions that touch neither a zone, a history nor a request.
LEMMA LocalSteps ==
  ASSUME IInv, NEW c \in Calls,
         Invoke(c) \/ Cancel(c) \/ Enter(c) \/ Send(c) \/ Release(c)
  PROVE  IInv'
<1> USE DEF IInv
<1>1. CASE Invoke(c)
  <2> USE <1>1 DEF Invoke
  <2>1. PICK j \in Jobs : job' = [job EXCEPT ![c] = j]
    OBVIOUS
  <2>2. TypeOK'
    BY <2>1 DEF TypeOK, Statuses
  <2>3. SentIsChecked'
    BY <2>1 DEF TypeOK, SentIsChecked, Sendable
  <2>4. StandingIsInZone'
    BY <2>1 DEF TypeOK, StandingIsInZone
  <2>5. AnswerIsOwnOutput'
    BY <2>1 DEF TypeOK, AnswerIsOwnOutput
  <2> QED BY <2>2, <2>3, <2>4, <2>5
<1>2. CASE Cancel(c)
  <2> USE <1>2 DEF Cancel
  <2>1. TypeOK'
    BY DEF TypeOK
  <2>2. SentIsChecked'
    BY DEF SentIsChecked
  <2>3. StandingIsInZone'
    BY DEF StandingIsInZone
  <2>4. AnswerIsOwnOutput'
    BY DEF AnswerIsOwnOutput
  <2> QED BY <2>1, <2>2, <2>3, <2>4
<1>3. CASE Enter(c)
  <2> USE <1>3 DEF Enter
  <2>1. TypeOK'
    <3>1. CASE MayEnter(c)
      BY <3>1 DEF TypeOK, Statuses
    <3>2. CASE ~MayEnter(c)
      BY <3>2, ErrorTyped DEF TypeOK, Statuses, Return
    <3> QED BY <3>1, <3>2
  <2>2. SentIsChecked'
    BY DEF TypeOK, SentIsChecked, MayEnter, Return, Sendable, Writes
  <2>3. StandingIsInZone'
    BY DEF TypeOK, StandingIsInZone, Return
  <2>4. AnswerIsOwnOutput'
    BY DEF TypeOK, AnswerIsOwnOutput, Return, Error
  <2> QED BY <2>1, <2>2, <2>3, <2>4
<1>4. CASE Send(c)
  <2> USE <1>4 DEF Send
  <2>1. TypeOK'
    <3>1. CASE MaySend(c)
      BY <3>1 DEF TypeOK, Statuses
    <3>2. CASE ~MaySend(c)
      BY <3>2, ErrorTyped DEF TypeOK, Statuses, Return
    <3> QED BY <3>1, <3>2
  <2>2. SentIsChecked'
    BY DEF TypeOK, SentIsChecked, MaySend, Return, Sendable, Writes
  <2>3. StandingIsInZone'
    BY DEF TypeOK, StandingIsInZone, Return
  <2>4. AnswerIsOwnOutput'
    BY DEF TypeOK, AnswerIsOwnOutput, Return, Error
  <2> QED BY <2>1, <2>2, <2>3, <2>4
<1>5. CASE Release(c)
  <2> USE <1>5 DEF Release
  <2>1. TypeOK'
    BY DEF TypeOK, Statuses, NoAnswer, Outputs
  <2>2. SentIsChecked'
    BY DEF TypeOK, SentIsChecked, Sendable
  <2>3. StandingIsInZone'
    BY DEF TypeOK, StandingIsInZone
  <2>4. AnswerIsOwnOutput'
    BY DEF TypeOK, AnswerIsOwnOutput
  <2> QED BY <2>1, <2>2, <2>3, <2>4
<1> QED BY <1>1, <1>2, <1>3, <1>4, <1>5

\* The API performs a request.
LEMMA PerformStep ==
  ASSUME IInv, NEW c \in Calls, Perform(c)
  PROVE  IInv'
<1> USE DEF IInv, Perform
<1>1. job[c] \in Jobs
  BY DEF TypeOK
<1>2. CASE job[c].op \in Writes
  <2> DEFINE z == Fold(Target(job[c]))
  <2>1. Sendable(job[c])
    BY <1>2 DEF SentIsChecked
  <2>2. z \in Zones /\ Payload(job[c]) \in Contents
    BY <1>1, <2>1, SendableTyped
  <2>3. /\ zone' = [zone EXCEPT ![z] = Payload(job[c])]
        /\ effect' = [Overwritten(z) EXCEPT ![c] = "standing"]
        /\ answer' = answer
    BY <1>2
  <2>4. Overwritten(z) \in [Calls -> {"none", "standing", "overwritten"}]
    BY OverwrittenTyped DEF TypeOK
  <2> HIDE DEF z
  <2>5. TypeOK'
    BY <2>2, <2>3, <2>4 DEF TypeOK, Statuses
  <2>6. SentIsChecked'
    BY DEF TypeOK, SentIsChecked
  <2>7. StandingIsInZone'
    <3> SUFFICES ASSUME NEW d \in Calls, effect'[d] = "standing"
                 PROVE  /\ pc'[d] \in {"applied", "returned"}
                        /\ Sendable(job[d])
                        /\ zone'[Fold(Target(job[d]))] = Payload(job[d])
      BY DEF StandingIsInZone
    <3>1. CASE d = c
      BY <2>1, <2>2, <2>3, <3>1 DEF TypeOK, z
    <3>2. CASE d # c
      <4>1. Overwritten(z)[d] = "standing"
        BY <2>3, <2>4, <3>2
      <4>2. effect[d] = "standing" /\ Sendable(job[d])
              /\ zone'[Fold(Target(job[d]))] = Payload(job[d])
        BY <2>2, <2>3, <4>1, WriteKeepsStanding
      <4>3. pc'[d] \in {"applied", "returned"}
        BY <3>2, <4>2 DEF StandingIsInZone, TypeOK
      <4> QED BY <4>2, <4>3
    <3> QED BY <3>1, <3>2
  <2>8. AnswerIsOwnOutput'
    BY <2>3 DEF TypeOK, AnswerIsOwnOutput
  <2> QED BY <2>5, <2>6, <2>7, <2>8
<1>3. CASE job[c].op \notin Writes
  <2>1. Output(job[c], zone) \in Outputs
    BY <1>1, <1>3, OutputTyped DEF TypeOK, Writes
  <2>2. zone' = zone /\ effect' = effect
        /\ answer' = [answer EXCEPT ![c] = [err |-> FALSE, out |-> Output(job[c], zone)]]
    BY <1>3
  <2>3. TypeOK'
    BY <2>1, <2>2 DEF TypeOK, Statuses
  <2>4. SentIsChecked'
    BY DEF TypeOK, SentIsChecked
  <2>5. StandingIsInZone'
    BY <2>2 DEF TypeOK, StandingIsInZone
  <2>6. AnswerIsOwnOutput'
    BY <1>3, <2>2 DEF TypeOK, AnswerIsOwnOutput, Writes
  <2> QED BY <2>3, <2>4, <2>5, <2>6
<1> QED BY <1>2, <1>3

\* The API answers a write that it did not perform.
LEMMA DeclineStep ==
  ASSUME IInv, NEW c \in Calls, Decline(c)
  PROVE  IInv'
<1> USE DEF IInv, Decline
<1>1. TypeOK'
  BY DEF TypeOK, Statuses
<1>2. SentIsChecked'
  BY DEF TypeOK, SentIsChecked
<1>3. StandingIsInZone'
  BY DEF TypeOK, StandingIsInZone
<1>4. AnswerIsOwnOutput'
  BY DEF TypeOK, AnswerIsOwnOutput
<1> QED BY <1>1, <1>2, <1>3, <1>4

\* The reply arrives; a write answers with what it makes of its own spec.
LEMMA ReplyStep ==
  ASSUME IInv, NEW c \in Calls, Reply(c)
  PROVE  IInv'
<1> DEFINE a == IF job[c].op \in Writes THEN [err |-> FALSE, out |-> Output(job[c], zone)]
                                        ELSE answer[c]
<1> USE DEF IInv, Reply
<1>1. job[c] \in Jobs
  BY DEF TypeOK
<1>2. answer' = [answer EXCEPT ![c] = a] /\ pc' = [pc EXCEPT ![c] = "returned"]
  BY DEF Return
<1>3. a \in [err : BOOLEAN, out : Outputs]
  <2>1. CASE job[c].op \in Writes
    <3>1. Sendable(job[c])
      BY <2>1 DEF SentIsChecked
    <3>2. Output(job[c], zone) \in Outputs
      BY <1>1, <3>1, OutputTyped DEF TypeOK, Sendable
    <3> QED BY <2>1, <3>2
  <2>2. CASE job[c].op \notin Writes
    BY <2>2 DEF TypeOK
  <2> QED BY <2>1, <2>2
<1>4. job[c].op \in {"create", "update"}
        => a.out = OutputFromRecords(Target(job[c]), ParsedRecords(job[c].spec))
  BY DEF Output, Writes
<1> HIDE DEF a
<1>5. TypeOK'
  BY <1>2, <1>3 DEF TypeOK, Statuses
<1>6. SentIsChecked'
  BY <1>2 DEF TypeOK, SentIsChecked
<1>7. StandingIsInZone'
  BY <1>2 DEF TypeOK, StandingIsInZone
<1>8. AnswerIsOwnOutput'
  BY <1>2, <1>4 DEF TypeOK, AnswerIsOwnOutput
<1> QED BY <1>5, <1>6, <1>7, <1>8

\* The call fails; its write may still be under way.
LEMMA FailStep ==
  ASSUME IInv, NEW c \in Calls, Fail(c)
  PROVE  IInv'
<1> USE DEF IInv, Fail
<1>1. answer' = [answer EXCEPT ![c] = Error] /\ pc' = [pc EXCEPT ![c] = "returned"]
  BY DEF Return, OnFailure
<1>2. late' \subseteq {j \in Jobs : j.op \in Writes} /\ \A j \in late' : Sendable(j)
  <2>1. CASE late' = late
    BY <2>1 DEF TypeOK, SentIsChecked
  <2>2. CASE late' # late
    <3>1. late' = late \cup {job[c]} /\ pc[c] = "sent" /\ job[c].op \in Writes
      BY <2>2
    <3>2. Sendable(job[c]) /\ job[c] \in Jobs
      BY <3>1 DEF TypeOK, SentIsChecked
    <3> QED BY <3>1, <3>2 DEF TypeOK, SentIsChecked
  <2> QED BY <2>1, <2>2
<1>3. TypeOK'
  BY <1>1, <1>2, ErrorTyped DEF TypeOK, Statuses
<1>4. SentIsChecked'
  BY <1>1, <1>2 DEF TypeOK, SentIsChecked
<1>5. StandingIsInZone'
  BY <1>1 DEF TypeOK, StandingIsInZone
<1>6. AnswerIsOwnOutput'
  BY <1>1 DEF TypeOK, AnswerIsOwnOutput, Error
<1> QED BY <1>3, <1>4, <1>5, <1>6

\* A write nobody waits for: an abandoned request, or the dashboard.
LEMMA ForeignWrite ==
  ASSUME IInv, NEW z \in Zones, NEW content \in Contents,
         zone' = [zone EXCEPT ![z] = content],
         effect' = Overwritten(z),
         late' \subseteq late,
         UNCHANGED <<pc, job, cancelled, answer>>
  PROVE  IInv'
<1> USE DEF IInv
<1>1. TypeOK'
  BY OverwrittenTyped DEF TypeOK
<1>2. SentIsChecked'
  BY DEF SentIsChecked
<1>3. StandingIsInZone'
  <2> SUFFICES ASSUME NEW d \in Calls, Overwritten(z)[d] = "standing"
               PROVE  /\ pc[d] \in {"applied", "returned"}
                      /\ Sendable(job[d])
                      /\ zone'[Fold(Target(job[d]))] = Payload(job[d])
    BY DEF StandingIsInZone
  <2>1. effect[d] = "standing" /\ Sendable(job[d])
          /\ zone'[Fold(Target(job[d]))] = Payload(job[d])
    BY WriteKeepsStanding
  <2> QED BY <2>1 DEF StandingIsInZone
<1>4. AnswerIsOwnOutput'
  BY DEF AnswerIsOwnOutput
<1> QED BY <1>1, <1>2, <1>3, <1>4

\* Every step keeps the invariant.
LEMMA StepPreserves == IInv /\ [Next]_vars => IInv'
<1> SUFFICES ASSUME IInv, [Next]_vars PROVE IInv'
  OBVIOUS
<1>1. CASE \E c \in Calls : Invoke(c) \/ Cancel(c) \/ Enter(c) \/ Send(c) \/ Release(c)
  BY <1>1, LocalSteps
<1>2. CASE \E c \in Calls : Perform(c)
  BY <1>2, PerformStep
<1>3. CASE \E c \in Calls : Decline(c)
  BY <1>3, DeclineStep
<1>4. CASE \E c \in Calls : Reply(c)
  BY <1>4, ReplyStep
<1>5. CASE \E c \in Calls : Fail(c)
  BY <1>5, FailStep
<1>6. CASE \E j \in late : PerformLate(j)
  <2>1. PICK j \in late : PerformLate(j)
    BY <1>6
  <2>2. j \in Jobs /\ Sendable(j)
    BY DEF IInv, TypeOK, SentIsChecked
  <2>3. Fold(Target(j)) \in Zones /\ Payload(j) \in Contents
    BY <2>2, SendableTyped
  <2> QED BY <2>1, <2>3, ForeignWrite DEF PerformLate
<1>7. CASE \E z \in Zones, content \in UiZones : SaveInDashboard(z, content)
  <2>1. PICK z \in Zones, content \in UiZones : SaveInDashboard(z, content)
    BY <1>7
  <2>2. content \in Contents
    BY ZoneAssumption
  <2> QED BY <2>1, <2>2, ForeignWrite DEF SaveInDashboard
<1>8. CASE UNCHANGED vars
  BY <1>8 DEF vars, IInv, TypeOK, SentIsChecked, StandingIsInZone, AnswerIsOwnOutput
<1> QED BY <1>1, <1>2, <1>3, <1>4, <1>5, <1>6, <1>7, <1>8 DEF Next

-----------------------------------------------------------------------------
(* The theorems                                                            *)

\* The invariant holds in every state the driver reaches.
THEOREM Invariance == Spec => []IInv
<1> QED BY InitEstablishes, StepPreserves, PTL DEF Spec

\* Whatever specs and calls come in, only well-formed hosts reach a zone and
\* only well-formed outputs reach a caller.
THEOREM TypeCorrect == Spec => []TypeOK
<1>1. IInv => TypeOK
  BY DEF IInv
<1> QED BY <1>1, Invariance, PTL

\* Skipping the read after the write is sound: as long as nobody else wrote the
\* zone, the output Create and Update answer from memory is what the zone holds.
THEOREM MemoryAnswersTrue == Spec => []StandingOutputIsTruth
<1>1. IInv => StandingOutputIsTruth
  <2> SUFFICES ASSUME IInv, NEW c \in Calls, Stands(c), job[c].op \in {"create", "update"}
               PROVE  /\ Fold(answer[c].out.id) = Fold(Target(job[c]))
                      /\ answer[c].out.records = zone[Fold(Target(job[c]))].hosts
    BY DEF StandingOutputIsTruth
  <2> DEFINE recs == ParsedRecords(job[c].spec)
  <2>1. job[c] \in Jobs /\ Sendable(job[c]) /\ zone[Fold(Target(job[c]))] = Payload(job[c])
    BY DEF IInv, TypeOK, StandingIsInZone, Stands
  <2>2. SpecAccepted(job[c]) /\ MXInRange(recs)
    BY <2>1 DEF Sendable
  <2>3. recs \in Seq(Record)
    BY <2>1, <2>2, AcceptedIsValid, RecordsTyped, JobAssumption DEF IsJob
  <2>4. answer[c].out = OutputFromRecords(Target(job[c]), recs)
    BY DEF IInv, AnswerIsOwnOutput, Stands
  <2>5. zone[Fold(Target(job[c]))].hosts = HostRecords(recs)
    BY <2>1 DEF Payload, ZoneOf
  <2>6. answer[c].out.records = HostRecords(recs)
    BY <2>2, <2>3, <2>4, MemoryIsRequest
  <2>7. answer[c].out.id = Target(job[c])
    BY <2>4 DEF OutputFromRecords
  <2> QED BY <2>5, <2>6, <2>7
<1> QED BY <1>1, Invariance, PTL

-----------------------------------------------------------------------------
(* What a step does to a zone                                              *)

\* The write behind a change of zone z.
Writer(j, z) ==
  /\ j \in Pending /\ j \in Jobs
  /\ Sendable(j)
  /\ Fold(Target(j)) = z
  /\ zone'[z] = Payload(j)

\* A zone changes only by the dashboard or by a write that passed every check.
LEMMA ZoneChange ==
  ASSUME IInv, [Next]_vars, NEW z \in Zones, zone'[z] # zone[z]
  PROVE  zone'[z] \in UiZones \/ \E j : Writer(j, z)
<1> USE DEF IInv
<1>1. zone \in [Zones -> Contents]
  BY DEF TypeOK
<1>2. CASE \E c \in Calls : Perform(c)
  <2>1. PICK c \in Calls : Perform(c)
    BY <1>2
  <2>2. job[c].op \in Writes /\ pc[c] = "sent"
    BY <2>1 DEF Perform
  <2>3. zone' = [zone EXCEPT ![Fold(Target(job[c]))] = Payload(job[c])]
    BY <2>1, <2>2 DEF Perform
  <2>4. job[c] \in Jobs /\ Sendable(job[c])
    BY <2>2 DEF TypeOK, SentIsChecked
  <2>5. Fold(Target(job[c])) = z /\ zone'[z] = Payload(job[c])
    BY <1>1, <2>3
  <2>6. job[c] \in Pending
    BY <2>2 DEF Pending
  <2> QED BY <2>4, <2>5, <2>6 DEF Writer
<1>3. CASE \E j \in late : PerformLate(j)
  <2>1. PICK j \in late : PerformLate(j)
    BY <1>3
  <2>2. zone' = [zone EXCEPT ![Fold(Target(j))] = Payload(j)]
    BY <2>1 DEF PerformLate
  <2>3. j \in Jobs /\ Sendable(j) /\ j \in Pending
    BY <2>1 DEF TypeOK, SentIsChecked, Pending
  <2>4. Fold(Target(j)) = z /\ zone'[z] = Payload(j)
    BY <1>1, <2>2
  <2> QED BY <2>3, <2>4 DEF Writer
<1>4. CASE \E y \in Zones, content \in UiZones : SaveInDashboard(y, content)
  <2>1. PICK y \in Zones, content \in UiZones : SaveInDashboard(y, content)
    BY <1>4
  <2>2. zone' = [zone EXCEPT ![y] = content]
    BY <2>1 DEF SaveInDashboard
  <2> QED BY <1>1, <2>2
<1>5. CASE zone' = zone
  BY <1>5
<1>6. CASE \E c \in Calls : \/ Invoke(c) \/ Cancel(c) \/ Enter(c) \/ Send(c)
                            \/ Decline(c) \/ Reply(c) \/ Fail(c) \/ Release(c)
  BY <1>5, <1>6 DEF Invoke, Cancel, Enter, Send, Decline, Reply, Fail, Release
<1> QED BY <1>2, <1>3, <1>4, <1>5, <1>6 DEF Next, vars

\* The zones a write that passed every check was asked for.
LEMMA SendableNamesZone ==
  ASSUME NEW j, Sendable(j)
  PROVE  /\ j.op \in {"update", "delete"} => Fold(RefDomain(j)) = Fold(Target(j))
         /\ j.op \in {"create", "update"} => Fold(SpecDomain(j.spec)) = Fold(Target(j))
<1>1. CASE j.op = "create"
  BY <1>1 DEF Target
<1>2. CASE j.op = "update"
  <2>1. UpdateAccepted(RefDomain(j), j.spec)
    BY <1>2 DEF Sendable, SpecAccepted
  <2> QED BY <1>2, <2>1 DEF UpdateAccepted, Target
<1>3. CASE j.op = "delete"
  BY <1>3 DEF Target
<1> QED BY <1>1, <1>2, <1>3 DEF Sendable, Writes

\* A write that passed every check and carries no hosts was asked to.
LEMMA EmptyIsAskedFor ==
  ASSUME NEW j \in Jobs, Sendable(j), Payload(j).hosts = <<>>
  PROVE  j.op = "delete" \/ j.spec.records = <<>>
<1>1. SUFFICES ASSUME j.op # "delete" PROVE j.spec.records = <<>>
  OBVIOUS
<1>2. SpecAccepted(j) /\ j.op \in {"create", "update"}
  BY <1>1 DEF Sendable, Writes
<1>3. j.spec \in Shape /\ SpecValid(j.spec)
  BY <1>2, AcceptedIsValid, JobAssumption DEF IsJob
<1>4. j.spec.records \in Seq(Entry) /\ RawRecords(j.spec) = j.spec.records
  BY <1>3 DEF Shape, SpecValid, RawRecords
<1>5. HostRecords(ParsedRecords(j.spec)) = <<>>
  BY <1>1 DEF Payload, ZoneOf
<1>6. DOMAIN HostRecords(ParsedRecords(j.spec)) = DOMAIN j.spec.records
  BY <1>4 DEF HostRecords, ParsedRecords
<1>7. DOMAIN j.spec.records = {}
  BY <1>5, <1>6
<1>8. Len(j.spec.records) = 0
  <2>1. DOMAIN j.spec.records = 1..Len(j.spec.records) /\ Len(j.spec.records) \in Nat
    BY <1>4
  <2>2. DEFINE n == Len(j.spec.records)
  <2>3. n \in Nat /\ 1 \notin 1..n
    BY <1>7, <2>1
  <2> HIDE DEF n
  <2>4. n = 0
    BY <2>3
  <2> QED BY <2>4 DEF n
<1> QED BY <1>4, <1>8, EmptySeq

-----------------------------------------------------------------------------
(* The theorems about steps                                                *)

\* No interleaving, lost answer or late request makes a write of this driver
\* reach another zone than the one its caller named, in any spelling.
THEOREM WritesKeepToTheirZone == Spec => WritesStayInZone
<1> DEFINE Allowed ==
      \A z \in Zones : zone'[z] # zone[z] =>
        \/ zone'[z] \in UiZones
        \/ \E j \in Pending :
             /\ j.op \in {"update", "delete"} => Fold(RefDomain(j)) = z
             /\ j.op \in {"create", "update"} => Fold(SpecDomain(j.spec)) = z
<1>1. IInv /\ [Next]_vars => [Allowed]_vars
  <2> SUFFICES ASSUME IInv, [Next]_vars, NEW z \in Zones, zone'[z] # zone[z],
                      zone'[z] \notin UiZones
               PROVE  \E j \in Pending :
                        /\ j.op \in {"update", "delete"} => Fold(RefDomain(j)) = z
                        /\ j.op \in {"create", "update"} => Fold(SpecDomain(j.spec)) = z
    OBVIOUS
  <2>1. PICK j : Writer(j, z)
    BY ZoneChange
  <2> QED BY <2>1, SendableNamesZone DEF Writer
<1> QED BY <1>1, Invariance, PTL DEF Spec, WritesStayInZone

\* A config without its records, or with a mistyped list, never empties a zone.
THEOREM EmptiesOnlyOnRequest == Spec => EmptiedOnlyOnRequest
<1> DEFINE Allowed ==
      \A z \in Zones : zone[z].hosts # <<>> /\ zone'[z].hosts = <<>> =>
        \/ zone'[z] \in UiZones
        \/ \E j \in Pending :
             Fold(Target(j)) = z /\ (j.op = "delete" \/ j.spec.records = <<>>)
<1>1. IInv /\ [Next]_vars => [Allowed]_vars
  <2> SUFFICES ASSUME IInv, [Next]_vars, NEW z \in Zones,
                      zone[z].hosts # <<>>, zone'[z].hosts = <<>>,
                      zone'[z] \notin UiZones
               PROVE  \E j \in Pending :
                        Fold(Target(j)) = z /\ (j.op = "delete" \/ j.spec.records = <<>>)
    OBVIOUS
  <2>1. PICK j : Writer(j, z)
    BY ZoneChange
  <2> QED BY <2>1, EmptyIsAskedFor DEF Writer
<1> QED BY <1>1, Invariance, PTL DEF Spec, EmptiedOnlyOnRequest

-----------------------------------------------------------------------------
(* An honest API makes honest answers                                      *)

\* A write whose call has the API's answer was performed.
AppliedIsPerformed ==
  \A c \in Calls :
    job[c] # Absent /\ job[c].op \in Writes
      /\ (pc[c] = "applied" \/ (pc[c] = "returned" /\ ~answer[c].err))
        => effect[c] # "none"

\* The bookkeeping of a write undoes no other write's effect.
LEMMA OverwrittenKeeps ==
  ASSUME effect \in [Calls -> {"none", "standing", "overwritten"}],
         NEW z, NEW c \in Calls, effect[c] # "none"
  PROVE  Overwritten(z)[c] # "none"
BY DEF Overwritten

\* Every step keeps this, as long as the API never declines in its answer.
LEMMA PerformedStep ==
  ASSUME ~MayDecline, IInv, AppliedIsPerformed, [Next]_vars
  PROVE  AppliedIsPerformed'
<1> USE DEF IInv, AppliedIsPerformed
<1>0. /\ pc \in [Calls -> Statuses]
      /\ job \in [Calls -> Jobs \cup {Absent}]
      /\ answer \in [Calls -> [err : BOOLEAN, out : Outputs]]
      /\ effect \in [Calls -> {"none", "standing", "overwritten"}]
  BY DEF TypeOK
<1>1. CASE \E c \in Calls : Invoke(c) \/ Cancel(c) \/ Release(c)
  BY <1>0, <1>1 DEF Invoke, Cancel, Release, NoAnswer
<1>2. CASE \E c \in Calls : Enter(c) \/ Send(c)
  BY <1>0, <1>2 DEF Enter, Send, Return, Error
<1>3. CASE \E c \in Calls : Reply(c)
  BY <1>0, <1>3 DEF Reply, Return
<1>4. CASE \E c \in Calls : Fail(c)
  BY <1>0, <1>4 DEF Fail, Return, OnFailure, Error
<1>5. CASE \E c \in Calls : Perform(c)
  <2>1. PICK c \in Calls : Perform(c)
    BY <1>5
  <2>2. CASE job[c].op \in Writes
    <3>1. effect' = [Overwritten(Fold(Target(job[c]))) EXCEPT ![c] = "standing"]
      BY <2>1, <2>2 DEF Perform
    <3>2. pc' = [pc EXCEPT ![c] = "applied"] /\ UNCHANGED <<job, answer>>
      BY <2>1, <2>2 DEF Perform
    <3>3. Overwritten(Fold(Target(job[c]))) \in [Calls -> {"none", "standing", "overwritten"}]
      BY <1>0, OverwrittenTyped
    <3> QED BY <1>0, <3>1, <3>2, <3>3, OverwrittenKeeps
  <2>3. CASE job[c].op \notin Writes
    <3>1. pc' = [pc EXCEPT ![c] = "applied"] /\ UNCHANGED <<job, effect>>
      BY <2>1, <2>3 DEF Perform
    <3>2. \A d \in Calls \ {c} : answer'[d] = answer[d]
      BY <1>0, <2>1, <2>3 DEF Perform
    <3> QED BY <1>0, <2>3, <3>1, <3>2
  <2> QED BY <2>2, <2>3
<1>6. CASE \E c \in Calls : Decline(c)
  BY <1>6 DEF Decline
<1>7. CASE \E j \in late : PerformLate(j)
  BY <1>0, <1>7, OverwrittenKeeps DEF PerformLate
<1>8. CASE \E z \in Zones, content \in UiZones : SaveInDashboard(z, content)
  BY <1>0, <1>8, OverwrittenKeeps DEF SaveInDashboard
<1>9. CASE UNCHANGED vars
  BY <1>9 DEF vars
<1> QED BY <1>1, <1>2, <1>3, <1>4, <1>5, <1>6, <1>7, <1>8, <1>9 DEF Next

\* If the API performs every write it answers without an error, success means
\* that the write was performed.
THEOREM HonestAnswers ==
  ASSUME ~MayDecline
  PROVE  Spec => []AnswerIsHonest
<1>1. Init => AppliedIsPerformed
  BY DEF Init, AppliedIsPerformed
<1>2. IInv /\ AppliedIsPerformed /\ [Next]_vars => AppliedIsPerformed'
  BY PerformedStep
<1>3. IInv /\ AppliedIsPerformed => AnswerIsHonest
  <2> SUFFICES ASSUME IInv, AppliedIsPerformed, NEW c \in Calls,
                      pc[c] = "returned", job[c].op \in Writes, ~answer[c].err
               PROVE  effect[c] # "none"
    BY DEF AnswerIsHonest
  <2>1. job[c] \in Jobs /\ job[c] # Absent
    BY JobAssumption, SMT DEF IInv, TypeOK
  <2> QED BY <2>1 DEF AppliedIsPerformed
<1> QED BY <1>1, <1>2, <1>3, Invariance, PTL DEF Spec

-----------------------------------------------------------------------------
(* Mail                                                                    *)

\* A write that passed every check routes mail by the MX records it carries.
LEMMA PayloadMail ==
  ASSUME NEW j \in Jobs, Sendable(j)
  PROVE  MailFollows(Payload(j))
<1>1. CASE j.op = "delete"
  BY <1>1 DEF Payload, EmptyZone, MailFollows
<1>2. CASE j.op # "delete"
  <2> DEFINE recs == ParsedRecords(j.spec)
  <2>1. j.spec \in Shape /\ SpecValid(j.spec)
    BY <1>2, AcceptedIsValid, JobAssumption DEF Sendable, Writes, IsJob
  <2>2. DOMAIN HostRecords(recs) = DOMAIN recs
    BY DEF HostRecords
  <2>3. ASSUME NEW i \in DOMAIN recs, Upper(HostRecords(recs)[i].type) = MX
        PROVE  recs[i].type = MX
    BY <2>1, <2>3, RequestHosts
  <2>4. Payload(j).hosts = HostRecords(recs) /\ Payload(j).email = EmailType(recs)
    BY <1>2 DEF Payload, ZoneOf
  <2> HIDE DEF recs
  <2> QED BY <2>2, <2>3, <2>4 DEF MailFollows, EmailType
<1> QED BY <1>1, <1>2

\* No write of this driver leaves a zone with MX records whose mail does not
\* follow them, in whatever case the type was written (dns.go:317).
THEOREM MailWorks == Spec => []MailFollowsRecords
<1>1. Init => MailFollowsRecords
  BY MailAssumption DEF Init, MailFollowsRecords
<1>2. ASSUME IInv, MailFollowsRecords, [Next]_vars PROVE MailFollowsRecords'
  <2> SUFFICES ASSUME NEW z \in Zones PROVE MailFollows(zone'[z])
    BY DEF MailFollowsRecords
  <2>1. CASE zone'[z] = zone[z]
    BY <1>2, <2>1 DEF MailFollowsRecords
  <2>2. CASE zone'[z] \in UiZones
    BY <2>2, MailAssumption
  <2>3. CASE \E j : Writer(j, z)
    BY <2>3, PayloadMail DEF Writer
  <2> QED BY <1>2, <2>1, <2>2, <2>3, ZoneChange
<1> QED BY <1>1, <1>2, Invariance, PTL DEF Spec

-----------------------------------------------------------------------------
(* The driver implements the atomic whole-zone store                       *)

\* What the refinement needs beside IInv: a slot is handed on clean, only a call
\* that has returned has failed, and finitely many requests are under way.
Clean ==
  /\ \A c \in Calls : pc[c] = "idle" => ~cancelled[c]
  /\ \A c \in Calls : pc[c] # "returned" => ~answer[c].err
  /\ IsFiniteSet(late)

\* Every step keeps the bookkeeping clean.
LEMMA CleanKept ==
  ASSUME IInv, Clean, [Next]_vars
  PROVE  Clean'
<1> USE DEF IInv, Clean
<1>0. /\ pc \in [Calls -> Statuses] /\ cancelled \in [Calls -> BOOLEAN]
      /\ answer \in [Calls -> [err : BOOLEAN, out : Outputs]]
  BY DEF TypeOK
<1>1. CASE \E c \in Calls : Invoke(c) \/ Cancel(c) \/ Release(c)
  BY <1>0, <1>1 DEF Invoke, Cancel, Release, NoAnswer
<1>2. CASE \E c \in Calls : Enter(c) \/ Send(c)
  BY <1>0, <1>2 DEF Enter, Send, Return, Error
<1>3. CASE \E c \in Calls : Reply(c)
  BY <1>0, <1>3 DEF Reply, Return
<1>4. CASE \E c \in Calls : Fail(c)
  <2>1. PICK c \in Calls : Fail(c)
    BY <1>4
  <2>2. IsFiniteSet(late')
    <3>1. late' = late \/ late' = late \cup {job[c]}
      BY <2>1 DEF Fail
    <3> QED BY <3>1, FS_AddElement
  <2> QED BY <1>0, <2>1, <2>2 DEF Fail, Return, OnFailure, Error
<1>5. CASE \E c \in Calls : Perform(c) \/ Decline(c)
  <2>1. PICK c \in Calls : Perform(c) \/ Decline(c)
    BY <1>5
  <2>2. pc[c] = "sent" /\ pc' = [pc EXCEPT ![c] = "applied"] /\ UNCHANGED <<cancelled, late>>
    BY <2>1 DEF Perform, Decline
  <2>3. \/ UNCHANGED answer
        \/ \E o : answer' = [answer EXCEPT ![c] = [err |-> FALSE, out |-> o]]
    BY <2>1 DEF Perform, Decline
  <2>4. \A d \in Calls : answer'[d].err => answer[d].err
    BY <1>0, <2>3
  <2> QED BY <1>0, <2>2, <2>4
<1>6. CASE \E j \in late : PerformLate(j)
  <2>1. PICK j \in late : PerformLate(j)
    BY <1>6
  <2>2. late' = late \ {j} /\ UNCHANGED <<pc, cancelled, answer>>
    BY <2>1 DEF PerformLate
  <2> QED BY <2>2, FS_RemoveElement
<1>7. CASE \E z \in Zones, content \in UiZones : SaveInDashboard(z, content)
  BY <1>7 DEF SaveInDashboard
<1>8. CASE UNCHANGED vars
  BY <1>8 DEF vars
<1> QED BY <1>1, <1>2, <1>3, <1>4, <1>5, <1>6, <1>7, <1>8 DEF Next

\* Which phase a place in the code is.
LEMMA PhaseFacts ==
  /\ \A w, f : /\ PhaseOf("idle", w, f) = "idle"
               /\ PhaseOf("sent", w, f) = "open"
               /\ PhaseOf("applied", w, f) = "done"
  /\ \A f : \A p \in {"entered", "parsed"} :
       PhaseOf(p, TRUE, f) = "withdrawn" /\ PhaseOf(p, FALSE, f) = "open"
  /\ \A w : PhaseOf("returned", w, TRUE) = "failed" /\ PhaseOf("returned", w, FALSE) = "ok"
<1>1. ASSUME NEW w, NEW f
      PROVE  /\ PhaseOf("idle", w, f) = "idle" /\ PhaseOf("sent", w, f) = "open"
             /\ PhaseOf("applied", w, f) = "done"
  BY Zenon DEF PhaseOf
<1>2. ASSUME NEW f, NEW p \in {"entered", "parsed"}
      PROVE  PhaseOf(p, TRUE, f) = "withdrawn" /\ PhaseOf(p, FALSE, f) = "open"
  BY Zenon DEF PhaseOf
<1>3. ASSUME NEW w
      PROVE  PhaseOf("returned", w, TRUE) = "failed" /\ PhaseOf("returned", w, FALSE) = "ok"
  BY Zenon DEF PhaseOf
<1> QED BY <1>1, <1>2, <1>3

\* What the store is asked by a job that may take effect.
LEMMA IntentFacts ==
  /\ Intent(Absent) = [kind |-> "none"]
  /\ \A j \in Jobs :
       /\ Sendable(j) =>
            Intent(j) = [kind |-> "write", zone |-> Fold(Target(j)), content |-> Payload(j)]
       /\ j.op \notin Writes => Intent(j) = [kind |-> "look"]
<1>1. Intent(Absent) = [kind |-> "none"]
  BY DEF Intent
<1>2. ASSUME NEW j \in Jobs, Sendable(j)
      PROVE  Intent(j) = [kind |-> "write", zone |-> Fold(Target(j)), content |-> Payload(j)]
  <2>1. j # Absent
    BY JobAssumption
  <2>2. j.op \in Writes /\ (j.op \in {"create", "update"}
                              => SpecAccepted(j) /\ MXInRange(ParsedRecords(j.spec)))
    BY <1>2 DEF Sendable, Writes
  <2> QED BY <2>1, <2>2, Zenon DEF Intent
<1>3. ASSUME NEW j \in Jobs, j.op \notin Writes
      PROVE  Intent(j) = [kind |-> "look"]
  <2>1. j # Absent
    BY JobAssumption
  <2>2. j.op \notin {"create", "update"}
    BY <1>3 DEF Writes
  <2> QED BY <1>3, <2>1, <2>2, Zenon DEF Intent
<1> QED BY <1>1, <1>2, <1>3

Phases == [c \in Calls |-> Phase(c)]
Intents == [c \in Calls |-> Intent(job[c])]
Strays == {Intent(j) : j \in late}

\* A step that moves no other call than c.
OnlyMoves(c) ==
  \A d \in Calls : d # c =>
    pc'[d] = pc[d] /\ cancelled'[d] = cancelled[d] /\ answer'[d] = answer[d]

\* A call whose phase changes alone is a call of the store that moves on.
LEMMA Becomes ==
  ASSUME NEW c \in Calls, OnlyMoves(c), NEW from, NEW to, Phase(c) \in from, Phase(c)' = to
  PROVE  Store!Become(c, from, to)
<1>1. \A d \in Calls : d # c => Phase(d)' = Phase(d)
  BY DEF OnlyMoves, Phase
<1>2. Phases' = [Phases EXCEPT ![c] = to]
  BY <1>1 DEF Phases
<1>3. Phases[c] \in from
  BY DEF Phases
<1> QED BY <1>2, <1>3 DEF Store!Become, Phases

\* A step within one phase is a stutter of the store.
LEMMA StaysPut ==
  ASSUME NEW c \in Calls, OnlyMoves(c), Phase(c)' = Phase(c), UNCHANGED <<zone, job, late>>
  PROVE  UNCHANGED Store!vars
<1>1. \A d \in Calls : Phase(d)' = Phase(d)
  BY DEF OnlyMoves, Phase
<1>2. Phases' = Phases
  BY <1>1 DEF Phases
<1>3. Intents' = Intents /\ Strays' = Strays /\ zone' = zone
  BY DEF Intents, Strays
<1> QED BY <1>2, <1>3 DEF Store!vars, Phases, Intents, Strays

\* A call starts, withdraws, or is handed back.
LEMMA SlotMaps ==
  ASSUME IInv, Clean, NEW c \in Calls, Invoke(c) \/ Cancel(c) \/ Release(c)
  PROVE  [Store!Next]_(Store!vars)
<1>0. /\ pc \in [Calls -> Statuses] /\ cancelled \in [Calls -> BOOLEAN]
      /\ answer \in [Calls -> [err : BOOLEAN, out : Outputs]]
      /\ job \in [Calls -> Jobs \cup {Absent}]
  BY DEF IInv, TypeOK
<1>1. OnlyMoves(c) /\ UNCHANGED <<zone, late>>
  BY <1>0 DEF OnlyMoves, Invoke, Cancel, Release
<1>2. CASE Invoke(c)
  <2>1. PICK j \in Jobs : job' = [job EXCEPT ![c] = j]
    BY <1>2 DEF Invoke
  <2>2. Phase(c) = "idle" /\ Phase(c)' = "open"
    <3>1. /\ pc[c] = "idle" /\ pc'[c] = "entered"
          /\ cancelled[c] = FALSE /\ cancelled'[c] = FALSE
      BY <1>0, <1>2 DEF Invoke, Clean
    <3> QED BY <3>1, PhaseFacts DEF Phase
  <2>3. Store!Become(c, {"idle"}, "open")
    BY <1>1, <2>2, Becomes
  <2>4. Intents' = [Intents EXCEPT ![c] = Intent(j)] /\ Intent(j) \in {Intent(k) : k \in Jobs}
    BY <1>0, <2>1 DEF Intents
  <2>5. Store!Open(c)
    BY <1>1, <2>3, <2>4 DEF Store!Open, Intents, Strays
  <2> QED BY <2>5 DEF Store!Next
<1>3. CASE Cancel(c)
  <2>1. /\ UNCHANGED <<zone, job, late, pc, answer>>
        /\ cancelled[c] = FALSE /\ cancelled'[c] = TRUE
    BY <1>0, <1>3 DEF Cancel
  <2>2. CASE pc[c] \in {"entered", "parsed"}
    <3>1. Phase(c) = "open" /\ Phase(c)' = "withdrawn"
      <4>1. Phase(c) = "open"
        <5>1. PhaseOf(pc[c], FALSE, answer[c].err) = "open"
          BY <2>2, PhaseFacts, Zenon
        <5> QED BY <2>1, <5>1, Zenon DEF Phase
      <4>2. pc'[c] \in {"entered", "parsed"}
        BY <2>1, <2>2
      <4>3. Phase(c)' = "withdrawn"
        <5>1. PhaseOf(pc'[c], TRUE, answer'[c].err) = "withdrawn"
          BY <4>2, PhaseFacts, Zenon
        <5> QED BY <2>1, <5>1, Zenon DEF Phase
      <4> QED BY <4>1, <4>3
    <3>2. Store!Become(c, {"open"}, "withdrawn")
      BY <1>1, <3>1, Becomes
    <3>3. Store!Withdraw(c)
      BY <2>1, <3>2 DEF Store!Withdraw
    <3> QED BY <3>3 DEF Store!Next
  <2>3. CASE pc[c] \notin {"entered", "parsed"}
    <3>1. pc[c] \in {"sent", "applied"}
      BY <1>0, <1>3, <2>3 DEF Cancel, Statuses
    <3>2. Phase(c)' = Phase(c)
      <4>1. pc'[c] = pc[c]
        BY <2>1
      <4>2. CASE pc[c] = "sent"
        BY <4>1, <4>2, PhaseFacts DEF Phase
      <4>3. CASE pc[c] = "applied"
        BY <4>1, <4>3, PhaseFacts DEF Phase
      <4> QED BY <3>1, <4>2, <4>3
    <3>3. UNCHANGED Store!vars
      BY <1>1, <2>1, <3>2, StaysPut
    <3> QED BY <3>3
  <2> QED BY <2>2, <2>3
<1>4. CASE Release(c)
  <2>1. pc[c] = "returned" /\ pc'[c] = "idle" /\ job' = [job EXCEPT ![c] = Absent]
    BY <1>0, <1>4 DEF Release
  <2>2. Phase(c) \in {"ok", "failed"} /\ Phase(c)' = "idle"
    <3>1. answer[c].err \in BOOLEAN
      BY <1>0
    <3>2. Phase(c)' = "idle"
      BY <2>1, PhaseFacts DEF Phase
    <3>3. Phase(c) \in {"ok", "failed"}
      BY <2>1, <3>1, PhaseFacts DEF Phase
    <3> QED BY <3>2, <3>3
  <2>3. Store!Become(c, {"ok", "failed"}, "idle")
    BY <1>1, <2>2, Becomes
  <2>4. Intents' = [Intents EXCEPT ![c] = Store!None]
    BY <1>0, <2>1, IntentFacts DEF Intents, Store!None
  <2>5. Store!Close(c)
    BY <1>1, <2>3, <2>4 DEF Store!Close, Intents, Strays
  <2> QED BY <2>5 DEF Store!Next
<1> QED BY <1>2, <1>3, <1>4

\* The handler's checks: passed unseen, or the call fails without an effect.
LEMMA CheckMaps ==
  ASSUME IInv, Clean, NEW c \in Calls, Enter(c) \/ Send(c)
  PROVE  [Store!Next]_(Store!vars)
<1>0. /\ pc \in [Calls -> Statuses] /\ cancelled \in [Calls -> BOOLEAN]
      /\ answer \in [Calls -> [err : BOOLEAN, out : Outputs]]
  BY DEF IInv, TypeOK
<1>1. pc[c] \in {"entered", "parsed"} /\ UNCHANGED <<zone, job, cancelled, late>>
  BY DEF Enter, Send
<1>2. \/ ~cancelled[c] /\ UNCHANGED answer
           /\ \E p \in {"parsed", "sent"} : pc' = [pc EXCEPT ![c] = p]
      \/ Return(c, Error)
  <2>1. CASE Enter(c)
    BY <2>1 DEF Enter, MayEnter
  <2>2. CASE Send(c)
    BY <2>2 DEF Send, MaySend
  <2> QED BY <2>1, <2>2
<1>3. CASE Return(c, Error)
  <2>1. pc'[c] = "returned" /\ answer'[c].err
    BY <1>0, <1>3 DEF Return, Error
  <2>2. OnlyMoves(c)
    BY <1>0, <1>1, <1>3 DEF Return, OnlyMoves
  <2>3. Phase(c) \in {"open", "withdrawn", "done"} /\ Phase(c)' = "failed"
    <3>1. cancelled[c] = TRUE \/ cancelled[c] = FALSE
      BY <1>0
    <3>2. Phase(c) \in {"open", "withdrawn", "done"}
      <4>1. CASE cancelled[c] = TRUE
        BY <1>1, <4>1, PhaseFacts DEF Phase
      <4>2. CASE cancelled[c] = FALSE
        BY <1>1, <4>2, PhaseFacts DEF Phase
      <4> QED BY <3>1, <4>1, <4>2
    <3>3. Phase(c)' = "failed"
      BY <2>1, PhaseFacts DEF Phase
    <3> QED BY <3>2, <3>3
  <2>4. Store!Become(c, {"open", "withdrawn", "done"}, "failed")
    BY <2>2, <2>3, Becomes
  <2>5. Store!AnswerError(c)
    BY <1>1, <2>4 DEF Store!AnswerError
  <2> QED BY <2>5 DEF Store!Next
<1>4. CASE ~cancelled[c] /\ UNCHANGED answer
           /\ \E p \in {"parsed", "sent"} : pc' = [pc EXCEPT ![c] = p]
  <2>1. pc'[c] \in {"parsed", "sent"} /\ OnlyMoves(c)
    BY <1>0, <1>1, <1>4 DEF OnlyMoves
  <2>2. Phase(c) = "open" /\ Phase(c)' = "open"
    <3>1. cancelled[c] = FALSE /\ cancelled'[c] = FALSE
      BY <1>0, <1>1, <1>4
    <3>2. Phase(c) = "open"
      BY <1>1, <3>1, PhaseFacts DEF Phase
    <3>3. Phase(c)' = "open"
      <4>1. CASE pc'[c] = "parsed"
        BY <3>1, <4>1, PhaseFacts DEF Phase
      <4>2. CASE pc'[c] = "sent"
        BY <4>2, PhaseFacts DEF Phase
      <4> QED BY <2>1, <4>1, <4>2
    <3> QED BY <3>2, <3>3
  <2>3. UNCHANGED Store!vars
    BY <1>1, <2>1, <2>2, StaysPut
  <2> QED BY <2>3
<1> QED BY <1>2, <1>3, <1>4

\* The API performs the request: the one atomic effect of the call.
LEMMA PerformMaps ==
  ASSUME IInv, NEW c \in Calls, Perform(c)
  PROVE  [Store!Next]_(Store!vars)
<1>0. /\ pc \in [Calls -> Statuses] /\ job[c] \in Jobs
      /\ answer \in [Calls -> [err : BOOLEAN, out : Outputs]]
  BY DEF IInv, TypeOK, Perform
<1>1. /\ pc[c] = "sent" /\ pc' = [pc EXCEPT ![c] = "applied"]
      /\ UNCHANGED <<job, cancelled, late>>
  BY DEF Perform
<1>2. Phase(c) = "open" /\ Phase(c)' = "done"
  BY <1>0, <1>1, PhaseFacts DEF Phase
<1>3. CASE job[c].op \in Writes
  <2>1. Sendable(job[c])
    BY <1>1, <1>3 DEF IInv, SentIsChecked
  <2>2. UNCHANGED answer /\ zone' = [zone EXCEPT ![Fold(Target(job[c]))] = Payload(job[c])]
    BY <1>3 DEF Perform
  <2>3. OnlyMoves(c)
    BY <1>0, <1>1, <2>2 DEF OnlyMoves
  <2>4. Store!Become(c, {"open"}, "done")
    BY <1>2, <2>3, Becomes
  <2>5. Intents[c] = [kind |-> "write", zone |-> Fold(Target(job[c])), content |-> Payload(job[c])]
    BY <1>0, <2>1, IntentFacts DEF Intents
  <2>6. /\ Intents[c].kind = "write" /\ Intents[c].zone = Fold(Target(job[c]))
        /\ Intents[c].content = Payload(job[c])
    BY <2>5
  <2>7. Store!TakeEffect(c)
    BY <1>1, <2>2, <2>4, <2>6 DEF Store!TakeEffect, Store!IsWrite, Intents, Strays
  <2> QED BY <2>7 DEF Store!Next
<1>4. CASE job[c].op \notin Writes
  <2>1. /\ UNCHANGED zone
        /\ answer' = [answer EXCEPT ![c] = [err |-> FALSE, out |-> Output(job[c], zone)]]
    BY <1>4 DEF Perform
  <2>2. OnlyMoves(c)
    BY <1>0, <1>1, <2>1 DEF OnlyMoves
  <2>3. Store!Become(c, {"open"}, "done")
    BY <1>2, <2>2, Becomes
  <2>4. Intents[c].kind = "look"
    BY <1>0, <1>4, IntentFacts DEF Intents
  <2>5. Store!TakeEffect(c)
    BY <1>1, <2>1, <2>3, <2>4 DEF Store!TakeEffect, Store!IsWrite, Intents, Strays
  <2> QED BY <2>5 DEF Store!Next
<1> QED BY <1>3, <1>4

\* An answer without an error ends a call of the store.
LEMMA ReplyMaps ==
  ASSUME IInv, Clean, NEW c \in Calls, Reply(c)
  PROVE  [Store!Next]_(Store!vars)
<1>0. /\ pc \in [Calls -> Statuses]
      /\ answer \in [Calls -> [err : BOOLEAN, out : Outputs]]
  BY DEF IInv, TypeOK
<1>1. /\ pc[c] = "applied" /\ pc' = [pc EXCEPT ![c] = "returned"]
      /\ UNCHANGED <<zone, job, cancelled, late>>
  BY DEF Reply, Return
<1>2. PICK a : answer' = [answer EXCEPT ![c] = a] /\ ~a.err
  <2> DEFINE a == IF job[c].op \in Writes THEN [err |-> FALSE, out |-> Output(job[c], zone)]
                                          ELSE answer[c]
  <2>1. answer' = [answer EXCEPT ![c] = a]
    BY DEF Reply, Return
  <2>2. ~answer[c].err
    BY <1>1 DEF Clean
  <2>3. CASE job[c].op \in Writes
    <3>1. a = [err |-> FALSE, out |-> Output(job[c], zone)]
      BY <2>3
    <3>2. ~a.err
      BY <3>1
    <3> QED BY <2>1, <3>2
  <2>4. CASE job[c].op \notin Writes
    <3>1. a = answer[c]
      BY <2>4
    <3> QED BY <2>1, <2>2, <3>1, Zenon
  <2> QED BY <2>3, <2>4
<1>3. OnlyMoves(c) /\ pc'[c] = "returned" /\ ~answer'[c].err
  BY <1>0, <1>1, <1>2 DEF OnlyMoves
<1>4. Phase(c) = "done" /\ Phase(c)' = "ok"
  <2>1. Phase(c) = "done"
    BY <1>1, PhaseFacts DEF Phase
  <2>2. pc'[c] = "returned" /\ answer'[c].err = FALSE
    BY <1>3
  <2>3. Phase(c)' = "ok"
    BY <2>2, PhaseFacts DEF Phase
  <2> QED BY <2>1, <2>3
<1>5. Store!Become(c, {"done"}, "ok")
  BY <1>3, <1>4, Becomes
<1>6. Store!AnswerOk(c)
  BY <1>1, <1>5 DEF Store!AnswerOk
<1> QED BY <1>6 DEF Store!Next

\* There are no more effects still to come than requests under way.
LEMMA FewStrays ==
  ASSUME NEW S, IsFiniteSet(S)
  PROVE  /\ Store!Cardinality({Intent(j) : j \in S}) <= Cardinality(S)
         /\ Store!Cardinality({Intent(j) : j \in S}) \in Nat
<1> DEFINE f == [j \in S |-> Intent(j)]
           T == {Intent(j) : j \in S}
<1>1. f \in Surjection(S, T)
  BY DEF Surjection
<1>2. IsFiniteSet(T) /\ Cardinality(T) <= Cardinality(S)
  BY <1>1, FS_Surjection
<1>3. Store!Cardinality(T) = Cardinality(T)
  BY DEF Store!Cardinality, Cardinality
<1>4. Cardinality(T) \in Nat
  BY <1>2, FS_CardinalityType
<1> QED BY <1>2, <1>3, <1>4

\* The call fails; the effect of a write may still be to come.
LEMMA FailMaps ==
  ASSUME IInv, Clean, NEW c \in Calls, Fail(c)
  PROVE  [Store!Next]_(Store!vars)
<1>0. /\ pc \in [Calls -> Statuses] /\ job[c] \in Jobs
      /\ answer \in [Calls -> [err : BOOLEAN, out : Outputs]]
  BY DEF IInv, TypeOK, Fail
<1>1. /\ pc[c] \in {"sent", "applied"} /\ pc' = [pc EXCEPT ![c] = "returned"]
      /\ answer' = [answer EXCEPT ![c] = Error]
      /\ UNCHANGED <<zone, job, cancelled>>
  BY DEF Fail, Return, OnFailure
<1>2. OnlyMoves(c) /\ pc'[c] = "returned" /\ answer'[c].err = TRUE
  BY <1>0, <1>1 DEF OnlyMoves, Error
<1>3. Phase(c)' = "failed"
  BY <1>2, PhaseFacts DEF Phase
<1>4. /\ pc[c] = "sent" => Phase(c) = "open"
      /\ Phase(c) \in {"open", "withdrawn", "done"}
  BY <1>1, PhaseFacts DEF Phase
<1>5. Store!Become(c, {"open", "withdrawn", "done"}, "failed")
  BY <1>2, <1>3, <1>4, Becomes
<1>6. CASE late' = late
  <2>1. Store!AnswerError(c)
    BY <1>1, <1>5, <1>6 DEF Store!AnswerError
  <2> QED BY <2>1 DEF Store!Next
<1>7. CASE /\ pc[c] = "sent" /\ job[c].op \in Writes
           /\ late' = late \cup {job[c]} /\ Cardinality(late') <= MaxLate
  <2>1. Sendable(job[c])
    BY <1>7 DEF IInv, SentIsChecked
  <2>2. Intents[c].kind = "write"
    BY <1>0, <2>1, IntentFacts DEF Intents
  <2>3. Phases[c] = "open"
    BY <1>4, <1>7 DEF Phases
  <2>4. Strays' = Strays \cup {Intents[c]}
    BY <1>7 DEF Strays, Intents
  <2>5. Store!Cardinality(Strays') <= MaxLate
    <3>1. IsFiniteSet(late')
      BY <1>7, FS_AddElement DEF Clean
    <3>2. DEFINE n == Cardinality(late')
                 m == Store!Cardinality({Intent(j) : j \in late'})
    <3>3. m <= n
      BY <3>1, FewStrays
    <3>4. n <= MaxLate
      BY <1>7
    <3>5. n \in Nat /\ m \in Nat
      <4>1. n \in Nat
        BY <3>1, FS_CardinalityType
      <4>2. m \in Nat
        BY <3>1, FewStrays
      <4> QED BY <4>1, <4>2
    <3> HIDE DEF n, m
    <3>6. m <= MaxLate
      BY <3>3, <3>4, <3>5, BoundAssumption
    <3> QED BY <3>6 DEF m, Strays
  <2>6. Store!AnswerError(c)
    BY <1>1, <1>5, <2>2, <2>3, <2>4, <2>5
       DEF Store!AnswerError, Store!IsWrite, Intents, Phases, Strays
  <2> QED BY <2>6 DEF Store!Next
<1> QED BY <1>6, <1>7 DEF Fail

\* A request nobody waits for is performed; what it stood for may be to come
\* from another such request as well.
LEMMA LateMaps ==
  ASSUME IInv, NEW j \in late, PerformLate(j)
  PROVE  [Store!Next]_(Store!vars)
<1>1. j \in Jobs /\ Sendable(j)
  BY DEF IInv, TypeOK, SentIsChecked
<1>2. /\ Intent(j).zone = Fold(Target(j)) /\ Intent(j).content = Payload(j)
  BY <1>1, IntentFacts
<1>3. /\ zone' = [zone EXCEPT ![Fold(Target(j))] = Payload(j)]
      /\ late' = late \ {j} /\ UNCHANGED <<pc, job, cancelled, answer>>
  BY DEF PerformLate
<1>4. Intent(j) \in Strays
  BY DEF Strays
<1>5. Strays' \in {Strays, Strays \ {Intent(j)}}
  <2>1. CASE \E k \in late' : Intent(k) = Intent(j)
    <3>1. Strays' = Strays
      BY <1>3, <2>1 DEF Strays
    <3> QED BY <3>1
  <2>2. CASE ~\E k \in late' : Intent(k) = Intent(j)
    <3>1. Strays' = Strays \ {Intent(j)}
      BY <1>3, <2>2 DEF Strays
    <3> QED BY <3>1
  <2> QED BY <2>1, <2>2
<1>6. Phases' = Phases /\ Intents' = Intents
  BY <1>3 DEF Phases, Phase, Intents
<1>7. Store!StrayEffect(Intent(j))
  BY <1>2, <1>3, <1>5, <1>6 DEF Store!StrayEffect, Phases, Intents, Strays
<1> QED BY <1>4, <1>7 DEF Store!Next, Strays

\* The dashboard writes the store from outside.
LEMMA OutsideMaps ==
  ASSUME NEW z \in Zones, NEW content \in UiZones, SaveInDashboard(z, content)
  PROVE  [Store!Next]_(Store!vars)
<1>1. zone' = [zone EXCEPT ![z] = content] /\ UNCHANGED <<pc, job, cancelled, answer, late>>
  BY DEF SaveInDashboard
<1>2. Phases' = Phases /\ Intents' = Intents /\ Strays' = Strays
  BY <1>1 DEF Phases, Phase, Intents, Strays
<1>3. Store!Outside(z, content)
  BY <1>1, <1>2 DEF Store!Outside, Phases, Intents, Strays
<1> QED BY <1>3 DEF Store!Next

\* If the API performs every write it answers without an error, each call takes
\* effect at most once, in one atomic step between its start and its answer, and
\* "ok" means that it did: the driver is the store of ZoneStore (dns.go).
THEOREM DriverIsStore ==
  ASSUME ~MayDecline
  PROVE  Spec => ImplementsStore
<1>1. Init => Clean
  BY FS_EmptySet DEF Init, Clean, NoAnswer
<1>2. Init => Store!Init
  <2> SUFFICES ASSUME Init PROVE Store!Init
    OBVIOUS
  <2>1. Phases = [c \in Calls |-> "idle"]
    BY PhaseFacts DEF Init, Phases, Phase
  <2>2. Intents = [c \in Calls |-> Store!None]
    BY IntentFacts DEF Init, Intents, Store!None
  <2>3. Strays = {} /\ zone = [z \in Zones |-> InitialZone]
    BY DEF Init, Strays
  <2> QED BY <2>1, <2>2, <2>3 DEF Store!Init, Phases, Intents, Strays
<1>3. ASSUME IInv, Clean, [Next]_vars PROVE [Store!Next]_(Store!vars)
  <2>1. CASE \E c \in Calls : Invoke(c) \/ Cancel(c) \/ Release(c)
    BY <1>3, <2>1, SlotMaps
  <2>2. CASE \E c \in Calls : Enter(c) \/ Send(c)
    BY <1>3, <2>2, CheckMaps
  <2>3. CASE \E c \in Calls : Perform(c) \/ Reply(c) \/ Fail(c)
    BY <1>3, <2>3, PerformMaps, ReplyMaps, FailMaps
  <2>4. CASE \E c \in Calls : Decline(c)
    BY <2>4 DEF Decline
  <2>5. CASE \E j \in late : PerformLate(j)
    BY <1>3, <2>5, LateMaps
  <2>6. CASE \E z \in Zones, content \in UiZones : SaveInDashboard(z, content)
    BY <2>6, OutsideMaps
  <2>7. CASE UNCHANGED vars
    <3>1. Phases' = Phases /\ Intents' = Intents /\ Strays' = Strays /\ zone' = zone
      BY <2>7 DEF vars, Phases, Phase, Intents, Strays
    <3> QED BY <3>1 DEF Store!vars, Phases, Intents, Strays
  <2> QED BY <1>3, <2>1, <2>2, <2>3, <2>4, <2>5, <2>6, <2>7 DEF Next
<1>4. IInv /\ Clean /\ [Next]_vars => Clean'
  BY CleanKept
<1> QED BY <1>1, <1>2, <1>3, <1>4, Invariance, PTL DEF Spec, ImplementsStore, Store!Spec

-----------------------------------------------------------------------------
(* What it rests on that every call is answered                            *)

\* How far a call has come.
Stage(status) ==
  CASE status = "entered" -> 1 [] status = "parsed" -> 2 [] status = "sent" -> 3
    [] status = "applied" -> 4 [] status = "returned" -> 5 [] OTHER -> 0

\* A call under way never goes back, whatever it and the others do, and each step
\* of its own takes it further.
CallsGoOn ==
  [][\A c \in Calls : pc[c] \notin {"idle", "returned"} =>
       /\ Stage(pc'[c]) >= Stage(pc[c])
       /\ Progress(c) => Stage(pc'[c]) > Stage(pc[c])]_vars

\* The steps of one call: where they begin and where they lead.
LEMMA StepsLead ==
  ASSUME TypeOK, NEW c \in Calls
  PROVE  /\ Progress(c) => Stage(pc[c]) \in 1..4 /\ Stage(pc'[c]) > Stage(pc[c])
         /\ Progress(c) => \A d \in Calls \ {c} : pc'[d] = pc[d]
         /\ Invoke(c) \/ Release(c) =>
              /\ pc[c] \in {"idle", "returned"}
              /\ \A d \in Calls \ {c} : pc'[d] = pc[d]
<1>1. pc \in [Calls -> Statuses]
  BY DEF TypeOK
<1>2. ASSUME Progress(c)
      PROVE  \E next \in Statuses :
               /\ pc' = [pc EXCEPT ![c] = next]
               /\ Stage(pc[c]) \in 1..4 /\ Stage(next) > Stage(pc[c])
  <2>1. CASE Enter(c)
    <3>1. \/ pc' = [pc EXCEPT ![c] = "parsed"]
          \/ pc' = [pc EXCEPT ![c] = "sent"]
          \/ pc' = [pc EXCEPT ![c] = "returned"]
      BY <2>1 DEF Enter, Return
    <3>2. pc[c] = "entered"
      BY <2>1 DEF Enter
    <3> QED BY <3>1, <3>2 DEF Stage, Statuses
  <2>2. CASE Send(c)
    BY <2>2 DEF Send, Return, Stage, Statuses
  <2>3. CASE Perform(c)
    <3>1. pc[c] = "sent" /\ pc' = [pc EXCEPT ![c] = "applied"]
      BY <2>3 DEF Perform
    <3> QED BY <3>1 DEF Stage, Statuses
  <2>4. CASE Decline(c)
    BY <2>4 DEF Decline, Stage, Statuses
  <2>5. CASE Reply(c)
    <3>1. pc[c] = "applied" /\ pc' = [pc EXCEPT ![c] = "returned"]
      BY <2>5 DEF Reply, Return
    <3> QED BY <3>1 DEF Stage, Statuses
  <2>6. CASE Fail(c)
    <3>1. pc[c] \in {"sent", "applied"} /\ pc' = [pc EXCEPT ![c] = "returned"]
      BY <2>6 DEF Fail, Return
    <3> QED BY <3>1 DEF Stage, Statuses
  <2> QED BY <1>2, <2>1, <2>2, <2>3, <2>4, <2>5, <2>6 DEF Progress
<1>3. ASSUME Invoke(c) \/ Release(c)
      PROVE  /\ pc[c] \in {"idle", "returned"}
             /\ \A d \in Calls \ {c} : pc'[d] = pc[d]
  BY <1>1, <1>3 DEF Invoke, Release
<1> QED BY <1>1, <1>2, <1>3

\* The safety behind EveryCallReturns: a handler has no loop and waits for no
\* other call, so a call has at most four steps to go.
THEOREM NoCallTurnsBack == Spec => CallsGoOn
<1> DEFINE GoesOn ==
      \A c \in Calls : pc[c] \notin {"idle", "returned"} =>
        /\ Stage(pc'[c]) >= Stage(pc[c])
        /\ Progress(c) => Stage(pc'[c]) > Stage(pc[c])
<1>1. ASSUME IInv, [Next]_vars, NEW c \in Calls, pc[c] \notin {"idle", "returned"}
      PROVE  /\ Stage(pc'[c]) >= Stage(pc[c])
             /\ Progress(c) => Stage(pc'[c]) > Stage(pc[c])
  <2>0. TypeOK
    BY <1>1 DEF IInv
  <2>1. Stage(pc[c]) \in Nat
    BY DEF Stage
  <2>2. Progress(c) => Stage(pc'[c]) > Stage(pc[c])
    BY <2>0, StepsLead
  <2>3. Progress(c) \/ pc'[c] = pc[c]
    <3>1. CASE \E d \in Calls : Progress(d) \/ Invoke(d) \/ Release(d)
      BY <1>1, <2>0, <3>1, StepsLead
    <3>2. CASE UNCHANGED pc
      BY <3>2
    <3> QED
      BY <1>1, <3>1, <3>2
      DEF Next, vars, Progress, Cancel, PerformLate, SaveInDashboard
  <2>4. pc'[c] = pc[c] => Stage(pc'[c]) = Stage(pc[c])
    OBVIOUS
  <2>5. Stage(pc'[c]) \in Nat
    BY DEF Stage
  <2> QED BY <2>1, <2>2, <2>3, <2>4, <2>5
<1>2. IInv /\ [Next]_vars => GoesOn
  BY <1>1
<1>3. Spec => [][GoesOn]_vars
  BY <1>2, Invariance, PTL DEF Spec
<1> QED BY <1>3 DEF CallsGoOn
=============================================================================

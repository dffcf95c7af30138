------------------------ MODULE ProviderServerProofs ------------------------
(***************************************************************************)
(* Proofs about ProviderServer, for any number of concurrent RPCs, any     *)
(* jobs and any listing of the accounts: its type invariant, that no RPC   *)
(* calls a driver that is not there, what a second Initialize does to the  *)
(* RPCs around it, and what Destroy and Status tell of their resources.    *)
(***************************************************************************)
EXTENDS ProviderServer, FiniteSetTheorems, TLAPS

\* A call that has begun has one of the jobs.
LEMMA JobFacts ==
  ASSUME TypeOK, NEW c \in Calls, pc[c] # "idle"
  PROVE  /\ job[c] \in Jobs
         /\ job[c].rpc \in Rpcs /\ job[c].op \in Ops /\ job[c].refs \in Seq(Refs)
BY JobAssumption DEF TypeOK

\* The steps of one call.
StepOf(c, f) ==
  \/ \E j \in Jobs : Invoke(c, j)
  \/ Configure(c) \/ Store(c, f) \/ Stored(c)
  \/ Enter(c) \/ Check(c, f) \/ Checked(c) \/ Copy(c, f) \/ Copied(c) \/ Finish(c)
  \/ List(c)
  \/ Pick(c) \/ CallDriver(c) \/ Panic(c)

\* Every step is a step of one call, at one field.
LEMMA NextCases ==
  ASSUME Next
  PROVE  \E c \in Calls, f \in Fields : StepOf(c, f)
<1>1. PICK c \in Calls :
        \/ \E j \in Jobs : Invoke(c, j)
        \/ Configure(c) \/ Stored(c) \/ Enter(c) \/ Checked(c) \/ Copied(c)
        \/ \E f \in Fields : Store(c, f) \/ Check(c, f) \/ Copy(c, f)
        \/ List(c) \/ Pick(c) \/ CallDriver(c) \/ Panic(c) \/ Finish(c)
  BY Zenon DEF Next
<1>2. "domains" \in Fields
  BY DEF Fields
<1> QED BY <1>1, <1>2 DEF StepOf

\* The types that resourceDriver knows are routed to the three drivers.
LEMMA RouteFacts ==
  ASSUME NEW type
  PROVE  /\ Route(type) \in Drivers \cup {"none"}
         /\ type = "infra.dns_delegation" => Route(type) = "delegation"
<1>1. Blank # "infra.dns_delegation"
  BY BlankAssumption DEF ResourceTypes
<1> QED BY <1>1, ZenonT(30) DEF Route, Drivers

-----------------------------------------------------------------------------
(* The type invariant                                                      *)

\* A call starts with nothing in its hands.
LEMMA InvokeTyped ==
  ASSUME IInv, NEW c \in Calls, NEW j \in Jobs, Invoke(c, j)
  PROVE  TypeOK'
<1>0. TypeOK
  BY DEF IInv
<1>1. ASSUME NEW f \in Fields, field[f] # Nil
      PROVE  field[f] \in Calls /\ pc[field[f]] # "idle"
  <2>1. field[f] \in Calls
    BY <1>0, <1>1 DEF TypeOK
  <2>2. HasSet(field[f], f)
    BY <1>1 DEF IInv, FieldsAreSetInOrder
  <2> QED BY <2>1, <2>2 DEF HasSet, Initialized
<1>2. before'[c] \in SUBSET Calls
  BY <1>0 DEF TypeOK, Invoke, Initialized
<1>3. \A f \in Fields : field'[f] # Nil => job'[field'[f]] = job[field[f]]
  BY <1>0, <1>1 DEF TypeOK, Invoke
<1> QED BY <1>0, <1>2, <1>3 DEF TypeOK, Invoke, Phases, lists

\* The steps of Initialize keep the types.
LEMMA InitializeTyped ==
  ASSUME IInv, NEW c \in Calls, NEW f \in Fields,
         Configure(c) \/ Store(c, f) \/ Stored(c)
  PROVE  TypeOK'
<1>0. TypeOK
  BY DEF IInv
<1>1. CASE Configure(c)
  BY <1>0, <1>1 DEF TypeOK, Configure, Return, Phases, Answers, lists
<1>2. CASE Store(c, f)
  <2>1. ConfigValid(job[c].config)
    BY <1>2 DEF IInv, CallsAreInPhase, InPhase, Store
  <2> QED BY <1>0, <1>2, <2>1 DEF TypeOK, Store, ConfigValid, lists
<1>3. CASE Stored(c)
  BY <1>0, <1>3 DEF TypeOK, Stored, Return, Phases, Answers, lists
<1> QED BY <1>1, <1>2, <1>3

\* A step of a call that has begun, and stores nothing, has to keep these types.
LEMMA TypedStep ==
  ASSUME TypeOK, UNCHANGED <<field, job, before>>,
         pc' \in [Calls -> Phases], answer' \in [Calls -> Answers],
         \A k \in Calls : pc[k] = "idle" => pc'[k] = "idle",
         zone' \in [Names -> {"records", "empty"}],
         emptied' \in [Calls -> SUBSET Names], declined' \in [Calls -> SUBSET Names],
         destroyed' \in [Calls -> Seq(Names)], errors' \in [Calls -> Seq(Names)],
         todo' \in [Calls -> SUBSET Fields],
         copy' \in [Calls -> [Fields -> Calls \cup {Nil}]],
         using' \in [Calls -> Calls \cup {Nil}],
         refs' \in [Calls -> Seq(Refs)] /\ report' \in [Calls -> Seq(Outcomes)]
  PROVE  TypeOK'
BY DEF TypeOK

\* The steps up to the work of a call keep the types.
LEMMA EntryTyped ==
  ASSUME IInv, NEW c \in Calls, NEW f \in Fields,
         \/ Enter(c) \/ Check(c, f) \/ Checked(c) \/ Copy(c, f) \/ Copied(c) \/ Finish(c)
         \/ Panic(c)
  PROVE  TypeOK'
<1>0. TypeOK
  BY DEF IInv
<1>1. UNCHANGED <<field, job, before, zone, emptied, declined, using, report, destroyed, errors>>
  BY DEF Enter, Check, Checked, Copy, Copied, Finish, Panic, lists
<1>2. /\ pc' \in [Calls -> Phases] /\ answer' \in [Calls -> Answers]
      /\ \A k \in Calls : pc[k] = "idle" => pc'[k] = "idle"
  <2>1. \/ \E a \in Answers : Return(c, a)
        \/ UNCHANGED answer /\ \E p \in Phases : pc' = [pc EXCEPT ![c] = p]
        \/ UNCHANGED <<pc, answer>>
    <3>1. CASE Enter(c)
      BY <3>1 DEF Enter, Phases, Answers
    <3>2. CASE Check(c, f)
      BY <3>2 DEF Check, Answers
    <3>3. CASE Checked(c)
      BY <3>3 DEF Checked, Phases
    <3>4. CASE Copy(c, f) \/ Copied(c) \/ Finish(c) \/ Panic(c)
      BY <3>4 DEF Copy, Copied, Finish, Panic, Phases, Answers
    <3> QED BY <3>1, <3>2, <3>3, <3>4
  <2>2. pc[c] # "idle"
    BY DEF Enter, Check, Checked, Copy, Copied, Finish, Panic
  <2>3. CASE \E a \in Answers : Return(c, a)
    BY <1>0, <2>2, <2>3 DEF TypeOK, Return, Phases
  <2>4. CASE UNCHANGED answer /\ \E p \in Phases : pc' = [pc EXCEPT ![c] = p]
    BY <1>0, <2>2, <2>4 DEF TypeOK
  <2>5. CASE UNCHANGED <<pc, answer>>
    BY <1>0, <2>5 DEF TypeOK
  <2> QED BY <2>1, <2>3, <2>4, <2>5
<1>3. /\ todo' \in [Calls -> SUBSET Fields]
      /\ copy' \in [Calls -> [Fields -> Calls \cup {Nil}]]
      /\ refs' \in [Calls -> Seq(Refs)]
  <2>1. CASE Enter(c)
    <3>1. job[c].refs \in Seq(Refs) /\ Needed(job[c].rpc) \in SUBSET Fields
      BY <1>0, <2>1, JobFacts DEF Enter, Needed, Fields, Drivers
    <3>2. UNCHANGED copy
      BY <2>1 DEF Enter
    <3>3. CASE UNCHANGED <<todo, refs>>
      BY <1>0, <3>2, <3>3 DEF TypeOK
    <3>4. CASE /\ todo' = [todo EXCEPT ![c] = Needed(job[c].rpc)]
               /\ refs' = [refs EXCEPT ![c] = job[c].refs]
      BY <1>0, <3>1, <3>2, <3>4 DEF TypeOK
    <3> QED BY <2>1, <3>3, <3>4 DEF Enter
  <2>2. CASE Check(c, f)
    <3>1. UNCHANGED todo \/ todo' = [todo EXCEPT ![c] = todo[c] \ {f}]
      BY <2>2 DEF Check
    <3>2. UNCHANGED <<copy, refs>>
      BY <2>2 DEF Check
    <3>3. todo[c] \ {f} \in SUBSET Fields
      BY <1>0 DEF TypeOK
    <3>4. todo' \in [Calls -> SUBSET Fields]
      BY <1>0, <3>1, <3>3 DEF TypeOK
    <3> QED BY <1>0, <3>2, <3>4 DEF TypeOK
  <2>3. CASE Checked(c)
    <3>1. Copies(job[c].rpc) \in SUBSET Fields
      BY DEF Copies
    <3>2. UNCHANGED <<copy, refs>>
      BY <2>3 DEF Checked
    <3>3. UNCHANGED todo \/ todo' = [todo EXCEPT ![c] = Copies(job[c].rpc)]
      BY <2>3 DEF Checked
    <3>4. todo' \in [Calls -> SUBSET Fields]
      BY <1>0, <3>1, <3>3 DEF TypeOK
    <3> QED BY <1>0, <3>2, <3>4 DEF TypeOK
  <2>4. CASE Copy(c, f)
    BY <1>0, <2>4 DEF TypeOK, Copy
  <2>5. CASE Copied(c) \/ Finish(c) \/ Panic(c)
    BY <1>0, <2>5 DEF TypeOK, Copied, Finish, Panic
  <2> QED BY <2>1, <2>2, <2>3, <2>4, <2>5
<1> QED BY <1>0, <1>1, <1>2, <1>3, TypedStep DEF TypeOK

\* A listing names resources.
LEMMA ListedTyped ==
  ASSUME IInv, NEW c \in Calls, pc[c] = "listing", copy[c]["domains"] # Nil,
         job[c].type \in Enumerable
  PROVE  LET found == Listed(copy[c]["domains"], job[c].type)
         IN  /\ found \in Seq(Refs)
             /\ \A i \in DOMAIN found : found[i].type = job[c].type
<1> DEFINE client == copy[c]["domains"]
           names == Listing(Account(client))
<1>1. client \in Calls /\ HasSet(client, "domains")
  BY DEF IInv, TypeOK, ReadsAreCurrent, ReadIsCurrent, Fields
<1>2. /\ pc[client] # "idle" /\ job[client].rpc = "Initialize"
      /\ job[client].config # Malformed
  BY <1>1 DEF IInv, CallsAreInPhase, InPhase, HasSet, Initialized, ConfigValid
<1>3. job[client] \in Jobs
  BY <1>1, <1>2, JobFacts DEF IInv
<1>4. names \in Seq(Names)
  BY <1>2, <1>3, ListingAssumption DEF Account
<1>5. job[c].type \in ResourceTypes
  BY DEF Enumerable, ResourceTypes
<1> HIDE DEF names
<1>6. Listed(client, job[c].type) = [i \in 1..Len(names) |-> [name |-> names[i], type |-> job[c].type]]
  BY <1>4 DEF Listed, names, client
<1>7. \A i \in 1..Len(names) : [name |-> names[i], type |-> job[c].type] \in Refs
  BY <1>4, <1>5 DEF Refs
<1> QED BY <1>4, <1>6, <1>7

\* The steps of a listing keep the types.
LEMMA ListTyped ==
  ASSUME IInv, NEW c \in Calls, List(c)
  PROVE  TypeOK'
<1>0. TypeOK
  BY DEF IInv
<1> DEFINE client == copy[c]["domains"]
           found == Listed(client, job[c].type)
           outcomes == [i \in DOMAIN found |->
             [name |-> found[i].name, type |-> "infra.dns", client |-> client, ok |-> TRUE]]
<1>1. ASSUME client # Nil, job[c].type \in Enumerable
      PROVE  found \in Seq(Refs) /\ outcomes \in Seq(Outcomes)
  <2>1. found \in Seq(Refs)
    BY <1>1, ListedTyped DEF List
  <2>2. client \in Calls
    BY <1>0, <1>1 DEF TypeOK, Fields
  <2> HIDE DEF found, client
  <2>3. outcomes = [i \in 1..Len(found) |->
          [name |-> found[i].name, type |-> "infra.dns", client |-> client, ok |-> TRUE]]
    BY <2>1
  <2>4. ASSUME NEW i \in 1..Len(found)
        PROVE  [name |-> found[i].name, type |-> "infra.dns", client |-> client, ok |-> TRUE]
                 \in Outcomes
    <3>1. found[i] \in Refs
      BY <2>1
    <3>2. found[i].name \in Names
      BY <3>1 DEF Refs
    <3> QED BY <2>2, <3>2 DEF Outcomes, ResourceTypes
  <2> QED BY <2>1, <2>3, <2>4
<1>2. /\ UNCHANGED <<field, zone, job, todo, copy, using, destroyed, errors, before, emptied, declined>>
      /\ pc[c] = "listing"
  BY DEF List, lists
<1>3. CASE UNCHANGED <<refs, report>> /\ \E a \in Answers : Return(c, a)
  BY <1>0, <1>2, <1>3, TypedStep DEF TypeOK, Return, Phases
<1>4. CASE /\ client # Nil /\ job[c].type \in Enumerable
           /\ report' = [report EXCEPT ![c] = outcomes]
           /\ Return(c, "ok") /\ UNCHANGED refs
  <2> HIDE DEF client, outcomes
  <2>1. report' \in [Calls -> Seq(Outcomes)]
    BY <1>0, <1>1, <1>4 DEF TypeOK
  <2> QED BY <1>0, <1>2, <1>4, <2>1, TypedStep DEF TypeOK, Return, Phases, Answers
<1>5. CASE /\ client # Nil /\ job[c].type \in Enumerable
           /\ refs' = [refs EXCEPT ![c] = found]
           /\ pc' = [pc EXCEPT ![c] = "working"]
           /\ UNCHANGED <<report, answer>>
  <2> HIDE DEF client, found
  <2>1. refs' \in [Calls -> Seq(Refs)]
    BY <1>0, <1>1, <1>5 DEF TypeOK
  <2> QED BY <1>0, <1>2, <1>5, <2>1, TypedStep DEF TypeOK, Phases
<1> QED BY <1>3, <1>4, <1>5 DEF List, Answers

\* Concluding a resource keeps the types.
LEMMA ConcludeTyped ==
  ASSUME TypeOK, NEW c \in Calls, NEW client \in Calls \cup {Nil}, NEW ok \in BOOLEAN,
         refs[c] # <<>>, pc[c] # "idle", Conclude(c, client, ok)
  PROVE  /\ refs' \in [Calls -> Seq(Refs)] /\ report' \in [Calls -> Seq(Outcomes)]
         /\ destroyed' \in [Calls -> Seq(Names)] /\ errors' \in [Calls -> Seq(Names)]
         /\ using' \in [Calls -> Calls \cup {Nil}]
         /\ pc' \in [Calls -> Phases] /\ answer' \in [Calls -> Answers]
         /\ \A k \in Calls : pc[k] = "idle" => pc'[k] = "idle"
<1> DEFINE last == Outcome(Head(refs[c]), client, ok)
<1>1. Head(refs[c]) \in Refs /\ Tail(refs[c]) \in Seq(Refs)
  BY DEF TypeOK
<1>2. last \in Outcomes
  BY <1>1 DEF Outcome, Outcomes, Refs, ResourceTypes
<1>3. /\ refs' = [refs EXCEPT ![c] = Tail(refs[c])]
      /\ report' = [report EXCEPT ![c] = Append(report[c], last)]
      /\ using' = [using EXCEPT ![c] = Nil]
  BY DEF Conclude
<1> HIDE DEF last
<1>4. refs' \in [Calls -> Seq(Refs)]
  BY <1>1, <1>3 DEF TypeOK
<1>5. report' \in [Calls -> Seq(Outcomes)]
  <2>1. Append(report[c], last) \in Seq(Outcomes)
    BY <1>2 DEF TypeOK
  <2> QED BY <1>3, <2>1 DEF TypeOK
<1>6. using' \in [Calls -> Calls \cup {Nil}]
  BY <1>3 DEF TypeOK
<1>7. \/ pc' = [pc EXCEPT ![c] = "working"] /\ UNCHANGED answer
      \/ Return(c, "error")
  BY DEF Conclude
<1>8. destroyed' \in [Calls -> Seq(Names)] /\ errors' \in [Calls -> Seq(Names)]
  <2> DEFINE name == Head(refs[c]).name
  <2>1. name \in Names
    BY <1>1 DEF Refs
  <2>2. Tell(c, name, ok)
    BY DEF Conclude
  <2> HIDE DEF name
  <2>3. Append(destroyed[c], name) \in Seq(Names) /\ Append(errors[c], name) \in Seq(Names)
    BY <2>1 DEF TypeOK
  <2>4. \/ UNCHANGED <<destroyed, errors>>
        \/ /\ destroyed' = [destroyed EXCEPT ![c] = Append(destroyed[c], name)]
           /\ UNCHANGED errors
        \/ /\ errors' = [errors EXCEPT ![c] = Append(errors[c], name)]
           /\ UNCHANGED destroyed
    BY <2>2 DEF Tell, lists
  <2> QED BY <2>3, <2>4 DEF TypeOK
<1> QED BY <1>4, <1>5, <1>6, <1>7, <1>8 DEF TypeOK, Return, Phases, Answers

\* The work on a resource keeps the types.
LEMMA WorkTyped ==
  ASSUME IInv, NEW c \in Calls, Pick(c) \/ CallDriver(c)
  PROVE  TypeOK'
<1>0. TypeOK
  BY DEF IInv
<1>1. CASE Pick(c)
  <2> DEFINE f == Route(Head(refs[c]).type)
  <2>0. /\ UNCHANGED <<field, zone, job, todo, copy, before, emptied, declined>>
        /\ refs[c] # <<>> /\ pc[c] # "idle"
    BY <1>1 DEF Pick
  <2>1. CASE f = "none"
    <3>1. Conclude(c, Nil, FALSE)
      BY <1>1, <2>1 DEF Pick
    <3>2. /\ refs' \in [Calls -> Seq(Refs)] /\ report' \in [Calls -> Seq(Outcomes)]
          /\ destroyed' \in [Calls -> Seq(Names)] /\ errors' \in [Calls -> Seq(Names)]
          /\ using' \in [Calls -> Calls \cup {Nil}]
          /\ pc' \in [Calls -> Phases] /\ answer' \in [Calls -> Answers]
          /\ \A k \in Calls : pc[k] = "idle" => pc'[k] = "idle"
      BY <1>0, <2>0, <3>1, ConcludeTyped
    <3> QED BY <1>0, <2>0, <3>2, TypedStep DEF TypeOK
  <2>2. CASE f # "none"
    <3>1. f \in Fields
      BY <2>2, RouteFacts DEF Fields
    <3>2. PICK driver \in Calls \cup {Nil} : PickDriver(c, driver)
      BY <1>0, <1>1, <2>2, <3>1 DEF Pick, TypeOK
    <3>3. UNCHANGED <<refs, report, destroyed, errors>>
      BY <3>2 DEF PickDriver, lists
    <3>4. /\ using' \in [Calls -> Calls \cup {Nil}]
          /\ pc' \in [Calls -> Phases] /\ answer' \in [Calls -> Answers]
          /\ \A k \in Calls : pc[k] = "idle" => pc'[k] = "idle"
      BY <1>0, <2>0, <3>2 DEF TypeOK, PickDriver, Return, Phases, Answers
    <3> QED BY <1>0, <2>0, <3>3, <3>4, TypedStep DEF TypeOK
  <2> QED BY <2>1, <2>2
<1>2. CASE CallDriver(c)
  <2>1. refs[c] # <<>> /\ pc[c] # "idle" /\ using[c] \in Calls \cup {Nil}
    BY <1>2 DEF IInv, TypeOK, CallsAreInPhase, InPhase, CallDriver
  <2>2. PICK ok \in BOOLEAN : Conclude(c, using[c], ok)
    BY <1>2 DEF CallDriver
  <2>3. Head(refs[c]).name \in Names
    <3>1. Head(refs[c]) \in Refs
      BY <1>0, <2>1 DEF TypeOK
    <3> QED BY <3>1 DEF Refs
  <2>4. /\ zone' \in [Names -> {"records", "empty"}]
        /\ emptied' \in [Calls -> SUBSET Names] /\ declined' \in [Calls -> SUBSET Names]
    <3> DEFINE n == Head(refs[c]).name
    <3>1. /\ UNCHANGED <<zone, emptied>> \/ Written(c, Head(refs[c]))
          /\ UNCHANGED declined \/ declined' = [declined EXCEPT ![c] = declined[c] \cup {n}]
      BY <1>2 DEF CallDriver, Declined
    <3>2. /\ UNCHANGED zone \/ \E x \in {"records", "empty"} : zone' = [zone EXCEPT ![n] = x]
          /\ UNCHANGED emptied \/ emptied' = [emptied EXCEPT ![c] = emptied[c] \cup {n}]
      BY <3>1 DEF Written
    <3> HIDE DEF n
    <3>3. emptied[c] \cup {n} \in SUBSET Names /\ declined[c] \cup {n} \in SUBSET Names
      BY <1>0, <2>3 DEF TypeOK, n
    <3>4. zone' \in [Names -> {"records", "empty"}]
      BY <1>0, <3>2 DEF TypeOK
    <3>5. emptied' \in [Calls -> SUBSET Names]
      BY <1>0, <3>2, <3>3 DEF TypeOK
    <3>6. declined' \in [Calls -> SUBSET Names]
      BY <1>0, <3>1, <3>3 DEF TypeOK, n
    <3> QED BY <3>4, <3>5, <3>6
  <2>5. UNCHANGED <<field, job, todo, copy, before>>
    BY <1>2 DEF CallDriver
  <2>6. /\ refs' \in [Calls -> Seq(Refs)] /\ report' \in [Calls -> Seq(Outcomes)]
        /\ destroyed' \in [Calls -> Seq(Names)] /\ errors' \in [Calls -> Seq(Names)]
        /\ using' \in [Calls -> Calls \cup {Nil}]
        /\ pc' \in [Calls -> Phases] /\ answer' \in [Calls -> Answers]
        /\ \A k \in Calls : pc[k] = "idle" => pc'[k] = "idle"
    BY <1>0, <2>1, <2>2, ConcludeTyped
  <2> QED BY <1>0, <2>4, <2>5, <2>6, TypedStep DEF TypeOK
<1> QED BY <1>1, <1>2

\* Every step keeps the types.
LEMMA NextTyped ==
  ASSUME IInv, [Next]_vars
  PROVE  TypeOK'
<1>1. CASE UNCHANGED vars
  BY <1>1 DEF IInv, TypeOK, vars, lists
<1>2. CASE Next
  <2>1. PICK c \in Calls, f \in Fields : StepOf(c, f)
    BY <1>2, NextCases
  <2> QED BY <2>1, InvokeTyped, InitializeTyped, EntryTyped, ListTyped, WorkTyped DEF StepOf
<1> QED BY <1>1, <1>2

-----------------------------------------------------------------------------
(* What a step leaves alone                                                *)

\* The outcome of one call's resource is no other call's business.
LEMMA ConcludeStays ==
  ASSUME TypeOK, NEW c \in Calls, NEW client, NEW ok, Conclude(c, client, ok),
         NEW k \in Calls, k # c
  PROVE  /\ pc'[k] = pc[k] /\ refs'[k] = refs[k] /\ using'[k] = using[k]
         /\ report'[k] = report[k] /\ answer'[k] = answer[k]
<1>1. \/ pc' = [pc EXCEPT ![c] = "working"] /\ UNCHANGED answer
      \/ Return(c, "error")
  BY DEF Conclude
<1> QED BY <1>1 DEF TypeOK, Conclude, Return

\* A step moves one call.
LEMMA OthersStay ==
  ASSUME TypeOK, NEW c \in Calls, NEW f \in Fields, StepOf(c, f), NEW k \in Calls, k # c
  PROVE  /\ pc'[k] = pc[k] /\ job'[k] = job[k] /\ todo'[k] = todo[k]
         /\ copy'[k] = copy[k] /\ refs'[k] = refs[k] /\ using'[k] = using[k]
         /\ report'[k] = report[k] /\ answer'[k] = answer[k] /\ before'[k] = before[k]
<1>1. CASE \E j \in Jobs : Invoke(c, j)
  BY <1>1 DEF TypeOK, Invoke
<1>2. CASE Configure(c) \/ Store(c, f) \/ Stored(c)
  BY <1>2 DEF TypeOK, Configure, Store, Stored, Return
<1>3. CASE Enter(c)
  <2>1. UNCHANGED <<job, copy, using, report, before>>
    BY <1>3 DEF Enter
  <2>2. CASE Return(c, "invalid") /\ UNCHANGED <<todo, refs>>
    BY <2>1, <2>2 DEF TypeOK, Return
  <2>3. CASE /\ pc' = [pc EXCEPT ![c] = "checking"]
             /\ todo' = [todo EXCEPT ![c] = Needed(job[c].rpc)]
             /\ refs' = [refs EXCEPT ![c] = job[c].refs]
             /\ UNCHANGED answer
    BY <2>1, <2>3 DEF TypeOK
  <2> QED BY <1>3, <2>2, <2>3 DEF Enter
<1>4. CASE Check(c, f) \/ Finish(c)
  BY <1>4 DEF TypeOK, Check, Finish, Return
<1>5. CASE Checked(c) \/ Copy(c, f) \/ Copied(c) \/ Panic(c)
  BY <1>5 DEF TypeOK, Checked, Copy, Copied, Panic
<1>6. CASE List(c)
  <2>1. UNCHANGED <<job, todo, copy, using, before>>
    BY <1>6 DEF List
  <2>2. \/ UNCHANGED answer
        \/ \E a \in Answers : answer' = [answer EXCEPT ![c] = a]
    BY <1>6 DEF List, Return, Answers
  <2>3. \/ pc' = [pc EXCEPT ![c] = "returned"]
        \/ pc' = [pc EXCEPT ![c] = "working"]
    BY <1>6 DEF List, Return
  <2>4. \/ UNCHANGED refs
        \/ refs' = [refs EXCEPT ![c] = Listed(copy[c]["domains"], job[c].type)]
    BY <1>6 DEF List
  <2>5. UNCHANGED report \/ \E r : report' = [report EXCEPT ![c] = r]
    BY <1>6 DEF List
  <2>6. report'[k] = report[k]
    BY <2>5 DEF TypeOK
  <2>7. refs'[k] = refs[k]
    BY <2>4 DEF TypeOK
  <2>8. pc'[k] = pc[k] /\ answer'[k] = answer[k]
    BY <2>2, <2>3 DEF TypeOK
  <2> QED BY <2>1, <2>6, <2>7, <2>8
<1>7. CASE Pick(c)
  <2>1. UNCHANGED <<job, todo, copy, before>>
    BY <1>7 DEF Pick
  <2>2. CASE Conclude(c, Nil, FALSE)
    BY <2>1, <2>2, ConcludeStays
  <2>3. CASE \E driver : PickDriver(c, driver)
    BY <2>1, <2>3 DEF TypeOK, PickDriver, Return
  <2> QED BY <1>7, <2>2, <2>3 DEF Pick
<1>8. CASE CallDriver(c)
  <2>1. PICK ok \in BOOLEAN : Conclude(c, using[c], ok)
    BY <1>8 DEF CallDriver
  <2>2. UNCHANGED <<job, todo, copy, before>>
    BY <1>8 DEF CallDriver
  <2> QED BY <2>1, <2>2, ConcludeStays
<1> QED BY <1>1, <1>2, <1>3, <1>4, <1>5, <1>6, <1>7, <1>8 DEF StepOf

\* The steps of a call that is not an Initialize, from Enter on.
LEMMA OtherRpcs ==
  ASSUME IInv, NEW c \in Calls, NEW f \in Fields,
         \/ Enter(c) \/ Check(c, f) \/ Checked(c) \/ Copy(c, f) \/ Copied(c) \/ Finish(c)
         \/ List(c) \/ Pick(c) \/ CallDriver(c) \/ Panic(c)
  PROVE  /\ pc[c] \notin {"idle", "storing", "returned"} /\ pc'[c] # "storing" /\ pc'[c] # "idle"
         /\ job[c].rpc # "Initialize" /\ UNCHANGED <<field, job, before>>
<1>1. pc[c] \notin {"idle", "storing", "returned"} /\ UNCHANGED <<field, job, before>>
  BY DEF Enter, Check, Checked, Copy, Copied, Finish, List, Pick, CallDriver, Panic
<1>2. job[c].rpc # "Initialize"
  <2>1. \/ pc[c] = "entered" /\ job[c].rpc # "Initialize"
        \/ pc[c] \in {"checking", "copying", "listing", "working", "calling"}
    BY DEF Enter, Check, Checked, Copy, Copied, Finish, List, Pick, CallDriver, Panic
  <2> QED BY <2>1 DEF IInv, CallsAreInPhase, InPhase
<1>3. pc'[c] # "storing" /\ pc'[c] # "idle"
  <2>0. TypeOK
    BY DEF IInv
  <2>1. CASE Enter(c) \/ Check(c, f) \/ Checked(c)
    BY <1>1, <2>0, <2>1 DEF TypeOK, Enter, Check, Checked, Return
  <2>2. CASE Copy(c, f) \/ Copied(c) \/ Finish(c) \/ Panic(c)
    BY <1>1, <2>0, <2>2 DEF TypeOK, Copy, Copied, Finish, Panic, Return
  <2>3. CASE List(c)
    BY <2>0, <2>3 DEF TypeOK, List, Return
  <2>4. CASE Pick(c)
    BY <2>0, <2>4 DEF TypeOK, Pick, PickDriver, Conclude, Return
  <2>5. CASE CallDriver(c)
    <3>1. PICK ok \in BOOLEAN : Conclude(c, using[c], ok)
      BY <2>5 DEF CallDriver
    <3> QED BY <2>0, <3>1 DEF TypeOK, Conclude, Return
  <2> QED BY <2>1, <2>2, <2>3, <2>4, <2>5
<1> QED BY <1>1, <1>2, <1>3

\* No step undoes an Initialize or a store of one, and only Store adds one.
LEMMA StoresStay ==
  ASSUME IInv, NEW c \in Calls, NEW f \in Fields, StepOf(c, f)
  PROVE  /\ Initialized \subseteq Initialized'
         /\ \A j \in Calls, g \in Fields : HasSet(j, g) => HasSet(j, g)'
         /\ \A j \in Calls, g \in Fields :
              HasSet(j, g)' => HasSet(j, g) \/ (j = c /\ g = f /\ Store(c, f))
<1>0. TypeOK
  BY DEF IInv
<1>1. \A k \in Calls : k # c => (HasSet(k, f)' <=> HasSet(k, f))
                            /\ (k \in Initialized' <=> k \in Initialized)
                            /\ \A g \in Fields : HasSet(k, g)' <=> HasSet(k, g)
  BY <1>0, OthersStay DEF HasSet, Initialized
<1>2. CASE \E j \in Jobs : Invoke(c, j)
  <2>1. c \notin Initialized /\ c \notin Initialized' /\ pc[c] # "storing" /\ pc'[c] # "storing"
    BY <1>0, <1>2 DEF TypeOK, Invoke, Initialized
  <2> QED BY <1>1, <2>1 DEF HasSet, Initialized
<1>3. CASE Configure(c)
  <2>1. c \notin Initialized /\ pc[c] # "storing"
    BY <1>3 DEF Configure, Initialized
  <2>2. \/ pc'[c] = "storing" /\ todo'[c] = Fields
        \/ pc'[c] = "returned" /\ answer'[c] = "invalid"
    BY <1>0, <1>3 DEF TypeOK, Configure, Return
  <2>3. c \notin Initialized' /\ \A g \in Fields : ~HasSet(c, g)'
    BY <2>2 DEF Initialized, HasSet
  <2> QED BY <1>1, <2>1, <2>3 DEF HasSet, Initialized
<1>4. CASE Store(c, f)
  <2>1. /\ pc[c] = "storing" /\ pc'[c] = "storing"
        /\ todo'[c] = todo[c] \ {f}
    BY <1>0, <1>4 DEF TypeOK, Store
  <2>2. c \notin Initialized /\ c \notin Initialized'
    BY <2>1 DEF Initialized
  <2> QED BY <1>1, <1>4, <2>1, <2>2 DEF HasSet, Initialized
<1>5. CASE Stored(c)
  <2>1. pc[c] = "storing" /\ todo[c] = {} /\ pc'[c] = "returned" /\ answer'[c] = "ok"
    BY <1>0, <1>5 DEF TypeOK, Stored, Return
  <2>2. c \notin Initialized
    BY <2>1 DEF Initialized
  <2>3. job'[c].rpc = "Initialize"
    BY <1>5, <2>1 DEF IInv, CallsAreInPhase, InPhase, Stored
  <2>4. c \in Initialized'
    BY <2>1, <2>3 DEF Initialized
  <2> QED BY <1>1, <2>1, <2>2, <2>4 DEF HasSet, Initialized
<1>6. CASE \/ Enter(c) \/ Check(c, f) \/ Checked(c) \/ Copy(c, f) \/ Copied(c) \/ Finish(c)
           \/ List(c) \/ Pick(c) \/ CallDriver(c) \/ Panic(c)
  <2>1. c \notin Initialized /\ c \notin Initialized' /\ pc[c] # "storing" /\ pc'[c] # "storing"
    BY <1>6, OtherRpcs DEF Initialized
  <2> QED BY <1>1, <2>1 DEF HasSet, Initialized
<1> QED BY <1>2, <1>3, <1>4, <1>5, <1>6 DEF StepOf

\* What happens to the fields and to the order of the Initialize calls.
LEMMA FieldStep ==
  ASSUME IInv, NEW c \in Calls, NEW f \in Fields, StepOf(c, f)
  PROVE  /\ \/ UNCHANGED <<field, before>> /\ ~Store(c, f)
            \/ UNCHANGED field /\ before' = [before EXCEPT ![c] = Initialized]
                 /\ pc[c] = "idle" /\ ~Store(c, f)
            \/ Store(c, f)
         /\ \A g \in Fields : field[g] # Nil => field'[g] # Nil
<1>1. CASE \E j \in Jobs : Invoke(c, j)
  BY <1>1 DEF Invoke, Store
<1>2. CASE Configure(c) \/ Stored(c)
  BY <1>2 DEF Configure, Stored, Store
<1>3. CASE Store(c, f)
  <2>1. field' = [field EXCEPT ![f] = c] /\ c # Nil
    BY <1>3, NilAssumption DEF Store
  <2> QED BY <1>3, <2>1 DEF IInv, TypeOK
<1>4. CASE \/ Enter(c) \/ Check(c, f) \/ Checked(c) \/ Copy(c, f) \/ Copied(c) \/ Finish(c)
           \/ List(c) \/ Pick(c) \/ CallDriver(c) \/ Panic(c)
  BY <1>4, OtherRpcs DEF Store
<1> QED BY <1>1, <1>2, <1>3, <1>4 DEF StepOf

-----------------------------------------------------------------------------
(* The order of the Initialize calls                                       *)

\* Every step keeps the order in which fields are set.
LEMMA FieldsKept ==
  ASSUME IInv, NEW c \in Calls, NEW f \in Fields, StepOf(c, f)
  PROVE  FieldsAreSetInOrder'
<1>0. TypeOK /\ FieldsAreSetInOrder
  BY DEF IInv
<1>1. \A k \in Calls : before'[k] = before[k] \/ (k = c /\ before'[k] = Initialized)
  <2>1. CASE UNCHANGED before
    BY <2>1
  <2>2. CASE before' = [before EXCEPT ![c] = Initialized]
    BY <1>0, <2>2 DEF TypeOK
  <2>3. CASE Store(c, f)
    BY <2>3 DEF Store
  <2> QED BY <2>1, <2>2, <2>3, FieldStep
<1>2. \A k \in Calls : before'[k] \subseteq Initialized'
  BY <1>0, <1>1, StoresStay DEF FieldsAreSetInOrder
<1>3. CASE Store(c, f)
  <2>1. /\ field' = [field EXCEPT ![f] = c] /\ UNCHANGED before
        /\ pc[c] = "storing" /\ c # Nil
    BY <1>3, NilAssumption DEF Store
  <2>2. \A j \in Calls : c \notin before'[j]
    <3>1. c \notin Initialized
      BY <2>1 DEF Initialized
    <3> QED BY <1>0, <2>1, <3>1 DEF FieldsAreSetInOrder
  <2>3. HasSet(c, f)'
    BY <1>0, <1>3 DEF TypeOK, Store, HasSet
  <2>4. \A g \in Fields : field'[g] = IF g = f THEN c ELSE field[g]
    BY <1>0, <2>1 DEF TypeOK
  <2>5. \A g \in Fields :
          field'[g] # Nil => field'[g] \in Calls /\ \A j \in Calls : field'[g] = j => HasSet(j, g)'
    <3> SUFFICES ASSUME NEW g \in Fields, field'[g] # Nil
                 PROVE  field'[g] \in Calls /\ \A j \in Calls : field'[g] = j => HasSet(j, g)'
      OBVIOUS
    <3>1. CASE g = f
      BY <2>3, <2>4, <3>1
    <3>2. CASE g # f
      <4>1. field'[g] = field[g] /\ field[g] \in Calls
        BY <1>0, <2>4, <3>2 DEF TypeOK
      <4>2. \A j \in Calls : field[g] = j => HasSet(j, g)
        BY <1>0, <4>1 DEF FieldsAreSetInOrder
      <4> QED BY <4>1, <4>2, StoresStay
    <3> QED BY <3>1, <3>2
  <2>6. \A j \in Calls, g \in Fields :
          HasSet(j, g)' => field'[g] # Nil /\ field'[g] \notin before'[j]
    <3> SUFFICES ASSUME NEW j \in Calls, NEW g \in Fields, HasSet(j, g)'
                 PROVE  field'[g] # Nil /\ field'[g] \notin before'[j]
      OBVIOUS
    <3>1. CASE g = f
      BY <2>1, <2>2, <2>4, <3>1
    <3>2. CASE g # f
      BY <1>0, <2>1, <2>4, <3>2, StoresStay DEF FieldsAreSetInOrder
    <3> QED BY <3>1, <3>2
  <2> QED BY <1>2, <2>5, <2>6 DEF FieldsAreSetInOrder, HasSet
<1>4. CASE ~Store(c, f)
  <2>1. UNCHANGED field
    BY <1>4, FieldStep
  <2>2. \A g \in Fields :
          field'[g] # Nil => field'[g] \in Calls /\ \A j \in Calls : field'[g] = j => HasSet(j, g)'
    <3> SUFFICES ASSUME NEW g \in Fields, field[g] # Nil
                 PROVE  field[g] \in Calls /\ \A j \in Calls : field[g] = j => HasSet(j, g)'
      BY <2>1
    <3>1. field[g] \in Calls
      BY <1>0 DEF TypeOK
    <3>2. \A j \in Calls : field[g] = j => HasSet(j, g)
      BY <1>0, <3>1 DEF FieldsAreSetInOrder
    <3> QED BY <3>1, <3>2, StoresStay
  <2>3. \A j \in Calls, g \in Fields :
          HasSet(j, g)' => field'[g] # Nil /\ field'[g] \notin before'[j]
    <3> SUFFICES ASSUME NEW j \in Calls, NEW g \in Fields, HasSet(j, g)'
                 PROVE  field'[g] # Nil /\ field'[g] \notin before'[j]
      OBVIOUS
    <3>1. HasSet(j, g)
      BY <1>4, StoresStay
    <3>2. before'[j] = before[j]
      <4>1. CASE UNCHANGED before
        BY <4>1
      <4>2. CASE before' = [before EXCEPT ![c] = Initialized] /\ pc[c] = "idle"
        <5>1. j # c
          BY <3>1, <4>2 DEF HasSet, Initialized
        <5> QED BY <1>0, <4>2, <5>1 DEF TypeOK
      <4> QED BY <1>4, <4>1, <4>2, FieldStep
    <3> QED BY <1>0, <2>1, <3>1, <3>2 DEF FieldsAreSetInOrder
  <2> QED BY <1>2, <2>2, <2>3 DEF FieldsAreSetInOrder, HasSet
<1> QED BY <1>3, <1>4

\* Which clients were replaced before a call began never changes.
LEMMA SupersededStays ==
  ASSUME IInv, NEW c \in Calls, NEW f \in Fields, StepOf(c, f), NEW k \in Calls,
         k # c \/ pc[c] # "idle"
  PROVE  Superseded(k)' = Superseded(k)
<1>0. TypeOK /\ FieldsAreSetInOrder
  BY DEF IInv
<1>1. CASE UNCHANGED before \/ Store(c, f)
  BY <1>1 DEF Store, Superseded
<1>2. CASE before' = [before EXCEPT ![c] = Initialized] /\ pc[c] = "idle"
  <2>1. k # c /\ before'[k] = before[k]
    BY <1>0, <1>2 DEF TypeOK
  <2>2. c \notin before[k] /\ before[k] \subseteq Calls
    BY <1>0, <1>2 DEF TypeOK, FieldsAreSetInOrder, Initialized
  <2>3. \A j \in before[k] : before'[j] = before[j]
    BY <1>0, <1>2, <2>2 DEF TypeOK
  <2> QED BY <2>1, <2>3 DEF Superseded
<1> QED BY <1>1, <1>2, FieldStep

\* A field a call finds set after it began holds no client replaced before.
LEMMA LoadsAreCurrent ==
  ASSUME IInv, NEW c \in Calls, NEW f \in Fields
  PROVE  /\ Superseded(c) \subseteq Calls /\ Nil \notin Superseded(c)
         /\ field[f] \notin Superseded(c)
         /\ field[f] = Nil => before[c] = {}
<1>0. TypeOK /\ FieldsAreSetInOrder
  BY DEF IInv
<1>1. before[c] \subseteq Calls /\ \A j \in Calls : before[j] \subseteq Calls
  BY <1>0 DEF TypeOK
<1>2. Superseded(c) \subseteq Calls
  BY <1>1 DEF Superseded
<1>3. \A j \in before[c] : HasSet(j, f)
  BY <1>0 DEF FieldsAreSetInOrder, HasSet
<1>4. \A j \in before[c] : field[f] # Nil /\ field[f] \notin before[j]
  BY <1>0, <1>1, <1>3 DEF FieldsAreSetInOrder
<1>5. field[f] \notin Superseded(c)
  BY <1>4 DEF Superseded
<1> QED BY <1>2, <1>4, <1>5, NilAssumption

-----------------------------------------------------------------------------
(* One call                                                                *)

\* What the invariant says of one call.
CallOK(c) ==
  /\ InPhase(c) /\ WorksWithCurrent(c)
  /\ \A f \in Fields : ReadIsCurrent(c, f)
  /\ pc[c] = "calling" => using[c] # Nil /\ \E f \in Fields : HasSet(using[c], f)
  /\ pc[c] = "panicked" => RanBeside(c)
  /\ answer[c] = "uninitialized" => before[c] = {}

\* The invariant, call by call.
LEMMA CallsOK ==
  /\ IInv <=> TypeOK /\ FieldsAreSetInOrder /\ \A c \in Calls : CallOK(c)
  /\ IInv' <=> TypeOK' /\ FieldsAreSetInOrder' /\ \A c \in Calls : CallOK(c)'
BY DEF IInv, CallOK, CallsAreInPhase, ReadsAreCurrent, NoNilDriver, NoStaleClient,
       RefusedOnlyBeforeInitialize

\* The steps of others do not disturb a call.
LEMMA OthersAreOK ==
  ASSUME IInv, NEW c \in Calls, NEW f \in Fields, StepOf(c, f), NEW k \in Calls, k # c
  PROVE  CallOK(k)'
<1>0. TypeOK /\ CallOK(k)
  BY CallsOK DEF IInv
<1>1. /\ pc'[k] = pc[k] /\ job'[k] = job[k] /\ todo'[k] = todo[k]
      /\ copy'[k] = copy[k] /\ refs'[k] = refs[k] /\ using'[k] = using[k]
      /\ report'[k] = report[k] /\ answer'[k] = answer[k] /\ before'[k] = before[k]
  BY <1>0, OthersStay
<1>2. Superseded(k)' = Superseded(k)
  BY SupersededStays
<1>3. k \in Initialized' <=> k \in Initialized
  BY <1>1 DEF Initialized
<1>4. InPhase(k)'
  BY <1>0, <1>1, <1>3 DEF CallOK, InPhase
<1>5. WorksWithCurrent(k)'
  BY <1>0, <1>1, <1>2 DEF CallOK, WorksWithCurrent
<1>6. ASSUME NEW g \in Fields
      PROVE  ReadIsCurrent(k, g)'
  <2>1. ReadIsCurrent(k, g)
    BY <1>0 DEF CallOK
  <2>2. (HasChecked(k, g)' <=> HasChecked(k, g)) /\ (HasCopied(k, g)' <=> HasCopied(k, g))
    BY <1>1 DEF HasChecked, HasCopied
  <2>3. HasChecked(k, g) => field'[g] # Nil
    BY <2>1, FieldStep DEF ReadIsCurrent
  <2>4. copy[k][g] # Nil => \A j \in Calls : copy[k][g] = j => HasSet(j, g)'
    BY <2>1, StoresStay DEF ReadIsCurrent
  <2>5. copy[k][g] # Nil => copy[k][g] \in Calls
    BY <1>0 DEF TypeOK
  <2> QED BY <1>1, <1>2, <2>1, <2>2, <2>3, <2>4, <2>5 DEF ReadIsCurrent, HasSet
<1>7. ASSUME pc[k] = "calling"
      PROVE  using[k] # Nil /\ \A j \in Calls : using[k] = j => \E g \in Fields : HasSet(j, g)'
  <2>1. using[k] # Nil /\ \E g \in Fields : HasSet(using[k], g)
    BY <1>0, <1>7 DEF CallOK
  <2> QED BY <2>1, StoresStay
<1>8. pc[k] = "panicked" => RanBeside(k)'
  BY <1>0, <1>1, StoresStay DEF CallOK, RanBeside
<1>9. using[k] \in Calls \cup {Nil}
  BY <1>0 DEF TypeOK
<1> QED BY <1>0, <1>1, <1>4, <1>5, <1>6, <1>7, <1>8, <1>9 DEF CallOK, HasSet

\* A call that only moves on: to another phase, or with an answer.
LEMMA MovesOn ==
  ASSUME IInv, NEW c \in Calls, NEW f \in Fields, StepOf(c, f), pc[c] # "idle",
         copy'[c] = copy[c]
  PROVE  /\ Superseded(c)' = Superseded(c) /\ before'[c] = before[c]
         /\ \A g \in Fields :
              /\ copy'[c][g] \notin Superseded(c)'
              /\ copy'[c][g] # Nil => /\ copy'[c][g] \in Calls
                                          /\ \A j \in Calls : copy'[c][g] = j => HasSet(j, g)'
<1>1. TypeOK /\ CallOK(c)
  BY CallsOK DEF IInv
<1>2. Superseded(c)' = Superseded(c)
  BY SupersededStays
<1>3. before'[c] = before[c]
  BY FieldStep DEF Store
<1>4. ASSUME NEW g \in Fields
      PROVE  /\ copy[c][g] \notin Superseded(c)
             /\ copy[c][g] # Nil => copy[c][g] \in Calls /\ HasSet(copy[c][g], g)
  BY <1>1 DEF CallOK, ReadIsCurrent, TypeOK
<1> QED BY <1>2, <1>3, <1>4, StoresStay

\* A call that starts is in order.
LEMMA InvokeOK ==
  ASSUME IInv, NEW c \in Calls, NEW j \in Jobs, Invoke(c, j)
  PROVE  CallOK(c)'
<1>0. TypeOK /\ CallOK(c)
  BY CallsOK DEF IInv
<1>1. /\ pc[c] = "idle" /\ pc'[c] = "entered"
      /\ UNCHANGED <<using, report, answer, copy, refs>>
  BY <1>0 DEF TypeOK, Invoke
<1>2. /\ using[c] = Nil /\ report[c] = <<>> /\ answer[c] = "none"
      /\ \A g \in Fields : copy[c][g] = Nil
  BY <1>0, <1>1 DEF CallOK, InPhase
<1>3. Nil \notin Superseded(c)'
  <2>1. before' \in [Calls -> SUBSET Calls]
    BY <1>0 DEF TypeOK, Invoke, Initialized
  <2> QED BY <2>1, NilAssumption DEF Superseded
<1>4. InPhase(c)'
  BY <1>1, <1>2 DEF InPhase, Initialized
<1>5. WorksWithCurrent(c)'
  BY <1>1, <1>2, <1>3 DEF WorksWithCurrent
<1>6. \A g \in Fields : ReadIsCurrent(c, g)'
  BY <1>1, <1>2, <1>3 DEF ReadIsCurrent, HasChecked, HasCopied
<1> QED BY <1>1, <1>2, <1>4, <1>5, <1>6 DEF CallOK

\* A call that initializes stays in order.
LEMMA InitializeOK ==
  ASSUME IInv, NEW c \in Calls, NEW f \in Fields,
         Configure(c) \/ Store(c, f) \/ Stored(c)
  PROVE  CallOK(c)'
<1>0. TypeOK /\ CallOK(c) /\ StepOf(c, f)
  BY CallsOK DEF IInv, StepOf
<1>1. pc[c] # "idle" /\ UNCHANGED <<job, copy, refs, using, report, before>>
  BY DEF Configure, Store, Stored
<1>2. /\ job[c].rpc = "Initialize" /\ answer[c] = "none"
      /\ pc[c] = "storing" => ConfigValid(job[c].config)
  BY <1>0 DEF Configure, Store, Stored, CallOK, InPhase
<1>3. \/ pc'[c] = "storing" /\ answer'[c] = "none" /\ ConfigValid(job[c].config)
      \/ pc'[c] = "returned" /\ answer'[c] = "ok" /\ ConfigValid(job[c].config)
      \/ pc'[c] = "returned" /\ answer'[c] = "invalid"
  <2>1. CASE Configure(c)
    BY <1>0, <1>2, <2>1 DEF TypeOK, Configure, Return
  <2>2. CASE Store(c, f)
    BY <1>0, <1>2, <2>2 DEF TypeOK, Store
  <2>3. CASE Stored(c)
    BY <1>0, <1>2, <2>3 DEF TypeOK, Stored, Return
  <2> QED BY <2>1, <2>2, <2>3
<1>4. InPhase(c)'
  BY <1>1, <1>2, <1>3 DEF InPhase, Initialized
<1>5. WorksWithCurrent(c)'
  BY <1>0, <1>1, MovesOn DEF CallOK, WorksWithCurrent
<1>6. \A g \in Fields : ReadIsCurrent(c, g)'
  <2>1. \A g \in Fields :
          /\ copy'[c][g] \notin Superseded(c)'
          /\ copy'[c][g] # Nil => /\ copy'[c][g] \in Calls
                                  /\ \A j \in Calls : copy'[c][g] = j => HasSet(j, g)'
    BY <1>0, <1>1, MovesOn
  <2> QED BY <1>3, <2>1 DEF ReadIsCurrent, HasChecked, HasCopied, HasSet
<1> QED BY <1>3, <1>4, <1>5, <1>6 DEF CallOK

\* A call on its way through the checks stays in order.
LEMMA EntryOK ==
  ASSUME IInv, NEW c \in Calls, NEW f \in Fields,
         Enter(c) \/ Check(c, f) \/ Checked(c) \/ Copied(c) \/ Finish(c)
  PROVE  CallOK(c)'
<1>0. TypeOK /\ CallOK(c) /\ StepOf(c, f)
  BY CallsOK DEF IInv, StepOf
<1>1. /\ pc[c] # "idle" /\ pc'[c] \notin {"idle", "storing"} /\ job[c].rpc # "Initialize"
      /\ UNCHANGED <<field, job, copy, using, report, before>>
  BY OtherRpcs DEF Enter, Check, Checked, Copied, Finish
<1>2. answer[c] = "none"
  BY <1>0 DEF CallOK, InPhase, Enter, Check, Checked, Copied, Finish
<1>3. \/ pc'[c] = "checking" /\ answer'[c] = "none" /\ todo'[c] = Needed(job[c].rpc)
      \/ /\ pc[c] = "checking" /\ pc'[c] = "checking" /\ answer'[c] = "none"
         /\ todo'[c] = todo[c] \ {f} /\ field[f] # Nil
      \/ /\ pc[c] = "checking" /\ todo[c] = {}
         /\ pc'[c] = "copying" /\ answer'[c] = "none" /\ todo'[c] = Copies(job[c].rpc)
      \/ /\ pc[c] = "checking" /\ todo[c] = {} /\ Copies(job[c].rpc) = {}
         /\ pc'[c] = "working" /\ answer'[c] = "none"
      \/ /\ pc[c] = "copying" /\ todo[c] = {}
         /\ pc'[c] = IF job[c].rpc = "EnumerateAll" THEN "listing" ELSE "working"
         /\ answer'[c] = "none"
      \/ /\ pc'[c] = "returned"
         /\ answer'[c] = "uninitialized" => field[f] = Nil
  <2>1. CASE Enter(c)
    BY <1>0, <1>2, <2>1 DEF TypeOK, Enter, Return
  <2>2. CASE Check(c, f)
    BY <1>0, <1>2, <2>2 DEF TypeOK, Check, Return
  <2>3. CASE Checked(c)
    BY <1>0, <1>2, <2>3 DEF TypeOK, Checked
  <2>4. CASE Copied(c)
    BY <1>0, <1>2, <2>4 DEF TypeOK, Copied
  <2>5. CASE Finish(c)
    BY <1>0, <2>5 DEF TypeOK, Finish, Return
  <2> QED BY <2>1, <2>2, <2>3, <2>4, <2>5
<1>4. InPhase(c)'
  <2>1. Copies(job[c].rpc) = {} => job[c].rpc # "EnumerateAll"
    BY DEF Copies, Fields
  <2> QED BY <1>1, <1>3, <2>1 DEF InPhase, Initialized
<1>5. WorksWithCurrent(c)'
  BY <1>0, <1>1, MovesOn DEF CallOK, WorksWithCurrent
<1>6. ASSUME NEW g \in Fields
      PROVE  ReadIsCurrent(c, g)'
  <2>1. ReadIsCurrent(c, g)
    BY <1>0 DEF CallOK
  <2>2. HasChecked(c, g)' => HasChecked(c, g) \/ field[g] # Nil
    BY <1>1, <1>3 DEF HasChecked
  <2>3. HasCopied(c, g)' => HasCopied(c, g)
    BY <1>1, <1>3 DEF HasCopied
  <2>4. \A h \in Fields :
          /\ copy'[c][h] \notin Superseded(c)'
          /\ copy'[c][h] # Nil => /\ copy'[c][h] \in Calls
                                  /\ \A j \in Calls : copy'[c][h] = j => HasSet(j, h)'
    BY <1>0, <1>1, MovesOn
  <2> QED BY <1>1, <2>1, <2>2, <2>3, <2>4 DEF ReadIsCurrent, HasSet
<1>7. answer'[c] = "uninitialized" => before'[c] = {}
  BY <1>1, <1>3, LoadsAreCurrent
<1> QED BY <1>3, <1>4, <1>5, <1>6, <1>7 DEF CallOK

\* A call that copies the fields stays in order.
LEMMA CopyOK ==
  ASSUME IInv, NEW c \in Calls, NEW f \in Fields, Copy(c, f)
  PROVE  CallOK(c)'
<1>0. TypeOK /\ CallOK(c) /\ StepOf(c, f) /\ FieldsAreSetInOrder
  BY CallsOK DEF IInv, StepOf
<1>1. /\ pc[c] = "copying" /\ todo'[c] = todo[c] \ {f}
      /\ \A g \in Fields : copy'[c][g] = IF g = f THEN field[g] ELSE copy[c][g]
      /\ UNCHANGED <<field, pc, job, refs, using, report, answer, before>>
  BY <1>0 DEF TypeOK, Copy
<1>2. Superseded(c)' = Superseded(c)
  BY <1>0, <1>1, SupersededStays
<1>3. InPhase(c)'
  BY <1>0, <1>1 DEF CallOK, InPhase, Initialized
<1>4. WorksWithCurrent(c)'
  BY <1>0, <1>1, <1>2 DEF CallOK, WorksWithCurrent
<1>5. ASSUME NEW g \in Fields
      PROVE  ReadIsCurrent(c, g)'
  <2>1. ReadIsCurrent(c, g)
    BY <1>0 DEF CallOK
  <2>2. HasChecked(c, g)' <=> HasChecked(c, g)
    BY <1>1 DEF HasChecked
  <2>3. CASE g # f
    <3>1. copy'[c][g] = copy[c][g] /\ (HasCopied(c, g)' => HasCopied(c, g))
      BY <1>1, <2>3 DEF HasCopied
    <3>2. copy[c][g] # Nil => copy[c][g] \in Calls
      BY <1>0 DEF TypeOK
    <3>3. copy[c][g] # Nil => \A j \in Calls : copy[c][g] = j => HasSet(j, g)'
      BY <1>0, <2>1, StoresStay DEF ReadIsCurrent
    <3> QED BY <1>1, <1>2, <2>1, <2>2, <3>1, <3>2, <3>3 DEF ReadIsCurrent, HasSet
  <2>4. CASE g = f
    <3>1. copy'[c][g] = field[g]
      BY <1>1, <2>4
    <3>2. field[g] \notin Superseded(c) /\ (field[g] = Nil => before[c] = {})
      BY LoadsAreCurrent
    <3>3. field[g] # Nil => field[g] \in Calls /\ \A j \in Calls : field[g] = j => HasSet(j, g)'
      BY <1>0, StoresStay DEF TypeOK, FieldsAreSetInOrder
    <3>4. field[g] = Nil => g \notin Needed(job[c].rpc)
      BY <1>1, <2>1 DEF ReadIsCurrent, HasChecked
    <3> QED BY <1>1, <1>2, <2>1, <2>2, <3>1, <3>2, <3>3, <3>4 DEF ReadIsCurrent, HasSet
  <2> QED BY <2>3, <2>4
<1> QED BY <1>0, <1>1, <1>3, <1>4, <1>5 DEF CallOK

\* A call that has met a driver without its client ran beside the Initialize
\* which made it.
LEMMA PanicOK ==
  ASSUME IInv, NEW c \in Calls, Panic(c)
  PROVE  CallOK(c)'
<1>0. TypeOK /\ CallOK(c) /\ "domains" \in Fields /\ StepOf(c, "domains")
  BY CallsOK DEF IInv, StepOf, Fields
<1>1. /\ pc[c] \in {"calling", "listing"} /\ pc'[c] = "panicked"
      /\ UNCHANGED <<field, job, todo, copy, refs, using, report, answer, before>>
  BY <1>0 DEF TypeOK, Panic
<1>2. \E i \in Calls \ before[c], g \in Fields : HasSet(i, g)
  <2>1. CASE pc[c] = "calling"
    <3>1. using[c] \in Calls \ before[c]
      BY <1>0, <2>1 DEF TypeOK, Panic, Unpublished
    <3> QED BY <1>0, <2>1, <3>1 DEF CallOK
  <2>2. CASE pc[c] = "listing"
    <3>1. copy[c]["domains"] \in Calls \ before[c]
      BY <1>0, <2>2 DEF TypeOK, Panic, Unpublished
    <3>2. ReadIsCurrent(c, "domains") /\ copy[c]["domains"] # Nil
      BY <1>0, <3>1, NilAssumption DEF CallOK
    <3> QED BY <1>0, <3>1, <3>2 DEF ReadIsCurrent
  <2> QED BY <1>1, <2>1, <2>2
<1>3. RanBeside(c)'
  <2>1. PICK i \in Calls \ before[c], g \in Fields : HasSet(i, g)
    BY <1>2
  <2>2. HasSet(i, g)'
    BY <1>0, <2>1, StoresStay
  <2> QED BY <1>1, <2>1, <2>2 DEF RanBeside
<1>4. Superseded(c)' = Superseded(c)
  BY <1>0, <1>1, SupersededStays
<1>5. InPhase(c)'
  BY <1>0, <1>1 DEF CallOK, InPhase, Initialized
<1>6. WorksWithCurrent(c)'
  BY <1>0, <1>1, <1>4 DEF CallOK, WorksWithCurrent
<1>7. ASSUME NEW g \in Fields
      PROVE  ReadIsCurrent(c, g)'
  <2>1. ReadIsCurrent(c, g)
    BY <1>0 DEF CallOK
  <2>2. ~HasChecked(c, g)' /\ ~HasCopied(c, g)'
    BY <1>1 DEF HasChecked, HasCopied
  <2>3. copy[c][g] # Nil => copy[c][g] \in Calls
    BY <1>0 DEF TypeOK
  <2>4. copy[c][g] # Nil => \A j \in Calls : copy[c][g] = j => HasSet(j, g)'
    BY <1>0, <2>1, StoresStay DEF ReadIsCurrent
  <2> QED BY <1>1, <1>4, <2>1, <2>2, <2>3, <2>4 DEF ReadIsCurrent, HasSet
<1> QED BY <1>0, <1>1, <1>3, <1>5, <1>6, <1>7 DEF CallOK

\* The reads of a call that is past its checks and copies stay current.
LEMMA WorkingReads ==
  ASSUME IInv, NEW c \in Calls, NEW f \in Fields, List(c) \/ Pick(c) \/ CallDriver(c)
  PROVE  /\ UNCHANGED <<field, job, todo, copy, before>> /\ Superseded(c)' = Superseded(c)
         /\ \A g \in Fields : ReadIsCurrent(c, g)'
<1>0. TypeOK /\ CallOK(c) /\ StepOf(c, f)
  BY CallsOK DEF IInv, StepOf
<1>1. /\ pc[c] \in {"listing", "working", "calling"}
      /\ UNCHANGED <<field, job, todo, copy, before>>
  BY DEF List, Pick, CallDriver
<1>2. /\ Superseded(c)' = Superseded(c)
      /\ \A g \in Fields :
           /\ copy'[c][g] \notin Superseded(c)'
           /\ copy'[c][g] # Nil => /\ copy'[c][g] \in Calls
                                   /\ \A j \in Calls : copy'[c][g] = j => HasSet(j, g)'
  BY <1>0, <1>1, MovesOn
<1>3. pc'[c] # "checking" /\ pc'[c] # "copying"
  <2>1. CASE List(c)
    BY <1>0, <2>1 DEF TypeOK, List, Return
  <2>2. CASE Pick(c)
    BY <1>0, <2>2 DEF TypeOK, Pick, PickDriver, Conclude, Return
  <2>3. CASE CallDriver(c)
    <3>1. PICK ok \in BOOLEAN : Conclude(c, using[c], ok)
      BY <2>3 DEF CallDriver
    <3> QED BY <1>0, <3>1 DEF TypeOK, Conclude, Return
  <2> QED BY <2>1, <2>2, <2>3
<1>4. ASSUME NEW g \in Fields
      PROVE  ReadIsCurrent(c, g)'
  <2>1. ReadIsCurrent(c, g)
    BY <1>0 DEF CallOK
  <2>2. (HasChecked(c, g)' => HasChecked(c, g)) /\ (HasCopied(c, g)' => HasCopied(c, g))
    BY <1>1, <1>3 DEF HasChecked, HasCopied
  <2> QED BY <1>1, <1>2, <2>1, <2>2 DEF ReadIsCurrent, HasSet
<1> QED BY <1>1, <1>2, <1>4

\* A call that lists the domains stays in order.
LEMMA ListOK ==
  ASSUME IInv, NEW c \in Calls, List(c)
  PROVE  CallOK(c)'
<1> DEFINE client == copy[c]["domains"]
           found == Listed(client, job[c].type)
<1>0. TypeOK /\ CallOK(c) /\ "domains" \in Fields
  BY CallsOK DEF IInv, Fields
<1>1. /\ UNCHANGED <<field, job, todo, copy, before>> /\ Superseded(c)' = Superseded(c)
      /\ \A g \in Fields : ReadIsCurrent(c, g)'
  BY <1>0, WorkingReads
<1>2. /\ pc[c] = "listing" /\ job[c].rpc = "EnumerateAll" /\ answer[c] = "none"
      /\ UNCHANGED using
  BY <1>0 DEF List, CallOK, InPhase
<1>3. client # Nil /\ client \notin Superseded(c)
  <2>1. ReadIsCurrent(c, "domains")
    BY <1>0 DEF CallOK
  <2>2. HasCopied(c, "domains") /\ "domains" \in Needed("EnumerateAll")
    BY <1>0, <1>2 DEF HasCopied, Copies, Needed
  <2> QED BY <1>2, <2>1, <2>2 DEF ReadIsCurrent
<1>4. \/ /\ UNCHANGED <<refs, report>> /\ pc'[c] = "returned"
         /\ answer'[c] \in {"invalid", "error"}
      \/ /\ UNCHANGED refs /\ pc'[c] = "returned" /\ answer'[c] = "ok"
         /\ \A i \in DOMAIN report'[c] : report'[c][i].client = client
      \/ /\ UNCHANGED report /\ refs'[c] = found /\ pc'[c] = "working" /\ answer'[c] = "none"
         /\ job[c].type = "infra.dns_delegation"
  <2>1. CASE \/ Return(c, "invalid") /\ UNCHANGED <<refs, report>>
             \/ Return(c, "error") /\ UNCHANGED <<refs, report>>
    BY <1>0, <2>1 DEF TypeOK, Return
  <2>2. CASE /\ report' = [report EXCEPT ![c] = [i \in DOMAIN found |->
                      [name |-> found[i].name, type |-> "infra.dns",
                       client |-> client, ok |-> TRUE]]]
             /\ Return(c, "ok") /\ UNCHANGED refs
    <3> HIDE DEF client, found
    <3> QED BY <1>0, <2>2 DEF TypeOK, Return
  <2>3. CASE /\ job[c].type = "infra.dns_delegation"
             /\ refs' = [refs EXCEPT ![c] = found]
             /\ pc' = [pc EXCEPT ![c] = "working"]
             /\ UNCHANGED <<report, answer>>
    <3> HIDE DEF client, found
    <3> QED BY <1>0, <1>2, <2>3 DEF TypeOK
  <2> QED BY <1>3, <2>1, <2>2, <2>3 DEF List
<1>5. InPhase(c)'
  <2>1. job[c].type = "infra.dns_delegation" =>
          \A i \in DOMAIN found : found[i].type = "infra.dns_delegation"
    BY <1>2, <1>3, ListedTyped DEF Enumerable
  <2> HIDE DEF found
  <2> QED BY <1>1, <1>2, <1>4, <2>1 DEF InPhase, Initialized
<1>6. WorksWithCurrent(c)'
  <2> HIDE DEF client, found
  <2> QED BY <1>0, <1>1, <1>2, <1>3, <1>4 DEF CallOK, WorksWithCurrent
<1>7. answer'[c] # "uninitialized" /\ pc'[c] \notin {"calling", "panicked"}
  BY <1>4
<1> QED BY <1>1, <1>5, <1>6, <1>7 DEF CallOK

\* The outcome of a resource is one of the client the call works with.
LEMMA ConcludeOK ==
  ASSUME IInv, NEW c \in Calls, Pick(c) \/ CallDriver(c), NEW client \in Calls \cup {Nil},
         client \notin Superseded(c), NEW ok \in BOOLEAN, Conclude(c, client, ok)
  PROVE  CallOK(c)'
<1>0. TypeOK /\ CallOK(c) /\ "domains" \in Fields
  BY CallsOK DEF IInv, Fields
<1>1. /\ UNCHANGED <<field, job, todo, copy, before>> /\ Superseded(c)' = Superseded(c)
      /\ \A g \in Fields : ReadIsCurrent(c, g)'
  BY <1>0, WorkingReads
<1>2. /\ pc[c] \in {"working", "calling"} /\ refs[c] # <<>>
      /\ answer[c] = "none" /\ job[c].rpc # "Initialize"
  BY <1>0 DEF CallOK, InPhase, Pick, CallDriver
<1>3. \/ pc'[c] = "working" /\ answer'[c] = "none"
      \/ pc'[c] = "returned" /\ answer'[c] = "error"
  BY <1>0, <1>2 DEF TypeOK, Conclude, Return
<1>4. using'[c] = Nil /\ refs'[c] = Tail(refs[c])
  BY <1>0 DEF TypeOK, Conclude
<1>5. report'[c] = Append(report[c], Outcome(Head(refs[c]), client, ok))
  BY <1>0 DEF TypeOK, Conclude
<1>6. InPhase(c)'
  <2>1. ASSUME job[c].rpc = "EnumerateAll"
        PROVE  \A i \in DOMAIN Tail(refs[c]) : Tail(refs[c])[i].type = "infra.dns_delegation"
    <3>1. \A i \in DOMAIN refs[c] : refs[c][i].type = "infra.dns_delegation"
      BY <1>0, <1>2, <2>1 DEF CallOK, InPhase
    <3>2. refs[c] \in Seq(Refs) /\ refs[c] # <<>>
      BY <1>0, <1>2 DEF TypeOK
    <3> QED BY <3>1, <3>2
  <2> QED BY <1>1, <1>2, <1>3, <1>4, <2>1 DEF InPhase, Initialized
<1>7. WorksWithCurrent(c)'
  <2>1. Nil \notin Superseded(c)
    BY <1>0, LoadsAreCurrent
  <2>2. \A i \in DOMAIN report[c] : report[c][i].client \notin Superseded(c)
    BY <1>0 DEF CallOK, WorksWithCurrent
  <2>3. Outcome(Head(refs[c]), client, ok).client = client
    BY DEF Outcome
  <2>4. report[c] \in Seq(Outcomes)
    BY <1>0 DEF TypeOK
  <2>5. \A i \in DOMAIN report'[c] : report'[c][i].client \notin Superseded(c)
    BY <1>5, <2>2, <2>3, <2>4
  <2> QED BY <1>1, <1>4, <2>1, <2>5 DEF WorksWithCurrent
<1> QED BY <1>1, <1>3, <1>6, <1>7 DEF CallOK

\* What a call picks is there and current.
LEMMA PickOK ==
  ASSUME IInv, NEW c \in Calls, Pick(c)
  PROVE  CallOK(c)'
<1> DEFINE f == Route(Head(refs[c]).type)
           driver == IF Copies(job[c].rpc) # {} THEN copy[c][f] ELSE field[f]
<1>0. TypeOK /\ CallOK(c)
  BY CallsOK DEF IInv
<1>1. /\ pc[c] = "working" /\ refs[c] # <<>> /\ answer[c] = "none" /\ job[c].rpc # "Initialize"
  BY <1>0 DEF Pick, CallOK, InPhase
<1>2. CASE f = "none"
  <2>1. Conclude(c, Nil, FALSE)
    BY <1>2 DEF Pick
  <2>2. Nil \notin Superseded(c)
    BY LoadsAreCurrent DEF Fields
  <2> QED BY <2>1, <2>2, ConcludeOK
<1>3. CASE f # "none"
  <2>1. f \in Drivers /\ f \in Fields
    BY <1>3, RouteFacts DEF Fields
  <2>2. PickDriver(c, driver)
    BY <1>3 DEF Pick
  <2>3. /\ UNCHANGED <<field, job, todo, copy, before>> /\ Superseded(c)' = Superseded(c)
        /\ \A g \in Fields : ReadIsCurrent(c, g)'
    BY <2>1, WorkingReads
  <2>4. ReadIsCurrent(c, f)
    BY <1>0, <2>1 DEF CallOK
  <2>5. driver \notin Superseded(c)
    BY <2>1, <2>4, LoadsAreCurrent DEF ReadIsCurrent
  <2>6. job[c].rpc = "EnumerateAll" => f = "delegation"
    <3>1. ASSUME job[c].rpc = "EnumerateAll"
          PROVE  Head(refs[c]).type = "infra.dns_delegation"
      <4>1. \A i \in DOMAIN refs[c] : refs[c][i].type = "infra.dns_delegation"
        BY <1>0, <1>1, <3>1 DEF CallOK, InPhase
      <4> QED BY <1>0, <1>1, <4>1 DEF TypeOK
    <3> QED BY <3>1, RouteFacts
  <2>7. driver = Nil => job[c].rpc = "EnumerateAll" /\ before[c] = {}
    <3>1. CASE Copies(job[c].rpc) = {}
      <4>1. job[c].rpc # "EnumerateAll"
        BY <3>1 DEF Copies, Fields
      <4>2. f \in Needed(job[c].rpc)
        BY <2>1, <4>1 DEF Needed
      <4>3. HasChecked(c, f)
        BY <1>1, <4>2 DEF HasChecked
      <4> QED BY <2>4, <3>1, <4>3 DEF ReadIsCurrent
    <3>2. CASE Copies(job[c].rpc) # {}
      <4>1. f \in Copies(job[c].rpc) /\ job[c].rpc \in {"Plan", "EnumerateAll"}
        <5>1. job[c].rpc \in {"Plan", "EnumerateAll"}
          BY <3>2 DEF Copies
        <5> HIDE DEF f
        <5>2. CASE job[c].rpc = "Plan"
          BY <2>1, <5>2 DEF Copies
        <5>3. CASE job[c].rpc = "EnumerateAll"
          BY <2>1, <2>6, <5>3 DEF Copies
        <5> QED BY <5>1, <5>2, <5>3
      <4>2. HasCopied(c, f)
        BY <1>1, <4>1 DEF HasCopied
      <4>3. job[c].rpc = "Plan" => f \in Needed(job[c].rpc)
        BY <2>1 DEF Needed
      <4> QED BY <2>4, <3>2, <4>1, <4>2, <4>3 DEF ReadIsCurrent
    <3> QED BY <3>1, <3>2
  <2> HIDE DEF driver, f
  <2>8. \/ /\ driver = Nil /\ before[c] = {}
           /\ pc'[c] = "returned" /\ answer'[c] = "uninitialized"
           /\ UNCHANGED <<refs, using, report>>
        \/ /\ driver # Nil /\ using'[c] = driver /\ pc'[c] = "calling"
           /\ UNCHANGED <<refs, report, answer>>
    BY <1>0, <2>2, <2>7 DEF TypeOK, PickDriver, Return
  <2>11. driver # Nil => \E j \in Calls, g \in Fields : driver = j /\ HasSet(j, g)'
    <3> SUFFICES ASSUME driver # Nil
                 PROVE  \E j \in Calls, g \in Fields : driver = j /\ HasSet(j, g)'
      OBVIOUS
    <3>1. field[f] \in Calls \cup {Nil} /\ copy[c][f] \in Calls \cup {Nil}
      BY <1>0, <2>1 DEF TypeOK
    <3>2. (field[f] # Nil => HasSet(field[f], f)) /\ (copy[c][f] # Nil => HasSet(copy[c][f], f))
      BY <2>1, <2>4 DEF IInv, FieldsAreSetInOrder, ReadIsCurrent
    <3>3. driver \in Calls /\ HasSet(driver, f)
      BY <3>1, <3>2 DEF driver
    <3>4. PICK j \in Calls, g \in Fields : driver = j /\ HasSet(j, g)
      BY <2>1, <3>3
    <3>5. StepOf(c, g)
      BY DEF StepOf
    <3> QED BY <3>4, <3>5, StoresStay
  <2>9. InPhase(c)'
    BY <1>0, <1>1, <2>3, <2>8 DEF CallOK, InPhase, Initialized
  <2>10. WorksWithCurrent(c)'
    BY <1>0, <2>3, <2>5, <2>8 DEF CallOK, WorksWithCurrent
  <2>12. pc'[c] = "calling" => using'[c] # Nil /\ \E g \in Fields : HasSet(using[c], g)'
    <3>1. ASSUME pc'[c] = "calling"
          PROVE  \E j \in Calls, g \in Fields : using'[c] = j /\ HasSet(j, g)'
      BY <2>8, <2>11, <3>1
    <3> QED BY <2>8, <3>1 DEF HasSet
  <2> QED BY <1>1, <2>3, <2>8, <2>9, <2>10, <2>12 DEF CallOK
<1> QED BY <1>2, <1>3

\* A call of a driver leaves its caller in order.
LEMMA CallDriverOK ==
  ASSUME IInv, NEW c \in Calls, CallDriver(c)
  PROVE  CallOK(c)'
<1>1. PICK ok \in BOOLEAN : Conclude(c, using[c], ok)
  BY DEF CallDriver
<1>2. using[c] \in Calls \cup {Nil} /\ using[c] \notin Superseded(c)
  BY DEF IInv, TypeOK, NoStaleClient, WorksWithCurrent
<1> QED BY <1>1, <1>2, ConcludeOK

-----------------------------------------------------------------------------
(* The theorems                                                            *)

\* The invariant holds at the start.
LEMMA InitOK ==
  ASSUME Init
  PROVE  IInv
<1>1. TypeOK
  BY DEF Init, TypeOK, Phases, Answers
<1>2. \A c \in Calls : pc[c] = "idle" /\ before[c] = {} /\ \A f \in Fields : copy[c][f] = Nil
  BY DEF Init
<1>3. Initialized = {} /\ \A c \in Calls, f \in Fields : ~HasSet(c, f)
  BY <1>2 DEF Initialized, HasSet
<1>4. FieldsAreSetInOrder
  BY <1>2, <1>3 DEF Init, FieldsAreSetInOrder
<1>5. ASSUME NEW c \in Calls
      PROVE  CallOK(c)
  <2>1. Superseded(c) = {}
    BY <1>2 DEF Superseded
  <2>2. using[c] = Nil /\ report[c] = <<>> /\ answer[c] = "none"
    BY DEF Init
  <2>3. InPhase(c)
    BY <1>2, <1>3, <2>2 DEF InPhase
  <2>4. \A f \in Fields : ReadIsCurrent(c, f)
    BY <1>2, <2>1 DEF ReadIsCurrent, HasChecked, HasCopied
  <2> QED BY <1>2, <2>1, <2>2, <2>3, <2>4 DEF CallOK, WorksWithCurrent
<1> QED BY <1>1, <1>4, <1>5, CallsOK

\* Every step keeps the invariant.
LEMMA NextOK ==
  ASSUME IInv, [Next]_vars
  PROVE  IInv'
<1>1. TypeOK'
  BY NextTyped
<1>2. CASE UNCHANGED vars
  <2>1. UNCHANGED <<field, pc, job, todo, copy, refs, using, report, answer, before>>
    BY <1>2 DEF vars
  <2>2. Initialized' = Initialized
    BY <2>1 DEF Initialized
  <2>3. \A j \in Calls, f \in Fields : HasSet(j, f)' <=> HasSet(j, f)
    BY <2>1, <2>2 DEF HasSet
  <2>4. \A c \in Calls : RanBeside(c)' <=> RanBeside(c)
    BY <2>1, <2>3 DEF RanBeside
  <2>5. FieldsAreSetInOrder'
    BY <2>1, <2>2 DEF IInv, FieldsAreSetInOrder, HasSet
  <2>6. CallsAreInPhase' /\ NoStaleClient' /\ RefusedOnlyBeforeInitialize'
    BY <2>1, <2>2 DEF IInv, CallsAreInPhase, InPhase, NoStaleClient, WorksWithCurrent,
       Superseded, RefusedOnlyBeforeInitialize
  <2>7. NoNilDriver'
    BY <2>1, <2>2, <2>4 DEF IInv, NoNilDriver, HasSet
  <2>8. ReadsAreCurrent'
    BY <2>1, <2>2 DEF IInv, ReadsAreCurrent, ReadIsCurrent, HasSet, HasChecked, HasCopied,
       Superseded
  <2> QED BY <1>1, <2>5, <2>6, <2>7, <2>8 DEF IInv
<1>3. CASE Next
  <2>1. PICK c \in Calls, f \in Fields : StepOf(c, f)
    BY <1>3, NextCases
  <2>2. FieldsAreSetInOrder'
    BY <2>1, FieldsKept
  <2>3. \A k \in Calls : k # c => CallOK(k)'
    BY <2>1, OthersAreOK
  <2>4. CallOK(c)'
    BY <2>1, InvokeOK, InitializeOK, EntryOK, CopyOK, ListOK, PickOK, CallDriverOK, PanicOK
       DEF StepOf
  <2> QED BY <1>1, <2>2, <2>3, <2>4, CallsOK
<1> QED BY <1>2, <1>3

\* The inductive invariant: once an Initialize has stored a field, the field
\* never again holds a client of those that had succeeded before it.
THEOREM Invariance == Spec => []IInv
<1>1. Init => IInv
  BY InitOK
<1>2. IInv /\ [Next]_vars => IInv'
  BY NextOK
<1> QED BY <1>1, <1>2, PTL DEF Spec

\* Every driver object belongs to an Initialize whose config was complete.
THEOREM TypeCorrect == Spec => []TypeOK
<1>1. IInv => TypeOK
  BY DEF IInv
<1> QED BY <1>1, Invariance, PTL

\* No RPC calls a driver that is not there, although it checks a field and reads
\* it again later (iacserver.go:135, 146, 160, 167).
THEOREM DriversAreThere == Spec => []NoNilDriver
<1>1. IInv => NoNilDriver
  BY DEF IInv
<1> QED BY <1>1, Invariance, PTL

\* After a second Initialize has answered, no RPC that begins works with the
\* client it replaced (iacserver.go:126).
THEOREM ClientsAreCurrent == Spec => []NoStaleClient
<1>1. IInv => NoStaleClient
  BY DEF IInv
<1> QED BY <1>1, Invariance, PTL

\* Nobody is told to initialize first after an Initialize has succeeded.
THEOREM RefusalsAreEarly == Spec => []RefusedOnlyBeforeInitialize
<1>1. IInv => RefusedOnlyBeforeInitialize
  BY DEF IInv
<1> QED BY <1>1, Invariance, PTL

\* Drivers of two configurations stay side by side only after Initialize calls
\* that ran side by side.
THEOREM MixesComeFromOverlap == Spec => []MixedOnlyByOverlap
<1>1. IInv => MixedOnlyByOverlap
  <2> SUFFICES ASSUME IInv, NEW f \in Fields, NEW g \in Fields, field[f] # field[g],
                      ~\E c \in Calls : pc[c] = "storing"
               PROVE  /\ Nil \notin {field[f], field[g]}
                      /\ Overlapped(field[f], field[g])
    BY DEF MixedOnlyByOverlap
  <2>1. TypeOK /\ FieldsAreSetInOrder
    BY DEF IInv
  <2>2. ASSUME NEW h \in Fields, NEW k \in Fields, field[h] # Nil
        PROVE  field[k] # Nil /\ field[k] \notin before[field[h]]
    <3>1. field[h] \in Calls /\ HasSet(field[h], h)
      BY <2>1, <2>2 DEF TypeOK, FieldsAreSetInOrder
    <3>2. HasSet(field[h], k)
      BY <3>1 DEF HasSet
    <3> QED BY <2>1, <3>1, <3>2 DEF FieldsAreSetInOrder
  <2>3. field[f] # Nil /\ field[g] # Nil
    BY <2>2
  <2> QED BY <2>2, <2>3 DEF Overlapped
<1> QED BY <1>1, Invariance, PTL

-----------------------------------------------------------------------------
(* What a call has reported, and what it has emptied                       *)

\* The report tells of the first resources of the job, in order.
TellsOfTheFirst(c) ==
  \A i \in DOMAIN report[c] :
    /\ i \in DOMAIN job[c].refs
    /\ report[c][i].name = job[c].refs[i].name
    /\ Route(report[c][i].type) = Route(job[c].refs[i].type)

\* The resources not yet reported are the rest of the job.
LeavesTheRest(c) ==
  /\ Len(job[c].refs) = Len(report[c]) + Len(refs[c])
  /\ \A i \in DOMAIN refs[c] : refs[c][i] = job[c].refs[Len(report[c]) + i]

IsDns(ref) == ref.type \in {Blank, "infra.dns"}

\* The calls that come to all of their resources, unless refused.
TellsAll(c) == job[c].rpc \in {"Destroy", "Status"} /\ answer[c] # "uninitialized"

CallAccounts(c) ==
  /\ pc[c] \in {"idle", "entered"} => report[c] = <<>> /\ emptied[c] = {}
  /\ pc[c] # "idle" /\ job[c].rpc # "EnumerateAll" => TellsOfTheFirst(c)
  /\ pc[c] \in {"checking", "copying", "working", "calling"} /\ job[c].rpc # "EnumerateAll"
       => LeavesTheRest(c)
  /\ pc[c] = "returned" /\ TellsAll(c) => Len(report[c]) = Len(job[c].refs)
  /\ pc[c] # "idle" /\ job[c].op = "delete" =>
       \A i \in DOMAIN report[c] : report[c][i].ok =>
         IsDns(report[c][i]) /\ report[c][i].name \in emptied[c] \cup declined[c]
  /\ \A n \in emptied[c] :
       /\ job[c].op = "delete"
       /\ \E i \in DOMAIN job[c].refs : job[c].refs[i].name = n /\ IsDns(job[c].refs[i])

\* The inductive invariant of the reports, next to IInv.
Accounts == \A c \in Calls : CallAccounts(c)

\* The types of DNS resources are the two that resourceDriver gives its DNS driver.
LEMMA DnsRoute ==
  ASSUME NEW r
  PROVE  Route(r.type) = "dns" <=> IsDns(r)
<1>1. Blank \notin {"infra.dns_delegation", "infra.domain_transfer"}
  BY BlankAssumption DEF ResourceTypes
<1> QED BY <1>1, ZenonT(30) DEF Route, IsDns

\* A zone is emptied, or not, by the call that is at it.
LEMMA EmptiedStays ==
  ASSUME TypeOK, NEW c \in Calls, NEW f \in Fields, StepOf(c, f), NEW k \in Calls, k # c
  PROVE  emptied'[k] = emptied[k] /\ declined'[k] = declined[k]
<1>1. CASE CallDriver(c)
  <2>1. \/ UNCHANGED emptied
        \/ emptied' = [emptied EXCEPT ![c] = emptied[c] \cup {Head(refs[c]).name}]
    BY <1>1 DEF CallDriver, Written
  <2>2. \/ UNCHANGED declined
        \/ declined' = [declined EXCEPT ![c] = declined[c] \cup {Head(refs[c]).name}]
    BY <1>1 DEF CallDriver, Declined
  <2> QED BY <2>1, <2>2 DEF TypeOK
<1>2. CASE ~CallDriver(c)
  BY <1>2 DEF StepOf, Invoke, Configure, Store, Stored, Enter, Check, Checked, Copy, Copied,
     Finish, List, Pick, Panic
<1> QED BY <1>1, <1>2

\* The outcome of the first resource left is told, the others stay left.
LEMMA ConcludeAccounts ==
  ASSUME IInv, NEW c \in Calls, CallAccounts(c),
         pc[c] \in {"working", "calling"}, refs[c] # <<>>, UNCHANGED job,
         NEW client, NEW ok \in BOOLEAN, Conclude(c, client, ok),
         job[c].op = "delete" /\ ok =>
           IsDns(Head(refs[c])) /\ Head(refs[c]).name \in emptied'[c] \cup declined'[c],
         emptied[c] \subseteq emptied'[c], declined[c] \subseteq declined'[c],
         \A n \in emptied'[c] :
           \/ n \in emptied[c]
           \/ job[c].op = "delete" /\ n = Head(refs[c]).name /\ IsDns(Head(refs[c])),
         client \in Calls \cup {Nil}
  PROVE  CallAccounts(c)'
<1> DEFINE head == Head(refs[c])
           last == Outcome(head, client, ok)
<1>0. TypeOK
  BY DEF IInv
<1>1. /\ job[c] \in Jobs /\ job[c].refs \in Seq(Refs) /\ <<job[c].rpc, job[c].op>> \in Asked
  BY <1>0, JobAssumption DEF TypeOK
<1>2. /\ report'[c] = Append(report[c], last) /\ refs'[c] = Tail(refs[c])
      /\ job'[c] = job[c]
  BY <1>0 DEF TypeOK, Conclude
<1>3. /\ head \in Refs /\ refs[c] \in Seq(Refs) /\ report[c] \in Seq(Outcomes)
      /\ head = refs[c][1] /\ 1 \in DOMAIN refs[c]
  BY <1>0 DEF TypeOK
<1>4. /\ last.name = head.name /\ last.ok = ok
      /\ Route(last.type) = Route(head.type)
      /\ IsDns(last) <=> IsDns(head)
  <2>1. /\ last.name = head.name /\ last.ok = ok
        /\ last.type = IF ok /\ head.type = Blank THEN "infra.dns" ELSE head.type
    BY DEF Outcome
  <2>2. IsDns(last) <=> IsDns(head)
    BY <2>1 DEF IsDns
  <2>3. Route("infra.dns") = Route(Blank)
    <3>1. Blank \notin {"infra.dns_delegation", "infra.domain_transfer"}
      BY BlankAssumption DEF ResourceTypes
    <3> QED BY <3>1, ZenonT(30) DEF Route
  <2> QED BY <2>1, <2>2, <2>3
<1>5. last \in Outcomes
  BY <1>3 DEF Outcome, Outcomes, Refs, ResourceTypes
<1> HIDE DEF last, head
<1>6. /\ DOMAIN report'[c] = 1..(Len(report[c]) + 1) /\ Len(report'[c]) = Len(report[c]) + 1
      /\ DOMAIN report[c] = 1..Len(report[c]) /\ Len(report[c]) \in Nat
      /\ report'[c][Len(report[c]) + 1] = last
      /\ \A i \in DOMAIN report[c] : report'[c][i] = report[c][i]
  BY <1>2, <1>3, <1>5
<1>7. /\ Len(refs'[c]) = Len(refs[c]) - 1 /\ DOMAIN refs'[c] = 1..(Len(refs[c]) - 1)
      /\ DOMAIN refs[c] = 1..Len(refs[c]) /\ Len(refs[c]) \in Nat /\ Len(refs[c]) > 0
      /\ \A i \in DOMAIN refs'[c] : refs'[c][i] = refs[c][i + 1]
  BY <1>2, <1>3
<1>8. DOMAIN job[c].refs = 1..Len(job[c].refs) /\ Len(job[c].refs) \in Nat
  BY <1>1
<1>9. ASSUME job[c].rpc # "EnumerateAll"
      PROVE  /\ LeavesTheRest(c) /\ Len(report[c]) + 1 \in DOMAIN job[c].refs
             /\ job[c].refs[Len(report[c]) + 1] = head
  <2>1. LeavesTheRest(c)
    BY <1>9 DEF CallAccounts
  <2>2. Len(job[c].refs) = Len(report[c]) + Len(refs[c])
    BY <2>1 DEF LeavesTheRest
  <2>3. Len(report[c]) \in Nat /\ Len(refs[c]) \in Nat /\ Len(refs[c]) > 0
    BY <1>6, <1>7
  <2>4. Len(report[c]) + 1 \in 1..Len(job[c].refs)
    <3>1. \A a, b, d \in Nat : a = b + d /\ d > 0 => b + 1 \in 1..a
      OBVIOUS
    <3> QED BY <1>8, <2>2, <2>3, <3>1
  <2>5. job[c].refs[Len(report[c]) + 1] = refs[c][1]
    BY <1>3, <2>1 DEF LeavesTheRest
  <2> QED BY <1>3, <1>8, <2>1, <2>4, <2>5
<1>10. job[c].rpc # "EnumerateAll" => TellsOfTheFirst(c)'
  <2> SUFFICES ASSUME job[c].rpc # "EnumerateAll", NEW i \in DOMAIN report'[c]
               PROVE  /\ i \in DOMAIN job[c].refs
                      /\ report'[c][i].name = job[c].refs[i].name
                      /\ Route(report'[c][i].type) = Route(job[c].refs[i].type)
    BY <1>2 DEF TellsOfTheFirst
  <2>1. CASE i = Len(report[c]) + 1
    BY <1>4, <1>6, <1>9, <2>1
  <2>2. CASE i # Len(report[c]) + 1
    <3>1. i \in DOMAIN report[c]
      BY <1>6, <2>2
    <3> QED BY <1>6, <3>1 DEF CallAccounts, TellsOfTheFirst
  <2> QED BY <2>1, <2>2
<1>11. job[c].rpc # "EnumerateAll" => LeavesTheRest(c)'
  <2> SUFFICES ASSUME job[c].rpc # "EnumerateAll"
               PROVE  /\ Len(job[c].refs) = Len(report'[c]) + Len(refs'[c])
                      /\ \A i \in DOMAIN refs'[c] : refs'[c][i] = job[c].refs[Len(report'[c]) + i]
    BY <1>2 DEF LeavesTheRest
  <2>1. Len(job[c].refs) = Len(report'[c]) + Len(refs'[c])
    <3>1. Len(job[c].refs) = Len(report[c]) + Len(refs[c])
      BY <1>9 DEF LeavesTheRest
    <3>2. Len(report[c]) \in Nat /\ Len(refs[c]) \in Nat
      BY <1>6, <1>7
    <3>3. Len(report'[c]) = Len(report[c]) + 1
      BY <1>6
    <3>4. Len(refs'[c]) = Len(refs[c]) - 1
      BY <1>7
    <3>5. \A a, b, d \in Nat : a = b + d => a = (b + 1) + (d - 1)
      OBVIOUS
    <3>6. Len(job[c].refs) = (Len(report[c]) + 1) + (Len(refs[c]) - 1)
      BY <1>8, <3>1, <3>2, <3>5
    <3> QED BY <3>3, <3>4, <3>6, Zenon
  <2>2. ASSUME NEW i \in DOMAIN refs'[c]
        PROVE  refs'[c][i] = job[c].refs[Len(report'[c]) + i]
    <3>1. i + 1 \in DOMAIN refs[c] /\ refs'[c][i] = refs[c][i + 1]
      BY <1>7
    <3>2. refs[c][i + 1] = job[c].refs[Len(report[c]) + (i + 1)]
      BY <1>9, <3>1 DEF LeavesTheRest
    <3>3. Len(report[c]) + (i + 1) = Len(report'[c]) + i
      <4>1. Len(report[c]) \in Nat /\ Len(report'[c]) = Len(report[c]) + 1
        BY <1>6
      <4>2. i \in Int
        BY <1>7
      <4> QED BY <4>1, <4>2
    <3> QED BY <3>1, <3>2, <3>3
  <2> QED BY <2>1, <2>2
<1>12. ASSUME job[c].op = "delete", NEW i \in DOMAIN report'[c], report'[c][i].ok
       PROVE  IsDns(report'[c][i]) /\ report'[c][i].name \in emptied'[c] \cup declined'[c]
  <2>1. CASE i = Len(report[c]) + 1
    BY <1>4, <1>6, <1>12, <2>1 DEF head
  <2>2. CASE i # Len(report[c]) + 1
    <3>1. i \in DOMAIN report[c]
      BY <1>6, <2>2
    <3> QED BY <1>6, <1>12, <3>1 DEF CallAccounts
  <2> QED BY <2>1, <2>2
<1>13. ASSUME NEW n \in emptied'[c]
       PROVE  /\ job[c].op = "delete"
              /\ \E i \in DOMAIN job[c].refs : job[c].refs[i].name = n /\ IsDns(job[c].refs[i])
  <2>1. CASE n \in emptied[c]
    BY <2>1 DEF CallAccounts
  <2>2. CASE n \notin emptied[c]
    <3>1. job[c].op = "delete" /\ n = head.name /\ IsDns(head)
      BY <1>13, <2>2 DEF head
    <3>2. job[c].rpc # "EnumerateAll"
      BY <1>1, <3>1 DEF Asked
    <3> QED BY <1>9, <3>1, <3>2
  <2> QED BY <2>1, <2>2
<1>14. \/ pc'[c] = "working"
       \/ pc'[c] = "returned" /\ ~GoesOn(job[c].rpc)
  BY <1>0 DEF TypeOK, Conclude, Return
<1>15. ~TellsAll(c)' \/ pc'[c] # "returned"
  BY <1>2, <1>14 DEF TellsAll, GoesOn
<1>16. pc'[c] \notin {"idle", "entered"}
  BY <1>14
<1> QED BY <1>2, <1>10, <1>11, <1>12, <1>13, <1>15, <1>16 DEF CallAccounts, IsDns

\* Where neither the report nor what is left nor the zones change.
LEMMA StillAccounts ==
  ASSUME NEW c \in Calls, CallAccounts(c), job'[c] = job[c], report'[c] = report[c],
         emptied'[c] = emptied[c], declined'[c] = declined[c],
         pc[c] # "idle", pc'[c] \notin {"idle", "entered"},
         pc'[c] \in {"checking", "copying", "working", "calling"}
           /\ job[c].rpc # "EnumerateAll" => LeavesTheRest(c)',
         pc'[c] = "returned" /\ TellsAll(c)' => Len(report[c]) = Len(job[c].refs)
  PROVE  CallAccounts(c)'
BY DEF CallAccounts, TellsOfTheFirst, IsDns

\* A call that does not move accounts for what it did.
LEMMA SameAccounts ==
  ASSUME NEW k \in Calls, CallAccounts(k),
         pc'[k] = pc[k], job'[k] = job[k], refs'[k] = refs[k],
         report'[k] = report[k], answer'[k] = answer[k], emptied'[k] = emptied[k],
         declined'[k] = declined[k]
  PROVE  CallAccounts(k)'
<1>1. TellsOfTheFirst(k)' <=> TellsOfTheFirst(k)
  BY DEF TellsOfTheFirst
<1>2. LeavesTheRest(k)' <=> LeavesTheRest(k)
  BY DEF LeavesTheRest
<1>3. TellsAll(k)' <=> TellsAll(k)
  BY DEF TellsAll
<1> QED BY <1>1, <1>2, <1>3 DEF CallAccounts, IsDns

\* A call that starts has told nothing and owes everything.
LEMMA InvokeAccounts ==
  ASSUME IInv, NEW c \in Calls, CallAccounts(c), NEW j \in Jobs, Invoke(c, j)
  PROVE  CallAccounts(c)'
<1>1. /\ pc[c] = "idle" /\ pc'[c] = "entered" /\ UNCHANGED <<report, emptied, declined>>
  BY DEF IInv, TypeOK, Invoke
<1>2. report'[c] = <<>> /\ emptied'[c] = {}
  BY <1>1 DEF CallAccounts
<1> QED BY <1>1, <1>2 DEF CallAccounts, TellsOfTheFirst

\* Initialize reports on no resource.
LEMMA InitializeAccounts ==
  ASSUME IInv, NEW c \in Calls, CallAccounts(c), NEW f \in Fields,
         Configure(c) \/ Store(c, f) \/ Stored(c)
  PROVE  CallAccounts(c)'
<1>0. TypeOK
  BY DEF IInv
<1>1. UNCHANGED <<job, report, emptied, declined>>
  BY DEF Configure, Store, Stored
<1>2. /\ pc[c] # "idle" /\ pc'[c] \in {"storing", "returned"}
  BY <1>0 DEF TypeOK, Configure, Store, Stored, Return
<1>3. job[c].rpc = "Initialize"
  BY DEF IInv, CallsAreInPhase, InPhase, Configure, Store, Stored
<1>4. ~TellsAll(c)'
  BY <1>1, <1>3 DEF TellsAll
<1> QED BY <1>1, <1>2, <1>4, StillAccounts

\* Up to its work a call reports nothing.
LEMMA EntryAccounts ==
  ASSUME IInv, NEW c \in Calls, CallAccounts(c), NEW f \in Fields,
         Enter(c) \/ Check(c, f) \/ Checked(c) \/ Copy(c, f) \/ Copied(c) \/ Finish(c)
  PROVE  CallAccounts(c)'
<1>0. TypeOK
  BY DEF IInv
<1>1. UNCHANGED <<job, report, emptied, declined>>
  BY DEF Enter, Check, Checked, Copy, Copied, Finish
<1>2. CASE Enter(c)
  <2>1. pc[c] = "entered" /\ report[c] = <<>>
    BY <1>2 DEF Enter, CallAccounts
  <2>2. CASE job[c].rpc = "Resource" /\ job[c].type = Blank
    <3>1. pc'[c] = "returned" /\ ~TellsAll(c)'
      BY <1>0, <1>1, <1>2, <2>2 DEF TypeOK, Enter, Return, TellsAll
    <3> QED BY <1>1, <2>1, <3>1, StillAccounts
  <2>3. CASE ~(job[c].rpc = "Resource" /\ job[c].type = Blank)
    <3>1. pc'[c] = "checking" /\ refs'[c] = job[c].refs
      BY <1>0, <1>2, <2>3 DEF TypeOK, Enter
    <3>2. job[c].refs \in Seq(Refs)
      BY <1>0, <2>1, JobFacts
    <3>3. Len(report[c]) = 0 /\ Len(job[c].refs) \in Nat
          /\ DOMAIN job[c].refs = 1..Len(job[c].refs)
      BY <2>1, <3>2
    <3>4. LeavesTheRest(c)'
      BY <1>1, <3>1, <3>3 DEF LeavesTheRest
    <3> QED BY <1>1, <2>1, <3>1, <3>4, StillAccounts
  <2> QED BY <2>2, <2>3
<1>3. CASE Check(c, f) \/ Checked(c) \/ Copy(c, f) \/ Copied(c) \/ Finish(c)
  <2>1. /\ pc[c] \in {"checking", "copying", "working"} /\ UNCHANGED refs
    BY <1>3 DEF Check, Checked, Copy, Copied, Finish
  <2>2. job[c].rpc # "EnumerateAll" => LeavesTheRest(c)'
    BY <1>1, <2>1 DEF CallAccounts, LeavesTheRest
  <2>3. pc'[c] \notin {"idle", "entered"}
    <3>1. CASE Check(c, f) \/ Finish(c)
      BY <1>0, <2>1, <3>1 DEF TypeOK, Check, Finish, Return
    <3>2. CASE Checked(c) \/ Copy(c, f) \/ Copied(c)
      BY <1>0, <2>1, <3>2 DEF TypeOK, Checked, Copy, Copied
    <3> QED BY <1>3, <3>1, <3>2
  <2>4. ASSUME pc'[c] = "returned", TellsAll(c)'
        PROVE  Len(report[c]) = Len(job[c].refs)
    <3>1. CASE Check(c, f)
      <4>1. answer'[c] = "uninitialized"
        BY <1>0, <2>1, <2>4, <3>1 DEF TypeOK, Check, Return
      <4> QED BY <2>4, <4>1 DEF TellsAll
    <3>2. CASE Finish(c)
      <4>1. refs[c] = <<>> /\ job[c].rpc # "EnumerateAll" /\ report[c] \in Seq(Outcomes)
        BY <1>0, <1>1, <2>4, <3>2 DEF TypeOK, Finish, TellsAll
      <4>2. LeavesTheRest(c)
        BY <2>1, <4>1 DEF CallAccounts
      <4>3. Len(refs[c]) = 0 /\ Len(report[c]) \in Nat
        BY <4>1
      <4> QED BY <4>2, <4>3 DEF LeavesTheRest
    <3>3. CASE Checked(c) \/ Copy(c, f) \/ Copied(c)
      BY <1>0, <2>1, <2>4, <3>3 DEF TypeOK, Checked, Copy, Copied
    <3> QED BY <1>3, <3>1, <3>2, <3>3
  <2> QED BY <1>1, <2>1, <2>2, <2>3, <2>4, StillAccounts
<1> QED BY <1>2, <1>3

\* EnumerateAll empties no zone, and its report owes nothing to the refs of its job.
LEMMA ListAccounts ==
  ASSUME IInv, NEW c \in Calls, CallAccounts(c), List(c)
  PROVE  CallAccounts(c)'
<1>0. TypeOK
  BY DEF IInv
<1>1. UNCHANGED <<job, emptied, declined>> /\ pc[c] = "listing"
  BY DEF List
<1>2. job[c].rpc = "EnumerateAll" /\ job[c].op # "delete"
  <2>1. job[c].rpc = "EnumerateAll" /\ job[c] \in Jobs
    BY <1>0, <1>1 DEF IInv, CallsAreInPhase, InPhase, TypeOK
  <2>2. <<job[c].rpc, job[c].op>> \in Asked
    BY <2>1, JobAssumption
  <2> QED BY <2>1, <2>2 DEF Asked
<1>3. pc'[c] \in {"returned", "working"}
  BY <1>0 DEF TypeOK, List, Return
<1>4. ~TellsAll(c)'
  BY <1>1, <1>2 DEF TellsAll
<1> QED BY <1>1, <1>2, <1>3, <1>4 DEF CallAccounts, IsDns

\* A call that panics reports nothing any more.
LEMMA PanicAccounts ==
  ASSUME IInv, NEW c \in Calls, CallAccounts(c), Panic(c)
  PROVE  CallAccounts(c)'
<1>1. pc[c] # "idle" /\ UNCHANGED <<job, report, emptied, declined>>
  BY DEF Panic
<1>2. pc'[c] = "panicked"
  BY DEF IInv, TypeOK, Panic
<1> QED BY <1>1, <1>2, StillAccounts

\* The work on a resource is what the report says of it.
LEMMA WorkAccounts ==
  ASSUME IInv, NEW c \in Calls, CallAccounts(c), Pick(c) \/ CallDriver(c)
  PROVE  CallAccounts(c)'
<1>0. TypeOK
  BY DEF IInv
<1>1. /\ pc[c] \in {"working", "calling"} /\ refs[c] # <<>> /\ UNCHANGED job
  BY DEF IInv, CallsAreInPhase, InPhase, Pick, CallDriver
<1>2. CASE Pick(c)
  <2>1. UNCHANGED <<emptied, declined>>
    BY <1>2 DEF Pick
  <2>2. CASE Conclude(c, Nil, FALSE)
    BY <1>1, <2>1, <2>2, ConcludeAccounts
  <2>3. CASE \E driver : PickDriver(c, driver)
    <3>1. PICK driver : PickDriver(c, driver)
      BY <2>3
    <3>2. UNCHANGED <<refs, report>>
      BY <3>1 DEF PickDriver
    <3>3. \/ pc'[c] = "returned" /\ job[c].rpc = "EnumerateAll"
          \/ pc'[c] = "calling"
      BY <1>0, <3>1 DEF TypeOK, PickDriver, Return
    <3>4. job[c].rpc # "EnumerateAll" => LeavesTheRest(c)'
      BY <1>1, <3>2 DEF CallAccounts, LeavesTheRest
    <3>5. pc'[c] = "returned" => ~TellsAll(c)'
      BY <1>1, <3>3 DEF TellsAll
    <3> QED BY <1>1, <2>1, <3>2, <3>3, <3>4, <3>5, StillAccounts
  <2> QED BY <1>2, <2>2, <2>3 DEF Pick
<1>3. CASE CallDriver(c)
  <2> DEFINE r == Head(refs[c])
  <2>0. using[c] \in Calls \cup {Nil}
    BY <1>0 DEF TypeOK
  <2>1. CASE Conclude(c, using[c], FALSE) /\ UNCHANGED <<zone, emptied, declined>>
    BY <1>1, <2>0, <2>1, ConcludeAccounts
  <2>2. CASE /\ CanDo(job[c].op, r, using[c]) /\ Written(c, r) /\ UNCHANGED declined
             /\ \E ok \in BOOLEAN : Conclude(c, using[c], ok)
    <3>1. PICK ok \in BOOLEAN : Conclude(c, using[c], ok)
      BY <2>2
    <3>2. job[c].op = "delete" => IsDns(r)
      BY <2>2, DnsRoute DEF CanDo
    <3>3. \/ job[c].op = "delete" /\ emptied' = [emptied EXCEPT ![c] = emptied[c] \cup {r.name}]
          \/ job[c].op # "delete" /\ UNCHANGED emptied
      BY <2>2, <3>2, DnsRoute DEF Written
    <3>4. \/ job[c].op = "delete" /\ emptied'[c] = emptied[c] \cup {r.name}
          \/ job[c].op # "delete" /\ emptied'[c] = emptied[c]
      BY <1>0, <3>3 DEF TypeOK
    <3>5. declined'[c] = declined[c]
      BY <2>2
    <3> QED BY <1>1, <2>0, <3>1, <3>2, <3>4, <3>5, ConcludeAccounts
  <2>3. CASE /\ Declined(c, r) /\ UNCHANGED <<zone, emptied>>
             /\ Conclude(c, using[c], TRUE)
    <3>1. IsDns(r)
      BY <2>3, DnsRoute DEF Declined
    <3>2. \/ job[c].op = "delete" /\ declined' = [declined EXCEPT ![c] = declined[c] \cup {r.name}]
          \/ job[c].op # "delete" /\ UNCHANGED declined
      BY <2>3 DEF Declined
    <3>3. \/ job[c].op = "delete" /\ declined'[c] = declined[c] \cup {r.name}
          \/ job[c].op # "delete" /\ declined'[c] = declined[c]
      BY <1>0, <3>2 DEF TypeOK
    <3>4. emptied'[c] = emptied[c]
      BY <2>3
    <3> QED BY <1>1, <2>0, <2>3, <3>1, <3>3, <3>4, ConcludeAccounts
  <2> QED BY <1>3, <2>1, <2>2, <2>3 DEF CallDriver
<1> QED BY <1>2, <1>3

\* The report of a call and the resources it still has to handle always add up to what
\* it was asked.
THEOREM AccountsKept == Spec => []Accounts
<1>1. ASSUME Init PROVE Accounts
  <2>1. ASSUME NEW c \in Calls
        PROVE  pc[c] = "idle" /\ report[c] = <<>> /\ emptied[c] = {}
    BY <1>1 DEF Init
  <2> QED BY <2>1 DEF Accounts, CallAccounts
<1>2. ASSUME IInv, Accounts, [Next]_vars PROVE Accounts'
  <2>1. CASE UNCHANGED vars
    <3>1. ASSUME NEW c \in Calls PROVE CallAccounts(c)'
      <4>1. UNCHANGED <<pc, job, refs, report, answer, emptied, declined>> /\ CallAccounts(c)
        BY <1>2, <2>1 DEF vars, Accounts
      <4> QED BY <4>1, SameAccounts
    <3> QED BY <3>1 DEF Accounts
  <2>2. CASE Next
    <3>1. PICK c \in Calls, f \in Fields : StepOf(c, f)
      BY <2>2, NextCases
    <3>2. TypeOK /\ CallAccounts(c)
      BY <1>2 DEF IInv, Accounts
    <3>3. ASSUME NEW k \in Calls, k # c PROVE CallAccounts(k)'
      <4>1. /\ pc'[k] = pc[k] /\ job'[k] = job[k] /\ refs'[k] = refs[k]
            /\ report'[k] = report[k] /\ answer'[k] = answer[k]
        BY <3>1, <3>2, <3>3, OthersStay
      <4>2. emptied'[k] = emptied[k] /\ declined'[k] = declined[k]
        BY <3>1, <3>2, <3>3, EmptiedStays
      <4>3. CallAccounts(k)
        BY <1>2 DEF Accounts
      <4> QED BY <4>1, <4>2, <4>3, SameAccounts
    <3>4. CallAccounts(c)'
      BY <1>2, <3>1, <3>2, InvokeAccounts, InitializeAccounts, EntryAccounts, ListAccounts,
         WorkAccounts, PanicAccounts DEF StepOf
    <3> QED BY <3>3, <3>4 DEF Accounts
  <2> QED BY <1>2, <2>1, <2>2
<1> QED BY <1>1, <1>2, Invariance, PTL DEF Spec

-----------------------------------------------------------------------------
(* The two lists of Destroy                                                *)

\* What a call of Destroy has put into its two lists is what it has reported.
CallLists(c) ==
  /\ pc[c] = "idle" \/ job[c].rpc # "Destroy" => destroyed[c] = <<>>
  /\ pc[c] = "idle" => errors[c] = <<>> /\ report[c] = <<>>
  /\ \A i \in DOMAIN destroyed[c] :
       \E k \in DOMAIN report[c] : report[c][k].ok /\ report[c][k].name = destroyed[c][i]
  /\ pc[c] # "idle" /\ job[c].rpc = "Destroy" => \A n \in Names :
       Times(n, destroyed[c]) + Times(n, errors[c]) = Times(n, NamesOf(report[c]))

Lists == \A c \in Calls : CallLists(c)

\* How often a name is in a list is a number.
LEMMA TimesIsNat ==
  ASSUME NEW n, NEW S, NEW list \in Seq(S)
  PROVE  IsFiniteSet({i \in DOMAIN list : list[i] = n}) /\ Times(n, list) \in Nat
<1>1. {i \in DOMAIN list : list[i] = n} \subseteq 1..Len(list) /\ Len(list) \in Nat
  OBVIOUS
<1>2. IsFiniteSet(1..Len(list))
  BY <1>1, FS_Interval
<1>3. IsFiniteSet({i \in DOMAIN list : list[i] = n})
  BY <1>1, <1>2, FS_Subset
<1> QED BY <1>3, FS_CardinalityType DEF Times

\* A list that grows has the new name once more.
LEMMA TimesAppend ==
  ASSUME NEW n, NEW S, NEW list \in Seq(S), NEW x \in S
  PROVE  Times(n, Append(list, x)) = Times(n, list) + (IF x = n THEN 1 ELSE 0)
<1> DEFINE new == Append(list, x)
           at == {i \in DOMAIN list : list[i] = n}
           last == Len(list) + 1
<1>1. /\ DOMAIN list = 1..Len(list) /\ Len(list) \in Nat
      /\ DOMAIN new = 1..last /\ new[last] = x
      /\ \A i \in DOMAIN list : new[i] = list[i]
  OBVIOUS
<1>2. IsFiniteSet(at) /\ Cardinality(at) \in Nat
  BY TimesIsNat, FS_CardinalityType
<1>3. Times(n, list) \in Nat
  BY <1>2, Zenon DEF Times
<1> HIDE DEF new
<1>4. CASE x = n
  <2>1. {i \in DOMAIN new : new[i] = n} = at \cup {last}
    BY <1>1, <1>4
  <2>2. last \notin at
    BY <1>1
  <2>3. Cardinality(at \cup {last}) = Cardinality(at) + 1
    BY <1>2, <2>2, FS_AddElement
  <2>4. Times(n, new) = Times(n, list) + 1
    BY <2>1, <2>3, Zenon DEF Times
  <2> QED BY <1>4, <2>4 DEF new
<1>5. CASE x # n
  <2>1. {i \in DOMAIN new : new[i] = n} = at
    BY <1>1, <1>5
  <2>2. Times(n, new) = Times(n, list)
    BY <2>1, Zenon DEF Times
  <2> QED BY <1>3, <1>5, <2>2 DEF new
<1> QED BY <1>4, <1>5

\* The names of a report that grows.
LEMMA NamesAppend ==
  ASSUME NEW list \in Seq(Outcomes), NEW x \in Outcomes
  PROVE  /\ NamesOf(Append(list, x)) = Append(NamesOf(list), x.name)
         /\ NamesOf(list) \in Seq(Names) /\ x.name \in Names
<1>1. x.name \in Names /\ \A i \in DOMAIN list : list[i].name \in Names
  <2>1. \A o \in Outcomes : o.name \in Names
    BY DEF Outcomes
  <2> QED BY <2>1
<1>2. /\ NamesOf(list) = [i \in 1..Len(list) |-> list[i].name] /\ Len(list) \in Nat
      /\ DOMAIN list = 1..Len(list)
  BY DEF NamesOf
<1>3. NamesOf(list) \in Seq(Names) /\ Len(NamesOf(list)) = Len(list)
  BY <1>1, <1>2
<1>4. NamesOf(Append(list, x)) = [i \in 1..(Len(list) + 1) |-> Append(list, x)[i].name]
  BY DEF NamesOf
<1>5. Append(NamesOf(list), x.name) =
        [i \in 1..(Len(list) + 1) |-> IF i = Len(list) + 1 THEN x.name ELSE list[i].name]
  BY <1>1, <1>2, <1>3
<1>6. \A i \in 1..(Len(list) + 1) :
        Append(list, x)[i].name = IF i = Len(list) + 1 THEN x.name ELSE list[i].name
  BY <1>2
<1> QED BY <1>1, <1>3, <1>4, <1>5, <1>6

\* The lists of a call change only where its report does.
LEMMA ListsStay ==
  ASSUME TypeOK, NEW c \in Calls, NEW f \in Fields, StepOf(c, f), NEW k \in Calls, k # c
  PROVE  destroyed'[k] = destroyed[k] /\ errors'[k] = errors[k]
<1>1. ASSUME NEW name, NEW ok, Tell(c, name, ok)
      PROVE  destroyed'[k] = destroyed[k] /\ errors'[k] = errors[k]
  BY <1>1 DEF TypeOK, Tell, lists
<1>2. CASE CallDriver(c)
  BY <1>1, <1>2 DEF CallDriver, Conclude
<1>3. CASE Pick(c)
  <2>1. (\E name, ok : Tell(c, name, ok)) \/ UNCHANGED lists
    BY <1>3 DEF Pick, Conclude, PickDriver
  <2> QED BY <1>1, <2>1 DEF lists
<1>4. CASE ~CallDriver(c) /\ ~Pick(c)
  BY <1>4 DEF StepOf, Invoke, Configure, Store, Stored, Enter, Check, Checked, Copy, Copied,
     Finish, List, Panic, lists
<1> QED BY <1>2, <1>3, <1>4

\* The name of the resource concluded goes into the list of its outcome.
LEMMA ConcludeLists ==
  ASSUME TypeOK, NEW c \in Calls, CallLists(c), pc[c] # "idle", pc'[c] # "idle",
         refs[c] # <<>>, UNCHANGED job, NEW client \in Calls \cup {Nil}, NEW ok \in BOOLEAN,
         Conclude(c, client, ok)
  PROVE  CallLists(c)'
<1> DEFINE head == Head(refs[c])
           last == Outcome(head, client, ok)
           name == head.name
<1>1. head \in Refs
  BY DEF TypeOK
<1>2. last \in Outcomes /\ last.name = name /\ last.ok = ok
  BY <1>1 DEF Outcome, Outcomes, Refs, ResourceTypes
<1>3. /\ destroyed[c] \in Seq(Names) /\ errors[c] \in Seq(Names)
      /\ report[c] \in Seq(Outcomes) /\ name \in Names
  BY <1>1 DEF TypeOK, Refs
<1>4. report'[c] = Append(report[c], last)
  BY DEF TypeOK, Conclude
<1>5. Tell(c, name, ok)
  BY DEF Conclude
<1> HIDE DEF last, name, head
<1>6. /\ DOMAIN report'[c] = 1..(Len(report[c]) + 1) /\ Len(report[c]) \in Nat
      /\ DOMAIN report[c] = 1..Len(report[c])
      /\ report'[c][Len(report[c]) + 1] = last
      /\ \A i \in DOMAIN report[c] : report'[c][i] = report[c][i]
  BY <1>2, <1>3, <1>4
<1>7. ASSUME NEW x, \E k \in DOMAIN report[c] : report[c][k].ok /\ report[c][k].name = x
      PROVE  \E k \in DOMAIN report'[c] : report'[c][k].ok /\ report'[c][k].name = x
  <2>1. PICK k \in DOMAIN report[c] : report[c][k].ok /\ report[c][k].name = x
    BY <1>7
  <2>2. k \in DOMAIN report'[c] /\ report'[c][k] = report[c][k]
    BY <1>6
  <2> QED BY <2>1, <2>2
<1>8. CASE job[c].rpc # "Destroy"
  <2>1. destroyed'[c] = destroyed[c]
    BY <1>5, <1>8 DEF Tell, lists
  <2> QED BY <1>8, <2>1 DEF CallLists
<1>9. CASE job[c].rpc = "Destroy"
  <2>1. \/ ok /\ destroyed'[c] = Append(destroyed[c], name) /\ errors'[c] = errors[c]
        \/ ~ok /\ errors'[c] = Append(errors[c], name) /\ destroyed'[c] = destroyed[c]
    <3>1. CASE ok
      BY <1>5, <1>9, <3>1 DEF Tell, TypeOK
    <3>2. CASE ~ok
      BY <1>5, <1>9, <3>2 DEF Tell, TypeOK
    <3> QED BY <3>1, <3>2
  <2>2. ASSUME NEW n \in Names
        PROVE  Times(n, destroyed'[c]) + Times(n, errors'[c]) = Times(n, NamesOf(report'[c]))
    <3> DEFINE d == Times(n, destroyed[c])
               e == Times(n, errors[c])
               t == Times(n, NamesOf(report[c]))
               more == IF name = n THEN 1 ELSE 0
    <3>1. NamesOf(report[c]) \in Seq(Names) /\ NamesOf(report'[c]) = Append(NamesOf(report[c]), name)
      BY <1>2, <1>3, <1>4, NamesAppend
    <3>2. Times(n, NamesOf(report'[c])) = t + more
      BY <1>3, <3>1, TimesAppend
    <3>3. d \in Nat /\ e \in Nat /\ t \in Nat /\ more \in Nat
      BY <1>3, <3>1, TimesIsNat
    <3>4. d + e = t
      BY <1>9 DEF CallLists
    <3>5. \/ Times(n, destroyed'[c]) = d + more /\ Times(n, errors'[c]) = e
          \/ Times(n, destroyed'[c]) = d /\ Times(n, errors'[c]) = e + more
      <4>1. /\ Times(n, Append(destroyed[c], name)) = d + more
            /\ Times(n, Append(errors[c], name)) = e + more
        BY <1>3, TimesAppend
      <4> HIDE DEF more
      <4> QED BY <2>1, <4>1
    <3> HIDE DEF d, e, t, more
    <3>6. (d + more) + e = t + more /\ d + (e + more) = t + more
      BY <3>3, <3>4
    <3> QED BY <3>2, <3>5, <3>6
  <2>3. ASSUME NEW i \in DOMAIN destroyed'[c]
        PROVE  \E k \in DOMAIN report'[c] : report'[c][k].ok /\ report'[c][k].name = destroyed'[c][i]
    <3>1. CASE i \in DOMAIN destroyed[c] /\ destroyed'[c][i] = destroyed[c][i]
      BY <1>7, <3>1 DEF CallLists
    <3>2. CASE ok /\ destroyed'[c][i] = name
      <4>1. Len(report[c]) + 1 \in DOMAIN report'[c]
        BY <1>6
      <4> QED BY <1>2, <1>6, <3>2, <4>1
    <3> QED BY <1>3, <2>1, <3>1, <3>2
  <2> QED BY <1>9, <2>2, <2>3 DEF CallLists
<1> QED BY <1>8, <1>9

\* A step of a call keeps its lists in step with its report.
LEMMA StepLists ==
  ASSUME IInv, NEW c \in Calls, NEW f \in Fields, StepOf(c, f), CallLists(c)
  PROVE  CallLists(c)'
<1>0. TypeOK
  BY DEF IInv
<1>1. CASE \E j \in Jobs : Invoke(c, j)
  <2>1. pc[c] = "idle" /\ UNCHANGED <<destroyed, errors, report>>
    BY <1>1 DEF Invoke, lists
  <2>2. destroyed'[c] = <<>> /\ errors'[c] = <<>> /\ report'[c] = <<>>
    BY <2>1 DEF CallLists
  <2>3. NamesOf(report'[c]) = <<>>
    BY <2>2 DEF NamesOf
  <2>4. \A n : Times(n, <<>>) = 0
    <3>1. \A n : {i \in DOMAIN <<>> : <<>>[i] = n} = {}
      OBVIOUS
    <3> QED BY <3>1, FS_EmptySet DEF Times
  <2> QED BY <2>2, <2>3, <2>4 DEF CallLists
<1>2. CASE \/ Configure(c) \/ Store(c, f) \/ Stored(c)
           \/ Enter(c) \/ Check(c, f) \/ Checked(c) \/ Copy(c, f) \/ Copied(c) \/ Finish(c)
           \/ Panic(c)
  <2>1. pc[c] # "idle" /\ UNCHANGED <<destroyed, errors, report, job>>
    BY <1>2 DEF Configure, Store, Stored, Enter, Check, Checked, Copy, Copied, Finish, Panic,
       lists
  <2>2. pc'[c] # "idle"
    <3>1. CASE Configure(c) \/ Store(c, f) \/ Stored(c)
      BY <1>0, <3>1 DEF TypeOK, Configure, Store, Stored, Return
    <3>2. CASE ~(Configure(c) \/ Store(c, f) \/ Stored(c))
      BY <1>2, <3>2, OtherRpcs
    <3> QED BY <3>1, <3>2
  <2> QED BY <2>1, <2>2 DEF CallLists
<1>3. CASE List(c)
  <2>1. pc[c] # "idle" /\ pc'[c] # "idle" /\ UNCHANGED <<destroyed, errors, job>>
    BY <1>3, OtherRpcs DEF List, lists
  <2>2. job[c].rpc # "Destroy"
    BY <1>3 DEF IInv, CallsAreInPhase, InPhase, List
  <2> QED BY <2>1, <2>2 DEF CallLists
<1>4. CASE Pick(c) \/ CallDriver(c)
  <2>1. /\ pc[c] # "idle" /\ pc'[c] # "idle" /\ UNCHANGED job
    BY <1>4, OtherRpcs
  <2>2. refs[c] # <<>> /\ using[c] \in Calls \cup {Nil}
    BY <1>0, <1>4 DEF IInv, CallsAreInPhase, InPhase, TypeOK, Pick, CallDriver
  <2>3. CASE \E client \in Calls \cup {Nil}, ok \in BOOLEAN : Conclude(c, client, ok)
    BY <1>0, <2>1, <2>2, <2>3, ConcludeLists
  <2>4. CASE UNCHANGED <<report, lists>>
    BY <2>1, <2>4 DEF CallLists, lists
  <2> QED BY <1>4, <2>2, <2>3, <2>4 DEF Pick, PickDriver, CallDriver
<1> QED BY <1>1, <1>2, <1>3, <1>4 DEF StepOf

\* At every moment the two lists of a Destroy have between them each name as often as it
\* was reported on (iacserver.go:164-181).
THEOREM ListsKept == Spec => []Lists
<1>1. ASSUME Init PROVE Lists
  <2>1. ASSUME NEW c \in Calls
        PROVE  pc[c] = "idle" /\ report[c] = <<>> /\ destroyed[c] = <<>> /\ errors[c] = <<>>
    BY <1>1 DEF Init
  <2> QED BY <2>1 DEF Lists, CallLists
<1>2. ASSUME IInv, Lists, [Next]_vars PROVE Lists'
  <2>1. CASE UNCHANGED vars
    BY <1>2, <2>1 DEF vars, lists, Lists, CallLists
  <2>2. CASE Next
    <3>1. PICK c \in Calls, f \in Fields : StepOf(c, f)
      BY <2>2, NextCases
    <3>2. ASSUME NEW k \in Calls, k # c PROVE CallLists(k)'
      <4>1. TypeOK /\ CallLists(k)
        BY <1>2 DEF IInv, Lists
      <4>2. /\ pc'[k] = pc[k] /\ job'[k] = job[k] /\ report'[k] = report[k]
        BY <3>1, <3>2, <4>1, OthersStay
      <4>3. destroyed'[k] = destroyed[k] /\ errors'[k] = errors[k]
        BY <3>1, <3>2, <4>1, ListsStay
      <4> QED BY <4>1, <4>2, <4>3 DEF CallLists
    <3>3. CallLists(c)'
      BY <1>2, <3>1, StepLists DEF Lists
    <3> QED BY <3>2, <3>3 DEF Lists
  <2> QED BY <1>2, <2>1, <2>2
<1> QED BY <1>1, <1>2, Invariance, PTL DEF Spec

-----------------------------------------------------------------------------
\* Destroy and Delete call a resource destroyed only when they have asked the API to
\* empty its zone themselves, which it is then or the API declined without an error, and
\* empty no other zone (iacserver.go:168, dns.go:156).
THEOREM DestroyIsTrue == Spec => []DestroyedIsEmptied
<1>1. ASSUME IInv, Accounts, Lists PROVE DestroyedIsEmptied
  <2>1. \A c \in Calls : pc[c] = "idle" => report[c] = <<>> /\ emptied[c] = {}
    BY <1>1 DEF Accounts, CallAccounts
  <2> SUFFICES ASSUME NEW c \in Calls
               PROVE  /\ \A i \in DOMAIN destroyed[c] :
                           destroyed[c][i] \in emptied[c] \cup declined[c]
                      /\ job[c] # Nil /\ job[c].op = "delete" =>
                           \A i \in DOMAIN report[c] : report[c][i].ok =>
                             /\ IsDns(report[c][i])
                             /\ report[c][i].name \in emptied[c] \cup declined[c]
                      /\ \A n \in emptied[c] :
                           /\ job[c].op = "delete"
                           /\ \E i \in DOMAIN job[c].refs :
                                job[c].refs[i].name = n /\ IsDns(job[c].refs[i])
    BY DEF DestroyedIsEmptied, IsDns
  <2>2. CallAccounts(c) /\ CallLists(c)
    BY <1>1 DEF Accounts, Lists
  <2>3. CASE pc[c] = "idle"
    BY <2>1, <2>2, <2>3 DEF CallLists
  <2>4. CASE pc[c] # "idle"
    <3>1. job[c].op = "delete" =>
            \A i \in DOMAIN report[c] : report[c][i].ok =>
              IsDns(report[c][i]) /\ report[c][i].name \in emptied[c] \cup declined[c]
      BY <2>2, <2>4 DEF CallAccounts
    <3>2. job[c].rpc = "Destroy" => job[c].op = "delete"
      <4>1. <<job[c].rpc, job[c].op>> \in Asked
        BY <1>1, <2>4, JobAssumption DEF IInv, TypeOK
      <4> QED BY <4>1 DEF Asked
    <3>3. \A i \in DOMAIN destroyed[c] :
            \E k \in DOMAIN report[c] : report[c][k].ok /\ report[c][k].name = destroyed[c][i]
      BY <2>2 DEF CallLists
    <3>4. job[c].rpc # "Destroy" => destroyed[c] = <<>>
      BY <2>2 DEF CallLists
    <3>5. ASSUME NEW i \in DOMAIN destroyed[c]
          PROVE  destroyed[c][i] \in emptied[c] \cup declined[c]
      <4>1. job[c].rpc = "Destroy"
        BY <3>4
      <4> QED BY <3>1, <3>2, <3>3, <4>1
    <3> QED BY <2>2, <3>1, <3>5 DEF CallAccounts
  <2> QED BY <2>3, <2>4
<1> QED BY <1>1, Invariance, AccountsKept, ListsKept, PTL

\* The two lists of Destroy have every name as often as it was given, and Status tells of
\* every resource, in order, whatever became of the ones before it (iacserver.go:166, 191).
THEOREM EveryoneIsTold == Spec => []EveryRefIsReported
<1>1. ASSUME IInv, Accounts, Lists PROVE EveryRefIsReported
  <2> SUFFICES ASSUME NEW c \in Calls, pc[c] = "returned", answer[c] # "uninitialized"
               PROVE  /\ job[c].rpc = "Destroy" => \A n \in Names :
                           Times(n, destroyed[c]) + Times(n, errors[c]) =
                             Times(n, NamesOf(job[c].refs))
                      /\ job[c].rpc = "Status" =>
                           /\ Len(report[c]) = Len(job[c].refs)
                           /\ \A i \in DOMAIN report[c] :
                                /\ report[c][i].name = job[c].refs[i].name
                                /\ Route(report[c][i].type) = Route(job[c].refs[i].type)
    BY DEF EveryRefIsReported
  <2>1. CallAccounts(c) /\ CallLists(c)
    BY <1>1 DEF Accounts, Lists
  <2>2. ASSUME job[c].rpc \in {"Destroy", "Status"}
        PROVE  TellsOfTheFirst(c) /\ Len(report[c]) = Len(job[c].refs)
    BY <2>1, <2>2 DEF CallAccounts, TellsAll
  <2>3. ASSUME job[c].rpc = "Destroy"
        PROVE  NamesOf(report[c]) = NamesOf(job[c].refs)
    <3>1. report[c] \in Seq(Outcomes) /\ job[c].refs \in Seq(Refs)
      BY <1>1, JobFacts DEF IInv, TypeOK
    <3>2. DOMAIN report[c] = DOMAIN job[c].refs
      BY <2>2, <2>3, <3>1
    <3> QED BY <2>2, <2>3, <3>2 DEF NamesOf, TellsOfTheFirst
  <2>4. job[c].rpc = "Destroy" => \A n \in Names :
          Times(n, destroyed[c]) + Times(n, errors[c]) = Times(n, NamesOf(report[c]))
    BY <2>1 DEF CallLists
  <2> QED BY <2>2, <2>3, <2>4 DEF TellsOfTheFirst
<1> QED BY <1>1, Invariance, AccountsKept, ListsKept, PTL
=============================================================================

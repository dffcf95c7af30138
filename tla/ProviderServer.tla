--------------------------- MODULE ProviderServer ---------------------------
(***************************************************************************)
(* The provider server (internal/iacserver.go,                             *)
(* internal/resourcedriver_server.go): one object, shared without a lock   *)
(* by every RPC.  Initialize makes a client and four objects bound to it   *)
(* and assigns them to the server's fields; every other RPC checks the     *)
(* fields, reads them again (Plan and EnumerateAll copy them first) and    *)
(* works through its resources with the driver of their type.              *)
(*                                                                         *)
(* The fields are plain pointers.  Nothing orders the four stores of       *)
(* Initialize for an RPC that runs at the same time, and the plugin is     *)
(* built for arm64 too, where they may become visible in any order: here   *)
(* they do.  A single field never goes back to an older value.  Nor does   *)
(* anything order the store of a pointer after the stores that made what   *)
(* it points to: an RPC which runs beside the Initialize may be handed a   *)
(* driver whose client it does not see, and its handler panics.            *)
(*                                                                         *)
(* A client is named after the Initialize call that made it.  What a       *)
(* driver does with a resource is in the modules of the drivers; here it   *)
(* succeeds, fails, or (a write) is performed and its answer lost, or is   *)
(* answered without an error although it was not performed.                *)
(***************************************************************************)
EXTENDS Integers, Sequences, FiniteSets

CONSTANTS
  Calls,       \* the RPCs
  Jobs,        \* what an RPC may be asked
  Names,       \* names of resources: the domain each is about
  Blank,       \* an empty config value, one of the wrong type, an empty type
  Malformed,   \* a config that is not JSON
  Addresses,   \* IP addresses; a CIDR range is none
  Owner(_),    \* the account that owns a domain
  Listing(_),  \* the names of an account's domains, as the API lists them
  Nil          \* no driver, no client, no job

VARIABLES
  field,    \* the server's fields: the call whose client they use, or Nil
  zone,     \* per domain: "records" or "empty"
  pc,       \* per call: where it is
  job,      \* per call: what it was asked
  todo,     \* per call: fields yet to be stored, checked or copied
  copy,     \* per call: its own copy of the fields (ncProvider)
  refs,     \* per call: the resources it has not come to yet
  using,    \* per call: the client of the driver it has picked for the first
  report,   \* per call: the outcome per resource, [name, type, client, ok]:
            \* what Status lists; for the others the history of their work
  destroyed,\* per call of Destroy: the names in its answer's two lists
  errors,
  answer,   \* per call: how it ended
  before,   \* history, per call: the Initialize calls that had succeeded when
            \* it was invoked
  emptied,  \* history, per call: the domains whose zone it has emptied
  declined  \* history, per call: the domains whose zone it has asked the API
            \* to empty, which answered without an error and did not

lists == <<destroyed, errors>>
vars == <<field, zone, pc, job, todo, copy, refs, using, report, lists, answer,
          before, emptied, declined>>

Drivers == {"dns", "delegation", "transfer"}
Fields == Drivers \cup {"domains"}

ResourceTypes == {"infra.dns", "infra.dns_delegation", "infra.domain_transfer"}

\* A job is [rpc, op, config, type, refs]; refs are [name, type].  The op is
\* what the RPC asks of the driver of each of its resources; an RPC of the
\* ResourceDriver service names one resource and routes it by its own type.
Ops == {"initialize", "write", "read", "delete", "diff"}
Rpcs == {"Initialize", "Plan", "Destroy", "Status", "Import", "EnumerateAll", "Resource"}

\* What each RPC asks of a driver.
Asked ==
  {<<"Initialize", "initialize">>, <<"Plan", "diff">>, <<"Destroy", "delete">>,
   <<"Status", "read">>, <<"Import", "read">>, <<"EnumerateAll", "read">>,
   <<"Resource", "write">>, <<"Resource", "read">>, <<"Resource", "delete">>,
   <<"Resource", "diff">>}

Refs == [name : Names, type : ResourceTypes \cup {Blank, "other"}]

ASSUME JobAssumption ==
  \A j \in Jobs :
    /\ DOMAIN j = {"rpc", "op", "config", "type", "refs"}
    /\ j.rpc \in Rpcs /\ j.op \in Ops /\ <<j.rpc, j.op>> \in Asked
    /\ j.refs \in Seq(Refs)
    /\ j.rpc = "Resource" => Len(j.refs) = 1 /\ j.refs[1].type = j.type
ASSUME BlankAssumption == Blank \notin ResourceTypes
ASSUME NilAssumption == Nil \notin Calls \cup Jobs
ASSUME ListingAssumption ==
  \A j \in Jobs :
    j.rpc = "Initialize" /\ j.config # Malformed =>
      Listing(<<j.config.user, j.config.sandbox>>) \in Seq(Names)

-----------------------------------------------------------------------------
(* Configuration and routing                                               *)

\* The config parses and Config.Validate accepts it.
ConfigValid(config) ==
  /\ config # Malformed
  /\ config.user # Blank /\ config.key # Blank
  /\ config.ip \in Addresses

\* The account a client works on: the sandbox is another service.
Account(client) == <<job[client].config.user, job[client].config.sandbox>>

\* Broken form: every type but transfers is DNS.
LooseRoute(type) == IF type = "infra.domain_transfer" THEN "transfer" ELSE "dns"

\* resourceDriver: the field that holds the driver of a type, or "none".
Route(type) ==
  CASE type \in {Blank, "infra.dns"} -> "dns"
    [] type = "infra.dns_delegation" -> "delegation"
    [] type = "infra.domain_transfer" -> "transfer"
    [] OTHER -> "none"

\* Broken form: one driver stands for all.
DnsIsSet(rpc) == IF rpc = "EnumerateAll" THEN {"domains"} ELSE {"dns"}

\* The fields an RPC finds set or else answers that Initialize must come first.
Needed(rpc) == IF rpc = "EnumerateAll" THEN {"domains"} ELSE Drivers

\* Plan and EnumerateAll hand a copy of the fields on, of which each uses these.
Copies(rpc) ==
  {f \in Fields : \/ rpc = "Plan" /\ f \in Drivers
                  \/ rpc = "EnumerateAll" /\ f \in {"delegation", "domains"}}

\* Broken form: the first failure ends a Destroy.
StatusGoesOn(rpc) == rpc = "Status"

\* RPCs that report the failure of a resource and go on to the next.
GoesOn(rpc) == rpc \in {"Destroy", "Status"}

Enumerable == {"infra.dns", "infra.dns_delegation"}

-----------------------------------------------------------------------------
Init ==
  /\ field = [f \in Fields |-> Nil]
  /\ zone = [n \in Names |-> "records"]
  /\ pc = [c \in Calls |-> "idle"]
  /\ job = [c \in Calls |-> Nil]
  /\ todo = [c \in Calls |-> {}]
  /\ copy = [c \in Calls |-> [f \in Fields |-> Nil]]
  /\ refs = [c \in Calls |-> <<>>]
  /\ using = [c \in Calls |-> Nil]
  /\ report = [c \in Calls |-> <<>>]
  /\ destroyed = [c \in Calls |-> <<>>]
  /\ errors = [c \in Calls |-> <<>>]
  /\ answer = [c \in Calls |-> "none"]
  /\ before = [c \in Calls |-> {}]
  /\ emptied = [c \in Calls |-> {}]
  /\ declined = [c \in Calls |-> {}]

Initialized ==
  {i \in Calls : pc[i] = "returned" /\ job[i].rpc = "Initialize" /\ answer[i] = "ok"}

Invoke(c, j) ==
  /\ pc[c] = "idle"
  /\ pc' = [pc EXCEPT ![c] = "entered"]
  /\ job' = [job EXCEPT ![c] = j]
  /\ before' = [before EXCEPT ![c] = Initialized]
  /\ UNCHANGED <<field, zone, todo, copy, refs, using, report, lists, answer, emptied,
                 declined>>

Return(c, a) ==
  /\ pc' = [pc EXCEPT ![c] = "returned"]
  /\ answer' = [answer EXCEPT ![c] = a]

\* Broken form: Initialize drops the old drivers before it sets the new ones.
ClearAndConfigure(c) ==
  /\ pc[c] = "entered" /\ job[c].rpc = "Initialize"
  /\ ConfigValid(job[c].config)
  /\ pc' = [pc EXCEPT ![c] = "storing"]
  /\ todo' = [todo EXCEPT ![c] = Fields]
  /\ field' = [f \in Fields |-> Nil]
  /\ UNCHANGED <<zone, job, copy, refs, using, report, lists, answer, before, emptied,
                 declined>>

\* Initialize parses and validates its config and makes the client.
Configure(c) ==
  /\ pc[c] = "entered" /\ job[c].rpc = "Initialize"
  /\ IF ConfigValid(job[c].config)
     THEN /\ pc' = [pc EXCEPT ![c] = "storing"]
          /\ todo' = [todo EXCEPT ![c] = Fields]
          /\ UNCHANGED answer
     ELSE Return(c, "invalid") /\ UNCHANGED todo
  /\ UNCHANGED <<field, zone, job, copy, refs, using, report, lists, before, emptied,
                 declined>>

\* Broken forms: a field that is set is kept; one of the fields is.
StoreOnce(c, f) ==
  /\ pc[c] = "storing" /\ f \in todo[c]
  /\ field' = [field EXCEPT ![f] = IF field[f] = Nil THEN c ELSE field[f]]
  /\ todo' = [todo EXCEPT ![c] = todo[c] \ {f}]
  /\ UNCHANGED <<zone, pc, job, copy, refs, using, report, lists, answer, before,
                 emptied, declined>>
StoreDelegationOnce(c, f) ==
  /\ pc[c] = "storing" /\ f \in todo[c]
  /\ field' = [field EXCEPT ![f] =
                 IF f = "delegation" /\ field[f] # Nil THEN field[f] ELSE c]
  /\ todo' = [todo EXCEPT ![c] = todo[c] \ {f}]
  /\ UNCHANGED <<zone, pc, job, copy, refs, using, report, lists, answer, before,
                 emptied, declined>>

\* One of the four stores of Initialize becomes visible.
Store(c, f) ==
  /\ pc[c] = "storing" /\ f \in todo[c]
  /\ field' = [field EXCEPT ![f] = c]
  /\ todo' = [todo EXCEPT ![c] = todo[c] \ {f}]
  /\ UNCHANGED <<zone, pc, job, copy, refs, using, report, lists, answer, before,
                 emptied, declined>>

\* Initialize answers; by then its stores are visible to whoever is called next.
Stored(c) ==
  /\ pc[c] = "storing" /\ todo[c] = {}
  /\ Return(c, "ok")
  /\ UNCHANGED <<field, zone, job, todo, copy, refs, using, report, lists, before,
                 emptied, declined>>

\* Any other RPC begins.  The ResourceDriver service insists on a type, Import
\* takes a missing one for infra.dns.
Enter(c) ==
  /\ pc[c] = "entered" /\ job[c].rpc # "Initialize"
  /\ IF job[c].rpc = "Resource" /\ job[c].type = Blank
     THEN Return(c, "invalid") /\ UNCHANGED <<todo, refs>>
     ELSE /\ pc' = [pc EXCEPT ![c] = "checking"]
          /\ todo' = [todo EXCEPT ![c] = Needed(job[c].rpc)]
          /\ refs' = [refs EXCEPT ![c] = job[c].refs]
          /\ UNCHANGED answer
  /\ UNCHANGED <<field, zone, job, copy, using, report, lists, before, emptied, declined>>

\* One of the nil checks.
Check(c, f) ==
  /\ pc[c] = "checking" /\ f \in todo[c]
  /\ IF field[f] = Nil
     THEN Return(c, "uninitialized") /\ UNCHANGED todo
     ELSE todo' = [todo EXCEPT ![c] = todo[c] \ {f}] /\ UNCHANGED <<pc, answer>>
  /\ UNCHANGED <<field, zone, job, copy, refs, using, report, lists, before, emptied,
                 declined>>

Checked(c) ==
  /\ pc[c] = "checking" /\ todo[c] = {}
  /\ IF Copies(job[c].rpc) # {}
     THEN /\ pc' = [pc EXCEPT ![c] = "copying"]
          /\ todo' = [todo EXCEPT ![c] = Copies(job[c].rpc)]
     ELSE pc' = [pc EXCEPT ![c] = "working"] /\ UNCHANGED todo
  /\ UNCHANGED <<field, zone, job, copy, refs, using, report, lists, answer, before,
                 emptied, declined>>

\* One of the fields is read into the ncProvider.
Copy(c, f) ==
  /\ pc[c] = "copying" /\ f \in todo[c]
  /\ copy' = [copy EXCEPT ![c][f] = field[f]]
  /\ todo' = [todo EXCEPT ![c] = todo[c] \ {f}]
  /\ UNCHANGED <<field, zone, pc, job, refs, using, report, lists, answer, before,
                 emptied, declined>>

Copied(c) ==
  /\ pc[c] = "copying" /\ todo[c] = {}
  /\ pc' = [pc EXCEPT ![c] = IF job[c].rpc = "EnumerateAll" THEN "listing" ELSE "working"]
  /\ UNCHANGED <<field, zone, job, todo, copy, refs, using, report, lists, answer,
                 before, emptied, declined>>

\* A resource of the listing.
Listed(client, type) ==
  [i \in DOMAIN Listing(Account(client)) |->
     [name |-> Listing(Account(client))[i], type |-> type]]

\* EnumerateAll lists the account's domains (module Enumerate has the pages);
\* delegations are then read one by one, zones are reported as listed.
List(c) ==
  LET client == copy[c]["domains"]
      found == Listed(client, job[c].type)
  IN  /\ pc[c] = "listing"
      /\ IF client = Nil
         THEN Return(c, "uninitialized") /\ UNCHANGED <<refs, report>>
         ELSE IF job[c].type \notin Enumerable
         THEN Return(c, "invalid") /\ UNCHANGED <<refs, report>>
         ELSE \/ Return(c, "error") /\ UNCHANGED <<refs, report>>
              \/ /\ job[c].type = "infra.dns"
                 /\ report' = [report EXCEPT ![c] = [i \in DOMAIN found |->
                      [name |-> found[i].name, type |-> "infra.dns",
                       client |-> client, ok |-> TRUE]]]
                 /\ Return(c, "ok") /\ UNCHANGED refs
              \/ /\ job[c].type = "infra.dns_delegation"
                 /\ refs' = [refs EXCEPT ![c] = found]
                 /\ pc' = [pc EXCEPT ![c] = "working"]
                 /\ UNCHANGED <<report, answer>>
      /\ UNCHANGED <<field, zone, job, todo, copy, using, lists, before, emptied,
                     declined>>

\* A driver's output tells its own type, a failure the one asked for.
Outcome(r, client, ok) ==
  [name |-> r.name, type |-> IF ok /\ r.type = Blank THEN "infra.dns" ELSE r.type,
   client |-> client, ok |-> ok]

\* Destroy's answer has one list of names for each of the two outcomes.
Tell(c, name, ok) ==
  IF job[c].rpc # "Destroy" THEN UNCHANGED lists
  ELSE IF ok
  THEN destroyed' = [destroyed EXCEPT ![c] = Append(destroyed[c], name)] /\ UNCHANGED errors
  ELSE errors' = [errors EXCEPT ![c] = Append(errors[c], name)] /\ UNCHANGED destroyed

\* The outcome of the first resource left: on to the next, or the RPC ends.
Conclude(c, client, ok) ==
  /\ Tell(c, Head(refs[c]).name, ok)
  /\ report' = [report EXCEPT ![c] = Append(report[c], Outcome(Head(refs[c]), client, ok))]
  /\ refs' = [refs EXCEPT ![c] = Tail(refs[c])]
  /\ using' = [using EXCEPT ![c] = Nil]
  /\ IF ok \/ GoesOn(job[c].rpc)
     THEN pc' = [pc EXCEPT ![c] = "working"] /\ UNCHANGED answer
     ELSE Return(c, "error")

\* Broken form: a copied driver is taken to be there.
PickUnchecked(c, driver) ==
  /\ using' = [using EXCEPT ![c] = driver]
  /\ pc' = [pc EXCEPT ![c] = "calling"]
  /\ UNCHANGED <<refs, report, lists, answer>>

\* EnumerateAll checks the driver it has copied, since only the domain list was
\* checked before; everybody else has done so.
PickDriver(c, driver) ==
  IF job[c].rpc = "EnumerateAll" /\ driver = Nil
  THEN Return(c, "uninitialized") /\ UNCHANGED <<refs, using, report, lists>>
  ELSE /\ using' = [using EXCEPT ![c] = driver]
       /\ pc' = [pc EXCEPT ![c] = "calling"]
       /\ UNCHANGED <<refs, report, lists, answer>>

\* The driver of the next resource's type is read from its field.
Pick(c) ==
  LET f == Route(Head(refs[c]).type)
  IN  /\ pc[c] = "working" /\ refs[c] # <<>>
      /\ IF f = "none"
         THEN Conclude(c, Nil, FALSE)
         ELSE PickDriver(c, IF Copies(job[c].rpc) # {} THEN copy[c][f] ELSE field[f])
      /\ UNCHANGED <<field, zone, job, todo, copy, before, emptied, declined>>

\* Whether a driver can do what it is asked: the resource is of its account,
\* and only DNS resources are deleted.  Diff asks nobody.
CanDo(op, r, client) ==
  \/ op = "diff"
  \/ /\ Owner(r.name) = Account(client)
     /\ op = "delete" => Route(r.type) = "dns"

\* What a DNS driver's write does to the zone.
Written(c, r) ==
  IF Route(r.type) = "dns" /\ job[c].op = "delete"
  THEN /\ zone' = [zone EXCEPT ![r.name] = "empty"]
       /\ emptied' = [emptied EXCEPT ![c] = emptied[c] \cup {r.name}]
  ELSE IF Route(r.type) = "dns" /\ job[c].op = "write"
  THEN zone' = [zone EXCEPT ![r.name] = "records"] /\ UNCHANGED emptied
  ELSE UNCHANGED <<zone, emptied>>

\* A DNS driver's write that the API answers without an error and does not
\* perform: the driver does not look at IsSuccess.
Declined(c, r) ==
  /\ Route(r.type) = "dns" /\ job[c].op \in {"write", "delete"}
  /\ declined' = IF job[c].op = "delete"
                 THEN [declined EXCEPT ![c] = declined[c] \cup {r.name}] ELSE declined

\* The driver is called: it succeeds, fails, its answer is lost, or what it was
\* asked was declined unseen.
CallDriver(c) ==
  LET r == Head(refs[c])
  IN  /\ pc[c] = "calling"
      /\ \/ /\ CanDo(job[c].op, r, using[c])
            /\ Written(c, r) /\ UNCHANGED declined
            /\ \E ok \in BOOLEAN : Conclude(c, using[c], ok)
         \/ /\ CanDo(job[c].op, r, using[c])
            /\ Declined(c, r) /\ UNCHANGED <<zone, emptied>>
            /\ Conclude(c, using[c], TRUE)
         \/ Conclude(c, using[c], FALSE) /\ UNCHANGED <<zone, emptied, declined>>
      /\ UNCHANGED <<field, job, todo, copy, before>>

\* An RPC that did not begin after the Initialize need not see what its client
\* is made of.
Unpublished(c, client) == client \notin before[c] \cup {Nil}

\* The API is asked by every driver, but for no Diff and for no Delete that only
\* refuses.
AsksApi(op, type) == op # "diff" /\ (op = "delete" => Route(type) = "dns")

\* The handler meets a driver, or a domain list, without its client.
Panic(c) ==
  /\ \/ /\ pc[c] = "calling" /\ AsksApi(job[c].op, Head(refs[c]).type)
        /\ Unpublished(c, using[c])
     \/ /\ pc[c] = "listing" /\ job[c].type \in Enumerable
        /\ Unpublished(c, copy[c]["domains"])
  /\ pc' = [pc EXCEPT ![c] = "panicked"]
  /\ UNCHANGED <<field, zone, job, todo, copy, refs, using, report, lists, answer,
                 before, emptied, declined>>

Finish(c) ==
  /\ pc[c] = "working" /\ refs[c] = <<>>
  /\ Return(c, "ok")
  /\ UNCHANGED <<field, zone, job, todo, copy, refs, using, report, lists, before,
                 emptied, declined>>

\* A panic in a handler ends the plugin's process.
Up == \A c \in Calls : pc[c] # "panicked"

Next ==
  Up /\ \E c \in Calls :
    \/ \E j \in Jobs : Invoke(c, j)
    \/ Configure(c) \/ Stored(c) \/ Enter(c) \/ Checked(c) \/ Copied(c)
    \/ \E f \in Fields : Store(c, f) \/ Check(c, f) \/ Copy(c, f)
    \/ List(c) \/ Pick(c) \/ CallDriver(c) \/ Panic(c) \/ Finish(c)

Spec == Init /\ [][Next]_vars

-----------------------------------------------------------------------------
(* Properties                                                              *)

Phases == {"idle", "entered", "storing", "checking", "copying", "listing",
           "working", "calling", "returned", "panicked"}
Outcomes == [name : Names, type : ResourceTypes \cup {Blank, "other"},
             client : Calls \cup {Nil}, ok : BOOLEAN]
Answers == {"none", "ok", "invalid", "uninitialized", "error"}

\* The type invariant: every field is Nil or belongs to an Initialize call whose
\* config has everything the API asks for.
TypeOK ==
  /\ field \in [Fields -> Calls \cup {Nil}]
  /\ zone \in [Names -> {"records", "empty"}]
  /\ pc \in [Calls -> Phases]
  /\ job \in [Calls -> Jobs \cup {Nil}]
  /\ \A c \in Calls : pc[c] # "idle" => job[c] \in Jobs
  /\ todo \in [Calls -> SUBSET Fields]
  /\ copy \in [Calls -> [Fields -> Calls \cup {Nil}]]
  /\ refs \in [Calls -> Seq(Refs)]
  /\ using \in [Calls -> Calls \cup {Nil}]
  /\ report \in [Calls -> Seq(Outcomes)]
  /\ destroyed \in [Calls -> Seq(Names)] /\ errors \in [Calls -> Seq(Names)]
  /\ answer \in [Calls -> Answers]
  /\ before \in [Calls -> SUBSET Calls]
  /\ emptied \in [Calls -> SUBSET Names] /\ declined \in [Calls -> SUBSET Names]
  /\ \A f \in Fields : field[f] # Nil =>
       LET config == job[field[f]].config
       IN  config # Malformed /\ Blank \notin {config.user, config.key}
             /\ config.ip \in Addresses

\* Initialize call j has set field f.
HasSet(j, f) ==
  \/ pc[j] = "storing" /\ f \notin todo[j]
  \/ j \in Initialized

\* An Initialize that had not answered when c began has set a field since.
RanBeside(c) == \E i \in Calls \ before[c], f \in Fields : HasSet(i, f)

\* No RPC ever calls a driver that is not there, however its checks and reads
\* interleave with the stores of Initialize: what was checked is read again
\* later, and EnumerateAll never checks the drivers it copies beforehand.  Only
\* an RPC that an Initialize ran beside can find a driver without its client and
\* take the process down; one that begins when all have answered cannot.
NoNilDriver ==
  \A c \in Calls :
    /\ pc[c] = "calling" => using[c] # Nil /\ \E f \in Fields : HasSet(using[c], f)
    /\ pc[c] = "panicked" => RanBeside(c)

\* Clients that were replaced before c began: a later Initialize, begun after
\* theirs had succeeded, had succeeded too.
Superseded(c) == UNION {before[j] : j \in before[c]}

\* After Initialize has answered, no RPC that begins works with the client of an
\* Initialize before it: new credentials take effect at once and in every
\* driver, also for a Destroy with many resources.
WorksWithCurrent(c) ==
  /\ using[c] \notin Superseded(c)
  /\ \A i \in DOMAIN report[c] : report[c][i].client \notin Superseded(c)

NoStaleClient == \A c \in Calls : WorksWithCurrent(c)

\* An RPC is told to initialize first only if no Initialize had succeeded when
\* it began; a second Initialize never takes the server away meanwhile.
RefusedOnlyBeforeInitialize ==
  \A c \in Calls : answer[c] = "uninitialized" => before[c] = {}

Overlapped(i, j) == i \notin before[j] /\ j \notin before[i]

\* At rest the fields belong to one client, unless Initialize calls ran side by
\* side: those may leave drivers of two configurations for good.
MixedOnlyByOverlap ==
  \A f, g \in Fields :
    /\ field[f] # field[g]
    /\ ~\E c \in Calls : pc[c] = "storing"
    => /\ Nil \notin {field[f], field[g]}
       /\ Overlapped(field[f], field[g])

-----------------------------------------------------------------------------
(* The inductive invariant behind the theorems of ProviderServerProofs     *)

\* What a call is, and holds, in each of its phases.
InPhase(c) ==
  /\ pc[c] = "idle" =>
       /\ using[c] = Nil /\ report[c] = <<>> /\ before[c] = {}
       /\ \A f \in Fields : copy[c][f] = Nil
  /\ pc[c] # "returned" => answer[c] = "none"
  /\ pc[c] = "storing" \/ c \in Initialized =>
       job[c].rpc = "Initialize" /\ ConfigValid(job[c].config)
  /\ pc[c] \in {"checking", "copying", "listing", "working", "calling"} =>
       job[c].rpc # "Initialize"
  /\ pc[c] = "listing" => job[c].rpc = "EnumerateAll"
  /\ pc[c] \in {"working", "calling"} /\ job[c].rpc = "EnumerateAll" =>
       \A i \in DOMAIN refs[c] : refs[c][i].type = "infra.dns_delegation"
  /\ pc[c] = "calling" => refs[c] # <<>>

CallsAreInPhase == \A c \in Calls : InPhase(c)

\* A field holds the client of a call that has set it, and once a call has set
\* it, never again one of those that had succeeded before that call.
FieldsAreSetInOrder ==
  /\ \A c \in Calls : before[c] \subseteq Initialized
  /\ \A f \in Fields : field[f] # Nil => HasSet(field[f], f)
  /\ \A j \in Calls, f \in Fields :
       HasSet(j, f) => field[f] # Nil /\ field[f] \notin before[j]

\* Call c has found field f set.
HasChecked(c, f) ==
  /\ \/ pc[c] = "checking" /\ f \notin todo[c]
     \/ pc[c] \in {"copying", "listing", "working", "calling"}
  /\ f \in Needed(job[c].rpc)

\* Call c has copied field f.
HasCopied(c, f) ==
  /\ \/ pc[c] = "copying" /\ f \notin todo[c]
     \/ pc[c] \in {"listing", "working", "calling"}
  /\ f \in Copies(job[c].rpc)

\* A field that was checked stays set, a copy is no older than the call, and a
\* copy is empty only where the field was not checked and the call began before
\* any Initialize had succeeded.
ReadIsCurrent(c, f) ==
  /\ HasChecked(c, f) => field[f] # Nil
  /\ copy[c][f] \notin Superseded(c)
  /\ copy[c][f] # Nil => HasSet(copy[c][f], f)
  /\ HasCopied(c, f) /\ copy[c][f] = Nil => f \notin Needed(job[c].rpc) /\ before[c] = {}

ReadsAreCurrent == \A c \in Calls, f \in Fields : ReadIsCurrent(c, f)

IInv ==
  /\ TypeOK /\ CallsAreInPhase /\ FieldsAreSetInOrder /\ ReadsAreCurrent
  /\ NoNilDriver /\ NoStaleClient /\ RefusedOnlyBeforeInitialize

-----------------------------------------------------------------------------
\* Destroy lists as destroyed, and Delete of the ResourceDriver service answers
\* so, only names of DNS resources whose zone this very call has asked the API to
\* empty, and the zone is empty then unless the API has declined without an
\* error; no zone is emptied but of the DNS resources the call was given.
DestroyedIsEmptied ==
  \A c \in Calls :
    /\ \A i \in DOMAIN destroyed[c] : destroyed[c][i] \in emptied[c] \cup declined[c]
    /\ job[c] # Nil /\ job[c].op = "delete" =>
         \A i \in DOMAIN report[c] : report[c][i].ok =>
           /\ report[c][i].type \in {Blank, "infra.dns"}
           /\ report[c][i].name \in emptied[c] \cup declined[c]
    /\ \A n \in emptied[c] :
         /\ job[c].op = "delete"
         /\ \E i \in DOMAIN job[c].refs :
              job[c].refs[i].name = n /\ job[c].refs[i].type \in {Blank, "infra.dns"}

\* How often a name is in a list.
Times(n, list) == Cardinality({i \in DOMAIN list : list[i] = n})

NamesOf(resources) == [i \in DOMAIN resources |-> resources[i].name]

\* Whatever happens to the others, no resource is forgotten: the two lists of
\* Destroy together have every name as often as it was given (which of two
\* resources of one name has failed they cannot tell), and Status answers one
\* entry per resource, in order and under the type it was routed by.
EveryRefIsReported ==
  \A c \in Calls : pc[c] = "returned" /\ answer[c] # "uninitialized" =>
    /\ job[c].rpc = "Destroy" => \A n \in Names :
         Times(n, destroyed[c]) + Times(n, errors[c]) = Times(n, NamesOf(job[c].refs))
    /\ job[c].rpc = "Status" =>
         /\ Len(report[c]) = Len(job[c].refs)
         /\ \A i \in DOMAIN report[c] :
              /\ report[c][i].name = job[c].refs[i].name
              /\ Route(report[c][i].type) = Route(job[c].refs[i].type)
=============================================================================

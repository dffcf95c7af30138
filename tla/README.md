# A TLA+ model of workflow-plugin-namecheap

The plugin lets the Workflow infrastructure engine (the *host*) manage DNS zones,
nameserver delegations and domain transfers at Namecheap. It is a gRPC server in
front of three resource drivers. This directory models the server and the drivers, the
calls that run through them and the life of the resources they manage, checks the
models with TLC on small instances, and proves their safety properties with TLAPS for
every instance.

All paths below are relative to the repository.

## The system

| Part | Code | State it keeps | Operations |
|---|---|---|---|
| DNS driver, `infra.dns` | `internal/drivers/dns.go` | none; the zone lives behind the Namecheap API | Create, Read, Update, Delete, Diff, HealthCheck, Scale |
| Delegation driver, `infra.dns_delegation` | `internal/drivers/delegation.go` | none; the registrar keeps the nameservers | the same; Delete refuses |
| Transfer driver, `infra.domain_transfer` | `internal/drivers/transfer.go` | none; the registrar keeps the orders | the same; Update is a Read, Delete refuses |
| Provider server | `internal/iacserver.go` | the three drivers, the domain list, the config | Initialize, Plan, Destroy, Status, Import, EnumerateAll |
| ResourceDriver service | `internal/resourcedriver_server.go` | none | routes each RPC to a driver |
| Marshalling | `internal/iacserver.go`, `internal/resourcedriver_server.go` | none | protobuf to Go values and back |
| Provider config, legacy driver | `internal/dns.go` | config | Validate |
| Entry point, manifest | `cmd/`, `plugin.json` | none | start-up |

How they interact. The host keeps, per resource, a *spec* (the user's config) and the
*output* saved after the last successful call. Plan hands both to the driver's Diff;
Diff answers "nothing", "update" or "replace" and makes no API call. Apply then calls
Create, Update, or Delete and Create. Each RPC is a goroutine of its own; the drivers
hold no locks and no state, so two RPCs meet only at the Namecheap API. The DNS API has
no operation on single records: `setHosts` replaces a whole zone. Create and Update
answer from memory, without reading the zone back.

### What is hard about it, and what must hold

* **A write replaces everything.** A spec with a missing or mistyped `records` must not
  empty the zone; an Update must never write another zone than its own, in any spelling.
* **Nobody reads back.** An answer made from memory must be what the zone holds, until
  somebody else writes it; a priority that does not fit a byte would break that.
* **Failure and success are blurred.** A reply may be lost, a request may land after its
  caller gave up, the API may answer without an error and without doing the work, and the
  SDK takes no context. A call must take effect at most once between its start and its
  answer, a call withdrawn before it sent anything must never take effect, success must
  mean that it did, and every call must be answered.
* **Diff works on saved data.** As long as the saved output is not older than the zone,
  a quiet Diff must mean that the zone is as desired, and the converse.
* **A replace is two calls.** If the host stops in between, the old zone is empty and the
  new one not written; the next plan must finish the work.
* **Transfers cost money.** No order for a domain nobody has confirmed, no more orders than
  creates whose answer was lost can explain, and the outcome of an order must reach the
  host and stay there.
* **Delegations are easy to lose.** A domain must never have fewer than two nameservers,
  an unconfirmed update must not pass for done, and Delete must not drop a delegation.
* **The server object is shared.** Initialize assigns the drivers one by one, without a
  lock, while other RPCs check them, copy them and read them again. No call may meet a
  driver that is not there, and a call that begins after Initialize has answered must not
  work with the credentials it replaced. What plain stores of pointers do not give (see
  *ProviderServer*) must at least stay with the calls that run beside an Initialize.
* **One RPC, many resources.** Destroy and Status go on after a failure; what they answer
  must be true of each resource. EnumerateAll pages through a list that changes meanwhile.
* **Values cross a wire.** What the driver wrote as an int comes back as a float64, and a
  slice of maps as a slice of anything; a reader that takes one of them only would see an
  empty zone.

`PROJECT.json` lists these hazards with the line at which each one bites.

## The modules

| Module | Models | Form |
|---|---|---|
| `DnsRecords` | the record algebra of `dns.go`: parsing a spec, the request, the two outputs, Diff | operators only |
| `DnsDriver` | the RPCs of the DNS driver as they run side by side, with the API, the network and other writers | state machine |
| `ZoneStore` | what the DNS driver promises: an atomic store of whole zones | abstract state machine |
| `DnsLifecycle` | plan and apply of one `infra.dns` resource | state machine over `DnsRecords` |
| `DnsDiff` | `diffRecords` over every pair of short record lists | input enumeration |
| `DnsWire` | what JSON does to a DNS output and to the config Import makes of it | operators over `DnsDiff` |
| `Delegation` | plan and apply of one `infra.dns_delegation` resource | state machine |
| `Transfer` | plan and apply of one `infra.domain_transfer` resource | state machine |
| `ProviderServer` | the server object under concurrent RPCs | state machine |
| `Enumerate` | the paging loop of EnumerateAll | state machine |
| `MC...` | the small instances TLC checks | definitions for the `.cfg` files |
| `DnsRecordsProofs` | lemmas about the record algebra, which the next three extend | proofs |
| `DnsDriverProofs`, `DnsLifecycleProofs`, `DnsDiffProofs` | theorems about the module they are named for, the last one about `DnsWire` too | proofs |
| `DelegationProofs`, `TransferProofs`, `ProviderServerProofs`, `EnumerateProofs` | theorems about the module they are named for | proofs |

`DnsDriver`, `DnsLifecycle` and `DnsDiff` extend `DnsRecords`, `DnsWire` extends
`DnsDiff`; `DnsDriver` instantiates
`ZoneStore` with a refinement mapping. Every module with operations of the code holds a
few definitions marked *Broken form*: what a plausible mistake would make of the
definition after them. They are not used by the model; putting one in the place of the
right definition makes TLC refute the property that `PROJECT.json` ("mutants") names
with it, which shows that the property depends on that code.

### DnsRecords

A record is `[type, name, data, ttl, mx]` everywhere: in a config, a request, the API and
an output. `Absent` is a missing key, an empty string, a value of the wrong Go type or a
nil pointer. Strings are abstracted to spellings with the folds the code applies
(`ToUpper`, `ToLower`, `EqualFold`) as parameters. `SpecValid`, `ParseRecordMap`,
`HostRecords`, `OutputFromRecords`, `OutputFromHosts`, `RecordsFromOutputs`, `RecordKey`,
`DiffRecords` and `Diff` follow the functions of `dns.go` one by one. `HostRecords` keeps
the conversion to a byte (`% 256`), so that the range check in `setHosts` matters.
`RecordKey` is a tuple where the code joins with slashes: types and host names hold no
slash, so the two are alike. `DefaultMXPref` is what GetHosts reports as the priority of a
record that has none: 10 in the repository's fixtures (`dns_test.go:169`).

### DnsDriver and ZoneStore

A call passes through the points at which another actor can step in: *entered*
(handler started), *parsed* (spec accepted, context not rechecked), *sent*, *applied* (the
API has done it, the reply is under way), *returned*. One action per step: `Invoke`,
`Enter` (first checks and parsing), `Send` (context recheck, range check, request),
`Perform`, `Reply`, `Fail`, `Release`. Around the calls: `Cancel`, `Decline` (an answer
without an error whose `IsSuccess` is false), `PerformLate` (an abandoned request lands
after all), `SaveInDashboard`. `effect` is a history variable: whether the write of a
call was performed and still stands. A health check that fails answers "unhealthy" rather
than an error; both count as `err` here. A ref with neither id nor name is left out: the
API client refuses the empty domain.

`ZoneStore` is the promise without the steps: a call is opened with an intent, takes
effect in one step at most once, and answers "ok" only after that; a refused or withdrawn
call never takes effect; the effect of a failed one may still come. Under the mapping, a
call is *withdrawn* when it is cancelled before it sent anything. `Send` ends with the last
look at the context; the SDK call itself is `Perform`, a step of its own. A caller who
withdraws between the two, or while the request is on its way, finds the call *sent*: it may
be performed all the same, in the code as here, and for `ZoneStore` it is still open.

### DnsLifecycle, Delegation, Transfer

One resource each: `spec`, `saved`, `plan` of the host, the truth at Namecheap, and the
actions `MakePlan` (Diff decides), `Apply`, `ApplyRefused`, `ApplyDelete` or `Replace`,
`Refresh` (Read), `Adopt` (Import, whose user goes on with the imported config), and what goes
wrong: `PlanLost` (API error, or the host stops), `AnswerLost` (the request is sent and given
up; it stays in `late` until `Land` carries it out, at once, after later requests or never),
`EditSpec`, `SaveInDashboard`. `fresh` records whether the saved output is younger than the
last change of the truth. A driver call is one step here; `DnsDriver` has its interleavings.
The host is not in this repository: that it creates what has no state, calls Diff for the
rest, and does Delete and Create for a replace is taken from the comments in `dns.go` (lines
6-13, 121-126, 166-170).

In `DnsLifecycle` the API may also *decline*: it answers without an error (`IsSuccess` is
false) and leaves the zone as it was. The driver drops the response (`dns.go:156`,
`dns.go:353`), so `Apply` then saves an output the zone does not have and `ApplyDelete`
gives up the state of a zone that still has its records; `fresh` is `"declined"` from then
on. The properties and theorems all hold with declined writes; one that needs the saved
output to be true says so of `fresh` and does not assume it of the API.

In `Delegation` a nameserver list is a set, as `normalizeNameservers` makes it. The
registrar's reply to SetCustom may confirm the update or not, having done it, not having
done it, or doing it later (`late`, `Land`); the code reports all but the first as an error.
A Read may be answered without a list, which the code takes for an empty one
(`delegation.go:194`): the reply `"nothing"`, after which the output is not fresh. It is one
of the bounded troubles. Requests given up with the same content count as one, here and in
`DnsLifecycle`: what they do to a domain is the same.

In `Transfer` the orders are numbered, the number being the transfer id. The registrar may
decide an order at any time and may turn a transfer down, with or without keeping an order.
`CreateAnswerLost` covers the placed order whose answer is lost and the request that is
still under way when its caller gives up, since the client's request takes no context
(`transfer.go:298`): such a request is in `late` and may place its order at any later time
(`Land`), also when the host has created again. The status of an output is made from the
`Transfer` flag and its id from `TransferID`, each for itself. What the registrar answers is
external: an id with every order it takes and, to a status request, the id it was asked for.
`lost`, `unanswered` (creates that ended without an answer) and `wished` (the domains of the
specs the user has confirmed) are history variables.

### ProviderServer

Three concurrent RPCs of any kind share `field`, the server's three drivers and its domain
list. A driver or list is represented by the Initialize call whose client it uses, or
`Nil`. An Initialize that parses and validates (`Configure`, with `ConfigValid` for
`Config.Validate`) stores the four fields (`Store`) and answers (`Stored`). Every other RPC
passes `Enter` (the check of the type), `Check` (one nil check at a time), for Plan and
EnumerateAll `Copy` (one field at a time into an `ncProvider`), `List` for EnumerateAll,
and then, per resource, `Pick` (routing, and the field is read again) and `CallDriver`.
`Conclude` records the outcome and goes on or ends the RPC, as Destroy and Status do or
as the others do. Destroy's answer is two lists of names, `destroyed` and `errors` (`Tell`);
`report` has an entry per resource, which is what Status answers and, for the others, the
history of their work. What a driver does is reduced to what the properties tell: it succeeds,
fails, performs a write whose answer is lost, or is answered without an error although the
write was not performed (`Declined`), which the DNS driver reports as success.

The memory model. The stores of Initialize are plain, and nothing orders them for an RPC
that runs at the same time; the plugin is built for arm64 too (`plugin.json`). So the model
lets the four stores become visible in any order, and each nil check and each copy read a
value of its own. What it does assume is that one field does not go back to an older value
and that whoever is called after Initialize has answered sees its stores: the answer and
the next request pass through the gRPC runtime, which synchronises.

Nothing orders the store of a pointer after the stores that made what it points to, either:
`&DNSDriver{client: ...}` (`dns.go:53`) may be seen before its client is. So an RPC that did
not begin after the Initialize whose driver it has picked may find that driver without its
client (`Unpublished`), and its handler panics (`Panic`). No handler recovers, so the process
ends (`Up`). The same outcome stands for the domain list, and for a torn read of it: the
interface `s.domains` is two words, but only one type is ever stored in it, so a torn read is
an interface whose pointer is not there yet. Calls that ask no API (Diff, and the Deletes
that refuse) do not touch the client. `s.cfg` is written and never read and is left out.
`before` (which Initialize calls had succeeded when a call was made), `emptied` (which zones
it emptied) and `declined` (which it asked the API to empty in vain) are history variables.

### Enumerate

`GetList` takes a page as it is at that moment; for `infra.dns_delegation` each row is then
read by a call of its own, which fails if the domain has left the account meanwhile or if
the API says so. A reply without a list ends the loop with success on whatever page
(`GetListNothing`, `iacserver.go:477`); its answer `"cut"` is one the caller cannot tell from
`"ok"`. `Add`, `Drop` and `Switch` change the account between any two calls, and a
new domain may be listed anywhere. `steady`, `was`, `removals` and `insertions` are history
variables. Whose client the calls use is in `ProviderServer`.

### DnsWire

A Go value is `[kind, val]`. `Outputs` builds the map `dnsOutput` and
`dnsOutputFromRecords` build, in which each record has a numbered key (`Key`, a parameter).
`Json` is what a trip through the host does to it. Outputs and configs are maps of records,
of lists of records or of plain values, so the conversion is written one level at a time:
`Layer` is one level, `JsonPlain`, `JsonRecord`, `JsonRecords` and `Json` are the four that
occur. `RecordsRead` is `recordsFromOutputs`, and `ImportedConfig` and `SpecOf` are the config
Import makes and what `parseDNSSpec` takes of a config. The other modules speak of records
without Go types; `WireIsTransparent` and `OwnOutputIsQuiet` are the reason why they may.

## The runs

| Run | Asks | States |
|---|---|---|
| `DnsDriver_safety` | Do concurrent calls keep answers true and writes in their zone? | 318 000, with symmetry |
| `DnsDriver_store` | Does the driver implement `ZoneStore`, and is every call answered, if the API performs what it answers without an error? | 23 000 |
| `DnsDriver_unconfirmed` | Is success honest if the API may decline in its response? **No.** | violation |
| `DnsDiff` | Is `diffRecords` a correct comparison, and does the wire change its answer? | 67 000 |
| `DnsLifecycle_safety` | Does plan and apply do the right thing, and settle? | 26 100 |
| `DnsLifecycle_phantom` | Is Diff quiet on a zone that is as desired? **No.** | violation |
| `DnsLifecycle_stale` | Does Diff notice every change of the zone? **No.** | violation |
| `Delegation_safety` | Is a delegation kept, exact and at least two strong? | 18 900 |
| `Transfer_safety` | Are orders asked for, accounted for and followed to their outcome, also those that land late? | 108 000 |
| `Transfer_forgotten` | Does a change of domain lead to a replace? **No.** | violation |
| `ProviderServer_safety` | Does the server survive Initialize racing with every other RPC, and how far can Destroy and Status be trusted? | 795 000, with symmetry |
| `Enumerate_safety` | What can an enumeration miss or repeat while the account changes, and does it end? | 277 000 |

What the properties say (`IInv` of a run holds `TypeOK` of its module):

* `StandingOutputIsTruth`: the output of a successful Create or Update is what the zone
  holds, as long as no other write reached the zone. `MailFollowsRecords`: a zone with MX
  records routes mail by them, however the type was spelled.
  `WritesStayInZone`: as named.
  `EmptiedOnlyOnRequest`: a zone loses all its hosts only by a Delete of it, by a spec for it
  with an empty records list, or in the dashboard. `AnswerIsHonest`, `ImplementsStore`,
  `EveryCallReturns`: see above.
* `ChangesArePatch`: applying the changes to the current records gives the desired ones.
  `QuietIffSame`: no changes exactly when the two sets of records mean the same, where the
  priority of every record counts, as in the code (which is the first finding).
* `FreshQuietMeansMatch`: a quiet Diff on a fresh output, read or of a write that was
  performed, means that the zone is as desired. A record that a spec or a zone lists twice is
  the exception, see below. `MatchIsQuiet` is the converse, which the code does not have
  (below); `NoiseIsEmpty` is what it has instead: on such an output the changes listed for a
  zone that is as desired show no difference. `PlannedUpdateNamesItsZone`: Diff and Update
  agree on which domain change is a replace. `MovesReleaseTheOldZone`: the state gives up a
  zone only in the step that empties that very zone, or whose Delete the API declined.
  `ZoneSettles`: after the last trouble the zone gets to be as desired and stays so, although
  Diff may have it written again and again.
* Two entries with one key (equal type, name and data) are one record to `diffRecords`,
  which keeps the later in its map (`dns.go:532`), while `setHosts` sends both and a zone
  may hold both. Such a duplicate is invisible to Diff on either side. `Unambiguous` names
  the condition that there is none; `FreshQuietMeansMatch` and `NoiseIsEmpty` are claimed
  under it, and `ZoneSettles` lets an ambiguous zone be. The instance has a spec with a
  duplicate, so zones with one come about.
* `FreshIsDelegated`: what the host holds as up to date is what the registrar has, above
  all, an unconfirmed update is never reported as done. `AtLeastTwoServers`: as named.
  `FreshDiffIsExact`: on such an output Diff is quiet just when the domain is delegated
  as the spec says. `DelegationIsKept`: a delegation is neither dropped nor moved, and what is
  written to a domain, at once or late, is what a spec for it listed.
  `Converges`: since delegations are confirmed and compared exactly, plan and apply do come
  to rest.
* `OrdersAreAccounted`: an order is tracked or its answer was lost. `OrdersAreOwed`: every
  order and every request under way is for a domain the user has confirmed, and beside one
  order there are no more of them than creates without an answer. A second order after a lost
  answer is what the code does; a third does not come of it without a second lost answer.
  `OutcomesAreFinal`: orders and outcomes are for good, and the host does not lose an outcome
  it has seen. `OutcomeIsSeen`: the outcome of a tracked order reaches the host.
* `WireIsTransparent`: an output describes the same records in the process that made it
  and after a trip through the host. `OwnOutputIsQuiet`: an answer from memory compares
  equal with its own spec, and Import's config parses, describes the records that were
  read, and makes Diff ask for nothing. (The latter is about a zone as it was imported;
  after the first Update the output is made from memory and the first finding applies.)
* `NoNilDriver`: no RPC calls a driver that is not there, and only one that an Initialize ran
  beside can meet a driver without its client and panic. `NoStaleClient`: an RPC that
  begins after an Initialize has answered works with no client that call replaced, for any
  of its resources. `RefusedOnlyBeforeInitialize`: "initialize first" is only said to calls
  that began before any Initialize had succeeded. `MixedOnlyByOverlap`: at rest the fields
  belong to one client unless two Initialize calls ran side by side; those may leave drivers
  of two configurations for good, which is why the property does not say more.
  `DestroyedIsEmptied`: success of a delete is only reported for a DNS resource whose zone
  this very call has asked the API to empty; the zone is empty then unless the API declined
  without an error, and no other is emptied. `EveryRefIsReported`: the two lists of Destroy
  together have every name as often as it was asked for (which of two resources of one name
  failed they cannot tell), and Status answers one entry per resource, in order.
* `EachChangeDamagesOne`: a successful enumeration that no reply without a list has cut short
  misses at most as many domains as left
  the account meanwhile, so none if none did, and reports at most as many twice as were
  added. `ReportedWereHosted`: rows without a name and, for `infra.dns`, domains
  with foreign DNS never get in. `EnumerationEnds`: as named.

Bounds. Two calls are enough for every race between two writers of one zone, and a third
writer is always there: the dashboard, and one abandoned request (`MaxLate = 1`). Two
zones, one of them with two spellings, let a write miss its zone by name or by case. The
jobs hit every check of the driver: missing records, an entry that is no map, another
zone, a priority of 256 and the largest allowed one, a TTL to be raised, a lower-case MX
after another record. In the life cycles the number of troubles (edits, failures,
crashes) is bounded by `MaxTrouble` (3 or 4, so that an edit, a failure and a dashboard
change can meet in one behaviour), and transfer orders by `MaxOrders = 3`. `DnsDiff` takes
lists of up to three records from a pool of six that differ in one field each; a
comparison by key needs two records to go wrong. It stops when both lists are full, the
transfer model when every order is decided and trouble is used up, and the server and the
enumeration when every call has returned, so these runs do not check for deadlock; all
others do. `ProviderServer` has three calls: two Initialize calls and one that races with
both, or one and two others. Its jobs are one of each RPC, every way a config, a type or a
ref can be refused, and a Destroy of two resources with one name, which `EveryRefIsReported`
needs. `Enumerate` has pages of two rows and up to five rows: full, short and empty last
pages and three pages in all; two changes of the account can hit two pages, or hide and
repeat at once.

Fairness. `EveryCallReturns` assumes that a handler goes on and that the API or the
transport ends each wait: the SDK calls take no context, so nothing else does. The life
cycles assume that the host keeps refreshing, planning and applying (weak fairness);
`OutcomeIsSeen` needs strong fairness of Refresh, because a replace that never succeeds
is planned in between. `EnumerationEnds` assumes that every call the
loop makes is answered or fails. Nothing is assumed of edits, failures, the dashboard, the
registrar's decisions or abandoned requests.

## Findings

1. **Phantom updates** (`DnsLifecycle_phantom`). GetHosts reports a priority for every
   record, `dnsOutput` copies it (`dns.go:434`), and `diffRecords` compares it
   (`dns.go:549`). After a Read, an A record that is as declared counts as changed; the
   change shown in the plan is empty, since `recordToMap` hides the priority. The other
   way round, Import copies the priority into the adopted config (`iacserver.go:897`).
2. **Success without confirmation** (`DnsDriver_unconfirmed`). `setHosts` and Delete drop
   the response (`dns.go:156`, `dns.go:353`); `IsSuccess = false` passes for success,
   against the comment at `dns.go:84`. The delegation driver does check (`delegation.go:154`).
3. **Diff does not read** (`DnsLifecycle_stale`). `README.md:13-15` says it does.
4. **Transfers forget their domain** (`Transfer_forgotten`). The output of Read has no
   `domain` (`transfer.go:262`), and Diff takes that for "unchanged" (`transfer.go:115`),
   against `transfer_test.go:126`.

## What is proved

Every safety invariant and every action property that a passing run checks is also a theorem,
and so is the refinement of `ZoneStore`. Of each liveness property the safety it rests on is a
theorem too. A theorem holds for every value of the constants that satisfies their
assumptions: any number of calls, zones, records, domains, resources, orders and changes. TLC
evaluates each assumption on the instances it checks.

| Module | Theorems (and the property of the run they state) |
|---|---|
| `DnsDriverProofs` | `Invariance` (`IInv`), `TypeCorrect`, `MemoryAnswersTrue` (`StandingOutputIsTruth`), `WritesKeepToTheirZone` (`WritesStayInZone`), `EmptiesOnlyOnRequest` (`EmptiedOnlyOnRequest`), `MailWorks` (`MailFollowsRecords`), `NoCallTurnsBack`, and, if the API never declines in its answer, `HonestAnswers` (`AnswerIsHonest`) and `DriverIsStore` (`ImplementsStore`) |
| `DnsDiffProofs` | `Invariance`, `ChangesPatch` (`ChangesArePatch`), `QuietMeansSame` (`QuietIffSame`), `Transparent` (`WireIsTransparent`), `OwnOutputQuiet` (`OwnOutputIsQuiet`) |
| `DnsLifecycleProofs` | `Invariance`, `TypeCorrect` (`TypeOK`), `UpdatesNameTheirZone` (`PlannedUpdateNamesItsZone`), `MovesLeaveNothing` (`MovesReleaseTheOldZone`), `QuietIsTrue` (`FreshQuietMeansMatch`), `NoiseShowsNothing` (`NoiseIsEmpty`), `ReplacesLeaveTheirZone`, `ApplySettles` |
| `DelegationProofs` | `Invariance`, `TypeCorrect` (`TypeOK`), `TwoServersStay` (`AtLeastTwoServers`), `ReportedIsDelegated` (`FreshIsDelegated`), `DiffIsExact` (`FreshDiffIsExact`), `DelegationStays` (`DelegationIsKept`), `ApplyConverges` |
| `TransferProofs` | `Invariance` (`IInv`), `TypeCorrect`, `NoOrderIsForgotten` (`OrdersAreAccounted`), `StateIsOwnOrder`, `OrdersOwed` (`OrdersAreOwed`), `OutcomesStay` (`OutcomesAreFinal`) |
| `ProviderServerProofs` | `Invariance` (`IInv`), `TypeCorrect`, `DriversAreThere` (`NoNilDriver`), `ClientsAreCurrent` (`NoStaleClient`), `RefusalsAreEarly` (`RefusedOnlyBeforeInitialize`), `MixesComeFromOverlap` (`MixedOnlyByOverlap`), `AccountsKept`, `ListsKept`, `DestroyIsTrue` (`DestroyedIsEmptied`), `EveryoneIsTold` (`EveryRefIsReported`) |
| `EnumerateProofs` | `Invariance`, `TypeCorrect` (`TypeOK`), `OnlyHostedAreReported` (`ReportedWereHosted`), `CountsKept`, `DamageIsBounded` (`EachChangeDamagesOne`), `LoopIsBounded` |

### The DNS driver

`StandingOutputIsTruth` is not inductive: it speaks of returned calls only. `IInv` adds
what makes it so. `SentIsChecked`: a write under way or abandoned has passed every check of
the driver, in particular the range check of priorities. `StandingIsInZone`: a standing
write is in its zone, already before its call returns. `AnswerIsOwnOutput`: the answer of a
successful Create or Update is made from its own spec. Each step of the driver has a lemma
(`PerformStep`, `FailStep`, ...); the writes of others share `ForeignWrite`. The last step
from `IInv` to the theorem is `MemoryIsRequest` of `DnsRecordsProofs`: for priorities in
0..255, the output made from memory and the hosts in the request list the same records,
which is where the conversion to a byte is discharged (`ByteKeepsPriority`).

What a step may do follows from one lemma, `ZoneChange`: under `IInv`, a step that changes
a zone is the dashboard's or the performing of a write that passed every check, of the
whole content it asked for. `WritesKeepToTheirZone`, `EmptiesOnlyOnRequest` and `MailWorks`
use it. `HonestAnswers` needs one more invariant, `AppliedIsPerformed`: a call that is
answered without an error has been performed. It assumes `~MayDecline`; the run
`DnsDriver_unconfirmed` shows that the code does not have the property without it.

`DriverIsStore` shows the refinement step by step. Each step of the driver becomes a step
of `ZoneStore` or a stutter: `Invoke`, `Cancel` and `Release` in `SlotMaps`, the checks and
`Send` in `CheckMaps` (a refusal answers, an accepted request stays open), `Perform` in
`PerformMaps` (the effect), `Reply` and `Fail` in `ReplyMaps` and `FailMaps` (a failed
request that may still land becomes a stray effect), `PerformLate` in `LateMaps`. `Clean`
is what this needs beside `IInv`: slots are handed on clean, only returned calls have
failed, and the requests under way are finite in number, so that the store's bound on stray
effects is kept (`FewStrays`). It too assumes `~MayDecline`: a write that was declined but
answered with success has no counterpart in the store.

### Comparison, and the life of a DNS resource

`diffRecords` fills a map in order, so that under each key the last record counts. That a
last one exists in a list of any length is an induction over its length. `DnsDiff` builds
its lists by one record a step, so this is the induction over the steps of `Spec`, with
`HasLast` as the invariant; the theorems then speak of lists of any length.

What the wire does (`DnsWire`) is proved bottom up: the plain values of a record keep what
the readers take of them (`JsonOfPlain`), so a record that went through JSON has the fields
it had, numbers now `float64` (`RecordFields`, `RecordDescribed`); the numbered keys are
told apart from each other and from the other keys of an output (`KeyAssumption`,
`OutputFields`); and the loop over the numbers, a recursive function, finds the record under
each of them, by induction over the numbers (`NumberInduction`, `NumberedAll`). Together
this is `OutputIsTransparent`. For `OwnOutputIsQuiet` the config Import makes is followed in
the same way (`ImportedEntry`, `ImportedSpec`): it is accepted and its records are those
of the output, so Diff compares a list with itself (`SameIsQuiet`). That needs TTLs not below
the minimum, since `parseDNSSpec` would raise them; the API keeps to it.

In `DnsLifecycle` the properties speak of a fresh output. The invariant says what a fresh
output is (`FreshIsZone`): the hosts of its zone as they were sent by a write that was
performed, or as GetHosts reports them. Of the output of a declined write it says nothing,
and neither do the properties of fresh outputs. `ZonesAreCanonical` is needed with it: types in
upper case and a priority on every MX record, in every zone. Driver writes have both by
`setHosts`; for the dashboard it is `ContentsAssumption`.

### Delegations and transfers

`TwoServersStay` rests on `parseDelegationSpec` counting what `normalizeNameservers`
returns. `FreshIsDelegated` is inductive together with the types, since nameservers are
kept in their normal form on both sides; normalising twice is normalising once
(`NormalizedTwice`, from `HostAssumption`). `ServersAssumption` says that the registrar and
the dashboard list two normal names at least.

In `Transfer`, `OrdersAreAccounted` and `SavedIsOwnOrder` are inductive together with the
types. `OrdersAreOwed` counts: a create that is answered uses up the one place that `saved`
grants, and that a create is planned only while nothing is saved (part of `TypeOK`) is what
keeps it free; a create without an answer adds one to `unanswered` and at most one order or
late request. A late request becomes an order, or nothing, so the sum never grows by it.
`WishesAreKept` follows a wish from the spec into the plan. `OutcomesAreFinal` needs
`SavedIsOwnOrder`: what is refreshed is about the order that is tracked.

### The server

The properties speak of what a call has picked; the invariant behind them speaks of what
it could pick next. `FieldsAreSetInOrder`: once a call has set a field, that field never
again holds a client that had been made before the call began; with it, a field read at
any later time is current for everybody who began after that call. `ReadsAreCurrent`: what
a call has checked stays set, and its copies are no older than the call, an empty copy
being possible only for a field that was not checked, which is why the check in the middle
of EnumerateAll (`iacserver.go:490`) is needed. `CallsAreInPhase` says what a call holds in
each of its phases.

For what Destroy and Status report there is a second invariant, `Accounts`: the outcomes
told so far are those of the first resources of the request (`TellsOfTheFirst`), the
resources still to come are the rest of it (`LeavesTheRest`), and a deletion reported as
done has its zone in `emptied` or, if the API declined it, in `declined`. A third one, `Lists`
(theorem `ListsKept`), ties Destroy's two lists to these outcomes: together they have every
name as often, and what is listed as destroyed has succeeded. `TimesAppend` counts on when a
name is added. `JobAssumption` says which operation each RPC asks of a
driver (`Asked`), and that an RPC of the ResourceDriver service names one resource.

### Enumeration

`Invariance` keeps everything in hand among the rows the account has had that are to be
reported. `Counting` is the invariant behind the bound on damage. It draws a border between
the pages asked for and those to come. `Lost` are the domains that would have to be found
and are neither found nor beyond the border; `Again` are those found that stand beyond it
once more. Then `Cardinality(Lost) <= removals`, and the repetitions so far plus
`Cardinality(Again)` are at most `insertions`. A domain that is dropped moves at most one
row from beyond the border before it, one that is added moves at most one back; taking a
page moves the border and changes neither count. The proof needs that an account lists a
domain once (`AccountAssumption`), which the moves preserve. The loop over a page is a
recursive function; what it takes is shown by induction over the rows (`SetInduction`,
from the well-foundedness of `<` on `Nat`).

### What the liveness properties rest on

That something happens in the end is checked by TLC only, for a small instance. What is
proved for every instance is that each step goes in the right direction and none goes back,
so that only fairness is left to TLC.

* `NoCallTurnsBack` (for `EveryCallReturns`): a call under way never goes back, whatever the
  others do, and each step of its own takes it further, of which there are four at most.
* `ApplySettles` and `ApplyConverges` (for `ZoneSettles` and `Converges`): a Create or Update
  of the current spec (of a delegation: one that was confirmed) makes the truth match the
  spec, for a delegation with a quiet Diff, and no step of the host undoes a match. The
  dangerous step is the Delete of a replace; `ReplacesLeaveTheirZone` says that it never
  meets the zone the spec names.
* `OutcomesStay` (for `OutcomeIsSeen`; the run checks it too): an order and its outcome are
  for good, the host goes on tracking its order, and an outcome it has seen it does not lose.
* `LoopIsBounded` (for `EnumerationEnds`): EnumerateAll asks for a page more only after a
  full one, so the pages asked for fit into the rows there are and those that have left.
  Its invariant, `FullPages`, counts the page in hand too once it was seen to be full.

### The assumptions

* The markers are no data (`SentinelAssumption`, `NilAssumption`, `BlankAssumption`,
  `RecordAssumption`, `StateAssumption`); no record and no list of records is `Absent`.
* `KeyAssumption`: the numbered keys of an output differ from each other and from its other
  keys, as `record_0`, `record_1`, ... do.
* `SpellingAssumption`, `CleanAssumption`, `HostAssumption`: folding, trimming and
  normalising stay within the spellings, and doing it twice is doing it once (the names
  in an instance do not end in two dots, of which the code drops one at a time).
* `SpecAssumption`, `SpecsAssumption`, `JobAssumption`, `ListingAssumption`,
  `ListsAssumption`, `PoolAssumption`: inputs have the shape the parsers read.
* `ZoneAssumption`, `ContentsAssumption`, `ServersAssumption`, `MailAssumption`,
  `AccountAssumption`: what the account owner and the API do beside the driver. The API
  lists a domain once, record types in upper case and MX records with a priority; the owner
  routes the mail of a zone with MX records by them and keeps two nameservers.
* `PrefAssumption`: a reported priority is a byte or missing. The bounds are natural numbers.
* `~MayDecline`, a hypothesis of `HonestAnswers` and `DriverIsStore` only. The other models
  have no such switch: in `DnsLifecycle` and `ProviderServer` the API may always decline.
* The memory model of *ProviderServer*: one field does not go back to an older value, and who
  is called after Initialize has answered sees all its stores.

### Only model-checked

* Everything under fairness (`EveryCallReturns`, `ZoneSettles`, `Converges`,
  `OutcomeIsSeen`, `EnumerationEnds`), which is out of the prover's reach; the safety behind
  each of them is proved, see above.
* The properties the code does not have (*Findings*).

## What is not modelled, and why

* The values of names, addresses, TTLs and messages beyond what the properties tell
  apart; display strings; the order in which Diff lists its changes.
* The copies between protobuf messages and Go structs, field by field, which decide
  nothing. What JSON does to the values inside them is in `DnsWire`, for zones; the
  drivers of delegations and transfers read lists and numbers in both forms too
  (`delegation.go:176`, `transfer.go:200`).
* The legacy `Driver`, `DNSRecord` and `DNSSpec` in `internal/dns.go`, which only tests use.
  Entry point and manifest: static. RPCs with a constant answer (Name, Capabilities,
  ResolveSizing, FinalizeApply and the like).
* The rate limit of the API: a request over the limit is an API error, which every model
  has.

## What is left

A common abstract specification of what plan and apply promise of a resource, which
`DnsLifecycle`, `Delegation` and `Transfer` implement to different degrees. `HostLeadsToMatch`
of the first two says the same thing of each of them, and would be its core.

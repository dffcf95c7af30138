------------------------------ MODULE Enumerate ------------------------------
(***************************************************************************)
(* ncProvider.EnumerateAll (internal/iacserver.go): the loop that pages    *)
(* through the domains of the account while others buy, move and lose      *)
(* domains.  Each page is a snapshot of its own; a delegation is read with *)
(* one call per domain more, and one failed call fails the enumeration.    *)
(***************************************************************************)
EXTENDS Integers, FiniteSets, Sequences, SequencesExt

CONSTANTS
  Domains,    \* names of domains
  Blank,      \* the name of a row without one
  PageSize,   \* rows the API puts on a page (the code asks for 100)
  Lists,      \* what the account may look like at first
  MaxChanges  \* bound: changes of the account during an enumeration

ASSUME PageSizeAssumption == PageSize \in Nat \ {0}
ASSUME MaxChangesAssumption == MaxChanges \in Nat

\* A row: whose DNS the domain uses, Namecheap's, another's, or not said.
Rows == [name : Domains \cup {Blank}, ours : {"yes", "no", "unknown"}]

\* An account has a domain once.
ListedOnce(rows) ==
  \A i, j \in DOMAIN rows :
    rows[i].name = rows[j].name /\ rows[i].name # Blank => i = j

ASSUME ListsAssumption == Lists \subseteq Seq(Rows) /\ Blank \notin Domains
ASSUME AccountAssumption == \A rows \in Lists : ListedOnce(rows)

VARIABLES
  list,       \* the account's domains, in the order of the API
  type,       \* the resource type asked for
  pc,         \* "idle", "asking", "reading" or "returned"
  page,       \* number of the page asked for next
  unread,     \* rows of the current page whose delegation is not read yet
  last,       \* the current page was short
  out,        \* the domains found so far
  answer,     \* "none", "ok", "invalid" or "error"; "cut" is an ok as well, of
              \* an enumeration that a reply without a list has ended
  was,        \* history: every row the account has had since the start
  steady,     \* history: domains that have been in the account all the time
  removals,   \* history: how many domains have left the account
  insertions, \* history: how many have been added
  switches    \* history: how often one has changed its nameservers

loop == <<type, pc, page, unread, last, out, answer>>
account == <<list, was, steady, removals, insertions, switches>>
vars == <<loop, account>>

Names(rows) == {rows[i].name : i \in DOMAIN rows}

Init ==
  /\ list \in Lists
  /\ type = "none" /\ pc = "idle" /\ page = 1 /\ unread = <<>> /\ last = FALSE
  /\ out = <<>> /\ answer = "none"
  /\ was = Range(list) /\ steady = Names(list) \ {Blank}
  /\ removals = 0 /\ insertions = 0 /\ switches = 0

Return(a) == pc' = "returned" /\ answer' = a

Start(t) ==
  /\ pc = "idle"
  /\ type' = t
  /\ IF t \in {"infra.dns", "infra.dns_delegation"}
     THEN pc' = "asking" /\ UNCHANGED answer
     ELSE Return("invalid")
  /\ UNCHANGED <<page, unread, last, out, account>>

\* A page as the API has it; past the end it is empty.
Page(p) ==
  LET end == p * PageSize
  IN  SubSeq(list, end - PageSize + 1, IF end < Len(list) THEN end ELSE Len(list))

IsNamed(row) == row.name # Blank

\* Broken forms: domains with foreign DNS are listed for infra.dns too; so are
\* rows without a name.
AnyNamed(rows) == SelectSeq(rows, IsNamed)
NamelessToo(rows) ==
  LET IsHosted(row) == type = "infra.dns" => row.ours # "no"
  IN  SelectSeq(rows, IsHosted)

\* Rows that are reported: infra.dns leaves out domains with foreign DNS.
IsReported(row) == IsNamed(row) /\ (type = "infra.dns" => row.ours # "no")

\* What the loop over a page takes of its rows.
Reported(rows) ==
  LET taken[n \in 0..Len(rows)] ==
        IF n = 0 THEN <<>>
        ELSE IF IsReported(rows[n]) THEN Append(taken[n - 1], rows[n]) ELSE taken[n - 1]
  IN  taken[Len(rows)]

\* Broken form: a page counts as short by what was taken from it.
FewReported(rows) == Len(Reported(rows)) < PageSize

\* A page that is not full is the last.
IsLast(rows) == Len(rows) < PageSize

PageAfter(p) == p + 1

TurnPage(wasLast) ==
  IF wasLast
  THEN Return("ok") /\ UNCHANGED page
  ELSE pc' = "asking" /\ page' = PageAfter(page) /\ UNCHANGED answer

\* GetList answers with a page.
GetList ==
  LET rows == Page(page)
  IN  /\ pc = "asking"
      /\ IF rows = <<>>
         THEN Return("ok") /\ UNCHANGED <<page, unread, last, out>>
         ELSE IF type = "infra.dns"
         THEN /\ out' = out \o [i \in DOMAIN Reported(rows) |-> Reported(rows)[i].name]
              /\ TurnPage(IsLast(rows))
              /\ UNCHANGED <<unread, last>>
         ELSE /\ unread' = Reported(rows)
              /\ last' = IsLast(rows)
              /\ pc' = "reading"
              /\ UNCHANGED <<page, out, answer>>
      /\ UNCHANGED <<type, account>>

GetListFails ==
  /\ pc = "asking"
  /\ Return("error")
  /\ UNCHANGED <<type, page, unread, last, out, account>>

\* The API answers without an error and without a list: the loop takes that for
\* the end, on whatever page.
GetListNothing ==
  /\ pc = "asking"
  /\ Return("cut")
  /\ UNCHANGED <<type, page, unread, last, out, account>>

\* DelegationDriver.Read of the next domain: it has to be in the account still.
ReadDelegation ==
  /\ pc = "reading" /\ unread # <<>>
  /\ Head(unread).name \in Names(list)
  /\ out' = Append(out, Head(unread).name)
  /\ unread' = Tail(unread)
  /\ UNCHANGED <<type, pc, page, last, answer, account>>

\* Broken form: a failed read is repeated for ever.
ReadRepeated ==
  /\ pc = "reading" /\ unread # <<>>
  /\ UNCHANGED vars

ReadFails ==
  /\ pc = "reading" /\ unread # <<>>
  /\ Return("error")
  /\ UNCHANGED <<type, page, unread, last, out, account>>

PageDone ==
  /\ pc = "reading" /\ unread = <<>>
  /\ TurnPage(last)
  /\ UNCHANGED <<type, unread, last, out, account>>

Handler ==
  \/ GetList \/ GetListFails \/ GetListNothing
  \/ ReadDelegation \/ ReadFails \/ PageDone

-----------------------------------------------------------------------------
(* The account meanwhile                                                   *)

MayChange ==
  /\ pc \in {"asking", "reading"}
  /\ removals + insertions + switches < MaxChanges

\* A domain is bought or moved in; the API may list it anywhere.
Add(d, i) ==
  /\ MayChange
  /\ d \notin Names(list) /\ i \in 1..(Len(list) + 1)
  /\ \E ours \in {"yes", "no"} :
       LET row == [name |-> d, ours |-> ours]
       IN  list' = InsertAt(list, i, row) /\ was' = was \cup {row}
  /\ insertions' = insertions + 1
  /\ UNCHANGED <<loop, steady, removals, switches>>

Drop(i) ==
  /\ MayChange
  /\ i \in DOMAIN list
  /\ list' = RemoveAt(list, i)
  /\ steady' = steady \ {list[i].name}
  /\ removals' = removals + 1
  /\ UNCHANGED <<loop, was, insertions, switches>>

\* A domain is pointed to other nameservers, or back.
Switch(i) ==
  /\ MayChange /\ i \in DOMAIN list
  /\ \E ours \in {"yes", "no"} :
       /\ list' = [list EXCEPT ![i].ours = ours]
       /\ was' = was \cup {[list[i] EXCEPT !.ours = ours]}
  /\ switches' = switches + 1
  /\ UNCHANGED <<loop, steady, removals, insertions>>

Account ==
  \/ \E d \in Domains, i \in 1..(Len(list) + 1) : Add(d, i)
  \/ \E i \in DOMAIN list : Drop(i) \/ Switch(i)

Next ==
  \/ \E t \in {"infra.dns", "infra.dns_delegation", "infra.domain_transfer"} : Start(t)
  \/ Handler
  \/ Account

\* Every call the handler makes is answered or fails.
Spec == Init /\ [][Next]_vars /\ WF_vars(Handler)

-----------------------------------------------------------------------------
(* Properties                                                              *)

TypeOK ==
  /\ list \in Seq(Rows) /\ unread \in Seq(Rows)
  /\ type \in {"none", "infra.dns", "infra.dns_delegation", "infra.domain_transfer"}
  /\ pc \in {"idle", "asking", "reading", "returned"}
  /\ page \in Nat \ {0} /\ last \in BOOLEAN
  /\ out \in Seq(Domains)
  /\ answer \in {"none", "ok", "invalid", "error", "cut"}
  /\ was \subseteq Rows /\ steady \subseteq Domains
  /\ {removals, insertions, switches} \subseteq Nat

\* Domains that an enumeration has to find: in the account all the time and, for
\* infra.dns, never with foreign DNS.
Due ==
  {d \in steady : type = "infra.dns" => [name |-> d, ours |-> "no"] \notin was}

Missed == Due \ Range(out)

\* A change of the account can damage one place of the result: of the domains a
\* successful enumeration has to find, it misses no more than have left the
\* account meanwhile (a failed read is never passed over), and it reports a domain
\* again only for one that was added.  Of a "cut" enumeration only the latter can
\* be said.
EachChangeDamagesOne ==
  /\ answer = "ok" => Cardinality(Missed) <= removals
  /\ Len(out) - Cardinality(Range(out)) <= insertions

\* What is reported was in the account during the enumeration and, for
\* infra.dns, used Namecheap's DNS or did not say: rows without a name and
\* domains hosted elsewhere never get in.
ReportedWereHosted ==
  \A d \in Range(out) :
    \E row \in was : row.name = d /\ row.name # Blank /\ (type = "infra.dns" => row.ours # "no")

\* An enumeration that has begun ends, whatever the account does meanwhile.
EnumerationEnds == (pc = "asking") ~> (pc = "returned")
=============================================================================

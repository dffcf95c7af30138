------------------------------ MODULE ZoneStore ------------------------------
(***************************************************************************)
(* What the DNS driver promises its callers, with none of its steps.       *)
(*                                                                         *)
(* A call is opened with an intent: to write a whole zone, to look, or one *)
(* that must be refused.  It takes effect at most once, in one atomic      *)
(* step between its start and its answer.  "ok" means it took effect.      *)
(* A refused call never takes effect, nor does one withdrawn while it was  *)
(* still open.  A call that fails before its effect may still have it      *)
(* later, and one that fails after it has had it.                          *)
(***************************************************************************)
EXTENDS Integers, FiniteSets

CONSTANTS
  Calls, Zones,
  Intents,   \* [kind |-> "look"], [kind |-> "refuse"] or
             \* [kind |-> "write", zone, content]
  Contents,  \* whole zones others may save
  Initial,   \* what every zone holds at the start
  MaxStray   \* bound on the effects of failed calls still to come

VARIABLES store, intent, phase, stray

vars == <<store, intent, phase, stray>>

None == [kind |-> "none"]
IsWrite(i) == i.kind = "write"

Init ==
  /\ store = [z \in Zones |-> Initial]
  /\ intent = [c \in Calls |-> None]
  /\ phase = [c \in Calls |-> "idle"]
  /\ stray = {}

Become(c, from, to) == phase[c] \in from /\ phase' = [phase EXCEPT ![c] = to]

Open(c) ==
  /\ Become(c, {"idle"}, "open")
  /\ \E i \in Intents : intent' = [intent EXCEPT ![c] = i]
  /\ UNCHANGED <<store, stray>>

Withdraw(c) == Become(c, {"open"}, "withdrawn") /\ UNCHANGED <<store, intent, stray>>

TakeEffect(c) ==
  /\ intent[c].kind # "refuse"
  /\ Become(c, {"open"}, "done")
  /\ store' = IF IsWrite(intent[c])
              THEN [store EXCEPT ![intent[c].zone] = intent[c].content]
              ELSE store
  /\ UNCHANGED <<intent, stray>>

AnswerOk(c) == Become(c, {"done"}, "ok") /\ UNCHANGED <<store, intent, stray>>

AnswerError(c) ==
  /\ Become(c, {"open", "withdrawn", "done"}, "failed")
  /\ \/ stray' = stray
     \/ /\ phase[c] = "open" /\ IsWrite(intent[c])
        /\ stray' = stray \cup {intent[c]}
        /\ Cardinality(stray') <= MaxStray
  /\ UNCHANGED <<store, intent>>

Close(c) ==
  /\ Become(c, {"ok", "failed"}, "idle")
  /\ intent' = [intent EXCEPT ![c] = None]
  /\ UNCHANGED <<store, stray>>

\* An effect still to come may stand for several failed calls of one intent,
\* so it may remain.
StrayEffect(i) ==
  /\ store' = [store EXCEPT ![i.zone] = i.content]
  /\ stray' \in {stray, stray \ {i}}
  /\ UNCHANGED <<intent, phase>>

Outside(z, content) ==
  /\ store' = [store EXCEPT ![z] = content]
  /\ UNCHANGED <<intent, phase, stray>>

Next ==
  \/ \E c \in Calls :
       \/ Open(c) \/ Withdraw(c) \/ TakeEffect(c) \/ AnswerOk(c)
       \/ AnswerError(c) \/ Close(c)
  \/ \E i \in stray : StrayEffect(i)
  \/ \E z \in Zones, content \in Contents : Outside(z, content)

Spec == Init /\ [][Next]_vars
=============================================================================

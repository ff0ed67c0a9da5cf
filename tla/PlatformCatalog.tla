--------------------------- MODULE PlatformCatalog ---------------------------
(***************************************************************************)
(* What the platform's registry and feature flags promise their callers,   *)
(* without transactions: every call changes one thing, at most once and in *)
(* one instant; a component id is registered once and for good, an AI      *)
(* stays dark, a flag has an owner, and an evaluation answers with the     *)
(* value the flag has.                                                     *)
(***************************************************************************)
EXTENDS Naturals

CONSTANTS Component, AI, Version, Flag, Call, None

VARIABLES
  registry,     \* per component: its registration
  flags,        \* per flag: its owner, or None while it is not defined
  values,       \* per flag: its value and how often that was set
  done,         \* the calls that have changed something
  told          \* what each caller was told

vars == <<registry, flags, values, done, told>>

Absent == [status |-> "absent", live |-> FALSE, enabled |-> FALSE, version |-> None]

Init ==
  /\ registry = [k \in Component |-> Absent]
  /\ flags = [f \in Flag |-> None]
  /\ values = [f \in Flag |-> [enabled |-> FALSE, version |-> 0]]
  /\ done = {}
  /\ told = [c \in Call |-> "nothing"]

Register(k, v) ==
  /\ registry[k] = Absent
  /\ registry' = [registry EXCEPT ![k] =
       [status |-> "registered", live |-> FALSE, enabled |-> FALSE, version |-> v]]
  /\ UNCHANGED <<flags, values>>

Change(k, status, live, enabled) ==
  /\ registry[k] # Absent
  /\ k \in AI => ~live /\ ~enabled
  /\ registry' = [registry EXCEPT ![k] =
       [status |-> status, live |-> live, enabled |-> enabled, version |-> @.version]]
  /\ UNCHANGED <<flags, values>>

Define(f, k) ==
  /\ flags[f] = None
  /\ registry[k] # Absent
  /\ flags' = [flags EXCEPT ![f] = k]
  /\ UNCHANGED <<registry, values>>

Set(f, enabled) ==
  /\ flags[f] # None
  /\ values' = [values EXCEPT ![f] = [enabled |-> enabled, version |-> @.version + 1]]
  /\ UNCHANGED <<registry, flags>>

(* A call that changes something is told so, or that it was refused: the   *)
(* connection may be lost with the answer.                                 *)
Apply(c) ==
  /\ told[c] = "nothing"
  /\ c \notin done
  /\ done' = done \cup {c}
  /\ \E answer \in {"ok", "refused"} : told' = [told EXCEPT ![c] = answer]
  /\ \/ \E k \in Component, v \in Version : Register(k, v)
     \/ \E k \in Component, s \in {"registered", "disabled", "removed"},
           live, enabled \in BOOLEAN : Change(k, s, live, enabled)
     \/ \E f \in Flag, k \in Component : Define(f, k)
     \/ \E f \in Flag, enabled \in BOOLEAN : Set(f, enabled)

(* An evaluation: "on" only for a flag that is defined and enabled now.    *)
Evaluate(c) ==
  /\ told[c] = "nothing"
  /\ \E f \in Flag :
       told' = [told EXCEPT ![c] = IF values[f].enabled THEN "on" ELSE "off"]
  /\ UNCHANGED <<registry, flags, values, done>>

Refuse(c) ==
  /\ told[c] = "nothing"
  /\ told' = [told EXCEPT ![c] = "refused"]
  /\ UNCHANGED <<registry, flags, values, done>>

Next == \E c \in Call : Apply(c) \/ Evaluate(c) \/ Refuse(c)

Spec == Init /\ [][Next]_vars
=============================================================================

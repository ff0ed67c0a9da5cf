---------------------------- MODULE PlatformState ----------------------------
(***************************************************************************)
(* The persistent platform state: PlatformRegistryService and              *)
(* FeatureFlagRegistryService (src/src/platform/registry and               *)
(* src/src/platform/feature-flags) over their Prisma repositories, and     *)
(* PersistentFeatureFlagProvider, which reads the flags.                   *)
(*                                                                         *)
(* A change is a serializable transaction of two statements, of which the  *)
(* first takes the snapshot and the second also commits; statements of     *)
(* other calls come in between.  PostgreSQL refuses a write to a row that  *)
(* changed after the snapshot, and may refuse any transaction; the code    *)
(* never tries again.  No transaction here reads a row that it does not    *)
(* write and another one does, except for the owner of a new flag, so      *)
(* there is no cycle for the serializable level to break: a flag may be    *)
(* defined under an owner that is removed meanwhile.                       *)
(*                                                                         *)
(* Values are kept per environment; the model has one environment, for no  *)
(* call touches two.                                                       *)
(***************************************************************************)
EXTENDS Naturals, FiniteSets

CONSTANTS
  Component,    \* component ids
  AI,           \* those of kind 'ai'
  Version,      \* manifest versions
  Flag,         \* flag names
  Call,         \* calls of handle and evaluate
  None,         \* no owner, no version
  Faults        \* what the database may do

FaultKinds ==
  {"abort",     \* a transaction is aborted: conflict, timeout, lost connection
   "answer"}    \* a transaction commits and its answer is lost

ASSUME AIAssumption == AI \subseteq Component
ASSUME NoneAssumption == None \notin Component \cup Version
ASSUME FaultsAssumption == Faults \subseteq FaultKinds

VARIABLES
  manifests,    \* platform_manifests
  registry,     \* platform_registry
  flags,        \* feature_flag_definitions: the owner of each flag
  values,       \* feature_flag_values
  pc,           \* the statement each call is at, or its answer
  op,           \* what each running or committed call was asked to do
  stale,        \* calls with a row read in their snapshot that has changed
  committed     \* calls whose transaction committed (history)

tables == <<manifests, registry, flags, values>>
vars == <<tables, pc, op, stale, committed>>

Absent == [status |-> "absent", live |-> FALSE, enabled |-> FALSE, version |-> None]

(* Lifecycle states: offline, shutdown and removed, or any other (live).   *)
Status == {"registered", "disabled", "removed"}
Row == [status : Status, live : BOOLEAN, enabled : BOOLEAN, version : Version]

Registration == [do : {"register"}, component : Component, version : Version]
(* unregister is the update to removed, neither live nor enabled.          *)
Update ==
  [do : {"update"}, component : Component, status : Status, live : BOOLEAN, enabled : BOOLEAN]
Definition == [do : {"define"}, flag : Flag, component : Component]
Setting == [do : {"set"}, flag : Flag, enabled : BOOLEAN]
Evaluation == [do : {"evaluate"}, flag : Flag]
Op == Registration \cup Update \cup Definition \cup Setting \cup Evaluation
NoOp == [do |-> "nothing"]

Running == {"first", "second"}
Answers == {"ok", "refused", "on", "off"}

TypeOK ==
  /\ manifests \in SUBSET (Component \X Version)
  /\ registry \in [Component -> Row \cup {Absent}]
  /\ flags \in [Flag -> Component \cup {None}]
  /\ values \in [Flag -> [enabled : BOOLEAN, version : Nat]]
  /\ pc \in [Call -> {"idle"} \cup Running \cup Answers]
  /\ op \in [Call -> Op \cup {NoOp}]
  /\ stale \in SUBSET Call
  /\ committed \in SUBSET Call

Init ==
  /\ manifests = {}
  /\ registry = [k \in Component |-> Absent]
  /\ flags = [f \in Flag |-> None]
  /\ values = [f \in Flag |-> [enabled |-> FALSE, version |-> 0]]
  /\ pc = [c \in Call |-> "idle"]
  /\ op = [c \in Call |-> NoOp]
  /\ stale = {}
  /\ committed = {}

-----------------------------------------------------------------------------
Goto(c, from, to) ==
  /\ pc[c] = from
  /\ pc' = [pc EXCEPT ![c] = to]

(* The call ends having changed nothing: a rejected transaction is rolled  *)
(* back, and what the call was asked is forgotten.                         *)
End(c, from, answer) ==
  /\ Goto(c, from, answer)
  /\ op' = [op EXCEPT ![c] = NoOp]
  /\ stale' = stale \ {c}
  /\ UNCHANGED <<tables, committed>>

Reject(c, from) == End(c, from, "refused")

Continue(c) ==
  /\ Goto(c, "first", "second")
  /\ UNCHANGED <<tables, op, stale, committed>>

(* The calls whose snapshot holds the row that o writes.                   *)
Readers(o) ==
  {c \in Call :
     /\ pc[c] = "second"
     /\ \/ o.do = "update" /\ op[c].do \in {"update", "define"} /\ op[c].component = o.component
        \/ o.do = "set" /\ op[c].do = "set" /\ op[c].flag = o.flag}

(* Variant: a call that gets no answer is sent again.                      *)
CommitRetrying(c) ==
  /\ \/ Goto(c, "second", "ok")
     \/ "answer" \in Faults /\ Goto(c, "second", "first")
  /\ stale' = (stale \cup Readers(op[c])) \ {c}
  /\ committed' = committed \cup {c}
  /\ UNCHANGED op

Commit(c) ==
  /\ \/ Goto(c, "second", "ok")
     \/ "answer" \in Faults /\ Goto(c, "second", "refused")
  /\ stale' = (stale \cup Readers(op[c])) \ {c}
  /\ committed' = committed \cup {c}
  /\ UNCHANGED op

-----------------------------------------------------------------------------
(* handle dispatches; payloads it finds invalid are refused.               *)
Handle(c) ==
  /\ pc[c] = "idle"
  /\ \E o \in Op :
       /\ op' = [op EXCEPT ![c] = o]
       /\ pc' = [pc EXCEPT ![c] = "first"]
  /\ UNCHANGED <<tables, stale, committed>>

Invalid(c) == Reject(c, "idle")

Abort(c) ==
  /\ "abort" \in Faults
  /\ \E from \in Running : Reject(c, from)

(* Variant: the manifest is inserted outside the transaction.              *)
InsertManifestAtOnce(c) ==
  /\ op[c].do = "register"
  /\ <<op[c].component, op[c].version>> \notin manifests
  /\ Goto(c, "first", "second")
  /\ manifests' = manifests \cup {<<op[c].component, op[c].version>>}
  /\ UNCHANGED <<registry, flags, values, op, stale, committed>>

(* register: the manifest, then the record that refers to it; each has a   *)
(* unique key, and an insert waits for the one that holds its key.         *)
InsertManifest(c) ==
  /\ op[c].do = "register"
  /\ IF <<op[c].component, op[c].version>> \in manifests
       THEN Reject(c, "first")
       ELSE Continue(c)

InsertRecord(c) ==
  LET k == op[c].component
      v == op[c].version
  IN /\ op[c].do = "register"
     /\ registry[k] = Absent
     /\ <<k, v>> \notin manifests
     /\ Commit(c)
     /\ manifests' = manifests \cup {<<k, v>>}
     /\ registry' = [registry EXCEPT ![k] =
          [status |-> "registered", live |-> FALSE, enabled |-> FALSE, version |-> v]]
     /\ UNCHANGED <<flags, values>>

(* updateState: an AI keeps out of every live state and of execution.      *)
FindRecord(c) ==
  LET o == op[c] IN
  /\ o.do = "update"
  /\ IF registry[o.component] = Absent \/ (o.component \in AI /\ (o.live \/ o.enabled))
       THEN Reject(c, "first")
       ELSE Continue(c)

UpdateRecord(c) ==
  LET o == op[c] IN
  /\ o.do = "update"
  /\ c \notin stale
  /\ Commit(c)
  /\ registry' = [registry EXCEPT ![o.component] =
       [status |-> o.status, live |-> o.live, enabled |-> o.enabled, version |-> @.version]]
  /\ UNCHANGED <<manifests, flags, values>>

(* Variant: any record will do as the owner of a flag.                     *)
FindOwnerOfAnyStatus(c) ==
  /\ op[c].do = "define"
  /\ IF registry[op[c].component] = Absent THEN Reject(c, "first") ELSE Continue(c)

(* A flag is defined under a registered owner ...                          *)
FindOwner(c) ==
  /\ op[c].do = "define"
  /\ IF registry[op[c].component].status = "registered"
       THEN Continue(c)
       ELSE Reject(c, "first")

(* Variant: name and owner of the definition are swapped.                  *)
InsertDefinitionOfFlag(c) ==
  LET o == op[c] IN
  /\ o.do = "define"
  /\ flags[o.flag] = None
  /\ Commit(c)
  /\ flags' = [flags EXCEPT ![o.flag] = o.flag]
  /\ UNCHANGED <<manifests, registry, values>>

(* ... and its insert does not touch the owner's row.                      *)
InsertDefinition(c) ==
  LET o == op[c] IN
  /\ o.do = "define"
  /\ flags[o.flag] = None
  /\ Commit(c)
  /\ flags' = [flags EXCEPT ![o.flag] = o.component]
  /\ UNCHANGED <<manifests, registry, values>>

FindDefinition(c) ==
  /\ op[c].do = "set"
  /\ IF flags[op[c].flag] = None THEN Reject(c, "first") ELSE Continue(c)

(* upsert: version 1, or one more than the stored version.                 *)
UpsertValue(c) ==
  LET o == op[c] IN
  /\ o.do = "set"
  /\ c \notin stale
  /\ Commit(c)
  /\ values' = [values EXCEPT ![o.flag] = [enabled |-> o.enabled, version |-> @.version + 1]]
  /\ UNCHANGED <<manifests, registry, flags>>

(* The second statement meets a key that is taken, or a row that changed.  *)
Conflict(c) ==
  LET o == op[c] IN
  /\ \/ /\ o.do = "register"
        /\ registry[o.component] # Absent \/ <<o.component, o.version>> \in manifests
     \/ o.do = "define" /\ flags[o.flag] # None
     \/ o.do \in {"update", "set"} /\ c \in stale
  /\ Reject(c, "second")

(* evaluate: two queries outside any transaction, for the definition and   *)
(* for its value; no definition or no value means disabled.                *)
QueryDefinition(c) ==
  /\ op[c].do = "evaluate"
  /\ IF flags[op[c].flag] = None THEN End(c, "first", "off") ELSE Continue(c)

(* Variant: a definition without a value is taken for an enabled flag.     *)
QueryValueOpen(c) ==
  /\ op[c].do = "evaluate"
  /\ LET value == values[op[c].flag] IN
       End(c, "second", IF value.enabled \/ value.version = 0 THEN "on" ELSE "off")

QueryValue(c) ==
  /\ op[c].do = "evaluate"
  /\ LET value == values[op[c].flag] IN
       End(c, "second", IF value.version > 0 /\ value.enabled THEN "on" ELSE "off")

-----------------------------------------------------------------------------
Proceed(c) ==
  \/ InsertManifest(c) \/ InsertRecord(c)
  \/ FindRecord(c) \/ UpdateRecord(c)
  \/ FindOwner(c) \/ InsertDefinition(c)
  \/ FindDefinition(c) \/ UpsertValue(c)
  \/ Conflict(c)
  \/ QueryDefinition(c) \/ QueryValue(c)

Next == \E c \in Call : Handle(c) \/ Invalid(c) \/ Abort(c) \/ Proceed(c)

Spec == Init /\ [][Next]_vars

-----------------------------------------------------------------------------
(* register stores a manifest and its record together or not at all,       *)
(* whichever of the two inserts fails: the manifests are exactly those the *)
(* records refer to, also when calls register one component at a time.     *)
NoOrphans ==
  manifests = {<<k, registry[k].version>> : k \in {j \in Component : registry[j] # Absent}}

(* A value's version counts the updates that committed, each of them once, *)
(* although two updates may have read the same value and an answer may     *)
(* have been lost.                                                         *)
EveryUpdateCounts ==
  \A f \in Flag : values[f].version =
    Cardinality({c \in committed : op[c].do = "set" /\ op[c].flag = f})

(* "Feature Flag definitions require an active owning Registry record"     *)
(* (gate-one-implementation-plan.md): a flag comes into being under an     *)
(* owner that is registered, or whose removal the defining call could not  *)
(* see because it committed after that call's snapshot.                    *)
OwnerWasActive ==
  [][ \A f \in Flag : flags[f] = None /\ flags'[f] # None =>
        \/ registry[flags'[f]].status = "registered"
        \/ \E c \in stale : op[c].do = "define" /\ op[c].component = flags'[f] ]_vars

-----------------------------------------------------------------------------
Told(c) == IF pc[c] \in Answers THEN pc[c] ELSE "nothing"

Catalog == INSTANCE PlatformCatalog WITH
  done <- committed, told <- [c \in Call |-> Told(c)]

(* The transactions and the two queries implement the catalog, in which    *)
(* every call is one instant.                                              *)
ImplementsCatalog == Catalog!Spec
=============================================================================

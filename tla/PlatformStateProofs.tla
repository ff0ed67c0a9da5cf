------------------------- MODULE PlatformStateProofs -------------------------
(***************************************************************************)
(* Theorems about PlatformState, for any number of calls, components and   *)
(* flags and under every fault of the database.                            *)
(***************************************************************************)
EXTENDS PlatformState, FiniteSetTheorems, TLAPS

(* What a call has learnt in its first statement still holds, as far as    *)
(* other calls can not have changed it behind its snapshot.                *)
Prepared(c) ==
  LET o == op[c] IN
  /\ o.do = "update" =>
       /\ registry[o.component] # Absent
       /\ o.component \in AI => ~o.live /\ ~o.enabled
  /\ o.do = "define" =>
       /\ registry[o.component] # Absent
       /\ registry[o.component].status = "registered" \/ c \in stale
  /\ o.do = "set" => flags[o.flag] # None

(* The call ends with the value that some flag has.                        *)
Answered(c, from) ==
  \E f \in Flag : End(c, from, IF values[f].enabled THEN "on" ELSE "off")

(* The statements, which change no table, and the commits, one per kind.   *)
Quiet(c) ==
  /\ UNCHANGED <<tables, committed>>
  /\ \/ pc[c] = "idle" /\ pc' = [pc EXCEPT ![c] = "first"]
           /\ (\E o \in Op : op' = [op EXCEPT ![c] = o]) /\ UNCHANGED stale
     \/ Continue(c) /\ Prepared(c)
     \/ \E from \in {"idle"} \cup Running : Reject(c, from)
     \/ \E from \in Running : Answered(c, from)

-----------------------------------------------------------------------------
CallsOK ==
  \A c \in Call :
    /\ pc[c] \in Running => op[c] \in Op
    /\ c \in committed => pc[c] \in {"ok", "refused"} /\ op[c] \in Op
    /\ pc[c] = "second" => Prepared(c)

(* Values belong to defined flags, and definitions to registered ids.      *)
Founded ==
  \A f \in Flag :
    /\ flags[f] # None => registry[flags[f]] # Absent
    /\ flags[f] = None => values[f].version = 0
    /\ values[f].version = 0 => ~values[f].enabled

Counted == IsFiniteSet(committed) /\ EveryUpdateCounts

IInv == TypeOK /\ NoOrphans /\ CallsOK /\ Founded /\ Counted

-----------------------------------------------------------------------------
LEMMA RowFacts ==
  /\ Absent \notin Row
  /\ \A r \in Row \cup {Absent} : r # Absent => r \in Row
  /\ \A r \in Row \cup {Absent} : r.status = "registered" => r # Absent
<1>1. \A r \in Row : r.status \in Status
      BY DEF Row
<1>2. Absent.status = "absent"
      BY DEF Absent
<1> QED BY <1>1, <1>2 DEF Status

LEMMA OpFacts ==
  ASSUME NEW o \in Op
  PROVE  /\ o.do = "register" => o.component \in Component /\ o.version \in Version
         /\ o.do = "update" => /\ o.component \in Component /\ o.status \in Status
                               /\ o.live \in BOOLEAN /\ o.enabled \in BOOLEAN
         /\ o.do = "define" => o.component \in Component /\ o.flag \in Flag
         /\ o.do = "set" => o.flag \in Flag /\ o.enabled \in BOOLEAN
         /\ o.do = "evaluate" => o.flag \in Flag
         /\ o # NoOp
BY DEF Op, Registration, Update, Definition, Setting, Evaluation, NoOp

(* A step of a call is a quiet one, or one of the four commits.            *)
LEMMA StepKinds ==
  ASSUME IInv, NEW c \in Call, Handle(c) \/ Invalid(c) \/ Abort(c) \/ Proceed(c)
  PROVE  Quiet(c) \/ InsertRecord(c) \/ UpdateRecord(c) \/ InsertDefinition(c) \/ UpsertValue(c)
<1> USE DEF Quiet, Reject, Running
<1>1. CASE Handle(c)
      BY <1>1 DEF Handle
<1>2. CASE Invalid(c)
      BY <1>2 DEF Invalid, End
<1>3. CASE Abort(c)
      BY <1>3 DEF Abort, End
<1>4. CASE InsertManifest(c) \/ FindRecord(c) \/ FindOwner(c) \/ FindDefinition(c)
  <2>1. ASSUME Continue(c)
        PROVE  Prepared(c)
    <3>1. ~ Reject(c, "first")
          BY <2>1 DEF IInv, TypeOK, Continue, Goto, End
    <3>2. CASE InsertManifest(c)
          BY <3>1, <3>2 DEF InsertManifest, Prepared
    <3>3. CASE FindRecord(c)
          BY <3>1, <3>3 DEF FindRecord, Prepared
    <3>4. CASE FindOwner(c)
      <4>1. op[c].do = "define" /\ registry[op[c].component].status = "registered"
            BY <3>1, <3>4 DEF FindOwner
      <4> QED BY <4>1 DEF Prepared, Absent
    <3>5. CASE FindDefinition(c)
          BY <3>1, <3>5 DEF FindDefinition, Prepared
    <3> QED BY <1>4, <3>2, <3>3, <3>4, <3>5
  <2>2. CASE Continue(c)
        BY <2>1, <2>2 DEF Continue
  <2>3. CASE Reject(c, "first")
        BY <2>3 DEF End
  <2> QED BY <1>4, <2>2, <2>3 DEF InsertManifest, FindRecord, FindOwner, FindDefinition
<1>5. CASE QueryDefinition(c) \/ QueryValue(c)
  <2> DEFINE f == op[c].flag
  <2>1. /\ op[c].do = "evaluate"
        /\ pc[c] \in Running
        BY <1>5 DEF QueryDefinition, QueryValue, Continue, End, Goto
  <2>2. f \in Flag
        BY <2>1, OpFacts DEF IInv, CallsOK
  <2>3. CASE Continue(c)
        BY <2>1, <2>3 DEF Prepared, Continue
  <2>4. CASE End(c, "first", "off") /\ flags[f] = None
        BY <2>2, <2>4 DEF IInv, Founded, Answered, End
  <2>5. CASE QueryValue(c)
    <3>1. values[f].version > 0 /\ values[f].enabled <=> values[f].enabled
          BY <2>2 DEF IInv, Founded, TypeOK
    <3>2. End(c, "second", IF values[f].enabled THEN "on" ELSE "off")
          BY <2>5, <3>1 DEF QueryValue
    <3> QED BY <2>2, <3>2 DEF Answered, End
  <2> QED BY <1>5, <2>3, <2>4, <2>5 DEF QueryDefinition
<1>6. CASE Conflict(c)
      BY <1>6 DEF Conflict, End
<1> QED BY <1>1, <1>2, <1>3, <1>4, <1>5, <1>6 DEF Proceed

-----------------------------------------------------------------------------
(* What a quiet step does to the calls: only c moves, c has not committed, *)
(* and what c was asked changes only together with its answer.             *)
LEMMA QuietFacts ==
  ASSUME IInv, NEW c \in Call, Quiet(c)
  PROVE  /\ c \notin committed
         /\ UNCHANGED <<tables, committed>>
         /\ pc' \in [Call -> {"idle"} \cup Running \cup Answers]
         /\ op' \in [Call -> Op \cup {NoOp}]
         /\ stale' \in SUBSET Call
         /\ \A d \in Call \ {c} : pc'[d] = pc[d] /\ op'[d] = op[d]
         /\ stale \ {c} \subseteq stale'
         /\ pc'[c] = "first" => op'[c] \in Op
         /\ pc'[c] = "second" => op'[c] = op[c] /\ op[c] \in Op /\ Prepared(c) /\ stale' = stale
<1> USE DEF IInv, TypeOK, Running, Answers
<1>1. pc[c] \in {"idle", "first", "second"}
      BY DEF Quiet, Continue, Goto, End, Reject, Answered
<1>2. c \notin committed
      BY <1>1 DEF CallsOK
<1>3. CASE /\ pc[c] = "idle" /\ pc' = [pc EXCEPT ![c] = "first"]
           /\ (\E o \in Op : op' = [op EXCEPT ![c] = o]) /\ UNCHANGED stale
  <2>1. PICK o \in Op : op' = [op EXCEPT ![c] = o]
        BY <1>3
  <2> QED BY <1>2, <1>3, <2>1 DEF Quiet
<1>4. CASE Continue(c) /\ Prepared(c)
  <2>1. pc[c] = "first" /\ op[c] \in Op
        BY <1>4 DEF Continue, Goto, CallsOK
  <2> QED BY <1>2, <1>4, <2>1 DEF Continue, Goto
<1>5. CASE \E from \in {"idle"} \cup Running, answer \in Answers : End(c, from, answer)
      BY <1>2, <1>5 DEF End, Goto
<1>6. CASE \E from \in {"idle"} \cup Running : Reject(c, from)
      BY <1>5, <1>6 DEF Reject
<1>7. CASE \E from \in Running : Answered(c, from)
      BY <1>5, <1>7 DEF Answered
<1> QED BY <1>3, <1>4, <1>6, <1>7 DEF Quiet

(* A commit ends a prepared call that has not committed before.            *)
LEMMA CommitFacts ==
  ASSUME IInv, NEW c \in Call, Commit(c)
  PROVE  /\ c \notin committed
         /\ committed' = committed \cup {c}
         /\ op' = op
         /\ op[c] \in Op
         /\ Prepared(c)
         /\ pc' \in [Call -> {"idle"} \cup Running \cup Answers]
         /\ pc'[c] \in {"ok", "refused"}
         /\ \A d \in Call \ {c} : pc'[d] = pc[d]
         /\ stale' \in SUBSET Call
         /\ stale' = (stale \cup Readers(op[c])) \ {c}
<1> USE DEF IInv, TypeOK, Running, Answers
<1>1. pc[c] = "second"
      BY DEF Commit, Goto
<1>2. c \notin committed /\ op[c] \in Op /\ Prepared(c)
      BY <1>1 DEF CallsOK
<1>3. Readers(op[c]) \subseteq Call
      BY DEF Readers
<1> QED BY <1>1, <1>2, <1>3 DEF Commit, Goto

(* A commit of anything but a setting leaves the count of every flag.      *)
LEMMA OtherCommitsDoNotCount ==
  ASSUME IInv, NEW c \in Call, Commit(c), op[c].do # "set", UNCHANGED values
  PROVE  Counted'
<1>1. /\ committed' = committed \cup {c} /\ op' = op /\ c \notin committed
      BY CommitFacts
<1>2. IsFiniteSet(committed')
      BY <1>1, FS_AddElement DEF IInv, Counted
<1>3. ASSUME NEW f \in Flag
      PROVE  {d \in committed' : op'[d].do = "set" /\ op'[d].flag = f}
               = {d \in committed : op[d].do = "set" /\ op[d].flag = f}
      BY <1>1
<1>4. EveryUpdateCounts'
      BY <1>3 DEF IInv, Counted, EveryUpdateCounts
<1> QED BY <1>2, <1>4 DEF Counted

-----------------------------------------------------------------------------
(* Quiet steps keep the invariant.                                         *)
LEMMA QuietPreserves ==
  ASSUME IInv, NEW c \in Call, Quiet(c)
  PROVE  IInv'
<1>0. /\ c \notin committed
      /\ UNCHANGED <<tables, committed>>
      /\ pc' \in [Call -> {"idle"} \cup Running \cup Answers]
      /\ op' \in [Call -> Op \cup {NoOp}]
      /\ stale' \in SUBSET Call
      /\ \A d \in Call \ {c} : pc'[d] = pc[d] /\ op'[d] = op[d]
      /\ stale \ {c} \subseteq stale'
      /\ pc'[c] = "first" => op'[c] \in Op
      /\ pc'[c] = "second" => op'[c] = op[c] /\ op[c] \in Op /\ Prepared(c) /\ stale' = stale
      BY QuietFacts
<1>1. TypeOK'
      BY <1>0 DEF IInv, TypeOK, tables
<1>2. NoOrphans'
      BY <1>0 DEF IInv, NoOrphans, tables
<1>3. CallsOK'
  <2>1. ASSUME NEW d \in Call
        PROVE  /\ pc'[d] \in Running => op'[d] \in Op
               /\ d \in committed' => pc'[d] \in {"ok", "refused"} /\ op'[d] \in Op
               /\ pc'[d] = "second" => Prepared(d)'
    <3>1. CASE d = c
          BY <1>0, <3>1 DEF Running, Prepared, tables
    <3>2. CASE d # c
          BY <1>0, <3>2 DEF IInv, CallsOK, Prepared, tables
    <3> QED BY <3>1, <3>2
  <2> QED BY <2>1 DEF CallsOK
<1>4. Founded'
      BY <1>0 DEF IInv, Founded, tables
<1>5. Counted'
  <2>1. committed \subseteq Call
        BY DEF IInv, TypeOK
  <2>2. ASSUME NEW f \in Flag
        PROVE  {d \in committed' : op'[d].do = "set" /\ op'[d].flag = f}
                 = {d \in committed : op[d].do = "set" /\ op[d].flag = f}
        BY <1>0, <2>1
  <2>3. EveryUpdateCounts'
        BY <1>0, <2>2 DEF IInv, Counted, EveryUpdateCounts, tables
  <2> QED BY <1>0, <2>3 DEF IInv, Counted
<1> QED BY <1>1, <1>2, <1>3, <1>4, <1>5 DEF IInv

(* Registering keeps it: the new row was absent before, so what other      *)
(* calls know of rows that are present does not change.                    *)
LEMMA InsertRecordPreserves ==
  ASSUME IInv, NEW c \in Call, InsertRecord(c)
  PROVE  IInv'
<1> DEFINE k == op[c].component
           v == op[c].version
           row == [status |-> "registered", live |-> FALSE, enabled |-> FALSE, version |-> v]
<1>0. /\ Commit(c)
      /\ op[c].do = "register"
      /\ registry[k] = Absent
      /\ manifests' = manifests \cup {<<k, v>>}
      /\ registry' = [registry EXCEPT ![k] = row]
      /\ UNCHANGED <<flags, values>>
      BY DEF InsertRecord
<1>1. /\ c \notin committed
      /\ committed' = committed \cup {c}
      /\ op' = op
      /\ op[c] \in Op
      /\ pc' \in [Call -> {"idle"} \cup Running \cup Answers]
      /\ pc'[c] \in {"ok", "refused"}
      /\ \A d \in Call \ {c} : pc'[d] = pc[d]
      /\ stale' \in SUBSET Call
      /\ stale' = (stale \cup Readers(op[c])) \ {c}
      BY <1>0, CommitFacts
<1>2. k \in Component /\ v \in Version
      BY <1>0, <1>1, OpFacts
<1>3. row \in Row /\ row # Absent /\ row.version = v /\ row.status = "registered"
      BY <1>2, RowFacts DEF Row, Status
<1> HIDE DEF k, v, row
<1>4. /\ registry'[k] = row
      /\ \A j \in Component \ {k} : registry'[j] = registry[j]
      BY <1>0, <1>2 DEF IInv, TypeOK
<1>5. TypeOK'
  <2>1. manifests' \in SUBSET (Component \X Version)
        BY <1>0, <1>2 DEF IInv, TypeOK
  <2>2. registry' \in [Component -> Row \cup {Absent}]
        BY <1>0, <1>2, <1>3 DEF IInv, TypeOK
  <2> QED BY <1>0, <1>1, <2>1, <2>2 DEF IInv, TypeOK
<1>6. NoOrphans'
      BY <1>0, <1>2, <1>3, <1>4 DEF IInv, NoOrphans
<1>7. CallsOK'
  <2>1. ASSUME NEW d \in Call \ {c}, pc[d] = "second"
        PROVE  Prepared(d)'
    <3>1. op[d] \in Op /\ Prepared(d)
          BY <2>1 DEF IInv, CallsOK, Running
    <3>2. CASE op[d].do \in {"update", "define"}
      <4>1. op[d].component \in Component \ {k}
            BY <1>0, <3>1, <3>2, OpFacts DEF Prepared
      <4>2. registry'[op[d].component] = registry[op[d].component]
            BY <1>4, <4>1
      <4> QED BY <1>0, <1>1, <3>1, <3>2, <4>2 DEF Prepared
    <3>3. CASE op[d].do \notin {"update", "define"}
          BY <1>0, <1>1, <3>1, <3>3 DEF Prepared
    <3> QED BY <3>2, <3>3
  <2>2. ASSUME NEW d \in Call \ {c}
        PROVE  /\ pc'[d] \in Running => op'[d] \in Op
               /\ d \in committed' => pc'[d] \in {"ok", "refused"} /\ op'[d] \in Op
               /\ pc'[d] = "second" => Prepared(d)'
        BY <1>1, <2>1 DEF IInv, CallsOK
  <2> QED BY <1>1, <2>2 DEF CallsOK
<1>8. Founded'
      BY <1>0, <1>3, <1>4 DEF IInv, Founded, TypeOK
<1>9. Counted'
      BY <1>0, OtherCommitsDoNotCount
<1> QED BY <1>5, <1>6, <1>7, <1>8, <1>9 DEF IInv

(* Changing a registration keeps it: the row stays present and keeps its   *)
(* version, and a call that has read it becomes stale.                     *)
LEMMA UpdateRecordPreserves ==
  ASSUME IInv, NEW c \in Call, UpdateRecord(c)
  PROVE  IInv'
<1> DEFINE o == op[c]
           k == o.component
           row == [status |-> o.status, live |-> o.live, enabled |-> o.enabled,
                   version |-> registry[k].version]
<1>0. /\ Commit(c)
      /\ o.do = "update"
      /\ registry' = [registry EXCEPT ![k] = row]
      /\ UNCHANGED <<manifests, flags, values>>
      BY DEF UpdateRecord
<1>1. /\ c \notin committed
      /\ committed' = committed \cup {c}
      /\ op' = op
      /\ o \in Op
      /\ Prepared(c)
      /\ pc' \in [Call -> {"idle"} \cup Running \cup Answers]
      /\ pc'[c] \in {"ok", "refused"}
      /\ \A d \in Call \ {c} : pc'[d] = pc[d]
      /\ stale' \in SUBSET Call
      /\ stale' = (stale \cup Readers(o)) \ {c}
      BY <1>0, CommitFacts
<1>2. /\ k \in Component
      /\ o.status \in Status /\ o.live \in BOOLEAN /\ o.enabled \in BOOLEAN
      /\ registry[k] # Absent
      BY <1>0, <1>1, OpFacts DEF Prepared
<1>3. registry[k] \in Row
      BY <1>2 DEF IInv, TypeOK
<1>4. row \in Row /\ row # Absent /\ row.version = registry[k].version
      BY <1>2, <1>3, RowFacts DEF Row
<1> HIDE DEF o, k, row
<1>5. /\ registry'[k] = row
      /\ \A j \in Component \ {k} : registry'[j] = registry[j]
      BY <1>0, <1>2 DEF IInv, TypeOK
<1>6. TypeOK'
  <2>1. registry' \in [Component -> Row \cup {Absent}]
        BY <1>0, <1>2, <1>4 DEF IInv, TypeOK
  <2> QED BY <1>0, <1>1, <2>1 DEF IInv, TypeOK
<1>7. NoOrphans'
  <2>1. \A j \in Component : /\ registry'[j] # Absent <=> registry[j] # Absent
                             /\ registry'[j].version = registry[j].version
        BY <1>2, <1>4, <1>5
  <2> QED BY <1>0, <2>1 DEF IInv, NoOrphans
<1>8. CallsOK'
  <2>1. ASSUME NEW d \in Call \ {c}, pc[d] = "second"
        PROVE  Prepared(d)'
    <3>1. op[d] \in Op /\ Prepared(d)
          BY <2>1 DEF IInv, CallsOK, Running
    <3>2. CASE op[d].do \in {"update", "define"}
      <4>1. op[d].component \in Component
            BY <3>1, <3>2, OpFacts
      <4>2. registry'[op[d].component] # Absent
            BY <1>4, <1>5, <3>1, <3>2, <4>1 DEF Prepared
      <4>3. CASE op[d].component = k
        <5>1. d \in Readers(o)
              BY <1>0, <2>1, <3>2, <4>3 DEF Readers, k
        <5> QED BY <1>1, <3>1, <3>2, <4>2, <5>1 DEF Prepared
      <4>4. CASE op[d].component # k
        <5>1. registry'[op[d].component] = registry[op[d].component]
              BY <1>5, <4>1, <4>4
        <5> QED BY <1>1, <3>1, <3>2, <5>1 DEF Prepared
      <4> QED BY <4>3, <4>4
    <3>3. CASE op[d].do \notin {"update", "define"}
          BY <1>0, <1>1, <3>1, <3>3 DEF Prepared
    <3> QED BY <3>2, <3>3
  <2>2. ASSUME NEW d \in Call \ {c}
        PROVE  /\ pc'[d] \in Running => op'[d] \in Op
               /\ d \in committed' => pc'[d] \in {"ok", "refused"} /\ op'[d] \in Op
               /\ pc'[d] = "second" => Prepared(d)'
        BY <1>1, <2>1 DEF IInv, CallsOK
  <2>3. op'[c] \in Op
        BY <1>1 DEF o
  <2> QED BY <1>1, <2>2, <2>3 DEF CallsOK, Running
<1>9. Founded'
      BY <1>0, <1>4, <1>5 DEF IInv, Founded, TypeOK
<1>10. Counted'
  <2>1. op[c].do # "set"
        BY <1>0 DEF o
  <2> QED BY <1>0, <2>1, OtherCommitsDoNotCount
<1> QED BY <1>6, <1>7, <1>8, <1>9, <1>10 DEF IInv

(* Defining a flag keeps it: its owner is present, and no flag loses one.  *)
LEMMA InsertDefinitionPreserves ==
  ASSUME IInv, NEW c \in Call, InsertDefinition(c)
  PROVE  IInv'
<1> DEFINE o == op[c]
<1>0. /\ Commit(c)
      /\ o.do = "define"
      /\ flags[o.flag] = None
      /\ flags' = [flags EXCEPT ![o.flag] = o.component]
      /\ UNCHANGED <<manifests, registry, values>>
      BY DEF InsertDefinition
<1>1. /\ c \notin committed
      /\ committed' = committed \cup {c}
      /\ op' = op
      /\ o \in Op
      /\ Prepared(c)
      /\ pc' \in [Call -> {"idle"} \cup Running \cup Answers]
      /\ pc'[c] \in {"ok", "refused"}
      /\ \A d \in Call \ {c} : pc'[d] = pc[d]
      /\ stale' \in SUBSET Call
      /\ stale' = (stale \cup Readers(o)) \ {c}
      BY <1>0, CommitFacts
<1>2. /\ o.component \in Component /\ o.flag \in Flag
      /\ registry[o.component] # Absent
      BY <1>0, <1>1, OpFacts DEF Prepared
<1>3. o.component # None
      BY <1>2, NoneAssumption
<1> HIDE DEF o
<1>4. /\ flags'[o.flag] = o.component
      /\ \A f \in Flag \ {o.flag} : flags'[f] = flags[f]
      BY <1>0, <1>2 DEF IInv, TypeOK
<1>5. TypeOK'
  <2>1. flags' \in [Flag -> Component \cup {None}]
        BY <1>0, <1>2 DEF IInv, TypeOK
  <2> QED BY <1>0, <1>1, <2>1 DEF IInv, TypeOK
<1>6. NoOrphans'
      BY <1>0 DEF IInv, NoOrphans
<1>7. CallsOK'
  <2>1. ASSUME NEW d \in Call \ {c}, pc[d] = "second"
        PROVE  Prepared(d)'
    <3>1. op[d] \in Op /\ Prepared(d)
          BY <2>1 DEF IInv, CallsOK, Running
    <3>2. op[d].do = "set" => flags'[op[d].flag] # None
          BY <1>2, <1>3, <1>4, <3>1, OpFacts DEF Prepared
    <3> QED BY <1>0, <1>1, <3>1, <3>2 DEF Prepared
  <2>2. ASSUME NEW d \in Call \ {c}
        PROVE  /\ pc'[d] \in Running => op'[d] \in Op
               /\ d \in committed' => pc'[d] \in {"ok", "refused"} /\ op'[d] \in Op
               /\ pc'[d] = "second" => Prepared(d)'
        BY <1>1, <2>1 DEF IInv, CallsOK
  <2>3. op'[c] \in Op
        BY <1>1 DEF o
  <2> QED BY <1>1, <2>2, <2>3 DEF CallsOK, Running
<1>8. Founded'
      BY <1>0, <1>2, <1>3, <1>4 DEF IInv, Founded
<1>9. Counted'
  <2>1. op[c].do # "set"
        BY <1>0 DEF o
  <2> QED BY <1>0, <2>1, OtherCommitsDoNotCount
<1> QED BY <1>5, <1>6, <1>7, <1>8, <1>9 DEF IInv

(* Setting a flag keeps it: the version of that flag and the number of     *)
(* commits to it grow by one.                                              *)
LEMMA UpsertValuePreserves ==
  ASSUME IInv, NEW c \in Call, UpsertValue(c)
  PROVE  IInv'
<1> DEFINE o == op[c]
           new == [enabled |-> o.enabled, version |-> values[o.flag].version + 1]
<1>0. /\ Commit(c)
      /\ o.do = "set"
      /\ values' = [values EXCEPT ![o.flag] = new]
      /\ UNCHANGED <<manifests, registry, flags>>
      BY DEF UpsertValue
<1>1. /\ c \notin committed
      /\ committed' = committed \cup {c}
      /\ op' = op
      /\ o \in Op
      /\ Prepared(c)
      /\ pc' \in [Call -> {"idle"} \cup Running \cup Answers]
      /\ pc'[c] \in {"ok", "refused"}
      /\ \A d \in Call \ {c} : pc'[d] = pc[d]
      /\ stale' \in SUBSET Call
      /\ stale' = (stale \cup Readers(o)) \ {c}
      BY <1>0, CommitFacts
<1>2. o.flag \in Flag /\ o.enabled \in BOOLEAN /\ flags[o.flag] # None
      BY <1>0, <1>1, OpFacts DEF Prepared
<1>3. values[o.flag] \in [enabled : BOOLEAN, version : Nat]
      BY <1>2 DEF IInv, TypeOK
<1>4. /\ new \in [enabled : BOOLEAN, version : Nat]
      /\ new.version = values[o.flag].version + 1 /\ new.version # 0
      BY <1>2, <1>3
<1> HIDE DEF o, new
<1>5. /\ values'[o.flag] = new
      /\ \A f \in Flag \ {o.flag} : values'[f] = values[f]
      BY <1>0, <1>2 DEF IInv, TypeOK
<1>6. TypeOK'
  <2>1. values' \in [Flag -> [enabled : BOOLEAN, version : Nat]]
        BY <1>0, <1>2, <1>4 DEF IInv, TypeOK
  <2> QED BY <1>0, <1>1, <2>1 DEF IInv, TypeOK
<1>7. NoOrphans'
      BY <1>0 DEF IInv, NoOrphans
<1>8. CallsOK'
  <2>1. ASSUME NEW d \in Call \ {c}, pc[d] = "second"
        PROVE  Prepared(d)'
    <3>1. op[d] \in Op /\ Prepared(d)
          BY <2>1 DEF IInv, CallsOK, Running
    <3> QED BY <1>0, <1>1, <3>1 DEF Prepared
  <2>2. ASSUME NEW d \in Call \ {c}
        PROVE  /\ pc'[d] \in Running => op'[d] \in Op
               /\ d \in committed' => pc'[d] \in {"ok", "refused"} /\ op'[d] \in Op
               /\ pc'[d] = "second" => Prepared(d)'
        BY <1>1, <2>1 DEF IInv, CallsOK
  <2>3. op'[c] \in Op
        BY <1>1 DEF o
  <2> QED BY <1>1, <2>2, <2>3 DEF CallsOK, Running
<1>9. Founded'
      BY <1>0, <1>2, <1>4, <1>5 DEF IInv, Founded
<1>10. Counted'
  <2> DEFINE S(f) == {d \in committed : op[d].do = "set" /\ op[d].flag = f}
  <2>1. IsFiniteSet(committed)
        BY DEF IInv, Counted
  <2>2. IsFiniteSet(committed')
        BY <1>1, <2>1, FS_AddElement
  <2>3. \A f \in Flag : values[f].version = Cardinality(S(f))
        BY DEF IInv, Counted, EveryUpdateCounts
  <2>4. ASSUME NEW f \in Flag
        PROVE  values'[f].version
                 = Cardinality({d \in committed' : op'[d].do = "set" /\ op'[d].flag = f})
    <3>1. CASE f = o.flag
      <4>1. {d \in committed' : op'[d].do = "set" /\ op'[d].flag = f} = S(f) \cup {c}
            BY <1>0, <1>1, <3>1 DEF o
      <4>2. c \notin S(f)
            BY <1>1
      <4>3. IsFiniteSet(S(f))
            BY <2>1, FS_Subset
      <4>4. Cardinality(S(f) \cup {c}) = Cardinality(S(f)) + 1
            BY <4>2, <4>3, FS_AddElement
      <4> QED BY <1>4, <1>5, <2>3, <3>1, <4>1, <4>4
    <3>2. CASE f # o.flag
      <4>1. {d \in committed' : op'[d].do = "set" /\ op'[d].flag = f} = S(f)
            BY <1>1, <3>2 DEF o
      <4> QED BY <1>5, <2>3, <3>2, <4>1
    <3> QED BY <3>1, <3>2
  <2> QED BY <2>2, <2>4 DEF Counted, EveryUpdateCounts
<1> QED BY <1>6, <1>7, <1>8, <1>9, <1>10 DEF IInv

-----------------------------------------------------------------------------
(* Every step keeps the invariant.                                         *)
LEMMA InvariantStep ==
  ASSUME IInv, [Next]_vars
  PROVE  IInv'
<1>1. CASE Next
  <2>1. PICK c \in Call : Handle(c) \/ Invalid(c) \/ Abort(c) \/ Proceed(c)
        BY <1>1 DEF Next
  <2> QED BY <2>1, StepKinds, QuietPreserves, InsertRecordPreserves, UpdateRecordPreserves,
             InsertDefinitionPreserves, UpsertValuePreserves
<1>2. CASE UNCHANGED vars
  <2> USE <1>2 DEF vars, tables
  <2>1. TypeOK'
        BY DEF IInv, TypeOK
  <2>2. NoOrphans' /\ Founded'
        BY DEF IInv, NoOrphans, Founded
  <2>3. CallsOK'
        BY DEF IInv, CallsOK, Prepared
  <2>4. Counted'
        BY DEF IInv, Counted, EveryUpdateCounts
  <2> QED BY <2>1, <2>2, <2>3, <2>4 DEF IInv
<1> QED BY <1>1, <1>2

(* The database starts empty and the calls idle, which is consistent.      *)
LEMMA InvariantStart ==
  ASSUME Init
  PROVE  IInv
<1> USE DEF Init
<1>1. TypeOK
      BY DEF TypeOK
<1>2. NoOrphans /\ Founded
      BY DEF NoOrphans, Founded
<1>3. CallsOK
      BY DEF CallsOK, Running
<1>4. Counted
  <2>1. \A f \in Flag : {c \in committed : op[c].do = "set" /\ op[c].flag = f} = {}
        OBVIOUS
  <2> QED BY <2>1, FS_EmptySet DEF Counted, EveryUpdateCounts
<1> QED BY <1>1, <1>2, <1>3, <1>4 DEF IInv

(* The invariant that ties the calls under way, the history and the tables *)
(* to each other holds in every reachable state.                           *)
THEOREM Consistency == Spec => []IInv
<1>1. Init => IInv
      BY InvariantStart
<1>2. IInv /\ [Next]_vars => IInv'
      BY InvariantStep
<1> QED BY <1>1, <1>2, PTL DEF Spec

(* The tables and the calls keep their types.                              *)
THEOREM TypeCorrect == Spec => []TypeOK
<1>1. IInv => TypeOK
      BY DEF IInv
<1> QED BY <1>1, Consistency, PTL

(* A registration that fails leaves no manifest behind: the manifests are  *)
(* those of the records, however many calls register at a time.            *)
THEOREM ManifestsHaveRecords == Spec => []NoOrphans
<1>1. IInv => NoOrphans
      BY DEF IInv
<1> QED BY <1>1, Consistency, PTL

(* A value's version is the number of its updates that committed, for any  *)
(* number of calls that set it at a time.                                  *)
THEOREM UpdatesCountOnce == Spec => []EveryUpdateCounts
<1>1. IInv => EveryUpdateCounts
      BY DEF IInv, Counted
<1> QED BY <1>1, Consistency, PTL

-----------------------------------------------------------------------------
(* One step of OwnerWasActive.                                             *)
BornUnderActiveOwner ==
  \A f \in Flag : flags[f] = None /\ flags'[f] # None =>
    \/ registry[flags'[f]].status = "registered"
    \/ \E c \in stale : op[c].do = "define" /\ op[c].component = flags'[f]

(* Only InsertDefinition defines a flag, for a call that is prepared.      *)
LEMMA BirthStep ==
  ASSUME IInv, [Next]_vars
  PROVE  BornUnderActiveOwner
<1>1. CASE UNCHANGED flags
      BY <1>1 DEF BornUnderActiveOwner
<1>2. ASSUME NEW c \in Call, InsertDefinition(c)
      PROVE  BornUnderActiveOwner
  <2>1. /\ op[c].do = "define"
        /\ op[c] \in Op
        /\ Prepared(c)
        /\ flags' = [flags EXCEPT ![op[c].flag] = op[c].component]
        BY <1>2, CommitFacts DEF InsertDefinition
  <2>2. \A f \in Flag : flags[f] # flags'[f] => flags'[f] = op[c].component
        BY <2>1, OpFacts DEF IInv, TypeOK
  <2>3. \/ registry[op[c].component].status = "registered"
        \/ c \in stale
        BY <2>1 DEF Prepared
  <2> QED BY <2>1, <2>2, <2>3 DEF BornUnderActiveOwner
<1>3. CASE Next
  <2>1. PICK c \in Call : Handle(c) \/ Invalid(c) \/ Abort(c) \/ Proceed(c)
        BY <1>3 DEF Next
  <2>2. Quiet(c) \/ InsertRecord(c) \/ UpdateRecord(c) \/ InsertDefinition(c) \/ UpsertValue(c)
        BY <2>1, StepKinds
  <2>3. UNCHANGED flags \/ InsertDefinition(c)
        BY <2>2 DEF Quiet, tables, InsertRecord, UpdateRecord, UpsertValue
  <2> QED BY <1>1, <1>2, <2>3
<1>4. CASE UNCHANGED vars
      BY <1>1, <1>4 DEF vars, tables
<1> QED BY <1>3, <1>4

(* A flag is defined under a registered owner, or under one whose removal  *)
(* committed behind the snapshot of the defining call.                     *)
THEOREM OwnersWereActive == Spec => OwnerWasActive
<1>1. IInv /\ [Next]_vars => [BornUnderActiveOwner]_vars
      BY BirthStep
<1>2. Spec => [][BornUnderActiveOwner]_vars
      BY <1>1, Consistency, PTL DEF Spec
<1> QED BY <1>2 DEF OwnerWasActive, BornUnderActiveOwner

-----------------------------------------------------------------------------
AbstractTold == [c \in Call |-> Told(c)]
CatalogVars == <<registry, flags, values, committed, AbstractTold>>

(* What callers were told changes only for the call that moves.            *)
LEMMA ToldStep ==
  ASSUME NEW c \in Call, \A d \in Call \ {c} : pc'[d] = pc[d]
  PROVE  AbstractTold' = [AbstractTold EXCEPT ![c] = Told(c)']
<1>1. ASSUME NEW d \in Call \ {c}
      PROVE  Told(d)' = Told(d)
      BY DEF Told
<1> QED BY <1>1 DEF AbstractTold

(* A first statement that lets its call go on is invisible, and a call     *)
(* that ends without a commit is refused or told the value of a flag.      *)
LEMMA QuietRefines ==
  ASSUME IInv, NEW c \in Call, Quiet(c)
  PROVE  [Catalog!Next]_CatalogVars
<1>0. /\ UNCHANGED <<tables, committed>>
      /\ \A d \in Call \ {c} : pc'[d] = pc[d]
      BY QuietFacts
<1>1. AbstractTold' = [AbstractTold EXCEPT ![c] = Told(c)']
      BY <1>0, ToldStep
<1>2. AbstractTold[c] = Told(c)
      BY DEF AbstractTold
<1>3. ASSUME Told(c)' = Told(c)
      PROVE  [Catalog!Next]_CatalogVars
  <2>1. AbstractTold' = AbstractTold
        BY <1>1, <1>2, <1>3 DEF AbstractTold
  <2> QED BY <1>0, <2>1 DEF CatalogVars, tables
<1>4. CASE pc[c] = "idle" /\ pc' = [pc EXCEPT ![c] = "first"]
  <2>1. Told(c)' = Told(c)
        BY <1>4 DEF Told, Answers, IInv, TypeOK
  <2> QED BY <1>3, <2>1
<1>5. CASE Continue(c)
  <2>1. Told(c)' = Told(c)
        BY <1>5 DEF Told, Answers, IInv, TypeOK, Continue, Goto
  <2> QED BY <1>3, <2>1
<1>6. ASSUME NEW from \in {"idle"} \cup Running, NEW answer \in Answers, End(c, from, answer)
      PROVE  Told(c) = "nothing" /\ Told(c)' = answer
      BY <1>6 DEF Told, Answers, Running, IInv, TypeOK, End, Goto
<1>7. CASE \E from \in {"idle"} \cup Running : Reject(c, from)
  <2>1. Told(c) = "nothing" /\ Told(c)' = "refused"
        BY <1>6, <1>7 DEF Reject, Answers
  <2>2. Catalog!Refuse(c)
        BY <1>0, <1>1, <1>2, <2>1 DEF Catalog!Refuse, AbstractTold, tables
  <2> QED BY <2>2 DEF Catalog!Next
<1>8. CASE \E from \in Running : Answered(c, from)
  <2>1. PICK f \in Flag, from \in Running : End(c, from, IF values[f].enabled THEN "on" ELSE "off")
        BY <1>8 DEF Answered
  <2>2. Told(c) = "nothing" /\ Told(c)' = IF values[f].enabled THEN "on" ELSE "off"
        BY <1>6, <2>1 DEF Answers
  <2>3. Catalog!Evaluate(c)
        BY <1>0, <1>1, <1>2, <2>2 DEF Catalog!Evaluate, AbstractTold, tables
  <2> QED BY <2>3 DEF Catalog!Next
<1> QED BY <1>4, <1>5, <1>7, <1>8 DEF Quiet

(* A commit is the instant of its call.                                    *)
LEMMA CommitRefines ==
  ASSUME IInv, NEW c \in Call,
         InsertRecord(c) \/ UpdateRecord(c) \/ InsertDefinition(c) \/ UpsertValue(c)
  PROVE  Catalog!Next
<1> DEFINE o == op[c]
<1>1. Commit(c)
      BY DEF InsertRecord, UpdateRecord, InsertDefinition, UpsertValue
<1>2. /\ c \notin committed
      /\ committed' = committed \cup {c}
      /\ o \in Op
      /\ Prepared(c)
      /\ pc'[c] \in {"ok", "refused"}
      /\ \A d \in Call \ {c} : pc'[d] = pc[d]
      BY <1>1, CommitFacts
<1>3. AbstractTold' = [AbstractTold EXCEPT ![c] = Told(c)'] /\ AbstractTold[c] = Told(c)
      BY <1>2, ToldStep DEF AbstractTold
<1>4. Told(c) = "nothing" /\ Told(c)' \in {"ok", "refused"}
      BY <1>1, <1>2 DEF Told, Answers, Commit, Goto
<1>5. CASE InsertRecord(c)
  <2>1. o.component \in Component /\ o.version \in Version
        BY <1>2, <1>5, OpFacts DEF InsertRecord
  <2>2. Catalog!Register(o.component, o.version)
        BY <1>5 DEF InsertRecord, Catalog!Register, Absent, Catalog!Absent
  <2> QED BY <1>2, <1>3, <1>4, <2>1, <2>2 DEF Catalog!Next, Catalog!Apply, AbstractTold
<1>6. CASE UpdateRecord(c)
  <2>1. /\ o.component \in Component /\ o.status \in Status
        /\ o.live \in BOOLEAN /\ o.enabled \in BOOLEAN
        BY <1>2, <1>6, OpFacts DEF UpdateRecord
  <2>2. Catalog!Change(o.component, o.status, o.live, o.enabled)
        BY <1>2, <1>6 DEF UpdateRecord, Catalog!Change, Absent, Catalog!Absent, Prepared
  <2> QED BY <1>2, <1>3, <1>4, <2>1, <2>2 DEF Catalog!Next, Catalog!Apply, AbstractTold, Status
<1>7. CASE InsertDefinition(c)
  <2>1. o.component \in Component /\ o.flag \in Flag
        BY <1>2, <1>7, OpFacts DEF InsertDefinition
  <2>2. Catalog!Define(o.flag, o.component)
        BY <1>2, <1>7 DEF InsertDefinition, Catalog!Define, Absent, Catalog!Absent, Prepared
  <2> QED BY <1>2, <1>3, <1>4, <2>1, <2>2 DEF Catalog!Next, Catalog!Apply, AbstractTold
<1>8. CASE UpsertValue(c)
  <2>1. o.flag \in Flag /\ o.enabled \in BOOLEAN
        BY <1>2, <1>8, OpFacts DEF UpsertValue
  <2>2. Catalog!Set(o.flag, o.enabled)
        BY <1>2, <1>8 DEF UpsertValue, Catalog!Set, Prepared
  <2> QED BY <1>2, <1>3, <1>4, <2>1, <2>2 DEF Catalog!Next, Catalog!Apply, AbstractTold
<1> QED BY <1>5, <1>6, <1>7, <1>8

(* The transactions and the queries implement the atomic catalog: every    *)
(* call has one instant at which it happens, or is refused.                *)
THEOREM Refinement == Spec => ImplementsCatalog
<1>1. Init => Catalog!Init
      BY DEF Init, Catalog!Init, Absent, Catalog!Absent, Told, Answers
<1>2. IInv /\ [Next]_vars => [Catalog!Next]_CatalogVars
  <2>1. ASSUME IInv, NEW c \in Call, Handle(c) \/ Invalid(c) \/ Abort(c) \/ Proceed(c)
        PROVE  [Catalog!Next]_CatalogVars
        BY <2>1, StepKinds, QuietRefines, CommitRefines
  <2>2. ASSUME UNCHANGED vars
        PROVE  UNCHANGED CatalogVars
        BY <2>2 DEF vars, tables, CatalogVars, AbstractTold, Told
  <2> QED BY <2>1, <2>2 DEF Next
<1>3. CatalogVars = Catalog!vars
      BY DEF CatalogVars, Catalog!vars, AbstractTold
<1>4. IInv /\ [Next]_vars => [Catalog!Next]_Catalog!vars
      BY <1>2, <1>3 DEF CatalogVars, Catalog!vars, AbstractTold
<1> QED BY <1>1, <1>4, Consistency, PTL DEF Spec, ImplementsCatalog, Catalog!Spec
=============================================================================

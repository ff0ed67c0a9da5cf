--------------------------- MODULE AwarenessProofs ---------------------------
(***************************************************************************)
(* Proofs about Awareness: for any number of sources and inspections, and  *)
(* however the sources change, each report is backed by what its sources   *)
(* were while it was made.                                                 *)
(***************************************************************************)
EXTENDS Awareness, TLAPS

(* What has been answered was so while the inspection ran, and what is     *)
(* reported is backed.                                                     *)
Heard(i) ==
  /\ \A s \in Reads(kind[i]) : got[i][s] # Unread => got[i][s] \in during[i][s]
  /\ pc[i] = "reading" => \A s \in Reads(kind[i]) : condition[s] \in during[i][s]

Inv ==
  /\ TypeOK
  /\ \A i \in Inspection : Heard(i)
  /\ ReportsWereSeen

-----------------------------------------------------------------------------
LEMMA ReadsAreAsked ==
  ASSUME NEW i \in Inspection
  PROVE  Reads(kind[i]) \subseteq Asked
  BY DEF Asked

LEMMA AskedAreSources == Asked \subseteq Source
  BY Zenon DEF Asked, Reads, Source

LEMMA ConditionsAreRead ==
  ASSUME NEW s, NEW c \in Conditions(s)
  PROVE  c # Unread
  BY DEF Conditions, Refusals, Unread, Value, Without

LEMMA Widen ==
  ASSUME NEW s \in Source
  PROVE  Conditions(s) \subseteq Condition
  BY DEF Condition

-----------------------------------------------------------------------------
(* A probe in order is one that answers "healthy".                         *)
LEMMA ProbeOrder ==
  ASSUME NEW p \in Probe, NEW c \in Conditions(p)
  PROVE  ProbeHealthy(c) <=> InOrder("health", p, c)
<1>1. (\E h \in HealthStatus : c = Value({h})) \/ c = Without("rejects")
  <2>1. Conditions(p) = {Value({h}) : h \in HealthStatus} \cup {Without("rejects")}
        BY DEF Conditions
  <2> QED BY <2>1
<1>2. InOrder("health", p, c) <=> c = Value({"healthy"})
      BY Zenon DEF InOrder
<1>3. CASE c = Without("rejects")
      BY <1>2, <1>3 DEF ProbeHealthy, Without, Value
<1>4. ASSUME NEW h \in HealthStatus, c = Value({h})
      PROVE  ProbeHealthy(c) <=> c = Value({"healthy"})
  <2>1. c.answer = "value" /\ c.statuses = {h}
        BY <1>4 DEF Value
  <2>2. ProbeHealthy(c) <=> h = "healthy"
        BY <2>1 DEF ProbeHealthy
  <2>3. c = Value({"healthy"}) => h = "healthy"
    <3>1. c = Value({"healthy"}) => c.statuses = {"healthy"}
          BY DEF Value
    <3> QED BY <2>1, <3>1
  <2> QED BY <1>4, <2>2, <2>3
<1> QED BY <1>1, <1>2, <1>3, <1>4

LEMMA PlainOrder ==
  ASSUME NEW s \in Plain, NEW c \in Conditions(s)
  PROVE  Available(c) <=> InOrder("haley", s, c)
<1>1. s \notin Probe /\ s # Listing
      BY AwarenessAssumption
<1> QED BY <1>1 DEF Conditions, Refusals, Refusals, Available, InOrder, Value, Without

LEMMA ListingOrder ==
  ASSUME NEW c \in Conditions(Listing)
  PROVE  /\ Available(c) => c.statuses \subseteq HealthStatus
         /\ InOrder("haley", Listing, c) <=>
              Available(c) /\ c.statuses = {"healthy"}
<1>1. Listing \notin Probe
      BY AwarenessAssumption
<1>2. \/ \E l \in Lists : c = Value(l)
      \/ \E a \in {"empty", "refused", "rejects"} : c = Without(a)
      BY <1>1 DEF Conditions, Refusals
<1>3. InOrder("haley", Listing, c) <=> c = Value({"healthy"})
      BY Zenon DEF InOrder
<1>4. Value({"healthy"}).answer = "value" /\ Value({"healthy"}).statuses = {"healthy"}
      BY DEF Value
<1>5. ASSUME NEW l \in Lists, c = Value(l)
      PROVE  /\ Available(c) /\ c.statuses \subseteq HealthStatus
             /\ c = Value({"healthy"}) <=> c.statuses = {"healthy"}
  <2>1. c.answer = "value" /\ c.statuses = l
        BY <1>5 DEF Value
  <2> QED BY <1>4, <1>5, <2>1, AwarenessAssumption DEF Available
<1>6. ASSUME NEW a \in {"empty", "refused", "rejects"}, c = Without(a)
      PROVE  ~Available(c) /\ c # Value({"healthy"})
  <2>1. c.answer = a
        BY <1>6 DEF Without
  <2> QED BY <1>4, <2>1 DEF Available
<1> QED BY <1>2, <1>3, <1>5, <1>6

(* The three reports are backed by the answers they are joined from.       *)
LEMMA Joined ==
  ASSUME TypeOK, NEW i \in Inspection, Heard(i),
         \A s \in Reads(kind[i]) : got[i][s] # Unread
  PROVE  Supported(i, Report(kind[i], got[i]))
<1> DEFINE g == got[i]
<1>1. \A s \in Reads(kind[i]) : g[s] \in Conditions(s) /\ g[s] \in during[i][s]
      BY ReadsAreAsked DEF TypeOK, Heard
<1>2. \A s \in Reads(kind[i]) :
        IF InOrder(kind[i], s, g[s]) THEN Was(i, s) ELSE WasNot(i, s)
      BY <1>1, Zenon DEF Was, WasNot
<1> HIDE DEF g
<1>3. CASE kind[i] = "health"
  <2>1. Reads(kind[i]) = Probe
        BY <1>3 DEF Reads
  <2>2. \A p \in Probe : ProbeHealthy(g[p]) <=> InOrder(kind[i], p, g[p])
        BY <1>1, <1>3, <2>1, ProbeOrder
  <2>3. \A p \in Probe : IF ProbeHealthy(g[p]) THEN Was(i, p) ELSE WasNot(i, p)
        BY <1>2, <2>1, <2>2
  <2>4. Supported(i, HealthReport(g))
        BY <1>3, <2>1, <2>3, AwarenessAssumption DEF HealthReport, Supported
  <2> QED BY <1>3, <2>4 DEF Report, g
<1>4. CASE kind[i] = "haley"
  <2>1. Reads(kind[i]) = Plain \cup {Listing} /\ Reads("haley") = Plain \cup {Listing}
        BY <1>4 DEF Reads
  <2>2. \A s \in Plain : Available(g[s]) <=> InOrder(kind[i], s, g[s])
        BY <1>1, <1>4, <2>1, PlainOrder
  <2>3. /\ Available(g[Listing]) => g[Listing].statuses \subseteq HealthStatus
        /\ InOrder(kind[i], Listing, g[Listing]) <=>
             Available(g[Listing]) /\ g[Listing].statuses = {"healthy"}
        BY <1>1, <1>4, <2>1, ListingOrder
  <2> DEFINE diagnosed == \E s \in Reads("haley") : ~Available(g[s])
             statuses == IF Available(g[Listing]) THEN g[Listing].statuses ELSE {}
  <2>4. diagnosed => \E s \in Reads(kind[i]) : WasNot(i, s)
        BY <1>2, <2>1, <2>2, <2>3
  <2>5. statuses # {"healthy"} => WasNot(i, Listing)
        BY <1>2, <2>1, <2>3
  <2>6. statuses \subseteq HealthStatus
        BY <2>3
  <2>7. ~diagnosed /\ statuses = {"healthy"} => \A s \in Reads(kind[i]) : Was(i, s)
        BY <1>2, <2>1, <2>2, <2>3
  <2>8. "unhealthy" \in statuses => \E c \in during[i][Listing] : "unhealthy" \in c.statuses
        BY <1>1, <2>1
  <2>9. HaleyReport(g) =
          IF "unhealthy" \in statuses THEN "unhealthy"
          ELSE IF diagnosed \/ "degraded" \in statuses THEN "degraded"
          ELSE IF statuses = {} \/ "unknown" \in statuses THEN "unknown"
          ELSE "healthy"
        BY DEF HaleyReport
  <2> HIDE DEF diagnosed, statuses
  <2>10. Supported(i, HaleyReport(g))
    <3>1. CASE HaleyReport(g) = "healthy"
      <4>1. ~diagnosed /\ statuses = {"healthy"}
            BY <2>6, <2>9, <3>1 DEF HealthStatus
      <4> QED BY <2>7, <3>1, <4>1 DEF Supported
    <3>2. CASE HaleyReport(g) # "healthy"
      <4>1. diagnosed \/ statuses # {"healthy"}
            BY <2>9, <3>2
      <4>2. \E s \in Reads(kind[i]) : WasNot(i, s)
            BY <2>1, <2>4, <2>5, <4>1
      <4>3. HaleyReport(g) = "unhealthy" => "unhealthy" \in statuses
            BY <2>9
      <4>4. HaleyReport(g) # "available"
            BY <2>9
      <4> QED BY <1>4, <2>8, <3>2, <4>2, <4>3, <4>4 DEF Supported
    <3> QED BY <3>1, <3>2
  <2> QED BY <1>4, <2>10 DEF Report, g
<1>5. CASE kind[i] \notin {"health", "haley"}
  <2>1. Reads(kind[i]) = Panel
        BY <1>5 DEF Reads
  <2>2. \A s \in Panel : g[s].answer \in {"value", "empty"} <=> InOrder(kind[i], s, g[s])
        BY <1>5, Zenon DEF InOrder
  <2>3. Supported(i, DashboardReport(g))
        BY <1>2, <1>5, <2>1, <2>2 DEF DashboardReport, Supported
  <2> QED BY <1>5, <2>3 DEF Report, g
<1> QED BY <1>3, <1>4, <1>5

(* So is the error of a dashboard one of whose reads rejected.             *)
LEMMA Failed ==
  ASSUME TypeOK, NEW i \in Inspection, Heard(i), kind[i] = "dashboard",
         NEW s \in Panel, got[i][s].answer = "rejects"
  PROVE  Supported(i, "error")
<1>1. s \in Reads(kind[i])
      BY DEF Reads
<1>2. got[i][s] \in during[i][s]
      BY <1>1 DEF Heard, Unread, Without
<1>3. ~InOrder(kind[i], s, got[i][s])
      BY DEF InOrder
<1>4. WasNot(i, s)
      BY <1>2, <1>3 DEF WasNot
<1> QED BY <1>1, <1>4 DEF Supported

-----------------------------------------------------------------------------
LEMMA Starts == Init => Inv
<1> SUFFICES ASSUME Init PROVE Inv
    OBVIOUS
<1>1. /\ condition \in [Asked -> Condition]
      /\ \A s \in Asked : condition[s] \in Conditions(s)
      BY DEF Init
<1>2. /\ got \in [Inspection -> [Asked -> Condition \cup {Unread}]]
      /\ \A i \in Inspection, s \in Asked : got[i][s] = Unread
      BY DEF Init
<1>3. /\ during \in [Inspection -> [Asked -> SUBSET Condition]]
      /\ \A i \in Inspection, s \in Asked : during[i][s] = {}
      BY DEF Init
<1>4. /\ changes \in 0..MaxChanges
      /\ kind \in [Inspection -> Kinds]
      /\ pc \in [Inspection -> {"idle", "reading", "answered"}]
      /\ hung \in [Inspection -> SUBSET Source]
      /\ told \in [Inspection -> Reports \cup {"nothing"}]
      BY AwarenessAssumption DEF Init
<1>5. TypeOK
      BY <1>1, <1>2, <1>3, <1>4, Zenon DEF TypeOK
<1>6. \A i \in Inspection : pc[i] = "idle"
      BY DEF Init
<1>7. \A i \in Inspection : Heard(i)
      BY <1>2, <1>6, ReadsAreAsked DEF Heard
<1> QED BY <1>5, <1>6, <1>7 DEF Inv, ReportsWereSeen

(* A source that changes adds to what it has been.                         *)
LEMMA ChangeKeeps ==
  ASSUME Inv, NEW s \in Source, Change(s)
  PROVE  Inv'
<1> USE DEF Inv
<1>1. PICK c \in Conditions(s) :
        /\ condition' = [condition EXCEPT ![s] = c]
        /\ during' = [i \in Inspection |->
                       IF pc[i] = "reading"
                         THEN [during[i] EXCEPT ![s] = @ \cup {c}] ELSE during[i]]
      BY Zenon DEF Change
<1>2. /\ s \in Asked
      /\ changes' = changes + 1 /\ changes < MaxChanges
      /\ UNCHANGED <<kind, pc, got, hung, told>>
      /\ Asked' = Asked
      BY DEF Change, Asked
<1>3. c \in Condition
      BY Widen
<1>4. /\ condition' \in [Asked -> Condition]
      /\ \A t \in Asked : condition'[t] \in Conditions(t)
      /\ \A t \in Asked : condition'[t] = IF t = s THEN c ELSE condition[t]
      BY <1>1, <1>2, <1>3 DEF TypeOK
<1>5. ASSUME NEW i \in Inspection
      PROVE  /\ during'[i] \in [Asked -> SUBSET Condition]
             /\ \A t \in Asked :
                  /\ during[i][t] \subseteq during'[i][t]
                  /\ during'[i][t] \subseteq Conditions(t)
                  /\ pc[i] = "reading" /\ t = s => c \in during'[i][t]
                  /\ pc[i] # "reading" => during'[i][t] = during[i][t]
  <2>1. during[i] \in [Asked -> SUBSET Condition]
        BY DEF TypeOK
  <2>2. \A t \in Asked : during[i][t] \subseteq Conditions(t)
        BY DEF TypeOK
  <2>3. during'[i] = IF pc[i] = "reading"
                       THEN [during[i] EXCEPT ![s] = @ \cup {c}] ELSE during[i]
        BY <1>1
  <2> QED BY <1>2, <1>3, <2>1, <2>2, <2>3
<1>6. during' \in [Inspection -> [Asked -> SUBSET Condition]]
  <2>1. during' = [i \in Inspection |-> during'[i]]
        BY <1>1
  <2> QED BY <1>5, <2>1
<1>7. TypeOK'
  <2>1. changes' \in 0..MaxChanges
        BY <1>2, AwarenessAssumption DEF TypeOK
  <2> QED BY <1>2, <1>4, <1>5, <1>6, <2>1 DEF TypeOK
<1>8. \A i \in Inspection : Heard(i)'
  <2> SUFFICES ASSUME NEW i \in Inspection PROVE Heard(i)'
      OBVIOUS
  <2>1. Heard(i) /\ Reads(kind[i]) \subseteq Asked /\ kind' = kind
        BY <1>2, ReadsAreAsked
  <2>2. \A t \in Reads(kind[i]) : got'[i][t] # Unread => got'[i][t] \in during'[i][t]
        BY <1>2, <1>5, <2>1 DEF Heard
  <2>3. pc'[i] = "reading" => \A t \in Reads(kind[i]) : condition'[t] \in during'[i][t]
        BY <1>2, <1>4, <1>5, <2>1 DEF Heard
  <2> QED BY <2>1, <2>2, <2>3 DEF Heard
<1>9. ReportsWereSeen'
  <2> SUFFICES ASSUME NEW i \in Inspection, pc[i] = "answered"
               PROVE  Supported(i, told[i])'
      BY <1>2 DEF ReportsWereSeen
  <2>1. during'[i] = during[i]
        BY <1>1
  <2> QED BY <1>2, <2>1 DEF ReportsWereSeen, Supported, Was, WasNot
<1> QED BY <1>7, <1>8, <1>9

(* The other steps leave the sources alone, and concern one inspection.    *)
LEMMA StepKeeps ==
  ASSUME Inv, NEW i \in Inspection,
         Begin(i) \/ (\E s \in Source : Sample(i, s) \/ Hang(i, s)) \/ Join(i) \/ Fail(i)
  PROVE  Inv'
<1> USE DEF Inv
<1>1. UNCHANGED <<condition, changes, kind>> /\ Asked' = Asked
      BY DEF Begin, Sample, Hang, Join, Fail, Asked
<1>2. /\ Reads(kind[i]) \subseteq Asked /\ Asked \subseteq Source
      /\ \A s \in Asked : condition[s] \in Conditions(s) /\ condition[s] \in Condition
      BY ReadsAreAsked, AskedAreSources DEF TypeOK
<1>3. ASSUME UNCHANGED <<during, got>>, pc' = pc, told' = told,
             hung' \in [Inspection -> SUBSET Source]
      PROVE  Inv'
  <2>1. TypeOK'
        BY <1>1, <1>3 DEF TypeOK
  <2>2. \A j \in Inspection : Heard(j)'
        BY <1>1, <1>3 DEF Heard
  <2>3. ReportsWereSeen'
        BY <1>1, <1>3 DEF ReportsWereSeen, Supported, Was, WasNot
  <2> QED BY <2>1, <2>2, <2>3
<1>4. CASE Begin(i)
  <2> DEFINE none == [s \in Asked |-> Unread]
             at == [s \in Asked |-> {condition[s]}]
  <2>1. none \in [Asked -> Condition \cup {Unread}] /\ \A s \in Asked : none[s] = Unread
        OBVIOUS
  <2>2. at \in [Asked -> SUBSET Condition] /\ \A s \in Asked : at[s] = {condition[s]}
        BY <1>2
  <2>3. got' = [got EXCEPT ![i] = none] /\ during' = [during EXCEPT ![i] = at]
        BY <1>4 DEF Begin
  <2> HIDE DEF none, at
  <2>4. TypeOK'
    <3>1. /\ got' \in [Inspection -> [Asked -> Condition \cup {Unread}]]
          /\ during' \in [Inspection -> [Asked -> SUBSET Condition]]
          BY <2>1, <2>2, <2>3 DEF TypeOK
    <3>2. /\ pc' \in [Inspection -> {"idle", "reading", "answered"}]
          /\ hung' \in [Inspection -> SUBSET Source]
          /\ told' \in [Inspection -> Reports \cup {"nothing"}]
          BY <1>4 DEF Begin, TypeOK
    <3>3. \A j \in Inspection, s \in Asked :
            /\ got'[j][s] \in Conditions(s) \cup {Unread}
            /\ during'[j][s] \subseteq Conditions(s)
          BY <1>2, <2>1, <2>2, <2>3 DEF TypeOK
    <3> QED BY <1>1, <3>1, <3>2, <3>3 DEF TypeOK
  <2>5. \A j \in Inspection : Heard(j)'
    <3>1. got'[i] = none /\ during'[i] = at
          BY <2>3 DEF TypeOK
    <3>2. Heard(i)'
          BY <1>1, <1>2, <2>1, <2>2, <3>1 DEF Heard
    <3>3. \A j \in Inspection \ {i} :
            got'[j] = got[j] /\ during'[j] = during[j] /\ pc'[j] = pc[j]
          BY <1>4, <2>3 DEF Begin, TypeOK
    <3>4. \A j \in Inspection \ {i} : Heard(j)'
          BY <1>1, <3>3 DEF Heard
    <3> QED BY <3>2, <3>4
  <2>6. ReportsWereSeen'
    <3>1. pc'[i] = "reading"
          BY <1>4 DEF Begin, TypeOK
    <3>2. \A j \in Inspection \ {i} :
            during'[j] = during[j] /\ pc'[j] = pc[j] /\ told'[j] = told[j]
          BY <1>4, <2>3 DEF Begin, TypeOK
    <3> QED BY <1>1, <3>1, <3>2 DEF ReportsWereSeen, Supported, Was, WasNot
  <2> QED BY <2>4, <2>5, <2>6
<1>5. ASSUME NEW s \in Source, Sample(i, s)
      PROVE  Inv'
  <2>1. /\ pc[i] = "reading" /\ s \in Reads(kind[i]) /\ s \in Asked
        /\ got' = [got EXCEPT ![i][s] = condition[s]]
        /\ UNCHANGED <<pc, hung, told, during>>
        BY <1>2, <1>5 DEF Sample, Outstanding
  <2>2. got' \in [Inspection -> [Asked -> Condition \cup {Unread}]]
        BY <1>2, <2>1 DEF TypeOK
  <2>3. \A j \in Inspection, t \in Asked :
          got'[j][t] = IF j = i /\ t = s THEN condition[s] ELSE got[j][t]
        BY <2>1 DEF TypeOK
  <2>4. TypeOK'
        BY <1>1, <1>2, <2>1, <2>2, <2>3 DEF TypeOK
  <2>5. \A j \in Inspection : Heard(j)'
        BY <1>1, <2>1, <2>3, ReadsAreAsked DEF Heard
  <2>6. ReportsWereSeen'
        BY <1>1, <2>1 DEF ReportsWereSeen, Supported, Was, WasNot
  <2> QED BY <2>4, <2>5, <2>6
<1>6. ASSUME NEW s \in Source, Hang(i, s)
      PROVE  Inv'
      BY <1>3, <1>6 DEF Hang, TypeOK
<1>7. ASSUME NEW report \in Reports, Supported(i, report),
             pc' = [pc EXCEPT ![i] = "answered"], told' = [told EXCEPT ![i] = report],
             UNCHANGED <<got, hung, during>>
      PROVE  Inv'
  <2>1. TypeOK'
        BY <1>1, <1>7 DEF TypeOK
  <2>2. \A j \in Inspection : pc'[j] = (IF j = i THEN "answered" ELSE pc[j]) /\
                              told'[j] = (IF j = i THEN report ELSE told[j])
        BY <1>7 DEF TypeOK
  <2>3. \A j \in Inspection : Heard(j)'
        BY <1>1, <1>7, <2>2 DEF Heard
  <2>4. ReportsWereSeen'
    <3> SUFFICES ASSUME NEW j \in Inspection, pc'[j] = "answered"
                 PROVE  Supported(j, told[j])'
        BY DEF ReportsWereSeen
    <3>1. Supported(j, told'[j])
          BY <1>7, <2>2 DEF ReportsWereSeen
    <3> QED BY <1>1, <1>7, <3>1 DEF Supported, Was, WasNot
  <2> QED BY <2>1, <2>3, <2>4
<1>8. CASE Join(i)
  <2>1. Report(kind[i], got[i]) \in Reports
        BY Zenon DEF Report, HealthReport, HaleyReport, DashboardReport, Reports, HealthStatus
  <2>2. Supported(i, Report(kind[i], got[i]))
        BY <1>8, Joined DEF Join
  <2> QED BY <1>7, <1>8, <2>1, <2>2 DEF Join
<1>9. CASE Fail(i)
  <2>1. PICK s \in Panel : got[i][s].answer = "rejects"
        BY <1>9 DEF Fail
  <2>2. Supported(i, "error")
        BY <1>9, <2>1, Failed DEF Fail
  <2> QED BY <1>7, <1>9, <2>2 DEF Fail, Reports
<1> QED BY <1>4, <1>5, <1>6, <1>8, <1>9

(* The invariant: what was answered to an inspection was so while it ran,  *)
(* and what it reported is backed by that.                                 *)
THEOREM Invariance == Spec => []Inv
<1>1. Inv /\ [Next]_vars => Inv'
  <2> SUFFICES ASSUME Inv, [Next]_vars PROVE Inv'
      OBVIOUS
  <2>1. ASSUME NEW s \in Source, Change(s) PROVE Inv'
        BY <2>1, ChangeKeeps
  <2>2. ASSUME NEW i \in Inspection,
               Begin(i) \/ (\E s \in Source : Sample(i, s) \/ Hang(i, s)) \/ Join(i) \/ Fail(i)
        PROVE  Inv'
        BY <2>2, StepKeeps
  <2>3. CASE UNCHANGED vars
    <3>1. Asked' = Asked
          BY <2>3 DEF vars, Asked
    <3>2. TypeOK'
          BY <2>3, <3>1 DEF Inv, vars, TypeOK
    <3>3. \A i \in Inspection : Heard(i)'
          BY <2>3 DEF Inv, vars, Heard
    <3>4. ReportsWereSeen'
          BY <2>3 DEF Inv, vars, ReportsWereSeen, Supported, Was, WasNot
    <3> QED BY <3>2, <3>3, <3>4 DEF Inv
  <2> QED BY <2>1, <2>2, <2>3 DEF Next
<1> QED BY Starts, <1>1, PTL DEF Spec

(* The reports and histories stay within their type.                       *)
THEOREM TypeCorrect == Spec => []TypeOK
BY Invariance, PTL DEF Inv

(* A report is backed by what its sources were while it was made.          *)
THEOREM ReportsBacked == Spec => []ReportsWereSeen
BY Invariance, PTL DEF Inv
=============================================================================

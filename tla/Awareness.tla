------------------------------ MODULE Awareness ------------------------------
(***************************************************************************)
(* What the platform says of itself.  Three operations ask many sources at *)
(* once and join what they answer while the sources change:                *)
(*                                                                         *)
(*   "health"     PlatformHealthService.checkDependencies, behind          *)
(*                /api/health and /api/health/ready: a probe per dependency*)
(*                (src/src/platform/observability/health.ts, routes.ts);   *)
(*   "haley"      DefaultHaleyCoreMonitor.inspect: eight reads through the *)
(*                Kernel, one of them the list of the components' health   *)
(*                (src/src/platform/haley-core/service.ts);                *)
(*   "dashboard"  OwnerOperationsService.getStatus: four reads through the *)
(*                Kernel (src/src/owner-operations/service.ts).            *)
(*                                                                         *)
(* There is no snapshot: each source is asked at an instant of its own, so *)
(* what is reported need not have been true at any instant.  Nor is there  *)
(* a timeout: a source that never answers may keep everyone waiting.       *)
(* Inspections share no state.  The sources are external.                  *)
(***************************************************************************)
EXTENDS Integers

CONSTANTS
  Inspection,   \* calls of the three operations
  Probe,        \* the dependencies of the health service
  Required,     \* those it cannot do without
  Panel,        \* the Kernel's targets the dashboard reads
  Plain,        \* those Haley reads, except
  Listing,      \* the target that lists the components' health
  Lists,        \* what it may list, as sets of statuses
  MaxChanges,   \* bound: how often a source changes
  Faults        \* what may go wrong

FaultKinds == {"hang"}    \* a source never answers

HealthStatus == {"healthy", "degraded", "unhealthy", "unknown"}
Kinds == {"health", "haley", "dashboard"}

ASSUME AwarenessAssumption ==
  /\ Required \subseteq Probe
  /\ Probe \cap (Plain \cup Panel) = {}
  /\ Listing \notin Probe \cup Plain \cup Panel
  /\ Lists \subseteq SUBSET HealthStatus
  /\ MaxChanges \in Nat
  /\ Faults \subseteq FaultKinds

VARIABLES
  condition,    \* how each source would answer now
  changes,      \* how often they changed
  kind, pc,     \* each inspection: what it is, and how far it came
  got,          \* what the sources have answered to it
  hung,         \* the sources that will never answer it
  told,         \* what it reports
  during        \* history: the conditions of each source while it ran

vars == <<condition, changes, kind, pc, got, hung, told, during>>

Source == Probe \cup Panel \cup Plain \cup {Listing}
Reads(k) ==
  CASE k = "health" -> Probe
    [] k = "haley" -> Plain \cup {Listing}
    [] OTHER -> Panel

(* A source answers with statuses (a probe with its own, a target of the   *)
(* Kernel with none, the listing with those it lists), is accepted but     *)
(* brings no result, is not accepted, or rejects.                          *)
Value(statuses) == [answer |-> "value", statuses |-> statuses]
Without(answer) == [answer |-> answer, statuses |-> {}]
Unread == Without("unread")

Refusals == {Without(a) : a \in {"empty", "refused", "rejects"}}
Conditions(s) ==
  IF s \in Probe THEN {Value({h}) : h \in HealthStatus} \cup {Without("rejects")}
  ELSE IF s = Listing THEN {Value(l) : l \in Lists} \cup Refusals
  ELSE {Value({})} \cup Refusals

Condition == UNION {Conditions(s) : s \in Source}

(* The sources somebody asks; how the others are does not matter.          *)
Asked == UNION {Reads(kind[i]) : i \in Inspection}

Reports == HealthStatus \cup {"available", "unavailable", "error"}

TypeOK ==
  /\ condition \in [Asked -> Condition]
  /\ \A s \in Asked : condition[s] \in Conditions(s)
  /\ changes \in 0..MaxChanges
  /\ kind \in [Inspection -> Kinds]
  /\ pc \in [Inspection -> {"idle", "reading", "answered"}]
  /\ got \in [Inspection -> [Asked -> Condition \cup {Unread}]]
  /\ \A i \in Inspection, s \in Asked : got[i][s] \in Conditions(s) \cup {Unread}
  /\ hung \in [Inspection -> SUBSET Source]
  /\ told \in [Inspection -> Reports \cup {"nothing"}]
  /\ during \in [Inspection -> [Asked -> SUBSET Condition]]
  /\ \A i \in Inspection, s \in Asked : during[i][s] \subseteq Conditions(s)

Init ==
  /\ kind \in [Inspection -> Kinds]
  /\ condition \in {c \in [Asked -> Condition] : \A s \in Asked : c[s] \in Conditions(s)}
  /\ changes = 0
  /\ pc = [i \in Inspection |-> "idle"]
  /\ got = [i \in Inspection |-> [s \in Asked |-> Unread]]
  /\ hung = [i \in Inspection |-> {}]
  /\ told = [i \in Inspection |-> "nothing"]
  /\ during = [i \in Inspection |-> [s \in Asked |-> {}]]

-----------------------------------------------------------------------------
Change(s) ==
  /\ s \in Asked
  /\ changes < MaxChanges
  /\ changes' = changes + 1
  /\ \E c \in Conditions(s) :
       /\ condition' = [condition EXCEPT ![s] = c]
       /\ during' = [i \in Inspection |->
                      IF pc[i] = "reading"
                        THEN [during[i] EXCEPT ![s] = @ \cup {c}] ELSE during[i]]
  /\ UNCHANGED <<kind, pc, got, hung, told>>

(* All reads are begun before any is awaited.                              *)
Begin(i) ==
  /\ pc[i] # "reading"
  /\ pc' = [pc EXCEPT ![i] = "reading"]
  /\ got' = [got EXCEPT ![i] = [s \in Asked |-> Unread]]
  /\ hung' = [hung EXCEPT ![i] = {}]
  /\ told' = [told EXCEPT ![i] = "nothing"]
  /\ during' = [during EXCEPT ![i] = [s \in Asked |-> {condition[s]}]]
  /\ UNCHANGED <<condition, changes, kind>>

Outstanding(i, s) ==
  /\ pc[i] = "reading"
  /\ s \in Reads(kind[i]) \ hung[i]
  /\ got[i][s] = Unread

(* Variant: the answers are joined in another order than they were asked.  *)
SampleElsewhere(i, s) ==
  /\ Outstanding(i, s)
  /\ \E t \in Reads(kind[i]) : got' = [got EXCEPT ![i][t] = condition[s]]
  /\ UNCHANGED <<condition, changes, kind, pc, hung, told, during>>

(* A source answers.  (What it answers to an inspection that has reported  *)
(* already is dropped, and not modelled.)                                  *)
Sample(i, s) ==
  /\ Outstanding(i, s)
  /\ got' = [got EXCEPT ![i][s] = condition[s]]
  /\ UNCHANGED <<condition, changes, kind, pc, hung, told, during>>

Hang(i, s) ==
  /\ "hang" \in Faults
  /\ Outstanding(i, s)
  /\ hung' = [hung EXCEPT ![i] = @ \cup {s}]
  /\ UNCHANGED <<condition, changes, kind, pc, got, told, during>>

-----------------------------------------------------------------------------
(* A probe that rejects is unhealthy.                                      *)
ProbeHealthy(c) == c.answer # "rejects" /\ "healthy" \in c.statuses

(* aggregateStatus of the health service.                                  *)
HealthReport(g) ==
  IF \E p \in Required : ~ProbeHealthy(g[p]) THEN "unhealthy"
  ELSE IF \E p \in Probe : ~ProbeHealthy(g[p]) THEN "degraded"
  ELSE "healthy"

(* Variant: a result that is missing is not asked for.                     *)
AvailableEmpty(c) == c.answer \in {"value", "empty"}

(* DefaultHaleyCoreMonitor.read: anything else leaves a diagnostic.        *)
Available(c) == c.answer = "value"

(* aggregateStatus of the monitor; a listing that is not available lists   *)
(* nothing.                                                                *)
HaleyReport(g) ==
  LET diagnosed == \E s \in Reads("haley") : ~Available(g[s])
      statuses == IF Available(g[Listing]) THEN g[Listing].statuses ELSE {}
  IN  IF "unhealthy" \in statuses THEN "unhealthy"
      ELSE IF diagnosed \/ "degraded" \in statuses THEN "degraded"
      ELSE IF statuses = {} \/ "unknown" \in statuses THEN "unknown"
      ELSE "healthy"

DashboardReport(g) ==
  IF \A s \in Panel : g[s].answer \in {"value", "empty"} THEN "available" ELSE "unavailable"

Report(k, g) ==
  CASE k = "health" -> HealthReport(g)
    [] k = "haley" -> HaleyReport(g)
    [] OTHER -> DashboardReport(g)

(* The join, once every source has answered.  Rejections reach only the    *)
(* dashboard's.                                                            *)
Join(i) ==
  /\ pc[i] = "reading"
  /\ \A s \in Reads(kind[i]) : got[i][s] # Unread
  /\ kind[i] = "dashboard" => \A s \in Panel : got[i][s].answer # "rejects"
  /\ pc' = [pc EXCEPT ![i] = "answered"]
  /\ told' = [told EXCEPT ![i] = Report(kind[i], got[i])]
  /\ UNCHANGED <<condition, changes, kind, got, hung, during>>

(* Variant: the error waits until all reads are settled.                   *)
FailSettled(i) ==
  /\ pc[i] = "reading"
  /\ kind[i] = "dashboard"
  /\ \A s \in Panel : got[i][s] # Unread
  /\ \E s \in Panel : got[i][s].answer = "rejects"
  /\ pc' = [pc EXCEPT ![i] = "answered"]
  /\ told' = [told EXCEPT ![i] = "error"]
  /\ UNCHANGED <<condition, changes, kind, got, hung, during>>

(* The first read that rejects ends the dashboard's join, and the route    *)
(* answers with an error; the other reads are left to themselves.          *)
Fail(i) ==
  /\ pc[i] = "reading"
  /\ kind[i] = "dashboard"
  /\ \E s \in Panel : got[i][s].answer = "rejects"
  /\ pc' = [pc EXCEPT ![i] = "answered"]
  /\ told' = [told EXCEPT ![i] = "error"]
  /\ UNCHANGED <<condition, changes, kind, got, hung, during>>

Next ==
  \/ \E s \in Source : Change(s)
  \/ \E i \in Inspection : Begin(i) \/ Join(i) \/ Fail(i)
  \/ \E i \in Inspection, s \in Source : Sample(i, s) \/ Hang(i, s)

(* A source that does not hang answers, and what is complete is joined.    *)
Fairness ==
  /\ \A i \in Inspection : WF_vars(Join(i)) /\ WF_vars(Fail(i))
  /\ \A i \in Inspection, s \in Source : WF_vars(Sample(i, s))

Spec == Init /\ [][Next]_vars /\ Fairness

-----------------------------------------------------------------------------
(* What a reader of a report takes a source in order to be.                *)
InOrder(k, s, c) ==
  CASE k = "health" -> c = Value({"healthy"})
    [] k = "haley" -> IF s = Listing THEN c = Value({"healthy"}) ELSE c = Value({})
    [] OTHER -> c.answer \in {"value", "empty"}

Was(i, s) == \E c \in during[i][s] : InOrder(kind[i], s, c)
WasNot(i, s) == \E c \in during[i][s] : ~InOrder(kind[i], s, c)

Supported(i, report) ==
  IF report \in {"healthy", "available"}
    THEN \A s \in Reads(kind[i]) : Was(i, s)
    ELSE /\ \E s \in Reads(kind[i]) : WasNot(i, s)
         /\ kind[i] = "health" /\ report = "unhealthy" => \E s \in Required : WasNot(i, s)
         /\ kind[i] = "health" /\ report = "degraded" => \A s \in Required : Was(i, s)
         /\ kind[i] = "haley" /\ report = "unhealthy" =>
              \E c \in during[i][Listing] : "unhealthy" \in c.statuses

(* Each source had its part in a report at some instant while it was made. *)
(* A report of health was preceded, during the inspection, by a moment when*)
(* each source was in order, and any other report by one when some source  *)
(* was not.  "unhealthy" takes a required dependency that was not healthy, *)
(* or a component that was listed as such; a service that is merely        *)
(* degraded had each required dependency healthy.                          *)
ReportsWereSeen ==
  \A i \in Inspection : pc[i] = "answered" => Supported(i, told[i])

(* Every inspection is answered, unless a source of it hangs for ever; and *)
(* the dashboard even then, once another source has rejected.              *)
Rejected(i) ==
  kind[i] = "dashboard" /\ \E s \in Panel : got[i][s].answer = "rejects"
EveryInspectionAnswered ==
  \A i \in Inspection :
    pc[i] = "reading" ~> (pc[i] = "answered" \/ (hung[i] # {} /\ ~Rejected(i)))
=============================================================================

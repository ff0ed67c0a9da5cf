---------------------------- MODULE KernelGateway ----------------------------
(***************************************************************************)
(* One process of the platform core: DefaultKernelGateway                  *)
(* (src/src/platform/kernel/gateway.ts) routes every operation to a        *)
(* component port, after AuditedPermissionEngine                           *)
(* (src/src/platform/audit/audited-permission-engine.ts) has put the       *)
(* policy's decision on record.  Requests run concurrently and interleave  *)
(* at every await: events, decision, audit records, the port's work.       *)
(*                                                                         *)
(* The audit store is the one of module AuditLog, of which a request sees  *)
(* whether its append was acknowledged: a rejected append may still have   *)
(* put its line in the file, and a torn line seals the log for good.       *)
(***************************************************************************)
CONSTANTS
  Request,      \* calls of execute (read is execute with a query)
  Port,         \* component ports
  Faults        \* what may go wrong

FaultKinds ==
  {"event",     \* a subscriber rejects an event
   "resolve",   \* the subject of the request cannot be resolved
   "handle",    \* a port rejects, its transaction rolled back
   "commit",    \* a port rejects although its transaction committed
   "audit",     \* an append is rejected
   "crash"}     \* the process dies

ASSUME FaultsAssumption == Faults \subseteq FaultKinds

VARIABLES
  ports,        \* the registered ports
  target,       \* the port each request names
  pc,           \* the await each request is at, or how it was answered
  effect,       \* the requests whose work at the port took effect
  records,      \* what the audit log holds about each request
  sealed        \* the log ends in a torn line and rejects every append

vars == <<ports, target, pc, effect, records, sealed>>

Kind == {"allowed", "denied", "succeeded", "failed"}

Running ==
  {"requested", "evaluate", "recordAllowed", "recordDenied", "allowed", "refused",
   "handle", "recordSucceeded", "succeeded", "recordFailed", "failing",
   "recordUnavailable"}
Answered == {"accepted", "denied", "unavailable", "failed", "rejected", "lost"}

TypeOK ==
  /\ ports \in SUBSET Port
  /\ target \in [Request -> Port]
  /\ pc \in [Request -> {"idle"} \cup Running \cup Answered]
  /\ effect \in SUBSET Request
  /\ records \in [Request -> SUBSET Kind]
  /\ sealed \in BOOLEAN

Init ==
  /\ ports = {}
  /\ target \in [Request -> Port]
  /\ pc = [r \in Request |-> "idle"]
  /\ effect = {}
  /\ records = [r \in Request |-> {}]
  /\ sealed = FALSE

-----------------------------------------------------------------------------
Goto(r, from, to) ==
  /\ pc[r] = from
  /\ pc' = [pc EXCEPT ![r] = to]

(* A port registers once.                                                  *)
Register(p) ==
  /\ p \notin ports
  /\ ports' = ports \cup {p}
  /\ UNCHANGED <<target, pc, effect, records, sealed>>

Execute(r) ==
  /\ Goto(r, "idle", "requested")
  /\ UNCHANGED <<ports, target, effect, records, sealed>>

(* Publishing waits for every subscriber and rejects when one of them does.*)
Publish(r, from, next, thrown) ==
  /\ \/ Goto(r, from, next)
     \/ "event" \in Faults /\ Goto(r, from, thrown)
  /\ UNCHANGED <<ports, target, effect, records, sealed>>

(* An append is acknowledged, or rejected: before anything was written,    *)
(* with its line in the file all the same, or with the file torn.  The     *)
(* process dying within an append leaves what such a rejection leaves.     *)
Record(r, kind, from, next, thrown) ==
  /\ \/ /\ ~sealed
        /\ Goto(r, from, next)
        /\ records' = [records EXCEPT ![r] = @ \cup {kind}]
        /\ UNCHANGED sealed
     \/ /\ sealed \/ "audit" \in Faults
        /\ Goto(r, from, thrown)
        /\ \/ UNCHANGED <<records, sealed>>
           \/ ~sealed /\ records' = [records EXCEPT ![r] = @ \cup {kind}] /\ UNCHANGED sealed
           \/ ~sealed /\ sealed' = TRUE /\ UNCHANGED records
  /\ UNCHANGED <<ports, target, effect>>

-----------------------------------------------------------------------------
PublishRequested(r) == Publish(r, "requested", "evaluate", "rejected")

(* The policy resolves the subject and decides: an error of the resolver   *)
(* is an error of the request.                                             *)
Evaluate(r) ==
  /\ \/ Goto(r, "evaluate", "recordAllowed")
     \/ Goto(r, "evaluate", "recordDenied")
     \/ "resolve" \in Faults /\ Goto(r, "evaluate", "rejected")
  /\ UNCHANGED <<ports, target, effect, records, sealed>>

(* Variants: a permission that cannot be recorded is used all the same, or *)
(* recorded again; a denial is recorded by the name of its effect.         *)
RecordAllowedOpen(r) == Record(r, "allowed", "recordAllowed", "allowed", "allowed")
RecordAllowedRetrying(r) ==
  Record(r, "allowed", "recordAllowed", "allowed", "recordAllowed")
RecordDeniedAsEffect(r) == Record(r, "deny", "recordDenied", "refused", "rejected")

(* No decision leaves the engine before it is on record.                   *)
RecordAllowed(r) == Record(r, "allowed", "recordAllowed", "allowed", "rejected")
RecordDenied(r) == Record(r, "denied", "recordDenied", "refused", "rejected")

(* An allowed request goes to its port, if that is registered and has the  *)
(* capability; the lookup follows the event without another await.         *)
PublishAllowed(r) ==
  \/ target[r] \in ports /\ Publish(r, "allowed", "handle", "rejected")
  \/ Publish(r, "allowed", "recordUnavailable", "rejected")

PublishRefused(r) == Publish(r, "refused", "denied", "rejected")

RecordUnavailable(r) ==
  Record(r, "failed", "recordUnavailable", "unavailable", "rejected")

(* Variant: a port's rejection is taken for an answer.                     *)
HandleSwallowing(r) ==
  /\ Goto(r, "handle", "recordSucceeded")
  /\ \/ effect' = effect \cup {r}
     \/ "handle" \in Faults /\ UNCHANGED effect
  /\ UNCHANGED <<ports, target, records, sealed>>

(* Variant: a port that rejects is reported as unavailable.                *)
HandleUnavailable(r) ==
  /\ \/ /\ Goto(r, "handle", "recordSucceeded")
        /\ effect' = effect \cup {r}
     \/ /\ "handle" \in Faults
        /\ Goto(r, "handle", "recordUnavailable")
        /\ UNCHANGED effect
     \/ /\ "commit" \in Faults
        /\ Goto(r, "handle", "recordUnavailable")
        /\ effect' = effect \cup {r}
  /\ UNCHANGED <<ports, target, records, sealed>>

(* The port's transaction commits or rolls back, and the port answers or   *)
(* rejects.                                                                *)
Handle(r) ==
  /\ \/ /\ Goto(r, "handle", "recordSucceeded")
        /\ effect' = effect \cup {r}
     \/ /\ "handle" \in Faults
        /\ Goto(r, "handle", "recordFailed")
        /\ UNCHANGED effect
     \/ /\ "commit" \in Faults
        /\ Goto(r, "handle", "recordFailed")
        /\ effect' = effect \cup {r}
  /\ UNCHANGED <<ports, target, records, sealed>>

(* Variant: a success that cannot be recorded is published all the same.   *)
RecordSucceededIgnored(r) ==
  Record(r, "succeeded", "recordSucceeded", "succeeded", "succeeded")

(* Whatever rejects from the port's call on is caught and reported as a    *)
(* failure of the operation.                                               *)
RecordSucceeded(r) ==
  Record(r, "succeeded", "recordSucceeded", "succeeded", "recordFailed")
PublishSucceeded(r) == Publish(r, "succeeded", "accepted", "recordFailed")

(* Inside the handler nothing is caught any more.                          *)
RecordFailed(r) == Record(r, "failed", "recordFailed", "failing", "rejected")
PublishFailed(r) == Publish(r, "failing", "failed", "rejected")

(* The process dies, and starts again with no port registered.             *)
Crash ==
  /\ "crash" \in Faults
  /\ pc' = [r \in Request |-> IF pc[r] \in Running THEN "lost" ELSE pc[r]]
  /\ ports' = {}
  /\ UNCHANGED <<target, effect, records, sealed>>

Proceed(r) ==
  \/ PublishRequested(r) \/ Evaluate(r)
  \/ RecordAllowed(r) \/ RecordDenied(r)
  \/ PublishAllowed(r) \/ PublishRefused(r) \/ RecordUnavailable(r)
  \/ Handle(r)
  \/ RecordSucceeded(r) \/ PublishSucceeded(r)
  \/ RecordFailed(r) \/ PublishFailed(r)

Next ==
  \/ \E p \in Port : Register(p)
  \/ \E r \in Request : Execute(r) \/ Proceed(r)
  \/ Crash

Spec == Init /\ [][Next]_vars

(* Every event, append and port call settles.                              *)
Fairness == \A r \in Request : WF_vars(Proceed(r))

FairSpec == Spec /\ Fairness

-----------------------------------------------------------------------------
(* The log never claims what did not happen: a success on record took      *)
(* effect, under a permission on record, and who was denied did nothing.   *)
RecordsAreTrue ==
  \A r \in Request :
    /\ "succeeded" \in records[r] => r \in effect
    /\ r \in effect => "allowed" \in records[r] /\ "denied" \notin records[r]

(* "Privileged operation outcomes require append-only audit records"       *)
(* (docs/security/audit-integrity.md): an operation that took effect and   *)
(* whose caller has an answer has an outcome on record.                    *)
OutcomeOnRecord ==
  \A r \in effect :
    pc[r] \in Answered \ {"lost"} => records[r] \cap {"succeeded", "failed"} # {}

(* What a caller is told agrees with the log, also when subscribers, the   *)
(* port or the log failed on the way.                                      *)
AnswersMatchRecords ==
  \A r \in Request :
    /\ pc[r] = "accepted" => {"allowed", "succeeded"} \subseteq records[r]
    /\ pc[r] = "denied" => records[r] = {"denied"}
    /\ pc[r] = "unavailable" => records[r] = {"allowed", "failed"}
    /\ pc[r] = "failed" => {"allowed", "failed"} \subseteq records[r]

(* Once the log is sealed no request is permitted any more: what still     *)
(* takes effect had its permission on record before.                       *)
SealedGrantsNothing ==
  [][ sealed => \A r \in Request :
        "allowed" \notin records[r] => "allowed" \notin records'[r] /\ r \notin effect' ]_vars

(* Every call of execute settles, also with a sealed log and failing       *)
(* subscribers.                                                            *)
EveryRequestAnswered ==
  \A r \in Request : pc[r] = "requested" ~> pc[r] \in Answered

(* The gateway implements the abstract operation.                          *)
Told(r) == IF pc[r] \in Answered THEN pc[r] ELSE "nothing"

Guarded == INSTANCE GuardedOperation WITH
  permitted <- {r \in Request : "allowed" \in records[r]},
  done <- effect,
  told <- [r \in Request |-> Told(r)]

ImplementsGuarded == Guarded!Spec
=============================================================================

--------------------------- MODULE OwnerOperations ---------------------------
(***************************************************************************)
(* From an Owner's session to an effect.  A request to change a feature    *)
(* flag passes the session authentication                                  *)
(* (src/src/identity/owner-session-authentication.ts), the route           *)
(* (src/src/owner-operations/routes.ts), the service (.../service.ts), the *)
(* Kernel and its policy (src/src/platform/permissions/policy.ts); another *)
(* one is guarded by the policy alone (.../permissions/middleware.ts).     *)
(* The session ages, is reauthenticated and revoked meanwhile: each stage  *)
(* awaits, and works with what the stages before it have read.             *)
(*                                                                         *)
(* The Kernel is what module GuardedOperation promises of it, which module *)
(* KernelGateway is shown to implement; the policy's decision is what it   *)
(* permits.  The session store and the resolver of subjects are external.  *)
(***************************************************************************)
EXTENDS Integers

CONSTANTS
  Request,      \* HTTP requests
  Sessions,     \* the sessions a run may start with
  MaxAge,       \* OWNER_REAUTHENTICATION_MAX_AGE_MS
  MaxTime,      \* bound: the clock stops here
  Faults        \* what may go wrong

FaultKinds ==
  {"reject",    \* an awaited call rejects
   "crash"}     \* the process dies

Never == -1
Role == {"owner", "operational-administrator", "none"}

(* What a subject is known for; a session is the subject it authenticated, *)
(* its status and its limits.                                              *)
Subject ==
  [role : Role, multiFactor : BOOLEAN, capable : BOOLEAN, reauthenticatedAt : Int]
Session ==
  [status : {"active", "revoked", "expired"}, subject : Subject,
   authenticatedAt : Int, expiresAt : Int]

(* No session starts reauthenticated.                                      *)
ASSUME OperationsAssumption ==
  /\ Sessions \subseteq Session
  /\ \A s \in Sessions : s.subject.reauthenticatedAt = Never
  /\ MaxAge \in Nat
  /\ MaxTime \in Nat
  /\ Faults \subseteq FaultKinds

VARIABLES
  now,          \* the clock
  session,      \* the Owner's session in its store
  proofs,       \* history: when the Owner was reauthenticated
  pc,           \* the await each request is at, or how it was answered
  held,         \* what each request brought and what was read for it
  permitted, done, told   \* the Kernel

kernel == <<permitted, done, told>>
vars == <<now, session, proofs, pc, held, kernel>>

Kernel == INSTANCE GuardedOperation

Running ==
  {"verify", "requested", "resolve", "allowed", "refused", "permitted", "performed",
   "query"}
Answered ==
  {"ok", "unauthenticated", "forbidden", "invalid", "notAccepted", "error", "passed",
   "lost"}

(* A request brings its path, the kind of rule its operation falls under   *)
(* ("none" is in no rule, or names another capability than the rule's), who*)
(* acts, the CSRF token and a reason or not, which for a route stands for  *)
(* its whole body: a value to set and a reason.  Read for it are the time  *)
(* it was made at, the subject of its session, and the decision's time.    *)
(* For the properties only: whether its session was live when it came.     *)
Held ==
  [path : {"route", "guard"}, rule : {"read", "reserved", "none"},
   actor : {"owner", "service"}, csrf : BOOLEAN, reason : BOOLEAN,
   requestedAt : Int, subject : Subject, decidedAt : Int, live : BOOLEAN]
Nobody ==
  [role |-> "none", multiFactor |-> FALSE, capable |-> FALSE, reauthenticatedAt |-> Never]
Unread ==
  [path |-> "route", rule |-> "none", actor |-> "owner", csrf |-> FALSE, reason |-> FALSE,
   requestedAt |-> 0, subject |-> Nobody, decidedAt |-> 0, live |-> FALSE]

TypeOK ==
  /\ now \in 0..MaxTime
  /\ session \in Session
  /\ proofs \in SUBSET (0..MaxTime)
  /\ pc \in [Request -> {"idle"} \cup Running \cup Answered]
  /\ held \in [Request -> Held]
  /\ permitted \in SUBSET Request
  /\ done \in SUBSET Request
  /\ told \in [Request -> {"nothing"} \cup Kernel!Answers]

Init ==
  /\ now = 0
  /\ session \in Sessions
  /\ proofs = {}
  /\ pc = [r \in Request |-> "idle"]
  /\ held = [r \in Request |-> Unread]
  /\ Kernel!Init

-----------------------------------------------------------------------------
Goto(r, from, to) ==
  /\ pc[r] = from
  /\ pc' = [pc EXCEPT ![r] = to]

Tick ==
  /\ now < MaxTime
  /\ now' = now + 1
  /\ UNCHANGED <<session, proofs, pc, held, kernel>>

(* isValidOwnerEvidence.                                                   *)
Valid(evidence, at) ==
  /\ evidence.status = "active"
  /\ evidence.subject.role = "owner"
  /\ evidence.subject.multiFactor
  /\ evidence.authenticatedAt <= at
  /\ evidence.expiresAt > at

(* The store reauthenticates a valid session, marks one expired, or        *)
(* revokes it: a revoked session stays revoked.                            *)
Reauthenticate ==
  /\ Valid(session, now)
  /\ session' = [session EXCEPT !.subject.reauthenticatedAt = now]
  /\ proofs' = proofs \cup {now}
  /\ UNCHANGED <<now, pc, held, kernel>>

Expire ==
  /\ session.status = "active"
  /\ session.expiresAt <= now
  /\ session' = [session EXCEPT !.status = "expired"]
  /\ UNCHANGED <<now, proofs, pc, held, kernel>>

RevokeSession ==
  /\ session.status # "revoked"
  /\ session' = [session EXCEPT !.status = "revoked"]
  /\ UNCHANGED <<now, proofs, pc, held, kernel>>

-----------------------------------------------------------------------------
(* A request comes, without a token or with the session's; the time it was *)
(* made at is sampled before the session is looked up.  A route's is to    *)
(* change a flag; what a guard is asked about is the application's choice. *)
Form ==
  [path : {"route"}, rule : {"reserved"}, actor : {"owner"}, csrf : BOOLEAN,
   reason : BOOLEAN] \cup
  [path : {"guard"}, rule : {"read", "reserved", "none"}, actor : {"owner", "service"},
   csrf : {FALSE}, reason : BOOLEAN]

Brings(f) ==
  [path |-> f.path, rule |-> f.rule, actor |-> f.actor, csrf |-> f.csrf,
   reason |-> f.reason, requestedAt |-> now, subject |-> Nobody, decidedAt |-> 0,
   live |-> Valid(session, now)]

Arrive(r) ==
  /\ \/ /\ Goto(r, "idle", "verify")
        /\ \E f \in Form : held' = [held EXCEPT ![r] = Brings(f)]
     \/ Goto(r, "idle", "unauthenticated") /\ UNCHANGED held
  /\ UNCHANGED <<now, session, proofs, kernel>>

(* Where a request goes whose session was found: the route checks the CSRF *)
(* token and the body, and enters the Kernel without another await.        *)
Admission(r) ==
  CASE held[r].path = "guard" -> "requested"
    [] held[r].path = "route" /\ ~held[r].csrf -> "forbidden"
    [] held[r].path = "route" /\ held[r].csrf /\ ~held[r].reason -> "invalid"
    [] OTHER -> "requested"

(* Variant: the session is taken for its subject.                          *)
VerifyWhole(r) ==
  /\ Goto(r, "verify", Admission(r))
  /\ Valid(session, held[r].requestedAt)
  /\ held' = [held EXCEPT ![r].subject = session]
  /\ UNCHANGED <<now, session, proofs, kernel>>

(* The subject of another kind of actor, authenticated elsewhere: it may   *)
(* hold any role, the Owner's included, with two factors and just now.     *)
Servant ==
  [role : Role, multiFactor : BOOLEAN, capable : BOOLEAN,
   reauthenticatedAt : {Never, now}]

(* The session is looked up, and valid for the time of the request or not. *)
Verify(r) ==
  /\ \/ /\ Goto(r, "verify", Admission(r))
        /\ held[r].actor = "owner"
        /\ Valid(session, held[r].requestedAt)
        /\ held' = [held EXCEPT ![r].subject = session.subject]
     \/ /\ Goto(r, "verify", Admission(r))
        /\ held[r].actor = "service"
        /\ \E s \in Servant : held' = [held EXCEPT ![r].subject = s]
     \/ /\ Goto(r, "verify", "unauthenticated")
        /\ held[r].actor = "owner" => ~Valid(session, held[r].requestedAt)
        /\ UNCHANGED held
     \/ /\ "reject" \in Faults
        /\ Goto(r, "verify", "error")
        /\ UNCHANGED held
  /\ UNCHANGED <<now, session, proofs, kernel>>

(* A call on the way rejects: the Kernel passes that on and the route      *)
(* answers with an error; the guard answers that permission is denied.     *)
Throws(r, from) ==
  /\ "reject" \in Faults
  /\ \/ /\ held[r].path = "route"
        /\ Goto(r, from, "error")
        /\ Kernel!Tell(r, "rejected")
        /\ from = "allowed" \/ permitted' = permitted
     \/ /\ held[r].path = "guard"
        /\ Goto(r, from, "forbidden")
        /\ UNCHANGED <<done, told>>
        /\ \/ UNCHANGED permitted
           \/ from = "allowed" /\ permitted' = permitted \cup {r}
  /\ UNCHANGED <<now, session, proofs, held>>

-----------------------------------------------------------------------------
(* The event that announces the request is published, and the policy       *)
(* samples the time of its decision before it asks for the subject.        *)
Decide(r) ==
  \/ /\ Goto(r, "requested", "resolve")
     /\ held' = [held EXCEPT ![r].decidedAt = now]
     /\ UNCHANGED <<now, session, proofs, kernel>>
  \/ Throws(r, "requested")

(* Variant: the age of the reauthentication is not asked for.              *)
FreshEver(subject, at) == subject.reauthenticatedAt # Never

(* validateOwnerReservedRequest on reauthentication.                       *)
Fresh(subject, at) ==
  /\ subject.reauthenticatedAt # Never
  /\ at - subject.reauthenticatedAt \in 0..MaxAge

(* PolicyPermissionEngine.evaluate and its matrix.                         *)
Allowed(request, subject) ==
  \/ /\ request.rule = "read"
     /\ \/ subject.role \in {"owner", "operational-administrator"}
        \/ request.actor = "service" /\ subject.capable
  \/ /\ request.rule = "reserved"
     /\ request.actor = "owner"
     /\ subject.role = "owner"
     /\ request.reason
     /\ subject.multiFactor
     /\ Fresh(subject, request.decidedAt)

(* The resolver knows nobody of that identifier (Nobody), the subject that *)
(* was authenticated, or what the store holds of an owner by now.          *)
Resolvable(r) ==
  {Nobody, held[r].subject} \cup
  {s \in {session.subject} : held[r].actor = "owner"}

Resolve(r) ==
  \/ /\ \E s \in Resolvable(r) :
          Goto(r, "resolve", IF Allowed(held[r], s) THEN "allowed" ELSE "refused")
     /\ UNCHANGED <<now, session, proofs, held, kernel>>
  \/ Throws(r, "resolve")

(* The decision is put on record before it is used.                        *)
Permit(r) ==
  \/ /\ Goto(r, "allowed", "permitted")
     /\ Kernel!Permit(r)
     /\ UNCHANGED <<now, session, proofs, held>>
  \/ Throws(r, "allowed")

(* The registry of flags commits the change, and waits for nothing that    *)
(* was read before.                                                        *)
Perform(r) ==
  /\ held[r].path = "route"
  /\ Goto(r, "permitted", "performed")
  /\ Kernel!Do(r)
  /\ UNCHANGED <<now, session, proofs, held>>

(* The Kernel answers, and the service asks the audit log for its records. *)
Conclude(r) ==
  \/ \E from \in {"refused", "permitted", "performed"} :
       (from # "refused" => held[r].path = "route") /\ Throws(r, from)
  \/ /\ held[r].path = "route"
     /\ \/ Goto(r, "refused", "query") /\ Kernel!Tell(r, "denied")
        \/ Goto(r, "permitted", "query") /\ Kernel!Tell(r, "unavailable")
        \/ Goto(r, "permitted", "query") /\ Kernel!Tell(r, "failed")
        \/ Goto(r, "performed", "query") /\ Kernel!Tell(r, "accepted")
        \/ Goto(r, "performed", "query") /\ Kernel!Tell(r, "failed")
     /\ UNCHANGED <<now, session, proofs, held>>

(* The guard lets the request through to its handler, or refuses it.       *)
Pass(r) ==
  /\ held[r].path = "guard"
  /\ Goto(r, "permitted", "passed") \/ Goto(r, "refused", "forbidden")
  /\ UNCHANGED <<now, session, proofs, held, kernel>>

(* Variant: whatever the Kernel answers is a success.                      *)
AnswerOk(r) ==
  /\ Goto(r, "query", "ok")
  /\ UNCHANGED <<now, session, proofs, held, kernel>>

(* The records arrive and the route answers, or the query rejects and it   *)
(* answers with an error, whatever the Kernel had answered.                *)
Answer(r) ==
  /\ \/ Goto(r, "query", IF told[r] = "accepted" THEN "ok" ELSE "notAccepted")
     \/ "reject" \in Faults /\ Goto(r, "query", "error")
  /\ UNCHANGED <<now, session, proofs, held, kernel>>

(* The process dies; the session store does not.                           *)
Crash ==
  /\ "crash" \in Faults
  /\ pc' = [r \in Request |-> IF pc[r] \in Running THEN "lost" ELSE pc[r]]
  /\ Kernel!Lose
  /\ \A r \in Request :
       told'[r] = IF pc[r] \in Running /\ told[r] = "nothing" THEN "lost" ELSE told[r]
  /\ UNCHANGED <<now, session, proofs, held>>

Proceed(r) ==
  \/ Arrive(r) \/ Verify(r)
  \/ Decide(r) \/ Resolve(r) \/ Permit(r) \/ Perform(r) \/ Conclude(r)
  \/ Pass(r) \/ Answer(r)

Next ==
  \/ Tick \/ Reauthenticate \/ Expire \/ RevokeSession
  \/ \E r \in Request : Proceed(r)
  \/ Crash

Spec == Init /\ [][Next]_vars

-----------------------------------------------------------------------------
(* What an Owner alone may have done was done by an Owner: the session was *)
(* live when the request came, the request had its reason and its token,   *)
(* and the Owner had in fact been reauthenticated, at most MaxAge before   *)
(* the decision and not after it; whatever became of the session while the *)
(* request was on its way.                                                 *)
EffectIsAuthorized ==
  \A r \in Request :
    r \in done \/ (pc[r] = "passed" /\ held[r].rule = "reserved") =>
      /\ held[r].live
      /\ held[r].reason
      /\ held[r].path = "route" => held[r].csrf
      /\ held[r].requestedAt <= held[r].decidedAt
      /\ \E t \in proofs : t <= held[r].decidedAt /\ held[r].decidedAt <= t + MaxAge

(* What the client is told is so: a success was done, what was turned away *)
(* on the way to the Kernel was not even permitted, and nothing was done   *)
(* of what was denied or unavailable.  An error, or a failure, does not say*)
(* whether it was done; but by then the Kernel is through with the request,*)
(* also when only the query after it failed: nothing happens later on.     *)
AnswersAreTrue ==
  \A r \in Request :
    /\ pc[r] = "ok" => r \in done
    /\ pc[r] = "passed" => r \in permitted
    /\ pc[r] \in {"unauthenticated", "invalid"} => r \notin permitted
    /\ pc[r] = "forbidden" /\ held[r].path = "route" => r \notin permitted
    /\ pc[r] = "forbidden" => r \notin done
    /\ pc[r] = "notAccepted" /\ told[r] # "failed" => r \notin done
    /\ pc[r] = "error" =>
         /\ r \in permitted => told[r] # "nothing"
         /\ told[r] = "accepted" => r \in done
         /\ told[r] \in Kernel!Denials => r \notin done
=============================================================================

------------------------ MODULE OwnerOperationsProofs ------------------------
(***************************************************************************)
(* Proofs about OwnerOperations: for any number of requests, any sessions, *)
(* any length of the reauthentication's validity and under every fault,    *)
(* what an Owner alone may do is authorised, and answers are true.         *)
(***************************************************************************)
EXTENDS OwnerOperations, TLAPS

(* What stands behind a decision to allow.                                 *)
Authorized(r) ==
  /\ held[r].path = "route" => held[r].rule = "reserved" /\ held[r].csrf
  /\ held[r].rule = "reserved" =>
       /\ held[r].live
       /\ held[r].reason
       /\ held[r].requestedAt <= held[r].decidedAt
       /\ \E t \in proofs : t <= held[r].decidedAt /\ held[r].decidedAt <= t + MaxAge

(* What is known of a request on its way to a decision.  A session that is *)
(* valid for the time of the request was live when it came: sessions only  *)
(* become less valid.                                                      *)
Undecided(r) ==
  /\ pc[r] = "verify" =>
       /\ held[r].requestedAt <= now
       /\ held[r].live \/ ~Valid(session, held[r].requestedAt)
       /\ held[r].path = "route" => held[r].rule = "reserved" /\ held[r].actor = "owner"
  /\ pc[r] \in {"requested", "resolve"} =>
       /\ held[r].requestedAt <= now
       /\ held[r].actor = "owner" => held[r].live
       /\ held[r].path = "route" =>
            held[r].rule = "reserved" /\ held[r].actor = "owner" /\ held[r].csrf
       /\ held[r].actor = "owner" => held[r].subject.reauthenticatedAt \in proofs \cup {Never}
  /\ pc[r] = "resolve" => held[r].requestedAt <= held[r].decidedAt

(* Where a request has not been answered by the Kernel.                    *)
Asking ==
  {"idle", "verify", "requested", "resolve", "allowed", "refused", "permitted", "performed"}

(* And on its way from there to an answer.                                 *)
Decided(r) ==
  /\ pc[r] \in {"allowed", "permitted", "performed", "passed"} \/ r \in done => Authorized(r)
  /\ pc[r] \in {"idle", "verify", "requested", "resolve", "allowed", "refused",
                "unauthenticated", "invalid"} => r \notin permitted
  /\ pc[r] = "forbidden" /\ held[r].path = "route" => r \notin permitted
  /\ pc[r] \in {"permitted", "passed"} => r \in permitted
  /\ pc[r] \in {"permitted", "forbidden"} => r \notin done
  /\ pc[r] = "performed" => r \in done
  /\ r \in done => held[r].path = "route"
  /\ pc[r] \in {"query", "ok", "notAccepted"} =>
       /\ told[r] \in {"accepted", "failed", "denied", "unavailable"}
       /\ told[r] = "accepted" => r \in done
       /\ told[r] \in {"denied", "unavailable"} => r \notin done
  /\ pc[r] = "ok" => told[r] = "accepted"
  /\ pc[r] = "notAccepted" => told[r] # "accepted"
  /\ pc[r] \in Asking => told[r] = "nothing"
  /\ pc[r] = "error" =>
       /\ r \in permitted => told[r] # "nothing"
       /\ told[r] = "accepted" => r \in done
       /\ told[r] \in {"denied", "unavailable"} => r \notin done

Proven(s) == s.subject.reauthenticatedAt \in proofs \cup {Never}

Inv ==
  /\ TypeOK
  /\ done \subseteq permitted
  /\ Proven(session)
  /\ \A r \in Request : Undecided(r) /\ Decided(r)

-----------------------------------------------------------------------------
LEMMA Starts == Init => Inv
<1> SUFFICES ASSUME Init PROVE Inv
    OBVIOUS
<1>1. /\ session \in Session /\ session.subject.reauthenticatedAt = Never
      /\ 0 \in 0..MaxTime
      BY OperationsAssumption DEF Init
<1>2. Unread \in Held
      BY DEF Unread, Held, Nobody, Subject, Role, Never
<1>3. TypeOK
      BY <1>1, <1>2 DEF Init, TypeOK, Kernel!Init
<1>4. \A r \in Request : Undecided(r) /\ Decided(r)
      BY DEF Init, Kernel!Init, Undecided, Decided
<1> QED BY <1>1, <1>3, <1>4 DEF Init, Kernel!Init, Inv, Proven

(* Time and the session store disturb nothing: time passes, sessions get   *)
(* no more valid, and no reauthentication is forgotten.                    *)
LEMMA Aging ==
  ASSUME Inv, UNCHANGED <<pc, held, kernel>>,
         now' \in 0..MaxTime, now <= now', session' \in Session,
         proofs \subseteq proofs', proofs' \subseteq 0..MaxTime, Proven(session)',
         \A t \in Int : Valid(session', t) => Valid(session, t)
  PROVE  Inv'
<1>1. TypeOK'
      BY DEF Inv, TypeOK, kernel
<1>2. ASSUME NEW r \in Request PROVE Undecided(r)' /\ Decided(r)'
  <2>1. /\ Undecided(r) /\ Decided(r) /\ held[r] \in Held
        /\ pc' = pc /\ held' = held /\ permitted' = permitted /\ done' = done /\ told' = told
        BY DEF Inv, TypeOK, kernel
  <2>2. held[r].requestedAt \in Int /\ now \in Int /\ now' \in Int
        BY <2>1 DEF Held, Inv, TypeOK
  <2>3. Valid(session, held[r].requestedAt)' => Valid(session, held[r].requestedAt)
        BY <2>1, <2>2 DEF Valid
  <2>4. Undecided(r)'
    <3>1. held[r].requestedAt <= now => held[r].requestedAt <= now'
          BY <2>2
    <3>2. held'[r] = held[r] /\ pc'[r] = pc[r]
          BY <2>1
    <3>3. held[r].subject.reauthenticatedAt \in proofs \cup {Never} =>
            held[r].subject.reauthenticatedAt \in proofs' \cup {Never}
          OBVIOUS
    <3> QED BY <2>1, <2>3, <3>1, <3>2, <3>3 DEF Undecided, Never
  <2>5. Authorized(r) => Authorized(r)'
        BY <2>1 DEF Authorized
  <2>6. Decided(r)'
        BY <2>1, <2>5 DEF Decided
  <2> QED BY <2>4, <2>6
<1> QED BY <1>1, <1>2 DEF Inv, kernel

LEMMA Environment ==
  ASSUME Inv, Tick \/ Reauthenticate \/ Expire \/ RevokeSession
  PROVE  Inv'
<1>0. /\ now \in 0..MaxTime /\ session \in Session /\ proofs \subseteq 0..MaxTime
      /\ MaxTime \in Nat
      BY OperationsAssumption DEF Inv, TypeOK
<1>1. CASE Tick
      BY <1>0, <1>1, Aging DEF Tick, Inv, Proven, Valid
<1>2. CASE Reauthenticate
  <2>1. /\ session' = [session EXCEPT !.subject =
                        [session.subject EXCEPT !.reauthenticatedAt = now]]
        /\ proofs' = proofs \cup {now} /\ now' = now /\ UNCHANGED <<pc, held, kernel>>
        BY <1>2 DEF Reauthenticate
  <2>2. /\ session' \in Session /\ session'.subject.reauthenticatedAt = now
        /\ session'.subject.role = session.subject.role
        /\ session'.subject.multiFactor = session.subject.multiFactor
        /\ session'.status = session.status
        /\ session'.authenticatedAt = session.authenticatedAt
        /\ session'.expiresAt = session.expiresAt
        BY <1>0, <2>1 DEF Session, Subject
  <2> QED BY <1>0, <2>1, <2>2, Aging DEF Proven, Valid
<1>3. ASSUME NEW status \in {"revoked", "expired"},
             session' = [session EXCEPT !.status = status],
             UNCHANGED <<now, proofs, pc, held, kernel>>
      PROVE  Inv'
  <2>1. /\ session' \in Session /\ session'.subject = session.subject
        /\ session'.status = status
        BY <1>0, <1>3 DEF Session
  <2> QED BY <1>0, <1>3, <2>1, Aging DEF Inv, Proven, Valid
<1> QED BY <1>1, <1>2, <1>3 DEF Expire, RevokeSession

-----------------------------------------------------------------------------
(* A step of a request leaves the others as they are.                      *)
Alone(r) ==
  /\ UNCHANGED <<now, session, proofs>>
  /\ \A d \in Request \ {r} :
       /\ pc'[d] = pc[d] /\ held'[d] = held[d] /\ told'[d] = told[d]
       /\ (d \in permitted') = (d \in permitted)
       /\ (d \in done') = (d \in done)

LEMMA StepAlone ==
  ASSUME Inv, NEW r \in Request, Alone(r), TypeOK', done' \subseteq permitted',
         Undecided(r)', Decided(r)'
  PROVE  Inv'
<1>1. ASSUME NEW d \in Request, d # r PROVE Undecided(d)' /\ Decided(d)'
  <2>1. /\ Undecided(d) /\ Decided(d)
        /\ pc'[d] = pc[d] /\ held'[d] = held[d] /\ told'[d] = told[d]
        /\ (d \in permitted') = (d \in permitted)
        /\ (d \in done') = (d \in done)
        /\ now' = now /\ session' = session /\ proofs' = proofs
        BY <1>1 DEF Inv, Alone
  <2>2. Undecided(d)'
        BY <2>1 DEF Undecided, Valid
  <2>3. Authorized(d)' <=> Authorized(d)
        BY <2>1 DEF Authorized
  <2>4. Decided(d)'
        BY <2>1, <2>3 DEF Decided
  <2> QED BY <2>2, <2>4
<1> QED BY <1>1 DEF Inv, Alone, Proven

States == {"idle"} \cup Running \cup Answered

(* One that only goes on.                                                  *)
LEMMA GoesOn ==
  ASSUME Inv, NEW r \in Request, NEW from, NEW to \in Running \cup Answered, Goto(r, from, to),
         UNCHANGED <<now, session, proofs, held, kernel>>,
         Undecided(r)', Decided(r)'
  PROVE  Inv'
<1>1. TypeOK' /\ done' \subseteq permitted'
      BY DEF Inv, TypeOK, Goto, kernel
<1>2. Alone(r)
      BY DEF Alone, Goto, kernel, Inv, TypeOK
<1> QED BY <1>1, <1>2, StepAlone

LEMMA ArriveStep ==
  ASSUME Inv, NEW r \in Request, Arrive(r)
  PROVE  Inv'
<1>1. CASE Goto(r, "idle", "unauthenticated") /\ UNCHANGED held
  <2>1. pc[r] = "idle" /\ pc'[r] = "unauthenticated" /\ r \notin permitted /\ r \notin done
        BY <1>1 DEF Inv, TypeOK, Goto, Decided
  <2>2. permitted' = permitted /\ done' = done /\ told' = told /\ held' = held
        BY <1>1 DEF Arrive, kernel
  <2>3. Undecided(r)' /\ Decided(r)'
        BY <2>1, <2>2 DEF Undecided, Decided, Asking
  <2> QED BY <1>1, <2>3, GoesOn DEF Arrive, Answered
<1>2. CASE Goto(r, "idle", "verify") /\ \E f \in Form : held' = [held EXCEPT ![r] = Brings(f)]
  <2>1. PICK f \in Form : held' = [held EXCEPT ![r] = Brings(f)]
        BY <1>2
  <2>2. /\ now \in Int /\ Nobody \in Subject /\ Valid(session, now) \in BOOLEAN
        BY DEF Inv, TypeOK, Nobody, Subject, Role, Never, Valid
  <2>a. /\ f.path \in {"route", "guard"} /\ f.rule \in {"read", "reserved", "none"}
        /\ f.actor \in {"owner", "service"} /\ f.csrf \in BOOLEAN /\ f.reason \in BOOLEAN
        /\ f.path = "route" => f.rule = "reserved" /\ f.actor = "owner"
    <3>1. CASE f \in [path : {"route"}, rule : {"reserved"}, actor : {"owner"},
                      csrf : BOOLEAN, reason : BOOLEAN]
          BY <3>1
    <3>2. CASE f \in [path : {"guard"}, rule : {"read", "reserved", "none"},
                      actor : {"owner", "service"}, csrf : {FALSE}, reason : BOOLEAN]
          BY <3>2
    <3> QED BY <3>1, <3>2 DEF Form
  <2>3. Brings(f) \in Held
        BY <2>2, <2>a DEF Brings, Held
  <2>4. /\ pc[r] = "idle" /\ pc'[r] = "verify" /\ r \notin permitted /\ r \notin done
        /\ told[r] = "nothing"
        /\ permitted' = permitted /\ done' = done /\ told' = told
        /\ now' = now /\ session' = session /\ proofs' = proofs
        BY <1>2 DEF Arrive, Inv, TypeOK, Goto, Decided, Asking, kernel
  <2>5. held'[r] = Brings(f)
        BY <2>1 DEF Inv, TypeOK
  <2>6. /\ held'[r].requestedAt = now /\ held'[r].live = Valid(session, now)
        /\ held'[r].path = "route" => held'[r].rule = "reserved" /\ held'[r].actor = "owner"
        BY <2>5, <2>a DEF Brings
  <2>7. Undecided(r)'
        BY <2>2, <2>4, <2>6 DEF Undecided
  <2>8. Decided(r)'
        BY <2>4 DEF Decided, Asking
  <2>9. TypeOK' /\ done' \subseteq permitted' /\ Alone(r)
        BY <1>2, <2>1, <2>3, <2>4 DEF Inv, TypeOK, Goto, Running, Alone
  <2> QED BY <2>7, <2>8, <2>9, StepAlone
<1> QED BY <1>1, <1>2 DEF Arrive

LEMMA VerifyStep ==
  ASSUME Inv, NEW r \in Request, Verify(r)
  PROVE  Inv'
<1>0. /\ pc[r] = "verify" /\ r \notin permitted /\ r \notin done /\ told[r] = "nothing"
      /\ permitted' = permitted /\ done' = done /\ told' = told
      /\ now' = now /\ session' = session /\ proofs' = proofs
      /\ held[r] \in Held /\ Undecided(r) /\ UNCHANGED <<now, session, proofs, kernel>>
      BY DEF Verify, Inv, TypeOK, Goto, Decided, Asking, kernel
<1>1. CASE \E to \in {"unauthenticated", "error"} : Goto(r, "verify", to) /\ held' = held
  <2>1. PICK to \in {"unauthenticated", "error"} : Goto(r, "verify", to) /\ held' = held
        BY <1>1
  <2>2. pc'[r] = to
        BY <2>1 DEF Goto, Inv, TypeOK
  <2>3. Undecided(r)' /\ Decided(r)'
        BY <1>0, <2>2 DEF Undecided, Decided, Asking
  <2>4. to \in Answered
        BY DEF Answered
  <2> QED BY <1>0, <2>1, <2>3, <2>4, GoesOn
<1>2. ASSUME NEW s \in Subject,
             held[r].actor = "owner" => s.reauthenticatedAt \in proofs \cup {Never},
             Goto(r, "verify", Admission(r)),
             held' = [held EXCEPT ![r].subject = s],
             held[r].actor = "owner" => held[r].live
      PROVE  Inv'
  <2>1. /\ held' \in [Request -> Held] /\ held'[r].subject = s
        /\ held'[r].path = held[r].path /\ held'[r].rule = held[r].rule
        /\ held'[r].actor = held[r].actor /\ held'[r].csrf = held[r].csrf
        /\ held'[r].live = held[r].live /\ held'[r].requestedAt = held[r].requestedAt
        /\ \A d \in Request \ {r} : held'[d] = held[d]
        BY <1>2 DEF Inv, TypeOK, Held
  <2>2. /\ pc'[r] = Admission(r) /\ Admission(r) \in {"requested", "forbidden", "invalid"}
        /\ Admission(r) = "requested" => (held[r].path = "route" => held[r].csrf)
        /\ Admission(r) = "invalid" => held[r].path = "route"
        BY <1>0, <1>2 DEF Goto, Inv, TypeOK, Admission, Held
  <2>3. TypeOK' /\ done' \subseteq permitted'
        BY <1>0, <1>2, <2>1, <2>2 DEF Inv, TypeOK, Goto, Running, Answered
  <2>4. Alone(r)
        BY <1>0, <1>2, <2>1 DEF Alone, Goto, Inv, TypeOK
  <2>5. Undecided(r)'
        BY <1>0, <1>2, <2>1, <2>2 DEF Undecided
  <2>6. Decided(r)'
        BY <1>0, <2>2 DEF Decided, Asking
  <2> QED BY <2>3, <2>4, <2>5, <2>6, StepAlone
<1>3. CASE /\ Goto(r, "verify", Admission(r))
           /\ held[r].actor = "owner"
           /\ Valid(session, held[r].requestedAt)
           /\ held' = [held EXCEPT ![r].subject = session.subject]
  <2>1. session.subject \in Subject /\ session.subject.reauthenticatedAt \in proofs \cup {Never}
        BY DEF Inv, TypeOK, Session, Proven
  <2>2. held[r].live
        BY <1>0, <1>3 DEF Undecided
  <2> QED BY <1>2, <1>3, <2>1, <2>2
<1>4. CASE /\ Goto(r, "verify", Admission(r))
           /\ held[r].actor = "service"
           /\ \E s \in Servant : held' = [held EXCEPT ![r].subject = s]
  <2>1. PICK s \in Servant : held' = [held EXCEPT ![r].subject = s]
        BY <1>4
  <2>2. s \in Subject
    <3>1. s = [role |-> s.role, multiFactor |-> s.multiFactor, capable |-> s.capable,
               reauthenticatedAt |-> s.reauthenticatedAt]
          BY DEF Servant
    <3>2. /\ s.role \in Role /\ s.multiFactor \in BOOLEAN /\ s.capable \in BOOLEAN
          /\ s.reauthenticatedAt \in {Never, now}
          BY DEF Servant
    <3>3. Never \in Int /\ now \in Int
          BY DEF Never, Inv, TypeOK
    <3> QED BY <3>1, <3>2, <3>3 DEF Subject
  <2> QED BY <1>2, <1>4, <2>1, <2>2
<1> QED BY <1>1, <1>3, <1>4 DEF Verify

(* A call rejects: it leaves the request with an error or turned away, and *)
(* perhaps with its permission on record.                                  *)
LEMMA ThrowsStep ==
  ASSUME Inv, NEW r \in Request,
         NEW from \in {"requested", "resolve", "allowed", "refused", "permitted", "performed"},
         from \in {"permitted", "performed"} => held[r].path = "route",
         Throws(r, from)
  PROVE  Inv'
<1>1. /\ pc[r] = from /\ Decided(r) /\ UNCHANGED <<now, session, proofs, held>>
      BY DEF Throws, Goto, Inv
<1>2. CASE /\ held[r].path = "route" /\ Goto(r, from, "error") /\ Kernel!Tell(r, "rejected")
           /\ from = "allowed" \/ permitted' = permitted
  <2>1. /\ pc'[r] = "error" /\ done' = done
        /\ told' = [told EXCEPT ![r] = "rejected"] /\ told'[r] = "rejected"
        /\ permitted' = permitted \/ permitted' = permitted \cup {r}
        BY <1>2 DEF Goto, Inv, TypeOK, Kernel!Tell
  <2>2. Authorized(r)' <=> Authorized(r)
        BY <1>1 DEF Authorized
  <2>3. Undecided(r)' /\ Decided(r)'
        BY <1>1, <2>1, <2>2 DEF Undecided, Decided, Asking
  <2>4. TypeOK' /\ done' \subseteq permitted'
        BY <1>1, <1>2, <2>1 DEF Inv, TypeOK, Goto, Answered, Kernel!Answers
  <2>5. Alone(r)
        BY <1>1, <1>2, <2>1 DEF Alone, Goto, Inv, TypeOK
  <2> QED BY <2>3, <2>4, <2>5, StepAlone
<1>3. CASE /\ held[r].path = "guard" /\ Goto(r, from, "forbidden")
           /\ UNCHANGED <<done, told>>
           /\ permitted' = permitted \/ permitted' = permitted \cup {r}
  <2>1. pc'[r] = "forbidden" /\ done' = done /\ told' = told /\ held'[r].path = "guard"
        BY <1>1, <1>3 DEF Goto, Inv, TypeOK
  <2>2. r \notin done
        BY <1>1, <1>3 DEF Decided, Inv
  <2>3. Undecided(r)' /\ Decided(r)'
        BY <1>1, <2>1, <2>2 DEF Undecided, Decided, Asking
  <2>4. TypeOK' /\ done' \subseteq permitted'
        BY <1>1, <1>3, <2>1 DEF Inv, TypeOK, Goto, Answered
  <2>5. Alone(r)
        BY <1>1, <1>3, <2>1 DEF Alone, Goto, Inv, TypeOK
  <2> QED BY <2>3, <2>4, <2>5, StepAlone
<1> QED BY <1>2, <1>3 DEF Throws

LEMMA DecideStep ==
  ASSUME Inv, NEW r \in Request, Decide(r)
  PROVE  Inv'
<1>1. CASE /\ Goto(r, "requested", "resolve")
           /\ held' = [held EXCEPT ![r].decidedAt = now]
           /\ UNCHANGED <<now, session, proofs, kernel>>
  <2>1. /\ pc[r] = "requested" /\ pc'[r] = "resolve" /\ Undecided(r) /\ Decided(r)
        /\ permitted' = permitted /\ done' = done /\ told' = told
        /\ r \notin permitted /\ r \notin done
        BY <1>1 DEF Goto, Inv, TypeOK, kernel, Decided
  <2>2. /\ now \in Int /\ held' \in [Request -> Held] /\ held'[r].decidedAt = now
        /\ held'[r].path = held[r].path /\ held'[r].rule = held[r].rule
        /\ held'[r].actor = held[r].actor /\ held'[r].csrf = held[r].csrf
        /\ held'[r].live = held[r].live /\ held'[r].requestedAt = held[r].requestedAt
        /\ held'[r].subject = held[r].subject
        /\ \A d \in Request \ {r} : held'[d] = held[d]
        BY <1>1 DEF Inv, TypeOK, Held
  <2>3. Undecided(r)'
        BY <1>1, <2>1, <2>2 DEF Undecided
  <2>4. Decided(r)'
        BY <2>1 DEF Decided, Asking
  <2>5. TypeOK' /\ done' \subseteq permitted'
        BY <1>1, <2>1, <2>2 DEF Inv, TypeOK, Goto, Running
  <2>6. Alone(r)
        BY <1>1, <2>1, <2>2 DEF Alone, Goto, Inv, TypeOK
  <2> QED BY <2>3, <2>4, <2>5, <2>6, StepAlone
<1> QED BY <1>1, ThrowsStep DEF Decide

(* The policy allows what is reserved only on a fresh reauthentication     *)
(* that took place.                                                        *)
LEMMA AllowedIsAuthorized ==
  ASSUME Inv, NEW r \in Request, pc[r] = "resolve", NEW s \in Resolvable(r), Allowed(held[r], s)
  PROVE  Authorized(r)
<1>1. /\ Undecided(r) /\ held[r] \in Held /\ held[r].decidedAt \in Int
      /\ proofs \subseteq Int /\ MaxAge \in Int
      BY OperationsAssumption DEF Inv, TypeOK, Held
<1>2. held[r].actor = "owner" => s.reauthenticatedAt \in proofs \cup {Never}
      BY <1>1 DEF Resolvable, Undecided, Nobody, Inv, Proven
<1>3. CASE held[r].rule = "read"
      BY <1>1, <1>3 DEF Authorized, Undecided
<1>4. CASE held[r].rule = "reserved" /\ held[r].actor = "owner" /\ held[r].reason
           /\ Fresh(s, held[r].decidedAt)
  <2>1. s.reauthenticatedAt \in proofs
        BY <1>2, <1>4 DEF Fresh
  <2>2. /\ s.reauthenticatedAt <= held[r].decidedAt
        /\ held[r].decidedAt <= s.reauthenticatedAt + MaxAge
        BY <1>1, <1>4, <2>1 DEF Fresh
  <2> QED BY <1>1, <1>4, <2>1, <2>2 DEF Authorized, Undecided
<1> QED BY <1>3, <1>4 DEF Allowed

LEMMA ResolveStep ==
  ASSUME Inv, NEW r \in Request, Resolve(r)
  PROVE  Inv'
<1>1. CASE /\ \E s \in Resolvable(r) :
                Goto(r, "resolve", IF Allowed(held[r], s) THEN "allowed" ELSE "refused")
           /\ UNCHANGED <<now, session, proofs, held, kernel>>
  <2>1. PICK s \in Resolvable(r) :
          Goto(r, "resolve", IF Allowed(held[r], s) THEN "allowed" ELSE "refused")
        BY <1>1
  <2> DEFINE to == IF Allowed(held[r], s) THEN "allowed" ELSE "refused"
  <2>2. /\ pc[r] = "resolve" /\ pc'[r] = to /\ r \notin permitted /\ r \notin done
        /\ told[r] = "nothing"
        /\ to = "allowed" => Authorized(r)
        BY <2>1, AllowedIsAuthorized DEF Goto, Inv, TypeOK, Decided, Asking
  <2>3. /\ permitted' = permitted /\ done' = done /\ told' = told
        /\ Authorized(r)' <=> Authorized(r)
        BY <1>1 DEF kernel, Authorized
  <2>4. Undecided(r)' /\ Decided(r)'
        BY <2>2, <2>3 DEF Undecided, Decided, Asking
  <2>5. to \in Running
        BY DEF Running
  <2> QED BY <1>1, <2>1, <2>4, <2>5, GoesOn
<1> QED BY <1>1, ThrowsStep DEF Resolve

LEMMA PermitStep ==
  ASSUME Inv, NEW r \in Request, Permit(r)
  PROVE  Inv'
<1>1. CASE /\ Goto(r, "allowed", "permitted") /\ Kernel!Permit(r)
           /\ UNCHANGED <<now, session, proofs, held>>
  <2>1. /\ pc[r] = "allowed" /\ pc'[r] = "permitted" /\ Decided(r) /\ r \notin done
        /\ permitted' = permitted \cup {r} /\ done' = done /\ told' = told
        /\ Authorized(r)' <=> Authorized(r)
        BY <1>1 DEF Goto, Inv, TypeOK, Kernel!Permit, Authorized, Decided
  <2>2. Undecided(r)' /\ Decided(r)'
        BY <2>1 DEF Undecided, Decided, Asking
  <2>3. TypeOK' /\ done' \subseteq permitted'
        BY <1>1, <2>1 DEF Inv, TypeOK, Goto, Running
  <2>4. Alone(r)
        BY <1>1, <2>1 DEF Alone, Goto, Inv, TypeOK
  <2> QED BY <2>2, <2>3, <2>4, StepAlone
<1> QED BY <1>1, ThrowsStep DEF Permit

LEMMA PerformStep ==
  ASSUME Inv, NEW r \in Request, Perform(r)
  PROVE  Inv'
<1>0. UNCHANGED <<now, session, proofs, held>> /\ pc' = [pc EXCEPT ![r] = "performed"]
      BY DEF Perform, Goto
<1>1. /\ pc[r] = "permitted" /\ pc'[r] = "performed" /\ Decided(r) /\ held[r].path = "route"
      /\ permitted' = permitted /\ done' = done \cup {r} /\ told' = told
      /\ (Authorized(r)' <=> Authorized(r)) /\ r \in permitted
      BY DEF Perform, Goto, Inv, TypeOK, Kernel!Do, Authorized, Decided
<1>2. Undecided(r)' /\ Decided(r)'
      BY <1>0, <1>1 DEF Undecided, Decided, Asking
<1>a. done' \subseteq permitted'
      BY <1>1 DEF Inv
<1>3. TypeOK'
      BY <1>0, <1>1 DEF Inv, TypeOK, Running
<1>4. Alone(r)
      BY <1>0, <1>1 DEF Alone, Inv, TypeOK
<1> QED BY <1>2, <1>a, <1>3, <1>4, StepAlone

LEMMA ConcludeStep ==
  ASSUME Inv, NEW r \in Request, Conclude(r)
  PROVE  Inv'
<1>1. ASSUME NEW from \in {"refused", "permitted", "performed"},
             NEW answer \in {"denied", "unavailable", "failed", "accepted"},
             Goto(r, from, "query"), Kernel!Tell(r, answer),
             UNCHANGED <<now, session, proofs, held>>
      PROVE  Inv'
  <2>1. /\ pc'[r] = "query" /\ permitted' = permitted /\ done' = done /\ Decided(r)
        /\ held' = held
        /\ told' = [told EXCEPT ![r] = answer] /\ told'[r] = answer
        /\ answer = "accepted" => r \in done
        /\ answer \in {"denied", "unavailable"} => r \notin done
        /\ Authorized(r)' <=> Authorized(r)
        BY <1>1 DEF Goto, Inv, TypeOK, Kernel!Tell, Kernel!Denials, Authorized
  <2>2. Undecided(r)'
        BY <2>1 DEF Undecided
  <2>3. Decided(r)'
        BY <2>1 DEF Decided, Asking
  <2>4. TypeOK' /\ done' \subseteq permitted'
        BY <1>1, <2>1 DEF Inv, TypeOK, Goto, Running, Kernel!Answers, Kernel!Denials
  <2>5. Alone(r)
        BY <1>1, <2>1 DEF Alone, Goto, Inv, TypeOK
  <2> QED BY <2>2, <2>3, <2>4, <2>5, StepAlone
<1> QED BY <1>1, ThrowsStep DEF Conclude

LEMMA PassStep ==
  ASSUME Inv, NEW r \in Request, Pass(r)
  PROVE  Inv'
<1>1. /\ permitted' = permitted /\ done' = done /\ held' = held /\ proofs' = proofs
      /\ (Authorized(r)' <=> Authorized(r)) /\ Decided(r) /\ held[r].path = "guard"
      BY DEF Pass, kernel, Authorized, Inv
<1>2. CASE Goto(r, "permitted", "passed")
  <2>0. /\ pc[r] = "permitted" /\ pc'[r] = "passed" /\ r \in permitted /\ r \notin done
        /\ Authorized(r)
        BY <1>1, <1>2 DEF Goto, Inv, TypeOK, Decided
  <2>a. Undecided(r)'
        BY <2>0 DEF Undecided
  <2>1. Decided(r)'
        BY <1>1, <2>0 DEF Decided, Asking
  <2> QED BY <1>2, <2>a, <2>1, GoesOn DEF Pass, Answered
<1>3. CASE Goto(r, "refused", "forbidden")
  <2>1. r \notin done
        BY <1>1, <1>3 DEF Goto, Inv, Decided
  <2>2. Undecided(r)' /\ Decided(r)'
        BY <1>1, <1>3, <2>1 DEF Goto, Inv, TypeOK, Undecided, Decided, Asking
  <2> QED BY <1>3, <2>2, GoesOn DEF Pass, Answered
<1> QED BY <1>2, <1>3 DEF Pass

LEMMA AnswerStep ==
  ASSUME Inv, NEW r \in Request, Answer(r)
  PROVE  Inv'
<1>1. /\ permitted' = permitted /\ done' = done /\ told' = told /\ held' = held
      /\ (Authorized(r)' <=> Authorized(r)) /\ Decided(r)
      BY DEF Answer, kernel, Authorized, Inv
<1>2. PICK to \in {"ok", "notAccepted", "error"} :
        /\ Goto(r, "query", to)
        /\ to = "ok" => told[r] = "accepted"
        /\ to = "notAccepted" => told[r] # "accepted"
      BY DEF Answer
<1>3. Undecided(r)' /\ Decided(r)'
      BY <1>1, <1>2 DEF Goto, Inv, TypeOK, Undecided, Decided, Asking
<1>4. to \in Answered
      BY DEF Answered
<1> QED BY <1>2, <1>3, <1>4, GoesOn DEF Answer

LEMMA CrashStep == ASSUME Inv, Crash PROVE Inv'
<1>1. /\ permitted' = permitted /\ done' = done /\ UNCHANGED <<now, session, proofs, held>>
      /\ pc' = [r \in Request |-> IF pc[r] \in Running THEN "lost" ELSE pc[r]]
      BY DEF Crash, Kernel!Lose
<1>2. told' \in [Request -> {"nothing"} \cup Kernel!Answers]
      BY DEF Crash, Kernel!Lose, Inv, TypeOK, Kernel!Answers
<1>3. TypeOK'
      BY <1>1, <1>2 DEF Inv, TypeOK, Answered
<1>4. ASSUME NEW r \in Request PROVE Undecided(r)' /\ Decided(r)'
  <2>0. /\ permitted' = permitted /\ done' = done /\ held'[r] = held[r]
        /\ now' = now /\ session' = session /\ proofs' = proofs
        BY <1>1
  <2>1. Undecided(r) /\ Decided(r) /\ (Authorized(r)' <=> Authorized(r))
        BY <2>0 DEF Inv, Authorized
  <2>2. CASE pc[r] \in Running
    <3>1. pc'[r] = "lost"
          BY <1>1, <2>2
    <3>2. Undecided(r)'
          BY <3>1 DEF Undecided
    <3>3. Decided(r)'
          BY <2>0, <2>1, <3>1 DEF Decided, Asking
    <3> QED BY <3>2, <3>3
  <2>3. CASE pc[r] \notin Running
    <3>1. pc'[r] = pc[r] /\ told'[r] = told[r]
          BY <1>1, <2>3 DEF Crash
    <3>2. Undecided(r)'
          BY <2>0, <2>1, <3>1 DEF Undecided, Valid
    <3>3. Decided(r)'
          BY <2>0, <2>1, <3>1 DEF Decided
    <3> QED BY <3>2, <3>3
  <2> QED BY <2>2, <2>3
<1> QED BY <1>1, <1>3, <1>4 DEF Inv, Proven

LEMMA Step == Inv /\ [Next]_vars => Inv'
<1> SUFFICES ASSUME Inv, [Next]_vars PROVE Inv'
    OBVIOUS
<1>1. CASE UNCHANGED vars
      BY <1>1 DEF vars, kernel, Inv, TypeOK, Proven, Undecided, Decided, Authorized, Valid
<1>2. ASSUME NEW r \in Request, Proceed(r) PROVE Inv'
      BY <1>2, ArriveStep, VerifyStep, DecideStep, ResolveStep, PermitStep, PerformStep,
         ConcludeStep, PassStep, AnswerStep
      DEF Proceed
<1> QED BY <1>1, <1>2, Environment, CrashStep DEF Next

LEMMA Invariance == Spec => []Inv
<1> QED BY Starts, Step, PTL DEF Spec

-----------------------------------------------------------------------------
(* Every variable has its type.                                            *)
THEOREM TypeCorrect == Spec => []TypeOK
<1>1. Inv => TypeOK
      BY DEF Inv
<1> QED BY <1>1, Invariance, PTL

(* Reserved effects are the Owner's, recently reauthenticated, whatever    *)
(* happened to the session meanwhile and however many requests there are.  *)
THEOREM EffectsAuthorized == Spec => []EffectIsAuthorized
<1>1. ASSUME Inv PROVE EffectIsAuthorized
  <2>1. \A r \in Request : Decided(r)
        BY <1>1 DEF Inv
  <2> QED BY <2>1 DEF EffectIsAuthorized, Decided, Authorized
<1> QED BY <1>1, Invariance, PTL

(* No answer claims more, or less, than what was done.                     *)
THEOREM AnswersTrue == Spec => []AnswersAreTrue
<1>1. Inv => AnswersAreTrue
      BY DEF Inv, Decided, AnswersAreTrue, Kernel!Denials
<1> QED BY <1>1, Invariance, PTL

-----------------------------------------------------------------------------
(* The composition uses the Kernel as module GuardedOperation says, which  *)
(* KernelGateway implements: requests of both paths, rejections and        *)
(* crashes included.  A request that the Kernel has answered asks nothing  *)
(* of it any more.                                                         *)
Unanswered == \A r \in Request : pc[r] \in Asking => told[r] = "nothing"

LEMMA AskingOn ==
  ASSUME Unanswered, NEW r \in Request, UNCHANGED told,
         \A q \in Request \ {r} : pc'[q] = pc[q], pc[r] \in Asking
  PROVE  Unanswered'
BY DEF Unanswered

LEMMA AskingEnds ==
  ASSUME Unanswered, NEW r \in Request, \A q \in Request \ {r} : pc'[q] = pc[q] /\ told'[q] = told[q],
         pc'[r] \notin Asking
  PROVE  Unanswered'
BY DEF Unanswered

LEMMA MovesAlone ==
  ASSUME TypeOK, NEW r \in Request, NEW from, NEW to, Goto(r, from, to)
  PROVE  pc[r] = from /\ pc'[r] = to /\ \A q \in Request \ {r} : pc'[q] = pc[q]
BY DEF TypeOK, Goto

LEMMA TellsAlone ==
  ASSUME TypeOK, NEW r \in Request, NEW answer \in Kernel!Answers, Kernel!Tell(r, answer)
  PROVE  /\ \A q \in Request \ {r} : told'[q] = told[q]
         /\ Kernel!Next
<1>1. \A q \in Request \ {r} : told'[q] = told[q]
      BY DEF TypeOK, Kernel!Tell
<1> QED BY <1>1 DEF Kernel!Next

(* A rejection, wherever a call was being awaited.                         *)
LEMMA ThrowsKeep ==
  ASSUME TypeOK, Unanswered, NEW r \in Request, NEW from \in Asking, Throws(r, from)
  PROVE  Unanswered' /\ (Kernel!Next \/ UNCHANGED kernel)
<1>1. CASE held[r].path = "route" /\ Goto(r, from, "error") /\ Kernel!Tell(r, "rejected")
  <2>1. \A q \in Request \ {r} : told'[q] = told[q]
        BY <1>1, TellsAlone DEF Kernel!Answers
  <2>2. Unanswered'
        BY <1>1, <2>1, MovesAlone, AskingEnds DEF Asking
  <2>3. Kernel!Next
        BY <1>1, TellsAlone DEF Kernel!Answers
  <2> QED BY <2>2, <2>3
<1>2. CASE /\ held[r].path = "guard" /\ Goto(r, from, "forbidden") /\ UNCHANGED <<done, told>>
           /\ UNCHANGED permitted \/ (from = "allowed" /\ permitted' = permitted \cup {r})
  <2>1. told[r] = "nothing"
        BY <1>2, MovesAlone DEF Unanswered
  <2>2. Unanswered'
        BY <1>2, MovesAlone, AskingEnds DEF Asking
  <2>3. Kernel!Next \/ UNCHANGED kernel
        BY <1>2, <2>1 DEF Kernel!Next, Kernel!Permit, kernel
  <2> QED BY <2>2, <2>3
<1> QED BY <1>1, <1>2 DEF Throws

LEMMA ProceedKeeps ==
  ASSUME TypeOK, Unanswered, NEW r \in Request, Proceed(r)
  PROVE  Unanswered' /\ (Kernel!Next \/ UNCHANGED kernel)
<1>1. CASE Arrive(r) \/ Verify(r)
  <2>1. pc[r] \in Asking /\ UNCHANGED kernel /\ \A q \in Request \ {r} : pc'[q] = pc[q]
        BY <1>1, MovesAlone DEF Arrive, Verify, Asking
  <2> QED BY <2>1, AskingOn DEF kernel
<1>2. CASE Decide(r)
  <2>1. CASE Goto(r, "requested", "resolve") /\ UNCHANGED kernel
        BY <2>1, MovesAlone, AskingOn DEF Asking, kernel
  <2> QED BY <1>2, <2>1, ThrowsKeep DEF Decide, Asking
<1>3. CASE Resolve(r)
  <2>1. CASE /\ \E s \in Resolvable(r) :
                  Goto(r, "resolve", IF Allowed(held[r], s) THEN "allowed" ELSE "refused")
             /\ UNCHANGED kernel
        BY <2>1, MovesAlone, AskingOn DEF Asking, kernel
  <2> QED BY <1>3, <2>1, ThrowsKeep DEF Resolve, Asking
<1>4. CASE Permit(r)
  <2>1. CASE Goto(r, "allowed", "permitted") /\ Kernel!Permit(r)
    <3>1. Unanswered'
          BY <2>1, MovesAlone, AskingOn DEF Asking, Kernel!Permit
    <3> QED BY <2>1, <3>1 DEF Kernel!Next
  <2> QED BY <1>4, <2>1, ThrowsKeep DEF Permit, Asking
<1>5. CASE Perform(r)
  <2>1. Unanswered'
        BY <1>5, MovesAlone, AskingOn DEF Perform, Asking, Kernel!Do
  <2> QED BY <1>5, <2>1 DEF Perform, Kernel!Next
<1>6. CASE Conclude(r)
  <2>1. ASSUME NEW from \in {"refused", "permitted", "performed"}, NEW answer \in Kernel!Answers,
               Goto(r, from, "query"), Kernel!Tell(r, answer)
        PROVE  Unanswered' /\ Kernel!Next
    <3>1. \A q \in Request \ {r} : told'[q] = told[q]
          BY <2>1, TellsAlone
    <3>2. Unanswered'
          BY <2>1, <3>1, MovesAlone, AskingEnds DEF Asking
    <3> QED BY <2>1, <3>2, TellsAlone
  <2> QED BY <1>6, <2>1, ThrowsKeep DEF Conclude, Asking, Kernel!Answers, Kernel!Denials
<1>7. CASE Pass(r)
  <2>1. pc[r] \in Asking /\ UNCHANGED kernel /\ \A q \in Request \ {r} : pc'[q] = pc[q]
        BY <1>7, MovesAlone DEF Pass, Asking
  <2> QED BY <2>1, AskingOn DEF kernel
<1>8. CASE Answer(r)
  <2>1. pc'[r] \notin Asking /\ UNCHANGED kernel /\ \A q \in Request \ {r} : pc'[q] = pc[q]
        BY <1>8, MovesAlone DEF Answer, Asking
  <2> QED BY <2>1, AskingEnds DEF kernel
<1> QED BY <1>1, <1>2, <1>3, <1>4, <1>5, <1>6, <1>7, <1>8 DEF Proceed

(* Nothing that a request does on its way, nor a rejection, nor a crash,   *)
(* takes a step of the Kernel that its promise does not allow.             *)
THEOREM KernelIsKept == Spec => Kernel!Spec
<1>1. Init => Kernel!Init
      BY DEF Init
<1>2. Init => Unanswered
      BY DEF Init, Kernel!Init, Unanswered
<1>3. TypeOK /\ Unanswered /\ [Next]_vars => Unanswered' /\ [Kernel!Next]_Kernel!vars
  <2> SUFFICES ASSUME TypeOK, Unanswered, [Next]_vars
               PROVE  Unanswered' /\ (Kernel!Next \/ UNCHANGED kernel)
      BY DEF kernel, Kernel!vars
  <2>1. CASE \E r \in Request : Proceed(r)
        BY <2>1, ProceedKeeps
  <2>2. CASE Crash
    <3>1. Unanswered'
          BY <2>2 DEF Crash, Unanswered, Asking, Running, TypeOK
    <3> QED BY <2>2, <3>1 DEF Crash, Kernel!Next
  <2>3. CASE Tick \/ Reauthenticate \/ Expire \/ RevokeSession \/ UNCHANGED vars
        BY <2>3 DEF Tick, Reauthenticate, Expire, RevokeSession, vars, kernel, Unanswered
  <2> QED BY <2>1, <2>2, <2>3 DEF Next
<1> QED BY <1>1, <1>2, <1>3, TypeCorrect, PTL DEF Spec, Kernel!Spec
=============================================================================

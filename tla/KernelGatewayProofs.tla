------------------------- MODULE KernelGatewayProofs -------------------------
(***************************************************************************)
(* Proofs about KernelGateway, for any requests, ports and faults.         *)
(***************************************************************************)
EXTENDS KernelGateway, TLAPS

(* What is on record and what took effect, at each await of a request.     *)
Agrees(r) ==
  /\ pc[r] \in {"idle", "requested", "evaluate", "recordAllowed", "recordDenied"}
       => records[r] = {} /\ r \notin effect
  /\ pc[r] \in {"allowed", "handle", "recordUnavailable"}
       => records[r] = {"allowed"} /\ r \notin effect
  /\ pc[r] \in {"refused", "denied"} => records[r] = {"denied"} /\ r \notin effect
  /\ pc[r] = "recordSucceeded" => records[r] = {"allowed"} /\ r \in effect
  /\ pc[r] \in {"succeeded", "accepted"}
       => records[r] = {"allowed", "succeeded"} /\ r \in effect
  /\ pc[r] \in {"recordFailed", "failing", "failed"} => "allowed" \in records[r]
  /\ pc[r] \in {"failing", "failed"} => "failed" \in records[r]
  /\ pc[r] = "unavailable" => records[r] = {"allowed", "failed"} /\ r \notin effect
  /\ "succeeded" \in records[r] => r \in effect
  /\ r \in effect => "allowed" \in records[r] /\ "denied" \notin records[r]

IInv == TypeOK /\ \A r \in Request : Agrees(r)

-----------------------------------------------------------------------------
(* What a step of a request does to the others, and where it can go.       *)
LEMMA PublishStep ==
  ASSUME TypeOK, NEW r \in Request, NEW from, NEW next, NEW thrown,
         Publish(r, from, next, thrown)
  PROVE  /\ pc[r] = from
         /\ \E to \in {next, thrown} : pc' = [pc EXCEPT ![r] = to]
         /\ UNCHANGED <<ports, target, effect, records, sealed>>
BY DEF Publish, Goto

LEMMA RecordStep ==
  ASSUME TypeOK, NEW r \in Request, NEW kind, NEW from, NEW next, NEW thrown,
         Record(r, kind, from, next, thrown)
  PROVE  /\ pc[r] = from
         /\ UNCHANGED <<ports, target, effect>>
         /\ sealed' \in BOOLEAN
         /\ sealed => UNCHANGED records
         /\ sealed' /\ ~sealed => "audit" \in Faults
         /\ pc'[r] = thrown => pc'[r] = next \/ sealed \/ "audit" \in Faults
         /\ \/ /\ pc' = [pc EXCEPT ![r] = next]
               /\ records' = [records EXCEPT ![r] = @ \cup {kind}]
            \/ /\ pc' = [pc EXCEPT ![r] = thrown]
               /\ \/ records' = records
                  \/ records' = [records EXCEPT ![r] = @ \cup {kind}]
<1>1. CASE /\ ~sealed
           /\ Goto(r, from, next)
           /\ records' = [records EXCEPT ![r] = @ \cup {kind}]
           /\ UNCHANGED <<sealed, ports, target, effect>>
      BY <1>1 DEF Goto, TypeOK
<1>2. CASE /\ sealed \/ "audit" \in Faults
           /\ Goto(r, from, thrown)
           /\ UNCHANGED <<records, sealed, ports, target, effect>>
      BY <1>2 DEF Goto, TypeOK
<1>3. CASE /\ ~sealed
           /\ "audit" \in Faults
           /\ Goto(r, from, thrown)
           /\ records' = [records EXCEPT ![r] = @ \cup {kind}]
           /\ UNCHANGED <<sealed, ports, target, effect>>
      BY <1>3 DEF Goto, TypeOK
<1>4. CASE /\ ~sealed
           /\ "audit" \in Faults
           /\ Goto(r, from, thrown)
           /\ sealed' = TRUE
           /\ UNCHANGED <<records, ports, target, effect>>
      BY <1>4 DEF Goto, TypeOK
<1> QED BY <1>1, <1>2, <1>3, <1>4 DEF Record

LEMMA TypeStep == TypeOK /\ [Next]_vars => TypeOK'
<1> SUFFICES ASSUME TypeOK, [Next]_vars PROVE TypeOK'
    OBVIOUS
<1> USE DEF TypeOK
<1>1. CASE \E p \in Port : Register(p)
      BY <1>1 DEF Register
<1>2. CASE \E r \in Request : Execute(r)
      BY <1>2 DEF Execute, Goto, Running
<1>3. ASSUME NEW r \in Request, Proceed(r) PROVE TypeOK'
  <2>1. CASE PublishRequested(r)
        BY <2>1, PublishStep DEF PublishRequested, Running, Answered
  <2>2. CASE Evaluate(r)
        BY <2>2 DEF Evaluate, Goto, Running, Answered
  <2>3. CASE RecordAllowed(r)
        BY <2>3, RecordStep DEF RecordAllowed, Running, Answered, Kind
  <2>4. CASE RecordDenied(r)
        BY <2>4, RecordStep DEF RecordDenied, Running, Answered, Kind
  <2>5. CASE PublishAllowed(r)
        BY <2>5, PublishStep DEF PublishAllowed, Running, Answered
  <2>6. CASE PublishRefused(r)
        BY <2>6, PublishStep DEF PublishRefused, Running, Answered
  <2>7. CASE RecordUnavailable(r)
        BY <2>7, RecordStep DEF RecordUnavailable, Running, Answered, Kind
  <2>8. CASE Handle(r)
        BY <2>8 DEF Handle, Goto, Running
  <2>9. CASE RecordSucceeded(r)
        BY <2>9, RecordStep DEF RecordSucceeded, Running, Answered, Kind
  <2>10. CASE PublishSucceeded(r)
        BY <2>10, PublishStep DEF PublishSucceeded, Running, Answered
  <2>11. CASE RecordFailed(r)
        BY <2>11, RecordStep DEF RecordFailed, Running, Answered, Kind
  <2>12. CASE PublishFailed(r)
        BY <2>12, PublishStep DEF PublishFailed, Running, Answered
  <2> QED BY <1>3, <2>1, <2>2, <2>3, <2>4, <2>5, <2>6, <2>7, <2>8, <2>9, <2>10,
             <2>11, <2>12 DEF Proceed
<1>4. CASE Crash
      BY <1>4 DEF Crash, Answered
<1>5. CASE UNCHANGED vars
      BY <1>5 DEF vars
<1> QED BY <1>1, <1>2, <1>3, <1>4, <1>5 DEF Next

-----------------------------------------------------------------------------
LEMMA AgreesInit == Init => IInv
BY DEF Init, IInv, TypeOK, Agrees

LEMMA AgreesStep == IInv /\ [Next]_vars => IInv'
<1> SUFFICES ASSUME IInv, [Next]_vars PROVE IInv'
    OBVIOUS
<1>a. TypeOK /\ TypeOK'
      BY TypeStep DEF IInv
<1> SUFFICES ASSUME NEW q \in Request PROVE Agrees(q)'
    BY <1>a DEF IInv
<1>b. Agrees(q)
      BY DEF IInv
<1> USE <1>a, <1>b DEF TypeOK, Agrees
<1>1. CASE \E p \in Port : Register(p)
      BY <1>1 DEF Register
<1>2. CASE \E r \in Request : Execute(r)
      BY <1>2 DEF Execute, Goto
<1>3. ASSUME NEW r \in Request, Proceed(r) PROVE Agrees(q)'
  <2>1. CASE PublishRequested(r)
        BY <2>1, PublishStep DEF PublishRequested
  <2>2. CASE Evaluate(r)
        BY <2>2 DEF Evaluate, Goto
  <2>3. CASE RecordAllowed(r)
        BY <2>3, RecordStep DEF RecordAllowed
  <2>4. CASE RecordDenied(r)
        BY <2>4, RecordStep DEF RecordDenied
  <2>5. CASE PublishAllowed(r)
        BY <2>5, PublishStep DEF PublishAllowed
  <2>6. CASE PublishRefused(r)
        BY <2>6, PublishStep DEF PublishRefused
  <2>7. CASE RecordUnavailable(r)
        BY <2>7, RecordStep DEF RecordUnavailable
  <2>8. CASE Handle(r)
        BY <2>8 DEF Handle, Goto
  <2>9. CASE RecordSucceeded(r)
        BY <2>9, RecordStep DEF RecordSucceeded
  <2>10. CASE PublishSucceeded(r)
        BY <2>10, PublishStep DEF PublishSucceeded
  <2>11. CASE RecordFailed(r)
        BY <2>11, RecordStep DEF RecordFailed
  <2>12. CASE PublishFailed(r)
        BY <2>12, PublishStep DEF PublishFailed
  <2> QED BY <1>3, <2>1, <2>2, <2>3, <2>4, <2>5, <2>6, <2>7, <2>8, <2>9, <2>10,
             <2>11, <2>12 DEF Proceed
<1>4. CASE Crash
      BY <1>4 DEF Crash, Running
<1>5. CASE UNCHANGED vars
      BY <1>5 DEF vars
<1> QED BY <1>1, <1>2, <1>3, <1>4, <1>5 DEF Next

(* Every variable keeps its type.                                          *)
THEOREM TypeCorrect == Spec => []TypeOK
<1>1. Init => TypeOK
      BY DEF Init, TypeOK
<1> QED BY <1>1, TypeStep, PTL DEF Spec

(* The inductive invariant.                                                *)
THEOREM Agreement == Spec => []IInv
BY AgreesInit, AgreesStep, PTL DEF Spec

(* A success on record took effect; what took effect has its permission,   *)
(* and no denial, on record.                                               *)
THEOREM RecordsTrue == Spec => []RecordsAreTrue
<1>1. IInv => RecordsAreTrue
      BY DEF IInv, Agrees, RecordsAreTrue
<1> QED BY <1>1, Agreement, PTL

(* What callers are told is what the log says.                             *)
THEOREM AnswersOnRecord == Spec => []AnswersMatchRecords
<1>1. IInv => AnswersMatchRecords
      BY DEF IInv, Agrees, AnswersMatchRecords
<1> QED BY <1>1, Agreement, PTL
(* Nothing is permitted once the log is sealed, and nothing that was not   *)
(* permitted before takes effect.                                          *)
THEOREM SealedGrants == Spec => SealedGrantsNothing
<1>1. ASSUME IInv, IInv', [Next]_vars, sealed, NEW r \in Request,
             "allowed" \notin records[r]
      PROVE  "allowed" \notin records'[r] /\ r \notin effect'
  <2>1. sealed => UNCHANGED records
    <3>1. CASE \E p \in Port : Register(p)
          BY <3>1 DEF Register
    <3>2. ASSUME NEW q \in Request, Execute(q) PROVE UNCHANGED records
          BY <3>2 DEF Execute
    <3>3. ASSUME NEW q \in Request, Proceed(q) PROVE sealed => UNCHANGED records
      <4>1. TypeOK
            BY <1>1 DEF IInv
      <4>2. CASE PublishRequested(q) \/ PublishAllowed(q) \/ PublishRefused(q)
                 \/ PublishSucceeded(q) \/ PublishFailed(q)
            BY <4>2 DEF PublishRequested, PublishAllowed, PublishRefused,
                        PublishSucceeded, PublishFailed, Publish
      <4>3. CASE RecordAllowed(q) \/ RecordDenied(q) \/ RecordUnavailable(q)
                 \/ RecordSucceeded(q) \/ RecordFailed(q)
            BY <4>3 DEF RecordAllowed, RecordDenied, RecordUnavailable,
                        RecordSucceeded, RecordFailed, Record
      <4>4. CASE Evaluate(q) \/ Handle(q)
            BY <4>4 DEF Evaluate, Handle
      <4> QED BY <3>3, <4>2, <4>3, <4>4 DEF Proceed
    <3>4. CASE Crash \/ UNCHANGED vars
          BY <3>4 DEF Crash, vars
    <3> QED BY <1>1, <3>1, <3>2, <3>3, <3>4 DEF Next
  <2> QED BY <1>1, <2>1 DEF IInv, Agrees
<1>2. IInv /\ IInv' /\ [Next]_vars =>
        [ sealed => \A r \in Request :
            "allowed" \notin records[r]
              => "allowed" \notin records'[r] /\ r \notin effect' ]_vars
      BY <1>1
<1> QED BY <1>2, Agreement, PTL DEF Spec, SealedGrantsNothing

-----------------------------------------------------------------------------
(* While the log accepts every append, an answered operation that took     *)
(* effect has an outcome on record.                                        *)
Quiet == ~sealed /\ OutcomeOnRecord

LEMMA QuietStep ==
  ASSUME "audit" \notin Faults, IInv, IInv', Quiet, [Next]_vars
  PROVE  Quiet'
<1>a. TypeOK
      BY DEF IInv
<1> SUFFICES ASSUME NEW q \in Request
             PROVE  /\ ~sealed'
                    /\ q \in effect' /\ pc'[q] \in Answered \ {"lost"}
                         => records'[q] \cap {"succeeded", "failed"} # {}
    <2>1. CASE Request = {}
          BY <2>1, <1>a DEF Quiet, OutcomeOnRecord, Next, Register, Crash, vars, TypeOK
    <2>2. effect' \subseteq Request
          BY DEF IInv, TypeOK
    <2> QED BY <2>1, <2>2 DEF Quiet, OutcomeOnRecord
<1>b. Agrees(q) /\ Agrees(q)'
      BY DEF IInv
<1>c. q \in effect /\ pc[q] \in Answered \ {"lost"}
        => records[q] \cap {"succeeded", "failed"} # {}
      BY DEF Quiet, OutcomeOnRecord
<1>d. ~sealed
      BY DEF Quiet
<1> USE <1>a, <1>b, <1>c, <1>d DEF TypeOK, Agrees
<1>1. CASE \E p \in Port : Register(p)
      BY <1>1 DEF Register
<1>2. CASE \E r \in Request : Execute(r)
      BY <1>2 DEF Execute, Goto, Answered
<1>3. ASSUME NEW r \in Request, Proceed(r)
      PROVE  /\ ~sealed'
             /\ q \in effect' /\ pc'[q] \in Answered \ {"lost"}
                  => records'[q] \cap {"succeeded", "failed"} # {}
  <2>1. CASE PublishRequested(r)
        BY <2>1, PublishStep DEF PublishRequested, Answered
  <2>2. CASE Evaluate(r)
        BY <2>2 DEF Evaluate, Goto, Answered
  <2>3. CASE RecordAllowed(r)
        BY <2>3, RecordStep DEF RecordAllowed, Answered
  <2>4. CASE RecordDenied(r)
        BY <2>4, RecordStep DEF RecordDenied, Answered
  <2>5. CASE PublishAllowed(r)
        BY <2>5, PublishStep DEF PublishAllowed, Answered
  <2>6. CASE PublishRefused(r)
        BY <2>6, PublishStep DEF PublishRefused, Answered
  <2>7. CASE RecordUnavailable(r)
        BY <2>7, RecordStep DEF RecordUnavailable, Answered
  <2>8. CASE Handle(r)
        BY <2>8 DEF Handle, Goto, Answered
  <2>9. CASE RecordSucceeded(r)
        BY <2>9, RecordStep DEF RecordSucceeded, Answered
  <2>10. CASE PublishSucceeded(r)
        BY <2>10, PublishStep DEF PublishSucceeded, Answered
  <2>11. CASE RecordFailed(r)
        BY <2>11, RecordStep DEF RecordFailed, Answered
  <2>12. CASE PublishFailed(r)
        BY <2>12, PublishStep DEF PublishFailed, Answered
  <2> QED BY <1>3, <2>1, <2>2, <2>3, <2>4, <2>5, <2>6, <2>7, <2>8, <2>9, <2>10,
             <2>11, <2>12 DEF Proceed
<1>4. CASE Crash
      BY <1>4 DEF Crash, Answered
<1>5. CASE UNCHANGED vars
      BY <1>5 DEF vars
<1> QED BY <1>1, <1>2, <1>3, <1>4, <1>5 DEF Next

(* The audit log's promise for outcomes, where no append is rejected.      *)
THEOREM OutcomesRecorded ==
  ASSUME "audit" \notin Faults
  PROVE  Spec => []OutcomeOnRecord
<1>1. Init => Quiet
      BY DEF Init, Quiet, OutcomeOnRecord
<1>2. IInv /\ IInv' /\ Quiet /\ [Next]_vars => Quiet'
      BY QuietStep
<1>3. Quiet => OutcomeOnRecord
      BY DEF Quiet
<1> QED BY <1>1, <1>2, <1>3, Agreement, PTL DEF Spec

-----------------------------------------------------------------------------
(* The step simulation.                                                    *)
permittedBar == {r \in Request : "allowed" \in records[r]}
toldBar == [r \in Request |-> Told(r)]

LEMMA ToldStep ==
  ASSUME TypeOK, NEW r \in Request, pc[r] \notin Answered,
         NEW to, pc' = [pc EXCEPT ![r] = to]
  PROVE  /\ toldBar[r] = "nothing"
         /\ to \notin Answered => toldBar' = toldBar
         /\ to \in Answered => toldBar' = [toldBar EXCEPT ![r] = to]
BY DEF toldBar, Told, TypeOK

LEMMA Simulation ==
  ASSUME IInv, IInv', [Next]_vars
  PROVE  [Guarded!Next]_(Guarded!vars)
<1>a. TypeOK /\ TypeOK'
      BY DEF IInv
<1> DEFINE Stutter == permittedBar' = permittedBar /\ effect' = effect /\ toldBar' = toldBar
<1>b. ASSUME Stutter PROVE [Guarded!Next]_(Guarded!vars)
      BY <1>b DEF Guarded!vars, permittedBar, toldBar
<1>1. CASE \E p \in Port : Register(p)
  <2>1. Stutter
        BY <1>1 DEF Register, permittedBar, toldBar, Told
  <2> QED BY <2>1, <1>b
<1>2. ASSUME NEW r \in Request, Execute(r) PROVE [Guarded!Next]_(Guarded!vars)
  <2>1. toldBar' = toldBar
    <3>1. pc[r] = "idle" /\ pc' = [pc EXCEPT ![r] = "requested"]
          BY <1>2 DEF Execute, Goto
    <3>2. pc[r] \notin Answered /\ "requested" \notin Answered
          BY <3>1 DEF Answered
    <3> QED BY <3>1, <3>2, <1>a, ToldStep
  <2>2. Stutter
        BY <1>2, <2>1 DEF Execute, permittedBar
  <2> QED BY <2>2, <1>b
<1>3. ASSUME NEW r \in Request, Proceed(r) PROVE [Guarded!Next]_(Guarded!vars)
  <2> DEFINE Telling(answer) ==
               /\ toldBar[r] = "nothing"
               /\ answer = "accepted" => r \in effect
               /\ answer \in Guarded!Denials => r \notin effect
               /\ toldBar' = [toldBar EXCEPT ![r] = answer]
               /\ \/ permittedBar' = permittedBar
                  \/ answer = "rejected" /\ permittedBar' = permittedBar \cup {r}
               /\ effect' = effect
  <2>a. ASSUME NEW answer \in Guarded!Answers, Telling(answer)
        PROVE  [Guarded!Next]_(Guarded!vars)
    <3>1. Guarded!Tell(r, answer)
          BY <2>a DEF Guarded!Tell, permittedBar, toldBar
    <3> QED BY <3>1 DEF Guarded!Next
  <2>b. Agrees(r) /\ Agrees(r)'
        BY DEF IInv
  <2>c. ASSUME UNCHANGED records PROVE permittedBar' = permittedBar
        BY <2>c DEF permittedBar
  <2>d. ASSUME NEW kind, kind # "allowed",
               records' = [records EXCEPT ![r] = @ \cup {kind}]
        PROVE  permittedBar' = permittedBar
        BY <2>d, <1>a DEF permittedBar, TypeOK
  <2>e. ASSUME records' = [records EXCEPT ![r] = @ \cup {"allowed"}]
        PROVE  permittedBar' = permittedBar \cup {r}
        BY <2>e, <1>a DEF permittedBar, TypeOK
  <2>1. CASE PublishRequested(r)
    <3>1. Stutter \/ Telling("rejected")
          BY <2>1, <1>a, <2>c, PublishStep, ToldStep
             DEF PublishRequested, Answered, Guarded!Denials
    <3> QED BY <3>1, <1>b, <2>a DEF Guarded!Answers
  <2>2. CASE Evaluate(r)
    <3>1. Stutter \/ Telling("rejected")
          BY <2>2, <1>a, <2>c, ToldStep DEF Evaluate, Goto, Answered, Guarded!Denials
    <3> QED BY <3>1, <1>b, <2>a DEF Guarded!Answers
  <2>3. CASE RecordAllowed(r)
    <3>1. \/ /\ toldBar[r] = "nothing" /\ toldBar' = toldBar
             /\ permittedBar' = permittedBar \cup {r} /\ effect' = effect
          \/ Telling("rejected")
          BY <2>3, <1>a, <2>c, <2>e, RecordStep, ToldStep
             DEF RecordAllowed, Answered, Guarded!Denials
    <3>2. ASSUME toldBar[r] = "nothing", toldBar' = toldBar, effect' = effect,
                 permittedBar' = permittedBar \cup {r}
          PROVE  Guarded!Permit(r)
          BY <3>2 DEF Guarded!Permit, permittedBar, toldBar
    <3> QED BY <3>1, <3>2, <2>a DEF Guarded!Answers, Guarded!Next
  <2>4. CASE RecordDenied(r)
    <3>1. Stutter \/ Telling("rejected")
          BY <2>4, <1>a, <2>c, <2>d, RecordStep, ToldStep
             DEF RecordDenied, Answered, Guarded!Denials
    <3> QED BY <3>1, <1>b, <2>a DEF Guarded!Answers
  <2>5. CASE PublishAllowed(r)
    <3>1. Stutter \/ Telling("rejected")
          BY <2>5, <1>a, <2>c, PublishStep, ToldStep
             DEF PublishAllowed, Answered, Guarded!Denials
    <3> QED BY <3>1, <1>b, <2>a DEF Guarded!Answers
  <2>6. CASE PublishRefused(r)
    <3>1. Telling("denied") \/ Telling("rejected")
          BY <2>6, <1>a, <2>b, <2>c, PublishStep, ToldStep
             DEF PublishRefused, Answered, Guarded!Denials, Agrees
    <3> QED BY <3>1, <2>a DEF Guarded!Answers, Guarded!Denials
  <2>7. CASE RecordUnavailable(r)
    <3>1. Telling("unavailable") \/ Telling("rejected")
          BY <2>7, <1>a, <2>b, <2>c, <2>d, RecordStep, ToldStep
             DEF RecordUnavailable, Answered, Guarded!Denials, Agrees
    <3> QED BY <3>1, <2>a DEF Guarded!Answers, Guarded!Denials
  <2>8. CASE Handle(r)
    <3>1. /\ pc[r] = "handle"
          /\ pc' = [pc EXCEPT ![r] = "recordSucceeded"]
             \/ pc' = [pc EXCEPT ![r] = "recordFailed"]
          /\ effect' = effect \/ effect' = effect \cup {r}
          /\ UNCHANGED records
          BY <2>8 DEF Handle, Goto
    <3>2. toldBar[r] = "nothing" /\ toldBar' = toldBar
          BY <3>1, <1>a, ToldStep DEF Answered
    <3>3. r \in permittedBar /\ r \notin effect
          BY <3>1, <2>b DEF Agrees, permittedBar
    <3>4. permittedBar' = permittedBar
          BY <3>1, <2>c
    <3>5. CASE effect' = effect
          BY <3>5, <3>2, <3>4, <1>b
    <3>6. CASE effect' = effect \cup {r}
      <4>1. Guarded!Do(r)
            BY <3>6, <3>2, <3>3, <3>4 DEF Guarded!Do, permittedBar, toldBar
      <4> QED BY <4>1 DEF Guarded!Next
    <3> QED BY <3>1, <3>5, <3>6
  <2>9. CASE RecordSucceeded(r)
    <3>1. Stutter
          BY <2>9, <1>a, <2>c, <2>d, RecordStep, ToldStep DEF RecordSucceeded, Answered
    <3> QED BY <3>1, <1>b
  <2>10. CASE PublishSucceeded(r)
    <3>1. Stutter \/ Telling("accepted")
          BY <2>10, <1>a, <2>b, <2>c, PublishStep, ToldStep
             DEF PublishSucceeded, Answered, Guarded!Denials, Agrees
    <3> QED BY <3>1, <1>b, <2>a DEF Guarded!Answers
  <2>11. CASE RecordFailed(r)
    <3>1. Stutter \/ Telling("rejected")
          BY <2>11, <1>a, <2>c, <2>d, RecordStep, ToldStep
             DEF RecordFailed, Answered, Guarded!Denials
    <3> QED BY <3>1, <1>b, <2>a DEF Guarded!Answers
  <2>12. CASE PublishFailed(r)
    <3>1. Telling("failed") \/ Telling("rejected")
          BY <2>12, <1>a, <2>c, PublishStep, ToldStep
             DEF PublishFailed, Answered, Guarded!Denials
    <3> QED BY <3>1, <2>a DEF Guarded!Answers
  <2> QED BY <1>3, <2>1, <2>2, <2>3, <2>4, <2>5, <2>6, <2>7, <2>8, <2>9, <2>10,
             <2>11, <2>12 DEF Proceed
<1>4. CASE Crash
  <2> DEFINE waiting == {r \in Request : pc[r] \in Running}
  <2>1. waiting \in SUBSET {r \in Request : toldBar[r] = "nothing"}
        BY DEF toldBar, Told, Running, Answered
  <2>2. toldBar' = [r \in Request |-> IF r \in waiting THEN "lost" ELSE toldBar[r]]
        BY <1>4, <1>a DEF Crash, toldBar, Told, Running, Answered, TypeOK
  <2>3. permittedBar' = permittedBar /\ effect' = effect
        BY <1>4 DEF Crash, permittedBar
  <2>4. Guarded!Lose
        BY <2>1, <2>2, <2>3 DEF Guarded!Lose, permittedBar, toldBar
  <2> QED BY <2>4 DEF Guarded!Next
<1>5. CASE UNCHANGED vars
  <2>1. Stutter
        BY <1>5 DEF vars, permittedBar, toldBar, Told
  <2> QED BY <2>1, <1>b
<1> QED BY <1>1, <1>2, <1>3, <1>4, <1>5 DEF Next

(* The gateway implements the guarded operation.                           *)
THEOREM Refinement == Spec => ImplementsGuarded
<1>1. Init => Guarded!Init
      BY DEF Init, Guarded!Init, Told, Answered
<1>2. IInv /\ IInv' /\ [Next]_vars => [Guarded!Next]_(Guarded!vars)
      BY Simulation
<1> QED BY <1>1, <1>2, Agreement, PTL DEF Spec, ImplementsGuarded, Guarded!Spec
=============================================================================

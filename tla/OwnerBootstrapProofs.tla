------------------------ MODULE OwnerBootstrapProofs ------------------------
(***************************************************************************)
(* Theorems about OwnerBootstrap for any set of runs, any assignment of    *)
(* ceremony ids and any set of faults.                                     *)
(*                                                                         *)
(* The argument is ownership: between the step that creates a file with    *)
(* flag 'wx' and the step that gives it up, a run is the only one that     *)
(* writes or removes that file.  Creation succeeds only where no file is,  *)
(* and every unlink is made by a run that still owns what it unlinks, so   *)
(* ownership of one run is never disturbed by a step of another.           *)
(***************************************************************************)
EXTENDS OwnerBootstrap, TLAPS

(* Where a run has an open handle on the file f.                           *)
Writing(p, f) ==
  \/ f = "reservation" /\ pc[p] = "reserveWrite"
  \/ f = "bundle" /\ pc[p] = "bundleWrite"
  \/ f = "package" /\ pc[p] = "packageWrite"

Committing == {"requireReservation", "recordCheck", "tempOpen", "tempWrite", "link", "tempUndo"}
Committed == {"tempDone", "finishCommit"}
HasPackage == Committing \cup {"packageVerify", "packageUndo"}
HasBundle ==
  HasPackage \cup {"packageCheck", "passphrase", "packageOpen", "packageWrite", "bundleUndo"}
HasReservation == HasBundle \cup Committed \cup {"bundleCheck", "bundleOpen", "bundleWrite"}

(* Where a run relies on a complete file f of its own.                     *)
Holding(p, f) ==
  \/ f = "reservation" /\ pc[p] \in HasReservation
  \/ f = "bundle" /\ pc[p] \in HasBundle
  \/ f = "package" /\ pc[p] \in HasPackage
  \/ f \in Artifacts /\ record = p
  \/ pc[p] = "cleanup" /\ f \in todo[p]
  \/ pc[p] = "cleanup" /\ f = "reservation" /\ "abort" \in todo[p]

FilesOwned ==
  \A p \in Proc, f \in FileName :
    /\ Writing(p, f) => disk[f].by = p /\ ~disk[f].whole
    /\ Holding(p, f) => disk[f].by = p /\ disk[f].whole

RecordHeld ==
  \A p \in Proc :
    /\ record = p => pc[p] \in Committed \cup {"done", "crashed"}
    /\ pc[p] \in Committed => record = p

AnswersTrue ==
  \A p \in Proc :
    /\ outcome[p] = "none" <=> pc[p] # "done"
    /\ pc[p] = "done" => (outcome[p] = "succeeded" <=> record = p)

AttemptsTrue ==
  \A a \in attempts : pc[a.by] \in {"cleanup", "done", "crashed"} /\ record # a.by

(* abort reads the reservation once, then unlinks it.                      *)
AbortOnce ==
  \A p \in Proc : ~("abort" \in todo[p] /\ "reservation" \in todo[p])

Owned == FilesOwned /\ RecordHeld /\ AnswersTrue /\ AttemptsTrue /\ AbortOnce

IInv == TypeOK /\ Owned

-----------------------------------------------------------------------------
(* What each file operation leaves in the file it is applied to, and that  *)
(* it leaves the other files alone.                                        *)
LEMMA WriteFacts ==
  ASSUME TypeOK, NEW p \in Proc, NEW f \in FileName, NEW w \in BOOLEAN,
         disk' = [disk EXCEPT ![f] = [by |-> p, whole |-> w]]
  PROVE  /\ disk' \in [FileName -> FileState]
         /\ disk'[f].by = p
         /\ disk'[f].whole = w
         /\ \A g \in FileName : g # f => disk'[g] = disk[g]
<1>1. [by |-> p, whole |-> w] \in FileState
  BY DEF FileState
<1>2. disk \in [FileName -> FileState]
  BY DEF TypeOK
<1> QED
  BY <1>1, <1>2

LEMMA CreateFacts ==
  ASSUME TypeOK, NEW p \in Proc, NEW f \in FileName, CreateFile(p, f)
  PROVE  /\ disk' \in [FileName -> FileState]
         /\ disk[f].by = Nobody
         /\ disk'[f].by = p
         /\ ~disk'[f].whole
         /\ \A g \in FileName : g # f => disk'[g] = disk[g]
  BY WriteFacts DEF CreateFile, Exists

LEMMA CompleteFacts ==
  ASSUME TypeOK, NEW p \in Proc, NEW f \in FileName, CompleteFile(p, f)
  PROVE  /\ disk' \in [FileName -> FileState]
         /\ disk'[f].by = p
         /\ disk'[f].whole
         /\ \A g \in FileName : g # f => disk'[g] = disk[g]
  BY WriteFacts DEF CompleteFile

LEMMA TearFacts ==
  ASSUME TypeOK, NEW p \in Proc, NEW f \in FileName, TearFile(p, f)
  PROVE  /\ disk' \in [FileName -> FileState]
         /\ disk'[f].by = p
         /\ \A g \in FileName : g # f => disk'[g] = disk[g]
<1> PICK w \in BOOLEAN : disk' = [disk EXCEPT ![f] = [by |-> p, whole |-> w]]
  BY DEF TearFile
<1> QED
  BY WriteFacts

LEMMA RemoveFacts ==
  ASSUME TypeOK, NEW f \in FileName, RemoveFile(f)
  PROVE  /\ disk' \in [FileName -> FileState]
         /\ \A g \in FileName : g # f => disk'[g] = disk[g]
<1>1. NoFile \in FileState
  BY DEF FileState, NoFile
<1>2. disk \in [FileName -> FileState]
  BY DEF TypeOK
<1> QED
  BY <1>1, <1>2 DEF RemoveFile

(* Type correctness: every label, task, outcome and file content is one of *)
(* those the code can produce.                                             *)
THEOREM TypeCorrect == Spec => []TypeOK
<1>1. Init => TypeOK
  BY DEF Init, TypeOK, FileState, NoFile, Labels, Outcomes, Tasks
<1>2. TypeOK /\ [Next]_vars => TypeOK'
  <2> SUFFICES ASSUME TypeOK, [Next]_vars PROVE TypeOK'
    OBVIOUS
  <2> "reservation" \in FileName /\ "bundle" \in FileName /\ "package" \in FileName
    BY DEF FileName
  <2> USE DEF TypeOK, Labels, Tasks, Outcomes, Artifacts,
          Goto, Settle, Throw, CannotCreate, UnlinkTemp, CleanupTask
  <2>1. ASSUME NEW p \in Proc, Accept(p) PROVE TypeOK'
    BY <2>1 DEF Accept
  <2>2. ASSUME NEW p \in Proc, Reject(p) PROVE TypeOK'
    BY <2>2 DEF Reject
  <2>3. ASSUME NEW p \in Proc, ReserveCheck(p) PROVE TypeOK'
    BY <2>3 DEF ReserveCheck
  <2>4. ASSUME NEW p \in Proc, ReserveOpen(p) PROVE TypeOK'
    BY <2>4, CreateFacts DEF ReserveOpen
  <2>5. ASSUME NEW p \in Proc, ReserveWrite(p) PROVE TypeOK'
    BY <2>5, CompleteFacts, TearFacts DEF ReserveWrite
  <2>6. ASSUME NEW p \in Proc, DenyAudit(p) PROVE TypeOK'
    BY <2>6 DEF DenyAudit
  <2>7. ASSUME NEW p \in Proc, BundleCheck(p) PROVE TypeOK'
    BY <2>7 DEF BundleCheck
  <2>8. ASSUME NEW p \in Proc, BundleOpen(p) PROVE TypeOK'
    BY <2>8, CreateFacts DEF BundleOpen
  <2>9. ASSUME NEW p \in Proc, BundleWrite(p) PROVE TypeOK'
    BY <2>9, CompleteFacts, TearFacts DEF BundleWrite
  <2>10. ASSUME NEW p \in Proc, BundleUndo(p) PROVE TypeOK'
    BY <2>10, RemoveFacts DEF BundleUndo
  <2>11. ASSUME NEW p \in Proc, PackageCheck(p) PROVE TypeOK'
    BY <2>11 DEF PackageCheck
  <2>12. ASSUME NEW p \in Proc, Passphrase(p) PROVE TypeOK'
    BY <2>12 DEF Passphrase
  <2>13. ASSUME NEW p \in Proc, PackageOpen(p) PROVE TypeOK'
    BY <2>13, CreateFacts DEF PackageOpen
  <2>14. ASSUME NEW p \in Proc, PackageWrite(p) PROVE TypeOK'
    BY <2>14, CompleteFacts, TearFacts DEF PackageWrite
  <2>15. ASSUME NEW p \in Proc, PackageVerify(p) PROVE TypeOK'
    BY <2>15 DEF PackageVerify
  <2>16. ASSUME NEW p \in Proc, PackageUndo(p) PROVE TypeOK'
    BY <2>16, RemoveFacts DEF PackageUndo
  <2>17. ASSUME NEW p \in Proc, RequireReservation(p) PROVE TypeOK'
    BY <2>17 DEF RequireReservation
  <2>18. ASSUME NEW p \in Proc, RecordCheck(p) PROVE TypeOK'
    BY <2>18 DEF RecordCheck
  <2>19. ASSUME NEW p \in Proc, TempOpen(p) PROVE TypeOK'
    BY <2>19 DEF TempOpen
  <2>20. ASSUME NEW p \in Proc, TempWrite(p) PROVE TypeOK'
    BY <2>20 DEF TempWrite
  <2>21. ASSUME NEW p \in Proc, Link(p) PROVE TypeOK'
    BY <2>21 DEF Link
  <2>22. ASSUME NEW p \in Proc, TempUndo(p) PROVE TypeOK'
    BY <2>22 DEF TempUndo
  <2>23. ASSUME NEW p \in Proc, TempDone(p) PROVE TypeOK'
    BY <2>23 DEF TempDone
  <2>24. ASSUME NEW p \in Proc, FinishCommit(p) PROVE TypeOK'
    BY <2>24, RemoveFacts DEF FinishCommit
  <2>25. ASSUME NEW p \in Proc, AbortRead(p) PROVE TypeOK'
    BY <2>25 DEF AbortRead
  <2>26. ASSUME NEW p \in Proc, CleanupAudit(p) PROVE TypeOK'
    BY <2>26 DEF CleanupAudit
  <2>27. ASSUME NEW p \in Proc, Fail(p) PROVE TypeOK'
    BY <2>27 DEF Fail
  <2>28. ASSUME NEW p \in Proc, Crash(p) PROVE TypeOK'
    BY <2>28 DEF Crash
  <2>29. ASSUME NEW p \in Proc, NEW f \in FileName, CleanupUnlink(p, f) PROVE TypeOK'
    BY <2>29, RemoveFacts DEF CleanupUnlink
  <2>30. CASE UNCHANGED vars
    BY <2>30 DEF vars
  <2> QED
    BY <2>1, <2>2, <2>3, <2>4, <2>5, <2>6, <2>7, <2>8, <2>9, <2>10, <2>11, <2>12, <2>13, <2>14,
       <2>15, <2>16, <2>17, <2>18, <2>19, <2>20, <2>21, <2>22, <2>23, <2>24, <2>25, <2>26,
       <2>27, <2>28, <2>29, <2>30 DEF Next, Step
<1> QED
  BY <1>1, <1>2, PTL DEF Spec
(* IInv is inductive.                                                      *)
LEMMA IInvInit == Init => IInv
  BY NobodyAssumption DEF Init, IInv, Owned, TypeOK, FilesOwned, RecordHeld, AnswersTrue,
     AttemptsTrue, AbortOnce, FileState, NoFile, Writing, Holding,
    Labels, Outcomes, Tasks, Committed, HasReservation, HasBundle, HasPackage, Committing, Artifacts

LEMMA ThrowFacts ==
  ASSUME TypeOK, NEW p \in Proc, NEW from, NEW A \in SUBSET Artifacts, Throw(p, from, A)
  PROVE  /\ pc[p] = from
         /\ pc'[p] = "cleanup"
         /\ \A f \in FileName : f \in todo'[p] => f \in A
         /\ \A q \in Proc : q # p => pc'[q] = pc[q] /\ todo'[q] = todo[q]
         /\ outcome' = outcome
  BY DEF TypeOK, Throw, FileName

LEMMA IInvStep == IInv /\ TypeOK' /\ [Next]_vars => IInv'
<1> SUFFICES ASSUME IInv, TypeOK', [Next]_vars
             PROVE  Owned'
  BY DEF IInv
<1> "reservation" \in FileName /\ "bundle" \in FileName /\ "package" \in FileName
  BY DEF FileName
<1> USE NobodyAssumption DEF IInv, Owned, TypeOK, FilesOwned, RecordHeld, AnswersTrue,
                             AttemptsTrue, AbortOnce,
     Writing, Holding, Artifacts, Committing, Committed, HasPackage, HasBundle, HasReservation,
     Goto, Settle, CannotCreate, UnlinkTemp, CleanupTask
<1>1. ASSUME NEW p \in Proc, Accept(p) PROVE Owned'
  BY <1>1 DEF Accept
<1>2. ASSUME NEW p \in Proc, Reject(p) PROVE Owned'
  BY <1>2 DEF Reject
<1>3. ASSUME NEW p \in Proc, ReserveCheck(p) PROVE Owned'
  BY <1>3 DEF ReserveCheck
<1>4. ASSUME NEW p \in Proc, ReserveOpen(p) PROVE Owned'
  BY <1>4, CreateFacts DEF ReserveOpen
<1>5. ASSUME NEW p \in Proc, ReserveWrite(p) PROVE Owned'
  BY <1>5, CompleteFacts, TearFacts DEF ReserveWrite
<1>6. ASSUME NEW p \in Proc, DenyAudit(p) PROVE Owned'
  BY <1>6 DEF DenyAudit
<1>7. ASSUME NEW p \in Proc, BundleCheck(p) PROVE Owned'
  BY <1>7, ThrowFacts DEF BundleCheck
<1>8. ASSUME NEW p \in Proc, BundleOpen(p) PROVE Owned'
  BY <1>8, CreateFacts, ThrowFacts DEF BundleOpen
<1>9. ASSUME NEW p \in Proc, BundleWrite(p) PROVE Owned'
  BY <1>9, CompleteFacts, TearFacts, ThrowFacts DEF BundleWrite
<1>10. ASSUME NEW p \in Proc, BundleUndo(p) PROVE Owned'
  BY <1>10, RemoveFacts, ThrowFacts DEF BundleUndo
<1>11. ASSUME NEW p \in Proc, PackageCheck(p) PROVE Owned'
  BY <1>11 DEF PackageCheck
<1>12. ASSUME NEW p \in Proc, Passphrase(p) PROVE Owned'
  BY <1>12 DEF Passphrase
<1>13. ASSUME NEW p \in Proc, PackageOpen(p) PROVE Owned'
  BY <1>13, CreateFacts DEF PackageOpen
<1>14. ASSUME NEW p \in Proc, PackageWrite(p) PROVE Owned'
  BY <1>14, CompleteFacts, TearFacts DEF PackageWrite
<1>15. ASSUME NEW p \in Proc, PackageVerify(p) PROVE Owned'
  BY <1>15 DEF PackageVerify
<1>16. ASSUME NEW p \in Proc, PackageUndo(p) PROVE Owned'
  BY <1>16, RemoveFacts DEF PackageUndo
<1>17. ASSUME NEW p \in Proc, RequireReservation(p) PROVE Owned'
  BY <1>17, ThrowFacts DEF RequireReservation
<1>18. ASSUME NEW p \in Proc, RecordCheck(p) PROVE Owned'
  BY <1>18, ThrowFacts DEF RecordCheck
<1>19. ASSUME NEW p \in Proc, TempOpen(p) PROVE Owned'
  BY <1>19, ThrowFacts DEF TempOpen
<1>20. ASSUME NEW p \in Proc, TempWrite(p) PROVE Owned'
  BY <1>20, ThrowFacts DEF TempWrite
<1>21. ASSUME NEW p \in Proc, Link(p) PROVE Owned'
  BY <1>21 DEF Link
<1>22. ASSUME NEW p \in Proc, TempUndo(p) PROVE Owned'
  BY <1>22, ThrowFacts DEF TempUndo
<1>23. ASSUME NEW p \in Proc, TempDone(p) PROVE Owned'
  BY <1>23 DEF TempDone
<1>24. ASSUME NEW p \in Proc, FinishCommit(p) PROVE Owned'
  BY <1>24, RemoveFacts DEF FinishCommit
<1>25. ASSUME NEW p \in Proc, AbortRead(p) PROVE Owned'
  BY <1>25 DEF AbortRead
<1>26. ASSUME NEW p \in Proc, CleanupAudit(p) PROVE Owned'
  BY <1>26 DEF CleanupAudit
<1>27. ASSUME NEW p \in Proc, Fail(p) PROVE Owned'
  BY <1>27 DEF Fail
<1>28. ASSUME NEW p \in Proc, Crash(p) PROVE Owned'
  BY <1>28 DEF Crash, Ended
<1>29. ASSUME NEW p \in Proc, NEW f \in FileName, CleanupUnlink(p, f) PROVE Owned'
  <2>1. disk[f].by = p /\ record # p
    BY <1>29 DEF CleanupUnlink
  <2>2. f \notin todo'[p] /\ \A g \in FileName : g \in todo'[p] => g \in todo[p]
    BY <1>29 DEF CleanupUnlink
  <2>3. "abort" \in todo'[p] => "abort" \in todo[p]
    BY <1>29 DEF CleanupUnlink
  <2>4. /\ pc' = pc /\ record' = record /\ outcome' = outcome /\ attempts' = attempts
        /\ \A q \in Proc : q # p => todo'[q] = todo[q]
    BY <1>29 DEF CleanupUnlink
  <2>5. ASSUME NEW q \in Proc, NEW g \in FileName PROVE Holding(q, g)' => Holding(q, g) /\ g # f
    <3>1. CASE q = p
      BY <3>1, <2>1, <2>2, <2>3, <2>4, <1>29 DEF CleanupUnlink
    <3>2. CASE q # p
      BY <3>2, <2>1, <2>4
    <3> QED
      BY <3>1, <3>2
  <2>6. ASSUME NEW q \in Proc, NEW g \in FileName PROVE Writing(q, g)' => Writing(q, g) /\ g # f
    BY <2>1, <2>4, <1>29 DEF CleanupUnlink
  <2>7. \A g \in FileName : g # f => disk'[g] = disk[g]
    BY <1>29, RemoveFacts DEF CleanupUnlink
  <2>8. FilesOwned'
    BY <2>5, <2>6, <2>7
  <2> QED
    BY <2>2, <2>3, <2>4, <2>8
<1>30. CASE UNCHANGED vars
  BY <1>30 DEF vars
<1> QED
  BY <1>1, <1>2, <1>3, <1>4, <1>5, <1>6, <1>7, <1>8, <1>9, <1>10, <1>11, <1>12, <1>13, <1>14,
     <1>15, <1>16, <1>17, <1>18, <1>19, <1>20, <1>21, <1>22, <1>23, <1>24, <1>25, <1>26, <1>27,
     <1>28, <1>29, <1>30 DEF Next, Step

THEOREM Ownership == Spec => []IInv
<1>1. TypeOK /\ TypeOK' /\ IInv /\ [Next]_vars => IInv'
  BY IInvStep
<1> QED
  BY <1>1, IInvInit, TypeCorrect, PTL DEF Spec

(* The permanent record always stands on complete artifacts of the run     *)
(* that linked it, whatever runs, faults and crashes there are.            *)
THEOREM RecordIsBacked == Spec => []RecordBacked
<1>1. IInv => RecordBacked
  <2> SUFFICES ASSUME IInv, NEW p \in Proc, record = p, NEW f \in Artifacts
               PROVE  disk[f] = [by |-> p, whole |-> TRUE]
    BY DEF RecordBacked
  <2>1. f \in FileName
    BY DEF FileName, Artifacts
  <2>2. disk[f] \in FileState
    BY <2>1 DEF IInv, TypeOK
  <2>3. disk[f].by = p /\ disk[f].whole
    BY <2>1 DEF IInv, Owned, FilesOwned, Holding
  <2> QED
    BY <2>2, <2>3 DEF FileState
<1> QED
  BY <1>1, Ownership, PTL

(* A run learns that it established the Owner exactly when it did, and is  *)
(* never logged as denied or failed if it did.                             *)
THEOREM AnswersAreHonest == Spec => []HonestOutcome
<1>1. IInv => HonestOutcome
  BY DEF IInv, Owned, HonestOutcome, AnswersTrue, AttemptsTrue
<1> QED
  BY <1>1, Ownership, PTL

(* A run in its ceremony owns the reservation.                             *)
LEMMA CeremonyOwns ==
  ASSUME IInv, NEW p \in Proc, InCeremony(p)
  PROVE  disk["reservation"].by = p
<1>1. "reservation" \in FileName
  BY DEF FileName
<1>2. Writing(p, "reservation") \/ Holding(p, "reservation")
  BY DEF InCeremony, Writing, Holding, HasReservation, HasBundle, HasPackage, Committing,
     Committed
<1> QED
  BY <1>1, <1>2 DEF IInv, Owned, FilesOwned

(* Two runs are never in the ceremony at the same time.                    *)
THEOREM CeremonyIsExclusive == Spec => []ExclusiveCeremony
<1>1. IInv => ExclusiveCeremony
  BY CeremonyOwns DEF ExclusiveCeremony
<1> QED
  BY <1>1, Ownership, PTL

(* While the reservation is abandoned no run is in the ceremony, and only  *)
(* such a run writes or removes the reservation or links a record; a new   *)
(* reservation finds the old one there.                                    *)
LEMMA AbandonedStands ==
  ASSUME IInv, Abandoned, Next
  PROVE  record' = record /\ disk'["reservation"] = disk["reservation"]
<1> DEFINE Same == record' = record /\ disk'["reservation"] = disk["reservation"]
<1>0. /\ "reservation" \in FileName /\ "bundle" \in FileName /\ "package" \in FileName
      /\ TypeOK
  BY DEF FileName, IInv
<1>1. \A p \in Proc : ~InCeremony(p)
  BY CeremonyOwns DEF Abandoned
<1>2. Exists("reservation")
  BY DEF Abandoned
<1>3. PICK p \in Proc : Step(p) \/ Crash(p)
  BY DEF Next
<1>4. CASE Accept(p) \/ Reject(p) \/ ReserveCheck(p) \/ DenyAudit(p) \/ BundleCheck(p)
           \/ PackageCheck(p) \/ Passphrase(p) \/ PackageVerify(p) \/ RequireReservation(p)
  BY <1>4 DEF Accept, Reject, ReserveCheck, DenyAudit, BundleCheck, PackageCheck, Passphrase,
     PackageVerify, RequireReservation
<1>5. CASE RecordCheck(p) \/ TempOpen(p) \/ TempWrite(p) \/ TempUndo(p) \/ TempDone(p)
           \/ AbortRead(p) \/ CleanupAudit(p) \/ Fail(p) \/ Crash(p)
  BY <1>5 DEF RecordCheck, TempOpen, TempWrite, TempUndo, TempDone, AbortRead, CleanupAudit,
     CleanupTask, Fail, Crash
<1>6. CASE ReserveOpen(p)
  BY <1>2, <1>6 DEF ReserveOpen, CreateFile
<1>7. CASE BundleOpen(p) \/ PackageOpen(p)
  BY <1>0, <1>7, CreateFacts DEF BundleOpen, PackageOpen, CannotCreate
<1>8. CASE BundleWrite(p) \/ PackageWrite(p)
  BY <1>0, <1>8, CompleteFacts, TearFacts DEF BundleWrite, PackageWrite
<1>9. CASE BundleUndo(p) \/ PackageUndo(p)
  BY <1>0, <1>9, RemoveFacts DEF BundleUndo, PackageUndo
<1>10. CASE ReserveWrite(p) \/ Link(p) \/ FinishCommit(p)
  <2>1. pc[p] \in {"reserveWrite", "link", "finishCommit"}
    BY <1>10 DEF ReserveWrite, Link, FinishCommit, Goto, Settle
  <2> QED
    BY <1>1, <2>1 DEF InCeremony
<1>11. ASSUME NEW f \in FileName, CleanupUnlink(p, f) PROVE Same
  <2>1. f # "reservation"
    BY <1>1, <1>11 DEF CleanupUnlink, CleanupTask, InCeremony
  <2> QED
    BY <1>0, <1>11, <2>1, RemoveFacts DEF CleanupUnlink, CleanupTask
<1> QED
  BY <1>3, <1>4, <1>5, <1>6, <1>7, <1>8, <1>9, <1>10, <1>11 DEF Step

(* The ceremony fails closed: under any faults and with any sharing of     *)
(* ceremony ids, an abandoned reservation stands for good, and no Owner is *)
(* established under it.                                                   *)
THEOREM AbandonmentIsFinal == Spec => AbandonedIsFinal
<1>1. IInv /\ [Next]_vars =>
        [Abandoned => record' = record /\ disk'["reservation"] = disk["reservation"]]_vars
  BY AbandonedStands
<1> QED
  BY <1>1, Ownership, PTL DEF Spec, AbandonedIsFinal

-----------------------------------------------------------------------------
(* Refinement.  Only the whole artifacts of one run can be there at a      *)
(* time, so Keys is empty or a singleton.                                  *)

LEMMA KeysAtMostOne ==
  ASSUME NEW p \in Proc, NEW f \in Artifacts, disk[f].by = p
  PROVE  Keys \subseteq {p}
BY DEF Keys

LEMMA KeysNone ==
  ASSUME NEW f \in Artifacts, disk[f].by = Nobody \/ ~disk[f].whole
  PROVE  Keys = {}
BY NobodyAssumption DEF Keys

LEMMA KeysSame ==
  ASSUME \A f \in Artifacts : disk'[f] = disk[f]
  PROVE  Keys' = Keys
BY DEF Keys

LEMMA AnswerSame ==
  ASSUME outcome' = outcome
  PROVE  Answer' = Answer
BY DEF Answer

LEMMA Settled ==
  ASSUME IInv, NEW p \in Proc, NEW from, NEW a \in Outcomes \ {"none"},
         Settle(p, from, a), from # "done"
  PROVE  /\ Answer[p] = "none"
         /\ Answer' = [Answer EXCEPT ![p] = IF a = "succeeded" THEN "established" ELSE "refused"]
<1>1. outcome[p] = "none"
  BY DEF Settle, IInv, Owned, AnswersTrue
<1>2. outcome' = [outcome EXCEPT ![p] = a]
  BY DEF Settle
<1> QED
  BY <1>1, <1>2 DEF Answer, IInv, TypeOK

LEMMA RefinementStep == IInv /\ IInv' /\ [Next]_vars => [Establishment!Next]_Establishment!vars
<1> SUFFICES ASSUME IInv, IInv', [Next]_vars
             PROVE  Establishment!Next \/ UNCHANGED Establishment!vars
  OBVIOUS
<1> DEFINE Stutter == record' = record /\ Keys' = Keys /\ Answer' = Answer
<1>0. Stutter => UNCHANGED Establishment!vars
  BY DEF Establishment!vars
<1>ref. ASSUME NEW p \in Proc, NEW from \in Labels \ (Committed \cup {"done", "crashed"}),
               NEW a \in {"denied", "error", "failed"}, Settle(p, from, a),
               record' = record, Keys' = Keys
        PROVE  Establishment!Refuse(p)
  <2>1. pc[p] = from /\ a \in Outcomes \ {"none"} /\ a # "succeeded" /\ from # "done"
    BY <1>ref DEF Settle, Outcomes
  <2>2. record # p
    BY <2>1 DEF IInv, Owned, RecordHeld
  <2> QED
    BY <1>ref, <2>1, <2>2, Settled DEF Establishment!Refuse
<1>keys. ASSUME NEW p \in Proc, NEW f \in Artifacts, Writing(p, f),
                disk'[f].by = p, \A g \in FileName : g # f => disk'[g] = disk[g],
                record' = record, Answer' = Answer, outcome[p] = "none"
         PROVE  Establishment!Provision(p) \/ Stutter
  <2>1. f \in FileName
    BY DEF Artifacts, FileName
  <2>2. disk[f].by = p /\ ~disk[f].whole /\ record # p
    BY <1>keys, <2>1 DEF IInv, Owned, FilesOwned, RecordHeld, Writing, Committed
  <2>3. Keys = {}
    BY <2>2, KeysNone
  <2>4. Keys' \subseteq {p}
    BY <1>keys DEF Keys
  <2>5. record = Nobody
    <3>1. ASSUME NEW q \in Proc, record = q PROVE FALSE
      BY <3>1, <2>1, <2>2 DEF IInv, Owned, FilesOwned, Holding
    <3> QED
      BY <3>1 DEF IInv, TypeOK
  <2>6. Answer[p] = "none"
    BY <1>keys DEF Answer
  <2> QED
    BY <1>keys, <2>3, <2>4, <2>5, <2>6 DEF Establishment!Provision
<1>drop. ASSUME NEW p \in Proc, NEW f \in Artifacts, Holding(p, f), record # p,
                RemoveFile(f), record' = record, Answer' = Answer
         PROVE  Establishment!Withdraw(p) \/ Stutter
  <2>1. f \in FileName
    BY DEF Artifacts, FileName
  <2>2. disk[f].by = p
    BY <1>drop, <2>1 DEF IInv, Owned, FilesOwned
  <2>3. Keys \subseteq {p}
    BY <2>2, KeysAtMostOne
  <2>4. CASE UNCHANGED disk
    BY <2>4, <1>drop, KeysSame
  <2>5. CASE disk' = [disk EXCEPT ![f] = NoFile]
    <3>1. disk'[f] = NoFile
      BY <2>5, <2>1 DEF IInv, TypeOK
    <3>2. Keys' = {}
      BY <3>1, NobodyAssumption DEF Keys, NoFile
    <3>3. CASE Keys = {}
      BY <3>2, <3>3, <1>drop
    <3>4. CASE Keys = {p}
      BY <3>2, <3>4, <1>drop DEF Establishment!Withdraw
    <3> QED
      BY <3>3, <3>4, <2>3
  <2> QED
    BY <2>4, <2>5, <1>drop DEF RemoveFile
<1>files. "reservation" \in FileName /\ "bundle" \in FileName /\ "package" \in FileName
  BY DEF FileName
<1>arts. "reservation" \notin Artifacts /\ Artifacts \subseteq FileName
  BY DEF Artifacts, FileName
<1>1. ASSUME NEW p \in Proc, Accept(p) PROVE Stutter
  BY <1>1, KeysSame, AnswerSame DEF Accept, Goto, Throw, CleanupTask
<1>2. ASSUME NEW p \in Proc, Reject(p) PROVE Stutter
  BY <1>2, KeysSame, AnswerSame DEF Reject, Goto, Throw, CleanupTask
<1>3. ASSUME NEW p \in Proc, ReserveCheck(p) PROVE Stutter
  BY <1>3, KeysSame, AnswerSame DEF ReserveCheck, Goto, Throw, CleanupTask
<1>4. ASSUME NEW p \in Proc, BundleCheck(p) PROVE Stutter
  BY <1>4, KeysSame, AnswerSame DEF BundleCheck, Goto, Throw, CleanupTask
<1>5. ASSUME NEW p \in Proc, PackageCheck(p) PROVE Stutter
  BY <1>5, KeysSame, AnswerSame DEF PackageCheck, Goto, Throw, CleanupTask
<1>6. ASSUME NEW p \in Proc, Passphrase(p) PROVE Stutter
  BY <1>6, KeysSame, AnswerSame DEF Passphrase, Goto, Throw, CleanupTask
<1>7. ASSUME NEW p \in Proc, PackageVerify(p) PROVE Stutter
  BY <1>7, KeysSame, AnswerSame DEF PackageVerify, Goto, Throw, CleanupTask
<1>8. ASSUME NEW p \in Proc, RequireReservation(p) PROVE Stutter
  BY <1>8, KeysSame, AnswerSame DEF RequireReservation, Goto, Throw, CleanupTask
<1>9. ASSUME NEW p \in Proc, RecordCheck(p) PROVE Stutter
  BY <1>9, KeysSame, AnswerSame DEF RecordCheck, Goto, Throw, CleanupTask
<1>10. ASSUME NEW p \in Proc, TempOpen(p) PROVE Stutter
  BY <1>10, KeysSame, AnswerSame DEF TempOpen, Goto, Throw, CleanupTask
<1>11. ASSUME NEW p \in Proc, TempWrite(p) PROVE Stutter
  BY <1>11, KeysSame, AnswerSame DEF TempWrite, Goto, Throw, CleanupTask
<1>12. ASSUME NEW p \in Proc, TempUndo(p) PROVE Stutter
  BY <1>12, KeysSame, AnswerSame DEF TempUndo, Goto, Throw, CleanupTask
<1>13. ASSUME NEW p \in Proc, TempDone(p) PROVE Stutter
  BY <1>13, KeysSame, AnswerSame DEF TempDone, Goto, Throw, CleanupTask
<1>14. ASSUME NEW p \in Proc, AbortRead(p) PROVE Stutter
  BY <1>14, KeysSame, AnswerSame DEF AbortRead, Goto, Throw, CleanupTask
<1>15. ASSUME NEW p \in Proc, CleanupAudit(p) PROVE Stutter
  BY <1>15, KeysSame, AnswerSame DEF CleanupAudit, Goto, Throw, CleanupTask
<1>16. ASSUME NEW p \in Proc, Crash(p) PROVE Stutter
  BY <1>16, KeysSame, AnswerSame DEF Crash, Goto, Throw, CleanupTask
<1>17. ASSUME NEW p \in Proc, ReserveOpen(p) PROVE Stutter \/ Establishment!Next
  <2>1. CASE outcome' = outcome /\ Goto(p, "reserveOpen", "denyAudit") /\ UNCHANGED disk
    BY <1>17, <2>1, KeysSame, AnswerSame DEF ReserveOpen
  <2>2. CASE CreateFile(p, "reservation") /\ Goto(p, "reserveOpen", "reserveWrite")
    <3>1. Keys' = Keys
      BY <2>2, <1>files, <1>arts, CreateFacts, KeysSame DEF IInv
    <3> QED
      BY <1>17, <2>2, <3>1, AnswerSame DEF ReserveOpen, Goto
  <2>3. CASE Settle(p, "reserveOpen", "error") /\ UNCHANGED disk
    <3>1. Keys' = Keys
      BY <2>3, KeysSame
    <3> QED
      BY <1>17, <2>3, <3>1, <1>ref DEF ReserveOpen, Labels, Committed, Establishment!Next
  <2> QED
    BY <1>17, <2>1, <2>2, <2>3 DEF ReserveOpen, Goto
<1>18. ASSUME NEW p \in Proc, ReserveWrite(p) PROVE Stutter \/ Establishment!Next
  <2>1. Keys' = Keys
    BY <1>18, <1>files, <1>arts, CompleteFacts, TearFacts, KeysSame DEF ReserveWrite, IInv
  <2>2. CASE Goto(p, "reserveWrite", "bundleCheck")
    BY <1>18, <2>1, <2>2, AnswerSame DEF ReserveWrite, Goto
  <2>3. CASE Settle(p, "reserveWrite", "error")
    BY <1>18, <2>1, <2>3, <1>ref DEF ReserveWrite, Labels, Committed, Establishment!Next
  <2> QED
    BY <1>18, <2>2, <2>3 DEF ReserveWrite
<1>19. ASSUME NEW p \in Proc, DenyAudit(p) PROVE Stutter \/ Establishment!Next
  <2>1. record' = record /\ Keys' = Keys
    BY <1>19, KeysSame DEF DenyAudit
  <2>2. PICK a \in {"denied", "error"} : Settle(p, "denyAudit", a)
    BY <1>19 DEF DenyAudit
  <2> QED
    BY <2>1, <2>2, <1>ref DEF Labels, Committed, Establishment!Next
<1>20. ASSUME NEW p \in Proc, Fail(p) PROVE Stutter \/ Establishment!Next
  <2>1. record' = record /\ Keys' = Keys
    BY <1>20, KeysSame DEF Fail
  <2>2. Settle(p, "cleanup", "failed")
    BY <1>20 DEF Fail
  <2> QED
    BY <2>1, <2>2, <1>ref DEF Labels, Committed, Establishment!Next
<1>21. ASSUME NEW p \in Proc, FinishCommit(p) PROVE Stutter \/ Establishment!Next
  <2>1. Keys' = Keys
    BY <1>21, <1>files, <1>arts, RemoveFacts, KeysSame DEF FinishCommit, IInv
  <2>2. Settle(p, "finishCommit", "succeeded") /\ record' = record
    BY <1>21 DEF FinishCommit
  <2>3. record = p
    BY <2>2 DEF Settle, IInv, Owned, RecordHeld, Committed
  <2> QED
    BY <2>1, <2>2, <2>3, Settled DEF Outcomes, Establishment!Confirm, Establishment!Next
<1>22. ASSUME NEW p \in Proc, Link(p) PROVE Stutter \/ Establishment!Next
  <2>1. Keys' = Keys /\ Answer' = Answer
    BY <1>22, KeysSame, AnswerSame DEF Link, Goto
  <2>2. CASE UNCHANGED record
    BY <2>1, <2>2
  <2>3. CASE record = Nobody /\ record' = p
    <3>1. \A f \in Artifacts : Holding(p, f) /\ disk[f] \in FileState
      BY <1>22, <1>arts DEF Link, Goto, Holding, HasBundle, HasPackage, Committing, Artifacts,
         IInv, TypeOK
    <3>2. \A f \in Artifacts : disk[f] = [by |-> p, whole |-> TRUE]
      BY <3>1, <1>arts DEF IInv, Owned, FilesOwned, FileState
    <3>3. p \in Keys
      BY <3>2 DEF Keys
    <3>4. Keys = {p}
      BY <3>2, <3>3, KeysAtMostOne DEF Artifacts
    <3>5. Answer[p] = "none"
      BY <1>22 DEF Link, Goto, Answer, IInv, Owned, AnswersTrue
    <3> QED
      BY <2>1, <2>3, <3>4, <3>5 DEF Establishment!Establish, Establishment!Next
  <2> QED
    BY <1>22, <2>2, <2>3 DEF Link
<1>23. ASSUME NEW p \in Proc, BundleOpen(p) PROVE Stutter \/ Establishment!Next
  <2>1. record' = record /\ Answer' = Answer
    BY <1>23, AnswerSame DEF BundleOpen, Goto, Throw
  <2>2. CASE CreateFile(p, "bundle")
    <3>1. Keys = {}
      BY <2>2, <1>files, CreateFacts, KeysNone DEF IInv, Artifacts
    <3>2. Keys' = {}
      BY <2>2, <1>files, CreateFacts DEF IInv, Keys, Artifacts
    <3> QED
      BY <2>1, <3>1, <3>2
  <2>3. CASE UNCHANGED disk
    BY <2>1, <2>3, KeysSame
  <2> QED
    BY <1>23, <2>2, <2>3 DEF BundleOpen, CannotCreate
<1>24. ASSUME NEW p \in Proc, PackageOpen(p) PROVE Stutter \/ Establishment!Next
  <2>1. record' = record /\ Answer' = Answer
    BY <1>24, AnswerSame DEF PackageOpen, Goto, Throw
  <2>2. CASE CreateFile(p, "package")
    <3>1. Keys = {}
      BY <2>2, <1>files, CreateFacts, KeysNone DEF IInv, Artifacts
    <3>2. Keys' = {}
      BY <2>2, <1>files, CreateFacts DEF IInv, Keys, Artifacts
    <3> QED
      BY <2>1, <3>1, <3>2
  <2>3. CASE UNCHANGED disk
    BY <2>1, <2>3, KeysSame
  <2> QED
    BY <1>24, <2>2, <2>3 DEF PackageOpen, CannotCreate
<1>25. ASSUME NEW p \in Proc, BundleWrite(p) PROVE Stutter \/ Establishment!Next
  <2>1. record' = record /\ Answer' = Answer /\ Writing(p, "bundle") /\ outcome[p] = "none"
    BY <1>25, AnswerSame DEF BundleWrite, Goto, Throw, Writing, IInv, Owned, AnswersTrue
  <2>2. disk'["bundle"].by = p /\ \A g \in FileName : g # "bundle" => disk'[g] = disk[g]
    BY <1>25, <1>files, CompleteFacts, TearFacts DEF BundleWrite, IInv
  <2> QED
    BY <2>1, <2>2, <1>keys DEF Artifacts, Establishment!Next
<1>26. ASSUME NEW p \in Proc, PackageWrite(p) PROVE Stutter \/ Establishment!Next
  <2>1. record' = record /\ Answer' = Answer /\ Writing(p, "package") /\ outcome[p] = "none"
    BY <1>26, AnswerSame DEF PackageWrite, Goto, Throw, Writing, IInv, Owned, AnswersTrue
  <2>2. disk'["package"].by = p /\ \A g \in FileName : g # "package" => disk'[g] = disk[g]
    BY <1>26, <1>files, CompleteFacts, TearFacts DEF PackageWrite, IInv
  <2> QED
    BY <2>1, <2>2, <1>keys DEF Artifacts, Establishment!Next
<1>27. ASSUME NEW p \in Proc, BundleUndo(p) PROVE Stutter \/ Establishment!Next
  <2>1. record' = record /\ Answer' = Answer /\ record # p /\ Holding(p, "bundle")
    BY <1>27, AnswerSame DEF BundleUndo, Goto, Throw, Holding, HasBundle, HasPackage, IInv,
       Owned, RecordHeld, Committed
  <2> QED
    BY <1>27, <2>1, <1>drop DEF BundleUndo, Artifacts, Establishment!Next
<1>28. ASSUME NEW p \in Proc, PackageUndo(p) PROVE Stutter \/ Establishment!Next
  <2>1. record' = record /\ Answer' = Answer /\ record # p /\ Holding(p, "package")
    BY <1>28, AnswerSame DEF PackageUndo, Goto, Throw, Holding, HasBundle, HasPackage, IInv,
       Owned, RecordHeld, Committed
  <2> QED
    BY <1>28, <2>1, <1>drop DEF PackageUndo, Artifacts, Establishment!Next
<1>29. ASSUME NEW p \in Proc, NEW f \in FileName, CleanupUnlink(p, f)
       PROVE Stutter \/ Establishment!Next
  <2>1. record' = record /\ Answer' = Answer /\ record # p /\ Holding(p, f) /\ RemoveFile(f)
    BY <1>29, AnswerSame DEF CleanupUnlink, CleanupTask, Holding, IInv, Owned, RecordHeld, Committed
  <2>2. CASE f \in Artifacts
    BY <2>1, <2>2, <1>drop DEF Establishment!Next
  <2>3. CASE f \notin Artifacts
    BY <2>1, <2>3, <1>arts, RemoveFacts, KeysSame DEF IInv
  <2> QED
    BY <2>2, <2>3
<1>30. CASE UNCHANGED vars
  <2>1. disk' = disk /\ record' = record /\ outcome' = outcome
    BY <1>30 DEF vars
  <2>2. Keys' = Keys
    BY <2>1, KeysSame
  <2>3. Answer' = Answer
    BY <2>1, AnswerSame
  <2> QED
    BY <2>1, <2>2, <2>3, <1>0
<1> QED
  BY <1>0, <1>1, <1>2, <1>3, <1>4, <1>5, <1>6, <1>7, <1>8, <1>9, <1>10, <1>11, <1>12, <1>13,
     <1>14, <1>15, <1>16, <1>17, <1>18, <1>19, <1>20, <1>21, <1>22, <1>23, <1>24, <1>25, <1>26,
     <1>27, <1>28, <1>29, <1>30 DEF Next, Step

(* The ceremony implements the abstract establishment of an Owner.         *)
THEOREM Refinement == Spec => ImplementsEstablishment
<1>1. Init => Establishment!Init
  <2> SUFFICES ASSUME Init PROVE Establishment!Init
    OBVIOUS
  <2>1. record = Nobody
    BY DEF Init
  <2>2. Keys = {}
    BY NobodyAssumption DEF Init, Keys, Artifacts, FileName, NoFile
  <2>3. Answer = [p \in Proc |-> "none"]
    BY DEF Init, Answer
  <2> QED
    BY <2>1, <2>2, <2>3 DEF Establishment!Init
<1> QED
  BY <1>1, RefinementStep, Ownership, PTL DEF Spec, ImplementsEstablishment, Establishment!Spec

-----------------------------------------------------------------------------
(* Where no process crashes and no write, unlink or read fails, the        *)
(* converse of ownership holds as well: whatever exists belongs to a run   *)
(* that still works with it, or to the Owner.                              *)

Orderly == Faults \cap {"write", "unlink", "read", "crash"} = {}

NothingForgotten ==
  /\ \A f \in FileName : Exists(f) =>
       disk[f].by \in Proc /\ (Writing(disk[f].by, f) \/ Holding(disk[f].by, f))
  /\ \A p \in temps : pc[p] \in {"tempWrite", "link", "tempUndo", "tempDone"}

LEMMA RemovedFacts ==
  ASSUME TypeOK, Orderly, NEW f \in FileName, RemoveFile(f)
  PROVE  /\ disk'[f].by = Nobody
         /\ \A g \in FileName : g # f => disk'[g] = disk[g]
BY DEF TypeOK, RemoveFile, NoFile, Orderly

LEMMA AbortFacts ==
  ASSUME TypeOK, NEW p \in Proc, NEW t, NEW N \in SUBSET Tasks, CleanupTask(p, t, N)
  PROVE  /\ pc[p] = "cleanup" /\ pc' = pc /\ record' = record /\ temps' = temps
         /\ todo'[p] = (todo[p] \ {t}) \cup N
         /\ \A q \in Proc : q # p => todo'[q] = todo[q]
BY DEF TypeOK, CleanupTask

LEMMA ThrowTasks ==
  ASSUME TypeOK, NEW p \in Proc, NEW from, NEW A \in SUBSET Artifacts, Throw(p, from, A)
  PROVE  "abort" \in todo'[p] /\ \A f \in A : f \in todo'[p]
BY DEF TypeOK, Throw

LEMMA ForgottenStep ==
  ASSUME Orderly, IInv, IInv', NothingForgotten, [Next]_vars
  PROVE  NothingForgotten'
<1> "reservation" \in FileName /\ "bundle" \in FileName /\ "package" \in FileName
  BY DEF FileName
<1>0. \A p \in Proc : Holding(p, "reservation") => ReservationMatches(p)
  BY DEF IInv, Owned, FilesOwned, ReservationMatches
<1> USE NobodyAssumption DEF IInv, Owned, TypeOK, FilesOwned, RecordHeld, NothingForgotten,
                             Exists, Orderly,
     Writing, Holding, Artifacts, Committing, Committed, HasPackage, HasBundle, HasReservation,
     Goto, Settle, CannotCreate, UnlinkTemp
<1>1. ASSUME NEW p \in Proc, Accept(p) PROVE NothingForgotten'
  BY <1>1 DEF Accept, Tasks, TearFile
<1>2. ASSUME NEW p \in Proc, Reject(p) PROVE NothingForgotten'
  BY <1>2 DEF Reject, Tasks, TearFile
<1>3. ASSUME NEW p \in Proc, ReserveCheck(p) PROVE NothingForgotten'
  BY <1>3 DEF ReserveCheck, Tasks, TearFile
<1>4. ASSUME NEW p \in Proc, ReserveOpen(p) PROVE NothingForgotten'
  BY <1>4, CreateFacts DEF ReserveOpen, Tasks, TearFile
<1>5. ASSUME NEW p \in Proc, ReserveWrite(p) PROVE NothingForgotten'
  BY <1>5, CompleteFacts DEF ReserveWrite, Tasks, TearFile
<1>6. ASSUME NEW p \in Proc, DenyAudit(p) PROVE NothingForgotten'
  BY <1>6 DEF DenyAudit, Tasks, TearFile
<1>7. ASSUME NEW p \in Proc, BundleCheck(p) PROVE NothingForgotten'
  BY <1>7, ThrowFacts, ThrowTasks DEF BundleCheck, Tasks, TearFile
<1>8. ASSUME NEW p \in Proc, BundleOpen(p) PROVE NothingForgotten'
  BY <1>8, CreateFacts, ThrowFacts, ThrowTasks DEF BundleOpen, Tasks, TearFile
<1>9. ASSUME NEW p \in Proc, BundleWrite(p) PROVE NothingForgotten'
  BY <1>9, CompleteFacts, ThrowFacts, ThrowTasks DEF BundleWrite, Tasks, TearFile
<1>10. ASSUME NEW p \in Proc, BundleUndo(p) PROVE NothingForgotten'
  BY <1>10, RemovedFacts, ThrowFacts, ThrowTasks DEF BundleUndo, Tasks, TearFile
<1>11. ASSUME NEW p \in Proc, PackageCheck(p) PROVE NothingForgotten'
  BY <1>11 DEF PackageCheck, Tasks, TearFile
<1>12. ASSUME NEW p \in Proc, Passphrase(p) PROVE NothingForgotten'
  BY <1>12 DEF Passphrase, Tasks, TearFile
<1>13. ASSUME NEW p \in Proc, PackageOpen(p) PROVE NothingForgotten'
  BY <1>13, CreateFacts DEF PackageOpen, Tasks, TearFile
<1>14. ASSUME NEW p \in Proc, PackageWrite(p) PROVE NothingForgotten'
  BY <1>14, CompleteFacts DEF PackageWrite, Tasks, TearFile
<1>15. ASSUME NEW p \in Proc, PackageVerify(p) PROVE NothingForgotten'
  BY <1>15 DEF PackageVerify, Tasks, TearFile
<1>16. ASSUME NEW p \in Proc, PackageUndo(p) PROVE NothingForgotten'
  BY <1>16, RemovedFacts DEF PackageUndo, Tasks, TearFile
<1>17. ASSUME NEW p \in Proc, RequireReservation(p) PROVE NothingForgotten'
  BY <1>17, ThrowFacts, ThrowTasks, <1>0 DEF RequireReservation, Tasks, TearFile
<1>18. ASSUME NEW p \in Proc, RecordCheck(p) PROVE NothingForgotten'
  BY <1>18, ThrowFacts, ThrowTasks DEF RecordCheck, Tasks, TearFile
<1>19. ASSUME NEW p \in Proc, TempOpen(p) PROVE NothingForgotten'
  BY <1>19, ThrowFacts, ThrowTasks DEF TempOpen, Tasks, TearFile
<1>20. ASSUME NEW p \in Proc, TempWrite(p) PROVE NothingForgotten'
  BY <1>20, ThrowFacts, ThrowTasks DEF TempWrite, Tasks, TearFile
<1>21. ASSUME NEW p \in Proc, Link(p) PROVE NothingForgotten'
  BY <1>21 DEF Link, Tasks, TearFile
<1>22. ASSUME NEW p \in Proc, TempUndo(p) PROVE NothingForgotten'
  BY <1>22, ThrowFacts, ThrowTasks DEF TempUndo, Tasks, TearFile
<1>23. ASSUME NEW p \in Proc, TempDone(p) PROVE NothingForgotten'
  BY <1>23 DEF TempDone, Tasks, TearFile
<1>24. ASSUME NEW p \in Proc, FinishCommit(p) PROVE NothingForgotten'
  BY <1>24, RemovedFacts DEF FinishCommit, Tasks, TearFile
<1>25. ASSUME NEW p \in Proc, AbortRead(p) PROVE NothingForgotten'
  <2>1. Holding(p, "reservation")
    BY <1>25 DEF AbortRead, CleanupTask
  <2>2. CleanupTask(p, "abort", {"reservation"})
    BY <1>25, <2>1, <1>0 DEF AbortRead
  <2>3. pc[p] = "cleanup" /\ pc' = pc /\ record' = record /\ temps' = temps /\ disk' = disk
    BY <1>25, <2>2, AbortFacts DEF AbortRead, Tasks
  <2>4. /\ todo'[p] = (todo[p] \ {"abort"}) \cup {"reservation"}
        /\ \A q \in Proc : q # p => todo'[q] = todo[q]
    BY <2>2, AbortFacts DEF Tasks
  <2>5. ASSUME NEW q \in Proc, NEW g \in FileName, Writing(q, g) \/ Holding(q, g)
        PROVE  Writing(q, g)' \/ Holding(q, g)'
    <3>1. CASE q = p
      BY <2>3, <2>4, <2>5, <3>1 DEF FileName
    <3>2. CASE q # p
      BY <2>3, <2>4, <2>5, <3>2
    <3> QED
      BY <3>1, <3>2
  <2> QED
    BY <2>3, <2>5
<1>26. ASSUME NEW p \in Proc, CleanupAudit(p) PROVE NothingForgotten'
  <2>2. CleanupTask(p, "audit", {})
    BY <1>26 DEF CleanupAudit
  <2>3. pc[p] = "cleanup" /\ pc' = pc /\ record' = record /\ temps' = temps /\ disk' = disk
    BY <1>26, <2>2, AbortFacts DEF CleanupAudit, Tasks
  <2>4. todo'[p] = (todo[p] \ {"audit"}) \cup {} /\ \A q \in Proc : q # p => todo'[q] = todo[q]
    BY <2>2, AbortFacts DEF Tasks
  <2>5. ASSUME NEW q \in Proc, NEW g \in FileName, Writing(q, g) \/ Holding(q, g)
        PROVE  Writing(q, g)' \/ Holding(q, g)'
    <3>1. CASE q = p
      BY <2>3, <2>4, <2>5, <3>1 DEF FileName
    <3>2. CASE q # p
      BY <2>3, <2>4, <2>5, <3>2
    <3> QED
      BY <3>1, <3>2
  <2> QED
    BY <2>3, <2>5
<1>27. ASSUME NEW p \in Proc, Fail(p) PROVE NothingForgotten'
  BY <1>27 DEF Fail, Tasks, TearFile
<1>28. ASSUME NEW p \in Proc, Crash(p) PROVE NothingForgotten'
  BY <1>28 DEF Crash, Tasks, TearFile
<1>29. ASSUME NEW p \in Proc, NEW f \in FileName, CleanupUnlink(p, f) PROVE NothingForgotten'
  <2>1. disk'[f].by = Nobody /\ \A g \in FileName : g # f => disk'[g] = disk[g]
    BY <1>29, RemovedFacts DEF CleanupUnlink
  <2>2. pc[p] = "cleanup" /\ pc' = pc /\ record' = record /\ temps' = temps
    BY <1>29, AbortFacts DEF CleanupUnlink
  <2>3. todo'[p] = todo[p] \ {f} /\ \A q \in Proc : q # p => todo'[q] = todo[q]
    BY <1>29, AbortFacts DEF CleanupUnlink
  <2>4. ASSUME NEW q \in Proc, NEW g \in FileName, g # f, Writing(q, g) \/ Holding(q, g)
        PROVE  Writing(q, g)' \/ Holding(q, g)'
    <3>1. CASE q = p
      BY <2>2, <2>3, <2>4, <3>1 DEF FileName
    <3>2. CASE q # p
      BY <2>2, <2>3, <2>4, <3>2
    <3> QED
      BY <3>1, <3>2
  <2> QED
    BY <2>1, <2>2, <2>4
<1>30. CASE UNCHANGED vars
  BY <1>30 DEF vars
<1> QED
  BY <1>1, <1>2, <1>3, <1>4, <1>5, <1>6, <1>7, <1>8, <1>9, <1>10, <1>11, <1>12, <1>13, <1>14,
     <1>15, <1>16, <1>17, <1>18, <1>19, <1>20, <1>21, <1>22, <1>23, <1>24, <1>25, <1>26, <1>27,
     <1>28, <1>29, <1>30 DEF Next, Step

LEMMA Remembering == ASSUME Orderly PROVE Spec => []NothingForgotten
<1>1. Init => NothingForgotten
  BY DEF Init, NothingForgotten, Exists, NoFile
<1>2. IInv /\ IInv' /\ NothingForgotten /\ [Next]_vars => NothingForgotten'
  BY ForgottenStep
<1> QED
  BY <1>1, <1>2, Ownership, PTL DEF Spec

(* Without crashes and torn or undeletable files, nothing on disk is ever  *)
(* left behind by a run that will not come back to it, so no failed run    *)
(* keeps a later one from establishing the Owner.                          *)
THEOREM NothingIsStale == ASSUME Orderly PROVE Spec => []NothingStale
<1>1. IInv /\ NothingForgotten => NothingStale
  BY DEF NothingForgotten, NothingStale, Writing, Holding, InCeremony, FileName, Artifacts,
         HasReservation, HasBundle, HasPackage, Committing, Committed
<1> QED
  BY <1>1, Remembering, Ownership, PTL

(* Under the same condition a run that has reported failure or denial left *)
(* no file at all: ADR 0017's cleanup after failure.                       *)
THEOREM FailureLeavesNothing == ASSUME Orderly PROVE Spec => []FailedLeavesNothing
<1>1. IInv /\ NothingForgotten => FailedLeavesNothing
  <2> SUFFICES ASSUME IInv, NothingForgotten, NEW p \in Proc, outcome[p] \in {"failed", "denied"}
               PROVE  p \notin temps /\ \A f \in FileName : disk[f].by # p
    BY DEF FailedLeavesNothing
  <2>1. pc[p] = "done" /\ record # p
    BY DEF IInv, Owned, AnswersTrue
  <2>2. p \notin temps
    BY <2>1 DEF NothingForgotten
  <2>3. ASSUME NEW f \in FileName PROVE disk[f].by # p
    BY <2>1, NobodyAssumption DEF NothingForgotten, Exists, Writing, Holding,
       HasReservation, HasBundle, HasPackage, Committing, Committed
  <2> QED
    BY <2>2, <2>3
<1> QED
  BY <1>1, Remembering, Ownership, PTL
=============================================================================

--------------------------- MODULE OwnerBootstrap ---------------------------
(***************************************************************************)
(* The one-time Owner Bootstrap ceremony                                   *)
(* (src/src/identity/owner-bootstrap.ts) with the file store, the security *)
(* provider, the recovery custody and the attempt log it is composed of by *)
(* executeOwnerBootstrapWorkflow.                                          *)
(*                                                                         *)
(* Each member of Proc is one run of the ceremony: a CLI process, or one   *)
(* call of OwnerBootstrapCoordinator.execute.  Runs share nothing but the  *)
(* files of the private and of the recovery directory, so a step of this   *)
(* module is one file-system call together with the synchronous code       *)
(* around it.                                                              *)
(***************************************************************************)
CONSTANTS
  Proc,         \* the runs of the ceremony
  Nobody,       \* no run: the owner of a file that does not exist
  Ceremony,     \* ceremony ids, read from the local input file
  CeremonyOf,   \* the id each run loaded: two runs may share an input file
  Faults        \* the environment faults a run of the model allows

FaultKinds ==
  {"create",    \* open, mkdir or link fails with something else than EEXIST
   "write",     \* writeFile or sync fails after the file was created
   "unlink",    \* unlink fails
   "read",      \* access, readFile of an existing file fails
   "verify",    \* the recovery package cannot be read back and decrypted
   "audit",     \* the append to the attempt log fails
   "crash"}     \* the process dies

ASSUME NobodyAssumption == Nobody \notin Proc
ASSUME CeremonyAssumption == CeremonyOf \in [Proc -> Ceremony]
ASSUME FaultsAssumption == Faults \subseteq FaultKinds

(* The three files created with flag 'wx' under a fixed name.              *)
FileName == {"reservation", "bundle", "package"}

VARIABLES
  disk,         \* the three files: which run wrote them, and how completely
  record,       \* the run whose envelope the permanent record file links
  temps,        \* runs whose unique temporary envelope file exists
  attempts,     \* owner-bootstrap-attempts.jsonl
  pc,           \* where each run is
  todo,         \* what is left of the catch block's Promise.allSettled
  outcome       \* how execute settled

vars == <<disk, record, temps, attempts, pc, todo, outcome>>

Labels ==
  {"submit", "denyAudit", "reserveCheck", "reserveOpen", "reserveWrite",
   "bundleCheck", "bundleOpen", "bundleWrite",
   "packageCheck", "passphrase", "packageOpen", "packageWrite",
   "packageVerify", "packageUndo", "bundleUndo",
   "requireReservation", "recordCheck", "tempOpen", "tempWrite", "link", "tempUndo",
   "tempDone", "finishCommit", "cleanup", "done", "crashed"}

(* Cleanup tasks, run concurrently: Promise.allSettled.  "abort" is the    *)
(* read half of store.abort, "reservation" its unlink.                     *)
Tasks == {"abort", "reservation", "bundle", "package", "audit"}
Outcomes == {"none", "denied", "error", "failed", "succeeded"}
FileState == [by : Proc \cup {Nobody}, whole : BOOLEAN]
NoFile == [by |-> Nobody, whole |-> FALSE]

TypeOK ==
  /\ disk \in [FileName -> FileState]
  /\ record \in Proc \cup {Nobody}
  /\ temps \in SUBSET Proc
  /\ attempts \in SUBSET [by : Proc, outcome : {"denied", "failed"}]
  /\ pc \in [Proc -> Labels]
  /\ todo \in [Proc -> SUBSET Tasks]
  /\ outcome \in [Proc -> Outcomes]

Init ==
  /\ disk = [f \in FileName |-> NoFile]
  /\ record = Nobody
  /\ temps = {}
  /\ attempts = {}
  /\ pc = [p \in Proc |-> "submit"]
  /\ todo = [p \in Proc |-> {}]
  /\ outcome = [p \in Proc |-> "none"]

-----------------------------------------------------------------------------
(* Control and file helpers                                                *)

Exists(f) == disk[f].by # Nobody

Goto(p, from, to) ==
  /\ pc[p] = from
  /\ pc' = [pc EXCEPT ![p] = to]
  /\ UNCHANGED <<todo, outcome>>

Settle(p, from, answer) ==
  /\ pc[p] = from
  /\ pc' = [pc EXCEPT ![p] = "done"]
  /\ outcome' = [outcome EXCEPT ![p] = answer]
  /\ UNCHANGED todo

(* Variant: the catch block revokes without asking what was provisioned.   *)
ThrowRevokingAll(p, from, artifacts) ==
  /\ pc[p] = from
  /\ pc' = [pc EXCEPT ![p] = "cleanup"]
  /\ todo' = [todo EXCEPT ![p] = {"abort", "audit", "bundle", "package"}]
  /\ UNCHANGED outcome

(* An exception reaches the catch block of execute: abort, revoke the      *)
(* artifacts if provisioning had returned them, append a 'failed' attempt. *)
Throw(p, from, artifacts) ==
  /\ pc[p] = from
  /\ pc' = [pc EXCEPT ![p] = "cleanup"]
  /\ todo' = [todo EXCEPT ![p] = {"abort", "audit"} \cup artifacts]
  /\ UNCHANGED outcome

(* Variant: open with flag 'w'.                                            *)
CreateFileTruncating(p, f) ==
  disk' = [disk EXCEPT ![f] = [by |-> p, whole |-> FALSE]]

(* open(f, 'wx'): creates an empty file, never reuses one.                 *)
CreateFile(p, f) ==
  /\ ~Exists(f)
  /\ disk' = [disk EXCEPT ![f] = [by |-> p, whole |-> FALSE]]

(* open(f, 'wx') throws.                                                   *)
CannotCreate(f) ==
  /\ Exists(f) \/ "create" \in Faults
  /\ UNCHANGED disk

CompleteFile(p, f) ==
  disk' = [disk EXCEPT ![f] = [by |-> p, whole |-> TRUE]]

(* writeFile or sync throws: the file stays, with some of its content or   *)
(* with all of it.                                                         *)
TearFile(p, f) ==
  /\ "write" \in Faults
  /\ \E whole \in BOOLEAN : disk' = [disk EXCEPT ![f] = [by |-> p, whole |-> whole]]

(* unlink(f), whose failure the callers ignore.                            *)
RemoveFile(f) ==
  \/ disk' = [disk EXCEPT ![f] = NoFile]
  \/ "unlink" \in Faults /\ UNCHANGED disk

(* exists(f) answers FALSE on every error of access, not only on ENOENT.   *)
LooksAbsent(f) == ~Exists(f) \/ "read" \in Faults

(* The reservation is there, parses, and names this run's ceremony.        *)
ReservationMatches(p) ==
  /\ disk["reservation"].whole
  /\ CeremonyOf[disk["reservation"].by] = CeremonyOf[p]

-----------------------------------------------------------------------------
(* Validation, authorization and the reservation                           *)

Accept(p) ==
  /\ Goto(p, "submit", "reserveCheck")
  /\ UNCHANGED <<disk, record, temps, attempts>>

(* validateRequest reports an error, or authorizeCeremony answers false.   *)
Reject(p) ==
  /\ Goto(p, "submit", "denyAudit")
  /\ UNCHANGED <<disk, record, temps, attempts>>

ReserveCheck(p) ==
  /\ \/ record # Nobody /\ Goto(p, "reserveCheck", "denyAudit")
     \/ /\ record = Nobody \/ "read" \in Faults
        /\ Goto(p, "reserveCheck", "reserveOpen")
  /\ UNCHANGED <<disk, record, temps, attempts>>

(* Variant: a run that finds a reservation of its own ceremony resumes it. *)
ReserveOpenResuming(p) ==
  /\ \/ CreateFile(p, "reservation") /\ Goto(p, "reserveOpen", "reserveWrite")
     \/ /\ Exists("reservation")
        /\ Goto(p, "reserveOpen",
                IF ReservationMatches(p) THEN "bundleCheck" ELSE "denyAudit")
        /\ UNCHANGED disk
  /\ UNCHANGED <<record, temps, attempts>>

(* EEXIST denies the ceremony; any other error leaves execute without an   *)
(* attempt record, for reserve is called outside the try block.            *)
ReserveOpen(p) ==
  /\ \/ CreateFile(p, "reservation") /\ Goto(p, "reserveOpen", "reserveWrite")
     \/ /\ Exists("reservation")
        /\ Goto(p, "reserveOpen", "denyAudit")
        /\ UNCHANGED disk
     \/ /\ "create" \in Faults
        /\ Settle(p, "reserveOpen", "error")
        /\ UNCHANGED disk
  /\ UNCHANGED <<record, temps, attempts>>

ReserveWrite(p) ==
  /\ \/ CompleteFile(p, "reservation") /\ Goto(p, "reserveWrite", "bundleCheck")
     \/ TearFile(p, "reservation") /\ Settle(p, "reserveWrite", "error")
  /\ UNCHANGED <<record, temps, attempts>>

(* Variant: a denial that cannot be logged tries the reservation again.    *)
DenyAuditRetrying(p) ==
  /\ \/ /\ Settle(p, "denyAudit", "denied")
        /\ attempts' = attempts \cup {[by |-> p, outcome |-> "denied"]}
     \/ /\ "audit" \in Faults
        /\ Goto(p, "denyAudit", "reserveCheck")
        /\ UNCHANGED attempts
  /\ UNCHANGED <<disk, record, temps>>

DenyAudit(p) ==
  /\ \/ /\ Settle(p, "denyAudit", "denied")
        /\ attempts' = attempts \cup {[by |-> p, outcome |-> "denied"]}
     \/ /\ "audit" \in Faults
        /\ Settle(p, "denyAudit", "error")
        /\ UNCHANGED attempts
  /\ UNCHANGED <<disk, record, temps>>

-----------------------------------------------------------------------------
(* provisionOwnerSecurityArtifacts: the encrypted Owner security bundle    *)

BundleCheck(p) ==
  /\ \/ Exists("bundle") /\ Throw(p, "bundleCheck", {})
     \/ LooksAbsent("bundle") /\ Goto(p, "bundleCheck", "bundleOpen")
  /\ UNCHANGED <<disk, record, temps, attempts>>

BundleOpen(p) ==
  /\ \/ CreateFile(p, "bundle") /\ Goto(p, "bundleOpen", "bundleWrite")
     \/ CannotCreate("bundle") /\ Throw(p, "bundleOpen", {})
  /\ UNCHANGED <<record, temps, attempts>>

(* bundleWritten is still false when the write fails, so the catch block   *)
(* of the provider does not unlink what was written.                       *)
BundleWrite(p) ==
  /\ \/ CompleteFile(p, "bundle") /\ Goto(p, "bundleWrite", "packageCheck")
     \/ TearFile(p, "bundle") /\ Throw(p, "bundleWrite", {})
  /\ UNCHANGED <<record, temps, attempts>>

BundleUndo(p) ==
  /\ Throw(p, "bundleUndo", {})
  /\ RemoveFile("bundle")
  /\ UNCHANGED <<record, temps, attempts>>

-----------------------------------------------------------------------------
(* storeRecoverySecret: the recovery package                               *)

PackageCheck(p) ==
  /\ \/ Exists("package") /\ Goto(p, "packageCheck", "bundleUndo")
     \/ LooksAbsent("package") /\ Goto(p, "packageCheck", "passphrase")
  /\ UNCHANGED <<disk, record, temps, attempts>>

(* Two prompts: they may differ, be too short or be cancelled.             *)
Passphrase(p) ==
  /\ \E to \in {"packageOpen", "bundleUndo"} : Goto(p, "passphrase", to)
  /\ UNCHANGED <<disk, record, temps, attempts>>

PackageOpen(p) ==
  /\ \/ CreateFile(p, "package") /\ Goto(p, "packageOpen", "packageWrite")
     \/ CannotCreate("package") /\ Goto(p, "packageOpen", "bundleUndo")
  /\ UNCHANGED <<record, temps, attempts>>

PackageWrite(p) ==
  /\ \/ CompleteFile(p, "package") /\ Goto(p, "packageWrite", "packageVerify")
     \/ TearFile(p, "package") /\ Goto(p, "packageWrite", "bundleUndo")
  /\ UNCHANGED <<record, temps, attempts>>

(* The package is read back and decrypted; then provisioning returns.      *)
PackageVerify(p) ==
  /\ \/ Goto(p, "packageVerify", "requireReservation")
     \/ "verify" \in Faults /\ Goto(p, "packageVerify", "packageUndo")
  /\ UNCHANGED <<disk, record, temps, attempts>>

(* Variant: a package that fails its verification is kept.                 *)
PackageUndoNothing(p) ==
  /\ Goto(p, "packageUndo", "bundleUndo")
  /\ UNCHANGED <<disk, record, temps, attempts>>

PackageUndo(p) ==
  /\ Goto(p, "packageUndo", "bundleUndo")
  /\ RemoveFile("package")
  /\ UNCHANGED <<record, temps, attempts>>

-----------------------------------------------------------------------------
(* commit: the envelope is written aside and linked under its final name   *)

Artifacts == {"bundle", "package"}

RequireReservation(p) ==
  /\ \/ /\ ReservationMatches(p)
        /\ Goto(p, "requireReservation", "recordCheck")
     \/ /\ ~ReservationMatches(p) \/ "read" \in Faults
        /\ Throw(p, "requireReservation", Artifacts)
  /\ UNCHANGED <<disk, record, temps, attempts>>

(* A record that is there may be overlooked; link finds it all the same.   *)
RecordCheck(p) ==
  /\ \/ record # Nobody /\ Throw(p, "recordCheck", Artifacts)
     \/ /\ record = Nobody \/ "read" \in Faults
        /\ Goto(p, "recordCheck", "tempOpen")
  /\ UNCHANGED <<disk, record, temps, attempts>>

TempOpen(p) ==
  /\ \/ /\ Goto(p, "tempOpen", "tempWrite")
        /\ temps' = temps \cup {p}
     \/ /\ "create" \in Faults
        /\ Throw(p, "tempOpen", Artifacts)
        /\ UNCHANGED temps
  /\ UNCHANGED <<disk, record, attempts>>

(* A failed write is outside the block that unlinks the temporary file.    *)
TempWrite(p) ==
  /\ \/ Goto(p, "tempWrite", "link")
     \/ "write" \in Faults /\ Throw(p, "tempWrite", Artifacts)
  /\ UNCHANGED <<disk, record, temps, attempts>>

(* link is atomic and fails with EEXIST when there is a record already.    *)
Link(p) ==
  /\ \/ /\ record = Nobody
        /\ record' = p
        /\ Goto(p, "link", "tempDone")
     \/ /\ record # Nobody \/ "create" \in Faults
        /\ Goto(p, "link", "tempUndo")
        /\ UNCHANGED record
  /\ UNCHANGED <<disk, temps, attempts>>

UnlinkTemp(p) == temps' = temps \ {p} \/ ("unlink" \in Faults /\ UNCHANGED temps)

TempUndo(p) ==
  /\ Throw(p, "tempUndo", Artifacts)
  /\ UnlinkTemp(p)
  /\ UNCHANGED <<disk, record, attempts>>

(* Variant: a failing unlink of the temporary file rejects commit.         *)
TempDoneThrowing(p) ==
  /\ \/ Goto(p, "tempDone", "finishCommit") /\ temps' = temps \ {p}
     \/ /\ "unlink" \in Faults
        /\ Throw(p, "tempDone", Artifacts)
        /\ UNCHANGED temps
  /\ UNCHANGED <<disk, record, attempts>>

TempDone(p) ==
  /\ Goto(p, "tempDone", "finishCommit")
  /\ UnlinkTemp(p)
  /\ UNCHANGED <<disk, record, attempts>>

(* Variant: the reservation outlives the commit.                           *)
FinishCommitKeeping(p) ==
  /\ Settle(p, "finishCommit", "succeeded")
  /\ UNCHANGED <<disk, record, temps, attempts>>

(* chmod of the record and unlink of the reservation, failures ignored.    *)
FinishCommit(p) ==
  /\ Settle(p, "finishCommit", "succeeded")
  /\ RemoveFile("reservation")
  /\ UNCHANGED <<record, temps, attempts>>

-----------------------------------------------------------------------------
(* The catch block of execute                                              *)

CleanupTask(p, task, next) ==
  /\ pc[p] = "cleanup"
  /\ task \in todo[p]
  /\ todo' = [todo EXCEPT ![p] = (@ \ {task}) \cup next]
  /\ UNCHANGED <<record, temps, pc, outcome>>

(* abort returns when it sees no reservation, throws when it cannot read   *)
(* it or it names another ceremony, and otherwise goes on to unlink it.    *)
AbortRead(p) ==
  /\ \/ ReservationMatches(p) /\ CleanupTask(p, "abort", {"reservation"})
     \/ /\ ~ReservationMatches(p) \/ "read" \in Faults
        /\ CleanupTask(p, "abort", {})
  /\ UNCHANGED <<disk, attempts>>

CleanupUnlink(p, f) ==
  /\ CleanupTask(p, f, {})
  /\ RemoveFile(f)
  /\ UNCHANGED attempts

CleanupAudit(p) ==
  /\ CleanupTask(p, "audit", {})
  /\ \/ attempts' = attempts \cup {[by |-> p, outcome |-> "failed"]}
     \/ "audit" \in Faults /\ UNCHANGED attempts
  /\ UNCHANGED disk

(* Variant: a failed ceremony settles with an outcome of its own.          *)
FailAborted(p) ==
  /\ todo[p] = {}
  /\ Settle(p, "cleanup", "aborted")
  /\ UNCHANGED <<disk, record, temps, attempts>>

Fail(p) ==
  /\ todo[p] = {}
  /\ Settle(p, "cleanup", "failed")
  /\ UNCHANGED <<disk, record, temps, attempts>>

-----------------------------------------------------------------------------
Ended(p) == pc[p] \in {"done", "crashed"}

Crash(p) ==
  /\ "crash" \in Faults
  /\ ~Ended(p)
  /\ pc' = [pc EXCEPT ![p] = "crashed"]
  /\ UNCHANGED <<disk, record, temps, attempts, todo, outcome>>

Step(p) ==
  \/ Accept(p) \/ Reject(p)
  \/ ReserveCheck(p) \/ ReserveOpen(p) \/ ReserveWrite(p) \/ DenyAudit(p)
  \/ BundleCheck(p) \/ BundleOpen(p) \/ BundleWrite(p) \/ BundleUndo(p)
  \/ PackageCheck(p) \/ Passphrase(p) \/ PackageOpen(p) \/ PackageWrite(p)
  \/ PackageVerify(p) \/ PackageUndo(p)
  \/ RequireReservation(p) \/ RecordCheck(p) \/ TempOpen(p) \/ TempWrite(p)
  \/ Link(p) \/ TempUndo(p) \/ TempDone(p) \/ FinishCommit(p)
  \/ AbortRead(p)
  \/ \E f \in FileName : CleanupUnlink(p, f)
  \/ CleanupAudit(p) \/ Fail(p)

Next == \E p \in Proc : Step(p) \/ Crash(p)

(* Node settles every file-system call, and a prompt ends with an input or *)
(* with a cancellation; nothing makes a process crash.                     *)
Fairness == \A p \in Proc : WF_vars(Step(p))

Spec == Init /\ [][Next]_vars
FairSpec == Spec /\ Fairness

-----------------------------------------------------------------------------
(* Safety                                                                  *)

(* The permanent record never stands on missing, torn or foreign key       *)
(* material: the run that linked it wrote both artifacts completely, and   *)
(* no cleanup of any run, before or after, removes them.                   *)
RecordBacked ==
  \A p \in Proc : record = p =>
    \A f \in Artifacts : disk[f] = [by |-> p, whole |-> TRUE]

(* execute resolves exactly for the run whose record is linked, although   *)
(* it goes on after the link with calls that may fail; and no attempt is   *)
(* logged as denied or failed for that run.                                *)
HonestOutcome ==
  \A p \in Proc :
    /\ pc[p] = "done" => (outcome[p] = "succeeded" <=> record = p)
    /\ \A a \in attempts : a.by = p => record # p

(* From the reservation to its unlink, by commit or by abort.              *)
InCeremony(p) ==
  \/ pc[p] \in {"reserveWrite", "bundleCheck", "bundleOpen", "bundleWrite", "bundleUndo",
                "packageCheck", "passphrase", "packageOpen", "packageWrite",
                "packageVerify", "packageUndo", "requireReservation", "recordCheck",
                "tempOpen", "tempWrite", "link", "tempUndo", "tempDone", "finishCommit"}
  \/ pc[p] = "cleanup" /\ todo[p] \cap {"abort", "reservation"} # {}

(* At most one run is between its reservation and the end of its           *)
(* reservation, even when runs share a ceremony id, when a reservation     *)
(* was taken after the record check had become stale, and while the catch  *)
(* block of one run is still working.                                      *)
ExclusiveCeremony ==
  \A p, q \in Proc : InCeremony(p) /\ InCeremony(q) => p = q

(* A reservation nobody is going to remove, left by a run that died or     *)
(* could not finish its cleanup.                                           *)
Abandoned ==
  Exists("reservation") /\ ~InCeremony(disk["reservation"].by)

(* The ceremony fails closed: an abandoned reservation is never taken over *)
(* nor removed, and no Owner is established under it, not even by a run of *)
(* the same ceremony id, nor by one whose checks were made before.         *)
AbandonedIsFinal ==
  [][Abandoned => record' = record /\ disk'["reservation"] = disk["reservation"]]_vars

(* "clean up provisioned artifacts after failure" (ADR 0017): a ceremony   *)
(* that has reported its failure has left nothing on disk.                 *)
FailedLeavesNothing ==
  \A p \in Proc : outcome[p] \in {"failed", "denied"} =>
    p \notin temps /\ \A f \in FileName : disk[f].by # p

(* "no stale ceremony reservation remained": while no process crashes and  *)
(* no write or unlink fails, a reservation belongs to a run that is still  *)
(* going to remove it, and an artifact to such a run, to one whose cleanup *)
(* still has it to do, or to the Owner, so no run is denied for ever by    *)
(* one that failed.                                                        *)
NothingStale ==
  /\ Exists("reservation") => InCeremony(disk["reservation"].by)
  /\ \A f \in Artifacts : Exists(f) =>
       LET p == disk[f].by IN
         record = p \/ InCeremony(p) \/ (pc[p] = "cleanup" /\ f \in todo[p])

-----------------------------------------------------------------------------
(* The promise                                                             *)

Keys == {p \in Proc : \A f \in Artifacts : disk[f] = [by |-> p, whole |-> TRUE]}

Answer ==
  [p \in Proc |->
     CASE outcome[p] = "none" -> "none"
       [] outcome[p] = "succeeded" -> "established"
       [] OTHER -> "refused"]

Establishment ==
  INSTANCE OwnerEstablishment WITH owner <- record, keys <- Keys, answer <- Answer

(* The ceremony implements the one-time establishment of an Owner: one     *)
(* Owner for ever, with artifacts of its own that are never withdrawn, and *)
(* a true answer to every run that gets one, under every fault.            *)
ImplementsEstablishment == Establishment!Spec

(* Every run of execute settles unless its process dies: no file, and no   *)
(* error of another run, makes it wait.                                    *)
EveryCeremonyEnds == \A p \in Proc : <>Ended(p)

=============================================================================

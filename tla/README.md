# Formal model of the XAI platform core

TLA+ specifications of the stateful parts of this repository's backend (`src/src`):
the one-time Owner Bootstrap, the hash-chained audit log, the Owner's recovery
codes, credential and second factor, the Kernel gateway, the persistent registry
with its feature flags, the way of an Owner's request from a session to an effect,
and what the platform reports of its own health.
Each part is model-checked with TLC on small instances; what matters most is
proved with TLAPS for every value of the constants. `PROJECT.json` names, for
every definition, the source lines it models; for every property, a variant of
the code that breaks it; and for every hazard, its line.

Paths below are relative to `src/src/` of the repository unless they start with `docs/`.

## 1. The system

| Component | State it keeps | Operations | Talks to |
|---|---|---|---|
| **Owner Bootstrap** `identity/owner-bootstrap*.ts`, `file-owner-bootstrap-store.ts`, `local-owner-security-provider.ts`, `encrypted-file-recovery-custody.ts`, `file-bootstrap-audit-writer.ts`, `cli/owner-bootstrap.ts` | four files with fixed names (reservation, security bundle, recovery package, permanent record), temporary envelopes, the attempt log | `execute`: check, reserve, provision, commit; on an exception abort, revoke, log | the file system only; runs share nothing else |
| **Audit log** `platform/audit/file-store.ts` | `platform-audit.jsonl`; per store a promise queue | `append`, `get`, `listByCorrelationId` | called by gateway, permission engine, recovery workflow, Owner operations |
| **Recovery codes** `identity/owner-recovery-workflow.ts`, `cli/owner-recovery.ts` | `owner-mfa-recovery.json`, its shared `.tmp` | generate, regenerate, use; successor recovery provisioning | audit log |
| **Kernel gateway** `platform/kernel/*`, `platform/events/router.ts`, `platform/audit/audited-permission-engine.ts` | the map of ports | `register`, `execute`, `read` (an `execute`) | event router, permission engine, ports, audit log |
| **Permission policy** `platform/permissions/policy.ts`, `middleware.ts` | none (rules, clock) | `evaluate` | identity context |
| **Platform registry** `platform/registry/*platform-registry.ts`, `platform/manifests/*` | tables `platform_manifests`, `platform_registry` | register, update, unregister, get, list | database |
| **Feature flags** `platform/feature-flags/*` | tables `feature_flag_definitions`, `feature_flag_values` | register, update, evaluate, list | database, registry table |
| **Database client** `database/client.ts` | memoized client and connection promise | connect, disconnect, transaction | PostgreSQL |
| **Owner credentials, MFA, session** `identity/local-credentials.ts`, `totp.ts`, `owner-session-authentication.ts`, `cli/owner-credential.ts`, `cli/owner-mfa.ts` | credential and factor files (created once); the login window and TOTP codes are pure functions whose state the caller holds, and only tests call the window; the session verifier is an interface without an implementation | create, verify | policy |
| **Owner operations** `owner-operations/*` | none | dashboard, flag update, audit queries | gateway, audit log |
| **Haley core, observability** `platform/haley-core/*`, `platform/observability/*` | counters | status, probes, log lines | gateway reads |
| **AI registry** `platform/registry/ai-registry.ts` | an in-memory map | register, get, list | nobody |
| **Configuration, memory port, HTTP server, web client, contracts** | none of their own | parsing, wiring, rendering | – |

Flow of a privileged operation: a route builds a request; the gateway publishes
`requested`, resolves the subject, asks the audited permission engine (policy
decision, then its audit record), publishes the decision, lets the port work
(registry or flags in one database transaction), appends the outcome to the audit
log, publishes it and answers. Every arrow is an `await`, so requests interleave
there and each arrow may fail. The bootstrap and the recovery codes run as
commands beside the server, on files of the private directory.

### What is hard here

* **Files as locks.** The bootstrap's only synchronization is `open(…, 'wx')` and
  `link`. Checks (`access`) are stale when used, answer "absent" on any error, and
  a process may die, or a write fail, between any two calls.
* **Undo blocks that know only part of the truth.** Provider, custody, store and
  coordinator each clean up what they believe they created; cleanup runs
  concurrently (`Promise.allSettled`) and may fail itself.
* **Read-verify-append.** The audit log reads the whole chain, hashes and writes
  with awaits between; only a per-instance queue keeps appends apart. Torn writes,
  failing `sync`, and processes that end with appends queued.
* **Read-modify-replace of one file** by overlapping calls through one temporary
  name, and a crash between burning a code and recording its use.
* **Effect first, record second.** The port commits before its outcome is
  appended; the append, or an event after it, may fail.
* **Evidence that ages.** A session is looked up once, the decision's time is sampled
  before the subject is resolved, and both are used several awaits later, while the
  session expires, is revoked or reauthenticated.
* **Joins without a snapshot or a timeout.** Eight, four or any number of sources are
  asked at once, change meanwhile, reject, or never answer.
* **Two-statement transactions** under snapshot isolation, unknown commit
  outcomes, and reads outside any transaction.

### What makes each component correct

* Bootstrap: at most one Owner, for ever, standing on complete key material of its
  own ceremony; truthful answers; ceremonies exclude each other; a failure leaves
  nothing behind; every run ends.
* Audit log: an acknowledged event stays verifiable; the chain is unbroken;
  a damaged log is never written again; appends settle.
* Recovery codes: single use; access restored is on record and its code burnt;
  the file is whole at every moment and never goes back.
* Gateway: the log tells the truth, answers agree with it, nothing is permitted
  off the record, every request is answered.
* Registry and flags: manifests and records come together; no update is lost or
  counted twice; a flag is born under an active owner; every call is atomic.
* Credentials and MFA: failed logins bounded in time; what was acknowledged is
  installed and stays; access takes the installed password and factor.
* Owner operations and policy: nothing Owner-reserved happens without a live session
  and a fresh reauthentication; the client is told the truth, and after an error nothing
  happens any more.
* Haley core, health, dashboard: a report is backed by what its sources were while it
  was made; every inspection is answered.

## 2. The modules

For each component: an abstract module with its promise, the module of the
code, an `MC…` module with the instances, and a `…Proofs` module.

| Promise | Code | Instances | Proofs |
|---|---|---|---|
| `OwnerEstablishment` | `OwnerBootstrap` | `MCOwnerBootstrap` | `OwnerBootstrapProofs` |
| `AuditTrail` | `AuditLog` | `MCAuditLog` | `AuditLogProofs` |
| `OneTimeCodes` | `RecoveryCodes` | `MCRecoveryCodes` | `RecoveryCodesProofs` |
| `GuardedOperation` | `KernelGateway` | `MCKernelGateway` | `KernelGatewayProofs` |
| `PlatformCatalog` | `PlatformState` | `MCPlatformState` | `PlatformStateProofs` |
| `OwnerFactors` | `LoginWindow`, extended by `OwnerAccess` | `MCOwnerAccess` | `OwnerAccessProofs` |
| `GuardedOperation` (of the Kernel, used) | `OwnerOperations` | `MCOwnerOperations` | `OwnerOperationsProofs` |
| – | `Awareness` | `MCAwareness` | `AwarenessProofs` |

Conventions. One action is one asynchronous call (file-system call, audit append,
event, SQL statement) with the synchronous code around it: that is the granularity
at which the program interleaves. `Faults` says which failures the environment may
produce, so each run states what it assumes; the theorems hold for every `Faults`
unless they say otherwise. A definition commented *Variant* is a plausible mistake
in the code; it is part of no specification and is there to show that the property
named for it in `PROJECT.json` would notice. Where a module has a clock or changing
surroundings, `MaxTime` and `MaxChanges` bound them; the other modules need no counter
bound, because every call, run, event or request is made once and the number of them is
the bound.

### OwnerBootstrap

A member of `Proc` is one run of `OwnerBootstrapCoordinator.execute`; `CeremonyOf`
gives the ceremony id it read (two runs may read one input file). `disk` tells who
wrote each of the three `wx` files and whether the write completed; `record` is the
run whose envelope the permanent file links; `temps` the unique temporary
envelopes; `attempts` the attempt log; `pc`, `todo` and `outcome` the control state
(`todo` is what is left of `Promise.allSettled`). Actions follow the calls in order:
`Accept`/`Reject` (validation), `ReserveCheck/Open/Write` (`reserve`),
`BundleCheck/Open/Write/Undo` (security provider), `PackageCheck`, `Passphrase`,
`PackageOpen/Write/Verify/Undo` (custody), `RequireReservation`, `RecordCheck`,
`TempOpen/Write/Undo/Done`, `Link`, `FinishCommit` (`commit`), `AbortRead`,
`CleanupUnlink`, `CleanupAudit`, `Fail` (catch block), `Crash`.

Abstractions: file contents are (writer, complete); cryptography and JSON are out,
except that the verification of the package may fail. Failing `mkdir` and `chmod`
count as failing creation or are ignored where the code ignores them;
`FileHandle.close` does not fail. An `exists` check may answer "absent" for a file
that is there (`LooksAbsent`), because the code maps every error to `false`.

### AuditLog

`file` is the sequence of lines: event, previous hash, and the shape in which the
line is on disk (`whole`, `torn`, `bare` – complete but without its newline).
SHA-256 is injective: a hash is the sequence of events it covers. `queue[s]` is the
promise chain of store `s`, `phase[s]` and `tail[s]` the running append.
`ReadChain` is `readVerified` with its verdict, `Write` the write of the line with
its outcomes, `Sync` the rest. Validation and the size limits appear as one
refusal (`Malformed`). Stores are used one after the other unless `"overlap"` is in
`Faults`.

### RecoveryCodes

A member of `Call` is one call; it also names the inode it creates and the code
set it generates. `main` and `temp` are what the two file names refer to,
`content` what the inodes hold (so that a handle opened by a dead or overlapping call
keeps pointing at its inode), `plan` the state a call is going to write. `Open`
truncates an existing temporary file, `Rename` moves whatever bears the name.
`Deny` is the audit record of a refused use; the reasons for denial are one.

`OneTimeCodes` knows no file: a call replaces the good codes by a set of its own, or takes
one good code, at one instant, and is answered for it later, by a restoration with its
record or by a failure. The codes that are good are those of the stored set without a
mark; that instant is the `rename`.

### KernelGateway

`pc[r]` is the await request `r` is at; `effect` the requests whose work took
effect at the port; `records[r]` what the audit log holds about `r`; `sealed` that
the log refuses appends. `Publish` and `Record` are the two kinds of await, each
with its exception edge. The audit log appears by what `AuditLog` shows of it: an
append is acknowledged, rejected with or without its line in the file, or rejected
for good. A capability mismatch is folded into "no port" (both answer
`unavailable`). The policy is a free choice; the decision is not the gateway's.

### PlatformState

The four tables, and per call the statement it is at. A transaction takes its
snapshot at the first statement; the second also commits and publishes its writes.
`stale` holds the calls with a row in their snapshot that another call has changed
since: their own write to that row is refused (`Conflict`), as PostgreSQL does at
the serializable level. `Abort` is any other rejection of a transaction and may
come at any point; a committed transaction's answer may be lost. There is no
retry in the code and none in the model. No cycle of read-write dependencies is
possible between these transactions — the only read of a row another transaction
writes and the reader does not is that of a new flag's owner — so snapshot
isolation and the serializable level admit the same histories. In particular a flag
may be defined under an owner whose removal commits between the two statements
(the insert's foreign key does not touch the columns an update changes);
`OwnerWasActive` states exactly this. Flag values are kept for one environment, for
no operation relates two.

### LoginWindow and OwnerAccess

`LoginWindow` is the `LoginAttemptState` with the three functions over it
(`canAttemptLocalLogin`, `recordLocalLoginFailure`, `clearLocalLoginFailures`) and the
clock. No code of the repository calls them: the caller, which asks before an attempt
and reports how it ended, one attempt at a time, is external. `OwnerAccess` adds the
commands. A member of `Call` is one run of `owner:credential` (`Provision`), `owner:mfa`
(`Enroll`, `Prove`) or `owner:recovery` (`Enter`, `Check`, `Open`, up to the verification;
what it does then is `RecoveryCodes`). The first two end in `Create`, `Write`, `Sync` on a
file opened with `wx`. A password hash, and a secret encrypted with a password, appear as
the password they were made with; a TOTP code as its secret and the time it was displayed
at, accepted when its period is the current one or next to it. `Code` lets the user
enter any code ever displayed, at any time, so replays are part of the model.

`OwnerFactors` knows neither files nor crashes: the credential and the factor are installed
at one instant each, at most once and for good, the factor under the credential's password;
who is told so did it; who presents a password and a code is granted access, or denied it,
by what is installed. A file is installed when it is whole (`Readable`): from its last
write on, also when the sync after it fails.

### OwnerOperations

A request is a `PUT` on a feature flag (path `"route"`) or passes
`requireKernelPermission` (path `"guard"`). `Arrive` samples its time, `Verify` looks the
session up and goes on through the route's checks, `Decide` samples the time of the
decision, `Resolve` asks for the subject and applies the policy, `Permit` puts the
decision on record, `Perform` is the effect, `Conclude` the Kernel's answer, `Answer` the
audit query and the response, `Pass` the guard's verdict. Meanwhile time passes and the
session is reauthenticated, expires, or is revoked. `Throws` is the rejection of any
await; `Crash` ends the process but not the session store. The Kernel is not modelled
again: its part of a step is a step of `GuardedOperation`, which `KernelGateway` is
shown to implement. The matrix of the policy appears by its kinds of rules (a read, an
Owner-reserved operation, none); the session store and the resolver of subjects, of which
the repository has only the interfaces, are external, and the resolver may answer with the
subject as it was or as it is by now. An actor of another kind may resolve to any subject,
one with the Owner's role, two factors and a reauthentication of this instant included, so
that the policy's check of the actor's kind decides. The body of a route's request is valid
or not in one field, `reason`: either is turned away before the Kernel hears of it. A body
that is missing altogether does not occur, because `server/app.ts` puts `express.json()` in
front of the routes and the installed body-parser (1.20) then sets an empty one.

### Awareness

An inspection is one of three joins: the health and readiness checks over probes, Haley's
snapshot over eight Kernel reads, the dashboard over four. `condition` tells how each
source would answer now, `Sample` is the instant it does, `Join` what `Promise.all` and the
aggregation make of the answers, `Fail` the rejection that ends the dashboard's join (the
other two catch rejections per source). `during` remembers what each source was while the
inspection ran; only properties use it. The sources are external.

## 3. The runs

| Run | Instance | Question |
|---|---|---|
| `bootstrap_faults` | 3 runs, 2 of them with one ceremony id, all seven faults | `RecordBacked`, `HonestOutcome`, `ExclusiveCeremony`, `AbandonedIsFinal`; implements `OwnerEstablishment` |
| `bootstrap_clean` | the same, no failing write, unlink, read or crash; fair | `FailedLeavesNothing`, `NothingStale`, `EveryCeremonyEnds` |
| `bootstrap_torn` (violation) | only writes fail | a failed ceremony leaves its bundle |
| `audit_log` | 2 stores in turn, 4 events, one malformed; I/O, torn write, sync, crash; fair | `RecordedOnce`, `AcknowledgedIsChained`, `ChainUnbroken`, `DamageSeals`, `EveryAppendSettles`; implements `AuditTrail` |
| `audit_overlap` (violation) | 2 stores at a time, nothing fails | the chain forks |
| `recovery_codes` | 4 calls in turn, sets of 2 codes; I/O, audit failure, crash | `SingleUse`; implements `OneTimeCodes` |
| `recovery_overlap` (violation) | 3 overlapping calls, nothing fails | one code restores access twice |
| `kernel_gateway` | 2 requests, 2 ports, all faults; fair | `RecordsAreTrue`, `AnswersMatchRecords`, `SealedGrantsNothing`, `EveryRequestAnswered`; implements `GuardedOperation` |
| `platform_state` | 4 calls, an AI and a service, one flag, two versions; aborts and lost answers | `NoOrphans`, `EveryUpdateCounts`, `OwnerWasActive`; implements `PlatformCatalog` |
| `owner_access` | 3 runs of the commands, 2 passwords, one refused; 2 failures block for a window of 2 ticks, 2 ticks; I/O, crash | `RateBound`, `GrantedIsProven`; implements `OwnerFactors` |
| `owner_operations` | one request of any form, 4 sessions, a validity of 1 tick, 4 ticks; rejections, crash | `EffectIsAuthorized`, `AnswersAreTrue` |
| `awareness` | one inspection of any kind, repeatedly; 2 probes, 2 targets, the listing; 2 changes; hanging sources; fair | `ReportsWereSeen`, `EveryInspectionAnswered` |

Every run of a module's first instance also checks its type invariant `TypeOK`.

Some invariants of the modules are in no run, because a theorem states them for every
instance and a property that is checked says at least as much, or rests on them:
`WaitingIsQueued` (the appends that wait are those in a queue), `RestoredIsBurnt`,
`ReplacedAtomically` and `NeverGoesBack` (all three show in the refinement of
`OneTimeCodes`), `EnrolledIsInstalled` (in that of `OwnerFactors`), and `OutcomeOnRecord`,
whose theorem needs a log that rejects no append.

Why these bounds. *Bootstrap*: the interesting interference needs a run inside the
ceremony, one that passed its check before, and one that shares its ceremony id with
either: three runs. *Audit*: a record, one before, one after and one in the queue
behind a damaged write; two stores for what the first leaves to the second.
*Recovery*: generate, a use, a regeneration and a use of an old code; two codes to
tell "this code" from "this set". *Gateway*: requests meet only in the port map and
in the seal of the log, so two suffice; two ports so that one can be missing.
*Platform*: to define and evaluate a flag, or to
set it twice at a time, takes a registration, a definition and two more calls: four calls
let every pair of conflicting transactions overlap in a state where both can succeed.
*Access*: two provisionings, or two enrolments, that race and a verification beside them;
the clock leaves room for the four failures in a row that `RateBound` relates, around
the end of one window, and for a code two periods old. *Operations* and *awareness*: requests, and inspections, share
nothing but the session or the sources, which they do not change, so one of them meets
everything another could do to it; the sessions start before, within and outside their
time; a source can be in order, out of it, and in order again during one inspection.
A source that no inspection reads is left out of the state.
Symmetry is used only in runs without a liveness property,
and the refinement properties of those runs are safety properties.

Deadlock checking is off everywhere because the runs of every instance do end.

### Fairness

`EveryCeremonyEnds`, `EveryAppendSettles` and `EveryRequestAnswered` assume weak
fairness of each process's own steps (`Step(p)`, `Work(s)`, `Proceed(r)`): Node's event
loop resumes every continuation whose promise has settled, and the model makes
file-system calls, appends and events settle (with success or failure), as the
operating system does. Nothing is assumed about when a run starts, fails or crashes.

`EveryInspectionAnswered` assumes the same of joins, and of each source that does not hang:
a promise that settles. That some never do is a fault of the model; the code has no timeout,
and the property excuses the inspections waiting for one, except a dashboard another of
whose reads has rejected.

### Findings

1. **A failed write of the security bundle is never cleaned up** (`bootstrap_torn`).
   `bundleWritten` is set after the write, `artifacts` after provisioning returned, so
   the file that `open` created stays and blocks every later ceremony. ADR 0017 asks
   for cleanup after failure.
2. **Two stores fork the audit chain** (`audit_overlap`). The queue belongs to one
   instance, and every `owner-recovery` command makes an instance of its own;
   `docs/security/audit-integrity.md` says that the adapter serializes writes.
3. **Overlapping uses of one recovery code both succeed** (`recovery_overlap`).

The model has two more, for which no run is kept. With `Faults = {"bare"}` the module
`AuditLog` violates `AcknowledgedIsChained`: a line whose newline was lost verifies, the next
record is acknowledged and written into the same line, and the log no longer parses. With
`Faults = {"audit"}` `KernelGateway` violates `OutcomeOnRecord`: when the `succeeded`
append and then the `failed` append are rejected, an operation has taken effect with no
outcome on record (`docs/security/audit-integrity.md:3` asks for one).

Seen while modelling, without a document that says otherwise: a process that dies in the
ceremony leaves a reservation that no code removes; a regeneration whose audit append
fails has voided the old codes and never shows the new ones; a subscriber that rejects
the success event turns a finished operation into a `failed` answer with both outcomes
on record; a flag outlives its owner and can still be switched on; and the Owner
dashboard reads feature flags with action `list`, which the flag service does not
support, so that with the real service it never reports the platform available and Haley
is always degraded; a torn credential or factor file blocks every later attempt to create
it; a session that is revoked or expires stays good for the requests that have passed its
lookup; a reauthentication between the sampling of the decision's time and the resolution of
the subject makes the request's evidence too new, and the request is refused; a code of the
second factor is accepted again for as long as it is accepted at all; and a failure recorded
after the end of a window lifts a block that is still running, if the caller lets attempts
overlap.

## 4. The proofs

TLAPS checks every theorem below to the last leaf. All hold for arbitrary sets of
runs, events, calls, requests, components and flags; the assumptions are the named
`ASSUME`s of the modules (a "none" value outside its set, `Malformed` among the
events, …) and those stated here.

* **OwnerBootstrap** (any faults): type correctness; `RecordBacked`, `HonestOutcome`,
  `ExclusiveCeremony`, and the refinement of `OwnerEstablishment`. The invariant is
  *ownership*: from the `open('wx')` that creates a file to the step that gives it up,
  a run finds it as it left it. A name can be created only where nothing is, and every
  unlink is made by a run that still owns the file, so no step of another run
  disturbs it — including the abort of a run with the same ceremony id, which is the
  delicate case. None of the checked properties is inductive without it.
  `AbandonedIsFinal`, an action property: a reservation whose ceremony is over stays, and
  while it stays nothing can be established, because a ceremony establishes only under a
  reservation it owns.
  `NothingStale` and `FailedLeavesNothing` are proved under `Orderly` (no failing write,
  unlink, read, no crash) from the converse: every file that exists has an owner that
  will remove it or has made it permanent.
* **AuditLog**, from three levels of assumptions. *None* (any faults, overlapping stores
  included): type correctness; `WaitingIsQueued`; `RecordedOnce`; and `HashPinsHistory`, a
  theorem about the chain itself: two verifying prefixes of any two files that end in the
  same hash hold the same events. It rests on the lemma that a line of a verified file
  chains to all the events before it, shown at the first line that would not (the
  least-number principle, from the library's well-founded order on the naturals).
  `OneStore` (one store at a time): `ChainUnbroken` and `DamageSeals`, also with lines that
  lose only their newline. `Sound` (besides, no such line): `AcknowledgedIsChained` and the
  refinement of `AuditTrail`. The invariants say, in this order: what waits is queued and
  what was recorded is in one line; what a running append has read is still the file's end,
  and a file is sealed or verifies; only the last line can be torn, and what has been
  acknowledged lies before it. For the refinement the trail is the file without a torn last
  line, so a torn write is a step that seals it and leaves it as it was. The run
  `audit_overlap` shows that the second level is needed, and the finding with
  `Faults = {"bare"}` above that the third is.
* **RecoveryCodes** (`Serial`: calls do not overlap; any other fault): `SingleUse`,
  `RestoredIsBurnt`, `ReplacedAtomically`, `NeverGoesBack`, and the refinement of
  `OneTimeCodes`. The invariant follows one running call from what it read, to what it plans
  to write, to the code it has burnt and not yet answered, and says that nobody else knows a
  set that is not yet in place; under it, opening and writing the temporary file are
  stutters, whatever they do to the inode a dead call has left there, and `Rename` is the
  abstract step. `recovery_overlap` shows that `Serial` is needed.
* **KernelGateway** (any faults): `RecordsAreTrue`, `AnswersMatchRecords`,
  `SealedGrantsNothing` and the refinement of `GuardedOperation`, from an invariant that
  ties each await to what is on record and what took effect. `OutcomeOnRecord`, which
  the code violates when appends are rejected, is proved for a log that accepts them.
* **PlatformState** (any faults): `NoOrphans`, `EveryUpdateCounts`, `OwnerWasActive` and
  the refinement of `PlatformCatalog`. The invariant ties a call between its two
  statements to the tables (`Prepared`): the record it found is still there, an AI's update
  is dark, the owner is registered or the call is stale, the flag it sets is defined. It
  is needed even for type correctness, since an update keeps the version of a
  row that must still exist; and `Founded` (an undefined flag has no value, an unset
  value is off) is what makes two separate queries of `evaluate` one instant.
* **OwnerAccess** (any faults, any policy whose block is no shorter than its window):
  `RateBound`, for the throttling alone and in the composition, which keeps to the
  throttling's own specification (`WindowIsUsed`); `EnrolledIsInstalled`,
  `GrantedIsProven`; and the refinement of `OwnerFactors`. For the rate the invariant splits the history into the failures of
  earlier windows and the `attempts.count` of the current one, and says that the last
  failure of a full window keeps the next attempt away until the window is over: that
  needs `Block >= Window`, which is an equality in the code. For the files it says
  that a run between `Create` and its end owns the file it created, and that whoever
  enrols holds the password of the installed credential. The refinement needs more:
  files keep their writer and password after that run has failed or died, and a whole factor
  opens with the password of a credential that is whole (`FilesInv`).
* **OwnerOperations** (any faults, sessions, requests): `EffectIsAuthorized` and
  `AnswersAreTrue`. The invariant follows a request from await to await: a session
  that is valid for the request's time was live when it came, because sessions only become
  less valid; an Owner's reauthentication did happen; an allowed request has all that
  the policy asks for; the Kernel is through with whatever was answered by an error.
  `KernelIsKept` closes the composition: nothing a request does takes a
  step outside `GuardedOperation`, whose theorem in `KernelGatewayProofs` says that the
  gateway takes none either.
* **Awareness** (any sources, any changes): `ReportsWereSeen`, from the invariant that what
  a source has answered to an inspection is among what it was meanwhile.

Only model-checked: the four liveness properties `EveryCeremonyEnds`, `EveryAppendSettles`,
`EveryRequestAnswered` and `EveryInspectionAnswered`; fairness and ENABLED are outside the
prover. Every invariant, action property and refinement that a passing run checks is also
a theorem. No module uses recursive operators.

## 5. Not modelled

* Cryptography, encodings and JSON layout, argument parsing and prompts, logging, metrics
  and redaction, configuration parsing, the HTTP wiring, the web client, type-only
  contracts, KeePassXC initialisation, the memory port (it refuses everything): input,
  output or constants, without state that a step of somebody else could change.
* The database client's memoized connection (`database/client.ts:20-50`). Two disconnects, or
  a disconnect and a connect, could lose a client; but no code of the repository
  creates a `PrismaClientLifecycle` or calls `disconnect`, so there is no caller to take
  the interleavings from. Its `transaction` is what `PlatformState` is built on.
* The successor recovery file (`owner-recovery-workflow.ts:320-375`): written in the same way as
  the recovery codes, once per call, and read by nothing that acts on it. Successor trust,
  `security-policy.ts`, the validation of identity aggregates and the constitutional model
  are pure decisions without a caller.
* The AI registry: a map behind synchronous methods that no other component uses.
* The authentication in front of the dashboard: the same lookup as in `OwnerOperations`.
* What `OwnerOperations` takes from the Kernel is its promise, not its code; composing the
  modules of gateway, audit log and registry in one state space is beyond TLC at bounds
  that would show more than the refinements do.

## 6. What could follow

`DatabaseClient` deserves a module as soon as a server owns a lifecycle; and a session
store, once there is one, would replace the external actions of `OwnerOperations`.

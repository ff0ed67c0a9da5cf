----------------------------- MODULE OwnerAccess -----------------------------
(***************************************************************************)
(* The Owner's local credential and second factor: provisionOwnerCredential*)
(* (src/src/identity/owner-credential-workflow.ts), enrollOwnerTotp and    *)
(* verifyOwnerTotpFactor (src/src/identity/owner-mfa-workflow.ts), run by  *)
(* the commands of src/src/cli, each in a process of its own.  They share  *)
(* a clock and two files that are created once and never replaced.         *)
(*                                                                         *)
(* A member of Call is one run of a command; it also names the TOTP secret *)
(* that only this run can generate.  A password hash, and a secret         *)
(* encrypted with a password, appear as the password they were made with:  *)
(* both open with that password and no other.  A code is the secret and    *)
(* the time it was displayed at; codes of different secrets differ.        *)
(***************************************************************************)
EXTENDS LoginWindow

CONSTANTS
  Call,         \* runs of a command
  Password,     \* what may be typed as a password
  Refused,      \* too short, too long or known to be compromised
  None,         \* nobody, no password
  Period,       \* TOTP_POLICY.periodSeconds, in ticks
  Faults        \* what may go wrong

FaultKinds ==
  {"io",        \* a file-system call fails, a write perhaps half-way
   "crash"}     \* a process dies

ASSUME AccessAssumption ==
  /\ Refused \subseteq Password
  /\ None \notin Call \cup Password \cup {"credential", "factor"}
  /\ Period \in Nat \ {0}
  /\ Faults \subseteq FaultKinds

VARIABLES
  file,         \* owner-local-credential.json and owner-local-totp.json
  displayed,    \* the secrets that an authenticator may have been given
  pc,           \* where each run is, or how it settled
  held          \* what it holds in memory

access == <<file, displayed, pc, held>>
vars == <<now, window, access>>

FileName == {"credential", "factor"}
File ==
  [shape : {"absent", "partial", "whole"}, by : Call \cup {None},
   password : Password \cup {None}]
Absent == [shape |-> "absent", by |-> None, password |-> None]

(* Whose secret it is, and when the authenticator showed the code.         *)
Code == [secret : Call \cup {None}, shown : Nat]

(* A run holds the password it was given, the name of the file it is to    *)
(* create, or the code it is to verify and the time it sampled for that.   *)
(* The time the code was really entered at is only remembered.             *)
Held ==
  [password : Password \cup {None}, target : FileName \cup {None}, code : Code,
   at : Nat, entered : Nat]
Nothing ==
  [password |-> None, target |-> None, code |-> [secret |-> None, shown |-> 0],
   at |-> 0, entered |-> 0]

Running == {"prove", "create", "write", "sync", "check", "open"}
Settled == {"provisioned", "enrolled", "granted", "denied", "failed"}

TypeOK ==
  /\ WindowTypeOK
  /\ file \in [FileName -> File]
  /\ displayed \in SUBSET Call
  /\ pc \in [Call -> {"idle", "crashed"} \cup Running \cup Settled]
  /\ held \in [Call -> Held]

Init ==
  /\ WindowInit
  /\ file = [n \in FileName |-> Absent]
  /\ displayed = {}
  /\ pc = [c \in Call |-> "idle"]
  /\ held = [c \in Call |-> Nothing]

-----------------------------------------------------------------------------
Goto(c, from, to) ==
  /\ pc[c] = from
  /\ pc' = [pc EXCEPT ![c] = to]

(* The run is over and what it held is overwritten.                        *)
Ends(c, from, how) ==
  /\ Goto(c, from, how)
  /\ held' = [held EXCEPT ![c] = Nothing]

Holds(c, password, target) ==
  held' = [held EXCEPT ![c].password = password, ![c].target = target]

(* What JSON.parse(readFile(...)) can be used for.                         *)
Readable(n) == file[n].shape = "whole"

(* A password is hashed that the policy and the denylist accept.           *)
Acceptable == Password \ Refused

(* verifyLocalPassword.                                                    *)
Opens(password, hash) == password = hash

(* provisionOwnerCredential up to the file: it reads the Owner record, and *)
(* needs an identifier, a confirmation, and the same password twice.       *)
Provision(c) ==
  /\ \/ /\ Goto(c, "idle", "create")
        /\ \E p \in Acceptable : Holds(c, p, "credential")
     \/ Ends(c, "idle", "failed")
  /\ UNCHANGED <<now, window, file, displayed>>

(* enrollOwnerTotp reads the credential, and needs a confirmation.         *)
Enroll(c) ==
  /\ \/ /\ Readable("credential")
        /\ Goto(c, "idle", "prove")
        /\ Holds(c, file["credential"].password, "factor")
     \/ Ends(c, "idle", "failed")
  /\ UNCHANGED <<now, window, file, displayed>>

(* Variant: the codes of two periods before and after are accepted too.    *)
VerifyTotpWidely(secret, code, at) ==
  /\ code.secret = secret
  /\ (code.shown \div Period) - (at \div Period) \in -2..2

(* verifyTotp: the code of the current period or of one next to it.        *)
VerifyTotp(secret, code, at) ==
  /\ code.secret = secret
  /\ (code.shown \div Period) - (at \div Period) \in -1..1

(* With the right password a secret is generated and displayed, and a code *)
(* for it read; the clock is asked after that.                             *)
Prove(c) ==
  /\ \/ /\ \E p \in Password : ~Opens(p, held[c].password)
        /\ Ends(c, "prove", "failed")
        /\ UNCHANGED displayed
     \/ /\ displayed' = displayed \cup {c}
        /\ \/ /\ \E shown \in 0..MaxTime :
                   VerifyTotp(c, [secret |-> c, shown |-> shown], now)
              /\ Goto(c, "prove", "create")
              /\ UNCHANGED held
           \/ Ends(c, "prove", "failed")
  /\ UNCHANGED <<now, window, file>>

-----------------------------------------------------------------------------
Becomes(c, shape) ==
  file' = [file EXCEPT ![held[c].target] =
             [shape |-> shape, by |-> c, password |-> held[c].password]]

(* Variant: opened with 'w', the file is truncated when it exists.         *)
CreateTruncating(c) ==
  /\ \/ /\ Goto(c, "create", "write")
        /\ Becomes(c, "partial")
        /\ UNCHANGED held
     \/ /\ "io" \in Faults
        /\ Ends(c, "create", "failed")
        /\ UNCHANGED file
  /\ UNCHANGED <<now, window, displayed>>

(* Both commands open their file with 'wx', write, sync and close it; none *)
(* removes it when that fails.                                             *)
Create(c) ==
  /\ \/ /\ Goto(c, "create", "write")
        /\ file[held[c].target].shape = "absent"
        /\ Becomes(c, "partial")
        /\ UNCHANGED held
     \/ /\ Ends(c, "create", "failed")
        /\ file[held[c].target].shape # "absent" \/ "io" \in Faults
        /\ UNCHANGED file
  /\ UNCHANGED <<now, window, displayed>>

Write(c) ==
  /\ \/ /\ Goto(c, "write", "sync")
        /\ Becomes(c, "whole")
        /\ UNCHANGED held
     \/ /\ "io" \in Faults
        /\ Ends(c, "write", "failed")
        /\ Becomes(c, "whole") \/ UNCHANGED file
  /\ UNCHANGED <<now, window, displayed>>

Sync(c) ==
  /\ \/ Ends(c, "sync", IF held[c].target = "credential" THEN "provisioned" ELSE "enrolled")
     \/ "io" \in Faults /\ Ends(c, "sync", "failed")
  /\ UNCHANGED <<now, window, file, displayed>>

-----------------------------------------------------------------------------
(* What is typed when access is asked for: a password, and a code of a     *)
(* secret that was ever displayed, or a made-up one, however old it is and *)
(* however wrong the authenticator's clock.                                *)
Entry ==
  [password : Password, target : {None},
   code : [secret : displayed \cup {None}, shown : 0..MaxTime],
   at : {now}, entered : {now}]

(* The command asks for the password and a code, and then samples the time *)
(* for verifyOwnerTotpFactor.                                              *)
Enter(c) ==
  /\ Goto(c, "idle", "check")
  /\ \E entry \in Entry : held' = [held EXCEPT ![c] = entry]
  /\ UNCHANGED <<now, window, file, displayed>>

(* verifyOwnerTotpFactor reads the credential and checks the password.     *)
Check(c) ==
  /\ \/ /\ Goto(c, "check", "open")
        /\ Readable("credential")
        /\ Opens(held[c].password, file["credential"].password)
        /\ UNCHANGED held
     \/ /\ Ends(c, "check", "denied")
        /\ Readable("credential")
        /\ ~Opens(held[c].password, file["credential"].password)
     \/ /\ Ends(c, "check", "failed")
        /\ ~Readable("credential") \/ "io" \in Faults
  /\ UNCHANGED <<now, window, file, displayed>>

(* It then reads the factor, decrypts its secret and checks the code.      *)
Decrypts(c) == held[c].password = file["factor"].password
Proven(c) ==
  /\ Decrypts(c)
  /\ VerifyTotp(file["factor"].by, held[c].code, held[c].at)

Open(c) ==
  /\ \/ /\ Goto(c, "open", "granted")
        /\ Readable("factor")
        /\ Proven(c)
        /\ UNCHANGED held
     \/ /\ Ends(c, "open", "denied")
        /\ Readable("factor")
        /\ ~Proven(c)
     \/ /\ Ends(c, "open", "failed")
        /\ ~Readable("factor") \/ "io" \in Faults
  /\ UNCHANGED <<now, window, file, displayed>>

Crash(c) ==
  /\ "crash" \in Faults
  /\ pc[c] \in Running
  /\ Ends(c, pc[c], "crashed")
  /\ UNCHANGED <<now, window, file, displayed>>

(* Logins are attempted against the credential.                            *)
Login ==
  /\ Readable("credential")
  /\ Attempt \/ AttemptFails \/ AttemptSucceeds
  /\ UNCHANGED access

Proceed(c) ==
  \/ Provision(c) \/ Enroll(c) \/ Prove(c)
  \/ Create(c) \/ Write(c) \/ Sync(c)
  \/ Enter(c) \/ Check(c) \/ Open(c)

Next ==
  \/ \E c \in Call : Proceed(c) \/ Crash(c)
  \/ Login
  \/ Tick /\ UNCHANGED access

Spec == Init /\ [][Next]_vars

-----------------------------------------------------------------------------
(* What a command has acknowledged is in place and stays: the credential   *)
(* that was provisioned, and the factor that was enrolled, whole and with  *)
(* a secret that the installed credential's password opens; also when      *)
(* other runs of the commands race with it, fail or die.                   *)
EnrolledIsInstalled ==
  \A c \in Call :
    /\ pc[c] = "provisioned" =>
         /\ Readable("credential")
         /\ file["credential"].by = c
         /\ file["credential"].password \notin Refused
    /\ pc[c] = "enrolled" =>
         /\ Readable("factor") /\ Readable("credential")
         /\ file["factor"].by = c
         /\ file["factor"].password = file["credential"].password

(* Access is granted to the installed password together with a code of the *)
(* installed factor, one that was on display less than two periods before  *)
(* or after it was entered, whatever happened to the files and however     *)
(* long the verification took; presenting a code again gains no more.      *)
GrantedIsProven ==
  \A c \in Call : pc[c] = "granted" =>
    /\ Readable("credential") /\ Readable("factor")
    /\ held[c].password = file["credential"].password
    /\ held[c].code.secret = file["factor"].by
    /\ held[c].code.shown - held[c].entered < 2 * Period
    /\ held[c].entered - held[c].code.shown < 2 * Period

(* What is installed are the files that are whole; a call has presented a  *)
(* password and a code while they are being verified.                      *)
Installed(n) ==
  IF Readable(n)
    THEN [by |-> file[n].by, password |-> file[n].password]
    ELSE [by |-> None, password |-> None]
Presented(c) ==
  IF pc[c] \in {"check", "open"}
    THEN {[password |-> held[c].password, code |-> held[c].code, at |-> held[c].entered]}
    ELSE {}
Told(c) ==
  CASE pc[c] \in Settled -> pc[c]
    [] pc[c] = "crashed" -> "failed"
    [] OTHER -> "nothing"

Factors == INSTANCE OwnerFactors WITH
  Time <- 0..MaxTime,
  installed <- [n \in FileName |-> Installed(n)],
  presented <- [c \in Call |-> Presented(c)],
  told <- [c \in Call |-> Told(c)]

(* The commands implement the two factors: a file counts from its last     *)
(* write on and is never replaced, whatever races, fails or dies; a grant  *)
(* and a denial are both true of what is installed.                        *)
ImplementsFactors == Factors!Spec
=============================================================================

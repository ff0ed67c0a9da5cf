---------------------------- MODULE RecoveryCodes ----------------------------
(***************************************************************************)
(* The Owner's one-time MFA recovery codes: FileOwnerRecoveryWorkflow      *)
(* (src/src/identity/owner-recovery-workflow.ts) and its command           *)
(* src/src/cli/owner-recovery.ts.  The codes live in one JSON file that    *)
(* every operation reads as a whole, changes, and replaces by renaming a   *)
(* temporary file whose name all operations share.                         *)
(*                                                                         *)
(* A member of Call is one call of an operation, and also names what only  *)
(* that call can create: its code set and its temporary file's inode.      *)
(***************************************************************************)
CONSTANTS
  Call,         \* calls of generate, regenerate and use
  Slot,         \* the codes of one set (ten in the code)
  None,         \* no such file
  Faults        \* what the environment may do

FaultKinds ==
  {"io",        \* a file-system call fails
   "audit",     \* the append to the platform audit log fails
   "crash",     \* the process dies
   "overlap"}   \* a call starts before the one before it has settled

ASSUME NoneAssumption == None \notin Call
ASSUME FaultsAssumption == Faults \subseteq FaultKinds

VARIABLES
  main,         \* the inode owner-mfa-recovery.json names, or None
  temp,         \* the inode owner-mfa-recovery.json.tmp names, or None
  content,      \* what each inode holds
  handle,       \* the inode each running call has open
  pc,           \* where each call is, or how it settled
  plan,         \* the state each running call is going to write
  ask,          \* the code each running call of use was given
  restored,     \* the calls that restored access, and with which code
  audited       \* the calls with a 'succeeded' record in the audit log

vars == <<main, temp, content, handle, pc, plan, ask, restored, audited>>

(* A code is one slot of one set.  An OwnerMfaRecoveryState holds a set    *)
(* and the slots of it that carry usedAt.                                  *)
Code == Call \X Slot
State == [shape : {"whole"}, set : Call, used : SUBSET Slot]
Whole(set, used) == [shape |-> "whole", set |-> set, used |-> used]

(* A file just opened, and one with part of a state or parts of several.   *)
Empty == [shape |-> "empty", set |-> None, used |-> {}]
Garbage == [shape |-> "garbage", set |-> None, used |-> {}]
Content == State \cup {Empty, Garbage}

Running == {"readRegenerate", "readUse", "deny", "open", "write", "rename", "audit"}
Settled == {"issued", "restored", "denied", "failed"}

TypeOK ==
  /\ main \in Call \cup {None}
  /\ temp \in Call \cup {None}
  /\ content \in [Call -> Content]
  /\ handle \in [Call -> Call \cup {None}]
  /\ pc \in [Call -> {"idle", "crashed"} \cup Running \cup Settled]
  /\ plan \in [Call -> Content]
  /\ ask \in [Call -> Code \cup {<<>>}]
  /\ restored \in SUBSET (Call \X Code)
  /\ audited \in SUBSET Call

Init ==
  /\ main = None
  /\ temp = None
  /\ content = [c \in Call |-> Empty]
  /\ handle = [c \in Call |-> None]
  /\ pc = [c \in Call |-> "idle"]
  /\ plan = [c \in Call |-> Empty]
  /\ ask = [c \in Call |-> <<>>]
  /\ restored = {}
  /\ audited = {}

-----------------------------------------------------------------------------
Goto(c, from, to) ==
  /\ pc[c] = from
  /\ pc' = [pc EXCEPT ![c] = to]

(* The call is over and its local variables are gone.                      *)
End(c, from, how) ==
  /\ Goto(c, from, how)
  /\ handle' = [handle EXCEPT ![c] = None]
  /\ plan' = [plan EXCEPT ![c] = Empty]
  /\ ask' = [ask EXCEPT ![c] = <<>>]

local == <<handle, plan, ask>>
files == <<main, temp, content>>
history == <<restored, audited>>

(* Calls are made one after the other, unless they overlap.                *)
Begin(c, first) ==
  /\ "overlap" \in Faults \/ \A d \in Call : pc[d] \notin Running
  /\ Goto(c, "idle", first)
  /\ UNCHANGED <<files, handle, history>>

(* generateRecoveryCodes reads nothing: a new set replaces what is there.  *)
Generate(c) ==
  /\ Begin(c, "open")
  /\ plan' = [plan EXCEPT ![c] = Whole(c, {})]
  /\ UNCHANGED ask

(* The command regenerates when it has seen a state.                       *)
Regenerate(c) ==
  /\ Begin(c, "readRegenerate")
  /\ UNCHANGED <<plan, ask>>

(* Somebody presents a code of some set that was, or is being, created.    *)
Use(c, code) ==
  /\ pc[code[1]] # "idle"
  /\ Begin(c, "readUse")
  /\ ask' = [ask EXCEPT ![c] = code]
  /\ UNCHANGED plan

(* readJson answers undefined when there is no file, and throws when the   *)
(* file cannot be read or parsed.                                          *)
Readable == main # None /\ content[main].shape = "whole"
Stored == content[main]
ReadFails == (main # None /\ ~Readable) \/ "io" \in Faults

(* Without a state, or without a verified second factor, it throws.        *)
ReadRegenerate(c) ==
  /\ \/ /\ Readable
        /\ Goto(c, "readRegenerate", "open")
        /\ plan' = [plan EXCEPT ![c] = Whole(c, {})]
        /\ UNCHANGED <<handle, ask>>
     \/ End(c, "readRegenerate", "failed")
  /\ UNCHANGED <<files, history>>

(* Variant: a code of the stored set is accepted whenever it matches.      *)
AcceptsAgain(code) ==
  /\ Readable
  /\ Stored.set = code[1]

(* The code is one of the stored set and not used yet.                     *)
Accepts(code) ==
  /\ Readable
  /\ Stored.set = code[1]
  /\ code[2] \notin Stored.used

(* A request that names another subject or another method, or gives no     *)
(* reason, is denied whatever its code.                                    *)
ReadUse(c) ==
  /\ pc[c] = "readUse"
  /\ \/ /\ Accepts(ask[c])
        /\ Goto(c, "readUse", "open")
        /\ plan' = [plan EXCEPT ![c] = Whole(Stored.set, Stored.used \cup {ask[c][2]})]
        /\ UNCHANGED <<handle, ask>>
     \/ /\ Readable \/ main = None
        /\ Goto(c, "readUse", "deny")
        /\ UNCHANGED local
     \/ ReadFails /\ End(c, "readUse", "failed")
  /\ UNCHANGED <<files, history>>

-----------------------------------------------------------------------------
(* writeJson                                                               *)

(* open with flag 'w' creates the temporary file, or empties the one that  *)
(* is there, whoever has it open.                                          *)
Open(c) ==
  /\ \/ LET inode == IF temp = None THEN c ELSE temp IN
          /\ temp' = inode
          /\ content' = [content EXCEPT ![inode] = Empty]
          /\ handle' = [handle EXCEPT ![c] = inode]
          /\ Goto(c, "open", "write")
          /\ UNCHANGED <<plan, ask>>
     \/ "io" \in Faults /\ End(c, "open", "failed") /\ UNCHANGED <<temp, content>>
  /\ UNCHANGED <<main, history>>

(* writeFile and sync go to the open inode, under whatever name it has by  *)
(* now; over the bytes of another call they may leave a mixture.           *)
Write(c) ==
  /\ \/ /\ Goto(c, "write", "rename")
        /\ \E new \in {plan[c], Garbage} :
             /\ new = plan[c] \/ content[handle[c]] # Empty
             /\ content' = [content EXCEPT ![handle[c]] = new]
        /\ UNCHANGED local
     \/ /\ "io" \in Faults
        /\ End(c, "write", "failed")
        /\ \E new \in {Empty, Garbage, plan[c]} :
             content' = [content EXCEPT ![handle[c]] = new]
  /\ UNCHANGED <<main, temp, history>>

(* rename moves whatever the temporary name stands for now, and fails when *)
(* another call has renamed it already.  The replaced inode is freed.      *)
Rename(c) ==
  /\ \/ /\ temp # None
        /\ Goto(c, "rename", "audit")
        /\ main' = temp
        /\ temp' = None
        /\ content' = [d \in Call |-> IF d = main THEN Empty ELSE content[d]]
        /\ UNCHANGED local
     \/ /\ temp = None \/ "io" \in Faults
        /\ End(c, "rename", "failed")
        /\ UNCHANGED files
  /\ UNCHANGED history

-----------------------------------------------------------------------------
(* Variant: generation answers through the same path as use.               *)
AuditRestoring(c) ==
  /\ End(c, "audit", "restored")
  /\ audited' = audited \cup {c}
  /\ restored' = restored \cup {<<c, ask[c]>>}
  /\ UNCHANGED files

(* Variant: a record that cannot be written is reported as a denial.       *)
AuditDenying(c) ==
  /\ \/ /\ End(c, "audit", IF ask[c] = <<>> THEN "issued" ELSE "restored")
        /\ audited' = audited \cup {c}
        /\ restored' = restored \cup ({<<c, ask[c]>>} \cap (Call \X Code))
     \/ /\ End(c, "audit", "denied")
        /\ UNCHANGED <<audited, restored>>
  /\ UNCHANGED files

(* The audit record comes after the change, and the answer after both.     *)
Audit(c) ==
  /\ \/ /\ End(c, "audit", IF ask[c] = <<>> THEN "issued" ELSE "restored")
        /\ audited' = audited \cup {c}
        /\ restored' = restored \cup ({<<c, ask[c]>>} \cap (Call \X Code))
     \/ /\ "audit" \in Faults
        /\ End(c, "audit", "failed")
        /\ audited' \in {audited, audited \cup {c}}
        /\ UNCHANGED restored
  /\ UNCHANGED files

Deny(c) ==
  /\ \/ End(c, "deny", "denied")
     \/ "audit" \in Faults /\ End(c, "deny", "failed")
  /\ UNCHANGED <<files, history>>

Crash(c) ==
  /\ "crash" \in Faults
  /\ \E from \in Running : End(c, from, "crashed")
  /\ UNCHANGED <<files, history>>

Work(c) ==
  \/ ReadRegenerate(c) \/ ReadUse(c)
  \/ Open(c) \/ Write(c) \/ Rename(c)
  \/ Audit(c) \/ Deny(c)

Next == \E c \in Call :
  \/ Generate(c)
  \/ Regenerate(c)
  \/ \E code \in Code : Use(c, code)
  \/ Work(c)
  \/ Crash(c)

Spec == Init /\ [][Next]_vars

-----------------------------------------------------------------------------
(* "Owner MFA recovery codes are single-use secrets" (ADR 0015): no two    *)
(* calls ever restore access with the same code, whatever failed, crashed  *)
(* or was regenerated in between.                                          *)
SingleUse ==
  \A x, y \in restored : x[2] = y[2] => x[1] = y[1]

(* Access restored leaves traces no later operation takes back: its audit  *)
(* record, and the code burnt in the stored set unless the whole set has   *)
(* been replaced.                                                          *)
RestoredIsBurnt ==
  \A x \in restored :
    /\ x[1] \in audited
    /\ Readable
    /\ Stored.set = x[2][1] => x[2][2] \in Stored.used

(* The stored state is replaced as a whole: no failure and no crash leaves *)
(* a file that later operations cannot read.                               *)
ReplacedAtomically == main # None => Readable

(* The stored state never goes back: a step keeps the set and every used   *)
(* mark, or brings in the unused set of the very call that is replacing    *)
(* the file.  A replaced set never returns.                                *)
NeverGoesBack ==
  [][ Readable =>
        LET new == content'[main'] IN
        \/ new.set = Stored.set /\ Stored.used \subseteq new.used
        \/ new.set # Stored.set /\ pc[new.set] = "rename" /\ new.used = {} ]_vars

(* A call has acted once the state is renamed into place, and its answer   *)
(* comes with the audit record.                                            *)
Stage(p) ==
  CASE p = "idle" -> "new"
    [] p \in Running \ {"audit"} -> "asked"
    [] p = "audit" -> "acted"
    [] p = "crashed" -> "failed"
    [] p \in Settled -> p

Good == IF Readable THEN {Stored.set} \X (Slot \ Stored.used) ELSE {}
Stages == [c \in Call |-> Stage(pc[c])]
Taken == [c \in Call |-> IF pc[c] = "audit" THEN ask[c] ELSE <<>>]

Codes == INSTANCE OneTimeCodes WITH good <- Good, stage <- Stages, taken <- Taken

(* Calls made one after the other implement the one-time codes: reading,   *)
(* checking and replacing the file take effect at one instant, and no      *)
(* failure or crash shows anything in between.                             *)
ImplementsCodes == Codes!Spec
=============================================================================

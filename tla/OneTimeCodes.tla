---------------------------- MODULE OneTimeCodes ----------------------------
(***************************************************************************)
(* What the Owner's recovery codes promise their callers, without any      *)
(* file: one call acts once and at one instant, either by replacing every  *)
(* code that is still good with a set of its own or by taking one good     *)
(* code; access is restored for a code that was taken, and with a record   *)
(* of it; a denied call has taken nothing; a failed one may have acted,    *)
(* and then its codes are replaced, or its code gone, all the same.        *)
(***************************************************************************)
CONSTANTS
  Call,      \* calls of generate, regenerate and use
  Slot       \* the codes of one set

VARIABLES
  good,      \* the codes that restore access when presented
  stage,     \* per call: "new", "asked", "acted", or what it was told
  taken,     \* per call: the code it took and was not yet answered for
  restored,  \* the calls that restored access, and with which code
  audited    \* the calls with a 'succeeded' record in the audit log

vars == <<good, stage, taken, restored, audited>>

Nothing == <<>>

Init ==
  /\ good = {}
  /\ stage = [c \in Call |-> "new"]
  /\ taken = [c \in Call |-> Nothing]
  /\ restored = {}
  /\ audited = {}

Becomes(c, from, to) ==
  /\ stage[c] = from
  /\ stage' = [stage EXCEPT ![c] = to]

Ask(c) ==
  /\ Becomes(c, "new", "asked")
  /\ UNCHANGED <<good, taken, restored, audited>>

Replace(c) ==
  /\ Becomes(c, "asked", "acted")
  /\ good' = {c} \X Slot
  /\ UNCHANGED <<taken, restored, audited>>

Take(c, code) ==
  /\ Becomes(c, "asked", "acted")
  /\ code \in good
  /\ good' = good \ {code}
  /\ taken' = [taken EXCEPT ![c] = code]
  /\ UNCHANGED <<restored, audited>>

Issue(c) ==
  /\ Becomes(c, "acted", "issued")
  /\ taken[c] = Nothing
  /\ audited' = audited \cup {c}
  /\ UNCHANGED <<good, taken, restored>>

Restore(c) ==
  /\ Becomes(c, "acted", "restored")
  /\ taken[c] # Nothing
  /\ restored' = restored \cup {<<c, taken[c]>>}
  /\ audited' = audited \cup {c}
  /\ taken' = [taken EXCEPT ![c] = Nothing]
  /\ UNCHANGED good

Deny(c) ==
  /\ Becomes(c, "asked", "denied")
  /\ UNCHANGED <<good, taken, restored, audited>>

(* The call is rejected, or its process ends: it may have acted, and its   *)
(* record may have been written.                                           *)
Fail(c) ==
  /\ \/ Becomes(c, "asked", "failed") /\ UNCHANGED audited
     \/ Becomes(c, "acted", "failed") /\ audited' \in {audited, audited \cup {c}}
  /\ taken' = [taken EXCEPT ![c] = Nothing]
  /\ UNCHANGED <<good, restored>>

Next == \E c \in Call :
  \/ Ask(c)
  \/ Replace(c)
  \/ \E code \in Call \X Slot : Take(c, code)
  \/ Issue(c)
  \/ Restore(c)
  \/ Deny(c)
  \/ Fail(c)

Spec == Init /\ [][Next]_vars
=============================================================================

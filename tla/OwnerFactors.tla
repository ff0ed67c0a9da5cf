---------------------------- MODULE OwnerFactors ----------------------------
(***************************************************************************)
(* What the Owner's credential and second factor promise, without files,   *)
(* crashes or torn writes: each of the two is installed at one instant, at *)
(* most once and for good, the factor under the password of the credential;*)
(* who is told that it was installed installed it; and who presents a      *)
(* password and a code is answered by what is installed.                   *)
(***************************************************************************)
EXTENDS Integers

CONSTANTS
  Call,        \* runs of a command
  Password,    \* what may be typed as a password
  Refused,     \* passwords that are never installed
  None,        \* nobody, no password
  Period,      \* of the second factor's codes
  Time         \* when one may be displayed and entered

VARIABLES
  installed,   \* the credential and the factor: by whom, and the password that opens it
  presented,   \* per call: the password and code it has presented, if any
  told         \* what each caller was told, "nothing" while it waits

vars == <<installed, presented, told>>

Missing == [by |-> None, password |-> None]

Entry ==
  [password : Password, code : [secret : Call \cup {None}, shown : Time], at : Time]

Init ==
  /\ installed = [n \in {"credential", "factor"} |-> Missing]
  /\ presented = [c \in Call |-> {}]
  /\ told = [c \in Call |-> "nothing"]

Answer(c, answer) ==
  /\ told' = [told EXCEPT ![c] = answer]
  /\ presented' = [presented EXCEPT ![c] = {}]

(* Who installs something may fail nevertheless, and it stays installed.   *)
Install(c, n) ==
  /\ installed[n] = Missing
  /\ \E p \in Password :
       /\ n = "credential" => p \notin Refused
       /\ n = "factor" => /\ installed["credential"] # Missing
                          /\ p = installed["credential"].password
       /\ installed' = [installed EXCEPT ![n] = [by |-> c, password |-> p]]
  /\ told' \in {told, [told EXCEPT ![c] = "failed"]}
  /\ UNCHANGED presented

Acknowledge(c) ==
  /\ \/ installed["credential"].by = c /\ Answer(c, "provisioned")
     \/ installed["factor"].by = c /\ Answer(c, "enrolled")
  /\ UNCHANGED installed

Present(c) ==
  /\ presented[c] = {}
  /\ \E entry \in presented'[c] \cap Entry :
       presented' = [presented EXCEPT ![c] = {entry}]
  /\ UNCHANGED <<told, installed>>

Opens(entry) ==
  /\ installed["credential"] # Missing
  /\ entry.password = installed["credential"].password

(* How far from the time it was presented at the code was on display.      *)
Within(entry, limit) ==
  /\ entry.code.shown - entry.at <= limit
  /\ entry.at - entry.code.shown <= limit

(* A code on display two periods away, or more, is never good enough ...   *)
Grant(c) ==
  /\ \E entry \in presented[c] :
       /\ Opens(entry)
       /\ installed["factor"] # Missing
       /\ entry.code.secret = installed["factor"].by
       /\ Within(entry, 2 * Period - 1)
  /\ Answer(c, "granted")
  /\ UNCHANGED installed

(* ... and one on display at most one period away always is.               *)
Deny(c) ==
  /\ \E entry \in presented[c] :
       Opens(entry) =>
         /\ installed["factor"] # Missing
         /\ entry.code.secret = installed["factor"].by => ~Within(entry, Period)
  /\ installed["credential"] # Missing
  /\ Answer(c, "denied")
  /\ UNCHANGED installed

Fail(c) ==
  /\ Answer(c, "failed")
  /\ UNCHANGED installed

Waiting == {c \in Call : told[c] = "nothing"}

Next == \E c \in Waiting :
  \/ \E n \in {"credential", "factor"} : Install(c, n)
  \/ Acknowledge(c)
  \/ Present(c)
  \/ Grant(c) \/ Deny(c) \/ Fail(c)

Spec == Init /\ [][Next]_vars
=============================================================================

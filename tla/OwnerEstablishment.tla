------------------------- MODULE OwnerEstablishment -------------------------
(***************************************************************************)
(* What the one-time Owner Bootstrap promises, without any file, crash or  *)
(* cleanup: of any number of ceremonies at most one ever establishes the   *)
(* Owner, it does so with a complete set of security artifacts of its own, *)
(* those artifacts are never withdrawn afterwards, and every ceremony that *)
(* gets an answer gets the true one.                                       *)
(***************************************************************************)
CONSTANTS
  Proc,        \* the ceremonies (runs of the bootstrap command)
  Nobody       \* stands for "no Owner yet"

VARIABLES
  owner,       \* the ceremony that established the Owner, or Nobody
  keys,        \* the ceremonies whose complete artifacts exist (at most one)
  answer       \* what each ceremony was told

vars == <<owner, keys, answer>>

TypeOK ==
  /\ owner \in Proc \cup {Nobody}
  /\ keys \in SUBSET Proc
  /\ answer \in [Proc -> {"none", "established", "refused"}]

Init ==
  /\ owner = Nobody
  /\ keys = {}
  /\ answer = [p \in Proc |-> "none"]

(* A ceremony's artifacts come into being while there is no Owner.         *)
Provision(p) ==
  /\ owner = Nobody
  /\ keys = {}
  /\ answer[p] = "none"
  /\ keys' = {p}
  /\ UNCHANGED <<owner, answer>>

(* Artifacts disappear, but never those of the Owner.                      *)
Withdraw(p) ==
  /\ p \in keys
  /\ owner # p
  /\ keys' = keys \ {p}
  /\ UNCHANGED <<owner, answer>>

Establish(p) ==
  /\ owner = Nobody
  /\ keys = {p}
  /\ answer[p] = "none"
  /\ owner' = p
  /\ UNCHANGED <<keys, answer>>

Confirm(p) ==
  /\ owner = p
  /\ answer[p] = "none"
  /\ answer' = [answer EXCEPT ![p] = "established"]
  /\ UNCHANGED <<owner, keys>>

Refuse(p) ==
  /\ owner # p
  /\ answer[p] = "none"
  /\ answer' = [answer EXCEPT ![p] = "refused"]
  /\ UNCHANGED <<owner, keys>>

Next == \E p \in Proc :
  \/ Provision(p)
  \/ Withdraw(p)
  \/ Establish(p)
  \/ Confirm(p)
  \/ Refuse(p)

Spec == Init /\ [][Next]_vars
=============================================================================

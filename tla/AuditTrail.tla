----------------------------- MODULE AuditTrail -----------------------------
(***************************************************************************)
(* What the platform audit log promises its callers: a trail that only     *)
(* grows, in which every acknowledged event stays, and which is sealed for *)
(* good, accepting and acknowledging nothing more, once its storage has    *)
(* been damaged.                                                           *)
(***************************************************************************)
EXTENDS Sequences

CONSTANT Event

VARIABLES
  trail,    \* the recorded events, oldest first
  sealed,   \* damaged: nothing more is accepted
  answer    \* what the caller of append knows

vars == <<trail, sealed, answer>>

Init ==
  /\ trail = <<>>
  /\ sealed = FALSE
  /\ answer = [e \in Event |-> "none"]

Ask(e) ==
  /\ answer[e] = "none"
  /\ answer' = [answer EXCEPT ![e] = "pending"]
  /\ UNCHANGED <<trail, sealed>>

Record(e) ==
  /\ ~sealed
  /\ answer[e] = "pending"
  /\ trail' = Append(trail, e)
  /\ UNCHANGED <<sealed, answer>>

Confirm(e) ==
  /\ ~sealed
  /\ answer[e] = "pending"
  /\ \E i \in DOMAIN trail : trail[i] = e
  /\ answer' = [answer EXCEPT ![e] = "ok"]
  /\ UNCHANGED <<trail, sealed>>

(* Callers whose append was rejected, or whose process ended, learn        *)
(* nothing about the trail.                                                *)
Disappoint(failed) ==
  /\ failed # {}
  /\ \A e \in failed : answer[e] = "pending"
  /\ \E a \in {"rejected", "lost"} :
       answer' = [e \in Event |-> IF e \in failed THEN a ELSE answer[e]]
  /\ UNCHANGED trail

Next ==
  \/ \E e \in Event : Ask(e) \/ Record(e) \/ Confirm(e)
  \/ \E failed \in SUBSET Event : Disappoint(failed) /\ sealed' \in {sealed, TRUE}

Spec == Init /\ [][Next]_vars
=============================================================================

-------------------------- MODULE GuardedOperation ---------------------------
(***************************************************************************)
(* What the Kernel promises of an operation: it takes effect only under a  *)
(* permission that is on record, at most once and before its caller is     *)
(* answered; who is told it was accepted finds it done, and who is told it *)
(* was denied, or had nowhere to go, finds nothing done.                   *)
(***************************************************************************)
CONSTANT Request

VARIABLES
  permitted,    \* the requests whose permission is on record
  done,         \* the requests that took effect
  told          \* what each caller was told, "nothing" while it waits

vars == <<permitted, done, told>>

Denials == {"denied", "unavailable"}
Answers == {"accepted", "failed", "rejected", "lost"} \cup Denials

Init ==
  /\ permitted = {}
  /\ done = {}
  /\ told = [r \in Request |-> "nothing"]

Permit(r) ==
  /\ told[r] = "nothing"
  /\ permitted' = permitted \cup {r}
  /\ UNCHANGED <<done, told>>

Do(r) ==
  /\ told[r] = "nothing"
  /\ r \in permitted \ done
  /\ done' = done \cup {r}
  /\ UNCHANGED <<permitted, told>>

(* A call that ends in an exception may leave its permission on record.    *)
Tell(r, answer) ==
  /\ told[r] = "nothing"
  /\ answer = "accepted" => r \in done
  /\ answer \in Denials => r \notin done
  /\ told' = [told EXCEPT ![r] = answer]
  /\ \/ UNCHANGED permitted
     \/ answer = "rejected" /\ permitted' = permitted \cup {r}
  /\ UNCHANGED done

(* The callers that wait learn nothing any more.                           *)
Lose ==
  /\ \E waiting \in SUBSET {r \in Request : told[r] = "nothing"} :
       told' = [r \in Request |-> IF r \in waiting THEN "lost" ELSE told[r]]
  /\ UNCHANGED <<permitted, done>>

Next ==
  \/ \E r \in Request :
       Permit(r) \/ Do(r) \/ \E answer \in Answers : Tell(r, answer)
  \/ Lose

Spec == Init /\ [][Next]_vars
=============================================================================

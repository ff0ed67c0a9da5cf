----------------------------- MODULE LoginWindow -----------------------------
(***************************************************************************)
(* The throttling of local logins                                          *)
(* (src/src/identity/local-credentials.ts): canAttemptLocalLogin,          *)
(* recordLocalLoginFailure and clearLocalLoginFailures, three functions    *)
(* over a LoginAttemptState.  Their caller is not part of the repository:  *)
(* here it asks before each attempt, reports how it ended, and makes one   *)
(* attempt at a time.  Time passes while a password is being verified.     *)
(***************************************************************************)
EXTENDS Integers, Sequences

CONSTANTS
  MaxFailures,  \* LOCAL_LOGIN_ATTEMPT_POLICY.maximumFailures
  Window,       \* .windowMs
  Block,        \* .blockMs
  MaxTime       \* bound: the clock stops here

(* Both durations are fifteen minutes in the code.                         *)
ASSUME PolicyAssumption ==
  /\ MaxFailures \in Nat \ {0}
  /\ Window \in Nat \ {0}
  /\ Block \in Nat
  /\ Block >= Window
  /\ MaxTime \in Nat

VARIABLES
  now,          \* the clock
  attempts,     \* the stored LoginAttemptState
  trying,       \* an attempt has been let through and is being verified
  failures      \* history: when failures were recorded since the last success

window == <<attempts, trying, failures>>

(* No state, or no blockedUntil.                                           *)
Never == -1

AttemptState == [count : Nat, since : Nat \cup {Never}, until : Nat \cup {Never}]

WindowTypeOK ==
  /\ now \in 0..MaxTime
  /\ attempts \in AttemptState
  /\ trying \in BOOLEAN
  /\ failures \in Seq(Nat)

WindowInit ==
  /\ now = 0
  /\ attempts = [count |-> 0, since |-> Never, until |-> Never]
  /\ trying = FALSE
  /\ failures = <<>>

-----------------------------------------------------------------------------
CanAttempt(state, at) == state.until = Never \/ state.until <= at

WithinWindow(state, at) == state.since # Never /\ at - state.since < Window

(* Variant: the block starts one failure too late.                         *)
RecordFailureLate(state, at) ==
  LET within == WithinWindow(state, at)
      count  == IF within THEN state.count + 1 ELSE 1
  IN  [count |-> count,
       since |-> IF within THEN state.since ELSE at,
       until |-> IF count > MaxFailures THEN at + Block ELSE Never]

(* A failure counts in the window it falls into, or opens a new one; the   *)
(* last one allowed starts the block, and any other lifts it.              *)
RecordFailure(state, at) ==
  LET within == WithinWindow(state, at)
      count  == IF within THEN state.count + 1 ELSE 1
  IN  [count |-> count,
       since |-> IF within THEN state.since ELSE at,
       until |-> IF count >= MaxFailures THEN at + Block ELSE Never]

(* Variant: the cleared state lacks a field.                               *)
ClearedShort(at) == [count |-> 0, since |-> at]

Cleared(at) == [count |-> 0, since |-> at, until |-> Never]

-----------------------------------------------------------------------------
Tick ==
  /\ now < MaxTime
  /\ now' = now + 1
  /\ UNCHANGED window

Attempt ==
  /\ ~trying
  /\ CanAttempt(attempts, now)
  /\ trying' = TRUE
  /\ UNCHANGED <<now, attempts, failures>>

AttemptFails ==
  /\ trying
  /\ trying' = FALSE
  /\ attempts' = RecordFailure(attempts, now)
  /\ failures' = Append(failures, now)
  /\ UNCHANGED now

AttemptSucceeds ==
  /\ trying
  /\ trying' = FALSE
  /\ attempts' = Cleared(now)
  /\ failures' = <<>>
  /\ UNCHANGED now

WindowNext == Tick \/ Attempt \/ AttemptFails \/ AttemptSucceeds

WindowSpec == WindowInit /\ [][WindowNext]_<<now, window>>

-----------------------------------------------------------------------------
(* How many passwords can be tried in a time: of failures in a row with no *)
(* success between them, any 2 * MaxFailures take at least a window.  The  *)
(* window is not a sliding one: 2 * MaxFailures - 1 of them can fall       *)
(* together, around the end of one window and the start of the next.       *)
RateBound ==
  \A i \in 1..Len(failures) :
    i + 2 * MaxFailures - 1 <= Len(failures) =>
      failures[i + 2 * MaxFailures - 1] - failures[i] >= Window
=============================================================================

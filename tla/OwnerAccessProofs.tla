-------------------------- MODULE OwnerAccessProofs --------------------------
(***************************************************************************)
(* Proofs about LoginWindow and OwnerAccess: the rate of failed logins for *)
(* any policy whose block is no shorter than its window, and what the two  *)
(* files and granted access stand on, for any number of runs, under every  *)
(* fault.                                                                  *)
(***************************************************************************)
EXTENDS OwnerAccess, TLAPS

(* The failures fall into groups, one for each window.  Old is what has    *)
(* fallen out of the present window.                                       *)
Old == Len(failures) - attempts.count

(* The inductive invariant of the window.  A full group is followed by a   *)
(* block, and a group that is not full ends with its window: either way    *)
(* MaxFailures - 1 steps back from the end of a group lies a whole window. *)
WindowInv ==
  /\ WindowTypeOK
  /\ attempts.count <= MaxFailures
  /\ attempts.count <= Len(failures)
  /\ attempts.since = Never => Len(failures) = 0
  /\ attempts.since <= now
  /\ \A i \in 1..Len(failures) : failures[i] <= now
  /\ \A i, j \in 1..Len(failures) : i <= j => failures[i] <= failures[j]
  /\ \A i \in 1..Len(failures) : i > Old => attempts.since <= failures[i]
  /\ \A i \in 1..Len(failures) : i <= Old => failures[i] <= attempts.since
  /\ \A i \in 1..Len(failures) :
       i <= Old - MaxFailures + 1 => failures[i] + Window <= attempts.since
  /\ attempts.count < MaxFailures => attempts.until = Never
  /\ attempts.count = MaxFailures =>
       attempts.until = failures[Len(failures)] + Block
  /\ trying => CanAttempt(attempts, now)

-----------------------------------------------------------------------------
LEMMA WindowStarts == WindowInit => WindowInv /\ RateBound
<1> SUFFICES ASSUME WindowInit PROVE WindowInv /\ RateBound
    OBVIOUS
<1>1. /\ failures = <<>> /\ Len(failures) = 0 /\ failures \in Seq(Nat)
      /\ now = 0 /\ now \in 0..MaxTime /\ trying = FALSE
      BY PolicyAssumption DEF WindowInit
<1>2. /\ attempts.count = 0 /\ attempts.since = Never /\ attempts.until = Never
      /\ Never <= 0
      BY DEF WindowInit, Never
<1>3. attempts \in AttemptState
      BY DEF WindowInit, AttemptState
<1>4. Old = 0
      BY <1>1, <1>2 DEF Old
<1>5. WindowTypeOK
      BY <1>1, <1>3 DEF WindowTypeOK
<1>6. \A i \in 1..Len(failures) : FALSE
      BY <1>1
<1>7. attempts.count <= MaxFailures /\ attempts.count # MaxFailures
      BY <1>2, PolicyAssumption
<1> QED BY <1>1, <1>2, <1>4, <1>5, <1>6, <1>7 DEF WindowInv, RateBound

(* The failures after one more.                                            *)
LEMMA Appended ==
  ASSUME NEW s \in Seq(Nat), NEW x \in Nat
  PROVE  /\ Append(s, x) \in Seq(Nat)
         /\ Len(Append(s, x)) = Len(s) + 1
         /\ Append(s, x)[Len(s) + 1] = x
         /\ \A i \in 1..Len(s) : Append(s, x)[i] = s[i]
OBVIOUS

LEMMA Recorded ==
  ASSUME NEW c \in Nat, NEW s \in Nat \cup {Never}, NEW u \in Nat \cup {Never}
  PROVE  [count |-> c, since |-> s, until |-> u] \in AttemptState
BY DEF AttemptState

(* A failure in the present window.  The window is not full, or the block  *)
(* would have outlasted it.                                                *)
LEMMA FailsWithin ==
  ASSUME WindowInv, RateBound, AttemptFails, WithinWindow(attempts, now)
  PROVE  WindowInv' /\ RateBound'
<1> DEFINE n == Len(failures)
<1>0. /\ MaxFailures \in Nat \ {0} /\ Window \in Nat \ {0} /\ Block \in Nat
      /\ Block >= Window /\ now \in Nat /\ n \in Nat
      /\ failures \in Seq(Nat) /\ attempts \in AttemptState
      BY PolicyAssumption DEF WindowInv, WindowTypeOK
<1>a. attempts.count \in Nat /\ attempts.since \in Nat /\ now - attempts.since < Window
      BY <1>0 DEF WithinWindow, AttemptState
<1>b. \A i \in 1..n : failures[i] \in Nat
      BY <1>0
<1>1. attempts.count < MaxFailures
  <2> SUFFICES ASSUME attempts.count = MaxFailures PROVE FALSE
      BY <1>0, <1>a DEF WindowInv
  <2>1. n \in 1..n /\ n > Old
        BY <1>0, <1>a DEF WindowInv, Old
  <2>2. attempts.since <= failures[n]
        BY <2>1 DEF WindowInv
  <2>3. attempts.until = failures[n] + Block
        BY DEF WindowInv
  <2>4. attempts.until # Never /\ attempts.until <= now
        BY <2>1, <2>3, <1>0, <1>b DEF WindowInv, AttemptFails, CanAttempt, Never
  <2> QED BY <2>1, <2>2, <2>3, <2>4, <1>0, <1>a, <1>b
<1>2. /\ Len(failures') = n + 1 /\ failures' \in Seq(Nat)
      /\ failures'[n + 1] = now /\ \A i \in 1..n : failures'[i] = failures[i]
      BY <1>0, Appended DEF AttemptFails
<1>3. /\ attempts' = RecordFailure(attempts, now)
      /\ now' = now /\ trying' = FALSE
      BY DEF AttemptFails
<1>4. /\ attempts'.count = attempts.count + 1
      /\ attempts'.since = attempts.since
      /\ attempts.count + 1 >= MaxFailures => attempts'.until = now + Block
      /\ attempts.count + 1 < MaxFailures => attempts'.until = Never
      /\ attempts' \in AttemptState
  <2>1. attempts' =
          [count |-> attempts.count + 1, since |-> attempts.since,
           until |-> IF attempts.count + 1 >= MaxFailures THEN now + Block ELSE Never]
        BY <1>3 DEF RecordFailure
  <2>2. now + Block \in Nat /\ attempts.count + 1 \in Nat
        BY <1>0, <1>a
  <2>3. attempts' \in AttemptState
        BY <1>a, <2>1, <2>2, Recorded
  <2> QED BY <1>0, <1>a, <2>1, <2>3
<1>5. Old' = Old
  <2>1. Len(failures') = Len(failures) + 1 /\ Len(failures) \in Nat
        BY <1>0, <1>2
  <2>2. attempts'.count = attempts.count + 1 /\ attempts.count \in Nat
        BY <1>a, <1>4
  <2> QED BY <2>1, <2>2 DEF Old
<1>c. Old \in Int /\ Old <= n /\ Old = n - attempts.count
      BY <1>0, <1>a DEF Old
<1>d. /\ \A i \in 1..n : failures[i] <= now
      /\ \A i, j \in 1..n : i <= j => failures[i] <= failures[j]
      /\ \A i \in 1..n : i > Old => attempts.since <= failures[i]
      /\ \A i \in 1..n : i <= Old => failures[i] <= attempts.since
      /\ \A i \in 1..n :
           i <= Old - MaxFailures + 1 => failures[i] + Window <= attempts.since
      /\ attempts.since <= now
      BY DEF WindowInv
<1> HIDE DEF n
<1>e. \A i \in 1..(n + 1) : i \in 1..n \/ i = n + 1
      BY <1>0
<1>f. \A i \in 1..(n + 1) : failures'[i] \in Nat
      BY <1>0, <1>b, <1>2, <1>e
<1>6. WindowTypeOK'
      BY <1>2, <1>3, <1>4 DEF WindowInv, WindowTypeOK
<1>7. /\ attempts'.count <= MaxFailures
      /\ attempts'.count <= Len(failures')
      /\ attempts'.since = Never => Len(failures') = 0
      /\ attempts'.since <= now'
      BY <1>0, <1>a, <1>1, <1>2, <1>3, <1>4 DEF WindowInv, Never, n
<1>8. /\ \A i \in 1..(n + 1) : failures'[i] <= now'
      /\ \A i, j \in 1..(n + 1) : i <= j => failures'[i] <= failures'[j]
  <2>1. \A i \in 1..(n + 1) : failures'[i] <= now'
        BY <1>0, <1>d, <1>2, <1>3, <1>e
  <2>2. ASSUME NEW i \in 1..(n + 1), NEW j \in 1..(n + 1), i <= j
        PROVE  failures'[i] <= failures'[j]
    <3>1. CASE j = n + 1
          BY <2>1, <3>1, <1>2, <1>3
    <3>2. CASE j \in 1..n
          BY <2>2, <3>2, <1>0, <1>d, <1>2
    <3> QED BY <3>1, <3>2, <1>e
  <2> QED BY <2>1, <2>2
<1>9. /\ \A i \in 1..(n + 1) : i > Old => attempts.since <= failures'[i]
      /\ \A i \in 1..(n + 1) : i <= Old => failures'[i] <= attempts.since
  <2> SUFFICES ASSUME NEW i \in 1..(n + 1)
               PROVE  /\ i > Old => attempts.since <= failures'[i]
                      /\ i <= Old => failures'[i] <= attempts.since
      OBVIOUS
  <2>1. CASE i \in 1..n
        BY <2>1, <1>d, <1>2
  <2>2. CASE i = n + 1
        BY <2>2, <1>0, <1>a, <1>c, <1>d, <1>2
  <2> QED BY <2>1, <2>2, <1>e
<1>10. \A i \in 1..(n + 1) :
         i <= Old - MaxFailures + 1 => failures'[i] + Window <= attempts.since
  <2> SUFFICES ASSUME NEW i \in 1..(n + 1), i <= Old - MaxFailures + 1
               PROVE  failures'[i] + Window <= attempts.since
      OBVIOUS
  <2>1. i \in 1..n
        BY <1>0, <1>1, <1>a, <1>c
  <2> QED BY <2>1, <1>d, <1>2
<1>11. /\ attempts'.count < MaxFailures => attempts'.until = Never
       /\ attempts'.count = MaxFailures => attempts'.until = failures'[n + 1] + Block
      BY <1>0, <1>a, <1>2, <1>4
<1>12. WindowInv'
      BY <1>2, <1>3, <1>4, <1>5, <1>6, <1>7, <1>8, <1>9, <1>10, <1>11 DEF WindowInv
<1>13. ASSUME NEW i \in 1..(n + 1), i + 2 * MaxFailures - 1 <= n + 1
       PROVE  failures'[i + 2 * MaxFailures - 1] - failures'[i] >= Window
  <2> DEFINE k == i + 2 * MaxFailures - 1
  <2>1. k \in 1..(n + 1) /\ i \in 1..n
        BY <1>0, <1>13
  <2>2. CASE k <= n
    <3>1. k \in 1..n /\ failures[k] - failures[i] >= Window
          BY <1>0, <2>1, <2>2 DEF RateBound, n
    <3> QED BY <1>2, <2>1, <3>1
  <2>3. CASE k = n + 1
    <3>1. i <= Old - MaxFailures + 1
          BY <1>0, <1>1, <1>a, <1>c, <2>1, <2>3
    <3>2. failures[i] + Window <= attempts.since
          BY <2>1, <3>1 DEF WindowInv, n
    <3>3. failures'[k] = now /\ failures'[i] = failures[i] /\ attempts.since <= now
          BY <1>2, <2>1, <2>3 DEF WindowInv
    <3> QED BY <1>0, <1>a, <1>b, <2>1, <3>2, <3>3
  <2> QED BY <1>0, <2>1, <2>2, <2>3
<1> QED BY <1>2, <1>12, <1>13 DEF RateBound

(* A failure that opens a window.  What was in the last one has passed.    *)
LEMMA FailsAnew ==
  ASSUME WindowInv, RateBound, AttemptFails, ~WithinWindow(attempts, now)
  PROVE  WindowInv' /\ RateBound'
<1> DEFINE n == Len(failures)
<1>0. /\ MaxFailures \in Nat \ {0} /\ Window \in Nat \ {0} /\ Block \in Nat
      /\ Block >= Window /\ now \in Nat /\ n \in Nat
      /\ failures \in Seq(Nat) /\ attempts \in AttemptState
      BY PolicyAssumption DEF WindowInv, WindowTypeOK
<1>a. /\ attempts.count \in Nat /\ attempts.since \in Nat \cup {Never}
      /\ attempts.since # Never => attempts.since + Window <= now
      BY <1>0 DEF WithinWindow, AttemptState
<1>b. \A i \in 1..n : failures[i] \in Nat
      BY <1>0
<1>c. Old \in Int /\ Old <= n /\ Old = n - attempts.count
      BY <1>0, <1>a DEF Old
<1>1. ASSUME NEW i \in 1..n, i <= n - MaxFailures + 1
      PROVE  failures[i] + Window <= now
  <2>1. attempts.since \in Nat /\ attempts.since + Window <= now
        BY <1>0, <1>a, <1>1 DEF WindowInv, Never
  <2>2. CASE attempts.count = MaxFailures
    <3>1. attempts.until = failures[n] + Block /\ n \in 1..n
          BY <1>0, <1>1, <2>2 DEF WindowInv
    <3>2. attempts.until # Never /\ attempts.until <= now
          BY <1>0, <1>b, <3>1 DEF WindowInv, AttemptFails, CanAttempt, Never
    <3>3. failures[i] <= failures[n]
          BY <1>1, <3>1 DEF WindowInv
    <3> QED BY <1>0, <1>1, <1>b, <3>1, <3>2, <3>3
  <2>3. CASE attempts.count < MaxFailures
    <3>1. i <= Old
          BY <1>0, <1>1, <1>a, <1>c, <2>3
    <3>2. failures[i] <= attempts.since
          BY <1>1, <3>1 DEF WindowInv
    <3> QED BY <1>0, <1>1, <1>b, <2>1, <3>2
  <2> QED BY <1>0, <1>a, <2>2, <2>3 DEF WindowInv
<1>2. /\ Len(failures') = n + 1 /\ failures' \in Seq(Nat)
      /\ failures'[n + 1] = now /\ \A i \in 1..n : failures'[i] = failures[i]
      BY <1>0, Appended DEF AttemptFails
<1>3. /\ attempts' = RecordFailure(attempts, now)
      /\ now' = now /\ trying' = FALSE
      BY DEF AttemptFails
<1>4. /\ attempts'.count = 1
      /\ attempts'.since = now
      /\ 1 >= MaxFailures => attempts'.until = now + Block
      /\ 1 < MaxFailures => attempts'.until = Never
      /\ attempts' \in AttemptState
  <2>1. attempts' =
          [count |-> 1, since |-> now,
           until |-> IF 1 >= MaxFailures THEN now + Block ELSE Never]
        BY <1>3 DEF RecordFailure
  <2>2. now + Block \in Nat
        BY <1>0
  <2>3. attempts' \in AttemptState
        BY <1>0, <2>1, <2>2, Recorded
  <2>4. /\ attempts'.count = 1 /\ attempts'.since = now
        /\ attempts'.until = IF 1 >= MaxFailures THEN now + Block ELSE Never
        BY <2>1
  <2>5. /\ 1 >= MaxFailures => attempts'.until = now + Block
        /\ ~(1 >= MaxFailures) => attempts'.until = Never
        BY <2>4
  <2>6. 1 < MaxFailures => ~(1 >= MaxFailures)
        BY <1>0
  <2> QED BY <2>3, <2>4, <2>5, <2>6
<1>5. Old' = n
      BY <1>0, <1>2, <1>4 DEF Old
<1>d. /\ \A i \in 1..n : failures[i] <= now
      /\ \A i, j \in 1..n : i <= j => failures[i] <= failures[j]
      BY DEF WindowInv
<1> HIDE DEF n
<1>e. \A i \in 1..(n + 1) : i \in 1..n \/ i = n + 1
      BY <1>0
<1>f. \A i \in 1..(n + 1) : failures'[i] \in Nat
      BY <1>0, <1>b, <1>2, <1>e
<1>6. WindowTypeOK'
      BY <1>2, <1>3, <1>4 DEF WindowInv, WindowTypeOK
<1>7. /\ attempts'.count <= MaxFailures
      /\ attempts'.count <= Len(failures')
      /\ attempts'.since = Never => Len(failures') = 0
      /\ attempts'.since <= now'
      BY <1>0, <1>2, <1>3, <1>4 DEF Never
<1>8. /\ \A i \in 1..(n + 1) : failures'[i] <= now'
      /\ \A i, j \in 1..(n + 1) : i <= j => failures'[i] <= failures'[j]
  <2>1. \A i \in 1..(n + 1) : failures'[i] <= now'
        BY <1>0, <1>d, <1>2, <1>3, <1>e
  <2>2. ASSUME NEW i \in 1..(n + 1), NEW j \in 1..(n + 1), i <= j
        PROVE  failures'[i] <= failures'[j]
    <3>1. CASE j = n + 1
          BY <2>1, <3>1, <1>2, <1>3
    <3>2. CASE j \in 1..n
          BY <2>2, <3>2, <1>0, <1>d, <1>2
    <3> QED BY <3>1, <3>2, <1>e
  <2> QED BY <2>1, <2>2
<1>9. /\ \A i \in 1..(n + 1) : i > n => now <= failures'[i]
      /\ \A i \in 1..(n + 1) : i <= n => failures'[i] <= now
      BY <1>0, <1>2 DEF WindowInv, n
<1>10. \A i \in 1..(n + 1) : i <= n - MaxFailures + 1 => failures'[i] + Window <= now
      BY <1>0, <1>1, <1>2
<1>11. /\ attempts'.count < MaxFailures => attempts'.until = Never
       /\ attempts'.count = MaxFailures => attempts'.until = failures'[n + 1] + Block
      BY <1>0, <1>2, <1>4
<1>12. WindowInv'
      BY <1>2, <1>3, <1>4, <1>5, <1>6, <1>7, <1>8, <1>9, <1>10, <1>11 DEF WindowInv
<1>13. ASSUME NEW i \in 1..(n + 1), i + 2 * MaxFailures - 1 <= n + 1
       PROVE  failures'[i + 2 * MaxFailures - 1] - failures'[i] >= Window
  <2> DEFINE k == i + 2 * MaxFailures - 1
  <2>1. k \in 1..(n + 1) /\ i \in 1..n
        BY <1>0, <1>13
  <2>2. CASE k <= n
    <3>1. k \in 1..n /\ failures[k] - failures[i] >= Window
          BY <1>0, <2>1, <2>2 DEF RateBound, n
    <3> QED BY <1>2, <2>1, <3>1
  <2>3. CASE k = n + 1
    <3>1. failures[i] + Window <= now
          BY <1>0, <1>1, <2>1, <2>3
    <3>2. failures'[k] = now /\ failures'[i] = failures[i]
          BY <1>2, <2>1, <2>3
    <3> QED BY <1>0, <1>b, <2>1, <3>1, <3>2
  <2> QED BY <1>0, <2>1, <2>2, <2>3
<1> QED BY <1>2, <1>12, <1>13 DEF RateBound

LEMMA WindowStep == WindowInv /\ RateBound /\ [WindowNext]_<<now, window>> => WindowInv' /\ RateBound'
<1> SUFFICES ASSUME WindowInv, RateBound, [WindowNext]_<<now, window>>
             PROVE  WindowInv' /\ RateBound'
    OBVIOUS
<1> USE PolicyAssumption
<1>1. CASE Tick
  <2>1. /\ now' = now + 1 /\ now' \in 0..MaxTime /\ now \in Nat
        /\ attempts' = attempts /\ trying' = trying /\ failures' = failures /\ Old' = Old
        BY <1>1 DEF Tick, WindowInv, WindowTypeOK, window, Old
  <2>2. /\ attempts \in AttemptState /\ failures \in Seq(Nat)
        /\ \A i \in 1..Len(failures) : failures[i] \in Nat
        BY DEF WindowInv, WindowTypeOK
  <2>3. /\ attempts'.since <= now'
        /\ \A i \in 1..Len(failures') : failures'[i] <= now'
        /\ trying' => CanAttempt(attempts', now')
        BY <2>1, <2>2 DEF WindowInv, CanAttempt, AttemptState, Never
  <2> QED BY <2>1, <2>3 DEF WindowInv, WindowTypeOK, RateBound
<1>2. CASE Attempt
  <2>1. /\ trying' = TRUE /\ CanAttempt(attempts, now)
        /\ now' = now /\ attempts' = attempts /\ failures' = failures /\ Old' = Old
        BY <1>2 DEF Attempt, Old
  <2> QED BY <2>1 DEF WindowInv, WindowTypeOK, RateBound
<1>3. CASE AttemptFails
      BY <1>3, FailsWithin, FailsAnew
<1>4. CASE AttemptSucceeds
  <2>1. /\ now' = now /\ now \in Nat /\ trying' = FALSE /\ failures' = <<>> /\ Len(failures') = 0
        /\ attempts' = Cleared(now) /\ failures' \in Seq(Nat)
        BY <1>4 DEF AttemptSucceeds, WindowInv, WindowTypeOK
  <2>2. /\ attempts'.count = 0 /\ attempts'.since = now /\ attempts'.until = Never
        /\ attempts' \in AttemptState
        BY <2>1, Recorded DEF Cleared
  <2>3. CanAttempt(attempts', now')
        BY <2>2 DEF CanAttempt
  <2>4. WindowTypeOK'
        BY <2>1, <2>2 DEF WindowInv, WindowTypeOK
  <2>5. Old' = 0
        BY <2>1, <2>2 DEF Old
  <2>6. attempts'.since # Never /\ attempts'.since <= now'
        BY <2>1, <2>2 DEF Never
  <2>7. \A i \in 1..Len(failures') : FALSE
        BY <2>1
  <2> QED BY <2>1, <2>2, <2>4, <2>5, <2>6, <2>7 DEF WindowInv, RateBound
<1>5. CASE UNCHANGED <<now, window>>
  <2>1. /\ now' = now /\ attempts' = attempts /\ trying' = trying /\ failures' = failures
        /\ Old' = Old
        BY <1>5 DEF window, Old
  <2> QED BY <2>1 DEF WindowInv, WindowTypeOK, RateBound
<1> QED BY <1>1, <1>2, <1>3, <1>4, <1>5 DEF WindowNext

(* Of failures in a row, any 2 * MaxFailures take at least a window, for   *)
(* every policy whose block is no shorter than its window.                 *)
THEOREM WindowIsRateBound == WindowSpec => []RateBound
<1>1. WindowInit => WindowInv /\ RateBound
      BY WindowStarts
<1>2. (WindowInv /\ RateBound) /\ [WindowNext]_<<now, window>> => (WindowInv /\ RateBound)'
      BY WindowStep
<1> QED BY <1>1, <1>2, PTL DEF WindowSpec

-----------------------------------------------------------------------------
(* OwnerAccess.  What is known of one run, wherever it is.  A file that is *)
(* whole stays what it is; one being written belongs to its writer.        *)
CallInv(c) ==
  /\ pc[c] \in {"create", "write", "sync"} => held[c].target \in FileName
  /\ pc[c] = "prove" => held[c].target = "factor"
  /\ pc[c] \in {"create", "write", "sync"} /\ held[c].target = "credential" =>
       held[c].password \notin Refused
  /\ pc[c] \in {"prove", "create", "write", "sync"} /\ held[c].target = "factor" =>
       Readable("credential") /\ held[c].password = file["credential"].password
  /\ pc[c] = "write" =>
       file[held[c].target].shape = "partial" /\ file[held[c].target].by = c
  /\ pc[c] = "sync" =>
       /\ Readable(held[c].target)
       /\ file[held[c].target].by = c
       /\ file[held[c].target].password = held[c].password
  /\ pc[c] = "provisioned" =>
       /\ Readable("credential")
       /\ file["credential"].by = c
       /\ file["credential"].password \notin Refused
  /\ pc[c] = "enrolled" =>
       /\ Readable("factor") /\ Readable("credential")
       /\ file["factor"].by = c
       /\ file["factor"].password = file["credential"].password
  /\ pc[c] \in {"check", "open", "granted"} => held[c].at = held[c].entered
  /\ pc[c] \in {"open", "granted"} =>
       Readable("credential") /\ held[c].password = file["credential"].password
  /\ pc[c] = "granted" =>
       Readable("factor") /\ VerifyTotp(file["factor"].by, held[c].code, held[c].at)

AccessInv == TypeOK /\ \A c \in Call : CallInv(c)

(* A step of a run changes no file but one that is absent or that it is    *)
(* writing, and nothing of another run.                                    *)
Keeps(c) ==
  /\ \A n \in FileName :
       \/ file'[n] = file[n]
       \/ file[n].shape = "absent"
       \/ file[n].shape = "partial" /\ file[n].by = c
  /\ \A d \in Call \ {c} : pc'[d] = pc[d] /\ held'[d] = held[d]

(* What is known of a run survives the steps of the others.                *)
LEMMA OthersKept ==
  ASSUME AccessInv, NEW c \in Call, NEW d \in Call, d # c, Keeps(c)
  PROVE  CallInv(d)'
<1>1. CallInv(d) /\ pc'[d] = pc[d] /\ held'[d] = held[d]
      BY DEF AccessInv, Keeps
<1>2. \A n \in FileName : Readable(n) => file'[n] = file[n] /\ Readable(n)'
      BY DEF Keeps, Readable
<1>3. \A n \in FileName : file[n].shape = "partial" /\ file[n].by = d => file'[n] = file[n]
      BY DEF Keeps
<1>4. "credential" \in FileName /\ "factor" \in FileName
      BY DEF FileName
<1> QED BY <1>1, <1>2, <1>3, <1>4 DEF CallInv, VerifyTotp

AccessTypeOK ==
  /\ file \in [FileName -> File]
  /\ displayed \in SUBSET Call
  /\ pc \in [Call -> {"idle", "crashed"} \cup Running \cup Settled]
  /\ held \in [Call -> Held]

LEMMA NothingHeld == Nothing \in Held
BY DEF Nothing, Held, Code

(* A run that is over, with nothing in its hands and no file touched.      *)
LEMMA EndsStep ==
  ASSUME AccessInv, NEW c \in Call, NEW from,
         NEW how \in {"failed", "denied", "crashed"},
         Ends(c, from, how), file' = file, displayed' = displayed \/ displayed' = displayed \cup {c}
  PROVE  AccessTypeOK' /\ Keeps(c) /\ CallInv(c)'
<1>1. /\ pc'[c] = how /\ pc' \in [Call -> {"idle", "crashed"} \cup Running \cup Settled]
      /\ \A d \in Call \ {c} : pc'[d] = pc[d] /\ held'[d] = held[d]
      BY DEF AccessInv, TypeOK, Ends, Goto, Settled
<1>2. held' \in [Call -> Held]
      BY NothingHeld DEF AccessInv, TypeOK, Ends
<1>3. AccessTypeOK'
      BY <1>1, <1>2 DEF AccessInv, TypeOK, AccessTypeOK
<1>4. CallInv(c)'
      BY <1>1 DEF CallInv
<1> QED BY <1>1, <1>3, <1>4 DEF Keeps

(* A file takes a new shape.                                               *)
LEMMA BecomesStep ==
  ASSUME AccessInv, NEW c \in Call, NEW shape \in {"partial", "whole"}, Becomes(c, shape),
         held[c].target \in FileName,
         \/ file[held[c].target].shape = "absent"
         \/ file[held[c].target].shape = "partial" /\ file[held[c].target].by = c
  PROVE  /\ file' \in [FileName -> File]
         /\ file'[held[c].target] =
              [shape |-> shape, by |-> c, password |-> held[c].password]
         /\ \A n \in FileName :
              \/ file'[n] = file[n]
              \/ file[n].shape = "absent"
              \/ file[n].shape = "partial" /\ file[n].by = c
         /\ \A n \in FileName \ {held[c].target} : file'[n] = file[n]
<1>1. held[c].password \in Password \cup {None} /\ file \in [FileName -> File]
      BY DEF AccessInv, TypeOK, Held
<1>2. [shape |-> shape, by |-> c, password |-> held[c].password] \in File
      BY <1>1 DEF File
<1> QED BY <1>1, <1>2 DEF Becomes

LEMMA ProvisionStep ==
  ASSUME AccessInv, NEW c \in Call, Provision(c)
  PROVE  AccessTypeOK' /\ Keeps(c) /\ CallInv(c)'
<1>1. CASE Ends(c, "idle", "failed")
      BY <1>1, EndsStep DEF Provision
<1>2. CASE Goto(c, "idle", "create") /\ \E p \in Acceptable : Holds(c, p, "credential")
  <2>1. PICK p \in Password \ Refused : Holds(c, p, "credential")
        BY <1>2 DEF Acceptable
  <2>2. /\ pc'[c] = "create" /\ pc' \in [Call -> {"idle", "crashed"} \cup Running \cup Settled]
        /\ \A d \in Call \ {c} : pc'[d] = pc[d] /\ held'[d] = held[d]
        BY <1>2, <2>1 DEF AccessInv, TypeOK, Goto, Holds, Running
  <2>3. /\ held' \in [Call -> Held]
        /\ held'[c].password = p /\ held'[c].target = "credential"
        BY <2>1 DEF AccessInv, TypeOK, Holds, Held, FileName
  <2>4. file' = file /\ displayed' = displayed
        BY DEF Provision
  <2>5. CallInv(c)'
        BY <2>2, <2>3 DEF CallInv, FileName
  <2> QED BY <2>2, <2>3, <2>4, <2>5 DEF AccessInv, TypeOK, AccessTypeOK, Keeps
<1> QED BY <1>1, <1>2 DEF Provision

LEMMA EnrollStep ==
  ASSUME AccessInv, NEW c \in Call, Enroll(c)
  PROVE  AccessTypeOK' /\ Keeps(c) /\ CallInv(c)'
<1>1. CASE Ends(c, "idle", "failed")
      BY <1>1, EndsStep DEF Enroll
<1>2. CASE /\ Readable("credential")
           /\ Goto(c, "idle", "prove")
           /\ Holds(c, file["credential"].password, "factor")
  <2>1. file' = file /\ displayed' = displayed
        BY DEF Enroll
  <2>2. /\ pc'[c] = "prove" /\ pc' \in [Call -> {"idle", "crashed"} \cup Running \cup Settled]
        /\ \A d \in Call \ {c} : pc'[d] = pc[d] /\ held'[d] = held[d]
        BY <1>2 DEF AccessInv, TypeOK, Goto, Holds, Running
  <2>3. file["credential"].password \in Password \cup {None}
        BY DEF AccessInv, TypeOK, File, FileName
  <2>4. /\ held' \in [Call -> Held]
        /\ held'[c].password = file["credential"].password /\ held'[c].target = "factor"
        BY <1>2, <2>3 DEF AccessInv, TypeOK, Holds, Held, FileName
  <2>5. CallInv(c)'
        BY <1>2, <2>1, <2>2, <2>4 DEF CallInv, Readable
  <2> QED BY <2>1, <2>2, <2>4, <2>5 DEF AccessInv, TypeOK, AccessTypeOK, Keeps
<1> QED BY <1>1, <1>2 DEF Enroll

LEMMA ProveStep ==
  ASSUME AccessInv, NEW c \in Call, Prove(c)
  PROVE  AccessTypeOK' /\ Keeps(c) /\ CallInv(c)'
<1>1. CASE Ends(c, "prove", "failed")
      BY <1>1, EndsStep DEF Prove
<1>2. CASE Goto(c, "prove", "create") /\ held' = held /\ displayed' = displayed \cup {c}
  <2>1. file' = file
        BY DEF Prove
  <2>2. /\ pc[c] = "prove" /\ pc'[c] = "create"
        /\ pc' \in [Call -> {"idle", "crashed"} \cup Running \cup Settled]
        /\ \A d \in Call \ {c} : pc'[d] = pc[d] /\ held'[d] = held[d]
        BY <1>2 DEF AccessInv, TypeOK, Goto, Running
  <2>3. CallInv(c)'
        BY <1>2, <2>1, <2>2 DEF AccessInv, CallInv, Readable, FileName
  <2> QED BY <1>2, <2>1, <2>2, <2>3 DEF AccessInv, TypeOK, AccessTypeOK, Keeps
<1> QED BY <1>1, <1>2 DEF Prove

LEMMA CreateStep ==
  ASSUME AccessInv, NEW c \in Call, Create(c)
  PROVE  AccessTypeOK' /\ Keeps(c) /\ CallInv(c)'
<1>1. CASE Ends(c, "create", "failed") /\ file' = file
      BY <1>1, EndsStep DEF Create
<1>2. CASE /\ Goto(c, "create", "write")
           /\ file[held[c].target].shape = "absent"
           /\ Becomes(c, "partial")
           /\ held' = held
  <2>1. /\ pc[c] = "create" /\ pc'[c] = "write" /\ held[c].target \in FileName
        /\ pc' \in [Call -> {"idle", "crashed"} \cup Running \cup Settled]
        /\ \A d \in Call \ {c} : pc'[d] = pc[d] /\ held'[d] = held[d]
        BY <1>2 DEF AccessInv, CallInv, TypeOK, Goto, Running
  <2>a. /\ file' \in [FileName -> File]
        /\ file'[held[c].target] =
             [shape |-> "partial", by |-> c, password |-> held[c].password]
        /\ \A n \in FileName :
             \/ file'[n] = file[n]
             \/ file[n].shape = "absent"
             \/ file[n].shape = "partial" /\ file[n].by = c
        /\ \A n \in FileName \ {held[c].target} : file'[n] = file[n]
        BY <1>2, <2>1, BecomesStep
  <2>2. /\ file'[held[c].target].shape = "partial"
        /\ file'[held[c].target].by = c
        BY <2>a
  <2>3. CallInv(c)'
        BY <1>2, <2>1, <2>2, <2>a DEF AccessInv, CallInv, Readable, FileName
  <2> QED BY <1>2, <2>1, <2>2, <2>3, <2>a DEF Create, AccessInv, TypeOK, AccessTypeOK, Keeps
<1> QED BY <1>1, <1>2 DEF Create

LEMMA WriteStep ==
  ASSUME AccessInv, NEW c \in Call, Write(c)
  PROVE  AccessTypeOK' /\ Keeps(c) /\ CallInv(c)'
<1>1. CASE Ends(c, "write", "failed") /\ file' = file
      BY <1>1, EndsStep DEF Write
<1>2. CASE Becomes(c, "whole") /\ pc[c] = "write"
  <2>1. /\ pc[c] = "write" /\ held[c].target \in FileName
        /\ file[held[c].target].shape = "partial" /\ file[held[c].target].by = c
        BY <1>2 DEF AccessInv, CallInv
  <2>a. /\ file' \in [FileName -> File]
        /\ file'[held[c].target] =
             [shape |-> "whole", by |-> c, password |-> held[c].password]
        /\ \A n \in FileName :
             \/ file'[n] = file[n]
             \/ file[n].shape = "absent"
             \/ file[n].shape = "partial" /\ file[n].by = c
        /\ \A n \in FileName \ {held[c].target} : file'[n] = file[n]
        BY <1>2, <2>1, BecomesStep
  <2>2. /\ file'[held[c].target].shape = "whole"
        /\ file'[held[c].target].by = c
        /\ file'[held[c].target].password = held[c].password
        BY <2>a
  <2>3. CASE Goto(c, "write", "sync") /\ held' = held
    <3>1. /\ pc'[c] = "sync"
          /\ pc' \in [Call -> {"idle", "crashed"} \cup Running \cup Settled]
          /\ \A d \in Call \ {c} : pc'[d] = pc[d] /\ held'[d] = held[d]
          BY <2>3 DEF AccessInv, TypeOK, Goto, Running
    <3>2. CallInv(c)'
          BY <2>a, <2>1, <2>2, <2>3, <3>1 DEF AccessInv, CallInv, Readable, FileName
    <3> QED BY <2>a, <2>2, <2>3, <3>1, <3>2 DEF Write, AccessInv, TypeOK, AccessTypeOK, Keeps
  <2>4. CASE Ends(c, "write", "failed")
    <3>1. /\ pc'[c] = "failed"
          /\ pc' \in [Call -> {"idle", "crashed"} \cup Running \cup Settled]
          /\ held' \in [Call -> Held]
          /\ \A d \in Call \ {c} : pc'[d] = pc[d] /\ held'[d] = held[d]
          BY <2>4, NothingHeld DEF AccessInv, TypeOK, Ends, Goto, Settled
    <3>2. CallInv(c)'
          BY <3>1 DEF CallInv
    <3> QED BY <2>a, <2>2, <3>1, <3>2 DEF Write, AccessInv, TypeOK, AccessTypeOK, Keeps
  <2> QED BY <2>3, <2>4, <1>2 DEF Write
<1>3. pc[c] = "write"
      BY DEF Write, Goto, Ends
<1> QED BY <1>1, <1>2, <1>3 DEF Write

LEMMA SyncStep ==
  ASSUME AccessInv, NEW c \in Call, Sync(c)
  PROVE  AccessTypeOK' /\ Keeps(c) /\ CallInv(c)'
<1> DEFINE done == IF held[c].target = "credential" THEN "provisioned" ELSE "enrolled"
<1>1. CASE Ends(c, "sync", "failed")
      BY <1>1, EndsStep DEF Sync
<1>2. CASE Ends(c, "sync", done)
  <2>1. /\ pc[c] = "sync" /\ pc'[c] = done
        /\ pc' \in [Call -> {"idle", "crashed"} \cup Running \cup Settled]
        /\ held' \in [Call -> Held]
        /\ \A d \in Call \ {c} : pc'[d] = pc[d] /\ held'[d] = held[d]
        BY <1>2, NothingHeld DEF AccessInv, TypeOK, Ends, Goto, Settled
  <2>2. file' = file /\ displayed' = displayed
        BY DEF Sync
  <2>3. CASE held[c].target = "credential"
    <3>1. /\ Readable("credential") /\ file["credential"].by = c
          /\ file["credential"].password \notin Refused
          BY <2>1, <2>3 DEF AccessInv, CallInv
    <3> QED BY <2>1, <2>2, <2>3, <3>1 DEF AccessInv, TypeOK, AccessTypeOK, CallInv, Keeps, Readable
  <2>4. CASE held[c].target = "factor"
    <3>1. /\ Readable("credential") /\ Readable("factor") /\ file["factor"].by = c
          /\ file["factor"].password = file["credential"].password
          BY <2>1, <2>4 DEF AccessInv, CallInv
    <3> QED BY <2>1, <2>2, <2>4, <3>1 DEF AccessInv, TypeOK, AccessTypeOK, CallInv, Keeps, Readable
  <2> QED BY <2>1, <2>3, <2>4 DEF AccessInv, CallInv, FileName
<1> QED BY <1>1, <1>2 DEF Sync

LEMMA EnterStep ==
  ASSUME AccessInv, now \in 0..MaxTime, NEW c \in Call, Enter(c)
  PROVE  AccessTypeOK' /\ Keeps(c) /\ CallInv(c)'
<1>1. PICK entry \in Entry : held' = [held EXCEPT ![c] = entry]
      BY DEF Enter
<1>2. entry \in Held /\ entry.at = entry.entered
      BY PolicyAssumption DEF Entry, Held, Code, AccessInv, TypeOK
<1>3. /\ pc'[c] = "check" /\ file' = file /\ displayed' = displayed
      /\ pc' \in [Call -> {"idle", "crashed"} \cup Running \cup Settled]
      /\ held' \in [Call -> Held] /\ held'[c] = entry
      /\ \A d \in Call \ {c} : pc'[d] = pc[d] /\ held'[d] = held[d]
      BY <1>1, <1>2 DEF AccessInv, TypeOK, Enter, Goto, Running
<1>4. CallInv(c)'
      BY <1>2, <1>3 DEF CallInv
<1> QED BY <1>3, <1>4 DEF AccessInv, TypeOK, AccessTypeOK, Keeps

LEMMA CheckStep ==
  ASSUME AccessInv, NEW c \in Call, Check(c)
  PROVE  AccessTypeOK' /\ Keeps(c) /\ CallInv(c)'
<1>1. file' = file /\ displayed' = displayed
      BY DEF Check
<1>2. CASE Ends(c, "check", "denied") \/ Ends(c, "check", "failed")
      BY <1>1, <1>2, EndsStep
<1>3. CASE /\ Goto(c, "check", "open")
           /\ Readable("credential")
           /\ held[c].password = file["credential"].password
           /\ held' = held
  <2>1. /\ pc[c] = "check" /\ pc'[c] = "open"
        /\ pc' \in [Call -> {"idle", "crashed"} \cup Running \cup Settled]
        /\ \A d \in Call \ {c} : pc'[d] = pc[d] /\ held'[d] = held[d]
        BY <1>3 DEF AccessInv, TypeOK, Goto, Running
  <2>2. held[c].at = held[c].entered
        BY <2>1 DEF AccessInv, CallInv
  <2>3. CallInv(c)'
        BY <1>1, <1>3, <2>1, <2>2 DEF CallInv, Readable
  <2> QED BY <1>1, <1>3, <2>1, <2>3 DEF AccessInv, TypeOK, AccessTypeOK, Keeps
<1> QED BY <1>2, <1>3 DEF Check, Opens

LEMMA OpenStep ==
  ASSUME AccessInv, NEW c \in Call, Open(c)
  PROVE  AccessTypeOK' /\ Keeps(c) /\ CallInv(c)'
<1>1. file' = file /\ displayed' = displayed
      BY DEF Open
<1>2. CASE Ends(c, "open", "denied") \/ Ends(c, "open", "failed")
      BY <1>1, <1>2, EndsStep
<1>3. CASE Goto(c, "open", "granted") /\ Readable("factor") /\ Proven(c) /\ held' = held
  <2>1. /\ pc[c] = "open" /\ pc'[c] = "granted"
        /\ pc' \in [Call -> {"idle", "crashed"} \cup Running \cup Settled]
        /\ \A d \in Call \ {c} : pc'[d] = pc[d] /\ held'[d] = held[d]
        BY <1>3 DEF AccessInv, TypeOK, Goto, Settled
  <2>2. /\ held[c].at = held[c].entered /\ Readable("credential")
        /\ held[c].password = file["credential"].password
        BY <2>1 DEF AccessInv, CallInv
  <2>3. VerifyTotp(file["factor"].by, held[c].code, held[c].at)
        BY <1>3 DEF Proven
  <2>4. CallInv(c)'
        BY <1>1, <1>3, <2>1, <2>2, <2>3 DEF CallInv, Readable, VerifyTotp
  <2> QED BY <1>1, <1>3, <2>1, <2>4 DEF AccessInv, TypeOK, AccessTypeOK, Keeps
<1> QED BY <1>2, <1>3 DEF Open

LEMMA RunStep ==
  ASSUME AccessInv, now \in 0..MaxTime, NEW c \in Call, Proceed(c) \/ Crash(c)
  PROVE  AccessTypeOK' /\ \A d \in Call : CallInv(d)'
<1>1. ASSUME Crash(c) PROVE AccessTypeOK' /\ Keeps(c) /\ CallInv(c)'
      BY <1>1, EndsStep DEF Crash
<1>2. AccessTypeOK' /\ Keeps(c) /\ CallInv(c)'
      BY <1>1, ProvisionStep, EnrollStep, ProveStep, CreateStep, WriteStep, SyncStep,
         EnterStep, CheckStep, OpenStep
      DEF Proceed
<1> QED BY <1>2, OthersKept

(* A step of anything else leaves the runs and the files as they are.      *)
LEMMA Undisturbed ==
  ASSUME AccessInv, UNCHANGED access
  PROVE  AccessTypeOK' /\ \A d \in Call : CallInv(d)'
BY DEF AccessInv, TypeOK, AccessTypeOK, CallInv, access, Readable, VerifyTotp

-----------------------------------------------------------------------------
Inv == AccessInv /\ WindowInv /\ RateBound

LEMMA Starts == Init => Inv
<1> SUFFICES ASSUME Init PROVE Inv
    OBVIOUS
<1>1. WindowInv /\ RateBound
      BY WindowStarts DEF Init
<1>2. Absent \in File
      BY DEF Absent, File
<1>3. TypeOK
      BY <1>1, <1>2, NothingHeld DEF Init, TypeOK, WindowInv
<1>4. ASSUME NEW c \in Call PROVE CallInv(c)
      BY DEF Init, CallInv
<1> QED BY <1>1, <1>3, <1>4 DEF Inv, AccessInv

(* The window moves only as LoginWindow says.                              *)
LEMMA WindowMoves == [Next]_vars => [WindowNext]_<<now, window>>
<1> SUFFICES ASSUME [Next]_vars PROVE [WindowNext]_<<now, window>>
    OBVIOUS
<1>1. ASSUME NEW c \in Call, Proceed(c) \/ Crash(c) PROVE UNCHANGED <<now, window>>
      BY <1>1 DEF Proceed, Crash, Provision, Enroll, Prove, Create, Write, Sync, Enter, Check, Open
<1> QED BY <1>1 DEF Next, Login, WindowNext, vars

LEMMA Step == Inv /\ [Next]_vars => Inv'
<1> SUFFICES ASSUME Inv, [Next]_vars PROVE Inv'
    OBVIOUS
<1>1. WindowInv' /\ RateBound'
      BY WindowMoves, WindowStep DEF Inv
<1>2. now \in 0..MaxTime
      BY DEF Inv, AccessInv, TypeOK, WindowTypeOK
<1>3. AccessTypeOK' /\ \A d \in Call : CallInv(d)'
  <2>1. CASE \E c \in Call : Proceed(c) \/ Crash(c)
        BY <1>2, <2>1, RunStep DEF Inv
  <2>2. CASE UNCHANGED access
        BY <2>2, Undisturbed DEF Inv
  <2> QED BY <2>1, <2>2 DEF Next, Login, vars
<1> QED BY <1>1, <1>3 DEF Inv, AccessInv, TypeOK, AccessTypeOK, WindowInv

LEMMA Invariance == Spec => []Inv
<1> QED BY Starts, Step, PTL DEF Spec

(* Two codes of neighbouring periods were shown less than two periods      *)
(* apart.                                                                  *)
LEMMA PeriodStart ==
  ASSUME NEW t \in Nat
  PROVE  /\ t \div Period \in Int
         /\ Period * (t \div Period) <= t
         /\ t < Period * (t \div Period) + Period
BY AccessAssumption, SMT

LEMMA PeriodBound ==
  ASSUME NEW s \in Nat, NEW t \in Nat, (s \div Period) - (t \div Period) \in -1..1
  PROVE  s - t < 2 * Period /\ t - s < 2 * Period
<1> DEFINE a == s \div Period
           b == t \div Period
<1>1. Period \in Nat /\ a \in Int /\ b \in Int
      BY PeriodStart, AccessAssumption
<1>2. /\ Period * a <= s /\ s < Period * a + Period
      /\ Period * b <= t /\ t < Period * b + Period
      BY PeriodStart
<1>3. a - b \in -1..1
      OBVIOUS
<1> HIDE DEF a, b
<1>4. CASE a = b
      BY <1>1, <1>2, <1>4
<1>5. CASE a = b + 1
  <2>1. Period * a = Period * b + Period
        BY <1>1, <1>5
  <2> QED BY <1>1, <1>2, <2>1
<1>6. CASE b = a + 1
  <2>1. Period * b = Period * a + Period
        BY <1>1, <1>6
  <2> QED BY <1>1, <1>2, <2>1
<1> QED BY <1>1, <1>3, <1>4, <1>5, <1>6

-----------------------------------------------------------------------------
(* Every variable has its type, and time samples stay natural numbers.     *)
THEOREM TypeCorrect == Spec => []TypeOK
<1>1. Inv => TypeOK
      BY DEF Inv, AccessInv
<1> QED BY <1>1, Invariance, PTL

(* Whatever the commands do beside it, failed logins are rate bound.       *)
THEOREM RateIsBounded == Spec => []RateBound
<1>1. Inv => RateBound
      BY DEF Inv
<1> QED BY <1>1, Invariance, PTL

(* An acknowledged credential or factor is in place, whole and with the    *)
(* password it was made with, after any races, failures and crashes.       *)
THEOREM EnrollmentsInstalled == Spec => []EnrolledIsInstalled
<1>1. Inv => EnrolledIsInstalled
      BY DEF Inv, AccessInv, CallInv, EnrolledIsInstalled
<1> QED BY <1>1, Invariance, PTL

(* Access stands on the installed password and a recent code of the        *)
(* installed factor, for any length of the period.                         *)
THEOREM GrantsProven == Spec => []GrantedIsProven
<1>1. ASSUME Inv PROVE GrantedIsProven
  <2> SUFFICES ASSUME NEW c \in Call, pc[c] = "granted"
               PROVE  /\ Readable("credential") /\ Readable("factor")
                      /\ held[c].password = file["credential"].password
                      /\ held[c].code.secret = file["factor"].by
                      /\ held[c].code.shown - held[c].entered < 2 * Period
                      /\ held[c].entered - held[c].code.shown < 2 * Period
      BY DEF GrantedIsProven
  <2>1. CallInv(c) /\ held[c] \in Held
        BY <1>1 DEF Inv, AccessInv, TypeOK
  <2>2. /\ Readable("credential") /\ Readable("factor")
        /\ held[c].password = file["credential"].password
        /\ held[c].code.secret = file["factor"].by
        /\ (held[c].code.shown \div Period) - (held[c].entered \div Period) \in -1..1
        BY <2>1 DEF CallInv, VerifyTotp
  <2>3. held[c].code.shown \in Nat /\ held[c].entered \in Nat
        BY <2>1 DEF Held, Code
  <2>4. /\ held[c].code.shown - held[c].entered < 2 * Period
        /\ held[c].entered - held[c].code.shown < 2 * Period
        BY <2>2, <2>3, PeriodBound
  <2> QED BY <2>2, <2>4
<1> QED BY <1>1, Invariance, PTL

-----------------------------------------------------------------------------
(* The login attempts of the composition are those of the throttling alone.*)
THEOREM WindowIsUsed == Spec => WindowSpec
<1>1. Init => WindowInit
      BY DEF Init
<1> QED BY <1>1, WindowMoves, PTL DEF Spec, WindowSpec

-----------------------------------------------------------------------------
(* The refinement.  Every file belongs to a run and has a password, also   *)
(* when that run has failed or died; and a whole factor opens with the     *)
(* password of the installed credential.                                   *)
FilesInv ==
  /\ \A n \in FileName :
       file[n].shape # "absent" => file[n].by \in Call /\ file[n].password \in Password
  /\ \A c \in Call :
       pc[c] \in {"prove", "create", "write"} => held[c].password \in Password
  /\ Readable("factor") =>
       Readable("credential") /\ file["factor"].password = file["credential"].password

LEMMA FilesStart == Init => FilesInv
BY DEF Init, FilesInv, FileName, Absent, Readable

(* A run that touches no file, and has a password wherever it needs one.   *)
LEMMA FilesKept ==
  ASSUME FilesInv, NEW c \in Call, file' = file,
         \A d \in Call \ {c} : pc'[d] = pc[d] /\ held'[d] = held[d],
         pc'[c] \in {"prove", "create", "write"} => held'[c].password \in Password
  PROVE  FilesInv'
BY DEF FilesInv, Readable

LEMMA OthersStay ==
  ASSUME AccessInv, NEW c \in Call, Proceed(c) \/ Crash(c)
  PROVE  \A d \in Call \ {c} : pc'[d] = pc[d] /\ held'[d] = held[d]
<1>1. pc \in [Call -> {"idle", "crashed"} \cup Running \cup Settled] /\ held \in [Call -> Held]
      BY DEF AccessInv, TypeOK
<1>2. CASE Provision(c) \/ Enroll(c) \/ Prove(c)
      BY <1>1, <1>2 DEF Provision, Enroll, Prove, Goto, Ends, Holds
<1>3. CASE Create(c) \/ Write(c) \/ Sync(c)
      BY <1>1, <1>3 DEF Create, Write, Sync, Goto, Ends
<1>4. CASE Enter(c) \/ Check(c) \/ Open(c) \/ Crash(c)
      BY <1>1, <1>4 DEF Enter, Check, Open, Crash, Goto, Ends
<1> QED BY <1>2, <1>3, <1>4 DEF Proceed

LEMMA FilesStep ==
  ASSUME AccessInv, FilesInv, NEW c \in Call, Proceed(c) \/ Crash(c)
  PROVE  FilesInv'
<1>0. /\ pc \in [Call -> {"idle", "crashed"} \cup Running \cup Settled]
      /\ held \in [Call -> Held] /\ CallInv(c)
      BY DEF AccessInv, TypeOK
<1>1. \A d \in Call \ {c} : pc'[d] = pc[d] /\ held'[d] = held[d]
      BY OthersStay
<1>2. CASE file' = file /\ pc'[c] \notin {"prove", "create", "write"}
      BY <1>1, <1>2, FilesKept
<1>3. CASE Provision(c)
  <2>1. CASE Goto(c, "idle", "create") /\ \E p \in Acceptable : Holds(c, p, "credential")
    <3>1. held'[c].password \in Password
          BY <1>0, <2>1 DEF Holds, Acceptable, Held
    <3> QED BY <1>1, <1>3, <3>1, FilesKept DEF Provision
  <2>2. CASE Ends(c, "idle", "failed")
        BY <1>0, <1>2, <1>3, <2>2 DEF Provision, Ends, Goto
  <2> QED BY <1>3, <2>1, <2>2 DEF Provision
<1>4. CASE Enroll(c)
  <2>1. CASE /\ Readable("credential") /\ Goto(c, "idle", "prove")
             /\ Holds(c, file["credential"].password, "factor")
    <3>1. held'[c].password \in Password
          BY <1>0, <2>1 DEF Holds, Readable, FilesInv, FileName, Held
    <3> QED BY <1>1, <1>4, <3>1, FilesKept DEF Enroll
  <2>2. CASE Ends(c, "idle", "failed")
        BY <1>0, <1>2, <1>4, <2>2 DEF Enroll, Ends, Goto
  <2> QED BY <1>4, <2>1, <2>2 DEF Enroll
<1>5. CASE Prove(c)
  <2>1. CASE Goto(c, "prove", "create") /\ held' = held
    <3>1. held'[c].password \in Password
          BY <2>1 DEF Goto, FilesInv
    <3> QED BY <1>1, <1>5, <3>1, FilesKept DEF Prove
  <2>2. CASE Ends(c, "prove", "failed")
        BY <1>0, <1>2, <1>5, <2>2 DEF Prove, Ends, Goto
  <2> QED BY <1>5, <2>1, <2>2 DEF Prove
<1>6. CASE Create(c)
  <2>1. CASE Ends(c, "create", "failed") /\ file' = file
        BY <1>0, <1>2, <2>1 DEF Ends, Goto
  <2>2. CASE /\ Goto(c, "create", "write") /\ file[held[c].target].shape = "absent"
             /\ Becomes(c, "partial") /\ held' = held
    <3>1. held[c].target \in FileName /\ held[c].password \in Password
          BY <1>0, <2>2 DEF Goto, CallInv, FilesInv
    <3>2. /\ file'[held[c].target] = [shape |-> "partial", by |-> c, password |-> held[c].password]
          /\ \A n \in FileName \ {held[c].target} : file'[n] = file[n]
          BY <2>2, <3>1, BecomesStep
    <3>3. held'[c].password \in Password
          BY <2>2, <3>1
    <3>4. Readable("factor")' =>
            Readable("credential")' /\ file'["factor"].password = file'["credential"].password
          BY <2>2, <3>1, <3>2 DEF Readable, FilesInv, FileName
    <3> QED BY <1>1, <3>2, <3>3, <3>4, <3>1 DEF FilesInv
  <2> QED BY <1>6, <2>1, <2>2 DEF Create
<1>7. CASE Write(c)
  <2>1. CASE file' = file /\ pc'[c] # "write"
        BY <1>0, <1>2, <1>7, <2>1 DEF Write, Ends, Goto
  <2>2. CASE Becomes(c, "whole") /\ pc[c] = "write"
    <3>1. /\ held[c].target \in FileName /\ held[c].password \in Password
          /\ file[held[c].target].shape = "partial" /\ file[held[c].target].by = c
          BY <1>0, <2>2 DEF CallInv, FilesInv
    <3>2. /\ file'[held[c].target] = [shape |-> "whole", by |-> c, password |-> held[c].password]
          /\ \A n \in FileName \ {held[c].target} : file'[n] = file[n]
          BY <2>2, <3>1, BecomesStep
    <3>3. pc'[c] \notin {"prove", "create", "write"}
          BY <1>0, <1>7 DEF Write, Goto, Ends
    <3>4. Readable("factor")' =>
            Readable("credential")' /\ file'["factor"].password = file'["credential"].password
      <4>1. CASE held[c].target = "factor"
            BY <1>0, <2>2, <3>2, <4>1 DEF CallInv, Readable, FileName
      <4>2. CASE held[c].target = "credential"
            BY <3>1, <3>2, <4>2 DEF FilesInv, Readable, FileName
      <4> QED BY <3>1, <4>1, <4>2 DEF FileName
    <3> QED BY <1>1, <3>1, <3>2, <3>3, <3>4 DEF FilesInv
  <2>3. pc[c] = "write" /\ pc'[c] # "write"
        BY <1>0, <1>7 DEF Write, Goto, Ends
  <2> QED BY <1>7, <2>1, <2>2, <2>3 DEF Write
<1>8. CASE Sync(c) \/ Enter(c) \/ Check(c) \/ Open(c) \/ Crash(c)
  <2>1. file' = file
        BY <1>8 DEF Sync, Enter, Check, Open, Crash
  <2>2. pc'[c] \notin {"prove", "create", "write"}
        BY <1>0, <1>8 DEF Sync, Enter, Check, Open, Crash, Goto, Ends
  <2> QED BY <1>2, <2>1, <2>2
<1> QED BY <1>3, <1>4, <1>5, <1>6, <1>7, <1>8 DEF Proceed

AbstractInstalled == [n \in FileName |-> Installed(n)]
AbstractPresented == [c \in Call |-> Presented(c)]
AbstractTold == [c \in Call |-> Told(c)]
FactorVars == <<AbstractInstalled, AbstractPresented, AbstractTold>>

LEMMA InstalledFacts ==
  ASSUME FilesInv, NEW n \in FileName
  PROVE  /\ AbstractInstalled[n] = Installed(n)
         /\ Readable(n) <=> Installed(n) # [by |-> None, password |-> None]
         /\ Readable(n) => Installed(n) = [by |-> file[n].by, password |-> file[n].password]
<1>1. AbstractInstalled[n] = Installed(n)
      BY DEF AbstractInstalled
<1>2. Readable(n) => file[n].by # None
      BY AccessAssumption DEF FilesInv, Readable
<1> QED BY <1>1, <1>2 DEF Installed

(* Only the call that moves presents something, or is told something.      *)
LEMMA OneMoves ==
  ASSUME NEW c \in Call, \A d \in Call \ {c} : pc'[d] = pc[d] /\ held'[d] = held[d]
  PROVE  /\ AbstractPresented' = [AbstractPresented EXCEPT ![c] = Presented(c)']
         /\ AbstractTold' = [AbstractTold EXCEPT ![c] = Told(c)']
         /\ AbstractPresented[c] = Presented(c)
         /\ AbstractTold[c] = Told(c)
<1>1. ASSUME NEW d \in Call \ {c}
      PROVE  Presented(d)' = Presented(d) /\ Told(d)' = Told(d)
      BY DEF Presented, Told
<1> QED BY <1>1 DEF AbstractPresented, AbstractTold

LEMMA SameInstalled ==
  ASSUME file' = file
  PROVE  AbstractInstalled' = AbstractInstalled
BY DEF AbstractInstalled, Installed, Readable

LEMMA ToldFacts ==
  ASSUME NEW c \in Call
  PROVE  /\ pc[c] \in {"idle"} \cup Running => Told(c) = "nothing"
         /\ pc[c] \in Settled => Told(c) = pc[c]
         /\ pc[c] = "crashed" => Told(c) = "failed"
BY DEF Told, Running, Settled

(* A step between two calls of the file system, invisible outside.         *)
LEMMA InvisibleStep ==
  ASSUME NEW c \in Call, file' = file,
         \A d \in Call \ {c} : pc'[d] = pc[d] /\ held'[d] = held[d],
         pc[c] \in {"idle"} \cup Running, pc'[c] \in Running,
         pc[c] \notin {"check", "open"}, pc'[c] \notin {"check", "open"}
  PROVE  UNCHANGED FactorVars
<1>1. Told(c) = "nothing" /\ Told(c)' = "nothing"
      BY DEF Told, Running, Settled
<1>2. Presented(c) = {} /\ Presented(c)' = {}
      BY DEF Presented
<1>3. AbstractTold' = AbstractTold /\ AbstractPresented' = AbstractPresented
      BY <1>1, <1>2, OneMoves DEF AbstractTold, AbstractPresented
<1> QED BY <1>3, SameInstalled DEF FactorVars

(* A run that is over without having installed or been granted anything.   *)
LEMMA FailureStep ==
  ASSUME NEW c \in Call, file' = file,
         \A d \in Call \ {c} : pc'[d] = pc[d] /\ held'[d] = held[d],
         pc[c] \in {"idle"} \cup Running, pc'[c] \in {"failed", "crashed"}
  PROVE  Factors!Next
<1>1. Told(c) = "nothing" /\ Told(c)' = "failed" /\ Presented(c)' = {}
      BY DEF Told, Running, Settled, Presented
<1>2. /\ AbstractTold[c] = "nothing"
      /\ AbstractTold' = [AbstractTold EXCEPT ![c] = "failed"]
      /\ AbstractPresented' = [AbstractPresented EXCEPT ![c] = {}]
      /\ AbstractInstalled' = AbstractInstalled
      BY <1>1, OneMoves, SameInstalled
<1>3. Factors!Fail(c)
      BY <1>2 DEF Factors!Fail, Factors!Answer, AbstractTold, AbstractPresented, AbstractInstalled
<1>4. c \in Factors!Waiting
      BY <1>2 DEF Factors!Waiting, AbstractTold
<1> QED BY <1>3, <1>4 DEF Factors!Next

(* A file that is created is not yet installed; it is from its write on,   *)
(* whether its writer learns of it or not.                                 *)
LEMMA CreateRefines ==
  ASSUME AccessInv, FilesInv, NEW c \in Call, Create(c)
  PROVE  Factors!Next \/ UNCHANGED FactorVars
<1>0. /\ pc \in [Call -> {"idle", "crashed"} \cup Running \cup Settled] /\ CallInv(c)
      /\ \A d \in Call \ {c} : pc'[d] = pc[d] /\ held'[d] = held[d]
      BY OthersStay DEF AccessInv, TypeOK, Proceed
<1>1. CASE Ends(c, "create", "failed") /\ file' = file
      BY <1>0, <1>1, FailureStep DEF Ends, Goto, Running
<1>2. CASE /\ Goto(c, "create", "write") /\ file[held[c].target].shape = "absent"
           /\ Becomes(c, "partial") /\ held' = held
  <2>1. pc[c] = "create" /\ pc'[c] = "write" /\ held[c].target \in FileName
        BY <1>0, <1>2 DEF Goto, CallInv
  <2>a. /\ file'[held[c].target] = [shape |-> "partial", by |-> c, password |-> held[c].password]
        /\ \A n \in FileName \ {held[c].target} : file'[n] = file[n]
        BY <1>2, <2>1, BecomesStep
  <2>2. /\ file'[held[c].target].shape = "partial"
        /\ \A n \in FileName \ {held[c].target} : file'[n] = file[n]
        BY <2>a
  <2>3. \A n \in FileName : Installed(n)' = Installed(n)
        BY <1>2, <2>1, <2>2 DEF Installed, Readable
  <2>4. AbstractInstalled' = AbstractInstalled
        BY <2>3 DEF AbstractInstalled
  <2>5. Told(c) = "nothing" /\ Told(c)' = "nothing" /\ Presented(c) = {} /\ Presented(c)' = {}
        BY <2>1 DEF Told, Settled, Presented
  <2>6. AbstractTold' = AbstractTold /\ AbstractPresented' = AbstractPresented
        BY <1>0, <2>5, OneMoves DEF AbstractTold, AbstractPresented
  <2> QED BY <2>4, <2>6 DEF FactorVars
<1> QED BY <1>1, <1>2 DEF Create

LEMMA WriteRefines ==
  ASSUME AccessInv, FilesInv, NEW c \in Call, Write(c)
  PROVE  Factors!Next \/ UNCHANGED FactorVars
<1>0. /\ pc \in [Call -> {"idle", "crashed"} \cup Running \cup Settled] /\ CallInv(c)
      /\ \A d \in Call \ {c} : pc'[d] = pc[d] /\ held'[d] = held[d]
      BY OthersStay DEF AccessInv, TypeOK, Proceed
<1>1. CASE Ends(c, "write", "failed") /\ file' = file
      BY <1>0, <1>1, FailureStep DEF Ends, Goto, Running
<1>2. CASE Becomes(c, "whole")
  <2>0. /\ pc[c] = "write" /\ pc'[c] \in {"sync", "failed"}
        /\ held[c].target \in FileName /\ held[c].password \in Password
        BY <1>0 DEF Write, Goto, Ends, CallInv, FilesInv
  <2>n. PICK n \in FileName : n = held[c].target
        BY <2>0
  <2>p. PICK p \in Password : p = held[c].password
        BY <2>0
  <2>1. /\ pc[c] = "write" /\ pc'[c] \in {"sync", "failed"}
        /\ file[n].shape = "partial" /\ file[n].by = c
        BY <1>0, <2>0, <2>n DEF CallInv
  <2>2. /\ file'[n] = [shape |-> "whole", by |-> c, password |-> p]
        /\ \A m \in FileName \ {n} : file'[m] = file[m]
        BY <1>2, <2>1, <2>n, <2>p, BecomesStep
  <2>3. /\ Installed(n) = [by |-> None, password |-> None]
        /\ Installed(n)' = [by |-> c, password |-> p]
        /\ \A m \in FileName \ {n} : Installed(m)' = Installed(m)
        BY <2>1, <2>2 DEF Installed, Readable
  <2>4. AbstractInstalled' = [AbstractInstalled EXCEPT ![n] = [by |-> c, password |-> p]]
        BY <2>1, <2>3 DEF AbstractInstalled
  <2>5. AbstractInstalled[n] = [by |-> None, password |-> None]
        BY <2>1, <2>3 DEF AbstractInstalled
  <2>6. /\ n = "credential" => p \notin Refused
        /\ n = "factor" =>
             /\ AbstractInstalled["credential"] # [by |-> None, password |-> None]
             /\ p = AbstractInstalled["credential"].password
    <3>1. n = "factor" => Readable("credential") /\ p = file["credential"].password
          BY <1>0, <2>1, <2>n, <2>p DEF CallInv
    <3>2. "credential" \in FileName
          BY DEF FileName
    <3> QED BY <1>0, <2>1, <2>n, <2>p, <3>1, <3>2, InstalledFacts DEF CallInv
  <2>7. /\ Told(c) = "nothing" /\ Presented(c) = {} /\ Presented(c)' = {}
        /\ Told(c)' \in {"nothing", "failed"}
        BY <2>1 DEF Told, Settled, Presented
  <2>8. /\ AbstractTold[c] = "nothing"
        /\ AbstractTold' \in {AbstractTold, [AbstractTold EXCEPT ![c] = "failed"]}
        /\ AbstractPresented' = AbstractPresented
        BY <1>0, <2>7, OneMoves DEF AbstractTold, AbstractPresented
  <2>9. Factors!Install(c, n)
        BY <2>1, <2>4, <2>5, <2>6, <2>8
        DEF Factors!Install, Factors!Missing, AbstractTold, AbstractPresented, AbstractInstalled
  <2> QED BY <2>1, <2>8, <2>9 DEF Factors!Next, Factors!Waiting, FileName, AbstractTold
<1> QED BY <1>1, <1>2 DEF Write

LEMMA SyncRefines ==
  ASSUME AccessInv, FilesInv, NEW c \in Call, Sync(c)
  PROVE  Factors!Next
<1> DEFINE n == held[c].target
           done == IF n = "credential" THEN "provisioned" ELSE "enrolled"
<1>0. /\ pc \in [Call -> {"idle", "crashed"} \cup Running \cup Settled] /\ CallInv(c)
      /\ \A d \in Call \ {c} : pc'[d] = pc[d] /\ held'[d] = held[d]
      /\ file' = file
      BY OthersStay DEF AccessInv, TypeOK, Proceed, Sync
<1>1. CASE Ends(c, "sync", "failed")
      BY <1>0, <1>1, FailureStep DEF Ends, Goto, Running
<1>2. CASE Ends(c, "sync", done)
  <2>1. /\ pc[c] = "sync" /\ pc'[c] = done /\ n \in FileName
        /\ Readable(n) /\ file[n].by = c
        BY <1>0, <1>2 DEF Ends, Goto, CallInv
  <2>2. Told(c) = "nothing" /\ Told(c)' = done /\ Presented(c)' = {}
        BY <2>1 DEF Told, Settled, Presented
  <2>3. /\ AbstractTold[c] = "nothing"
        /\ AbstractTold' = [AbstractTold EXCEPT ![c] = done]
        /\ AbstractPresented' = [AbstractPresented EXCEPT ![c] = {}]
        /\ AbstractInstalled' = AbstractInstalled
        BY <1>0, <2>2, OneMoves, SameInstalled
  <2>4. AbstractInstalled[n].by = c
        BY <2>1, InstalledFacts
  <2>5. Factors!Acknowledge(c)
        BY <2>1, <2>3, <2>4
        DEF Factors!Acknowledge, Factors!Answer, FileName, AbstractTold, AbstractPresented,
            AbstractInstalled
  <2> QED BY <2>3, <2>5 DEF Factors!Next, Factors!Waiting, AbstractTold
<1> QED BY <1>1, <1>2 DEF Sync

LEMMA EnterRefines ==
  ASSUME AccessInv, now \in 0..MaxTime, NEW c \in Call, Enter(c)
  PROVE  Factors!Next
<1>0. /\ pc \in [Call -> {"idle", "crashed"} \cup Running \cup Settled]
      /\ held \in [Call -> Held] /\ displayed \subseteq Call
      /\ \A d \in Call \ {c} : pc'[d] = pc[d] /\ held'[d] = held[d]
      /\ file' = file
      BY OthersStay DEF AccessInv, TypeOK, Proceed, Enter
<1>1. PICK entry \in Entry : held' = [held EXCEPT ![c] = entry]
      BY DEF Enter
<1> DEFINE e == [password |-> entry.password, code |-> entry.code, at |-> entry.entered]
<1>2. e \in Factors!Entry
      BY <1>0 DEF Entry, Factors!Entry
<1>3. pc[c] = "idle" /\ pc'[c] = "check" /\ held'[c] = entry
      BY <1>0, <1>1 DEF Enter, Goto
<1>4. /\ Presented(c) = {} /\ Presented(c)' = {e}
      /\ Told(c) = "nothing" /\ Told(c)' = "nothing"
      BY <1>3 DEF Presented, Told, Settled
<1> HIDE DEF e
<1>5. /\ AbstractTold[c] = "nothing" /\ AbstractTold' = AbstractTold
      /\ AbstractPresented[c] = {}
      /\ AbstractPresented' = [AbstractPresented EXCEPT ![c] = {e}]
      /\ AbstractInstalled' = AbstractInstalled
  <2>1. AbstractTold[c] = "nothing" /\ AbstractTold' = AbstractTold
        BY <1>0, <1>4, OneMoves DEF AbstractTold
  <2>2. /\ AbstractPresented[c] = {}
        /\ AbstractPresented' = [AbstractPresented EXCEPT ![c] = {e}]
        BY <1>0, <1>4, OneMoves
  <2> QED BY <1>0, <2>1, <2>2, SameInstalled
<1>6. e \in AbstractPresented'[c] \cap Factors!Entry
      BY <1>2, <1>4 DEF AbstractPresented
<1>7. Factors!Present(c)
      BY <1>5, <1>6 DEF Factors!Present, AbstractTold, AbstractPresented, AbstractInstalled
<1> QED BY <1>5, <1>7 DEF Factors!Next, Factors!Waiting, AbstractTold

(* A code on display at most one period away is in a period next to now's. *)
LEMMA PeriodNear ==
  ASSUME NEW s \in Nat, NEW t \in Nat, s - t <= Period, t - s <= Period
  PROVE  (s \div Period) - (t \div Period) \in -1..1
<1> DEFINE a == s \div Period
           b == t \div Period
<1>1. Period \in Nat /\ Period > 0 /\ a \in Int /\ b \in Int
      BY PeriodStart, AccessAssumption
<1>2. /\ Period * a <= s /\ s < Period * a + Period
      /\ Period * b <= t /\ t < Period * b + Period
      BY PeriodStart
<1> HIDE DEF a, b
<1>3. ASSUME NEW x \in Int, NEW y \in Int, x >= y + 2
      PROVE  Period * x >= Period * y + Period + Period
  <2>1. PICK k \in Nat : x = y + 2 + k
    <3>1. x - y - 2 \in Nat /\ x = y + 2 + (x - y - 2)
          BY <1>3
    <3> QED BY <3>1
  <2>2. Period * x = Period * y + Period + Period + Period * k
        BY <1>1, <2>1
  <2>3. Period * k >= 0 /\ Period * k \in Int /\ Period * y \in Int
        BY <1>1
  <2> QED BY <1>1, <2>2, <2>3
<1>4. Period * a \in Int /\ Period * b \in Int
      BY <1>1
<1>5. ~(a >= b + 2)
      BY <1>1, <1>2, <1>3, <1>4
<1>6. ~(b >= a + 2)
      BY <1>1, <1>2, <1>3, <1>4
<1>7. a - b \in -1..1
      BY <1>1, <1>5, <1>6
<1> QED BY <1>7 DEF a, b

(* What is known of a run that is verifying what it has presented.         *)
LEMMA Verifying ==
  ASSUME AccessInv, NEW c \in Call, pc[c] \in {"check", "open"}
  PROVE  /\ Told(c) = "nothing"
         /\ Presented(c) =
              {[password |-> held[c].password, code |-> held[c].code, at |-> held[c].entered]}
         /\ held[c].at = held[c].entered
         /\ held[c].code.shown \in Nat /\ held[c].entered \in Nat
<1>1. held[c] \in Held /\ CallInv(c)
      BY DEF AccessInv, TypeOK
<1>2. held[c].at = held[c].entered
      BY <1>1 DEF CallInv
<1>3. held[c].code.shown \in Nat /\ held[c].entered \in Nat
      BY <1>1 DEF Held, Code
<1> QED BY <1>2, <1>3 DEF Told, Settled, Presented

LEMMA CheckRefines ==
  ASSUME AccessInv, FilesInv, NEW c \in Call, Check(c)
  PROVE  Factors!Next \/ UNCHANGED FactorVars
<1> DEFINE e == [password |-> held[c].password, code |-> held[c].code, at |-> held[c].entered]
<1>0. /\ pc \in [Call -> {"idle", "crashed"} \cup Running \cup Settled]
      /\ \A d \in Call \ {c} : pc'[d] = pc[d] /\ held'[d] = held[d]
      /\ file' = file /\ pc[c] = "check"
      BY OthersStay DEF AccessInv, TypeOK, Proceed, Check, Goto, Ends
<1>1. Told(c) = "nothing" /\ Presented(c) = {e}
      BY <1>0, Verifying
<1>2. CASE Ends(c, "check", "failed")
      BY <1>0, <1>2, FailureStep DEF Ends, Goto, Running
<1>3. CASE Goto(c, "check", "open") /\ held' = held
  <2>1. pc'[c] = "open"
        BY <1>0, <1>3 DEF Goto
  <2>2. Told(c)' = Told(c) /\ Presented(c)' = Presented(c)
        BY <1>0, <1>3, <2>1 DEF Told, Settled, Presented
  <2>3. AbstractTold' = AbstractTold /\ AbstractPresented' = AbstractPresented
        BY <1>0, <2>2, OneMoves DEF AbstractTold, AbstractPresented
  <2> QED BY <1>0, <2>3, SameInstalled DEF FactorVars
<1>4. CASE /\ Ends(c, "check", "denied") /\ Readable("credential")
           /\ ~Opens(held[c].password, file["credential"].password)
  <2>1. Told(c)' = "denied" /\ Presented(c)' = {}
        BY <1>0, <1>4 DEF Ends, Goto, Told, Settled, Presented
  <2>2. /\ AbstractTold[c] = "nothing"
        /\ AbstractTold' = [AbstractTold EXCEPT ![c] = "denied"]
        /\ AbstractPresented' = [AbstractPresented EXCEPT ![c] = {}]
        /\ AbstractPresented[c] = {e}
        /\ AbstractInstalled' = AbstractInstalled
        BY <1>0, <1>1, <2>1, OneMoves, SameInstalled
  <2>3. /\ AbstractInstalled["credential"] # [by |-> None, password |-> None]
        /\ e.password # AbstractInstalled["credential"].password
        BY <1>4, InstalledFacts DEF FileName, Opens
  <2> HIDE DEF e
  <2>4. Factors!Deny(c)
        BY <2>2, <2>3
        DEF Factors!Deny, Factors!Opens, Factors!Answer, Factors!Missing,
            AbstractTold, AbstractPresented, AbstractInstalled
  <2> QED BY <2>2, <2>4 DEF Factors!Next, Factors!Waiting, AbstractTold
<1> QED BY <1>2, <1>3, <1>4 DEF Check

LEMMA OpenRefines ==
  ASSUME AccessInv, FilesInv, NEW c \in Call, Open(c)
  PROVE  Factors!Next
<1> DEFINE e == [password |-> held[c].password, code |-> held[c].code, at |-> held[c].entered]
           missing == [by |-> None, password |-> None]
<1>0. /\ pc \in [Call -> {"idle", "crashed"} \cup Running \cup Settled]
      /\ \A d \in Call \ {c} : pc'[d] = pc[d] /\ held'[d] = held[d]
      /\ file' = file /\ pc[c] = "open"
      BY OthersStay DEF AccessInv, TypeOK, Proceed, Open, Goto, Ends
<1>1. /\ Told(c) = "nothing" /\ Presented(c) = {e} /\ held[c].at = held[c].entered
      /\ held[c].code.shown \in Nat /\ held[c].entered \in Nat
      BY <1>0, Verifying
<1>2. Readable("credential") /\ held[c].password = file["credential"].password
      BY <1>0 DEF AccessInv, CallInv
<1>3. /\ AbstractInstalled["credential"] # missing
      /\ e.password = AbstractInstalled["credential"].password
      BY <1>2, InstalledFacts DEF FileName
<1>4. CASE Ends(c, "open", "failed")
      BY <1>0, <1>4, FailureStep DEF Ends, Goto, Running
<1>5. ASSUME Readable("factor")
      PROVE  /\ AbstractInstalled["factor"] # missing
             /\ AbstractInstalled["factor"].by = file["factor"].by
             /\ Decrypts(c)
      BY <1>2, <1>5, InstalledFacts DEF FileName, FilesInv, Decrypts
<1>6. CASE Goto(c, "open", "granted") /\ Readable("factor") /\ Proven(c)
  <2>1. Told(c)' = "granted" /\ Presented(c)' = {}
        BY <1>0, <1>6 DEF Goto, Told, Settled, Presented
  <2>2. /\ AbstractTold[c] = "nothing"
        /\ AbstractTold' = [AbstractTold EXCEPT ![c] = "granted"]
        /\ AbstractPresented' = [AbstractPresented EXCEPT ![c] = {}]
        /\ AbstractPresented[c] = {e}
        /\ AbstractInstalled' = AbstractInstalled
        BY <1>0, <1>1, <2>1, OneMoves, SameInstalled
  <2>3. /\ held[c].code.secret = file["factor"].by
        /\ (held[c].code.shown \div Period) - (held[c].entered \div Period) \in -1..1
        BY <1>1, <1>6 DEF Proven, VerifyTotp
  <2>4. /\ held[c].code.shown - held[c].entered < 2 * Period
        /\ held[c].entered - held[c].code.shown < 2 * Period
        BY <1>1, <2>3, PeriodBound
  <2>5. /\ held[c].code.shown - held[c].entered <= 2 * Period - 1
        /\ held[c].entered - held[c].code.shown <= 2 * Period - 1
        BY <1>1, <2>4, AccessAssumption
  <2>6. Factors!Within(e, 2 * Period - 1)
        BY <2>5 DEF Factors!Within
  <2>7. /\ AbstractInstalled["factor"] # missing
        /\ e.code.secret = AbstractInstalled["factor"].by
        BY <1>5, <1>6, <2>3
  <2> HIDE DEF e
  <2>8. Factors!Grant(c)
        BY <1>3, <2>2, <2>6, <2>7
        DEF Factors!Grant, Factors!Opens, Factors!Answer, Factors!Missing,
            AbstractTold, AbstractPresented, AbstractInstalled
  <2> QED BY <2>2, <2>8 DEF Factors!Next, Factors!Waiting, AbstractTold
<1>7. CASE Ends(c, "open", "denied") /\ Readable("factor") /\ ~Proven(c)
  <2>1. Told(c)' = "denied" /\ Presented(c)' = {}
        BY <1>0, <1>7 DEF Ends, Goto, Told, Settled, Presented
  <2>2. /\ AbstractTold[c] = "nothing"
        /\ AbstractTold' = [AbstractTold EXCEPT ![c] = "denied"]
        /\ AbstractPresented' = [AbstractPresented EXCEPT ![c] = {}]
        /\ AbstractPresented[c] = {e}
        /\ AbstractInstalled' = AbstractInstalled
        BY <1>0, <1>1, <2>1, OneMoves, SameInstalled
  <2>3. ASSUME e.code.secret = AbstractInstalled["factor"].by, Factors!Within(e, Period)
        PROVE  FALSE
    <3>1. /\ held[c].code.secret = file["factor"].by
          /\ held[c].code.shown - held[c].entered <= Period
          /\ held[c].entered - held[c].code.shown <= Period
          BY <1>5, <1>7, <2>3 DEF Factors!Within
    <3>2. (held[c].code.shown \div Period) - (held[c].at \div Period) \in -1..1
          BY <1>1, <3>1, PeriodNear
    <3> QED BY <1>5, <1>7, <3>1, <3>2 DEF Proven, VerifyTotp
  <2>4. AbstractInstalled["factor"] # missing
        BY <1>5, <1>7
  <2> HIDE DEF e
  <2>5. Factors!Deny(c)
        BY <1>3, <2>2, <2>3, <2>4
        DEF Factors!Deny, Factors!Opens, Factors!Answer, Factors!Missing,
            AbstractTold, AbstractPresented, AbstractInstalled
  <2> QED BY <2>2, <2>5 DEF Factors!Next, Factors!Waiting, AbstractTold
<1> QED BY <1>4, <1>6, <1>7 DEF Open

LEMMA RunRefines ==
  ASSUME AccessInv, FilesInv, now \in 0..MaxTime, NEW c \in Call, Proceed(c) \/ Crash(c)
  PROVE  Factors!Next \/ UNCHANGED FactorVars
<1>0. /\ pc \in [Call -> {"idle", "crashed"} \cup Running \cup Settled]
      /\ \A d \in Call \ {c} : pc'[d] = pc[d] /\ held'[d] = held[d]
      BY OthersStay DEF AccessInv, TypeOK
<1>1. CASE Provision(c) \/ Enroll(c) \/ Prove(c)
  <2>1. file' = file
        BY <1>1 DEF Provision, Enroll, Prove
  <2>2. /\ pc[c] \in {"idle", "prove"}
        /\ pc'[c] \in {"prove", "create", "failed"}
        BY <1>0, <1>1 DEF Provision, Enroll, Prove, Goto, Ends
  <2> QED BY <1>0, <2>1, <2>2, InvisibleStep, FailureStep DEF Running
<1>2. CASE Crash(c)
      BY <1>0, <1>2, FailureStep DEF Crash, Ends, Goto
<1> QED BY <1>1, <1>2, CreateRefines, WriteRefines, SyncRefines, EnterRefines,
           CheckRefines, OpenRefines DEF Proceed

(* The commands implement the two factors of module OwnerFactors: each is  *)
(* installed at one instant, once and for good, and grants and denials are *)
(* true of what is installed, for any number of runs and under every fault.*)
THEOREM Refinement == Spec => ImplementsFactors
<1>1. Init => Factors!Init
      BY DEF Init, Factors!Init, FileName, Absent, Installed, Readable, Factors!Missing,
             Presented, Told, Settled
<1>2. Init => Inv /\ FilesInv
      BY Starts, FilesStart
<1>3. Inv /\ FilesInv /\ [Next]_vars => (Inv /\ FilesInv)'
  <2> SUFFICES ASSUME Inv, FilesInv, [Next]_vars PROVE Inv' /\ FilesInv'
      OBVIOUS
  <2>1. CASE \E c \in Call : Proceed(c) \/ Crash(c)
        BY <2>1, FilesStep, Step DEF Inv
  <2>2. CASE UNCHANGED access
        BY <2>2, Step DEF FilesInv, Readable, access
  <2> QED BY <2>1, <2>2 DEF Next, Login, vars
<1>4. Inv /\ FilesInv /\ [Next]_vars => [Factors!Next]_Factors!vars
  <2> SUFFICES ASSUME Inv, FilesInv, [Next]_vars
               PROVE  Factors!Next \/ UNCHANGED FactorVars
      BY DEF FactorVars, AbstractInstalled, AbstractPresented, AbstractTold, Factors!vars
  <2>1. CASE \E c \in Call : Proceed(c) \/ Crash(c)
        BY <2>1, RunRefines DEF Inv, AccessInv, TypeOK, WindowTypeOK
  <2>2. CASE UNCHANGED access
        BY <2>2
        DEF access, FactorVars, AbstractInstalled, AbstractPresented, AbstractTold,
            Installed, Readable, Presented, Told
  <2> QED BY <2>1, <2>2 DEF Next, Login, vars
<1> QED BY <1>1, <1>2, <1>3, <1>4, PTL DEF Spec, ImplementsFactors, Factors!Spec
=============================================================================

--------------------------- MODULE AuditLogProofs ---------------------------
(***************************************************************************)
(* Theorems about AuditLog for any number of stores and events, from three *)
(* assumptions: none; that one store at a time uses the directory          *)
(* (OneStore); and that besides no write loses exactly its newline (Sound).*)
(* Each is needed for what rests on it.                                    *)
(***************************************************************************)
EXTENDS AuditLog, SequenceTheorems, WellFoundedInduction, TLAPS

OneStore == "overlap" \notin Faults
Sound == OneStore /\ "bare" \notin Faults

-----------------------------------------------------------------------------
(* The hash chain                                                          *)

LEMMA HashType ==
  ASSUME NEW f \in Seq(Line)
  PROVE  LastHash(f) \in Seq(Event)
<1>1. CASE f = <<>>
  BY <1>1 DEF LastHash, Genesis
<1>2. CASE f # <<>>
  <2>1. f[Len(f)] \in Line
    BY <1>2
  <2> QED
    BY <1>2, <2>1 DEF LastHash, Hash, Line
<1> QED
  BY <1>1, <1>2

(* A whole line that carries the hash of the last one keeps the file       *)
(* verifiable.                                                             *)
LEMMA AppendLinked ==
  ASSUME NEW f \in Seq(Line), NEW g \in Seq(Line), Len(g) = Len(f) + 1,
         \A i \in 1..Len(f) : g[i] = f[i],
         \A i \in 1..Len(f) : f[i].shape # "bare",
         g[Len(g)].shape = "whole", g[Len(g)].previous = LastHash(f), Verified(f)
  PROVE  Verified(g)
<1>1. ASSUME NEW i \in 1..Len(f) PROVE Parses(g, i) /\ Linked(g, i)
  <2>1. Parses(f, i) /\ Linked(f, i) /\ f[i].shape # "bare"
    BY DEF Verified, ChainTo
  <2>2. g[i] = f[i] /\ (i # 1 => i - 1 \in 1..Len(f) /\ g[i - 1] = f[i - 1])
    OBVIOUS
  <2> QED
    BY <2>1, <2>2 DEF Parses, Linked
<1>2. Parses(g, Len(g))
  BY DEF Parses
<1>3. Linked(g, Len(g))
  <2>1. CASE f = <<>>
    <3>1. Len(g) = 1 /\ g[Len(g)].previous = Genesis
      BY <2>1 DEF LastHash
    <3> QED
      BY <3>1 DEF Linked
  <2>2. CASE f # <<>>
    <3>1. Len(f) \in 1..Len(f) /\ Len(g) # 1 /\ Len(g) - 1 = Len(f)
      BY <2>2
    <3>2. g[Len(g)].previous = Hash(f[Len(f)]) /\ g[Len(g) - 1] = f[Len(f)]
      BY <2>2, <3>1 DEF LastHash
    <3> QED
      BY <3>1, <3>2 DEF Linked
  <2> QED
    BY <2>1, <2>2
<1>4. \A i \in 1..Len(g) : i \in 1..Len(f) \/ i = Len(g)
  OBVIOUS
<1> QED
  BY <1>1, <1>2, <1>3, <1>4 DEF Verified, ChainTo

(* Whatever is appended, the lines before it that verified still do.       *)
LEMMA AppendKeepsChain ==
  ASSUME NEW f \in Seq(Line), NEW l \in Line, NEW n \in DOMAIN f, ChainTo(f, n),
         \A i \in DOMAIN f : f[i].shape # "bare"
  PROVE  ChainTo(Append(f, l), n)
<1> SUFFICES ASSUME NEW i \in 1..n PROVE Parses(Append(f, l), i) /\ Linked(Append(f, l), i)
  BY DEF ChainTo
<1>1. i \in DOMAIN f /\ Parses(f, i) /\ Linked(f, i)
  BY DEF ChainTo
<1>2. Append(f, l)[i] = f[i] /\ (i # 1 => Append(f, l)[i - 1] = f[i - 1])
  BY <1>1
<1> QED
  BY <1>1, <1>2 DEF Parses, Linked

(* Every nonempty set of naturals has a least member: induction over the   *)
(* lines of a file rests on it.                                            *)
LEMMA Least ==
  ASSUME NEW T \in SUBSET Nat, T # {}
  PROVE  \E n \in T : \A m \in T : n <= m
<1> DEFINE R == OpToRel(<, Nat)
<1>1. IsWellFoundedOn(R, Nat)
  BY NatLessThanWellFounded
<1>2. \A m, n \in T : m < n => <<m, n>> \in R
  BY DEF OpToRel
<1> HIDE DEF R
<1>3. PICK n \in T : \A m \in T : ~ (<<m, n>> \in R)
  BY <1>1, WFMin
<1>4. \A m \in T : ~ (m < n)
  BY <1>2, <1>3
<1> QED
  BY <1>4

(* What a line of a verified file chains to is the events of all the lines *)
(* before it.                                                              *)
History(f, i) ==
  Len(f[i].previous) = i - 1 /\ \A j \in 1..(i - 1) : f[i].previous[j] = f[j].event

LEMMA ChainIsHistory ==
  ASSUME NEW f \in Seq(Line), NEW n \in 0..Len(f), ChainTo(f, n)
  PROVE  \A i \in 1..n : History(f, i)
<1> DEFINE T == {i \in 1..n : ~History(f, i)}
<1> SUFFICES ASSUME T # {} PROVE FALSE
  OBVIOUS
<1>1. PICK i \in T : \A m \in T : i <= m
  <2>1. T \in SUBSET Nat
    OBVIOUS
  <2> HIDE DEF T
  <2> QED
    BY <2>1, Least
<1>2. i \in 1..n /\ ~History(f, i) /\ Linked(f, i) /\ n \in 0..Len(f)
  BY <1>1 DEF ChainTo
<1>3. CASE i = 1
  BY <1>2, <1>3 DEF Linked, Genesis, History
<1>4. CASE i # 1
  <2>1. i - 1 \in 1..n /\ i - 1 \in 1..Len(f)
    BY <1>2, <1>4
  <2>2. History(f, i - 1)
    BY <1>1, <1>2, <2>1
  <2>3. f[i - 1] \in Line
    BY <2>1
  <2>4. f[i - 1].previous \in Seq(Event) /\ f[i - 1].event \in Event
    BY <2>3 DEF Line
  <2>5. f[i].previous = Append(f[i - 1].previous, f[i - 1].event)
    BY <1>2, <1>4 DEF Linked, Hash
  <2>6. Len(f[i - 1].previous) = i - 2
        /\ \A j \in 1..(i - 2) : f[i - 1].previous[j] = f[j].event
    BY <1>2, <2>2 DEF History
  <2>7. Len(f[i].previous) = i - 1
    BY <1>2, <2>4, <2>5, <2>6
  <2>8. ASSUME NEW j \in 1..(i - 1) PROVE f[i].previous[j] = f[j].event
    <3>1. CASE j = i - 1
      BY <1>2, <2>4, <2>5, <2>6, <3>1
    <3>2. CASE j # i - 1
      <4>1. j \in 1..(i - 2)
        BY <1>2, <3>2
      <4> QED
        BY <1>2, <2>4, <2>5, <2>6, <4>1
    <3> QED
      BY <3>1, <3>2
  <2> QED
    BY <1>2, <2>7, <2>8 DEF History
<1> QED
  BY <1>3, <1>4

(* The hash of a line commits to everything before it: two files that both *)
(* verify up to lines of the same hash hold the same events up to there.   *)
(* So whoever keeps the last hash notices every record that is changed,    *)
(* removed, inserted or reordered.                                         *)
THEOREM HashPinsHistory ==
  ASSUME NEW f \in Seq(Line), NEW n \in 1..Len(f), ChainTo(f, n),
         NEW g \in Seq(Line), NEW m \in 1..Len(g), ChainTo(g, m),
         Hash(f[n]) = Hash(g[m])
  PROVE  n = m /\ \A i \in 1..n : f[i].event = g[i].event /\ f[i].previous = g[i].previous
<1>1. /\ \A i \in 1..n : History(f, i)
      /\ \A i \in 1..m : History(g, i)
  BY ChainIsHistory
<1>2. /\ \A i \in 1..Len(f) : f[i].previous \in Seq(Event) /\ f[i].event \in Event
      /\ \A i \in 1..Len(g) : g[i].previous \in Seq(Event) /\ g[i].event \in Event
  <2>1. (\A i \in 1..Len(f) : f[i] \in Line) /\ (\A i \in 1..Len(g) : g[i] \in Line)
    OBVIOUS
  <2> QED
    BY <2>1 DEF Line
<1>3. f[n].previous = g[m].previous /\ f[n].event = g[m].event
  <2> DEFINE p == f[n].previous
             q == g[m].previous
  <2>1. p \in Seq(Event) /\ q \in Seq(Event) /\ f[n].event \in Event /\ g[m].event \in Event
    BY <1>2
  <2>2. Append(p, f[n].event) = Append(q, g[m].event)
    BY DEF Hash
  <2> HIDE DEF p, q
  <2>3. /\ Len(Append(p, f[n].event)) = Len(p) + 1 /\ Len(Append(q, g[m].event)) = Len(q) + 1
        /\ Append(p, f[n].event)[Len(p) + 1] = f[n].event
        /\ Append(q, g[m].event)[Len(q) + 1] = g[m].event
        /\ \A i \in 1..Len(p) : Append(p, f[n].event)[i] = p[i]
        /\ \A i \in 1..Len(q) : Append(q, g[m].event)[i] = q[i]
        /\ Len(p) \in Nat /\ Len(q) \in Nat
    BY <2>1
  <2>4. Len(p) = Len(q) /\ f[n].event = g[m].event /\ \A i \in 1..Len(p) : p[i] = q[i]
    BY <2>2, <2>3
  <2>5. p = q
    BY <2>1, <2>4, SeqEqual
  <2> QED
    BY <2>4, <2>5 DEF p, q
<1>4. n = m
  BY <1>1, <1>3 DEF History
<1>5. ASSUME NEW i \in 1..n PROVE f[i].event = g[i].event
  <2>1. CASE i = n
    BY <1>3, <1>4, <2>1
  <2>2. CASE i # n
    <3>1. i \in 1..(n - 1) /\ History(f, n) /\ History(g, n)
      BY <1>1, <1>4, <2>2
    <3>2. f[n].previous[i] = f[i].event /\ g[n].previous[i] = g[i].event
      BY <3>1 DEF History
    <3> QED
      BY <1>3, <1>4, <3>2
  <2> QED
    BY <2>1, <2>2
<1>6. ASSUME NEW i \in 1..n PROVE f[i].previous = g[i].previous
  <2>1. /\ f[i].previous \in Seq(Event) /\ g[i].previous \in Seq(Event)
        /\ Len(f[i].previous) = i - 1 /\ Len(g[i].previous) = i - 1
        /\ \A j \in 1..(i - 1) : f[i].previous[j] = f[j].event /\ g[i].previous[j] = g[j].event
    BY <1>1, <1>2, <1>4 DEF History
  <2>2. \A j \in 1..Len(f[i].previous) : f[i].previous[j] = g[i].previous[j]
    BY <1>5, <2>1
  <2> QED
    BY <2>1, <2>2, SeqEqual
<1> QED
  BY <1>4, <1>5, <1>6

-----------------------------------------------------------------------------
(* The running append is the head of a queue.                              *)
Running == \A s \in Store : phase[s] # "idle" => queue[s] # <<>>

LEMMA SettleFacts ==
  ASSUME TypeOK, Running, NEW s \in Store, queue[s] # <<>>,
         NEW how \in {"ok", "rejected"}, Settle(s, how)
  PROVE  /\ Head(queue[s]) \in Event
         /\ answer' \in [Event -> {"none", "pending", "ok", "rejected", "lost"}]
         /\ answer'[Head(queue[s])] = how
         /\ \A e \in Event : e # Head(queue[s]) => answer'[e] = answer[e]
         /\ queue' \in [Store -> Seq(Event)]
         /\ queue'[s] = Tail(queue[s])
         /\ phase' \in [Store -> {"idle", "write", "sync"}]
         /\ phase'[s] = "idle"
         /\ \A t \in Store : t # s => queue'[t] = queue[t] /\ phase'[t] = phase[t]
         /\ life' = life /\ tail' = tail
BY DEF TypeOK, Settle

LEMMA NewLineType ==
  ASSUME TypeOK, Running, NEW s \in Store, phase[s] = "write",
         NEW shape \in {"whole", "bare", "torn"}
  PROVE  /\ NewLine(s, shape) \in Line
         /\ Append(file, NewLine(s, shape)) \in Seq(Line)
<1>1. Head(queue[s]) \in Event
  BY DEF TypeOK, Running
<1> QED
  BY <1>1 DEF TypeOK, NewLine, Line

(* Type correctness of the log and of the queues.                          *)
LEMMA TypeRunning == Spec => [](TypeOK /\ Running)
<1>1. Init => TypeOK /\ Running
  BY DEF Init, TypeOK, Genesis, Running
<1>2. TypeOK /\ Running /\ [Next]_vars => TypeOK' /\ Running'
  <2> SUFFICES ASSUME TypeOK, Running, [Next]_vars PROVE TypeOK' /\ Running'
    OBVIOUS
  <2>1. ASSUME NEW s \in Store, Start(s) PROVE TypeOK' /\ Running'
    BY <2>1 DEF Start, TypeOK, Running
  <2>2. ASSUME NEW s \in Store, Stop(s) PROVE TypeOK' /\ Running'
    BY <2>2 DEF Stop, TypeOK, Running
  <2>3. ASSUME NEW s \in Store, NEW e \in Event, Call(s, e) PROVE TypeOK' /\ Running'
    <3>1. Append(queue[s], e) \in Seq(Event) /\ Append(queue[s], e) # <<>>
      <4>1. queue[s] \in Seq(Event)
        BY DEF TypeOK
      <4> QED
        BY <4>1, AppendProperties, Zenon
    <3>2. queue' = [queue EXCEPT ![s] = Append(queue[s], e)] /\ phase' = phase
      BY <2>3 DEF Call
    <3>3. TypeOK'
      BY <2>3, <3>1, <3>2 DEF Call, TypeOK
    <3>4. Running'
      BY <3>1, <3>2 DEF TypeOK, Running
    <3> QED
      BY <3>3, <3>4
  <2>4. ASSUME NEW s \in Store, ReadChain(s) PROVE TypeOK' /\ Running'
    <3>1. CASE Settle(s, "rejected")
      <4>1. queue[s] # <<>> /\ file' = file
        BY <2>4 DEF ReadChain
      <4>2. TypeOK'
        BY <3>1, <4>1, SettleFacts DEF TypeOK
      <4>3. Running'
        BY <3>1, <4>1, SettleFacts DEF Running
      <4> QED
        BY <4>2, <4>3
    <3>2. CASE UNCHANGED <<life, queue, answer>> /\ phase' = [phase EXCEPT ![s] = "write"]
               /\ tail' = [tail EXCEPT ![s] = LastHash(file)]
      BY <2>4, <3>2, HashType DEF ReadChain, TypeOK, Running
    <3> QED
      BY <2>4, <3>1, <3>2 DEF ReadChain
  <2>5. ASSUME NEW s \in Store, Write(s) PROVE TypeOK' /\ Running'
    <3>1. CASE file' = Append(file, NewLine(s, "whole")) /\ phase' = [phase EXCEPT ![s] = "sync"]
               /\ UNCHANGED <<life, queue, tail, answer>>
      BY <2>5, <3>1, NewLineType DEF Write, TypeOK, Running
    <3>2. ASSUME NEW shape \in {"torn", "bare"}, file' = Append(file, NewLine(s, shape)),
                 Settle(s, "rejected")
          PROVE  TypeOK' /\ Running'
      BY <2>5, <3>2, SettleFacts, NewLineType DEF Write, TypeOK, Running
    <3> QED
      BY <2>5, <3>1, <3>2 DEF Write
  <2>6. ASSUME NEW s \in Store, Sync(s) PROVE TypeOK' /\ Running'
    BY <2>6, SettleFacts DEF Sync, TypeOK, Running
  <2>q. CASE UNCHANGED vars
    BY <2>q DEF vars, TypeOK, Running
  <2> QED
    BY <2>1, <2>2, <2>3, <2>4, <2>5, <2>6, <2>q DEF Next, Work
<1> QED
  BY <1>1, <1>2, PTL DEF Spec

(* Every line, queue and answer is one the adapter can produce.            *)
THEOREM TypeCorrect == Spec => []TypeOK
BY TypeRunning, PTL

-----------------------------------------------------------------------------
(* Without any assumption: what becomes of the calls                       *)

(* An event that waits has no line, unless it is the one being synced.     *)
Trace ==
  /\ \A i \in DOMAIN file : answer[file[i].event] # "none"
  /\ \A s \in Store : \A k \in DOMAIN queue[s], i \in DOMAIN file :
       file[i].event = queue[s][k] => k = 1 /\ phase[s] = "sync"
  /\ \A s \in Store : phase[s] = "sync" =>
       \E i \in DOMAIN file : file[i].event = queue[s][1] /\ file[i].shape = "whole"

CallInv == TypeOK /\ Running /\ WaitingIsQueued /\ RecordedOnce /\ Trace

LEMMA QueueFacts ==
  ASSUME TypeOK, Running, NEW s \in Store
  PROVE  /\ queue[s] \in Seq(Event) /\ Len(queue[s]) \in Nat
         /\ DOMAIN queue[s] = 1..Len(queue[s])
         /\ \A i \in DOMAIN queue[s] : queue[s][i] \in Event
         /\ queue[s] # <<>> => 1 \in DOMAIN queue[s] /\ Head(queue[s]) = queue[s][1]
         /\ phase[s] # "idle" => queue[s] # <<>>
<1>1. queue[s] \in Seq(Event)
  BY DEF TypeOK
<1> QED
  BY <1>1 DEF Running

LEMMA LineFacts ==
  ASSUME TypeOK
  PROVE  /\ file \in Seq(Line) /\ Len(file) \in Nat /\ DOMAIN file = 1..Len(file)
         /\ \A i \in DOMAIN file : file[i] \in Line /\ file[i].event \in Event
<1>1. file \in Seq(Line)
  BY DEF TypeOK
<1>2. \A i \in DOMAIN file : file[i] \in Line
  BY <1>1
<1> QED
  BY <1>1, <1>2 DEF Line

(* What is queued after the head has settled was queued one place behind.  *)
LEMMA SettleQueue ==
  ASSUME TypeOK, Running, NEW s \in Store, queue[s] # <<>>,
         NEW how \in {"ok", "rejected"}, Settle(s, how)
  PROVE  /\ DOMAIN queue'[s] = 1..(Len(queue[s]) - 1)
         /\ \A i \in DOMAIN queue'[s] : i + 1 \in DOMAIN queue[s] /\ queue'[s][i] = queue[s][i + 1]
         /\ \A i \in DOMAIN queue[s] : i # 1 => i - 1 \in DOMAIN queue'[s]
         /\ \A t \in Store : t # s => queue'[t] = queue[t] /\ phase'[t] = phase[t]
         /\ phase'[s] = "idle"
         /\ answer'[queue[s][1]] = how
         /\ \A e \in Event : e # queue[s][1] => answer'[e] = answer[e]
<1>1. queue[s] \in Seq(Event) /\ Head(queue[s]) = queue[s][1]
  BY QueueFacts
<1>2. queue'[s] = Tail(queue[s])
  BY SettleFacts
<1>3. /\ DOMAIN Tail(queue[s]) = 1..(Len(queue[s]) - 1)
      /\ \A i \in 1..(Len(queue[s]) - 1) : Tail(queue[s])[i] = queue[s][i + 1]
      /\ DOMAIN queue[s] = 1..Len(queue[s]) /\ Len(queue[s]) \in Nat
  BY <1>1
<1> QED
  BY <1>1, <1>2, <1>3, SettleFacts

LEMMA SettleWaiting ==
  ASSUME TypeOK, Running, WaitingIsQueued, NEW s \in Store, queue[s] # <<>>,
         NEW how \in {"ok", "rejected"}, Settle(s, how)
  PROVE  WaitingIsQueued'
<1> DEFINE Old(t, i) == IF t = s THEN i + 1 ELSE i
<1>1. ASSUME NEW t \in Store, NEW i \in DOMAIN queue'[t]
      PROVE  /\ Old(t, i) \in DOMAIN queue[t] /\ queue'[t][i] = queue[t][Old(t, i)]
             /\ t = s => Old(t, i) # 1
             /\ i \in Nat /\ queue[t][Old(t, i)] \in Event
  <2>1. CASE t = s
    BY <2>1, SettleQueue, QueueFacts
  <2>2. CASE t # s
    BY <2>2, SettleQueue, QueueFacts
  <2> QED
    BY <2>1, <2>2
<1>2. 1 \in DOMAIN queue[s] /\ queue[s][1] \in Event
  BY QueueFacts
<1>3. ASSUME NEW e \in Event, answer'[e] = "pending" PROVE \E t \in Store : (e \in Queued(t))'
  <2>1. e # queue[s][1] /\ answer[e] = "pending"
    BY <1>3, SettleQueue
  <2>w. PICK t \in Store : e \in Queued(t)
    BY <2>1 DEF WaitingIsQueued
  <2>2. PICK i \in DOMAIN queue[t] : e = queue[t][i]
    BY <2>w DEF Queued
  <2>3. CASE t = s
    <3>1. i # 1 /\ i - 1 \in DOMAIN queue'[s] /\ i \in Nat
      BY <2>1, <2>2, <2>3, SettleQueue, QueueFacts
    <3>2. queue'[s][i - 1] = queue[s][(i - 1) + 1] /\ (i - 1) + 1 = i
      BY <3>1, SettleQueue
    <3> QED
      BY <2>2, <2>3, <3>1, <3>2 DEF Queued
  <2>4. CASE t # s
    BY <2>2, <2>4, SettleQueue DEF Queued
  <2> QED
    BY <2>3, <2>4
<1>4. ASSUME NEW t \in Store, NEW i \in DOMAIN queue'[t] PROVE answer'[queue'[t][i]] = "pending"
  <2>1. queue'[t][i] # queue[s][1]
    BY <1>1, <1>2 DEF WaitingIsQueued
  <2> QED
    BY <1>1, <2>1, SettleQueue DEF WaitingIsQueued
<1>5. ASSUME NEW t \in Store, NEW u \in Store, NEW i \in DOMAIN queue'[t],
             NEW j \in DOMAIN queue'[u], queue'[t][i] = queue'[u][j]
      PROVE  t = u /\ i = j
  <2>1. t = u /\ Old(t, i) = Old(u, j)
    BY <1>1, <1>5 DEF WaitingIsQueued
  <2> QED
    BY <1>1, <2>1
<1> QED
  BY <1>3, <1>4, <1>5 DEF WaitingIsQueued

(* When the running append settles, its event waits no longer; it may be   *)
(* answered with success once its line is there.                           *)
LEMMA SettleCall ==
  ASSUME CallInv, NEW s \in Store, queue[s] # <<>>,
         NEW how \in {"ok", "rejected"}, Settle(s, how), file' = file,
         how = "ok" => phase[s] = "sync"
  PROVE  WaitingIsQueued' /\ RecordedOnce' /\ Trace'
<1>1. TypeOK /\ Running /\ WaitingIsQueued /\ RecordedOnce /\ Trace
  BY DEF CallInv
<1>2. WaitingIsQueued'
  BY <1>1, SettleWaiting
<1>3. RecordedOnce'
  BY <1>1, SettleQueue DEF RecordedOnce, Trace
<1>4. \A i \in DOMAIN file : file[i].event \in Event
  BY <1>1, LineFacts
<1>5. \A i \in DOMAIN file : answer'[file[i].event] # "none"
  BY <1>1, <1>4, SettleQueue DEF Trace
<1>6. ASSUME NEW t \in Store, NEW k \in DOMAIN queue'[t], NEW i \in DOMAIN file,
             file[i].event = queue'[t][k]
      PROVE  k = 1 /\ phase'[t] = "sync"
  <2>1. CASE t = s
    <3>1. k + 1 \in DOMAIN queue[s] /\ queue'[s][k] = queue[s][k + 1] /\ k \in Nat /\ k >= 1
      BY <1>1, <2>1, SettleQueue, QueueFacts
    <3>2. k + 1 = 1
      BY <1>1, <1>6, <2>1, <3>1 DEF Trace
    <3> QED
      BY <3>1, <3>2
  <2>2. CASE t # s
    BY <1>1, <1>6, <2>2, SettleQueue DEF Trace
  <2> QED
    BY <2>1, <2>2
<1>7. \A t \in Store : phase'[t] = "sync" =>
        \E i \in DOMAIN file : file[i].event = queue'[t][1] /\ file[i].shape = "whole"
  BY <1>1, SettleQueue DEF Trace
<1>8. Trace'
  BY <1>5, <1>6, <1>7 DEF Trace
<1> QED
  BY <1>2, <1>3, <1>8

(* The running append puts the one line of its event at the end.           *)
LEMMA WriteRecords ==
  ASSUME CallInv, NEW s \in Store, phase[s] = "write", NEW shape \in {"whole", "bare", "torn"},
         file' = Append(file, NewLine(s, shape))
  PROVE  /\ queue[s] # <<>>
         /\ DOMAIN file' = DOMAIN file \cup {Len(file) + 1}
         /\ file'[Len(file) + 1].event = queue[s][1] /\ file'[Len(file) + 1].shape = shape
         /\ Len(file) + 1 \notin DOMAIN file
         /\ \A i \in DOMAIN file : file'[i] = file[i] /\ file[i].event # queue[s][1]
<1>1. TypeOK /\ Running /\ Trace
  BY DEF CallInv
<1>2. queue[s] # <<>> /\ 1 \in DOMAIN queue[s] /\ Head(queue[s]) = queue[s][1]
  BY <1>1, QueueFacts
<1>3. NewLine(s, shape) \in Line /\ file \in Seq(Line)
  BY <1>1, NewLineType DEF TypeOK
<1>4. NewLine(s, shape).event = queue[s][1] /\ NewLine(s, shape).shape = shape
  BY <1>2 DEF NewLine
<1>5. \A i \in DOMAIN file : file[i].event # queue[s][1]
  BY <1>1, <1>2 DEF Trace
<1> HIDE DEF NewLine
<1> QED
  BY <1>2, <1>3, <1>4, <1>5

LEMMA CallStep ==
  ASSUME CallInv, TypeOK', Running', [Next]_vars
  PROVE  CallInv'
<1>0. TypeOK /\ Running /\ WaitingIsQueued /\ RecordedOnce /\ Trace
  BY DEF CallInv
<1> SUFFICES WaitingIsQueued' /\ RecordedOnce' /\ Trace'
  BY DEF CallInv
<1>1. ASSUME NEW s \in Store, Start(s) PROVE WaitingIsQueued' /\ RecordedOnce' /\ Trace'
  BY <1>0, <1>1 DEF Start, WaitingIsQueued, Queued, RecordedOnce, Trace
<1>2. ASSUME NEW s \in Store, Stop(s) PROVE WaitingIsQueued' /\ RecordedOnce' /\ Trace'
  <2>1. /\ queue'[s] = <<>> /\ phase'[s] = "idle" /\ file' = file
        /\ \A t \in Store : t # s => queue'[t] = queue[t] /\ phase'[t] = phase[t]
        /\ \A e \in Event : answer'[e] = IF e \in Queued(s) THEN "lost" ELSE answer[e]
    BY <1>0, <1>2 DEF Stop, TypeOK
  <2>2. DOMAIN queue'[s] = {}
    BY <2>1
  <2>3. \A t \in Store : t # s => \A i \in DOMAIN queue[t] :
          queue[t][i] \in Event /\ queue[t][i] \notin Queued(s)
    BY <1>0, QueueFacts DEF WaitingIsQueued, Queued
  <2>4. ASSUME NEW e \in Event, answer'[e] = "pending" PROVE \E t \in Store : (e \in Queued(t))'
    <3>1. e \notin Queued(s) /\ answer[e] = "pending"
      BY <2>1, <2>4
    <3>2. PICK t \in Store : e \in Queued(t)
      BY <1>0, <3>1 DEF WaitingIsQueued
    <3> QED
      BY <2>1, <3>1, <3>2 DEF Queued
  <2>5. WaitingIsQueued'
    BY <1>0, <2>1, <2>2, <2>3, <2>4 DEF WaitingIsQueued
  <2>6. RecordedOnce'
    BY <1>0, <2>1 DEF RecordedOnce
  <2>7. Trace'
    BY <1>0, <2>1, <2>2, LineFacts DEF Trace
  <2> QED
    BY <2>5, <2>6, <2>7
<1>3. ASSUME NEW s \in Store, NEW e \in Event, Call(s, e)
      PROVE  WaitingIsQueued' /\ RecordedOnce' /\ Trace'
  <2>1. /\ queue[s] \in Seq(Event) /\ queue'[s] = Append(queue[s], e)
        /\ answer[e] = "none" /\ answer'[e] = "pending"
        /\ \A d \in Event : d # e => answer'[d] = answer[d]
        /\ \A t \in Store : t # s => queue'[t] = queue[t]
        /\ phase' = phase /\ file' = file
    BY <1>0, <1>3 DEF Call, TypeOK
  <2>2. /\ DOMAIN queue'[s] = DOMAIN queue[s] \cup {Len(queue[s]) + 1}
        /\ queue'[s][Len(queue[s]) + 1] = e
        /\ \A i \in DOMAIN queue[s] : queue'[s][i] = queue[s][i]
        /\ DOMAIN queue[s] = 1..Len(queue[s]) /\ Len(queue[s]) \in Nat
    BY <2>1
  <2>3. \A t \in Store : \A i \in DOMAIN queue[t] : queue[t][i] # e /\ queue[t][i] \in Event
    BY <1>0, <2>1, QueueFacts DEF WaitingIsQueued
  <2>4. \A i \in DOMAIN file : file[i].event # e /\ file[i].event \in Event
    BY <1>0, <2>1, LineFacts DEF Trace
  <2>5. ASSUME NEW d \in Event, answer'[d] = "pending" PROVE \E t \in Store : (d \in Queued(t))'
    <3>1. CASE d = e
      BY <2>2, <3>1 DEF Queued
    <3>2. CASE d # e
      <4>1. PICK t \in Store : d \in Queued(t)
        BY <1>0, <2>1, <2>5, <3>2 DEF WaitingIsQueued
      <4> QED
        BY <2>1, <2>2, <4>1 DEF Queued
    <3> QED
      BY <3>1, <3>2
  <2>6. \A t \in Store : \A i \in DOMAIN queue'[t] :
          \/ i \in DOMAIN queue[t] /\ queue'[t][i] = queue[t][i]
          \/ t = s /\ i = Len(queue[s]) + 1 /\ queue'[t][i] = e
    BY <2>1, <2>2
  <2>7. WaitingIsQueued'
    BY <1>0, <2>1, <2>3, <2>5, <2>6 DEF WaitingIsQueued
  <2>8. RecordedOnce'
    BY <1>0, <2>1, <2>4 DEF RecordedOnce
  <2>9. ASSUME NEW t \in Store, phase[t] = "sync" PROVE 1 \in DOMAIN queue[t]
    BY <1>0, <2>9, QueueFacts
  <2>10. \A t \in Store : phase[t] = "sync" => queue'[t][1] = queue[t][1]
    BY <2>1, <2>2, <2>9
  <2>11. Trace'
    BY <1>0, <2>1, <2>4, <2>6, <2>10 DEF Trace
  <2> QED
    BY <2>7, <2>8, <2>11
<1>4. ASSUME NEW s \in Store, ReadChain(s) PROVE WaitingIsQueued' /\ RecordedOnce' /\ Trace'
  <2>1. CASE Settle(s, "rejected")
    BY <1>4, <2>1, SettleCall DEF ReadChain
  <2>2. CASE UNCHANGED <<life, queue, answer>> /\ phase' = [phase EXCEPT ![s] = "write"]
    <3>1. file' = file /\ phase[s] = "idle"
      BY <1>4 DEF ReadChain
    <3> QED
      BY <1>0, <2>2, <3>1 DEF WaitingIsQueued, Queued, RecordedOnce, Trace, TypeOK
  <2> QED
    BY <1>4, <2>1, <2>2 DEF ReadChain
<1>5. ASSUME NEW s \in Store, Write(s) PROVE WaitingIsQueued' /\ RecordedOnce' /\ Trace'
  <2>0. phase[s] = "write"
    BY <1>5 DEF Write
  <2>1. CASE file' = Append(file, NewLine(s, "whole")) /\ phase' = [phase EXCEPT ![s] = "sync"]
             /\ UNCHANGED <<queue, answer>>
    <3>1. /\ DOMAIN file' = DOMAIN file \cup {Len(file) + 1}
          /\ file'[Len(file) + 1].event = queue[s][1] /\ file'[Len(file) + 1].shape = "whole"
          /\ Len(file) + 1 \notin DOMAIN file
          /\ \A i \in DOMAIN file : file'[i] = file[i] /\ file[i].event # queue[s][1]
          /\ 1 \in DOMAIN queue[s]
      BY <1>0, <2>0, <2>1, WriteRecords, QueueFacts
    <3>2. WaitingIsQueued'
      BY <1>0, <2>1 DEF WaitingIsQueued, Queued
    <3>3. RecordedOnce'
      BY <1>0, <2>1, <3>1 DEF RecordedOnce
    <3>4. answer[queue[s][1]] = "pending"
      BY <1>0, <3>1 DEF WaitingIsQueued
    <3>5. \A t \in Store : \A k \in DOMAIN queue[t] :
            queue[s][1] = queue[t][k] => t = s /\ k = 1
      BY <1>0, <3>1 DEF WaitingIsQueued
    <3>6. phase'[s] = "sync" /\ \A t \in Store : t # s => phase'[t] = phase[t]
      BY <1>0, <2>1 DEF TypeOK
    <3>7. Trace'
      BY <1>0, <2>0, <2>1, <3>1, <3>4, <3>5, <3>6 DEF Trace
    <3> QED
      BY <3>2, <3>3, <3>7
  <2>2. ASSUME NEW shape \in {"torn", "bare"}, file' = Append(file, NewLine(s, shape)),
               Settle(s, "rejected")
        PROVE  WaitingIsQueued' /\ RecordedOnce' /\ Trace'
    <3>1. /\ queue[s] # <<>>
          /\ DOMAIN file' = DOMAIN file \cup {Len(file) + 1}
          /\ file'[Len(file) + 1].event = queue[s][1]
          /\ Len(file) + 1 \notin DOMAIN file
          /\ \A i \in DOMAIN file : file'[i] = file[i] /\ file[i].event # queue[s][1]
      BY <2>0, <2>2, WriteRecords
    <3>2. WaitingIsQueued'
      BY <1>0, <2>2, <3>1, SettleWaiting
    <3>3. RecordedOnce'
      <4>1. \A i, j \in DOMAIN file' : file'[i].event = file'[j].event => i = j
        BY <1>0, <3>1 DEF RecordedOnce
      <4>2. \A e \in Event : answer'[e] = "ok" => answer[e] = "ok"
        BY <1>0, <2>2, <3>1, SettleQueue
      <4>3. \A e \in Event : answer'[e] = "ok" =>
              \E i \in DOMAIN file' : file'[i].event = e /\ file'[i].shape = "whole"
        BY <1>0, <3>1, <4>2 DEF RecordedOnce
      <4> QED
        BY <4>1, <4>3 DEF RecordedOnce
    <3>4. \A i \in DOMAIN file' : answer'[file'[i].event] # "none"
      BY <1>0, <2>2, <3>1, SettleQueue, LineFacts DEF Trace
    <3>5. ASSUME NEW t \in Store, NEW k \in DOMAIN queue'[t], NEW i \in DOMAIN file',
                 file'[i].event = queue'[t][k]
          PROVE  k = 1 /\ phase'[t] = "sync"
      <4>1. answer'[queue'[t][k]] = "pending" /\ answer'[queue[s][1]] = "rejected"
        BY <1>0, <2>2, <3>1, <3>2, SettleQueue DEF WaitingIsQueued
      <4>2. i \in DOMAIN file /\ file'[i] = file[i]
        BY <3>1, <3>5, <4>1
      <4>3. CASE t = s
        <5>1. k + 1 \in DOMAIN queue[s] /\ queue'[s][k] = queue[s][k + 1] /\ k \in Nat /\ k >= 1
          BY <1>0, <2>2, <3>1, <4>3, SettleQueue, QueueFacts
        <5>2. k + 1 = 1
          BY <1>0, <3>5, <4>2, <4>3, <5>1 DEF Trace
        <5> QED
          BY <5>1, <5>2
      <4>4. CASE t # s
        <5>1. queue'[t] = queue[t] /\ phase'[t] = phase[t]
          BY <1>0, <2>2, <3>1, <4>4, SettleQueue
        <5> QED
          BY <1>0, <3>5, <4>2, <5>1 DEF Trace
      <4> QED
        BY <4>3, <4>4
    <3>6. ASSUME NEW t \in Store, phase'[t] = "sync"
          PROVE  \E i \in DOMAIN file' : file'[i].event = queue'[t][1] /\ file'[i].shape = "whole"
      BY <1>0, <2>2, <3>1, <3>6, SettleQueue DEF Trace
    <3>7. Trace'
      BY <3>4, <3>5, <3>6 DEF Trace
    <3> QED
      BY <3>2, <3>3, <3>7
  <2> QED
    BY <1>5, <2>1, <2>2 DEF Write
<1>6. ASSUME NEW s \in Store, Sync(s) PROVE WaitingIsQueued' /\ RecordedOnce' /\ Trace'
  <2>1. PICK how \in {"ok", "rejected"} : Settle(s, how)
    BY <1>6 DEF Sync
  <2>2. file' = file /\ phase[s] = "sync" /\ queue[s] # <<>>
    BY <1>0, <1>6, QueueFacts DEF Sync
  <2> QED
    BY <2>1, <2>2, SettleCall
<1>q. CASE UNCHANGED vars
  BY <1>0, <1>q DEF vars, WaitingIsQueued, Queued, RecordedOnce, Trace
<1> QED
  BY <1>1, <1>2, <1>3, <1>4, <1>5, <1>6, <1>q DEF Next, Work

LEMMA CallInvariance == Spec => []CallInv
<1>1. Init => WaitingIsQueued /\ RecordedOnce /\ Trace
  BY DEF Init, WaitingIsQueued, Queued, RecordedOnce, Trace
<1>2. CallInv /\ TypeOK' /\ Running' /\ [Next]_vars => CallInv'
  BY CallStep
<1>3. Init /\ TypeOK /\ Running => CallInv
  BY <1>1 DEF CallInv
<1> QED
  BY <1>2, <1>3, TypeRunning, PTL DEF Spec

(* No call is forgotten and none settles twice, whatever fails.            *)
THEOREM WaitersAreQueued == Spec => []WaitingIsQueued
<1>1. CallInv => WaitingIsQueued
  BY DEF CallInv
<1> QED
  BY <1>1, CallInvariance, PTL

(* Every acknowledged event has its one line, whatever fails.              *)
THEOREM EventsAreRecordedOnce == Spec => []RecordedOnce
<1>1. CallInv => RecordedOnce
  BY DEF CallInv
<1> QED
  BY <1>1, CallInvariance, PTL

-----------------------------------------------------------------------------
(* One store at a time: only its own running append can write, and what    *)
(* that append has read is still the file.                                 *)

OneLive ==
  /\ \A s, t \in Store : life[s] = "live" /\ life[t] = "live" => s = t
  /\ \A s \in Store : queue[s] # <<>> => life[s] = "live"

WriteIsCurrent ==
  \A s \in Store : phase[s] = "write" => Verified(file) /\ tail[s] = LastHash(file)

StoreInv == TypeOK /\ Running /\ OneLive /\ WriteIsCurrent /\ ChainUnbroken

LEMMA OneRunning ==
  ASSUME Running, OneLive, NEW s \in Store, NEW t \in Store, phase[s] # "idle", phase[t] # "idle"
  PROVE  s = t
BY DEF Running, OneLive

(* What a write leaves: the lines before it, and one more.                 *)
LEMMA AppendFacts ==
  ASSUME TypeOK, NEW l \in Line, file' = Append(file, l)
  PROVE  /\ file' \in Seq(Line)
         /\ Len(file') = Len(file) + 1
         /\ file'[Len(file')] = l
         /\ \A i \in 1..Len(file) : file'[i] = file[i]
         /\ 1..Len(file') = 1..Len(file) \cup {Len(file')}
         /\ DOMAIN file' = 1..Len(file') /\ Len(file) \in Nat
<1>1. file \in Seq(Line)
  BY DEF TypeOK
<1> QED
  BY <1>1

LEMMA StoreStep ==
  ASSUME OneStore, StoreInv, TypeOK', Running', [Next]_vars
  PROVE  StoreInv'
<1>0. TypeOK /\ Running /\ OneLive /\ WriteIsCurrent /\ ChainUnbroken
  BY DEF StoreInv
<1> SUFFICES OneLive' /\ WriteIsCurrent' /\ ChainUnbroken'
  BY DEF StoreInv
<1>same. ASSUME file' = file PROVE ChainUnbroken'
  BY <1>0, <1>same DEF ChainUnbroken
<1>1. ASSUME NEW s \in Store, Start(s) PROVE OneLive' /\ WriteIsCurrent' /\ ChainUnbroken'
  BY <1>0, <1>1, <1>same DEF Start, OneStore, TypeOK, OneLive, WriteIsCurrent
<1>2. ASSUME NEW s \in Store, Stop(s) PROVE OneLive' /\ WriteIsCurrent' /\ ChainUnbroken'
  BY <1>0, <1>2, <1>same DEF Stop, TypeOK, OneLive, WriteIsCurrent
<1>3. ASSUME NEW s \in Store, NEW e \in Event, Call(s, e)
      PROVE  OneLive' /\ WriteIsCurrent' /\ ChainUnbroken'
  BY <1>0, <1>3, <1>same DEF Call, TypeOK, OneLive, WriteIsCurrent
<1>4. ASSUME NEW s \in Store, queue[s] # <<>>, NEW how \in {"ok", "rejected"}, Settle(s, how)
      PROVE  OneLive'
  BY <1>0, <1>4, SettleFacts DEF OneLive
<1>5. ASSUME NEW s \in Store, ReadChain(s) PROVE OneLive' /\ WriteIsCurrent' /\ ChainUnbroken'
  <2>0. queue[s] # <<>> /\ file' = file
    BY <1>5 DEF ReadChain
  <2>1. CASE Settle(s, "rejected")
    <3>1. WriteIsCurrent'
      BY <1>0, <2>0, <2>1, SettleFacts DEF WriteIsCurrent
    <3> QED
      BY <1>4, <1>same, <2>0, <2>1, <3>1
  <2>2. CASE Verified(file) /\ UNCHANGED <<life, queue, answer>>
             /\ phase' = [phase EXCEPT ![s] = "write"]
             /\ tail' = [tail EXCEPT ![s] = LastHash(file)]
    BY <1>0, <1>same, <2>0, <2>2 DEF TypeOK, OneLive, WriteIsCurrent
  <2> QED
    BY <1>5, <2>1, <2>2 DEF ReadChain
<1>6. ASSUME NEW s \in Store, Write(s) PROVE OneLive' /\ WriteIsCurrent' /\ ChainUnbroken'
  <2>0. /\ phase[s] = "write" /\ queue[s] # <<>> /\ Verified(file)
        /\ \A t \in Store : t # s => phase[t] = "idle"
    BY <1>0, <1>6, OneRunning DEF Write, Running, WriteIsCurrent
  <2>1. /\ \A t \in Store : phase'[t] # "write"
        /\ OneLive'
        /\ \E shape \in {"whole", "bare", "torn"} : file' = Append(file, NewLine(s, shape))
    <3>1. CASE file' = Append(file, NewLine(s, "whole")) /\ phase' = [phase EXCEPT ![s] = "sync"]
               /\ UNCHANGED <<life, queue>>
      BY <1>0, <2>0, <3>1 DEF TypeOK, OneLive
    <3>2. ASSUME NEW shape \in {"torn", "bare"}, file' = Append(file, NewLine(s, shape)),
                 Settle(s, "rejected")
          PROVE  /\ \A t \in Store : phase'[t] # "write"
                 /\ OneLive'
                 /\ \E sh \in {"whole", "bare", "torn"} : file' = Append(file, NewLine(s, sh))
      <4>1. \A t \in Store : phase'[t] # "write"
        BY <1>0, <2>0, <3>2, SettleFacts
      <4> QED
        BY <1>4, <2>0, <3>2, <4>1
    <3> QED
      BY <1>6, <3>1, <3>2 DEF Write
  <2>2. PICK shape \in {"whole", "bare", "torn"} : file' = Append(file, NewLine(s, shape))
    BY <2>1
  <2>3. /\ NewLine(s, shape) \in Line /\ NewLine(s, shape).shape = shape
        /\ NewLine(s, shape).previous = tail[s] /\ tail[s] = LastHash(file)
    BY <1>0, <2>0, NewLineType DEF NewLine, WriteIsCurrent
  <2>4. ASSUME \A i \in DOMAIN file' : file'[i].shape = "whole" PROVE Verified(file')
    <3>1. \A i \in 1..Len(file) : file[i].shape = "whole"
      BY <1>0, <2>2, <2>3, <2>4, AppendFacts
    <3>2. file'[Len(file')].shape = "whole" /\ file'[Len(file')].previous = LastHash(file)
      BY <1>0, <2>2, <2>3, <2>4, AppendFacts
    <3>3. file \in Seq(Line) /\ file' \in Seq(Line) /\ Len(file') = Len(file) + 1
          /\ \A i \in 1..Len(file) : file'[i] = file[i]
      BY <1>0, <2>2, <2>3, AppendFacts DEF TypeOK
    <3> QED
      BY <2>0, <3>1, <3>2, <3>3, AppendLinked
  <2>5. WriteIsCurrent' /\ ChainUnbroken'
    BY <2>1, <2>4 DEF WriteIsCurrent, ChainUnbroken
  <2> QED
    BY <2>1, <2>5
<1>7. ASSUME NEW s \in Store, Sync(s) PROVE OneLive' /\ WriteIsCurrent' /\ ChainUnbroken'
  <2>1. queue[s] # <<>> /\ file' = file
    BY <1>0, <1>7 DEF Sync, Running
  <2>2. PICK how \in {"ok", "rejected"} : Settle(s, how)
    BY <1>7 DEF Sync
  <2>3. WriteIsCurrent'
    BY <1>0, <2>1, <2>2, SettleFacts DEF WriteIsCurrent
  <2> QED
    BY <1>4, <1>same, <2>1, <2>2, <2>3
<1>q. CASE UNCHANGED vars
  BY <1>0, <1>q, <1>same DEF vars, OneLive, WriteIsCurrent
<1> QED
  BY <1>1, <1>2, <1>3, <1>5, <1>6, <1>7, <1>q DEF Next, Work

LEMMA StoreInvariance == ASSUME OneStore PROVE Spec => []StoreInv
<1>1. Init => OneLive /\ WriteIsCurrent /\ ChainUnbroken
  BY DEF Init, OneLive, WriteIsCurrent, ChainUnbroken, Verified, ChainTo
<1>2. StoreInv /\ TypeOK' /\ Running' /\ [Next]_vars => StoreInv'
  BY StoreStep
<1>3. Init /\ TypeOK /\ Running => StoreInv
  BY <1>1 DEF StoreInv
<1> QED
  BY <1>2, <1>3, TypeRunning, PTL DEF Spec

(* As long as no write is torn and no newline lost the whole chain         *)
(* verifies.                                                               *)
THEOREM ChainStaysUnbroken == ASSUME OneStore PROVE Spec => []ChainUnbroken
<1>1. StoreInv => ChainUnbroken
  BY DEF StoreInv
<1> QED
  BY <1>1, StoreInvariance, PTL

(* A log that does not verify is never written again.                      *)
THEOREM DamageSealsTheLog == ASSUME OneStore PROVE Spec => DamageSeals
<1>1. StoreInv /\ [Next]_vars => [~Verified(file) => file' = file]_vars
  <2> SUFFICES ASSUME StoreInv, Next, ~Verified(file) PROVE file' = file
    BY DEF vars
  <2> QED
    BY DEF StoreInv, WriteIsCurrent, Next, Start, Stop, Call, Work, ReadChain, Write, Sync
<1> QED
  BY <1>1, StoreInvariance, PTL DEF Spec, DamageSeals

-----------------------------------------------------------------------------
(* One store at a time and no line without its newline: only the last line *)
(* can be bad, and then nothing follows it.                                *)

TornLast ==
  \A i \in 1..Len(file) :
    /\ file[i].shape # "bare"
    /\ i # Len(file) => file[i].shape = "whole"

SyncIsCurrent ==
  \A s \in Store : phase[s] = "sync" =>
    /\ Verified(file)
    /\ Len(file) \in 1..Len(file)
    /\ file[Len(file)].event = queue[s][1]

LogInv == TornLast /\ SyncIsCurrent /\ AcknowledgedIsChained

IInv == StoreInv /\ CallInv /\ LogInv

LEMMA DamagedOrVerified ==
  ASSUME TypeOK, TornLast, ChainUnbroken
  PROVE  (Damaged(file) <=> ~Verified(file))
<1>1. file \in Seq(Line) /\ DOMAIN file = 1..Len(file) /\ Len(file) \in Nat
  BY DEF TypeOK
<1>2. ASSUME Damaged(file) PROVE ~Verified(file)
  <2>1. Len(file) \in 1..Len(file) /\ file[Len(file)] \in Line
    BY <1>1, <1>2 DEF Damaged
  <2>2. file[Len(file)].shape = "torn"
    BY <1>2, <2>1 DEF Damaged, TornLast, Line
  <2> QED
    BY <2>1, <2>2 DEF Verified, ChainTo, Parses
<1>3. ASSUME ~Damaged(file) PROVE Verified(file)
  <2>1. \A i \in DOMAIN file : file[i].shape = "whole"
    <3>1. ASSUME NEW i \in 1..Len(file) PROVE file[i].shape = "whole"
      <4>1. file # <<>>
        BY <1>1
      <4>2. file[Len(file)].shape = "whole"
        BY <1>3, <4>1 DEF Damaged
      <4> QED
        BY <4>2 DEF TornLast
    <3> QED
      BY <1>1, <3>1
  <2> QED
    BY <2>1 DEF ChainUnbroken
<1> QED
  BY <1>2, <1>3

LEMMA VerifiedIsWhole ==
  ASSUME TornLast, Verified(file), NEW i \in 1..Len(file)
  PROVE  file[i].shape = "whole"
BY DEF TornLast, Verified, ChainTo, Parses

(* An acknowledged event survives every write.                             *)
LEMMA AcknowledgedStays ==
  ASSUME TypeOK, LogInv, NEW l \in Line, file' = Append(file, l), NEW e \in Event,
         answer[e] = "ok"
  PROVE  \E i \in DOMAIN file' : file'[i].event = e /\ ChainTo(file', i)
<1>1. PICK i \in DOMAIN file : file[i].event = e /\ ChainTo(file, i)
  BY DEF LogInv, AcknowledgedIsChained
<1>2. file \in Seq(Line) /\ i \in 1..Len(file) /\ DOMAIN file = 1..Len(file)
  BY <1>1 DEF TypeOK
<1>3. ChainTo(file', i)
  BY <1>1, <1>2, AppendKeepsChain DEF LogInv, TornLast
<1>4. file'[i] = file[i] /\ i \in DOMAIN file'
  BY <1>2, AppendFacts
<1> QED
  BY <1>1, <1>3, <1>4

LEMMA WholeWrite ==
  ASSUME StoreInv, TornLast, NEW s \in Store, phase[s] = "write",
         file' = Append(file, NewLine(s, "whole"))
  PROVE  Verified(file') /\ file'[Len(file')] = NewLine(s, "whole") /\ Len(file') \in 1..Len(file')
<1>1. NewLine(s, "whole") \in Line
  BY NewLineType DEF StoreInv
<1>2. NewLine(s, "whole").shape = "whole" /\ NewLine(s, "whole").previous = tail[s]
  BY DEF NewLine
<1>3. Verified(file) /\ tail[s] = LastHash(file) /\ file \in Seq(Line) /\ TypeOK
  BY DEF StoreInv, WriteIsCurrent, TypeOK
<1>4. \A i \in 1..Len(file) : file[i].shape # "bare"
  BY DEF TornLast
<1>5. Verified(file')
  BY <1>1, <1>2, <1>3, <1>4, AppendFacts, AppendLinked
<1> QED
  BY <1>1, <1>3, <1>5, AppendFacts

LEMMA LogStep ==
  ASSUME Sound, StoreInv, CallInv, LogInv, [Next]_vars
  PROVE  LogInv'
<1>0. /\ TypeOK /\ Running /\ OneLive /\ WriteIsCurrent /\ ChainUnbroken
      /\ TornLast /\ SyncIsCurrent /\ AcknowledgedIsChained
      /\ file \in Seq(Line) /\ DOMAIN file = 1..Len(file)
  BY DEF StoreInv, LogInv, TypeOK
<1>same. ASSUME file' = file PROVE TornLast'
  BY <1>0, <1>same DEF TornLast
<1>1. ASSUME NEW s \in Store, Start(s) PROVE LogInv'
  BY <1>0, <1>1, <1>same DEF Start, LogInv, SyncIsCurrent, AcknowledgedIsChained
<1>2. ASSUME NEW s \in Store, Stop(s) PROVE LogInv'
  <2>1. SyncIsCurrent'
    BY <1>0, <1>2 DEF Stop, TypeOK, SyncIsCurrent
  <2>2. AcknowledgedIsChained'
    BY <1>0, <1>2 DEF Stop, AcknowledgedIsChained
  <2> QED
    BY <1>2, <1>same, <2>1, <2>2 DEF Stop, LogInv
<1>3. ASSUME NEW s \in Store, NEW e \in Event, Call(s, e) PROVE LogInv'
  <2>1. /\ queue[s] \in Seq(Event) /\ queue'[s] = Append(queue[s], e)
        /\ \A t \in Store : t # s => queue'[t] = queue[t]
        /\ phase' = phase /\ file' = file
    BY <1>0, <1>3 DEF Call, TypeOK
  <2>2. queue[s] # <<>> => queue'[s][1] = queue[s][1]
    BY <2>1
  <2>3. SyncIsCurrent'
    BY <1>0, <2>1, <2>2 DEF Running, SyncIsCurrent
  <2>4. AcknowledgedIsChained'
    BY <1>0, <1>3 DEF Call, TypeOK, AcknowledgedIsChained
  <2> QED
    BY <1>same, <2>1, <2>3, <2>4 DEF LogInv
<1>5. ASSUME NEW s \in Store, ReadChain(s) PROVE LogInv'
  <2>0. queue[s] # <<>> /\ file' = file
    BY <1>5 DEF ReadChain
  <2>1. CASE Settle(s, "rejected")
    <3>1. SyncIsCurrent'
      BY <1>0, <2>0, <2>1, SettleFacts DEF SyncIsCurrent
    <3>2. AcknowledgedIsChained'
      BY <1>0, <2>0, <2>1, SettleFacts DEF AcknowledgedIsChained
    <3> QED
      BY <1>same, <2>0, <3>1, <3>2 DEF LogInv
  <2>2. CASE UNCHANGED <<life, queue, answer>> /\ phase' = [phase EXCEPT ![s] = "write"]
    <3>1. AcknowledgedIsChained'
      BY <1>0, <2>0, <2>2 DEF AcknowledgedIsChained
    <3>2. SyncIsCurrent'
      BY <1>0, <2>0, <2>2 DEF TypeOK, SyncIsCurrent
    <3> QED
      BY <1>same, <2>0, <3>1, <3>2 DEF LogInv
  <2> QED
    BY <1>5, <2>1, <2>2 DEF ReadChain
<1>6. ASSUME NEW s \in Store, Write(s) PROVE LogInv'
  <2>0. /\ phase[s] = "write" /\ queue[s] # <<>> /\ Verified(file)
        /\ \A t \in Store : t # s => phase[t] = "idle"
    BY <1>0, <1>6, OneRunning DEF Write, Running, WriteIsCurrent
  <2>1. CASE file' = Append(file, NewLine(s, "whole")) /\ phase' = [phase EXCEPT ![s] = "sync"]
             /\ UNCHANGED <<life, queue, tail, answer>>
    <3>1. NewLine(s, "whole") \in Line /\ NewLine(s, "whole").event = queue[s][1]
      BY <1>0, <2>0, NewLineType, QueueFacts DEF NewLine
    <3>2. Verified(file') /\ file'[Len(file')] = NewLine(s, "whole") /\ Len(file') \in 1..Len(file')
      BY <1>0, <2>0, <2>1, WholeWrite
    <3>3. TornLast'
      <4>1. \A i \in 1..Len(file') :
              (i \in 1..Len(file) /\ file'[i] = file[i]) \/ i = Len(file')
        BY <1>0, <2>1, <3>1, AppendFacts
      <4>2. file'[Len(file')].shape = "whole"
        BY <3>2 DEF NewLine
      <4> QED
        BY <1>0, <2>0, <4>1, <4>2, VerifiedIsWhole DEF TornLast
    <3>4. SyncIsCurrent'
      BY <1>0, <2>0, <2>1, <3>1, <3>2 DEF SyncIsCurrent, TypeOK
    <3>5. AcknowledgedIsChained'
      BY <1>0, <2>1, <3>1, AcknowledgedStays DEF AcknowledgedIsChained
    <3> QED
      BY <3>3, <3>4, <3>5 DEF LogInv
  <2>2. CASE file' = Append(file, NewLine(s, "torn")) /\ Settle(s, "rejected")
    <3>1. NewLine(s, "torn") \in Line
      BY <1>0, <2>0, NewLineType
    <3>2. TornLast'
      <4>1. \A i \in 1..Len(file') :
              (i \in 1..Len(file) /\ file'[i] = file[i]) \/ i = Len(file')
        BY <1>0, <2>2, <3>1, AppendFacts
      <4>2. file'[Len(file')].shape = "torn"
        BY <1>0, <2>2, <3>1, AppendFacts DEF NewLine
      <4> QED
        BY <1>0, <2>0, <4>1, <4>2, VerifiedIsWhole DEF TornLast
    <3>3. SyncIsCurrent'
      BY <1>0, <2>0, <2>2, SettleFacts DEF SyncIsCurrent
    <3>4. AcknowledgedIsChained'
      <4>1. \A e \in Event : answer'[e] = "ok" => answer[e] = "ok"
        BY <1>0, <2>0, <2>2, SettleFacts
      <4> QED
        BY <1>0, <2>2, <3>1, <4>1, AcknowledgedStays DEF AcknowledgedIsChained
    <3> QED
      BY <3>2, <3>3, <3>4 DEF LogInv
  <2> QED
    BY <1>6, <2>1, <2>2 DEF Write, Sound
<1>7. ASSUME NEW s \in Store, Sync(s) PROVE LogInv'
  <2>1. queue[s] # <<>> /\ file' = file /\ phase[s] = "sync"
    BY <1>0, <1>7 DEF Sync, Running
  <2>2. PICK how \in {"ok", "rejected"} : Settle(s, how)
    BY <1>7 DEF Sync
  <2>3. Verified(file) /\ Len(file) \in DOMAIN file /\ file[Len(file)].event = Head(queue[s])
    BY <1>0, <2>1, QueueFacts DEF SyncIsCurrent
  <2>4. SyncIsCurrent'
    BY <1>0, <2>1, <2>2, SettleFacts DEF SyncIsCurrent
  <2>5. AcknowledgedIsChained'
    BY <1>0, <2>1, <2>2, <2>3, SettleFacts DEF AcknowledgedIsChained, Verified
  <2> QED
    BY <1>same, <2>1, <2>4, <2>5 DEF LogInv
<1>q. CASE UNCHANGED vars
  BY <1>0, <1>q, <1>same DEF vars, LogInv, SyncIsCurrent, AcknowledgedIsChained
<1> QED
  BY <1>1, <1>2, <1>3, <1>5, <1>6, <1>7, <1>q DEF Next, Work

LEMMA Invariance == ASSUME Sound PROVE Spec => []IInv
<1>1. Init => LogInv
  BY DEF Init, LogInv, TornLast, SyncIsCurrent, AcknowledgedIsChained
<1>2. StoreInv /\ CallInv /\ LogInv /\ [Next]_vars => LogInv'
  BY LogStep
<1>3. Spec => []StoreInv
  BY StoreInvariance DEF Sound
<1>4. StoreInv /\ CallInv /\ LogInv => IInv
  BY DEF IInv
<1> QED
  BY <1>1, <1>2, <1>3, <1>4, CallInvariance, PTL DEF Spec

(* An acknowledged event stays in the verifiable part of the log.          *)
THEOREM AcknowledgedStaysChained == ASSUME Sound PROVE Spec => []AcknowledgedIsChained
<1>1. IInv => AcknowledgedIsChained
  BY DEF IInv, LogInv
<1> QED
  BY <1>1, Invariance, PTL

-----------------------------------------------------------------------------
(* The refinement of AuditTrail                                            *)

(* The trail is the events of the lines, without a torn one at the end.    *)
LEMMA RecordedFacts ==
  ASSUME NEW f \in Seq(Line)
  PROVE  /\ Recorded(f) \in Seq(Event)
         /\ Len(Recorded(f)) = IF Damaged(f) THEN Len(f) - 1 ELSE Len(f)
         /\ \A i \in 1..Len(Recorded(f)) : i \in 1..Len(f) /\ Recorded(f)[i] = f[i].event
<1>1. Len(f) \in Nat /\ (Damaged(f) => Len(f) # 0)
  BY DEF Damaged
<1>2. ASSUME NEW i \in 1..Len(f) PROVE f[i].event \in Event
  <2>1. f[i] \in Line
    OBVIOUS
  <2> QED
    BY <2>1 DEF Line
<1> DEFINE n == IF Damaged(f) THEN Len(f) - 1 ELSE Len(f)
<1>3. n \in Nat /\ \A i \in 1..n : i \in 1..Len(f)
  BY <1>1
<1>4. Recorded(f) = [i \in 1..n |-> f[i].event]
  BY DEF Recorded
<1> HIDE DEF n
<1>5. Recorded(f) \in [1..n -> Event]
  BY <1>2, <1>3, <1>4
<1>6. Recorded(f) \in Seq(Event) /\ Len(Recorded(f)) = n
  BY <1>3, <1>5, SeqDef
<1> QED
  BY <1>3, <1>4, <1>6 DEF n

LEMMA SettleTrail ==
  ASSUME TypeOK, Running, WaitingIsQueued, NEW s \in Store, queue[s] # <<>>,
         Settle(s, "rejected"), Recorded(file') = Recorded(file)
  PROVE  \E failed \in SUBSET Event : Trail!Disappoint(failed)
<1>1. queue[s][1] \in Event /\ Head(queue[s]) = queue[s][1] /\ answer[queue[s][1]] = "pending"
  BY QueueFacts DEF WaitingIsQueued
<1>2. answer' = [e \in Event |-> IF e \in {queue[s][1]} THEN "rejected" ELSE answer[e]]
  BY <1>1 DEF Settle, TypeOK
<1>3. Trail!Disappoint({queue[s][1]})
  BY <1>1, <1>2 DEF Trail!Disappoint
<1> QED
  BY <1>1, <1>3

LEMMA TrailStep ==
  ASSUME Sound, IInv, IInv', [Next]_vars
  PROVE  [Trail!Next]_(Trail!vars)
<1>0. /\ TypeOK /\ Running /\ OneLive /\ WriteIsCurrent /\ ChainUnbroken /\ WaitingIsQueued
      /\ TornLast /\ SyncIsCurrent /\ TypeOK' /\ TornLast'
  BY DEF IInv, StoreInv, CallInv, LogInv
<1>same. ASSUME file' = file PROVE Recorded(file') = Recorded(file) /\ Damaged(file') = Damaged(file)
  BY <1>same DEF Recorded, Damaged
<1>1. ASSUME NEW s \in Store, Start(s) PROVE UNCHANGED Trail!vars
  BY <1>1, <1>same DEF Start, Trail!vars
<1>2. ASSUME NEW s \in Store, Stop(s) PROVE [Trail!Next]_(Trail!vars)
  <2>1. answer' = [e \in Event |-> IF e \in Queued(s) THEN "lost" ELSE answer[e]] /\ file' = file
    BY <1>2 DEF Stop
  <2>2. Queued(s) \in SUBSET Event /\ \A e \in Queued(s) : answer[e] = "pending"
    BY <1>0, QueueFacts DEF Queued, WaitingIsQueued
  <2>3. CASE Queued(s) = {}
    <3>1. answer' = answer
      BY <1>0, <2>1, <2>3 DEF TypeOK
    <3> QED
      BY <1>same, <2>1, <3>1 DEF Trail!vars
  <2>4. CASE Queued(s) # {}
    <3>1. Trail!Disappoint(Queued(s)) /\ Damaged(file') \in {Damaged(file), TRUE}
      BY <1>same, <2>1, <2>2, <2>4 DEF Trail!Disappoint
    <3> QED
      BY <2>2, <3>1 DEF Trail!Next
  <2> QED
    BY <2>3, <2>4
<1>3. ASSUME NEW s \in Store, NEW e \in Event, Call(s, e) PROVE Trail!Ask(e)
  BY <1>3, <1>same DEF Call, Trail!Ask
<1>4. ASSUME NEW s \in Store, queue[s] # <<>>, Settle(s, "rejected"), Recorded(file') = Recorded(file),
             Damaged(file') \in {Damaged(file), TRUE}
      PROVE  Trail!Next
  BY <1>0, <1>4, SettleTrail DEF Trail!Next
<1>5. ASSUME NEW s \in Store, ReadChain(s) PROVE [Trail!Next]_(Trail!vars)
  <2>1. queue[s] # <<>> /\ file' = file
    BY <1>5 DEF ReadChain
  <2>2. CASE Settle(s, "rejected")
    BY <1>4, <1>same, <2>1, <2>2
  <2>3. CASE UNCHANGED <<life, queue, answer>>
    BY <1>same, <2>1, <2>3 DEF Trail!vars
  <2> QED
    BY <1>5, <2>2, <2>3 DEF ReadChain
<1>6. ASSUME NEW s \in Store, Write(s) PROVE Trail!Next
  <2>0. phase[s] = "write" /\ queue[s] # <<>> /\ Verified(file) /\ ~Damaged(file)
    BY <1>0, <1>6, DamagedOrVerified DEF Write, Running, WriteIsCurrent
  <2>1. queue[s][1] \in Event /\ Head(queue[s]) = queue[s][1] /\ answer[queue[s][1]] = "pending"
    BY <1>0, <2>0, QueueFacts DEF WaitingIsQueued
  <2>2. CASE file' = Append(file, NewLine(s, "whole")) /\ answer' = answer
    <3>1. /\ NewLine(s, "whole") \in Line /\ NewLine(s, "whole").event = queue[s][1]
          /\ NewLine(s, "whole").shape = "whole"
      BY <1>0, <2>0, <2>1, NewLineType DEF NewLine
    <3>2. /\ Len(file') = Len(file) + 1 /\ file'[Len(file')].event = queue[s][1]
          /\ file'[Len(file')].shape = "whole" /\ Len(file) \in Nat
          /\ \A i \in 1..Len(file) : file'[i] = file[i]
      BY <1>0, <2>2, <3>1, AppendFacts
    <3>3. ~Damaged(file')
      BY <3>2 DEF Damaged
    <3>4. /\ Recorded(file) \in Seq(Event) /\ Len(Recorded(file)) = Len(file)
          /\ \A i \in 1..Len(file) : Recorded(file)[i] = file[i].event
      BY <1>0, <2>0, RecordedFacts DEF TypeOK
    <3>5. /\ Recorded(file') \in Seq(Event) /\ Len(Recorded(file')) = Len(file) + 1
          /\ \A i \in 1..(Len(file) + 1) : Recorded(file')[i] = file'[i].event
      BY <1>0, <3>2, <3>3, RecordedFacts DEF TypeOK
    <3>6. /\ Append(Recorded(file), queue[s][1]) \in Seq(Event)
          /\ Len(Append(Recorded(file), queue[s][1])) = Len(file) + 1
          /\ \A i \in 1..Len(file) : Append(Recorded(file), queue[s][1])[i] = Recorded(file)[i]
          /\ Append(Recorded(file), queue[s][1])[Len(file) + 1] = queue[s][1]
      BY <2>1, <3>2, <3>4
    <3>7. \A i \in 1..(Len(file) + 1) : Recorded(file')[i] = Append(Recorded(file), queue[s][1])[i]
      BY <3>2, <3>4, <3>5, <3>6
    <3>8. Recorded(file') = Append(Recorded(file), queue[s][1])
      BY <3>5, <3>6, <3>7, SeqEqual
    <3>9. Trail!Record(queue[s][1])
      <4>1. Damaged(file) = FALSE /\ Damaged(file') = FALSE
        BY <2>0, <3>3 DEF Damaged
      <4> QED
        BY <2>1, <2>2, <3>8, <4>1 DEF Trail!Record
    <3> QED
      BY <2>1, <3>9 DEF Trail!Next
  <2>3. CASE file' = Append(file, NewLine(s, "torn")) /\ Settle(s, "rejected")
    <3>1. NewLine(s, "torn") \in Line /\ NewLine(s, "torn").shape = "torn"
      BY <1>0, <2>0, NewLineType DEF NewLine
    <3>2. /\ Len(file') = Len(file) + 1 /\ file'[Len(file')].shape = "torn" /\ Len(file) \in Nat
          /\ \A i \in 1..Len(file) : file'[i] = file[i]
      BY <1>0, <2>3, <3>1, AppendFacts
    <3>3. Damaged(file') = TRUE
      BY <3>2 DEF Damaged
    <3>4. Recorded(file') = Recorded(file)
      BY <2>0, <3>2, <3>3 DEF Recorded
    <3> QED
      BY <1>4, <2>0, <2>3, <3>3, <3>4
  <2> QED
    BY <1>6, <2>2, <2>3 DEF Write, Sound
<1>7. ASSUME NEW s \in Store, Sync(s) PROVE Trail!Next
  <2>0. phase[s] = "sync" /\ queue[s] # <<>> /\ Verified(file) /\ ~Damaged(file) /\ file' = file
    BY <1>0, <1>7, DamagedOrVerified DEF Sync, Running, SyncIsCurrent
  <2>1. queue[s][1] \in Event /\ Head(queue[s]) = queue[s][1] /\ answer[queue[s][1]] = "pending"
    BY <1>0, <2>0, QueueFacts DEF WaitingIsQueued
  <2>2. CASE Settle(s, "ok")
    <3>1. Len(file) \in DOMAIN Recorded(file) /\ Recorded(file)[Len(file)] = queue[s][1]
      BY <1>0, <2>0, RecordedFacts DEF TypeOK, SyncIsCurrent
    <3>2. Trail!Confirm(queue[s][1])
      BY <1>same, <2>0, <2>1, <2>2, <3>1 DEF Trail!Confirm, Settle
    <3> QED
      BY <2>1, <3>2 DEF Trail!Next
  <2>3. CASE Settle(s, "rejected")
    BY <1>4, <1>same, <2>0, <2>3
  <2> QED
    BY <1>7, <2>2, <2>3 DEF Sync
<1>q. CASE UNCHANGED vars
  BY <1>q, <1>same DEF vars, Trail!vars
<1> QED
  BY <1>1, <1>2, <1>3, <1>5, <1>6, <1>7, <1>q DEF Next, Work, Trail!Next

(* One store at a time keeps an append-only trail, sealed by damage.       *)
THEOREM Refinement == ASSUME Sound PROVE Spec => ImplementsTrail
<1>1. Init => Trail!Init
  <2> SUFFICES ASSUME Init PROVE Trail!Init
    OBVIOUS
  <2>1. file = <<>> /\ ~Damaged(file)
    BY DEF Init, Damaged
  <2>2. Recorded(file) = <<>>
    BY <2>1 DEF Recorded
  <2> QED
    BY <2>1, <2>2 DEF Init, Trail!Init
<1>2. IInv /\ IInv' /\ [Next]_vars => [Trail!Next]_(Trail!vars)
  BY TrailStep
<1> QED
  BY <1>1, <1>2, Invariance, PTL DEF Spec, ImplementsTrail, Trail!Spec

=============================================================================

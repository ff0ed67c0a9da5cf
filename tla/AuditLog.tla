------------------------------ MODULE AuditLog ------------------------------
(***************************************************************************)
(* FileAuditStore (src/src/platform/audit/file-store.ts): the hash-chained *)
(* JSON Lines log platform-audit.jsonl.  A store is one instance of the    *)
(* class in one process; it serializes its own appends with a promise      *)
(* queue, and several stores may be given the same directory, one after    *)
(* the other (a command run again) or at once (two commands).              *)
(***************************************************************************)
EXTENDS Naturals, Sequences

CONSTANTS
  Store,        \* instances of FileAuditStore on one directory
  Event,        \* calls of append, each with an event of its own
  Malformed,    \* the events validation or the size limit refuses
  Faults        \* what the environment may do

FaultKinds ==
  {"io",        \* readFile or open fails
   "torn",      \* a failing write leaves part of its line
   "bare",      \* a failing write leaves its line without the newline
   "sync",      \* the write succeeds and sync fails
   "crash",     \* a process ends with appends outstanding
   "overlap"}   \* two stores are in use at the same time

ASSUME MalformedAssumption == Malformed \subseteq Event
ASSUME FaultsAssumption == Faults \subseteq FaultKinds

VARIABLES
  file,         \* the lines of platform-audit.jsonl
  life,         \* per store: "new", "live" or "dead"
  queue,        \* per store: the appends not yet settled, the running one first
  phase,        \* per store: where the running append is
  tail,         \* per store: previousEventHash of the running append
  answer        \* per event: how its append settled

vars == <<file, life, queue, phase, tail, answer>>

(* SHA-256 is modelled as injective: the hash of a line is the sequence of *)
(* the events from the first line to it.                                   *)
Genesis == <<>>
Hash(line) == Append(line.previous, line.event)
(* Variant: chains to what the last line chains to.                        *)
LastHashSkipping(f) == IF f = <<>> THEN Genesis ELSE f[Len(f)].previous

LastHash(f) == IF f = <<>> THEN Genesis ELSE Hash(f[Len(f)])

(* A line parses when its JSON is complete and nothing was written behind  *)
(* it before a newline was.                                                *)
Parses(f, i) == f[i].shape = "whole" \/ (f[i].shape = "bare" /\ i = Len(f))
Linked(f, i) == f[i].previous = IF i = 1 THEN Genesis ELSE Hash(f[i - 1])

(* readVerified accepts the first n lines of f.                            *)
ChainTo(f, n) == \A i \in 1..n : Parses(f, i) /\ Linked(f, i)
Verified(f) == ChainTo(f, Len(f))

Line == [event : Event, previous : Seq(Event), shape : {"whole", "bare", "torn"}]

TypeOK ==
  /\ file \in Seq(Line)
  /\ life \in [Store -> {"new", "live", "dead"}]
  /\ queue \in [Store -> Seq(Event)]
  /\ phase \in [Store -> {"idle", "write", "sync"}]
  /\ tail \in [Store -> Seq(Event)]
  /\ answer \in [Event -> {"none", "pending", "ok", "rejected", "lost"}]

Init ==
  /\ file = <<>>
  /\ life = [s \in Store |-> "new"]
  /\ queue = [s \in Store |-> <<>>]
  /\ phase = [s \in Store |-> "idle"]
  /\ tail = [s \in Store |-> Genesis]
  /\ answer = [e \in Event |-> "none"]

-----------------------------------------------------------------------------
(* A process creates its store.                                            *)
Start(s) ==
  /\ life[s] = "new"
  /\ "overlap" \in Faults \/ \A t \in Store : life[t] # "live"
  /\ life' = [life EXCEPT ![s] = "live"]
  /\ UNCHANGED <<file, queue, phase, tail, answer>>

Queued(s) == {queue[s][i] : i \in DOMAIN queue[s]}

(* Variant: a process that ends leaves its store in a state of its own.    *)
StopClosed(s) ==
  /\ life[s] = "live"
  /\ queue[s] = <<>>
  /\ life' = [life EXCEPT ![s] = "closed"]
  /\ UNCHANGED <<file, queue, phase, tail, answer>>

(* A process ends, or dies with appends outstanding.                       *)
Stop(s) ==
  /\ life[s] = "live"
  /\ queue[s] = <<>> \/ "crash" \in Faults
  /\ life' = [life EXCEPT ![s] = "dead"]
  /\ queue' = [queue EXCEPT ![s] = <<>>]
  /\ phase' = [phase EXCEPT ![s] = "idle"]
  /\ answer' = [e \in Event |-> IF e \in Queued(s) THEN "lost" ELSE answer[e]]
  /\ UNCHANGED <<file, tail>>

(* append chains the operation behind those called before it.              *)
Call(s, e) ==
  /\ life[s] = "live"
  /\ answer[e] = "none"
  /\ queue' = [queue EXCEPT ![s] = Append(@, e)]
  /\ answer' = [answer EXCEPT ![e] = "pending"]
  /\ UNCHANGED <<file, life, phase, tail>>

(* The running append settles; the queue goes on, also after a rejection.  *)
Settle(s, how) ==
  /\ answer' = [answer EXCEPT ![Head(queue[s])] = how]
  /\ queue' = [queue EXCEPT ![s] = Tail(@)]
  /\ phase' = [phase EXCEPT ![s] = "idle"]
  /\ UNCHANGED <<life, tail>>

(* Variant: a store remembers the hash it wrote last and reads nothing.    *)
ReadChainRemembering(s) ==
  /\ phase[s] = "idle"
  /\ queue[s] # <<>>
  /\ \/ /\ Head(queue[s]) \notin Malformed
        /\ phase' = [phase EXCEPT ![s] = "write"]
        /\ UNCHANGED <<life, queue, tail, answer>>
     \/ Head(queue[s]) \in Malformed /\ Settle(s, "rejected")
  /\ UNCHANGED file

(* Variant: only the last line is read, to take its hash.                  *)
ReadChainUnverified(s) ==
  /\ phase[s] = "idle"
  /\ queue[s] # <<>>
  /\ \/ /\ Head(queue[s]) \notin Malformed
        /\ phase' = [phase EXCEPT ![s] = "write"]
        /\ tail' = [tail EXCEPT ![s] = LastHash(file)]
        /\ UNCHANGED <<life, queue, answer>>
     \/ Head(queue[s]) \in Malformed /\ Settle(s, "rejected")
  /\ UNCHANGED file

(* Variant: an append waits until the file verifies.                       *)
ReadChainWaiting(s) ==
  /\ phase[s] = "idle"
  /\ queue[s] # <<>>
  /\ \/ /\ Head(queue[s]) \notin Malformed
        /\ Verified(file)
        /\ phase' = [phase EXCEPT ![s] = "write"]
        /\ tail' = [tail EXCEPT ![s] = LastHash(file)]
        /\ UNCHANGED <<life, queue, answer>>
     \/ Head(queue[s]) \in Malformed /\ Settle(s, "rejected")
  /\ UNCHANGED file

(* appendInternal up to its write: validation, readVerified of the whole   *)
(* file, and the hash of its last line.                                    *)
ReadChain(s) ==
  /\ phase[s] = "idle"
  /\ queue[s] # <<>>
  /\ \/ /\ Head(queue[s]) \notin Malformed
        /\ Verified(file)
        /\ phase' = [phase EXCEPT ![s] = "write"]
        /\ tail' = [tail EXCEPT ![s] = LastHash(file)]
        /\ UNCHANGED <<life, queue, answer>>
     \/ /\ Head(queue[s]) \in Malformed \/ ~Verified(file) \/ "io" \in Faults
        /\ Settle(s, "rejected")
  /\ UNCHANGED file

NewLine(s, shape) ==
  [event |-> Head(queue[s]), previous |-> tail[s], shape |-> shape]

(* Variant: a short write is taken for a success.                          *)
WriteUnchecked(s) ==
  /\ phase[s] = "write"
  /\ \E shape \in {"whole", "torn", "bare"} \cap (Faults \cup {"whole"}) :
       file' = Append(file, NewLine(s, shape))
  /\ phase' = [phase EXCEPT ![s] = "sync"]
  /\ UNCHANGED <<life, queue, tail, answer>>

(* open with flag 'a' and writeFile: the line goes to the end of the file  *)
(* as it is now.                                                           *)
Write(s) ==
  /\ phase[s] = "write"
  /\ \/ /\ file' = Append(file, NewLine(s, "whole"))
        /\ phase' = [phase EXCEPT ![s] = "sync"]
        /\ UNCHANGED <<life, queue, tail, answer>>
     \/ \E shape \in {"torn", "bare"} \cap Faults :
          /\ file' = Append(file, NewLine(s, shape))
          /\ Settle(s, "rejected")

(* Variant: an append whose sync fails is made again.                      *)
SyncRetrying(s) ==
  /\ phase[s] = "sync"
  /\ \/ Settle(s, "ok") /\ UNCHANGED file
     \/ /\ "sync" \in Faults
        /\ phase' = [phase EXCEPT ![s] = "idle"]
        /\ UNCHANGED <<file, life, queue, tail, answer>>

Sync(s) ==
  /\ phase[s] = "sync"
  /\ \/ Settle(s, "ok")
     \/ "sync" \in Faults /\ Settle(s, "rejected")
  /\ UNCHANGED file

-----------------------------------------------------------------------------
Work(s) == ReadChain(s) \/ Write(s) \/ Sync(s)

Next == \E s \in Store :
  \/ Start(s)
  \/ Stop(s)
  \/ \E e \in Event : Call(s, e)
  \/ Work(s)

(* The event loop runs every settled promise's continuation; nothing makes *)
(* a process start, end or call append.                                    *)
Fairness == \A s \in Store : WF_vars(Work(s))

Spec == Init /\ [][Next]_vars
FairSpec == Spec /\ Fairness

-----------------------------------------------------------------------------
(* The calls that wait are those in a queue, each in one place of one      *)
(* queue: none is forgotten when another append is rejected or a process   *)
(* dies, and none settles twice.                                           *)
WaitingIsQueued ==
  /\ \A e \in Event : answer[e] = "pending" => \E s \in Store : e \in Queued(s)
  /\ \A s \in Store : \A i \in DOMAIN queue[s] : answer[queue[s][i]] = "pending"
  /\ \A s, t \in Store : \A i \in DOMAIN queue[s], j \in DOMAIN queue[t] :
       queue[s][i] = queue[t][j] => s = t /\ i = j

(* Every acknowledged event has its whole line in the file, and no event   *)
(* has two lines: also when stores overlap and when a line lost its        *)
(* newline, a failure leaves at most one trace and a success exactly one.  *)
RecordedOnce ==
  /\ \A e \in Event : answer[e] = "ok" =>
       \E i \in DOMAIN file : file[i].event = e /\ file[i].shape = "whole"
  /\ \A i, j \in DOMAIN file : file[i].event = file[j].event => i = j

(* Whoever was told that an event is recorded can rely on it: the event is *)
(* in the file, and every line up to it still parses and verifies,         *)
(* whatever was appended, torn or lost afterwards.                         *)
AcknowledgedIsChained ==
  \A e \in Event : answer[e] = "ok" =>
    \E i \in DOMAIN file : file[i].event = e /\ ChainTo(file, i)

(* "links each record to the previous record": without a torn line the     *)
(* whole file verifies, between any two steps of any append.               *)
ChainUnbroken ==
  (\A i \in DOMAIN file : file[i].shape = "whole") => Verified(file)

(* "refuses further writes after malformed data": a file that does not     *)
(* verify is never written again, not even by an append that had read it   *)
(* before the damage, nor by a store opened later.                         *)
DamageSeals == [][~Verified(file) => file' = file]_vars

(* Every append settles, or ends with its process; a rejected append does  *)
(* not hold up the appends queued behind it.                               *)
EveryAppendSettles ==
  \A e \in Event : answer[e] = "pending" ~> answer[e] # "pending"

Damaged(f) == f # <<>> /\ f[Len(f)].shape # "whole"

(* The events on record: those of the lines, without a bad one at the end. *)
Recorded(f) ==
  [i \in 1..(IF Damaged(f) THEN Len(f) - 1 ELSE Len(f)) |-> f[i].event]

Trail == INSTANCE AuditTrail WITH trail <- Recorded(file), sealed <- Damaged(file)

(* One store at a time implements the append-only trail.                   *)
ImplementsTrail == Trail!Spec
=============================================================================

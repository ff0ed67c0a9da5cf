------------------------- MODULE RecoveryCodesProofs -------------------------
(***************************************************************************)
(* Proofs about RecoveryCodes.  Single use needs calls that do not         *)
(* overlap; it then holds for any calls, codes, failures and crashes.      *)
(***************************************************************************)
EXTENDS RecoveryCodes, TLAPS

Serial == "overlap" \notin Faults

-----------------------------------------------------------------------------
(* Facts about the data.                                                   *)
LEMMA WholeState ==
  ASSUME NEW set \in Call, NEW used \in SUBSET Slot
  PROVE  /\ Whole(set, used) \in State
         /\ Whole(set, used) \in Content
         /\ Whole(set, used).shape = "whole"
         /\ Whole(set, used).set = set
         /\ Whole(set, used).used = used
BY DEF Whole, State, Content

LEMMA StateParts ==
  ASSUME NEW s \in Content, s.shape = "whole"
  PROVE  s \in State /\ s.set \in Call /\ s.used \in SUBSET Slot
BY DEF Content, State, Empty, Garbage

LEMMA NoFile == Empty \in Content /\ Garbage \in Content /\ Empty.shape = "empty"
BY DEF Content, Empty, Garbage

LEMMA CodeParts ==
  ASSUME NEW code \in Code
  PROVE  code[1] \in Call /\ code[2] \in Slot /\ code # << >>
BY DEF Code

-----------------------------------------------------------------------------
LEMMA EndType ==
  ASSUME TypeOK, NEW c \in Call, NEW from, NEW how \in Settled \cup {"crashed"},
         End(c, from, how)
  PROVE  /\ pc' \in [Call -> {"idle", "crashed"} \cup Running \cup Settled]
         /\ handle' \in [Call -> Call \cup {None}]
         /\ plan' \in [Call -> Content]
         /\ ask' \in [Call -> Code \cup {<<>>}]
BY NoFile DEF End, Goto, TypeOK

(* Only use reads the code it was given.                                   *)
Typed ==
  /\ TypeOK
  /\ \A c \in Call : pc[c] = "readUse" => ask[c] \in Code

LEMMA TypeStep == Typed /\ [Next]_vars => TypeOK'
<1> SUFFICES ASSUME Typed, [Next]_vars PROVE TypeOK'
    OBVIOUS
<1>a. TypeOK
      BY DEF Typed
<1> USE <1>a
<1> USE DEF local, files, history
<1>1. ASSUME NEW c \in Call, Generate(c) PROVE TypeOK'
  <2>1. Whole(c, {}) \in Content
        BY WholeState
  <2> QED BY <1>1, <2>1 DEF Generate, Begin, Goto, TypeOK, Running
<1>2. ASSUME NEW c \in Call, Regenerate(c) PROVE TypeOK'
      BY <1>2 DEF Regenerate, Begin, Goto, TypeOK, Running
<1>3. ASSUME NEW c \in Call, NEW code \in Code, Use(c, code) PROVE TypeOK'
      BY <1>3 DEF Use, Begin, Goto, TypeOK, Running
<1>4. ASSUME NEW c \in Call, Work(c) PROVE TypeOK'
  <2>1. CASE ReadRegenerate(c)
    <3>1. CASE End(c, "readRegenerate", "failed")
          BY <2>1, <3>1, EndType DEF ReadRegenerate, Settled, TypeOK
    <3>2. CASE Goto(c, "readRegenerate", "open") /\ plan' = [plan EXCEPT ![c] = Whole(c, {})]
               /\ UNCHANGED <<handle, ask>>
      <4>1. Whole(c, {}) \in Content
            BY WholeState
      <4> QED BY <2>1, <3>2, <4>1 DEF ReadRegenerate, Goto, TypeOK, Running
    <3> QED BY <2>1, <3>1, <3>2 DEF ReadRegenerate
  <2>2. CASE ReadUse(c)
    <3>1. CASE End(c, "readUse", "failed")
          BY <2>2, <3>1, EndType DEF ReadUse, Settled, TypeOK
    <3>2. CASE Goto(c, "readUse", "deny") /\ UNCHANGED local
          BY <2>2, <3>2 DEF ReadUse, Goto, TypeOK, Running
    <3>3. CASE /\ Accepts(ask[c]) /\ Goto(c, "readUse", "open")
               /\ plan' = [plan EXCEPT ![c] = Whole(Stored.set, Stored.used \cup {ask[c][2]})]
               /\ UNCHANGED <<handle, ask>>
      <4>1. ask[c][2] \in Slot
            BY <3>3, CodeParts DEF Typed, Goto
      <4>2. Stored \in Content /\ Stored.shape = "whole"
            BY <3>3 DEF Accepts, Readable, Stored, TypeOK
      <4>3. Whole(Stored.set, Stored.used \cup {ask[c][2]}) \in Content
            BY <4>1, <4>2, StateParts, WholeState
      <4> QED BY <2>2, <3>3, <4>3 DEF ReadUse, Goto, TypeOK, Running
    <3> QED BY <2>2, <3>1, <3>2, <3>3 DEF ReadUse
  <2>3. CASE Open(c)
    <3>1. CASE End(c, "open", "failed") /\ UNCHANGED <<temp, content>>
          BY <2>3, <3>1, EndType DEF Open, Settled, TypeOK
    <3>2. ASSUME NEW inode \in Call, temp' = inode,
                 content' = [content EXCEPT ![inode] = Empty],
                 handle' = [handle EXCEPT ![c] = inode],
                 Goto(c, "open", "write"), UNCHANGED <<plan, ask>>
          PROVE  TypeOK'
          BY <2>3, <3>2, NoFile DEF Open, Goto, TypeOK, Running
    <3>3. (IF temp = None THEN c ELSE temp) \in Call
          BY DEF TypeOK
    <3> QED BY <2>3, <3>1, <3>2, <3>3 DEF Open
  <2>4. CASE Write(c)
    <3>1. ASSUME NEW new \in Content, content' = [content EXCEPT ![handle[c]] = new]
          PROVE  content' \in [Call -> Content]
          BY <3>1 DEF TypeOK
    <3>2. plan[c] \in Content /\ Garbage \in Content /\ Empty \in Content
          BY NoFile DEF TypeOK
    <3>3. content' \in [Call -> Content]
          BY <2>4, <3>1, <3>2 DEF Write
    <3>4. CASE Goto(c, "write", "rename") /\ UNCHANGED local
          BY <2>4, <3>3, <3>4 DEF Write, Goto, TypeOK, Running
    <3>5. CASE End(c, "write", "failed")
          BY <2>4, <3>3, <3>5, EndType DEF Write, Settled, TypeOK
    <3> QED BY <2>4, <3>4, <3>5 DEF Write
  <2>5. CASE Rename(c)
    <3>1. CASE End(c, "rename", "failed") /\ UNCHANGED files
          BY <2>5, <3>1, EndType DEF Rename, Settled, TypeOK
    <3>2. CASE /\ temp # None /\ Goto(c, "rename", "audit") /\ main' = temp /\ temp' = None
               /\ content' = [d \in Call |-> IF d = main THEN Empty ELSE content[d]]
               /\ UNCHANGED local
          BY <2>5, <3>2, NoFile DEF Rename, Goto, TypeOK, Running
    <3> QED BY <2>5, <3>1, <3>2 DEF Rename
  <2>6. CASE Audit(c)
    <3>1. PICK how \in Settled : End(c, "audit", how)
          BY <2>6 DEF Audit, Settled
    <3>2. audited' \in SUBSET Call /\ restored' \in SUBSET (Call \X Code)
          BY <2>6 DEF Audit, TypeOK
    <3> QED BY <2>6, <3>1, <3>2, EndType DEF Audit, TypeOK
  <2>7. CASE Deny(c)
    <3>1. PICK how \in Settled : End(c, "deny", how)
          BY <2>7 DEF Deny, Settled
    <3> QED BY <2>7, <3>1, EndType DEF Deny, TypeOK
  <2> QED BY <1>4, <2>1, <2>2, <2>3, <2>4, <2>5, <2>6, <2>7 DEF Work
<1>5. ASSUME NEW c \in Call, Crash(c) PROVE TypeOK'
  <2>1. PICK from \in Running : End(c, from, "crashed")
        BY <1>5 DEF Crash
  <2> QED BY <1>5, <2>1, EndType DEF Crash, TypeOK
<1>6. CASE UNCHANGED vars
      BY <1>6 DEF vars, TypeOK
<1> QED BY <1>1, <1>2, <1>3, <1>4, <1>5, <1>6 DEF Next

(* What a step of one call leaves of the others.                           *)
LEMMA OthersStand ==
  ASSUME TypeOK, NEW c \in Call, Next,
         Generate(c) \/ Regenerate(c) \/ (\E code \in Code : Use(c, code))
           \/ Work(c) \/ Crash(c)
  PROVE  \A d \in Call \ {c} : pc'[d] = pc[d] /\ handle'[d] = handle[d]
                               /\ plan'[d] = plan[d] /\ ask'[d] = ask[d]
<1> USE DEF TypeOK, Goto, local
<1>1. CASE Generate(c) \/ Regenerate(c) \/ (\E code \in Code : Use(c, code))
      BY <1>1 DEF Generate, Regenerate, Use, Begin
<1>2. CASE Work(c)
  <2>1. CASE ReadRegenerate(c) \/ ReadUse(c)
        BY <2>1 DEF ReadRegenerate, ReadUse, End
  <2>2. CASE Open(c)
        BY <2>2 DEF Open, End
  <2>3. CASE Write(c)
        BY <2>3 DEF Write, End
  <2>4. CASE Rename(c)
        BY <2>4 DEF Rename, End
  <2>5. CASE Audit(c) \/ Deny(c)
        BY <2>5 DEF Audit, Deny, End
  <2> QED BY <1>2, <2>1, <2>2, <2>3, <2>4, <2>5 DEF Work
<1>3. CASE Crash(c)
      BY <1>3 DEF Crash, End
<1> QED BY <1>1, <1>2, <1>3

LEMMA TypedStep == Typed /\ [Next]_vars => Typed'
<1> SUFFICES ASSUME Typed, [Next]_vars PROVE Typed'
    OBVIOUS
<1>1. TypeOK /\ TypeOK'
      BY TypeStep DEF Typed
<1>2. CASE UNCHANGED vars
      BY <1>1, <1>2 DEF Typed, vars
<1>3. CASE Next
  <2>1. PICK c \in Call :
           Generate(c) \/ Regenerate(c) \/ (\E code \in Code : Use(c, code))
             \/ Work(c) \/ Crash(c)
        BY <1>3 DEF Next
  <2>2. pc'[c] = "readUse" => ask'[c] \in Code
    <3> USE <1>1 DEF TypeOK, Goto
    <3>1. CASE Generate(c) \/ Regenerate(c) \/ (\E code \in Code : Use(c, code))
          BY <3>1 DEF Generate, Regenerate, Use, Begin
    <3>2. CASE Work(c)
          BY <3>2 DEF Work, ReadRegenerate, ReadUse, Open, Write, Rename, Audit, Deny, End
    <3>3. CASE Crash(c)
          BY <3>3 DEF Crash, End
    <3> QED BY <2>1, <3>1, <3>2, <3>3
  <2> QED BY <1>1, <1>3, <2>1, <2>2, OthersStand DEF Typed
<1> QED BY <1>2, <1>3

(* Every variable keeps its type, with or without overlapping calls.       *)
THEOREM TypeCorrect == Spec => []TypeOK
<1>1. Init => Typed
      BY NoFile DEF Init, Typed, TypeOK
<1>2. Typed => TypeOK
      BY DEF Typed
<1> QED BY <1>1, <1>2, TypedStep, PTL DEF Spec

-----------------------------------------------------------------------------
(* The inductive invariant of calls made one after the other.              *)
OneAtATime ==
  \A c, d \in Call : pc[c] \in Running /\ pc[d] \in Running => c = d

Unborn(c) == main # c /\ temp # c

Unissued(c) ==
  /\ main # None => Stored.set # c
  /\ \A x \in restored : x[2][1] # c

(* The state a call is about to write: its own new set, or the stored one  *)
(* with the accepted code marked.                                          *)
Planned(c) ==
  \/ ask[c] = <<>> /\ plan[c] = Whole(c, {})
  \/ /\ ask[c] \in Code
     /\ Accepts(ask[c])
     /\ plan[c] = Whole(Stored.set, Stored.used \cup {ask[c][2]})

(* The code a call has burnt and not answered yet.                         *)
Burning(c) ==
  ask[c] # <<>> =>
    /\ ask[c] \in Code
    /\ Readable
    /\ Stored.set = ask[c][1]
    /\ ask[c][2] \in Stored.used
    /\ \A x \in restored : x[2] # ask[c]

Mine(c) ==
  /\ pc[c] \in {"idle", "readRegenerate", "readUse", "deny", "open"} => Unborn(c)
  /\ pc[c] \in {"idle", "readRegenerate", "readUse", "deny", "open", "write", "rename"}
       => Unissued(c)
  /\ pc[c] \notin Running \/ pc[c] = "readRegenerate" => ask[c] = <<>>
  /\ pc[c] \in {"open", "write", "rename"} => Planned(c)
  /\ pc[c] \in {"write", "rename"} => temp # None /\ handle[c] = temp
  /\ pc[c] = "write" => content[temp] = Empty
  /\ pc[c] = "rename" => content[temp] = plan[c]
  /\ pc[c] = "audit" => Burning(c)

Shared ==
  /\ temp # None => temp # main
  /\ ReplacedAtomically
  /\ RestoredIsBurnt
  /\ SingleUse

IInv == Typed /\ OneAtATime /\ Shared /\ \A c \in Call : Mine(c)

-----------------------------------------------------------------------------
(* A step that leaves the stored state and the past alone.                 *)
Stands(c) ==
  /\ main' = main
  /\ main # None => content'[main] = content[main]
  /\ restored' = restored
  /\ audited' = audited
  /\ temp' \in {temp, c}
  /\ temp' # None => temp' # main

LEMMA StandingShared ==
  ASSUME IInv, NEW c \in Call, Stands(c)
  PROVE  /\ Shared'
         /\ Readable' = Readable
         /\ main # None => Stored' = Stored
         /\ \A d \in Call : Unissued(d) => Unissued(d)'
         /\ \A d \in Call \ {c} : Unborn(d) => Unborn(d)'
<1>1. Readable' = Readable /\ (main # None => Stored' = Stored)
      BY DEF Stands, Readable, Stored
<1>2. ReplacedAtomically' /\ SingleUse'
      BY <1>1 DEF IInv, Shared, Stands, ReplacedAtomically, SingleUse
<1>3. RestoredIsBurnt'
  <2> SUFFICES ASSUME NEW x \in restored'
               PROVE  /\ x[1] \in audited'
                      /\ Readable'
                      /\ Stored'.set = x[2][1] => x[2][2] \in Stored'.used
      BY DEF RestoredIsBurnt
  <2>1. /\ x[1] \in audited
        /\ Readable
        /\ Stored.set = x[2][1] => x[2][2] \in Stored.used
        BY DEF IInv, Shared, RestoredIsBurnt, Stands
  <2>2. main # None
        BY <2>1 DEF Readable
  <2> QED BY <1>1, <2>1, <2>2 DEF Stands
<1>4. temp' # None => temp' # main'
      BY DEF Stands
<1>5. \A d \in Call : Unissued(d) => Unissued(d)'
      BY <1>1 DEF Unissued, Stands
<1>6. \A d \in Call \ {c} : Unborn(d) => Unborn(d)'
      BY DEF Unborn, Stands
<1> QED BY <1>1, <1>2, <1>3, <1>4, <1>5, <1>6 DEF Shared

(* A call that settles keeps nothing.                                      *)
LEMMA Ended ==
  ASSUME TypeOK, NEW c \in Call, NEW from, NEW how \in Settled \cup {"crashed"},
         End(c, from, how)
  PROVE  Mine(c)' /\ pc'[c] \notin Running
<1>1. pc'[c] = how /\ ask'[c] = <<>>
      BY DEF End, Goto, TypeOK
<1>2. pc'[c] \notin Running \cup {"idle"}
      BY <1>1 DEF Settled, Running
<1> QED BY <1>1, <1>2 DEF Mine, Running

(* One call runs at most: either nobody did and it begins, or it does.     *)
LEMMA OneRuns ==
  ASSUME IInv, Next, Serial, NEW c \in Call,
         Generate(c) \/ Regenerate(c) \/ (\E code \in Code : Use(c, code))
           \/ Work(c) \/ Crash(c)
  PROVE  /\ \A d \in Call \ {c} : pc[d] \notin Running /\ pc'[d] = pc[d] /\ ask'[d] = ask[d]
         /\ OneAtATime'
<1>0. TypeOK
      BY DEF IInv, Typed
<1>1. \A d \in Call \ {c} : pc'[d] = pc[d] /\ ask'[d] = ask[d]
      BY <1>0, OthersStand
<1>2. \A d \in Call \ {c} : pc[d] \notin Running
  <2>1. CASE Generate(c) \/ Regenerate(c) \/ (\E code \in Code : Use(c, code))
        BY <2>1 DEF Generate, Regenerate, Use, Begin, Serial
  <2>2. CASE Work(c) \/ Crash(c)
    <3>1. pc[c] \in Running
      <4>1. CASE ReadRegenerate(c) \/ ReadUse(c) \/ Deny(c) \/ Audit(c)
            BY <4>1 DEF ReadRegenerate, ReadUse, Deny, Audit, End, Goto, Running
      <4>2. CASE Open(c) \/ Write(c) \/ Rename(c)
            BY <4>2 DEF Open, Write, Rename, End, Goto, Running
      <4>3. CASE Crash(c)
            BY <4>3 DEF Crash, End, Goto
      <4> QED BY <2>2, <4>1, <4>2, <4>3 DEF Work
    <3> QED BY <3>1 DEF IInv, OneAtATime
  <2> QED BY <2>1, <2>2
<1> QED BY <1>1, <1>2 DEF OneAtATime

-----------------------------------------------------------------------------
LEMMA BeginStep ==
  ASSUME IInv, NEW c \in Call,
         Generate(c) \/ Regenerate(c) \/ (\E code \in Code : Use(c, code))
  PROVE  Mine(c)' /\ Stands(c)
<1>0. TypeOK /\ Mine(c) /\ pc[c] = "idle"
      BY DEF IInv, Typed, Generate, Regenerate, Use, Begin, Goto
<1>1. Stands(c)
      BY DEF IInv, Shared, Stands, Generate, Regenerate, Use, Begin, files, history
<1>2. Unborn(c)' /\ Unissued(c)'
  <2>1. temp' = temp /\ main' = main
        BY DEF Generate, Regenerate, Use, Begin, files
  <2> QED BY <1>0, <1>1, <2>1, StandingShared DEF Mine, Unborn
<1>3. CASE Generate(c)
  <2>1. pc'[c] = "open" /\ ask'[c] = <<>> /\ plan'[c] = Whole(c, {})
        BY <1>0, <1>3 DEF Generate, Begin, Goto, TypeOK, Mine, Running
  <2> QED BY <1>1, <1>2, <2>1 DEF Mine, Planned, Running
<1>4. CASE Regenerate(c)
  <2>1. pc'[c] = "readRegenerate" /\ ask'[c] = <<>>
        BY <1>0, <1>4 DEF Regenerate, Begin, Goto, TypeOK, Mine, Running
  <2> QED BY <1>1, <1>2, <2>1 DEF Mine, Running
<1>5. ASSUME NEW code \in Code, Use(c, code) PROVE Mine(c)'
  <2>1. pc'[c] = "readUse"
        BY <1>0, <1>5 DEF Use, Begin, Goto, TypeOK
  <2> QED BY <1>2, <2>1 DEF Mine, Running
<1> QED BY <1>1, <1>3, <1>4, <1>5

LEMMA ReadRegenerateStep ==
  ASSUME IInv, NEW c \in Call, ReadRegenerate(c)
  PROVE  Mine(c)' /\ Stands(c)
<1>0. TypeOK /\ Mine(c) /\ pc[c] = "readRegenerate"
      BY DEF IInv, Typed, ReadRegenerate, End, Goto
<1>1. Stands(c)
      BY DEF IInv, Shared, Stands, ReadRegenerate, files, history
<1>2. CASE End(c, "readRegenerate", "failed")
      BY <1>0, <1>1, <1>2, Ended DEF Settled
<1>3. CASE /\ Goto(c, "readRegenerate", "open")
           /\ plan' = [plan EXCEPT ![c] = Whole(c, {})]
           /\ UNCHANGED <<handle, ask>>
  <2>1. pc'[c] = "open" /\ ask'[c] = <<>> /\ plan'[c] = Whole(c, {})
        BY <1>0, <1>3 DEF Goto, TypeOK, Mine
  <2>2. Unborn(c)' /\ Unissued(c)'
    <3>1. temp' = temp /\ main' = main
          BY DEF ReadRegenerate, files
    <3> QED BY <1>0, <1>1, <3>1, StandingShared DEF Mine, Unborn
  <2> QED BY <1>1, <2>1, <2>2 DEF Mine, Planned, Running
<1> QED BY <1>2, <1>3 DEF ReadRegenerate

LEMMA ReadUseStep ==
  ASSUME IInv, NEW c \in Call, ReadUse(c)
  PROVE  Mine(c)' /\ Stands(c)
<1>0. TypeOK /\ Mine(c) /\ pc[c] = "readUse" /\ ask[c] \in Code
      BY DEF IInv, Typed, ReadUse
<1>1. Stands(c)
      BY DEF IInv, Shared, Stands, ReadUse, files, history
<1>2. Unborn(c)' /\ Unissued(c)'
  <2>1. temp' = temp /\ main' = main
        BY DEF ReadUse, files
  <2> QED BY <1>0, <1>1, <2>1, StandingShared DEF Mine, Unborn
<1>3. CASE End(c, "readUse", "failed")
      BY <1>0, <1>1, <1>3, Ended DEF Settled
<1>4. CASE Goto(c, "readUse", "deny") /\ UNCHANGED local
  <2>1. pc'[c] = "deny"
        BY <1>0, <1>4 DEF Goto, TypeOK
  <2> QED BY <1>1, <1>2, <2>1 DEF Mine, Running
<1>5. CASE /\ Accepts(ask[c]) /\ Goto(c, "readUse", "open")
           /\ plan' = [plan EXCEPT ![c] = Whole(Stored.set, Stored.used \cup {ask[c][2]})]
           /\ UNCHANGED <<handle, ask>>
  <2>1. pc'[c] = "open" /\ ask' = ask
           /\ plan'[c] = Whole(Stored.set, Stored.used \cup {ask[c][2]})
        BY <1>0, <1>5 DEF Goto, TypeOK
  <2>2. Readable' = Readable /\ Stored' = Stored
        BY <1>1, <1>5, StandingShared DEF Accepts, Readable
  <2>3. Planned(c)'
        BY <1>0, <1>5, <2>1, <2>2 DEF Planned, Accepts
  <2> QED BY <1>1, <1>2, <2>1, <2>3 DEF Mine, Running
<1> QED BY <1>3, <1>4, <1>5 DEF ReadUse

LEMMA OpenStep ==
  ASSUME IInv, NEW c \in Call, Open(c)
  PROVE  Mine(c)' /\ Stands(c)
<1>0. TypeOK /\ Mine(c) /\ pc[c] = "open" /\ Unborn(c) /\ Unissued(c) /\ Planned(c)
      BY DEF IInv, Typed, Open, End, Goto, Mine
<1>1. CASE End(c, "open", "failed") /\ UNCHANGED <<temp, content>>
  <2>1. Stands(c)
        BY <1>1 DEF IInv, Shared, Stands, Open, history
  <2> QED BY <1>0, <1>1, <2>1, Ended DEF Settled
<1>2. ASSUME NEW inode, inode = IF temp = None THEN c ELSE temp,
             temp' = inode, content' = [content EXCEPT ![inode] = Empty],
             handle' = [handle EXCEPT ![c] = inode],
             Goto(c, "open", "write"), UNCHANGED <<plan, ask>>
      PROVE  Mine(c)' /\ Stands(c)
  <2>1. inode \in Call /\ inode # None /\ inode # main /\ inode \in {temp, c}
        BY <1>0, <1>2, NoneAssumption DEF IInv, Shared, Unborn, TypeOK
  <2>2. main' = main /\ restored' = restored /\ audited' = audited
        BY DEF Open, history
  <2>3. Stands(c)
        BY <1>0, <1>2, <2>1, <2>2 DEF Stands, TypeOK
  <2>4. /\ pc'[c] = "write" /\ handle'[c] = temp' /\ content'[temp'] = Empty
        /\ ask' = ask /\ plan' = plan
        BY <1>0, <1>2, <2>1 DEF Goto, TypeOK
  <2>5. Unissued(c)'
        BY <1>0, <2>3, StandingShared
  <2>6. Planned(c)'
    <3>1. CASE ask[c] = <<>> /\ plan[c] = Whole(c, {})
          BY <3>1, <2>4 DEF Planned
    <3>2. CASE /\ ask[c] \in Code /\ Accepts(ask[c])
               /\ plan[c] = Whole(Stored.set, Stored.used \cup {ask[c][2]})
      <4>1. Readable' = Readable /\ Stored' = Stored
            BY <3>2, <2>3, StandingShared DEF Accepts, Readable
      <4> QED BY <3>2, <2>4, <4>1 DEF Planned, Accepts
    <3> QED BY <1>0, <3>1, <3>2 DEF Planned
  <2> QED BY <1>2, <2>1, <2>3, <2>4, <2>5, <2>6 DEF Mine, Running
<1> QED BY <1>1, <1>2 DEF Open

LEMMA WriteStep ==
  ASSUME IInv, NEW c \in Call, Write(c)
  PROVE  Mine(c)' /\ Stands(c)
<1>0. /\ TypeOK /\ Mine(c) /\ pc[c] = "write" /\ Unissued(c) /\ Planned(c)
      /\ temp # None /\ handle[c] = temp /\ content[temp] = Empty
      BY DEF IInv, Typed, Write, End, Goto, Mine
<1>1. temp \in Call /\ temp # main
      BY <1>0 DEF IInv, Shared, TypeOK
<1>2. Stands(c)
  <2>1. main' = main /\ temp' = temp /\ restored' = restored /\ audited' = audited
        BY DEF Write, history
  <2>2. \E new : content' = [content EXCEPT ![handle[c]] = new]
        BY DEF Write
  <2> QED BY <1>0, <1>1, <2>1, <2>2 DEF Stands, TypeOK
<1>3. CASE End(c, "write", "failed")
      BY <1>0, <1>2, <1>3, Ended DEF Settled
<1>4. CASE /\ Goto(c, "write", "rename")
           /\ \E new \in {plan[c], Garbage} :
                /\ new = plan[c] \/ content[handle[c]] # Empty
                /\ content' = [content EXCEPT ![handle[c]] = new]
           /\ UNCHANGED local
  <2>1. /\ content' = [content EXCEPT ![temp] = plan[c]]
        /\ handle' = handle /\ plan' = plan /\ ask' = ask /\ temp' = temp
        BY <1>0, <1>4 DEF Write, local
  <2>2. pc'[c] = "rename" /\ content'[temp'] = plan'[c]
        BY <1>0, <1>1, <1>4, <2>1 DEF Goto, TypeOK
  <2>3. Unissued(c)'
        BY <1>0, <1>2, StandingShared
  <2>4. Planned(c)'
    <3>1. CASE ask[c] = <<>> /\ plan[c] = Whole(c, {})
          BY <3>1, <2>1 DEF Planned
    <3>2. CASE /\ ask[c] \in Code /\ Accepts(ask[c])
               /\ plan[c] = Whole(Stored.set, Stored.used \cup {ask[c][2]})
      <4>1. Readable' = Readable /\ Stored' = Stored
            BY <3>2, <1>2, StandingShared DEF Accepts, Readable
      <4> QED BY <3>2, <2>1, <4>1 DEF Planned, Accepts
    <3> QED BY <1>0, <3>1, <3>2 DEF Planned
  <2> QED BY <1>0, <1>2, <2>1, <2>2, <2>3, <2>4 DEF Mine, Running
<1> QED BY <1>3, <1>4 DEF Write

(* Deny and a crash touch no file.                                         *)
LEMMA DenyStep ==
  ASSUME IInv, NEW c \in Call, Deny(c) \/ Crash(c)
  PROVE  Mine(c)' /\ Stands(c)
<1>0. TypeOK
      BY DEF IInv, Typed
<1>1. Stands(c)
      BY DEF IInv, Shared, Stands, Deny, Crash, files, history
<1>2. CASE Deny(c)
      BY <1>0, <1>1, <1>2, Ended DEF Deny, Settled
<1>3. CASE Crash(c)
      BY <1>0, <1>1, <1>3, Ended DEF Crash
<1> QED BY <1>2, <1>3

(* The replacement of the file: what the call planned becomes the state.   *)
LEMMA RenameStep ==
  ASSUME IInv, NEW c \in Call, Rename(c)
  PROVE  /\ Mine(c)'
         /\ Shared'
         /\ \A d \in Call \ {c} : Unborn(d) => Unborn(d)'
         /\ \A d \in Call \ {c} : Unissued(d) => Unissued(d)'
         /\ Readable => \/ Stored'.set = Stored.set /\ Stored.used \subseteq Stored'.used
                        \/ Stored'.set = c /\ Stored.set # c /\ Stored'.used = {}
<1>0. /\ TypeOK /\ Mine(c) /\ pc[c] = "rename" /\ Unissued(c) /\ Planned(c)
      /\ temp # None /\ content[temp] = plan[c]
      BY DEF IInv, Typed, Rename, End, Goto, Mine
<1>1. temp \in Call /\ temp # main /\ plan[c] \in Content
      BY <1>0 DEF IInv, Shared, TypeOK
<1>2. CASE End(c, "rename", "failed") /\ UNCHANGED files
  <2>1. Stands(c)
        BY <1>2, <1>1 DEF Stands, Rename, files, history
  <2>2. main' = main /\ temp' = temp /\ content' = content
        BY <1>2 DEF files
  <2> QED BY <1>0, <1>2, <2>1, <2>2, StandingShared, Ended DEF Settled, Stored, Unborn
<1>3. CASE /\ temp # None /\ Goto(c, "rename", "audit") /\ main' = temp /\ temp' = None
           /\ content' = [d \in Call |-> IF d = main THEN Empty ELSE content[d]]
           /\ UNCHANGED local
  <2>1. /\ pc'[c] = "audit" /\ ask' = ask
        /\ restored' = restored /\ audited' = audited
        BY <1>0, <1>3 DEF Rename, Goto, TypeOK, local, history
  <2>2. Stored' = plan[c]
        BY <1>0, <1>1, <1>3 DEF Stored
  <2>3. main' \in Call /\ main' # None
        BY <1>1, <1>3, NoneAssumption
  <2>4. \A d \in Call \ {c} : Unborn(d) => Unborn(d)'
        BY <1>3, NoneAssumption DEF Unborn
  <2>5. CASE ask[c] = <<>> /\ plan[c] = Whole(c, {})
    <3>1. Stored'.shape = "whole" /\ Stored'.set = c /\ Stored'.used = {}
          BY <2>2, <2>5 DEF Whole
    <3>2. Readable'
          BY <2>3, <3>1 DEF Readable, Stored
    <3>3. Mine(c)'
          BY <2>1, <2>5 DEF Mine, Burning, Running
    <3>4. RestoredIsBurnt'
      <4> SUFFICES ASSUME NEW x \in restored'
                   PROVE  /\ x[1] \in audited'
                          /\ Readable'
                          /\ Stored'.set = x[2][1] => x[2][2] \in Stored'.used
          BY DEF RestoredIsBurnt
      <4>1. x[1] \in audited' /\ x[2][1] # c
            BY <1>0, <2>1 DEF IInv, Shared, RestoredIsBurnt, Unissued
      <4> QED BY <3>1, <3>2, <4>1
    <3>5. Shared'
          BY <1>3, <2>1, <3>2, <3>4 DEF IInv, Shared, ReplacedAtomically, SingleUse
    <3>6. \A d \in Call \ {c} : Unissued(d) => Unissued(d)'
          BY <2>1, <3>1 DEF Unissued
    <3>7. Readable => Stored.set # c
          BY <1>0 DEF Unissued, Readable
    <3> QED BY <2>4, <3>1, <3>3, <3>5, <3>6, <3>7
  <2>6. CASE /\ ask[c] \in Code /\ Accepts(ask[c])
             /\ plan[c] = Whole(Stored.set, Stored.used \cup {ask[c][2]})
    <3>1. /\ Stored'.shape = "whole" /\ Stored'.set = Stored.set
          /\ Stored'.used = Stored.used \cup {ask[c][2]}
          BY <2>2, <2>6 DEF Whole
    <3>2. Readable'
          BY <2>3, <3>1 DEF Readable, Stored
    <3>3. Stored.set = ask[c][1] /\ ask[c][2] \notin Stored.used /\ main # None
          BY <2>6 DEF Accepts, Readable
    <3>4. \A x \in restored : x[2] # ask[c]
          BY <3>3 DEF IInv, Shared, RestoredIsBurnt
    <3>5. Burning(c)'
          BY <2>1, <2>6, <3>1, <3>2, <3>3, <3>4 DEF Burning
    <3>6. Mine(c)'
          BY <2>1, <3>5 DEF Mine, Running
    <3>7. RestoredIsBurnt'
      <4> SUFFICES ASSUME NEW x \in restored'
                   PROVE  /\ x[1] \in audited'
                          /\ Readable'
                          /\ Stored'.set = x[2][1] => x[2][2] \in Stored'.used
          BY DEF RestoredIsBurnt
      <4>1. /\ x[1] \in audited'
            /\ Stored.set = x[2][1] => x[2][2] \in Stored.used
            BY <2>1 DEF IInv, Shared, RestoredIsBurnt
      <4> QED BY <3>1, <3>2, <4>1
    <3>8. Shared'
          BY <1>3, <2>1, <3>2, <3>7 DEF IInv, Shared, ReplacedAtomically, SingleUse
    <3>9. \A d \in Call \ {c} : Unissued(d) => Unissued(d)'
          BY <2>1, <3>1, <3>3 DEF Unissued
    <3> QED BY <2>4, <3>1, <3>6, <3>8, <3>9
  <2> QED BY <1>0, <2>5, <2>6 DEF Planned
<1> QED BY <1>2, <1>3 DEF Rename

LEMMA AuditStep ==
  ASSUME IInv, NEW c \in Call, Audit(c)
  PROVE  /\ Mine(c)'
         /\ Shared'
         /\ \A d \in Call \ {c} : Unborn(d) => Unborn(d)'
         /\ \A d \in Call \ {c} : Unissued(d) /\ pc[d] = "idle" => Unissued(d)'
<1>0. TypeOK /\ Mine(c) /\ pc[c] = "audit" /\ Burning(c)
      BY DEF IInv, Typed, Audit, End, Goto, Mine
<1>1. main' = main /\ temp' = temp /\ content' = content
      BY DEF Audit, files
<1>2. Readable' = Readable /\ Stored' = Stored
      BY <1>1 DEF Readable, Stored
<1>3. PICK how \in Settled : End(c, "audit", how)
      BY DEF Audit, Settled
<1>4. Mine(c)'
      BY <1>0, <1>3, Ended
<1>5. audited \subseteq audited'
      BY DEF Audit
<1>6. \/ restored' = restored
      \/ /\ ask[c] \in Code /\ restored' = restored \cup {<<c, ask[c]>>}
         /\ c \in audited'
  <2>1. CASE ask[c] = <<>>
    <3>1. <<c, ask[c]>> \notin Call \X Code
          BY <2>1, CodeParts
    <3> QED BY <3>1 DEF Audit, history
  <2>2. CASE ask[c] \in Code
    <3>1. {<<c, ask[c]>>} \cap (Call \X Code) = {<<c, ask[c]>>}
          BY <2>2
    <3> QED BY <2>2, <3>1 DEF Audit, history
  <2> QED BY <1>0, <2>1, <2>2 DEF TypeOK
<1>7. \A x \in restored' : \/ x \in restored
                           \/ /\ x = <<c, ask[c]>> /\ ask[c] \in Code /\ c \in audited'
                              /\ ask[c] # <<>>
      BY <1>6, CodeParts
<1>8. RestoredIsBurnt'
  <2> SUFFICES ASSUME NEW x \in restored'
               PROVE  /\ x[1] \in audited'
                      /\ Readable'
                      /\ Stored'.set = x[2][1] => x[2][2] \in Stored'.used
      BY DEF RestoredIsBurnt
  <2>1. CASE x \in restored
        BY <1>2, <1>5, <2>1 DEF IInv, Shared, RestoredIsBurnt
  <2>2. CASE x = <<c, ask[c]>> /\ ask[c] # <<>> /\ c \in audited'
        BY <1>0, <1>2, <2>2 DEF Burning
  <2> QED BY <1>7, <2>1, <2>2
<1>9. SingleUse'
  <2> SUFFICES ASSUME NEW x \in restored', NEW y \in restored', x[2] = y[2]
               PROVE  x[1] = y[1]
      BY DEF SingleUse
  <2>1. CASE x \in restored /\ y \in restored
        BY <2>1 DEF IInv, Shared, SingleUse
  <2>2. CASE x \notin restored /\ y \in restored
        BY <1>0, <1>7, <2>2 DEF Burning
  <2>3. CASE x \in restored /\ y \notin restored
        BY <1>0, <1>7, <2>3 DEF Burning
  <2>4. CASE x \notin restored /\ y \notin restored
        BY <1>7, <2>4
  <2> QED BY <2>1, <2>2, <2>3, <2>4
<1>10. Shared'
      BY <1>1, <1>2, <1>8, <1>9 DEF IInv, Shared, ReplacedAtomically
<1>11. ASSUME NEW d \in Call \ {c}, Unissued(d)
       PROVE  Unissued(d)'
  <2>1. main' # None => Stored'.set # d
        BY <1>1, <1>2, <1>11 DEF Unissued
  <2>2. ASSUME NEW x \in restored' PROVE x[2][1] # d
    <3>1. CASE x \in restored
          BY <1>11, <3>1 DEF Unissued
    <3>2. CASE x = <<c, ask[c]>> /\ ask[c] # <<>>
      <4>1. Stored.set = ask[c][1] /\ main # None
            BY <1>0, <3>2 DEF Burning, Readable
      <4> QED BY <1>11, <3>2, <4>1 DEF Unissued
    <3> QED BY <1>7, <2>2, <3>1, <3>2
  <2> QED BY <2>1, <2>2 DEF Unissued
<1> QED BY <1>1, <1>4, <1>10, <1>11 DEF Unborn

-----------------------------------------------------------------------------
LEMMA InvStep == Serial /\ IInv /\ [Next]_vars => IInv'
<1> SUFFICES ASSUME Serial, IInv, [Next]_vars PROVE IInv'
    OBVIOUS
<1>0. Typed'
      BY TypedStep DEF IInv
<1>1. CASE UNCHANGED vars
      BY <1>0, <1>1 DEF IInv, vars, OneAtATime, Shared, ReplacedAtomically, RestoredIsBurnt,
                        SingleUse, Mine, Unborn, Unissued, Planned, Burning, Accepts,
                        Readable, Stored
<1>2. CASE Next
  <2>1. PICK c \in Call :
           Generate(c) \/ Regenerate(c) \/ (\E code \in Code : Use(c, code))
             \/ Work(c) \/ Crash(c)
        BY <1>2 DEF Next
  <2>2. /\ \A d \in Call \ {c} : pc[d] \notin Running /\ pc'[d] = pc[d] /\ ask'[d] = ask[d]
        /\ OneAtATime'
        BY <1>2, <2>1, OneRuns
  <2>3. Shared' /\ Mine(c)'
        /\ \A d \in Call \ {c} : (Unborn(d) => Unborn(d)')
                               /\ (Unissued(d) /\ pc[d] = "idle" => Unissued(d)')
    <3>1. CASE Stands(c) /\ Mine(c)'
          BY <3>1, StandingShared
    <3>2. CASE Generate(c) \/ Regenerate(c) \/ (\E code \in Code : Use(c, code))
          BY <3>1, <3>2, BeginStep
    <3>3. CASE ReadRegenerate(c)
          BY <3>1, <3>3, ReadRegenerateStep
    <3>4. CASE ReadUse(c)
          BY <3>1, <3>4, ReadUseStep
    <3>5. CASE Open(c)
          BY <3>1, <3>5, OpenStep
    <3>6. CASE Write(c)
          BY <3>1, <3>6, WriteStep
    <3>7. CASE Rename(c)
          BY <3>7, RenameStep
    <3>8. CASE Audit(c)
          BY <3>8, AuditStep
    <3>9. CASE Deny(c) \/ Crash(c)
          BY <3>1, <3>9, DenyStep
    <3> QED BY <2>1, <3>2, <3>3, <3>4, <3>5, <3>6, <3>7, <3>8, <3>9 DEF Work
  <2>4. ASSUME NEW d \in Call \ {c} PROVE Mine(d)'
    <3>1. Mine(d)
          BY DEF IInv
    <3> QED BY <2>2, <2>3, <3>1 DEF Mine, Running
  <2> QED BY <1>0, <2>2, <2>3, <2>4 DEF IInv
<1> QED BY <1>1, <1>2

LEMMA InvInit == Init => IInv
<1> SUFFICES ASSUME Init PROVE IInv
    OBVIOUS
<1>1. Typed
      BY NoFile DEF Init, Typed, TypeOK
<1>2. OneAtATime
      BY DEF Init, OneAtATime, Running
<1>3. Shared
      BY DEF Init, Shared, ReplacedAtomically, RestoredIsBurnt, SingleUse
<1>4. ASSUME NEW c \in Call PROVE Mine(c)
  <2>1. Unborn(c) /\ Unissued(c)
        BY NoneAssumption DEF Init, Unborn, Unissued
  <2> QED BY <2>1 DEF Init, Mine, Running
<1> QED BY <1>1, <1>2, <1>3, <1>4 DEF IInv

(* The inductive invariant of calls made one after the other.              *)
THEOREM OneCallAtATime ==
  ASSUME Serial
  PROVE  Spec => []IInv
<1>1. IInv /\ [Next]_vars => IInv'
      BY InvStep
<1> QED BY <1>1, InvInit, PTL DEF Spec

(* No code restores access twice, whatever fails or crashes in between.    *)
THEOREM CodesAreSingleUse ==
  ASSUME Serial
  PROVE  Spec => []SingleUse
<1>1. IInv => SingleUse
      BY DEF IInv, Shared
<1> QED BY <1>1, OneCallAtATime, PTL

(* Restored access stays on record and its code stays burnt.               *)
THEOREM RestorationIsKept ==
  ASSUME Serial
  PROVE  Spec => []RestoredIsBurnt
<1>1. IInv => RestoredIsBurnt
      BY DEF IInv, Shared
<1> QED BY <1>1, OneCallAtATime, PTL

(* Every state file in place is whole.                                     *)
THEOREM StateIsWhole ==
  ASSUME Serial
  PROVE  Spec => []ReplacedAtomically
<1>1. IInv => ReplacedAtomically
      BY DEF IInv, Shared
<1> QED BY <1>1, OneCallAtATime, PTL

LEMMA ForwardStep ==
  ASSUME IInv, Next, Readable
  PROVE  LET new == content'[main'] IN
         \/ new.set = Stored.set /\ Stored.used \subseteq new.used
         \/ new.set # Stored.set /\ pc[new.set] = "rename" /\ new.used = {}
<1>1. PICK c \in Call :
         Generate(c) \/ Regenerate(c) \/ (\E code \in Code : Use(c, code))
           \/ Work(c) \/ Crash(c)
      BY DEF Next
<1>2. CASE Stands(c)
  <2>1. content'[main'] = Stored
        BY <1>2 DEF Stands, Stored, Readable
  <2> QED BY <2>1
<1>3. CASE Rename(c)
  <2>1. pc[c] = "rename"
        BY <1>3 DEF Rename, End, Goto
  <2> QED BY <1>3, <2>1, RenameStep DEF Stored
<1>4. CASE Audit(c)
  <2>1. content'[main'] = Stored
        BY <1>4 DEF Audit, files, Stored
  <2> QED BY <2>1
<1>5. CASE Generate(c) \/ Regenerate(c) \/ (\E code \in Code : Use(c, code))
      BY <1>2, <1>5, BeginStep
<1>6. CASE ReadRegenerate(c) \/ ReadUse(c)
      BY <1>2, <1>6, ReadRegenerateStep, ReadUseStep
<1>7. CASE Open(c) \/ Write(c)
      BY <1>2, <1>7, OpenStep, WriteStep
<1>8. CASE Deny(c) \/ Crash(c)
      BY <1>2, <1>8, DenyStep
<1> QED BY <1>1, <1>3, <1>4, <1>5, <1>6, <1>7, <1>8 DEF Work

(* The stored state only moves forward.                                    *)
THEOREM Forward ==
  ASSUME Serial
  PROVE  Spec => NeverGoesBack
<1>1. IInv /\ [Next]_vars =>
        [ Readable =>
            LET new == content'[main'] IN
            \/ new.set = Stored.set /\ Stored.used \subseteq new.used
            \/ new.set # Stored.set /\ pc[new.set] = "rename" /\ new.used = {} ]_vars
      BY ForwardStep
<1> QED BY <1>1, OneCallAtATime, PTL DEF Spec, NeverGoesBack
-----------------------------------------------------------------------------
(* The refinement of OneTimeCodes: what a step of pc does to the stage and *)
(* to the code that is taken.                                              *)
LEMMA StageValues ==
  /\ Stage("idle") = "new"
  /\ \A p \in Running \ {"audit"} : Stage(p) = "asked"
  /\ Stage("audit") = "acted"
  /\ \A p \in Settled : Stage(p) = p
  /\ Stage("crashed") = "failed"
<1>1. Stage("idle") = "new" /\ Stage("audit") = "acted" /\ Stage("crashed") = "failed"
      BY DEF Stage, Running, Settled
<1>2. ASSUME NEW p \in Running \ {"audit"} PROVE Stage(p) = "asked"
      BY DEF Stage, Running, Settled
<1>3. ASSUME NEW p \in Settled PROVE Stage(p) = p
      BY DEF Stage, Running, Settled
<1> QED BY <1>1, <1>2, <1>3

LEMMA StageMoves ==
  ASSUME TypeOK, NEW c \in Call, NEW from, NEW to, Goto(c, from, to)
  PROVE  Stages[c] = Stage(from) /\ Stages' = [Stages EXCEPT ![c] = Stage(to)]
BY DEF TypeOK, Goto, Stages

LEMMA NothingTaken ==
  ASSUME TypeOK, NEW c \in Call, NEW from, NEW to, Goto(c, from, to),
         from # "audit", to # "audit", \A d \in Call \ {c} : ask'[d] = ask[d]
  PROVE  Taken' = Taken /\ Taken[c] = <<>>
BY DEF TypeOK, Goto, Taken

LEMMA GoodStands ==
  ASSUME IInv, NEW c \in Call, Stands(c)
  PROVE  Good' = Good
<1>1. Readable' = Readable /\ (main # None => Stored' = Stored)
      BY StandingShared
<1> QED BY <1>1 DEF Good, Readable

(* A call that ends before its rename has acted on nothing.                *)
LEMMA EndsUnacted ==
  ASSUME IInv, NEW c \in Call, NEW from \in Running \ {"audit"},
         NEW how \in Settled \cup {"crashed"}, End(c, from, how),
         Good' = Good, UNCHANGED history
  PROVE  /\ how \in {"failed", "crashed"} => Codes!Fail(c)
         /\ how = "denied" => Codes!Deny(c)
<1>0. TypeOK /\ Goto(c, from, how) /\ \A d \in Call \ {c} : ask'[d] = ask[d]
      BY DEF IInv, Typed, End, TypeOK
<1>1. how # "audit"
      BY DEF Settled
<1>2. Taken' = Taken /\ Taken[c] = <<>> /\ Taken' = [Taken EXCEPT ![c] = <<>>]
  <2>1. Taken' = Taken /\ Taken[c] = <<>>
        BY <1>0, <1>1, NothingTaken
  <2> QED BY <2>1 DEF Taken
<1>3. Stages[c] = "asked" /\ Stages' = [Stages EXCEPT ![c] = Stage(how)]
      BY <1>0, StageMoves, StageValues
<1>4. CASE how \in {"failed", "crashed"}
  <2>1. Stage(how) = "failed"
        BY <1>4, StageValues DEF Settled
  <2> QED BY <1>2, <1>3, <1>4, <2>1 DEF Codes!Fail, Codes!Becomes, Codes!Nothing, history
<1>5. CASE how = "denied"
  <2>1. Stage(how) = "denied"
        BY <1>5, StageValues DEF Settled
  <2> QED BY <1>2, <1>3, <1>5, <2>1 DEF Codes!Deny, Codes!Becomes, history
<1> QED BY <1>4, <1>5

(* A call that goes on between its start and its rename is not seen.       *)
LEMMA GoesOnUnseen ==
  ASSUME IInv, NEW c \in Call, NEW from \in Running \ {"audit"},
         NEW to \in Running \ {"audit"}, Goto(c, from, to),
         Good' = Good, UNCHANGED ask, UNCHANGED history
  PROVE  UNCHANGED Codes!vars
<1>0. TypeOK
      BY DEF IInv, Typed
<1>1. Taken' = Taken
      BY <1>0, NothingTaken
<1>2. Stages' = Stages
  <2>1. Stages[c] = "asked" /\ Stages' = [Stages EXCEPT ![c] = "asked"]
        BY <1>0, StageMoves, StageValues
  <2> QED BY <2>1 DEF Stages
<1> QED BY <1>1, <1>2 DEF Codes!vars, history

LEMMA BeginRefines ==
  ASSUME IInv, NEW c \in Call,
         Generate(c) \/ Regenerate(c) \/ (\E code \in Code : Use(c, code))
  PROVE  Codes!Ask(c)
<1>0. TypeOK /\ Good' = Good
      BY BeginStep, GoodStands DEF IInv, Typed
<1>1. PICK first \in {"open", "readRegenerate", "readUse"} : Begin(c, first)
      BY DEF Generate, Regenerate, Use
<1>2. first \in Running \ {"audit"} /\ first # "audit"
      BY DEF Running
<1>3. Goto(c, "idle", first) /\ UNCHANGED history
      BY <1>1 DEF Begin
<1>4. \A d \in Call \ {c} : ask'[d] = ask[d]
      BY <1>0 DEF Generate, Regenerate, Use, TypeOK
<1>5. Taken' = Taken
      BY <1>0, <1>2, <1>3, <1>4, NothingTaken
<1>6. Stages[c] = "new" /\ Stages' = [Stages EXCEPT ![c] = "asked"]
      BY <1>0, <1>2, <1>3, StageMoves, StageValues
<1> QED BY <1>0, <1>3, <1>5, <1>6 DEF Codes!Ask, Codes!Becomes, history

(* The rename is the instant at which a call acts: what it planned when it *)
(* read the file is still the whole effect on the good codes.              *)
LEMMA RenameRefines ==
  ASSUME IInv, NEW c \in Call, Rename(c)
  PROVE  Codes!Fail(c) \/ Codes!Replace(c) \/ \E code \in Call \X Slot : Codes!Take(c, code)
<1>0. /\ TypeOK /\ pc[c] = "rename" /\ Planned(c) /\ temp # None
      /\ content[temp] = plan[c] /\ temp # main /\ temp \in Call
      BY DEF IInv, Typed, Shared, Rename, End, Goto, Mine, TypeOK
<1>1. CASE End(c, "rename", "failed") /\ UNCHANGED files
  <2>1. Good' = Good
        BY <1>1 DEF files, Good, Readable, Stored
  <2>2. UNCHANGED history
        BY DEF Rename
  <2>3. "rename" \in Running \ {"audit"} /\ "failed" \in Settled \cup {"crashed"}
        BY DEF Running, Settled
  <2> QED BY <1>1, <2>1, <2>2, <2>3, EndsUnacted
<1>2. CASE /\ Goto(c, "rename", "audit") /\ main' = temp /\ temp' = None
           /\ content' = [d \in Call |-> IF d = main THEN Empty ELSE content[d]]
           /\ UNCHANGED local
  <2>1. UNCHANGED <<restored, audited, ask>> /\ pc' = [pc EXCEPT ![c] = "audit"]
        BY <1>2 DEF Rename, Goto, local, history
  <2>2. main' # None /\ Stored' = plan[c]
        BY <1>0, <1>2, NoneAssumption DEF Stored
  <2>3. Stages[c] = "asked" /\ Stages' = [Stages EXCEPT ![c] = "acted"]
    <3>1. "rename" \in Running \ {"audit"}
          BY DEF Running
    <3> QED BY <1>0, <1>2, <3>1, StageMoves, StageValues
  <2>4. Taken' = [Taken EXCEPT ![c] = ask[c]] /\ Taken[c] = <<>>
        BY <1>0, <2>1 DEF Taken, TypeOK
  <2>5. CASE ask[c] = <<>> /\ plan[c] = Whole(c, {})
    <3>1. Good' = {c} \X Slot
          BY <2>2, <2>5 DEF Good, Readable, Stored, Whole
    <3>2. Taken' = Taken
          BY <2>4, <2>5 DEF Taken
    <3> QED BY <2>1, <2>3, <3>1, <3>2 DEF Codes!Replace, Codes!Becomes
  <2>6. CASE /\ ask[c] \in Code /\ Accepts(ask[c])
             /\ plan[c] = Whole(Stored.set, Stored.used \cup {ask[c][2]})
    <3>1. /\ Good = {Stored.set} \X (Slot \ Stored.used)
          /\ Good' = {Stored.set} \X (Slot \ (Stored.used \cup {ask[c][2]}))
          BY <2>2, <2>6 DEF Good, Readable, Stored, Whole, Accepts
    <3>2. PICK slot \in Slot : ask[c] = <<Stored.set, slot>> /\ slot \notin Stored.used
          BY <2>6 DEF Code, Accepts
    <3>3. ask[c] \in Good /\ Good' = Good \ {ask[c]}
          BY <3>1, <3>2
    <3>4. Codes!Take(c, ask[c])
          BY <2>1, <2>3, <2>4, <3>3 DEF Codes!Take, Codes!Becomes
    <3> QED BY <2>6, <3>4 DEF Code
  <2> QED BY <1>0, <2>5, <2>6 DEF Planned
<1> QED BY <1>1, <1>2 DEF Rename

LEMMA AuditRefines ==
  ASSUME IInv, NEW c \in Call, Audit(c)
  PROVE  Codes!Issue(c) \/ Codes!Restore(c) \/ Codes!Fail(c)
<1>0. TypeOK /\ pc[c] = "audit" /\ Burning(c) /\ Good' = Good
      BY DEF IInv, Typed, Audit, End, Goto, Mine, files, Good, Readable, Stored
<1>1. PICK how \in {"issued", "restored", "failed"} : End(c, "audit", how)
      BY DEF Audit
<1>2. /\ Stages[c] = "acted" /\ Stages' = [Stages EXCEPT ![c] = how]
      /\ pc' = [pc EXCEPT ![c] = how] /\ ask' = [ask EXCEPT ![c] = <<>>]
  <2>1. Goto(c, "audit", how) /\ ask' = [ask EXCEPT ![c] = <<>>]
        BY <1>1 DEF End
  <2>2. Stage("audit") = "acted" /\ Stage(how) = how
        BY StageValues DEF Settled
  <2>3. Stages[c] = Stage("audit") /\ Stages' = [Stages EXCEPT ![c] = Stage(how)]
        BY <1>0, <2>1, StageMoves
  <2> QED BY <2>1, <2>2, <2>3 DEF Goto
<1>3. Taken[c] = ask[c] /\ Taken' = [Taken EXCEPT ![c] = <<>>]
      BY <1>0, <1>1, <1>2 DEF Taken, TypeOK
<1>4. CASE End(c, "audit", "failed") /\ audited' \in {audited, audited \cup {c}}
           /\ UNCHANGED restored
  <2>1. how = "failed"
        BY <1>0, <1>1, <1>4 DEF End, Goto, TypeOK
  <2> QED BY <1>0, <1>2, <1>3, <1>4, <2>1 DEF Codes!Fail, Codes!Becomes, Codes!Nothing
<1>5. CASE /\ End(c, "audit", IF ask[c] = <<>> THEN "issued" ELSE "restored")
           /\ audited' = audited \cup {c}
           /\ restored' = restored \cup ({<<c, ask[c]>>} \cap (Call \X Code))
  <2>1. how = IF ask[c] = <<>> THEN "issued" ELSE "restored"
        BY <1>0, <1>1, <1>5 DEF End, Goto, TypeOK
  <2>2. CASE ask[c] = <<>>
    <3>1. <<c, ask[c]>> \notin Call \X Code
          BY <2>2, CodeParts
    <3>2. restored' = restored
          BY <1>5, <3>1
    <3>3. Taken' = Taken
          BY <1>3, <2>2 DEF Taken
    <3> QED BY <1>0, <1>2, <1>3, <1>5, <2>1, <2>2, <3>2, <3>3
            DEF Codes!Issue, Codes!Becomes, Codes!Nothing
  <2>3. CASE ask[c] # <<>>
    <3>1. ask[c] \in Code
          BY <1>0, <2>3 DEF Burning
    <3>2. restored' = restored \cup {<<c, Taken[c]>>}
          BY <1>3, <1>5, <3>1
    <3> QED BY <1>0, <1>2, <1>3, <1>5, <2>1, <2>3, <3>2
            DEF Codes!Restore, Codes!Becomes, Codes!Nothing
  <2> QED BY <2>2, <2>3
<1> QED BY <1>4, <1>5 DEF Audit

(* A process that dies after the rename leaves the effect and no answer.   *)
LEMMA CrashRefines ==
  ASSUME IInv, NEW c \in Call, Crash(c)
  PROVE  Codes!Fail(c)
<1>0. TypeOK /\ Good' = Good /\ UNCHANGED history
      BY DenyStep, GoodStands DEF IInv, Typed, Crash
<1>1. PICK from \in Running : End(c, from, "crashed")
      BY DEF Crash
<1>2. CASE from # "audit"
      BY <1>0, <1>1, <1>2, EndsUnacted
<1>3. CASE from = "audit"
  <2>1. Stages[c] = "acted" /\ Stages' = [Stages EXCEPT ![c] = "failed"]
        BY <1>0, <1>1, <1>3, StageMoves, StageValues DEF End
  <2>2. Taken' = [Taken EXCEPT ![c] = <<>>]
        BY <1>0, <1>1, <1>3 DEF Taken, TypeOK, End, Goto
  <2> QED BY <1>0, <2>1, <2>2 DEF Codes!Fail, Codes!Becomes, Codes!Nothing, history
<1> QED BY <1>2, <1>3

LEMMA Simulation == IInv /\ [Next]_vars => [Codes!Next]_(Codes!vars)
<1> SUFFICES ASSUME IInv, [Next]_vars PROVE [Codes!Next]_(Codes!vars)
    OBVIOUS
<1>1. CASE UNCHANGED vars
      BY <1>1 DEF vars, Codes!vars, Good, Readable, Stored, Stages, Taken
<1>2. ASSUME NEW c \in Call,
             Generate(c) \/ Regenerate(c) \/ (\E code \in Code : Use(c, code))
      PROVE  Codes!Next
      BY <1>2, BeginRefines DEF Codes!Next
<1>3. ASSUME NEW c \in Call, Work(c) PROVE [Codes!Next]_(Codes!vars)
  <2>0. /\ {"readRegenerate", "readUse", "deny", "open", "write"} \subseteq Running \ {"audit"}
        /\ {"failed", "denied"} \subseteq Settled \cup {"crashed"}
        /\ "rename" \in Running \ {"audit"}
        BY DEF Running, Settled
  <2>1. CASE ReadRegenerate(c)
    <3>1. Good' = Good /\ UNCHANGED history
          BY <2>1, ReadRegenerateStep, GoodStands DEF ReadRegenerate
    <3>2. CASE End(c, "readRegenerate", "failed")
          BY <2>0, <3>1, <3>2, EndsUnacted DEF Codes!Next
    <3>3. CASE Goto(c, "readRegenerate", "open") /\ UNCHANGED ask
          BY <2>0, <3>1, <3>3, GoesOnUnseen
    <3> QED BY <2>1, <3>2, <3>3 DEF ReadRegenerate
  <2>2. CASE ReadUse(c)
    <3>1. Good' = Good /\ UNCHANGED history
          BY <2>2, ReadUseStep, GoodStands DEF ReadUse
    <3>2. CASE End(c, "readUse", "failed")
          BY <2>0, <3>1, <3>2, EndsUnacted DEF Codes!Next
    <3>3. CASE Goto(c, "readUse", "open") /\ UNCHANGED ask
          BY <2>0, <3>1, <3>3, GoesOnUnseen
    <3>4. CASE Goto(c, "readUse", "deny") /\ UNCHANGED ask
          BY <2>0, <3>1, <3>4, GoesOnUnseen
    <3> QED BY <2>2, <3>2, <3>3, <3>4 DEF ReadUse, local
  <2>3. CASE Open(c)
    <3>1. Good' = Good /\ UNCHANGED history
          BY <2>3, OpenStep, GoodStands DEF Open
    <3>2. CASE End(c, "open", "failed")
          BY <2>0, <3>1, <3>2, EndsUnacted DEF Codes!Next
    <3>3. CASE Goto(c, "open", "write") /\ UNCHANGED ask
          BY <2>0, <3>1, <3>3, GoesOnUnseen
    <3> QED BY <2>3, <3>2, <3>3 DEF Open
  <2>4. CASE Write(c)
    <3>1. Good' = Good /\ UNCHANGED history
          BY <2>4, WriteStep, GoodStands DEF Write
    <3>2. CASE End(c, "write", "failed")
          BY <2>0, <3>1, <3>2, EndsUnacted DEF Codes!Next
    <3>3. CASE Goto(c, "write", "rename") /\ UNCHANGED ask
          BY <2>0, <3>1, <3>3, GoesOnUnseen
    <3> QED BY <2>4, <3>2, <3>3 DEF Write, local
  <2>5. CASE Rename(c)
        BY <2>5, RenameRefines DEF Codes!Next
  <2>6. CASE Audit(c)
        BY <2>6, AuditRefines DEF Codes!Next
  <2>7. CASE Deny(c)
    <3>1. Good' = Good /\ UNCHANGED history
          BY <2>7, DenyStep, GoodStands DEF Deny
    <3> QED BY <2>0, <2>7, <3>1, EndsUnacted DEF Deny, Codes!Next
  <2> QED BY <1>3, <2>1, <2>2, <2>3, <2>4, <2>5, <2>6, <2>7 DEF Work
<1>4. ASSUME NEW c \in Call, Crash(c) PROVE Codes!Next
      BY <1>4, CrashRefines DEF Codes!Next
<1> QED BY <1>1, <1>2, <1>3, <1>4 DEF Next

(* Calls made one after the other implement the one-time codes, for any    *)
(* number of calls and codes and under every failure and crash.            *)
THEOREM Refinement ==
  ASSUME Serial
  PROVE  Spec => ImplementsCodes
<1>1. Init => Codes!Init
  <2> SUFFICES ASSUME Init PROVE Codes!Init
      OBVIOUS
  <2>1. Good = {} /\ Taken = [c \in Call |-> <<>>]
        BY DEF Init, Good, Readable, Taken
  <2>2. Stages = [c \in Call |-> "new"]
        BY StageValues DEF Init, Stages
  <2> QED BY <2>1, <2>2 DEF Init, Codes!Init, Codes!Nothing
<1>2. IInv /\ [Next]_vars => [Codes!Next]_(Codes!vars)
      BY Simulation
<1> QED BY <1>1, <1>2, OneCallAtATime, PTL DEF Spec, ImplementsCodes, Codes!Spec
=============================================================================

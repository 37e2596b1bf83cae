-------------------------- MODULE ControlFileProofs --------------------------
(***************************************************************************)
(* ControlFile for every set of lines, every program and every number of   *)
(* faults.  For any number of processes: the variables have their types,   *)
(* and a file that exists goes on existing.  For two processes that make   *)
(* one edit each of a file that exists: the lock excludes them, the        *)
(* terminator of users/assign stays the last line, and the edits are those *)
(* of AtomicFile.                                                          *)
(***************************************************************************)
EXTENDS ControlFile, FiniteSetTheorems, SequenceTheorems, WellFoundedInduction, TLAPS

(***************************************************************************)
(* The part of the type invariant that speaks of control and of the lock.  *)
(***************************************************************************)
LockTypes ==
  /\ prog \in Programs
  /\ locks \in Nat /\ lockName \in Nat
  /\ holder \in [Proc -> Nat] /\ fd \in [Proc -> Nat]
  /\ pc \in [Proc -> Points] /\ mode \in [Proc -> Modes]
  /\ ip \in [Proc -> Nat \ {0}]
  /\ done \in [Proc -> SUBSET Nat]

\* The control and lock variables keep their types, whatever a step does.
LEMMA LockTypesStep == LockTypes /\ [Next]_vars => LockTypes'
<1> SUFFICES ASSUME LockTypes, [Next]_vars PROVE LockTypes'
  OBVIOUS
<1> USE DEF LockTypes
<1>1. CASE UNCHANGED vars
  BY <1>1 DEF vars, files, lock, control
<1>2. CASE \E p \in Proc : Step(p) \/ Fault(p)
  <2> PICK p \in Proc : Step(p) \/ Fault(p)
    BY <1>2
  <2> USE DEF Goto, Return, Points, Modes, files, lock
  <2>1. CASE Begin(p)   BY <2>1 DEF Begin
  <2>2. CASE Exit(p)    BY <2>2 DEF Exit
  <2>3. CASE MkTrunc(p) BY <2>3 DEF MkTrunc
  <2>4. CASE MkWrite(p) BY <2>4 DEF MkWrite
  <2>5. CASE LockOpen(p) BY <2>5 DEF LockOpen
  <2>6. CASE LockGrant(p) BY <2>6 DEF LockGrant
  <2>7. CASE Temp(p) BY <2>7 DEF Temp
  <2>8. CASE Read(p) BY <2>8 DEF Read
  <2>9. CASE Write(p) BY <2>9 DEF Write
  <2>10. CASE Rename(p) BY <2>10 DEF Rename
  <2>11. CASE Unlink(p) BY <2>11 DEF Unlink
  <2>12. CASE Release(p) BY <2>12 DEF Release
  <2>13. CASE Undo(p) BY <2>13 DEF Undo
  <2>14. CASE Fault(p) BY <2>14 DEF Fault, Fails, LockFails, SetupFails,
                                    WriteFails, RenameFails, Killed
  <2> QED
    BY <2>1, <2>2, <2>3, <2>4, <2>5, <2>6, <2>7, <2>8, <2>9, <2>10, <2>11,
       <2>12, <2>13, <2>14 DEF Step
<1> QED
  BY <1>1, <1>2 DEF Next

-----------------------------------------------------------------------------
(***************************************************************************)
(* The lock.  It works as long as nobody has unlinked the lock file while  *)
(* others wait for it, and with one edit each only a process that is past  *)
(* its edit unlinks the lock file.                                         *)
(***************************************************************************)

\* There are two processes, and each makes one edit.
TwoSingleEdits ==
  /\ \E p, q \in Proc : Proc = {p, q}
  /\ \A pr \in Programs : \A p \in Proc : Len(pr[p]) = 1

\* p has opened the lock file and has not yet come to the end of its edit.
Contends(p) == pc[p] = "wait" \/ Editing(p)

\* p is done with the lock, or past the last edit in which it would take it.
Past(p) ==
  \/ pc[p] \in {"unlink", "release", "undo", "exit"}
  \/ pc[p] = "rename" /\ mode[p] = "early"
  \/ pc[p] = "next" /\ ip[p] # 1

\* What a process that contends for the lock has hold of.
OwnLock(p) ==
  /\ Contends(p) => fd[p] # 0
  /\ Editing(p) => holder[p] = fd[p]
  /\ pc[p] \notin {"next", "exit"} => ip[p] = 1

\* No lock is held by two processes.
Exclusive == \A p, q \in Proc : p # q /\ holder[p] # 0 => holder[q] # holder[p]

\* Those who contend opened the same lock file, and it still has its name
\* unless somebody is past its edit.
SameLock ==
  /\ \A p, q \in Proc : Contends(p) /\ Contends(q) => fd[p] = fd[q]
  /\ \A p \in Proc : Contends(p) =>
       lockName = fd[p] \/ (\E r \in Proc : Past(r))

LockInv == LockTypes /\ (\A p \in Proc : OwnLock(p)) /\ Exclusive /\ SameLock

\* A process that is past its edit stays so.
LEMMA PastStays ==
  ASSUME LockTypes, \A p \in Proc : OwnLock(p), TwoSingleEdits, [Next]_vars,
         NEW r \in Proc, Past(r)
  PROVE  Past(r)'
<1> USE DEF LockTypes, OwnLock, Past
<1>1. CASE UNCHANGED vars
  BY <1>1 DEF vars, files, lock, control
<1>2. CASE \E p \in Proc : Step(p) \/ Fault(p)
  <2> PICK p \in Proc : Step(p) \/ Fault(p)
    BY <1>2
  <2>0. Len(prog[r]) = 1
    BY DEF TwoSingleEdits
  <2> USE DEF Goto, Return, lock, files, More, Points, Modes
  <2>1. CASE Begin(p)
    <3>1. pc[p] = "next" /\ ip[p] <= Len(prog[p])
      BY <2>1 DEF Begin
    <3>2. r = p => ip[p] = 1
      <4> SUFFICES ASSUME r = p PROVE ip[p] = 1
        OBVIOUS
      <4>1. ip[p] <= 1
        BY <2>0, <3>1
      <4>2. ip[p] \in Nat \ {0}
        OBVIOUS
      <4> QED
        BY <4>1, <4>2
    <3>3. r # p
      BY <3>1, <3>2
    <3>4. pc'[r] = pc[r] /\ ip'[r] = ip[r] /\ mode'[r] = mode[r]
      BY <2>1, <3>3 DEF Begin
    <3> QED
      BY <3>4
  <2>2. CASE Exit(p)    BY <2>2 DEF Exit
  <2>3. CASE MkTrunc(p) BY <2>3 DEF MkTrunc
  <2>4. CASE MkWrite(p) BY <2>4 DEF MkWrite
  <2>5. CASE LockOpen(p) BY <2>5 DEF LockOpen
  <2>6. CASE LockGrant(p) BY <2>6 DEF LockGrant
  <2>7. CASE Temp(p) BY <2>7 DEF Temp
  <2>8. CASE Read(p) BY <2>8 DEF Read
  <2>9. CASE Write(p) BY <2>9 DEF Write
  <2>10. CASE Rename(p) BY <2>10 DEF Rename
  <2>11. CASE Unlink(p) BY <2>11 DEF Unlink
  <2>12. CASE Release(p) BY <2>12 DEF Release
  <2>13. CASE Undo(p) BY <2>13 DEF Undo
  <2>14. CASE Fault(p) BY <2>14 DEF Fault, Fails, LockFails, SetupFails,
                                    WriteFails, RenameFails, Killed
  <2> QED
    BY <2>1, <2>2, <2>3, <2>4, <2>5, <2>6, <2>7, <2>8, <2>9, <2>10, <2>11,
       <2>12, <2>13, <2>14 DEF Step
<1> QED
  BY <1>1, <1>2 DEF Next

(***************************************************************************)
(* All steps but the two of lockcreate() at most give up the lock: nobody  *)
(* begins to contend, and the lock file loses its name only by a process   *)
(* that is past its edit.                                                  *)
(***************************************************************************)
GivesUp(p) ==
  /\ UNCHANGED fd
  /\ \A r \in Proc : (Contends(r)' => Contends(r)) /\ (Editing(r)' => Editing(r))
  /\ holder' = holder \/ (holder' = [holder EXCEPT ![p] = 0] /\ ~Editing(p)')
  /\ lockName' = lockName \/ Past(p)'

LEMMA StepGivesUp ==
  ASSUME LockTypes, NEW p \in Proc, OwnLock(p),
         Step(p) \/ Fault(p), ~LockOpen(p), ~LockGrant(p)
  PROVE  GivesUp(p)
<1> USE DEF LockTypes, GivesUp, Contends, Editing, Past, Goto, Return, lock,
            files, Points, Modes
<1>1. CASE Begin(p)   BY <1>1 DEF Begin
<1>2. CASE Exit(p)    BY <1>2 DEF Exit
<1>3. CASE MkTrunc(p) BY <1>3 DEF MkTrunc
<1>4. CASE MkWrite(p) BY <1>4 DEF MkWrite
<1>5. CASE Temp(p) BY <1>5 DEF Temp
<1>6. CASE Read(p) BY <1>6 DEF Read
<1>7. CASE Write(p) BY <1>7 DEF Write
<1>8. CASE Rename(p) BY <1>8 DEF Rename
<1>9. CASE Unlink(p) BY <1>9 DEF Unlink
<1>10. CASE Release(p) BY <1>10 DEF Release
<1>11. CASE Undo(p) BY <1>11 DEF Undo
<1>12. CASE Fault(p) BY <1>12 DEF Fault, Fails, LockFails, SetupFails,
                                  WriteFails, RenameFails, Killed
<1> QED
  BY <1>1, <1>2, <1>3, <1>4, <1>5, <1>6, <1>7, <1>8, <1>9, <1>10, <1>11,
     <1>12 DEF Step

\* A process at its edit is at its first.
LEMMA FirstEdit ==
  ASSUME LockTypes, NEW p \in Proc, TwoSingleEdits, Step(p) \/ Fault(p),
         NEW r \in Proc, OwnLock(r)
  PROVE  pc'[r] \notin {"next", "exit"} => ip'[r] = 1
<1> USE DEF LockTypes, OwnLock, Goto, Return, lock, files, Points, Modes
<1>0. Len(prog[r]) = 1
  BY DEF TwoSingleEdits
<1>1. CASE Begin(p)
  <2>1. pc[p] = "next" /\ ip[p] <= Len(prog[p])
    BY <1>1 DEF Begin, More
  <2>2. r = p => ip[p] = 1
    <3> SUFFICES ASSUME r = p PROVE ip[p] = 1
      OBVIOUS
    <3>1. ip[p] <= 1
      BY <1>0, <2>1
    <3>2. ip[p] \in Nat \ {0}
      OBVIOUS
    <3> QED
      BY <3>1, <3>2
  <2>3. \/ pc'[r] = "next"
        \/ ip'[r] = ip[r] /\ (r # p => pc'[r] = pc[r])
    BY <1>1 DEF Begin
  <2> QED
    BY <2>2, <2>3
<1>2. CASE Exit(p)    BY <1>2 DEF Exit
<1>3. CASE MkTrunc(p) BY <1>3 DEF MkTrunc
<1>4. CASE MkWrite(p) BY <1>4 DEF MkWrite
<1>5. CASE Temp(p) BY <1>5 DEF Temp
<1>6. CASE Read(p) BY <1>6 DEF Read
<1>7. CASE Write(p) BY <1>7 DEF Write
<1>8. CASE Rename(p) BY <1>8 DEF Rename
<1>9. CASE Unlink(p) BY <1>9 DEF Unlink
<1>10. CASE Release(p) BY <1>10 DEF Release
<1>11. CASE Undo(p) BY <1>11 DEF Undo
<1>12. CASE Fault(p) BY <1>12 DEF Fault, Fails, LockFails, SetupFails,
                                  WriteFails, RenameFails, Killed
<1>13. CASE LockOpen(p) BY <1>13 DEF LockOpen
<1>14. CASE LockGrant(p) BY <1>14 DEF LockGrant
<1> QED
  BY <1>1, <1>2, <1>3, <1>4, <1>5, <1>6, <1>7, <1>8, <1>9, <1>10, <1>11,
     <1>12, <1>13, <1>14 DEF Step

\* LockInv is inductive for two processes with one edit each.
LEMMA LockInvStep ==
  ASSUME TwoSingleEdits, LockInv, [Next]_vars
  PROVE  LockInv'
<1>1. LockTypes'
  BY LockTypesStep DEF LockInv
<1>2. CASE UNCHANGED vars
  BY <1>1, <1>2 DEF vars, files, lock, control, LockInv, OwnLock, Exclusive,
                    SameLock, Contends, Editing, Past
<1>3. CASE \E p \in Proc : Step(p) \/ Fault(p)
  <2> PICK p \in Proc : Step(p) \/ Fault(p)
    BY <1>3
  <2>0. \A r \in Proc : pc'[r] \notin {"next", "exit"} => ip'[r] = 1
    BY FirstEdit DEF LockInv
  <2>1. \A r \in Proc : Past(r) => Past(r)'
    BY PastStays DEF LockInv
  <2>2. LockTypes /\ Exclusive /\ SameLock /\ \A r \in Proc : OwnLock(r)
    BY DEF LockInv
  <2>3. CASE ~LockOpen(p) /\ ~LockGrant(p)
    <3>1. GivesUp(p)
      BY <2>2, <2>3, StepGivesUp
    <3>2. \A r \in Proc : OwnLock(r)'
      BY <2>0, <2>2, <3>1 DEF OwnLock, GivesUp, LockTypes
    <3>3. Exclusive'
      BY <2>2, <3>1 DEF Exclusive, GivesUp, LockTypes
    <3>4. SameLock'
      BY <2>1, <2>2, <3>1 DEF SameLock, GivesUp
    <3> QED
      BY <1>1, <3>2, <3>3, <3>4 DEF LockInv
  <2>4. CASE LockOpen(p)
    <3> USE <2>4 DEF LockOpen, Goto
    <3>1. pc'[p] = "wait" /\ fd'[p] = lockName' /\ lockName' # 0
      BY <2>2 DEF LockTypes
    <3>2. \A r \in Proc \ {p} : /\ Contends(r)' <=> Contends(r)
                                /\ Editing(r)' <=> Editing(r)
                                /\ fd'[r] = fd[r]
      BY <2>2 DEF LockTypes, Contends, Editing
    <3>3. ~Past(p) /\ ~Editing(p)'
      BY <2>2, <3>1 DEF OwnLock, Past, Editing
    <3>4. \A r \in Proc : OwnLock(r)'
      BY <2>0, <2>2, <3>1, <3>2, <3>3 DEF OwnLock
    <3>5. Exclusive'
      BY <2>2 DEF Exclusive
    <3>6. \A r \in Proc \ {p} : Contends(r) => fd[r] = lockName'
      <4> SUFFICES ASSUME NEW r \in Proc, r # p, Contends(r)
                   PROVE  fd[r] = lockName'
        OBVIOUS
      <4>1. Proc = {p, r}
        BY DEF TwoSingleEdits
      <4>2. ~Past(r)
        BY <2>2 DEF Contends, Editing, Past
      <4>3. lockName = fd[r] /\ fd[r] # 0
        BY <2>2, <3>3, <4>1, <4>2 DEF SameLock, OwnLock
      <4> QED
        BY <4>3
    <3>7. SameLock'
      BY <3>1, <3>2, <3>6, <2>2 DEF SameLock
    <3> QED
      BY <1>1, <3>4, <3>5, <3>7 DEF LockInv
  <2>5. CASE LockGrant(p)
    <3> USE <2>5 DEF LockGrant, Goto
    <3>1. \A r \in Proc : /\ Contends(r)' <=> Contends(r)
                          /\ Past(r)' <=> Past(r)
      BY <2>2 DEF LockTypes, Contends, Editing, Past
    <3>2. \A r \in Proc \ {p} : (Editing(r)' <=> Editing(r)) /\ holder'[r] = holder[r]
      BY <2>2 DEF LockTypes, Editing
    <3>3. holder'[p] = fd[p]
      BY <2>2 DEF LockTypes
    <3>4. \A r \in Proc : OwnLock(r)'
      BY <2>0, <2>2, <3>1, <3>2, <3>3 DEF OwnLock
    <3>5. Exclusive'
      BY <2>2, <3>2, <3>3 DEF Exclusive
    <3>6. SameLock'
      BY <2>2, <3>1 DEF SameLock
    <3> QED
      BY <1>1, <3>4, <3>5, <3>6 DEF LockInv
  <2> QED
    BY <2>3, <2>4, <2>5
<1> QED
  BY <1>2, <1>3 DEF Next

(***************************************************************************)
(* Two processes that edit the file once each never edit it at the same    *)
(* time: lockcreate() and delDbLock() exclude them, whatever system calls  *)
(* fail and whoever is killed.                                             *)
(***************************************************************************)
THEOREM LockExcludes ==
  ASSUME TwoSingleEdits
  PROVE  Spec => []OneEditor
<1>1. Init => LockInv
  BY DEF Init, LockInv, LockTypes, OwnLock, Exclusive, SameLock, Contends,
         Editing, Points, Modes
<1>2. LockInv /\ [Next]_vars => LockInv'
  BY LockInvStep
<1>3. LockInv => OneEditor
  BY DEF LockInv, OneEditor, OwnLock, Exclusive, SameLock, Contends
<1> QED
  BY <1>1, <1>2, <1>3, PTL DEF Spec

-----------------------------------------------------------------------------
(***************************************************************************)
(* The file stays: a process renames a file that it has created, so the    *)
(* name of the control file always goes over to an existing inode.         *)
(***************************************************************************)

IsSeq(s) == \E S : s \in Seq(S)

\* p has created the second file and may still rename it.
HasTemp(p) ==
  \/ pc[p] \in {"read", "write", "rename"}
  \/ pc[p] \in {"unlink", "release"} /\ mode[p] = "early"

FileInv ==
  /\ LockTypes
  /\ IsSeq(data)
  /\ ctl \in Nat /\ bak \in Nat /\ tmp \in [Proc -> Nat]
  /\ \A p \in Proc : HasTemp(p) => tmp[p] # 0

LEMMA SeqFacts ==
  ASSUME NEW s, IsSeq(s), NEW v, NEW i
  PROVE  /\ IsSeq(Append(s, v))
         /\ IsSeq([s EXCEPT ![i] = v])
         /\ Len(s) + 1 \in Nat /\ Len(s) + 1 # 0
<1> PICK S : s \in Seq(S)
  BY DEF IsSeq
<1>1. s \in Seq(S \cup {v})
  OBVIOUS
<1>2. Append(s, v) \in Seq(S \cup {v})
  BY <1>1
<1>3. [s EXCEPT ![i] = v] \in Seq(S \cup {v})
  <2>1. [s EXCEPT ![i] = v] = [j \in 1..Len(s) |-> IF j = i THEN v ELSE s[j]]
    OBVIOUS
  <2>2. \A j \in 1..Len(s) : s[j] \in S \cup {v}
    OBVIOUS
  <2>3. Len(s) \in Nat
    OBVIOUS
  <2>4. [s EXCEPT ![i] = v] \in [1..Len(s) -> S \cup {v}]
    BY <2>1, <2>2
  <2>5. \A T : \A n \in Nat : [1..n -> T] \subseteq Seq(T)
    OBVIOUS
  <2> QED
    BY <2>3, <2>4, <2>5
<1> QED
  BY <1>2, <1>3 DEF IsSeq

\* FileInv is inductive, and no step takes the name away.
LEMMA FileStep ==
  ASSUME FileInv, [Next]_vars
  PROVE  FileInv' /\ (ctl # 0 => ctl' # 0)
<1>1. LockTypes'
  BY LockTypesStep DEF FileInv
<1>2. CASE UNCHANGED vars
  BY <1>1, <1>2 DEF vars, files, lock, control, FileInv, HasTemp
<1>3. CASE \E p \in Proc : Step(p) \/ Fault(p)
  <2> PICK p \in Proc : Step(p) \/ Fault(p)
    BY <1>3
  <2>0. LockTypes /\ IsSeq(data) /\ Len(data) + 1 \in Nat /\ Len(data) + 1 # 0
    BY SeqFacts DEF FileInv
  <2> SUFFICES /\ IsSeq(data')
               /\ ctl' \in Nat /\ bak' \in Nat /\ tmp' \in [Proc -> Nat]
               /\ \A r \in Proc : HasTemp(r)' => tmp'[r] # 0
               /\ ctl # 0 => ctl' # 0
    BY <1>1 DEF FileInv
  <2> USE <2>0 DEF FileInv, LockTypes, HasTemp, Goto, Return, lock, files,
                   Points, Modes
  <2>1. CASE Begin(p)   BY <2>1 DEF Begin
  <2>2. CASE Exit(p)    BY <2>2 DEF Exit
  <2>3. CASE MkTrunc(p)
    <3>1. IsSeq(data')
      <4>1. \/ data' = Append(data, <<>>)
            \/ data' = [data EXCEPT ![ctl] = <<>>]
        BY <2>3 DEF MkTrunc
      <4>2. IsSeq(Append(data, <<>>)) /\ IsSeq([data EXCEPT ![ctl] = <<>>])
        BY SeqFacts
      <4> QED
        BY <4>1, <4>2
    <3>2. ctl' \in Nat /\ ctl' # 0
      BY <2>3 DEF MkTrunc
    <3> QED
      BY <2>3, <3>1, <3>2 DEF MkTrunc
  <2>4. CASE MkWrite(p)
    <3>1. IsSeq(data')
      BY <2>4, SeqFacts DEF MkWrite
    <3> QED
      BY <2>4, <3>1 DEF MkWrite
  <2>5. CASE LockOpen(p) BY <2>5 DEF LockOpen
  <2>6. CASE LockGrant(p) BY <2>6 DEF LockGrant
  <2>7. CASE Temp(p)
    <3>1. IsSeq(data')
      <4>1. \/ data' = Append(data, <<>>)
            \/ data' = [data EXCEPT ![bak] = <<>>]
        BY <2>7 DEF Temp
      <4>2. IsSeq(Append(data, <<>>)) /\ IsSeq([data EXCEPT ![bak] = <<>>])
        BY SeqFacts
      <4> QED
        BY <4>1, <4>2
    <3>2. tmp' \in [Proc -> Nat] /\ tmp'[p] # 0 /\ bak' \in Nat
      BY <2>7 DEF Temp
    <3> QED
      BY <2>7, <3>1, <3>2 DEF Temp
  <2>8. CASE Read(p) BY <2>8 DEF Read
  <2>9. CASE Write(p)
    <3>1. IsSeq(data')
      BY <2>9, SeqFacts DEF Write
    <3> QED
      BY <2>9, <3>1 DEF Write
  <2>10. CASE Rename(p)
    <3>1. UNCHANGED <<data, tmp>> /\ tmp[p] # 0 /\ tmp[p] \in Nat
      BY <2>10 DEF Rename
    <3>2. ctl' \in Nat /\ bak' \in Nat /\ (ctl # 0 => ctl' # 0)
      BY <2>10, <3>1 DEF Rename
    <3>3. ~HasTemp(p)'
      BY <2>10 DEF Rename
    <3>4. \A r \in Proc \ {p} : HasTemp(r)' => HasTemp(r)
      BY <2>10 DEF Rename
    <3> QED
      BY <3>1, <3>2, <3>3, <3>4
  <2>11. CASE Unlink(p) BY <2>11 DEF Unlink
  <2>12. CASE Release(p) BY <2>12 DEF Release
  <2>13. CASE Undo(p) BY <2>13 DEF Undo
  <2>14. CASE Fault(p)
    <3>1. UNCHANGED <<data, tmp, ctl>> /\ bak' \in Nat
      BY <2>14 DEF Fault, Fails, LockFails, SetupFails, WriteFails, RenameFails,
                   Killed
    <3>2. \A r \in Proc : HasTemp(r)' => HasTemp(r)
      BY <2>14 DEF Fault, Fails, LockFails, SetupFails, WriteFails, RenameFails,
                   Killed
    <3> QED
      BY <3>1, <3>2
  <2> QED
    BY <2>1, <2>2, <2>3, <2>4, <2>5, <2>6, <2>7, <2>8, <2>9, <2>10, <2>11,
       <2>12, <2>13, <2>14 DEF Step
<1> QED
  BY <1>2, <1>3 DEF Next

LEMMA FileInit == Init => FileInv
<1> SUFFICES ASSUME Init PROVE FileInv
  OBVIOUS
<1>1. LockTypes
  BY DEF Init, LockTypes, Points, Modes
<1>2. IsSeq(data)
  <2>1. PICK s \in InitFiles : data = (IF s = NoFile THEN <<>> ELSE <<s>>)
    BY DEF Init
  <2>2. <<>> \in Seq({s}) /\ <<s>> \in Seq({s})
    OBVIOUS
  <2> QED
    BY <2>1, <2>2 DEF IsSeq
<1>3. ctl \in Nat /\ bak \in Nat /\ tmp \in [Proc -> Nat]
  BY DEF Init
<1>4. \A p \in Proc : ~HasTemp(p)
  BY DEF Init, HasTemp
<1> QED
  BY <1>1, <1>2, <1>3, <1>4 DEF FileInv

(***************************************************************************)
(* Whatever the processes do and however many they are, a control file     *)
(* that exists never goes missing: update_file() and remove_line() only    *)
(* ever replace it by rename().                                            *)
(***************************************************************************)
THEOREM FileNeverMissing == Spec => FileStays
<1>1. Init => FileInv
  BY FileInit
<1>2. FileInv /\ [Next]_vars => FileInv'
  BY FileStep
<1>3. FileInv /\ [Next]_vars => [ctl # 0 => ctl' # 0]_vars
  BY FileStep
<1> QED
  BY <1>1, <1>2, <1>3, PTL DEF Spec, FileStays

-----------------------------------------------------------------------------
(***************************************************************************)
(* Least numbers and positions.  Keep(s, K) numbers the positions K; that  *)
(* there is one for every number up to the size of K is an induction over  *)
(* the positions, made here with least numbers.                            *)
(***************************************************************************)
LEMMA LeastNumber ==
  ASSUME NEW T \in SUBSET Nat, T # {}
  PROVE  \E m \in T : \A n \in T : m <= n
<1> DEFINE R == OpToRel(<, Nat)
<1>0. IsWellFoundedOn(R, Nat)
  BY NatLessThanWellFounded
<1>1. \A n, m \in Nat : n < m => <<n, m>> \in R
  BY DEF OpToRel
<1> HIDE DEF R
<1>2. PICK m \in T : \A n \in T : ~(<<n, m>> \in R)
  BY <1>0, WFMin
<1>3. m \in Nat /\ \A k \in T : k \in Nat
  OBVIOUS
<1>4. \A k \in T : m <= k
  <2> SUFFICES ASSUME NEW k \in T PROVE m <= k
    OBVIOUS
  <2>1. ~(k < m)
    BY <1>1, <1>2, <1>3
  <2> QED
    BY <2>1, <1>3
<1> QED
  BY <1>4

\* How many numbers of K there are up to a number, as that number grows.
LEMMA RankFacts ==
  ASSUME NEW n \in Nat, NEW K \in SUBSET (1..n)
  PROVE  /\ IsFiniteSet(K) /\ Cardinality(K) \in Nat
         /\ \A j \in Nat : IsFiniteSet({k \in K : k <= j}) /\ Cardinality({k \in K : k <= j}) \in Nat
         /\ \A j \in Nat : Cardinality({k \in K : k <= j}) <= Cardinality(K)
         /\ Cardinality({k \in K : k <= 0}) = 0
         /\ Cardinality({k \in K : k <= n}) = Cardinality(K)
         /\ \A j \in Nat : Cardinality({k \in K : k <= j + 1}) =
              IF j + 1 \in K THEN Cardinality({k \in K : k <= j}) + 1 ELSE Cardinality({k \in K : k <= j})
         /\ \A i, j \in K : i < j => Cardinality({k \in K : k <= i}) < Cardinality({k \in K : k <= j})
<1> DEFINE Upto(j) == {k \in K : k <= j}
<1>0. \A k \in K : k \in Nat /\ 1 <= k /\ k <= n
  OBVIOUS
<1>1. IsFiniteSet(1..n)
  BY FS_Interval
<1>2. \A T \in SUBSET (1..n) : IsFiniteSet(T) /\ Cardinality(T) \in Nat
  BY <1>1, FS_Subset, FS_CardinalityType
<1>3. \A j : Upto(j) \in SUBSET (1..n) /\ Upto(j) \in SUBSET K
  OBVIOUS
<1>4. \A j : IsFiniteSet(Upto(j)) /\ Cardinality(Upto(j)) \in Nat /\ Cardinality(Upto(j)) <= Cardinality(K)
  BY <1>2, <1>3, FS_Subset
<1>5. Upto(0) = {} /\ Upto(n) = K
  <2>1. \A k \in K : ~(k <= 0)
    BY <1>0
  <2>2. \A k \in K : k \in Upto(n)
    BY <1>0
  <2> QED
    BY <2>1, <2>2
<1>6. ASSUME NEW j \in Nat
      PROVE  Cardinality(Upto(j + 1)) = IF j + 1 \in K THEN Cardinality(Upto(j)) + 1 ELSE Cardinality(Upto(j))
  <2>1. CASE j + 1 \in K
    <3>1. Upto(j + 1) = Upto(j) \cup {j + 1} /\ j + 1 \notin Upto(j)
      <4>1. \A k \in K : k <= j + 1 <=> k <= j \/ k = j + 1
        BY <1>0
      <4>2. ~(j + 1 <= j) /\ j + 1 <= j + 1
        OBVIOUS
      <4> QED
        BY <2>1, <4>1, <4>2
    <3> QED
      BY <2>1, <3>1, <1>4, FS_AddElement
  <2>2. CASE j + 1 \notin K
    <3>1. Upto(j + 1) = Upto(j)
      <4>1. \A k \in K : k <= j + 1 <=> k <= j
        BY <1>0, <2>2
      <4> QED
        BY <4>1
    <3> QED
      BY <3>1, <2>2
  <2> QED
    BY <2>1, <2>2
<1>7. ASSUME NEW i \in K, NEW j \in K, i < j
      PROVE  Cardinality(Upto(i)) < Cardinality(Upto(j))
  <2>1. Upto(i) \in SUBSET Upto(j) /\ j \in Upto(j) /\ j \notin Upto(i)
    <3>1. \A k \in K : k <= i => k <= j
      BY <1>7, <1>0
    <3>2. j <= j /\ ~(j <= i)
      BY <1>7, <1>0
    <3> QED
      BY <3>1, <3>2
  <2>2. Cardinality(Upto(i)) <= Cardinality(Upto(j)) /\ Cardinality(Upto(i)) # Cardinality(Upto(j))
    BY <2>1, <1>4, FS_Subset
  <2> QED
    BY <2>2, <1>4
<1> QED
  BY <1>2, <1>4, <1>5, <1>6, <1>7, FS_EmptySet

\* Position(K, i): the i-th smallest number of K.
Position(K, i) == CHOOSE j \in K : Cardinality({k \in K : k <= j}) = i

\* Every number up to the size of K has its position, and every position one.
LEMMA PositionFacts ==
  ASSUME NEW n \in Nat, NEW K \in SUBSET (1..n)
  PROVE  /\ \A i \in 1..Cardinality(K) : Position(K, i) \in K
         /\ \A i \in 1..Cardinality(K) : Cardinality({k \in K : k <= Position(K, i)}) = i
         /\ \A j \in K : \E i \in 1..Cardinality(K) : Position(K, i) = j
<1> DEFINE Rank(j) == Cardinality({k \in K : k <= j})
<1>0. \A k \in K : k \in Nat /\ 1 <= k /\ k <= n
  OBVIOUS
<1>1. /\ Cardinality(K) \in Nat
      /\ \A j \in Nat : Rank(j) \in Nat /\ Rank(j) <= Cardinality(K)
      /\ Rank(0) = 0 /\ Rank(n) = Cardinality(K)
      /\ \A j \in Nat : Rank(j + 1) = IF j + 1 \in K THEN Rank(j) + 1 ELSE Rank(j)
      /\ \A i, j \in K : i < j => Rank(i) < Rank(j)
  BY ZenonT(60), RankFacts
<1>2. \A i : Position(K, i) = CHOOSE j \in K : Rank(j) = i
  BY DEF Position
<1> HIDE DEF Rank
<1>3. ASSUME NEW i \in 1..Cardinality(K) PROVE \E j \in K : Rank(j) = i
  <2> DEFINE T == {j \in Nat : Rank(j) >= i}
  <2>1. n \in T
    BY <1>1
  <2>2. PICK j \in T : \A k \in T : j <= k
    <3> HIDE DEF T
    <3>1. T \in SUBSET Nat
      BY DEF T
    <3> QED
      BY <2>1, <3>1, LeastNumber
  <2>3. j \in Nat /\ Rank(j) >= i /\ j # 0
    BY <1>1
  <2>4. j - 1 \in Nat /\ (j - 1) + 1 = j /\ ~(j - 1 \in T)
    BY <2>2, <2>3
  <2>5. Rank(j - 1) \in Nat /\ Rank(j - 1) < i
    BY <1>1, <2>4
  <2>6. j \in K /\ Rank(j) = Rank(j - 1) + 1
    BY <1>1, <2>3, <2>4, <2>5
  <2>7. Rank(j) = i
    BY <2>3, <2>5, <2>6
  <2> QED
    BY <2>6, <2>7
<1>4. \A i \in 1..Cardinality(K) : Position(K, i) \in K /\ Rank(Position(K, i)) = i
  BY <1>2, <1>3
<1>5. ASSUME NEW j \in K PROVE \E i \in 1..Cardinality(K) : Position(K, i) = j
  <2>1. Rank(j) \in Nat /\ Rank(j) <= Cardinality(K)
    BY <1>0, <1>1
  <2>2. Rank(j) # 0
    <3>1. j - 1 \in Nat /\ (j - 1) + 1 = j
      BY <1>0
    <3>2. Rank(j) = Rank(j - 1) + 1 /\ Rank(j - 1) \in Nat
      BY <1>1, <3>1
    <3> QED
      BY <3>2
  <2>3. Rank(j) \in 1..Cardinality(K)
    BY <2>1, <2>2, <1>1
  <2>4. Position(K, Rank(j)) \in K /\ Rank(Position(K, Rank(j))) = Rank(j)
    BY <1>4, <2>3
  <2>5. Position(K, Rank(j)) = j
    <3> DEFINE m == Position(K, Rank(j))
    <3>1. m \in Nat /\ j \in Nat /\ m \in K /\ Rank(m) = Rank(j) /\ Rank(j) \in Nat
      BY <2>4, <1>0, <2>1
    <3> HIDE DEF m
    <3>2. ~(m < j) /\ ~(j < m)
      BY <3>1, <1>1
    <3>3. m = j
      BY <3>1, <3>2
    <3> QED
      BY <3>3 DEF m
  <2> QED
    BY <2>3, <2>5
<1> QED
  BY <1>4, <1>5 DEF Rank

(***************************************************************************)
(* Keep(s, K) is a sequence of the elements of s at K, in their order.     *)
(***************************************************************************)
LEMMA KeepFacts ==
  ASSUME NEW S, NEW s \in Seq(S), NEW K \in SUBSET DOMAIN s
  PROVE  /\ Cardinality(K) \in Nat
         /\ Keep(s, K) \in [1..Cardinality(K) -> S]
         /\ Keep(s, K) \in Seq(S) /\ Len(Keep(s, K)) = Cardinality(K)
         /\ \A i \in 1..Cardinality(K) : Position(K, i) \in K /\ Keep(s, K)[i] = s[Position(K, i)]
         /\ \A j \in K : \E i \in 1..Cardinality(K) : Position(K, i) = j
         /\ \A i, j \in 1..Cardinality(K) : i < j => Position(K, i) < Position(K, j)
<1>1. Len(s) \in Nat /\ DOMAIN s = 1..Len(s) /\ K \in SUBSET (1..Len(s))
  OBVIOUS
<1>2. Cardinality(K) \in Nat
  BY <1>1, RankFacts
<1>3. \A i \in 1..Cardinality(K) : Position(K, i) \in K /\ s[Position(K, i)] \in S
  <2>1. \A k \in K : s[k] \in S
    BY <1>1
  <2>2. \A i \in 1..Cardinality(K) : Position(K, i) \in K
    BY <1>1, PositionFacts
  <2> QED
    BY <2>1, <2>2
<1>4. Keep(s, K) = [i \in 1..Cardinality(K) |-> s[Position(K, i)]]
  BY DEF Keep, Position
<1>5. Keep(s, K) \in [1..Cardinality(K) -> S]
  BY <1>3, <1>4
<1>6. Keep(s, K) \in Seq(S) /\ Len(Keep(s, K)) = Cardinality(K)
  BY <1>2, <1>5
<1>7. ASSUME NEW i \in 1..Cardinality(K), NEW j \in 1..Cardinality(K), i < j
      PROVE  Position(K, i) < Position(K, j)
  <2> DEFINE x == Position(K, i)
             y == Position(K, j)
             Rank(k) == Cardinality({z \in K : z <= k})
  <2>1. x \in K /\ y \in K /\ Rank(x) = i /\ Rank(y) = j
    BY <1>1, PositionFacts
  <2>2. \A v, w \in K : v < w => Rank(v) < Rank(w)
    BY <1>1, RankFacts
  <2>3. x \in Nat /\ y \in Nat /\ i \in Nat /\ j \in Nat
    BY <2>1, <1>1, <1>2
  <2> HIDE DEF x, y, Rank
  <2>4. x < y
    BY <2>1, <2>2, <2>3, <1>7
  <2> QED
    BY <2>4 DEF x, y
<1> QED
  BY <1>1, <1>2, <1>3, <1>4, <1>5, <1>6, <1>7, PositionFacts

-----------------------------------------------------------------------------
(***************************************************************************)
(* Type correctness.  The lines an edit writes are lines of the file, the  *)
(* new line and the terminator.                                            *)
(***************************************************************************)

\* The new content has its type, whatever the edit.
LEMMA KeepContent ==
  ASSUME NEW s \in Content, NEW K \in SUBSET DOMAIN s
  PROVE  Keep(s, K) \in Content
BY KeepFacts DEF Content

LEMMA RemoveContent ==
  ASSUME NEW s \in Content, NEW t, NEW op
  PROVE  remove_line(s, t, op) \in Content
<1>1. DOMAIN s \ Dropped(s, t, op) \in SUBSET DOMAIN s
  OBVIOUS
<1> QED
  BY <1>1, KeepContent DEF remove_line

LEMMA UpdateContent ==
  ASSUME NEW s \in Content, NEW t \in Line
  PROVE  update_file(s, t) \in Content
<1> DEFINE body == Body(s)
           found == \E i \in DOMAIN body : Matches(body[i], t)
           mid == [i \in DOMAIN body |-> IF Matches(body[i], t) THEN t ELSE body[i]]
           add == IF found THEN <<>> ELSE <<t>>
           dot == IF Contains(s, Dot) THEN <<Dot>> ELSE <<>>
<1>1. body \in Content
  <2>1. {i \in DOMAIN s : s[i] # Dot} \in SUBSET DOMAIN s
    OBVIOUS
  <2> QED
    BY <2>1, KeepContent DEF Body
<1> HIDE DEF body
<1>2. mid \in Content
  <2>1. \A i \in DOMAIN body : body[i] \in Line \cup {Dot}
    BY <1>1 DEF Content
  <2>2. DOMAIN body = 1..Len(body) /\ Len(body) \in Nat
    BY <1>1 DEF Content
  <2>3. mid \in [1..Len(body) -> Line \cup {Dot}]
    BY <2>1, <2>2
  <2> QED
    BY <2>2, <2>3 DEF Content
<1>3. add \in Content /\ dot \in Content
  <2>1. <<>> \in Content /\ <<t>> \in Content /\ <<Dot>> \in Content
    BY DEF Content
  <2> QED
    BY <2>1
<1> HIDE DEF mid, add, dot
<1>4. mid \o add \o dot \in Content
  BY <1>2, <1>3 DEF Content
<1> QED
  BY <1>4 DEF update_file, mid, add, dot, found, body

LEMMA OverlayContent ==
  ASSUME NEW s \in Content, NEW t \in Content
  PROVE  Overlay(s, t) \in Content
<1>1. SubSeq(t, Len(s) + 1, Len(t)) \in Content
  BY DEF Content
<1> QED
  BY <1>1 DEF Content, Overlay

\* A process past the choice of its edit is at one of its edits, that edit is
\* made under the lock unless it is "create", and only update_file() goes on
\* without a file; the inode written to exists.
Engaged(p) ==
  /\ pc[p] \notin {"next", "exit"} => More(p)
  /\ pc[p] \in {"mktrunc", "mkwrite"} => Op(p) = "create"
  /\ pc[p] \notin {"next", "exit", "mktrunc", "mkwrite"} => Op(p) # "create"
  /\ pc[p] \notin {"next", "exit", "mktrunc", "mkwrite"} /\ Op(p) # "update" => ctl # 0
  /\ pc[p] \in {"mkwrite", "read", "write"} => tmp[p] # 0

TypeInv == TypeOK /\ FileInv /\ \A p \in Proc : Engaged(p)

\* The operation and the line of an edit.
LEMMA EditTypes ==
  ASSUME prog \in Programs, ip \in [Proc -> Nat \ {0}], NEW p \in Proc, More(p)
  PROVE  Op(p) \in Ops /\ TheLine(p) \in Line
<1>1. prog[p] \in Seq([op : Ops, line : Line])
  BY ProgAssumption
<1>2. ip[p] \in 1..Len(prog[p])
  <2>1. Len(prog[p]) \in Nat /\ ip[p] \in Nat \ {0} /\ ip[p] <= Len(prog[p])
    BY <1>1 DEF More
  <2> QED
    BY <2>1
<1> DEFINE E == [op : Ops, line : Line]
<1>3. prog[p][ip[p]] \in E
  <2> HIDE DEF E
  <2>1. \A s \in Seq(E) : \A i \in 1..Len(s) : s[i] \in E
    OBVIOUS
  <2> QED
    BY <1>1, <1>2, <2>1 DEF E
<1> QED
  BY <1>3 DEF Op, TheLine

\* Writing to an inode, and creating one.
LEMMA DataTypes ==
  ASSUME data \in Seq(Content), NEW v \in Content, NEW i
  PROVE  /\ [data EXCEPT ![i] = v] \in Seq(Content)
         /\ Len([data EXCEPT ![i] = v]) = Len(data)
         /\ Append(data, v) \in Seq(Content)
         /\ Len(Append(data, v)) = Len(data) + 1
<1> DEFINE d == [data EXCEPT ![i] = v]
<1>1. Len(data) \in Nat /\ \A j \in 1..Len(data) : data[j] \in Content
  OBVIOUS
<1>2. d = [j \in 1..Len(data) |-> IF j = i THEN v ELSE data[j]]
  OBVIOUS
<1>3. d \in [1..Len(data) -> Content]
  BY <1>1, <1>2
<1> HIDE DEF d
<1>4. d \in Seq(Content) /\ Len(d) = Len(data)
  BY <1>1, <1>3
<1> QED
  BY <1>4 DEF d

\* Growing files and more locks.
LEMMA Ranges ==
  ASSUME NEW m \in Nat, NEW n \in Nat, m <= n
  PROVE  /\ 0..m \subseteq 0..n
         /\ \A f \in [Proc -> 0..m] : f \in [Proc -> 0..n]
<1>1. 0..m \subseteq 0..n
  OBVIOUS
<1> QED
  BY <1>1

LEMMA LockRanges ==
  ASSUME TypeOK, NEW p \in Proc, Step(p) \/ Fault(p)
  PROVE  /\ locks' \in Nat /\ lockName' \in 0..locks'
         /\ holder' \in [Proc -> 0..locks'] /\ fd' \in [Proc -> 0..locks']
<1>0. /\ locks \in Nat /\ lockName \in 0..locks
      /\ holder \in [Proc -> 0..locks] /\ fd \in [Proc -> 0..locks]
  BY DEF TypeOK
<1> USE DEF Goto, Return, files, lock
<1>1. CASE Begin(p)   BY <1>0, <1>1 DEF Begin
<1>2. CASE Exit(p)    BY <1>0, <1>2 DEF Exit
<1>3. CASE MkTrunc(p) BY <1>0, <1>3 DEF MkTrunc
<1>4. CASE MkWrite(p) BY <1>0, <1>4 DEF MkWrite
<1>5. CASE LockOpen(p)
  <2>1. CASE lockName = 0
    <3>1. /\ locks' = locks + 1 /\ lockName' = locks + 1 /\ holder' = holder
          /\ fd' = [fd EXCEPT ![p] = locks + 1]
      BY <1>5, <2>1 DEF LockOpen
    <3>2. locks + 1 \in Nat /\ locks <= locks + 1 /\ locks + 1 \in 0..(locks + 1)
      BY <1>0
    <3>3. holder \in [Proc -> 0..(locks + 1)] /\ fd \in [Proc -> 0..(locks + 1)]
      BY <1>0, <3>2, Ranges
    <3> QED
      BY <3>1, <3>2, <3>3
  <2>2. CASE lockName # 0
    BY <1>0, <1>5, <2>2 DEF LockOpen
  <2> QED
    BY <2>1, <2>2
<1>6. CASE LockGrant(p) BY <1>0, <1>6 DEF LockGrant
<1>7. CASE Temp(p) BY <1>0, <1>7 DEF Temp
<1>8. CASE Read(p) BY <1>0, <1>8 DEF Read
<1>9. CASE Write(p) BY <1>0, <1>9 DEF Write
<1>10. CASE Rename(p) BY <1>0, <1>10 DEF Rename
<1>11. CASE Unlink(p) BY <1>0, <1>11 DEF Unlink
<1>12. CASE Release(p) BY <1>0, <1>12 DEF Release
<1>13. CASE Undo(p) BY <1>0, <1>13 DEF Undo
<1>14. CASE Fault(p) BY <1>0, <1>14 DEF Fault, Fails, LockFails, SetupFails,
                                  WriteFails, RenameFails, Killed
<1> QED
  BY <1>1, <1>2, <1>3, <1>4, <1>5, <1>6, <1>7, <1>8, <1>9, <1>10, <1>11,
     <1>12, <1>13, <1>14 DEF Step

LEMMA EngagedStep ==
  ASSUME TypeInv, NEW p \in Proc, Step(p) \/ Fault(p), ctl # 0 => ctl' # 0
  PROVE  \A r \in Proc : Engaged(r)'
<1> SUFFICES ASSUME NEW r \in Proc PROVE Engaged(r)'
  OBVIOUS
<1>0. /\ LockTypes /\ tmp \in [Proc -> Nat] /\ Engaged(r) /\ Engaged(p)
      /\ Len(data) + 1 # 0 /\ bak \in Nat /\ ctl \in Nat
  BY SeqFacts DEF TypeInv, FileInv
<1> USE <1>0 DEF Engaged, LockTypes, Goto, Return, lock, files, Op, More
<1>1. CASE Begin(p)
  <2>1. UNCHANGED <<ctl, tmp, prog>> /\ More(p) /\ pc[p] = "next"
    BY <1>1 DEF Begin
  <2>2. \/ pc' = [pc EXCEPT ![p] = "next"] /\ ip' = [ip EXCEPT ![p] = @ + 1]
        \/ pc' = [pc EXCEPT ![p] = "mktrunc"] /\ Op(p) = "create" /\ ip' = ip
        \/ /\ pc' = [pc EXCEPT ![p] = "open"] /\ ip' = ip
           /\ Op(p) # "create" /\ (Op(p) # "update" => ctl # 0)
        \/ pc' = [pc EXCEPT ![p] = "exit"] /\ ip' = ip
    BY <1>1 DEF Begin
  <2>3. CASE r # p
    BY <2>1, <2>2, <2>3
  <2>4. CASE r = p
    BY <2>1, <2>2, <2>4
  <2> QED
    BY <2>3, <2>4
<1>2. CASE Exit(p)    BY <1>2 DEF Exit
<1>3. CASE MkTrunc(p) BY <1>3 DEF MkTrunc
<1>4. CASE MkWrite(p) BY <1>4 DEF MkWrite
<1>5. CASE LockOpen(p) BY <1>5 DEF LockOpen
<1>6. CASE LockGrant(p) BY <1>6 DEF LockGrant
<1>7. CASE Temp(p)
  <2>1. tmp' = [tmp EXCEPT ![p] = IF Op(p) = "update" \/ bak = 0 THEN Len(data) + 1 ELSE bak]
    BY <1>7 DEF Temp
  <2>2. tmp'[p] # 0 /\ \A q \in Proc : q # p => tmp'[q] = tmp[q]
    BY <2>1
  <2>3. UNCHANGED <<ctl, prog, ip>> /\ pc' = [pc EXCEPT ![p] = "read"] /\ pc[p] = "temp"
    BY <1>7 DEF Temp
  <2> QED
    BY <2>2, <2>3
<1>8. CASE Read(p) BY <1>8 DEF Read
<1>9. CASE Write(p) BY <1>9 DEF Write
<1>10. CASE Rename(p) BY SMTT(90), <1>10 DEF Rename
<1>11. CASE Unlink(p) BY <1>11 DEF Unlink
<1>12. CASE Release(p) BY <1>12 DEF Release
<1>13. CASE Undo(p) BY <1>13 DEF Undo
<1>14. CASE Fault(p) BY <1>14 DEF Fault, Fails, LockFails, SetupFails,
                                  WriteFails, RenameFails, Killed
<1> QED
  BY <1>1, <1>2, <1>3, <1>4, <1>5, <1>6, <1>7, <1>8, <1>9, <1>10, <1>11,
     <1>12, <1>13, <1>14 DEF Step

\* The inodes and what they hold.
FileTypes ==
  /\ data \in Seq(Content)
  /\ ctl \in 0..Len(data) /\ bak \in 0..Len(data)
  /\ tmp \in [Proc -> 0..Len(data)] /\ buf \in [Proc -> Content]

\* A step that writes v to an inode that exists, and one that creates an inode
\* for p: the names and the other processes' inodes still exist.
LEMMA Rewritten ==
  ASSUME FileTypes, NEW v \in Content, NEW i, data' = [data EXCEPT ![i] = v]
  PROVE  data' \in Seq(Content) /\ Len(data') = Len(data)
BY DataTypes DEF FileTypes

LEMMA Created ==
  ASSUME FileTypes, data' = Append(data, <<>>)
  PROVE  /\ data' \in Seq(Content) /\ Len(data') = Len(data) + 1
         /\ Len(data) + 1 \in 0..Len(data')
         /\ 0..Len(data) \subseteq 0..Len(data')
         /\ tmp \in [Proc -> 0..Len(data')]
<1>1. <<>> \in Content
  BY DEF Content
<1>2. data' \in Seq(Content) /\ Len(data') = Len(data) + 1 /\ Len(data) \in Nat
  BY <1>1, DataTypes DEF FileTypes
<1> QED
  BY <1>2, Ranges DEF FileTypes

LEMMA FileTypesStep ==
  ASSUME TypeInv, NEW p \in Proc, Step(p) \/ Fault(p)
  PROVE  FileTypes'
<1>0. /\ FileTypes /\ LockTypes /\ Engaged(p)
      /\ More(p) => Op(p) \in Ops /\ TheLine(p) \in Line
  BY EditTypes DEF TypeInv, FileInv, TypeOK, FileTypes, LockTypes
<1>e. <<>> \in Content /\ <<Dot>> \in Content /\ Len(data) \in Nat
  BY <1>0 DEF Content, FileTypes
<1>i. \A i \in 0..Len(data) : i # 0 => data[i] \in Content
  BY <1>0 DEF FileTypes
<1>t. tmp[p] \in 0..Len(data) /\ buf[p] \in Content
  BY <1>0 DEF FileTypes
<1> USE DEF Goto, Return, lock, files
<1>1. CASE Begin(p)   BY <1>0, <1>1 DEF Begin, FileTypes
<1>2. CASE Exit(p)    BY <1>0, <1>2 DEF Exit, FileTypes
<1>3. CASE MkTrunc(p)
  <2>1. CASE ctl = 0
    <3>1. data' = Append(data, <<>>) /\ ctl' = Len(data) + 1
      BY <1>3, <2>1 DEF MkTrunc
    <3>2. tmp' = [tmp EXCEPT ![p] = ctl'] /\ UNCHANGED <<bak, buf>>
      BY <1>3 DEF MkTrunc
    <3> QED
      BY <1>0, <3>1, <3>2, Created DEF FileTypes
  <2>2. CASE ctl # 0
    <3>1. data' = [data EXCEPT ![ctl] = <<>>] /\ ctl' = ctl
      BY <1>3, <2>2 DEF MkTrunc
    <3>2. tmp' = [tmp EXCEPT ![p] = ctl'] /\ UNCHANGED <<bak, buf>>
      BY <1>3 DEF MkTrunc
    <3>3. data' \in Seq(Content) /\ Len(data') = Len(data)
      BY <1>0, <1>e, <3>1, Rewritten
    <3> QED
      BY <1>0, <3>1, <3>2, <3>3 DEF FileTypes
  <2> QED
    BY <2>1, <2>2
<1>4. CASE MkWrite(p)
  <2>1. data[tmp[p]] \in Content
    BY <1>0, <1>4, <1>i, <1>t DEF MkWrite, Engaged
  <2>2. data' = [data EXCEPT ![tmp[p]] = Overlay(<<Dot>>, data[tmp[p]])]
    BY <1>4 DEF MkWrite
  <2>3. UNCHANGED <<ctl, bak, tmp, buf>>
    BY <1>4 DEF MkWrite
  <2>4. Overlay(<<Dot>>, data[tmp[p]]) \in Content
    BY <1>e, <2>1, OverlayContent
  <2>5. data' \in Seq(Content) /\ Len(data') = Len(data)
    BY <1>0, <2>2, <2>4, Rewritten
  <2> QED
    BY <1>0, <2>3, <2>5 DEF FileTypes
<1>5. CASE LockOpen(p) BY <1>0, <1>5 DEF LockOpen, FileTypes
<1>6. CASE LockGrant(p) BY <1>0, <1>6 DEF LockGrant, FileTypes
<1>7. CASE Temp(p)
  <2>1. CASE Op(p) = "update" \/ bak = 0
    <3>1. data' = Append(data, <<>>) /\ tmp' = [tmp EXCEPT ![p] = Len(data) + 1]
      BY <1>7, <2>1 DEF Temp
    <3>2. bak' \in {bak, Len(data) + 1}
      BY <1>0, <1>7, <3>1 DEF Temp, FileTypes
    <3>3. UNCHANGED <<ctl, buf>>
      BY <1>7 DEF Temp
    <3> QED
      BY <1>0, <3>1, <3>2, <3>3, Created DEF FileTypes
  <2>2. CASE ~(Op(p) = "update" \/ bak = 0)
    <3>1. data' = [data EXCEPT ![bak] = <<>>] /\ tmp' = [tmp EXCEPT ![p] = bak]
      BY <1>7, <2>2 DEF Temp
    <3>2. bak' = bak
      BY <1>0, <1>7, <2>2, <3>1 DEF Temp, FileTypes
    <3>3. UNCHANGED <<ctl, buf>>
      BY <1>7 DEF Temp
    <3>4. data' \in Seq(Content) /\ Len(data') = Len(data)
      BY <1>0, <1>e, <3>1, Rewritten
    <3> QED
      BY <1>0, <3>1, <3>2, <3>3, <3>4 DEF FileTypes
  <2> QED
    BY <2>1, <2>2
<1>8. CASE Read(p)
  <2>1. /\ UNCHANGED <<ctl, bak, data, tmp>> /\ pc[p] = "read"
        /\ \/ Op(p) = "update" /\ ctl = 0 /\ buf' = [buf EXCEPT ![p] = <<TheLine(p)>>]
           \/ /\ Op(p) = "update" /\ ctl # 0
              /\ buf' = [buf EXCEPT ![p] = update_file(data[ctl], TheLine(p))]
           \/ /\ Op(p) # "update"
              /\ buf' = [buf EXCEPT ![p] = remove_line(data[ctl], TheLine(p), Op(p))]
    BY <1>8 DEF Read
  <2>2. TheLine(p) \in Line /\ (Op(p) # "update" => ctl # 0)
    BY <1>0, <2>1 DEF Engaged
  <2>3. ctl # 0 => data[ctl] \in Content
    BY <1>0, <1>i DEF FileTypes
  <2>4. <<TheLine(p)>> \in Content
    BY <2>2 DEF Content
  <2>5. ctl # 0 => update_file(data[ctl], TheLine(p)) \in Content
    BY <2>2, <2>3, UpdateContent
  <2>6. ctl # 0 => remove_line(data[ctl], TheLine(p), Op(p)) \in Content
    BY <2>3, RemoveContent
  <2>7. buf' \in [Proc -> Content]
    BY <1>0, <2>1, <2>2, <2>4, <2>5, <2>6 DEF FileTypes
  <2> QED
    BY <1>0, <2>1, <2>7 DEF FileTypes
<1>9. CASE Write(p)
  <2>1. data[tmp[p]] \in Content
    BY <1>0, <1>9, <1>i, <1>t DEF Write, Engaged
  <2>2. data' = [data EXCEPT ![tmp[p]] = Overlay(buf[p], data[tmp[p]])]
    BY <1>9 DEF Write
  <2>3. UNCHANGED <<ctl, bak, tmp, buf>>
    BY <1>9 DEF Write
  <2>4. Overlay(buf[p], data[tmp[p]]) \in Content
    BY <1>t, <2>1, OverlayContent
  <2>5. data' \in Seq(Content) /\ Len(data') = Len(data)
    BY <1>0, <2>2, <2>4, Rewritten
  <2> QED
    BY <1>0, <2>3, <2>5 DEF FileTypes
<1>10. CASE Rename(p)
  <2>1. UNCHANGED <<data, tmp, buf>> /\ ctl' \in {ctl, bak, tmp[p]} /\ bak' \in {bak, 0}
    BY <1>10 DEF Rename
  <2> QED
    BY <1>0, <1>e, <1>t, <2>1 DEF FileTypes
<1>11. CASE Unlink(p) BY <1>0, <1>11 DEF Unlink, FileTypes
<1>12. CASE Release(p) BY <1>0, <1>12 DEF Release, FileTypes
<1>13. CASE Undo(p) BY <1>0, <1>13 DEF Undo, FileTypes
<1>14. CASE Fault(p)
  <2>1. UNCHANGED <<data, tmp, ctl, buf>> /\ bak' \in {bak, 0}
    BY <1>14 DEF Fault, Fails, LockFails, SetupFails, WriteFails, RenameFails, Killed
  <2> QED
    BY <1>0, <1>e, <2>1 DEF FileTypes
<1> QED
  BY <1>1, <1>2, <1>3, <1>4, <1>5, <1>6, <1>7, <1>8, <1>9, <1>10, <1>11,
     <1>12, <1>13, <1>14 DEF Step

LEMMA TypeInvInit == Init => TypeInv
<1> SUFFICES ASSUME Init PROVE TypeInv
  OBVIOUS
<1>1. FileInv
  BY FileInit
<1>2. FileTypes
  <2>1. PICK s \in InitFiles : /\ ctl = IF s = NoFile THEN 0 ELSE 1
                               /\ data = IF s = NoFile THEN <<>> ELSE <<s>>
    BY DEF Init
  <2>2. s = NoFile \/ s \in Content
    BY FileAssumption
  <2>3. <<>> \in Content
    BY DEF Content
  <2>4. data \in Seq(Content) /\ ctl \in 0..Len(data) /\ 0 \in 0..Len(data)
    <3>1. CASE s = NoFile
      <4>1. data = <<>> /\ ctl = 0
        BY <2>1, <3>1
      <4> QED
        BY <4>1
    <3>2. CASE s # NoFile
      <4>1. data = <<s>> /\ ctl = 1 /\ s \in Content
        BY <2>1, <2>2, <3>2
      <4> QED
        BY <4>1
    <3> QED
      BY <3>1, <3>2
  <2> QED
    BY <2>3, <2>4 DEF Init, FileTypes
<1>3. TypeOK
  BY <1>1, <1>2, FaultAssumption DEF Init, TypeOK, FileInv, LockTypes, FileTypes
<1>4. \A p \in Proc : Engaged(p)
  BY DEF Init, Engaged
<1> QED
  BY <1>1, <1>3, <1>4 DEF TypeInv

LEMMA TypeInvStep == TypeInv /\ [Next]_vars => TypeInv'
<1> SUFFICES ASSUME TypeInv, [Next]_vars PROVE TypeInv'
  OBVIOUS
<1>1. FileInv' /\ (ctl # 0 => ctl' # 0)
  BY FileStep DEF TypeInv
<1>2. CASE UNCHANGED vars
  BY <1>1, <1>2 DEF vars, files, lock, control, TypeInv, TypeOK, Engaged, More, Op
<1>3. CASE Next
  <2>1. PICK p \in Proc : Step(p) \/ Fault(p)
    BY <1>3 DEF Next
  <2>2. FileTypes' /\ \A r \in Proc : Engaged(r)'
    BY <1>1, <2>1, FileTypesStep, EngagedStep
  <2>3. faults' \in 0..MaxFaults
    <3>1. faults \in 0..MaxFaults
      BY DEF TypeInv, TypeOK
    <3>2. Step(p) => faults' = faults
      BY DEF Step, Begin, Exit, MkTrunc, MkWrite, LockOpen, LockGrant, Temp, Read,
             Write, Rename, Unlink, Release, Undo
    <3>3. Fault(p) => faults < MaxFaults /\ faults' = faults + 1
      BY DEF Fault
    <3> QED
      BY <2>1, <3>1, <3>2, <3>3, FaultAssumption
  <2>4. TypeOK
    BY DEF TypeInv
  <2>5. /\ locks' \in Nat /\ lockName' \in 0..locks'
        /\ holder' \in [Proc -> 0..locks'] /\ fd' \in [Proc -> 0..locks']
    BY <2>1, <2>4, LockRanges
  <2>6. TypeOK'
    BY <1>1, <2>2, <2>3, <2>5 DEF TypeOK, FileTypes, FileInv, LockTypes
  <2> QED
    BY <1>1, <2>2, <2>6 DEF TypeInv
<1> QED
  BY <1>2, <1>3

(***************************************************************************)
(* The variables have their types, for any number of processes, lines,     *)
(* programs and faults: what update_file() and remove_line() write is made *)
(* of lines and terminators, and every name and every open file is one of  *)
(* an inode that exists.                                                   *)
(***************************************************************************)
THEOREM TypeCorrect == Spec => []TypeOK
<1>1. TypeInv => TypeOK
  BY DEF TypeInv
<1> QED
  BY <1>1, TypeInvInit, TypeInvStep, PTL DEF Spec

-----------------------------------------------------------------------------
(***************************************************************************)
(* The terminator.  An edit of a file that ends with the terminator and    *)
(* has it nowhere else makes another such file, when no line can be taken  *)
(* for the terminator.                                                     *)
(***************************************************************************)

Closed(s) ==
  s # <<>> /\ Last(s) = Dot /\ \A i \in 1..(Len(s) - 1) : s[i] # Dot

\* The terminator neither begins a line nor begins with one.
DotApart == \A l \in Line : ~Matches(Dot, l) /\ ~MatchesPartly(Dot, l)

\* The lines of Body(s) are lines and those of s.
LEMMA BodyFacts ==
  ASSUME NEW s \in Content
  PROVE  /\ Body(s) \in Seq(Line)
         /\ DOMAIN Body(s) = 1..Len(Body(s)) /\ Len(Body(s)) \in Nat
         /\ \A i \in DOMAIN Body(s) : \E j \in DOMAIN s : Body(s)[i] = s[j] /\ s[j] # Dot
         /\ \A j \in DOMAIN s : s[j] # Dot => \E i \in DOMAIN Body(s) : Body(s)[i] = s[j]
<1> DEFINE K == {i \in DOMAIN s : s[i] # Dot}
           n == Cardinality(K)
<1>1. Body(s) = Keep(s, K)
  BY DEF Body
<1>2. K \in SUBSET DOMAIN s /\ \A k \in K : s[k] \in Line /\ s[k] # Dot
  BY DEF Content
<1>a. \A j \in DOMAIN s : s[j] # Dot => j \in K
  OBVIOUS
<1> HIDE DEF K
<1>3. /\ n \in Nat /\ Body(s) \in [1..n -> Line \cup {Dot}]
      /\ \A i \in 1..n : Position(K, i) \in K /\ Body(s)[i] = s[Position(K, i)]
      /\ \A j \in K : \E i \in 1..n : Position(K, i) = j
  BY <1>1, <1>2, KeepFacts DEF Content
<1> HIDE DEF n
<1>4. \A i \in 1..n : Body(s)[i] \in Line
  BY <1>2, <1>3
<1>5. Body(s) \in [1..n -> Line]
  BY <1>3, <1>4
<1>6. Body(s) \in Seq(Line) /\ Len(Body(s)) = n
  BY <1>3, <1>5
<1>7. DOMAIN Body(s) = 1..n
  BY <1>3
<1> QED
  BY <1>2, <1>a, <1>3, <1>6, <1>7

\* What update_file() puts where.
LEMMA UpdateCloses ==
  ASSUME NEW s \in Content, Closed(s), NEW t \in Line
  PROVE  Closed(update_file(s, t))
<1> DEFINE body == Body(s)
           found == \E i \in DOMAIN body : Matches(body[i], t)
           mid == [i \in DOMAIN body |-> IF Matches(body[i], t) THEN t ELSE body[i]]
           add == IF found THEN <<>> ELSE <<t>>
<1>1. Contains(s, Dot)
  <2>1. Len(s) \in Nat /\ Len(s) # 0
    BY DEF Closed, Content
  <2>2. Len(s) \in 1..Len(s)
    BY <2>1
  <2> QED
    BY <2>2 DEF Contains, Closed, Last
<1>2. mid \in Seq(Line)
  <2>1. body \in Seq(Line) /\ DOMAIN body = 1..Len(body) /\ Len(body) \in Nat
    BY BodyFacts
  <2> HIDE DEF body
  <2>2. mid \in [1..Len(body) -> Line]
    BY <2>1
  <2> QED
    BY <2>1, <2>2
<1>3. add \in Seq(Line)
  <2>1. <<>> \in Seq(Line) /\ <<t>> \in Seq(Line)
    OBVIOUS
  <2> QED
    BY <2>1
<1>4. update_file(s, t) = mid \o add \o <<Dot>>
  BY <1>1 DEF update_file
<1> HIDE DEF mid, add
<1>5. mid \o add \in Seq(Line)
  BY <1>2, <1>3
<1> DEFINE m == mid \o add
<1> HIDE DEF m
<1>6. m \in Seq(Line) /\ update_file(s, t) = m \o <<Dot>>
  BY <1>4, <1>5 DEF m
<1>7. Len(m) \in Nat /\ \A i \in 1..Len(m) : m[i] \in Line
  BY <1>6
<1>8. Len(m \o <<Dot>>) = Len(m) + 1 /\ (m \o <<Dot>>)[Len(m) + 1] = Dot
  BY <1>6, <1>7
<1>9. \A i \in 1..Len(m) : (m \o <<Dot>>)[i] = m[i] /\ m[i] # Dot
  BY <1>6, <1>7, LineAssumption
<1>10. m \o <<Dot>> # <<>>
  BY <1>7, <1>8
<1> QED
  BY <1>6, <1>7, <1>8, <1>9, <1>10 DEF Closed, Last

\* What remove_line() leaves.
LEMMA RemoveCloses ==
  ASSUME NEW s \in Content, Closed(s), NEW t \in Line, DotApart,
         NEW op \in {"remove", "removeall", "removep"}
  PROVE  Closed(remove_line(s, t, op))
<1> DEFINE D == Dropped(s, t, op)
           K == DOMAIN s \ D
           n == Cardinality(K)
           k == Keep(s, K)
<1>1. Len(s) \in Nat /\ Len(s) # 0 /\ DOMAIN s = 1..Len(s) /\ s[Len(s)] = Dot
  BY DEF Closed, Content, Last
<1>2. Len(s) \notin D
  <2>1. D \subseteq {i \in DOMAIN s : Matches(s[i], t) \/ MatchesPartly(s[i], t)}
    BY DEF Dropped
  <2> HIDE DEF D
  <2> QED
    BY <1>1, <2>1 DEF DotApart
<1> HIDE DEF D
<1>3. K \in SUBSET DOMAIN s /\ Len(s) \in K
  BY <1>1, <1>2
<1> HIDE DEF K
<1>4. /\ n \in Nat /\ k \in Seq(Line \cup {Dot}) /\ Len(k) = n
      /\ \A i \in 1..n : Position(K, i) \in K /\ k[i] = s[Position(K, i)]
      /\ \A j \in K : \E i \in 1..n : Position(K, i) = j
      /\ \A i, j \in 1..n : i < j => Position(K, i) < Position(K, j)
  BY <1>3, KeepFacts DEF Content
<1> HIDE DEF n, k
<1>5. PICK i \in 1..n : Position(K, i) = Len(s)
  BY <1>3, <1>4
<1>6. \A j \in 1..n : Position(K, j) \in 1..Len(s)
  BY <1>1, <1>3, <1>4
<1>7. i = n
  <2>1. n \in 1..n /\ i \in Nat /\ n \in Nat /\ i <= n
    BY <1>4, <1>5
  <2>2. ~(i < n)
    BY <1>1, <1>4, <1>5, <1>6, <2>1
  <2> QED
    BY <2>1, <2>2
<1>8. k[n] = Dot /\ n # 0
  BY <1>1, <1>4, <1>5, <1>7
<1>9. \A j \in 1..(n - 1) : k[j] # Dot
  <2> SUFFICES ASSUME NEW j \in 1..(n - 1) PROVE k[j] # Dot
    OBVIOUS
  <2>1. j \in 1..n /\ n \in 1..n /\ j < n
    BY <1>4, <1>8
  <2>2. Position(K, j) < Len(s) /\ Position(K, j) \in 1..Len(s)
    BY <1>4, <1>5, <1>6, <1>7, <2>1
  <2>3. Position(K, j) \in 1..(Len(s) - 1)
    BY <1>1, <2>2
  <2> QED
    BY <1>4, <2>1, <2>3 DEF Closed
<1>10. k # <<>>
  BY <1>4, <1>8
<1>11. remove_line(s, t, op) = k
  BY DEF remove_line, k, K, D
<1> QED
  BY <1>4, <1>8, <1>9, <1>10, <1>11 DEF Closed, Last

-----------------------------------------------------------------------------
(***************************************************************************)
(* The edit under the lock.  With the lock only one process at a time is   *)
(* between creating the second file and renaming it, so the control file   *)
(* is the one that was read and the second file is its own.  The exception *)
(* is the second delDbLock() of a process that is past its edit: it may    *)
(* take "<file>.bak" away, and the rename then fails.                      *)
(***************************************************************************)

\* The content the edit of p is to write.
Result(p) ==
  IF Op(p) = "update" THEN update_file(data[ctl], TheLine(p))
                      ELSE remove_line(data[ctl], TheLine(p), Op(p))

\* The second file of p.
Draft(p) ==
  /\ pc[p] \in {"read", "write", "rename"} =>
       /\ tmp[p] # ctl /\ tmp[p] # 0
       /\ Op(p) = "update" => bak # tmp[p]
       /\ Op(p) # "update" => bak \in {0, tmp[p]}
  /\ pc[p] \in {"read", "write"} => data[tmp[p]] = <<>>
  /\ pc[p] = "write" => buf[p] = Result(p)
  /\ pc[p] = "rename" => data[tmp[p]] = Result(p)

\* The file exists, so nobody creates it, with or without the lock.
Standing ==
  /\ ctl # 0 /\ bak # ctl
  /\ \A p \in Proc : mode[p] # "early" /\ pc[p] \notin {"mktrunc", "mkwrite"}

DraftInv == TypeInv /\ LockInv /\ Standing /\ \A p \in Proc : Draft(p)

\* A process that is not at its second file has none to speak of.
LEMMA NoDraft ==
  ASSUME NEW r \in Proc, pc'[r] \notin {"read", "write", "rename"}
  PROVE  Draft(r)'
BY DEF Draft

\* The draft of r stays as it is in a step of another process that leaves the
\* inodes and the name of the file alone.
LEMMA Undisturbed ==
  ASSUME NEW r \in Proc, Draft(r), UNCHANGED <<data, ctl, prog>>, bak' \in {bak, 0},
         tmp'[r] = tmp[r], buf'[r] = buf[r], pc'[r] = pc[r], ip'[r] = ip[r]
  PROVE  Draft(r)'
<1>1. Op(r)' = Op(r) /\ TheLine(r)' = TheLine(r)
  BY DEF Op, TheLine
<1>2. Result(r)' = Result(r)
  BY <1>1 DEF Result
<1> QED
  BY <1>1, <1>2 DEF Draft

\* The process between the lock and the rename is the only one.
LEMMA Only ==
  ASSUME LockInv, Standing, NEW p \in Proc, NEW r \in Proc, r # p,
         pc[p] \in {"temp", "read", "write", "rename"}
  PROVE  pc[r] \notin {"temp", "read", "write", "rename"}
<1>1. OneEditor
  BY DEF LockInv, OneEditor, OwnLock, Exclusive, SameLock, Contends
<1>2. Editing(p)
  BY DEF Editing, Standing
<1>3. ~Editing(r)
  BY <1>1, <1>2 DEF OneEditor
<1> QED
  BY <1>3 DEF Editing, Standing

LEMMA StandingStep ==
  ASSUME TypeInv, Standing, NEW p \in Proc, Step(p) \/ Fault(p),
         \A r \in Proc : Draft(r)
  PROVE  Standing'
<1>0. /\ LockTypes /\ ctl \in Nat /\ bak \in Nat /\ tmp \in [Proc -> Nat] /\ Draft(p)
      /\ ctl \in 0..Len(data) /\ Len(data) \in Nat
  BY DEF TypeInv, FileInv, TypeOK
<1>1. ctl' # 0 /\ bak' # ctl'
  <2> USE <1>0 DEF Standing, Goto, Return, lock, files
  <2>1. CASE Temp(p)
    <3>1. ctl' = ctl
      BY <2>1 DEF Temp
    <3>2. tmp' = [tmp EXCEPT ![p] = IF Op(p) = "update" \/ bak = 0 THEN Len(data) + 1 ELSE bak]
      BY <2>1 DEF Temp
    <3>3. tmp'[p] # ctl
      BY <3>2
    <3>4. bak' = IF Op(p) = "update" THEN bak ELSE tmp'[p]
      BY <2>1 DEF Temp
    <3> QED
      BY <3>1, <3>3, <3>4
  <2>2. CASE Rename(p)
    <3>1. pc[p] = "rename" /\ tmp[p] # 0 /\ tmp[p] # ctl
      BY <2>2 DEF Rename, Draft
    <3>2. \/ Op(p) = "update" /\ ctl' = tmp[p] /\ bak' = bak
          \/ Op(p) # "update" /\ bak # 0 /\ ctl' = bak /\ bak' = 0
          \/ UNCHANGED <<ctl, bak>>
      BY <2>2 DEF Rename
    <3>3. Op(p) = "update" => bak # tmp[p]
      BY <3>1 DEF Draft
    <3> QED
      BY <3>1, <3>2, <3>3
  <2>3. CASE ~Temp(p) /\ ~Rename(p)
    <3>1. CASE Step(p)
      <4>1. ctl' = ctl /\ bak' \in {bak, 0}
        BY <2>3, <3>1 DEF Step, Begin, Exit, MkTrunc, MkWrite, LockOpen, LockGrant, Read,
             Write, Unlink, Release, Undo
      <4> QED
        BY <4>1
    <3>2. CASE Fault(p)
      <4>1. ctl' = ctl /\ bak' \in {bak, 0}
        BY <3>2 DEF Fault, Fails, LockFails, SetupFails, WriteFails, RenameFails, Killed
      <4> QED
        BY <4>1
    <3> QED
      BY <3>1, <3>2
  <2> QED
    BY <2>1, <2>2, <2>3
<1>2. \A r \in Proc : mode'[r] # "early" /\ pc'[r] \notin {"mktrunc", "mkwrite"}
  <2> USE <1>0 DEF LockTypes, Standing, Goto, Return, lock, files
  <2>1. CASE Begin(p)   BY <2>1 DEF Begin
  <2>2. CASE Exit(p)    BY <2>2 DEF Exit
  <2>3. CASE MkTrunc(p) BY <2>3 DEF MkTrunc
  <2>4. CASE MkWrite(p) BY <2>4 DEF MkWrite
  <2>5. CASE LockOpen(p) BY <2>5 DEF LockOpen
  <2>6. CASE LockGrant(p) BY <2>6 DEF LockGrant
  <2>7. CASE Temp(p) BY <2>7 DEF Temp
  <2>8. CASE Read(p) BY <2>8 DEF Read
  <2>9. CASE Write(p) BY <2>9 DEF Write
  <2>10. CASE Rename(p) BY <2>10 DEF Rename
  <2>11. CASE Unlink(p) BY <2>11 DEF Unlink
  <2>12. CASE Release(p) BY <2>12 DEF Release
  <2>13. CASE Undo(p) BY <2>13 DEF Undo
  <2>14. CASE Fault(p) BY <2>14 DEF Fault, Fails, LockFails, SetupFails,
                                    WriteFails, RenameFails, Killed
  <2> QED
    BY <2>1, <2>2, <2>3, <2>4, <2>5, <2>6, <2>7, <2>8, <2>9, <2>10, <2>11,
       <2>12, <2>13, <2>14 DEF Step
<1> QED
  BY <1>1, <1>2 DEF Standing

LEMMA DraftStep ==
  ASSUME DraftInv, NEW p \in Proc, Step(p) \/ Fault(p)
  PROVE  \A r \in Proc : Draft(r)'
<1> SUFFICES ASSUME NEW r \in Proc PROVE Draft(r)'
  OBVIOUS
<1>0. /\ TypeInv /\ LockInv /\ LockTypes /\ Standing /\ Draft(r) /\ Draft(p) /\ FileTypes
      /\ tmp \in [Proc -> Nat] /\ Engaged(p) /\ Len(data) \in Nat
      /\ More(p) => Op(p) \in Ops /\ TheLine(p) \in Line
  <2>1. TypeInv /\ LockInv /\ Standing /\ Draft(r) /\ Draft(p)
    BY DEF DraftInv
  <2>2. FileTypes /\ LockTypes /\ Engaged(p) /\ tmp \in [Proc -> Nat]
    BY <2>1 DEF TypeInv, TypeOK, FileInv, FileTypes
  <2>3. Len(data) \in Nat
    BY <2>2 DEF FileTypes
  <2>4. More(p) => Op(p) \in Ops /\ TheLine(p) \in Line
    BY <2>2, EditTypes DEF LockTypes
  <2> QED
    BY <2>1, <2>2, <2>3, <2>4
<1>i. \A i \in 0..Len(data) : i # 0 => data[i] \in Content
  BY <1>0 DEF FileTypes
<1>t. tmp[p] \in 0..Len(data) /\ ctl \in 0..Len(data) /\ buf[p] \in Content
  BY <1>0 DEF FileTypes
<1>o. UNCHANGED <<prog, ip>> => Op(p)' = Op(p) /\ TheLine(p)' = TheLine(p)
  BY DEF Op, TheLine
<1>a. CASE r # p /\ pc[p] \in {"temp", "read", "write", "rename"}
  <2>1. pc[r] \notin {"temp", "read", "write", "rename"}
    BY <1>0, <1>a, Only
  <2>2. pc'[r] = pc[r]
    <3>1. \E l : pc' = [pc EXCEPT ![p] = l]
      <4>1. CASE Step(p)
        BY <4>1, Zenon DEF Step, Begin, Exit, MkTrunc, MkWrite, LockOpen, LockGrant, Temp,
             Read, Write, Rename, Unlink, Release, Undo, Goto, Return
      <4>2. CASE Fault(p)
        BY <4>2, Zenon DEF Fault, Fails, LockFails, SetupFails, WriteFails, RenameFails, Killed, Goto
      <4> QED
        BY <4>1, <4>2
    <3> QED
      BY <1>0, <1>a, <3>1 DEF LockTypes
  <2> QED
    BY <2>1, <2>2, NoDraft
<1>b. CASE r # p /\ pc[p] \notin {"temp", "read", "write", "rename"}
  <2> USE DEF Goto, Return, files, lock
  <2>1. /\ UNCHANGED <<data, ctl, prog, tmp, buf>> /\ bak' \in {bak, 0}
        /\ pc'[r] = pc[r] /\ ip'[r] = ip[r]
    <3> USE <1>0, <1>b DEF LockTypes, Standing
    <3>1. CASE Begin(p)   BY <3>1 DEF Begin
    <3>2. CASE Exit(p)    BY <3>2 DEF Exit
    <3>3. CASE MkTrunc(p) BY <3>3 DEF MkTrunc
    <3>4. CASE MkWrite(p) BY <3>4 DEF MkWrite
    <3>5. CASE LockOpen(p) BY <3>5 DEF LockOpen
    <3>6. CASE LockGrant(p) BY <3>6 DEF LockGrant
    <3>7. CASE Temp(p) \/ Read(p) \/ Write(p) \/ Rename(p)
      BY <3>7 DEF Temp, Read, Write, Rename
    <3>11. CASE Unlink(p) BY <3>11 DEF Unlink
    <3>12. CASE Release(p) BY <3>12 DEF Release
    <3>13. CASE Undo(p) BY <3>13 DEF Undo
    <3>14. CASE Fault(p) BY <3>14 DEF Fault, Fails, LockFails, SetupFails,
                                      WriteFails, RenameFails, Killed
    <3> QED
      BY <3>1, <3>2, <3>3, <3>4, <3>5, <3>6, <3>7, <3>11, <3>12, <3>13, <3>14 DEF Step
  <2> QED
    BY <1>0, <2>1, Undisturbed
<1>c. CASE r = p
  <2> USE DEF Goto, Return, files, lock
  <2>1. CASE Temp(p)
    <3>1. pc'[p] = "read" /\ UNCHANGED <<ctl, prog, ip>>
      BY <1>0, <2>1 DEF Temp, LockTypes
    <3>2. CASE Op(p) = "update" \/ bak = 0
      <4>1. data' = Append(data, <<>>) /\ tmp'[p] = Len(data) + 1
        BY <1>0, <2>1, <3>2 DEF Temp
      <4>2. data'[Len(data) + 1] = <<>>
        BY <1>0, <4>1 DEF FileTypes
      <4>3. bak' = IF Op(p) = "update" THEN bak ELSE Len(data) + 1
        BY <2>1, <4>1 DEF Temp
      <4>4. ctl # Len(data) + 1 /\ bak # Len(data) + 1 /\ Len(data) + 1 # 0
        BY <1>0, <1>t DEF FileTypes
      <4> QED
        BY <1>c, <1>o, <3>1, <4>1, <4>2, <4>3, <4>4 DEF Draft
    <3>3. CASE ~(Op(p) = "update" \/ bak = 0)
      <4>1. data' = [data EXCEPT ![bak] = <<>>] /\ tmp'[p] = bak
        BY <1>0, <2>1, <3>3 DEF Temp
      <4>2. data'[bak] = <<>>
        BY <1>0, <3>3, <4>1 DEF FileTypes
      <4>3. bak' = bak
        BY <2>1, <3>3, <4>1 DEF Temp
      <4> QED
        BY <1>0, <1>c, <1>o, <3>1, <3>3, <4>1, <4>2, <4>3 DEF Draft, Standing
    <3> QED
      BY <3>2, <3>3
  <2>2. CASE Read(p)
    <3>1. UNCHANGED <<data, ctl, bak, tmp, prog, ip>> /\ pc[p] = "read" /\ pc'[p] = "write"
      BY <1>0, <2>2 DEF Read, LockTypes
    <3>2. buf'[p] = Result(p)
      <4>1. /\ Op(p) = "update" => buf' = [buf EXCEPT ![p] = update_file(data[ctl], TheLine(p))]
            /\ Op(p) # "update" => buf' = [buf EXCEPT ![p] = remove_line(data[ctl], TheLine(p), Op(p))]
        BY <1>0, <2>2 DEF Read, Standing
      <4>2. p \in DOMAIN buf
        BY <1>0 DEF FileTypes
      <4> QED
        BY <4>1, <4>2 DEF Result
    <3>3. Result(p)' = Result(p)
      BY <1>o, <3>1 DEF Result
    <3> QED
      BY <1>0, <1>c, <1>o, <3>1, <3>2, <3>3 DEF Draft
  <2>3. CASE Write(p)
    <3>1. UNCHANGED <<ctl, bak, tmp, prog, ip>> /\ pc[p] = "write" /\ pc'[p] = "rename"
      BY <1>0, <2>3 DEF Write, LockTypes, Standing
    <3>2. data' = [data EXCEPT ![tmp[p]] = Overlay(buf[p], data[tmp[p]])]
      BY <2>3 DEF Write
    <3>3. /\ tmp[p] \in DOMAIN data /\ tmp[p] # ctl /\ data[tmp[p]] = <<>>
          /\ buf[p] = Result(p)
      BY <1>0, <1>t, <3>1 DEF Draft, FileTypes
    <3>4. Overlay(buf[p], <<>>) = buf[p]
      <4>1. Len(buf[p]) \in Nat /\ Len(<<>>) = 0
        BY <1>t DEF Content
      <4>2. SubSeq(<<>>, Len(buf[p]) + 1, Len(<<>>)) = <<>>
        <5>1. Len(buf[p]) + 1 \in Int /\ 0 \in Int /\ 0 < Len(buf[p]) + 1
          BY <4>1
        <5>2. SubSeq(<<>>, Len(buf[p]) + 1, 0) = <<>>
          BY <5>1, SubSeqEmpty
        <5> QED
          BY <4>1, <5>2
      <4>3. buf[p] \o <<>> = buf[p]
        BY <1>t, ConcatEmptySeq DEF Content
      <4> QED
        BY <4>2, <4>3 DEF Overlay
    <3>5. data'[tmp[p]] = Result(p) /\ data'[ctl] = data[ctl]
      BY <3>2, <3>3, <3>4
    <3>6. Result(p)' = Result(p)
      BY <1>o, <3>1, <3>5 DEF Result
    <3> QED
      BY <1>0, <1>c, <1>o, <3>1, <3>5, <3>6 DEF Draft
  <2>4. CASE ~Temp(p) /\ ~Read(p) /\ ~Write(p)
    <3>1. pc'[p] \notin {"read", "write", "rename"}
      <4> USE <1>0 DEF LockTypes, Standing
      <4>1. CASE Begin(p)   BY <4>1 DEF Begin
      <4>2. CASE Exit(p)    BY <4>2 DEF Exit
      <4>3. CASE MkTrunc(p) BY <4>3 DEF MkTrunc
      <4>4. CASE MkWrite(p) BY <4>4 DEF MkWrite
      <4>5. CASE LockOpen(p) BY <4>5 DEF LockOpen
      <4>6. CASE LockGrant(p) BY <4>6 DEF LockGrant
      <4>10. CASE Rename(p) BY <4>10 DEF Rename
      <4>11. CASE Unlink(p) BY <4>11 DEF Unlink
      <4>12. CASE Release(p) BY <4>12 DEF Release
      <4>13. CASE Undo(p) BY <4>13 DEF Undo
      <4>14. CASE Fault(p) BY <4>14 DEF Fault, Fails, LockFails, SetupFails,
                                        WriteFails, RenameFails, Killed
      <4> QED
        BY <2>4, <4>1, <4>2, <4>3, <4>4, <4>5, <4>6, <4>10, <4>11, <4>12, <4>13, <4>14 DEF Step
    <3> QED
      BY <1>c, <3>1, NoDraft
  <2> QED
    BY <2>1, <2>2, <2>3, <2>4
<1> QED
  BY <1>a, <1>b, <1>c

\* What changes the lines of the file: nothing but the rename.
LEMMA FileChanges ==
  ASSUME DraftInv, NEW p \in Proc, Step(p) \/ Fault(p)
  PROVE  \/ data'[ctl'] = data[ctl]
         \/ /\ Rename(p) /\ mode' = [mode EXCEPT ![p] = "made"]
            /\ data'[ctl'] = Result(p)
<1>0. /\ Standing /\ FileTypes /\ Draft(p) /\ Len(data) \in Nat
      /\ ctl \in 1..Len(data) /\ LockTypes
  <2>1. TypeInv /\ Standing /\ Draft(p)
    BY DEF DraftInv
  <2>2. FileTypes /\ LockTypes
    BY <2>1 DEF TypeInv, TypeOK, FileInv, FileTypes
  <2> QED
    BY <2>1, <2>2 DEF FileTypes, Standing
<1> USE DEF Goto, Return, files, lock
<1>1. CASE Temp(p)
  <2>1. ctl' = ctl /\ (data' = Append(data, <<>>) \/ data' = [data EXCEPT ![bak] = <<>>])
    BY <1>1 DEF Temp
  <2>2. Append(data, <<>>)[ctl] = data[ctl] /\ [data EXCEPT ![bak] = <<>>][ctl] = data[ctl]
    BY <1>0 DEF FileTypes, Standing
  <2> QED
    BY <2>1, <2>2
<1>2. CASE Write(p)
  <2>1. ctl' = ctl /\ data' = [data EXCEPT ![tmp[p]] = Overlay(buf[p], @)] /\ tmp[p] # ctl
    BY <1>0, <1>2 DEF Write, Draft
  <2> QED
    BY <1>0, <2>1 DEF FileTypes
<1>3. CASE Rename(p)
  <2>1. pc[p] = "rename" /\ data' = data
    BY <1>3 DEF Rename
  <2>2. data[tmp[p]] = Result(p) /\ (Op(p) # "update" => bak \in {0, tmp[p]})
    BY <1>0, <2>1 DEF Draft
  <2>3. \/ Op(p) = "update" /\ ctl' = tmp[p] /\ mode' = [mode EXCEPT ![p] = "made"]
        \/ /\ Op(p) # "update" /\ bak # 0 /\ ctl' = bak
           /\ mode' = [mode EXCEPT ![p] = "made"]
        \/ ctl' = ctl
    BY <1>3 DEF Rename
  <2> QED
    BY <1>3, <2>1, <2>2, <2>3
<1>4. CASE ~Temp(p) /\ ~Write(p) /\ ~Rename(p)
  <2>1. UNCHANGED <<data, ctl>>
    <3>1. CASE Step(p)
      BY <1>0, <1>4, <3>1 DEF Step, Begin, Exit, MkTrunc, MkWrite, LockOpen, LockGrant, Read,
           Unlink, Release, Undo, Standing
    <3>2. CASE Fault(p)
      BY <3>2 DEF Fault, Fails, LockFails, SetupFails, WriteFails, RenameFails, Killed
    <3> QED
      BY <3>1, <3>2
  <2> QED
    BY <2>1
<1> QED
  BY <1>1, <1>2, <1>3, <1>4

\* The file is there at the start.
AllThere == \A s \in InitFiles : s # NoFile

LEMMA DraftInvInit ==
  ASSUME AllThere, Init
  PROVE  DraftInv
<1>1. TypeInv
  BY TypeInvInit
<1>2. LockInv
  BY DEF Init, LockInv, LockTypes, OwnLock, Exclusive, SameLock, Contends,
         Editing, Points, Modes
<1>3. ctl = 1
  BY DEF Init, AllThere
<1>4. Standing
  BY <1>3 DEF Init, Standing
<1>5. \A p \in Proc : Draft(p)
  BY DEF Init, Draft
<1> QED
  BY <1>1, <1>2, <1>4, <1>5 DEF DraftInv

LEMMA DraftInvStep ==
  ASSUME TwoSingleEdits, DraftInv, [Next]_vars
  PROVE  DraftInv'
<1>1. TypeInv' /\ LockInv'
  BY TypeInvStep, LockInvStep DEF DraftInv
<1>2. CASE UNCHANGED vars
  <2>1. Standing'
    BY <1>2 DEF vars, files, control, DraftInv, Standing
  <2>2. ASSUME NEW r \in Proc PROVE Draft(r)'
    BY <1>2, Undisturbed DEF vars, files, control, DraftInv
  <2> QED
    BY <1>1, <2>1, <2>2 DEF DraftInv
<1>3. CASE Next
  <2>1. PICK p \in Proc : Step(p) \/ Fault(p)
    BY <1>3 DEF Next
  <2>2. \A r \in Proc : Draft(r)'
    BY <2>1, DraftStep
  <2>3. Standing'
    BY <2>1, StandingStep DEF DraftInv
  <2> QED
    BY <1>1, <2>2, <2>3 DEF DraftInv
<1> QED
  BY <1>2, <1>3

(***************************************************************************)
(* Two processes edit users/assign, once each and in any way, and whatever *)
(* fails it ends with the terminator and has it nowhere else: a reader     *)
(* never sees the file half written, and no edit takes the terminator for  *)
(* a line.                                                                 *)
(***************************************************************************)
THEOREM StaysTerminated ==
  ASSUME TwoSingleEdits, DotApart,
         \A s \in InitFiles : s # NoFile /\ Closed(s)
  PROVE  Spec => []Terminated
<1> DEFINE Inv == DraftInv /\ Closed(data[ctl])
<1>1. Init => Inv
  <2> SUFFICES ASSUME Init PROVE Inv
    OBVIOUS
  <2>1. DraftInv
    BY DraftInvInit DEF AllThere
  <2>2. PICK s \in InitFiles : ctl = 1 /\ data = <<s>>
    BY DEF Init
  <2>3. Closed(s) /\ data[ctl] = s
    BY <2>2
  <2> QED
    BY <2>1, <2>3
<1>2. Inv /\ [Next]_vars => Inv'
  <2> SUFFICES ASSUME Inv, [Next]_vars PROVE Inv'
    OBVIOUS
  <2>1. DraftInv'
    BY DraftInvStep
  <2>2. CASE UNCHANGED vars
    BY <2>1, <2>2 DEF vars, files, Closed
  <2>3. CASE Next
    <3>1. PICK p \in Proc : Step(p) \/ Fault(p)
      BY <2>3 DEF Next
    <3>2. CASE data'[ctl'] = data[ctl]
      BY <2>1, <3>2 DEF Closed
    <3>3. CASE Rename(p) /\ data'[ctl'] = Result(p)
      <4>1. More(p) /\ Op(p) # "create"
        BY <3>3 DEF DraftInv, TypeInv, Engaged, Rename
      <4>2. Op(p) \in Ops /\ TheLine(p) \in Line
        BY <4>1, EditTypes DEF DraftInv, TypeInv, TypeOK
      <4>3. data[ctl] \in Content
        BY DEF DraftInv, TypeInv, TypeOK, Standing
      <4>4. Closed(Result(p))
        <5>1. Op(p) = "update" => Closed(update_file(data[ctl], TheLine(p)))
          BY <4>2, <4>3, UpdateCloses
        <5>2. Op(p) # "update" => Op(p) \in {"remove", "removeall", "removep"}
          BY <4>1, <4>2 DEF Ops
        <5>3. Op(p) # "update" => Closed(remove_line(data[ctl], TheLine(p), Op(p)))
          BY <4>2, <4>3, <5>2, RemoveCloses
        <5> QED
          BY <5>1, <5>3 DEF Result
      <4>5. Closed(data[ctl])' <=> Closed(data'[ctl'])
        BY DEF Closed
      <4> QED
        BY <2>1, <3>3, <4>4, <4>5
    <3> QED
      BY <3>1, <3>2, <3>3, FileChanges
  <2> QED
    BY <2>2, <2>3
<1>3. Inv => Terminated
  BY DEF Closed, Terminated
<1> QED
  BY <1>1, <1>2, <1>3, PTL DEF Spec

-----------------------------------------------------------------------------
(***************************************************************************)
(* The refinement of AtomicFile.  It is stated for lines none of which     *)
(* begins another (str_diffn() takes a line for another that it begins)    *)
(* and for a file without repeated lines (remove_line() with once_only     *)
(* removes one of them).                                                   *)
(***************************************************************************)

Unrelated == \A l, m \in Line \cup {Dot} : IsPrefix(l, m) <=> l = m

Plain(s) == \A i, j \in DOMAIN s : s[i] = s[j] => i = j

\* add_domain_assign() creates the file only where there is none.
NoCreate == \A pr \in Programs : \A p \in Proc : pr[p][1].op # "create"

LEMMA PlainAppend ==
  ASSUME NEW S, NEW s \in Seq(S), NEW x \in S
  PROVE  /\ ToSet(Append(s, x)) = ToSet(s) \cup {x}
         /\ Plain(s) /\ x \notin ToSet(s) => Plain(Append(s, x))
<1> DEFINE u == Append(s, x)
           n == Len(s)
<1>1. n \in Nat /\ DOMAIN s = 1..n
  OBVIOUS
<1>2. DOMAIN u = 1..(n + 1) /\ u[n + 1] = x /\ \A i \in 1..n : u[i] = s[i]
  OBVIOUS
<1> HIDE DEF u, n
<1>3. \A i \in 1..(n + 1) : i \in 1..n \/ i = n + 1
  BY <1>1
<1>4. \A i \in 1..n : i \in 1..(n + 1) /\ i # n + 1
  BY <1>1
<1>5. n + 1 \in 1..(n + 1)
  BY <1>1
<1>6. ToSet(u) = ToSet(s) \cup {x}
  BY <1>1, <1>2, <1>3, <1>4, <1>5 DEF ToSet
<1>7. ASSUME Plain(s), x \notin ToSet(s) PROVE Plain(u)
  <2> SUFFICES ASSUME NEW i \in 1..(n + 1), NEW j \in 1..(n + 1), u[i] = u[j] PROVE i = j
    BY <1>2 DEF Plain
  <2>1. \A k \in 1..n : s[k] # x
    BY <1>1, <1>7 DEF ToSet
  <2> QED
    BY <1>1, <1>2, <1>3, <1>7, <2>1 DEF Plain
<1> QED
  BY <1>6, <1>7 DEF u

\* Leaving lines out of a file leaves the others, and repeats none.
LEMMA PlainKeep ==
  ASSUME NEW s \in Content, NEW K \in SUBSET DOMAIN s
  PROVE  /\ ToSet(Keep(s, K)) = {s[k] : k \in K}
         /\ Plain(s) => Plain(Keep(s, K))
<1> DEFINE k == Keep(s, K)
           n == Cardinality(K)
<1>1. /\ n \in Nat /\ k \in [1..n -> Line \cup {Dot}]
      /\ \A i \in 1..n : Position(K, i) \in K /\ k[i] = s[Position(K, i)]
      /\ \A j \in K : \E i \in 1..n : Position(K, i) = j
      /\ \A i, j \in 1..n : i < j => Position(K, i) < Position(K, j)
  BY KeepFacts DEF Content
<1>2. DOMAIN k = 1..n
  BY <1>1
<1> HIDE DEF k, n
<1>3. ToSet(k) = {s[j] : j \in K}
  BY <1>1, <1>2 DEF ToSet
<1>4. ASSUME Plain(s) PROVE Plain(k)
  <2> SUFFICES ASSUME NEW i \in 1..n, NEW j \in 1..n, k[i] = k[j] PROVE i = j
    BY <1>2 DEF Plain
  <2>1. Position(K, i) = Position(K, j)
    BY <1>1, <1>4 DEF Plain
  <2>2. Position(K, i) \in Nat /\ i \in Nat /\ j \in Nat
    BY <1>1 DEF Content
  <2>3. ~(i < j) /\ ~(j < i)
    BY <1>1, <2>1, <2>2
  <2> QED
    BY <2>2, <2>3
<1> QED
  BY <1>3, <1>4 DEF k

\* Adding a line.
LEMMA UpdateEffect ==
  ASSUME Unrelated, NEW s \in Content, Plain(s), NEW t \in Line
  PROVE  /\ ToSet(update_file(s, t)) \ {Dot} = (ToSet(s) \ {Dot}) \cup {t}
         /\ Plain(update_file(s, t))
<1> DEFINE body == Body(s)
           found == \E i \in DOMAIN body : Matches(body[i], t)
           mid == [i \in DOMAIN body |-> IF Matches(body[i], t) THEN t ELSE body[i]]
           add == IF found THEN <<>> ELSE <<t>>
           dot == IF Contains(s, Dot) THEN <<Dot>> ELSE <<>>
           u == IF found THEN body ELSE Append(body, t)
<1>1. /\ body \in Seq(Line) /\ DOMAIN body = 1..Len(body)
      /\ \A i \in DOMAIN body : body[i] \in Line
  BY BodyFacts
<1>2. Plain(body) /\ ToSet(body) = ToSet(s) \ {Dot}
  <2> DEFINE K == {i \in DOMAIN s : s[i] # Dot}
  <2>1. K \in SUBSET DOMAIN s /\ {s[k] : k \in K} = ToSet(s) \ {Dot}
    BY DEF ToSet
  <2>2. body = Keep(s, K)
    BY DEF Body
  <2> HIDE DEF K, body
  <2> QED
    BY <2>1, <2>2, PlainKeep
<1> HIDE DEF body
<1>3. \A i \in DOMAIN body : Matches(body[i], t) <=> body[i] = t
  BY <1>1 DEF Unrelated, Matches
<1>4. mid = body
  <2>1. mid = [i \in DOMAIN body |-> body[i]]
    BY <1>3
  <2> QED
    BY <1>1, <2>1
<1>5. found <=> t \in ToSet(body)
  BY <1>3 DEF ToSet
<1>6. mid \o add = u
  <2>1. body \o <<>> = body /\ body \o <<t>> = Append(body, t)
    BY <1>1, ConcatEmptySeq
  <2> QED
    BY <1>4, <2>1
<1>7. u \in Seq(Line) /\ Plain(u) /\ ToSet(u) = ToSet(body) \cup {t}
  <2>1. Append(body, t) \in Seq(Line)
    BY <1>1
  <2>2. /\ ToSet(Append(body, t)) = ToSet(body) \cup {t}
        /\ t \notin ToSet(body) => Plain(Append(body, t))
    BY <1>1, <1>2, PlainAppend
  <2> HIDE DEF found
  <2> QED
    BY <1>1, <1>2, <1>5, <2>1, <2>2
<1> HIDE DEF mid, add, u
<1>8. update_file(s, t) = u \o dot
  <2>1. update_file(s, t) = mid \o add \o dot
    BY DEF update_file, mid, add, body
  <2> QED
    BY <1>6, <2>1
<1>9. Dot \notin ToSet(u) /\ u \in Seq(Line \cup {Dot})
  <2>1. \A i \in DOMAIN u : u[i] \in Line
    BY <1>7
  <2> QED
    BY <1>7, <2>1, LineAssumption DEF ToSet
<1>10. /\ u \o <<>> = u /\ u \o <<Dot>> = Append(u, Dot)
       /\ ToSet(Append(u, Dot)) = ToSet(u) \cup {Dot} /\ Plain(Append(u, Dot))
  <2>1. u \o <<>> = u /\ u \o <<Dot>> = Append(u, Dot)
    BY <1>7, ConcatEmptySeq
  <2>2. ToSet(Append(u, Dot)) = ToSet(u) \cup {Dot} /\ Plain(Append(u, Dot))
    BY <1>7, <1>9, PlainAppend
  <2> QED
    BY <2>1, <2>2
<1>11. Plain(u \o dot) /\ ToSet(u \o dot) \ {Dot} = ToSet(u)
  BY <1>7, <1>9, <1>10
<1>12. t # Dot
  BY LineAssumption
<1> QED
  BY <1>2, <1>7, <1>8, <1>11, <1>12

\* Removing one.
LEMMA RemoveEffect ==
  ASSUME Unrelated, NEW s \in Content, Plain(s), NEW t \in Line,
         NEW op \in {"remove", "removeall", "removep"}
  PROVE  /\ ToSet(remove_line(s, t, op)) \ {Dot} = (ToSet(s) \ {Dot}) \ {t}
         /\ Plain(remove_line(s, t, op))
<1> DEFINE K == DOMAIN s \ Dropped(s, t, op)
<1>1. \A i \in DOMAIN s : /\ Matches(s[i], t) <=> s[i] = t
                          /\ MatchesPartly(s[i], t) <=> s[i] = t
  BY DEF Unrelated, Matches, MatchesPartly, Content
<1>2. Dropped(s, t, op) = {i \in DOMAIN s : s[i] = t}
  <2> DEFINE hits == {i \in DOMAIN s : Matches(s[i], t)}
  <2>1. hits = {i \in DOMAIN s : s[i] = t} /\ {i \in DOMAIN s : MatchesPartly(s[i], t)} = hits
    BY <1>1
  <2>2. {i \in hits : \A j \in hits : i <= j} = hits
    <3>1. \A i, j \in hits : i = j /\ i \in Nat
      BY <2>1 DEF Plain, Content
    <3>2. \A i, j \in hits : i <= j
      BY <3>1
    <3> QED
      BY <3>2
  <2>3. Dropped(s, t, op) = CASE op = "remove" -> {i \in hits : \A j \in hits : i <= j}
                              [] op = "removeall" -> hits
                              [] op = "removep" -> {i \in DOMAIN s : MatchesPartly(s[i], t)}
    BY DEF Dropped
  <2> HIDE DEF hits
  <2> QED
    BY <2>1, <2>2, <2>3
<1>3. K \in SUBSET DOMAIN s /\ {s[k] : k \in K} = ToSet(s) \ {t}
  BY <1>2 DEF ToSet
<1>4. remove_line(s, t, op) = Keep(s, K)
  BY DEF remove_line
<1> HIDE DEF K
<1>5. ToSet(Keep(s, K)) = ToSet(s) \ {t} /\ Plain(Keep(s, K))
  BY <1>3, PlainKeep
<1> QED
  BY <1>4, <1>5

\* The lines a reader sees, and who has made its edit, as AtomicFile has them.
Seen == IF ctl = 0 THEN {} ELSE ToSet(data[ctl]) \ {Dot}
Made(p) == mode[p] = "made" \/ 1 \in done[p]

\* A process whose edit is still to come has not made it.
Ahead(p) == Pending(p) => mode[p] = "ok" /\ ip[p] = 1 /\ 1 \notin done[p]

\* What a step of p means to AtomicFile: for the others nothing; for p nothing, or
\* its edit, or that it gives up.
LEMMA Meaning ==
  ASSUME TwoSingleEdits, NoCreate, DraftInv, NEW p \in Proc, Step(p) \/ Fault(p), Ahead(p)
  PROVE  /\ prog' = prog
         /\ \A r \in Proc \ {p} : (Pending(r)' <=> Pending(r)) /\ (Made(r)' <=> Made(r))
         /\ \A r \in Proc \ {p} : mode'[r] = mode[r] /\ ip'[r] = ip[r] /\ done'[r] = done[r]
         /\ \/ /\ Rename(p) /\ mode'[p] = "made"
               /\ Pending(p) /\ ~Pending(p)' /\ Made(p)'
            \/ /\ ~(Rename(p) /\ mode'[p] = "made")
               /\ Pending(p)' => Pending(p)
               /\ Made(p)' <=> Made(p)
         /\ Ahead(p)'
<1>0. /\ LockTypes /\ Standing /\ OwnLock(p) /\ Engaged(p)
      /\ Len(prog[p]) = 1 /\ prog[p][1].op # "create"
  <2>1. TypeInv /\ LockInv /\ Standing /\ LockTypes
    BY DEF DraftInv, LockInv
  <2>2. prog \in Programs
    BY <2>1 DEF LockTypes
  <2> QED
    BY <2>1, <2>2 DEF TypeInv, LockInv, TwoSingleEdits, NoCreate
<1>1. \A r \in Proc : Pending(r) <=> \/ pc[r] \in {"open", "wait", "temp", "read", "write", "rename"}
                                     \/ pc[r] = "next" /\ ip[r] <= Len(prog[r])
  BY <1>0 DEF Pending, Standing, More
<1>n. pc[p] = "next" /\ ip[p] <= 1 => ip[p] = 1
  <2>1. ip[p] \in Nat \ {0}
    BY <1>0 DEF LockTypes
  <2> QED
    BY <2>1
<1>2. Standing'
  <2>1. TypeInv /\ Standing /\ \A r \in Proc : Draft(r)
    BY DEF DraftInv
  <2> QED
    BY <2>1, StandingStep
<1>3. \A r \in Proc : Pending(r)' <=> \/ pc'[r] \in {"open", "wait", "temp", "read", "write", "rename"}
                                      \/ pc'[r] = "next" /\ ip'[r] <= Len(prog'[r])
  BY <1>2 DEF Pending, Standing, More
<1>4. prog' = prog
  BY DEF Step, Begin, Exit, MkTrunc, MkWrite, LockOpen, LockGrant, Temp, Read, Write,
         Rename, Unlink, Release, Undo, Fault, Fails, Killed
<1>l. ~(2 <= Len(prog'[p]))
  <2>1. Len(prog'[p]) = 1
    BY <1>0, <1>4
  <2> QED
    BY <2>1
<1>5. ASSUME NEW r \in Proc, r # p
      PROVE  pc'[r] = pc[r] /\ mode'[r] = mode[r] /\ ip'[r] = ip[r] /\ done'[r] = done[r]
  <2>1. /\ \E v : pc' = [pc EXCEPT ![p] = v]
        /\ mode' = mode \/ \E v : mode' = [mode EXCEPT ![p] = v]
        /\ ip' = ip \/ \E v : ip' = [ip EXCEPT ![p] = v]
        /\ done' = done \/ \E v : done' = [done EXCEPT ![p] = v]
    <3> USE DEF Goto, Return
    <3>1. CASE Begin(p)   BY <3>1, Zenon DEF Begin
    <3>2. CASE Exit(p)    BY <3>2, Zenon DEF Exit
    <3>3. CASE MkTrunc(p) BY <3>3, Zenon DEF MkTrunc
    <3>4. CASE MkWrite(p) BY <3>4, Zenon DEF MkWrite
    <3>5. CASE LockOpen(p) BY <3>5, Zenon DEF LockOpen
    <3>6. CASE LockGrant(p) BY <3>6, Zenon DEF LockGrant
    <3>7. CASE Temp(p) BY <3>7, Zenon DEF Temp
    <3>8. CASE Read(p) BY <3>8, Zenon DEF Read
    <3>9. CASE Write(p) BY <3>9, Zenon DEF Write
    <3>10. CASE Rename(p) BY <3>10, Zenon DEF Rename
    <3>11. CASE Unlink(p) BY <3>11, Zenon DEF Unlink
    <3>12. CASE Release(p) BY <3>12, Zenon DEF Release
    <3>13. CASE Undo(p) BY <3>13, Zenon DEF Undo
    <3>14. CASE Fault(p) BY <3>14, Zenon DEF Fault, Fails, LockFails, SetupFails,
                                             WriteFails, RenameFails, Killed
    <3> QED
      BY <3>1, <3>2, <3>3, <3>4, <3>5, <3>6, <3>7, <3>8, <3>9, <3>10, <3>11,
         <3>12, <3>13, <3>14 DEF Step
  <2> QED
    BY <1>0, <1>5, <2>1 DEF LockTypes
<1>6. /\ \/ /\ Rename(p) /\ mode'[p] = "made"
            /\ Pending(p) /\ ~Pending(p)' /\ Made(p)'
         \/ /\ ~(Rename(p) /\ mode'[p] = "made")
            /\ Pending(p)' => Pending(p)
            /\ Made(p)' <=> Made(p)
      /\ Ahead(p)'
  <2> HIDE DEF Pending
  <2> USE <1>0, <1>1, <1>3, <1>4, <1>n
      DEF Made, Ahead, Goto, Return, LockTypes, Standing, More, lock, files, Op
  <2>1. CASE Begin(p)
    <3>1. pc[p] = "next" /\ ip[p] = 1 /\ Pending(p) /\ mode'[p] = "ok"
      BY <2>1 DEF Begin
    <3>2. Op(p) # "create"
      BY <3>1
    <3>3. UNCHANGED <<ip, done>> /\ pc'[p] \in {"open", "exit"}
      BY <2>1, <3>2 DEF Begin
    <3>4. ~Rename(p) /\ mode[p] = "ok" /\ 1 \notin done[p]
      BY <3>1 DEF Rename
    <3> QED
      BY <3>1, <3>3, <3>4
  <2>2. CASE Exit(p)
    BY <2>2 DEF Exit, Rename
  <2>3. CASE MkTrunc(p) BY <2>3 DEF MkTrunc
  <2>4. CASE MkWrite(p) BY <2>4 DEF MkWrite
  <2>5. CASE LockOpen(p) BY <2>5 DEF LockOpen, Rename
  <2>6. CASE LockGrant(p) BY <2>6 DEF LockGrant, Rename
  <2>7. CASE Temp(p) BY <2>7 DEF Temp, Rename
  <2>8. CASE Read(p) BY <2>8 DEF Read, Rename
  <2>9. CASE Write(p) BY <2>9 DEF Write, Rename
  <2>10. CASE Rename(p)
    <3>1. /\ pc[p] = "rename" /\ pc'[p] = "unlink" /\ UNCHANGED <<ip, done>>
          /\ mode'[p] \in {"made", "quit"}
      BY <2>10 DEF Rename
    <3>2. Pending(p) /\ ~Pending(p)' /\ mode[p] = "ok" /\ 1 \notin done[p]
      BY <3>1
    <3> QED
      BY <2>10, <3>1, <3>2
  <2>11. CASE Unlink(p) BY <2>11 DEF Unlink, Rename
  <2>12. CASE Release(p)
    <3>1. ip[p] = 1 /\ pc[p] = "release" /\ mode' = mode
      BY <2>12 DEF Release, OwnLock
    <3>2. \/ /\ mode[p] = "made" /\ pc'[p] = "next"
             /\ ip'[p] = 2 /\ done'[p] = done[p] \cup {1}
          \/ pc'[p] \in {"undo", "exit"} /\ UNCHANGED <<ip, done>>
      BY <2>12, <3>1 DEF Release
    <3>3. ~Rename(p) /\ ~Pending(p)
      BY <3>1 DEF Rename
    <3>4. ~Pending(p)'
      <4>1. pc'[p] = "next" => ip'[p] = 2
        BY <3>2
      <4> QED
        BY <1>l, <3>2, <4>1
    <3>5. Made(p)' <=> Made(p)
      BY <3>1, <3>2
    <3> QED
      BY <3>3, <3>4, <3>5
  <2>13. CASE Undo(p) BY <2>13 DEF Undo, Rename
  <2>14. CASE Fault(p)
    <3>1. UNCHANGED <<ip, done>> /\ pc'[p] \in {"exit", "unlink"}
      BY <2>14 DEF Fault, Fails, LockFails, SetupFails, WriteFails, RenameFails, Killed
    <3>2. mode'[p] = mode[p] \/ (mode'[p] \in {"quit", "fail", "twice"} /\ Pending(p))
      BY <2>14 DEF Fault, Fails, LockFails, SetupFails, WriteFails, RenameFails, Killed
    <3>3. ~Pending(p)'
      BY <3>1
    <3>4. Rename(p) => pc[p] = "rename"
      BY DEF Rename
    <3>5. Rename(p) => mode[p] = "ok"
      BY <3>4
    <3>6. ~(Rename(p) /\ mode'[p] = "made")
      BY <3>2, <3>5
    <3>7. Made(p)' <=> Made(p)
      BY <3>1, <3>2
    <3> QED
      BY <3>3, <3>6, <3>7
  <2> QED
    BY <2>1, <2>2, <2>3, <2>4, <2>5, <2>6, <2>7, <2>8, <2>9, <2>10, <2>11,
       <2>12, <2>13, <2>14 DEF Step
<1>7. \A r \in Proc \ {p} : (Pending(r)' <=> Pending(r)) /\ (Made(r)' <=> Made(r))
  BY <1>1, <1>3, <1>4, <1>5 DEF Made
<1> QED
  BY <1>4, <1>5, <1>6, <1>7

AtomicInv == DraftInv /\ Plain(data[ctl]) /\ \A p \in Proc : Ahead(p)

\* A step of ControlFile is one of AtomicFile, or none.
LEMMA AtomicStep ==
  ASSUME TwoSingleEdits, NoCreate, Unrelated, AtomicInv, NEW p \in Proc, Step(p) \/ Fault(p)
  PROVE  /\ AtomicInv'
         /\ Atomic!Next \/ UNCHANGED Atomic!vars
<1> DEFINE edit == [r \in Proc |-> prog[r][1]]
           todo == {r \in Proc : Pending(r)}
           made == {r \in Proc : Made(r)}
<1>0. DraftInv /\ Plain(data[ctl]) /\ Ahead(p) /\ DraftInv'
  <2>1. [Next]_vars
    BY DEF Next
  <2> QED
    BY <2>1, DraftInvStep DEF AtomicInv
<1>1. /\ prog' = prog
      /\ \A r \in Proc \ {p} : (Pending(r)' <=> Pending(r)) /\ (Made(r)' <=> Made(r))
      /\ \A r \in Proc \ {p} : mode'[r] = mode[r] /\ ip'[r] = ip[r] /\ done'[r] = done[r]
      /\ \/ /\ Rename(p) /\ mode'[p] = "made"
            /\ Pending(p) /\ ~Pending(p)' /\ Made(p)'
         \/ /\ ~(Rename(p) /\ mode'[p] = "made")
            /\ Pending(p)' => Pending(p)
            /\ Made(p)' <=> Made(p)
      /\ Ahead(p)'
  BY <1>0, Meaning
<1>2. \A r \in Proc : Ahead(r)'
  BY <1>1 DEF AtomicInv, Ahead
<1>3. ctl # 0 /\ ctl' # 0 /\ Seen = ToSet(data[ctl]) \ {Dot} /\ Seen' = ToSet(data'[ctl']) \ {Dot}
  BY <1>0 DEF DraftInv, Standing, Seen
<1>4. edit' = edit
  BY <1>1
<1>5. CASE Rename(p) /\ mode'[p] = "made"
  <2>1. pc[p] = "rename" /\ mode \in [Proc -> Modes] /\ Draft(p)
    BY <1>0, <1>5 DEF Rename, DraftInv, TypeInv, TypeOK
  <2>2. ip[p] = 1 /\ More(p) /\ Op(p) # "create"
    BY <1>0, <1>1, <1>5, <2>1 DEF DraftInv, TypeInv, Engaged, LockInv, OwnLock
  <2>3. Op(p) \in Ops /\ TheLine(p) \in Line
    BY <1>0, <2>2, EditTypes DEF DraftInv, TypeInv, TypeOK
  <2>4. data[ctl] \in Content
    <3>1. data \in Seq(Content) /\ ctl \in 0..Len(data) /\ ctl # 0
      BY <1>0, <1>3 DEF DraftInv, TypeInv, TypeOK
    <3> QED
      BY <3>1
  <2>5. data'[ctl'] = Result(p)
    <3>1. mode[p] = "ok"
      BY <1>0, <1>1, <1>5 DEF Ahead
    <3>a. mode' # [mode EXCEPT ![p] = "quit"]
      BY <1>5, <2>1
    <3>2. \/ Op(p) = "update" /\ ctl' = tmp[p]
          \/ Op(p) # "update" /\ bak # 0 /\ ctl' = bak
      BY <1>5, <3>a DEF Rename
    <3>3. data' = data
      BY <1>5 DEF Rename
    <3> QED
      BY <2>1, <3>2, <3>3 DEF Draft
  <2>6. /\ Plain(Result(p))
        /\ ToSet(Result(p)) \ {Dot} = Atomic!Effect([op |-> Op(p), line |-> TheLine(p)], Seen)
    <3>1. CASE Op(p) = "update"
      <4>1. Result(p) = update_file(data[ctl], TheLine(p))
        BY <3>1 DEF Result
      <4> QED
        BY <1>0, <1>3, <2>3, <2>4, <3>1, <4>1, UpdateEffect DEF Atomic!Effect
    <3>2. CASE Op(p) # "update"
      <4>1. Op(p) \in {"remove", "removeall", "removep"}
        BY <2>2, <2>3, <3>2 DEF Ops
      <4>2. Result(p) = remove_line(data[ctl], TheLine(p), Op(p))
        BY <3>2 DEF Result
      <4>3. Plain(Result(p)) /\ ToSet(Result(p)) \ {Dot} = Seen \ {TheLine(p)}
        BY <1>0, <1>3, <2>3, <2>4, <4>1, <4>2, RemoveEffect
      <4>4. {l \in Seen : ~IsPrefix(TheLine(p), l)} = Seen \ {TheLine(p)}
        <5>1. \A l \in Seen : l \in Line
          BY <1>3, <2>4 DEF ToSet, Content
        <5> QED
          BY <2>3, <5>1 DEF Unrelated
      <4>5. Atomic!Effect([op |-> Op(p), line |-> TheLine(p)], Seen) = Seen \ {TheLine(p)}
        <5>1. CASE Op(p) = "removep"
          <6>1. {l \in Seen : ~Atomic!IsPrefix(TheLine(p), l)} = Seen \ {TheLine(p)}
            BY <4>4 DEF IsPrefix, Atomic!IsPrefix
          <6> QED
            BY <5>1, <6>1 DEF Atomic!Effect
        <5>2. CASE Op(p) \in {"remove", "removeall"}
          BY <5>2 DEF Atomic!Effect
        <5> QED
          BY <4>1, <5>1, <5>2
      <4> QED
        BY <4>3, <4>5
    <3> QED
      BY <3>1, <3>2
  <2>7. edit[p].op = Op(p) /\ edit[p].line = TheLine(p)
    BY <2>2 DEF Op, TheLine
  <2>8. Atomic!Effect(edit[p], Seen) = Atomic!Effect([op |-> Op(p), line |-> TheLine(p)], Seen)
    <3> HIDE DEF edit
    <3> QED
      BY <2>7 DEF Atomic!Effect
  <2>9. /\ p \in todo /\ todo' = todo \ {p} /\ made' = made \cup {p}
        /\ Seen' = Atomic!Effect(edit[p], Seen)
    <3>1. Pending(p) /\ ~Pending(p)' /\ Made(p)'
      BY <1>1, <1>5
    <3>2. p \in todo /\ todo' = todo \ {p} /\ made' = made \cup {p}
      BY <1>1, <3>1
    <3>3. Seen' = Atomic!Effect(edit[p], Seen)
      BY <1>3, <2>5, <2>6, <2>8
    <3> QED
      BY <3>2, <3>3
  <2>10. Atomic!Edit(p)
    BY <1>4, <2>9 DEF Atomic!Edit, Seen, Made
  <2>11. Plain(data[ctl])'
    BY <2>5, <2>6 DEF Plain
  <2> QED
    BY <1>0, <1>2, <2>10, <2>11 DEF AtomicInv, Atomic!Next
<1>6. CASE ~(Rename(p) /\ mode'[p] = "made")
  <2>1. data'[ctl'] = data[ctl]
    <3>1. mode \in [Proc -> Modes]
      BY <1>0 DEF DraftInv, TypeInv, TypeOK
    <3> QED
      BY <1>0, <1>6, <3>1, FileChanges
  <2>2. Seen' = Seen /\ made' = made
    BY <1>1, <1>3, <1>6, <2>1
  <2>3. Plain(data[ctl])'
    BY <1>0, <2>1 DEF Plain
  <2>4. CASE Pending(p) /\ ~Pending(p)'
    <3>1. p \in todo /\ todo' = todo \ {p}
      BY <1>1, <2>4
    <3>2. Atomic!GiveUp(p)
      BY <1>4, <2>2, <3>1 DEF Atomic!GiveUp, Seen, Made
    <3> QED
      BY <1>0, <1>2, <2>3, <3>2 DEF AtomicInv, Atomic!Next
  <2>5. CASE ~(Pending(p) /\ ~Pending(p)')
    <3>1. todo' = todo
      BY <1>1, <1>6, <2>5
    <3>2. UNCHANGED Atomic!vars
      BY <1>4, <2>2, <3>1 DEF Atomic!vars, Seen, Made
    <3> QED
      BY <1>0, <1>2, <2>3, <3>2 DEF AtomicInv
  <2> QED
    BY <2>4, <2>5
<1> QED
  BY <1>5, <1>6

(***************************************************************************)
(* Two processes that edit an existing file once each implement            *)
(* AtomicFile, for lines that do not begin with one another and a file     *)
(* without repeated lines: every edit of update_file(), remove_line() and  *)
(* remove_line_p() happens at once, at its rename(), or not at all,        *)
(* whatever fails and whoever is killed on the way.                        *)
(***************************************************************************)
THEOREM Refinement ==
  ASSUME TwoSingleEdits, NoCreate, Unrelated,
         \A s \in InitFiles : s # NoFile /\ Plain(s)
  PROVE  Spec => EditsAreAtomic
<1>1. Init => AtomicInv /\ Atomic!Init
  <2> SUFFICES ASSUME Init PROVE AtomicInv /\ Atomic!Init
    OBVIOUS
  <2>1. DraftInv
    BY DraftInvInit DEF AllThere
  <2>2. Plain(data[ctl])
    <3>1. PICK s \in InitFiles : ctl = 1 /\ data = <<s>>
      BY DEF Init
    <3>2. Plain(s) /\ data[ctl] = s
      BY <3>1
    <3> QED
      BY <3>2
  <2>3. \A p \in Proc : pc[p] = "next" /\ ip[p] = 1 /\ mode[p] = "ok" /\ done[p] = {}
    BY DEF Init
  <2>4. \A p \in Proc : Len(prog[p]) = 1
    BY DEF Init, TwoSingleEdits
  <2>5. \A p \in Proc : Pending(p) /\ Ahead(p) /\ ~(mode[p] = "made" \/ 1 \in done[p])
    BY <2>3, <2>4 DEF Pending, More, Ahead
  <2> QED
    BY <2>1, <2>2, <2>5 DEF AtomicInv, Atomic!Init
<1>2. AtomicInv /\ [Next]_vars => AtomicInv' /\ [Atomic!Next]_(Atomic!vars)
  <2> SUFFICES ASSUME AtomicInv, [Next]_vars
               PROVE  AtomicInv' /\ [Atomic!Next]_(Atomic!vars)
    OBVIOUS
  <2>1. CASE UNCHANGED vars
    <3>1. DraftInv'
      BY DraftInvStep DEF AtomicInv
    <3>2. UNCHANGED <<prog, pc, ip, mode, done, data, ctl>>
      BY <2>1 DEF vars, files, control
    <3>3. Plain(data[ctl])' /\ \A r \in Proc : Ahead(r)'
      BY <3>2 DEF AtomicInv, Plain, Ahead, Pending, More
    <3>4. UNCHANGED Atomic!vars
      BY <3>2 DEF Atomic!vars, Pending, More
    <3> QED
      BY <3>1, <3>3, <3>4 DEF AtomicInv
  <2>2. CASE Next
    <3>1. PICK p \in Proc : Step(p) \/ Fault(p)
      BY <2>2 DEF Next
    <3> QED
      BY <3>1, AtomicStep
  <2> QED
    BY <2>1, <2>2
<1> QED
  BY <1>1, <1>2, PTL DEF Spec, EditsAreAtomic, Atomic!Spec
=============================================================================

----------------------------- MODULE ControlFile -----------------------------
(***************************************************************************)
(* Editing one control file: update_file() (add a line), remove_line() and *)
(* remove_line_p() (remove lines), under the lock of getDbLock() and       *)
(* delDbLock().  Every tool that adds or deletes domains, aliases and      *)
(* users edits rcpthosts, virtualdomains, users/assign, .filesystems and   *)
(* the like through these functions, and several tools may run at a time.  *)
(*                                                                         *)
(* The lock is an fcntl() write lock on "<file>.pre.1", the USE_FCNTLLOCK  *)
(* variant that configure selects.  lockcreate() opens the lock file,      *)
(* creating it when it is absent, and waits for the lock of the inode it   *)
(* opened; delDbLock() unlinks the name and then drops the lock.  The edit *)
(* writes a second file, "<file>.<pid>" in update_file() and the shared    *)
(* "<file>.bak" in remove_line(), and renames it over the first.           *)
(*                                                                         *)
(* Files are inodes that names point to: data[i] is the content of inode   *)
(* i, ctl and bak are the inodes that "<file>" and "<file>.bak" name, and  *)
(* lockName the lock inode that "<file>.pre.1" names, 0 when there is no   *)
(* such file.  A line is a sequence of characters.                         *)
(***************************************************************************)
EXTENDS Naturals, SequencesExt

CONSTANTS
  Proc,         \* the processes: runs of vadddomain, vdeldomain, ...
  Line,         \* the lines
  Programs,     \* what the processes may be asked to do: functions from Proc
                \* to the sequence of edits a process makes
  InitFiles,    \* the contents the file may have at the start, or NoFile
  MaxFaults     \* how many failing system calls and killed processes

Dot == <<".">>
NoFile == <<"no", "file">>
Ops == {"create", "update", "remove", "removeall", "removep"}
Content == Seq(Line \cup {Dot})

ASSUME LineAssumption == Dot \notin Line
ASSUME ProgAssumption == \A pr \in Programs :
                           pr \in [Proc -> Seq([op : Ops, line : Line])]
ASSUME FileAssumption == \A s \in InitFiles : s = NoFile \/ s \in Content
ASSUME FaultAssumption == MaxFaults \in Nat

VARIABLES
  prog,         \* the edits of each process; does not change
  ctl, bak,     \* the inodes of "<file>" and "<file>.bak"
  data,         \* data[i]: the content of inode i
  lockName,     \* the lock inode named "<file>.pre.1"
  locks,        \* how many lock inodes have been created: 1..locks
  holder,       \* holder[p]: the lock inode whose lock p holds, or 0
  fd,           \* fd[p]: the lock inode p opened
  pc, ip,       \* the statement p is at, and the edit it is at
  tmp, buf,     \* the inode p writes to, and what it is to write
  mode,         \* how the edit of p goes on: see below
  done,         \* done[p]: the edits of p that reported success
  faults

files == <<ctl, bak, data>>
lock == <<lockName, locks, holder, fd>>
control == <<prog, pc, ip, tmp, buf, mode, done, faults>>
vars == <<files, lock, control>>

(***************************************************************************)
(* mode:  "ok"     the file is there and the edit goes on                  *)
(*        "made"   the file has been replaced                              *)
(*        "early"  update_file() found no file: it drops the lock first    *)
(*                 and renames afterwards                                  *)
(*        "fail"   drop the lock, unlink the second file, return -1        *)
(*        "twice"  as "fail", with a second delDbLock() after it           *)
(*        "quit"   drop the lock, return -1                                *)
(***************************************************************************)
Modes == {"ok", "made", "early", "fail", "twice", "quit"}
Points == {"next", "mktrunc", "mkwrite", "open", "wait", "temp", "read",
           "write", "rename", "unlink", "release", "undo", "exit"}

Op(p) == prog[p][ip[p]].op
TheLine(p) == prog[p][ip[p]].line
More(p) == ip[p] <= Len(prog[p])

-----------------------------------------------------------------------------
(***************************************************************************)
(* The two loops over the lines of a file.                                 *)
(***************************************************************************)

(***************************************************************************)
(* str_diffn(line, wanted, length of line) = 0: the line is the first part *)
(* of the wanted line.                                                     *)
(***************************************************************************)
Matches(l, t) == IsPrefix(l, t)

\* str_diffn(line, template, length of template) = 0, for remove_line_p().
MatchesPartly(l, t) == IsPrefix(t, l)

\* The lines of s at the positions K, in their order.
Keep(s, K) ==
  [i \in 1..Cardinality(K) |-> s[CHOOSE j \in K : Cardinality({k \in K : k <= j}) = i]]

\* The lines of s but for the terminator.
Body(s) == Keep(s, {i \in DOMAIN s : s[i] # Dot})

\* Mutant of update_file: the terminator is not put back.
update_file_NoDot(s, t) ==
  LET body == Body(s)
      found == \E i \in DOMAIN body : Matches(body[i], t)
  IN  [i \in DOMAIN body |-> IF Matches(body[i], t) THEN t ELSE body[i]]
        \o (IF found THEN <<>> ELSE <<t>>)

\* Mutant of update_file: the new line is not added where none matches.
update_file_NoAppend(s, t) ==
  LET body == Body(s)
  IN  [i \in DOMAIN body |-> IF Matches(body[i], t) THEN t ELSE body[i]]
        \o (IF Contains(s, Dot) THEN <<Dot>> ELSE <<>>)

(***************************************************************************)
(* update_file(): the terminator of users/assign is taken out, every line  *)
(* that matches is replaced, the new line is added at the end when there   *)
(* was none, and the terminator is put back.                               *)
(***************************************************************************)
update_file(s, t) ==
  LET body == Body(s)
      found == \E i \in DOMAIN body : Matches(body[i], t)
  IN  [i \in DOMAIN body |-> IF Matches(body[i], t) THEN t ELSE body[i]]
        \o (IF found THEN <<>> ELSE <<t>>)
        \o (IF Contains(s, Dot) THEN <<Dot>> ELSE <<>>)

\* The positions of the lines remove_line() leaves out, the first match only with
\* once_only, and those remove_line_p() leaves out.
Dropped(s, t, op) ==
  LET hits == {i \in DOMAIN s : Matches(s[i], t)}
  IN  CASE op = "remove"    -> {i \in hits : \A j \in hits : i <= j}
        [] op = "removeall" -> hits
        [] op = "removep"   -> {i \in DOMAIN s : MatchesPartly(s[i], t)}

remove_line(s, t, op) == Keep(s, DOMAIN s \ Dropped(s, t, op))

\* write() from the start of a file that may have got longer meanwhile.
Overlay(new, old) == new \o SubSeq(old, Len(new) + 1, Len(old))

-----------------------------------------------------------------------------
Init ==
  /\ prog \in Programs
  /\ \E s \in InitFiles :
       /\ ctl = IF s = NoFile THEN 0 ELSE 1
       /\ data = IF s = NoFile THEN <<>> ELSE <<s>>
  /\ bak = 0
  /\ lockName = 0 /\ locks = 0
  /\ holder = [p \in Proc |-> 0] /\ fd = [p \in Proc |-> 0]
  /\ pc = [p \in Proc |-> "next"] /\ ip = [p \in Proc |-> 1]
  /\ tmp = [p \in Proc |-> 0] /\ buf = [p \in Proc |-> <<>>]
  /\ mode = [p \in Proc |-> "ok"] /\ done = [p \in Proc |-> {}]
  /\ faults = 0

Goto(p, l) == pc' = [pc EXCEPT ![p] = l]

\* The edit returned success (update_file() 0, remove_line() 0 or more).
Return(p) ==
  /\ Goto(p, "next")
  /\ ip' = [ip EXCEPT ![p] = @ + 1]
  /\ done' = [done EXCEPT ![p] = @ \cup {ip[p]}]

(***************************************************************************)
(* The next edit.  add_domain_assign() looks whether users/assign is       *)
(* there; remove_line() gives up before it takes the lock when it cannot   *)
(* stat() the file.  A caller whose edit failed gives up and exits.        *)
(***************************************************************************)
Begin(p) ==
  /\ pc[p] = "next" /\ More(p)
  /\ \/ /\ Op(p) = "create" /\ ctl # 0
        /\ Return(p)
     \/ /\ Op(p) = "create" /\ ctl = 0
        /\ Goto(p, "mktrunc")
        /\ UNCHANGED <<ip, done>>
     \/ /\ Op(p) = "update" \/ (Op(p) # "create" /\ ctl # 0)
        /\ Goto(p, "open")
        /\ UNCHANGED <<ip, done>>
     \/ /\ Op(p) \notin {"create", "update"} /\ ctl = 0
        /\ Goto(p, "exit")
        /\ UNCHANGED <<ip, done>>
  /\ mode' = [mode EXCEPT ![p] = "ok"]
  /\ UNCHANGED <<files, lock, prog, tmp, buf, faults>>

Exit(p) ==
  /\ pc[p] = "next" /\ ~More(p)
  /\ Goto(p, "exit")
  /\ UNCHANGED <<files, lock, prog, ip, tmp, buf, mode, done, faults>>

\* add_domain_assign(): open_trunc() of the file seen to be absent ...
MkTrunc(p) ==
  /\ pc[p] = "mktrunc"
  /\ IF ctl = 0
       THEN data' = Append(data, <<>>) /\ ctl' = Len(data) + 1
       ELSE data' = [data EXCEPT ![ctl] = <<>>] /\ UNCHANGED ctl
  /\ tmp' = [tmp EXCEPT ![p] = ctl']
  /\ Goto(p, "mkwrite")
  /\ UNCHANGED <<bak, lock, prog, ip, buf, mode, done, faults>>

\* ... and the write of the terminator into it, without any lock.
MkWrite(p) ==
  /\ pc[p] = "mkwrite"
  /\ data' = [data EXCEPT ![tmp[p]] = Overlay(<<Dot>>, @)]
  /\ Return(p)
  /\ UNCHANGED <<ctl, bak, lock, prog, tmp, buf, mode, faults>>

\* lockcreate(): open() with O_CREAT ...
LockOpen(p) ==
  /\ pc[p] = "open"
  /\ IF lockName = 0
       THEN locks' = locks + 1 /\ lockName' = locks + 1
       ELSE UNCHANGED <<locks, lockName>>
  /\ fd' = [fd EXCEPT ![p] = lockName']
  /\ Goto(p, "wait")
  /\ UNCHANGED <<files, holder, prog, ip, tmp, buf, mode, done, faults>>

\* Mutant of LockGrant: the result of fcntl() is not looked at.
LockGrant_NoWait(p) ==
  /\ pc[p] = "wait"
  /\ holder' = [holder EXCEPT ![p] = fd[p]]
  /\ Goto(p, "temp")
  /\ UNCHANGED <<files, lockName, locks, fd, prog, ip, tmp, buf, mode, done,
                 faults>>

\* ... and fcntl(F_SETLKW), on the inode that was opened.
LockGrant(p) ==
  /\ pc[p] = "wait"
  /\ \A q \in Proc \ {p} : holder[q] # fd[p]
  /\ holder' = [holder EXCEPT ![p] = fd[p]]
  /\ Goto(p, "temp")
  /\ UNCHANGED <<files, lockName, locks, fd, prog, ip, tmp, buf, mode, done,
                 faults>>

\* Mutant of Temp: open() without O_CREAT.
Temp_NoCreat(p) ==
  /\ pc[p] = "temp"
  /\ tmp' = [tmp EXCEPT ![p] = Len(data) + 1]
  /\ Goto(p, "read")
  /\ UNCHANGED <<files, lock, prog, ip, buf, mode, done, faults>>

(***************************************************************************)
(* Create and truncate the second file: one of its own for update_file(),  *)
(* the one named "<file>.bak" for remove_line().                           *)
(***************************************************************************)
Temp(p) ==
  /\ pc[p] = "temp"
  /\ IF Op(p) = "update" \/ bak = 0
       THEN /\ data' = Append(data, <<>>)
            /\ tmp' = [tmp EXCEPT ![p] = Len(data) + 1]
       ELSE /\ data' = [data EXCEPT ![bak] = <<>>]
            /\ tmp' = [tmp EXCEPT ![p] = bak]
  /\ bak' = IF Op(p) = "update" THEN bak ELSE tmp'[p]
  /\ Goto(p, "read")
  /\ UNCHANGED <<ctl, lock, prog, ip, buf, mode, done, faults>>

\* Read the file and work out its new content.
Read(p) ==
  /\ pc[p] = "read"
  /\ \/ /\ Op(p) = "update" /\ ctl = 0
        /\ buf' = [buf EXCEPT ![p] = <<TheLine(p)>>]
        /\ mode' = [mode EXCEPT ![p] = "early"]
     \/ /\ Op(p) = "update" /\ ctl # 0
        /\ buf' = [buf EXCEPT ![p] = update_file(data[ctl], TheLine(p))]
        /\ UNCHANGED mode
     \/ /\ Op(p) # "update"
        /\ buf' = [buf EXCEPT ![p] = remove_line(data[ctl], TheLine(p), Op(p))]
        /\ UNCHANGED mode
  /\ Goto(p, "write")
  /\ UNCHANGED <<files, lock, prog, ip, tmp, done, faults>>

Write(p) ==
  /\ pc[p] = "write"
  /\ data' = [data EXCEPT ![tmp[p]] = Overlay(buf[p], @)]
  /\ Goto(p, IF mode[p] = "early" THEN "unlink" ELSE "rename")
  /\ UNCHANGED <<ctl, bak, lock, prog, ip, tmp, buf, mode, done, faults>>

(***************************************************************************)
(* rename() over the file.  remove_line() renames whatever "<file>.bak"    *)
(* names by now, and fails when nothing does.                              *)
(***************************************************************************)
Rename(p) ==
  /\ pc[p] = "rename"
  /\ \/ /\ Op(p) = "update"
        /\ ctl' = tmp[p]
        /\ mode' = [mode EXCEPT ![p] = "made"]
        /\ UNCHANGED bak
     \/ /\ Op(p) # "update" /\ bak # 0
        /\ ctl' = bak /\ bak' = 0
        /\ mode' = [mode EXCEPT ![p] = "made"]
     \/ /\ Op(p) # "update" /\ bak = 0
        /\ mode' = [mode EXCEPT ![p] = "quit"]
        /\ UNCHANGED <<ctl, bak>>
  /\ IF mode[p] = "early" THEN Return(p)
                          ELSE Goto(p, "unlink") /\ UNCHANGED <<ip, done>>
  /\ UNCHANGED <<data, lock, prog, tmp, buf, faults>>

\* delDbLock(): RemoveLock() unlinks the name of the lock file ...
Unlink(p) ==
  /\ pc[p] = "unlink"
  /\ lockName' = 0
  /\ Goto(p, "release")
  /\ UNCHANGED <<files, locks, holder, fd, prog, ip, tmp, buf, mode, done,
                 faults>>

\* Mutant of Release: a failed edit returns without dropping the lock.
Release_Leak(p) ==
  /\ pc[p] = "release"
  /\ IF mode[p] \in {"made", "early"}
       THEN holder' = [holder EXCEPT ![p] = 0] ELSE UNCHANGED holder
  /\ CASE mode[p] = "made"  -> Return(p)
       [] mode[p] = "early" -> Goto(p, "rename") /\ UNCHANGED <<ip, done>>
       [] OTHER             -> Goto(p, "exit") /\ UNCHANGED <<ip, done>>
  /\ UNCHANGED <<files, lockName, locks, fd, prog, tmp, buf, mode, faults>>

\* ... and ReleaseLock() drops the lock.
Release(p) ==
  /\ pc[p] = "release"
  /\ holder' = [holder EXCEPT ![p] = 0]
  /\ \/ /\ mode[p] = "made"
        /\ Return(p)
     \/ /\ mode[p] = "early"
        /\ Goto(p, "rename")
        /\ UNCHANGED <<ip, done>>
     \/ /\ mode[p] \in {"fail", "twice"}
        /\ Goto(p, "undo")
        /\ UNCHANGED <<ip, done>>
     \/ /\ mode[p] = "quit"
        /\ Goto(p, "exit")
        /\ UNCHANGED <<ip, done>>
  /\ UNCHANGED <<files, lockName, locks, fd, prog, tmp, buf, mode, faults>>

\* The end of a failed edit: unlink the second file, and the lock file again
\* when open_read() failed and remove_line() went on.
Undo(p) ==
  /\ pc[p] = "undo"
  /\ bak' = IF Op(p) = "update" THEN bak ELSE 0
  /\ lockName' = IF mode[p] = "twice" THEN 0 ELSE lockName
  /\ Goto(p, "exit")
  /\ UNCHANGED <<ctl, data, locks, holder, fd, prog, ip, tmp, buf, mode, done,
                 faults>>

-----------------------------------------------------------------------------
(***************************************************************************)
(* A system call of the edit fails.                                        *)
(***************************************************************************)

\* open() of the lock file.
LockFails(p) ==
  /\ pc[p] = "open"
  /\ Goto(p, "exit")
  /\ UNCHANGED <<files, lock, mode>>

\* open() of the second file; then stat() or fchown(), or open_read() or the
\* read of the file.
SetupFails(p) ==
  /\ \/ /\ pc[p] = "temp"
        /\ mode' = [mode EXCEPT ![p] = "quit"]
     \/ /\ pc[p] = "read"
        /\ mode' = [mode EXCEPT ![p] = "fail"]
     \/ /\ pc[p] = "read" /\ Op(p) # "update"
        /\ mode' = [mode EXCEPT ![p] = "twice"]
  /\ Goto(p, "unlink")
  /\ UNCHANGED <<files, lock>>

\* write(): update_file() drops the lock, remove_line() does not, and loses it
\* when the process exits.
WriteFails(p) ==
  /\ pc[p] = "write"
  /\ \/ /\ Op(p) = "update"
        /\ mode' = [mode EXCEPT ![p] = "fail"]
        /\ Goto(p, "unlink")
        /\ UNCHANGED <<bak, holder>>
     \/ /\ Op(p) # "update"
        /\ bak' = 0
        /\ holder' = [holder EXCEPT ![p] = 0]
        /\ Goto(p, "exit")
        /\ UNCHANGED mode
  /\ UNCHANGED <<ctl, data, lockName, locks, fd>>

\* Mutant of RenameFails: unlink(filename) for unlink(fname.s).
RenameFails_UnlinksFile(p) ==
  /\ pc[p] = "rename"
  /\ ctl' = 0
  /\ mode' = [mode EXCEPT ![p] = "fail"]
  /\ Goto(p, "unlink")
  /\ UNCHANGED <<bak, data, lock>>

\* rename(): delDbLock(), for the second time where the lock is gone already.
RenameFails(p) ==
  /\ pc[p] = "rename"
  /\ mode' = [mode EXCEPT ![p] = IF Op(p) = "update" THEN "fail" ELSE "quit"]
  /\ Goto(p, "unlink")
  /\ UNCHANGED <<files, lock>>

Fails(p) ==
  /\ LockFails(p) \/ SetupFails(p) \/ WriteFails(p) \/ RenameFails(p)
  /\ UNCHANGED <<prog, ip, tmp, buf, done>>

\* The process is killed: the kernel drops its lock, the files stay.
Killed(p) ==
  /\ pc[p] # "exit"
  /\ holder' = [holder EXCEPT ![p] = 0]
  /\ Goto(p, "exit")
  /\ UNCHANGED <<files, lockName, locks, fd, prog, ip, tmp, buf, mode, done>>

Fault(p) ==
  /\ faults < MaxFaults
  /\ faults' = faults + 1
  /\ Fails(p) \/ Killed(p)

-----------------------------------------------------------------------------
Step(p) ==
  \/ Begin(p) \/ Exit(p) \/ MkTrunc(p) \/ MkWrite(p)
  \/ LockOpen(p) \/ LockGrant(p) \/ Temp(p) \/ Read(p) \/ Write(p) \/ Rename(p)
  \/ Unlink(p) \/ Release(p) \/ Undo(p)

Next == \E p \in Proc : Step(p) \/ Fault(p)

Spec == Init /\ [][Next]_vars

(***************************************************************************)
(* A process that is not blocked in fcntl() goes on, and one that is       *)
(* blocked gets the lock when it is free.                                  *)
(***************************************************************************)
FairSpec == Spec /\ \A p \in Proc : WF_vars(Step(p))

-----------------------------------------------------------------------------
(***************************************************************************)
(* Properties.                                                             *)
(***************************************************************************)

TypeOK ==
  /\ prog \in Programs
  /\ data \in Seq(Content)
  /\ ctl \in 0..Len(data) /\ bak \in 0..Len(data)
  /\ locks \in Nat /\ lockName \in 0..locks
  /\ holder \in [Proc -> 0..locks] /\ fd \in [Proc -> 0..locks]
  /\ pc \in [Proc -> Points] /\ mode \in [Proc -> Modes]
  /\ ip \in [Proc -> Nat \ {0}]
  /\ tmp \in [Proc -> 0..Len(data)] /\ buf \in [Proc -> Content]
  /\ done \in [Proc -> SUBSET Nat]
  /\ faults \in 0..MaxFaults

\* Every process has ended.
AllDone == \A p \in Proc : pc[p] = "exit"

\* p has the lock and is between its first and its last use of the files.
Editing(p) == \/ pc[p] \in {"temp", "read", "write"}
              \/ pc[p] = "rename" /\ mode[p] # "early"

(***************************************************************************)
(* The lock does its work: no two processes are between reading the file   *)
(* and replacing it.  It holds for two processes that edit the file once   *)
(* each, whatever fails and whoever is killed on the way.                  *)
(***************************************************************************)
OneEditor == \A p, q \in Proc : Editing(p) /\ Editing(q) => p = q

(***************************************************************************)
(* A control file that exists goes on existing: qmail-smtpd and qmail-send *)
(* never find rcpthosts or virtualdomains missing while it is edited, by   *)
(* any number of processes with any failures.                              *)
(***************************************************************************)
FileStays == [][ctl # 0 => ctl' # 0]_vars

(***************************************************************************)
(* qmail-newu refuses a users/assign without its last line ".": however    *)
(* many processes edit the file, it ends with the terminator, and has it   *)
(* nowhere else.                                                           *)
(***************************************************************************)
Terminated ==
  ctl # 0 => /\ data[ctl] # <<>> /\ Last(data[ctl]) = Dot
             /\ \A i \in 1..(Len(data[ctl]) - 1) : data[ctl][i] # Dot

(***************************************************************************)
(* An edit that reported success lasts: when all processes have ended, an  *)
(* added line is in the file and a removed one is not, unless another      *)
(* process was asked to edit the very same line.                           *)
(***************************************************************************)
EffectStays ==
  AllDone =>
    \A p \in Proc : \A i \in done[p] :
      LET e == prog[p][i]
          others == {f \in UNION {ToSet(prog[q]) : q \in Proc} : f # e}
      IN  (\A f \in others : f.line # e.line) =>
            CASE e.op = "update" -> ctl # 0 /\ Contains(data[ctl], e.line)
              [] e.op = "removeall" -> ctl = 0 \/ ~Contains(data[ctl], e.line)
              [] OTHER -> TRUE

(***************************************************************************)
(* Nobody waits for ever: the lock is dropped by every path through an     *)
(* edit and by the death of its holder, so every process ends.             *)
(***************************************************************************)
EveryoneEnds == <>AllDone

(***************************************************************************)
(* With one edit each, the file changes as AtomicFile says.                *)
(***************************************************************************)
Pending(p) ==
  \/ pc[p] \in {"open", "wait", "temp", "read", "write", "rename"}
  \/ pc[p] = "next" /\ More(p)
  \/ pc[p] \in {"unlink", "release"} /\ mode[p] = "early"

Atomic == INSTANCE AtomicFile WITH
            edit <- [p \in Proc |-> prog[p][1]],
            lines <- IF ctl = 0 THEN {} ELSE ToSet(data[ctl]) \ {Dot},
            todo <- {p \in Proc : Pending(p)},
            made <- {p \in Proc : mode[p] = "made" \/ 1 \in done[p]}

\* Readers see the lines before or after an edit, no edit undoes another, and
\* an edit that reports success has been made.
EditsAreAtomic == Atomic!Spec
=============================================================================

------------------------------- MODULE BigDir -------------------------------
(***************************************************************************)
(* Handing out directories to users, and taking them back.                 *)
(*                                                                         *)
(* make_user_dir() asks backfill() for a directory that a deleted user     *)
(* left, and open_big_dir(), next_big_dir() and close_big_dir() for the    *)
(* next one of the layout otherwise; deluser() calls dec_dir_control();    *)
(* vreorg deals out all directories anew.  The layout of a domain on a     *)
(* filesystem is one row of the table dir_control, which the tools read    *)
(* and write without a lock, and the list of directories to be backfilled  *)
(* is a file.                                                              *)
(*                                                                         *)
(* vread_dir_control() and vwrite_dir_control() append to a static buffer  *)
(* that they never empty.  The statement they execute ends at the first    *)
(* Nul, so every later call in a process repeats its first statement: a    *)
(* read of the same row, and a write of the row as it was first written.   *)
(***************************************************************************)
EXTENDS DirControl, FiniteSets, SequencesExt

CONSTANTS
  Proc,         \* the processes: runs of vadduser, vdeluser, vreorg
  User,         \* the users of one domain on one filesystem
  None,
  Tools,        \* which of "add", "del" and "reorg" are run
  AtATime,      \* how many tools run at a time
  MaxRuns,      \* how many tools are run
  MaxFaults     \* how many home directories cannot be made

ASSUME ToolAssumption == Tools \subseteq {"add", "del", "reorg"}
ASSUME BoundAssumption == AtATime \in Nat /\ MaxRuns \in Nat /\ MaxFaults \in Nat
ASSUME NoneAssumption ==
  None \notin User /\ None \notin VdirType /\ None \notin Seq(-2..End)

VARIABLES
  row,          \* the row of dir_control
  fill,         \* the backfill file: one line, the names appended to it
  home,         \* home[u]: the name of the directory u's home is in
  pc, who,      \* what each process does, and for which user
  todo,         \* todo[p]: the users vreorg has still to move
  vdir,         \* vdir[p]: the global vdir of the process
  line,         \* line[p]: what p read from the backfill file
  wrote,        \* wrote[p]: the row p wrote first
  runs, faults,
  alone         \* no two tools have been running at the same time so far

local == <<who, todo, vdir, line, wrote>>
vars == <<row, fill, home, pc, local, runs, faults, alone>>

\* The name of a directory, with Slash between the levels.
Slash == -2
Text(d) ==
  CASE Len(d) = 0 -> <<>>
    [] Len(d) = 1 -> d
    [] Len(d) = 2 -> <<d[1], Slash, d[2]>>
    [] Len(d) = 3 -> <<d[1], Slash, d[2], Slash, d[3]>>

Located == {u \in User : home[u] # None}
Running == {p \in Proc : pc[p] # "off"}
Goto(p, l) == pc' = [pc EXCEPT ![p] = l]

Init ==
  /\ row = init_dir_control
  /\ fill = <<>>
  /\ home = [u \in User |-> None]
  /\ pc = [p \in Proc |-> "off"]
  /\ who = [p \in Proc |-> None]
  /\ todo = [p \in Proc |-> {}]
  /\ vdir = [p \in Proc |-> init_dir_control]
  /\ line = [p \in Proc |-> <<>>]
  /\ wrote = [p \in Proc |-> None]
  /\ runs = 0 /\ faults = 0 /\ alone = TRUE

-----------------------------------------------------------------------------
\* vread_dir_control() into the global vdir; v is what the caller makes of the row.
vread(p, v) == vdir' = [vdir EXCEPT ![p] = v]

\* vwrite_dir_control(): the first statement of this process, again.
vwrite(p) ==
  /\ row' = IF wrote[p] = None THEN vdir[p] ELSE wrote[p]
  /\ wrote' = [wrote EXCEPT ![p] = row']

OneMore(v) == IF v.cur_users > 0 THEN [v EXCEPT !.cur_users = @ + 1] ELSE v

\* Mutant of OneLess: the count is not looked at.
OneLess_NoGuard(v) == [v EXCEPT !.cur_users = @ - 1]

OneLess(v) == IF v.cur_users > 0 THEN [v EXCEPT !.cur_users = @ - 1] ELSE v

\* A tool is started, with all its static variables empty.
Start(p, tool, l) ==
  /\ tool \in Tools
  /\ pc[p] = "off"
  /\ Cardinality(Running) < AtATime
  /\ runs < MaxRuns
  /\ runs' = runs + 1
  /\ alone' = (alone /\ Running = {})
  /\ Goto(p, l)
  /\ wrote' = [wrote EXCEPT ![p] = None]
  /\ vdir' = [vdir EXCEPT ![p] = init_dir_control]
  /\ line' = [line EXCEPT ![p] = <<>>]
  /\ UNCHANGED <<row, fill, home, faults>>

Busy == {who[p] : p \in Running} \cup UNION {todo[p] : p \in Proc}

-----------------------------------------------------------------------------
(***************************************************************************)
(* vadduser: make_user_dir().                                              *)
(***************************************************************************)
StartAdd(p, u) ==
  /\ home[u] = None /\ u \notin Busy
  /\ Start(p, "add", "fillread")
  /\ who' = [who EXCEPT ![p] = u]
  /\ UNCHANGED todo

\* backfill() for an add: read the first line of the file, without the lock.
FillRead(p) ==
  /\ pc[p] = "fillread"
  /\ Goto(p, IF fill = <<>> THEN "get" ELSE "fillremove")
  /\ line' = [line EXCEPT ![p] = fill]
  /\ UNCHANGED <<row, fill, home, who, todo, vdir, wrote, runs, faults, alone>>

(***************************************************************************)
(* remove_line() of what was read.  The file has one line without a        *)
(* newline, of which all characters but the last are compared.             *)
(***************************************************************************)
FillRemove(p) ==
  /\ pc[p] = "fillremove"
  /\ \/ /\ fill # <<>> /\ IsPrefix(Front(fill), line[p])
        /\ fill' = <<>>
        /\ Goto(p, "fillget")
     \/ /\ ~(fill # <<>> /\ IsPrefix(Front(fill), line[p]))
        /\ Goto(p, "get")
        /\ UNCHANGED fill
  /\ UNCHANGED <<row, home, local, runs, faults, alone>>

\* Mutant of FillGet: the row is not read.
FillGet_NoRead(p) ==
  /\ pc[p] = "fillget"
  /\ vdir' = [vdir EXCEPT ![p] = OneMore(vdir[p])]
  /\ Goto(p, "fillput")
  /\ UNCHANGED <<row, fill, home, who, todo, line, wrote, runs, faults, alone>>

\* Count the user whose directory is backfilled ...
FillGet(p) ==
  /\ pc[p] = "fillget"
  /\ vread(p, OneMore(row))
  /\ Goto(p, "fillput")
  /\ UNCHANGED <<row, fill, home, who, todo, line, wrote, runs, faults, alone>>

\* ... and return the directory that was read.
FillPut(p) ==
  /\ pc[p] = "fillput"
  /\ vwrite(p)
  /\ home' = [home EXCEPT ![who[p]] = line[p]]
  /\ Goto(p, "mkdir")
  /\ UNCHANGED <<fill, who, todo, vdir, line, runs, faults, alone>>

\* open_big_dir() and next_big_dir() ...
Get(p) ==
  /\ pc[p] = "get"
  /\ vread(p, inc_dir_control(row))
  /\ Goto(p, "put")
  /\ UNCHANGED <<row, fill, home, who, todo, line, wrote, runs, faults, alone>>

\* ... and close_big_dir().
Put(p) ==
  /\ pc[p] = "put"
  /\ vwrite(p)
  /\ home' = [home EXCEPT ![who[p]] = Text(DirName(vdir[p]))]
  /\ Goto(p, "mkdir")
  /\ UNCHANGED <<fill, who, todo, vdir, line, runs, faults, alone>>

\* vmake_maildir(): the home directory is made ...
Mkdir(p) ==
  /\ pc[p] = "mkdir"
  /\ Goto(p, "off")
  /\ UNCHANGED <<row, fill, home, local, runs, faults, alone>>

\* ... or it is not, and dec_dir_control() gives the directory back.
MkdirFails(p) ==
  /\ pc[p] = "mkdir"
  /\ faults < MaxFaults
  /\ faults' = faults + 1
  /\ Goto(p, "fillappend")
  /\ UNCHANGED <<row, fill, home, local, runs, alone>>

-----------------------------------------------------------------------------
(***************************************************************************)
(* vdeluser: dec_dir_control().                                            *)
(***************************************************************************)
StartDel(p, u) ==
  /\ home[u] # None /\ u \notin Busy
  /\ Start(p, "del", "fillappend")
  /\ who' = [who EXCEPT ![p] = u]
  /\ UNCHANGED todo

\* backfill() for a delete: append the directory, without a newline; nothing
\* is noted for a home in the domain directory itself.
FillAppend(p) ==
  /\ pc[p] = "fillappend"
  /\ fill' = fill \o home[who[p]]
  /\ Goto(p, "decget")
  /\ UNCHANGED <<row, home, local, runs, faults, alone>>

DecGet(p) ==
  /\ pc[p] = "decget"
  /\ vread(p, OneLess(row))
  /\ Goto(p, "decput")
  /\ UNCHANGED <<row, fill, home, who, todo, line, wrote, runs, faults, alone>>

\* Mutant of DecPut: the count is not written back.
DecPut_NoWrite(p) ==
  /\ pc[p] = "decput"
  /\ home' = [home EXCEPT ![who[p]] = None]
  /\ Goto(p, "off")
  /\ UNCHANGED <<row, fill, local, runs, faults, alone>>

DecPut(p) ==
  /\ pc[p] = "decput"
  /\ vwrite(p)
  /\ home' = [home EXCEPT ![who[p]] = None]
  /\ Goto(p, "off")
  /\ UNCHANGED <<fill, who, todo, vdir, line, runs, faults, alone>>

-----------------------------------------------------------------------------
(***************************************************************************)
(* vreorg -r: vdel_dir_control(), and a new directory for every user.      *)
(***************************************************************************)
StartReorg(p) ==
  /\ Busy \subseteq {None}
  /\ Start(p, "reorg", "reset")
  /\ todo' = [todo EXCEPT ![p] = Located]
  /\ UNCHANGED who

Reset(p) ==
  /\ pc[p] = "reset"
  /\ row' = init_dir_control
  /\ Goto(p, "pick")
  /\ UNCHANGED <<fill, home, local, runs, faults, alone>>

\* The next user of the list; open_big_dir() and next_big_dir().
Pick(p) ==
  /\ pc[p] = "pick"
  /\ \E u \in todo[p] :
       /\ who' = [who EXCEPT ![p] = u]
       /\ todo' = [todo EXCEPT ![p] = @ \ {u}]
  /\ vread(p, inc_dir_control(row))
  /\ Goto(p, "move")
  /\ UNCHANGED <<row, fill, home, line, wrote, runs, faults, alone>>

\* close_big_dir(), and move the home and the pw_dir of the user.
Move(p) ==
  /\ pc[p] = "move"
  /\ vwrite(p)
  /\ home' = [home EXCEPT ![who[p]] = Text(DirName(vdir[p]))]
  /\ Goto(p, "pick")
  /\ UNCHANGED <<fill, who, todo, vdir, line, runs, faults, alone>>

EndReorg(p) ==
  /\ pc[p] = "pick" /\ todo[p] = {}
  /\ Goto(p, "off")
  /\ UNCHANGED <<row, fill, home, local, runs, faults, alone>>

-----------------------------------------------------------------------------
Next ==
  \E p \in Proc :
    \/ \E u \in User : StartAdd(p, u) \/ StartDel(p, u)
    \/ FillRead(p) \/ FillRemove(p) \/ FillGet(p) \/ FillPut(p)
    \/ Get(p) \/ Put(p) \/ Mkdir(p) \/ MkdirFails(p)
    \/ FillAppend(p) \/ DecGet(p) \/ DecPut(p)
    \/ StartReorg(p) \/ Reset(p) \/ Pick(p) \/ Move(p) \/ EndReorg(p)

Spec == Init /\ [][Next]_vars

-----------------------------------------------------------------------------
TypeOK ==
  /\ row \in VdirType
  /\ fill \in Seq(Slash..End)
  /\ \A u \in User : home[u] = None \/ home[u] \in Seq(Slash..End)
  /\ pc \in [Proc -> {"off", "fillread", "fillremove", "fillget", "fillput",
                      "get", "put", "mkdir", "fillappend", "decget", "decput",
                      "reset", "pick", "move"}]
  /\ vdir \in [Proc -> VdirType]
  /\ runs \in 0..MaxRuns /\ faults \in 0..MaxFaults

(***************************************************************************)
(* As long as tools are run one after the other and no home directory is   *)
(* refused, the count is never more than the users there are, so that the  *)
(* layout does not go on to a new directory too early on account of users  *)
(* that are long gone: the additions that backfill() and the deletions     *)
(* that dec_dir_control() count do not drift apart upwards.                *)
(***************************************************************************)
CountBound ==
  alone /\ faults = 0 /\ Running = {} => row.cur_users <= Cardinality(Located)

(***************************************************************************)
(* As long as tools are run one after the other, and until the third level *)
(* is full, the layout never goes back to a directory it has left, but for *)
(* the reset of vreorg: backfilling and deleting change the count, never   *)
(* the place, though each of them writes a whole row.                      *)
(***************************************************************************)
Place(v) == <<v.level_cur, v.the_dir[0], v.the_dir[1], v.the_dir[2]>>
Before(v, w) ==
  \E i \in 1..4 : /\ Place(v)[i] < Place(w)[i]
                  /\ \A j \in 1..(i - 1) : Place(v)[j] = Place(w)[j]
Full(v) == v.level_cur = 2 /\ \A k \in Levels : v.the_dir[k] = End
DirForward ==
  [][\/ Place(row') = Place(row) \/ Before(row, row')
     \/ ~alone \/ Full(row)
     \/ \E p \in Proc : pc[p] = "reset" /\ pc'[p] = "pick"]_vars

(***************************************************************************)
(* However the unlocked reads and writes of vadduser, vdeluser and vreorg  *)
(* interleave, and whatever rows are written twice: the row, and what the  *)
(* tools have read of it, is one that inc_dir_control() can go on from.    *)
(***************************************************************************)
RowWellFormed == WellFormed(row) /\ \A p \in Proc : WellFormed(vdir[p])
=============================================================================

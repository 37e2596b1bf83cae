-------------------------- MODULE UserClusterProofs --------------------------
(***************************************************************************)
(* Proofs about UserCluster, for any hosts, users and number of failures.  *)
(***************************************************************************)
EXTENDS UserCluster, TLAPS


(* sql_updateflag at (h, u) touches no other host and no other user; a     *)
(* flag deletes no row, and a delete of one of two rows leaves the other.  *)
LEMMA FlagFacts ==
    ASSUME TypeOK, NEW h \in Hosts, NEW u \in Users, NEW f \in Flags
    PROVE  LET T == sql_updateflag(h, u, f) IN
           /\ T \in [Hosts -> [Tables -> [Users -> Flags]]]
           /\ \A g \in Hosts \ {h} : T[g] = tbl[g]
           /\ \A t \in Tables, v \in Users \ {u} : T[h][t][v] = tbl[h][t][v]
           /\ \A t \in Tables :
                 T[h][t][u] = IF t \in Touched(h, u, f) THEN f ELSE tbl[h][t][u]
BY DEF TypeOK, sql_updateflag, Touched, Tables

LEMMA KeepFacts ==
    ASSUME TypeOK, NEW h \in Hosts, NEW u \in Users, NEW f \in Flags
    PROVE  LET T == sql_updateflag(h, u, f) IN
           /\ f # NoRow => \A t \in Tables : tbl[h][t][u] # NoRow => T[h][t][u] # NoRow
           /\ (\A t \in Tables : tbl[h][t][u] # NoRow) => \E t \in Tables : T[h][t][u] # NoRow
<1>1. \A t \in Tables :
         sql_updateflag(h, u, f)[h][t][u] = IF t \in Touched(h, u, f) THEN f ELSE tbl[h][t][u]
  BY FlagFacts
<1>2. (\A t \in Tables : tbl[h][t][u] # NoRow) => "inactive" \notin Touched(h, u, f) \/ f # NoRow
  BY DEF Touched, Affects, Tables
<1>3. QED
  BY <1>1, <1>2 DEF Tables

(* The same for a single row.                                              *)
LEMMA RowFacts ==
    ASSUME TypeOK, NEW h \in Hosts, NEW t \in Tables, NEW u \in Users, NEW f \in Flags
    PROVE  LET T == WithRow(h, t, u, f) IN
           /\ T \in [Hosts -> [Tables -> [Users -> Flags]]]
           /\ \A g \in Hosts \ {h} : T[g] = tbl[g]
           /\ \A s \in Tables, v \in Users :
                 T[h][s][v] = IF s = t /\ v = u THEN f ELSE tbl[h][s][v]
BY DEF TypeOK, WithRow

(* The types of a process's own variables, and how each way of going on    *)
(* keeps them.                                                             *)
Control ==
    /\ pc \in [Procs -> PCs]
    /\ arg \in [Procs -> Users \cup {None}]
    /\ \A p \in Procs : arg[p] = None <=> pc[p] \in {"idle", "sync"}
    /\ to \in [Procs -> Tables]
    /\ mkhome \in [Procs -> BOOLEAN]
    /\ todo \in [Procs -> SUBSET Entries]

LEMMA ExitControl ==
    ASSUME TypeOK, NEW p \in Procs, Exit(p)
    PROVE  Control'
BY DEF TypeOK, Control, Exit, Tables, PCs

LEMMA SyncNextControl ==
    ASSUME TypeOK, NEW p \in Procs, SyncNext(p)
    PROVE  Control'
BY DEF TypeOK, Control, SyncNext, Tables, PCs, SyncPCs

LEMMA GotoControl ==
    ASSUME TypeOK, NEW p \in Procs, NEW l \in PCs \ {"idle", "sync"}, Goto(p, l),
           pc[p] \notin {"idle", "sync"}
    PROVE  Control'
BY DEF TypeOK, Control, Goto, PCs

-----------------------------------------------------------------------------
(* TypeOK is preserved by every step.                                      *)
LEMMA TypeStep ==
    ASSUME TypeOK, [Next]_vars
    PROVE  TypeOK'
<1> USE ClusterAssumption
<1>0. SUFFICES ASSUME NEW p \in Procs, Begin(p) \/ Run(p) \/ Fault(p)
               PROVE  TypeOK'
  <2>1. CASE UNCHANGED vars
    BY <2>1 DEF vars, TypeOK
  <2>2. QED
    BY <2>1 DEF Next
<1>h. HostOf[p] \in Hosts
  OBVIOUS
<1> USE DEF TypeOK, PCs, AddPCs, DelPCs, MovePCs, SyncPCs
<1>1. CASE Begin(p)
  <2>1. ASSUME NEW u \in Users, NEW t \in Tables, NEW m \in BOOLEAN, AddStart(p, u, t, m)
        PROVE  TypeOK'
    BY <2>1 DEF AddStart, Start
  <2>2. ASSUME NEW u \in Users, DelStart(p, u)
        PROVE  TypeOK'
    BY <2>2 DEF DelStart, Start, Tables
  <2>3. ASSUME NEW u \in Users, InactStart(p, u)
        PROVE  TypeOK'
    BY <2>3 DEF InactStart, Start, Tables
  <2>4. ASSUME NEW u \in Users, LoginStart(p, u)
        PROVE  TypeOK'
    BY <2>4 DEF LoginStart, Start, Tables
  <2>5. CASE SyncStart(p)
    BY <2>5, <1>h DEF SyncStart, sql_getflags
  <2>6. QED
    BY <1>1, <2>1, <2>2, <2>3, <2>4, <2>5 DEF Begin
<1>2. CASE Run(p)
  <2>1. CASE AddMkdir(p)
    BY <2>1, <1>h DEF AddMkdir, Goto
  <2>2. CASE AddRow(p)
    <3>1. arg[p] \in Users /\ to[p] \in Tables /\ ADD_FLAG \in Flags
      BY <2>2 DEF AddRow, Flags
    <3>2. WithRow(HostOf[p], to[p], arg[p], ADD_FLAG) \in [Hosts -> [Tables -> [Users -> Flags]]]
      BY <3>1, <1>h, RowFacts
    <3>3. QED
      BY ZenonT(60), <2>2, <3>2 DEF AddRow, Goto, Exit, Tables
  <2>3. CASE AddCntrl(p)
    <3>1. Control'
      BY <2>3, ExitControl, GotoControl DEF AddCntrl
    <3>2. cntrl' \in [Users -> Hosts \cup {None}]
      BY ZenonT(60), <2>3, <1>h DEF AddCntrl
    <3>3. QED
      BY <2>3, <3>1, <3>2 DEF AddCntrl, Control
  <2>4. CASE AddClear(p)
    <3>1. arg[p] \in Users /\ SYNCED \in Flags
      BY <2>4 DEF AddClear, Flags
    <3>2. sql_updateflag(HostOf[p], arg[p], SYNCED) \in [Hosts -> [Tables -> [Users -> Flags]]]
      BY <3>1, <1>h, FlagFacts
    <3>3. QED
      BY <2>4, <3>2 DEF AddClear, Exit, Tables
  <2>5. CASE DelFlag(p)
    <3>1. arg[p] \in Users /\ DEL_FLAG \in Flags
      BY <2>5 DEF DelFlag, Flags
    <3>2. sql_updateflag(HostOf[p], arg[p], DEL_FLAG) \in [Hosts -> [Tables -> [Users -> Flags]]]
      BY <3>1, <1>h, FlagFacts
    <3>3. QED
      BY ZenonT(60), <2>5, <3>2 DEF DelFlag, Goto, Exit, Tables
  <2>6. CASE DelCntrl(p)
    BY <2>6 DEF DelCntrl, Goto
  <2>7. CASE DelRow(p)
    <3>1. arg[p] \in Users /\ NoRow \in Flags
      BY <2>7 DEF DelRow, Flags
    <3>2. sql_updateflag(HostOf[p], arg[p], NoRow) \in [Hosts -> [Tables -> [Users -> Flags]]]
      BY <3>1, <1>h, FlagFacts
    <3>3. QED
      BY ZenonT(60), <2>7, <3>2 DEF DelRow, Goto, Exit, Tables
  <2>8. CASE DelHome(p)
    BY <2>8, <1>h DEF DelHome, Exit, Tables
  <2>9. CASE LoginHome(p)
    <3>1. Control'
      BY <2>9, ExitControl, GotoControl DEF LoginHome
    <3>2. home' \in [Hosts -> SUBSET Users]
      BY ZenonT(60), <2>9, <1>h DEF LoginHome
    <3>3. QED
      BY <2>9, <3>1, <3>2 DEF LoginHome, Control
  <2>10. CASE MoveIns(p)
    <3> DEFINE f == tbl[HostOf[p]][Other(to[p])][arg[p]]
    <3>1. arg[p] \in Users /\ to[p] \in Tables /\ f \in Flags
      <4>1. arg[p] \in Users /\ to[p] \in Tables /\ Other(to[p]) \in Tables
        BY <2>10 DEF MoveIns, Other, Tables
      <4>2. QED
        BY <4>1, <1>h
    <3>2. tbl' = tbl \/ tbl' = WithRow(HostOf[p], to[p], arg[p], f)
      BY <2>10 DEF MoveIns
    <3> HIDE DEF f, TypeOK
    <3>3. WithRow(HostOf[p], to[p], arg[p], f) \in [Hosts -> [Tables -> [Users -> Flags]]]
      BY <3>1, <1>h, RowFacts
    <3>4. Control'
      BY <2>10, ExitControl, GotoControl DEF MoveIns
    <3>5. QED
      BY <2>10, <3>2, <3>3, <3>4 DEF MoveIns, Control, TypeOK
  <2>11. CASE MoveDel(p)
    <3>1. arg[p] \in Users /\ Other(to[p]) \in Tables /\ NoRow \in Flags
      BY <2>11 DEF MoveDel, Other, Tables, Flags
    <3>2. WithRow(HostOf[p], Other(to[p]), arg[p], NoRow) \in [Hosts -> [Tables -> [Users -> Flags]]]
      BY <3>1, <1>h, RowFacts
    <3>3. QED
      BY ZenonT(60), <2>11, <3>2 DEF MoveDel, Goto, Exit, Tables
  <2>12. CASE SyncPick(p)
    BY <2>12 DEF SyncPick, Entries
  <2>13. CASE SyncEnd(p)
    BY <2>13 DEF SyncEnd, Exit, Tables
  <2>14. CASE SyncPresent(p)
    <3>1. Control'
      BY <2>14, SyncNextControl, GotoControl DEF SyncPresent
    <3>2. QED
      BY <2>14, <3>1 DEF SyncPresent, Control
  <2>15. CASE SyncIns(p)
    <3>1. Control'
      BY <2>15, SyncNextControl, GotoControl DEF SyncIns
    <3>2. cntrl' \in [Users -> Hosts \cup {None}]
      BY ZenonT(60), <2>15, <1>h DEF SyncIns
    <3>3. QED
      BY <2>15, <3>1, <3>2 DEF SyncIns, Control
  <2>16. CASE SyncDelCntrl(p)
    BY <2>16 DEF SyncDelCntrl, Goto
  <2>17. CASE SyncFlag(p)
    <3> DEFINE f == IF pc[p] = "syncclr" THEN SYNCED ELSE NoRow
    <3>1. arg[p] \in Users /\ f \in Flags
      BY <2>17 DEF SyncFlag, Flags
    <3>2. sql_updateflag(HostOf[p], arg[p], f) \in [Hosts -> [Tables -> [Users -> Flags]]]
      BY <3>1, <1>h, FlagFacts
    <3>3. QED
      BY <2>17, <3>2 DEF SyncFlag, SyncNext, Tables
  <2>18. QED
    BY <1>2, <2>1, <2>2, <2>3, <2>4, <2>5, <2>6, <2>7, <2>8, <2>9, <2>10, <2>11,
       <2>12, <2>13, <2>14, <2>15, <2>16, <2>17
       DEF Run, AddStep, DelStep, MoveStep, SyncStep
<1>3. CASE Fault(p)
  <2>1. CASE AddCntrlFails(p)
    BY <2>1, <1>h DEF AddCntrlFails, MasterFails, Exit, Tables
  <2>2. CASE DelCntrlFails(p)
    <3>1. Control'
      BY <2>2, ExitControl DEF DelCntrlFails
    <3>2. cntrl' \in [Users -> Hosts \cup {None}]
      BY <2>2 DEF DelCntrlFails
    <3>3. QED
      BY <2>2, <3>1, <3>2 DEF DelCntrlFails, MasterFails, Control
  <2>3. CASE SyncFails(p)
    <3>1. Control'
      BY <2>3, SyncNextControl DEF SyncFails
    <3>2. cntrl' \in [Users -> Hosts \cup {None}]
      BY <2>3, <1>h DEF SyncFails
    <3>3. QED
      BY <2>3, <3>1, <3>2 DEF SyncFails, MasterFails, Control
  <2>4. CASE Crash(p)
    BY <2>4 DEF Crash, Exit, Tables
  <2>5. QED
    BY <1>3, <2>1, <2>2, <2>3, <2>4 DEF Fault
<1>4. QED
  BY <1>0, <1>1, <1>2, <1>3

-----------------------------------------------------------------------------
(* A step of process p.                                                    *)
Step(p) == Begin(p) \/ Run(p) \/ Fault(p)

(* What a step of p leaves alone: other hosts' tables, other processes,    *)
(* and everything about users other than arg[p]; and how it may change     *)
(* arg[p]'s location.                                                      *)
Local(p) ==
    /\ \A g \in Hosts \ {HostOf[p]} : tbl'[g] = tbl[g]
    /\ \A t \in Tables, v \in Users : v # arg[p] => tbl'[HostOf[p]][t][v] = tbl[HostOf[p]][t][v]
    /\ \A q \in Procs \ {p} : /\ pc'[q] = pc[q]
                               /\ arg'[q] = arg[q]
                               /\ to'[q] = to[q]
                               /\ todo'[q] = todo[q]
    /\ \A v \in Users : v # arg[p] => cntrl'[v] = cntrl[v]
    /\ \/ cntrl' = cntrl
       \/ cntrl' = [cntrl EXCEPT ![arg[p]] = None]
       \/ /\ pc[p] \in {"addcntrl", "syncins"}
          /\ cntrl[arg[p]] = None
          /\ cntrl' = [cntrl EXCEPT ![arg[p]] = HostOf[p]]
          /\ tbl' = tbl

(* Every step that leaves tbl and cntrl alone is local.                    *)
LEMMA QuietLocal ==
    ASSUME TypeOK, NEW p \in Procs, UNCHANGED <<tbl, cntrl>>,
           \/ Exit(p)
           \/ SyncNext(p)
           \/ \E l \in PCs : Goto(p, l)
           \/ \E u \in Users, t \in Tables, m \in BOOLEAN, l \in PCs : Start(p, u, t, m, l)
    PROVE  Local(p)
BY DEF TypeOK, Local, Exit, SyncNext, Goto, Start

LEMMA ControlLocal ==
    ASSUME TypeOK, NEW p \in Procs,
           Exit(p) \/ SyncNext(p) \/ \E l \in PCs : Goto(p, l)
    PROVE  \A q \in Procs \ {p} : /\ pc'[q] = pc[q]
                                  /\ arg'[q] = arg[q]
                                  /\ to'[q] = to[q]
                                  /\ todo'[q] = todo[q]
BY DEF TypeOK, Exit, SyncNext, Goto

(* A step whose only effect on tbl is sql_updateflag or a single row.      *)
LEMMA TableLocal ==
    ASSUME TypeOK, NEW p \in Procs, arg[p] \in Users, UNCHANGED cntrl,
           Exit(p) \/ SyncNext(p) \/ \E l \in PCs : Goto(p, l),
           \/ UNCHANGED tbl
           \/ \E f \in Flags : tbl' = sql_updateflag(HostOf[p], arg[p], f)
           \/ \E t \in Tables, f \in Flags : tbl' = WithRow(HostOf[p], t, arg[p], f)
    PROVE  Local(p)
<1>h. HostOf[p] \in Hosts
  BY ClusterAssumption
<1>1. \A q \in Procs \ {p} : /\ pc'[q] = pc[q]
                             /\ arg'[q] = arg[q]
                             /\ to'[q] = to[q]
                             /\ todo'[q] = todo[q]
  BY ControlLocal
<1>2. CASE UNCHANGED tbl
  BY <1>1, <1>2 DEF Local
<1>3. ASSUME NEW f \in Flags, tbl' = sql_updateflag(HostOf[p], arg[p], f)
      PROVE  Local(p)
  <2>1. \A g \in Hosts \ {HostOf[p]} : tbl'[g] = tbl[g]
    BY <1>3, <1>h, FlagFacts
  <2>2. \A s \in Tables, v \in Users : v # arg[p] => tbl'[HostOf[p]][s][v] = tbl[HostOf[p]][s][v]
    BY <1>3, <1>h, FlagFacts
  <2>3. QED
    BY <1>1, <2>1, <2>2 DEF Local
<1>4. ASSUME NEW t \in Tables, NEW f \in Flags, tbl' = WithRow(HostOf[p], t, arg[p], f)
      PROVE  Local(p)
  <2>1. \A g \in Hosts \ {HostOf[p]} : tbl'[g] = tbl[g]
    BY <1>4, <1>h, RowFacts
  <2>2. \A s \in Tables, v \in Users : v # arg[p] => tbl'[HostOf[p]][s][v] = tbl[HostOf[p]][s][v]
    BY SMTT(30), <1>4, <1>h, RowFacts
  <2>3. QED
    BY <1>1, <2>1, <2>2 DEF Local
<1>5. QED
  BY <1>2, <1>3, <1>4

(* A step whose only effect beyond p is on cntrl.                          *)
LEMMA CntrlLocal ==
    ASSUME TypeOK, NEW p \in Procs, arg[p] \in Users, UNCHANGED tbl,
           Exit(p) \/ SyncNext(p) \/ \E l \in PCs : Goto(p, l),
           \/ UNCHANGED cntrl
           \/ cntrl' = [cntrl EXCEPT ![arg[p]] = None]
           \/ /\ pc[p] \in {"addcntrl", "syncins"}
              /\ cntrl[arg[p]] = None
              /\ cntrl' = [cntrl EXCEPT ![arg[p]] = HostOf[p]]
    PROVE  Local(p)
<1>1. \A q \in Procs \ {p} : /\ pc'[q] = pc[q]
                             /\ arg'[q] = arg[q]
                             /\ to'[q] = to[q]
                             /\ todo'[q] = todo[q]
  BY ControlLocal
<1>2. \A v \in Users : v # arg[p] => cntrl'[v] = cntrl[v]
  BY DEF TypeOK
<1>3. QED
  BY <1>1, <1>2 DEF Local

LEMMA StepLocal ==
    ASSUME TypeOK, NEW p \in Procs, Step(p)
    PROVE  Local(p)
<1>h. HostOf[p] \in Hosts
  BY ClusterAssumption
<1>f. {NoRow, SYNCED, ADD_FLAG, DEL_FLAG} \subseteq Flags
  BY DEF Flags
<1>a. pc[p] \notin {"idle", "sync"} => arg[p] \in Users
  BY DEF TypeOK
<1> USE DEF PCs, AddPCs, DelPCs, MovePCs, SyncPCs
<1>1. CASE Begin(p)
  <2>1. CASE SyncStart(p)
    BY <2>1 DEF SyncStart, Local, TypeOK
  <2>2. CASE ~SyncStart(p)
    <3>1. /\ UNCHANGED <<tbl, cntrl>>
          /\ \E u \in Users, t \in Tables, m \in BOOLEAN, l \in PCs : Start(p, u, t, m, l)
      BY <1>1, <2>2 DEF Begin, AddStart, DelStart, InactStart, LoginStart, Tables
    <3>2. QED
      BY <3>1, QuietLocal
  <2>3. QED
    BY <2>1, <2>2
<1>2. CASE AddMkdir(p) \/ DelHome(p) \/ LoginHome(p) \/ SyncEnd(p) \/ SyncPresent(p)
           \/ Crash(p)
  <2>1. UNCHANGED <<tbl, cntrl>>
    BY <1>2 DEF AddMkdir, DelHome, LoginHome, SyncEnd, SyncPresent, Crash
  <2>2. Exit(p) \/ SyncNext(p) \/ \E l \in PCs : Goto(p, l)
    BY <1>2 DEF AddMkdir, DelHome, LoginHome, SyncEnd, SyncPresent, Crash
  <2>3. QED
    BY <2>1, <2>2, QuietLocal
<1>3. CASE SyncPick(p)
  BY <1>3 DEF SyncPick, Local, TypeOK
<1>4. CASE AddRow(p) \/ AddClear(p) \/ DelFlag(p) \/ DelRow(p) \/ SyncFlag(p)
  <2>1. arg[p] \in Users /\ UNCHANGED cntrl
    BY <1>4, <1>a DEF AddRow, AddClear, DelFlag, DelRow, SyncFlag
  <2>2. Exit(p) \/ SyncNext(p) \/ \E l \in PCs : Goto(p, l)
    BY <1>4 DEF AddRow, AddClear, DelFlag, DelRow, SyncFlag
  <2>3. \/ UNCHANGED tbl
        \/ \E f \in Flags : tbl' = sql_updateflag(HostOf[p], arg[p], f)
        \/ \E t \in Tables, f \in Flags : tbl' = WithRow(HostOf[p], t, arg[p], f)
    BY <1>4, <1>f DEF AddRow, AddClear, DelFlag, DelRow, SyncFlag, TypeOK
  <2>4. QED
    BY <2>1, <2>2, <2>3, TableLocal
<1>5. CASE MoveIns(p) \/ MoveDel(p)
  <2>1. arg[p] \in Users /\ to[p] \in Tables /\ Other(to[p]) \in Tables /\ UNCHANGED cntrl
    BY <1>5, <1>a DEF MoveIns, MoveDel, TypeOK, Other, Tables
  <2>2. Exit(p) \/ SyncNext(p) \/ \E l \in PCs : Goto(p, l)
    BY <1>5 DEF MoveIns, MoveDel
  <2>3. tbl[HostOf[p]][Other(to[p])][arg[p]] \in Flags
    BY <2>1, <1>h DEF TypeOK
  <2>4. \/ UNCHANGED tbl
        \/ \E t \in Tables, f \in Flags : tbl' = WithRow(HostOf[p], t, arg[p], f)
    BY <1>5, <2>1, <2>3, <1>f DEF MoveIns, MoveDel
  <2>5. QED
    BY <2>1, <2>2, <2>4, TableLocal
<1>6. CASE AddCntrl(p) \/ DelCntrl(p) \/ SyncIns(p) \/ SyncDelCntrl(p)
           \/ AddCntrlFails(p) \/ DelCntrlFails(p) \/ SyncFails(p)
  <2>1. arg[p] \in Users /\ UNCHANGED tbl
    BY <1>6, <1>a DEF AddCntrl, DelCntrl, SyncIns, SyncDelCntrl, AddCntrlFails,
       DelCntrlFails, SyncFails
  <2>2. Exit(p) \/ SyncNext(p) \/ \E l \in PCs : Goto(p, l)
    BY <1>6 DEF AddCntrl, DelCntrl, SyncIns, SyncDelCntrl, AddCntrlFails,
       DelCntrlFails, SyncFails
  <2>3. \/ UNCHANGED cntrl
        \/ cntrl' = [cntrl EXCEPT ![arg[p]] = None]
        \/ /\ pc[p] \in {"addcntrl", "syncins"}
           /\ cntrl[arg[p]] = None
           /\ cntrl' = [cntrl EXCEPT ![arg[p]] = HostOf[p]]
    BY <1>6 DEF AddCntrl, DelCntrl, SyncIns, SyncDelCntrl, AddCntrlFails,
       DelCntrlFails, SyncFails
  <2>4. QED
    BY <2>1, <2>2, <2>3, CntrlLocal
<1>7. QED
  BY <1>1, <1>2, <1>3, <1>4, <1>5, <1>6
     DEF Step, Run, Fault, AddStep, DelStep, MoveStep, SyncStep

(* With one tool per host, a step of p keeps the guard of every other q.   *)
LEMMA OtherGuards ==
    ASSUME TypeOK, OneToolPerHost, NEW p \in Procs, Local(p),
           NEW q \in Procs \ {p}, ToolGuard(q)
    PROVE  ToolGuard(q)'
<1>1. HostOf[q] \in Hosts \ {HostOf[p]} /\ HostOf[p] \in Hosts
  BY ClusterAssumption DEF OneToolPerHost
<1>2. tbl'[HostOf[q]] = tbl[HostOf[q]]
  BY <1>1 DEF Local
<1>3. pc'[q] = pc[q] /\ arg'[q] = arg[q] /\ to'[q] = to[q] /\ todo'[q] = todo[q]
  BY DEF Local
<1>4. pc[q] \in {"delrow", "syncdelrow"} => cntrl'[arg[q]] # HostOf[q]
  <2>1. SUFFICES ASSUME pc[q] \in {"delrow", "syncdelrow"}, cntrl[arg[q]] # HostOf[q]
                 PROVE  cntrl'[arg[q]] # HostOf[q]
    BY DEF ToolGuard
  <2>2. arg[q] \in Users
    BY <2>1 DEF TypeOK
  <2>3. QED
    BY <1>1, <2>1, <2>2, ClusterAssumption DEF Local, TypeOK
<1>5. QED
  BY <1>2, <1>3, <1>4 DEF ToolGuard, HasRow

-----------------------------------------------------------------------------
(* p's own guard.  Leaving a job, and statements after which nothing is    *)
(* promised, establish it at once.                                         *)
LEMMA ExitGuard ==
    ASSUME TypeOK, NEW p \in Procs, Exit(p)
    PROVE  ToolGuard(p)'
BY DEF TypeOK, Exit, ToolGuard, SyncPCs

LEMMA GotoGuard ==
    ASSUME TypeOK, NEW p \in Procs, ToolGuard(p), pc[p] \notin SyncPCs,
           NEW l \in {"addrow", "clradd", "delcntrl", "delhome", "mvins", "inacthome"},
           Goto(p, l)
    PROVE  ToolGuard(p)'
<1>1. pc'[p] = l /\ todo'[p] = {}
  BY DEF TypeOK, Goto, ToolGuard
<1>2. QED
  BY <1>1 DEF ToolGuard, SyncPCs

(* hostsync between two entries, when no row was deleted.                  *)
LEMMA SyncNextGuard ==
    ASSUME TypeOK, NEW p \in Procs, ToolGuard(p), SyncNext(p), pc[p] \in SyncPCs,
           \A t \in Tables, v \in Users :
               tbl[HostOf[p]][t][v] # NoRow => tbl'[HostOf[p]][t][v] # NoRow
    PROVE  ToolGuard(p)'
<1>1. pc'[p] = "sync" /\ todo'[p] \subseteq todo[p] /\ todo[p] \subseteq Entries
  BY DEF TypeOK, SyncNext
<1>2. \A e \in Entries : e.user \in Users /\ e.table \in Tables
  BY DEF Entries
<1>3. \A e \in todo'[p] : HasRow(HostOf[p], e.user)'
  BY <1>1, <1>2 DEF ToolGuard, HasRow
<1>4. \A d, e \in todo'[p] : d.user = e.user /\ d.table # e.table =>
         \A t \in Tables : tbl'[HostOf[p]][t][e.user] # NoRow
  BY <1>1, <1>2 DEF ToolGuard
<1>5. QED
  BY <1>1, <1>3, <1>4 DEF ToolGuard, SyncPCs

(* hostsync inside an entry.                                               *)
LEMMA SyncGotoGuard ==
    ASSUME TypeOK, NEW p \in Procs, ToolGuard(p), UNCHANGED tbl,
           pc[p] \in SyncPCs \ {"sync"}, NEW l \in SyncPCs \ {"sync"}, Goto(p, l),
           l = "syncdelrow" => cntrl'[arg[p]] # HostOf[p]
    PROVE  ToolGuard(p)'
<1>1. pc'[p] = l /\ todo'[p] = todo[p] /\ arg'[p] = arg[p] /\ to'[p] = to[p]
  BY DEF TypeOK, Goto
<1>2. QED
  BY <1>1 DEF ToolGuard, SyncPCs, HasRow

LEMMA OwnGuard ==
    ASSUME TypeOK, NEW p \in Procs, ToolGuard(p), Step(p)
    PROVE  ToolGuard(p)'
<1>h. HostOf[p] \in Hosts /\ None \notin Hosts
  BY ClusterAssumption
<1>f. {NoRow, SYNCED, ADD_FLAG, DEL_FLAG} \subseteq Flags
  BY DEF Flags
<1>a. pc[p] \notin {"idle", "sync"} => arg[p] \in Users
  BY DEF TypeOK
<1>1. CASE Begin(p)
  <2>1. CASE SyncStart(p)
    <3>1. /\ pc'[p] = "sync"
          /\ todo'[p] = sql_getflags(HostOf[p])
          /\ tbl' = tbl
      BY <2>1 DEF SyncStart, TypeOK
    <3>2. \A e \in sql_getflags(HostOf[p]) :
             e.table \in Tables /\ tbl[HostOf[p]][e.table][e.user] # NoRow
      BY DEF sql_getflags, Entries, NoRow, ADD_FLAG, DEL_FLAG
    <3>3. \A d, e \in sql_getflags(HostOf[p]) : d.user = e.user /\ d.table # e.table =>
             \A t \in Tables : tbl[HostOf[p]][t][e.user] # NoRow
      BY <3>2 DEF Tables
    <3>4. QED
      BY <3>1, <3>2, <3>3 DEF ToolGuard, SyncPCs, HasRow
  <2>2. CASE ~SyncStart(p)
    <3>1. \E l \in {"mkdir", "delflag", "mvins", "login", "relogin"},
             u \in Users, t \in Tables, m \in BOOLEAN : Start(p, u, t, m, l)
      BY <1>1, <2>2 DEF Begin, AddStart, DelStart, InactStart, LoginStart, Tables
    <3>2. /\ pc[p] = "idle" /\ pc'[p] \in {"mkdir", "delflag", "mvins", "login", "relogin"}
          /\ todo'[p] = todo[p]
      BY <3>1 DEF Start, TypeOK
    <3>3. QED
      BY <3>2 DEF ToolGuard, SyncPCs
  <2>3. QED
    BY <2>1, <2>2
<1>2. CASE AddMkdir(p) \/ AddCntrl(p) \/ AddClear(p) \/ DelFlag(p) \/ DelRow(p)
           \/ DelHome(p) \/ LoginHome(p) \/ MoveDel(p) \/ SyncEnd(p)
           \/ AddCntrlFails(p) \/ DelCntrlFails(p) \/ Crash(p)
  <2>1. \/ Exit(p)
        \/ /\ pc[p] \notin SyncPCs
           /\ \E l \in {"addrow", "clradd", "delcntrl", "delhome", "mvins", "inacthome"} :
                 Goto(p, l)
    BY <1>2 DEF AddMkdir, AddCntrl, AddClear, DelFlag, DelRow, DelHome, LoginHome,
       MoveDel, SyncEnd, AddCntrlFails, DelCntrlFails, Crash, SyncPCs
  <2>2. QED
    BY <2>1, ExitGuard, GotoGuard
<1>3. CASE AddRow(p)
  <2>1. CASE Exit(p)
    BY <2>1, ExitGuard
  <2>2. CASE /\ tbl' = WithRow(HostOf[p], to[p], arg[p], ADD_FLAG)
             /\ Goto(p, "addcntrl")
    <3>1. /\ pc[p] = "addrow" /\ pc'[p] = "addcntrl" /\ arg'[p] = arg[p] /\ todo'[p] = {}
          /\ arg[p] \in Users /\ to[p] \in Tables
      BY <1>3, <2>2, <1>a DEF AddRow, Goto, TypeOK, ToolGuard, SyncPCs
    <3>2. tbl'[HostOf[p]][to[p]][arg[p]] = ADD_FLAG
      BY <2>2, <3>1, <1>h, <1>f, RowFacts
    <3>3. QED
      BY <3>1, <3>2 DEF ToolGuard, SyncPCs, HasRow, NoRow, ADD_FLAG
  <2>3. QED
    BY <1>3, <2>1, <2>2 DEF AddRow
<1>4. CASE DelCntrl(p)
  <2>1. /\ pc[p] = "delcntrl" /\ pc'[p] = "delrow" /\ arg'[p] = arg[p] /\ todo'[p] = {}
        /\ cntrl'[arg[p]] = None
    BY <1>4, <1>a DEF DelCntrl, Goto, TypeOK, ToolGuard, SyncPCs
  <2>2. QED
    BY <2>1, <1>h DEF ToolGuard, SyncPCs
<1>5. CASE MoveIns(p)
  <2>1. CASE Exit(p)
    BY <2>1, ExitGuard
  <2>2. CASE ~Exit(p)
    <3>1. /\ pc[p] = "mvins" /\ pc'[p] = "mvdel" /\ arg'[p] = arg[p] /\ to'[p] = to[p]
          /\ todo'[p] = {} /\ arg[p] \in Users /\ to[p] \in Tables /\ Other(to[p]) \in Tables
      BY <1>5, <2>2, <1>a DEF MoveIns, Goto, TypeOK, ToolGuard, SyncPCs, Other, Tables
    <3>2. /\ tbl[HostOf[p]][Other(to[p])][arg[p]] \in Flags \ {NoRow}
          /\ tbl' = WithRow(HostOf[p], to[p], arg[p], tbl[HostOf[p]][Other(to[p])][arg[p]])
      BY <1>5, <2>2, <3>1, <1>h DEF MoveIns, TypeOK
    <3>3. tbl'[HostOf[p]][to[p]][arg[p]] # NoRow
      BY SMTT(90), <3>1, <3>2, <1>h, RowFacts
    <3>4. QED
      BY <3>1, <3>3 DEF ToolGuard, SyncPCs
  <2>3. QED
    BY <2>1, <2>2
<1>6. CASE SyncPick(p)
  <2>1. PICK e \in todo[p] : /\ pc' = [pc EXCEPT ![p] = IF e.flag = ADD_FLAG THEN "syncadd" ELSE "syncdel"]
                             /\ arg' = [arg EXCEPT ![p] = e.user]
                             /\ to' = [to EXCEPT ![p] = e.table]
    BY <1>6 DEF SyncPick
  <2>2. /\ pc'[p] \in {"syncadd", "syncdel"} /\ arg'[p] = e.user /\ to'[p] = e.table
        /\ todo' = todo /\ tbl' = tbl
    BY <1>6, <2>1 DEF SyncPick, TypeOK
  <2>3. QED
    BY <2>2 DEF ToolGuard, SyncPCs, HasRow
<1>7. CASE SyncPresent(p) \/ SyncIns(p) \/ SyncDelCntrl(p) \/ SyncFails(p)
  <2>1. pc[p] \in SyncPCs \ {"sync"} /\ UNCHANGED tbl
    BY <1>7 DEF SyncPresent, SyncIns, SyncDelCntrl, SyncFails, SyncPCs
  <2>2. CASE SyncNext(p)
    BY <2>1, <2>2, SyncNextGuard
  <2>3. CASE ~SyncNext(p)
    <3>1. \E l \in SyncPCs \ {"sync"} : Goto(p, l) /\ (l = "syncdelrow" => cntrl'[arg[p]] = None)
      BY <1>7, <2>3, <1>a DEF SyncPresent, SyncIns, SyncDelCntrl, SyncFails, SyncPCs, TypeOK
    <3>2. QED
      BY <2>1, <3>1, <1>h, SyncGotoGuard
  <2>4. QED
    BY <2>2, <2>3
<1>8. CASE SyncFlag(p)
  <2>1. arg[p] \in Users /\ SyncNext(p) /\ pc[p] \in SyncPCs
    BY <1>8, <1>a DEF SyncFlag, SyncPCs
  <2>2. CASE pc[p] = "syncclr"
    <3>1. tbl' = sql_updateflag(HostOf[p], arg[p], SYNCED)
      BY <1>8, <2>2 DEF SyncFlag
    <3>2. SYNCED # NoRow
      BY DEF SYNCED, NoRow
    <3>3. \A t \in Tables : tbl[HostOf[p]][t][arg[p]] # NoRow => tbl'[HostOf[p]][t][arg[p]] # NoRow
      BY <2>1, <3>1, <3>2, <1>h, <1>f, KeepFacts
    <3>4. \A t \in Tables, v \in Users \ {arg[p]} : tbl'[HostOf[p]][t][v] = tbl[HostOf[p]][t][v]
      BY <2>1, <3>1, <1>h, <1>f, FlagFacts
    <3>5. QED
      BY <2>1, <3>3, <3>4, SyncNextGuard
  <2>3. CASE pc[p] = "syncdelrow"
    <3>1. tbl' = sql_updateflag(HostOf[p], arg[p], NoRow)
      BY <1>8, <2>3 DEF SyncFlag
    <3>2. (\A t \in Tables : tbl[HostOf[p]][t][arg[p]] # NoRow)
             => \E t \in Tables : tbl'[HostOf[p]][t][arg[p]] # NoRow
      BY <2>1, <3>1, <1>h, <1>f, KeepFacts
    <3>3. \A t \in Tables, v \in Users \ {arg[p]} : tbl'[HostOf[p]][t][v] = tbl[HostOf[p]][t][v]
      BY <2>1, <3>1, <1>h, <1>f, FlagFacts
    <3>4. /\ pc'[p] = "sync"
          /\ todo'[p] = {e \in todo[p] : ~(e.table = to[p] /\ e.user = arg[p])}
          /\ \A e \in todo[p] : e.user \in Users /\ e.table \in Tables
      BY <2>1 DEF SyncNext, TypeOK, Entries
    <3>5. PICK c \in todo[p] : c.user = arg[p] /\ c.table = to[p]
      BY <2>3 DEF ToolGuard, SyncPCs
    <3>6. \A e \in todo'[p] : HasRow(HostOf[p], e.user)'
      <4>1. SUFFICES ASSUME NEW e \in todo'[p] PROVE HasRow(HostOf[p], e.user)'
        OBVIOUS
      <4>2. CASE e.user = arg[p]
        BY <3>2, <3>4, <3>5, <4>2 DEF ToolGuard, HasRow
      <4>3. CASE e.user # arg[p]
        BY <3>3, <3>4, <4>3 DEF ToolGuard, HasRow
      <4>4. QED
        BY <4>2, <4>3
    <3>7. \A d, e \in todo'[p] : d.user = e.user /\ d.table # e.table =>
             \A t \in Tables : tbl'[HostOf[p]][t][e.user] # NoRow
      <4>1. SUFFICES ASSUME NEW d \in todo'[p], NEW e \in todo'[p],
                            d.user = e.user, d.table # e.table
                     PROVE  \A t \in Tables : tbl'[HostOf[p]][t][e.user] # NoRow
        OBVIOUS
      <4>2. e.user # arg[p]
        <5>1. to[p] \in {"active", "inactive"} /\ d.table \in {"active", "inactive"}
              /\ e.table \in {"active", "inactive"}
          BY <3>4 DEF TypeOK, Tables
        <5>2. QED
          BY <3>4, <4>1, <5>1
      <4>3. QED
        BY <3>3, <3>4, <4>1, <4>2 DEF ToolGuard
    <3>8. QED
      BY <3>4, <3>6, <3>7 DEF ToolGuard, SyncPCs
  <2>4. QED
    BY <1>8, <2>2, <2>3 DEF SyncFlag
<1>9. QED
  BY <1>1, <1>2, <1>3, <1>4, <1>5, <1>6, <1>7, <1>8
     DEF Step, Run, Fault, AddStep, DelStep, MoveStep, SyncStep

-----------------------------------------------------------------------------
(* A step of p leaves a row of every user that is located on p's host.     *)
LEMMA RowKept ==
    ASSUME TypeOK, NEW p \in Procs, ToolGuard(p), LocationBacked, Step(p), Local(p),
           NEW u \in Users, cntrl'[u] = HostOf[p]
    PROVE  HasRow(HostOf[p], u)'
<1>h. HostOf[p] \in Hosts /\ None \notin Hosts
  BY ClusterAssumption
<1>f. {NoRow, SYNCED, ADD_FLAG, DEL_FLAG} \subseteq Flags
  BY DEF Flags
<1>a. pc[p] \notin {"idle", "sync"} => arg[p] \in Users
  BY DEF TypeOK
<1>1. CASE cntrl[u] # HostOf[p]
  <2>1. /\ pc[p] \in {"addcntrl", "syncins"} /\ arg[p] = u
        /\ tbl' = tbl
    BY <1>1, <1>h DEF Local, TypeOK
  <2>2. HasRow(HostOf[p], u)
    BY <2>1 DEF ToolGuard, SyncPCs
  <2>3. QED
    BY <2>1, <2>2 DEF HasRow
<1>2. CASE cntrl[u] = HostOf[p]
  <2>1. HasRow(HostOf[p], u)
    BY <1>2, <1>h DEF LocationBacked
  <2>2. CASE u # arg[p] \/ tbl' = tbl
    BY <2>1, <2>2 DEF HasRow, Local
  <2>3. CASE u = arg[p] /\ tbl' # tbl
    <3>1. \/ AddRow(p) \/ AddClear(p) \/ DelFlag(p) \/ DelRow(p)
          \/ MoveIns(p) \/ MoveDel(p) \/ SyncFlag(p)
      BY <2>3 DEF Step, Begin, Run, Fault, AddStep, DelStep, MoveStep, SyncStep,
         AddStart, DelStart, InactStart, LoginStart, SyncStart,
         AddMkdir, AddCntrl, DelCntrl, DelHome, LoginHome,
         SyncPick, SyncEnd, SyncPresent, SyncIns, SyncDelCntrl,
         AddCntrlFails, DelCntrlFails, SyncFails, Crash
    <3>2. CASE AddRow(p)
      <4>1. tbl' = WithRow(HostOf[p], to[p], u, ADD_FLAG) /\ to[p] \in Tables
        BY <2>3, <3>2 DEF AddRow, TypeOK
      <4>2. tbl'[HostOf[p]][to[p]][u] = ADD_FLAG
        BY <4>1, <1>h, <1>f, RowFacts
      <4>3. QED
        BY <4>1, <4>2 DEF HasRow, NoRow, ADD_FLAG
    <3>3. CASE AddClear(p) \/ DelFlag(p)
      <4>1. \E f \in {SYNCED, DEL_FLAG} : tbl' = sql_updateflag(HostOf[p], u, f)
        BY <2>3, <3>3 DEF AddClear, DelFlag
      <4>2. SYNCED # NoRow /\ DEL_FLAG # NoRow
        BY DEF SYNCED, DEL_FLAG, NoRow
      <4>3. \A t \in Tables : tbl[HostOf[p]][t][u] # NoRow => tbl'[HostOf[p]][t][u] # NoRow
        BY <4>1, <4>2, <1>h, <1>f, KeepFacts
      <4>4. QED
        BY <2>1, <4>3 DEF HasRow
    <3>4. CASE DelRow(p)
      BY <1>2, <2>3, <3>4 DEF DelRow, ToolGuard
    <3>5. CASE MoveIns(p)
      <4>1. /\ to[p] \in Tables /\ Other(to[p]) \in Tables
            /\ tbl' = WithRow(HostOf[p], to[p], u, tbl[HostOf[p]][Other(to[p])][u])
            /\ tbl[HostOf[p]][Other(to[p])][u] # NoRow
        BY <2>3, <3>5 DEF MoveIns, TypeOK, Other, Tables
      <4>2. tbl[HostOf[p]][Other(to[p])][u] \in Flags
        BY <4>1, <1>h DEF TypeOK
      <4>3. tbl'[HostOf[p]][to[p]][u] # NoRow
        BY SMTT(30), <4>1, <4>2, <1>h, RowFacts
      <4>4. QED
        BY <4>1, <4>3 DEF HasRow
    <3>6. CASE MoveDel(p)
      <4>1. /\ to[p] \in Tables /\ Other(to[p]) \in Tables /\ to[p] # Other(to[p])
            /\ tbl' = WithRow(HostOf[p], Other(to[p]), u, NoRow)
            /\ tbl[HostOf[p]][to[p]][u] # NoRow
        BY <2>3, <3>6 DEF MoveDel, TypeOK, Other, Tables, ToolGuard
      <4>2. tbl'[HostOf[p]][to[p]][u] # NoRow
        BY <4>1, <1>h, <1>f, RowFacts
      <4>3. QED
        BY <4>1, <4>2 DEF HasRow
    <3>7. CASE SyncFlag(p)
      <4>1. pc[p] = "syncclr" /\ tbl' = sql_updateflag(HostOf[p], u, SYNCED)
        BY <1>2, <2>3, <3>7 DEF SyncFlag, ToolGuard
      <4>2. SYNCED # NoRow
        BY DEF SYNCED, NoRow
      <4>3. \A t \in Tables : tbl[HostOf[p]][t][u] # NoRow => tbl'[HostOf[p]][t][u] # NoRow
        BY <4>1, <4>2, <1>h, <1>f, KeepFacts
      <4>4. QED
        BY <2>1, <4>3 DEF HasRow
    <3>8. QED
      BY <3>1, <3>2, <3>3, <3>4, <3>5, <3>6, <3>7
  <2>4. QED
    BY <2>2, <2>3
<1>3. QED
  BY <1>1, <1>2

LEMMA LocationStep ==
    ASSUME TypeOK, LocationInv, OneToolPerHost, [Next]_vars
    PROVE  LocationInv'
<1>1. CASE UNCHANGED vars
  BY <1>1 DEF vars, LocationInv, LocationBacked, ToolGuards, ToolGuard, HasRow
<1>2. ASSUME NEW p \in Procs, Step(p)
      PROVE  LocationInv'
  <2>1. Local(p)
    BY <1>2, StepLocal
  <2>2. ToolGuard(p) /\ LocationBacked
    BY DEF LocationInv, ToolGuards
  <2>3. ToolGuards'
    <3>1. ToolGuard(p)'
      BY <1>2, <2>2, OwnGuard
    <3>2. \A q \in Procs \ {p} : ToolGuard(q)'
      BY <2>1, OtherGuards DEF LocationInv, ToolGuards
    <3>3. QED
      BY <3>1, <3>2 DEF ToolGuards
  <2>4. LocationBacked'
    <3>1. SUFFICES ASSUME NEW u \in Users, cntrl'[u] # None
                   PROVE  HasRow(cntrl[u], u)'
      BY DEF LocationBacked
    <3>2. CASE cntrl'[u] = HostOf[p]
      BY <1>2, <2>1, <2>2, <3>2, RowKept
    <3>3. CASE cntrl'[u] # HostOf[p]
      <4>1. cntrl'[u] = cntrl[u] /\ cntrl[u] \in Hosts \ {HostOf[p]}
        BY <2>1, <3>1, <3>3 DEF Local, TypeOK
      <4>2. HasRow(cntrl[u], u) /\ tbl'[cntrl[u]] = tbl[cntrl[u]]
        BY <2>1, <2>2, <3>1, <4>1 DEF Local, LocationBacked
      <4>3. QED
        BY <4>1, <4>2 DEF HasRow
    <3>4. QED
      BY <3>2, <3>3
  <2>5. QED
    BY <2>3, <2>4 DEF LocationInv
<1>3. QED
  BY <1>1, <1>2 DEF Next, Step

-----------------------------------------------------------------------------
(* Type correctness, for any number of tools per host.                     *)
THEOREM TypeCorrect == Spec => []TypeOK
<1>1. Init => TypeOK
  BY ClusterAssumption DEF Init, TypeOK, Flags, Tables, PCs
<1>2. TypeOK /\ [Next]_vars => TypeOK'
  BY TypeStep
<1>3. QED
  BY <1>1, <1>2, PTL DEF Spec

LEMMA LocationInit ==
    ASSUME Init PROVE LocationInv
<1>1. LocationBacked
  BY DEF Init, LocationBacked
<1>2. ToolGuards
  BY DEF Init, ToolGuards, ToolGuard, SyncPCs
<1>3. QED
  BY <1>1, <1>2 DEF LocationInv

(* As long as one tool at a time works on a mailstore, hostcntrl never     *)
(* sends mail to a host that has no row for the user, however often tools  *)
(* are killed and the control host fails.                                  *)
THEOREM LocationSafe ==
    ASSUME OneToolPerHost
    PROVE  Spec => []LocationBacked
<1>1. Init => LocationInv
  BY LocationInit
<1>2. TypeOK /\ LocationInv /\ [Next]_vars => LocationInv'
  BY LocationStep
<1>3. LocationInv => LocationBacked
  BY DEF LocationInv
<1>4. QED
  BY <1>1, <1>2, <1>3, TypeCorrect, PTL DEF Spec

-----------------------------------------------------------------------------
(* What the tool of a host and the host's rows have to do with each other  *)
(* while nothing has failed and hostcntrl has no "*" row.  A synchronized  *)
(* row belongs to a located user; only a user being deleted has a DEL_FLAG *)
(* row; a synchronized inactive row stands beside an active row only while *)
(* sql_active moves the user.                                              *)
RowsAgree(p, v) ==
    LET h == HostOf[p] IN
    /\ \A t \in Tables : tbl[h][t][v] = SYNCED => cntrl[v] = h
    /\ \A t \in Tables : tbl[h][t][v] = DEL_FLAG =>
           arg[p] = v /\ pc[p] \in {"delcntrl", "delrow"}
    /\ tbl[h]["inactive"][v] = SYNCED /\ tbl[h]["active"][v] # NoRow =>
           arg[p] = v /\ pc[p] = "mvdel"

(* Where the tool is: a delete has flagged one row and left no other that  *)
(* is synchronized, a tool that deletes or confirms a user is on the host  *)
(* hostcntrl locates it on, a user being added has no synchronized row,    *)
(* and hostsync finds no row to be deleted.                                *)
ToolAgrees(p) ==
    LET h == HostOf[p] IN
    /\ pc[p] \in {"delcntrl", "delrow"} =>
           \/ /\ tbl[h]["active"][arg[p]] = DEL_FLAG
              /\ tbl[h]["inactive"][arg[p]] \in {NoRow, ADD_FLAG}
           \/ /\ tbl[h]["active"][arg[p]] = NoRow
              /\ tbl[h]["inactive"][arg[p]] = DEL_FLAG
    /\ pc[p] \notin {"syncdel", "syncdelcntrl", "syncdelrow"}
    /\ \A e \in todo[p] : e.flag = ADD_FLAG
    /\ pc[p] \in {"delflag", "delcntrl", "clradd", "syncclr"} => cntrl[arg[p]] = h
    /\ pc[p] \in AddPCs \cup {"syncclr", "syncins"} =>
           \A t \in Tables : tbl[h][t][arg[p]] \in {NoRow, ADD_FLAG}

Agrees(p) == ToolAgrees(p) /\ \A v \in Users : RowsAgree(p, v)

(* A host no tool works on.                                                *)
Unattended(h) ==
    (\A p \in Procs : HostOf[p] # h) =>
        home[h] = {} /\ \A t \in Tables, u \in Users : tbl[h][t][u] = NoRow

(* The flags are four different numbers.                                   *)
LEMMA FlagsDiffer ==
    /\ NoRow # SYNCED /\ NoRow # ADD_FLAG /\ NoRow # DEL_FLAG
    /\ SYNCED # ADD_FLAG /\ SYNCED # DEL_FLAG /\ ADD_FLAG # DEL_FLAG
    /\ Flags = {NoRow, SYNCED, ADD_FLAG, DEL_FLAG}
BY DEF NoRow, SYNCED, ADD_FLAG, DEL_FLAG, Flags

(* Who takes a location out.                                               *)
LEMMA WhoUnregisters ==
    ASSUME TypeOK, NEW p \in Procs, Step(p), NEW u \in Users,
           cntrl[u] # None, cntrl'[u] = None
    PROVE  arg[p] = u /\ pc[p] \in {"delcntrl", "syncdelcntrl"} /\ pc'[p] # pc[p]
<1>1. cntrl' # cntrl /\ HostOf[p] # None
  BY ClusterAssumption
<1>2. arg[p] = u
  BY StepLocal DEF Local
<1>3. \/ AddCntrl(p) \/ DelCntrl(p) \/ SyncIns(p) \/ SyncDelCntrl(p)
      \/ AddCntrlFails(p) \/ DelCntrlFails(p) \/ SyncFails(p)
  BY <1>1 DEF Step, Begin, Run, Fault, AddStep, DelStep, MoveStep, SyncStep,
     AddStart, DelStart, InactStart, LoginStart, SyncStart,
     AddMkdir, AddRow, AddClear, DelFlag, DelRow, DelHome, LoginHome, MoveIns, MoveDel,
     SyncPick, SyncEnd, SyncPresent, SyncFlag, Crash
<1>4. CASE AddCntrl(p)
  BY <1>1, <1>2, <1>4 DEF AddCntrl, TypeOK
<1>5. CASE SyncIns(p)
  BY <1>1, <1>2, <1>5 DEF SyncIns, TypeOK
<1>6. CASE AddCntrlFails(p)
  BY <1>1, <1>2, <1>6 DEF AddCntrlFails, TypeOK
<1>7. CASE DelCntrl(p)
  BY <1>2, <1>7 DEF DelCntrl, Goto, TypeOK
<1>8. CASE SyncDelCntrl(p)
  BY <1>2, <1>8 DEF SyncDelCntrl, Goto, TypeOK
<1>9. CASE DelCntrlFails(p)
  BY <1>2, <1>9 DEF DelCntrlFails, Exit, TypeOK
<1>10. CASE SyncFails(p)
  <2>1. pc[p] = "syncdelcntrl"
    BY <1>1, <1>2, <1>10 DEF SyncFails, TypeOK
  <2>2. pc'[p] = "sync"
    BY <1>10 DEF SyncFails, SyncNext, TypeOK
  <2>3. QED
    BY <1>2, <2>1, <2>2
<1>11. QED
  BY <1>3, <1>4, <1>5, <1>6, <1>7, <1>8, <1>9, <1>10

(* A step of p leaves alone what it does not work on: the rows of other    *)
(* users of its host ...                                                   *)
LEMMA OtherRows ==
    ASSUME TypeOK, NEW p \in Procs, Agrees(p), Local(p), NEW v \in Users, v # arg[p]
    PROVE  RowsAgree(p, v)'
<1>1. HostOf[p] \in Hosts
  BY ClusterAssumption
<1>2. \A t \in Tables : tbl'[HostOf[p]][t][v] = tbl[HostOf[p]][t][v]
  BY DEF Local
<1>3. cntrl'[v] = cntrl[v] /\ RowsAgree(p, v)
  BY DEF Local, Agrees
<1>4. QED
  BY <1>2, <1>3 DEF RowsAgree, Tables

(* ... and the tools of other hosts, when the location it takes out is its *)
(* own.                                                                    *)
LEMMA OtherTools ==
    ASSUME TypeOK, OneToolPerHost, NEW p \in Procs, Agrees(p), Step(p),
           NEW q \in Procs \ {p}, Agrees(q)
    PROVE  Agrees(q)'
<1>1. HostOf[q] \in Hosts \ {HostOf[p]} /\ HostOf[p] \in Hosts /\ None \notin Hosts
  BY ClusterAssumption DEF OneToolPerHost
<1>2. Local(p)
  BY StepLocal
<1>3. /\ tbl'[HostOf[q]] = tbl[HostOf[q]] /\ pc'[q] = pc[q] /\ arg'[q] = arg[q]
      /\ to'[q] = to[q] /\ todo'[q] = todo[q]
  BY <1>1, <1>2 DEF Local
<1>4. ASSUME NEW v \in Users, cntrl[v] = HostOf[q]
      PROVE  cntrl'[v] = HostOf[q]
  <2>1. CASE v # arg[p] \/ cntrl' = cntrl
    BY <1>2, <1>4, <2>1 DEF Local
  <2>2. CASE v = arg[p] /\ cntrl' = [cntrl EXCEPT ![arg[p]] = None]
    <3>1. cntrl'[v] = None /\ cntrl[v] # None
      BY <1>1, <1>4, <2>2 DEF TypeOK
    <3>2. pc[p] = "delcntrl"
      BY <3>1, WhoUnregisters DEF Agrees, ToolAgrees
    <3>3. QED
      BY <1>1, <1>4, <2>2, <3>2 DEF Agrees, ToolAgrees
  <2>3. QED
    BY <1>1, <1>2, <1>4, <2>1, <2>2 DEF Local
<1>5. \A v \in Users : RowsAgree(q, v)'
  BY <1>3, <1>4 DEF Agrees, RowsAgree
<1>6. pc[q] \in {"delflag", "delcntrl", "clradd", "syncclr"} => arg[q] \in Users
  BY DEF TypeOK
<1>7. ToolAgrees(q)'
  BY <1>3, <1>4, <1>6 DEF Agrees, ToolAgrees
<1>8. QED
  BY <1>5, <1>7 DEF Agrees

(* Three ways for p to keep the agreement of its own user's rows: nothing  *)
(* of them changes while the tool is not in the middle of a change ...     *)
LEMMA QuietRows ==
    ASSUME NEW p \in Procs, NEW v \in Users, RowsAgree(p, v),
           \A t \in Tables : tbl'[HostOf[p]][t][v] = tbl[HostOf[p]][t][v],
           cntrl'[v] = cntrl[v],
           pc[p] \notin {"delcntrl", "delrow", "mvdel"} \/ arg[p] # v
    PROVE  RowsAgree(p, v)'
BY DEF RowsAgree, Tables

(* ... or they are no more than added ...                                  *)
LEMMA PlainRows ==
    ASSUME NEW p \in Procs, NEW v \in Users,
           \A t \in Tables : tbl'[HostOf[p]][t][v] \in {NoRow, ADD_FLAG}
    PROVE  RowsAgree(p, v)'
BY FlagsDiffer DEF RowsAgree, Tables

(* ... or the location is this host and at most one of them is there.      *)
LEMMA LocatedRows ==
    ASSUME NEW p \in Procs, NEW v \in Users, cntrl'[v] = HostOf[p],
           \A t \in Tables : tbl'[HostOf[p]][t][v] # DEL_FLAG,
           tbl'[HostOf[p]]["inactive"][v] = SYNCED => tbl'[HostOf[p]]["active"][v] = NoRow
    PROVE  RowsAgree(p, v)'
BY DEF RowsAgree

(* A tool that has ended, or goes on where nothing is promised.            *)
LEMMA FreeTool ==
    ASSUME NEW p \in Procs, todo'[p] \subseteq todo[p], ToolAgrees(p),
           pc'[p] \in {"idle", "sync", "login", "relogin", "mvins", "mvdel", "inacthome",
                       "delhome", "syncadd"}
    PROVE  ToolAgrees(p)'
BY DEF ToolAgrees, AddPCs

LEMMA ExitPc ==
    ASSUME TypeOK, NEW p \in Procs, Exit(p)
    PROVE  pc'[p] = "idle" /\ todo'[p] = {}
BY DEF TypeOK, Exit

LEMMA SyncNextPc ==
    ASSUME TypeOK, NEW p \in Procs, SyncNext(p)
    PROVE  pc'[p] = "sync" /\ todo'[p] \subseteq todo[p]
BY DEF TypeOK, SyncNext

LEMMA GotoPc ==
    ASSUME TypeOK, NEW p \in Procs, NEW l, Goto(p, l)
    PROVE  pc'[p] = l /\ arg' = arg /\ to' = to /\ todo' = todo
BY DEF TypeOK, Goto

(* To confirm a user that has been added.                                  *)
LEMMA ConfirmRows ==
    ASSUME TypeOK, NEW p \in Procs, NEW u \in Users, u = arg[p], Agrees(p), UNCHANGED cntrl,
           pc[p] \in {"clradd", "syncclr"},
           tbl' = sql_updateflag(HostOf[p], u, SYNCED)
    PROVE  RowsAgree(p, u)'
<1> DEFINE h == HostOf[p]
<1>1. h \in Hosts /\ SYNCED \in Flags
  BY ClusterAssumption, FlagsDiffer
<1>2. \A t \in Tables :
         tbl'[h][t][u] = IF t \in Touched(h, u, SYNCED) THEN SYNCED ELSE tbl[h][t][u]
  BY <1>1, FlagFacts
<1>3. cntrl'[u] = h /\ \A t \in Tables : tbl[h][t][u] \in {NoRow, ADD_FLAG}
  BY DEF Agrees, ToolAgrees, AddPCs
<1>4. "inactive" \in Touched(h, u, SYNCED) => tbl[h]["active"][u] = NoRow
  BY <1>3, FlagsDiffer DEF Touched, Affects, Tables
<1>5. tbl[h]["active"][u] = NoRow => "active" \notin Touched(h, u, SYNCED)
  BY DEF Touched, Affects
<1> HIDE DEF h
<1>6. \A t \in Tables : tbl'[h][t][u] # DEL_FLAG
  BY <1>2, <1>3, FlagsDiffer
<1>7. tbl'[h]["inactive"][u] = SYNCED => tbl'[h]["active"][u] = NoRow
  BY <1>2, <1>3, <1>4, <1>5, FlagsDiffer DEF Tables
<1>8. QED
  BY <1>3, <1>6, <1>7, LocatedRows DEF h

(* A tool is started.                                                      *)
LEMMA BeginAgrees ==
    ASSUME TypeOK, NEW p \in Procs, Agrees(p), ToolGuard(p), DefaultHost = None, Begin(p)
    PROVE  Agrees(p)'
<1>h. HostOf[p] \in Hosts /\ None \notin Hosts
  BY ClusterAssumption
<1>1. Local(p) /\ pc[p] = "idle" /\ arg[p] = None /\ todo[p] = {} /\ UNCHANGED <<tbl, cntrl>>
  <2>1. pc[p] = "idle" /\ UNCHANGED <<tbl, cntrl>>
    BY DEF Begin, AddStart, DelStart, InactStart, LoginStart, SyncStart, Start
  <2>2. QED
    BY <2>1, StepLocal DEF Step, TypeOK, ToolGuard, SyncPCs
<1>2. \A v \in Users : RowsAgree(p, v)'
  <2>1. SUFFICES ASSUME NEW v \in Users PROVE RowsAgree(p, v)'
    OBVIOUS
  <2>2. v # arg[p]
    BY <1>1, ClusterAssumption
  <2>3. QED
    BY <1>1, <2>2, OtherRows
<1>3. \A v \in Users, t \in Tables :
         /\ tbl[HostOf[p]][t][v] \in {NoRow, SYNCED, ADD_FLAG}
         /\ cntrl[v] # HostOf[p] => tbl[HostOf[p]][t][v] \in {NoRow, ADD_FLAG}
  <2>1. SUFFICES ASSUME NEW v \in Users, NEW t \in Tables
                 PROVE  /\ tbl[HostOf[p]][t][v] \in {NoRow, SYNCED, ADD_FLAG}
                        /\ cntrl[v] # HostOf[p] => tbl[HostOf[p]][t][v] \in {NoRow, ADD_FLAG}
    OBVIOUS
  <2>2. tbl[HostOf[p]][t][v] \in Flags /\ RowsAgree(p, v)
    BY <1>h DEF TypeOK, Agrees
  <2>3. QED
    BY <1>1, <2>2, FlagsDiffer DEF RowsAgree
<1>4. ASSUME NEW u \in Users, NEW t \in Tables, NEW m \in BOOLEAN, AddStart(p, u, t, m)
      PROVE  ToolAgrees(p)'
  <2>1. pc'[p] = "mkdir" /\ arg'[p] = u /\ todo'[p] = {} /\ cntrl[u] = None
    BY <1>1, <1>4 DEF AddStart, Start, TypeOK
  <2>2. \A s \in Tables : tbl'[HostOf[p]][s][u] \in {NoRow, ADD_FLAG}
    BY <1>1, <1>3, <1>h, <2>1
  <2>3. QED
    BY <2>1, <2>2 DEF ToolAgrees
<1>5. ASSUME NEW u \in Users, DelStart(p, u)
      PROVE  ToolAgrees(p)'
  <2>1. pc'[p] = "delflag" /\ arg'[p] = u /\ todo'[p] = {}
    BY <1>1, <1>5 DEF DelStart, Start, TypeOK
  <2>2. cntrl'[u] = HostOf[p]
    BY <1>1, <1>5, <1>h DEF DelStart, IsLocal, findhost
  <2>3. QED
    BY <2>1, <2>2 DEF ToolAgrees, AddPCs
<1>6. ASSUME NEW u \in Users, InactStart(p, u) \/ LoginStart(p, u)
      PROVE  ToolAgrees(p)'
  <2>1. pc'[p] \in {"mvins", "login", "relogin"} /\ todo'[p] = {}
    BY <1>1, <1>6 DEF InactStart, LoginStart, Start, TypeOK
  <2>2. QED
    BY <2>1, FreeTool DEF Agrees
<1>7. CASE SyncStart(p)
  <2>1. pc'[p] = "sync" /\ todo'[p] = sql_getflags(HostOf[p])
    BY <1>7 DEF SyncStart, TypeOK
  <2>2. \A e \in sql_getflags(HostOf[p]) :
           /\ e.table \in Tables /\ e.user \in Users /\ e.flag \in {ADD_FLAG, DEL_FLAG}
           /\ tbl[HostOf[p]][e.table][e.user] = e.flag
    BY DEF sql_getflags, Entries
  <2>3. \A e \in todo'[p] : e.flag = ADD_FLAG
    BY <1>3, <2>1, <2>2, FlagsDiffer
  <2>4. QED
    BY <1>2, <2>1, <2>3 DEF Agrees, ToolAgrees, AddPCs
<1>8. QED
  BY <1>2, <1>4, <1>5, <1>6, <1>7 DEF Begin, Agrees

(* Adding a user.                                                          *)
LEMMA AddAgrees ==
    ASSUME TypeOK, NEW p \in Procs, Agrees(p), AddStep(p), Local(p),
           NEW u \in Users, u = arg[p]
    PROVE  Agrees(p)'
<1>h. HostOf[p] \in Hosts
  BY ClusterAssumption
<1>f. {NoRow, SYNCED, ADD_FLAG, DEL_FLAG} \subseteq Flags
  BY DEF Flags
<1>1. SUFFICES RowsAgree(p, u)' /\ ToolAgrees(p)'
  BY OtherRows DEF Agrees
<1>2. \A t \in Tables : tbl[HostOf[p]][t][u] \in {NoRow, ADD_FLAG}
  BY DEF Agrees, ToolAgrees, AddStep, AddMkdir, AddRow, AddCntrl, AddClear, AddPCs
<1>3. ToolAgrees(p) /\ pc[p] \in AddPCs
  BY DEF Agrees, AddStep, AddMkdir, AddRow, AddCntrl, AddClear, AddPCs
<1>4. CASE AddMkdir(p)
  <2>1. pc'[p] = "addrow" /\ arg' = arg /\ todo' = todo /\ UNCHANGED <<tbl, cntrl>>
    BY <1>4, GotoPc DEF AddMkdir
  <2>2. RowsAgree(p, u)'
    BY <1>2, <2>1, PlainRows
  <2>3. QED
    BY <1>2, <1>3, <2>1, <2>2 DEF ToolAgrees
<1>5. CASE AddRow(p)
  <2>1. CASE Exit(p) /\ UNCHANGED <<tbl, cntrl>>
    BY <1>2, <1>3, <2>1, ExitPc, FreeTool, PlainRows
  <2>2. CASE /\ tbl' = WithRow(HostOf[p], to[p], u, ADD_FLAG)
             /\ Goto(p, "addcntrl") /\ UNCHANGED cntrl
    <3>1. pc'[p] = "addcntrl" /\ arg' = arg /\ todo' = todo /\ to[p] \in Tables
      BY <2>2, GotoPc DEF TypeOK
    <3>2. \A t \in Tables : tbl'[HostOf[p]][t][u] =
             IF t = to[p] THEN ADD_FLAG ELSE tbl[HostOf[p]][t][u]
      BY <2>2, <3>1, <1>h, <1>f, RowFacts
    <3>3. \A t \in Tables : tbl'[HostOf[p]][t][u] \in {NoRow, ADD_FLAG}
      BY <1>2, <3>2
    <3>4. QED
      BY <1>3, <3>1, <3>3, PlainRows DEF ToolAgrees
  <2>3. QED
    BY <1>5, <2>1, <2>2 DEF AddRow
<1>6. CASE AddCntrl(p)
  <2>1. UNCHANGED tbl
    BY <1>6 DEF AddCntrl
  <2>2. RowsAgree(p, u)'
    BY <1>2, <2>1, PlainRows
  <2>3. CASE Exit(p)
    BY <1>3, <2>2, <2>3, ExitPc, FreeTool
  <2>4. CASE Goto(p, "clradd") /\ cntrl' = [cntrl EXCEPT ![arg[p]] = HostOf[p]]
    <3>1. pc'[p] = "clradd" /\ arg' = arg /\ todo' = todo /\ cntrl'[arg[p]] = HostOf[p]
      BY <2>4, GotoPc DEF TypeOK
    <3>2. QED
      BY <1>2, <1>3, <2>1, <2>2, <3>1 DEF ToolAgrees
  <2>5. QED
    BY <1>6, <2>3, <2>4 DEF AddCntrl
<1>7. CASE AddClear(p)
  <2>1. /\ tbl' = sql_updateflag(HostOf[p], u, SYNCED)
        /\ pc[p] = "clradd" /\ Exit(p) /\ UNCHANGED cntrl
    BY <1>7 DEF AddClear
  <2>2. RowsAgree(p, u)'
    BY <2>1, ConfirmRows
  <2>3. QED
    BY <1>3, <2>1, <2>2, ExitPc, FreeTool
<1>8. QED
  BY <1>4, <1>5, <1>6, <1>7 DEF AddStep

(* Deleting a user.                                                        *)
LEMMA DelAgrees ==
    ASSUME TypeOK, NEW p \in Procs, Agrees(p), DelStep(p), Local(p),
           NEW u \in Users, u = arg[p]
    PROVE  Agrees(p)'
<1> DEFINE h == HostOf[p]
<1>h. h \in Hosts
  BY ClusterAssumption
<1>f. {NoRow, SYNCED, ADD_FLAG, DEL_FLAG} \subseteq Flags
  BY DEF Flags
<1>1. SUFFICES RowsAgree(p, u)' /\ ToolAgrees(p)'
  BY OtherRows DEF Agrees
<1>2. ToolAgrees(p) /\ RowsAgree(p, u)
  BY DEF Agrees
<1>3. \A t \in Tables : tbl[h][t][u] \in Flags
  BY <1>h DEF TypeOK
<1>4. CASE DelFlag(p)
  <2>1. pc[p] = "delflag" /\ cntrl' = cntrl /\ cntrl[u] = h
    BY <1>2, <1>4 DEF DelFlag, ToolAgrees
  <2>2. CASE UNCHANGED tbl /\ Exit(p)
    BY <1>2, <2>1, <2>2, ExitPc, FreeTool, QuietRows
  <2>3. CASE /\ Touched(h, u, DEL_FLAG) # {}
             /\ tbl' = sql_updateflag(h, u, DEL_FLAG) /\ Goto(p, "delcntrl")
    <3>1. pc'[p] = "delcntrl" /\ arg' = arg /\ todo' = todo
      BY <2>3, GotoPc
    <3>2. /\ tbl[h]["active"][u] \in {NoRow, SYNCED, ADD_FLAG}
          /\ tbl[h]["inactive"][u] \in {NoRow, SYNCED, ADD_FLAG}
          /\ tbl[h]["active"][u] # NoRow => tbl[h]["inactive"][u] # SYNCED
      BY <1>2, <1>3, <2>1, FlagsDiffer DEF RowsAgree, Tables
    <3>3. \A t \in Tables :
             tbl'[h][t][u] = IF t \in Touched(h, u, DEL_FLAG) THEN DEL_FLAG ELSE tbl[h][t][u]
      BY <2>3, <1>h, <1>f, FlagFacts
    <3>4. \/ /\ tbl[h]["active"][u] # NoRow
             /\ "active" \in Touched(h, u, DEL_FLAG) /\ "inactive" \notin Touched(h, u, DEL_FLAG)
          \/ /\ tbl[h]["active"][u] = NoRow
             /\ "active" \notin Touched(h, u, DEL_FLAG) /\ "inactive" \in Touched(h, u, DEL_FLAG)
      BY <2>3, <3>2, FlagsDiffer DEF Touched, Affects, Tables
    <3> HIDE DEF h
    <3>5. \/ tbl'[h]["active"][u] = DEL_FLAG /\ tbl'[h]["inactive"][u] \in {NoRow, ADD_FLAG}
          \/ tbl'[h]["active"][u] = NoRow /\ tbl'[h]["inactive"][u] = DEL_FLAG
      BY <3>2, <3>3, <3>4 DEF Tables
    <3>6. RowsAgree(p, u)'
      BY <3>1, <3>5, FlagsDiffer DEF RowsAgree, Tables, h
    <3>7. ToolAgrees(p)'
      BY <1>2, <2>1, <3>1, <3>5 DEF ToolAgrees, AddPCs, h
    <3>8. QED
      BY <3>6, <3>7
  <2>4. QED
    BY <1>4, <2>2, <2>3 DEF DelFlag
<1>5. CASE DelCntrl(p)
  <2>1. pc[p] = "delcntrl" /\ pc'[p] = "delrow" /\ arg' = arg /\ todo' = todo /\ tbl' = tbl
    BY <1>5, GotoPc DEF DelCntrl
  <2>2. \/ tbl[h]["active"][u] = DEL_FLAG /\ tbl[h]["inactive"][u] \in {NoRow, ADD_FLAG}
        \/ tbl[h]["active"][u] = NoRow /\ tbl[h]["inactive"][u] = DEL_FLAG
    BY <1>2, <2>1 DEF ToolAgrees
  <2>3. RowsAgree(p, u)'
    BY <2>1, <2>2, FlagsDiffer DEF RowsAgree, Tables
  <2>4. ToolAgrees(p)'
    BY <1>2, <2>1, <2>2 DEF ToolAgrees, AddPCs
  <2>5. QED
    BY <2>3, <2>4
<1>6. CASE DelRow(p)
  <2>1. pc[p] = "delrow" /\ tbl' = sql_updateflag(h, u, NoRow)
    BY <1>6 DEF DelRow
  <2>2. \A t \in Tables :
           tbl'[h][t][u] = IF t \in Touched(h, u, NoRow) THEN NoRow ELSE tbl[h][t][u]
    BY <2>1, <1>h, <1>f, FlagFacts
  <2>3. \/ tbl[h]["active"][u] = DEL_FLAG /\ tbl[h]["inactive"][u] \in {NoRow, ADD_FLAG}
        \/ tbl[h]["active"][u] = NoRow /\ tbl[h]["inactive"][u] = DEL_FLAG
    BY <1>2, <2>1 DEF ToolAgrees
  <2>4. /\ tbl[h]["active"][u] = DEL_FLAG => "active" \in Touched(h, u, NoRow)
        /\ tbl[h]["active"][u] = NoRow /\ tbl[h]["inactive"][u] = DEL_FLAG =>
              "inactive" \in Touched(h, u, NoRow)
    BY FlagsDiffer DEF Touched, Affects, Tables
  <2>5. pc'[p] \in {"idle", "delhome"} /\ todo'[p] \subseteq todo[p]
    BY <1>6, ExitPc, GotoPc DEF DelRow
  <2> HIDE DEF h
  <2>6. \A t \in Tables : tbl'[h][t][u] \in {NoRow, ADD_FLAG}
    BY <2>2, <2>3, <2>4 DEF Tables
  <2>7. QED
    BY <1>2, <2>5, <2>6, FreeTool, PlainRows DEF h
<1>7. CASE DelHome(p)
  BY <1>2, <1>7, ExitPc, FreeTool, QuietRows DEF DelHome
<1>8. QED
  BY <1>4, <1>5, <1>6, <1>7 DEF DelStep

(* Logging in, and moving a user between the tables.                       *)
LEMMA MoveAgrees ==
    ASSUME TypeOK, NEW p \in Procs, Agrees(p), ToolGuard(p), MoveStep(p), Local(p),
           NEW u \in Users, u = arg[p]
    PROVE  Agrees(p)'
<1> DEFINE h == HostOf[p]
<1>h. h \in Hosts
  BY ClusterAssumption
<1>f. {NoRow, SYNCED, ADD_FLAG, DEL_FLAG} \subseteq Flags
  BY DEF Flags
<1>1. SUFFICES RowsAgree(p, u)' /\ ToolAgrees(p)'
  BY OtherRows DEF Agrees
<1>2. ToolAgrees(p) /\ RowsAgree(p, u) /\ cntrl' = cntrl
  BY DEF Agrees, MoveStep, LoginHome, MoveIns, MoveDel
<1>3. \A t \in Tables : tbl[h][t][u] \in Flags
  BY <1>h DEF TypeOK
<1>4. to[p] \in Tables /\ Other(to[p]) \in Tables /\ to[p] # Other(to[p])
      /\ Tables = {to[p], Other(to[p])}
  BY DEF TypeOK, Tables, Other
<1>5. CASE LoginHome(p)
  <2>1. pc'[p] \in {"idle", "mvins"} /\ todo'[p] \subseteq todo[p] /\ tbl' = tbl
        /\ pc[p] \in {"login", "relogin"}
    BY <1>5, ExitPc, GotoPc DEF LoginHome
  <2>2. QED
    BY <1>2, <2>1, FreeTool, QuietRows
<1>6. CASE MoveIns(p)
  <2>1. CASE UNCHANGED tbl /\ Exit(p)
    BY <1>2, <1>6, <2>1, ExitPc, FreeTool, QuietRows DEF MoveIns
  <2>2. CASE /\ tbl' = WithRow(h, to[p], u, tbl[h][Other(to[p])][u]) /\ Goto(p, "mvdel")
    <3>1. pc[p] = "mvins" /\ pc'[p] = "mvdel" /\ arg' = arg /\ todo' = todo
      BY <1>6, <2>2, GotoPc DEF MoveIns
    <3>2. \A t \in Tables :
             tbl'[h][t][u] = IF t = to[p] THEN tbl[h][Other(to[p])][u] ELSE tbl[h][t][u]
      BY SMTT(90), <1>3, <1>4, <2>2, <1>h, RowFacts
    <3>3. \A t \in Tables : tbl[h][t][u] # DEL_FLAG /\ (tbl[h][t][u] = SYNCED => cntrl[u] = h)
      BY <1>2, <3>1 DEF RowsAgree
    <3> HIDE DEF h
    <3>4. \A t \in Tables : tbl'[h][t][u] # DEL_FLAG /\ (tbl'[h][t][u] = SYNCED => cntrl'[u] = h)
      BY <1>2, <1>4, <3>2, <3>3
    <3>5. RowsAgree(p, u)'
      BY <3>1, <3>4 DEF RowsAgree, h
    <3>6. QED
      BY <1>2, <3>1, <3>5, FreeTool
  <2>3. QED
    BY <1>6, <2>1, <2>2 DEF MoveIns
<1>7. CASE MoveDel(p)
  <2>1. pc[p] = "mvdel" /\ tbl' = WithRow(h, Other(to[p]), u, NoRow)
    BY <1>7 DEF MoveDel
  <2>2. pc'[p] \in {"idle", "inacthome"} /\ todo'[p] \subseteq todo[p]
    BY <1>7, ExitPc, GotoPc DEF MoveDel
  <2>3. \A t \in Tables :
           tbl'[h][t][u] = IF t = Other(to[p]) THEN NoRow ELSE tbl[h][t][u]
    BY <1>4, <2>1, <1>h, <1>f, RowFacts
  <2>4. \A t \in Tables : tbl[h][t][u] # DEL_FLAG /\ (tbl[h][t][u] = SYNCED => cntrl[u] = h)
    BY <1>2, <2>1 DEF RowsAgree
  <2>5. Other(to[p]) \in {"active", "inactive"}
    BY <1>4 DEF Tables
  <2> HIDE DEF h
  <2>6. \A t \in Tables : tbl'[h][t][u] # DEL_FLAG /\ (tbl'[h][t][u] = SYNCED => cntrl'[u] = h)
    BY <1>2, <2>3, <2>4, FlagsDiffer
  <2>7. tbl'[h]["inactive"][u] = NoRow \/ tbl'[h]["active"][u] = NoRow
    BY <1>4, <2>3, <2>5
  <2>8. RowsAgree(p, u)'
    BY <2>6, <2>7, FlagsDiffer DEF RowsAgree, h
  <2>9. QED
    BY <1>2, <2>2, <2>8, FreeTool
<1>8. QED
  BY <1>5, <1>6, <1>7 DEF MoveStep

(* hostsync.                                                               *)
LEMMA SyncAgrees ==
    ASSUME TypeOK, NEW p \in Procs, Agrees(p), ToolGuard(p), SyncStep(p), Local(p)
    PROVE  Agrees(p)'
<1> DEFINE h == HostOf[p]
<1>h. h \in Hosts /\ None \notin Hosts
  BY ClusterAssumption
<1>1. ToolAgrees(p) /\ \A v \in Users : RowsAgree(p, v)
  BY DEF Agrees
<1>2. CASE SyncPick(p) \/ SyncEnd(p)
  <2>1. arg[p] = None /\ arg[p] \notin Users
    BY <1>2, ClusterAssumption DEF SyncPick, SyncEnd, TypeOK
  <2>2. \A v \in Users : RowsAgree(p, v)'
    <3>1. SUFFICES ASSUME NEW v \in Users PROVE RowsAgree(p, v)'
      OBVIOUS
    <3>2. v # arg[p]
      BY <2>1
    <3>3. QED
      BY <3>2, OtherRows
  <2>3. CASE SyncEnd(p)
    BY <1>1, <2>2, <2>3, ExitPc, FreeTool DEF SyncEnd, Agrees
  <2>4. CASE SyncPick(p)
    <3>1. pc'[p] = "syncadd" /\ todo' = todo
      BY <1>1, <2>4 DEF SyncPick, ToolAgrees, TypeOK
    <3>2. QED
      BY <1>1, <2>2, <3>1, FreeTool DEF Agrees
  <2>5. QED
    BY <1>2, <2>3, <2>4
<1>3. CASE SyncPresent(p) \/ SyncIns(p) \/ SyncDelCntrl(p) \/ SyncFlag(p)
  <2>1. PICK u \in Users : u = arg[p]
    BY <1>3 DEF SyncPresent, SyncIns, SyncDelCntrl, SyncFlag, TypeOK
  <2>2. SUFFICES RowsAgree(p, u)' /\ ToolAgrees(p)'
    BY <2>1, OtherRows DEF Agrees
  <2>3. pc[p] \in {"syncadd", "syncins", "syncclr"}
    BY <1>1, <1>3 DEF SyncPresent, SyncIns, SyncDelCntrl, SyncFlag, ToolAgrees
  <2>4. CASE SyncPresent(p)
    <3>1. UNCHANGED <<tbl, cntrl>>
      BY <2>4 DEF SyncPresent
    <3>2. RowsAgree(p, u)'
      BY <1>1, <2>3, <3>1, QuietRows
    <3>3. CASE SyncNext(p)
      BY <1>1, <3>2, <3>3, SyncNextPc, FreeTool
    <3>4. CASE cntrl[u] = None /\ Goto(p, "syncins")
      <4>1. pc'[p] = "syncins" /\ arg' = arg /\ todo' = todo
        BY <3>4, GotoPc
      <4>2. \A t \in Tables : tbl[h][t][u] \in Flags
        BY <1>h DEF TypeOK
      <4>3. \A t \in Tables : tbl[h][t][u] \in {NoRow, ADD_FLAG}
        <5>1. RowsAgree(p, u)
          BY <1>1
        <5>2. \A t \in Tables : tbl[h][t][u] # SYNCED /\ tbl[h][t][u] # DEL_FLAG
          BY <1>h, <2>3, <3>4, <5>1 DEF RowsAgree
        <5>3. QED
          BY <4>2, <5>2, FlagsDiffer
      <4>4. QED
        BY <1>1, <2>1, <3>1, <3>2, <4>1, <4>3 DEF ToolAgrees, AddPCs
    <3>5. QED
      BY <2>1, <2>3, <2>4, <3>3, <3>4 DEF SyncPresent
  <2>5. CASE SyncIns(p)
    <3>1. UNCHANGED tbl /\ pc[p] = "syncins"
      BY <2>5 DEF SyncIns
    <3>2. \A t \in Tables : tbl'[h][t][u] \in {NoRow, ADD_FLAG}
      BY <1>1, <2>1, <3>1 DEF ToolAgrees
    <3>3. RowsAgree(p, u)'
      BY <3>2, PlainRows
    <3>4. CASE SyncNext(p)
      BY <1>1, <3>3, <3>4, SyncNextPc, FreeTool
    <3>5. CASE Goto(p, "syncclr") /\ cntrl' = [cntrl EXCEPT ![arg[p]] = HostOf[p]]
      <4>1. pc'[p] = "syncclr" /\ arg' = arg /\ todo' = todo /\ cntrl'[u] = HostOf[p]
        BY <2>1, <3>5, GotoPc DEF TypeOK
      <4>2. QED
        BY <1>1, <2>1, <3>2, <3>3, <4>1 DEF ToolAgrees, AddPCs
    <3>6. QED
      BY <2>5, <3>4, <3>5 DEF SyncIns
  <2>6. CASE SyncFlag(p)
    <3>1. /\ pc[p] = "syncclr" /\ tbl' = sql_updateflag(HostOf[p], u, SYNCED)
          /\ SyncNext(p) /\ cntrl' = cntrl
      BY <2>1, <2>3, <2>6 DEF SyncFlag
    <3>2. RowsAgree(p, u)'
      BY <2>1, <3>1, ConfirmRows
    <3>3. QED
      BY <1>1, <3>1, <3>2, SyncNextPc, FreeTool
  <2>7. QED
    BY <1>3, <2>3, <2>4, <2>5, <2>6 DEF SyncDelCntrl
<1>4. QED
  BY <1>2, <1>3 DEF SyncStep

(* A step of p, as long as nothing fails.                                  *)
LEMMA OwnAgrees ==
    ASSUME TypeOK, NEW p \in Procs, Agrees(p), ToolGuard(p), DefaultHost = None,
           Begin(p) \/ Run(p)
    PROVE  Agrees(p)'
<1>1. Local(p)
  BY StepLocal DEF Step
<1>2. CASE Begin(p)
  BY <1>2, BeginAgrees
<1>3. CASE SyncStep(p)
  BY <1>1, <1>3, SyncAgrees
<1>4. CASE AddStep(p) \/ DelStep(p) \/ MoveStep(p)
  <2>1. PICK u \in Users : u = arg[p]
    BY <1>4 DEF AddStep, DelStep, MoveStep, AddMkdir, AddRow, AddCntrl, AddClear, DelFlag,
       DelCntrl, DelRow, DelHome, LoginHome, MoveIns, MoveDel, TypeOK
  <2>2. QED
    BY <1>1, <1>4, <2>1, AddAgrees, DelAgrees, MoveAgrees
<1>5. QED
  BY <1>2, <1>3, <1>4 DEF Run

-----------------------------------------------------------------------------
(* A mail directory belongs to a user that has a row, or to the one that   *)
(* the host's tool adds or deletes; a login goes on with a user that has a *)
(* row.                                                                    *)
HomesBacked(p) ==
    LET h == HostOf[p] IN
    /\ \A u \in home[h] :
           \/ HasRow(h, u)
           \/ arg[p] = u /\ pc[p] \in {"mkdir", "addrow", "delhome"}
    /\ pc[p] \in {"login", "relogin"} => HasRow(h, arg[p])

(* Only sql_deluser takes the last row of a user away.                     *)
LEMMA RowsStay ==
    ASSUME TypeOK, NEW p \in Procs, Agrees(p), ToolGuard(p), Begin(p) \/ Run(p), ~DelRow(p),
           NEW u \in Users, HasRow(HostOf[p], u)
    PROVE  HasRow(HostOf[p], u)'
<1>h. HostOf[p] \in Hosts
  BY ClusterAssumption
<1>f. {NoRow, SYNCED, ADD_FLAG, DEL_FLAG} \subseteq Flags
  BY DEF Flags
<1>1. Local(p)
  BY StepLocal DEF Step
<1>2. CASE u # arg[p] \/ tbl' = tbl
  BY <1>1, <1>2 DEF HasRow, Local
<1>3. CASE u = arg[p] /\ tbl' # tbl
  <2>1. AddRow(p) \/ AddClear(p) \/ DelFlag(p) \/ MoveIns(p) \/ MoveDel(p) \/ SyncFlag(p)
    BY <1>3 DEF Begin, Run, AddStep, DelStep, MoveStep, SyncStep,
       AddStart, DelStart, InactStart, LoginStart, SyncStart,
       AddMkdir, AddCntrl, DelCntrl, DelHome, LoginHome,
       SyncPick, SyncEnd, SyncPresent, SyncIns, SyncDelCntrl
  <2>2. CASE AddRow(p)
    <3>1. tbl' = WithRow(HostOf[p], to[p], u, ADD_FLAG) /\ to[p] \in Tables
      BY <1>3, <2>2 DEF AddRow, TypeOK
    <3>2. tbl'[HostOf[p]][to[p]][u] = ADD_FLAG
      BY <3>1, <1>h, <1>f, RowFacts
    <3>3. QED
      BY <3>1, <3>2, FlagsDiffer DEF HasRow
  <2>3. CASE AddClear(p) \/ DelFlag(p) \/ SyncFlag(p)
    <3>1. \E f \in {SYNCED, DEL_FLAG} : tbl' = sql_updateflag(HostOf[p], u, f)
      BY <1>3, <2>3 DEF AddClear, DelFlag, SyncFlag, Agrees, ToolAgrees
    <3>2. \A t \in Tables : tbl[HostOf[p]][t][u] # NoRow => tbl'[HostOf[p]][t][u] # NoRow
      BY <3>1, <1>h, <1>f, KeepFacts, FlagsDiffer
    <3>3. QED
      BY <3>2 DEF HasRow
  <2>4. CASE MoveIns(p)
    <3>1. /\ to[p] \in Tables /\ Other(to[p]) \in Tables
          /\ tbl' = WithRow(HostOf[p], to[p], u, tbl[HostOf[p]][Other(to[p])][u])
          /\ tbl[HostOf[p]][Other(to[p])][u] # NoRow
      BY <1>3, <2>4 DEF MoveIns, TypeOK, Other, Tables
    <3>2. tbl[HostOf[p]][Other(to[p])][u] \in Flags
      BY <3>1, <1>h DEF TypeOK
    <3>3. tbl'[HostOf[p]][to[p]][u] # NoRow
      BY SMTT(30), <3>1, <3>2, <1>h, RowFacts
    <3>4. QED
      BY <3>1, <3>3 DEF HasRow
  <2>5. CASE MoveDel(p)
    <3>1. /\ to[p] \in Tables /\ Other(to[p]) \in Tables /\ to[p] # Other(to[p])
          /\ tbl' = WithRow(HostOf[p], Other(to[p]), u, NoRow)
          /\ tbl[HostOf[p]][to[p]][u] # NoRow
      BY <1>3, <2>5 DEF MoveDel, TypeOK, Other, Tables, ToolGuard
    <3>2. tbl'[HostOf[p]][to[p]][u] # NoRow
      BY <3>1, <1>h, <1>f, RowFacts
    <3>3. QED
      BY <3>1, <3>2 DEF HasRow
  <2>6. QED
    BY <2>1, <2>2, <2>3, <2>4, <2>5
<1>4. QED
  BY <1>2, <1>3

(* The directories a step of p makes and removes.                          *)
LEMMA HomeFrame ==
    ASSUME TypeOK, NEW p \in Procs, Step(p)
    PROVE  /\ \A g \in Hosts \ {HostOf[p]} : home'[g] = home[g]
           /\ home'[HostOf[p]] # home[HostOf[p]] => AddMkdir(p) \/ DelHome(p) \/ LoginHome(p)
<1>1. \/ home' = home
      \/ (AddMkdir(p) \/ DelHome(p) \/ LoginHome(p))
  BY DEF Step, Begin, Run, Fault, AddStep, DelStep, MoveStep, SyncStep,
     AddStart, DelStart, InactStart, LoginStart, SyncStart,
     AddRow, AddCntrl, AddClear, DelFlag, DelCntrl, DelRow, MoveIns, MoveDel,
     SyncPick, SyncEnd, SyncPresent, SyncIns, SyncDelCntrl, SyncFlag,
     AddCntrlFails, DelCntrlFails, SyncFails, Crash
<1>2. AddMkdir(p) \/ DelHome(p) \/ LoginHome(p) =>
         \A g \in Hosts \ {HostOf[p]} : home'[g] = home[g]
  BY DEF AddMkdir, DelHome, LoginHome, TypeOK
<1>3. QED
  BY <1>1, <1>2

LEMMA OwnHomes ==
    ASSUME TypeOK, NEW p \in Procs, Agrees(p), ToolGuard(p), HomesBacked(p), Begin(p) \/ Run(p)
    PROVE  HomesBacked(p)'
<1> DEFINE h == HostOf[p]
           Had(v) == \E t \in Tables : tbl[h][t][v] # NoRow
           Kept(v) == \E t \in Tables : tbl'[h][t][v] # NoRow
<1>r. \A v \in Users : (HasRow(h, v) <=> Had(v)) /\ (HasRow(h, v)' <=> Kept(v))
  BY DEF HasRow
<1>h. h \in Hosts /\ home[h] \subseteq Users /\ home'[h] \subseteq Users
  BY ClusterAssumption, TypeStep DEF TypeOK, Next, HomesBacked
<1>s. Step(p) /\ Local(p)
  BY StepLocal DEF Step
<1>1. \A u \in home[h] :
         \/ Had(u)
         \/ u = arg[p] /\ pc[p] \in {"mkdir", "addrow", "delhome"}
  BY DEF HomesBacked, HasRow
<1>2. \A u \in Users : Had(u) /\ (~DelRow(p) \/ u # arg[p]) => Kept(u)
  <2>1. \A u \in Users : u # arg[p] /\ Had(u) => Kept(u)
    BY <1>s DEF Local
  <2>2. ~DelRow(p) => \A u \in Users : HasRow(h, u) => HasRow(h, u)'
    BY RowsStay
  <2>3. QED
    BY <1>r, <2>1, <2>2
<1>g. /\ pc[p] \in {"login", "relogin"} => arg[p] \in Users /\ Had(arg[p])
      /\ pc'[p] \in {"login", "relogin"} => arg'[p] \in Users
  BY TypeStep, <1>s DEF HomesBacked, HasRow, TypeOK, Next, Step
<1>q. ASSUME \A u \in home'[h] :
                \/ Kept(u)
                \/ arg'[p] = u /\ pc'[p] \in {"mkdir", "addrow", "delhome"},
             pc'[p] \in {"login", "relogin"} => Kept(arg'[p])
      PROVE  HomesBacked(p)'
  BY <1>q DEF HomesBacked, HasRow
<1> HIDE DEF Had, Kept
<1>3. CASE Begin(p)
  <2>1. pc[p] = "idle" /\ home' = home /\ tbl' = tbl /\ ~DelRow(p)
    BY <1>3 DEF Begin, AddStart, DelStart, InactStart, LoginStart, SyncStart, Start, DelRow
  <2>2. pc'[p] \in {"login", "relogin"} => Kept(arg'[p])
    <3>1. ASSUME NEW u \in Users, LoginStart(p, u)
          PROVE  Kept(arg'[p])
      <4>1. Had(u) /\ arg'[p] = u
        BY <3>1, <1>r DEF LoginStart, Start, TypeOK
      <4>2. QED
        BY <1>2, <2>1, <4>1
    <3>2. pc'[p] \in {"login", "relogin"} => \E u \in Users : LoginStart(p, u)
      BY <1>3 DEF Begin, AddStart, DelStart, InactStart, SyncStart, Start, TypeOK
    <3>3. QED
      BY <3>1, <3>2
  <2>3. \A u \in home'[h] : Kept(u)
    BY <1>h, <1>1, <1>2, <2>1
  <2>4. QED
    BY <1>q, <2>2, <2>3
<1>4. CASE Run(p)
  <2>1. pc'[p] \notin {"login", "relogin"}
    <3>1. PICK l : /\ l \notin {"login", "relogin"}
                   /\ Exit(p) \/ SyncNext(p) \/ Goto(p, l) \/ pc' = [pc EXCEPT ![p] = l]
      BY SMTT(90), <1>4 DEF Run, AddStep, DelStep, MoveStep, SyncStep,
         AddMkdir, AddRow, AddCntrl, AddClear, DelFlag, DelCntrl, DelRow, DelHome,
         LoginHome, MoveIns, MoveDel,
         SyncPick, SyncEnd, SyncPresent, SyncIns, SyncDelCntrl, SyncFlag
    <3>2. QED
      BY <3>1, ExitPc, SyncNextPc, GotoPc DEF TypeOK
  <2>2. SUFFICES ASSUME NEW u \in home'[h]
                 PROVE  \/ Kept(u)
                        \/ arg'[p] = u /\ pc'[p] \in {"mkdir", "addrow", "delhome"}
    BY <1>q, <2>1
  <2>3. u \in Users
    BY <1>h
  <2>4. CASE AddMkdir(p)
    <3>1. pc'[p] = "addrow" /\ arg' = arg /\ ~DelRow(p) /\ home'[h] \subseteq home[h] \cup {arg[p]}
      BY <1>h, <2>4, GotoPc DEF AddMkdir, DelRow, TypeOK
    <3>2. QED
      BY <1>1, <1>2, <2>2, <2>3, <3>1
  <2>5. CASE DelHome(p)
    <3>1. u # arg[p] /\ u \in home[h] /\ ~DelRow(p)
      BY <1>h, <2>2, <2>5 DEF DelHome, DelRow, TypeOK
    <3>2. QED
      BY <1>1, <1>2, <2>3, <3>1
  <2>6. CASE LoginHome(p)
    <3>1. pc[p] \in {"login", "relogin"} /\ u \in home[h] \cup {arg[p]} /\ ~DelRow(p)
      BY <1>h, <2>2, <2>6 DEF LoginHome, DelRow, TypeOK
    <3>2. Had(u)
      BY <1>1, <1>g, <3>1
    <3>3. QED
      BY <1>2, <2>3, <3>1, <3>2
  <2>7. CASE ~AddMkdir(p) /\ ~DelHome(p) /\ ~LoginHome(p)
    <3>1. u \in home[h]
      BY <1>s, <2>2, <2>7, HomeFrame
    <3>2. CASE DelRow(p) /\ u = arg[p]
      <4>1. CASE Goto(p, "delhome")
        BY <3>2, <4>1, GotoPc
      <4>2. CASE Touched(h, u, NoRow) = {} /\ tbl' = sql_updateflag(h, u, NoRow)
        <5>1. Had(u)
          BY <1>1, <3>1, <3>2 DEF DelRow
        <5>2. \A t \in Tables : tbl'[h][t][u] = tbl[h][t][u]
          BY <1>h, <2>3, <4>2, FlagFacts, FlagsDiffer
        <5>3. QED
          BY <5>1, <5>2 DEF Had, Kept
      <4>3. QED
        BY <3>2, <4>1, <4>2 DEF DelRow
    <3>3. CASE AddRow(p) /\ u = arg[p]
      <4>1. CASE Goto(p, "addcntrl") /\ tbl' = WithRow(h, to[p], u, ADD_FLAG)
        <5>1. tbl'[h][to[p]][u] = ADD_FLAG /\ to[p] \in Tables
          BY <1>h, <2>3, <4>1, RowFacts, FlagsDiffer DEF TypeOK
        <5>2. QED
          BY <5>1, FlagsDiffer DEF Kept
      <4>2. CASE tbl[h][to[p]][u] # NoRow /\ tbl' = tbl
        BY <4>2 DEF Kept, TypeOK
      <4>3. QED
        BY <3>3, <4>1, <4>2 DEF AddRow
    <3>4. CASE ~(DelRow(p) /\ u = arg[p]) /\ ~(AddRow(p) /\ u = arg[p])
      <4>1. u # arg[p] \/ pc[p] \notin {"mkdir", "addrow", "delhome"}
        BY <1>4, <2>7, <3>4 DEF Run, AddStep, DelStep, MoveStep, SyncStep, DelFlag, DelCntrl,
           DelRow, AddCntrl, AddClear, MoveIns, MoveDel,
           SyncPick, SyncEnd, SyncPresent, SyncIns, SyncDelCntrl, SyncFlag
      <4>2. QED
        BY <1>1, <1>2, <2>3, <3>1, <3>4, <4>1
    <3>5. QED
      BY <3>2, <3>3, <3>4
  <2>8. QED
    BY <2>4, <2>5, <2>6, <2>7
<1>5. QED
  BY <1>3, <1>4

LEMMA OtherHomes ==
    ASSUME TypeOK, OneToolPerHost, NEW p \in Procs, Step(p),
           NEW q \in Procs \ {p}, HomesBacked(q)
    PROVE  HomesBacked(q)'
<1>1. HostOf[q] \in Hosts \ {HostOf[p]} /\ HostOf[p] \in Hosts
  BY ClusterAssumption DEF OneToolPerHost
<1>2. /\ tbl'[HostOf[q]] = tbl[HostOf[q]] /\ pc'[q] = pc[q] /\ arg'[q] = arg[q]
      /\ home'[HostOf[q]] = home[HostOf[q]]
  BY <1>1, StepLocal, HomeFrame DEF Local
<1>3. QED
  BY <1>2 DEF HomesBacked, HasRow

-----------------------------------------------------------------------------
(* The invariant of a cluster in which nothing has failed.                 *)
AgreeInv ==
    /\ \A h \in Hosts : Unattended(h)
    /\ faults = 0 => \A p \in Procs : Agrees(p) /\ HomesBacked(p)

LEMMA AgreeInit ==
    ASSUME Init PROVE AgreeInv
<1>1. \A h \in Hosts : Unattended(h)
  BY DEF Init, Unattended
<1>2. \A p \in Procs : Agrees(p) /\ HomesBacked(p)
  BY ClusterAssumption, FlagsDiffer
     DEF Init, Agrees, RowsAgree, ToolAgrees, HomesBacked, AddPCs, Tables
<1>3. QED
  BY <1>1, <1>2 DEF AgreeInv

LEMMA AgreeStep ==
    ASSUME TypeOK, LocationInv, AgreeInv, OneToolPerHost, DefaultHost = None, [Next]_vars
    PROVE  AgreeInv'
<1>1. CASE UNCHANGED vars
  BY <1>1 DEF vars, AgreeInv, Unattended, Agrees, RowsAgree, ToolAgrees, HomesBacked, HasRow
<1>2. ASSUME NEW p \in Procs, Step(p)
      PROVE  AgreeInv'
  <2>1. \A h \in Hosts : Unattended(h)'
    <3>1. SUFFICES ASSUME NEW h \in Hosts, \A q \in Procs : HostOf[q] # h
                   PROVE  home'[h] = {} /\ \A t \in Tables, u \in Users : tbl'[h][t][u] = NoRow
      BY DEF Unattended
    <3>2. tbl'[h] = tbl[h] /\ home'[h] = home[h]
      BY <1>2, <3>1, StepLocal, HomeFrame DEF Local
    <3>3. QED
      BY <3>1, <3>2 DEF AgreeInv, Unattended
  <2>2. ASSUME faults' = 0
        PROVE  \A q \in Procs : Agrees(q)' /\ HomesBacked(q)'
    <3>1. ~Fault(p) /\ faults = 0
      <4>1. Fault(p) => faults' = faults + 1
        BY DEF Fault, AddCntrlFails, DelCntrlFails, SyncFails, Crash, MasterFails
      <4>2. faults + 1 # 0
        BY DEF TypeOK
      <4>3. Begin(p) \/ Run(p) => faults' = faults
        BY DEF Begin, Run, AddStep, DelStep, MoveStep, SyncStep,
           AddStart, DelStart, InactStart, LoginStart, SyncStart,
           AddMkdir, AddRow, AddCntrl, AddClear, DelFlag, DelCntrl, DelRow, DelHome,
           LoginHome, MoveIns, MoveDel,
           SyncPick, SyncEnd, SyncPresent, SyncIns, SyncDelCntrl, SyncFlag
      <4>4. QED
        BY <1>2, <2>2, <4>1, <4>2, <4>3 DEF Step
    <3>2. (\A q \in Procs : Agrees(q) /\ HomesBacked(q)) /\ ToolGuard(p)
      BY <3>1 DEF AgreeInv, LocationInv, ToolGuards
    <3>3. Agrees(p)' /\ HomesBacked(p)'
      BY <1>2, <3>1, <3>2, OwnAgrees, OwnHomes DEF Step
    <3>4. \A q \in Procs \ {p} : Agrees(q)' /\ HomesBacked(q)'
      BY <1>2, <3>2, OtherTools, OtherHomes
    <3>5. QED
      BY <3>3, <3>4
  <2>3. QED
    BY <2>1, <2>2 DEF AgreeInv
<1>3. QED
  BY <1>1, <1>2 DEF Next, Step

(* hostsync(8): "Records which are synchronized have the value 1": with    *)
(* one tool per mailstore and no "*" row in hostcntrl, and as long as no   *)
(* tool is killed and the control host answers, a row flagged 1 belongs to *)
(* a user that hostcntrl locates on its host.                              *)
THEOREM ConfirmedIsLocated ==
    ASSUME OneToolPerHost, DefaultHost = None
    PROVE  Spec => []ConfirmedLocated
<1>1. Init => LocationInv /\ AgreeInv
  BY LocationInit, AgreeInit
<1>2. TypeOK /\ (LocationInv /\ AgreeInv) /\ [Next]_vars => (LocationInv /\ AgreeInv)'
  BY LocationStep, AgreeStep
<1>3. TypeOK /\ AgreeInv => ConfirmedLocated
  <2>1. SUFFICES ASSUME TypeOK, AgreeInv, faults = 0, NEW h \in Hosts, NEW t \in Tables,
                        NEW u \in Users, tbl[h][t][u] = SYNCED
                 PROVE  cntrl[u] = h
    BY DEF ConfirmedLocated
  <2>2. PICK p \in Procs : HostOf[p] = h
    BY <2>1, FlagsDiffer DEF AgreeInv, Unattended
  <2>3. RowsAgree(p, u)
    BY <2>1 DEF AgreeInv, Agrees
  <2>4. QED
    BY <2>1, <2>2, <2>3 DEF RowsAgree
<1>4. QED
  BY <1>1, <1>2, <1>3, TypeCorrect, PTL DEF Spec

(* Under the same conditions deluser, which deletes a location by name     *)
(* several statements after it found the user to be local, never takes out *)
(* a location that another host has registered in between.                 *)
THEOREM DeletesOwnLocation ==
    ASSUME OneToolPerHost, DefaultHost = None
    PROVE  Spec => OwnerUnregisters
<1>1. Init => LocationInv /\ AgreeInv
  BY LocationInit, AgreeInit
<1>2. TypeOK /\ (LocationInv /\ AgreeInv) /\ [Next]_vars => (LocationInv /\ AgreeInv)'
  BY LocationStep, AgreeStep
<1>3. TypeOK /\ AgreeInv /\ [Next]_vars =>
         [\A u \in Users : faults = 0 /\ cntrl[u] # None /\ cntrl'[u] = None =>
             \E p \in Procs : /\ HostOf[p] = cntrl[u]
                              /\ arg[p] = u
                              /\ pc[p] \in {"delcntrl", "syncdelcntrl"}
                              /\ pc'[p] # pc[p]]_vars
  <2>1. SUFFICES ASSUME TypeOK, AgreeInv, Next, NEW u \in Users,
                        faults = 0, cntrl[u] # None, cntrl'[u] = None
                 PROVE  \E p \in Procs : /\ HostOf[p] = cntrl[u]
                                         /\ arg[p] = u
                                         /\ pc[p] \in {"delcntrl", "syncdelcntrl"}
                                         /\ pc'[p] # pc[p]
    OBVIOUS
  <2>2. PICK p \in Procs : Step(p)
    BY <2>1 DEF Next, Step
  <2>3. arg[p] = u /\ pc[p] \in {"delcntrl", "syncdelcntrl"} /\ pc'[p] # pc[p]
    BY <2>1, <2>2, WhoUnregisters
  <2>4. ToolAgrees(p)
    BY <2>1 DEF AgreeInv, Agrees
  <2>5. HostOf[p] = cntrl[u]
    BY <2>3, <2>4 DEF ToolAgrees
  <2>6. QED
    BY <2>3, <2>5
<1>4. QED
  BY <1>1, <1>2, <1>3, TypeCorrect, PTL DEF Spec, OwnerUnregisters

(* Under the same conditions no mail directory is left behind: once no     *)
(* tool is at work on the user, a directory belongs to a user with a row.  *)
THEOREM HomesHaveRows ==
    ASSUME OneToolPerHost, DefaultHost = None
    PROVE  Spec => []HomeBacked
<1>1. Init => LocationInv /\ AgreeInv
  BY LocationInit, AgreeInit
<1>2. TypeOK /\ (LocationInv /\ AgreeInv) /\ [Next]_vars => (LocationInv /\ AgreeInv)'
  BY LocationStep, AgreeStep
<1>3. TypeOK /\ AgreeInv => HomeBacked
  <2>1. SUFFICES ASSUME TypeOK, AgreeInv, faults = 0, NEW h \in Hosts, NEW u \in home[h]
                 PROVE  \/ HasRow(h, u)
                        \/ \E p \in Procs : /\ HostOf[p] = h
                                            /\ arg[p] = u
                                            /\ pc[p] \in {"mkdir", "addrow", "delhome"}
    BY DEF HomeBacked
  <2>2. PICK p \in Procs : HostOf[p] = h
    BY <2>1 DEF AgreeInv, Unattended
  <2>3. HomesBacked(p)
    BY <2>1 DEF AgreeInv
  <2>4. QED
    BY <2>1, <2>2, <2>3 DEF HomesBacked
<1>4. QED
  BY <1>1, <1>2, <1>3, TypeCorrect, PTL DEF Spec
=============================================================================

----------------------------- MODULE UserCluster -----------------------------
(***************************************************************************)
(* Where a user of a distributed ("clustered") domain lives.               *)
(*                                                                         *)
(* Every mailstore host keeps its own user tables: the active table        *)
(* (indimail) and the inactive table (indibak), both with the primary key  *)
(* (pw_name, pw_domain).  The control host keeps one table, hostcntrl,     *)
(* that says on which host each user is to be found.  The two databases    *)
(* cannot be updated together, so the tools flag a local row in its pw_uid *)
(* column before they touch hostcntrl: ADD_FLAG while the user is not yet  *)
(* in hostcntrl, DEL_FLAG while it is still to be taken out, 1 when both   *)
(* sides agree.  hostsync, run from cron, repairs what was left flagged.   *)
(*                                                                         *)
(* A process of Procs is an admin tool or a login connected to one         *)
(* mailstore's database (vadduser -M connects to the remote one).  It runs *)
(* one job at a time, one SQL statement or directory operation a step.     *)
(***************************************************************************)
EXTENDS Naturals, FiniteSets

CONSTANTS Hosts,        \* mailstores, by their hostid
          Users,        \* users of one distributed domain
          Procs,        \* tools that may be running
          HostOf,       \* the mailstore whose database a tool uses
          DefaultHost,  \* the host of hostcntrl's "*" row, or None
          MaxFaults,    \* bound on crashes and control host failures
          None          \* no host, no user

ASSUME ClusterAssumption ==
    /\ HostOf \in [Procs -> Hosts]
    /\ None \notin Hosts
    /\ None \notin Users
    /\ DefaultHost \in Hosts \cup {None}
    /\ MaxFaults \in Nat

(* At most one tool at a time works on a mailstore's database.             *)
OneToolPerHost == \A p, q \in Procs : HostOf[p] = HostOf[q] => p = q

VARIABLES
    tbl,     \* tbl[h][t][u]: pw_uid of u's row in table t of host h, or NoRow
    cntrl,   \* cntrl[u]: host column of u's row in hostcntrl, or None
    home,    \* home[h]: the users that have a mail directory on host h
    pc,      \* pc[p]: the statement process p executes next
    arg,     \* arg[p]: the user process p is working on
    to,      \* to[p]: the table a row is inserted into, by p
    mkhome,  \* mkhome[p]: create_flag of p
    todo,    \* todo[p]: flagged rows hostsync p has still to look at
    faults   \* faults so far

vars == <<tbl, cntrl, home, pc, arg, to, mkhome, todo, faults>>

NoRow    == 0
SYNCED   == 1
ADD_FLAG == 2
DEL_FLAG == 4
Flags    == {NoRow, SYNCED, ADD_FLAG, DEL_FLAG}

Tables   == {"active", "inactive"}
Other(t) == IF t = "active" THEN "inactive" ELSE "active"

AddPCs  == {"mkdir", "addrow", "addcntrl", "clradd"}
DelPCs  == {"delflag", "delcntrl", "delrow", "delhome"}
MovePCs == {"mvins", "mvdel", "inacthome"}
SyncPCs == {"sync", "syncadd", "syncins", "syncclr",
            "syncdel", "syncdelcntrl", "syncdelrow"}
PCs     == {"idle", "login", "relogin"} \cup AddPCs \cup DelPCs \cup MovePCs \cup SyncPCs

(* A flagged row as sql_getflags copied it: table, user and flag.          *)
Entries == [table : Tables, user : Users, flag : {ADD_FLAG, DEL_FLAG}]

-----------------------------------------------------------------------------
Init ==
    /\ tbl = [h \in Hosts |-> [t \in Tables |-> [u \in Users |-> NoRow]]]
    /\ cntrl = [u \in Users |-> None]
    /\ home = [h \in Hosts |-> {}]
    /\ pc = [p \in Procs |-> "idle"]
    /\ arg = [p \in Procs |-> None]
    /\ to = [p \in Procs |-> "active"]
    /\ mkhome = [p \in Procs |-> FALSE]
    /\ todo = [p \in Procs |-> {}]
    /\ faults = 0

HasRow(h, u) == \E t \in Tables : tbl[h][t][u] # NoRow

(* sql_updateflag and sql_deluser try the active table and go on to the    *)
(* inactive one only when no row of the active one was affected.  MySQL    *)
(* counts a row as affected when its value changes; f = NoRow deletes.     *)
Affects(h, t, u, f) == tbl[h][t][u] \notin {NoRow, f}

Touched(h, u, f) ==
    {t \in Tables : /\ Affects(h, t, u, f)
                    /\ t = "inactive" => ~Affects(h, "active", u, f)}

WithRow(h, t, u, f) == [tbl EXCEPT ![h][t][u] = f]

sql_updateflag(h, u, f) ==
    [tbl EXCEPT ![h] = [t \in Tables |->
        IF t \in Touched(h, u, f) THEN [tbl[h][t] EXCEPT ![u] = f] ELSE tbl[h][t]]]

findhost(u) == IF cntrl[u] # None THEN cntrl[u] ELSE DefaultHost

-----------------------------------------------------------------------------
(* Control flow of one process.                                            *)
Goto(p, l) == /\ pc' = [pc EXCEPT ![p] = l]
              /\ UNCHANGED <<arg, to, mkhome, todo>>

Exit(p) == /\ pc' = [pc EXCEPT ![p] = "idle"]
           /\ arg' = [arg EXCEPT ![p] = None]
           /\ to' = [to EXCEPT ![p] = "active"]
           /\ mkhome' = [mkhome EXCEPT ![p] = FALSE]
           /\ todo' = [todo EXCEPT ![p] = {}]

Start(p, u, t, m, l) ==
    /\ pc[p] = "idle"
    /\ pc' = [pc EXCEPT ![p] = l]
    /\ arg' = [arg EXCEPT ![p] = u]
    /\ to' = [to EXCEPT ![p] = t]
    /\ mkhome' = [mkhome EXCEPT ![p] = m]
    /\ UNCHANGED todo

(* A statement sent to the control host fails: the connection is lost      *)
(* before the server executes it (done = FALSE) or before its answer       *)
(* arrives (done = TRUE).                                                  *)
MasterFails == /\ faults < MaxFaults
               /\ faults' = faults + 1

-----------------------------------------------------------------------------
(* iadduser: a user that hostcntrl does not know yet.                      *)
AddStart(p, u, t, m) ==
    /\ cntrl[u] = None
    /\ Start(p, u, t, m, "mkdir")
    /\ UNCHANGED <<tbl, cntrl, home, faults>>

(* make_user_dir, when create_flag is set; an existing directory is reused. *)
AddMkdir(p) ==
    /\ pc[p] = "mkdir"
    /\ home' = IF mkhome[p]
                 THEN [home EXCEPT ![HostOf[p]] = @ \cup {arg[p]}] ELSE home
    /\ Goto(p, "addrow")
    /\ UNCHANGED <<tbl, cntrl, faults>>

(* sql_adduser inserts the row flagged ADD_FLAG; a duplicate key makes     *)
(* iadduser return -1.                                                     *)
AddRow(p) ==
    /\ pc[p] = "addrow"
    /\ \/ /\ tbl[HostOf[p]][to[p]][arg[p]] = NoRow
          /\ tbl' = WithRow(HostOf[p], to[p], arg[p], ADD_FLAG)
          /\ Goto(p, "addcntrl")
       \/ /\ tbl[HostOf[p]][to[p]][arg[p]] # NoRow
          /\ UNCHANGED tbl
          /\ Exit(p)
    /\ UNCHANGED <<cntrl, home, faults>>

(* Mutant: the duplicate answer of addusercntrl is taken for success.      *)
AddCntrl_DupIgnored(p) ==
    /\ pc[p] = "addcntrl"
    /\ cntrl' = [cntrl EXCEPT ![arg[p]] = IF @ = None THEN HostOf[p] ELSE @]
    /\ Goto(p, "clradd")
    /\ UNCHANGED <<tbl, home, faults>>

(* addusercntrl.  A duplicate (another host was faster) sends iadduser to  *)
(* its clean-up, whose "delete from <table>where ..." is a syntax error:   *)
(* the tool dies and the flagged row stays.                                *)
AddCntrl(p) ==
    /\ pc[p] = "addcntrl"
    /\ \/ /\ cntrl[arg[p]] = None
          /\ cntrl' = [cntrl EXCEPT ![arg[p]] = HostOf[p]]
          /\ Goto(p, "clradd")
       \/ /\ cntrl[arg[p]] # None
          /\ UNCHANGED cntrl
          /\ Exit(p)
    /\ UNCHANGED <<tbl, home, faults>>

(* addusercntrl answers 1: iadduser returns 0 and leaves the flag.         *)
AddCntrlFails(p) ==
    /\ pc[p] = "addcntrl"
    /\ MasterFails
    /\ \/ UNCHANGED cntrl
       \/ /\ cntrl[arg[p]] = None
          /\ cntrl' = [cntrl EXCEPT ![arg[p]] = HostOf[p]]
    /\ Exit(p)
    /\ UNCHANGED <<tbl, home>>

AddClear(p) ==
    /\ pc[p] = "clradd"
    /\ tbl' = sql_updateflag(HostOf[p], arg[p], SYNCED)
    /\ Exit(p)
    /\ UNCHANGED <<cntrl, home, faults>>

-----------------------------------------------------------------------------
(* Mutant: deluser does not ask findhost.                                  *)
IsLocal_RowOnly(p, u) == HasRow(HostOf[p], u)

(* deluser(user, domain, 1): findhost must name this mailstore and         *)
(* sql_getpw must find the row.                                            *)
IsLocal(p, u) == findhost(u) = HostOf[p] /\ HasRow(HostOf[p], u)

DelStart(p, u) ==
    /\ IsLocal(p, u)
    /\ Start(p, u, "active", FALSE, "delflag")
    /\ UNCHANGED <<tbl, cntrl, home, faults>>

(* sql_deluser gives up when the flag affects no row: no row, or a row     *)
(* that an earlier attempt has flagged already.                            *)
DelFlag(p) ==
    /\ pc[p] = "delflag"
    /\ \/ /\ Touched(HostOf[p], arg[p], DEL_FLAG) # {}
          /\ tbl' = sql_updateflag(HostOf[p], arg[p], DEL_FLAG)
          /\ Goto(p, "delcntrl")
       \/ /\ Touched(HostOf[p], arg[p], DEL_FLAG) = {}
          /\ UNCHANGED tbl
          /\ Exit(p)
    /\ UNCHANGED <<cntrl, home, faults>>

(* delusercntrl deletes by name and domain, whatever the host column says. *)
DelCntrl(p) ==
    /\ pc[p] = "delcntrl"
    /\ cntrl' = [cntrl EXCEPT ![arg[p]] = None]
    /\ Goto(p, "delrow")
    /\ UNCHANGED <<tbl, home, faults>>

(* Mutant: sql_deluser goes on when delusercntrl has failed.               *)
DelCntrlFails_Ignored(p) ==
    /\ pc[p] = "delcntrl"
    /\ MasterFails
    /\ \E done \in BOOLEAN :
          cntrl' = IF done THEN [cntrl EXCEPT ![arg[p]] = None] ELSE cntrl
    /\ Goto(p, "delrow")
    /\ UNCHANGED <<tbl, home>>

DelCntrlFails(p) ==
    /\ pc[p] = "delcntrl"
    /\ MasterFails
    /\ \E done \in BOOLEAN :
          cntrl' = IF done THEN [cntrl EXCEPT ![arg[p]] = None] ELSE cntrl
    /\ Exit(p)
    /\ UNCHANGED <<tbl, home>>

(* Mutant: deluser returns without vdelfiles.                              *)
DelRow_NoFiles(p) ==
    /\ pc[p] = "delrow"
    /\ Exit(p)
    /\ tbl' = sql_updateflag(HostOf[p], arg[p], NoRow)
    /\ UNCHANGED <<cntrl, home, faults>>

DelRow(p) ==
    /\ pc[p] = "delrow"
    /\ \/ /\ Touched(HostOf[p], arg[p], NoRow) # {}
          /\ Goto(p, "delhome")
       \/ /\ Touched(HostOf[p], arg[p], NoRow) = {}
          /\ Exit(p)
    /\ tbl' = sql_updateflag(HostOf[p], arg[p], NoRow)
    /\ UNCHANGED <<cntrl, home, faults>>

(* vdelfiles                                                               *)
DelHome(p) ==
    /\ pc[p] \in {"delhome", "inacthome"}
    /\ home' = [home EXCEPT ![HostOf[p]] = @ \ {arg[p]}]
    /\ Exit(p)
    /\ UNCHANGED <<tbl, cntrl, faults>>

-----------------------------------------------------------------------------
(* deluser(user, domain, 2) makes a user inactive, a login makes an        *)
(* inactive user active again: sql_active copies the row to the other      *)
(* table and then deletes it from the first.                               *)
InactStart(p, u) ==
    /\ IsLocal(p, u)
    /\ Start(p, u, "inactive", FALSE, "mvins")
    /\ UNCHANGED <<tbl, cntrl, home, faults>>

LoginStart(p, u) ==
    /\ HasRow(HostOf[p], u)
    /\ Start(p, u, "active", TRUE,
             IF tbl[HostOf[p]]["active"][u] # NoRow THEN "login" ELSE "relogin")
    /\ UNCHANGED <<tbl, cntrl, home, faults>>

(* Login_Tasks makes a missing directory, and moves an inactive user.      *)
LoginHome(p) ==
    /\ pc[p] \in {"login", "relogin"}
    /\ home' = [home EXCEPT ![HostOf[p]] = @ \cup {arg[p]}]
    /\ IF pc[p] = "login" THEN Exit(p) ELSE Goto(p, "mvins")
    /\ UNCHANGED <<tbl, cntrl, faults>>

(* insert into table2 select * from table1: a duplicate key is an error,   *)
(* an empty selection affects no row; either way sql_active returns 1.     *)
MoveIns(p) ==
    /\ pc[p] = "mvins"
    /\ LET h == HostOf[p]
           from == Other(to[p])
       IN \/ /\ tbl[h][from][arg[p]] # NoRow
             /\ tbl[h][to[p]][arg[p]] = NoRow
             /\ tbl' = WithRow(h, to[p], arg[p], tbl[h][from][arg[p]])
             /\ Goto(p, "mvdel")
          \/ /\ tbl[h][from][arg[p]] = NoRow \/ tbl[h][to[p]][arg[p]] # NoRow
             /\ UNCHANGED tbl
             /\ Exit(p)
    /\ UNCHANGED <<cntrl, home, faults>>

(* Only a user made inactive by deluser, and only when a row was deleted,  *)
(* loses its directory.                                                    *)
MoveDel(p) ==
    /\ pc[p] = "mvdel"
    /\ LET h == HostOf[p]
           from == Other(to[p])
       IN /\ tbl' = WithRow(h, from, arg[p], NoRow)
          /\ IF to[p] = "inactive" /\ tbl[h][from][arg[p]] # NoRow
               THEN Goto(p, "inacthome") ELSE Exit(p)
    /\ UNCHANGED <<cntrl, home, faults>>

-----------------------------------------------------------------------------
(* Mutant: only added users are selected.                                  *)
sql_getflags_AddOnly(h) ==
    {e \in Entries : e.flag = ADD_FLAG /\ tbl[h][e.table][e.user] = e.flag}

(* hostsync reads all flagged rows first and then works through the copy.  *)
sql_getflags(h) ==
    {e \in Entries : tbl[h][e.table][e.user] = e.flag}

SyncStart(p) ==
    /\ pc[p] = "idle"
    /\ sql_getflags(HostOf[p]) # {}
    /\ pc' = [pc EXCEPT ![p] = "sync"]
    /\ todo' = [todo EXCEPT ![p] = sql_getflags(HostOf[p])]
    /\ UNCHANGED <<tbl, cntrl, home, arg, to, mkhome, faults>>

(* Rows of the active table come first.  to[p] remembers the entry's table. *)
SyncPick(p) ==
    /\ pc[p] = "sync"
    /\ \E e \in todo[p] :
          /\ e.table = "inactive" => \A d \in todo[p] : d.table = "inactive"
          /\ pc' = [pc EXCEPT ![p] = IF e.flag = ADD_FLAG THEN "syncadd" ELSE "syncdel"]
          /\ arg' = [arg EXCEPT ![p] = e.user]
          /\ to' = [to EXCEPT ![p] = e.table]
    /\ UNCHANGED <<tbl, cntrl, home, mkhome, todo, faults>>

SyncEnd(p) ==
    /\ pc[p] = "sync"
    /\ todo[p] = {}
    /\ Exit(p)
    /\ UNCHANGED <<tbl, cntrl, home, faults>>

(* Mutant: the current entry is forgotten, the user is not.                *)
SyncNext_KeepsUser(p) ==
    /\ pc' = [pc EXCEPT ![p] = "sync"]
    /\ to' = [to EXCEPT ![p] = "active"]
    /\ todo' = [todo EXCEPT ![p] =
                  {e \in @ : ~(e.table = to[p] /\ e.user = arg[p])}]
    /\ UNCHANGED <<mkhome, arg>>

(* Done with the current entry: on to the next.                            *)
SyncNext(p) ==
    /\ pc' = [pc EXCEPT ![p] = "sync"]
    /\ arg' = [arg EXCEPT ![p] = None]
    /\ to' = [to EXCEPT ![p] = "active"]
    /\ todo' = [todo EXCEPT ![p] =
                  {e \in @ : ~(e.table = to[p] /\ e.user = arg[p])}]
    /\ UNCHANGED mkhome

(* cntrl_clearaddflag and cntrl_cleardelflag first ask is_user_present.    *)
SyncPresent(p) ==
    /\ \/ /\ pc[p] = "syncadd"
          /\ IF cntrl[arg[p]] = None THEN Goto(p, "syncins") ELSE SyncNext(p)
       \/ /\ pc[p] = "syncdel"
          /\ Goto(p, IF cntrl[arg[p]] = None THEN "syncdelrow" ELSE "syncdelcntrl")
    /\ UNCHANGED <<tbl, cntrl, home, faults>>

SyncIns(p) ==
    /\ pc[p] = "syncins"
    /\ \/ /\ cntrl[arg[p]] = None
          /\ cntrl' = [cntrl EXCEPT ![arg[p]] = HostOf[p]]
          /\ Goto(p, "syncclr")
       \/ /\ cntrl[arg[p]] # None
          /\ UNCHANGED cntrl
          /\ SyncNext(p)
    /\ UNCHANGED <<tbl, home, faults>>

SyncDelCntrl(p) ==
    /\ pc[p] = "syncdelcntrl"
    /\ cntrl' = [cntrl EXCEPT ![arg[p]] = None]
    /\ Goto(p, "syncdelrow")
    /\ UNCHANGED <<tbl, home, faults>>

(* Any of the statements for the control host fails: the entry is skipped. *)
SyncFails(p) ==
    /\ pc[p] \in {"syncadd", "syncdel", "syncins", "syncdelcntrl"}
    /\ MasterFails
    /\ \/ UNCHANGED cntrl
       \/ /\ pc[p] = "syncins"
          /\ cntrl[arg[p]] = None
          /\ cntrl' = [cntrl EXCEPT ![arg[p]] = HostOf[p]]
       \/ /\ pc[p] = "syncdelcntrl"
          /\ cntrl' = [cntrl EXCEPT ![arg[p]] = None]
    /\ SyncNext(p)
    /\ UNCHANGED <<tbl, home>>

(* sql_updateflag: 1 for an added user, a delete for a deleted one.        *)
SyncFlag(p) ==
    /\ pc[p] \in {"syncclr", "syncdelrow"}
    /\ tbl' = sql_updateflag(HostOf[p], arg[p],
                             IF pc[p] = "syncclr" THEN SYNCED ELSE NoRow)
    /\ SyncNext(p)
    /\ UNCHANGED <<cntrl, home, faults>>

(* A tool is killed, or its host goes down, between two statements.        *)
Crash(p) ==
    /\ pc[p] # "idle"
    /\ faults < MaxFaults
    /\ faults' = faults + 1
    /\ Exit(p)
    /\ UNCHANGED <<tbl, cntrl, home>>

-----------------------------------------------------------------------------
AddStep(p)  == AddMkdir(p) \/ AddRow(p) \/ AddCntrl(p) \/ AddClear(p)
DelStep(p)  == DelFlag(p) \/ DelCntrl(p) \/ DelRow(p) \/ DelHome(p)
MoveStep(p) == LoginHome(p) \/ MoveIns(p) \/ MoveDel(p)
SyncStep(p) == \/ SyncPick(p) \/ SyncEnd(p) \/ SyncPresent(p) \/ SyncIns(p)
               \/ SyncDelCntrl(p) \/ SyncFlag(p)

(* A tool that runs and that nothing disturbs.                             *)
Run(p) == AddStep(p) \/ DelStep(p) \/ MoveStep(p) \/ SyncStep(p)

Begin(p) ==
    \/ \E u \in Users, t \in Tables, m \in BOOLEAN : AddStart(p, u, t, m)
    \/ \E u \in Users : DelStart(p, u) \/ InactStart(p, u) \/ LoginStart(p, u)
    \/ SyncStart(p)

Fault(p) == AddCntrlFails(p) \/ DelCntrlFails(p) \/ SyncFails(p) \/ Crash(p)

Next == \E p \in Procs : Begin(p) \/ Run(p) \/ Fault(p)

Spec == Init /\ [][Next]_vars

(* A started tool runs to its end (weak fairness of its next statement);   *)
(* cron starts hostsync again and again, whatever else is run on the host  *)
(* in between (strong fairness).                                           *)
FairSpec == Spec /\ \A p \in Procs : WF_vars(Run(p)) /\ SF_vars(SyncStart(p))

-----------------------------------------------------------------------------
TypeOK ==
    /\ tbl \in [Hosts -> [Tables -> [Users -> Flags]]]
    /\ cntrl \in [Users -> Hosts \cup {None}]
    /\ home \in [Hosts -> SUBSET Users]
    /\ pc \in [Procs -> PCs]
    /\ arg \in [Procs -> Users \cup {None}]
    /\ \A p \in Procs : arg[p] = None <=> pc[p] \in {"idle", "sync"}
    /\ to \in [Procs -> Tables]
    /\ mkhome \in [Procs -> BOOLEAN]
    /\ todo \in [Procs -> SUBSET Entries]
    /\ faults \in 0 .. MaxFaults

(* Mail for a user is sent to the host hostcntrl names.  Whatever crashes  *)
(* or fails, that host has a row for the user: iadduser inserts the row    *)
(* before it registers the host, deluser and hostsync unregister the host  *)
(* before they delete the row, and sql_active copies before it deletes.    *)
LocationBacked == \A u \in Users : cntrl[u] # None => HasRow(cntrl[u], u)

(* What makes LocationBacked inductive, with one tool per host: a tool     *)
(* about to register its host has a row there, one about to delete a row   *)
(* has unregistered its host, one about to delete the original of a moved  *)
(* row has the copy, and hostsync's list names only rows that are there.   *)
ToolGuard(p) ==
    LET h == HostOf[p] IN
    /\ pc[p] = "addcntrl" => HasRow(h, arg[p])
    /\ pc[p] \in {"delrow", "syncdelrow"} => cntrl[arg[p]] # h
    /\ pc[p] = "mvdel" => tbl[h][to[p]][arg[p]] # NoRow
    /\ pc[p] \notin SyncPCs => todo[p] = {}
    /\ pc[p] \in SyncPCs \ {"sync"} =>
           \E e \in todo[p] : e.user = arg[p] /\ e.table = to[p]
    /\ \A e \in todo[p] : HasRow(h, e.user)
    /\ \A d, e \in todo[p] : d.user = e.user /\ d.table # e.table =>
           \A t \in Tables : tbl[h][t][e.user] # NoRow

ToolGuards == \A p \in Procs : ToolGuard(p)

LocationInv == LocationBacked /\ ToolGuards

(* hostsync(8): "Records which are synchronized have the value 1": as long *)
(* as nothing has failed, a row whose flag is 1 belongs to a user that     *)
(* hostcntrl locates on its host.                                          *)
ConfirmedLocated ==
    faults = 0 =>
        \A h \in Hosts, t \in Tables, u \in Users :
            tbl[h][t][u] = SYNCED => cntrl[u] = h

(* deluser checks that the user is local and only then, several statements *)
(* later, deletes the location by name: as long as nothing has failed, the *)
(* location taken out is always the one of the host whose tool deletes it. *)
OwnerUnregisters ==
    [][\A u \in Users : faults = 0 /\ cntrl[u] # None /\ cntrl'[u] = None =>
          \E p \in Procs : /\ HostOf[p] = cntrl[u]
                           /\ arg[p] = u
                           /\ pc[p] \in {"delcntrl", "syncdelcntrl"}
                           /\ pc'[p] # pc[p]]_vars

(* make_user_dir runs before the row is inserted and vdelfiles after it is *)
(* deleted; still, as long as nothing has failed and once no tool is at    *)
(* work on the user, a mail directory belongs to a user that has a row.    *)
HomeBacked ==
    faults = 0 => \A h \in Hosts : \A u \in home[h] :
        \/ HasRow(h, u)
        \/ \E p \in Procs : /\ HostOf[p] = h
                            /\ arg[p] = u
                            /\ pc[p] \in {"mkdir", "addrow", "delhome"}

(* A row left flagged DEL_FLAG, by a crash or by a control host that was   *)
(* down, is eventually removed by hostsync, unless the same user is added  *)
(* again on that host for ever (each removal may then hit the new row).    *)
DelResolved ==
    \A h \in Hosts, t \in Tables, u \in Users :
        tbl[h][t][u] = DEL_FLAG ~>
            \/ tbl[h][t][u] # DEL_FLAG
            \/ []<>(\E p \in Procs : /\ HostOf[p] = h
                                     /\ arg[p] = u
                                     /\ pc[p] \in AddPCs)

(* hostsync(8): ADD_FLAG means "User not added to hostcntrl", and iadduser *)
(* leaves a failed addition because "hostsync should take care": a row of  *)
(* a user located on this host does not keep ADD_FLAG for ever.            *)
AddResolved ==
    \A h \in Hosts, t \in Tables, u \in Users :
        (tbl[h][t][u] = ADD_FLAG /\ cntrl[u] = h)
            ~> ~(tbl[h][t][u] = ADD_FLAG /\ cntrl[u] = h)

=============================================================================

# Verification of the indimail virtual domain core

indimail-virtualdomains is a collection of packages around one core, the C
programs and the library in `src/indimail-x` (about 64,000 lines): virtual
domains, their users, where each user's mail lives, and the databases and control
files that say so. This directory holds TLA+ modules that model parts of that
core, TLC configurations for small instances, and TLAPS proofs for all instances.

    tlc -config MCUserCluster_repair.cfg MCUserCluster      # one run
    tlapm BigDirProofs.tla                                  # one proof module

`PROJECT.json` lists the components, the runs with their properties, for every
definition the source lines it models, the hazards, the findings and the theorems.

## 1. The system

### 1.1 Components

All paths are below `src/indimail-x` unless they say otherwise.

| Component | State it keeps | Operations | Module |
|---|---|---|---|
| Clustered user location (`iadduser.c`, `deluser.c`, `sql_active.c`, `hostsync.c`, `cntrl_*flag.c`, `addusercntrl.c`, `delusercntrl.c`) | per mailstore the tables indimail and indibak with the flag in pw_uid; on the control host the table hostcntrl; mail directories | add, delete, inactivate, reactivate at login, repair from cron | `UserCluster` |
| Control file edits and their locks (`update_file.c`, `remove_line.c`, `getDbLock.c`, `lockfile.c`) | rcpthosts, virtualdomains, users/assign and so on; `.bak` and temporary files; lock files | add a line, remove a line, lock, unlock | `ControlFile`, `AtomicFile` |
| Big directory allocation (`inc_dir*.c`, `backfill.c`, `make_user_dir.c`, `dec_dir_control.c`, `v*_dir_control.c`, `vreorg.c`) | a row of dir_control per domain and file system; the backfill file; pw_dir | take the next directory, give one back, deal out all anew | `DirControl`, `DirLayout`, `BigDir` |
| Single instance (`is_already_running.c`) | a pid file | look, write | not modelled |
| Domain life cycle (`iadddomain.c`, `deldomain.c`, `add_domain_assign.c`, `vrenamedomain.c`, alias domains) | users/assign, rcpthosts, virtualdomains, tables, directories, symbolic links | add, delete, rename, alias | `DomainFiles` |
| Lookup daemon (`inlookup.c`, `ProcessInFifo.c`, `inquery.c`, `*InLookup.c`) | a request FIFO, one answer FIFO per client, a cache of rows | query, cache, flush on SIGHUP, timeouts, restart | `Inlookup` |
| Delivery and quota (`vdelivermail.c`, `deliver_mail.c`, `check_quota.c`, `update_quota.c`, `recalc_quota.c`, `user_over_quota.c`) | maildirsize, the messages of a Maildir, the flag of a user over quota | deliver, count, recalculate, warn, bounce, lock | `MaildirQuota` |
| POP-before-SMTP relay (`open_smtp_relay.c`, `clear_open_smtp.c`, `update_rules.c`) | the relay table, tcp.smtp | open, expire, rebuild | planned |
| Cluster connections (`LoadDbInfo.c`, `dbinfo*.c`, `iopen.c`, `open_master.c`) | the MCD file, connection flags | load, add, delete, update | planned |
| File system balancing (`vfstab*.c`, `getFreeFS.c`, `fstabChangeCounters.c`) | table fstab, file lastfstab | choose, count | planned |
| User renaming and settings (`renameuser.c`, `vmoduser.c`, `vmoveuserdir.c`) | rows, mail directories, aliases, filters | rename = add, move, delete | planned |
| Hosts and IP maps, aliases, domain limits | a table each | single statements | no |
| Bulletins, vacation, mail filters | files and tables per user | mostly text and I/O | no |
| Authentication and proxies (`vchkpass.c`, `iauth.c`, `authindi.c`, `proxy*.c`) | none of their own | compare a password, forward a connection | no |
| Administration server (`indisrvr.c`, `handlers.c`, `adminclient.c`) | table of children | run a command for a client | last |
| Reports and small tools (`vdominfo.c`, `osh.c`, `crc.c`, `qmailmrtg.c`, ...) | none | print | no |
| Other packages (`iwebadmin-x`, `nssd-x`, `pam-multi-x`, `logalert-x`, `indium-x`, `ircube-x`) | | use the library, or stand apart | no |
| Vendored (`courier-imap-x`, `fetchmail-x`, `indimail-spamfilter-x`, `altermime-x`, `ripmime-x`, `mpack-x`, `procmail-x`, `fortune-x`, `flash-x`) | | third party | no |

### 1.2 How they interact

There is no server that owns the state. Every command line tool, every login and
every delivery is a process of its own that reads and writes the same databases
and files: two SQL databases that cannot be updated together (the mailstore's and
the control host's), files protected by advisory locks, and directories. A tool
is a sequence of statements and system calls; anything may be interleaved between
two of them, and the process may be killed there. `vadduser` runs `iadduser()`,
which calls `make_user_dir()` (big directory allocation), inserts rows on two
hosts (clustered location) and `vwrite_dir_control()` edits `.filesystems`
(control file edits); `vadddomain` is nothing but control file edits, a table
and a directory. The lookup daemon and the proxies only read.

### 1.3 What is hard

- two databases and one flag: a crash, or a lost answer, between the statements;
- two hosts adding the same user, and a check that is long past when it is used;
- a lock file that is unlinked while others wait for its lock;
- a row that is read, changed and written without a lock;
- static buffers that are appended to and never reset, so that the second call of
  a function in one process does what the first did;
- repairs that have to happen some day (hostsync), and locks that must not be
  waited for for ever;
- off-by-one at the ends of the directory levels;
- a domain that is spread over a dozen files, and tools that change them one by one
  and fail in the middle;
- an answer that comes when the client has given up and asked again, a daemon that
  unlinks the FIFO of its successor, caches that outlive what they were read from;
- a file that is emptied without the lock and written with it, and read by a third
  party that asks for no lock at all.

The list with lines is in `PROJECT.json` under "hazards".

### 1.4 What correctness means, by component

- Clustered location: hostcntrl names only hosts that have the user; a row with
  flag 1 is located where it is; a flagged row is repaired.
- Control files: no two editors at once; the file never vanishes; users/assign
  keeps its terminator; what reported success lasts; everyone gets the lock.
- Big directories: directories are used in order, none is left out; the row stays
  usable whatever interleaves; the count follows the users.
- Domain life cycle: an addition that was reported is complete and stays so; a
  deletion that was reported leaves nothing; an addition that is taken back leaves
  things as they were.
- Lookup daemon: an answer goes to the query it belongs to, or to nobody; a cached
  answer was true at some time after the last flush; a query ends; a running daemon
  can be reached.
- Delivery and quota: maildirsize has a header and counts no message twice; no
  message bounces from a Maildir that had room for it.

## 2. Plan

Order of work, most important first. The first eight parts are done:

1. `UserCluster`, with the proofs of type correctness and of LocationBacked. (done)
2. `ControlFile` with its abstract specification `AtomicFile`, and the proofs of
   mutual exclusion and that the file never vanishes. (done)
3. `DirControl`, `DirLayout` and `BigDir`, with the proof that the row stays well
   formed. (done)
4. `Inlookup`: the FIFOs, timeouts, caches and restarts of the lookup service. (done)
5. `DomainFiles`: the life of a domain as a sequence of edits, with the failure of
   every step. (done)
6. `MaildirQuota`: maildirsize under concurrent deliveries. (done)
7. Proofs, first part: the safety properties of `UserCluster`, `ControlFile` with the
   refinement of `AtomicFile`, `DirLayout`, `BigDir`, `Inlookup` and `MaildirQuota`, and
   the type correctness of `DomainFiles`. (done)
8. Proofs, second part: AddedStays, DeletedGone and RolledBack of `DomainFiles`, whose
   programs have to be followed step by step. (done)
9. The choice of a file system (`getFreeFS.c`), the relay table, and the renaming of
   users as an extension of `UserCluster`.

Bounds stay small everywhere: two or three processes, one or two users or
domains, one or two faults, since every hazard on the list needs at most three
actors. Few runs, each with all the properties that its instance can carry.

## 3. The modules and the code

### 3.1 UserCluster

`tbl[h][t][u]` is the pw_uid of the row of user u in table t of host h, `cntrl[u]`
the host column of hostcntrl, `home[h]` the mail directories. A process of `Procs`
is one tool or login; `pc[p]` is the statement it executes next.

| Actions | Code |
|---|---|
| AddStart, AddMkdir, AddRow, AddCntrl, AddCntrlFails, AddClear | `iadduser()`, `make_user_dir()`, `sql_adduser()`, `addusercntrl()`, `sql_updateflag()` |
| DelStart, DelFlag, DelCntrl, DelCntrlFails, DelRow, DelHome | `deluser()`, `sql_deluser()`, `delusercntrl()`, `vdelfiles()` |
| InactStart, LoginStart, LoginHome, MoveIns, MoveDel | inactivating, and `sql_active()` at login |
| SyncStart, SyncPick, SyncPresent, SyncIns, SyncDelCntrl, SyncFlag, SyncFails, SyncNext, SyncEnd | `hostsync`, `sql_getflags()`, `cntrl_clearaddflag()`, `cntrl_cleardelflag()` |
| MasterFails, Crash | the control host does not answer (before or after it executed the statement); the process is killed |

Left out: passwords, quotas, the wording of statements. A statement is atomic, as
it is in the database. Quirks of the code are kept: the clean-up after a duplicate
is a malformed statement and does nothing, `cntrl_cleardelflag()` deletes the
location by name only.

### 3.2 ControlFile and AtomicFile

Files are inodes that names point to, so that unlink, rename, and a lock on an
inode that has lost its name are what they are in the kernel. Actions are the
system calls: LockOpen and LockGrant (`lockcreate()`, `get_write_lock()`), Temp,
Read, Write, Rename (`update_file()`, `remove_line()`), Unlink and Release
(`delDbLock()`), MkTrunc and MkWrite (`add_domain_assign()` when users/assign is
absent), and for every call its failure with what the code does then (`mode`).
`Killed` drops the lock and leaves the files. The comparison of lines is that of
`str_diffn()`, on lines as sequences of characters. `Keep(s, K)` is what is left of a
file when the lines at the positions K are copied to the new one; it says what
SelectSeq and RemoveFirstMatch of the library say, without the recursion that is
opaque to a proof, and `KeepIsSelectSeq` compares the two on all files of up to three
lines in every run of `MCControlFile`.

`AtomicFile` is the promise: the lines of a file, and edits that are made in one
step or not at all. `ControlFile` maps to it by the lines of the file the name
points to.

### 3.3 DirControl, DirLayout and BigDir

`DirControl` is pure: `inc_dir_control()`, `inc_dir()` and `next_char()` on a
vdir_type record, with the characters of dirlist as 0..List-1. `inc_dir()` is
recursive over at most three levels; the module says the same with the set of
levels that start again (Wraps) and the one that moves on (Moves).

`DirLayout` adds users and nothing else, and compares every directory with the
numbering the layout is meant to follow (Nth).

`BigDir` adds the unlocked access to the row (Get and Put, DecGet and DecPut,
FillGet and FillPut, Pick and Move), the backfill file as the code leaves it (one
line, entries appended without a newline, `remove_line()` comparing all but its
last character) and the static buffer of `vwrite_dir_control()`: `wrote[p]` is the
row that process p wrote first, and every later write of p writes it again.
`home[u]` is the directory chosen for u; the failure of `vmake_maildir()` is
MkdirFails. One domain on one file system; vreorg is run with -r. `alone` is a
history variable: no two tools have overlapped so far.

### 3.4 Inlookup

The FIFO of the daemon is a queue of queries with a generation (`gen`), because a
client that has it open keeps the old one when the daemon makes a new one; each
client has one answer FIFO, which holds nothing, the length or the whole answer.

| Actions | Code |
|---|---|
| Open, Send, ReadInt, ReadData, ReadEof, TimeOut | `inquery()`; the name of the FIFO is the pid and the second of the clock |
| Take, LookUp, WriteInt, WriteData | the loop of `ProcessInFifo()`: read, tree or `sql_getpw()`, write |
| SigHup, SigTerm, Unlink, Die, Start | the handlers in `ProcessInFifo.c` and the parent in `inlookup.c`, which starts a new child when one dies |
| Change, Kill | the tools change the database; a client is killed (external) |

`tree` and `search_func` are the tree and the switch from tsearch to tfind at
MAX_BTREE_COUNT; `pwent` is the one-entry cache of `sql_getpw()`; `userNotFound` and
`is_inactive` are the globals the answer is made from. `seen` and `good` are history
variables: the rows a user has had since the last flush, and the answers that would
be right for a query. Queries for a user's status and for a passwd record stand for
all kinds.

### 3.5 DomainFiles

`file[f]` is the set of domains that control file f names, `cdb` the compiled copy of
users/assign, `dir`, `link` and `aliases` the directories with `.qmail-default`,
symbolic links and `.aliasdomains`, `rows` the domains that have users. A tool holds
the steps it has still to make in `prog[t]`: the definitions add, alias, deldomain,
rename, add_control, del_control and so on are the sequences of calls of the functions
of that name, and every step carries what its caller does when it fails ("stop",
"skip", "rollback", "undo"). The actions execute the first step (Put, Drop, Mkdir,
Excl, Symlink, Enlist, Compile, Install, ...); Fail makes it fail and Crash kills the
tool. The decisions that depend on the store (Absent, Find, Turn, IfKnown) are made
when the code makes them, from users/cdb and not from users/assign. Some of them put
steps in front of the rest: `remove_alias_domain()` is one step of deldomain (Strike),
which goes on with IfKnown, and that with the edits that take a known alias out.

An edit of a control file is one step here; `ControlFile` checks how far that is so.
Names are no prefixes of each other.

`told` and `mixed` are history variables and change nothing else. `told[d]` is what the
last operation on d has reported: "there", "gone" (a domain), "unlinked" (a name that
`is_alias_domain()` took for an alias, whose users nobody looks for) or "rolled". What it
has reported ends with the next operation that names d, and with a deletion that finds d
in a list of aliases; an addition beside a domain that is there ends nothing. `mixed` has
the domains of which nothing is claimed until the tools at them have ended: those on which
a removal and another operation have overlapped (Overlap), where a tool is at the domains
it was started for and at those its remaining steps take out of a file (Touched), and a
link that leads nowhere, which a deletion leaves. `op[t].do` is what the tool is doing:
it changes to "undo" when an addition is taken back, and to "del" or "unlink" when a
deletion is decided on (Find), which the renaming of an alias comes to as well.

### 3.6 MaildirQuota

`text` is maildirsize, a header with the limit and lines that stand for the messages
they count; `box` is what `count_dir()` finds and `new` what has been delivered. A
process is a delivery with the quota of the user's row (Deliver), one through an alias
that reads the quota from maildirsize (Alias), a login (Login) or `setuserquota()`
(SetQuota).

| Actions | Code |
|---|---|
| Stat, Check, Count, Trunc, Write | `recalc_quota()`, `check_quota()`, `count_dir()`; Trunc is the open() with O_TRUNC, Write comes when the lock is there |
| ReadQuota, GaveUp | `read_quota()`, without a lock |
| Over1, Over2, Bounce, Locked, Warned | `user_over_quota()`, `deliver_mail()`, `processMail()`, `Login_Tasks()`, and `MailQuotaWarn()` as far as it calls `recalc_quota()` |
| AppendLine, Create, Link | `update_quota()`, and the message in tmp and new |
| Fail, Crash, Remove, Age | failing calls, killed processes, messages removed, time |

A lock is held for a single write() or a single reading, so lock, write and unlock are
one step. Messages have size 1 (as large as OVERQUOTA_MAILSIZE) or 2, all lines are
equally long, so that an overwritten file has no torn lines, and the Maildir itself is
there. A locked user's mail that bounces (`vdelivermail.c:508`) is not what
BounceJustified speaks of: there the usage is taken from the file.

## 4. The runs

| Run | Instance | Properties |
|---|---|---|
| cluster_repair | two hosts, a tool on each, one user, one fault | TypeOK, LocationBacked, ConfirmedLocated, HomeBacked, OwnerUnregisters, DelResolved hold |
| cluster_stuckadd | the same | AddResolved fails |
| control_pair | two processes with any one edit each of two lines, users/assign with its terminator, one fault | TypeOK, OneEditor, Terminated, EditsAreAtomic hold |
| control_three | three processes, two of them creating the file and adding a line, one fault | FileStays, EveryoneEnds hold |
| control_lock | two additions and a removal, no fault | EffectStays fails |
| dir_layout | three characters, three users to a directory, 140 users | InOrder holds |
| big_pair | two tools at a time, five runs, three users, one fault, two characters | TypeOK, CountBound, RowWellFormed, DirForward hold |
| lookup_serve | two clients, one user, no cache, the daemon stopped or dying once, a client killed | OwnAnswer, FifoGone, Reachable, QueryEnds hold |
| lookup_cache | one client, two users, a tree of one node, a change, a failed connection, a SIGHUP | TypeOK, StatusTrue, RecordTrue, TreeBounded hold |
| domain_ops | two tools, three names, three operations of any kind, one fault, a rcpthosts that is full with one name | TypeOK, AddedStays, DeletedGone, RolledBack hold |
| quota_deliver | a small and a large message to a Maildir with room for two, and a delivery through an alias, a login or a quota change; one fault | TypeOK, HeaderFirst, NoDoubleCount, BounceJustified hold |
| quota_header | a delivery, and one through an alias, no fault | HeaderTrue fails |

What the passing runs show:

- *LocationBacked*: whatever fails, hostcntrl never locates a user on a host that
  has no row for it. *ConfirmedLocated*, *HomeBacked* and *OwnerUnregisters* hold
  until something fails, although two hosts race for the user. *DelResolved*: a
  row left flagged for deletion is removed, unless somebody adds the user there
  again and again for ever.
- *OneEditor* and *EditsAreAtomic* hold for two processes with one edit each and
  not for three (control_lock): the lock file is unlinked before the lock is
  dropped, and it takes a waiter and a newcomer to lock two different inodes.
- *RowWellFormed*: lost updates and repeated writes spoil the count and the order,
  never the row itself. *CountBound* needs tools that do not overlap and no failed
  addition: after a failed one `dec_dir_control()` repeats the first write of the
  process, and the count stays one too high.

- *OwnAnswer*: the name of an answer FIFO has the second of the clock in it because the
  pid alone does not tell a client's second query from the first, which the daemon may
  still be serving. *Reachable* depends on the old instance being gone before the new one
  is started: supervise and the parent of several instances wait for it (Overlap is
  FALSE; section 6 has the case where nobody does). *QueryEnds* holds with nothing assumed of the daemon.
- *StatusTrue* and *RecordTrue* are about the tree; an unreachable database may still make
  a user look absent (section 6).
- *AddedStays*: O_EXCL on .qmail-default is what keeps two additions of one name apart.
  *DeletedGone* and *RolledBack* say in their comments what the code leaves behind all the
  same: a name in morercpthosts, and a link that leads nowhere. The run has 677,346
  distinct states; section 5 has the proof for any number of tools, operations and faults.
- *HeaderFirst* and *NoDoubleCount* hold although the truncation takes no lock, because the
  message is stored after its line is appended and every writer starts at the beginning of
  the file. *BounceJustified* rests on the count that `user_over_quota()` makes before it
  says no.

What the failing runs show:

- cluster_stuckadd: a row that is in hostcntrl but kept ADD_FLAG (the process was
  killed before it reset the flag) keeps it for ever: `cntrl_clearaddflag()` finds
  the user present and returns.
- control_lock: one of three edits is lost though all report success.
- quota_header: `read_quota()` finds maildirsize emptied by another delivery and writes it
  anew without a quota; when all deliveries are over the header says "0S".

### Bounds

`MaxFaults` bounds crashes and failing calls, `MaxRuns` the tools that are started,
`AtATime` how many overlap, `MaxUsers` the additions of the layout. One fault is
enough for every state between two statements to be left behind once, and what a
second fault could add to the safety properties is covered by the proofs.
Two hosts with a tool each are enough for every race on hostcntrl, which is keyed
by user. In control_pair all pairs of operations on equal and on different lines
occur, and initial files without, with one and with both lines. 140 users at three
to a directory and three characters to a level fill all 1 + 3 + 9 + 27 directories
and start the third level again. In big_pair every added user moves the layout on,
so that the second level is opened; the deeper levels are in dir_layout and in the
proof.

`MaxQueries`, `MaxChanges`, `MaxSignals`, `MaxStops` and `MaxKills` bound the lookup
service. Two queries of each of two clients are what it takes for an answer to meet the
wrong query; three queries of one client fill the tree, hit it and reach its limit. The two
runs split the FIFOs from the caches, since the daemon serves one query at a time. In
domain_ops two tools overlap and a third operation comes before, between or after them,
which is enough for an addition, its alias and the removal of either; all names start in
locals, as they do on a host that served them itself (`Locals`), and `MaxRcpt` is 1 for 50,
so that the second domain goes to morercpthosts. In quota_deliver the limit is 2 or 3, so
that the small message fits, the large one fits when the first was removed, and both
overlapping are too much; `MaxLines` is 2 for the 8192 bytes, so that the second message
makes the file long; the third process is of each kind in turn (`Roles`).

### Fairness

- `UserCluster!FairSpec`: weak fairness of the next statement of a running tool
  (processes are scheduled), and strong fairness of starting hostsync on a host,
  as cron starts it again and again whenever it is not running. Nothing obliges
  anybody to add, delete or log in, and faults are never obliged to happen.
- `ControlFile!FairSpec`: weak fairness of each process' step. A process that is
  not blocked goes on; one blocked in fcntl() is enabled when the lock is free, and
  locks are dropped only finitely often here, so weak fairness is enough.
- `Inlookup!Spec`: weak fairness of the steps of a client that has begun a query. It is
  scheduled, and each of its waits has a timeout, after which it goes on whatever the
  daemon does; nothing is assumed of the daemon.

## 5. The proofs

The theorems hold for every value of the constants that satisfies the ASSUMEs of the
module (named in it, and evaluated by TLC in the runs) and the hypotheses listed here:
any number of hosts, users, processes, lines, faults and so on, unless the table says
otherwise.

| Module | Theorem | Says | Hypotheses |
|---|---|---|---|
| UserClusterProofs | TypeCorrect | []TypeOK | |
| | LocationSafe | []LocationBacked | OneToolPerHost |
| | ConfirmedIsLocated | []ConfirmedLocated | OneToolPerHost, no default host |
| | HomesHaveRows | []HomeBacked | the same |
| | DeletesOwnLocation | OwnerUnregisters | the same |
| ControlFileProofs | TypeCorrect | []TypeOK | |
| | FileNeverMissing | FileStays | |
| | LockExcludes | []OneEditor | TwoSingleEdits |
| | StaysTerminated | []Terminated | TwoSingleEdits, the file exists and is Closed, DotApart |
| | Refinement | EditsAreAtomic | TwoSingleEdits, NoCreate, the file exists and is Plain, Unrelated |
| DirLayoutProofs | DirectoriesInOrder | []InOrder | |
| BigDirProofs | TypeCorrect | []TypeOK | |
| | RowStaysWellFormed | []RowWellFormed | |
| | LayoutGoesForward | DirForward | |
| | CountNeverAhead | []CountBound | |
| InlookupProofs | TypeCorrect | []TypeOK | |
| | AnswersAreOwn | []OwnAnswer | |
| | NoFifoLeft | []FifoGone | |
| | DaemonReachable | []Reachable | ~Overlap |
| | TreeKeepsBound | []TreeBounded | |
| | StatusesTrue, RecordsTrue | []StatusTrue, []RecordTrue | ~PasswdCache |
| MaildirQuotaProofs | TypeCorrect | []TypeOK | |
| | HeaderStaysFirst | []HeaderFirst | |
| | CountedOnce | []NoDoubleCount | |
| | BouncesJustified | []BounceJustified | |
| DomainFilesProofs | TypeCorrect | []TypeOK | |
| | AddedStaysHolds | []AddedStays | |
| | DeletedGoneHolds | []DeletedGone | |
| | RolledBackHolds | []RolledBack | |

`DirControlProofs` has no theorem about a specification: it holds the lemmas about
`inc_dir_control()` that DirLayoutProofs and BigDirProofs share.

### The hypotheses

- *OneToolPerHost*: `is_already_running()` is meant to give it for hostsync, and nothing
  gives it for the rest: two tools on one host can delete a row from under each other.
- *No default host* (`DefaultHost = None`): with one, `findhost()` answers for a user
  that hostcntrl does not have, and a deletion takes the answer for a location.
- *TwoSingleEdits*: two processes, one edit each. The run control_lock shows that it
  cannot be dropped: with a third edit the lock excludes nobody.
- *DotApart*, *Unrelated*: no line begins the terminator or the other way round; no line
  begins another. `str_diffn()` takes a line for every line that it begins (section 6).
- *Closed*, *Plain*: the file ends with the terminator and has it nowhere else; it has no
  line twice, of which remove_line() would leave one. *NoCreate*: the edits are of a file
  that exists; `add_domain_assign()` makes a new one without the lock.
- *~Overlap*, *~PasswdCache*: section 6 has what happens without them.

### The inductive invariants

- *LocationSafe*. LocationBacked is not inductive: a tool about to delete the row
  must already have taken the location out, one about to insert the location must
  have a row, hostsync's list may only name rows that are there. `ToolGuards`
  collects this; `LocationInv == LocationBacked /\ ToolGuards` is inductive.
- *ConfirmedIsLocated*, *HomesHaveRows*, *DeletesOwnLocation*. `AgreeInv` says for every
  host what its one tool knows (ToolAgrees), what the rows of each user and hostcntrl look
  like at each statement of the tool (RowsAgree), which of the mail directories the tool
  is about to fill or to remove (HomesBacked), and that a host without a tool has nothing
  half done (Unattended). It holds as long as nothing has failed; a fault ends what the
  properties claim. The other hosts can only take a location that nobody has, which is
  why the race for a user leaves the winner's rows alone.
- *LockExcludes*. The invariant follows the lock inodes: who holds one opened it
  (OwnLock), nobody else holds it (Exclusive), and while the first editor is at work
  the name still points to its inode (SameLock), which is where the two single
  edits are needed.
- *FileNeverMissing*. The only steps that change what the name of the file points to
  are renames of a file that was opened and the creation of users/assign.
- *ControlFileProofs!TypeCorrect*. What a process writes into the second file is made of
  lines and terminators only if what it has read is, and it is at one of its edits
  (Engaged) and has an inode to write to.
- *StaysTerminated*, *Refinement*. `DraftInv` says what the second file contains at each
  call of an edit: nothing, and then the result of update_file() or remove_line() for the
  file as it is *now* (Draft), since the lock keeps the other editor out. So the rename
  installs that result, and the two theorems come down to facts about the two functions:
  they keep a closed file closed (UpdateCloses, RemoveCloses), and they add or remove
  exactly the one line of a plain file. In the refinement a process makes its atomic edit
  with the rename and gives up with the step after which it cannot reach it (Ahead).
- *RowStaysWellFormed*. WellFormed relates characters and indices: equal, but for the
  first round of a level just opened, where the index is one ahead, which is why the
  code asks for both indices before it opens the third level. `inc_dir_control()`
  keeps it (IncWellFormed, from IncDirShape for a row that stays at its level and
  DeepenShape for one that gets another), and so does a change of the count. As a
  process may write its first row again at any time, the inductive invariant RowInv
  says the same of `wrote`.
- *DirectoriesInOrder*. InOrder compares the name of the directory with Nth, which
  divides the number of the directory. `IsNth` says it the other way round: the number is
  what the characters make as digits in the base of the list, after the directories of
  the levels above. `LayoutInv` says that the row is well formed, counts the users there
  are, and names the directory that this count has come to. A step of `inc_dir_control()` is then an addition of one with its carries
  (CarryOne, CarryTwo, CarryAll, from DirControlProofs!IncFollows), and only
  NthName divides, with the fact that quotient and remainder are unique.
- *LayoutGoesForward*, *CountNeverAhead*. `Single` says that while no tools have
  overlapped at most one is at work and has the row as it stands; `CountInv` says how
  the count and the users differ at each of its steps. The first attempt at
  LayoutGoesForward failed for a good reason: DirForward as it was first stated is false
  once the third level is full, when the layout starts it again (which big_pair is too
  small to reach and dir_layout shows); the property now says so.
- *AnswersAreOwn*, *NoFifoLeft*. `Own` follows a query from the queue through the daemon
  to the FIFO: what was sent under a name that its client still waits on is the query the
  client waits for. *DaemonReachable*: the path is there while a daemon runs, and an old
  instance that is still in its handler has no successor (DyingAlone). *TreeKeepsBound*:
  the tree is searched with tsearch only while there is room (TreeRoom).
- *StatusesTrue*, *RecordsTrue*. `Truth` says that every node of the tree, the answer in
  hand and the one in the FIFO are of a row the user has had since the last flush; `good`
  only grows while a query is under way.
- *MaildirQuotaProofs*. `QuotaInv` has what each process knows (Local: where it returns
  to, and that the usage it found when it is about to bounce was that of the Maildir at
  some time since it began), the Maildir (Shared: a message in it belongs to a delivery
  that is past its line), the file (File), and Once: what a process has counted and
  is about to write has no line anywhere but where the new count will be written.
- *DomainFilesProofs!TypeCorrect*. TypeOK does not speak of the programs; `TypeInv` does:
  what a tool has still to do is a sequence of the steps that the code has, each with the
  kind of file and failure that goes with it (`Steps`, StepKinds), and a tool that has
  steps is at an operation. It needs that every program the functions build, also the
  one with a line for each alias (DelProg), the rollbacks and what is left after a jump,
  is such a sequence.
- *AddedStaysHolds*, *DeletedGoneHolds*, *RolledBackHolds* share the invariant `Inv`. Of the
  programs it keeps only the *set* of steps to come (`Pending`), which is easier to follow
  than the sequence, and the few facts about their order that are needed (`Whole`: what a
  failing step jumps over is the compilation of users/assign; `.qmail-default` comes before
  every edit; "failed" is last). For each tool `ToolOK` says that
  - its steps are those of its operation (ProgOK, with StepsOf and RemovalStep: a removal
    edits only its own names and the aliases it strikes off);
  - nobody else is at a domain it removes, unless that is in `mixed` (Alone);
  - of an addition or a new name, every entry that is no longer to be made is there (Made),
    and of several additions of one name only one is beyond `.qmail-default` (Sole: this
    is where O_EXCL is needed);
  - of a removal, every entry that is no longer to be taken out is gone (Undone), or a step
    that may be skipped has failed, which `faults` has counted (Excused).

  For each domain There, Gone and Rolled say what the three properties say, and that the
  tools at the domain can no longer disturb it: no removal at a domain that is there, no
  addition of it beyond `.qmail-default` and, with Free, nobody at one that is gone. The proof
  has three layers: what a step may change of the store (Effect, Footprint), from which the
  other tools and the other domains follow once for all steps (Others, ToldKept, InvFrom);
  the ways in which a tool goes on (Moves for the next step, a jump, inserted steps;
  Redirect for a tool that turns to a removal; Quit for one that ends; BeginInv); and one
  case for each action.

  The first attempt failed for a good reason. The properties were false in longer
  behaviours than the run has, because `told` and `mixed` were too coarse. TLC
  confirmed four of them, each scripted on its own: a deletion fails at the users, the
  name is made an alias and deleted as an alias, and the users of the old domain stay; the
  deletion of an alias takes a re-added domain with it that was still in a list of aliases;
  a directory of which only `.qmail-default` was removed is renamed and reported complete;
  a link that leads nowhere is left by a deletion and leads somewhere again later. The
  definitions now say when a report counts (section 3.5), and section 6 has the behaviours.

### How

Facts about all sequences need induction, and the library's induction theorems cannot be
instantiated by the provers here. Those that `ControlFile` needs, about the positions
that Keep leaves over, go through the least number at which they would fail
(`LeastNumber`, from the well-foundedness of < on Nat, which takes no operator).

### What is only model-checked

- DelResolved, EveryoneEnds and QueryEnds: liveness under fairness is out of reach of
  the prover.
- The three properties of the violation runs, which are false.

## 6. Observed disagreements without a run

Met while modelling. The modules keep the behaviour, the properties make room for it
where they must, and the list says where.

- `iadduser.c:245`: the statement that removes the row of the loser of a race has no
  space before "where"; the row stays, against the comment at `iadduser.c:238`.
- `update_file.c:161`: adding a line overwrites every line that is the first part of it,
  so that example.com.au replaces example.com.
- `vwrite_dir_control.c:65`: the statement is appended to a static buffer, so that
  `vreorg -r` puts all users in one directory, against `vreorg.8:38`.
- `backfill.c:149`, `backfill.c:119`, `GetPrefix.c:73`: entries of the backfill file run
  together for want of a newline; the directory is cut off at the first occurrence of the
  user's name in the path; the prefix grows with every call of a process.
- `ProcessInFifo.c:1373`: the global is_inactive of the last lookup is sent with a record
  from the tree, whoever that lookup was for.
- `sql_getpw.c:120`: userNotFound is reset only here, so that after an absent user a
  failed connection is reported as "no such user" (StatusTrue excepts it).
- `sql_getpw.c:112`: SIGHUP skips one hit of the one-entry cache and does not clear it,
  against `inlookup.9:128`; lookup_cache runs without PASSWD_CACHE.
- `inlookup.c:197`: the parent of several instances passes SIGTERM on and exits without
  waiting for them; when the service is started again at once an old instance may unlink
  the FIFO of a new one, which then serves a FIFO nobody can open (Reachable fails with
  Overlap = TRUE).
- `del_control.c:91`: the name of morercpthosts is put behind a zero byte, so that
  rcpthosts is edited twice and the name stays in morercpthosts.
- `vrenamedomain.c:173`: without .aliasdomains the program returns before
  `del_control()`, and the old name stays in rcpthosts and virtualdomains.
- `is_alias_domain.c:70`: the target of a relative link is looked up in the working
  directory, so that an alias domain is mostly taken for a real one.
- `deldomain.c:293`: a link that leads nowhere is not removed; when its target is added
  again the deleted name leads there (DeletedGone excepts it).
- `deldomain.c:310`: the users of a name that is an alias by now are not deleted. When
  `sql_deldomain()` has failed, and the name is then made an alias and deleted as one, the
  users of the old domain stay (told is then "unlinked").
- `deldomain.c:198`: an alias that is taken for a real domain is not struck off the list of
  its target. When the name is added again as a domain of its own, the deletion of another
  alias of that target (or of the target) takes it out of users/assign and the control
  files; what was reported of it no longer counts.
- `vrenamedomain.c:144`: the directory is renamed whatever is left in it, so that a domain
  whose deletion has failed after .qmail-default was removed can be renamed with success
  (AddedStays speaks of it only if the directory was complete).
- `iadddomain.c:247`: a failure of `add_domain_assign()` or `add_control()` is not taken
  back, and the .qmail-default that is left makes a second attempt fail.
- `update_newu.c:42`: two tools compile users/assign at the same time, and the one that
  read it first may rename its users/cdb over the newer one; the domain is then unknown
  until the next edit. AddedStays speaks of users/assign for this reason.
- `deliver_mail.c:1067`: `MailQuotaWarn()` may recalculate maildirsize after the line of a
  message was appended and before the message is stored, and the message is then counted
  nowhere.
- `user_over_quota.c:154`: a Maildir over its limit of messages is not counted again
  before mail bounces, unlike one over its size.
- `vdelivermail.c:457`: the flag of a user whose quota is not larger than 1024000 is never
  lifted by a delivery.

## 7. Not modelled

See the "components" of `PROJECT.json`. Within the modelled parts: `updusercntrl()`;
the semaphore and link(2) locks of `lockfile.c`, which the configured build does not
use; vreorg without -r, where `backfill()` would wait for the lock that it lost track
of (`backfill.c:140`); several file systems per domain; ETRN and AUTOTURN domains, the
compiled form of morercpthosts and the MCD file; queries of the lookup service other than
the two kinds, and its TCP front end; limits on the number of messages, FAST_QUOTA,
torn lines of maildirsize, delivery to programs and addresses; the text of SQL statements
and messages. The vendored packages, which are most of the lines of the repository, are
other projects' code and stay out.

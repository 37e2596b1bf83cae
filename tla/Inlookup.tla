------------------------------- MODULE Inlookup -------------------------------
(***************************************************************************)
(* The lookup service: the daemon inlookup (inlookup.c, ProcessInFifo.c)   *)
(* and the library function inquery() its clients call (inquery.c).        *)
(*                                                                         *)
(* A client opens the daemon's FIFO, makes a FIFO of its own for the       *)
(* answer, named after its process id and the second of the clock, writes  *)
(* the query in one piece and waits for a length and then for the data,    *)
(* each with a time-out.  The daemon takes one query at a time, opens and  *)
(* unlinks the client's FIFO, looks the user up, through a tree of cached  *)
(* answers when USE_BTREE is set and a one-entry cache of passwd records   *)
(* when PASSWD_CACHE is, and writes the answer.  The tools change the      *)
(* database behind its back; SIGHUP empties the tree.                      *)
(*                                                                         *)
(* What a query is about is abstracted to the user and to the kind of      *)
(* query: "user" is the status of USER_QUERY, kept in the tree whatever it *)
(* is unless it is an error; "pwd" the record of PWD_QUERY, kept only when *)
(* found, and the global is_inactive sent along.  HOST_QUERY and           *)
(* ALIAS_QUERY are kept as "pwd" is; the other kinds are not kept at all.  *)
(***************************************************************************)
EXTENDS Naturals, Sequences, FiniteSets

CONSTANTS
  Clients,       \* processes that call inquery(), one query at a time
  Users,         \* the email addresses asked for
  Passwords,     \* the passwd records a user may have
  Kinds,         \* the kinds of query, a subset of {"user", "pwd"}
  UseBtree,      \* USE_BTREE=1 in the daemon's environment
  PasswdCache,   \* PASSWD_CACHE in the daemon's environment
  MaxBtree,      \* MAX_BTREE_COUNT, 0 for no limit
  Overlap,       \* the service is restarted before the old instance is gone
  MaxQueries,    \* bound on the queries of a client
  MaxChanges,    \* bound on the changes of the database
  MaxFaults,     \* bound on the failures of the database connection
  MaxSignals,    \* bound on SIGHUPs
  MaxStops,      \* bound on the ends of the daemon
  MaxKills       \* bound on the clients that are killed

ASSUME BtreeAssumption == UseBtree \in BOOLEAN /\ MaxBtree \in Nat
ASSUME KindsAssumption == Kinds \subseteq {"user", "pwd"} /\ Kinds # {}
ASSUME DataAssumption == Users # {} /\ "none" \notin Passwords
ASSUME BoundAssumption == MaxQueries \in Nat /\ MaxFaults \in Nat

VARIABLES
  db,        \* the row of each user: status and record
  seen,      \* the rows a user has had since the daemon started or was flushed
  pc, q, sec, num, wgen, path, buf, wend, good, res,   \* the clients
  infifo,    \* does the path of the daemon's FIFO exist
  gen,       \* the FIFO that path leads, or last led, to
  queue,     \* the queries in the daemon's FIFO
  daemon,    \* where the daemon is
  serving,   \* the query it serves and the FIFO it has open
  dying,     \* an instance that got SIGTERM and has not unlinked the path yet
  tree, search_func, pwent, cacheSwitch, userNotFound, is_inactive,
  changes, faults, hups, stops, kills

clientVars == <<pc, q, sec, num, wgen, path, buf, wend, good, res>>
cacheVars  == <<tree, search_func, pwent, cacheSwitch>>
flagVars   == <<userNotFound, is_inactive>>
fifoVars   == <<infifo, gen, queue>>
bounds     == <<changes, faults, hups, stops, kills>>
vars == <<db, seen, clientVars, fifoVars, daemon, serving, dying, cacheVars, flagVars, bounds>>

-----------------------------------------------------------------------------
(* Data *)

Nobody == [st |-> "absent", pass |-> "none"]
Rows   == {Nobody} \cup [st : {"active", "inactive"}, pass : Passwords]
NoAnswer == [st |-> "none", pass |-> "none"]

\* An answer: a status for "user", a status and a record for "pwd".
Answers == [st : {"absent", "active", "inactive", "error", "none"},
            pass : Passwords \cup {"none"}]

Queries == [kind : Kinds, user : Users]

\* A query on its way: the client, the name of its FIFO and what is asked.
Messages == [client : Clients, sec : Nat, q : Queries]

\* What a FIFO of a client holds: nothing, the length, or the whole answer.
Empty == [part |-> "empty"]

\* A node of the tree (INENTRY): in_userStatus, pwStat and in_pw.
NoNode  == [present |-> FALSE, status |-> "none", pass |-> "none"]
NewNode == [NoNode EXCEPT !.present = TRUE]

btree_count == Cardinality({u \in Users : tree[u].present})

NotServing == [client |-> "none", num |-> 0, q |-> "none", answer |-> NoAnswer]

-----------------------------------------------------------------------------
Init ==
  /\ db \in [Users -> Rows]
  /\ seen = [u \in Users |-> {db[u]}]
  /\ pc = [c \in Clients |-> "idle"]
  /\ q = [c \in Clients |-> CHOOSE x \in Queries : TRUE]
  /\ sec = [c \in Clients |-> 0]
  /\ num = [c \in Clients |-> 0]
  /\ wgen = [c \in Clients |-> 0]
  /\ path = [c \in Clients |-> FALSE]
  /\ buf = [c \in Clients |-> Empty]
  /\ wend = [c \in Clients |-> FALSE]
  /\ good = [c \in Clients |-> {}]
  /\ res = [c \in Clients |-> NoAnswer]
  /\ infifo = TRUE
  /\ gen = 1
  /\ queue = <<>>
  /\ daemon = "reading"
  /\ serving = NotServing
  /\ dying = FALSE
  /\ tree = [u \in Users |-> NoNode]
  /\ search_func = "tsearch"
  /\ pwent = [user |-> "none", pass |-> "none"]
  /\ cacheSwitch = TRUE
  /\ userNotFound = FALSE
  /\ is_inactive = FALSE
  /\ changes = 0 /\ faults = 0 /\ hups = 0 /\ stops = 0 /\ kills = 0

-----------------------------------------------------------------------------
(* The clients: inquery() *)

\* Somebody has the FIFO the path leads to open for reading.
HasReader == daemon # "down" \/ dying

\* Mutant of FifoName: the time is left out of the name.
FifoName_PidOnly(c) == 0

\* The name of the answer FIFO is made of the process id and time(0).  The
\* clock is only seen to move when a query times out: queries with no time-out
\* between them are made in the same second and have the same name, which is
\* the worst case.
FifoName(c) == sec[c]

\* The name is chosen, the daemon's FIFO opened without waiting for a reader
\* (an error ends the call), the client's FIFO created and opened for reading.
Open(c, x) ==
  /\ pc[c] = "idle"
  /\ num[c] < MaxQueries
  /\ q' = [q EXCEPT ![c] = x]
  /\ num' = [num EXCEPT ![c] = @ + 1]
  /\ res' = [res EXCEPT ![c] = NoAnswer]
  /\ good' = [good EXCEPT ![c] = seen[x.user]]
  /\ \/ /\ infifo /\ HasReader
        /\ pc' = [pc EXCEPT ![c] = "opened"]
        /\ wgen' = [wgen EXCEPT ![c] = gen]
        /\ path' = [path EXCEPT ![c] = TRUE]
        /\ buf' = [buf EXCEPT ![c] = Empty]
        /\ wend' = [wend EXCEPT ![c] = FALSE]
     \/ /\ ~(infifo /\ HasReader)
        /\ UNCHANGED <<pc, wgen, path, buf, wend>>
  /\ UNCHANGED <<db, seen, sec, fifoVars, daemon, serving, dying, cacheVars, flagVars, bounds>>

\* Mutant of CleanUp: the name is not unlinked.
CleanUp_NoUnlink(c, r) ==
  /\ pc' = [pc EXCEPT ![c] = "idle"]
  /\ buf' = [buf EXCEPT ![c] = Empty]
  /\ wend' = [wend EXCEPT ![c] = FALSE]
  /\ res' = [res EXCEPT ![c] = r]
  /\ UNCHANGED path

\* cleanup(), or close() and unlink() at the end: the client closes its end of
\* the FIFO and unlinks its name.
CleanUp(c, r) ==
  /\ pc' = [pc EXCEPT ![c] = "idle"]
  /\ path' = [path EXCEPT ![c] = FALSE]
  /\ buf' = [buf EXCEPT ![c] = Empty]
  /\ wend' = [wend EXCEPT ![c] = FALSE]
  /\ res' = [res EXCEPT ![c] = r]

\* The query is written at once, it is no longer than PIPE_BUF; or not at all,
\* when nobody reads that FIFO any more or the pipe stays full.
Send(c) ==
  /\ pc[c] = "opened"
  /\ \/ /\ wgen[c] = gen /\ HasReader
        /\ queue' = Append(queue, [client |-> c, sec |-> FifoName(c), q |-> q[c]])
        /\ pc' = [pc EXCEPT ![c] = "waiting"]
        /\ UNCHANGED <<path, buf, wend, res>>
     \/ /\ ~(wgen[c] = gen /\ HasReader)
        /\ CleanUp(c, NoAnswer)
        /\ UNCHANGED queue
  /\ UNCHANGED <<db, seen, q, sec, num, wgen, good, infifo, gen, daemon, serving, dying, cacheVars, flagVars, bounds>>

\* The first timeoutread(): the status itself for "user", the
\* length of the answer for "pwd"; -1, and 0 for "pwd", say that the lookup failed.
ReadInt(c) ==
  /\ pc[c] = "waiting"
  /\ buf[c].part # "empty"
  /\ IF q[c].kind = "pwd" /\ buf[c].answer.st # "error"
       THEN /\ pc' = [pc EXCEPT ![c] = "reading"]
            /\ UNCHANGED <<path, buf, wend, res>>
       ELSE CleanUp(c, buf[c].answer)
  /\ UNCHANGED <<db, seen, q, sec, num, wgen, good, fifoVars, daemon, serving, dying, cacheVars, flagVars, bounds>>

\* The second timeoutread(), and strToPw().
ReadData(c) ==
  /\ pc[c] = "reading"
  /\ buf[c].part = "all"
  /\ CleanUp(c, buf[c].answer)
  /\ UNCHANGED <<db, seen, q, sec, num, wgen, good, fifoVars, daemon, serving, dying, cacheVars, flagVars, bounds>>

\* End of file: the daemon had opened the FIFO and is gone.
ReadEof(c) ==
  /\ \/ pc[c] = "waiting" /\ buf[c].part = "empty"
     \/ pc[c] = "reading" /\ buf[c].part = "int"
  /\ ~path[c] /\ ~wend[c]
  /\ CleanUp(c, NoAnswer)
  /\ UNCHANGED <<db, seen, q, sec, num, wgen, good, fifoVars, daemon, serving, dying, cacheVars, flagVars, bounds>>

\* Mutant of TimeOut: the second read waits for ever.
TimeOut_FirstOnly(c) ==
  /\ pc[c] = "waiting" /\ buf[c].part = "empty"
  /\ CleanUp(c, NoAnswer)
  /\ sec' = [sec EXCEPT ![c] = @ + 1]
  /\ UNCHANGED <<db, seen, q, num, wgen, good, fifoVars, daemon, serving, dying, cacheVars, flagVars, bounds>>

\* No answer within readTimeout seconds: the clock has moved on.
TimeOut(c) ==
  /\ \/ pc[c] = "waiting" /\ buf[c].part = "empty"
     \/ pc[c] = "reading" /\ buf[c].part = "int"
  /\ CleanUp(c, NoAnswer)
  /\ sec' = [sec EXCEPT ![c] = @ + 1]
  /\ UNCHANGED <<db, seen, q, num, wgen, good, fifoVars, daemon, serving, dying, cacheVars, flagVars, bounds>>

\* The client is killed: the kernel closes its ends, the name stays.
Kill(c) ==
  /\ pc[c] \notin {"idle", "killed"}
  /\ kills < MaxKills
  /\ kills' = kills + 1
  /\ pc' = [pc EXCEPT ![c] = "killed"]
  /\ buf' = [buf EXCEPT ![c] = Empty]
  /\ wend' = [wend EXCEPT ![c] = FALSE]
  /\ UNCHANGED <<db, seen, q, sec, num, wgen, path, good, res, fifoVars, daemon, serving, dying, cacheVars, flagVars, changes, faults, hups, stops>>

-----------------------------------------------------------------------------
(* The daemon: ProcessInFifo() *)

\* A query is read and its FIFO opened for writing without waiting: there is
\* none any more, or nobody has it open for reading, and the query is dropped;
\* or it is opened and unlinked.
Take ==
  /\ daemon = "reading"
  /\ queue # <<>>
  /\ LET m == Head(queue)
         c == m.client
         named == path[c] /\ m.sec = FifoName(c)
     IN \/ /\ named /\ pc[c] # "killed"
           /\ daemon' = "lookup"
           /\ serving' = [client |-> c, num |-> num[c], q |-> m.q, answer |-> NoAnswer]
           /\ path' = [path EXCEPT ![c] = FALSE]
           /\ wend' = [wend EXCEPT ![c] = TRUE]
        \/ /\ ~(named /\ pc[c] # "killed")
           /\ path' = [path EXCEPT ![c] = IF named THEN FALSE ELSE @]
           /\ UNCHANGED <<daemon, serving, wend>>
  /\ queue' = Tail(queue)
  /\ UNCHANGED <<db, seen, pc, q, sec, num, wgen, buf, good, res, infifo, gen, dying, cacheVars, flagVars, bounds>>

\* The node of a user: an old one, a new one, or none when the tree is not
\* used or is full (search_func is tfind once MAX_BTREE_COUNT is reached).
HasNode(u) == UseBtree /\ (tree[u].present \/ search_func = "tsearch")

Node(u) == IF tree[u].present THEN tree[u] ELSE NewNode

\* Mutant of SearchFunc: one node too many.
SearchFunc_OneMore(u) ==
  IF HasNode(u) /\ ~tree[u].present /\ MaxBtree > 0 /\ btree_count + 1 > MaxBtree
    THEN "tfind" ELSE search_func

SearchFunc(u) ==
  IF HasNode(u) /\ ~tree[u].present /\ MaxBtree > 0 /\ btree_count + 1 >= MaxBtree
    THEN "tfind" ELSE search_func

\* sql_getpw() finds its user in pwent and leaves the flags as they are.
PwentHit(u) == PasswdCache /\ cacheSwitch /\ pwent.user = u

\* The lookup in the database, when the tree does not have the answer: the
\* record found and what becomes of the globals.  sql_getpw() sets the flags
\* unless pwent has the user.  When findmdahost() cannot connect to the database
\* of the domain, userNotFound is as the query before left it; UserInLookup()
\* then tries again, and clears it when that fails too.
Lookup(u, kind, conn) ==
  CASE conn = "made" /\ PwentHit(u) ->
         [pass |-> pwent.pass, userNotFound |-> userNotFound, is_inactive |-> is_inactive,
          pwent |-> pwent, cacheSwitch |-> cacheSwitch]
    [] conn = "made" /\ ~PwentHit(u) ->
         [pass |-> db[u].pass, userNotFound |-> db[u] = Nobody, is_inactive |-> db[u].st = "inactive",
          pwent |-> IF db[u] = Nobody THEN pwent ELSE [user |-> u, pass |-> db[u].pass],
          cacheSwitch |-> TRUE]
    [] conn # "made" ->
         [pass |-> "none", userNotFound |-> userNotFound /\ (kind # "user" \/ conn = "late"), is_inactive |-> is_inactive,
          pwent |-> pwent, cacheSwitch |-> cacheSwitch]

\* What is known when the tree has the answer: nothing is looked up.
CacheHit(u) ==
  [pass |-> tree[u].pass, userNotFound |-> userNotFound, is_inactive |-> is_inactive,
   pwent |-> pwent, cacheSwitch |-> cacheSwitch]

\* The status made of the record and the flags a lookup leaves.
StatusOf(l) ==
  CASE l.pass # "none" -> IF l.is_inactive THEN "inactive" ELSE "active"
    [] l.pass = "none" /\ l.userNotFound -> "absent"
    [] OTHER -> "error"

\* The lookup done, the node as it is now kept and the answer to be written.
Answered(l, u, node, answer) ==
  /\ tree' = IF HasNode(u) THEN [tree EXCEPT ![u] = node] ELSE tree
  /\ search_func' = SearchFunc(u)
  /\ userNotFound' = l.userNotFound
  /\ is_inactive' = l.is_inactive
  /\ pwent' = l.pwent
  /\ cacheSwitch' = l.cacheSwitch
  /\ serving' = [serving EXCEPT !.answer = answer]
  /\ daemon' = "answer"

\* Mutant of AnswerUser: an error is kept as any other status.
AnswerUser_KeepsError(u, conn) ==
  LET hit    == HasNode(u) /\ Node(u).status # "none"
      l      == IF hit THEN CacheHit(u) ELSE Lookup(u, "user", conn)
      status == IF hit THEN Node(u).status ELSE StatusOf(l)
  IN Answered(l, u, [Node(u) EXCEPT !.status = status], [st |-> status, pass |-> "none"])

\* USER_QUERY: a status in the tree is the answer; else it is looked up and
\* kept, an error as no status.
AnswerUser(u, conn) ==
  LET hit    == HasNode(u) /\ Node(u).status # "none"
      l      == IF hit THEN CacheHit(u) ELSE Lookup(u, "user", conn)
      status == IF hit THEN Node(u).status ELSE StatusOf(l)
      kept   == IF status = "error" THEN "none" ELSE status
  IN Answered(l, u, [Node(u) EXCEPT !.status = kept], [st |-> status, pass |-> "none"])

\* PWD_QUERY: a record in the tree is the answer, is_inactive being whatever it
\* is; else it is looked up and kept when found.
AnswerPwd(u, conn) ==
  LET hit == HasNode(u) /\ Node(u).pass # "none"
      l   == IF hit THEN CacheHit(u) ELSE Lookup(u, "pwd", conn)
  IN Answered(l, u, [Node(u) EXCEPT !.pass = l.pass], [st |-> StatusOf(l), pass |-> l.pass])

\* The query is looked up; the connection to the database of the domain is made
\* at once, at the second attempt or not at all.
LookUp(conn) ==
  /\ daemon = "lookup"
  /\ conn = "made" \/ faults < MaxFaults
  /\ \/ serving.q.kind = "user" /\ AnswerUser(serving.q.user, conn)
     \/ serving.q.kind = "pwd" /\ AnswerPwd(serving.q.user, conn)
  /\ faults' = IF conn = "made" THEN faults ELSE faults + 1
  /\ UNCHANGED <<db, seen, clientVars, fifoVars, dying, changes, hups, stops, kills>>

\* The client still has the FIFO open that the daemon opened.
Listening == pc[serving.client] \notin {"idle", "killed"} /\ num[serving.client] = serving.num

\* timeoutwrite() of the status or of the length; SIGPIPE is ignored, so a
\* client that is gone makes no difference.  The FIFO is closed after it when
\* nothing follows.
WriteInt ==
  /\ daemon = "answer"
  /\ LET c == serving.client
         last == serving.q.kind = "user" \/ serving.answer.st = "error"
     IN /\ IF Listening
             THEN /\ buf' = [buf EXCEPT ![c] = [part |-> "int", q |-> serving.q, answer |-> serving.answer]]
                  /\ wend' = [wend EXCEPT ![c] = ~last]
             ELSE UNCHANGED <<buf, wend>>
        /\ IF last \/ ~Listening
             THEN daemon' = "reading" /\ serving' = NotServing
             ELSE daemon' = "data" /\ UNCHANGED serving
  /\ UNCHANGED <<db, seen, pc, q, sec, num, wgen, path, good, res, fifoVars, dying, cacheVars, flagVars, bounds>>

\* timeoutwrite() of the record, and close().
WriteData ==
  /\ daemon = "data"
  /\ LET c == serving.client
     IN IF Listening
          THEN /\ buf' = [buf EXCEPT ![c].part = "all"]
               /\ wend' = [wend EXCEPT ![c] = FALSE]
          ELSE UNCHANGED <<buf, wend>>
  /\ daemon' = "reading"
  /\ serving' = NotServing
  /\ UNCHANGED <<db, seen, pc, q, sec, num, wgen, path, good, res, fifoVars, dying, cacheVars, flagVars, bounds>>

-----------------------------------------------------------------------------
(* Signals, the end and the start of the daemon *)

\* Mutant of SigHup: the tree is left alone.
SigHup_TreeStays ==
  /\ daemon # "down"
  /\ hups < MaxSignals
  /\ hups' = hups + 1
  /\ cacheSwitch' = FALSE
  /\ seen' = [u \in Users |-> {db[u]}]
  /\ UNCHANGED <<db, clientVars, fifoVars, daemon, serving, dying, tree, search_func, pwent, flagVars, changes, faults, stops, kills>>

\* Mutant of SigHup: the statuses are reset and the records are not.
SigHup_StatusOnly ==
  /\ daemon # "down"
  /\ hups < MaxSignals
  /\ hups' = hups + 1
  /\ tree' = [u \in Users |-> [tree[u] EXCEPT !.status = "none"]]
  /\ cacheSwitch' = FALSE
  /\ seen' = [u \in Users |-> {db[u]}]
  /\ UNCHANGED <<db, clientVars, fifoVars, daemon, serving, dying, search_func, pwent, flagVars, changes, faults, stops, kills>>

\* SIGHUP: the tree is destroyed, the caches of the library are told to skip
\* one hit; search_func stays as it is.
SigHup ==
  /\ daemon # "down"
  /\ hups < MaxSignals
  /\ hups' = hups + 1
  /\ tree' = [u \in Users |-> NoNode]
  /\ cacheSwitch' = FALSE
  /\ seen' = [u \in Users |-> {db[u]}]
  /\ UNCHANGED <<db, clientVars, fifoVars, daemon, serving, dying, search_func, pwent, flagVars, changes, faults, stops, kills>>

\* What is left of the queries in a FIFO that nobody has open for reading:
\* the kernel keeps them while a client has it open for writing.
QueueKept == IF \E c \in Clients : pc[c] = "opened" /\ wgen[c] = gen THEN queue ELSE <<>>

\* The write ends the daemon had open are closed with it.
WriteEndsClosed == wend' = [c \in Clients |-> FALSE]

\* The process ends without its handler: ProcessInFifo() returns because a
\* control file or the central database is out of reach, or it is killed.
Die ==
  /\ daemon # "down"
  /\ stops < MaxStops
  /\ stops' = stops + 1
  /\ daemon' = "down"
  /\ serving' = NotServing
  /\ queue' = IF dying THEN queue ELSE QueueKept
  /\ WriteEndsClosed
  /\ UNCHANGED <<db, seen, pc, q, sec, num, wgen, path, buf, good, res, infifo, gen, dying, cacheVars, flagVars, changes, faults, hups, kills>>

\* SIGTERM, up to close_db() in the handler.
SigTerm ==
  /\ daemon # "down"
  /\ ~dying
  /\ stops < MaxStops
  /\ stops' = stops + 1
  /\ daemon' = "down"
  /\ serving' = NotServing
  /\ dying' = TRUE
  /\ WriteEndsClosed
  /\ UNCHANGED <<db, seen, pc, q, sec, num, wgen, path, buf, good, res, fifoVars, cacheVars, flagVars, changes, faults, hups, kills>>

\* The rest of the handler: the path of the daemon's FIFO is unlinked.
Unlink ==
  /\ dying
  /\ dying' = FALSE
  /\ infifo' = FALSE
  /\ queue' = IF daemon = "down" THEN <<>> ELSE queue
  /\ UNCHANGED <<db, seen, clientVars, gen, daemon, serving, cacheVars, flagVars, bounds>>

\* Mutant of CanStart: nobody waits for the old instance.
CanStart_AtOnce == TRUE

\* The service is started again, by supervise or by the parent of the
\* instances: FifoCreate() makes the FIFO or finds the old one.
CanStart == ~dying \/ Overlap

Start ==
  /\ daemon = "down"
  /\ CanStart
  /\ daemon' = "reading"
  /\ infifo' = TRUE
  /\ gen' = IF infifo THEN gen ELSE gen + 1
  /\ tree' = [u \in Users |-> NoNode]
  /\ search_func' = "tsearch"
  /\ pwent' = [user |-> "none", pass |-> "none"]
  /\ cacheSwitch' = TRUE
  /\ userNotFound' = FALSE
  /\ is_inactive' = FALSE
  /\ seen' = [u \in Users |-> {db[u]}]
  /\ UNCHANGED <<db, clientVars, queue, serving, dying, bounds>>

\* A tool adds, deletes, activates or inactivates a user or changes a record.
Change(u, r) ==
  /\ changes < MaxChanges
  /\ r # db[u]
  /\ changes' = changes + 1
  /\ db' = [db EXCEPT ![u] = r]
  /\ seen' = [seen EXCEPT ![u] = @ \cup {r}]
  /\ good' = [c \in Clients |-> IF pc[c] # "idle" /\ q[c].user = u THEN good[c] \cup {r} ELSE good[c]]
  /\ UNCHANGED <<pc, q, sec, num, wgen, path, buf, wend, res, fifoVars, daemon, serving, dying, cacheVars, flagVars, faults, hups, stops, kills>>

-----------------------------------------------------------------------------
Client(c) ==
  \/ \E x \in Queries : Open(c, x)
  \/ Send(c) \/ ReadInt(c) \/ ReadData(c) \/ ReadEof(c) \/ TimeOut(c)

Daemon ==
  \/ Take
  \/ \E conn \in {"made", "late", "failed"} : LookUp(conn)
  \/ WriteInt \/ WriteData

Environment ==
  \/ SigHup \/ Die \/ SigTerm \/ Unlink \/ Start
  \/ \E c \in Clients : Kill(c)
  \/ \E u \in Users, r \in Rows : Change(u, r)

Next == (\E c \in Clients : Client(c)) \/ Daemon \/ Environment

\* A client that has begun a query goes on: it is scheduled, and each of its
\* waits has a time-out.  Nothing is assumed of the daemon.
Fairness ==
  \A c \in Clients : WF_vars(Send(c) \/ ReadInt(c) \/ ReadData(c) \/ ReadEof(c) \/ TimeOut(c))

Spec == Init /\ [][Next]_vars /\ Fairness

-----------------------------------------------------------------------------
(* Properties *)

\* The variables have their types.
TypeOK ==
  /\ db \in [Users -> Rows]
  /\ seen \in [Users -> SUBSET Rows]
  /\ pc \in [Clients -> {"idle", "opened", "waiting", "reading", "killed"}]
  /\ q \in [Clients -> Queries]
  /\ sec \in [Clients -> Nat] /\ num \in [Clients -> 0..MaxQueries] /\ wgen \in [Clients -> Nat]
  /\ path \in [Clients -> BOOLEAN] /\ wend \in [Clients -> BOOLEAN]
  /\ buf \in [Clients -> {Empty} \cup [part : {"int", "all"}, q : Queries, answer : Answers]]
  /\ good \in [Clients -> SUBSET Rows]
  /\ res \in [Clients -> Answers]
  /\ infifo \in BOOLEAN /\ gen \in Nat /\ queue \in Seq(Messages)
  /\ daemon \in {"down", "reading", "lookup", "answer", "data"}
  /\ dying \in BOOLEAN
  /\ tree \in [Users -> [present : BOOLEAN, status : {"absent", "active", "inactive", "none"},
                         pass : Passwords \cup {"none"}]]
  /\ search_func \in {"tsearch", "tfind"}
  /\ cacheSwitch \in BOOLEAN /\ userNotFound \in BOOLEAN /\ is_inactive \in BOOLEAN

\* inquery.c:136, ProcessInFifo.c:1140: whatever times out, dies or is asked
\* again in between, what a client finds in its FIFO is the answer to the
\* query it is waiting for.
OwnAnswer == \A c \in Clients : buf[c].part # "empty" => buf[c].q = q[c]

\* ProcessInFifo.c:1156: the status a client is given is one the user has had
\* since the last time the cache was emptied before the query, or later (with
\* an unreachable database, which may make a user look absent, excepted).
StatusTrue ==
  \A c \in Clients :
    pc[c] = "idle" /\ q[c].kind = "user" /\ res[c].st \notin {"none", "error"} =>
      \/ \E r \in good[c] : r.st = res[c].st
      \/ res[c].st = "absent" /\ faults > 0

\* ProcessInFifo.c:1326: a passwd record a client is given is one that user
\* has had since then.
RecordTrue ==
  \A c \in Clients :
    pc[c] = "idle" /\ res[c].pass # "none" => \E r \in good[c] : r.pass = res[c].pass

\* ProcessInFifo.c:1173: the tree does not outgrow MAX_BTREE_COUNT, and is not
\* filled again once it has reached it.
TreeBounded == MaxBtree > 0 => btree_count <= MaxBtree

\* inquery.c:56: no FIFO is left behind by a query that is over.
FifoGone == \A c \in Clients : pc[c] = "idle" => ~path[c]

\* ProcessInFifo.c:795: a running daemon can be reached by the path of its FIFO.
Reachable == daemon # "down" => infifo

\* inquery.c:324: a query that has been begun ends, whatever becomes of the daemon.
QueryEnds == \A c \in Clients : pc[c] # "idle" ~> pc[c] \in {"idle", "killed"}
=============================================================================

---------------------------- MODULE InlookupProofs ----------------------------
(***************************************************************************)
(* What holds of the lookup service for any number of clients, users and   *)
(* queries, and for any number of time-outs, killed clients, ends of the   *)
(* daemon, failures of the database and changes made behind its back.      *)
(***************************************************************************)
EXTENDS Inlookup, FiniteSetTheorems, TLAPS

-----------------------------------------------------------------------------
(* Types.  TypeOK leaves out what the daemon is serving.                   *)

Nodes == [present : BOOLEAN, status : {"absent", "active", "inactive", "none"},
          pass : Passwords \cup {"none"}]

\* What the daemon has in hand once it has taken a query, and its counters.
ServingOK ==
  /\ daemon \in {"lookup", "answer", "data"} =>
       /\ serving \in [client : Clients, num : Nat, q : Queries, answer : Answers]
       /\ serving.num <= num[serving.client]
  /\ pwent.pass \in Passwords \cup {"none"}
  /\ faults \in Nat

Types == TypeOK /\ ServingOK

\* The two halves of TypeOK.
Bufs == {Empty} \cup [part : {"int", "all"}, q : Queries, answer : Answers]

ClientTypes ==
  /\ pc \in [Clients -> {"idle", "opened", "waiting", "reading", "killed"}]
  /\ q \in [Clients -> Queries]
  /\ sec \in [Clients -> Nat] /\ num \in [Clients -> 0..MaxQueries] /\ wgen \in [Clients -> Nat]
  /\ path \in [Clients -> BOOLEAN] /\ wend \in [Clients -> BOOLEAN]
  /\ buf \in [Clients -> Bufs]
  /\ good \in [Clients -> SUBSET Rows]
  /\ res \in [Clients -> Answers]

DaemonTypes ==
  /\ db \in [Users -> Rows] /\ seen \in [Users -> SUBSET Rows]
  /\ infifo \in BOOLEAN /\ gen \in Nat /\ queue \in Seq(Messages)
  /\ daemon \in {"down", "reading", "lookup", "answer", "data"}
  /\ dying \in BOOLEAN
  /\ tree \in [Users -> Nodes]
  /\ search_func \in {"tsearch", "tfind"}
  /\ cacheSwitch \in BOOLEAN /\ userNotFound \in BOOLEAN /\ is_inactive \in BOOLEAN

USE DEF clientVars, cacheVars, flagVars, fifoVars, bounds

LEMMA Halves == TypeOK <=> ClientTypes /\ DaemonTypes
BY DEF TypeOK, ClientTypes, DaemonTypes, Bufs, Nodes

LEMMA HalvesNext == TypeOK' <=> ClientTypes' /\ DaemonTypes'
BY DEF TypeOK, ClientTypes, DaemonTypes, Bufs, Nodes

LEMMA BufTypes ==
  /\ Empty \in Bufs /\ Empty.part = "empty"
  /\ \A b \in Bufs : b.part # "empty" => /\ b.q \in Queries /\ b.answer \in Answers
                                          /\ [b EXCEPT !.part = "all"] \in Bufs
                                          /\ [b EXCEPT !.part = "all"].part # "empty"
                                          /\ [b EXCEPT !.part = "all"].q = b.q
                                          /\ [b EXCEPT !.part = "all"].answer = b.answer
  /\ \A x \in Queries, a \in Answers :
       LET b == [part |-> "int", q |-> x, answer |-> a]
       IN b \in Bufs /\ b.part = "int" /\ b.q = x /\ b.answer = a
BY DEF Bufs, Empty

LEMMA DataTypes ==
  /\ Nobody \in Rows /\ NoAnswer \in Answers /\ NoNode \in Nodes /\ NewNode \in Nodes
  /\ NewNode.present = TRUE
  /\ \A r \in Rows : r.st \in {"absent", "active", "inactive"} /\ r.pass \in Passwords \cup {"none"}
  /\ \A r \in Rows : r = Nobody \/ (r.st \in {"active", "inactive"} /\ r.pass \in Passwords)
<1>1. Nobody \in Rows /\ NoAnswer \in Answers
  BY DEF Nobody, Rows, NoAnswer, Answers
<1>2. NoNode \in Nodes /\ NewNode \in Nodes /\ NewNode.present = TRUE
  BY DEF NoNode, NewNode, Nodes
<1>3. \A r \in Rows : r = Nobody \/ (r.st \in {"active", "inactive"} /\ r.pass \in Passwords)
  BY DEF Rows
<1>4. Nobody.st = "absent" /\ Nobody.pass = "none"
  BY DEF Nobody
<1> QED
  BY <1>1, <1>2, <1>3, <1>4

LEMMA QueryTypes ==
  /\ \A x \in Queries : x.kind \in {"user", "pwd"} /\ x.user \in Users
  /\ \E x \in Queries : TRUE
<1>1. PICK k \in Kinds, u \in Users : TRUE
  BY DataAssumption, KindsAssumption
<1>2. [kind |-> k, user |-> u] \in Queries
  BY DEF Queries
<1>3. \A x \in Queries : x.kind \in Kinds /\ x.user \in Users
  BY DEF Queries
<1> QED
  BY <1>2, <1>3, KindsAssumption

LEMMA TypesInit == Init => Types
<1> SUFFICES ASSUME Init PROVE Types
  OBVIOUS
<1>1. (CHOOSE x \in Queries : TRUE) \in Queries
  BY QueryTypes
<1>2. TypeOK
  <2>1. tree \in [Users -> Nodes] /\ res \in [Clients -> Answers]
    BY DataTypes DEF Init
  <2>2. /\ q \in [Clients -> Queries] /\ num \in [Clients -> 0..MaxQueries]
        /\ seen \in [Users -> SUBSET Rows] /\ queue \in Seq(Messages)
    BY <1>1, BoundAssumption DEF Init
  <2> QED
    BY <2>1, <2>2 DEF Init, TypeOK, Nodes
<1>3. ServingOK
  BY DEF Init, ServingOK
<1> QED
  BY <1>2, <1>3 DEF Types

\* What a lookup, in the tree or in the database, leaves.
LookupOK(l) ==
  /\ l.pass \in Passwords \cup {"none"} /\ l.pwent.pass \in Passwords \cup {"none"}
  /\ l.userNotFound \in BOOLEAN /\ l.is_inactive \in BOOLEAN /\ l.cacheSwitch \in BOOLEAN

LEMMA LookupTypes ==
  ASSUME Types, NEW u \in Users, NEW kind, NEW conn
  PROVE  LookupOK(Lookup(u, kind, conn)) /\ LookupOK(CacheHit(u))
<1>1. db[u].pass \in Passwords \cup {"none"}
  BY DataTypes DEF Types, TypeOK
<1>2. LookupOK(CacheHit(u))
  BY DEF Types, TypeOK, ServingOK, CacheHit, LookupOK
<1>3. CASE conn = "made" /\ PwentHit(u)
  <2>1. Lookup(u, kind, conn) =
          [pass |-> pwent.pass, userNotFound |-> userNotFound, is_inactive |-> is_inactive,
           pwent |-> pwent, cacheSwitch |-> cacheSwitch]
    BY <1>3 DEF Lookup
  <2> QED
    BY <2>1, <1>2 DEF Types, TypeOK, ServingOK, LookupOK
<1>4. CASE conn = "made" /\ ~PwentHit(u)
  <2> DEFINE l == Lookup(u, kind, conn)
  <2>1. l.pass = db[u].pass /\ l.cacheSwitch = TRUE
    BY <1>4 DEF Lookup
  <2>2. l.userNotFound = (db[u] = Nobody) /\ l.is_inactive = (db[u].st = "inactive")
    BY <1>4, Zenon DEF Lookup
  <2>3. l.pwent \in {pwent, [user |-> u, pass |-> db[u].pass]}
    BY <1>4 DEF Lookup
  <2>4. l.userNotFound \in BOOLEAN /\ l.is_inactive \in BOOLEAN
    BY <2>2
  <2>5. l.pwent.pass \in Passwords \cup {"none"}
    BY <1>1, <2>3 DEF Types, ServingOK
  <2> QED
    BY <1>1, <1>2, <2>1, <2>4, <2>5 DEF LookupOK
<1>5. CASE conn # "made"
  <2> DEFINE l == Lookup(u, kind, conn)
  <2>1. l.pass = "none" /\ l.is_inactive = is_inactive /\ l.pwent = pwent /\ l.cacheSwitch = cacheSwitch
    BY <1>5 DEF Lookup
  <2>2. l.userNotFound = (userNotFound /\ (kind # "user" \/ conn = "late"))
    BY <1>5, Zenon DEF Lookup
  <2> QED
    BY <1>2, <2>1, <2>2 DEF Types, TypeOK, ServingOK, LookupOK
<1> QED
  BY <1>2, <1>3, <1>4, <1>5

LEMMA StatusTypes ==
  ASSUME NEW l
  PROVE  StatusOf(l) \in {"absent", "active", "inactive", "error"}
BY DEF StatusOf

LEMMA NodeTypes ==
  ASSUME Types, NEW u \in Users
  PROVE  Node(u) \in Nodes /\ Node(u).present
BY DataTypes DEF Types, TypeOK, Node, Nodes

\* LookUp, seen from outside: some lookup l, some node and some answer.
LEMMA LookUpTypes ==
  ASSUME Types, NEW conn, LookUp(conn)
  PROVE  \E l : \E node \in Nodes, answer \in Answers :
           LookupOK(l) /\ node.present /\ Answered(l, serving.q.user, node, answer)
<1> DEFINE u == serving.q.user
<1>1. u \in Users
  BY QueryTypes DEF LookUp, Types, ServingOK
<1>2. Node(u) \in Nodes /\ Node(u).present
  BY <1>1, NodeTypes
<1>3. CASE AnswerUser(u, conn)
  <2> DEFINE hit    == HasNode(u) /\ Node(u).status # "none"
             l      == IF hit THEN CacheHit(u) ELSE Lookup(u, "user", conn)
             status == IF hit THEN Node(u).status ELSE StatusOf(l)
             kept   == IF status = "error" THEN "none" ELSE status
             node   == [Node(u) EXCEPT !.status = kept]
             answer == [st |-> status, pass |-> "none"]
  <2>1. LookupOK(l)
    BY <1>1, LookupTypes
  <2>2. StatusOf(l) \in {"absent", "active", "inactive", "error"}
    BY StatusTypes
  <2>3. status \in {"absent", "active", "inactive", "error", "none"}
    BY <1>2, <2>2 DEF Nodes
  <2>4. kept \in {"absent", "active", "inactive", "none"}
    BY <2>3
  <2>5. node \in Nodes /\ node.present /\ answer \in Answers
    BY <1>2, <2>3, <2>4 DEF Nodes, Answers
  <2>6. Answered(l, u, node, answer)
    BY <1>3 DEF AnswerUser
  <2> HIDE DEF l, node, answer
  <2> QED
    BY <2>1, <2>5, <2>6
<1>4. CASE AnswerPwd(u, conn)
  <2> DEFINE hit    == HasNode(u) /\ Node(u).pass # "none"
             l      == IF hit THEN CacheHit(u) ELSE Lookup(u, "pwd", conn)
             node   == [Node(u) EXCEPT !.pass = l.pass]
             answer == [st |-> StatusOf(l), pass |-> l.pass]
  <2>1. LookupOK(l)
    BY <1>1, LookupTypes
  <2>2. StatusOf(l) \in {"absent", "active", "inactive", "error"}
    BY StatusTypes
  <2>3. node \in Nodes /\ node.present /\ answer \in Answers
    BY <1>2, <2>1, <2>2 DEF Nodes, Answers, LookupOK
  <2>4. Answered(l, u, node, answer)
    BY <1>4 DEF AnswerPwd
  <2> HIDE DEF l, node, answer
  <2> QED
    BY <2>1, <2>3, <2>4
<1> QED
  BY <1>3, <1>4 DEF LookUp

-----------------------------------------------------------------------------
(***************************************************************************)
(* Whose answer it is.  A query in the daemon's FIFO can lead the daemon   *)
(* to the answer FIFO of its client only while the client is waiting for   *)
(* that very query, because a client that gives up takes the name away and *)
(* uses another one; and the daemon has the FIFO of a client open that     *)
(* still listens only if it has that client's query in hand.               *)
(***************************************************************************)

\* Query m on its way may still be matched with the FIFO of its client.
Live(m) == m.sec = sec[m.client]

OwnQueue ==
  /\ \A i \in 1..Len(queue) : Live(queue[i]) =>
       /\ path[queue[i].client] /\ pc[queue[i].client] \in {"waiting", "killed"}
       /\ queue[i].q = q[queue[i].client]
  /\ \A i \in 1..Len(queue) : queue[i].sec <= sec[queue[i].client]
  /\ \A i, j \in 1..Len(queue) :
       i # j /\ Live(queue[i]) /\ Live(queue[j]) => queue[i].client # queue[j].client

\* The daemon is serving the query client c is waiting for.
Served(c) ==
  /\ daemon \in {"lookup", "answer", "data"} /\ serving.client = c /\ serving.num = num[c]
  /\ pc[c] \notin {"idle", "killed"}

OwnServing ==
  \A c \in Clients : Served(c) =>
    /\ serving.q = q[c] /\ ~path[c] /\ pc[c] \in {"waiting", "reading"}
    /\ (daemon = "data") = (buf[c].part # "empty")
    /\ daemon = "data" => serving.q.kind = "pwd" /\ buf[c].answer.st # "error"

OwnClient ==
  \A c \in Clients :
    /\ pc[c] = "opened" => path[c]
    /\ pc[c] = "idle" => ~path[c]
    /\ pc[c] = "reading" => ~path[c]
    /\ buf[c].part # "empty" => /\ buf[c].q = q[c] /\ ~path[c]
                                /\ pc[c] \in {"waiting", "reading"}

Own == OwnQueue /\ OwnServing /\ OwnClient

(* The steps that leave a half alone, or end a query.                      *)
LEMMA ClientsRest ==
  ASSUME ClientTypes, UNCHANGED clientVars
  PROVE  ClientTypes'
BY DEF ClientTypes

LEMMA DaemonRests ==
  ASSUME DaemonTypes, UNCHANGED <<db, seen, fifoVars, daemon, dying, cacheVars, flagVars>>
  PROVE  DaemonTypes'
BY DEF DaemonTypes

LEMMA ServingRests ==
  ASSUME ServingOK, UNCHANGED <<daemon, serving, num, pwent, faults>>
  PROVE  ServingOK'
BY DEF ServingOK

LEMMA CleanUpTypes ==
  ASSUME ClientTypes, NEW c \in Clients, NEW r \in Answers, CleanUp(c, r),
         UNCHANGED <<q, num, wgen, good>>, sec' \in [Clients -> Nat]
  PROVE  ClientTypes'
<1>1. Empty \in Bufs
  BY BufTypes
<1> QED
  BY <1>1 DEF ClientTypes, CleanUp

LEMMA TypesNext == Types /\ Own /\ [Next]_vars => Types'
<1> SUFFICES ASSUME Types, Own, [Next]_vars PROVE Types'
  OBVIOUS
<1>t. ClientTypes /\ DaemonTypes /\ ServingOK
  BY Halves DEF Types
<1>d. Empty \in Bufs /\ NoAnswer \in Answers /\ NoNode \in Nodes
  BY BufTypes, DataTypes
<1>e. <<>> \in Seq(Messages)
  OBVIOUS
<1> DEFINE Next3 == ClientTypes' /\ DaemonTypes' /\ ServingOK'
<1>s. SUFFICES Next3
  BY HalvesNext DEF Types
<1>1. ASSUME NEW c \in Clients, NEW x \in Queries, Open(c, x) PROVE Next3
  <2>1. x.user \in Users
    BY QueryTypes
  <2>2. seen[x.user] \in SUBSET Rows /\ num[c] + 1 \in 0..MaxQueries
    BY <1>t, <1>1, <2>1, BoundAssumption DEF ClientTypes, DaemonTypes, Open
  <2>3. /\ q' \in [Clients -> Queries] /\ num' \in [Clients -> 0..MaxQueries]
        /\ res' \in [Clients -> Answers] /\ good' \in [Clients -> SUBSET Rows]
    BY <1>t, <1>d, <1>1, <2>2 DEF ClientTypes, Open
  <2>4. infifo /\ HasReader => ClientTypes'
    <3> SUFFICES ASSUME infifo, HasReader PROVE ClientTypes'
      OBVIOUS
    <3>1. /\ pc' = [pc EXCEPT ![c] = "opened"] /\ wgen' = [wgen EXCEPT ![c] = gen]
          /\ path' = [path EXCEPT ![c] = TRUE] /\ buf' = [buf EXCEPT ![c] = Empty]
          /\ wend' = [wend EXCEPT ![c] = FALSE] /\ sec' = sec /\ gen \in Nat
      BY <1>t, <1>1 DEF Open, DaemonTypes
    <3> QED
      BY <1>t, <1>d, <2>3, <3>1 DEF ClientTypes
  <2>5. ClientTypes'
    BY <1>t, <1>1, <2>3, <2>4 DEF ClientTypes, Open
  <2>6. ServingOK'
    BY <1>t, <1>1 DEF ServingOK, ClientTypes, Open
  <2> QED
    BY <1>t, <1>1, <2>5, <2>6, DaemonRests DEF Open
<1>2. ASSUME NEW c \in Clients, Send(c) PROVE Next3
  <2>1. [client |-> c, sec |-> FifoName(c), q |-> q[c]] \in Messages
    BY <1>t DEF Messages, FifoName, ClientTypes
  <2>2. CleanUp(c, NoAnswer) => ClientTypes'
    BY <1>t, <1>d, <1>2, CleanUpTypes DEF Send, ClientTypes
  <2>3. ~CleanUp(c, NoAnswer) => ClientTypes'
    BY <1>t, <1>2 DEF Send, ClientTypes
  <2>4. DaemonTypes'
    BY <1>t, <1>2, <2>1 DEF DaemonTypes, Send
  <2>5. ServingOK'
    BY <1>t, <1>2, ServingRests DEF Send
  <2> QED
    BY <2>2, <2>3, <2>4, <2>5
<1>3. ASSUME NEW c \in Clients, ReadInt(c) \/ ReadData(c) PROVE Next3
  <2>1. buf[c].part # "empty" => buf[c].answer \in Answers
    BY <1>t, BufTypes DEF ClientTypes
  <2>2. CleanUp(c, buf[c].answer) => ClientTypes'
    BY <1>t, <1>3, <2>1, CleanUpTypes DEF ReadInt, ReadData, ClientTypes
  <2>3. ~CleanUp(c, buf[c].answer) => ClientTypes'
    BY <1>t, <1>3 DEF ReadInt, ReadData, ClientTypes
  <2>4. DaemonTypes' /\ ServingOK'
    BY <1>t, <1>3, DaemonRests, ServingRests DEF ReadInt, ReadData
  <2> QED
    BY <2>2, <2>3, <2>4
<1>4. ASSUME NEW c \in Clients, ReadEof(c) \/ TimeOut(c) PROVE Next3
  <2>1. ClientTypes'
    BY <1>t, <1>d, <1>4, CleanUpTypes DEF ReadEof, TimeOut, ClientTypes
  <2> QED
    BY <1>t, <1>4, <2>1, DaemonRests, ServingRests DEF ReadEof, TimeOut
<1>5. CASE Take
  <2>1. Head(queue) \in Messages /\ Tail(queue) \in Seq(Messages)
    BY <1>t, <1>5 DEF Take, DaemonTypes
  <2>2. Head(queue).client \in Clients /\ Head(queue).q \in Queries
    BY <2>1 DEF Messages
  <2>3. ClientTypes'
    BY <1>t, <1>5, <2>2 DEF ClientTypes, Take
  <2>4. DaemonTypes'
    BY <1>t, <1>5, <2>1 DEF DaemonTypes, Take
  <2>5. ServingOK'
    <3> DEFINE m == Head(queue)
               s == [client |-> m.client, num |-> num[m.client], q |-> m.q, answer |-> NoAnswer]
    <3>1. num[m.client] \in Nat
      BY <1>t, <2>2, BoundAssumption DEF ClientTypes
    <3>2. /\ s \in [client : Clients, num : Nat, q : Queries, answer : Answers]
          /\ s.num <= num[s.client]
      BY <1>d, <2>2, <3>1
    <3> QED
      BY <1>t, <1>5, <3>2 DEF ServingOK, Take
  <2> QED
    BY <2>3, <2>4, <2>5
<1>6. ASSUME NEW conn, LookUp(conn) PROVE Next3
  <2>1. PICK l : \E node \in Nodes, answer \in Answers :
           LookupOK(l) /\ node.present /\ Answered(l, serving.q.user, node, answer)
    BY <1>6, LookUpTypes
  <2>2. PICK node \in Nodes, answer \in Answers :
           LookupOK(l) /\ node.present /\ Answered(l, serving.q.user, node, answer)
    BY <2>1
  <2>3. search_func' \in {"tsearch", "tfind"} /\ tree' \in [Users -> Nodes]
    BY <1>t, <2>2 DEF Answered, SearchFunc, DaemonTypes
  <2>4. /\ pwent'.pass \in Passwords \cup {"none"} /\ cacheSwitch' \in BOOLEAN
        /\ userNotFound' \in BOOLEAN /\ is_inactive' \in BOOLEAN /\ daemon' = "answer"
    BY <2>2 DEF Answered, LookupOK
  <2>5. DaemonTypes'
    BY <1>t, <1>6, <2>3, <2>4 DEF DaemonTypes, LookUp
  <2>6. ServingOK'
    BY <1>t, <1>6, <2>2, <2>4 DEF ServingOK, LookUp, Answered
  <2> QED
    BY <1>t, <1>6, <2>5, <2>6, ClientsRest DEF LookUp
<1>7. CASE WriteInt
  <2>1. serving.client \in Clients /\ serving.q \in Queries /\ serving.answer \in Answers
    BY <1>t, <1>7 DEF WriteInt, ServingOK
  <2>2. [part |-> "int", q |-> serving.q, answer |-> serving.answer] \in Bufs
    BY <2>1, BufTypes
  <2>3. buf' \in [Clients -> Bufs] /\ wend' \in [Clients -> BOOLEAN]
    BY <1>t, <1>7, <2>1, <2>2 DEF ClientTypes, WriteInt
  <2>4. ClientTypes'
    BY <1>t, <1>7, <2>3 DEF ClientTypes, WriteInt
  <2>5. DaemonTypes' /\ ServingOK'
    BY <1>t, <1>7 DEF DaemonTypes, ServingOK, WriteInt
  <2> QED
    BY <2>4, <2>5
<1>8. CASE WriteData
  <2>1. Listening => [buf[serving.client] EXCEPT !.part = "all"] \in Bufs
    BY <1>t, <1>8, BufTypes DEF ClientTypes, ServingOK, Own, OwnServing, Served, Listening, WriteData
  <2>2. ClientTypes'
    BY <1>t, <1>8, <2>1 DEF ClientTypes, WriteData
  <2>3. DaemonTypes' /\ ServingOK'
    BY <1>t, <1>8 DEF DaemonTypes, ServingOK, WriteData
  <2> QED
    BY <2>2, <2>3
<1>9. CASE SigHup
  <2>1. DaemonTypes'
    BY <1>t, <1>d, <1>9 DEF SigHup, DaemonTypes
  <2> QED
    BY <1>t, <1>9, <2>1, ClientsRest, ServingRests DEF SigHup
<1>10. CASE Unlink
  <2>1. queue' \in {queue, <<>>}
    BY <1>10 DEF Unlink
  <2>2. queue' \in Seq(Messages)
    BY <1>t, <1>e, <2>1, Zenon DEF DaemonTypes
  <2>3. DaemonTypes'
    BY <1>t, <1>10, <2>2 DEF Unlink, DaemonTypes
  <2> QED
    BY <1>t, <1>10, <2>3, ClientsRest, ServingRests DEF Unlink
<1>15. CASE Die \/ SigTerm
  <2>1. ClientTypes'
    BY <1>t, <1>15 DEF Die, SigTerm, WriteEndsClosed, ClientTypes
  <2>2. /\ queue' \in {queue, <<>>} /\ daemon' = "down" /\ dying' \in {dying, TRUE}
        /\ UNCHANGED <<db, seen, infifo, gen, cacheVars, flagVars, faults>>
    BY <1>15 DEF Die, SigTerm, QueueKept
  <2>3. queue' \in Seq(Messages)
    BY <1>t, <1>e, <2>2, Zenon DEF DaemonTypes
  <2>4. DaemonTypes'
    BY <1>t, <2>2, <2>3 DEF DaemonTypes
  <2>5. ServingOK'
    BY <1>t, <2>2 DEF ServingOK
  <2> QED
    BY <2>1, <2>4, <2>5
<1>11. CASE Start
  <2>1. tree' \in [Users -> Nodes] /\ seen' \in [Users -> SUBSET Rows] /\ gen' \in Nat
    BY <1>t, <1>d, <1>11 DEF Start, DaemonTypes
  <2>2. DaemonTypes'
    BY <1>t, <1>11, <2>1 DEF Start, DaemonTypes
  <2>3. ServingOK'
    BY <1>t, <1>11 DEF Start, ServingOK
  <2> QED
    BY <1>t, <1>11, <2>2, <2>3, ClientsRest DEF Start
<1>12. ASSUME NEW c \in Clients, Kill(c) PROVE Next3
  <2>1. ClientTypes'
    BY <1>t, <1>d, <1>12 DEF Kill, ClientTypes
  <2> QED
    BY <1>t, <1>12, <2>1, DaemonRests, ServingRests DEF Kill
<1>13. ASSUME NEW u \in Users, NEW r \in Rows, Change(u, r) PROVE Next3
  <2>1. ClientTypes' /\ DaemonTypes'
    BY <1>t, <1>13 DEF Change, ClientTypes, DaemonTypes
  <2> QED
    BY <1>t, <1>13, <2>1, ServingRests DEF Change
<1>14. CASE UNCHANGED vars
  BY <1>t, <1>14, ClientsRest, DaemonRests, ServingRests DEF vars
<1> HIDE DEF Next3
<1> QED
  BY <1>1, <1>2, <1>3, <1>4, <1>5, <1>6, <1>7, <1>8, <1>9, <1>10, <1>11, <1>12, <1>13, <1>14,
     <1>15
     DEF Next, Client, Daemon, Environment

\* Nothing but client c has changed.
Only(c) ==
  \A d \in Clients \ {c} : /\ sec'[d] = sec[d] /\ path'[d] = path[d] /\ pc'[d] = pc[d]
                            /\ q'[d] = q[d] /\ buf'[d] = buf[d] /\ num'[d] = num[d]

LEMMA QueueTypes ==
  ASSUME Types, NEW i \in 1..Len(queue)
  PROVE  /\ queue[i].client \in Clients /\ queue[i].sec \in Nat /\ queue[i].q \in Queries
         /\ sec[queue[i].client] \in Nat
<1>1. queue[i] \in Messages
  BY DEF Types, TypeOK
<1>2. queue[i].client \in Clients /\ queue[i].sec \in Nat /\ queue[i].q \in Queries
  BY <1>1 DEF Messages
<1> QED
  BY <1>2 DEF Types, TypeOK

\* A step of client c, when no query of it is on its way or it takes a new name.
LEMMA QueueOfOne ==
  ASSUME Types, OwnQueue, NEW c \in Clients, Only(c), UNCHANGED queue,
         \/ sec'[c] = sec[c] + 1
         \/ sec'[c] = sec[c] /\ \A i \in 1..Len(queue) : Live(queue[i]) => queue[i].client # c
  PROVE  OwnQueue'
<1>1. \A i \in 1..Len(queue) :
         /\ queue[i].client \in Clients /\ queue[i].sec \in Nat /\ sec[queue[i].client] \in Nat
  BY QueueTypes
<1>2. sec[c] \in Nat
  BY DEF Types, TypeOK
<1>3. \A i \in 1..Len(queue) : queue[i].sec <= sec'[queue[i].client]
  <2> SUFFICES ASSUME NEW i \in 1..Len(queue) PROVE queue[i].sec <= sec'[queue[i].client]
    OBVIOUS
  <2>1. queue[i].sec <= sec[queue[i].client]
    BY DEF OwnQueue
  <2>2. sec'[queue[i].client] \in {sec[queue[i].client], sec[queue[i].client] + 1}
    BY <1>1 DEF Only
  <2> QED
    BY <1>1, <2>1, <2>2
<1>4. \A i \in 1..Len(queue) : Live(queue[i])' => Live(queue[i]) /\ queue[i].client # c
  BY <1>1, <1>2 DEF OwnQueue, Only, Live
<1>5. \A i \in 1..Len(queue) : Live(queue[i])' =>
         /\ path'[queue[i].client] /\ pc'[queue[i].client] \in {"waiting", "killed"}
         /\ queue[i].q = q'[queue[i].client]
  BY <1>1, <1>4 DEF OwnQueue, Only
<1>6. \A i, j \in 1..Len(queue) :
         i # j /\ Live(queue[i])' /\ Live(queue[j])' => queue[i].client # queue[j].client
  BY <1>4 DEF OwnQueue
<1> QED
  BY <1>3, <1>5, <1>6 DEF OwnQueue, Live

LEMMA QueueRests ==
  ASSUME OwnQueue, UNCHANGED <<queue, sec, path, pc, q>>
  PROVE  OwnQueue'
BY DEF OwnQueue, Live

LEMMA QueueEmptied ==
  ASSUME OwnQueue, queue' = <<>>
  PROVE  OwnQueue'
BY DEF OwnQueue

\* The steps by which a client leaves a query have no effect on the others.
LEMMA CleanUpOnly ==
  ASSUME Types, NEW c \in Clients, NEW r, CleanUp(c, r), UNCHANGED <<q, num>>,
         \A d \in Clients \ {c} : sec'[d] = sec[d]
  PROVE  Only(c) /\ pc'[c] = "idle" /\ ~path'[c] /\ buf'[c] = Empty /\ q'[c] = q[c]
BY DEF Types, TypeOK, CleanUp, Only

\* OwnServing and OwnClient speak of one client at a time.
ServedOwn(c) ==
  Served(c) =>
    /\ serving.q = q[c] /\ ~path[c] /\ pc[c] \in {"waiting", "reading"}
    /\ (daemon = "data") = (buf[c].part # "empty")
    /\ daemon = "data" => serving.q.kind = "pwd" /\ buf[c].answer.st # "error"

ClientOwn(c) ==
  /\ pc[c] = "opened" => path[c]
  /\ pc[c] = "idle" => ~path[c]
  /\ pc[c] = "reading" => ~path[c]
  /\ buf[c].part # "empty" => /\ buf[c].q = q[c] /\ ~path[c]
                              /\ pc[c] \in {"waiting", "reading"}

LEMMA OthersOwn ==
  ASSUME OwnServing, OwnClient, NEW c \in Clients, Only(c), UNCHANGED <<daemon, serving>>,
         ServedOwn(c)', ClientOwn(c)'
  PROVE  OwnServing' /\ OwnClient'
<1>1. ASSUME NEW d \in Clients \ {c} PROVE ServedOwn(d)' /\ ClientOwn(d)'
  BY DEF OwnServing, OwnClient, Only, ServedOwn, ClientOwn, Served
<1>2. \A d \in Clients : ServedOwn(d)' /\ ClientOwn(d)'
  BY <1>1
<1> QED
  BY <1>2 DEF OwnServing, OwnClient, ServedOwn, ClientOwn

\* A client that goes back to idle.
LEMMA IdleOwn ==
  ASSUME Types, Own, NEW c \in Clients, NEW r, CleanUp(c, r), UNCHANGED <<q, num, daemon, serving, queue>>,
         \A d \in Clients \ {c} : sec'[d] = sec[d],
         \/ sec'[c] = sec[c] + 1
         \/ sec'[c] = sec[c] /\ (~path[c] \/ pc[c] = "opened")
  PROVE  Own'
<1>1. Only(c) /\ pc'[c] = "idle" /\ ~path'[c] /\ buf'[c] = Empty
  BY CleanUpOnly
<1>2. ServedOwn(c)' /\ ClientOwn(c)'
  BY <1>1, BufTypes DEF ServedOwn, ClientOwn, Served
<1>3. OwnServing' /\ OwnClient'
  BY <1>1, <1>2, OthersOwn DEF Own
<1>4. ~path[c] \/ pc[c] = "opened" => \A i \in 1..Len(queue) : Live(queue[i]) => queue[i].client # c
  BY DEF Own, OwnQueue
<1>5. OwnQueue'
  BY <1>1, <1>4, QueueOfOne DEF Own
<1> QED
  BY <1>3, <1>5 DEF Own

LEMMA OwnOpen ==
  ASSUME Types, Own, NEW c \in Clients, NEW x \in Queries, Open(c, x)
  PROVE  Own'
<1>1. Only(c) /\ sec'[c] = sec[c] /\ num'[c] = num[c] + 1 /\ num[c] \in Nat
  BY BoundAssumption DEF Types, TypeOK, Open, Only
<1>2. ~path[c] /\ buf[c].part = "empty"
  BY DEF Own, OwnClient, Open
<1>3. /\ pc'[c] = "opened" => path'[c]
      /\ pc'[c] \in {"idle", "opened"} /\ (pc'[c] = "idle" => ~path'[c])
      /\ buf'[c].part = "empty"
  BY <1>2, BufTypes DEF Types, TypeOK, Open
<1>4. ~Served(c)'
  BY <1>1 DEF Served, Types, ServingOK, Open
<1>5. ServedOwn(c)' /\ ClientOwn(c)'
  BY <1>3, <1>4 DEF ServedOwn, ClientOwn
<1>6. OwnServing' /\ OwnClient'
  BY <1>1, <1>5, OthersOwn DEF Own, Open
<1>7. \A i \in 1..Len(queue) : Live(queue[i]) => queue[i].client # c
  BY <1>2 DEF Own, OwnQueue
<1>8. OwnQueue'
  BY <1>1, <1>7, QueueOfOne DEF Own, Open
<1> QED
  BY <1>6, <1>8 DEF Own

LEMMA OwnSend ==
  ASSUME Types, Own, NEW c \in Clients, Send(c)
  PROVE  Own'
<1>1. CASE CleanUp(c, NoAnswer) /\ UNCHANGED queue
  BY <1>1, IdleOwn DEF Send
<1>2. CASE ~(CleanUp(c, NoAnswer) /\ UNCHANGED queue)
  <2> DEFINE m == [client |-> c, sec |-> sec[c], q |-> q[c]]
  <2>1. /\ queue' = Append(queue, m)
        /\ pc' = [pc EXCEPT ![c] = "waiting"] /\ pc[c] = "opened"
        /\ UNCHANGED <<sec, path, q, buf, num, daemon, serving>>
    BY <1>2 DEF Send, FifoName
  <2>2. path[c] /\ buf[c].part = "empty" /\ ~Served(c)
    BY <2>1 DEF Own, OwnClient, OwnServing
  <2>3. pc'[c] = "waiting" /\ Only(c)
    BY <2>1 DEF Types, TypeOK, Only
  <2>4. ServedOwn(c)' /\ ClientOwn(c)'
    BY <2>1, <2>2, <2>3 DEF ServedOwn, ClientOwn, Served
  <2>5. OwnServing' /\ OwnClient'
    BY <2>1, <2>3, <2>4, OthersOwn DEF Own
  <2>6. \A i \in 1..Len(queue) : Live(queue[i]) => queue[i].client # c
    BY <2>1 DEF Own, OwnQueue
  <2>7. /\ Len(queue') = Len(queue) + 1 /\ Len(queue) \in Nat
        /\ \A i \in 1..Len(queue) : queue'[i] = queue[i]
        /\ queue'[Len(queue) + 1] = m
    BY <2>1 DEF Types, TypeOK
  <2>8. m.client = c /\ m.sec = sec[c] /\ m.q = q[c] /\ sec[c] \in Nat
    BY DEF Types, TypeOK
  <2> HIDE DEF m
  <2>9. \A i \in 1..Len(queue) : queue[i].client \in Clients
    BY QueueTypes
  <2>10. ASSUME NEW i \in 1..Len(queue')
         PROVE  /\ Live(queue[i])' =>
                     /\ path'[queue'[i].client] /\ pc'[queue'[i].client] \in {"waiting", "killed"}
                     /\ queue'[i].q = q'[queue'[i].client]
                /\ queue'[i].sec <= sec'[queue'[i].client]
    <3>1. CASE i = Len(queue) + 1
      BY <2>1, <2>2, <2>3, <2>7, <2>8, <3>1
    <3>2. CASE i \in 1..Len(queue)
      BY <2>1, <2>3, <2>6, <2>7, <2>9, <3>2 DEF Own, OwnQueue, Live, Only
    <3> QED
      BY <2>7, <3>1, <3>2
  <2>11. ASSUME NEW i \in 1..Len(queue'), NEW j \in 1..Len(queue'),
                i # j, Live(queue[i])', Live(queue[j])'
         PROVE  queue'[i].client # queue'[j].client
    <3>1. CASE i \in 1..Len(queue) /\ j \in 1..Len(queue)
      BY <2>1, <2>7, <2>11, <3>1 DEF Own, OwnQueue, Live
    <3>2. CASE i = Len(queue) + 1 \/ j = Len(queue) + 1
      BY <2>1, <2>6, <2>7, <2>8, <2>11, <3>2 DEF Live
    <3> QED
      BY <2>7, <3>1, <3>2
  <2>12. OwnQueue'
    BY <2>10, <2>11 DEF OwnQueue
  <2> QED
    BY <2>5, <2>12 DEF Own
<1> QED
  BY <1>1, <1>2

LEMMA OwnRead ==
  ASSUME Types, Own, NEW c \in Clients, ReadInt(c) \/ ReadData(c) \/ ReadEof(c) \/ TimeOut(c)
  PROVE  Own'
<1>1. buf[c].part # "empty" \/ pc[c] = "reading" => ~path[c]
  BY DEF Own, OwnClient
<1>2. sec \in [Clients -> Nat]
  BY DEF Types, TypeOK
<1>3. CASE TimeOut(c)
  BY <1>2, <1>3, IdleOwn DEF TimeOut
<1>4. CASE ReadData(c) \/ ReadEof(c)
  <2>1. ~path[c]
    BY <1>1, <1>4 DEF ReadData, ReadEof
  <2> QED
    BY <1>4, <2>1, IdleOwn DEF ReadData, ReadEof
<1>5. CASE ReadInt(c)
  <2>1. CASE CleanUp(c, buf[c].answer)
    BY <1>1, <1>5, <2>1, IdleOwn DEF ReadInt
  <2>2. CASE ~CleanUp(c, buf[c].answer)
    <3>1. /\ pc' = [pc EXCEPT ![c] = "reading"] /\ pc[c] = "waiting" /\ buf[c].part # "empty"
          /\ UNCHANGED <<sec, path, q, buf, num, queue, daemon, serving>>
      BY <1>5, <2>2 DEF ReadInt
    <3>2. pc'[c] = "reading" /\ Only(c)
      BY <3>1 DEF Types, TypeOK, Only
    <3>3. ServedOwn(c) /\ ClientOwn(c)
      BY DEF Own, OwnServing, OwnClient, ServedOwn, ClientOwn
    <3>4. ServedOwn(c)' /\ ClientOwn(c)'
      BY <1>1, <3>1, <3>2, <3>3 DEF ServedOwn, ClientOwn, Served
    <3>5. OwnServing' /\ OwnClient'
      BY <3>1, <3>2, <3>4, OthersOwn DEF Own
    <3>6. \A i \in 1..Len(queue) : Live(queue[i]) => queue[i].client # c
      BY <1>1, <3>1 DEF Own, OwnQueue
    <3>7. OwnQueue'
      BY <3>1, <3>2, <3>6, QueueOfOne DEF Own
    <3> QED
      BY <3>5, <3>7 DEF Own
  <2> QED
    BY <2>1, <2>2
<1> QED
  BY <1>3, <1>4, <1>5

LEMMA OwnKill ==
  ASSUME Types, Own, NEW c \in Clients, Kill(c)
  PROVE  Own'
<1>1. /\ pc' = [pc EXCEPT ![c] = "killed"] /\ buf' = [buf EXCEPT ![c] = Empty]
      /\ UNCHANGED <<sec, path, q, num, queue, daemon, serving>>
  BY DEF Kill
<1>2. pc'[c] = "killed" /\ buf'[c].part = "empty" /\ Only(c)
  BY <1>1, BufTypes DEF Types, TypeOK, Only
<1>3. ServedOwn(c)' /\ ClientOwn(c)'
  BY <1>2 DEF ServedOwn, ClientOwn, Served
<1>4. OwnServing' /\ OwnClient'
  BY <1>1, <1>2, <1>3, OthersOwn DEF Own
<1>5. \A i \in 1..Len(queue) : queue[i].client \in Clients
  BY QueueTypes
<1>6. \A d \in Clients : pc'[d] = pc[d] \/ pc'[d] = "killed"
  BY <1>2 DEF Only
<1>7. OwnQueue'
  BY <1>1, <1>5, <1>6 DEF Own, OwnQueue, Live
<1> QED
  BY <1>4, <1>7 DEF Own

LEMMA OwnTake ==
  ASSUME Types, Own, Take
  PROVE  Own'
<1> DEFINE m == Head(queue)
           c == m.client
           named == path[c] /\ m.sec = sec[c]
<1>1. /\ Len(queue) \in Nat \ {0} /\ m = queue[1] /\ queue' = Tail(queue)
      /\ Len(queue') = Len(queue) - 1
      /\ \A i \in 1..Len(queue') : queue'[i] = queue[i + 1]
  BY DEF Take, Types, TypeOK
<1>2. m = queue[1] /\ c \in Clients /\ m.q \in Queries /\ num[c] \in Nat
  BY <1>1, QueueTypes, BoundAssumption DEF Types, TypeOK
<1>3. /\ path' = [path EXCEPT ![c] = IF named THEN FALSE ELSE @]
      /\ UNCHANGED <<sec, pc, q, buf, num>>
  BY DEF Take, FifoName
<1>4. /\ named => ~path'[c]
      /\ ~named => path'[c] = path[c]
      /\ \A d \in Clients \ {c} : path'[d] = path[d]
  BY <1>2, <1>3 DEF Types, TypeOK
<1>5. named => Live(m) /\ pc[c] \in {"waiting", "killed"} /\ m.q = q[c]
  BY <1>1, <1>2 DEF Live, Own, OwnQueue
<1>6. OwnClient'
  <2>1. \A d \in Clients : path'[d] => path[d]
    BY <1>4
  <2>2. ~named => path'[c] = path[c]
    BY <1>4
  <2>3. \A d \in Clients : pc[d] = "opened" => path'[d]
    BY <1>4, <1>5, <2>2 DEF Own, OwnClient
  <2> QED
    BY <1>3, <2>1, <2>3 DEF Own, OwnClient
<1>7. OwnServing'
  <2>1. CASE named /\ pc[c] # "killed"
    <3>1. /\ daemon' = "lookup"
          /\ serving' = [client |-> c, num |-> num[c], q |-> m.q, answer |-> NoAnswer]
      BY <2>1 DEF Take, FifoName
    <3>2. ~path'[c] /\ serving'.q = q[c] /\ serving'.client = c
      BY <1>4, <1>5, <2>1, <3>1
    <3>3. buf[c].part = "empty"
      BY <1>2, <2>1 DEF Own, OwnClient
    <3> QED
      BY <1>2, <1>3, <1>5, <2>1, <3>1, <3>2, <3>3 DEF OwnServing, Served
  <2>2. CASE ~(named /\ pc[c] # "killed")
    <3>1. daemon' = "reading"
      BY <2>2 DEF Take, FifoName
    <3> QED
      BY <3>1 DEF OwnServing, Served
  <2> QED
    BY <2>1, <2>2
<1>8. OwnQueue'
  <2>1. \A i \in 1..Len(queue') : /\ i + 1 \in 1..Len(queue) /\ i + 1 # 1
                                   /\ queue'[i] = queue[i + 1] /\ queue[i + 1].client \in Clients
    BY <1>1, QueueTypes
  <2>2. ASSUME NEW i \in 1..Len(queue'), Live(queue[i])'
        PROVE  /\ path'[queue'[i].client] /\ pc'[queue'[i].client] \in {"waiting", "killed"}
               /\ queue'[i].q = q'[queue'[i].client]
    <3>1. Live(queue[i + 1])
      BY <1>3, <2>1, <2>2 DEF Live
    <3>2. /\ path[queue[i + 1].client] /\ pc[queue[i + 1].client] \in {"waiting", "killed"}
          /\ queue[i + 1].q = q[queue[i + 1].client]
      BY <2>1, <3>1 DEF Own, OwnQueue
    <3>3. named => queue[i + 1].client # c
      BY <1>1, <1>2, <1>5, <2>1, <3>1 DEF Own, OwnQueue
    <3> QED
      BY <1>3, <1>4, <2>1, <3>2, <3>3
  <2>3. \A i \in 1..Len(queue') : queue'[i].sec <= sec'[queue'[i].client]
    BY <1>3, <2>1 DEF Own, OwnQueue
  <2>4. ASSUME NEW i \in 1..Len(queue'), NEW j \in 1..Len(queue'),
               i # j, Live(queue[i])', Live(queue[j])'
        PROVE  queue'[i].client # queue'[j].client
    <3>1. Live(queue[i + 1]) /\ Live(queue[j + 1]) /\ i + 1 # j + 1
      BY SMTT(30), <1>3, <2>1, <2>4 DEF Live
    <3>2. i + 1 \in 1..Len(queue) /\ j + 1 \in 1..Len(queue)
      BY <2>1
    <3>3. queue[i + 1].client # queue[j + 1].client
      BY <3>1, <3>2 DEF Own, OwnQueue
    <3> QED
      BY <2>1, <3>3
  <2> QED
    BY <2>2, <2>3, <2>4 DEF OwnQueue
<1> QED
  BY <1>6, <1>7, <1>8 DEF Own

LEMMA OwnWrite ==
  ASSUME Types, Own, WriteInt \/ WriteData
  PROVE  Own'
<1>c. PICK c \in Clients : c = serving.client
  BY DEF WriteInt, WriteData, Types, ServingOK
<1>1. c = serving.client /\ serving.q \in Queries /\ serving.answer \in Answers
  BY <1>c DEF WriteInt, WriteData, Types, ServingOK
<1>2. /\ UNCHANGED <<sec, path, pc, q, num, queue>>
      /\ serving.num \in Nat /\ num[c] \in Nat
  BY <1>1, BoundAssumption DEF WriteInt, WriteData, Types, TypeOK, ServingOK
<1>3. OwnQueue'
  BY <1>2, QueueRests DEF Own
<1>4. Listening => Served(c)
  BY <1>1 DEF WriteInt, WriteData, Listening, Served
<1>5. Listening => /\ serving.q = q[c] /\ ~path[c] /\ pc[c] \in {"waiting", "reading"}
                   /\ daemon = "data" => buf[c].part # "empty" /\ serving.q.kind = "pwd"
                   /\ daemon = "data" => buf[c].answer.st # "error"
  BY <1>1, <1>4 DEF Own, OwnServing
<1>6. \A d \in Clients \ {c} : buf'[d] = buf[d]
  BY <1>1 DEF WriteInt, WriteData, Types, TypeOK
<1>7. CASE WriteInt
  <2> DEFINE new == [part |-> "int", q |-> serving.q, answer |-> serving.answer]
  <2>1. buf'[c] = IF Listening THEN new ELSE buf[c]
    BY <1>1, <1>7 DEF WriteInt, Types, TypeOK
  <2>2. new.part = "int" /\ new.q = serving.q /\ new.answer = serving.answer
    OBVIOUS
  <2>3. OwnClient'
    BY <1>1, <1>2, <1>5, <1>6, <2>1, <2>2 DEF Own, OwnClient
  <2>4. daemon' = "reading" => OwnServing'
    BY DEF OwnServing, Served
  <2>5. ASSUME daemon' # "reading" PROVE OwnServing'
    <3>1. /\ Listening /\ daemon' = "data" /\ serving' = serving
          /\ serving.q.kind # "user" /\ serving.answer.st # "error"
      BY <1>7, <2>5 DEF WriteInt
    <3>2. serving.q.kind = "pwd"
      BY <1>1, <3>1, QueryTypes
    <3> QED
      BY <1>1, <1>2, <1>5, <2>1, <2>2, <3>1, <3>2 DEF OwnServing, Served
  <2> QED
    BY <1>3, <2>3, <2>4, <2>5 DEF Own
<1>8. CASE WriteData
  <2>1. buf'[c] = IF Listening THEN [buf[c] EXCEPT !.part = "all"] ELSE buf[c]
    BY <1>1, <1>8 DEF WriteData, Types, TypeOK
  <2>2. buf[c] \in Bufs
    BY <1>1 DEF Types, TypeOK, Bufs
  <2>3. Listening => buf'[c].part # "empty" /\ buf'[c].q = buf[c].q
    BY <1>5, <1>8, <2>1, <2>2, BufTypes DEF WriteData
  <2>4. OwnClient'
    <3>1. \A d \in Clients \ {c} : ClientOwn(d)'
      BY <1>2, <1>6 DEF Own, OwnClient, ClientOwn
    <3>2. ClientOwn(c)
      BY <1>1 DEF Own, OwnClient, ClientOwn
    <3>3. ClientOwn(c)'
      BY <1>2, <1>5, <1>8, <2>1, <2>3, <3>2 DEF ClientOwn, WriteData
    <3> QED
      BY <3>1, <3>3 DEF OwnClient, ClientOwn
  <2>5. OwnServing'
    BY <1>8 DEF WriteData, OwnServing, Served
  <2> QED
    BY <1>3, <2>4, <2>5 DEF Own
<1> QED
  BY <1>7, <1>8

LEMMA OwnNext == Types /\ Own /\ [Next]_vars => Own'
<1> SUFFICES ASSUME Types, Own, [Next]_vars PROVE Own'
  OBVIOUS
<1>1. ASSUME NEW c \in Clients, Client(c) PROVE Own'
  BY <1>1, OwnOpen, OwnSend, OwnRead DEF Client
<1>2. CASE Take
  BY <1>2, OwnTake
<1>3. ASSUME NEW conn, LookUp(conn) PROVE Own'
  <2>1. /\ UNCHANGED <<sec, path, pc, q, buf, num, queue>> /\ daemon = "lookup" /\ daemon' = "answer"
        /\ \E a : serving' = [serving EXCEPT !.answer = a]
    BY <1>3 DEF LookUp, AnswerUser, AnswerPwd, Answered
  <2>2. serving'.client = serving.client /\ serving'.num = serving.num /\ serving'.q = serving.q
    BY <2>1 DEF Types, ServingOK
  <2>3. OwnServing' /\ OwnClient'
    BY <2>1, <2>2 DEF Own, OwnServing, OwnClient, Served
  <2> QED
    BY <2>1, <2>3, QueueRests DEF Own
<1>4. CASE WriteInt \/ WriteData
  BY <1>4, OwnWrite
<1>5. CASE SigHup \/ Die \/ SigTerm \/ Unlink \/ Start
  <2>1. /\ UNCHANGED <<sec, path, pc, q, buf, num>> /\ queue' \in {queue, <<>>}
        /\ UNCHANGED <<daemon, serving>> \/ daemon' \in {"down", "reading"}
    BY <1>5 DEF SigHup, Die, SigTerm, Unlink, Start, QueueKept
  <2>2. OwnServing' /\ OwnClient'
    BY <2>1 DEF Own, OwnServing, OwnClient, Served
  <2> QED
    BY <2>1, <2>2, QueueRests, QueueEmptied DEF Own
<1>6. ASSUME NEW c \in Clients, Kill(c) PROVE Own'
  BY <1>6, OwnKill
<1>7. CASE UNCHANGED vars \/ \E u \in Users, r \in Rows : Change(u, r)
  <2>1. UNCHANGED <<sec, path, pc, q, buf, num, queue, daemon, serving>>
    BY <1>7 DEF vars, Change
  <2>2. OwnServing' /\ OwnClient'
    BY <2>1 DEF Own, OwnServing, OwnClient, Served
  <2> QED
    BY <2>1, <2>2, QueueRests DEF Own
<1> QED
  BY <1>1, <1>2, <1>3, <1>4, <1>5, <1>6, <1>7 DEF Next, Daemon, Environment

LEMMA OwnInit == Init => Own
<1> SUFFICES ASSUME Init PROVE Own
  OBVIOUS
<1>1. Len(queue) = 0
  BY DEF Init
<1>2. OwnQueue
  BY <1>1 DEF OwnQueue
<1>3. OwnServing
  BY DEF Init, OwnServing, Served
<1>4. OwnClient
  BY BufTypes DEF Init, OwnClient
<1> QED
  BY <1>2, <1>3, <1>4 DEF Own

LEMMA LookupInvariant == Spec => [](Types /\ Own)
<1>1. Init => Types /\ Own
  BY TypesInit, OwnInit
<1>2. (Types /\ Own) /\ [Next]_vars => (Types /\ Own)'
  BY TypesNext, OwnNext
<1> QED
  BY <1>1, <1>2, PTL DEF Spec

\* The variables of the clients and of the daemon keep their types: what the
\* cache keeps is never an error, and no client makes more queries than it may.
THEOREM TypeCorrect == Spec => []TypeOK
<1>1. Types /\ Own => TypeOK
  BY DEF Types
<1> QED
  BY <1>1, LookupInvariant, PTL

\* inquery.c:136, ProcessInFifo.c:1140: however many clients ask, time out, ask
\* again under the same process id or are killed, and however often the daemon
\* goes down, what a client finds in its FIFO answers its own query.
THEOREM AnswersAreOwn == Spec => []OwnAnswer
<1>1. Types /\ Own => OwnAnswer
  BY DEF Own, OwnClient, OwnAnswer
<1> QED
  BY <1>1, LookupInvariant, PTL

\* inquery.c:56: a query that is over has left no FIFO behind, whichever of the
\* client and the daemon unlinked it.
THEOREM NoFifoLeft == Spec => []FifoGone
<1>1. Types /\ Own => FifoGone
  BY DEF Own, OwnClient, FifoGone
<1> QED
  BY <1>1, LookupInvariant, PTL

-----------------------------------------------------------------------------
(***************************************************************************)
(* The path of the daemon's FIFO.  It is unlinked by a handler that is     *)
(* still running only while no daemon runs, because none is started before *)
(* the old one is gone.                                                    *)
(***************************************************************************)

DyingAlone == (daemon # "down" => infifo) /\ (dying => daemon = "down")

\* ProcessInFifo.c:795, inlookup.c:197: when a daemon is not started before the
\* one that got SIGTERM is gone, the path of the FIFO of a running daemon exists.
THEOREM DaemonReachable ==
  ASSUME ~Overlap
  PROVE  Spec => []Reachable
<1>1. Init => DyingAlone
  BY DEF Init, DyingAlone
<1>2. DyingAlone /\ [Next]_vars => DyingAlone'
  <2> SUFFICES ASSUME DyingAlone, [Next]_vars PROVE DyingAlone'
    OBVIOUS
  <2>1. ASSUME NEW c \in Clients, Client(c) PROVE DyingAlone'
    BY <2>1 DEF DyingAlone, Client, Open, Send, ReadInt, ReadData, ReadEof, TimeOut
  <2>2. CASE Daemon
    <3>1. UNCHANGED <<infifo, dying>> /\ daemon # "down"
      BY <2>2 DEF Daemon, Take, LookUp, WriteInt, WriteData
    <3> QED
      BY <3>1 DEF DyingAlone
  <2>3. CASE SigHup \/ Die \/ SigTerm \/ Unlink
    BY <2>3 DEF DyingAlone, SigHup, Die, SigTerm, Unlink
  <2>4. CASE Start
    BY <2>4 DEF DyingAlone, Start, CanStart
  <2>5. ASSUME NEW c \in Clients, Kill(c) PROVE DyingAlone'
    BY <2>5 DEF DyingAlone, Kill
  <2>6. CASE UNCHANGED vars \/ \E u \in Users, r \in Rows : Change(u, r)
    BY <2>6 DEF DyingAlone, Change, vars
  <2> QED
    BY <2>1, <2>2, <2>3, <2>4, <2>5, <2>6 DEF Next, Environment
<1>3. DyingAlone => Reachable
  BY DEF DyingAlone, Reachable
<1> QED
  BY <1>1, <1>2, <1>3, PTL DEF Spec

-----------------------------------------------------------------------------
(***************************************************************************)
(* The size of the tree.  The tree is searched with tsearch, which adds,   *)
(* only while there is room for one more node.                             *)
(***************************************************************************)

InTree == {u \in Users : tree[u].present}

TreeRoom ==
  /\ IsFiniteSet(InTree)
  /\ MaxBtree > 0 =>
       /\ Cardinality(InTree) <= MaxBtree
       /\ search_func = "tsearch" => Cardinality(InTree) < MaxBtree

LEMMA EmptyTree ==
  ASSUME tree = [u \in Users |-> NoNode]
  PROVE  IsFiniteSet(InTree) /\ Cardinality(InTree) = 0
<1>1. InTree = {}
  BY DEF InTree, NoNode
<1> QED
  BY <1>1, FS_EmptySet

LEMMA EmptyTreeNext ==
  ASSUME tree' = [u \in Users |-> NoNode]
  PROVE  IsFiniteSet(InTree') /\ Cardinality(InTree') = 0
<1>1. InTree' = {}
  BY DEF InTree, NoNode
<1> QED
  BY <1>1, FS_EmptySet

LEMMA TreeLookUp ==
  ASSUME Types, TreeRoom, NEW conn, LookUp(conn)
  PROVE  TreeRoom'
<1> DEFINE u == serving.q.user
<1>1. u \in Users
  BY QueryTypes DEF LookUp, Types, ServingOK
<1>2. /\ search_func' = SearchFunc(u)
      /\ \E node : node.present /\ tree' = IF HasNode(u) THEN [tree EXCEPT ![u] = node] ELSE tree
  BY LookUpTypes DEF Answered
<1>3. tree \in [Users -> Nodes] /\ search_func \in {"tsearch", "tfind"} /\ MaxBtree \in Nat
  BY BtreeAssumption DEF Types, TypeOK, Nodes
<1>4. IsFiniteSet(InTree) /\ Cardinality(InTree) \in Nat
  BY FS_CardinalityType DEF TreeRoom
<1>5. tree[u].present <=> u \in InTree
  BY <1>1 DEF InTree
<1>6. CASE ~HasNode(u) \/ u \in InTree
  <2>1. InTree' = InTree
    BY <1>1, <1>2, <1>3, <1>6 DEF InTree
  <2>2. search_func' = search_func
    BY <1>2, <1>5, <1>6 DEF SearchFunc
  <2> QED
    BY <2>1, <2>2 DEF TreeRoom
<1>7. CASE HasNode(u) /\ u \notin InTree
  <2>1. InTree' = InTree \cup {u}
    BY <1>1, <1>2, <1>3, <1>7 DEF InTree
  <2>2. IsFiniteSet(InTree') /\ Cardinality(InTree') = Cardinality(InTree) + 1
    BY <1>4, <1>7, <2>1, FS_AddElement
  <2>3. search_func = "tsearch"
    BY <1>5, <1>7 DEF HasNode
  <2>4. search_func' = IF MaxBtree > 0 /\ Cardinality(InTree) + 1 >= MaxBtree
                         THEN "tfind" ELSE search_func
    BY <1>2, <1>5, <1>7 DEF SearchFunc, btree_count, InTree
  <2> QED
    BY <1>3, <1>4, <2>2, <2>3, <2>4 DEF TreeRoom
<1> QED
  BY <1>6, <1>7

\* ProcessInFifo.c:1173: the tree of cached answers never has more than
\* MAX_BTREE_COUNT nodes, whatever is asked, flushed or fails.
THEOREM TreeKeepsBound == Spec => []TreeBounded
<1>1. Init => TreeRoom
  BY EmptyTree, BtreeAssumption DEF Init, TreeRoom
<1>2. (Types /\ Own) /\ TreeRoom /\ [Next]_vars => TreeRoom'
  <2> SUFFICES ASSUME Types, TreeRoom, [Next]_vars PROVE TreeRoom'
    OBVIOUS
  <2>1. ASSUME UNCHANGED <<tree, search_func>> PROVE TreeRoom'
    BY <2>1 DEF TreeRoom, InTree
  <2>2. ASSUME NEW c \in Clients, Client(c) PROVE TreeRoom'
    BY <2>1, <2>2 DEF Client, Open, Send, ReadInt, ReadData, ReadEof, TimeOut
  <2>3. ASSUME NEW conn, LookUp(conn) PROVE TreeRoom'
    BY <2>3, TreeLookUp
  <2>4. CASE SigHup \/ Start
    <3>1. tree' = [u \in Users |-> NoNode]
      BY <2>4 DEF SigHup, Start
    <3> QED
      BY <3>1, EmptyTreeNext, BtreeAssumption DEF TreeRoom
  <2>5. CASE Take \/ WriteInt \/ WriteData
    BY <2>1, <2>5 DEF Take, WriteInt, WriteData
  <2>6. CASE Die \/ SigTerm \/ Unlink
    BY <2>1, <2>6 DEF Die, SigTerm, Unlink
  <2>7. ASSUME NEW c \in Clients, Kill(c) PROVE TreeRoom'
    BY <2>1, <2>7 DEF Kill
  <2>8. CASE UNCHANGED vars \/ \E u \in Users, r \in Rows : Change(u, r)
    BY <2>1, <2>8 DEF Change, vars
  <2> QED
    BY <2>2, <2>3, <2>4, <2>5, <2>6, <2>7, <2>8 DEF Next, Daemon, Environment
<1>3. TreeRoom => TreeBounded
  BY DEF TreeRoom, TreeBounded, btree_count, InTree
<1> QED
  BY <1>1, <1>2, <1>3, LookupInvariant, PTL DEF Spec

-----------------------------------------------------------------------------
(***************************************************************************)
(* The truth of the answers, when the one-entry cache of the library is    *)
(* not in use.  What the tree keeps of a user is something the user has    *)
(* been since the tree was last emptied; a client that asks may be told    *)
(* any of that and whatever the user becomes while it waits; and an answer *)
(* on its way says no more.                                                *)
(***************************************************************************)

\* Of the rows in R, one has that record, or that status; n failures of the
\* database may have made a user look absent.
HasPass(R, pass) == \E r \in R : r.pass = pass
HasStatus(R, st, n) == (\E r \in R : r.st = st) \/ (st = "absent" /\ n > 0)

\* Answer a to a query of that kind is one of the rows in R.
TrueOf(R, kind, a, n) ==
  /\ a.pass # "none" => HasPass(R, a.pass)
  /\ kind = "user" /\ a.st \notin {"none", "error"} => HasStatus(R, a.st, n)

\* The same of what a node of the tree keeps.
NodeTrue(R, node, n) ==
  /\ node.pass # "none" => HasPass(R, node.pass)
  /\ node.status # "none" => HasStatus(R, node.status, n)

SeenNow == \A u \in Users : db[u] \in seen[u]

KeptTrue == \A u \in Users : NodeTrue(seen[u], tree[u], faults)

ClientTrue(c) ==
  /\ pc[c] # "idle" => seen[q[c].user] \subseteq good[c]
  /\ buf[c].part # "empty" => TrueOf(good[c], q[c].kind, buf[c].answer, faults)
  /\ pc[c] = "idle" => TrueOf(good[c], q[c].kind, res[c], faults)

ServedTrue(c) ==
  Served(c) /\ daemon # "lookup" => TrueOf(good[c], q[c].kind, serving.answer, faults)

Truth == SeenNow /\ KeptTrue /\ \A c \in Clients : ClientTrue(c) /\ ServedTrue(c)

LEMMA TrueGrows ==
  ASSUME NEW R, NEW S, R \subseteq S, NEW n \in Nat, NEW m \in Nat, n <= m
  PROVE  /\ \A kind, a : TrueOf(R, kind, a, n) => TrueOf(S, kind, a, m)
         /\ \A node : NodeTrue(R, node, n) => NodeTrue(S, node, m)
<1>1. \A pass : HasPass(R, pass) => HasPass(S, pass)
  BY DEF HasPass
<1>2. \A st : HasStatus(R, st, n) => HasStatus(S, st, m)
  BY DEF HasStatus
<1> QED
  BY <1>1, <1>2 DEF TrueOf, NodeTrue

LEMMA NothingIsTrue ==
  ASSUME NEW R, NEW n
  PROVE  (\A kind : TrueOf(R, kind, NoAnswer, n)) /\ NodeTrue(R, NoNode, n)
BY DEF TrueOf, NodeTrue, NoAnswer, NoNode

\* A lookup in the database finds the row the user has, or blames a failure.
LEMMA LookupTrue ==
  ASSUME Types, SeenNow, ~PasswdCache, NEW u \in Users, NEW kind, NEW conn,
         NEW n \in Nat, conn # "made" => n > 0
  PROVE  LET l == Lookup(u, kind, conn)
         IN /\ l.pass # "none" => HasPass(seen[u], l.pass)
            /\ StatusOf(l) # "error" => HasStatus(seen[u], StatusOf(l), n)
<1> DEFINE l == Lookup(u, kind, conn)
<1>1. CASE conn = "made"
  <2>1. ~PwentHit(u)
    BY DEF PwentHit
  <2>2. l.pass = db[u].pass
    BY <1>1, <2>1 DEF Lookup
  <2>3. l.userNotFound = (db[u] = Nobody) /\ l.is_inactive = (db[u].st = "inactive")
    BY <1>1, <2>1, Zenon DEF Lookup
  <2>4. db[u] \in seen[u] /\ db[u] \in Rows
    BY DEF SeenNow, Types, TypeOK
  <2>5. Nobody.st = "absent" /\ Nobody.pass = "none"
    BY DEF Nobody
  <2>6. db[u] # Nobody => db[u].st \in {"active", "inactive"} /\ db[u].pass # "none"
    BY <2>4, DataTypes, DataAssumption
  <2> HIDE DEF l
  <2>7. StatusOf(l) = db[u].st
    BY <2>2, <2>3, <2>5, <2>6 DEF StatusOf
  <2>8. /\ l.pass # "none" => HasPass(seen[u], l.pass)
        /\ StatusOf(l) # "error" => HasStatus(seen[u], StatusOf(l), n)
    BY <2>2, <2>4, <2>7 DEF HasPass, HasStatus
  <2> QED
    BY <2>8 DEF l
<1>2. CASE conn # "made"
  <2>1. l.pass = "none"
    BY <1>2 DEF Lookup
  <2> HIDE DEF l
  <2>2. StatusOf(l) \in {"absent", "error"}
    BY <2>1 DEF StatusOf
  <2>3. /\ l.pass # "none" => HasPass(seen[u], l.pass)
        /\ StatusOf(l) # "error" => HasStatus(seen[u], StatusOf(l), n)
    BY <1>2, <2>1, <2>2 DEF HasStatus
  <2> QED
    BY <2>3 DEF l
<1> QED
  BY <1>1, <1>2

\* LookUp: the node kept and the answer given are true of what has been seen.
LEMMA LookUpTrue ==
  ASSUME Types, SeenNow, KeptTrue, ~PasswdCache, NEW conn, LookUp(conn)
  PROVE  \E l : \E node \in Nodes, answer \in Answers :
           /\ NodeTrue(seen[serving.q.user], node, faults')
           /\ TrueOf(seen[serving.q.user], serving.q.kind, answer, faults')
           /\ Answered(l, serving.q.user, node, answer)
<1> DEFINE u == serving.q.user
           n == faults'
<1>1. u \in Users
  BY QueryTypes DEF LookUp, Types, ServingOK
<1>2. Node(u) \in Nodes
  BY <1>1, NodeTypes
<1>3. n \in Nat /\ faults \in Nat /\ faults <= n /\ (conn # "made" => n > 0)
  BY DEF LookUp, Types, ServingOK
<1>4. NodeTrue(seen[u], tree[u], n)
  BY <1>1, <1>3, TrueGrows DEF KeptTrue
<1>5. NodeTrue(seen[u], Node(u), n)
  BY <1>4 DEF Node, NodeTrue, NewNode, NoNode
<1> HIDE DEF n
<1>6. CASE serving.q.kind = "user" /\ AnswerUser(u, conn)
  <2> DEFINE hit    == HasNode(u) /\ Node(u).status # "none"
             l      == IF hit THEN CacheHit(u) ELSE Lookup(u, "user", conn)
             status == IF hit THEN Node(u).status ELSE StatusOf(l)
             kept   == IF status = "error" THEN "none" ELSE status
             node   == [Node(u) EXCEPT !.status = kept]
             answer == [st |-> status, pass |-> "none"]
  <2>2. StatusOf(l) \in {"absent", "active", "inactive", "error"}
    BY StatusTypes
  <2>3. status \in {"absent", "active", "inactive", "error", "none"}
    BY <1>2, <2>2 DEF Nodes
  <2>4. kept \in {"absent", "active", "inactive", "none"}
    BY <2>3
  <2>5. node \in Nodes /\ answer \in Answers /\ node.pass = Node(u).pass /\ node.status = kept
        /\ answer.st = status /\ answer.pass = "none"
    BY <1>2, <2>3, <2>4 DEF Nodes, Answers
  <2>6. Answered(l, u, node, answer)
    BY <1>6 DEF AnswerUser
  <2>7. status \notin {"none", "error"} => HasStatus(seen[u], status, n)
    <3>1. hit => (status # "none" => HasStatus(seen[u], status, n))
      BY <1>5 DEF NodeTrue
    <3>2. ~hit => (status # "error" => HasStatus(seen[u], status, n))
      BY <1>1, <1>3, LookupTrue
    <3> QED
      BY <3>1, <3>2
  <2> HIDE DEF l, node, answer, status
  <2>8. NodeTrue(seen[u], node, n)
    BY <1>5, <2>5, <2>7 DEF NodeTrue
  <2>9. TrueOf(seen[u], serving.q.kind, answer, n)
    BY <2>5, <2>7 DEF TrueOf
  <2> QED
    BY <2>5, <2>6, <2>8, <2>9 DEF n
<1>7. CASE serving.q.kind = "pwd" /\ AnswerPwd(u, conn)
  <2> DEFINE hit    == HasNode(u) /\ Node(u).pass # "none"
             l      == IF hit THEN CacheHit(u) ELSE Lookup(u, "pwd", conn)
             node   == [Node(u) EXCEPT !.pass = l.pass]
             answer == [st |-> StatusOf(l), pass |-> l.pass]
  <2>1. LookupOK(l)
    BY <1>1, LookupTypes
  <2>2. StatusOf(l) \in {"absent", "active", "inactive", "error"}
    BY StatusTypes
  <2>3. node \in Nodes /\ answer \in Answers /\ node.pass = l.pass /\ node.status = Node(u).status
        /\ answer.pass = l.pass
    BY <1>2, <2>1, <2>2 DEF Nodes, Answers, LookupOK
  <2>4. Answered(l, u, node, answer)
    BY <1>7 DEF AnswerPwd
  <2>5. l.pass # "none" => HasPass(seen[u], l.pass)
    <3>1. hit => l.pass = tree[u].pass
      BY DEF CacheHit
    <3>2. hit => (l.pass # "none" => HasPass(seen[u], l.pass))
      BY <1>4, <3>1 DEF NodeTrue
    <3>3. ~hit => (l.pass # "none" => HasPass(seen[u], l.pass))
      BY <1>1, <1>3, LookupTrue
    <3> QED
      BY <3>2, <3>3
  <2> HIDE DEF l, node, answer
  <2>6. NodeTrue(seen[u], node, n)
    BY <1>5, <2>3, <2>5 DEF NodeTrue
  <2>7. TrueOf(seen[u], serving.q.kind, answer, n)
    BY <1>7, <2>3, <2>5 DEF TrueOf
  <2> QED
    BY <2>3, <2>4, <2>6, <2>7 DEF n
<1> QED
  BY <1>6, <1>7 DEF LookUp

(* What is true of a client stays true while nothing but the rows it may   *)
(* be told of grows.                                                       *)
LEMMA ClientKeeps ==
  ASSUME NEW c \in Clients, ClientTrue(c),
         pc'[c] = pc[c], q'[c] = q[c], buf'[c] = buf[c], res'[c] = res[c],
         good[c] \subseteq good'[c], faults \in Nat, faults' \in Nat, faults <= faults',
         pc[c] # "idle" => seen'[q[c].user] \subseteq good'[c]
  PROVE  ClientTrue(c)'
<1>1. \A kind, a : TrueOf(good[c], kind, a, faults) => TrueOf(good'[c], kind, a, faults')
  BY TrueGrows
<1> QED
  BY <1>1 DEF ClientTrue

LEMMA ServedKeeps ==
  ASSUME NEW c \in Clients, ServedTrue(c), Served(c)' => Served(c),
         q'[c] = q[c], good[c] \subseteq good'[c], UNCHANGED <<daemon, serving, faults>>,
         faults \in Nat
  PROVE  ServedTrue(c)'
<1>1. \A kind, a : TrueOf(good[c], kind, a, faults) => TrueOf(good'[c], kind, a, faults)
  BY TrueGrows
<1> QED
  BY <1>1 DEF ServedTrue

\* A step of client c: what is seen and kept stays, and so do the others.
LEMMA OneClient ==
  ASSUME Types, Truth, NEW c \in Clients,
         UNCHANGED <<db, seen, tree, faults, daemon, serving>>,
         \A d \in Clients \ {c} : /\ pc'[d] = pc[d] /\ q'[d] = q[d] /\ buf'[d] = buf[d]
                                  /\ res'[d] = res[d] /\ good'[d] = good[d] /\ num'[d] = num[d],
         ClientTrue(c)', ServedTrue(c)'
  PROVE  Truth'
<1>1. faults \in Nat
  BY DEF Types, ServingOK
<1>2. SeenNow' /\ KeptTrue'
  BY DEF Truth, SeenNow, KeptTrue
<1>3. ASSUME NEW d \in Clients \ {c} PROVE ClientTrue(d)' /\ ServedTrue(d)'
  <2>1. ClientTrue(d) /\ ServedTrue(d)
    BY DEF Truth
  <2> QED
    BY <2>1 DEF ClientTrue, ServedTrue, Served
<1> QED
  BY <1>2, <1>3 DEF Truth

\* A client goes back to idle with an answer that is true.
LEMMA CleanUpTrue ==
  ASSUME Types, Truth, NEW c \in Clients, NEW r, CleanUp(c, r),
         TrueOf(good[c], q[c].kind, r, faults),
         UNCHANGED <<db, seen, tree, faults, daemon, serving, q, num, good>>
  PROVE  Truth'
<1>1. pc'[c] = "idle" /\ buf'[c] = Empty /\ res'[c] = r
  BY DEF CleanUp, Types, TypeOK
<1>2. ClientTrue(c)'
  BY <1>1, BufTypes DEF ClientTrue
<1>3. ServedTrue(c)'
  BY <1>1 DEF ServedTrue, Served
<1>4. \A d \in Clients \ {c} : pc'[d] = pc[d] /\ buf'[d] = buf[d] /\ res'[d] = res[d]
  BY DEF CleanUp, Types, TypeOK
<1> QED
  BY <1>2, <1>3, <1>4, OneClient

LEMMA TruthClient ==
  ASSUME Types, Own, Truth, NEW c \in Clients, Client(c)
  PROVE  Truth'
<1>1. ASSUME NEW x \in Queries, Open(c, x) PROVE Truth'
  <2>1. /\ num'[c] = num[c] + 1 /\ num[c] \in Nat /\ res'[c] = NoAnswer /\ good'[c] = seen[x.user]
        /\ q'[c] = x /\ buf'[c] \in {buf[c], Empty}
    BY <1>1, BoundAssumption DEF Open, Types, TypeOK
  <2>2. buf[c].part = "empty"
    BY <1>1 DEF Own, OwnClient, Open
  <2>3. ClientTrue(c)'
    <3>1. buf'[c].part = "empty" /\ seen' = seen
      BY <1>1, <2>1, <2>2, BufTypes DEF Open
    <3>2. TrueOf(good'[c], q'[c].kind, res'[c], faults')
      BY <2>1, NothingIsTrue
    <3> QED
      BY <2>1, <3>1, <3>2 DEF ClientTrue
  <2>4. ~Served(c)'
    BY <1>1, <2>1 DEF Served, Types, ServingOK, Open
  <2>5. \A d \in Clients \ {c} : /\ pc'[d] = pc[d] /\ q'[d] = q[d] /\ buf'[d] = buf[d]
                                 /\ res'[d] = res[d] /\ good'[d] = good[d] /\ num'[d] = num[d]
    BY <1>1 DEF Open, Types, TypeOK
  <2> QED
    BY <1>1, <2>3, <2>4, <2>5, OneClient DEF ServedTrue, Open
<1>2. ASSUME Send(c) PROVE Truth'
  <2>1. CASE CleanUp(c, NoAnswer)
    BY <1>2, <2>1, CleanUpTrue, NothingIsTrue DEF Send
  <2>2. CASE ~CleanUp(c, NoAnswer)
    <3>1. /\ pc' = [pc EXCEPT ![c] = "waiting"] /\ pc[c] = "opened"
          /\ UNCHANGED <<buf, res, db, seen, q, num, good, tree, daemon, serving, faults>>
      BY <1>2, <2>2 DEF Send
    <3>2. pc'[c] = "waiting" /\ \A d \in Clients \ {c} : pc'[d] = pc[d]
      BY <3>1 DEF Types, TypeOK
    <3>3. ~Served(c)
      BY <3>1 DEF Own, OwnServing
    <3>4. ClientTrue(c)' /\ ServedTrue(c)'
      BY <3>1, <3>2, <3>3 DEF Truth, ClientTrue, ServedTrue, Served
    <3> QED
      BY <3>1, <3>2, <3>4, OneClient
  <2> QED
    BY <2>1, <2>2
<1>3. ASSUME ReadInt(c) \/ ReadData(c) PROVE Truth'
  <2>1. buf[c].part # "empty"
    BY <1>3 DEF ReadInt, ReadData
  <2>2. TrueOf(good[c], q[c].kind, buf[c].answer, faults)
    BY <2>1 DEF Truth, ClientTrue
  <2>3. CASE CleanUp(c, buf[c].answer)
    BY <1>3, <2>2, <2>3, CleanUpTrue DEF ReadInt, ReadData
  <2>4. CASE ~CleanUp(c, buf[c].answer)
    <3>1. /\ pc' = [pc EXCEPT ![c] = "reading"] /\ pc[c] = "waiting"
          /\ UNCHANGED <<buf, res, db, seen, q, num, good, tree, daemon, serving, faults>>
      BY <1>3, <2>4 DEF ReadInt, ReadData
    <3>2. pc'[c] = "reading" /\ \A d \in Clients \ {c} : pc'[d] = pc[d]
      BY <3>1 DEF Types, TypeOK
    <3>3. ClientTrue(c)' /\ ServedTrue(c)'
      BY <3>1, <3>2 DEF Truth, ClientTrue, ServedTrue, Served
    <3> QED
      BY <3>1, <3>2, <3>3, OneClient
  <2> QED
    BY <2>3, <2>4
<1>4. ASSUME ReadEof(c) \/ TimeOut(c) PROVE Truth'
  BY <1>4, CleanUpTrue, NothingIsTrue DEF ReadEof, TimeOut
<1> QED
  BY <1>1, <1>2, <1>3, <1>4 DEF Client

LEMMA TruthKill ==
  ASSUME Types, Truth, NEW c \in Clients, Kill(c)
  PROVE  Truth'
<1>1. /\ pc[c] # "idle" /\ pc'[c] = "killed" /\ buf'[c] = Empty
      /\ \A d \in Clients \ {c} : pc'[d] = pc[d] /\ buf'[d] = buf[d]
      /\ UNCHANGED <<db, seen, tree, faults, daemon, serving, q, num, good, res>>
  BY DEF Kill, Types, TypeOK
<1>2. ClientTrue(c)' /\ ServedTrue(c)'
  BY <1>1, BufTypes DEF Truth, ClientTrue, ServedTrue, Served
<1> QED
  BY <1>1, <1>2, OneClient

LEMMA TruthDaemon ==
  ASSUME Types, Own, Truth, ~PasswdCache, Daemon
  PROVE  Truth'
<1>f. faults \in Nat
  BY DEF Types, ServingOK
<1>1. ASSUME Take PROVE Truth'
  <2>1. /\ UNCHANGED <<db, seen, tree, faults, pc, q, buf, good, res>>
        /\ daemon' \in {"lookup", "reading"}
    BY <1>1 DEF Take
  <2>2. SeenNow' /\ KeptTrue'
    BY <2>1 DEF Truth, SeenNow, KeptTrue
  <2>3. \A c \in Clients : ClientTrue(c)' /\ ServedTrue(c)'
    BY <2>1 DEF Truth, ClientTrue, ServedTrue, Served
  <2> QED
    BY <2>2, <2>3 DEF Truth
<1>2. ASSUME NEW conn, LookUp(conn) PROVE Truth'
  <2> DEFINE u == serving.q.user
  <2>1. PICK l : \E node \in Nodes, answer \in Answers :
           /\ NodeTrue(seen[u], node, faults')
           /\ TrueOf(seen[u], serving.q.kind, answer, faults')
           /\ Answered(l, u, node, answer)
    BY <1>2, LookUpTrue DEF Truth
  <2>2. PICK node \in Nodes, answer \in Answers :
           /\ NodeTrue(seen[u], node, faults')
           /\ TrueOf(seen[u], serving.q.kind, answer, faults')
           /\ Answered(l, u, node, answer)
    BY <2>1
  <2>3. /\ UNCHANGED <<db, seen, pc, q, num, buf, good, res>> /\ daemon = "lookup"
        /\ faults' \in Nat /\ faults <= faults'
    BY <1>f, <1>2 DEF LookUp
  <2>4. /\ tree' = IF HasNode(u) THEN [tree EXCEPT ![u] = node] ELSE tree
        /\ serving' = [serving EXCEPT !.answer = answer]
    BY <2>2 DEF Answered
  <2>5. /\ serving'.q = serving.q /\ serving'.client = serving.client /\ serving'.num = serving.num
        /\ serving'.answer = answer
    BY <2>3, <2>4 DEF Types, ServingOK
  <2>6. KeptTrue'
    <3>1. ASSUME NEW v \in Users PROVE NodeTrue(seen[v], tree'[v], faults')
      <4>1. NodeTrue(seen[v], tree[v], faults')
        BY <1>f, <2>3, TrueGrows DEF Truth, KeptTrue
      <4>2. tree'[v] = tree[v] \/ (v = u /\ tree'[v] = node)
        BY <2>4 DEF Types, TypeOK
      <4> QED
        BY <2>2, <4>1, <4>2
    <3> QED
      BY <2>3, <3>1 DEF KeptTrue
  <2>7. ASSUME NEW c \in Clients PROVE ClientTrue(c)' /\ ServedTrue(c)'
    <3>1. ClientTrue(c)
      BY DEF Truth
    <3>2. ClientTrue(c)'
      BY <1>f, <2>3, <3>1, ClientKeeps DEF ClientTrue
    <3>3. Served(c)' => Served(c)
      BY <2>3, <2>5 DEF Served
    <3>4. Served(c) => serving.q = q[c] /\ pc[c] # "idle"
      BY DEF Own, OwnServing, Served
    <3>5. Served(c) => TrueOf(good[c], q[c].kind, answer, faults')
      <4> SUFFICES ASSUME Served(c) PROVE TrueOf(good[c], q[c].kind, answer, faults')
        OBVIOUS
      <4>1. TrueOf(seen[u], q[c].kind, answer, faults')
        BY <2>2, <3>4
      <4>2. seen[u] \subseteq good[c]
        BY <3>1, <3>4 DEF ClientTrue
      <4>3. faults' \in Nat /\ faults' <= faults'
        BY <2>3
      <4> QED
        BY <4>1, <4>2, <4>3, TrueGrows
    <3>6. ServedTrue(c)'
      BY <2>3, <2>5, <3>3, <3>5 DEF ServedTrue
    <3> QED
      BY <3>2, <3>6
  <2>8. SeenNow'
    BY <2>3 DEF Truth, SeenNow
  <2> QED
    BY <2>6, <2>7, <2>8 DEF Truth
<1>3. ASSUME WriteInt \/ WriteData PROVE Truth'
  <2>c. PICK c \in Clients : c = serving.client
    BY <1>3 DEF WriteInt, WriteData, Types, ServingOK
  <2>1. /\ UNCHANGED <<db, seen, tree, faults, pc, q, num, good, res>>
        /\ \/ UNCHANGED serving /\ daemon' = "data"
           \/ daemon' = "reading"
        /\ \A d \in Clients \ {c} : buf'[d] = buf[d]
    BY <1>3, <2>c DEF WriteInt, WriteData, Types, TypeOK
  <2>2. Listening => Served(c)
    BY <1>3, <2>c DEF WriteInt, WriteData, Listening, Served
  <2>3. SeenNow' /\ KeptTrue'
    BY <2>1 DEF Truth, SeenNow, KeptTrue
  <2>4. \A d \in Clients : ServedTrue(d)'
    <3>1. CASE daemon' = "reading"
      BY <3>1 DEF ServedTrue, Served
    <3>2. CASE daemon' # "reading"
      <4>1. daemon = "answer" /\ daemon' = "data" /\ serving' = serving
        BY <1>3, <3>2 DEF WriteInt, WriteData
      <4> QED
        BY <2>1, <4>1 DEF Truth, ServedTrue, Served
    <3> QED
      BY <3>1, <3>2
  <2>5. \A d \in Clients \ {c} : ClientTrue(d)'
    BY <2>1 DEF Truth, ClientTrue
  <2>6. buf'[c] = buf[c] \/ (buf'[c].part # "empty" => TrueOf(good[c], q[c].kind, buf'[c].answer, faults))
    <3>1. CASE WriteInt
      <4>1. Listening => buf'[c] = [part |-> "int", q |-> serving.q, answer |-> serving.answer]
        BY <2>c, <3>1 DEF WriteInt, Types, TypeOK
      <4>2. Listening => buf'[c].answer = serving.answer
        BY <4>1
      <4>3. Listening => TrueOf(good[c], q[c].kind, serving.answer, faults)
        BY <2>2, <3>1 DEF Truth, ServedTrue, WriteInt
      <4>4. ~Listening => buf'[c] = buf[c]
        BY <3>1 DEF WriteInt
      <4> QED
        BY <4>2, <4>3, <4>4
    <3>2. CASE WriteData
      <4>1. Listening => buf'[c] = [buf[c] EXCEPT !.part = "all"]
        BY <2>c, <3>2 DEF WriteData, Types, TypeOK
      <4>2. buf[c] \in Bufs
        BY DEF Types, TypeOK, Bufs
      <4>3. Listening => buf[c].part # "empty"
        BY <2>2, <3>2 DEF Own, OwnServing, WriteData
      <4>4. Listening => buf'[c].answer = buf[c].answer
        <5> SUFFICES ASSUME Listening PROVE buf'[c].answer = buf[c].answer
          OBVIOUS
        <5>1. [buf[c] EXCEPT !.part = "all"].answer = buf[c].answer
          BY <4>2, <4>3, BufTypes
        <5> QED
          BY <4>1, <5>1
      <4>5. Listening => TrueOf(good[c], q[c].kind, buf[c].answer, faults)
        BY <4>3 DEF Truth, ClientTrue
      <4>6. ~Listening => buf'[c] = buf[c]
        BY <3>2 DEF WriteData
      <4> QED
        BY <4>4, <4>5, <4>6
    <3> QED
      BY <1>3, <3>1, <3>2
  <2>7. ClientTrue(c)'
    <3>1. ClientTrue(c)
      BY DEF Truth
    <3> QED
      BY <2>1, <2>6, <3>1 DEF ClientTrue
  <2> QED
    BY <2>3, <2>4, <2>5, <2>7 DEF Truth
<1> QED
  BY <1>1, <1>2, <1>3 DEF Daemon

LEMMA TruthEnvironment ==
  ASSUME Types, Truth, Environment
  PROVE  Truth'
<1>f. faults \in Nat
  BY DEF Types, ServingOK
<1>1. ASSUME SigHup \/ Start PROVE Truth'
  <2>1. /\ UNCHANGED <<db, clientVars, faults>> /\ tree' = [u \in Users |-> NoNode]
        /\ seen' = [u \in Users |-> {db[u]}]
        /\ UNCHANGED <<daemon, serving>> \/ daemon' = "reading"
    BY <1>1 DEF SigHup, Start
  <2>2. \A u \in Users : seen'[u] = {db[u]} /\ seen'[u] \subseteq seen[u] /\ tree'[u] = NoNode
    BY <2>1 DEF Truth, SeenNow
  <2>3. SeenNow'
    BY <2>1, <2>2 DEF SeenNow
  <2>4. KeptTrue'
    BY <2>2, NothingIsTrue DEF KeptTrue
  <2>5. ASSUME NEW c \in Clients PROVE ClientTrue(c)' /\ ServedTrue(c)'
    <3>1. q[c].user \in Users
      BY QueryTypes DEF Types, TypeOK
    <3>2. ClientTrue(c) /\ ServedTrue(c)
      BY DEF Truth
    <3>3. pc[c] # "idle" => seen'[q[c].user] \subseteq good[c]
      BY <2>2, <3>1, <3>2 DEF ClientTrue
    <3>4. ClientTrue(c)'
      BY <1>f, <2>1, <3>2, <3>3 DEF ClientTrue
    <3>5. ServedTrue(c)'
      BY <2>1, <3>2 DEF ServedTrue, Served
    <3> QED
      BY <3>4, <3>5
  <2> QED
    BY <2>3, <2>4, <2>5 DEF Truth
<1>2. ASSUME Die \/ SigTerm \/ Unlink PROVE Truth'
  <2>1. /\ UNCHANGED <<db, seen, tree, faults, pc, q, num, buf, good, res>>
        /\ UNCHANGED <<daemon, serving>> \/ daemon' = "down"
    BY <1>2 DEF Die, SigTerm, Unlink
  <2>2. SeenNow' /\ KeptTrue'
    BY <2>1 DEF Truth, SeenNow, KeptTrue
  <2>3. \A c \in Clients : ClientTrue(c)' /\ ServedTrue(c)'
    BY <2>1 DEF Truth, ClientTrue, ServedTrue, Served
  <2> QED
    BY <2>2, <2>3 DEF Truth
<1>3. ASSUME NEW u \in Users, NEW r \in Rows, Change(u, r) PROVE Truth'
  <2>1. /\ UNCHANGED <<pc, q, num, buf, res, daemon, serving, tree, faults>>
        /\ db' = [db EXCEPT ![u] = r] /\ seen' = [seen EXCEPT ![u] = @ \cup {r}]
    BY <1>3 DEF Change
  <2>2. \A c \in Clients : good'[c] = IF pc[c] # "idle" /\ q[c].user = u THEN good[c] \cup {r} ELSE good[c]
    BY <1>3 DEF Change
  <2>3. /\ seen'[u] = seen[u] \cup {r} /\ \A v \in Users \ {u} : seen'[v] = seen[v]
        /\ db'[u] = r /\ \A v \in Users \ {u} : db'[v] = db[v]
    BY <2>1 DEF Types, TypeOK
  <2>4. SeenNow'
    BY <2>3 DEF Truth, SeenNow
  <2>5. KeptTrue'
    <3>1. \A v \in Users : seen[v] \subseteq seen'[v]
      BY <2>3
    <3>2. ASSUME NEW v \in Users PROVE NodeTrue(seen'[v], tree[v], faults)
      <4>1. NodeTrue(seen[v], tree[v], faults) /\ faults <= faults
        BY <1>f DEF Truth, KeptTrue
      <4> QED
        BY <1>f, <3>1, <4>1, TrueGrows
    <3> QED
      BY <2>1, <3>2 DEF KeptTrue
  <2>6. ASSUME NEW c \in Clients PROVE ClientTrue(c)' /\ ServedTrue(c)'
    <3>1. q[c].user \in Users
      BY QueryTypes DEF Types, TypeOK
    <3>2. ClientTrue(c) /\ ServedTrue(c)
      BY DEF Truth
    <3>3. good[c] \subseteq good'[c]
      BY <2>2
    <3>4. pc[c] # "idle" => seen'[q[c].user] \subseteq good'[c]
      BY <2>2, <2>3, <3>1, <3>2 DEF ClientTrue
    <3>5. ClientTrue(c)'
      BY <1>f, <2>1, <3>2, <3>3, <3>4, ClientKeeps
    <3>6. Served(c)' => Served(c)
      BY <2>1 DEF Served
    <3>7. ServedTrue(c)'
      BY <1>f, <2>1, <3>2, <3>3, <3>6, ServedKeeps
    <3> QED
      BY <3>5, <3>7
  <2> QED
    BY <2>4, <2>5, <2>6 DEF Truth
<1> QED
  BY <1>1, <1>2, <1>3, TruthKill DEF Environment

LEMMA TruthInvariant ==
  ASSUME ~PasswdCache
  PROVE  Spec => [](Types /\ Truth)
<1>1. Init => Truth
  <2> SUFFICES ASSUME Init PROVE Truth
    OBVIOUS
  <2>1. SeenNow /\ KeptTrue
    BY NothingIsTrue DEF Init, SeenNow, KeptTrue
  <2>2. \A c \in Clients : ClientTrue(c) /\ ServedTrue(c)
    <3>1. daemon = "reading" /\ \A c \in Clients : pc[c] = "idle" /\ buf[c] = Empty /\ res[c] = NoAnswer
      BY DEF Init
    <3> QED
      <4>1. Empty.part = "empty"
        BY BufTypes
      <4>2. \A c \in Clients : TrueOf(good[c], q[c].kind, res[c], faults)
        BY <3>1, NothingIsTrue
      <4> QED
        BY <3>1, <4>1, <4>2 DEF ClientTrue, ServedTrue, Served
  <2> QED
    BY <2>1, <2>2 DEF Truth
<1>2. (Types /\ Own) /\ Truth /\ [Next]_vars => Truth'
  <2> SUFFICES ASSUME Types, Own, Truth, [Next]_vars PROVE Truth'
    OBVIOUS
  <2>1. CASE UNCHANGED vars
    BY <2>1 DEF vars, Truth, SeenNow, KeptTrue, ClientTrue, ServedTrue, Served
  <2> QED
    BY <2>1, TruthClient, TruthDaemon, TruthEnvironment DEF Next
<1> QED
  BY <1>1, <1>2, LookupInvariant, PTL DEF Spec

\* ProcessInFifo.c:1156: without PASSWD_CACHE, a client is told a status the
\* user has had since the tree was last emptied before the query, or later,
\* except that an unreachable database may make a user look absent.
THEOREM StatusesTrue ==
  ASSUME ~PasswdCache
  PROVE  Spec => []StatusTrue
<1>1. Types /\ Truth => StatusTrue
  BY DEF Truth, ClientTrue, TrueOf, HasStatus, StatusTrue
<1> QED
  BY <1>1, TruthInvariant, PTL

\* ProcessInFifo.c:1326: without PASSWD_CACHE, a record a client is given is one
\* the user has had since then, for any sequence of changes, flushes and faults.
THEOREM RecordsTrue ==
  ASSUME ~PasswdCache
  PROVE  Spec => []RecordTrue
<1>1. Types /\ Truth => RecordTrue
  BY DEF Truth, ClientTrue, TrueOf, HasPass, RecordTrue
<1> QED
  BY <1>1, TruthInvariant, PTL
=============================================================================

---------------------------- MODULE BigDirProofs ----------------------------
(***************************************************************************)
(* The row of dir_control stays well formed, the layout goes forward and   *)
(* the count stays behind the users there are, for every number of         *)
(* characters, users per level, processes and users.                       *)
(***************************************************************************)
EXTENDS BigDir, DirControlProofs, FiniteSetTheorems, TLAPS

-----------------------------------------------------------------------------
(***************************************************************************)
(* The inductive invariant: the rows that processes wrote first are well   *)
(* formed too, as they may be written again at any time.                   *)
(***************************************************************************)
RowInv ==
  /\ RowWellFormed
  /\ vdir \in [Proc -> VdirType]
  /\ wrote \in [Proc -> VdirType \cup {None}]
  /\ \A p \in Proc : wrote[p] = None \/ WellFormed(wrote[p])

\* Counting a user up or down keeps a row well formed.
LEMMA CountWellFormed ==
  ASSUME NEW v, WellFormed(v)
  PROVE  WellFormed(OneMore(v)) /\ WellFormed(OneLess(v))
<1>1. v.cur_users \in Nat
  BY WellFormedLoose DEF LooseRow
<1>2. WellFormed([v EXCEPT !.cur_users = v.cur_users + 1])
  BY <1>1, CountShape
<1>3. v.cur_users > 0 => WellFormed([v EXCEPT !.cur_users = v.cur_users - 1])
  BY <1>1, CountShape
<1> QED BY <1>1, <1>2, <1>3 DEF OneMore, OneLess

\* A process reads the row and changes what it read.
LEMMA ReadStep ==
  ASSUME RowInv, NEW p \in Proc, NEW v, WellFormed(v),
         vdir' = [vdir EXCEPT ![p] = v], row' = row, wrote' = wrote
  PROVE  RowInv'
<1>1. v \in VdirType
  BY DEF WellFormed
<1>2. vdir' \in [Proc -> VdirType]
  BY <1>1 DEF RowInv
<1>3. \A q \in Proc : WellFormed(vdir'[q])
  BY DEF RowInv, RowWellFormed
<1> QED BY <1>2, <1>3 DEF RowInv, RowWellFormed

\* A process writes the row, for the first time or once more.
LEMMA WriteStep ==
  ASSUME RowInv, NEW p \in Proc, vwrite(p), vdir' = vdir
  PROVE  RowInv'
<1>1. WellFormed(vdir[p]) /\ (wrote[p] = None \/ WellFormed(wrote[p]))
  BY DEF RowInv, RowWellFormed
<1>2. WellFormed(row') /\ row' \in VdirType
  BY <1>1 DEF vwrite, WellFormed
<1>3. wrote' = [wrote EXCEPT ![p] = row']
  BY DEF vwrite
<1>4. wrote' \in [Proc -> VdirType \cup {None}]
  BY <1>2, <1>3 DEF RowInv
<1>5. \A q \in Proc : wrote'[q] = None \/ WellFormed(wrote'[q])
  BY <1>2, <1>3 DEF RowInv
<1>6. \A q \in Proc : WellFormed(vdir'[q])
  BY DEF RowInv, RowWellFormed
<1> QED BY <1>2, <1>4, <1>5, <1>6 DEF RowInv, RowWellFormed

\* A tool is started.
LEMMA StartStep ==
  ASSUME RowInv, NEW p \in Proc, row' = row,
         vdir' = [vdir EXCEPT ![p] = init_dir_control],
         wrote' = [wrote EXCEPT ![p] = None]
  PROVE  RowInv'
<1>1. WellFormed(init_dir_control) /\ init_dir_control \in VdirType
  BY InitWellFormed DEF WellFormed
<1>2. vdir' \in [Proc -> VdirType] /\ wrote' \in [Proc -> VdirType \cup {None}]
  BY <1>1 DEF RowInv
<1>3. \A q \in Proc : WellFormed(vdir'[q])
  BY <1>1 DEF RowInv, RowWellFormed
<1>4. \A q \in Proc : wrote'[q] = None \/ WellFormed(wrote'[q])
  BY DEF RowInv
<1>5. WellFormed(row')
  BY DEF RowInv, RowWellFormed
<1> QED BY <1>2, <1>3, <1>4, <1>5 DEF RowInv, RowWellFormed

\* A step that touches none of the rows.
LEMMA OtherStep ==
  ASSUME RowInv, UNCHANGED <<row, vdir, wrote>>
  PROVE  RowInv'
  BY DEF RowInv, RowWellFormed

LEMMA RowInvInit == Init => RowInv
<1> SUFFICES ASSUME Init PROVE RowInv
  OBVIOUS
<1>1. WellFormed(init_dir_control) /\ init_dir_control \in VdirType
  BY InitWellFormed DEF WellFormed
<1> QED BY <1>1 DEF Init, RowInv, RowWellFormed

LEMMA RowInvNext == RowInv /\ [Next]_vars => RowInv'
<1> SUFFICES ASSUME RowInv, [Next]_vars PROVE RowInv'
  OBVIOUS
<1>0. WellFormed(row)
  BY DEF RowInv, RowWellFormed
<1>1. /\ WellFormed(inc_dir_control(row))
      /\ WellFormed(OneMore(row)) /\ WellFormed(OneLess(row))
  BY <1>0, IncWellFormed, CountWellFormed
<1>2. CASE UNCHANGED vars
  BY <1>2, OtherStep DEF vars, local
<1>3. ASSUME NEW p \in Proc, NEW u \in User, StartAdd(p, u) \/ StartDel(p, u)
      PROVE  RowInv'
  BY <1>3, StartStep DEF StartAdd, StartDel, Start
<1>4. ASSUME NEW p \in Proc, StartReorg(p) PROVE RowInv'
  BY <1>4, StartStep DEF StartReorg, Start
<1>5. ASSUME NEW p \in Proc, FillGet(p) \/ Get(p) \/ DecGet(p) \/ Pick(p)
      PROVE  RowInv'
  <2>1. CASE FillGet(p)
    BY <1>1, <2>1, ReadStep DEF FillGet, vread
  <2>2. CASE Get(p)
    BY <1>1, <2>2, ReadStep DEF Get, vread
  <2>3. CASE DecGet(p)
    BY <1>1, <2>3, ReadStep DEF DecGet, vread
  <2>4. CASE Pick(p)
    BY <1>1, <2>4, ReadStep DEF Pick, vread
  <2> QED BY <1>5, <2>1, <2>2, <2>3, <2>4
<1>6. ASSUME NEW p \in Proc, FillPut(p) \/ Put(p) \/ DecPut(p) \/ Move(p)
      PROVE  RowInv'
  BY <1>6, WriteStep DEF FillPut, Put, DecPut, Move
<1>7. ASSUME NEW p \in Proc, Reset(p) PROVE RowInv'
  <2>1. row' = init_dir_control /\ vdir' = vdir /\ wrote' = wrote
    BY <1>7 DEF Reset, local
  <2> QED BY <2>1, InitWellFormed DEF RowInv, RowWellFormed
<1>8. ASSUME NEW p \in Proc, FillRead(p) \/ FillRemove(p) \/ Mkdir(p) \/ MkdirFails(p)
                               \/ FillAppend(p) \/ EndReorg(p)
      PROVE  RowInv'
  <2>1. UNCHANGED <<row, vdir, wrote>>
    BY <1>8 DEF FillRead, FillRemove, Mkdir, MkdirFails, FillAppend, EndReorg, local
  <2> QED BY <2>1, OtherStep
<1> QED BY <1>2, <1>3, <1>4, <1>5, <1>6, <1>7, <1>8 DEF Next

(***************************************************************************)
(* However many vadduser, vdeluser and vreorg run at a time without a      *)
(* lock, and for every number of characters and of users per level: the    *)
(* row that inc_dir_control() goes on from is well formed.                 *)
(***************************************************************************)
THEOREM RowStaysWellFormed == Spec => []RowWellFormed
<1>1. RowInv => RowWellFormed
  BY DEF RowInv
<1> QED BY <1>1, RowInvInit, RowInvNext, PTL DEF Spec

-----------------------------------------------------------------------------
\* The first of the places in which w is ahead of v.
LEMMA BeforeWhen ==
  ASSUME NEW v, NEW w,
         \/ v.level_cur < w.level_cur
         \/ v.level_cur = w.level_cur /\ v.the_dir[0] < w.the_dir[0]
         \/ /\ v.level_cur = w.level_cur /\ v.the_dir[0] = w.the_dir[0]
            /\ v.the_dir[1] < w.the_dir[1]
         \/ /\ v.level_cur = w.level_cur /\ v.the_dir[0] = w.the_dir[0]
            /\ v.the_dir[1] = w.the_dir[1] /\ v.the_dir[2] < w.the_dir[2]
  PROVE  Before(v, w)
<1> DEFINE a == Place(v)
           b == Place(w)
<1>1. /\ a[1] = v.level_cur /\ a[2] = v.the_dir[0] /\ a[3] = v.the_dir[1] /\ a[4] = v.the_dir[2]
      /\ b[1] = w.level_cur /\ b[2] = w.the_dir[0] /\ b[3] = w.the_dir[1] /\ b[4] = w.the_dir[2]
  BY DEF Place
<1> HIDE DEF a, b
<1>2. \/ a[1] < b[1]
      \/ a[1] = b[1] /\ a[2] < b[2]
      \/ a[1] = b[1] /\ a[2] = b[2] /\ a[3] < b[3]
      \/ a[1] = b[1] /\ a[2] = b[2] /\ a[3] = b[3] /\ a[4] < b[4]
  BY <1>1
<1>3. \E i \in 1..4 : a[i] < b[i] /\ \A j \in 1..(i - 1) : a[j] = b[j]
  <2>1. CASE a[1] < b[1]
    <3> WITNESS 1 \in 1..4
    <3> QED BY <2>1
  <2>2. CASE a[1] = b[1] /\ a[2] < b[2]
    <3> WITNESS 2 \in 1..4
    <3> QED BY <2>2
  <2>3. CASE a[1] = b[1] /\ a[2] = b[2] /\ a[3] < b[3]
    <3> WITNESS 3 \in 1..4
    <3> QED BY <2>3
  <2>4. CASE a[1] = b[1] /\ a[2] = b[2] /\ a[3] = b[3] /\ a[4] < b[4]
    <3> WITNESS 4 \in 1..4
    <3> QED BY <2>4
  <2> QED BY <1>2, <2>1, <2>2, <2>3, <2>4
<1> QED BY <1>3 DEF Before, a, b

\* inc_dir_control() counts one more user, and leaves the place of the row or
\* goes forward, until the third level is full.
LEMMA IncForward ==
  ASSUME NEW v, WellFormed(v)
  PROVE  LET w == inc_dir_control(v) IN
         /\ w.cur_users = v.cur_users + 1
         /\ Full(v) \/ Place(w) = Place(v) \/ Before(v, w)
<1> DEFINE w == inc_dir_control(v)
<1>1. /\ w.cur_users = v.cur_users + 1
      /\ Follows(v, w) \/ (w.level_cur = v.level_cur /\ w.the_dir = v.the_dir)
  BY IncFollows
<1> HIDE DEF w
<1>2. \A k \in Levels : v.the_dir[k] \in Nul..End /\ v.the_dir[k] + 1 > v.the_dir[k]
  BY WellFormedLoose, ListAssumption DEF LooseRow, Nul, End
<1>3. v.the_dir[0] = Nul => v.level_cur = 0 /\ v.the_dir[0] < 0
  BY DEF WellFormed, Nul
<1>4. Follows(v, w) => Full(v) \/ Before(v, w)
  BY <1>2, <1>3, BeforeWhen, ThreeLevels DEF Follows, Full
<1>5. w.level_cur = v.level_cur /\ w.the_dir = v.the_dir => Place(w) = Place(v)
  BY DEF Place
<1> QED BY <1>1, <1>4, <1>5 DEF w

\* Counting a user up or down leaves the place of the row.
LEMMA CountPlace ==
  ASSUME NEW v, WellFormed(v)
  PROVE  /\ Place(OneMore(v)) = Place(v) /\ Place(OneLess(v)) = Place(v)
         /\ OneMore(v).cur_users \in {v.cur_users, v.cur_users + 1}
         /\ OneLess(v).cur_users \in {0, v.cur_users - 1}
<1>1. v \in LooseRow /\ v.cur_users \in Nat
  BY WellFormedLoose DEF LooseRow
<1> QED BY <1>1 DEF LooseRow, Place, OneMore, OneLess

\* The name of a directory is a name.
LEMMA TextType ==
  ASSUME NEW v, WellFormed(v)
  PROVE  Text(DirName(v)) \in Seq(Slash..End)
<1>1. v \in LooseRow /\ v.level_cur \in {0, 1, 2}
  BY WellFormedLoose, ThreeLevels DEF LooseRow
<1>2. \A k \in {0, 1, 2} : v.the_dir[k] \in Slash..End
  BY <1>1, ThreeLevels, ListAssumption DEF LooseRow, Nul, End, Slash
<1>3. Slash \in Slash..End
  BY ListAssumption DEF Slash, End
<1>4. CASE v.the_dir[0] = Nul
  <2>1. DirName(v) = <<>>
    BY <1>4 DEF DirName
  <2> QED BY <2>1 DEF Text
<1>5. CASE v.the_dir[0] # Nul /\ v.level_cur = 0
  <2>1. DirName(v) = <<v.the_dir[0]>>
    BY <1>5 DEF DirName
  <2>2. Text(DirName(v)) = <<v.the_dir[0]>>
    BY <2>1 DEF Text
  <2> QED BY <1>2, <2>2
<1>6. CASE v.the_dir[0] # Nul /\ v.level_cur = 1
  <2>1. DirName(v) = <<v.the_dir[0], v.the_dir[1]>>
    BY <1>6 DEF DirName
  <2>2. Text(DirName(v)) = <<v.the_dir[0], Slash, v.the_dir[1]>>
    BY <2>1 DEF Text
  <2> QED BY <1>2, <1>3, <2>2
<1>7. CASE v.the_dir[0] # Nul /\ v.level_cur = 2
  <2>1. DirName(v) = <<v.the_dir[0], v.the_dir[1], v.the_dir[2]>>
    BY <1>7 DEF DirName
  <2>2. Text(DirName(v)) = <<v.the_dir[0], Slash, v.the_dir[1], Slash, v.the_dir[2]>>
    BY <2>1 DEF Text
  <2> QED BY <1>2, <1>3, <2>2
<1> QED BY <1>1, <1>4, <1>5, <1>6, <1>7

-----------------------------------------------------------------------------
(***************************************************************************)
(* What each process is about, and which users it works on.  A user that   *)
(* is added has no home yet, a user that is deleted or moved has one, the  *)
(* users that vreorg has still to move have one, and no two processes work *)
(* on the same user; so a name is always at hand where one is read.        *)
(***************************************************************************)
Name == Seq(Slash..End)

Labels == {"off", "fillread", "fillremove", "fillget", "fillput", "get", "put",
           "mkdir", "fillappend", "decget", "decput", "reset", "pick", "move"}
Adding == {"fillread", "fillremove", "fillget", "fillput", "get", "put"}
Having == {"mkdir", "fillappend", "decget", "decput", "move"}
Reorg == {"reset", "pick", "move"}

Typed ==
  /\ fill \in Name
  /\ home \in [User -> Name \cup {None}]
  /\ pc \in [Proc -> Labels]
  /\ who \in [Proc -> User \cup {None}]
  /\ todo \in [Proc -> SUBSET User]
  /\ line \in [Proc -> Name]
  /\ runs \in 0..MaxRuns /\ faults \in 0..MaxFaults
  /\ alone \in BOOLEAN

Owners ==
  /\ \A p \in Proc : pc[p] \in Adding => who[p] \in User /\ home[who[p]] = None
  /\ \A p \in Proc : pc[p] \in Having => who[p] \in User /\ home[who[p]] # None
  /\ \A p \in Proc : pc[p] \notin Reorg => todo[p] = {}
  /\ \A p \in Proc : \A u \in todo[p] : home[u] # None
  /\ \A p, q \in Proc : p # q => todo[p] \cap todo[q] = {}
  /\ \A p, q \in Proc : p # q /\ pc[p] # "off" => who[p] \notin todo[q]
  /\ \A p, q \in Proc : p # q /\ pc[p] # "off" /\ pc[q] # "off" =>
       who[p] # who[q] \/ who[p] = None

LEMMA TypedOwnersInit == Init => Typed /\ Owners
  BY BoundAssumption DEF Init, Typed, Owners, Name, Labels, Adding, Having, Reorg

\* A tool is started for a user nobody works on.
LEMMA StartUser ==
  ASSUME Typed, Owners, NEW p \in Proc, NEW u \in User, StartAdd(p, u) \/ StartDel(p, u)
  PROVE  Typed' /\ Owners'
<1>1. /\ pc[p] = "off" /\ u \notin Busy
      /\ who' = [who EXCEPT ![p] = u] /\ todo' = todo /\ home' = home /\ fill' = fill
      /\ line' = [line EXCEPT ![p] = <<>>]
      /\ runs < MaxRuns /\ runs' = runs + 1 /\ faults' = faults
      /\ alone' = (alone /\ Running = {})
  BY DEF StartAdd, StartDel, Start
<1>2. \/ pc' = [pc EXCEPT ![p] = "fillread"] /\ home[u] = None
      \/ pc' = [pc EXCEPT ![p] = "fillappend"] /\ home[u] # None
  BY DEF StartAdd, StartDel, Start, Goto
<1>3. /\ \A q \in Proc : u \notin todo[q]
      /\ \A q \in Proc : pc[q] # "off" => u # who[q]
  BY <1>1 DEF Busy, Running
<1>4. Typed'
  <2>1. <<>> \in Name
    BY DEF Name
  <2>2. runs' \in 0..MaxRuns
    BY <1>1, BoundAssumption DEF Typed
  <2>3. pc' \in [Proc -> Labels]
    BY <1>2 DEF Typed, Labels
  <2>4. who' \in [Proc -> User \cup {None}] /\ line' \in [Proc -> Name]
    BY <1>1, <2>1 DEF Typed
  <2>5. alone' \in BOOLEAN
    BY <1>1, Zenon
  <2> QED BY <1>1, <2>2, <2>3, <2>4, <2>5 DEF Typed
<1>5. /\ who'[p] = u /\ pc'[p] \in {"fillread", "fillappend"}
      /\ pc'[p] = "fillread" => home[u] = None
      /\ pc'[p] = "fillappend" => home[u] # None
      /\ \A q \in Proc : q # p => who'[q] = who[q] /\ pc'[q] = pc[q]
  BY <1>1, <1>2 DEF Typed
<1>6. todo[p] = {}
  BY <1>1 DEF Owners, Reorg
<1> QED BY <1>1, <1>3, <1>4, <1>5, <1>6 DEF Owners, Adding, Having, Reorg

\* vreorg is started when nobody works on a user.
LEMMA StartReorgOwners ==
  ASSUME Typed, Owners, NEW p \in Proc, StartReorg(p)
  PROVE  Typed' /\ Owners'
<1>1. /\ pc[p] = "off" /\ Busy \subseteq {None}
      /\ who' = who /\ home' = home /\ fill' = fill
      /\ todo' = [todo EXCEPT ![p] = Located]
      /\ pc' = [pc EXCEPT ![p] = "reset"]
      /\ line' = [line EXCEPT ![p] = <<>>]
      /\ runs < MaxRuns /\ runs' = runs + 1 /\ faults' = faults
      /\ alone' = (alone /\ Running = {})
  BY DEF StartReorg, Start, Goto
<1>2. /\ \A q \in Proc : todo[q] = {}
      /\ \A q \in Proc : pc[q] # "off" => who[q] = None
  BY <1>1, NoneAssumption DEF Busy, Running, Typed
<1>3. Typed'
  <2>1. <<>> \in Name /\ Located \in SUBSET User
    BY DEF Name, Located
  <2>2. runs' \in 0..MaxRuns
    BY <1>1, BoundAssumption DEF Typed
  <2>3. pc' \in [Proc -> Labels]
    BY <1>1 DEF Typed, Labels
  <2>4. todo' \in [Proc -> SUBSET User] /\ line' \in [Proc -> Name]
    BY <1>1, <2>1 DEF Typed
  <2>5. alone' \in BOOLEAN
    BY <1>1, Zenon
  <2> QED BY <1>1, <2>2, <2>3, <2>4, <2>5 DEF Typed
<1>4. /\ todo'[p] = Located /\ pc'[p] = "reset"
      /\ \A q \in Proc : q # p => todo'[q] = {} /\ pc'[q] = pc[q]
  BY <1>1, <1>2 DEF Typed
<1>5. \A q \in Proc : pc[q] \notin Adding \cup Having
  BY <1>2, NoneAssumption DEF Owners, Adding, Having
<1>6. /\ \A q \in Proc : pc'[q] \notin Adding \cup Having
      /\ \A q \in Proc : pc'[q] \notin Reorg => todo'[q] = {}
  BY <1>4, <1>5 DEF Adding, Having, Reorg
<1>7. \A q \in Proc : \A u \in todo'[q] : home'[u] # None
  BY <1>1, <1>4 DEF Located
<1>8. \A q \in Proc : q # p /\ pc'[q] # "off" => who'[q] = None
  BY <1>1, <1>2, <1>4
<1>9. None \notin Located
  BY NoneAssumption DEF Located
<1>10. /\ \A q, r \in Proc : q # r => todo'[q] \cap todo'[r] = {}
       /\ \A q, r \in Proc : q # r /\ pc'[q] # "off" => who'[q] \notin todo'[r]
  BY <1>4, <1>8, <1>9
<1>11. \A q, r \in Proc : q # r /\ pc'[q] # "off" /\ pc'[r] # "off" =>
          who'[q] # who'[r] \/ who'[q] = None
  BY <1>8
<1> QED BY <1>3, <1>6, <1>7, <1>10, <1>11 DEF Owners

\* A step from one label to another that changes neither users nor homes.
LEMMA GotoOwners ==
  ASSUME Typed, Owners, NEW p \in Proc, NEW l \in Labels \ {"off"}, pc[p] # "off",
         pc' = [pc EXCEPT ![p] = l], UNCHANGED <<home, who, todo>>,
         l \in Adding => pc[p] \in Adding, l \in Having => pc[p] \in Having,
         pc[p] \in Reorg => l \in Reorg
  PROVE  Owners' /\ pc' \in [Proc -> Labels]
<1>1. /\ pc'[p] = l /\ \A q \in Proc : q # p => pc'[q] = pc[q]
      /\ pc' \in [Proc -> Labels]
  BY DEF Typed
<1> QED BY <1>1 DEF Owners

\* A tool ends.
LEMMA OffOwners ==
  ASSUME Typed, Owners, NEW p \in Proc, pc' = [pc EXCEPT ![p] = "off"],
         UNCHANGED <<home, who, todo>>, todo[p] = {}
  PROVE  Owners' /\ pc' \in [Proc -> Labels]
<1>1. /\ pc'[p] = "off" /\ \A q \in Proc : q # p => pc'[q] = pc[q]
      /\ pc' \in [Proc -> Labels]
  BY DEF Typed, Labels
<1> QED BY <1>1 DEF Owners, Adding, Having

\* The home of the user a process works on is set.
LEMMA HomeOwners ==
  ASSUME Typed, Owners, NEW p \in Proc, NEW h \in Name \cup {None},
         NEW l \in {"mkdir", "off", "pick"},
         pc[p] \in {"fillput", "put", "decput", "move"},
         pc' = [pc EXCEPT ![p] = l], home' = [home EXCEPT ![who[p]] = h],
         UNCHANGED <<who, todo>>,
         h = None => l = "off",
         l = "pick" <=> pc[p] = "move"
  PROVE  Owners' /\ pc' \in [Proc -> Labels] /\ home' \in [User -> Name \cup {None}]
<1>1. /\ pc'[p] = l /\ \A q \in Proc : q # p => pc'[q] = pc[q]
      /\ pc' \in [Proc -> Labels]
  BY DEF Typed, Labels
<1>2. /\ who[p] \in User /\ who[p] # None
  BY NoneAssumption DEF Owners, Adding, Having
<1>3. /\ home' \in [User -> Name \cup {None}] /\ home'[who[p]] = h
      /\ \A u \in User : u # who[p] => home'[u] = home[u]
  BY <1>2 DEF Typed
<1>4. /\ \A q \in Proc : q # p => who[p] \notin todo[q]
      /\ \A q \in Proc : q # p /\ pc[q] # "off" => who[q] # who[p]
  BY <1>2 DEF Owners
<1>5. \A q \in Proc : pc'[q] \in Adding => who'[q] \in User /\ home'[who'[q]] = None
  BY <1>1, <1>3, <1>4 DEF Owners, Adding
<1>6. \A q \in Proc : pc'[q] \in Having => who'[q] \in User /\ home'[who'[q]] # None
  BY <1>1, <1>2, <1>3, <1>4 DEF Owners, Having
<1>7. \A q \in Proc : pc'[q] \notin Reorg => todo'[q] = {}
  BY <1>1 DEF Owners, Reorg
<1>8. \A q \in Proc : \A u \in todo'[q] : home'[u] # None
  <2> SUFFICES ASSUME NEW q \in Proc, NEW u \in todo[q] PROVE home'[u] # None
    OBVIOUS
  <2>1. u \in User /\ home[u] # None
    BY DEF Typed, Owners
  <2>2. CASE q # p
    BY <1>3, <1>4, <2>1, <2>2
  <2>3. CASE q = p
    BY <1>3, <2>1, <2>3 DEF Owners, Reorg
  <2> QED BY <2>2, <2>3
<1>9. /\ \A q, r \in Proc : q # r => todo'[q] \cap todo'[r] = {}
      /\ \A q, r \in Proc : q # r /\ pc'[q] # "off" => who'[q] \notin todo'[r]
      /\ \A q, r \in Proc : q # r /\ pc'[q] # "off" /\ pc'[r] # "off" =>
           who'[q] # who'[r] \/ who'[q] = None
  BY <1>1 DEF Owners
<1> QED BY <1>1, <1>3, <1>5, <1>6, <1>7, <1>8, <1>9 DEF Owners

\* vreorg takes the next user of its list.
LEMMA PickOwners ==
  ASSUME Typed, Owners, NEW p \in Proc, Pick(p)
  PROVE  Typed' /\ Owners'
<1>1. PICK u \in todo[p] : who' = [who EXCEPT ![p] = u] /\ todo' = [todo EXCEPT ![p] = @ \ {u}]
  BY DEF Pick
<1>2. /\ pc[p] = "pick" /\ pc' = [pc EXCEPT ![p] = "move"]
      /\ UNCHANGED <<fill, home, line, runs, faults, alone>>
  BY DEF Pick, Goto
<1>3. u \in User /\ home[u] # None /\ u # None
  BY NoneAssumption DEF Typed, Owners
<1>4. /\ who'[p] = u /\ todo'[p] = todo[p] \ {u} /\ pc'[p] = "move"
      /\ \A q \in Proc : q # p => who'[q] = who[q] /\ todo'[q] = todo[q] /\ pc'[q] = pc[q]
  BY <1>1, <1>2 DEF Typed
<1>5. Typed'
  BY <1>1, <1>2, <1>3 DEF Typed, Labels
<1>6. /\ \A q \in Proc : q # p => u \notin todo[q]
      /\ \A q \in Proc : q # p /\ pc[q] # "off" => who[q] # u
  BY DEF Owners
<1>7. /\ \A q \in Proc : pc'[q] \in Adding => who'[q] \in User /\ home'[who'[q]] = None
      /\ \A q \in Proc : pc'[q] \in Having => who'[q] \in User /\ home'[who'[q]] # None
      /\ \A q \in Proc : pc'[q] \notin Reorg => todo'[q] = {}
      /\ \A q \in Proc : \A x \in todo'[q] : home'[x] # None
  BY <1>2, <1>3, <1>4 DEF Owners, Adding, Having, Reorg
<1>8. \A q, r \in Proc : q # r => todo'[q] \cap todo'[r] = {}
  BY <1>4 DEF Owners
<1>9. \A q, r \in Proc : q # r /\ pc'[q] # "off" => who'[q] \notin todo'[r]
  BY <1>2, <1>4, <1>6 DEF Owners
<1>10. \A q, r \in Proc : q # r /\ pc'[q] # "off" /\ pc'[r] # "off" =>
           who'[q] # who'[r] \/ who'[q] = None
  BY <1>2, <1>4, <1>6 DEF Owners
<1> QED BY <1>5, <1>7, <1>8, <1>9, <1>10 DEF Owners

\* A name is not None.
LEMMA NameNotNone == None \notin Name
  BY NoneAssumption DEF Name, Slash

LEMMA TypedOwnersNext ==
  ASSUME RowInv, Typed, Owners, [Next]_vars
  PROVE  Typed' /\ Owners'
<1>1. CASE UNCHANGED vars
  BY <1>1 DEF vars, local, Typed, Owners
<1>2. ASSUME NEW p \in Proc, NEW u \in User, StartAdd(p, u) \/ StartDel(p, u)
      PROVE  Typed' /\ Owners'
  BY <1>2, StartUser
<1>3. ASSUME NEW p \in Proc, StartReorg(p) PROVE Typed' /\ Owners'
  BY <1>3, StartReorgOwners
<1>4. ASSUME NEW p \in Proc, Pick(p) PROVE Typed' /\ Owners'
  BY <1>4, PickOwners
<1>5. ASSUME NEW p \in Proc, FillRead(p) PROVE Typed' /\ Owners'
  <2>1. PICK l \in {"get", "fillremove"} : pc' = [pc EXCEPT ![p] = l]
    BY <1>5 DEF FillRead, Goto
  <2>2. Owners' /\ pc' \in [Proc -> Labels]
    BY <1>5, <2>1, GotoOwners DEF FillRead, Labels, Adding, Having, Reorg
  <2> QED BY <1>5, <2>2 DEF FillRead, Typed
<1>6. ASSUME NEW p \in Proc, FillRemove(p) PROVE Typed' /\ Owners'
  <2>1. PICK l \in {"get", "fillget"} : pc' = [pc EXCEPT ![p] = l]
    BY <1>6 DEF FillRemove, Goto
  <2>2. Owners' /\ pc' \in [Proc -> Labels]
    BY <1>6, <2>1, GotoOwners DEF FillRemove, local, Labels, Adding, Having, Reorg
  <2>3. fill' = <<>> \/ fill' = fill
    BY <1>6 DEF FillRemove
  <2>4. <<>> \in Name /\ fill \in Name
    BY DEF Typed, Name
  <2> QED BY <1>6, <2>2, <2>3, <2>4 DEF FillRemove, local, Typed
<1>7. ASSUME NEW p \in Proc, FillGet(p) \/ Get(p) \/ DecGet(p) \/ Reset(p)
      PROVE  Typed' /\ Owners'
  <2>1. /\ UNCHANGED <<fill, home, who, todo, line, runs, faults, alone>>
        /\ \/ pc[p] = "fillget" /\ pc' = [pc EXCEPT ![p] = "fillput"]
           \/ pc[p] = "get" /\ pc' = [pc EXCEPT ![p] = "put"]
           \/ pc[p] = "decget" /\ pc' = [pc EXCEPT ![p] = "decput"]
           \/ pc[p] = "reset" /\ pc' = [pc EXCEPT ![p] = "pick"]
    BY <1>7 DEF FillGet, Get, DecGet, Reset, Goto, local
  <2>2. Owners' /\ pc' \in [Proc -> Labels]
    BY <2>1, GotoOwners DEF Labels, Adding, Having, Reorg
  <2> QED BY <2>1, <2>2 DEF Typed
<1>8. ASSUME NEW p \in Proc, MkdirFails(p) PROVE Typed' /\ Owners'
  <2>1. Owners' /\ pc' \in [Proc -> Labels]
    BY <1>8, GotoOwners DEF MkdirFails, Goto, local, Labels, Adding, Having, Reorg
  <2>2. faults' \in 0..MaxFaults
    BY <1>8, BoundAssumption DEF MkdirFails, Typed
  <2> QED BY <1>8, <2>1, <2>2 DEF MkdirFails, local, Typed
<1>9. ASSUME NEW p \in Proc, FillAppend(p) PROVE Typed' /\ Owners'
  <2>1. Owners' /\ pc' \in [Proc -> Labels]
    BY <1>9, GotoOwners DEF FillAppend, Goto, local, Labels, Adding, Having, Reorg
  <2>2. home[who[p]] \in Name
    BY <1>9 DEF FillAppend, Owners, Having, Typed
  <2>3. fill' \in Name
    BY <1>9, <2>2 DEF FillAppend, Typed, Name
  <2> QED BY <1>9, <2>1, <2>3 DEF FillAppend, local, Typed
<1>10. ASSUME NEW p \in Proc, Mkdir(p) \/ EndReorg(p) PROVE Typed' /\ Owners'
  <2>1. todo[p] = {}
    BY <1>10 DEF Mkdir, EndReorg, Owners, Reorg
  <2>2. Owners' /\ pc' \in [Proc -> Labels]
    BY <1>10, <2>1, OffOwners DEF Mkdir, EndReorg, Goto, local
  <2> QED BY <1>10, <2>2 DEF Mkdir, EndReorg, local, Typed
<1>11. ASSUME NEW p \in Proc, FillPut(p) PROVE Typed' /\ Owners'
  <2>1. line[p] \in Name /\ line[p] # None
    BY NameNotNone DEF Typed
  <2>2. Owners' /\ pc' \in [Proc -> Labels] /\ home' \in [User -> Name \cup {None}]
    BY <1>11, <2>1, HomeOwners DEF FillPut, Goto
  <2> QED BY <1>11, <2>2 DEF FillPut, Typed
<1>12. ASSUME NEW p \in Proc, Put(p) \/ Move(p) PROVE Typed' /\ Owners'
  <2> DEFINE t == Text(DirName(vdir[p]))
  <2>1. t \in Name /\ t # None
    BY TextType, NameNotNone DEF RowInv, RowWellFormed, Name
  <2>2. home' = [home EXCEPT ![who[p]] = t]
    BY <1>12 DEF Put, Move
  <2> HIDE DEF t
  <2>3. Owners' /\ pc' \in [Proc -> Labels] /\ home' \in [User -> Name \cup {None}]
    <3>1. CASE Put(p)
      BY <2>1, <2>2, <3>1, HomeOwners DEF Put, Goto
    <3>2. CASE Move(p)
      BY <2>1, <2>2, <3>2, HomeOwners DEF Move, Goto
    <3> QED BY <1>12, <3>1, <3>2
  <2> QED BY <1>12, <2>3 DEF Put, Move, Typed
<1>13. ASSUME NEW p \in Proc, DecPut(p) PROVE Typed' /\ Owners'
  <2>1. Owners' /\ pc' \in [Proc -> Labels] /\ home' \in [User -> Name \cup {None}]
    BY <1>13, HomeOwners DEF DecPut, Goto
  <2> QED BY <1>13, <2>1 DEF DecPut, Typed
<1> QED
  BY <1>1, <1>2, <1>3, <1>4, <1>5, <1>6, <1>7, <1>8, <1>9, <1>10, <1>11, <1>12, <1>13
  DEF Next

(***************************************************************************)
(* Types of the layout model: rows, names and counters stay what the code  *)
(* takes them for.  In particular a name is at hand when dec_dir_control() *)
(* notes the directory of the user it works on, for any number of tools    *)
(* that run at a time, as no two of them work on one user.                 *)
(***************************************************************************)
THEOREM TypeCorrect == Spec => []TypeOK
<1>1. Init => RowInv /\ Typed /\ Owners
  BY RowInvInit, TypedOwnersInit
<1>2. (RowInv /\ Typed /\ Owners) /\ [Next]_vars => (RowInv /\ Typed /\ Owners)'
  BY RowInvNext, TypedOwnersNext
<1>3. RowInv /\ Typed => TypeOK
  <2> SUFFICES ASSUME RowInv, Typed PROVE TypeOK
    OBVIOUS
  <2>1. row \in VdirType
    BY DEF RowInv, RowWellFormed, WellFormed
  <2> QED BY <2>1 DEF RowInv, Typed, TypeOK, Name, Labels
<1> QED BY <1>1, <1>2, <1>3, PTL DEF Spec

-----------------------------------------------------------------------------
(***************************************************************************)
(* As long as tools run one after the other, the tool that runs has read   *)
(* the row that is there, and what it wrote is still there: to write the   *)
(* first statement again changes nothing.                                  *)
(***************************************************************************)
Alone(p) ==
  /\ wrote[p] # None => row = wrote[p]
  /\ pc[p] \in Adding \cup {"reset"} => wrote[p] = None
  /\ pc[p] = "fillput" => vdir[p] = OneMore(row)
  /\ pc[p] \in {"put", "move"} => vdir[p] = inc_dir_control(row)
  /\ pc[p] = "decput" => vdir[p] = OneLess(row)

Single ==
  alone => /\ \A p, q \in Proc : pc[p] # "off" /\ pc[q] # "off" => p = q
           /\ \A p \in Proc : pc[p] # "off" => Alone(p)

\* A step of the only tool that runs.
LEMMA SingleStep ==
  ASSUME Typed, Single, NEW p \in Proc, pc[p] # "off", NEW l, alone' => alone,
         pc' = [pc EXCEPT ![p] = l], alone /\ l # "off" => Alone(p)'
  PROVE  Single'
<1>1. pc'[p] = l /\ \A q \in Proc : q # p => pc'[q] = pc[q]
  BY DEF Typed
<1>2. alone' => \A q \in Proc : q # p => pc[q] = "off"
  BY DEF Single
<1>3. \A q \in Proc : alone' /\ pc'[q] # "off" => q = p /\ l # "off"
  BY <1>1, <1>2
<1>4. \A q \in Proc : alone' /\ pc'[q] # "off" => Alone(q)'
  BY <1>3
<1> QED BY <1>3, <1>4 DEF Single

LEMMA SingleInit == Init => Single
  BY DEF Init, Single

\* vwrite_dir_control() by the only tool that runs.
LEMMA AloneWrite ==
  ASSUME RowInv, NEW p \in Proc, Alone(p), vwrite(p)
  PROVE  /\ wrote[p] = None => row' = vdir[p]
         /\ wrote[p] # None => row' = row
         /\ wrote'[p] = row'
  BY DEF Alone, vwrite, RowInv

LEMMA SingleNext ==
  ASSUME RowInv, Typed, Single, [Next]_vars
  PROVE  Single'
<1>1. CASE UNCHANGED vars
  BY <1>1 DEF vars, local, Single, Alone
<1>2. ASSUME NEW p \in Proc, NEW l, l \in {"fillread", "fillappend", "reset"},
             alone' = (alone /\ Running = {}),
             pc' = [pc EXCEPT ![p] = l],
             wrote' = [wrote EXCEPT ![p] = None]
      PROVE  Single'
  <2> SUFFICES ASSUME alone' PROVE /\ \A q, r \in Proc : pc'[q] # "off" /\ pc'[r] # "off" => q = r
                                   /\ \A q \in Proc : pc'[q] # "off" => Alone(q)'
    BY DEF Single
  <2>1. \A q \in Proc : pc[q] = "off"
    BY <1>2 DEF Running
  <2>2. pc'[p] = l /\ \A q \in Proc : q # p => pc'[q] = "off"
    BY <1>2, <2>1 DEF Typed
  <2>3. wrote'[p] = None
    BY <1>2 DEF RowInv
  <2>4. Alone(p)'
    BY <1>2, <2>2, <2>3 DEF Alone
  <2> QED BY <2>2, <2>4
<1>3. ASSUME NEW p \in Proc, NEW u \in User, StartAdd(p, u) \/ StartDel(p, u)
      PROVE  Single'
  BY <1>2, <1>3 DEF StartAdd, StartDel, Start, Goto
<1>4. ASSUME NEW p \in Proc, StartReorg(p) PROVE Single'
  BY <1>2, <1>4 DEF StartReorg, Start, Goto
<1>5. ASSUME NEW p \in Proc, NEW l, pc[p] # "off", pc' = [pc EXCEPT ![p] = l],
             UNCHANGED <<row, wrote, vdir, alone>>,
             l \in {"off", "get", "fillremove", "fillget", "fillappend", "decget"},
             l \in Adding => pc[p] \in Adding
      PROVE  Single'
  <2>1. alone /\ l # "off" => Alone(p)'
    <3> SUFFICES ASSUME alone PROVE Alone(p)'
      OBVIOUS
    <3>1. Alone(p)
      BY <1>5 DEF Single
    <3>2. pc'[p] = l
      BY <1>5 DEF Typed
    <3> QED BY <1>5, <3>1, <3>2 DEF Alone, Adding
  <2> QED BY <1>5, <2>1, SingleStep
<1>6. ASSUME NEW p \in Proc, FillRead(p) \/ FillRemove(p) \/ Mkdir(p) \/ MkdirFails(p)
                               \/ FillAppend(p) \/ EndReorg(p)
      PROVE  Single'
  <2>1. pc[p] # "off" /\ UNCHANGED <<row, wrote, vdir, alone>>
    BY <1>6 DEF FillRead, FillRemove, Mkdir, MkdirFails, FillAppend, EndReorg, local
  <2>2. \E l \in {"off", "get", "fillremove", "fillget", "fillappend", "decget"} :
           pc' = [pc EXCEPT ![p] = l] /\ (l \in Adding => pc[p] \in Adding)
    BY <1>6 DEF FillRead, FillRemove, Mkdir, MkdirFails, FillAppend, EndReorg, Goto, Adding
  <2> QED BY <1>5, <2>1, <2>2
<1>7. ASSUME NEW p \in Proc, NEW l, NEW v, pc[p] # "off", pc' = [pc EXCEPT ![p] = l],
             UNCHANGED <<row, wrote, alone>>, vdir' = [vdir EXCEPT ![p] = v],
             \/ l = "fillput" /\ pc[p] = "fillget" /\ v = OneMore(row)
             \/ l = "put" /\ pc[p] = "get" /\ v = inc_dir_control(row)
             \/ l = "move" /\ pc[p] = "pick" /\ v = inc_dir_control(row)
             \/ l = "decput" /\ pc[p] = "decget" /\ v = OneLess(row)
      PROVE  Single'
  <2>1. alone => Alone(p)'
    <3> SUFFICES ASSUME alone PROVE Alone(p)'
      OBVIOUS
    <3>1. Alone(p)
      BY <1>7 DEF Single
    <3>2. pc'[p] = l /\ vdir'[p] = v
      BY <1>7 DEF Typed, RowInv
    <3> QED BY <1>7, <3>1, <3>2 DEF Alone, Adding
  <2> QED BY <1>7, <2>1, SingleStep
<1>8. ASSUME NEW p \in Proc, FillGet(p) \/ Get(p) \/ DecGet(p) \/ Pick(p)
      PROVE  Single'
  BY <1>7, <1>8 DEF FillGet, Get, DecGet, Pick, vread, Goto
<1>9. ASSUME NEW p \in Proc, FillPut(p) \/ Put(p) \/ DecPut(p) \/ Move(p)
      PROVE  Single'
  <2>1. PICK l \in {"off", "mkdir", "pick"} : pc' = [pc EXCEPT ![p] = l]
    BY <1>9 DEF FillPut, Put, DecPut, Move, Goto
  <2>2. pc[p] # "off" /\ vwrite(p) /\ alone' = alone
    BY <1>9 DEF FillPut, Put, DecPut, Move
  <2>3. alone => Alone(p)'
    <3> SUFFICES ASSUME alone PROVE Alone(p)'
      OBVIOUS
    <3>1. Alone(p)
      BY <2>2 DEF Single
    <3>2. wrote'[p] = row'
      BY <2>2, <3>1, AloneWrite
    <3>3. pc'[p] = l
      BY <2>1 DEF Typed
    <3> QED BY <3>2, <3>3 DEF Alone, Adding
  <2> QED BY <2>1, <2>2, <2>3, SingleStep
<1>10. ASSUME NEW p \in Proc, Reset(p) PROVE Single'
  <2>1. /\ pc[p] = "reset" /\ pc' = [pc EXCEPT ![p] = "pick"]
        /\ wrote' = wrote /\ alone' = alone
    BY <1>10 DEF Reset, Goto, local
  <2>2. alone => Alone(p)'
    <3> SUFFICES ASSUME alone PROVE Alone(p)'
      OBVIOUS
    <3>1. wrote'[p] = None
      BY <2>1 DEF Single, Alone
    <3>2. pc'[p] = "pick"
      BY <2>1 DEF Typed
    <3> QED BY <3>1, <3>2 DEF Alone, Adding
  <2> QED BY <2>1, <2>2, SingleStep
<1> QED BY <1>1, <1>3, <1>4, <1>6, <1>8, <1>9, <1>10 DEF Next

(***************************************************************************)
(* As long as tools are run one after the other, and until the third level *)
(* is full, the layout never goes back to a directory it has left, but for *)
(* the reset of vreorg; for every number of characters, users and runs.    *)
(***************************************************************************)
THEOREM LayoutGoesForward == Spec => DirForward
<1>1. Init => RowInv /\ Typed /\ Owners /\ Single
  BY RowInvInit, TypedOwnersInit, SingleInit
<1>2. (RowInv /\ Typed /\ Owners /\ Single) /\ [Next]_vars
        => (RowInv /\ Typed /\ Owners /\ Single)'
  BY RowInvNext, TypedOwnersNext, SingleNext
<1>3. RowInv /\ Typed /\ Single /\ [Next]_vars =>
        [\/ Place(row') = Place(row) \/ Before(row, row')
         \/ ~alone \/ Full(row)
         \/ \E p \in Proc : pc[p] = "reset" /\ pc'[p] = "pick"]_vars
  <2> SUFFICES ASSUME RowInv, Typed, Single, Next, row' # row, alone, ~Full(row)
               PROVE  \/ Place(row') = Place(row) \/ Before(row, row')
                      \/ \E p \in Proc : pc[p] = "reset" /\ pc'[p] = "pick"
    OBVIOUS
  <2>1. \E p \in Proc : Reset(p) \/ FillPut(p) \/ Put(p) \/ DecPut(p) \/ Move(p)
    BY DEF Next, StartAdd, StartDel, Start, FillRead, FillRemove, FillGet, Get, Mkdir,
           MkdirFails, FillAppend, DecGet, StartReorg, Pick, EndReorg
  <2>2. PICK p \in Proc : Reset(p) \/ FillPut(p) \/ Put(p) \/ DecPut(p) \/ Move(p)
    BY <2>1
  <2>3. CASE Reset(p)
    BY <2>3 DEF Reset, Goto, Typed
  <2>4. CASE FillPut(p) \/ Put(p) \/ DecPut(p) \/ Move(p)
    <3>1. pc[p] \in {"fillput", "put", "decput", "move"} /\ vwrite(p)
      BY <2>4 DEF FillPut, Put, DecPut, Move
    <3>2. Alone(p)
      BY <3>1 DEF Single
    <3>3. row' = vdir[p]
      BY <3>1, <3>2, AloneWrite
    <3>4. row' \in {OneMore(row), inc_dir_control(row), OneLess(row)}
      BY <3>1, <3>2, <3>3 DEF Alone
    <3>5. WellFormed(row)
      BY DEF RowInv, RowWellFormed
    <3> QED BY <3>4, <3>5, IncForward, CountPlace
  <2> QED BY <2>2, <2>3, <2>4
<1> QED BY <1>1, <1>2, <1>3, PTL DEF Spec, DirForward

-----------------------------------------------------------------------------
(***************************************************************************)
(* As long as tools run one after the other and no home directory is       *)
(* refused, the count of the row is never ahead of the users there are,    *)
(* in the middle of a tool as well: vwrite_dir_control() counts a user in  *)
(* the step that locates it and counts it out in the step that takes its   *)
(* home, and vreorg, which writes only its first row, counts one.          *)
(***************************************************************************)
Counted ==
  alone /\ faults = 0 =>
    /\ row.cur_users <= Cardinality(Located)
    /\ \A p \in Proc :
         /\ pc[p] \in {"fillappend", "decget", "decput"} => wrote[p] = None
         /\ pc[p] \in {"pick", "move"} /\ wrote[p] = None => row.cur_users = 0

CountInv == IsFiniteSet(Located) /\ Counted

\* The set of users with a home, when the home of one user is set.
LEMMA LocatedSet ==
  ASSUME Typed, IsFiniteSet(Located), NEW u \in User, NEW h,
         home' = [home EXCEPT ![u] = h]
  PROVE  /\ h # None /\ home[u] = None =>
              /\ IsFiniteSet(Located') /\ Cardinality(Located') = Cardinality(Located) + 1
         /\ h # None /\ home[u] # None => Located' = Located
         /\ h = None /\ home[u] # None =>
              /\ IsFiniteSet(Located') /\ Cardinality(Located') = Cardinality(Located) - 1
         /\ Cardinality(Located) \in Nat
         /\ home[u] # None => Cardinality(Located) >= 1
<1>1. /\ h # None /\ home[u] = None => u \notin Located /\ Located' = Located \cup {u}
      /\ h # None /\ home[u] # None => Located' = Located
      /\ h = None /\ home[u] # None => u \in Located /\ Located' = Located \ {u}
      /\ home[u] # None => u \in Located
  BY DEF Located, Typed
<1>2. Cardinality(Located) \in Nat
  BY FS_CardinalityType
<1>3. u \in Located => Cardinality(Located) >= 1
  BY <1>2, FS_EmptySet
<1>4. h # None /\ home[u] = None =>
              /\ IsFiniteSet(Located') /\ Cardinality(Located') = Cardinality(Located) + 1
  BY <1>1, FS_AddElement
<1>5. h = None /\ home[u] # None =>
              /\ IsFiniteSet(Located') /\ Cardinality(Located') = Cardinality(Located) - 1
  BY <1>1, FS_RemoveElement
<1> QED BY <1>1, <1>2, <1>3, <1>4, <1>5

LEMMA CountInit == Init => CountInv
<1> SUFFICES ASSUME Init PROVE CountInv
  OBVIOUS
<1>1. Located = {}
  BY DEF Init, Located
<1>2. row.cur_users = 0
  BY DEF Init, init_dir_control
<1> QED BY <1>1, <1>2, FS_EmptySet DEF Init, CountInv, Counted

\* A step that changes neither a row nor a home.
LEMMA CountStep ==
  ASSUME Typed, CountInv, NEW p \in Proc, NEW l, pc' = [pc EXCEPT ![p] = l],
         UNCHANGED <<row, home, wrote>>, alone' => alone, faults' = 0 => faults = 0,
         l \in {"fillappend", "decget", "decput"} =>
           pc[p] \in {"fillappend", "decget", "decput"} \/ faults' # 0,
         l \in {"pick", "move"} => pc[p] \in {"pick", "move"}
  PROVE  CountInv'
<1>1. pc'[p] = l /\ \A q \in Proc : q # p => pc'[q] = pc[q]
  BY DEF Typed
<1>2. Located' = Located
  BY DEF Located
<1> QED BY <1>1, <1>2 DEF CountInv, Counted

\* A step of the only tool that runs that changes the row.
LEMMA CountRow ==
  ASSUME Typed, Single, NEW p \in Proc, NEW l \in {"off", "mkdir", "pick"}, pc[p] # "off",
         pc' = [pc EXCEPT ![p] = l], alone' => alone,
         IsFiniteSet(Located'),
         alone /\ faults' = 0 =>
           /\ row'.cur_users <= Cardinality(Located')
           /\ l = "pick" /\ wrote'[p] = None => row'.cur_users = 0
  PROVE  CountInv'
<1>1. pc'[p] = l /\ \A q \in Proc : q # p => pc'[q] = pc[q]
  BY DEF Typed
<1>2. alone' => \A q \in Proc : q # p => pc'[q] = "off"
  BY <1>1 DEF Single
<1> QED BY <1>1, <1>2 DEF CountInv, Counted

LEMMA CountNext ==
  ASSUME RowInv, Typed, Owners, Single, CountInv, [Next]_vars
  PROVE  CountInv'
<1>0. row.cur_users \in Nat /\ WellFormed(row)
  BY WellFormedLoose DEF RowInv, RowWellFormed, LooseRow
<1>1. CASE UNCHANGED vars
  BY <1>1 DEF vars, local, CountInv, Counted, Located
<1>2. ASSUME NEW p \in Proc, NEW l \in {"fillread", "fillappend", "reset"},
             alone' = (alone /\ Running = {}), UNCHANGED <<row, home, faults>>,
             pc' = [pc EXCEPT ![p] = l],
             wrote' = [wrote EXCEPT ![p] = None]
      PROVE  CountInv'
  <2>1. /\ pc'[p] = l /\ \A q \in Proc : q # p => pc'[q] = pc[q]
        /\ wrote'[p] = None /\ \A q \in Proc : q # p => wrote'[q] = wrote[q]
    BY <1>2 DEF Typed, RowInv
  <2>2. Located' = Located /\ (alone' => alone)
    BY <1>2 DEF Located
  <2> QED BY <1>2, <2>1, <2>2 DEF CountInv, Counted
<1>3. ASSUME NEW p \in Proc, NEW u \in User, StartAdd(p, u) \/ StartDel(p, u)
      PROVE  CountInv'
  BY <1>2, <1>3 DEF StartAdd, StartDel, Start, Goto
<1>4. ASSUME NEW p \in Proc, StartReorg(p) PROVE CountInv'
  BY <1>2, <1>4 DEF StartReorg, Start, Goto
<1>5. ASSUME NEW p \in Proc, FillRead(p) \/ FillRemove(p) \/ FillGet(p) \/ Get(p) PROVE CountInv'
  <2>1. PICK l \in {"get", "fillremove", "fillget", "fillput", "put"} : pc' = [pc EXCEPT ![p] = l]
    BY <1>5 DEF FillRead, FillRemove, FillGet, Get, Goto
  <2>2. UNCHANGED <<row, home, wrote, alone, faults>>
    BY <1>5 DEF FillRead, FillRemove, FillGet, Get, local
  <2> QED BY <2>1, <2>2, CountStep
<1>6. ASSUME NEW p \in Proc, Mkdir(p) \/ EndReorg(p) PROVE CountInv'
  BY <1>6, CountStep DEF Mkdir, EndReorg, Goto, local
<1>7. ASSUME NEW p \in Proc, MkdirFails(p) PROVE CountInv'
  <2>1. faults' # 0 /\ alone' = alone
    BY <1>7 DEF MkdirFails, Typed
  <2>2. pc' = [pc EXCEPT ![p] = "fillappend"] /\ UNCHANGED <<row, home, wrote>>
    BY <1>7 DEF MkdirFails, Goto, local
  <2> QED BY <2>1, <2>2, CountStep
<1>8. ASSUME NEW p \in Proc, FillAppend(p) \/ DecGet(p) \/ Pick(p) PROVE CountInv'
  <2>1. UNCHANGED <<row, home, wrote, alone, faults>>
    BY <1>8 DEF FillAppend, DecGet, Pick, local
  <2>2. \/ pc[p] = "fillappend" /\ pc' = [pc EXCEPT ![p] = "decget"]
        \/ pc[p] = "decget" /\ pc' = [pc EXCEPT ![p] = "decput"]
        \/ pc[p] = "pick" /\ pc' = [pc EXCEPT ![p] = "move"]
    BY <1>8 DEF FillAppend, DecGet, Pick, Goto
  <2> QED BY <2>1, <2>2, CountStep
<1>9. ASSUME NEW p \in Proc, Reset(p) PROVE CountInv'
  <2>1. row'.cur_users = 0 /\ Located' = Located
    BY <1>9 DEF Reset, init_dir_control, Located
  <2>2. Cardinality(Located) \in Nat
    BY FS_CardinalityType DEF CountInv
  <2>3. row'.cur_users <= Cardinality(Located') /\ IsFiniteSet(Located')
    BY <2>1, <2>2 DEF CountInv
  <2> QED BY <1>9, <2>1, <2>3, CountRow DEF Reset, Goto, local
<1>10. ASSUME NEW p \in Proc, FillPut(p) \/ Put(p) PROVE CountInv'
  <2>1. PICK h \in Name : home' = [home EXCEPT ![who[p]] = h]
    BY <1>10, TextType DEF FillPut, Put, Typed, RowInv, RowWellFormed, Name
  <2>2. /\ pc[p] \in {"fillput", "put"} /\ vwrite(p) /\ pc' = [pc EXCEPT ![p] = "mkdir"]
        /\ alone' = alone /\ faults' = faults
    BY <1>10 DEF FillPut, Put, Goto
  <2>3. who[p] \in User /\ home[who[p]] = None
    BY <2>2 DEF Owners, Adding
  <2>4. IsFiniteSet(Located') /\ Cardinality(Located') = Cardinality(Located) + 1
        /\ Cardinality(Located) \in Nat
    BY <2>1, <2>3, LocatedSet, NameNotNone DEF CountInv
  <2>5. alone /\ faults = 0 => row'.cur_users <= Cardinality(Located')
    <3> SUFFICES ASSUME alone, faults = 0 PROVE row'.cur_users <= Cardinality(Located')
      OBVIOUS
    <3>1. Alone(p)
      BY <2>2 DEF Single
    <3>2. row' = vdir[p]
      BY <2>2, <3>1, AloneWrite DEF Alone, Adding
    <3>3. row' = OneMore(row) \/ row' = inc_dir_control(row)
      BY <2>2, <3>1, <3>2 DEF Alone
    <3>4. row'.cur_users \in {row.cur_users, row.cur_users + 1}
      BY <1>0, <3>3, IncForward, CountPlace
    <3>5. row.cur_users <= Cardinality(Located)
      BY DEF CountInv, Counted
    <3> QED BY <1>0, <2>4, <3>4, <3>5
  <2> QED BY <2>2, <2>4, <2>5, CountRow
<1>11. ASSUME NEW p \in Proc, Move(p) PROVE CountInv'
  <2> DEFINE h == Text(DirName(vdir[p]))
  <2>1. h # None /\ home' = [home EXCEPT ![who[p]] = h]
    BY <1>11, TextType, NameNotNone DEF Move, RowInv, RowWellFormed, Name
  <2> HIDE DEF h
  <2>2. /\ pc[p] = "move" /\ vwrite(p) /\ pc' = [pc EXCEPT ![p] = "pick"]
        /\ alone' = alone /\ faults' = faults
    BY <1>11 DEF Move, Goto
  <2>3. who[p] \in User /\ home[who[p]] # None
    BY <2>2 DEF Owners, Having
  <2>4. Located' = Located /\ Cardinality(Located) \in Nat /\ Cardinality(Located) >= 1
    BY <2>1, <2>3, LocatedSet DEF CountInv
  <2>5. alone /\ faults = 0 => row'.cur_users <= Cardinality(Located') /\ wrote'[p] # None
    <3> SUFFICES ASSUME alone, faults = 0
                 PROVE  row'.cur_users <= Cardinality(Located') /\ wrote'[p] # None
      OBVIOUS
    <3>1. Alone(p)
      BY <2>2 DEF Single
    <3>2. /\ wrote[p] = None => row' = inc_dir_control(row)
          /\ wrote[p] # None => row' = row
          /\ wrote'[p] = row'
      BY <2>2, <3>1, AloneWrite DEF Alone
    <3>3. row'.cur_users <= Cardinality(Located)
      <4>1. CASE wrote[p] = None
        <5>1. row.cur_users = 0
          BY <2>2, <4>1 DEF CountInv, Counted
        <5>2. row'.cur_users = 1
          BY <1>0, <3>2, <4>1, <5>1, IncForward
        <5> QED BY <2>4, <5>2
      <4>2. CASE wrote[p] # None
        BY <3>2, <4>2 DEF CountInv, Counted
      <4> QED BY <4>1, <4>2
    <3>4. WellFormed(row')
      BY <1>0, <3>2, IncWellFormed
    <3>5. row' # None
      BY <3>4, NoneAssumption DEF WellFormed
    <3> QED BY <2>4, <3>2, <3>3, <3>5
  <2> QED BY <2>2, <2>4, <2>5, CountRow DEF CountInv
<1>12. ASSUME NEW p \in Proc, DecPut(p) PROVE CountInv'
  <2>1. /\ pc[p] = "decput" /\ vwrite(p) /\ pc' = [pc EXCEPT ![p] = "off"]
        /\ home' = [home EXCEPT ![who[p]] = None]
        /\ alone' = alone /\ faults' = faults
    BY <1>12 DEF DecPut, Goto
  <2>2. who[p] \in User /\ home[who[p]] # None
    BY <2>1 DEF Owners, Having
  <2>3. /\ IsFiniteSet(Located') /\ Cardinality(Located') = Cardinality(Located) - 1
        /\ Cardinality(Located) \in Nat /\ Cardinality(Located) >= 1
    BY <2>1, <2>2, LocatedSet DEF CountInv
  <2>4. alone /\ faults = 0 => row'.cur_users <= Cardinality(Located')
    <3> SUFFICES ASSUME alone, faults = 0 PROVE row'.cur_users <= Cardinality(Located')
      OBVIOUS
    <3>1. Alone(p) /\ wrote[p] = None
      BY <2>1 DEF Single, CountInv, Counted
    <3>2. row' = OneLess(row)
      BY <2>1, <3>1, AloneWrite DEF Alone
    <3>3. row'.cur_users \in {0, row.cur_users - 1}
      BY <1>0, <3>2, CountPlace
    <3>4. row.cur_users <= Cardinality(Located)
      BY DEF CountInv, Counted
    <3> QED BY <1>0, <2>3, <3>3, <3>4
  <2> QED BY <2>1, <2>3, <2>4, CountRow
<1> QED
  BY <1>1, <1>3, <1>4, <1>5, <1>6, <1>7, <1>8, <1>9, <1>10, <1>11, <1>12 DEF Next

(***************************************************************************)
(* As long as tools are run one after the other and no home directory is   *)
(* refused, the count is never more than the users there are, for any      *)
(* number of users, runs, characters and users per level: what backfill(), *)
(* close_big_dir() and dec_dir_control() count does not drift upwards.     *)
(***************************************************************************)
THEOREM CountNeverAhead == Spec => []CountBound
<1>1. Init => RowInv /\ Typed /\ Owners /\ Single /\ CountInv
  BY RowInvInit, TypedOwnersInit, SingleInit, CountInit
<1>2. (RowInv /\ Typed /\ Owners /\ Single /\ CountInv) /\ [Next]_vars
        => (RowInv /\ Typed /\ Owners /\ Single /\ CountInv)'
  BY RowInvNext, TypedOwnersNext, SingleNext, CountNext
<1>3. CountInv => CountBound
  BY DEF CountInv, Counted, CountBound
<1> QED BY <1>1, <1>2, <1>3, PTL DEF Spec
=============================================================================

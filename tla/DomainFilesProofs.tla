-------------------------- MODULE DomainFilesProofs -------------------------
(***************************************************************************)
(* Proofs about the tools that add, delete and rename domains, for any     *)
(* number of tools, domains, operations and failing steps: the types, and  *)
(* that what they report of a domain is so and stays so.                   *)
(*                                                                         *)
(* The invariant Inv takes a program for the set of steps it has still to  *)
(* make: what is no longer in it is done.  A step changes only what the    *)
(* step says (Effect), so that the other tools and what was reported of    *)
(* other domains need be looked at only once (InvFrom).                    *)
(***************************************************************************)
EXTENDS DomainFiles, FiniteSetTheorems, SequenceTheorems, TLAPS

-----------------------------------------------------------------------------
(* What a program is made of.                                              *)

Fails == {"stop", "skip", "over1", "over2", "rollback", "undo"}

\* Edits of a control file; only one of these is made again when it fails.
FileSteps == [do : {"put", "drop"}, f : Files, d : Domains, e : Domains,
              fail : Fails \cup {"again"}]

\* Steps on the directory, the database and .aliasdomains, and decisions.
OtherDos == {"absent", "present", "find", "turn", "ifknown", "count", "rcpt", "mkdir",
             "excl", "symlink", "enlist", "strike", "rmdir", "tables", "postmaster",
             "norows", "mvrows", "mvdir", "relink", "failed"}
OtherSteps == [do : OtherDos, f : {"assign", "rcpthosts", "dir", "seen", "rows", "aliasdomains", "none"},
               d : Domains, e : Domains, fail : Fails]

\* The two steps of qmail-newu, which are about no domain.
NewuSteps == {Edit("compile", "assign", "none", "over1"), Edit("install", "assign", "none", "skip")}

Steps == FileSteps \cup OtherSteps \cup NewuSteps

LEMMA EditSteps ==
  ASSUME NEW d \in Domains
  PROVE  /\ \A do \in {"put", "drop"}, f \in Files, fail \in Fails \cup {"again"} :
              Edit(do, f, d, fail) \in Steps
         /\ \A do \in OtherDos, f \in {"assign", "rcpthosts", "dir", "seen", "rows", "none"},
               fail \in Fails : Edit(do, f, d, fail) \in Steps
BY DEF Edit, S, Steps, FileSteps, OtherSteps

LEMMA PairSteps ==
  ASSUME NEW d \in Domains, NEW e \in Domains
  PROVE  /\ S("symlink", "dir", d, e, "stop") \in Steps
         /\ S("enlist", "aliasdomains", e, d, "stop") \in Steps
         /\ S("strike", "aliasdomains", e, d, "stop") \in Steps
         /\ S("mvdir", "dir", d, e, "stop") \in Steps
         /\ S("mvrows", "rows", d, e, "stop") \in Steps
         /\ S("relink", "aliasdomains", d, e, "stop") \in Steps
         /\ S("turn", "assign", d, e, "stop") \in Steps
BY DEF S, Steps, OtherSteps, OtherDos, Fails

-----------------------------------------------------------------------------
(* The programs.                                                           *)

LEMMA Joined ==
  ASSUME NEW a \in Seq(Steps), NEW b \in Seq(Steps)
  PROVE  a \o b \in Seq(Steps)
BY ConcatProperties

LEMMA NewuProg == update_newu \in Seq(Steps)
BY DEF update_newu, Steps, NewuSteps

LEMMA AssignProgs ==
  ASSUME NEW d \in Domains
  PROVE  /\ add_domain_assign(d) \in Seq(Steps)
         /\ \A fail \in Fails : del_domain_assign(d, fail) \in Seq(Steps)
<1>1. <<Edit("put", "assign", d, "stop")>> \in Seq(Steps)
  BY EditSteps DEF Files, Fails
<1>2. \A fail \in Fails : <<Edit("drop", "assign", d, fail)>> \in Seq(Steps)
  BY EditSteps DEF Files
<1> QED
  BY <1>1, <1>2, NewuProg, Joined DEF add_domain_assign, del_domain_assign

LEMMA ControlProgs ==
  ASSUME NEW d \in Domains
  PROVE  /\ add_control(d) \in Seq(Steps)
         /\ \A fail \in Fails : del_control(d, fail) \in Seq(Steps)
<1>1. /\ Edit("count", "rcpthosts", d, "stop") \in Steps
      /\ Edit("rcpt", "rcpthosts", d, "stop") \in Steps
      /\ Edit("put", "virtualdomains", d, "stop") \in Steps
      /\ Edit("drop", "locals", d, "stop") \in Steps
      /\ Edit("drop", "rcpthosts", d, "again") \in Steps
      /\ Edit("drop", "chkrcptdomains", d, "skip") \in Steps
      /\ \A fail \in Fails : Edit("drop", "virtualdomains", d, fail) \in Steps
  BY EditSteps DEF Files, Fails, OtherDos
<1> QED
  BY <1>1 DEF add_control, del_control

LEMMA OperationProgs ==
  ASSUME NEW d \in Domains, NEW e \in Domains
  PROVE  /\ add(d) \in Seq(Steps) /\ Rollback(d) \in Seq(Steps) /\ UndoAll(d) \in Seq(Steps)
         /\ alias(d, e) \in Seq(Steps) /\ rename(d, e) \in Seq(Steps)
         /\ <<Edit("find", "assign", d, "stop")>> \in Seq(Steps)
         /\ <<Edit("ifknown", "assign", d, "stop")>> \in Seq(Steps)
         /\ <<S("turn", "assign", d, e, "stop")>> \in Seq(Steps)
<1>1. /\ Edit("absent", "assign", d, "stop") \in Steps /\ Edit("mkdir", "dir", d, "stop") \in Steps
      /\ Edit("excl", "dir", d, "stop") \in Steps /\ Edit("tables", "rows", d, "rollback") \in Steps
      /\ Edit("put", "chkrcptdomains", d, "rollback") \in Steps
      /\ Edit("postmaster", "rows", d, "undo") \in Steps
      /\ Edit("rmdir", "dir", d, "skip") \in Steps /\ Edit("failed", "none", d, "skip") \in Steps
      /\ Edit("present", "assign", e, "stop") \in Steps /\ Edit("find", "assign", d, "stop") \in Steps
      /\ Edit("ifknown", "assign", d, "stop") \in Steps
  BY EditSteps DEF Files, Fails, OtherDos
<1>2. /\ add_domain_assign(d) \in Seq(Steps) /\ add_domain_assign(e) \in Seq(Steps)
      /\ add_control(d) \in Seq(Steps) /\ add_control(e) \in Seq(Steps)
      /\ del_domain_assign(d, "stop") \in Seq(Steps) /\ del_domain_assign(d, "over2") \in Seq(Steps)
      /\ del_control(d, "stop") \in Seq(Steps) /\ del_control(d, "skip") \in Seq(Steps)
  BY AssignProgs, ControlProgs DEF Fails
<1>3. add(d) \in Seq(Steps)
  <2>1. /\ <<Edit("absent", "assign", d, "stop"), Edit("mkdir", "dir", d, "stop"),
             Edit("excl", "dir", d, "stop")>> \in Seq(Steps)
        /\ <<Edit("tables", "rows", d, "rollback"), Edit("put", "chkrcptdomains", d, "rollback"),
             Edit("postmaster", "rows", d, "undo")>> \in Seq(Steps)
    BY <1>1
  <2> QED BY <1>2, <2>1, Joined DEF add
<1>4. Rollback(d) \in Seq(Steps)
  <2>1. <<Edit("rmdir", "dir", d, "skip"), Edit("failed", "none", d, "skip")>> \in Seq(Steps)
    BY <1>1
  <2> QED BY <1>2, <2>1, Joined DEF Rollback
<1>5. UndoAll(d) \in Seq(Steps)
  BY <1>1 DEF UndoAll
<1>6. alias(d, e) \in Seq(Steps)
  <2>1. /\ <<Edit("absent", "assign", d, "stop"), Edit("present", "assign", e, "stop"),
             S("symlink", "dir", d, e, "stop")>> \in Seq(Steps)
        /\ <<S("enlist", "aliasdomains", e, d, "stop")>> \in Seq(Steps)
    BY <1>1, PairSteps
  <2> QED BY <1>2, <2>1, Joined DEF alias
<1>7. rename(d, e) \in Seq(Steps)
  <2>1. /\ <<S("mvdir", "dir", d, e, "stop"), S("mvrows", "rows", d, e, "stop")>> \in Seq(Steps)
        /\ <<S("relink", "aliasdomains", d, e, "stop")>> \in Seq(Steps)
    BY PairSteps
  <2> QED BY <1>2, <2>1, Joined DEF rename
<1>8. <<S("turn", "assign", d, e, "stop")>> \in Seq(Steps)
  BY PairSteps
<1> QED BY <1>1, <1>3, <1>4, <1>5, <1>6, <1>7, <1>8

-----------------------------------------------------------------------------
(* The types.                                                              *)

StoreOK ==
  /\ file \in [Files -> SUBSET Domains]
  /\ cdb \in SUBSET Domains /\ rows \in SUBSET Domains
  /\ dir \in [Domains -> {"none", "bare", "full", "link"}]
  /\ link \in [Domains -> [to : Domains, abs : BOOLEAN]]
  /\ aliases \in [Domains -> SUBSET Domains] /\ hasAliases \in [Domains -> BOOLEAN]

Doing == [do : Ops \cup {"del", "unlink", "undo"}, d : Domains, e : Domains, cwd : BOOLEAN]
Tolds == {"none", "there", "gone", "unlinked", "rolled"}

\* A tool that has something to do is at an operation.
ControlOK ==
  /\ op \in [Tools -> {Idle} \cup Doing]
  /\ snap \in [Tools -> SUBSET Domains] /\ full \in [Tools -> BOOLEAN]
  /\ told \in [Domains -> Tolds]
  /\ mixed \in SUBSET Domains
  /\ prog \in [Tools -> Seq(Steps)]
  /\ \A t \in Tools : prog[t] # <<>> => op[t] # Idle

CountOK == ops \in 0..MaxOps /\ faults \in 0..MaxFaults

TypeInv == StoreOK /\ ControlOK /\ CountOK

\* The step a tool is at.
LEMMA StepNow ==
  ASSUME ControlOK, NEW t \in Tools, prog[t] # <<>>
  PROVE  /\ Now(t) \in Steps /\ Tail(prog[t]) \in Seq(Steps)
         /\ op[t] \in Doing /\ op[t] # Idle
<1>1. prog[t] \in Seq(Steps)
  BY DEF ControlOK
<1>2. Head(prog[t]) \in Steps /\ Tail(prog[t]) \in Seq(Steps)
  BY <1>1, HeadTailProperties
<1>3. op[t] \in Doing /\ op[t] # Idle
  BY DEF ControlOK
<1> QED BY <1>2, <1>3 DEF Now

LEMMA StepKinds ==
  ASSUME NEW s \in Steps
  PROVE  /\ s.do \in {"put", "drop"} => s.f \in Files /\ s.d \in Domains
         /\ s.do \in OtherDos => s.d \in Domains /\ s.e \in Domains
         /\ s.fail \in {"again", "rollback", "undo"} => s.d \in Domains
         /\ s.fail = "again" => s.f \in Files
<1>1. CASE s \in FileSteps
  BY <1>1 DEF FileSteps, OtherDos
<1>2. CASE s \in OtherSteps
  BY <1>2 DEF OtherSteps, Fails, OtherDos
<1>3. CASE s \in NewuSteps
  BY <1>3 DEF NewuSteps, Edit, S, OtherDos
<1> QED BY <1>1, <1>2, <1>3 DEF Steps

LEMMA ResolveType ==
  ASSUME StoreOK, NEW d \in Domains
  PROVE  Resolve(d) \in Domains /\ link[d].to \in Domains /\ aliases[Resolve(d)] \subseteq Domains
<1>1. link[d] \in [to : Domains, abs : BOOLEAN]
  BY DEF StoreOK
<1>2. link[d].to \in Domains
  BY <1>1
<1>3. Resolve(d) \in Domains
  BY <1>2 DEF Resolve
<1> QED BY <1>2, <1>3 DEF StoreOK

LEMMA NamedType ==
  ASSUME NEW o \in Doing
  PROVE  o.d \in Domains /\ o.e \in Domains /\ Named(o) \subseteq Domains
<1>1. o.d \in Domains /\ o.e \in Domains
  BY DEF Doing
<1> QED BY <1>1 DEF Named

-----------------------------------------------------------------------------
(* What the steps do to the tool and to what it reports.                   *)

LEMMA GoToControl ==
  ASSUME ControlOK, NEW t \in Tools, prog[t] # <<>>, NEW p \in Seq(Steps), GoTo(t, p)
  PROVE  ControlOK'
<1>1. prog' = [prog EXCEPT ![t] = p] /\ UNCHANGED <<op, told, mixed, snap, full>>
  BY DEF GoTo
<1>2. prog' \in [Tools -> Seq(Steps)]
  BY <1>1 DEF ControlOK
<1>3. \A u \in Tools : prog'[u] # <<>> => op'[u] # Idle
  BY <1>1 DEF ControlOK
<1> QED BY <1>1, <1>2, <1>3 DEF ControlOK

LEMMA GoControl ==
  ASSUME ControlOK, NEW t \in Tools, prog[t] # <<>>, Go(t)
  PROVE  ControlOK'
BY StepNow, GoToControl DEF Go

LEMMA QuitControl ==
  ASSUME StoreOK, ControlOK, NEW t \in Tools, NEW say \in [Domains -> Tolds], Quit(t, say)
  PROVE  ControlOK'
<1>1. /\ op' = [op EXCEPT ![t] = Idle] /\ prog' = [prog EXCEPT ![t] = <<>>]
      /\ snap' = [snap EXCEPT ![t] = {}] /\ full' = [full EXCEPT ![t] = FALSE]
      /\ told' = [d \in Domains |-> IF d \in mixed THEN told[d] ELSE say[d]]
      /\ mixed' \subseteq mixed
  BY DEF Quit
<1>2. op' \in [Tools -> {Idle} \cup Doing] /\ prog' \in [Tools -> Seq(Steps)]
  BY <1>1 DEF ControlOK
<1>3. snap' \in [Tools -> SUBSET Domains] /\ full' \in [Tools -> BOOLEAN]
  BY <1>1 DEF ControlOK
<1>4. told' \in [Domains -> Tolds] /\ mixed' \in SUBSET Domains
  BY <1>1 DEF ControlOK
<1>5. \A u \in Tools : prog'[u] # <<>> => op'[u] # Idle
  BY <1>1 DEF ControlOK
<1> QED BY <1>2, <1>3, <1>4, <1>5 DEF ControlOK

LEMMA LeaveControl ==
  ASSUME StoreOK, ControlOK, NEW t \in Tools, NEW ok, Leave(t, ok)
  PROVE  ControlOK'
<1> DEFINE say == [d \in Domains |-> IF ok THEN Report(op[t], d) ELSE told[d]]
<1>1. \A d \in Domains : told[d] \in Tolds
  BY DEF ControlOK
<1>2. \A d \in Domains : Report(op[t], d) \in Tolds
  <2> SUFFICES ASSUME NEW d \in Domains PROVE Report(op[t], d) \in Tolds
    OBVIOUS
  <2>1. "there" \in Tolds /\ "gone" \in Tolds /\ "unlinked" \in Tolds /\ told[d] \in Tolds
    BY <1>1 DEF Tolds
  <2> QED BY <2>1 DEF Report
<1>3. say \in [Domains -> Tolds]
  BY <1>1, <1>2
<1>4. Quit(t, say)
  BY DEF Leave
<1> HIDE DEF say
<1> QED BY <1>3, <1>4, QuitControl

LEMMA OverlapType ==
  ASSUME ControlOK, NEW t \in Tools, NEW o \in Doing
  PROVE  Overlap(t, o, Named(o)) \subseteq Domains /\ Unsaid(o) \in [Domains -> Tolds]
<1>1. Overlap(t, o, Named(o)) \subseteq Domains
  BY NamedType DEF Overlap
<1>2. Unsaid(o) \in [Domains -> Tolds]
  BY DEF Unsaid, ControlOK, Tolds
<1> QED BY <1>1, <1>2

LEMMA UndoControl ==
  ASSUME StoreOK, ControlOK, NEW t \in Tools, prog[t] # <<>>, NEW p \in Seq(Steps), Undo(t, p)
  PROVE  ControlOK'
<1> DEFINE o == [op[t] EXCEPT !.do = "undo"]
<1>1. op[t] \in Doing
  BY StepNow
<1>2. o \in Doing /\ o # Idle
  BY <1>1 DEF Doing, Idle
<1>3. /\ prog' = [prog EXCEPT ![t] = p] /\ op' = [op EXCEPT ![t] = o]
      /\ mixed' = mixed \cup Overlap(t, o, Named(o))
      /\ UNCHANGED <<told, snap, full>>
  BY DEF Undo
<1> HIDE DEF o
<1>4. mixed' \in SUBSET Domains
  BY <1>2, <1>3, OverlapType DEF ControlOK
<1>5. op' \in [Tools -> {Idle} \cup Doing] /\ prog' \in [Tools -> Seq(Steps)]
  BY <1>2, <1>3 DEF ControlOK
<1>6. \A u \in Tools : prog'[u] # <<>> => op'[u] # Idle
  BY <1>2, <1>3 DEF ControlOK
<1> QED BY <1>3, <1>4, <1>5, <1>6 DEF ControlOK

-----------------------------------------------------------------------------
(* The programs that depend on the store.                                  *)

LEMMA DelProg ==
  ASSUME StoreOK, NEW d \in Domains, NEW cwd, NEW s \in SetToSeqs(Listed(d, cwd))
  PROVE  deldomain(d, cwd, s) \in Seq(Steps)
<1> DEFINE L == Listed(d, cwd)
           e == Resolve(d)
           n == Cardinality(L)
           each == [i \in DOMAIN s |-> remove_alias_domain(s[i], e)]
<1>1. e \in Domains /\ L \subseteq Domains
  BY ResolveType DEF Listed
<1>2. n \in Nat
  BY <1>1, DomainsAssumption, FS_Subset, FS_CardinalityType
<1>3. DOMAIN s = 1..n /\ \A i \in 1..n : s[i] \in L
  BY DEF SetToSeqs
<1> HIDE DEF L, e, n
<1>4. \A i \in 1..n : remove_alias_domain(s[i], e) \in Steps
  BY <1>1, <1>3, PairSteps DEF remove_alias_domain
<1>5. each \in [1..n -> Steps]
  BY <1>3, <1>4
<1>6. each \in Seq(Steps)
  BY <1>2, <1>5
<1>7. <<remove_alias_domain(d, e)>> \in Seq(Steps)
  BY <1>1, PairSteps DEF remove_alias_domain
<1> HIDE DEF each
<1> DEFINE first == IF is_alias_domain(d, cwd) THEN <<remove_alias_domain(d, e)>> ELSE each
           third == IF is_alias_domain(d, cwd) THEN <<>> ELSE <<Edit("norows", "rows", d, "stop")>>
<1>8. first \in Seq(Steps)
  BY <1>6, <1>7
<1>9. third \in Seq(Steps) /\ <<Edit("rmdir", "seen", d, "stop")>> \in Seq(Steps)
  <2>1. Edit("norows", "rows", d, "stop") \in Steps /\ Edit("rmdir", "seen", d, "stop") \in Steps
    BY EditSteps DEF OtherDos, Fails
  <2> QED BY <2>1
<1>10. deldomain(d, cwd, s) = first \o del_domain_assign(d, "stop")
          \o <<Edit("rmdir", "seen", d, "stop")>> \o third \o del_control(d, "stop")
  BY DEF deldomain, first, third, each, e
<1> HIDE DEF first, third
<1>11. del_domain_assign(d, "stop") \in Seq(Steps) /\ del_control(d, "stop") \in Seq(Steps)
  BY AssignProgs, ControlProgs DEF Fails
<1> QED BY <1>8, <1>9, <1>10, <1>11, Joined

\* What Find does when the domain is there.
LEMMA FindControl ==
  ASSUME StoreOK, ControlOK, NEW t \in Tools, Find(t), Now(t).d \in cdb,
         prog[t] # <<>>, Now(t).d \in Domains, Tail(prog[t]) \in Seq(Steps)
  PROVE  ControlOK'
<1> DEFINE d == Now(t).d
           cwd == op[t].cwd
           kind == IF op[t].do = "undo" THEN "undo" ELSE IF is_alias_domain(d, cwd) THEN "unlink" ELSE "del"
           o == [op[t] EXCEPT !.do = kind]
<1>1. PICK s \in SetToSeqs(Listed(d, cwd)) :
         prog' = [prog EXCEPT ![t] = deldomain(d, cwd, s) \o Tail(prog[t])]
  BY DEF Find
<1>2. /\ op' = [op EXCEPT ![t] = o] /\ mixed' = mixed \cup Overlap(t, op[t], Listed(d, cwd))
      /\ told' = [a \in Domains |-> IF a \in Listed(d, cwd) THEN "none" ELSE told[a]]
      /\ UNCHANGED <<snap, full>>
  BY DEF Find
<1>3. deldomain(d, cwd, s) \o Tail(prog[t]) \in Seq(Steps)
  BY DelProg, Joined
<1>4. op[t] \in Doing
  BY StepNow
<1>5. o \in Doing /\ o # Idle
  BY <1>4 DEF Doing, Idle
<1>6. Listed(d, cwd) \subseteq Domains
  BY ResolveType DEF Listed
<1> HIDE DEF d, cwd, o
<1>7. op' \in [Tools -> {Idle} \cup Doing] /\ prog' \in [Tools -> Seq(Steps)]
  BY <1>1, <1>2, <1>3, <1>5 DEF ControlOK
<1>8. \A u \in Tools : prog'[u] # <<>> => op'[u] # Idle
  BY <1>1, <1>2, <1>5 DEF ControlOK
<1>9. told' \in [Domains -> Tolds] /\ mixed' \in SUBSET Domains
  BY <1>2, <1>6 DEF ControlOK, Tolds, Overlap
<1> QED BY <1>2, <1>7, <1>8, <1>9 DEF ControlOK

\* What is left of a program after one, two or three steps.
LEMMA RestProg ==
  ASSUME NEW p \in Seq(Steps), NEW k \in Nat
  PROVE  SubSeq(p, 2 + k, Len(p)) \in Seq(Steps)
<1>1. Len(p) \in Nat /\ 2 + k \in Int
  OBVIOUS
<1>2. \A i \in (2 + k)..Len(p) : p[i] \in Steps
  BY <1>1
<1> QED BY <1>1, <1>2, SubSeqProperties

-----------------------------------------------------------------------------
(* The actions.                                                            *)

LEMMA BeginTypes ==
  ASSUME TypeInv, NEW t \in Tools, NEW o \in Operations, Begin(t, o)
  PROVE  TypeInv'
<1>1. /\ ops < MaxOps /\ ops' = ops + 1 /\ op' = [op EXCEPT ![t] = o]
      /\ mixed' = mixed \cup Overlap(t, o, Named(o)) /\ told' = Unsaid(o)
      /\ UNCHANGED <<store, snap, full, faults>>
  BY DEF Begin
<1>2. o \in Doing /\ o # Idle /\ o.d \in Domains /\ o.e \in Domains /\ o.do \in Ops
  BY OpsAssumption DEF Operations, Doing, Idle
<1>3. StoreOK /\ ControlOK /\ CountOK
  BY DEF TypeInv
<1>4. CountOK'
  BY <1>1, <1>3, BoundAssumption DEF CountOK
<1>5. StoreOK'
  BY <1>1, <1>3 DEF StoreOK, store
<1>6. \E p \in Seq(Steps) : prog' = [prog EXCEPT ![t] = p]
  <2>1. /\ add(o.d) \in Seq(Steps) /\ alias(o.d, o.e) \in Seq(Steps)
        /\ <<Edit("find", "assign", o.d, "stop")>> \in Seq(Steps)
        /\ <<S("turn", "assign", o.d, o.e, "stop")>> \in Seq(Steps)
    BY <1>2, OperationProgs
  <2>2. o.do \in {"add", "alias", "del", "rename"}
    BY <1>2, OpsAssumption
  <2> QED BY <2>1, <2>2 DEF Begin
<1>7. PICK p \in Seq(Steps) : prog' = [prog EXCEPT ![t] = p]
  BY <1>6
<1>8. Overlap(t, o, Named(o)) \subseteq Domains /\ Unsaid(o) \in [Domains -> Tolds]
  BY <1>2, <1>3, OverlapType
<1>9. op' \in [Tools -> {Idle} \cup Doing] /\ prog' \in [Tools -> Seq(Steps)]
  BY <1>1, <1>2, <1>3, <1>7 DEF ControlOK
<1>10. \A u \in Tools : prog'[u] # <<>> => op'[u] # Idle
  BY <1>1, <1>2, <1>3, <1>7 DEF ControlOK
<1>11. ControlOK'
  BY <1>1, <1>3, <1>8, <1>9, <1>10 DEF ControlOK
<1> QED BY <1>4, <1>5, <1>11 DEF TypeInv

\* The decisions, which leave the store alone.
LEMMA DecisionTypes ==
  ASSUME TypeInv, NEW t \in Tools,
         Absent(t) \/ Present(t) \/ Find(t) \/ Turn(t) \/ IfKnown(t) \/ Tables(t) \/ Failed(t) \/ End(t)
  PROVE  TypeInv'
<1>1. StoreOK /\ ControlOK /\ CountOK
  BY DEF TypeInv
<1>2. UNCHANGED <<store, ops, faults>>
  BY DEF Absent, Present, Find, Turn, IfKnown, Tables, Failed, End
<1>3. StoreOK' /\ CountOK'
  BY <1>1, <1>2 DEF StoreOK, CountOK, store
<1>4. ASSUME prog[t] # <<>>
      PROVE  /\ Now(t) \in Steps /\ Tail(prog[t]) \in Seq(Steps)
             /\ Now(t).do \in OtherDos => Now(t).d \in Domains /\ Now(t).e \in Domains
  BY <1>1, <1>4, StepNow, StepKinds
<1>5. ControlOK'
  <2>1. CASE Absent(t)
    BY <1>1, <2>1, GoControl, LeaveControl DEF Absent, At
  <2>2. CASE Present(t)
    BY <1>1, <2>2, GoControl, LeaveControl DEF Present, At
  <2>3. CASE Find(t)
    <3> DEFINE d == Now(t).d
    <3>1. prog[t] # <<>> /\ Now(t).do = "find"
      BY <2>3 DEF Find, At, Now
    <3>2. d \in Domains /\ Tail(prog[t]) \in Seq(Steps)
      BY <1>4, <3>1 DEF OtherDos
    <3>3. CASE d \in cdb
      BY <1>1, <2>3, <3>1, <3>2, <3>3, FindControl
    <3>4. CASE d \notin cdb
      BY <1>1, <2>3, <3>4, LeaveControl DEF Find
    <3> QED BY <3>3, <3>4
  <2>4. CASE Turn(t)
    <3> DEFINE d == Now(t).d
               e == Now(t).e
               p == IF is_alias_domain(d, op[t].cwd)
                      THEN alias(e, link[d].to) \o <<Edit("find", "assign", d, "stop")>>
                      ELSE rename(d, e)
    <3>1. prog[t] # <<>> /\ Now(t).do = "turn"
      BY <2>4 DEF Turn, At, Now
    <3>2. d \in Domains /\ e \in Domains /\ link[d].to \in Domains
      BY <1>1, <1>4, <3>1, ResolveType DEF OtherDos
    <3>3. p \in Seq(Steps)
      BY <3>2, OperationProgs, Joined
    <3>4. Leave(t, FALSE) \/ GoTo(t, p)
      BY <2>4 DEF Turn
    <3> HIDE DEF p
    <3> QED BY <1>1, <3>1, <3>3, <3>4, LeaveControl, GoToControl
  <2>5. CASE IfKnown(t)
    <3> DEFINE d == Now(t).d
               p == IF d \in cdb THEN del_domain_assign(d, "stop") \o del_control(d, "skip") \o Tail(prog[t])
                                 ELSE Tail(prog[t])
    <3>1. prog[t] # <<>> /\ Now(t).do = "ifknown"
      BY <2>5 DEF IfKnown, At, Now
    <3>2. d \in Domains /\ Tail(prog[t]) \in Seq(Steps)
      BY <1>4, <3>1 DEF OtherDos
    <3>3. del_domain_assign(d, "stop") \in Seq(Steps) /\ del_control(d, "skip") \in Seq(Steps)
      BY <3>2, AssignProgs, ControlProgs DEF Fails
    <3>4. p \in Seq(Steps)
      BY <3>2, <3>3, Joined
    <3>5. GoTo(t, p)
      BY <2>5 DEF IfKnown
    <3> HIDE DEF p
    <3> QED BY <1>1, <3>1, <3>4, <3>5, GoToControl
  <2>6. CASE Tables(t)
    BY <1>1, <2>6, GoControl DEF Tables, At
  <2>7. CASE Failed(t)
    <3> DEFINE say == [told EXCEPT ![Now(t).d] = "rolled"]
    <3>1. say \in [Domains -> Tolds]
      BY <1>1 DEF ControlOK, Tolds
    <3>2. Quit(t, say)
      BY <2>7 DEF Failed
    <3> HIDE DEF say
    <3> QED BY <1>1, <3>1, <3>2, QuitControl
  <2>8. CASE End(t)
    BY <1>1, <2>8, LeaveControl DEF End
  <2> QED BY <2>1, <2>2, <2>3, <2>4, <2>5, <2>6, <2>7, <2>8
<1> QED BY <1>3, <1>5 DEF TypeInv

\* The edits of the control files and of users/cdb.
LEMMA FileTypes ==
  ASSUME TypeInv, NEW t \in Tools,
         Put(t) \/ Drop(t) \/ Count(t) \/ Rcpt(t) \/ Compile(t) \/ Install(t)
  PROVE  TypeInv'
<1>1. StoreOK /\ ControlOK /\ CountOK
  BY DEF TypeInv
<1>2. prog[t] # <<>>
  BY DEF Put, Drop, Count, Rcpt, Compile, Install, At
<1>3. UNCHANGED <<dir, link, aliases, hasAliases, rows, ops, faults>>
  BY DEF Put, Drop, Count, Rcpt, Compile, Install, store
<1>4. CountOK'
  BY <1>1, <1>3 DEF CountOK
<1>5. Now(t) \in Steps /\ Tail(prog[t]) \in Seq(Steps) /\ op[t] # Idle
  BY <1>1, <1>2, StepNow
<1>6. file' \in [Files -> SUBSET Domains] /\ cdb' \in SUBSET Domains
  <2>1. CASE Put(t)
    <3>1. Now(t).do = "put"
      BY <2>1 DEF Put, At, Now
    <3>2. Now(t).f \in Files /\ Now(t).d \in Domains
      BY <1>5, <3>1, StepKinds
    <3> QED BY <1>1, <2>1, <3>2 DEF Put, StoreOK
  <2>2. CASE Drop(t)
    BY <1>1, <2>2 DEF Drop, StoreOK
  <2>3. CASE Count(t)
    BY <1>1, <2>3 DEF Count, StoreOK, store
  <2>4. CASE Rcpt(t)
    <3>1. Now(t).do = "rcpt"
      BY <2>4 DEF Rcpt, At, Now
    <3>2. Now(t).d \in Domains
      BY <1>5, <3>1, StepKinds DEF OtherDos
    <3> QED BY <1>1, <2>4, <3>2 DEF Rcpt, StoreOK, Files
  <2>5. CASE Compile(t)
    BY <1>1, <2>5 DEF Compile, StoreOK, store
  <2>6. CASE Install(t)
    BY <1>1, <2>6 DEF Install, StoreOK, ControlOK
  <2> QED BY <2>1, <2>2, <2>3, <2>4, <2>5, <2>6
<1>7. StoreOK'
  BY <1>1, <1>3, <1>6 DEF StoreOK
<1>8. ControlOK'
  <2>1. CASE Put(t) \/ Drop(t) \/ Rcpt(t)
    <3>1. Go(t)
      BY <2>1 DEF Put, Drop, Rcpt
    <3> QED BY <1>1, <1>2, <3>1, GoControl
  <2>2. CASE Count(t) \/ Compile(t) \/ Install(t)
    <3>1. prog' = [prog EXCEPT ![t] = Tail(prog[t])] /\ UNCHANGED <<op, told, mixed>>
      BY <2>2 DEF Count, Compile, Install
    <3>2. prog' \in [Tools -> Seq(Steps)] /\ \A u \in Tools : prog'[u] # <<>> => op'[u] # Idle
      BY <1>1, <1>5, <3>1 DEF ControlOK
    <3>3. full' \in [Tools -> BOOLEAN]
      <4>1. CASE Count(t)
        <5> DEFINE b == Cardinality(file["rcpthosts"]) >= MaxRcpt
        <5>1. full' = [full EXCEPT ![t] = b]
          BY <4>1 DEF Count
        <5>2. b \in BOOLEAN
          <6>1. file["rcpthosts"] \in SUBSET Domains
            BY <1>1 DEF StoreOK, Files
          <6>2. Cardinality(file["rcpthosts"]) \in Nat
            BY <6>1, DomainsAssumption, FS_Subset, FS_CardinalityType
          <6> QED BY <6>2, BoundAssumption
        <5> HIDE DEF b
        <5> QED BY <1>1, <5>1, <5>2 DEF ControlOK
      <4>2. CASE Compile(t) \/ Install(t)
        BY <1>1, <4>2 DEF Compile, Install, ControlOK
      <4> QED BY <2>2, <4>1, <4>2
    <3>4. snap' \in [Tools -> SUBSET Domains]
      <4>1. CASE Count(t)
        BY <1>1, <4>1 DEF Count, ControlOK
      <4>2. CASE Compile(t)
        BY <1>1, <4>2 DEF Compile, ControlOK, StoreOK, Files
      <4>3. CASE Install(t)
        BY <1>1, <4>3 DEF Install, ControlOK
      <4> QED BY <2>2, <4>1, <4>2, <4>3
    <3> QED BY <1>1, <3>1, <3>2, <3>3, <3>4 DEF ControlOK
  <2> QED BY <2>1, <2>2
<1> QED BY <1>4, <1>7, <1>8 DEF TypeInv

\* The steps on directories, links and .aliasdomains.
LEMMA DirTypes ==
  ASSUME TypeInv, NEW t \in Tools,
         \/ Mkdir(t) \/ Excl(t) \/ Symlink(t) \/ Enlist(t) \/ Strike(t) \/ Rmdir(t)
         \/ MvDir(t) \/ Relink(t)
  PROVE  TypeInv'
<1>1. StoreOK /\ ControlOK /\ CountOK
  BY DEF TypeInv
<1>2. prog[t] # <<>> /\ Now(t).do \in OtherDos
  BY DEF Mkdir, Excl, Symlink, Enlist, Strike, Rmdir, MvDir, Relink, At, Now, OtherDos
<1>3. UNCHANGED <<file, cdb, rows, ops, faults>>
  BY DEF Mkdir, Excl, Symlink, Enlist, Strike, Rmdir, MvDir, Relink
<1>4. CountOK'
  BY <1>1, <1>3 DEF CountOK
<1>5. Tail(prog[t]) \in Seq(Steps) /\ Now(t).d \in Domains /\ Now(t).e \in Domains
  BY <1>1, <1>2, StepNow, StepKinds
<1>6. ControlOK'
  <2>1. CASE Strike(t)
    <3> DEFINE p == <<Edit("ifknown", "assign", Now(t).e, "stop")>> \o Tail(prog[t])
    <3>1. p \in Seq(Steps)
      BY <1>5, OperationProgs, Joined
    <3>2. Leave(t, FALSE) \/ GoTo(t, p)
      BY <2>1 DEF Strike
    <3> HIDE DEF p
    <3> QED BY <1>1, <1>2, <3>1, <3>2, LeaveControl, GoToControl
  <2>2. CASE Rmdir(t)
    <3>1. /\ prog' = [prog EXCEPT ![t] = Tail(prog[t])] /\ UNCHANGED <<op, told, snap, full>>
          /\ mixed' = mixed \/ mixed' = mixed \cup {Now(t).d}
      BY <2>2, Zenon DEF Rmdir
    <3>2. mixed' \in SUBSET Domains
      BY <1>1, <1>5, <3>1 DEF ControlOK
    <3>3. prog' \in [Tools -> Seq(Steps)] /\ \A u \in Tools : prog'[u] # <<>> => op'[u] # Idle
      BY <1>1, <1>2, <1>5, <3>1, StepNow DEF ControlOK
    <3> QED BY <1>1, <3>1, <3>2, <3>3 DEF ControlOK
  <2>3. CASE ~Strike(t) /\ ~Rmdir(t)
    <3>1. Leave(t, FALSE) \/ Go(t)
      BY <2>3 DEF Mkdir, Excl, Symlink, Enlist, MvDir, Relink
    <3> QED BY <1>1, <1>2, <3>1, LeaveControl, GoControl
  <2> QED BY <2>1, <2>2, <2>3
<1> DEFINE d == Now(t).d
           e == Now(t).e
<1>7. /\ Resolve(d) \in Domains /\ Resolve(e) \in Domains
      /\ link[d] \in [to : Domains, abs : BOOLEAN]
      /\ [to |-> e, abs |-> FALSE] \in [to : Domains, abs : BOOLEAN]
      /\ [to |-> e, abs |-> TRUE] \in [to : Domains, abs : BOOLEAN]
  BY <1>1, <1>5, ResolveType DEF StoreOK
<1>8. dir' \in [Domains -> {"none", "bare", "full", "link"}]
  <2>1. CASE Mkdir(t)
    BY <1>1, <1>5, <2>1 DEF Mkdir, StoreOK
  <2>2. CASE Excl(t)
    BY <1>1, <1>7, <2>2, ZenonT(60) DEF Excl, StoreOK
  <2>3. CASE Symlink(t)
    BY <1>1, <1>5, <2>3 DEF Symlink, StoreOK
  <2>4. CASE Rmdir(t)
    BY <1>1, <1>5, <2>4 DEF Rmdir, StoreOK
  <2>5. CASE MvDir(t)
    BY <1>1, <1>5, <2>5 DEF MvDir, StoreOK
  <2>6. CASE Enlist(t) \/ Strike(t) \/ Relink(t)
    BY <1>1, <2>6 DEF Enlist, Strike, Relink, StoreOK
  <2> QED BY <2>1, <2>2, <2>3, <2>4, <2>5, <2>6
<1>9. link' \in [Domains -> [to : Domains, abs : BOOLEAN]]
  <2> DEFINE Links == [to : Domains, abs : BOOLEAN]
  <2> SUFFICES link' \in [Domains -> Links]
    OBVIOUS
  <2>1. link \in [Domains -> Links]
    BY <1>1 DEF StoreOK
  <2>2. link[d] \in Links /\ [to |-> e, abs |-> FALSE] \in Links /\ [to |-> e, abs |-> TRUE] \in Links
    BY <1>7
  <2>3. CASE Symlink(t)
    <3>1. link' = link \/ link' = [link EXCEPT ![d] = [to |-> e, abs |-> FALSE]]
      BY <2>3 DEF Symlink
    <3> HIDE DEF Links
    <3> QED BY <2>1, <2>2, <3>1
  <2>4. CASE MvDir(t)
    <3>1. link' = link \/ link' = [link EXCEPT ![e] = link[d]]
      BY <2>4 DEF MvDir
    <3> HIDE DEF Links
    <3> QED BY <2>1, <2>2, <3>1
  <2>5. CASE Relink(t)
    <3>1. \/ link' = link
          \/ \E M : link' = [a \in Domains |-> IF a \in M THEN [to |-> e, abs |-> TRUE] ELSE link[a]]
      BY <2>5 DEF Relink
    <3> HIDE DEF Links
    <3> QED BY <2>1, <2>2, <3>1
  <2>6. CASE Mkdir(t) \/ Excl(t) \/ Enlist(t) \/ Strike(t) \/ Rmdir(t)
    BY <2>1, <2>6 DEF Mkdir, Excl, Enlist, Strike, Rmdir
  <2> QED BY <2>3, <2>4, <2>5, <2>6
<1>10. aliases' \in [Domains -> SUBSET Domains] /\ hasAliases' \in [Domains -> BOOLEAN]
  <2> DEFINE r == Resolve(d)
  <2>1. CASE Enlist(t)
    <3>1. /\ aliases' = aliases \/ aliases' = [aliases EXCEPT ![r] = aliases[r] \cup {e}]
          /\ hasAliases' = hasAliases \/ hasAliases' = [hasAliases EXCEPT ![r] = TRUE]
      BY <2>1, Zenon DEF Enlist
    <3>2. r \in Domains /\ e \in Domains
      BY <1>5, <1>7
    <3> HIDE DEF r, e
    <3>3. aliases' \in [Domains -> SUBSET Domains]
      <4>1. aliases \in [Domains -> SUBSET Domains]
        BY <1>1 DEF StoreOK
      <4> QED BY <3>1, <3>2, <4>1
    <3>4. hasAliases' \in [Domains -> BOOLEAN]
      <4>1. hasAliases \in [Domains -> BOOLEAN]
        BY <1>1 DEF StoreOK
      <4> QED BY <3>1, <4>1
    <3> QED BY <3>3, <3>4
  <2>2. CASE Strike(t)
    <3>1. /\ aliases' = aliases \/ aliases' = [aliases EXCEPT ![r] = aliases[r] \ {e}]
          /\ hasAliases' = hasAliases
      BY <2>2, Zenon DEF Strike
    <3> HIDE DEF r, e
    <3> QED BY <1>1, <3>1 DEF StoreOK
  <2>3. CASE Rmdir(t)
    BY <1>1, <2>3 DEF Rmdir, StoreOK
  <2>4. CASE MvDir(t)
    BY <1>1, <1>5, <2>4, ZenonT(60) DEF MvDir, StoreOK
  <2>5. CASE Mkdir(t) \/ Excl(t) \/ Symlink(t) \/ Relink(t)
    BY <1>1, <2>5 DEF Mkdir, Excl, Symlink, Relink, StoreOK
  <2> QED BY <2>1, <2>2, <2>3, <2>4, <2>5
<1>11. StoreOK'
  BY <1>1, <1>3, <1>8, <1>9, <1>10 DEF StoreOK
<1> QED BY <1>4, <1>6, <1>11 DEF TypeInv

\* The steps on the database.
LEMMA RowTypes ==
  ASSUME TypeInv, NEW t \in Tools, Postmaster(t) \/ NoRows(t) \/ MvRows(t)
  PROVE  TypeInv'
<1>1. StoreOK /\ ControlOK /\ CountOK
  BY DEF TypeInv
<1>2. prog[t] # <<>> /\ Now(t).do \in OtherDos
  BY DEF Postmaster, NoRows, MvRows, At, Now, OtherDos
<1>3. UNCHANGED <<file, cdb, dir, link, aliases, hasAliases, ops, faults>>
  BY DEF Postmaster, NoRows, MvRows
<1>4. Now(t).d \in Domains /\ Now(t).e \in Domains
  BY <1>1, <1>2, StepNow, StepKinds
<1>5. rows' \in SUBSET Domains
  BY <1>1, <1>4 DEF Postmaster, NoRows, MvRows, StoreOK
<1>6. Go(t) \/ Undo(t, UndoAll(Now(t).d))
  BY DEF Postmaster, NoRows, MvRows
<1>7. ControlOK'
  BY <1>1, <1>2, <1>4, <1>6, OperationProgs, GoControl, UndoControl
<1> QED BY <1>1, <1>3, <1>5, <1>7 DEF TypeInv, StoreOK, CountOK

LEMMA FaultTypes ==
  ASSUME TypeInv, NEW t \in Tools, Fail(t) \/ Crash(t)
  PROVE  TypeInv'
<1>1. StoreOK /\ ControlOK /\ CountOK
  BY DEF TypeInv
<1>2. CountOK'
  <2>1. faults < MaxFaults /\ faults' = faults + 1 /\ ops' = ops
    BY DEF Fail, Crash
  <2> QED BY <1>1, <2>1, BoundAssumption DEF CountOK
<1>3. CASE Crash(t)
  <2>1. ControlOK'
    BY <1>1, <1>3, LeaveControl DEF Crash
  <2>2. StoreOK'
    BY <1>1, <1>3 DEF Crash, store, StoreOK
  <2> QED BY <1>2, <2>1, <2>2 DEF TypeInv
<1>4. CASE Fail(t)
  <2> DEFINE s == Now(t)
             p == prog[t]
  <2>1. prog[t] # <<>> /\ UNCHANGED <<cdb, link, aliases, hasAliases, rows>>
    BY <1>4 DEF Fail
  <2>2. s \in Steps /\ p \in Seq(Steps) /\ Tail(p) \in Seq(Steps)
    BY <1>1, <2>1, StepNow DEF ControlOK
  <2>3. /\ s.fail \in {"again", "rollback", "undo"} => s.d \in Domains
        /\ s.fail = "again" => s.f \in Files
    BY <2>2, StepKinds
  <2>4. ControlOK'
    <3>1. CASE Leave(t, FALSE)
      BY <1>1, <3>1, LeaveControl
    <3>2. CASE s.fail \in DOMAIN Over /\ GoTo(t, SubSeq(p, 2 + Over[s.fail], Len(p)))
      <4>1. Over[s.fail] \in Nat
        BY <3>2 DEF Over
      <4>2. SubSeq(p, 2 + Over[s.fail], Len(p)) \in Seq(Steps)
        BY <2>2, <4>1, RestProg
      <4> QED BY <1>1, <2>1, <3>2, <4>2, GoToControl
    <3>3. CASE s.fail = "again" /\ GoTo(t, <<Edit("drop", s.f, s.d, "skip")>> \o Tail(p))
      <4>1. Edit("drop", s.f, s.d, "skip") \in Steps
        BY <2>3, <3>3, EditSteps DEF Fails
      <4>2. <<Edit("drop", s.f, s.d, "skip")>> \in Seq(Steps)
        BY <4>1
      <4>3. <<Edit("drop", s.f, s.d, "skip")>> \o Tail(p) \in Seq(Steps)
        BY <2>2, <4>2, Joined
      <4> QED BY <1>1, <2>1, <3>3, <4>3, GoToControl
    <3>4. CASE s.fail = "rollback" /\ Undo(t, Rollback(s.d))
      BY <1>1, <2>1, <2>3, <3>4, OperationProgs, UndoControl
    <3>5. CASE s.fail = "undo" /\ Undo(t, UndoAll(s.d))
      BY <1>1, <2>1, <2>3, <3>5, OperationProgs, UndoControl
    <3> QED BY <1>4, <3>1, <3>2, <3>3, <3>4, <3>5 DEF Fail
  <2>5. file' \in [Files -> SUBSET Domains] /\ dir' \in [Domains -> {"none", "bare", "full", "link"}]
    <3>1. \/ UNCHANGED <<file, dir>>
          \/ file' = [file EXCEPT ![s.f] = @ \ {s.d}] /\ UNCHANGED dir
          \/ dir' = [dir EXCEPT ![s.d] = "bare"] /\ UNCHANGED file
      BY <1>4 DEF Fail
    <3> QED BY <1>1, <3>1 DEF StoreOK
  <2>6. StoreOK'
    BY <1>1, <2>1, <2>5 DEF StoreOK
  <2> QED BY <1>2, <2>4, <2>6 DEF TypeInv
<1> QED BY <1>3, <1>4

-----------------------------------------------------------------------------
LEMMA TypeInvInit == Init => TypeInv
<1> SUFFICES ASSUME Init PROVE TypeInv
  OBVIOUS
<1>1. StoreOK
  BY DomainsAssumption DEF Init, StoreOK
<1>2. ControlOK
  BY DEF Init, ControlOK, Tolds
<1>3. CountOK
  BY BoundAssumption DEF Init, CountOK
<1> QED BY <1>1, <1>2, <1>3 DEF TypeInv

LEMMA TypeInvNext == TypeInv /\ [Next]_vars => TypeInv'
<1> SUFFICES ASSUME TypeInv, [Next]_vars PROVE TypeInv'
  OBVIOUS
<1>1. CASE UNCHANGED vars
  BY <1>1 DEF TypeInv, StoreOK, ControlOK, CountOK, vars, store
<1>2. CASE Next
  <2>1. PICK t \in Tools : (\E o \in Operations : Begin(t, o)) \/ Step(t) \/ Fail(t) \/ Crash(t)
    BY <1>2 DEF Next
  <2>2. CASE \E o \in Operations : Begin(t, o)
    BY <2>2, BeginTypes
  <2>3. CASE Step(t)
    BY <2>3, DecisionTypes, FileTypes, DirTypes, RowTypes DEF Step
  <2>4. CASE Fail(t) \/ Crash(t)
    BY <2>4, FaultTypes
  <2> QED BY <2>1, <2>2, <2>3, <2>4
<1> QED BY <1>1, <1>2

\* Whatever is interleaved, fails or is killed, the steps a tool has still to make
\* are steps the code has (deldomain.c, iadddomain.c, vrenamedomain.c), every one
\* of them about a file or domain it can be made on, and the variables keep their
\* types, for any number of tools, domains and operations.
THEOREM TypeCorrect == Spec => []TypeOK
<1>1. TypeInv => TypeOK
  BY DEF TypeInv, StoreOK, ControlOK, CountOK, TypeOK, Doing, Tolds
<1> QED BY <1>1, TypeInvInit, TypeInvNext, PTL DEF Spec

-----------------------------------------------------------------------------
(* The steps of a program as a set.                                        *)

\* Where the steps have their place that a failing one jumps over, the one that
\* makes .qmail-default, and the last one of an addition that is taken back.
Whole(p) ==
  \A i \in DOMAIN p :
    /\ p[i].fail = "over1" => i + 1 \in DOMAIN p /\ p[i + 1] \in NewuSteps
    /\ p[i].fail = "over2" => /\ i + 1 \in DOMAIN p /\ p[i + 1] \in NewuSteps
                              /\ i + 2 \in DOMAIN p /\ p[i + 2] \in NewuSteps
    /\ p[i].do = "failed" => i = Len(p)
    /\ p[i].do = "excl" => \A j \in 1..(i - 1) : p[j].do \in {"absent", "mkdir"}

\* What is left of a program after 1 + k steps.
LEMMA Rest ==
  ASSUME NEW p \in Seq(Steps), NEW k \in Nat
  PROVE  LET q == SubSeq(p, 2 + k, Len(p))
         IN /\ q \in Seq(Steps) /\ DOMAIN q = 1..Len(q) /\ Len(q) \in Nat
            /\ \A i \in 1..Len(q) : i + (k + 1) \in 1..Len(p) /\ q[i] = p[i + (k + 1)]
            /\ \A i \in 1..Len(p) : i > k + 1 => i - (k + 1) \in 1..Len(q)
            /\ Len(q) > 0 => Len(q) = Len(p) - (k + 1)
<1> DEFINE q == SubSeq(p, 2 + k, Len(p))
<1>1. Len(p) \in Nat /\ 2 + k \in Int /\ \A i \in (2 + k)..Len(p) : p[i] \in Steps
  OBVIOUS
<1>2. /\ q \in Seq(Steps)
      /\ Len(q) = IF 2 + k <= Len(p) THEN Len(p) - (2 + k) + 1 ELSE 0
      /\ \A i \in 1..(Len(p) - (2 + k) + 1) : q[i] = p[(2 + k) + i - 1]
  BY <1>1, SubSeqProperties
<1>3. DOMAIN q = 1..Len(q) /\ Len(q) \in Nat
  BY <1>2
<1> HIDE DEF q
<1>4. ASSUME NEW i \in 1..Len(q)
      PROVE  i + (k + 1) \in 1..Len(p) /\ q[i] = p[i + (k + 1)]
  <2>1. i \in 1..(Len(p) - (2 + k) + 1) /\ (2 + k) + i - 1 = i + (k + 1)
    BY <1>1, <1>2
  <2> QED BY <1>1, <1>2, <2>1
<1>5. \A i \in 1..Len(p) : i > k + 1 => i - (k + 1) \in 1..Len(q)
  BY <1>1, <1>2
<1>6. Len(q) > 0 => Len(q) = Len(p) - (k + 1)
  BY <1>1, <1>2
<1> QED BY <1>2, <1>3, <1>4, <1>5, <1>6 DEF q

LEMMA RestWhole ==
  ASSUME NEW p \in Seq(Steps), NEW k \in Nat, Whole(p)
  PROVE  Whole(SubSeq(p, 2 + k, Len(p))) /\ Range(SubSeq(p, 2 + k, Len(p))) \subseteq Range(p)
<1> DEFINE q == SubSeq(p, 2 + k, Len(p))
           m == k + 1
<1>1. /\ DOMAIN q = 1..Len(q) /\ Len(q) \in Nat /\ DOMAIN p = 1..Len(p) /\ Len(p) \in Nat /\ m \in Nat
      /\ \A i \in 1..Len(q) : i + m \in 1..Len(p) /\ q[i] = p[i + m]
      /\ \A i \in 1..Len(p) : i > m => i - m \in 1..Len(q)
      /\ Len(q) > 0 => Len(q) = Len(p) - m
  BY Rest
<1> HIDE DEF q, m
<1>2. Range(q) \subseteq Range(p)
  BY <1>1 DEF Range
<1>3. ASSUME NEW i \in DOMAIN q
      PROVE  /\ q[i].fail = "over1" => i + 1 \in DOMAIN q /\ q[i + 1] \in NewuSteps
             /\ q[i].fail = "over2" => /\ i + 1 \in DOMAIN q /\ q[i + 1] \in NewuSteps
                                       /\ i + 2 \in DOMAIN q /\ q[i + 2] \in NewuSteps
             /\ q[i].do = "failed" => i = Len(q)
             /\ q[i].do = "excl" => \A j \in 1..(i - 1) : q[j].do \in {"absent", "mkdir"}
  <2>a. i \in 1..Len(q)
    BY <1>1, Zenon
  <2>b. Len(q) \in Nat
    BY <1>1
  <2>0. i \in 1..Len(q) /\ Len(q) > 0
    BY <2>a, <2>b
  <2>1. i \in 1..Len(q) /\ i + m \in DOMAIN p /\ q[i] = p[i + m] /\ Len(q) = Len(p) - m
    BY <1>1, <2>0
  <2>2. ASSUME NEW c \in {1, 2}, (i + m) + c \in DOMAIN p
        PROVE  i + c \in DOMAIN q /\ q[i + c] = p[(i + m) + c]
    <3>1. i + c \in 1..Len(q) /\ (i + c) + m = (i + m) + c
      BY <1>1, <2>1, <2>2
    <3> QED BY <1>1, <3>1
  <2>3. q[i].fail = "over1" => i + 1 \in DOMAIN q /\ q[i + 1] \in NewuSteps
    BY <2>1, <2>2 DEF Whole
  <2>4. q[i].fail = "over2" => /\ i + 1 \in DOMAIN q /\ q[i + 1] \in NewuSteps
                               /\ i + 2 \in DOMAIN q /\ q[i + 2] \in NewuSteps
    BY <2>1, <2>2 DEF Whole
  <2>5. q[i].do = "failed" => i = Len(q)
    BY <1>1, <2>1 DEF Whole
  <2>6. ASSUME q[i].do = "excl", NEW j \in 1..(i - 1)
        PROVE  q[j].do \in {"absent", "mkdir"}
    <3>1. j \in 1..Len(q) /\ j + m \in 1..((i + m) - 1) /\ q[j] = p[j + m]
      BY <1>1, <2>1
    <3> QED BY <2>1, <2>6, <3>1 DEF Whole
  <2> QED BY <2>3, <2>4, <2>5, <2>6
<1>4. Whole(q)
  BY <1>3 DEF Whole
<1> QED BY <1>2, <1>4 DEF q

\* A step that is done.
LEMMA TailSteps ==
  ASSUME NEW p \in Seq(Steps), p # <<>>, Whole(p)
  PROVE  /\ Whole(Tail(p)) /\ Range(Tail(p)) \subseteq Range(p)
         /\ Range(p) = Range(Tail(p)) \cup {Head(p)} /\ Head(p) \in Range(p)
<1>1. Tail(p) = SubSeq(p, 2, Len(p)) /\ Tail(p) = SubSeq(p, 2 + 0, Len(p))
  BY TailIsSubSeq
<1>2. Whole(Tail(p)) /\ Range(Tail(p)) \subseteq Range(p)
  BY <1>1, RestWhole
<1>3. /\ Len(p) \in Nat \ {0} /\ DOMAIN p = 1..Len(p) /\ Head(p) = p[1]
      /\ Tail(p) \in Seq(Steps) /\ Len(Tail(p)) = Len(p) - 1 /\ DOMAIN Tail(p) = 1..Len(Tail(p))
      /\ \A i \in 1..Len(Tail(p)) : Tail(p)[i] = p[i + 1]
  BY HeadTailProperties
<1>4. Head(p) \in Range(p)
  BY <1>3 DEF Range
<1>5. ASSUME NEW i \in DOMAIN p
      PROVE  p[i] = Head(p) \/ p[i] \in Range(Tail(p))
  <2>1. CASE i = 1
    BY <1>3, <2>1
  <2>2. CASE i # 1
    <3>1. i - 1 \in DOMAIN Tail(p) /\ (i - 1) + 1 = i
      BY <1>3, <2>2
    <3>2. Tail(p)[i - 1] = p[i]
      BY <1>3, <3>1
    <3> QED BY <3>1, <3>2 DEF Range
  <2> QED BY <2>1, <2>2
<1>6. Range(p) \subseteq Range(Tail(p)) \cup {Head(p)}
  BY <1>5 DEF Range
<1> QED BY <1>2, <1>4, <1>6

\* A step that fails and is left out, with the run of qmail-newu after it.
LEMMA JumpSteps ==
  ASSUME NEW p \in Seq(Steps), p # <<>>, Whole(p), Head(p).fail \in DOMAIN Over
  PROVE  LET q == SubSeq(p, 2 + Over[Head(p).fail], Len(p))
         IN /\ q \in Seq(Steps) /\ Whole(q) /\ Range(q) \subseteq Range(p)
            /\ Range(p) \subseteq Range(q) \cup {Head(p)} \cup NewuSteps
<1> DEFINE k == Over[Head(p).fail]
           q == SubSeq(p, 2 + k, Len(p))
<1>1. /\ k \in {0, 1, 2} /\ (k = 1 => Head(p).fail = "over1") /\ (k = 2 => Head(p).fail = "over2")
  BY DEF Over
<1> HIDE DEF k
<1>2. k \in Nat
  BY <1>1
<1>3. q \in Seq(Steps) /\ Whole(q) /\ Range(q) \subseteq Range(p)
  BY <1>2, Rest, RestWhole
<1>4. Len(p) \in Nat \ {0} /\ DOMAIN p = 1..Len(p) /\ Head(p) = p[1] /\ 1 \in DOMAIN p
  BY HeadTailProperties
<1>5. /\ k = 1 => p[2] \in NewuSteps
      /\ k = 2 => p[2] \in NewuSteps /\ p[3] \in NewuSteps
  BY <1>1, <1>4 DEF Whole
<1>6. ASSUME NEW i \in DOMAIN p
      PROVE  p[i] \in Range(q) \cup {Head(p)} \cup NewuSteps
  <2>1. CASE i > k + 1
    <3>1. i - (k + 1) \in DOMAIN q
      BY <1>2, <1>4, <2>1, Rest
    <3>2. q[i - (k + 1)] = p[(i - (k + 1)) + (k + 1)] /\ (i - (k + 1)) + (k + 1) = i
      BY <1>2, <1>4, <3>1, Rest
    <3> QED BY <3>1, <3>2 DEF Range
  <2>2. CASE ~(i > k + 1)
    <3>1. i = 1 \/ (i = 2 /\ k = 1) \/ (i = 2 /\ k = 2) \/ (i = 3 /\ k = 2)
      BY <1>1, <1>4, <2>2
    <3> QED BY <1>4, <1>5, <3>1
  <2> QED BY <2>1, <2>2
<1>7. Range(p) \subseteq Range(q) \cup {Head(p)} \cup NewuSteps
  BY <1>6 DEF Range
<1> QED BY <1>3, <1>7 DEF k, q

\* One program after the other.
LEMMA JoinSteps ==
  ASSUME NEW a \in Seq(Steps), NEW b \in Seq(Steps), Whole(a), Whole(b),
         \A s \in Range(a) : s.do # "failed", \A s \in Range(b) : s.do # "excl"
  PROVE  a \o b \in Seq(Steps) /\ Whole(a \o b) /\ Range(a \o b) = Range(a) \cup Range(b)
<1> DEFINE q == a \o b
           m == Len(a)
           n == Len(b)
<1>1. /\ m \in Nat /\ n \in Nat /\ DOMAIN a = 1..m /\ DOMAIN b = 1..n
      /\ q \in Seq(Steps) /\ DOMAIN q = 1..(m + n) /\ Len(q) = m + n
      /\ \A i \in 1..(m + n) : q[i] = IF i <= m THEN a[i] ELSE b[i - m]
  BY ConcatProperties
<1>2. Range(q) = Range(a) \cup Range(b)
  BY RangeConcatenation
<1>3. /\ \A i \in 1..m : a[i].do # "failed"
      /\ \A i \in 1..n : b[i].do # "excl"
  BY <1>1 DEF Range
<1> SUFFICES q \in Seq(Steps) /\ Whole(q) /\ Range(q) = Range(a) \cup Range(b)
  BY DEF q
<1> HIDE DEF q, m, n
<1>4. ASSUME NEW i \in 1..(m + n)
      PROVE  /\ q[i].fail = "over1" => i + 1 \in 1..(m + n) /\ q[i + 1] \in NewuSteps
             /\ q[i].fail = "over2" => /\ i + 1 \in 1..(m + n) /\ q[i + 1] \in NewuSteps
                                       /\ i + 2 \in 1..(m + n) /\ q[i + 2] \in NewuSteps
             /\ q[i].do = "failed" => i = m + n
             /\ q[i].do = "excl" => \A j \in 1..(i - 1) : q[j].do \in {"absent", "mkdir"}
  <2>1. CASE i <= m
    <3>1. i \in 1..m /\ q[i] = a[i] /\ a[i].do # "failed"
      BY <1>1, <1>3, <2>1
    <3>2. \A j \in 1..m : j \in 1..(m + n) /\ q[j] = a[j]
      BY <1>1
    <3>3. /\ a[i].fail = "over1" => i + 1 \in 1..m /\ a[i + 1] \in NewuSteps
          /\ a[i].fail = "over2" => /\ i + 1 \in 1..m /\ a[i + 1] \in NewuSteps
                                    /\ i + 2 \in 1..m /\ a[i + 2] \in NewuSteps
          /\ a[i].do = "excl" => \A j \in 1..(i - 1) : a[j].do \in {"absent", "mkdir"}
      BY <1>1, <3>1 DEF Whole
    <3>4. \A j \in 1..(i - 1) : j \in 1..m
      BY <1>1, <2>1
    <3> QED BY <3>1, <3>2, <3>3, <3>4
  <2>2. CASE ~(i <= m)
    <3> DEFINE k == i - m
    <3>1. k \in 1..n /\ q[i] = b[k] /\ b[k].do # "excl"
      BY <1>1, <1>3, <2>2
    <3>2. /\ b[k].fail = "over1" => k + 1 \in 1..n /\ b[k + 1] \in NewuSteps
          /\ b[k].fail = "over2" => /\ k + 1 \in 1..n /\ b[k + 1] \in NewuSteps
                                    /\ k + 2 \in 1..n /\ b[k + 2] \in NewuSteps
          /\ b[k].do = "failed" => k = n
      <4> HIDE DEF k
      <4>1. Len(b) = n
        BY DEF n
      <4> QED BY <1>1, <3>1, <4>1 DEF Whole
    <3>3. ASSUME NEW c \in {1, 2}, k + c \in 1..n
          PROVE  i + c \in 1..(m + n) /\ q[i + c] = b[k + c]
      <4>1. i + c \in 1..(m + n) /\ ~(i + c <= m) /\ (i + c) - m = k + c
        BY <1>1, <2>2, <3>3
      <4> HIDE DEF k
      <4> QED BY <1>1, <4>1
    <3>4. k = n => i = m + n
      BY <1>1
    <3> HIDE DEF k
    <3> QED BY <3>1, <3>2, <3>3, <3>4
  <2> QED BY <2>1, <2>2
<1>5. Whole(q)
  BY <1>1, <1>4 DEF Whole
<1> QED BY <1>1, <1>2, <1>5

LEMMA PlainSteps ==
  ASSUME NEW p \in Seq(Steps),
         \A s \in Range(p) : s.fail \notin {"over1", "over2"} /\ s.do \notin {"failed", "excl"}
  PROVE  Whole(p)
<1>1. \A i \in DOMAIN p : p[i] \in Range(p)
  BY DEF Range
<1> QED BY <1>1, Zenon DEF Whole

-----------------------------------------------------------------------------
(* The steps of each program.                                              *)

PutSteps(d) == {Edit("put", "assign", d, "stop")} \cup NewuSteps

ControlSteps(d) ==
  {Edit("count", "rcpthosts", d, "stop"), Edit("rcpt", "rcpthosts", d, "stop"),
   Edit("put", "virtualdomains", d, "stop"), Edit("drop", "locals", d, "stop")}

DropSteps(d, fail) == {Edit("drop", "assign", d, fail)} \cup NewuSteps

UncontrolSteps(d, fail) ==
  {Edit("drop", "rcpthosts", d, "again"), Edit("drop", "chkrcptdomains", d, "skip"),
   Edit("drop", "virtualdomains", d, fail)}

AddSteps(d) ==
  {Edit("absent", "assign", d, "stop"), Edit("mkdir", "dir", d, "stop"), Edit("excl", "dir", d, "stop")}
  \cup PutSteps(d) \cup ControlSteps(d)
  \cup {Edit("tables", "rows", d, "rollback"), Edit("put", "chkrcptdomains", d, "rollback"),
        Edit("postmaster", "rows", d, "undo")}

AliasSteps(d, e) ==
  {Edit("absent", "assign", d, "stop"), Edit("present", "assign", e, "stop"),
   S("symlink", "dir", d, e, "stop")}
  \cup PutSteps(d) \cup ControlSteps(d) \cup {S("enlist", "aliasdomains", e, d, "stop")}

RollbackSteps(d) ==
  DropSteps(d, "over2") \cup UncontrolSteps(d, "skip")
  \cup {Edit("rmdir", "dir", d, "skip"), Edit("failed", "none", d, "skip")}

RenameSteps(d, e) ==
  {S("mvdir", "dir", d, e, "stop"), S("mvrows", "rows", d, e, "stop")}
  \cup PutSteps(e) \cup ControlSteps(e) \cup DropSteps(d, "stop")
  \cup {S("relink", "aliasdomains", d, e, "stop")} \cup UncontrolSteps(d, "stop")

\* A program p is made of the steps R and is whole.
MadeOf(p, R) == p \in Seq(Steps) /\ Whole(p) /\ Range(p) = R

LEMMA JoinMadeOf ==
  ASSUME NEW a, NEW b, NEW A, NEW B, MadeOf(a, A), MadeOf(b, B),
         \A s \in A : s.do # "failed", \A s \in B : s.do # "excl"
  PROVE  MadeOf(a \o b, A \cup B)
BY JoinSteps, Zenon DEF MadeOf

\* Steps after which another program may come, or before.
LEMMA SetFacts ==
  ASSUME NEW d, NEW e, NEW fail
  PROVE  /\ \A s \in NewuSteps : s.do \in {"compile", "install"}
         /\ \A s \in PutSteps(d) : s.do \in {"put", "compile", "install"}
         /\ \A s \in DropSteps(d, fail) : s.do \in {"drop", "compile", "install"}
         /\ \A s \in ControlSteps(d) : s.do \in {"count", "rcpt", "put", "drop"} /\ s.fail = "stop"
         /\ \A s \in UncontrolSteps(d, fail) : s.do = "drop"
<1>1. \A s \in NewuSteps : s.do \in {"compile", "install"}
  BY DEF NewuSteps, Edit, S
<1>2. \A s \in PutSteps(d) : s.do \in {"put", "compile", "install"}
  BY <1>1 DEF PutSteps, Edit, S
<1>3. \A s \in DropSteps(d, fail) : s.do \in {"drop", "compile", "install"}
  BY <1>1 DEF DropSteps, Edit, S
<1>4. \A s \in ControlSteps(d) : s.do \in {"count", "rcpt", "put", "drop"} /\ s.fail = "stop"
  BY DEF ControlSteps, Edit, S
<1>5. \A s \in UncontrolSteps(d, fail) : s.do = "drop"
  BY DEF UncontrolSteps, Edit, S
<1> QED BY <1>1, <1>2, <1>3, <1>4, <1>5

LEMMA OneStep ==
  ASSUME NEW s \in Steps
  PROVE  /\ Range(<<s>>) = {s} /\ <<s>> \in Seq(Steps)
         /\ s.fail \notin {"over1", "over2"} /\ s.do \notin {"failed", "excl"} => MadeOf(<<s>>, {s})
<1>1. Range(<<s>>) = {s} /\ <<s>> \in Seq(Steps)
  BY DEF Range
<1> QED BY <1>1, PlainSteps DEF MadeOf

LEMMA NewuMade == MadeOf(update_newu, NewuSteps)
<1> DEFINE a == Edit("compile", "assign", "none", "over1")
           b == Edit("install", "assign", "none", "skip")
<1>1. update_newu = <<a, b>> /\ NewuSteps = {a, b} /\ update_newu \in Seq(Steps)
  BY NewuProg DEF update_newu, NewuSteps
<1>2. a.fail = "over1" /\ a.do = "compile" /\ b.fail = "skip" /\ b.do = "install"
  BY DEF Edit, S
<1> HIDE DEF a, b
<1>3. Range(<<a, b>>) = {a, b}
  BY DEF Range
<1>4. Whole(<<a, b>>)
  BY <1>1, <1>2 DEF Whole
<1> QED BY <1>1, <1>3, <1>4 DEF MadeOf

LEMMA AssignMade ==
  ASSUME NEW d \in Domains
  PROVE  /\ MadeOf(add_domain_assign(d), PutSteps(d))
         /\ MadeOf(del_domain_assign(d, "stop"), DropSteps(d, "stop"))
         /\ MadeOf(del_domain_assign(d, "over2"), DropSteps(d, "over2"))
<1>1. ASSUME NEW s \in Steps, s.fail = "stop", s.do \in {"put", "drop"}
      PROVE  MadeOf(<<s>> \o update_newu, {s} \cup NewuSteps)
  <2>1. MadeOf(<<s>>, {s})
    BY <1>1, OneStep
  <2>2. \A x \in NewuSteps : x.do # "excl"
    BY SetFacts
  <2> QED BY <1>1, <2>1, <2>2, NewuMade, JoinMadeOf
<1>2. MadeOf(add_domain_assign(d), PutSteps(d))
  <2> DEFINE s == Edit("put", "assign", d, "stop")
  <2>1. s \in Steps /\ s.fail = "stop" /\ s.do \in {"put", "drop"}
    BY EditSteps DEF Files, Fails, Edit, S
  <2> HIDE DEF s
  <2>2. MadeOf(<<s>> \o update_newu, {s} \cup NewuSteps)
    BY <1>1, <2>1
  <2> QED BY <2>2 DEF s, add_domain_assign, PutSteps
<1>3. MadeOf(del_domain_assign(d, "stop"), DropSteps(d, "stop"))
  <2> DEFINE s == Edit("drop", "assign", d, "stop")
  <2>1. s \in Steps /\ s.fail = "stop" /\ s.do \in {"put", "drop"}
    BY EditSteps DEF Files, Fails, Edit, S
  <2> HIDE DEF s
  <2>2. MadeOf(<<s>> \o update_newu, {s} \cup NewuSteps)
    BY <1>1, <2>1
  <2> QED BY <2>2 DEF s, del_domain_assign, DropSteps
<1>4. MadeOf(del_domain_assign(d, "over2"), DropSteps(d, "over2"))
  <2> DEFINE s == Edit("drop", "assign", d, "over2")
             a == Edit("compile", "assign", "none", "over1")
             b == Edit("install", "assign", "none", "skip")
             p == <<s>> \o <<a, b>>
  <2>1. s \in Steps /\ s.fail = "over2" /\ s.do = "drop"
    BY EditSteps DEF Files, Fails, Edit, S
  <2>2. a.fail = "over1" /\ a.do = "compile" /\ b.fail = "skip" /\ b.do = "install"
        /\ a \in NewuSteps /\ b \in NewuSteps
    BY DEF Edit, S, NewuSteps
  <2>3. a \in Steps /\ b \in Steps
    BY <2>2 DEF Steps
  <2>4. p = del_domain_assign(d, "over2")
    BY DEF del_domain_assign, update_newu
  <2>5. {s} \cup {a, b} = DropSteps(d, "over2")
    BY DEF DropSteps, NewuSteps
  <2> HIDE DEF s, a, b
  <2>6. /\ p \in Seq(Steps) /\ Len(p) = 3 /\ DOMAIN p = {1, 2, 3}
        /\ p[1] = s /\ p[2] = a /\ p[3] = b
    BY <2>1, <2>3
  <2>7. Range(p) = {s} \cup {a, b}
    BY <2>6 DEF Range
  <2> HIDE DEF p
  <2>8. Whole(p)
    BY <2>1, <2>2, <2>6 DEF Whole
  <2> QED BY <2>4, <2>5, <2>6, <2>7, <2>8 DEF MadeOf
<1> QED BY <1>2, <1>3, <1>4

LEMMA ControlMade ==
  ASSUME NEW d \in Domains
  PROVE  /\ MadeOf(add_control(d), ControlSteps(d))
         /\ MadeOf(del_control(d, "stop"), UncontrolSteps(d, "stop"))
         /\ MadeOf(del_control(d, "skip"), UncontrolSteps(d, "skip"))
<1>1. /\ add_control(d) \in Seq(Steps) /\ del_control(d, "stop") \in Seq(Steps)
      /\ del_control(d, "skip") \in Seq(Steps)
  BY ControlProgs DEF Fails
<1>2. Range(add_control(d)) = ControlSteps(d)
  BY DEF add_control, ControlSteps, Range
<1>3. \A fail : Range(del_control(d, fail)) = UncontrolSteps(d, fail)
  BY DEF del_control, UncontrolSteps, Range
<1>4. \A fail \in {"stop", "skip"} : \A s \in UncontrolSteps(d, fail) : s.do = "drop" /\ s.fail \in {"again", "skip", "stop"}
  BY DEF UncontrolSteps, Edit, S
<1>5. Whole(add_control(d))
  BY <1>1, <1>2, SetFacts, PlainSteps
<1>6. \A fail \in {"stop", "skip"} : Whole(del_control(d, fail))
  BY <1>1, <1>3, <1>4, PlainSteps
<1> QED BY <1>1, <1>2, <1>3, <1>5, <1>6 DEF MadeOf

LEMMA AddMade ==
  ASSUME NEW d \in Domains
  PROVE  MadeOf(add(d), AddSteps(d))
<1> DEFINE a == Edit("absent", "assign", d, "stop")
           b == Edit("mkdir", "dir", d, "stop")
           c == Edit("excl", "dir", d, "stop")
           x == Edit("tables", "rows", d, "rollback")
           y == Edit("put", "chkrcptdomains", d, "rollback")
           z == Edit("postmaster", "rows", d, "undo")
<1>1. a \in Steps /\ b \in Steps /\ c \in Steps /\ x \in Steps /\ y \in Steps /\ z \in Steps
  BY EditSteps DEF Files, Fails, OtherDos
<1>2. /\ a.do = "absent" /\ a.fail = "stop" /\ b.do = "mkdir" /\ b.fail = "stop"
      /\ c.do = "excl" /\ c.fail = "stop" /\ x.do = "tables" /\ x.fail = "rollback"
      /\ y.do = "put" /\ y.fail = "rollback" /\ z.do = "postmaster" /\ z.fail = "undo"
  BY DEF Edit, S
<1>3. add(d) = <<a, b, c>> \o add_domain_assign(d) \o add_control(d) \o <<x, y, z>>
  BY DEF add
<1>4. AddSteps(d) = {a, b, c} \cup PutSteps(d) \cup ControlSteps(d) \cup {x, y, z}
  BY DEF AddSteps
<1> HIDE DEF a, b, c, x, y, z
<1>5. MadeOf(<<a, b, c>>, {a, b, c})
  <2>1. <<a, b, c>> \in Seq(Steps) /\ Range(<<a, b, c>>) = {a, b, c}
    BY <1>1 DEF Range
  <2>2. Whole(<<a, b, c>>)
    BY <1>2 DEF Whole
  <2> QED BY <2>1, <2>2 DEF MadeOf
<1>6. MadeOf(<<x, y, z>>, {x, y, z})
  <2>1. <<x, y, z>> \in Seq(Steps) /\ Range(<<x, y, z>>) = {x, y, z}
    BY <1>1 DEF Range
  <2> QED BY <1>2, <2>1, PlainSteps DEF MadeOf
<1>7. MadeOf(<<a, b, c>> \o add_domain_assign(d), {a, b, c} \cup PutSteps(d))
  <2>1. /\ \A s \in {a, b, c} : s.do # "failed"
        /\ \A s \in PutSteps(d) : s.do # "excl"
    BY <1>2, SetFacts
  <2> QED BY <1>5, <2>1, AssignMade, JoinMadeOf
<1>8. MadeOf((<<a, b, c>> \o add_domain_assign(d)) \o add_control(d), ({a, b, c} \cup PutSteps(d)) \cup ControlSteps(d))
  <2>1. /\ \A s \in {a, b, c} \cup PutSteps(d) : s.do # "failed"
        /\ \A s \in ControlSteps(d) : s.do # "excl"
    BY <1>2, SetFacts
  <2> QED BY <1>7, <2>1, ControlMade, JoinMadeOf
<1>9. MadeOf(((<<a, b, c>> \o add_domain_assign(d)) \o add_control(d)) \o <<x, y, z>>,
             (({a, b, c} \cup PutSteps(d)) \cup ControlSteps(d)) \cup {x, y, z})
  <2>1. /\ \A s \in ({a, b, c} \cup PutSteps(d)) \cup ControlSteps(d) : s.do # "failed"
        /\ \A s \in {x, y, z} : s.do # "excl"
    BY <1>2, SetFacts
  <2> QED BY <1>6, <1>8, <2>1, JoinMadeOf
<1> QED BY <1>3, <1>4, <1>9

LEMMA AliasMade ==
  ASSUME NEW d \in Domains, NEW e \in Domains
  PROVE  MadeOf(alias(d, e), AliasSteps(d, e))
<1> DEFINE a == Edit("absent", "assign", d, "stop")
           b == Edit("present", "assign", e, "stop")
           c == S("symlink", "dir", d, e, "stop")
           z == S("enlist", "aliasdomains", e, d, "stop")
<1>1. a \in Steps /\ b \in Steps /\ c \in Steps /\ z \in Steps
  BY EditSteps, PairSteps DEF Files, Fails, OtherDos
<1>2. /\ a.do = "absent" /\ a.fail = "stop" /\ b.do = "present" /\ b.fail = "stop"
      /\ c.do = "symlink" /\ c.fail = "stop" /\ z.do = "enlist" /\ z.fail = "stop"
  BY DEF Edit, S
<1>3. alias(d, e) = <<a, b, c>> \o add_domain_assign(d) \o add_control(d) \o <<z>>
  BY DEF alias
<1>4. AliasSteps(d, e) = {a, b, c} \cup PutSteps(d) \cup ControlSteps(d) \cup {z}
  BY DEF AliasSteps
<1> HIDE DEF a, b, c, z
<1>5. MadeOf(<<a, b, c>>, {a, b, c})
  <2>1. <<a, b, c>> \in Seq(Steps) /\ Range(<<a, b, c>>) = {a, b, c}
    BY <1>1 DEF Range
  <2> QED BY <1>2, <2>1, PlainSteps DEF MadeOf
<1>6. MadeOf(<<z>>, {z})
  BY <1>1, <1>2, OneStep
<1>7. MadeOf(<<a, b, c>> \o add_domain_assign(d), {a, b, c} \cup PutSteps(d))
  <2>1. /\ \A s \in {a, b, c} : s.do # "failed"
        /\ \A s \in PutSteps(d) : s.do # "excl"
    BY <1>2, SetFacts
  <2> QED BY <1>5, <2>1, AssignMade, JoinMadeOf
<1>8. MadeOf((<<a, b, c>> \o add_domain_assign(d)) \o add_control(d), ({a, b, c} \cup PutSteps(d)) \cup ControlSteps(d))
  <2>1. /\ \A s \in {a, b, c} \cup PutSteps(d) : s.do # "failed"
        /\ \A s \in ControlSteps(d) : s.do # "excl"
    BY <1>2, SetFacts
  <2> QED BY <1>7, <2>1, ControlMade, JoinMadeOf
<1>9. MadeOf(((<<a, b, c>> \o add_domain_assign(d)) \o add_control(d)) \o <<z>>,
             (({a, b, c} \cup PutSteps(d)) \cup ControlSteps(d)) \cup {z})
  <2>1. /\ \A s \in ({a, b, c} \cup PutSteps(d)) \cup ControlSteps(d) : s.do # "failed"
        /\ \A s \in {z} : s.do # "excl"
    BY <1>2, SetFacts
  <2> QED BY <1>6, <1>8, <2>1, JoinMadeOf
<1> QED BY <1>3, <1>4, <1>9

LEMMA RollbackMade ==
  ASSUME NEW d \in Domains
  PROVE  MadeOf(Rollback(d), RollbackSteps(d))
<1> DEFINE a == Edit("rmdir", "dir", d, "skip")
           b == Edit("failed", "none", d, "skip")
<1>1. a \in Steps /\ b \in Steps
  BY EditSteps DEF Fails, OtherDos
<1>2. a.do = "rmdir" /\ a.fail = "skip" /\ b.do = "failed" /\ b.fail = "skip"
  BY DEF Edit, S
<1>3. Rollback(d) = del_domain_assign(d, "over2") \o del_control(d, "skip") \o <<a, b>>
  BY DEF Rollback
<1>4. RollbackSteps(d) = DropSteps(d, "over2") \cup UncontrolSteps(d, "skip") \cup {a, b}
  BY DEF RollbackSteps
<1> HIDE DEF a, b
<1>5. MadeOf(<<a, b>>, {a, b})
  <2>1. <<a, b>> \in Seq(Steps) /\ Range(<<a, b>>) = {a, b}
    BY <1>1 DEF Range
  <2>2. Whole(<<a, b>>)
    BY <1>2 DEF Whole
  <2> QED BY <2>1, <2>2 DEF MadeOf
<1>6. MadeOf(del_domain_assign(d, "over2") \o del_control(d, "skip"), DropSteps(d, "over2") \cup UncontrolSteps(d, "skip"))
  <2>1. /\ \A s \in DropSteps(d, "over2") : s.do # "failed"
        /\ \A s \in UncontrolSteps(d, "skip") : s.do # "excl"
    BY SetFacts
  <2> QED BY <2>1, AssignMade, ControlMade, JoinMadeOf
<1>7. MadeOf((del_domain_assign(d, "over2") \o del_control(d, "skip")) \o <<a, b>>,
             (DropSteps(d, "over2") \cup UncontrolSteps(d, "skip")) \cup {a, b})
  <2>1. /\ \A s \in DropSteps(d, "over2") \cup UncontrolSteps(d, "skip") : s.do # "failed"
        /\ \A s \in {a, b} : s.do # "excl"
    BY <1>2, SetFacts
  <2> QED BY <1>5, <1>6, <2>1, JoinMadeOf
<1> QED BY <1>3, <1>4, <1>7

LEMMA UndoAllMade ==
  ASSUME NEW d \in Domains
  PROVE  MadeOf(UndoAll(d), {Edit("find", "assign", d, "stop"), Edit("failed", "none", d, "skip")})
<1> DEFINE a == Edit("find", "assign", d, "stop")
           b == Edit("failed", "none", d, "skip")
<1>1. a \in Steps /\ b \in Steps
  BY EditSteps DEF Fails, OtherDos
<1>2. a.do = "find" /\ a.fail = "stop" /\ b.do = "failed" /\ b.fail = "skip"
  BY DEF Edit, S
<1>3. UndoAll(d) = <<a, b>>
  BY DEF UndoAll
<1> SUFFICES MadeOf(UndoAll(d), {a, b})
  BY DEF a, b
<1> HIDE DEF a, b
<1>4. <<a, b>> \in Seq(Steps) /\ Range(<<a, b>>) = {a, b}
  BY <1>1 DEF Range
<1>5. Whole(<<a, b>>)
  BY <1>2 DEF Whole
<1> QED BY <1>3, <1>4, <1>5 DEF MadeOf

LEMMA RenameMade ==
  ASSUME NEW d \in Domains, NEW e \in Domains
  PROVE  MadeOf(rename(d, e), RenameSteps(d, e))
<1> DEFINE a == S("mvdir", "dir", d, e, "stop")
           b == S("mvrows", "rows", d, e, "stop")
           c == S("relink", "aliasdomains", d, e, "stop")
           P == add_domain_assign(e)
           Q == add_control(e)
           U == del_domain_assign(d, "stop")
           V == del_control(d, "stop")
<1>1. a \in Steps /\ b \in Steps /\ c \in Steps
  BY PairSteps
<1>2. /\ a.do = "mvdir" /\ a.fail = "stop" /\ b.do = "mvrows" /\ b.fail = "stop"
      /\ c.do = "relink" /\ c.fail = "stop"
  BY DEF S
<1>3. rename(d, e) = <<a, b>> \o P \o Q \o U \o <<c>> \o V
  BY DEF rename
<1>4. RenameSteps(d, e) = {a, b} \cup PutSteps(e) \cup ControlSteps(e) \cup DropSteps(d, "stop") \cup {c} \cup UncontrolSteps(d, "stop")
  BY DEF RenameSteps
<1>0. /\ MadeOf(P, PutSteps(e)) /\ MadeOf(Q, ControlSteps(e))
      /\ MadeOf(U, DropSteps(d, "stop")) /\ MadeOf(V, UncontrolSteps(d, "stop"))
  BY AssignMade, ControlMade
<1> HIDE DEF a, b, c, P, Q, U, V
<1> DEFINE A1 == {a, b} \cup PutSteps(e)
           A2 == A1 \cup ControlSteps(e)
           A3 == A2 \cup DropSteps(d, "stop")
           A4 == A3 \cup {c}
<1>5. /\ \A s \in {a, b} : s.do # "failed" /\ s.do # "excl"
      /\ \A s \in A1 : s.do # "failed" /\ s.do # "excl"
      /\ \A s \in A2 : s.do # "failed" /\ s.do # "excl"
      /\ \A s \in A3 : s.do # "failed" /\ s.do # "excl"
      /\ \A s \in A4 : s.do # "failed" /\ s.do # "excl"
      /\ \A s \in PutSteps(e) : s.do # "excl"
      /\ \A s \in ControlSteps(e) : s.do # "excl"
      /\ \A s \in DropSteps(d, "stop") : s.do # "excl"
      /\ \A s \in {c} : s.do # "excl"
      /\ \A s \in UncontrolSteps(d, "stop") : s.do # "excl"
  BY <1>2, SetFacts
<1>6. MadeOf(<<a, b>>, {a, b})
  <2>1. <<a, b>> \in Seq(Steps) /\ Range(<<a, b>>) = {a, b}
    BY <1>1 DEF Range
  <2> QED BY <1>2, <2>1, PlainSteps DEF MadeOf
<1>7. MadeOf(<<c>>, {c})
  BY <1>1, <1>2, OneStep
<1>8. MadeOf(<<a, b>> \o P, A1)
  BY <1>0, <1>5, <1>6, JoinMadeOf
<1>9. MadeOf(<<a, b>> \o P \o Q, A2)
  <2> HIDE DEF A1
  <2> QED BY <1>0, <1>5, <1>8, JoinMadeOf
<1>10. MadeOf(<<a, b>> \o P \o Q \o U, A3)
  <2> HIDE DEF A2
  <2> QED BY <1>0, <1>5, <1>9, JoinMadeOf
<1>11. MadeOf(<<a, b>> \o P \o Q \o U \o <<c>>, A4)
  <2> HIDE DEF A3
  <2> QED BY <1>5, <1>7, <1>10, JoinMadeOf
<1>12. MadeOf(<<a, b>> \o P \o Q \o U \o <<c>> \o V, A4 \cup UncontrolSteps(d, "stop"))
  <2> HIDE DEF A4
  <2> QED BY <1>0, <1>5, <1>11, JoinMadeOf
<1> QED BY <1>3, <1>4, <1>12

DelSteps(d, unlink) ==
  DropSteps(d, "stop") \cup {Edit("rmdir", "seen", d, "stop")}
  \cup (IF unlink THEN {} ELSE {Edit("norows", "rows", d, "stop")}) \cup UncontrolSteps(d, "stop")

StrikeSteps(d, cwd) == {remove_alias_domain(a, Resolve(d)) : a \in Listed(d, cwd) \cup {d}}

LEMMA DelMade ==
  ASSUME StoreOK, NEW d \in Domains, NEW cwd, NEW s \in SetToSeqs(Listed(d, cwd))
  PROVE  \E K \in SUBSET StrikeSteps(d, cwd) :
            MadeOf(deldomain(d, cwd, s), K \cup DelSteps(d, is_alias_domain(d, cwd)))
<1> DEFINE L == Listed(d, cwd)
           e == Resolve(d)
           n == Cardinality(L)
           each == [i \in DOMAIN s |-> remove_alias_domain(s[i], e)]
<1>1. e \in Domains /\ L \subseteq Domains
  BY ResolveType DEF Listed
<1>2. n \in Nat
  BY <1>1, DomainsAssumption, FS_Subset, FS_CardinalityType
<1>3. DOMAIN s = 1..n /\ \A i \in 1..n : s[i] \in L
  BY DEF SetToSeqs
<1>4. StrikeSteps(d, cwd) = {remove_alias_domain(a, e) : a \in L \cup {d}}
  BY DEF StrikeSteps
<1> HIDE DEF L, e, n
<1>5. \A a \in Domains : /\ remove_alias_domain(a, e) \in Steps
                         /\ remove_alias_domain(a, e).do = "strike"
                         /\ remove_alias_domain(a, e).fail = "stop"
  <2>1. \A a \in Domains : remove_alias_domain(a, e) \in Steps
    BY <1>1, PairSteps DEF remove_alias_domain
  <2> QED BY <2>1 DEF remove_alias_domain, S
<1>6. \A x \in StrikeSteps(d, cwd) : x \in Steps /\ x.do = "strike" /\ x.fail = "stop"
  BY <1>1, <1>4, <1>5
<1>7. each \in [1..n -> StrikeSteps(d, cwd)]
  BY <1>3, <1>4
<1>8. each \in Seq(Steps) /\ Range(each) \subseteq StrikeSteps(d, cwd)
  <2>1. each \in [1..n -> Steps]
    BY <1>6, <1>7
  <2>2. Range(each) \subseteq StrikeSteps(d, cwd)
    <3> HIDE DEF each
    <3> QED BY <1>7 DEF Range
  <2> QED BY <1>2, <2>1, <2>2
<1> DEFINE one == <<remove_alias_domain(d, e)>>
<1>9. one \in Seq(Steps) /\ Range(one) \subseteq StrikeSteps(d, cwd)
  <2>1. remove_alias_domain(d, e) \in Steps
    BY <1>5
  <2>2. Range(one) = {remove_alias_domain(d, e)} /\ one \in Seq(Steps)
    BY <2>1, OneStep
  <2> QED BY <1>4, <2>2
<1> HIDE DEF each, one
<1> DEFINE al == is_alias_domain(d, cwd)
           first == IF al THEN one ELSE each
           third == IF al THEN <<>> ELSE <<Edit("norows", "rows", d, "stop")>>
           T3 == IF al THEN {} ELSE {Edit("norows", "rows", d, "stop")}
           r == Edit("rmdir", "seen", d, "stop")
           U == del_domain_assign(d, "stop")
           V == del_control(d, "stop")
<1>10. deldomain(d, cwd, s) = first \o U \o <<r>> \o third \o V
  BY DEF deldomain, first, third, each, one, e
<1>11. DelSteps(d, al) = DropSteps(d, "stop") \cup {r} \cup T3 \cup UncontrolSteps(d, "stop")
  BY DEF DelSteps
<1>12. first \in Seq(Steps) /\ Range(first) \subseteq StrikeSteps(d, cwd)
  BY <1>8, <1>9
<1>13. MadeOf(first, Range(first))
  <2> HIDE DEF first
  <2> QED BY <1>6, <1>12, PlainSteps DEF MadeOf
<1>14. MadeOf(<<r>>, {r}) /\ r.do = "rmdir"
  <2>1. r \in Steps /\ r.fail = "stop" /\ r.do = "rmdir"
    BY EditSteps DEF OtherDos, Fails, Edit, S
  <2> HIDE DEF r
  <2> QED BY <2>1, OneStep
<1>15. MadeOf(third, T3) /\ \A x \in T3 : x.do = "norows"
  <2>1. CASE al
    <3>1. MadeOf(<<>>, {})
      <4>1. <<>> \in Seq(Steps) /\ Range(<<>>) = {}
        BY DEF Range
      <4> QED BY <4>1, PlainSteps DEF MadeOf
    <3> QED BY <2>1, <3>1
  <2>2. CASE ~al
    <3> DEFINE w == Edit("norows", "rows", d, "stop")
    <3>1. w \in Steps /\ w.fail = "stop" /\ w.do = "norows"
      BY EditSteps DEF OtherDos, Fails, Edit, S
    <3>2. third = <<w>> /\ T3 = {w}
      BY <2>2
    <3> HIDE DEF w, third, T3
    <3> QED BY <3>1, <3>2, OneStep
  <2> QED BY <2>1, <2>2
<1>16. MadeOf(U, DropSteps(d, "stop")) /\ MadeOf(V, UncontrolSteps(d, "stop"))
  BY AssignMade, ControlMade
<1> DEFINE A0 == Range(first)
           A1 == A0 \cup DropSteps(d, "stop")
           A2 == A1 \cup {r}
           A3 == A2 \cup T3
<1>17. A0 \subseteq StrikeSteps(d, cwd) /\ MadeOf(first, A0)
  BY <1>12, <1>13
<1> HIDE DEF first, third, T3, r, U, V, A0
<1>18. /\ \A x \in A0 : x.do # "failed"
       /\ \A x \in A1 : x.do # "failed"
       /\ \A x \in A2 : x.do # "failed"
       /\ \A x \in A3 : x.do # "failed"
       /\ \A x \in DropSteps(d, "stop") : x.do # "excl"
       /\ \A x \in {r} : x.do # "excl"
       /\ \A x \in T3 : x.do # "excl"
       /\ \A x \in UncontrolSteps(d, "stop") : x.do # "excl"
  BY <1>6, <1>14, <1>15, <1>17, SetFacts
<1>19. MadeOf(first \o U, A1)
  BY <1>16, <1>17, <1>18, JoinMadeOf
<1>20. MadeOf(first \o U \o <<r>>, A2)
  <2> HIDE DEF A1
  <2> QED BY <1>14, <1>18, <1>19, JoinMadeOf
<1>21. MadeOf(first \o U \o <<r>> \o third, A3)
  <2> HIDE DEF A2
  <2> QED BY <1>15, <1>18, <1>20, JoinMadeOf
<1>22. MadeOf(first \o U \o <<r>> \o third \o V, A3 \cup UncontrolSteps(d, "stop"))
  <2> HIDE DEF A3
  <2> QED BY <1>16, <1>18, <1>21, JoinMadeOf
<1>23. A3 \cup UncontrolSteps(d, "stop") = A0 \cup DelSteps(d, al)
  BY <1>11
<1> QED BY <1>10, <1>17, <1>22, <1>23

-----------------------------------------------------------------------------
(* The invariant.                                                          *)

\* A step of a tool that takes something away.
RemovalStep(o, s) ==
  /\ s.do \notin {"mkdir", "excl", "tables", "postmaster"} /\ s.fail \notin {"rollback", "undo"}
  /\ s.fail = "again" => s.do = "drop"
  /\ s.do = "find" => s.d = o.d
  /\ s.do = "turn" => s.d = o.d /\ s.e = o.e /\ o.e # o.d
  /\ s.do = "failed" => s.d = o.d /\ o.do = "undo"
  /\ s.do = "norows" => s = Edit("norows", "rows", o.d, "stop")
  /\ s.do = "rmdir" => \/ s = Edit("rmdir", "seen", o.d, "stop")
                       \/ s = Edit("rmdir", "dir", o.d, "skip") /\ o.do = "undo"
  /\ s.do \in {"put", "rcpt", "symlink"} => s.d = o.e /\ o.e # o.d /\ s.fail = "stop"
  /\ s.do = "put" => s.f \in {"assign", "virtualdomains"}
  /\ s.do = "mvdir" => s = S("mvdir", "dir", o.d, o.e, "stop") /\ o.e # o.d
  /\ s.do = "mvrows" => s = S("mvrows", "rows", o.d, o.e, "stop") /\ o.e # o.d
  /\ o.do = "rename" => /\ s.do \notin {"strike", "ifknown"}
                        /\ s.do = "drop" => s.d = o.d \/ s = Edit("drop", "locals", o.e, "stop")

\* The steps R are steps of operation o.
StepsOf(o, R) ==
  /\ o.do = "add" => o.e = o.d /\ R \subseteq AddSteps(o.d)
  /\ o.do = "alias" => R \subseteq AliasSteps(o.d, o.e)
  /\ o.do = "rename" => o.e # o.d
  /\ Removes(o) => \A s \in R : RemovalStep(o, s)

Pending(t) == Range(prog[t])

ProgOK(t) == Whole(prog[t]) /\ StepsOf(op[t], Pending(t))

\* Nobody else is at a domain that a tool removes, unless it is in mixed.
Alone(t) == Removes(op[t]) => \A u \in Tools \ {t} : Touched(t) \cap Touched(u) \subseteq mixed

\* An addition that has made .qmail-default.
Late(t) == op[t].do = "add" /\ \A s \in Pending(t) : s.do # "excl"

\* What is made of d by the steps that are no longer in the program.
Made(t, d) ==
  /\ Edit("put", "assign", d, "stop") \in Pending(t) \/ d \in file["assign"]
  /\ Edit("rcpt", "rcpthosts", d, "stop") \in Pending(t) \/ d \in Accepted
  /\ Edit("put", "virtualdomains", d, "stop") \in Pending(t) \/ d \in file["virtualdomains"]
  /\ Edit("drop", "locals", d, "stop") \in Pending(t) \/ d \notin file["locals"]

Awaits(t, do) == \E s \in Pending(t) : s.do = do

\* Of the additions of one domain only one gets beyond .qmail-default.
Sole(t, d) ==
  Late(t) => dir[d] = "link" \/ (dir[d] = "full" /\ \A u \in Tools \ {t} : op[u].d = d => ~Late(u))

AddOK(t) ==
  op[t].do = "add" /\ op[t].d \notin mixed => Made(t, op[t].d) /\ Sole(t, op[t].d)

RenameOK(t) ==
  op[t].do = "rename" /\ op[t].e \notin mixed /\ ~Awaits(t, "turn") => Made(t, op[t].e)

\* An addition is taken back, and a step that may then fail has failed or is to come.
Excused(t, s) == op[t].do = "undo" /\ (faults > 1 \/ (faults > 0 /\ s \in Pending(t)))

\* What is removed of d by the steps that are no longer in the program.
Undone(t, d) ==
  /\ \/ Edit("drop", "assign", d, "stop") \in Pending(t) \/ d \notin file["assign"]
     \/ Excused(t, Edit("drop", "assign", d, "over2"))
  /\ \/ Edit("drop", "virtualdomains", d, "stop") \in Pending(t) \/ d \notin file["virtualdomains"]
     \/ Excused(t, Edit("drop", "virtualdomains", d, "skip"))
  /\ \/ Edit("drop", "rcpthosts", d, "again") \in Pending(t) \/ d \notin file["rcpthosts"]
     \/ faults > 1 \/ (faults > 0 /\ Edit("drop", "rcpthosts", d, "skip") \in Pending(t))
  /\ \/ Edit("drop", "chkrcptdomains", d, "skip") \in Pending(t) \/ d \notin file["chkrcptdomains"]
     \/ faults > 0
  /\ \/ Edit("rmdir", "seen", d, "stop") \in Pending(t) \/ Awaits(t, "mvdir") \/ dir[d] = "none"
     \/ Excused(t, Edit("rmdir", "dir", d, "skip"))
  /\ \/ op[t].do \notin {"del", "rename"}
     \/ Awaits(t, "norows") \/ Awaits(t, "mvrows") \/ d \notin rows

DelOK(t) ==
  Removes(op[t]) /\ op[t].d \notin mixed /\ ~Awaits(t, "find") /\ ~Awaits(t, "turn") => Undone(t, op[t].d)

ToolOK(t) == ProgOK(t) /\ Alone(t) /\ AddOK(t) /\ RenameOK(t) /\ DelOK(t)

\* What was reported of d, and which tools may then be at d.
There(d) ==
  told[d] = "there" =>
    /\ dir[d] = "full"
    /\ d \in file["assign"] /\ d \in file["virtualdomains"] /\ d \in Accepted
    /\ d \notin file["locals"]
    /\ \A t \in Tools : (Removes(op[t]) => d \notin Touched(t)) /\ (op[t].d = d => ~Late(t))

Gone(d) ==
  told[d] \in {"gone", "unlinked"} =>
    /\ dir[d] = "none"
    /\ d \notin file["assign"] \cup file["virtualdomains"]
    /\ d \in file["rcpthosts"] => faults > 1
    /\ d \in file["chkrcptdomains"] => faults > 0
    /\ told[d] = "gone" => d \notin rows

Rolled(d) ==
  told[d] = "rolled" /\ faults <= 1 =>
    /\ dir[d] = "none"
    /\ d \notin file["assign"] \cup file["virtualdomains"] \cup file["rcpthosts"]

Free(d) == told[d] \in {"gone", "unlinked", "rolled"} => \A t \in Tools : d \notin Touched(t)

Inv ==
  /\ TypeInv
  /\ \A t \in Tools : ToolOK(t)
  /\ \A d \in Domains : There(d) /\ Gone(d) /\ Rolled(d) /\ Free(d)

-----------------------------------------------------------------------------
(* The programs are those of their operations.                             *)

LEMMA Fields ==
  ASSUME NEW do, NEW f, NEW d, NEW e, NEW fail
  PROVE  /\ S(do, f, d, e, fail).do = do /\ S(do, f, d, e, fail).f = f /\ S(do, f, d, e, fail).d = d
         /\ S(do, f, d, e, fail).e = e /\ S(do, f, d, e, fail).fail = fail
         /\ Edit(do, f, d, fail).do = do /\ Edit(do, f, d, fail).f = f /\ Edit(do, f, d, fail).d = d
         /\ Edit(do, f, d, fail).e = d /\ Edit(do, f, d, fail).fail = fail
BY DEF Edit, S

LEMMA Harmless ==
  ASSUME NEW o, NEW s, s.fail \notin {"rollback", "undo", "again"},
         s.do \in {"compile", "install", "absent", "present", "count", "enlist", "relink"}
  PROVE  RemovalStep(o, s)
BY DEF RemovalStep

LEMMA Dropping ==
  ASSUME NEW o, NEW s, s.do = "drop", s.fail \notin {"rollback", "undo"},
         o.do = "rename" => s.d = o.d \/ s = Edit("drop", "locals", o.e, "stop")
  PROVE  RemovalStep(o, s)
BY DEF RemovalStep

LEMMA NewuRemoval ==
  ASSUME NEW o, NEW s \in NewuSteps
  PROVE  RemovalStep(o, s)
<1>1. s.do \in {"compile", "install"} /\ s.fail \in {"over1", "skip"}
  BY DEF NewuSteps, Edit, S
<1> QED BY <1>1, Harmless

LEMMA DropRemoval ==
  ASSUME NEW o, NEW d, NEW fail \in {"stop", "skip", "over2"}, o.do = "rename" => d = o.d
  PROVE  /\ \A s \in DropSteps(d, fail) : RemovalStep(o, s)
         /\ \A s \in UncontrolSteps(d, fail) : RemovalStep(o, s)
<1>1. \A s \in UncontrolSteps(d, fail) : s.do = "drop" /\ s.d = d /\ s.fail \in {"again", "skip", "stop", "over2"}
  BY DEF UncontrolSteps, Edit, S
<1>2. \A s \in UncontrolSteps(d, fail) : RemovalStep(o, s)
  BY <1>1, Dropping
<1> DEFINE x == Edit("drop", "assign", d, fail)
<1>3. x.do = "drop" /\ x.d = d /\ x.fail = fail
  BY Fields
<1>4. DropSteps(d, fail) = {x} \cup NewuSteps
  BY DEF DropSteps
<1> HIDE DEF x
<1>5. RemovalStep(o, x)
  BY <1>3, Dropping
<1> QED BY <1>2, <1>4, <1>5, NewuRemoval

\* Additions within a renaming.
LEMMA PutRemoval ==
  ASSUME NEW o, o.e # o.d
  PROVE  /\ \A s \in PutSteps(o.e) : RemovalStep(o, s)
         /\ \A s \in ControlSteps(o.e) : RemovalStep(o, s)
<1>1. \A s \in ControlSteps(o.e) :
        /\ s.fail = "stop" /\ s.d = o.e
        /\ \/ s.do \in {"count", "rcpt"}
           \/ s.do = "put" /\ s.f = "virtualdomains"
           \/ s.do = "drop" /\ s = Edit("drop", "locals", o.e, "stop")
  BY DEF ControlSteps, Edit, S
<1>2. ASSUME NEW s, s.do \in {"put", "rcpt"}, s.fail = "stop", s.d = o.e,
             s.do = "put" => s.f \in {"assign", "virtualdomains"}
      PROVE  RemovalStep(o, s)
  BY <1>2 DEF RemovalStep
<1>3. ASSUME NEW s \in ControlSteps(o.e)
      PROVE  RemovalStep(o, s)
  <2>1. CASE s.do = "count"
    BY <1>1, <2>1, Harmless
  <2>2. CASE s.do \in {"put", "rcpt"}
    BY <1>1, <1>2, <2>2
  <2>3. CASE s.do = "drop"
    BY <1>1, <2>3, Dropping
  <2> QED BY <1>1, <2>1, <2>2, <2>3
<1> DEFINE x == Edit("put", "assign", o.e, "stop")
<1>4. x.do = "put" /\ x.d = o.e /\ x.fail = "stop" /\ x.f = "assign"
  BY Fields
<1>5. PutSteps(o.e) = {x} \cup NewuSteps
  BY DEF PutSteps
<1> HIDE DEF x
<1>6. RemovalStep(o, x)
  BY <1>2, <1>4
<1> QED BY <1>3, <1>5, <1>6, NewuRemoval

LEMMA FirstRemoval ==
  ASSUME NEW o
  PROVE  /\ RemovalStep(o, Edit("find", "assign", o.d, "stop"))
         /\ o.e # o.d => RemovalStep(o, S("turn", "assign", o.d, o.e, "stop"))
         /\ o.do = "undo" => RemovalStep(o, Edit("failed", "none", o.d, "skip"))
<1> DEFINE x == Edit("find", "assign", o.d, "stop")
           y == S("turn", "assign", o.d, o.e, "stop")
           z == Edit("failed", "none", o.d, "skip")
<1>1. /\ x.do = "find" /\ x.d = o.d /\ x.fail = "stop"
      /\ y.do = "turn" /\ y.d = o.d /\ y.e = o.e /\ y.fail = "stop"
      /\ z.do = "failed" /\ z.d = o.d /\ z.fail = "skip"
  BY Fields
<1> SUFFICES /\ RemovalStep(o, x) /\ (o.e # o.d => RemovalStep(o, y))
             /\ (o.do = "undo" => RemovalStep(o, z))
  BY DEF x, y, z
<1> HIDE DEF x, y, z
<1> QED BY <1>1 DEF RemovalStep

LEMMA RollbackRemoval ==
  ASSUME NEW o, o.do = "undo"
  PROVE  StepsOf(o, RollbackSteps(o.d))
<1> DEFINE x == Edit("rmdir", "dir", o.d, "skip")
<1>1. x.do = "rmdir" /\ x.fail = "skip" /\ x = Edit("rmdir", "dir", o.d, "skip")
  BY Fields
<1>2. RollbackSteps(o.d) = DropSteps(o.d, "over2") \cup UncontrolSteps(o.d, "skip") \cup {x, Edit("failed", "none", o.d, "skip")}
  BY DEF RollbackSteps
<1> HIDE DEF x
<1>3. RemovalStep(o, x)
  BY <1>1 DEF RemovalStep
<1>4. \A s \in RollbackSteps(o.d) : RemovalStep(o, s)
  BY <1>2, <1>3, DropRemoval, FirstRemoval
<1> QED BY <1>4 DEF StepsOf, Removes

LEMMA RenameRemoval ==
  ASSUME NEW o, Removes(o), o.e # o.d
  PROVE  StepsOf(o, RenameSteps(o.d, o.e))
<1> DEFINE x == S("mvdir", "dir", o.d, o.e, "stop")
           y == S("mvrows", "rows", o.d, o.e, "stop")
           z == S("relink", "aliasdomains", o.d, o.e, "stop")
<1>1. /\ x.do = "mvdir" /\ x.fail = "stop" /\ x = S("mvdir", "dir", o.d, o.e, "stop")
      /\ y.do = "mvrows" /\ y.fail = "stop" /\ y = S("mvrows", "rows", o.d, o.e, "stop")
      /\ z.do = "relink" /\ z.fail = "stop"
  BY Fields
<1>2. RenameSteps(o.d, o.e) = {x, y} \cup PutSteps(o.e) \cup ControlSteps(o.e) \cup DropSteps(o.d, "stop")
                              \cup {z} \cup UncontrolSteps(o.d, "stop")
  BY DEF RenameSteps
<1> HIDE DEF x, y, z
<1>3. RemovalStep(o, x) /\ RemovalStep(o, y)
  BY <1>1 DEF RemovalStep
<1>4. RemovalStep(o, z)
  BY <1>1, Harmless
<1>5. \A s \in RenameSteps(o.d, o.e) : RemovalStep(o, s)
  BY <1>2, <1>3, <1>4, DropRemoval, PutRemoval
<1> QED BY <1>5 DEF StepsOf, Removes

\* The renaming of an alias.
LEMMA AliasRemoval ==
  ASSUME NEW o, Removes(o), o.e # o.d, NEW r
  PROVE  StepsOf(o, AliasSteps(o.e, r) \cup {Edit("find", "assign", o.d, "stop")})
<1> DEFINE x == Edit("absent", "assign", o.e, "stop")
           y == Edit("present", "assign", r, "stop")
           z == S("symlink", "dir", o.e, r, "stop")
           w == S("enlist", "aliasdomains", r, o.e, "stop")
<1>1. /\ x.do = "absent" /\ x.fail = "stop" /\ y.do = "present" /\ y.fail = "stop"
      /\ z.do = "symlink" /\ z.fail = "stop" /\ z.d = o.e /\ w.do = "enlist" /\ w.fail = "stop"
  BY Fields
<1>2. AliasSteps(o.e, r) = {x, y, z} \cup PutSteps(o.e) \cup ControlSteps(o.e) \cup {w}
  BY DEF AliasSteps
<1> HIDE DEF x, y, z, w
<1>3. RemovalStep(o, z)
  BY <1>1 DEF RemovalStep
<1>4. RemovalStep(o, x) /\ RemovalStep(o, y) /\ RemovalStep(o, w)
  BY <1>1, Harmless
<1>5. \A s \in AliasSteps(o.e, r) \cup {Edit("find", "assign", o.d, "stop")} : RemovalStep(o, s)
  BY <1>2, <1>3, <1>4, PutRemoval, FirstRemoval
<1> QED BY <1>5 DEF StepsOf, Removes

LEMMA DelRemoval ==
  ASSUME NEW o, o.do \in {"del", "unlink", "undo"}, NEW cwd, NEW unlink
  PROVE  StepsOf(o, StrikeSteps(o.d, cwd) \cup DelSteps(o.d, unlink))
<1> DEFINE x == Edit("rmdir", "seen", o.d, "stop")
           y == Edit("norows", "rows", o.d, "stop")
<1>1. /\ x.do = "rmdir" /\ x.fail = "stop" /\ x = Edit("rmdir", "seen", o.d, "stop")
      /\ y.do = "norows" /\ y.fail = "stop" /\ y = Edit("norows", "rows", o.d, "stop")
  BY Fields
<1>2. DelSteps(o.d, unlink) \subseteq DropSteps(o.d, "stop") \cup {x, y} \cup UncontrolSteps(o.d, "stop")
  BY DEF DelSteps
<1> HIDE DEF x, y
<1>3. RemovalStep(o, x) /\ RemovalStep(o, y)
  BY <1>1 DEF RemovalStep
<1>4. ASSUME NEW s \in StrikeSteps(o.d, cwd)
      PROVE  RemovalStep(o, s)
  <2>1. s.do = "strike" /\ s.fail = "stop"
    BY DEF StrikeSteps, remove_alias_domain, S
  <2> QED BY <2>1 DEF RemovalStep
<1>5. \A s \in DelSteps(o.d, unlink) : RemovalStep(o, s)
  BY <1>2, <1>3, DropRemoval
<1> QED BY <1>4, <1>5 DEF StepsOf, Removes

\* From the step of remove_alias_domain() on, or the second try of an edit.
LEMMA NextRemoval ==
  ASSUME NEW o, NEW s, RemovalStep(o, s)
  PROVE  /\ s.do = "strike" => RemovalStep(o, Edit("ifknown", "assign", s.e, "stop"))
         /\ s.do = "ifknown" => \A x \in DropSteps(s.d, "stop") \cup UncontrolSteps(s.d, "skip") : RemovalStep(o, x)
         /\ s.fail = "again" => RemovalStep(o, Edit("drop", s.f, s.d, "skip"))
<1>1. /\ s.do = "strike" => o.do # "rename"
      /\ s.do = "ifknown" => o.do # "rename"
      /\ s.fail = "again" => (o.do = "rename" => s.d = o.d \/ s = Edit("drop", "locals", o.e, "stop"))
  BY DEF RemovalStep
<1>2. s.do = "ifknown" => \A x \in DropSteps(s.d, "stop") \cup UncontrolSteps(s.d, "skip") : RemovalStep(o, x)
  BY <1>1, DropRemoval
<1>3. ASSUME s.do = "strike"
      PROVE  RemovalStep(o, Edit("ifknown", "assign", s.e, "stop"))
  <2> DEFINE x == Edit("ifknown", "assign", s.e, "stop")
  <2>1. x.do = "ifknown" /\ x.fail = "stop"
    BY Fields
  <2> HIDE DEF x
  <2>2. RemovalStep(o, x)
    BY <1>1, <1>3, <2>1 DEF RemovalStep
  <2> QED BY <2>2 DEF x
<1>4. ASSUME s.fail = "again"
      PROVE  RemovalStep(o, Edit("drop", s.f, s.d, "skip"))
  <2> DEFINE x == Edit("drop", s.f, s.d, "skip")
  <2>1. x.do = "drop" /\ x.fail = "skip" /\ x.d = s.d
    BY Fields
  <2>2. o.do = "rename" => s.d = o.d
    BY <1>1, <1>4, Fields
  <2> HIDE DEF x
  <2>3. RemovalStep(o, x)
    BY <2>1, <2>2, Dropping
  <2> QED BY <2>3 DEF x
<1> QED BY <1>2, <1>3, <1>4

\* A tool that goes on with a deletion.
LEMMA KindRemoval ==
  ASSUME NEW o \in Doing, NEW k, k \in {"del", "unlink"} \/ (k = "undo" /\ o.do = "undo"), o.do = "undo" => k = "undo",
         NEW s, RemovalStep(o, s)
  PROVE  RemovalStep([o EXCEPT !.do = k], s)
<1> DEFINE x == [o EXCEPT !.do = k]
<1>1. x.d = o.d /\ x.e = o.e /\ x.do = k
  BY DEF Doing
<1> HIDE DEF x
<1>2. RemovalStep(x, s)
  BY <1>1 DEF RemovalStep
<1> QED BY <1>2 DEF x

-----------------------------------------------------------------------------
(* What a step does to the store.                                          *)

LEMMA StruckSteps ==
  ASSUME NEW p
  PROVE  /\ \A s \in Range(p) : /\ s.do \in {"drop", "ifknown"} => s.d \in Struck(p)
                                /\ s.do = "strike" => s.e \in Struck(p)
         /\ \A x \in Struck(p) : \E s \in Range(p) : \/ s.do \in {"drop", "ifknown"} /\ s.d = x
                                                     \/ s.do = "strike" /\ s.e = x
BY DEF Struck

LEMMA AddStepFields ==
  ASSUME NEW d, NEW s \in AddSteps(d)
  PROVE  /\ s \in NewuSteps \/ s.d = d
         /\ s.do \in {"absent", "mkdir", "excl", "put", "compile", "install", "count", "rcpt", "drop", "tables", "postmaster"}
         /\ s.do = "put" => s.f # "locals"
         /\ s.do = "drop" => s = Edit("drop", "locals", d, "stop")
         /\ s.fail \in {"skip", "over1"} => s \in NewuSteps
         /\ s.fail \in {"stop", "skip", "over1", "rollback", "undo"}
         /\ s.fail \in {"rollback", "undo"} => s.do \in {"tables", "put", "postmaster"}
<1>1. CASE s \in NewuSteps
  BY <1>1 DEF NewuSteps, Edit, S
<1>2. CASE s \notin NewuSteps
  BY <1>2 DEF AddSteps, PutSteps, ControlSteps, Edit, S
<1> QED BY <1>1, <1>2

LEMMA AliasStepFields ==
  ASSUME NEW d, NEW e, NEW s \in AliasSteps(d, e)
  PROVE  /\ s.do \in {"absent", "present", "symlink", "put", "compile", "install", "count", "rcpt", "drop", "enlist"}
         /\ s.do \in {"put", "rcpt", "drop", "symlink"} => s.d = d
         /\ s.do = "put" => s.f # "locals"
         /\ s.do = "drop" => s = Edit("drop", "locals", d, "stop")
         /\ s.fail \in {"skip", "over1"} => s \in NewuSteps
         /\ s.fail \in {"stop", "skip", "over1"}
<1>1. CASE s \in NewuSteps
  BY <1>1 DEF NewuSteps, Edit, S
<1>2. CASE s \notin NewuSteps
  BY <1>2 DEF AliasSteps, PutSteps, ControlSteps, Edit, S
<1> QED BY <1>1, <1>2

LEMMA DoingKinds ==
  ASSUME NEW o \in Doing
  PROVE  o.do \in {"add", "alias"} \/ Removes(o)
BY OpsAssumption DEF Doing, Removes

\* The domains a step is about are those its tool is at.
LEMMA Footprint ==
  ASSUME ControlOK, NEW t \in Tools, ProgOK(t), prog[t] # <<>>
  PROVE  /\ Now(t) \in Pending(t) /\ Now(t) \in Steps /\ op[t] \in Doing
         /\ Now(t).do \in {"put", "rcpt", "drop", "mkdir", "symlink", "rmdir", "postmaster", "mvrows", "mvdir"}
              => Now(t).d \in Touched(t)
         /\ Now(t).do \in {"mvrows", "mvdir"} => Now(t).e \in Touched(t)
         /\ ~Removes(op[t]) => /\ Now(t).do \notin {"rmdir", "mvdir", "mvrows", "norows", "find", "turn"}
                               /\ Now(t).do = "drop" => Now(t).f = "locals"
         /\ Now(t).do = "put" => Now(t).f # "locals"
<1> DEFINE s == Now(t)
           o == op[t]
<1>1. prog[t] \in Seq(Steps) /\ Whole(prog[t]) /\ StepsOf(o, Pending(t))
  BY DEF ControlOK, ProgOK
<1>2. s \in Pending(t) /\ s \in Steps /\ o \in Doing
  BY <1>1, TailSteps, StepNow DEF Pending, Now
<1>3. s.do = "drop" => s.d \in Touched(t)
  BY <1>2, StruckSteps DEF Touched, Pending
<1>4. Named(o) \subseteq Touched(t) /\ (o.do \in {"add", "alias"} => o.d \in Named(o))
      /\ (Removes(o) => o.d \in Named(o) /\ o.e \in Named(o))
  BY DEF Touched, Named, Removes
<1> SUFFICES /\ s.do \in {"put", "rcpt", "mkdir", "symlink", "rmdir", "postmaster", "mvrows", "mvdir"} => s.d \in Touched(t)
             /\ s.do \in {"mvrows", "mvdir"} => s.e \in Touched(t)
             /\ ~Removes(o) => /\ s.do \notin {"rmdir", "mvdir", "mvrows", "norows", "find", "turn"}
                               /\ s.do = "drop" => s.f = "locals"
             /\ s.do = "put" => s.f # "locals"
  BY <1>2, <1>3
<1> HIDE DEF s, o
<1>5. CASE o.do = "add"
  <2>1. s \in AddSteps(o.d) /\ o.d \in Touched(t) /\ ~Removes(o)
    BY <1>1, <1>2, <1>4, <1>5 DEF StepsOf, Removes
  <2>2. s \in NewuSteps => s.do \in {"compile", "install"}
    BY SetFacts
  <2>3. s = Edit("drop", "locals", o.d, "stop") => s.f = "locals"
    BY Fields
  <2> QED BY <2>1, <2>2, <2>3, AddStepFields
<1>6. CASE o.do = "alias"
  <2>1. s \in AliasSteps(o.d, o.e) /\ o.d \in Touched(t) /\ ~Removes(o)
    BY <1>1, <1>2, <1>4, <1>6 DEF StepsOf, Removes
  <2>3. s = Edit("drop", "locals", o.d, "stop") => s.f = "locals"
    BY Fields
  <2> QED BY <2>1, <2>3, AliasStepFields
<1>7. CASE Removes(o)
  <2>1. RemovalStep(o, s) /\ o.d \in Touched(t) /\ o.e \in Touched(t)
    BY <1>1, <1>2, <1>4, <1>7 DEF StepsOf
  <2>2. /\ s = Edit("rmdir", "seen", o.d, "stop") => s.d = o.d
        /\ s = Edit("rmdir", "dir", o.d, "skip") => s.d = o.d
        /\ s = S("mvdir", "dir", o.d, o.e, "stop") => s.d = o.d /\ s.e = o.e
        /\ s = S("mvrows", "rows", o.d, o.e, "stop") => s.d = o.d /\ s.e = o.e
    BY DEF Edit, S
  <2> QED BY <1>7, <2>1, <2>2 DEF RemovalStep
<1> QED BY <1>2, <1>5, <1>6, <1>7, DoingKinds

\* Every change of a control file, of the users or of a directory is the one that
\* the step says, but for .qmail-default, which may be that of another domain.
FileEffect(t, x, f) ==
  /\ x \in file'[f] /\ x \notin file[f] =>
       /\ prog[t] # <<>> /\ Now(t).d = x
       /\ \/ Now(t).do = "put" /\ Now(t).f = f
          \/ Now(t).do = "rcpt" /\ f \in {"rcpthosts", "morercpthosts"}
  /\ x \in file[f] /\ x \notin file'[f] =>
       prog[t] # <<>> /\ Now(t).d = x /\ Now(t).do = "drop" /\ Now(t).f = f

RowEffect(t, x) ==
  x \in rows' /\ x \notin rows =>
    /\ prog[t] # <<>>
    /\ (Now(t).do = "postmaster" /\ Now(t).d = x) \/ (Now(t).do = "mvrows" /\ Now(t).e = x)

DirEffect(t, x) ==
  dir'[x] # dir[x] =>
    /\ prog[t] # <<>>
    /\ \/ Now(t).do = "excl" /\ dir[x] = "bare" /\ dir'[x] = "full"
       \/ Now(t).do \in {"mkdir", "symlink"} /\ Now(t).d = x /\ dir[x] = "none"
       \/ Now(t).do = "rmdir" /\ Now(t).d = x /\ dir[x] # "none"
       \/ Now(t).do = "mvdir" /\ Now(t).d = x /\ dir[x] # "none" /\ dir'[x] = "none"
       \/ Now(t).do = "mvdir" /\ Now(t).e = x /\ dir[x] = "none"

Effect(t) ==
  /\ \A x \in Domains, f \in Files : FileEffect(t, x, f)
  /\ \A x \in Domains : RowEffect(t, x) /\ DirEffect(t, x)
  /\ faults' \in {faults, faults + 1}

LEMMA FileEffects ==
  ASSUME TypeInv, NEW t \in Tools,
         (\E o \in Operations : Begin(t, o)) \/ Step(t) \/ Fail(t) \/ Crash(t)
  PROVE  \A x \in Domains, f \in Files : FileEffect(t, x, f)
<1> SUFFICES ASSUME NEW x \in Domains, NEW f \in Files PROVE FileEffect(t, x, f)
  OBVIOUS
<1>0. file \in [Files -> SUBSET Domains]
  BY DEF TypeInv, StoreOK
<1>1. CASE file' = file
  BY <1>1 DEF FileEffect
<1>2. CASE Put(t)
  BY <1>0, <1>2 DEF Put, At, Now, FileEffect
<1>3. CASE Drop(t)
  BY <1>0, <1>3 DEF Drop, At, Now, FileEffect
<1>4. CASE Rcpt(t)
  <2> DEFINE g == IF full[t] THEN "morercpthosts" ELSE "rcpthosts"
  <2>1. /\ prog[t] # <<>> /\ Now(t).do = "rcpt"
        /\ file' = [file EXCEPT ![g] = @ \cup {Now(t).d}]
    BY <1>4 DEF Rcpt, At, Now
  <2>2. g \in {"rcpthosts", "morercpthosts"}
    OBVIOUS
  <2> HIDE DEF g
  <2> QED BY <1>0, <2>1, <2>2 DEF FileEffect
<1>5. CASE Fail(t)
  <2>1. \/ file' = file
        \/ prog[t] # <<>> /\ Now(t).do = "drop" /\ file' = [file EXCEPT ![Now(t).f] = @ \ {Now(t).d}]
    BY <1>5 DEF Fail
  <2> QED BY <1>0, <2>1 DEF FileEffect
<1>6. CASE (\E o \in Operations : Begin(t, o)) \/ Crash(t)
  <2>1. file' = file
    BY <1>6 DEF Begin, Crash, store
  <2> QED BY <2>1 DEF FileEffect
<1>7. CASE Step(t) /\ ~Put(t) /\ ~Drop(t) /\ ~Rcpt(t)
  <2>1. file' = file
    BY <1>7 DEF Step, Absent, Present, Find, Turn, IfKnown, Count, Compile, Install, Mkdir, Excl, Symlink,
         Enlist, Strike, Rmdir, Tables, Postmaster, NoRows, MvRows, MvDir, Relink, Failed, End, store
  <2> QED BY <2>1 DEF FileEffect
<1> QED BY <1>2, <1>3, <1>4, <1>5, <1>6, <1>7

LEMMA RowEffects ==
  ASSUME TypeInv, NEW t \in Tools,
         (\E o \in Operations : Begin(t, o)) \/ Step(t) \/ Fail(t) \/ Crash(t)
  PROVE  \A x \in Domains : RowEffect(t, x)
<1> SUFFICES ASSUME NEW x \in Domains PROVE RowEffect(t, x)
  OBVIOUS
<1>1. CASE Postmaster(t)
  BY <1>1 DEF Postmaster, At, Now, RowEffect
<1>2. CASE NoRows(t)
  BY <1>2 DEF NoRows, RowEffect
<1>3. CASE MvRows(t)
  BY <1>3 DEF MvRows, At, Now, RowEffect
<1>4. CASE (\E o \in Operations : Begin(t, o)) \/ Fail(t) \/ Crash(t)
  <2>1. rows' = rows
    BY <1>4 DEF Begin, Crash, Fail, store
  <2> QED BY <2>1 DEF RowEffect
<1>5. CASE Step(t) /\ ~Postmaster(t) /\ ~NoRows(t) /\ ~MvRows(t)
  <2>1. rows' = rows
    BY <1>5 DEF Step, Absent, Present, Find, Turn, IfKnown, Put, Drop, Rcpt, Count, Compile, Install, Mkdir, Excl,
         Symlink, Enlist, Strike, Rmdir, Tables, MvDir, Relink, Failed, End, store
  <2> QED BY <2>1 DEF RowEffect
<1> QED BY <1>1, <1>2, <1>3, <1>4, <1>5

LEMMA DirEffects ==
  ASSUME TypeInv, NEW t \in Tools,
         (\E o \in Operations : Begin(t, o)) \/ Step(t) \/ Fail(t) \/ Crash(t)
  PROVE  \A x \in Domains : DirEffect(t, x)
<1> SUFFICES ASSUME NEW x \in Domains PROVE DirEffect(t, x)
  OBVIOUS
<1>0. dir \in [Domains -> {"none", "bare", "full", "link"}]
  BY DEF TypeInv, StoreOK
<1>a. CASE dir' = dir
  BY <1>a DEF DirEffect
<1>1. CASE Mkdir(t)
  <2>1. /\ prog[t] # <<>> /\ Now(t).do = "mkdir"
        /\ \/ dir' = dir
           \/ dir' = [dir EXCEPT ![Now(t).d] = IF dir[Now(t).d] = "none" THEN "bare" ELSE dir[Now(t).d]]
    BY <1>1 DEF Mkdir, At, Now
  <2> QED BY <1>0, <2>1 DEF DirEffect
<1>2. CASE Excl(t)
  <2> DEFINE r == Resolve(Now(t).d)
  <2>1. /\ prog[t] # <<>> /\ Now(t).do = "excl"
        /\ dir' = dir \/ (dir[r] = "bare" /\ dir' = [dir EXCEPT ![r] = "full"])
    BY <1>2 DEF Excl, At, Now
  <2> HIDE DEF r
  <2> QED BY <1>0, <2>1 DEF DirEffect
<1>3. CASE Symlink(t)
  <2>1. /\ prog[t] # <<>> /\ Now(t).do = "symlink"
        /\ dir' = dir \/ (dir[Now(t).d] = "none" /\ dir' = [dir EXCEPT ![Now(t).d] = "link"])
    BY <1>3 DEF Symlink, At, Now
  <2> QED BY <1>0, <2>1 DEF DirEffect
<1>4. CASE Rmdir(t)
  <2>1. /\ prog[t] # <<>> /\ Now(t).do = "rmdir"
        /\ dir' = dir \/ dir' = [dir EXCEPT ![Now(t).d] = "none"]
    BY <1>4 DEF Rmdir, At, Now
  <2> QED BY <1>0, <2>1 DEF DirEffect
<1>5. CASE MvDir(t)
  <2>1. /\ prog[t] # <<>> /\ Now(t).do = "mvdir"
        /\ \/ dir' = dir
           \/ /\ dir[Now(t).d] # "none" /\ dir[Now(t).e] = "none"
              /\ dir' = [dir EXCEPT ![Now(t).e] = dir[Now(t).d], ![Now(t).d] = "none"]
    BY <1>5 DEF MvDir, At, Now
  <2> QED BY <1>0, <2>1 DEF DirEffect
<1>6. CASE Fail(t)
  <2>1. \/ dir' = dir
        \/ /\ prog[t] # <<>> /\ Now(t).do = "rmdir" /\ dir[Now(t).d] = "full"
           /\ dir' = [dir EXCEPT ![Now(t).d] = "bare"]
    BY <1>6 DEF Fail
  <2> QED BY <1>0, <2>1 DEF DirEffect
<1>7. CASE (\E o \in Operations : Begin(t, o)) \/ Crash(t)
  <2>1. dir' = dir
    BY <1>7 DEF Begin, Crash, store
  <2> QED BY <2>1 DEF DirEffect
<1>8. CASE Step(t) /\ ~Mkdir(t) /\ ~Excl(t) /\ ~Symlink(t) /\ ~Rmdir(t) /\ ~MvDir(t)
  <2>1. dir' = dir
    BY <1>8 DEF Step, Absent, Present, Find, Turn, IfKnown, Put, Drop, Rcpt, Count, Compile, Install,
         Enlist, Strike, Tables, Postmaster, NoRows, MvRows, Relink, Failed, End, store
  <2> QED BY <2>1 DEF DirEffect
<1> QED BY <1>1, <1>2, <1>3, <1>4, <1>5, <1>6, <1>7, <1>8

LEMMA Effects ==
  ASSUME TypeInv, NEW t \in Tools,
         (\E o \in Operations : Begin(t, o)) \/ Step(t) \/ Fail(t) \/ Crash(t)
  PROVE  Effect(t)
<1>1. faults' \in {faults, faults + 1}
  BY DEF Begin, Fail, Crash, Step, Absent, Present, Find, Turn, IfKnown, Put, Drop, Rcpt, Count, Compile, Install,
         Mkdir, Excl, Symlink, Enlist, Strike, Rmdir, Tables, Postmaster, NoRows, MvRows, MvDir, Relink, Failed, End
<1> QED BY <1>1, FileEffects, RowEffects, DirEffects DEF Effect

-----------------------------------------------------------------------------
(* What a tool leaves alone.                                               *)

\* Nothing of x changes but that .qmail-default may appear.
Apart(x) ==
  /\ \A f \in Files : x \in file'[f] <=> x \in file[f]
  /\ x \notin rows => x \notin rows'
  /\ dir'[x] = dir[x] \/ (dir[x] = "bare" /\ dir'[x] = "full")

\* Nothing that makes x complete is lost.
Up(x) ==
  /\ \A f \in Files \ {"locals"} : x \in file[f] => x \in file'[f]
  /\ x \notin file["locals"] => x \notin file'["locals"]
  /\ dir[x] \in {"full", "link"} => dir'[x] = dir[x]

LEMMA StaysApart ==
  ASSUME TypeInv, NEW t \in Tools, ProgOK(t), Effect(t), NEW x \in Domains, x \notin Touched(t)
  PROVE  Apart(x)
<1>0. ControlOK
  BY DEF TypeInv
<1>1. ASSUME prog[t] # <<>>, Now(t).d = x
      PROVE  Now(t).do \notin {"put", "rcpt", "drop", "mkdir", "symlink", "rmdir", "postmaster", "mvrows", "mvdir"}
  BY <1>0, <1>1, Footprint
<1>2. ASSUME prog[t] # <<>>, Now(t).e = x
      PROVE  Now(t).do \notin {"mvrows", "mvdir"}
  BY <1>0, <1>2, Footprint
<1>3. ASSUME NEW f \in Files
      PROVE  x \in file'[f] <=> x \in file[f]
  <2>1. FileEffect(t, x, f)
    BY DEF Effect
  <2> QED BY <1>1, <2>1 DEF FileEffect
<1>4. x \notin rows => x \notin rows'
  <2>1. RowEffect(t, x)
    BY DEF Effect
  <2> QED BY <1>1, <1>2, <2>1 DEF RowEffect
<1>5. dir'[x] = dir[x] \/ (dir[x] = "bare" /\ dir'[x] = "full")
  <2>1. DirEffect(t, x)
    BY DEF Effect
  <2> QED BY <1>1, <1>2, <2>1 DEF DirEffect
<1> QED BY <1>3, <1>4, <1>5 DEF Apart

LEMMA StaysUp ==
  ASSUME TypeInv, NEW t \in Tools, ProgOK(t), Effect(t), NEW x \in Domains,
         Removes(op[t]) => x \notin Touched(t)
  PROVE  Up(x)
<1>0. ControlOK /\ "locals" \in Files
  BY DEF TypeInv, Files
<1>1. CASE x \notin Touched(t)
  <2>1. Apart(x)
    BY <1>1, StaysApart
  <2> QED BY <1>0, <2>1 DEF Apart, Up
<1>2. CASE ~Removes(op[t])
  <2>1. ASSUME prog[t] # <<>>
        PROVE  /\ Now(t).do \notin {"rmdir", "mvdir"}
               /\ Now(t).do = "drop" => Now(t).f = "locals"
               /\ Now(t).do = "put" => Now(t).f # "locals"
    BY <1>0, <1>2, <2>1, Footprint
  <2>2. ASSUME NEW f \in Files \ {"locals"}
        PROVE  x \in file[f] => x \in file'[f]
    <3>1. FileEffect(t, x, f)
      BY DEF Effect
    <3> QED BY <2>1, <3>1 DEF FileEffect
  <2>3. x \notin file["locals"] => x \notin file'["locals"]
    <3>1. FileEffect(t, x, "locals")
      BY <1>0 DEF Effect
    <3> QED BY <2>1, <3>1 DEF FileEffect
  <2>4. dir[x] \in {"full", "link"} => dir'[x] = dir[x]
    <3>1. DirEffect(t, x)
      BY DEF Effect
    <3> QED BY <2>1, <3>1 DEF DirEffect
  <2> QED BY <2>2, <2>3, <2>4 DEF Up
<1> QED BY <1>1, <1>2

\* A tool changes nothing of the other tools, a domain leaves mixed only when no
\* other tool is at it, and an addition makes .qmail-default only where it is missing.
Frame(t) ==
  /\ \A u \in Tools \ {t} : op'[u] = op[u] /\ prog'[u] = prog[u]
  /\ \A x \in mixed : x \notin mixed' => \A u \in Tools \ {t} : x \notin Touched(u)
  /\ Late(t)' => op'[t].d = op[t].d /\ (Late(t) \/ dir[op[t].d] # "full")

\* Two tools that meet at a domain that one of them removes.
Meets(t) ==
  \A u \in Tools \ {t} :
    Removes(op'[t]) \/ Removes(op[u]) => \A x \in Touched(t)' : x \in Touched(u) => x \in mixed'

LEMMA SameTool ==
  ASSUME NEW u \in Tools, op'[u] = op[u], prog'[u] = prog[u]
  PROVE  /\ Pending(u)' = Pending(u) /\ Touched(u)' = Touched(u)
         /\ Late(u)' <=> Late(u)
         /\ \A do : Awaits(u, do)' <=> Awaits(u, do)
         /\ ProgOK(u)' <=> ProgOK(u)
<1>1. Pending(u)' = Pending(u)
  BY DEF Pending
<1>2. Touched(u)' = Touched(u)
  BY DEF Touched
<1>3. Late(u)' <=> Late(u)
  BY <1>1 DEF Late
<1>4. \A do : Awaits(u, do)' <=> Awaits(u, do)
  BY <1>1 DEF Awaits
<1>5. ProgOK(u)' <=> ProgOK(u)
  BY <1>1 DEF ProgOK
<1> QED BY <1>1, <1>2, <1>3, <1>4, <1>5

LEMMA OwnTouched ==
  ASSUME ControlOK, NEW u \in Tools, op[u] # Idle
  PROVE  /\ op[u] \in Doing /\ op[u].d \in Domains /\ op[u].e \in Domains
         /\ op[u].d \in Touched(u)
         /\ Removes(op[u]) => op[u].e \in Touched(u)
<1>1. op[u] \in Doing
  BY DEF ControlOK
<1>2. op[u].do # "none" /\ op[u].d \in Domains /\ op[u].e \in Domains
  BY <1>1, OpsAssumption DEF Doing
<1> QED BY <1>1, <1>2 DEF Touched, Named, Removes

LEMMA NotIdle ==
  ASSUME NEW o, o.do = "add" \/ Removes(o)
  PROVE  o # Idle
BY DEF Idle, Removes

\* Nobody else is at a domain that is not mixed, unless both only add.
LEMMA Separate ==
  ASSUME NEW t \in Tools, NEW u \in Tools \ {t}, Alone(t), Alone(u),
         Removes(op[t]) \/ Removes(op[u]), NEW x, x \in Touched(u), x \notin mixed
  PROVE  x \notin Touched(t)
BY DEF Alone

LEMMA StillUnmixed ==
  ASSUME NEW t \in Tools, Frame(t), NEW u \in Tools \ {t}, NEW x, x \in Touched(u), x \notin mixed'
  PROVE  x \notin mixed
BY DEF Frame

LEMMA OthersAdd ==
  ASSUME Inv, NEW t \in Tools, Effect(t), Frame(t), NEW u \in Tools \ {t}
  PROVE  AddOK(u)'
<1>0. PICK d : d = op[u].d
  OBVIOUS
<1>1. op'[u] = op[u] /\ prog'[u] = prog[u]
  BY DEF Frame
<1> SUFFICES ASSUME op[u].do = "add", d \notin mixed'
             PROVE  Made(u, d)' /\ Sole(u, d)'
  BY <1>0, <1>1 DEF AddOK, Made, Sole
<1>2. TypeInv /\ ControlOK /\ ToolOK(t) /\ ToolOK(u)
  BY DEF Inv, TypeInv
<1>3. op[u] # Idle
  BY NotIdle
<1>4. d \in Domains /\ d \in Touched(u)
  BY <1>0, <1>2, <1>3, OwnTouched
<1>5. d \notin mixed
  BY <1>4, StillUnmixed
<1>6. Removes(op[t]) => d \notin Touched(t)
  BY <1>2, <1>4, <1>5, Separate DEF ToolOK
<1>7. Up(d)
  BY <1>2, <1>4, <1>6, StaysUp DEF ToolOK
<1>8. Made(u, d) /\ Sole(u, d)
  BY <1>0, <1>2, <1>5 DEF ToolOK, AddOK
<1>9. Made(u, d)'
  <2>1. Pending(u)' = Pending(u)
    BY <1>1, SameTool
  <2>2. /\ d \in file["assign"] => d \in file'["assign"]
        /\ d \in file["virtualdomains"] => d \in file'["virtualdomains"]
        /\ d \in file["rcpthosts"] => d \in file'["rcpthosts"]
        /\ d \in file["morercpthosts"] => d \in file'["morercpthosts"]
        /\ d \notin file["locals"] => d \notin file'["locals"]
    BY <1>7 DEF Up, Files
  <2> QED BY <1>8, <2>1, <2>2 DEF Made, Accepted
<1>10. Sole(u, d)'
  <2> SUFFICES ASSUME Late(u)', dir'[d] # "link"
               PROVE  dir'[d] = "full" /\ \A v \in Tools \ {u} : op'[v].d = d => ~Late(v)'
    BY DEF Sole
  <2>1. Late(u)
    BY <1>1, SameTool
  <2>2. dir[d] = "full" /\ dir'[d] = "full" /\ \A v \in Tools \ {u} : op[v].d = d => ~Late(v)
    BY <1>7, <1>8, <2>1 DEF Sole, Up
  <2>3. ASSUME NEW v \in Tools \ {u}, op'[v].d = d PROVE ~Late(v)'
    <3>1. CASE v = t
      BY <2>2, <2>3, <3>1 DEF Frame
    <3>2. CASE v # t
      <4>1. op'[v] = op[v] /\ prog'[v] = prog[v]
        BY <3>2 DEF Frame
      <4>2. Late(v)' <=> Late(v)
        BY <4>1, SameTool
      <4> QED BY <2>2, <2>3, <4>1, <4>2
    <3> QED BY <3>1, <3>2
  <2> QED BY <2>2, <2>3
<1> QED BY <1>9, <1>10

LEMMA OthersRename ==
  ASSUME Inv, NEW t \in Tools, Effect(t), Frame(t), NEW u \in Tools \ {t}
  PROVE  RenameOK(u)'
<1>0. PICK e : e = op[u].e
  OBVIOUS
<1>1. op'[u] = op[u] /\ prog'[u] = prog[u]
  BY DEF Frame
<1>2. Pending(u)' = Pending(u) /\ (Awaits(u, "turn")' <=> Awaits(u, "turn"))
  BY <1>1, SameTool
<1> SUFFICES ASSUME op[u].do = "rename", e \notin mixed', ~Awaits(u, "turn")
             PROVE  Made(u, e)'
  BY <1>0, <1>1, <1>2 DEF RenameOK, Made
<1>3. TypeInv /\ ControlOK /\ ToolOK(t) /\ ToolOK(u) /\ Removes(op[u])
  BY DEF Inv, TypeInv, Removes
<1>4. e \in Domains /\ e \in Touched(u)
  BY <1>0, <1>3, NotIdle, OwnTouched
<1>5. e \notin mixed
  BY <1>4, StillUnmixed
<1>6. e \notin Touched(t)
  BY <1>3, <1>4, <1>5, Separate DEF ToolOK
<1>7. Apart(e)
  BY <1>3, <1>4, <1>6, StaysApart DEF ToolOK
<1>8. Made(u, e)
  BY <1>0, <1>3, <1>5 DEF ToolOK, RenameOK
<1>9. \A f \in {"assign", "virtualdomains", "rcpthosts", "morercpthosts", "locals"} : e \in file'[f] <=> e \in file[f]
  BY <1>7 DEF Apart, Files
<1> QED BY <1>2, <1>8, <1>9 DEF Made, Accepted

LEMMA OthersDel ==
  ASSUME Inv, NEW t \in Tools, Effect(t), Frame(t), NEW u \in Tools \ {t}
  PROVE  DelOK(u)'
<1>0. PICK d : d = op[u].d
  OBVIOUS
<1>1. op'[u] = op[u] /\ prog'[u] = prog[u]
  BY DEF Frame
<1>2. Pending(u)' = Pending(u) /\ \A do : Awaits(u, do)' <=> Awaits(u, do)
  BY <1>1, SameTool
<1> SUFFICES ASSUME Removes(op[u]), d \notin mixed', ~Awaits(u, "find"), ~Awaits(u, "turn")
             PROVE  Undone(u, d)'
  BY <1>0, <1>1, <1>2, SMTT(30) DEF DelOK, Undone, Excused
<1>3. TypeInv /\ ControlOK /\ ToolOK(t) /\ ToolOK(u)
  BY DEF Inv, TypeInv
<1>4. d \in Domains /\ d \in Touched(u)
  BY <1>0, <1>3, NotIdle, OwnTouched
<1>5. d \notin mixed
  BY <1>4, StillUnmixed
<1>6. d \notin Touched(t)
  BY <1>3, <1>4, <1>5, Separate DEF ToolOK
<1>7. Apart(d)
  BY <1>3, <1>4, <1>6, StaysApart DEF ToolOK
<1>8. Undone(u, d)
  BY <1>0, <1>3, <1>5 DEF ToolOK, DelOK
<1>9. \A f \in {"assign", "virtualdomains", "rcpthosts", "chkrcptdomains"} : d \in file'[f] <=> d \in file[f]
  BY <1>7 DEF Apart, Files
<1>10. (d \notin rows => d \notin rows') /\ (dir[d] = "none" => dir'[d] = "none")
  BY <1>7 DEF Apart
<1>11. (faults > 0 => faults' > 0) /\ (faults > 1 => faults' > 1)
  BY <1>3 DEF Effect, TypeInv, CountOK
<1>12. \A s : Excused(u, s) => Excused(u, s)'
  BY <1>1, <1>2, <1>11 DEF Excused
<1> QED BY <1>1, <1>2, <1>8, <1>9, <1>10, <1>11, <1>12 DEF Undone

LEMMA AloneNext ==
  ASSUME Inv, NEW t \in Tools, Frame(t), Meets(t), NEW u \in Tools
  PROVE  Alone(u)'
<1> SUFFICES ASSUME Removes(op'[u]), NEW v \in Tools \ {u}, NEW x \in Touched(u)', x \in Touched(v)'
             PROVE  x \in mixed'
  BY DEF Alone
<1>1. \A w \in Tools \ {t} : op'[w] = op[w] /\ prog'[w] = prog[w]
  BY DEF Frame
<1>2. \A w \in Tools \ {t} : op'[w] = op[w] /\ Touched(w)' = Touched(w)
  BY <1>1, SameTool
<1>3. CASE u = t
  BY <1>2, <1>3 DEF Meets
<1>4. CASE v = t
  <2>1. Removes(op[u]) /\ x \in Touched(u) /\ u \in Tools \ {t}
    BY <1>2, <1>4
  <2> QED BY <1>4, <2>1 DEF Meets
<1>5. CASE u # t /\ v # t
  <2>1. Removes(op[u]) /\ x \in Touched(u) /\ x \in Touched(v)
    BY <1>2, <1>5
  <2>2. x \in mixed
    BY <2>1 DEF Inv, ToolOK, Alone
  <2> QED BY <1>5, <2>1, <2>2 DEF Frame
<1> QED BY <1>3, <1>4, <1>5

LEMMA Others ==
  ASSUME Inv, NEW t \in Tools, Effect(t), Frame(t), Meets(t), NEW u \in Tools \ {t}
  PROVE  ToolOK(u)'
<1>1. op'[u] = op[u] /\ prog'[u] = prog[u] /\ ProgOK(u)
  BY DEF Frame, Inv, ToolOK
<1>2. ProgOK(u)'
  BY <1>1, SameTool
<1> QED BY <1>2, AloneNext, OthersAdd, OthersRename, OthersDel DEF ToolOK

\* The tool does nothing that is against what was reported of d.
Quiet(t, d) ==
  /\ told[d] = "there" => (Removes(op'[t]) => d \notin Touched(t)') /\ (op'[t].d = d => ~Late(t)')
  /\ told[d] \in {"gone", "unlinked", "rolled"} => d \notin Touched(t)'

ToldOK(d) == There(d) /\ Gone(d) /\ Rolled(d) /\ Free(d)

LEMMA ToldNone ==
  ASSUME NEW d \in Domains, told'[d] = "none"
  PROVE  ToldOK(d)'
<1>1. There(d)'
  BY DEF There
<1>2. Gone(d)' /\ Rolled(d)' /\ Free(d)'
  BY DEF Gone, Rolled, Free
<1> QED BY <1>1, <1>2 DEF ToldOK

LEMMA ToldKept ==
  ASSUME Inv, NEW t \in Tools, Effect(t), Frame(t), NEW d \in Domains, told'[d] = told[d], Quiet(t, d)
  PROVE  ToldOK(d)'
<1>0. TypeInv /\ ProgOK(t) /\ There(d) /\ Gone(d) /\ Rolled(d) /\ Free(d)
  BY DEF Inv, ToolOK
<1>1. \A u \in Tools \ {t} : op'[u] = op[u] /\ prog'[u] = prog[u]
  BY DEF Frame
<1>2. \A u \in Tools \ {t} : op'[u] = op[u] /\ Touched(u)' = Touched(u) /\ (Late(u)' <=> Late(u))
  BY <1>1, SameTool
<1>3. /\ faults \in Nat /\ faults' \in Nat /\ (faults > 0 => faults' > 0) /\ (faults > 1 => faults' > 1)
      /\ (faults' <= 1 => faults <= 1)
  BY <1>0, BoundAssumption DEF Effect, TypeInv, CountOK
<1>4. There(d)'
  <2> SUFFICES ASSUME told[d] = "there"
               PROVE  /\ dir'[d] = "full"
                      /\ d \in file'["assign"] /\ d \in file'["virtualdomains"] /\ d \in Accepted'
                      /\ d \notin file'["locals"]
                      /\ \A u \in Tools : (Removes(op'[u]) => d \notin Touched(u)') /\ (op'[u].d = d => ~Late(u)')
    BY DEF There
  <2>1. /\ dir[d] = "full"
        /\ d \in file["assign"] /\ d \in file["virtualdomains"] /\ d \in Accepted
        /\ d \notin file["locals"]
        /\ \A u \in Tools : (Removes(op[u]) => d \notin Touched(u)) /\ (op[u].d = d => ~Late(u))
    BY <1>0 DEF There
  <2>2. Up(d)
    BY <1>0, <2>1, StaysUp
  <2>3. /\ dir'[d] = "full"
        /\ d \in file'["assign"] /\ d \in file'["virtualdomains"] /\ d \in Accepted'
        /\ d \notin file'["locals"]
    BY <2>1, <2>2 DEF Up, Files, Accepted
  <2>4. ASSUME NEW u \in Tools
        PROVE  (Removes(op'[u]) => d \notin Touched(u)') /\ (op'[u].d = d => ~Late(u)')
    <3>1. CASE u = t
      BY <3>1 DEF Quiet
    <3>2. CASE u # t
      BY <1>2, <2>1, <3>2
    <3> QED BY <3>1, <3>2
  <2> QED BY <2>3, <2>4
<1>5. ASSUME told[d] \in {"gone", "unlinked", "rolled"}
      PROVE  Apart(d) /\ \A u \in Tools : d \notin Touched(u)'
  <2>1. \A u \in Tools : d \notin Touched(u)
    BY <1>0, <1>5 DEF Free
  <2>2. Apart(d)
    BY <1>0, <2>1, StaysApart
  <2>3. ASSUME NEW u \in Tools PROVE d \notin Touched(u)'
    <3>1. CASE u = t
      BY <1>5, <3>1 DEF Quiet
    <3>2. CASE u # t
      BY <1>2, <2>1, <3>2
    <3> QED BY <3>1, <3>2
  <2> QED BY <2>2, <2>3
<1>6. Free(d)'
  BY <1>5 DEF Free
<1>7. ASSUME Apart(d)
      PROVE  /\ \A f \in {"assign", "virtualdomains", "rcpthosts", "chkrcptdomains"} : d \in file'[f] <=> d \in file[f]
             /\ (d \notin rows => d \notin rows') /\ (dir[d] = "none" => dir'[d] = "none")
  BY <1>7 DEF Apart, Files
<1>8. Gone(d)'
  <2> SUFFICES ASSUME told[d] \in {"gone", "unlinked"}
               PROVE  /\ dir'[d] = "none"
                      /\ d \notin file'["assign"] /\ d \notin file'["virtualdomains"]
                      /\ d \in file'["rcpthosts"] => faults' > 1
                      /\ d \in file'["chkrcptdomains"] => faults' > 0
                      /\ told[d] = "gone" => d \notin rows'
    BY DEF Gone
  <2>1. /\ dir[d] = "none"
        /\ d \notin file["assign"] /\ d \notin file["virtualdomains"]
        /\ d \in file["rcpthosts"] => faults > 1
        /\ d \in file["chkrcptdomains"] => faults > 0
        /\ told[d] = "gone" => d \notin rows
    BY <1>0 DEF Gone
  <2> QED BY <1>3, <1>5, <1>7, <2>1
<1>9. Rolled(d)'
  <2> SUFFICES ASSUME told[d] = "rolled", faults' <= 1
               PROVE  /\ dir'[d] = "none"
                      /\ d \notin file'["assign"] /\ d \notin file'["virtualdomains"] /\ d \notin file'["rcpthosts"]
    BY DEF Rolled
  <2>1. /\ dir[d] = "none"
        /\ d \notin file["assign"] /\ d \notin file["virtualdomains"] /\ d \notin file["rcpthosts"]
    BY <1>0, <1>3 DEF Rolled
  <2> QED BY <1>5, <1>7, <2>1
<1> QED BY <1>4, <1>6, <1>8, <1>9 DEF ToldOK

\* What is left to show of a step of t.
LEMMA InvFrom ==
  ASSUME Inv, NEW t \in Tools, Effect(t), Frame(t), Meets(t), TypeInv',
         ProgOK(t)', AddOK(t)', RenameOK(t)', DelOK(t)', \A d \in Domains : ToldOK(d)'
  PROVE  Inv'
<1>1. ToolOK(t)'
  BY AloneNext DEF ToolOK
<1>2. \A u \in Tools : ToolOK(u)'
  BY <1>1, Others
<1>3. \A d \in Domains : (There(d) /\ Gone(d) /\ Rolled(d) /\ Free(d))'
  BY DEF ToldOK
<1> QED BY <1>2, <1>3 DEF Inv

-----------------------------------------------------------------------------
(* A tool that goes on with its program.                                   *)

Moves(t) ==
  /\ prog[t] # <<>> /\ Now(t).do \notin {"find", "turn"}
  /\ op' = op /\ told' = told /\ mixed \subseteq mixed'
  /\ \A u \in Tools \ {t} : prog'[u] = prog[u]
  /\ Whole(prog'[t]) /\ StepsOf(op[t], Pending(t)')
  /\ Struck(prog'[t]) \subseteq Struck(prog[t])
  /\ Pending(t) \subseteq Pending(t)' \cup {Now(t)} \cup NewuSteps

\* The step is done ...
Works(t) ==
  /\ Now(t).do = "put" => Now(t).d \in file'[Now(t).f]
  /\ Now(t).do = "rcpt" => Now(t).d \in Accepted'
  /\ Now(t).do = "drop" => Now(t).d \notin file'[Now(t).f]
  /\ Now(t).do = "rmdir" => dir'[Now(t).d] = "none" \/ Now(t).d \in mixed'
  /\ Now(t).do = "mvdir" => dir'[Now(t).d] = "none"
  /\ Now(t).do = "norows" => Now(t).d \notin rows'
  /\ Now(t).do = "mvrows" => Now(t).d \notin rows' \/ Now(t).d = Now(t).e
  /\ Now(t).do = "excl" => /\ dir[Now(t).d] # "full"
                           /\ \/ dir'[Now(t).d] = "link"
                              \/ dir[Now(t).d] = "bare" /\ dir'[Now(t).d] = "full"

\* ... or has failed.
Skips(t) ==
  /\ faults' = faults + 1 /\ Now(t).fail \in {"skip", "over1", "over2", "again"}
  /\ Now(t).fail = "again" => Edit("drop", Now(t).f, Now(t).d, "skip") \in Pending(t)'

\* A step that is no longer to come was the one the tool was at.
LEMMA LostStep ==
  ASSUME NEW t \in Tools, Moves(t), NEW s \in Pending(t), s \notin Pending(t)', s.do \notin {"compile", "install"}
  PROVE  s = Now(t)
<1>1. s \notin NewuSteps
  BY SetFacts
<1> QED BY <1>1 DEF Moves

LEMMA MovesTouched ==
  ASSUME NEW t \in Tools, Moves(t)
  PROVE  Touched(t)' \subseteq Touched(t)
BY DEF Moves, Touched

LEMMA MovesLate ==
  ASSUME Inv, NEW t \in Tools, Moves(t), Works(t) \/ Skips(t), Late(t)'
  PROVE  /\ op[t].do = "add" /\ ProgOK(t)
         /\ \/ Late(t)
            \/ /\ Now(t).do = "excl" /\ Now(t).d = op[t].d /\ dir[op[t].d] # "full"
               /\ dir'[op[t].d] = "link" \/ (dir[op[t].d] = "bare" /\ dir'[op[t].d] = "full")
<1>1. ProgOK(t) /\ op' = op
  BY DEF Inv, ToolOK, Moves
<1>2. op[t].do = "add" /\ \A s \in Pending(t)' : s.do # "excl"
  BY <1>1 DEF Late
<1>3. CASE Late(t)
  BY <1>1, <1>2, <1>3
<1>4. CASE ~Late(t)
  <2>1. PICK s \in Pending(t) : s.do = "excl"
    BY <1>2, <1>4 DEF Late
  <2>2. s = Now(t)
    BY <1>2, <2>1, LostStep
  <2>3. s \in AddSteps(op[t].d)
    BY <1>1, <1>2, <2>1 DEF ProgOK, StepsOf
  <2>4. s.d = op[t].d /\ s.fail \notin {"skip", "over1", "over2", "again"}
    <3>1. s \notin NewuSteps
      BY <2>1, SetFacts
    <3> QED BY <2>3, <3>1, AddStepFields
  <2>5. Works(t)
    BY <2>2, <2>4 DEF Skips
  <2> QED BY <1>1, <1>2, <2>1, <2>2, <2>4, <2>5 DEF Works
<1> QED BY <1>3, <1>4

LEMMA MovesFrame ==
  ASSUME Inv, NEW t \in Tools, Moves(t), Works(t) \/ Skips(t)
  PROVE  Frame(t) /\ Meets(t)
<1>1. op' = op /\ mixed \subseteq mixed' /\ \A u \in Tools \ {t} : prog'[u] = prog[u]
  BY DEF Moves
<1>2. Frame(t)
  BY <1>1, MovesLate DEF Frame
<1>3. Meets(t)
  <2> SUFFICES ASSUME NEW u \in Tools \ {t}, Removes(op'[t]) \/ Removes(op[u]),
                      NEW x \in Touched(t)', x \in Touched(u)
               PROVE  x \in mixed'
    BY DEF Meets
  <2>1. x \in Touched(t) /\ (Removes(op[t]) \/ Removes(op[u]))
    BY <1>1, MovesTouched
  <2>2. Alone(t) /\ Alone(u)
    BY DEF Inv, ToolOK
  <2>3. x \in mixed
    BY <2>1, <2>2, Separate
  <2> QED BY <1>1, <2>3
<1> QED BY <1>2, <1>3

LEMMA MovesTold ==
  ASSUME Inv, NEW t \in Tools, Effect(t), Moves(t), Works(t) \/ Skips(t), NEW d \in Domains
  PROVE  ToldOK(d)'
<1>1. op' = op /\ told' = told /\ Frame(t)
  BY MovesFrame DEF Moves
<1>2. There(d) /\ Free(d)
  BY DEF Inv
<1>3. Quiet(t, d)
  <2>1. ASSUME told[d] = "there"
        PROVE  (Removes(op'[t]) => d \notin Touched(t)') /\ (op'[t].d = d => ~Late(t)')
    <3>1. dir[d] = "full" /\ (Removes(op[t]) => d \notin Touched(t)) /\ (op[t].d = d => ~Late(t))
      BY <1>2, <2>1 DEF There
    <3> QED BY <1>1, <3>1, MovesTouched DEF Frame
  <2>2. ASSUME told[d] \in {"gone", "unlinked", "rolled"}
        PROVE  d \notin Touched(t)'
    BY <1>2, <2>2, MovesTouched DEF Free
  <2> QED BY <2>1, <2>2 DEF Quiet
<1> QED BY <1>1, <1>3, ToldKept

LEMMA MovesAdd ==
  ASSUME Inv, NEW t \in Tools, Effect(t), Moves(t), Works(t) \/ Skips(t)
  PROVE  AddOK(t)'
<1>0. PICK d : d = op[t].d
  OBVIOUS
<1>1. op' = op /\ mixed \subseteq mixed' /\ Frame(t)
  BY MovesFrame DEF Moves
<1> SUFFICES ASSUME op[t].do = "add", d \notin mixed'
             PROVE  Made(t, d)' /\ Sole(t, d)'
  BY <1>0, <1>1 DEF AddOK, Made, Sole
<1>2. TypeInv /\ ControlOK /\ ProgOK(t) /\ AddOK(t) /\ ~Removes(op[t])
  BY DEF Inv, TypeInv, ToolOK, Removes
<1>3. d \in Domains /\ op[t] # Idle
  BY <1>0, <1>2, NotIdle, OwnTouched
<1>4. Up(d)
  BY <1>2, <1>3, StaysUp
<1>5. Made(t, d) /\ Sole(t, d)
  BY <1>0, <1>1, <1>2 DEF AddOK
<1>6. ASSUME NEW s \in Pending(t), s \notin Pending(t)', s.do \notin {"compile", "install"}
      PROVE  s = Now(t) /\ Works(t)
  <2>1. s = Now(t)
    BY <1>6, LostStep
  <2>2. s \in AddSteps(d) /\ s \notin NewuSteps
    BY <1>0, <1>2, <1>6, SetFacts DEF ProgOK, StepsOf
  <2>3. s.fail \notin {"skip", "over1", "over2", "again"}
    BY <2>2, AddStepFields
  <2> QED BY <2>1, <2>3 DEF Skips
<1>7. Made(t, d)'
  <2>1. ASSUME NEW f \in {"assign", "virtualdomains"}
        PROVE  Edit("put", f, d, "stop") \in Pending(t)' \/ d \in file'[f]
    <3>1. Edit("put", f, d, "stop").do = "put" /\ Edit("put", f, d, "stop").f = f /\ Edit("put", f, d, "stop").d = d
      BY Fields
    <3>2. d \in file[f] => d \in file'[f]
      BY <1>4 DEF Up, Files
    <3>3. Edit("put", f, d, "stop") \in Pending(t) \/ d \in file[f]
      BY <1>5 DEF Made
    <3> QED BY <1>6, <3>1, <3>2, <3>3 DEF Works
  <2>2. Edit("rcpt", "rcpthosts", d, "stop") \in Pending(t)' \/ d \in Accepted'
    <3>1. Edit("rcpt", "rcpthosts", d, "stop").do = "rcpt" /\ Edit("rcpt", "rcpthosts", d, "stop").d = d
      BY Fields
    <3>2. d \in Accepted => d \in Accepted'
      BY <1>4 DEF Up, Files, Accepted
    <3>3. Edit("rcpt", "rcpthosts", d, "stop") \in Pending(t) \/ d \in Accepted
      BY <1>5 DEF Made
    <3> QED BY <1>6, <3>1, <3>2, <3>3 DEF Works
  <2>3. Edit("drop", "locals", d, "stop") \in Pending(t)' \/ d \notin file'["locals"]
    <3>1. /\ Edit("drop", "locals", d, "stop").do = "drop" /\ Edit("drop", "locals", d, "stop").d = d
          /\ Edit("drop", "locals", d, "stop").f = "locals"
      BY Fields
    <3>2. d \notin file["locals"] => d \notin file'["locals"]
      BY <1>4 DEF Up
    <3>3. Edit("drop", "locals", d, "stop") \in Pending(t) \/ d \notin file["locals"]
      BY <1>5 DEF Made
    <3> QED BY <1>6, <3>1, <3>2, <3>3 DEF Works
  <2> QED BY <2>1, <2>2, <2>3 DEF Made
<1>8. Sole(t, d)'
  <2> SUFFICES ASSUME Late(t)', dir'[d] # "link"
               PROVE  dir'[d] = "full" /\ \A u \in Tools \ {t} : op'[u].d = d => ~Late(u)'
    BY DEF Sole
  <2>1. \A u \in Tools \ {t} : Late(u)' <=> Late(u)
    BY <1>1, SameTool DEF Frame
  <2>2. CASE Late(t)
    <3>1. dir[d] = "full" /\ \A u \in Tools \ {t} : op[u].d = d => ~Late(u)
      BY <1>4, <1>5, <2>2 DEF Sole, Up
    <3> QED BY <1>1, <1>4, <2>1, <3>1 DEF Up
  <2>3. CASE ~Late(t)
    <3>1. dir[d] = "bare" /\ dir'[d] = "full"
      BY <1>0, <2>3, MovesLate
    <3>2. ASSUME NEW u \in Tools \ {t}, op[u].d = d, Late(u)
          PROVE  FALSE
      <4>1. op[u].do = "add" /\ AddOK(u) /\ d \notin mixed
        BY <1>1, <3>2 DEF Late, Inv, ToolOK
      <4>2. Sole(u, d)
        BY <3>2, <4>1 DEF AddOK
      <4> QED BY <3>1, <3>2, <4>2 DEF Sole
    <3> QED BY <1>1, <2>1, <3>1, <3>2
  <2> QED BY <2>2, <2>3
<1> QED BY <1>7, <1>8

\* What the steps of a removal leave alone of the two domains it names.
LEMMA RemovalKeeps ==
  ASSUME TypeInv, NEW t \in Tools, ProgOK(t), Effect(t), prog[t] # <<>>, Removes(op[t]),
         NEW d \in Domains, d = op[t].d, NEW e \in Domains, e = op[t].e
  PROVE  /\ \A f \in Files : d \notin file[f] => d \notin file'[f]
         /\ d \notin rows => d \notin rows'
         /\ dir[d] = "none" => dir'[d] = "none"
         /\ op[t].do = "rename" => /\ \A f \in Files \ {"locals"} : e \in file[f] => e \in file'[f]
                                   /\ e \notin file["locals"] => e \notin file'["locals"]
<1> DEFINE s == Now(t)
<1>0. ControlOK
  BY DEF TypeInv
<1>1. s \in Pending(t) /\ (s.do = "put" => s.f # "locals")
  BY <1>0, Footprint
<1>2. RemovalStep(op[t], s) /\ (op[t].do = "rename" => op[t].e # op[t].d)
  BY <1>1 DEF ProgOK, StepsOf
<1>3. /\ s = S("mvdir", "dir", op[t].d, op[t].e, "stop") => s.d = op[t].d /\ s.e = op[t].e
      /\ s = S("mvrows", "rows", op[t].d, op[t].e, "stop") => s.d = op[t].d /\ s.e = op[t].e
      /\ s = Edit("drop", "locals", op[t].e, "stop") => s.f = "locals"
  BY DEF Edit, S
<1>4. /\ s.do \in {"put", "rcpt", "symlink"} => s.d # d
      /\ s.do \in {"mvdir", "mvrows"} => s.e # d
      /\ s.do \notin {"mkdir", "excl", "postmaster"}
      /\ op[t].do = "rename" /\ s.do = "drop" => s.d # e \/ s.f = "locals"
  BY <1>2, <1>3 DEF RemovalStep
<1> HIDE DEF s
<1>5. ASSUME NEW f \in Files
      PROVE  d \notin file[f] => d \notin file'[f]
  <2>1. FileEffect(t, d, f)
    BY DEF Effect
  <2> QED BY <1>4, <2>1 DEF FileEffect, s
<1>6. d \notin rows => d \notin rows'
  <2>1. RowEffect(t, d)
    BY DEF Effect
  <2> QED BY <1>4, <2>1 DEF RowEffect, s
<1>7. dir[d] = "none" => dir'[d] = "none"
  <2>1. DirEffect(t, d)
    BY DEF Effect
  <2> QED BY <1>4, <2>1 DEF DirEffect, s
<1>8. ASSUME op[t].do = "rename", NEW f \in Files \ {"locals"}
      PROVE  e \in file[f] => e \in file'[f]
  <2>1. FileEffect(t, e, f)
    BY DEF Effect
  <2> QED BY <1>4, <1>8, <2>1 DEF FileEffect, s
<1>9. e \notin file["locals"] => e \notin file'["locals"]
  <2>1. FileEffect(t, e, "locals")
    BY DEF Effect, Files
  <2> QED BY <1>1, <2>1 DEF FileEffect, s
<1> QED BY <1>5, <1>6, <1>7, <1>8, <1>9

LEMMA MovesRename ==
  ASSUME Inv, NEW t \in Tools, Effect(t), Moves(t), Works(t) \/ Skips(t)
  PROVE  RenameOK(t)'
<1>0. PICK e : e = op[t].e
  OBVIOUS
<1>1. op' = op /\ mixed \subseteq mixed' /\ prog[t] # <<>> /\ Now(t).do # "turn"
  BY DEF Moves
<1> SUFFICES ASSUME op[t].do = "rename", e \notin mixed', ~Awaits(t, "turn")'
             PROVE  Made(t, e)'
  BY <1>0, <1>1 DEF RenameOK, Made
<1>2. TypeInv /\ ControlOK /\ ProgOK(t) /\ RenameOK(t) /\ Removes(op[t])
  BY DEF Inv, TypeInv, ToolOK, Removes
<1>3. e \in Domains /\ op[t].d \in Domains
  BY <1>0, <1>2, NotIdle, OwnTouched
<1>4. /\ \A f \in Files \ {"locals"} : e \in file[f] => e \in file'[f]
      /\ e \notin file["locals"] => e \notin file'["locals"]
  BY <1>0, <1>1, <1>2, <1>3, RemovalKeeps
<1>5. ~Awaits(t, "turn")
  <2>1. ASSUME NEW s \in Pending(t), s.do = "turn" PROVE s \in Pending(t)'
    BY <1>1, <2>1, LostStep
  <2> QED BY <2>1 DEF Awaits
<1>6. Made(t, e)
  BY <1>0, <1>1, <1>2, <1>5 DEF RenameOK
<1>7. ASSUME NEW s \in Pending(t), s \notin Pending(t)', s.do \notin {"compile", "install"}, s.fail = "stop"
      PROVE  s = Now(t) /\ Works(t)
  <2>1. s = Now(t)
    BY <1>7, LostStep
  <2> QED BY <1>7, <2>1 DEF Skips
<1>8. ASSUME NEW f \in {"assign", "virtualdomains"}
      PROVE  Edit("put", f, e, "stop") \in Pending(t)' \/ e \in file'[f]
  <2>1. /\ Edit("put", f, e, "stop").do = "put" /\ Edit("put", f, e, "stop").f = f
        /\ Edit("put", f, e, "stop").d = e /\ Edit("put", f, e, "stop").fail = "stop"
    BY Fields
  <2>2. e \in file[f] => e \in file'[f]
    BY <1>4 DEF Files
  <2>3. Edit("put", f, e, "stop") \in Pending(t) \/ e \in file[f]
    BY <1>6 DEF Made
  <2> QED BY <1>7, <2>1, <2>2, <2>3 DEF Works
<1>9. Edit("rcpt", "rcpthosts", e, "stop") \in Pending(t)' \/ e \in Accepted'
  <2>1. /\ Edit("rcpt", "rcpthosts", e, "stop").do = "rcpt" /\ Edit("rcpt", "rcpthosts", e, "stop").d = e
        /\ Edit("rcpt", "rcpthosts", e, "stop").fail = "stop"
    BY Fields
  <2>2. e \in Accepted => e \in Accepted'
    BY <1>4 DEF Files, Accepted
  <2>3. Edit("rcpt", "rcpthosts", e, "stop") \in Pending(t) \/ e \in Accepted
    BY <1>6 DEF Made
  <2> QED BY <1>7, <2>1, <2>2, <2>3 DEF Works
<1>10. Edit("drop", "locals", e, "stop") \in Pending(t)' \/ e \notin file'["locals"]
  <2>1. /\ Edit("drop", "locals", e, "stop").do = "drop" /\ Edit("drop", "locals", e, "stop").d = e
        /\ Edit("drop", "locals", e, "stop").f = "locals" /\ Edit("drop", "locals", e, "stop").fail = "stop"
    BY Fields
  <2>2. Edit("drop", "locals", e, "stop") \in Pending(t) \/ e \notin file["locals"]
    BY <1>6 DEF Made
  <2> QED BY <1>4, <1>7, <2>1, <2>2 DEF Works
<1> QED BY <1>8, <1>9, <1>10 DEF Made

LEMMA MovesDel ==
  ASSUME Inv, NEW t \in Tools, Effect(t), Moves(t), Works(t) \/ Skips(t)
  PROVE  DelOK(t)'
<1>0. PICK d : d = op[t].d
  OBVIOUS
<1>1. op' = op /\ mixed \subseteq mixed' /\ prog[t] # <<>> /\ Now(t).do \notin {"find", "turn"}
  BY DEF Moves
<1> SUFFICES ASSUME Removes(op[t]), d \notin mixed', ~Awaits(t, "find")', ~Awaits(t, "turn")'
             PROVE  Undone(t, d)'
  BY <1>0, <1>1 DEF DelOK, Undone, Excused
<1>2. TypeInv /\ ControlOK /\ ProgOK(t) /\ DelOK(t)
  BY DEF Inv, TypeInv, ToolOK
<1>3. d \in Domains /\ op[t].e \in Domains
  BY <1>0, <1>2, NotIdle, OwnTouched
<1>4. /\ \A f \in Files : d \notin file[f] => d \notin file'[f]
      /\ d \notin rows => d \notin rows'
      /\ dir[d] = "none" => dir'[d] = "none"
  BY <1>0, <1>1, <1>2, <1>3, RemovalKeeps
<1>5. ~Awaits(t, "find") /\ ~Awaits(t, "turn")
  <2>1. ASSUME NEW s \in Pending(t), s.do \in {"find", "turn"} PROVE s \in Pending(t)'
    BY <1>1, <2>1, LostStep
  <2> QED BY <2>1 DEF Awaits
<1>6. Undone(t, d)
  BY <1>0, <1>1, <1>2, <1>5 DEF DelOK
<1>7. /\ faults \in Nat /\ (faults > 0 => faults' > 0) /\ (faults > 1 => faults' > 1)
      /\ (Skips(t) => faults' > 0 /\ (faults > 0 => faults' > 1))
  BY <1>2, BoundAssumption DEF Effect, TypeInv, CountOK, Skips
<1>8. ASSUME NEW s \in Pending(t), s \notin Pending(t)', s.do \notin {"compile", "install"}
      PROVE  s = Now(t) /\ (Works(t) \/ (Skips(t) /\ s.fail # "stop"))
  <2>1. s = Now(t)
    BY <1>8, LostStep
  <2> QED BY <2>1 DEF Skips
\* An edit of file f that ends the tool when it fails, or the one that takes its place
\* when an addition is taken back.
<1>9. ASSUME NEW f \in {"assign", "virtualdomains"}, NEW fail,
             \/ Edit("drop", f, d, "stop") \in Pending(t) \/ d \notin file[f]
             \/ Excused(t, Edit("drop", f, d, fail))
      PROVE  \/ Edit("drop", f, d, "stop") \in Pending(t)' \/ d \notin file'[f]
             \/ Excused(t, Edit("drop", f, d, fail))'
  <2>1. f \in Files
    BY DEF Files
  <2>2. CASE Edit("drop", f, d, "stop") \in Pending(t)
    <3> DEFINE s == Edit("drop", f, d, "stop")
    <3>1. s.do = "drop" /\ s.f = f /\ s.d = d /\ s.fail = "stop"
      BY Fields
    <3> HIDE DEF s
    <3>2. s \in Pending(t)' \/ d \notin file'[f]
      BY <1>8, <2>2, <3>1 DEF Works, s
    <3> QED BY <3>2 DEF s
  <2>3. CASE d \notin file[f]
    BY <1>4, <2>1, <2>3
  <2>4. CASE Excused(t, Edit("drop", f, d, fail))
    <3> DEFINE s == Edit("drop", f, d, fail)
    <3>1. s.do = "drop" /\ s.f = f /\ s.d = d
      BY Fields
    <3> HIDE DEF s
    <3>2. op[t].do = "undo" /\ (faults > 1 \/ (faults > 0 /\ s \in Pending(t)))
      BY <2>4 DEF Excused, s
    <3>3. d \notin file'[f] \/ faults' > 1 \/ (faults' > 0 /\ s \in Pending(t)')
      BY <1>7, <1>8, <3>1, <3>2 DEF Works
    <3> QED BY <1>1, <3>2, <3>3 DEF Excused, s
  <2> QED BY <1>9, <2>2, <2>3, <2>4
<1>10. \/ Edit("drop", "rcpthosts", d, "again") \in Pending(t)' \/ d \notin file'["rcpthosts"]
       \/ faults' > 1 \/ (faults' > 0 /\ Edit("drop", "rcpthosts", d, "skip") \in Pending(t)')
  <2> DEFINE s == Edit("drop", "rcpthosts", d, "again")
             r == Edit("drop", "rcpthosts", d, "skip")
  <2>1. /\ s.do = "drop" /\ s.f = "rcpthosts" /\ s.d = d /\ s.fail = "again"
        /\ r.do = "drop" /\ r.f = "rcpthosts" /\ r.d = d /\ r.fail = "skip"
    BY Fields
  <2>2. "rcpthosts" \in Files
    BY DEF Files
  <2>3. Edit("drop", s.f, s.d, "skip") = r
    BY <2>1
  <2>4. \/ s \in Pending(t) \/ d \notin file["rcpthosts"]
        \/ faults > 1 \/ (faults > 0 /\ r \in Pending(t))
    BY <1>6 DEF Undone
  <2> SUFFICES \/ s \in Pending(t)' \/ d \notin file'["rcpthosts"]
               \/ faults' > 1 \/ (faults' > 0 /\ r \in Pending(t)')
    BY DEF s, r
  <2> HIDE DEF s, r
  <2>5. CASE s \in Pending(t)
    <3>1. s \in Pending(t)' \/ (s = Now(t) /\ (Works(t) \/ Skips(t)))
      BY <1>8, <2>1, <2>5
    <3> QED BY <1>7, <2>1, <2>3, <3>1 DEF Works, Skips
  <2>6. CASE d \notin file["rcpthosts"]
    BY <1>4, <2>2, <2>6
  <2>7. CASE faults > 1
    BY <1>7, <2>7
  <2>8. CASE faults > 0 /\ r \in Pending(t)
    BY <1>7, <1>8, <2>1, <2>8 DEF Works
  <2> QED BY <2>4, <2>5, <2>6, <2>7, <2>8
<1>11. \/ Edit("drop", "chkrcptdomains", d, "skip") \in Pending(t)' \/ d \notin file'["chkrcptdomains"]
       \/ faults' > 0
  <2> DEFINE s == Edit("drop", "chkrcptdomains", d, "skip")
  <2>1. s.do = "drop" /\ s.f = "chkrcptdomains" /\ s.d = d /\ "chkrcptdomains" \in Files
    BY Fields DEF Files
  <2>2. s \in Pending(t) \/ d \notin file["chkrcptdomains"] \/ faults > 0
    BY <1>6 DEF Undone
  <2> SUFFICES s \in Pending(t)' \/ d \notin file'["chkrcptdomains"] \/ faults' > 0
    BY DEF s
  <2> HIDE DEF s
  <2> QED BY <1>4, <1>7, <1>8, <2>1, <2>2 DEF Works
<1>12. ASSUME NEW do \in {"mvdir", "mvrows", "norows"}, Awaits(t, do)
       PROVE  Awaits(t, do)' \/ (Now(t).do = do /\ Works(t) /\ Now(t).d = d /\ (do = "mvrows" => Now(t).e # d))
  <2>1. PICK s \in Pending(t) : s.do = do
    BY <1>12 DEF Awaits
  <2>2. CASE s \in Pending(t)'
    BY <2>1, <2>2 DEF Awaits
  <2>3. CASE s \notin Pending(t)'
    <3>1. s = Now(t) /\ (Works(t) \/ (Skips(t) /\ s.fail # "stop"))
      BY <1>8, <2>1, <2>3
    <3>2. RemovalStep(op[t], s)
      BY <1>2, <2>1 DEF ProgOK, StepsOf
    <3>3. /\ s = S("mvdir", "dir", op[t].d, op[t].e, "stop") => s.d = op[t].d /\ s.fail = "stop"
          /\ s = S("mvrows", "rows", op[t].d, op[t].e, "stop") => s.d = op[t].d /\ s.e = op[t].e /\ s.fail = "stop"
          /\ s = Edit("norows", "rows", op[t].d, "stop") => s.d = op[t].d /\ s.fail = "stop"
      BY DEF Edit, S
    <3>4. s.d = d /\ s.fail = "stop" /\ (do = "mvrows" => s.e # d)
      BY <1>0, <2>1, <3>2, <3>3 DEF RemovalStep
    <3> QED BY <2>1, <3>1, <3>4
  <2> QED BY <2>2, <2>3
<1>13. \/ Edit("rmdir", "seen", d, "stop") \in Pending(t)' \/ Awaits(t, "mvdir")' \/ dir'[d] = "none"
       \/ Excused(t, Edit("rmdir", "dir", d, "skip"))'
  <2> DEFINE s == Edit("rmdir", "seen", d, "stop")
             r == Edit("rmdir", "dir", d, "skip")
  <2>1. s.do = "rmdir" /\ s.d = d /\ s.fail = "stop" /\ r.do = "rmdir" /\ r.d = d
    BY Fields
  <2>2. s \in Pending(t) \/ Awaits(t, "mvdir") \/ dir[d] = "none" \/ Excused(t, r)
    BY <1>6 DEF Undone
  <2> SUFFICES \/ s \in Pending(t)' \/ Awaits(t, "mvdir")' \/ dir'[d] = "none"
               \/ op[t].do = "undo" /\ (faults' > 1 \/ (faults' > 0 /\ r \in Pending(t)'))
    BY <1>1 DEF s, r, Excused
  <2> HIDE DEF s, r
  <2>3. CASE s \in Pending(t)
    BY <1>8, <2>1, <2>3 DEF Works
  <2>4. CASE Awaits(t, "mvdir")
    BY <1>12, <2>4 DEF Works
  <2>5. CASE dir[d] = "none"
    BY <1>4, <2>5
  <2>6. CASE Excused(t, r)
    <3>1. op[t].do = "undo" /\ (faults > 1 \/ (faults > 0 /\ r \in Pending(t)))
      BY <2>6 DEF Excused
    <3> QED BY <1>7, <1>8, <2>1, <3>1 DEF Works
  <2> QED BY <2>2, <2>3, <2>4, <2>5, <2>6
<1>14. \/ op[t].do \notin {"del", "rename"}
       \/ Awaits(t, "norows")' \/ Awaits(t, "mvrows")' \/ d \notin rows'
  <2>1. op[t].do \notin {"del", "rename"} \/ Awaits(t, "norows") \/ Awaits(t, "mvrows") \/ d \notin rows
    BY <1>6 DEF Undone
  <2> QED BY <1>4, <1>12, <2>1 DEF Works
<1>15. /\ \/ Edit("drop", "assign", d, "stop") \in Pending(t)' \/ d \notin file'["assign"]
          \/ Excused(t, Edit("drop", "assign", d, "over2"))'
       /\ \/ Edit("drop", "virtualdomains", d, "stop") \in Pending(t)' \/ d \notin file'["virtualdomains"]
          \/ Excused(t, Edit("drop", "virtualdomains", d, "skip"))'
  BY <1>6, <1>9 DEF Undone
<1> QED BY <1>1, <1>10, <1>11, <1>13, <1>14, <1>15 DEF Undone

LEMMA MovesInv ==
  ASSUME Inv, NEW t \in Tools, Effect(t), Moves(t), Works(t) \/ Skips(t), TypeInv'
  PROVE  Inv'
<1>1. ProgOK(t)'
  BY DEF Moves, ProgOK
<1> QED BY <1>1, MovesFrame, MovesTold, MovesAdd, MovesRename, MovesDel, InvFrom

-----------------------------------------------------------------------------
(* The steps that go on with the program.                                  *)

LEMMA FewerSteps ==
  ASSUME NEW p, NEW q, Range(q) \subseteq Range(p)
  PROVE  /\ Struck(q) \subseteq Struck(p)
         /\ \A o : StepsOf(o, Range(p)) => StepsOf(o, Range(q))
<1>1. Struck(q) \subseteq Struck(p)
  BY DEF Struck
<1>2. \A o : StepsOf(o, Range(p)) => StepsOf(o, Range(q))
  BY DEF StepsOf
<1> QED BY <1>1, <1>2

\* What the tool has done so far counts, and it goes on with q.
Continues(t, q) ==
  /\ prog[t] # <<>> /\ Now(t).do \notin {"find", "turn"}
  /\ op' = op /\ told' = told /\ mixed \subseteq mixed' /\ prog' = [prog EXCEPT ![t] = q]

LEMMA TailMoves ==
  ASSUME Inv, NEW t \in Tools, Continues(t, Tail(prog[t]))
  PROVE  Moves(t)
<1> DEFINE p == prog[t]
           q == Tail(p)
<1>1. p \in Seq(Steps) /\ p # <<>> /\ Whole(p) /\ StepsOf(op[t], Range(p))
  BY DEF Inv, TypeInv, ControlOK, ToolOK, ProgOK, Pending, Continues
<1>2. Whole(q) /\ Range(q) \subseteq Range(p) /\ Range(p) = Range(q) \cup {Now(t)}
  BY <1>1, TailSteps DEF Now
<1>3. prog'[t] = q /\ \A u \in Tools \ {t} : prog'[u] = prog[u]
  BY DEF Inv, TypeInv, ControlOK, Continues
<1> HIDE DEF q
<1>4. StepsOf(op[t], Range(q)) /\ Struck(q) \subseteq Struck(p)
  BY <1>1, <1>2, FewerSteps
<1> QED BY <1>2, <1>3, <1>4 DEF Moves, Pending, Continues

LEMMA JumpMoves ==
  ASSUME Inv, NEW t \in Tools, Now(t).fail \in DOMAIN Over,
         Continues(t, SubSeq(prog[t], 2 + Over[Now(t).fail], Len(prog[t])))
  PROVE  Moves(t)
<1> DEFINE p == prog[t]
           q == SubSeq(p, 2 + Over[Now(t).fail], Len(p))
<1>1. p \in Seq(Steps) /\ p # <<>> /\ Whole(p) /\ StepsOf(op[t], Range(p))
  BY DEF Inv, TypeInv, ControlOK, ToolOK, ProgOK, Pending, Continues
<1>2. Whole(q) /\ Range(q) \subseteq Range(p) /\ Range(p) \subseteq Range(q) \cup {Now(t)} \cup NewuSteps
  BY <1>1, JumpSteps DEF Now
<1>3. prog'[t] = q /\ \A u \in Tools \ {t} : prog'[u] = prog[u]
  BY DEF Inv, TypeInv, ControlOK, Continues
<1> HIDE DEF q
<1>4. StepsOf(op[t], Range(q)) /\ Struck(q) \subseteq Struck(p)
  BY <1>1, <1>2, FewerSteps
<1> QED BY <1>2, <1>3, <1>4 DEF Moves, Pending, Continues

\* Steps A are put in the place of one.
LEMMA InsertMoves ==
  ASSUME Inv, NEW t \in Tools, Removes(op[t]), NEW a, NEW A, MadeOf(a, A),
         \A s \in A : RemovalStep(op[t], s) /\ s.do # "failed",
         Struck(a) \subseteq Struck(prog[t]), Continues(t, a \o Tail(prog[t]))
  PROVE  Moves(t) /\ A \subseteq Pending(t)'
<1> DEFINE p == prog[t]
           b == Tail(p)
           q == a \o b
<1>1. p \in Seq(Steps) /\ p # <<>> /\ Whole(p) /\ StepsOf(op[t], Range(p))
  BY DEF Inv, TypeInv, ControlOK, ToolOK, ProgOK, Pending, Continues
<1>2. Whole(b) /\ Range(b) \subseteq Range(p) /\ Range(p) = Range(b) \cup {Now(t)} /\ b \in Seq(Steps)
  BY <1>1, TailSteps, HeadTailProperties DEF Now
<1>3. prog'[t] = q /\ \A u \in Tools \ {t} : prog'[u] = prog[u]
  BY DEF Inv, TypeInv, ControlOK, Continues
<1>4. \A s \in Range(p) : RemovalStep(op[t], s) /\ s.do # "excl"
  BY <1>1 DEF StepsOf, RemovalStep
<1>5. MadeOf(b, Range(b))
  BY <1>2 DEF MadeOf
<1> HIDE DEF b
<1>6. MadeOf(q, A \cup Range(b))
  BY <1>2, <1>4, <1>5, JoinMadeOf
<1>7. Whole(q) /\ Range(q) = A \cup Range(b) /\ Range(a) = A
  BY <1>6 DEF MadeOf
<1> HIDE DEF q
<1>8. StepsOf(op[t], Range(q))
  <2>1. \A s \in Range(q) : RemovalStep(op[t], s)
    BY <1>2, <1>4, <1>7
  <2> QED BY <1>1, <2>1 DEF StepsOf, Removes
<1>9. Struck(q) \subseteq Struck(p)
  <2> SUFFICES ASSUME NEW x \in Struck(q) PROVE x \in Struck(p)
    OBVIOUS
  <2>1. PICK s \in Range(q) : (s.do \in {"drop", "ifknown"} /\ s.d = x) \/ (s.do = "strike" /\ s.e = x)
    BY StruckSteps
  <2>2. CASE s \in Range(a)
    BY <2>1, <2>2, StruckSteps
  <2>3. CASE s \in Range(b)
    BY <1>2, <2>1, <2>3, StruckSteps
  <2> QED BY <1>7, <2>2, <2>3
<1> QED BY <1>2, <1>3, <1>7, <1>8, <1>9 DEF Moves, Pending, Continues

\* Only a removal has steps of remove_alias_domain() and edits made again.
LEMMA OnlyRemoval ==
  ASSUME Inv, NEW t \in Tools, prog[t] # <<>>,
         Now(t).do \in {"strike", "ifknown", "find", "turn", "failed", "rmdir"} \/ Now(t).fail = "again"
  PROVE  Removes(op[t]) /\ RemovalStep(op[t], Now(t)) /\ Now(t) \in Pending(t)
<1>1. ControlOK /\ ProgOK(t)
  BY DEF Inv, TypeInv, ToolOK
<1>2. Now(t) \in Pending(t) /\ op[t] \in Doing
  BY <1>1, Footprint
<1>3. op[t].do # "add"
  BY <1>1, <1>2, AddStepFields DEF ProgOK, StepsOf
<1>4. op[t].do # "alias"
  BY <1>1, <1>2, AliasStepFields DEF ProgOK, StepsOf
<1>5. Removes(op[t])
  BY <1>2, <1>3, <1>4, DoingKinds
<1> QED BY <1>1, <1>2, <1>5 DEF ProgOK, StepsOf

LEMMA StrikeMoves ==
  ASSUME Inv, NEW t \in Tools, prog[t] # <<>>, Now(t).do = "strike",
         GoTo(t, <<Edit("ifknown", "assign", Now(t).e, "stop")>> \o Tail(prog[t]))
  PROVE  Moves(t)
<1> DEFINE x == Edit("ifknown", "assign", Now(t).e, "stop")
<1>1. Removes(op[t]) /\ RemovalStep(op[t], Now(t)) /\ Now(t) \in Pending(t)
  BY OnlyRemoval
<1>2. Now(t).e \in Domains
  BY StepNow, StepKinds DEF Inv, TypeInv, OtherDos
<1>3. x \in Steps /\ x.do = "ifknown" /\ x.d = Now(t).e /\ x.fail = "stop"
  BY <1>2, EditSteps DEF OtherDos, Fails, Edit, S
<1>4. RemovalStep(op[t], x)
  BY <1>1, NextRemoval
<1>5. Continues(t, <<x>> \o Tail(prog[t]))
  BY DEF GoTo, Continues
<1> HIDE DEF x
<1>6. MadeOf(<<x>>, {x}) /\ Range(<<x>>) = {x}
  BY <1>3, OneStep
<1>7. Struck(<<x>>) \subseteq Struck(prog[t])
  <2>1. Now(t).e \in Struck(prog[t])
    BY <1>1, StruckSteps DEF Pending
  <2> QED BY <1>3, <1>6, <2>1, StruckSteps
<1> QED BY <1>1, <1>3, <1>4, <1>5, <1>6, <1>7, InsertMoves

LEMMA IfKnownMoves ==
  ASSUME Inv, NEW t \in Tools, IfKnown(t)
  PROVE  Moves(t)
<1> DEFINE d == Now(t).d
           a == del_domain_assign(d, "stop") \o del_control(d, "skip")
           A == DropSteps(d, "stop") \cup UncontrolSteps(d, "skip")
<1>0. prog[t] # <<>> /\ Now(t).do = "ifknown"
  BY DEF IfKnown, At, Now
<1>1. Removes(op[t]) /\ RemovalStep(op[t], Now(t)) /\ Now(t) \in Pending(t)
  BY <1>0, OnlyRemoval
<1>2. d \in Domains /\ Tail(prog[t]) \in Seq(Steps)
  BY <1>0, StepNow, StepKinds DEF Inv, TypeInv, OtherDos
<1>3. /\ \A s \in DropSteps(d, "stop") : s.do # "failed"
      /\ \A s \in UncontrolSteps(d, "skip") : s.do # "excl" /\ s.do # "failed"
  BY SetFacts
<1>4. MadeOf(a, A)
  BY <1>2, <1>3, AssignMade, ControlMade, JoinMadeOf
<1>5. \A s \in A : RemovalStep(op[t], s) /\ s.do # "failed"
  BY <1>0, <1>1, <1>3, NextRemoval
<1>6. \A s \in A : s.do \in {"drop", "compile", "install"} /\ (s.do = "drop" => s.d = d)
  BY DEF DropSteps, UncontrolSteps, NewuSteps, Edit, S
<1>7. Struck(a) \subseteq Struck(prog[t])
  <2>1. d \in Struck(prog[t])
    BY <1>0, <1>1, StruckSteps DEF Pending
  <2>2. Range(a) = A
    BY <1>4 DEF MadeOf
  <2> HIDE DEF a, A, d
  <2> QED BY <1>6, <2>1, <2>2, StruckSteps
<1>8. CASE d \in cdb
  <2>1. GoTo(t, del_domain_assign(d, "stop") \o del_control(d, "skip") \o Tail(prog[t]))
    BY <1>8 DEF IfKnown
  <2>2. Continues(t, a \o Tail(prog[t]))
    BY <1>0, <2>1 DEF GoTo, Continues
  <2> HIDE DEF a, A
  <2> QED BY <1>1, <1>4, <1>5, <1>7, <2>2, InsertMoves
<1>9. CASE d \notin cdb
  <2>1. Continues(t, Tail(prog[t]))
    BY <1>0, <1>9 DEF IfKnown, GoTo, Continues
  <2> QED BY <2>1, TailMoves
<1> QED BY <1>8, <1>9

LEMMA AgainMoves ==
  ASSUME Inv, NEW t \in Tools, prog[t] # <<>>, Now(t).fail = "again",
         GoTo(t, <<Edit("drop", Now(t).f, Now(t).d, "skip")>> \o Tail(prog[t]))
  PROVE  Moves(t) /\ Edit("drop", Now(t).f, Now(t).d, "skip") \in Pending(t)'
<1> DEFINE x == Edit("drop", Now(t).f, Now(t).d, "skip")
<1>1. Removes(op[t]) /\ RemovalStep(op[t], Now(t)) /\ Now(t) \in Pending(t)
  BY OnlyRemoval
<1>2. Now(t).d \in Domains /\ Now(t).f \in Files /\ Now(t).do = "drop"
  BY <1>1, StepNow, StepKinds DEF Inv, TypeInv, RemovalStep
<1>3. x \in Steps /\ x.do = "drop" /\ x.d = Now(t).d /\ x.fail = "skip"
  BY <1>2, EditSteps DEF Fails, Edit, S
<1>4. RemovalStep(op[t], x)
  BY <1>1, NextRemoval
<1>5. Continues(t, <<x>> \o Tail(prog[t]))
  BY <1>2 DEF GoTo, Continues
<1> SUFFICES Moves(t) /\ x \in Pending(t)'
  BY DEF x
<1>6. MadeOf(<<x>>, {x}) /\ Range(<<x>>) = {x}
  BY <1>3, OneStep
<1>7. Struck(<<x>>) \subseteq Struck(prog[t])
  <2>1. Now(t).d \in Struck(prog[t])
    BY <1>1, <1>2, StruckSteps DEF Pending
  <2> HIDE DEF x
  <2> QED BY <1>3, <1>6, <2>1, StruckSteps
<1>8. \A s \in {x} : RemovalStep(op[t], s) /\ s.do # "failed"
  BY <1>3, <1>4
<1>9. Moves(t) /\ {x} \subseteq Pending(t)'
  <2> HIDE DEF x
  <2> QED BY <1>1, <1>5, <1>6, <1>7, <1>8, InsertMoves
<1> QED BY <1>9

-----------------------------------------------------------------------------
(* A tool that ends.                                                       *)

LEMMA IdleFacts ==
  /\ Idle.do = "none" /\ ~Removes(Idle) /\ Named(Idle) = {}
  /\ Range(<<>>) = {} /\ Struck(<<>>) = {} /\ Whole(<<>>) /\ StepsOf(Idle, {})
<1>1. Idle.do = "none"
  BY DEF Idle
<1>2. ~Removes(Idle) /\ Named(Idle) = {}
  BY <1>1 DEF Removes, Named
<1>3. Range(<<>>) = {}
  BY DEF Range
<1>4. Struck(<<>>) = {}
  BY <1>3 DEF Struck
<1>5. Whole(<<>>)
  BY DEF Whole
<1>6. StepsOf(Idle, {})
  BY <1>1, <1>2 DEF StepsOf
<1> QED BY <1>1, <1>2, <1>3, <1>4, <1>5, <1>6

LEMMA QuitTool ==
  ASSUME Inv, NEW t \in Tools, NEW say, Quit(t, say)
  PROVE  /\ Frame(t) /\ Meets(t) /\ ProgOK(t)' /\ AddOK(t)' /\ RenameOK(t)' /\ DelOK(t)'
         /\ Touched(t)' = {} /\ ~Late(t)' /\ ~Removes(op'[t])
         /\ told' = [d \in Domains |-> IF d \in mixed THEN told[d] ELSE say[d]]
<1>1. /\ op' = [op EXCEPT ![t] = Idle] /\ prog' = [prog EXCEPT ![t] = <<>>]
      /\ told' = [d \in Domains |-> IF d \in mixed THEN told[d] ELSE say[d]]
      /\ mixed' = mixed \cap UNION {Touched(u) : u \in Tools \ {t}}
  BY DEF Quit
<1>2. op \in [Tools -> {Idle} \cup Doing] /\ prog \in [Tools -> Seq(Steps)]
  BY DEF Inv, TypeInv, ControlOK
<1>3. /\ op'[t] = Idle /\ prog'[t] = <<>>
      /\ \A u \in Tools \ {t} : op'[u] = op[u] /\ prog'[u] = prog[u]
  BY <1>1, <1>2
<1>4. Pending(t)' = {} /\ Touched(t)' = {}
  BY <1>3, IdleFacts DEF Pending, Touched
<1>5. ~Late(t)' /\ ~Removes(op'[t])
  BY <1>3, IdleFacts DEF Late
<1>6. \A x \in mixed : x \notin mixed' => \A u \in Tools \ {t} : x \notin Touched(u)
  BY <1>1
<1>7. Frame(t)
  BY <1>3, <1>5, <1>6 DEF Frame
<1>8. Meets(t)
  BY <1>4 DEF Meets
<1>9. ProgOK(t)'
  BY <1>3, <1>4, IdleFacts DEF ProgOK
<1>10. AddOK(t)' /\ RenameOK(t)' /\ DelOK(t)'
  <2>1. op'[t].do = "none"
    BY <1>3, IdleFacts
  <2>2. AddOK(t)' /\ RenameOK(t)'
    BY <2>1 DEF AddOK, RenameOK
  <2>3. DelOK(t)'
    BY <1>5 DEF DelOK
  <2> QED BY <2>2, <2>3
<1> QED BY <1>1, <1>4, <1>5, <1>7, <1>8, <1>9, <1>10

LEMMA QuitInv ==
  ASSUME Inv, NEW t \in Tools, NEW say, Quit(t, say), Effect(t), TypeInv',
         \A d \in Domains \ mixed : say[d] # told[d] => ToldOK(d)'
  PROVE  Inv'
<1>1. ASSUME NEW d \in Domains
      PROVE  ToldOK(d)'
  <2>1. told'[d] = IF d \in mixed THEN told[d] ELSE say[d]
    BY QuitTool
  <2>2. CASE told'[d] = told[d]
    <3>1. Quiet(t, d) /\ Frame(t)
      BY QuitTool DEF Quiet
    <3> QED BY <2>2, <3>1, ToldKept
  <2>3. CASE told'[d] # told[d]
    BY <2>1, <2>3
  <2> QED BY <2>2, <2>3
<1> QED BY <1>1, QuitTool, InvFrom

LEMMA LeaveInv ==
  ASSUME Inv, NEW t \in Tools, Leave(t, FALSE), Effect(t), TypeInv'
  PROVE  Inv'
<1> DEFINE say == [d \in Domains |-> IF FALSE THEN Report(op[t], d) ELSE told[d]]
<1>1. Quit(t, say)
  BY DEF Leave
<1>2. \A d \in Domains : say[d] = told[d]
  OBVIOUS
<1> HIDE DEF say
<1> QED BY <1>1, <1>2, QuitInv

\* A new report of a domain that is complete ...
LEMMA NewThere ==
  ASSUME Inv, NEW t \in Tools, NEW say, Quit(t, say), UNCHANGED <<store, faults>>,
         NEW d \in Domains, told'[d] = "there", dir[d] = "full",
         Made(t, d), prog[t] = <<>>,
         \A u \in Tools \ {t} : (Removes(op[u]) => d \notin Touched(u)) /\ (op[u].d = d => ~Late(u))
  PROVE  ToldOK(d)'
<1>1. Pending(t) = {}
  BY IdleFacts DEF Pending
<1>2. /\ d \in file["assign"] /\ d \in file["virtualdomains"] /\ d \in Accepted
      /\ d \notin file["locals"]
  BY <1>1 DEF Made
<1>3. file' = file /\ dir' = dir
  BY DEF store
<1>4. ASSUME NEW u \in Tools
      PROVE  (Removes(op'[u]) => d \notin Touched(u)') /\ (op'[u].d = d => ~Late(u)')
  <2>1. CASE u = t
    BY <2>1, QuitTool
  <2>2. CASE u # t
    <3>1. op'[u] = op[u] /\ prog'[u] = prog[u]
      BY <2>2, QuitTool DEF Frame
    <3> QED BY <2>2, <3>1, SameTool
  <2> QED BY <2>1, <2>2
<1>5. There(d)'
  BY <1>2, <1>3, <1>4 DEF There, Accepted
<1>6. Gone(d)' /\ Rolled(d)' /\ Free(d)'
  BY DEF Gone, Rolled, Free
<1> QED BY <1>5, <1>6 DEF ToldOK

\* ... and of one of which nothing is left.
LEMMA NewGone ==
  ASSUME Inv, NEW t \in Tools, NEW say, Quit(t, say), UNCHANGED <<store, faults>>,
         NEW d \in Domains, told'[d] \in {"gone", "unlinked", "rolled"},
         Removes(op[t]), d = op[t].d, d \notin mixed,
         told'[d] = "rolled" /\ faults <= 1 =>
           dir[d] = "none" /\ d \notin file["assign"] /\ d \notin file["virtualdomains"] /\ d \notin file["rcpthosts"],
         told'[d] \in {"gone", "unlinked"} =>
           /\ dir[d] = "none" /\ d \notin file["assign"] /\ d \notin file["virtualdomains"]
           /\ d \in file["rcpthosts"] => faults > 1
           /\ d \in file["chkrcptdomains"] => faults > 0
           /\ told'[d] = "gone" => d \notin rows
  PROVE  ToldOK(d)'
<1>1. file' = file /\ dir' = dir /\ rows' = rows /\ faults' = faults
  BY DEF store
<1>2. d \in Touched(t) /\ Alone(t)
  BY NotIdle, OwnTouched DEF Inv, TypeInv, ToolOK
<1>3. ASSUME NEW u \in Tools
      PROVE  d \notin Touched(u)'
  <2>1. CASE u = t
    BY <2>1, QuitTool
  <2>2. CASE u # t
    <3>1. op'[u] = op[u] /\ prog'[u] = prog[u]
      BY <2>2, QuitTool DEF Frame
    <3>2. d \notin Touched(u)
      BY <1>2, <2>2 DEF Alone
    <3> QED BY <3>1, <3>2, SameTool
  <2> QED BY <2>1, <2>2
<1>4. Free(d)'
  BY <1>3 DEF Free
<1>5. There(d)'
  BY DEF There
<1>6. Gone(d)'
  BY <1>1 DEF Gone
<1>7. Rolled(d)'
  BY <1>1 DEF Rolled
<1> QED BY <1>4, <1>5, <1>6, <1>7 DEF ToldOK

LEMMA EndInv ==
  ASSUME Inv, NEW t \in Tools, End(t), Effect(t), TypeInv'
  PROVE  Inv'
<1> DEFINE say == [d \in Domains |-> Report(op[t], d)]
<1>1. Quit(t, say) /\ prog[t] = <<>> /\ UNCHANGED <<store, faults>>
  BY DEF End, Leave
<1>2. \A d \in Domains : say[d] = Report(op[t], d)
  OBVIOUS
<1>3. /\ ToolOK(t) /\ Pending(t) = {} /\ TypeInv /\ ControlOK
      /\ \A do : ~Awaits(t, do)
  BY <1>1, IdleFacts DEF Inv, TypeInv, Pending, Awaits
<1> HIDE DEF say
<1>4. ASSUME NEW d \in Domains \ mixed, say[d] # told[d]
      PROVE  ToldOK(d)'
  <2>1. told'[d] = Report(op[t], d) /\ d \in Domains /\ d \notin mixed
    BY <1>1, <1>2, <1>4, QuitTool
  <2>2. CASE op[t].do = "add" /\ d = op[t].d /\ dir[d] # "link"
    <3>1. told'[d] = "there"
      BY <2>1, <2>2 DEF Report
    <3>2. Made(t, d) /\ Sole(t, d) /\ Late(t)
      BY <1>3, <2>1, <2>2 DEF ToolOK, AddOK, Late
    <3>3. dir[d] = "full" /\ \A u \in Tools \ {t} : op[u].d = d => ~Late(u)
      BY <2>2, <3>2 DEF Sole
    <3>4. d \in Touched(t)
      BY <1>3, <2>2, NotIdle, OwnTouched
    <3>5. \A u \in Tools \ {t} : Removes(op[u]) => d \notin Touched(u)
      BY <2>1, <3>4 DEF Inv, ToolOK, Alone
    <3> QED BY <1>1, <2>1, <3>1, <3>2, <3>3, <3>5, NewThere
  <2>3. CASE op[t].do = "rename" /\ d = op[t].e /\ dir[d] = "full"
    <3>0. op[t].e # op[t].d
      BY <1>3, <2>3 DEF ToolOK, ProgOK, StepsOf
    <3>1. told'[d] = "there"
      BY <2>1, <2>3, <3>0 DEF Report
    <3>2. Made(t, d) /\ Removes(op[t])
      BY <1>3, <2>1, <2>3 DEF ToolOK, RenameOK, Removes
    <3>3. d \in Touched(t)
      BY <1>3, <2>3, <3>2, NotIdle, OwnTouched
    <3>4. \A u \in Tools \ {t} : d \notin Touched(u)
      BY <1>3, <2>1, <3>2, <3>3 DEF ToolOK, Alone
    <3>5. \A u \in Tools \ {t} : op[u].d = d => ~Late(u)
      <4> SUFFICES ASSUME NEW u \in Tools \ {t}, op[u].d = d, Late(u) PROVE FALSE
        OBVIOUS
      <4>1. d \in Touched(u)
        BY <1>3, NotIdle, OwnTouched DEF Late
      <4> QED BY <3>4, <4>1
    <3> QED BY <1>1, <2>1, <2>3, <3>1, <3>2, <3>4, <3>5, NewThere
  <2>4. CASE op[t].do \in {"del", "rename", "unlink"} /\ d = op[t].d /\ ~(op[t].do = "rename" /\ d = op[t].e)
    <3>1. told'[d] \in {"gone", "unlinked"} /\ (told'[d] = "gone" => op[t].do \in {"del", "rename"})
      BY <2>1, <2>4 DEF Report
    <3>2. Removes(op[t])
      BY <2>4 DEF Removes
    <3>3. Undone(t, d)
      BY <1>3, <2>1, <2>4, <3>2 DEF ToolOK, DelOK
    <3>4. /\ dir[d] = "none" /\ d \notin file["assign"] /\ d \notin file["virtualdomains"]
          /\ d \in file["rcpthosts"] => faults > 1
          /\ d \in file["chkrcptdomains"] => faults > 0
          /\ told'[d] = "gone" => d \notin rows
      BY <1>3, <2>4, <3>1, <3>3 DEF Undone, Excused
    <3> QED BY <1>1, <2>1, <2>4, <3>1, <3>2, <3>4, NewGone
  <2>5. CASE op[t].do = "rename" /\ d = op[t].d /\ d = op[t].e
    BY <1>3, <2>5 DEF ToolOK, ProgOK, StepsOf
  <2>6. \/ Report(op[t], d) = told[d]
        \/ op[t].do = "add" /\ d = op[t].d /\ dir[d] # "link"
        \/ op[t].do = "rename" /\ d = op[t].e /\ dir[d] = "full"
        \/ op[t].do \in {"del", "rename", "unlink"} /\ d = op[t].d
    BY DEF Report
  <2> QED BY <1>2, <1>4, <2>2, <2>3, <2>4, <2>5, <2>6
<1> QED BY <1>1, <1>4, QuitInv

LEMMA FailedInv ==
  ASSUME Inv, NEW t \in Tools, Failed(t), Effect(t), TypeInv'
  PROVE  Inv'
<1> DEFINE say == [told EXCEPT ![Now(t).d] = "rolled"]
<1>1. /\ Quit(t, say) /\ prog[t] # <<>> /\ Now(t).do = "failed" /\ UNCHANGED <<store, faults>>
  BY DEF Failed, At, Now
<1>2. ToolOK(t) /\ TypeInv /\ ControlOK /\ prog[t] \in Seq(Steps)
  BY DEF Inv, TypeInv, ControlOK
<1>3. Removes(op[t]) /\ RemovalStep(op[t], Now(t))
  BY <1>1, OnlyRemoval
<1>4. Now(t).d = op[t].d /\ op[t].do = "undo"
  BY <1>1, <1>3 DEF RemovalStep
<1>5. told \in [Domains -> Tolds] /\ faults \in Nat
  BY <1>2, BoundAssumption DEF ControlOK, TypeInv, CountOK
\* It is the last step.
<1>6. Pending(t) = {Now(t)}
  <2>1. Whole(prog[t])
    BY <1>2 DEF ToolOK, ProgOK
  <2>2. Len(prog[t]) \in Nat \ {0} /\ DOMAIN prog[t] = 1..Len(prog[t]) /\ Head(prog[t]) = prog[t][1]
    BY <1>1, <1>2
  <2>3. prog[t][1].do = "failed" /\ 1 \in 1..Len(prog[t])
    BY <1>1, <2>2 DEF Now
  <2>5. \A i \in 1..Len(prog[t]) : prog[t][i].do = "failed" => i = Len(prog[t])
    BY <2>1, <2>2, Zenon DEF Whole
  <2>6. \A i \in 1..Len(prog[t]) : i = 1
    BY <2>2, <2>3, <2>5
  <2>7. \A i \in DOMAIN prog[t] : prog[t][i] = Now(t)
    BY <2>2, <2>6, Zenon DEF Now
  <2>8. Now(t) \in Pending(t)
    BY <1>1, OnlyRemoval
  <2> QED BY <2>7, <2>8, Zenon DEF Pending, Range
<1>7. \A d \in Domains : d # op[t].d => say[d] = told[d]
  BY <1>4, <1>5
<1>8. \A d \in Domains : d = op[t].d => say[d] = "rolled"
  BY <1>4, <1>5
<1> HIDE DEF say
<1>9. ASSUME NEW d \in Domains \ mixed, say[d] # told[d]
      PROVE  ToldOK(d)'
  <2>1. d = op[t].d /\ d \notin mixed /\ d \in Domains
    BY <1>7, <1>9
  <2>2. told'[d] = "rolled"
    BY <1>1, <1>8, <2>1, QuitTool
  <2>3. \A do : do # "failed" => ~Awaits(t, do)
    BY <1>1, <1>6 DEF Awaits
  <2>4. Undone(t, d)
    BY <1>2, <1>3, <2>1, <2>3 DEF ToolOK, DelOK
  <2>5. \A s : s.do # "failed" => s \notin Pending(t)
    BY <1>1, <1>6
  <2>6. ASSUME faults <= 1
        PROVE  dir[d] = "none" /\ d \notin file["assign"] /\ d \notin file["virtualdomains"] /\ d \notin file["rcpthosts"]
    <3>1. ~(faults > 1)
      BY <1>5, <2>6
    <3>2. /\ Edit("drop", "assign", d, "stop").do # "failed" /\ Edit("drop", "assign", d, "over2").do # "failed"
          /\ Edit("drop", "virtualdomains", d, "stop").do # "failed"
          /\ Edit("drop", "virtualdomains", d, "skip").do # "failed"
          /\ Edit("drop", "rcpthosts", d, "again").do # "failed" /\ Edit("drop", "rcpthosts", d, "skip").do # "failed"
          /\ Edit("rmdir", "seen", d, "stop").do # "failed" /\ Edit("rmdir", "dir", d, "skip").do # "failed"
      BY DEF Edit, S
    <3> QED BY <2>3, <2>4, <2>5, <3>1, <3>2 DEF Undone, Excused
  <2> QED BY <1>1, <1>3, <2>1, <2>2, <2>6, NewGone
<1> QED BY <1>1, <1>9, QuitInv

-----------------------------------------------------------------------------
(* A tool that turns to a removal.                                         *)

LEMMA Redirect ==
  ASSUME Inv, NEW t \in Tools, Effect(t), TypeInv', Removes(op'[t]), mixed \subseteq mixed',
         \A u \in Tools \ {t} : op'[u] = op[u] /\ prog'[u] = prog[u],
         Meets(t), ProgOK(t)', RenameOK(t)', DelOK(t)',
         \A d \in Domains : \/ told'[d] = "none"
                            \/ told'[d] = told[d] /\ d \notin Touched(t)'
  PROVE  Inv'
<1>1. op'[t].do # "add"
  BY DEF Removes
<1>2. ~Late(t)' /\ AddOK(t)'
  BY <1>1 DEF Late, AddOK
<1>3. Frame(t)
  BY <1>2 DEF Frame
<1>4. ASSUME NEW d \in Domains
      PROVE  ToldOK(d)'
  <2>1. CASE told'[d] = "none"
    BY <2>1, ToldNone
  <2>2. CASE told'[d] = told[d] /\ d \notin Touched(t)'
    <3>1. Quiet(t, d)
      BY <1>2, <2>2 DEF Quiet
    <3> QED BY <1>3, <2>2, <3>1, ToldKept
  <2> QED BY <2>1, <2>2
<1> QED BY <1>2, <1>3, <1>4, InvFrom

\* Of a domain that somebody removes nothing is reported.
LEMMA Unreported ==
  ASSUME Inv, NEW t \in Tools, NEW d \in Domains, d \in Touched(t), Removes(op[t]) \/ (Late(t) /\ op[t].d = d)
  PROVE  told[d] = "none"
<1>1. told[d] \in Tolds /\ There(d) /\ Free(d)
  BY DEF Inv, TypeInv, ControlOK
<1> QED BY <1>1 DEF There, Free, Tolds

LEMMA TurnInv ==
  ASSUME Inv, NEW t \in Tools, At(t, "turn"), Effect(t), TypeInv',
         GoTo(t, IF is_alias_domain(Now(t).d, op[t].cwd)
                   THEN alias(Now(t).e, link[Now(t).d].to) \o <<Edit("find", "assign", Now(t).d, "stop")>>
                   ELSE rename(Now(t).d, Now(t).e))
  PROVE  Inv'
<1>0. PICK d, e, r, o : d = op[t].d /\ e = op[t].e /\ r = link[d].to /\ o = op[t]
  OBVIOUS
<1>1. prog[t] # <<>> /\ Now(t).do = "turn"
  BY DEF At, Now
<1>2. Removes(op[t]) /\ RemovalStep(op[t], Now(t))
  BY <1>1, OnlyRemoval
<1>3. Now(t).d = d /\ Now(t).e = e /\ e # d
  BY <1>0, <1>1, <1>2 DEF RemovalStep
<1>4. StoreOK /\ ControlOK
  BY DEF Inv, TypeInv
<1>5. op[t] \in Doing /\ d \in Domains /\ e \in Domains /\ r \in Domains
  BY <1>0, <1>1, <1>3, <1>4, StepNow, OwnTouched, ResolveType
<1> DEFINE f == Edit("find", "assign", d, "stop")
           R == IF is_alias_domain(d, op[t].cwd) THEN AliasSteps(e, r) \cup {f} ELSE RenameSteps(d, e)
<1>6. PICK p : prog' = [prog EXCEPT ![t] = p] /\ MadeOf(p, R)
  <2>1. CASE is_alias_domain(d, op[t].cwd)
    <3>1. prog' = [prog EXCEPT ![t] = alias(e, r) \o <<f>>]
      BY <1>0, <1>3, <2>1 DEF GoTo
    <3>2. f \in Steps /\ f.do = "find" /\ f.fail = "stop"
      BY <1>5, EditSteps DEF OtherDos, Fails, Edit, S
    <3>3. MadeOf(<<f>>, {f})
      BY <3>2, OneStep
    <3>4. \A s \in AliasSteps(e, r) : s.do # "failed"
      BY AliasStepFields
    <3>5. MadeOf(alias(e, r) \o <<f>>, AliasSteps(e, r) \cup {f})
      <4> HIDE DEF f
      <4> QED BY <1>5, <3>2, <3>3, <3>4, AliasMade, JoinMadeOf
    <3> QED BY <2>1, <3>1, <3>5
  <2>2. CASE ~is_alias_domain(d, op[t].cwd)
    <3>1. prog' = [prog EXCEPT ![t] = rename(d, e)]
      BY <1>0, <1>3, <2>2 DEF GoTo
    <3> QED BY <1>5, <2>2, <3>1, RenameMade
  <2> QED BY <2>1, <2>2
<1>7. /\ op' = op /\ told' = told /\ mixed' = mixed
      /\ prog'[t] = p /\ \A u \in Tools \ {t} : op'[u] = op[u] /\ prog'[u] = prog[u]
  BY <1>4, <1>6 DEF GoTo, ControlOK
<1>8. Whole(p) /\ Range(p) = R /\ Pending(t)' = R
  BY <1>6, <1>7 DEF MadeOf, Pending
<1>9. StepsOf(op[t], R)
  BY <1>0, <1>2, <1>3, AliasRemoval, RenameRemoval
<1>10. ProgOK(t)'
  BY <1>7, <1>8, <1>9 DEF ProgOK
<1>11. \A s \in R : /\ s.do \notin {"strike", "ifknown"}
                    /\ s.do = "drop" => s.d \in {d, e}
  <2>1. \A s \in AliasSteps(e, r) : s.do \notin {"strike", "ifknown"} /\ (s.do = "drop" => s.d = e)
    BY AliasStepFields
  <2>2. f.do = "find"
    BY Fields
  <2>3. \A s \in RenameSteps(d, e) : s.do \notin {"strike", "ifknown"} /\ (s.do = "drop" => s.d \in {d, e})
    BY DEF RenameSteps, PutSteps, ControlSteps, DropSteps, UncontrolSteps, NewuSteps, Edit, S
  <2> QED BY <2>1, <2>2, <2>3
<1>12. d \in Touched(t) /\ e \in Touched(t)
  BY <1>0, <1>2, <1>4, NotIdle, OwnTouched
<1>13. Touched(t)' \subseteq Touched(t)
  <2>1. Struck(p) \subseteq {d, e}
    <3> HIDE DEF R
    <3> QED BY <1>8, <1>11, StruckSteps
  <2>2. Named(op[t]) \subseteq Touched(t)
    BY DEF Touched
  <2> QED BY <1>7, <1>12, <2>1, <2>2 DEF Touched
<1>14. Meets(t)
  <2>1. \A u \in Tools : Alone(u)
    BY DEF Inv, ToolOK
  <2> QED BY <1>7, <1>13, <2>1, Separate DEF Meets
<1>15. \A x \in Domains : told'[x] = "none" \/ (told'[x] = told[x] /\ x \notin Touched(t)')
  BY <1>2, <1>7, <1>13, Unreported
<1>16. /\ Edit("put", "assign", e, "stop") \in R
       /\ Edit("rcpt", "rcpthosts", e, "stop") \in R
       /\ Edit("put", "virtualdomains", e, "stop") \in R
       /\ Edit("drop", "locals", e, "stop") \in R
  BY DEF AliasSteps, RenameSteps, PutSteps, ControlSteps
<1>17. RenameOK(t)'
  BY <1>0, <1>7, <1>8, <1>16 DEF RenameOK, Made
<1>18. DelOK(t)'
  <2>1. CASE is_alias_domain(d, op[t].cwd)
    <3>1. f \in Pending(t)' /\ f.do = "find"
      BY <1>8, <2>1, Fields
    <3>2. Awaits(t, "find")'
      <4> HIDE DEF f
      <4> QED BY <3>1 DEF Awaits
    <3> QED BY <3>2 DEF DelOK
  <2>2. CASE ~is_alias_domain(d, op[t].cwd)
    <3> DEFINE mv == S("mvdir", "dir", d, e, "stop")
               mr == S("mvrows", "rows", d, e, "stop")
    <3>1. Pending(t)' = RenameSteps(d, e)
      BY <1>8, <2>2
    <3>2. /\ Edit("drop", "assign", d, "stop") \in Pending(t)'
          /\ Edit("drop", "virtualdomains", d, "stop") \in Pending(t)'
          /\ Edit("drop", "rcpthosts", d, "again") \in Pending(t)'
          /\ Edit("drop", "chkrcptdomains", d, "skip") \in Pending(t)'
          /\ mv \in Pending(t)' /\ mr \in Pending(t)'
      BY <3>1 DEF RenameSteps, DropSteps, UncontrolSteps
    <3>3. mv.do = "mvdir" /\ mr.do = "mvrows"
      BY Fields
    <3>4. Awaits(t, "mvdir")' /\ Awaits(t, "mvrows")'
      <4> HIDE DEF mv, mr
      <4> QED BY <3>2, <3>3 DEF Awaits
    <3>5. Undone(t, d)'
      BY <3>2, <3>4 DEF Undone
    <3> QED BY <1>0, <1>7, <3>5 DEF DelOK, Undone, Excused
  <2> QED BY <2>1, <2>2
<1> QED BY <1>2, <1>7, <1>10, <1>14, <1>15, <1>17, <1>18, Redirect

LEMMA FindInv ==
  ASSUME Inv, NEW t \in Tools, Find(t), Now(t).d \in cdb, Effect(t), TypeInv'
  PROVE  Inv'
<1>0. PICK d, cwd, L, al : d = op[t].d /\ cwd = op[t].cwd /\ L = Listed(d, cwd) /\ al = is_alias_domain(d, cwd)
  OBVIOUS
<1>1. prog[t] # <<>> /\ Now(t).do = "find"
  BY DEF Find, At, Now
<1>2. Removes(op[t]) /\ RemovalStep(op[t], Now(t))
  BY <1>1, OnlyRemoval
<1>3. Now(t).d = d
  BY <1>0, <1>1, <1>2 DEF RemovalStep
<1>4. StoreOK /\ ControlOK /\ ProgOK(t) /\ prog[t] \in Seq(Steps)
  BY DEF Inv, TypeInv, ControlOK, ToolOK
<1>5. op[t] \in Doing /\ d \in Domains /\ d \in Touched(t) /\ op[t].e \in Touched(t)
  BY <1>0, <1>1, <1>2, <1>4, StepNow, OwnTouched
<1>6. PICK k : k = IF op[t].do = "undo" THEN "undo" ELSE IF al THEN "unlink" ELSE "del"
  OBVIOUS
<1>7. PICK o : o = [op[t] EXCEPT !.do = k]
  OBVIOUS
<1>8. PICK s \in SetToSeqs(Listed(d, cwd)) : prog' = [prog EXCEPT ![t] = deldomain(d, cwd, s) \o Tail(prog[t])]
  BY <1>0, <1>3 DEF Find
<1>9. /\ op' = [op EXCEPT ![t] = o] /\ mixed' = mixed \cup Overlap(t, op[t], L)
      /\ told' = [a \in Domains |-> IF a \in L THEN "none" ELSE told[a]]
  BY <1>0, <1>3, <1>6, <1>7 DEF Find
<1>10. o.do = k /\ o.d = d /\ o.e = op[t].e /\ Removes(o) /\ k \in {"del", "unlink", "undo"}
  BY <1>0, <1>5, <1>6, <1>7 DEF Doing, Removes
<1>11. PICK K \in SUBSET StrikeSteps(d, cwd) : MadeOf(deldomain(d, cwd, s), K \cup DelSteps(d, al))
  <2>1. \E X \in SUBSET StrikeSteps(d, cwd) : MadeOf(deldomain(d, cwd, s), X \cup DelSteps(d, is_alias_domain(d, cwd)))
    BY <1>4, <1>5, DelMade
  <2> QED BY <1>0, <2>1
<1>12. PICK b : b = Tail(prog[t])
  OBVIOUS
<1>13. Whole(b) /\ Range(b) \subseteq Pending(t) /\ b \in Seq(Steps) /\ Whole(prog[t])
  BY <1>1, <1>4, <1>12, TailSteps, HeadTailProperties DEF Pending, ProgOK
<1>14. \A x \in Range(b) : RemovalStep(op[t], x) /\ x.do # "excl"
  BY <1>2, <1>4, <1>13 DEF ProgOK, StepsOf, RemovalStep
<1> DEFINE A == K \cup DelSteps(d, al)
           q == deldomain(d, cwd, s) \o b
<1>15. \A x \in A : RemovalStep(o, x)
  <2>1. StepsOf(o, StrikeSteps(d, cwd) \cup DelSteps(d, al))
    BY <1>10, DelRemoval
  <2> QED BY <1>10, <2>1 DEF StepsOf
<1>16. /\ \A x \in A : x.do \in {"strike", "drop", "compile", "install", "rmdir", "norows"}
       /\ \A x \in A : (x.do = "strike" => x.e \in L \cup {d}) /\ (x.do = "drop" => x.d = d)
  <2>1. \A x \in StrikeSteps(d, cwd) : x.do = "strike" /\ x.e \in L \cup {d}
    BY <1>0 DEF StrikeSteps, remove_alias_domain, S
  <2>2. \A x \in DelSteps(d, al) : /\ x.do \in {"drop", "compile", "install", "rmdir", "norows"}
                                   /\ x.do = "drop" => x.d = d
    BY DEF DelSteps, DropSteps, UncontrolSteps, NewuSteps, Edit, S
  <2> QED BY <2>1, <2>2
<1>17. MadeOf(q, A \cup Range(b))
  <2>1. MadeOf(b, Range(b))
    BY <1>13 DEF MadeOf
  <2>2. \A x \in A : x.do # "failed"
    BY <1>16
  <2> HIDE DEF A
  <2>3. MadeOf(deldomain(d, cwd, s), A)
    BY <1>11 DEF A
  <2> QED BY <1>14, <2>1, <2>2, <2>3, JoinMadeOf
<1>18. /\ op'[t] = o /\ prog'[t] = q
       /\ \A u \in Tools \ {t} : op'[u] = op[u] /\ prog'[u] = prog[u]
  BY <1>4, <1>8, <1>9, <1>12 DEF ControlOK
<1>19. Whole(q) /\ Range(q) = A \cup Range(b) /\ Pending(t)' = A \cup Range(b)
  BY <1>17, <1>18 DEF MadeOf, Pending
<1>20. ProgOK(t)'
  <2>1. \A x \in Range(b) : RemovalStep(o, x)
    BY <1>5, <1>6, <1>7, <1>14, KindRemoval
  <2>2. StepsOf(o, A \cup Range(b))
    BY <1>10, <1>15, <2>1 DEF StepsOf
  <2> HIDE DEF A, q
  <2> QED BY <1>18, <1>19, <2>2 DEF ProgOK
<1>21. Touched(t)' \subseteq Touched(t) \cup L
  <2>1. Struck(q) \subseteq Touched(t) \cup L
    <3> SUFFICES ASSUME NEW x \in Struck(q) PROVE x \in Touched(t) \cup L
      OBVIOUS
    <3>1. PICK y \in Range(q) : (y.do \in {"drop", "ifknown"} /\ y.d = x) \/ (y.do = "strike" /\ y.e = x)
      BY StruckSteps
    <3>2. CASE y \in A
      BY <1>5, <1>16, <3>1, <3>2
    <3>3. CASE y \in Range(b)
      <4>1. y \in Range(prog[t])
        BY <1>13, <3>3 DEF Pending
      <4>2. x \in Struck(prog[t])
        BY <3>1, <4>1, StruckSteps
      <4> QED BY <4>2 DEF Touched
    <3> QED BY <1>19, <3>2, <3>3
  <2>2. Named(o) \subseteq Touched(t)
    BY <1>5, <1>10 DEF Named
  <2> QED BY <1>18, <2>1, <2>2 DEF Touched
<1>22. Meets(t)
  <2> SUFFICES ASSUME NEW u \in Tools \ {t}, NEW x \in Touched(t)', x \in Touched(u)
               PROVE  x \in mixed'
    BY DEF Meets
  <2>1. CASE x \in Touched(t)
    <3>1. x \in mixed
      BY <1>2, <2>1 DEF Inv, ToolOK, Alone
    <3> QED BY <1>9, <3>1
  <2>2. CASE x \in L
    <3>1. x \in Overlap(t, op[t], L)
      BY <1>2, <2>2 DEF Overlap
    <3> QED BY <1>9, <3>1
  <2> QED BY <1>21, <2>1, <2>2
<1>23. \A x \in Domains : told'[x] = "none" \/ (told'[x] = told[x] /\ x \notin Touched(t)')
  <2> SUFFICES ASSUME NEW x \in Domains, told'[x] # "none" PROVE told'[x] = told[x] /\ x \notin Touched(t)'
    OBVIOUS
  <2>1. x \notin L /\ told'[x] = told[x]
    BY <1>9
  <2>2. x \notin Touched(t)
    BY <1>2, <2>1, Unreported
  <2> QED BY <1>21, <2>1, <2>2
<1>24. RenameOK(t)'
  BY <1>10, <1>18 DEF RenameOK
<1>25. /\ Edit("drop", "assign", d, "stop") \in Pending(t)'
       /\ Edit("drop", "virtualdomains", d, "stop") \in Pending(t)'
       /\ Edit("drop", "rcpthosts", d, "again") \in Pending(t)'
       /\ Edit("drop", "chkrcptdomains", d, "skip") \in Pending(t)'
       /\ Edit("rmdir", "seen", d, "stop") \in Pending(t)'
  BY <1>19 DEF DelSteps, DropSteps, UncontrolSteps
<1>26. k \in {"unlink", "undo"} \/ Awaits(t, "norows")'
  <2> DEFINE w == Edit("norows", "rows", d, "stop")
  <2> SUFFICES ASSUME ~al PROVE Awaits(t, "norows")'
    BY <1>6
  <2>1. w \in Pending(t)'
    BY <1>19 DEF DelSteps
  <2>2. w.do = "norows"
    BY Fields
  <2> HIDE DEF w
  <2> QED BY <2>1, <2>2 DEF Awaits
<1>27. DelOK(t)'
  <2>1. Undone(t, d)'
    BY <1>10, <1>18, <1>25, <1>26 DEF Undone
  <2> QED BY <1>10, <1>18, <2>1 DEF DelOK, Undone, Excused
<1>28. Removes(op'[t]) /\ mixed \subseteq mixed'
  BY <1>9, <1>10, <1>18
<1> QED BY <1>18, <1>20, <1>22, <1>23, <1>24, <1>27, <1>28, Redirect

-----------------------------------------------------------------------------
(* An addition that is taken back.                                         *)

\* It has made .qmail-default, and nothing was reported of the domain.
LEMMA UndoStart ==
  ASSUME Inv, NEW t \in Tools, prog[t] # <<>>, Now(t).fail \in {"rollback", "undo"} \/ Now(t).do = "postmaster"
  PROVE  /\ op[t].do = "add" /\ op[t] \in Doing /\ op[t].e = op[t].d /\ op[t].d \in Domains
         /\ Now(t).d = op[t].d /\ Late(t) /\ told[op[t].d] = "none"
<1> DEFINE p == prog[t]
<1>1. ControlOK /\ ProgOK(t) /\ p \in Seq(Steps) /\ Whole(p)
  BY DEF Inv, TypeInv, ControlOK, ToolOK, ProgOK
<1>2. Now(t) \in Pending(t) /\ op[t] \in Doing
  BY <1>1, Footprint
<1>3. op[t].do # "alias"
  BY <1>1, <1>2, AliasStepFields DEF ProgOK, StepsOf
<1>4. ~Removes(op[t])
  BY <1>1, <1>2 DEF ProgOK, StepsOf, RemovalStep
<1>5. op[t].do = "add" /\ op[t].e = op[t].d /\ Now(t) \in AddSteps(op[t].d)
  BY <1>1, <1>2, <1>3, <1>4, DoingKinds DEF ProgOK, StepsOf
<1>6. Now(t).do \in {"tables", "put", "postmaster"} /\ Now(t).d = op[t].d
  <2>1. Now(t).do \in {"tables", "put", "postmaster"}
    BY <1>5, AddStepFields
  <2>2. Now(t) \notin NewuSteps
    BY <2>1, SetFacts
  <2> QED BY <1>5, <2>1, <2>2, AddStepFields
<1>7. Late(t)
  <2> SUFFICES ASSUME NEW s \in Pending(t), s.do = "excl" PROVE FALSE
    BY <1>5 DEF Late
  <2>1. Len(p) \in Nat \ {0} /\ DOMAIN p = 1..Len(p) /\ Head(p) = p[1]
    BY <1>1
  <2>2. PICK i \in 1..Len(p) : p[i] = s
    BY <2>1, Zenon DEF Pending, Range
  <2>3. \A j \in 1..(i - 1) : p[j].do \in {"absent", "mkdir"}
    BY <1>1, <2>1, <2>2, Zenon DEF Whole
  <2>4. p[1].do \in {"tables", "put", "postmaster"}
    BY <1>6, <2>1 DEF Now
  <2>5. i # 1 => 1 \in 1..(i - 1)
    BY <2>1
  <2> QED BY <2>2, <2>3, <2>4, <2>5
<1>8. op[t].d \in Domains /\ op[t].d \in Touched(t)
  BY <1>1, <1>5, NotIdle, OwnTouched
<1> QED BY <1>2, <1>5, <1>6, <1>7, <1>8, Unreported

LEMMA UndoInv ==
  ASSUME Inv, NEW t \in Tools, prog[t] # <<>>, Now(t).fail \in {"rollback", "undo"} \/ Now(t).do = "postmaster",
         NEW p, Undo(t, p), Effect(t), TypeInv',
         \/ p = Rollback(Now(t).d) /\ faults' > 0
         \/ p = UndoAll(Now(t).d)
  PROVE  Inv'
<1>0. PICK d, o : d = op[t].d /\ o = [op[t] EXCEPT !.do = "undo"]
  OBVIOUS
<1>1. /\ op[t] \in Doing /\ op[t].e = d /\ d \in Domains /\ Now(t).d = d /\ told[d] = "none"
  BY <1>0, UndoStart
<1>2. o.do = "undo" /\ o.d = d /\ o.e = d /\ Removes(o)
  BY <1>0, <1>1 DEF Doing, Removes
<1>3. /\ prog' = [prog EXCEPT ![t] = p] /\ op' = [op EXCEPT ![t] = o]
      /\ mixed' = mixed \cup Overlap(t, o, Named(o)) /\ told' = told
  BY <1>0 DEF Undo
<1>4. /\ op'[t] = o /\ prog'[t] = p
      /\ \A u \in Tools \ {t} : op'[u] = op[u] /\ prog'[u] = prog[u]
  BY <1>3 DEF Inv, TypeInv, ControlOK
<1> DEFINE x == Edit("find", "assign", d, "stop")
           y == Edit("failed", "none", d, "skip")
<1>5. x.do = "find" /\ y.do = "failed"
  BY Fields
<1>6. PICK R : /\ MadeOf(p, R)
               /\ \/ R = RollbackSteps(d) /\ faults' > 0
                  \/ R = {x, y}
  BY <1>1, RollbackMade, UndoAllMade
<1>7. Whole(p) /\ Range(p) = R /\ Pending(t)' = R
  BY <1>4, <1>6 DEF MadeOf, Pending
<1>8. StepsOf(o, R)
  <2>1. StepsOf(o, RollbackSteps(d))
    BY <1>2, RollbackRemoval
  <2>2. RemovalStep(o, x) /\ RemovalStep(o, y)
    BY <1>2, FirstRemoval
  <2>3. StepsOf(o, {x, y})
    <3> HIDE DEF x, y
    <3> QED BY <1>2, <2>2 DEF StepsOf
  <2> QED BY <1>6, <2>1, <2>3
<1>9. ProgOK(t)'
  BY <1>4, <1>7, <1>8 DEF ProgOK
<1>10. \A s \in R : s.do \notin {"strike", "ifknown"} /\ (s.do = "drop" => s.d = d)
  <2>1. \A s \in RollbackSteps(d) : s.do \notin {"strike", "ifknown"} /\ (s.do = "drop" => s.d = d)
    BY DEF RollbackSteps, DropSteps, UncontrolSteps, NewuSteps, Edit, S
  <2> HIDE DEF x, y
  <2> QED BY <1>5, <1>6, <2>1
<1>11. Touched(t)' \subseteq {d} /\ Named(o) = {d}
  <2>1. Struck(p) \subseteq {d}
    BY <1>7, <1>10, StruckSteps
  <2>2. Named(o) = {d}
    BY <1>2 DEF Named
  <2> QED BY <1>4, <2>1, <2>2 DEF Touched
<1>12. Meets(t)
  <2> SUFFICES ASSUME NEW u \in Tools \ {t}, d \in Touched(u) PROVE d \in mixed'
    BY <1>11 DEF Meets
  <2> QED BY <1>2, <1>3, <1>11 DEF Overlap
<1>13. \A a \in Domains : told'[a] = "none" \/ (told'[a] = told[a] /\ a \notin Touched(t)')
  BY <1>1, <1>3, <1>11
<1>14. RenameOK(t)'
  BY <1>2, <1>4 DEF RenameOK
<1>15. DelOK(t)'
  <2>1. CASE R = RollbackSteps(d) /\ faults' > 0
    <3>1. /\ Edit("drop", "assign", d, "over2") \in Pending(t)'
          /\ Edit("drop", "virtualdomains", d, "skip") \in Pending(t)'
          /\ Edit("drop", "rcpthosts", d, "again") \in Pending(t)'
          /\ Edit("drop", "chkrcptdomains", d, "skip") \in Pending(t)'
          /\ Edit("rmdir", "dir", d, "skip") \in Pending(t)'
      BY <1>7, <2>1 DEF RollbackSteps, DropSteps, UncontrolSteps
    <3>2. /\ Excused(t, Edit("drop", "assign", d, "over2"))'
          /\ Excused(t, Edit("drop", "virtualdomains", d, "skip"))'
          /\ Excused(t, Edit("rmdir", "dir", d, "skip"))'
      BY <1>2, <1>4, <2>1, <3>1 DEF Excused
    <3>3. Undone(t, d)'
      BY <1>2, <1>4, <3>1, <3>2 DEF Undone
    <3> QED BY <1>2, <1>4, <3>3 DEF DelOK, Undone, Excused
  <2>2. CASE R = {x, y}
    <3>1. x \in Pending(t)'
      BY <1>7, <2>2
    <3>2. Awaits(t, "find")'
      <4> HIDE DEF x, y
      <4> QED BY <1>5, <3>1 DEF Awaits
    <3> QED BY <3>2 DEF DelOK
  <2> QED BY <1>6, <2>1, <2>2
<1>16. Removes(op'[t]) /\ mixed \subseteq mixed'
  BY <1>2, <1>3, <1>4
<1> QED BY <1>4, <1>9, <1>12, <1>13, <1>14, <1>15, <1>16, Redirect

-----------------------------------------------------------------------------
(* A tool that is started.                                                 *)

LEMMA BeginProg ==
  ASSUME NEW t \in Tools, NEW o \in Operations, Begin(t, o), ControlOK
  PROVE  \E p, R : /\ prog' = [prog EXCEPT ![t] = p] /\ MadeOf(p, R) /\ StepsOf(o, R)
                   /\ o.do = "add" => R = AddSteps(o.d)
                   /\ o.do = "del" => R = {Edit("find", "assign", o.d, "stop")}
                   /\ o.do = "rename" => R = {S("turn", "assign", o.d, o.e, "stop")}
                   /\ \A s \in R : /\ s.do \notin {"strike", "ifknown"}
                                   /\ s.do = "drop" => s.d = o.d
<1>1. o.do \in {"add", "alias", "del", "rename"} /\ o.d \in Domains /\ o.e \in Domains
  BY OpsAssumption DEF Operations
<1>2. /\ o.do = "add" => prog' = [prog EXCEPT ![t] = add(o.d)] /\ o.e = o.d
      /\ o.do = "alias" => prog' = [prog EXCEPT ![t] = alias(o.d, o.e)]
      /\ o.do = "del" => prog' = [prog EXCEPT ![t] = <<Edit("find", "assign", o.d, "stop")>>]
      /\ o.do = "rename" => prog' = [prog EXCEPT ![t] = <<S("turn", "assign", o.d, o.e, "stop")>>] /\ o.e # o.d
  BY DEF Begin
<1>3. CASE o.do = "add"
  <2>1. StepsOf(o, AddSteps(o.d))
    BY <1>2, <1>3 DEF StepsOf, Removes
  <2>2. \A s \in AddSteps(o.d) : s.do \notin {"strike", "ifknown"} /\ (s.do = "drop" => s.d = o.d)
    BY AddStepFields, SetFacts
  <2> QED BY <1>1, <1>2, <1>3, <2>1, <2>2, AddMade
<1>4. CASE o.do = "alias"
  <2>1. StepsOf(o, AliasSteps(o.d, o.e))
    BY <1>4 DEF StepsOf, Removes
  <2>2. \A s \in AliasSteps(o.d, o.e) : s.do \notin {"strike", "ifknown"} /\ (s.do = "drop" => s.d = o.d)
    BY AliasStepFields
  <2> QED BY <1>1, <1>2, <1>4, <2>1, <2>2, AliasMade
<1>5. CASE o.do = "del"
  <2> DEFINE x == Edit("find", "assign", o.d, "stop")
  <2>1. x \in Steps /\ x.do = "find" /\ x.fail = "stop"
    BY <1>1, EditSteps DEF OtherDos, Fails, Edit, S
  <2>2. RemovalStep(o, x)
    BY FirstRemoval
  <2>3. prog' = [prog EXCEPT ![t] = <<x>>]
    BY <1>2, <1>5
  <2>0. {x} = {Edit("find", "assign", o.d, "stop")}
    OBVIOUS
  <2> HIDE DEF x
  <2>4. StepsOf(o, {x})
    BY <1>5, <2>2 DEF StepsOf
  <2>5. MadeOf(<<x>>, {x})
    BY <2>1, OneStep
  <2>6. \A s \in {x} : s.do \notin {"strike", "ifknown"} /\ (s.do = "drop" => s.d = o.d)
    BY <2>1
  <2> WITNESS <<x>>, {x}
  <2> QED BY <1>5, <2>0, <2>3, <2>4, <2>5, <2>6
<1>6. CASE o.do = "rename"
  <2> DEFINE x == S("turn", "assign", o.d, o.e, "stop")
  <2>1. x \in Steps /\ x.do = "turn" /\ x.fail = "stop"
    BY <1>1, PairSteps DEF OtherDos, Fails, S
  <2>2. RemovalStep(o, x)
    BY <1>2, <1>6, FirstRemoval
  <2>3. prog' = [prog EXCEPT ![t] = <<x>>]
    BY <1>2, <1>6
  <2>0. {x} = {S("turn", "assign", o.d, o.e, "stop")}
    OBVIOUS
  <2> HIDE DEF x
  <2>4. StepsOf(o, {x})
    BY <1>2, <1>6, <2>2 DEF StepsOf
  <2>5. MadeOf(<<x>>, {x})
    BY <2>1, OneStep
  <2>6. \A s \in {x} : s.do \notin {"strike", "ifknown"} /\ (s.do = "drop" => s.d = o.d)
    BY <2>1
  <2> WITNESS <<x>>, {x}
  <2> QED BY <1>6, <2>0, <2>3, <2>4, <2>5, <2>6
<1> QED BY <1>1, <1>3, <1>4, <1>5, <1>6

LEMMA BeginInv ==
  ASSUME Inv, NEW t \in Tools, NEW o \in Operations, Begin(t, o), Effect(t), TypeInv'
  PROVE  Inv'
<1>0. PICK d : d = o.d
  OBVIOUS
<1>1. ControlOK
  BY DEF Inv, TypeInv
<1>2. PICK p, R : /\ prog' = [prog EXCEPT ![t] = p] /\ MadeOf(p, R) /\ StepsOf(o, R)
                  /\ o.do = "add" => R = AddSteps(d)
                  /\ o.do = "del" => R = {Edit("find", "assign", d, "stop")}
                  /\ o.do = "rename" => R = {S("turn", "assign", d, o.e, "stop")}
                  /\ \A s \in R : /\ s.do \notin {"strike", "ifknown"}
                                  /\ s.do = "drop" => s.d = d
  BY <1>0, <1>1, BeginProg
<1>3. /\ op' = [op EXCEPT ![t] = o] /\ mixed' = mixed \cup Overlap(t, o, Named(o)) /\ told' = Unsaid(o)
  BY DEF Begin
<1>4. o.do \in {"add", "alias", "del", "rename"} /\ d \in Named(o)
  BY <1>0, OpsAssumption DEF Operations, Named
<1>5. /\ op'[t] = o /\ prog'[t] = p
      /\ \A u \in Tools \ {t} : op'[u] = op[u] /\ prog'[u] = prog[u]
  BY <1>1, <1>2, <1>3 DEF ControlOK
<1>6. Whole(p) /\ Range(p) = R /\ Pending(t)' = R
  BY <1>2, <1>5 DEF MadeOf, Pending
<1>7. ProgOK(t)'
  BY <1>2, <1>5, <1>6 DEF ProgOK
<1>8. Touched(t)' \subseteq Named(o)
  <2>1. Struck(p) \subseteq {d}
    BY <1>2, <1>6, StruckSteps
  <2> QED BY <1>4, <1>5, <2>1 DEF Touched
<1>9. ~Late(t)'
  <2> SUFFICES ASSUME o.do = "add" PROVE \E s \in Pending(t)' : s.do = "excl"
    BY <1>5 DEF Late
  <2> DEFINE x == Edit("excl", "dir", d, "stop")
  <2>1. x \in Pending(t)'
    BY <1>2, <1>6 DEF AddSteps
  <2>2. x.do = "excl"
    BY Fields
  <2> HIDE DEF x
  <2> QED BY <2>1, <2>2
<1>10. Frame(t)
  BY <1>3, <1>5, <1>9 DEF Frame
<1>11. Meets(t)
  <2> SUFFICES ASSUME NEW u \in Tools \ {t}, Removes(o) \/ Removes(op[u]), NEW x \in Touched(t)', x \in Touched(u)
               PROVE  x \in mixed'
    BY <1>5 DEF Meets
  <2> QED BY <1>3, <1>8 DEF Overlap
<1>12. AddOK(t)'
  <2>1. ASSUME o.do = "add"
        PROVE  Made(t, d)'
    <3>1. /\ Edit("put", "assign", d, "stop") \in Pending(t)'
          /\ Edit("rcpt", "rcpthosts", d, "stop") \in Pending(t)'
          /\ Edit("put", "virtualdomains", d, "stop") \in Pending(t)'
          /\ Edit("drop", "locals", d, "stop") \in Pending(t)'
      BY <1>2, <1>6, <2>1 DEF AddSteps, PutSteps, ControlSteps
    <3> QED BY <3>1 DEF Made
  <2>2. Sole(t, d)'
    BY <1>9 DEF Sole
  <2> QED BY <1>0, <1>5, <2>1, <2>2 DEF AddOK, Made, Sole
<1>13. RenameOK(t)'
  <2>1. ASSUME o.do = "rename"
        PROVE  Awaits(t, "turn")'
    <3> DEFINE x == S("turn", "assign", d, o.e, "stop")
    <3>1. x \in Pending(t)'
      BY <1>2, <1>6, <2>1
    <3>2. x.do = "turn"
      BY Fields
    <3> HIDE DEF x
    <3> QED BY <3>1, <3>2 DEF Awaits
  <2> QED BY <1>5, <2>1 DEF RenameOK
<1>14. DelOK(t)'
  <2>1. ASSUME o.do = "rename"
        PROVE  Awaits(t, "turn")'
    <3> DEFINE x == S("turn", "assign", d, o.e, "stop")
    <3>1. x \in Pending(t)'
      BY <1>2, <1>6, <2>1
    <3>2. x.do = "turn"
      BY Fields
    <3> HIDE DEF x
    <3> QED BY <3>1, <3>2 DEF Awaits
  <2>2. ASSUME o.do = "del"
        PROVE  Awaits(t, "find")'
    <3> DEFINE x == Edit("find", "assign", d, "stop")
    <3>1. x \in Pending(t)'
      BY <1>2, <1>6, <2>2
    <3>2. x.do = "find"
      BY Fields
    <3> HIDE DEF x
    <3> QED BY <3>1, <3>2 DEF Awaits
  <2>3. Removes(o) => o.do \in {"del", "rename"}
    BY <1>4 DEF Removes
  <2> QED BY <1>5, <2>1, <2>2, <2>3 DEF DelOK
<1>15. ASSUME NEW x \in Domains
      PROVE  ToldOK(x)'
  <2>1. \/ told'[x] = "none"
        \/ told'[x] = told[x] /\ (x \in Named(o) => ~Removes(o) /\ told[x] = "there")
    BY <1>3 DEF Unsaid
  <2>2. CASE told'[x] = "none"
    BY <2>2, ToldNone
  <2>3. CASE told'[x] = told[x] /\ (x \in Named(o) => ~Removes(o) /\ told[x] = "there")
    <3>1. Quiet(t, x)
      BY <1>5, <1>8, <1>9, <2>3 DEF Quiet
    <3> QED BY <1>10, <2>3, <3>1, ToldKept
  <2> QED BY <2>1, <2>2, <2>3
<1> QED BY <1>7, <1>10, <1>11, <1>12, <1>13, <1>14, <1>15, InvFrom

-----------------------------------------------------------------------------
(* Every step keeps the invariant.                                         *)

LEMMA TailInv ==
  ASSUME Inv, NEW t \in Tools, Effect(t), TypeInv', Continues(t, Tail(prog[t])), Works(t)
  PROVE  Inv'
BY TailMoves, MovesInv

\* The steps that decide how to go on.
LEMMA DecisionInv ==
  ASSUME Inv, NEW t \in Tools, Effect(t), TypeInv',
         Absent(t) \/ Present(t) \/ Find(t) \/ Turn(t) \/ IfKnown(t) \/ Failed(t) \/ End(t)
  PROVE  Inv'
<1>1. CASE Leave(t, FALSE)
  BY <1>1, LeaveInv
<1>2. CASE (Absent(t) \/ Present(t)) /\ Go(t)
  <2>1. prog[t] # <<>> /\ Now(t).do \in {"absent", "present"}
    BY <1>2 DEF Absent, Present, At, Now
  <2>2. Continues(t, Tail(prog[t]))
    BY <1>2, <2>1 DEF Go, GoTo, Continues
  <2>3. Works(t)
    BY <2>1 DEF Works
  <2> QED BY <2>2, <2>3, TailInv
<1>3. CASE Find(t) /\ Now(t).d \in cdb
  BY <1>3, FindInv
<1>4. CASE Turn(t) /\ GoTo(t, IF is_alias_domain(Now(t).d, op[t].cwd)
                                THEN alias(Now(t).e, link[Now(t).d].to) \o <<Edit("find", "assign", Now(t).d, "stop")>>
                                ELSE rename(Now(t).d, Now(t).e))
  <2>1. At(t, "turn")
    BY <1>4 DEF Turn
  <2> QED BY <1>4, <2>1, TurnInv
<1>5. CASE IfKnown(t)
  <2>1. Now(t).do = "ifknown"
    BY <1>5 DEF IfKnown, At, Now
  <2>2. Works(t)
    BY <2>1 DEF Works
  <2> QED BY <1>5, <2>2, IfKnownMoves, MovesInv
<1>6. CASE Absent(t) \/ Present(t)
  BY <1>1, <1>2, <1>6 DEF Absent, Present
<1>7. CASE Find(t)
  <2>1. Now(t).d \in cdb \/ Leave(t, FALSE)
    BY <1>7 DEF Find
  <2> QED BY <1>1, <1>3, <1>7, <2>1
<1>8. CASE Turn(t)
  <2>1. \/ Leave(t, FALSE)
        \/ GoTo(t, IF is_alias_domain(Now(t).d, op[t].cwd)
                     THEN alias(Now(t).e, link[Now(t).d].to) \o <<Edit("find", "assign", Now(t).d, "stop")>>
                     ELSE rename(Now(t).d, Now(t).e))
    BY <1>8 DEF Turn
  <2> QED BY <1>1, <1>4, <1>8, <2>1
<1> QED BY <1>5, <1>6, <1>7, <1>8, FailedInv, EndInv

\* The steps on control files.
LEMMA FileInv ==
  ASSUME Inv, NEW t \in Tools, Effect(t), TypeInv',
         Put(t) \/ Drop(t) \/ Count(t) \/ Rcpt(t) \/ Compile(t) \/ Install(t)
  PROVE  Inv'
<1>1. prog[t] # <<>> /\ Now(t).do \in {"put", "drop", "count", "rcpt", "compile", "install"}
  BY DEF Put, Drop, Count, Rcpt, Compile, Install, At, Now
<1>2. Continues(t, Tail(prog[t]))
  <2>1. CASE Put(t) \/ Drop(t) \/ Rcpt(t)
    BY <1>1, <2>1 DEF Put, Drop, Rcpt, Go, GoTo, Continues
  <2>2. CASE Count(t) \/ Compile(t) \/ Install(t)
    BY <1>1, <2>2 DEF Count, Compile, Install, Continues
  <2> QED BY <2>1, <2>2
<1>3. StoreOK /\ ControlOK /\ Now(t) \in Steps
  BY <1>1, StepNow DEF Inv, TypeInv
<1>4. Works(t)
  <2>1. CASE Put(t)
    <3>1. Now(t).do = "put"
      BY <2>1 DEF Put, At, Now
    <3>2. Now(t).f \in Files
      BY <1>3, <3>1, StepKinds
    <3>3. Now(t).d \in file'[Now(t).f]
      BY <1>3, <2>1, <3>2 DEF Put, StoreOK
    <3> QED BY <3>1, <3>3 DEF Works
  <2>2. CASE Drop(t)
    <3>1. Now(t).do = "drop"
      BY <2>2 DEF Drop, At, Now
    <3>2. Now(t).f \in Files
      BY <1>3, <3>1, StepKinds
    <3>3. Now(t).d \notin file'[Now(t).f]
      BY <1>3, <2>2, <3>2 DEF Drop, StoreOK
    <3> QED BY <3>1, <3>3 DEF Works
  <2>3. CASE Rcpt(t)
    <3>1. Now(t).do = "rcpt"
      BY <2>3 DEF Rcpt, At, Now
    <3>2. Now(t).d \in file'["rcpthosts"] \cup file'["morercpthosts"]
      BY <1>3, <2>3 DEF Rcpt, StoreOK, Files
    <3> QED BY <3>1, <3>2 DEF Works, Accepted
  <2>4. CASE Count(t) \/ Compile(t) \/ Install(t)
    <3>1. Now(t).do \in {"count", "compile", "install"}
      BY <2>4 DEF Count, Compile, Install, At, Now
    <3> QED BY <3>1 DEF Works
  <2> QED BY <2>1, <2>2, <2>3, <2>4
<1> QED BY <1>2, <1>4, TailInv

\* The steps on directories, links and .aliasdomains.
LEMMA DirInv ==
  ASSUME Inv, NEW t \in Tools, Effect(t), TypeInv',
         \/ Mkdir(t) \/ Excl(t) \/ Symlink(t) \/ Enlist(t)
         \/ Strike(t) \/ Rmdir(t) \/ MvDir(t) \/ Relink(t)
  PROVE  Inv'
<1>1. CASE Leave(t, FALSE)
  BY <1>1, LeaveInv
<1>2. /\ prog[t] # <<>>
      /\ Now(t).do \in {"mkdir", "excl", "symlink", "enlist", "strike", "rmdir", "mvdir", "relink"}
  BY DEF Mkdir, Excl, Symlink, Enlist, Strike, Rmdir, MvDir, Relink, At, Now
<1>3. StoreOK /\ Now(t) \in Steps
  BY <1>2, StepNow DEF Inv, TypeInv
<1>4. Now(t).d \in Domains /\ Now(t).e \in Domains
  BY <1>2, <1>3, StepKinds DEF OtherDos
<1>5. Go(t) => Continues(t, Tail(prog[t]))
  BY <1>2 DEF Go, GoTo, Continues
<1>6. CASE Mkdir(t) \/ Symlink(t) \/ Enlist(t) \/ Relink(t)
  <2>1. Leave(t, FALSE) \/ Go(t)
    BY <1>6 DEF Mkdir, Symlink, Enlist, Relink
  <2>2. Now(t).do \in {"mkdir", "symlink", "enlist", "relink"}
    BY <1>6 DEF Mkdir, Symlink, Enlist, Relink, At, Now
  <2>3. Works(t)
    BY <2>2 DEF Works
  <2> QED BY <1>1, <1>5, <2>1, <2>3, TailInv
<1>7. CASE Excl(t)
  <2> DEFINE d == Now(t).d
             r == Resolve(d)
  <2>1. Now(t).do = "excl" /\ r \in Domains
    BY <1>3, <1>4, <1>7, ResolveType DEF Excl, At, Now
  <2>2. \/ Leave(t, FALSE)
        \/ dir[r] = "bare" /\ dir' = [dir EXCEPT ![r] = "full"] /\ Go(t)
    BY <1>7 DEF Excl
  <2>3. CASE dir[r] = "bare" /\ dir' = [dir EXCEPT ![r] = "full"] /\ Go(t)
    <3>1. dir[d] = "link" \/ r = d
      BY DEF Resolve
    <3> HIDE DEF r
    <3>2. /\ dir[d] # "full"
          /\ dir'[d] = "link" \/ (dir[d] = "bare" /\ dir'[d] = "full")
      BY <1>3, <1>4, <2>1, <2>3, <3>1 DEF StoreOK
    <3>3. Works(t)
      BY <2>1, <3>2 DEF Works
    <3> QED BY <1>5, <2>3, <3>3, TailInv
  <2> QED BY <1>1, <2>2, <2>3
<1>8. CASE Strike(t)
  <2>1. Now(t).do = "strike"
    BY <1>8 DEF Strike, At, Now
  <2>2. Works(t)
    BY <2>1 DEF Works
  <2>3. \/ Leave(t, FALSE)
        \/ GoTo(t, <<Edit("ifknown", "assign", Now(t).e, "stop")>> \o Tail(prog[t]))
    BY <1>8 DEF Strike
  <2>4. CASE GoTo(t, <<Edit("ifknown", "assign", Now(t).e, "stop")>> \o Tail(prog[t]))
    BY <1>2, <2>1, <2>2, <2>4, StrikeMoves, MovesInv
  <2> QED BY <1>1, <2>3, <2>4
<1>9. CASE Rmdir(t)
  <2> DEFINE d == Now(t).d
  <2>1. Now(t).do = "rmdir"
    BY <1>9 DEF Rmdir, At, Now
  <2>2. Continues(t, Tail(prog[t]))
    BY <1>2, <1>9, <2>1 DEF Rmdir, Continues
  <2>3. dir'[d] = "none" \/ d \in mixed'
    <3>1. CASE Now(t).f = "seen" /\ dir[Resolve(d)] = "none"
      <4>1. dir' = dir /\ (dir[d] = "link" => d \in mixed')
        BY <1>9, <3>1 DEF Rmdir
      <4> QED BY <3>1, <4>1 DEF Resolve
    <3>2. CASE ~(Now(t).f = "seen" /\ dir[Resolve(d)] = "none")
      <4>1. dir' = [dir EXCEPT ![d] = "none"]
        BY <1>9, <3>2 DEF Rmdir
      <4> QED BY <1>3, <1>4, <4>1 DEF StoreOK
    <3> QED BY <3>1, <3>2
  <2>4. Works(t)
    BY <2>1, <2>3 DEF Works
  <2> QED BY <2>2, <2>4, TailInv
<1>10. CASE MvDir(t)
  <2>1. Now(t).do = "mvdir"
    BY <1>10 DEF MvDir, At, Now
  <2>2. \/ Leave(t, FALSE)
        \/ dir' = [dir EXCEPT ![Now(t).e] = dir[Now(t).d], ![Now(t).d] = "none"] /\ Go(t)
    BY <1>10 DEF MvDir
  <2>3. CASE dir' = [dir EXCEPT ![Now(t).e] = dir[Now(t).d], ![Now(t).d] = "none"] /\ Go(t)
    <3>1. dir'[Now(t).d] = "none"
      BY <1>3, <1>4, <2>3 DEF StoreOK
    <3>2. Works(t)
      BY <2>1, <3>1 DEF Works
    <3> QED BY <1>5, <2>3, <3>2, TailInv
  <2> QED BY <1>1, <2>2, <2>3
<1> QED BY <1>6, <1>7, <1>8, <1>9, <1>10

\* The steps on the users of a domain.
LEMMA RowInv ==
  ASSUME Inv, NEW t \in Tools, Effect(t), TypeInv',
         Tables(t) \/ Postmaster(t) \/ NoRows(t) \/ MvRows(t)
  PROVE  Inv'
<1>1. /\ prog[t] # <<>> /\ Now(t).do \in {"tables", "postmaster", "norows", "mvrows"}
  BY DEF Tables, Postmaster, NoRows, MvRows, At, Now
<1>2. Go(t) => Continues(t, Tail(prog[t]))
  BY <1>1 DEF Go, GoTo, Continues
<1>3. CASE Tables(t) \/ (Postmaster(t) /\ Go(t))
  <2>1. Now(t).do \in {"tables", "postmaster"} /\ Go(t)
    BY <1>3 DEF Tables, Postmaster, At, Now
  <2>2. Works(t)
    BY <2>1 DEF Works
  <2> QED BY <1>2, <2>1, <2>2, TailInv
<1>4. CASE Postmaster(t)
  <2>1. Now(t).do = "postmaster" /\ (Go(t) \/ Undo(t, UndoAll(Now(t).d)))
    BY <1>4 DEF Postmaster, At, Now
  <2>2. CASE Undo(t, UndoAll(Now(t).d))
    BY <1>1, <2>1, <2>2, UndoInv
  <2> QED BY <1>3, <1>4, <2>1, <2>2
<1>5. CASE NoRows(t) \/ MvRows(t)
  <2>1. /\ Now(t).do = "norows" => Now(t).d \notin rows'
        /\ Now(t).do = "mvrows" => Now(t).d \notin rows' \/ Now(t).d = Now(t).e
        /\ Now(t).do \in {"norows", "mvrows"} /\ Go(t)
    BY <1>5 DEF NoRows, MvRows, At, Now
  <2>2. Works(t)
    BY <2>1 DEF Works
  <2> QED BY <1>2, <2>1, <2>2, TailInv
<1> QED BY <1>3, <1>4, <1>5

LEMMA FaultInv ==
  ASSUME Inv, NEW t \in Tools, Effect(t), TypeInv', Fail(t) \/ Crash(t)
  PROVE  Inv'
<1>1. CASE Leave(t, FALSE)
  BY <1>1, LeaveInv
<1>2. CASE Fail(t)
  <2> DEFINE s == Now(t)
             p == prog[t]
  <2>1. p # <<>> /\ s.do \notin {"find", "turn"} /\ faults' = faults + 1
    BY <1>2 DEF Fail, Checks
  <2>2. faults' > 0
    BY <2>1, BoundAssumption DEF Inv, TypeInv, CountOK
  <2>3. CASE s.fail \in DOMAIN Over /\ GoTo(t, SubSeq(p, 2 + Over[s.fail], Len(p)))
    <3>1. s.fail \in {"skip", "over1", "over2"}
      BY <2>3 DEF Over
    <3>2. Continues(t, SubSeq(p, 2 + Over[s.fail], Len(p)))
      BY <2>1, <2>3 DEF GoTo, Continues
    <3>3. Moves(t)
      BY <2>3, <3>2, JumpMoves
    <3>4. Skips(t)
      BY <2>1, <3>1 DEF Skips
    <3> QED BY <3>3, <3>4, MovesInv
  <2>4. CASE s.fail = "again" /\ GoTo(t, <<Edit("drop", s.f, s.d, "skip")>> \o Tail(p))
    <3>1. Moves(t) /\ Edit("drop", s.f, s.d, "skip") \in Pending(t)'
      BY <2>1, <2>4, AgainMoves
    <3>2. Skips(t)
      BY <2>1, <2>4, <3>1 DEF Skips
    <3> QED BY <3>1, <3>2, MovesInv
  <2>5. CASE s.fail = "rollback" /\ Undo(t, Rollback(s.d))
    BY <2>1, <2>2, <2>5, UndoInv
  <2>6. CASE s.fail = "undo" /\ Undo(t, UndoAll(s.d))
    BY <2>1, <2>6, UndoInv
  <2> QED BY <1>1, <1>2, <2>3, <2>4, <2>5, <2>6 DEF Fail
<1> QED BY <1>1, <1>2 DEF Crash

LEMMA InvInit == Init => Inv
<1> SUFFICES ASSUME Init PROVE Inv
  OBVIOUS
<1>1. TypeInv
  BY TypeInvInit
<1>2. ASSUME NEW t \in Tools
      PROVE  ToolOK(t)
  <2>1. op[t] = Idle /\ prog[t] = <<>>
    BY DEF Init
  <2>2. op[t].do = "none" /\ ~Removes(op[t])
    BY <2>1, IdleFacts
  <2>3. ProgOK(t)
    BY <2>1, IdleFacts DEF ProgOK, Pending
  <2>4. Alone(t) /\ DelOK(t)
    BY <2>2 DEF Alone, DelOK
  <2>5. AddOK(t) /\ RenameOK(t)
    BY <2>2 DEF AddOK, RenameOK
  <2> QED BY <2>3, <2>4, <2>5 DEF ToolOK
<1>3. ASSUME NEW d \in Domains
      PROVE  There(d) /\ Gone(d) /\ Rolled(d) /\ Free(d)
  <2>1. told[d] = "none"
    BY DEF Init
  <2> QED BY <2>1 DEF There, Gone, Rolled, Free
<1> QED BY <1>1, <1>2, <1>3 DEF Inv

LEMMA InvStutter ==
  ASSUME Inv, UNCHANGED vars, TypeInv'
  PROVE  Inv'
<1>1. /\ file' = file /\ dir' = dir /\ rows' = rows /\ op' = op /\ prog' = prog /\ told' = told
      /\ mixed' = mixed /\ faults' = faults
  BY DEF vars, store
<1>2. \A t \in Tools : /\ Pending(t)' = Pending(t) /\ Touched(t)' = Touched(t) /\ (Late(t)' <=> Late(t))
                       /\ (ProgOK(t)' <=> ProgOK(t)) /\ \A do : Awaits(t, do)' <=> Awaits(t, do)
  BY <1>1, SameTool
<1>3. ASSUME NEW t \in Tools
      PROVE  ToolOK(t)'
  <2>1. ToolOK(t)
    BY DEF Inv
  <2>2. ProgOK(t)' /\ Alone(t)'
    BY <1>1, <1>2, <2>1 DEF ToolOK, Alone
  <2>3. AddOK(t)'
    BY <1>1, <1>2, <2>1 DEF ToolOK, AddOK, Made, Sole, Accepted
  <2>4. RenameOK(t)'
    BY <1>1, <1>2, <2>1 DEF ToolOK, RenameOK, Made, Accepted
  <2>5. DelOK(t)'
    BY <1>1, <1>2, <2>1 DEF ToolOK, DelOK, Undone, Excused
  <2> QED BY <2>2, <2>3, <2>4, <2>5 DEF ToolOK
<1>4. ASSUME NEW d \in Domains
      PROVE  (There(d) /\ Gone(d) /\ Rolled(d) /\ Free(d))'
  <2>1. There(d) /\ Gone(d) /\ Rolled(d) /\ Free(d)
    BY DEF Inv
  <2>2. There(d)'
    BY <1>1, <1>2, <2>1 DEF There, Accepted
  <2>3. Gone(d)' /\ Rolled(d)' /\ Free(d)'
    BY <1>1, <1>2, <2>1 DEF Gone, Rolled, Free
  <2> QED BY <2>2, <2>3
<1> QED BY <1>3, <1>4 DEF Inv

LEMMA InvNext == Inv /\ [Next]_vars => Inv'
<1> SUFFICES ASSUME Inv, [Next]_vars PROVE Inv'
  OBVIOUS
<1>1. TypeInv /\ TypeInv'
  BY TypeInvNext DEF Inv
<1>2. CASE UNCHANGED vars
  BY <1>1, <1>2, InvStutter
<1>3. CASE Next
  <2>1. PICK t \in Tools : (\E o \in Operations : Begin(t, o)) \/ Step(t) \/ Fail(t) \/ Crash(t)
    BY <1>3 DEF Next
  <2>2. Effect(t)
    BY <1>1, <2>1, Effects
  <2>3. CASE \E o \in Operations : Begin(t, o)
    BY <1>1, <2>2, <2>3, BeginInv
  <2>4. CASE Step(t)
    BY <1>1, <2>2, <2>4, DecisionInv, FileInv, DirInv, RowInv DEF Step
  <2>5. CASE Fail(t) \/ Crash(t)
    BY <1>1, <2>2, <2>5, FaultInv
  <2> QED BY <2>1, <2>3, <2>4, <2>5
<1> QED BY <1>2, <1>3

\* iadddomain.c:187, vrenamedomain.c: a domain that vadddomain or vrenamedomain has
\* reported stays complete (directory with .qmail-default, users/assign,
\* virtualdomains, rcpthosts or morercpthosts, not in locals) until it is removed,
\* whatever other tools add, delete, rename, fail at or are killed in meanwhile.
THEOREM AddedStaysHolds == Spec => []AddedStays
<1>1. Inv => AddedStays
  BY DEF Inv, There, AddedStays
<1> QED BY <1>1, InvInit, InvNext, PTL DEF Spec

\* deldomain.c:262: of a domain whose deletion was reported, and that no other tool
\* was at meanwhile, nothing is left and nothing comes back until it is added again.
THEOREM DeletedGoneHolds == Spec => []DeletedGone
<1>1. Inv => DeletedGone
  BY DEF Inv, Gone, DeletedGone
<1> QED BY <1>1, InvInit, InvNext, PTL DEF Spec

\* iadddomain.c:261-271, vadddomain.c:688: an addition that is taken back because one
\* of its late steps failed, and no other step did, leaves neither the directory nor
\* an entry in users/assign, virtualdomains or rcpthosts.
THEOREM RolledBackHolds == Spec => []RolledBack
<1>1. Inv => RolledBack
  BY DEF Inv, Rolled, RolledBack
<1> QED BY <1>1, InvInit, InvNext, PTL DEF Spec
=============================================================================

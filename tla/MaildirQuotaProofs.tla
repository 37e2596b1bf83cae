-------------------------- MODULE MaildirQuotaProofs --------------------------
(***************************************************************************)
(* What holds of deliveries to a Maildir and of maildirsize for any set of *)
(* processes, with any sizes, quotas and number of failures.               *)
(***************************************************************************)
EXTENDS MaildirQuota, FiniteSetTheorems, SequenceTheorems, TLAPS

USE DEF maildirsize

-----------------------------------------------------------------------------
(* The local state of a process                                            *)

\* Process p has written its line, or has ended, and never writes one again.
Past(r) == r.pc \in {"create", "link", "done", "bounced"} \/ r.ret = "create"

Recalc == {"stat", "check", "count", "trunc", "write"}
Callers == {"locked", "over1", "over2", "warned", "auto", "gaveup", "end", "bounce", "create"}

\* r has the fields of the local state, and those that are numbers or sets are.
Shape(r) ==
  DOMAIN r = {"pc", "mode", "lim", "msize", "prev", "seen", "ret", "val", "empty", "most"}

Typed(r) == r.lim \in Nat /\ r.most \in Nat /\ r.seen \subseteq Procs /\ IsFiniteSet(r.seen)

\* Where recalc_quota() is called from, and that nobody else has a caller left
\* over, except for the three that do not look at its result.
Returns(r) ==
  /\ r.pc \in Recalc => r.ret \in Callers
  /\ r.pc \in {"idle", "locked", "over1", "over2", "append", "auto", "gaveup", "end"} => r.ret = "none"
  /\ r.pc = "warned" => r.ret \in {"none", "warned"}
  /\ r.ret = "over2" => r.pc \in {"count", "trunc", "write"}

\* A large message is measured against usages the Maildir has had since it
\* came; the second time, when it matters, none but those of count_dir().
Measured(r, p) ==
  /\ p \in Big /\ r.pc = "over2" => r.val \in Nat /\ r.val <= r.most
  /\ p \in Big /\ r.ret = "over2" /\ r.pc # "count" => r.msize \in Nat /\ r.msize <= r.most
  /\ r.ret = "bounce" \/ r.pc \in {"bounce", "bounced"} => p \in Big /\ r.most + Size({p}) > r.lim

\* n is the usage of the Maildir.
Sound(r, p, n) ==
  /\ Shape(r) /\ Typed(r) /\ Returns(r) /\ Measured(r, p)
  /\ Bounces(r.pc, p) => n <= r.most

ProcsAre == proc = [p \in Procs |-> proc[p]]

Local ==
  /\ ProcsAre
  /\ \A p \in Procs : Sound(proc[p], p, Size(box)) /\ \A m \in proc[p].seen : Past(proc[m])

-----------------------------------------------------------------------------
(* The Maildir and maildirsize                                             *)

Lines == [limit : Nat, ids : SUBSET Procs]

Shared ==
  /\ new \subseteq box /\ box \subseteq Procs /\ IsFiniteSet(box)
  /\ \A m \in box : Past(proc[m])
  /\ \A m \in Procs : At(m, "link") => m \in box
  /\ \A m \in new : At(m, "done")
  /\ exists \in BOOLEAN /\ old \in BOOLEAN /\ flag \in BOOLEAN
  /\ quota \in Limits
  /\ faults \in 0..MaxFaults

File ==
  /\ text \in Seq(Lines)
  /\ \A i \in DOMAIN text : IsFiniteSet(text[i].ids) /\ \A m \in text[i].ids : Past(proc[m])

\* A message that somebody has counted and is about to write down has its line
\* nowhere but in the place that is about to be written over.
Once ==
  /\ NoDoubleCount
  /\ \A p \in Procs : At(p, "write") =>
       \A i \in DOMAIN text : i # 2 => text[i].ids \cap proc[p].seen = {}

-----------------------------------------------------------------------------
(* The steps of a process, seen from outside.                              *)

\* Nobody else moves, and what process p is for stays.
Alone(p) == ProcsAre' /\ \A o \in Procs \ {p} : proc'[o] = proc[o]

Moves(p, pc, ret) ==
  /\ Alone(p)
  /\ Shape(proc'[p]) /\ proc'[p].pc = pc /\ proc'[p].ret = ret
  /\ proc'[p].lim = proc[p].lim /\ proc'[p].most = proc[p].most

LEMMA GoMoves ==
  ASSUME ProcsAre, NEW p \in Procs, Shape(proc[p]), NEW pc, Go(p, pc)
  PROVE  /\ Moves(p, pc, proc[p].ret)
         /\ proc'[p].val = 0 /\ proc'[p].msize = proc[p].msize /\ proc'[p].seen = proc[p].seen
BY DEF Go, Moves, Alone, Shape, ProcsAre

LEMMA CallMoves ==
  ASSUME ProcsAre, NEW p \in Procs, Shape(proc[p]), NEW force, NEW ret, Call(p, force, ret)
  PROVE  /\ Moves(p, IF force = 2 THEN "count" ELSE "stat", ret)
         /\ proc'[p].val = 0 /\ proc'[p].msize = proc[p].msize /\ proc'[p].seen = proc[p].seen
BY DEF Call, Moves, Alone, Shape, ProcsAre

LEMMA ReturnMoves ==
  ASSUME ProcsAre, NEW p \in Procs, Shape(proc[p]), NEW v, proc' = Return(p, v)
  PROVE  /\ Moves(p, proc[p].ret, "none") /\ proc'[p].seen = {}
         /\ proc[p].ret = "over2" => proc'[p].val = v
BY DEF Return, Moves, Alone, Shape, ProcsAre

LEMMA FreshTypes == Shape(Fresh) /\ Typed(Fresh) /\ Fresh.ret = "none" /\ Fresh.seen = {}
BY FS_EmptySet DEF Fresh, Shape, Typed

LEMMA FinishMoves ==
  ASSUME ProcsAre, NEW p \in Procs, Finish(p)
  PROVE  /\ Alone(p) /\ Shape(proc'[p]) /\ Typed(proc'[p])
         /\ proc'[p].pc = "done" /\ proc'[p].ret = "none" /\ proc'[p].seen = {}
BY FS_EmptySet DEF Finish, Alone, Shape, Typed, ProcsAre, Fresh

LEMMA SizeTypes ==
  /\ \A S : IsFiniteSet(S) => Size(S) \in Nat
  /\ \A S, T : IsFiniteSet(T) /\ S \subseteq T => IsFiniteSet(S) /\ Size(S) <= Size(T)
  /\ \A p : Size({p}) \in Nat
<1>1. ASSUME NEW S, IsFiniteSet(S) PROVE Size(S) \in Nat
  <2>1. IsFiniteSet(S \cap Big)
    BY <1>1, FS_Subset
  <2> QED
    BY <1>1, <2>1, FS_CardinalityType DEF Size
<1>2. ASSUME NEW S, NEW T, IsFiniteSet(T), S \subseteq T PROVE IsFiniteSet(S) /\ Size(S) <= Size(T)
  <2>1. IsFiniteSet(S) /\ Cardinality(S) <= Cardinality(T)
    BY <1>2, FS_Subset
  <2>2. IsFiniteSet(T \cap Big) /\ S \cap Big \subseteq T \cap Big
    BY <1>2, FS_Subset
  <2>3. IsFiniteSet(S \cap Big) /\ Cardinality(S \cap Big) <= Cardinality(T \cap Big)
    BY <2>2, FS_Subset
  <2>4. /\ Cardinality(S) \in Nat /\ Cardinality(T) \in Nat
        /\ Cardinality(S \cap Big) \in Nat /\ Cardinality(T \cap Big) \in Nat
    BY <1>2, <2>1, <2>2, <2>3, FS_CardinalityType
  <2> QED
    BY <2>1, <2>3, <2>4 DEF Size
<1>3. \A p : IsFiniteSet({p})
  BY FS_Singleton
<1> QED
  BY <1>1, <1>2, <1>3

\* What a step of process p has to do for the local states to stay sound.
Step(p) ==
  /\ Alone(p)
  /\ Sound(proc'[p], p, Size(box))
  /\ Past(proc[p]) => Past(proc'[p])
  /\ \A m \in proc'[p].seen : m \in proc[p].seen \cup box
  /\ proc'[p].pc # "link"
  /\ proc'[p].pc = "write" => text' = <<>>

LEMMA StepPast ==
  ASSUME NEW p \in Procs, Step(p)
  PROVE  \A m \in Procs : Past(proc[m]) => Past(proc'[m])
BY DEF Step, Alone

LEMMA StepLocal ==
  ASSUME Local, Shared, NEW p \in Procs, Step(p), box' \subseteq box
  PROVE  Local'
<1>1. \A m \in Procs : Past(proc[m]) => Past(proc'[m])
  BY StepPast
<1>2. Size(box) \in Nat /\ Size(box') \in Nat /\ Size(box') <= Size(box)
  BY SizeTypes DEF Shared
<1>3. ASSUME NEW o \in Procs PROVE Sound(proc'[o], o, Size(box'))
  <2>1. Sound(proc'[o], o, Size(box))
    BY DEF Local, Step, Alone
  <2>2. proc'[o].most \in Nat
    BY <2>1 DEF Sound, Typed
  <2> QED
    BY <1>2, <2>1, <2>2 DEF Sound
<1>4. ASSUME NEW o \in Procs, NEW m \in proc'[o].seen PROVE Past(proc'[m])
  <2>1. m \in Procs
    BY <1>3, <1>4 DEF Sound, Typed
  <2>2. m \in proc[o].seen \cup box
    BY <1>4 DEF Step, Alone
  <2>3. Past(proc[m])
    BY <2>2 DEF Local, Shared
  <2> QED
    BY <1>1, <2>1, <2>3
<1> QED
  BY <1>3, <1>4 DEF Local, Step, Alone

LEMMA FinishStep ==
  ASSUME Local, NEW p \in Procs, Finish(p)
  PROVE  Step(p) /\ proc'[p].pc = "done"
<1>1. /\ Alone(p) /\ Shape(proc'[p]) /\ Typed(proc'[p])
      /\ proc'[p].pc = "done" /\ proc'[p].ret = "none" /\ proc'[p].seen = {}
  BY FinishMoves DEF Local
<1>2. Returns(proc'[p]) /\ Measured(proc'[p], p)
  BY <1>1 DEF Returns, Measured, Recalc
<1>3. ~Bounces(proc'[p].pc, p) /\ Past(proc'[p])
  BY <1>1 DEF Bounces, Ended, Past
<1> QED
  BY <1>1, <1>2, <1>3 DEF Step, Sound

\* A process goes on, to or from recalc_quota(), and has neither been measured
\* nor found too large on the way.
LEMMA MovesStep ==
  ASSUME Local, Shared, NEW p \in Procs, NEW pc, NEW ret, Moves(p, pc, ret),
         proc'[p].seen \in {proc[p].seen, {}, box},
         Returns(proc'[p]), Measured(proc'[p], p), Past(proc[p]) => Past(proc'[p]),
         Bounces(pc, p) => Bounces(proc[p].pc, p), pc # "link", pc = "write" => text' = <<>>
  PROVE  Step(p)
<1>1. Typed(proc'[p])
  BY FS_EmptySet DEF Moves, Local, Shared, Sound, Typed
<1> QED
  BY <1>1 DEF Step, Moves, Local, Sound

LEMMA StartStep ==
  ASSUME Local, Shared, NEW p \in Procs, NEW mode, NEW l \in Nat, NEW pc, NEW ret,
         Start(p, mode, l, pc, ret),
         \/ pc \in {"stat", "count"} /\ ret \in {"locked", "over1", "warned", "end"}
         \/ pc = "auto" /\ ret = "none"
  PROVE  Step(p)
<1> DEFINE new1 == [Fresh EXCEPT !.mode = mode, !.lim = l, !.pc = pc, !.ret = ret,
                                 !.most = IF p \in Big THEN Size(box) ELSE 0]
<1>1. Size(box) \in Nat
  BY SizeTypes DEF Shared
<1>2. Alone(p) /\ proc'[p] = new1
  BY DEF Start, Local, Alone, ProcsAre
<1>3. /\ Shape(new1) /\ new1.pc = pc /\ new1.ret = ret /\ new1.lim = l /\ new1.seen = {}
      /\ new1.most = IF p \in Big THEN Size(box) ELSE 0
  <2>1. Shape(new1)
    BY FreshTypes DEF Shape
  <2>2. /\ new1.pc = pc /\ new1.ret = ret /\ new1.lim = l /\ new1.seen = {}
        /\ new1.most = IF p \in Big THEN Size(box) ELSE 0
    BY DEF Fresh
  <2> QED
    BY <2>1, <2>2
<1> HIDE DEF new1
<1>4. Typed(new1)
  BY <1>1, <1>3, FS_EmptySet DEF Typed
<1>5. Returns(new1) /\ Measured(new1, p)
  BY <1>3 DEF Returns, Measured, Recalc, Callers
<1>6. ~Past(proc[p])
  BY DEF Start, At, Past, Local, Sound, Returns
<1>7. Bounces(new1.pc, p) => Size(box) <= new1.most
  BY <1>1, <1>3 DEF Bounces
<1> QED
  BY <1>2, <1>3, <1>4, <1>5, <1>6, <1>7 DEF Step, Sound

LEMMA BeginStep ==
  ASSUME Local, Shared, NEW p \in Procs, Deliver(p) \/ Alias(p) \/ Login(p) \/ SetQuota(p)
  PROVE  Step(p)
<1>1. quota \in Nat /\ \A l \in Limits : l \in Nat
  BY LimitAssumption DEF Shared
<1>2. CASE Deliver(p)
  BY <1>1, <1>2, StartStep DEF Deliver
<1>3. CASE Alias(p)
  BY <1>1, <1>3, StartStep DEF Alias
<1>4. CASE Login(p)
  BY <1>1, <1>4, StartStep DEF Login
<1>5. CASE SetQuota(p)
  BY <1>1, <1>5, StartStep DEF SetQuota
<1> QED
  BY <1>2, <1>3, <1>4, <1>5

LEMMA CallStep ==
  ASSUME Local, Shared, NEW p \in Procs, NEW force, NEW ret, Call(p, force, ret),
         ret \in Callers, ret = "over2" => force = 2, ret = "bounce" => Measured(proc'[p], p),
         Past(proc[p]) => ret = "create", p \in Big => Bounces(proc[p].pc, p)
  PROVE  Step(p)
<1> DEFINE pc == IF force = 2 THEN "count" ELSE "stat"
<1>1. /\ Moves(p, pc, ret)
      /\ proc'[p].seen = proc[p].seen
  BY CallMoves DEF Local, Sound
<1>2. Returns(proc'[p]) /\ (Past(proc[p]) => Past(proc'[p]))
  BY <1>1 DEF Moves, Returns, Recalc, Past
<1>3. Measured(proc'[p], p)
  BY <1>1 DEF Moves, Measured
<1>4. (Bounces(pc, p) => Bounces(proc[p].pc, p)) /\ pc \notin {"link", "write"}
  BY DEF Bounces
<1> HIDE DEF pc
<1> QED
  BY <1>1, <1>2, <1>3, <1>4, MovesStep

LEMMA ReadQuotaStep ==
  ASSUME Local, Shared, File, NEW p \in Procs, ReadQuota(p)
  PROVE  Step(p)
<1> DEFINE r == proc'[p]
<1>0. Shape(proc[p]) /\ Typed(proc[p]) /\ proc[p].pc = "auto" /\ proc[p].ret = "none"
  BY DEF ReadQuota, At, Local, Sound, Returns
<1>1. quota \in Nat
  BY LimitAssumption DEF Shared
<1>2. text # <<>> => parse_quota(Head(text)) \in Nat
  <2> SUFFICES ASSUME text # <<>> PROVE parse_quota(Head(text)) \in Nat
    OBVIOUS
  <2>1. 1 \in DOMAIN text /\ Head(text) = text[1] /\ text[1] \in Lines
    BY DEF File
  <2>2. IsFiniteSet(text[1].ids) /\ text[1].limit \in Nat
    BY <2>1 DEF File, Lines
  <2> QED
    BY <2>1, <2>2, SizeTypes DEF parse_quota
<1>3. Alone(p)
  BY DEF ReadQuota, Local, Alone, ProcsAre
<1>4. \E l \in Nat :
        r \in {[proc[p] EXCEPT !.lim = 0, !.pc = "create"],
               [proc[p] EXCEPT !.lim = l, !.pc = "stat", !.ret = "over1"],
               [proc[p] EXCEPT !.pc = "count", !.ret = "gaveup", !.empty = TRUE],
               [proc[p] EXCEPT !.pc = "count", !.ret = "auto", !.empty = TRUE]}
  <2>1. CASE ~exists
    BY <1>1, <2>1 DEF ReadQuota, Local, ProcsAre
  <2>2. CASE exists /\ text # <<>>
    BY <1>2, <2>2 DEF ReadQuota, Local, ProcsAre
  <2>3. CASE exists /\ text = <<>>
    BY <2>3 DEF ReadQuota, Local, ProcsAre
  <2> QED
    BY <2>1, <2>2, <2>3
<1>5. /\ Shape(r) /\ r.seen = proc[p].seen /\ r.most = proc[p].most /\ r.lim \in Nat
      /\ \/ r.pc = "create"
         \/ r.pc = "stat" /\ r.ret = "over1"
         \/ r.pc = "count" /\ r.ret \in {"auto", "gaveup"}
      /\ r.pc = "create" => r.ret = "none"
  <2>1. PICK l \in Nat :
          r \in {[proc[p] EXCEPT !.lim = 0, !.pc = "create"],
                 [proc[p] EXCEPT !.lim = l, !.pc = "stat", !.ret = "over1"],
                 [proc[p] EXCEPT !.pc = "count", !.ret = "gaveup", !.empty = TRUE],
                 [proc[p] EXCEPT !.pc = "count", !.ret = "auto", !.empty = TRUE]}
    BY <1>4
  <2> HIDE DEF r
  <2>2. CASE r = [proc[p] EXCEPT !.lim = 0, !.pc = "create"]
    BY <1>0, <2>2 DEF Shape
  <2>3. CASE r = [proc[p] EXCEPT !.lim = l, !.pc = "stat", !.ret = "over1"]
    BY <1>0, <2>3 DEF Shape
  <2>4. CASE r = [proc[p] EXCEPT !.pc = "count", !.ret = "gaveup", !.empty = TRUE]
    BY <1>0, <2>4 DEF Shape, Typed
  <2>5. CASE r = [proc[p] EXCEPT !.pc = "count", !.ret = "auto", !.empty = TRUE]
    BY <1>0, <2>5 DEF Shape, Typed
  <2> QED
    BY <2>1, <2>2, <2>3, <2>4, <2>5
<1> HIDE DEF r
<1>6. Typed(r) /\ Returns(r) /\ Measured(r, p)
  BY <1>0, <1>5 DEF Typed, Returns, Measured, Recalc, Callers
<1>7. ~Past(proc[p])
  BY <1>0 DEF Past
<1>8. Bounces(r.pc, p) => Size(box) <= r.most
  BY <1>0, <1>5 DEF Bounces, Ended, Local, Sound
<1> QED
  BY <1>3, <1>5, <1>6, <1>7, <1>8 DEF Step, Sound, r

LEMMA ReturnStep ==
  ASSUME Local, Shared, NEW p \in Procs, proc[p].pc \in {"stat", "check", "write"},
         Moves(p, proc[p].ret, "none"), proc'[p].seen = {},
         proc[p].ret = "over2" => proc'[p].val = proc[p].msize
  PROVE  Step(p)
<1>1. proc[p].ret \in Callers /\ Measured(proc[p], p)
  BY DEF Local, Sound, Returns, Recalc
<1>2. Returns(proc'[p])
  BY <1>1 DEF Moves, Returns, Recalc, Callers
<1>3. Measured(proc'[p], p)
  BY <1>1 DEF Moves, Measured, Callers
<1>4. Past(proc[p]) => Past(proc'[p])
  BY DEF Moves, Past
<1>5. (Bounces(proc[p].ret, p) => Bounces(proc[p].pc, p)) /\ proc[p].ret \notin {"link", "write"}
  BY <1>1 DEF Bounces, Ended, Callers
<1> QED
  BY <1>2, <1>3, <1>4, <1>5, MovesStep

LEMMA RecalcStep ==
  ASSUME Local, Shared, NEW p \in Procs,
         Stat(p) \/ Check(p) \/ Count(p) \/ Trunc(p) \/ Write(p)
  PROVE  Step(p)
<1>0. /\ ProcsAre /\ Shape(proc[p]) /\ Typed(proc[p]) /\ Returns(proc[p]) /\ Measured(proc[p], p)
      /\ Bounces(proc[p].pc, p) => Size(box) <= proc[p].most
  BY DEF Local, Sound
<1>1. CASE Stat(p) /\ proc' = Return(p, proc[p].msize)
  <2>1. proc[p].pc = "stat" /\ proc[p].ret # "over2"
    BY <1>0, <1>1 DEF Stat, At, Returns
  <2> QED
    BY <1>0, <1>1, <2>1, ReturnMoves, ReturnStep
<1>2. CASE (Stat(p) /\ proc' # Return(p, proc[p].msize)) \/ Trunc(p)
  <2>1. PICK pc : /\ \/ proc[p].pc = "stat" /\ pc \in {"check", "count"}
                     \/ proc[p].pc = "trunc" /\ pc = "write" /\ text' = <<>>
                  /\ Moves(p, pc, proc[p].ret)
                  /\ proc'[p].seen = proc[p].seen /\ proc'[p].msize = proc[p].msize
    <3>1. CASE Trunc(p)
      BY <1>0, <3>1, GoMoves DEF Trunc, At
    <3>2. CASE Stat(p) /\ proc' # Return(p, proc[p].msize)
      <4>1. \E pc \in {"check", "count"} : proc' = [proc EXCEPT ![p].pc = pc]
        BY <3>2 DEF Stat
      <4>2. PICK pc \in {"check", "count"} : proc' = [proc EXCEPT ![p].pc = pc]
        BY <4>1
      <4>3. /\ Moves(p, pc, proc[p].ret)
            /\ proc'[p].seen = proc[p].seen /\ proc'[p].msize = proc[p].msize
        BY <1>0, <4>2 DEF Moves, Alone, ProcsAre, Shape
      <4> QED
        BY <3>2, <4>3 DEF Stat, At
    <3> QED
      BY <1>2, <3>1, <3>2
  <2>2. Returns(proc'[p])
    BY <1>0, <2>1 DEF Moves, Returns, Recalc
  <2>3. Measured(proc'[p], p)
    BY <1>0, <2>1 DEF Moves, Measured, Returns
  <2>4. (Past(proc[p]) => Past(proc'[p])) /\ (Bounces(pc, p) => Bounces(proc[p].pc, p))
    BY <2>1 DEF Moves, Past, Bounces, Ended
  <2> QED
    BY <2>1, <2>2, <2>3, <2>4, MovesStep
<1>3. CASE Check(p)
  <2>1. Moves(p, proc[p].ret, "none") /\ proc'[p].seen = {}
    BY <1>0, <1>3 DEF Check, Return, Moves, Alone, ProcsAre, Shape
  <2>2. proc[p].pc = "check" /\ proc[p].ret # "over2"
    BY <1>0, <1>3 DEF Check, At, Returns
  <2> QED
    BY <2>1, <2>2, ReturnStep
<1>4. CASE Count(p)
  <2>1. /\ Moves(p, "trunc", proc[p].ret) /\ proc[p].pc = "count"
        /\ proc'[p].seen = box /\ proc'[p].msize = Size(box)
    BY <1>0, <1>4 DEF Count, At, Moves, Alone, ProcsAre, Shape
  <2>2. Returns(proc'[p]) /\ (Past(proc[p]) => Past(proc'[p]))
    BY <1>0, <2>1 DEF Moves, Returns, Recalc, Past
  <2>3. Size(box) \in Nat
    BY SizeTypes DEF Shared
  <2>4. Measured(proc'[p], p)
    BY <1>0, <2>1, <2>3 DEF Moves, Measured, Bounces, Ended
  <2>5. Bounces("trunc", p) => Bounces(proc[p].pc, p)
    BY <2>1 DEF Bounces, Ended
  <2> QED
    BY <2>1, <2>2, <2>4, <2>5, MovesStep
<1>5. CASE Write(p)
  <2>1. /\ Moves(p, proc[p].ret, "none") /\ proc'[p].seen = {}
        /\ proc[p].ret = "over2" => proc'[p].val = proc[p].msize
    BY <1>0, <1>5 DEF Write, Return, Moves, Alone, ProcsAre, Shape
  <2> QED
    BY <1>5, <2>1, ReturnStep DEF Write, At
<1> QED
  BY <1>1, <1>2, <1>3, <1>4, <1>5

LEMMA GoStep ==
  ASSUME Local, Shared, NEW p \in Procs, NEW pc, Go(p, pc),
         \/ pc = "create"
         \/ pc \in {"bounce", "warned"} /\ proc[p].ret = pc
         \/ pc = "append" /\ proc[p].ret = "none",
         Past(proc[p]) => pc = "create",
         p \in Big => Bounces(proc[p].pc, p),
         proc[p].ret # "over2"
  PROVE  Step(p)
<1>0. /\ ProcsAre /\ Shape(proc[p]) /\ Typed(proc[p]) /\ Returns(proc[p]) /\ Measured(proc[p], p)
  BY DEF Local, Sound
<1>1. /\ Moves(p, pc, proc[p].ret)
      /\ proc'[p].msize = proc[p].msize /\ proc'[p].seen = proc[p].seen
  BY <1>0, GoMoves
<1>2. Returns(proc'[p]) /\ (Past(proc[p]) => Past(proc'[p]))
  BY <1>1 DEF Moves, Returns, Recalc, Past
<1>3. Measured(proc'[p], p)
  BY <1>0, <1>1 DEF Moves, Measured
<1>4. Bounces(pc, p) => Bounces(proc[p].pc, p)
  BY DEF Bounces
<1> QED
  BY <1>1, <1>2, <1>3, <1>4, MovesStep

LEMMA AnswerStep ==
  ASSUME Local, Shared, NEW p \in Procs, Warned(p) \/ Locked(p) \/ Over1(p) \/ Over2(p)
  PROVE  Step(p)
<1>0. /\ Typed(proc[p]) /\ Returns(proc[p]) /\ Measured(proc[p], p)
      /\ proc[p].pc \in {"warned", "locked", "over1", "over2"}
  BY DEF Local, Sound, Warned, Locked, Over1, Over2, At
<1>1. ~Past(proc[p]) /\ proc[p].ret # "over2" /\ (p \in Big => Bounces(proc[p].pc, p))
  BY <1>0 DEF Returns, Past, Bounces, Ended
<1>2. Fits(p) /\ proc[p].pc \in {"over1", "over2"} => Step(p)
  <2>1. Go(p, "append") /\ proc[p].pc \in {"over1", "over2"} => Step(p)
    BY <1>0, <1>1, GoStep DEF Returns
  <2> QED
    BY <2>1, FinishStep DEF Fits
<1>3. CASE Warned(p)
  BY <1>1, <1>3, CallStep DEF Warned, Callers
<1>4. CASE Locked(p)
  BY <1>1, <1>4, CallStep, FinishStep DEF Locked, Callers
<1>5. CASE Over1(p)
  BY <1>0, <1>1, <1>2, <1>5, CallStep DEF Over1, At, Callers
<1>6. CASE Over2(p)
  <2>1. proc[p].pc = "over2" /\ proc[p].ret = "none"
    BY <1>0, <1>6 DEF Over2, At, Returns
  <2>2. CASE Fits(p) \/ Finish(p)
    BY <1>2, <2>1, <2>2, FinishStep
  <2>3. CASE p \in Big /\ OverQuota(p) /\ proc[p].mode # "login" /\ Call(p, 0, "bounce")
    <3>1. /\ proc[p].val \in Nat /\ proc[p].val <= proc[p].most
          /\ proc[p].most \in Nat /\ proc[p].lim \in Nat /\ Size({p}) \in Nat
      BY <1>0, <2>1, <2>3, SizeTypes DEF Measured, Typed
    <3>2. proc[p].val + Size({p}) > proc[p].lim
      BY <2>3 DEF OverQuota, cur_msgsize
    <3>3. proc[p].most + Size({p}) > proc[p].lim
      BY <3>1, <3>2
    <3>4. Moves(p, "stat", "bounce")
      BY <2>3, CallMoves DEF Local, Sound
    <3>5. Measured(proc'[p], p)
      BY <2>3, <3>3, <3>4 DEF Measured, Moves
    <3> QED
      BY <1>1, <2>3, <3>5, CallStep DEF Callers
  <2>4. CASE Go(p, "append")
    BY <1>1, <2>1, <2>4, GoStep
  <2> QED
    BY <1>6, <2>2, <2>3, <2>4 DEF Over2
<1> QED
  BY <1>3, <1>4, <1>5, <1>6

LEMMA BounceStep ==
  ASSUME Local, Shared, NEW p \in Procs, Bounce(p)
  PROVE  Step(p)
<1> DEFINE r == [Fresh EXCEPT !.pc = "bounced", !.mode = proc[p].mode,
                              !.lim = proc[p].lim, !.most = proc[p].most]
<1>1. Typed(proc[p]) /\ Measured(proc[p], p) /\ proc[p].pc = "bounce"
  BY DEF Local, Sound, Bounce, At
<1>2. Alone(p) /\ proc'[p] = r
  BY DEF Bounce, Local, Alone, ProcsAre
<1>3. Shape(r)
  BY FreshTypes DEF Shape
<1>4. /\ r.pc = "bounced" /\ r.lim = proc[p].lim /\ r.most = proc[p].most
      /\ r.ret = "none" /\ r.seen = {}
  BY DEF Fresh
<1> HIDE DEF r
<1>5. Typed(r) /\ Returns(r) /\ Measured(r, p)
  BY <1>1, <1>4, FS_EmptySet DEF Typed, Returns, Measured, Recalc
<1>6. ~Bounces(r.pc, p) /\ Past(r)
  BY <1>4 DEF Bounces, Ended, Past
<1> QED
  BY <1>2, <1>3, <1>4, <1>5, <1>6 DEF Step, Sound

LEMMA AppendStep ==
  ASSUME Local, Shared, NEW p \in Procs, proc[p].pc = "append", Go(p, "create") \/ Call(p, 0, "create")
  PROVE  Step(p)
<1>1. proc[p].ret = "none" /\ (p \in Big => Bounces(proc[p].pc, p))
  BY DEF Local, Sound, Returns, Bounces, Ended
<1>2. CASE Go(p, "create")
  BY <1>1, <1>2, GoStep
<1>3. CASE Call(p, 0, "create")
  BY <1>1, <1>3, CallStep DEF Callers
<1> QED
  BY <1>2, <1>3

LEMMA FailStep ==
  ASSUME Local, Shared, NEW p \in Procs, Fail(p)
  PROVE  Step(p)
<1>1. CASE Finish(p)
  BY <1>1, FinishStep
<1>2. CASE proc[p].pc = "append" /\ (Go(p, "create") \/ Call(p, 0, "create"))
  BY <1>2, AppendStep
<1>3. ASSUME proc[p].pc \in {"trunc", "write"} PROVE p \in Big => Bounces(proc[p].pc, p)
  BY <1>3 DEF Bounces, Ended
<1>4. CASE /\ proc[p].pc \in {"trunc", "write"} /\ proc[p].ret \in {"bounce", "create", "warned"}
           /\ Go(p, proc[p].ret)
  <2>1. Past(proc[p]) => proc[p].ret = "create"
    BY <1>4 DEF Past
  <2> QED
    BY <1>3, <1>4, <2>1, GoStep
<1>5. CASE /\ proc[p].pc \in {"trunc", "write"} /\ proc[p].ret = "locked" /\ Call(p, 0, "over1")
  <2>1. ~Past(proc[p])
    BY <1>5 DEF Past
  <2> QED
    BY <1>3, <1>5, <2>1, CallStep DEF Callers
<1> QED
  BY <1>1, <1>2, <1>4, <1>5 DEF Fail

\* Everything a process does but storing its message.
LEMMA EveryStep ==
  ASSUME Local, Shared, File, NEW p \in Procs,
         \/ Deliver(p) \/ Alias(p) \/ Login(p) \/ Warned(p) \/ SetQuota(p)
         \/ Locked(p) \/ ReadQuota(p) \/ GaveUp(p)
         \/ Stat(p) \/ Check(p) \/ Count(p) \/ Trunc(p) \/ Write(p) \/ End(p)
         \/ Over1(p) \/ Over2(p) \/ Bounce(p) \/ AppendLine(p) \/ Link(p)
         \/ Fail(p) \/ Crash(p)
  PROVE  Step(p) /\ box' \subseteq box
<1>1. CASE Deliver(p) \/ Alias(p) \/ Login(p) \/ SetQuota(p)
  BY <1>1, BeginStep DEF Deliver, Alias, Login, SetQuota, Start
<1>2. CASE Warned(p) \/ Locked(p) \/ Over1(p) \/ Over2(p)
  BY <1>2, AnswerStep DEF Warned, Locked, Over1, Over2
<1>3. CASE Stat(p) \/ Check(p) \/ Count(p) \/ Trunc(p) \/ Write(p)
  BY <1>3, RecalcStep DEF Stat, Check, Count, Trunc, Write
<1>4. CASE GaveUp(p) \/ End(p) \/ Link(p) \/ Crash(p)
  BY <1>4, FinishStep DEF GaveUp, End, Link, Crash
<1>5. CASE ReadQuota(p)
  BY <1>5, ReadQuotaStep DEF ReadQuota
<1>6. CASE Bounce(p)
  BY <1>6, BounceStep DEF Bounce
<1>7. CASE AppendLine(p)
  BY <1>7, AppendStep DEF AppendLine, At
<1>8. CASE Fail(p)
  BY <1>8, FailStep DEF Fail
<1> QED
  BY <1>1, <1>2, <1>3, <1>4, <1>5, <1>6, <1>7, <1>8

\* A message is stored: the usage grows, and with it what is remembered of it.
LEMMA CreateStep ==
  ASSUME Local, Shared, NEW p \in Procs, Create(p)
  PROVE  /\ Local' /\ IsFiniteSet(box') /\ box' \subseteq box \cup {p} /\ Past(proc'[p])
         /\ \A m \in Procs : Past(proc[m]) => Past(proc'[m])
         /\ \A o \in Procs : At(o, "write")' => At(o, "write") /\ proc'[o].seen = proc[o].seen
<1>1. CASE Finish(p) /\ UNCHANGED box
  <2>1. Step(p) /\ proc'[p].pc = "done"
    BY <1>1, FinishStep
  <2>2. Past(proc'[p])
    BY <2>1 DEF Past
  <2>3. \A o \in Procs : At(o, "write")' => At(o, "write") /\ proc'[o].seen = proc[o].seen
    BY <2>1 DEF Step, Alone, At
  <2> QED
    BY <1>1, <2>1, <2>2, <2>3, StepLocal, StepPast DEF Shared
<1>2. CASE ~(Finish(p) /\ UNCHANGED box)
  <2> DEFINE n == Size(box')
             me(o) == IF o = p THEN [Fresh EXCEPT !.pc = "link"] ELSE proc[o]
             up(o) == IF Bounces(me(o).pc, o) /\ me(o).most < n THEN [me(o) EXCEPT !.most = n] ELSE me(o)
  <2>1. box' = box \cup {p} /\ proc' = [o \in Procs |-> up(o)]
    BY <1>2 DEF Create
  <2>2. IsFiniteSet(box') /\ n \in Nat
    BY <2>1, FS_AddElement, SizeTypes DEF Shared
  <2>3. /\ Shape(me(p)) /\ Typed(me(p)) /\ me(p).pc = "link" /\ me(p).ret = "none" /\ me(p).seen = {}
    BY FS_EmptySet DEF Fresh, Shape, Typed
  <2> HIDE DEF n
  <2>4. ASSUME NEW o \in Procs PROVE Shape(me(o)) /\ Typed(me(o)) /\ Returns(me(o)) /\ Measured(me(o), o)
    <3>1. CASE o = p
      BY <2>3, <3>1 DEF Returns, Measured, Recalc
    <3>2. CASE o # p
      BY <3>2 DEF Local, Sound
    <3> QED
      BY <3>1, <3>2
  <2>5. ASSUME NEW o \in Procs
        PROVE  /\ Shape(up(o)) /\ up(o).pc = me(o).pc /\ up(o).ret = me(o).ret /\ up(o).seen = me(o).seen
               /\ up(o).lim = me(o).lim /\ up(o).val = me(o).val /\ up(o).msize = me(o).msize
               /\ up(o).most \in Nat /\ up(o).most >= me(o).most
               /\ Bounces(me(o).pc, o) => n <= up(o).most
    <3>1. Shape(me(o)) /\ me(o).most \in Nat
      BY <2>4 DEF Typed
    <3> HIDE DEF me
    <3> QED
      BY <2>2, <3>1 DEF Shape
  <2> HIDE DEF up
  <2>6. ASSUME NEW o \in Procs PROVE Sound(proc'[o], o, n)
    <3>1. proc'[o] = up(o)
      BY <2>1
    <3>2. /\ me(o).lim \in Nat /\ me(o).most \in Nat /\ Size({o}) \in Nat
          /\ Measured(me(o), o) /\ Returns(me(o)) /\ Typed(me(o))
      BY <2>4, SizeTypes DEF Typed
    <3> HIDE DEF me
    <3>3. Measured(up(o), o)
      <4>1. /\ o \in Big /\ up(o).pc = "over2" => up(o).val \in Nat /\ up(o).val <= up(o).most
            /\ o \in Big /\ up(o).ret = "over2" /\ up(o).pc # "count" =>
                 up(o).msize \in Nat /\ up(o).msize <= up(o).most
        BY <2>5, <3>2 DEF Measured
      <4>2. up(o).ret = "bounce" \/ up(o).pc \in {"bounce", "bounced"} =>
              o \in Big /\ up(o).most + Size({o}) > up(o).lim
        BY <2>5, <3>2 DEF Measured
      <4> QED
        BY <4>1, <4>2 DEF Measured
    <3>4. Returns(up(o)) /\ Typed(up(o))
      BY <2>5, <3>2 DEF Returns, Typed
    <3> QED
      BY <2>5, <3>1, <3>3, <3>4 DEF Sound
  <2>7. Past(proc'[p])
    BY <2>1, <2>3, <2>5 DEF Past
  <2>8. \A m \in Procs : Past(proc[m]) => Past(proc'[m])
    BY <2>1, <2>5, <2>7 DEF Past
  <2>9. ASSUME NEW o \in Procs, NEW m \in proc'[o].seen PROVE Past(proc'[m])
    <3>1. m \in me(o).seen /\ m \in Procs
      BY <2>1, <2>5, <2>6, <2>9 DEF Sound, Typed
    <3>2. m \in proc[o].seen
      BY <2>3, <3>1
    <3> QED
      BY <2>8, <3>1, <3>2 DEF Local
  <2>10. Local'
    <3>1. ProcsAre'
      BY <2>1 DEF ProcsAre
    <3> QED
      BY <2>6, <2>9, <3>1 DEF Local, n
  <2>11. \A o \in Procs : At(o, "write")' => At(o, "write") /\ proc'[o].seen = proc[o].seen
    BY <2>1, <2>3, <2>5 DEF At
  <2> QED
    BY <2>1, <2>2, <2>7, <2>8, <2>10, <2>11
<1> QED
  BY <1>1, <1>2

LEMMA CreatePcs ==
  ASSUME Local, NEW p \in Procs, Create(p)
  PROVE  /\ \A m \in Procs \ {p} : proc'[m].pc = proc[m].pc
         /\ \/ proc'[p].pc = "link" /\ box' = box \cup {p}
            \/ proc'[p].pc = "done" /\ box' = box
<1>1. CASE Finish(p) /\ UNCHANGED box
  BY <1>1, FinishMoves DEF Alone, Local
<1>2. CASE ~(Finish(p) /\ UNCHANGED box)
  <2>1. /\ box' = box \cup {p}
        /\ proc' = [q \in Procs |-> LET me == IF q = p THEN [Fresh EXCEPT !.pc = "link"] ELSE proc[q]
                                IN IF Bounces(me.pc, q) /\ me.most < Size(box')
                                   THEN [me EXCEPT !.most = Size(box')] ELSE me]
    BY <1>2 DEF Create
  <2>2. ASSUME NEW m \in Procs \ {p} PROVE proc'[m].pc = proc[m].pc
    <3>1. Shape(proc[m])
      BY DEF Local, Sound
    <3>2. proc'[m] \in {proc[m], [proc[m] EXCEPT !.most = Size(box')]}
      BY <2>1
    <3> QED
      BY <3>1, <3>2 DEF Shape
  <2>3. proc'[p].pc = "link"
    <3>1. [Fresh EXCEPT !.pc = "link"].pc = "link" /\ ~Bounces("link", p)
      BY DEF Fresh, Bounces
    <3>2. proc'[p] = [Fresh EXCEPT !.pc = "link"]
      BY <2>1, <3>1
    <3> QED
      BY <3>1, <3>2
  <2> QED
    BY <2>1, <2>2, <2>3
<1> QED
  BY <1>1, <1>2

-----------------------------------------------------------------------------
(* The Maildir                                                             *)

LEMMA SharedNext ==
  ASSUME Local, Shared, File, [Next]_vars
  PROVE  Shared'
<1>q. \A l \in Limits : l \in Nat
  BY LimitAssumption
<1>1. ASSUME NEW p \in Procs, Step(p), proc[p].pc # "done", box' \subseteq box, new' = new, new \subseteq box',
             \A m \in box : At(m, "link") /\ m # p => m \in box',
             exists' \in BOOLEAN, old' \in BOOLEAN, flag' \in BOOLEAN, quota' \in Limits,
             faults' \in 0..MaxFaults
      PROVE  Shared'
  <2>1. IsFiniteSet(box') /\ box' \subseteq Procs
    BY <1>1, SizeTypes DEF Shared
  <2>2. \A m \in box' : Past(proc'[m])
    BY <1>1, <2>1, StepPast DEF Shared
  <2>3. \A m \in Procs : At(m, "link")' => m \in box'
    BY <1>1 DEF Shared, Step, Alone, At
  <2>4. \A m \in new' : At(m, "done")'
    BY <1>1 DEF Shared, Step, Alone, At
  <2> QED
    BY <1>1, <2>1, <2>2, <2>3, <2>4 DEF Shared
<1>2. ASSUME NEW p \in Procs, Deliver(p) \/ Alias(p) \/ Login(p) \/ SetQuota(p) PROVE Shared'
  <2>1. /\ UNCHANGED <<box, new, maildirsize, flag, faults>> /\ quota' \in Limits /\ proc[p].pc # "done"
    BY <1>2 DEF Deliver, Alias, Login, SetQuota, Start, At, Shared
  <2>2. Step(p)
    BY <1>2, EveryStep
  <2> QED
    BY <1>1, <2>1, <2>2 DEF Shared
<1>3. ASSUME NEW p \in Procs, Warned(p) \/ Locked(p) \/ Over1(p) \/ Over2(p) PROVE Shared'
  <2>1. /\ UNCHANGED <<box, new, maildirsize, quota, faults>> /\ flag' \in BOOLEAN /\ proc[p].pc # "done"
    <3>1. flag \in BOOLEAN
      BY DEF Shared
    <3>2. flag' \in {flag, FALSE, (flag \/ proc[p].val > proc[p].lim)}
      BY <1>3, Zenon DEF Warned, Locked, Over1, Over2, Fits
    <3> QED
      BY <1>3, <3>1, <3>2 DEF Warned, Locked, Over1, Over2, At
  <2>2. Step(p)
    BY <1>3, EveryStep
  <2> QED
    BY <1>1, <2>1, <2>2 DEF Shared
<1>4. ASSUME NEW p \in Procs,
             \/ ReadQuota(p) \/ GaveUp(p) \/ Stat(p) \/ Check(p) \/ Count(p) \/ Trunc(p)
             \/ Write(p) \/ End(p) \/ Bounce(p) \/ AppendLine(p)
      PROVE  Shared'
  <2>1. /\ UNCHANGED <<box, new, quota, flag, faults>> /\ proc[p].pc # "done"
        /\ exists' \in BOOLEAN /\ old' \in BOOLEAN
    BY <1>4 DEF ReadQuota, GaveUp, Stat, Check, Count, Trunc, Write, End, Bounce, AppendLine, At, Shared
  <2>2. Step(p)
    BY <1>4, EveryStep
  <2> QED
    BY <1>1, <2>1, <2>2 DEF Shared
<1>5. ASSUME NEW p \in Procs, Fail(p) \/ Crash(p) PROVE Shared'
  <2>1. /\ UNCHANGED <<new, maildirsize, quota>> /\ proc[p].pc # "done"
        /\ flag' \in {flag, FALSE} /\ box' \in {box, box \ {p}}
    BY <1>5 DEF Fail, Crash, Ended
  <2>2. faults' \in 0..MaxFaults
    BY <1>5, BoundAssumption DEF Shared, Fail, Crash
  <2>3. Step(p)
    BY <1>5, EveryStep
  <2>4. p \notin new
    BY <2>1 DEF Shared, At
  <2>5. new \subseteq box' /\ \A m \in box : At(m, "link") /\ m # p => m \in box'
    BY <2>1, <2>4 DEF Shared
  <2> QED
    BY <1>1, <2>1, <2>2, <2>3, <2>5 DEF Shared
<1>6. ASSUME NEW p \in Procs, Link(p) PROVE Shared'
  <2>1. /\ UNCHANGED <<box, maildirsize, quota, flag, faults>> /\ new' = new \cup {p}
        /\ Finish(p) /\ proc[p].pc = "link" /\ p \in box
    BY <1>6 DEF Link, At, Shared
  <2>2. Step(p) /\ proc'[p].pc = "done"
    BY <2>1, FinishStep
  <2>3. \A m \in box' : Past(proc'[m])
    BY <2>1, <2>2, StepPast DEF Shared
  <2>4. \A m \in Procs : At(m, "link")' => m \in box'
    BY <2>1, <2>2 DEF Shared, Step, Alone, At
  <2>5. \A m \in new' : At(m, "done")'
    BY <2>1, <2>2 DEF Shared, Step, Alone, At
  <2> QED
    BY <2>1, <2>3, <2>4, <2>5 DEF Shared
<1>7. ASSUME NEW p \in Procs, Create(p) PROVE Shared'
  <2>1. /\ IsFiniteSet(box') /\ Past(proc'[p]) /\ box' \subseteq box \cup {p}
        /\ \A m \in Procs : Past(proc[m]) => Past(proc'[m])
    BY <1>7, CreateStep
  <2>2. UNCHANGED <<new, maildirsize, quota, flag, faults>> /\ proc[p].pc = "create" /\ p \notin new
    BY <1>7 DEF Create, At, Shared
  <2>3. /\ \A m \in Procs \ {p} : proc'[m].pc = proc[m].pc
        /\ \/ proc'[p].pc = "link" /\ box' = box \cup {p}
           \/ proc'[p].pc = "done" /\ box' = box
    BY <1>7, CreatePcs
  <2>4. box' \subseteq Procs /\ new' \subseteq box'
    BY <2>2, <2>3 DEF Shared
  <2>5. \A m \in box' : Past(proc'[m])
    BY <2>1 DEF Shared
  <2>6. \A m \in Procs : At(m, "link")' => m \in box'
    BY <2>3 DEF Shared, At
  <2>7. \A m \in new' : At(m, "done")'
    BY <2>2, <2>3 DEF Shared, At
  <2> QED
    BY <2>1, <2>2, <2>4, <2>5, <2>6, <2>7 DEF Shared
<1>8. ASSUME NEW m \in Procs, Remove(m) PROVE Shared'
  <2>1. /\ m \in new /\ new' = new \ {m} /\ box' = box \ {m} /\ proc[m].pc = "done"
        /\ UNCHANGED <<maildirsize, quota, flag, proc, faults>>
    BY <1>8 DEF Remove, Shared, At
  <2>2. IsFiniteSet(box')
    BY <2>1, SizeTypes DEF Shared
  <2> QED
    BY <2>1, <2>2 DEF Shared, At
<1>9. CASE Age \/ UNCHANGED vars
  BY <1>9 DEF Age, vars, Shared, At
<1> QED
  BY <1>2, <1>3, <1>4, <1>5, <1>6, <1>7, <1>8, <1>9 DEF Next

-----------------------------------------------------------------------------
(* maildirsize                                                             *)

\* What is written where the file starts, and what it then holds.
LEMMA Overwrite ==
  ASSUME NEW S, NEW s \in Seq(S), NEW out \in Seq(S)
  PROVE  LET t == out \o SubSeq(s, Len(out) + 1, Len(s))
         IN /\ t \in Seq(S)
            /\ Len(t) >= Len(out)
            /\ \A i \in DOMAIN t : \/ i \in DOMAIN out /\ t[i] = out[i]
                                   \/ i > Len(out) /\ i \in DOMAIN s /\ t[i] = s[i]
<1> DEFINE t == out \o SubSeq(s, Len(out) + 1, Len(s))
           k == Len(out)
           u == SubSeq(s, k + 1, Len(s))
<1>1. k \in Nat /\ Len(s) \in Nat
  OBVIOUS
<1>2. /\ u \in Seq(S) /\ Len(u) = IF k + 1 <= Len(s) THEN Len(s) - k ELSE 0
      /\ \A i \in 1..(Len(s) - k) : u[i] = s[k + i]
  <2>1. k + 1 \in Int /\ Len(s) \in Int /\ \A i \in (k + 1)..Len(s) : s[i] \in S
    BY <1>1
  <2>2. /\ u \in Seq(S) /\ Len(u) = IF k + 1 <= Len(s) THEN Len(s) - (k + 1) + 1 ELSE 0
        /\ \A i \in 1..(Len(s) - (k + 1) + 1) : u[i] = s[(k + 1) + i - 1]
    BY <2>1, SubSeqProperties
  <2> QED
    BY <1>1, <2>2
<1> HIDE DEF u
<1>3. /\ t = out \o u /\ t \in Seq(S) /\ Len(t) = k + Len(u) /\ Len(u) \in Nat
      /\ \A i \in 1..Len(t) : t[i] = IF i <= k THEN out[i] ELSE u[i - k]
  BY <1>2 DEF u
<1>4. ASSUME NEW i \in 1..Len(t)
      PROVE  \/ i \in DOMAIN out /\ t[i] = out[i]
             \/ i > Len(out) /\ i \in DOMAIN s /\ t[i] = s[i]
  <2>1. CASE i <= k
    BY <1>1, <1>3, <2>1
  <2>2. CASE i > k
    <3>1. i - k \in 1..(Len(s) - k) /\ i \in 1..Len(s)
      BY <1>1, <1>2, <1>3, <2>2
    <3>2. u[i - k] = s[k + (i - k)] /\ k + (i - k) = i
      BY <1>1, <1>2, <3>1
    <3> QED
      BY <1>1, <1>3, <2>2, <3>1, <3>2
  <2> QED
    BY <1>1, <2>1, <2>2
<1> QED
  BY SMTT(30), <1>1, <1>3, <1>4

\* The write of recalc_quota(): a header, then the sum if there is one, over
\* what was there; behind that nothing changes.
LEMMA WriteText ==
  ASSUME Local, Shared, File, NEW p \in Procs, Write(p)
  PROVE  /\ text' \in Seq(Lines) /\ Len(text') >= 1 /\ text'[1].ids = {}
         /\ \A i \in DOMAIN text' \ {1} :
              \/ i = 2 /\ proc[p].seen # {} /\ text'[i].ids = proc[p].seen
              \/ i \in DOMAIN text /\ text'[i] = text[i] /\ (i = 2 => proc[p].seen = {})
<1> DEFINE limit == IF proc[p].ret \in {"auto", "gaveup"} THEN 0 ELSE proc[p].lim
           sum == IF proc[p].seen = {} THEN <<>> ELSE <<Line(proc[p].seen)>>
           out == <<Header(limit)>> \o sum
<1>1. limit \in Nat /\ proc[p].seen \subseteq Procs
  BY DEF Local, Sound, Typed
<1>2. text' = out \o SubSeq(text, Len(out) + 1, Len(text)) /\ text \in Seq(Lines)
  BY DEF Write, File
<1>3. Header(limit) \in Lines /\ Header(limit).ids = {} /\ Line(proc[p].seen) \in Lines
  BY <1>1 DEF Header, Line, Lines
<1>4. Line(proc[p].seen).ids = proc[p].seen
  BY DEF Line
<1> HIDE DEF limit
<1>5. /\ out \in Seq(Lines) /\ Len(out) \in {1, 2} /\ out[1] = Header(limit)
      /\ proc[p].seen = {} => Len(out) = 1
      /\ proc[p].seen # {} => Len(out) = 2 /\ out[2] = Line(proc[p].seen)
  BY <1>3
<1> HIDE DEF out
<1>6. /\ text' \in Seq(Lines) /\ Len(text') >= Len(out)
      /\ \A i \in DOMAIN text' : \/ i \in DOMAIN out /\ text'[i] = out[i]
                                 \/ i > Len(out) /\ i \in DOMAIN text /\ text'[i] = text[i]
  <2> DEFINE t == out \o SubSeq(text, Len(out) + 1, Len(text))
  <2>1. /\ t \in Seq(Lines) /\ Len(t) >= Len(out)
        /\ \A i \in DOMAIN t : \/ i \in DOMAIN out /\ t[i] = out[i]
                               \/ i > Len(out) /\ i \in DOMAIN text /\ t[i] = text[i]
    BY <1>2, <1>5, Overwrite
  <2> HIDE DEF t
  <2>2. text' = t
    BY <1>2 DEF t
  <2> QED
    BY <2>1, <2>2
<1>7. Len(text') \in Nat /\ DOMAIN text' = 1..Len(text') /\ DOMAIN out = 1..Len(out)
  BY <1>5, <1>6
<1>8. Len(text') >= 1 /\ text'[1] = out[1]
  BY <1>5, <1>6, <1>7
<1>9. ASSUME NEW i \in DOMAIN text', i # 1
      PROVE  \/ i = 2 /\ proc[p].seen # {} /\ text'[i].ids = proc[p].seen
             \/ i \in DOMAIN text /\ text'[i] = text[i] /\ (i = 2 => proc[p].seen = {})
  BY <1>4, <1>5, <1>6, <1>7, <1>9
<1> QED
  BY <1>3, <1>5, <1>6, <1>8, <1>9

LEMMA LineIds ==
  ASSUME File
  PROVE  \A i \in DOMAIN text : text[i].ids \subseteq Procs
<1>1. \A i \in DOMAIN text : text[i] \in Lines
  BY DEF File
<1> QED
  BY <1>1 DEF Lines

\* The other steps leave the text alone, and nobody comes to write it.
LEMMA TextRests ==
  ASSUME Local, Shared, File, [Next]_vars, \A p \in Procs : ~(Trunc(p) \/ Write(p) \/ AppendLine(p))
  PROVE  /\ text' = text
         /\ \A m \in Procs : Past(proc[m]) => Past(proc'[m])
         /\ text # <<>> => \A o \in Procs : At(o, "write")' => At(o, "write") /\ proc'[o].seen = proc[o].seen
<1>1. ASSUME NEW p \in Procs,
             \/ Deliver(p) \/ Alias(p) \/ Login(p) \/ Warned(p) \/ SetQuota(p)
             \/ Locked(p) \/ ReadQuota(p) \/ GaveUp(p) \/ Stat(p) \/ Check(p) \/ Count(p) \/ End(p)
             \/ Over1(p) \/ Over2(p) \/ Bounce(p) \/ Link(p) \/ Fail(p) \/ Crash(p)
      PROVE  /\ text' = text
             /\ \A m \in Procs : Past(proc[m]) => Past(proc'[m])
             /\ text # <<>> =>
                  \A o \in Procs : At(o, "write")' => At(o, "write") /\ proc'[o].seen = proc[o].seen
  <2>1. Step(p)
    BY <1>1, EveryStep
  <2>2. text' = text
    <3>1. CASE Deliver(p) \/ Alias(p) \/ Login(p) \/ SetQuota(p)
      BY <3>1 DEF Deliver, Alias, Login, SetQuota, Start
    <3>2. CASE Warned(p) \/ Locked(p) \/ Over1(p) \/ Over2(p)
      BY <3>2 DEF Warned, Locked, Over1, Over2
    <3>3. CASE ReadQuota(p) \/ GaveUp(p) \/ Stat(p) \/ Check(p) \/ Count(p) \/ End(p)
      BY <3>3 DEF ReadQuota, GaveUp, Stat, Check, Count, End
    <3>4. CASE Bounce(p) \/ Link(p) \/ Fail(p) \/ Crash(p)
      BY <3>4 DEF Bounce, Link, Fail, Crash
    <3> QED
      BY <1>1, <3>1, <3>2, <3>3, <3>4
  <2>3. \A m \in Procs : Past(proc[m]) => Past(proc'[m])
    BY <2>1, StepPast
  <2> QED
    BY <2>1, <2>2, <2>3 DEF Step, Alone, At
<1>2. ASSUME NEW p \in Procs, Create(p)
      PROVE  /\ text' = text
             /\ \A m \in Procs : Past(proc[m]) => Past(proc'[m])
             /\ \A o \in Procs : At(o, "write")' => At(o, "write") /\ proc'[o].seen = proc[o].seen
  BY <1>2, CreateStep DEF Create
<1>3. CASE (\E m \in Procs : Remove(m)) \/ Age \/ UNCHANGED vars
  BY <1>3 DEF Remove, Age, vars, At
<1> QED
  BY <1>1, <1>2, <1>3 DEF Next

\* update_quota(): the line of p is the last one, and p has none yet.
LEMMA AppendText ==
  ASSUME Local, Shared, File, NEW p \in Procs, AppendLine(p)
  PROVE  /\ ~Past(proc[p]) /\ Past(proc'[p])
         /\ \/ text' = text
            \/ /\ text' \in Seq(Lines) /\ Len(text') = Len(text) + 1
               /\ \A i \in 1..Len(text) : text'[i] = text[i]
               /\ text'[Len(text) + 1].ids = {p}
<1>1. Shape(proc[p]) /\ proc[p].pc = "append" /\ proc[p].ret = "none" /\ ProcsAre
  BY DEF AppendLine, At, Local, Sound, Returns
<1>2. proc'[p].pc = "create" \/ proc'[p].ret = "create"
  <2>1. CASE Go(p, "create")
    BY <1>1, <2>1, GoMoves DEF Moves
  <2>2. CASE Call(p, 0, "create")
    BY <1>1, <2>2, CallMoves DEF Moves
  <2> QED
    BY <2>1, <2>2 DEF AppendLine
<1>3. Line({p}) \in Lines /\ Line({p}).ids = {p}
  BY DEF Line, Lines
<1>4. text' = text \/ text' = Append(text, Line({p}))
  BY DEF AppendLine
<1>5. text \in Seq(Lines)
  BY DEF File
<1>6. ~Past(proc[p]) /\ Past(proc'[p])
  BY <1>1, <1>2 DEF Past
<1>7. CASE text' = Append(text, Line({p}))
  <2>1. /\ text' \in Seq(Lines) /\ Len(text') = Len(text) + 1
        /\ \A i \in 1..Len(text) : text'[i] = text[i]
        /\ text'[Len(text) + 1] = Line({p})
    BY <1>3, <1>5, <1>7, AppendProperties
  <2> QED
    BY <1>3, <1>6, <2>1
<1> QED
  BY <1>4, <1>6, <1>7

LEMMA FileNext ==
  ASSUME Local, Shared, File, [Next]_vars
  PROVE  File'
<1>1. ASSUME NEW p \in Procs, Trunc(p) PROVE File'
  BY <1>1 DEF Trunc, File
<1>2. ASSUME NEW p \in Procs, Write(p) PROVE File'
  <2>1. \A m \in Procs : Past(proc[m]) => Past(proc'[m])
    BY <1>2, EveryStep, StepPast
  <2>2. /\ text' \in Seq(Lines) /\ text'[1].ids = {}
        /\ \A i \in DOMAIN text' \ {1} :
             text'[i].ids = proc[p].seen \/ (i \in DOMAIN text /\ text'[i] = text[i])
    BY <1>2, WriteText
  <2>3. IsFiniteSet(proc[p].seen) /\ proc[p].seen \subseteq Procs /\ \A m \in proc[p].seen : Past(proc[m])
    BY DEF Local, Sound, Typed
  <2>4. ASSUME NEW i \in DOMAIN text' PROVE IsFiniteSet(text'[i].ids) /\ \A m \in text'[i].ids : Past(proc'[m])
    <3>1. CASE i = 1
      BY <2>2, <3>1, FS_EmptySet
    <3>2. CASE text'[i].ids = proc[p].seen
      BY <2>1, <2>3, <3>2
    <3>3. CASE i \in DOMAIN text /\ text'[i] = text[i]
      <4>1. text[i].ids \subseteq Procs
        BY <3>3, LineIds
      <4> QED
        BY <2>1, <3>3, <4>1 DEF File
    <3> QED
      BY <2>2, <3>1, <3>2, <3>3
  <2> QED
    BY <2>2, <2>4 DEF File
<1>3. ASSUME NEW p \in Procs, AppendLine(p) PROVE File'
  <2>1. \A m \in Procs : Past(proc[m]) => Past(proc'[m])
    BY <1>3, EveryStep, StepPast
  <2>2. Past(proc'[p]) /\ text \in Seq(Lines)
    BY <1>3, AppendText DEF File
  <2>3. \A i \in DOMAIN text : /\ IsFiniteSet(text[i].ids) /\ text[i].ids \subseteq Procs
                                /\ \A m \in text[i].ids : Past(proc'[m])
    BY <2>1, LineIds DEF File
  <2>4. CASE text' = text
    BY <2>2, <2>3, <2>4 DEF File
  <2>5. CASE /\ text' \in Seq(Lines) /\ Len(text') = Len(text) + 1
             /\ \A i \in 1..Len(text) : text'[i] = text[i]
             /\ text'[Len(text) + 1].ids = {p}
    <3>1. \A i \in DOMAIN text' : i = Len(text) + 1 \/ (i \in DOMAIN text /\ text'[i] = text[i])
      BY <2>2, <2>5
    <3>2. IsFiniteSet({p})
      BY FS_Singleton
    <3> QED
      BY <2>2, <2>3, <2>5, <3>1, <3>2 DEF File
  <2> QED
    BY <1>3, <2>4, <2>5, AppendText
<1>4. CASE \A p \in Procs : ~(Trunc(p) \/ Write(p) \/ AppendLine(p))
  <2>1. text' = text /\ \A m \in Procs : Past(proc[m]) => Past(proc'[m])
    BY <1>4, TextRests
  <2>2. \A i \in DOMAIN text : text[i].ids \subseteq Procs
    BY LineIds
  <2> QED
    BY <2>1, <2>2 DEF File
<1> QED
  BY <1>1, <1>2, <1>3, <1>4

LEMMA OnceNext ==
  ASSUME Local, Shared, File, Once, [Next]_vars
  PROVE  Once'
<1>1. ASSUME NEW p \in Procs, Trunc(p) PROVE Once'
  <2>1. text' = <<>>
    BY <1>1 DEF Trunc
  <2> QED
    BY <2>1 DEF Once, NoDoubleCount
<1>2. ASSUME NEW p \in Procs, Write(p) PROVE Once'
  <2>1. /\ text'[1].ids = {}
        /\ \A i \in DOMAIN text' \ {1} :
              \/ i = 2 /\ proc[p].seen # {} /\ text'[i].ids = proc[p].seen
              \/ i \in DOMAIN text /\ text'[i] = text[i] /\ (i = 2 => proc[p].seen = {})
    BY <1>2, WriteText
  <2>2. \A i \in DOMAIN text : i # 2 => text[i].ids \cap proc[p].seen = {}
    BY <1>2 DEF Write, Once
  <2>3. ASSUME NEW i \in DOMAIN text', NEW j \in DOMAIN text', i # j PROVE text'[i].ids \cap text'[j].ids = {}
    <3>1. CASE i = 1 \/ j = 1
      BY <2>1, <3>1
    <3>2. CASE i # 1 /\ j # 1
      <4>1. CASE i = 2 /\ text'[i].ids = proc[p].seen
        BY <2>1, <2>2, <2>3, <3>2, <4>1
      <4>2. CASE j = 2 /\ text'[j].ids = proc[p].seen
        BY <2>1, <2>2, <2>3, <3>2, <4>2
      <4>3. CASE i \in DOMAIN text /\ text'[i] = text[i] /\ j \in DOMAIN text /\ text'[j] = text[j]
        BY <2>3, <4>3 DEF Once, NoDoubleCount
      <4> QED
        BY <2>1, <3>2, <4>1, <4>2, <4>3
    <3> QED
      BY <3>1, <3>2
  <2>4. \A o \in Procs : At(o, "write")' => At(o, "write") /\ proc'[o].seen = proc[o].seen
    <3>1. Step(p)
      BY <1>2, EveryStep
    <3>2. text' # <<>>
      BY <1>2, WriteText
    <3> QED
      BY <3>1, <3>2 DEF Step, Alone, At
  <2>5. ASSUME NEW o \in Procs, At(o, "write")', NEW i \in DOMAIN text', i # 2
        PROVE  text'[i].ids \cap proc'[o].seen = {}
    <3>1. CASE i = 1
      BY <2>1, <3>1
    <3>2. CASE i # 1
      BY <2>1, <2>4, <2>5, <3>2 DEF Once
    <3> QED
      BY <3>1, <3>2
  <2> QED
    BY <2>3, <2>5 DEF Once, NoDoubleCount
<1>3. ASSUME NEW p \in Procs, AppendLine(p) PROVE Once'
  <2>1. ~Past(proc[p]) /\ text \in Seq(Lines)
    BY <1>3, AppendText DEF File
  <2>2. \A i \in DOMAIN text : p \notin text[i].ids
    BY <2>1 DEF File
  <2>3. \A o \in Procs : p \notin proc[o].seen
    BY <2>1 DEF Local
  <2>4. \A o \in Procs : At(o, "write")' => At(o, "write") /\ proc'[o].seen = proc[o].seen
    <3>1. Alone(p)
      BY <1>3, EveryStep DEF Step
    <3>2. proc'[p].pc # "write"
      BY <1>3, GoMoves, CallMoves DEF AppendLine, Local, Sound, Moves
    <3> QED
      BY <3>1, <3>2 DEF Alone, At
  <2>5. CASE text' = text
    BY <2>4, <2>5 DEF Once, NoDoubleCount
  <2>6. CASE /\ text' \in Seq(Lines) /\ Len(text') = Len(text) + 1
             /\ \A i \in 1..Len(text) : text'[i] = text[i]
             /\ text'[Len(text) + 1].ids = {p}
    <3>1. \A i \in DOMAIN text' : \/ i = Len(text) + 1 /\ text'[i].ids = {p}
                                  \/ i \in DOMAIN text /\ text'[i] = text[i]
      BY <2>1, <2>6
    <3>2. ASSUME NEW i \in DOMAIN text', NEW j \in DOMAIN text', i # j
          PROVE  text'[i].ids \cap text'[j].ids = {}
      <4>1. CASE text'[i].ids = {p} \/ text'[j].ids = {p}
        BY <2>2, <3>1, <3>2, <4>1
      <4>2. CASE i \in DOMAIN text /\ text'[i] = text[i] /\ j \in DOMAIN text /\ text'[j] = text[j]
        BY <3>2, <4>2 DEF Once, NoDoubleCount
      <4> QED
        BY <3>1, <4>1, <4>2
    <3>3. ASSUME NEW o \in Procs, At(o, "write")', NEW i \in DOMAIN text', i # 2
          PROVE  text'[i].ids \cap proc'[o].seen = {}
      <4>1. CASE text'[i].ids = {p}
        BY <2>3, <2>4, <3>3, <4>1
      <4>2. CASE i \in DOMAIN text /\ text'[i] = text[i]
        BY <2>4, <3>3, <4>2 DEF Once
      <4> QED
        BY <3>1, <4>1, <4>2
    <3> QED
      BY <3>2, <3>3 DEF Once, NoDoubleCount
  <2> QED
    BY <1>3, <2>5, <2>6, AppendText
<1>4. CASE \A p \in Procs : ~(Trunc(p) \/ Write(p) \/ AppendLine(p))
  <2>1. /\ text' = text
        /\ text # <<>> => \A o \in Procs : At(o, "write")' => At(o, "write") /\ proc'[o].seen = proc[o].seen
    BY <1>4, TextRests
  <2>2. text = <<>> \/ text # <<>>
    OBVIOUS
  <2> QED
    BY <2>1, <2>2 DEF Once, NoDoubleCount
<1> QED
  BY <1>1, <1>2, <1>3, <1>4

-----------------------------------------------------------------------------
(* The header of maildirsize                                               *)

\* A process that is about to write the header stays so until it has written
\* it, unless something fails.
LEMMA WriterStays ==
  ASSUME Local, Shared, File, [Next]_vars, faults' = 0, NEW o \in Procs, At(o, "write"), ~Write(o)
  PROVE  At(o, "write")'
<1>1. ASSUME NEW p \in Procs,
             \/ Deliver(p) \/ Alias(p) \/ Login(p) \/ Warned(p) \/ SetQuota(p)
             \/ Locked(p) \/ ReadQuota(p) \/ GaveUp(p)
             \/ Stat(p) \/ Check(p) \/ Count(p) \/ Trunc(p) \/ Write(p) \/ End(p)
             \/ Over1(p) \/ Over2(p) \/ Bounce(p) \/ AppendLine(p) \/ Link(p)
      PROVE  At(o, "write")'
  <2>1. Alone(p)
    BY <1>1, EveryStep DEF Step
  <2>2. p # o
    <3>1. CASE \/ Deliver(p) \/ Alias(p) \/ Login(p) \/ SetQuota(p) \/ Warned(p) \/ Locked(p) \/ GaveUp(p)
      BY <3>1 DEF Deliver, Alias, Login, SetQuota, Start, Warned, Locked, GaveUp, At
    <3>2. CASE \/ ReadQuota(p) \/ Stat(p) \/ Check(p) \/ Count(p) \/ Trunc(p) \/ Write(p) \/ End(p)
      BY <3>2 DEF ReadQuota, Stat, Check, Count, Trunc, End, At
    <3>3. CASE \/ Over1(p) \/ Over2(p) \/ Bounce(p) \/ AppendLine(p) \/ Link(p)
      BY <3>3 DEF Over1, Over2, Bounce, AppendLine, Link, At
    <3> QED
      BY <1>1, <3>1, <3>2, <3>3
  <2> QED
    BY <2>1, <2>2 DEF Alone, At
<1>2. ASSUME NEW p \in Procs, Create(p) PROVE At(o, "write")'
  <2>1. p # o
    BY <1>2 DEF Create, At
  <2> QED
    BY <1>2, <2>1, CreatePcs DEF At
<1>3. ASSUME NEW p \in Procs, Fail(p) \/ Crash(p) PROVE FALSE
  BY <1>3 DEF Fail, Crash, Shared
<1>4. CASE (\E m \in Procs : Remove(m)) \/ Age \/ UNCHANGED vars
  BY <1>4 DEF Remove, Age, vars, At
<1> QED
  BY <1>1, <1>2, <1>3, <1>4 DEF Next

LEMMA FileStays ==
  ASSUME Shared, [Next]_vars, faults' = 0, \A p \in Procs : ~Trunc(p)
  PROVE  exists' = exists /\ faults = 0
<1>1. ASSUME NEW p \in Procs,
             \/ Deliver(p) \/ Alias(p) \/ Login(p) \/ Warned(p) \/ SetQuota(p)
             \/ Locked(p) \/ ReadQuota(p) \/ GaveUp(p)
      PROVE  exists' = exists /\ faults' = faults
  BY <1>1 DEF Deliver, Alias, Login, SetQuota, Start, Warned, Locked, ReadQuota, GaveUp
<1>2. ASSUME NEW p \in Procs, Stat(p) \/ Check(p) \/ Count(p) \/ Write(p) \/ End(p) \/ Create(p)
      PROVE  exists' = exists /\ faults' = faults
  BY <1>2 DEF Stat, Check, Count, Write, End, Create
<1>3. ASSUME NEW p \in Procs, Over1(p) \/ Over2(p) \/ Bounce(p) \/ AppendLine(p) \/ Link(p) \/ Remove(p)
      PROVE  exists' = exists /\ faults' = faults
  BY <1>3 DEF Over1, Over2, Bounce, AppendLine, Link, Remove
<1>4. ASSUME NEW p \in Procs, Fail(p) \/ Crash(p) PROVE FALSE
  BY <1>4 DEF Fail, Crash, Shared
<1>5. CASE Age \/ UNCHANGED vars
  BY <1>5 DEF Age, vars
<1> QED
  BY <1>1, <1>2, <1>3, <1>4, <1>5 DEF Next

LEMMA HeaderNext ==
  ASSUME Local, Shared, File, HeaderFirst, [Next]_vars
  PROVE  HeaderFirst'
<1> SUFFICES ASSUME exists', faults' = 0, \A p \in Procs : ~At(p, "write")'
             PROVE  text' # <<>> /\ Head(text').ids = {}
  BY DEF HeaderFirst
<1>1. ASSUME NEW p \in Procs, Trunc(p) PROVE FALSE
  <2>1. proc'[p].pc = "write"
    BY <1>1, GoMoves DEF Trunc, Local, Sound, Moves
  <2> QED
    BY <2>1 DEF At
<1>2. ASSUME NEW p \in Procs, Write(p) PROVE text' # <<>> /\ Head(text').ids = {}
  <2>1. text' \in Seq(Lines) /\ Len(text') >= 1 /\ text'[1].ids = {}
    BY <1>2, WriteText
  <2> QED
    BY <2>1
<1>3. ASSUME \A p \in Procs : ~Write(p) PROVE text # <<>> /\ Head(text).ids = {}
  <2>1. \A p \in Procs : ~At(p, "write")
    BY <1>3, WriterStays
  <2>2. exists /\ faults = 0
    BY <1>1, FileStays
  <2> QED
    BY <2>1, <2>2 DEF HeaderFirst
<1>4. ASSUME NEW p \in Procs, AppendLine(p), \A o \in Procs : ~Write(o)
      PROVE  text' # <<>> /\ Head(text').ids = {}
  <2>1. text # <<>> /\ Head(text).ids = {} /\ text \in Seq(Lines)
    BY <1>3, <1>4 DEF File
  <2>2. CASE text' = text
    BY <2>1, <2>2
  <2>3. CASE /\ text' \in Seq(Lines) /\ Len(text') = Len(text) + 1
             /\ \A i \in 1..Len(text) : text'[i] = text[i]
    <3>1. 1 \in 1..Len(text) /\ Head(text) = text[1]
      BY <2>1
    <3>2. text' # <<>> /\ Head(text') = text'[1]
      BY <2>1, <2>3
    <3> QED
      BY <2>1, <2>3, <3>1, <3>2
  <2> QED
    BY <1>4, <2>2, <2>3, AppendText
<1>5. ASSUME \A p \in Procs : ~(Trunc(p) \/ Write(p) \/ AppendLine(p))
      PROVE  text' # <<>> /\ Head(text').ids = {}
  BY <1>3, <1>5, TextRests
<1> QED
  BY <1>1, <1>2, <1>4, <1>5

-----------------------------------------------------------------------------
(* The theorems                                                            *)

QuotaInv == Local /\ Shared /\ File /\ Once

LEMMA QuotaInit == Init => QuotaInv /\ HeaderFirst
<1> SUFFICES ASSUME Init PROVE QuotaInv /\ HeaderFirst
  OBVIOUS
<1>1. Local
  <2>1. \A p \in Procs : proc[p] = Fresh
    BY DEF Init
  <2>2. Fresh.pc = "idle" /\ Fresh.ret = "none" /\ Fresh.seen = {}
    BY DEF Fresh
  <2>3. Returns(Fresh) /\ \A p : Measured(Fresh, p) /\ ~Bounces("idle", p)
    BY <2>2 DEF Returns, Measured, Recalc, Bounces, Ended
  <2>4. \A p \in Procs : Sound(proc[p], p, Size(box))
    BY <2>1, <2>2, <2>3, FreshTypes DEF Sound
  <2>5. ProcsAre
    BY DEF Init, ProcsAre
  <2> QED
    BY <2>1, <2>2, <2>4, <2>5 DEF Local
<1>2. Shared
  <2>1. \A p \in Procs : ~At(p, "link")
    BY DEF Init, At, Fresh
  <2>2. exists \in BOOLEAN /\ flag \in {FALSE, exists} /\ old = FALSE
    BY DEF Init
  <2>3. exists \in BOOLEAN /\ flag \in BOOLEAN /\ old \in BOOLEAN
    BY <2>2
  <2>4. quota \in Limits /\ faults \in 0..MaxFaults /\ box = {} /\ new = {} /\ IsFiniteSet(box)
    BY FS_EmptySet, LimitAssumption, BoundAssumption DEF Init
  <2> QED
    BY <2>1, <2>3, <2>4 DEF Shared
<1>3. Header(First) \in Lines /\ Header(First).ids = {}
  BY LimitAssumption DEF Header, Lines
<1>4. text = <<>> \/ text = <<Header(First)>>
  BY DEF Init
<1>5. /\ text \in Seq(Lines) /\ DOMAIN text \subseteq {1}
      /\ \A i \in DOMAIN text : text[i].ids = {}
      /\ exists => text # <<>> /\ Head(text).ids = {}
  <2>1. CASE text = <<>>
    BY <2>1 DEF Init
  <2>2. CASE text = <<Header(First)>>
    BY <1>3, <2>2
  <2> QED
    BY <1>4, <2>1, <2>2
<1>6. File
  BY <1>5, FS_EmptySet DEF File
<1>7. Once
  BY <1>5 DEF Once, NoDoubleCount
<1>8. HeaderFirst
  BY <1>5 DEF HeaderFirst
<1> QED
  BY <1>1, <1>2, <1>6, <1>7, <1>8 DEF QuotaInv

LEMMA QuotaNext == QuotaInv /\ [Next]_vars => QuotaInv'
<1> SUFFICES ASSUME Local, Shared, File, Once, [Next]_vars PROVE QuotaInv'
  BY DEF QuotaInv
<1>1. Local'
  <2>1. ASSUME NEW p \in Procs, Create(p) PROVE Local'
    BY <2>1, CreateStep
  <2>2. ASSUME NEW m \in Procs, Remove(m) PROVE Local'
    <3>1. box' = box \ {m} /\ proc' = proc
      BY <2>2 DEF Remove
    <3>2. Size(box) \in Nat /\ Size(box') \in Nat /\ Size(box') <= Size(box)
      BY <3>1, SizeTypes DEF Shared
    <3>3. \A p \in Procs : Sound(proc[p], p, Size(box'))
      BY <3>2 DEF Local, Sound, Typed
    <3> QED
      BY <3>1, <3>3 DEF Local, ProcsAre
  <2>3. CASE Age \/ UNCHANGED vars
    BY <2>3 DEF Age, vars, Local, ProcsAre
  <2> QED
    BY <2>1, <2>2, <2>3, EveryStep, StepLocal DEF Next
<1> QED
  BY <1>1, SharedNext, FileNext, OnceNext DEF QuotaInv

LEMMA QuotaInvariant == Spec => []QuotaInv
<1>1. Init => QuotaInv
  BY QuotaInit
<1> QED
  BY <1>1, QuotaNext, PTL DEF Spec

\* The variables keep their types: what was delivered is in the Maildir, and the
\* quota a process goes by is never negative, whatever maildirsize starts with.
THEOREM TypeCorrect == Spec => []TypeOK
<1>1. QuotaInv => TypeOK
  BY DEF QuotaInv, Local, Sound, Typed, Shared, File, Lines, TypeOK
<1> QED
  BY <1>1, QuotaInvariant, PTL

\* update_quota.c:64, recalc_quota.c: for any number of deliveries, logins and
\* changes of the quota that truncate, overwrite and append to maildirsize, the
\* file starts with a header while nothing has failed and nobody is writing it.
THEOREM HeaderStaysFirst == Spec => []HeaderFirst
<1>1. Init => HeaderFirst
  BY QuotaInit
<1>2. QuotaInv /\ HeaderFirst /\ [Next]_vars => HeaderFirst'
  BY HeaderNext DEF QuotaInv
<1> QED
  BY <1>1, <1>2, QuotaInvariant, PTL DEF Spec

\* deliver_mail.c:1067: no message is ever in two lines of maildirsize, its own
\* and that of somebody who counted the Maildir, in whatever order and with
\* whatever failures the line is appended and the file is written anew.
THEOREM CountedOnce == Spec => []NoDoubleCount
<1>1. QuotaInv => NoDoubleCount
  BY DEF QuotaInv, Once
<1> QED
  BY <1>1, QuotaInvariant, PTL

\* user_over_quota.c:144-153: a message that bounces did not fit the Maildir at
\* some time since its delivery began, for any sizes, quotas and other processes
\* and however wrong maildirsize is.
THEOREM BouncesJustified == Spec => []BounceJustified
<1>1. QuotaInv => BounceJustified
  <2> SUFFICES ASSUME QuotaInv, NEW p \in Procs, At(p, "bounced")
               PROVE  proc[p].most + Size({p}) > proc[p].lim
    BY DEF BounceJustified
  <2>1. Measured(proc[p], p)
    BY DEF QuotaInv, Local, Sound
  <2> QED
    BY <2>1 DEF Measured, At
<1> QED
  BY <1>1, QuotaInvariant, PTL
=============================================================================

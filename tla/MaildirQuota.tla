----------------------------- MODULE MaildirQuota -----------------------------
(***************************************************************************)
(* Delivery to one Maildir and the file maildirsize in it (deliver_mail.c, *)
(* vdelivermail.c, user_over_quota.c, recalc_quota.c, check_quota.c,       *)
(* update_quota.c, setuserquota.c).                                        *)
(*                                                                         *)
(* maildirsize holds a header with the quota, and lines that add up to the *)
(* usage.  A delivery reads the usage, appends a line and then stores the  *)
(* message; when the file is old or long, or says that there is no room,   *)
(* the Maildir is counted and the file is written anew: it is truncated    *)
(* when it is opened and written when the lock is there.  A lock is held   *)
(* for one write() or one reading only, so that lock, write and unlock are *)
(* one step; neither the truncation nor read_quota() asks for it.          *)
(*                                                                         *)
(* Messages have size 1, which is as large as OVERQUOTA_MAILSIZE, or 2.  A *)
(* line stands for the messages it counts, and is as long as any other.    *)
(* Left out: limits on the number of messages and per day, FAST_QUOTA, the *)
(* warnings themselves, and deliveries to commands and addresses.          *)
(***************************************************************************)
EXTENDS Naturals, Sequences, FiniteSets

CONSTANTS
  Procs,      \* processes; a delivery is named like its message
  Big,        \* the messages of size 2
  Modes,      \* what each of the processes may be
  Limits,     \* the quotas an administrator may set
  First,      \* the quota at the start
  Room,       \* the room for which vdelivermail lifts the bounce flag
  MaxLines,   \* the length at which maildirsize is written anew
  MaxFaults   \* bound on failing steps and killed processes

ASSUME ModesAssumption == Modes \in [Procs -> SUBSET {"shell", "auto", "login", "setquota"}]
ASSUME LimitAssumption == First \in Limits /\ Limits \subseteq Nat \ {0}
ASSUME BoundAssumption == Room \in Nat /\ MaxLines \in Nat /\ MaxFaults \in Nat

VARIABLES
  box,      \* the messages count_dir() finds, in tmp, new or cur
  new,      \* the messages that were delivered
  exists, text, old,   \* maildirsize: whether it is there, its lines, its age
  quota,    \* pw_shell of the user
  flag,     \* BOUNCE_MAIL of the user
  proc,     \* the local state of each process
  faults

maildirsize == <<exists, text, old>>
vars == <<box, new, maildirsize, quota, flag, proc, faults>>

Size(S) == Cardinality(S) + Cardinality(S \cap Big)

Header(l) == [limit |-> l, ids |-> {}]
Line(S) == [limit |-> 0, ids |-> S]

\* parse_quota() of the first line, be it a header or not.
parse_quota(line) == IF line.ids = {} THEN line.limit ELSE Size(line.ids)

\* The statics of recalc_quota() are msize and prev; ret is where it returns to,
\* with val.  most is the largest usage of the Maildir since a large one started.
Fresh == [pc |-> "idle", mode |-> "none", lim |-> 0, msize |-> 0, prev |-> FALSE, seen |-> {},
          ret |-> "none", val |-> 0, empty |-> FALSE, most |-> 0]

Init ==
  /\ box = {} /\ new = {}
  /\ exists \in BOOLEAN
  /\ text = IF exists THEN <<Header(First)>> ELSE <<>>
  /\ old = FALSE
  /\ quota = First
  /\ flag \in {FALSE, exists}     \* the delivery that locked the user has made the file
  /\ proc = [p \in Procs |-> Fresh]
  /\ faults = 0

Ended == {"idle", "done", "bounced"}

\* Whether a process may still bounce its message.
Bounces(pc, p) == p \in Big /\ pc \notin Ended \cup {"create", "link"}

At(p, pc) == proc[p].pc = pc

\* The size user_over_quota() is asked about.
cur_msgsize(p) == IF proc[p].mode = "login" THEN 0 ELSE Size({p})

Go(p, pc) == proc' = [proc EXCEPT ![p].pc = pc, ![p].val = 0]

\* recalc_quota() is called; with force_flag 2 it counts whatever the file says.
Call(p, force, ret) ==
  proc' = [proc EXCEPT ![p].pc = IF force = 2 THEN "count" ELSE "stat", ![p].ret = ret, ![p].val = 0]

Return(p, v) == [proc EXCEPT ![p].pc = proc[p].ret, ![p].ret = "none", ![p].seen = {},
                             ![p].val = IF proc[p].ret \in {"locked", "over1", "over2"} THEN v ELSE 0]

\* The process ends.
Finish(p) == proc' = [proc EXCEPT ![p] = [Fresh EXCEPT !.pc = "done"]]

-----------------------------------------------------------------------------
(* Processes start *)

Start(p, mode, l, pc, ret) ==
  /\ At(p, "idle")
  /\ mode \in Modes[p]
  /\ proc' = [proc EXCEPT ![p] = [Fresh EXCEPT !.mode = mode, !.lim = l, !.pc = pc, !.ret = ret,
                                              !.most = IF p \in Big THEN Size(box) ELSE 0]]
  /\ UNCHANGED <<box, new, maildirsize, flag, faults>>

\* processMail(): a delivery with the quota of the user's row.
Deliver(p) ==
  /\ Start(p, "shell", quota, "stat", IF flag THEN "locked" ELSE "over1")
  /\ UNCHANGED quota

\* deliver_mail() with AUTO, from an alias: the quota is that in maildirsize.
Alias(p) ==
  /\ Start(p, "auto", quota, "auto", "none")
  /\ UNCHANGED quota

\* Login_Tasks() looks whether the flag can go, at times after MailQuotaWarn()
\* has asked for the usage.
Login(p) ==
  /\ flag
  /\ \E ret \in {"over1", "warned"} : Start(p, "login", quota, "stat", ret)
  /\ UNCHANGED quota

Warned(p) ==
  /\ At(p, "warned")
  /\ Call(p, 0, "over1")
  /\ UNCHANGED <<box, new, maildirsize, quota, flag, faults>>

\* setuserquota(): the row, then maildirsize.
SetQuota(p) ==
  \E l \in Limits :
    /\ Start(p, "setquota", l, "count", "end")
    /\ quota' = l

\* processMail() of a user who is locked: the flag is lifted if there is room
\* again, otherwise the mail bounces or waits.
Locked(p) ==
  /\ At(p, "locked")
  /\ \/ /\ proc[p].val + Room < proc[p].lim
        /\ flag' = FALSE
        /\ Call(p, 0, "over1")
     \/ /\ proc[p].val + Room >= proc[p].lim
        /\ Finish(p)
        /\ UNCHANGED flag
  /\ UNCHANGED <<box, new, maildirsize, quota, faults>>

\* read_quota(): the first line of maildirsize, without a lock.  If there is
\* none the file is written anew, without a quota, and read again.
ReadQuota(p) ==
  /\ At(p, "auto")
  /\ LET found(l) == IF l = 0 THEN [proc[p] EXCEPT !.lim = 0, !.pc = "create"]
                     ELSE [proc[p] EXCEPT !.lim = l, !.pc = "stat", !.ret = "over1"]
     IN proc' = [proc EXCEPT ![p] =
          CASE ~exists -> found(quota)
            [] exists /\ text # <<>> -> found(parse_quota(Head(text)))
            [] exists /\ text = <<>> ->
                 [@ EXCEPT !.pc = "count", !.ret = IF proc[p].empty THEN "gaveup" ELSE "auto", !.empty = TRUE]]
  /\ UNCHANGED <<box, new, maildirsize, quota, flag, faults>>

\* Mutant of GaveUp: the result of read_quota() is not looked at.
GaveUp_AsQuota(p) ==
  /\ At(p, "gaveup")
  /\ proc' = [proc EXCEPT ![p].lim = 0 - 1, ![p].pc = "stat", ![p].ret = "over1"]
  /\ UNCHANGED <<box, new, maildirsize, quota, flag, faults>>

\* It was empty twice.
GaveUp(p) ==
  /\ At(p, "gaveup")
  /\ Finish(p)
  /\ UNCHANGED <<box, new, maildirsize, quota, flag, faults>>

-----------------------------------------------------------------------------
(* recalc_quota() *)

\* A file that is young and short is believed, and read once per process; the
\* directory is counted once per process too.
Stat(p) ==
  /\ At(p, "stat")
  /\ LET fine == exists /\ ~old /\ Len(text) <= MaxLines
     IN proc' = CASE fine /\ proc[p].msize = 0 -> [proc EXCEPT ![p].pc = "check"]
                  [] ~fine /\ ~proc[p].prev   -> [proc EXCEPT ![p].pc = "count"]
                  [] OTHER -> Return(p, proc[p].msize)
  /\ UNCHANGED <<box, new, maildirsize, quota, flag, faults>>

\* check_quota(): the lines are added up.
Usage == LET sum[i \in 0..Len(text)] == IF i = 0 THEN 0 ELSE sum[i - 1] + Size(text[i].ids)
         IN sum[Len(text)]

Check(p) ==
  /\ At(p, "check")
  /\ proc' = [Return(p, Usage) EXCEPT ![p].msize = Usage]
  /\ UNCHANGED <<box, new, maildirsize, quota, flag, faults>>

\* count_dir().
Count(p) ==
  /\ At(p, "count")
  /\ proc' = [proc EXCEPT ![p].seen = box, ![p].msize = Size(box), ![p].pc = "trunc"]
  /\ UNCHANGED <<box, new, maildirsize, quota, flag, faults>>

\* Mutant of Trunc: opened without O_TRUNC.
Trunc_Keep(p) ==
  /\ At(p, "trunc")
  /\ exists' = TRUE /\ old' = FALSE
  /\ Go(p, "write")
  /\ UNCHANGED <<box, new, text, quota, flag, faults>>

\* open() with O_CREAT and O_TRUNC, the lock comes later.
Trunc(p) ==
  /\ At(p, "trunc")
  /\ exists' = TRUE /\ text' = <<>> /\ old' = FALSE
  /\ Go(p, "write")
  /\ UNCHANGED <<box, new, quota, flag, faults>>

\* Mutant of Write: the file is open for appending.
Write_Appends(p) ==
  /\ At(p, "write")
  /\ LET limit == IF proc[p].ret \in {"auto", "gaveup"} THEN 0 ELSE proc[p].lim
         out   == <<Header(limit)>> \o (IF proc[p].seen = {} THEN <<>> ELSE <<Line(proc[p].seen)>>)
     IN text' = text \o out
  /\ old' = FALSE
  /\ proc' = [Return(p, proc[p].msize) EXCEPT ![p].prev = TRUE]
  /\ UNCHANGED <<box, new, exists, quota, flag, faults>>

\* The header and the sum are written where the file starts, over what
\* others may have put there since.
Write(p) ==
  /\ At(p, "write")
  /\ LET limit == IF proc[p].ret \in {"auto", "gaveup"} THEN 0 ELSE proc[p].lim
         out   == <<Header(limit)>> \o (IF proc[p].seen = {} THEN <<>> ELSE <<Line(proc[p].seen)>>)
     IN text' = out \o SubSeq(text, Len(out) + 1, Len(text))
  /\ old' = FALSE
  /\ proc' = [Return(p, proc[p].msize) EXCEPT ![p].prev = TRUE]
  /\ UNCHANGED <<box, new, exists, quota, flag, faults>>

\* The end of setuserquota().
End(p) ==
  /\ At(p, "end")
  /\ Finish(p)
  /\ UNCHANGED <<box, new, maildirsize, quota, flag, faults>>

-----------------------------------------------------------------------------
(* user_over_quota() and the delivery *)

OverQuota(p) == proc[p].val + cur_msgsize(p) > proc[p].lim

\* What follows when there is room.
Fits(p) ==
  IF proc[p].mode = "login" THEN flag' = FALSE /\ Finish(p)
  ELSE Go(p, "append") /\ UNCHANGED flag

\* Mutant of Over1: the file is believed when it says there is no room.
Over1_Believed(p) ==
  /\ At(p, "over1")
  /\ IF OverQuota(p) THEN proc' = [proc EXCEPT ![p].pc = "over2"] /\ UNCHANGED flag ELSE Fits(p)
  /\ UNCHANGED <<box, new, maildirsize, quota, faults>>

\* When there seems to be no room the Maildir is counted.
Over1(p) ==
  /\ At(p, "over1")
  /\ IF OverQuota(p) THEN Call(p, 2, "over2") /\ UNCHANGED flag ELSE Fits(p)
  /\ UNCHANGED <<box, new, maildirsize, quota, faults>>

\* When there is none indeed the message waits (holdoverquota), or the user is
\* locked if the Maildir is too large already; a small message is delivered all
\* the same, a large one bounces, after MailQuotaWarn() has asked for the usage.
Over2(p) ==
  /\ At(p, "over2")
  /\ IF ~OverQuota(p) THEN Fits(p)
     ELSE \/ /\ Finish(p)
             /\ UNCHANGED flag
          \/ /\ proc[p].mode # "login"
             /\ flag' = (flag \/ proc[p].val > proc[p].lim)
             /\ IF p \in Big THEN Call(p, 0, "bounce") ELSE Go(p, "append")
  /\ UNCHANGED <<box, new, maildirsize, quota, faults>>

Bounce(p) ==
  /\ At(p, "bounce")
  /\ proc' = [proc EXCEPT ![p] = [Fresh EXCEPT !.pc = "bounced", !.mode = proc[p].mode,
                                               !.lim = proc[p].lim, !.most = proc[p].most]]
  /\ UNCHANGED <<box, new, maildirsize, quota, flag, faults>>

\* update_quota(), unless there is no file; MailQuotaWarn() then asks for the
\* usage, unless it has warned a short time ago.
AppendLine(p) ==
  /\ At(p, "append")
  /\ IF exists THEN text' = Append(text, Line({p})) /\ old' = FALSE ELSE UNCHANGED <<text, old>>
  /\ \/ Go(p, "create")
     \/ Call(p, 0, "create")
  /\ UNCHANGED <<box, new, exists, quota, flag, faults>>

\* The message is written in tmp, where count_dir() sees it, or is found to be
\* a duplicate.
Create(p) ==
  /\ At(p, "create")
  /\ \/ /\ box' = box \cup {p}
        /\ proc' = [q \in Procs |-> LET me == IF q = p THEN [Fresh EXCEPT !.pc = "link"] ELSE proc[q]
                                    IN IF Bounces(me.pc, q) /\ me.most < Size(box')
                                       THEN [me EXCEPT !.most = Size(box')] ELSE me]
     \/ /\ Finish(p)
        /\ UNCHANGED box
  /\ UNCHANGED <<new, maildirsize, quota, flag, faults>>

\* It is moved to new.
Link(p) ==
  /\ At(p, "link")
  /\ new' = new \cup {p}
  /\ Finish(p)
  /\ UNCHANGED <<box, maildirsize, quota, flag, faults>>

-----------------------------------------------------------------------------
(* Failures and the environment *)

\* A system call fails: opening or writing maildirsize anew, appending to it, or
\* storing the message.  Some callers look at the result, others go on; for
\* processMail() a usage of -1 is a small one.
Fail(p) ==
  /\ proc[p].pc \in {"trunc", "write", "append", "create", "link"}
  /\ faults < MaxFaults
  /\ faults' = faults + 1
  /\ \/ /\ proc[p].pc \in {"trunc", "write"}
        /\ \/ /\ proc[p].ret \in {"over1", "over2", "auto", "gaveup", "end"}
              /\ Finish(p)
              /\ UNCHANGED flag
           \/ /\ proc[p].ret \in {"bounce", "create", "warned"}
              /\ Go(p, proc[p].ret)
              /\ UNCHANGED flag
           \/ /\ proc[p].ret = "locked"
              /\ IF Room <= proc[p].lim THEN flag' = FALSE /\ Call(p, 0, "over1")
                 ELSE Finish(p) /\ UNCHANGED flag
        /\ UNCHANGED box
     \/ /\ proc[p].pc = "append"
        /\ Go(p, "create") \/ Call(p, 0, "create")
        /\ UNCHANGED <<box, flag>>
     \/ /\ proc[p].pc \in {"create", "link"}
        /\ box' \in {box, box \ {p}}
        /\ Finish(p)
        /\ UNCHANGED flag
  /\ UNCHANGED <<new, maildirsize, quota>>

\* A process is killed.
Crash(p) ==
  /\ proc[p].pc \notin Ended
  /\ faults < MaxFaults
  /\ faults' = faults + 1
  /\ Finish(p)
  /\ UNCHANGED <<box, new, maildirsize, quota, flag>>

\* The user removes a message; what the IMAP server may add to maildirsize then
\* has a minus sign, and check_quota() takes it for nothing.
Remove(m) ==
  /\ m \in new
  /\ new' = new \ {m}
  /\ box' = box \ {m}
  /\ UNCHANGED <<maildirsize, quota, flag, proc, faults>>

\* maildirsize becomes older than MAILDIRSIZE_MAX_AGE.
Age ==
  /\ exists /\ ~old
  /\ old' = TRUE
  /\ UNCHANGED <<box, new, exists, text, quota, flag, proc, faults>>

Next ==
  \/ \E p \in Procs :
       \/ Deliver(p) \/ Alias(p) \/ Login(p) \/ Warned(p) \/ SetQuota(p)
       \/ Locked(p) \/ ReadQuota(p) \/ GaveUp(p)
       \/ Stat(p) \/ Check(p) \/ Count(p) \/ Trunc(p) \/ Write(p) \/ End(p)
       \/ Over1(p) \/ Over2(p) \/ Bounce(p) \/ AppendLine(p) \/ Create(p) \/ Link(p)
       \/ Fail(p) \/ Crash(p) \/ Remove(p)
  \/ Age

Spec == Init /\ [][Next]_vars

-----------------------------------------------------------------------------
(* Properties *)

\* The variables have their types.
TypeOK ==
  /\ new \subseteq box /\ box \subseteq Procs
  /\ exists \in BOOLEAN /\ old \in BOOLEAN /\ flag \in BOOLEAN
  /\ text \in Seq([limit : Nat, ids : SUBSET Procs])
  /\ quota \in Limits
  /\ \A p \in Procs : proc[p].lim \in Nat /\ proc[p].seen \subseteq Procs
  /\ faults \in 0..MaxFaults

\* update_quota.c:64: as long as nothing fails and nobody is between emptying
\* maildirsize and writing it, the file starts with a header, though three
\* programs write to it and truncate it without asking each other.
HeaderFirst ==
  exists /\ faults = 0 /\ (\A p \in Procs : ~At(p, "write")) => text # <<>> /\ Head(text).ids = {}

\* deliver_mail.c:1067: no message is counted twice in maildirsize, by its own
\* line and by somebody's count of the Maildir, whatever the order of the two.
NoDoubleCount ==
  \A i, j \in DOMAIN text : i # j => text[i].ids \cap text[j].ids = {}

\* user_over_quota.c:144-153: a message bounces only if the Maildir did not
\* have the room for it at some time since its delivery began, however wrong
\* maildirsize is.
BounceJustified ==
  \A p \in Procs : At(p, "bounced") /\ proc[p].mode = "shell" => proc[p].most + Size({p}) > proc[p].lim

\* vdelivermail.9:90: maildirsize contains the quota limit, that is, when the
\* deliveries are over its header is a quota an administrator has set.
HeaderTrue ==
  exists /\ (\A p \in Procs : proc[p].pc \in Ended) => text # <<>> /\ Head(text).limit \in Limits
=============================================================================

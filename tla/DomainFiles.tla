----------------------------- MODULE DomainFiles -----------------------------
(***************************************************************************)
(* The life of a virtual domain: vadddomain, vaddaliasdomain, vdeldomain   *)
(* and vrenamedomain (iadddomain.c, addaliasdomain.c, deldomain.c,         *)
(* vrenamedomain.c, add_control.c, del_control.c, add_domain_assign.c,     *)
(* del_domain_assign.c).                                                   *)
(*                                                                         *)
(* A domain is spread over several control files, a compiled copy of       *)
(* users/assign, a directory (a symbolic link for an alias domain) and     *)
(* rows of the database.  A tool changes them one after the other.  The    *)
(* steps it has still to make are its program; every step may fail, and    *)
(* the step says what its caller then does.  An edit of a control file is  *)
(* one step (ControlFile says how far that is so), and a name stands for   *)
(* its line: no name is a prefix of another.  All control files exist.     *)
(*                                                                         *)
(* Left out: ETRN and AUTOTURN domains, the directories of the mail file   *)
(* systems, dir_control, aliases, filters, dbinfo and the compiled form of *)
(* morercpthosts.                                                          *)
(***************************************************************************)
EXTENDS Naturals, Sequences, FiniteSets, SequencesExt

CONSTANTS
  Tools,       \* processes
  Domains,     \* domain names
  Locals,      \* those in locals at the start
  Ops,         \* the operations the tools may be started with
  MaxRcpt,     \* the domains rcpthosts takes before morercpthosts is used
  MaxOps,      \* bound on the operations
  MaxFaults    \* bound on failing steps and killed tools

ASSUME OpsAssumption == Ops \subseteq {"add", "alias", "del", "rename"}
ASSUME DomainsAssumption == IsFiniteSet(Domains) /\ Locals \subseteq Domains
ASSUME BoundAssumption == MaxRcpt \in Nat /\ MaxOps \in Nat /\ MaxFaults \in Nat

Files == {"assign", "rcpthosts", "morercpthosts", "virtualdomains", "chkrcptdomains", "locals"}

VARIABLES
  file,      \* the domains each control file names
  cdb,       \* the domains in users/cdb, compiled from assign
  dir,       \* the directory of a domain: none, without or with .qmail-default, or a link
  link,      \* where the link leads, and whether it is an absolute path
  aliases,   \* the lines of .aliasdomains in the directory of a domain
  hasAliases,\* whether there is such a file
  rows,      \* the domains with users in the database
  op, prog, snap, full,    \* of each tool: operation, steps to come, assign as read, count
  told,      \* what the last operation on a domain, if alone, has reported
  mixed,     \* domains of which nothing is claimed until the tools at them have ended
  ops, faults

store == <<file, cdb, dir, link, aliases, hasAliases, rows>>
vars == <<store, op, prog, snap, full, told, mixed, ops, faults>>

Idle == [do |-> "none", d |-> "none", e |-> "none", cwd |-> FALSE]

-----------------------------------------------------------------------------
(* Programs *)

\* A step on file or domain d, with a second domain e, and what a failure means:
\* "stop" the tool returns, "skip" it goes on, "over1" and "over2" it goes on after
\* one or two more steps, "again" the same file is edited once more, "rollback" and
\* "undo" the addition is taken back.
S(do, f, d, e, fail) == [do |-> do, f |-> f, d |-> d, e |-> e, fail |-> fail]
Edit(do, f, d, fail) == S(do, f, d, d, fail)

\* The steps left out with a failing one.
Over == [skip |-> 0, over1 |-> 1, over2 |-> 2]

\* update_newu() runs qmail-newu, which reads assign and then renames its cdb
\* over the old one; its result is not looked at.
update_newu == <<Edit("compile", "assign", "none", "over1"), Edit("install", "assign", "none", "skip")>>

add_domain_assign(d) == <<Edit("put", "assign", d, "stop")>> \o update_newu

del_domain_assign(d, fail) == <<Edit("drop", "assign", d, fail)>> \o update_newu

add_control(d) ==
  <<Edit("count", "rcpthosts", d, "stop"), Edit("rcpt", "rcpthosts", d, "stop"),
    Edit("put", "virtualdomains", d, "stop"), Edit("drop", "locals", d, "stop")>>

\* The name is taken out of rcpthosts, and when that fails or finds nothing out
\* of rcpthosts again: the name of morercpthosts is put behind the zero byte
\* that ends the first.  The result is that of virtualdomains, the last file.
del_control(d, fail) ==
  <<Edit("drop", "rcpthosts", d, "again"), Edit("drop", "chkrcptdomains", d, "skip"),
    Edit("drop", "virtualdomains", d, fail)>>

\* iadddomain(), and the postmaster vadddomain adds to the domain.
add(d) ==
  <<Edit("absent", "assign", d, "stop"), Edit("mkdir", "dir", d, "stop"), Edit("excl", "dir", d, "stop")>>
  \o add_domain_assign(d) \o add_control(d)
  \o <<Edit("tables", "rows", d, "rollback"), Edit("put", "chkrcptdomains", d, "rollback"),
       Edit("postmaster", "rows", d, "undo")>>

\* Mutant of Rollback: the control files are left as they are.
Rollback_NoControl(d) ==
  del_domain_assign(d, "over2") \o <<Edit("rmdir", "dir", d, "skip"), Edit("failed", "none", d, "skip")>>

Rollback(d) ==
  del_domain_assign(d, "over2") \o del_control(d, "skip")
  \o <<Edit("rmdir", "dir", d, "skip"), Edit("failed", "none", d, "skip")>>

\* addaliasdomain(): d becomes another name of e.
alias(d, e) ==
  <<Edit("absent", "assign", d, "stop"), Edit("present", "assign", e, "stop"),
    S("symlink", "dir", d, e, "stop")>>
  \o add_domain_assign(d) \o add_control(d)
  \o <<S("enlist", "aliasdomains", e, d, "stop")>>

\* remove_alias_domain(): a is struck off the list of e; Strike and IfKnown go on
\* with the rest of the function.
remove_alias_domain(a, e) == S("strike", "aliasdomains", e, a, "stop")

\* The directory d leads to.
Resolve(d) == IF dir[d] = "link" THEN link[d].to ELSE d

\* is_alias_domain(): a link is followed from the working directory, which is
\* as good as never the one the link is in, unless vrenamedomain has made it.
is_alias_domain(d, cwd) ==
  dir[d] = "link" /\ (link[d].abs \/ cwd) /\ dir[link[d].to] # "none"

\* The lines of .aliasdomains that deldomain() removes with a domain d.
Listed(d, cwd) ==
  LET e == Resolve(d)
  IN IF ~is_alias_domain(d, cwd) /\ dir[e] # "none" /\ hasAliases[e] THEN aliases[e] \ {d} ELSE {}

\* Mutant of deldomain: the rows go only with an alias.
deldomain_RowsOfAlias(d, cwd, s) ==
  LET e == Resolve(d)
  IN (IF is_alias_domain(d, cwd) THEN <<remove_alias_domain(d, e)>>
                                 ELSE [i \in DOMAIN s |-> remove_alias_domain(s[i], e)])
     \o del_domain_assign(d, "stop")
     \o <<Edit("rmdir", "seen", d, "stop")>>
     \o (IF ~is_alias_domain(d, cwd) THEN <<>> ELSE <<Edit("norows", "rows", d, "stop")>>)
     \o del_control(d, "stop")

\* The rest of deldomain(), once get_assign() knows d; s lists its aliases.
deldomain(d, cwd, s) ==
  LET e == Resolve(d)
  IN (IF is_alias_domain(d, cwd) THEN <<remove_alias_domain(d, e)>>
                                 ELSE [i \in DOMAIN s |-> remove_alias_domain(s[i], e)])
     \o del_domain_assign(d, "stop")
     \o <<Edit("rmdir", "seen", d, "stop")>>
     \o (IF is_alias_domain(d, cwd) THEN <<>> ELSE <<Edit("norows", "rows", d, "stop")>>)
     \o del_control(d, "stop")

\* vrenamedomain of a domain that is not an alias.
rename(d, e) ==
  <<S("mvdir", "dir", d, e, "stop"), S("mvrows", "rows", d, e, "stop")>>
  \o add_domain_assign(e) \o add_control(e) \o del_domain_assign(d, "stop")
  \o <<S("relink", "aliasdomains", d, e, "stop")>> \o del_control(d, "stop")

-----------------------------------------------------------------------------
Init ==
  /\ file = [f \in Files |-> IF f = "locals" THEN Locals ELSE {}]
  /\ cdb = {}
  /\ dir = [d \in Domains |-> "none"]
  /\ link = [d \in Domains |-> [to |-> d, abs |-> FALSE]]
  /\ aliases = [d \in Domains |-> {}]
  /\ hasAliases = [d \in Domains |-> FALSE]
  /\ rows = {}
  /\ op = [t \in Tools |-> Idle]
  /\ prog = [t \in Tools |-> <<>>]
  /\ snap = [t \in Tools |-> {}]
  /\ full = [t \in Tools |-> FALSE]
  /\ told = [d \in Domains |-> "none"]
  /\ mixed = {}
  /\ ops = 0 /\ faults = 0

\* Operations that take something away; an addition that is taken back is one.
Removes(o) == o.do \in {"del", "unlink", "rename", "undo"}

\* The domains an operation is about.  An alias domain changes nothing of the
\* domain it is an alias of but .aliasdomains.
Named(o) == IF o.do = "none" THEN {} ELSE IF o.do = "alias" THEN {o.d} ELSE {o.d, o.e}

\* The domains that the steps p take out of a file.
Struck(p) ==
  {s.d : s \in {x \in Range(p) : x.do \in {"drop", "ifknown"}}}
  \cup {s.e : s \in {x \in Range(p) : x.do = "strike"}}

\* The domains a tool works on, the aliases of a domain that goes included.
Touched(t) == Named(op[t]) \cup Struck(prog[t])

\* Those of D that another tool is at, when one of the two removes something.
Overlap(t, o, D) ==
  {d \in D : \E u \in Tools \ {t} : (Removes(o) \/ Removes(op[u])) /\ d \in Touched(u)}

\* What was reported no longer counts.
Unsaid(o) ==
  [d \in Domains |-> IF d \in Named(o) /\ (Removes(o) \/ told[d] # "there") THEN "none" ELSE told[d]]

\* A tool is started; d is the domain to add, to delete or to be renamed, e the
\* one it is an alias of or its new name.  Only is_alias_domain() looks at where.
Begin(t, o) ==
  /\ op[t] = Idle
  /\ ops < MaxOps
  /\ ops' = ops + 1
  /\ o.do \in {"add", "del"} <=> o.d = o.e
  /\ o.cwd => Removes(o)
  /\ op' = [op EXCEPT ![t] = o]
  /\ prog' = [prog EXCEPT ![t] =
       CASE o.do = "add"    -> add(o.d)
         [] o.do = "alias"  -> alias(o.d, o.e)
         [] o.do = "del"    -> <<Edit("find", "assign", o.d, "stop")>>
         [] o.do = "rename" -> <<S("turn", "assign", o.d, o.e, "stop")>>]
  /\ mixed' = mixed \cup Overlap(t, o, Named(o))
  /\ told' = Unsaid(o)
  /\ UNCHANGED <<store, snap, full, faults>>

\* What an operation that succeeded says of a domain.  Of a name that has become a
\* link it claims nothing, and of a new name only if the directory was complete.
Report(o, d) ==
  CASE o.do = "add" /\ d = o.d /\ dir[d] # "link"    -> "there"
    [] o.do = "rename" /\ d = o.e /\ dir[d] = "full" -> "there"
    [] o.do \in {"del", "rename"} /\ d = o.d          -> "gone"
    [] o.do = "unlink" /\ d = o.d                     -> "unlinked"
    [] OTHER -> told[d]

\* The tool ends, with what it says of each domain.
Quit(t, say) ==
  LET rest == UNION {Touched(u) : u \in Tools \ {t}}
  IN /\ op' = [op EXCEPT ![t] = Idle]
     /\ prog' = [prog EXCEPT ![t] = <<>>]
     /\ snap' = [snap EXCEPT ![t] = {}]
     /\ full' = [full EXCEPT ![t] = FALSE]
     /\ told' = [d \in Domains |-> IF d \in mixed THEN told[d] ELSE say[d]]
     /\ mixed' = mixed \cap rest

Leave(t, ok) == Quit(t, [d \in Domains |-> IF ok THEN Report(op[t], d) ELSE told[d]])

-----------------------------------------------------------------------------
(* Steps *)

At(t, do) == prog[t] # <<>> /\ Head(prog[t]).do = do
Now(t) == Head(prog[t])

\* The step is done and the program goes on with p.
GoTo(t, p) == prog' = [prog EXCEPT ![t] = p] /\ UNCHANGED <<op, told, mixed, snap, full>>
Go(t) == GoTo(t, Tail(prog[t]))

\* An addition is taken back by p.  That is no excuse for a domain somebody
\* else has added.
Undo(t, p) ==
  LET o == [op[t] EXCEPT !.do = "undo"]
  IN /\ prog' = [prog EXCEPT ![t] = p]
     /\ op' = [op EXCEPT ![t] = o]
     /\ mixed' = mixed \cup Overlap(t, o, Named(o))
     /\ UNCHANGED <<told, snap, full>>

\* deldomain(), which vadddomain calls when a late step fails.
UndoAll(d) == <<Edit("find", "assign", d, "stop"), Edit("failed", "none", d, "skip")>>

\* get_assign() reads users/cdb: the domain to be added must not be there ...
Absent(t) ==
  /\ At(t, "absent")
  /\ IF Now(t).d \in cdb THEN Leave(t, FALSE) ELSE Go(t)
  /\ UNCHANGED <<store, ops, faults>>

\* ... and the one it is to be an alias of must.
Present(t) ==
  /\ At(t, "present")
  /\ IF Now(t).d \in cdb THEN Go(t) ELSE Leave(t, FALSE)
  /\ UNCHANGED <<store, ops, faults>>

\* vdeldomain, or the deletion an addition or the renaming of an alias ends with,
\* goes on if it is there; from here on the tool only deletes.
Find(t) ==
  /\ At(t, "find")
  /\ LET d == Now(t).d
         cwd == op[t].cwd
         kind == IF is_alias_domain(d, cwd) THEN "unlink" ELSE "del"
         gone == Listed(d, cwd)
     IN IF d \in cdb
          THEN /\ \E s \in SetToSeqs(gone) : prog' = [prog EXCEPT ![t] = deldomain(d, cwd, s) \o Tail(@)]
               /\ op' = [op EXCEPT ![t].do = IF @ = "undo" THEN @ ELSE kind]
               /\ mixed' = mixed \cup Overlap(t, op[t], gone)
               /\ told' = [a \in Domains |-> IF a \in gone THEN "none" ELSE told[a]]
               /\ UNCHANGED <<snap, full>>
          ELSE Leave(t, FALSE)
  /\ UNCHANGED <<store, ops, faults>>

\* vrenamedomain: the old name must be known and the new one in no file; an
\* alias is renamed by adding another one and deleting it.
Turn(t) ==
  /\ At(t, "turn")
  /\ LET d == Now(t).d
         e == Now(t).e
     IN IF d \notin cdb \/ e \in cdb \cup file["rcpthosts"] \cup file["morercpthosts"]
          THEN Leave(t, FALSE)
          ELSE GoTo(t, IF is_alias_domain(d, op[t].cwd)
                         THEN alias(e, link[d].to) \o <<Edit("find", "assign", d, "stop")>>
                         ELSE rename(d, e))
  /\ UNCHANGED <<store, ops, faults>>

\* remove_alias_domain() takes an alias that was struck off the list out of assign
\* and the control files, unless it is unknown.
IfKnown(t) ==
  /\ At(t, "ifknown")
  /\ LET d == Now(t).d
     IN GoTo(t, IF d \in cdb THEN del_domain_assign(d, "stop") \o del_control(d, "skip") \o Tail(prog[t])
                             ELSE Tail(prog[t]))
  /\ UNCHANGED <<store, ops, faults>>

\* update_file() and remove_line() on a control file.
Put(t) ==
  /\ At(t, "put")
  /\ file' = [file EXCEPT ![Now(t).f] = @ \cup {Now(t).d}]
  /\ Go(t)
  /\ UNCHANGED <<cdb, dir, link, aliases, hasAliases, rows, ops, faults>>

Drop(t) ==
  /\ At(t, "drop")
  /\ file' = [file EXCEPT ![Now(t).f] = @ \ {Now(t).d}]
  /\ Go(t)
  /\ UNCHANGED <<cdb, dir, link, aliases, hasAliases, rows, ops, faults>>

\* count_rcpthosts(), and the file it leads to.
Count(t) ==
  /\ At(t, "count")
  /\ full' = [full EXCEPT ![t] = Cardinality(file["rcpthosts"]) >= MaxRcpt]
  /\ prog' = [prog EXCEPT ![t] = Tail(@)]
  /\ UNCHANGED <<store, op, snap, told, mixed, ops, faults>>

Rcpt(t) ==
  /\ At(t, "rcpt")
  /\ file' = [file EXCEPT ![IF full[t] THEN "morercpthosts" ELSE "rcpthosts"] = @ \cup {Now(t).d}]
  /\ Go(t)
  /\ UNCHANGED <<cdb, dir, link, aliases, hasAliases, rows, ops, faults>>

\* Mutant of Compile: the line that ends the file is an entry too.
Compile_Dot(t) ==
  /\ At(t, "compile")
  /\ snap' = [snap EXCEPT ![t] = file["assign"] \cup {"."}]
  /\ prog' = [prog EXCEPT ![t] = Tail(@)]
  /\ UNCHANGED <<store, op, full, told, mixed, ops, faults>>

\* qmail-newu reads assign ...
Compile(t) ==
  /\ At(t, "compile")
  /\ snap' = [snap EXCEPT ![t] = file["assign"]]
  /\ prog' = [prog EXCEPT ![t] = Tail(@)]
  /\ UNCHANGED <<store, op, full, told, mixed, ops, faults>>

\* ... and renames what it has made of it.
Install(t) ==
  /\ At(t, "install")
  /\ cdb' = snap[t]
  /\ snap' = [snap EXCEPT ![t] = {}]
  /\ prog' = [prog EXCEPT ![t] = Tail(@)]
  /\ UNCHANGED <<file, dir, link, aliases, hasAliases, rows, op, full, told, mixed, ops, faults>>

\* r_mkdir() of the directory and of the one for bulk mail in it: a directory
\* that is there already does not matter, a link that leads nowhere does.
Mkdir(t) ==
  /\ At(t, "mkdir")
  /\ LET d == Now(t).d
     IN IF dir[Resolve(d)] = "none" /\ dir[d] = "link"
          THEN Leave(t, FALSE) /\ UNCHANGED dir
          ELSE dir' = [dir EXCEPT ![d] = IF @ = "none" THEN "bare" ELSE @] /\ Go(t)
  /\ UNCHANGED <<file, cdb, link, aliases, hasAliases, rows, ops, faults>>

\* Mutant of Excl: without O_EXCL.
Excl_Shared(t) ==
  /\ At(t, "excl")
  /\ dir' = [dir EXCEPT ![Resolve(Now(t).d)] = "full"]
  /\ Go(t)
  /\ UNCHANGED <<file, cdb, link, aliases, hasAliases, rows, ops, faults>>

\* .qmail-default is made with O_EXCL, whoever else has made the directory.
Excl(t) ==
  /\ At(t, "excl")
  /\ LET d == Resolve(Now(t).d)
     IN IF dir[d] = "bare"
          THEN dir' = [dir EXCEPT ![d] = "full"] /\ Go(t)
          ELSE Leave(t, FALSE) /\ UNCHANGED dir
  /\ UNCHANGED <<file, cdb, link, aliases, hasAliases, rows, ops, faults>>

\* symlink() of the alias domain.
Symlink(t) ==
  /\ At(t, "symlink")
  /\ LET d == Now(t).d
     IN IF dir[d] = "none"
          THEN /\ dir' = [dir EXCEPT ![d] = "link"]
               /\ link' = [link EXCEPT ![d] = [to |-> Now(t).e, abs |-> FALSE]]
               /\ Go(t)
          ELSE Leave(t, FALSE) /\ UNCHANGED <<dir, link>>
  /\ UNCHANGED <<file, cdb, aliases, hasAliases, rows, ops, faults>>

\* .aliasdomains of a domain gets and loses a line; it cannot be edited when
\* the directory is gone, and a line is taken out only of a file that exists.
Enlist(t) ==
  /\ At(t, "enlist")
  /\ LET d == Resolve(Now(t).d)
     IN IF dir[d] = "none"
          THEN Leave(t, FALSE) /\ UNCHANGED <<aliases, hasAliases>>
          ELSE /\ aliases' = [aliases EXCEPT ![d] = @ \cup {Now(t).e}]
               /\ hasAliases' = [hasAliases EXCEPT ![d] = TRUE]
               /\ Go(t)
  /\ UNCHANGED <<file, cdb, dir, link, rows, ops, faults>>

Strike(t) ==
  /\ At(t, "strike")
  /\ LET d == Resolve(Now(t).d)
     IN IF dir[d] = "none" \/ ~hasAliases[d]
          THEN Leave(t, FALSE) /\ UNCHANGED aliases
          ELSE /\ aliases' = [aliases EXCEPT ![d] = @ \ {Now(t).e}]
               /\ GoTo(t, <<Edit("ifknown", "assign", Now(t).e, "stop")>> \o Tail(prog[t]))
  /\ UNCHANGED <<file, cdb, dir, link, hasAliases, rows, ops, faults>>

\* vdelfiles(): a link is unlinked, not followed; deldomain() calls it only
\* when it sees something there, and so not for a link that leads nowhere.
Rmdir(t) ==
  /\ At(t, "rmdir")
  /\ LET d == Now(t).d
     IN IF Now(t).f = "seen" /\ dir[Resolve(d)] = "none"
          THEN /\ mixed' = IF dir[d] = "link" THEN mixed \cup {d} ELSE mixed
               /\ UNCHANGED <<dir, aliases, hasAliases>>
          ELSE /\ dir' = [dir EXCEPT ![d] = "none"]
               /\ aliases' = [aliases EXCEPT ![d] = {}]
               /\ hasAliases' = [hasAliases EXCEPT ![d] = FALSE]
               /\ UNCHANGED mixed
  /\ prog' = [prog EXCEPT ![t] = Tail(@)]
  /\ UNCHANGED <<file, cdb, link, rows, op, told, snap, full, ops, faults>>

\* sql_adddomain() makes tables if there are none.
Tables(t) ==
  /\ At(t, "tables")
  /\ Go(t)
  /\ UNCHANGED <<store, ops, faults>>

\* iadduser() of the postmaster, which asks get_assign() for the directory; when
\* it fails the domain is deleted again.
Postmaster(t) ==
  /\ At(t, "postmaster")
  /\ LET d == Now(t).d
     IN IF d \in cdb
          THEN rows' = rows \cup {d} /\ Go(t)
          ELSE Undo(t, UndoAll(d)) /\ UNCHANGED rows
  /\ UNCHANGED <<file, cdb, dir, link, aliases, hasAliases, ops, faults>>

\* sql_deldomain() and sql_renamedomain().
NoRows(t) ==
  /\ At(t, "norows")
  /\ rows' = rows \ {Now(t).d}
  /\ Go(t)
  /\ UNCHANGED <<file, cdb, dir, link, aliases, hasAliases, ops, faults>>

MvRows(t) ==
  /\ At(t, "mvrows")
  /\ rows' = IF Now(t).d \in rows THEN (rows \ {Now(t).d}) \cup {Now(t).e} ELSE rows
  /\ Go(t)
  /\ UNCHANGED <<file, cdb, dir, link, aliases, hasAliases, ops, faults>>

\* rename() of the directory, of a link too.
MvDir(t) ==
  /\ At(t, "mvdir")
  /\ LET d == Now(t).d
         e == Now(t).e
     IN IF dir[d] = "none" \/ dir[e] # "none"
          THEN Leave(t, FALSE) /\ UNCHANGED <<dir, link, aliases, hasAliases>>
          ELSE /\ dir' = [dir EXCEPT ![e] = dir[d], ![d] = "none"]
               /\ link' = [link EXCEPT ![e] = link[d]]
               /\ aliases' = [aliases EXCEPT ![e] = aliases[d], ![d] = {}]
               /\ hasAliases' = [hasAliases EXCEPT ![e] = hasAliases[d], ![d] = FALSE]
               /\ Go(t)
  /\ UNCHANGED <<file, cdb, rows, ops, faults>>

\* The alias domains are linked to the new name, by an absolute path; without
\* .aliasdomains the program returns here.
Relink(t) ==
  /\ At(t, "relink")
  /\ LET d == Now(t).d
         e == Resolve(Now(t).e)
         moved == {a \in aliases[e] : a \in cdb /\ dir[a] = "link" /\ link[a] = [to |-> d, abs |-> FALSE]}
     IN IF dir[e] = "none" \/ ~hasAliases[e]
          THEN Leave(t, FALSE) /\ UNCHANGED link
          ELSE /\ link' = [a \in Domains |-> IF a \in moved THEN [to |-> Now(t).e, abs |-> TRUE] ELSE link[a]]
               /\ Go(t)
  /\ UNCHANGED <<file, cdb, dir, aliases, hasAliases, rows, ops, faults>>

\* The end of an addition that was taken back.
Failed(t) ==
  /\ At(t, "failed")
  /\ Quit(t, [told EXCEPT ![Now(t).d] = "rolled"])
  /\ UNCHANGED <<store, ops, faults>>

\* The end of an operation.
End(t) ==
  /\ op[t] # Idle
  /\ prog[t] = <<>>
  /\ Leave(t, TRUE)
  /\ UNCHANGED <<store, ops, faults>>

\* Steps that are no system call of their own and do not fail.
Checks == {"absent", "present", "find", "turn", "ifknown", "failed"}

\* A step fails.  What it should have done is not done, but vdelfiles() may have
\* removed .qmail-default, and the second of the two edits of virtualdomains may
\* have succeeded.
Fail(t) ==
  /\ prog[t] # <<>>
  /\ Now(t).do \notin Checks
  /\ faults < MaxFaults
  /\ faults' = faults + 1
  /\ LET s == Now(t)
         p == prog[t]
     IN /\ \/ s.fail = "stop" /\ Leave(t, FALSE)
           \/ s.fail \in DOMAIN Over /\ GoTo(t, SubSeq(p, 2 + Over[s.fail], Len(p)))
           \/ s.fail = "again" /\ GoTo(t, <<Edit("drop", s.f, s.d, "skip")>> \o Tail(p))
           \/ s.fail = "rollback" /\ Undo(t, Rollback(s.d))
           \/ s.fail = "undo" /\ Undo(t, UndoAll(s.d))
        /\ \/ UNCHANGED <<file, dir>>
           \/ /\ s.do = "drop" /\ s.f = "virtualdomains"
              /\ file' = [file EXCEPT ![s.f] = @ \ {s.d}]
              /\ UNCHANGED dir
           \/ /\ s.do = "rmdir" /\ dir[s.d] = "full"
              /\ dir' = [dir EXCEPT ![s.d] = "bare"]
              /\ UNCHANGED file
  /\ UNCHANGED <<cdb, link, aliases, hasAliases, rows, ops>>

\* The tool is killed between two steps.
Crash(t) ==
  /\ op[t] # Idle
  /\ faults < MaxFaults
  /\ faults' = faults + 1
  /\ Leave(t, FALSE)
  /\ UNCHANGED <<store, ops>>

Step(t) ==
  \/ Absent(t) \/ Present(t) \/ Find(t) \/ Turn(t) \/ IfKnown(t)
  \/ Put(t) \/ Drop(t) \/ Count(t) \/ Rcpt(t) \/ Compile(t) \/ Install(t)
  \/ Mkdir(t) \/ Excl(t) \/ Symlink(t) \/ Enlist(t) \/ Strike(t) \/ Rmdir(t)
  \/ Tables(t) \/ Postmaster(t) \/ NoRows(t) \/ MvRows(t) \/ MvDir(t) \/ Relink(t)
  \/ Failed(t) \/ End(t)

Operations == [do : Ops, d : Domains, e : Domains, cwd : BOOLEAN]

Next ==
  \E t \in Tools : \/ \E o \in Operations : Begin(t, o)
                   \/ Step(t) \/ Fail(t) \/ Crash(t)

Spec == Init /\ [][Next]_vars

-----------------------------------------------------------------------------
(* Properties *)

\* The variables have their types.
TypeOK ==
  /\ file \in [Files -> SUBSET Domains]
  /\ cdb \in SUBSET Domains /\ rows \in SUBSET Domains
  /\ dir \in [Domains -> {"none", "bare", "full", "link"}]
  /\ link \in [Domains -> [to : Domains, abs : BOOLEAN]]
  /\ aliases \in [Domains -> SUBSET Domains] /\ hasAliases \in [Domains -> BOOLEAN]
  /\ op \in [Tools -> {Idle} \cup [do : Ops \cup {"del", "unlink", "undo"}, d : Domains, e : Domains, cwd : BOOLEAN]]
  /\ snap \in [Tools -> SUBSET Domains] /\ full \in [Tools -> BOOLEAN]
  /\ told \in [Domains -> {"none", "there", "gone", "unlinked", "rolled"}]
  /\ mixed \in SUBSET Domains
  /\ ops \in 0..MaxOps /\ faults \in 0..MaxFaults

\* Where mail for d is accepted.
Accepted == file["rcpthosts"] \cup file["morercpthosts"]

\* iadddomain.c:187: when vadddomain or vrenamedomain has reported success and
\* nobody was removing that domain meanwhile, the domain is complete and stays
\* so until it is deleted or renamed, whatever is added beside it.
AddedStays ==
  \A d \in Domains : told[d] = "there" =>
    /\ dir[d] = "full"
    /\ d \in file["assign"] /\ d \in file["virtualdomains"] /\ d \in Accepted
    /\ d \notin file["locals"]

\* deldomain.c:262: when vdeldomain or vrenamedomain has reported success and
\* nobody else was at that domain, nothing of the name is left (but see
\* morercpthosts, chkrcptdomains when its edit has failed, and a link that
\* leads nowhere, which vdelfiles() is not called for), and of a domain that
\* was no alias no users either.
DeletedGone ==
  \A d \in Domains : told[d] \in {"gone", "unlinked"} =>
    /\ dir[d] = "none"
    /\ d \notin file["assign"] \cup file["virtualdomains"]
    /\ d \in file["rcpthosts"] => faults > 1
    /\ d \in file["chkrcptdomains"] => faults > 0
    /\ told[d] = "gone" => d \notin rows

\* iadddomain.c:261-271, vadddomain.c:688: when an addition is taken back because
\* one of its last steps failed, and no other step fails, the control files and
\* the directory are as if it had never been tried (but see morercpthosts).
RolledBack ==
  \A d \in Domains : told[d] = "rolled" /\ faults <= 1 =>
    /\ dir[d] = "none"
    /\ d \notin file["assign"] \cup file["virtualdomains"] \cup file["rcpthosts"]
=============================================================================

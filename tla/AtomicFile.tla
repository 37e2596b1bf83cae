----------------------------- MODULE AtomicFile -----------------------------
(***************************************************************************)
(* What the callers of update_file() and remove_line() rely on: a control  *)
(* file (rcpthosts, virtualdomains, users/assign, ...) is a set of lines,  *)
(* every process changes it by one edit that happens at once or not at     *)
(* all, and a program that reads the file at any moment sees the lines     *)
(* before or after an edit.  ControlFile is shown to implement this for    *)
(* two processes that edit an existing file once each.                     *)
(***************************************************************************)
EXTENDS SequencesExt

CONSTANTS
  Proc          \* the processes

VARIABLES
  edit,         \* the edit each process makes: [op |-> ..., line |-> ...]
  lines,        \* the lines a reader of the file sees
  todo,         \* the processes whose edit is still to come
  made          \* the processes whose edit has been made

vars == <<edit, lines, todo, made>>

(***************************************************************************)
(* The meaning of an edit.  Adding a line that is there already changes    *)
(* nothing, and removing a line removes that line and no other; only the   *)
(* "removep" edit is meant to remove every line with the given prefix.     *)
(***************************************************************************)
Effect(e, s) ==
  CASE e.op = "update"                 -> s \cup {e.line}
    [] e.op \in {"remove", "removeall"} -> s \ {e.line}
    [] e.op = "removep"                -> {l \in s : ~IsPrefix(e.line, l)}

\* The edit of p takes place.
Edit(p) ==
  /\ p \in todo
  /\ lines' = Effect(edit[p], lines)
  /\ todo' = todo \ {p}
  /\ made' = made \cup {p}
  /\ UNCHANGED edit

\* The edit of p fails, or p dies: the file is left as it was.
GiveUp(p) ==
  /\ p \in todo
  /\ todo' = todo \ {p}
  /\ UNCHANGED <<edit, lines, made>>

Init == todo = Proc /\ made = {}

Next == \E p \in Proc : Edit(p) \/ GiveUp(p)

Spec == Init /\ [][Next]_vars
=============================================================================

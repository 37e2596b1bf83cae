----------------------------- MODULE DirControl -----------------------------
(***************************************************************************)
(* The directory structure layout of a filesystem: user directories are    *)
(* spread over at most three levels of directories, named by one character *)
(* of dirlist each, and inc_dir_control() moves on to the next directory   *)
(* whenever the number of users reaches a multiple of users_per_level.     *)
(*                                                                         *)
(* A vdir_type is a record; the characters of dirlist are 0..List-1 and    *)
(* the_dir[k] is the character at offset level_mod[k] = 2*k of the string, *)
(* Nul behind its end.  level_start is 0 and level_end is List-1 in every  *)
(* row that vcreate_dir_control() and init_dir_control() make.             *)
(***************************************************************************)
EXTENDS Integers, Sequences

CONSTANTS
  List,             \* MAX_DIR_LIST, the number of characters
  users_per_level   \* how many users are to share a directory

ASSUME ListAssumption == List \in Nat /\ List >= 2
ASSUME LevelAssumption == users_per_level \in Nat \ {0}

MAX_DIR_LEVELS == 3
Levels == 0..(MAX_DIR_LEVELS - 1)
Nul == -1
End == List - 1

VdirType == [cur_users : Nat, level_cur : Levels,
             level_index : [Levels -> 0..List],
             the_dir : [Levels -> Nul..End]]

init_dir_control ==
  [cur_users |-> 0, level_cur |-> 0, level_index |-> [k \in Levels |-> 0],
   the_dir |-> [k \in Levels |-> Nul]]

-----------------------------------------------------------------------------
\* The character after c in dirlist; the first one after the last and after Nul.
next_char(c) == IF c \in {Nul, End} THEN 0 ELSE c + 1

\* Mutant of inc_dir: no carry to the level above.
inc_dir_NoCarry(v, l) ==
  IF v.the_dir[l] = End
    THEN [v EXCEPT !.the_dir[l] = 0, !.level_index[l] = 0]
    ELSE [v EXCEPT !.the_dir[l] = next_char(@), !.level_index[l] = @ + 1]

(***************************************************************************)
(* inc_dir(): the next character at level l.  The levels above l, from l   *)
(* upwards, that are at the last character start again, and the one above  *)
(* these, where there is one, moves on.                                    *)
(***************************************************************************)
Wraps(v, l) == {k \in 0..l : \A j \in k..l : v.the_dir[j] = End}
Moves(v, l) == {k \in 0..l : k \notin Wraps(v, l) /\ (k + 1)..l \subseteq Wraps(v, l)}

inc_dir(v, l) ==
  [v EXCEPT
    !.the_dir = [k \in Levels |-> IF k \in Wraps(v, l) THEN 0
                                  ELSE IF k \in Moves(v, l) THEN next_char(v.the_dir[k])
                                  ELSE v.the_dir[k]],
    !.level_index = [k \in Levels |-> IF k \in Wraps(v, l) THEN 0
                                      ELSE IF k \in Moves(v, l) THEN v.level_index[k] + 1
                                      ELSE v.level_index[k]]]

\* Mutant of Deepens: the index of the first level is not looked at.
Deepens_Any(v) == v.level_cur < 2 /\ v.level_index[v.level_cur] = End

(***************************************************************************)
(* The level is full and another one is opened below it.  The index of a   *)
(* level just opened is one ahead of its character, so for the second      *)
(* level the index of the first is looked at as well.                      *)
(***************************************************************************)
Deepens(v) ==
  /\ v.level_index[v.level_cur] = End
  /\ \/ v.level_cur = 0
     \/ v.level_cur = 1 /\ v.level_index[0] = End

\* The next directory.
NextDir(v) ==
  IF v.the_dir[0] = Nul
    THEN [v EXCEPT !.the_dir[0] = 0]
    ELSE LET w == IF Deepens(v)
                    THEN [inc_dir(v, v.level_cur) EXCEPT !.level_cur = @ + 1]
                    ELSE v
         IN  inc_dir(w, w.level_cur)

\* One more user.
inc_dir_control(v) ==
  LET w == [v EXCEPT !.cur_users = @ + 1]
  IN  IF w.cur_users % users_per_level = 0 THEN NextDir(w) ELSE w

\* The string the_dir: the characters of the levels in use.
DirName(v) ==
  CASE v.the_dir[0] = Nul -> <<>>
    [] v.the_dir[0] # Nul /\ v.level_cur = 0 -> <<v.the_dir[0]>>
    [] v.the_dir[0] # Nul /\ v.level_cur = 1 -> <<v.the_dir[0], v.the_dir[1]>>
    [] v.the_dir[0] # Nul /\ v.level_cur = 2 ->
         <<v.the_dir[0], v.the_dir[1], v.the_dir[2]>>

-----------------------------------------------------------------------------
(***************************************************************************)
(* A row the layout can go on from: the levels in use have a character and *)
(* the others none, and the index of a level is that of its character, but *)
(* for the first round of a level just opened, where it is one ahead.      *)
(***************************************************************************)
WellFormed(v) ==
  /\ v \in VdirType
  /\ v.the_dir[0] = Nul => v.level_cur = 0
  /\ \A k \in Levels : (k > v.level_cur) => (v.the_dir[k] = Nul)
  /\ \A k \in Levels \ {0} : (k <= v.level_cur) => (v.the_dir[k] # Nul)
  /\ \A k \in Levels : (v.the_dir[k] = Nul) => (v.level_index[k] = 0)
  /\ \A k \in Levels : (v.the_dir[k] # Nul) =>
       \/ v.level_index[k] = v.the_dir[k]
       \/ /\ v.level_index[k] = v.the_dir[k] + 1
          /\ k = v.level_cur /\ k > 0
          /\ \A j \in 0..(k - 1) : v.the_dir[j] = 0
=============================================================================

----------------------------- MODULE DirLayout ------------------------------
(***************************************************************************)
(* The directory structure layout while users are only added, one after    *)
(* the other.                                                              *)
(***************************************************************************)
EXTENDS DirControl

CONSTANT MaxUsers   \* how many users are added

ASSUME UsersAssumption == MaxUsers \in Nat

VARIABLES
  vdir,             \* the row of dir_control
  used              \* used[i]: the directory of the i-th user

vars == <<vdir, used>>

Init == vdir = init_dir_control /\ used = <<>>

\* make_user_dir(): open_big_dir(), next_big_dir(), close_big_dir().
AddUser ==
  /\ vdir.cur_users < MaxUsers
  /\ vdir' = inc_dir_control(vdir)
  /\ used' = Append(used, DirName(vdir'))

Next == AddUser
Spec == Init /\ [][Next]_vars

-----------------------------------------------------------------------------
(***************************************************************************)
(* The numbering the layout is meant to follow: the domain directory, then *)
(* the List directories of one level, the List^2 of two and the List^3 of  *)
(* three levels, and these again.                                          *)
(***************************************************************************)
Nth(n) ==
  LET i == n - 1
      j == i - List
      k == (j - List * List) % (List * List * List)
  IN  CASE n = 0 -> <<>>
        [] n > 0 /\ i < List -> <<i>>
        [] n > 0 /\ i >= List /\ j < List * List -> <<j \div List, j % List>>
        [] n > 0 /\ i >= List /\ j >= List * List ->
             <<k \div (List * List), (k \div List) % List, k % List>>

(***************************************************************************)
(* The carries, the wrap-arounds and the two places where a level is       *)
(* opened take the layout through the directories in the order of Nth,     *)
(* each for users_per_level users, and leave none out.                     *)
(***************************************************************************)
InOrder ==
  \A i \in 1..Len(used) : used[i] = Nth(i \div users_per_level)
=============================================================================

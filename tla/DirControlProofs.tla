-------------------------- MODULE DirControlProofs --------------------------
(***************************************************************************)
(* What inc_dir_control() makes of a row: a well-formed row stays one, and *)
(* its directory is followed by the next one.                              *)
(***************************************************************************)
EXTENDS DirControl, TLAPS

\* A row whose indices are not bounded: what inc_dir() makes of a row.
LooseRow == [cur_users : Nat, level_cur : Levels, level_index : [Levels -> Nat],
             the_dir : [Levels -> Nul..End]]

\* What next_char() of a character is.
LEMMA NextChar ==
  ASSUME NEW c \in Nul..End
  PROVE  /\ next_char(c) \in 0..End
         /\ c # End => next_char(c) = c + 1
  BY ListAssumption DEF next_char, Nul, End

\* The three levels.
LEMMA ThreeLevels == Levels = {0, 1, 2}
  BY DEF Levels, MAX_DIR_LEVELS

\* inc_dir() level by level.
LEMMA IncDir ==
  ASSUME NEW v \in LooseRow, NEW l \in Levels
  PROVE  LET w == inc_dir(v, l) IN
         /\ w \in LooseRow
         /\ w.cur_users = v.cur_users /\ w.level_cur = v.level_cur
         /\ \A k \in Levels :
              /\ k \in Wraps(v, l) => w.the_dir[k] = 0 /\ w.level_index[k] = 0
              /\ k \in Moves(v, l) /\ v.the_dir[k] # End =>
                   /\ w.the_dir[k] = v.the_dir[k] + 1
                   /\ w.level_index[k] = v.level_index[k] + 1
              /\ k \notin Wraps(v, l) \cup Moves(v, l) =>
                   /\ w.the_dir[k] = v.the_dir[k]
                   /\ w.level_index[k] = v.level_index[k]
<1> DEFINE D == [k \in Levels |-> IF k \in Wraps(v, l) THEN 0
                                  ELSE IF k \in Moves(v, l) THEN next_char(v.the_dir[k])
                                  ELSE v.the_dir[k]]
           I == [k \in Levels |-> IF k \in Wraps(v, l) THEN 0
                                      ELSE IF k \in Moves(v, l) THEN v.level_index[k] + 1
                                      ELSE v.level_index[k]]
           w == inc_dir(v, l)
<1>1. w = [v EXCEPT !.the_dir = D, !.level_index = I]
  BY DEF inc_dir
<1>2. \A k \in Levels : v.the_dir[k] \in Nul..End /\ v.level_index[k] \in Nat
  BY DEF LooseRow
<1>3. \A k \in Levels : /\ next_char(v.the_dir[k]) \in 0..End
                        /\ v.the_dir[k] # End => next_char(v.the_dir[k]) = v.the_dir[k] + 1
  BY <1>2, NextChar
<1>4. \A k \in Levels : k \in Moves(v, l) => k \notin Wraps(v, l)
  BY DEF Moves
<1>5. D \in [Levels -> Nul..End] /\ I \in [Levels -> Nat]
  BY <1>2, <1>3, ListAssumption DEF Nul, End
<1>6. \A k \in Levels :
              /\ k \in Wraps(v, l) => D[k] = 0 /\ I[k] = 0
              /\ k \in Moves(v, l) /\ v.the_dir[k] # End =>
                   /\ D[k] = v.the_dir[k] + 1
                   /\ I[k] = v.level_index[k] + 1
              /\ k \notin Wraps(v, l) \cup Moves(v, l) =>
                   /\ D[k] = v.the_dir[k]
                   /\ I[k] = v.level_index[k]
  BY <1>3, <1>4
<1> HIDE DEF D, I, w
<1>7. w.the_dir = D /\ w.level_index = I /\ w.cur_users = v.cur_users /\ w.level_cur = v.level_cur
  BY <1>1 DEF LooseRow
<1>8. w \in LooseRow
  BY <1>1, <1>5 DEF LooseRow
<1> QED BY <1>6, <1>7, <1>8 DEF w

\* Which levels start again and which move on.
LEMMA WrapsMoves ==
  ASSUME NEW v, NEW l \in Levels
  PROVE  /\ \A k \in Levels : k > l => k \notin Wraps(v, l) /\ k \notin Moves(v, l)
         /\ v.the_dir[l] # End => Wraps(v, l) = {} /\ Moves(v, l) = {l}
         /\ v.the_dir[l] = End => l \in Wraps(v, l)
         /\ l >= 1 /\ v.the_dir[l] = End /\ v.the_dir[l - 1] # End =>
               Wraps(v, l) = {l} /\ Moves(v, l) = {l - 1}
         /\ l >= 1 /\ v.the_dir[l] = End /\ v.the_dir[l - 1] = End =>
               l - 1 \in Wraps(v, l)
         /\ l = 2 /\ v.the_dir[2] = End /\ v.the_dir[1] = End /\ v.the_dir[0] # End =>
               Wraps(v, l) = {1, 2} /\ Moves(v, l) = {0}
         /\ l = 2 /\ v.the_dir[2] = End /\ v.the_dir[1] = End /\ v.the_dir[0] = End =>
               0 \in Wraps(v, l)
  BY ThreeLevels DEF Wraps, Moves

\* A well-formed row, with its bounds left out.
LEMMA WellFormedLoose ==
  ASSUME NEW v, WellFormed(v)
  PROVE  v \in LooseRow
  BY ListAssumption DEF WellFormed, VdirType, LooseRow

(***************************************************************************)
(* A loose row that is well formed but for the bound of the indices.       *)
(***************************************************************************)
Shape(v) ==
  /\ v.the_dir[0] = Nul => v.level_cur = 0
  /\ \A k \in Levels : (k > v.level_cur) => (v.the_dir[k] = Nul)
  /\ \A k \in Levels \ {0} : (k <= v.level_cur) => (v.the_dir[k] # Nul)
  /\ \A k \in Levels : (v.the_dir[k] = Nul) => (v.level_index[k] = 0)
  /\ \A k \in Levels : (v.the_dir[k] # Nul) =>
       \/ v.level_index[k] = v.the_dir[k]
       \/ /\ v.level_index[k] = v.the_dir[k] + 1
          /\ k = v.level_cur /\ k > 0
          /\ \A j \in 0..(k - 1) : v.the_dir[j] = 0

LEMMA ShapeBounds ==
  ASSUME NEW v \in LooseRow, Shape(v)
  PROVE  WellFormed(v)
<1>1. \A k \in Levels : v.the_dir[k] \in Nul..End /\ v.level_index[k] \in Nat
  BY DEF LooseRow
<1>2. \A k \in Levels : v.level_index[k] \in 0..List
  BY <1>1, ListAssumption DEF Shape, Nul, End
<1>3. v.level_index \in [Levels -> 0..List]
  BY <1>2 DEF LooseRow
<1>4. v \in VdirType
  BY <1>3 DEF LooseRow, VdirType
<1> QED BY <1>4 DEF WellFormed, Shape

\* inc_dir() at the deepest level in use, which is not about to be deepened.
LEMMA IncDirShape ==
  ASSUME NEW v, WellFormed(v), v.the_dir[0] # Nul, ~Deepens(v)
  PROVE  WellFormed(inc_dir(v, v.level_cur))
<1> DEFINE w == inc_dir(v, v.level_cur)
<1>1. v \in LooseRow /\ v.level_cur \in Levels
  BY WellFormedLoose DEF LooseRow
<1>2. \A k \in Levels : v.the_dir[k] \in Nul..End /\ v.level_index[k] \in Nat
  BY <1>1 DEF LooseRow
<1>3. /\ w \in LooseRow
      /\ w.cur_users = v.cur_users /\ w.level_cur = v.level_cur
      /\ \A k \in Levels :
           /\ k \in Wraps(v, v.level_cur) => w.the_dir[k] = 0 /\ w.level_index[k] = 0
           /\ k \in Moves(v, v.level_cur) /\ v.the_dir[k] # End =>
                /\ w.the_dir[k] = v.the_dir[k] + 1
                /\ w.level_index[k] = v.level_index[k] + 1
           /\ k \notin Wraps(v, v.level_cur) \cup Moves(v, v.level_cur) =>
                /\ w.the_dir[k] = v.the_dir[k]
                /\ w.level_index[k] = v.level_index[k]
  BY <1>1, IncDir
<1> HIDE DEF w
<1>4. \A k \in Levels : w.the_dir[k] \in Nul..End /\ w.level_index[k] \in Nat
  BY <1>3 DEF LooseRow
<1>5. Shape(v)
  BY DEF WellFormed, Shape
<1>6. CASE v.level_cur = 0
  <2>1. v.the_dir[0] # End
    BY <1>2, <1>5, <1>6, ThreeLevels DEF Shape, Deepens
  <2>2. Wraps(v, 0) = {} /\ Moves(v, 0) = {0}
    BY <2>1, ThreeLevels, WrapsMoves
  <2>3. Shape(w)
    BY <1>2, <1>3, <1>4, <1>5, <1>6, <2>1, <2>2, ThreeLevels, ListAssumption DEF Shape, Nul, End
  <2> QED BY <1>3, <2>3, ShapeBounds DEF w
<1>7. CASE v.level_cur = 1
  <2>1. CASE v.the_dir[1] # End
    <3>1. Wraps(v, 1) = {} /\ Moves(v, 1) = {1}
      BY <2>1, ThreeLevels, WrapsMoves
    <3>2. Shape(w)
      BY <1>2, <1>3, <1>4, <1>5, <1>7, <2>1, <3>1, ThreeLevels, ListAssumption DEF Shape, Nul, End
    <3> QED BY <1>3, <3>2, ShapeBounds DEF w
  <2>2. CASE v.the_dir[1] = End /\ v.the_dir[0] # End
    <3>1. Wraps(v, 1) = {1} /\ Moves(v, 1) = {0}
      BY <2>2, ThreeLevels, WrapsMoves
    <3>2. Shape(w)
      BY <1>2, <1>3, <1>4, <1>5, <1>7, <2>2, <3>1, ThreeLevels, ListAssumption DEF Shape, Nul, End
    <3> QED BY <1>3, <3>2, ShapeBounds DEF w
  <2>3. v.the_dir[1] = End => v.the_dir[0] # End
    BY <1>2, <1>5, <1>7, ThreeLevels, ListAssumption DEF Shape, Deepens, Nul, End
  <2> QED BY <2>1, <2>2, <2>3
<1>8. CASE v.level_cur = 2
  <2>1. CASE v.the_dir[2] # End
    <3>1. Wraps(v, 2) = {} /\ Moves(v, 2) = {2}
      BY <2>1, ThreeLevels, WrapsMoves
    <3>2. Shape(w)
      BY <1>2, <1>3, <1>4, <1>5, <1>8, <2>1, <3>1, ThreeLevels, ListAssumption DEF Shape, Nul, End
    <3> QED BY <1>3, <3>2, ShapeBounds DEF w
  <2>2. CASE v.the_dir[2] = End /\ v.the_dir[1] # End
    <3>1. Wraps(v, 2) = {2} /\ Moves(v, 2) = {1}
      BY <2>2, ThreeLevels, WrapsMoves
    <3>2. Shape(w)
      BY <1>2, <1>3, <1>4, <1>5, <1>8, <2>2, <3>1, ThreeLevels, ListAssumption DEF Shape, Nul, End
    <3> QED BY <1>3, <3>2, ShapeBounds DEF w
  <2>3. CASE v.the_dir[2] = End /\ v.the_dir[1] = End /\ v.the_dir[0] # End
    <3>1. Wraps(v, 2) = {1, 2} /\ Moves(v, 2) = {0}
      BY <2>3, ThreeLevels, WrapsMoves
    <3>2. Shape(w)
      BY <1>2, <1>3, <1>4, <1>5, <1>8, <2>3, <3>1, ThreeLevels, ListAssumption DEF Shape, Nul, End
    <3> QED BY <1>3, <3>2, ShapeBounds DEF w
  <2>4. CASE v.the_dir[2] = End /\ v.the_dir[1] = End /\ v.the_dir[0] = End
    <3>1. {0, 1, 2} \subseteq Wraps(v, 2)
      BY <2>4, ThreeLevels, WrapsMoves
    <3>2. Shape(w)
      BY <1>2, <1>3, <1>4, <1>5, <1>8, <2>4, <3>1, ThreeLevels, ListAssumption DEF Shape, Nul, End
    <3> QED BY <1>3, <3>2, ShapeBounds DEF w
  <2> QED BY <2>1, <2>2, <2>3, <2>4
<1> QED BY <1>1, <1>6, <1>7, <1>8, ThreeLevels

\* w has a level more than v: all levels in use start again and the new one is
\* at its first character.
Opened(v, w) ==
  LET l == v.level_cur
  IN /\ l \in {0, 1} /\ \A k \in 0..l : v.the_dir[k] = End
     /\ w \in LooseRow /\ w.level_cur = l + 1 /\ w.cur_users = v.cur_users
     /\ \A k \in Levels : k <= l => w.the_dir[k] = 0 /\ w.level_index[k] = 0
     /\ w.the_dir[l + 1] = 0 /\ w.level_index[l + 1] = 1
     /\ \A k \in Levels : k > l + 1 => w.the_dir[k] = Nul /\ w.level_index[k] = 0

LEMMA DeepenOpens ==
  ASSUME NEW v, WellFormed(v), v.the_dir[0] # Nul, Deepens(v),
         NEW u, u = [inc_dir(v, v.level_cur) EXCEPT !.level_cur = @ + 1]
  PROVE  Opened(v, inc_dir(u, u.level_cur))
<1> DEFINE l == v.level_cur
           i == inc_dir(v, l)
           w == inc_dir(u, l + 1)
<1>1. v \in LooseRow /\ l \in {0, 1} /\ l \in Levels /\ l + 1 \in Levels
  BY WellFormedLoose, ThreeLevels DEF LooseRow, Deepens
<1>2. \A k \in Levels : v.the_dir[k] \in Nul..End /\ v.level_index[k] \in Nat
  BY <1>1 DEF LooseRow
<1>3. Shape(v)
  BY DEF WellFormed, Shape
<1>4. \A k \in 0..l : v.the_dir[k] = End
  BY <1>1, <1>2, <1>3, ThreeLevels, ListAssumption DEF Shape, Deepens, Nul, End
<1>5. \A k \in 0..l : k \in Wraps(v, l)
  BY <1>1, <1>4, ThreeLevels, WrapsMoves
<1>6. \A k \in Levels : k > l => v.the_dir[k] = Nul /\ v.level_index[k] = 0
  BY <1>1, <1>3, ThreeLevels DEF Shape
<1>7. /\ i \in LooseRow /\ i.level_cur = l /\ i.cur_users = v.cur_users
      /\ \A k \in Levels : k <= l => i.the_dir[k] = 0 /\ i.level_index[k] = 0
      /\ \A k \in Levels : k > l => i.the_dir[k] = Nul /\ i.level_index[k] = 0
  <2>1. /\ i \in LooseRow
        /\ i.cur_users = v.cur_users /\ i.level_cur = v.level_cur
        /\ \A k \in Levels :
             /\ k \in Wraps(v, l) => i.the_dir[k] = 0 /\ i.level_index[k] = 0
             /\ k \in Moves(v, l) /\ v.the_dir[k] # End =>
                  /\ i.the_dir[k] = v.the_dir[k] + 1
                  /\ i.level_index[k] = v.level_index[k] + 1
             /\ k \notin Wraps(v, l) \cup Moves(v, l) =>
                  /\ i.the_dir[k] = v.the_dir[k]
                  /\ i.level_index[k] = v.level_index[k]
    BY <1>1, IncDir
  <2> HIDE DEF i
  <2>2. \A k \in Levels : k > l => k \notin Wraps(v, l) \cup Moves(v, l)
    BY <1>1, WrapsMoves
  <2> QED BY <1>1, <1>5, <1>6, <2>1, <2>2, ThreeLevels
<1> HIDE DEF i
<1>8. u = [i EXCEPT !.level_cur = l + 1]
  BY <1>7 DEF i
<1>9. /\ u \in LooseRow /\ u.level_cur = l + 1 /\ u.cur_users = v.cur_users
      /\ u.the_dir = i.the_dir /\ u.level_index = i.level_index
  BY <1>1, <1>7, <1>8 DEF LooseRow
<1>10. u.the_dir[l + 1] # End
  BY <1>1, <1>7, <1>9, ListAssumption DEF Nul, End
<1>11. Wraps(u, l + 1) = {} /\ Moves(u, l + 1) = {l + 1}
  BY <1>1, <1>10, WrapsMoves
<1>12. /\ w \in LooseRow /\ w.level_cur = l + 1 /\ w.cur_users = v.cur_users
       /\ \A k \in Levels : k <= l => w.the_dir[k] = 0 /\ w.level_index[k] = 0
       /\ w.the_dir[l + 1] = 0 /\ w.level_index[l + 1] = 1
       /\ \A k \in Levels : k > l + 1 => w.the_dir[k] = Nul /\ w.level_index[k] = 0
  <2>1. /\ w \in LooseRow
        /\ w.cur_users = u.cur_users /\ w.level_cur = u.level_cur
        /\ \A k \in Levels :
             /\ k \in Wraps(u, l + 1) => w.the_dir[k] = 0 /\ w.level_index[k] = 0
             /\ k \in Moves(u, l + 1) /\ u.the_dir[k] # End =>
                  /\ w.the_dir[k] = u.the_dir[k] + 1
                  /\ w.level_index[k] = u.level_index[k] + 1
             /\ k \notin Wraps(u, l + 1) \cup Moves(u, l + 1) =>
                  /\ w.the_dir[k] = u.the_dir[k]
                  /\ w.level_index[k] = u.level_index[k]
    BY <1>1, <1>9, IncDir
  <2> HIDE DEF w
  <2> QED BY <1>1, <1>7, <1>9, <1>10, <1>11, <2>1, ThreeLevels DEF Nul
<1> HIDE DEF w
<1>13. Opened(v, w)
  BY <1>1, <1>4, <1>12 DEF Opened
<1> QED BY <1>9, <1>13 DEF w

LEMMA DeepenShape ==
  ASSUME NEW v, WellFormed(v), v.the_dir[0] # Nul, Deepens(v),
         NEW u, u = [inc_dir(v, v.level_cur) EXCEPT !.level_cur = @ + 1]
  PROVE  WellFormed(inc_dir(u, u.level_cur))
<1> DEFINE w == inc_dir(u, u.level_cur)
<1>1. Opened(v, w)
  BY DeepenOpens
<1> HIDE DEF w
<1>2. Shape(w)
  BY <1>1, ThreeLevels DEF Opened, Shape, Nul
<1>3. WellFormed(w)
  BY <1>1, <1>2, ShapeBounds DEF Opened
<1> QED BY <1>3 DEF w

\* Only the count of a row is changed.
LEMMA CountShape ==
  ASSUME NEW v, WellFormed(v), NEW n \in Nat
  PROVE  WellFormed([v EXCEPT !.cur_users = n])
<1> DEFINE w == [v EXCEPT !.cur_users = n]
<1>1. v \in LooseRow
  BY WellFormedLoose
<1>2. /\ w \in LooseRow /\ w.the_dir = v.the_dir /\ w.level_cur = v.level_cur
      /\ w.level_index = v.level_index
  BY <1>1 DEF LooseRow
<1> HIDE DEF w
<1>3. Shape(v)
  BY DEF WellFormed, Shape
<1>4. Shape(w)
  BY <1>2, <1>3 DEF Shape
<1> QED BY <1>2, <1>4, ShapeBounds DEF w

\* inc_dir_control() of a well-formed row is a well-formed row.
LEMMA IncWellFormed ==
  ASSUME NEW v, WellFormed(v)
  PROVE  WellFormed(inc_dir_control(v))
<1> DEFINE w == [v EXCEPT !.cur_users = @ + 1]
<1>1. v \in LooseRow
  BY WellFormedLoose
<1>2. v.cur_users + 1 \in Nat
  BY <1>1 DEF LooseRow
<1>3. WellFormed(w)
  BY <1>2, CountShape
<1> HIDE DEF w
<1>4. WellFormed(NextDir(w))
  <2>1. CASE w.the_dir[0] = Nul
    <3> DEFINE x == [w EXCEPT !.the_dir[0] = 0]
    <3>1. w \in LooseRow
      BY <1>3, WellFormedLoose
    <3>2. /\ x \in LooseRow /\ x.level_cur = w.level_cur
          /\ x.level_index = w.level_index
          /\ x.the_dir = [w.the_dir EXCEPT ![0] = 0]
      BY <3>1, ListAssumption, ThreeLevels DEF LooseRow, Nul, End
    <3>3. /\ x.the_dir[0] = 0 /\ x.the_dir[1] = w.the_dir[1]
          /\ x.the_dir[2] = w.the_dir[2]
      BY <3>1, <3>2, ThreeLevels DEF LooseRow
    <3> HIDE DEF x
    <3>4. Shape(w) /\ w.level_cur = 0
      BY <1>3, <2>1 DEF WellFormed, Shape
    <3>5. Shape(x)
      BY <2>1, <3>2, <3>3, <3>4, ThreeLevels DEF Shape, Nul
    <3>6. WellFormed(x)
      BY <3>2, <3>5, ShapeBounds
    <3> QED BY <2>1, <3>6 DEF NextDir, x
  <2>2. CASE w.the_dir[0] # Nul /\ Deepens(w)
    BY <1>3, <2>2, DeepenShape DEF NextDir
  <2>3. CASE w.the_dir[0] # Nul /\ ~Deepens(w)
    BY <1>3, <2>3, IncDirShape DEF NextDir
  <2> QED BY <2>1, <2>2, <2>3
<1> QED BY <1>3, <1>4 DEF inc_dir_control, w

\* What init_dir_control() makes is a well-formed row.
LEMMA InitWellFormed == WellFormed(init_dir_control)
<1>1. init_dir_control \in LooseRow
  BY ThreeLevels, ListAssumption DEF LooseRow, init_dir_control, Nul, End
<1>2. Shape(init_dir_control)
  BY ThreeLevels DEF Shape, init_dir_control, Nul
<1> QED BY <1>1, <1>2, ShapeBounds

-----------------------------------------------------------------------------
(***************************************************************************)
(* The directory after that of v is that of w.  The levels in use are the  *)
(* digits of a number; when all are at the last character another level is *)
(* opened, or the third starts again.                                      *)
(***************************************************************************)
Follows(v, w) ==
  LET d == v.the_dir
      e == w.the_dir
  IN \/ d[0] = Nul /\ w.level_cur = 0 /\ e[0] = 0
     \/ d[0] # Nul /\ v.level_cur = 0 /\ d[0] # End /\ w.level_cur = 0 /\ e[0] = d[0] + 1
     \/ /\ d[0] # Nul /\ v.level_cur = 0 /\ d[0] = End
        /\ w.level_cur = 1 /\ e[0] = 0 /\ e[1] = 0
     \/ /\ d[0] # Nul /\ v.level_cur = 1 /\ d[1] # End
        /\ w.level_cur = 1 /\ e[0] = d[0] /\ e[1] = d[1] + 1
     \/ /\ d[0] # Nul /\ v.level_cur = 1 /\ d[1] = End /\ d[0] # End
        /\ w.level_cur = 1 /\ e[0] = d[0] + 1 /\ e[1] = 0
     \/ /\ d[0] # Nul /\ v.level_cur = 1 /\ d[1] = End /\ d[0] = End
        /\ w.level_cur = 2 /\ e[0] = 0 /\ e[1] = 0 /\ e[2] = 0
     \/ /\ d[0] # Nul /\ v.level_cur = 2 /\ d[2] # End
        /\ w.level_cur = 2 /\ e[0] = d[0] /\ e[1] = d[1] /\ e[2] = d[2] + 1
     \/ /\ d[0] # Nul /\ v.level_cur = 2 /\ d[2] = End /\ d[1] # End
        /\ w.level_cur = 2 /\ e[0] = d[0] /\ e[1] = d[1] + 1 /\ e[2] = 0
     \/ /\ d[0] # Nul /\ v.level_cur = 2 /\ d[2] = End /\ d[1] = End /\ d[0] # End
        /\ w.level_cur = 2 /\ e[0] = d[0] + 1 /\ e[1] = 0 /\ e[2] = 0
     \/ /\ d[0] # Nul /\ v.level_cur = 2 /\ d[2] = End /\ d[1] = End /\ d[0] = End
        /\ w.level_cur = 2 /\ e[0] = 0 /\ e[1] = 0 /\ e[2] = 0

LEMMA IncDirFollows ==
  ASSUME NEW v, WellFormed(v), v.the_dir[0] # Nul, ~Deepens(v)
  PROVE  LET w == inc_dir(v, v.level_cur) IN
         w.cur_users = v.cur_users /\ Follows(v, w)
<1> DEFINE w == inc_dir(v, v.level_cur)
<1>1. v \in LooseRow /\ v.level_cur \in Levels
  BY WellFormedLoose DEF LooseRow
<1>2. \A k \in Levels : v.the_dir[k] \in Nul..End /\ v.level_index[k] \in Nat
  BY <1>1 DEF LooseRow
<1>3. /\ w \in LooseRow
      /\ w.cur_users = v.cur_users /\ w.level_cur = v.level_cur
      /\ \A k \in Levels :
           /\ k \in Wraps(v, v.level_cur) => w.the_dir[k] = 0 /\ w.level_index[k] = 0
           /\ k \in Moves(v, v.level_cur) /\ v.the_dir[k] # End =>
                /\ w.the_dir[k] = v.the_dir[k] + 1
                /\ w.level_index[k] = v.level_index[k] + 1
           /\ k \notin Wraps(v, v.level_cur) \cup Moves(v, v.level_cur) =>
                /\ w.the_dir[k] = v.the_dir[k]
                /\ w.level_index[k] = v.level_index[k]
  BY <1>1, IncDir
<1> HIDE DEF w
<1>5. Shape(v)
  BY DEF WellFormed, Shape
<1>6. CASE v.level_cur = 0
  <2>1. v.the_dir[0] # End
    BY <1>2, <1>5, <1>6, ThreeLevels DEF Shape, Deepens
  <2>2. Wraps(v, 0) = {} /\ Moves(v, 0) = {0}
    BY <2>1, ThreeLevels, WrapsMoves
  <2>3. Follows(v, w)
    BY <1>3, <1>6, <2>1, <2>2, ThreeLevels DEF Follows
  <2> QED BY <1>3, <2>3 DEF w
<1>7. CASE v.level_cur = 1
  <2>1. CASE v.the_dir[1] # End
    <3>1. Wraps(v, 1) = {} /\ Moves(v, 1) = {1}
      BY <2>1, ThreeLevels, WrapsMoves
    <3>2. Follows(v, w)
      BY <1>3, <1>7, <2>1, <3>1, ThreeLevels DEF Follows
    <3> QED BY <1>3, <3>2 DEF w
  <2>2. CASE v.the_dir[1] = End /\ v.the_dir[0] # End
    <3>1. Wraps(v, 1) = {1} /\ Moves(v, 1) = {0}
      BY <2>2, ThreeLevels, WrapsMoves
    <3>2. Follows(v, w)
      BY <1>3, <1>7, <2>2, <3>1, ThreeLevels DEF Follows
    <3> QED BY <1>3, <3>2 DEF w
  <2>3. v.the_dir[1] = End => v.the_dir[0] # End
    BY <1>2, <1>5, <1>7, ThreeLevels, ListAssumption DEF Shape, Deepens, Nul, End
  <2> QED BY <2>1, <2>2, <2>3
<1>8. CASE v.level_cur = 2
  <2>1. CASE v.the_dir[2] # End
    <3>1. Wraps(v, 2) = {} /\ Moves(v, 2) = {2}
      BY <2>1, ThreeLevels, WrapsMoves
    <3>2. Follows(v, w)
      BY <1>3, <1>8, <2>1, <3>1, ThreeLevels DEF Follows
    <3> QED BY <1>3, <3>2 DEF w
  <2>2. CASE v.the_dir[2] = End /\ v.the_dir[1] # End
    <3>1. Wraps(v, 2) = {2} /\ Moves(v, 2) = {1}
      BY <2>2, ThreeLevels, WrapsMoves
    <3>2. Follows(v, w)
      BY <1>3, <1>8, <2>2, <3>1, ThreeLevels DEF Follows
    <3> QED BY <1>3, <3>2 DEF w
  <2>3. CASE v.the_dir[2] = End /\ v.the_dir[1] = End /\ v.the_dir[0] # End
    <3>1. Wraps(v, 2) = {1, 2} /\ Moves(v, 2) = {0}
      BY <2>3, ThreeLevels, WrapsMoves
    <3>2. Follows(v, w)
      BY <1>3, <1>8, <2>3, <3>1, ThreeLevels DEF Follows
    <3> QED BY <1>3, <3>2 DEF w
  <2>4. CASE v.the_dir[2] = End /\ v.the_dir[1] = End /\ v.the_dir[0] = End
    <3>1. {0, 1, 2} \subseteq Wraps(v, 2)
      BY <2>4, ThreeLevels, WrapsMoves
    <3>2. Follows(v, w)
      BY <1>3, <1>8, <2>4, <3>1, ThreeLevels DEF Follows
    <3> QED BY <1>3, <3>2 DEF w
  <2> QED BY <2>1, <2>2, <2>3, <2>4
<1> QED BY <1>1, <1>6, <1>7, <1>8, ThreeLevels

\* The next directory follows the one of the row.
LEMMA NextFollows ==
  ASSUME NEW v, WellFormed(v)
  PROVE  NextDir(v).cur_users = v.cur_users /\ Follows(v, NextDir(v))
<1> DEFINE w == NextDir(v)
<1>1. CASE v.the_dir[0] = Nul
  <2>1. v \in LooseRow /\ v.level_cur = 0
    BY <1>1, WellFormedLoose DEF WellFormed
  <2>2. w = [v EXCEPT !.the_dir[0] = 0]
    BY <1>1 DEF NextDir
  <2>3. w.cur_users = v.cur_users /\ w.level_cur = 0 /\ w.the_dir[0] = 0
    BY <2>1, <2>2, ThreeLevels DEF LooseRow
  <2> HIDE DEF w
  <2>4. w.cur_users = v.cur_users /\ Follows(v, w)
    BY <1>1, <2>3 DEF Follows
  <2> QED BY <2>4 DEF w
<1>2. CASE v.the_dir[0] # Nul /\ Deepens(v)
  <2> DEFINE u == [inc_dir(v, v.level_cur) EXCEPT !.level_cur = @ + 1]
  <2>1. w = inc_dir(u, u.level_cur)
    BY <1>2 DEF NextDir
  <2>2. Opened(v, w)
    BY <1>2, <2>1, DeepenOpens
  <2> HIDE DEF w
  <2>3. v.level_cur \in {0, 1} /\ w.cur_users = v.cur_users
    BY <2>2 DEF Opened
  <2>4. CASE v.level_cur = 0
    <3>1. Follows(v, w)
      BY <1>2, <2>2, <2>4, ThreeLevels DEF Opened, Follows
    <3> QED BY <2>3, <3>1 DEF w
  <2>5. CASE v.level_cur = 1
    <3>1. Follows(v, w)
      BY <1>2, <2>2, <2>5, ThreeLevels DEF Opened, Follows
    <3> QED BY <2>3, <3>1 DEF w
  <2> QED BY <2>3, <2>4, <2>5
<1>3. CASE v.the_dir[0] # Nul /\ ~Deepens(v)
  <2>1. w = inc_dir(v, v.level_cur)
    BY <1>3 DEF NextDir
  <2> QED BY <1>3, <2>1, IncDirFollows
<1> QED BY <1>1, <1>2, <1>3

\* The row that inc_dir_control() leaves, and one more user in it.
LEMMA IncFollows ==
  ASSUME NEW v, WellFormed(v)
  PROVE  LET w == inc_dir_control(v) IN
         /\ v.cur_users \in Nat /\ w.cur_users = v.cur_users + 1
         /\ IF (v.cur_users + 1) % users_per_level = 0
              THEN Follows(v, w)
              ELSE w.level_cur = v.level_cur /\ w.the_dir = v.the_dir
<1> DEFINE x == [v EXCEPT !.cur_users = @ + 1]
           y == NextDir(x)
<1>1. v \in LooseRow /\ v.cur_users \in Nat /\ v.cur_users + 1 \in Nat
  BY WellFormedLoose DEF LooseRow
<1>2. /\ x.cur_users = v.cur_users + 1 /\ x.level_cur = v.level_cur
      /\ x.the_dir = v.the_dir /\ x.level_index = v.level_index
  BY <1>1 DEF LooseRow
<1>3. WellFormed(x)
  BY <1>1, CountShape
<1>4. inc_dir_control(v) = IF x.cur_users % users_per_level = 0 THEN y ELSE x
  BY DEF inc_dir_control
<1> HIDE DEF x
<1>5. y.cur_users = x.cur_users /\ Follows(x, y)
  BY <1>3, NextFollows
<1> HIDE DEF y
<1>6. Follows(v, y)
  BY <1>2, <1>5 DEF Follows
<1> QED BY <1>1, <1>2, <1>4, <1>5, <1>6
=============================================================================

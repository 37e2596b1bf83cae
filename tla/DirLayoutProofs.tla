-------------------------- MODULE DirLayoutProofs ---------------------------
(***************************************************************************)
(* The layout goes through the directories in the order of Nth, for every  *)
(* number of characters, of users to a directory and of users.             *)
(***************************************************************************)
EXTENDS DirLayout, DirControlProofs, TLAPS

-----------------------------------------------------------------------------
(* Division *)

LEMMA Multiples ==
  ASSUME NEW x \in Nat, NEW y \in Nat, x < y, NEW m \in Nat
  PROVE  x * m + m <= y * m
OBVIOUS

LEMMA Division ==
  ASSUME NEW n \in Nat, NEW m \in Nat \ {0}
  PROVE  /\ n \div m \in Nat /\ n % m \in Nat /\ n % m < m
         /\ n = (n \div m) * m + (n % m)
OBVIOUS

\* Quotient and remainder are the only ones.
LEMMA DivisionUnique ==
  ASSUME NEW a \in Nat, NEW b \in Nat, NEW m \in Nat, b < m
  PROVE  (a * m + b) \div m = a /\ (a * m + b) % m = b
<1> DEFINE n == a * m + b
           q == n \div m
           r == n % m
<1>1. n \in Nat /\ m \in Nat \ {0}
  OBVIOUS
<1> HIDE DEF n
<1>2. q \in Nat /\ r \in Nat /\ r < m /\ n = q * m + r
  BY <1>1, Division
<1>3. a * m + b = q * m + r
  BY <1>2 DEF n
<1> HIDE DEF q, r
<1>4. ~(a < q)
  <2> SUFFICES ASSUME a < q PROVE FALSE
    OBVIOUS
  <2>1. a * m + m <= q * m
    BY <1>2, Multiples
  <2>2. a * m \in Int /\ q * m \in Int
    BY <1>2
  <2> QED BY <1>2, <1>3, <2>1, <2>2
<1>5. ~(q < a)
  <2> SUFFICES ASSUME q < a PROVE FALSE
    OBVIOUS
  <2>1. q * m + m <= a * m
    BY <1>2, Multiples
  <2>2. a * m \in Int /\ q * m \in Int
    BY <1>2
  <2> QED BY <1>2, <1>3, <2>1, <2>2
<1>6. q = a
  BY <1>2, <1>4, <1>5
<1>7. r = b
  BY <1>2, <1>3, <1>6
<1> QED BY <1>6, <1>7 DEF n, q, r

\* Two digits.
LEMMA TwoDigits ==
  ASSUME NEW m \in Nat, NEW a \in Nat, NEW b \in Nat, a < m, b < m
  PROVE  /\ a * m + b \in Nat /\ a * m + b < m * m
         /\ (a * m + b) \div m = a /\ (a * m + b) % m = b
<1>1. a * m + m <= m * m
  BY Multiples
<1>2. a * m \in Nat /\ m * m \in Nat
  OBVIOUS
<1>3. a * m + b \in Nat /\ a * m + b < m * m
  BY <1>1, <1>2
<1> QED BY <1>3, DivisionUnique

\* Three digits.
Value(m, a, b, c) == a * (m * m) + b * m + c

\* n has the digits a, b and c.
HasDigits(n, m, a, b, c) ==
  /\ n \in Nat /\ n < m * m * m
  /\ n \div (m * m) = a /\ (n \div m) % m = b /\ n % m = c

LEMMA ThreeDigits ==
  ASSUME NEW m \in Nat, NEW a \in Nat, NEW b \in Nat, NEW c \in Nat, a < m, b < m, c < m
  PROVE  HasDigits(Value(m, a, b, c), m, a, b, c)
<1> USE DEF Value, HasDigits
<1> DEFINE n == Value(m, a, b, c)
           s == m * m
           t == b * m + c
           u == a * m + b
<1>1. t \in Nat /\ t < s
  BY TwoDigits
<1>2. u \in Nat /\ u \div m = a /\ u % m = b
  BY TwoDigits
<1>3. s \in Nat /\ a * s + s <= m * s /\ m * s = m * m * m
  <2>1. s \in Nat
    OBVIOUS
  <2>2. m * s = m * m * m
    OBVIOUS
  <2> HIDE DEF s
  <2>3. a * s + s <= m * s
    BY <2>1, Multiples
  <2> QED BY <2>1, <2>2, <2>3
<1>4. n = a * s + t
  OBVIOUS
<1>5. n = u * m + c
  OBVIOUS
<1>6. n \div m = u /\ n % m = c
  <2> HIDE DEF u, n
  <2> QED BY <1>2, <1>5, DivisionUnique
<1>7. n \div s = a
  <2> HIDE DEF s, t, n
  <2> QED BY <1>1, <1>3, <1>4, DivisionUnique
<1>8. n \in Nat /\ n < m * s
  <2>1. a * s \in Nat /\ m * s \in Nat
    BY <1>3
  <2> HIDE DEF s, t, n
  <2> QED BY <1>1, <1>3, <1>4, <2>1
<1> QED BY <1>2, <1>3, <1>6, <1>7, <1>8

\* Counting one further.
LEMMA DivisionStep ==
  ASSUME NEW n \in Nat, NEW m \in Nat \ {0}
  PROVE  /\ n \div m \in Nat
         /\ IF (n + 1) % m = 0 THEN (n + 1) \div m = (n \div m) + 1
                               ELSE (n + 1) \div m = n \div m
<1> DEFINE q == n \div m
           r == n % m
           x == n + 1
<1>1. q \in Nat /\ r \in Nat /\ r < m /\ n = q * m + r
  BY Division
<1> HIDE DEF q, r
<1>2. CASE r + 1 = m
  <2>1. x = (q + 1) * m + 0
    BY <1>1, <1>2
  <2> HIDE DEF x
  <2>2. x \div m = q + 1 /\ x % m = 0
    BY <1>1, <2>1, DivisionUnique
  <2> QED BY <1>1, <2>2 DEF x, q
<1>3. CASE r + 1 # m
  <2>1. x = q * m + (r + 1) /\ r + 1 < m /\ r + 1 \in Nat /\ r + 1 # 0
    BY <1>1, <1>3
  <2> HIDE DEF x
  <2>2. x \div m = q /\ x % m = r + 1
    BY <1>1, <2>1, DivisionUnique
  <2> QED BY <1>1, <2>1, <2>2 DEF x, q
<1> QED BY <1>2, <1>3

-----------------------------------------------------------------------------
(***************************************************************************)
(* The characters of the levels in use are the digits of the place of the  *)
(* directory among those of its level.                                     *)
(***************************************************************************)
IsNth(v, n) ==
  LET d == v.the_dir
  IN \/ d[0] = Nul /\ n = 0
     \/ d[0] # Nul /\ v.level_cur = 0 /\ n = 1 + d[0]
     \/ d[0] # Nul /\ v.level_cur = 1 /\ n = 1 + List + (d[0] * List + d[1])
     \/ /\ d[0] # Nul /\ v.level_cur = 2
        /\ \E m \in Nat :
             n = 1 + List + List * List
                   + (m * (List * List * List) + Value(List, d[0], d[1], d[2]))

\* The digits.
LEMMA Digits ==
  ASSUME NEW v, WellFormed(v), v.the_dir[0] # Nul
  PROVE  /\ v.level_cur \in {0, 1, 2}
         /\ \A k \in {0, 1, 2} : k <= v.level_cur => v.the_dir[k] \in Nat /\ v.the_dir[k] < List
<1>1. v.level_cur \in Levels /\ \A k \in Levels : v.the_dir[k] \in Nul..End
  BY WellFormedLoose DEF LooseRow
<1>2. \A k \in Levels : k <= v.level_cur => v.the_dir[k] # Nul
  BY <1>1, ThreeLevels DEF WellFormed
<1> QED BY <1>1, <1>2, ThreeLevels, ListAssumption DEF Nul, End

\* What IsNth is for.
LEMMA NthName ==
  ASSUME NEW v, WellFormed(v), NEW n, IsNth(v, n)
  PROVE  DirName(v) = Nth(n)
<1> DEFINE d == v.the_dir
<1>1. CASE d[0] = Nul
  <2>1. n = 0
    BY <1>1 DEF IsNth
  <2> QED BY <1>1, <2>1 DEF DirName, Nth
<1>2. CASE d[0] # Nul /\ v.level_cur = 0
  <2>1. n = 1 + d[0] /\ d[0] \in Nat /\ d[0] < List
    BY <1>2, Digits DEF IsNth
  <2>2. n # 0 /\ n > 0 /\ n - 1 < List /\ ~(n - 1 >= List) /\ n - 1 = d[0]
    BY <2>1, ListAssumption
  <2>3. Nth(n) = <<n - 1>>
    BY <2>2 DEF Nth
  <2> QED BY <1>2, <2>2, <2>3 DEF DirName
<1>3. CASE d[0] # Nul /\ v.level_cur = 1
  <2> DEFINE j == d[0] * List + d[1]
  <2>1. d[0] \in Nat /\ d[0] < List /\ d[1] \in Nat /\ d[1] < List
    BY <1>3, Digits
  <2>2. n = 1 + List + j
    BY <1>3 DEF IsNth
  <2>3. j \in Nat /\ j < List * List /\ j \div List = d[0] /\ j % List = d[1]
    BY <2>1, ListAssumption, TwoDigits
  <2> HIDE DEF j
  <2>4. n > 0 /\ n - 1 >= List /\ n - 1 - List = j
    BY <2>2, <2>3, ListAssumption
  <2>5. Nth(n) = <<j \div List, j % List>>
    BY SMTT(30), <2>2, <2>3, <2>4, ListAssumption DEF Nth
  <2> QED BY <1>3, <2>3, <2>5 DEF DirName
<1>4. CASE d[0] # Nul /\ v.level_cur = 2
  <2> DEFINE S == List * List
             C == List * List * List
             k == Value(List, d[0], d[1], d[2])
  <2>1. /\ d[0] \in Nat /\ d[0] < List /\ d[1] \in Nat /\ d[1] < List
        /\ d[2] \in Nat /\ d[2] < List
    BY <1>4, Digits
  <2>2. PICK m \in Nat : n = 1 + List + S + (m * C + k)
    BY <1>4 DEF IsNth
  <2>3. /\ k \in Nat /\ k < C
        /\ k \div S = d[0] /\ (k \div List) % List = d[1] /\ k % List = d[2]
    <3>1. HasDigits(k, List, d[0], d[1], d[2])
      BY <2>1, ListAssumption, ThreeDigits
    <3> QED BY <3>1 DEF HasDigits
  <2>4. S \in Nat /\ C \in Nat
    BY ListAssumption
  <2> DEFINE x == m * C + k
  <2> HIDE DEF S, C, k
  <2>5. m * C \in Nat /\ x \in Nat
    BY <2>3, <2>4
  <2>6. x % C = k
    BY <2>3, <2>4, DivisionUnique
  <2> HIDE DEF x
  <2>7. n = 1 + List + S + x
    BY <2>2 DEF x
  <2>8. n # 0 /\ n > 0 /\ n - 1 >= List /\ n - 1 - List >= S /\ (n - 1 - List) - S = x
    BY <2>4, <2>5, <2>7, ListAssumption
  <2>9. ~(n - 1 < List) /\ ~(n - 1 - List < S)
    BY <2>4, <2>5, <2>7, ListAssumption
  <2>10. Nth(n) = <<k \div S, (k \div List) % List, k % List>>
    BY <2>6, <2>8, <2>9 DEF Nth, S, C
  <2> QED BY <1>4, <2>3, <2>10 DEF DirName
<1>5. d[0] # Nul => v.level_cur \in {0, 1, 2}
  BY Digits
<1> QED BY <1>1, <1>2, <1>3, <1>4, <1>5

\* Carrying in the arithmetic of the digits.
LEMMA CarryOne ==
  ASSUME NEW m \in Nat, NEW a \in Nat, NEW b \in Nat, NEW c \in Nat, c = m - 1, NEW x, x = b + 1
  PROVE  Value(m, a, x, 0) = Value(m, a, b, c) + 1
BY DEF Value

LEMMA CarryTwo ==
  ASSUME NEW m \in Nat, NEW a \in Nat, NEW c \in Nat, c = m - 1, NEW x, x = a + 1
  PROVE  Value(m, x, 0, 0) = Value(m, a, c, c) + 1
BY DEF Value

LEMMA CarryAll ==
  ASSUME NEW m \in Nat, NEW c \in Nat, c = m - 1, NEW x \in Nat
  PROVE  /\ (x + 1) * (m * m * m) = x * (m * m * m) + (Value(m, c, c, c) + 1)
         /\ Value(m, 0, 0, 0) = 0
BY DEF Value

\* The directory after the n-th is the one after it.
LEMMA NthNext ==
  ASSUME NEW v, WellFormed(v), NEW n \in Nat, IsNth(v, n), NEW w, Follows(v, w)
  PROVE  IsNth(w, n + 1)
<1> DEFINE d == v.the_dir
           e == w.the_dir
<1>0. List \in Nat /\ End = List - 1
  BY ListAssumption DEF End
<1>n. Nul = -1 /\ 0 # Nul
  BY DEF Nul
<1>1. CASE d[0] = Nul
  <2>1. n = 0 /\ w.level_cur = 0 /\ e[0] = 0
    BY <1>1 DEF IsNth, Follows
  <2> QED BY <1>n, <2>1 DEF IsNth
<1>2. CASE d[0] # Nul /\ v.level_cur = 0
  <2>1. d[0] \in Nat /\ n = 1 + d[0]
    BY <1>2, Digits DEF IsNth
  <2>2. CASE d[0] # End
    <3>1. w.level_cur = 0 /\ e[0] = d[0] + 1
      BY <1>2, <2>2 DEF Follows
    <3>2. e[0] # Nul /\ n + 1 = 1 + e[0]
      BY <1>n, <2>1, <3>1
    <3> QED BY <3>1, <3>2 DEF IsNth
  <2>3. CASE d[0] = End
    <3>1. w.level_cur = 1 /\ e[0] = 0 /\ e[1] = 0
      BY <1>2, <2>3 DEF Follows
    <3>2. n + 1 = 1 + List + (e[0] * List + e[1])
      BY <1>0, <2>1, <2>3, <3>1
    <3> QED BY <1>n, <3>1, <3>2 DEF IsNth
  <2> QED BY <2>2, <2>3
<1>3. CASE d[0] # Nul /\ v.level_cur = 1
  <2>1. d[0] \in Nat /\ d[1] \in Nat /\ n = 1 + List + (d[0] * List + d[1])
    BY <1>3, Digits DEF IsNth
  <2>2. CASE d[1] # End
    <3>1. w.level_cur = 1 /\ e[0] = d[0] /\ e[1] = d[1] + 1
      BY <1>3, <2>2 DEF Follows
    <3>2. n + 1 = 1 + List + (e[0] * List + e[1]) /\ e[0] # Nul
      BY <1>0, <1>n, <2>1, <3>1
    <3> QED BY <3>1, <3>2 DEF IsNth
  <2>3. CASE d[1] = End /\ d[0] # End
    <3>1. w.level_cur = 1 /\ e[0] = d[0] + 1 /\ e[1] = 0
      BY <1>3, <2>3 DEF Follows
    <3>2. n + 1 = 1 + List + (e[0] * List + e[1]) /\ e[0] # Nul
      BY <1>0, <1>n, <2>1, <2>3, <3>1
    <3> QED BY <3>1, <3>2 DEF IsNth
  <2>4. CASE d[1] = End /\ d[0] = End
    <3>1. w.level_cur = 2 /\ e[0] = 0 /\ e[1] = 0 /\ e[2] = 0
      BY <1>3, <2>4 DEF Follows
    <3>2. n + 1 = 1 + List + List * List
      BY <1>0, <2>1, <2>4
    <3>3. Value(List, 0, 0, 0) = 0 /\ 0 * (List * List * List) = 0
      BY <1>0 DEF Value
    <3>4. n + 1 = 1 + List + List * List + (0 * (List * List * List) + Value(List, e[0], e[1], e[2]))
      BY <1>0, <3>1, <3>2, <3>3
    <3> QED BY <1>n, <3>1, <3>4 DEF IsNth
  <2> QED BY <2>2, <2>3, <2>4
<1>4. CASE d[0] # Nul /\ v.level_cur = 2
  <2> DEFINE C == List * List * List
             B == 1 + List + List * List
             k == Value(List, d[0], d[1], d[2])
             l == Value(List, e[0], e[1], e[2])
  <2>1. d[0] \in Nat /\ d[1] \in Nat /\ d[2] \in Nat
    BY <1>4, Digits
  <2>2. PICK m \in Nat : n = B + (m * C + k)
    BY <1>4 DEF IsNth
  <2>3. w.level_cur = 2 /\ e[0] # Nul
    BY <1>4, <1>n, <2>1 DEF Follows
  <2>4. SUFFICES \E x \in Nat : n + 1 = B + (x * C + l)
    BY <2>3 DEF IsNth
  <2>5. B \in Nat /\ C \in Nat
    BY <1>0
  <2>6. k \in Nat
    BY <1>0, <2>1 DEF Value
  <2>7. l = k + 1 \/ (l = 0 /\ (m + 1) * C = m * C + (k + 1))
    <3>1. CASE d[2] # End
      <4>1. e[0] = d[0] /\ e[1] = d[1] /\ e[2] = d[2] + 1
        BY <1>4, <3>1 DEF Follows
      <4>2. l = Value(List, d[0], d[1], e[2]) /\ k = Value(List, d[0], d[1], d[2])
        BY <4>1
      <4> HIDE DEF B, C, d, e, k, l
      <4>3. Value(List, d[0], d[1], e[2]) = Value(List, d[0], d[1], d[2]) + 1
        BY <1>0, <2>1, <4>1 DEF Value
      <4> QED BY <4>2, <4>3
    <3>2. CASE d[2] = End /\ d[1] # End
      <4>1. e[0] = d[0] /\ e[1] = d[1] + 1 /\ e[2] = 0
        BY <1>4, <3>2 DEF Follows
      <4>2. l = Value(List, d[0], e[1], 0)
        BY <4>1
      <4>3. Value(List, d[0], e[1], 0) = Value(List, d[0], d[1], d[2]) + 1
        BY <1>0, <2>1, <3>2, <4>1, CarryOne
      <4> QED BY <4>2, <4>3
    <3>3. CASE d[2] = End /\ d[1] = End /\ d[0] # End
      <4>1. e[0] = d[0] + 1 /\ e[1] = 0 /\ e[2] = 0
        BY <1>4, <3>3 DEF Follows
      <4>2. l = Value(List, e[0], 0, 0) /\ k = Value(List, d[0], d[2], d[2])
        BY <3>3, <4>1
      <4>3. Value(List, e[0], 0, 0) = Value(List, d[0], d[2], d[2]) + 1
        BY <1>0, <2>1, <3>3, <4>1, CarryTwo
      <4> QED BY <4>2, <4>3
    <3>4. CASE d[2] = End /\ d[1] = End /\ d[0] = End
      <4>1. e[0] = 0 /\ e[1] = 0 /\ e[2] = 0
        BY <1>4, <3>4 DEF Follows
      <4>2. l = Value(List, 0, 0, 0) /\ k = Value(List, d[2], d[2], d[2])
        BY <3>4, <4>1
      <4>3. /\ (m + 1) * C = m * C + (Value(List, d[2], d[2], d[2]) + 1)
            /\ Value(List, 0, 0, 0) = 0
        BY <1>0, <2>1, <3>4, CarryAll
      <4> QED BY <4>2, <4>3
    <3> QED BY <3>1, <3>2, <3>3, <3>4
  <2> HIDE DEF B, C, k, l
  <2>8. m * C \in Nat /\ (m + 1) * C \in Nat /\ m + 1 \in Nat
    BY <2>5
  <2>9. CASE l = k + 1
    <3>1. n + 1 = B + (m * C + l)
      BY <2>2, <2>5, <2>6, <2>8, <2>9
    <3> QED BY <3>1
  <2>10. CASE l = 0 /\ (m + 1) * C = m * C + (k + 1)
    <3>1. n + 1 = B + ((m + 1) * C + l)
      BY <2>2, <2>5, <2>6, <2>8, <2>10
    <3> QED BY <2>8, <3>1
  <2> QED BY <2>7, <2>9, <2>10
<1>5. d[0] # Nul => v.level_cur \in {0, 1, 2}
  BY Digits
<1> QED BY <1>1, <1>2, <1>3, <1>4, <1>5

-----------------------------------------------------------------------------
(***************************************************************************)
(* The row is at the directory of the last user, and as many users are     *)
(* counted as there are.                                                   *)
(***************************************************************************)
LayoutInv ==
  /\ WellFormed(vdir)
  /\ used \in Seq(Seq(Int)) /\ vdir.cur_users = Len(used)
  /\ IsNth(vdir, vdir.cur_users \div users_per_level)
  /\ InOrder

LEMMA NameType ==
  ASSUME NEW v, WellFormed(v)
  PROVE  DirName(v) \in Seq(Int)
<1>1. v.level_cur \in Levels /\ \A k \in Levels : v.the_dir[k] \in Int
  BY WellFormedLoose, ListAssumption DEF LooseRow, Nul, End
<1> QED BY <1>1, ThreeLevels DEF DirName

LEMMA LayoutInit == Init => LayoutInv
<1> SUFFICES ASSUME Init PROVE LayoutInv
  OBVIOUS
<1>1. vdir = init_dir_control /\ used = <<>>
  BY DEF Init
<1>2. WellFormed(vdir)
  BY <1>1, InitWellFormed
<1>3. vdir.cur_users = 0 /\ vdir.the_dir[0] = Nul
  BY <1>1, ThreeLevels DEF init_dir_control
<1>4. 0 \div users_per_level = 0
  BY LevelAssumption
<1>5. IsNth(vdir, vdir.cur_users \div users_per_level)
  BY <1>3, <1>4 DEF IsNth
<1>6. used \in Seq(Seq(Int)) /\ Len(used) = 0 /\ InOrder
  BY <1>1 DEF InOrder
<1> QED BY <1>2, <1>3, <1>5, <1>6 DEF LayoutInv

LEMMA LayoutNext == LayoutInv /\ [Next]_vars => LayoutInv'
<1> SUFFICES ASSUME LayoutInv, [Next]_vars PROVE LayoutInv'
  OBVIOUS
<1>1. CASE UNCHANGED vars
  BY <1>1 DEF LayoutInv, InOrder, vars
<1>2. CASE AddUser
  <2> DEFINE n == vdir.cur_users
             q == n \div users_per_level
             r == (n + 1) \div users_per_level
  <2>1. vdir' = inc_dir_control(vdir) /\ used' = Append(used, DirName(vdir'))
    BY <1>2 DEF AddUser
  <2>2. WellFormed(vdir) /\ WellFormed(vdir')
    BY <2>1, IncWellFormed DEF LayoutInv
  <2>3. /\ n \in Nat /\ vdir'.cur_users = n + 1
        /\ IF (n + 1) % users_per_level = 0
             THEN Follows(vdir, vdir')
             ELSE vdir'.level_cur = vdir.level_cur /\ vdir'.the_dir = vdir.the_dir
    BY <2>1, <2>2, IncFollows
  <2>4. /\ q \in Nat
        /\ IF (n + 1) % users_per_level = 0 THEN r = q + 1 ELSE r = q
    BY <2>3, LevelAssumption, DivisionStep
  <2>5. IsNth(vdir, q)
    BY DEF LayoutInv
  <2> HIDE DEF q, r
  <2>6. IsNth(vdir', r)
    <3>1. CASE (n + 1) % users_per_level = 0
      BY <2>2, <2>3, <2>4, <2>5, <3>1, NthNext
    <3>2. CASE (n + 1) % users_per_level # 0
      <4>1. vdir'.level_cur = vdir.level_cur /\ vdir'.the_dir = vdir.the_dir /\ r = q
        BY <2>3, <2>4, <3>2
      <4> QED BY <2>5, <4>1 DEF IsNth
    <3> QED BY <3>1, <3>2
  <2>7. DirName(vdir') = Nth(r)
    BY <2>2, <2>6, NthName
  <2>8. used \in Seq(Seq(Int)) /\ n = Len(used)
    BY DEF LayoutInv
  <2>9. DirName(vdir') \in Seq(Int)
    BY <2>2, NameType
  <2>10. /\ used' \in Seq(Seq(Int)) /\ Len(used') = n + 1
         /\ used'[n + 1] = Nth(r)
         /\ \A i \in 1..n : used'[i] = used[i]
    BY <2>1, <2>7, <2>8, <2>9
  <2>11. InOrder'
    <3> SUFFICES ASSUME NEW i \in 1..Len(used')
                 PROVE  used'[i] = Nth(i \div users_per_level)
      BY DEF InOrder
    <3>1. i \in 1..n \/ i = n + 1
      BY <2>3, <2>10
    <3>2. CASE i \in 1..n
      BY <2>8, <2>10, <3>2 DEF LayoutInv, InOrder
    <3>3. CASE i = n + 1
      BY <2>10, <3>3 DEF r
    <3> QED BY <3>1, <3>2, <3>3
  <2>12. IsNth(vdir', vdir'.cur_users \div users_per_level)
    BY <2>3, <2>6 DEF r
  <2> QED BY <2>2, <2>3, <2>10, <2>11, <2>12 DEF LayoutInv
<1> QED BY <1>1, <1>2 DEF Next

\* Users that are added one after the other get the directories in the order of
\* Nth, users_per_level each, whatever the number of characters (inc_dir.c,
\* inc_dir_control.c): no carry is lost, no directory is left out or taken twice
\* before the third level is full.
THEOREM DirectoriesInOrder == Spec => []InOrder
<1>1. LayoutInv => InOrder
  BY DEF LayoutInv
<1> QED BY <1>1, LayoutInit, LayoutNext, PTL DEF Spec
=============================================================================

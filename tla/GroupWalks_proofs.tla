-------------------------- MODULE GroupWalks_proofs --------------------------
(***************************************************************************)
(* Lemmas about the walks over groups, for any groups: what is above and   *)
(* below a group, which groups a user sees, and the path to a group, a     *)
(* recursive function.                                                     *)
(***************************************************************************)
EXTENDS GroupWalks, FiniteSetTheorems, SequenceTheorems, WellFoundedInduction, TLAPS

USE GroupAssumption

\* A set of naturals with 0 and the successors of its elements has them all.
LEMMA Climbing ==
  ASSUME NEW S \in SUBSET Nat, 0 \in S, \A n \in S : n + 1 \in S
  PROVE  S = Nat
<1> DEFINE T == Nat \ S
           R == OpToRel(<, Nat)
<1>1. \A i, j \in Nat : <<i, j>> \in R <=> i < j
  BY DEF OpToRel
<1>2. SUFFICES ASSUME T # {} PROVE FALSE
  OBVIOUS
<1>3. IsWellFoundedOn(R, Nat)
  BY NatLessThanWellFounded
<1> HIDE DEF R
<1>4. PICK n \in T : \A k \in T : <<k, n>> \notin R
  BY <1>2, <1>3, WFMin
<1>5. n \in Nat /\ n # 0 /\ n - 1 \in Nat /\ (n - 1) + 1 = n /\ n - 1 < n
  BY <1>4
<1>6. n - 1 \in S
  BY <1>1, <1>4, <1>5
<1> QED BY <1>4, <1>5, <1>6
-----------------------------------------------------------------------------
(* The table of the paths, by their length. *)

Row == Group \cup {Top, Nil}
Paths == [Row -> Seq(Group)]
Longer(fst, p) == [h \in Row |-> IF h \notin Rows(fst) THEN <<>> ELSE Append(p[fst[h]], h)]
PathTables(fst, k) ==
  {t \in [0..k -> Paths] : /\ t[0] = [h \in Row |-> <<>>]
                           /\ \A n \in 0..k : n # 0 => t[n] = Longer(fst, t[n - 1])}

LEMMA LongerType == ASSUME NEW fst \in Forest, NEW p \in Paths PROVE Longer(fst, p) \in Paths
  BY DEF Longer, Paths, Row, Forest, Rows

LEMMA PathTablesExist == ASSUME NEW fst \in Forest, NEW k \in Nat PROVE PathTables(fst, k) # {}
<1> DEFINE S == {n \in Nat : \E t : t \in PathTables(fst, n)}
<1>1. 0 \in S
  <2> DEFINE t == [n \in 0..0 |-> [h \in Row |-> <<>>]]
  <2>1. t \in PathTables(fst, 0)
    BY DEF PathTables, Paths
  <2> QED BY <2>1
<1>2. ASSUME NEW n \in S PROVE n + 1 \in S
  <2>1. PICK t : t \in PathTables(fst, n)
    OBVIOUS
  <2> DEFINE u == [i \in 0..(n + 1) |-> IF i = n + 1 THEN Longer(fst, t[n]) ELSE t[i]]
  <2>2. n \in Nat /\ n \in 0..n /\ t \in [0..n -> Paths] /\ t[n] \in Paths
    BY <2>1 DEF PathTables
  <2>3. u \in [0..(n + 1) -> Paths] /\ u[0] = [h \in Row |-> <<>>]
    BY <2>1, <2>2, LongerType DEF PathTables
  <2>4. ASSUME NEW i \in 0..(n + 1), i # 0 PROVE u[i] = Longer(fst, u[i - 1])
    BY <2>1, <2>2, <2>4 DEF PathTables
  <2>5. u \in PathTables(fst, n + 1)
    BY <2>3, <2>4 DEF PathTables
  <2> QED BY <2>2, <2>5
<1> HIDE DEF S
<1>3. S = Nat
  BY <1>1, <1>2, Climbing DEF S
<1> QED BY <1>3 DEF S

LEMMA Size == Cardinality(Group) \in Nat
  BY FS_CardinalityType

\* PathTo is the last row of the table.
LEMMA PathToTable ==
  ASSUME NEW fst \in Forest
  PROVE  \E t \in PathTables(fst, Cardinality(Group)) : PathTo(fst) = t[Cardinality(Group)]
<1> DEFINE N == Cardinality(Group)
           F(path) == [n \in 0..N |-> [h \in Row |->
                        IF h \notin Rows(fst) \/ n = 0 THEN <<>> ELSE Append(path[n - 1][fst[h]], h)]]
           pa == CHOOSE path : path = F(path)
<1>1. PICK t \in PathTables(fst, N) : TRUE
  BY Size, PathTablesExist
<1>2. t = F(t)
  BY <1>1, Size DEF PathTables, Longer, Paths
<1>3. pa = F(pa)
  BY <1>2
<1>4. PathTo(fst) = pa[N]
  BY DEF PathTo, Row
<1> HIDE DEF pa
<1>5. /\ N \in Nat /\ DOMAIN pa = 0..N /\ pa = [n \in 0..N |-> pa[n]] /\ pa[0] = [h \in Row |-> <<>>]
      /\ \A n \in 0..N : n # 0 => pa[n] = Longer(fst, pa[n - 1])
  <2>1. \A n \in 0..N : pa[n] = F(pa)[n]
    BY <1>3
  <2>2. DOMAIN pa = 0..N /\ pa = [n \in 0..N |-> pa[n]] /\ N \in Nat
    BY <1>3, Size
  <2>3. pa[0] = [h \in Row |-> <<>>]
    BY <2>1, <2>2
  <2>4. ASSUME NEW n \in 0..N, n # 0 PROVE pa[n] = Longer(fst, pa[n - 1])
    BY <2>1, <2>4 DEF Longer
  <2> QED BY <2>2, <2>3, <2>4
<1> HIDE DEF F
<1>6. \A n \in 0..N : pa[n] \in Paths
  <2> DEFINE S == {n \in Nat : n \in 0..N => pa[n] \in Paths}
  <2>1. 0 \in S
    BY <1>5 DEF Paths
  <2>2. ASSUME NEW n \in S PROVE n + 1 \in S
    BY <1>5, LongerType
  <2> HIDE DEF S
  <2>3. S = Nat
    BY <2>1, <2>2, Climbing DEF S
  <2> QED BY <1>5, <2>3 DEF S
<1>7. pa \in PathTables(fst, N)
  BY <1>5, <1>6 DEF PathTables
<1> QED BY <1>4, <1>7
-----------------------------------------------------------------------------
(* Climbing. *)

\* A group, and what is above its parent.
LEMMA AboveUnfolds ==
  ASSUME NEW up \in Forest, NEW g \in Group
  PROVE  /\ g \in Above(up, g) /\ Above(up, g) \subseteq Group
         /\ \A h \in Above(up, g) : up[h] \in Group => up[h] \in Above(up, g)
         /\ \A h \in Above(up, g) : Above(up, h) \subseteq Above(up, g)
         /\ Above(up, g) = {g} \cup (IF up[g] \in Group THEN Above(up, up[g]) ELSE {})
<1> DEFINE A == Above(up, g)
           B == {g} \cup (IF up[g] \in Group THEN Above(up, up[g]) ELSE {})
<1>1. g \in A /\ A \subseteq Group
  BY DEF Above
<1>2. ASSUME NEW h \in Group PROVE \A x \in Above(up, h) : up[x] \in Group => up[x] \in Above(up, h)
  BY DEF Above
<1>3. ASSUME NEW h \in A PROVE Above(up, h) \subseteq A
  <2>1. A \in SUBSET Group /\ h \in A /\ \A x \in A : up[x] \in Group => up[x] \in A
    BY <1>1, <1>2, <1>3
  <2> HIDE DEF A
  <2> QED BY <2>1 DEF Above
<1>4. A \subseteq B
  <2>1. ASSUME up[g] \in Group
        PROVE  up[g] \in Above(up, up[g]) /\ Above(up, up[g]) \subseteq Group
    BY <2>1 DEF Above
  <2>2. ASSUME NEW x \in B, up[x] \in Group PROVE up[x] \in B
    BY <1>2, <2>1, <2>2
  <2>3. B \in SUBSET Group /\ g \in B
    BY <2>1
  <2> HIDE DEF B
  <2> QED BY <2>2, <2>3 DEF Above
<1>5. B \subseteq A
  BY <1>1, <1>2, <1>3
<1> QED BY <1>1, <1>2, <1>3, <1>4, <1>5

\* No groups have all their parents among themselves.
Acyclic(up) == \A S \in SUBSET Group : S # {} => \E g \in S : up[g] \notin S

\* In a forest without cycles what is above the parent of a group is less.
LEMMA AboveShrinks ==
  ASSUME NEW up \in Forest, Acyclic(up), NEW g \in Group, up[g] \in Group
  PROVE  /\ g \notin Above(up, up[g])
         /\ Cardinality(Above(up, g)) \in Nat \ {0} /\ IsFiniteSet(Above(up, g))
         /\ Cardinality(Above(up, up[g])) = Cardinality(Above(up, g)) - 1
<1> DEFINE A == Above(up, up[g])
<1>1. g \notin A
  <2> SUFFICES ASSUME g \in A PROVE FALSE
    OBVIOUS
  <2> DEFINE S == {h \in A : g \in Above(up, h)}
  <2>1. A \subseteq Group /\ g \in S /\ Above(up, g) \subseteq A
    BY AboveUnfolds
  <2>2. ASSUME NEW h \in S PROVE up[h] \in S
    <3>1. h \in Group /\ g \in Above(up, h)
      BY <2>1
    <3>2. CASE h = g
      BY <3>2, <2>1, AboveUnfolds
    <3>3. CASE h # g
      <4>1. up[h] \in Group /\ g \in Above(up, up[h])
        BY <3>1, <3>3, AboveUnfolds
      <4> QED BY <4>1, <2>1, AboveUnfolds
    <3> QED BY <3>2, <3>3
  <2>3. S \in SUBSET Group /\ S # {}
    BY <2>1
  <2> QED BY <2>2, <2>3 DEF Acyclic
<1>2. A \subseteq Group /\ Above(up, g) = A \cup {g}
  BY AboveUnfolds
<1>3. IsFiniteSet(A)
  BY <1>2, FS_Subset
<1> HIDE DEF A
<1>4. IsFiniteSet(A \cup {g}) /\ Cardinality(A) \in Nat /\ Cardinality(A \cup {g}) = Cardinality(A) + 1
  BY <1>1, <1>3, FS_AddElement, FS_CardinalityType DEF A
<1> QED BY <1>1, <1>2, <1>4 DEF A
-----------------------------------------------------------------------------
(* Paths. *)

LEMMA AppendOne ==
  ASSUME NEW s \in Seq(Group), NEW g \in Group
  PROVE  /\ Append(s, g) \in Seq(Group) /\ Append(s, g) # <<>>
         /\ Last(Append(s, g)) = g /\ Front(Append(s, g)) = s
         /\ ToSet(Append(s, g)) = ToSet(s) \cup {g}
<1> DEFINE a == Append(s, g)
<1>1. /\ a \in Seq(Group) /\ Len(s) \in Nat /\ Len(a) = Len(s) + 1 /\ a[Len(s) + 1] = g
      /\ \A i \in 1..Len(s) : a[i] = s[i]
  BY AppendProperties, LenProperties
<1>2. DOMAIN s = 1..Len(s) /\ DOMAIN a = 1..(Len(s) + 1)
  BY <1>1, LenProperties
<1>3. Front(a) = s
  BY <1>1, <1>2 DEF Front
<1>4. ToSet(a) = ToSet(s) \cup {g}
  BY <1>1, <1>2 DEF ToSet
<1> QED BY <1>1, <1>2, <1>3, <1>4 DEF Last

LEMMA NoPath == <<>> \in Seq(Group) /\ ToSet(<<>>) = {}
  BY DEF ToSet

LEMMA TableEntry ==
  ASSUME NEW fst \in Forest, NEW k \in Nat, NEW t \in PathTables(fst, k), NEW n \in 0..k, NEW h \in Row
  PROVE  /\ t[n][h] \in Seq(Group)
         /\ h \notin Rows(fst) \/ n = 0 => t[n][h] = <<>>
         /\ h \in Rows(fst) /\ n # 0 => t[n - 1][fst[h]] \in Seq(Group) /\ t[n][h] = Append(t[n - 1][fst[h]], h)
<1>1. t[n] \in Paths /\ t[0] = [i \in Row |-> <<>>] /\ (n # 0 => n - 1 \in 0..k /\ t[n - 1] \in Paths)
      /\ (n # 0 => t[n] = Longer(fst, t[n - 1]))
  BY DEF PathTables
<1>2. h \in Rows(fst) => fst[h] \in Row
  BY DEF Rows, Forest, Row
<1> QED BY <1>1, <1>2 DEF Longer, Paths

\* A path has only groups that are above its end.
LEMMA TableAbove ==
  ASSUME NEW fst \in Forest, NEW k \in Nat, NEW t \in PathTables(fst, k)
  PROVE  \A n \in 0..k : \A h \in Group : ToSet(t[n][h]) \subseteq Above(fst, h)
<1> DEFINE S == {n \in Nat : n \in 0..k => \A h \in Group : ToSet(t[n][h]) \subseteq Above(fst, h)}
<1>1. 0 \in S
  <2>1. ASSUME NEW h \in Group PROVE ToSet(t[0][h]) = {}
    BY TableEntry, NoPath DEF Row
  <2> QED BY <2>1
<1>2. ASSUME NEW n \in S, n + 1 \in 0..k, NEW h \in Group PROVE ToSet(t[n + 1][h]) \subseteq Above(fst, h)
  <2>1. n \in 0..k /\ n + 1 # 0 /\ (n + 1) - 1 = n /\ h \in Row
    BY <1>2 DEF Row
  <2>2. CASE h \notin Rows(fst)
    BY <1>2, <2>1, <2>2, TableEntry, NoPath
  <2>3. CASE h \in Rows(fst)
    <3>1. t[n][fst[h]] \in Seq(Group) /\ t[n + 1][h] = Append(t[n][fst[h]], h)
      BY <1>2, <2>1, <2>3, TableEntry
    <3>2. ToSet(t[n + 1][h]) = ToSet(t[n][fst[h]]) \cup {h}
      BY <3>1, AppendOne
    <3>3. CASE fst[h] \in Group
      BY <1>2, <2>1, <3>2, <3>3, AboveUnfolds
    <3>4. CASE fst[h] \notin Group
      <4>1. fst[h] \in Row /\ fst[h] \notin Rows(fst)
        BY <2>3, <3>4 DEF Rows, Row, Forest
      <4>2. ToSet(t[n][fst[h]]) = {}
        BY <2>1, <4>1, TableEntry, NoPath
      <4> QED BY <3>2, <4>2, AboveUnfolds
    <3> QED BY <3>3, <3>4
  <2> QED BY <2>2, <2>3
<1>3. \A n \in S : n + 1 \in S
  BY <1>2
<1> HIDE DEF S
<1>4. S = Nat
  BY <1>1, <1>3, Climbing DEF S
<1> QED BY <1>4 DEF S

\* Every row hangs below a row or at the top.
Sound(up) == \A g \in Rows(up) : up[g] \in Rows(up) \cup {Top}

\* A table that is long enough has the whole path, and longer ones have the same.
LEMMA TableComplete ==
  ASSUME NEW fst \in Forest, Acyclic(fst), Sound(fst), NEW k \in Nat, NEW t \in PathTables(fst, k)
  PROVE  \A n \in 0..k : \A h \in Rows(fst) : Cardinality(Above(fst, h)) <= n =>
           ToSet(t[n][h]) = Above(fst, h) /\ \A m \in n..k : t[m][h] = t[n][h]
<1> DEFINE Whole(n) == \A h \in Rows(fst) : Cardinality(Above(fst, h)) <= n =>
             ToSet(t[n][h]) = Above(fst, h) /\ \A m \in n..k : t[m][h] = t[n][h]
           S == {n \in Nat : n \in 0..k => Whole(n)}
<1>1. 0 \in S
  <2>1. ASSUME NEW h \in Rows(fst) PROVE ~(Cardinality(Above(fst, h)) <= 0)
    <3>1. h \in Above(fst, h) /\ IsFiniteSet(Above(fst, h))
      BY AboveUnfolds, FS_Subset DEF Rows
    <3> QED BY <3>1, FS_CardinalityType, FS_EmptySet
  <2> QED BY <2>1
<1>2. ASSUME NEW n \in S, n + 1 \in 0..k, NEW h \in Rows(fst), Cardinality(Above(fst, h)) <= n + 1
      PROVE  ToSet(t[n + 1][h]) = Above(fst, h) /\ \A m \in (n + 1)..k : t[m][h] = t[n + 1][h]
  <2>1. n \in 0..k /\ n + 1 # 0 /\ (n + 1) - 1 = n /\ h \in Row /\ h \in Group
    BY <1>2 DEF Row, Rows
  <2>2. ASSUME NEW m \in (n + 1)..k
        PROVE  /\ m - 1 \in n..k /\ m - 1 \in 0..k
               /\ t[m - 1][fst[h]] \in Seq(Group) /\ t[m][h] = Append(t[m - 1][fst[h]], h)
    <3>1. m \in 0..k /\ m # 0 /\ m - 1 \in n..k /\ m - 1 \in 0..k
      BY <2>1
    <3> QED BY <1>2, <2>1, <3>1, TableEntry
  <2>3. n + 1 \in (n + 1)..k
    BY <1>2
  <2>4. t[n][fst[h]] \in Seq(Group) /\ t[n + 1][h] = Append(t[n][fst[h]], h)
    BY <2>1, <2>2, <2>3
  <2>5. ToSet(t[n + 1][h]) = ToSet(t[n][fst[h]]) \cup {h}
    BY <2>1, <2>4, AppendOne
  <2>6. CASE fst[h] = Top
    <3>1. ASSUME NEW m \in 0..k PROVE t[m][Top] = <<>>
      BY TableEntry DEF Row, Rows
    <3>2. Above(fst, h) = {h}
      BY <2>1, <2>6, AboveUnfolds
    <3> QED BY <2>1, <2>2, <2>4, <2>5, <2>6, <3>1, <3>2, NoPath
  <2>7. CASE fst[h] \in Rows(fst)
    <3>1. fst[h] \in Group
      BY <2>7 DEF Rows
    <3>2. Above(fst, h) = Above(fst, fst[h]) \cup {h}
      BY <2>1, <3>1, AboveUnfolds
    <3>3. Cardinality(Above(fst, fst[h])) <= n
      BY <1>2, <2>1, <3>1, AboveShrinks
    <3>4. ToSet(t[n][fst[h]]) = Above(fst, fst[h]) /\ \A m \in n..k : t[m][fst[h]] = t[n][fst[h]]
      BY <1>2, <2>1, <2>7, <3>3
    <3> QED BY <2>2, <2>4, <2>5, <3>2, <3>4
  <2> QED BY <1>2, <2>6, <2>7 DEF Sound
<1>3. ASSUME NEW n \in S PROVE n + 1 \in S
  BY <1>2, <1>3
<1> HIDE DEF S
<1>4. S = Nat
  BY <1>1, <1>3, Climbing DEF S
<1> QED BY <1>4 DEF S
-----------------------------------------------------------------------------
(* Descending. *)

\* A group is above another exactly if that one is below it: the complement of a
\* set closed upwards is closed downwards.
LEMMA AboveBelow ==
  ASSUME NEW up \in Forest, NEW g \in Group, NEW x \in Group
  PROVE  x \in Above(up, g) <=> g \in Below(up, x)
<1>1. ASSUME x \in Above(up, g), NEW S \in SUBSET Group, x \in S, \A h \in Group : up[h] \in S => h \in S,
             g \notin S
      PROVE  FALSE
  <2> DEFINE T == Group \ S
  <2>1. g \in T /\ T \in SUBSET Group
    BY <1>1
  <2>2. \A h \in T : up[h] \in Group => up[h] \in T
    BY <1>1
  <2>3. x \in T
    BY <1>1, <2>1, <2>2 DEF Above
  <2> QED BY <1>1, <2>3
<1>2. ASSUME g \in Below(up, x), NEW S \in SUBSET Group, g \in S, \A h \in S : up[h] \in Group => up[h] \in S,
             x \notin S
      PROVE  FALSE
  <2> DEFINE T == Group \ S
  <2>1. x \in T /\ T \in SUBSET Group
    BY <1>2
  <2>2. \A h \in Group : up[h] \in T => h \in T
    BY <1>2
  <2>3. g \in T
    BY <1>2, <2>1, <2>2 DEF Below
  <2> QED BY <1>2, <2>3
<1>3. x \in Above(up, g) => g \in Below(up, x)
  BY <1>1 DEF Below
<1>4. g \in Below(up, x) => x \in Above(up, g)
  BY <1>2 DEF Above
<1> QED BY <1>3, <1>4

\* Below a group are its children, theirs and so on, and only rows.
LEMMA BelowClosed ==
  ASSUME NEW up \in Forest, NEW g \in Group
  PROVE  /\ g \in Below(up, g) /\ Below(up, g) \subseteq Group
         /\ \A h \in Group : up[h] \in Below(up, g) => h \in Below(up, g)
         /\ g \in Rows(up) => Below(up, g) \subseteq Rows(up)
<1>1. g \in Below(up, g) /\ Below(up, g) \subseteq Group
  BY DEF Below
<1>2. ASSUME NEW h \in Group, up[h] \in Below(up, g) PROVE h \in Below(up, g)
  BY <1>2 DEF Below
<1>3. ASSUME g \in Rows(up) PROVE Below(up, g) \subseteq Rows(up)
  <2>1. Rows(up) \in SUBSET Group /\ \A h \in Group : up[h] \in Rows(up) => h \in Rows(up)
    BY DEF Rows
  <2> QED BY <1>3, <2>1 DEF Below
<1> QED BY <1>1, <1>2, <1>3

LEMMA VisibleSubtrees ==
  ASSUME NEW up \in Forest, NEW m \in SUBSET Group
  PROVE  /\ \A g \in Visible(up, m) : g \in Group /\ \E x \in m : g \in Below(up, x)
         /\ m \subseteq Rows(up) => Visible(up, m) = UNION {Below(up, g) : g \in m}
<1>1. ASSUME NEW g \in Visible(up, m) PROVE g \in Group /\ \E x \in m : g \in Below(up, x)
  <2>1. PICK x \in m : x \in Above(up, g) /\ g \in Rows(up)
    BY DEF Visible
  <2> QED BY <2>1, AboveBelow DEF Rows
<1>2. ASSUME m \subseteq Rows(up), NEW x \in m, NEW g \in Below(up, x) PROVE g \in Visible(up, m)
  <2>1. g \in Rows(up) /\ g \in Group
    BY <1>2, BelowClosed
  <2> QED BY <1>2, <2>1, AboveBelow DEF Visible
<1> QED BY <1>1, <1>2

\* Users who see a group see what is below it.
LEMMA VisibleBelow ==
  ASSUME NEW up \in Forest, NEW m \in SUBSET Group
  PROVE  /\ Visible(up, m) \subseteq Rows(up) /\ Rows(up) \subseteq Group
         /\ \A g \in Rows(up) : \A x \in Above(up, g) : x \in Visible(up, m) => g \in Visible(up, m)
<1>1. ASSUME NEW g \in Rows(up), NEW x \in Above(up, g), x \in Visible(up, m) PROVE g \in Visible(up, m)
  <2>1. g \in Group /\ Above(up, x) \subseteq Above(up, g)
    BY AboveUnfolds DEF Rows
  <2> QED BY <1>1, <2>1 DEF Visible
<1> QED BY <1>1 DEF Visible, Rows
-----------------------------------------------------------------------------
(* Hierarchies. *)

LEMMA PathFacts ==
  ASSUME NEW up \in Forest, NEW h \in Row
  PROVE  /\ PathTo(up)[h] \in Seq(Group)
         /\ h \notin Rows(up) => PathTo(up)[h] = <<>>
         /\ h \in Group => ToSet(PathTo(up)[h]) \subseteq Above(up, h)
<1> DEFINE N == Cardinality(Group)
<1>1. PICK t \in PathTables(up, N) : PathTo(up) = t[N]
  BY PathToTable
<1>2. N \in Nat /\ N \in 0..N
  BY Size
<1> HIDE DEF N
<1> QED BY <1>1, <1>2, TableEntry, TableAbove

\* The path to a group continues the path to its parent, and shows all above it.
LEMMA PathUnfolds ==
  ASSUME NEW up \in Forest, Acyclic(up), Sound(up), NEW h \in Rows(up)
  PROVE  ToSet(PathTo(up)[h]) = Above(up, h) /\ PathTo(up)[h] = Hierarchy(up, up, h)
<1> DEFINE N == Cardinality(Group)
<1>1. PICK t \in PathTables(up, N) : PathTo(up) = t[N]
  BY PathToTable
<1>2. h \in Group /\ h \in Row /\ Above(up, h) \subseteq Group
  BY AboveUnfolds DEF Row, Rows
<1>3. N \in Nat /\ Cardinality(Above(up, h)) \in Nat /\ Cardinality(Above(up, h)) <= N
  BY <1>2, Size, FS_Subset, FS_CardinalityType
<1> HIDE DEF N
<1>4. N # 0 /\ N - 1 \in 0..N /\ N \in 0..N /\ N \in (N - 1)..N
  <2>1. N # 0
    BY <1>2, FS_EmptySet DEF N
  <2> QED BY <1>3, <2>1
<1>5. ToSet(t[N][h]) = Above(up, h)
  BY <1>3, <1>4, TableComplete
<1>6. t[N][h] = Append(t[N - 1][up[h]], h)
  BY <1>2, <1>3, <1>4, TableEntry
<1>7. t[N - 1][up[h]] = t[N][up[h]]
  <2>1. CASE up[h] = Top
    BY <1>3, <1>4, <2>1, TableEntry DEF Rows, Row
  <2>2. CASE up[h] \in Rows(up)
    <3>1. up[h] \in Group
      BY <2>2 DEF Rows
    <3>2. Cardinality(Above(up, up[h])) <= N - 1
      BY <1>2, <1>3, <3>1, AboveShrinks
    <3> QED BY <1>3, <1>4, <2>2, <3>2, TableComplete
  <2> QED BY <2>1, <2>2 DEF Sound
<1> QED BY <1>1, <1>5, <1>6, <1>7 DEF Hierarchy

LEMMA HierarchyFacts ==
  ASSUME NEW fst \in Forest, NEW up \in Forest, NEW g \in Rows(up)
  PROVE  LET h == Hierarchy(fst, up, g) IN
         /\ h \in Seq(Group) /\ h # <<>> /\ Last(h) = g /\ Front(h) = PathTo(fst)[up[g]]
         /\ ToSet(h) = ToSet(PathTo(fst)[up[g]]) \cup {g}
         /\ ToSet(Front(h)) \subseteq (IF up[g] \in Group THEN Above(fst, up[g]) ELSE {})
<1>1. g \in Group /\ up[g] \in Row /\ (up[g] \notin Group => up[g] \notin Rows(fst))
  BY DEF Rows, Forest, Row
<1>2. PathTo(fst)[up[g]] \in Seq(Group)
  BY <1>1, PathFacts
<1>3. ToSet(PathTo(fst)[up[g]]) \subseteq (IF up[g] \in Group THEN Above(fst, up[g]) ELSE {})
  BY <1>1, PathFacts, NoPath
<1> QED BY <1>1, <1>2, <1>3, AppendOne DEF Hierarchy

LEMMA SoundHierarchy ==
  ASSUME NEW up \in Forest, Acyclic(up), Sound(up), NEW g \in Rows(up)
  PROVE  ToSet(Hierarchy(up, up, g)) = Above(up, g)
BY PathUnfolds

LEMMA PrefixLast ==
  ASSUME NEW i \in Seq(Group), NEW h \in Seq(Group), i # <<>>, IsPrefix(i, h)
  PROVE  Last(i) \in ToSet(h)
<1>1. Len(i) \in Nat /\ Len(i) # 0 /\ Len(h) \in Nat /\ Len(i) <= Len(h) /\ DOMAIN h = 1..Len(h)
  BY EmptySeq, LenProperties DEF IsPrefix
<1>2. SubSeq(i, 1, Len(i))[Len(i)] = i[Len(i)] /\ SubSeq(h, 1, Len(i))[Len(i)] = h[Len(i)]
  BY <1>1
<1> QED BY <1>1, <1>2 DEF IsPrefix, Last, ToSet

LEMMA PrefixAppend ==
  ASSUME NEW s \in Seq(Group), NEW g \in Group
  PROVE  IsPrefix(s, Append(s, g)) /\ s # Append(s, g)
<1> DEFINE a == Append(s, g)
<1>1. /\ a \in Seq(Group) /\ Len(s) \in Nat /\ Len(a) = Len(s) + 1
      /\ \A i \in 1..Len(s) : a[i] = s[i]
  BY AppendProperties, LenProperties
<1>2. SubSeq(s, 1, Len(s)) = SubSeq(a, 1, Len(s))
  BY <1>1
<1> QED BY <1>1, <1>2 DEF IsPrefix

\* What condenseHierarchies keeps are the hierarchies of the highest visible groups.
THEOREM CondenseKeepsHighest ==
  ASSUME NEW up \in Forest, Acyclic(up), Sound(up), NEW m \in SUBSET Group
  PROVE  LET V == Visible(up, m) IN
         Condense(Hierarchies(up, up, m)) = {Hierarchy(up, up, g) : g \in {v \in V : up[v] \notin V}}
<1> DEFINE V == Visible(up, m)
           H == Hierarchies(up, up, m)
           Hi(g) == Hierarchy(up, up, g)
<1>1. V \subseteq Rows(up) /\ Rows(up) \subseteq Group
  BY VisibleBelow
<1>2. ASSUME NEW g \in V
      PROVE  Hi(g) \in Seq(Group) /\ Hi(g) # <<>> /\ Last(Hi(g)) = g /\ ToSet(Hi(g)) = Above(up, g) /\ g \in Group
  BY <1>1, HierarchyFacts, SoundHierarchy
<1>3. ASSUME NEW g \in V, up[g] \in V PROVE Hi(g) \notin Condense(H)
  <2>1. up[g] \in Rows(up) /\ PathTo(up)[up[g]] = Hi(up[g])
    BY <1>1, <1>3, PathUnfolds
  <2>2. Hi(g) = Append(Hi(up[g]), g)
    BY <2>1 DEF Hierarchy
  <2>3. IsPrefix(Hi(up[g]), Hi(g)) /\ Hi(up[g]) # Hi(g)
    BY <1>2, <1>3, <2>2, PrefixAppend
  <2> QED BY <1>3, <2>3 DEF Condense, Hierarchies
<1>4. ASSUME NEW g \in V, up[g] \notin V PROVE Hi(g) \in Condense(H)
  <2>1. SUFFICES ASSUME NEW i \in V, Hi(i) # Hi(g), IsPrefix(Hi(i), Hi(g)) PROVE FALSE
    BY DEF Condense, Hierarchies
  <2>2. i \in Above(up, g) /\ i # g
    BY <1>2, <2>1, PrefixLast
  <2>3. up[g] \in Group /\ i \in Above(up, up[g])
    BY <1>2, <2>2, AboveUnfolds
  <2>4. up[g] \in Rows(up)
    BY <1>1, <2>3 DEF Sound
  <2> QED BY <1>4, <2>3, <2>4, VisibleBelow
<1> QED BY <1>3, <1>4 DEF Condense, Hierarchies
=============================================================================

------------------------------ MODULE GroupWalks -----------------------------
(***************************************************************************)
(* What helper-group.go computes from the groups of an organization: which *)
(* groups a user sees and the path from the top to each of them.  up[g] is *)
(* the parent_id of row g, as some SELECT returned it.                     *)
(***************************************************************************)
EXTENDS SequencesExt

CONSTANTS Group,      \* IDs of rows of table "group"
          Top,        \* parent_id NULL
          Nil         \* no row; as a PATCH's parent_id: not in the body

ASSUME GroupAssumption ==
  Nil # Top /\ Nil \notin Group /\ Top \notin Group /\ IsFiniteSet(Group)

Rows(up) == {g \in Group : up[g] # Nil}
Forest == [Group -> Group \cup {Top, Nil}]
-----------------------------------------------------------------------------
\* g and every group that climbing parent IDs from g comes to.
Above(up, g) ==
  {x \in Group : \A S \in SUBSET Group :
     g \in S /\ (\A h \in S : up[h] \in Group => up[h] \in S) => x \in S}

\* Climbing from g never comes to a group without a parent.
Endless(up, g) == \A h \in Above(up, g) : up[h] \in Group

\* g and every group below it.
Below(up, g) ==
  {x \in Group : \A S \in SUBSET Group :
     g \in S /\ (\A h \in Group : up[h] \in S => h \in S) => x \in S}

\* getGroupsForUser climbs from each group until it meets a mapped one; without
\* a mapped group to meet, it climbs an endless path for ever.
VisibleMappedOnly(up, m) == Rows(up) \cap m
Visible(up, m) == {g \in Rows(up) : Above(up, g) \cap m # {}}
SpinsPastTop(up, m) == \E g \in Rows(up) : Above(up, g) \cap m = {}
Spins(up, m) == \E g \in Rows(up) : Above(up, g) \cap m = {} /\ Endless(up, g)

\* The path of groups down to h in fst, of at most n.
PathTo(fst) ==
  LET path[n \in 0..Cardinality(Group)] ==
        [h \in Group \cup {Top, Nil} |->
          IF h \notin Rows(fst) \/ n = 0 THEN <<>> ELSE Append(path[n - 1][fst[h]], h)]
  IN path[Cardinality(Group)]

\* getGroupHierarchiesForUser: the path to g, whose parent ID comes from the
\* groups read last and whose ancestors from the groups read first.
Hierarchy(fst, up, g) == Append(PathTo(fst)[up[g]], g)
HierarchyEndless(fst, up, g) == up[g] \in Rows(fst) /\ Endless(fst, up[g])
Hierarchies(fst, up, m) == {Hierarchy(fst, up, g) : g \in Visible(up, m)}

\* condenseHierarchies: no hierarchy that continues another one of the set.
CondenseLongest(H) == {h \in H : \A i \in H \ {h} : ~IsPrefix(h, i)}
Condense(H) == {h \in H : \A i \in H \ {h} : ~IsPrefix(i, h)}

\* GET group: all the groups, those at the top (parent_id=null), or the children
\* of p (parent_id=p).
ListAll(H) == {Last(h) : h \in H}
ListTops(H) == {Last(h) : h \in Condense(H)}
ListChildren(H, up, p) == {g \in ListAll(H) : up[g] = p}
=============================================================================

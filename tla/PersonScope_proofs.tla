-------------------------- MODULE PersonScope_proofs -------------------------
(***************************************************************************)
(* Theorems about PersonScope, for any groups, filters, fields, persons    *)
(* and requests: an internal error has a cause in what the request may     *)
(* have read, and a list is the one meant at some moment while it was      *)
(* made.  What clauses say of persons is not used.                         *)
(***************************************************************************)
EXTENDS PersonScope, GroupWalks_proofs

USE GroupAssumption

\* What one transaction of another request does to the groups.
Patched(o, n) ==
  o.maps = n.maps /\ \E g \in Rows(o.parent), p \in Rows(o.parent) \cup {Top} :
    /\ p # Top => p \notin Below(o.parent, g)
    /\ n.parent = [o.parent EXCEPT ![g] = p] /\ \A h \in Group \ {g} : n.filter[h] = o.filter[h]
Cut(o, n) ==
  /\ Rows(n.parent) \subseteq Rows(o.parent) /\ \A u \in User : n.maps[u] \subseteq o.maps[u]
  /\ \A h \in Rows(n.parent) : n.parent[h] = o.parent[h] /\ n.filter[h] = o.filter[h]

SameGroups(o, n) == o.parent = n.parent /\ o.filter = n.filter

\* Moment n comes from o by an edit of kind k; no kind undoes another.
By(k, o, n) ==
  \/ k = "group" /\ o.def = n.def /\ ~SameGroups(o, n) /\ (Patched(o, n) \/ Cut(o, n))
  \/ k = "map" /\ SameGroups(o, n) /\ o.def = n.def
  \/ k = "definition" /\ SameGroups(o, n) /\ o.maps = n.maps

\* What r has read so far: the groups at moment a, the maps at b, the groups
\* again at c and the definitions at d.
Reads(r, a, b, c, d) ==
  /\ pc[r] \in {"mapped", "groups", "definitions", "query", "fields"} =>
       first[r] = a.filter /\ tree[r] = a.parent
  /\ pc[r] \in {"groups", "definitions", "query", "fields"} => mine[r] = b.maps[UserOf[r]]
  /\ pc[r] \in {"definitions", "query", "fields"} =>
       LET H == Hierarchies(a.parent, c.parent, b.maps[UserOf[r]]) IN
       own[r] = c.filter /\ paths[r] \subseteq H /\ (call[r].kind # "count" => paths[r] = H)
  /\ pc[r] \in {"query", "fields"} => types[r] = d.def

InOrder(o, n, a, b, c, d) ==
  /\ a \in {o, n} /\ b \in {o, n} /\ c \in {o, n} /\ d \in {o, n}
  /\ (a = n => b = n) /\ (b = n => c = n)

Asking(r) == pc[r] \notin {"idle", "answered"}

\* If there were only two moments, r has read of the old one first.
ReadsInOrder(r) ==
  \A o, n \in moments[r] : Asking(r) /\ n = Now /\ moments[r] = {o, n} =>
    /\ o = n \/ \E k \in edits : By(k, o, n)
    /\ \E a, b, c, d \in moments[r] : InOrder(o, n, a, b, c, d) /\ Reads(r, a, b, c, d)

Calling(r) ==
  /\ pc[r] = "idle" => call[r] = NoCall /\ moments[r] = {} /\ status[r] = "none"
  /\ Asking(r) => /\ Now \in moments[r] /\ status[r] = "none" /\ call[r].kind \in Kinds
                  /\ call[r].kind = "list" => call[r].groups = {}
                  /\ call[r].kind = "list_group" => \E g \in Group : call[r].groups = {g}
  /\ pc[r] \in {"visible", "check"} => call[r].kind = "count"
  /\ IsFiniteSet(moments[r]) /\ \A m \in moments[r] : Sound(m.parent) /\ Acyclic(m.parent)

\* Values belong to definitions.
Defined == \A p \in Person, f \in FieldName : value[p][f] # Nil => f = VoterID \/ def[f] # Nil

\* What FailuresExplained says of r.
Cause(r) == Unseen(r) \/ Unreadable(r) \/ DefinedMeanwhile(r)
Explained(r) == status[r] = "error" /\ Cardinality(moments[r]) <= 2 => Cause(r)

SInv ==
  /\ TypeOK /\ Sound(parent) /\ Acyclic(parent) /\ Defined
  /\ \A r \in Request : Calling(r) /\ ReadsInOrder(r) /\ Explained(r)
-----------------------------------------------------------------------------
(* Two moments. *)

\* What no part of a path changes, changes none of it.
LEMMA AboveSame ==
  ASSUME NEW up \in Forest, NEW new \in Forest, NEW g \in Group,
         \A h \in Above(up, g) : new[h] = up[h]
  PROVE  Above(new, g) = Above(up, g)
<1>1. Above(new, g) \subseteq Above(up, g)
  <2> DEFINE A == Above(up, g)
  <2>1. g \in A /\ A \in SUBSET Group /\ \A h \in A : new[h] \in Group => new[h] \in A
    BY AboveUnfolds
  <2> HIDE DEF A
  <2> QED BY <2>1 DEF Above
<1>2. Above(up, g) \subseteq Above(new, g)
  <2> DEFINE A == Above(up, g) \cap Above(new, g)
  <2>1. g \in A /\ A \in SUBSET Group /\ \A h \in A : up[h] \in Group => up[h] \in A
    BY AboveUnfolds
  <2>2. Above(up, g) \subseteq A
    <3> HIDE DEF A
    <3> QED BY <2>1 DEF Above
  <2> QED BY <2>2
<1> QED BY <1>1, <1>2

Healthy(m) == m \in Moment /\ Sound(m.parent) /\ Acyclic(m.parent)

\* The filters of a group and those above it, when the path was read at a and the
\* group itself at c.
Torn(a, c, g) == {a.filter[x] : x \in ToSet(PathTo(a.parent)[c.parent[g]])} \cup {c.filter[g]}
Whole(m, g) == {m.filter[h] : h \in Above(m.parent, g)}

LEMMA WholeAlone ==
  ASSUME NEW a, Healthy(a), NEW g \in Rows(a.parent)
  PROVE  Torn(a, a, g) = Whole(a, g)
<1>1. a.parent \in Forest /\ Acyclic(a.parent) /\ Sound(a.parent) /\ g \in Group
  BY DEF Healthy, Moment, Rows
<1>2. Above(a.parent, g) = ToSet(PathTo(a.parent)[a.parent[g]]) \cup {g}
  BY <1>1, HierarchyFacts, SoundHierarchy
<1> QED BY <1>2 DEF Torn, Whole

\* Whatever one edit does between the two reads, the filters found are those of
\* one of the moments: a group moves as a whole and keeps what is above it.
LEMMA TornIsWhole ==
  ASSUME NEW a, NEW c, NEW k, Healthy(a), Healthy(c), a = c \/ By(k, a, c), NEW g \in Rows(c.parent)
  PROVE  \E m \in {a, c} : Torn(a, c, g) = Whole(m, g)
<1>1. /\ a.parent \in Forest /\ Acyclic(a.parent) /\ Sound(a.parent)
      /\ c.parent \in Forest /\ Acyclic(c.parent) /\ Sound(c.parent) /\ g \in Group
  BY DEF Healthy, Moment, Rows
<1>2. CASE g \in Rows(a.parent) /\ c.parent[g] = a.parent[g] /\ c.filter[g] = a.filter[g]
  <2>1. Torn(a, c, g) = Torn(a, a, g)
    BY <1>2 DEF Torn
  <2> QED BY <1>2, <2>1, WholeAlone
<1>3. CASE Patched(a, c)
  <2>1. PICK x \in Rows(a.parent), p \in Rows(a.parent) \cup {Top} :
           /\ p # Top => p \notin Below(a.parent, x)
           /\ c.parent = [a.parent EXCEPT ![x] = p] /\ \A h \in Group \ {x} : c.filter[h] = a.filter[h]
    BY <1>3 DEF Patched
  <2>2. x \in Group /\ (p # Top => p \in Group) /\ c.parent[x] = p /\ \A h \in Group \ {x} : c.parent[h] = a.parent[h]
    BY <1>1, <2>1 DEF Rows, Forest
  <2>3. CASE g # x
    <3>1. c.parent[g] = a.parent[g] /\ c.filter[g] = a.filter[g] /\ g \in Rows(a.parent)
      BY <1>1, <2>1, <2>2, <2>3 DEF Rows
    <3> QED BY <1>2, <3>1
  <2>4. CASE g = x /\ p = Top
    <3>1. ToSet(PathTo(a.parent)[c.parent[g]]) = {}
      BY <1>1, <2>2, <2>4, PathFacts, NoPath DEF Row, Rows
    <3>2. Above(c.parent, g) = {g}
      BY <1>1, <2>2, <2>4, AboveUnfolds
    <3> QED BY <3>1, <3>2 DEF Torn, Whole
  <2>5. CASE g = x /\ p # Top
    <3>1. x \notin Above(a.parent, p) /\ p \in Group /\ p \in Rows(a.parent)
      BY <1>1, <2>1, <2>2, <2>5, AboveBelow
    <3>2. Above(a.parent, p) \subseteq Group
      BY <1>1, <3>1, AboveUnfolds
    <3>3. Above(c.parent, p) = Above(a.parent, p)
      BY <1>1, <2>2, <3>1, <3>2, AboveSame
    <3>4. Above(c.parent, g) = {g} \cup Above(a.parent, p)
      BY <1>1, <2>2, <2>5, <3>1, <3>3, AboveUnfolds
    <3>5. ToSet(PathTo(a.parent)[p]) = Above(a.parent, p)
      BY <1>1, <3>1, PathUnfolds
    <3>6. \A h \in Above(a.parent, p) : c.filter[h] = a.filter[h]
      BY <2>1, <3>1, <3>2
    <3> QED BY <2>2, <2>5, <3>4, <3>5, <3>6 DEF Torn, Whole
  <2> QED BY <2>3, <2>4, <2>5
<1>4. CASE Cut(a, c)
  BY <1>2, <1>4 DEF Cut
<1>5. CASE SameGroups(a, c) \/ a = c
  BY <1>2, <1>5 DEF SameGroups
<1> QED BY <1>3, <1>4, <1>5 DEF By
-----------------------------------------------------------------------------
(* Queries. *)

LEMMA StringsOfPath ==
  ASSUME NEW a, NEW c, Healthy(a), Healthy(c), NEW g \in Rows(c.parent), NEW q
  PROVE  Strings(a.filter, c.filter, Hierarchy(a.parent, c.parent, g), q) = (Torn(a, c, g) \cup {q}) \ {Nil}
<1>1. a.parent \in Forest /\ c.parent \in Forest
  BY DEF Healthy, Moment
<1>2. /\ Last(Hierarchy(a.parent, c.parent, g)) = g
      /\ Front(Hierarchy(a.parent, c.parent, g)) = PathTo(a.parent)[c.parent[g]]
  BY <1>1, HierarchyFacts
<1> QED BY <1>2 DEF Strings, Torn

LEMMA StringsAlone ==
  ASSUME NEW m, Healthy(m), NEW g \in Rows(m.parent), NEW q
  PROVE  Strings(m.filter, m.filter, Hierarchy(m.parent, m.parent, g), q) = Wanted(m, g, q)
<1>1. Strings(m.filter, m.filter, Hierarchy(m.parent, m.parent, g), q) = (Torn(m, m, g) \cup {q}) \ {Nil}
  BY StringsOfPath
<1> QED BY <1>1, WholeAlone DEF Wanted, Whole

LEMMA StringsTorn ==
  ASSUME NEW a, NEW c, Healthy(a), Healthy(c), a = c \/ \E k : By(k, a, c), NEW g \in Rows(c.parent), NEW q
  PROVE  \E m \in {a, c} : Strings(a.filter, c.filter, Hierarchy(a.parent, c.parent, g), q) = Wanted(m, g, q)
<1>1. Strings(a.filter, c.filter, Hierarchy(a.parent, c.parent, g), q) = (Torn(a, c, g) \cup {q}) \ {Nil}
  BY StringsOfPath
<1>2. PICK m \in {a, c} : Torn(a, c, g) = Whole(m, g)
  <2>1. CASE a = c
    BY <2>1, TornIsWhole
  <2>2. CASE a # c
    <3>1. PICK k : By(k, a, c)
      BY <2>2
    <3> QED BY <3>1, TornIsWhole
  <2> QED BY <2>1, <2>2
<1> QED BY <1>1, <1>2 DEF Wanted, Whole

\* The query of one path finds the members of its group.
LEMMA OnePath ==
  ASSUME NEW fl, NEW ow, NEW h, NEW q, NEW ty, NEW c, NEW m, NEW g, Strings(fl, ow, h, q) = Wanted(m, g, q),
         Stray \notin Wanted(m, g, q), ~QueryFails(fl, ow, {h}, q, ty, c)
  PROVE  Selected(fl, ow, {h}, q, ty, value, c) = Members(m, g, q, ty)
<1> DEFINE W == Wanted(m, g, q)
           C == Conjunctions(fl, ow, {h}, q)
           E == {Adding(S) : S \in C} \ {{}}
<1>1. C = {W} \ {{}}
  BY DEF Conjunctions
<1>2. Members(m, g, q, ty) = {p \in Person : \A d \in W : ~Fails(ty)[d] /\ (Absent[d] \/ Holds(ty, value[p])[d])}
  BY DEF Members
<1> HIDE DEF W
<1>3. ~Strays(C)
  BY <1>1 DEF Strays, W
<1>4. \A d \in W : ~Fails(ty)[d]
  BY <1>1, <1>3 DEF QueryFails
<1>5. Selected(fl, ow, {h}, q, ty, value, c) = {p \in Person : E = {} \/ \E S \in E : \A d \in S : Holds(ty, value[p])[d]}
  BY <1>3 DEF Selected
<1>6. E = {Adding(W)} \ {{}}
  <2>1. W = {} => Adding(W) = {}
    BY DEF Adding
  <2> HIDE DEF C
  <2> QED BY <1>1, <2>1
<1> HIDE DEF E
<1>7. ASSUME NEW p \in Person
      PROVE  (E = {} \/ \E S \in E : \A d \in S : Holds(ty, value[p])[d])
               <=> \A d \in W : Absent[d] \/ Holds(ty, value[p])[d]
  <2>1. (E = {} \/ \E S \in E : \A d \in S : Holds(ty, value[p])[d]) <=> \A d \in Adding(W) : Holds(ty, value[p])[d]
    BY <1>6
  <2> QED BY <2>1 DEF Adding
<1> QED BY <1>2, <1>4, <1>5, <1>7

\* Every group that is seen is below one of the highest that are.
LEMMA HighestAbove ==
  ASSUME NEW m, Healthy(m), NEW u, m.maps[u] \in SUBSET Group, NEW g \in SeenBy(m, u)
  PROVE  \E t \in HighestSeen(m, u) : t \in Above(m.parent, g) /\ Above(m.parent, t) \subseteq Above(m.parent, g)
<1> DEFINE P == m.parent
           T == {x \in SeenBy(m, u) : x \in Above(P, g)}
<1>1. P \in Forest /\ Acyclic(P) /\ SeenBy(m, u) \subseteq Group /\ g \in Group
  BY VisibleBelow DEF Healthy, Moment, SeenBy
<1>2. T \in SUBSET Group /\ g \in T
  BY <1>1, AboveUnfolds
<1>3. PICK t \in T : P[t] \notin T
  BY <1>1, <1>2 DEF Acyclic
<1>4. P[t] \in Group => P[t] \in Above(P, g)
  BY <1>1, <1>3, AboveUnfolds
<1>5. P[t] \notin SeenBy(m, u)
  BY <1>1, <1>3, <1>4
<1> QED BY <1>1, <1>3, <1>5, AboveUnfolds DEF HighestSeen

\* The query of the condensed paths finds the members of all groups that are seen.
LEMMA AllPaths ==
  ASSUME NEW m, Healthy(m), NEW u, m.maps[u] \in SUBSET Group, NEW q, NEW ty, NEW c, Regular(m, u, Top, q),
         ~QueryFails(m.filter, m.filter, Condense(Hierarchies(m.parent, m.parent, m.maps[u])), q, ty, c)
  PROVE  Selected(m.filter, m.filter, Condense(Hierarchies(m.parent, m.parent, m.maps[u])), q, ty, value, c)
           = Meant(m, u, Top, q, ty)
<1> DEFINE P == m.parent
           V == SeenBy(m, u)
           Hs == HighestSeen(m, u)
           H == Condense(Hierarchies(P, P, m.maps[u]))
           C == Conjunctions(m.filter, m.filter, H, q)
           E == {Adding(S) : S \in C} \ {{}}
           W(g) == Wanted(m, g, q)
           M(g) == Members(m, g, q, ty)
           Sel == Selected(m.filter, m.filter, H, q, ty, value, c)
<1>1. P \in Forest /\ Acyclic(P) /\ Sound(P)
  BY DEF Healthy, Moment
<1>2. V \subseteq Rows(P) /\ V \subseteq Group /\ Hs \subseteq V
  BY <1>1, VisibleBelow DEF SeenBy, HighestSeen
<1>3. H = {Hierarchy(P, P, g) : g \in Hs}
  BY <1>1, CondenseKeepsHighest DEF HighestSeen, SeenBy
<1>4. ASSUME NEW g \in Hs PROVE Strings(m.filter, m.filter, Hierarchy(P, P, g), q) = W(g)
  <2>1. g \in Rows(P)
    BY <1>2
  <2> QED BY <2>1, StringsAlone
<1>5. C = {W(g) : g \in Hs} \ {{}}
  <2>1. C = {Strings(m.filter, m.filter, h, q) : h \in H} \ {{}}
    BY DEF Conjunctions
  <2> HIDE DEF C, H, Hs, W
  <2> QED BY <1>3, <1>4, <2>1
<1>6. ASSUME NEW g
      PROVE  M(g) = {p \in Person : \A d \in W(g) : ~Fails(ty)[d] /\ (Absent[d] \/ Holds(ty, value[p])[d])}
  BY DEF Members
<1>7. ASSUME NEW g \in V PROVE \E t \in Hs : M(g) \subseteq M(t)
  <2>1. PICK t \in Hs : Above(P, t) \subseteq Above(P, g)
    BY HighestAbove
  <2>2. W(t) \subseteq W(g)
    BY <2>1 DEF Wanted
  <2> HIDE DEF W, M
  <2> QED BY <1>6, <2>2
<1>8. UNION {M(g) : g \in V} = UNION {M(g) : g \in Hs}
  <2> HIDE DEF M, V, Hs
  <2> QED BY <1>2, <1>7
<1>9. \E t \in Hs : TRUE
  <2>1. V # {}
    BY DEF Regular
  <2> QED BY <2>1, HighestAbove
<1>10. \A g \in Hs : Stray \notin W(g)
  BY <1>2 DEF Regular, GroupsOf
<1>11. ~Strays(C)
  <2> HIDE DEF C, Hs, W
  <2> QED BY <1>5, <1>10 DEF Strays
<1>12. \A g \in Hs : \A d \in W(g) : ~Fails(ty)[d]
  <2>1. \A S \in C : \A d \in S : ~Fails(ty)[d]
    BY <1>11 DEF QueryFails
  <2> HIDE DEF C, Hs, W
  <2> QED BY <1>5, <2>1
<1>13. Sel = {p \in Person : E = {} \/ \E S \in E : \A d \in S : Holds(ty, value[p])[d]}
  BY <1>11 DEF Selected
<1>14. E = {Adding(W(g)) : g \in Hs} \ {{}}
  <2>1. Adding({}) = {}
    BY DEF Adding
  <2> HIDE DEF C, Hs, W
  <2> QED BY <1>5, <2>1
<1>15. ASSUME NEW g \in Hs PROVE M(g) = {p \in Person : \A d \in Adding(W(g)) : Holds(ty, value[p])[d]}
  <2> HIDE DEF M, W, Hs
  <2> QED BY <1>6, <1>12 DEF Adding
<1>16. \A g, h \in Hs : Adding(W(g)) = {} <=> Adding(W(h)) = {}
  BY DEF Regular
<1>17. Sel = UNION {M(g) : g \in Hs}
  <2> HIDE DEF M, Hs, Sel, E, W
  <2>1. CASE E = {}
    <3>1. Sel = Person /\ \A g \in Hs : Adding(W(g)) = {}
      BY <1>13, <1>14, <2>1
    <3>2. \A g \in Hs : M(g) = Person
      BY <1>15, <3>1
    <3> QED BY <1>9, <3>1, <3>2
  <2>2. CASE E # {}
    <3>1. \A g \in Hs : Adding(W(g)) # {}
      BY <1>14, <1>16, <2>2
    <3>2. E = {Adding(W(g)) : g \in Hs}
      BY <1>14, <3>1
    <3> QED BY <1>13, <1>15, <2>2, <3>2
  <2> QED BY <2>1, <2>2
<1> QED BY <1>8, <1>17 DEF Meant

\* Groups read at c and maps at b show what the user sees at one of the two moments,
\* and nothing that there is not in what the user sees at one of them.
LEMMA SeenBetween ==
  ASSUME NEW b, NEW c, NEW k, Healthy(b), Healthy(c), b = c \/ By(k, b, c), NEW u \in User
  PROVE  LET V == Visible(c.parent, b.maps[u]) IN
         (\E m \in {b, c} : V \subseteq SeenBy(m, u)) /\ \E m \in {b, c} : SeenBy(m, u) \subseteq V
<1> DEFINE V == Visible(c.parent, b.maps[u])
<1>1. /\ b.parent \in Forest /\ c.parent \in Forest /\ Acyclic(c.parent) /\ Sound(c.parent)
      /\ b.maps[u] \in SUBSET Group /\ c.maps[u] \in SUBSET Group
  BY DEF Healthy, Moment
<1>2. CASE b.parent = c.parent
  <2>1. V = SeenBy(b, u)
    BY <1>2 DEF SeenBy
  <2> QED BY <2>1
<1>3. CASE b.maps = c.maps
  <2>1. V = SeenBy(c, u)
    BY <1>3 DEF SeenBy
  <2> QED BY <2>1
<1>4. CASE Cut(b, c)
  <2>1. SeenBy(c, u) \subseteq V
    BY <1>4 DEF Cut, SeenBy, Visible
  <2>2. ASSUME NEW g \in V PROVE g \in SeenBy(b, u)
    <3>1. g \in Rows(c.parent) /\ g \in Group /\ Above(c.parent, g) \cap b.maps[u] # {}
      BY DEF Visible, Rows
    <3>2. Above(c.parent, g) \subseteq Rows(c.parent)
      <4> DEFINE A == Above(c.parent, g) \cap Rows(c.parent)
      <4>1. g \in A /\ A \in SUBSET Group /\ \A h \in A : c.parent[h] \in Group => c.parent[h] \in A
        BY <1>1, <3>1, AboveUnfolds DEF Sound, Rows
      <4>2. Above(c.parent, g) \subseteq A
        <5> HIDE DEF A
        <5> QED BY <4>1 DEF Above
      <4> QED BY <4>2
    <3>3. \A h \in Above(c.parent, g) : b.parent[h] = c.parent[h]
      BY <1>4, <3>2 DEF Cut
    <3>4. Above(b.parent, g) = Above(c.parent, g)
      BY <1>1, <3>1, <3>3, AboveSame
    <3> QED BY <1>4, <3>1, <3>4 DEF Cut, SeenBy, Visible
  <2> QED BY <2>1, <2>2
<1> QED BY <1>2, <1>3, <1>4 DEF By, Patched, SameGroups

-----------------------------------------------------------------------------
(* The invariant holds at first. *)

LEMMA SeedAcyclic == Acyclic(SeedParent)
<1> SUFFICES ASSUME NEW S \in SUBSET Group, NEW g \in S, \A h \in S : SeedParent[h] \in S PROVE FALSE
  BY DEF Acyclic
<1>1. SeedParent \in Forest /\ g \in Rows(SeedParent)
  BY ScopeAssumption DEF Rows
<1>2. Above(SeedParent, g) \subseteq S
  BY DEF Above
<1>3. Endless(SeedParent, g)
  BY <1>2 DEF Endless
<1> QED BY <1>1, <1>3, ScopeAssumption

LEMMA Seeded == SeedParent \in Forest /\ SeedFilter \subseteq Filter \cup {Nil} /\ SeedMaps \subseteq SUBSET Group
  BY ScopeAssumption DEF Rows

LEMMA Initially == Init => SInv
<1> SUFFICES ASSUME Init PROVE SInv
  OBVIOUS
<1>1. Now \in Moment
  <2>1. filter \in Filters /\ maps \in [User -> SUBSET Group] /\ parent \in Forest
    BY Seeded DEF Init, Filters
  <2>2. def \in [FieldName -> Defs]
    BY ScopeAssumption DEF Init
  <2> QED BY <2>1, <2>2 DEF Now, Moment
<1>2. value \in [Person -> Fields(Value)]
  BY ScopeAssumption DEF Init, Fields
<1>3. /\ pc \in [Request -> Phase] /\ status \in [Request -> Status] /\ call \in [Request -> Calls]
      /\ mine \in [Request -> SUBSET Group] /\ paths \in [Request -> SUBSET Seq(Group)]
      /\ moments \in [Request -> SUBSET Moment] /\ edits \in SUBSET EditKinds
  BY DEF Init, Phase, Status, NoCall, Calls
<1>4. /\ first \in [Request -> Filters] /\ own \in [Request -> Filters] /\ tree \in [Request -> Forest]
      /\ types \in [Request -> [FieldName -> Defs]]
      /\ shown \in [Request -> [Group \cup {Top} -> SUBSET Person]]
  BY DEF Init, Filters, Forest, Defs
<1>5. \A r \in Request : \A s \in (Group \cup {Top}) \ Slots(r) : shown[r][s] = {}
  BY DEF Init
<1>6. TypeOK
  BY <1>1, <1>2, <1>3, <1>4, <1>5 DEF TypeOK
<1>7. Sound(parent) /\ Acyclic(parent)
  BY ScopeAssumption, SeedAcyclic DEF Init, Sound
<1>8. Defined
  BY DEF Init, Defined
<1>9. ASSUME NEW r \in Request PROVE Calling(r) /\ ReadsInOrder(r) /\ Explained(r)
  <2>1. pc[r] = "idle" /\ status[r] = "none" /\ call[r] = NoCall /\ moments[r] = {}
    BY DEF Init
  <2> QED BY <2>1, FS_EmptySet DEF Calling, ReadsInOrder, Explained, Asking
<1> QED BY <1>6, <1>7, <1>8, <1>9 DEF SInv
-----------------------------------------------------------------------------
(* Steps of a request. *)

OthersStay(r) ==
  \A q \in Request \ {r} :
    /\ pc'[q] = pc[q] /\ status'[q] = status[q] /\ call'[q] = call[q] /\ moments'[q] = moments[q]
    /\ first'[q] = first[q] /\ own'[q] = own[q] /\ tree'[q] = tree[q] /\ mine'[q] = mine[q]
    /\ paths'[q] = paths[q] /\ types'[q] = types[q]

\* A step of r leaves what it knows itself to show.
LEMMA OwnStep ==
  ASSUME SInv, NEW r \in Request, OthersStay(r), UNCHANGED <<tables, edits>>, TypeOK',
         Calling(r)', ReadsInOrder(r)', Explained(r)'
  PROVE  SInv'
<1>1. UNCHANGED <<parent, filter, maps, def, value>> /\ Now' = Now
  BY DEF tables, Now
<1>2. Sound(parent)' /\ Acyclic(parent)' /\ Defined'
  BY <1>1 DEF SInv, Sound, Acyclic, Defined, Rows
<1>3. ASSUME NEW q \in Request \ {r} PROVE Calling(q)' /\ ReadsInOrder(q)' /\ Explained(q)'
  <2>0. /\ pc'[q] = pc[q] /\ status'[q] = status[q] /\ call'[q] = call[q] /\ moments'[q] = moments[q]
        /\ first'[q] = first[q] /\ own'[q] = own[q] /\ tree'[q] = tree[q] /\ mine'[q] = mine[q]
        /\ paths'[q] = paths[q] /\ types'[q] = types[q] /\ edits' = edits
    BY <1>3 DEF OthersStay
  <2>1. Calling(q)'
    <3>1. Calling(q)
      BY <1>3 DEF SInv
    <3> QED BY <1>1, <2>0, <3>1 DEF Calling, Asking
  <2>2. ReadsInOrder(q)'
    <3>1. ReadsInOrder(q)
      BY <1>3 DEF SInv
    <3> QED BY <1>1, <2>0, <3>1 DEF ReadsInOrder, Asking, Reads
  <2>3. Explained(q)'
    <3>1. Explained(q)
      BY <1>3 DEF SInv
    <3>2. Cause(q) => Cause(q)'
      BY <2>0 DEF Cause, Unseen, Unreadable, DefinedMeanwhile
    <3> QED BY <2>0, <3>1, <3>2 DEF Explained
  <2> QED BY <2>1, <2>2, <2>3
<1> QED BY <1>2, <1>3 DEF SInv

\* A request that is answered, for a reason when the answer is an error.
LEMMA RefuseStep ==
  ASSUME SInv, NEW r \in Request, NEW s \in Status, Refuse(r, s),
         s = "error" => (Cardinality(moments[r]) <= 2 => Cause(r))
  PROVE  SInv'
<1>1. /\ pc'[r] = "answered" /\ status'[r] = s /\ OthersStay(r)
      /\ pc' \in [Request -> Phase] /\ status' \in [Request -> Status]
  BY DEF SInv, TypeOK, Refuse, Answer, Goto, OthersStay, locals, Phase
<1>2. UNCHANGED <<tables, locals, edits, moments>>
  BY DEF Refuse, Answer
<1>3. /\ UNCHANGED <<parent, filter, maps, def, value, call, first, own, tree, mine, paths, types, shown>>
      /\ Now' = Now
  BY <1>2 DEF tables, locals, Now
<1>4. TypeOK'
  BY <1>1, <1>2, <1>3 DEF SInv, TypeOK, Slots
<1>5. Calling(r)' /\ ReadsInOrder(r)'
  BY <1>1, <1>2 DEF SInv, Calling, ReadsInOrder, Asking, Sound, Acyclic, Rows
<1>6. Explained(r)'
  BY <1>1, <1>2, <1>3 DEF Explained, Cause, Unseen, Unreadable, DefinedMeanwhile
<1> QED BY <1>1, <1>2, <1>4, <1>5, <1>6, OwnStep

LEMMA FailureHasCause ==
  ASSUME SInv, NEW r \in Request
  PROVE  FailuresExplained <=> \A q \in Request : Explained(q)
BY DEF FailuresExplained, Explained, Cause

\* A statement that reads, and goes on.
LEMMA ReadStep ==
  ASSUME SInv, NEW r \in Request, OthersStay(r), UNCHANGED <<tables, edits, status, moments>>, TypeOK',
         Asking(r), Asking(r)', call'[r] = call[r], pc'[r] \in {"visible", "check"} => call[r].kind = "count",
         \A o, n \in moments[r] : \A a, b, c, d \in moments[r] :
           n = Now /\ InOrder(o, n, a, b, c, d) /\ Reads(r, a, b, c, d) =>
             \E i, j, k, l \in moments[r] : InOrder(o, n, i, j, k, l) /\ Reads(r, i, j, k, l)'
  PROVE  SInv'
<1>1. Now' = Now /\ status'[r] = status[r] /\ moments'[r] = moments[r] /\ edits' = edits
  BY DEF tables, Now
<1>2. Calling(r) /\ ReadsInOrder(r)
  BY DEF SInv
<1>3. Calling(r)'
  BY <1>1, <1>2 DEF Calling, Asking
<1>4. ReadsInOrder(r)'
  <2> SUFFICES ASSUME NEW o \in moments[r], NEW n \in moments[r], n = Now, moments[r] = {o, n}
               PROVE  /\ o = n \/ \E k \in edits : By(k, o, n)
                      /\ \E a, b, c, d \in moments[r] : InOrder(o, n, a, b, c, d) /\ Reads(r, a, b, c, d)'
    BY <1>1 DEF ReadsInOrder
  <2>1. /\ o = n \/ \E k \in edits : By(k, o, n)
        /\ \E a, b, c, d \in moments[r] : InOrder(o, n, a, b, c, d) /\ Reads(r, a, b, c, d)
    BY <1>2 DEF ReadsInOrder
  <2> QED BY <2>1
<1>5. Explained(r)'
  BY <1>1, <1>2 DEF Calling, Explained
<1> QED BY <1>3, <1>4, <1>5, OwnStep

\* What a request has that goes on.
LEMMA ContinueStep ==
  ASSUME SInv, NEW r \in Request, NEW p \in Phase, Continue(r, p)
  PROVE  /\ pc' \in [Request -> Phase] /\ pc'[r] = p /\ \A q \in Request \ {r} : pc'[q] = pc[q]
         /\ UNCHANGED <<tables, status, edits, moments>>
         /\ UNCHANGED <<parent, filter, maps, def, value>> /\ Now' = Now
  BY DEF SInv, TypeOK, Continue, Goto, tables, Now

LEMMA ListPersonsStep ==
  ASSUME SInv, NEW r \in Request, NEW k \in May[r], NEW G \in Asks, NEW q \in Queries, ListPersons(r, k, G, q)
  PROVE  SInv'
<1>1. CASE Refuse(r, "not_found") \/ Refuse(r, "bad_request")
  BY <1>1, RefuseStep DEF Status
<1>2. CASE /\ Goto(r, IF k = "count" THEN "visible" ELSE "first")
           /\ call' = [call EXCEPT ![r] = [kind |-> k, groups |-> G, query |-> q]]
           /\ moments' = [moments EXCEPT ![r] = {Now}]
           /\ UNCHANGED <<tables, status, first, own, tree, mine, paths, types, shown, edits>>
  <2> DEFINE c == [kind |-> k, groups |-> G, query |-> q]
  <2>1. k \in Kinds /\ G \in SUBSET Group /\ c \in Calls
    BY ScopeAssumption DEF Calls
  <2>2. pc[r] = "idle" /\ call[r] = NoCall /\ status[r] = "none" /\ moments[r] = {}
    BY DEF SInv, Calling, ListPersons
  <2>3. /\ pc' \in [Request -> Phase] /\ call' \in [Request -> Calls] /\ moments' \in [Request -> SUBSET Moment]
        /\ call'[r] = c /\ moments'[r] = {Now} /\ pc'[r] \in {"visible", "first"}
        /\ (pc'[r] = "visible" => k = "count")
        /\ OthersStay(r)
    BY <1>2, <2>1 DEF SInv, TypeOK, Goto, Phase, OthersStay
  <2>4. UNCHANGED <<parent, filter, maps, def, value>> /\ Now' = Now /\ UNCHANGED <<tables, edits>>
    BY <1>2 DEF tables, Now
  <2>5. \A s \in Group \cup {Top} : shown[r][s] = {}
    <3>1. NoCall.kind # "list" /\ NoCall.groups = {}
      BY ScopeAssumption DEF NoCall, Kinds
    <3>2. Slots(r) = {}
      BY <2>2, <3>1 DEF Slots
    <3> QED BY <3>2 DEF SInv, TypeOK
  <2>6. \A i \in Request : \A s \in (Group \cup {Top}) \ Slots(i)' : shown[i][s] = {}
    <3>1. ASSUME NEW i \in Request \ {r} PROVE call'[i] = call[i]
      BY <2>3 DEF OthersStay
    <3> QED BY <2>5, <3>1 DEF SInv, TypeOK, Slots
  <2>7. TypeOK'
    BY <1>2, <2>3, <2>4, <2>6 DEF SInv, TypeOK
  <2>8. Calling(r)'
    <3>1. k = "list" => G = {}
      BY DEF ListPersons
    <3>2. ASSUME k = "list_group" PROVE \E g \in Group : G = {g}
      <4>1. Cardinality(G) = 1
        BY <3>2 DEF ListPersons
      <4>2. IsFiniteSet(G)
        BY <2>1, FS_Subset
      <4>3. \E g : G = {g}
        BY <4>1, <4>2, FS_Singleton
      <4> QED BY <2>1, <4>3
    <3>3. IsFiniteSet({Now}) /\ Sound(parent) /\ Acyclic(parent) /\ Now.parent = parent
      BY FS_Singleton DEF SInv, Now
    <3>4. status'[r] = "none" /\ Now \in {Now}
      BY <1>2, <2>2
    <3> HIDE DEF c
    <3>5. c.kind = k /\ c.groups = G
      BY DEF c
    <3>6. \A m \in moments'[r] : Sound(m.parent) /\ Acyclic(m.parent)
      BY <2>3, <3>3
    <3> QED BY <2>1, <2>3, <2>4, <3>1, <3>2, <3>3, <3>4, <3>5, <3>6 DEF Calling, Asking
  <2>9. ReadsInOrder(r)'
    BY <2>3, <2>4 DEF ReadsInOrder, InOrder, Reads, Asking
  <2>10. Explained(r)'
    BY <1>2, <2>2 DEF Explained
  <2> QED BY <2>3, <2>4, <2>7, <2>8, <2>9, <2>10, OwnStep
<1> QED BY <1>1, <1>2 DEF ListPersons

\* The SELECTs before the query: what they read is of the latest moment.
LEMMA NowTyped ==
  ASSUME SInv, NEW r \in Request
  PROVE  /\ parent \in Forest /\ filter \in Filters /\ maps[UserOf[r]] \in SUBSET Group
         /\ def \in [FieldName -> Defs]
<1>1. Now \in Moment
  BY DEF SInv, TypeOK
<1> QED BY <1>1, ScopeAssumption DEF Now, Moment

LEMMA ReadMappedStep ==
  ASSUME SInv, NEW r \in Request, ReadMapped(r) PROVE SInv'
<1> DEFINE p == IF pc[r] = "visible" THEN "check" ELSE "groups"
<1>1. Continue(r, p) /\ p \in Phase
  BY DEF ReadMapped, Phase
<1> HIDE DEF p
<1>2. /\ pc' \in [Request -> Phase] /\ pc'[r] = p /\ (\A q \in Request \ {r} : pc'[q] = pc[q])
      /\ UNCHANGED <<tables, status, edits, moments>>
      /\ UNCHANGED <<parent, filter, maps, def, value>> /\ Now' = Now
  BY <1>1, ContinueStep
<1>3. /\ mine' \in [Request -> SUBSET Group] /\ mine'[r] = maps[UserOf[r]]
      /\ \A q \in Request \ {r} : mine'[q] = mine[q]
  BY NowTyped DEF ReadMapped, SInv, TypeOK
<1>4. UNCHANGED <<call, first, own, tree, paths, types, shown>>
  BY DEF ReadMapped
<1>5. TypeOK' /\ OthersStay(r)
  BY <1>2, <1>3, <1>4 DEF SInv, TypeOK, Slots, OthersStay
<1>6. Asking(r) /\ Asking(r)' /\ (pc'[r] = "check" => call[r].kind = "count") /\ pc'[r] # "visible"
  <2>1. Calling(r)
    BY DEF SInv
  <2> QED BY <1>2, <2>1 DEF ReadMapped, Asking, Calling, p
<1>7. ASSUME NEW o \in moments[r], NEW n \in moments[r],
             NEW a \in moments[r], NEW b \in moments[r], NEW c \in moments[r], NEW d \in moments[r],
             n = Now, InOrder(o, n, a, b, c, d), Reads(r, a, b, c, d)
      PROVE  \E i, j, k, l \in moments[r] : InOrder(o, n, i, j, k, l) /\ Reads(r, i, j, k, l)'
  <2>1. n.maps = maps
    BY <1>7 DEF Now
  <2>2. CASE pc[r] = "visible"
    <3>1. InOrder(o, n, n, n, n, n) /\ Reads(r, n, n, n, n)'
      BY <1>2, <2>2 DEF InOrder, Reads, p
    <3> QED BY <3>1
  <2>3. CASE pc[r] = "mapped"
    <3>1. pc'[r] = "groups" /\ first'[r] = a.filter /\ tree'[r] = a.parent /\ mine'[r] = n.maps[UserOf[r]]
      BY <1>2, <1>3, <1>4, <1>7, <2>1, <2>3 DEF Reads, p
    <3>2. InOrder(o, n, a, n, n, n) /\ Reads(r, a, n, n, n)'
      BY <1>7, <3>1 DEF InOrder, Reads
    <3> QED BY <3>2
  <2> QED BY <2>2, <2>3 DEF ReadMapped
<1> QED BY <1>2, <1>4, <1>5, <1>6, <1>7, ReadStep

LEMMA CheckVisibleStep ==
  ASSUME SInv, NEW r \in Request, CheckVisible(r) PROVE SInv'
<1>1. CASE Refuse(r, "bad_request")
  BY <1>1, RefuseStep DEF Status
<1>2. CASE Continue(r, "first") /\ UNCHANGED locals
  <2>1. /\ pc' \in [Request -> Phase] /\ pc'[r] = "first" /\ (\A q \in Request \ {r} : pc'[q] = pc[q])
        /\ UNCHANGED <<tables, status, edits, moments>>
        /\ UNCHANGED <<parent, filter, maps, def, value>> /\ Now' = Now
    BY <1>2, ContinueStep DEF Phase
  <2>2. UNCHANGED <<call, first, own, tree, mine, paths, types, shown>>
    BY <1>2 DEF locals
  <2>3. TypeOK' /\ OthersStay(r)
    BY <2>1, <2>2 DEF SInv, TypeOK, Slots, OthersStay
  <2>4. Asking(r) /\ Asking(r)'
    BY <2>1 DEF CheckVisible, Asking
  <2>5. ASSUME NEW o \in moments[r], NEW n \in moments[r]
        PROVE  InOrder(o, n, n, n, n, n) /\ Reads(r, n, n, n, n)'
    BY <2>1 DEF InOrder, Reads
  <2> QED BY <2>1, <2>2, <2>3, <2>4, <2>5, ReadStep
<1> QED BY <1>1, <1>2 DEF CheckVisible

LEMMA ReadFirstStep ==
  ASSUME SInv, NEW r \in Request, ReadFirst(r) PROVE SInv'
<1>1. /\ pc' \in [Request -> Phase] /\ pc'[r] = "mapped" /\ (\A q \in Request \ {r} : pc'[q] = pc[q])
      /\ UNCHANGED <<tables, status, edits, moments>>
      /\ UNCHANGED <<parent, filter, maps, def, value>> /\ Now' = Now
  BY ContinueStep DEF ReadFirst, Phase
<1>2. /\ first' \in [Request -> Filters] /\ first'[r] = filter /\ tree' \in [Request -> Forest] /\ tree'[r] = parent
      /\ \A q \in Request \ {r} : first'[q] = first[q] /\ tree'[q] = tree[q]
  BY NowTyped DEF ReadFirst, SInv, TypeOK
<1>3. UNCHANGED <<call, own, mine, paths, types, shown>>
  BY DEF ReadFirst
<1>4. TypeOK' /\ OthersStay(r)
  BY <1>1, <1>2, <1>3 DEF SInv, TypeOK, Slots, OthersStay
<1>5. Asking(r) /\ Asking(r)'
  BY <1>1 DEF ReadFirst, Asking
<1>6. ASSUME NEW o \in moments[r], NEW n \in moments[r], n = Now
      PROVE  InOrder(o, n, n, n, n, n) /\ Reads(r, n, n, n, n)'
  <2>1. n.filter = filter /\ n.parent = parent
    BY <1>6 DEF Now
  <2> QED BY <1>1, <1>2, <2>1 DEF InOrder, Reads
<1> QED BY <1>1, <1>3, <1>4, <1>5, <1>6, ReadStep

LEMMA HierarchiesType ==
  ASSUME NEW fst \in Forest, NEW up \in Forest, NEW m \in SUBSET Group
  PROVE  Hierarchies(fst, up, m) \in SUBSET Seq(Group)
BY VisibleBelow, HierarchyFacts DEF Hierarchies

LEMMA ReadGroupsStep ==
  ASSUME SInv, NEW r \in Request, ReadGroups(r) PROVE SInv'
<1>1. /\ pc' \in [Request -> Phase] /\ pc'[r] = "definitions" /\ (\A q \in Request \ {r} : pc'[q] = pc[q])
      /\ UNCHANGED <<tables, status, edits, moments>>
      /\ UNCHANGED <<parent, filter, maps, def, value>> /\ Now' = Now
  BY ContinueStep DEF ReadGroups, Phase
<1> DEFINE H == Hierarchies(tree[r], parent, mine[r])
<1>2. H \in SUBSET Seq(Group)
  BY NowTyped, HierarchiesType DEF SInv, TypeOK
<1> HIDE DEF H
<1>3. /\ own' \in [Request -> Filters] /\ own'[r] = filter /\ paths' \in [Request -> SUBSET Seq(Group)] /\ paths'[r] = H
      /\ \A q \in Request \ {r} : own'[q] = own[q] /\ paths'[q] = paths[q]
  BY <1>2, NowTyped DEF ReadGroups, SInv, TypeOK, H
<1>4. UNCHANGED <<call, first, tree, mine, types, shown>>
  BY DEF ReadGroups
<1>5. TypeOK' /\ OthersStay(r)
  BY <1>1, <1>3, <1>4 DEF SInv, TypeOK, Slots, OthersStay
<1>6. Asking(r) /\ Asking(r)' /\ pc[r] = "groups"
  BY <1>1 DEF ReadGroups, Asking
<1>7. ASSUME NEW o \in moments[r], NEW n \in moments[r],
             NEW a \in moments[r], NEW b \in moments[r], NEW c \in moments[r], NEW d \in moments[r],
             n = Now, InOrder(o, n, a, b, c, d), Reads(r, a, b, c, d)
      PROVE  InOrder(o, n, a, b, n, n) /\ Reads(r, a, b, n, n)'
  <2>1. n.filter = filter /\ n.parent = parent
    BY <1>7 DEF Now
  <2>2. first[r] = a.filter /\ tree[r] = a.parent /\ mine[r] = b.maps[UserOf[r]]
    BY <1>6, <1>7 DEF Reads
  <2>3. paths'[r] = Hierarchies(a.parent, n.parent, b.maps[UserOf[r]])
    BY <1>3, <2>1, <2>2 DEF H
  <2> QED BY <1>1, <1>3, <1>4, <1>7, <2>1, <2>2, <2>3 DEF InOrder, Reads
<1> QED BY <1>1, <1>4, <1>5, <1>6, <1>7, ReadStep

LEMMA ReadDefinitionsStep ==
  ASSUME SInv, NEW r \in Request, ReadDefinitions(r) PROVE SInv'
<1>1. /\ pc' \in [Request -> Phase] /\ pc'[r] = "query" /\ (\A q \in Request \ {r} : pc'[q] = pc[q])
      /\ UNCHANGED <<tables, status, edits, moments>>
      /\ UNCHANGED <<parent, filter, maps, def, value>> /\ Now' = Now
  BY ContinueStep DEF ReadDefinitions, Phase
<1>2. /\ types' \in [Request -> [FieldName -> Defs]] /\ types'[r] = def
      /\ \A q \in Request \ {r} : types'[q] = types[q]
  BY NowTyped DEF ReadDefinitions, SInv, TypeOK
<1>3. UNCHANGED <<call, first, own, tree, mine, paths, shown>>
  BY DEF ReadDefinitions
<1>4. TypeOK' /\ OthersStay(r)
  BY <1>1, <1>2, <1>3 DEF SInv, TypeOK, Slots, OthersStay
<1>5. Asking(r) /\ Asking(r)' /\ pc[r] = "definitions"
  BY <1>1 DEF ReadDefinitions, Asking
<1>6. ASSUME NEW o \in moments[r], NEW n \in moments[r],
             NEW a \in moments[r], NEW b \in moments[r], NEW c \in moments[r], NEW d \in moments[r],
             n = Now, InOrder(o, n, a, b, c, d), Reads(r, a, b, c, d)
      PROVE  InOrder(o, n, a, b, c, n) /\ Reads(r, a, b, c, n)'
  <2>1. n.def = def
    BY <1>6 DEF Now
  <2> QED BY <1>1, <1>2, <1>3, <1>5, <1>6, <2>1 DEF InOrder, Reads
<1> QED BY <1>1, <1>3, <1>4, <1>5, <1>6, ReadStep
-----------------------------------------------------------------------------
(* The queries of a request. *)

\* While there were at most two moments, r has read of the old one first.
LEMMA TwoMoments ==
  ASSUME SInv, NEW r \in Request, Asking(r), Cardinality(moments[r]) <= 2
  PROVE  \E o, n \in moments[r] :
           /\ moments[r] = {o, n} /\ n = Now /\ Healthy(o) /\ Healthy(n) /\ (o = n \/ \E k \in edits : By(k, o, n))
           /\ \E a, b, c, d \in moments[r] : InOrder(o, n, a, b, c, d) /\ Reads(r, a, b, c, d)
<1>1. PICK n : n = Now
  OBVIOUS
<1>2. n \in moments[r] /\ IsFiniteSet(moments[r]) /\ ReadsInOrder(r)
  BY <1>1 DEF SInv, Calling
<1>3. \E o \in moments[r] : moments[r] = {o, n}
  <2> DEFINE rest == moments[r] \ {n}
  <2>1. /\ IsFiniteSet(rest) /\ Cardinality(rest) = Cardinality(moments[r]) - 1
        /\ Cardinality(rest) \in Nat /\ Cardinality(moments[r]) \in Nat
    BY <1>2, FS_RemoveElement, FS_CardinalityType
  <2>2. Cardinality(rest) = 0 \/ Cardinality(rest) = 1
    BY <2>1
  <2>3. CASE Cardinality(rest) = 0
    <3>1. rest = {}
      BY <2>1, <2>3, FS_EmptySet
    <3> QED BY <1>2, <3>1
  <2>4. CASE Cardinality(rest) = 1
    <3>1. PICK o : rest = {o}
      BY <2>1, <2>4, FS_Singleton
    <3> QED BY <1>2, <3>1
  <2> QED BY <2>2, <2>3, <2>4
<1>4. PICK o \in moments[r] : moments[r] = {o, n}
  BY <1>3
<1>5. \A m \in moments[r] : Healthy(m)
  BY DEF Healthy, SInv, TypeOK, Calling
<1>6. /\ o = n \/ \E k \in edits : By(k, o, n)
      /\ \E a, b, c, d \in moments[r] : InOrder(o, n, a, b, c, d) /\ Reads(r, a, b, c, d)
  BY <1>1, <1>2, <1>4 DEF ReadsInOrder
<1> QED BY <1>1, <1>2, <1>4, <1>5, <1>6

\* Each path found has the filters of its group at one of the moments.
LEMMA PathWanted ==
  ASSUME SInv, NEW r \in Request, pc[r] = "query", Cardinality(moments[r]) <= 2, NEW h \in paths[r], NEW q
  PROVE  \E m \in moments[r] : Strings(first[r], own[r], h, q) = Wanted(m, Last(h), q)
<1>1. Asking(r)
  BY DEF Asking
<1>2. PICK o \in moments[r], n \in moments[r] :
        /\ moments[r] = {o, n} /\ n = Now /\ Healthy(o) /\ Healthy(n) /\ (o = n \/ \E k \in edits : By(k, o, n))
        /\ \E a, b, c, d \in moments[r] : InOrder(o, n, a, b, c, d) /\ Reads(r, a, b, c, d)
  BY <1>1, TwoMoments
<1>3. PICK a \in moments[r], b \in moments[r], c \in moments[r], d \in moments[r] :
        InOrder(o, n, a, b, c, d) /\ Reads(r, a, b, c, d)
  BY <1>2
<1>4. a = c \/ (a = o /\ c = n)
  BY <1>3 DEF InOrder
<1>5. Healthy(a) /\ Healthy(b) /\ Healthy(c) /\ (a = c \/ \E k \in edits : By(k, a, c))
  BY <1>2, <1>4
<1>6. first[r] = a.filter /\ own[r] = c.filter /\ h \in Hierarchies(a.parent, c.parent, b.maps[UserOf[r]])
  BY <1>3 DEF Reads
<1>7. PICK g \in Visible(c.parent, b.maps[UserOf[r]]) : h = Hierarchy(a.parent, c.parent, g)
  BY <1>6 DEF Hierarchies
<1>8. g \in Rows(c.parent) /\ a.parent \in Forest /\ c.parent \in Forest
  BY <1>5 DEF Visible, Healthy, Moment
<1>9. Last(h) = g
  BY <1>7, <1>8, HierarchyFacts
<1>10. \E m \in {a, c} : Strings(a.filter, c.filter, Hierarchy(a.parent, c.parent, g), q) = Wanted(m, g, q)
  <2>1. Healthy(a) /\ Healthy(c) /\ g \in Rows(c.parent) /\ (a = c \/ \E k \in edits : By(k, a, c))
    BY <1>5, <1>8
  <2> QED BY <2>1, StringsTorn
<1> QED BY <1>6, <1>7, <1>9, <1>10

\* So does what the user was found to see.
LEMMA SeenWhole ==
  ASSUME SInv, NEW r \in Request, pc[r] = "query", Cardinality(moments[r]) <= 2
  PROVE  \E V : /\ \E H : (paths[r] \subseteq H /\ (call[r].kind # "count" => paths[r] = H))
                         /\ \A g : (\E h \in H : Last(h) = g) <=> g \in V
                /\ \E m \in moments[r] : V \subseteq SeenBy(m, UserOf[r])
                /\ \E m \in moments[r] : SeenBy(m, UserOf[r]) \subseteq V
<1>1. Asking(r)
  BY DEF Asking
<1>2. PICK o \in moments[r], n \in moments[r] :
        /\ moments[r] = {o, n} /\ n = Now /\ Healthy(o) /\ Healthy(n) /\ (o = n \/ \E k \in edits : By(k, o, n))
        /\ \E a, b, c, d \in moments[r] : InOrder(o, n, a, b, c, d) /\ Reads(r, a, b, c, d)
  BY <1>1, TwoMoments
<1>3. PICK a \in moments[r], b \in moments[r], c \in moments[r], d \in moments[r] :
        InOrder(o, n, a, b, c, d) /\ Reads(r, a, b, c, d)
  BY <1>2
<1>4. Healthy(a) /\ Healthy(b) /\ Healthy(c) /\ (b = c \/ \E k \in edits : By(k, b, c))
  BY <1>2, <1>3 DEF InOrder
<1> DEFINE u == UserOf[r]
           V == Visible(c.parent, b.maps[u])
           H == Hierarchies(a.parent, c.parent, b.maps[u])
<1>5. paths[r] \subseteq H /\ (call[r].kind # "count" => paths[r] = H)
  BY <1>3 DEF Reads
<1>6. u \in User
  BY ScopeAssumption
<1>7. a.parent \in Forest /\ c.parent \in Forest /\ V \subseteq Rows(c.parent)
  BY <1>4 DEF Healthy, Moment, Visible
<1> HIDE DEF u
<1>8. \A g : (\E h \in H : Last(h) = g) <=> g \in V
  <2>1. \A g \in V : Last(Hierarchy(a.parent, c.parent, g)) = g
    BY <1>7, HierarchyFacts
  <2> QED BY <2>1 DEF Hierarchies
<1>9. (\E m \in {b, c} : V \subseteq SeenBy(m, u)) /\ \E m \in {b, c} : SeenBy(m, u) \subseteq V
  <2>1. CASE b = c
    BY <1>4, <1>6, <2>1, SeenBetween
  <2>2. CASE b # c
    <3>1. PICK k : By(k, b, c)
      BY <1>4, <2>2
    <3> QED BY <1>4, <1>6, <3>1, SeenBetween
  <2> QED BY <2>1, <2>2
<1> HIDE DEF V, H
<1> QED BY <1>5, <1>8, <1>9 DEF u

\* The definitions read are those of a moment.
LEMMA TypesRead ==
  ASSUME SInv, NEW r \in Request, pc[r] \in {"query", "fields"}, Cardinality(moments[r]) <= 2
  PROVE  \E n \in moments[r] : types[r] = n.def
<1>1. Asking(r)
  BY DEF Asking
<1>2. PICK a \in moments[r], b \in moments[r], c \in moments[r], d \in moments[r] : Reads(r, a, b, c, d)
  BY <1>1, TwoMoments
<1> QED BY <1>2 DEF Reads

LEMMA QueryCause ==
  ASSUME SInv, NEW r \in Request, pc[r] = "query", Cardinality(moments[r]) <= 2, NEW c,
         NEW H \in SUBSET paths[r], QueryFails(first[r], own[r], H, call[r].query, types[r], c),
         call[r].kind = "list" \/ \A h \in H : Last(h) \in call[r].groups
  PROVE  Cause(r)
<1>0. PICK q : q = call[r].query
  OBVIOUS
<1>1. PICK h \in H : \E d \in Strings(first[r], own[r], h, q) : d = Stray \/ Fails(types[r])[d]
  <2> DEFINE C == Conjunctions(first[r], own[r], H, q)
  <2>1. CASE Strays(C)
    BY <2>1 DEF Strays, Conjunctions
  <2>2. CASE ~Strays(C)
    <3>1. \E S \in C : \E d \in S : Fails(types[r])[d]
      BY <1>0, <2>2 DEF QueryFails
    <3> QED BY <3>1 DEF Conjunctions
  <2> QED BY <2>1, <2>2
<1>2. h \in paths[r]
  OBVIOUS
<1>3. PICK m \in moments[r] : Strings(first[r], own[r], h, q) = Wanted(m, Last(h), q)
  BY <1>2, PathWanted
<1>4. PICK n \in moments[r] : types[r] = n.def
  BY TypesRead
<1>5. \E o \in moments[r] :
        Last(h) \in IF call[r].kind = "list" THEN SeenBy(o, UserOf[r]) ELSE call[r].groups
  <2>1. CASE call[r].kind # "list"
    <3>1. m \in moments[r] /\ Last(h) \in call[r].groups
      BY <2>1
    <3> QED BY <2>1, <3>1
  <2>2. CASE call[r].kind = "list"
    <3>1. PICK o \in moments[r] : Last(h) \in SeenBy(o, UserOf[r])
      BY <1>2, SeenWhole
    <3> QED BY <2>2, <3>1
  <2> QED BY <2>1, <2>2
<1> QED BY <1>0, <1>1, <1>3, <1>4, <1>5 DEF Cause, Unreadable

\* A group without a hierarchy is not seen.
LEMMA UnseenCause ==
  ASSUME SInv, NEW r \in Request, pc[r] = "query", Cardinality(moments[r]) <= 2,
         call[r].kind \notin {"list", "count"}, NEW s \in call[r].groups, PathsOf(paths[r], s) = {}
  PROVE  Cause(r)
<1>1. ~\E h \in paths[r] : Last(h) = s
  BY DEF PathsOf
<1>2. \E m \in moments[r] : s \notin SeenBy(m, UserOf[r])
  BY <1>1, SeenWhole
<1> QED BY <1>2 DEF Cause, Unseen

LEMMA SlotsType ==
  ASSUME SInv, NEW r \in Request
  PROVE  Slots(r) \subseteq Group \cup {Top}
BY DEF SInv, TypeOK, Calls, Slots

\* A query leaves its result in its slot.
LEMMA FoundType ==
  ASSUME SInv, NEW r \in Request, NEW s \in Slots(r), NEW H, NEW c, shown' = Found(r, s, H, c), call' = call
  PROVE  /\ shown' \in [Request -> [Group \cup {Top} -> SUBSET Person]]
         /\ \A i \in Request : \A t \in (Group \cup {Top}) \ Slots(i)' : shown'[i][t] = {}
         /\ shown'[r][s] = Selected(first[r], own[r], H, call[r].query, types[r], value, c)
<1> DEFINE sel == Selected(first[r], own[r], H, call[r].query, types[r], value, c)
<1>1. sel \in SUBSET Person /\ s \in Group \cup {Top}
  BY SlotsType DEF Selected
<1>2. shown' = [shown EXCEPT ![r] = [shown[r] EXCEPT ![s] = sel]]
  BY DEF Found
<1> HIDE DEF sel
<1>3. shown \in [Request -> [Group \cup {Top} -> SUBSET Person]]
  BY DEF SInv, TypeOK
<1>4. shown' \in [Request -> [Group \cup {Top} -> SUBSET Person]] /\ shown'[r][s] = sel
  <2> DEFINE new == [shown[r] EXCEPT ![s] = sel]
  <2>1. shown[r] \in [Group \cup {Top} -> SUBSET Person]
    BY <1>3
  <2>2. new \in [Group \cup {Top} -> SUBSET Person] /\ new[s] = sel
    BY <1>1, <2>1
  <2>3. shown' = [shown EXCEPT ![r] = new]
    BY <1>2
  <2> HIDE DEF new
  <2> QED BY <1>3, <2>2, <2>3
<1>5. ASSUME NEW i \in Request, NEW t \in (Group \cup {Top}) \ Slots(i) PROVE shown'[i][t] = {}
  <2>1. shown[i][t] = {}
    BY DEF SInv, TypeOK
  <2>2. i = r => t # s
    OBVIOUS
  <2> QED BY <1>1, <1>2, <1>3, <2>1, <2>2
<1>6. \A i \in Request : Slots(i)' = Slots(i)
  BY DEF Slots
<1> QED BY <1>4, <1>5, <1>6 DEF sel

LEMMA FilterPersonsStep ==
  ASSUME SInv, NEW r \in Request, FilterPersons(r) PROVE SInv'
<1>1. PICK s \in Slots(r), rd \in Readings :
        LET H == PathsFor(r, s) IN
        IF (s # Top /\ H = {}) \/ QueryFails(first[r], own[r], H, call[r].query, types[r], rd)
        THEN Refuse(r, "error")
        ELSE /\ Continue(r, "fields") /\ shown' = Found(r, s, H, rd)
             /\ UNCHANGED <<call, first, own, tree, mine, paths, types>>
  BY DEF FilterPersons
<1> DEFINE H == PathsFor(r, s)
<1>2. pc[r] = "query" /\ call[r].kind # "count" /\ Asking(r) /\ Calling(r)
  BY DEF FilterPersons, Asking, SInv
<1>3. H \in SUBSET paths[r] /\ (call[r].kind = "list" <=> s = Top) /\ (s # Top => s \in call[r].groups)
  <2>1. H \subseteq paths[r]
    BY DEF PathsFor, Condense, PathsOf
  <2>2. Top \notin call[r].groups
    BY DEF SInv, TypeOK, Calls
  <2> QED BY <2>1, <2>2 DEF Slots
<1>4. CASE (s # Top /\ H = {}) \/ QueryFails(first[r], own[r], H, call[r].query, types[r], rd)
  <2>1. Refuse(r, "error")
    BY <1>1, <1>4
  <2>2. ASSUME Cardinality(moments[r]) <= 2 PROVE Cause(r)
    <3>1. CASE s # Top /\ H = {}
      BY <1>2, <1>3, <2>2, <3>1, UnseenCause DEF PathsFor
    <3>2. CASE QueryFails(first[r], own[r], H, call[r].query, types[r], rd)
      <4>1. s # Top => \A h \in H : Last(h) \in call[r].groups
        BY <1>3 DEF PathsFor, PathsOf
      <4> QED BY <1>2, <1>3, <2>2, <3>2, <4>1, QueryCause
    <3> QED BY <1>4, <3>1, <3>2
  <2> QED BY <2>1, <2>2, RefuseStep DEF Status
<1>5. CASE ~((s # Top /\ H = {}) \/ QueryFails(first[r], own[r], H, call[r].query, types[r], rd))
  <2>1. Continue(r, "fields") /\ shown' = Found(r, s, H, rd) /\ UNCHANGED <<call, first, own, tree, mine, paths, types>>
    BY <1>1, <1>5
  <2>2. /\ pc' \in [Request -> Phase] /\ pc'[r] = "fields" /\ (\A q \in Request \ {r} : pc'[q] = pc[q])
        /\ UNCHANGED <<tables, status, edits, moments>>
        /\ UNCHANGED <<parent, filter, maps, def, value>> /\ Now' = Now
    BY <2>1, ContinueStep DEF Phase
  <2> HIDE DEF H
  <2>3. /\ shown' \in [Request -> [Group \cup {Top} -> SUBSET Person]]
        /\ \A i \in Request : \A t \in (Group \cup {Top}) \ Slots(i)' : shown'[i][t] = {}
    BY <2>1, FoundType
  <2>4. TypeOK' /\ OthersStay(r)
    BY <2>1, <2>2, <2>3 DEF SInv, TypeOK, OthersStay
  <2>5. Asking(r)'
    BY <2>2 DEF Asking
  <2>6. ASSUME NEW a, NEW b, NEW c, NEW d, Reads(r, a, b, c, d) PROVE Reads(r, a, b, c, d)'
    BY <1>2, <2>1, <2>2, <2>6 DEF Reads
  <2> QED BY <1>2, <2>1, <2>2, <2>4, <2>5, <2>6, ReadStep
<1> QED BY <1>4, <1>5

LEMMA ReadFieldsStep ==
  ASSUME SInv, NEW r \in Request, ReadFields(r) PROVE SInv'
<1>1. CASE Refuse(r, "ok")
  BY <1>1, RefuseStep DEF Status
<1>2. CASE Refuse(r, "error") /\ ~\A s \in Slots(r) : \A p \in shown[r][s] : Listed(types[r], p)
  <2>1. ASSUME Cardinality(moments[r]) <= 2 PROVE Cause(r)
    <3>1. pc[r] = "fields" /\ Asking(r)
      BY DEF ReadFields, Asking
    <3>2. PICK m \in moments[r] : types[r] = m.def
      BY <2>1, <3>1, TypesRead
    <3>3. Now \in moments[r] /\ Now.def = def
      BY <3>1 DEF SInv, Calling, Now
    <3>4. PICK s \in Slots(r) : \E p \in shown[r][s] : ~Listed(types[r], p)
      BY <1>2
    <3> PICK p \in shown[r][s] : ~Listed(types[r], p)
      BY <3>4
    <3>5. p \in Person
      <4>1. s \in Group \cup {Top} /\ shown[r] \in [Group \cup {Top} -> SUBSET Person]
        BY SlotsType DEF SInv, TypeOK
      <4> QED BY <4>1
    <3>6. PICK f \in FieldName : value[p][f] # Nil /\ f # VoterID /\ types[r][f] = Nil
      BY DEF Listed
    <3>7. def[f] # Nil
      BY <3>5, <3>6 DEF SInv, Defined
    <3> QED BY <3>2, <3>3, <3>6, <3>7 DEF Cause, DefinedMeanwhile
  <2> QED BY <1>2, <2>1, RefuseStep DEF Status
<1> QED BY <1>1, <1>2 DEF ReadFields

LEMMA FilterPersonsCountStep ==
  ASSUME SInv, NEW r \in Request, FilterPersonsCount(r) PROVE SInv'
<1>1. pc[r] = "query" /\ call[r].kind = "count" /\ Asking(r) /\ Calling(r)
  BY DEF FilterPersonsCount, Asking, SInv
<1>2. CASE Refuse(r, "ok")
  BY <1>2, RefuseStep DEF Status
<1>3. ASSUME NEW h \in Asked(r), NEW rd, Refuse(r, "error"), QueryFails(first[r], own[r], {h}, call[r].query, types[r], rd)
      PROVE  SInv'
  <2>1. {h} \in SUBSET paths[r] /\ \A i \in {h} : Last(i) \in call[r].groups
    BY DEF Asked
  <2>2. Cardinality(moments[r]) <= 2 => Cause(r)
    BY <1>1, <1>3, <2>1, QueryCause
  <2> QED BY <1>3, <2>2, RefuseStep DEF Status
<1>4. ASSUME NEW h \in Asked(r), NEW rd, shown' = Found(r, Last(h), {h}, rd), paths' = [paths EXCEPT ![r] = paths[r] \ {h}],
             Continue(r, "query") \/ Answer(r, "ok"), UNCHANGED <<call, first, own, tree, mine, types>>
      PROVE  SInv'
  <2>1. Last(h) \in Slots(r)
    BY <1>1 DEF Asked, Slots
  <2>2. /\ shown' \in [Request -> [Group \cup {Top} -> SUBSET Person]]
        /\ \A i \in Request : \A t \in (Group \cup {Top}) \ Slots(i)' : shown'[i][t] = {}
    BY <1>4, <2>1, FoundType
  <2>3. /\ paths' \in [Request -> SUBSET Seq(Group)] /\ paths'[r] \subseteq paths[r]
        /\ \A q \in Request \ {r} : paths'[q] = paths[q]
    BY <1>4 DEF SInv, TypeOK
  <2>4. CASE Continue(r, "query")
    <3>1. /\ pc' \in [Request -> Phase] /\ pc'[r] = "query" /\ (\A q \in Request \ {r} : pc'[q] = pc[q])
          /\ UNCHANGED <<tables, status, edits, moments>>
          /\ UNCHANGED <<parent, filter, maps, def, value>> /\ Now' = Now
      BY <2>4, ContinueStep DEF Phase
    <3>2. TypeOK' /\ OthersStay(r)
      BY <1>4, <2>2, <2>3, <3>1 DEF SInv, TypeOK, OthersStay
    <3>3. Asking(r)'
      BY <3>1 DEF Asking
    <3>4. ASSUME NEW a, NEW b, NEW c, NEW d, Reads(r, a, b, c, d) PROVE Reads(r, a, b, c, d)'
      BY <1>1, <1>4, <2>3, <3>1, <3>4 DEF Reads
    <3> QED BY <1>1, <1>4, <3>1, <3>2, <3>3, <3>4, ReadStep
  <2>5. CASE Answer(r, "ok")
    <3>1. /\ pc'[r] = "answered" /\ status'[r] = "ok" /\ pc' \in [Request -> Phase]
          /\ status' \in [Request -> Status] /\ UNCHANGED <<tables, edits, moments>>
          /\ \A q \in Request \ {r} : pc'[q] = pc[q] /\ status'[q] = status[q]
      BY <2>5 DEF SInv, TypeOK, Answer, Goto, Phase, Status
    <3>2. UNCHANGED <<parent, filter, maps, def, value>> /\ Now' = Now
      BY <3>1 DEF tables, Now
    <3>3. TypeOK' /\ OthersStay(r)
      BY <1>4, <2>2, <2>3, <3>1, <3>2 DEF SInv, TypeOK, OthersStay
    <3>4. Calling(r)' /\ ReadsInOrder(r)' /\ Explained(r)'
      BY <1>1, <3>1 DEF Calling, ReadsInOrder, Asking, Explained
    <3> QED BY <3>1, <3>3, <3>4, OwnStep
  <2> QED BY <1>4, <2>4, <2>5
<1> QED BY <1>2, <1>3, <1>4 DEF FilterPersonsCount
-----------------------------------------------------------------------------
(* Steps of other requests. *)

LEMMA PatchedStaysAcyclic ==
  ASSUME NEW up \in Forest, Acyclic(up), NEW g \in Group, NEW p \in Group \cup {Top},
         p # Top => p \notin Below(up, g), NEW new \in Forest, new = [up EXCEPT ![g] = p]
  PROVE  Acyclic(new)
<1> SUFFICES ASSUME NEW S \in SUBSET Group, NEW x \in S, \A h \in S : new[h] \in S PROVE FALSE
  BY DEF Acyclic
<1>1. \A h \in Group \ {g} : new[h] = up[h]
  BY DEF Forest
<1>2. CASE g \notin S
  BY <1>1, <1>2 DEF Acyclic
<1>3. CASE g \in S
  <2>1. p \in S /\ p \in Group
    BY <1>3 DEF Forest
  <2>2. g \notin Above(up, p)
    BY <2>1, AboveBelow
  <2>3. /\ p \in Above(up, p) /\ Above(up, p) \subseteq Group
        /\ \A h \in Above(up, p) : up[h] \in Group => up[h] \in Above(up, p)
    BY <2>1, AboveUnfolds
  <2>4. Above(new, p) = Above(up, p)
    <3>1. \A h \in Above(up, p) : new[h] = up[h]
      BY <1>1, <2>2, <2>3
    <3> QED BY <2>1, <3>1, AboveSame
  <2>5. Above(new, p) \subseteq S
    BY <2>1 DEF Above
  <2>6. \A h \in Above(up, p) : up[h] \in Above(up, p)
    BY <1>1, <2>2, <2>3, <2>4, <2>5
  <2> QED BY <2>3, <2>6 DEF Acyclic
<1> QED BY <1>2, <1>3

\* A kind of edit that did not happen leads to a moment that was not before.
LEMMA NoReturn ==
  ASSUME NEW o \in Moment, NEW n \in Moment, NEW k, NEW l, k # l, By(k, o, n), By(l, n, o)
  PROVE  o = n
<1>1. SameGroups(o, n) /\ o.def = n.def /\ o.maps = n.maps
  BY DEF By, SameGroups
<1> QED BY <1>1 DEF SameGroups, Moment

\* What an edit has to show that leaves the requests alone.
LEMMA EditedStep ==
  ASSUME SInv, NEW kind \in EditKinds, Edited(kind), NEW o, o = Now, NEW n, n = Now',
         n = o \/ By(kind, o, n), Healthy(n), Defined', value' \in [Person -> Fields(Value)]
  PROVE  SInv'
<1>1. /\ kind \notin edits /\ edits' = edits \cup {kind} /\ UNCHANGED <<pc, status, locals>>
      /\ UNCHANGED <<call, first, own, tree, mine, paths, types, shown>>
      /\ moments' = [r \in Request |-> IF r \in InFlight THEN moments[r] \cup {n} ELSE moments[r]]
  BY DEF Edited, locals
<1>2. n \in Moment /\ Sound(n.parent) /\ Acyclic(n.parent) /\ n.parent = parent' /\ o \in Moment
  BY DEF Healthy, Now, SInv, TypeOK
<1>3. Sound(parent)' /\ Acyclic(parent)'
  BY <1>2 DEF Sound, Acyclic, Rows
<1>4. moments' \in [Request -> SUBSET Moment]
  BY <1>1, <1>2 DEF SInv, TypeOK
<1>5. TypeOK'
  BY <1>1, <1>2, <1>4 DEF SInv, TypeOK, Slots
<1>6. ASSUME NEW r \in Request PROVE Calling(r)' /\ ReadsInOrder(r)' /\ Explained(r)'
  <2>1. /\ pc'[r] = pc[r] /\ status'[r] = status[r] /\ call'[r] = call[r] /\ first'[r] = first[r]
        /\ own'[r] = own[r] /\ tree'[r] = tree[r] /\ mine'[r] = mine[r] /\ paths'[r] = paths[r]
        /\ types'[r] = types[r] /\ edits \subseteq edits' /\ Asking(r)' = Asking(r)
    BY <1>1 DEF Asking
  <2>2. /\ Asking(r) => moments'[r] = moments[r] \cup {n}
        /\ ~Asking(r) => moments'[r] = moments[r]
    BY <1>1 DEF InFlight, Asking
  <2>3. Calling(r) /\ ReadsInOrder(r) /\ Explained(r)
    BY DEF SInv
  <2>4. IsFiniteSet(moments'[r]) /\ \A m \in moments'[r] : Sound(m.parent) /\ Acyclic(m.parent)
    <3>1. IsFiniteSet(moments[r] \cup {n})
      BY <2>3, FS_AddElement DEF Calling
    <3> QED BY <1>2, <2>2, <2>3, <3>1 DEF Calling
  <2>5. Calling(r)'
    BY <2>1, <2>2, <2>3, <2>4 DEF Calling, Asking
  <2>6. Explained(r)'
    <3>1. CASE Asking(r)
      BY <2>1, <2>3, <3>1 DEF Calling, Explained
    <3>2. CASE ~Asking(r)
      <4>1. Cause(r) => Cause(r)'
        BY <2>1, <2>2, <3>2 DEF Cause, Unseen, Unreadable, DefinedMeanwhile
      <4> QED BY <2>1, <2>2, <2>3, <3>2, <4>1 DEF Explained
    <3> QED BY <3>1, <3>2
  <2>7. ReadsInOrder(r)'
    <3> SUFFICES ASSUME Asking(r), NEW i \in moments'[r], moments'[r] = {i, n}
                 PROVE  /\ i = n \/ \E k \in edits' : By(k, i, n)
                        /\ \E a, b, c, d \in moments'[r] : InOrder(i, n, a, b, c, d) /\ Reads(r, a, b, c, d)'
      BY <2>1 DEF ReadsInOrder
    <3>1. ASSUME NEW a, NEW b, NEW c, NEW d, Reads(r, a, b, c, d) PROVE Reads(r, a, b, c, d)'
      BY <2>1, <3>1 DEF Reads
    <3>2. o \in moments[r] /\ moments'[r] = moments[r] \cup {n}
      BY <2>2, <2>3 DEF Calling
    <3>3. CASE n = o
      <4>1. moments[r] = {i, o}
        BY <3>2, <3>3
      <4>2. /\ i = o \/ \E k \in edits : By(k, i, o)
            /\ \E a, b, c, d \in moments[r] : InOrder(i, o, a, b, c, d) /\ Reads(r, a, b, c, d)
        BY <2>3, <4>1 DEF ReadsInOrder
      <4> QED BY <2>1, <3>1, <3>2, <3>3, <4>2
    <3>4. CASE n # o
      <4>1. By(kind, o, n) /\ i = o
        BY <3>2, <3>4
      <4>2. n \notin moments[r]
        <5> SUFFICES ASSUME n \in moments[r] PROVE FALSE
          OBVIOUS
        <5>1. moments[r] = {n, o}
          BY <3>2, <4>1
        <5>2. PICK k \in edits : By(k, n, o)
          BY <2>3, <3>4, <5>1 DEF ReadsInOrder
        <5> QED BY <1>1, <1>2, <3>4, <4>1, <5>2, NoReturn
      <4>3. moments[r] = {o}
        BY <3>2, <4>1, <4>2
      <4>4. Reads(r, o, o, o, o)
        BY <2>3, <4>3 DEF ReadsInOrder
      <4> QED BY <1>1, <3>1, <3>2, <4>1, <4>4 DEF InOrder
    <3> QED BY <3>3, <3>4
  <2> QED BY <2>5, <2>6, <2>7
<1> QED BY <1>3, <1>5, <1>6 DEF SInv

\* The requests stay, and a table that an edit leaves alone keeps its part of Now.
LEMMA TablesType ==
  ASSUME SInv
  PROVE  /\ parent \in Forest /\ filter \in Filters /\ maps \in [User -> SUBSET Group]
         /\ def \in [FieldName -> Defs] /\ value \in [Person -> Fields(Value)]
         /\ Now \in Moment /\ Sound(parent) /\ Acyclic(parent) /\ Defined
<1>1. TypeOK /\ Sound(parent) /\ Acyclic(parent) /\ Defined
  BY DEF SInv
<1>2. Now \in Moment /\ value \in [Person -> Fields(Value)]
  BY <1>1 DEF TypeOK
<1> QED BY <1>1, <1>2 DEF Now, Moment

LEMMA PatchGroupStep ==
  ASSUME SInv, NEW g \in Rows(parent), NEW p \in Rows(parent) \cup {Top}, NEW c \in Filter \cup {Nil},
         PatchGroup(g, p, c)
  PROVE  SInv'
<1>1. PICK o : o = Now
  OBVIOUS
<1>2. PICK n : n = Now'
  OBVIOUS
<1>3. /\ o.parent = parent /\ o.filter = filter /\ o.maps = maps /\ o.def = def
      /\ n.parent = parent' /\ n.filter = filter' /\ n.maps = maps' /\ n.def = def'
  BY <1>1, <1>2 DEF Now
<1>4. g \in Group /\ (p # Top => p \in Group /\ p \notin Below(parent, g)) /\ p \in Group \cup {Top}
  BY DEF Rows, PatchGroup
<1>5. /\ parent' = [parent EXCEPT ![g] = p] /\ filter' = [filter EXCEPT ![g] = c]
      /\ UNCHANGED <<maps, def, value>> /\ Edited("group")
  BY DEF PatchGroup
<1>6. parent' \in Forest /\ filter' \in Filters
  BY <1>4, <1>5, TablesType DEF Forest, Filters
<1>7. n \in Moment
  BY <1>2, <1>5, <1>6, TablesType DEF Now, Moment
<1>8. Rows(n.parent) = Rows(o.parent) /\ Sound(n.parent)
  <2>1. Rows(parent') = Rows(parent)
    BY <1>4, <1>5, TablesType DEF Rows, Forest
  <2>2. \A h \in Rows(parent') : parent'[h] \in Rows(parent) \cup {Top}
    BY <1>4, <1>5, <2>1, TablesType DEF Sound, Forest, Rows
  <2> QED BY <1>3, <2>1, <2>2 DEF Sound
<1>9. Acyclic(n.parent)
  <2>1. n.parent \in Forest /\ n.parent = [parent EXCEPT ![g] = p]
    BY <1>3, <1>5, <1>6
  <2> QED BY <1>4, <2>1, TablesType, PatchedStaysAcyclic
<1>10. Defined' /\ value' \in [Person -> Fields(Value)]
  BY <1>5, TablesType DEF Defined
<1>11. n = o \/ By("group", o, n)
  <2>1. o.def = n.def
    BY <1>3, <1>5
  <2>2. Patched(o, n)
    <3>1. \A h \in Group \ {g} : filter'[h] = filter[h]
      BY <1>5, TablesType DEF Filters
    <3>2. g \in Rows(o.parent) /\ p \in Rows(o.parent) \cup {Top}
      BY <1>3
    <3>3. (p # Top => p \notin Below(o.parent, g)) /\ n.parent = [o.parent EXCEPT ![g] = p]
      BY <1>3, <1>4, <1>5
    <3>4. \A h \in Group \ {g} : n.filter[h] = o.filter[h]
      BY <1>3, <3>1
    <3>5. o.maps = n.maps
      BY <1>3, <1>5
    <3> QED BY <3>2, <3>3, <3>4, <3>5 DEF Patched
  <2>3. SameGroups(o, n) => n = o
    BY <1>1, <1>2, <1>3, <1>5 DEF SameGroups, Now
  <2> QED BY <2>1, <2>2, <2>3 DEF By
<1> QED BY <1>1, <1>2, <1>5, <1>7, <1>8, <1>9, <1>10, <1>11, EditedStep DEF Healthy, EditKinds

LEMMA DeleteGroupStep ==
  ASSUME SInv, NEW g \in Rows(parent), DeleteGroup(g) PROVE SInv'
<1>1. PICK o : o = Now
  OBVIOUS
<1>2. PICK n : n = Now'
  OBVIOUS
<1>3. /\ o.parent = parent /\ o.filter = filter /\ o.maps = maps /\ o.def = def
      /\ n.parent = parent' /\ n.filter = filter' /\ n.maps = maps' /\ n.def = def'
  BY <1>1, <1>2 DEF Now
<1> DEFINE gone == Below(parent, g)
<1>4. g \in gone /\ gone \subseteq Group /\ \A h \in Group : parent[h] \in gone => h \in gone
  BY TablesType, BelowClosed DEF Rows
<1>5. /\ parent' = [h \in Group |-> IF h \in gone THEN Nil ELSE parent[h]]
      /\ filter' = [h \in Group |-> IF h \in gone THEN Nil ELSE filter[h]]
      /\ maps' = [u \in User |-> maps[u] \ gone]
      /\ UNCHANGED <<def, value>> /\ Edited("group")
  BY DEF DeleteGroup
<1> HIDE DEF gone
<1>6. parent' \in Forest /\ filter' \in Filters /\ maps' \in [User -> SUBSET Group]
  BY <1>5, TablesType DEF Forest, Filters
<1>7. n \in Moment
  BY <1>2, <1>5, <1>6, TablesType DEF Now, Moment
<1>8. Cut(o, n) /\ Sound(n.parent)
  <2>1. \A h \in Rows(parent') : h \in Rows(parent) /\ h \notin gone /\ parent'[h] = parent[h] /\ filter'[h] = filter[h]
    BY <1>5 DEF Rows
  <2>2. ASSUME NEW h \in Rows(parent') PROVE parent'[h] \in Rows(parent') \cup {Top}
    <3>1. parent[h] \in Rows(parent) \cup {Top} /\ parent[h] \notin gone /\ h \in Group
      BY <1>4, <2>1, TablesType DEF Sound, Rows
    <3>2. parent[h] # Top => parent'[parent[h]] = parent[parent[h]] /\ parent[h] \in Group
      BY <1>5, <3>1 DEF Rows
    <3> QED BY <2>1, <3>1, <3>2 DEF Rows
  <2>3. \A u \in User : maps'[u] \subseteq maps[u]
    BY <1>5
  <2> QED BY <1>3, <2>1, <2>2, <2>3 DEF Cut, Sound
<1>9. Acyclic(n.parent)
  <2> SUFFICES ASSUME NEW S \in SUBSET Group, NEW x \in S, \A h \in S : n.parent[h] \in S PROVE FALSE
    BY DEF Acyclic
  <2>1. \A h \in S : o.parent[h] \in S
    BY <1>8 DEF Cut, Rows
  <2> QED BY <1>3, <2>1, TablesType DEF Acyclic
<1>10. Defined' /\ value' \in [Person -> Fields(Value)]
  BY <1>5, TablesType DEF Defined
<1>11. By("group", o, n)
  <2>1. n.parent[g] = Nil /\ o.parent[g] # Nil /\ o.def = n.def
    BY <1>3, <1>4, <1>5 DEF Rows
  <2> QED BY <1>8, <2>1 DEF By, SameGroups
<1> QED BY <1>1, <1>2, <1>5, <1>7, <1>8, <1>9, <1>10, <1>11, EditedStep DEF Healthy, EditKinds

\* The other edits leave the groups.
LEMMA MapUserStep ==
  ASSUME SInv, NEW u \in User, NEW G \in SUBSET Rows(parent), MapUser(u, G) PROVE SInv'
<1>1. PICK o : o = Now
  OBVIOUS
<1>2. PICK n : n = Now'
  OBVIOUS
<1>3. maps' = [maps EXCEPT ![u] = G] /\ UNCHANGED <<parent, filter, def, value>> /\ Edited("map")
  BY DEF MapUser
<1>4. maps' \in [User -> SUBSET Group]
  BY <1>3, TablesType DEF Rows
<1>5. Healthy(n)
  BY <1>2, <1>3, <1>4, TablesType DEF Healthy, Now, Moment
<1>6. By("map", o, n)
  BY <1>1, <1>2, <1>3 DEF By, SameGroups, Now
<1>7. Defined' /\ value' \in [Person -> Fields(Value)]
  BY <1>3, TablesType DEF Defined
<1> QED BY <1>1, <1>2, <1>3, <1>5, <1>6, <1>7, EditedStep DEF EditKinds

LEMMA EditDefinitionStep ==
  ASSUME SInv, NEW f \in FieldName, NEW t \in Type \cup {"renamed"}, EditDefinition(f, t) PROVE SInv'
<1>1. PICK o : o = Now
  OBVIOUS
<1>2. PICK n : n = Now'
  OBVIOUS
<1>3. /\ t # Nil /\ def' = [def EXCEPT ![f] = t] /\ UNCHANGED <<parent, filter, maps, value>>
      /\ Edited("definition")
  BY DEF EditDefinition
<1>4. def' \in [FieldName -> Defs]
  BY <1>3, TablesType DEF Defs
<1>5. Healthy(n)
  BY <1>2, <1>3, <1>4, TablesType DEF Healthy, Now, Moment
<1>6. By("definition", o, n)
  BY <1>1, <1>2, <1>3 DEF By, SameGroups, Now
<1>7. Defined' /\ value' \in [Person -> Fields(Value)]
  BY <1>3, TablesType DEF Defined
<1> QED BY <1>1, <1>2, <1>3, <1>5, <1>6, <1>7, EditedStep DEF EditKinds

LEMMA PatchPersonStep ==
  ASSUME SInv, NEW p \in Person, NEW f \in FieldName, NEW v \in Value \cup {Nil}, PatchPerson(p, f, v) PROVE SInv'
<1>1. PICK o : o = Now
  OBVIOUS
<1>2. /\ def[f] # Nil /\ value' = [value EXCEPT ![p] = [value[p] EXCEPT ![f] = v]]
      /\ UNCHANGED <<parent, filter, maps, def>> /\ Edited("value")
  BY DEF PatchPerson
<1>3. Healthy(o) /\ o = Now'
  BY <1>1, <1>2, TablesType DEF Healthy, Now
<1>4. Defined' /\ value' \in [Person -> Fields(Value)]
  <2> DEFINE new == [value[p] EXCEPT ![f] = v]
  <2>1. value[p] \in Fields(Value) /\ new \in Fields(Value) /\ \A e \in FieldName \ {f} : new[e] = value[p][e]
    BY TablesType DEF Fields
  <2>2. value' = [value EXCEPT ![p] = new]
    BY <1>2
  <2> HIDE DEF new
  <2>3. value' \in [Person -> Fields(Value)] /\ value'[p] = new /\ \A q \in Person \ {p} : value'[q] = value[q]
    BY <2>1, <2>2, TablesType
  <2> QED BY <1>2, <2>1, <2>3, TablesType DEF Defined
<1> QED BY <1>1, <1>2, <1>3, <1>4, EditedStep DEF EditKinds

LEMMA Stuttering == SInv /\ UNCHANGED vars => SInv'
<1> SUFFICES ASSUME SInv, UNCHANGED vars PROVE SInv'
  OBVIOUS
<1>1. /\ UNCHANGED <<parent, filter, maps, def, value, pc, status, edits, moments, shown>> /\ Now' = Now
      /\ UNCHANGED <<tables, edits>>
      /\ UNCHANGED <<call, first, own, tree, mine, paths, types>>
  BY DEF vars, Now, tables
<1>2. TypeOK' /\ Sound(parent)' /\ Acyclic(parent)' /\ Defined'
  BY <1>1 DEF SInv, TypeOK, Slots, Sound, Acyclic, Rows, Defined
<1>3. ASSUME NEW r \in Request PROVE Calling(r)' /\ ReadsInOrder(r)' /\ Explained(r)'
  <2>1. Calling(r) /\ ReadsInOrder(r) /\ Explained(r)
    BY DEF SInv
  <2>2. Calling(r)'
    BY <1>1, <2>1 DEF Calling, Asking
  <2>3. ReadsInOrder(r)'
    BY <1>1, <2>1 DEF ReadsInOrder, Asking, Reads
  <2>4. Explained(r)'
    BY <1>1, <2>1 DEF Explained, Cause, Unseen, Unreadable, DefinedMeanwhile
  <2> QED BY <2>2, <2>3, <2>4
<1> QED BY <1>2, <1>3 DEF SInv

LEMMA NextStep == SInv /\ [Next]_vars => SInv'
<1> SUFFICES ASSUME SInv, [Next]_vars PROVE SInv'
  OBVIOUS
<1>1. CASE Edit
  BY <1>1, DeleteGroupStep, PatchGroupStep, MapUserStep, EditDefinitionStep, PatchPersonStep DEF Edit
<1>2. ASSUME NEW r \in Request, Step(r) PROVE SInv'
  <2>1. ASSUME NEW k \in May[r], NEW G \in Asks, NEW q \in Queries, ListPersons(r, k, G, q) PROVE SInv'
    BY <2>1, ListPersonsStep
  <2>2. ASSUME CheckVisible(r) \/ ReadFirst(r) \/ ReadMapped(r) \/ ReadGroups(r) \/ ReadDefinitions(r)
        PROVE  SInv'
    BY <2>2, CheckVisibleStep, ReadFirstStep, ReadMappedStep, ReadGroupsStep, ReadDefinitionsStep
  <2>3. ASSUME FilterPersons(r) \/ ReadFields(r) \/ FilterPersonsCount(r) PROVE SInv'
    BY <2>3, FilterPersonsStep, ReadFieldsStep, FilterPersonsCountStep
  <2> QED BY <1>2, <2>1, <2>2, <2>3 DEF Step
<1> QED BY <1>1, <1>2, Stuttering DEF Next
-----------------------------------------------------------------------------
(* The theorems. *)

\* The invariant of every reachable state.
THEOREM Invariance == Spec => []SInv
BY Initially, NextStep, PTL DEF Spec

\* The state of the requests and of the tables has its type (person listing,
\* helper-person.go).
THEOREM TypeCorrect == Spec => []TypeOK
<1>1. SInv => TypeOK
  BY DEF SInv
<1> QED BY <1>1, Invariance, PTL

\* When groups, maps and definitions changed at most once meanwhile, an internal error
\* of a listing or a count has a cause in what the request may have read, and what one
\* edit does between the SELECTs is none (filterPersons, filterPersonsCount).
THEOREM FailuresExplainedAlways == Spec => []FailuresExplained
<1>1. SInv => FailuresExplained
  BY DEF SInv, FailuresExplained, Explained, Cause
<1> QED BY <1>1, Invariance, PTL
-----------------------------------------------------------------------------
(* A list is the one meant at some moment. *)

LEMMA PathAnswer ==
  ASSUME SInv, NEW r \in Request, pc[r] = "query", Cardinality(moments[r]) <= 2, NEW h \in paths[r],
         NEW q, NEW c, \A m \in moments[r] : Stray \notin Wanted(m, Last(h), q),
         ~QueryFails(first[r], own[r], {h}, q, types[r], c)
  PROVE  \E m \in moments[r] :
           Selected(first[r], own[r], {h}, q, types[r], value, c) = Members(m, Last(h), q, types[r])
<1>1. PICK fl : fl = first[r]
  OBVIOUS
<1>2. PICK ow : ow = own[r]
  OBVIOUS
<1>3. PICK ty : ty = types[r]
  OBVIOUS
<1>4. PICK m \in moments[r] : Strings(fl, ow, h, q) = Wanted(m, Last(h), q)
  BY <1>1, <1>2, PathWanted
<1>5. ~QueryFails(fl, ow, {h}, q, ty, c)
  BY <1>1, <1>2, <1>3
<1>6. Selected(fl, ow, {h}, q, ty, value, c) = Members(m, Last(h), q, ty)
  BY <1>4, <1>5, OnePath
<1> QED BY <1>1, <1>2, <1>3, <1>6

\* A group has one path.
LEMMA OneOf ==
  ASSUME SInv, NEW r \in Request, pc[r] = "query", NEW s, PathsOf(paths[r], s) # {},
         Cardinality(moments[r]) <= 2
  PROVE  \E h \in paths[r] : Last(h) = s /\ PathsOf(paths[r], s) = {h}
<1>1. Asking(r)
  BY DEF Asking
<1>2. PICK a \in moments[r], b \in moments[r], c \in moments[r], d \in moments[r] :
        Reads(r, a, b, c, d) /\ Healthy(a) /\ Healthy(c)
  BY <1>1, TwoMoments DEF Healthy, SInv, TypeOK, Calling
<1>3. paths[r] \subseteq Hierarchies(a.parent, c.parent, b.maps[UserOf[r]])
  BY <1>2 DEF Reads
<1>4. a.parent \in Forest /\ c.parent \in Forest
  BY <1>2 DEF Healthy, Moment
<1>5. ASSUME NEW h \in paths[r] PROVE h = Hierarchy(a.parent, c.parent, Last(h))
  <2>1. PICK g \in Visible(c.parent, b.maps[UserOf[r]]) : h = Hierarchy(a.parent, c.parent, g)
    BY <1>3 DEF Hierarchies
  <2>2. g \in Rows(c.parent)
    BY DEF Visible
  <2>3. Last(h) = g
    BY <1>4, <2>1, <2>2, HierarchyFacts
  <2> QED BY <2>1, <2>3
<1>6. PICK h \in paths[r] : Last(h) = s
  BY DEF PathsOf
<1>7. \A i \in paths[r] : Last(i) = s => i = h
  BY <1>5, <1>6
<1> QED BY <1>6, <1>7 DEF PathsOf

\* The whole list, while no group changed.
LEMMA WholeAnswer ==
  ASSUME SInv, NEW r \in Request, pc[r] = "query", call[r].kind # "count", Cardinality(moments[r]) <= 2,
         NEW q, NEW c, \A m, n \in moments[r] : m.parent = n.parent /\ m.filter = n.filter,
         \A m \in moments[r] : Regular(m, UserOf[r], Top, q),
         ~QueryFails(first[r], own[r], Condense(paths[r]), q, types[r], c)
  PROVE  \E m \in moments[r] :
           Selected(first[r], own[r], Condense(paths[r]), q, types[r], value, c) = Meant(m, UserOf[r], Top, q, types[r])
<1>1. Asking(r)
  BY DEF Asking
<1>2. PICK a \in moments[r], b \in moments[r], e \in moments[r], d \in moments[r] : Reads(r, a, b, e, d)
  BY <1>1, TwoMoments
<1>3. Healthy(b) /\ b.maps[UserOf[r]] \in SUBSET Group
  BY ScopeAssumption DEF Healthy, Moment, SInv, TypeOK, Calling
<1>4. a.filter = b.filter /\ e.filter = b.filter /\ a.parent = b.parent /\ e.parent = b.parent
  OBVIOUS
<1>5. /\ first[r] = b.filter /\ own[r] = b.filter
      /\ paths[r] = Hierarchies(b.parent, b.parent, b.maps[UserOf[r]])
  BY <1>2, <1>4 DEF Reads
<1>6. PICK ty : ty = types[r]
  OBVIOUS
<1>7. ~QueryFails(b.filter, b.filter, Condense(Hierarchies(b.parent, b.parent, b.maps[UserOf[r]])), q, ty, c)
  BY <1>5, <1>6
<1>8. Selected(b.filter, b.filter, Condense(Hierarchies(b.parent, b.parent, b.maps[UserOf[r]])), q, ty, value, c)
        = Meant(b, UserOf[r], Top, q, ty)
  BY <1>3, <1>7, AllPaths
<1> QED BY <1>5, <1>6, <1>8

\* Only its own steps change what r has.
LEMMA OwnQuery ==
  ASSUME SInv, NEW r \in Request, pc[r] = "query", [Next]_vars, pc'[r] # pc[r] \/ paths'[r] # paths[r]
  PROVE  FilterPersons(r) \/ FilterPersonsCount(r)
<1>1. CASE UNCHANGED vars
  BY <1>1 DEF vars
<1>2. CASE Edit
  <2>1. PICK kind : Edited(kind)
    BY <1>2 DEF Edit, DeleteGroup, PatchGroup, MapUser, EditDefinition, PatchPerson
  <2> QED BY <2>1 DEF Edited, locals
<1>3. ASSUME NEW q \in Request \ {r}, Step(q) PROVE FALSE
  <2>1. PICK p \in Phase : Goto(q, p)
    <3>1. ASSUME NEW k \in May[q], NEW G \in Asks, NEW x \in Queries, ListPersons(q, k, G, x)
          PROVE  \E p \in Phase : Goto(q, p)
      BY <3>1 DEF ListPersons, Refuse, Answer, Phase
    <3>2. ASSUME CheckVisible(q) \/ ReadFirst(q) \/ ReadMapped(q) \/ ReadGroups(q) \/ ReadDefinitions(q)
          PROVE  \E p \in Phase : Goto(q, p)
      BY <3>2 DEF CheckVisible, ReadFirst, ReadMapped, ReadGroups, ReadDefinitions, Refuse, Answer, Continue, Phase
    <3>3. ASSUME FilterPersons(q) \/ ReadFields(q) \/ FilterPersonsCount(q)
          PROVE  \E p \in Phase : Goto(q, p)
      BY <3>3 DEF FilterPersons, ReadFields, FilterPersonsCount, Refuse, Answer, Continue, Phase
    <3> QED BY <1>3, <3>1, <3>2, <3>3 DEF Step
  <2>2. pc'[r] = pc[r]
    BY <2>1 DEF Goto, SInv, TypeOK
  <2>3. \/ paths' = paths \/ \E X : paths' = [paths EXCEPT ![q] = X]
    <3>1. ASSUME NEW k \in May[q], NEW G \in Asks, NEW x \in Queries, ListPersons(q, k, G, x)
          PROVE  paths' = paths
      BY <3>1 DEF ListPersons, Refuse, locals
    <3>2. ASSUME CheckVisible(q) \/ ReadFirst(q) \/ ReadMapped(q) \/ ReadDefinitions(q)
          PROVE  paths' = paths
      BY <3>2 DEF CheckVisible, ReadFirst, ReadMapped, ReadDefinitions, Refuse, locals
    <3>3. ReadGroups(q) => \E X : paths' = [paths EXCEPT ![q] = X]
      BY DEF ReadGroups
    <3>4. ASSUME FilterPersons(q) \/ ReadFields(q) PROVE paths' = paths
      BY <3>4 DEF FilterPersons, ReadFields, Refuse, locals
    <3>5. FilterPersonsCount(q) => paths' = paths \/ \E X : paths' = [paths EXCEPT ![q] = X]
      BY DEF FilterPersonsCount, Refuse, locals
    <3> QED BY <1>3, <3>1, <3>2, <3>3, <3>4, <3>5 DEF Step
  <2>4. paths'[r] = paths[r]
    BY <2>3 DEF SInv, TypeOK
  <2> QED BY <2>2, <2>4
<1>4. CASE Step(r)
  <2>1. /\ \A k, G, q : ~ListPersons(r, k, G, q)
        /\ ~CheckVisible(r) /\ ~ReadFirst(r) /\ ~ReadMapped(r) /\ ~ReadGroups(r) /\ ~ReadDefinitions(r)
        /\ ~ReadFields(r)
    BY DEF ListPersons, CheckVisible, ReadFirst, ReadMapped, ReadGroups, ReadDefinitions, ReadFields
  <2> QED BY <1>4, <2>1 DEF Step
<1> QED BY <1>1, <1>2, <1>3, <1>4 DEF Next

LEMMA ListedAnswer ==
  ASSUME SInv, NEW r \in Request, FilterPersons(r), pc'[r] = "fields", NEW s \in Slots(r),
         Cardinality(moments[r]) <= 2,
         s = Top => \A m, n \in moments[r] : m.parent = n.parent /\ m.filter = n.filter,
         \A m \in moments[r] : Regular(m, UserOf[r], s, call[r].query)
  PROVE  \E m \in moments[r] : shown'[r][s] = Meant(m, UserOf[r], s, call[r].query, types[r])
<1>1. pc[r] = "query" /\ call[r].kind # "count" /\ Calling(r) /\ Asking(r)
  BY DEF FilterPersons, SInv, Asking
<1>2. \A t \in Slots(r) : t = s
  BY <1>1 DEF Calling, Slots, Kinds
<1> DEFINE H == PathsFor(r, s)
<1>3. PICK c : /\ ~((s # Top /\ H = {}) \/ QueryFails(first[r], own[r], H, call[r].query, types[r], c))
               /\ shown' = Found(r, s, H, c) /\ call' = call
  <2>1. PICK t \in Slots(r), c \in Readings :
          LET I == PathsFor(r, t) IN
          IF (t # Top /\ I = {}) \/ QueryFails(first[r], own[r], I, call[r].query, types[r], c)
          THEN Refuse(r, "error")
          ELSE /\ Continue(r, "fields") /\ shown' = Found(r, t, I, c)
               /\ UNCHANGED <<call, first, own, tree, mine, paths, types>>
    BY DEF FilterPersons
  <2>2. t = s
    BY <1>2
  <2>3. ~Refuse(r, "error")
    BY DEF Refuse, Answer, Goto, SInv, TypeOK
  <2> QED BY <2>1, <2>2, <2>3
<1>4. shown'[r][s] = Selected(first[r], own[r], H, call[r].query, types[r], value, c)
  BY <1>3, FoundType
<1>5. PICK q : q = call[r].query
  OBVIOUS
<1>6. CASE s = Top
  <2>1. H = Condense(paths[r])
    BY <1>6 DEF PathsFor
  <2>2. ~QueryFails(first[r], own[r], Condense(paths[r]), q, types[r], c)
    BY <1>3, <1>5, <2>1
  <2>3. \A m \in moments[r] : Regular(m, UserOf[r], Top, q)
    BY <1>5, <1>6
  <2>4. \E m \in moments[r] :
          Selected(first[r], own[r], Condense(paths[r]), q, types[r], value, c) = Meant(m, UserOf[r], Top, q, types[r])
    BY <1>1, <1>6, <2>2, <2>3, WholeAnswer
  <2> QED BY <1>4, <1>5, <1>6, <2>1, <2>4
<1>7. CASE s # Top
  <2>1. H = PathsOf(paths[r], s) /\ H # {}
    BY <1>3, <1>7 DEF PathsFor
  <2>2. PICK h \in paths[r] : Last(h) = s /\ PathsOf(paths[r], s) = {h}
    BY <1>1, <2>1, OneOf
  <2>3. ~QueryFails(first[r], own[r], {h}, q, types[r], c) /\ \A m \in moments[r] : Stray \notin Wanted(m, Last(h), q)
    BY <1>3, <1>5, <1>7, <2>1, <2>2 DEF Regular, GroupsOf
  <2>4. \E m \in moments[r] :
          Selected(first[r], own[r], {h}, q, types[r], value, c) = Members(m, Last(h), q, types[r])
    BY <1>1, <2>3, PathAnswer
  <2> QED BY <1>4, <1>5, <1>7, <2>1, <2>2, <2>4 DEF Meant
<1> QED BY <1>6, <1>7

LEMMA CountedAnswer ==
  ASSUME SInv, NEW r \in Request, FilterPersonsCount(r), NEW h \in paths[r] \ paths'[r],
         Cardinality(moments[r]) <= 2, Last(h) # Top,
         \A m \in moments[r] : Regular(m, UserOf[r], Last(h), call[r].query)
  PROVE  \E m \in moments[r] :
           shown'[r][Last(h)] = Meant(m, UserOf[r], Last(h), call[r].query, types[r])
<1>1. pc[r] = "query" /\ call[r].kind = "count"
  BY DEF FilterPersonsCount
<1>2. PICK c : /\ h \in Asked(r) /\ ~QueryFails(first[r], own[r], {h}, call[r].query, types[r], c)
               /\ shown' = Found(r, Last(h), {h}, c) /\ call' = call
  <2>1. ~Refuse(r, "ok") /\ ~Refuse(r, "error")
    BY DEF Refuse, locals
  <2>2. PICK i \in Asked(r), c \in Readings :
          /\ ~QueryFails(first[r], own[r], {i}, call[r].query, types[r], c)
          /\ shown' = Found(r, Last(i), {i}, c) /\ paths' = [paths EXCEPT ![r] = paths[r] \ {i}] /\ call' = call
    BY <2>1 DEF FilterPersonsCount
  <2>3. i = h
    BY <2>2 DEF SInv, TypeOK
  <2> QED BY <2>2, <2>3
<1>3. Last(h) \in Slots(r)
  BY <1>1, <1>2 DEF Asked, Slots
<1>4. shown'[r][Last(h)] = Selected(first[r], own[r], {h}, call[r].query, types[r], value, c)
  <2>1. PICK s \in Slots(r) : s = Last(h)
    BY <1>3
  <2>2. PICK H : H = {h}
    OBVIOUS
  <2>3. shown' = Found(r, s, H, c) /\ call' = call
    BY <1>2, <2>1, <2>2
  <2>4. shown'[r][s] = Selected(first[r], own[r], H, call[r].query, types[r], value, c)
    BY <2>3, FoundType
  <2> QED BY <2>1, <2>2, <2>4
<1>5. PICK q : q = call[r].query
  OBVIOUS
<1>6. \E m \in moments[r] :
        Selected(first[r], own[r], {h}, q, types[r], value, c) = Members(m, Last(h), q, types[r])
  <2>1. \A m \in moments[r] : Stray \notin Wanted(m, Last(h), q)
    BY <1>5 DEF Regular, GroupsOf
  <2> QED BY <1>1, <1>2, <1>5, <2>1, PathAnswer
<1> QED BY <1>4, <1>5, <1>6 DEF Meant

\* A list or a count is the one meant at some single moment while it was made, as
\* far as groups, maps and definitions go, when these changed at most once
\* meanwhile: what one edit does between the SELECTs tears no path apart
\* (getGroupHierarchiesForUser, buildPersonQuery).
THEOREM AnswersFromOneMomentAlways == Spec => AnswersFromOneMoment
<1> DEFINE Step2 ==
      \A r \in Request, s \in Group \cup {Top} :
        LET listed == pc[r] = "query" /\ pc'[r] = "fields" /\ s \in Slots(r)
            counted == \E h \in paths[r] \ paths'[r] : Last(h) = s /\ call[r].kind = "count"
                                                      /\ pc[r] = "query"
            usual == /\ Cardinality(moments[r]) <= 2
                     /\ s = Top => \A m, n \in moments[r] : m.parent = n.parent /\ m.filter = n.filter
                     /\ \A m \in moments[r] : Regular(m, UserOf[r], s, call[r].query)
        IN (listed \/ counted) /\ usual =>
             \E m \in moments[r] : shown'[r][s] = Meant(m, UserOf[r], s, call[r].query, types[r])
<1>1. SInv /\ [Next]_vars => Step2
  <2> SUFFICES ASSUME SInv, [Next]_vars, NEW r \in Request, NEW s \in Group \cup {Top}, pc[r] = "query",
                      Cardinality(moments[r]) <= 2,
                      s = Top => \A m, n \in moments[r] : m.parent = n.parent /\ m.filter = n.filter,
                      \A m \in moments[r] : Regular(m, UserOf[r], s, call[r].query),
                      \/ pc'[r] = "fields" /\ s \in Slots(r)
                      \/ \E h \in paths[r] \ paths'[r] : Last(h) = s /\ call[r].kind = "count"
               PROVE  \E m \in moments[r] : shown'[r][s] = Meant(m, UserOf[r], s, call[r].query, types[r])
    OBVIOUS
  <2>1. CASE pc'[r] = "fields" /\ s \in Slots(r)
    <3>1. ~FilterPersonsCount(r)
      BY <2>1 DEF FilterPersonsCount, Refuse, Answer, Continue, Goto, SInv, TypeOK
    <3>2. FilterPersons(r)
      BY <2>1, <3>1, OwnQuery
    <3> QED BY <2>1, <3>2, ListedAnswer
  <2>2. ASSUME NEW h \in paths[r] \ paths'[r], Last(h) = s, call[r].kind = "count"
        PROVE  \E m \in moments[r] : shown'[r][s] = Meant(m, UserOf[r], s, call[r].query, types[r])
    <3>1. FilterPersonsCount(r)
      BY <2>2, OwnQuery DEF FilterPersons
    <3>2. s # Top
      <4>1. PICK i \in Asked(r) : paths' = [paths EXCEPT ![r] = paths[r] \ {i}]
        BY <2>2, <3>1 DEF FilterPersonsCount, Refuse, locals
      <4>2. h = i
        BY <2>2, <4>1 DEF SInv, TypeOK
      <4>3. Last(h) \in call[r].groups
        BY <4>2 DEF Asked
      <4> QED BY <2>2, <4>3 DEF SInv, TypeOK, Calls
    <3> QED BY <2>2, <3>1, <3>2, CountedAnswer
  <2> QED BY <2>1, <2>2
<1>2. (SInv /\ SInv') /\ [Next]_vars => [Step2]_vars
  BY <1>1
<1> QED BY <1>2, Invariance, PTL DEF Spec, AnswersFromOneMoment
=============================================================================

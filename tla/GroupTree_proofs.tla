-------------------------- MODULE GroupTree_proofs --------------------------
(***************************************************************************)
(* Theorems about GroupTree, for any groups, users and requests: nothing   *)
(* refers to a group that is gone, users see whole subtrees, and groups    *)
(* are placed and joined only as a request was allowed to.                 *)
(***************************************************************************)
EXTENDS GroupTree, GroupWalks_proofs

USE GroupAssumption

-----------------------------------------------------------------------------
(* The invariant. *)

\* What a request names and has read at each of its statements.
Progress(r) ==
  /\ pc[r] = "first" => call[r].kind = "list"
  /\ pc[r] \in {"mapped", "groups"} =>
       /\ call[r].kind \in {"create", "patch", "enroll", "list"}
       /\ call[r].kind = "create" => call[r].parent \in Group
       /\ call[r].kind = "patch" => call[r].group \in Group
       /\ call[r].kind = "enroll" => call[r].group \in Group /\ call[r].user \in User
  /\ pc[r] = "commit" =>
       /\ call[r].kind \in {"create", "patch", "delete", "enroll", "unenroll", "set_owner"}
       /\ call[r].kind = "create" => call[r].parent \in Group
       /\ call[r].kind \in {"create", "patch"} /\ call[r].parent \in Group =>
            call[r].parent \in Visible(tree[r], mapped[r])
       /\ call[r].kind # "create" => call[r].group \in Group
       /\ call[r].kind \in {"enroll", "unenroll", "set_owner"} => call[r].user \in User

IInv == TypeOK /\ NothingDangles /\ \A r \in Request : Progress(r)

LEMMA Constants == NoArgs \in Args /\ NoGroups \in Forest
  BY DEF NoArgs, Args, NoGroups, Forest

LEMMA Initially == Init => IInv
<1> SUFFICES ASSUME Init PROVE IInv
  OBVIOUS
<1> USE TreeAssumption DEF Init
<1>1. TypeOK
  BY Constants DEF TypeOK, Phase, Status, Rows
<1>2. NothingDangles
  BY DEF NothingDangles
<1>3. \A r \in Request : Progress(r)
  BY DEF Progress
<1> QED BY <1>1, <1>2, <1>3 DEF IInv
-----------------------------------------------------------------------------
(* Steps of a request. *)

LEMMA AnswerStep ==
  ASSUME TypeOK, NEW r \in Request, NEW s \in Status, Answer(r, s)
  PROVE  /\ pc' \in [Request -> Phase] /\ status' \in [Request -> Status] /\ call' \in [Request -> Args]
         /\ first' \in [Request -> Forest] /\ mapped' \in [Request -> SUBSET Group]
         /\ tree' \in [Request -> Forest] /\ pc'[r] = "answered"
         /\ \A q \in Request \ {r} : pc'[q] = pc[q] /\ call'[q] = call[q] /\ mapped'[q] = mapped[q]
                                     /\ tree'[q] = tree[q]
<1> USE DEF TypeOK, Answer, Goto
<1>1. pc' \in [Request -> Phase] /\ status' \in [Request -> Status] /\ pc'[r] = "answered"
  BY DEF Phase
<1>2. call' \in [Request -> Args] /\ first' \in [Request -> Forest] /\ tree' \in [Request -> Forest]
  BY Constants
<1>3. mapped' \in [Request -> SUBSET Group]
  OBVIOUS
<1> QED BY <1>1, <1>2, <1>3

\* A step of r that keeps the types and the tables sound leaves its own progress
\* to show.
LEMMA OwnStep ==
  ASSUME IInv, NEW r \in Request, TypeOK', NothingDangles', Progress(r)',
         \A q \in Request \ {r} : pc'[q] = pc[q] /\ call'[q] = call[q] /\ mapped'[q] = mapped[q]
                                  /\ tree'[q] = tree[q]
  PROVE  IInv'
<1>1. ASSUME NEW q \in Request \ {r} PROVE Progress(q)'
  BY <1>1 DEF IInv, Progress
<1> QED BY <1>1 DEF IInv

LEMMA TablesStay ==
  ASSUME NothingDangles, UNCHANGED tables
  PROVE  NothingDangles' /\ UNCHANGED <<parent, issued, role>>
  BY DEF NothingDangles, tables, Rows

LEMMA RefuseStep ==
  ASSUME IInv, NEW r \in Request, NEW s \in Status, Answer(r, s), UNCHANGED tables
  PROVE  IInv'
<1>1. NothingDangles' /\ UNCHANGED <<parent, issued, role>>
  BY TablesStay DEF IInv
<1>2. TypeOK' /\ Progress(r)'
  BY <1>1, AnswerStep DEF IInv, TypeOK, Progress
<1> QED BY <1>1, <1>2, AnswerStep, OwnStep DEF IInv

\* A request that arrives is looked up and let in, or answered.
LEMMA AcceptStep ==
  ASSUME IInv, NEW r \in Request, NEW p \in {"first", "mapped", "commit"}, NEW k \in Kinds,
         NEW g \in Group \cup {Nil}, NEW par \in Group \cup {Nil}, NEW u \in User \cup {Nil}, NEW o \in BOOLEAN,
         Accept(r, k, p, g, par, u, o),
         p = "first" => k = "list",
         p = "mapped" => k \in {"create", "patch", "enroll", "list"},
         p = "commit" => k \in {"patch", "delete", "unenroll", "set_owner"} /\ par = Nil,
         k = "create" => par \in Group, k \notin {"create", "list"} => g \in Group,
         k \in {"enroll", "unenroll", "set_owner"} => u \in User
  PROVE  IInv'
<1> DEFINE a == [kind |-> k, group |-> g, parent |-> par, user |-> u, owner |-> o]
<1>1. a \in Args
  BY DEF Args
<1>2. NothingDangles' /\ UNCHANGED <<parent, issued, role, status, first, mapped, tree>>
  BY TablesStay DEF IInv, Accept, reads
<1>3. /\ pc' \in [Request -> Phase] /\ call' \in [Request -> Args] /\ pc'[r] = p /\ call'[r] = a
      /\ \A q \in Request \ {r} : pc'[q] = pc[q] /\ call'[q] = call[q]
  BY <1>1 DEF IInv, TypeOK, Accept, Goto, Phase
<1>4. TypeOK'
  BY <1>2, <1>3 DEF IInv, TypeOK
<1>5. Progress(r)'
  BY <1>3 DEF Progress, Kinds
<1> QED BY <1>2, <1>3, <1>4, <1>5, OwnStep

LEMMA ArriveStep ==
  ASSUME IInv, NEW r \in Request, Arrive(r) PROVE IInv'
<1>1. CASE \E s \in Status : Refuse(r, s)
  BY <1>1, RefuseStep DEF Refuse
<1>2. Targets \subseteq Group
  BY TreeAssumption
<1> USE DEF Kinds, New
<1>3. CASE ListGroups(r)
  BY <1>3, AcceptStep DEF ListGroups
<1>4. ASSUME NEW g \in Group, CreateGroup(r, g) PROVE IInv'
  BY <1>4, AcceptStep DEF CreateGroup
<1>5. ASSUME NEW g \in Group, DeleteGroup(r, g) PROVE IInv'
  BY <1>1, <1>5, AcceptStep DEF DeleteGroup, Status
<1>6. ASSUME NEW g \in Group, NEW p \in Group \cup {Nil}, PatchGroup(r, g, p) PROVE IInv'
  BY <1>1, <1>6, AcceptStep DEF PatchGroup, Status
<1>7. ASSUME NEW g \in Group, NEW u \in User, UnenrollUser(r, u, g) PROVE IInv'
  BY <1>1, <1>7, AcceptStep DEF UnenrollUser, Status
<1>8. ASSUME NEW g \in Group, NEW u \in User, NEW o \in BOOLEAN, EnrollUser(r, u, g, o) PROVE IInv'
  BY <1>8, AcceptStep DEF EnrollUser
<1>9. ASSUME NEW g \in Group, NEW u \in User, NEW o \in BOOLEAN, SetOwner(r, u, g, o) PROVE IInv'
  BY <1>1, <1>9, AcceptStep DEF SetOwner, Status
<1> QED BY <1>2, <1>3, <1>4, <1>5, <1>6, <1>7, <1>8, <1>9 DEF Arrive

LEMMA ReadsStep ==
  ASSUME IInv, NEW r \in Request, ReadFirst(r) \/ ReadMapped(r) \/ ReadGroups(r) \/ BuildHierarchies(r)
  PROVE  IInv'
<1> USE DEF Goto, Phase
<1>1. CASE ReadFirst(r)
  <2>1. NothingDangles' /\ UNCHANGED <<parent, issued, role, status, call, mapped, tree>>
    BY <1>1, TablesStay DEF IInv, ReadFirst
  <2>2. TypeOK' /\ Progress(r)' /\ \A q \in Request \ {r} : pc'[q] = pc[q]
    BY <1>1, <2>1 DEF IInv, TypeOK, ReadFirst, Progress
  <2> QED BY <2>1, <2>2, OwnStep
<1>2. CASE ReadMapped(r)
  <2>1. NothingDangles' /\ UNCHANGED <<parent, issued, role, status, call, first, tree>>
    BY <1>2, TablesStay DEF IInv, ReadMapped
  <2>2. /\ TypeOK' /\ Progress(r)'
        /\ \A q \in Request \ {r} : pc'[q] = pc[q] /\ mapped'[q] = mapped[q]
    BY <1>2, <2>1 DEF IInv, TypeOK, ReadMapped, Progress
  <2> QED BY <2>1, <2>2, OwnStep
<1>3. CASE ReadGroups(r)
  <2>1. UNCHANGED tables /\ pc[r] = "groups"
    BY <1>3 DEF ReadGroups
  <2>2. NothingDangles' /\ UNCHANGED <<parent, issued, role>>
    BY <2>1, TablesStay DEF IInv
  <2>3. CASE Goto(r, "spinning") /\ UNCHANGED <<status, call, reads>>
    <3>1. TypeOK' /\ Progress(r)'
      BY <2>2, <2>3 DEF IInv, TypeOK, reads, Progress
    <3>2. \A q \in Request \ {r} : pc'[q] = pc[q] /\ call'[q] = call[q] /\ mapped'[q] = mapped[q]
                                   /\ tree'[q] = tree[q]
      BY <2>3 DEF IInv, TypeOK, reads
    <3> QED BY <2>2, <3>1, <3>2, OwnStep
  <2>4. CASE Answer(r, "bad_request")
    BY <2>1, <2>4, RefuseStep DEF Status
  <2>5. CASE /\ call[r].kind = "list" \/ Wanted(r) \in Visible(parent, mapped[r])
             /\ tree' = [tree EXCEPT ![r] = parent]
             /\ Goto(r, IF call[r].kind = "list" THEN "hierarchies" ELSE "commit")
             /\ UNCHANGED <<status, call, first, mapped>>
    <3>1. TypeOK'
      BY <2>2, <2>5 DEF IInv, TypeOK
    <3>2. tree'[r] = parent /\ mapped'[r] = mapped[r] /\ call'[r] = call[r]
      BY <2>5 DEF IInv, TypeOK
    <3>3. pc'[r] = IF call[r].kind = "list" THEN "hierarchies" ELSE "commit"
      BY <2>5 DEF IInv, TypeOK
    <3>4. Progress(r)'
      BY <2>1, <2>5, <3>2, <3>3 DEF IInv, Progress, Wanted
    <3>5. \A q \in Request \ {r} : pc'[q] = pc[q] /\ call'[q] = call[q] /\ mapped'[q] = mapped[q]
                                   /\ tree'[q] = tree[q]
      BY <2>5 DEF IInv, TypeOK
    <3> QED BY <2>2, <3>1, <3>4, <3>5, OwnStep
  <2> QED BY <1>3, <2>3, <2>4, <2>5 DEF ReadGroups
<1>4. CASE BuildHierarchies(r)
  <2>1. UNCHANGED tables /\ pc[r] = "hierarchies"
    BY <1>4 DEF BuildHierarchies
  <2>2. NothingDangles' /\ UNCHANGED <<parent, issued, role>>
    BY <2>1, TablesStay DEF IInv
  <2>3. CASE Goto(r, "spinning") /\ UNCHANGED <<status, call, reads>>
    <3>1. TypeOK' /\ Progress(r)'
      BY <2>2, <2>3 DEF IInv, TypeOK, reads, Progress
    <3>2. \A q \in Request \ {r} : pc'[q] = pc[q] /\ call'[q] = call[q] /\ mapped'[q] = mapped[q]
                                   /\ tree'[q] = tree[q]
      BY <2>3 DEF IInv, TypeOK, reads
    <3> QED BY <2>2, <3>1, <3>2, OwnStep
  <2> QED BY <1>4, <2>1, <2>3, RefuseStep DEF BuildHierarchies, Status
<1> QED BY <1>1, <1>2, <1>3, <1>4
-----------------------------------------------------------------------------
(* The transactions. *)

\* A transaction answers, so what it does to the tables is all there is to show.
LEMMA CommitStep ==
  ASSUME IInv, NEW r \in Request, NEW s \in Status, Answer(r, s),
         parent' \in Forest, issued' \in SUBSET Group, role' \in Roles, NothingDangles'
  PROVE  IInv'
<1>1. TypeOK' /\ Progress(r)'
  BY AnswerStep DEF IInv, TypeOK, Progress
<1> QED BY <1>1, AnswerStep, OwnStep DEF IInv

LEMMA CreateStep ==
  ASSUME IInv, NEW r \in Request, CommitCreate(r) PROVE IInv'
<1>1. CASE Refuse(r, "error")
  BY <1>1, RefuseStep DEF Refuse, Status
<1>2. CASE ~Refuse(r, "error")
  <2>1. /\ call[r].parent \in Group
        /\ parent[call[r].parent] # Nil /\ UNCHANGED role /\ Answer(r, "ok")
    BY <1>2 DEF CommitCreate, IInv, Progress
  <2>2. PICK g \in Group \ issued : parent' = [parent EXCEPT ![g] = call[r].parent] /\ issued' = issued \cup {g}
    BY <1>2 DEF CommitCreate
  <2>3. parent' \in Forest /\ issued' \in SUBSET Group /\ role' \in Roles
    BY <2>1, <2>2 DEF IInv, TypeOK, Forest
  <2>4. Rows(parent) \subseteq Rows(parent')
    BY <2>1, <2>2 DEF IInv, TypeOK, Forest, Rows
  <2>5. \A h \in Rows(parent') : parent'[h] \in Rows(parent) \cup {Top}
    BY <2>1, <2>2 DEF IInv, TypeOK, NothingDangles, Forest, Rows
  <2>6. NothingDangles'
    BY <2>1, <2>4, <2>5 DEF IInv, NothingDangles
  <2> QED BY <2>1, <2>3, <2>6, CommitStep DEF Status
<1> QED BY <1>1, <1>2

LEMMA PatchStep ==
  ASSUME IInv, NEW r \in Request, CommitPatch(r) PROVE IInv'
<1>1. CASE Refuse(r, "error")
  BY <1>1, RefuseStep DEF Refuse, Status
<1>2. CASE ~Refuse(r, "error")
  <2> DEFINE g == call[r].group
             p == call[r].parent
             q == IF p = Nil THEN parent[g] ELSE p
  <2>1. /\ g \in Group /\ p \in Group \cup {Nil}
        /\ parent[g] # Nil /\ (p # Nil => parent[p] # Nil)
        /\ parent' = [parent EXCEPT ![g] = q] /\ UNCHANGED <<issued, role>> /\ Answer(r, "ok")
    BY <1>2 DEF CommitPatch, IInv, TypeOK, Args, Progress
  <2>2. q \in Rows(parent) \cup {Top}
    BY <2>1 DEF IInv, TypeOK, Forest, NothingDangles, Rows
  <2> HIDE DEF g, p, q
  <2>3. parent' \in Forest /\ issued' \in SUBSET Group /\ role' \in Roles
    BY <2>1, <2>2 DEF IInv, TypeOK, Forest, Rows
  <2>4. Rows(parent') = Rows(parent)
    BY <2>1, <2>2 DEF IInv, TypeOK, Forest, Rows
  <2>5. NothingDangles'
    BY <2>1, <2>2, <2>4 DEF IInv, TypeOK, Forest, NothingDangles, Rows
  <2> QED BY <2>1, <2>3, <2>5, CommitStep DEF Status
<1> QED BY <1>1, <1>2

\* The groups below go with the group, and the maps of all of them.
LEMMA DeleteStep ==
  ASSUME IInv, NEW r \in Request, CommitDelete(r) PROVE IInv'
<1> DEFINE gone == Below(parent, call[r].group)
<1>1. call[r].group \in Group
  BY DEF CommitDelete, IInv, Progress
<1>2. \A h \in Group : parent[h] \in gone => h \in gone
  BY <1>1, BelowClosed DEF IInv, TypeOK
<1>3. /\ parent' = [g \in Group |-> IF g \in gone THEN Nil ELSE parent[g]]
      /\ role' = [x \in User \X Group |-> IF x[2] \in gone THEN "none" ELSE role[x]]
      /\ UNCHANGED issued /\ Answer(r, "ok")
  BY DEF CommitDelete
<1> HIDE DEF gone
<1>4. parent' \in Forest /\ issued' \in SUBSET Group /\ role' \in Roles
  BY <1>3 DEF IInv, TypeOK, Forest, Roles, Role
<1>5. Rows(parent') = Rows(parent) \ gone
  BY <1>3 DEF Rows
<1>6. \A h \in Rows(parent') : parent'[h] \in Rows(parent') \cup {Top}
  <2> SUFFICES ASSUME NEW h \in Rows(parent') PROVE parent'[h] \in Rows(parent') \cup {Top}
    OBVIOUS
  <2>1. h \in Group /\ h \in Rows(parent) /\ h \notin gone /\ parent'[h] = parent[h]
    BY <1>3, <1>5 DEF Rows
  <2>2. parent[h] \in Rows(parent) \cup {Top} /\ parent[h] \notin gone
    BY <1>2, <2>1 DEF IInv, NothingDangles
  <2> QED BY <1>5, <2>1, <2>2
<1>7. ASSUME NEW x \in User \X Group, role'[x] # "none" PROVE x[2] \in Rows(parent')
  <2>1. x[2] \notin gone /\ role[x] # "none"
    BY <1>3, <1>7
  <2> QED BY <1>5, <2>1 DEF IInv, NothingDangles
<1>8. NothingDangles'
  BY <1>6, <1>7 DEF NothingDangles
<1> QED BY <1>3, <1>4, <1>8, CommitStep DEF Status

LEMMA RoleStep ==
  ASSUME IInv, NEW r \in Request, CommitEnroll(r) \/ CommitUnenroll(r) \/ CommitSetOwner(r) PROVE IInv'
<1>1. CASE Refuse(r, "error")
  BY <1>1, RefuseStep DEF Refuse, Status
<1>2. CASE ~Refuse(r, "error")
  <2>1. call[r].user \in User /\ call[r].group \in Group
    BY DEF CommitEnroll, CommitUnenroll, CommitSetOwner, IInv, Progress
  <2>2. PICK ro \in Role : /\ SetRole(r, ro) /\ UNCHANGED <<parent, issued>> /\ Answer(r, "ok")
                           /\ ro # "none" => RoleNow(r) # "none" \/ parent[call[r].group] # Nil
    BY <1>2 DEF CommitEnroll, CommitUnenroll, CommitSetOwner, Granted, Role
  <2>3. role' \in Roles /\ parent' \in Forest /\ issued' \in SUBSET Group
    BY <2>1, <2>2 DEF SetRole, IInv, TypeOK, Roles
  <2>4. call[r].group \in Rows(parent) \/ ro = "none"
    BY <2>1, <2>2 DEF RoleNow, IInv, NothingDangles, Rows
  <2>5. \A x \in User \X Group : role'[x] # "none" => x[2] \in Rows(parent)
    <3> SUFFICES ASSUME NEW u \in User, NEW g \in Group, role'[<<u, g>>] # "none" PROVE g \in Rows(parent)
      OBVIOUS
    <3>1. CASE u = call[r].user /\ g = call[r].group
      BY <2>1, <2>2, <2>4, <3>1 DEF SetRole, IInv, TypeOK, Roles
    <3>2. CASE ~(u = call[r].user /\ g = call[r].group)
      <4>1. <<u, g>> # <<call[r].user, call[r].group>>
        BY <3>2
      <4>2. role[<<u, g>>] # "none"
        BY <2>2, <4>1 DEF SetRole, IInv, TypeOK, Roles
      <4> QED BY <4>2 DEF IInv, NothingDangles
    <3> QED BY <3>1, <3>2
  <2>6. NothingDangles'
    BY <2>2, <2>5 DEF IInv, NothingDangles, Rows
  <2> QED BY <2>2, <2>3, <2>6, CommitStep DEF Status
<1> QED BY <1>1, <1>2

LEMMA NextStep ==
  ASSUME IInv, [Next]_vars PROVE IInv'
<1>1. CASE UNCHANGED vars
  BY <1>1 DEF vars, IInv, TypeOK, NothingDangles, Progress, Rows, Visible
<1>2. ASSUME NEW r \in Request, Busy(r) PROVE IInv'
  BY <1>2, RefuseStep DEF Busy, Refuse, Status
<1> QED BY <1>1, <1>2, ArriveStep, ReadsStep, CreateStep, PatchStep, DeleteStep, RoleStep DEF Next, Step

\* The inductive invariant: references lead to rows, and a request that is about
\* to place a group has seen the group it places it below.
THEOREM Invariance == Spec => []IInv
  BY Initially, NextStep, PTL DEF Spec

\* Every variable keeps its type.
THEOREM TypeCorrect == Spec => []TypeOK
<1>1. IInv => TypeOK
  BY DEF IInv
<1> QED BY <1>1, Invariance, PTL

\* No group and no map refers to a group that is gone, however deletions race with
\* requests that looked the group up before.
THEOREM NothingDanglesAlways == Spec => []NothingDangles
<1>1. IInv => NothingDangles
  BY DEF IInv
<1> QED BY <1>1, Invariance, PTL

\* The groups that a user sees are the subtrees of those it is mapped to,
\* whatever the table of parents.
THEOREM VisibleAreSubtreesAlways == Spec => []VisibleAreSubtrees
<1>1. IInv => VisibleAreSubtrees
  <2> SUFFICES ASSUME IInv, NEW u \in User
               PROVE  Visible(parent, MappedTo(u)) = UNION {Below(parent, g) : g \in MappedTo(u)}
    BY DEF VisibleAreSubtrees
  <2>1. MappedTo(u) \subseteq Rows(parent) /\ MappedTo(u) \in SUBSET Group
    BY DEF MappedTo, IInv, NothingDangles
  <2> QED BY <2>1, VisibleSubtrees DEF IInv, TypeOK
<1> QED BY <1>1, Invariance, PTL

\* Unless groups form a cycle, the group list unfolds level by level: its tops
\* are the visible groups below no visible one, and from them the children lead
\* to every visible group.
THEOREM ListUnfoldsAlways == Spec => []ListUnfolds
<1>1. IInv => ListUnfolds
  <2> SUFFICES ASSUME IInv, ~Cyclic, NEW u \in User
               PROVE  LET V == Visible(parent, MappedTo(u))
                          H == Hierarchies(parent, parent, MappedTo(u))
                      IN /\ ListTops(H) = {g \in V : parent[g] \notin V}
                         /\ \A S \in SUBSET V :
                              ListTops(H) \subseteq S /\ (\A p \in S : ListChildren(H, parent, p) \subseteq S) => S = V
    BY DEF ListUnfolds
  <2> DEFINE V == Visible(parent, MappedTo(u))
             H == Hierarchies(parent, parent, MappedTo(u))
  <2>1. parent \in Forest /\ Acyclic(parent) /\ Sound(parent) /\ MappedTo(u) \in SUBSET Group
    BY DEF IInv, TypeOK, NothingDangles, Sound, Acyclic, Cyclic, MappedTo
  <2>2. V \subseteq Rows(parent) /\ V \subseteq Group
    BY <2>1, VisibleBelow
  <2>3. \A g \in V : Last(Hierarchy(parent, parent, g)) = g
    BY <2>1, <2>2, HierarchyFacts
  <2>4. ListTops(H) = {g \in V : parent[g] \notin V}
    <3>1. Condense(H) = {Hierarchy(parent, parent, g) : g \in {v \in V : parent[v] \notin V}}
      BY <2>1, CondenseKeepsHighest
    <3> QED BY <2>3, <3>1 DEF ListTops
  <2>5. ListAll(H) = V
    BY <2>3 DEF ListAll, Hierarchies
  <2>6. ASSUME NEW S \in SUBSET V, ListTops(H) \subseteq S, \A p \in S : ListChildren(H, parent, p) \subseteq S
        PROVE  S = V
    <3> DEFINE T == V \ S
    <3>1. ASSUME NEW g \in T PROVE parent[g] \in T
      BY <2>4, <2>5, <2>6 DEF ListChildren
    <3> QED BY <2>1, <2>2, <3>1 DEF Acyclic
  <2> QED BY <2>4, <2>6
<1> QED BY <1>1, Invariance, PTL
-----------------------------------------------------------------------------
(* What a step may never do. *)

\* Only transactions that succeed change the tables.
LEMMA Writers ==
  ASSUME IInv, Next, ~UNCHANGED tables
  PROVE  \E r \in Request :
           /\ ~Refuse(r, "error")
           /\ CommitCreate(r) \/ CommitPatch(r) \/ CommitDelete(r)
              \/ CommitEnroll(r) \/ CommitUnenroll(r) \/ CommitSetOwner(r)
<1>1. PICK r \in Request : Arrive(r) \/ Step(r)
  BY DEF Next
<1>2. ~Refuse(r, "error")
  BY DEF Refuse
<1>3. CASE Arrive(r)
  BY <1>3 DEF Arrive, ListGroups, CreateGroup, DeleteGroup, PatchGroup, UnenrollUser, EnrollUser, SetOwner,
              Accept, Refuse
<1>4. CASE ReadFirst(r) \/ ReadMapped(r) \/ ReadGroups(r) \/ BuildHierarchies(r) \/ Busy(r)
  BY <1>4 DEF ReadFirst, ReadMapped, ReadGroups, BuildHierarchies, Busy, Refuse
<1> QED BY <1>1, <1>2, <1>3, <1>4 DEF Step

\* A group comes below another only when its request saw that one.
THEOREM PlacedWhereSeenAlways == Spec => PlacedWhereSeen
<1> DEFINE Seen(r, p) == /\ pc[r] = "commit" /\ call[r].parent = p
                         /\ \E x \in mapped[r] : p \in Below(tree[r], x)
<1>1. ASSUME IInv, [Next]_vars, NEW g \in Group, parent'[g] # parent[g], parent'[g] \in Group
      PROVE  \E r \in Request : Seen(r, parent'[g])
  <2>1. Next /\ ~UNCHANGED tables
    BY <1>1 DEF vars, tables
  <2>2. PICK r \in Request :
          /\ ~Refuse(r, "error")
          /\ CommitCreate(r) \/ CommitPatch(r) \/ CommitDelete(r)
             \/ CommitEnroll(r) \/ CommitUnenroll(r) \/ CommitSetOwner(r)
    BY <1>1, <2>1, Writers
  <2>3. CommitCreate(r) \/ CommitPatch(r)
    BY <1>1, <2>2 DEF CommitDelete, CommitEnroll, CommitUnenroll, CommitSetOwner
  <2>4. /\ parent'[g] = call[r].parent /\ pc[r] = "commit"
        /\ call[r].kind \in {"create", "patch"}
    BY <1>1, <2>2, <2>3 DEF CommitCreate, CommitPatch, IInv, TypeOK, Forest
  <2>5. call[r].parent \in Visible(tree[r], mapped[r])
    BY <1>1, <2>4 DEF IInv, Progress
  <2>6. tree[r] \in Forest /\ mapped[r] \in SUBSET Group
    BY <1>1 DEF IInv, TypeOK
  <2> QED BY <2>4, <2>5, <2>6, VisibleSubtrees
<1>2. IInv /\ [Next]_vars =>
        [\A g \in Group : parent'[g] # parent[g] /\ parent'[g] \in Group =>
           \E r \in Request : LET m == mapped[r] IN
             /\ pc[r] = "commit" /\ call[r].parent = parent'[g]
             /\ \E x \in m : parent'[g] \in Below(tree[r], x)]_vars
  BY <1>1
<1> QED BY <1>2, Invariance, PTL DEF Spec, PlacedWhereSeen

\* A user comes into a group only by an enrolment.
THEOREM OnlyEnrolmentMapsAlways == Spec => OnlyEnrolmentMaps
<1>1. ASSUME IInv, [Next]_vars, NEW u \in User, NEW g \in Group, role[<<u, g>>] = "none", role'[<<u, g>>] # "none"
      PROVE  \E r \in Request : call[r].kind = "enroll" /\ call[r].user = u /\ call[r].group = g
  <2>1. Next /\ ~UNCHANGED tables
    BY <1>1 DEF vars, tables
  <2>2. PICK r \in Request :
          /\ ~Refuse(r, "error")
          /\ CommitCreate(r) \/ CommitPatch(r) \/ CommitDelete(r)
             \/ CommitEnroll(r) \/ CommitUnenroll(r) \/ CommitSetOwner(r)
    BY <1>1, <2>1, Writers
  <2>3. ~CommitDelete(r)
    BY <1>1 DEF CommitDelete
  <2>4. CommitEnroll(r) \/ CommitUnenroll(r) \/ CommitSetOwner(r)
    BY <1>1, <2>2, <2>3 DEF CommitCreate, CommitPatch
  <2>5. PICK ro \in Role : /\ SetRole(r, ro)
                           /\ call[r].kind # "enroll" => ro = "none" \/ RoleNow(r) # "none"
    BY <2>2, <2>4 DEF CommitEnroll, CommitUnenroll, CommitSetOwner, Granted, Role
  <2>6. <<u, g>> = <<call[r].user, call[r].group>> /\ ro # "none"
    BY <1>1, <2>5 DEF SetRole, IInv, TypeOK, Roles
  <2>7. RoleNow(r) = "none"
    BY <1>1, <2>6 DEF RoleNow
  <2> QED BY <2>5, <2>6, <2>7
<1>2. IInv /\ [Next]_vars =>
        [\A x \in User \X Group : role[x] = "none" /\ role'[x] # "none" =>
           \E r \in Request : call[r].kind = "enroll" /\ call[r].user = x[1] /\ call[r].group = x[2]]_vars
  <2> SUFFICES ASSUME IInv, [Next]_vars, NEW x \in User \X Group, role[x] = "none", role'[x] # "none"
               PROVE  \E r \in Request : call[r].kind = "enroll" /\ call[r].user = x[1] /\ call[r].group = x[2]
    OBVIOUS
  <2>1. PICK u \in User, g \in Group : x = <<u, g>>
    OBVIOUS
  <2>2. \E r \in Request : call[r].kind = "enroll" /\ call[r].user = u /\ call[r].group = g
    BY <1>1, <2>1
  <2> QED BY <2>1, <2>2
<1> QED BY <1>2, Invariance, PTL DEF Spec, OnlyEnrolmentMaps
=============================================================================

------------------------------ MODULE GroupTree ------------------------------
(***************************************************************************)
(* The groups of one organization: a forest (each group names its parent), *)
(* the users mapped to groups, and the endpoints that change and list      *)
(* them.  A user sees the groups it is mapped to and everything below.     *)
(*                                                                         *)
(* As in PersonRecords every statement of a handler is a step.  What       *)
(* getGroupsForUser and getGroupHierarchiesForUser compute from their      *)
(* SELECTs is local to the goroutine; a walk that never ends leaves it     *)
(* spinning.  Name and filter of a group are payload; PersonScope has the  *)
(* filters, GroupWalks the walks.                                          *)
(***************************************************************************)
EXTENDS GroupWalks

CONSTANTS User, Request,
          May,        \* May[r]: the endpoints that r may call
          UserOf,     \* UserOf[r]: the authenticated user of r
          SeedParent, \* the forest a behaviour starts with
          SeedRole,   \* its user_group_map
          Targets     \* groups that requests other than list name

Kinds == {"create", "patch", "delete", "enroll", "unenroll", "set_owner", "list"}
Role == {"none", "plain", "owner"}
Roles == [User \X Group -> Role]

ASSUME TreeAssumption ==
  /\ May \in [Request -> SUBSET Kinds] /\ UserOf \in [Request -> User]
  /\ Targets \subseteq Group
  /\ SeedParent \in Forest /\ SeedRole \in Roles
  /\ \A g \in Rows(SeedParent) : SeedParent[g] \in Rows(SeedParent) \cup {Top}
  /\ \A x \in User \X Group : SeedRole[x] # "none" => x[2] \in Rows(SeedParent)

VARIABLES parent,  \* parent[g]: parent_id of row g (Top: NULL), Nil when no row
          issued,  \* group IDs handed out (autoIncrement)
          role,    \* role[<<u, g>>]: the user_group_map row of u and g, with its owner flag
          pc, status,
          call,    \* call[r]: endpoint, and the group, parent, user and flag that r names
          first,   \* first[r]: the groups as getGroupHierarchiesForUser read them
          mapped,  \* mapped[r]: the groups its user is mapped to, as read
          tree     \* tree[r]: the groups as getGroupsForUser read them

tables == <<parent, issued, role>>
reads == <<first, mapped, tree>>
vars == <<parent, issued, role, pc, status, call, first, mapped, tree>>

Phase == {"idle", "first", "mapped", "groups", "commit", "hierarchies", "spinning", "answered"}
Status == {"none", "ok", "not_found", "bad_request", "error"}
Args == [kind: Kinds \cup {Nil}, group: Group \cup {Nil}, parent: Group \cup {Nil},
         user: User \cup {Nil}, owner: BOOLEAN]
NoArgs == [kind |-> Nil, group |-> Nil, parent |-> Nil, user |-> Nil, owner |-> FALSE]
NoGroups == [g \in Group |-> Nil]
-----------------------------------------------------------------------------
Init ==
  /\ parent = SeedParent /\ issued = Rows(SeedParent) /\ role = SeedRole
  /\ pc = [r \in Request |-> "idle"] /\ status = [r \in Request |-> "none"]
  /\ call = [r \in Request |-> NoArgs] /\ first = [r \in Request |-> NoGroups]
  /\ mapped = [r \in Request |-> {}] /\ tree = [r \in Request |-> NoGroups]

Goto(r, p) == pc' = [pc EXCEPT ![r] = p]

\* A handler that returns drops its local variables.
Answer(r, s) ==
  /\ Goto(r, "answered") /\ status' = [status EXCEPT ![r] = s]
  /\ call' = [call EXCEPT ![r] = NoArgs] /\ first' = [first EXCEPT ![r] = NoGroups]
  /\ mapped' = [mapped EXCEPT ![r] = {}] /\ tree' = [tree EXCEPT ![r] = NoGroups]

\* A request arrives; the rows its path names are looked up at once.
Accept(r, k, p, g, par, u, o) ==
  /\ Goto(r, p) /\ UNCHANGED <<tables, status, reads>>
  /\ call' = [call EXCEPT ![r] = [kind |-> k, group |-> g, parent |-> par, user |-> u, owner |-> o]]
Refuse(r, s) == Answer(r, s) /\ UNCHANGED tables
New(r, kind) == kind \in May[r] /\ pc[r] = "idle"

CreateGroup(r, p) == New(r, "create") /\ Accept(r, "create", "mapped", Nil, p, Nil, FALSE)
ListGroups(r) == New(r, "list") /\ Accept(r, "list", "first", Nil, Nil, Nil, FALSE)
EnrollUser(r, u, g, o) == New(r, "enroll") /\ Accept(r, "enroll", "mapped", g, Nil, u, o)

PatchGroup(r, g, p) ==
  /\ New(r, "patch")
  /\ \/ parent[g] = Nil /\ Refuse(r, "not_found")
     \/ parent[g] # Nil /\ p = g /\ Refuse(r, "bad_request")
     \/ parent[g] # Nil /\ p # g /\ Accept(r, "patch", IF p = Nil THEN "commit" ELSE "mapped", g, p, Nil, FALSE)

DeleteGroup(r, g) ==
  /\ New(r, "delete")
  /\ \/ parent[g] = Nil /\ Refuse(r, "not_found")
     \/ parent[g] # Nil /\ Accept(r, "delete", "commit", g, Nil, Nil, FALSE)

UnenrollUser(r, u, g) ==
  /\ New(r, "unenroll")
  /\ \/ role[<<u, g>>] = "none" /\ Refuse(r, "not_found")
     \/ role[<<u, g>>] # "none" /\ Accept(r, "unenroll", "commit", g, Nil, u, FALSE)

SetOwner(r, u, g, o) ==
  /\ New(r, "set_owner")
  /\ \/ role[<<u, g>>] = "none" /\ Refuse(r, "not_found")
     \/ role[<<u, g>>] # "none" /\ Accept(r, "set_owner", "commit", g, Nil, u, o)
-----------------------------------------------------------------------------
(* The three SELECTs. *)

ReadFirst(r) ==
  /\ pc[r] = "first" /\ Goto(r, "mapped")
  /\ first' = [first EXCEPT ![r] = parent]
  /\ UNCHANGED <<tables, status, call, mapped, tree>>

ReadMapped(r) ==
  /\ pc[r] = "mapped" /\ Goto(r, "groups")
  /\ mapped' = [mapped EXCEPT ![r] = {g \in Group : role[<<UserOf[r], g>>] # "none"}]
  /\ UNCHANGED <<tables, status, call, first, tree>>

\* The group that must be visible: the new parent, or the group to enroll in.
Wanted(r) == IF call[r].kind = "enroll" THEN call[r].group ELSE call[r].parent

ReadGroupsUnchecked(r) ==
  /\ pc[r] = "groups" /\ ~Spins(parent, mapped[r])
  /\ tree' = [tree EXCEPT ![r] = parent]
  /\ Goto(r, IF call[r].kind = "list" THEN "hierarchies" ELSE "commit")
  /\ UNCHANGED <<status, call, first, mapped>>
  /\ UNCHANGED tables
ReadGroups(r) ==
  /\ pc[r] = "groups"
  /\ IF Spins(parent, mapped[r])
     THEN Goto(r, "spinning") /\ UNCHANGED <<status, call, reads>>
     ELSE IF call[r].kind # "list" /\ Wanted(r) \notin Visible(parent, mapped[r])
     THEN Answer(r, "bad_request")
     ELSE /\ tree' = [tree EXCEPT ![r] = parent]
          /\ Goto(r, IF call[r].kind = "list" THEN "hierarchies" ELSE "commit")
          /\ UNCHANGED <<status, call, first, mapped>>
  /\ UNCHANGED tables

BuildHierarchies(r) ==
  /\ pc[r] = "hierarchies"
  /\ IF \E g \in Visible(tree[r], mapped[r]) : HierarchyEndless(first[r], tree[r], g)
     THEN Goto(r, "spinning") /\ UNCHANGED <<status, call, reads>>
     ELSE Answer(r, "ok")
  /\ UNCHANGED tables
-----------------------------------------------------------------------------
(* The transactions, each of one or two statements. *)

\* INSERT: the parent may be gone by now (foreign key).
CommitCreateDangling(r) ==
  /\ call[r].kind = "create" /\ pc[r] = "commit"
  /\ \E g \in Group \ issued :
       /\ parent' = [parent EXCEPT ![g] = call[r].parent] /\ issued' = issued \cup {g}
       /\ UNCHANGED role /\ Answer(r, "ok")
CommitCreate(r) ==
  /\ call[r].kind = "create" /\ pc[r] = "commit"
  /\ \/ parent[call[r].parent] = Nil /\ Refuse(r, "error")
     \/ /\ parent[call[r].parent] # Nil
        /\ \E g \in Group \ issued :
             parent' = [parent EXCEPT ![g] = call[r].parent] /\ issued' = issued \cup {g}
        /\ UNCHANGED role /\ Answer(r, "ok")

\* UPDATE and SELECT: no row is an error, and so is a parent that is gone.
CommitPatch(r) ==
  LET g == call[r].group
      p == call[r].parent
      legal == parent[g] # Nil /\ (p # Nil => parent[p] # Nil)
  IN /\ call[r].kind = "patch" /\ pc[r] = "commit"
     /\ \/ ~legal /\ Refuse(r, "error")
        \/ /\ legal /\ parent' = [parent EXCEPT ![g] = IF p = Nil THEN parent[g] ELSE p]
           /\ UNCHANGED <<issued, role>> /\ Answer(r, "ok")

\* DELETE; the groups below and the maps of all of them cascade.
CommitDelete(r) ==
  LET gone == Below(parent, call[r].group) IN
  /\ call[r].kind = "delete" /\ pc[r] = "commit"
  /\ parent' = [g \in Group |-> IF g \in gone THEN Nil ELSE parent[g]]
  /\ role' = [x \in User \X Group |-> IF x[2] \in gone THEN "none" ELSE role[x]]
  /\ UNCHANGED issued /\ Answer(r, "ok")

SetRole(r, ro) == role' = [role EXCEPT ![<<call[r].user, call[r].group>>] = ro]
GrantedUnset(r) == IF call[r].owner THEN "owner" ELSE Nil
Granted(r) == IF call[r].owner THEN "owner" ELSE "plain"
RoleNow(r) == role[<<call[r].user, call[r].group>>]

\* INSERT: refused when the map exists (unique index) or the group is gone.
CommitEnroll(r) ==
  /\ call[r].kind = "enroll" /\ pc[r] = "commit"
  /\ LET legal == RoleNow(r) = "none" /\ parent[call[r].group] # Nil IN
     \/ ~legal /\ Refuse(r, "error")
     \/ legal /\ SetRole(r, Granted(r)) /\ UNCHANGED <<parent, issued>> /\ Answer(r, "ok")

CommitUnenroll(r) ==
  /\ call[r].kind = "unenroll" /\ pc[r] = "commit"
  /\ SetRole(r, "none") /\ UNCHANGED <<parent, issued>> /\ Answer(r, "ok")

\* UPDATE and SELECT: an error when the map is gone.
CommitSetOwnerUpsert(r) ==
  /\ call[r].kind = "set_owner" /\ pc[r] = "commit"
  /\ SetRole(r, Granted(r)) /\ UNCHANGED <<parent, issued>> /\ Answer(r, "ok")
CommitSetOwner(r) ==
  /\ call[r].kind = "set_owner" /\ pc[r] = "commit"
  /\ \/ RoleNow(r) = "none" /\ Refuse(r, "error")
     \/ RoleNow(r) # "none" /\ SetRole(r, Granted(r)) /\ UNCHANGED <<parent, issued>> /\ Answer(r, "ok")

\* SQLite gives up waiting for another transaction: this one fails.
Busy(r) == pc[r] = "commit" /\ Refuse(r, "error")
-----------------------------------------------------------------------------
Arrive(r) ==
  \/ ListGroups(r)
  \/ \E g \in Targets :
       \/ CreateGroup(r, g) \/ DeleteGroup(r, g)
       \/ \E p \in Targets \cup {Nil} : PatchGroup(r, g, p)
       \/ \E u \in User : UnenrollUser(r, u, g)
       \/ \E u \in User, o \in BOOLEAN : EnrollUser(r, u, g, o) \/ SetOwner(r, u, g, o)

Step(r) ==
  \/ ReadFirst(r) \/ ReadMapped(r) \/ ReadGroups(r) \/ BuildHierarchies(r)
  \/ CommitCreate(r) \/ CommitPatch(r) \/ CommitDelete(r)
  \/ CommitEnroll(r) \/ CommitUnenroll(r) \/ CommitSetOwner(r) \/ Busy(r)

Next == \E r \in Request : Arrive(r) \/ Step(r)

Spec == Init /\ [][Next]_vars
\* The goroutine of a request runs on.
FairSpec == Spec /\ \A r \in Request : WF_vars(Step(r))
-----------------------------------------------------------------------------
\* The type of every variable.
TypeOK ==
  /\ parent \in Forest /\ issued \in SUBSET Group /\ role \in Roles
  /\ pc \in [Request -> Phase] /\ status \in [Request -> Status]
  /\ call \in [Request -> Args] /\ first \in [Request -> Forest]
  /\ mapped \in [Request -> SUBSET Group] /\ tree \in [Request -> Forest]

\* Nothing refers to a group that is not there: no group hangs below a deleted
\* one and no user stays mapped to it, although POST, PATCH and enrolment check
\* the group before their transaction and a DELETE may come in between.
NothingDangles ==
  /\ \A g \in Rows(parent) : parent[g] \in Rows(parent) \cup {Top}
  /\ \A x \in User \X Group : role[x] # "none" => x[2] \in Rows(parent)

\* Some groups have all their parents among themselves.
Cyclic == \E S \in SUBSET Group \ {{}} : \A g \in S : parent[g] \in S
MappedTo(u) == {g \in Group : role[<<u, g>>] # "none"}

\* The groups a user sees, found by climbing from every group of the
\* organization, are the subtrees of the groups the user is mapped to: all of
\* them when a walk that meets circular parents comes to its end.
VisibleAreSubtrees ==
  \A u \in User : Visible(parent, MappedTo(u)) = UNION {Below(parent, g) : g \in MappedTo(u)}

\* The group list can be unfolded level by level: the tops (parent_id=null) are
\* the visible groups whose parent is not visible, and going from the tops
\* through parent_id=<group> shows every visible group.
ListUnfolds ==
  ~Cyclic => \A u \in User :
    LET V == Visible(parent, MappedTo(u))
        H == Hierarchies(parent, parent, MappedTo(u))
    IN /\ ListTops(H) = {g \in V : parent[g] \notin V}
       /\ \A S \in SUBSET V :
            ListTops(H) \subseteq S /\ (\A p \in S : ListChildren(H, parent, p) \subseteq S) => S = V

\* A group is created or moved only below a group that its user saw: one that is
\* below a group the user was mapped to, as the handler read both.
PlacedWhereSeen ==
  [][\A g \in Group : parent'[g] # parent[g] /\ parent'[g] \in Group =>
       \E r \in Request : LET m == mapped[r] IN
         /\ pc[r] = "commit" /\ call[r].parent = parent'[g]
         /\ \E x \in m : parent'[g] \in Below(tree[r], x)]_vars

\* A user that leaves a group comes back only by an enrolment, never by a PATCH
\* of the owner flag that had looked the map up before.
OnlyEnrolmentMaps ==
  [][\A x \in User \X Group : role[x] = "none" /\ role'[x] # "none" =>
       \E r \in Request : call[r].kind = "enroll" /\ call[r].user = x[1] /\ call[r].group = x[2]]_vars

\* As long as the groups form a forest every request ends: both walks over
\* parent IDs come to an end whatever is created, moved and deleted meanwhile.
EveryRequestEnds ==
  []~Cyclic => \A r \in Request : (pc[r] # "idle") ~> (pc[r] = "answered")

\* "circular parent_id" (PATCH group): a group is never below itself.
NoCircularParents == ~Cyclic
=============================================================================

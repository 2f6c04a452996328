------------------------------ MODULE Accounts ------------------------------
(***************************************************************************)
(* Who exists and who may do what: the registration of users, the          *)
(* foundation of organizations, and the table user_organization_map, from  *)
(* which the filter in front of every endpoint takes the permissions of a  *)
(* request.  Rows are not locked: the permissions, the row that an         *)
(* endpoint's path names and the row it writes are read by different       *)
(* statements, and other requests commit in between.                       *)
(***************************************************************************)
EXTENDS Naturals, FiniteSets

CONSTANTS User,     \* IDs of rows of table user
          Name,     \* spellings of usernames
          Folded,   \* Folded[n]: n as "collate nocase" compares it
          Org, Request,
          May,      \* May[r]: the endpoints that r may call
          ActorOf,  \* ActorOf[r]: the user whose token r carries
          System,   \* the holder of the system token
          Nil,
          SeedName, \* SeedName[u]: username of u at the start, or Nil
          SeedRoles \* user_organization_map tables that a behaviour may start with

Kinds == {"register", "found", "add", "remove", "set_owner"}
Role == {"none", "member", "owner"}
Roles == [User \X Org -> Role]

ASSUME AccountsAssumption ==
  /\ Nil \notin User \cup Name \cup Org /\ System \notin User
  /\ DOMAIN Folded = Name
  /\ May \in [Request -> SUBSET Kinds] /\ ActorOf \in [Request -> User \cup {System}]
  /\ SeedName \in [User -> Name \cup {Nil}] /\ SeedRoles \subseteq Roles
  /\ \A u, v \in User : u # v /\ SeedName[u] # Nil /\ SeedName[v] # Nil =>
       Folded[SeedName[u]] # Folded[SeedName[v]]
  /\ \A ro \in SeedRoles, u \in User, o \in Org : ro[<<u, o>>] # "none" => SeedName[u] # Nil

VARIABLES username, \* username[u] of row u of table user, Nil when there is none
          orgs,     \* rows of table organization
          role,     \* role[u, o]: the user_organization_map row, with its owner flag
          pc, status,
          call,     \* call[r]: endpoint, and the username, user, organization and flag that r names
          grant,    \* grant[r]: the actor's role in each organization, as the filter read it
          been      \* history: pairs of a user and an organization it has been an owner of

tables == <<username, orgs, role>>
vars == <<username, orgs, role, pc, status, call, grant, been>>

Phase == {"idle", "check", "filter", "organization", "owner", "user", "commit", "answered"}
Status == {"none", "ok", "bad_request", "forbidden", "not_found", "conflict", "error"}
Calls == [kind: Kinds \cup {Nil}, name: Name \cup {Nil}, user: User \cup {Nil}, org: Org \cup {Nil}, owner: BOOLEAN]
NoCall == [kind |-> Nil, name |-> Nil, user |-> Nil, org |-> Nil, owner |-> FALSE]
NoGrant == [o \in Org |-> "none"]
Owners(ro) == {x \in User \X Org : ro[x] = "owner"}
Registered == {u \in User : username[u] # Nil}
-----------------------------------------------------------------------------
\* username = ?, which ignores case.
Named(n) == {u \in Registered : Folded[username[u]] = Folded[n]}

\* The rows for o that a query of the masked table "organization" returns: the
\* inner join gives one for each map, those of the actor unless it is the system.
MaskedRows(a, o) ==
  Cardinality({u \in User : o \in orgs /\ role[<<u, o>>] # "none" /\ a \in {u, System}})

\* findUserInformationFromToken: the permission sets of the actor.
RolesOf(a) == [o \in Org |-> IF a = System THEN "owner" ELSE role[<<a, o>>]]

\* RequirePermissionOrganizationRead and RequirePermissionOrganizationUser...:
\* the first is granted to every member, the others to owners.
MemberPermitted(r) == grant[r][call[r].org] # "none"
Permitted(r) == grant[r][call[r].org] = "owner"
-----------------------------------------------------------------------------
Init ==
  /\ username = SeedName /\ role \in SeedRoles
  /\ orgs = {o \in Org : \E u \in User : role[<<u, o>>] # "none"}
  /\ pc = [r \in Request |-> "idle"] /\ status = [r \in Request |-> "none"]
  /\ call = [r \in Request |-> NoCall] /\ grant = [r \in Request |-> NoGrant]
  /\ been = Owners(role)

Goto(r, p) == pc' = [pc EXCEPT ![r] = p]

Answer(r, s) ==
  /\ Goto(r, "answered") /\ status' = [status EXCEPT ![r] = s]
  /\ grant' = [grant EXCEPT ![r] = NoGrant] /\ call' = [call EXCEPT ![r] = NoCall]
Refuse(r, s) == Answer(r, s) /\ UNCHANGED <<tables, been>>
Continue(r, p) == Goto(r, p) /\ UNCHANGED <<tables, status, call, grant, been>>

Arrive(r, k, p, n, u, o, f) ==
  /\ k \in May[r] /\ pc[r] = "idle" /\ Goto(r, p) /\ UNCHANGED <<tables, status, grant, been>>
  /\ call' = [call EXCEPT ![r] = [kind |-> k, name |-> n, user |-> u, org |-> o, owner |-> f]]

\* Tokens are given to registered users only.
ActorExists(r) == ActorOf[r] \in Registered \cup {System}

PostUser(r, n) == Arrive(r, "register", "check", n, Nil, Nil, FALSE)
PostOrganization(r, u) == ActorExists(r) /\ Arrive(r, "found", "filter", Nil, u, Nil, FALSE)
AddUser(r, n, o, f) == ActorExists(r) /\ Arrive(r, "add", "filter", n, Nil, o, f)
RemoveUser(r, u, o) == ActorExists(r) /\ Arrive(r, "remove", "filter", Nil, u, o, FALSE)
PatchUser(r, u, o, f) == ActorExists(r) /\ Arrive(r, "set_owner", "filter", Nil, u, o, f)
-----------------------------------------------------------------------------
(* Before the handler: the filter, and the fields of its metadata in order. *)

FilterUser(r) ==
  /\ pc[r] = "filter" /\ grant' = [grant EXCEPT ![r] = RolesOf(ActorOf[r])]
  /\ Goto(r, IF call[r].kind = "found" THEN "owner" ELSE "organization")
  /\ UNCHANGED <<tables, status, call, been>>

\* SELECT from the masked table, then the two permissions.
ReadOrganization(r) ==
  LET found == MaskedRows(ActorOf[r], call[r].org) > 0 IN
  /\ pc[r] = "organization"
  /\ \/ ~found /\ Refuse(r, "not_found")
     \/ found /\ ~Permitted(r) /\ Refuse(r, "forbidden")
     \/ found /\ Permitted(r) /\ Continue(r, "user")

\* The user that the path names has a map, or the username belongs to someone.
ReadUser(r) ==
  /\ pc[r] = "user"
  /\ IF call[r].kind = "add"
     THEN \/ Named(call[r].name) = {} /\ Refuse(r, "bad_request")
          \/ \E u \in Named(call[r].name) :
               /\ call' = [call EXCEPT ![r].user = u]
               /\ Goto(r, "commit") /\ UNCHANGED <<tables, status, grant, been>>
     ELSE \/ role[<<call[r].user, call[r].org>>] = "none" /\ Refuse(r, "not_found")
          \/ role[<<call[r].user, call[r].org>>] # "none" /\ Continue(r, "commit")

\* POST organization: owner_id is given by the system and is oneself for a user.
OwnerOf(r) == IF call[r].user = Nil THEN ActorOf[r] ELSE call[r].user
ReadOwner(r) ==
  LET u == OwnerOf(r)
      legal == u # System /\ ActorOf[r] \in {u, System}
  IN /\ pc[r] = "owner"
     /\ \/ ~legal /\ Refuse(r, "bad_request")
        \/ legal /\ u \notin Registered /\ Refuse(r, "error")
        \/ /\ legal /\ u \in Registered /\ Goto(r, "commit")
           /\ call' = [call EXCEPT ![r].user = u]
           /\ UNCHANGED <<tables, status, grant, been>>

CheckUsername(r) ==
  /\ pc[r] = "check"
  /\ \/ Named(call[r].name) # {} /\ Refuse(r, "conflict")
     \/ Named(call[r].name) = {} /\ Continue(r, "commit")
-----------------------------------------------------------------------------
(* The transactions. *)

\* INSERT INTO user; the unique index on the username has the last word.
CommitUserUnindexed(r) ==
  /\ call[r].kind = "register" /\ pc[r] = "commit"
  /\ \E u \in User \ Registered : username' = [username EXCEPT ![u] = call[r].name]
  /\ Answer(r, "ok") /\ UNCHANGED <<orgs, role, been>>
CommitUser(r) ==
  /\ call[r].kind = "register" /\ pc[r] = "commit"
  /\ \/ Named(call[r].name) # {} /\ Refuse(r, "error")
     \/ /\ Named(call[r].name) = {}
        /\ \E u \in User \ Registered : username' = [username EXCEPT ![u] = call[r].name]
        /\ Answer(r, "ok") /\ UNCHANGED <<orgs, role, been>>

SetRole(r, o, ro) ==
  /\ role' = [role EXCEPT ![<<call[r].user, o>>] = ro]
  /\ been' = IF ro = "owner" THEN been \cup {<<call[r].user, o>>} ELSE been
  /\ Answer(r, "ok") /\ UNCHANGED username
RoleAsked(r) == IF call[r].owner THEN "owner" ELSE "member"

\* The organization, its first owner, its root group and the owner of that.
CommitOrganization(r) ==
  /\ call[r].kind = "found" /\ pc[r] = "commit"
  /\ \E o \in Org \ orgs : orgs' = orgs \cup {o} /\ SetRole(r, o, "owner")

\* INSERT INTO user_organization_map; a second map is refused (unique index).
CommitAddUpsert(r) ==
  /\ call[r].kind = "add" /\ pc[r] = "commit"
  /\ SetRole(r, call[r].org, RoleAsked(r)) /\ UNCHANGED orgs
CommitAdd(r) ==
  /\ call[r].kind = "add" /\ pc[r] = "commit"
  /\ LET there == role[<<call[r].user, call[r].org>>] # "none" IN
     \/ there /\ Refuse(r, "error")
     \/ ~there /\ SetRole(r, call[r].org, RoleAsked(r)) /\ UNCHANGED orgs

CommitRemove(r) ==
  /\ call[r].kind = "remove" /\ pc[r] = "commit"
  /\ SetRole(r, call[r].org, "none") /\ UNCHANGED orgs

\* UPDATE, and a SELECT that fails when the map is gone.
CommitPatch(r) ==
  /\ call[r].kind = "set_owner" /\ pc[r] = "commit"
  /\ LET there == role[<<call[r].user, call[r].org>>] # "none" IN
     \/ ~there /\ Refuse(r, "error")
     \/ there /\ SetRole(r, call[r].org, RoleAsked(r)) /\ UNCHANGED orgs

\* SQLite gives up waiting for another transaction: this one fails.
Busy(r) == pc[r] = "commit" /\ Refuse(r, "error")
-----------------------------------------------------------------------------
Begin(r) ==
  \/ \E n \in Name :
       \/ PostUser(r, n)
       \/ \E o \in Org, f \in BOOLEAN : AddUser(r, n, o, f)
  \/ \E u \in User \cup {Nil} : PostOrganization(r, u)
  \/ \E u \in User, o \in Org : RemoveUser(r, u, o) \/ \E f \in BOOLEAN : PatchUser(r, u, o, f)

Step(r) ==
  \/ FilterUser(r) \/ ReadOrganization(r) \/ ReadUser(r) \/ ReadOwner(r) \/ CheckUsername(r)
  \/ CommitUser(r) \/ CommitOrganization(r) \/ CommitAdd(r) \/ CommitRemove(r)
  \/ CommitPatch(r) \/ Busy(r)

Next == \E r \in Request : Begin(r) \/ Step(r)
Spec == Init /\ [][Next]_vars
-----------------------------------------------------------------------------
\* The type of every variable.
TypeOK ==
  /\ username \in [User -> Name \cup {Nil}] /\ orgs \in SUBSET Org /\ role \in Roles
  /\ pc \in [Request -> Phase] /\ status \in [Request -> Status]
  /\ call \in [Request -> Calls] /\ grant \in [Request -> [Org -> Role]]
  /\ been \in SUBSET (User \X Org)

\* No two users have the same username, ignoring case, although POST user looks
\* for the name before its transaction: a login finds one user at most.
UsernamesDiffer ==
  \A u, v \in Registered : u # v => Folded[username[u]] # Folded[username[v]]

\* The members of an organization are changed only on behalf of the system or of
\* someone who is or has been one of its owners: permissions may be out of date
\* when they are used, but they were never made up.
ChangedByOwners ==
  [][\A x \in User \X Org : role'[x] # role[x] /\ x[2] \in orgs =>
       \E r \in Request : /\ pc[r] = "commit" /\ pc'[r] = "answered" /\ call[r].org = x[2]
                          /\ ActorOf[r] = System \/ <<ActorOf[r], x[2]>> \in been]_vars

\* A role comes and goes as it was asked for: POST never changes the role of a
\* member, PATCH never brings back one who was removed meanwhile, and only
\* DELETE ends a membership.
RolesChangeAsAsked ==
  [][\A x \in User \X Org : role'[x] # role[x] =>
       \E r \in Request :
         /\ pc[r] = "commit" /\ call[r].user = x[1]
         /\ IF role[x] = "none" THEN call[r].kind \in {"add", "found"}
            ELSE IF role'[x] = "none" THEN call[r].kind = "remove" ELSE call[r].kind = "set_owner"]_vars

\* The last owner may leave; from then on, once the requests are answered whose
\* tokens were checked before, nobody but the system changes the members.
OwnerlessStaysSo ==
  [][\A o \in Org : (\A u \in User : role[<<u, o>>] # "owner")
                    /\ (\A r \in Request : grant[r][o] # "owner") /\ o \in orgs =>
       \A u \in User : role'[<<u, o>>] = role[<<u, o>>]]_vars
=============================================================================

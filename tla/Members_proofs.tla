--------------------------- MODULE Members_proofs ---------------------------
(***************************************************************************)
(* Theorems about Accounts and Members, for any users, names,              *)
(* organizations, requests, visits and filters.  Of Accounts: usernames    *)
(* differ, and memberships change only as they were asked to by someone    *)
(* who was an owner when the permissions were read.  Its composition with  *)
(* Members implements it, so all that holds there too; what is said of     *)
(* enrolments and filters rests on it.                                     *)
(***************************************************************************)
EXTENDS Members, FiniteSetTheorems, TLAPS

-----------------------------------------------------------------------------
(* Accounts. *)

MemberKinds == {"add", "remove", "set_owner"}

\* The arguments that a request has when it is about to execute a statement.
Arguments ==
  \A r \in Request :
    /\ pc[r] = "check" => call[r].kind = "register" /\ call[r].name \in Name
    /\ pc[r] = "owner" => call[r].kind = "found"
    /\ pc[r] = "filter" => call[r].kind \in {"found"} \cup MemberKinds
    /\ pc[r] \in {"filter", "organization", "user"} /\ call[r].kind # "found" =>
         /\ call[r].kind \in MemberKinds /\ call[r].org \in Org
         /\ call[r].kind = "add" => call[r].name \in Name
         /\ call[r].kind # "add" => call[r].user \in User
    /\ pc[r] \in {"organization", "user"} => call[r].kind # "found"
    /\ pc[r] = "commit" =>
         \/ call[r].kind = "register" /\ call[r].name \in Name
         \/ call[r].kind = "found" /\ call[r].user \in User
         \/ call[r].kind \in MemberKinds /\ call[r].user \in User /\ call[r].org \in Org

\* The holder of r's token has once been given the right to change members of o.
EverOwner(r, o) == ActorOf[r] = System \/ <<ActorOf[r], o>> \in been

Entitled(r, o) == o \in orgs /\ EverOwner(r, o)

\* Permissions are those of an owner of that time, and are asked for in time.
RightsWereGiven ==
  /\ Owners(role) \subseteq been
  /\ \A r \in Request, o \in Org : grant[r][o] = "owner" => EverOwner(r, o)
  /\ \A r \in Request : pc[r] \in {"user", "commit"} /\ call[r].kind \in MemberKinds =>
       Entitled(r, call[r].org)

MembersOfOrganizations == \A u \in User, o \in Org : role[<<u, o>>] # "none" => o \in orgs

IInv == TypeOK /\ Arguments /\ RightsWereGiven /\ MembersOfOrganizations /\ UsernamesDiffer
-----------------------------------------------------------------------------
LEMMA NoCallType == NoCall \in Calls
  BY DEF NoCall, Calls

LEMMA Initially == Init => IInv
<1> SUFFICES ASSUME Init PROVE IInv
  OBVIOUS
<1> USE AccountsAssumption DEF Init
<1>1. TypeOK
  <2>1. role \in Roles /\ Owners(role) \in SUBSET (User \X Org)
    BY DEF Owners
  <2>2. NoGrant \in [Org -> Role]
    BY DEF NoGrant, Role
  <2> QED BY <2>1, <2>2, NoCallType DEF TypeOK, Phase, Status
<1>2. Arguments
  BY DEF Arguments
<1>3. RightsWereGiven
  BY DEF RightsWereGiven, NoGrant
<1>4. MembersOfOrganizations
  BY DEF MembersOfOrganizations
<1>5. UsernamesDiffer
  BY DEF UsernamesDiffer, Registered
<1> QED BY <1>1, <1>2, <1>3, <1>4, <1>5 DEF IInv
-----------------------------------------------------------------------------
(* Steps that leave the tables alone. *)

\* The part of the invariant that a step of r can disturb through its locals.
LEMMA QuietStep ==
  ASSUME IInv, UNCHANGED <<tables, been>>, TypeOK', Arguments',
         \A r \in Request, o \in Org : grant'[r][o] = "owner" => EverOwner(r, o),
         \A r \in Request : pc'[r] \in {"user", "commit"} /\ call'[r].kind \in MemberKinds =>
           Entitled(r, call'[r].org)
  PROVE  IInv'
<1> USE DEF IInv, tables
<1>1. RightsWereGiven'
  BY DEF RightsWereGiven, Owners, EverOwner, Entitled
<1>2. MembersOfOrganizations' /\ UsernamesDiffer'
  BY DEF MembersOfOrganizations, UsernamesDiffer, Registered
<1> QED BY <1>1, <1>2

LEMMA AnswerStep ==
  ASSUME TypeOK, Arguments, RightsWereGiven, NEW r \in Request, NEW s \in Status, Answer(r, s)
  PROVE  /\ pc' \in [Request -> Phase] /\ status' \in [Request -> Status]
         /\ call' \in [Request -> Calls] /\ grant' \in [Request -> [Org -> Role]]
         /\ Arguments'
         /\ \A q \in Request, o \in Org : grant'[q][o] = "owner" => EverOwner(q, o)
         /\ \A q \in Request : pc'[q] \in {"user", "commit"} /\ call'[q].kind \in MemberKinds =>
              Entitled(q, call'[q].org)
<1> USE DEF Answer, Goto, TypeOK
<1>1. NoGrant \in [Org -> Role] /\ \A o \in Org : NoGrant[o] # "owner"
  BY DEF NoGrant, Role
<1>2. pc' \in [Request -> Phase] /\ status' \in [Request -> Status]
  BY DEF Phase
<1>3. call' \in [Request -> Calls] /\ grant' \in [Request -> [Org -> Role]]
  BY <1>1, NoCallType
<1>4. Arguments'
  BY DEF Arguments, Phase
<1>5. \A q \in Request, o \in Org : grant'[q][o] = "owner" => EverOwner(q, o)
  BY <1>1 DEF RightsWereGiven
<1>6. \A q \in Request : pc'[q] \in {"user", "commit"} /\ call'[q].kind \in MemberKinds =>
        Entitled(q, call'[q].org)
  BY DEF RightsWereGiven
<1> QED BY <1>2, <1>3, <1>4, <1>5, <1>6

LEMMA RefuseStep ==
  ASSUME IInv, NEW r \in Request, NEW s \in Status, Refuse(r, s)
  PROVE  IInv'
<1>1. TypeOK'
  BY AnswerStep DEF IInv, TypeOK, Refuse, tables
<1> QED BY <1>1, AnswerStep, QuietStep DEF IInv, Refuse

LEMMA BeginStep ==
  ASSUME IInv, NEW r \in Request, Begin(r)
  PROVE  IInv'
<1>1. PICK k \in Kinds, p \in Phase, n \in Name \cup {Nil}, u \in User \cup {Nil}, o \in Org \cup {Nil},
           f \in BOOLEAN :
        /\ Arrive(r, k, p, n, u, o, f)
        /\ \/ k = "register" /\ p = "check" /\ n \in Name
           \/ k = "found" /\ p = "filter"
           \/ /\ k \in MemberKinds /\ p = "filter" /\ o \in Org
              /\ (k = "add" => n \in Name) /\ (k # "add" => u \in User)
  BY DEF Begin, PostUser, PostOrganization, AddUser, RemoveUser, PatchUser, Kinds, Phase, MemberKinds
<1> USE <1>1 DEF Arrive, Goto
<1>2. TypeOK'
  BY DEF IInv, TypeOK, tables, Calls
<1>3. Arguments'
  BY DEF IInv, TypeOK, Arguments, MemberKinds
<1> QED BY <1>2, <1>3, QuietStep DEF IInv, TypeOK, RightsWereGiven

\* The permissions are those of the tables, so the actor is an owner where they
\* are an owner's.
LEMMA FilterUserStep ==
  ASSUME IInv, NEW r \in Request, FilterUser(r)
  PROVE  IInv'
<1> USE DEF FilterUser, Goto
<1>1. ActorOf[r] \in User \cup {System}
  BY AccountsAssumption
<1>2. RolesOf(ActorOf[r]) \in [Org -> Role]
  BY <1>1 DEF RolesOf, IInv, TypeOK, Roles, Role
<1>3. \A o \in Org : RolesOf(ActorOf[r])[o] = "owner" => EverOwner(r, o)
  BY <1>1 DEF RolesOf, IInv, RightsWereGiven, Owners, EverOwner
<1>4. TypeOK'
  BY <1>2 DEF IInv, TypeOK, tables, Phase
<1>5. Arguments'
  BY DEF IInv, TypeOK, Arguments, MemberKinds
<1>6. \A q \in Request, o \in Org : grant'[q][o] = "owner" => EverOwner(q, o)
  BY <1>3 DEF IInv, TypeOK, RightsWereGiven
<1>7. \A q \in Request : pc'[q] \in {"user", "commit"} /\ call'[q].kind \in MemberKinds =>
        Entitled(q, call'[q].org)
  BY DEF IInv, TypeOK, RightsWereGiven
<1> QED BY <1>4, <1>5, <1>6, <1>7, QuietStep

\* A request passes with the permission of an owner only.
LEMMA ReadOrganizationStep ==
  ASSUME IInv, NEW r \in Request, ReadOrganization(r)
  PROVE  IInv'
<1>1. CASE Refuse(r, "not_found") \/ Refuse(r, "forbidden")
  BY <1>1, RefuseStep DEF Status
<1>2. CASE MaskedRows(ActorOf[r], call[r].org) > 0 /\ Permitted(r) /\ Continue(r, "user")
  <2> USE <1>2 DEF Continue, Goto
  <2>1. pc[r] = "organization" /\ call[r].org \in Org
    BY DEF ReadOrganization, IInv, Arguments
  <2>2. Entitled(r, call[r].org)
    <3>1. EverOwner(r, call[r].org)
      BY <2>1 DEF IInv, RightsWereGiven, Permitted
    <3>2. call[r].org \in orgs
      <4> SUFFICES ASSUME call[r].org \notin orgs PROVE MaskedRows(ActorOf[r], call[r].org) = 0
        OBVIOUS
      <4>1. {u \in User : /\ call[r].org \in orgs /\ role[<<u, call[r].org>>] # "none"
                          /\ ActorOf[r] \in {u, System}} = {}
        OBVIOUS
      <4> QED BY <4>1, FS_EmptySet DEF MaskedRows
    <3> QED BY <3>1, <3>2 DEF Entitled
  <2>3. TypeOK'
    BY DEF IInv, TypeOK, tables, Phase
  <2>4. Arguments'
    BY <2>1 DEF IInv, TypeOK, Arguments, MemberKinds
  <2> QED BY <2>2, <2>3, <2>4, QuietStep DEF IInv, TypeOK, RightsWereGiven
<1> QED BY <1>1, <1>2 DEF ReadOrganization

\* A request that names nobody or nobody of the organization ends here.
LEMMA ReadUserStep ==
  ASSUME IInv, NEW r \in Request, ReadUser(r)
  PROVE  IInv'
<1> USE DEF Goto
<1>1. pc[r] = "user" /\ Entitled(r, call[r].org) /\ call[r].org \in Org /\ call[r].kind \in MemberKinds
  BY DEF ReadUser, IInv, Arguments, RightsWereGiven
<1>2. CASE Refuse(r, "bad_request") \/ Refuse(r, "not_found")
  BY <1>2, RefuseStep DEF Status
<1>3. ASSUME NEW u \in Named(call[r].name), call' = [call EXCEPT ![r].user = u],
             Goto(r, "commit"), UNCHANGED <<tables, status, grant, been>>
      PROVE  IInv'
  <2> USE <1>3
  <2>1. u \in User
    BY DEF Named, Registered
  <2>2. TypeOK'
    BY <2>1 DEF IInv, TypeOK, tables, Phase, Calls
  <2>3. Arguments'
    BY <1>1, <2>1 DEF IInv, TypeOK, Arguments, MemberKinds, Calls
  <2> QED BY <1>1, <2>2, <2>3, QuietStep DEF IInv, TypeOK, RightsWereGiven, Calls
<1>4. CASE call[r].kind # "add" /\ Continue(r, "commit")
  <2> USE <1>4 DEF Continue
  <2>1. TypeOK'
    BY DEF IInv, TypeOK, tables, Phase
  <2>2. Arguments'
    BY <1>1 DEF IInv, TypeOK, Arguments, MemberKinds
  <2> QED BY <1>1, <2>1, <2>2, QuietStep DEF IInv, TypeOK, RightsWereGiven
<1> QED BY <1>2, <1>3, <1>4 DEF ReadUser

LEMMA ReadOwnerStep ==
  ASSUME IInv, NEW r \in Request, ReadOwner(r)
  PROVE  IInv'
<1> DEFINE u == OwnerOf(r)
<1>1. CASE Refuse(r, "bad_request") \/ Refuse(r, "error")
  BY <1>1, RefuseStep DEF Status
<1>2. CASE /\ u \in Registered /\ Goto(r, "commit") /\ call' = [call EXCEPT ![r].user = u]
           /\ UNCHANGED <<tables, status, grant, been>>
  <2> HIDE DEF u
  <2> USE <1>2 DEF Goto
  <2>1. u \in User /\ pc[r] = "owner" /\ call[r].kind = "found"
    BY DEF Registered, ReadOwner, IInv, Arguments
  <2>2. TypeOK'
    BY <2>1 DEF IInv, TypeOK, tables, Phase, Calls
  <2>3. Arguments'
    BY <2>1 DEF IInv, TypeOK, Arguments, MemberKinds, Calls
  <2> QED BY <2>1, <2>2, <2>3, QuietStep DEF IInv, TypeOK, RightsWereGiven, Calls, MemberKinds
<1> QED BY <1>1, <1>2 DEF ReadOwner

LEMMA CheckUsernameStep ==
  ASSUME IInv, NEW r \in Request, CheckUsername(r)
  PROVE  IInv'
<1>1. CASE Refuse(r, "conflict")
  BY <1>1, RefuseStep DEF Status
<1>2. CASE Continue(r, "commit")
  <2> USE <1>2 DEF Continue, Goto
  <2>1. pc[r] = "check" /\ call[r].kind = "register" /\ call[r].name \in Name
    BY DEF CheckUsername, IInv, Arguments
  <2>2. TypeOK'
    BY DEF IInv, TypeOK, tables, Phase
  <2>3. Arguments'
    BY <2>1 DEF IInv, TypeOK, Arguments, MemberKinds
  <2> QED BY <2>1, <2>2, <2>3, QuietStep DEF IInv, TypeOK, RightsWereGiven, MemberKinds
<1> QED BY <1>1, <1>2 DEF CheckUsername
-----------------------------------------------------------------------------
(* Steps that write. *)

\* A username is only given to a new row when nobody has it.
LEMMA CommitUserStep ==
  ASSUME IInv, NEW r \in Request, CommitUser(r)
  PROVE  IInv'
<1>1. CASE Refuse(r, "error")
  BY <1>1, RefuseStep DEF Status
<1>2. CASE ~Refuse(r, "error")
  <2>1. PICK u \in User \ Registered : username' = [username EXCEPT ![u] = call[r].name]
    BY <1>2 DEF CommitUser
  <2>2. /\ Named(call[r].name) = {} /\ Answer(r, "ok") /\ UNCHANGED <<orgs, role, been>>
        /\ call[r].name \in Name
    BY <1>2 DEF CommitUser, IInv, Arguments, MemberKinds
  <2> HIDE <1>2
  <2>3. TypeOK'
    BY <2>1, <2>2, AnswerStep DEF IInv, TypeOK, Status
  <2>4. Arguments' /\ RightsWereGiven'
    BY <2>2, AnswerStep DEF IInv, Status, RightsWereGiven, Owners, EverOwner, Entitled
  <2>5. MembersOfOrganizations'
    BY <2>2 DEF IInv, MembersOfOrganizations
  <2>6. UsernamesDiffer'
    BY <2>1, <2>2 DEF IInv, TypeOK, UsernamesDiffer, Named, Registered
  <2> QED BY <2>3, <2>4, <2>5, <2>6 DEF IInv
<1> QED BY <1>1, <1>2

\* A role is written in an organization that is there.
LEMMA SetRoleStep ==
  ASSUME IInv, NEW r \in Request, NEW o \in Org, NEW ro \in Role, SetRole(r, o, ro),
         call[r].user \in User, orgs' \in SUBSET Org, orgs \subseteq orgs', o \in orgs'
  PROVE  IInv'
<1> DEFINE x == <<call[r].user, o>>
<1> x \in User \X Org
  OBVIOUS
<1> USE DEF SetRole
<1>1. /\ role' = [role EXCEPT ![x] = ro] /\ Answer(r, "ok") /\ UNCHANGED username
      /\ been' = IF ro = "owner" THEN been \cup {x} ELSE been
  OBVIOUS
<1> HIDE DEF x, SetRole
<1>2. TypeOK'
  BY <1>1, AnswerStep DEF IInv, TypeOK, Status, Roles
<1>3. been \subseteq been'
  BY <1>1
<1>4. Arguments'
  BY <1>1, AnswerStep DEF IInv, Status
<1>5. RightsWereGiven'
  <2>1. Owners(role)' \subseteq been'
    BY <1>1 DEF IInv, TypeOK, Roles, RightsWereGiven, Owners
  <2> QED BY <2>1, <1>1, <1>3, AnswerStep DEF IInv, Status, RightsWereGiven, EverOwner, Entitled
<1>6. MembersOfOrganizations'
  <2> SUFFICES ASSUME NEW u \in User, NEW p \in Org, role'[<<u, p>>] # "none"
               PROVE  p \in orgs'
    BY DEF MembersOfOrganizations
  <2>1. CASE <<u, p>> = x
    BY <2>1 DEF x
  <2>2. CASE <<u, p>> # x
    BY <1>1, <2>2 DEF IInv, TypeOK, Roles, MembersOfOrganizations
  <2> QED BY <2>1, <2>2
<1>7. UsernamesDiffer'
  BY <1>1 DEF IInv, UsernamesDiffer, Registered
<1> QED BY <1>2, <1>4, <1>5, <1>6, <1>7 DEF IInv
\* What the requests that write a role have in common: they were asked to.
LEMMA RoleWriters ==
  ASSUME IInv, NEW r \in Request, ~Refuse(r, "error"),
         CommitOrganization(r) \/ CommitAdd(r) \/ CommitRemove(r) \/ CommitPatch(r)
  PROVE  /\ pc[r] = "commit" /\ pc'[r] = "answered" /\ call[r].user \in User
         /\ \E o \in Org, ro \in Role :
              /\ SetRole(r, o, ro) /\ orgs' \in SUBSET Org /\ orgs \subseteq orgs' /\ o \in orgs'
              /\ \/ call[r].kind = "found" /\ o \notin orgs /\ ro = "owner"
                 \/ /\ call[r].kind \in MemberKinds /\ o = call[r].org /\ Entitled(r, o)
                    /\ call[r].kind = "add" => role[<<call[r].user, o>>] = "none"
                    /\ call[r].kind = "set_owner" => role[<<call[r].user, o>>] # "none"
                    /\ ro = "none" <=> call[r].kind = "remove"
<1> DEFINE Writes(o, ro) ==
      /\ SetRole(r, o, ro) /\ orgs' \in SUBSET Org /\ orgs \subseteq orgs' /\ o \in orgs'
      /\ \/ call[r].kind = "found" /\ o \notin orgs /\ ro = "owner"
         \/ /\ call[r].kind \in MemberKinds /\ o = call[r].org /\ Entitled(r, o)
            /\ call[r].kind = "add" => role[<<call[r].user, o>>] = "none"
            /\ call[r].kind = "set_owner" => role[<<call[r].user, o>>] # "none"
            /\ ro = "none" <=> call[r].kind = "remove"
<1>1. pc[r] = "commit" /\ orgs \in SUBSET Org
  BY DEF CommitOrganization, CommitAdd, CommitRemove, CommitPatch, IInv, TypeOK
<1>2. call[r].kind \in MemberKinds => /\ call[r].user \in User /\ call[r].org \in Org
                                      /\ Entitled(r, call[r].org) /\ call[r].org \in orgs
  BY <1>1 DEF IInv, Arguments, RightsWereGiven, Entitled, MemberKinds
<1>3. RoleAsked(r) \in Role /\ RoleAsked(r) # "none"
  BY DEF RoleAsked, Role
<1>4. CASE CommitOrganization(r)
  <2>1. PICK o \in Org \ orgs : orgs' = orgs \cup {o} /\ SetRole(r, o, "owner")
    BY <1>4 DEF CommitOrganization
  <2>2. call[r].kind = "found" /\ call[r].user \in User
    BY <1>1, <1>4 DEF CommitOrganization, IInv, Arguments, MemberKinds
  <2>3. Writes(o, "owner") /\ "owner" \in Role
    BY <1>1, <2>1, <2>2 DEF Role
  <2>4. pc'[r] = "answered"
    BY <2>1 DEF SetRole, Answer, Goto, IInv, TypeOK
  <2> QED BY <1>1, <2>1, <2>2, <2>3, <2>4
<1>5. CASE CommitAdd(r)
  <2>1. /\ call[r].kind = "add" /\ role[<<call[r].user, call[r].org>>] = "none"
        /\ SetRole(r, call[r].org, RoleAsked(r)) /\ UNCHANGED orgs
    BY <1>5 DEF CommitAdd
  <2>2. Writes(call[r].org, RoleAsked(r))
    BY <1>1, <1>2, <1>3, <2>1 DEF MemberKinds
  <2>3. pc'[r] = "answered"
    BY <2>1 DEF SetRole, Answer, Goto, IInv, TypeOK
  <2> QED BY <1>1, <1>2, <1>3, <2>1, <2>2, <2>3 DEF MemberKinds
<1>6. CASE CommitRemove(r)
  <2>1. call[r].kind = "remove" /\ SetRole(r, call[r].org, "none") /\ UNCHANGED orgs
    BY <1>6 DEF CommitRemove
  <2>2. Writes(call[r].org, "none") /\ "none" \in Role
    BY <1>1, <1>2, <2>1 DEF MemberKinds, Role
  <2>3. pc'[r] = "answered"
    BY <2>1 DEF SetRole, Answer, Goto, IInv, TypeOK
  <2> QED BY <1>1, <1>2, <2>1, <2>2, <2>3 DEF MemberKinds
<1>7. CASE CommitPatch(r)
  <2>1. /\ call[r].kind = "set_owner" /\ role[<<call[r].user, call[r].org>>] # "none"
        /\ SetRole(r, call[r].org, RoleAsked(r)) /\ UNCHANGED orgs
    BY <1>7 DEF CommitPatch
  <2>2. Writes(call[r].org, RoleAsked(r))
    BY <1>1, <1>2, <1>3, <2>1 DEF MemberKinds
  <2>3. pc'[r] = "answered"
    BY <2>1 DEF SetRole, Answer, Goto, IInv, TypeOK
  <2> QED BY <1>1, <1>2, <1>3, <2>1, <2>2, <2>3 DEF MemberKinds
<1> QED BY <1>4, <1>5, <1>6, <1>7

\* A step is one that writes a role, one that registers, or one that does not
\* touch the roles; each keeps the invariant.
LEMMA NextStep ==
  ASSUME IInv, [Next]_vars
  PROVE  IInv'
<1>1. CASE UNCHANGED vars
  BY <1>1 DEF vars, IInv, TypeOK, Arguments, RightsWereGiven, Owners, EverOwner, Entitled,
              MembersOfOrganizations, UsernamesDiffer, Registered
<1>2. ASSUME NEW r \in Request, Begin(r) \/ Step(r) PROVE IInv'
  <2>1. CASE Refuse(r, "error")
    BY <2>1, RefuseStep DEF Status
  <2>2. CASE ~Refuse(r, "error") /\ (CommitOrganization(r) \/ CommitAdd(r) \/ CommitRemove(r) \/ CommitPatch(r))
    BY <2>2, RoleWriters, SetRoleStep
  <2> QED BY <1>2, <2>1, <2>2, BeginStep, FilterUserStep, ReadOrganizationStep, ReadUserStep, ReadOwnerStep,
             CheckUsernameStep, CommitUserStep DEF Step, Busy
<1> QED BY <1>1, <1>2 DEF Next

\* The inductive invariant: requests have the arguments that their place needs,
\* and whoever is about to change a member was entitled to.
THEOREM Invariance == Spec => []IInv
  BY Initially, NextStep, PTL DEF Spec

\* No two users ever have the same username, ignoring case, however many
\* registrations race.
THEOREM UsernamesDifferAlways == Spec => []UsernamesDiffer
<1>1. IInv => UsernamesDiffer
  BY DEF IInv
<1> QED BY <1>1, Invariance, PTL

\* When a role changes, one request writes it.
LEMMA RoleChange ==
  ASSUME IInv, Next, NEW x \in User \X Org, role'[x] # role[x]
  PROVE  \E r \in Request :
           /\ ~Refuse(r, "error")
           /\ CommitOrganization(r) \/ CommitAdd(r) \/ CommitRemove(r) \/ CommitPatch(r)
<1>1. PICK r \in Request : Begin(r) \/ Step(r)
  BY DEF Next
<1>2. ~Refuse(r, "error")
  BY DEF Refuse, tables
<1>3. CASE Begin(r)
  BY <1>3 DEF Begin, PostUser, PostOrganization, AddUser, RemoveUser, PatchUser, Arrive, tables
<1>4. CASE Step(r) /\ ~(CommitOrganization(r) \/ CommitAdd(r) \/ CommitRemove(r) \/ CommitPatch(r))
  BY <1>4 DEF Step, FilterUser, ReadOrganization, ReadUser, ReadOwner, CheckUsername, CommitUser, Busy,
              Refuse, Continue, tables
<1> QED BY <1>1, <1>2, <1>3, <1>4

\* The members of an organization that exists are changed only by the system or by
\* someone who is or was one of its owners, although permissions may be stale.
THEOREM ChangedByOwnersAlways == Spec => ChangedByOwners
<1>1. ASSUME IInv, [Next]_vars
      PROVE  [\A x \in User \X Org : role'[x] # role[x] /\ x[2] \in orgs =>
                \E r \in Request : /\ pc[r] = "commit" /\ pc'[r] = "answered" /\ call[r].org = x[2]
                                   /\ ActorOf[r] = System \/ <<ActorOf[r], x[2]>> \in been]_vars
  <2> SUFFICES ASSUME Next, NEW x \in User \X Org, role'[x] # role[x], x[2] \in orgs
               PROVE  \E r \in Request :
                        /\ pc[r] = "commit" /\ pc'[r] = "answered" /\ call[r].org = x[2]
                        /\ ActorOf[r] = System \/ <<ActorOf[r], x[2]>> \in been
    BY <1>1
  <2>1. PICK r \in Request :
          /\ ~Refuse(r, "error")
          /\ CommitOrganization(r) \/ CommitAdd(r) \/ CommitRemove(r) \/ CommitPatch(r)
    BY <1>1, RoleChange
  <2>2. /\ pc[r] = "commit" /\ pc'[r] = "answered"
        /\ \E o \in Org, ro \in Role :
             SetRole(r, o, ro) /\ (o \notin orgs \/ (o = call[r].org /\ Entitled(r, o)))
    BY <1>1, <2>1, RoleWriters
  <2>3. PICK o \in Org, ro \in Role :
          SetRole(r, o, ro) /\ (o \notin orgs \/ (o = call[r].org /\ Entitled(r, o)))
    BY <2>2
  <2>4. x = <<call[r].user, o>>
    BY <1>1, <2>3 DEF SetRole, IInv, TypeOK, Roles
  <2>5. o = x[2]
    BY <2>4
  <2> QED BY <2>2, <2>3, <2>5 DEF Entitled, EverOwner
<1> QED BY <1>1, Invariance, PTL DEF Spec, ChangedByOwners

\* A role appears only by being added or with the organization, changes only by
\* PATCH and ends only by DELETE.
THEOREM RolesChangeAsAskedAlways == Spec => RolesChangeAsAsked
<1>1. ASSUME IInv, [Next]_vars
      PROVE  [\A x \in User \X Org : role'[x] # role[x] =>
                \E r \in Request :
                  /\ pc[r] = "commit" /\ call[r].user = x[1]
                  /\ IF role[x] = "none" THEN call[r].kind \in {"add", "found"}
                     ELSE IF role'[x] = "none" THEN call[r].kind = "remove"
                     ELSE call[r].kind = "set_owner"]_vars
  <2> SUFFICES ASSUME Next, NEW x \in User \X Org, role'[x] # role[x]
               PROVE  \E r \in Request :
                        /\ pc[r] = "commit" /\ call[r].user = x[1]
                        /\ IF role[x] = "none" THEN call[r].kind \in {"add", "found"}
                           ELSE IF role'[x] = "none" THEN call[r].kind = "remove"
                           ELSE call[r].kind = "set_owner"
    BY <1>1
  <2>1. PICK r \in Request :
          /\ ~Refuse(r, "error")
          /\ CommitOrganization(r) \/ CommitAdd(r) \/ CommitRemove(r) \/ CommitPatch(r)
    BY <1>1, RoleChange
  <2>2. pc[r] = "commit" /\ call[r].user \in User
    BY <1>1, <2>1, RoleWriters
  <2>3. PICK o \in Org, ro \in Role :
          /\ SetRole(r, o, ro)
          /\ \/ call[r].kind = "found" /\ o \notin orgs /\ ro = "owner"
             \/ /\ call[r].kind \in MemberKinds
                /\ call[r].kind = "add" => role[<<call[r].user, o>>] = "none"
                /\ call[r].kind = "set_owner" => role[<<call[r].user, o>>] # "none"
                /\ ro = "none" <=> call[r].kind = "remove"
    BY <1>1, <2>1, RoleWriters
  <2>4. x = <<call[r].user, o>> /\ role'[x] = ro
    BY <1>1, <2>3 DEF SetRole, IInv, TypeOK, Roles
  <2>5. call[r].user = x[1]
    BY <2>4
  <2>6. o \notin orgs => role[x] = "none"
    BY <1>1, <2>2, <2>4 DEF IInv, MembersOfOrganizations
  <2>7. IF role[x] = "none" THEN call[r].kind \in {"add", "found"}
        ELSE IF role'[x] = "none" THEN call[r].kind = "remove" ELSE call[r].kind = "set_owner"
    BY <2>3, <2>4, <2>6 DEF MemberKinds
  <2> QED BY <2>2, <2>5, <2>7
<1> QED BY <1>1, Invariance, PTL DEF Spec, RolesChangeAsAsked
-----------------------------------------------------------------------------
\* Every variable keeps its type.
THEOREM TypeCorrect == Spec => []TypeOK
<1>1. IInv => TypeOK
  BY DEF IInv
<1> QED BY <1>1, Invariance, PTL

\* A request that is about to change a member still holds the permission for it.
Permits == \A r \in Request : pc[r] \in {"user", "commit"} /\ call[r].kind \in MemberKinds => Permitted(r)

LEMMA AnswerPermits ==
  ASSUME IInv, Permits, NEW r \in Request, NEW s, Answer(r, s)
  PROVE  Permits'
<1>1. pc'[r] = "answered"
  BY DEF Answer, Goto, IInv, TypeOK
<1>2. \A q \in Request \ {r} : pc'[q] = pc[q] /\ call'[q] = call[q] /\ grant'[q] = grant[q]
  BY DEF Answer, Goto, IInv, TypeOK
<1> QED BY <1>1, <1>2 DEF Permits, Permitted

LEMMA PermitsStep ==
  ASSUME IInv, Permits, NEW r \in Request, Begin(r) \/ Step(r)
  PROVE  Permits'
<1>1. CASE \E s \in Status : Answer(r, s)
  BY <1>1, AnswerPermits
<1>2. ASSUME \A q \in Request \ {r} : pc'[q] = pc[q] /\ call'[q] = call[q] /\ grant'[q] = grant[q],
             pc'[r] \in {"user", "commit"} /\ call'[r].kind \in MemberKinds => grant'[r][call'[r].org] = "owner"
      PROVE  Permits'
  BY <1>2 DEF Permits, Permitted
<1> USE DEF IInv, TypeOK, Goto
<1>3. CASE Begin(r)
  <2>1. /\ pc'[r] \in {"check", "filter"}
        /\ \A q \in Request \ {r} : pc'[q] = pc[q] /\ call'[q] = call[q] /\ grant'[q] = grant[q]
    BY <1>3 DEF Begin, PostUser, PostOrganization, AddUser, RemoveUser, PatchUser, Arrive
  <2> QED BY <1>2, <2>1
<1>4. CASE FilterUser(r)
  <2>1. /\ pc'[r] \in {"owner", "organization"}
        /\ \A q \in Request \ {r} : pc'[q] = pc[q] /\ call'[q] = call[q] /\ grant'[q] = grant[q]
    BY <1>4 DEF FilterUser
  <2> QED BY <1>2, <2>1
<1>5. CASE ReadOrganization(r)
  <2>1. CASE Permitted(r) /\ Continue(r, "user")
    <3>1. call' = call /\ grant' = grant /\ \A q \in Request \ {r} : pc'[q] = pc[q]
      BY <2>1 DEF Continue
    <3> QED BY <1>2, <2>1, <3>1 DEF Permitted
  <2> QED BY <1>1, <1>5, <2>1 DEF ReadOrganization, Refuse, Status
<1>6. CASE ReadUser(r)
  <2>1. CASE Continue(r, "commit") /\ pc[r] = "user"
    BY <1>2, <2>1 DEF Continue, Permits, Permitted
  <2>2. ASSUME NEW u \in User, pc[r] = "user", call' = [call EXCEPT ![r].user = u], Goto(r, "commit"),
               grant' = grant
        PROVE  Permits'
    <3>1. call'[r].kind = call[r].kind /\ call'[r].org = call[r].org
      BY <2>2 DEF Calls
    <3>2. \A q \in Request \ {r} : pc'[q] = pc[q] /\ call'[q] = call[q] /\ grant'[q] = grant[q]
      BY <2>2
    <3> QED BY <1>2, <2>2, <3>1, <3>2 DEF Permits, Permitted
  <2> QED BY <1>1, <1>6, <2>1, <2>2 DEF ReadUser, Refuse, Status, Named, Registered
<1>7. CASE ReadOwner(r)
  <2>1. CASE Goto(r, "commit") /\ pc[r] = "owner" /\ call' = [call EXCEPT ![r].user = OwnerOf(r)] /\ grant' = grant
    <3>1. call[r].kind = "found"
      BY <2>1 DEF Arguments
    <3>2. call'[r].kind \notin MemberKinds
      BY <2>1, <3>1 DEF Calls, MemberKinds
    <3>3. \A q \in Request \ {r} : pc'[q] = pc[q] /\ call'[q] = call[q] /\ grant'[q] = grant[q]
      BY <2>1
    <3> QED BY <1>2, <3>2, <3>3
  <2> QED BY <1>1, <1>7, <2>1 DEF ReadOwner, Refuse, Status
<1>8. CASE CheckUsername(r)
  <2>1. CASE Continue(r, "commit") /\ pc[r] = "check"
    <3>1. call[r].kind \notin MemberKinds
      BY <2>1 DEF Arguments, MemberKinds
    <3> QED BY <1>2, <2>1, <3>1 DEF Continue
  <2> QED BY <1>1, <1>8, <2>1 DEF CheckUsername, Refuse, Status
<1>9. CASE CommitUser(r) \/ CommitOrganization(r) \/ CommitAdd(r) \/ CommitRemove(r) \/ CommitPatch(r) \/ Busy(r)
  <2>1. \E s \in Status : Answer(r, s)
    BY <1>9 DEF CommitUser, CommitOrganization, CommitAdd, CommitRemove, CommitPatch, Busy, Refuse, SetRole, Status
  <2> QED BY <1>1, <2>1
<1> QED BY <1>3, <1>4, <1>5, <1>6, <1>7, <1>8, <1>9 DEF Step

\* Whoever is about to change a member holds a permission to, as its token was checked.
THEOREM PermitsAlways == Spec => []Permits
<1>1. Init => Permits
  BY DEF Init, Permits
<1>2. IInv /\ Permits /\ [Next]_vars => Permits'
  <2>1. CASE UNCHANGED vars
    BY <2>1 DEF vars, Permits, Permitted
  <2> QED BY <2>1, PermitsStep DEF Next
<1> QED BY <1>1, <1>2, Invariance, PTL DEF Spec

\* Once an organization has no owner, and no request is under way that was checked
\* before, its members and their roles never change.
THEOREM OwnerlessStaysSoAlways == Spec => OwnerlessStaysSo
<1> DEFINE Ownerless(o) ==
      /\ \A u \in User : role[<<u, o>>] # "owner"
      /\ \A r \in Request : grant[r][o] # "owner"
      /\ o \in orgs
<1>1. ASSUME IInv, Permits, [Next]_vars, NEW o \in Org, Ownerless(o), NEW u \in User
      PROVE  role'[<<u, o>>] = role[<<u, o>>]
  <2> SUFFICES ASSUME role'[<<u, o>>] # role[<<u, o>>] PROVE FALSE
    OBVIOUS
  <2>1. Next
    BY <1>1 DEF vars
  <2>2. PICK r \in Request :
          /\ ~Refuse(r, "error")
          /\ CommitOrganization(r) \/ CommitAdd(r) \/ CommitRemove(r) \/ CommitPatch(r)
    BY <1>1, <2>1, RoleChange
  <2>3. /\ pc[r] = "commit"
        /\ \E p \in Org, ro \in Role :
             /\ SetRole(r, p, ro)
             /\ p \notin orgs \/ (p = call[r].org /\ call[r].kind \in MemberKinds)
    BY <1>1, <2>2, RoleWriters
  <2>4. PICK p \in Org, ro \in Role :
          SetRole(r, p, ro) /\ (p \notin orgs \/ (p = call[r].org /\ call[r].kind \in MemberKinds))
    BY <2>3
  <2>5. p = o
    BY <1>1, <2>4 DEF SetRole, IInv, TypeOK, Roles
  <2>6. grant[r][o] = "owner"
    BY <1>1, <2>3, <2>4, <2>5 DEF Permits, Permitted
  <2> QED BY <1>1, <2>6
<1>2. IInv /\ Permits /\ [Next]_vars =>
        [\A o \in Org : (\A u \in User : role[<<u, o>>] # "owner")
                        /\ (\A r \in Request : grant[r][o] # "owner") /\ o \in orgs =>
           \A u \in User : role'[<<u, o>>] = role[<<u, o>>]]_vars
  BY <1>1
<1> QED BY <1>2, Invariance, PermitsAlways, PTL DEF Spec, OwnerlessStaysSo
-----------------------------------------------------------------------------
(* Members: the invariant. *)

\* A visitor who may reach filter f: it is public or its own, and of an organization
\* the visitor was a member of.
MayReach(v, f) ==
  /\ saved[f].user \in {Nil, VisitorOf[v]}
  /\ VisitorOf[v] = System \/ <<VisitorOf[v], saved[f].org>> \in joined

\* A visitor whose token carries the right of an owner of organization o, and one who
\* was a member of it.
HadRight(v, o) == VisitorOf[v] = System \/ <<VisitorOf[v], o>> \in been
WasMember(v, o) == VisitorOf[v] = System \/ <<VisitorOf[v], o>> \in joined

Ending == {"unenroll", "drop"}

\* A visit that is about to end enrolments.
Ends(v) ==
  /\ vpc[v] = "group" \/ vpc[v] = "enrolment" \/ (vpc[v] = "commit" /\ visit[v].kind \in Ending) =>
       HadRight(v, visit[v].org)
  /\ vpc[v] = "enrolment" \/ (vpc[v] = "commit" /\ visit[v].kind \in Ending) =>
       WasMember(v, visit[v].group)

\* What a visit knows at each of its statements.
Progress(v) ==
  /\ vpc[v] \notin {"idle", "answered"} =>
       /\ visit[v].kind \in VisitKinds /\ visit[v].org \in Org
       /\ visit[v].kind \in {"enroll", "unenroll"} => visit[v].user \in User
       /\ visit[v].kind \in {"enroll", "unenroll", "drop"} => visit[v].group \in Org
       /\ visit[v].kind = "enroll" => visit[v].group = visit[v].org
       /\ visit[v].kind \in {"change", "discard"} => visit[v].filter \in SavedFilter
  /\ vpc[v] \in {"user", "visible"} => visit[v].kind = "enroll"
  /\ vpc[v] = "group" => visit[v].kind \in Ending
  /\ vpc[v] = "enrolment" => visit[v].kind = "unenroll"
  /\ vpc[v] = "saved" => visit[v].kind \in {"change", "discard"}
  /\ vpc[v] = "visible" \/ (vpc[v] = "commit" /\ visit[v].kind = "enroll") =>
       <<visit[v].user, visit[v].org>> \in joined
  /\ vpc[v] = "commit" /\ visit[v].kind \in {"change", "discard"} =>
       /\ visit[v].filter \in issued
       /\ saved[visit[v].filter] # Nil => MayReach(v, visit[v].filter)

\* Rights were owned when the token was checked.
Rightful(v) == \A o \in Org : rights[v][o] = "owner" => HadRight(v, o)

\* Histories and tables agree, and no filter has an ID that was not handed out.
Histories ==
  /\ Belonging(role) \subseteq joined
  /\ \A f \in SavedFilter : saved[f] # Nil => f \in issued

MInv ==
  /\ MTypeOK /\ Histories /\ EnrolledWereMembers
  /\ \A v \in Visit : Progress(v) /\ Ends(v) /\ Rightful(v)
-----------------------------------------------------------------------------
(* The composition implements Accounts. *)

LEMMA StepOfAccounts == [MNext]_mvars => [Next]_vars
  BY DEF MNext, mvars, AccountStep, VisitStep, Next

\* Whatever Accounts promises, it promises in the company of visits.
THEOREM ImplementsAccounts == MSpec => Spec
<1>1. MInit => Init
  BY DEF MInit
<1> QED BY <1>1, StepOfAccounts, PTL DEF MSpec, Spec

\* Two users never have usernames that differ in case alone, in this company either.
THEOREM UsernamesDifferAmongMembers == MSpec => []UsernamesDiffer
  BY ImplementsAccounts, UsernamesDifferAlways, PTL

LEMMA AccountsInvariant == MSpec => []IInv
  BY ImplementsAccounts, Invariance, PTL
-----------------------------------------------------------------------------
(* Steps of Accounts. *)

\* Who has owned an organization has owned it ever since.
LEMMA OwnersStay ==
  ASSUME IInv, NEW r \in Request, Begin(r) \/ Step(r) PROVE been \subseteq been'
<1>1. ASSUME NEW o, NEW ro, SetRole(r, o, ro) PROVE been \subseteq been'
  BY <1>1 DEF SetRole
<1>2. CASE UNCHANGED been
  BY <1>2
<1> QED BY <1>1, <1>2 DEF Begin, PostUser, PostOrganization, AddUser, RemoveUser, PatchUser, Arrive, Step, FilterUser,
     ReadOrganization, ReadUser, ReadOwner, CheckUsername, CommitUser, CommitOrganization, CommitAdd,
     CommitRemove, CommitPatch, Busy, Refuse, Continue

LEMMA OrganizationsAreOrg ==
  ASSUME IInv, NEW r \in Request, Begin(r) \/ Step(r) PROVE orgs' \subseteq Org
<1>1. TypeOK'
  BY NextStep DEF IInv, Next
<1> QED BY <1>1 DEF TypeOK

LEMMA AccountStepOK ==
  ASSUME IInv, MInv, NEW r \in Request, AccountStep(r)
  PROVE  MInv'
<1> USE DEF AccountStep
<1>1. /\ Begin(r) \/ Step(r)
      /\ enrolled' = enrolled \cup RootOwners /\ joined' = joined \cup Belonging(role')
      /\ roots' = roots \cup (orgs' \ orgs)
      /\ UNCHANGED <<saved, issued, vpc, visit, rights, plan>>
  BY DEF visits
<1>2. RootOwners \subseteq Belonging(role') /\ Belonging(role') \subseteq User \X Org
  BY DEF RootOwners, Belonging
<1> HIDE DEF AccountStep
<1>3. MTypeOK'
  BY <1>1, <1>2, OrganizationsAreOrg DEF MInv, MTypeOK
<1>4. Histories'
  BY <1>1 DEF MInv, Histories
<1>5. EnrolledWereMembers'
  BY <1>1, <1>2 DEF MInv, EnrolledWereMembers
<1>6. \A v \in Visit : Ends(v)' /\ Rightful(v)'
  BY <1>1, OwnersStay DEF MInv, Ends, Rightful, HadRight, WasMember
<1>7. \A v \in Visit : Progress(v)'
  BY <1>1 DEF MInv, Progress, MayReach
<1> QED BY <1>3, <1>4, <1>5, <1>6, <1>7 DEF MInv
-----------------------------------------------------------------------------
(* Visits. *)

\* A visit that is over, or only reads, leaves its own part of the invariant to show.
LEMMA QuietVisit ==
  ASSUME MInv, NEW v \in Visit, UNCHANGED <<vars, own, plan, joined>>, MTypeOK',
         \A w \in Visit \ {v} : vpc'[w] = vpc[w] /\ visit'[w] = visit[w] /\ rights'[w] = rights[w],
         Progress(v)', Ends(v)', Rightful(v)'
  PROVE  MInv'
<1>1. UNCHANGED <<role, been, enrolled, saved, issued>>
  BY DEF vars, own
<1>2. Histories' /\ EnrolledWereMembers'
  BY <1>1 DEF MInv, Histories, EnrolledWereMembers
<1>3. ASSUME NEW w \in Visit \ {v} PROVE Progress(w)' /\ Ends(w)' /\ Rightful(w)'
  <2>1. Progress(w)'
    BY <1>1, <1>3 DEF MInv, Progress, MayReach
  <2>2. Ends(w)' /\ Rightful(w)'
    BY <1>1, <1>3 DEF MInv, Ends, Rightful, HadRight, WasMember
  <2> QED BY <2>1, <2>2
<1> QED BY <1>2, <1>3 DEF MInv

LEMMA DoneStep ==
  ASSUME MInv, NEW v \in Visit, Done(v)
  PROVE  /\ vpc' \in [Visit -> VisitPhase] /\ visit' \in [Visit -> Visits]
         /\ rights' \in [Visit -> [Org -> Role]]
         /\ \A w \in Visit \ {v} : vpc'[w] = vpc[w] /\ visit'[w] = visit[w] /\ rights'[w] = rights[w]
         /\ vpc'[v] = "answered" /\ Ends(v)' /\ Rightful(v)'
<1>1. NoVisit \in Visits /\ NoGrant \in [Org -> Role]
  BY DEF NoVisit, Visits, NoGrant, Role
<1>2. /\ vpc' \in [Visit -> VisitPhase] /\ visit' \in [Visit -> Visits]
      /\ rights' \in [Visit -> [Org -> Role]]
      /\ \A w \in Visit \ {v} : vpc'[w] = vpc[w] /\ visit'[w] = visit[w] /\ rights'[w] = rights[w]
      /\ vpc'[v] = "answered" /\ rights'[v] = NoGrant
  BY <1>1 DEF Done, VGoto, MInv, MTypeOK, VisitPhase
<1>3. Ends(v)'
  BY <1>2 DEF Ends
<1>4. Rightful(v)'
  BY <1>2 DEF Rightful, NoGrant
<1> QED BY <1>2, <1>3, <1>4

LEMMA VRefuseStep ==
  ASSUME MInv, NEW v \in Visit, VRefuse(v), UNCHANGED <<vars, plan, joined>> PROVE MInv'
<1>1. MTypeOK' /\ Progress(v)'
  BY DoneStep DEF VRefuse, MInv, MTypeOK, own, Progress
<1> QED BY <1>1, DoneStep, QuietVisit DEF VRefuse

LEMMA VContinueStep ==
  ASSUME MInv, NEW v \in Visit, NEW p \in VisitPhase, VContinue(v, p), UNCHANGED <<vars, plan, joined>>,
         Progress(v)', Ends(v)'
  PROVE  MInv'
<1>1. MTypeOK'
  BY DEF VContinue, VGoto, MInv, MTypeOK, own
<1>2. \A w \in Visit \ {v} : vpc'[w] = vpc[w] /\ visit'[w] = visit[w] /\ rights'[w] = rights[w]
  BY DEF VContinue, VGoto, MInv, MTypeOK
<1>3. Rightful(v)'
  BY DEF VContinue, MInv, Rightful, HadRight, vars
<1> QED BY <1>1, <1>2, <1>3, QuietVisit DEF VContinue

LEMMA ApproachStep ==
  ASSUME MInv, NEW v \in Visit, Approach(v), UNCHANGED <<vars, plan, joined>> PROVE MInv'
<1>1. PICK k \in VisitKinds, o \in Org, g \in Org \cup {Nil}, u \in User \cup {Nil},
           f \in SavedFilter \cup {Nil} :
        /\ Call(v, k, o, g, u, f)
        /\ k \in {"enroll", "unenroll"} => u \in User
        /\ k \in {"enroll", "unenroll", "drop"} => g \in Org
        /\ k = "enroll" => g = o
        /\ k \in {"change", "discard"} => f \in SavedFilter
  BY DEF Approach, PostUserGroup, DeleteGroupUser, DeleteGroup, PostFilter, PatchFilter, DeleteFilter,
         VisitKinds
<1>2. /\ visit' = [visit EXCEPT ![v] = [kind |-> k, org |-> o, group |-> g, user |-> u, filter |-> f]]
      /\ VGoto(v, "filter") /\ rights' = rights
  BY <1>1 DEF Call
<1>3. MTypeOK'
  BY <1>1, <1>2 DEF Call, VGoto, MInv, MTypeOK, own, Visits, VisitPhase
<1>4. \A w \in Visit \ {v} : vpc'[w] = vpc[w] /\ visit'[w] = visit[w] /\ rights'[w] = rights[w]
  BY <1>2 DEF VGoto, MInv, MTypeOK
<1>5. Progress(v)'
  BY <1>1, <1>2 DEF VGoto, MInv, MTypeOK, Progress, Ending
<1>6. Ends(v)' /\ Rightful(v)'
  BY <1>2 DEF VGoto, MInv, MTypeOK, Ends, Rightful, HadRight, vars
<1> QED BY <1>1, <1>3, <1>4, <1>5, <1>6, QuietVisit DEF Call

LEMMA VFilterUserStep ==
  ASSUME IInv, MInv, NEW v \in Visit, VFilterUser(v), UNCHANGED <<vars, plan, joined>> PROVE MInv'
<1>1. RolesOf(VisitorOf[v]) \in [Org -> Role]
  BY MembersAssumption DEF RolesOf, IInv, TypeOK, Roles, Role
<1>2. MTypeOK'
  BY <1>1 DEF VFilterUser, VGoto, MInv, MTypeOK, own, VisitPhase
<1>3. Progress(v)' /\ Ends(v)'
  BY DEF VFilterUser, VGoto, MInv, MTypeOK, Progress, Ends
<1>4. \A w \in Visit \ {v} : vpc'[w] = vpc[w] /\ visit'[w] = visit[w] /\ rights'[w] = rights[w]
  BY DEF VFilterUser, VGoto, MInv, MTypeOK
<1>5. Rightful(v)'
  <2> SUFFICES ASSUME NEW o \in Org, rights'[v][o] = "owner" PROVE HadRight(v, o)'
    BY DEF Rightful
  <2>1. RolesOf(VisitorOf[v])[o] = "owner" /\ been' = been
    BY DEF VFilterUser, MInv, MTypeOK, vars
  <2>2. CASE VisitorOf[v] # System
    <3>1. VisitorOf[v] \in User /\ role[<<VisitorOf[v], o>>] = "owner"
      BY <2>1, <2>2, MembersAssumption DEF RolesOf
    <3> QED BY <2>1, <3>1 DEF HadRight, IInv, RightsWereGiven, Owners
  <2> QED BY <2>2 DEF HadRight
<1> QED BY <1>2, <1>3, <1>4, <1>5, QuietVisit DEF VFilterUser

\* Rows of an organization that the masked table shows are a member's, or the system's.
LEMMA MaskedRowsOfMembers ==
  ASSUME MInv, NEW v \in Visit, NEW o \in Org, MaskedRows(VisitorOf[v], o) > 0
  PROVE  WasMember(v, o)
<1>1. CASE \E u \in User : role[<<u, o>>] # "none" /\ VisitorOf[v] \in {u, System}
  BY <1>1 DEF WasMember, MInv, Histories, Belonging
<1>2. CASE \A u \in User : ~(role[<<u, o>>] # "none" /\ VisitorOf[v] \in {u, System})
  <2>1. {u \in User : o \in orgs /\ role[<<u, o>>] # "none" /\ VisitorOf[v] \in {u, System}} = {}
    BY <1>2
  <2>2. MaskedRows(VisitorOf[v], o) = 0
    BY <2>1, FS_EmptySet DEF MaskedRows
  <2> QED BY <2>2
<1> QED BY <1>1, <1>2

\* The statements before the handler let a visit on that may go on.
LEMMA VReadOrganizationStep ==
  ASSUME MInv, NEW v \in Visit, UNCHANGED <<vars, plan, joined>>, VReadOrganization(v) PROVE MInv'
<1>1. CASE VRefuse(v)
  BY <1>1, VRefuseStep
<1>2. CASE vpc[v] = "organization" /\ VPermitted(v) /\ VContinue(v, Lookup(visit[v].kind))
  <2>1. visit[v].kind \in VisitKinds /\ visit[v].org \in Org
    BY <1>2 DEF MInv, Progress
  <2>2. Lookup(visit[v].kind) \in VisitPhase
    BY <2>1 DEF Lookup, VisitKinds, VisitPhase
  <2>3. Progress(v)'
    BY <1>2, <2>1 DEF VContinue, VGoto, Lookup, VisitKinds, Ending, own, MInv, MTypeOK, Progress
  <2>4. HadRight(v, visit[v].org)
    BY <1>2, <2>1 DEF VPermitted, MInv, Rightful
  <2>5. vpc'[v] # "enrolment" /\ ~(vpc'[v] = "commit" /\ visit[v].kind \in Ending)
    BY <1>2, <2>1 DEF VContinue, VGoto, Lookup, VisitKinds, Ending, MInv, MTypeOK
  <2>6. Ends(v)'
    BY <1>2, <2>4, <2>5 DEF VContinue, Ends, HadRight, vars
  <2> QED BY <1>2, <2>2, <2>3, <2>6, VContinueStep
<1> QED BY <1>1, <1>2 DEF VReadOrganization

LEMMA VReadUserStep ==
  ASSUME MInv, NEW v \in Visit, UNCHANGED <<vars, plan, joined>>, VReadUser(v) PROVE MInv'
<1>1. CASE VRefuse(v)
  BY <1>1, VRefuseStep
<1>2. CASE vpc[v] = "user" /\ role[<<visit[v].user, visit[v].org>>] # "none" /\ VContinue(v, "visible")
  <2>1. <<visit[v].user, visit[v].org>> \in joined /\ visit[v].group = visit[v].org
    BY <1>2 DEF MInv, Progress, Histories, Belonging, VisitKinds
  <2>2. Progress(v)'
    BY <1>2, <2>1 DEF VContinue, VGoto, own, MInv, MTypeOK, Progress
  <2>3. Ends(v)'
    BY <1>2 DEF VContinue, VGoto, MInv, MTypeOK, Ends
  <2> QED BY <1>2, <2>2, <2>3, VContinueStep DEF VisitPhase
<1> QED BY <1>1, <1>2 DEF VReadUser

LEMMA VReadVisibleStep ==
  ASSUME MInv, NEW v \in Visit, UNCHANGED <<vars, plan, joined>>, VReadVisible(v) PROVE MInv'
<1>1. CASE VRefuse(v)
  BY <1>1, VRefuseStep
<1>2. CASE vpc[v] = "visible" /\ VContinue(v, "commit")
  <2>1. Progress(v)'
    BY <1>2 DEF VContinue, VGoto, own, MInv, MTypeOK, Progress
  <2>2. Ends(v)'
    BY <1>2 DEF VContinue, VGoto, MInv, MTypeOK, Progress, Ends, Ending
  <2> QED BY <1>2, <2>1, <2>2, VContinueStep DEF VisitPhase
<1> QED BY <1>1, <1>2 DEF VReadVisible

\* The group is of an organization of the visitor.
LEMMA VReadGroupStep ==
  ASSUME MInv, NEW v \in Visit, UNCHANGED <<vars, plan, joined>>, VReadGroup(v) PROVE MInv'
<1>1. CASE VRefuse(v)
  BY <1>1, VRefuseStep
<1>2. CASE vpc[v] = "group" /\ GroupFound(v)
           /\ VContinue(v, IF visit[v].kind = "drop" THEN "commit" ELSE "enrolment")
  <2> DEFINE p == IF visit[v].kind = "drop" THEN "commit" ELSE "enrolment"
  <2>1. visit[v].kind \in Ending /\ visit[v].group \in Org /\ HadRight(v, visit[v].org)
    BY <1>2 DEF MInv, Progress, Ends, Ending
  <2>2. WasMember(v, visit[v].group)
    BY <1>2, <2>1, MaskedRowsOfMembers DEF GroupFound
  <2>3. Progress(v)'
    BY <1>2, <2>1 DEF VContinue, VGoto, own, MInv, MTypeOK, Progress, Ending
  <2>4. Ends(v)'
    BY <1>2, <2>1, <2>2 DEF VContinue, Ends, HadRight, WasMember, vars
  <2> QED BY <1>2, <2>3, <2>4, VContinueStep DEF VisitPhase
<1> QED BY <1>1, <1>2 DEF VReadGroup

LEMMA VReadEnrolmentStep ==
  ASSUME MInv, NEW v \in Visit, UNCHANGED <<vars, plan, joined>>, VReadEnrolment(v) PROVE MInv'
<1>1. CASE VRefuse(v)
  BY <1>1, VRefuseStep
<1>2. CASE vpc[v] = "enrolment" /\ VContinue(v, "commit")
  <2>1. Progress(v)'
    BY <1>2 DEF VContinue, VGoto, own, MInv, MTypeOK, Progress
  <2>2. Ends(v)'
    BY <1>2 DEF VContinue, MInv, Ends, HadRight, WasMember, vars
  <2> QED BY <1>2, <2>1, <2>2, VContinueStep DEF VisitPhase
<1> QED BY <1>1, <1>2 DEF VReadEnrolment

LEMMA VReadFilterStep ==
  ASSUME MInv, NEW v \in Visit, UNCHANGED <<vars, plan, joined>>, VReadFilter(v) PROVE MInv'
<1>1. CASE VRefuse(v)
  BY <1>1, VRefuseStep
<1>2. CASE vpc[v] = "saved" /\ Reachable(v, visit[v].filter) /\ VContinue(v, "commit")
  <2> DEFINE f == visit[v].filter
  <2>1. /\ f \in SavedFilter /\ saved[f] # Nil /\ f \in issued /\ saved[f].org \in Org
        /\ visit[v].kind \in {"change", "discard"}
    BY <1>2 DEF MInv, MTypeOK, Row, Progress, Reachable, Histories
  <2>2. MayReach(v, f)
    BY <1>2, <2>1, MaskedRowsOfMembers DEF Reachable, MayReach, WasMember
  <2>3. Progress(v)'
    BY <1>2, <2>1, <2>2 DEF VContinue, VGoto, own, MInv, MTypeOK, Progress, MayReach
  <2>4. Ends(v)'
    BY <1>2, <2>1 DEF VContinue, VGoto, MInv, MTypeOK, Ends, Ending
  <2> QED BY <1>2, <2>3, <2>4, VContinueStep DEF VisitPhase
<1> QED BY <1>1, <1>2 DEF VReadFilter
-----------------------------------------------------------------------------
(* Transactions of visits. *)

\* A transaction leaves what other visits know of rights and members.
LEMMA DoneLeaves ==
  ASSUME MInv, NEW v \in Visit, Done(v), UNCHANGED <<vars, joined>>, NEW w \in Visit
  PROVE  Ends(w)' /\ Rightful(w)'
<1>1. CASE w = v
  BY <1>1, DoneStep
<1>2. CASE w # v
  <2>1. /\ vpc'[w] = vpc[w] /\ visit'[w] = visit[w] /\ rights'[w] = rights[w]
        /\ UNCHANGED <<been, joined>> /\ Ends(w) /\ Rightful(w)
    BY <1>2, DoneStep DEF MInv, vars
  <2> QED BY <2>1 DEF Ends, Rightful, HadRight, WasMember
<1> QED BY <1>1, <1>2

LEMMA EnrolmentStep ==
  ASSUME MInv, NEW v \in Visit, UNCHANGED <<vars, plan, joined>>, ~VRefuse(v),
         CommitEnrolment(v) \/ CommitWithdrawal(v) \/ CommitDrop(v)
  PROVE  MInv'
<1> DEFINE x == <<visit[v].user, visit[v].group>>
<1>1. /\ Done(v) /\ UNCHANGED <<saved, issued>> /\ roots' \subseteq roots
      /\ \/ enrolled' = enrolled \cup {x} /\ x \in joined
         \/ enrolled' \subseteq enrolled
  BY DEF CommitEnrolment, CommitWithdrawal, CommitDrop, MInv, Progress
<1>2. UNCHANGED role
  BY DEF vars
<1>3. MTypeOK'
  BY <1>1, DoneStep DEF MInv, MTypeOK
<1>4. Histories' /\ EnrolledWereMembers'
  <2>1. EnrolledWereMembers'
    BY <1>1 DEF MInv, EnrolledWereMembers
  <2>2. Histories'
    BY <1>1, <1>2 DEF MInv, Histories, Belonging
  <2> QED BY <2>1, <2>2
<1>5. ASSUME NEW w \in Visit PROVE Progress(w)'
  <2>1. CASE w = v
    BY <1>1, <2>1, DoneStep DEF Progress
  <2>2. CASE w # v
    <3>1. vpc'[w] = vpc[w] /\ visit'[w] = visit[w] /\ Progress(w)
      BY <1>1, <2>2, DoneStep DEF MInv
    <3> QED BY <1>1, <3>1 DEF Progress, MayReach
  <2> QED BY <2>1, <2>2
<1> QED BY <1>1, <1>3, <1>4, <1>5, DoneLeaves DEF MInv

\* A new filter has a new ID: no visit that names one names this.
LEMMA FilterStep ==
  ASSUME MInv, NEW v \in Visit, UNCHANGED <<vars, plan, joined>>, ~VRefuse(v),
         CommitFilter(v) \/ CommitChange(v) \/ CommitDiscard(v)
  PROVE  MInv'
<1>1. UNCHANGED <<role, orgs>>
  BY DEF vars
<1>2. Done(v) /\ UNCHANGED <<roots, enrolled>>
  BY DEF CommitFilter, Insert, CommitChange, CommitDiscard
<1>3. EnrolledWereMembers' /\ Belonging(role)' \subseteq joined' /\ \A w \in Visit : Ends(w)' /\ Rightful(w)'
  BY <1>1, <1>2, DoneLeaves DEF MInv, EnrolledWereMembers, Histories
<1>4. CASE CommitFilter(v)
  <2>1. PICK f \in SavedFilter \ issued :
          /\ saved' = [saved EXCEPT ![f] = [org |-> visit[v].org, user |-> visit[v].user, text |-> "saved"]]
          /\ issued' = issued \cup {f}
    BY <1>4 DEF CommitFilter, Insert
  <2>2. visit[v].org \in Org /\ visit[v].user \in User \cup {Nil}
    BY <1>4 DEF CommitFilter, MInv, Progress, MTypeOK, Visits
  <2>3. MTypeOK'
    BY <1>2, <2>1, <2>2, DoneStep DEF MInv, MTypeOK, Row
  <2>4. Histories'
    BY <1>3, <2>1 DEF MInv, MTypeOK, Histories
  <2>5. ASSUME NEW w \in Visit PROVE Progress(w)'
    <3>1. CASE w = v
      BY <1>2, <3>1, DoneStep DEF Progress
    <3>2. CASE w # v
      <4>1. vpc'[w] = vpc[w] /\ visit'[w] = visit[w] /\ joined' = joined /\ Progress(w)
        BY <1>2, <3>2, DoneStep DEF MInv
      <4>2. ASSUME NEW g \in issued PROVE saved'[g] = saved[g] /\ g \in issued'
        BY <2>1 DEF MInv, MTypeOK
      <4>3. ASSUME vpc[w] = "commit", visit[w].kind \in {"change", "discard"}
            PROVE  /\ visit[w].filter \in issued'
                   /\ saved'[visit[w].filter] # Nil => MayReach(w, visit[w].filter)'
        BY <4>1, <4>2, <4>3 DEF Progress, MayReach
      <4> QED BY <4>1, <4>3 DEF Progress
    <3> QED BY <3>1, <3>2
  <2> QED BY <1>3, <2>3, <2>4, <2>5 DEF MInv
<1>5. CASE CommitChange(v) \/ CommitDiscard(v)
  <2> DEFINE f == visit[v].filter
  <2>1. /\ f \in SavedFilter /\ f \in issued /\ UNCHANGED issued
        /\ \/ saved[f] # Nil /\ saved' = [saved EXCEPT ![f].text = "changed"]
           \/ saved' = [saved EXCEPT ![f] = Nil]
    BY <1>5 DEF CommitChange, CommitDiscard, MInv, Progress
  <2>2. /\ \A g \in SavedFilter : saved'[g] # Nil =>
             saved[g] # Nil /\ saved'[g].user = saved[g].user /\ saved'[g].org = saved[g].org
        /\ saved' \in [SavedFilter -> Row \cup {Nil}]
    <3>1. saved \in [SavedFilter -> Row \cup {Nil}]
      BY DEF MInv, MTypeOK
    <3> QED BY <2>1, <3>1 DEF Row
  <2> HIDE DEF f
  <2>3. MTypeOK'
    BY <1>2, <2>1, <2>2, DoneStep DEF MInv, MTypeOK
  <2>4. Histories'
    BY <1>3, <2>1, <2>2 DEF MInv, MTypeOK, Histories
  <2>5. ASSUME NEW w \in Visit PROVE Progress(w)'
    <3>1. CASE w = v
      BY <1>2, <3>1, DoneStep DEF Progress
    <3>2. CASE w # v
      <4>1. vpc'[w] = vpc[w] /\ visit'[w] = visit[w] /\ joined' = joined /\ Progress(w)
        BY <1>2, <3>2, DoneStep DEF MInv
      <4>2. ASSUME vpc[w] = "commit", visit[w].kind \in {"change", "discard"}
            PROVE  /\ visit[w].filter \in issued'
                   /\ saved'[visit[w].filter] # Nil => MayReach(w, visit[w].filter)'
        <5>1. visit[w].filter \in SavedFilter /\ visit[w].filter \in issued
              /\ (saved[visit[w].filter] # Nil => MayReach(w, visit[w].filter))
          BY <4>1, <4>2 DEF Progress, VisitPhase
        <5> QED BY <2>1, <2>2, <4>1, <5>1 DEF MayReach
      <4> QED BY <4>1, <4>2 DEF Progress
    <3> QED BY <3>1, <3>2
  <2> QED BY <1>3, <2>3, <2>4, <2>5 DEF MInv
<1> QED BY <1>4, <1>5
-----------------------------------------------------------------------------
LEMMA MInitially == MInit => MInv
<1> SUFFICES ASSUME MInit PROVE MInv
  OBVIOUS
<1> USE MembersAssumption DEF MInit
<1>1. role \in SeedRoles /\ orgs = {o \in Org : \E u \in User : role[<<u, o>>] # "none"}
  BY DEF Init
<1>2. MTypeOK
  <2>1. NoVisit \in Visits /\ NoGrant \in [Org -> Role] /\ "idle" \in VisitPhase
    BY DEF VisitPhase, Visits, NoVisit, NoGrant, Role
  <2>2. roots \subseteq Org /\ joined \subseteq User \X Org
    BY <1>1 DEF Belonging
  <2>3. issued \subseteq SavedFilter /\ plan \in Plans
    OBVIOUS
  <2> QED BY <2>1, <2>2, <2>3 DEF MTypeOK
<1>3. Histories
  BY DEF Histories
<1>4. EnrolledWereMembers
  BY <1>1 DEF EnrolledWereMembers, Belonging
<1>5. \A v \in Visit : Progress(v)
  BY DEF Progress
<1>6. \A v \in Visit : Ends(v) /\ Rightful(v)
  BY DEF Ends, Rightful, NoGrant
<1> QED BY <1>2, <1>3, <1>4, <1>5, <1>6 DEF MInv

LEMMA MNextStep == ASSUME IInv, MInv, [MNext]_mvars PROVE MInv'
<1>1. CASE UNCHANGED mvars
  <2>1. UNCHANGED <<role, been, roots, enrolled, saved, issued, vpc, visit, rights, plan, joined>>
    BY <1>1 DEF mvars, vars
  <2>2. MTypeOK' /\ Histories' /\ EnrolledWereMembers'
    BY <2>1 DEF MInv, MTypeOK, Histories, EnrolledWereMembers
  <2>3. \A v \in Visit : Progress(v)'
    BY <2>1 DEF MInv, Progress, MayReach
  <2>4. \A v \in Visit : Ends(v)' /\ Rightful(v)'
    BY <2>1 DEF MInv, Ends, Rightful, HadRight, WasMember
  <2> QED BY <2>2, <2>3, <2>4 DEF MInv
<1>2. ASSUME NEW v \in Visit, VisitStep(v) PROVE MInv'
  <2>1. CASE VRefuse(v)
    BY <1>2, <2>1, VRefuseStep DEF VisitStep
  <2> QED BY <1>2, <2>1, ApproachStep, VFilterUserStep, VReadOrganizationStep, VReadUserStep,
          VReadVisibleStep, VReadGroupStep, VReadEnrolmentStep, VReadFilterStep, EnrolmentStep, FilterStep
          DEF VisitStep, VStep, VBusy
<1> QED BY <1>1, <1>2, AccountStepOK DEF MNext

\* The inductive invariant: a visit knows what its statements have established, and
\* nobody else can take it back.
THEOREM MInvariance == MSpec => []MInv
<1>1. IInv /\ MInv /\ [MNext]_mvars => MInv'
  BY MNextStep
<1> QED BY <1>1, MInitially, AccountsInvariant, PTL DEF MSpec

\* Every variable keeps its type.
THEOREM MembersTypeCorrect == MSpec => []MTypeOK
<1>1. MInv => MTypeOK
  BY DEF MInv
<1> QED BY <1>1, MInvariance, PTL

\* Whoever is in a group is or was a member of its organization.
THEOREM EnrolledWereMembersAlways == MSpec => []EnrolledWereMembers
<1>1. MInv => EnrolledWereMembers
  BY DEF MInv
<1> QED BY <1>1, MInvariance, PTL

\* Nobody is taken out of a root group, and none is deleted, but for the system or for
\* someone who had the right in the organization it named and belonged to the group's.
THEOREM EnrolmentsEndByInsidersAlways == MSpec => EnrolmentsEndByInsiders
<1> DEFINE ByInsider(x) == \E v \in Visit :
       /\ vpc[v] = "commit" /\ vpc'[v] = "answered" /\ visit[v].group = x[2]
       /\ \/ VisitorOf[v] = System
          \/ <<VisitorOf[v], visit[v].org>> \in been /\ <<VisitorOf[v], x[2]>> \in joined
<1>1. ASSUME MInv, MNext, NEW x \in enrolled, x \notin enrolled'
      PROVE  ByInsider(x)
  <2>1. x \in User \X Org
    BY <1>1 DEF MInv, MTypeOK
  <2>2. PICK v \in Visit : ~VRefuse(v) /\ (CommitEnrolment(v) \/ CommitWithdrawal(v) \/ CommitDrop(v))
    <3>1. PICK v \in Visit : VisitStep(v) /\ ~VRefuse(v)
      BY <1>1 DEF MNext, AccountStep, VRefuse, own
    <3> QED BY <1>1, <3>1 DEF VisitStep, Approach, PostUserGroup, DeleteGroupUser, DeleteGroup, PostFilter,
              PatchFilter, DeleteFilter, Call, VStep, VFilterUser, VReadOrganization, VReadUser, VReadVisible,
              VReadGroup, VReadEnrolment, VReadFilter, CommitFilter, Insert, CommitChange, CommitDiscard,
              VBusy, VContinue, own
  <2>3. /\ vpc[v] = "commit" /\ visit[v].kind \in Ending /\ Done(v)
        /\ visit[v].group = x[2]
    BY <1>1, <2>1, <2>2 DEF CommitEnrolment, CommitWithdrawal, CommitDrop, Ending
  <2>4. HadRight(v, visit[v].org) /\ WasMember(v, visit[v].group)
    BY <1>1, <2>3 DEF MInv, Ends
  <2>5. vpc'[v] = "answered"
    BY <1>1, <2>3, DoneStep
  <2> QED BY <2>3, <2>4, <2>5 DEF HadRight, WasMember
<1>2. MInv /\ [MNext]_mvars => [\A x \in enrolled \ enrolled' : ByInsider(x)]_mvars
  BY <1>1
<1> QED BY <1>2, MInvariance, PTL DEF MSpec, EnrolmentsEndByInsiders

\* Filters are changed only for those who may, although they are looked up before
\* the transaction; their user and organization never change.
THEOREM FiltersStayTheirsAlways == MSpec => FiltersStayTheirs
<1> DEFINE Theirs == \A f \in SavedFilter : saved[f] # Nil /\ saved'[f] # saved[f] =>
       /\ saved'[f] # Nil => saved'[f].org = saved[f].org /\ saved'[f].user = saved[f].user
       /\ \E v \in Visit :
            /\ vpc[v] = "commit" /\ vpc'[v] = "answered" /\ visit[v].filter = f
            /\ saved[f].user \in {Nil, VisitorOf[v]}
            /\ VisitorOf[v] = System \/ <<VisitorOf[v], saved[f].org>> \in joined
<1>1. ASSUME MInv, [MNext]_mvars PROVE [Theirs]_mvars
  <2> SUFFICES ASSUME MNext, NEW f \in SavedFilter, saved[f] # Nil, saved'[f] # saved[f]
               PROVE  /\ saved'[f] # Nil => saved'[f].org = saved[f].org /\ saved'[f].user = saved[f].user
                      /\ \E v \in Visit :
                           /\ vpc[v] = "commit" /\ vpc'[v] = "answered" /\ visit[v].filter = f
                           /\ saved[f].user \in {Nil, VisitorOf[v]}
                           /\ VisitorOf[v] = System \/ <<VisitorOf[v], saved[f].org>> \in joined
    BY <1>1
  <2>1. PICK v \in Visit : CommitFilter(v) \/ CommitChange(v) \/ CommitDiscard(v)
    BY DEF MNext, AccountStep, VisitStep, Approach, PostUserGroup, DeleteGroupUser, DeleteGroup, PostFilter,
       PatchFilter, DeleteFilter, Call, VStep, VFilterUser, VReadOrganization, VReadUser, VReadVisible,
       VReadGroup, VReadEnrolment, VReadFilter, CommitEnrolment, CommitWithdrawal, CommitDrop, VBusy, VRefuse, VContinue, own
  <2>2. ~VRefuse(v)
    BY DEF VRefuse, own
  <2>3. CASE CommitFilter(v)
    <3>1. PICK g \in SavedFilter \ issued : Insert(v, g)
      BY <2>2, <2>3 DEF CommitFilter
    <3>2. f # g
      BY <1>1, <3>1 DEF MInv, Histories
    <3> QED BY <1>1, <3>1, <3>2 DEF Insert, MInv, MTypeOK
  <2>4. CASE CommitChange(v) \/ CommitDiscard(v)
    <3>1. /\ vpc[v] = "commit" /\ Done(v) /\ visit[v].kind \in {"change", "discard"}
          /\ \/ saved' = [saved EXCEPT ![visit[v].filter].text = "changed"]
             \/ saved' = [saved EXCEPT ![visit[v].filter] = Nil]
      BY <2>2, <2>4 DEF CommitChange, CommitDiscard
    <3>2. visit[v].filter = f
      BY <1>1, <3>1 DEF MInv, MTypeOK
    <3>3. vpc'[v] = "answered"
      BY <1>1, <3>1, DoneStep
    <3>4. MayReach(v, f)
      BY <1>1, <3>1, <3>2 DEF MInv, Progress
    <3>5. saved'[f] # Nil => saved'[f].org = saved[f].org /\ saved'[f].user = saved[f].user
      BY <1>1, <3>1, <3>2 DEF MInv, MTypeOK, Row
    <3> QED BY <3>1, <3>2, <3>3, <3>4, <3>5 DEF MayReach
  <2> QED BY <2>1, <2>3, <2>4
<1> QED BY <1>1, MInvariance, PTL DEF MSpec, FiltersStayTheirs
=============================================================================

------------------------------ MODULE Members ------------------------------
(***************************************************************************)
(* What the members of an organization have in it, composed with Accounts: *)
(* their enrolment in its root group, with which they see all the others,  *)
(* and the filters they save.  The requests of Accounts and the visits of  *)
(* this module share the tables of users and memberships and nothing else. *)
(* Removing a member touches neither enrolments nor filters.  The root     *)
(* group goes by DELETE like any other, and its enrolments with it.        *)
(*                                                                         *)
(* GroupTree has the groups below the root.  Reading groups and filters    *)
(* changes nothing and is not an action.                                   *)
(***************************************************************************)
EXTENDS Accounts

CONSTANTS SavedFilter, \* IDs of rows of table filter
          Visit,       \* the requests of this module
          MayVisit,    \* MayVisit[v]: the endpoints that v may call
          VisitorOf,   \* VisitorOf[v]: the user whose token v carries
          SeedEnrolled, SeedFilters,
          Plans        \* sets of requests and visits that are made together

VisitKinds == {"enroll", "unenroll", "drop", "save", "change", "discard"}
Row == [org: Org, user: User \cup {Nil}, text: {"saved", "changed"}]

ASSUME MembersAssumption ==
  /\ MayVisit \in [Visit -> SUBSET VisitKinds] /\ VisitorOf \in [Visit -> User \cup {System}]
  /\ Nil \notin Row /\ Nil \notin SavedFilter
  /\ SeedFilters \in [SavedFilter -> Row \cup {Nil}]
  /\ SeedEnrolled \subseteq User \X Org
  /\ \A ro \in SeedRoles, x \in SeedEnrolled : ro[x] # "none"

VARIABLES roots,    \* organizations whose root group is there
          enrolled, \* user_group_map: pairs of a user and the organization of a root group
          saved,    \* saved[f]: row f of table filter, or Nil
          issued,   \* filter IDs handed out (autoIncrement)
          vpc,
          visit,    \* visit[v]: endpoint, and what v names: the organization of the path, the
                    \* organization of the group, the user and the filter
          rights,   \* rights[v]: the visitor's role in each organization, as read
          plan,     \* the requests and visits of this behaviour
          joined    \* history: pairs of a user and an organization it was a member of

own == <<roots, enrolled, saved, issued>>
visits == <<vpc, visit, rights>>
mvars == <<vars, roots, enrolled, saved, issued, vpc, visit, rights, plan, joined>>

VisitPhase == {"idle", "filter", "organization", "user", "visible", "group", "enrolment", "saved", "commit", "answered"}
Visits == [kind: VisitKinds \cup {Nil}, org: Org \cup {Nil}, group: Org \cup {Nil}, user: User \cup {Nil},
           filter: SavedFilter \cup {Nil}]
NoVisit == [kind |-> Nil, org |-> Nil, group |-> Nil, user |-> Nil, filter |-> Nil]
Belonging(ro) == {x \in User \X Org : ro[x] # "none"}
-----------------------------------------------------------------------------
MInit ==
  /\ Init /\ roots = orgs /\ enrolled = SeedEnrolled /\ saved = SeedFilters
  /\ issued = {f \in SavedFilter : SeedFilters[f] # Nil}
  /\ vpc = [v \in Visit |-> "idle"] /\ visit = [v \in Visit |-> NoVisit]
  /\ rights = [v \in Visit |-> NoGrant]
  /\ plan \in Plans /\ joined = Belonging(role)

VGoto(v, p) == vpc' = [vpc EXCEPT ![v] = p]

Done(v) ==
  /\ VGoto(v, "answered") /\ visit' = [visit EXCEPT ![v] = NoVisit]
  /\ rights' = [rights EXCEPT ![v] = NoGrant]
VRefuse(v) == Done(v) /\ UNCHANGED own
VContinue(v, p) == VGoto(v, p) /\ UNCHANGED <<visit, rights, own>>

Call(v, k, o, g, u, f) ==
  /\ k \in MayVisit[v] /\ vpc[v] = "idle" /\ VisitorOf[v] \in Registered \cup {System}
  /\ visit' = [visit EXCEPT ![v] = [kind |-> k, org |-> o, group |-> g, user |-> u, filter |-> f]]
  /\ VGoto(v, "filter") /\ UNCHANGED <<rights, own>>

PostUserGroup(v, o, u) == Call(v, "enroll", o, o, u, Nil)
DeleteGroupUser(v, o, g, u) == Call(v, "unenroll", o, g, u, Nil)
DeleteGroup(v, o, g) == Call(v, "drop", o, g, Nil, Nil)
PostFilter(v, o, u) == Call(v, "save", o, Nil, u, Nil)
PatchFilter(v, o, f) == Call(v, "change", o, Nil, Nil, f)
DeleteFilter(v, o, f) == Call(v, "discard", o, Nil, Nil, f)
-----------------------------------------------------------------------------
(* Before the handler. *)

VFilterUser(v) ==
  /\ vpc[v] = "filter" /\ VGoto(v, "organization")
  /\ rights' = [rights EXCEPT ![v] = RolesOf(VisitorOf[v])]
  /\ UNCHANGED <<visit, own>>

\* All these endpoints ask for permissions that only owners have.
VPermitted(v) == rights[v][visit[v].org] = "owner"
Lookup(k) == CASE k = "enroll" -> "user" [] k \in {"unenroll", "drop"} -> "group"
               [] k = "save" -> "commit" [] k \in {"change", "discard"} -> "saved"
VReadOrganization(v) ==
  LET allowed == MaskedRows(VisitorOf[v], visit[v].org) > 0 /\ VPermitted(v) IN
  /\ vpc[v] = "organization"
  /\ \/ ~allowed /\ VRefuse(v)
     \/ allowed /\ VContinue(v, Lookup(visit[v].kind))

\* The user of the path is a member.
VReadUserAny(v) == vpc[v] = "user" /\ VContinue(v, "visible")
VReadUser(v) ==
  /\ vpc[v] = "user"
  /\ \/ role[<<visit[v].user, visit[v].org>>] = "none" /\ VRefuse(v)
     \/ role[<<visit[v].user, visit[v].org>>] # "none" /\ VContinue(v, "visible")

\* The visitor sees the group: it is enrolled there itself, and the system nowhere.
VReadVisible(v) ==
  /\ vpc[v] = "visible"
  /\ \/ <<VisitorOf[v], visit[v].group>> \notin enrolled /\ VRefuse(v)
     \/ <<VisitorOf[v], visit[v].group>> \in enrolled /\ VContinue(v, "commit")

\* hasGroup: the group is there and of an organization of the visitor, which need
\* not be that of the path.
GroupThere(v) == visit[v].group \in roots
GroupFound(v) == visit[v].group \in roots /\ MaskedRows(VisitorOf[v], visit[v].group) > 0
VReadGroup(v) ==
  /\ vpc[v] = "group"
  /\ \/ ~GroupFound(v) /\ VRefuse(v)
     \/ GroupFound(v) /\ VContinue(v, IF visit[v].kind = "drop" THEN "commit" ELSE "enrolment")

\* hasGroupUser: the user is in it.
VReadEnrolment(v) ==
  /\ vpc[v] = "enrolment"
  /\ \/ <<visit[v].user, visit[v].group>> \notin enrolled /\ VRefuse(v)
     \/ <<visit[v].user, visit[v].group>> \in enrolled /\ VContinue(v, "commit")

\* hasFilter: of an organization of the visitor, and public or its own.
ReachableByAll(v, f) == saved[f] # Nil /\ MaskedRows(VisitorOf[v], saved[f].org) > 0
Reachable(v, f) ==
  saved[f] # Nil /\ MaskedRows(VisitorOf[v], saved[f].org) > 0 /\ saved[f].user \in {Nil, VisitorOf[v]}
VReadFilter(v) ==
  /\ vpc[v] = "saved"
  /\ \/ ~Reachable(v, visit[v].filter) /\ VRefuse(v)
     \/ Reachable(v, visit[v].filter) /\ VContinue(v, "commit")
-----------------------------------------------------------------------------
(* The transactions. *)

\* INSERT: refused when the user is enrolled (unique index) or the group is gone.
CommitEnrolment(v) ==
  /\ vpc[v] = "commit" /\ visit[v].kind = "enroll"
  /\ LET x == <<visit[v].user, visit[v].group>>
         legal == x \notin enrolled /\ visit[v].group \in roots
     IN \/ ~legal /\ VRefuse(v)
        \/ legal /\ enrolled' = enrolled \cup {x} /\ Done(v) /\ UNCHANGED <<roots, saved, issued>>

CommitWithdrawal(v) ==
  /\ vpc[v] = "commit" /\ visit[v].kind = "unenroll"
  /\ enrolled' = enrolled \ {<<visit[v].user, visit[v].group>>}
  /\ Done(v) /\ UNCHANGED <<roots, saved, issued>>

\* DELETE; the maps of the group cascade.
CommitDrop(v) ==
  /\ vpc[v] = "commit" /\ visit[v].kind = "drop"
  /\ roots' = roots \ {visit[v].group} /\ enrolled' = {x \in enrolled : x[2] # visit[v].group}
  /\ Done(v) /\ UNCHANGED <<saved, issued>>

\* A filter is public, or of the visitor, of whom there must be a row.
Insert(v, f) ==
  /\ saved' = [saved EXCEPT ![f] = [org |-> visit[v].org, user |-> visit[v].user, text |-> "saved"]]
  /\ issued' = issued \cup {f} /\ Done(v) /\ UNCHANGED <<roots, enrolled>>
CommitFilterReused(v) ==
  /\ vpc[v] = "commit" /\ visit[v].kind = "save"
  /\ \/ visit[v].user \notin {Nil, VisitorOf[v]} /\ VRefuse(v)
     \/ visit[v].user \in {Nil, VisitorOf[v]} /\ \E f \in SavedFilter : saved[f] = Nil /\ Insert(v, f)
CommitFilter(v) ==
  /\ vpc[v] = "commit" /\ visit[v].kind = "save"
  /\ \/ visit[v].user \notin {Nil, VisitorOf[v]} /\ VRefuse(v)
     \/ visit[v].user \in {Nil, VisitorOf[v]} /\ \E f \in SavedFilter \ issued : Insert(v, f)

\* UPDATE and SELECT by ID: an error when the filter is gone.
CommitChange(v) ==
  LET f == visit[v].filter IN
  /\ vpc[v] = "commit" /\ visit[v].kind = "change"
  /\ \/ saved[f] = Nil /\ VRefuse(v)
     \/ /\ saved[f] # Nil /\ saved' = [saved EXCEPT ![f].text = "changed"]
        /\ Done(v) /\ UNCHANGED <<roots, enrolled, issued>>

CommitDiscard(v) ==
  /\ vpc[v] = "commit" /\ visit[v].kind = "discard"
  /\ saved' = [saved EXCEPT ![visit[v].filter] = Nil]
  /\ Done(v) /\ UNCHANGED <<roots, enrolled, issued>>

VBusy(v) == vpc[v] = "commit" /\ VRefuse(v)
-----------------------------------------------------------------------------
Approach(v) ==
  \/ \E o \in Org, u \in User : PostUserGroup(v, o, u) \/ \E g \in Org : DeleteGroupUser(v, o, g, u)
  \/ \E o, g \in Org : DeleteGroup(v, o, g)
  \/ \E o \in Org, u \in User \cup {Nil} : PostFilter(v, o, u)
  \/ \E o \in Org, f \in SavedFilter : PatchFilter(v, o, f) \/ DeleteFilter(v, o, f)

VStep(v) ==
  \/ VFilterUser(v) \/ VReadOrganization(v) \/ VReadUser(v) \/ VReadVisible(v)
  \/ VReadGroup(v) \/ VReadEnrolment(v) \/ VReadFilter(v)
  \/ CommitEnrolment(v) \/ CommitWithdrawal(v) \/ CommitDrop(v) \/ CommitFilter(v)
  \/ CommitChange(v) \/ CommitDiscard(v) \/ VBusy(v)

\* The transaction that founds an organization enrolls its owner in the root group.
RootOwners == {x \in User \X Org : x[2] \in orgs' \ orgs /\ role'[x] = "owner"}

\* A step of Accounts, with what it does to the tables of this module.
AccountStep(r) ==
  /\ Begin(r) \/ Step(r)
  /\ roots' = roots \cup (orgs' \ orgs) /\ enrolled' = enrolled \cup RootOwners
  /\ joined' = joined \cup Belonging(role')
  /\ UNCHANGED <<saved, issued, visits, plan>>

VisitStep(v) == (Approach(v) \/ VStep(v)) /\ UNCHANGED <<vars, plan, joined>>

MNext == (\E r \in Request \cap plan : AccountStep(r)) \/ (\E v \in Visit \cap plan : VisitStep(v))
MSpec == MInit /\ [][MNext]_mvars
-----------------------------------------------------------------------------
\* The type of every variable that Accounts does not have.
MTypeOK ==
  /\ roots \in SUBSET Org /\ enrolled \in SUBSET (User \X Org) /\ saved \in [SavedFilter -> Row \cup {Nil}]
  /\ issued \in SUBSET SavedFilter /\ vpc \in [Visit -> VisitPhase]
  /\ visit \in [Visit -> Visits] /\ rights \in [Visit -> [Org -> Role]]
  /\ plan \in Plans /\ joined \in SUBSET (User \X Org)

\* Only members and former members of an organization are in its groups: an
\* enrolment is left when its user is removed, and may even be inserted after
\* that, but nobody is enrolled who has never belonged to the organization.
EnrolledWereMembers == enrolled \subseteq joined

\* An enrolment ends, by itself or with its group, only on behalf of the system or
\* of someone who was an owner of the organization of the path and a member of the
\* organization of the group: these may be two, and both were read before the
\* transaction, from which on the visitor may have been removed from either.
EnrolmentsEndByInsiders ==
  [][\A x \in enrolled \ enrolled' : \E v \in Visit :
       /\ vpc[v] = "commit" /\ vpc'[v] = "answered" /\ visit[v].group = x[2]
       /\ \/ VisitorOf[v] = System
          \/ <<VisitorOf[v], visit[v].org>> \in been /\ <<VisitorOf[v], x[2]>> \in joined]_mvars

\* "private (only the user who created it...)": a private filter is changed and
\* deleted only for its user, any filter only for someone who was a member of its
\* organization, and it stays in that organization and private or public, although
\* it is looked up before the transaction that names it by its ID.
FiltersStayTheirs ==
  [][\A f \in SavedFilter : saved[f] # Nil /\ saved'[f] # saved[f] =>
       /\ saved'[f] # Nil => saved'[f].org = saved[f].org /\ saved'[f].user = saved[f].user
       /\ \E v \in Visit :
            /\ vpc[v] = "commit" /\ vpc'[v] = "answered" /\ visit[v].filter = f
            /\ saved[f].user \in {Nil, VisitorOf[v]}
            /\ VisitorOf[v] = System \/ <<VisitorOf[v], saved[f].org>> \in joined]_mvars
=============================================================================

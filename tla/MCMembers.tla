----------------------------- MODULE MCMembers -----------------------------
(***************************************************************************)
(* A small instance of Members and so of Accounts: two users of one        *)
(* organization, IDs for two more, two spellings of a free username, and   *)
(* a public and a private filter.                                          *)
(***************************************************************************)
EXTENDS Members, TLC

CONSTANTS ann, ben, cy, dee, nameA, nameB, lower, upper, o1, o2, r1, r2, sys, reg,
          f1, f2, f3, v1, v2, v3

MCUser == {ann, ben, cy, dee}
MCName == {nameA, nameB, lower, upper}
MCFolded == [n \in MCName |-> IF n = upper THEN lower ELSE n]
MCOrg == {o1, o2}
MCRequest == {r1, r2, sys, reg}

\* The first user calls anything, the second changes owner flags, and with the
\* system token an organization is founded, or somebody registers.
MCMay == (r1 :> Kinds) @@ (r2 :> {"set_owner"}) @@ (sys :> {"found"}) @@ (reg :> {"register"})
MCActorOf == (r1 :> ann) @@ (r2 :> ben) @@ (sys :> System) @@ (reg :> System)

MCSeedName == (ann :> nameA) @@ (ben :> nameB) @@ (cy :> Nil) @@ (dee :> Nil)
\* The second user is an owner too, or a member.
MCSeedRoles == {[x \in MCUser \X MCOrg |->
  CASE x = <<ann, o1>> -> "owner" [] x = <<ben, o1>> -> ro [] OTHER -> "none"] :
    ro \in {"member", "owner"}}

MCSavedFilter == {f1, f2, f3}
MCVisit == {v1, v2, v3}
MCMayVisit == (v1 :> VisitKinds) @@ (v2 :> {"enroll", "discard"}) @@ (v3 :> {"save"})
MCVisitorOf == (v1 :> ann) @@ (v2 :> ben) @@ (v3 :> ben)
MCSeedEnrolled == {<<ann, o1>>}
Filter(u) == [org |-> o1, user |-> u, text |-> "saved"]
MCSeedFilters == (f1 :> Filter(Nil)) @@ (f2 :> Filter(ann)) @@ (f3 :> Nil)

\* Two users who change members while an organization is founded, two registrations,
\* each endpoint of Accounts beside a visit, and visits alone.
MCPlans == {{r1, r2, sys}, {r1, reg}, {r1, v1}, {r1, v2}, {r2, v1}, {sys, v1}, {v1, v2, v3}}

\* The rows that are not there at the start are alike.
FreeIDs == Permutations({cy, dee})
=============================================================================

---------------------------- MODULE MCGroupTree ----------------------------
(***************************************************************************)
(* A small instance of GroupTree: a chain of three groups, an ID for a     *)
(* fourth, and two users, one mapped to the root and one to both groups    *)
(* further down, which a move may put side by side.                        *)
(***************************************************************************)
EXTENDS GroupTree

MCSeedParent == [g \in Group |-> CASE g = "g1" -> Top [] g = "g2" -> "g1" [] g = "g3" -> "g2"
                                   [] OTHER -> Nil]
MCSeedRole == [x \in User \X Group |->
  IF x \in {<<"u1", "g1">>, <<"u2", "g2">>, <<"u2", "g3">>} THEN "owner" ELSE "none"]

\* r1 acts for the second user, the others for the user of the root.
MCUserOf == [r \in Request |-> IF r = "r1" THEN "u2" ELSE "u1"]
MCMay == "r1" :> {"create", "list", "unenroll"} @@ "r2" :> {"patch", "enroll"}
         @@ "r3" :> {"delete", "set_owner"}
Patches == [r \in Request |-> {"patch"}]
=============================================================================

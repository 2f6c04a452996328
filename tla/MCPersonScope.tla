--------------------------- MODULE MCPersonScope ---------------------------
(***************************************************************************)
(* Values for the constants of PersonScope: a root group with two branches *)
(* and persons aged 9 and 10, or unknown.  The ages differ in filters as  *)
(* numbers, as text, by pattern, as places and by being absent.            *)
(***************************************************************************)
EXTENDS PersonScope

Branches == [g \in Group |-> IF g = "g1" THEN Top ELSE "g1"]

Ages == "p1" :> 9 @@ "p2" :> 10
Voters == "p1" :> 9 @@ "p2" :> 10
MCSeedValue == [p \in Person |-> "age" :> Ages[p] @@ "voter_id" :> Voters[p]]
Numbers == {9, 10}
MCTextRank == 9 :> 2 @@ 10 :> 1
\* The pattern 1 stands for "1*"; the others are like themselves only.
MCLike == {<<10, 1>>, <<9, 9>>, <<10, 10>>}
MCNear == {<<9, 9>>, <<10, 10>>, <<9, 10>>}

Condition(f, op, vals) == [kind |-> "condition", name |-> f, op |-> op, values |-> vals]
Over9 == Condition("age", ">", {9})
Not9 == Condition("age", "!=", {9})
Is9Or10 == Condition("age", "=", {9, 10})
NineVoter == Condition("voter_id", "=", {9})
Teens == Condition("age", "~", {1})
Aged == [kind |-> "not_null", name |-> "age"]
Ageless == [kind |-> "null", name |-> "age"]
Both(cs) == [kind |-> "and", clauses |-> cs]
Grown == Both({Over9, Aged, Not9})
Teenager == Both({Teens, Is9Or10})
Unknown == Both({Ageless, NineVoter})
Nothing == [kind |-> "or", clauses |-> {}]
Mixed == [kind |-> "or", clauses |-> {Grown, Teenager, Unknown, Nothing}]
Near10 == Condition("age", "~", {10})

MCClause == {Over9, Not9, Is9Or10, NineVoter, Teens, Aged, Ageless, Grown, Teenager, Unknown, Nothing,
             Mixed, Near10, Unparsable}
MCFilter == {Mixed, Nothing, Unparsable, Stray}
MCQueries == {Mixed, Stray, Nil}
MCReadings == {Near10, Unparsable}
MCSeedFilter == {Mixed, Nil}

\* Both fields are defined, or only voter_id is.
MCSeedDefs == {[f \in FieldName |-> "integer"], "age" :> Nil @@ "voter_id" :> "text"}
MCPlans == {{"group"}, {"map"}, {"definition", "value"}}

AllKinds == [r \in Request |-> Kinds]
AllUsersOne == [r \in Request |-> "u1"]
=============================================================================

-------------------------- MODULE MCPersonRecords --------------------------
(***************************************************************************)
(* Values for the constants of PersonRecords.  Two definitions: "voter_id" *)
(* and "party".  The strings are three voter IDs, of which "A1" and "a1"   *)
(* are the same to the database, two parties, and the empty string.        *)
(***************************************************************************)
EXTENDS PersonRecords

VoterIDs == {"a1", "A1", "b2"}
Parties == {"red", "blue"}
\* Paths that are no plain voter ID: one of two conditions; a text that is refused.
Paths == {"either", "torn"}
MCValue == VoterIDs \cup Parties \cup Paths \cup {""}
MCFold == [v \in MCValue |-> IF v = "A1" THEN "a1" ELSE v]
MCFieldName == {"voter_id", "party"}
ThreeNames == MCFieldName \cup {"ballot"}
MCPerson == {"p1", "p2", "p3", "p4"}
MCUserOf == [r \in Request |-> r]

Is(n, v) == [name |-> n, neg |-> FALSE, value |-> v]
IsNot(n, v) == [name |-> n, neg |-> TRUE, value |-> v]
PlainPaths(V) == [v \in V |-> {{Is("voter_id", v)}}]
EditPaths == PlainPaths({"a1", "b2"}) @@
  "either" :> {{Is("voter_id", "a1")}, {Is("party", "blue"), IsNot("voter_id", "a1")}}
DefinitionPaths == PlainPaths({"a1", "A1"}) @@ "torn" :> Nil
ImportPaths == PlainPaths({"b2"})
StalePaths == PlainPaths({"a1"})
\* Lists: none, one, two, and one whose spelling the database takes for another's.
MCListReads == [vs \in {{}, {"b2"}, {"a1", "b2"}, {"A1"}} |-> {{Is("voter_id", v)} : v \in vs}]

MCSeedDefs ==
  [d \in Def |-> CASE d = "d1" -> [name |-> "voter_id", allowed |-> VoterIDs]
                   [] d = "d2" -> [name |-> "party", allowed |-> Parties]
                   [] OTHER -> [name |-> Nil, allowed |-> {}]]

\* One person with a party; and a second one without.
OnePerson == "p1" :> [voter_id |-> "a1", party |-> "red"]
TwoPersons == OnePerson @@ "p2" :> [voter_id |-> "b2"]
PartylessPerson == "p1" :> [voter_id |-> "a1"]

Set(party) == [party |-> party]
MCBodies == {Set("red"), Set(Nil), [party |-> "blue", voter_id |-> "b2"], Set("")}
EditBodies == {Set(Nil), [party |-> "blue", voter_id |-> "b2"]}
FewBodies == {Set("blue"), Set(Nil)}

Row(v, party) == [voter_id |-> v, party |-> party]
\* Tables that create, update, do both, repeat a voter, leave a cell blank, or
\* spell a voter ID in another case.
MCSheets == {<<Row("b2", "red")>>, <<Row("b2", "blue"), Row("b2", "red")>>,
             <<Row("a1", "blue"), Row("a1", "red")>>, <<Row("a1", ""), Row("b2", "blue")>>,
             <<Row("a1", "blue"), Row("b2", "red")>>,
             <<Row("A1", "blue")>>, <<Row("b2", "")>>, <<[party |-> "red"]>>}
FewSheets == {<<Row("a1", "blue"), Row("b2", "red")>>, <<Row("b2", "")>>}

PatchUpdateDelete == [r \in Request |-> CASE r = "r1" -> "patch" [] r = "r2" -> "update"
                                          [] OTHER -> "delete"]
ImportImportDelete == [r \in Request |-> IF r = "r3" THEN "delete" ELSE "import"]
ImportPatchDelete == [r \in Request |-> CASE r = "r1" -> "import" [] r = "r2" -> "patch"
                                          [] OTHER -> "delete"]
PatchPatch == [r \in Request |-> "patch"]

\* A definition is edited to accept the parties, or the empty string besides.
MCAllowances == {Parties, Parties \cup {""}}
=============================================================================

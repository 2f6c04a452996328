----------------------------- MODULE PersonScope -----------------------------
(***************************************************************************)
(* Which persons a user is shown.  A group has a filter; the path from the *)
(* top to a group conjoins the filters on it, several paths are joined by  *)
(* OR, and the result becomes one SQL query (buildPersonQuery).            *)
(*                                                                         *)
(* A request reads groups, maps and definitions in statements of their own *)
(* before it queries the persons; other requests commit in between.  What  *)
(* those do to groups, maps, definitions and values (GroupTree,            *)
(* PersonRecords) is one step here.  Which fields are returned, and the    *)
(* limit, are left out.                                                    *)
(*                                                                         *)
(* Filters and query are joined as text and parsed once.  A text that      *)
(* stands alone is its clause here, and what is joined of such texts means *)
(* all of them (JoinedMeansAll of FilterLanguage).  Every other text is    *)
(* Stray, and a join with it may be read as anything in Readings.          *)
(***************************************************************************)
EXTENDS GroupWalks, Integers

CONSTANTS User, Person, Request, UserOf,
          May,         \* May[r]: the endpoints that r may call
          FieldName,
          VoterID,     \* the field name "voter_id", a column of person
          Value,       \* values, and what conditions compare them with
          TextRank,    \* TextRank[v]: position of v in the order of text
          Like,        \* pairs of a value and a pattern that it is LIKE
          Place,       \* values that are two numbers
          Near,        \* pairs of a value and a place that it is near to
          Clause,      \* clauses, with all their parts
          Filter,      \* texts used as filters: those of them that stand alone, or Stray
          Readings,    \* clauses that joins with a stray text are read as
          Asks,        \* sets of groups that requests name
          Queries,     \* queries that they bring, Nil for none
          Plans,       \* bound: sets of kinds of edits that may come together, one of each
          SeedParent, SeedFilter, SeedValue, SeedDefs, SeedMaps

\* Field types that compare differently; "text" stands for all the others.
Type == {"integer", "coordinates", "text"}
\* A definition may be missing; once renamed, its old name is unknown.
Defs == Type \cup {"renamed", Nil}
\* A text that is refused wherever it stands; one that reaches into its neighbours.
Unparsable == [kind |-> "unparsable"]
Stray == [kind |-> "stray"]
Kinds == {"list", "list_group", "count"}
EditKinds == {"group", "map", "definition", "value"}
Fields(T) == [FieldName -> T \cup {Nil}]

ASSUME ScopeAssumption ==
  /\ Filter \subseteq Clause \cup {Stray} /\ Readings \subseteq Clause /\ Stray \notin Clause
  /\ Asks \subseteq SUBSET Group /\ Queries \subseteq Filter \cup {Nil}
  /\ Unparsable \in Clause /\ Nil \notin Clause /\ Nil \notin Value /\ Nil \notin Kinds
  /\ May \in [Request -> SUBSET Kinds] /\ UserOf \in [Request -> User]
  /\ Plans \subseteq SUBSET EditKinds
  /\ SeedParent \in Forest /\ SeedValue \in [Person -> Fields(Value)]
  /\ SeedFilter \subseteq Filter \cup {Nil} /\ SeedDefs \subseteq [FieldName -> Defs]
  /\ SeedMaps \subseteq SUBSET Rows(SeedParent)
  /\ \A g \in Rows(SeedParent) :
       SeedParent[g] \in Rows(SeedParent) \cup {Top} /\ ~Endless(SeedParent, g)

VARIABLES parent, filter, \* parent_id and filter of each group
          maps,           \* maps[u]: the groups that user u is mapped to
          def,            \* def[f]: the definition named f, see Defs
          value,          \* value[p][f]: what is stored, or Nil
          pc, status,
          call,           \* call[r]: the endpoint, groups and query that r names
          first, own,     \* first[r], own[r]: the filters as read first and last
          tree,           \* tree[r]: the parent IDs as read first
          mine,           \* mine[r]: the groups of the user as read
          paths,          \* paths[r]: the hierarchies
          types,          \* types[r]: the definitions as read
          shown,          \* shown[r]: the persons found, by group (Top: whole list)
          edits,          \* the kinds of edits that there were
          moments         \* history: groups, maps, definitions since r arrived

tables == <<parent, filter, maps, def, value>>
locals == <<call, first, own, tree, mine, paths, types, shown>>
vars == <<parent, filter, maps, def, value, pc, status, call, first, own, tree, mine, paths,
          types, shown, edits, moments>>

Phase == {"idle", "visible", "check", "first", "mapped", "groups", "definitions", "query",
          "fields", "answered"}
Status == {"none", "ok", "not_found", "bad_request", "error"}
Filters == [Group -> Filter \cup {Nil}]
Calls == [kind : Kinds \cup {Nil}, groups : SUBSET Group, query : Filter \cup {Nil}]
NoCall == [kind |-> Nil, groups |-> {}, query |-> Nil]
Moment == [parent : Forest, filter : Filters, maps : [User -> SUBSET Group],
           def : [FieldName -> Defs]]
Now == [parent |-> parent, filter |-> filter, maps |-> maps, def |-> def]
-----------------------------------------------------------------------------
(* Clauses, as buildPersonQuery turns them into SQL.  A missing row is NULL,  *)
(* for which every comparison but "!=" and IS NULL is false.                  *)

\* A condition without values and a group without clauses add nothing to the query.
Absent ==
  LET absent[c \in Clause] ==
        CASE c.kind = "condition" -> c.values = {}
          [] c.kind \in {"and", "or"} -> \A d \in c.clauses : absent[d]
          [] OTHER -> FALSE
  IN absent

Less(t, v, w) == IF t = "integer" THEN v < w ELSE TextRank[v] < TextRank[w]

Matches(t) == IF t = "coordinates" THEN Near ELSE Like

\* Each value is an alternative; the values of != and !~ must all differ.
Compares(op, t, v, vals) ==
  CASE op = "="  -> v \in vals
    [] op = "!=" -> v \notin vals
    [] op = ">"  -> v # Nil /\ \E w \in vals : Less(t, w, v)
    [] op = ">=" -> v # Nil /\ \E w \in vals : ~Less(t, v, w)
    [] op = "<"  -> v # Nil /\ \E w \in vals : Less(t, v, w)
    [] op = "<=" -> v # Nil /\ \E w \in vals : ~Less(t, w, v)
    [] op = "~"  -> v # Nil /\ \E w \in vals : <<v, w>> \in Matches(t)
    [] op = "!~" -> v # Nil /\ \A w \in vals : <<v, w>> \notin Matches(t)

\* Holds(ty, row)[c]: the row of fields satisfies c, with types ty.
Holds(ty, row) ==
  LET holds[c \in Clause] ==
        CASE c.kind = "condition" ->
               Absent[c] \/ Compares(c.op, ty[c.name], row[c.name], c.values)
          [] c.kind = "null" -> row[c.name] = Nil
          [] c.kind = "not_null" -> row[c.name] # Nil
          [] c.kind = "and" -> \A d \in c.clauses : holds[d]
          [] c.kind = "or" -> Absent[c] \/ \E d \in c.clauses : ~Absent[d] /\ holds[d]
  IN holds

\* A pattern for coordinates has to be a place.
Misplaced(c, t) == t = "coordinates" /\ c.op \in {"~", "!~"} /\ ~(c.values \subseteq Place)

\* The query is not built: a filter does not parse, names an unknown field or compares
\* coordinates with something else.  A condition on voter_id needs a definition of
\* that name, IS NULL does not.
Fails(ty) ==
  LET fails[c \in Clause] ==
        CASE c.kind = "unparsable" -> TRUE
          [] c.kind = "condition" -> ty[c.name] \notin Type \/ Misplaced(c, ty[c.name])
          [] c.kind \in {"null", "not_null"} -> ty[c.name] \notin Type /\ c.name # VoterID
          [] c.kind \in {"and", "or"} -> \E d \in c.clauses : fails[d]
  IN fails
-----------------------------------------------------------------------------
(* Hierarchies, as buildPersonQuery joins their filters. *)

\* The filters on a path (those of its ancestors were read first) and the query.
Strings(fl, ow, h, q) == ({fl[g] : g \in ToSet(Front(h))} \cup {ow[Last(h)], q}) \ {Nil}

\* One conjunction for each path that has any; together they are read as clause c if
\* there is a stray text among them.
Conjunctions(fl, ow, H, q) == {Strings(fl, ow, h, q) : h \in H} \ {{}}
Strays(C) == Stray \in UNION C
QueryFails(fl, ow, H, q, ty, c) ==
  LET C == Conjunctions(fl, ow, H, q) IN
  IF Strays(C) THEN Fails(ty)[c] ELSE \E S \in C : \E d \in S : Fails(ty)[d]

\* What adds nothing is dropped.  When nothing is left there is no WHERE.
Adding(S) == {c \in S : ~Absent[c]}
Selected(fl, ow, H, q, ty, val, c) ==
  LET C == Conjunctions(fl, ow, H, q)
      E == {Adding(S) : S \in C} \ {{}}
  IN IF Strays(C) THEN {p \in Person : Holds(ty, val[p])[c]}
     ELSE {p \in Person : E = {} \/ \E S \in E : \A d \in S : Holds(ty, val[p])[d]}

PathsOf(H, g) == {h \in H : Last(h) = g}
-----------------------------------------------------------------------------
Init ==
  /\ parent = SeedParent /\ filter \in [Group -> SeedFilter]
  /\ \A g \in Group : parent[g] = Nil => filter[g] = Nil
  /\ maps \in [User -> SeedMaps]
  /\ def \in SeedDefs
  /\ value = [p \in Person |-> [f \in FieldName |->
               IF f = VoterID \/ def[f] # Nil THEN SeedValue[p][f] ELSE Nil]]
  /\ pc = [r \in Request |-> "idle"] /\ status = [r \in Request |-> "none"]
  /\ call = [r \in Request |-> NoCall]
  /\ first = [r \in Request |-> [g \in Group |-> Nil]] /\ own = first /\ tree = first
  /\ mine = [r \in Request |-> {}] /\ paths = mine
  /\ types = [r \in Request |-> [f \in FieldName |-> Nil]]
  /\ shown = [r \in Request |-> [g \in Group \cup {Top} |-> {}]]
  /\ edits = {} /\ moments = mine

Goto(r, p) == pc' = [pc EXCEPT ![r] = p]
Answer(r, s) ==
  Goto(r, "answered") /\ status' = [status EXCEPT ![r] = s] /\ UNCHANGED <<tables, edits, moments>>
Refuse(r, s) == Answer(r, s) /\ UNCHANGED locals
Continue(r, p) == Goto(r, p) /\ UNCHANGED <<tables, status, edits, moments>>

\* GET person, GET group/{id}/person, GET group-person-count.
ListPersons(r, k, G, q) ==
  /\ pc[r] = "idle"
  /\ CASE k = "list" -> G = {}
       [] k = "list_group" -> Cardinality(G) = 1
       [] k = "count" -> G # {}
  \* Of the stray texts some can be parsed.  The others have no check of the query.
  /\ LET missing == k = "list_group" /\ ~(G \subseteq Rows(parent))  \* hasGroup
     IN \/ missing /\ Refuse(r, "not_found")
        \/ ~missing /\ k = "list_group" /\ q \in {Unparsable, Stray} /\ Refuse(r, "bad_request")
        \/ /\ ~missing /\ ~(k = "list_group" /\ q = Unparsable) /\ Goto(r, IF k = "count" THEN "visible" ELSE "first")
           /\ call' = [call EXCEPT ![r] = [kind |-> k, groups |-> G, query |-> q]]
           /\ moments' = [moments EXCEPT ![r] = {Now}]
           /\ UNCHANGED <<tables, status, first, own, tree, mine, paths, types, shown, edits>>

\* getGroupsForUser first reads the IDs of the groups that the user is mapped to.
ReadMapped(r) ==
  /\ pc[r] \in {"visible", "mapped"}
  /\ Continue(r, IF pc[r] = "visible" THEN "check" ELSE "groups")
  /\ mine' = [mine EXCEPT ![r] = maps[UserOf[r]]]
  /\ UNCHANGED <<call, first, own, tree, paths, types, shown>>

\* getGroupsForUser reads the groups: those of a count have to be visible.
CheckVisible(r) ==
  LET valid == call[r].groups \subseteq Visible(parent, mine[r]) IN
  /\ pc[r] = "check"
  /\ \/ ~valid /\ Refuse(r, "bad_request")
     \/ valid /\ Continue(r, "first") /\ UNCHANGED locals

\* getGroupHierarchiesForUser reads the groups, and getGroupsForUser once more.
ReadFirst(r) ==
  /\ pc[r] = "first" /\ Continue(r, "mapped")
  /\ first' = [first EXCEPT ![r] = filter] /\ tree' = [tree EXCEPT ![r] = parent]
  /\ UNCHANGED <<call, own, mine, paths, types, shown>>
ReadGroupsTorn(r) ==
  /\ pc[r] = "groups" /\ Continue(r, "definitions")
  /\ own' = [own EXCEPT ![r] = first[r]]
  /\ paths' = [paths EXCEPT ![r] = Hierarchies(tree[r], parent, mine[r])]
  /\ UNCHANGED <<call, first, tree, mine, types, shown>>
ReadGroups(r) ==
  /\ pc[r] = "groups" /\ Continue(r, "definitions")
  /\ own' = [own EXCEPT ![r] = filter]
  /\ paths' = [paths EXCEPT ![r] = Hierarchies(tree[r], parent, mine[r])]
  /\ UNCHANGED <<call, first, tree, mine, types, shown>>

ReadDefinitions(r) ==
  /\ pc[r] = "definitions" /\ Continue(r, "query")
  /\ types' = [types EXCEPT ![r] = def]
  /\ UNCHANGED <<call, first, own, tree, mine, paths, shown>>

\* Where the result goes, and the paths that the query is built from.
Slots(r) == IF call[r].kind = "list" THEN {Top} ELSE call[r].groups
PathsForCondensed(r, s) == IF s = Top THEN Condense(paths[r]) ELSE PathsOf(Condense(paths[r]), s)
PathsFor(r, s) == IF s = Top THEN Condense(paths[r]) ELSE PathsOf(paths[r], s)

\* The persons that the hierarchies H select become the result of slot s.
Found(r, s, H, c) ==
  [shown EXCEPT ![r] = [shown[r] EXCEPT ![s] =
     Selected(first[r], own[r], H, call[r].query, types[r], value, c)]]

\* filterPersons: one query; a group without a hierarchy is an error.
FilterPersonsMapped(r) ==
  /\ call[r].kind # "count" /\ pc[r] = "query"
  /\ \E s \in Slots(r), c \in Readings : LET H == PathsFor(r, s) IN
       IF H = {} \/ QueryFails(first[r], own[r], H, call[r].query, types[r], c)
       THEN Refuse(r, "error")
       ELSE /\ Continue(r, "fields") /\ shown' = Found(r, s, H, c)
            /\ UNCHANGED <<call, first, own, tree, mine, paths, types>>
FilterPersons(r) ==
  /\ call[r].kind # "count" /\ pc[r] = "query"
  /\ \E s \in Slots(r), c \in Readings : LET H == PathsFor(r, s) IN
       IF (s # Top /\ H = {}) \/ QueryFails(first[r], own[r], H, call[r].query, types[r], c)
       THEN Refuse(r, "error")
       ELSE /\ Continue(r, "fields") /\ shown' = Found(r, s, H, c)
            /\ UNCHANGED <<call, first, own, tree, mine, paths, types>>

\* It reads the values of the persons; one whose definition was not there when
\* the definitions were read is an error.
Listed(ty, p) == \A f \in FieldName : value[p][f] # Nil => f = VoterID \/ ty[f] # Nil
ReadFields(r) ==
  /\ pc[r] = "fields"
  /\ Refuse(r, IF \A s \in Slots(r) : \A p \in shown[r][s] : Listed(types[r], p)
               THEN "ok" ELSE "error")

\* filterPersonsCount: a query for each hierarchy that ends in one of the groups;
\* the count of a group without one stays 0.
AskedAll(r) == paths[r]
Asked(r) == {h \in paths[r] : Last(h) \in call[r].groups}
FilterPersonsCount(r) ==
  /\ call[r].kind = "count" /\ pc[r] = "query"
  /\ \/ Asked(r) = {} /\ Refuse(r, "ok")
     \/ \E h \in Asked(r), c \in Readings :
          IF QueryFails(first[r], own[r], {h}, call[r].query, types[r], c) THEN Refuse(r, "error")
          ELSE /\ shown' = Found(r, Last(h), {h}, c)
               /\ paths' = [paths EXCEPT ![r] = paths[r] \ {h}]
               /\ IF Asked(r) # {h} THEN Continue(r, "query") ELSE Answer(r, "ok")
               /\ UNCHANGED <<call, first, own, tree, mine, types>>
-----------------------------------------------------------------------------
(* What other requests commit meanwhile. *)

InFlight == {r \in Request : pc[r] \notin {"idle", "answered"}}
Edited(kind) ==
  /\ kind \notin edits /\ InFlight # {} /\ edits' = edits \cup {kind}
  /\ \E plan \in Plans : edits' \subseteq plan
  /\ moments' = [r \in Request |-> IF r \in InFlight THEN moments[r] \cup {Now'} ELSE moments[r]]
  /\ UNCHANGED <<pc, status, locals>>

\* PATCH group; moves into the group's own subtree are left to GroupTree.
PatchGroup(g, p, c) ==
  /\ parent[g] # Nil /\ p = Top => parent[g] = Top
  /\ p # Top => parent[p] # Nil /\ p \notin Below(parent, g)
  /\ parent' = [parent EXCEPT ![g] = p] /\ filter' = [filter EXCEPT ![g] = c]
  /\ UNCHANGED <<maps, def, value>> /\ Edited("group")

DeleteGroup(g) ==
  LET gone == Below(parent, g) IN
  /\ parent' = [h \in Group |-> IF h \in gone THEN Nil ELSE parent[h]]
  /\ filter' = [h \in Group |-> IF h \in gone THEN Nil ELSE filter[h]]
  /\ maps' = [u \in User |-> maps[u] \ gone]
  /\ UNCHANGED <<def, value>> /\ Edited("group")

MapUser(u, G) ==
  /\ maps' = [maps EXCEPT ![u] = G] /\ UNCHANGED <<parent, filter, def, value>> /\ Edited("map")

\* A definition is created, or its type or its name is changed.
EditDefinition(f, t) ==
  /\ t # Nil /\ (t = "renamed" => def[f] # Nil) /\ def' = [def EXCEPT ![f] = t]
  /\ UNCHANGED <<parent, filter, maps, value>> /\ Edited("definition")

PatchPerson(p, f, v) ==
  /\ f # VoterID /\ def[f] # Nil /\ value' = [value EXCEPT ![p] = [value[p] EXCEPT ![f] = v]]
  /\ UNCHANGED <<parent, filter, maps, def>> /\ Edited("value")

Edit ==
  \/ \E g \in Rows(parent) :
       \/ DeleteGroup(g)
       \/ \E p \in Rows(parent) \cup {Top}, c \in Filter \cup {Nil} : PatchGroup(g, p, c)
  \/ \E u \in User, G \in SUBSET Rows(parent) : MapUser(u, G)
  \/ \E f \in FieldName, t \in Type \cup {"renamed"} : EditDefinition(f, t)
  \/ \E p \in Person, f \in FieldName, v \in Value \cup {Nil} : PatchPerson(p, f, v)

Step(r) ==
  \/ \E k \in May[r], G \in Asks, q \in Queries : ListPersons(r, k, G, q)
  \/ CheckVisible(r) \/ ReadFirst(r) \/ ReadMapped(r) \/ ReadGroups(r) \/ ReadDefinitions(r)
  \/ FilterPersons(r) \/ ReadFields(r) \/ FilterPersonsCount(r)

Next == Edit \/ \E r \in Request : Step(r)
Spec == Init /\ [][Next]_vars
-----------------------------------------------------------------------------
TypeOK ==
  /\ Now \in Moment /\ value \in [Person -> Fields(Value)] /\ edits \in SUBSET EditKinds
  /\ pc \in [Request -> Phase] /\ status \in [Request -> Status] /\ call \in [Request -> Calls]
  /\ first \in [Request -> Filters] /\ own \in [Request -> Filters] /\ tree \in [Request -> Forest]
  /\ mine \in [Request -> SUBSET Group] /\ paths \in [Request -> SUBSET Seq(Group)]
  /\ types \in [Request -> [FieldName -> Defs]]
  /\ shown \in [Request -> [Group \cup {Top} -> SUBSET Person]]
  /\ \A r \in Request : \A s \in (Group \cup {Top}) \ Slots(r) : shown[r][s] = {}
  /\ moments \in [Request -> SUBSET Moment]

(* What a user is meant to see, without hierarchies: group g has the persons  *)
(* that satisfy its filter and that of every group above it, at moment m.     *)
Wanted(m, g, q) == ({m.filter[h] : h \in Above(m.parent, g)} \cup {q}) \ {Nil}
Members(m, g, q, ty) ==
  {p \in Person : \A c \in Wanted(m, g, q) : ~Fails(ty)[c] /\ (Absent[c] \/ Holds(ty, value[p])[c])}
SeenBy(m, u) == Visible(m.parent, m.maps[u])
HighestSeen(m, u) == {g \in SeenBy(m, u) : m.parent[g] \notin SeenBy(m, u)}

\* The whole list is that of all visible groups together, except without groups,
\* and when only some of the highest have filters that add anything.
Meant(m, u, s, q, ty) ==
  IF s = Top THEN UNION {Members(m, g, q, ty) : g \in SeenBy(m, u)} ELSE Members(m, s, q, ty)
GroupsOf(m, u, s) == IF s = Top THEN SeenBy(m, u) ELSE {s}
Regular(m, u, s, q) ==
  /\ \A g \in GroupsOf(m, u, s) : Stray \notin Wanted(m, g, q)
  /\ s = Top => /\ SeenBy(m, u) # {}
                /\ \A g, h \in HighestSeen(m, u) : (Adding(Wanted(m, g, q)) = {}) = (Adding(Wanted(m, h, q)) = {})

\* A list is the one meant at some single moment while it was made, as far as
\* groups, maps and definitions go, when these changed at most once meanwhile,
\* although each table is read in a statement of its own and the groups in two;
\* for the whole list only if no group changed.  The query and the filters of the
\* groups have to stand alone, which nothing checks.
\* The values of the persons are those at the query.
AnswersFromOneMoment ==
  [][\A r \in Request, s \in Group \cup {Top} :
       LET listed == pc[r] = "query" /\ pc'[r] = "fields" /\ s \in Slots(r)
           counted == \E h \in paths[r] \ paths'[r] : Last(h) = s /\ call[r].kind = "count"
                                                     /\ pc[r] = "query"
           usual == /\ Cardinality(moments[r]) <= 2
                    /\ s = Top => \A m, n \in moments[r] : m.parent = n.parent /\ m.filter = n.filter
                    /\ \A m \in moments[r] : Regular(m, UserOf[r], s, call[r].query)
       IN (listed \/ counted) /\ usual =>
            \E m \in moments[r] : shown'[r][s] = Meant(m, UserOf[r], s, call[r].query, types[r])]_vars

\* Whether r asks for a group that its user does not see at some moment; for one with
\* a filter above it, or a query, that is stray or fails with the definitions of some
\* moment; or while a field is defined, which persons may have by the time they are read.
Unseen(r) == \E m \in moments[r] : call[r].kind # "list" /\ ~(call[r].groups \subseteq SeenBy(m, UserOf[r]))
Unreadable(r) ==
  \E m, n, o \in moments[r] :
    \E g \in IF call[r].kind = "list" THEN SeenBy(o, UserOf[r]) ELSE call[r].groups :
      \E c \in Wanted(m, g, call[r].query) : c = Stray \/ Fails(n.def)[c]
DefinedMeanwhile(r) ==
  \E m, n \in moments[r] : \E f \in FieldName \ {VoterID} : m.def[f] = Nil /\ n.def[f] # Nil

\* An internal error has a cause in what the request may have read, when groups, maps
\* and definitions changed at most once meanwhile: a group the user did not see, a
\* text that cannot be read or compares a field in a way its definition does not allow,
\* or a definition that came between the statements.  No error comes of a path that
\* one edit tore apart.
FailuresExplained ==
  \A r \in Request : status[r] = "error" /\ Cardinality(moments[r]) <= 2 =>
    Unseen(r) \/ Unreadable(r) \/ DefinedMeanwhile(r)
=============================================================================

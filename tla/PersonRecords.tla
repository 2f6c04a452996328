---------------------------- MODULE PersonRecords ---------------------------
(***************************************************************************)
(* The person endpoints of one organization: PATCH and DELETE of a person, *)
(* POST person/update (bulk) and POST person/import (CSV), racing over one *)
(* SQLite database, together with the creation and update of the person    *)
(* field definitions they depend on.                                       *)
(*                                                                         *)
(* net/http runs every request in a goroutine of its own.  A statement     *)
(* outside meta.DB.Transaction is a step of its own, so the requests of    *)
(* other goroutines come between it and the next one; what the handler     *)
(* keeps of it is in the request's locals.  A transaction commits as       *)
(* if it ran alone, or fails.  The callers here see every person (they are *)
(* mapped to an unfiltered root group); PersonScope has the filters.       *)
(***************************************************************************)
EXTENDS SequencesExt

CONSTANTS Person, Def, Value, Nil, User, Fold,
          FieldName,    \* names of field definitions
          VoterIdField, \* the name "voter_id"
          Blank,        \* the empty string
          Request,      \* the requests of a behaviour, each made once
          Kind,         \* Kind[r]: the endpoint r calls
          UserOf,       \* UserOf[r]: the authenticated user of r
          PathReads,    \* what "voter_id = " and v, unquoted, is read as, for the
                        \* v in the paths of PATCH and DELETE
          ListReads,    \* what "voter_id = (...)" of the quoted vs is read as, for
                        \* the lists vs that update sends
          Bodies,       \* the "fields" objects that PATCH and update send
          Sheets,       \* the CSV tables that import sends
          SeedDefs,     \* the definitions the organization starts with
          SeedRows,     \* the persons it starts with, from an earlier import
          Allowances,   \* the value sets a definition may be edited to accept
          MaxEdits      \* bound: number of definition edits in a behaviour

Kinds == {"patch", "update", "delete", "import"}
DefRow == [name: FieldName \cup {Nil}, allowed: SUBSET Value]
Key == Person \X Def
Entry == [user: User, old: Value \cup {Nil}, new: Value \cup {Nil}]

\* A "fields" object: null (Nil) asks for the field to be deleted.
IsBody(b) == DOMAIN b \subseteq FieldName /\ \A n \in DOMAIN b : b[n] \in Value \cup {Nil}
\* A CSV row once its columns are mapped to field names.
IsRow(w) == DOMAIN w \subseteq FieldName /\ \A n \in DOMAIN w : w[n] \in Value

\* person.VoterID = fields[ColumnVoterID]: "" when there is no such column.
VoterOf(w) == IF VoterIdField \in DOMAIN w THEN w[VoterIdField] ELSE Blank

\* What the parser makes of a text: Nil when it refuses it, or an OR of ANDs of
\* conditions, name = value or (neg) name != value.
Condition == [name: FieldName, neg: BOOLEAN, value: Value]
Reading == (SUBSET SUBSET Condition) \cup {Nil}

NameIn(ds, d, n) == ds[d].name = n
Names(ds) == {ds[d].name : d \in Def} \ {Nil}
DefOf(ds, n) == CHOOSE d \in Def : NameIn(ds, d, n)

ASSUME RecordsAssumption ==
  /\ Nil \notin Value \cup FieldName \cup Person \cup Request
  /\ Blank \in Value /\ VoterIdField \in FieldName
  /\ Fold \in [Value -> Value]
  /\ DOMAIN PathReads \subseteq Value /\ \A v \in DOMAIN PathReads : PathReads[v] \in Reading
  /\ DOMAIN ListReads \subseteq SUBSET Value /\ \A vs \in DOMAIN ListReads : ListReads[vs] \in Reading
  /\ Kind \in [Request -> Kinds] /\ UserOf \in [Request -> User]
  /\ \A b \in Bodies : IsBody(b)
  /\ \A s \in Sheets : s \in Seq(Range(s)) /\ \A i \in 1..Len(s) : IsRow(s[i])
  /\ Allowances \subseteq SUBSET Value
  /\ MaxEdits \in Nat

ASSUME SeedAssumption ==
  /\ SeedDefs \in [Def -> DefRow]
  /\ \A d, e \in Def : d # e /\ SeedDefs[d].name # Nil => SeedDefs[d].name # SeedDefs[e].name
  /\ DOMAIN SeedRows \subseteq Person
  /\ \A p \in DOMAIN SeedRows :
       /\ IsRow(SeedRows[p]) /\ DOMAIN SeedRows[p] \subseteq Names(SeedDefs)
       /\ \A n \in DOMAIN SeedRows[p] : SeedRows[p][n] \in SeedDefs[DefOf(SeedDefs, n)].allowed
  /\ \A p, q \in DOMAIN SeedRows :
       p # q => Fold[VoterOf(SeedRows[p])] # Fold[VoterOf(SeedRows[q])]

VARIABLES person,   \* person[p]: voter ID of the row with ID p, Nil when none
          used,     \* person IDs handed out (autoIncrement never reuses one)
          field,    \* field[p, d]: value of the person_field row, Nil when none
          trail,    \* trail[p, d]: its person_audit rows, oldest first
          def,      \* def[d]: the person_field_definition row
          edits,    \* definition edits so far
          accepted, \* history: the values def[d] has ever accepted
          pc,       \* pc[r]: the statement request r is about to execute
          status,   \* status[r]: its answer
          call,     \* call[r]: its arguments
          known,    \* known[r]: the definitions it read last
          found,    \* found[r]: the persons it read last
          got,      \* got[r][p, n]: field n of person p as it read it before
          lock,     \* the request whose import transaction is open, or Nil
          opened,   \* history: the tables when it was opened, or Nil
          work      \* what that transaction has written, uncommitted

ledger == <<person, used, field, trail>>
Tables == [person |-> person, used |-> used, field |-> field, trail |-> trail]
locals == <<call, known, found, got>>
defs == <<def, edits, accepted>>
tx == <<lock, opened, work>>
vars == <<person, used, field, trail, def, edits, accepted,
          pc, status, call, known, found, got, lock, opened, work>>

Present == {p \in Person : person[p] # Nil}
DistinctVoters(pp) ==
  \A p, q \in Person : p # q /\ pp[p] # Nil /\ pp[q] # Nil => Fold[pp[p]] # Fold[pp[q]]

Phase == {"idle", "filter_definitions", "filter_persons", "filter_fields", "definitions",
          "commit", "delete", "reread_definitions", "reread_persons", "reread_fields",
          "import_definitions", "import_existing", "import_begin", "import_rows", "reply", "answered"}
Status == {"none", "ok", "not_found", "bad_request", "error", "lost"}

NoDefs == [d \in Def |-> [name |-> Nil, allowed |-> {}]]
NoPersons == [p \in Person |-> Nil]
NoFields == [x \in Person \X FieldName |-> Nil]
NoCall == [want |-> {}, body |-> <<>>, sheet |-> <<>>]
NoWork == [next |-> 0, person |-> NoPersons, used |-> {}, field |-> [k \in Key |-> Nil],
           trail |-> [k \in Key |-> <<>>]]
-----------------------------------------------------------------------------
SeedPerson == [p \in Person |-> IF p \in DOMAIN SeedRows THEN VoterOf(SeedRows[p]) ELSE Nil]
SeedField ==
  [k \in Key |-> IF k[1] \in DOMAIN SeedRows /\ SeedDefs[k[2]].name \in DOMAIN SeedRows[k[1]]
                 THEN SeedRows[k[1]][SeedDefs[k[2]].name] ELSE Nil]

Init ==
  /\ person = SeedPerson /\ used = DOMAIN SeedRows /\ field = SeedField
  /\ trail = [k \in Key |-> <<>>]
  /\ def = SeedDefs /\ edits = 0 /\ accepted = [d \in Def |-> SeedDefs[d].allowed]
  /\ pc = [r \in Request |-> "idle"] /\ status = [r \in Request |-> "none"]
  /\ call = [r \in Request |-> NoCall] /\ known = [r \in Request |-> NoDefs]
  /\ found = [r \in Request |-> NoPersons] /\ got = [r \in Request |-> NoFields]
  /\ lock = Nil /\ opened = Nil /\ work = NoWork

Goto(r, p) == pc' = [pc EXCEPT ![r] = p]

\* A handler that returns drops its local variables.
Answer(r, s) ==
  /\ Goto(r, "answered") /\ status' = [status EXCEPT ![r] = s]
  /\ call' = [call EXCEPT ![r] = NoCall] /\ known' = [known EXCEPT ![r] = NoDefs]
  /\ found' = [found EXCEPT ![r] = NoPersons] /\ got' = [got EXCEPT ![r] = NoFields]

Found(r) == {p \in Person : found[r][p] # Nil}
-----------------------------------------------------------------------------
(* Requests arrive. *)

Call(r, kind, p, want, body, sheet) ==
  /\ Kind[r] = kind /\ pc[r] = "idle" /\ Goto(r, p)
  /\ call' = [call EXCEPT ![r] = [want |-> want, body |-> body, sheet |-> sheet]]
  /\ UNCHANGED <<status, known, found, got, ledger, defs, tx>>

DeletePerson(r, v) == Call(r, "delete", "filter_definitions", {v}, <<>>, <<>>)
PatchPerson(r, v, body) == Call(r, "patch", "filter_definitions", {v}, body, <<>>)
ImportPersons(r, sheet) == Call(r, "import", "import_definitions", {}, <<>>, sheet)

\* No voter IDs: the empty answer at once.
UpdatePersons(r, vs, body) ==
  \/ vs # {} /\ Call(r, "update", "filter_definitions", vs, body, <<>>)
  \/ /\ vs = {} /\ Kind[r] = "update" /\ pc[r] = "idle"
     /\ Answer(r, "ok")
     /\ UNCHANGED <<ledger, defs, tx>>
-----------------------------------------------------------------------------
(* filterPersons, once before the transaction and once ("reread") after.   *)

\* The text begins with "voter_id = ": the condition every reading of it has.
Text(r) == IF Kind[r] = "update" THEN ListReads[call[r].want]
           ELSE PathReads[CHOOSE v \in call[r].want : TRUE]
Mentions(C) == {VoterIdField} \cup {c.name : c \in UNION C}

\* A text that does not parse, or that names no definition there is, is an error.
FilterDefinitions(r) ==
  /\ pc[r] \in {"filter_definitions", "reread_definitions"}
  /\ IF Text(r) = Nil \/ ~(Mentions(Text(r)) \subseteq Names(def)) THEN Answer(r, "error")
     ELSE /\ known' = [known EXCEPT ![r] = def]
          /\ Goto(r, IF pc[r] = "filter_definitions" THEN "filter_persons" ELSE "reread_persons")
          /\ UNCHANGED <<status, call, found, got>>
  /\ UNCHANGED <<ledger, defs, tx>>

\* SELECT ... WHERE the condition holds, comparing as "collate nocase" does.
Meets(c, p, ds) ==
  LET x == IF c.name = VoterIdField THEN person[p] ELSE field[<<p, DefOf(ds, c.name)>>]
  IN IF c.neg THEN x = Nil \/ Fold[x] # Fold[c.value] ELSE x # Nil /\ Fold[x] = Fold[c.value]
Satisfies(C, p, ds) == \E cs \in C : \A c \in cs : Meets(c, p, ds)
HitsUnfiltered(r) == Present
Hits(r) == {p \in Present : Satisfies(Text(r), p, known[r])}

\* LIMIT: one person, any one, or as many as the list of update has entries; it
\* may have an ID twice.
Picks(r) ==
  IF Kind[r] = "update"
  THEN {S \in SUBSET Hits(r) : S = Hits(r) \/ Cardinality(S) >= Cardinality(call[r].want)}
  ELSE IF Hits(r) = {} THEN {{}} ELSE {{p} : p \in Hits(r)}

FilterPersons(r) ==
  /\ pc[r] \in {"filter_persons", "reread_persons"}
  /\ \E S \in Picks(r) :
       found' = [found EXCEPT ![r] = [p \in Person |-> IF p \in S THEN person[p] ELSE Nil]]
  /\ Goto(r, IF pc[r] = "filter_persons" THEN "filter_fields" ELSE "reread_fields")
  /\ UNCHANGED <<status, call, known, got>>
  /\ UNCHANGED <<ledger, defs, tx>>

\* A field row whose definition was created since is an error.
UnknownField(r) ==
  \E p \in Found(r), d \in Def : field[<<p, d>>] # Nil /\ known[r][d].name = Nil

FieldsByName(r) ==
  [x \in Person \X FieldName |->
     IF x[1] \in Found(r) /\ x[2] \in Names(known[r])
     THEN field[<<x[1], DefOf(known[r], x[2])>>] ELSE Nil]

\* update compares voter IDs as Go strings, not as the database does.
MissingFolded(r) ==
  {Fold[found[r][p]] : p \in Found(r)} # {Fold[v] : v \in call[r].want}
Missing(r) == {found[r][p] : p \in Found(r)} # call[r].want

FilterFields(r) ==
  /\ pc[r] = "filter_fields"
  /\ IF UnknownField(r) THEN Answer(r, "error")
     ELSE IF Kind[r] = "update" /\ Missing(r) THEN Answer(r, "bad_request")
     ELSE IF Found(r) = {} THEN Answer(r, "not_found")
     ELSE /\ got' = [got EXCEPT ![r] = FieldsByName(r)]
          /\ Goto(r, IF Kind[r] = "delete" THEN "delete" ELSE "definitions")
          /\ UNCHANGED <<status, call, known, found>>
  /\ UNCHANGED <<ledger, defs, tx>>

\* The answer of PATCH and update: the persons as they are after the commit.
RereadFields(r) ==
  /\ pc[r] = "reread_fields"
  /\ IF UnknownField(r) THEN Answer(r, "error")
     ELSE IF Kind[r] = "patch" /\ Found(r) = {} THEN Answer(r, "not_found")
     ELSE Answer(r, "ok")
  /\ UNCHANGED <<ledger, defs, tx>>
-----------------------------------------------------------------------------
(* PATCH and update: read the definitions again, validate, commit. *)

\* Every name is defined and every non-null value is valid for its definition.
ValidBodyNamesOnly(r) == DOMAIN call[r].body \subseteq Names(def)
ValidBody(r) ==
  \A n \in DOMAIN call[r].body :
    /\ n \in Names(def)
    /\ call[r].body[n] # Nil => call[r].body[n] \in def[DefOf(def, n)].allowed

ReadDefinitions(r) ==
  /\ pc[r] = "definitions"
  /\ IF ~ValidBody(r) THEN Answer(r, "bad_request")
     ELSE /\ known' = [known EXCEPT ![r] = def]
          /\ Goto(r, "commit")
          /\ UNCHANGED <<status, call, found, got>>
  /\ UNCHANGED <<ledger, defs, tx>>

\* The pairs whose requested value differs from the value read before the
\* transaction; the others are skipped without looking at the row.
Touched(r) ==
  {k \in Key : LET n == known[r][k[2]].name
               IN /\ k[1] \in Found(r) /\ n \in DOMAIN call[r].body
                  /\ got[r][<<k[1], n>>] # call[r].body[n]}
NewValue(r, k) == call[r].body[known[r][k[2]].name]
OldValue(r, k) == got[r][<<k[1], known[r][k[2]].name>>]
AuditOfNobody(r, k) == [user |-> Nil, old |-> OldValue(r, k), new |-> NewValue(r, k)]
AuditOfSwapped(r, k) == [user |-> UserOf[r], old |-> NewValue(r, k), new |-> OldValue(r, k)]
AuditOf(r, k) == [user |-> UserOf[r], old |-> OldValue(r, k), new |-> NewValue(r, k)]

\* Rows written for the pairs T of a person that table pp no longer has fail
\* their foreign keys (person_field.person_id, person_audit.person_id).
OrphanedNever(T, pp) == FALSE
Orphaned(T, pp) == \E k \in T : pp[k[1]] = Nil

CommitFieldsSilentDelete(r) ==
  /\ pc[r] = "commit" /\ lock = Nil /\ ~Orphaned(Touched(r), person)
  /\ field' = [k \in Key |-> IF k \in Touched(r) THEN NewValue(r, k) ELSE field[k]]
  /\ trail' = [k \in Key |-> IF k \in Touched(r) /\ NewValue(r, k) # Nil
                             THEN Append(trail[k], AuditOf(r, k)) ELSE trail[k]]
  /\ Goto(r, "reread_definitions") /\ UNCHANGED <<status, locals>>
  /\ UNCHANGED <<person, used, defs, tx>>
CommitFields(r) ==
  /\ pc[r] = "commit" /\ lock = Nil
  /\ IF Orphaned(Touched(r), person)
     THEN Answer(r, "error") /\ UNCHANGED <<field, trail>>
     ELSE /\ field' = [k \in Key |-> IF k \in Touched(r) THEN NewValue(r, k) ELSE field[k]]
          /\ trail' = [k \in Key |-> IF k \in Touched(r) THEN Append(trail[k], AuditOf(r, k))
                                     ELSE trail[k]]
          /\ Goto(r, "reread_definitions") /\ UNCHANGED <<status, locals>>
  /\ UNCHANGED <<person, used, defs, tx>>

CommitDeleteUncascaded(r) ==
  /\ pc[r] = "delete" /\ lock = Nil
  /\ person' = [p \in Person |-> IF p \in Found(r) THEN Nil ELSE person[p]]
  /\ Goto(r, "reply") /\ UNCHANGED <<status, locals>>
  /\ UNCHANGED <<used, field, trail, defs, tx>>
\* DELETE by ID: no row is no error.  person_field and person_audit cascade.
CommitDelete(r) ==
  /\ pc[r] = "delete" /\ lock = Nil
  /\ person' = [p \in Person |-> IF p \in Found(r) THEN Nil ELSE person[p]]
  /\ field' = [k \in Key |-> IF k[1] \in Found(r) THEN Nil ELSE field[k]]
  /\ trail' = [k \in Key |-> IF k[1] \in Found(r) THEN <<>> ELSE trail[k]]
  /\ Goto(r, "reply") /\ UNCHANGED <<status, locals>>
  /\ UNCHANGED <<used, defs, tx>>

\* The answer to a DELETE or an import leaves after its commit.
Reply(r) ==
  /\ pc[r] = "reply"
  /\ Answer(r, "ok")
  /\ UNCHANGED <<ledger, defs, tx>>
-----------------------------------------------------------------------------
(* Import. *)

ImportDefinitions(r) ==
  /\ pc[r] = "import_definitions"
  /\ known' = [known EXCEPT ![r] = def] /\ Goto(r, "import_existing")
  /\ UNCHANGED <<status, call, found, got>>
  /\ UNCHANGED <<ledger, defs, tx>>

Rows(r) == 1..Len(call[r].sheet)
\* The rows of persons that did not exist, by exact voter ID, in snapshot pp.
NewRows(r, pp) == {i \in Rows(r) : \A p \in Person : pp[p] # VoterOf(call[r].sheet[i])}

\* A blank cell is accepted unseen for a person that exists, validated otherwise.
ValidRowBlanks(r, i, pp) ==
  LET row == call[r].sheet[i]
  IN \A n \in DOMAIN row :
       /\ n \in Names(known[r])
       /\ row[n] \in {Blank} \cup known[r][DefOf(known[r], n)].allowed
ValidRow(r, i, pp) ==
  LET row == call[r].sheet[i]
  IN \A n \in DOMAIN row :
       /\ n \in Names(known[r])
       /\ \/ row[n] = Blank /\ i \notin NewRows(r, pp)
          \/ row[n] \in known[r][DefOf(known[r], n)].allowed

ImportExisting(r) ==
  /\ pc[r] = "import_existing"
  /\ IF \A i \in Rows(r) : ValidRow(r, i, person)
     THEN /\ found' = [found EXCEPT ![r] = person] /\ Goto(r, "import_begin")
          /\ UNCHANGED <<status, call, known, got>>
     ELSE Answer(r, "error")
  /\ UNCHANGED <<ledger, defs, tx>>

\* The unique index, against the rows there are by now and between new rows.
ClashWithSnapshot(r) ==
  \E i \in NewRows(r, found[r]), p \in Found(r) :
    Fold[VoterOf(call[r].sheet[i])] = Fold[found[r][p]]
Clash(r) ==
  LET N == NewRows(r, found[r])
      voter(i) == Fold[VoterOf(call[r].sheet[i])]
  IN \/ \E i, j \in N : i # j /\ voter(i) = voter(j)
     \/ \E i \in N, p \in Present : voter(i) = Fold[person[p]]

\* The open transaction after the new persons and their fields are created
\* under the IDs ids; creating them writes no audit entries.
Created(r, ids) ==
  LET N == DOMAIN ids
      rowOf(p) == call[r].sheet[CHOOSE i \in N : ids[i] = p]
      fresh == Range(ids)
      name(d) == known[r][d].name
  IN [next |-> 1, used |-> used \cup fresh, trail |-> trail,
      person |-> [p \in Person |-> IF p \in fresh THEN VoterOf(rowOf(p)) ELSE person[p]],
      field |-> [k \in Key |-> IF k[1] \in fresh /\ name(k[2]) \in DOMAIN rowOf(k[1])
                               THEN rowOf(k[1])[name(k[2])] ELSE field[k]]]

ImportBegin(r) ==
  /\ pc[r] = "import_begin" /\ lock = Nil
  /\ IF Clash(r) THEN Answer(r, "error") /\ UNCHANGED tx
     ELSE \E ids \in [NewRows(r, found[r]) -> Person \ used] :
            /\ IsInjective(ids)
            /\ lock' = r /\ opened' = Tables /\ work' = Created(r, ids)
            /\ Goto(r, "import_rows") /\ UNCHANGED <<status, locals>>
  /\ UNCHANGED <<ledger, defs>>

\* Leaving the transaction: what it wrote is dropped.
RollbackKeeps(r) ==
  /\ Answer(r, "error") /\ lock' = Nil /\ opened' = Nil /\ work' = NoWork
  /\ person' = work.person /\ used' = work.used
  /\ field' = work.field /\ trail' = work.trail
Rollback(r) ==
  /\ Answer(r, "error") /\ lock' = Nil /\ opened' = Nil /\ work' = NoWork
  /\ UNCHANGED ledger

\* The existing persons that row i updates, and the pairs it changes: the
\* fields are read again inside the transaction, and blank cells are ignored.
TargetOf(r, i) == {p \in Person : found[r][p] = VoterOf(call[r].sheet[i])}
RowTouched(r, i) ==
  {k \in Key : LET row == call[r].sheet[i] n == known[r][k[2]].name
               IN /\ k[1] \in TargetOf(r, i) /\ n \in DOMAIN row
                  /\ row[n] # Blank /\ row[n] # work.field[k]}
RowValue(r, i, k) == call[r].sheet[i][known[r][k[2]].name]
RowAuditStale(r, i, k) == [user |-> UserOf[r], old |-> field[k], new |-> RowValue(r, i, k)]
RowAudit(r, i, k) == [user |-> UserOf[r], old |-> work.field[k], new |-> RowValue(r, i, k)]

ImportRowRetries(r) ==
  /\ pc[r] = "import_rows" /\ lock = r /\ work.next \in Rows(r)
  /\ ~Orphaned(RowTouched(r, work.next), work.person)
  /\ LET i == work.next
         T == RowTouched(r, i)
     IN work' = [work EXCEPT
          !.next = i + 1,
          !.field = [k \in Key |-> IF k \in T THEN RowValue(r, i, k) ELSE work.field[k]],
          !.trail = [k \in Key |-> IF k \in T THEN Append(work.trail[k], RowAudit(r, i, k))
                                   ELSE work.trail[k]]]
  /\ UNCHANGED <<ledger, pc, status, locals, lock, opened, defs>>
ImportRow(r) ==
  /\ pc[r] = "import_rows" /\ lock = r /\ work.next \in Rows(r)
  /\ LET i == work.next
         T == RowTouched(r, i)
     IN IF Orphaned(T, work.person) THEN Rollback(r)
        ELSE /\ work' = [next |-> i + 1, person |-> work.person, used |-> work.used,
                         field |-> [k \in Key |-> IF k \in T THEN RowValue(r, i, k)
                                                  ELSE work.field[k]],
                         trail |-> [k \in Key |->
                                      IF k \in T THEN Append(work.trail[k], RowAudit(r, i, k))
                                      ELSE work.trail[k]]]
             /\ UNCHANGED <<ledger, pc, status, locals, lock, opened>>
  /\ UNCHANGED defs

ImportCommitUnaudited(r) ==
  /\ pc[r] = "import_rows" /\ lock = r /\ work.next \notin Rows(r)
  /\ person' = work.person /\ used' = work.used /\ field' = work.field
  /\ Goto(r, "reply") /\ UNCHANGED <<status, locals>> /\ lock' = Nil /\ opened' = Nil /\ work' = NoWork
  /\ UNCHANGED <<trail, defs>>
ImportCommit(r) ==
  /\ pc[r] = "import_rows" /\ lock = r /\ work.next \notin Rows(r)
  /\ person' = work.person /\ used' = work.used
  /\ field' = work.field /\ trail' = work.trail
  /\ Goto(r, "reply") /\ UNCHANGED <<status, locals>> /\ lock' = Nil /\ opened' = Nil /\ work' = NoWork
  /\ UNCHANGED defs
-----------------------------------------------------------------------------
(* The database and the process around the handlers. *)

\* SQLite gives up waiting for the write lock: the transaction fails.
Busy(r) ==
  /\ pc[r] \in {"commit", "delete", "import_begin"} /\ lock # Nil
  /\ Answer(r, "error")
  /\ UNCHANGED <<ledger, defs, tx>>

\* The process stops and starts again: open requests get no answer, the open
\* transaction is rolled back, and the database keeps what was committed.
Restart ==
  /\ \E r \in Request : pc[r] \notin {"idle", "answered"}
  /\ LET cut == {r \in Request : pc[r] \notin {"idle", "answered"}}
         dropped(f, none) == [r \in Request |-> IF r \in cut THEN none ELSE f[r]]
     IN /\ pc' = dropped(pc, "answered") /\ status' = dropped(status, "lost")
        /\ call' = dropped(call, NoCall) /\ known' = dropped(known, NoDefs)
        /\ found' = dropped(found, NoPersons) /\ got' = dropped(got, NoFields)
  /\ lock' = Nil /\ opened' = Nil /\ work' = NoWork
  /\ UNCHANGED <<ledger, defs>>

EditDefinition(d, n, A) ==
  /\ lock = Nil /\ edits < MaxEdits
  /\ \A e \in Def \ {d} : def[e].name # n
  /\ def' = [def EXCEPT ![d] = [name |-> n, allowed |-> A]]
  /\ accepted' = [accepted EXCEPT ![d] = @ \cup A]
  /\ edits' = edits + 1
  /\ UNCHANGED <<ledger, pc, status, locals, tx>>

CreateDefinition(d, n, A) == def[d].name = Nil /\ EditDefinition(d, n, A)
UpdateDefinition(d, n, A) == def[d].name # Nil /\ EditDefinition(d, n, A)
-----------------------------------------------------------------------------
Step(r) ==
  \/ FilterDefinitions(r) \/ FilterPersons(r) \/ FilterFields(r) \/ RereadFields(r)
  \/ ReadDefinitions(r) \/ CommitFields(r) \/ CommitDelete(r)
  \/ ImportDefinitions(r) \/ ImportExisting(r) \/ ImportBegin(r)
  \/ ImportRow(r) \/ ImportCommit(r) \/ Reply(r) \/ Busy(r)

Arrive(r) ==
  \/ \E v \in DOMAIN PathReads : DeletePerson(r, v)
  \/ \E v \in DOMAIN PathReads, b \in Bodies : PatchPerson(r, v, b)
  \/ \E vs \in DOMAIN ListReads, b \in Bodies : UpdatePersons(r, vs, b)
  \/ \E s \in Sheets : ImportPersons(r, s)

Define ==
  \E d \in Def, n \in FieldName, A \in Allowances :
    CreateDefinition(d, n, A) \/ UpdateDefinition(d, n, A)

Next == (\E r \in Request : Arrive(r) \/ Step(r)) \/ Define \/ Restart

Spec == Init /\ [][Next]_vars
\* A goroutine that can run does run, and SQLite answers every statement.
FairSpec == Spec /\ \A r \in Request : WF_vars(Step(r))
-----------------------------------------------------------------------------
CallType == [want: SUBSET Value, body: Bodies \cup {<<>>}, sheet: Sheets \cup {<<>>}]
TablesType ==
  [person: [Person -> Value \cup {Nil}], used: SUBSET Person,
   field: [Key -> Value \cup {Nil}], trail: [Key -> Seq(Entry)]]
WorkType ==
  [next: Nat, person: [Person -> Value \cup {Nil}], used: SUBSET Person,
   field: [Key -> Value \cup {Nil}], trail: [Key -> Seq(Entry)]]

\* The type of every variable: the tables, the requests and the transaction.
TypeOK ==
  /\ person \in [Person -> Value \cup {Nil}] /\ used \in SUBSET Person
  /\ field \in [Key -> Value \cup {Nil}] /\ trail \in [Key -> Seq(Entry)]
  /\ def \in [Def -> DefRow] /\ edits \in Nat /\ accepted \in [Def -> SUBSET Value]
  /\ pc \in [Request -> Phase] /\ status \in [Request -> Status]
  /\ call \in [Request -> CallType] /\ known \in [Request -> [Def -> DefRow]]
  /\ found \in [Request -> [Person -> Value \cup {Nil}]]
  /\ got \in [Request -> [Person \X FieldName -> Value \cup {Nil}]]
  /\ lock \in Request \cup {Nil} /\ opened \in TablesType \cup {Nil} /\ work \in WorkType

\* No row without its person: whatever deletes, updates and imports interleave,
\* no person_field or person_audit row outlives the person it belongs to, and
\* none is written for a person that a racing DELETE has removed.
NoOrphans ==
  \A k \in Key : person[k[1]] = Nil => field[k] = Nil /\ trail[k] = <<>>

\* The audit trail explains the stored value: when a person's field has a trail,
\* its last entry's new value is what the row holds (nil: no row), although the
\* old values in it may come from snapshots that other requests overtook.
TrailTellsValue ==
  \A k \in Key : trail[k] # <<>> => Last(trail[k]).new = field[k]

\* Two persons never have voter IDs that the database takes for equal, even when
\* two imports both found a voter missing and both set out to create it.
UniqueVoterIDs == DistinctVoters(person)

\* Every stored value was acceptable to its definition at some time: validation
\* runs before the transaction, on definitions that may be edited before it, and
\* an import lets a blank cell through only for a person it leaves alone.
StoredValuesAccepted ==
  \A k \in Key : field[k] # Nil => field[k] \in accepted[k[2]]

\* Every change to a field of a person that stays is in the audit trail, which
\* only ever grows, and by entries of the user whose request is committing: no
\* endpoint rewrites history, changes a field silently or in another's name.
Committing(r) == pc[r] \in {"commit", "import_rows"} /\ pc'[r] # pc[r]
EveryChangeAudited ==
  [][\A k \in Key : person[k[1]] # Nil /\ person'[k[1]] # Nil =>
       /\ IsPrefix(trail[k], trail'[k])
       /\ field'[k] # field[k] => trail[k] # trail'[k]
       /\ trail'[k] # trail[k] => \E r \in Request : Committing(r) /\
            \A i \in Len(trail[k]) + 1 .. Len(trail'[k]) : trail'[k][i].user = UserOf[r]]_vars

\* A person disappears only by a DELETE on the way to its successful answer, one
\* person by each; and when that DELETE's path is read as conditions on the voter
\* ID only (a plain ID is: that it is the ID), the person meets them to the end.
OnlyVoterId(C) == \A c \in UNION C : c.name = VoterIdField
OnlyRequestedDeletes ==
  [][\A p \in Person : person[p] # Nil /\ person'[p] = Nil =>
       /\ \A q \in Person : person[q] # Nil /\ person'[q] = Nil => q = p
       /\ \E r \in Request : /\ Kind[r] = "delete" /\ pc[r] = "delete" /\ pc'[r] = "reply"
                             /\ OnlyVoterId(Text(r)) => Satisfies(Text(r), p, known[r])]_vars

\* A bulk update that commits has changed persons with exactly the voter IDs it was
\* given, nobody else, and all of them: for each ID it read a person, and if that is
\* still there then every value that differed when read is now the one asked for,
\* whatever the database makes of the IDs and whatever others committed meanwhile.
UpdatesThoseNamed ==
  [][\A r \in Request :
       Kind[r] = "update" /\ pc[r] = "commit" /\ pc'[r] = "reread_definitions" =>
         /\ \A k \in Key : field'[k] # field[k] => person[k[1]] \in call[r].want
         /\ \A v \in call[r].want : \E p \in Person :
              /\ found[r][p] = v
              /\ \A n \in DOMAIN call[r].body :
                   person[p] # Nil /\ got[r][<<p, n>>] # call[r].body[n] =>
                     field'[<<p, DefOf(known[r], n)>>] = call[r].body[n]]_vars

\* An import that commits, and so may be answered, did all of it: every row with a voter ID has
\* its person, holding each non-blank cell that no later row for the same voter
\* overrides, whatever happened between reading the persons and the commit.
Overridden(r, i, n) ==
  \E j \in Rows(r) : LET s == call[r].sheet IN
    /\ j > i /\ VoterOf(s[j]) = VoterOf(s[i])
    /\ n \in DOMAIN s[j] /\ s[j][n] # Blank
SuccessfulImportIsComplete ==
  [][\A r \in Request :
       pc[r] = "import_rows" /\ pc'[r] = "reply" =>
         \A i \in Rows(r) : LET row == call[r].sheet[i] IN VoterOf(row) # Blank =>
           \E p \in Person :
             /\ person'[p] = VoterOf(row)
             /\ \A n \in DOMAIN row : row[n] # Blank /\ ~Overridden(r, i, n) =>
                  field'[<<p, DefOf(known[r], n)>>] = row[n]]_vars

\* An import that fails or is cut off changed nothing: when its transaction ends
\* without a commit, whatever rows it had written by then, every table (persons,
\* IDs, fields, audit entries) is what it was when the transaction was opened.
FailedImportChangesNothing ==
  [][\A r \in Request : lock = r /\ pc'[r] = "answered" => Tables' = opened]_vars

\* The entries an import adds start from the value stored before the commit and
\* each continues the one before it: import reads the old values in its own
\* transaction, so no concurrent request can make its audit entries wrong.
ImportAuditsChain ==
  [][\A r \in Request, k \in Key :
       pc[r] = "import_rows" /\ pc'[r] = "reply" /\ person[k[1]] # Nil =>
         \A i \in Len(trail[k]) + 1 .. Len(trail'[k]) :
           trail'[k][i].old = IF i = Len(trail[k]) + 1 THEN field[k]
                              ELSE trail'[k][i - 1].new]_vars

\* "If this is nil, then the field was added" (schema/person.go, OldValue): an
\* entry without an old value is written only for a field that had no row.
NilOldMeansAdded ==
  [][\A k \in Key : person'[k[1]] # Nil /\ Len(trail'[k]) = Len(trail[k]) + 1
       /\ Last(trail'[k]).old = Nil => field[k] = Nil]_vars

\* Every request that has arrived is answered or cut off by a restart: no chain
\* of deletions, edits and open transactions leaves a handler waiting forever.
EveryRequestEnds ==
  \A r \in Request : (pc[r] # "idle") ~> (pc[r] = "answered")

\* The committed tables behave as PersonLedger promises, whatever requests are
\* under way: each commit is one of its steps, everything else a stutter.
Ledger == INSTANCE PersonLedger WITH
  Person <- Person, Def <- Def, Value <- Value, Nil <- Nil, User <- User, Fold <- Fold,
  person <- person, used <- used, field <- field, trail <- trail
ImplementsLedger == Ledger!LedgerSpec
=============================================================================

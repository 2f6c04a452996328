------------------------ MODULE PersonRecords_proofs ------------------------
(***************************************************************************)
(* Proofs about PersonRecords, for every set of persons, definitions,      *)
(* strings, requests, bodies and sheets: the tables are well typed, and    *)
(* neither racing requests nor failed transactions leave orphaned rows,    *)
(* duplicate voters, a trail that contradicts the stored value, or a value *)
(* that its definition never accepted.                                     *)
(*                                                                         *)
(* PersonRecords implements PersonLedger: every commit is a step of the    *)
(* ledger, and everything else a request, a restart or an edit of the      *)
(* definitions does is a stutter.  What the ledger promises of persons and *)
(* their audit trails follows.  At the end: an import that fails leaves    *)
(* nothing, and one that commits has done every row.                       *)
(***************************************************************************)
EXTENDS PersonRecords, TLAPS

LEMMA DefOfType ==
  ASSUME NEW ds \in [Def -> DefRow], NEW n \in Names(ds)
  PROVE  DefOf(ds, n) \in Def /\ ds[DefOf(ds, n)].name = n
  BY DEF Names, DefOf, NameIn

LEMMA NoneTypes ==
  /\ NoCall \in CallType /\ NoDefs \in [Def -> DefRow] /\ NoWork \in WorkType
  /\ NoPersons \in [Person -> Value \cup {Nil}]
  /\ NoFields \in [Person \X FieldName -> Value \cup {Nil}]
  BY DEF NoCall, NoDefs, NoWork, NoPersons, NoFields, CallType, DefRow, WorkType

\* The typing of the requests' side of the state.
ReqOK ==
  /\ pc \in [Request -> Phase] /\ status \in [Request -> Status]
  /\ call \in [Request -> CallType] /\ known \in [Request -> [Def -> DefRow]]
  /\ found \in [Request -> [Person -> Value \cup {Nil}]]
  /\ got \in [Request -> [Person \X FieldName -> Value \cup {Nil}]]

LEMMA AnswerType ==
  ASSUME ReqOK, NEW r \in Request, NEW s \in Status, Answer(r, s)
  PROVE  ReqOK'
  BY NoneTypes DEF Answer, Goto, ReqOK, Phase

LEMMA GotoType ==
  ASSUME ReqOK, NEW r \in Request, NEW p \in Phase, Goto(r, p), UNCHANGED <<status, locals>>
  PROVE  ReqOK'
  BY DEF Goto, ReqOK, locals

\* The seed is a state of the tables: every row in it is typed.
LEMMA InitType == Init => TypeOK
<1> SUFFICES ASSUME Init PROVE TypeOK
  OBVIOUS
<1> USE RecordsAssumption, SeedAssumption DEF Init
<1>1. person \in [Person -> Value \cup {Nil}] /\ used \in SUBSET Person
  BY DEF SeedPerson, VoterOf, IsRow
<1>2. field \in [Key -> Value \cup {Nil}]
  BY DEF SeedField, IsRow, Key
<1>3. trail \in [Key -> Seq(Entry)]
  OBVIOUS
<1>4. def \in [Def -> DefRow] /\ edits \in Nat /\ accepted \in [Def -> SUBSET Value]
  BY DEF DefRow
<1>5. ReqOK
  BY NoneTypes DEF ReqOK, Phase, Status
<1>6. QED
  BY <1>1, <1>2, <1>3, <1>4, <1>5, NoneTypes DEF TypeOK, ReqOK
-----------------------------------------------------------------------------
(* Type correctness, one lemma per group of actions. *)

LEMMA ArriveType ==
  ASSUME ReqOK, NEW r \in Request, Arrive(r)
  PROVE  ReqOK' /\ UNCHANGED <<ledger, defs, tx>>
<1> USE RecordsAssumption
<1> DEFINE Called == \E k \in Kinds, p \in Phase, w \in SUBSET Value, b \in Bodies \cup {<<>>},
                        s \in Sheets \cup {<<>>} : Call(r, k, p, w, b, s)
<1>1. CASE Called
  <2>1. PICK p \in Phase, w \in SUBSET Value, b \in Bodies \cup {<<>>},
             s \in Sheets \cup {<<>>} :
          /\ Goto(r, p) /\ UNCHANGED <<status, known, found, got, ledger, defs, tx>>
          /\ call' = [call EXCEPT ![r] = [want |-> w, body |-> b, sheet |-> s]]
    BY <1>1 DEF Call
  <2>2. [want |-> w, body |-> b, sheet |-> s] \in CallType
    BY DEF CallType
  <2>3. QED
    BY <2>1, <2>2 DEF Goto, ReqOK
<1>2. CASE Answer(r, "ok") /\ UNCHANGED <<ledger, defs, tx>>
  BY <1>2, AnswerType DEF Status
<1>3. Called \/ (Answer(r, "ok") /\ UNCHANGED <<ledger, defs, tx>>)
  <2>1. CASE \E v \in DOMAIN PathReads : DeletePerson(r, v)
    BY <2>1 DEF DeletePerson, Kinds, Phase
  <2>2. CASE \E v \in DOMAIN PathReads, b \in Bodies : PatchPerson(r, v, b)
    BY <2>2 DEF PatchPerson, Kinds, Phase
  <2>3. CASE \E vs \in DOMAIN ListReads, b \in Bodies : UpdatePersons(r, vs, b)
    BY <2>3 DEF UpdatePersons, Kinds, Phase
  <2>4. CASE \E s \in Sheets : ImportPersons(r, s)
    BY <2>4 DEF ImportPersons, Kinds, Phase
  <2>5. QED
    BY <2>1, <2>2, <2>3, <2>4 DEF Arrive
<1>4. QED
  BY <1>1, <1>2, <1>3

LEMMA FieldsByNameType ==
  ASSUME TypeOK, NEW r \in Request
  PROVE  FieldsByName(r) \in [Person \X FieldName -> Value \cup {Nil}]
<1>1. known[r] \in [Def -> DefRow]
  BY DEF TypeOK
<1>2. SUFFICES ASSUME NEW x \in Person \X FieldName, x[2] \in Names(known[r])
               PROVE  field[<<x[1], DefOf(known[r], x[2])>>] \in Value \cup {Nil}
  BY DEF FieldsByName
<1>3. DefOf(known[r], x[2]) \in Def
  BY <1>1, <1>2, DefOfType
<1>4. QED
  BY <1>2, <1>3 DEF TypeOK, Key

\* The steps that only read the database.
Reads(r) ==
  \/ FilterDefinitions(r) \/ FilterPersons(r) \/ FilterFields(r) \/ RereadFields(r)
  \/ ReadDefinitions(r) \/ ImportDefinitions(r) \/ ImportExisting(r)
  \/ Reply(r) \/ Busy(r)

LEMMA ReadType ==
  ASSUME TypeOK, NEW r \in Request, Reads(r)
  PROVE  ReqOK' /\ UNCHANGED <<ledger, defs, tx>>
<1>1. UNCHANGED <<ledger, defs, tx>>
  BY DEF Reads, FilterDefinitions, FilterPersons, FilterFields, RereadFields, ReadDefinitions,
         ImportDefinitions, ImportExisting, Reply, Busy
<1>2. ReqOK
  BY DEF ReqOK, TypeOK
<1>3. CASE \E s \in Status : Answer(r, s)
  BY <1>1, <1>2, <1>3, AnswerType
<1>4. CASE ~ \E s \in Status : Answer(r, s)
  <2>0. /\ ~Answer(r, "ok") /\ ~Answer(r, "error")
        /\ ~Answer(r, "bad_request") /\ ~Answer(r, "not_found")
    BY <1>4 DEF Status
  <2>1. CASE FilterDefinitions(r)
    BY <1>2, <2>0, <2>1 DEF FilterDefinitions, Goto, TypeOK, ReqOK, Phase
  <2>2. CASE FilterPersons(r)
    <3>1. PICK S \in Picks(r) :
            found' = [found EXCEPT ![r] = [p \in Person |-> IF p \in S THEN person[p] ELSE Nil]]
      BY <2>2 DEF FilterPersons
    <3> QED BY <1>1, <1>2, <2>2, <3>1 DEF FilterPersons, Goto, TypeOK, ReqOK, Phase
  <2>3. CASE FilterFields(r)
    <3>1. /\ got' = [got EXCEPT ![r] = FieldsByName(r)]
          /\ Goto(r, "delete") \/ Goto(r, "definitions")
          /\ UNCHANGED <<status, call, known, found>>
      BY <2>0, <2>3 DEF FilterFields
    <3>2. QED
      BY <1>1, <1>2, <3>1, FieldsByNameType DEF Goto, ReqOK, Phase
  <2>4. CASE RereadFields(r) \/ Reply(r) \/ Busy(r)
    BY <2>0, <2>4 DEF RereadFields, Reply, Busy
  <2>5. CASE ReadDefinitions(r)
    BY <1>2, <2>0, <2>5 DEF ReadDefinitions, Goto, TypeOK, ReqOK, Phase
  <2>6. CASE ImportDefinitions(r)
    BY <1>2, <2>6 DEF ImportDefinitions, Goto, TypeOK, ReqOK, Phase
  <2>7. CASE ImportExisting(r)
    <3>1. /\ found' = [found EXCEPT ![r] = person] /\ Goto(r, "import_begin")
          /\ UNCHANGED <<status, call, known, got>>
      BY <2>0, <2>7 DEF ImportExisting
    <3>2. QED
      BY <1>1, <1>2, <3>1 DEF Goto, TypeOK, ReqOK, Phase
  <2>8. QED
    BY <1>1, <2>1, <2>2, <2>3, <2>4, <2>5, <2>6, <2>7 DEF Reads
<1>5. QED
  BY <1>3, <1>4
-----------------------------------------------------------------------------
(* The inductive invariant: the committed tables are sound, and so is what *)
(* an open transaction would commit.                                       *)

Sound(pp, uu, ff, tt) ==
  /\ \A p \in Person : pp[p] # Nil => p \in uu
  /\ \A k \in Key : pp[k[1]] = Nil => ff[k] = Nil /\ tt[k] = <<>>
  /\ \A k \in Key : tt[k] # <<>> => Last(tt[k]).new = ff[k]
  /\ DistinctVoters(pp)

SoundWork == lock # Nil => Sound(work.person, work.used, work.field, work.trail)

IInv == TypeOK /\ Sound(person, used, field, trail) /\ SoundWork

LedgerOK ==
  /\ person \in [Person -> Value \cup {Nil}] /\ used \in SUBSET Person
  /\ field \in [Key -> Value \cup {Nil}] /\ trail \in [Key -> Seq(Entry)]
DefsOK == def \in [Def -> DefRow] /\ edits \in Nat /\ accepted \in [Def -> SUBSET Value]
TxOK ==
  /\ lock \in Request \cup {Nil} /\ opened \in TablesType \cup {Nil} /\ work \in WorkType

LEMMA TypeParts == TypeOK <=> LedgerOK /\ DefsOK /\ ReqOK /\ TxOK
  BY DEF TypeOK, LedgerOK, DefsOK, ReqOK, TxOK

\* The seed has no trail, and no row for a person it has not enrolled.
LEMMA InitSound == Init => IInv
<1> SUFFICES ASSUME Init PROVE IInv
  OBVIOUS
<1>1. TypeOK
  BY InitType
<1>2. /\ person = SeedPerson /\ used = DOMAIN SeedRows /\ field = SeedField
      /\ trail = [k \in Key |-> <<>>] /\ lock = Nil
  BY DEF Init
<1>3. \A p \in Person : person[p] # Nil => p \in used
  BY <1>2 DEF SeedPerson
<1>4. \A p \in DOMAIN SeedRows : VoterOf(SeedRows[p]) \in Value
  BY RecordsAssumption, SeedAssumption DEF VoterOf, IsRow
<1>5. \A k \in Key : person[k[1]] = Nil => field[k] = Nil /\ trail[k] = <<>>
  BY <1>2, <1>4, RecordsAssumption DEF SeedPerson, SeedField, Key
<1>6. \A k \in Key : trail[k] # <<>> => Last(trail[k]).new = field[k]
  BY <1>2
<1>7. DistinctVoters(person)
  BY <1>2, SeedAssumption DEF DistinctVoters, SeedPerson
<1>8. QED
  BY <1>1, <1>2, <1>3, <1>5, <1>6, <1>7 DEF IInv, Sound, SoundWork

\* Fields and trails (ff, tt) after writing val and appending aud on the pairs T.
Appended(T, val, aud, ff, tt, ff2, tt2) ==
  /\ val \in [T -> Value \cup {Nil}] /\ aud \in [T -> Entry]
  /\ \A k \in T : aud[k].new = val[k]
  /\ ff2 = [k \in Key |-> IF k \in T THEN val[k] ELSE ff[k]]
  /\ tt2 = [k \in Key |-> IF k \in T THEN Append(tt[k], aud[k]) ELSE tt[k]]

\* Appending an entry that states the new value keeps the tables sound, for
\* pairs whose person has a row: the step of an update and of an import row.
LEMMA Appending ==
  ASSUME NEW pp, NEW uu, NEW ff \in [Key -> Value \cup {Nil}], NEW tt \in [Key -> Seq(Entry)],
         Sound(pp, uu, ff, tt),
         NEW T \in SUBSET Key, ~Orphaned(T, pp),
         NEW val, NEW aud, NEW ff2, NEW tt2, Appended(T, val, aud, ff, tt, ff2, tt2)
  PROVE  /\ ff2 \in [Key -> Value \cup {Nil}] /\ tt2 \in [Key -> Seq(Entry)]
         /\ Sound(pp, uu, ff2, tt2)
<1> USE DEF Appended
<1>1. ff2 \in [Key -> Value \cup {Nil}] /\ tt2 \in [Key -> Seq(Entry)]
  OBVIOUS
<1>2. \A k \in Key : pp[k[1]] = Nil => ff2[k] = Nil /\ tt2[k] = <<>>
  BY DEF Sound, Orphaned
<1>3. ASSUME NEW k \in Key, tt2[k] # <<>> PROVE Last(tt2[k]).new = ff2[k]
  <2>1. CASE k \notin T
    BY <1>3, <2>1 DEF Sound
  <2>2. CASE k \in T
    <3>1. tt[k] \in Seq(Entry) /\ aud[k] \in Entry
      BY <2>2
    <3>2. Last(Append(tt[k], aud[k])) = aud[k]
      BY <3>1 DEF Last
    <3>3. QED
      BY <2>2, <3>2
  <2>3. QED
    BY <2>1, <2>2
<1>4. QED
  BY <1>1, <1>2, <1>3 DEF Sound
-----------------------------------------------------------------------------
(* One lemma per transaction, and one for everything else. *)

\* What an update writes: it is typed, and the entry states the new value.
LEMMA TouchedPair ==
  ASSUME TypeOK, NEW r \in Request, NEW k \in Touched(r)
  PROVE  NewValue(r, k) \in Value \cup {Nil} /\ AuditOf(r, k) \in Entry
<1> DEFINE n == known[r][k[2]].name
<1>1. k \in Key /\ n \in DOMAIN call[r].body
  BY DEF Touched
<1>2. call[r].body \in Bodies \cup {<<>>} /\ got[r] \in [Person \X FieldName -> Value \cup {Nil}]
  BY DEF TypeOK, CallType
<1>3. call[r].body \in Bodies
  BY <1>1, <1>2
<1>4. n \in FieldName /\ call[r].body[n] \in Value \cup {Nil}
  BY <1>1, <1>3, RecordsAssumption DEF IsBody
<1>5. OldValue(r, k) \in Value \cup {Nil}
  BY <1>1, <1>2, <1>4 DEF OldValue, Key
<1>6. QED
  BY <1>4, <1>5, RecordsAssumption DEF NewValue, AuditOf, Entry

LEMMA CommitFieldsStep ==
  ASSUME IInv, NEW r \in Request, CommitFields(r)
  PROVE  IInv'
<1>1. LedgerOK /\ DefsOK /\ ReqOK /\ TxOK /\ Sound(person, used, field, trail)
  BY TypeParts DEF IInv
<1>2. UNCHANGED <<person, used, defs, tx>> /\ lock = Nil
  BY DEF CommitFields
<1>3. CASE Orphaned(Touched(r), person)
  <2>1. Answer(r, "error") /\ UNCHANGED <<field, trail>>
    BY <1>3 DEF CommitFields
  <2>2. ReqOK'
    BY <1>1, <2>1, AnswerType DEF Status
  <2>3. QED
    BY <1>1, <1>2, <2>1, <2>2 DEF IInv, TypeOK, LedgerOK, DefsOK, TxOK, ReqOK, defs, tx, SoundWork
<1>4. CASE ~Orphaned(Touched(r), person)
  <2> DEFINE T == Touched(r)
             val == [k \in T |-> NewValue(r, k)]
             aud == [k \in T |-> AuditOf(r, k)]
  <2>1. /\ field' = [k \in Key |-> IF k \in T THEN val[k] ELSE field[k]]
        /\ trail' = [k \in Key |-> IF k \in T THEN Append(trail[k], aud[k]) ELSE trail[k]]
        /\ Goto(r, "reread_definitions") /\ UNCHANGED <<status, locals>>
    BY <1>4 DEF CommitFields
  <2>2. ReqOK'
    BY <1>1, <2>1, GotoType DEF Phase
  <2>3. T \in SUBSET Key /\ Appended(T, val, aud, field, trail, field', trail')
    <3>1. T \in SUBSET Key /\ val \in [T -> Value \cup {Nil}] /\ aud \in [T -> Entry]
      BY TouchedPair DEF Touched, IInv
    <3>2. \A k \in T : aud[k].new = val[k]
      BY DEF AuditOf
    <3>3. QED
      BY <2>1, <3>1, <3>2 DEF Appended
  <2>4. field \in [Key -> Value \cup {Nil}] /\ trail \in [Key -> Seq(Entry)]
    BY <1>1 DEF LedgerOK
  <2>5. ~Orphaned(T, person)
    BY <1>4
  <2>6. /\ field' \in [Key -> Value \cup {Nil}] /\ trail' \in [Key -> Seq(Entry)]
        /\ Sound(person, used, field', trail')
    <3> HIDE DEF T, val, aud
    <3>1. QED
      BY <1>1, <2>3, <2>4, <2>5, Appending
  <2>7. QED
    BY <1>1, <1>2, <2>2, <2>6 DEF IInv, TypeOK, LedgerOK, DefsOK, TxOK, ReqOK, defs, tx, SoundWork, Sound
<1>5. QED
  BY <1>3, <1>4

LEMMA CommitDeleteStep ==
  ASSUME IInv, NEW r \in Request, CommitDelete(r)
  PROVE  IInv'
<1>1. LedgerOK /\ DefsOK /\ ReqOK /\ TxOK /\ Sound(person, used, field, trail)
  BY TypeParts DEF IInv
<1>2. /\ UNCHANGED <<used, defs, tx>> /\ lock = Nil
      /\ person' = [p \in Person |-> IF p \in Found(r) THEN Nil ELSE person[p]]
      /\ field' = [k \in Key |-> IF k[1] \in Found(r) THEN Nil ELSE field[k]]
      /\ trail' = [k \in Key |-> IF k[1] \in Found(r) THEN <<>> ELSE trail[k]]
      /\ Goto(r, "reply") /\ UNCHANGED <<status, locals>>
  BY DEF CommitDelete
<1>3. ReqOK'
  BY <1>1, <1>2, GotoType DEF Phase
<1>4. LedgerOK'
  BY <1>1, <1>2 DEF LedgerOK
<1>5. Sound(person', used', field', trail')
  <2>1. \A p \in Person : person'[p] # Nil => p \in used'
    BY <1>1, <1>2 DEF Sound
  <2>2. \A k \in Key : person'[k[1]] = Nil => field'[k] = Nil /\ trail'[k] = <<>>
    BY <1>1, <1>2 DEF Sound, Key
  <2>3. \A k \in Key : trail'[k] # <<>> => Last(trail'[k]).new = field'[k]
    BY <1>1, <1>2 DEF Sound
  <2>4. DistinctVoters(person')
    BY <1>1, <1>2 DEF Sound, DistinctVoters
  <2>5. QED
    BY <2>1, <2>2, <2>3, <2>4 DEF Sound
<1>6. QED
  BY <1>1, <1>2, <1>3, <1>4, <1>5 DEF IInv, TypeOK, LedgerOK, DefsOK, TxOK, ReqOK, defs, tx, SoundWork

\* The rows of an import are rows of the sheets that were sent.
LEMMA SheetRow ==
  ASSUME TypeOK, NEW r \in Request, NEW i \in Rows(r)
  PROVE  IsRow(call[r].sheet[i]) /\ VoterOf(call[r].sheet[i]) \in Value
<1>1. call[r].sheet \in Sheets \cup {<<>>}
  BY DEF TypeOK, CallType
<1>2. call[r].sheet \in Sheets
  BY <1>1 DEF Rows
<1>3. IsRow(call[r].sheet[i])
  BY <1>2, RecordsAssumption DEF Rows
<1>4. QED
  BY <1>3, RecordsAssumption DEF VoterOf, IsRow

\* Creating persons under unused IDs keeps the tables sound if no index clashes.
LEMMA CreatedSound ==
  ASSUME IInv, NEW r \in Request, ~Clash(r),
         NEW ids \in [NewRows(r, found[r]) -> Person \ used]
  PROVE  LET w == Created(r, ids)
         IN w \in WorkType /\ Sound(w.person, w.used, w.field, w.trail)
<1> DEFINE N == DOMAIN ids
           at(p) == CHOOSE i \in N : ids[i] = p
           row(p) == call[r].sheet[at(p)]
           fresh == Range(ids)
           name(d) == known[r][d].name
           pp == [p \in Person |-> IF p \in fresh THEN VoterOf(row(p)) ELSE person[p]]
           ff == [k \in Key |-> IF k[1] \in fresh /\ name(k[2]) \in DOMAIN row(k[1])
                                THEN row(k[1])[name(k[2])] ELSE field[k]]
<1>1. LedgerOK /\ Sound(person, used, field, trail)
  BY TypeParts DEF IInv
<1>2. N \subseteq Rows(r)
  BY DEF NewRows
<1>3. ASSUME NEW p \in fresh
      PROVE  at(p) \in N /\ ids[at(p)] = p /\ p \in Person /\ p \notin used
  BY DEF Range
<1>4. ASSUME NEW p \in fresh
      PROVE  /\ IsRow(row(p)) /\ VoterOf(row(p)) \in Value /\ VoterOf(row(p)) # Nil
             /\ person[p] = Nil
  <2>1. at(p) \in Rows(r) /\ p \in Person /\ p \notin used
    BY <1>2, <1>3
  <2>2. IsRow(row(p)) /\ VoterOf(row(p)) \in Value
    BY <2>1, SheetRow DEF IInv
  <2>3. person[p] = Nil
    BY <1>1, <2>1 DEF Sound
  <2>4. QED
    BY <2>2, <2>3, RecordsAssumption
<1>5. Created(r, ids) = [next |-> 1, used |-> used \cup fresh, trail |-> trail,
                         person |-> pp, field |-> ff]
  BY DEF Created
<1>6. pp \in [Person -> Value \cup {Nil}] /\ ff \in [Key -> Value \cup {Nil}]
  <2>1. \A p \in Person : pp[p] \in Value \cup {Nil}
    BY <1>1, <1>4 DEF LedgerOK
  <2>2. \A k \in Key : ff[k] \in Value \cup {Nil}
    BY <1>1, <1>4 DEF LedgerOK, IsRow
  <2>3. QED
    BY <2>1, <2>2
<1>7. Created(r, ids) \in WorkType
  <2>1. fresh \subseteq Person /\ used \subseteq Person /\ trail \in [Key -> Seq(Entry)]
    BY <1>1, <1>3 DEF LedgerOK
  <2> HIDE DEF fresh, pp, ff
  <2>2. QED
    BY <1>5, <1>6, <2>1 DEF WorkType
<1>8. \A p \in Person : pp[p] # Nil => p \in used \cup fresh
  BY <1>1 DEF Sound
<1>9. \A k \in Key : pp[k[1]] = Nil => ff[k] = Nil /\ trail[k] = <<>>
  BY <1>1, <1>4 DEF Sound, Key
<1>10. \A k \in Key : trail[k] # <<>> => Last(trail[k]).new = ff[k]
  BY <1>1, <1>4 DEF Sound, Key
<1>11. DistinctVoters(pp)
  <2>1. SUFFICES ASSUME NEW p \in Person, NEW q \in Person, p # q, pp[p] # Nil, pp[q] # Nil
                 PROVE  Fold[pp[p]] # Fold[pp[q]]
    BY DEF DistinctVoters
  <2>2. CASE p \in fresh /\ q \in fresh
    BY <1>3, <2>1, <2>2 DEF Clash
  <2>3. \A x \in fresh, y \in Person \ fresh : person[y] # Nil => Fold[pp[x]] # Fold[pp[y]]
    <3>1. \A i \in NewRows(r, found[r]), y \in Present :
            Fold[VoterOf(call[r].sheet[i])] # Fold[person[y]]
      BY DEF Clash
    <3>2. ASSUME NEW x \in fresh, NEW y \in Person \ fresh, person[y] # Nil
          PROVE  Fold[pp[x]] # Fold[pp[y]]
      <4>1. y \in Present /\ at(x) \in NewRows(r, found[r])
        BY <1>3, <3>2 DEF Present
      <4>2. pp[x] = VoterOf(row(x)) /\ pp[y] = person[y]
        BY <1>3, <3>2
      <4>3. QED
        BY <3>1, <4>1, <4>2
    <3>3. QED
      BY <3>2
  <2>4. CASE p \notin fresh /\ q \notin fresh
    BY <1>1, <2>1, <2>4 DEF Sound, DistinctVoters
  <2>5. QED
    BY <2>1, <2>2, <2>3, <2>4
<1>12. Sound(pp, used \cup fresh, ff, trail)
  BY <1>8, <1>9, <1>10, <1>11 DEF Sound
<1>13. QED
  <2> HIDE DEF fresh, pp, ff
  <2>1. QED
    BY <1>5, <1>7, <1>12

LEMMA ImportBeginStep ==
  ASSUME IInv, NEW r \in Request, ImportBegin(r)
  PROVE  IInv'
<1>1. LedgerOK /\ DefsOK /\ ReqOK /\ TxOK
  BY TypeParts DEF IInv
<1>2. UNCHANGED <<ledger, defs>> /\ lock = Nil
  BY DEF ImportBegin
<1>3. CASE Clash(r)
  <2>1. Answer(r, "error") /\ UNCHANGED tx
    BY <1>3 DEF ImportBegin
  <2>2. ReqOK'
    BY <1>1, <2>1, AnswerType DEF Status
  <2>3. QED
    BY <1>1, <1>2, <2>1, <2>2
    DEF IInv, TypeOK, LedgerOK, DefsOK, TxOK, ReqOK, ledger, defs, tx, SoundWork, Sound, DistinctVoters
<1>4. CASE ~Clash(r)
  <2>1. PICK ids \in [NewRows(r, found[r]) -> Person \ used] :
          /\ lock' = r /\ opened' = Tables /\ work' = Created(r, ids)
          /\ Goto(r, "import_rows") /\ UNCHANGED <<status, locals>>
    BY <1>4 DEF ImportBegin
  <2>2. ReqOK'
    BY <1>1, <2>1, GotoType DEF Phase
  <2>3. work' \in WorkType /\ Sound(work'.person, work'.used, work'.field, work'.trail)
    BY <1>4, <2>1, CreatedSound
  <2>4. Sound(person', used', field', trail')
    BY <1>2 DEF IInv, ledger
  <2>5. opened' \in TablesType
    BY <1>1, <2>1 DEF Tables, LedgerOK, TablesType
  <2>6. QED
    BY <1>1, <1>2, <2>1, <2>2, <2>3, <2>4, <2>5
    DEF IInv, TypeOK, LedgerOK, DefsOK, TxOK, ReqOK, ledger, defs, SoundWork
<1>5. QED
  BY <1>3, <1>4

\* Leaving the transaction by rollback drops what it wrote.
LEMMA RollbackStep ==
  ASSUME IInv, NEW r \in Request, Rollback(r), UNCHANGED defs
  PROVE  IInv'
<1>1. LedgerOK /\ DefsOK /\ ReqOK /\ TxOK
  BY TypeParts DEF IInv
<1>2. ReqOK'
  BY <1>1, AnswerType DEF Rollback, Status
<1>3. UNCHANGED ledger /\ lock' = Nil /\ opened' = Nil /\ work' = NoWork
  BY DEF Rollback
<1>4. Sound(person', used', field', trail')
  BY <1>3 DEF IInv, ledger
<1>5. QED
  BY <1>1, <1>2, <1>3, <1>4, NoneTypes
  DEF IInv, TypeOK, LedgerOK, DefsOK, TxOK, ReqOK, ledger, defs, SoundWork

LEMMA ImportRowStep ==
  ASSUME IInv, NEW r \in Request, ImportRow(r)
  PROVE  IInv'
<1> DEFINE i == work.next
           T == RowTouched(r, i)
           val == [k \in T |-> RowValue(r, i, k)]
           aud == [k \in T |-> RowAudit(r, i, k)]
<1>1. LedgerOK /\ DefsOK /\ ReqOK /\ TxOK
  BY TypeParts DEF IInv
<1>2. lock = r /\ i \in Rows(r) /\ UNCHANGED defs
  BY DEF ImportRow
<1>3. CASE Orphaned(T, work.person)
  BY <1>2, <1>3, RollbackStep DEF ImportRow
<1>4. CASE ~Orphaned(T, work.person)
  <2>1. /\ work' = [next |-> i + 1, person |-> work.person, used |-> work.used,
                    field |-> [k \in Key |-> IF k \in T THEN val[k] ELSE work.field[k]],
                    trail |-> [k \in Key |-> IF k \in T THEN Append(work.trail[k], aud[k])
                                             ELSE work.trail[k]]]
        /\ UNCHANGED <<ledger, pc, status, locals, lock, opened>>
    BY <1>4 DEF ImportRow
  <2>2. /\ work.next \in Nat /\ work.person \in [Person -> Value \cup {Nil}]
        /\ work.used \in SUBSET Person /\ work.field \in [Key -> Value \cup {Nil}]
        /\ work.trail \in [Key -> Seq(Entry)]
    BY <1>1 DEF TxOK, WorkType
  <2>3. Sound(work.person, work.used, work.field, work.trail)
    BY <1>2, RecordsAssumption DEF IInv, SoundWork
  <2>4. ASSUME NEW k \in T
        PROVE  RowValue(r, i, k) \in Value \cup {Nil} /\ RowAudit(r, i, k) \in Entry
    <3>1. k \in Key /\ known[r][k[2]].name \in DOMAIN call[r].sheet[i]
      BY DEF RowTouched
    <3>2. RowValue(r, i, k) \in Value
      BY <1>2, <3>1, SheetRow DEF IInv, RowValue, IsRow
    <3>3. QED
      BY <2>2, <3>1, <3>2, RecordsAssumption DEF RowAudit, Entry
  <2>5. Appended(T, val, aud, work.field, work.trail, work'.field, work'.trail)
    <3>1. \A k \in T : aud[k].new = val[k]
      BY DEF RowAudit
    <3>2. val \in [T -> Value \cup {Nil}] /\ aud \in [T -> Entry]
      BY <2>4
    <3> HIDE DEF T, val, aud
    <3>3. QED
      BY <2>1, <3>1, <3>2 DEF Appended
  <2>6. T \in SUBSET Key
    BY DEF RowTouched
  <2>7. /\ work'.field \in [Key -> Value \cup {Nil}] /\ work'.trail \in [Key -> Seq(Entry)]
        /\ Sound(work.person, work.used, work'.field, work'.trail)
    <3> HIDE DEF T, val, aud
    <3>1. QED
      BY <1>4, <2>2, <2>3, <2>5, <2>6, Appending
  <2>8. work' \in WorkType /\ work'.person = work.person /\ work'.used = work.used
    <3> HIDE DEF T, val, aud
    <3>1. QED
      BY <2>1, <2>2, <2>7 DEF WorkType
  <2>9. Sound(person', used', field', trail')
    BY <2>1 DEF IInv, ledger
  <2>10. QED
    BY <1>1, <1>2, <2>1, <2>7, <2>8, <2>9
    DEF IInv, TypeOK, LedgerOK, DefsOK, TxOK, ReqOK, ledger, locals, defs, SoundWork
<1>5. QED
  BY <1>3, <1>4

LEMMA ImportCommitStep ==
  ASSUME IInv, NEW r \in Request, ImportCommit(r)
  PROVE  IInv'
<1>1. LedgerOK /\ DefsOK /\ ReqOK /\ TxOK
  BY TypeParts DEF IInv
<1>2. /\ person' = work.person /\ used' = work.used /\ field' = work.field
      /\ trail' = work.trail /\ lock = r /\ lock' = Nil /\ opened' = Nil /\ work' = NoWork
      /\ Goto(r, "reply") /\ UNCHANGED <<status, locals>> /\ UNCHANGED defs
  BY DEF ImportCommit
<1>3. ReqOK'
  BY <1>1, <1>2, GotoType DEF Phase
<1>4. LedgerOK'
  BY <1>1, <1>2 DEF TxOK, WorkType, LedgerOK
<1>5. Sound(person', used', field', trail')
  BY <1>2, RecordsAssumption DEF IInv, SoundWork
<1>6. QED
  BY <1>1, <1>2, <1>3, <1>4, <1>5, NoneTypes
  DEF IInv, TypeOK, LedgerOK, DefsOK, TxOK, ReqOK, defs, SoundWork

\* A step that leaves the tables and the open transaction alone, or drops the latter.
LEMMA QuietStep ==
  ASSUME IInv, TypeOK', UNCHANGED ledger, UNCHANGED tx \/ lock' = Nil
  PROVE  IInv'
<1>1. Sound(person', used', field', trail')
  BY DEF IInv, ledger
<1>2. SoundWork'
  BY DEF IInv, SoundWork, tx
<1>3. QED
  BY <1>1, <1>2 DEF IInv

LEMMA RestartStep == ASSUME IInv, Restart PROVE IInv'
<1>1. LedgerOK /\ DefsOK /\ ReqOK /\ TxOK
  BY TypeParts DEF IInv
<1>2. UNCHANGED <<ledger, defs>> /\ lock' = Nil /\ opened' = Nil /\ work' = NoWork
  BY DEF Restart
<1>3. ReqOK'
  BY <1>1, NoneTypes DEF Restart, ReqOK, Phase, Status
<1>4. TypeOK'
  BY <1>1, <1>2, <1>3, NoneTypes DEF TypeOK, LedgerOK, DefsOK, ReqOK, TxOK, ledger, defs
<1>5. QED
  BY <1>2, <1>4, QuietStep

LEMMA DefineStep == ASSUME IInv, Define PROVE IInv'
<1>1. LedgerOK /\ DefsOK /\ ReqOK /\ TxOK
  BY TypeParts DEF IInv
<1>2. PICK d \in Def, n \in FieldName, A \in Allowances : EditDefinition(d, n, A)
  BY DEF Define, CreateDefinition, UpdateDefinition
<1>3. UNCHANGED <<ledger, pc, status, locals, tx>>
  BY <1>2 DEF EditDefinition
<1>4. DefsOK'
  BY <1>1, <1>2, RecordsAssumption DEF EditDefinition, DefsOK, DefRow
<1>5. TypeOK'
  BY <1>1, <1>3, <1>4 DEF TypeOK, LedgerOK, DefsOK, ReqOK, TxOK, ledger, locals, tx
<1>6. QED
  BY <1>3, <1>5, QuietStep

LEMMA NextStep == IInv /\ [Next]_vars => IInv'
<1> SUFFICES ASSUME IInv, [Next]_vars PROVE IInv'
  OBVIOUS
<1>1. LedgerOK /\ DefsOK /\ ReqOK /\ TxOK
  BY TypeParts DEF IInv
<1>2. ASSUME NEW r \in Request, Arrive(r) \/ Reads(r) PROVE IInv'
  <2>1. ReqOK' /\ UNCHANGED <<ledger, defs, tx>>
    BY <1>1, <1>2, ArriveType, ReadType DEF IInv
  <2>2. TypeOK'
    BY <1>1, <2>1 DEF TypeOK, LedgerOK, DefsOK, ReqOK, TxOK, ledger, defs, tx
  <2>3. QED
    BY <2>1, <2>2, QuietStep
<1>3. ASSUME NEW r \in Request, Step(r) PROVE IInv'
  BY <1>2, <1>3, CommitFieldsStep, CommitDeleteStep, ImportBeginStep, ImportRowStep,
     ImportCommitStep DEF Step, Reads
<1>4. CASE UNCHANGED vars
  <2>1. UNCHANGED <<ledger, tx>> /\ TypeOK'
    BY <1>1, <1>4 DEF vars, ledger, tx, TypeOK, LedgerOK, DefsOK, ReqOK, TxOK
  <2>2. QED
    BY <2>1, QuietStep
<1>5. QED
  BY <1>2, <1>3, <1>4, RestartStep, DefineStep DEF Next

\* The tables are sound, and so is what an open import would leave in their place.
THEOREM Invariance == Spec => []IInv
<1>1. Init => IInv
  BY InitSound
<1>2. IInv /\ [Next]_vars => IInv'
  BY NextStep
<1>3. QED
  BY <1>1, <1>2, PTL DEF Spec
-----------------------------------------------------------------------------
\* Whatever the endpoints are called with, every variable keeps its type.
THEOREM TypeCorrect == Spec => []TypeOK
<1>1. IInv => TypeOK
  BY DEF IInv
<1>2. QED
  BY <1>1, Invariance, PTL

\* No request, crash or failed transaction leaves a row of a deleted person.
THEOREM NoOrphansEver == Spec => []NoOrphans
<1>1. IInv => NoOrphans
  BY DEF IInv, Sound, NoOrphans
<1>2. QED
  BY <1>1, Invariance, PTL

\* The newest audit entry of a field always states the value in its row.
THEOREM TrailTellsValueAlways == Spec => []TrailTellsValue
<1>1. IInv => TrailTellsValue
  BY DEF IInv, Sound, TrailTellsValue
<1>2. QED
  BY <1>1, Invariance, PTL

\* No two imports, however they race, enrol one voter twice.
THEOREM UniqueVoterIDsAlways == Spec => []UniqueVoterIDs
<1>1. IInv => UniqueVoterIDs
  BY DEF IInv, Sound, UniqueVoterIDs
<1>2. QED
  BY <1>1, Invariance, PTL
-----------------------------------------------------------------------------
(* Every value stored was acceptable to its definition at some time:       *)
(* requests validate before their transactions, but what they validated is *)
(* what they write.                                                        *)

UniqueNames(ds) == \A d, e \in Def : d # e /\ ds[d].name # Nil => ds[d].name # ds[e].name
Past(ds) == UniqueNames(ds) /\ \A d \in Def : ds[d].allowed \subseteq accepted[d]

\* Every non-null value of a body is valid for its definition among ds.
Fits(b, ds) ==
  \A n \in DOMAIN b :
    n \in Names(ds) /\ (b[n] # Nil => b[n] \in ds[DefOf(ds, n)].allowed)

\* A request knows definitions of some time, and has validated what it will write.
Checked(r) ==
  /\ Past(known[r])
  /\ pc[r] = "commit" => Fits(call[r].body, known[r])
  /\ pc[r] \in {"import_begin", "import_rows"} => \A i \in Rows(r) : ValidRow(r, i, found[r])

Acceptable(ff) == \A k \in Key : ff[k] # Nil => ff[k] \in accepted[k[2]]

VInv ==
  /\ Past(def) /\ Acceptable(field) /\ (lock # Nil => Acceptable(work.field))
  /\ \A r \in Request : Checked(r)

AcceptedGrows == \A d \in Def : accepted[d] \subseteq accepted'[d]

\* Names are unique, so that a name's definition is the one it was read from.
LEMMA DefOfName ==
  ASSUME NEW ds, UniqueNames(ds), NEW d \in Def, ds[d].name # Nil
  PROVE  ds[d].name \in Names(ds) /\ DefOf(ds, ds[d].name) = d
  BY DEF UniqueNames, Names, DefOf, NameIn

LEMMA VInitially == Init => VInv
<1> SUFFICES ASSUME Init PROVE VInv
  OBVIOUS
<1> USE SeedAssumption, RecordsAssumption DEF Init
<1>1. Past(def)
  BY DEF Past, UniqueNames
<1>2. \A r \in Request : Checked(r)
  BY DEF Checked, Past, UniqueNames, NoDefs
<1>3. ASSUME NEW k \in Key, field[k] # Nil PROVE field[k] \in accepted[k[2]]
  <2> DEFINE d == k[2]
             n == SeedDefs[d].name
  <2>1. d \in Def /\ k[1] \in DOMAIN SeedRows /\ n \in DOMAIN SeedRows[k[1]] /\ field[k] = SeedRows[k[1]][n]
    BY <1>3 DEF SeedField, Key
  <2>2. n # Nil
    BY <2>1 DEF IsRow
  <2>3. DefOf(SeedDefs, n) = d
    BY <2>1, <2>2, DefOfName DEF UniqueNames
  <2> QED BY <2>1, <2>3
<1> QED BY <1>1, <1>2, <1>3 DEF VInv, Acceptable
-----------------------------------------------------------------------------
(* Steps that write no field. *)

LEMMA PastStays ==
  ASSUME NEW ds, Past(ds), AcceptedGrows
  PROVE  UniqueNames(ds) /\ \A d \in Def : ds[d].allowed \subseteq accepted'[d]
  BY DEF Past, AcceptedGrows

LEMMA OthersChecked ==
  ASSUME NEW q \in Request, Checked(q), AcceptedGrows, pc'[q] = pc[q], call'[q] = call[q],
         known'[q] = known[q], found'[q] = found[q]
  PROVE  Checked(q)'
<1>1. Past(known[q])'
  BY PastStays DEF Checked, Past, UniqueNames
<1> QED BY <1>1 DEF Checked, Rows, ValidRow, NewRows

LEMMA Unchecked ==
  ASSUME VInv, NEW r \in Request, AcceptedGrows, known'[r] \in {known[r], def, NoDefs},
         pc'[r] \notin {"commit", "import_begin", "import_rows"}
  PROVE  Checked(r)'
<1>1. Past(known[r]) /\ Past(def)
  BY DEF VInv, Checked
<1>2. Past(NoDefs)
  BY DEF Past, UniqueNames, NoDefs
<1>3. Past(known[r])'
  BY <1>1, <1>2, PastStays DEF Past, UniqueNames
<1> QED BY <1>3 DEF Checked

\* What a step of r has to keep when definitions stay.
LEMMA RequestStep ==
  ASSUME VInv, NEW r \in Request, UNCHANGED defs, Checked(r)',
         \A q \in Request \ {r} : pc'[q] = pc[q] /\ call'[q] = call[q] /\ known'[q] = known[q]
                                  /\ found'[q] = found[q],
         Acceptable(field'), lock' # Nil => Acceptable(work'.field)
  PROVE  VInv'
<1>1. AcceptedGrows /\ Past(def)'
  BY DEF defs, AcceptedGrows, VInv, Past, UniqueNames
<1>2. ASSUME NEW q \in Request \ {r} PROVE Checked(q)'
  BY <1>1, OthersChecked DEF VInv
<1> QED BY <1>1, <1>2 DEF VInv, Acceptable, defs

LEMMA AnswerChecked ==
  ASSUME ReqOK, VInv, NEW r \in Request, NEW s, Answer(r, s), UNCHANGED defs,
         Acceptable(field'), lock' # Nil => Acceptable(work'.field)
  PROVE  VInv'
<1>1. known'[r] = NoDefs /\ pc'[r] = "answered" /\ AcceptedGrows
  BY DEF Answer, Goto, ReqOK, defs, AcceptedGrows
<1>2. Checked(r)'
  BY <1>1, Unchecked
<1> QED BY <1>2, RequestStep DEF Answer, Goto, ReqOK

LEMMA GotoChecked ==
  ASSUME ReqOK, VInv, NEW r \in Request, NEW p, Goto(r, p), UNCHANGED <<known, defs>>,
         p \notin {"commit", "import_begin", "import_rows"},
         \A q \in Request \ {r} : call'[q] = call[q] /\ found'[q] = found[q],
         Acceptable(field'), lock' # Nil => Acceptable(work'.field)
  PROVE  VInv'
<1>1. Checked(r)'
  BY Unchecked DEF Goto, ReqOK, defs, AcceptedGrows
<1> QED BY <1>1, RequestStep DEF Goto, ReqOK

LEMMA QuietFields ==
  ASSUME VInv, UNCHANGED <<ledger, tx>>
  PROVE  Acceptable(field') /\ (lock' # Nil => Acceptable(work'.field))
  BY DEF VInv, ledger, tx

LEMMA ArriveChecked ==
  ASSUME IInv, VInv, NEW r \in Request, Arrive(r) PROVE VInv'
<1>1. ReqOK /\ UNCHANGED <<ledger, defs, tx>>
  BY TypeParts, ArriveType DEF IInv
<1>2. Acceptable(field') /\ (lock' # Nil => Acceptable(work'.field))
  BY <1>1, QuietFields
<1>3. CASE Answer(r, "ok")
  BY <1>1, <1>2, <1>3, AnswerChecked
<1>4. ASSUME NEW k, NEW p \in {"filter_definitions", "import_definitions"}, NEW w, NEW b, NEW s,
             Call(r, k, p, w, b, s)
      PROVE  VInv'
  BY <1>1, <1>2, <1>4, GotoChecked DEF Call, ReqOK
<1> QED BY <1>3, <1>4 DEF Arrive, DeletePerson, PatchPerson, UpdatePersons, ImportPersons

LEMMA ReadChecked ==
  ASSUME IInv, VInv, NEW r \in Request, Reads(r) PROVE VInv'
<1>1. ReqOK /\ UNCHANGED <<ledger, defs, tx>>
  BY TypeParts, ReadType DEF IInv
<1>2. Acceptable(field') /\ (lock' # Nil => Acceptable(work'.field))
  BY <1>1, QuietFields
<1>3. AcceptedGrows
  BY <1>1 DEF defs, AcceptedGrows
<1>4. CASE \E s \in Status : Answer(r, s)
  BY <1>1, <1>2, <1>4, AnswerChecked
<1>5. CASE ~ \E s \in Status : Answer(r, s)
  <2>0. /\ ~Answer(r, "ok") /\ ~Answer(r, "error")
        /\ ~Answer(r, "bad_request") /\ ~Answer(r, "not_found")
    BY <1>5 DEF Status
  <2>1. CASE FilterDefinitions(r) \/ ImportDefinitions(r)
    <3>1. /\ known'[r] = def /\ pc'[r] \in {"filter_persons", "reread_persons", "import_existing"}
          /\ \A q \in Request \ {r} : pc'[q] = pc[q] /\ call'[q] = call[q] /\ known'[q] = known[q]
                                      /\ found'[q] = found[q]
      BY <1>1, <2>0, <2>1 DEF FilterDefinitions, ImportDefinitions, Goto, ReqOK
    <3>2. Checked(r)'
      BY <1>3, <3>1, Unchecked
    <3> QED BY <1>1, <1>2, <3>1, <3>2, RequestStep
  <2>2. CASE FilterPersons(r)
    BY <1>1, <1>2, <2>2, GotoChecked DEF FilterPersons, ReqOK
  <2>3. CASE FilterFields(r)
    BY <1>1, <1>2, <2>0, <2>3, GotoChecked DEF FilterFields
  <2>4. CASE RereadFields(r) \/ Reply(r) \/ Busy(r)
    BY <2>0, <2>4 DEF RereadFields, Reply, Busy
  <2>5. CASE ReadDefinitions(r)
    <3>1. /\ ValidBody(r) /\ known'[r] = def /\ pc'[r] = "commit" /\ call'[r] = call[r]
          /\ \A q \in Request \ {r} : pc'[q] = pc[q] /\ call'[q] = call[q] /\ known'[q] = known[q]
                                      /\ found'[q] = found[q]
      BY <1>1, <2>0, <2>5 DEF ReadDefinitions, Goto, ReqOK
    <3>2. Fits(call[r].body, def)
      BY <3>1 DEF ValidBody, Fits
    <3>3. Past(known[r])'
      BY <1>1, <3>1 DEF VInv, Past, UniqueNames, defs
    <3>4. Checked(r)'
      BY <3>1, <3>2, <3>3 DEF Checked
    <3> QED BY <1>1, <1>2, <3>1, <3>4, RequestStep
  <2>6. CASE ImportExisting(r)
    <3>1. /\ \A i \in Rows(r) : ValidRow(r, i, person)
          /\ found'[r] = person /\ pc'[r] = "import_begin" /\ call' = call /\ known' = known
          /\ \A q \in Request \ {r} : pc'[q] = pc[q] /\ found'[q] = found[q]
      BY <1>1, <2>0, <2>6 DEF ImportExisting, Goto, ReqOK
    <3>2. \A i \in Rows(r)' : ValidRow(r, i, found[r])'
      BY <3>1 DEF Rows, ValidRow, NewRows
    <3>3. Past(known[r])'
      BY <1>1, <3>1 DEF VInv, Checked, Past, UniqueNames, defs
    <3>4. Checked(r)'
      BY <3>1, <3>2, <3>3 DEF Checked
    <3> QED BY <1>1, <1>2, <3>1, <3>4, RequestStep
  <2> QED BY <2>1, <2>2, <2>3, <2>4, <2>5, <2>6 DEF Reads
<1> QED BY <1>4, <1>5

LEMMA DefineChecked ==
  ASSUME IInv, VInv, Define PROVE VInv'
<1>1. PICK d \in Def, n \in FieldName, A \in Allowances : EditDefinition(d, n, A)
  BY DEF Define, CreateDefinition, UpdateDefinition
<1>2. UNCHANGED <<field, work, lock, pc, call, known, found>>
  BY <1>1 DEF EditDefinition, ledger, locals, tx
<1>3. AcceptedGrows
  BY <1>1 DEF EditDefinition, AcceptedGrows, IInv, TypeOK
<1>4. UniqueNames(def')
  BY <1>1, RecordsAssumption DEF EditDefinition, VInv, Past, UniqueNames, IInv, TypeOK
<1>5. ASSUME NEW e \in Def PROVE def'[e].allowed \subseteq accepted'[e]
  BY <1>1 DEF EditDefinition, VInv, Past, IInv, TypeOK
<1>6. Past(def)'
  BY <1>4, <1>5 DEF Past, UniqueNames
<1>7. \A r \in Request : Checked(r)'
  BY <1>2, <1>3, OthersChecked DEF VInv
<1>8. Acceptable(field)' /\ (lock # Nil => Acceptable(work.field))'
  <2>1. \A k \in Key : accepted[k[2]] \subseteq accepted'[k[2]]
    BY <1>3 DEF AcceptedGrows, Key
  <2> QED BY <1>2, <2>1 DEF VInv, Acceptable
<1> QED BY <1>6, <1>7, <1>8 DEF VInv

LEMMA RestartChecked ==
  ASSUME IInv, VInv, Restart PROVE VInv'
<1>1. ReqOK /\ UNCHANGED <<ledger, defs>> /\ lock' = Nil
  BY TypeParts DEF Restart, IInv
<1>2. AcceptedGrows /\ Past(def)'
  BY <1>1 DEF defs, AcceptedGrows, VInv, Past, UniqueNames
<1>3. ASSUME NEW r \in Request PROVE Checked(r)'
  <2>1. CASE pc[r] \notin {"idle", "answered"}
    BY <1>1, <1>2, <2>1, Unchecked DEF Restart, ReqOK
  <2>2. CASE pc[r] \in {"idle", "answered"}
    BY <1>1, <1>2, <2>2, OthersChecked DEF Restart, ReqOK, VInv
  <2> QED BY <2>1, <2>2
<1>4. Acceptable(field)'
  BY <1>1 DEF VInv, Acceptable, ledger, defs
<1> QED BY <1>1, <1>2, <1>3, <1>4 DEF VInv
-----------------------------------------------------------------------------
(* Steps that write fields. *)

LEMMA FieldsChecked ==
  ASSUME IInv, VInv, NEW r \in Request, CommitFields(r) PROVE VInv'
<1>1. ReqOK /\ pc[r] = "commit" /\ lock' = Nil /\ UNCHANGED defs
  BY TypeParts DEF CommitFields, IInv, tx
<1>2. CASE Answer(r, "error") /\ UNCHANGED field
  BY <1>1, <1>2, AnswerChecked DEF VInv
<1>3. CASE /\ field' = [k \in Key |-> IF k \in Touched(r) THEN NewValue(r, k) ELSE field[k]]
           /\ Goto(r, "reread_definitions") /\ UNCHANGED <<status, locals>>
  <2>1. ASSUME NEW k \in Touched(r), NewValue(r, k) # Nil PROVE NewValue(r, k) \in accepted[k[2]]
    <3> DEFINE n == known[r][k[2]].name
    <3>1. k \in Key /\ k[2] \in Def /\ n \in DOMAIN call[r].body
      BY DEF Touched, Key
    <3>2. call[r].body \in Bodies
      BY <3>1 DEF IInv, TypeOK, CallType
    <3>3. n # Nil
      BY <3>1, <3>2, RecordsAssumption DEF IsBody
    <3>4. DefOf(known[r], n) = k[2]
      BY <3>1, <3>3, DefOfName DEF VInv, Checked, Past
    <3>5. call[r].body[n] \in known[r][k[2]].allowed
      BY <1>1, <2>1, <3>1, <3>4 DEF VInv, Checked, Fits, NewValue
    <3> QED BY <3>1, <3>5 DEF VInv, Checked, Past, NewValue
  <2>2. Acceptable(field')
    BY <1>3, <2>1 DEF Acceptable, VInv
  <2> QED BY <1>1, <1>3, <2>2, GotoChecked DEF locals
<1> QED BY <1>2, <1>3 DEF CommitFields

LEMMA DeleteChecked ==
  ASSUME IInv, VInv, NEW r \in Request, CommitDelete(r) PROVE VInv'
<1>1. ReqOK /\ lock' = Nil /\ UNCHANGED defs
  BY TypeParts DEF CommitDelete, IInv, tx
<1>2. Acceptable(field')
  BY DEF CommitDelete, Acceptable, VInv
<1> QED BY <1>1, <1>2, GotoChecked DEF CommitDelete, locals

\* A cell of a valid row is acceptable for the definition of its column, unless it
\* is blank in the row of a person there was.
LEMMA CellAccepted ==
  ASSUME IInv, VInv, NEW r \in Request, pc[r] \in {"import_begin", "import_rows"},
         NEW i \in Rows(r), NEW d \in Def, known[r][d].name \in DOMAIN call[r].sheet[i],
         i \in NewRows(r, found[r]) \/ call[r].sheet[i][known[r][d].name] # Blank
  PROVE  call[r].sheet[i][known[r][d].name] \in accepted[d]
<1> DEFINE n == known[r][d].name
<1>1. n # Nil
  BY SheetRow, RecordsAssumption DEF IInv, IsRow
<1>2. DefOf(known[r], n) = d
  BY <1>1, DefOfName DEF VInv, Checked, Past
<1>3. ValidRow(r, i, found[r])
  BY DEF VInv, Checked
<1>4. call[r].sheet[i][n] \in known[r][d].allowed
  BY <1>2, <1>3 DEF ValidRow
<1> QED BY <1>4 DEF VInv, Checked, Past

\* While an import writes it goes on with what it validated.
LEMMA ImportMove ==
  ASSUME IInv, VInv, NEW r \in Request, pc[r] \in {"import_begin", "import_rows"},
         pc'[r] \in {"import_begin", "import_rows"}, UNCHANGED <<call, known, found, field, defs>>,
         \A q \in Request \ {r} : pc'[q] = pc[q], Acceptable(work'.field)
  PROVE  VInv'
<1>1. Checked(r)'
  BY DEF VInv, Checked, Past, UniqueNames, Rows, ValidRow, NewRows, defs
<1> QED BY <1>1, RequestStep DEF VInv

LEMMA BeginChecked ==
  ASSUME IInv, VInv, NEW r \in Request, ImportBegin(r) PROVE VInv'
<1>1. ReqOK /\ pc[r] = "import_begin" /\ UNCHANGED <<ledger, defs>>
  BY TypeParts DEF ImportBegin, IInv
<1>2. CASE Answer(r, "error") /\ UNCHANGED tx
  BY <1>1, <1>2, AnswerChecked, QuietFields
<1>3. CASE ~(Answer(r, "error") /\ UNCHANGED tx)
  <2>1. PICK ids \in [NewRows(r, found[r]) -> Person \ used] :
          /\ work' = Created(r, ids) /\ Goto(r, "import_rows") /\ UNCHANGED <<status, locals>>
    BY <1>3 DEF ImportBegin
  <2> DEFINE N == DOMAIN ids
             at(p) == CHOOSE i \in N : ids[i] = p
             row(p) == call[r].sheet[at(p)]
             fresh == Range(ids)
             name(d) == known[r][d].name
  <2>2. work'.field = [k \in Key |-> IF k[1] \in fresh /\ name(k[2]) \in DOMAIN row(k[1])
                                     THEN row(k[1])[name(k[2])] ELSE field[k]]
    BY <2>1 DEF Created
  <2>3. ASSUME NEW k \in Key, k[1] \in fresh, name(k[2]) \in DOMAIN row(k[1])
        PROVE  row(k[1])[name(k[2])] \in accepted[k[2]]
    <3>1. at(k[1]) \in N /\ at(k[1]) \in NewRows(r, found[r]) /\ k[2] \in Def
      BY <2>3 DEF Range, Key
    <3>2. at(k[1]) \in Rows(r)
      BY <3>1 DEF NewRows
    <3> HIDE DEF at
    <3> QED BY <1>1, <2>3, <3>1, <3>2, CellAccepted
  <2>4. Acceptable(field)
    BY DEF VInv
  <2> HIDE DEF fresh, row, name
  <2>5. Acceptable(work'.field)
    BY <2>2, <2>3, <2>4 DEF Acceptable
  <2>6. pc'[r] = "import_rows" /\ \A q \in Request \ {r} : pc'[q] = pc[q]
    BY <1>1, <2>1 DEF Goto, ReqOK
  <2> QED BY <1>1, <2>1, <2>5, <2>6, ImportMove DEF locals, ledger
<1> QED BY <1>2, <1>3

LEMMA RowChecked ==
  ASSUME IInv, VInv, NEW r \in Request, ImportRow(r) PROVE VInv'
<1> DEFINE i == work.next
           T == RowTouched(r, i)
<1>1. ReqOK /\ pc[r] = "import_rows" /\ lock # Nil /\ i \in Rows(r) /\ UNCHANGED defs
  BY TypeParts, RecordsAssumption DEF ImportRow, IInv
<1>2. CASE Rollback(r)
  BY <1>1, <1>2, AnswerChecked DEF Rollback, VInv, ledger
<1>3. CASE ~Rollback(r)
  <2> DEFINE ff == [k \in Key |-> IF k \in T THEN RowValue(r, i, k) ELSE work.field[k]]
             tt == [k \in Key |-> IF k \in T THEN Append(work.trail[k], RowAudit(r, i, k)) ELSE work.trail[k]]
  <2>1. /\ UNCHANGED <<ledger, pc, status, locals, lock>>
        /\ work' = [next |-> i + 1, person |-> work.person, used |-> work.used, field |-> ff, trail |-> tt]
    BY <1>3 DEF ImportRow
  <2>2. work'.field = ff
    <3> HIDE DEF ff, tt
    <3> QED BY <2>1
  <2>3. ASSUME NEW k \in T PROVE RowValue(r, i, k) \in accepted[k[2]]
    <3>1. /\ k \in Key /\ k[2] \in Def /\ known[r][k[2]].name \in DOMAIN call[r].sheet[i]
          /\ call[r].sheet[i][known[r][k[2]].name] # Blank
      BY DEF RowTouched, Key
    <3> HIDE DEF i
    <3> QED BY <1>1, <3>1, CellAccepted DEF RowValue
  <2>4. Acceptable(work.field)
    BY <1>1 DEF VInv
  <2> HIDE DEF T
  <2>5. Acceptable(work'.field)
    BY <2>2, <2>3, <2>4 DEF Acceptable
  <2> QED BY <1>1, <2>1, <2>5, ImportMove DEF locals, ledger
<1> QED BY <1>2, <1>3

LEMMA CommitChecked ==
  ASSUME IInv, VInv, NEW r \in Request, ImportCommit(r) PROVE VInv'
<1>1. /\ ReqOK /\ lock # Nil /\ lock' = Nil /\ UNCHANGED defs /\ field' = work.field
      /\ Goto(r, "reply") /\ UNCHANGED <<status, locals>>
  BY TypeParts, RecordsAssumption DEF ImportCommit, IInv
<1>2. Acceptable(field')
  BY <1>1 DEF VInv
<1> QED BY <1>1, <1>2, GotoChecked DEF locals
-----------------------------------------------------------------------------
LEMMA VNextStep ==
  ASSUME IInv, VInv, [Next]_vars PROVE VInv'
<1>1. CASE UNCHANGED vars
  <2>1. AcceptedGrows /\ UNCHANGED <<pc, call, known, found, def, accepted, field, work, lock>>
    BY <1>1 DEF vars, AcceptedGrows
  <2>2. \A r \in Request : Checked(r)'
    BY <2>1, OthersChecked DEF VInv
  <2> QED BY <2>1, <2>2 DEF VInv, Past, UniqueNames, Acceptable
<1>2. ASSUME NEW r \in Request, Step(r) PROVE VInv'
  BY <1>2, ReadChecked, FieldsChecked, DeleteChecked, BeginChecked, RowChecked, CommitChecked DEF Step, Reads
<1> QED BY <1>1, <1>2, ArriveChecked, DefineChecked, RestartChecked DEF Next

\* The inductive invariant: what was validated is what will be written.
THEOREM VInvariance == Spec => []VInv
<1>1. IInv /\ VInv /\ [Next]_vars => VInv'
  BY VNextStep
<1> QED BY <1>1, VInitially, Invariance, PTL DEF Spec

\* No value is ever stored that its definition has never accepted.
THEOREM StoredValuesAcceptedAlways == Spec => []StoredValuesAccepted
<1>1. VInv => StoredValuesAccepted
  BY DEF VInv, Acceptable, StoredValuesAccepted
<1> QED BY <1>1, VInvariance, PTL
-----------------------------------------------------------------------------
(* Trails that grow. *)

\* Trail t continues s with entries of user u only, and ends with the value v.
Continues(s, t, u, v) ==
  /\ Len(s) < Len(t) /\ \A i \in 1..Len(s) : t[i] = s[i]
  /\ \A i \in Len(s) + 1 .. Len(t) : t[i].user = u
  /\ Last(t).new = v

LEMMA AppendContinues ==
  ASSUME NEW s \in Seq(Entry), NEW t \in Seq(Entry), NEW e \in Entry, NEW w,
         t = s \/ Continues(s, t, e.user, w)
  PROVE  Continues(s, Append(t, e), e.user, e.new)
<1> DEFINE a == Append(t, e)
<1>1. Len(a) = Len(t) + 1 /\ (\A i \in 1..Len(t) : a[i] = t[i]) /\ a[Len(t) + 1] = e
  OBVIOUS
<1>2. Last(a) = e
  BY <1>1 DEF Last
<1>3. Len(s) \in Nat /\ Len(t) \in Nat /\ Len(s) <= Len(t)
  BY DEF Continues
<1> HIDE DEF a
<1>4. \A i \in 1..Len(s) : a[i] = s[i]
  BY <1>1, <1>3 DEF Continues
<1>5. \A i \in Len(s) + 1 .. Len(a) : a[i].user = e.user
  BY <1>1, <1>3 DEF Continues
<1>6. Len(s) < Len(a)
  BY <1>1, <1>3
<1>7. Continues(s, a, e.user, e.new)
  BY <1>2, <1>4, <1>5, <1>6 DEF Continues
<1> QED BY <1>7 DEF a

LEMMA PrefixOf ==
  ASSUME NEW s \in Seq(Entry), NEW t \in Seq(Entry), Len(s) <= Len(t), \A i \in 1..Len(s) : t[i] = s[i]
  PROVE  IsPrefix(s, t)
<1>1. SubSeq(s, 1, Len(s)) = SubSeq(t, 1, Len(s))
  OBVIOUS
<1> QED BY <1>1 DEF IsPrefix

\* What the ledger says of a pair of a person that stays.
LEMMA Revision ==
  ASSUME LedgerOK, LedgerOK', NEW k \in Key, NEW u,
         \/ field'[k] = field[k] /\ trail'[k] = trail[k]
         \/ Continues(trail[k], trail'[k], u, field'[k])
  PROVE  Ledger!Revised(k, u)
<1>1. trail[k] \in Seq(Entry) /\ trail'[k] \in Seq(Entry)
  BY DEF LedgerOK
<1>2. CASE Continues(trail[k], trail'[k], u, field'[k])
  <2>1. IsPrefix(trail[k], trail'[k]) /\ trail[k] # trail'[k]
    BY <1>1, <1>2, PrefixOf DEF Continues
  <2>2. Ledger!IsStrictPrefix(trail[k], trail'[k])
    BY <2>1 DEF IsPrefix, Ledger!IsStrictPrefix, Ledger!IsPrefix
  <2>3. Ledger!Last(trail'[k]).new = field'[k]
    BY <1>2 DEF Continues, Last, Ledger!Last
  <2> QED BY <1>2, <2>2, <2>3 DEF Continues, Ledger!Revised
<1> QED BY <1>2 DEF Ledger!Revised
-----------------------------------------------------------------------------
(* What a request knows, and what an open import will commit. *)

\* The persons that a DELETE found: one at most, and one that its path is about.
Sought(r) ==
  /\ \A p, q \in Found(r) : p = q
  /\ OnlyVoterId(Text(r)) => \A p \in Found(r) : person[p] # Nil => Satisfies(Text(r), p, known[r])

ReqFacts(r) ==
  /\ Found(r) \subseteq used
  /\ pc[r] = "delete" => Kind[r] = "delete"
  /\ Kind[r] = "delete" /\ pc[r] \in {"filter_fields", "delete"} => Sought(r)

\* The transaction has revised persons there are and created others, under new IDs.
Pending ==
  lock # Nil =>
    /\ used \subseteq work.used
    /\ \A p \in Person : person[p] # Nil => work.person[p] = person[p]
    /\ \A p \in Person : person[p] = Nil /\ work.person[p] # Nil => p \notin used /\ p \in work.used
    /\ \A k \in Key : person[k[1]] # Nil =>
         \/ work.field[k] = field[k] /\ work.trail[k] = trail[k]
         \/ Continues(trail[k], work.trail[k], UserOf[lock], work.field[k])
    /\ \A k \in Key : person[k[1]] = Nil => work.trail[k] = <<>>

LInv == (\A r \in Request : ReqFacts(r)) /\ Pending

\* IDs are never handed out again, so a person in use stays or goes.
IDsStay == used \subseteq used' /\ \A p \in used : person'[p] \in {Nil, person[p]}

\* Conditions on the voter ID go on holding for as long as the person is there.
LEMMA SoughtStays ==
  ASSUME NEW q \in Request, Sought(q), Found(q)' = Found(q), Found(q) \subseteq used, IDsStay,
         call'[q] = call[q], known'[q] = known[q]
  PROVE  Sought(q)'
<1>1. Text(q)' = Text(q)
  BY DEF Text
<1>2. ASSUME OnlyVoterId(Text(q)), NEW p \in Found(q), person'[p] # Nil
      PROVE  Satisfies(Text(q), p, known[q])'
  <2>1. person'[p] = person[p] /\ Satisfies(Text(q), p, known[q])
    BY <1>2 DEF IDsStay, Sought
  <2> QED BY <1>1, <1>2, <2>1 DEF OnlyVoterId, Satisfies, Meets
<1> QED BY <1>1, <1>2 DEF Sought

LEMMA OtherRequests ==
  ASSUME NEW q \in Request, ReqFacts(q), IDsStay,
         /\ pc'[q] = pc[q] /\ call'[q] = call[q]
         /\ known'[q] = known[q] /\ found'[q] = found[q]
  PROVE  ReqFacts(q)'
<1>1. Found(q)' = Found(q) /\ Found(q) \subseteq used
  BY DEF Found, ReqFacts
<1>2. Sought(q) => Sought(q)'
  BY <1>1, SoughtStays DEF IDsStay, Sought
<1> QED BY <1>1, <1>2 DEF IDsStay, ReqFacts

LEMMA OwnMove ==
  ASSUME NEW r \in Request, ReqFacts(r), IDsStay, found'[r] = found[r],
         pc'[r] \notin {"filter_fields", "delete"}
  PROVE  ReqFacts(r)'
<1>1. Found(r)' = Found(r)
  BY DEF Found
<1> QED BY <1>1 DEF IDsStay, ReqFacts

LEMMA OwnEnd ==
  ASSUME NEW r \in Request, found'[r] = NoPersons, pc'[r] = "answered"
  PROVE  ReqFacts(r)'
<1>1. Found(r)' = {}
  BY DEF Found, NoPersons
<1> QED BY <1>1 DEF ReqFacts, NoCall

LEMMA AnswerFacts ==
  ASSUME ReqOK, NEW r \in Request, NEW s, Answer(r, s), IDsStay, \A q \in Request : ReqFacts(q)
  PROVE  \A q \in Request : ReqFacts(q)'
<1>1. ReqFacts(r)'
  BY OwnEnd DEF ReqOK, Answer, Goto
<1>2. ASSUME NEW q \in Request \ {r} PROVE ReqFacts(q)'
  BY OtherRequests DEF ReqOK, Answer, Goto
<1> QED BY <1>1, <1>2

LEMMA GotoFacts ==
  ASSUME ReqOK, NEW r \in Request, NEW p, Goto(r, p), p \notin {"filter_fields", "delete"},
         UNCHANGED <<call, found>>, IDsStay,
         \A q \in Request \ {r} : known'[q] = known[q], \A q \in Request : ReqFacts(q)
  PROVE  \A q \in Request : ReqFacts(q)'
<1>1. ReqFacts(r)'
  BY OwnMove DEF ReqOK, Goto
<1>2. ASSUME NEW q \in Request \ {r} PROVE ReqFacts(q)'
  BY OtherRequests DEF ReqOK, Goto
<1> QED BY <1>1, <1>2

LEMMA Quiet ==
  ASSUME IInv, UNCHANGED ledger
  PROVE  IDsStay
  BY DEF ledger, IDsStay

LEMMA QuietPending ==
  ASSUME Pending, UNCHANGED <<ledger, tx>>
  PROVE  Pending'
  BY DEF Pending, ledger, tx

LEMMA ArriveFacts ==
  ASSUME IInv, LInv, NEW r \in Request, Arrive(r)
  PROVE  LInv'
<1>1. UNCHANGED <<ledger, defs, tx>> /\ ReqOK
  BY TypeParts, ArriveType DEF IInv
<1>2. Pending' /\ IDsStay
  BY <1>1, Quiet, QuietPending DEF LInv
<1>3. CASE Answer(r, "ok")
  BY <1>1, <1>2, <1>3, AnswerFacts DEF LInv
<1>4. CASE \E k \in Kinds, p \in {"filter_definitions", "import_definitions"}, w \in SUBSET Value,
              b \in Bodies \cup {<<>>}, s \in Sheets \cup {<<>>} :
             /\ Call(r, k, p, w, b, s)
             /\ k = "delete" => \A x, y \in w : x = y
  <2>1. PICK k \in Kinds, p \in {"filter_definitions", "import_definitions"}, w \in SUBSET Value,
             b \in Bodies \cup {<<>>}, s \in Sheets \cup {<<>>} :
             /\ Call(r, k, p, w, b, s)
             /\ k = "delete" => \A x, y \in w : x = y
    BY <1>4
  <2>2. /\ Kind[r] = k /\ pc'[r] = p /\ found' = found
        /\ call'[r] = [want |-> w, body |-> b, sheet |-> s]
        /\ \A q \in Request \ {r} : pc'[q] = pc[q] /\ call'[q] = call[q] /\ known'[q] = known[q]
    BY <1>1, <2>1 DEF Call, Goto, ReqOK
  <2>3. ReqFacts(r)'
    BY <1>2, <2>1, <2>2 DEF LInv, ReqFacts, Found, IDsStay
  <2>4. ASSUME NEW q \in Request \ {r} PROVE ReqFacts(q)'
    BY <1>2, <2>2, OtherRequests DEF LInv
  <2> QED BY <1>2, <2>3, <2>4 DEF LInv
<1>5. ASSUME NEW v \in DOMAIN PathReads, DeletePerson(r, v) PROVE LInv'
  BY <1>4, <1>5, RecordsAssumption DEF DeletePerson, Kinds
<1>6. ASSUME NEW v \in DOMAIN PathReads, NEW b \in Bodies, PatchPerson(r, v, b) PROVE LInv'
  BY <1>4, <1>6, RecordsAssumption DEF PatchPerson, Kinds
<1>7. ASSUME NEW vs \in DOMAIN ListReads, NEW b \in Bodies, UpdatePersons(r, vs, b) PROVE LInv'
  BY <1>3, <1>4, <1>7, RecordsAssumption DEF UpdatePersons, Kinds
<1>8. ASSUME NEW s \in Sheets, ImportPersons(r, s) PROVE LInv'
  BY <1>4, <1>8 DEF ImportPersons, Kinds
<1> QED BY <1>5, <1>6, <1>7, <1>8 DEF Arrive

LEMMA FoundByFilter ==
  ASSUME IInv, LInv, NEW r \in Request, FilterPersons(r)
  PROVE  ReqFacts(r)'
<1>1. PICK S \in Picks(r) :
        found' = [found EXCEPT ![r] = [p \in Person |-> IF p \in S THEN person[p] ELSE Nil]]
  BY DEF FilterPersons
<1>2. /\ found'[r] = [p \in Person |-> IF p \in S THEN person[p] ELSE Nil]
      /\ call'[r] = call[r] /\ known'[r] = known[r] /\ pc'[r] \in {"filter_fields", "reread_fields"}
      /\ UNCHANGED ledger
  BY <1>1, TypeParts DEF FilterPersons, Goto, IInv, ReqOK
<1>3. S \subseteq Hits(r) /\ (Kind[r] # "update" => \A p, q \in S : p = q)
  BY DEF Picks
<1>4. Found(r)' = S /\ S \subseteq Present /\ Present \subseteq used
  BY <1>2, <1>3 DEF Found, Hits, Present, IInv, Sound
<1>5. /\ used' = used /\ person' = person /\ Text(r)' = Text(r)
      /\ \A p \in S : Satisfies(Text(r), p, known[r])'
  <2>1. UNCHANGED <<used, person, field>>
    BY <1>2 DEF ledger
  <2>2. ASSUME NEW p \in S PROVE Satisfies(Text(r), p, known[r])'
    BY <1>2, <1>3, <2>1 DEF Hits, Satisfies, Meets, Text
  <2> QED BY <1>2, <2>1, <2>2 DEF Text
<1>6. Kind[r] = "delete" => Sought(r)'
  BY <1>3, <1>4, <1>5 DEF Sought
<1> QED BY <1>2, <1>4, <1>5, <1>6 DEF ReqFacts, LInv

LEMMA ReadFacts ==
  ASSUME IInv, LInv, NEW r \in Request, Reads(r)
  PROVE  LInv'
<1>1. UNCHANGED <<ledger, defs, tx>> /\ ReqOK
  BY TypeParts, ReadType DEF IInv
<1>2. Pending' /\ IDsStay /\ \A q \in Request : ReqFacts(q)
  BY <1>1, Quiet, QuietPending DEF LInv
<1>3. CASE \E s \in Status : Answer(r, s)
  BY <1>1, <1>2, <1>3, AnswerFacts DEF LInv
<1>4. CASE ~ \E s \in Status : Answer(r, s)
  <2>0. /\ ~Answer(r, "ok") /\ ~Answer(r, "error")
        /\ ~Answer(r, "bad_request") /\ ~Answer(r, "not_found")
    BY <1>4 DEF Status
  <2>1. CASE FilterDefinitions(r)
    BY <1>1, <1>2, <2>0, <2>1, GotoFacts DEF FilterDefinitions, ReqOK, LInv
  <2>2. CASE FilterPersons(r)
    <3>1. ASSUME NEW q \in Request \ {r} PROVE ReqFacts(q)'
      BY <1>1, <1>2, <2>2, OtherRequests DEF FilterPersons, Goto, ReqOK
    <3> QED BY <1>2, <2>2, <3>1, FoundByFilter DEF LInv
  <2>3. CASE FilterFields(r)
    <3>1. /\ Goto(r, IF Kind[r] = "delete" THEN "delete" ELSE "definitions")
          /\ pc[r] = "filter_fields" /\ UNCHANGED <<call, known, found>>
      BY <2>0, <2>3 DEF FilterFields
    <3>2. pc'[r] = IF Kind[r] = "delete" THEN "delete" ELSE "definitions"
      BY <1>1, <3>1 DEF Goto, ReqOK
    <3>3. ReqFacts(r)'
      BY <1>1, <1>2, <3>1, <3>2, SoughtStays DEF ReqFacts, Found, ledger
    <3>4. ASSUME NEW q \in Request \ {r} PROVE ReqFacts(q)'
      BY <1>1, <1>2, <3>1, OtherRequests DEF Goto, ReqOK
    <3> QED BY <1>2, <3>3, <3>4 DEF LInv
  <2>4. CASE RereadFields(r) \/ Reply(r) \/ Busy(r)
    BY <2>0, <2>4 DEF RereadFields, Reply, Busy
  <2>5. CASE ReadDefinitions(r)
    BY <1>1, <1>2, <2>0, <2>5, GotoFacts DEF ReadDefinitions, ReqOK, LInv
  <2>6. CASE ImportDefinitions(r)
    BY <1>1, <1>2, <2>6, GotoFacts DEF ImportDefinitions, ReqOK, LInv
  <2>7. CASE ImportExisting(r)
    <3>1. /\ found' = [found EXCEPT ![r] = person] /\ Goto(r, "import_begin") /\ UNCHANGED <<call, known>>
      BY <2>0, <2>7 DEF ImportExisting
    <3>2. found'[r] = person /\ pc'[r] = "import_begin" /\ person' = person /\ used' = used
      BY <1>1, <3>1 DEF Goto, ReqOK, ledger
    <3>3. Found(r)' \subseteq used'
      BY <3>2 DEF Found, IInv, Sound
    <3>4. ReqFacts(r)'
      BY <1>2, <3>1, <3>2, <3>3 DEF ReqFacts
    <3>5. ASSUME NEW q \in Request \ {r} PROVE ReqFacts(q)'
      BY <1>1, <1>2, <3>1, OtherRequests DEF Goto, ReqOK
    <3> QED BY <1>2, <3>4, <3>5 DEF LInv
  <2> QED BY <2>1, <2>2, <2>3, <2>4, <2>5, <2>6, <2>7 DEF Reads
<1> QED BY <1>3, <1>4
-----------------------------------------------------------------------------
(* The transactions. *)

\* A transaction that leaves every person as it is or creates some is a step of the
\* ledger, if it writes as Continues says.
LEMMA WriteStep ==
  ASSUME IInv, IInv', NEW u \in User, used \subseteq used',
         \A p \in Person : person[p] # Nil => person'[p] = person[p],
         \A p \in Person : person[p] = Nil /\ person'[p] # Nil => p \notin used /\ p \in used',
         \A k \in Key : person[k[1]] # Nil =>
           \/ field'[k] = field[k] /\ trail'[k] = trail[k]
           \/ Continues(trail[k], trail'[k], u, field'[k]),
         \A k \in Key : person[k[1]] = Nil => trail'[k] = <<>>
  PROVE  Ledger!Write(u)
<1>1. LedgerOK /\ LedgerOK'
  BY TypeParts DEF IInv, LedgerOK, TypeOK
<1>2. Ledger!Key = Key /\ Ledger!Present = Present
  BY DEF Ledger!Key, Key, Ledger!Present, Present
<1>3. ASSUME NEW k \in Key
      PROVE  /\ k[1] \in Present => Ledger!Revised(k, u)
             /\ k[1] \notin Present => trail'[k] = <<>>
             /\ person'[k[1]] = Nil => field'[k] = Nil
  <2>1. k[1] \in Person
    BY DEF Key
  <2>2. k[1] \in Present => Ledger!Revised(k, u)
    BY <1>1, Revision DEF Present
  <2> QED BY <2>1, <2>2 DEF Present, IInv, Sound
<1>4. Ledger!DistinctVoters(person')
  BY DEF IInv, Sound, DistinctVoters, Ledger!DistinctVoters
<1>5. /\ person' \in [Person -> Value \cup {Nil}] /\ field' \in [Ledger!Key -> Value \cup {Nil}]
      /\ \A p \in Person : person[p] # person'[p] => p \notin used /\ p \in used'
  BY <1>1, <1>2 DEF LedgerOK
<1> QED BY <1>2, <1>3, <1>4, <1>5 DEF Ledger!Write

LEMMA CommitFieldsLedger ==
  ASSUME IInv, IInv', LInv, NEW r \in Request, CommitFields(r)
  PROVE  /\ LInv'
         /\ \/ UNCHANGED ledger
            \/ /\ Ledger!Write(UserOf[r])
               /\ \A k \in Key : \/ field'[k] = field[k] /\ trail'[k] = trail[k]
                                 \/ Continues(trail[k], trail'[k], UserOf[r], field'[k])
<1>1. UNCHANGED <<person, used, tx>> /\ lock = Nil /\ ReqOK
  BY TypeParts DEF CommitFields, IInv
<1>2. IDsStay /\ Pending' /\ \A q \in Request : ReqFacts(q)
  BY <1>1 DEF IDsStay, Pending, tx, LInv
<1>3. CASE Orphaned(Touched(r), person)
  <2>1. Answer(r, "error") /\ UNCHANGED ledger
    BY <1>3 DEF CommitFields, ledger
  <2> QED BY <1>1, <1>2, <2>1, AnswerFacts DEF LInv
<1>4. CASE ~Orphaned(Touched(r), person)
  <2> DEFINE T == Touched(r)
  <2>1. /\ field' = [k \in Key |-> IF k \in T THEN NewValue(r, k) ELSE field[k]]
        /\ trail' = [k \in Key |-> IF k \in T THEN Append(trail[k], AuditOf(r, k)) ELSE trail[k]]
        /\ Goto(r, "reread_definitions") /\ UNCHANGED <<status, locals>>
    BY <1>4 DEF CommitFields
  <2>2. LInv'
    BY <1>1, <1>2, <2>1, GotoFacts DEF LInv, locals
  <2>3. ASSUME NEW k \in Key
        PROVE  \/ field'[k] = field[k] /\ trail'[k] = trail[k]
               \/ Continues(trail[k], trail'[k], UserOf[r], field'[k])
    <3>1. CASE k \in T
      <4>1. AuditOf(r, k) \in Entry /\ trail[k] \in Seq(Entry)
        BY <3>1, TouchedPair DEF IInv, TypeOK
      <4>2. Continues(trail[k], Append(trail[k], AuditOf(r, k)), AuditOf(r, k).user, AuditOf(r, k).new)
        BY <4>1, AppendContinues
      <4>3. AuditOf(r, k).user = UserOf[r] /\ AuditOf(r, k).new = NewValue(r, k)
        BY DEF AuditOf
      <4> QED BY <2>1, <3>1, <4>2, <4>3
    <3>2. CASE k \notin T
      BY <2>1, <3>2
    <3> QED BY <3>1, <3>2
  <2>4. \A k \in Key : person[k[1]] = Nil => trail'[k] = <<>>
    BY <1>1 DEF IInv, Sound
  <2>5. UserOf[r] \in User
    BY RecordsAssumption
  <2>6. Ledger!Write(UserOf[r])
    BY <1>1, <2>3, <2>4, <2>5, WriteStep
  <2> QED BY <2>2, <2>3, <2>6
<1> QED BY <1>3, <1>4

\* Only the person that was found goes, and only if it is still there.
LEMMA CommitDeleteLedger ==
  ASSUME IInv, LInv, NEW r \in Request, CommitDelete(r)
  PROVE  LInv' /\ ((\E p \in Person : Ledger!Expunge(p)) \/ UNCHANGED ledger)
<1>1. /\ UNCHANGED <<used, tx>> /\ lock = Nil /\ ReqOK
      /\ person' = [p \in Person |-> IF p \in Found(r) THEN Nil ELSE person[p]]
      /\ field' = [k \in Key |-> IF k[1] \in Found(r) THEN Nil ELSE field[k]]
      /\ trail' = [k \in Key |-> IF k[1] \in Found(r) THEN <<>> ELSE trail[k]]
      /\ pc[r] = "delete" /\ Goto(r, "reply") /\ UNCHANGED <<status, locals>>
  BY TypeParts DEF CommitDelete, IInv
<1>2. person \in [Person -> Value \cup {Nil}] /\ field \in [Key -> Value \cup {Nil}]
      /\ trail \in [Key -> Seq(Entry)] /\ used \subseteq Person
  BY DEF IInv, TypeOK
<1>3. IDsStay /\ Pending' /\ \A q \in Request : ReqFacts(q)
  BY <1>1, <1>2 DEF IDsStay, Pending, tx, LInv
<1>4. LInv'
  BY <1>1, <1>3, GotoFacts DEF LInv, locals
<1>5. \A p, q \in Found(r) : p = q
  BY <1>1, <1>3 DEF ReqFacts, Sought
<1>6. CASE \E p \in Found(r) : person[p] # Nil
  <2>1. PICK p \in Found(r) : person[p] # Nil
    BY <1>6
  <2>2. Found(r) = {p} /\ p \in Person
    BY <1>5, <2>1 DEF Found
  <2>3. Ledger!Expunge(p)
    <3>1. person' = [person EXCEPT ![p] = Nil]
      BY <1>1, <1>2, <2>2
    <3>2. field' = [k \in Ledger!Key |-> IF k[1] = p THEN Nil ELSE field[k]]
      BY <1>1, <2>2 DEF Key, Ledger!Key
    <3>3. trail' = [k \in Ledger!Key |-> IF k[1] = p THEN <<>> ELSE trail[k]]
      BY <1>1, <2>2 DEF Key, Ledger!Key
    <3>4. p \in Ledger!Present
      BY <2>1, <2>2 DEF Ledger!Present
    <3> QED BY <1>1, <3>1, <3>2, <3>3, <3>4 DEF Ledger!Expunge
  <2> QED BY <1>4, <2>2, <2>3
<1>7. CASE \A p \in Found(r) : person[p] = Nil
  <2>1. person' = person
    BY <1>1, <1>2, <1>7
  <2>2. \A k \in Key : k[1] \in Found(r) => field[k] = Nil /\ trail[k] = <<>>
    BY <1>7 DEF IInv, Sound
  <2>3. field' = field /\ trail' = trail
    BY <1>1, <1>2, <2>2
  <2> QED BY <1>1, <1>4, <2>1, <2>3 DEF ledger
<1> QED BY <1>6, <1>7

LEMMA ImportBeginLedger ==
  ASSUME IInv, LInv, NEW r \in Request, ImportBegin(r)
  PROVE  LInv' /\ UNCHANGED ledger
<1>1. UNCHANGED ledger /\ lock = Nil /\ ReqOK
  BY TypeParts DEF ImportBegin, IInv
<1>2. IDsStay /\ \A q \in Request : ReqFacts(q)
  BY <1>1, Quiet DEF LInv
<1>3. CASE Clash(r)
  <2>1. Answer(r, "error") /\ UNCHANGED tx
    BY <1>3 DEF ImportBegin
  <2> QED BY <1>1, <1>2, <2>1, AnswerFacts, QuietPending DEF LInv
<1>4. CASE ~Clash(r)
  <2>1. PICK ids \in [NewRows(r, found[r]) -> Person \ used] :
          /\ lock' = r /\ opened' = Tables /\ work' = Created(r, ids)
          /\ Goto(r, "import_rows") /\ UNCHANGED <<status, locals>>
    BY <1>4 DEF ImportBegin
  <2> DEFINE fresh == Range(ids)
  <2>2. fresh \subseteq Person \ used
    BY DEF Range
  <2>3. /\ work'.used = used \cup fresh /\ work'.trail = trail
        /\ \A p \in Person \ fresh : work'.person[p] = person[p]
        /\ \A k \in Key : k[1] \notin fresh => work'.field[k] = field[k]
    BY <2>1 DEF Created
  <2> HIDE DEF fresh
  <2>4. \A p \in Person : person[p] # Nil => p \in used
    BY DEF IInv, Sound
  <2>5. \A k \in Key : k[1] \in Person
    BY DEF Key
  <2>6. /\ \A p \in Person : person[p] # Nil => work'.person[p] = person[p]
        /\ \A p \in Person : person[p] = Nil /\ work'.person[p] # Nil => p \notin used /\ p \in work'.used
    BY <2>2, <2>3, <2>4
  <2>7. \A k \in Key : person[k[1]] # Nil => work'.field[k] = field[k] /\ work'.trail[k] = trail[k]
    BY <2>2, <2>3, <2>4, <2>5
  <2>8. \A k \in Key : person[k[1]] = Nil => work'.trail[k] = <<>>
    BY <2>3 DEF IInv, Sound
  <2>9. Pending'
    BY <1>1, <2>3, <2>6, <2>7, <2>8 DEF Pending, ledger
  <2> QED BY <1>1, <1>2, <2>1, <2>9, GotoFacts DEF LInv, locals
<1> QED BY <1>3, <1>4

\* A row revises persons that were there when the import read them, and still are.
LEMMA ImportRowLedger ==
  ASSUME IInv, LInv, NEW r \in Request, ImportRow(r)
  PROVE  LInv' /\ UNCHANGED ledger
<1> DEFINE i == work.next
           T == RowTouched(r, i)
<1>1. lock = r /\ lock # Nil /\ i \in Rows(r) /\ ReqOK
  BY TypeParts, RecordsAssumption DEF ImportRow, IInv
<1>2. CASE Rollback(r)
  <2>1. UNCHANGED ledger /\ lock' = Nil /\ Answer(r, "error")
    BY <1>2 DEF Rollback
  <2>2. Pending' /\ IDsStay
    BY <2>1, Quiet DEF Pending
  <2> QED BY <1>1, <2>1, <2>2, AnswerFacts DEF LInv
<1>3. CASE ~Rollback(r)
  <2> DEFINE ff == [k \in Key |-> IF k \in T THEN RowValue(r, i, k) ELSE work.field[k]]
             tt == [k \in Key |-> IF k \in T THEN Append(work.trail[k], RowAudit(r, i, k)) ELSE work.trail[k]]
  <2>0. /\ ~Orphaned(T, work.person) /\ UNCHANGED <<ledger, pc, locals, lock>>
        /\ work' = [next |-> i + 1, person |-> work.person, used |-> work.used, field |-> ff, trail |-> tt]
    <3>1. ~Orphaned(T, work.person)
      BY <1>3 DEF ImportRow
    <3> QED BY <3>1 DEF ImportRow
  <2>1. /\ ~Orphaned(T, work.person) /\ UNCHANGED <<ledger, pc, locals, lock>>
        /\ work'.person = work.person /\ work'.used = work.used /\ work'.field = ff /\ work'.trail = tt
    <3> HIDE DEF T, ff, tt
    <3> QED BY <2>0
  <2>2. IDsStay
    BY <2>1, Quiet
  <2>3. \A q \in Request : ReqFacts(q)'
    BY <2>1, <2>2, OtherRequests DEF LInv, locals
  <2>4. ASSUME NEW k \in T
        PROVE  /\ k \in Key /\ k[1] \in Person /\ person[k[1]] # Nil
               /\ RowAudit(r, i, k) \in Entry /\ RowAudit(r, i, k).user = UserOf[r]
               /\ RowAudit(r, i, k).new = RowValue(r, i, k)
    <3>1. k \in Key /\ k[1] \in TargetOf(r, i) /\ known[r][k[2]].name \in DOMAIN call[r].sheet[i]
      BY DEF RowTouched
    <3>2. IsRow(call[r].sheet[i]) /\ VoterOf(call[r].sheet[i]) \in Value
      BY <1>1, SheetRow DEF IInv
    <3>3. k[1] \in Found(r) /\ k[1] \in used /\ k[1] \in Person
      BY <3>1, <3>2, RecordsAssumption DEF TargetOf, Found, LInv, ReqFacts
    <3>4. work.person[k[1]] # Nil
      BY <2>1 DEF Orphaned
    <3>5. person[k[1]] # Nil
      BY <1>1, <3>3, <3>4 DEF LInv, Pending
    <3>6. RowValue(r, i, k) \in Value
      BY <3>1, <3>2 DEF RowValue, IsRow
    <3>7. work.field[k] \in Value \cup {Nil}
      BY <3>1 DEF IInv, TypeOK, WorkType
    <3> QED BY <3>1, <3>3, <3>5, <3>6, <3>7, RecordsAssumption DEF RowAudit, Entry
  <2> HIDE DEF i, T
  <2>5. ASSUME NEW k \in Key, person[k[1]] # Nil
        PROVE  \/ work'.field[k] = field[k] /\ work'.trail[k] = trail[k]
               \/ Continues(trail[k], work'.trail[k], UserOf[r], work'.field[k])
    <3>1. \/ work.field[k] = field[k] /\ work.trail[k] = trail[k]
          \/ Continues(trail[k], work.trail[k], UserOf[r], work.field[k])
      BY <1>1, <2>5 DEF LInv, Pending
    <3>2. CASE k \in T
      <4>1. trail[k] \in Seq(Entry) /\ work.trail[k] \in Seq(Entry)
        BY DEF IInv, TypeOK, WorkType
      <4>2. RowAudit(r, i, k) \in Entry /\ RowAudit(r, i, k).user = UserOf[r]
        BY <2>4, <3>2
      <4>3. Continues(trail[k], Append(work.trail[k], RowAudit(r, i, k)),
                      RowAudit(r, i, k).user, RowAudit(r, i, k).new)
        BY <3>1, <4>1, <4>2, AppendContinues
      <4> QED BY <2>1, <2>4, <3>2, <4>2, <4>3
    <3>3. CASE k \notin T
      BY <2>1, <3>1, <3>3
    <3> QED BY <3>2, <3>3
  <2>6. ASSUME NEW k \in Key, person[k[1]] = Nil PROVE work'.trail[k] = <<>>
    <3>1. k \notin T
      BY <2>4, <2>6
    <3> QED BY <1>1, <2>1, <2>6, <3>1 DEF LInv, Pending
  <2>7. Pending'
    BY <1>1, <2>1, <2>5, <2>6 DEF LInv, Pending, ledger
  <2> QED BY <2>1, <2>3, <2>7 DEF LInv
<1> QED BY <1>2, <1>3

LEMMA ImportCommitLedger ==
  ASSUME IInv, IInv', LInv, NEW r \in Request, ImportCommit(r)
  PROVE  LInv' /\ Ledger!Write(UserOf[r])
<1>1. /\ person' = work.person /\ used' = work.used /\ field' = work.field /\ trail' = work.trail
      /\ lock = r /\ lock # Nil /\ lock' = Nil /\ Goto(r, "reply") /\ UNCHANGED <<status, locals>> /\ ReqOK
  BY TypeParts, RecordsAssumption DEF ImportCommit, IInv
<1>2. /\ used \subseteq used' /\ \A p \in Person : person[p] # Nil => person'[p] = person[p]
      /\ \A p \in Person : person[p] = Nil /\ person'[p] # Nil => p \notin used /\ p \in used'
      /\ \A k \in Key : person[k[1]] # Nil =>
           \/ field'[k] = field[k] /\ trail'[k] = trail[k]
           \/ Continues(trail[k], trail'[k], UserOf[r], field'[k])
      /\ \A k \in Key : person[k[1]] = Nil => trail'[k] = <<>>
  BY <1>1 DEF LInv, Pending
<1>3. UserOf[r] \in User /\ used \subseteq Person
  BY RecordsAssumption DEF IInv, TypeOK
<1>4. Ledger!Write(UserOf[r])
  BY <1>2, <1>3, WriteStep
<1>5. IDsStay /\ Pending'
  BY <1>1, <1>2, <1>3 DEF IDsStay, Pending
<1>6. LInv'
  BY <1>1, <1>5, GotoFacts DEF LInv, locals
<1> QED BY <1>4, <1>6
-----------------------------------------------------------------------------
LEMMA RestartLedger ==
  ASSUME IInv, LInv, Restart
  PROVE  LInv' /\ UNCHANGED ledger
<1>1. UNCHANGED ledger /\ lock' = Nil
  BY DEF Restart
<1>2. Pending' /\ IDsStay /\ ReqOK
  BY <1>1, Quiet, TypeParts DEF Pending, IInv
<1>3. ASSUME NEW r \in Request PROVE ReqFacts(r)'
  <2>1. CASE pc[r] \notin {"idle", "answered"}
    BY <1>2, <2>1, OwnEnd DEF Restart, ReqOK
  <2>2. CASE pc[r] \in {"idle", "answered"}
    BY <1>2, <2>2, OtherRequests DEF Restart, ReqOK, LInv
  <2> QED BY <2>1, <2>2
<1> QED BY <1>1, <1>2, <1>3 DEF LInv

LEMMA IdleLedger ==
  ASSUME IInv, LInv, UNCHANGED <<ledger, tx, pc, call, known, found>>
  PROVE  LInv'
<1>1. IDsStay /\ Pending'
  BY Quiet, QuietPending DEF LInv
<1>2. \A q \in Request : ReqFacts(q)'
  BY <1>1, OtherRequests DEF LInv
<1> QED BY <1>1, <1>2 DEF LInv

\* What every step does: a step of the ledger, or none.
LEMMA NextLedger ==
  ASSUME IInv, LInv, [Next]_vars
  PROVE  LInv' /\ [Ledger!LedgerNext]_ledger
<1>1. IInv'
  BY NextStep
<1>2. \A r \in Request : UserOf[r] \in User
  BY RecordsAssumption
<1>3. CASE UNCHANGED vars
  <2>1. UNCHANGED <<ledger, tx, pc, call, known, found>>
    BY <1>3 DEF vars, ledger, tx
  <2> QED BY <2>1, IdleLedger
<1>4. CASE Define
  <2>1. UNCHANGED <<ledger, tx, pc, call, known, found>>
    BY <1>4 DEF Define, CreateDefinition, UpdateDefinition, EditDefinition, locals
  <2> QED BY <2>1, IdleLedger
<1>5. ASSUME NEW r \in Request, Arrive(r) PROVE LInv' /\ UNCHANGED ledger
  <2>1. UNCHANGED <<ledger, defs, tx>>
    BY <1>5, TypeParts, ArriveType DEF IInv
  <2> QED BY <1>5, <2>1, ArriveFacts
<1>6. ASSUME NEW r \in Request, Reads(r) PROVE LInv' /\ UNCHANGED ledger
  <2>1. UNCHANGED <<ledger, defs, tx>>
    BY <1>6, ReadType DEF IInv
  <2> QED BY <1>6, <2>1, ReadFacts
<1>7. ASSUME NEW r \in Request, Step(r) PROVE LInv' /\ [Ledger!LedgerNext]_ledger
  BY <1>1, <1>2, <1>6, <1>7, CommitFieldsLedger, CommitDeleteLedger, ImportBeginLedger, ImportRowLedger,
     ImportCommitLedger DEF Step, Reads, Ledger!LedgerNext
<1> QED BY <1>3, <1>4, <1>5, <1>7, RestartLedger DEF Next

LEMMA LInitially == Init => LInv /\ Ledger!LedgerInit
<1> SUFFICES ASSUME Init PROVE LInv /\ Ledger!LedgerInit
  OBVIOUS
<1>1. IInv /\ LedgerOK
  BY InitSound, TypeParts DEF IInv
<1>2. ASSUME NEW r \in Request PROVE ReqFacts(r)
  BY DEF Init, ReqFacts, Found, NoPersons, NoCall
<1>3. Pending
  BY DEF Init, Pending
<1>4. Ledger!Key = Key /\ Ledger!Present = Present
  BY DEF Ledger!Key, Key, Ledger!Present, Present
<1>5. Present \subseteq used /\ trail = [k \in Key |-> <<>>]
  BY <1>1 DEF Present, IInv, Sound, Init
<1>6. \A k \in Key : k[1] \notin Present => field[k] = Nil
  BY <1>1 DEF Present, IInv, Sound, Key
<1>7. Ledger!DistinctVoters(person)
  BY <1>1 DEF IInv, Sound, DistinctVoters, Ledger!DistinctVoters
<1> QED BY <1>1, <1>2, <1>3, <1>4, <1>5, <1>6, <1>7 DEF LInv, Ledger!LedgerInit, LedgerOK

\* The invariant that the refinement rests on: IDs are never used twice, and an open
\* import only revises persons there are and creates others.
THEOREM LedgerInvariance == Spec => []LInv
<1>1. Init => LInv
  BY LInitially
<1>2. IInv /\ LInv /\ [Next]_vars => LInv'
  BY NextLedger
<1> QED BY <1>1, <1>2, Invariance, PTL DEF Spec

\* The requests implement the ledger, whatever of them interleave, fail or are cut off.
THEOREM Refinement == Spec => ImplementsLedger
<1>1. Init => Ledger!LedgerInit
  BY LInitially
<1>2. IInv /\ LInv /\ [Next]_vars => [Ledger!LedgerNext]_(Ledger!ledger)
  <2>1. Ledger!ledger = ledger /\ (Ledger!ledger)' = ledger'
    BY DEF Ledger!ledger, ledger
  <2> QED BY <2>1, NextLedger
<1> QED BY <1>1, <1>2, Invariance, LedgerInvariance, PTL DEF Spec, ImplementsLedger, Ledger!LedgerSpec
-----------------------------------------------------------------------------
(* What follows. *)

\* Only CommitFields and ImportCommit write audit entries, those of their request's user.
LEMMA WhoWrites ==
  ASSUME IInv, LInv, [Next]_vars, NEW k \in Key, person[k[1]] # Nil, person'[k[1]] # Nil
  PROVE  \/ field'[k] = field[k] /\ trail'[k] = trail[k]
         \/ \E r \in Request : Committing(r) /\ Continues(trail[k], trail'[k], UserOf[r], field'[k])
<1> DEFINE Kept == field'[k] = field[k] /\ trail'[k] = trail[k]
           Written(r) == Committing(r) /\ Continues(trail[k], trail'[k], UserOf[r], field'[k])
<1>1. UNCHANGED ledger => Kept
  BY DEF ledger
<1>2. IInv' /\ ReqOK /\ k[1] \in Person
  BY NextStep, TypeParts DEF IInv, Key
<1>3. CASE UNCHANGED vars \/ Define \/ Restart
  BY <1>1, <1>3 DEF vars, ledger, Define, CreateDefinition, UpdateDefinition, EditDefinition, Restart
<1>4. ASSUME NEW r \in Request, Arrive(r) \/ Reads(r) \/ ImportBegin(r) \/ ImportRow(r) PROVE Kept
  BY <1>1, <1>4, TypeParts, ArriveType, ReadType, ImportBeginLedger, ImportRowLedger DEF IInv
<1>5. ASSUME NEW r \in Request, CommitFields(r) PROVE Kept \/ Written(r)
  <2>1. pc[r] = "commit" /\ pc'[r] \in {"answered", "reread_definitions"}
    BY <1>2, <1>5 DEF CommitFields, Answer, Goto, ReqOK
  <2>2. Committing(r)
    BY <2>1 DEF Committing
  <2> QED BY <1>1, <1>2, <1>5, <2>2, CommitFieldsLedger
<1>6. ASSUME NEW r \in Request, CommitDelete(r) PROVE Kept
  <2>1. person' = [p \in Person |-> IF p \in Found(r) THEN Nil ELSE person[p]]
        /\ field' = [l \in Key |-> IF l[1] \in Found(r) THEN Nil ELSE field[l]]
        /\ trail' = [l \in Key |-> IF l[1] \in Found(r) THEN <<>> ELSE trail[l]]
    BY <1>6 DEF CommitDelete
  <2>2. k[1] \notin Found(r)
    BY <1>2, <2>1
  <2> QED BY <2>1, <2>2
<1>7. ASSUME NEW r \in Request, ImportCommit(r) PROVE Kept \/ Written(r)
  <2>1. lock = r /\ lock # Nil /\ field' = work.field /\ trail' = work.trail
        /\ pc[r] = "import_rows" /\ pc'[r] = "reply"
    BY <1>2, <1>7, RecordsAssumption DEF ImportCommit, Goto, ReqOK
  <2>2. Kept \/ Continues(trail[k], trail'[k], UserOf[r], field'[k])
    BY <2>1 DEF LInv, Pending
  <2> QED BY <2>1, <2>2 DEF Committing
<1> QED BY <1>3, <1>4, <1>5, <1>6, <1>7 DEF Next, Step, Reads

\* No endpoint changes a field of a person that stays without an audit entry of the
\* user that asked for it, and none takes an entry back.
THEOREM EveryChangeAuditedAlways == Spec => EveryChangeAudited
<1> DEFINE By(k) == \E r \in Request : Committing(r) /\
             \A i \in Len(trail[k]) + 1 .. Len(trail'[k]) : trail'[k][i].user = UserOf[r]
<1>1. ASSUME IInv, LInv, [Next]_vars, NEW k \in Key, person[k[1]] # Nil, person'[k[1]] # Nil
      PROVE  /\ IsPrefix(trail[k], trail'[k])
             /\ field'[k] # field[k] => trail[k] # trail'[k]
             /\ trail'[k] # trail[k] => By(k)
  <2>1. trail[k] \in Seq(Entry) /\ trail'[k] \in Seq(Entry)
    BY <1>1, NextStep DEF IInv, TypeOK
  <2>2. CASE field'[k] = field[k] /\ trail'[k] = trail[k]
    BY <2>1, <2>2, PrefixOf
  <2>3. CASE \E r \in Request : Committing(r) /\ Continues(trail[k], trail'[k], UserOf[r], field'[k])
    <3>1. PICK r \in Request : Committing(r) /\ Continues(trail[k], trail'[k], UserOf[r], field'[k])
      BY <2>3
    <3>2. IsPrefix(trail[k], trail'[k]) /\ trail[k] # trail'[k]
      BY <2>1, <3>1, PrefixOf DEF Continues
    <3> QED BY <3>1, <3>2 DEF Continues
  <2> QED BY <1>1, <2>2, <2>3, WhoWrites
<1>2. IInv /\ LInv /\ [Next]_vars =>
        [\A k \in Key : person[k[1]] # Nil /\ person'[k[1]] # Nil =>
           /\ IsPrefix(trail[k], trail'[k])
           /\ field'[k] # field[k] => trail[k] # trail'[k]
           /\ trail'[k] # trail[k] => By(k)]_vars
  BY <1>1
<1> QED BY <1>2, Invariance, LedgerInvariance, PTL DEF Spec, EveryChangeAudited

\* A person goes only by a DELETE that found it and nobody else, and that was about
\* its voter ID, although it was looked up before the transaction that names its ID.
THEOREM OnlyRequestedDeletesAlways == Spec => OnlyRequestedDeletes
<1> DEFINE By(r, p) == /\ Kind[r] = "delete" /\ pc[r] = "delete" /\ pc'[r] = "reply"
                       /\ OnlyVoterId(Text(r)) => Satisfies(Text(r), p, known[r])
           Gone(p) == person[p] # Nil /\ person'[p] = Nil
<1>1. ASSUME IInv, LInv, [Next]_vars, NEW p \in Person, Gone(p)
      PROVE  (\A q \in Person : Gone(q) => q = p) /\ \E r \in Request : By(r, p)
  <2>1. ~UNCHANGED ledger
    BY <1>1 DEF ledger
  <2>2. ASSUME NEW r \in Request, CommitFields(r) \/ ImportCommit(r) PROVE FALSE
    <3>1. Ledger!Write(UserOf[r])
      BY <1>1, <2>1, <2>2, NextStep, CommitFieldsLedger, ImportCommitLedger
    <3> QED BY <1>1, <3>1 DEF Ledger!Write
  <2>3. PICK r \in Request : CommitDelete(r)
    <3>1. ~Define /\ ~Restart /\ ~UNCHANGED vars
      BY <2>1 DEF Define, CreateDefinition, UpdateDefinition, EditDefinition, Restart, vars, ledger
    <3>2. PICK r \in Request : Arrive(r) \/ Step(r)
      BY <1>1, <3>1 DEF Next
    <3>3. ~Arrive(r) /\ ~Reads(r)
      BY <1>1, <2>1, TypeParts, ArriveType, ReadType DEF IInv
    <3>4. ~ImportBegin(r) /\ ~ImportRow(r)
      BY <1>1, <2>1, ImportBeginLedger, ImportRowLedger
    <3> QED BY <2>2, <3>2, <3>3, <3>4 DEF Step, Reads
  <2>4. /\ pc[r] = "delete" /\ pc'[r] = "reply"
        /\ person' = [q \in Person |-> IF q \in Found(r) THEN Nil ELSE person[q]]
    BY <1>1, <2>3 DEF CommitDelete, Goto, IInv, TypeOK
  <2>5. \A q \in Person : Gone(q) => q \in Found(r)
    BY <1>1, <2>4
  <2> QED BY <1>1, <2>4, <2>5 DEF LInv, ReqFacts, Sought
<1>2. IInv /\ LInv /\ [Next]_vars =>
        [\A p \in Person : person[p] # Nil /\ person'[p] = Nil =>
           /\ \A q \in Person : person[q] # Nil /\ person'[q] = Nil => q = p
           /\ \E r \in Request : /\ Kind[r] = "delete" /\ pc[r] = "delete" /\ pc'[r] = "reply"
                                 /\ OnlyVoterId(Text(r)) => Satisfies(Text(r), p, known[r])]_vars
  BY <1>1
<1> QED BY <1>2, Invariance, LedgerInvariance, PTL DEF Spec, OnlyRequestedDeletes
-----------------------------------------------------------------------------
(* The audit entries of an import. *)

\* Trail t goes on from s, where the value was v, one entry after the other, to w.
Chain(s, v, t, w) ==
  /\ Len(s) <= Len(t) /\ \A i \in 1..Len(s) : t[i] = s[i]
  /\ \A i \in Len(s) + 1 .. Len(t) : t[i].old = IF i = Len(s) + 1 THEN v ELSE t[i - 1].new
  /\ w = IF Len(t) = Len(s) THEN v ELSE t[Len(t)].new

Chained ==
  lock # Nil => \A k \in Key : person[k[1]] # Nil =>
    Chain(trail[k], field[k], work.trail[k], work.field[k])

LEMMA ChainGrows ==
  ASSUME NEW s \in Seq(Entry), NEW t \in Seq(Entry), NEW v, NEW w, NEW e \in Entry,
         Chain(s, v, t, w), e.old = w
  PROVE  Chain(s, v, Append(t, e), e.new)
<1> DEFINE a == Append(t, e)
           n == Len(t)
<1>1. Len(a) = n + 1 /\ (\A i \in 1..n : a[i] = t[i]) /\ a[n + 1] = e
  OBVIOUS
<1>2. Len(s) \in Nat /\ n \in Nat /\ Len(s) <= n
  BY DEF Chain
<1>3. \A i \in 1..Len(s) : t[i] = s[i]
  BY DEF Chain
<1>4. \A i \in Len(s) + 1 .. n : t[i].old = IF i = Len(s) + 1 THEN v ELSE t[i - 1].new
  BY DEF Chain
<1>5. w = IF n = Len(s) THEN v ELSE t[n].new
  BY DEF Chain
<1> HIDE DEF a, n
<1>6. \A i \in 1..Len(s) : a[i] = s[i]
  BY <1>1, <1>2, <1>3
<1>7. ASSUME NEW i \in Len(s) + 1 .. n + 1
      PROVE  a[i].old = IF i = Len(s) + 1 THEN v ELSE a[i - 1].new
  <2>1. CASE i \in Len(s) + 1 .. n
    <3>1. a[i] = t[i] /\ (i # Len(s) + 1 => a[i - 1] = t[i - 1])
      BY <1>1, <1>2, <2>1
    <3> QED BY <1>4, <2>1, <3>1
  <2>2. CASE i = n + 1
    <3>1. a[i].old = w
      BY <1>1, <2>2
    <3>2. CASE n = Len(s)
      BY <1>5, <2>2, <3>1, <3>2
    <3>3. CASE n # Len(s)
      <4>1. a[i - 1] = t[n] /\ i # Len(s) + 1
        BY <1>1, <1>2, <2>2, <3>3
      <4> QED BY <1>5, <3>1, <3>3, <4>1
    <3> QED BY <3>2, <3>3
  <2> QED BY <1>2, <2>1, <2>2
<1>8. Len(a) # Len(s) /\ Len(s) <= Len(a) /\ a[Len(a)].new = e.new
  BY <1>1, <1>2
<1>9. Chain(s, v, a, e.new)
  BY <1>1, <1>6, <1>7, <1>8 DEF Chain
<1> QED BY <1>9 DEF a

LEMMA ChainStart ==
  ASSUME NEW s \in Seq(Entry), NEW v
  PROVE  Chain(s, v, s, v)
<1>1. Len(s) \in Nat
  OBVIOUS
<1> QED BY <1>1 DEF Chain

LEMMA ChainBegins ==
  ASSUME IInv, NEW r \in Request, ImportBegin(r), lock' # Nil
  PROVE  Chained'
<1>1. UNCHANGED ledger /\ lock = Nil
  BY DEF ImportBegin
<1>2. PICK ids \in [NewRows(r, found[r]) -> Person \ used] : work' = Created(r, ids)
  BY <1>1 DEF ImportBegin, tx
<1>3. Range(ids) \subseteq Person \ used
  BY DEF Range
<1>4. work'.trail = trail /\ \A k \in Key : k[1] \notin Range(ids) => work'.field[k] = field[k]
  BY <1>2 DEF Created
<1>5. ASSUME NEW k \in Key, person[k[1]] # Nil PROVE Chain(trail[k], field[k], work'.trail[k], work'.field[k])
  <2>1. k[1] \in Person /\ k[1] \in used /\ trail[k] \in Seq(Entry)
    BY <1>5 DEF Key, IInv, Sound, TypeOK
  <2>2. work'.field[k] = field[k] /\ work'.trail[k] = trail[k]
    BY <1>3, <1>4, <2>1
  <2> QED BY <2>1, <2>2, ChainStart
<1> QED BY <1>1, <1>5 DEF Chained, ledger

LEMMA ChainContinues ==
  ASSUME IInv, Chained, NEW r \in Request, ImportRow(r), lock' # Nil
  PROVE  Chained'
<1> DEFINE i == work.next
           T == RowTouched(r, i)
           ff == [k \in Key |-> IF k \in T THEN RowValue(r, i, k) ELSE work.field[k]]
           tt == [k \in Key |-> IF k \in T THEN Append(work.trail[k], RowAudit(r, i, k)) ELSE work.trail[k]]
<1>1. /\ lock = r /\ lock # Nil /\ i \in Rows(r) /\ UNCHANGED ledger
      /\ work' = [next |-> i + 1, person |-> work.person, used |-> work.used, field |-> ff, trail |-> tt]
  <2>1. ~Rollback(r)
    BY DEF Rollback
  <2> QED BY <2>1, RecordsAssumption DEF ImportRow
<1>2. work'.field = ff /\ work'.trail = tt
  <2> HIDE DEF T, ff, tt
  <2> QED BY <1>1
<1>3. ASSUME NEW k \in T
      PROVE  /\ RowAudit(r, i, k) \in Entry /\ RowAudit(r, i, k).old = work.field[k]
             /\ RowAudit(r, i, k).new = RowValue(r, i, k)
  <2>1. k \in Key /\ known[r][k[2]].name \in DOMAIN call[r].sheet[i]
    BY DEF RowTouched
  <2>2. RowValue(r, i, k) \in Value
    BY <1>1, <2>1, SheetRow DEF IInv, RowValue, IsRow
  <2>3. work.field[k] \in Value \cup {Nil}
    BY <2>1 DEF IInv, TypeOK, WorkType
  <2> QED BY <2>2, <2>3, RecordsAssumption DEF RowAudit, Entry
<1> HIDE DEF i, T
<1>4. ASSUME NEW k \in Key, person[k[1]] # Nil PROVE Chain(trail[k], field[k], work'.trail[k], work'.field[k])
  <2>1. /\ trail[k] \in Seq(Entry) /\ work.trail[k] \in Seq(Entry)
        /\ Chain(trail[k], field[k], work.trail[k], work.field[k])
    BY <1>1, <1>4 DEF IInv, TypeOK, WorkType, Chained
  <2>2. CASE k \in T
    <3>1. Chain(trail[k], field[k], Append(work.trail[k], RowAudit(r, i, k)), RowAudit(r, i, k).new)
      BY <1>3, <2>1, <2>2, ChainGrows
    <3> QED BY <1>2, <1>3, <2>2, <3>1
  <2>3. CASE k \notin T
    BY <1>2, <2>1, <2>3
  <2> QED BY <2>2, <2>3
<1> QED BY <1>1, <1>4 DEF Chained, ledger

\* Every step but the two above leaves the open transaction alone, or ends it.
LEMMA Untouched ==
  ASSUME IInv, LInv, [Next]_vars, lock' # Nil,
         ~ \E r \in Request : ImportBegin(r) \/ ImportRow(r)
  PROVE  UNCHANGED <<ledger, tx>>
<1>1. CASE UNCHANGED vars
  BY <1>1 DEF vars, ledger, tx
<1>2. CASE Define
  BY <1>2 DEF Define, CreateDefinition, UpdateDefinition, EditDefinition
<1>3. ASSUME NEW r \in Request, Arrive(r) \/ Reads(r) PROVE UNCHANGED <<ledger, tx>>
  BY <1>3, TypeParts, ArriveType, ReadType DEF IInv
<1>4. ASSUME NEW r \in Request PROVE ~CommitFields(r) /\ ~CommitDelete(r) /\ ~ImportCommit(r)
  BY DEF CommitFields, CommitDelete, ImportCommit, tx
<1>5. ~Restart
  BY DEF Restart
<1> QED BY <1>1, <1>2, <1>3, <1>4, <1>5 DEF Next, Step, Reads

LEMMA ChainStep ==
  ASSUME IInv, LInv, Chained, [Next]_vars PROVE Chained'
<1>1. CASE lock' = Nil
  BY <1>1 DEF Chained
<1>2. CASE lock' # Nil /\ \E r \in Request : ImportBegin(r) \/ ImportRow(r)
  BY <1>2, ChainBegins, ChainContinues
<1>3. CASE lock' # Nil /\ ~ \E r \in Request : ImportBegin(r) \/ ImportRow(r)
  <2>1. UNCHANGED <<person, field, trail, lock, work>>
    BY <1>3, Untouched DEF ledger, tx
  <2> QED BY <2>1 DEF Chained
<1> QED BY <1>1, <1>2, <1>3

\* The invariant of an open import: its entries follow each other.
THEOREM ChainedAlways == Spec => []Chained
<1>1. Init => Chained
  BY DEF Init, Chained
<1>2. IInv /\ LInv /\ Chained /\ [Next]_vars => Chained'
  BY ChainStep
<1> QED BY <1>1, <1>2, Invariance, LedgerInvariance, PTL DEF Spec

\* Nothing but its commit takes an import from its rows to its answer.
LEMMA OnlyCommitEnds ==
  ASSUME IInv, [Next]_vars, NEW r \in Request, pc[r] = "import_rows", pc'[r] = "reply"
  PROVE  ImportCommit(r)
<1>1. pc \in [Request -> Phase]
  BY DEF IInv, TypeOK
<1>2. ASSUME NEW q \in Request, NEW s, Answer(q, s) PROVE FALSE
  BY <1>1, <1>2 DEF Answer, Goto
<1>3. ~Define /\ ~Restart /\ ~UNCHANGED vars
  BY DEF Define, CreateDefinition, UpdateDefinition, EditDefinition, Restart, vars
<1>4. PICK q \in Request : Arrive(q) \/ Step(q)
  BY <1>3 DEF Next
<1>5. ~Arrive(q)
  BY <1>1, <1>2 DEF Arrive, DeletePerson, PatchPerson, UpdatePersons, ImportPersons, Call, Goto
<1>6. CASE FilterDefinitions(q) \/ FilterPersons(q) \/ FilterFields(q) \/ RereadFields(q) \/ ReadDefinitions(q)
  BY <1>1, <1>2, <1>6 DEF FilterDefinitions, FilterPersons, FilterFields, RereadFields, ReadDefinitions, Goto
<1>7. CASE \/ CommitFields(q) \/ CommitDelete(q) \/ ImportDefinitions(q) \/ ImportExisting(q)
           \/ ImportBegin(q) \/ Reply(q) \/ Busy(q)
  BY <1>1, <1>2, <1>7 DEF CommitFields, CommitDelete, ImportDefinitions, ImportExisting, ImportBegin,
     Reply, Busy, Goto
<1>8. ~ImportRow(q)
  BY <1>2 DEF ImportRow, Rollback
<1>9. CASE ImportCommit(q)
  BY <1>1, <1>9 DEF ImportCommit, Goto
<1> QED BY <1>4, <1>5, <1>6, <1>7, <1>8, <1>9 DEF Step

\* The entries that an import commits start from the value stored before it and each
\* goes on from the last, whatever other requests do while it runs.
THEOREM ImportAuditsChainAlways == Spec => ImportAuditsChain
<1> DEFINE Follows(k) == \A i \in Len(trail[k]) + 1 .. Len(trail'[k]) :
             trail'[k][i].old = IF i = Len(trail[k]) + 1 THEN field[k] ELSE trail'[k][i - 1].new
<1>1. ASSUME IInv, Chained, [Next]_vars, NEW r \in Request, NEW k \in Key,
             pc[r] = "import_rows", pc'[r] = "reply", person[k[1]] # Nil
      PROVE  Follows(k)
  <2>1. ImportCommit(r)
    BY <1>1, OnlyCommitEnds
  <2>2. Chain(trail[k], field[k], trail'[k], field'[k])
    BY <1>1, <2>1, RecordsAssumption DEF ImportCommit, Chained
  <2> QED BY <2>2 DEF Chain
<1>2. IInv /\ Chained /\ [Next]_vars =>
        [\A r \in Request, k \in Key :
           pc[r] = "import_rows" /\ pc'[r] = "reply" /\ person[k[1]] # Nil =>
             \A i \in Len(trail[k]) + 1 .. Len(trail'[k]) :
               trail'[k][i].old = IF i = Len(trail[k]) + 1 THEN field[k] ELSE trail'[k][i - 1].new]_vars
  BY <1>1
<1> QED BY <1>2, Invariance, ChainedAlways, PTL DEF Spec, ImportAuditsChain
-----------------------------------------------------------------------------
(* Imports that fail.  What a step of one request leaves of another, first. *)

LEMMA OthersUntouched ==
  ASSUME ReqOK, NEW q \in Request, NEW r \in Request \ {q}, Arrive(q) \/ Step(q)
  PROVE  /\ pc'[r] = pc[r] /\ status'[r] = status[r] /\ call'[r] = call[r]
         /\ known'[r] = known[r] /\ found'[r] = found[r]
<1> DEFINE Same == /\ pc'[r] = pc[r] /\ status'[r] = status[r] /\ call'[r] = call[r]
                   /\ known'[r] = known[r] /\ found'[r] = found[r]
<1>1. ASSUME NEW s, Answer(q, s) PROVE Same
  BY <1>1 DEF Answer, Goto, ReqOK
<1>2. CASE Arrive(q)
  BY <1>1, <1>2 DEF Arrive, DeletePerson, PatchPerson, UpdatePersons, ImportPersons, Call, Goto, ReqOK
<1>3. CASE FilterDefinitions(q) \/ FilterPersons(q) \/ FilterFields(q) \/ RereadFields(q) \/ ReadDefinitions(q)
  BY <1>1, <1>3 DEF FilterDefinitions, FilterPersons, FilterFields, RereadFields, ReadDefinitions, Goto, ReqOK
<1>4. CASE CommitFields(q) \/ CommitDelete(q) \/ ImportDefinitions(q) \/ ImportExisting(q) \/ Reply(q) \/ Busy(q)
  BY <1>1, <1>4 DEF CommitFields, CommitDelete, ImportDefinitions, ImportExisting, Reply, Busy, Goto, ReqOK, locals
<1>5. CASE ImportBegin(q) \/ ImportRow(q) \/ ImportCommit(q)
  BY <1>1, <1>5 DEF ImportBegin, ImportRow, Rollback, ImportCommit, Goto, ReqOK, locals
<1> QED BY <1>2, <1>3, <1>4, <1>5 DEF Step

\* The tables stay what they were while an import's transaction is open.
OpenedOn == lock # Nil => opened = Tables

LEMMA OpenedStep ==
  ASSUME IInv, LInv, OpenedOn, [Next]_vars PROVE OpenedOn'
<1>1. CASE lock' = Nil
  BY <1>1 DEF OpenedOn
<1>2. ASSUME lock' # Nil, NEW r \in Request, ImportBegin(r) PROVE OpenedOn'
  <2>1. UNCHANGED ledger /\ (opened' = Tables \/ (lock = Nil /\ UNCHANGED tx))
    BY <1>2 DEF ImportBegin
  <2> QED BY <1>2, <2>1 DEF OpenedOn, Tables, ledger, tx
<1>3. ASSUME lock' # Nil, NEW r \in Request, ImportRow(r) PROVE OpenedOn'
  <2>1. UNCHANGED <<ledger, lock, opened>>
    BY <1>3 DEF ImportRow, Rollback
  <2> QED BY <1>3, <2>1 DEF OpenedOn, Tables, ledger
<1>4. CASE lock' # Nil /\ ~ \E r \in Request : ImportBegin(r) \/ ImportRow(r)
  <2>1. UNCHANGED <<ledger, lock, opened>>
    BY <1>4, Untouched DEF tx
  <2> QED BY <2>1 DEF OpenedOn, Tables, ledger
<1> QED BY <1>1, <1>2, <1>3, <1>4

THEOREM OpenedInvariance == Spec => []OpenedOn
<1>1. Init => OpenedOn
  BY DEF Init, OpenedOn
<1>2. IInv /\ LInv /\ OpenedOn /\ [Next]_vars => OpenedOn'
  BY OpenedStep
<1> QED BY <1>1, <1>2, Invariance, LedgerInvariance, PTL DEF Spec

\* What commits is not answered yet.
LEMMA NoCommitAnswers ==
  ASSUME IInv, NEW r \in Request, pc'[r] = "answered", [Next]_vars, lock = r
  PROVE  UNCHANGED ledger
<1>0. ReqOK /\ r # Nil
  BY TypeParts, RecordsAssumption DEF IInv
<1>1. CASE UNCHANGED vars \/ Define \/ Restart
  BY <1>1 DEF vars, ledger, Define, CreateDefinition, UpdateDefinition, EditDefinition, Restart
<1>2. ASSUME NEW q \in Request, Arrive(q) \/ Reads(q) PROVE UNCHANGED ledger
  BY <1>0, <1>2, ArriveType, ReadType DEF IInv
<1>3. ASSUME NEW q \in Request, Step(q) PROVE UNCHANGED ledger
  <2>1. ~CommitFields(q) /\ ~CommitDelete(q) /\ ~ImportBegin(q)
    BY <1>0 DEF CommitFields, CommitDelete, ImportBegin
  <2>2. ~ImportCommit(q)
    BY <1>0 DEF ImportCommit, Goto, ReqOK
  <2>3. CASE ImportRow(q)
    BY <2>3 DEF ImportRow, Rollback
  <2> QED BY <1>2, <1>3, <2>1, <2>2, <2>3 DEF Step, Reads
<1> QED BY <1>1, <1>2, <1>3 DEF Next

\* An import that fails half way, or is cut off by a crash, leaves every table as it
\* was when its transaction was opened, whatever rows it had written in it.
THEOREM FailedImportChangesNothingAlways == Spec => FailedImportChangesNothing
<1>1. ASSUME IInv, OpenedOn, [Next]_vars, NEW r \in Request, lock = r, pc'[r] = "answered"
      PROVE  Tables' = opened
  BY <1>1, NoCommitAnswers, RecordsAssumption DEF OpenedOn, Tables, ledger
<1>2. IInv /\ OpenedOn /\ [Next]_vars =>
        [\A r \in Request : lock = r /\ pc'[r] = "answered" => Tables' = opened]_vars
  BY <1>1
<1> QED BY <1>2, Invariance, OpenedInvariance, PTL DEF Spec, FailedImportChangesNothing
-----------------------------------------------------------------------------
(* Imports that succeed. *)

\* A later row of the same voter, of those before row m, sets the field too.
OverriddenBefore(r, i, n, m) ==
  \E j \in Rows(r) : LET s == call[r].sheet IN
    /\ i < j /\ j < m /\ VoterOf(s[j]) = VoterOf(s[i])
    /\ n \in DOMAIN s[j] /\ s[j][n] # Blank

\* In the open transaction of r: person p is the one of row i, and has its cells.
Enrolled(r, i, p) ==
  LET row == call[r].sheet[i]
  IN /\ work.person[p] = VoterOf(row)
     /\ \A n \in DOMAIN row : work.field[<<p, DefOf(known[r], n)>>] = row[n]
Updated(r, i, p) ==
  LET row == call[r].sheet[i]
  IN /\ work.person[p] = VoterOf(row)
     /\ \A n \in DOMAIN row : row[n] # Blank /\ ~OverriddenBefore(r, i, n, work.next) =>
                                work.field[<<p, DefOf(known[r], n)>>] = row[n]

\* Persons that were found are still as found or gone; all new ones are enrolled
\* under IDs that no row updates, and the others updated as far as the rows are done.
Written(r) ==
  /\ work.next >= 1
  /\ \A p \in Found(r) : work.person[p] \in {Nil, found[r][p]}
  /\ \A i \in NewRows(r, found[r]) : \E p \in Person \ Found(r) : Enrolled(r, i, p)
  /\ \A i \in Rows(r) \ NewRows(r, found[r]) :
       i < work.next /\ VoterOf(call[r].sheet[i]) # Blank => \A p \in TargetOf(r, i) : Updated(r, i, p)

Complete(r) ==
  /\ pc[r] = "import_begin" => \A p \in Found(r) : person[p] \in {Nil, found[r][p]}
  /\ pc[r] = "import_rows" /\ lock = r => Written(r)

CInv == \A r \in Request : Complete(r)

\* The columns of a row are defined under their names, and the voter ID is one of them.
LEMMA ColumnsKnown ==
  ASSUME IInv, VInv, NEW r \in Request, pc[r] \in {"import_begin", "import_rows"}, NEW i \in Rows(r)
  PROVE  LET row == call[r].sheet[i]
         IN /\ \A n \in DOMAIN row : DefOf(known[r], n) \in Def /\ known[r][DefOf(known[r], n)].name = n
            /\ VoterOf(row) # Blank => /\ VoterIdField \in DOMAIN row
                                       /\ row[VoterIdField] = VoterOf(row)
<1>1. ValidRow(r, i, found[r])
  BY DEF VInv, Checked
<1>2. known[r] \in [Def -> DefRow]
  BY DEF IInv, TypeOK
<1> QED BY <1>1, <1>2, DefOfType DEF ValidRow, VoterOf

LEMMA CompleteBegins ==
  ASSUME IInv, LInv, VInv, CInv, NEW r \in Request, ImportBegin(r), lock' # Nil
  PROVE  Written(r)'
<1>1. PICK ids \in [NewRows(r, found[r]) -> Person \ used] :
        /\ IsInjective(ids) /\ lock' = r /\ work' = Created(r, ids) /\ UNCHANGED <<status, locals>>
  BY DEF ImportBegin, tx
<1>2. /\ pc[r] = "import_begin" /\ call'[r] = call[r] /\ known'[r] = known[r] /\ found'[r] = found[r]
      /\ Found(r) \subseteq used /\ Found(r) \subseteq Person
  BY <1>1 DEF ImportBegin, locals, LInv, ReqFacts, Found
<1> DEFINE N == DOMAIN ids
           rowOf(p) == call[r].sheet[CHOOSE i \in N : ids[i] = p]
           fresh == Range(ids)
           name(d) == known[r][d].name
<1>3. /\ work'.next = 1
      /\ work'.person = [p \in Person |-> IF p \in fresh THEN VoterOf(rowOf(p)) ELSE person[p]]
      /\ work'.field = [k \in Key |-> IF k[1] \in fresh /\ name(k[2]) \in DOMAIN rowOf(k[1])
                                      THEN rowOf(k[1])[name(k[2])] ELSE field[k]]
  BY <1>1 DEF Created
<1>4. fresh \subseteq Person \ used
  BY DEF Range
<1>5. \A p \in Found(r) : work'.person[p] \in {Nil, found[r][p]}
  <2> HIDE DEF fresh, rowOf
  <2> QED BY <1>2, <1>3, <1>4 DEF CInv, Complete
<1>6. ASSUME NEW i \in NewRows(r, found[r]) PROVE \E p \in Person \ Found(r) : Enrolled(r, i, p)'
  <2> DEFINE p == ids[i]
             row == call[r].sheet[i]
  <2>1. p \in fresh /\ p \in Person /\ p \notin Found(r)
    BY <1>2, <1>4 DEF Range
  <2>2. (CHOOSE j \in N : ids[j] = p) = i
    BY <1>1 DEF IsInjective
  <2>3. rowOf(p) = row
    BY <2>2
  <2>4. i \in Rows(r)
    BY DEF NewRows
  <2> HIDE DEF fresh, rowOf, p
  <2>5. work'.person[p] = VoterOf(row)
    BY <1>3, <2>1, <2>3
  <2>6. ASSUME NEW n \in DOMAIN row PROVE work'.field[<<p, DefOf(known[r], n)>>] = row[n]
    <3>1. DefOf(known[r], n) \in Def /\ name(DefOf(known[r], n)) = n
      BY <1>2, <2>4, ColumnsKnown
    <3>2. <<p, DefOf(known[r], n)>> \in Key
      BY <2>1, <3>1 DEF Key
    <3> QED BY <1>3, <2>1, <2>3, <3>1, <3>2
  <2>7. Enrolled(r, i, p)'
    BY <1>2, <2>5, <2>6 DEF Enrolled
  <2> QED BY <2>1, <2>7
<1>7. Rows(r)' = Rows(r) /\ NewRows(r, found[r])' = NewRows(r, found[r]) /\ Found(r)' = Found(r)
  BY <1>2 DEF Rows, NewRows, Found
<1>8. \A i \in Rows(r) : ~(i < 1)
  BY DEF Rows
<1>9. work'.next = 1
  BY <1>3
<1> HIDE DEF fresh, rowOf
<1>10. \A i \in NewRows(r, found[r])' : \E p \in Person \ Found(r)' : Enrolled(r, i, p)'
  BY <1>6, <1>7
<1>11. \A i \in Rows(r)' : ~(i < work'.next)
  BY <1>7, <1>8, <1>9
<1>12. \A p \in Found(r)' : work'.person[p] \in {Nil, found'[r][p]}
  BY <1>2, <1>5, <1>7
<1> QED BY <1>9, <1>10, <1>11, <1>12 DEF Written

\* A row finds each person it updates still there, because its voter ID is a cell of
\* its own that a deleted person no longer holds; later rows only override cells.
LEMMA CompleteContinues ==
  ASSUME IInv, LInv, VInv, CInv, NEW r \in Request, ImportRow(r), lock' # Nil
  PROVE  Written(r)'
<1>0. PICK i \in Rows(r) : i = work.next
  BY DEF ImportRow
<1> DEFINE T == RowTouched(r, i)
           ff == [k \in Key |-> IF k \in T THEN RowValue(r, i, k) ELSE work.field[k]]
           tt == [k \in Key |-> IF k \in T THEN Append(work.trail[k], RowAudit(r, i, k)) ELSE work.trail[k]]
           row(j) == call[r].sheet[j]
           cell(p, n) == <<p, DefOf(known[r], n)>>
<1>1. /\ pc[r] = "import_rows" /\ lock = r /\ lock # Nil /\ i \in Rows(r) /\ ~Orphaned(T, work.person)
      /\ UNCHANGED locals
      /\ work' = [next |-> i + 1, person |-> work.person, used |-> work.used, field |-> ff, trail |-> tt]
  <2>1. ~Rollback(r)
    BY DEF Rollback
  <2> QED BY <1>0, <2>1, RecordsAssumption DEF ImportRow
<1>2. work'.next = i + 1 /\ work'.person = work.person /\ work'.field = ff
  <2> HIDE DEF T, ff, tt
  <2> QED BY <1>1
<1>3. /\ call'[r] = call[r] /\ known'[r] = known[r] /\ found'[r] = found[r] /\ Rows(r)' = Rows(r)
      /\ NewRows(r, found[r])' = NewRows(r, found[r]) /\ Found(r)' = Found(r)
      /\ i \in Nat /\ i >= 1
  BY <1>1 DEF locals, Rows, NewRows, Found
<1>4. Written(r) /\ i = work.next
  BY <1>0, <1>1 DEF CInv, Complete
<1>5. ASSUME NEW p \in Person, NEW j \in Rows(r), NEW n \in DOMAIN row(j)
      PROVE  /\ cell(p, n) \in Key /\ known[r][cell(p, n)[2]].name = n
             /\ cell(p, n) \in T <=> /\ found[r][p] = VoterOf(row(i)) /\ n \in DOMAIN row(i)
                                     /\ row(i)[n] # Blank /\ row(i)[n] # work.field[cell(p, n)]
  <2>1. DefOf(known[r], n) \in Def /\ known[r][DefOf(known[r], n)].name = n
    BY <1>1, ColumnsKnown
  <2>2. cell(p, n) \in Key /\ known[r][cell(p, n)[2]].name = n
    BY <2>1 DEF Key
  <2>3. cell(p, n)[1] = p
    OBVIOUS
  <2> HIDE DEF cell
  <2> QED BY <2>2, <2>3 DEF RowTouched, TargetOf
<1>6. ASSUME NEW j \in NewRows(r, found[r]) PROVE \E p \in Person \ Found(r) : Enrolled(r, j, p)'
  <2>1. PICK p \in Person \ Found(r) : Enrolled(r, j, p)
    BY <1>4 DEF Written
  <2>2. j \in Rows(r) /\ VoterOf(row(i)) \in Value
    BY <1>1, SheetRow DEF NewRows, IInv
  <2>3. found[r][p] # VoterOf(row(i))
    BY <2>2, RecordsAssumption DEF Found
  <2>4. \A n \in DOMAIN row(j) : cell(p, n) \in Key /\ cell(p, n) \notin T
    BY <1>5, <2>2, <2>3
  <2> HIDE DEF T
  <2>5. Enrolled(r, j, p)'
    BY <1>2, <1>3, <2>1, <2>4 DEF Enrolled
  <2> QED BY <2>5
<1>7. ASSUME NEW p \in TargetOf(r, i), VoterOf(row(i)) # Blank PROVE Updated(r, i, p)'
  <2>1. /\ VoterOf(row(i)) \in Value /\ VoterOf(row(i)) # Nil /\ p \in Person /\ p \in Found(r)
        /\ found[r][p] = VoterOf(row(i))
    BY <1>1, SheetRow, RecordsAssumption DEF IInv, TargetOf, Found
  <2>2. VoterIdField \in DOMAIN row(i) /\ row(i)[VoterIdField] = VoterOf(row(i))
    BY <1>1, <1>7, ColumnsKnown
  <2>3. work.person[p] # Nil
    <3> DEFINE k == cell(p, VoterIdField)
    <3>1. SUFFICES ASSUME work.person[p] = Nil PROVE FALSE
      OBVIOUS
    <3>2. k \in Key /\ k[1] = p
      BY <1>1, <1>5, <2>1, <2>2
    <3>3. work.field[k] = Nil
      BY <1>1, <3>1, <3>2 DEF IInv, SoundWork, Sound
    <3>4. k \in T
      BY <1>1, <1>5, <1>7, <2>1, <2>2, <3>3
    <3> QED BY <1>1, <3>1, <3>2, <3>4 DEF Orphaned
  <2>4. work.person[p] = VoterOf(row(i))
    BY <1>4, <2>1, <2>3 DEF Written
  <2>5. ASSUME NEW n \in DOMAIN row(i), row(i)[n] # Blank PROVE ff[cell(p, n)] = row(i)[n]
    <3>1. cell(p, n) \in Key /\ known[r][cell(p, n)[2]].name = n
      BY <1>1, <1>5, <2>1
    <3>2. cell(p, n) \notin T => work.field[cell(p, n)] = row(i)[n]
      BY <1>1, <1>5, <2>1, <2>5
    <3> HIDE DEF T, cell
    <3> QED BY <3>1, <3>2 DEF RowValue
  <2> HIDE DEF ff
  <2> QED BY <1>2, <1>3, <2>4, <2>5 DEF Updated
<1>8. ASSUME NEW j \in Rows(r) \ NewRows(r, found[r]), j < i, VoterOf(row(j)) # Blank, NEW p \in TargetOf(r, j)
      PROVE  Updated(r, j, p)'
  <2>1. Updated(r, j, p) /\ p \in Person /\ found[r][p] = VoterOf(row(j))
    BY <1>4, <1>8 DEF Written, TargetOf
  <2>2. ASSUME NEW n \in DOMAIN row(j), row(j)[n] # Blank, ~OverriddenBefore(r, j, n, i + 1)
        PROVE  ff[cell(p, n)] = row(j)[n]
    <3>1. cell(p, n) \in Key
      BY <1>5, <2>1
    <3>2. cell(p, n) \notin T
      <4>1. ~(n \in DOMAIN row(i) /\ row(i)[n] # Blank /\ VoterOf(row(i)) = VoterOf(row(j)))
        BY <1>1, <1>3, <1>8, <2>2 DEF OverriddenBefore
      <4> QED BY <1>5, <2>1, <4>1
    <3>3. ~OverriddenBefore(r, j, n, i)
      BY <1>3, <2>2 DEF OverriddenBefore, Rows
    <3>4. ~OverriddenBefore(r, j, n, work.next)
      BY <1>4, <3>3
    <3>5. work.field[cell(p, n)] = row(j)[n]
      BY <2>1, <2>2, <3>4 DEF Updated
    <3> HIDE DEF T, cell
    <3> QED BY <3>1, <3>2, <3>5
  <2>3. \A n, m : OverriddenBefore(r, j, n, m)' <=> OverriddenBefore(r, j, n, m')
    BY <1>3 DEF OverriddenBefore
  <2> HIDE DEF ff
  <2> QED BY <1>2, <1>3, <2>1, <2>2, <2>3 DEF Updated
<1>9. \A j \in Rows(r) : j < i + 1 => j < i \/ j = i
  BY <1>3 DEF Rows
<1>10. \A j \in Rows(r) : TargetOf(r, j)' = TargetOf(r, j)
  BY <1>3 DEF TargetOf
<1> HIDE DEF T, ff, tt
<1>11. \A j \in Rows(r)' \ NewRows(r, found[r])' :
         j < work'.next /\ VoterOf(call'[r].sheet[j]) # Blank => \A p \in TargetOf(r, j)' : Updated(r, j, p)'
  BY <1>2, <1>3, <1>7, <1>8, <1>9, <1>10
<1>12. \A j \in NewRows(r, found[r])' : \E p \in Person \ Found(r)' : Enrolled(r, j, p)'
  BY <1>3, <1>6
<1>13. \A p \in Found(r)' : work'.person[p] \in {Nil, found'[r][p]}
  BY <1>2, <1>3, <1>4 DEF Written
<1>14. work'.next >= 1
  BY <1>2, <1>3
<1> QED BY <1>11, <1>12, <1>13, <1>14 DEF Written

\* The steps that bring an import to its transaction and on in it.
LEMMA OwnPhase ==
  ASSUME ReqOK, NEW r \in Request, Arrive(r) \/ Step(r), pc'[r] \in {"import_begin", "import_rows"}
  PROVE  \/ ImportExisting(r) /\ found'[r] = person /\ UNCHANGED ledger /\ pc'[r] = "import_begin"
         \/ (ImportBegin(r) \/ ImportRow(r)) /\ pc'[r] = "import_rows"
<1>1. ASSUME NEW s, Answer(r, s) PROVE FALSE
  BY <1>1 DEF Answer, Goto, ReqOK
<1>2. ~Arrive(r)
  BY <1>1 DEF Arrive, DeletePerson, PatchPerson, UpdatePersons, ImportPersons, Call, Goto, ReqOK
<1>3. ~(FilterDefinitions(r) \/ FilterPersons(r) \/ FilterFields(r) \/ RereadFields(r) \/ ReadDefinitions(r))
  BY <1>1 DEF FilterDefinitions, FilterPersons, FilterFields, RereadFields, ReadDefinitions, Goto, ReqOK
<1>4. ~(CommitFields(r) \/ CommitDelete(r) \/ ImportDefinitions(r) \/ ImportCommit(r) \/ Reply(r) \/ Busy(r))
  BY <1>1 DEF CommitFields, CommitDelete, ImportDefinitions, ImportCommit, Reply, Busy, Goto, ReqOK
<1>5. CASE ImportExisting(r)
  BY <1>1, <1>5 DEF ImportExisting, Goto, ReqOK
<1>6. CASE ImportBegin(r)
  BY <1>1, <1>6 DEF ImportBegin, Goto, ReqOK
<1>7. CASE ImportRow(r)
  BY <1>1, <1>7 DEF ImportRow, Rollback
<1> QED BY <1>2, <1>3, <1>4, <1>5, <1>6, <1>7 DEF Step

\* IDs stay because the ledger never hands one out twice.
LEMMA NextIDsStay ==
  ASSUME IInv, LInv, [Next]_vars PROVE IDsStay
<1>1. CASE UNCHANGED ledger
  BY <1>1, Quiet
<1>2. ASSUME NEW u \in User, Ledger!Write(u) PROVE IDsStay
  BY <1>2 DEF Ledger!Write, IDsStay, IInv, TypeOK
<1>3. ASSUME NEW p \in Person, Ledger!Expunge(p) PROVE IDsStay
  BY <1>3 DEF Ledger!Expunge, IDsStay, IInv, TypeOK
<1> QED BY <1>1, <1>2, <1>3, NextLedger DEF Ledger!LedgerNext

\* Nobody else's step touches what an import has found or written.
LEMMA CompleteStays ==
  ASSUME IInv, LInv, CInv, [Next]_vars, NEW r \in Request,
         pc'[r] = pc[r], call'[r] = call[r], known'[r] = known[r], found'[r] = found[r],
         ~ImportBegin(r), ~ImportRow(r)
  PROVE  Complete(r)'
<1>1. IDsStay /\ Found(r) \subseteq used
  BY NextIDsStay DEF LInv, ReqFacts
<1>2. Found(r)' = Found(r) /\ Rows(r)' = Rows(r) /\ NewRows(r, found[r])' = NewRows(r, found[r])
  BY DEF Found, Rows, NewRows
<1>3. pc[r] = "import_begin" => \A p \in Found(r) : person'[p] \in {Nil, found[r][p]}
  BY <1>1 DEF IDsStay, CInv, Complete
<1>4. CASE pc[r] = "import_rows" /\ lock' = r
  <2>1. ASSUME NEW q \in Request, ImportBegin(q) \/ ImportRow(q) PROVE FALSE
    <3>1. q # r /\ lock' # Nil
      BY <1>4, <2>1, RecordsAssumption
    <3> QED BY <1>4, <2>1, <3>1 DEF ImportBegin, ImportRow, Rollback, tx
  <2>2. UNCHANGED <<ledger, tx>>
    BY <1>4, <2>1, Untouched, RecordsAssumption
  <2>3. Written(r) /\ work' = work
    BY <1>4, <2>2 DEF CInv, Complete, tx
  <2>4. Written(r)'
    BY <1>2, <2>3 DEF Written, Enrolled, Updated, OverriddenBefore, TargetOf
  <2> QED BY <1>4, <2>4 DEF Complete
<1> QED BY <1>2, <1>3, <1>4 DEF Complete

LEMMA CompleteStep ==
  ASSUME IInv, LInv, VInv, CInv, [Next]_vars, NEW r \in Request
  PROVE  Complete(r)'
<1>1. ReqOK
  BY TypeParts DEF IInv
<1>2. CASE pc'[r] \notin {"import_begin", "import_rows"}
  BY <1>2 DEF Complete
<1>3. CASE pc'[r] \in {"import_begin", "import_rows"} /\ (Arrive(r) \/ Step(r))
  <2>1. CASE found'[r] = person /\ UNCHANGED ledger /\ pc'[r] = "import_begin"
    BY <2>1 DEF Complete, ledger
  <2>2. CASE (ImportBegin(r) \/ ImportRow(r)) /\ pc'[r] = "import_rows"
    BY <2>2, CompleteBegins, CompleteContinues, RecordsAssumption DEF Complete
  <2> QED BY <1>1, <1>3, <2>1, <2>2, OwnPhase
<1>4. CASE pc'[r] \in {"import_begin", "import_rows"} /\ ~(Arrive(r) \/ Step(r))
  <2>1. ~ImportBegin(r) /\ ~ImportRow(r)
    BY <1>4 DEF Step
  <2>2. CASE UNCHANGED vars \/ Define
    BY <2>1, <2>2, CompleteStays DEF vars, Define, CreateDefinition, UpdateDefinition, EditDefinition, locals
  <2>3. ASSUME NEW q \in Request \ {r}, Arrive(q) \/ Step(q) PROVE Complete(r)'
    BY <1>1, <2>1, <2>3, OthersUntouched, CompleteStays
  <2>4. CASE Restart
    BY <1>1, <1>4, <2>4 DEF Restart, ReqOK
  <2> QED BY <1>4, <2>2, <2>3, <2>4 DEF Next
<1> QED BY <1>2, <1>3, <1>4

\* The invariant of an import that is on its way to success.
THEOREM CompleteInvariance == Spec => []CInv
<1>1. Init => CInv
  BY DEF Init, CInv, Complete
<1>2. IInv /\ LInv /\ VInv /\ CInv /\ [Next]_vars => CInv'
  BY CompleteStep DEF CInv
<1> QED BY <1>1, <1>2, Invariance, LedgerInvariance, VInvariance, PTL DEF Spec

\* An import that commits has done every row that names a voter, although the
\* persons were looked up before its transaction and others deleted some since.
THEOREM SuccessfulImportIsCompleteAlways == Spec => SuccessfulImportIsComplete
<1> DEFINE Done(r) ==
      \A i \in Rows(r) : LET row == call[r].sheet[i] IN VoterOf(row) # Blank =>
        \E p \in Person :
          /\ person'[p] = VoterOf(row)
          /\ \A n \in DOMAIN row : row[n] # Blank /\ ~Overridden(r, i, n) =>
               field'[<<p, DefOf(known[r], n)>>] = row[n]
<1>1. ASSUME IInv, CInv, [Next]_vars, NEW r \in Request, pc[r] = "import_rows", pc'[r] = "reply"
      PROVE  Done(r)
  <2>1. /\ lock = r /\ work.next \notin Rows(r) /\ person' = work.person /\ field' = work.field
        /\ Written(r)
    <3>1. ImportCommit(r)
      BY <1>1, OnlyCommitEnds
    <3> QED BY <1>1, <3>1 DEF ImportCommit, CInv, Complete
  <2>2. \A i \in Rows(r) : i < work.next
    BY <1>1, <2>1 DEF Written, Rows, IInv, TypeOK, WorkType
  <2>3. SUFFICES ASSUME NEW i \in Rows(r), VoterOf(call[r].sheet[i]) # Blank
                 PROVE  \E p \in Person : Updated(r, i, p)
    <3>1. ASSUME NEW i \in Rows(r), NEW n PROVE OverriddenBefore(r, i, n, work.next) => Overridden(r, i, n)
      BY DEF OverriddenBefore, Overridden, Rows
    <3> QED BY <2>1, <3>1 DEF Updated
  <2>4. CASE i \in NewRows(r, found[r])
    BY <2>1, <2>4 DEF Written, Enrolled, Updated
  <2>5. CASE i \notin NewRows(r, found[r])
    <3>1. PICK p \in Person : p \in TargetOf(r, i)
      BY <2>5 DEF NewRows, TargetOf
    <3> QED BY <2>1, <2>2, <2>3, <2>5, <3>1 DEF Written
  <2> QED BY <2>4, <2>5
<1>2. IInv /\ CInv /\ [Next]_vars =>
        [\A r \in Request :
           pc[r] = "import_rows" /\ pc'[r] = "reply" =>
             \A i \in Rows(r) : LET row == call[r].sheet[i] IN VoterOf(row) # Blank =>
               \E p \in Person :
                 /\ person'[p] = VoterOf(row)
                 /\ \A n \in DOMAIN row : row[n] # Blank /\ ~Overridden(r, i, n) =>
                      field'[<<p, DefOf(known[r], n)>>] = row[n]]_vars
  BY <1>1
<1> QED BY <1>2, Invariance, CompleteInvariance, PTL DEF Spec, SuccessfulImportIsComplete
=============================================================================

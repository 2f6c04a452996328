---------------------------- MODULE PersonLedger ----------------------------
(***************************************************************************)
(* What the person store of one organization promises, without requests,   *)
(* snapshots or transactions: persons whose voter IDs are pairwise         *)
(* different, one value per (person, field definition), and a trail of     *)
(* audit entries per pair.  Every step is one committed transaction.       *)
(* PersonRecords implements this module.                                   *)
(***************************************************************************)
EXTENDS SequencesExt

CONSTANTS Person,  \* IDs of rows of table person
          Def,     \* IDs of rows of table person_field_definition
          Value,   \* strings: voter IDs and field values
          Nil,     \* no row, no value
          User,    \* users that audit entries name
          Fold     \* the string as "collate nocase" compares it

VARIABLES person,  \* person[p]: voter ID of row p, Nil when there is no row
          used,    \* IDs handed out so far (autoIncrement)
          field,   \* field[p, d]: value of the person_field row, Nil when none
          trail    \* trail[p, d]: person_audit entries, oldest first

ledger == <<person, used, field, trail>>

Key == Person \X Def
Entry == [user: User, old: Value \cup {Nil}, new: Value \cup {Nil}]

Present == {p \in Person : person[p] # Nil}

\* The unique index idx_unique_person on (organization_id, voter_id).
DistinctVoters(pp) ==
  \A p, q \in Person : p # q /\ pp[p] # Nil /\ pp[q] # Nil => Fold[pp[p]] # Fold[pp[q]]

LedgerInit ==
  /\ used \in SUBSET Person
  /\ person \in [Person -> Value \cup {Nil}]
  /\ Present \subseteq used
  /\ DistinctVoters(person)
  /\ field \in [Key -> Value \cup {Nil}]
  /\ \A k \in Key : k[1] \notin Present => field[k] = Nil
  /\ trail = [k \in Key |-> <<>>]

\* One pair of a person that stays: left alone, or its trail grows by entries
\* of user u, the last of which states the value now stored.
Revised(k, u) ==
  \/ field'[k] = field[k] /\ trail'[k] = trail[k]
  \/ /\ IsStrictPrefix(trail[k], trail'[k])
     /\ \A i \in Len(trail[k]) + 1 .. Len(trail'[k]) : trail'[k][i].user = u
     /\ Last(trail'[k]).new = field'[k]

\* One transaction of user u that enrolls persons, revises persons, or both.
Write(u) ==
  /\ \A p \in Person : person[p] # Nil => person'[p] = person[p]
  /\ \A p \in Person : person[p] # person'[p] => p \notin used /\ p \in used'
  /\ used \subseteq used'
  /\ DistinctVoters(person')
  /\ \A k \in Key : /\ k[1] \in Present => Revised(k, u)
                    /\ k[1] \notin Present => trail'[k] = <<>>
                    /\ person'[k[1]] = Nil => field'[k] = Nil
  /\ person' \in [Person -> Value \cup {Nil}]
  /\ field' \in [Key -> Value \cup {Nil}]

\* One transaction that removes a person with all its fields and its trail.
Expunge(p) ==
  /\ p \in Present
  /\ person' = [person EXCEPT ![p] = Nil]
  /\ field' = [k \in Key |-> IF k[1] = p THEN Nil ELSE field[k]]
  /\ trail' = [k \in Key |-> IF k[1] = p THEN <<>> ELSE trail[k]]
  /\ UNCHANGED used

LedgerNext == (\E u \in User : Write(u)) \/ (\E p \in Person : Expunge(p))

LedgerSpec == LedgerInit /\ [][LedgerNext]_ledger
=============================================================================

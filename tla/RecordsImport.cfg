\* Two imports and a delete race over two persons.
CONSTANTS
  Person <- MCPerson
  Def = {"d1", "d2"}
  Value <- MCValue
  Nil = Nil
  User = {"r1", "r2", "r3"}
  Fold <- MCFold
  FieldName <- MCFieldName
  VoterIdField = "voter_id"
  Blank = ""
  Request = {"r1", "r2", "r3"}
  Kind <- ImportImportDelete
  UserOf <- MCUserOf
  PathReads <- ImportPaths
  ListReads <- MCListReads
  Bodies <- FewBodies
  Sheets <- MCSheets
  SeedDefs <- MCSeedDefs
  SeedRows <- TwoPersons
  Allowances <- MCAllowances
  MaxEdits = 0
SPECIFICATION FairSpec
INVARIANT UniqueVoterIDs
PROPERTY FailedImportChangesNothing
PROPERTY SuccessfulImportIsComplete
PROPERTY ImportAuditsChain
PROPERTY ImplementsLedger
PROPERTY EveryRequestEnds
\* The requests of a behaviour are finitely many: it ends when all are answered.
CHECK_DEADLOCK FALSE

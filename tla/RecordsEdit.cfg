\* A patch, a bulk update and a delete race over two persons.
CONSTANTS
  Person <- MCPerson
  Def = {"d1", "d2"}
  Value <- MCValue
  Nil = Nil
  User = {"r1", "r2", "r3"}
  Fold <- MCFold
  FieldName <- MCFieldName
  VoterIdField = "voter_id"
  Blank = ""
  Request = {"r1", "r2", "r3"}
  Kind <- PatchUpdateDelete
  UserOf <- MCUserOf
  PathReads <- EditPaths
  ListReads <- MCListReads
  Bodies <- EditBodies
  Sheets <- FewSheets
  SeedDefs <- MCSeedDefs
  SeedRows <- TwoPersons
  Allowances <- MCAllowances
  MaxEdits = 0
SPECIFICATION Spec
INVARIANT TypeOK
INVARIANT NoOrphans
INVARIANT TrailTellsValue
PROPERTY EveryChangeAudited
PROPERTY OnlyRequestedDeletes
PROPERTY ImplementsLedger
PROPERTY UpdatesThoseNamed
\* The requests of a behaviour are finitely many: it ends when all are answered.
CHECK_DEADLOCK FALSE

\* An import and a patch while definitions are edited.
CONSTANTS
  Person <- MCPerson
  Def = {"d1", "d2", "d3"}
  Value <- MCValue
  Nil = Nil
  User = {"r1", "r2"}
  Fold <- MCFold
  FieldName <- ThreeNames
  VoterIdField = "voter_id"
  Blank = ""
  Request = {"r1", "r2"}
  Kind <- ImportPatchDelete
  UserOf <- MCUserOf
  PathReads <- DefinitionPaths
  ListReads <- MCListReads
  Bodies <- MCBodies
  Sheets <- FewSheets
  SeedDefs <- MCSeedDefs
  SeedRows <- OnePerson
  Allowances <- MCAllowances
  MaxEdits = 2
SPECIFICATION Spec
INVARIANT StoredValuesAccepted
\* The requests of a behaviour are finitely many: it ends when all are answered.
CHECK_DEADLOCK FALSE

\* Two patches of one person without a party.
CONSTANTS
  Person <- MCPerson
  Def = {"d1", "d2"}
  Value <- MCValue
  Nil = Nil
  User = {"r1", "r2"}
  Fold <- MCFold
  FieldName <- MCFieldName
  VoterIdField = "voter_id"
  Blank = ""
  Request = {"r1", "r2"}
  Kind <- PatchPatch
  UserOf <- MCUserOf
  PathReads <- StalePaths
  ListReads <- MCListReads
  Bodies <- FewBodies
  Sheets <- FewSheets
  SeedDefs <- MCSeedDefs
  SeedRows <- PartylessPerson
  Allowances <- MCAllowances
  MaxEdits = 0
SPECIFICATION Spec

PROPERTY NilOldMeansAdded
\* The requests of a behaviour are finitely many: it ends when all are answered.
CHECK_DEADLOCK FALSE

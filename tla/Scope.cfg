\* Persons are listed or counted while another request edits groups, maps, definitions or values.
CONSTANTS
  Group = {"g1", "g2", "g3"}
  User = {"u1"}
  Person = {"p1", "p2"}
  Request = {"r1"}
  May <- AllKinds
  UserOf <- AllUsersOne
  FieldName = {"age", "voter_id"}
  VoterID = "voter_id"
  Value <- Numbers
  TextRank <- MCTextRank
  Like <- MCLike
  Place <- Numbers
  Near <- MCNear
  Clause <- MCClause
  Filter <- MCFilter
  Asks = {{}, {"g3"}, {"g2", "g3"}}
  Readings <- MCReadings
  Queries <- MCQueries
  Plans <- MCPlans
  SeedParent <- Branches
  SeedFilter <- MCSeedFilter
  SeedValue <- MCSeedValue
  SeedDefs <- MCSeedDefs
  SeedMaps = {{"g1"}, {"g2", "g3"}}
  Nil = Nil
  Top = Top
SPECIFICATION Spec
INVARIANT TypeOK
INVARIANT FailuresExplained
PROPERTY AnswersFromOneMoment
\* A behaviour ends when its request is answered.
CHECK_DEADLOCK FALSE

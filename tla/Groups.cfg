\* Any three endpoints race in a chain of three groups.
CONSTANTS
  Group = {"g1", "g2", "g3", "g4"}
  User = {"u1", "u2"}
  Request = {"r1", "r2", "r3"}
  May <- MCMay
  UserOf <- MCUserOf
  Nil = Nil
  Top = Top
  SeedParent <- MCSeedParent
  SeedRole <- MCSeedRole
  Targets = {"g1", "g2", "g3"}
SPECIFICATION FairSpec
INVARIANT TypeOK
INVARIANT NothingDangles
INVARIANT VisibleAreSubtrees
INVARIANT ListUnfolds
PROPERTY PlacedWhereSeen
PROPERTY OnlyEnrolmentMaps
PROPERTY EveryRequestEnds
\* The requests of a behaviour are finitely many: it ends when all are answered.
CHECK_DEADLOCK FALSE

\* One group is moved below itself.
CONSTANTS
  Group = {"g1", "g2", "g3", "g4"}
  User = {"u1", "u2"}
  Request = {"r2"}
  May <- Patches
  UserOf <- MCUserOf
  Nil = Nil
  Top = Top
  SeedParent <- MCSeedParent
  SeedRole <- MCSeedRole
  Targets = {"g1", "g2", "g3", "g4"}
SPECIFICATION Spec
INVARIANT NoCircularParents
\* The requests of a behaviour are finitely many: it ends when all are answered.
CHECK_DEADLOCK FALSE

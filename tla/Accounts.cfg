\* Two users and the system call endpoints of Accounts at once, or one of them and a visit
\* of Members, or visits alone; it stops when all are answered.
SPECIFICATION MSpec
CONSTANTS
  ann = ann  ben = ben  cy = cy  dee = dee  nameA = nameA  nameB = nameB  lower = lower  upper = upper  o1 = o1  o2 = o2
  r1 = r1  r2 = r2  sys = sys  reg = reg  Nil = Nil  System = System
  f1 = f1  f2 = f2  f3 = f3  v1 = v1  v2 = v2  v3 = v3
  User <- MCUser
  Name <- MCName
  Folded <- MCFolded
  Org <- MCOrg
  Request <- MCRequest
  May <- MCMay
  ActorOf <- MCActorOf
  SeedName <- MCSeedName
  SeedRoles <- MCSeedRoles
  SavedFilter <- MCSavedFilter
  Visit <- MCVisit
  MayVisit <- MCMayVisit
  VisitorOf <- MCVisitorOf
  SeedEnrolled <- MCSeedEnrolled
  SeedFilters <- MCSeedFilters
  Plans <- MCPlans
SYMMETRY FreeIDs
CHECK_DEADLOCK FALSE
INVARIANT UsernamesDiffer
INVARIANT EnrolledWereMembers
PROPERTY ChangedByOwners
PROPERTY RolesChangeAsAsked
PROPERTY OwnerlessStaysSo
PROPERTY EnrolmentsEndByInsiders
PROPERTY FiltersStayTheirs

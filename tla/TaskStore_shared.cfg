SPECIFICATION Spec
CONSTANTS
  c1 = c1  c2 = c2  g1 = g1  a1 = a1
  Clients = {c1, c2}
  Tasks = {1, 2, 3, 4}
  Groups = {g1}
  GroupOf <- McOneGroup
  KindOf <- McOneKind
  Names = {a1}
  MaxPerKind = 2
  SharedTasks = TRUE
  MaxClock = 2
  MaxDeaths = 1
SYMMETRY ClientSymmetry
INVARIANTS
  TypeOK
  RetentionBounded
  PromisedArtifactsReadable
PROPERTIES
  PrunesSpareTheFew
  ImplementsSessionStore
CHECK_DEADLOCK FALSE

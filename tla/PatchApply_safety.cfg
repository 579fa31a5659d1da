SPECIFICATION Spec
CONSTANTS
  Files = {changed, new, local, other}
  Touched = {changed, new, local}
  Added = {new}
  IgnoredLocal = {local}
  Options <- McAnyOption
  MaxCalls = 2
  MaxEdits = 2
INVARIANTS
  TypeOK
  RollbackKeepsKnownEdits
  AppliedIsWhole
PROPERTY
  WritesPassAllGates
  ImplementsPatchCall
CHECK_DEADLOCK FALSE

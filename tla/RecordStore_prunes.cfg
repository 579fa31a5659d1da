\* Two writers with three rows, a clock of two values, a changing limit.
SPECIFICATION Spec
CONSTANTS
  Writer = {w1, w2}
  EventType = {"worker:call", "cli:cleanup-audit"}
  Suite = {"coding-v1"}
  Limits = {1, 2}
  MaxRows = 3
  MaxTime = 1
  MaxEdits = 1
SYMMETRY Symmetry
INVARIANTS TypeOK NewestSurvive GroupsBounded AnswersAreTrue
CHECK_DEADLOCK FALSE

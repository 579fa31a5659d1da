\* Two commands of two processes that may overlap and die, one edit.
SPECIFICATION Spec
CONSTANTS
  Process = {p1, p2}
  Id = {"w1", "w2"}
  Target = {"t1", "t2"}
  Base = {"u"}
  Command <- MCCommand
  Initially <- MCInitially
  MaxCommands = 2
  MaxEdits = 1
SYMMETRY Symmetry
INVARIANT TypeOK
PROPERTIES WritesWhatItSaw AloneLosesNothing SetupSaysTrue
CHECK_DEADLOCK FALSE

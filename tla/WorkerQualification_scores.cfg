SPECIFICATION Spec
CONSTANTS
  Processes = {p1}
  Clients = {c1}
  HostOf <- OneHost
  Models = {m1}
  Interviews <- SoundButTwo
  Benchmarks = {}
  Ties = {0, 1}
  MaxEvaluations = 1
  MaxSwitches = 0
CHECK_DEADLOCK FALSE
INVARIANTS RightsRestOnAnswers ReadyMeansRouted

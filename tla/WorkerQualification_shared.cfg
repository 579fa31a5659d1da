SPECIFICATION Spec
CONSTANTS
  Processes = {p1, p2}
  Clients = {c1, c2}
  HostOf <- OwnHosts
  Models = {m1, m2}
  Interviews <- FewInterviews
  Benchmarks <- FewBenchmarks
  Ties = {1}
  MaxEvaluations = 3
  MaxSwitches = 1
CHECK_DEADLOCK FALSE
INVARIANTS TypeOK PatchNeedsBenchmark RightsRestOnAnswers

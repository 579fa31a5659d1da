SPECIFICATION FairSpec
CONSTANTS
  Proposals = {p1, p2, p3}
  StartOptions <- McOneStartOption
  ResumeOptions <- McOneResumeOption
  MaxRuns = 3
PROPERTY
  RunEnds
CHECK_DEADLOCK FALSE

SPECIFICATION UndisturbedSpec
CONSTANTS
  Proposals = {p1, p2}
  StartOptions <- McFewStartOptions
  ResumeOptions <- McFewResumeOptions
  MaxRuns = 2
INVARIANT
  FailedApplyNeedsReview
CHECK_DEADLOCK FALSE

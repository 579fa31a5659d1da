SPECIFICATION Spec
CONSTANTS
  Proposals = {p1, p2}
  StartOptions <- McStartOptions
  ResumeOptions <- McResumeOptions
  MaxRuns = 2
SYMMETRY McSymmetry
INVARIANTS
  TypeOK
  PersistedStepsSettled
  RecordedSuccessHasArtifact
  AppliedStepIsTrue
  CompletedIsEarned
  EndedMeansDecided
PROPERTIES
  AppliedProposalIsStored
  ImplementsPatchGate
CHECK_DEADLOCK FALSE

SPECIFICATION FairSpec
CONSTANTS
  Calls = {k1}
  Tasks <- FewTasks
  Resolutions <- FewResolutions
  Workspace <- SmallWorkspace
  Subjects <- FewSubjects
  Answers <- FewAnswers
  Proposals <- FewProposals
  RepairAttempts = 2
CHECK_DEADLOCK FALSE
INVARIANTS TypeOK AcceptedIsVetted EnvelopeAgrees EventsFollowRecords SentIsAdmitted
PROPERTY EveryCallEnds

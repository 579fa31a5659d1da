------------------------- MODULE TaskSessionProofs -------------------------
(***************************************************************************)
(* What holds of a task session for any proposals, any options its callers *)
(* may pass and any number of runs.                                        *)
(***************************************************************************)
EXTENDS TaskSession, TLAPS

\* Every plan is a sequence of statements.
LEMMA PlansTyped ==
  ASSUME TypeOK
  PROVE  /\ \A v \in Verdicts, r \in Reports :
              ReviewPlan(v, r) \in Seq(Statement) /\ FixPlan(v, r) \in Seq(Statement)
         /\ \A p \in Proposals, k \in {"patch", "placeholder"}, i \in {"ok", "blocked"} :
              ProposalPlan(p, k, i) \in Seq(Statement)
         /\ \A r \in Applied \cup {"denied", "dry-run"} : ApplyPlan(r) \in Seq(Statement)
         /\ stage # "idle" /\ session.status # None => FinalizePlan \in Seq(Statement)
<1> USE DEF TypeOK, Statement, Write, Finalize, Sync, SettledAs, Finding, ArtifactNames,
            SettledStatus, SessionStatus, Steps, Applied, Verdicts, Reports, None
<1>1. \A v \in Verdicts, r \in Reports : ReviewPlan(v, r) \in Seq(Statement)
  BY DEF ReviewPlan
<1>2. \A v \in Verdicts, r \in Reports : FixPlan(v, r) \in Seq(Statement)
  BY DEF FixPlan
<1>3. \A p \in Proposals, k \in {"patch", "placeholder"}, i \in {"ok", "blocked"} :
              ProposalPlan(p, k, i) \in Seq(Statement)
  BY ProposalsAssumption DEF ProposalPlan
<1>4. \A r \in Applied \cup {"denied", "dry-run"} : ApplyPlan(r) \in Seq(Statement)
  BY DEF ApplyPlan
<1>5. stage # "idle" /\ session.status # None => FinalizePlan \in Seq(Statement)
  BY DEF FinalizePlan, ResolveFinalStatus, Session
<1>6. QED
  BY <1>1, <1>2, <1>3, <1>4, <1>5

\* What the first statement of a plan is, and what remains after it.
LEMMA HeadTyped ==
  ASSUME todo \in Seq(Statement), NEW op, Executing(op)
  PROVE  /\ Tail(todo) \in Seq(Statement)
         /\ op = "write" => Head(todo).name \in ArtifactNames
                           /\ Head(todo).value \in
                                (IF Head(todo).name = "patch-proposal" THEN Proposals ELSE Finding)
         /\ op = "finalize" => Head(todo).step \in Steps /\ Head(todo).status \in SettledStatus
         /\ op = "sync" => Head(todo).status \in SessionStatus
<1>1. Head(todo) \in Statement /\ Head(todo).op = op /\ Tail(todo) \in Seq(Statement)
  BY DEF Executing
<1>2. QED
  BY <1>1 DEF Statement, ArtifactNames

LEMMA TailShifts ==
  ASSUME todo \in Seq(Statement), todo # << >>
  PROVE  /\ Len(todo) \in Nat /\ Len(todo) >= 1 /\ Head(todo) = todo[1]
         /\ Len(Tail(todo)) = Len(todo) - 1
         /\ \A j \in 1..(Len(todo) - 1) : Tail(todo)[j] = todo[j + 1]
  OBVIOUS

-----------------------------------------------------------------------------
(* Type correctness.  The report of a run holds the status of its session, *)
(* so that the run has one is part of the induction.                       *)

InRun ==
  /\ stage # "idle" => session.status # None
  /\ todo # << >> => stage # "idle"

Typed == TypeOK /\ InRun

\* What a process that is not running holds.
LEMMA NothingTyped ==
  /\ NoSession \in Session
  /\ NoArtifacts \in Contents
  /\ NoOptions \in RunOption
  /\ << >> \in Seq(Statement)
<1> USE DEF None, NoSession, NoSteps, NoArtifacts, NoRequest, NoOptions
<1>1. NoSession \in Session
  BY DEF Session, Request, StepStatus, SettledStatus
<1>2. NoArtifacts \in Contents
  BY DEF Contents, ArtifactNames
<1>3. NoOptions \in RunOption
  BY DEF RunOption
<1>4. QED
  BY <1>1, <1>2, <1>3

LEMMA TypedInit == Init => Typed
  BY NothingTyped, MaxRunsAssumption DEF Init, Typed, TypeOK, InRun, None

LEMMA TypedNext == Typed /\ [Next]_vars => Typed'
<1> SUFFICES ASSUME Typed, [Next]_vars PROVE Typed'
  OBVIOUS
<1> USE DEF durable, volatile
<1>t. /\ row \in Session /\ session \in Session /\ state \in Contents /\ artifacts \in Contents
      /\ todo \in Seq(Statement) /\ worktree \subseteq Proposals
      /\ issued \in [Proposals -> {None, "patch", "placeholder"}] /\ options \in RunOption
      /\ TypeOK /\ (stage # "idle" => session.status # None)
  BY DEF Typed, TypeOK, InRun
<1>w. << Sync("needs-review") >> \in Seq(Statement)
  BY DEF Sync, Statement, SessionStatus
<1>a. ASSUME NEW opts \in RunOption, BeginRun(opts), session' \in Session,
             session'.status # None, state' \in Contents,
             todo' \in Seq(Statement)
      PROVE  Typed'
  <2>1. runs' \in 0..MaxRuns
    BY <1>a, MaxRunsAssumption DEF BeginRun, Typed, TypeOK
  <2>2. QED
    BY <1>a, <2>1 DEF BeginRun, Typed, TypeOK, InRun
<1>b. ASSUME NEW r \in {"ended", "died"}, StopRun(r) PROVE Typed'
  BY <1>b, NothingTyped DEF StopRun, Typed, TypeOK, InRun
<1>c. ASSUME NEW S \in SUBSET Steps, NEW status \in StepStatus
      PROVE  Marked(S, status) \in Session /\ Marked(S, status).status = session.status
  BY <1>t DEF Marked, Session
<1>d. ASSUME NEW S \in SUBSET Steps
      PROVE  LET kept == [session EXCEPT !.steps = Denied(S)]
             IN  kept \in Session /\ kept.status = session.status
  BY <1>t DEF Denied, Session, StepStatus, SettledStatus
<1>e. ASSUME NEW next \in {"fix", "proposal", "apply", "finalize", "ended"},
             Enter(next), stage # "idle", session' \in Session, session'.status = session.status,
             state' \in Contents, todo' \in Seq(Statement),
             worktree' \subseteq Proposals,
             issued' \in [Proposals -> {None, "patch", "placeholder"}]
      PROVE  Typed'
  BY <1>e DEF Enter, Typed, TypeOK, InRun
<1>1. ASSUME NEW o \in StartOptions, Start(o) PROVE Typed'
  <2>1. PICK opts \in RunOption : BeginRun(opts)
    BY <1>1, OptionsAssumption DEF Start, StartOption, RunOption, None
  <2>2. session' \in Session /\ session'.status # None
    BY <1>1, OptionsAssumption
    DEF Start, StartOption, Session, Request, NoSteps, StepStatus, SettledStatus, SessionStatus, None
  <2>3. todo' \in Seq(Statement)
    BY <1>1 DEF Start, Sync, Statement, SessionStatus
  <2>4. QED
    BY <1>1, <1>a, <2>1, <2>2, <2>3, NothingTyped DEF Start
<1>2. ASSUME NEW o \in ResumeOptions, Resume(o) PROVE Typed'
  <2>1. DeriveResumeOptions(o, row.request) \in RunOption
    BY OptionsAssumption, <1>t DEF DeriveResumeOptions, ResumeOption, RunOption
  <2>2. QED
    BY <1>2, <1>a, <2>1, <1>t, NothingTyped DEF Resume
<1>3. CASE WriteArtifact
  <2> DEFINE name == Head(todo).name  value == Head(todo).value
  <2>a. /\ name \in ArtifactNames /\ todo' \in Seq(Statement)
        /\ value \in IF name = "patch-proposal" THEN Proposals ELSE Finding
    BY <1>3, HeadTyped, <1>t DEF WriteArtifact
  <2>b. artifacts' = IF options.persist THEN [artifacts EXCEPT ![name] = value] ELSE artifacts
    BY <1>3 DEF WriteArtifact
  <2> HIDE DEF name, value
  <2>1. artifacts' \in Contents /\ todo' \in Seq(Statement)
    BY <2>a, <2>b, <1>t DEF Contents, ArtifactNames
  <2>2. QED
    BY <1>3, <2>1 DEF WriteArtifact, Typed, TypeOK, InRun
<1>4. CASE FinalizeStep
  <2>1. session' \in Session /\ session'.status = session.status /\ todo' \in Seq(Statement)
    BY <1>4, <1>t, HeadTyped DEF FinalizeStep, Session, StepStatus
  <2>2. QED
    BY <1>4, <2>1 DEF FinalizeStep, Typed, TypeOK, InRun
<1>5. CASE SyncSession
  <2>1. session' \in Session /\ session'.status # None /\ todo' \in Seq(Statement)
    BY <1>5, <1>t, HeadTyped DEF SyncSession, Session, SessionStatus, None
  <2>2. QED
    BY <1>5, <2>1 DEF SyncSession, Typed, TypeOK, InRun
<1>6. ASSUME NEW v \in Verdicts, NEW r \in Reports, RunReview(v, r) PROVE Typed'
  <2>1. stage # "idle" /\ Enter("fix")
    BY <1>6 DEF RunReview, AtStage
  <2>2. session' \in Session /\ session'.status = session.status
    BY <1>6, <1>c DEF RunReview, Steps, StepStatus
  <2>3. state' \in Contents
    BY <1>6, <1>t DEF RunReview, Verdicts, Reports, Contents, Finding, ArtifactNames
  <2>4. todo' \in Seq(Statement)
    BY <1>6, PlansTyped, <1>t DEF RunReview
  <2>5. QED
    BY <1>6, <1>e, <1>t, <2>1, <2>2, <2>3, <2>4 DEF RunReview
<1>7. CASE KeepReview
  <2>1. stage # "idle" /\ Enter("fix")
    BY <1>7 DEF KeepReview, AtStage
  <2>2. session' \in Session /\ session'.status = session.status /\ todo' \in Seq(Statement) /\ state' \in Contents
    BY <1>7, <1>t DEF KeepReview
  <2>3. QED
    BY <1>7, <1>e, <1>t, <2>1, <2>2 DEF KeepReview
<1>8. ASSUME NEW v \in Verdicts, NEW r \in Reports, RunFix(v, r) PROVE Typed'
  <2>1. stage # "idle" /\ Enter("proposal")
    BY <1>8 DEF RunFix, AtStage
  <2>2. session' \in Session /\ session'.status = session.status
    BY <1>8, <1>c DEF RunFix, Steps, StepStatus
  <2>3. state' \in Contents
    BY <1>8, <1>t DEF RunFix, Verdicts, Reports, Contents, Finding, ArtifactNames
  <2>4. todo' \in Seq(Statement)
    BY <1>8, PlansTyped, <1>t DEF RunFix
  <2>5. QED
    BY <1>8, <1>e, <1>t, <2>1, <2>2, <2>3, <2>4 DEF RunFix
<1>9. CASE DenyAfterReview
  <2>1. stage # "idle" /\ Enter("proposal")
    BY <1>9 DEF DenyAfterReview, AtStage
  <2>2. session' \in Session /\ session'.status = session.status
    BY <1>9, <1>d DEF DenyAfterReview, Steps
  <2>3. todo' \in Seq(Statement)
    BY <1>9, <1>w DEF DenyAfterReview
  <2>4. QED
    BY <1>9, <1>e, <1>t, <2>1, <2>2, <2>3 DEF DenyAfterReview
<1>10. CASE PassFix
  <2>1. stage # "idle" /\ Enter("proposal")
    BY <1>10 DEF PassFix, AtStage
  <2>2. session' \in Session /\ session'.status = session.status
    BY <1>10, <1>c, <1>t DEF PassFix, Steps, StepStatus, SettledStatus
  <2>3. QED
    BY <1>10, <1>e, <1>t, <2>1, <2>2 DEF PassFix
<1>11. ASSUME NEW p \in Proposals, NEW k \in {"patch", "placeholder"}, NEW i \in {"ok", "blocked"},
              RunProposal(p, k, i)
       PROVE Typed'
  <2>1. stage # "idle" /\ Enter("apply")
    BY <1>11 DEF RunProposal, AtStage
  <2>2. session' \in Session /\ session'.status = session.status
    BY <1>11, <1>c DEF RunProposal, Steps, StepStatus
  <2>3. state' \in Contents
    BY <1>11, <1>t DEF RunProposal, Contents, Finding, ArtifactNames
  <2>4. todo' \in Seq(Statement)
    BY <1>11, PlansTyped, <1>t DEF RunProposal
  <2>5. issued' \in [Proposals -> {None, "patch", "placeholder"}]
    BY <1>11, <1>t DEF RunProposal
  <2>6. QED
    BY <1>11, <1>e, <1>t, <2>1, <2>2, <2>3, <2>4, <2>5 DEF RunProposal
<1>12. CASE DenyAfterFix
  <2>1. stage # "idle" /\ Enter("apply")
    BY <1>12 DEF DenyAfterFix, AtStage
  <2>2. session' \in Session /\ session'.status = session.status
    BY <1>12, <1>d DEF DenyAfterFix, Steps
  <2>3. todo' \in Seq(Statement)
    BY <1>12, <1>w DEF DenyAfterFix
  <2>4. QED
    BY <1>12, <1>e, <1>t, <2>1, <2>2, <2>3 DEF DenyAfterFix
<1>13. CASE PassProposal
  <2>1. stage # "idle" /\ Enter("apply")
    BY <1>13 DEF PassProposal, AtStage
  <2>2. session' \in Session /\ session'.status = session.status
    BY <1>13, <1>c, <1>t DEF PassProposal, Steps, StepStatus, SettledStatus
  <2>3. QED
    BY <1>13, <1>e, <1>t, <2>1, <2>2 DEF PassProposal
<1>14. ASSUME NEW r \in Applied \cup {"denied", "dry-run"}, NEW w \in BOOLEAN, RunApply(r, w) PROVE Typed'
  <2>1. stage # "idle" /\ Enter("finalize")
    BY <1>14 DEF RunApply, AtStage
  <2>2. session' \in Session /\ session'.status = session.status
    BY <1>14, <1>c DEF RunApply, Steps, StepStatus
  <2>3. state' \in Contents
    BY <1>14, <1>t DEF RunApply, Applied, Contents, Finding, ArtifactNames
  <2>4. todo' \in Seq(Statement)
    BY <1>14, PlansTyped, <1>t DEF RunApply
  <2>5. worktree' \subseteq Proposals
    BY <1>14, <1>t DEF RunApply, Contents
  <2>6. QED
    BY <1>14, <1>e, <1>t, <2>1, <2>2, <2>3, <2>4, <2>5 DEF RunApply
<1>15. CASE ApplyWithoutProposal \/ ProposeFromSummary
  BY <1>b, <1>15 DEF ApplyWithoutProposal, ProposeFromSummary
<1>16. CASE PassApply
  <2>1. stage # "idle" /\ Enter("finalize")
    BY <1>16 DEF PassApply, AtStage
  <2>2. session' \in Session /\ session'.status = session.status
    BY <1>16, <1>c, <1>t DEF PassApply, Steps, StepStatus, SettledStatus
  <2>3. QED
    BY <1>16, <1>e, <1>t, <2>1, <2>2 DEF PassApply
<1>17. CASE FinalizeTaskWorkflowOutput
  <2>1. stage # "idle" /\ Enter("ended")
    BY <1>17 DEF FinalizeTaskWorkflowOutput, AtStage
  <2>2. todo' \in Seq(Statement)
    BY <1>17, <2>1, PlansTyped, <1>t DEF FinalizeTaskWorkflowOutput
  <2>3. QED
    BY <1>17, <1>e, <1>t, <2>1, <2>2 DEF FinalizeTaskWorkflowOutput
<1>18. CASE EndRun
  BY <1>b, <1>18 DEF EndRun
<1>19. CASE Die
  BY <1>b, <1>19 DEF Die
<1>20. CASE UNCHANGED vars
  BY <1>20 DEF vars, Typed, TypeOK, InRun
<1>21. QED
  BY <1>1, <1>2, <1>3, <1>4, <1>5, <1>6, <1>7, <1>8, <1>9, <1>10, <1>11, <1>12, <1>13, <1>14,
     <1>15, <1>16, <1>17, <1>18, <1>19, <1>20 DEF Next, Caller, Workflow

LEMMA AlwaysTyped == Spec => []Typed
  BY TypedInit, TypedNext, PTL DEF Spec

\* Every variable of a task session keeps its type.
THEOREM TypeCorrect == Spec => []TypeOK
<1>1. Typed => TypeOK
  BY DEF Typed
<1>2. QED
  BY <1>1, AlwaysTyped, PTL

-----------------------------------------------------------------------------
(* No stored step is pending or running.  The row is written from the      *)
(* session in memory, where steps do run, so the invariant says of every   *)
(* unsettled step that "todo" settles it before the next write of the row. *)

SettlesFirst(s) ==
  \E j \in 1..Len(todo) :
    /\ todo[j].op = "finalize" /\ todo[j].step = s
    /\ \A i \in 1..(j - 1) : todo[i].op # "sync"

UnsettledStepsOwed ==
  \A s \in Steps : session.steps[s] \notin SettledStatus => SettlesFirst(s)

SettledInv == PersistedStepsSettled /\ UnsettledStepsOwed

LEMMA SettledInit == Init => SettledInv
  BY DEF Init, SettledInv, PersistedStepsSettled, UnsettledStepsOwed, NoSession, NoSteps, SettledStatus

LEMMA SettledNext == Typed /\ SettledInv /\ [Next]_vars => SettledInv'
<1> SUFFICES ASSUME Typed, SettledInv, [Next]_vars PROVE SettledInv'
  OBVIOUS
<1> USE DEF SettledInv, durable, volatile
<1>t. session \in Session /\ row \in Session /\ todo \in Seq(Statement)
  BY DEF Typed, TypeOK
<1>a. ASSUME row' = row, \A s \in Steps : session'.steps[s] \in SettledStatus PROVE SettledInv'
  BY <1>a DEF PersistedStepsSettled, UnsettledStepsOwed
<1>b. ASSUME NEW r, StopRun(r) PROVE SettledInv'
  BY <1>a, <1>b DEF StopRun, NoSession, NoSteps, SettledStatus
<1>c. todo = << >> => \A s \in Steps : session.steps[s] \in SettledStatus
  BY DEF UnsettledStepsOwed, SettlesFirst
<1>d. ASSUME row' = row, todo = << >>, NEW S \in SUBSET Steps, NEW status \in SettledStatus,
             session' \in {session, Marked(S, status), [session EXCEPT !.steps = Denied(S)]}
      PROVE  SettledInv'
  <2>1. \A s \in Steps : session'.steps[s] \in SettledStatus
    BY <1>c, <1>d, <1>t DEF Marked, Denied, Session, SettledStatus
  <2>2. QED
    BY <1>a, <1>d, <2>1
<1>e. ASSUME row' = row, todo = << >>, NEW S \in SUBSET Steps, session' = Marked(S, "running"),
             \A s \in S : SettlesFirst(s)'
      PROVE  SettledInv'
  <2>1. \A s \in Steps \ S : session'.steps[s] \in SettledStatus
    BY <1>c, <1>e, <1>t DEF Marked, Session
  <2>2. QED
    BY <1>e, <2>1 DEF PersistedStepsSettled, UnsettledStepsOwed
<1>f. ASSUME row' = row, todo # << >>, todo' = Tail(todo), Head(todo).op # "sync",
             NEW s \in Steps, SettlesFirst(s),
             ~(Head(todo).op = "finalize" /\ Head(todo).step = s)
      PROVE  SettlesFirst(s)'
  <2>1. PICK j \in 1..Len(todo) : /\ todo[j].op = "finalize" /\ todo[j].step = s
                                  /\ \A i \in 1..(j - 1) : todo[i].op # "sync"
    BY <1>f DEF SettlesFirst
  <2>2. j - 1 \in 1..Len(todo')
    BY <1>f, <1>t, <2>1, TailShifts
  <2>3. todo'[j - 1] = todo[j] /\ \A i \in 1..(j - 2) : todo'[i] = todo[i + 1]
    BY <1>f, <1>t, <2>1, <2>2, TailShifts
  <2>4. \A i \in 1..((j - 1) - 1) : todo'[i].op # "sync"
    BY <2>1, <2>3
  <2>5. QED
    BY <2>1, <2>2, <2>3, <2>4 DEF SettlesFirst
<1>1. ASSUME NEW o \in StartOptions, Start(o) PROVE SettledInv'
  BY <1>1, <1>a DEF Start, BeginRun, NoSteps, SettledStatus
<1>2. ASSUME NEW o \in ResumeOptions, Resume(o) PROVE SettledInv'
  BY <1>2, <1>a DEF Resume, BeginRun, PersistedStepsSettled
<1>3. CASE WriteArtifact
  BY <1>3, <1>f DEF WriteArtifact, Executing, PersistedStepsSettled, UnsettledStepsOwed
<1>4. CASE FinalizeStep
  <2>1. Head(todo).step \in Steps /\ Head(todo).status \in SettledStatus
    BY <1>4, <1>t, HeadTyped DEF FinalizeStep
  <2>2. \A s \in Steps : session'.steps[s] \notin SettledStatus
                         => session.steps[s] \notin SettledStatus /\ s # Head(todo).step
    BY <1>4, <1>t, <2>1 DEF FinalizeStep, Session
  <2>3. QED
    BY <1>4, <1>f, <2>2 DEF FinalizeStep, Executing, PersistedStepsSettled, UnsettledStepsOwed
<1>5. CASE SyncSession
  <2>1. \A s \in Steps : ~SettlesFirst(s)
    BY <1>5, <1>t, TailShifts DEF SyncSession, Executing, SettlesFirst
  <2>2. \A s \in Steps : session'.steps[s] \in SettledStatus
    BY <1>5, <1>t, <2>1 DEF SyncSession, UnsettledStepsOwed, Session
  <2>3. QED
    BY <1>5, <2>2 DEF SyncSession, PersistedStepsSettled, UnsettledStepsOwed
<1>6. ASSUME NEW v \in Verdicts, NEW r \in Reports, RunReview(v, r) PROVE SettledInv'
  <2>1. SettlesFirst("reviewed")'
    BY <1>6 DEF RunReview, SettlesFirst, ReviewPlan, Write, Finalize, SettledAs, Sync
  <2>2. QED
    BY <1>6, <1>e, <2>1 DEF RunReview, AtStage, Enter, Steps
<1>7. CASE KeepReview
  BY <1>7, <1>a, <1>c DEF KeepReview, AtStage, Enter
<1>8. ASSUME NEW v \in Verdicts, NEW r \in Reports, RunFix(v, r) PROVE SettledInv'
  <2>1. SettlesFirst("fix-planned")'
    BY <1>8 DEF RunFix, SettlesFirst, FixPlan, Write, Finalize, SettledAs, Sync
  <2>2. QED
    BY <1>8, <1>e, <2>1 DEF RunFix, AtStage, Enter, Steps
<1>9. CASE DenyAfterReview
  BY <1>9, <1>d DEF DenyAfterReview, AtStage, Enter, Steps, SettledStatus
<1>10. CASE PassFix
  BY <1>10, <1>d DEF PassFix, AtStage, Enter, Steps, SettledStatus
<1>11. ASSUME NEW p \in Proposals, NEW k \in {"patch", "placeholder"}, NEW i \in {"ok", "blocked"},
              RunProposal(p, k, i)
       PROVE SettledInv'
  <2>1. SettlesFirst("patch-proposed")' /\ SettlesFirst("patch-inspected")'
    BY <1>11 DEF RunProposal, SettlesFirst, ProposalPlan, Write, Finalize, SettledAs, Sync
  <2>2. QED
    BY <1>11, <1>e, <2>1 DEF RunProposal, AtStage, Enter, Steps
<1>12. CASE DenyAfterFix
  BY <1>12, <1>d DEF DenyAfterFix, AtStage, Enter, Steps, SettledStatus
<1>13. CASE PassProposal
  BY <1>13, <1>d DEF PassProposal, AtStage, Enter, Steps, SettledStatus
<1>14. ASSUME NEW r \in Applied \cup {"denied", "dry-run"}, NEW w \in BOOLEAN, RunApply(r, w) PROVE SettledInv'
  <2>1. SettlesFirst("patch-applied")'
    BY <1>14 DEF RunApply, SettlesFirst, ApplyPlan, Write, Finalize, Sync
  <2>2. QED
    BY <1>14, <1>e, <2>1 DEF RunApply, AtStage, Enter, Steps
<1>15. CASE ApplyWithoutProposal \/ ProposeFromSummary
  BY <1>15, <1>b DEF ApplyWithoutProposal, ProposeFromSummary
<1>16. CASE PassApply
  BY <1>16, <1>d DEF PassApply, AtStage, Enter, Steps, SettledStatus
<1>17. CASE FinalizeTaskWorkflowOutput
  BY <1>17, <1>a, <1>c DEF FinalizeTaskWorkflowOutput, AtStage, Enter
<1>18. CASE EndRun
  BY <1>18, <1>b DEF EndRun
<1>19. CASE Die
  BY <1>19, <1>b DEF Die
<1>20. CASE UNCHANGED vars
  BY <1>20 DEF vars, PersistedStepsSettled, UnsettledStepsOwed, SettlesFirst
<1>21. QED
  BY <1>1, <1>2, <1>3, <1>4, <1>5, <1>6, <1>7, <1>8, <1>9, <1>10, <1>11, <1>12, <1>13, <1>14,
     <1>15, <1>16, <1>17, <1>18, <1>19, <1>20 DEF Next, Caller, Workflow

\* Wherever a run dies, no stored step is left pending or running.
THEOREM StoredStepsSettled == Spec => []PersistedStepsSettled
<1>1. Spec => []SettledInv
  BY SettledInit, SettledNext, AlwaysTyped, PTL DEF Spec
<1>2. SettledInv => PersistedStepsSettled
  BY DEF SettledInv
<1>3. QED
  BY <1>1, <1>2, PTL

-----------------------------------------------------------------------------
(* A stored success has its artifact.  In a run that persists, a step that *)
(* is or is about to be a success has its artifact stored or about to be.  *)

EvidenceStored(s) == artifacts[EvidenceOf[s]] # None

EvidenceBefore(s, j) ==
  \E i \in 1..(j - 1) : todo[i].op = "write" /\ todo[i].name = EvidenceOf[s]

Justified(j) ==
  todo[j].op = "finalize" /\ todo[j].status = "success"
  => EvidenceStored(todo[j].step) \/ EvidenceBefore(todo[j].step, j)

AllJustified == \A j \in 1..Len(todo) : Justified(j)

SuccessHasEvidence ==
  stage # "idle" /\ options.persist =>
    /\ \A s \in Steps : session.steps[s] = "success" => EvidenceStored(s)
    /\ AllJustified

EvidenceInv == RecordedSuccessHasArtifact /\ SuccessHasEvidence

LEMMA EvidenceInit == Init => EvidenceInv
  BY DEF Init, EvidenceInv, RecordedSuccessHasArtifact, SuccessHasEvidence, NoSession, NoSteps

LEMMA EvidenceNext == Typed /\ EvidenceInv /\ [Next]_vars => EvidenceInv'
<1> SUFFICES ASSUME Typed, EvidenceInv, [Next]_vars PROVE EvidenceInv'
  OBVIOUS
<1> USE DEF EvidenceInv, durable, volatile
<1>t. /\ session \in Session /\ row \in Session /\ todo \in Seq(Statement)
      /\ artifacts \in Contents /\ options \in RunOption /\ (todo # << >> => stage # "idle")
  BY DEF Typed, TypeOK, InRun
<1>b. ASSUME NEW r, StopRun(r) PROVE EvidenceInv'
  BY <1>b DEF StopRun, RecordedSuccessHasArtifact, SuccessHasEvidence
<1> DEFINE NoNewSuccess ==
      \A s \in Steps : session'.steps[s] = "success" => session.steps[s] = "success"
<1>d. ASSUME stage # "idle", UNCHANGED <<row, artifacts, options>>, NoNewSuccess, AllJustified'
      PROVE  EvidenceInv'
  BY <1>d DEF RecordedSuccessHasArtifact, SuccessHasEvidence, EvidenceStored
<1>m. \A S \in SUBSET Steps, status \in StepStatus, s \in Steps :
        Marked(S, status).steps[s] = "success" /\ status # "success"
        => session.steps[s] = "success"
  BY <1>t DEF Marked, Session
<1>n. \A S \in SUBSET Steps, s \in Steps :
        [session EXCEPT !.steps = Denied(S)].steps[s] = "success" => session.steps[s] = "success"
  BY <1>t DEF Denied, Session
<1> HIDE DEF NoNewSuccess
<1>f. ASSUME todo # << >>, todo' = Tail(todo), UNCHANGED <<stage, options>>,
             stage # "idle", options.persist,
             \A s \in Steps : EvidenceStored(s) => EvidenceStored(s)',
             \A s \in Steps : Head(todo).op = "write" /\ Head(todo).name = EvidenceOf[s]
                             => EvidenceStored(s)'
      PROVE  AllJustified'
  <2> SUFFICES ASSUME NEW j \in 1..Len(todo'),
                      todo'[j].op = "finalize", todo'[j].status = "success"
               PROVE  (EvidenceStored(todo[j].step) \/ EvidenceBefore(todo[j].step, j))'
    BY DEF AllJustified, Justified
  <2>1. j + 1 \in 1..Len(todo) /\ todo'[j] = todo[j + 1]
    BY <1>f, <1>t, TailShifts
  <2>2. todo[j + 1].step \in Steps
    <3>1. todo[j + 1] \in Statement
      BY <1>t, <2>1
    <3>2. QED
      BY <2>1, <3>1 DEF Statement
  <2>3. CASE EvidenceStored(todo[j + 1].step)
    BY <1>f, <2>1, <2>2, <2>3
  <2>4. CASE EvidenceBefore(todo[j + 1].step, j + 1)
    <3>1. PICK i \in 1..j : todo[i].op = "write" /\ todo[i].name = EvidenceOf[todo[j + 1].step]
      BY <2>4, <2>1 DEF EvidenceBefore
    <3>2. CASE i = 1
      BY <1>f, <1>t, <2>1, <2>2, <3>1, <3>2, TailShifts
    <3>3. CASE i # 1
      <4>1. i - 1 \in 1..(j - 1) /\ todo'[i - 1] = todo[i]
        BY <1>f, <1>t, <2>1, <3>3, TailShifts
      <4>2. QED
        BY <2>1, <3>1, <4>1 DEF EvidenceBefore
    <3>4. QED
      BY <3>2, <3>3
  <2>5. QED
    BY <1>f, <2>1, <2>3, <2>4 DEF SuccessHasEvidence, AllJustified, Justified
<1>1. ASSUME NEW o \in StartOptions, Start(o) PROVE EvidenceInv'
  BY <1>1 DEF Start, BeginRun, NoSteps, Sync, RecordedSuccessHasArtifact, SuccessHasEvidence, AllJustified,
               Justified
<1>2. ASSUME NEW o \in ResumeOptions, Resume(o) PROVE EvidenceInv'
  BY <1>2 DEF Resume, BeginRun, RecordedSuccessHasArtifact, SuccessHasEvidence, AllJustified, EvidenceStored
<1>3. CASE WriteArtifact
  <2> DEFINE name == Head(todo).name  value == Head(todo).value
  <2>1. name \in ArtifactNames /\ value # None
    BY <1>3, <1>t, HeadTyped, ProposalsAssumption
    DEF WriteArtifact, Finding, Applied, SessionStatus, None
  <2>2. artifacts' = IF options.persist THEN [artifacts EXCEPT ![name] = value] ELSE artifacts
    BY <1>3 DEF WriteArtifact
  <2>3. UNCHANGED <<row, session, stage, options>> /\ todo # << >> /\ todo' = Tail(todo)
    BY <1>3 DEF WriteArtifact, Executing
  <2> HIDE DEF name, value
  <2>4. \A s \in Steps : EvidenceStored(s) => EvidenceStored(s)'
    BY <1>t, <2>1, <2>2 DEF EvidenceStored, Contents
  <2>5. \A s \in Steps : options.persist /\ name = EvidenceOf[s] => EvidenceStored(s)'
    BY <1>t, <2>1, <2>2 DEF EvidenceStored, Contents
  <2>6. RecordedSuccessHasArtifact'
    BY <2>3, <2>4 DEF RecordedSuccessHasArtifact, EvidenceStored
  <2>7. stage # "idle" /\ options.persist => AllJustified'
    BY <1>f, <2>3, <2>4, <2>5 DEF name
  <2>8. QED
    BY <2>3, <2>4, <2>6, <2>7 DEF SuccessHasEvidence
<1>4. CASE FinalizeStep
  <2>1. /\ UNCHANGED <<row, artifacts, stage, options>> /\ todo # << >> /\ todo' = Tail(todo)
        /\ Head(todo).op = "finalize"
    BY <1>4 DEF FinalizeStep, Executing
  <2>2. stage # "idle" /\ options.persist => AllJustified'
    BY <1>f, <2>1 DEF EvidenceStored
  <2>3. stage # "idle" /\ options.persist /\ Head(todo).status = "success"
        => EvidenceStored(Head(todo).step)
    BY <1>t, <2>1, TailShifts DEF SuccessHasEvidence, AllJustified, Justified, EvidenceBefore
  <2>4. \A s \in Steps : session'.steps[s] = "success"
          => session.steps[s] = "success" \/ (s = Head(todo).step /\ Head(todo).status = "success")
    BY <1>4, <1>t DEF FinalizeStep, Session
  <2>5. QED
    BY <2>1, <2>2, <2>3, <2>4 DEF RecordedSuccessHasArtifact, SuccessHasEvidence, EvidenceStored
<1>5. CASE SyncSession
  <2>1. /\ UNCHANGED <<artifacts, stage, options>> /\ todo # << >> /\ todo' = Tail(todo)
        /\ Head(todo).op = "sync"
    BY <1>5 DEF SyncSession, Executing
  <2>2. stage # "idle" /\ options.persist => AllJustified'
    BY <1>f, <2>1 DEF EvidenceStored
  <2>3. session'.steps = session.steps
    BY <1>5, <1>t DEF SyncSession, Session
  <2>4. QED
    BY <1>5, <1>t, <2>1, <2>2, <2>3
    DEF SyncSession, RecordedSuccessHasArtifact, SuccessHasEvidence, EvidenceStored
<1>6. ASSUME NEW v \in Verdicts, NEW r \in Reports, RunReview(v, r) PROVE EvidenceInv'
  <2>1. AllJustified'
    BY <1>6 DEF RunReview, ReviewPlan, Write, Finalize, SettledAs, Sync, AllJustified, Justified, EvidenceBefore, EvidenceOf,
           Steps
  <2>2. NoNewSuccess
    BY <1>6, <1>m DEF RunReview, NoNewSuccess, Steps, StepStatus
  <2>3. QED
    BY <1>6, <1>d, <2>1, <2>2 DEF RunReview, AtStage, Enter
<1>7. CASE KeepReview
  <2>1. AllJustified'
    BY <1>7 DEF KeepReview, AtStage, AllJustified
  <2>2. NoNewSuccess
    BY <1>7, <1>m DEF KeepReview, NoNewSuccess, Steps, StepStatus, SettledStatus
  <2>3. QED
    BY <1>7, <1>d, <2>1, <2>2 DEF KeepReview, AtStage, Enter
<1>8. ASSUME NEW v \in Verdicts, NEW r \in Reports, RunFix(v, r) PROVE EvidenceInv'
  <2>1. AllJustified'
    BY <1>8 DEF RunFix, FixPlan, Write, Finalize, SettledAs, Sync, AllJustified, Justified, EvidenceBefore, EvidenceOf,
           Steps
  <2>2. NoNewSuccess
    BY <1>8, <1>m DEF RunFix, NoNewSuccess, Steps, StepStatus
  <2>3. QED
    BY <1>8, <1>d, <2>1, <2>2 DEF RunFix, AtStage, Enter
<1>9. CASE DenyAfterReview
  <2>1. AllJustified'
    BY <1>9 DEF DenyAfterReview, Sync, AllJustified, Justified
  <2>2. NoNewSuccess
    BY <1>9, <1>n DEF DenyAfterReview, NoNewSuccess, Steps
  <2>3. QED
    BY <1>9, <1>d, <2>1, <2>2 DEF DenyAfterReview, AtStage, Enter
<1>10. CASE PassFix
  <2>1. AllJustified'
    BY <1>10 DEF PassFix, AtStage, AllJustified
  <2>2. NoNewSuccess
    BY <1>10, <1>m DEF PassFix, NoNewSuccess, Steps, StepStatus, SettledStatus
  <2>3. QED
    BY <1>10, <1>d, <2>1, <2>2 DEF PassFix, AtStage, Enter
<1>11. ASSUME NEW p \in Proposals, NEW k \in {"patch", "placeholder"}, NEW i \in {"ok", "blocked"},
              RunProposal(p, k, i)
       PROVE EvidenceInv'
  <2>1. AllJustified'
    BY <1>11 DEF RunProposal, ProposalPlan, Write, Finalize, SettledAs, Sync, AllJustified, Justified, EvidenceBefore, EvidenceOf,
           Steps
  <2>2. NoNewSuccess
    BY <1>11, <1>m DEF RunProposal, NoNewSuccess, Steps, StepStatus
  <2>3. QED
    BY <1>11, <1>d, <2>1, <2>2 DEF RunProposal, AtStage, Enter
<1>12. CASE DenyAfterFix
  <2>1. AllJustified'
    BY <1>12 DEF DenyAfterFix, Sync, AllJustified, Justified
  <2>2. NoNewSuccess
    BY <1>12, <1>n DEF DenyAfterFix, NoNewSuccess, Steps
  <2>3. QED
    BY <1>12, <1>d, <2>1, <2>2 DEF DenyAfterFix, AtStage, Enter
<1>13. CASE PassProposal
  <2>1. AllJustified'
    BY <1>13 DEF PassProposal, AtStage, AllJustified
  <2>2. NoNewSuccess
    BY <1>13, <1>m DEF PassProposal, NoNewSuccess, Steps, StepStatus, SettledStatus
  <2>3. QED
    BY <1>13, <1>d, <2>1, <2>2 DEF PassProposal, AtStage, Enter
<1>14. ASSUME NEW r \in Applied \cup {"denied", "dry-run"}, NEW w \in BOOLEAN, RunApply(r, w) PROVE EvidenceInv'
  <2>1. AllJustified'
    BY <1>14 DEF RunApply, ApplyPlan, Write, Finalize, SettledAs, Sync, AllJustified, Justified, EvidenceBefore, EvidenceOf,
           Steps
  <2>2. NoNewSuccess
    BY <1>14, <1>m DEF RunApply, NoNewSuccess, Steps, StepStatus
  <2>3. QED
    BY <1>14, <1>d, <2>1, <2>2 DEF RunApply, AtStage, Enter
<1>15. CASE ApplyWithoutProposal \/ ProposeFromSummary
  BY <1>15, <1>b DEF ApplyWithoutProposal, ProposeFromSummary
<1>16. CASE PassApply
  <2>1. AllJustified'
    BY <1>16 DEF PassApply, AtStage, AllJustified
  <2>2. NoNewSuccess
    BY <1>16, <1>m DEF PassApply, NoNewSuccess, Steps, StepStatus, SettledStatus
  <2>3. QED
    BY <1>16, <1>d, <2>1, <2>2 DEF PassApply, AtStage, Enter
<1>17. CASE FinalizeTaskWorkflowOutput
  <2>1. AllJustified'
    BY <1>17 DEF FinalizeTaskWorkflowOutput, FinalizePlan, Write, Finalize, SettledAs, Sync, AllJustified, Justified, EvidenceBefore, EvidenceOf,
           Steps
  <2>2. NoNewSuccess
    BY <1>17, <1>m DEF FinalizeTaskWorkflowOutput, NoNewSuccess, Steps, StepStatus
  <2>3. QED
    BY <1>17, <1>d, <2>1, <2>2 DEF FinalizeTaskWorkflowOutput, AtStage, Enter
<1>18. CASE EndRun
  BY <1>18, <1>b DEF EndRun
<1>19. CASE Die
  BY <1>19, <1>b DEF Die
<1>20. CASE UNCHANGED vars
  BY <1>20 DEF vars, RecordedSuccessHasArtifact, SuccessHasEvidence, AllJustified, Justified,
                    EvidenceStored, EvidenceBefore
<1>21. QED
  BY <1>1, <1>2, <1>3, <1>4, <1>5, <1>6, <1>7, <1>8, <1>9, <1>10, <1>11, <1>12, <1>13, <1>14,
     <1>15, <1>16, <1>17, <1>18, <1>19, <1>20 DEF Next, Caller, Workflow

\* Wherever a run dies, a step stored as successful has its artifact stored.
THEOREM StoredSuccessHasArtifact == Spec => []RecordedSuccessHasArtifact
<1>1. Spec => []EvidenceInv
  BY EvidenceInit, EvidenceNext, AlwaysTyped, PTL DEF Spec
<1>2. EvidenceInv => RecordedSuccessHasArtifact
  BY DEF EvidenceInv
<1>3. QED
  BY <1>1, <1>2, PTL

-----------------------------------------------------------------------------
(* Only issued proposals are held, stored or about to be stored.           *)

Issued(p) == p = None \/ issued[p] # None

AllWritesIssued ==
  \A j \in 1..Len(todo) :
    todo[j].op = "write" /\ todo[j].name = "patch-proposal" => Issued(todo[j].value)

ProposalsIssued ==
  /\ Issued(state["patch-proposal"]) /\ Issued(artifacts["patch-proposal"])
  /\ AllWritesIssued

LEMMA IssuedInit == Init => ProposalsIssued
  BY DEF Init, ProposalsIssued, Issued, NoArtifacts, ArtifactNames,
         AllWritesIssued

\* When git applies a proposal, that proposal is a patch.
LEMMA AppliedIsPatch ==
  ASSUME Typed, ProposalsIssued, NEW r, NEW w \in BOOLEAN, RunApply(r, w), w
  PROVE  /\ state["patch-proposal"] \in Proposals
         /\ issued[state["patch-proposal"]] = "patch"
         /\ options.apply /\ options.allowWrite /\ options.confirm
<1> DEFINE p == state["patch-proposal"]
<1>1. p \in Proposals /\ issued[p] \in {"patch", "placeholder"}
  BY DEF RunApply, ProposalsIssued, Issued, Typed, TypeOK, Contents, None
<1>2. "applied" \in ApplyResults(p) /\ "applied" \notin {"denied", "dry-run"}
  BY DEF RunApply, Applied
<1>3. QED
  BY <1>1, <1>2 DEF RunApply, MayApply, ApplyResults

LEMMA IssuedNext == Typed /\ ProposalsIssued /\ [Next]_vars => ProposalsIssued'
<1> SUFFICES ASSUME Typed, ProposalsIssued, [Next]_vars PROVE ProposalsIssued'
  OBVIOUS
<1> USE DEF durable, volatile
<1>t. /\ todo \in Seq(Statement) /\ state \in Contents /\ artifacts \in Contents
      /\ worktree \subseteq Proposals /\ issued \in [Proposals -> {None, "patch", "placeholder"}]
      /\ Issued(state["patch-proposal"]) /\ Issued(artifacts["patch-proposal"])
      /\ AllWritesIssued
  BY DEF Typed, TypeOK, ProposalsIssued
<1>a. ASSUME UNCHANGED <<worktree, issued>>, AllWritesIssued',
             Issued(state'["patch-proposal"]), Issued(artifacts'["patch-proposal"])
      PROVE  ProposalsIssued'
  BY <1>a, <1>t DEF ProposalsIssued, Issued
<1>b. ASSUME NEW r, StopRun(r) PROVE ProposalsIssued'
  BY <1>b, <1>t, <1>a DEF StopRun, NoArtifacts, Issued, AllWritesIssued, ArtifactNames
<1>f. ASSUME todo # << >>, todo' = Tail(todo), issued' = issued PROVE AllWritesIssued'
  BY <1>f, <1>t, TailShifts DEF AllWritesIssued, Issued
<1>1. ASSUME NEW o \in StartOptions, Start(o) PROVE ProposalsIssued'
  BY <1>1, <1>t, <1>a DEF Start, BeginRun, NoArtifacts, ArtifactNames, Issued, Sync, AllWritesIssued
<1>2. ASSUME NEW o \in ResumeOptions, Resume(o) PROVE ProposalsIssued'
  BY <1>2, <1>t, <1>a DEF Resume, BeginRun, Issued, AllWritesIssued
<1>3. CASE WriteArtifact
  <2> DEFINE name == Head(todo).name  value == Head(todo).value
  <2>1. name \in ArtifactNames /\ (name = "patch-proposal" => Issued(value))
    BY <1>3, <1>t, HeadTyped, TailShifts DEF WriteArtifact, Executing, AllWritesIssued
  <2>2. artifacts' = IF options.persist THEN [artifacts EXCEPT ![name] = value] ELSE artifacts
    BY <1>3 DEF WriteArtifact
  <2> HIDE DEF name, value
  <2>3. Issued(artifacts'["patch-proposal"])
    BY <1>t, <2>1, <2>2 DEF Contents
  <2>4. QED
    BY <1>3, <1>t, <1>a, <1>f, <2>3 DEF WriteArtifact, Executing
<1>4. CASE FinalizeStep
  BY <1>4, <1>t, <1>a, <1>f DEF FinalizeStep, Executing
<1>5. CASE SyncSession
  BY <1>5, <1>t, <1>a, <1>f DEF SyncSession, Executing
<1>6. ASSUME NEW v \in Verdicts, NEW r \in Reports, RunReview(v, r) PROVE ProposalsIssued'
  <2>1. AllWritesIssued'
    BY <1>6 DEF RunReview, ReviewPlan, Write, Finalize, SettledAs, Sync, AllWritesIssued
  <2>2. Issued(state'["patch-proposal"])
    BY <1>6, <1>t DEF RunReview, Contents, ArtifactNames
  <2>3. QED
    BY <1>6, <1>t, <1>a, <2>1, <2>2 DEF RunReview, Enter
<1>7. CASE KeepReview
  BY <1>7, <1>t, <1>a DEF KeepReview, Enter, Issued, AllWritesIssued
<1>8. ASSUME NEW v \in Verdicts, NEW r \in Reports, RunFix(v, r) PROVE ProposalsIssued'
  <2>1. AllWritesIssued'
    BY <1>8 DEF RunFix, FixPlan, Write, Finalize, SettledAs, Sync, AllWritesIssued
  <2>2. Issued(state'["patch-proposal"])
    BY <1>8, <1>t DEF RunFix, Contents, ArtifactNames
  <2>3. QED
    BY <1>8, <1>t, <1>a, <2>1, <2>2 DEF RunFix, Enter
<1>9. CASE DenyAfterReview
  BY <1>9, <1>t, <1>a DEF DenyAfterReview, Enter, Sync, AllWritesIssued
<1>10. CASE PassFix
  BY <1>10, <1>t, <1>a DEF PassFix, Enter, Issued, AllWritesIssued
<1>11. ASSUME NEW p \in Proposals, NEW k \in {"patch", "placeholder"}, NEW i \in {"ok", "blocked"},
              RunProposal(p, k, i)
       PROVE ProposalsIssued'
  <2>1. issued' = [issued EXCEPT ![p] = k] /\ issued[p] = None /\ todo = << >>
    BY <1>11 DEF RunProposal, AtStage
  <2>2. \A q : Issued(q) /\ q \in Proposals \cup {None} => Issued(q)'
    BY <1>t, <2>1 DEF Issued, None
  <2>3. Issued(p)'
    BY <1>t, <2>1 DEF Issued, None
  <2>4. Issued(state["patch-proposal"])' /\ Issued(artifacts["patch-proposal"])'
    BY <1>11, <1>t, <2>2, <2>3 DEF RunProposal, Enter, Issued, Contents, ArtifactNames
  <2>5. AllWritesIssued'
    BY <1>11, <2>3 DEF RunProposal, ProposalPlan, Write, Finalize, SettledAs, Sync, Issued,
                       AllWritesIssued
  <2>6. QED
    BY <2>4, <2>5 DEF ProposalsIssued
<1>12. CASE DenyAfterFix
  BY <1>12, <1>t, <1>a DEF DenyAfterFix, Enter, Sync, AllWritesIssued
<1>13. CASE PassProposal
  BY <1>13, <1>t, <1>a DEF PassProposal, Enter, Issued, AllWritesIssued
<1>14. ASSUME NEW r \in Applied \cup {"denied", "dry-run"}, NEW w \in BOOLEAN, RunApply(r, w) PROVE ProposalsIssued'
  <2>1. AllWritesIssued'
    BY <1>14 DEF RunApply, ApplyPlan, Write, Finalize, Sync, AllWritesIssued
  <2>2. Issued(state["patch-proposal"])' /\ Issued(artifacts["patch-proposal"])'
    BY <1>14, <1>t DEF RunApply, Enter, Issued, Contents, ArtifactNames
  <2>3. QED
    BY <2>1, <2>2 DEF ProposalsIssued
<1>15. CASE ApplyWithoutProposal \/ ProposeFromSummary
  BY <1>15, <1>b DEF ApplyWithoutProposal, ProposeFromSummary
<1>16. CASE PassApply
  BY <1>16, <1>t, <1>a DEF PassApply, Enter, Issued, AllWritesIssued
<1>17. CASE FinalizeTaskWorkflowOutput
  BY <1>17, <1>t, <1>a DEF FinalizeTaskWorkflowOutput, FinalizePlan, Enter, Write, Sync,
                           AllWritesIssued
<1>18. CASE EndRun
  BY <1>18, <1>b DEF EndRun
<1>19. CASE Die
  BY <1>19, <1>b DEF Die
<1>20. CASE UNCHANGED vars
  BY <1>20, <1>t, <1>a DEF vars, Issued, AllWritesIssued
<1>21. QED
  BY <1>1, <1>2, <1>3, <1>4, <1>5, <1>6, <1>7, <1>8, <1>9, <1>10, <1>11, <1>12, <1>13, <1>14,
     <1>15, <1>16, <1>17, <1>18, <1>19, <1>20 DEF Next, Caller, Workflow

-----------------------------------------------------------------------------
(* Refinement: what the runs do to the repository is what PatchGate allows. *)

\* The state functions that PatchGate sees.
Genuine  == {p \in Proposals : issued[p] = "patch"}
Consent  == options.apply /\ options.allowWrite /\ options.confirm
Approved == ReviewAccepted /\ ~FixRejected

LEMMA MapsInit == Init => Gate!Init
  BY DEF Init, Gate!Init, NoOptions, NoArtifacts, ArtifactNames, ReviewAccepted, FixRejected, None

\* In terms of the mapping, a step is a stutter, or a step of PatchGate.
LEMMA MapsStep == Typed /\ ProposalsIssued /\ [Next]_vars => [Gate!Next]_(Gate!vars)
<1> SUFFICES ASSUME Typed, ProposalsIssued, [Next]_vars PROVE [Gate!Next]_(Gate!vars)
  OBVIOUS
<1> USE DEF durable, volatile
<1>t. /\ state \in Contents /\ artifacts \in Contents /\ worktree \subseteq Proposals
      /\ issued \in [Proposals -> {None, "patch", "placeholder"}] /\ options \in RunOption
      /\ Typed'
  BY TypedNext DEF Typed, TypeOK
<1>s. ASSUME UNCHANGED <<worktree, issued, options, state>>, (stage' # "idle") = (stage # "idle"),
             (stage' \in {"finalize", "ended"}) = (stage \in {"finalize", "ended"})
      PROVE  UNCHANGED Gate!vars
  BY <1>s DEF Gate!vars, Gate!run, ReviewAccepted, FixRejected
<1>b. ASSUME stage # "idle", NEW r, StopRun(r) PROVE Gate!Close
  BY <1>b DEF StopRun, Gate!Close, NoOptions, NoArtifacts, ArtifactNames, ReviewAccepted,
              FixRejected, None
<1>o. ASSUME NEW opts, BeginRun(opts) PROVE Gate!Open
  BY <1>o, <1>t DEF BeginRun, Gate!Open, Typed, TypeOK, Contents, ReviewAccepted, FixRejected
<1>1. ASSUME NEW o \in StartOptions, Start(o) PROVE Gate!Open
  BY <1>1, <1>o DEF Start
<1>2. ASSUME NEW o \in ResumeOptions, Resume(o) PROVE Gate!Open
  BY <1>2, <1>o DEF Resume
<1>3. CASE WriteArtifact \/ FinalizeStep \/ SyncSession
  BY <1>3, <1>s DEF WriteArtifact, FinalizeStep, SyncSession
<1>4. ASSUME NEW v \in Verdicts, NEW r \in Reports, RunReview(v, r) \/ RunFix(v, r) PROVE Gate!Judge
  BY <1>4, <1>t DEF RunReview, RunFix, AtStage, Enter, Gate!Judge, ReviewAccepted, FixRejected,
                    Contents, ArtifactNames
<1>5. CASE KeepReview \/ DenyAfterReview \/ PassFix \/ DenyAfterFix \/ PassProposal
           \/ FinalizeTaskWorkflowOutput
  BY <1>5, <1>s DEF KeepReview, DenyAfterReview, PassFix, DenyAfterFix, PassProposal,
                    FinalizeTaskWorkflowOutput, AtStage, Enter
<1>6. ASSUME NEW p \in Proposals, NEW k \in {"patch", "placeholder"}, NEW i \in {"ok", "blocked"},
             RunProposal(p, k, i)
      PROVE  Gate!Propose(p)
  <2>1. issued[p] = None /\ issued' = [issued EXCEPT ![p] = k]
    BY <1>6 DEF RunProposal
  <2>2. p \notin Genuine /\ Genuine' \in {Genuine, Genuine \cup {p}}
    BY <1>t, <2>1 DEF Genuine, None
  <2>3. state'["patch-proposal"] = p /\ UNCHANGED <<worktree, options, Approved>> /\ Approved
    BY <1>6, <1>t DEF RunProposal, MayPropose, Enter, Approved, ReviewAccepted, FixRejected,
                      Contents, ArtifactNames
  <2>4. stage = "proposal" /\ stage' = "apply"
    BY <1>6 DEF RunProposal, AtStage, Enter
  <2>5. QED
    BY <2>2, <2>3, <2>4 DEF Gate!Propose, Genuine, Approved
<1>7. ASSUME NEW r \in Applied \cup {"denied", "dry-run"}, NEW w \in BOOLEAN, RunApply(r, w)
      PROVE  Gate!Apply \/ Gate!Decline
  <2>1. stage = "apply" /\ stage' = "finalize" /\ UNCHANGED <<issued, options, Approved>> /\ Approved
    BY <1>7, <1>t DEF RunApply, MayApply, AtStage, Enter, Approved, ReviewAccepted, FixRejected,
                      Contents, ArtifactNames
  <2>2. state'["patch-proposal"] = state["patch-proposal"]
    BY <1>7, <1>t DEF RunApply, Contents, ArtifactNames
  <2>3. CASE w
    <3>1. worktree' = worktree \cup {state["patch-proposal"]}
      BY <1>7, <2>3 DEF RunApply
    <3>2. Consent /\ state["patch-proposal"] \in Genuine
      BY <1>7, <2>3, AppliedIsPatch DEF Consent, Genuine
    <3>3. Gate!Apply
      BY <2>1, <2>2, <3>1, <3>2 DEF Gate!Apply, Consent, Approved, Genuine
    <3>4. QED
      BY <3>3
  <2>4. CASE ~w
    <3>1. worktree' = worktree
      BY <1>7, <2>4 DEF RunApply
    <3>2. Gate!Decline
      BY <2>1, <2>2, <3>1 DEF Gate!Decline, Approved
    <3>3. QED
      BY <3>2
  <2>5. QED
    BY <2>3, <2>4
<1>8. CASE PassApply
  <2>1. Gate!Decline
    BY <1>8 DEF PassApply, AtStage, Enter, Gate!Decline, ReviewAccepted, FixRejected
  <2>2. QED
    BY <2>1 DEF Gate!Next
<1>9. ApplyWithoutProposal \/ ProposeFromSummary \/ EndRun \/ Die => Gate!Close
  BY <1>b DEF ApplyWithoutProposal, ProposeFromSummary, EndRun, Die, AtStage
<1>10. CASE UNCHANGED vars
  BY <1>10, <1>s DEF vars
<1>11. QED
  BY <1>1, <1>2, <1>3, <1>4, <1>5, <1>6, <1>7, <1>8, <1>9, <1>10, <1>s
  DEF Next, Caller, Workflow, Gate!Next

\* Whatever the runs of a task store, lose or resume, they change the
\* repository only as PatchGate allows.
THEOREM RunsImplementPatchGate == Spec => ImplementsPatchGate
<1>1. Spec => [](Typed /\ ProposalsIssued)
  BY IssuedInit, IssuedNext, AlwaysTyped, PTL DEF Spec
<1>2. QED
  BY <1>1, MapsInit, MapsStep, PTL DEF Spec, ImplementsPatchGate, Gate!Spec
=============================================================================

---------------------- MODULE TaskSessionResultsProofs ----------------------
(***************************************************************************)
(* What holds of the results of a task session, in memory and in the       *)
(* store, for any proposals, any options and any number of runs.           *)
(*                                                                         *)
(* Every step of the specification is one of five kinds: a run begins, a   *)
(* statement is executed, a stage decides, a run stops, nothing happens.   *)
(* What the stages have in common (StageStep) is proved once, action by    *)
(* action; the invariants then need one case for each kind of step.        *)
(***************************************************************************)
EXTENDS TaskSessionProofs

-----------------------------------------------------------------------------
(* The invariants.  A run goes on from what it holds in memory, so the     *)
(* store is compared with that; what a dead run left there is taken over   *)
(* by the next one before it decides anything.                             *)

\* What a resume goes on from; the context is stored as a summary, and the
\* report is rendered anew.
Results == ArtifactNames \ {"repository-context", "report"}

Writes(a, j) == todo[j].op = "write" /\ todo[j].name = a

\* A result in memory is stored, or about to be.
Kept(a) ==
  /\ \A j \in 1..Len(todo) : Writes(a, j) => todo[j].value = state[a]
  /\ artifacts[a] = state[a] \/ \E j \in 1..Len(todo) : Writes(a, j)

Persisting == stage # "idle" /\ options.persist

InStep == Persisting => \A a \in Results : Kept(a)

\* Before the row is there, nothing is.
Fresh ==
  row.status = None =>
    /\ artifacts = NoArtifacts
    /\ Persisting => stage = "review" /\ todo = << Sync("created") >>

\* A review is a verdict, and there is one behind the review stage.
Reviewed ==
  /\ {artifacts["review-result"], state["review-result"]} \subseteq Verdicts \cup {None}
  /\ \A j \in 1..Len(todo) : Writes("review-result", j) => todo[j].value \in Verdicts
  /\ stage \notin {"idle", "review"} => state["review-result"] # None

\* The last statement of a run stores its final status.
Closing ==
  Persisting /\ stage = "ended" =>
    IF todo = << >> THEN row.status = ResolveFinalStatus
    ELSE todo[Len(todo)] = Sync(ResolveFinalStatus)

Earned ==
  /\ artifacts["review-result"] = "accepted"
  /\ artifacts["fix-result"] # "rejected"
  /\ artifacts["patch-inspection"] # "blocked"
  /\ artifacts["validation-report"] # "failed"

Over ==
  outcome = "ended" =>
    /\ ~Persisting /\ row.status \in {"completed", "needs-review"}
    /\ row.status = "completed" => Earned

ResultsInv == InStep /\ Fresh /\ Reviewed /\ Closing /\ Over

\* Nothing says of an untouched worktree that a patch was applied to it.
Unapplied ==
  worktree = {} =>
    /\ row.steps["patch-applied"] # "success" /\ session.steps["patch-applied"] # "success"
    /\ artifacts["patch-apply-result"] \notin Applied /\ state["patch-apply-result"] \notin Applied
    /\ \A j \in 1..Len(todo) :
         /\ Writes("patch-apply-result", j) => todo[j].value \notin Applied
         /\ todo[j].op = "finalize" /\ todo[j].step = "patch-applied" => todo[j].status # "success"

-----------------------------------------------------------------------------
(* The kinds of steps.                                                     *)

\* The writes a stage leaves behind are of the results it holds then, and a
\* result that it changes is written.
Backed(a) ==
  /\ \A j \in 1..Len(todo') : Writes(a, j)' => todo'[j].value = state'[a]
  /\ state'[a] = state[a] \/ \E j \in 1..Len(todo') : Writes(a, j)'

\* A stage that leaves the worktree untouched claims no application of a patch.
ClaimsNothing ==
  worktree' = {} =>
    /\ worktree = {}
    /\ session'.steps["patch-applied"] = "success" => session.steps["patch-applied"] = "success"
    /\ state'["patch-apply-result"] \in Applied => state["patch-apply-result"] \in Applied
    /\ \A j \in 1..Len(todo') :
         /\ Writes("patch-apply-result", j)' => todo'[j].value \notin Applied
         /\ todo'[j].op = "finalize" /\ todo'[j].step = "patch-applied" => todo'[j].status # "success"

StageStep ==
  /\ todo = << >>
  /\ stage # "idle" /\ stage' \notin {"idle", "review"}
  /\ UNCHANGED <<row, artifacts, options, runs, outcome>>
  /\ \A a \in Results : Backed(a)
  /\ state'["review-result"] \in Verdicts
  /\ stage' = "ended" => todo' # << >> /\ todo'[Len(todo')] = Sync(ResolveFinalStatus')
  /\ ClaimsNothing

BeginStep ==
  \/ \E o \in StartOptions : Start(o)
  \/ \E o \in ResumeOptions : Resume(o)

StatementStep == WriteArtifact \/ FinalizeStep \/ SyncSession

StopStep ==
  \/ EndRun
  \/ stage # "idle" /\ StopRun("died")

\* The rest of the statements, after the first.
LEMMA StatementsShift ==
  ASSUME todo \in Seq(Statement), todo # << >>, todo' = Tail(todo)
  PROVE  /\ Len(todo) \in Nat /\ Len(todo) >= 1 /\ Len(todo') = Len(todo) - 1
         /\ \A j \in 1..Len(todo') : j + 1 \in 1..Len(todo) /\ todo'[j] = todo[j + 1]
         /\ \A k \in 1..Len(todo) :
              k = 1 \/ (k - 1 \in 1..Len(todo') /\ todo'[k - 1] = todo[k])
         /\ Head(todo) = todo[1]
  OBVIOUS

LEMMA StagesAreStageSteps ==
  ASSUME Typed, Reviewed
  PROVE  /\ \A v \in Verdicts, r \in Reports : RunReview(v, r) => StageStep
         /\ KeepReview => StageStep
         /\ \A v \in Verdicts, r \in Reports : RunFix(v, r) => StageStep
         /\ DenyAfterReview \/ PassFix => StageStep
         /\ \A p \in Proposals, k \in {"patch", "placeholder"}, i \in {"ok", "blocked"} :
              RunProposal(p, k, i) => StageStep
         /\ DenyAfterFix \/ PassProposal => StageStep
         /\ \A r \in Applied \cup {"denied", "dry-run"}, w \in BOOLEAN : RunApply(r, w) => StageStep
         /\ PassApply => StageStep
         /\ FinalizeTaskWorkflowOutput => StageStep
<1>t. /\ state \in Contents /\ session \in Session /\ worktree \subseteq Proposals
  BY DEF Typed, TypeOK
<1>v. /\ stage \notin {"idle", "review"} => state["review-result"] \in Verdicts
      /\ state["review-result"] # None => state["review-result"] \in Verdicts
  BY DEF Reviewed
<1>q. ASSUME todo = << >>, stage # "idle", NEW next \in {"fix", "proposal", "apply", "finalize"},
             Enter(next), state' = state, worktree' = worktree,
             todo' = << >> \/ todo' = << Sync("needs-review") >>,
             state["review-result"] \in Verdicts,
             session'.steps["patch-applied"] # "success"
               \/ session'.steps["patch-applied"] = session.steps["patch-applied"]
      PROVE  StageStep
  <2>1. \A a \in Results : Backed(a)
    BY <1>q DEF Backed, Writes, Sync
  <2>2. ClaimsNothing
    BY <1>q DEF ClaimsNothing, Writes, Sync
  <2>3. QED
    BY <1>q, <2>1, <2>2 DEF StageStep, Enter
<1>m. ASSUME NEW S \in SUBSET Steps, NEW status \in StepStatus \ {"success"},
             session' = Marked(S, status)
      PROVE  session'.steps["patch-applied"] # "success"
               \/ session'.steps["patch-applied"] = session.steps["patch-applied"]
  BY <1>m, <1>t DEF Marked, Session, Steps
<1>d. ASSUME NEW S \in SUBSET Steps, session' = [session EXCEPT !.steps = Denied(S)]
      PROVE  session'.steps["patch-applied"] # "success"
               \/ session'.steps["patch-applied"] = session.steps["patch-applied"]
  BY <1>d, <1>t DEF Denied, Session, Steps
<1>1. ASSUME NEW v \in Verdicts, NEW r \in Reports, RunReview(v, r) PROVE StageStep
  <2>a. /\ todo = << >> /\ stage = "review" /\ Enter("fix") /\ worktree' = worktree
        /\ session' = Marked({"reviewed"}, "running")
    BY <1>1 DEF RunReview, AtStage
  <2>b. /\ state'["review-result"] = v /\ state'["validation-report"] = r
        /\ \A a \in Results \ {"review-result", "validation-report"} : state'[a] = state[a]
    BY <1>1, <1>t DEF RunReview, Contents, Results, ArtifactNames
  <2>c. /\ Len(todo') = 7
        /\ todo'[1] = Write("repository-context", "recorded") /\ todo'[2] = Write("review-result", v)
        /\ todo'[3].op = "finalize" /\ todo'[3].step = "reviewed" /\ todo'[4].op = "sync"
        /\ todo'[5] = Write("validation-report", r)
        /\ todo'[6].op = "finalize" /\ todo'[6].step = "validated" /\ todo'[7].op = "sync"
    BY <1>1 DEF RunReview, ReviewPlan, Finalize, SettledAs, Sync
  <2>1. \A a \in Results : Backed(a)
    BY <2>b, <2>c DEF Backed, Writes, Write, Results
  <2>2. session'.steps["patch-applied"] # "success"
          \/ session'.steps["patch-applied"] = session.steps["patch-applied"]
    BY <2>a, <1>m DEF Steps, StepStatus
  <2>3. ClaimsNothing
    BY <2>2, <2>a, <2>b, <2>c DEF ClaimsNothing, Writes, Write, Results, ArtifactNames
  <2>4. QED
    BY <2>1, <2>3, <2>a, <2>b DEF StageStep, Enter
<1>2. CASE KeepReview
  <2>1. state["review-result"] \in Verdicts
    BY <1>2, <1>v DEF KeepReview, ShouldExecuteTaskStep
  <2>2. QED
    BY <1>2, <1>q, <2>1 DEF KeepReview, AtStage
<1>3. ASSUME NEW v \in Verdicts, NEW r \in Reports, RunFix(v, r) PROVE StageStep
  <2>a. /\ todo = << >> /\ stage = "fix" /\ Enter("proposal") /\ worktree' = worktree
        /\ session' = Marked({"fix-planned"}, "running")
    BY <1>3 DEF RunFix, AtStage
  <2>b. /\ state'["fix-result"] = v /\ state'["validation-report"] = r
        /\ \A a \in Results \ {"fix-result", "validation-report"} : state'[a] = state[a]
    BY <1>3, <1>t DEF RunFix, Contents, Results, ArtifactNames
  <2>c. /\ Len(todo') = 5
        /\ todo'[1] = Write("repository-context", "recorded") /\ todo'[2] = Write("validation-report", r)
        /\ todo'[3] = Write("fix-result", v)
        /\ todo'[4].op = "finalize" /\ todo'[4].step = "fix-planned" /\ todo'[5].op = "sync"
    BY <1>3 DEF RunFix, FixPlan, Finalize, SettledAs, Sync
  <2>1. \A a \in Results : Backed(a)
    BY <2>b, <2>c DEF Backed, Writes, Write, Results
  <2>2. session'.steps["patch-applied"] # "success"
          \/ session'.steps["patch-applied"] = session.steps["patch-applied"]
    BY <2>a, <1>m DEF Steps, StepStatus
  <2>3. ClaimsNothing
    BY <2>2, <2>a, <2>b, <2>c DEF ClaimsNothing, Writes, Write, Results, ArtifactNames
  <2>4. QED
    BY <2>1, <2>3, <2>a, <2>b, <1>v DEF StageStep, Enter, Results, ArtifactNames
<1>4. CASE DenyAfterReview
  <2>1. session'.steps["patch-applied"] # "success"
          \/ session'.steps["patch-applied"] = session.steps["patch-applied"]
    BY <1>4, <1>d DEF DenyAfterReview, Steps
  <2>2. QED
    BY <1>4, <1>q, <1>v, <2>1 DEF DenyAfterReview, AtStage
<1>5. CASE PassFix
  <2>1. session'.steps["patch-applied"] # "success"
          \/ session'.steps["patch-applied"] = session.steps["patch-applied"]
    BY <1>5, <1>m DEF PassFix, Steps, StepStatus, SettledStatus
  <2>2. QED
    BY <1>5, <1>q, <1>v, <2>1 DEF PassFix, AtStage
<1>6. ASSUME NEW p \in Proposals, NEW k \in {"patch", "placeholder"}, NEW i \in {"ok", "blocked"},
             RunProposal(p, k, i)
      PROVE  StageStep
  <2>a. /\ todo = << >> /\ stage = "proposal" /\ Enter("apply") /\ worktree' = worktree
        /\ session' = Marked({"patch-proposed", "patch-inspected"}, "running")
    BY <1>6 DEF RunProposal, AtStage
  <2>b. /\ state'["patch-proposal"] = p /\ state'["patch-inspection"] = i
        /\ \A a \in Results \ {"patch-proposal", "patch-inspection"} : state'[a] = state[a]
    BY <1>6, <1>t DEF RunProposal, Contents, Results, ArtifactNames
  <2>c. /\ Len(todo') = 5
        /\ todo'[1] = Write("patch-proposal", p) /\ todo'[2] = Write("patch-inspection", i)
        /\ todo'[3].op = "finalize" /\ todo'[3].step = "patch-proposed"
        /\ todo'[4].op = "finalize" /\ todo'[4].step = "patch-inspected" /\ todo'[5].op = "sync"
    BY <1>6 DEF RunProposal, ProposalPlan, Finalize, SettledAs, Sync
  <2>1. \A a \in Results : Backed(a)
    BY <2>b, <2>c DEF Backed, Writes, Write, Results
  <2>2. session'.steps["patch-applied"] # "success"
          \/ session'.steps["patch-applied"] = session.steps["patch-applied"]
    BY <2>a, <1>m DEF Steps, StepStatus
  <2>3. ClaimsNothing
    BY <2>2, <2>a, <2>b, <2>c DEF ClaimsNothing, Writes, Write, Results, ArtifactNames
  <2>4. QED
    BY <2>1, <2>3, <2>a, <2>b, <1>v DEF StageStep, Enter, Results, ArtifactNames
<1>7. CASE DenyAfterFix
  <2>1. session'.steps["patch-applied"] # "success"
          \/ session'.steps["patch-applied"] = session.steps["patch-applied"]
    BY <1>7, <1>d DEF DenyAfterFix, Steps
  <2>2. QED
    BY <1>7, <1>q, <1>v, <2>1 DEF DenyAfterFix, AtStage
<1>8. CASE PassProposal
  <2>1. session'.steps["patch-applied"] # "success"
          \/ session'.steps["patch-applied"] = session.steps["patch-applied"]
    BY <1>8, <1>m DEF PassProposal, Steps, StepStatus, SettledStatus
  <2>2. QED
    BY <1>8, <1>q, <1>v, <2>1 DEF PassProposal, AtStage
<1>9. ASSUME NEW r \in Applied \cup {"denied", "dry-run"}, NEW w \in BOOLEAN, RunApply(r, w) PROVE StageStep
  <2>a. /\ todo = << >> /\ stage = "apply" /\ Enter("finalize")
        /\ session' = Marked({"patch-applied"}, "running")
        /\ worktree' = IF w THEN worktree \cup {state["patch-proposal"]} ELSE worktree
        /\ r \in Applied => w
    BY <1>9 DEF RunApply, AtStage
  <2>b. /\ state'["patch-apply-result"] = r
        /\ \A a \in Results \ {"patch-apply-result"} : state'[a] = state[a]
    BY <1>9, <1>t DEF RunApply, Contents, Results, ArtifactNames
  <2>c. /\ Len(todo') = 3
        /\ todo'[1] = Write("patch-apply-result", r)
        /\ todo'[2].op = "finalize" /\ (r \notin Applied => todo'[2].status # "success")
        /\ todo'[3].op = "sync"
    BY <1>9 DEF RunApply, ApplyPlan, Finalize, Sync
  <2>1. \A a \in Results : Backed(a)
    BY <2>b, <2>c DEF Backed, Writes, Write, Results
  <2>2. session'.steps["patch-applied"] # "success"
          \/ session'.steps["patch-applied"] = session.steps["patch-applied"]
    BY <2>a, <1>m DEF Steps, StepStatus
  <2>d. ASSUME w PROVE ClaimsNothing
    <3>1. worktree' # {}
      BY <2>a, <2>d
    <3>2. QED
      BY <3>1 DEF ClaimsNothing
  <2>e. ASSUME ~w PROVE ClaimsNothing
    <3>1. worktree' = worktree /\ r \notin Applied /\ state'["patch-apply-result"] \notin Applied
      BY <2>a, <2>b, <2>e
    <3>2. \A j \in 1..Len(todo') :
            /\ Writes("patch-apply-result", j)' => todo'[j].value = r
            /\ todo'[j].op = "finalize" => todo'[j].status # "success"
      BY <2>c, <3>1 DEF Writes, Write
    <3>3. QED
      BY <2>2, <2>e, <3>1, <3>2 DEF ClaimsNothing
  <2>3. ClaimsNothing
    BY <2>d, <2>e
  <2>4. QED
    BY <2>1, <2>3, <2>a, <2>b, <1>v DEF StageStep, Enter, Results, ArtifactNames
<1>10. CASE PassApply
  <2>1. session'.steps["patch-applied"] # "success"
          \/ session'.steps["patch-applied"] = session.steps["patch-applied"]
    BY <1>10, <1>m DEF PassApply, Steps, StepStatus, SettledStatus
  <2>2. QED
    BY <1>10, <1>q, <1>v, <2>1 DEF PassApply, AtStage
<1>11. CASE FinalizeTaskWorkflowOutput
  <2>a. /\ todo = << >> /\ stage = "finalize" /\ Enter("ended") /\ UNCHANGED <<session, state, worktree>>
        /\ todo' = FinalizePlan
    BY <1>11 DEF FinalizeTaskWorkflowOutput, AtStage
  <2>b. /\ Len(todo') = 5
        /\ todo'[1].name = "report" /\ todo'[2].op = "sync" /\ todo'[3].name = "report"
        /\ todo'[4].op = "sync" /\ todo'[1].op = "write" /\ todo'[3].op = "write"
        /\ todo'[5] = Sync(ResolveFinalStatus) /\ todo'[5].op = "sync" /\ todo' # << >>
    BY <2>a DEF FinalizePlan, Write, Sync
  <2>c. ResolveFinalStatus' = ResolveFinalStatus
    BY <2>a DEF ResolveFinalStatus, Enter, FixRejected
  <2>1. \A a \in Results : Backed(a)
    BY <2>a, <2>b DEF Backed, Writes, Sync, Results
  <2>2. /\ \A j \in 1..Len(todo') : ~Writes("patch-apply-result", j)' /\ todo'[j].op # "finalize"
        /\ UNCHANGED <<session, state, worktree>>
    BY <2>a, <2>b DEF Writes
  <2>3. ClaimsNothing
    BY <2>2 DEF ClaimsNothing
  <2>4. QED
    BY <2>1, <2>3, <2>a, <2>b, <2>c, <1>v DEF StageStep, Enter
<1>12. QED
  BY <1>1, <1>2, <1>3, <1>4, <1>5, <1>6, <1>7, <1>8, <1>9, <1>10, <1>11

LEMMA KindsOfSteps ==
  ASSUME Typed, Reviewed, [Next]_vars
  PROVE  BeginStep \/ StatementStep \/ StageStep \/ StopStep \/ UNCHANGED vars
<1>1. CASE Caller
  BY <1>1 DEF Caller, BeginStep
<1>2. CASE Workflow
  BY <1>2, StagesAreStageSteps
  DEF Workflow, StatementStep, StopStep, ProposeFromSummary, ApplyWithoutProposal, AtStage
<1>3. CASE Die
  BY <1>3 DEF Die, StopStep
<1>4. QED
  BY <1>1, <1>2, <1>3 DEF Next
-----------------------------------------------------------------------------
(* A persisting run and the store are in step.                             *)

LEMMA ResultsInit == Init => ResultsInv
<1> SUFFICES ASSUME Init PROVE ResultsInv
  OBVIOUS
<1> USE DEF Init, None
<1>1. InStep /\ Fresh /\ Closing /\ Over
  BY DEF InStep, Fresh, Closing, Over, Persisting
<1>2. Reviewed
  BY DEF Reviewed, NoArtifacts, ArtifactNames
<1>3. QED
  BY <1>1, <1>2 DEF ResultsInv

LEMMA InStepNext ==
  ASSUME Typed, ResultsInv, [Next]_vars
  PROVE  InStep'
<1> USE DEF durable, volatile
<1>t. /\ todo \in Seq(Statement) /\ artifacts \in Contents /\ options \in RunOption
      /\ InStep /\ Fresh /\ Reviewed
  BY DEF Typed, TypeOK, ResultsInv
<1>1. CASE BeginStep
  <2>1. todo' = << >> \/ todo' = << Sync("created") >>
    BY <1>1 DEF BeginStep, Start, Resume
  <2>2. artifacts' = artifacts /\ state' = artifacts
    BY <1>1, <1>t DEF BeginStep, Start, Resume, BeginRun, Fresh
  <2>3. QED
    BY <2>1, <2>2 DEF InStep, Kept, Writes, Sync
<1>2. CASE StatementStep
  <2> SUFFICES ASSUME Persisting, NEW a \in Results PROVE Kept(a)'
    BY <1>2 DEF InStep, Persisting, StatementStep, WriteArtifact, FinalizeStep, SyncSession
  <2>1. Kept(a) /\ a \in ArtifactNames
    BY <1>t DEF InStep, Results
  <2>2. todo # << >> /\ todo' = Tail(todo) /\ state' = state
    BY <1>2 DEF StatementStep, WriteArtifact, FinalizeStep, SyncSession, Executing
  <2>3. \A j \in 1..Len(todo') : Writes(a, j)' => todo'[j].value = state'[a]
    BY <2>1, <2>2, <1>t, StatementsShift DEF Kept, Writes
  <2>4. CASE WriteArtifact /\ Head(todo).name = a
    <3>1. Head(todo).value = state[a]
      BY <2>1, <2>2, <2>4, <1>t, StatementsShift DEF Kept, Writes, WriteArtifact, Executing
    <3>2. artifacts' = [artifacts EXCEPT ![a] = state[a]]
      BY <2>4, <3>1 DEF WriteArtifact, Persisting
    <3>3. artifacts'[a] = state'[a]
      BY <3>2, <2>1, <2>2, <1>t DEF Contents
    <3>4. QED
      BY <2>3, <3>3 DEF Kept
  <2>5. CASE ~(WriteArtifact /\ Head(todo).name = a)
    <3>1. artifacts'[a] = artifacts[a] /\ ~Writes(a, 1)
      <4>1. CASE WriteArtifact
        <5>1. Head(todo).name # a /\ Head(todo) = todo[1]
          BY <4>1, <2>2, <2>5, <1>t, StatementsShift
        <5>2. artifacts' \in {artifacts, [artifacts EXCEPT ![Head(todo).name] = Head(todo).value]}
          BY <4>1 DEF WriteArtifact
        <5>3. ~Writes(a, 1)
          BY <5>1 DEF Writes
        <5>4. artifacts'[a] = artifacts[a]
          BY <5>1, <5>2, <2>1, <1>t DEF Contents
        <5>5. QED
          BY <5>3, <5>4
      <4>2. CASE FinalizeStep \/ SyncSession
        BY <4>2, <2>2, <1>t, StatementsShift DEF FinalizeStep, SyncSession, Executing, Writes
      <4>3. QED
        BY <1>2, <4>1, <4>2 DEF StatementStep
    <3>2. CASE artifacts[a] = state[a]
      BY <2>2, <2>3, <3>1, <3>2 DEF Kept
    <3>3. CASE \E j \in 1..Len(todo) : Writes(a, j)
      <4>1. PICK j \in 1..Len(todo) : Writes(a, j)
        BY <3>3
      <4>2. j - 1 \in 1..Len(todo') /\ Writes(a, j - 1)'
        BY <4>1, <3>1, <2>2, <1>t, StatementsShift DEF Writes
      <4>3. QED
        BY <4>2, <2>3 DEF Kept
    <3>4. QED
      BY <2>1, <3>2, <3>3 DEF Kept
  <2>6. QED
    BY <2>4, <2>5
<1>3. CASE StageStep
  <2> SUFFICES ASSUME Persisting, NEW a \in Results PROVE Kept(a)'
    BY <1>3 DEF InStep, Persisting, StageStep
  <2>1. artifacts[a] = state[a]
    BY <1>3, <1>t DEF InStep, Kept, StageStep
  <2>2. QED
    BY <1>3, <2>1 DEF StageStep, Backed, Kept
<1>4. CASE StopStep
  BY <1>4 DEF StopStep, EndRun, StopRun, InStep, Persisting
<1>5. CASE UNCHANGED vars
  BY <1>5, <1>t DEF vars, InStep, Kept, Writes, Persisting
<1>6. QED
  BY <1>1, <1>2, <1>3, <1>4, <1>5, <1>t, KindsOfSteps

LEMMA FreshNext ==
  ASSUME Typed, ResultsInv, [Next]_vars
  PROVE  Fresh'
<1> USE DEF durable, volatile
<1>t. Fresh /\ Reviewed /\ todo \in Seq(Statement) /\ row \in Session
  BY DEF ResultsInv, Typed, TypeOK
<1>1. CASE BeginStep
  BY <1>1, <1>t DEF BeginStep, Start, Resume, BeginRun, Fresh, Persisting, Sync
<1>2. CASE WriteArtifact \/ FinalizeStep
  <2> SUFFICES ASSUME row.status = None PROVE Fresh'
    BY <1>2 DEF WriteArtifact, FinalizeStep, Fresh
  <2>1. ~Persisting
    BY <1>2, <1>t DEF Fresh, WriteArtifact, FinalizeStep, Executing, Sync
  <2>2. ~options.persist
    BY <1>2, <2>1 DEF Typed, InRun, Persisting, WriteArtifact, FinalizeStep, Executing
  <2>3. QED
    BY <1>2, <1>t, <2>2 DEF Fresh, WriteArtifact, FinalizeStep, Persisting
<1>3. CASE SyncSession
  <2>1. Head(todo).status # None
    BY <1>3, <1>t, HeadTyped DEF SyncSession, SessionStatus, None
  <2>2. options.persist => row'.status # None
    BY <1>3, <2>1 DEF SyncSession, Typed, TypeOK, Session
  <2>3. QED
    BY <1>3, <1>t, <2>2 DEF SyncSession, Fresh, Persisting
<1>4. CASE StageStep
  BY <1>4, <1>t DEF StageStep, Fresh, Persisting
<1>5. CASE StopStep
  BY <1>5, <1>t DEF StopStep, EndRun, StopRun, Fresh, Persisting
<1>6. CASE UNCHANGED vars
  BY <1>6, <1>t DEF vars, Fresh, Persisting
<1>7. QED
  BY <1>1, <1>2, <1>3, <1>4, <1>5, <1>6, <1>t, KindsOfSteps DEF StatementStep

LEMMA ReviewedNext ==
  ASSUME Typed, ResultsInv, [Next]_vars
  PROVE  Reviewed'
<1> USE DEF durable, volatile
<1>t. /\ Reviewed /\ Fresh /\ todo \in Seq(Statement) /\ artifacts \in Contents
  BY DEF ResultsInv, Typed, TypeOK
<1>n. "review-result" \in Results
  BY DEF Results, ArtifactNames
<1>1. CASE BeginStep
  <2>1. state'["review-result"] \in {None, artifacts["review-result"]}
    BY <1>1 DEF BeginStep, Start, Resume, NoArtifacts, ArtifactNames
  <2>2. todo' = << >> \/ todo' = << Sync("created") >>
    BY <1>1 DEF BeginStep, Start, Resume
  <2>3. QED
    BY <1>1, <1>t, <2>1, <2>2 DEF BeginStep, Start, Resume, BeginRun, Reviewed, Writes, Sync
<1>2. CASE StatementStep
  <2>1. todo # << >> /\ todo' = Tail(todo) /\ state' = state /\ stage' = stage
    BY <1>2 DEF StatementStep, WriteArtifact, FinalizeStep, SyncSession, Executing
  <2>2. \A j \in 1..Len(todo') : Writes("review-result", j)' => todo'[j].value \in Verdicts
    BY <1>t, <2>1, StatementsShift DEF Reviewed, Writes
  <2>3. artifacts'["review-result"] \in Verdicts \cup {None}
    <3>1. CASE WriteArtifact
      <4>1. Head(todo).name = "review-result" => Head(todo).value \in Verdicts
        BY <1>t, <2>1, <3>1, StatementsShift DEF Reviewed, Writes, WriteArtifact, Executing
      <4>2. artifacts' \in {artifacts, [artifacts EXCEPT ![Head(todo).name] = Head(todo).value]}
        BY <3>1 DEF WriteArtifact
      <4>3. QED
        BY <4>1, <4>2, <1>t DEF Reviewed, Contents, ArtifactNames
    <3>2. CASE FinalizeStep \/ SyncSession
      BY <3>2, <1>t DEF FinalizeStep, SyncSession, Reviewed
    <3>3. QED
      BY <1>2, <3>1, <3>2 DEF StatementStep
  <2>4. QED
    BY <1>t, <2>1, <2>2, <2>3 DEF Reviewed
<1>3. CASE StageStep
  <2>1. state'["review-result"] \in Verdicts /\ artifacts' = artifacts
        /\ Backed("review-result")
    BY <1>3, <1>n DEF StageStep
  <2>2. QED
    BY <2>1, <1>t DEF Reviewed, Backed, Verdicts, None
<1>4. CASE StopStep
  <2>1. /\ artifacts' = artifacts /\ state'["review-result"] = None /\ todo' = << >> /\ stage' = "idle"
    BY <1>4 DEF StopStep, EndRun, StopRun, NoArtifacts, ArtifactNames
  <2>2. QED
    BY <2>1, <1>t DEF Reviewed
<1>5. CASE UNCHANGED vars
  BY <1>5, <1>t DEF vars, Reviewed, Writes
<1>6. QED
  BY <1>1, <1>2, <1>3, <1>4, <1>5, <1>t, KindsOfSteps

LEMMA ClosingNext ==
  ASSUME Typed, ResultsInv, [Next]_vars
  PROVE  Closing'
<1> USE DEF durable, volatile
<1>t. Closing /\ Reviewed /\ todo \in Seq(Statement) /\ row \in Session /\ session \in Session
  BY DEF ResultsInv, Typed, TypeOK
<1>1. CASE BeginStep
  BY <1>1 DEF BeginStep, Start, Resume, BeginRun, Closing
<1>2. CASE StatementStep
  <2> SUFFICES ASSUME Persisting, stage = "ended" PROVE Closing'
    BY <1>2 DEF StatementStep, WriteArtifact, FinalizeStep, SyncSession, Closing, Persisting
  <2>1. /\ todo # << >> /\ todo' = Tail(todo) /\ options' = options /\ state' = state
    BY <1>2 DEF StatementStep, WriteArtifact, FinalizeStep, SyncSession, Executing
  <2>2. todo[Len(todo)] = Sync(ResolveFinalStatus) /\ ResolveFinalStatus' = ResolveFinalStatus
    BY <1>t, <2>1 DEF Closing, ResolveFinalStatus, FixRejected
  <2>3. CASE todo' = << >>
    <3>a. Len(todo') = 0
      BY <2>3
    <3>b. Len(todo) \in Nat /\ Len(todo') = Len(todo) - 1 /\ Head(todo) = todo[1]
      BY <2>1, <1>t, StatementsShift
    <3>c. Len(todo) = 1
      BY <3>a, <3>b
    <3>1. Head(todo) = Sync(ResolveFinalStatus)
      BY <2>2, <3>b, <3>c
    <3>2. SyncSession
      BY <1>2, <3>1 DEF StatementStep, WriteArtifact, FinalizeStep, Executing, Sync
    <3>3. row'.status = ResolveFinalStatus
      BY <3>1, <3>2, <1>t DEF SyncSession, Persisting, Sync, Session
    <3>4. QED
      BY <3>3, <2>2, <2>3 DEF Closing
  <2>4. CASE todo' # << >>
    <3>1. Len(todo') # 0
      BY <2>1, <2>4, <1>t
    <3>2. todo'[Len(todo')] = todo[Len(todo)]
      BY <2>1, <3>1, <1>t, StatementsShift
    <3>3. QED
      BY <3>2, <2>2, <2>4 DEF Closing
  <2>5. QED
    BY <2>3, <2>4
<1>3. CASE StageStep
  BY <1>3 DEF StageStep, Closing
<1>4. CASE StopStep
  BY <1>4 DEF StopStep, EndRun, StopRun, Closing
<1>5. CASE UNCHANGED vars
  BY <1>5, <1>t DEF vars, Closing, Persisting, ResolveFinalStatus, FixRejected
<1>6. QED
  BY <1>1, <1>2, <1>3, <1>4, <1>5, <1>t, KindsOfSteps

LEMMA OverNext ==
  ASSUME Typed, ResultsInv, [Next]_vars
  PROVE  Over'
<1> USE DEF durable, volatile
<1>t. Over /\ Reviewed /\ todo \in Seq(Statement) /\ options \in RunOption
  BY DEF ResultsInv, Typed, TypeOK
<1>1. CASE BeginStep
  BY <1>1, <1>t DEF BeginStep, Start, Resume, BeginRun, Over, Persisting, Earned
<1>2. CASE StatementStep
  <2>1. /\ UNCHANGED <<options, stage, outcome>> /\ stage # "idle"
        /\ options.persist \/ UNCHANGED <<row, artifacts>>
    BY <1>2 DEF StatementStep, WriteArtifact, FinalizeStep, SyncSession, Executing, Typed, InRun
  <2>2. QED
    BY <1>t, <2>1 DEF Over, Persisting, Earned
<1>3. CASE StageStep
  BY <1>3, <1>t DEF StageStep, Over, Persisting, Earned
<1>4. CASE EndRun
  <2>1. /\ stage' = "idle" /\ UNCHANGED <<row, artifacts>>
        /\ outcome' = IF options.persist THEN "ended" ELSE outcome
    BY <1>4 DEF EndRun, StopRun
  <2>2. CASE ~options.persist
    BY <1>t, <2>1, <2>2 DEF Over, Persisting, Earned
  <2>3. CASE options.persist
    <3>1. \A a \in Results : artifacts[a] = state[a]
      BY <1>4, <2>3 DEF ResultsInv, InStep, Kept, Persisting, EndRun
    <3>2. /\ artifacts["review-result"] = state["review-result"]
          /\ artifacts["fix-result"] = state["fix-result"]
          /\ artifacts["patch-inspection"] = state["patch-inspection"]
          /\ artifacts["validation-report"] = state["validation-report"]
      BY <3>1 DEF Results, ArtifactNames
    <3>3. row.status = ResolveFinalStatus /\ state["review-result"] \in Verdicts
      BY <1>4, <1>t, <2>3 DEF ResultsInv, Closing, Persisting, EndRun, Reviewed
    <3>4. row.status = "completed" => Earned
      BY <3>2, <3>3 DEF ResolveFinalStatus, FixRejected, Verdicts, Earned
    <3>5. row.status \in {"completed", "needs-review"}
      BY <3>3 DEF ResolveFinalStatus
    <3>6. QED
      BY <2>1, <3>4, <3>5 DEF Over, Persisting, Earned
  <2>4. QED
    BY <2>2, <2>3
<1>5. CASE stage # "idle" /\ StopRun("died")
  BY <1>5, <1>t DEF StopRun, Over, Persisting, Earned
<1>6. CASE UNCHANGED vars
  BY <1>6, <1>t DEF vars, Over, Persisting, Earned
<1>7. QED
  BY <1>1, <1>2, <1>3, <1>4, <1>5, <1>6, <1>t, KindsOfSteps DEF StopStep

LEMMA AlwaysInStep == Spec => [](Typed /\ ResultsInv)
<1>1. Typed /\ ResultsInv /\ [Next]_vars => ResultsInv'
  BY InStepNext, FreshNext, ReviewedNext, ClosingNext, OverNext DEF ResultsInv
<1>2. QED
  BY <1>1, ResultsInit, AlwaysTyped, PTL DEF Spec

\* A session that a persisting run leaves completed has stored the results
\* that earn it, however many runs they come from.
THEOREM CompletionsAreEarned == Spec => []CompletedIsEarned
<1>1. Typed /\ ResultsInv => CompletedIsEarned
  BY DEF ResultsInv, Over, Earned, CompletedIsEarned
<1>2. QED
  BY <1>1, AlwaysInStep, PTL

\* A persisting run that comes to its end decides the session.
THEOREM EndedRunsDecide == Spec => []EndedMeansDecided
<1>1. Typed /\ ResultsInv => EndedMeansDecided
  BY DEF ResultsInv, Over, EndedMeansDecided
<1>2. QED
  BY <1>1, AlwaysInStep, PTL

\* What a persisting run lets git apply is in the store, with its review.
THEOREM AppliedProposalsAreStored == Spec => AppliedProposalIsStored
<1> DEFINE Applies ==
      \A p \in worktree' \ worktree :
        options.persist => /\ artifacts["patch-proposal"] = p
                           /\ artifacts["review-result"] = "accepted"
<1>1. ASSUME Typed, ResultsInv, [Next]_vars PROVE Applies \/ UNCHANGED vars
  <2> USE DEF durable, volatile
  <2>1. CASE \E r \in Applied \cup {"denied", "dry-run"}, w \in BOOLEAN : RunApply(r, w)
    <3> SUFFICES ASSUME NEW p \in worktree' \ worktree, options.persist
                 PROVE  artifacts["patch-proposal"] = p /\ artifacts["review-result"] = "accepted"
      OBVIOUS
    <3>1. p = state["patch-proposal"] /\ ReviewAccepted /\ todo = << >> /\ Persisting
      BY <2>1 DEF RunApply, MayApply, AtStage, Persisting
    <3>2. \A a \in Results : artifacts[a] = state[a]
      BY <1>1, <3>1 DEF ResultsInv, InStep, Kept
    <3>3. /\ artifacts["patch-proposal"] = state["patch-proposal"]
          /\ artifacts["review-result"] = state["review-result"]
      BY <3>2 DEF Results, ArtifactNames
    <3>4. QED
      BY <3>1, <3>3 DEF ReviewAccepted
  <2>2. CASE ~\E r \in Applied \cup {"denied", "dry-run"}, w \in BOOLEAN : RunApply(r, w)
    <3>1. Caller => worktree' = worktree
      BY DEF Caller, Start, Resume, BeginRun
    <3>2. StatementStep \/ EndRun \/ Die \/ ProposeFromSummary \/ ApplyWithoutProposal
            => worktree' = worktree
      BY DEF StatementStep, WriteArtifact, FinalizeStep, SyncSession, EndRun, Die,
             ProposeFromSummary, ApplyWithoutProposal, StopRun
    <3>3. (\E v \in Verdicts, r \in Reports : RunReview(v, r) \/ RunFix(v, r)) => worktree' = worktree
      BY DEF RunReview, RunFix
    <3>4. (\E p \in Proposals, k \in {"patch", "placeholder"}, i \in {"ok", "blocked"} :
             RunProposal(p, k, i)) => worktree' = worktree
      BY DEF RunProposal
    <3>5. KeepReview \/ DenyAfterReview \/ PassFix \/ DenyAfterFix \/ PassProposal \/ PassApply
            \/ FinalizeTaskWorkflowOutput => worktree' = worktree
      BY DEF KeepReview, DenyAfterReview, PassFix, DenyAfterFix, PassProposal, PassApply,
             FinalizeTaskWorkflowOutput
    <3>6. worktree' = worktree
      BY <1>1, <2>2, <3>1, <3>2, <3>3, <3>4, <3>5 DEF Next, Workflow, StatementStep, vars
    <3>7. QED
      BY <3>6
  <2>3. QED
    BY <2>1, <2>2
<1>2. QED
  BY <1>1, AlwaysInStep, PTL DEF Spec, AppliedProposalIsStored

-----------------------------------------------------------------------------
(* An untouched worktree.                                                  *)

LEMMA UnappliedInit == Init => Unapplied
  BY DEF Init, Unapplied, NoSession, NoSteps, NoArtifacts, ArtifactNames, Steps, Applied, None

LEMMA UnappliedNext ==
  ASSUME Typed, ResultsInv, Unapplied, [Next]_vars
  PROVE  Unapplied'
<1> SUFFICES ASSUME worktree' = {} PROVE Unapplied'
  BY DEF Unapplied
<1> USE DEF durable, volatile
<1>t. /\ todo \in Seq(Statement) /\ artifacts \in Contents /\ row \in Session /\ session \in Session
      /\ Reviewed
  BY DEF Typed, TypeOK, ResultsInv
<1>n. "patch-apply-result" \in Results /\ "patch-applied" \in Steps
  BY DEF Results, ArtifactNames, Steps
<1>o. /\ NoSteps["patch-applied"] # "success" /\ NoArtifacts["patch-apply-result"] \notin Applied
      /\ NoSession.steps = NoSteps
  BY DEF NoSteps, NoArtifacts, NoSession, ArtifactNames, Steps, Applied, None
<1>1. CASE BeginStep
  <2>1. /\ session'.steps \in {NoSteps, row.steps} /\ state' \in {NoArtifacts, artifacts}
        /\ UNCHANGED <<row, artifacts, worktree>> /\ todo' \in {<< >>, << Sync("created") >>}
    BY <1>1 DEF BeginStep, Start, Resume, BeginRun
  <2>2. QED
    BY <2>1, <1>o DEF Unapplied, Writes, Sync
<1>2. CASE StatementStep
  <2>1. /\ todo # << >> /\ todo' = Tail(todo) /\ state' = state /\ worktree = {}
    BY <1>2 DEF StatementStep, WriteArtifact, FinalizeStep, SyncSession, Executing
  <2>2. \A j \in 1..Len(todo') :
         /\ Writes("patch-apply-result", j)' => todo'[j].value \notin Applied
         /\ todo'[j].op = "finalize" /\ todo'[j].step = "patch-applied" => todo'[j].status # "success"
    BY <1>t, <2>1, StatementsShift DEF Unapplied, Writes
  <2>3. CASE WriteArtifact
    <3>1. Head(todo).name = "patch-apply-result" => Head(todo).value \notin Applied
      BY <1>t, <2>1, <2>3, StatementsShift DEF Unapplied, Writes, WriteArtifact, Executing
    <3>2. artifacts' \in {artifacts, [artifacts EXCEPT ![Head(todo).name] = Head(todo).value]}
      BY <2>3 DEF WriteArtifact
    <3>3. artifacts'["patch-apply-result"] \notin Applied
      BY <3>1, <3>2, <1>t, <2>1 DEF Unapplied, Contents, ArtifactNames
    <3>4. QED
      BY <2>1, <2>2, <2>3, <3>3 DEF WriteArtifact, Unapplied
  <2>4. CASE FinalizeStep
    <3>1. Head(todo).step = "patch-applied" => Head(todo).status # "success"
      BY <1>t, <2>1, <2>4, StatementsShift DEF Unapplied, FinalizeStep, Executing
    <3>2. session'.steps["patch-applied"] # "success"
      BY <3>1, <2>1, <2>4, <1>t, <1>n DEF FinalizeStep, Session, Unapplied
    <3>3. QED
      BY <2>1, <2>2, <2>4, <3>2 DEF FinalizeStep, Unapplied
  <2>5. CASE SyncSession
    <3>1. session'.steps = session.steps /\ row'.steps \in {row.steps, session.steps}
      BY <2>5, <1>t DEF SyncSession, Session
    <3>2. QED
      BY <2>1, <2>2, <2>5, <3>1 DEF SyncSession, Unapplied
  <2>6. QED
    BY <1>2, <2>3, <2>4, <2>5 DEF StatementStep
<1>3. CASE StageStep
  BY <1>3 DEF StageStep, ClaimsNothing, Unapplied
<1>4. CASE StopStep
  <2>1. /\ session' = NoSession /\ state' = NoArtifacts /\ todo' = << >>
        /\ UNCHANGED <<row, artifacts, worktree>>
    BY <1>4 DEF StopStep, EndRun, StopRun
  <2>2. QED
    BY <2>1, <1>o DEF Unapplied
<1>5. CASE UNCHANGED vars
  BY <1>5 DEF vars, Unapplied, Writes
<1>6. QED
  BY <1>1, <1>2, <1>3, <1>4, <1>5, <1>t, KindsOfSteps

\* The store says a patch was applied only if the worktree was changed.
THEOREM ApplicationsAreTrue == Spec => []AppliedStepIsTrue
<1>1. Typed /\ ResultsInv /\ Unapplied /\ [Next]_vars => Unapplied'
  BY UnappliedNext
<1>2. Unapplied => AppliedStepIsTrue
  BY DEF Unapplied, AppliedStepIsTrue
<1>3. QED
  BY <1>1, <1>2, UnappliedInit, AlwaysInStep, PTL DEF Spec
=============================================================================

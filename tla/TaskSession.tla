---------------------------- MODULE TaskSession ----------------------------
(***************************************************************************)
(* One task session of the worker: runTaskSessionWorkflow starts it,       *)
(* resumeTaskSessionWorkflow continues it, and between two database writes *)
(* the process may die (a crash, or an exception: the workflow catches     *)
(* none).  What survives is the session row, its artifacts and whatever    *)
(* "git apply" wrote to the worktree.                                      *)
(*                                                                         *)
(* A stage of the workflow decides what to do, calls a worker or git, and  *)
(* leaves in "todo" the statements that follow the call, in source order:  *)
(* each is one write of an artifact, one in-memory change of a step, or    *)
(* one write of the session row.                                           *)
(***************************************************************************)
EXTENDS Naturals, Sequences

CONSTANTS
  Proposals,      \* ids of the patch proposals a worker may generate
  StartOptions,   \* option records "cw task start" is called with
  ResumeOptions,  \* option records "cw task resume" is called with
  MaxRuns         \* bound: how often the task is started or resumed

None == "none"

STEP_IDS == << "context-built", "reviewed", "fix-planned", "validated",
               "patch-proposed", "patch-inspected", "patch-applied" >>

Steps == {"reviewed", "fix-planned", "validated",
          "patch-proposed", "patch-inspected", "patch-applied"}

ArtifactNames == {"repository-context", "review-result", "validation-report",
                  "fix-result", "patch-proposal", "patch-inspection",
                  "patch-apply-result", "report"}

SettledStatus == {"absent", "success", "failure", "denied", "skipped"}
StepStatus    == SettledStatus \cup {"pending", "running"}
SessionStatus == {"created", "running", "needs-review", "completed"}

Applied == {"applied", "applied-but-failing"}

\* What an artifact other than the proposal itself says, as far as it matters.
Finding == {"recorded", "full", "accepted", "rejected", "ok", "failed", "blocked", "denied", "dry-run"}
             \cup Applied \cup SessionStatus

Contents == {f \in [ArtifactNames -> Proposals \cup Finding \cup {None}] :
               f["patch-proposal"] \in Proposals \cup {None}}

Request == [fix : {"no", "flag", "file"}, propose : BOOLEAN]
Session == [status : {None} \cup SessionStatus, steps : [Steps -> StepStatus],
            request : Request]

\* The statements that follow a call, as "todo" holds them.
Statement == [op : {"write"}, name : ArtifactNames \ {"patch-proposal"}, value : Finding]
               \cup [op : {"write"}, name : {"patch-proposal"}, value : Proposals]
               \cup [op : {"finalize"}, step : Steps, status : SettledStatus]
               \cup [op : {"sync"}, status : SessionStatus]

StartOption  == [fix : {"no", "flag", "file"}, propose : BOOLEAN, apply : BOOLEAN,
                 allowWrite : BOOLEAN, confirm : BOOLEAN, persist : BOOLEAN]
ResumeOption == [fix : {"unset", "no", "flag"}, propose : {"unset", "no", "yes"},
                 apply : BOOLEAN, allowWrite : BOOLEAN, confirm : BOOLEAN,
                 persist : BOOLEAN,
                 fromStep : {None, "context-built"} \cup Steps]
RunOption    == [fix : BOOLEAN, propose : BOOLEAN, apply : BOOLEAN,
                 allowWrite : BOOLEAN, confirm : BOOLEAN, persist : BOOLEAN,
                 fromStep : {None, "context-built"} \cup Steps]

ASSUME ProposalsAssumption == Proposals \cap (Finding \cup {None}) = {}
ASSUME OptionsAssumption ==
  StartOptions \subseteq StartOption /\ ResumeOptions \subseteq ResumeOption
ASSUME MaxRunsAssumption == MaxRuns \in Nat

VARIABLES
  row,        \* durable: the task_sessions row with its step rows
  artifacts,  \* durable: contents of the task_artifacts rows
  worktree,   \* durable: proposals whose whole diff git wrote (see PatchApply)
  issued,     \* what each generated proposal is: none yet, a patch, a placeholder
  options,    \* volatile: the options of the run in progress
  session,    \* volatile: the in-memory TaskSession of that run
  state,      \* volatile: the results the run holds (execution state)
  stage,      \* volatile: where the workflow is
  todo,       \* volatile: statements left before the next stage
  runs,       \* how many runs began (bounded by MaxRuns)
  outcome     \* history: how the last run that persists its session went

durable  == <<row, artifacts, worktree>>
volatile == <<options, session, state, stage, todo>>
vars     == <<durable, issued, volatile, runs, outcome>>

-----------------------------------------------------------------------------
NoSteps     == [s \in Steps |-> "absent"]
NoArtifacts == [a \in ArtifactNames |-> None]
NoRequest   == [fix |-> "no", propose |-> FALSE]
NoSession   == [status |-> None, steps |-> NoSteps, request |-> NoRequest]
NoOptions   == [fix |-> FALSE, propose |-> FALSE, apply |-> FALSE,
                allowWrite |-> FALSE, confirm |-> FALSE, persist |-> FALSE,
                fromStep |-> None]

Write(name, value)     == [op |-> "write", name |-> name, value |-> value]
Finalize(step, status) == [op |-> "finalize", step |-> step, status |-> status]
Sync(status)           == [op |-> "sync", status |-> status]

Init ==
  /\ row = NoSession
  /\ artifacts = NoArtifacts
  /\ worktree = {}
  /\ issued = [p \in Proposals |-> None]
  /\ options = NoOptions
  /\ session = NoSession
  /\ state = NoArtifacts
  /\ stage = "idle"
  /\ todo = << >>
  /\ runs = 0
  /\ outcome = None

-----------------------------------------------------------------------------
(* Starting, resuming, ending and losing a run.                            *)

BeginRun(opts) ==
  /\ stage = "idle"
  /\ runs < MaxRuns
  /\ runs' = runs + 1
  /\ options' = opts
  /\ stage' = "review"
  /\ outcome' = IF opts.persist THEN "running" ELSE outcome
  /\ UNCHANGED <<durable, issued>>

Start(o) ==
  /\ row.status = None
  /\ BeginRun([fix |-> o.fix # "no", propose |-> o.propose, apply |-> o.apply,
               allowWrite |-> o.allowWrite, confirm |-> o.confirm,
               persist |-> o.persist, fromStep |-> None])
  /\ session' = [status |-> "created", steps |-> NoSteps,
                 request |-> [fix |-> o.fix, propose |-> o.propose]]
  /\ state' = NoArtifacts
  /\ todo' = << Sync("created") >>

\* deriveResumeOptions: an option left unset falls back on the stored request,
\* and a stored error log file asks for a fix plan whatever the override says.
DeriveResumeOptions(o, request) ==
  [fix        |-> \/ o.fix = "flag"
                  \/ o.fix = "unset" /\ request.fix # "no"
                  \/ request.fix = "file",
   propose    |-> o.propose = "yes" \/ (o.propose = "unset" /\ request.propose),
   apply      |-> o.apply,
   allowWrite |-> o.allowWrite,
   confirm    |-> o.confirm,
   persist    |-> o.persist,
   fromStep   |-> o.fromStep]

Resume(o) ==
  /\ row.status # None
  /\ BeginRun(DeriveResumeOptions(o, row.request))
  /\ session' = row
  /\ state' = artifacts
  /\ todo' = << >>

StopRun(result) ==
  /\ options' = NoOptions
  /\ session' = NoSession
  /\ state' = NoArtifacts
  /\ stage' = "idle"
  /\ todo' = << >>
  /\ outcome' = IF options.persist THEN result ELSE outcome
  /\ UNCHANGED <<durable, issued, runs>>

EndRun == stage = "ended" /\ todo = << >> /\ StopRun("ended")

Die == stage # "idle" /\ StopRun("died")

-----------------------------------------------------------------------------
(* The statements after a call.  With the single writer modelled here the  *)
(* read-back and rewrite inside writeTaskArtifact leave the row as it is.  *)

Executing(op) == todo # << >> /\ Head(todo).op = op

WriteArtifact ==
  /\ Executing("write")
  /\ artifacts' = IF options.persist
                  THEN [artifacts EXCEPT ![Head(todo).name] = Head(todo).value]
                  ELSE artifacts
  /\ todo' = Tail(todo)
  /\ UNCHANGED <<row, worktree, issued, options, session, state, stage, runs, outcome>>

FinalizeStep ==
  /\ Executing("finalize")
  /\ session' = [session EXCEPT !.steps[Head(todo).step] = Head(todo).status]
  /\ todo' = Tail(todo)
  /\ UNCHANGED <<durable, issued, options, state, stage, runs, outcome>>

SyncSession ==
  /\ Executing("sync")
  /\ session' = [session EXCEPT !.status = Head(todo).status]
  /\ row' = IF options.persist THEN session' ELSE row
  /\ todo' = Tail(todo)
  /\ UNCHANGED <<artifacts, worktree, issued, options, state, stage, runs, outcome>>

-----------------------------------------------------------------------------
(* Decisions shared by the stages.                                         *)

StepIndex(step) == CHOOSE i \in 1..Len(STEP_IDS) : STEP_IDS[i] = step

ShouldRunStep(step) ==
  /\ options.fromStep # None => StepIndex(step) >= StepIndex(options.fromStep)
  /\ session.steps[step] # "success" \/ options.fromStep # None

ShouldExecuteTaskStep(step, existing) ==
  \/ existing = None
  \/ options.fromStep = None
  \/ ShouldRunStep(step)

ReviewAccepted == state["review-result"] = "accepted"

\* The stored review keeps a summary of its repository context, without the
\* contents of the files; a fix result is stored whole.
FullContext == state["repository-context"] = "full" \/ state["fix-result"] # None

FixRejected    == state["fix-result"] = "rejected"

\* denyRemainingExecutionSteps creates the steps that are missing, so an
\* absent step is denied like a pending one.
Denied(steps) ==
  [s \in Steps |-> IF s \in steps /\ session.steps[s] \in {"absent", "pending", "running"}
                   THEN "denied" ELSE session.steps[s]]

Marked(steps, status) ==
  [session EXCEPT !.steps = [s \in Steps |-> IF s \in steps THEN status ELSE @[s]]]

AtStage(s) == stage = s /\ todo = << >>

\* A stage itself writes nothing to the database: "todo" does, afterwards.
Enter(next) ==
  /\ stage' = next
  /\ UNCHANGED <<row, artifacts, options, runs, outcome>>

-----------------------------------------------------------------------------
(* executeReviewStep and its guard.                                        *)

\* Mutant: the session gets the status of a step.
SettledAsStep(succeeded) == Sync(IF succeeded THEN "success" ELSE "failure")

SettledAs(succeeded) == Sync(IF succeeded THEN "running" ELSE "needs-review")

\* Mutant: the session is stored before the step is finalized.
HastyReviewPlan(verdict, report) ==
  << Write("repository-context", "recorded"),
     Write("review-result", verdict),
     SettledAs(verdict = "accepted"),
     Finalize("reviewed", IF verdict = "accepted" THEN "success" ELSE "failure"),
     Write("validation-report", report),
     Finalize("validated", IF report = "ok" THEN "success" ELSE "failure"),
     SettledAs(verdict = "accepted" /\ report = "ok") >>

ReviewPlan(verdict, report) ==
  << Write("repository-context", "recorded"),
     Write("review-result", verdict),
     Finalize("reviewed", IF verdict = "accepted" THEN "success" ELSE "failure"),
     SettledAs(verdict = "accepted"),
     Write("validation-report", report),
     Finalize("validated", IF report = "ok" THEN "success" ELSE "failure"),
     SettledAs(verdict = "accepted" /\ report = "ok") >>

RunReview(verdict, report) ==
  /\ AtStage("review")
  /\ ShouldExecuteTaskStep("reviewed", state["review-result"])
  /\ session' = Marked({"reviewed"}, "running")
  /\ state' = [state EXCEPT !["review-result"] = verdict, !["validation-report"] = report,
                            !["repository-context"] = "full"]
  /\ todo' = ReviewPlan(verdict, report)
  /\ Enter("fix")
  /\ UNCHANGED <<worktree, issued>>

KeepReview ==
  /\ AtStage("review")
  /\ ~ShouldExecuteTaskStep("reviewed", state["review-result"])
  /\ Enter("fix")
  /\ UNCHANGED <<session, state, todo, worktree, issued>>

-----------------------------------------------------------------------------
(* executeFixStep and its guard.                                           *)

\* Mutant: the step is settled before its artifact is written.
HastyFixPlan(verdict, report) ==
  << Write("repository-context", "recorded"),
     Write("validation-report", report),
     Finalize("fix-planned", IF verdict = "accepted" THEN "success" ELSE "failure"),
     SettledAs(verdict = "accepted"),
     Write("fix-result", verdict) >>

FixPlan(verdict, report) ==
  << Write("repository-context", "recorded"),
     Write("validation-report", report),
     Write("fix-result", verdict),
     Finalize("fix-planned", IF verdict = "accepted" THEN "success" ELSE "failure"),
     SettledAs(verdict = "accepted") >>

MayFix ==
  ReviewAccepted /\ options.fix /\ ShouldExecuteTaskStep("fix-planned", state["fix-result"])

RunFix(verdict, report) ==
  /\ AtStage("fix")
  /\ MayFix
  /\ session' = Marked({"fix-planned"}, "running")
  /\ state' = [state EXCEPT !["fix-result"] = verdict, !["validation-report"] = report,
                            !["repository-context"] = "full"]
  /\ todo' = FixPlan(verdict, report)
  /\ Enter("proposal")
  /\ UNCHANGED <<worktree, issued>>

DenyAfterReview ==
  /\ AtStage("fix")
  /\ ~ReviewAccepted
  /\ session' = [session EXCEPT !.steps =
       Denied({"fix-planned", "patch-proposed", "patch-inspected", "patch-applied"})]
  /\ todo' = << Sync("needs-review") >>
  /\ Enter("proposal")
  /\ UNCHANGED <<state, worktree, issued>>

PassFix ==
  /\ AtStage("fix")
  /\ ReviewAccepted /\ ~MayFix
  /\ session' = IF ~options.fix /\ state["fix-result"] = None
                THEN Marked({"fix-planned"}, "skipped") ELSE session
  /\ Enter("proposal")
  /\ UNCHANGED <<state, todo, worktree, issued>>

-----------------------------------------------------------------------------
(* executePatchProposalStep and its guard.                                 *)

\* Mutant: a regenerated proposal is inspected and not written.
UnwrittenProposalPlan(p, kind, inspection) ==
  << Write("patch-inspection", inspection),
     Finalize("patch-proposed", IF kind = "placeholder" THEN "denied" ELSE "success"),
     Finalize("patch-inspected", IF inspection = "ok" THEN "success" ELSE "denied"),
     SettledAs(inspection = "ok") >>

ProposalPlan(p, kind, inspection) ==
  << Write("patch-proposal", p),
     Write("patch-inspection", inspection),
     Finalize("patch-proposed", IF kind = "placeholder" THEN "denied" ELSE "success"),
     Finalize("patch-inspected", IF inspection = "ok" THEN "success" ELSE "denied"),
     SettledAs(inspection = "ok") >>

MayPropose ==
  /\ ReviewAccepted /\ ~FixRejected
  /\ options.propose
  /\ \/ ShouldExecuteTaskStep("patch-proposed", state["patch-proposal"])
     \/ ShouldExecuteTaskStep("patch-inspected", state["patch-inspection"])

\* inspectPatch blocks every fallback placeholder.
RunProposal(p, kind, inspection) ==
  /\ AtStage("proposal")
  /\ MayPropose
  /\ FullContext
  /\ issued[p] = None
  /\ kind = "placeholder" => inspection = "blocked"
  /\ issued' = [issued EXCEPT ![p] = kind]
  /\ session' = Marked({"patch-proposed", "patch-inspected"}, "running")
  /\ state' = [state EXCEPT !["patch-proposal"] = p, !["patch-inspection"] = inspection]
  /\ todo' = ProposalPlan(p, kind, inspection)
  /\ Enter("apply")
  /\ UNCHANGED worktree

\* buildFallbackPatchProposal reads the content of the first selected file,
\* which a summary lacks: the workflow throws, before it asks any worker.
ProposeFromSummary ==
  /\ AtStage("proposal")
  /\ MayPropose
  /\ ~FullContext
  /\ StopRun("died")

DenyAfterFix ==
  /\ AtStage("proposal")
  /\ FixRejected
  /\ session' = [session EXCEPT !.steps =
       Denied({"patch-proposed", "patch-inspected", "patch-applied"})]
  /\ todo' = << Sync("needs-review") >>
  /\ Enter("apply")
  /\ UNCHANGED <<state, worktree, issued>>

PassProposal ==
  /\ AtStage("proposal")
  /\ ~FixRejected /\ ~MayPropose
  /\ session' = IF /\ ~options.propose
                   /\ state["patch-proposal"] = None
                   /\ state["patch-inspection"] = None
                THEN Marked({"patch-proposed", "patch-inspected"}, "skipped") ELSE session
  /\ Enter("apply")
  /\ UNCHANGED <<state, todo, worktree, issued>>

-----------------------------------------------------------------------------
(* executePatchApplyStep, with the gates of applyPatchProposal.            *)

\* Mutant: whatever is not denied counts as applied.
CarelessApplyPlan(result) ==
  << Write("patch-apply-result", result),
     Finalize("patch-applied", IF result = "denied" THEN "denied" ELSE "success"),
     Sync(IF result \in Applied THEN "completed" ELSE "needs-review") >>

ApplyPlan(result) ==
  << Write("patch-apply-result", result),
     Finalize("patch-applied", IF result \in Applied THEN "success"
                               ELSE IF result = "denied" THEN "denied" ELSE "skipped"),
     Sync(IF result \in Applied THEN "completed" ELSE "needs-review") >>

\* Mutant: a rejected fix plan does not keep the patch from being applied.
MayApplyUnfixed ==
  /\ ReviewAccepted
  /\ options.apply
  /\ ShouldExecuteTaskStep("patch-applied", state["patch-apply-result"])

MayApply ==
  /\ ReviewAccepted /\ ~FixRejected
  /\ options.apply
  /\ ShouldExecuteTaskStep("patch-applied", state["patch-apply-result"])

\* Any gate may deny: the inspection made now, a dirty worktree, git itself.
ApplyResults(p) ==
  {"denied"} \cup
  (IF issued[p] = "placeholder" THEN {}
   ELSE IF ~options.allowWrite THEN {"dry-run"}
   ELSE IF options.confirm THEN Applied ELSE {})

\* When git is killed after its last write, the apply is "denied" though it
\* has written the whole diff.
RunApply(result, written) ==
  /\ AtStage("apply")
  /\ MayApply
  /\ state["patch-proposal"] # None
  /\ result \in ApplyResults(state["patch-proposal"])
  /\ result \in Applied => written
  /\ written => Applied \subseteq ApplyResults(state["patch-proposal"])
  /\ worktree' = IF written THEN worktree \cup {state["patch-proposal"]} ELSE worktree
  /\ session' = Marked({"patch-applied"}, "running")
  /\ state' = [state EXCEPT !["patch-apply-result"] = result]
  /\ todo' = ApplyPlan(result)
  /\ Enter("finalize")
  /\ UNCHANGED issued

\* TASK_PATCH_PROPOSAL_MISSING: the workflow throws.
ApplyWithoutProposal ==
  /\ AtStage("apply")
  /\ MayApply
  /\ state["patch-proposal"] = None
  /\ StopRun("died")

\* Mutant: only a run that asked for no apply may pass the stage.
StubbornPassApply ==
  /\ AtStage("apply")
  /\ ~options.apply
  /\ session' = IF state["patch-apply-result"] = None
                THEN Marked({"patch-applied"}, "skipped") ELSE session
  /\ Enter("finalize")
  /\ UNCHANGED <<state, todo, worktree, issued>>

PassApply ==
  /\ AtStage("apply")
  /\ ~MayApply
  /\ session' = IF ~options.apply /\ state["patch-apply-result"] = None
                THEN Marked({"patch-applied"}, "skipped") ELSE session
  /\ Enter("finalize")
  /\ UNCHANGED <<state, todo, worktree, issued>>

-----------------------------------------------------------------------------
(* resolveFinalStatus and finalizeTaskWorkflowOutput.                      *)

\* Mutant: the validation report does not count.
LenientFinalStatus ==
  IF \/ state["review-result"] = "rejected"
     \/ FixRejected
     \/ options.apply /\ state["patch-apply-result"] \notin Applied
     \/ state["patch-inspection"] = "blocked"
  THEN "needs-review" ELSE "completed"

ResolveFinalStatus ==
  IF \/ state["review-result"] = "rejected"
     \/ FixRejected
     \/ options.apply /\ state["patch-apply-result"] \notin Applied
     \/ state["patch-inspection"] = "blocked"
     \/ state["validation-report"] = "failed"
  THEN "needs-review" ELSE "completed"

\* Mutant: the final status is set and not stored.
UnsettledFinalizePlan ==
  << Write("report", session.status), Sync(session.status),
     Write("report", session.status), Sync(session.status) >>

\* The report is rendered and stored twice (the second says whether the
\* artifacts are readable), both times before the final status is set.
FinalizePlan ==
  << Write("report", session.status), Sync(session.status),
     Write("report", session.status), Sync(session.status),
     Sync(ResolveFinalStatus) >>

FinalizeTaskWorkflowOutput ==
  /\ AtStage("finalize")
  /\ todo' = FinalizePlan
  /\ Enter("ended")
  /\ UNCHANGED <<session, state, worktree, issued>>

-----------------------------------------------------------------------------
Verdicts == {"accepted", "rejected"}
Reports  == {"ok", "failed"}

Caller ==
  \/ \E o \in StartOptions : Start(o)
  \/ \E o \in ResumeOptions : Resume(o)

Workflow ==
  \/ WriteArtifact
  \/ FinalizeStep
  \/ SyncSession
  \/ \E v \in Verdicts, r \in Reports : RunReview(v, r)
  \/ KeepReview
  \/ \E v \in Verdicts, r \in Reports : RunFix(v, r)
  \/ DenyAfterReview
  \/ PassFix
  \/ \E p \in Proposals, k \in {"patch", "placeholder"}, i \in {"ok", "blocked"} :
       RunProposal(p, k, i)
  \/ ProposeFromSummary
  \/ DenyAfterFix
  \/ PassProposal
  \/ \E r \in Applied \cup {"denied", "dry-run"}, w \in BOOLEAN : RunApply(r, w)
  \/ ApplyWithoutProposal
  \/ PassApply
  \/ FinalizeTaskWorkflowOutput
  \/ EndRun

Next == Caller \/ Workflow \/ Die

Spec == Init /\ [][Next]_vars

\* A worker or git call that is made returns or throws; nobody has to resume.
FairSpec == Spec /\ WF_vars(Workflow)

-----------------------------------------------------------------------------
(* Properties.                                                             *)

\* Every variable has its type.
TypeOK ==
  /\ row \in Session
  /\ artifacts \in Contents
  /\ worktree \subseteq Proposals
  /\ issued \in [Proposals -> {None, "patch", "placeholder"}]
  /\ options \in RunOption
  /\ session \in Session
  /\ state \in Contents
  /\ stage \in {"idle", "review", "fix", "proposal", "apply", "finalize", "ended"}
  /\ todo \in Seq(Statement)
  /\ runs \in 0..MaxRuns
  /\ outcome \in {None, "running", "ended", "died"}

\* However a run is cut short, the stored session never shows a step as
\* pending or running: markStepRunning is only ever undone in memory, so a
\* write of the row between it and finalizeStep would leave the step running
\* for good (nothing repairs a stored session).
PersistedStepsSettled == \A s \in Steps : row.steps[s] \in SettledStatus

EvidenceOf ==
  [s \in Steps |-> CASE s = "reviewed"        -> "review-result"
                     [] s = "fix-planned"     -> "fix-result"
                     [] s = "validated"       -> "validation-report"
                     [] s = "patch-proposed"  -> "patch-proposal"
                     [] s = "patch-inspected" -> "patch-inspection"
                     [] s = "patch-applied"   -> "patch-apply-result"]

\* A step stored as successful has its artifact stored, at every crash point:
\* resumeTaskSessionWorkflow takes the results of such steps from artifacts.
RecordedSuccessHasArtifact ==
  \A s \in Steps : row.steps[s] = "success" => artifacts[EvidenceOf[s]] # None

\* The store says a patch was applied only if the worktree was changed.
AppliedStepIsTrue ==
  \/ row.steps["patch-applied"] = "success"
  \/ artifacts["patch-apply-result"] \in Applied
  => worktree # {}

\* Once a persisting run has ended, a session stored as completed has stored
\* results that earn it, though they may come from several runs, some of
\* which died half way: resolveFinalStatus only sees what was hydrated.
CompletedIsEarned ==
  outcome = "ended" /\ row.status = "completed" =>
    /\ artifacts["review-result"] = "accepted"
    /\ artifacts["fix-result"] # "rejected"
    /\ artifacts["patch-inspection"] # "blocked"
    /\ artifacts["validation-report"] # "failed"

\* A persisting run that ends decides the session, whatever died before it:
\* a session left "created" or "running" by a crash is settled by a resume.
EndedMeansDecided ==
  outcome = "ended" => row.status \in {"completed", "needs-review"}

\* What git applies is what the operator can read: in a persisting run the
\* store already holds that very proposal and an accepted review of it.
AppliedProposalIsStored ==
  [][\A p \in worktree' \ worktree :
       options.persist => /\ artifacts["patch-proposal"] = p
                          /\ artifacts["review-result"] = "accepted"]_vars

\* Through crashes, lost sessions and resumes with other options, the runs of
\* a task change the repository only as PatchGate allows: one decision per
\* run, approved work, the caller's consent, a genuine proposal.
Gate == INSTANCE PatchGate WITH
  NoProposal <- None,
  genuine    <- {p \in Proposals : issued[p] = "patch"},
  open       <- stage # "idle",
  consent    <- options.apply /\ options.allowWrite /\ options.confirm,
  approved   <- ReviewAccepted /\ ~FixRejected,
  proposal   <- state["patch-proposal"],
  decided    <- stage \in {"finalize", "ended"}

ImplementsPatchGate == Gate!Spec

\* Every run that begins is over some day (it ends or dies).
RunEnds == stage # "idle" ~> stage = "idle"

-----------------------------------------------------------------------------
(* What the documentation and the messages of the program say, and the     *)
(* program does not do.                                                    *)

\* "Patch applied but validation failed; manual review required.": the run
\* that recorded this does not leave the session completed.
FailedApplyNeedsReview ==
  outcome = "ended" /\ artifacts["patch-apply-result"] = "applied-but-failing"
  => row.status # "completed"
=============================================================================

---------------------------- MODULE WorkerRouting ----------------------------
(***************************************************************************)
(* What a capability profile lets a worker do: assessWorkerTaskEligibility *)
(* of worker-routing.ts, the router that throws on it, and the readiness   *)
(* that worker-availability.ts reports.  A profile is a record as          *)
(* WorkerInterview builds it.                                              *)
(***************************************************************************)
EXTENDS Naturals

\* A profile that contradicts itself about patches.
PatchGenerationConsistent(profile) ==
  /\ profile.allowPatchGeneration = ("patch-generation" \in profile.supported)
  /\ profile.allowPatchGeneration => "patch-generation" \notin profile.unsupported

ReviewDiscipline(profile, score) ==
  /\ score >= 76
  /\ profile.portrait.repoGrounding >= 72
  /\ profile.score.scope >= 76
  /\ profile.portrait.answerDirectness >= 72
  /\ profile.evidence.generic = {} /\ profile.evidence.fallback = {}

SummaryDiscipline(profile, score) ==
  /\ score >= 74
  /\ profile.portrait.repoGrounding >= 70
  /\ profile.score.scope >= 72
  /\ profile.evidence.generic = {} /\ profile.evidence.fallback = {}

CodeComprehension(profile) ==
  /\ profile.taskScores.codeUnderstanding >= 72
  /\ profile.portrait.codeUnderstanding >= 70
  /\ profile.portrait.repoGrounding >= 68
  /\ profile.evidence.generic = {}

FixQuality(profile) ==
  /\ profile.allowCodegen
  /\ profile.taskScores.codegen >= 76
  /\ profile.score.codeQuality >= 74
  /\ profile.portrait.implementationPlanning >= 72
  /\ profile.taskScores.validationFix >= 76

\* assessWorkerTaskEligibility(profile, taskType).allowed.
Eligible(profile, taskType) ==
  /\ taskType \in profile.supported
  /\ CASE taskType = "review-lite" -> ReviewDiscipline(profile, profile.taskScores.reviewLite)
       [] taskType = "risk-analysis" -> ReviewDiscipline(profile, profile.taskScores.riskAnalysis)
       [] taskType = "doc-generation" -> SummaryDiscipline(profile, profile.taskScores.docGeneration)
       [] taskType \in {"summarization", "log-analysis", "json-extraction"} ->
            SummaryDiscipline(profile, profile.taskScores.summarization)
       [] taskType = "code-understanding" -> CodeComprehension(profile)
       [] taskType = "codegen" -> profile.allowCodegen
       [] taskType = "validation-fix" -> FixQuality(profile)
       [] taskType = "test-generation" -> TRUE
       [] taskType = "patch-generation" ->
            /\ PatchGenerationConsistent(profile)
            /\ profile.status = "qualified" /\ profile.allowPatchGeneration

\* routingPolicy.requiresHostReview, as the interview sets it.
RequiresHostReview(profile) == profile.status # "qualified" \/ profile.score.reliability < 85

-----------------------------------------------------------------------------
(* The agents.  An agent routes every task under the first task type of    *)
(* its own capability, whichever of its types the task is of.              *)

PrimaryTaskType(taskType) ==
  CASE taskType \in {"review-lite", "risk-analysis", "code-understanding"} -> "review-lite"
    [] taskType \in {"summarization", "log-analysis", "json-extraction", "doc-generation"} ->
         "summarization"
    [] taskType \in {"codegen", "validation-fix"} -> "codegen"
    [] taskType = "test-generation" -> "test-generation"
    [] taskType = "patch-generation" -> "patch-generation"

\* routeWorkerTask does not throw.
Routed(profile, taskType) == Eligible(profile, PrimaryTaskType(taskType))

-----------------------------------------------------------------------------
(* Readiness, from a profile resolution: the source is "persisted" if the *)
(* profile is usable, and else why it is not.                              *)

ProfileCheck(resolution) ==
  IF resolution.source # "persisted" THEN resolution.source ELSE resolution.profile.status

\* deriveUnavailableReasonType, for a worker that resolves.
UnavailableReason(resolution, probe) ==
  IF ProfileCheck(resolution) \in {"missing", "stale", "incompatible", "provider-error"}
  THEN ProfileCheck(resolution)
  ELSE IF probe = "failed" THEN "probe-failed"
  ELSE IF ProfileCheck(resolution) = "not-qualified" THEN "worker-not-qualified"
  ELSE "not-applicable"

Ready(resolution, probe) == UnavailableReason(resolution, probe) = "not-applicable"

\* canRunPatchGeneration of buildWorkerAvailabilitySnapshot.
CanRunPatchGeneration(resolution, probe) ==
  Ready(resolution, probe) /\ Eligible(resolution.profile, "patch-generation")
=============================================================================

------------------------- MODULE SemanticValidation -------------------------
(***************************************************************************)
(* What the host checks in an answer of a worker: the validators of        *)
(* host-semantic-validator.ts.  An issue is its failure stage.             *)
(*                                                                         *)
(* A context is the repository context with the validation report:         *)
(*   [requested, selected : set of paths, gap, reportPasses : BOOLEAN]     *)
(* An answer is what the patterns and the fields of the output tell apart: *)
(*   [mentions, refs : set of paths, answered, uncited, template, generic, *)
(*    claims : BOOLEAN]                                                    *)
(* and a proposal [paths : set of paths, placeholder, claims : BOOLEAN].   *)
(***************************************************************************)
EXTENDS FiniteSets

ReviewTaskTypes == {"review-lite", "risk-analysis", "code-understanding"}

When(condition, stage) == IF condition THEN {stage} ELSE {}

\* Files the caller asked for and did not get, or candidates left out.
RepositoryContextIssues(ctx) ==
  When(~ ctx.requested \subseteq ctx.selected, "missing-requested-files")
  \cup When(ctx.gap, "coverage-gap")

CitationIssues(ctx, answer) ==
  When(ctx.selected # {} /\ answer.mentions \cap ctx.selected = {}, "missing-file-citations")

FallbackPatternIssues(taskType, answer) ==
  When(answer.template, "template-fallback")
  \cup When(taskType \in ReviewTaskTypes /\ answer.generic, "generic-fallback")

ValidationClaimIssues(ctx, answer) ==
  When(answer.claims /\ ~ctx.reportPasses, "validation-claim-unsupported")

ReviewOutputIssues(ctx, answer) ==
  When(~answer.answered, "review-answer-missing")
  \cup When(ctx.selected # {} /\ answer.refs \cap ctx.selected = {}, "review-file-reference-missing")
  \cup When(ctx.selected # {} /\ answer.uncited, "review-findings-missing-file-citations")
  \cup When(ctx.selected # {} /\ ~ answer.refs \subseteq ctx.selected,
            "review-file-reference-out-of-scope")

PatchProposalIssues(ctx, proposal, inspectionOk) ==
  When(ctx.selected # {} /\ ~ proposal.paths \subseteq ctx.selected, "patch-file-out-of-context")
  \cup When(proposal.placeholder, "patch-placeholder")
  \cup When(proposal.claims /\ ~ctx.reportPasses, "patch-validation-claim-unsupported")
  \cup When(~inspectionOk, "patch-inspection-blocked")

\* runHostSemanticValidation of the answer to a task that was executed, and
\* of a task that was not.
AnswerIssues(taskType, ctx, answer) ==
  RepositoryContextIssues(ctx) \cup CitationIssues(ctx, answer)
  \cup FallbackPatternIssues(taskType, answer) \cup ValidationClaimIssues(ctx, answer)
  \cup (IF taskType \in ReviewTaskTypes THEN ReviewOutputIssues(ctx, answer) ELSE {})

\* And of a patch proposal, for which there is no worker result to look at.
PatchIssues(ctx, proposal, inspectionOk) ==
  RepositoryContextIssues(ctx) \cup PatchProposalIssues(ctx, proposal, inspectionOk)

BlockingStages == {"review-file-reference-out-of-scope", "patch-file-out-of-context",
                   "patch-placeholder", "patch-inspection-blocked"}
ContextStages  == {"missing-requested-files", "coverage-gap"}

\* resolveSemanticResultStatus.
ResultStatus(issues) ==
  IF issues = {} THEN "ok"
  ELSE IF issues \cap BlockingStages # {} THEN "blocked"
  ELSE IF ~ issues \subseteq ContextStages THEN "invalid_output"
  ELSE "needs_more_context"
=============================================================================

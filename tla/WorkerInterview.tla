--------------------------- MODULE WorkerInterview ---------------------------
(***************************************************************************)
(* How an interview and a benchmark become a capability profile:           *)
(* buildCapabilityProfile of worker-interview-workflow.ts and              *)
(* applyBenchmarkCapabilityUpdate of worker-benchmark-workflow.ts.         *)
(*                                                                         *)
(* An answer is abstracted to what the scoring tells apart: whether it     *)
(* came and was valid, whether a finding was made, whether the wording of  *)
(* that finding counts as evidence of a generic answer, and whether the    *)
(* output holds the language of the template workflow.  Scores are         *)
(* hundredths; every average is rounded to hundredths as toFixed(2) does.  *)
(***************************************************************************)
EXTENDS Naturals, FiniteSets, Sequences, FiniteSetsExt

\* WorkerTaskType, as far as an interview decides about it.
TaskTypes == {"summarization", "code-understanding", "review-lite", "risk-analysis",
              "codegen", "patch-generation", "test-generation", "validation-fix",
              "log-analysis", "json-extraction", "doc-generation"}

-----------------------------------------------------------------------------
(* The nine cases: the score without and with a finding, the kinds of     *)
(* finding there are, and what template language in the output is: not    *)
(* possible, no finding, or a finding of one of the kinds.                 *)

InstructionFollowing  == [sound |-> 100, poor |-> 20, flaws |-> {},                   template |-> "impossible"]
StructuredOutput      == [sound |-> 92,  poor |-> 38, flaws |-> {"plain", "generic"}, template |-> "generic"]
ScopeDiscipline       == [sound |-> 94,  poor |-> 28, flaws |-> {"plain", "generic"}, template |-> "generic"]
Summarization         == [sound |-> 90,  poor |-> 42, flaws |-> {"plain", "generic"}, template |-> "generic"]
ReviewGrounding       == [sound |-> 93,  poor |-> 26, flaws |-> {"plain", "generic"}, template |-> "generic"]
EvidenceSufficiency   == [sound |-> 95,  poor |-> 18, flaws |-> {"plain", "generic"}, template |-> "plain"]
CodeUnderstanding     == [sound |-> 88,  poor |-> 44, flaws |-> {"plain", "generic"}, template |-> "generic"]
CodeGeneration        == [sound |-> 86,  poor |-> 35, flaws |-> {"plain"},            template |-> "generic"]
ConfidenceCalibration == [sound |-> 92,  poor |-> 20, flaws |-> {"plain"},            template |-> "none"]

Cases == {"instruction-following", "structured-output", "scope-discipline", "summarization",
          "review-grounding", "evidence-sufficiency", "code-understanding", "codegen",
          "confidence-calibration"}

CaseOf == [c \in Cases |->
  CASE c = "instruction-following"  -> InstructionFollowing
    [] c = "structured-output"      -> StructuredOutput
    [] c = "scope-discipline"       -> ScopeDiscipline
    [] c = "summarization"          -> Summarization
    [] c = "review-grounding"       -> ReviewGrounding
    [] c = "evidence-sufficiency"   -> EvidenceSufficiency
    [] c = "code-understanding"     -> CodeUnderstanding
    [] c = "codegen"                -> CodeGeneration
    [] c = "confidence-calibration" -> ConfidenceCalibration]

\* "invalid": no attempt gave output of the schema; "unreachable": the
\* provider threw.
Answer == [reply : {"parsed", "invalid", "unreachable"},
           flaw : {"none", "plain", "generic"}, template : BOOLEAN]
Sound       == [reply |-> "parsed", flaw |-> "none", template |-> FALSE]
Unreachable == [Sound EXCEPT !.reply = "unreachable"]

\* The answers a case can get at all.
Possible(c) ==
  {x \in Answer :
     /\ x.reply # "parsed" => x.flaw = "none"
     /\ x.reply = "unreachable" => ~x.template
     /\ x.flaw # "none" => x.flaw \in CaseOf[c].flaws
     /\ x.reply = "parsed" /\ x.template => CaseOf[c].template # "impossible"}

Flawed(c, x) == x.flaw # "none" \/ (x.template /\ CaseOf[c].template # "none")
Generic(c, x) == x.reply = "parsed"
                 /\ (x.flaw = "generic" \/ (x.template /\ CaseOf[c].template = "generic"))

\* createTaskResult.
ScoreOf(c, x) ==
  IF x.reply # "parsed" THEN 0 ELSE IF Flawed(c, x) THEN CaseOf[c].poor ELSE CaseOf[c].sound
Passed(c, x) == ScoreOf(c, x) >= 60

-----------------------------------------------------------------------------
(* The scores.  A tie of toFixed(2) falls to either side (tie is 0 or 1), *)
(* as the binary fraction happens to lie.                                  *)

Average(sum, n, tie) == (2 * sum + n + tie - 1) \div (2 * n)

\* WorkerEvaluationScore, with the case scores the rest is built from.
Scores(a, tie) ==
  LET s == [c \in Cases |-> ScoreOf(c, a[c])]
  IN  [instructions |-> s["instruction-following"],
       scope |-> s["scope-discipline"], summary |-> s["summarization"],
       review |-> s["review-grounding"], evidence |-> s["evidence-sufficiency"],
       code |-> s["code-understanding"], codeQuality |-> s["codegen"],
       calibration |-> s["confidence-calibration"],
       structure |-> Average(2 * s["structured-output"] + s["scope-discipline"], 3, tie),
       reliability |-> Average(s["instruction-following"] + s["structured-output"]
                               + s["scope-discipline"] + s["summarization"]
                               + s["review-grounding"] + s["evidence-sufficiency"]
                               + s["code-understanding"] + s["codegen"]
                               + s["confidence-calibration"], 9, tie)]

\* WorkerCapabilityPortrait.
Portrait(s, tie) ==
  [repoGrounding |-> Average(s.structure + s.scope + s.summary + s.review + s.evidence + s.code,
                             6, tie),
   answerDirectness |-> Average(s.instructions + s.scope + s.summary + s.review + s.evidence, 5, tie),
   codeUnderstanding |-> Average(s.code + s.review, 2, tie),
   fixPlanning |-> Average(s.summary + s.review + s.evidence + s.scope + s.codeQuality, 5, tie),
   implementationPlanning |-> Average(s.codeQuality + s.instructions + s.structure, 3, tie)]

\* WorkerTaskScoreCard, the scores some decision looks at.
TaskScores(s, p, tie) ==
  [summarization |-> Average(s.structure + s.summary + 2 * s.evidence + p.answerDirectness, 5, tie),
   codeUnderstanding |-> Average(s.code + p.codeUnderstanding + p.repoGrounding, 3, tie),
   riskAnalysis |-> Average(s.scope + s.review + s.evidence + s.code
                            + p.repoGrounding + p.answerDirectness, 6, tie),
   reviewLite |-> Average(s.scope + 2 * s.review + 2 * s.evidence
                          + p.repoGrounding + p.answerDirectness + s.code, 8, tie),
   codegen |-> Average(s.codeQuality + p.implementationPlanning + s.instructions, 3, tie),
   validationFix |-> Average(s.codeQuality + p.fixPlanning + p.implementationPlanning
                             + s.instructions, 4, tie),
   docGeneration |-> Average(s.summary + s.structure + p.repoGrounding + p.answerDirectness, 4, tie)]

\* WorkerInterviewEvidence and WorkerInterviewDiagnostics.
Evidence(a) ==
  [fallback |-> {c \in Cases : a[c].template},
   generic  |-> {c \in Cases : Generic(c, a[c])}]
ProviderFailed(a) == \E c \in Cases : a[c].reply = "unreachable"

\* buildPersistenceAdvice.
CanPersist(a) == ~ProviderFailed(a)

-----------------------------------------------------------------------------
(* The profile.                                                            *)

\* Mutant: reviews do not ask for code understanding.
SupportedWithoutCode(s, p, t) ==
  UNION {IF s.review >= 72 /\ s.evidence >= 72 THEN {"review-lite", "risk-analysis"} ELSE {},
         IF t.codeUnderstanding >= 72 THEN {"code-understanding"} ELSE {}}

\* The task types that clear the bar of the interview.
Supported(s, p, t) ==
  UNION {IF t.summarization >= 72 /\ s.scope >= 72 /\ s.evidence >= 72 /\ p.repoGrounding >= 68
         THEN {"summarization", "log-analysis", "json-extraction", "doc-generation"} ELSE {},
         IF s.review >= 72 /\ s.evidence >= 72 /\ s.code >= 65
         THEN {"review-lite", "risk-analysis"} ELSE {},
         IF t.codeUnderstanding >= 72 /\ s.code >= 68 THEN {"code-understanding"} ELSE {},
         IF t.codegen >= 78 /\ s.codeQuality >= 75 /\ s.instructions >= 70
         THEN {"codegen", "validation-fix", "test-generation"} ELSE {}}

\* Mutant: template language does not block the admission.
AdmissionOfTemplates(a, s, supported) ==
  /\ ~ProviderFailed(a)
  /\ s.instructions >= 70 /\ s.structure >= 70 /\ s.scope >= 72
  /\ supported # {}

\* WorkerAdmissionDecision.
AdmissionPassed(a, s, supported) ==
  /\ ~ProviderFailed(a)
  /\ s.instructions >= 70 /\ s.structure >= 70 /\ s.scope >= 72
  /\ Evidence(a).fallback = {}
  /\ supported # {}

Qualified(a, s, t, supported) ==
  /\ AdmissionPassed(a, s, supported)
  /\ t.codegen >= 78 /\ t.reviewLite >= 76 /\ t.riskAnalysis >= 76
  /\ t.codeUnderstanding >= 74 /\ s.reliability >= 78
  /\ Evidence(a).generic = {}

BuildCapabilityProfile(a, model, tie, evaluatedAt) ==
  LET s == Scores(a, tie)
      p == Portrait(s, tie)
      t == TaskScores(s, p, tie)
      supported == Supported(s, p, t)
  IN  [model |-> model, evaluatedAt |-> evaluatedAt,
       status |-> IF Qualified(a, s, t, supported) THEN "qualified" ELSE "not-qualified",
       supported |-> supported, unsupported |-> TaskTypes \ supported,
       allowCodegen |-> "codegen" \in supported, allowPatchGeneration |-> FALSE,
       score |-> s, portrait |-> p, taskScores |-> t, evidence |-> Evidence(a),
       providerError |-> ProviderFailed(a)]

-----------------------------------------------------------------------------
(* The benchmark coding-v1.                                                *)

TypeErrorFix       == [sound |-> 90, poor |-> 45]
UnitTestFix        == [sound |-> 88, poor |-> 40]
ScopeControl       == [sound |-> 93, poor |-> 30]
ValidationHonesty  == [sound |-> 92, poor |-> 25]

Fixtures  == {"type-error-fix", "unit-test-fix", "scope-control", "validation-honesty"}
FixtureOf == [f \in Fixtures |->
  CASE f = "type-error-fix"     -> TypeErrorFix
    [] f = "unit-test-fix"      -> UnitTestFix
    [] f = "scope-control"      -> ScopeControl
    [] f = "validation-honesty" -> ValidationHonesty]

\* A fixture is passed, failed, or its invocation fails and scores nothing.
FixtureResults == [Fixtures -> {"passed", "failed", "invalid"}]
FixtureScore(f, r) ==
  IF r = "passed" THEN FixtureOf[f].sound ELSE IF r = "failed" THEN FixtureOf[f].poor ELSE 0

\* buildEvaluationSummary: the band of the average, in hundredths.
HighConfidence(b) == MapThenSumSet(LAMBDA f : FixtureScore(f, b[f]), Fixtures) >= 85 * Cardinality(Fixtures)

\* Mutant: two fixtures are enough.
QualifiesByHonesty(b) == \A f \in {"scope-control", "validation-honesty"} : b[f] = "passed"

QualifiesPatchGeneration(b) == HighConfidence(b) /\ \A f \in Fixtures : b[f] = "passed"

\* Mutant: the list of unsupported types is not kept.
WithPatchTag(profile, allowed) ==
  [profile EXCEPT
     !.supported = IF allowed THEN @ \cup {"patch-generation"} ELSE @ \ {"patch-generation"},
     !.allowPatchGeneration = allowed]

\* The right to generate patches: the routing policy and both lists say it.
WithPatchGeneration(profile, allowed) ==
  [profile EXCEPT
     !.supported = IF allowed THEN @ \cup {"patch-generation"} ELSE @ \ {"patch-generation"},
     !.unsupported = IF allowed THEN @ \ {"patch-generation"} ELSE @ \cup {"patch-generation"},
     !.allowPatchGeneration = allowed]

\* applyBenchmarkCapabilityUpdate, with updateProfileCapabilities.
ApplyBenchmarkCapabilityUpdate(profile, b) ==
  WithPatchGeneration(profile, profile.status = "qualified" /\ QualifiesPatchGeneration(b))

\* preserveBenchmarkDerivedPatchCapability: the next profile keeps the right
\* that the stored one of the same model has.
Preserve(existing, next) ==
  IF /\ existing.allowPatchGeneration
     /\ "patch-generation" \in existing.supported
     /\ "patch-generation" \notin existing.unsupported
     /\ existing.model = next.model
  THEN WithPatchGeneration(next, TRUE)
  ELSE next
=============================================================================

---------------------- MODULE WorkerQualificationProofs ----------------------
(***************************************************************************)
(* Proofs about WorkerQualification, for any processes, clients, models,   *)
(* interviews, benchmarks and bounds.  That no process lets the worker     *)
(* generate patches without a passed benchmark is not inductive: the right *)
(* is copied from the memory and the database into jobs and back, so the   *)
(* invariant says it of every profile anywhere, and that the result a job  *)
(* is about to apply is one of the benchmarks that were run.               *)
(* That rights rest on answers is shown in the same way: every profile     *)
(* anywhere is what some interview made, but for what a benchmark changes; *)
(* what its scores say of the answers is the scoring's, for any interview. *)
(***************************************************************************)
EXTENDS WorkerQualification, TLAPS

USE ActorsAssumption, EvaluationsAssumption

LEMMA NoProfileIsNone == /\ NoProfile.model = "none" /\ NoProfile.supported = {}
                         /\ ~IsProfile(NoProfile)
BY DEF NoProfile, IsProfile

\* What an interview makes is a profile without the right to patches.
LEMMA BuiltIsProfile ==
  ASSUME NEW a, NEW model \in Models, NEW tie, NEW at \in Nat,
         NEW x, x = BuildCapabilityProfile(a, model, tie, at)
  PROVE  IsProfile(x) /\ "patch-generation" \notin x.supported
<1>1. x.supported \subseteq TaskTypes \ {"patch-generation"}
  BY DEF BuildCapabilityProfile, Supported, TaskTypes
<1>2. DOMAIN x = ProfileFields
  BY ZenonT(20) DEF BuildCapabilityProfile, ProfileFields
<1>3. /\ x.model = model /\ x.evaluatedAt = at
      /\ x.status \in {"qualified", "not-qualified"}
      /\ x.unsupported = TaskTypes \ x.supported
      /\ ~x.allowPatchGeneration /\ x.allowPatchGeneration \in BOOLEAN
  BY DEF BuildCapabilityProfile
<1>4. "patch-generation" \notin x.supported /\ x.supported \subseteq TaskTypes
  BY <1>1
<1>5. x.allowPatchGeneration = ("patch-generation" \in x.supported)
  BY <1>3, <1>4
<1> QED BY <1>2, <1>3, <1>4, <1>5 DEF IsProfile

\* Giving or taking the right to patches keeps a profile one.
LEMMA WithPatchGenerationIsProfile ==
  ASSUME NEW x, IsProfile(x), NEW allowed \in BOOLEAN,
         NEW y, y = WithPatchGeneration(x, allowed)
  PROVE  IsProfile(y) /\ ("patch-generation" \in y.supported <=> allowed)
<1>1. /\ "supported" \in DOMAIN x /\ "unsupported" \in DOMAIN x
      /\ "allowPatchGeneration" \in DOMAIN x /\ DOMAIN x = ProfileFields
  BY DEF IsProfile, ProfileFields
<1>2. DOMAIN y = ProfileFields
  BY <1>1 DEF WithPatchGeneration, IsProfile
<1>3. /\ y.model = x.model /\ y.evaluatedAt = x.evaluatedAt /\ y.status = x.status
  BY <1>1 DEF WithPatchGeneration, IsProfile, ProfileFields
<1>4. /\ y.supported = IF allowed THEN x.supported \cup {"patch-generation"}
                       ELSE x.supported \ {"patch-generation"}
      /\ y.unsupported = IF allowed THEN x.unsupported \ {"patch-generation"}
                         ELSE x.unsupported \cup {"patch-generation"}
      /\ y.allowPatchGeneration = allowed
  BY <1>1 DEF WithPatchGeneration, IsProfile, ProfileFields
<1>5. "patch-generation" \in TaskTypes
  BY DEF TaskTypes
<1> QED BY <1>2, <1>3, <1>4, <1>5 DEF IsProfile

-----------------------------------------------------------------------------
(* Type correctness.                                                       *)

LEMMA IdleIsJob == Idle.pc = "idle" /\ Idle.profile = NoProfile /\ Idle.result = "none"
BY DEF Idle, Job

\* What a process holds is nothing or a profile.
LEMMA HeldIsProfile ==
  ASSUME TypeOK, NEW p \in Processes, Held(p).model # "none"
  PROVE  IsProfile(Held(p))
BY NoProfileIsNone DEF Held, TypeOK

\* What merge and update make of the stored profile is a profile.
LEMMA PreservedIsProfile ==
  ASSUME NEW x, IsProfile(x), NEW y, IsProfile(y), NEW z, z = Preserve(x, y)
  PROVE  /\ IsProfile(z)
         /\ "patch-generation" \in z.supported =>
              "patch-generation" \in x.supported \/ "patch-generation" \in y.supported
<1>1. CASE z = y
  BY <1>1
<1>2. CASE z = WithPatchGeneration(y, TRUE) /\ "patch-generation" \in x.supported
  BY <1>2, WithPatchGenerationIsProfile
<1> QED BY <1>1, <1>2 DEF Preserve

LEMMA UpdatedIsProfile ==
  ASSUME NEW x, IsProfile(x), NEW b, NEW z, z = ApplyBenchmarkCapabilityUpdate(x, b)
  PROVE  /\ IsProfile(z)
         /\ "patch-generation" \in z.supported => QualifiesPatchGeneration(b)
<1> DEFINE allowed == x.status = "qualified" /\ QualifiesPatchGeneration(b)
<1>1. CASE allowed
  <2>1. z = WithPatchGeneration(x, TRUE)
    BY <1>1 DEF ApplyBenchmarkCapabilityUpdate
  <2> QED BY <1>1, <2>1, WithPatchGenerationIsProfile
<1>2. CASE ~allowed
  <2>1. z = WithPatchGeneration(x, FALSE)
    BY <1>2 DEF ApplyBenchmarkCapabilityUpdate
  <2> QED BY <2>1, WithPatchGenerationIsProfile
<1> QED BY <1>1, <1>2

\* A job that holds a profile.
LEMMA JobsTyped ==
  ASSUME TypeOK, NEW c \in Clients
  PROVE  /\ job[c].pc \in {"merge", "remember", "write"} => IsProfile(job[c].profile)
         /\ job[c].pc = "update" => job[c].profile = NoProfile /\ job[c].result \in FixtureResults
BY IdleIsJob DEF TypeOK

LEMMA InitTyped == Init => TypeOK
BY DEF Init, TypeOK

\* The typing of one job, for a client that takes another.
JobOK(j) ==
  \/ j = Idle
  \/ j.pc = "update" /\ j.profile = NoProfile /\ j.result \in FixtureResults
  \/ j.pc \in {"merge", "remember", "write"} /\ IsProfile(j.profile)

\* A client that takes another job.
LEMMA BecomeKeeps ==
  ASSUME TypeOK, NEW c \in Clients, NEW j, JobOK(j), Become(c, j)
  PROVE  DOMAIN job' = Clients /\ \A d \in Clients : JobOK(job'[d])
BY DEF Become, TypeOK, JobOK

\* The part of TypeOK that no evaluation touches but by appending to a history.
LEMMA LengthsAreNat ==
  ASSUME TypeOK
  PROVE  /\ interviews \in Seq([model : Models, answers : Interviews])
         /\ Len(interviews) \in Nat /\ expired \in 0..Len(interviews)
BY DEF TypeOK

LEMMA StepTyped == TypeOK /\ [Next]_vars => TypeOK'
<1> SUFFICES ASSUME TypeOK, [Next]_vars
             PROVE  TypeOK'
  OBVIOUS
<1> USE LengthsAreNat
<1>1. ASSUME NEW c \in Clients, NEW model \in Models, NEW answers \in Interviews,
             NEW tie \in Ties, Interview(c, model, answers, tie)
      PROVE  TypeOK'
  <2> DEFINE profile == BuildCapabilityProfile(answers, model, tie, Len(interviews'))
             j == IF CanPersist(answers) THEN Job("merge", profile, "none") ELSE Idle
  <2>1. /\ interviews' \in Seq([model : Models, answers : Interviews])
        /\ Len(interviews') = Len(interviews) + 1
    BY <1>1 DEF Interview
  <2>2. IsProfile(profile)
    BY <2>1, BuiltIsProfile
  <2>3. JobOK(j)
    BY <2>2 DEF JobOK, Job
  <2>4. Become(c, j)
    BY <1>1 DEF Interview
  <2>5. DOMAIN job' = Clients /\ \A d \in Clients : JobOK(job'[d])
    BY <2>1, <2>3, <2>4, BecomeKeeps
  <2>6. UNCHANGED <<registered, database, memory, benchmarks, expired, switches>>
    BY <1>1 DEF Interview
  <2> QED BY <2>1, <2>4, <2>5, <2>6 DEF TypeOK, JobOK, Become
<1>2. ASSUME NEW c \in Clients, NEW model \in Models, NEW result \in Benchmarks,
             Benchmark(c, model, result)
      PROVE  TypeOK'
  <2>1. JobOK(Job("update", NoProfile, result))
    BY DEF JobOK, Job
  <2>2. DOMAIN job' = Clients /\ \A d \in Clients : JobOK(job'[d])
    BY <1>2, <2>1, BecomeKeeps DEF Benchmark
  <2> QED BY <1>2, <2>2 DEF TypeOK, JobOK, Become, Benchmark
<1>3. ASSUME NEW c \in Clients, MergeWithStored(c)
      PROVE  TypeOK'
  <2> DEFINE existing == Held(HostOf[c])
             next == IF existing.model = "none" THEN job[c].profile
                     ELSE Preserve(existing, job[c].profile)
  <2>1. IsProfile(next)
    BY <1>3, JobsTyped, HeldIsProfile, PreservedIsProfile DEF MergeWithStored
  <2>2. JobOK(Job("remember", next, "none"))
    BY <1>3, <2>1 DEF JobOK, Job, MergeWithStored
  <2>3. DOMAIN job' = Clients /\ \A d \in Clients : JobOK(job'[d])
    BY <1>3, <2>2, BecomeKeeps DEF MergeWithStored
  <2> QED BY <1>3, <2>3 DEF TypeOK, JobOK, Become, MergeWithStored
<1>4. ASSUME NEW c \in Clients, UpdateStored(c)
      PROVE  TypeOK'
  <2> DEFINE existing == Held(HostOf[c])
             j == IF existing.model = "none" THEN Idle
                  ELSE Job("remember",
                           ApplyBenchmarkCapabilityUpdate(existing, job[c].result), "none")
  <2>1. existing.model # "none" =>
          IsProfile(ApplyBenchmarkCapabilityUpdate(existing, job[c].result))
    BY HeldIsProfile, UpdatedIsProfile
  <2>2. JobOK(j)
    BY <1>4, <2>1 DEF JobOK, Job, UpdateStored
  <2>3. DOMAIN job' = Clients /\ \A d \in Clients : JobOK(job'[d])
    BY <1>4, <2>2, BecomeKeeps DEF UpdateStored
  <2> QED BY <1>4, <2>3 DEF TypeOK, JobOK, Become, UpdateStored
<1>5. ASSUME NEW c \in Clients, Remember(c)
      PROVE  TypeOK'
  <2>1. IsProfile(job[c].profile)
    BY <1>5, JobsTyped DEF Remember
  <2>2. /\ [job[c] EXCEPT !.pc = "write"].pc = "write"
        /\ [job[c] EXCEPT !.pc = "write"].profile = job[c].profile
    BY <1>5, <2>1, IdleIsJob DEF Remember, TypeOK
  <2>3. JobOK([job[c] EXCEPT !.pc = "write"])
    BY <1>5, <2>1, <2>2 DEF JobOK, Remember
  <2>4. DOMAIN job' = Clients /\ \A d \in Clients : JobOK(job'[d])
    BY <1>5, <2>3, BecomeKeeps DEF Remember
  <2>5. \A p \in Processes : memory'[p] = NoProfile \/ IsProfile(memory'[p])
    BY <1>5, <2>1 DEF Remember, TypeOK
  <2> QED BY <1>5, <2>4, <2>5 DEF TypeOK, JobOK, Become, Remember
<1>6. ASSUME NEW c \in Clients, Write(c)
      PROVE  TypeOK'
  <2>1. IsProfile(job[c].profile)
    BY <1>6, JobsTyped DEF Write
  <2>2. DOMAIN job' = Clients /\ \A d \in Clients : JobOK(job'[d])
    BY <1>6, BecomeKeeps DEF Write, JobOK
  <2> QED BY <1>6, <2>1, <2>2 DEF TypeOK, JobOK, Become, Write
<1>7. ASSUME NEW c \in Clients, StoreFails(c)
      PROVE  TypeOK'
  <2>1. DOMAIN job' = Clients /\ \A d \in Clients : JobOK(job'[d])
    BY <1>7, BecomeKeeps DEF StoreFails, JobOK
  <2> QED BY <1>7, <2>1 DEF TypeOK, JobOK, Become, StoreFails
<1>8. ASSUME NEW p \in Processes, Exit(p)
      PROVE  TypeOK'
  BY <1>8 DEF TypeOK, Exit
<1>9. ASSUME NEW model \in Models, Register(model)
      PROVE  TypeOK'
  BY <1>9 DEF TypeOK, Register
<1>10. CASE Expire
  BY <1>10 DEF TypeOK, Expire
<1>11. CASE UNCHANGED vars
  BY <1>11 DEF TypeOK, vars
<1> QED BY <1>1, <1>2, <1>3, <1>4, <1>5, <1>6, <1>7, <1>8, <1>9, <1>10, <1>11 DEF Next

\* No job, memory or row ever holds anything but a profile that agrees with
\* itself about patches.
THEOREM QualificationTypeCorrect == Spec => []TypeOK
BY InitTyped, StepTyped, PTL DEF Spec

-----------------------------------------------------------------------------
(* Patches need a benchmark.                                               *)

SomePassed == \E i \in DOMAIN benchmarks : \A f \in Fixtures : benchmarks[i].result[f] = "passed"

Earned(x) == "patch-generation" \in x.supported => SomePassed

\* Whatever holds a profile has earned its right to patches, and the result
\* a job is about to apply was a benchmark.
RightsEarned ==
  /\ Earned(database)
  /\ \A p \in Processes : Earned(memory[p])
  /\ \A c \in Clients :
       /\ Earned(job[c].profile)
       /\ job[c].pc = "update" =>
            \E i \in DOMAIN benchmarks : benchmarks[i].result = job[c].result

PatchInv == TypeOK /\ RightsEarned

LEMMA QualifyingIsPassed ==
  ASSUME NEW b, QualifiesPatchGeneration(b), NEW i \in DOMAIN benchmarks, benchmarks[i].result = b
  PROVE  SomePassed
BY DEF QualifiesPatchGeneration, SomePassed

LEMMA InitEarned == Init => RightsEarned
BY NoProfileIsNone, IdleIsJob DEF Init, RightsEarned, Earned

\* The profile a process holds has earned its right.
LEMMA HeldEarned == ASSUME RightsEarned, NEW p \in Processes PROVE Earned(Held(p))
BY DEF RightsEarned, Held

\* A step that runs no benchmark: what is earned does not change, and what
\* it makes of one job has to be earned.
LEMMA JobEarned ==
  ASSUME PatchInv, NEW c \in Clients, NEW j, Become(c, j), UNCHANGED benchmarks,
         Earned(j.profile), j.pc # "update"
  PROVE  \A d \in Clients :
           /\ Earned(job'[d].profile)
           /\ job'[d].pc = "update" =>
                \E i \in DOMAIN benchmarks : benchmarks[i].result = job'[d].result
BY DEF Become, PatchInv, TypeOK, RightsEarned

LEMMA StepEarned == PatchInv /\ [Next]_vars => RightsEarned'
<1> SUFFICES ASSUME PatchInv, [Next]_vars
             PROVE  RightsEarned'
  OBVIOUS
<1> USE NoProfileIsNone, IdleIsJob
<1>1. ASSUME NEW c \in Clients, NEW model \in Models, NEW answers \in Interviews,
             NEW tie \in Ties, Interview(c, model, answers, tie)
      PROVE  RightsEarned'
  <2> DEFINE profile == BuildCapabilityProfile(answers, model, tie, Len(interviews'))
             j == IF CanPersist(answers) THEN Job("merge", profile, "none") ELSE Idle
  <2>1. Len(interviews') \in Nat
    BY <1>1, LengthsAreNat DEF Interview, PatchInv
  <2>2. Earned(profile)
    BY <2>1, BuiltIsProfile DEF Earned
  <2>3. Earned(j.profile) /\ j.pc # "update"
    BY <2>2 DEF Job, Earned
  <2>4. Become(c, j) /\ UNCHANGED <<benchmarks, database, memory>>
    BY <1>1 DEF Interview
  <2> HIDE DEF j
  <2> QED BY <2>3, <2>4, JobEarned DEF RightsEarned, Earned, SomePassed, PatchInv
<1>2. ASSUME NEW c \in Clients, NEW model \in Models, NEW result \in Benchmarks,
             Benchmark(c, model, result)
      PROVE  RightsEarned'
  <2>1. /\ DOMAIN benchmarks' = DOMAIN benchmarks \cup {Len(benchmarks) + 1}
        /\ \A i \in DOMAIN benchmarks : benchmarks'[i] = benchmarks[i]
        /\ benchmarks'[Len(benchmarks) + 1].result = result
    BY <1>2 DEF Benchmark, PatchInv, TypeOK
  <2>2. SomePassed => SomePassed'
    BY <2>1 DEF SomePassed
  <2>3. /\ Job("update", NoProfile, result).result = result
        /\ Job("update", NoProfile, result).profile = NoProfile
    BY DEF Job
  <2>4. \A d \in Clients : job'[d] = IF d = c THEN Job("update", NoProfile, result) ELSE job[d]
    BY <1>2 DEF Benchmark, Become, PatchInv, TypeOK
  <2>5. ASSUME NEW d \in Clients
        PROVE  Earned(job[d].profile)' /\ (job[d].pc = "update" =>
                 \E i \in DOMAIN benchmarks : benchmarks[i].result = job[d].result)'
    <3>1. CASE d = c
      BY <2>1, <2>3, <2>4, <3>1 DEF Earned
    <3>2. CASE d # c
      BY <2>1, <2>2, <2>4, <3>2 DEF Earned, PatchInv, RightsEarned
    <3> QED BY <3>1, <3>2
  <2> QED BY <1>2, <2>2, <2>5 DEF RightsEarned, Earned, Benchmark, PatchInv
<1>3. ASSUME NEW c \in Clients, MergeWithStored(c)
      PROVE  RightsEarned'
  <2> DEFINE existing == Held(HostOf[c])
             next == IF existing.model = "none" THEN job[c].profile
                     ELSE Preserve(existing, job[c].profile)
             j == Job("remember", next, "none")
  <2>1. Earned(next)
    BY <1>3, JobsTyped, HeldIsProfile, HeldEarned, PreservedIsProfile
    DEF MergeWithStored, PatchInv, Earned, RightsEarned
  <2>2. j.profile = next /\ j.pc # "update"
    BY DEF Job
  <2>3. Become(c, j) /\ UNCHANGED <<benchmarks, database, memory>>
    BY <1>3 DEF MergeWithStored
  <2> HIDE DEF j, next
  <2> QED BY <2>1, <2>2, <2>3, JobEarned DEF RightsEarned, Earned, SomePassed, PatchInv
<1>4. ASSUME NEW c \in Clients, UpdateStored(c)
      PROVE  RightsEarned'
  <2> DEFINE existing == Held(HostOf[c])
             next == ApplyBenchmarkCapabilityUpdate(existing, job[c].result)
             j == IF existing.model = "none" THEN Idle ELSE Job("remember", next, "none")
  <2>1. ASSUME existing.model # "none"
        PROVE  Earned(next)
    <3>1. PICK i \in DOMAIN benchmarks : benchmarks[i].result = job[c].result
      BY <1>4 DEF UpdateStored, PatchInv, RightsEarned
    <3>2. "patch-generation" \in next.supported => QualifiesPatchGeneration(job[c].result)
      BY <2>1, HeldIsProfile, UpdatedIsProfile DEF PatchInv
    <3> QED BY <3>1, <3>2, QualifyingIsPassed DEF Earned
  <2>2. Earned(j.profile) /\ j.pc # "update"
    BY <2>1 DEF Job, Earned
  <2>3. Become(c, j) /\ UNCHANGED <<benchmarks, database, memory>>
    BY <1>4 DEF UpdateStored
  <2> HIDE DEF j
  <2> QED BY <2>2, <2>3, JobEarned DEF RightsEarned, Earned, SomePassed, PatchInv
<1>5. ASSUME NEW c \in Clients, Remember(c)
      PROVE  RightsEarned'
  <2> DEFINE j == [job[c] EXCEPT !.pc = "write"]
  <2>1. j.pc = "write" /\ j.profile = job[c].profile
    BY <1>5 DEF Remember, PatchInv, TypeOK
  <2>2. Become(c, j) /\ UNCHANGED <<benchmarks, database>>
    BY <1>5 DEF Remember
  <2>3. \A p \in Processes : Earned(memory'[p])
    BY <1>5 DEF Remember, PatchInv, RightsEarned, TypeOK
  <2> HIDE DEF j
  <2>4. Earned(j.profile)
    BY <2>1 DEF PatchInv, RightsEarned
  <2> QED BY <2>1, <2>2, <2>3, <2>4, JobEarned DEF RightsEarned, Earned, SomePassed, PatchInv
<1>6. ASSUME NEW c \in Clients, Write(c) \/ StoreFails(c)
      PROVE  RightsEarned'
  <2>1. Become(c, Idle) /\ UNCHANGED <<benchmarks, memory>> /\ database' \in {database, job[c].profile}
    BY <1>6 DEF Write, StoreFails
  <2> QED BY <2>1, JobEarned DEF RightsEarned, Earned, SomePassed, PatchInv
<1>7. ASSUME NEW p \in Processes, Exit(p)
      PROVE  RightsEarned'
  BY <1>7 DEF Exit, RightsEarned, Earned, SomePassed, PatchInv, TypeOK
<1>8. ASSUME NEW model \in Models, Register(model)
      PROVE  RightsEarned'
  BY <1>8 DEF Register, RightsEarned, Earned, SomePassed, PatchInv
<1>9. CASE Expire \/ UNCHANGED vars
  BY <1>9 DEF Expire, vars, RightsEarned, Earned, SomePassed, PatchInv
<1> QED BY <1>1, <1>2, <1>3, <1>4, <1>5, <1>6, <1>7, <1>8, <1>9 DEF Next

\* Whatever is interviewed, merged, lost and written over, no process admits
\* a patch before some benchmark was passed in all of its fixtures.
THEOREM PatchesAreBenchmarked == Spec => []PatchNeedsBenchmark
<1>1. Init => PatchInv
  BY InitTyped, InitEarned DEF PatchInv
<1>2. PatchInv /\ [Next]_vars => PatchInv'
  BY StepTyped, StepEarned DEF PatchInv
<1>3. PatchInv => PatchNeedsBenchmark
  BY HeldEarned
  DEF PatchInv, PatchNeedsBenchmark, Admits, ResolveWorkerProfile, Eligible, Earned, SomePassed
<1> QED BY <1>1, <1>2, <1>3, PTL DEF Spec

-----------------------------------------------------------------------------
(* The scoring.                                                            *)

\* The score of a case is that of no answer, of a poor one or of a sound one.
LEMMA CaseScores ==
  ASSUME NEW a \in [Cases -> Answer], NEW c \in Cases
  PROVE  ScoreOf(c, a[c]) \in {0, CaseOf[c].poor, CaseOf[c].sound}
BY DEF ScoreOf

LEMMA CaseTable ==
  /\ CaseOf["instruction-following"].poor = 20  /\ CaseOf["instruction-following"].sound = 100
  /\ CaseOf["structured-output"].poor = 38      /\ CaseOf["structured-output"].sound = 92
  /\ CaseOf["scope-discipline"].poor = 28       /\ CaseOf["scope-discipline"].sound = 94
  /\ CaseOf["summarization"].poor = 42          /\ CaseOf["summarization"].sound = 90
  /\ CaseOf["review-grounding"].poor = 26       /\ CaseOf["review-grounding"].sound = 93
  /\ CaseOf["evidence-sufficiency"].poor = 18   /\ CaseOf["evidence-sufficiency"].sound = 95
  /\ CaseOf["code-understanding"].poor = 44     /\ CaseOf["code-understanding"].sound = 88
  /\ CaseOf["codegen"].poor = 35                /\ CaseOf["codegen"].sound = 86
  /\ CaseOf["confidence-calibration"].poor = 20 /\ CaseOf["confidence-calibration"].sound = 92
BY DEF CaseOf, Cases, InstructionFollowing, StructuredOutput, ScopeDiscipline, Summarization,
       ReviewGrounding, EvidenceSufficiency, CodeUnderstanding, CodeGeneration,
       ConfidenceCalibration

\* The case scores a profile holds, and the two averages of them.
LEMMA ScoresAre ==
  ASSUME NEW a \in [Cases -> Answer], NEW tie \in {0, 1}, NEW s, s = Scores(a, tie)
  PROVE  /\ s.instructions = ScoreOf("instruction-following", a["instruction-following"])
         /\ s.scope = ScoreOf("scope-discipline", a["scope-discipline"])
         /\ s.summary = ScoreOf("summarization", a["summarization"])
         /\ s.review = ScoreOf("review-grounding", a["review-grounding"])
         /\ s.evidence = ScoreOf("evidence-sufficiency", a["evidence-sufficiency"])
         /\ s.code = ScoreOf("code-understanding", a["code-understanding"])
         /\ s.codeQuality = ScoreOf("codegen", a["codegen"])
         /\ s.structure = Average(2 * ScoreOf("structured-output", a["structured-output"])
                                  + s.scope, 3, tie)
BY DEF Scores, Cases

LEMMA ScoreValues ==
  ASSUME NEW a \in [Cases -> Answer], NEW tie \in {0, 1}, NEW s, s = Scores(a, tie)
  PROVE  /\ s.instructions \in {0, 20, 100} /\ s.scope \in {0, 28, 94}
         /\ s.summary \in {0, 42, 90} /\ s.review \in {0, 26, 93}
         /\ s.evidence \in {0, 18, 95} /\ s.code \in {0, 44, 88}
         /\ s.codeQuality \in {0, 35, 86}
         /\ ScoreOf("structured-output", a["structured-output"]) \in {0, 38, 92}
<1>1. {"instruction-following", "structured-output", "scope-discipline", "summarization",
       "review-grounding", "evidence-sufficiency", "code-understanding", "codegen"} \subseteq Cases
  BY DEF Cases
<1> QED BY <1>1, ScoresAre, CaseScores, CaseTable

\* A qualified model answered soundly in all cases but two.
LEMMA QualifiedIsSound ==
  ASSUME NEW a \in [Cases -> Answer], NEW tie \in {0, 1},
         NEW s, s = Scores(a, tie), NEW p, p = Portrait(s, tie), NEW t, t = TaskScores(s, p, tie),
         NEW supported, Qualified(a, s, t, supported)
  PROVE  /\ s.instructions = 100 /\ s.scope = 94 /\ s.review = 93 /\ s.evidence = 95
         /\ s.code = 88 /\ s.codeQuality = 86
         /\ ScoreOf("structured-output", a["structured-output"]) = 92
<1> DEFINE so == ScoreOf("structured-output", a["structured-output"])
<1>1. /\ s.instructions \in {0, 20, 100} /\ s.scope \in {0, 28, 94}
      /\ s.summary \in {0, 42, 90} /\ s.review \in {0, 26, 93}
      /\ s.evidence \in {0, 18, 95} /\ s.code \in {0, 44, 88}
      /\ s.codeQuality \in {0, 35, 86} /\ so \in {0, 38, 92}
      /\ s.structure = Average(2 * so + s.scope, 3, tie)
  BY ScoresAre, ScoreValues
<1>2. /\ s.instructions >= 70 /\ s.structure >= 70 /\ s.scope >= 72
      /\ t.codegen >= 78 /\ t.reviewLite >= 76 /\ t.riskAnalysis >= 76 /\ t.codeUnderstanding >= 74
  BY DEF Qualified, AdmissionPassed
<1>3. s.instructions = 100 /\ s.scope = 94
  BY <1>1, <1>2
<1>4. so = 92 /\ s.structure = 93
  BY <1>1, <1>2, <1>3 DEF Average
<1>5. p.implementationPlanning = Average(s.codeQuality + s.instructions + s.structure, 3, tie)
      /\ t.codegen = Average(s.codeQuality + p.implementationPlanning + s.instructions, 3, tie)
  BY DEF Portrait, TaskScores
<1>6. s.codeQuality = 86
  <2>1. CASE s.codeQuality = 0 BY <2>1, <1>2, <1>3, <1>4, <1>5 DEF Average
  <2>2. CASE s.codeQuality = 35 BY <2>2, <1>2, <1>3, <1>4, <1>5 DEF Average
  <2> QED BY <2>1, <2>2, <1>1
<1>7. /\ p.repoGrounding = Average(s.structure + s.scope + s.summary + s.review + s.evidence
                                   + s.code, 6, tie)
      /\ p.answerDirectness = Average(s.instructions + s.scope + s.summary + s.review
                                      + s.evidence, 5, tie)
      /\ p.codeUnderstanding = Average(s.code + s.review, 2, tie)
      /\ t.codeUnderstanding = Average(s.code + p.codeUnderstanding + p.repoGrounding, 3, tie)
      /\ t.reviewLite = Average(s.scope + 2 * s.review + 2 * s.evidence + p.repoGrounding
                                + p.answerDirectness + s.code, 8, tie)
  BY DEF Portrait, TaskScores
<1> HIDE DEF so
<1>8. p.repoGrounding <= 93 /\ p.answerDirectness <= 95
      /\ p.repoGrounding \in Int /\ p.answerDirectness \in Int
  BY <1>1, <1>3, <1>4, <1>7 DEF Average
<1>9. s.code = 88
  <2>1. p.codeUnderstanding \in Int /\ (s.code <= 44 => p.codeUnderstanding <= 69)
    BY <1>1, <1>7 DEF Average
  <2> QED BY <2>1, <1>1, <1>2, <1>7, <1>8 DEF Average
<1>10. s.evidence = 95 /\ s.review = 93
  BY <1>1, <1>2, <1>3, <1>7, <1>8, <1>9 DEF Average
<1> QED BY <1>3, <1>4, <1>6, <1>9, <1>10 DEF so

\* So all the other bars that reviewing and coding have to clear are cleared.
LEMMA QualifiedClearsTheBars ==
  ASSUME NEW a \in [Cases -> Answer], NEW tie \in {0, 1},
         NEW s, s = Scores(a, tie), NEW p, p = Portrait(s, tie), NEW t, t = TaskScores(s, p, tie),
         NEW supported, Qualified(a, s, t, supported)
  PROVE  /\ p.repoGrounding >= 72 /\ p.answerDirectness >= 72
         /\ p.codeUnderstanding >= 70 /\ p.implementationPlanning >= 72
         /\ t.codegen >= 78 /\ t.validationFix >= 76
         /\ {p.repoGrounding, t.codeUnderstanding, t.codegen} \subseteq Int
<1>1. /\ s.instructions = 100 /\ s.scope = 94 /\ s.review = 93 /\ s.evidence = 95
      /\ s.code = 88 /\ s.codeQuality = 86 /\ s.summary \in {0, 42, 90}
      /\ s.structure = 93
  <2>1. s.structure = Average(2 * 92 + 94, 3, tie)
    BY ScoresAre, QualifiedIsSound
  <2> QED BY <2>1, QualifiedIsSound, ScoreValues DEF Average
<1>2. /\ p.repoGrounding = Average(s.structure + s.scope + s.summary + s.review + s.evidence
                                   + s.code, 6, tie)
      /\ p.answerDirectness = Average(s.instructions + s.scope + s.summary + s.review
                                      + s.evidence, 5, tie)
      /\ p.codeUnderstanding = Average(s.code + s.review, 2, tie)
      /\ p.fixPlanning = Average(s.summary + s.review + s.evidence + s.scope
                                 + s.codeQuality, 5, tie)
      /\ p.implementationPlanning = Average(s.codeQuality + s.instructions + s.structure, 3, tie)
      /\ t.validationFix = Average(s.codeQuality + p.fixPlanning + p.implementationPlanning
                                   + s.instructions, 4, tie)
      /\ t.codegen = Average(s.codeQuality + p.implementationPlanning + s.instructions, 3, tie)
      /\ t.codeUnderstanding = Average(s.code + p.codeUnderstanding + p.repoGrounding, 3, tie)
  BY DEF Portrait, TaskScores
<1>3. /\ p.repoGrounding \in Int /\ p.codeUnderstanding \in Int /\ p.repoGrounding >= 72 /\ p.answerDirectness >= 72
      /\ p.codeUnderstanding >= 70 /\ p.implementationPlanning = 93
      /\ p.fixPlanning \in Int /\ p.fixPlanning >= 73
  BY <1>1, <1>2 DEF Average
<1>4. t.codegen = 93 /\ t.validationFix >= 76 /\ t.codeUnderstanding \in Int
  BY <1>1, <1>2, <1>3 DEF Average
<1> QED BY <1>3, <1>4

-----------------------------------------------------------------------------
(* The rights of a profile rest on an interview.                           *)

\* What an interview decided, save the right to patches.
SameButPatches(x, b) ==
  /\ x.model = b.model /\ x.evaluatedAt = b.evaluatedAt /\ x.status = b.status
  /\ x.supported \ {"patch-generation"} = b.supported
  /\ x.allowCodegen = b.allowCodegen
  /\ x.score = b.score /\ x.portrait = b.portrait /\ x.taskScores = b.taskScores
  /\ x.evidence = b.evidence /\ x.providerError = b.providerError

\* What BuildCapabilityProfile makes.
LEMMA BuiltFields ==
  ASSUME NEW a, NEW model, NEW tie, NEW at, NEW b, b = BuildCapabilityProfile(a, model, tie, at),
         NEW s, s = Scores(a, tie), NEW p, p = Portrait(s, tie), NEW t, t = TaskScores(s, p, tie)
  PROVE  /\ b.model = model /\ b.evaluatedAt = at
         /\ b.supported = Supported(s, p, t)
         /\ b.status = IF Qualified(a, s, t, b.supported) THEN "qualified" ELSE "not-qualified"
         /\ b.allowCodegen = ("codegen" \in b.supported)
         /\ b.score = s /\ b.portrait = p /\ b.taskScores = t
         /\ b.evidence = Evidence(a) /\ b.providerError = ProviderFailed(a)
BY DEF BuildCapabilityProfile

\* A task type a profile is eligible for, with the cases behind it.
LEMMA EligibleIsAnswered ==
  ASSUME NEW a \in [Cases -> Answer], NEW model, NEW tie \in {0, 1}, NEW at,
         NEW x, SameButPatches(x, BuildCapabilityProfile(a, model, tie, at)),
         NEW type \in TaskTypes, Eligible(x, type)
  PROVE  \A c \in CasesBehind(type) : Passed(c, a[c])
<1> DEFINE b == BuildCapabilityProfile(a, model, tie, at)
           s == Scores(a, tie)
           p == Portrait(s, tie)
           t == TaskScores(s, p, tie)
<1>1. /\ x.supported \ {"patch-generation"} = Supported(s, p, t)
      /\ x.status = IF Qualified(a, s, t, b.supported) THEN "qualified" ELSE "not-qualified"
      /\ x.score = s
  BY BuiltFields DEF SameButPatches
<1>2. /\ s.instructions = ScoreOf("instruction-following", a["instruction-following"])
      /\ s.scope = ScoreOf("scope-discipline", a["scope-discipline"])
      /\ s.review = ScoreOf("review-grounding", a["review-grounding"])
      /\ s.evidence = ScoreOf("evidence-sufficiency", a["evidence-sufficiency"])
      /\ s.code = ScoreOf("code-understanding", a["code-understanding"])
      /\ s.codeQuality = ScoreOf("codegen", a["codegen"])
  BY ScoresAre
<1>3. /\ s.instructions \in {0, 20, 100} /\ s.scope \in {0, 28, 94}
      /\ s.review \in {0, 26, 93} /\ s.evidence \in {0, 18, 95} /\ s.code \in {0, 44, 88}
      /\ s.codeQuality \in {0, 35, 86}
  BY ScoreValues
<1>4. type \in x.supported
  BY DEF Eligible
<1>5. CASE type = "patch-generation"
  <2>1. Qualified(a, s, t, b.supported)
    BY <1>1, <1>5 DEF Eligible
  <2>2. /\ s.instructions = 100 /\ s.scope = 94 /\ s.review = 93 /\ s.evidence = 95
        /\ s.code = 88 /\ s.codeQuality = 86
        /\ ScoreOf("structured-output", a["structured-output"]) = 92
    BY <2>1, QualifiedIsSound
  <2>3. CasesBehind(type) = Cases \ {"summarization", "confidence-calibration"}
    BY <1>5 DEF CasesBehind
  <2> HIDE DEF s
  <2> QED BY <1>2, <2>2, <2>3 DEF Passed, Cases
<1>6. CASE type # "patch-generation"
  <2>1. type \in Supported(s, p, t)
    BY <1>1, <1>4, <1>6
  <2> HIDE DEF s, p, t, b
  <2>2. CASE type \in {"review-lite", "risk-analysis"}
    <3>1. s.review >= 72 /\ s.evidence >= 72 /\ s.code >= 65
      BY <2>1, <2>2 DEF Supported
    <3>2. s.scope >= 76
      BY <1>1, <2>2 DEF Eligible, ReviewDiscipline
    <3>3. CasesBehind(type) = {"scope-discipline", "review-grounding", "evidence-sufficiency",
                               "code-understanding"}
      BY <2>2 DEF CasesBehind
    <3> QED BY <1>2, <1>3, <3>1, <3>2, <3>3 DEF Passed
  <2>3. CASE type = "code-understanding"
    <3>1. s.code >= 68
      BY <2>1, <2>3 DEF Supported
    <3>2. CasesBehind(type) = {"code-understanding"}
      BY <2>3 DEF CasesBehind
    <3> QED BY <1>2, <1>3, <3>1, <3>2 DEF Passed
  <2>4. CASE type \in {"summarization", "log-analysis", "json-extraction", "doc-generation"}
    <3>1. s.scope >= 72 /\ s.evidence >= 72
      BY <2>1, <2>4 DEF Supported
    <3>2. CasesBehind(type) = {"scope-discipline", "evidence-sufficiency"}
      BY <2>4 DEF CasesBehind
    <3> QED BY <1>2, <1>3, <3>1, <3>2 DEF Passed
  <2>5. CASE type \in {"codegen", "validation-fix", "test-generation"}
    <3>1. s.instructions >= 70 /\ s.codeQuality >= 75
      BY <2>1, <2>5 DEF Supported
    <3>2. CasesBehind(type) = {"instruction-following", "codegen"}
      BY <2>5 DEF CasesBehind
    <3> QED BY <1>2, <1>3, <3>1, <3>2 DEF Passed
  <2> QED BY <1>6, <2>2, <2>3, <2>4, <2>5 DEF TaskTypes
<1> QED BY <1>5, <1>6

\* The task types a ready worker is admitted and routed for.
LEMMA QualifiedIsRouted ==
  ASSUME NEW a \in [Cases -> Answer], NEW model, NEW tie \in {0, 1}, NEW at,
         NEW x, SameButPatches(x, BuildCapabilityProfile(a, model, tie, at)),
         x.status = "qualified",
         NEW type \in {"review-lite", "risk-analysis", "code-understanding", "codegen",
                       "validation-fix", "test-generation"}
  PROVE  Eligible(x, type)
<1> DEFINE b == BuildCapabilityProfile(a, model, tie, at)
           s == Scores(a, tie)
           p == Portrait(s, tie)
           t == TaskScores(s, p, tie)
<1>1. /\ b.supported = Supported(s, p, t)
      /\ b.status = IF Qualified(a, s, t, b.supported) THEN "qualified" ELSE "not-qualified"
      /\ b.score = s /\ b.portrait = p /\ b.taskScores = t /\ b.evidence = Evidence(a)
      /\ b.allowCodegen = ("codegen" \in b.supported)
  BY BuiltFields
<1> HIDE DEF b
<1>2. /\ x.supported \ {"patch-generation"} = Supported(s, p, t)
      /\ Qualified(a, s, t, b.supported)
      /\ x.score = s /\ x.portrait = p /\ x.taskScores = t /\ x.evidence = Evidence(a)
      /\ "codegen" \in b.supported => x.allowCodegen
  BY <1>1 DEF SameButPatches, b
<1>3. /\ s.instructions = 100 /\ s.scope = 94 /\ s.review = 93 /\ s.evidence = 95
      /\ s.code = 88 /\ s.codeQuality = 86
  BY <1>2, QualifiedIsSound
<1>4. /\ p.repoGrounding >= 72 /\ p.answerDirectness >= 72
      /\ p.codeUnderstanding >= 70 /\ p.implementationPlanning >= 72
      /\ t.codegen >= 78 /\ t.validationFix >= 76
      /\ {p.repoGrounding, t.codeUnderstanding, t.codegen} \subseteq Int
  BY <1>2, QualifiedClearsTheBars
<1>5. /\ t.reviewLite >= 76 /\ t.riskAnalysis >= 76
      /\ t.codeUnderstanding >= 74
      /\ x.evidence.generic = {} /\ x.evidence.fallback = {}
  BY <1>2 DEF Qualified, AdmissionPassed
<1> HIDE DEF s, p, t
<1>6. {"review-lite", "risk-analysis", "code-understanding", "codegen", "validation-fix",
       "test-generation"} \subseteq Supported(s, p, t)
  <2>1. /\ s.review >= 72 /\ s.evidence >= 72 /\ s.code >= 68 /\ s.code >= 65
        /\ s.codeQuality >= 75 /\ s.instructions >= 70
    BY <1>3
  <2>2. t.codeUnderstanding >= 72
    BY <1>4, <1>5
  <2> QED BY <1>4, <2>1, <2>2 DEF Supported
<1>7. type \in x.supported /\ x.allowCodegen
  BY <1>1, <1>2, <1>6
<1>8. CASE type = "review-lite"
  <2>1. ReviewDiscipline(x, x.taskScores.reviewLite)
    BY <1>2, <1>3, <1>4, <1>5 DEF ReviewDiscipline
  <2> QED BY <1>7, <1>8, <2>1 DEF Eligible
<1>9. CASE type = "risk-analysis"
  <2>1. ReviewDiscipline(x, x.taskScores.riskAnalysis)
    BY <1>2, <1>3, <1>4, <1>5 DEF ReviewDiscipline
  <2> QED BY <1>7, <1>9, <2>1 DEF Eligible
<1>10. CASE type = "code-understanding"
  <2>1. CodeComprehension(x)
    BY <1>2, <1>4, <1>5 DEF CodeComprehension
  <2> QED BY <1>7, <1>10, <2>1 DEF Eligible
<1>11. CASE type \in {"codegen", "test-generation"}
  BY <1>7, <1>11 DEF Eligible
<1>12. CASE type = "validation-fix"
  <2>1. FixQuality(x)
    BY <1>2, <1>3, <1>4, <1>7 DEF FixQuality
  <2> QED BY <1>7, <1>12, <2>1 DEF Eligible
<1> QED BY <1>8, <1>9, <1>10, <1>11, <1>12

\* A profile that stems from one of the interviews of history h.
Stems(x, h) ==
  \E i \in DOMAIN h, tie \in Ties :
    SameButPatches(x, BuildCapabilityProfile(h[i].answers, h[i].model, tie, i))

StemsOrNone(x, h) == x = NoProfile \/ Stems(x, h)

\* Whatever holds a profile holds one that stems from an interview.
ProfilesStem ==
  /\ StemsOrNone(database, interviews)
  /\ \A p \in Processes : StemsOrNone(memory[p], interviews)
  /\ \A c \in Clients : StemsOrNone(job[c].profile, interviews)

LEMMA StemsGrow ==
  ASSUME NEW S, NEW h \in Seq(S), NEW e \in S, NEW x, StemsOrNone(x, h)
  PROVE  StemsOrNone(x, Append(h, e))
<1>1. /\ DOMAIN h \subseteq DOMAIN Append(h, e)
      /\ \A i \in DOMAIN h : Append(h, e)[i] = h[i]
  OBVIOUS
<1> QED BY <1>1 DEF StemsOrNone, Stems

\* A fresh profile stems from the interview that was just appended.
LEMMA BuiltStems ==
  ASSUME NEW S, NEW h \in Seq(S), NEW model \in Models, NEW answers, NEW tie \in Ties,
         NEW e \in S, e = [model |-> model, answers |-> answers],
         NEW x, x = BuildCapabilityProfile(answers, model, tie, Len(h) + 1)
  PROVE  Stems(x, Append(h, e))
<1>1. /\ Len(h) + 1 \in DOMAIN Append(h, e)
      /\ Append(h, e)[Len(h) + 1] = e
      /\ Len(h) + 1 \in Nat
  OBVIOUS
<1>2. x.supported \ {"patch-generation"} = x.supported
  BY <1>1, BuiltIsProfile
<1>3. SameButPatches(x, x)
  BY <1>2 DEF SameButPatches
<1> QED BY <1>1, <1>3 DEF Stems

\* Giving or taking the right to patches leaves the rest of a profile.
LEMMA WithPatchGenerationIsSame ==
  ASSUME NEW x, IsProfile(x), NEW allowed \in BOOLEAN, NEW y, y = WithPatchGeneration(x, allowed),
         NEW b, SameButPatches(x, b)
  PROVE  SameButPatches(y, b)
<1>1. /\ y.model = x.model /\ y.evaluatedAt = x.evaluatedAt /\ y.status = x.status
      /\ y.allowCodegen = x.allowCodegen
      /\ y.score = x.score /\ y.portrait = x.portrait /\ y.taskScores = x.taskScores
      /\ y.evidence = x.evidence /\ y.providerError = x.providerError
  BY DEF WithPatchGeneration, IsProfile, ProfileFields
<1>2. y.supported \ {"patch-generation"} = x.supported \ {"patch-generation"}
  BY DEF WithPatchGeneration, IsProfile, ProfileFields
<1> QED BY <1>1, <1>2 DEF SameButPatches

LEMMA PreservedStems ==
  ASSUME NEW x, NEW y, IsProfile(y), NEW h, Stems(y, h), NEW z, z = Preserve(x, y)
  PROVE  Stems(z, h)
<1>1. CASE z = y
  BY <1>1
<1>2. CASE z = WithPatchGeneration(y, TRUE)
  <2>1. \A b : SameButPatches(y, b) => SameButPatches(z, b)
    <3>1. TRUE \in BOOLEAN
      OBVIOUS
    <3> QED BY <1>2, <3>1, WithPatchGenerationIsSame, Zenon
  <2> QED BY <2>1 DEF Stems
<1>3. z = y \/ z = WithPatchGeneration(y, TRUE)
  BY DEF Preserve
<1> QED BY <1>1, <1>2, <1>3

LEMMA UpdatedStems ==
  ASSUME NEW x, IsProfile(x), NEW r, NEW h, Stems(x, h)
  PROVE  Stems(ApplyBenchmarkCapabilityUpdate(x, r), h)
<1> DEFINE allowed == x.status = "qualified" /\ QualifiesPatchGeneration(r)
<1>1. allowed \in BOOLEAN
  OBVIOUS
<1> HIDE DEF allowed
<1>2. ApplyBenchmarkCapabilityUpdate(x, r) = WithPatchGeneration(x, allowed)
  BY DEF ApplyBenchmarkCapabilityUpdate, allowed
<1> QED BY <1>1, <1>2, WithPatchGenerationIsSame DEF Stems

\* What a process holds stems from an interview.
LEMMA HeldStems ==
  ASSUME ProfilesStem, NEW p \in Processes, Held(p).model # "none"
  PROVE  Stems(Held(p), interviews)
BY NoProfileIsNone DEF ProfilesStem, StemsOrNone, Held

StemInv == TypeOK /\ ProfilesStem

LEMMA InitStems == Init => ProfilesStem
BY IdleIsJob DEF Init, ProfilesStem, StemsOrNone

LEMMA JobStems ==
  ASSUME StemInv, NEW c \in Clients, NEW j, Become(c, j), UNCHANGED interviews,
         StemsOrNone(j.profile, interviews)
  PROVE  \A d \in Clients : StemsOrNone(job'[d].profile, interviews')
BY DEF Become, StemInv, TypeOK, ProfilesStem

LEMMA StepStems == StemInv /\ [Next]_vars => ProfilesStem'
<1> SUFFICES ASSUME StemInv, [Next]_vars
             PROVE  ProfilesStem'
  OBVIOUS
<1> USE NoProfileIsNone, IdleIsJob
<1>1. ASSUME NEW c \in Clients, NEW model \in Models, NEW answers \in Interviews,
             NEW tie \in Ties, Interview(c, model, answers, tie)
      PROVE  ProfilesStem'
  <2> DEFINE e == [model |-> model, answers |-> answers]
             S == [model : Models, answers : Interviews]
             profile == BuildCapabilityProfile(answers, model, tie, Len(interviews'))
             j == IF CanPersist(answers) THEN Job("merge", profile, "none") ELSE Idle
  <2>1. /\ interviews \in Seq(S) /\ e \in S /\ interviews' = Append(interviews, e)
        /\ Len(interviews') = Len(interviews) + 1
    BY <1>1, LengthsAreNat DEF Interview, StemInv
  <2>2. Become(c, j) /\ UNCHANGED <<database, memory>>
    BY <1>1 DEF Interview
  <2>3. Stems(profile, interviews')
    BY <2>1, BuiltStems
  <2> HIDE DEF profile, e, S
  <2>4. StemsOrNone(j.profile, interviews')
    BY <2>3 DEF Job, StemsOrNone
  <2>5. \A x : StemsOrNone(x, interviews) => StemsOrNone(x, interviews')
    BY <2>1, StemsGrow
  <2> HIDE DEF j
  <2>6. \A d \in Clients : job'[d] = IF d = c THEN j ELSE job[d]
    BY <2>2 DEF Become, StemInv, TypeOK
  <2> QED BY <2>2, <2>4, <2>5, <2>6 DEF ProfilesStem, StemInv
<1>2. ASSUME NEW c \in Clients, NEW model \in Models, NEW result \in Benchmarks,
             Benchmark(c, model, result)
      PROVE  ProfilesStem'
  <2> DEFINE j == Job("update", NoProfile, result)
  <2>1. StemsOrNone(j.profile, interviews)
    BY DEF Job, StemsOrNone
  <2>2. Become(c, j) /\ UNCHANGED <<interviews, database, memory>>
    BY <1>2 DEF Benchmark
  <2> HIDE DEF j
  <2> QED BY <2>1, <2>2, JobStems DEF ProfilesStem, StemInv
<1>3. ASSUME NEW c \in Clients, MergeWithStored(c)
      PROVE  ProfilesStem'
  <2> DEFINE existing == Held(HostOf[c])
             next == IF existing.model = "none" THEN job[c].profile
                     ELSE Preserve(existing, job[c].profile)
             j == Job("remember", next, "none")
  <2>1. IsProfile(job[c].profile)
    BY <1>3, JobsTyped DEF MergeWithStored, StemInv
  <2>2. Stems(job[c].profile, interviews)
    BY <2>1 DEF StemInv, ProfilesStem, StemsOrNone
  <2>3. Stems(next, interviews)
    BY <2>1, <2>2, PreservedStems
  <2>4. j.profile = next
    BY DEF Job
  <2>5. Become(c, j) /\ UNCHANGED <<interviews, database, memory>>
    BY <1>3 DEF MergeWithStored
  <2> HIDE DEF j, next
  <2> QED BY <2>3, <2>4, <2>5, JobStems DEF ProfilesStem, StemInv, StemsOrNone
<1>4. ASSUME NEW c \in Clients, UpdateStored(c)
      PROVE  ProfilesStem'
  <2> DEFINE existing == Held(HostOf[c])
             next == ApplyBenchmarkCapabilityUpdate(existing, job[c].result)
             j == IF existing.model = "none" THEN Idle ELSE Job("remember", next, "none")
  <2>1. existing.model # "none" => Stems(next, interviews)
    BY HeldIsProfile, HeldStems, UpdatedStems DEF StemInv
  <2>2. StemsOrNone(j.profile, interviews)
    BY <2>1 DEF Job, StemsOrNone
  <2>3. Become(c, j) /\ UNCHANGED <<interviews, database, memory>>
    BY <1>4 DEF UpdateStored
  <2> HIDE DEF j
  <2> QED BY <2>2, <2>3, JobStems DEF ProfilesStem, StemInv
<1>5. ASSUME NEW c \in Clients, Remember(c)
      PROVE  ProfilesStem'
  <2> DEFINE j == [job[c] EXCEPT !.pc = "write"]
  <2>1. j.profile = job[c].profile
    BY <1>5 DEF Remember, StemInv, TypeOK
  <2>2. Become(c, j) /\ UNCHANGED <<interviews, database>>
    BY <1>5 DEF Remember
  <2>3. \A p \in Processes : memory'[p] \in {memory[p], job[c].profile}
    BY <1>5 DEF Remember, StemInv, TypeOK
  <2> HIDE DEF j
  <2>4. StemsOrNone(j.profile, interviews)
    BY <2>1 DEF StemInv, ProfilesStem
  <2>5. \A p \in Processes : StemsOrNone(memory'[p], interviews)
    BY <2>3 DEF StemInv, ProfilesStem
  <2> QED BY <2>2, <2>4, <2>5, JobStems DEF ProfilesStem, StemInv
<1>6. ASSUME NEW c \in Clients, Write(c) \/ StoreFails(c)
      PROVE  ProfilesStem'
  <2>1. /\ Become(c, Idle) /\ UNCHANGED <<interviews, memory>>
        /\ database' \in {database, job[c].profile}
    BY <1>6 DEF Write, StoreFails
  <2>2. StemsOrNone(Idle.profile, interviews)
    BY DEF StemsOrNone
  <2>3. \A d \in Clients : StemsOrNone(job'[d].profile, interviews')
    BY <2>1, <2>2, JobStems
  <2> QED BY <2>1, <2>3 DEF ProfilesStem, StemInv
<1>7. ASSUME NEW p \in Processes, Exit(p)
      PROVE  ProfilesStem'
  BY <1>7 DEF Exit, ProfilesStem, StemsOrNone, StemInv, TypeOK
<1>8. ASSUME NEW model \in Models, Register(model)
      PROVE  ProfilesStem'
  BY <1>8 DEF Register, ProfilesStem, StemInv
<1>9. CASE Expire \/ UNCHANGED vars
  BY <1>9 DEF Expire, vars, ProfilesStem, StemInv
<1> QED BY <1>1, <1>2, <1>3, <1>4, <1>5, <1>6, <1>7, <1>8, <1>9 DEF Next

LEMMA ProfilesAlwaysStem == Spec => []StemInv
<1>1. Init => StemInv
  BY InitTyped, InitStems DEF StemInv
<1>2. StemInv /\ [Next]_vars => StemInv'
  BY StepTyped, StepStems DEF StemInv
<1> QED BY <1>1, <1>2, PTL DEF Spec

\* The profile a process takes as usable, with the interview behind it.
LEMMA UsableStems ==
  ASSUME StemInv, NEW p \in Processes, ResolveWorkerProfile(p).source = "persisted"
  PROVE  LET x == Held(p)
             interview == interviews[x.evaluatedAt]
         IN  /\ x.evaluatedAt \in DOMAIN interviews
             /\ interview.answers \in [Cases -> Answer]
             /\ interview.model = registered
             /\ ~ProviderFailed(interview.answers)
             /\ \E tie \in {0, 1} :
                  SameButPatches(x, BuildCapabilityProfile(interview.answers, interview.model,
                                                           tie, x.evaluatedAt))
<1> DEFINE x == Held(p)
<1>1. x.model = registered /\ ~x.providerError /\ x.model # "none"
  BY DEF ResolveWorkerProfile
<1>2. PICK i \in DOMAIN interviews, tie \in Ties :
        SameButPatches(x, BuildCapabilityProfile(interviews[i].answers, interviews[i].model, tie, i))
  BY <1>1, HeldStems DEF Stems, StemInv
<1>3. interviews[i] \in [model : Models, answers : Interviews]
  <2> DEFINE S == [model : Models, answers : Interviews]
  <2>1. interviews \in Seq(S)
    BY LengthsAreNat DEF StemInv
  <2> HIDE DEF S
  <2>2. interviews[i] \in S
    BY <2>1
  <2> QED BY <2>2 DEF S
<1>4. /\ x.model = interviews[i].model /\ x.evaluatedAt = i
      /\ x.providerError = ProviderFailed(interviews[i].answers)
  BY <1>2, BuiltFields DEF SameButPatches
<1> QED BY <1>1, <1>2, <1>3, <1>4

\* Whatever is interviewed, merged, given patches, lost and written over, a
\* task is admitted only for the registered model, after an interview in
\* which it was always reached and passed every case behind the task's type.
THEOREM RightsAreAnswered == Spec => []RightsRestOnAnswers
<1>1. ASSUME StemInv, NEW p \in Processes, NEW t \in TaskTypes, Admits(p, t)
      PROVE  LET interview == interviews[Held(p).evaluatedAt]
             IN  /\ interview.model = registered
                 /\ \A c \in Cases : interview.answers[c].reply # "unreachable"
                 /\ \A c \in CasesBehind(t) : Passed(c, interview.answers[c])
  <2>1. ResolveWorkerProfile(p).source = "persisted" /\ Eligible(Held(p), t)
    BY <1>1 DEF Admits, ResolveWorkerProfile
  <2> QED BY <1>1, <2>1, UsableStems, EligibleIsAnswered DEF ProviderFailed
<1>2. StemInv => RightsRestOnAnswers
  BY <1>1 DEF RightsRestOnAnswers
<1> QED BY <1>2, ProfilesAlwaysStem, PTL

\* A worker that is reported as ready is admitted and routed for every task
\* type of reviewing and coding: the bars of the interview, of the
\* eligibility and of the agents' primary types agree for every interview.
THEOREM ReadyWorkersAreRouted == Spec => []ReadyMeansRouted
<1> DEFINE Promised == {"review-lite", "risk-analysis", "code-understanding", "codegen",
                        "validation-fix", "test-generation"}
<1>1. ASSUME StemInv, NEW p \in Processes, Ready(ResolveWorkerProfile(p), "not-run"),
             NEW t \in Promised
      PROVE  Admits(p, t) /\ Routed(ResolveWorkerProfile(p).profile, t)
  <2>1. /\ ResolveWorkerProfile(p).source = "persisted"
        /\ ResolveWorkerProfile(p).profile = Held(p) /\ Held(p).status = "qualified"
    <3>1. ResolveWorkerProfile(p).profile = Held(p)
      BY DEF ResolveWorkerProfile
    <3>2. ResolveWorkerProfile(p).source \in {"missing", "incompatible", "provider-error", "stale",
                                              "persisted"}
      BY DEF ResolveWorkerProfile
    <3>3. ResolveWorkerProfile(p).source = "persisted"
      BY <1>1, <3>2 DEF Ready, UnavailableReason, ProfileCheck
    <3>4. IsProfile(Held(p))
      BY <1>1, <3>3, HeldIsProfile DEF StemInv, ResolveWorkerProfile
    <3> QED BY <1>1, <3>1, <3>3, <3>4 DEF Ready, UnavailableReason, ProfileCheck, IsProfile
  <2>2. PrimaryTaskType(t) \in {"review-lite", "codegen", "test-generation"}
    BY DEF PrimaryTaskType
  <2>3. \A type \in Promised : Eligible(Held(p), type)
    BY <1>1, <2>1, UsableStems, QualifiedIsRouted
  <2> QED BY <2>1, <2>2, <2>3 DEF Admits, Routed
<1>2. StemInv => ReadyMeansRouted
  BY <1>1 DEF ReadyMeansRouted
<1> QED BY <1>2, ProfilesAlwaysStem, PTL
=============================================================================

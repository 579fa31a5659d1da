------------------------- MODULE WorkerQualification -------------------------
(***************************************************************************)
(* How one worker comes by the right to do tasks and how it loses it:      *)
(* "cw worker interview --save" and "cw worker benchmark --save            *)
(* --update-profile-capabilities" evaluate a model and write the           *)
(* capability profile, the model the worker is registered with may change  *)
(* meanwhile, and every process that runs a task resolves the profile on   *)
(* its own.                                                                *)
(*                                                                         *)
(* A process keeps the profiles it saved in its memory, which it reads     *)
(* before the database.  A client is one evaluation at a time in a process:*)
(* a command, or a tool call of the MCP server.  Between the reading of    *)
(* the stored profile and the write of the next one others may write.      *)
(***************************************************************************)
EXTENDS WorkerInterview, WorkerRouting

CONSTANTS
  Processes, Clients,
  HostOf,          \* the process a client is in
  Models,          \* the models the worker is registered with over time
  Interviews,      \* the answers a model may give to the nine cases
  Benchmarks,      \* the results it may have in the four fixtures
  Ties,            \* the sides to which toFixed(2) rounds a tie, of 0 and 1
  MaxEvaluations,  \* bound: interviews and benchmarks
  MaxSwitches      \* bound: changes of the registered model

ASSUME ActorsAssumption == HostOf \in [Clients -> Processes]
ASSUME EvaluationsAssumption ==
  /\ "none" \notin Models
  /\ Interviews \subseteq [Cases -> Answer] /\ Benchmarks \subseteq FixtureResults
  /\ Ties \subseteq {0, 1} /\ MaxEvaluations \in Nat /\ MaxSwitches \in Nat

VARIABLES
  registered,  \* the model in the registration of the worker
  database,    \* the row of the worker in worker_profiles
  memory,      \* memory[p]: the profile that process p has saved itself
  job,         \* job[c]: what client c is doing
  interviews,  \* history: the model and the answers of every interview
  benchmarks,  \* history: the model and the results of every benchmark
  expired,     \* the profiles of so many interviews are over 30 days old
  switches

vars == <<registered, database, memory, job, interviews, benchmarks, expired, switches>>

NoProfile == [model |-> "none", supported |-> {}]
Job(pc, profile, result) == [pc |-> pc, profile |-> profile, result |-> result]
Idle == Job("idle", NoProfile, "none")

Init ==
  /\ registered \in Models
  /\ database = NoProfile /\ memory = [p \in Processes |-> NoProfile]
  /\ job = [c \in Clients |-> Idle]
  /\ interviews = <<>> /\ benchmarks = <<>>
  /\ expired = 0 /\ switches = 0

\* getWorkerProfile of a process: its memory shadows the database.
Held(p) == IF memory[p].model # "none" THEN memory[p] ELSE database

Become(c, j) == job' = [job EXCEPT ![c] = j]

-----------------------------------------------------------------------------
(* runWorkerInterviewOnboarding, saving the profile.                       *)

\* The suite is run against the model the client was told, or against the
\* registered one; persistInterviewProfile skips what must not be kept.
Interview(c, model, answers, tie) ==
  /\ job[c].pc = "idle"
  /\ Len(interviews) + Len(benchmarks) < MaxEvaluations
  /\ interviews' = Append(interviews, [model |-> model, answers |-> answers])
  /\ LET profile == BuildCapabilityProfile(answers, model, tie, Len(interviews'))
     IN  Become(c, IF CanPersist(answers) THEN Job("merge", profile, "none") ELSE Idle)
  /\ UNCHANGED <<registered, database, memory, benchmarks, expired, switches>>

\* The stored profile is read, and its right to patches kept.
MergeWithStored(c) ==
  /\ job[c].pc = "merge"
  /\ LET existing == Held(HostOf[c])
         next == IF existing.model = "none" THEN job[c].profile
                 ELSE Preserve(existing, job[c].profile)
     IN  Become(c, Job("remember", next, "none"))
  /\ UNCHANGED <<registered, database, memory, interviews, benchmarks, expired, switches>>

-----------------------------------------------------------------------------
(* runWorkerBenchmarkOnboarding, updating the profile.                     *)

Benchmark(c, model, result) ==
  /\ job[c].pc = "idle"
  /\ Len(interviews) + Len(benchmarks) < MaxEvaluations
  /\ benchmarks' = Append(benchmarks, [model |-> model, result |-> result])
  /\ Become(c, Job("update", NoProfile, result))
  /\ UNCHANGED <<registered, database, memory, interviews, expired, switches>>

\* The stored profile is read and its right to patches given or taken; it
\* throws if there is no profile.
UpdateStored(c) ==
  /\ job[c].pc = "update"
  /\ LET existing == Held(HostOf[c])
     IN  Become(c, IF existing.model = "none" THEN Idle
                   ELSE Job("remember",
                            ApplyBenchmarkCapabilityUpdate(existing, job[c].result), "none"))
  /\ UNCHANGED <<registered, database, memory, interviews, benchmarks, expired, switches>>

-----------------------------------------------------------------------------
(* saveWorkerProfile: the memory first, then the database.                 *)

Remember(c) ==
  /\ job[c].pc = "remember"
  /\ memory' = [memory EXCEPT ![HostOf[c]] = job[c].profile]
  /\ Become(c, [job[c] EXCEPT !.pc = "write"])
  /\ UNCHANGED <<registered, database, interviews, benchmarks, expired, switches>>

Write(c) ==
  /\ job[c].pc = "write"
  /\ database' = job[c].profile
  /\ Become(c, Idle)
  /\ UNCHANGED <<registered, memory, interviews, benchmarks, expired, switches>>

\* The database is busy or broken: the exception ends the evaluation.
StoreFails(c) ==
  /\ job[c].pc \in {"merge", "update", "write"}
  /\ Become(c, Idle)
  /\ UNCHANGED <<registered, database, memory, interviews, benchmarks, expired, switches>>

-----------------------------------------------------------------------------
(* The world around.                                                       *)

Exit(p) ==
  /\ memory[p] # NoProfile \/ \E c \in Clients : HostOf[c] = p /\ job[c] # Idle
  /\ memory' = [memory EXCEPT ![p] = NoProfile]
  /\ job' = [c \in Clients |-> IF HostOf[c] = p THEN Idle ELSE job[c]]
  /\ UNCHANGED <<registered, database, interviews, benchmarks, expired, switches>>

\* "cw worker register" with another model.
Register(model) ==
  /\ model # registered /\ switches < MaxSwitches
  /\ registered' = model
  /\ switches' = switches + 1
  /\ UNCHANGED <<database, memory, job, interviews, benchmarks, expired>>

Expire ==
  /\ expired < Len(interviews)
  /\ expired' = expired + 1
  /\ UNCHANGED <<registered, database, memory, job, interviews, benchmarks, switches>>

Next ==
  \/ \E c \in Clients :
       \/ \E model \in Models, answers \in Interviews, tie \in Ties :
            Interview(c, model, answers, tie)
       \/ \E model \in Models, result \in Benchmarks : Benchmark(c, model, result)
       \/ MergeWithStored(c) \/ UpdateStored(c)
       \/ Remember(c) \/ Write(c) \/ StoreFails(c)
  \/ \E p \in Processes : Exit(p)
  \/ \E model \in Models : Register(model)
  \/ Expire

Spec == Init /\ [][Next]_vars

-----------------------------------------------------------------------------
(* What a process lets the worker do: resolveWorkerProfile, then the       *)
(* eligibility of the task, then the route.                                *)

\* Mutant: the profile of another model is taken.
ResolveAnyModel(p) ==
  LET profile == Held(p)
  IN  [profile |-> profile,
       source |-> IF profile.model = "none" THEN "missing"
                  ELSE IF profile.providerError THEN "provider-error"
                  ELSE IF profile.evaluatedAt <= expired THEN "stale"
                  ELSE "persisted"]

ResolveWorkerProfile(p) ==
  LET profile == Held(p)
  IN  [profile |-> profile,
       source |-> IF profile.model = "none" THEN "missing"
                  ELSE IF profile.model # registered THEN "incompatible"
                  ELSE IF profile.providerError THEN "provider-error"
                  ELSE IF profile.evaluatedAt <= expired THEN "stale"
                  ELSE "persisted"]

Admits(p, taskType) ==
  LET resolution == ResolveWorkerProfile(p)
  IN  resolution.source = "persisted" /\ Eligible(resolution.profile, taskType)

\* What a profile is made of; the scores are left to the runs.
ProfileFields == {"model", "evaluatedAt", "status", "supported", "unsupported", "allowCodegen",
                  "allowPatchGeneration", "score", "portrait", "taskScores", "evidence",
                  "providerError"}
IsProfile(x) ==
  /\ DOMAIN x = ProfileFields
  /\ x.model \in Models
  /\ x.evaluatedAt \in Nat
  /\ x.status \in {"qualified", "not-qualified"}
  /\ x.supported \subseteq TaskTypes
  /\ x.unsupported = TaskTypes \ x.supported
  /\ x.allowPatchGeneration = ("patch-generation" \in x.supported)

\* Types, and that no profile contradicts itself about patches.
TypeOK ==
  /\ registered \in Models
  /\ database = NoProfile \/ IsProfile(database)
  /\ DOMAIN memory = Processes /\ DOMAIN job = Clients
  /\ \A p \in Processes : memory[p] = NoProfile \/ IsProfile(memory[p])
  /\ \A c \in Clients :
       \/ job[c] = Idle
       \/ job[c].pc = "update" /\ job[c].profile = NoProfile /\ job[c].result \in FixtureResults
       \/ job[c].pc \in {"merge", "remember", "write"} /\ IsProfile(job[c].profile)
  /\ interviews \in Seq([model : Models, answers : Interviews])
  /\ benchmarks \in Seq([model : Models, result : Benchmarks])
  /\ expired \in 0..Len(interviews) /\ switches \in 0..MaxSwitches

\* No process lets the worker generate patches before some benchmark was
\* passed in every fixture, whatever was interviewed, benchmarked, merged and
\* written over in between.
PatchNeedsBenchmark ==
  \A p \in Processes : Admits(p, "patch-generation") =>
    \E i \in DOMAIN benchmarks : \A f \in Fixtures : benchmarks[i].result[f] = "passed"

\* The cases a right to a task type really rests on, although it is decided
\* from averages of averages.
CasesBehind(taskType) ==
  CASE taskType \in {"review-lite", "risk-analysis"} ->
         {"scope-discipline", "review-grounding", "evidence-sufficiency", "code-understanding"}
    [] taskType = "code-understanding" -> {"code-understanding"}
    [] taskType \in {"summarization", "log-analysis", "json-extraction", "doc-generation"} ->
         {"scope-discipline", "evidence-sufficiency"}
    [] taskType \in {"codegen", "validation-fix", "test-generation"} ->
         {"instruction-following", "codegen"}
    [] taskType = "patch-generation" -> Cases \ {"summarization", "confidence-calibration"}

\* A task is admitted only if the registered model itself passed the cases
\* behind its type, in an interview in which the provider always answered.
RightsRestOnAnswers ==
  \A p \in Processes, t \in TaskTypes : Admits(p, t) =>
    LET interview == interviews[Held(p).evaluatedAt]
    IN  /\ interview.model = registered
        /\ \A c \in Cases : interview.answers[c].reply # "unreachable"
        /\ \A c \in CasesBehind(t) : Passed(c, interview.answers[c])

\* A worker reported as ready is admitted and routed for all the task types
\* of reviewing and coding: the bars of buildCapabilityProfile, of the
\* eligibility and of the routed primary types agree for it.
ReadyMeansRouted ==
  \A p \in Processes :
    LET resolution == ResolveWorkerProfile(p)
    IN  Ready(resolution, "not-run") =>
          \A t \in {"review-lite", "risk-analysis", "code-understanding", "codegen",
                    "validation-fix", "test-generation"} :
            Admits(p, t) /\ Routed(resolution.profile, t)
=============================================================================

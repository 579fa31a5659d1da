--------------------------- MODULE WorkerExecution ---------------------------
(***************************************************************************)
(* A task given to a worker: runHostWorkerWorkflow and, for a patch,       *)
(* runPatchProposalWorkflow, with the agent and the structured invocation  *)
(* under them.  A call selects the files it is about and, in the reviews   *)
(* and fixes, runs the validation; it resolves the profile of the worker,  *)
(* decides whether the worker may do the task, invokes its model until an  *)
(* answer has the contract's shape or the attempts are used up, judges the *)
(* answer, stores an execution record and writes its audit events.  The    *)
(* stored profile may change between any two steps, every write may fail,  *)
(* and the process may crash.                                              *)
(***************************************************************************)
EXTENDS WorkerRouting, SemanticValidation, RepositoryContext

CONSTANTS
  Calls,
  Tasks,           \* the task types that are asked for
  Resolutions,     \* what resolving the worker's profile may give
  Workspace,       \* see RepositoryContext
  Subjects,        \* who calls, about what: [caller, scope, names, checks]
  Answers,         \* answers of the shape of a task's contract
  Proposals,       \* patch proposals, with "inspects": ok, blocked or corrupt
  RepairAttempts   \* of the model's behavior profile

ASSUME AttemptsAssumption == RepairAttempts \in 1..5
ASSUME ScopeAssumption == NoScope \notin Workspace.dirs

VARIABLES
  stored,   \* what resolving the profile gives at present
  call,     \* call[c]: how far call c is, what it was asked and has got
  records,  \* records[c]: its row of worker_task_executions
  events    \* events[c]: its rows of audit_events

vars == <<stored, call, records, events>>

PatchTask == "patch-generation"
NoRecord  == [status |-> "none"]
NoReply   == [class |-> "none"]
NoPack    == [selected |-> {}]
Unresolved == [source |-> "unresolved"]
Unstarted == [pc |-> "idle"]

\* A tool or command calls for any task, without a report.  The workflows for
\* reviews, fixes and task sessions validate first, pass on files for a review
\* only, and force the execution in a dry run.
Requests ==
  {r \in [task : Tasks, force : BOOLEAN, require : BOOLEAN, dry : BOOLEAN, about : Subjects] :
     /\ r.task = PatchTask => ~r.force /\ r.about.names = {}
     /\ r.about.caller = "tool" => r.about.checks = {}
     /\ r.about.caller = "workflow" =>
          /\ r.task \in {"review-lite", "log-analysis", "codegen", PatchTask}
          /\ r.about.names # {} => r.task = "review-lite"
          /\ r.task # PatchTask => r.force = (r.dry /\ ~r.require)}

Init ==
  /\ stored \in Resolutions
  /\ call = [c \in Calls |-> Unstarted]
  /\ records = [c \in Calls |-> NoRecord]
  /\ events = [c \in Calls |-> {}]

Become(c, k) == call' = [call EXCEPT ![c] = k]
Go(c, pc) == Become(c, [call[c] EXCEPT !.pc = pc])

-----------------------------------------------------------------------------
(* The call, its files, its report and the profile.                        *)

Host(k) == k.request.task # PatchTask
ByTool(k) == k.request.about.caller = "tool"

Ask(c, request) ==
  /\ call[c] = Unstarted
  /\ Become(c,
       [pc |-> IF request.task # PatchTask /\ request.about.caller = "tool"
               THEN "admit" ELSE "select",
        request |-> request, pack |-> NoPack, given |-> {}, resolution |-> Unresolved,
        state |-> "not_executed", attempt |-> 1, replies |-> [i \in 1..5 |-> "none"],
        kind |-> "provider-invocation", text |-> 0, last |-> NoReply])
  /\ UNCHANGED <<stored, records, events>>

Usable(resolution) == resolution.source = "persisted"

\* resolveWorkflowWorkerContext: the host workflow resolves a required profile
\* before its start event too; for a tool, it does so before all else.
Admit(c) ==
  LET k == call[c]
  IN  /\ k.pc = "admit"
      /\ Go(c, IF k.request.require /\ ~Usable(stored) THEN "threw"
               ELSE IF ByTool(k) THEN "select" ELSE "start")
      /\ UNCHANGED <<stored, records, events>>

\* buildRepositoryContextPack, or an exception of the selection.
Select(c) ==
  LET k == call[c]
      about == k.request.about
  IN  /\ k.pc = "select"
      /\ IF Selectable(Workspace, about.scope, about.names)
         THEN Become(c, [k EXCEPT
                !.pack = RepositoryContextPack(Workspace, about.scope, about.names),
                !.pc = IF ~ByTool(k) THEN "validate" ELSE IF Host(k) THEN "start" ELSE "resolve"])
         ELSE Go(c, "threw")
      /\ UNCHANGED <<stored, records, events>>

\* runRepositoryValidation in the effective scope.  It throws on a command
\* that is not allowed, cannot be started or cannot be audited; a command
\* that never closes its output keeps it for ever.
Validate(c) ==
  LET k == call[c]
      scope == k.pack.scope
      checks == k.request.about.checks
  IN  /\ k.pc = "validate"
      /\ \/ /\ ~Blocked(Workspace, scope, checks)
            /\ \E report \in Reports(Workspace, scope, k.request.dry, checks) :
                 Become(c, [k EXCEPT !.given = {report}, !.pc = IF Host(k) THEN "admit" ELSE "resolve"])
         \/ /\ Commands(Workspace, scope, checks) # {}
            /\ Blocked(Workspace, scope, checks) \/ ~k.request.dry
            /\ Go(c, "threw")
      /\ UNCHANGED <<stored, records, events>>

\* writeAuditEvent: nothing in a dry run; an insert that fails is swallowed,
\* the preparation and the pruning of older events throw.
WriteEvent(c, event, next) ==
  \/ call[c].request.dry /\ Go(c, next) /\ UNCHANGED events
  \/ /\ ~call[c].request.dry
     /\ events' = [events EXCEPT ![c] = @ \cup {event}]
     /\ Go(c, next) \/ Go(c, "threw")
  \/ /\ ~call[c].request.dry
     /\ Go(c, next) \/ Go(c, "threw")
     /\ UNCHANGED events

Start(c) ==
  /\ call[c].pc = "start"
  /\ WriteEvent(c, "start", "resolve")
  /\ UNCHANGED <<stored, records>>

\* buildUnavailableExecutionProfile.
Unavailable == [supported |-> {}, status |-> "not-qualified", allowPatchGeneration |-> FALSE]

\* Mutant: a stale or foreign profile serves as well.
AnyProfile(resolution) == IF resolution.source # "missing" THEN resolution.profile ELSE Unavailable

\* The profile the host workflow goes by; the patch workflow takes the stored
\* profile whatever its source.
HostProfile(resolution) == IF Usable(resolution) THEN resolution.profile ELSE Unavailable

\* The host workflow: the task is executed if the profile allows it or the
\* caller forces it; the agent routes it once more, unless it is forced, and
\* throws if its primary task type is not allowed.
ResolveHost(c) ==
  LET profile == HostProfile(stored)
      task == call[c].request.task
      allowed == Eligible(profile, task)
      override == call[c].request.force /\ ~allowed
  IN  /\ call[c].pc = "resolve" /\ task # PatchTask
      /\ Become(c, [call[c] EXCEPT
           !.resolution = stored,
           !.state = IF allowed \/ override THEN "executed" ELSE "blocked_by_policy",
           !.pc = IF call[c].request.require /\ ~Usable(stored) THEN "threw"
                  ELSE IF override THEN "invoke"
                  ELSE IF ~allowed THEN "record"
                  ELSE IF Routed(profile, task) THEN "invoke" ELSE "threw"])
      /\ UNCHANGED <<stored, records, events>>

\* The patch workflow denies on a profile that contradicts itself or is not
\* eligible; with no profile at all it goes on.
PatchDenied(resolution) ==
  /\ resolution.source # "missing"
  /\ \/ ~PatchGenerationConsistent(resolution.profile)
     \/ ~Eligible(resolution.profile, PatchTask)

ResolvePatch(c) ==
  /\ call[c].pc = "resolve" /\ call[c].request.task = PatchTask
  /\ Become(c, [call[c] EXCEPT
       !.resolution = stored,
       !.state = IF PatchDenied(stored) THEN "blocked_by_policy" ELSE "executed",
       !.pc = IF call[c].request.require /\ ~Usable(stored) THEN "threw"
              ELSE IF PatchDenied(stored) THEN "record" ELSE "invoke"])
  /\ UNCHANGED <<stored, records, events>>

-----------------------------------------------------------------------------
(* invokeStructured.                                                       *)

\* The review contract states its attempts, the others take the model's.
MaxAttempts(task) == IF task \in ReviewTaskTypes THEN 2 ELSE RepairAttempts

Outputs(task) == IF task = PatchTask THEN Proposals ELSE Answers

\* Mutant: a repair does not count.
SameAttempt(attempt) == attempt
\* Mutant: every repair counts twice.
SkipAttempt(attempt) == attempt + 2
NextAttempt(attempt) == attempt + 1

\* Mutant: the kind of the first failure is kept.
FirstKind(k, class) == IF k.attempt > 1 THEN k.kind ELSE class

\* A failing attempt sets the kind of failure anew.
FailureKind(k, class) == class

Heard(k, class) == [k EXCEPT !.replies[k.attempt] = class]

Valid(c, output) ==
  /\ call[c].pc = "invoke"
  /\ Become(c, [Heard(call[c], "valid") EXCEPT
       !.pc = "record", !.text = call[c].attempt,
       !.last = [class |-> "valid", output |-> output]])
  /\ UNCHANGED <<stored, records, events>>

\* Not JSON, or not of the schema: asked again with a repair prompt.
Malformed(c, class) ==
  LET k == [Heard(call[c], class) EXCEPT
              !.text = call[c].attempt, !.kind = FailureKind(call[c], class)]
  IN  /\ call[c].pc = "invoke"
      /\ Become(c, IF k.attempt < MaxAttempts(k.request.task)
                   THEN [k EXCEPT !.attempt = NextAttempt(@)]
                   ELSE [k EXCEPT !.pc = "record"])
      /\ UNCHANGED <<stored, records, events>>

\* The provider throws: no further attempt; the text of an earlier one stays.
ProviderThrows(c) ==
  /\ call[c].pc = "invoke"
  /\ Become(c, [Heard(call[c], "provider-invocation") EXCEPT
       !.pc = "record", !.kind = "provider-invocation"])
  /\ UNCHANGED <<stored, records, events>>

-----------------------------------------------------------------------------
(* The judgement of what came back.                                        *)

\* What the validators look at.
Evidence(k) ==
  [requested |-> k.pack.requested, selected |-> k.pack.selected, gap |-> k.pack.gap,
   reportPasses |-> SupportsPassedClaim(k.given)]

Answered(k) == k.state = "executed" /\ k.last.class = "valid"

\* fallbackOutput of the contracts: it stands in for an answer that never came.
FallbackAnswer(task, pack) ==
  [mentions |-> pack.selected, refs |-> pack.selected, answered |-> TRUE, uncited |-> FALSE,
   template |-> PrimaryTaskType(task) = "summarization" /\ pack.scope = NoScope,
   generic |-> FALSE, claims |-> FALSE]

\* buildFallbackPatchProposal, on a selected file or on README.md.
FallbackProposal(pack) ==
  [paths |-> IF pack.selected = {} THEN {"README.md"} ELSE {CHOOSE p \in pack.selected : TRUE},
   placeholder |-> TRUE, claims |-> FALSE, inspects |-> "blocked"]

Issues(k) ==
  IF k.state # "executed" THEN RepositoryContextIssues(Evidence(k))
  ELSE AnswerIssues(k.request.task, Evidence(k),
         IF Answered(k) THEN k.last.output ELSE FallbackAnswer(k.request.task, k.pack))

\* resolveWorkerResultStatus.
HostStatus(k) ==
  IF k.state # "executed" THEN "blocked"
  ELSE IF ~Answered(k) THEN "invalid_output"
  ELSE ResultStatus(Issues(k))

\* The reasons of buildQualityGate are empty.
Complete(k) == k.state = "executed" /\ Answered(k) /\ Issues(k) = {}

\* The kind of failure in the result envelope.
HostFailure(k) ==
  IF Complete(k) THEN "none"
  ELSE IF k.state # "executed" THEN "policy-blocked"
  ELSE IF ~Answered(k) THEN k.kind
  ELSE "semantic-validation"

\* The contracts of the coding tasks always carry a risk.
Risky(task) == task \in {"codegen", "validation-fix"}

Overridden(k) == k.state = "executed" /\ ~Eligible(HostProfile(k.resolution), k.request.task)

NeedsHostReview(k) ==
  \/ k.state # "executed" \/ Overridden(k)
  \/ RequiresHostReview(HostProfile(k.resolution))
  \/ Risky(k.request.task) \/ ~Complete(k)

Succeeded(k) == Complete(k) /\ ~NeedsHostReview(k)

\* What becomes of a patch: a placeholder replaces it when there is no valid
\* one, or a corrupt one; issues block it as the inspection does.
Proposal(k) ==
  IF Answered(k) /\ k.last.output.inspects # "corrupt" THEN k.last.output
  ELSE FallbackProposal(k.pack)
ProposalIssues(k) == PatchIssues(Evidence(k), Proposal(k), Proposal(k).inspects = "ok")
PatchAccepted(k) == ProposalIssues(k) = {} /\ Proposal(k).inspects = "ok"

\* buildWorkerTrustProfile and buildMissingWorkerTrustProfile.
TrustLevel(profile, task) ==
  IF profile.status # "qualified" THEN "unknown"
  ELSE IF task \in profile.supported THEN "benchmarked" ELSE "interviewed"

\* The record: its result envelope and the trust the worker had.
RecordOf(k) ==
  LET patch == k.request.task = PatchTask
      executed == k.state = "executed"
  IN  [status |-> IF patch THEN ResultStatus(ProposalIssues(k)) ELSE HostStatus(k),
       failure |-> IF ~patch THEN HostFailure(k)
                   ELSE IF PatchAccepted(k) THEN "none" ELSE "policy-blocked",
       attempts |-> IF executed THEN k.attempt ELSE 0,
       accepted |-> IF patch THEN PatchAccepted(k) ELSE Succeeded(k),
       trust |-> IF patch /\ k.resolution.source = "missing" THEN "unknown"
                 ELSE TrustLevel(IF patch THEN k.resolution.profile
                                 ELSE HostProfile(k.resolution), k.request.task)]

-----------------------------------------------------------------------------
(* The record and the last event.                                          *)

\* Mutant: an insert that fails is swallowed, as that of an event.
RecordIfPossible(c) ==
  /\ call[c].pc = "record"
  /\ \/ UNCHANGED records
     \/ ~call[c].request.dry /\ records' = [records EXCEPT ![c] = RecordOf(call[c])]
  /\ Go(c, "complete")
  /\ UNCHANGED <<stored, events>>

\* recordWorkerTaskExecution: one transaction, rolled back as a whole.
Record(c) ==
  /\ call[c].pc = "record"
  /\ \/ call[c].request.dry /\ Go(c, "complete") /\ UNCHANGED records
     \/ /\ ~call[c].request.dry
        /\ records' = [records EXCEPT ![c] = RecordOf(call[c])]
        /\ Go(c, "complete")
     \/ ~call[c].request.dry /\ Go(c, "threw") /\ UNCHANGED records
  /\ UNCHANGED <<stored, events>>

\* "complete" of the host workflow, "propose-patch" of the patch workflow.
Finish(c) ==
  /\ call[c].pc = "complete"
  /\ WriteEvent(c, "complete", "done")
  /\ UNCHANGED <<stored, records>>

-----------------------------------------------------------------------------

Active(c) ==
  call[c].pc \in {"admit", "select", "validate", "start", "resolve", "invoke", "record", "complete"}

Crash(c) ==
  /\ Active(c)
  /\ Go(c, "crashed")
  /\ UNCHANGED <<stored, records, events>>

\* An interview, a benchmark, a registration or the clock.
ProfileChanges(resolution) ==
  /\ stored # resolution /\ stored' = resolution
  /\ UNCHANGED <<call, records, events>>

\* What the model of the worker does.
Reply(c) ==
  \/ call[c].pc = "invoke" /\ \E output \in Outputs(call[c].request.task) : Valid(c, output)
  \/ \E class \in {"json-parse", "schema-validation"} : Malformed(c, class)
  \/ ProviderThrows(c)

\* What the workflow does by itself.
Work(c) ==
  Admit(c) \/ Select(c) \/ Start(c) \/ ResolveHost(c) \/ ResolvePatch(c) \/ Record(c) \/ Finish(c)

Next ==
  \/ \E c \in Calls :
       Work(c) \/ Validate(c) \/ Reply(c) \/ Crash(c) \/ \E request \in Requests : Ask(c, request)
  \/ \E resolution \in Resolutions : ProfileChanges(resolution)

Spec == Init /\ [][Next]_vars

\* The steps of the workflow are awaited one after the other.  Nothing bounds
\* the time of an invocation, and a command that ignores the signal of its
\* timeout goes on: nothing is promised of Reply and Validate.
Fairness == \A c \in Calls : WF_vars(Work(c))
FairSpec == Spec /\ Fairness

-----------------------------------------------------------------------------

Asked(c) == call[c] # Unstarted

TypeOK ==
  /\ stored \in Resolutions
  /\ \A c \in Calls :
       /\ Asked(c) =>
            /\ Active(c) \/ call[c].pc \in {"done", "threw", "crashed"}
            /\ call[c].request \in Requests
            /\ call[c].resolution \in Resolutions \cup {Unresolved}
            /\ call[c].pack.selected \subseteq DOMAIN Workspace.files
            /\ \A report \in call[c].given : DOMAIN report = call[c].request.about.checks
            /\ call[c].state \in {"not_executed", "executed", "blocked_by_policy"}
            /\ call[c].attempt \in 1..MaxAttempts(call[c].request.task)
            /\ call[c].text \in 0..call[c].attempt
       /\ records[c] # NoRecord =>
            /\ records[c].status \in {"ok", "blocked", "invalid_output", "needs_more_context"}
            /\ records[c].failure \in {"none", "policy-blocked", "provider-invocation",
                                      "json-parse", "schema-validation", "semantic-validation"}
       /\ events[c] \subseteq {"start", "complete"}

Has(report, status) == \E check \in DOMAIN report : report[check] = status
Undisputed(report) ==
  Has(report, "failure") \/ Has(report, "not-configured") => Has(report, "success")

\* A record is written only of a call that ran to its end, and nothing that
\* happens to the call or to the profile afterwards takes it back or makes it
\* untrue: what is accepted was answered by the model in the shape asked for,
\* with every file the caller named, about files of the context and in no
\* others; unless it is a patch, it is by a worker whose usable profile admits
\* this very task without force; and, at the word of host-semantic-validator.ts:288,
\* a claim that checks passed comes with a report, and against a check that
\* failed or has no script the report holds one that succeeded.  A report of
\* no check, or of dry runs alone, lets the claim stand: see ClaimsAreProved.
AcceptedIsVetted ==
  \A c \in Calls : records[c] # NoRecord /\ records[c].accepted =>
    LET k == call[c]
        selected == k.pack.selected
        output == k.last.output
    IN  /\ k.last.class = "valid"
        /\ \A n \in k.request.about.names : n.path \in selected
        /\ output.claims => \E report \in k.given : Undisputed(report)
        /\ IF k.request.task = PatchTask
           THEN /\ selected # {} => output.paths \subseteq selected
                /\ output.inspects = "ok" /\ ~output.placeholder
           ELSE /\ selected # {} => output.mentions \cap selected # {}
                /\ ~output.template
                /\ Usable(k.resolution) /\ k.resolution.profile.status = "qualified"
                /\ Eligible(k.resolution.profile, k.request.task)

\* The envelope is worked out along two ways, the status and the failure:
\* they agree; and the attempts and the kind it names are those of the last
\* reply, however many malformed ones and of which kinds came before.
EnvelopeAgrees ==
  \A c \in Calls : records[c] # NoRecord =>
    LET r == records[c]
        replies == call[c].replies
    IN  /\ r.status = "ok" <=> r.failure = "none"
        /\ r.accepted => r.status = "ok"
        /\ \A i \in 1..5 : replies[i] # "none" <=> i <= r.attempts
        /\ call[c].request.task # PatchTask =>
             /\ r.failure = "policy-blocked" <=> r.attempts = 0
             /\ r.failure \in {"provider-invocation", "json-parse", "schema-validation"} =>
                  r.failure = replies[r.attempts]
             /\ r.attempts > 0 /\ replies[r.attempts] # "valid" => r.status = "invalid_output"

\* The closing event follows a record, whatever write failed before, and a
\* dry run leaves neither.
EventsFollowRecords ==
  \A c \in Calls :
    /\ "complete" \in events[c] => records[c] # NoRecord
    /\ Asked(c) /\ call[c].request.dry => records[c] = NoRecord /\ events[c] = {}

\* No model is asked to do a task of the host workflow unless the profile at
\* hand admits it and the route of the agent, or the caller forces it; never
\* without a usable profile if the caller requires one; and no model is sent
\* a file that is secret, outside an existing scope, or ignored and not named.
SentIsAdmitted ==
  \A c \in Calls :
    Asked(c) /\ call[c].replies[1] # "none" =>
      LET k == call[c]
          about == k.request.about
      IN  /\ k.request.require => Usable(k.resolution)
          /\ k.request.task # PatchTask =>
               \/ k.request.force
               \/ Usable(k.resolution) /\ Eligible(k.resolution.profile, k.request.task)
          /\ \A path \in k.pack.selected :
               /\ ~Workspace.files[path].secret
               /\ about.scope \in Workspace.dirs => about.scope \in Workspace.files[path].within
               /\ Workspace.files[path].ignored => \E n \in about.names : n.path = path

\* "`patch-generation` should only be enabled through an explicit persisted
\* profile update after a qualifying benchmark" (docs/safety.md:13): a model
\* is asked for a patch only on a usable profile that allows it.
PatchesArePromoted ==
  \A c \in Calls :
    Asked(c) /\ call[c].request.task = PatchTask /\ call[c].replies[1] # "none" =>
      Usable(call[c].resolution) /\ Eligible(call[c].resolution.profile, PatchTask)

\* "No validation checks were requested or executed. This does not prove the
\* result is correct." (validation-report.ts:59): an answer accepted with the
\* claim that checks passed has a report in which one did.
ClaimsAreProved ==
  \A c \in Calls : records[c] # NoRecord /\ records[c].accepted /\ call[c].last.output.claims =>
    \E report \in call[c].given : Has(report, "success")

\* If the model always answers or fails in the end, and the commands of the
\* validation end, every call ends, after however many repairs.
EveryCallEnds ==
  \A c \in Calls :
    WF_vars(Reply(c)) /\ WF_vars(Validate(c)) =>
      (Asked(c) ~> call[c].pc \in {"done", "threw", "crashed"})
=============================================================================

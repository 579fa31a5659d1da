# A verification development of mcp-code-worker

These are TLA+ models of the TypeScript program in `src/`, with TLC
configurations that check them on small instances and TLAPS proofs for every
value of their constants.  `PROJECT.json` is the index: components, runs, which
lines each definition stands for, the hazards of the code, the findings.

## 1. The system

A host (a person at the `cw` command line, or an agent over MCP) has a *worker*, a
language model behind a local client or an API, review code, plan fixes and
propose patches.  The program gives the worker files to look at, checks what it
answers, and writes to the repository only through gates.  Before that it finds
out what a worker can do: an *interview* of nine cases and a *benchmark* of four
fixtures make a capability profile, which decides about the tasks it is given.
Everything the program keeps is in one SQLite file per workspace (`data.db`), in
`config.json`, and in the worktree itself.  Each command, and each MCP call, is a
run of its own; several may work on the same workspace, and nothing but SQLite's
statement and transaction locks keeps them apart.

| Component (code) | State | Operations | Hard behaviour |
|---|---|---|---|
| Task session workflow (`graph/.../task-session-workflow.ts`) | session in memory, results so far | start, resume, stages review / fix / proposal / apply, finalize | no exception is caught: a run stops at any statement; a resume mixes results of several runs |
| Host worker and patch proposal workflows, agents, structured invocation (`host-worker-workflow.ts`, `patch-proposal-workflow.ts`, `models/structured`) | `worker_task_executions`, audit events | select files, validate, resolve the profile, route, ask and repair, judge, record | the profile changes meanwhile; each write may fail; the model may never answer |
| Task session store (`core/.../task-session-store.ts`) | `task_sessions`, `task_session_steps`, `task_artifacts` | create, read, update, write artifact, prune | several connections for one function, no lock; retention prunes running tasks |
| Patch application (`tools/.../apply-patch.ts`) | the worktree | inspect, status, gates, `git apply`, validate, rollback advice | the operator edits between the awaits; git dies half way; timeouts |
| Interview, benchmark, onboarding (`worker-interview-workflow.ts`, ...) | process memory, `worker_profiles` | evaluate, merge with the stored profile, save | minutes between the read and the write; memory shadows the database; rounded scores against thresholds |
| Worker registry, init, setup (`worker-registry-store.ts`, `setup-workflow.ts`) | `config.json` | register, unregister, init, setup | read, merge and write of a whole file without a lock |
| Audit log, benchmark store (`audit-log.ts`, `worker-benchmark-store.ts`) | `audit_events`, `worker_benchmarks` | insert, prune, cleanup | insert and prune apart; a failed insert is silent |
| Routing, eligibility, semantic validator, policies, file selection, validation reports | none | pure decisions | several places that must agree |
| Providers, doctors, presentation, CLI, MCP server, configuration | none that matters | external programs, reads, output | - |

What makes them correct:

* *task session*: whatever a run loses, the store says nothing untrue of it; a
  resume can go on from every crash point; the worktree changes only by approved,
  confirmed, genuine patches; a run that ends decides its session;
* *a task of a worker*: a model is sent admitted files of admitted tasks only;
  what is recorded as accepted was answered, checked and by a qualified worker;
  record, events and answer agree; calls end;
* *qualification*: a right to a task rests on answers of the model that has it,
  whatever evaluations overlap;
* *store*: what a caller was promised can be read unless retention took it; a run
  finds its session and artifacts as it left them; retention bounds the table, and
  takes the session of a running task only in a crowd;
* *patch application*: all gates before a write, whole patches or none reported,
  and rollback advice that destroys no work of the operator;
* *registry*: what is written was in the file or was asked for, no registration
  is lost by a command that runs alone, whether it ends or throws, and setup tells
  the truth;
* *audit and benchmark rows*: the newest survive, groups are bounded.

## 2. Modules

| Module | Models | Composed with |
|---|---|---|
| `TaskSession` | one task: start, resume, every stage, every write, death at any statement | refines `PatchGate` |
| `PatchGate` | abstract: how a task may change the repository | - |
| `TaskStore` | the store under several clients, one SQL statement or transaction a step | refines `SessionStore`; takes up what `TaskSession` leaves out: other writers |
| `SessionStore` | abstract: the store as a run sees it until it is lost | the store `TaskSession` takes for granted |
| `PatchApply` | one call after another of `applyPatchProposal`, git and the operator | refines `PatchCall`; gives the outcomes `TaskSession` takes in `RunApply` |
| `PatchCall` | abstract: what a call promises its caller about the patch | - |
| `WorkerInterview` | operators: answers to scores to a profile; the benchmark's update | used by the next two |
| `WorkerRouting` | operators: eligibility, the router, readiness | - |
| `WorkerQualification` | evaluations of a worker that overlap, and what they let it do | extends both |
| `RepositoryContext` | operators: which files are selected, what a validation may report | - |
| `SemanticValidation` | operators: the issues of an answer or proposal, and the status they give | - |
| `WorkerExecution` | a task given to a worker, from the selection of files to the last event | extends `WorkerRouting`, `RepositoryContext`, `SemanticValidation`; its instance takes profiles from `WorkerInterview` |
| `WorkerRegistry` | the commands that rewrite `config.json` | - |
| `RecordStore` | audit events and benchmarks under several writers | - |
| `MC...` | option sets, profiles, answers, workspaces, symmetry for TLC | extend the above |
| `...Proofs` | inductive invariants and theorems | extend the above |

The split follows concurrency.  A stage of the workflow is sequential, so
`TaskSession` has one writer and looks at crashes.  The store is where clients
meet, so `TaskStore` has many clients and forgets what a session says.
`PatchApply` has the operator as the second actor, `WorkerExecution` whoever
changes the stored profile, `WorkerQualification` and `WorkerRegistry` a second
process with the same command.

### TaskSession

Durable state: `row` (the `task_sessions` row with its step rows), `artifacts`
(one value per artifact, as much of it as decisions read) and `worktree`.
Volatile: `options`, `session` (the TaskSession object in memory), `state` (the
results the run holds, named after the artifacts a resume loads them from),
`stage` and `todo`.

A stage action (`RunReview`, `RunFix`, `RunProposal`, `RunApply`) takes the guard
of the stage from `runTaskSessionExecution`, marks its steps as running, makes
the worker or git call with any outcome, and puts the statements that follow into
`todo` in source order (`ReviewPlan` and so on).  `WriteArtifact`, `FinalizeStep`
and `SyncSession` carry them out one at a time.  `Die` may happen anywhere, so
every gap between two writes is a crash point.  The other ways through a stage
are actions too: `KeepReview`, `PassFix`, `DenyAfterReview`, `ProposeFromSummary`
(which throws), and the rest.  `RunApply` takes the result and, apart from it, whether
the whole patch is in the worktree: `PatchApply` shows that git may be killed after its
last write, and the answer then is "denied".  `issued` remembers whether a proposal is a patch
or a placeholder; `outcome` how the last persisting run went.

A dry start that does not persist creates no row, so no resume of it is possible.
`session` and `options` are cleared between runs, because another process runs the
next one.

Assumptions: a review selects at least one file (a scope without readable files
would let the placeholder path survive a summarized context); unknown `fromStep`
names are rejected before a run begins; the two "inspect" and "propose" flags
count as one, since the code only uses their disjunction.

### TaskStore

`rows` and `artifacts` are tables, `client[c]` is where a run is inside a store
function and the session it holds.  `persistTaskSession` is one transaction
(`Persist`), `pruneStoredTaskSessions` another (`Prune`), and
`writeTaskArtifact` three steps: `PutArtifact`, `ReadBack`, `Rewrite`.  `clock` is
`Date.now()`: several writes may carry the same stamp, and the prune then falls
back on the task id.  A failed foreign key, a busy database or a crash is `Die`.
A millisecond is assumed to pass between the end of a run and the next run of the
same caller.

Clients share retention groups and, where `SharedTasks` says so, tasks: nothing in the
code keeps them apart.  `past[c]` is a history of the run of `c`: whom it met
(`crowd`, the tasks others of its group ran meanwhile), whether it has stored its
session, and whether a prune took that.

`SessionStore` is what `TaskSession` relies on: every call of the store is one step,
an artifact stays once it is put, an update stores a session that names all artifacts
of its task, and nobody else touches either.  A run may be *lost*: a prune took its
session, or another client began to run its task.  From then on it may store its
session in any state (`Stray`), but still removes no artifact.  `ImplementsSessionStore`
says that a run finds this store whoever else works in its group; the tables map to
themselves, `Lost` says who is lost.  Reading back and rewriting after an artifact is
a stutter there, but for references of an earlier lost run that it mends.

### PatchApply

`edit[f]` says whether the operator has uncommitted work in `f`, and whether it
overlaps the patch; `patched` holds the files git wrote.  Each await of
`applyPatchProposal` is a step of its own: `InspectPatch`, `ReadWorktree` with the
gates that follow it, `CheckPatch`, then `GitStarts`, a `GitWrites` per file, and
`GitSucceeds` or `GitFails`.  The operator edits between any two steps (never
while git itself writes) and may run the rollback commands at any later time.
The index, renames and ignored files are not modelled.

`PatchCall` is the promise without the mechanism, in seven variables: how much of
the patch is there, how far the call is, what its caller agreed to, whether the
worktree was found clean, the answer, whether it offers a way back, and the last
logged answer.  `CallStage`, `CallConsent` and `CallAnswer` of `PatchApply` map
its state to that, and `ImplementsPatchCall` is the property.  Edits, snapshots, the
order of the gates and validation vanish under the mapping; a file that git writes,
each way a call ends, and the rollback do not.

### WorkerInterview, WorkerRouting, WorkerQualification

An answer to an interview case is what the scoring tells apart: whether it came
and was valid, whether a finding was made and whether its wording counts as
generic, and whether the output has template language.  `Scores`, `Portrait` and
`TaskScores` do the arithmetic of `buildCapabilityProfile` in hundredths;
`toFixed(2)` of an exact tie depends on the binary fraction, so `tie` stands for
either side.  `Eligible` is `assessWorkerTaskEligibility`, `Routed` the second
decision that an agent makes with the first task type of its own capability,
`Ready` the readiness that `worker-availability.ts` reports.

`WorkerQualification` has the registered model, the row `database`, the
`memory` of each process, and a `job` per client.  `Interview` and `Benchmark`
evaluate and remember the result in a history; `MergeWithStored` and
`UpdateStored` read the stored profile and make the next one of it; `Remember`
and `Write` are the two halves of `saveWorkerProfile`; `StoreFails`, `Exit`,
`Register` (the model changes) and `Expire` (30 days) may come between any two
of these.  An evaluation itself is one step, as it reads nothing that others
write.

### RepositoryContext, SemanticValidation, WorkerExecution

`RepositoryContext` works on a workspace, a record of files (their directories,
and whether they are secret, ignored, text) and of scripts.  `Selectable` says
when `selectRepositoryFiles` throws, `RepositoryContextPack` what it gives;
`Reports` are the reports a validation may make.  A file that is asked for has the
name that was written and the path it resolves to.  `SemanticValidation` gives the
issues of an answer as failure stages, and the status that follows from them.

`WorkerExecution` follows one call through `pc`: `Admit` (the early profile check
where one is required), `Select`, `Validate`, `Start` (event), `ResolveHost` or
`ResolvePatch` (profile, eligibility, route), the replies (`Valid`, `Malformed`,
`ProviderThrows`), `Record`, and `Finish` (event).  The judgement of what came
back, pure code between the last reply and the record, is in `RecordOf` and the
operators before it.  `ProfileChanges` may come at any time; `WriteEvent` and
`Record` may fail; `Crash` ends a call anywhere.  `Requests` says which requests
the tools and the workflows make.

Assumptions: the workspace does not change during a call; the three worker calls
of a fix workflow are three calls; the rank of the selected files, the git diff,
the stop on a first failed check and output limits are left out.

### WorkerRegistry

`file` is `config.json`: absent, half (truncated, or written over), or whole with
its safety setting and entries.  A `job` carries what a command has read and
decided.  `ReadRegistry` and `Merge` are the two reads of
`saveWorkerRegistration` and `removeWorkerRegistration`,
`PersistWorkerConfigEntry` the second half of `cw worker register`, `Ask` and
`Look` what the CLI reads before; `Load` to `BenchmarkPlan` are `runSetup`.  A
`writeFile` is `Open`, which truncates, and `Write`; the audit event of the write
(`WriteAuditEvent`) and the API key (`SaveWorkerSecret`) come after it and may throw.
A registration has a target (provider and model) and a base URL: `MergeWorkerConfigs`
keeps the URL of the old entry if a plan names none, and `IdAvailable` compares both.
`RegistryOf` strips the tuning, which `MergedConfig` takes from the second read.
`Die` and `Edit`, by the operator, come anywhere.  The ghosts `alone`, `before` and
`seen` say whom a command met and what the file held meanwhile.  A dry run writes
nothing and is left out; an evaluation of setup is reduced to the model it is of; a
setup has one worker plan, the further workers of the interactive init go through
the same steps one after the other.

### RecordStore

`Stamp`, `Insert`, `ReadLimit` and `Prune` are the awaits of `writeAuditEvent`
(`ReadLimit` is its `loadCwConfig`) and, without the limit, of
`saveWorkerBenchmarkResult`.  `InsertFails` and `PruneMissed` are the ways it goes
wrong, `EditLimit` the operator's.  `ever` and `owed` are ghosts: all rows ever
inserted, and the prunes missed.

## 3. Runs

`CHECK_DEADLOCK FALSE` everywhere: the bounds on runs, calls and edits stop the
system, as does a host that stops calling.

| Run | Instance | Shows |
|---|---|---|
| `session_safety` | 2 runs, 2 proposals, 10 start and 144 resume records | all invariants and the refinement |
| `session_three` | 3 runs, 3 proposals, a start and two resume records, fair | every run is over some day, whatever two earlier ones left |
| `store_shared` | 2 clients on 4 tasks of one group, tasks shared too, `maxPerKind` 2, one death | promises are broken by prunes alone; prunes take the session of a run only in a crowd; the bound of retention; the refinement of `SessionStore` |
| `patch_safety` | 4 files, all 32 option records, 2 calls, 2 edits | gates, rollback, results, and the refinement of `PatchCall` |
| `scores` | every interview with at most two cases not answered soundly, one evaluation, both sides of a tie | rights rest on answers; the bars of profile, eligibility and router agree for a ready worker |
| `shared` | 2 processes with a client each, 3 interviews, 2 benchmark results, 2 models | no overlap of evaluations gives a right to patches without a benchmark |
| `calls` | 1 call of any of 5 task types, 9 subjects, 4 profile resolutions, 5 answers, 6 proposals, 2 attempts, fair | what is sent, accepted, recorded and logged; calls end |
| `overlap` | 2 processes, 7 commands, 2 ids, 2 targets, a base URL or none, one edit | what is written, what is lost, what setup says |
| `prunes` | 2 writers, an event type, the cleanup's, a suite | rows kept, rows bounded, answers |
| `session_failed_apply` | *violation* | a failed validation after an apply does not hold the task back |
| `worker_promoted` | *violation* | a model is asked for a patch without a promoted profile |
| `worker_unproved` | *violation* | an answer that claims that checks passed is accepted on a report without a check |

Why the bounds suffice.

* A session run reads nothing of an earlier one but `row`, `artifacts`,
  `worktree` and `issued`, so a defect that needs a resume needs two runs, and what
  three of them add (leftovers of two) the theorems cover for any number.  A proposal
  is only compared with another, and each run generates one at most.
* In the store, one retention group, two writers, and more rows than `maxPerKind`
  make every race of prune and write; clients meet in the group and in the task, and
  one client may begin as many tasks as the limit while another runs its own.
* In `PatchApply` the files are one that is changed, one that is added, one under
  `tmp/`, and one the patch does not touch; the second call meets what the first
  one left.
* `scores`: a case scores one of two values or nothing, and every average falls
  with each of them; two flawed cases are enough to bring each bar down from any
  side, one flaw hits each bar alone.
* `shared`: three evaluations in two processes are an interview, a benchmark and
  the one that overlaps either; a changed model needs one change.
* `calls`: calls share nothing but the stored profile, which changes freely, so
  one call sees all another could do to it.  Subjects and answers have one thing
  wrong at a time: a scope that is not there, a name written in another way, a
  secret or ignored file, a report with a failed or missing check; no citation, a
  file outside the context, a claim, a template.
* `overlap`: two commands are a race; the third actor is the operator.  The
  commands meet in their id, in another target of it, or in another id.
* `prunes`: the rows exceed the limits by one, and both limits are small; ties of
  the clock and changes of the limit are included.

## 4. Fairness

`TaskSession.FairSpec` adds weak fairness of the workflow's own steps: an async
function goes on when what it awaits settles.  That a call to a worker or to git
settles is an assumption: the providers have no timeout, and a child that ignores
SIGTERM keeps `runCommand` waiting (see the hazards).  No fairness is put on the
caller, who need not resume, nor on `Die`.

`WorkerExecution.Fairness` is of `Work` alone, what a call does by itself.
Nothing bounds a model or a validation command, so `EveryCallEnds` states its
assumption itself: *if* a model always answers or fails in the end and commands
end, every call does, through however many repairs.

## 5. Proofs

Every theorem holds for all values of the constants that the named assumptions of
its module allow (`...Assumption`; TLC evaluates them in each run).  Every
invariant that a theorem rests on was checked by TLC first.

* `TaskSessionProofs`.  Types (`TypeCorrect`).  Settled steps and recorded successes
  are not inductive: what will be stored is in `todo` long
  before it is, so the invariants speak of each pending write too, and of what the
  writes before it leave behind.  `RunsImplementPatchGate`: initial states map to
  initial states, and each action to a step of `PatchGate` or a stutter.
* `TaskSessionResultsProofs`.  What the results of a run are worth, for any option
  records, number of runs and deaths (`CompletionsAreEarned`, `EndedRunsDecide`,
  `AppliedProposalsAreStored`, `ApplicationsAreTrue`).  Every step is one of five
  kinds (a run begins, a stage decides and plans its writes, one of these writes, a
  run stops, nothing changes), so each argument has five cases and not thirty.  The store is compared with memory: a
  result the run holds is stored or about to be, before anything that speaks of it;
  the last statement of a run stores the final status; and an untouched worktree
  claims no application.
* `TaskStoreProofs`.  Types; and `RetentionIsBounded`: each row beyond `maxPerKind`
  is charged to a client that has persisted and still has to prune, or to a client
  that died before it did, and a prune leaves at most `maxPerKind` rows.  The
  other three hold for clients that share groups and tasks as they like, with no
  hypothesis.  `PromisesAreKept`: an artifact is put while the row is there, only the
  prune of the row removes it, and that is remembered.  `CrowdsAloneCostASession`:
  once a run has stored its session, every row as new is of a task it has met, so the
  `maxPerKind` rows a prune prefers are of such tasks; and a run that has met nobody
  is pruned by itself alone, and its session is the newest then.
  `RunsFindTheirOwnStore` is the refinement of `SessionStore`: a run that is not lost
  holds all artifacts of its task but for one it has just put, and the copy it read
  back is the row itself.
* `PatchApplyProofs`.  Types; the gates (`WritesAreGated`); whole patches; and
  `RollbackIsCareful`: until a call returns, every edit it can know of, but for those
  under `tmp/`, is in its snapshot, and rollback is offered on an empty one only.
  `CallsKeepThePromise` is the refinement of `PatchCall`: initial states map to initial
  states, and each action, edits included, to a step of it or a stutter.  What the step
  needs of the state is the same invariant, with one conjunct more (`Apart`): where a
  dry run checks the patch nothing of it may be written, and between two calls nothing
  but the answer is remembered.
* `WorkerQualificationProofs`.  Types; and `PatchesAreBenchmarked`: the right to
  patches travels from memory and database into jobs and back, so the invariant says
  of *every* profile anywhere that it has the right only if some benchmark was
  passed, and of every pending update that its result is that of a benchmark.
  `RightsAreAnswered` and `ReadyWorkersAreRouted` rest on the scoring and on a second
  invariant.  The scoring is taken apart into lemmas over *all* interviews: what a case
  scores, which rounded averages come of it, and which answers a passed bar implies
  (`QualifiedIsSound`, `QualifiedClearsTheBars`, `EligibleIsAnswered`,
  `QualifiedIsRouted`); a tie is rounded to either side throughout.  The invariant
  (`ProfilesStem`) says of every profile in memory, database or a job that it is what
  some interview made, but for the right to patches (`SameButPatches`), and that a result about to be merged is one too; merging, saving,
  shadowing and expiry keep that.
* `RecordStoreProofs`.  `NewestRowsSurvive`: a row that is pruned has as many newer
  rows of its group in the store, hence among all that were ever written, and these
  never get fewer.  `GroupsStayBounded`: the number of newer rows tells the rows of a
  group apart, so a prune to `n` keeps at most `n`; an insert adds a row and a
  writer who has yet to prune; a prune that fails or dies is owed.
  `WritersAreToldTheTruth`.
* `WorkerExecutionProofs`.  One invariant of a call, its record and its events: the
  replies heard are those of the attempts made so far; a model is asked only what
  was admitted; the pack is the one the request gives; and a record equals what the
  judgement would say of the call *now* (`RecordOf`), so nothing that happens later
  makes it untrue.  What the judgement says is then shown from the validators, once
  for patches and once for answers.  The five invariants of `calls` follow.

* `WorkerRegistryProofs`.  Types, with what each place of a command needs to be named
  there.  `CommandsWriteWhatTheySaw`: what a job holds ready to write comes from what
  the file held while it ran, and from the command.  For a command that nobody
  disturbs, the invariant tells how far it has come (`Story`, and for setup `Tale`):
  the file is as it was found until the first write, half during a write, and from
  then on keeps the other workers and binds its own as asked, so a throw after the
  write (the audit event, the secret, a conflict of the kept base URL) finds it done.  From it follow
  `UndisturbedCommandsLoseNothing` and `SetupsSayTheTruth`.  The assumptions are that
  a command that registers a worker names it (`CommandAssumption`), and that a file
  that is not there counts as the defaults (`InitiallyAssumption`).

Every invariant, action property and refinement of a passing run is now the statement
of a theorem.  Only model-checked are the liveness properties (`RunEnds`,
`EveryCallEnds`), which are out of the prover's reach, as is anything about ENABLED.

## 6. What the runs found

Three findings have a run, with the sentence they depart from in `PROJECT.json`:

* `session_failed_apply`: a patch that was applied and then failed its validation
  is reported as in need of manual review, and the session is completed.
* `worker_promoted`: a patch is asked of a worker that has no profile, or a stale
  one, although the documentation reserves patches for benchmarked workers.
* `worker_unproved`: an answer that claims that checks passed is accepted on a report
  of no check at all, of which `validation-report.ts:59` says that it does not prove
  the result correct.  `AcceptedIsVetted` therefore asks for less: a claim has a report,
  and where a check failed or has no script another one succeeded.

Seen while modelling, each of them a step of the models, without a run of its own:

*Task sessions.*
A plain resume repeats the steps that succeeded (`task-session-workflow.ts:1344`).
The stored report shows the last status but one (`:1247`).
A later proposal is reported as applied (`:1433`).
A resume from `patch-proposed` throws (`:965`).
The documented `cw task resume ... --allow-write --confirm-apply` does not persist,
so it applies without a record; a run that dies between the writes of the review
and of its validation report leaves a task that `--from-step validated` completes
without one.
Concurrent runs of one kind prune each other while promising readable artifacts
(`task-session-store.ts:534`); `PromisedArtifactsReadable` exempts a run whose session
was pruned under it, and `PrunesSpareTheFew` says when that can be.
Two clients that run one task undo each other's updates with the copy that
`writeTaskArtifact` writes back (`:616`): such runs are lost.

*Patches.*
A git that fails half way, or is killed after its last write, is reported as a denial
(`apply-patch.ts:358`).
The rollback advice calls the worktree clean on the strength of a status read
several awaits earlier that sets `tmp/` aside.
The failure kind `semantic-validation` of a patch envelope is unreachable
(`patch-proposal-workflow.ts:153`).

*Tasks of workers.*
An agent routes each task by the first of its own task types
(`worker-agent.ts:118`): a worker that may do `code-understanding` but not
`review-lite` passes the eligibility and then throws, without a record; forcing
does not help, as force only counts where the eligibility fails.
`docs/worker-onboarding.md:88` keeps a not-qualified worker out of its task types,
while the eligibility looks at the status for patches only.
No coding task is ever a "success", as its contract always carries a risk.
`cw_run_host_worker` forces by default in a dry run.
A worker has the trust "benchmarked" without any benchmark
(`worker-trust-profile.ts:27`).
`coverageGapDetected` is never true, as nothing fills `skippedFiles`.
A file asked for as `./a` is selected and then counts as missing, since names are
compared as written.
A report of a dry run supports a claim that tests passed, like one without checks
(`host-semantic-validator.ts:288`, see above); one success beside a failure does as
well.
A command that handles the signal of its timeout and exits with 0 counts as a success
(`validation.ts:291`).

*Qualification.*
The memory of a process shadows the database (`worker-profile-store.ts:115`): a
right that another process took back stays.
An interview that overlaps a benchmark can bring a revoked right to patches back.
A benchmark of another model updates the profile
(`cw worker benchmark --model ...`).
The high-confidence condition of a benchmark adds nothing to its four passes.

*Registry.*
A setup that names no base URL for a worker that has one writes `config.json` and then
fails to register the worker, whose entry keeps the URL (`setup-workflow.ts:178`,
`worker-registry-store.ts:104`).
A registration or removal whose audit event throws has been written
(`worker-registry-store.ts:227`).
Setup rebinds an id to another target (`setup-workflow.ts:163`), which register
refuses (`worker-registry-store.ts:118`); it enables a disabled worker and drops its
notes and tags (`:558`).
Setup takes half a file for the defaults, writes them, and then calls the worker it
has written "unavailable".
Register writes its entry twice, and the second time drops the notes and the
tuning (`worker.ts:111`).
Secrets and profiles outlive an unregister.
The interactive init checks an id long before it registers it (`init.ts:821`).
`cw cleanup audit` removes no rows (`cleanup.ts:97`), only files of an older format.

## 7. Plan

Done: every component with state of its own.  To come:

1. `RunCommand`: exit, timeout, output limit, input to a dead child.  It would
   replace the assumption that commands end.
2. Composition of `TaskSession` with `WorkerExecution`: the review verdict as it
   follows from three calls.
3. A call of `PatchCall` as the one step `TaskSession.RunApply` takes it for: which
   answers go with which worktrees.
4. An abstract specification of the records that `RecordStore` implements.

## 8. Not modelled

Pure input and output (argument parsing, presentation, MCP transport, the
providers' protocols, prompts, the text of patches), diagnostics and doctors, which
only read, the keys of the workers, and the wrappers around the file system.  Of the modelled parts: schema checks, the files of a dry run in the
store, host files and previews of setup, output limits, the rank of files in a
prompt.  The `components` list gives the reason for each.

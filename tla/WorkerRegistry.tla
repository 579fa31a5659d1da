--------------------------- MODULE WorkerRegistry ---------------------------
(* The registrations of workers in config.json, and the commands that write *)
(* them: `cw worker register`, `cw worker unregister`, the scripted and the *)
(* interactive `cw init`.  Nothing locks the file: a command reads it two   *)
(* to five times, and a write is an open that truncates followed by the     *)
(* contents.  Commands of several processes overlap at every one of those   *)
(* reads and writes, and die at any of them; the operator edits the file.   *)
(* A dry run writes nothing and is left out.                                *)
EXTENDS Naturals, Functions

CONSTANTS Process,      \* processes that run a command, one at a time
          Id, Target,   \* worker ids; provider and model in one
          Base,         \* base URLs
          Command,      \* what may be asked for
          Initially,    \* what config.json may be like at the start
          MaxCommands,  \* bound: commands begun in all
          MaxEdits      \* bound: edits of the file by the operator

ASSUME BoundsAssumption == MaxCommands \in Nat /\ MaxEdits \in Nat

Safety == {"dry-run", "allow-write"}
Tuning == {"tuning", "command"}                 \* temperature, clientCommand
Extra == Tuning \cup {"tags", "notes", "disabled"}

\* config.schema.ts: one entry of workers[]
NoBase == "none"
Bases == Base \cup {NoBase}
Registration == [target : Target, base : Bases, extras : SUBSET Extra]
Registrations == UNION {[ids -> Registration] : ids \in SUBSET Id}
Empty == [i \in {} |-> CHOOSE r \in Registration : TRUE]
\* "half" is a file that was truncated and not written, or written over
File == [kind : {"absent", "half", "whole"}, safety : Safety, workers : Registrations]
DefaultConfig == [kind |-> "whole", safety |-> "dry-run", workers |-> Empty]
Half == [DefaultConfig EXCEPT !.kind = "half"]
Absent == [DefaultConfig EXCEPT !.kind = "absent"]

NoTarget == "none"

Commands == [kind : {"register", "unregister", "init", "setup"}, id : Id \cup {NoTarget},
             target : Target \cup {NoTarget}, base : Bases, extras : SUBSET Extra,
             safety : Safety \cup {"keep"},
             register : BOOLEAN, interview : BOOLEAN, benchmark : BOOLEAN]
\* a command that registers a worker names it, and its target
Names(c) == c.id \in Id /\ c.target \in Target
ASSUME CommandAssumption ==
  /\ Command # {} /\ Command \subseteq Commands
  /\ \A c \in Command :
       c.kind = "register" \/ (c.kind # "unregister" /\ c.id # NoTarget) => Names(c)
ASSUME InitiallyAssumption ==
  Initially \subseteq {f \in File : f.kind = "absent" => f = Absent}

\* a profile names provider and model, and no base URL
Profile == [target : Target \cup {NoTarget}, benchmarked : BOOLEAN]
NoProfile == [target |-> NoTarget, benchmarked |-> FALSE]

Status == {"none", "completed", "skipped", "unavailable"}
Place == {"idle", "ask", "look", "read", "merge", "entry", "load", "registry",
          "managed", "plan", "open", "write", "audit", "secret", "interview",
          "save", "benchmark"}

VARIABLES file,      \* config.json
          profiles,  \* worker_profiles of data.db, per id
          job,       \* what each process is doing, and how its last command ended
          begun, edits,
          alone,     \* ghost: no other command and no edit while the command ran
          before,    \* ghost: the file when the command began
          seen       \* ghost: what the file held while the command ran
vars == <<file, profiles, job, begun, edits, alone, before, seen>>

Idle == [pc |-> "idle", outcome |-> "none", cmd |-> CHOOSE c \in Command : TRUE,
         disabled |-> FALSE, first |-> Empty, next |-> DefaultConfig, then |-> "idle",
         invalid |-> FALSE, available |-> FALSE, mine |-> NoProfile,
         registered |-> "none", interviewed |-> "none", benchmarked |-> "none"]
Held(f) == IF f.kind = "half" THEN [safety |-> {}, targets |-> {}]
           ELSE [safety |-> {f.safety},
                 targets |-> {<<i, f.workers[i].target, f.workers[i].base>> :
                                i \in DOMAIN f.workers}]

Init == /\ file \in Initially
        /\ profiles = [i \in Id |-> NoProfile]
        /\ job = [p \in Process |-> Idle]
        /\ begun = 0 /\ edits = 0
        /\ alone = [p \in Process |-> TRUE]
        /\ before = [p \in Process |-> Absent]
        /\ seen = [p \in Process |-> Held(Absent)]

Running(p) == job[p].pc # "idle"

\* the file after a step, with the ghosts that follow it
Becomes(f) ==
  /\ file' = f
  /\ seen' = [p \in Process |->
                IF Running(p) THEN [safety |-> seen[p].safety \cup Held(f).safety,
                                    targets |-> seen[p].targets \cup Held(f).targets]
                              ELSE seen[p]]
Stays == UNCHANGED <<file, seen>>

Go(p, j) == /\ job' = [job EXCEPT ![p] = j]
            /\ UNCHANGED <<begun, edits, alone, before>>
End(p, j, outcome) ==
  Go(p, [Idle EXCEPT !.outcome = outcome, !.registered = j.registered,
                     !.interviewed = j.interviewed, !.benchmarked = j.benchmarked])
\* a command that throws, or dies, reports nothing of what it did
Throw(p) == End(p, Idle, "threw") /\ Stays /\ UNCHANGED profiles

-----------------------------------------------------------------------------
(* The three ways the file is read.                                         *)

\* readWorkerRegistry: a file that is not there is an empty registry, and an
\* entry is parsed as a registration, which knows no tuning
RegistryOf(f) == [i \in DOMAIN f.workers |-> [f.workers[i] EXCEPT !.extras = @ \ Tuning]]
\* mutant: a file that cannot be parsed is an empty registry, too
AlwaysReadable(f) == TRUE
\* assertReadableRegistry
Readable(f) == f.kind # "half"
\* loadCwConfig: whatever cannot be read is the default
LoadCwConfig(f) == IF f.kind = "whole" THEN f ELSE DefaultConfig
\* assertWorkerIdAvailable
IdAvailable(regs, i, t, b) == i \in DOMAIN regs => regs[i].target = t /\ regs[i].base = b

With(regs, i, r) == [k \in DOMAIN regs \cup {i} |-> IF k = i THEN r ELSE regs[k]]
Without(regs, i) == Restrict(regs, DOMAIN regs \ {i})
Entry(regs, i) == IF i \in DOMAIN regs THEN regs[i].extras ELSE {}
BaseOf(regs, i) == IF i \in DOMAIN regs THEN regs[i].base ELSE NoBase

-----------------------------------------------------------------------------
(* A command begins.  `worker register` looks the id up for its enabled and *)
(* createdAt; the interactive init asks for an id that is not registered    *)
(* yet, and the rest of its questions come between that read and setup.     *)

FirstPlace(c) == CASE c.kind = "register"   -> "look"
                   [] c.kind = "unregister" -> "read"
                   [] c.kind = "init"       -> "ask"
                   [] c.kind = "setup"      -> "load"

Begin(p, c) ==
  /\ ~Running(p) /\ begun < MaxCommands
  /\ begun' = begun + 1
  /\ job' = [job EXCEPT ![p] = [Idle EXCEPT !.pc = FirstPlace(c), !.cmd = c]]
  /\ alone' = [q \in Process |-> IF q = p THEN \A o \in Process : ~Running(o)
                                          ELSE alone[q] /\ ~Running(q)]
  /\ before' = [before EXCEPT ![p] = file]
  /\ seen' = [seen EXCEPT ![p] = Held(file)]
  /\ UNCHANGED <<file, profiles, edits>>

Look(p) == LET j == job[p] IN
  /\ j.pc = "look"
  /\ Go(p, [j EXCEPT !.pc = "read", !.disabled = "disabled" \in Entry(file.workers, j.cmd.id)])
  /\ Stays /\ UNCHANGED profiles

\* the prompt accepts no other id, and an unreadable registry has none
Ask(p) == LET j == job[p] IN
  /\ j.pc = "ask" /\ j.cmd.id \notin DOMAIN file.workers
  /\ Go(p, [j EXCEPT !.pc = "load"])
  /\ Stays /\ UNCHANGED profiles

-----------------------------------------------------------------------------
(* saveWorkerRegistration and removeWorkerRegistration.                     *)

Registers(j) == j.cmd.kind # "unregister"

ReadRegistry(p) == LET j == job[p] IN
  /\ j.pc = "read"
  /\ IF /\ Readable(file)
        /\ Registers(j) => IdAvailable(RegistryOf(file), j.cmd.id, j.cmd.target, j.cmd.base)
     THEN /\ Go(p, [j EXCEPT !.pc = "merge", !.first = RegistryOf(file)])
          /\ Stays /\ UNCHANGED profiles
     ELSE Throw(p)

\* the entry a command asks for: setup names no notes and enables the worker
Requested(j) ==
  [target |-> j.cmd.target, base |-> j.cmd.base,
   extras |-> IF j.cmd.kind = "register"
              THEN (j.cmd.extras \cap {"tags", "notes"})
                     \cup (IF j.disabled THEN {"disabled"} ELSE {})
              ELSE {"tags"}]

\* mutant: only the worker at hand is written back
MergedConfigOfOne(j, config) ==
  [config EXCEPT !.kind = "whole", !.workers = With(Empty, j.cmd.id, Requested(j))]
\* the registrations are those of the first read, the settings and the
\* tuning of each worker those of the second
MergedConfig(j, config) ==
  LET regs == With(j.first, j.cmd.id, Requested(j)) IN
  [config EXCEPT !.kind = "whole", !.workers =
     [i \in DOMAIN regs |->
        [regs[i] EXCEPT !.extras = @ \cup (Entry(config.workers, i) \cap Tuning)]]]

\* mutant: a missing file has no default
RemovedFromNothing(j, config) == [config EXCEPT !.workers = Without(@, j.cmd.id)]
\* here the removal is from the second read
RemovedConfig(j, config) ==
  [config EXCEPT !.kind = "whole", !.workers = Without(config.workers, j.cmd.id)]

AfterSave(j) == CASE j.cmd.kind = "register"   -> "entry"
                  [] j.cmd.kind = "unregister" -> "idle"
                  [] OTHER                     -> "secret"

Merge(p) == LET j == job[p] IN
  /\ j.pc = "merge"
  /\ IF Readable(file)
     THEN /\ Go(p, [j EXCEPT !.pc = "open", !.then = AfterSave(j),
                      !.next = IF Registers(j) THEN MergedConfig(j, file)
                                               ELSE RemovedConfig(j, file)])
          /\ Stays /\ UNCHANGED profiles
     ELSE Throw(p)

\* persistWorkerConfigEntry, the second half of `worker register`: the entry
\* is written anew from the options, what it keeps are tags and enabled
EntryConfig(j, config) ==
  LET kept == Entry(config.workers, j.cmd.id) \cap {"tags", "disabled"}
  IN [config EXCEPT !.kind = "whole", !.workers = With(@, j.cmd.id,
        [target |-> j.cmd.target, base |-> j.cmd.base,
         extras |-> kept \cup (j.cmd.extras \cap {"command"})])]

PersistWorkerConfigEntry(p) == LET j == job[p] IN
  /\ j.pc = "entry"
  /\ IF Readable(file)
     THEN /\ Go(p, [j EXCEPT !.pc = "open", !.then = "secret", !.next = EntryConfig(j, file)])
          /\ Stays /\ UNCHANGED profiles
     ELSE Throw(p)

-----------------------------------------------------------------------------
(* writeFile, and what comes after it: the audit event of the store or of   *)
(* setup, and the API key, if one is given.  Both open data.db and may      *)
(* throw, with config.json written.                                         *)

Open(p) == LET j == job[p] IN
  /\ j.pc = "open"
  /\ Becomes(Half)
  /\ Go(p, [j EXCEPT !.pc = "write"])
  /\ UNCHANGED profiles

\* persistWorkerConfigEntry alone writes no event
Audited(j) == ~(j.cmd.kind = "register" /\ j.then = "secret")

\* over the contents another process wrote since, the file may end in a rest
\* of those
Write(p) == LET j == job[p] IN
  /\ j.pc = "write"
  /\ \/ Becomes(j.next)
     \/ file.kind # "half" /\ Becomes(Half)
  /\ Go(p, [j EXCEPT !.pc = IF Audited(j) THEN "audit" ELSE j.then])
  /\ UNCHANGED profiles

WriteAuditEvent(p) == LET j == job[p] IN
  /\ j.pc = "audit"
  /\ \/ Throw(p)
     \/ /\ IF j.then = "idle" THEN End(p, j, "ended")
           ELSE Go(p, [j EXCEPT !.pc = j.then,
                         !.registered = IF j.then = "secret" THEN "completed" ELSE @])
        /\ Stays /\ UNCHANGED profiles

SaveWorkerSecret(p) == LET j == job[p] IN
  /\ j.pc = "secret"
  /\ \/ Throw(p)
     \/ /\ IF j.cmd.kind = "register" THEN End(p, j, "ended")
           ELSE Go(p, [j EXCEPT !.pc = "interview"])
        /\ Stays /\ UNCHANGED profiles

-----------------------------------------------------------------------------
(* runSetup: the configuration is loaded, merged with the plan, and written *)
(* back whole; then the worker of the plan is registered, interviewed and   *)
(* benchmarked.                                                             *)

HasPlan(c) == c.id # NoTarget
\* mutant: a worker that is known keeps its entry
MergeUnlessKnown(regs, c) ==
  IF HasPlan(c) /\ c.id \notin DOMAIN regs
  THEN With(regs, c.id, [target |-> c.target, base |-> c.base,
                         extras |-> c.extras \cap {"command"}])
  ELSE regs
\* what the plan does not name is kept, the base URL of the old target, too
MergeWorkerConfigs(regs, c) ==
  IF HasPlan(c)
  THEN With(regs, c.id, [target |-> c.target,
                         base |-> IF c.base = NoBase THEN BaseOf(regs, c.id) ELSE c.base,
                         extras |-> Entry(regs, c.id) \cup (c.extras \cap {"command"})])
  ELSE regs
BuildDesiredConfig(config, c) ==
  [config EXCEPT !.workers = MergeWorkerConfigs(@, c),
                 !.safety = IF c.safety = "keep" THEN @ ELSE c.safety]

Load(p) == LET j == job[p] IN
  /\ j.pc = "load"
  /\ Go(p, [j EXCEPT !.pc = "registry", !.next = BuildDesiredConfig(LoadCwConfig(file), j.cmd)])
  /\ Stays /\ UNCHANGED profiles

RegistryState(p) == LET j == job[p] IN
  /\ j.pc = "registry"
  /\ Go(p, [j EXCEPT !.pc = "managed", !.invalid = ~Readable(file)])
  /\ Stays /\ UNCHANGED profiles

\* writeManagedJson leaves a file alone that has the contents already; the
\* entry of a plan has a new updatedAt and never has
WriteManagedJson(p) == LET j == job[p] IN
  /\ j.pc = "managed"
  /\ Go(p, [j EXCEPT !.pc = IF ~HasPlan(j.cmd) /\ file = j.next THEN "audit" ELSE "open",
                     !.then = "plan"])
  /\ Stays /\ UNCHANGED profiles

\* a plan that cannot be registered, or need not be, goes on without
RegisterPlan(p) == LET j == job[p]
                       known == ~j.invalid /\ j.cmd.id \in DOMAIN file.workers
                       next == [j EXCEPT !.available = known \/ j.cmd.register] IN
  /\ j.pc = "plan"
  /\ CASE ~HasPlan(j.cmd) -> End(p, j, "ended")
       [] HasPlan(j.cmd) /\ j.cmd.register /\ ~j.invalid -> Go(p, [next EXCEPT !.pc = "read"])
       [] OTHER -> Go(p, [next EXCEPT !.pc = "secret",
                            !.registered = IF j.cmd.register THEN "unavailable"
                                           ELSE IF known THEN "completed" ELSE "skipped"])
  /\ Stays /\ UNCHANGED profiles

\* resolveWorkerTarget throws for a worker that is not there or disabled
CanResolve(i) == i \in DOMAIN file.workers /\ "disabled" \notin file.workers[i].extras

\* preserveBenchmarkDerivedPatchCapability: of the same provider and model
Interviewed(old, t) == [target |-> t, benchmarked |-> old.target = t /\ old.benchmarked]

InterviewPlan(p) == LET j == job[p] IN
  /\ j.pc = "interview"
  /\ IF ~j.cmd.interview \/ ~j.available
     THEN /\ Go(p, [j EXCEPT !.pc = "benchmark",
                     !.interviewed = IF j.cmd.interview THEN "unavailable" ELSE "skipped"])
          /\ Stays /\ UNCHANGED profiles
     ELSE IF ~CanResolve(j.cmd.id) THEN Throw(p)
     ELSE /\ Go(p, [j EXCEPT !.pc = "save", !.mine.target = file.workers[j.cmd.id].target])
          /\ Stays /\ UNCHANGED profiles

\* an interview that is not to be persisted leaves the profile as it was;
\* saving one may fail, before the row is written or after
SaveInterview(p) == LET j == job[p]
                        next == Interviewed(profiles[j.cmd.id], j.mine.target)
                        saved == [profiles EXCEPT ![j.cmd.id] = next] IN
  /\ j.pc = "save" /\ Stays
  /\ \/ /\ Go(p, [j EXCEPT !.pc = "benchmark", !.interviewed = "unavailable"])
        /\ UNCHANGED profiles
     \/ /\ Go(p, [j EXCEPT !.pc = "benchmark", !.interviewed = "completed", !.mine = next])
        /\ profiles' = saved
     \/ /\ End(p, Idle, "threw")
        /\ profiles' \in {profiles, saved}

\* the profile is the one this process saved, whatever the database holds
BenchmarkPlan(p) == LET j == job[p] IN
  /\ j.pc = "benchmark"
  /\ IF ~j.cmd.benchmark \/ j.interviewed # "completed"
     THEN /\ End(p, [j EXCEPT !.benchmarked =
                        IF j.cmd.benchmark THEN "unavailable" ELSE "skipped"], "ended")
          /\ Stays /\ UNCHANGED profiles
     ELSE IF ~CanResolve(j.cmd.id) THEN Throw(p)
     ELSE \E qualified \in BOOLEAN :
          /\ profiles' = [profiles EXCEPT ![j.cmd.id] = [j.mine EXCEPT !.benchmarked = qualified]]
          /\ \/ End(p, [j EXCEPT !.benchmarked = "completed"], "ended")
             \/ End(p, Idle, "threw")
          /\ Stays

-----------------------------------------------------------------------------
(* The world.                                                               *)

Die(p) == /\ Running(p)
          /\ End(p, Idle, "died")
          /\ Stays /\ UNCHANGED profiles

\* the operator writes a whole file, between the writes of the commands
Edit(f) ==
  /\ edits < MaxEdits /\ edits' = edits + 1
  /\ \A p \in Process : job[p].pc # "write"
  /\ Becomes(f)
  /\ alone' = [p \in Process |-> alone[p] /\ ~Running(p)]
  /\ UNCHANGED <<profiles, job, begun, before>>

\* what the operator does: tunes, annotates or disables a worker, grants or
\* takes back writes, repairs the file or deletes it
Edited ==
  LET config == LoadCwConfig(file) IN
  {Absent, config}
    \cup {[config EXCEPT !.safety = s] : s \in Safety}
    \cup {[config EXCEPT !.workers[i].extras = @ \cup {x}] :
            i \in DOMAIN config.workers, x \in {"tuning", "notes", "disabled"}}

Step(p) == \/ \E c \in Command : Begin(p, c)
           \/ Look(p) \/ Ask(p) \/ ReadRegistry(p) \/ Merge(p)
           \/ PersistWorkerConfigEntry(p) \/ Open(p) \/ Write(p)
           \/ WriteAuditEvent(p) \/ SaveWorkerSecret(p)
           \/ Load(p) \/ RegistryState(p) \/ WriteManagedJson(p)
           \/ RegisterPlan(p) \/ InterviewPlan(p) \/ SaveInterview(p) \/ BenchmarkPlan(p)
           \/ Die(p)
Next == \/ \E p \in Process : Step(p)
        \/ \E f \in Edited : Edit(f)

Spec == Init /\ [][Next]_vars

-----------------------------------------------------------------------------
(* Properties.                                                              *)

\* Types of the file, the profiles and the jobs.
TypeOK ==
  /\ file \in File
  /\ profiles \in [Id -> Profile]
  /\ \A p \in Process :
       LET j == job[p] IN
       /\ j.pc \in Place /\ j.then \in Place /\ j.cmd \in Command
       /\ j.outcome \in {"none", "ended", "threw", "died"}
       /\ {j.disabled, j.invalid, j.available} \subseteq BOOLEAN
       /\ j.first \in Registrations /\ j.next \in File /\ j.next.kind = "whole"
       /\ j.mine \in Profile
       /\ {j.registered, j.interviewed, j.benchmarked} \subseteq Status
  /\ begun \in 0 .. MaxCommands /\ edits \in 0 .. MaxEdits
  /\ alone \in [Process -> BOOLEAN] /\ before \in [Process -> File]

Writes(p) == job[p].pc = "write" /\ job[p]'.pc # "write" /\ file'.kind = "whole"
Edits(c) == c.kind \in {"register", "unregister"}
Leaves(p, outcome) == Running(p) /\ ~Running(p)' /\ job[p]'.outcome = outcome

\* worker-registry-store.ts:164, :308 and worker.ts:93: a registration or a
\* removal writes settings and targets only that the file held at some
\* moment while the command ran, or that the command itself asks for; a file
\* that a writer left half never comes back as the defaults that way, in
\* whatever order the reads and writes of other commands fall.
WritesWhatItSaw ==
  [][\A p \in Process :
       LET c == job[p].cmd IN
       Writes(p) /\ Edits(c) =>
         /\ file'.safety \in seen[p].safety
         /\ Held(file').targets \subseteq
              seen[p].targets
                \cup (IF c.kind = "register" THEN {<<c.id, c.target, c.base>>} ELSE {})
    ]_vars

\* What command c was asked to do with the registrations `was` and the safety
\* settings, and nothing else, is done.
Done(c, was, safety) ==
  LET is == file'.workers IN
  /\ Without(is, c.id) = Without(was, c.id)
  /\ file'.safety = IF Edits(c) \/ c.safety = "keep" THEN safety ELSE c.safety
  /\ c.kind = "unregister" => c.id \notin DOMAIN is
  /\ c.kind = "register" =>
       /\ is[c.id].target = c.target /\ is[c.id].base = c.base
       /\ IdAvailable(was, c.id, c.target, c.base)
       /\ "disabled" \in Entry(was, c.id) => "disabled" \in Entry(is, c.id)

\* worker-registry-store.ts:127-345, worker.ts:431-450 and setup-workflow.ts:
\* 206: a command no other overlaps, that found the file sound, leaves every
\* other worker as it was, and the safety settings too unless it is a setup
\* that changes them; register moves no id to another target or base URL and
\* enables nothing the operator disabled.  When such a command throws, at
\* whichever of its reads, writes, audit events and secrets, it has written
\* nothing or what it was asked for; and a register or unregister that throws
\* over a half file has not touched it.
AloneLosesNothing ==
  [][\A p \in Process :
       LET c == job[p].cmd
           did == Done(c, before[p].workers, before[p].safety)
           sound == before[p].kind # "half"
       IN alone[p] =>
            /\ Leaves(p, "ended") /\ sound => did
            /\ Leaves(p, "threw") /\ sound => file' = before[p] \/ did
            /\ Leaves(p, "threw") /\ ~sound /\ Edits(c) => file' = before[p]
    ]_vars

\* setup-workflow.ts:508: what a setup nobody disturbed says of its worker is
\* so.  A worker it has registered has the target and the base URL of the
\* plan; one it calls registered already has the target of the plan, and the
\* base URL it had unless the plan names one; a profile it calls persisted is
\* of that target; and a benchmark it calls completed follows an interview.
SetupSaysTrue ==
  [][\A p \in Process :
       LET c == job[p].cmd
           was == before[p].workers
           is == file'.workers
           said == job[p]'
       IN Leaves(p, "ended") /\ alone[p] /\ ~Edits(c) /\ HasPlan(c) =>
            /\ said.registered = "completed" =>
                 /\ c.id \in DOMAIN is /\ is[c.id].target = c.target
                 /\ \/ is[c.id].base = c.base
                    \/ ~c.register /\ c.base = NoBase /\ is[c.id].base = BaseOf(was, c.id)
            /\ said.interviewed = "completed" => profiles'[c.id].target = c.target
            /\ said.benchmarked = "completed" => said.interviewed = "completed"
    ]_vars
=============================================================================

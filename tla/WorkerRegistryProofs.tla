------------------------ MODULE WorkerRegistryProofs ------------------------
(***************************************************************************)
(* What holds of the registrations of workers for any processes, commands, *)
(* initial files and bounds.                                               *)
(***************************************************************************)
EXTENDS WorkerRegistry, TLAPS

TargetsOf(regs) == {<<i, regs[i].target, regs[i].base>> : i \in DOMAIN regs}

Whole == {f \in File : f.kind = "whole"}

-----------------------------------------------------------------------------
(* What the operators on registrations and files return.                   *)

LEMMA RegistrationsDef ==
  /\ \A regs \in Registrations : DOMAIN regs \subseteq Id /\ regs \in [DOMAIN regs -> Registration]
  /\ \A ids \in SUBSET Id : \A regs \in [ids -> Registration] : regs \in Registrations
<1>1. ASSUME NEW regs \in Registrations
      PROVE  DOMAIN regs \subseteq Id /\ regs \in [DOMAIN regs -> Registration]
  <2>1. PICK ids \in SUBSET Id : regs \in [ids -> Registration]
    BY <1>1 DEF Registrations
  <2>2. QED
    BY <2>1
<1>2. QED
  BY <1>1 DEF Registrations

LEMMA EmptyTyped == Empty \in Registrations /\ DefaultConfig \in Whole /\ {Half, Absent} \subseteq File
<1>1. Empty \in [{} -> Registration]
  BY DEF Empty
<1>2. Empty \in Registrations
  BY <1>1, RegistrationsDef
<1>3. QED
  BY <1>2 DEF DefaultConfig, Half, Absent, Whole, File, Safety

LEMMA WithTyped ==
  ASSUME NEW regs \in Registrations, NEW i \in Id, NEW r \in Registration
  PROVE  /\ With(regs, i, r) \in Registrations
         /\ TargetsOf(With(regs, i, r)) \subseteq TargetsOf(regs) \cup {<<i, r.target, r.base>>}
<1> DEFINE new == With(regs, i, r)
<1>1. DOMAIN regs \subseteq Id /\ regs \in [DOMAIN regs -> Registration]
  BY RegistrationsDef
<1>2. /\ DOMAIN new = DOMAIN regs \cup {i}
      /\ \A k \in DOMAIN new : new[k] = IF k = i THEN r ELSE regs[k]
  BY DEF With
<1>3. new \in [DOMAIN regs \cup {i} -> Registration]
  BY <1>1 DEF With
<1>4. new \in Registrations
  BY <1>1, <1>3, RegistrationsDef
<1> HIDE DEF new
<1>5. TargetsOf(new) \subseteq TargetsOf(regs) \cup {<<i, r.target, r.base>>}
  BY <1>2 DEF TargetsOf
<1>6. QED
  BY <1>4, <1>5 DEF new

LEMMA WithoutTyped ==
  ASSUME NEW regs \in Registrations, NEW i
  PROVE  /\ Without(regs, i) \in Registrations
         /\ TargetsOf(Without(regs, i)) \subseteq TargetsOf(regs)
<1> DEFINE new == Without(regs, i)
<1>1. DOMAIN regs \subseteq Id /\ regs \in [DOMAIN regs -> Registration]
  BY RegistrationsDef
<1>2. new \in [DOMAIN regs \ {i} -> Registration] /\ \A k \in DOMAIN regs \ {i} : new[k] = regs[k]
  BY <1>1 DEF Without, Restrict
<1> HIDE DEF new
<1>3. new \in Registrations
  BY <1>1, <1>2, RegistrationsDef
<1>4. TargetsOf(new) \subseteq TargetsOf(regs)
  BY <1>2 DEF TargetsOf
<1>5. QED
  BY <1>3, <1>4 DEF new

LEMMA EntryTyped ==
  ASSUME NEW regs \in Registrations, NEW i
  PROVE  Entry(regs, i) \subseteq Extra
  BY RegistrationsDef DEF Entry, Registration

LEMMA BaseOfTyped ==
  ASSUME NEW regs \in Registrations, NEW i
  PROVE  BaseOf(regs, i) \in Bases
  BY RegistrationsDef DEF BaseOf, Registration, Bases

LEMMA RegistryOfTyped ==
  ASSUME NEW f \in File
  PROVE  /\ RegistryOf(f) \in Registrations /\ DOMAIN RegistryOf(f) = DOMAIN f.workers
         /\ TargetsOf(RegistryOf(f)) = TargetsOf(f.workers)
         /\ \A i \in DOMAIN f.workers :
              /\ RegistryOf(f)[i].target = f.workers[i].target
              /\ RegistryOf(f)[i].base = f.workers[i].base
              /\ RegistryOf(f)[i].extras = f.workers[i].extras \ Tuning
<1> DEFINE regs == f.workers
           first == [i \in DOMAIN regs |-> [regs[i] EXCEPT !.extras = @ \ Tuning]]
<1>1. DOMAIN regs \subseteq Id /\ regs \in [DOMAIN regs -> Registration]
  BY RegistrationsDef DEF File
<1>2. RegistryOf(f) = first
  BY DEF RegistryOf
<1> HIDE DEF regs
<1>3. DOMAIN first = DOMAIN regs
      /\ \A i \in DOMAIN regs : first[i] = [regs[i] EXCEPT !.extras = regs[i].extras \ Tuning]
  OBVIOUS
<1> HIDE DEF first
<1>4. \A i \in DOMAIN regs :
        /\ first[i] \in Registration /\ first[i].target = regs[i].target
        /\ first[i].base = regs[i].base /\ first[i].extras = regs[i].extras \ Tuning
  BY <1>1, <1>3 DEF Registration
<1>5. first \in [DOMAIN regs -> Registration]
  BY <1>3, <1>4 DEF first
<1>6. first \in Registrations
  BY <1>1, <1>5, RegistrationsDef
<1>7. TargetsOf(first) = TargetsOf(regs)
  BY <1>3, <1>4 DEF TargetsOf
<1>8. QED
  BY <1>2, <1>3, <1>4, <1>6, <1>7 DEF regs

\* Each way to change a configuration gives a whole file, with the safety
\* settings and targets of what was read and of the command.
Offers(next, safety, targets, c) ==
  /\ next \in Whole
  /\ next.safety \in safety
  /\ TargetsOf(next.workers) \subseteq
       targets \cup (IF c.kind = "unregister" THEN {} ELSE {<<c.id, c.target, c.base>>})

LEMMA RequestedTyped ==
  ASSUME NEW j, j.cmd \in Commands, Names(j.cmd)
  PROVE  /\ Requested(j) \in Registration
         /\ Requested(j).target = j.cmd.target /\ Requested(j).base = j.cmd.base
  BY DEF Requested, Registration, Names, Commands, Extra

LEMMA MergedConfigOffers ==
  ASSUME NEW j, j.cmd \in Commands, Names(j.cmd), Registers(j), j.first \in Registrations,
         NEW config \in File
  PROVE  Offers(MergedConfig(j, config), {config.safety}, TargetsOf(j.first), j.cmd)
<1> DEFINE regs == With(j.first, j.cmd.id, Requested(j))
           tuned == [i \in DOMAIN regs |->
                       [regs[i] EXCEPT !.extras = @ \cup (Entry(config.workers, i) \cap Tuning)]]
<1>1. /\ regs \in Registrations
      /\ TargetsOf(regs) \subseteq TargetsOf(j.first) \cup {<<j.cmd.id, j.cmd.target, j.cmd.base>>}
  BY RequestedTyped, WithTyped DEF Names
<1>2. MergedConfig(j, config) = [config EXCEPT !.kind = "whole", !.workers = tuned]
  BY DEF MergedConfig
<1> HIDE DEF regs
<1>3. DOMAIN regs \subseteq Id /\ regs \in [DOMAIN regs -> Registration]
  BY <1>1, RegistrationsDef
<1>4. \A i \in DOMAIN regs : /\ tuned[i] \in Registration
                            /\ tuned[i].target = regs[i].target /\ tuned[i].base = regs[i].base
  BY <1>3 DEF Registration, Tuning, Extra
<1>5. tuned \in [DOMAIN regs -> Registration] /\ DOMAIN tuned = DOMAIN regs
  BY <1>4
<1> HIDE DEF tuned
<1>6. tuned \in Registrations
  BY <1>3, <1>5, RegistrationsDef
<1>7. TargetsOf(tuned) = TargetsOf(regs)
  BY <1>4, <1>5 DEF TargetsOf
<1>8. QED
  BY <1>1, <1>2, <1>6, <1>7 DEF Offers, Whole, File, Registers

LEMMA RemovedConfigOffers ==
  ASSUME NEW j, NEW config \in File
  PROVE  Offers(RemovedConfig(j, config), {config.safety}, TargetsOf(config.workers), j.cmd)
  BY WithoutTyped DEF RemovedConfig, Offers, Whole, File

LEMMA EntryConfigOffers ==
  ASSUME NEW j, j.cmd \in Commands, Names(j.cmd), j.cmd.kind = "register", NEW config \in File
  PROVE  Offers(EntryConfig(j, config), {config.safety}, TargetsOf(config.workers), j.cmd)
<1> DEFINE r == [target |-> j.cmd.target, base |-> j.cmd.base,
                 extras |-> (Entry(config.workers, j.cmd.id) \cap {"tags", "disabled"})
                              \cup (j.cmd.extras \cap {"command"})]
<1>1. /\ r \in Registration /\ r.target = j.cmd.target /\ r.base = j.cmd.base
      /\ config.workers \in Registrations
  BY DEF Registration, Names, Extra, Tuning, File, Commands
<1>2. EntryConfig(j, config) =
        [config EXCEPT !.kind = "whole", !.workers = With(config.workers, j.cmd.id, r)]
  BY DEF EntryConfig, File
<1> DEFINE regs == With(config.workers, j.cmd.id, r)
<1> HIDE DEF r
<1>3. /\ regs \in Registrations
      /\ TargetsOf(regs) \subseteq TargetsOf(config.workers) \cup {<<j.cmd.id, j.cmd.target, j.cmd.base>>}
  BY <1>1, WithTyped DEF Names
<1> HIDE DEF regs
<1>4. EntryConfig(j, config) = [config EXCEPT !.kind = "whole", !.workers = regs]
  BY <1>2 DEF regs
<1>5. QED
  BY <1>3, <1>4 DEF Offers, Whole, File

LEMMA DesiredConfigTyped ==
  ASSUME NEW c \in Commands, HasPlan(c) => Names(c), NEW config \in Whole
  PROVE  BuildDesiredConfig(config, c) \in Whole
<1> DEFINE r == [target |-> c.target,
                 base |-> IF c.base = NoBase THEN BaseOf(config.workers, c.id) ELSE c.base,
                 extras |-> Entry(config.workers, c.id) \cup (c.extras \cap {"command"})]
<1>1. config.workers \in Registrations
  BY DEF Whole, File
<1>2. CASE HasPlan(c)
  <2>1. r \in Registration /\ c.id \in Id
    BY <1>1, <1>2, EntryTyped, BaseOfTyped DEF Registration, Names, Extra, Tuning, Commands
  <2>2. MergeWorkerConfigs(config.workers, c) = With(config.workers, c.id, r)
    BY <1>2 DEF MergeWorkerConfigs
  <2>3. MergeWorkerConfigs(config.workers, c) \in Registrations
    BY <1>1, <2>1, <2>2, WithTyped
  <2>4. QED
    BY <2>3 DEF BuildDesiredConfig, Whole, File, Commands, Safety
<1>3. CASE ~HasPlan(c)
  BY <1>1, <1>3 DEF MergeWorkerConfigs, BuildDesiredConfig, Whole, File, Commands, Safety
<1>4. QED
  BY <1>2, <1>3

-----------------------------------------------------------------------------
(* Types.  A command is at a place only if it names what that place needs. *)

Jobs == [pc : Place, outcome : {"none", "ended", "threw", "died"}, cmd : Command,
         disabled : BOOLEAN, first : Registrations, next : Whole, then : Place,
         invalid : BOOLEAN, available : BOOLEAN, mine : Profile,
         registered : Status, interviewed : Status, benchmarked : Status]

\* where a write may lead to
Leads(j) ==
  /\ j.then \in {"idle", "plan", "entry", "secret"}
  /\ j.then = "idle" => j.cmd.kind = "unregister"
  /\ j.then = "plan" => ~Edits(j.cmd)
  /\ j.then = "entry" => j.cmd.kind = "register"
  /\ j.then = "secret" => j.cmd.kind # "unregister"
  /\ j.then \in {"entry", "secret"} => Names(j.cmd)

Naming(j) ==
  /\ j.pc \in {"look", "entry", "secret", "interview", "save", "benchmark"} => Names(j.cmd)
  /\ j.pc \in {"read", "merge"} => j.cmd.kind = "unregister" \/ Names(j.cmd)
  /\ j.pc \in {"ask", "load", "registry", "managed", "plan", "interview", "save", "benchmark"} =>
       ~Edits(j.cmd)
  /\ j.pc \in {"look", "entry"} => j.cmd.kind = "register"
  /\ j.pc = "secret" => j.cmd.kind # "unregister"
  /\ j.pc \in {"open", "write", "audit"} => Leads(j)

Sight == [safety : SUBSET Safety, targets : SUBSET (Id \X Target \X Bases)]

Typed ==
  /\ TypeOK
  /\ job \in [Process -> Jobs] /\ \A p \in Process : Naming(job[p])
  /\ seen \in [Process -> Sight]

LEMMA HeldTyped == \A f \in File : Held(f) \in Sight
<1> SUFFICES ASSUME NEW f \in File PROVE Held(f) \in Sight
  OBVIOUS
<1>1. f.workers \in [DOMAIN f.workers -> Registration] /\ DOMAIN f.workers \subseteq Id
      /\ f.safety \in Safety
  BY RegistrationsDef DEF File
<1>2. \A i \in DOMAIN f.workers : f.workers[i].target \in Target /\ f.workers[i].base \in Bases
  BY <1>1 DEF Registration
<1>3. QED
  BY <1>1, <1>2 DEF Held, Sight

LEMMA IdleTyped == Idle \in Jobs /\ Naming(Idle)
  BY EmptyTyped, CommandAssumption DEF Idle, Jobs, Naming, Place, Profile, NoProfile, Status

\* The jobs and what they have seen determine the types of the rest.
LEMMA TypedParts ==
  ASSUME file \in File, profiles \in [Id -> Profile], job \in [Process -> Jobs],
         \A p \in Process : Naming(job[p]), seen \in [Process -> Sight],
         begun \in 0 .. MaxCommands, edits \in 0 .. MaxEdits,
         alone \in [Process -> BOOLEAN], before \in [Process -> File]
  PROVE  Typed
<1>1. \A p \in Process : job[p] \in Jobs
  OBVIOUS
<1>2. QED
  BY <1>1 DEF Typed, TypeOK, Jobs, Whole

LEMMA RegistryTypedInit == Init => Typed
<1> SUFFICES ASSUME Init PROVE Typed
  OBVIOUS
<1>1. file \in File /\ profiles \in [Id -> Profile]
  BY InitiallyAssumption DEF Init, Profile, NoProfile
<1>2. job \in [Process -> Jobs] /\ \A p \in Process : Naming(job[p])
  BY IdleTyped DEF Init
<1>3. seen \in [Process -> Sight] /\ before \in [Process -> File]
  BY EmptyTyped, HeldTyped DEF Init
<1>4. QED
  BY <1>1, <1>2, <1>3, BoundsAssumption, TypedParts DEF Init
LEMMA RegistryTypedNext == Typed /\ [Next]_vars => Typed'
<1> SUFFICES ASSUME Typed, [Next]_vars PROVE Typed'
  OBVIOUS
<1>t. /\ file \in File /\ profiles \in [Id -> Profile] /\ job \in [Process -> Jobs]
      /\ seen \in [Process -> Sight] /\ begun \in 0 .. MaxCommands /\ edits \in 0 .. MaxEdits
      /\ alone \in [Process -> BOOLEAN] /\ before \in [Process -> File]
      /\ \A p \in Process : Naming(job[p])
  BY DEF Typed, TypeOK
<1>g. ASSUME NEW p \in Process, NEW j \in Jobs, Naming(j), Go(p, j), file' \in File,
             profiles' \in [Id -> Profile], seen' \in [Process -> Sight]
      PROVE  Typed'
  <2>1. job' \in [Process -> Jobs] /\ \A q \in Process : Naming(job'[q])
    BY <1>t, <1>g DEF Go
  <2>2. \A q \in Process : job'[q] \in Jobs
    BY <2>1
  <2>3. UNCHANGED <<begun, edits, alone, before>>
    BY <1>g DEF Go
  <2>4. QED
    BY <1>t, <1>g, <2>1, <2>2, <2>3 DEF Typed, TypeOK, Jobs, Whole
<1>s. Stays => file' \in File /\ seen' \in [Process -> Sight]
  BY <1>t DEF Stays
<1>f. ASSUME NEW f \in File, Becomes(f) PROVE file' \in File /\ seen' \in [Process -> Sight]
  BY <1>t, <1>f, HeldTyped DEF Becomes, Sight
<1>e. ASSUME NEW p \in Process, NEW j \in Jobs, NEW outcome \in {"none", "ended", "threw", "died"},
             End(p, j, outcome), file' \in File, profiles' \in [Id -> Profile],
             seen' \in [Process -> Sight]
      PROVE  Typed'
  <2> DEFINE over == [Idle EXCEPT !.outcome = outcome, !.registered = j.registered,
                        !.interviewed = j.interviewed, !.benchmarked = j.benchmarked]
  <2>1. over \in Jobs /\ over.pc = "idle" /\ over.then = "idle"
    BY IdleTyped DEF Jobs, Idle
  <2>2. Naming(over)
    BY <2>1 DEF Naming
  <2>3. Go(p, over)
    BY <1>e DEF End
  <2> HIDE DEF over
  <2>4. QED
    BY <1>e, <1>g, <2>1, <2>2, <2>3
<1>x. ASSUME NEW p \in Process, Throw(p) PROVE Typed'
  BY <1>x, <1>e, <1>s, <1>t, IdleTyped DEF Throw
<1>1. ASSUME NEW p \in Process, NEW c \in Command, Begin(p, c) PROVE Typed'
  <2> DEFINE j == [Idle EXCEPT !.pc = FirstPlace(c), !.cmd = c]
  <2>1. /\ FirstPlace(c) \in {"look", "read", "ask", "load"}
        /\ FirstPlace(c) = "look" => Names(c) /\ c.kind = "register"
        /\ FirstPlace(c) = "read" => c.kind = "unregister"
        /\ FirstPlace(c) \in {"ask", "load"} => ~Edits(c)
    BY CommandAssumption DEF FirstPlace, Commands, Edits
  <2>2. j \in Jobs /\ j.pc = FirstPlace(c) /\ j.then = "idle" /\ j.cmd = c
    BY IdleTyped, <2>1 DEF Jobs, Place, Idle
  <2>3. Naming(j)
    BY <2>1, <2>2 DEF Naming
  <2>4. job' = [job EXCEPT ![p] = j]
    BY <1>1 DEF Begin
  <2> HIDE DEF j
  <2>5. job' \in [Process -> Jobs] /\ \A q \in Process : Naming(job'[q])
    BY <1>t, <2>2, <2>3, <2>4
  <2>6. \A q \in Process : job'[q] \in Jobs
    BY <2>5
  <2>a. begun' \in 0 .. MaxCommands
    BY <1>1, <1>t, BoundsAssumption DEF Begin
  <2>b. alone' \in [Process -> BOOLEAN]
    BY <1>1, <1>t DEF Begin
  <2>c. Held(file) \in Sight
    BY <1>t, HeldTyped
  <2>d. before' \in [Process -> File] /\ seen' \in [Process -> Sight]
    BY <1>1, <1>t, <2>c DEF Begin
  <2>7. /\ begun' \in 0 .. MaxCommands /\ alone' \in [Process -> BOOLEAN]
        /\ before' \in [Process -> File] /\ seen' \in [Process -> Sight]
        /\ UNCHANGED <<file, profiles, edits>>
    BY <1>1, <2>a, <2>b, <2>d DEF Begin
  <2>8. QED
    BY <1>t, <2>5, <2>6, <2>7 DEF Typed, TypeOK, Jobs, Whole
<1>2. ASSUME NEW p \in Process, Look(p) PROVE Typed'
  <2> DEFINE disabled == "disabled" \in Entry(file.workers, job[p].cmd.id)
             j == [job[p] EXCEPT !.pc = "read", !.disabled = disabled]
  <2>1. job[p] \in Jobs /\ Naming(job[p]) /\ job[p].pc = "look" /\ Go(p, j) /\ disabled \in BOOLEAN
    BY <1>t, <1>2 DEF Look
  <2>2. Stays /\ profiles' = profiles
    BY <1>2 DEF Look
  <2> HIDE DEF disabled
  <2>3. j \in Jobs /\ Naming(j)
    BY <2>1 DEF Jobs, Place, Naming
  <2> HIDE DEF j
  <2>4. QED
    BY <1>g, <1>s, <1>t, <2>1, <2>2, <2>3
<1>3. ASSUME NEW p \in Process, Ask(p) PROVE Typed'
  <2> DEFINE j == [job[p] EXCEPT !.pc = "load"]
  <2>1. job[p] \in Jobs /\ Naming(job[p]) /\ job[p].pc = "ask" /\ Go(p, j)
    BY <1>t, <1>3 DEF Ask
  <2>2. Stays /\ profiles' = profiles
    BY <1>3 DEF Ask
  <2>3. j \in Jobs /\ Naming(j)
    BY <2>1 DEF Jobs, Place, Naming
  <2> HIDE DEF j
  <2>4. QED
    BY <1>g, <1>s, <1>t, <2>1, <2>2, <2>3
<1>4. ASSUME NEW p \in Process, ReadRegistry(p) PROVE Typed'
  <2> DEFINE j == [job[p] EXCEPT !.pc = "merge", !.first = RegistryOf(file)]
  <2>1. job[p] \in Jobs /\ Naming(job[p]) /\ job[p].pc = "read"
    BY <1>t, <1>4 DEF ReadRegistry
  <2>2. Throw(p) \/ (Go(p, j) /\ Stays /\ profiles' = profiles)
    BY <1>4 DEF ReadRegistry
  <2>3. RegistryOf(file) \in Registrations
    BY <1>t, RegistryOfTyped
  <2>a. j \in Jobs
    BY <2>1, <2>3 DEF Jobs, Place
  <2>b. Naming(j)
    BY <2>1 DEF Jobs, Naming
  <2> HIDE DEF j
  <2>4. QED
    BY <1>g, <1>s, <1>t, <1>x, <2>2, <2>a, <2>b
<1>5. ASSUME NEW p \in Process, Merge(p) PROVE Typed'
  <2> DEFINE next == IF Registers(job[p]) THEN MergedConfig(job[p], file)
                                          ELSE RemovedConfig(job[p], file)
             j == [job[p] EXCEPT !.pc = "open", !.then = AfterSave(job[p]), !.next = next]
  <2>1. job[p] \in Jobs /\ Naming(job[p]) /\ job[p].pc = "merge"
    BY <1>t, <1>5 DEF Merge
  <2>2. Throw(p) \/ (Go(p, j) /\ Stays /\ profiles' = profiles)
    BY <1>5 DEF Merge
  <2>3. next \in Whole
    <3>1. job[p].cmd \in Commands /\ job[p].first \in Registrations
      BY <2>1, CommandAssumption DEF Jobs
    <3>2. CASE Registers(job[p])
      <4>1. Names(job[p].cmd)
        BY <2>1, <3>2 DEF Naming, Registers
      <4>2. QED
        BY <1>t, <3>1, <3>2, <4>1, MergedConfigOffers DEF Offers
    <3>3. CASE ~Registers(job[p])
      BY <1>t, <3>3, RemovedConfigOffers DEF Offers
    <3>4. QED
      BY <3>2, <3>3
  <2>4. /\ AfterSave(job[p]) \in {"entry", "idle", "secret"}
        /\ AfterSave(job[p]) = "entry" => job[p].cmd.kind = "register"
        /\ AfterSave(job[p]) = "idle" => job[p].cmd.kind = "unregister"
        /\ AfterSave(job[p]) \in {"entry", "secret"} => job[p].cmd.kind # "unregister"
    BY DEF AfterSave
  <2> HIDE DEF next
  <2>a. j \in Jobs /\ j.pc = "open" /\ j.then = AfterSave(job[p]) /\ j.cmd = job[p].cmd
    BY <2>1, <2>3, <2>4 DEF Jobs, Place
  <2>b. Leads(j)
    BY <2>1, <2>4, <2>a DEF Naming, Leads
  <2>5. j \in Jobs /\ Naming(j)
    BY <2>a, <2>b DEF Naming
  <2> HIDE DEF j
  <2>6. QED
    BY <1>g, <1>s, <1>t, <1>x, <2>2, <2>5
<1>6. ASSUME NEW p \in Process, PersistWorkerConfigEntry(p) PROVE Typed'
  <2> DEFINE j == [job[p] EXCEPT !.pc = "open", !.then = "secret", !.next = EntryConfig(job[p], file)]
  <2>1. job[p] \in Jobs /\ Naming(job[p]) /\ job[p].pc = "entry"
    BY <1>t, <1>6 DEF PersistWorkerConfigEntry
  <2>2. Throw(p) \/ (Go(p, j) /\ Stays /\ profiles' = profiles)
    BY <1>6 DEF PersistWorkerConfigEntry
  <2>3. EntryConfig(job[p], file) \in Whole
    <3>1. /\ job[p].cmd \in Commands /\ Names(job[p].cmd) /\ job[p].cmd.kind = "register"
      BY <2>1, CommandAssumption DEF Jobs, Naming
    <3>2. QED
      BY <1>t, <3>1, EntryConfigOffers DEF Offers
  <2>4. j \in Jobs /\ Naming(j)
    BY <2>1, <2>3 DEF Jobs, Place, Naming, Leads
  <2> HIDE DEF j
  <2>5. QED
    BY <1>g, <1>s, <1>t, <1>x, <2>2, <2>4
<1>7. ASSUME NEW p \in Process, Open(p) PROVE Typed'
  <2> DEFINE j == [job[p] EXCEPT !.pc = "write"]
  <2>1. job[p] \in Jobs /\ Naming(job[p]) /\ job[p].pc = "open" /\ Go(p, j)
        /\ Becomes(Half) /\ profiles' = profiles
    BY <1>t, <1>7 DEF Open
  <2>2. file' \in File /\ seen' \in [Process -> Sight]
    BY <1>f, <2>1, EmptyTyped
  <2>3. j \in Jobs /\ Naming(j)
    BY <2>1 DEF Jobs, Place, Naming, Leads
  <2> HIDE DEF j
  <2>4. QED
    BY <1>g, <1>t, <2>1, <2>2, <2>3
<1>8. ASSUME NEW p \in Process, Write(p) PROVE Typed'
  <2> DEFINE place == IF Audited(job[p]) THEN "audit" ELSE job[p].then
             j == [job[p] EXCEPT !.pc = place]
  <2>1. job[p] \in Jobs /\ Naming(job[p]) /\ job[p].pc = "write" /\ Go(p, j) /\ profiles' = profiles
    BY <1>t, <1>8 DEF Write
  <2>2. Becomes(job[p].next) \/ Becomes(Half)
    BY <1>8 DEF Write
  <2>3. file' \in File /\ seen' \in [Process -> Sight]
    BY <1>f, <2>1, <2>2, EmptyTyped DEF Jobs, Whole
  <2>4. place = "audit" \/ (place = "secret" /\ job[p].then = "secret")
    BY DEF Audited
  <2> HIDE DEF place
  <2>5. j \in Jobs /\ Naming(j)
    BY <2>1, <2>4 DEF Jobs, Place, Naming, Leads
  <2> HIDE DEF j
  <2>6. QED
    BY <1>g, <1>t, <2>1, <2>3, <2>5
<1>19. ASSUME NEW p \in Process, WriteAuditEvent(p) PROVE Typed'
  <2> DEFINE said == IF job[p].then = "secret" THEN "completed" ELSE job[p].registered
             j == [job[p] EXCEPT !.pc = job[p].then, !.registered = said]
  <2>1. job[p] \in Jobs /\ Naming(job[p]) /\ job[p].pc = "audit"
    BY <1>t, <1>19 DEF WriteAuditEvent
  <2>2. \/ Throw(p)
        \/ End(p, job[p], "ended") /\ Stays /\ profiles' = profiles
        \/ job[p].then # "idle" /\ Go(p, j) /\ Stays /\ profiles' = profiles
    BY <1>19, <2>1 DEF WriteAuditEvent, Jobs
  <2>3. said \in Status
    BY <2>1 DEF Jobs, Status
  <2> HIDE DEF said
  <2>4. job[p].then # "idle" => j \in Jobs /\ Naming(j)
    BY <2>1, <2>3 DEF Jobs, Place, Naming, Leads
  <2> HIDE DEF j
  <2>5. QED
    BY <1>g, <1>e, <1>s, <1>t, <1>x, <2>1, <2>2, <2>4
<1>20. ASSUME NEW p \in Process, SaveWorkerSecret(p) PROVE Typed'
  <2> DEFINE j == [job[p] EXCEPT !.pc = "interview"]
  <2>1. job[p] \in Jobs /\ Naming(job[p]) /\ job[p].pc = "secret"
    BY <1>t, <1>20 DEF SaveWorkerSecret
  <2>2. \/ Throw(p)
        \/ End(p, job[p], "ended") /\ Stays /\ profiles' = profiles
        \/ job[p].cmd.kind # "register" /\ Go(p, j) /\ Stays /\ profiles' = profiles
    BY <1>20 DEF SaveWorkerSecret
  <2>3. job[p].cmd.kind # "register" => j \in Jobs /\ Naming(j)
    BY <2>1 DEF Jobs, Place, Naming, Edits
  <2> HIDE DEF j
  <2>4. QED
    BY <1>g, <1>e, <1>s, <1>t, <1>x, <2>1, <2>2, <2>3
<1>9. ASSUME NEW p \in Process, Load(p) PROVE Typed'
  <2> DEFINE next == BuildDesiredConfig(LoadCwConfig(file), job[p].cmd)
             j == [job[p] EXCEPT !.pc = "registry", !.next = next]
  <2>1. job[p] \in Jobs /\ Naming(job[p]) /\ job[p].pc = "load" /\ Go(p, j)
        /\ Stays /\ profiles' = profiles
    BY <1>t, <1>9 DEF Load
  <2>2. next \in Whole
    <3>1. LoadCwConfig(file) \in Whole
      BY <1>t, EmptyTyped DEF LoadCwConfig, Whole
    <3>2. job[p].cmd \in Commands /\ (HasPlan(job[p].cmd) => Names(job[p].cmd))
      BY <2>1, CommandAssumption DEF Jobs, Naming, HasPlan, Edits
    <3>3. QED
      BY <3>1, <3>2, DesiredConfigTyped
  <2> HIDE DEF next
  <2>3. j \in Jobs /\ Naming(j)
    BY <2>1, <2>2 DEF Jobs, Place, Naming
  <2> HIDE DEF j
  <2>4. QED
    BY <1>g, <1>s, <1>t, <2>1, <2>3
<1>10. ASSUME NEW p \in Process, RegistryState(p) PROVE Typed'
  <2> DEFINE invalid == ~Readable(file)
             j == [job[p] EXCEPT !.pc = "managed", !.invalid = invalid]
  <2>1. job[p] \in Jobs /\ Naming(job[p]) /\ job[p].pc = "registry" /\ Go(p, j)
        /\ Stays /\ profiles' = profiles /\ invalid \in BOOLEAN
    BY <1>t, <1>10 DEF RegistryState
  <2> HIDE DEF invalid
  <2>2. j \in Jobs /\ Naming(j)
    BY <2>1 DEF Jobs, Place, Naming
  <2> HIDE DEF j
  <2>3. QED
    BY <1>g, <1>s, <1>t, <2>1, <2>2
<1>11. ASSUME NEW p \in Process, WriteManagedJson(p) PROVE Typed'
  <2> DEFINE place == IF ~HasPlan(job[p].cmd) /\ file = job[p].next THEN "audit" ELSE "open"
             j == [job[p] EXCEPT !.pc = place, !.then = "plan"]
  <2>1. job[p] \in Jobs /\ Naming(job[p]) /\ job[p].pc = "managed" /\ Go(p, j)
        /\ Stays /\ profiles' = profiles /\ place \in {"audit", "open"}
    BY <1>t, <1>11 DEF WriteManagedJson
  <2> HIDE DEF place
  <2>2. j \in Jobs /\ Naming(j)
    BY <2>1 DEF Jobs, Place, Naming, Leads
  <2> HIDE DEF j
  <2>3. QED
    BY <1>g, <1>s, <1>t, <2>1, <2>2
<1>12. ASSUME NEW p \in Process, RegisterPlan(p) PROVE Typed'
  <2> DEFINE known == ~job[p].invalid /\ job[p].cmd.id \in DOMAIN file.workers
             available == known \/ job[p].cmd.register
             says == IF job[p].cmd.register THEN "unavailable"
                     ELSE IF known THEN "completed" ELSE "skipped"
             next == [job[p] EXCEPT !.available = available]
             read == [next EXCEPT !.pc = "read"]
             secret == [next EXCEPT !.pc = "secret", !.registered = says]
  <2>1. job[p] \in Jobs /\ Naming(job[p]) /\ job[p].pc = "plan" /\ Stays /\ profiles' = profiles
    BY <1>t, <1>12 DEF RegisterPlan
  <2>2. ~Edits(job[p].cmd) /\ (HasPlan(job[p].cmd) => Names(job[p].cmd))
    BY <2>1, CommandAssumption DEF Jobs, Naming, HasPlan, Edits
  <2>3. \/ End(p, job[p], "ended")
        \/ HasPlan(job[p].cmd) /\ (Go(p, read) \/ Go(p, secret))
    BY <1>12 DEF RegisterPlan
  <2>4. available \in BOOLEAN /\ says \in Status
    BY <2>1, CommandAssumption DEF Jobs, Status, Commands
  <2> HIDE DEF available, says
  <2>5. HasPlan(job[p].cmd) => read \in Jobs /\ secret \in Jobs
    BY <2>1, <2>4 DEF Jobs, Place
  <2>6. HasPlan(job[p].cmd) => Naming(read) /\ Naming(secret)
    BY <2>1, <2>2 DEF Jobs, Naming, Edits
  <2> HIDE DEF read, secret
  <2>7. QED
    BY <1>e, <1>g, <1>s, <1>t, <2>1, <2>3, <2>5, <2>6
<1>13. ASSUME NEW p \in Process, InterviewPlan(p) PROVE Typed'
  <2>1. job[p] \in Jobs /\ Naming(job[p]) /\ job[p].pc = "interview" /\ Names(job[p].cmd)
    BY <1>t, <1>13 DEF InterviewPlan, Naming
  <2> DEFINE why == IF job[p].cmd.interview THEN "unavailable" ELSE "skipped"
             out == [job[p] EXCEPT !.pc = "benchmark", !.interviewed = why]
  <2>2. CASE Go(p, out) /\ Stays /\ profiles' = profiles
    <3>1. why \in Status
      BY DEF Status
    <3> HIDE DEF why
    <3>2. out \in Jobs /\ Naming(out)
      BY <2>1, <3>1 DEF Jobs, Place, Naming
    <3> HIDE DEF out
    <3>3. QED
      BY <1>g, <1>s, <1>t, <2>2, <3>2
  <2>3. CASE /\ CanResolve(job[p].cmd.id) /\ Stays /\ profiles' = profiles
             /\ Go(p, [job[p] EXCEPT !.pc = "save",
                         !.mine.target = file.workers[job[p].cmd.id].target])
    <3> DEFINE target == file.workers[job[p].cmd.id].target
               j == [job[p] EXCEPT !.pc = "save", !.mine.target = target]
    <3>1. target \in Target
      BY <1>t, <2>3, RegistrationsDef DEF CanResolve, File, Registration
    <3> HIDE DEF target
    <3>2. j \in Jobs /\ Naming(j)
      BY <2>1, <3>1 DEF Jobs, Place, Naming, Profile
    <3> HIDE DEF j
    <3>3. QED
      BY <1>g, <1>s, <1>t, <2>3, <3>2 DEF j, target
  <2>4. QED
    BY <1>13, <1>x, <2>2, <2>3 DEF InterviewPlan
<1>14. ASSUME NEW p \in Process, SaveInterview(p) PROVE Typed'
  <2> DEFINE i == job[p].cmd.id
             next == Interviewed(profiles[i], job[p].mine.target)
             j == [job[p] EXCEPT !.pc = "benchmark", !.interviewed = "unavailable"]
             k == [job[p] EXCEPT !.pc = "benchmark", !.interviewed = "completed", !.mine = next]
  <2>1. /\ job[p] \in Jobs /\ Naming(job[p]) /\ job[p].pc = "save" /\ Names(job[p].cmd) /\ Stays
        /\ \/ Go(p, j) /\ profiles' = profiles
           \/ Go(p, k) /\ profiles' = [profiles EXCEPT ![i] = next]
           \/ End(p, Idle, "threw") /\ profiles' \in {profiles, [profiles EXCEPT ![i] = next]}
    BY <1>t, <1>14 DEF SaveInterview, Naming
  <2>2. next \in Profile
    BY <1>t, <2>1 DEF Interviewed, Profile, Jobs, Names
  <2> HIDE DEF next
  <2>a. j \in Jobs /\ k \in Jobs
    BY <2>1, <2>2 DEF Jobs, Place, Status
  <2>b. Naming(j) /\ Naming(k)
    BY <2>1 DEF Naming, Jobs
  <2>c. profiles' \in [Id -> Profile]
    BY <1>t, <2>1, <2>2
  <2>3. /\ j \in Jobs /\ Naming(j) /\ k \in Jobs /\ Naming(k)
        /\ profiles' \in [Id -> Profile]
    BY <2>a, <2>b, <2>c
  <2> HIDE DEF j, k
  <2>4. QED
    BY <1>e, <1>g, <1>s, <2>1, <2>3, IdleTyped
<1>15. ASSUME NEW p \in Process, BenchmarkPlan(p) PROVE Typed'
  <2> DEFINE why == IF job[p].cmd.benchmark THEN "unavailable" ELSE "skipped"
             out == [job[p] EXCEPT !.benchmarked = why]
             done == [job[p] EXCEPT !.benchmarked = "completed"]
  <2>1. job[p] \in Jobs /\ why \in Status
    BY <1>t DEF Status
  <2>2. \/ Throw(p)
        \/ End(p, out, "ended") /\ Stays /\ profiles' = profiles
        \/ \E qualified \in BOOLEAN :
             /\ profiles' = [profiles EXCEPT ![job[p].cmd.id] =
                                [job[p].mine EXCEPT !.benchmarked = qualified]]
             /\ End(p, done, "ended") \/ End(p, Idle, "threw")
             /\ Stays
    BY <1>15 DEF BenchmarkPlan
  <2> HIDE DEF why
  <2>3. out \in Jobs /\ done \in Jobs
    BY <2>1 DEF Jobs, Status
  <2>4. \A qualified \in BOOLEAN : [job[p].mine EXCEPT !.benchmarked = qualified] \in Profile
    BY <2>1 DEF Jobs, Profile
  <2> HIDE DEF out, done
  <2>5. QED
    BY <1>e, <1>s, <1>t, <1>x, <2>2, <2>3, <2>4, IdleTyped
<1>16. ASSUME NEW p \in Process, Die(p) PROVE Typed'
  BY <1>16, <1>e, <1>s, <1>t, IdleTyped DEF Die
<1>17. ASSUME NEW f \in Edited, Edit(f) PROVE Typed'
  <2>1. f \in File
    <3> DEFINE config == LoadCwConfig(file)
    <3>1. config \in File
      BY <1>t, EmptyTyped DEF LoadCwConfig, Whole
    <3>2. f \in {Absent, config} \cup {[config EXCEPT !.safety = s] : s \in Safety}
            \cup {[config EXCEPT !.workers[i].extras = @ \cup {x}] :
                    i \in DOMAIN config.workers, x \in {"tuning", "notes", "disabled"}}
      BY DEF Edited
    <3> HIDE DEF config
    <3>3. ASSUME NEW i \in DOMAIN config.workers, NEW x \in {"tuning", "notes", "disabled"},
                 f = [config EXCEPT !.workers[i].extras = @ \cup {x}]
          PROVE  f \in File
      <4> DEFINE regs == [config.workers EXCEPT ![i].extras = @ \cup {x}]
      <4>1. DOMAIN config.workers \subseteq Id
            /\ config.workers \in [DOMAIN config.workers -> Registration]
        BY <3>1, RegistrationsDef DEF File
      <4>2. regs \in [DOMAIN config.workers -> Registration]
        BY <4>1 DEF Registration, Extra, Tuning
      <4>3. regs \in Registrations
        BY <4>1, <4>2, RegistrationsDef
      <4>4. f = [config EXCEPT !.workers = regs]
        BY <3>1, <3>3 DEF File
      <4> HIDE DEF regs
      <4>5. QED
        BY <3>1, <4>3, <4>4 DEF File
    <3>4. QED
      BY <3>1, <3>2, <3>3, EmptyTyped DEF File
  <2>2. file' \in File /\ seen' \in [Process -> Sight]
    BY <1>17, <1>f, <2>1 DEF Edit
  <2>3. /\ UNCHANGED <<profiles, job, begun, before>>
        /\ edits' \in 0 .. MaxEdits /\ alone' \in [Process -> BOOLEAN]
    BY <1>t, <1>17, BoundsAssumption DEF Edit
  <2>4. \A q \in Process : job[q] \in Jobs
    BY <1>t
  <2>5. QED
    BY <1>t, <2>2, <2>3, <2>4 DEF Typed, TypeOK, Jobs, Whole
<1>18. CASE UNCHANGED vars
  <2>1. \A q \in Process : job[q] \in Jobs
    BY <1>t
  <2>2. QED
    BY <1>t, <1>18, <2>1 DEF vars, Typed, TypeOK, Jobs, Whole
<1>21. QED
  BY <1>1, <1>2, <1>3, <1>4, <1>5, <1>6, <1>7, <1>8, <1>9, <1>10, <1>11, <1>12, <1>13, <1>14, <1>15,
     <1>16, <1>17, <1>18, <1>19, <1>20 DEF Next, Step

LEMMA RegistryAlwaysTyped == Spec => []Typed
  BY RegistryTypedInit, RegistryTypedNext, PTL DEF Spec

\* Every reachable file is one, and every job holds what its place needs.
THEOREM RegistryTypeCorrect == Spec => []TypeOK
<1>1. Typed => TypeOK
  BY DEF Typed
<1>2. QED
  BY <1>1, RegistryAlwaysTyped, PTL
-----------------------------------------------------------------------------
(* What a command writes it saw.  Between the read and the write the file  *)
(* belongs to anybody, so the invariant speaks of what the job holds: it   *)
(* comes from what the command has seen until now, which only grows.       *)

Provided(j, sight) ==
  Edits(j.cmd) =>
    /\ j.pc = "merge" => TargetsOf(j.first) \subseteq sight.targets
    /\ j.pc \in {"open", "write"} => Offers(j.next, sight.safety, sight.targets, j.cmd)

SeesFile(p) ==
  Running(p) => /\ Held(file).safety \subseteq seen[p].safety
                /\ Held(file).targets \subseteq seen[p].targets

SightInv == \A p \in Process : SeesFile(p) /\ Provided(job[p], seen[p])

LEMMA SightInit == Init => SightInv
<1> SUFFICES ASSUME Init, NEW p \in Process PROVE SeesFile(p) /\ Provided(job[p], seen[p])
  BY DEF SightInv
<1>1. job[p].pc = "idle"
  BY DEF Init, Idle
<1>2. QED
  BY <1>1 DEF SeesFile, Running, Provided

LEMMA HeldReadable ==
  ASSUME NEW f \in File, f.kind # "half"
  PROVE  Held(f).safety = {f.safety} /\ Held(f).targets = TargetsOf(f.workers)
  BY DEF Held, TargetsOf

LEMMA SightNext == Typed /\ SightInv /\ [Next]_vars => SightInv'
<1> SUFFICES ASSUME Typed, SightInv, [Next]_vars PROVE SightInv'
  OBVIOUS
<1>t. /\ file \in File /\ job \in [Process -> Jobs] /\ seen \in [Process -> Sight]
      /\ \A p \in Process : /\ job[p] \in Jobs /\ seen[p] \in Sight /\ Naming(job[p])
                            /\ SeesFile(p) /\ Provided(job[p], seen[p])
  BY DEF Typed, TypeOK, SightInv
<1>o. ASSUME NEW j, NEW old \in Sight, NEW new \in Sight, old.safety \subseteq new.safety,
             old.targets \subseteq new.targets, Provided(j, old)
      PROVE  Provided(j, new)
  BY <1>o DEF Provided, Offers
<1>m. ASSUME Stays \/ \E f \in File : Becomes(f), NEW q \in Process
      PROVE  /\ seen'[q] \in Sight
             /\ seen[q].safety \subseteq seen'[q].safety /\ seen[q].targets \subseteq seen'[q].targets
             /\ Running(q) => /\ Held(file').safety \subseteq seen'[q].safety
                              /\ Held(file').targets \subseteq seen'[q].targets
  <2>1. CASE Stays
    BY <1>t, <2>1 DEF Stays, SeesFile
  <2>2. ASSUME NEW f \in File, Becomes(f)
        PROVE  /\ seen'[q] \in Sight
               /\ seen[q].safety \subseteq seen'[q].safety /\ seen[q].targets \subseteq seen'[q].targets
               /\ Running(q) => /\ Held(file').safety \subseteq seen'[q].safety
                                /\ Held(file').targets \subseteq seen'[q].targets
    <3>1. Held(f) \in Sight /\ file' = f /\ seen[q] \in Sight
      BY <1>t, <2>2, HeldTyped DEF Becomes
    <3>2. seen'[q] = IF Running(q)
                     THEN [safety |-> seen[q].safety \cup Held(f).safety,
                           targets |-> seen[q].targets \cup Held(f).targets]
                     ELSE seen[q]
      BY <2>2 DEF Becomes
    <3>3. QED
      BY <3>1, <3>2 DEF Sight
  <2>3. QED
    BY <1>m, <2>1, <2>2
<1>g. ASSUME NEW p \in Process, NEW j, Running(p), Go(p, j),
             Stays \/ \E f \in File : Becomes(f), Provided(j, seen[p])
      PROVE  SightInv'
  <2> SUFFICES ASSUME NEW q \in Process PROVE SeesFile(q)' /\ Provided(job'[q], seen'[q])
    BY DEF SightInv
  <2>1. job'[q] = IF q = p THEN j ELSE job[q]
    BY <1>g, <1>t DEF Go
  <2>2. Provided(job'[q], seen[q])
    BY <1>g, <1>t, <2>1
  <2>3. Provided(job'[q], seen'[q])
    BY <1>g, <1>m, <1>o, <1>t, <2>2
  <2>4. Running(q)' => Running(q)
    BY <1>g, <2>1 DEF Running
  <2>5. SeesFile(q)'
    BY <1>g, <1>m, <2>4 DEF SeesFile
  <2>6. QED
    BY <2>3, <2>5
<1>e. ASSUME NEW p \in Process, NEW j, NEW outcome, Running(p), End(p, j, outcome),
             Stays \/ \E f \in File : Becomes(f)
      PROVE  SightInv'
  <2> DEFINE over == [Idle EXCEPT !.outcome = outcome, !.registered = j.registered,
                        !.interviewed = j.interviewed, !.benchmarked = j.benchmarked]
  <2>1. over.pc = "idle"
    BY DEF Idle
  <2>2. Go(p, over)
    BY <1>e DEF End
  <2> HIDE DEF over
  <2>3. QED
    BY <1>e, <1>g, <2>1, <2>2 DEF Provided
<1>q. ASSUME NEW p \in Process, NEW j, Running(p), Go(p, j), Stays,
             j.pc \notin {"merge", "open", "write"} \/ ~Edits(j.cmd)
      PROVE  SightInv'
  BY <1>g, <1>q DEF Provided
<1>x. ASSUME NEW p \in Process, Running(p), Throw(p) PROVE SightInv'
  BY <1>e, <1>x DEF Throw
<1>h. ASSUME NEW p \in Process, Running(p), Readable(file)
      PROVE  file.safety \in seen[p].safety /\ TargetsOf(file.workers) \subseteq seen[p].targets
  BY <1>h, <1>t, HeldReadable DEF Readable, SeesFile
<1>1. ASSUME NEW p \in Process, NEW c \in Command, Begin(p, c) PROVE SightInv'
  <2> SUFFICES ASSUME NEW q \in Process PROVE SeesFile(q)' /\ Provided(job'[q], seen'[q])
    BY DEF SightInv
  <2>1. CASE q # p
    BY <1>1, <1>t, <2>1 DEF Begin, SeesFile, Running
  <2>2. CASE q = p
    <3>1. file' = file /\ seen'[q] = Held(file)
      BY <1>1, <1>t, <2>2 DEF Begin
    <3>2. FirstPlace(c) \notin {"merge", "open", "write"}
      BY CommandAssumption DEF FirstPlace, Commands
    <3>3. job'[q].pc = FirstPlace(c)
      BY <1>1, <1>t, <2>2 DEF Begin, Idle
    <3>4. QED
      BY <3>1, <3>2, <3>3 DEF SeesFile, Provided
  <2>3. QED
    BY <2>1, <2>2
<1>2. ASSUME NEW p \in Process, Look(p) \/ Ask(p) \/ RegistryState(p) PROVE SightInv'
  <2>1. PICK j : Go(p, j) /\ Stays /\ j.pc \in {"read", "load", "managed"} /\ Running(p)
    <3>1. job[p] \in Jobs
      BY <1>t
    <3>2. QED
      BY <1>2, <3>1 DEF Look, Ask, RegistryState, Running, Jobs
  <2>2. QED
    BY <1>q, <2>1
<1>3. ASSUME NEW p \in Process, ReadRegistry(p) PROVE SightInv'
  <2>1. Running(p) /\ job[p] \in Jobs
    BY <1>3, <1>t DEF ReadRegistry, Running
  <2>2. CASE Readable(file) /\ Stays
             /\ Go(p, [job[p] EXCEPT !.pc = "merge", !.first = RegistryOf(file)])
    <3> DEFINE j == [job[p] EXCEPT !.pc = "merge", !.first = RegistryOf(file)]
    <3>1. j.pc = "merge" /\ j.first = RegistryOf(file)
      BY <2>1 DEF Jobs
    <3>2. TargetsOf(j.first) \subseteq seen[p].targets
      BY <1>h, <1>t, <2>1, <2>2, <3>1, RegistryOfTyped
    <3>3. Go(p, j)
      BY <2>2
    <3> HIDE DEF j
    <3>4. QED
      BY <1>g, <2>1, <2>2, <3>1, <3>2, <3>3 DEF Provided
  <2>3. QED
    BY <1>3, <1>x, <2>1, <2>2 DEF ReadRegistry
<1>4. ASSUME NEW p \in Process, Merge(p) PROVE SightInv'
  <2> DEFINE next == IF Registers(job[p]) THEN MergedConfig(job[p], file)
                                          ELSE RemovedConfig(job[p], file)
             j == [job[p] EXCEPT !.pc = "open", !.then = AfterSave(job[p]), !.next = next]
  <2>1. Running(p) /\ job[p] \in Jobs /\ job[p].pc = "merge" /\ job[p].cmd \in Commands
    BY <1>4, <1>t, CommandAssumption DEF Merge, Running, Jobs
  <2>2. Throw(p) \/ (Readable(file) /\ Go(p, j) /\ Stays)
    BY <1>4 DEF Merge
  <2>3. ASSUME Readable(file), Edits(job[p].cmd)
        PROVE  Offers(next, seen[p].safety, seen[p].targets, job[p].cmd)
    <3>1. file.safety \in seen[p].safety /\ TargetsOf(file.workers) \subseteq seen[p].targets
          /\ TargetsOf(job[p].first) \subseteq seen[p].targets
      BY <1>h, <1>t, <2>1, <2>3 DEF Provided
    <3>2. CASE Registers(job[p])
      <4>1. Names(job[p].cmd) /\ job[p].first \in Registrations
        BY <1>t, <2>1, <3>2 DEF Naming, Registers, Jobs
      <4>2. Offers(MergedConfig(job[p], file), {file.safety}, TargetsOf(job[p].first), job[p].cmd)
        BY <1>t, <2>1, <3>2, <4>1, MergedConfigOffers
      <4>3. QED
        BY <3>1, <3>2, <4>2 DEF Offers
    <3>3. CASE ~Registers(job[p])
      <4>1. Offers(RemovedConfig(job[p], file), {file.safety}, TargetsOf(file.workers), job[p].cmd)
        BY <1>t, RemovedConfigOffers
      <4>2. QED
        BY <3>1, <3>3, <4>1 DEF Offers
    <3>4. QED
      BY <3>2, <3>3
  <2> HIDE DEF next
  <2>4. j.pc = "open" /\ j.next = next /\ j.cmd = job[p].cmd
    BY <2>1 DEF Jobs
  <2> HIDE DEF j
  <2>5. QED
    BY <1>g, <1>x, <2>1, <2>2, <2>3, <2>4 DEF Provided
<1>5. ASSUME NEW p \in Process, PersistWorkerConfigEntry(p) PROVE SightInv'
  <2> DEFINE next == EntryConfig(job[p], file)
             j == [job[p] EXCEPT !.pc = "open", !.then = "secret", !.next = next]
  <2>1. /\ Running(p) /\ job[p] \in Jobs /\ job[p].cmd \in Commands
        /\ Names(job[p].cmd) /\ job[p].cmd.kind = "register"
    BY <1>5, <1>t, CommandAssumption DEF PersistWorkerConfigEntry, Running, Jobs, Naming
  <2>2. Throw(p) \/ (Readable(file) /\ Go(p, j) /\ Stays)
    BY <1>5 DEF PersistWorkerConfigEntry
  <2>3. Offers(next, {file.safety}, TargetsOf(file.workers), job[p].cmd)
    BY <1>t, <2>1, EntryConfigOffers
  <2>4. Readable(file) => Offers(next, seen[p].safety, seen[p].targets, job[p].cmd)
    BY <1>h, <2>1, <2>3 DEF Offers
  <2> HIDE DEF next
  <2>5. j.pc = "open" /\ j.next = next /\ j.cmd = job[p].cmd
    BY <2>1 DEF Jobs
  <2> HIDE DEF j
  <2>6. QED
    BY <1>g, <1>x, <2>1, <2>2, <2>4, <2>5 DEF Provided
<1>6. ASSUME NEW p \in Process, Open(p) PROVE SightInv'
  <2> DEFINE j == [job[p] EXCEPT !.pc = "write"]
  <2>1. Running(p) /\ job[p] \in Jobs /\ job[p].pc = "open" /\ Go(p, j) /\ Becomes(Half)
    BY <1>6, <1>t DEF Open, Running
  <2>2. j.pc = "write" /\ j.next = job[p].next /\ j.cmd = job[p].cmd
    BY <2>1 DEF Jobs
  <2> HIDE DEF j
  <2>3. Provided(j, seen[p])
    BY <1>t, <2>1, <2>2 DEF Provided
  <2>4. QED
    BY <1>g, <2>1, <2>3, EmptyTyped
<1>7. ASSUME NEW p \in Process, Write(p) PROVE SightInv'
  <2> DEFINE place == IF Audited(job[p]) THEN "audit" ELSE job[p].then
             j == [job[p] EXCEPT !.pc = place]
  <2>1. Running(p) /\ job[p] \in Jobs /\ job[p].pc = "write" /\ Go(p, j)
    BY <1>7, <1>t DEF Write, Running
  <2>2. \E f \in File : Becomes(f)
    BY <1>7, <2>1, EmptyTyped DEF Write, Jobs, Whole
  <2>3. place \in {"audit", "secret"}
    BY DEF Audited
  <2> HIDE DEF place
  <2>4. j.pc = place
    BY <2>1 DEF Jobs
  <2> HIDE DEF j
  <2>5. QED
    BY <1>g, <2>1, <2>2, <2>3, <2>4 DEF Provided
<1>15. ASSUME NEW p \in Process, WriteAuditEvent(p) \/ SaveWorkerSecret(p) PROVE SightInv'
  <2>1. /\ Running(p) /\ job[p] \in Jobs /\ Stays /\ Naming(job[p])
        /\ job[p].pc \in {"audit", "secret"}
    BY <1>15, <1>t DEF WriteAuditEvent, SaveWorkerSecret, Throw, Running
  <2> DEFINE said == IF job[p].then = "secret" THEN "completed" ELSE job[p].registered
             a == [job[p] EXCEPT !.pc = job[p].then, !.registered = said]
             b == [job[p] EXCEPT !.pc = "interview"]
  <2>2. \/ Throw(p) \/ End(p, job[p], "ended") \/ Go(p, b)
        \/ job[p].pc = "audit" /\ Go(p, a)
    BY <1>15, <2>1 DEF WriteAuditEvent, SaveWorkerSecret, Jobs
  <2> HIDE DEF said
  <2>3. a.pc = job[p].then /\ b.pc = "interview"
    BY <2>1 DEF Jobs
  <2> HIDE DEF a, b
  <2>4. job[p].pc = "audit" => job[p].then \in {"idle", "plan", "entry", "secret"}
    BY <2>1 DEF Naming, Leads
  <2>5. QED
    BY <1>e, <1>q, <1>x, <2>1, <2>2, <2>3, <2>4
<1>8. ASSUME NEW p \in Process, Load(p) \/ WriteManagedJson(p) \/ RegisterPlan(p)
      PROVE  SightInv'
  <2>1. Running(p) /\ job[p] \in Jobs /\ Stays /\ job[p].cmd \in Commands
    BY <1>8, <1>t, CommandAssumption DEF Load, WriteManagedJson, RegisterPlan, Running, Jobs
  <2>2. CASE Load(p)
    <3> DEFINE j == [job[p] EXCEPT !.pc = "registry",
                       !.next = BuildDesiredConfig(LoadCwConfig(file), job[p].cmd)]
    <3>1. Go(p, j) /\ j.pc = "registry"
      BY <2>1, <2>2 DEF Load, Jobs
    <3> HIDE DEF j
    <3>2. QED
      BY <1>q, <2>1, <3>1
  <2>3. CASE WriteManagedJson(p)
    <3> DEFINE j == [job[p] EXCEPT !.then = "plan",
                       !.pc = IF ~HasPlan(job[p].cmd) /\ file = job[p].next THEN "audit" ELSE "open"]
    <3>1. Go(p, j)
      BY <2>1, <2>3 DEF WriteManagedJson, Jobs
    <3>2. j.cmd = job[p].cmd
      BY <2>1 DEF Jobs
    <3>3. ~Edits(job[p].cmd)
      BY <1>t, <2>3 DEF WriteManagedJson, Naming
    <3> HIDE DEF j
    <3>4. QED
      BY <1>q, <2>1, <3>1, <3>2, <3>3
  <2>4. CASE RegisterPlan(p)
    <3> DEFINE known == ~job[p].invalid /\ job[p].cmd.id \in DOMAIN file.workers
               available == known \/ job[p].cmd.register
               said == IF job[p].cmd.register THEN "unavailable"
                       ELSE IF known THEN "completed" ELSE "skipped"
               next == [job[p] EXCEPT !.available = available]
               read == [next EXCEPT !.pc = "read"]
               secret == [next EXCEPT !.pc = "secret", !.registered = said]
    <3>1. End(p, job[p], "ended") \/ Go(p, read) \/ Go(p, secret)
      BY <2>1, <2>4 DEF RegisterPlan
    <3> HIDE DEF available, said
    <3>2. read.pc = "read" /\ secret.pc = "secret"
      BY <2>1 DEF Jobs
    <3> HIDE DEF read, secret
    <3>3. QED
      BY <1>e, <1>q, <2>1, <3>1, <3>2
  <2>5. QED
    BY <1>8, <2>2, <2>3, <2>4
<1>9. ASSUME NEW p \in Process, InterviewPlan(p) \/ SaveInterview(p) PROVE SightInv'
  <2>1. Running(p) /\ job[p] \in Jobs /\ Stays
    BY <1>9, <1>t DEF InterviewPlan, SaveInterview, Throw, Running
  <2> DEFINE target == file.workers[job[p].cmd.id].target
             next == Interviewed(profiles[job[p].cmd.id], job[p].mine.target)
             why == IF job[p].cmd.interview THEN "unavailable" ELSE "skipped"
             a == [job[p] EXCEPT !.pc = "benchmark", !.interviewed = why]
             b == [job[p] EXCEPT !.pc = "save", !.mine.target = target]
             c == [job[p] EXCEPT !.pc = "benchmark", !.interviewed = "unavailable"]
             d == [job[p] EXCEPT !.pc = "benchmark", !.interviewed = "completed", !.mine = next]
  <2>2. End(p, Idle, "threw") \/ Go(p, a) \/ Go(p, b) \/ Go(p, c) \/ Go(p, d)
    BY <1>9 DEF InterviewPlan, SaveInterview, Throw
  <2> HIDE DEF target, next, why
  <2>3. {a.pc, b.pc, c.pc, d.pc} \subseteq {"save", "benchmark"}
    BY <2>1 DEF Jobs
  <2> HIDE DEF a, b, c, d
  <2>4. QED
    BY <1>e, <1>q, <2>1, <2>2, <2>3
<1>10. ASSUME NEW p \in Process, BenchmarkPlan(p) PROVE SightInv'
  <2>1. Running(p) /\ Stays
    BY <1>10 DEF BenchmarkPlan, Throw, Running
  <2>2. \E j, outcome : End(p, j, outcome)
    BY <1>10 DEF BenchmarkPlan, Throw
  <2>3. QED
    BY <1>e, <2>1, <2>2
<1>11. ASSUME NEW p \in Process, Die(p) PROVE SightInv'
  BY <1>e, <1>11 DEF Die
<1>12. ASSUME NEW f \in Edited, Edit(f) PROVE SightInv'
  <2>1. f \in File
    BY <1>12, RegistryTypedNext DEF Next, Typed, TypeOK, Edit, Becomes
  <2> SUFFICES ASSUME NEW q \in Process PROVE SeesFile(q)' /\ Provided(job'[q], seen'[q])
    BY DEF SightInv
  <2>2. job' = job /\ Becomes(f)
    BY <1>12 DEF Edit
  <2>3. Provided(job'[q], seen'[q])
    BY <1>m, <1>o, <1>t, <2>1, <2>2
  <2>4. SeesFile(q)'
    BY <1>m, <2>1, <2>2 DEF SeesFile, Running
  <2>5. QED
    BY <2>3, <2>4
<1>13. CASE UNCHANGED vars
  BY <1>t, <1>13 DEF vars, SightInv, SeesFile, Running
<1>14. QED
  BY <1>1, <1>2, <1>3, <1>4, <1>5, <1>6, <1>7, <1>8, <1>9, <1>10, <1>11, <1>12, <1>13, <1>15
  DEF Next, Step

\* A step that ends a write of a process is the write itself, or its death.
LEMMA WhoWrites ==
  ASSUME Typed, [Next]_vars, NEW p \in Process, Writes(p)
  PROVE  Write(p) \/ (Die(p) /\ Stays)
<1>t. job \in [Process -> Jobs]
  BY DEF Typed
<1>1. job'[p] # job[p] /\ job[p].pc = "write"
  BY DEF Writes
<1>2. ASSUME NEW f \in Edited, Edit(f) PROVE FALSE
  BY <1>1, <1>2 DEF Edit
<1>3. ASSUME NEW q \in Process, Step(q), q # p PROVE FALSE
  <2>1. ASSUME NEW j, Go(q, j) PROVE FALSE
    BY <1>1, <1>3, <1>t, <2>1 DEF Go
  <2>2. ASSUME NEW j, NEW outcome, End(q, j, outcome) PROVE FALSE
    BY <2>1, <2>2 DEF End
  <2>3. ASSUME NEW c \in Command, Begin(q, c) PROVE FALSE
    BY <1>1, <1>3, <1>t, <2>3 DEF Begin
  <2>4. (\E c \in Command : Begin(q, c)) \/ (\E j : Go(q, j)) \/ (\E j, outcome : End(q, j, outcome))
    BY <1>3
    DEF Step, Look, Ask, ReadRegistry, Merge, PersistWorkerConfigEntry, Open, Write, Load,
        RegistryState, WriteManagedJson, RegisterPlan, InterviewPlan, SaveInterview, BenchmarkPlan,
        WriteAuditEvent, SaveWorkerSecret, Die, Throw
  <2>5. QED
    BY <2>1, <2>2, <2>3, <2>4
<1>4. PICK q \in Process : Step(q)
  BY <1>1, <1>2 DEF Next, vars
<1>5. Step(p)
  BY <1>3, <1>4
<1>6. QED
  BY <1>1, <1>5
  DEF Step, Begin, Look, Ask, ReadRegistry, Merge, PersistWorkerConfigEntry, Open, Load,
      RegistryState, WriteManagedJson, RegisterPlan, InterviewPlan, SaveInterview, BenchmarkPlan,
      WriteAuditEvent, SaveWorkerSecret, Die, Running

\* Whatever commands overlap and die, and whatever the operator edits, a
\* registration or a removal writes only what it saw, and what it asks for.
THEOREM CommandsWriteWhatTheySaw == Spec => WritesWhatItSaw
<1>1. ASSUME Typed, SightInv, [Next]_vars, NEW p \in Process, Writes(p), Edits(job[p].cmd)
      PROVE  /\ file'.safety \in seen[p].safety
             /\ Held(file').targets \subseteq
                  seen[p].targets \cup (IF job[p].cmd.kind = "register"
                                        THEN {<<job[p].cmd.id, job[p].cmd.target, job[p].cmd.base>>}
                                        ELSE {})
  <2>t. /\ file \in File /\ job[p] \in Jobs /\ SeesFile(p) /\ Provided(job[p], seen[p])
        /\ job[p].pc = "write" /\ file'.kind = "whole"
    BY <1>1 DEF Typed, TypeOK, SightInv, Writes
  <2>1. CASE Write(p)
    <3>a. Half.kind = "half"
      BY DEF Half, DefaultConfig
    <3>b. Becomes(job[p].next) \/ Becomes(Half)
      BY <2>1 DEF Write
    <3>1. file' = job[p].next
      BY <2>t, <3>a, <3>b DEF Becomes
    <3>2. Offers(file', seen[p].safety, seen[p].targets, job[p].cmd)
      BY <1>1, <2>t, <3>1 DEF Provided
    <3>3. Held(file').targets = TargetsOf(file'.workers)
      BY <2>t, <3>2, HeldReadable DEF Offers, Whole
    <3>4. QED
      BY <1>1, <3>2, <3>3 DEF Offers, Edits
  <2>2. CASE Die(p) /\ Stays
    <3>1. file' = file /\ Running(p)
      BY <2>2 DEF Die, Stays
    <3>2. Held(file).safety = {file.safety}
      BY <2>t, <3>1, HeldReadable
    <3>3. QED
      BY <2>t, <3>1, <3>2 DEF SeesFile
  <2>3. QED
    BY <1>1, <2>1, <2>2, WhoWrites
<1>2. Spec => [](Typed /\ SightInv)
  BY SightInit, SightNext, RegistryAlwaysTyped, PTL DEF Spec
<1>3. Typed /\ SightInv /\ [Next]_vars =>
        [\A p \in Process :
           LET c == job[p].cmd IN
           Writes(p) /\ Edits(c) =>
             /\ file'.safety \in seen[p].safety
             /\ Held(file').targets \subseteq
                  seen[p].targets \cup (IF c.kind = "register" THEN {<<c.id, c.target, c.base>>} ELSE {})
        ]_vars
  BY <1>1
<1>4. QED
  BY <1>2, <1>3, PTL DEF Spec, WritesWhatItSaw
-----------------------------------------------------------------------------
(* A command that nobody disturbs.  Alone, it finds the file as it left    *)
(* it; what it is about to write, or has written, keeps the other workers. *)

\* With a command c that found the file b: the safety settings it is to
\* leave, a file f that keeps the other workers, and what a register makes
\* of the worker it names.
Due(c, b) == IF Edits(c) \/ c.safety = "keep" THEN b.safety ELSE c.safety

Keeps(c, b, f) == Without(f.workers, c.id) = Without(b.workers, c.id) /\ f.safety = Due(c, b)

Rebinds(c, b, f) ==
  /\ c.id \in DOMAIN f.workers
  /\ f.workers[c.id].target = c.target /\ f.workers[c.id].base = c.base
  /\ IdAvailable(b.workers, c.id, c.target, c.base)
  /\ "disabled" \in Entry(b.workers, c.id) => "disabled" \in Entry(f.workers, c.id)

\* How far the job j has come that found the file b, now that the file is f.
Story(j, b, f) == LET c == j.cmd IN
  /\ j.pc \in {"ask", "look", "load", "registry", "managed"}
       \/ (j.pc \in {"read", "merge"} /\ Edits(c)) => f = b
  /\ b.kind = "half" /\ Edits(c) => j.pc \in {"look", "read"}
  /\ j.pc = "merge" => f.kind # "half" /\ j.first = RegistryOf(f)
  /\ j.pc = "write" => f.kind = "half"
  /\ b.kind # "half" =>
       /\ j.pc \in {"registry", "managed", "open", "write"} => Keeps(c, b, j.next)
       /\ j.pc \in {"plan", "read", "merge", "audit", "entry", "secret", "interview", "save",
                    "benchmark"} => Keeps(c, b, f)
  /\ c.kind = "register" =>
       /\ j.pc \in {"read", "merge"} => j.disabled = ("disabled" \in Entry(b.workers, c.id))
       /\ j.pc = "merge" => IdAvailable(b.workers, c.id, c.target, c.base)
       /\ j.pc \in {"open", "write"} => Rebinds(c, b, j.next)
       /\ j.pc \in {"audit", "entry", "secret"} => Rebinds(c, b, f)
  /\ c.kind = "unregister" =>
       /\ j.pc \in {"open", "write"} => c.id \notin DOMAIN j.next.workers
       /\ j.pc = "audit" => c.id \notin DOMAIN f.workers

Undisturbed(p) ==
  alone[p] /\ Running(p) =>
    /\ \A q \in Process : q # p => ~Running(q)
    /\ Story(job[p], before[p], file)

\* A file that is not there holds the defaults.
Canonical(f) == f.kind = "absent" => f = Absent

AloneInv ==
  /\ Canonical(file) /\ \A p \in Process : Canonical(before[p])
  /\ \A p \in Process : Undisturbed(p)

LEMMA WithKeepsOthers ==
  ASSUME NEW regs \in Registrations, NEW i, NEW r
  PROVE  /\ Without(With(regs, i, r), i) = Without(regs, i)
         /\ i \in DOMAIN With(regs, i, r) /\ With(regs, i, r)[i] = r
<1> DEFINE new == With(regs, i, r)
<1>1. /\ DOMAIN new = DOMAIN regs \cup {i} /\ new[i] = r
      /\ \A k \in DOMAIN regs \ {i} : new[k] = regs[k]
  BY DEF With
<1> HIDE DEF new
<1>2. Without(new, i) = Without(regs, i)
  BY <1>1 DEF Without, Restrict
<1>3. QED
  BY <1>1, <1>2 DEF new

LEMMA WithoutKeepsOthers ==
  ASSUME NEW regs, NEW i
  PROVE  /\ Without(Without(regs, i), i) = Without(regs, i)
         /\ i \notin DOMAIN Without(regs, i)
<1> DEFINE new == Without(regs, i)
<1>1. /\ DOMAIN new = DOMAIN regs \ {i}
      /\ \A k \in DOMAIN regs \ {i} : new[k] = regs[k]
  BY DEF Without, Restrict
<1> HIDE DEF new
<1>2. Without(new, i) = [k \in DOMAIN regs \ {i} |-> regs[k]]
  BY <1>1 DEF Without, Restrict
<1>3. Without(new, i) = Without(regs, i)
  BY <1>2 DEF Without, Restrict
<1>4. QED
  BY <1>1, <1>3 DEF new

\* Registrations merged into the configuration they were read from: what the
\* read dropped of the tuning of the others, the configuration gives back.
LEMMA MergedKeepsOthers ==
  ASSUME NEW j, j.cmd \in Commands, Names(j.cmd), NEW config \in File, j.first = RegistryOf(config)
  PROVE  LET next == MergedConfig(j, config) IN
         /\ Without(next.workers, j.cmd.id) = Without(config.workers, j.cmd.id)
         /\ next.safety = config.safety
         /\ j.cmd.id \in DOMAIN next.workers
         /\ next.workers[j.cmd.id].target = j.cmd.target
         /\ next.workers[j.cmd.id].base = j.cmd.base
         /\ j.cmd.kind = "register" /\ j.disabled =>
              "disabled" \in next.workers[j.cmd.id].extras
<1> DEFINE i == j.cmd.id
           was == config.workers
           regs == With(j.first, i, Requested(j))
           tuned == [k \in DOMAIN regs |->
                       [regs[k] EXCEPT !.extras = @ \cup (Entry(config.workers, k) \cap Tuning)]]
<1>1. /\ was \in Registrations /\ was \in [DOMAIN was -> Registration]
      /\ Requested(j) \in Registration
      /\ Requested(j).target = j.cmd.target /\ Requested(j).base = j.cmd.base
      /\ j.cmd.kind = "register" /\ j.disabled => "disabled" \in Requested(j).extras
  BY RequestedTyped, RegistrationsDef DEF File, Requested
<1>2. MergedConfig(j, config) = [config EXCEPT !.kind = "whole", !.workers = tuned]
  BY DEF MergedConfig
<1>3. /\ j.first \in Registrations /\ DOMAIN j.first = DOMAIN was
      /\ \A k \in DOMAIN was : /\ j.first[k].target = was[k].target
                               /\ j.first[k].base = was[k].base
                               /\ j.first[k].extras = was[k].extras \ Tuning
  BY RegistryOfTyped
<1>4. /\ regs \in Registrations /\ DOMAIN regs = DOMAIN was \cup {i}
      /\ regs[i] = Requested(j)
      /\ \A k \in DOMAIN was \ {i} : regs[k] = j.first[k]
  <2>1. regs \in Registrations
    BY <1>1, <1>3, WithTyped DEF Names
  <2>2. QED
    BY <1>3, <2>1 DEF With
<1> HIDE DEF regs
<1>5. regs \in [DOMAIN regs -> Registration]
  BY <1>4, RegistrationsDef
<1>6. ASSUME NEW k \in DOMAIN was \ {i} PROVE tuned[k] = was[k]
  <2>1. /\ k \in DOMAIN regs /\ regs[k] \in Registration /\ was[k] \in Registration
        /\ regs[k].target = was[k].target /\ regs[k].base = was[k].base
        /\ regs[k].extras = was[k].extras \ Tuning /\ Entry(was, k) = was[k].extras
    BY <1>1, <1>3, <1>4, <1>5, <1>6 DEF Entry
  <2>2. regs[k].extras \cup (Entry(was, k) \cap Tuning) = was[k].extras
    BY <2>1
  <2>3. tuned[k] = [regs[k] EXCEPT !.extras = was[k].extras]
    BY <2>1, <2>2
  <2>4. QED
    BY <2>1, <2>3 DEF Registration
<1>7. /\ DOMAIN tuned = DOMAIN regs /\ regs[i].extras \subseteq tuned[i].extras
      /\ tuned[i].target = regs[i].target /\ tuned[i].base = regs[i].base
  BY <1>4, <1>5 DEF Registration
<1> HIDE DEF tuned
<1>8. Without(tuned, i) = Without(was, i)
  BY <1>4, <1>6, <1>7 DEF Without, Restrict
<1>9. QED
  BY <1>1, <1>2, <1>4, <1>7, <1>8 DEF File

LEMMA AloneInit == Init => AloneInv
<1> SUFFICES ASSUME Init PROVE AloneInv
  OBVIOUS
<1>1. Canonical(file) /\ \A p \in Process : Canonical(before[p])
  BY InitiallyAssumption DEF Init, Canonical
<1>2. ASSUME NEW p \in Process PROVE Undisturbed(p)
  BY DEF Init, Undisturbed, Running, Idle
<1>3. QED
  BY <1>1, <1>2 DEF AloneInv

LEMMA AloneNext == Typed /\ AloneInv /\ [Next]_vars => AloneInv'
<1> SUFFICES ASSUME Typed, AloneInv, [Next]_vars PROVE AloneInv'
  OBVIOUS
<1>t. /\ file \in File /\ job \in [Process -> Jobs] /\ alone \in [Process -> BOOLEAN]
      /\ before \in [Process -> File] /\ Canonical(file)
      /\ \A p \in Process : /\ job[p] \in Jobs /\ Naming(job[p]) /\ Undisturbed(p)
                            /\ Canonical(before[p]) /\ before[p] \in File
                            /\ job[p].cmd \in Commands
  BY CommandAssumption DEF Typed, TypeOK, AloneInv, Jobs
<1>w. \A f \in Whole : Canonical(f)
  BY DEF Whole, Canonical
<1>h. Canonical(Half) /\ Half.kind = "half"
  BY DEF Canonical, Half, DefaultConfig
<1>s. ASSUME NEW p \in Process, alone[p], Running(p) PROVE Story(job[p], before[p], file)
  BY <1>s, <1>t DEF Undisturbed
\* A step of p: only p can be alone.
<1>g. ASSUME NEW p \in Process, NEW j, Running(p), Go(p, j), Canonical(file'),
             alone[p] /\ j.pc # "idle" => Story(j, before[p], file')
      PROVE  AloneInv'
  <2>1. job' = [job EXCEPT ![p] = j] /\ alone' = alone /\ before' = before
    BY <1>g DEF Go
  <2> SUFFICES ASSUME NEW q \in Process PROVE Undisturbed(q)'
    BY <1>g, <1>t, <2>1 DEF AloneInv
  <2>2. CASE q # p
    <3>1. ~(alone[q] /\ Running(q))
      BY <1>g, <1>t, <2>2 DEF Undisturbed
    <3>2. job'[q] = job[q] /\ alone'[q] = alone[q]
      BY <1>t, <2>1, <2>2
    <3>3. ~(alone'[q] /\ Running(q)')
      BY <3>1, <3>2 DEF Running
    <3>4. QED
      BY <3>3 DEF Undisturbed
  <2>3. CASE q = p
    <3>1. job'[p] = j /\ alone'[p] = alone[p] /\ before'[p] = before[p]
      BY <1>t, <2>1
    <3> SUFFICES ASSUME alone[p], j.pc # "idle" PROVE Undisturbed(p)'
      BY <2>3, <3>1 DEF Undisturbed, Running
    <3>2. ASSUME NEW o \in Process, o # p PROVE ~Running(o)'
      BY <1>g, <1>t, <2>1, <3>2 DEF Undisturbed, Running
    <3>3. Story(job'[p], before'[p], file')
      BY <1>g, <3>1
    <3>4. QED
      BY <3>2, <3>3 DEF Undisturbed
  <2>4. QED
    BY <2>2, <2>3
<1>q. ASSUME NEW p \in Process, NEW j, Running(p), Go(p, j), Stays,
             alone[p] /\ j.pc # "idle" => Story(j, before[p], file)
      PROVE  AloneInv'
  BY <1>g, <1>q, <1>t DEF Stays
<1>e. ASSUME NEW p \in Process, NEW j, NEW outcome, Running(p), End(p, j, outcome), Canonical(file')
      PROVE  AloneInv'
  <2> DEFINE over == [Idle EXCEPT !.outcome = outcome, !.registered = j.registered,
                        !.interviewed = j.interviewed, !.benchmarked = j.benchmarked]
  <2>1. over.pc = "idle"
    BY DEF Idle
  <2>2. Go(p, over)
    BY <1>e DEF End
  <2> HIDE DEF over
  <2>3. QED
    BY <1>e, <1>g, <2>1, <2>2
<1>x. ASSUME NEW p \in Process, Running(p), Throw(p) PROVE AloneInv'
  BY <1>e, <1>t, <1>x DEF Throw, Stays
<1>1. ASSUME NEW p \in Process, NEW c \in Command, Begin(p, c) PROVE AloneInv'
  <2> DEFINE j == [Idle EXCEPT !.pc = FirstPlace(c), !.cmd = c]
  <2>1. /\ file' = file /\ before' = [before EXCEPT ![p] = file]
        /\ job' = [job EXCEPT ![p] = j]
        /\ alone' = [q \in Process |-> IF q = p THEN \A o \in Process : ~Running(o)
                                                ELSE alone[q] /\ ~Running(q)]
    BY <1>1 DEF Begin
  <2>2. j.pc = FirstPlace(c) /\ j.cmd = c
    BY DEF Idle
  <2> HIDE DEF j
  <2> SUFFICES ASSUME NEW q \in Process PROVE Undisturbed(q)'
    BY <1>t, <2>1 DEF AloneInv
  <2>3. CASE q # p
    BY <1>t, <2>1, <2>3 DEF Undisturbed, Running
  <2>4. CASE q = p
    <3>1. job'[p] = j /\ before'[p] = file
      BY <1>t, <2>1
    <3> SUFFICES ASSUME alone'[p] PROVE Undisturbed(p)'
      BY <2>4 DEF Undisturbed
    <3>2. \A o \in Process : o # p => ~Running(o)'
      BY <1>t, <2>1 DEF Running
    <3>3. /\ FirstPlace(c) \in {"ask", "look", "load", "read"}
          /\ FirstPlace(c) = "read" => c.kind = "unregister"
          /\ FirstPlace(c) \in {"ask", "load"} => ~Edits(c)
      BY CommandAssumption DEF FirstPlace, Commands, Edits
    <3>4. Story(j, file, file)
      BY <2>2, <3>3 DEF Story, Keeps, Due, Edits
    <3>5. QED
      BY <2>1, <3>1, <3>2, <3>4 DEF Undisturbed
  <2>5. QED
    BY <2>3, <2>4
<1>2. ASSUME NEW p \in Process, Look(p) PROVE AloneInv'
  <2> DEFINE disabled == "disabled" \in Entry(file.workers, job[p].cmd.id)
             j == [job[p] EXCEPT !.pc = "read", !.disabled = disabled]
  <2>1. Running(p) /\ Stays /\ Go(p, j) /\ job[p].pc = "look"
    BY <1>2 DEF Look, Running
  <2>2. j.pc = "read" /\ j.disabled = disabled /\ j.cmd = job[p].cmd
    BY <1>t DEF Jobs
  <2> HIDE DEF j
  <2>3. ASSUME alone[p] PROVE Story(j, before[p], file)
    <3>1. file = before[p]
      BY <1>s, <2>1, <2>3 DEF Story
    <3>2. Edits(j.cmd)
      BY <1>t, <2>1, <2>2 DEF Naming, Edits
    <3>3. Keeps(j.cmd, before[p], file)
      BY <3>1, <3>2 DEF Keeps, Due
    <3>4. QED
      BY <2>2, <3>1, <3>3 DEF Story
  <2>4. QED
    BY <1>q, <2>1, <2>2, <2>3
<1>3. ASSUME NEW p \in Process, Ask(p) PROVE AloneInv'
  <2> DEFINE j == [job[p] EXCEPT !.pc = "load"]
  <2>1. Running(p) /\ Stays /\ Go(p, j) /\ job[p].pc = "ask"
    BY <1>3 DEF Ask, Running
  <2>2. j.pc = "load" /\ j.cmd = job[p].cmd
    BY <1>t DEF Jobs
  <2> HIDE DEF j
  <2>3. ASSUME alone[p] PROVE Story(j, before[p], file)
    BY <1>s, <2>1, <2>2, <2>3 DEF Story
  <2>4. QED
    BY <1>q, <2>1, <2>3
<1>4. ASSUME NEW p \in Process, ReadRegistry(p) PROVE AloneInv'
  <2> DEFINE j == [job[p] EXCEPT !.pc = "merge", !.first = RegistryOf(file)]
  <2>1. Running(p) /\ job[p].pc = "read"
    BY <1>4 DEF ReadRegistry, Running
  <2>2. \/ Throw(p)
        \/ /\ Go(p, j) /\ Stays /\ Readable(file)
           /\ Registers(job[p]) => IdAvailable(RegistryOf(file), job[p].cmd.id, job[p].cmd.target,
                                               job[p].cmd.base)
    BY <1>4 DEF ReadRegistry
  <2>3. /\ j.pc = "merge" /\ j.first = RegistryOf(file) /\ j.cmd = job[p].cmd
        /\ j.disabled = job[p].disabled
    BY <1>t DEF Jobs
  <2> HIDE DEF j
  <2>4. ASSUME alone[p], Readable(file),
               Registers(job[p]) => IdAvailable(RegistryOf(file), job[p].cmd.id, job[p].cmd.target,
                                                job[p].cmd.base)
        PROVE  Story(j, before[p], file)
    <3>1. Story(job[p], before[p], file)
      BY <1>s, <2>1, <2>4
    <3>2. Registers(job[p]) => IdAvailable(file.workers, j.cmd.id, j.cmd.target, j.cmd.base)
      BY <1>t, <2>3, <2>4, RegistryOfTyped DEF IdAvailable
    <3>3. Edits(j.cmd) => file = before[p] /\ before[p].kind # "half"
      BY <2>1, <2>3, <2>4, <3>1 DEF Story, Readable
    <3>4. j.cmd.kind = "register" => IdAvailable(before[p].workers, j.cmd.id, j.cmd.target, j.cmd.base)
      BY <2>3, <3>2, <3>3 DEF Edits, Registers
    <3>5. QED
      BY <2>1, <2>3, <2>4, <3>1, <3>3, <3>4 DEF Story, Readable
  <2>5. QED
    BY <1>q, <1>x, <2>1, <2>2, <2>4
<1>5. ASSUME NEW p \in Process, Merge(p) PROVE AloneInv'
  <2> DEFINE c == job[p].cmd
             next == IF Registers(job[p]) THEN MergedConfig(job[p], file)
                                          ELSE RemovedConfig(job[p], file)
             j == [job[p] EXCEPT !.pc = "open", !.then = AfterSave(job[p]), !.next = next]
  <2>1. Running(p) /\ job[p].pc = "merge"
    BY <1>5 DEF Merge, Running
  <2>2. Throw(p) \/ (Go(p, j) /\ Stays)
    BY <1>5 DEF Merge
  <2>3. ASSUME alone[p]
        PROVE  /\ before[p].kind = "half" => ~Edits(c)
               /\ before[p].kind # "half" => Keeps(c, before[p], next)
               /\ c.kind = "register" => Rebinds(c, before[p], next)
               /\ c.kind = "unregister" => c.id \notin DOMAIN next.workers
    <3>1. Story(job[p], before[p], file)
      BY <1>s, <2>1, <2>3
    <3>2. /\ job[p].first = RegistryOf(file)
          /\ before[p].kind = "half" => ~Edits(c)
          /\ before[p].kind # "half" => Keeps(c, before[p], file)
          /\ c.kind = "register" =>
               /\ file = before[p] /\ IdAvailable(before[p].workers, c.id, c.target, c.base)
               /\ job[p].disabled = ("disabled" \in Entry(before[p].workers, c.id))
      BY <2>1, <3>1 DEF Story, Edits
    <3>3. CASE Registers(job[p])
      <4>1. Names(c)
        BY <1>t, <2>1, <3>3 DEF Naming, Registers
      <4>2. /\ Without(next.workers, c.id) = Without(file.workers, c.id)
            /\ next.safety = file.safety
            /\ c.id \in DOMAIN next.workers
            /\ next.workers[c.id].target = c.target /\ next.workers[c.id].base = c.base
            /\ c.kind = "register" /\ job[p].disabled =>
                 "disabled" \in next.workers[c.id].extras
        BY <1>t, <3>2, <3>3, <4>1, MergedKeepsOthers
      <4>3. c.kind # "unregister"
        BY <3>3 DEF Registers
      <4> HIDE DEF next
      <4>4. QED
        BY <3>2, <4>2, <4>3 DEF Keeps, Rebinds, Entry
    <3>4. CASE ~Registers(job[p])
      <4>1. /\ next.workers = Without(file.workers, c.id) /\ next.safety = file.safety
            /\ c.kind = "unregister"
        BY <1>t, <3>4 DEF RemovedConfig, Registers, File
      <4> HIDE DEF next
      <4>2. QED
        BY <3>2, <4>1, WithoutKeepsOthers DEF Keeps
    <3>5. QED
      BY <3>3, <3>4
  <2> HIDE DEF next
  <2>4. j.pc = "open" /\ j.next = next /\ j.cmd = c
    BY <1>t DEF Jobs
  <2> HIDE DEF j, c
  <2>5. ASSUME alone[p] PROVE Story(j, before[p], file)
    BY <2>3, <2>4, <2>5 DEF Story
  <2>6. QED
    BY <1>q, <1>x, <2>1, <2>2, <2>5
<1>6. ASSUME NEW p \in Process, PersistWorkerConfigEntry(p) PROVE AloneInv'
  <2> DEFINE c == job[p].cmd
             r == [target |-> c.target, base |-> c.base,
                   extras |-> (Entry(file.workers, c.id) \cap {"tags", "disabled"})
                                \cup (c.extras \cap {"command"})]
             next == EntryConfig(job[p], file)
             j == [job[p] EXCEPT !.pc = "open", !.then = "secret", !.next = next]
  <2>1. Running(p) /\ job[p].pc = "entry"
    BY <1>6 DEF PersistWorkerConfigEntry, Running
  <2>2. Throw(p) \/ (Go(p, j) /\ Stays)
    BY <1>6 DEF PersistWorkerConfigEntry
  <2>3. next.workers = With(file.workers, c.id, r) /\ next.safety = file.safety
        /\ file.workers \in Registrations
    BY <1>t DEF EntryConfig, File
  <2>4. r.target = c.target /\ r.base = c.base
        /\ ("disabled" \in Entry(file.workers, c.id) => "disabled" \in r.extras)
    OBVIOUS
  <2> HIDE DEF next, r
  <2>5. j.pc = "open" /\ j.next = next /\ j.cmd = c
    BY <1>t DEF Jobs
  <2> HIDE DEF j
  <2>6. ASSUME alone[p] PROVE Story(j, before[p], file)
    <3>1. Story(job[p], before[p], file) /\ c.kind = "register"
      BY <1>s, <1>t, <2>1, <2>6 DEF Naming
    <3>2. /\ before[p].kind # "half" /\ Keeps(c, before[p], file)
          /\ Rebinds(c, before[p], file)
      BY <1>t, <2>1, <3>1 DEF Story, Edits, File
    <3>3. /\ Without(next.workers, c.id) = Without(file.workers, c.id)
          /\ c.id \in DOMAIN next.workers /\ next.workers[c.id] = r
      BY <2>3, WithKeepsOthers
    <3> HIDE DEF c
    <3>4. /\ before[p].kind # "half" /\ Keeps(c, before[p], next)
          /\ Rebinds(c, before[p], next)
      BY <2>3, <2>4, <3>2, <3>3 DEF Keeps, Rebinds, Entry
    <3>5. QED
      BY <2>5, <3>1, <3>4 DEF Story
  <2>7. QED
    BY <1>q, <1>x, <2>1, <2>2, <2>6
<1>7. ASSUME NEW p \in Process, Open(p) PROVE AloneInv'
  <2> DEFINE j == [job[p] EXCEPT !.pc = "write"]
  <2>1. Running(p) /\ Go(p, j) /\ job[p].pc = "open" /\ file' = Half
    BY <1>7 DEF Open, Running, Becomes
  <2>2. j.pc = "write" /\ j.cmd = job[p].cmd /\ j.next = job[p].next
    BY <1>t DEF Jobs
  <2> HIDE DEF j
  <2>3. ASSUME alone[p] PROVE Story(j, before[p], file')
    <3>1. Story(job[p], before[p], file)
      BY <1>s, <2>1, <2>3
    <3>2. QED
      BY <1>h, <2>1, <2>2, <3>1 DEF Story
  <2>4. QED
    BY <1>g, <1>h, <2>1, <2>3
<1>8. ASSUME NEW p \in Process, Write(p) PROVE AloneInv'
  <2> DEFINE place == IF Audited(job[p]) THEN "audit" ELSE job[p].then
             j == [job[p] EXCEPT !.pc = place]
  <2>1. Running(p) /\ job[p].pc = "write" /\ job[p].next \in Whole /\ Go(p, j)
    BY <1>8, <1>t DEF Write, Running, Jobs
  <2>2. file' = job[p].next \/ (file.kind # "half" /\ file' = Half)
    BY <1>8 DEF Write, Becomes
  <2>3. Canonical(file')
    BY <1>h, <1>w, <2>1, <2>2
  <2>4. place = "audit" \/ (place = "secret" /\ job[p].cmd.kind = "register")
    BY DEF Audited
  <2> HIDE DEF place
  <2>5. j.pc = place /\ j.cmd = job[p].cmd
    BY <1>t DEF Jobs
  <2> HIDE DEF j
  <2>6. ASSUME alone[p] PROVE Story(j, before[p], file')
    <3>1. Story(job[p], before[p], file)
      BY <1>s, <2>1, <2>6
    <3>2. file' = job[p].next
      BY <2>1, <2>2, <3>1 DEF Story
    <3>3. QED
      BY <2>1, <2>4, <2>5, <3>1, <3>2 DEF Story
  <2>7. QED
    BY <1>g, <2>1, <2>3, <2>6
\* The steps after a write leave the file as it is.
<1>r. ASSUME NEW p \in Process, NEW j, Running(p), Go(p, j), Stays, j.cmd = job[p].cmd,
             \/ job[p].pc = "audit" /\ j.pc \in {"plan", "entry", "secret"}
                /\ (j.pc = "plan" => ~Edits(j.cmd))
             \/ job[p].pc = "secret" /\ j.pc = "interview" /\ ~Edits(j.cmd)
      PROVE  AloneInv'
  <2>1. ASSUME alone[p] PROVE Story(j, before[p], file)
    <3>1. Story(job[p], before[p], file)
      BY <1>r, <1>s, <2>1
    <3>2. QED
      BY <1>r, <3>1 DEF Story, Edits
  <2>2. QED
    BY <1>q, <1>r, <2>1
<1>19. ASSUME NEW p \in Process, WriteAuditEvent(p) \/ SaveWorkerSecret(p) PROVE AloneInv'
  <2> DEFINE said == IF job[p].then = "secret" THEN "completed" ELSE job[p].registered
             a == [job[p] EXCEPT !.pc = job[p].then, !.registered = said]
             b == [job[p] EXCEPT !.pc = "interview"]
  <2>1. Running(p) /\ Stays /\ Naming(job[p]) /\ file' = file
    BY <1>19, <1>t DEF WriteAuditEvent, SaveWorkerSecret, Throw, Running, Stays
  <2>2. \/ \E outcome : End(p, job[p], outcome) \/ End(p, Idle, outcome)
        \/ job[p].pc = "audit" /\ job[p].then # "idle" /\ Go(p, a)
        \/ job[p].pc = "secret" /\ job[p].cmd.kind # "register" /\ Go(p, b)
    BY <1>19, <1>t DEF WriteAuditEvent, SaveWorkerSecret, Throw, Jobs
  <2> HIDE DEF said
  <2>3. a.pc = job[p].then /\ a.cmd = job[p].cmd /\ b.pc = "interview" /\ b.cmd = job[p].cmd
    BY <1>t DEF Jobs
  <2> HIDE DEF a, b
  <2>4. CASE job[p].pc = "audit" /\ job[p].then # "idle" /\ Go(p, a)
    <3>1. a.pc \in {"plan", "entry", "secret"} /\ (a.pc = "plan" => ~Edits(a.cmd))
      BY <2>1, <2>3, <2>4 DEF Naming, Leads
    <3>2. QED
      BY <1>r, <2>1, <2>3, <2>4, <3>1
  <2>5. CASE job[p].pc = "secret" /\ job[p].cmd.kind # "register" /\ Go(p, b)
    <3>1. ~Edits(b.cmd)
      BY <2>1, <2>3, <2>5 DEF Naming, Edits
    <3>2. QED
      BY <1>r, <2>1, <2>3, <2>5, <3>1
  <2>6. QED
    BY <1>e, <1>t, <2>1, <2>2, <2>4, <2>5
<1>9. ASSUME NEW p \in Process, Load(p) PROVE AloneInv'
  <2> DEFINE c == job[p].cmd
             next == BuildDesiredConfig(LoadCwConfig(file), c)
             j == [job[p] EXCEPT !.pc = "registry", !.next = next]
  <2>1. Running(p) /\ Stays /\ Go(p, j) /\ job[p].pc = "load" /\ ~Edits(c)
    BY <1>9, <1>t DEF Load, Running, Naming
  <2>2. ASSUME file.kind # "half"
        PROVE  Without(next.workers, c.id) = Without(file.workers, c.id)
               /\ next.safety = IF c.safety = "keep" THEN file.safety ELSE c.safety
    <3> DEFINE config == LoadCwConfig(file)
               r == [target |-> c.target,
                     base |-> IF c.base = NoBase THEN BaseOf(config.workers, c.id) ELSE c.base,
                     extras |-> Entry(config.workers, c.id) \cup (c.extras \cap {"command"})]
    <3>1. config.workers = file.workers /\ config.safety = file.safety /\ config \in File
      <4>1. CASE file.kind = "whole"
        BY <1>t, <4>1 DEF LoadCwConfig
      <4>2. CASE file.kind = "absent"
        BY <1>t, <4>2, EmptyTyped DEF LoadCwConfig, Canonical, Absent, DefaultConfig, Whole
      <4>3. QED
        BY <1>t, <2>2, <4>1, <4>2 DEF File
    <3>2. next.workers = MergeWorkerConfigs(config.workers, c)
          /\ next.safety = IF c.safety = "keep" THEN config.safety ELSE c.safety
      BY <3>1 DEF BuildDesiredConfig, File
    <3>3. MergeWorkerConfigs(config.workers, c) \in {config.workers, With(config.workers, c.id, r)}
      BY DEF MergeWorkerConfigs
    <3>4. config.workers \in Registrations
      BY <3>1 DEF File
    <3> HIDE DEF r, next, config, c
    <3>5. Without(With(config.workers, c.id, r), c.id) = Without(config.workers, c.id)
      BY <3>4, WithKeepsOthers
    <3>6. QED
      BY <3>1, <3>2, <3>3, <3>5
  <2>3. j.pc = "registry" /\ j.next = next /\ j.cmd = c
    BY <1>t DEF Jobs
  <2> HIDE DEF next, j
  <2>4. ASSUME alone[p] PROVE Story(j, before[p], file)
    <3>1. file = before[p]
      BY <1>s, <2>1, <2>4 DEF Story
    <3>2. before[p].kind # "half" => Keeps(c, before[p], next)
      BY <2>1, <2>2, <3>1 DEF Keeps, Due
    <3>3. c.kind \notin {"register", "unregister"}
      BY <2>1 DEF Edits
    <3>4. QED
      BY <2>1, <2>3, <3>1, <3>2, <3>3 DEF Story
  <2>5. QED
    BY <1>q, <2>1, <2>4
<1>10. ASSUME NEW p \in Process, RegistryState(p) PROVE AloneInv'
  <2> DEFINE invalid == ~Readable(file)
             j == [job[p] EXCEPT !.pc = "managed", !.invalid = invalid]
  <2>1. Running(p) /\ Stays /\ Go(p, j) /\ job[p].pc = "registry"
    BY <1>10 DEF RegistryState, Running
  <2> HIDE DEF invalid
  <2>2. j.pc = "managed" /\ j.next = job[p].next /\ j.cmd = job[p].cmd
    BY <1>t DEF Jobs
  <2> HIDE DEF j
  <2>3. ASSUME alone[p] PROVE Story(j, before[p], file)
    BY <1>s, <2>1, <2>2, <2>3 DEF Story
  <2>4. QED
    BY <1>q, <2>1, <2>3
<1>11. ASSUME NEW p \in Process, WriteManagedJson(p) PROVE AloneInv'
  <2> DEFINE place == IF ~HasPlan(job[p].cmd) /\ file = job[p].next THEN "audit" ELSE "open"
             j == [job[p] EXCEPT !.pc = place, !.then = "plan"]
  <2>1. Running(p) /\ Stays /\ Go(p, j) /\ job[p].pc = "managed" /\ ~Edits(job[p].cmd)
    BY <1>11, <1>t DEF WriteManagedJson, Running, Naming
  <2>2. place \in {"audit", "open"} /\ (place = "audit" => file = job[p].next)
    OBVIOUS
  <2> HIDE DEF place
  <2>3. j.pc = place /\ j.next = job[p].next /\ j.cmd = job[p].cmd
    BY <1>t DEF Jobs
  <2> HIDE DEF j
  <2>4. ASSUME alone[p] PROVE Story(j, before[p], file)
    <3>1. Story(job[p], before[p], file) /\ job[p].cmd.kind \notin {"register", "unregister"}
      BY <1>s, <2>1, <2>4 DEF Edits
    <3>2. QED
      BY <2>1, <2>2, <2>3, <3>1 DEF Story, Edits
  <2>5. QED
    BY <1>q, <2>1, <2>4
\* The steps of setup after it has written the configuration.
<1>p. ASSUME NEW p \in Process, NEW j, Running(p), Go(p, j), Stays, j.cmd = job[p].cmd,
             job[p].pc \in {"plan", "interview", "save", "benchmark"},
             j.pc \in {"read", "secret", "interview", "save", "benchmark"}, ~Edits(job[p].cmd)
      PROVE  AloneInv'
  <2>1. ASSUME alone[p] PROVE Story(j, before[p], file)
    <3>1. Story(job[p], before[p], file)
      BY <1>p, <1>s, <2>1
    <3>2. QED
      BY <1>p, <3>1 DEF Story, Edits
  <2>2. QED
    BY <1>p, <1>q, <2>1
<1>12. ASSUME NEW p \in Process, RegisterPlan(p) PROVE AloneInv'
  <2> DEFINE known == ~job[p].invalid /\ job[p].cmd.id \in DOMAIN file.workers
             available == known \/ job[p].cmd.register
             said == IF job[p].cmd.register THEN "unavailable"
                     ELSE IF known THEN "completed" ELSE "skipped"
             next == [job[p] EXCEPT !.available = available]
             read == [next EXCEPT !.pc = "read"]
             secret == [next EXCEPT !.pc = "secret", !.registered = said]
  <2>1. Running(p) /\ Stays /\ job[p].pc = "plan" /\ ~Edits(job[p].cmd) /\ file' = file
    BY <1>12, <1>t DEF RegisterPlan, Running, Naming, Stays
  <2>2. End(p, job[p], "ended") \/ Go(p, read) \/ Go(p, secret)
    BY <1>12 DEF RegisterPlan
  <2> HIDE DEF available, said
  <2>3. /\ read.pc = "read" /\ read.cmd = job[p].cmd
        /\ secret.pc = "secret" /\ secret.cmd = job[p].cmd
    BY <1>t DEF Jobs
  <2> HIDE DEF read, secret
  <2>4. QED
    BY <1>e, <1>p, <1>t, <2>1, <2>2, <2>3
<1>13. ASSUME NEW p \in Process, InterviewPlan(p) \/ SaveInterview(p) PROVE AloneInv'
  <2> DEFINE target == file.workers[job[p].cmd.id].target
             next == Interviewed(profiles[job[p].cmd.id], job[p].mine.target)
             why == IF job[p].cmd.interview THEN "unavailable" ELSE "skipped"
             a == [job[p] EXCEPT !.pc = "benchmark", !.interviewed = why]
             b == [job[p] EXCEPT !.pc = "save", !.mine.target = target]
             c == [job[p] EXCEPT !.pc = "benchmark", !.interviewed = "unavailable"]
             d == [job[p] EXCEPT !.pc = "benchmark", !.interviewed = "completed", !.mine = next]
  <2>1. Running(p) /\ Stays /\ job[p].pc \in {"interview", "save"} /\ ~Edits(job[p].cmd) /\ file' = file
    BY <1>13, <1>t DEF InterviewPlan, SaveInterview, Throw, Running, Naming, Stays
  <2>2. End(p, Idle, "threw") \/ Go(p, a) \/ Go(p, b) \/ Go(p, c) \/ Go(p, d)
    BY <1>13 DEF InterviewPlan, SaveInterview, Throw
  <2> HIDE DEF target, next, why
  <2>3. /\ {a.pc, b.pc, c.pc, d.pc} \subseteq {"save", "benchmark"}
        /\ a.cmd = job[p].cmd /\ b.cmd = job[p].cmd /\ c.cmd = job[p].cmd /\ d.cmd = job[p].cmd
    BY <1>t DEF Jobs
  <2> HIDE DEF a, b, c, d
  <2>4. QED
    BY <1>e, <1>p, <1>t, <2>1, <2>2, <2>3
<1>14. ASSUME NEW p \in Process, BenchmarkPlan(p) PROVE AloneInv'
  <2>1. Running(p) /\ Stays
    BY <1>14 DEF BenchmarkPlan, Throw, Running
  <2>2. \E j, outcome : End(p, j, outcome)
    BY <1>14 DEF BenchmarkPlan, Throw
  <2>3. QED
    BY <1>e, <1>t, <2>1, <2>2 DEF Stays
<1>15. ASSUME NEW p \in Process, Die(p) PROVE AloneInv'
  BY <1>e, <1>15, <1>t DEF Die, Stays
<1>16. ASSUME NEW f \in Edited, Edit(f) PROVE AloneInv'
  <2>1. Canonical(f)
    <3>1. LoadCwConfig(file).kind = "whole" /\ LoadCwConfig(file) \in File
      BY <1>t, EmptyTyped DEF LoadCwConfig, Whole
    <3>2. f = Absent \/ f.kind = "whole"
      BY <3>1 DEF Edited, File
    <3>3. QED
      BY <3>2 DEF Canonical
  <2>2. /\ file' = f /\ UNCHANGED <<job, before>>
        /\ alone' = [p \in Process |-> alone[p] /\ ~Running(p)]
    BY <1>16 DEF Edit, Becomes
  <2>3. ASSUME NEW q \in Process PROVE Undisturbed(q)'
    BY <2>2 DEF Undisturbed, Running
  <2>4. QED
    BY <1>t, <2>1, <2>2, <2>3 DEF AloneInv
<1>17. CASE UNCHANGED vars
  BY <1>t, <1>17 DEF vars, AloneInv, Undisturbed, Running
<1>18. QED
  BY <1>1, <1>2, <1>3, <1>4, <1>5, <1>6, <1>7, <1>8, <1>9, <1>10, <1>11, <1>12, <1>13, <1>14, <1>15,
     <1>16, <1>17, <1>19 DEF Next, Step

\* A command ends or throws by a step of its own, which leaves the file alone.
LEMMA WhoLeaves ==
  ASSUME Typed, [Next]_vars, NEW p \in Process, Running(p), ~Running(p)'
  PROVE  /\ job[p]'.outcome = "ended" =>
              /\ Stays
              /\ \/ job[p].pc = "audit" /\ job[p].then = "idle"
                 \/ job[p].pc = "secret" /\ job[p].cmd.kind = "register"
                 \/ job[p].pc = "plan" /\ ~HasPlan(job[p].cmd)
                 \/ job[p].pc = "benchmark" /\ BenchmarkPlan(p)
         /\ job[p]'.outcome = "threw" =>
              /\ Stays
              /\ job[p].pc \in {"read", "merge", "entry", "audit", "secret", "interview",
                               "save", "benchmark"}
<1>t. job \in [Process -> Jobs] /\ \A q \in Process : job[q] \in Jobs
  BY DEF Typed
<1>1. job'[p] # job[p]
  BY DEF Running
<1>2. ASSUME NEW f \in Edited, Edit(f) PROVE FALSE
  BY <1>1, <1>2 DEF Edit
<1>3. ASSUME NEW q \in Process, Step(q), q # p PROVE FALSE
  <2>1. ASSUME NEW j, Go(q, j) PROVE FALSE
    BY <1>1, <1>3, <1>t, <2>1 DEF Go
  <2>2. ASSUME NEW j, NEW outcome, End(q, j, outcome) PROVE FALSE
    BY <2>1, <2>2 DEF End
  <2>3. ASSUME NEW c \in Command, Begin(q, c) PROVE FALSE
    BY <1>1, <1>3, <1>t, <2>3 DEF Begin
  <2>4. (\E c \in Command : Begin(q, c)) \/ (\E j : Go(q, j)) \/ (\E j, outcome : End(q, j, outcome))
    BY <1>3
    DEF Step, Look, Ask, ReadRegistry, Merge, PersistWorkerConfigEntry, Open, Write, Load,
        RegistryState, WriteManagedJson, RegisterPlan, InterviewPlan, SaveInterview, BenchmarkPlan,
        WriteAuditEvent, SaveWorkerSecret, Die, Throw
  <2>5. QED
    BY <2>1, <2>2, <2>3, <2>4
<1>4. Step(p)
  BY <1>1, <1>2, <1>3 DEF Next, vars
<1>5. ASSUME NEW j, NEW outcome, End(p, j, outcome) PROVE job'[p].outcome = outcome
  BY <1>5, <1>t DEF End, Go, Idle
<1>6. ASSUME NEW j, Go(p, j) PROVE j.pc = "idle"
  BY <1>6, <1>t DEF Go, Running
<1>7. CASE Write(p)
  <2> DEFINE place == IF Audited(job[p]) THEN "audit" ELSE job[p].then
  <2>1. Go(p, [job[p] EXCEPT !.pc = place])
    BY <1>7 DEF Write
  <2>2. place # "idle"
    BY DEF Audited
  <2> HIDE DEF place
  <2>3. [job[p] EXCEPT !.pc = place].pc = place
    BY <1>t DEF Jobs
  <2>4. QED
    BY <1>6, <2>1, <2>2, <2>3
<1>8. CASE Die(p)
  BY <1>5, <1>8 DEF Die
<1>9. ASSUME Throw(p),
             job[p].pc \in {"read", "merge", "entry", "audit", "secret", "interview", "benchmark"}
      PROVE  Stays /\ job'[p].outcome = "threw"
  BY <1>5, <1>9 DEF Throw
<1>10. CASE ReadRegistry(p)
  <2>1. [job[p] EXCEPT !.pc = "merge", !.first = RegistryOf(file)].pc = "merge"
    BY <1>t DEF Jobs
  <2>2. job[p].pc = "read" /\ Throw(p)
    BY <1>6, <1>10, <2>1 DEF ReadRegistry
  <2>3. QED
    BY <1>9, <2>2
<1>11. CASE Merge(p)
  <2> DEFINE next == IF Registers(job[p]) THEN MergedConfig(job[p], file)
                                          ELSE RemovedConfig(job[p], file)
             then == AfterSave(job[p])
  <2>1. job[p].pc = "merge"
        /\ (Throw(p) \/ Go(p, [job[p] EXCEPT !.pc = "open", !.then = then, !.next = next]))
    BY <1>11 DEF Merge
  <2> HIDE DEF next, then
  <2>2. [job[p] EXCEPT !.pc = "open", !.then = then, !.next = next].pc = "open"
    BY <1>t DEF Jobs
  <2>3. QED
    BY <1>6, <1>9, <2>1, <2>2
<1>12. CASE PersistWorkerConfigEntry(p)
  <2> DEFINE next == EntryConfig(job[p], file)
  <2>1. /\ job[p].pc = "entry"
        /\ \/ Throw(p)
           \/ Go(p, [job[p] EXCEPT !.pc = "open", !.then = "secret", !.next = next])
    BY <1>12 DEF PersistWorkerConfigEntry
  <2> HIDE DEF next
  <2>2. [job[p] EXCEPT !.pc = "open", !.then = "secret", !.next = next].pc = "open"
    BY <1>t DEF Jobs
  <2>3. QED
    BY <1>6, <1>9, <2>1, <2>2
<1>13. CASE InterviewPlan(p)
  <2> DEFINE target == file.workers[job[p].cmd.id].target
             why == IF job[p].cmd.interview THEN "unavailable" ELSE "skipped"
  <2>1. /\ job[p].pc = "interview"
        /\ \/ Throw(p)
           \/ Go(p, [job[p] EXCEPT !.pc = "benchmark", !.interviewed = why])
           \/ Go(p, [job[p] EXCEPT !.pc = "save", !.mine.target = target])
    BY <1>13 DEF InterviewPlan
  <2> HIDE DEF target, why
  <2>2. /\ [job[p] EXCEPT !.pc = "benchmark", !.interviewed = why].pc = "benchmark"
        /\ [job[p] EXCEPT !.pc = "save", !.mine.target = target].pc = "save"
    BY <1>t DEF Jobs
  <2>3. QED
    BY <1>6, <1>9, <2>1, <2>2
<1>14. CASE BenchmarkPlan(p)
  <2>1. job[p].pc = "benchmark" /\ Stays
        /\ ((\E j : End(p, j, "ended")) \/ End(p, Idle, "threw"))
    BY <1>14 DEF BenchmarkPlan, Throw
  <2>2. QED
    BY <1>5, <1>14, <2>1
<1>15. CASE RegisterPlan(p)
  <2> DEFINE known == ~job[p].invalid /\ job[p].cmd.id \in DOMAIN file.workers
             available == known \/ job[p].cmd.register
             said == IF job[p].cmd.register THEN "unavailable"
                     ELSE IF known THEN "completed" ELSE "skipped"
             next == [job[p] EXCEPT !.available = available]
             read == [next EXCEPT !.pc = "read"]
             secret == [next EXCEPT !.pc = "secret", !.registered = said]
  <2>1. /\ job[p].pc = "plan" /\ Stays
        /\ \/ End(p, job[p], "ended") /\ ~HasPlan(job[p].cmd)
           \/ Go(p, read) \/ Go(p, secret)
    BY <1>15 DEF RegisterPlan
  <2> HIDE DEF available, said
  <2>2. read.pc = "read" /\ secret.pc = "secret"
    BY <1>t DEF Jobs
  <2> HIDE DEF read, secret
  <2>3. QED
    BY <1>5, <1>6, <2>1, <2>2
<1>20. CASE WriteAuditEvent(p) \/ SaveWorkerSecret(p)
  <2> DEFINE said == IF job[p].then = "secret" THEN "completed" ELSE job[p].registered
             a == [job[p] EXCEPT !.pc = job[p].then, !.registered = said]
             b == [job[p] EXCEPT !.pc = "interview"]
  <2>1. \/ Throw(p) /\ job[p].pc \in {"audit", "secret"}
        \/ /\ End(p, job[p], "ended") /\ Stays
           /\ \/ job[p].pc = "audit" /\ job[p].then = "idle"
              \/ job[p].pc = "secret" /\ job[p].cmd.kind = "register"
        \/ job[p].then # "idle" /\ Go(p, a)
        \/ Go(p, b)
    BY <1>20, <1>t DEF WriteAuditEvent, SaveWorkerSecret, Jobs
  <2> HIDE DEF said
  <2>2. a.pc = job[p].then /\ b.pc = "interview"
    BY <1>t DEF Jobs
  <2> HIDE DEF a, b
  <2>3. QED
    BY <1>5, <1>6, <1>9, <2>1, <2>2
<1>21. CASE SaveInterview(p)
  <2> DEFINE next == Interviewed(profiles[job[p].cmd.id], job[p].mine.target)
             u == [job[p] EXCEPT !.pc = "benchmark", !.interviewed = "unavailable"]
             s == [job[p] EXCEPT !.pc = "benchmark", !.interviewed = "completed", !.mine = next]
  <2>1. job[p].pc = "save" /\ Stays /\ (Go(p, u) \/ Go(p, s) \/ End(p, Idle, "threw"))
    BY <1>21 DEF SaveInterview
  <2> HIDE DEF next
  <2>2. u.pc = "benchmark" /\ s.pc = "benchmark"
    BY <1>t DEF Jobs
  <2> HIDE DEF u, s
  <2>3. QED
    BY <1>5, <1>6, <2>1, <2>2
\* The other steps leave the command running.
<1>16. ASSUME NEW c \in Command, Begin(p, c) PROVE FALSE
  BY <1>16 DEF Begin
<1>17. CASE Look(p) \/ Ask(p) \/ Open(p) \/ Load(p) \/ RegistryState(p) \/ WriteManagedJson(p)
  <2> DEFINE disabled == "disabled" \in Entry(file.workers, job[p].cmd.id)
             desired == BuildDesiredConfig(LoadCwConfig(file), job[p].cmd)
             invalid == ~Readable(file)
             place == IF ~HasPlan(job[p].cmd) /\ file = job[p].next THEN "audit" ELSE "open"
             a == [job[p] EXCEPT !.pc = "read", !.disabled = disabled]
             b == [job[p] EXCEPT !.pc = "load"]
             c == [job[p] EXCEPT !.pc = "write"]
             d == [job[p] EXCEPT !.pc = "registry", !.next = desired]
             m == [job[p] EXCEPT !.pc = "managed", !.invalid = invalid]
             w == [job[p] EXCEPT !.pc = place, !.then = "plan"]
  <2>1. Go(p, a) \/ Go(p, b) \/ Go(p, c) \/ Go(p, d) \/ Go(p, m) \/ Go(p, w)
    BY <1>17 DEF Look, Ask, Open, Load, RegistryState, WriteManagedJson
  <2>2. place # "idle"
    OBVIOUS
  <2> HIDE DEF disabled, desired, invalid, place
  <2>3. "idle" \notin {a.pc, b.pc, c.pc, d.pc, m.pc, w.pc}
    BY <1>t, <2>2 DEF Jobs
  <2> HIDE DEF a, b, c, d, m, w
  <2>4. QED
    BY <1>6, <2>1, <2>3
<1>18. \/ Look(p) \/ Ask(p) \/ Open(p) \/ Load(p) \/ RegistryState(p) \/ WriteManagedJson(p)
       \/ SaveInterview(p) \/ ReadRegistry(p) \/ Merge(p) \/ PersistWorkerConfigEntry(p)
       \/ Write(p) \/ RegisterPlan(p) \/ InterviewPlan(p) \/ BenchmarkPlan(p) \/ Die(p)
       \/ WriteAuditEvent(p) \/ SaveWorkerSecret(p)
  BY <1>4, <1>16 DEF Step
<1>19. QED
  BY <1>7, <1>8, <1>10, <1>11, <1>12, <1>13, <1>14, <1>15, <1>17, <1>18, <1>20,
     <1>21

\* A command that no other overlaps, that found the file sound, does what it
\* was asked for and nothing else, or throws with nothing or all of that
\* written, whatever the commands, workers and initial files.
THEOREM UndisturbedCommandsLoseNothing == Spec => AloneLosesNothing
<1>a. ASSUME NEW c, NEW b, Keeps(c, b, file'), c.kind = "register" => Rebinds(c, b, file'),
             c.kind = "unregister" => c.id \notin DOMAIN file'.workers
      PROVE  Done(c, b.workers, b.safety)
  BY <1>a DEF Done, Keeps, Due, Rebinds
<1>1. ASSUME Typed, AloneInv, [Next]_vars, NEW p \in Process, Leaves(p, "ended"),
             alone[p], before[p].kind # "half"
      PROVE  Done(job[p].cmd, before[p].workers, before[p].safety)
  <2>1. Running(p) /\ ~Running(p)' /\ job[p]'.outcome = "ended"
    BY <1>1 DEF Leaves
  <2>2. Story(job[p], before[p], file) /\ Naming(job[p])
    BY <1>1, <2>1 DEF AloneInv, Undisturbed, Typed
  <2>3. /\ file' = file
        /\ \/ job[p].pc = "audit" /\ job[p].then = "idle"
           \/ job[p].pc = "secret" /\ job[p].cmd.kind = "register"
           \/ job[p].pc \in {"plan", "benchmark"} /\ ~Edits(job[p].cmd)
    BY <1>1, <2>1, <2>2, WhoLeaves DEF Stays, Naming
  <2>4. Keeps(job[p].cmd, before[p], file')
    BY <1>1, <2>2, <2>3 DEF Story
  <2>5. job[p].pc = "audit" => job[p].cmd.kind = "unregister"
    BY <2>2, <2>3 DEF Naming, Leads
  <2>6. /\ job[p].cmd.kind = "register" => Rebinds(job[p].cmd, before[p], file')
        /\ job[p].cmd.kind = "unregister" => job[p].cmd.id \notin DOMAIN file'.workers
    BY <2>2, <2>3, <2>5 DEF Story, Edits
  <2>7. QED
    BY <1>a, <2>4, <2>6
<1>2. ASSUME Typed, AloneInv, [Next]_vars, NEW p \in Process, Leaves(p, "threw"), alone[p]
      PROVE  /\ before[p].kind # "half" =>
                  file' = before[p] \/ Done(job[p].cmd, before[p].workers, before[p].safety)
             /\ before[p].kind = "half" /\ Edits(job[p].cmd) => file' = before[p]
  <2>1. Running(p) /\ ~Running(p)' /\ job[p]'.outcome = "threw"
    BY <1>2 DEF Leaves
  <2>2. Story(job[p], before[p], file) /\ Naming(job[p])
    BY <1>2, <2>1 DEF AloneInv, Undisturbed, Typed
  <2>3. /\ file' = file
        /\ job[p].pc \in {"read", "merge", "entry", "audit", "secret", "interview", "save",
                         "benchmark"}
    BY <1>2, <2>1, WhoLeaves DEF Stays
  <2>4. CASE Edits(job[p].cmd) /\ job[p].pc \in {"read", "merge"}
    BY <2>2, <2>3, <2>4 DEF Story
  <2>5. CASE ~Edits(job[p].cmd) \/ job[p].pc \notin {"read", "merge"}
    <3>1. before[p].kind = "half" => ~Edits(job[p].cmd)
      BY <2>2, <2>3, <2>5 DEF Story
    <3>2. /\ before[p].kind # "half" => Keeps(job[p].cmd, before[p], file')
          /\ job[p].cmd.kind = "register" => Rebinds(job[p].cmd, before[p], file')
      BY <2>2, <2>3, <2>5 DEF Story, Edits, Naming
    <3>3. job[p].cmd.kind = "unregister" => job[p].cmd.id \notin DOMAIN file'.workers
      BY <2>2, <2>3, <2>5 DEF Story, Edits, Naming
    <3>4. QED
      BY <1>a, <3>1, <3>2, <3>3
  <2>6. QED
    BY <2>4, <2>5
<1>3. Typed /\ AloneInv /\ [Next]_vars =>
        [\A p \in Process :
           LET c == job[p].cmd
               did == Done(c, before[p].workers, before[p].safety)
               sound == before[p].kind # "half"
           IN alone[p] =>
                /\ Leaves(p, "ended") /\ sound => did
                /\ Leaves(p, "threw") /\ sound => file' = before[p] \/ did
                /\ Leaves(p, "threw") /\ ~sound /\ Edits(c) => file' = before[p]
        ]_vars
  BY <1>1, <1>2
<1>4. Spec => [](Typed /\ AloneInv)
  BY AloneInit, AloneNext, RegistryAlwaysTyped, PTL DEF Spec
<1>5. QED
  BY <1>3, <1>4, PTL DEF Spec, AloneLosesNothing
-----------------------------------------------------------------------------
(* What a setup says.  Undisturbed, it finds its worker bound to the target *)
(* of its plan from the moment it has written the configuration.            *)

Bound(c, b, f) ==
  /\ c.id \in DOMAIN f.workers /\ f.workers[c.id].target = c.target
  /\ \/ f.workers[c.id].base = c.base
     \/ c.base = NoBase /\ f.workers[c.id].base = BaseOf(b.workers, c.id)

Tale(j, b, f, ps) == LET c == j.cmd IN
  ~Edits(c) /\ HasPlan(c) =>
    /\ j.pc \in {"registry", "managed", "open", "write"} => Bound(c, b, j.next)
    /\ j.pc \in {"plan", "read", "merge", "audit", "secret", "interview", "save", "benchmark"} =>
         Bound(c, b, f)
    /\ j.pc \in {"open", "write"} /\ j.then = "secret" => j.next.workers[c.id].base = c.base
    /\ j.pc = "audit" /\ j.then = "secret" => f.workers[c.id].base = c.base
    /\ j.pc \in {"secret", "interview", "save", "benchmark"} /\ c.register
         /\ j.registered = "completed" => f.workers[c.id].base = c.base
    /\ j.pc = "save" => j.mine.target = c.target
    /\ j.pc = "benchmark" /\ j.interviewed = "completed" =>
         j.mine.target = c.target /\ ps[c.id].target = c.target

SetupInv == \A p \in Process :
  alone[p] /\ Running(p) => Tale(job[p], before[p], file, profiles)

LEMMA SetupInit == Init => SetupInv
  BY DEF Init, SetupInv, Running, Idle

LEMMA SetupNext == Typed /\ AloneInv /\ SetupInv /\ [Next]_vars => SetupInv'
<1> SUFFICES ASSUME Typed, AloneInv, SetupInv, [Next]_vars PROVE SetupInv'
  OBVIOUS
<1>t. /\ file \in File /\ job \in [Process -> Jobs] /\ alone \in [Process -> BOOLEAN]
      /\ profiles \in [Id -> Profile] /\ before \in [Process -> File]
      /\ \A p \in Process : job[p] \in Jobs /\ Naming(job[p]) /\ job[p].cmd \in Commands
  BY CommandAssumption DEF Typed, TypeOK, Jobs
<1>f. Canonical(file)
  BY DEF AloneInv
<1>s. ASSUME NEW p \in Process, alone[p], Running(p)
      PROVE  /\ Story(job[p], before[p], file) /\ Tale(job[p], before[p], file, profiles)
             /\ \A q \in Process : q # p => ~Running(q)
  BY <1>s DEF AloneInv, Undisturbed, SetupInv
\* A step of p: only p can be alone.
<1>g. ASSUME NEW p \in Process, NEW j, Running(p), Go(p, j),
             alone[p] /\ j.pc # "idle" => Tale(j, before[p], file', profiles')
      PROVE  SetupInv'
  <2>1. job' = [job EXCEPT ![p] = j] /\ alone' = alone /\ before' = before
    BY <1>g DEF Go
  <2> SUFFICES ASSUME NEW q \in Process, alone'[q], Running(q)' PROVE Tale(job'[q], before'[q], file', profiles')
    BY DEF SetupInv
  <2>2. CASE q # p
    BY <1>g, <1>s, <1>t, <2>1, <2>2 DEF Running
  <2>3. CASE q = p
    BY <1>g, <1>t, <2>1, <2>3 DEF Running
  <2>4. QED
    BY <2>2, <2>3
<1>e. ASSUME NEW p \in Process, NEW j, NEW outcome, Running(p), End(p, j, outcome)
      PROVE  SetupInv'
  <2> DEFINE over == [Idle EXCEPT !.outcome = outcome, !.registered = j.registered,
                        !.interviewed = j.interviewed, !.benchmarked = j.benchmarked]
  <2>1. over.pc = "idle"
    BY DEF Idle
  <2>2. Go(p, over)
    BY <1>e DEF End
  <2> HIDE DEF over
  <2>3. QED
    BY <1>e, <1>g, <2>1, <2>2
<1>x. ASSUME NEW p \in Process, Running(p), Throw(p) PROVE SetupInv'
  BY <1>e, <1>x DEF Throw
<1>1. ASSUME NEW p \in Process, NEW c \in Command, Begin(p, c) PROVE SetupInv'
  <2> DEFINE j == [Idle EXCEPT !.pc = FirstPlace(c), !.cmd = c]
  <2>1. /\ file' = file /\ profiles' = profiles /\ job' = [job EXCEPT ![p] = j]
        /\ alone' = [q \in Process |-> IF q = p THEN \A o \in Process : ~Running(o)
                                                ELSE alone[q] /\ ~Running(q)]
    BY <1>1 DEF Begin
  <2>2. j.pc = FirstPlace(c) /\ j.cmd = c
    BY DEF Idle
  <2> HIDE DEF j
  <2> SUFFICES ASSUME NEW q \in Process, alone'[q], Running(q)' PROVE Tale(job'[q], before'[q], file', profiles')
    BY DEF SetupInv
  <2>3. q = p
    BY <1>t, <2>1 DEF Running
  <2>4. FirstPlace(c) \in {"ask", "look", "load"} \/ Edits(c)
    BY CommandAssumption DEF FirstPlace, Commands, Edits
  <2>5. QED
    BY <1>t, <2>1, <2>2, <2>3, <2>4 DEF Tale
\* The steps of a register or an unregister.
<1>c. ASSUME NEW p \in Process, NEW j, Running(p), Go(p, j), j.cmd = job[p].cmd, Edits(job[p].cmd)
      PROVE  SetupInv'
  BY <1>c, <1>g DEF Tale
<1>2. ASSUME NEW p \in Process, Look(p) PROVE SetupInv'
  <2> DEFINE disabled == "disabled" \in Entry(file.workers, job[p].cmd.id)
             j == [job[p] EXCEPT !.pc = "read", !.disabled = disabled]
  <2>1. Running(p) /\ Go(p, j) /\ Edits(job[p].cmd)
    BY <1>2, <1>t DEF Look, Running, Naming, Edits
  <2>2. j.cmd = job[p].cmd
    BY <1>t DEF Jobs
  <2> HIDE DEF j
  <2>3. QED
    BY <1>c, <2>1, <2>2
<1>3. ASSUME NEW p \in Process, Ask(p) PROVE SetupInv'
  <2>1. Running(p) /\ Go(p, [job[p] EXCEPT !.pc = "load"])
    BY <1>3 DEF Ask, Running
  <2>2. [job[p] EXCEPT !.pc = "load"].pc = "load"
    BY <1>t DEF Jobs
  <2>3. QED
    BY <1>g, <2>1, <2>2 DEF Tale
<1>4. ASSUME NEW p \in Process, ReadRegistry(p) PROVE SetupInv'
  <2> DEFINE j == [job[p] EXCEPT !.pc = "merge", !.first = RegistryOf(file)]
  <2>1. Running(p) /\ job[p].pc = "read"
    BY <1>4 DEF ReadRegistry, Running
  <2>2. Throw(p) \/ (Go(p, j) /\ file' = file)
    BY <1>4 DEF ReadRegistry, Stays
  <2>3. j.pc = "merge" /\ j.cmd = job[p].cmd
    BY <1>t DEF Jobs
  <2> HIDE DEF j
  <2>4. ASSUME alone[p], file' = file PROVE Tale(j, before[p], file', profiles')
    BY <1>s, <2>1, <2>3, <2>4 DEF Tale
  <2>5. QED
    BY <1>g, <1>x, <2>1, <2>2, <2>4
<1>5. ASSUME NEW p \in Process, Merge(p) PROVE SetupInv'
  <2> DEFINE c == job[p].cmd
             next == IF Registers(job[p]) THEN MergedConfig(job[p], file)
                                          ELSE RemovedConfig(job[p], file)
             j == [job[p] EXCEPT !.pc = "open", !.then = AfterSave(job[p]), !.next = next]
  <2>1. Running(p) /\ job[p].pc = "merge"
    BY <1>5 DEF Merge, Running
  <2>2. Throw(p) \/ Go(p, j)
    BY <1>5 DEF Merge
  <2>3. ASSUME alone[p], ~Edits(c)
        PROVE  Bound(c, before[p], next) /\ next.workers[c.id].base = c.base
    <3>1. job[p].first = RegistryOf(file)
      BY <1>s, <2>1, <2>3 DEF Story
    <3>2. Names(c) /\ Registers(job[p])
      BY <1>t, <2>1, <2>3 DEF Naming, Registers, Edits
    <3>3. QED
      BY <1>t, <3>1, <3>2, MergedKeepsOthers DEF Bound
  <2> HIDE DEF next
  <2>4. j.pc = "open" /\ j.next = next /\ j.cmd = c
    BY <1>t DEF Jobs
  <2> HIDE DEF j, c
  <2>5. ASSUME alone[p] PROVE Tale(j, before[p], file', profiles')
    BY <2>3, <2>4, <2>5 DEF Tale
  <2>6. QED
    BY <1>g, <1>x, <2>1, <2>2, <2>5
<1>6. ASSUME NEW p \in Process, PersistWorkerConfigEntry(p) PROVE SetupInv'
  <2> DEFINE next == EntryConfig(job[p], file)
             j == [job[p] EXCEPT !.pc = "open", !.then = "secret", !.next = next]
  <2>1. Running(p) /\ Edits(job[p].cmd)
    BY <1>6, <1>t DEF PersistWorkerConfigEntry, Running, Naming, Edits
  <2>2. Throw(p) \/ Go(p, j)
    BY <1>6 DEF PersistWorkerConfigEntry
  <2> HIDE DEF next
  <2>3. j.cmd = job[p].cmd
    BY <1>t DEF Jobs
  <2> HIDE DEF j
  <2>4. QED
    BY <1>c, <1>x, <2>1, <2>2, <2>3
<1>7. ASSUME NEW p \in Process, Open(p) PROVE SetupInv'
  <2> DEFINE j == [job[p] EXCEPT !.pc = "write"]
  <2>1. Running(p) /\ Go(p, j) /\ job[p].pc = "open"
    BY <1>7 DEF Open, Running
  <2>2. j.pc = "write" /\ j.cmd = job[p].cmd /\ j.next = job[p].next
        /\ j.then = job[p].then
    BY <1>t DEF Jobs
  <2> HIDE DEF j
  <2>3. ASSUME alone[p] PROVE Tale(j, before[p], file', profiles')
    BY <1>s, <2>1, <2>2, <2>3 DEF Tale
  <2>4. QED
    BY <1>g, <2>1, <2>3
<1>8. ASSUME NEW p \in Process, Write(p) PROVE SetupInv'
  <2> DEFINE place == IF Audited(job[p]) THEN "audit" ELSE job[p].then
             j == [job[p] EXCEPT !.pc = place]
  <2>1. Running(p) /\ job[p].pc = "write" /\ Go(p, j)
    BY <1>8 DEF Write, Running
  <2>2. ~Edits(job[p].cmd) => place = "audit"
    BY DEF Audited, Edits
  <2> HIDE DEF place
  <2>3. j.pc = place /\ j.cmd = job[p].cmd /\ j.then = job[p].then
    BY <1>t DEF Jobs
  <2> HIDE DEF j
  <2>4. ASSUME alone[p] PROVE Tale(j, before[p], file', profiles')
    <3>1. file' = job[p].next
      BY <1>8, <1>s, <2>1, <2>4 DEF Write, Becomes, Story
    <3>2. QED
      BY <1>s, <2>1, <2>2, <2>3, <2>4, <3>1 DEF Tale
  <2>5. QED
    BY <1>g, <2>1, <2>4
<1>18. ASSUME NEW p \in Process, WriteAuditEvent(p) PROVE SetupInv'
  <2> DEFINE said == IF job[p].then = "secret" THEN "completed" ELSE job[p].registered
             j == [job[p] EXCEPT !.pc = job[p].then, !.registered = said]
  <2>1. Running(p) /\ job[p].pc = "audit" /\ Naming(job[p]) /\ file' = file
    BY <1>18, <1>t DEF WriteAuditEvent, Throw, Running, Stays
  <2>2. \/ \E k, outcome : End(p, k, outcome)
        \/ job[p].then # "idle" /\ Go(p, j)
    BY <1>18, <1>t DEF WriteAuditEvent, Throw, Jobs
  <2> HIDE DEF said
  <2>3. j.pc = job[p].then /\ j.cmd = job[p].cmd /\ j.registered = said
    BY <1>t DEF Jobs
  <2> HIDE DEF j
  <2>4. job[p].then \in {"idle", "plan", "entry", "secret"}
    BY <2>1 DEF Naming, Leads
  <2>5. job[p].then = "entry" => Edits(job[p].cmd)
    BY <2>1 DEF Naming, Leads, Edits
  <2>6. ASSUME alone[p], job[p].then # "idle" PROVE Tale(j, before[p], file', profiles')
    BY <1>s, <2>1, <2>3, <2>4, <2>5, <2>6 DEF Tale
  <2>7. QED
    BY <1>e, <1>g, <2>1, <2>2, <2>6
<1>19. ASSUME NEW p \in Process, SaveWorkerSecret(p) PROVE SetupInv'
  <2> DEFINE j == [job[p] EXCEPT !.pc = "interview"]
  <2>1. Running(p) /\ job[p].pc = "secret" /\ file' = file
    BY <1>19 DEF SaveWorkerSecret, Throw, Running, Stays
  <2>2. (\E k, outcome : End(p, k, outcome)) \/ Go(p, j)
    BY <1>19 DEF SaveWorkerSecret, Throw
  <2>3. j.pc = "interview" /\ j.cmd = job[p].cmd /\ j.registered = job[p].registered
    BY <1>t DEF Jobs
  <2> HIDE DEF j
  <2>4. ASSUME alone[p] PROVE Tale(j, before[p], file', profiles')
    BY <1>s, <2>1, <2>3, <2>4 DEF Tale
  <2>5. QED
    BY <1>e, <1>g, <2>1, <2>2, <2>4
<1>9. ASSUME NEW p \in Process, Load(p) PROVE SetupInv'
  <2> DEFINE c == job[p].cmd
             config == LoadCwConfig(file)
             next == BuildDesiredConfig(config, c)
             j == [job[p] EXCEPT !.pc = "registry", !.next = next]
  <2>1. Running(p) /\ Go(p, j) /\ job[p].pc = "load"
    BY <1>9 DEF Load, Running
  <2>2. config \in File /\ (file.kind # "half" => config.workers = file.workers)
        /\ (file.kind = "half" => config.workers = Empty)
    BY <1>f, <1>t, EmptyTyped DEF LoadCwConfig, Whole, File, Canonical, Absent, DefaultConfig
  <2>3. next.workers = MergeWorkerConfigs(config.workers, c) /\ config.workers \in Registrations
    BY <2>2 DEF BuildDesiredConfig, File
  <2>4. BaseOf(Empty, c.id) = NoBase
    BY DEF BaseOf, Empty
  <2>5. BaseOf(config.workers, c.id) \in {NoBase, BaseOf(file.workers, c.id)}
    BY <1>t, <2>2, <2>4 DEF File
  <2> DEFINE r == [target |-> c.target,
                   base |-> IF c.base = NoBase THEN BaseOf(config.workers, c.id) ELSE c.base,
                   extras |-> Entry(config.workers, c.id) \cup (c.extras \cap {"command"})]
  <2>6. r.target = c.target
        /\ (r.base = c.base \/ (c.base = NoBase /\ r.base = BaseOf(file.workers, c.id)))
    BY <2>5
  <2>7. HasPlan(c) => next.workers = With(config.workers, c.id, r)
    BY <2>3 DEF MergeWorkerConfigs
  <2>8. j.pc = "registry" /\ j.next = next /\ j.cmd = c
    BY <1>t DEF Jobs
  <2> HIDE DEF next, config, r, j, c
  <2>9. HasPlan(c) => Bound(c, file, next)
    BY <2>3, <2>6, <2>7, WithKeepsOthers DEF Bound
  <2>10. ASSUME alone[p] PROVE Tale(j, before[p], file', profiles')
    <3>1. file = before[p]
      BY <1>s, <2>1, <2>10 DEF Story
    <3>2. QED
      BY <2>8, <2>9, <3>1 DEF Tale
  <2>11. QED
    BY <1>g, <2>1, <2>10
<1>10. ASSUME NEW p \in Process, RegistryState(p) \/ WriteManagedJson(p) PROVE SetupInv'
  <2> DEFINE invalid == ~Readable(file)
             place == IF ~HasPlan(job[p].cmd) /\ file = job[p].next THEN "audit" ELSE "open"
             a == [job[p] EXCEPT !.pc = "managed", !.invalid = invalid]
             b == [job[p] EXCEPT !.pc = place, !.then = "plan"]
  <2>1. Running(p) /\ job[p].pc \in {"registry", "managed"} /\ (Go(p, a) \/ Go(p, b))
    BY <1>10 DEF RegistryState, WriteManagedJson, Running
  <2>2. place = "open" \/ ~HasPlan(job[p].cmd)
    OBVIOUS
  <2> HIDE DEF invalid, place
  <2>3. /\ a.pc = "managed" /\ a.next = job[p].next /\ a.cmd = job[p].cmd
        /\ b.pc = place /\ b.next = job[p].next /\ b.cmd = job[p].cmd /\ b.then = "plan"
    BY <1>t DEF Jobs
  <2> HIDE DEF a, b
  <2>4. ASSUME alone[p] PROVE Tale(a, before[p], file', profiles') /\ Tale(b, before[p], file', profiles')
    BY <1>s, <2>1, <2>2, <2>3, <2>4 DEF Tale
  <2>5. QED
    BY <1>g, <2>1, <2>4
<1>11. ASSUME NEW p \in Process, RegisterPlan(p) PROVE SetupInv'
  <2> DEFINE known == ~job[p].invalid /\ job[p].cmd.id \in DOMAIN file.workers
             available == known \/ job[p].cmd.register
             said == IF job[p].cmd.register THEN "unavailable"
                     ELSE IF known THEN "completed" ELSE "skipped"
             next == [job[p] EXCEPT !.available = available]
             a == [next EXCEPT !.pc = "read"]
             b == [next EXCEPT !.pc = "secret", !.registered = said]
  <2>1. /\ Running(p) /\ job[p].pc = "plan" /\ file' = file
        /\ (End(p, job[p], "ended") \/ Go(p, a) \/ Go(p, b))
    BY <1>11 DEF RegisterPlan, Running, Stays
  <2>2. job[p].cmd.register => said # "completed"
    OBVIOUS
  <2> HIDE DEF said, available
  <2>3. /\ a.pc = "read" /\ a.cmd = job[p].cmd
        /\ b.pc = "secret" /\ b.registered = said /\ b.cmd = job[p].cmd
    BY <1>t DEF Jobs
  <2> HIDE DEF a, b
  <2>4. ASSUME alone[p]
        PROVE  Tale(a, before[p], file', profiles') /\ Tale(b, before[p], file', profiles')
    BY <1>s, <2>1, <2>2, <2>3, <2>4 DEF Tale
  <2>5. QED
    BY <1>e, <1>g, <2>1, <2>4
<1>12. ASSUME NEW p \in Process, InterviewPlan(p) PROVE SetupInv'
  <2> DEFINE target == file.workers[job[p].cmd.id].target
             why == IF job[p].cmd.interview THEN "unavailable" ELSE "skipped"
             a == [job[p] EXCEPT !.pc = "benchmark", !.interviewed = why]
             b == [job[p] EXCEPT !.pc = "save", !.mine.target = target]
  <2>1. /\ Running(p) /\ job[p].pc = "interview" /\ file' = file
        /\ (Throw(p) \/ Go(p, a) \/ Go(p, b))
    BY <1>12 DEF InterviewPlan, Running, Stays, Throw
  <2>2. why # "completed"
    OBVIOUS
  <2> HIDE DEF why
  <2>3. /\ a.pc = "benchmark" /\ a.interviewed = why /\ a.cmd = job[p].cmd
        /\ a.registered = job[p].registered
        /\ b.pc = "save" /\ b.mine.target = target /\ b.cmd = job[p].cmd
        /\ b.registered = job[p].registered
    BY <1>t DEF Jobs, Profile
  <2> HIDE DEF a, b
  <2>4. ASSUME alone[p]
        PROVE  Tale(a, before[p], file', profiles') /\ Tale(b, before[p], file', profiles')
    BY <1>s, <2>1, <2>2, <2>3, <2>4 DEF Tale, Bound
  <2>5. QED
    BY <1>g, <1>x, <2>1, <2>4
<1>13. ASSUME NEW p \in Process, SaveInterview(p) PROVE SetupInv'
  <2> DEFINE next == Interviewed(profiles[job[p].cmd.id], job[p].mine.target)
             a == [job[p] EXCEPT !.pc = "benchmark", !.interviewed = "unavailable"]
             b == [job[p] EXCEPT !.pc = "benchmark", !.interviewed = "completed", !.mine = next]
  <2>1. /\ Running(p) /\ job[p].pc = "save" /\ file' = file
        /\ \/ Go(p, a)
           \/ Go(p, b) /\ profiles' = [profiles EXCEPT ![job[p].cmd.id] = next]
           \/ End(p, Idle, "threw")
    BY <1>13 DEF SaveInterview, Running, Stays
  <2>2. job[p].cmd.id \in Id /\ next.target = job[p].mine.target
    BY <1>t, <2>1 DEF Naming, Names, Interviewed
  <2> HIDE DEF next
  <2>3. /\ a.pc = "benchmark" /\ a.interviewed = "unavailable" /\ a.cmd = job[p].cmd
        /\ a.registered = job[p].registered /\ b.registered = job[p].registered
        /\ b.pc = "benchmark" /\ b.mine = next /\ b.cmd = job[p].cmd
    BY <1>t DEF Jobs
  <2> HIDE DEF a, b
  <2>4. ASSUME alone[p] PROVE Tale(a, before[p], file', profiles')
    BY <1>s, <2>1, <2>3, <2>4 DEF Tale
  <2>5. ASSUME alone[p], profiles' = [profiles EXCEPT ![job[p].cmd.id] = next]
        PROVE  Tale(b, before[p], file', profiles')
    BY <1>s, <1>t, <2>1, <2>2, <2>3, <2>5 DEF Tale
  <2>6. QED
    BY <1>e, <1>g, <2>1, <2>4, <2>5
<1>14. ASSUME NEW p \in Process, BenchmarkPlan(p) \/ Die(p) PROVE SetupInv'
  <2>1. Running(p) /\ \E j, outcome : End(p, j, outcome)
    BY <1>14 DEF BenchmarkPlan, Die, Throw, Running
  <2>2. QED
    BY <1>e, <2>1
<1>15. ASSUME NEW f \in Edited, Edit(f) PROVE SetupInv'
  BY <1>15, <1>t DEF Edit, SetupInv, Running
<1>16. CASE UNCHANGED vars
  BY <1>16 DEF vars, SetupInv, Running
<1>17. QED
  BY <1>1, <1>2, <1>3, <1>4, <1>5, <1>6, <1>7, <1>8, <1>9, <1>10, <1>11, <1>12, <1>13, <1>14, <1>15,
     <1>16, <1>18, <1>19 DEF Next, Step

\* What a setup that nobody disturbed says of its worker is so, whatever the
\* workers, targets and initial files, and whoever dies.
THEOREM SetupsSayTheTruth == Spec => SetupSaysTrue
<1>1. ASSUME Typed, AloneInv, SetupInv, [Next]_vars, NEW p \in Process, Leaves(p, "ended"),
             alone[p], ~Edits(job[p].cmd), HasPlan(job[p].cmd)
      PROVE  LET c == job[p].cmd
                 said == job[p]'
             IN /\ Bound(c, before[p], file')
                /\ said.registered = "completed" /\ c.register => file'.workers[c.id].base = c.base
                /\ said.interviewed = "completed" => profiles'[c.id].target = c.target
                /\ said.benchmarked = "completed" => said.interviewed = "completed"
  <2>1. /\ Running(p) /\ ~Running(p)' /\ job[p]'.outcome = "ended"
        /\ job \in [Process -> Jobs] /\ job[p] \in Jobs /\ Naming(job[p])
        /\ profiles \in [Id -> Profile]
    BY <1>1 DEF Leaves, Typed, TypeOK
  <2>2. Tale(job[p], before[p], file, profiles)
    BY <1>1, <2>1 DEF SetupInv
  <2>3. Stays /\ job[p].pc = "benchmark" /\ BenchmarkPlan(p)
    <3>1. ~(job[p].pc = "audit" /\ job[p].then = "idle") /\ job[p].cmd.kind # "register"
      BY <1>1, <2>1 DEF Naming, Leads, Edits
    <3>2. QED
      BY <1>1, <2>1, <3>1, WhoLeaves
  <2>4. job[p].cmd.id \in Id
    BY <2>1, <2>3 DEF Naming, Names
  <2>e. ASSUME NEW j, NEW outcome, End(p, j, outcome)
        PROVE  /\ job'[p].interviewed = j.interviewed /\ job'[p].benchmarked = j.benchmarked
               /\ job'[p].registered = j.registered /\ job'[p].outcome = outcome
    BY <2>1, <2>e DEF End, Go, Idle
  <2> DEFINE why == IF job[p].cmd.benchmark THEN "unavailable" ELSE "skipped"
             out == [job[p] EXCEPT !.benchmarked = why]
             done == [job[p] EXCEPT !.benchmarked = "completed"]
             scored(q) == [job[p].mine EXCEPT !.benchmarked = q]
  <2>5. \/ profiles' = profiles /\ End(p, out, "ended")
        \/ /\ job[p].interviewed = "completed" /\ End(p, done, "ended")
           /\ \E q \in BOOLEAN : profiles' = [profiles EXCEPT ![job[p].cmd.id] = scored(q)]
    <3>1. ~Throw(p) /\ ~End(p, Idle, "threw")
      BY <2>1, <2>e DEF Throw
    <3>2. QED
      BY <2>3, <3>1 DEF BenchmarkPlan
  <2>6. why # "completed"
    OBVIOUS
  <2> HIDE DEF why
  <2>7. /\ out.interviewed = job[p].interviewed /\ out.registered = job[p].registered
        /\ out.benchmarked = why
        /\ done.interviewed = job[p].interviewed /\ done.registered = job[p].registered
    BY <2>1 DEF Jobs
  <2>8. \A q \in BOOLEAN : scored(q).target = job[p].mine.target
    BY <2>1 DEF Jobs, Profile
  <2> HIDE DEF out, done, scored
  <2>9. /\ job'[p].registered = job[p].registered /\ job'[p].interviewed = job[p].interviewed
        /\ job'[p].benchmarked = "completed" => job[p].interviewed = "completed"
    BY <2>5, <2>6, <2>7, <2>e
  <2>10. /\ Bound(job[p].cmd, before[p], file')
         /\ job'[p].registered = "completed" /\ job[p].cmd.register =>
              file'.workers[job[p].cmd.id].base = job[p].cmd.base
    BY <1>1, <2>2, <2>3, <2>9 DEF Tale, Stays
  <2>11. job'[p].interviewed = "completed" =>
           profiles'[job[p].cmd.id].target = job[p].cmd.target
    BY <1>1, <2>1, <2>2, <2>3, <2>4, <2>5, <2>8, <2>9 DEF Tale
  <2>12. QED
    BY <2>9, <2>10, <2>11
<1>2. Typed /\ AloneInv /\ SetupInv /\ [Next]_vars =>
        [\A p \in Process :
           LET c == job[p].cmd
               was == before[p].workers
               is == file'.workers
               said == job[p]'
           IN Leaves(p, "ended") /\ alone[p] /\ ~Edits(c) /\ HasPlan(c) =>
                /\ said.registered = "completed" =>
                     /\ c.id \in DOMAIN is /\ is[c.id].target = c.target
                     /\ \/ is[c.id].base = c.base
                        \/ ~c.register /\ c.base = NoBase /\ is[c.id].base = BaseOf(was, c.id)
                /\ said.interviewed = "completed" => profiles'[c.id].target = c.target
                /\ said.benchmarked = "completed" => said.interviewed = "completed"
        ]_vars
  BY <1>1 DEF Bound
<1>3. Spec => [](Typed /\ AloneInv /\ SetupInv)
  BY AloneInit, AloneNext, SetupInit, SetupNext, RegistryAlwaysTyped, PTL DEF Spec
<1>4. QED
  BY <1>2, <1>3, PTL DEF Spec, SetupSaysTrue
=============================================================================

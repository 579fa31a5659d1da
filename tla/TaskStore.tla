----------------------------- MODULE TaskStore -----------------------------
(***************************************************************************)
(* The task-session store under several clients at once (CLI processes and *)
(* MCP calls on one workspace database).  Every SQL statement or           *)
(* transaction is one step; a function of the store makes several, each on *)
(* its own connection, and nothing keeps another client from stepping in   *)
(* between: persistTaskSession then pruneStoredTaskSessions, or the upsert *)
(* of an artifact, the read-back of its session and the rewrite of it.     *)
(***************************************************************************)
EXTENDS Naturals, FiniteSets

CONSTANTS
  Clients,      \* runs of the program that use the store at the same time
  Tasks,        \* task ids: random, unique, and ordered (the prune sorts them)
  Groups,       \* retention group keys
  GroupOf,      \* the group of a task: its goal, scope, worker and options
  KindOf,       \* the group of the tasks a client creates and resumes
  Names,        \* artifact names
  MaxPerKind,   \* storage.runs.maxPerKind of the workspace configuration
  SharedTasks,  \* whether a task may be resumed while another client runs it
  MaxClock,     \* bound: milliseconds that pass
  MaxDeaths     \* bound: runs that die

ASSUME TasksAssumption == Tasks \subseteq Nat \ {0} /\ IsFiniteSet(Tasks)
ASSUME ClientsAssumption == IsFiniteSet(Clients)
ASSUME GroupsAssumption ==
  GroupOf \in [Tasks -> Groups] /\ KindOf \in [Clients -> Groups]
ASSUME MaxPerKindAssumption == MaxPerKind \in Nat \ {0}
ASSUME BoundsAssumption ==
  SharedTasks \in BOOLEAN /\ MaxClock \in Nat /\ MaxDeaths \in Nat

VARIABLES
  rows,       \* rows[t]: the task_sessions row (NoRow when there is none)
  artifacts,  \* artifacts[t]: names stored in task_artifacts for t
  clock,      \* what Date.now() returns; many writes may see the same value
  known,      \* task ids given out so far
  client,     \* client[c]: where a run is and the session it holds in memory
  owing,      \* history: clients that wrote a row and have not pruned since
  past,       \* history: past[c]: what the run of c has been through so far
  deaths      \* history: how many runs died

vars == <<rows, artifacts, clock, known, client, owing, past, deaths>>

\* steps: the artifact names the step rows of the session refer to.
Row   == [stamp : Nat, steps : SUBSET Names]
NoRow == [absent |-> TRUE]

\* pc names the statement that comes next; "copy" is the session that
\* writeTaskArtifact read back, "name" the artifact it is writing.
NoTask == 0
NoName == "none"
Idle   == [pc |-> "idle", task |-> NoTask, held |-> {}, name |-> NoName, copy |-> NoRow]

Run == [pc : {"idle", "ready", "prune", "prune-last", "read-back", "rewrite", "returning"},
        task : Tasks \cup {NoTask}, held : SUBSET Names,
        name : Names \cup {NoName}, copy : Row \cup {NoRow}]

\* crowd: the tasks other clients of the group were running at any time of
\* the run (its own one among them, if somebody else ran that too); wrote:
\* whether the run has stored its session; pruned: whether a prune took it.
Past  == [crowd : SUBSET Tasks, wrote : BOOLEAN, pruned : BOOLEAN]
Blank == [crowd |-> {}, wrote |-> FALSE, pruned |-> FALSE]

Init ==
  /\ rows = [t \in Tasks |-> NoRow]
  /\ artifacts = [t \in Tasks |-> {}]
  /\ clock = 0
  /\ known = {}
  /\ client = [c \in Clients |-> Idle]
  /\ owing = {}
  /\ past = [c \in Clients |-> Blank]
  /\ deaths = 0

-----------------------------------------------------------------------------
Stored(g)  == {t \in Tasks : rows[t] # NoRow /\ GroupOf[t] = g}
TaskOf(c)  == client[c].task
Running(t) == \E c \in Clients : TaskOf(c) = t

\* History: the run of c meets the other runs of its group, and they meet it.
Company(c) == {d \in Clients \ {c} : client[d].pc # "idle" /\ KindOf[d] = KindOf[c]}

Meet(c, t, wrote) ==
  past' = [d \in Clients |->
    IF d = c THEN [Blank EXCEPT !.crowd = {TaskOf(e) : e \in Company(c)}, !.wrote = wrote]
    ELSE IF d \in Company(c) THEN [past[d] EXCEPT !.crowd = @ \cup {t}]
    ELSE past[d]]

\* Mutant: the step rows are deleted and not inserted again.
PersistWithoutSteps(c, t, row) ==
  /\ rows' = [rows EXCEPT ![t] = [stamp |-> row.stamp]]
  /\ owing' = owing \cup {c}

\* persistTaskSession: inserts the row or overwrites it, one transaction.
Persist(c, t, row) ==
  /\ rows' = [rows EXCEPT ![t] = row]
  /\ owing' = owing \cup {c}

\* createTaskSession, up to its prune.
Create(c, t) ==
  /\ client[c].pc = "idle"
  /\ t \notin known
  /\ GroupOf[t] = KindOf[c]
  /\ known' = known \cup {t}
  /\ Persist(c, t, [stamp |-> clock, steps |-> {}])
  /\ client' = [client EXCEPT ![c] = [Idle EXCEPT !.pc = "prune", !.task = t]]
  /\ Meet(c, t, TRUE)
  /\ UNCHANGED <<artifacts, clock, deaths>>

\* Mutant: the session is read without its artifacts.
ResumeBare(c, t) ==
  /\ client[c].pc = "idle"
  /\ rows[t] # NoRow
  /\ GroupOf[t] = KindOf[c]
  /\ SharedTasks \/ ~Running(t)
  /\ client' = [client EXCEPT ![c] = [Idle EXCEPT !.pc = "ready", !.task = t]]
  /\ Meet(c, t, FALSE)
  /\ UNCHANGED <<rows, artifacts, clock, known, owing, deaths>>

\* readTaskSession at the start of a resume.
Resume(c, t) ==
  /\ client[c].pc = "idle"
  /\ rows[t] # NoRow
  /\ GroupOf[t] = KindOf[c]
  /\ SharedTasks \/ ~Running(t)
  /\ client' = [client EXCEPT ![c] =
       [Idle EXCEPT !.pc = "ready", !.task = t, !.held = artifacts[t]]]
  /\ Meet(c, t, FALSE)
  /\ UNCHANGED <<rows, artifacts, clock, known, owing, deaths>>

\* Mutant: INSERT OR REPLACE, which deletes the old row and, by the cascade,
\* its artifacts.
UpdateReplacing(c, last) ==
  /\ client[c].pc = "ready"
  /\ Persist(c, TaskOf(c), [stamp |-> clock, steps |-> client[c].held])
  /\ client' = [client EXCEPT ![c].pc = IF last THEN "prune-last" ELSE "prune"]
  /\ past' = [past EXCEPT ![c].wrote = TRUE]
  /\ artifacts' = [artifacts EXCEPT ![TaskOf(c)] = {}]
  /\ UNCHANGED <<clock, known, deaths>>

\* updateTaskSession, up to its prune: the session in memory, newly stamped,
\* replaces whatever the row holds, or is inserted again if it was pruned.
Update(c, last) ==
  /\ client[c].pc = "ready"
  /\ Persist(c, TaskOf(c), [stamp |-> clock, steps |-> client[c].held])
  /\ client' = [client EXCEPT ![c].pc = IF last THEN "prune-last" ELSE "prune"]
  /\ past' = [past EXCEPT ![c].wrote = TRUE]
  /\ UNCHANGED <<artifacts, clock, known, deaths>>

\* Mutant: the prune keeps the oldest rows.
Older(u, t) ==
  rows[u].stamp < rows[t].stamp \/ (rows[u].stamp = rows[t].stamp /\ u < t)

\* ORDER BY updated_at DESC, task_id DESC
Newer(u, t) ==
  rows[u].stamp > rows[t].stamp \/ (rows[u].stamp = rows[t].stamp /\ u > t)

\* Mutant: an off-by-one in the limit.
OneMore(kept, all) ==
  /\ Cardinality(kept) <= MaxPerKind + 1
  /\ kept = all \/ Cardinality(kept) = MaxPerKind + 1
  /\ \A u \in kept, t \in all \ kept : Newer(u, t)

\* ... LIMIT maxPerKind
Newest(kept, all) ==
  /\ Cardinality(kept) <= MaxPerKind
  /\ kept = all \/ Cardinality(kept) = MaxPerKind
  /\ \A u \in kept, t \in all \ kept : Newer(u, t)

\* pruneStoredTaskSessions; deleting a row deletes its artifacts (CASCADE).
Prune(c) ==
  /\ client[c].pc \in {"prune", "prune-last"}
  /\ LET all == Stored(GroupOf[TaskOf(c)]) IN
       \E kept \in SUBSET all :
         /\ Newest(kept, all)
         /\ rows' = [t \in Tasks |-> IF t \in all \ kept THEN NoRow ELSE rows[t]]
         /\ artifacts' = [t \in Tasks |-> IF t \in all \ kept THEN {} ELSE artifacts[t]]
         /\ past' = [d \in Clients |-> IF TaskOf(d) \in all \ kept
                                       THEN [past[d] EXCEPT !.pruned = TRUE] ELSE past[d]]
  /\ client' = [client EXCEPT ![c].pc = IF @ = "prune" THEN "ready" ELSE "returning"]
  /\ owing' = owing \ {c}
  /\ UNCHANGED <<clock, known, deaths>>

\* writeTaskArtifact inserts the artifact first: without its session row the
\* foreign key makes that fail, and the run with it (see Die).
PutArtifact(c, a) ==
  /\ client[c].pc = "ready"
  /\ rows[TaskOf(c)] # NoRow
  /\ artifacts' = [artifacts EXCEPT ![TaskOf(c)] = @ \cup {a}]
  /\ client' = [client EXCEPT ![c].pc = "read-back", ![c].name = a]
  /\ UNCHANGED <<rows, clock, known, owing, past, deaths>>

\* ... then reads the session back: loadArtifacts, and steps whose artifact
\* is not among those lose their reference when they are written again.
ReadBack(c) ==
  /\ client[c].pc = "read-back"
  /\ LET t == TaskOf(c) IN
       client' = [client EXCEPT ![c] = [@ EXCEPT
         !.pc = "rewrite",
         !.copy = IF rows[t] = NoRow THEN NoRow
                  ELSE [stamp |-> rows[t].stamp,
                        steps |-> rows[t].steps \cap (artifacts[t] \cup {client[c].name})]]]
  /\ UNCHANGED <<rows, artifacts, clock, known, owing, past, deaths>>

\* ... and writes that copy, with the stamp it read and without a prune.
Rewrite(c) ==
  /\ client[c].pc = "rewrite"
  /\ IF client[c].copy = NoRow THEN UNCHANGED <<rows, owing>>
     ELSE Persist(c, TaskOf(c), client[c].copy)
  /\ client' = [client EXCEPT ![c] =
       [Idle EXCEPT !.pc = "ready", !.task = TaskOf(c), !.held = client[c].held \cup {client[c].name}]]
  /\ UNCHANGED <<artifacts, clock, known, past, deaths>>

\* A run is over; before its caller begins another a millisecond has passed.
Leave(c) ==
  /\ clock < MaxClock
  /\ clock' = clock + 1
  /\ client' = [client EXCEPT ![c] = Idle]
  /\ past' = [past EXCEPT ![c] = Blank]

Return(c) ==
  /\ client[c].pc = "returning"
  /\ Leave(c)
  /\ UNCHANGED <<rows, artifacts, known, owing, deaths>>

\* A crash, a busy database, a failed foreign key, a full disk.
Die(c) ==
  /\ client[c].pc # "idle"
  /\ deaths < MaxDeaths
  /\ deaths' = deaths + 1
  /\ Leave(c)
  /\ owing' = owing \ {c}
  /\ UNCHANGED <<rows, artifacts, known>>

Tick ==
  /\ clock < MaxClock
  /\ clock' = clock + 1
  /\ UNCHANGED <<rows, artifacts, known, client, owing, past, deaths>>

Step(c) ==
  \/ \E t \in Tasks : Create(c, t) \/ Resume(c, t)
  \/ \E last \in BOOLEAN : Update(c, last)
  \/ Prune(c)
  \/ \E a \in Names : PutArtifact(c, a)
  \/ ReadBack(c)
  \/ Rewrite(c)
  \/ Return(c)
  \/ Die(c)

Next == Tick \/ \E c \in Clients : Step(c)

Spec == Init /\ [][Next]_vars

-----------------------------------------------------------------------------
(* Properties.                                                             *)

\* Every variable has its type.
TypeOK ==
  /\ rows \in [Tasks -> Row \cup {NoRow}]
  /\ artifacts \in [Tasks -> SUBSET Names]
  /\ clock \in 0..MaxClock
  /\ known \subseteq Tasks
  /\ client \in [Clients -> Run]
  /\ owing \subseteq Clients
  /\ past \in [Clients -> Past]
  /\ deaths \in 0..MaxDeaths

\* A group never outgrows maxPerKind by more than one row for each of its
\* runs that is between a write and its prune, and for each run that died:
\* the rewrite in writeTaskArtifact brings back pruned rows without pruning.
Owing(g) == {c \in owing : KindOf[c] = g}

RetentionBounded ==
  \A g \in Groups :
    Cardinality(Stored(g)) <= MaxPerKind + Cardinality(Owing(g)) + deaths

\* "Persisted task session is available for resume and artifact reads.": when
\* a run returns that, its session and all artifacts it registered are stored,
\* whoever else runs tasks of its group, or its own task, at the same time,
\* unless a prune took the session while the run was working on it.
PromisedArtifactsReadable ==
  \A c \in Clients : client[c].pc = "returning" /\ ~past[c].pruned =>
    rows[TaskOf(c)] # NoRow /\ client[c].held \subseteq artifacts[TaskOf(c)]

\* And no prune, of whichever client, takes the session of a run without
\* need: other clients of the group ran other tasks during the run, and at
\* least maxPerKind of them once the run has stored its session.  That no one
\* else runs the same task is assumed; the copy such a client writes back may
\* take the time of update back (see ImplementsSessionStore).
PrunesSpareTheFew ==
  [][\A c \in Clients :
       TaskOf(c) \notin past[c].crowd /\ ~past[c].pruned /\ past'[c].pruned =>
         /\ past[c].crowd # {}
         /\ past[c].wrote => Cardinality(past[c].crowd) >= MaxPerKind]_vars

\* A run can no longer take the store for its own: its session was pruned, or
\* somebody else ran its task too.
Lost == {c \in Clients : past[c].pruned \/ TaskOf(c) \in past[c].crowd}

\* Though a function of the store is several statements, a run finds the
\* store as if its calls were atomic and its task its own, whatever others do
\* in its group, until it is lost: no other client changes its session or its
\* artifacts, and the copy written back after an artifact changes nothing but
\* references an earlier, lost run has left dangling.
Shared == INSTANCE SessionStore WITH task <- [c \in Clients |-> TaskOf(c)], lost <- Lost

ImplementsSessionStore == Shared!Spec
=============================================================================

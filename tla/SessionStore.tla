---------------------------- MODULE SessionStore ----------------------------
(***************************************************************************)
(* What a run of a task takes for granted of the session store.  Every     *)
(* call of the store is one step; nobody but the run changes its session   *)
(* and its artifacts; an update stores a session that names all artifacts  *)
(* of its task; and what is pruned are the oldest sessions of a group.     *)
(* A run whose own session is pruned, or whose task another client begins  *)
(* to run as well, is lost: from then on it may store its session in any   *)
(* state whatever.                                                         *)
(***************************************************************************)
EXTENDS Naturals, FiniteSets

CONSTANTS Clients, Tasks, Groups, GroupOf, Names, MaxPerKind, NoTask, NoRow

VARIABLES
  rows,       \* the stored sessions
  artifacts,  \* the names of the stored artifacts of each task
  clock,
  task,       \* the task each client runs
  lost        \* the clients whose run cannot take the store for granted

vars == <<rows, artifacts, clock, task, lost>>

Init ==
  /\ rows = [t \in Tasks |-> NoRow]
  /\ artifacts = [t \in Tasks |-> {}]
  /\ clock = 0
  /\ task = [c \in Clients |-> NoTask]
  /\ lost = {}

Runs(c)    == task[c] # NoTask
RunsOf(t)  == {c \in Clients : task[c] = t}
Stored(g)  == {t \in Tasks : rows[t] # NoRow /\ GroupOf[t] = g}

StoreSession(t, names) == rows' = [rows EXCEPT ![t] = [stamp |-> clock, steps |-> names]]

\* A run begins, with a new task or with a stored one.
Begin(c, t) ==
  /\ ~Runs(c)
  /\ task' = [task EXCEPT ![c] = t]
  /\ lost' = IF RunsOf(t) = {} THEN lost ELSE lost \cup RunsOf(t) \cup {c}
  /\ IF rows[t] = NoRow THEN artifacts[t] = {} /\ StoreSession(t, {}) ELSE UNCHANGED rows
  /\ UNCHANGED <<artifacts, clock>>

Update(c) ==
  /\ Runs(c) /\ c \notin lost
  /\ StoreSession(task[c], artifacts[task[c]])
  /\ UNCHANGED <<artifacts, clock, task, lost>>

Put(c, a) ==
  /\ Runs(c)
  /\ rows[task[c]] # NoRow
  /\ artifacts' = [artifacts EXCEPT ![task[c]] = @ \cup {a}]
  /\ UNCHANGED <<rows, clock, task, lost>>

\* References to artifacts that are gone are dropped on the occasion.
Mend(c) ==
  /\ Runs(c) /\ c \notin lost
  /\ rows' = [rows EXCEPT ![task[c]].steps = @ \cap artifacts[task[c]]]
  /\ UNCHANGED <<artifacts, clock, task, lost>>

\* A lost run stores its session, and nothing else.
Stray(c) ==
  /\ Runs(c) /\ c \in lost
  /\ DOMAIN rows' = Tasks /\ rows'[task[c]] # NoRow
  /\ \A t \in Tasks \ {task[c]} : rows'[t] = rows[t]
  /\ UNCHANGED <<artifacts, clock, task, lost>>

\* The limit leaves the newest of a group.
Prune(g) ==
  \E gone \in SUBSET Stored(g) :
    LET kept == Stored(g) \ gone IN
      /\ Cardinality(kept) = MaxPerKind
      /\ \A u \in kept, t \in gone : rows[u].stamp >= rows[t].stamp
      /\ rows' = [t \in Tasks |-> IF t \in gone THEN NoRow ELSE rows[t]]
      /\ artifacts' = [t \in Tasks |-> IF t \in gone THEN {} ELSE artifacts[t]]
      /\ lost' = lost \cup UNION {RunsOf(t) : t \in gone}
      /\ UNCHANGED <<clock, task>>

\* A run is over, or dies.
End(c) ==
  /\ Runs(c)
  /\ task' = [task EXCEPT ![c] = NoTask]
  /\ lost' = lost \ {c}
  /\ clock' > clock
  /\ UNCHANGED <<rows, artifacts>>

Tick == clock' > clock /\ UNCHANGED <<rows, artifacts, task, lost>>

Next ==
  \/ \E c \in Clients :
       \/ \E t \in Tasks : Begin(c, t)
       \/ Update(c) \/ Mend(c) \/ Stray(c)
       \/ \E a \in Names : Put(c, a)
       \/ End(c)
  \/ \E g \in Groups : Prune(g)
  \/ Tick

Spec == Init /\ [][Next]_vars
=============================================================================

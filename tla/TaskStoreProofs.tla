-------------------------- MODULE TaskStoreProofs --------------------------
(***************************************************************************)
(* What holds of the shared store for any number of clients, tasks, groups *)
(* and artifacts, any maxPerKind, and with or without shared tasks.        *)
(***************************************************************************)
EXTENDS TaskStore, FiniteSetTheorems, TLAPS

\* A run holds a task of its client's kind, and owes a prune only while it is
\* neither idle nor about to return; a client without a run holds nothing.
RunsHoldTasks ==
  \A c \in Clients :
    /\ client[c].pc # "idle" => TaskOf(c) \in Tasks /\ GroupOf[TaskOf(c)] = KindOf[c]
    /\ client[c].pc = "idle" => TaskOf(c) = NoTask /\ past[c] = Blank
    /\ client[c].pc \in {"idle", "returning"} => c \notin owing
    /\ client[c].pc \in {"read-back", "rewrite"} => client[c].name \in Names

Typed == TypeOK /\ RunsHoldTasks

LEMMA TypedInit == Init => Typed
  BY BoundsAssumption DEF Init, Typed, TypeOK, RunsHoldTasks, TaskOf, Idle, Run, Blank, Past

\* A run that meets others changes what is known of runs, not of idle clients.
LEMMA MeetKeepsTypes ==
  ASSUME Typed, NEW c \in Clients, NEW t \in Tasks, NEW w \in BOOLEAN, Meet(c, t, w)
  PROVE  /\ past' \in [Clients -> Past]
         /\ \A d \in Clients \ {c} : client[d].pc = "idle" => past'[d] = past[d]
<1> DEFINE met(d) == IF d = c THEN [Blank EXCEPT !.crowd = {TaskOf(e) : e \in Company(c)}, !.wrote = w]
                     ELSE IF d \in Company(c) THEN [past[d] EXCEPT !.crowd = @ \cup {t}]
                     ELSE past[d]
<1>1. past' = [d \in Clients |-> met(d)]
  BY DEF Meet
<1>2. {TaskOf(e) : e \in Company(c)} \subseteq Tasks
  BY DEF Company, Typed, RunsHoldTasks
<1>3. ASSUME NEW d \in Clients PROVE met(d) \in Past
  <2>1. [Blank EXCEPT !.crowd = {TaskOf(e) : e \in Company(c)}, !.wrote = w] \in Past
    BY <1>2 DEF Blank, Past
  <2>2. past[d] \in Past /\ [past[d] EXCEPT !.crowd = @ \cup {t}] \in Past
    BY DEF Typed, TypeOK, Past
  <2>3. QED
    BY <2>1, <2>2
<1>4. \A d \in Clients \ {c} : client[d].pc = "idle" => met(d) = past[d]
  BY DEF Company
<1> HIDE DEF met
<1>5. QED
  BY <1>1, <1>3, <1>4

LEMMA RunsNext == Typed /\ [Next]_vars => RunsHoldTasks'
<1> SUFFICES ASSUME Typed, [Next]_vars PROVE RunsHoldTasks'
  OBVIOUS
<1> USE DEF Typed, TypeOK, RunsHoldTasks, TaskOf
<1>1. ASSUME NEW c \in Clients, NEW t \in Tasks, Create(c, t) \/ Resume(c, t) PROVE RunsHoldTasks'
  <2>1. \A d \in Clients \ {c} : client[d].pc = "idle" => past'[d] = past[d]
    BY <1>1, MeetKeepsTypes DEF Create, Resume
  <2>2. CASE Create(c, t)
    BY <2>1, <2>2 DEF Create, Persist, Idle, Run
  <2>3. CASE Resume(c, t)
    BY <2>1, <2>3 DEF Resume, Idle, Run
  <2>4. QED
    BY <1>1, <2>2, <2>3
<1>2. ASSUME NEW c \in Clients, \E last \in BOOLEAN : Update(c, last) PROVE RunsHoldTasks'
  BY <1>2 DEF Update, Persist, Run
<1>3. ASSUME NEW c \in Clients, Prune(c) PROVE RunsHoldTasks'
  <2>1. \A d \in Clients : TaskOf(d) \notin Tasks => past'[d] = past[d]
    BY <1>3 DEF Prune, Stored
  <2>2. \A d \in Clients : client[d].pc = "idle" => past'[d] = past[d]
    BY <2>1, TasksAssumption DEF NoTask
  <2>3. QED
    BY <1>3, <2>2 DEF Prune, Run
<1>4. ASSUME NEW c \in Clients, (\E a \in Names : PutArtifact(c, a)) \/ ReadBack(c) \/ Rewrite(c)
      PROVE  RunsHoldTasks'
  <2>1. CASE \E a \in Names : PutArtifact(c, a)
    BY <2>1 DEF PutArtifact, Run
  <2>2. CASE ReadBack(c)
    BY <2>2 DEF ReadBack, Run
  <2>3. CASE Rewrite(c)
    <3>1. owing' \subseteq owing \cup {c} /\ past' = past
      BY <2>3 DEF Rewrite, Persist
    <3>2. client' = [client EXCEPT ![c] = client'[c]] /\ client'[c].pc = "ready"
          /\ client'[c].task = client[c].task /\ client[c].pc = "rewrite"
      BY <2>3 DEF Rewrite, Idle
    <3>3. QED
      BY <3>1, <3>2
  <2>4. QED
    BY <1>4, <2>1, <2>2, <2>3
<1>5. ASSUME NEW c \in Clients, Return(c) \/ Die(c) PROVE RunsHoldTasks'
  BY <1>5 DEF Return, Die, Leave, Idle, Run
<1>6. CASE Tick \/ UNCHANGED vars
  BY <1>6 DEF Tick, vars
<1>7. QED
  BY <1>1, <1>2, <1>3, <1>4, <1>5, <1>6 DEF Next, Step

LEMMA PastUpdated == \A p \in Past : [p EXCEPT !.wrote = TRUE] \in Past /\ [p EXCEPT !.pruned = TRUE] \in Past
  BY DEF Past

LEMMA TypesNext == Typed /\ [Next]_vars => TypeOK'
<1> SUFFICES ASSUME Typed, [Next]_vars PROVE TypeOK'
  OBVIOUS
<1> USE BoundsAssumption DEF Typed, TypeOK
<1>a. ASSUME NEW c \in Clients, NEW pc \in {"ready", "prune", "prune-last", "returning"},
             client' = [client EXCEPT ![c].pc = pc]
      PROVE  client' \in [Clients -> Run]
  BY <1>a DEF Run
<1>1. ASSUME NEW c \in Clients, NEW t \in Tasks, Create(c, t) PROVE TypeOK'
  <2>1. client' \in [Clients -> Run]
    BY <1>1 DEF Create, Idle, Run
  <2>2. [stamp |-> clock, steps |-> {}] \in Row
    BY DEF Row
  <2>3. rows' \in [Tasks -> Row \cup {NoRow}] /\ owing' \subseteq Clients
    BY <1>1, <2>2 DEF Create, Persist
  <2>4. past' \in [Clients -> Past]
    BY <1>1, MeetKeepsTypes DEF Create
  <2>5. QED
    BY <1>1, <2>1, <2>3, <2>4 DEF Create
<1>2. ASSUME NEW c \in Clients, NEW t \in Tasks, Resume(c, t) PROVE TypeOK'
  <2>1. past' \in [Clients -> Past]
    BY <1>2, MeetKeepsTypes DEF Resume
  <2>2. client' \in [Clients -> Run]
    BY <1>2 DEF Resume, Idle, Run
  <2>3. QED
    BY <1>2, <2>1, <2>2 DEF Resume
<1>3. ASSUME NEW c \in Clients, NEW last \in BOOLEAN, Update(c, last) PROVE TypeOK'
  <2>1. client' \in [Clients -> Run]
    BY <1>3, <1>a DEF Update
  <2>2. [stamp |-> clock, steps |-> client[c].held] \in Row
    BY DEF Row, Run
  <2>3. rows' \in [Tasks -> Row \cup {NoRow}] /\ owing' \subseteq Clients
    BY <1>3, <2>2 DEF Update, Persist
  <2>4. past' \in [Clients -> Past]
    <3>1. [past[c] EXCEPT !.wrote = TRUE] \in Past
      BY PastUpdated
    <3>2. past' = [past EXCEPT ![c] = [past[c] EXCEPT !.wrote = TRUE]]
      BY <1>3 DEF Update
    <3>3. QED
      BY <3>1, <3>2
  <2>5. QED
    BY <1>3, <2>1, <2>3, <2>4 DEF Update
<1>4. ASSUME NEW c \in Clients, Prune(c) PROVE TypeOK'
  <2>1. client' \in [Clients -> Run]
    BY <1>4, <1>a DEF Prune
  <2>2. rows' \in [Tasks -> Row \cup {NoRow}] /\ artifacts' \in [Tasks -> SUBSET Names]
    BY <1>4 DEF Prune
  <2>3. past' \in [Clients -> Past]
    <3>1. PICK gone \in SUBSET Tasks :
            past' = [d \in Clients |-> IF TaskOf(d) \in gone THEN [past[d] EXCEPT !.pruned = TRUE]
                                     ELSE past[d]]
      BY <1>4 DEF Prune, Stored
    <3>2. \A d \in Clients : past[d] \in Past /\ [past[d] EXCEPT !.pruned = TRUE] \in Past
      BY PastUpdated
    <3>3. QED
      BY <3>1, <3>2
  <2>4. QED
    BY <1>4, <2>1, <2>2, <2>3 DEF Prune
<1>5. ASSUME NEW c \in Clients, NEW a \in Names, PutArtifact(c, a) PROVE TypeOK'
  <2>1. client' \in [Clients -> Run]
    BY <1>5 DEF PutArtifact, Run
  <2>2. artifacts' \in [Tasks -> SUBSET Names]
    BY <1>5 DEF PutArtifact
  <2>3. QED
    BY <1>5, <2>1, <2>2 DEF PutArtifact
<1>6. ASSUME NEW c \in Clients, ReadBack(c) PROVE TypeOK'
  <2> DEFINE t == TaskOf(c)
             copy == IF rows[t] = NoRow THEN NoRow
                     ELSE [stamp |-> rows[t].stamp,
                           steps |-> rows[t].steps \cap (artifacts[t] \cup {client[c].name})]
  <2>1. t \in Tasks
    BY <1>6 DEF ReadBack, RunsHoldTasks
  <2>2. copy \in Row \cup {NoRow}
    BY <2>1 DEF Row
  <2>3. client' = [client EXCEPT ![c] = [client[c] EXCEPT !.pc = "rewrite", !.copy = copy]]
    BY <1>6 DEF ReadBack
  <2> HIDE DEF copy
  <2>4. [client[c] EXCEPT !.pc = "rewrite", !.copy = copy] \in Run
    BY <2>2 DEF Run
  <2>5. client' \in [Clients -> Run]
    BY <2>3, <2>4
  <2>6. QED
    BY <1>6, <2>5 DEF ReadBack
<1>7. ASSUME NEW c \in Clients, Rewrite(c) PROVE TypeOK'
  <2>1. client' \in [Clients -> Run]
    <3> DEFINE next == [Idle EXCEPT !.pc = "ready", !.task = TaskOf(c),
                                    !.held = client[c].held \cup {client[c].name}]
    <3>1. client[c].name \in Names
      BY <1>7 DEF Rewrite, RunsHoldTasks
    <3>2. next \in Run
      BY <1>7, <3>1 DEF Rewrite, Run, Idle, RunsHoldTasks
    <3>3. client' = [client EXCEPT ![c] = next]
      BY <1>7 DEF Rewrite
    <3> HIDE DEF next
    <3>4. QED
      BY <3>2, <3>3
  <2>2. client[c].copy \in Row \cup {NoRow}
    BY DEF Run
  <2>3. rows' \in [Tasks -> Row \cup {NoRow}] /\ owing' \subseteq Clients
    BY <1>7, <2>2 DEF Rewrite, Persist
  <2>4. QED
    BY <1>7, <2>1, <2>3 DEF Rewrite
<1>8. ASSUME NEW c \in Clients, Return(c) \/ Die(c) PROVE TypeOK'
  <2>1. past' \in [Clients -> Past]
    <3>1. Blank \in Past
      BY DEF Blank, Past
    <3>2. past' = [past EXCEPT ![c] = Blank]
      BY <1>8 DEF Return, Die, Leave
    <3>3. QED
      BY <3>1, <3>2
  <2>2. QED
    BY <1>8, <2>1 DEF Return, Die, Leave, Idle, Run
<1>9. CASE Tick
  BY <1>9 DEF Tick
<1>10. CASE UNCHANGED vars
  BY <1>10 DEF vars
<1>11. QED
  BY <1>1, <1>2, <1>3, <1>4, <1>5, <1>6, <1>7, <1>8, <1>9, <1>10 DEF Next, Step

LEMMA AlwaysTyped == Spec => []Typed
<1>1. Typed /\ [Next]_vars => Typed'
  BY RunsNext, TypesNext DEF Typed
<1>2. QED
  BY <1>1, TypedInit, PTL DEF Spec

\* Every variable of the store keeps its type.
THEOREM StoreTypeCorrect == Spec => []TypeOK
<1>1. Typed => TypeOK
  BY DEF Typed
<1>2. QED
  BY <1>1, AlwaysTyped, PTL

-----------------------------------------------------------------------------
(* Retention.  What is bounded inductively are the rows that no running    *)
(* client still owes a prune for: a prune leaves at most maxPerKind rows   *)
(* of its group, a write adds a row only to those owed, a death adds one.  *)

Owed == {TaskOf(c) : c \in owing}

UnowedBounded ==
  \A g \in Groups : Cardinality(Stored(g) \ Owed) <= MaxPerKind + deaths

LEMMA StoredFinite == \A g : IsFiniteSet(Stored(g)) /\ IsFiniteSet(Stored(g) \ Owed)
  BY TasksAssumption, FS_Subset DEF Stored

LEMMA StoredFiniteNext == \A g : IsFiniteSet((Stored(g) \ Owed)')
  BY TasksAssumption, FS_Subset DEF Stored

\* A set of stored rows that only shrinks is bounded as before.
LEMMA ShrinkBounded ==
  ASSUME UnowedBounded, TypeOK, TypeOK', deaths' = deaths,
         \A g \in Groups : (Stored(g) \ Owed)' \subseteq Stored(g) \ Owed
  PROVE  UnowedBounded'
<1> SUFFICES ASSUME NEW g \in Groups
             PROVE  Cardinality((Stored(g) \ Owed)') <= MaxPerKind + deaths'
  BY DEF UnowedBounded
<1>1. Cardinality((Stored(g) \ Owed)') <= Cardinality(Stored(g) \ Owed)
  BY StoredFinite, FS_Subset
<1>2. Cardinality((Stored(g) \ Owed)') \in Nat /\ Cardinality(Stored(g) \ Owed) \in Nat
  BY StoredFinite, FS_Subset, FS_CardinalityType
<1>3. QED
  BY <1>1, <1>2, MaxPerKindAssumption, BoundsAssumption DEF UnowedBounded, TypeOK

LEMMA UnowedInit == Init => UnowedBounded
<1> SUFFICES ASSUME Init, NEW g \in Groups PROVE Cardinality(Stored(g) \ Owed) <= MaxPerKind + deaths
  BY DEF UnowedBounded
<1>1. Stored(g) \ Owed = {}
  BY DEF Init, Stored
<1>2. QED
  BY <1>1, FS_EmptySet, MaxPerKindAssumption DEF Init

LEMMA UnowedNext == Typed /\ Typed' /\ UnowedBounded /\ [Next]_vars => UnowedBounded'
<1> SUFFICES ASSUME Typed, Typed', UnowedBounded, [Next]_vars PROVE UnowedBounded'
  OBVIOUS
<1>t. TypeOK /\ TypeOK'
  BY DEF Typed
<1>w. ASSUME NEW c \in Clients, NEW t \in Tasks, NEW row, Persist(c, t, row), TaskOf(c)' = t,
             TaskOf(c) = t \/ c \notin owing,
             \A d \in Clients \ {c} : TaskOf(d)' = TaskOf(d), deaths' = deaths
      PROVE  UnowedBounded'
  <2>1. \A g \in Groups : (Stored(g) \ Owed)' \subseteq Stored(g) \ Owed
    BY <1>t, <1>w DEF Persist, Stored, Owed, TypeOK
  <2>2. QED
    BY <1>t, <1>w, <2>1, ShrinkBounded
<1>s. ASSUME UNCHANGED <<rows, owing, deaths>>, \A d \in owing : TaskOf(d)' = TaskOf(d)
      PROVE  UnowedBounded'
  <2>1. \A g \in Groups : (Stored(g) \ Owed)' \subseteq Stored(g) \ Owed
    BY <1>s DEF Stored, Owed
  <2>2. QED
    BY <1>t, <1>s, <2>1, ShrinkBounded
<1>1. ASSUME NEW c \in Clients, NEW t \in Tasks, Create(c, t) PROVE UnowedBounded'
  BY <1>1, <1>w, <1>t DEF Create, Idle, TaskOf, Typed, RunsHoldTasks, TypeOK
<1>2. ASSUME NEW c \in Clients, NEW t \in Tasks, Resume(c, t) PROVE UnowedBounded'
  BY <1>2, <1>s, <1>t DEF Resume, TaskOf, Typed, RunsHoldTasks, TypeOK
<1>3. ASSUME NEW c \in Clients, NEW last \in BOOLEAN, Update(c, last) PROVE UnowedBounded'
  <2>1. TaskOf(c) \in Tasks /\ \A d \in Clients : TaskOf(d)' = TaskOf(d)
    BY <1>3, <1>t DEF Update, TaskOf, Typed, RunsHoldTasks, TypeOK, Run
  <2>2. QED
    BY <1>3, <1>w, <2>1 DEF Update
<1>4. ASSUME NEW c \in Clients, Prune(c) PROVE UnowedBounded'
  <2> DEFINE own == GroupOf[TaskOf(c)]
  <2>1. PICK kept \in SUBSET Stored(own) :
          /\ Newest(kept, Stored(own))
          /\ rows' = [t \in Tasks |-> IF t \in Stored(own) \ kept THEN NoRow ELSE rows[t]]
    BY <1>4 DEF Prune
  <2>2. owing' = owing \ {c} /\ deaths' = deaths /\ \A d \in Clients : TaskOf(d)' = TaskOf(d)
    BY <1>4, <1>t DEF Prune, TaskOf, TypeOK, Run
  <2>3. SUFFICES ASSUME NEW g \in Groups
                 PROVE  Cardinality((Stored(g) \ Owed)') <= MaxPerKind + deaths'
    BY DEF UnowedBounded
  <2>4. Cardinality((Stored(g) \ Owed)') \in Nat /\ Cardinality(Stored(g) \ Owed) \in Nat
    BY StoredFiniteNext, StoredFinite, FS_CardinalityType
  <2>5. CASE g = own
    <3>1. (Stored(g) \ Owed)' \subseteq kept
      BY <2>1, <2>5 DEF Stored
    <3>2. IsFiniteSet(kept)
      BY StoredFinite, FS_Subset
    <3>3. Cardinality((Stored(g) \ Owed)') <= Cardinality(kept) /\ Cardinality(kept) \in Nat
      BY <3>1, <3>2, FS_Subset, FS_CardinalityType
    <3>4. QED
      BY <1>t, <2>1, <2>2, <2>4, <3>3, MaxPerKindAssumption, BoundsAssumption DEF Newest, TypeOK
  <2>6. CASE g # own
    <3>1. (Stored(g) \ Owed)' \subseteq Stored(g) \ Owed
      BY <1>t, <2>1, <2>2, <2>6 DEF Stored, Owed, TypeOK
    <3>2. Cardinality((Stored(g) \ Owed)') <= Cardinality(Stored(g) \ Owed)
      BY <3>1, StoredFinite, FS_Subset
    <3>3. QED
      BY <1>t, <2>2, <2>4, <3>2, MaxPerKindAssumption, BoundsAssumption DEF UnowedBounded, TypeOK
  <2>7. QED
    BY <2>5, <2>6
<1>5. ASSUME NEW c \in Clients, (\E a \in Names : PutArtifact(c, a)) \/ ReadBack(c) PROVE UnowedBounded'
  <2>1. CASE \E a \in Names : PutArtifact(c, a)
    BY <2>1, <1>s, <1>t DEF PutArtifact, TaskOf, TypeOK, Run
  <2>2. CASE ReadBack(c)
    BY <2>2, <1>s, <1>t DEF ReadBack, TaskOf, TypeOK, Run
  <2>3. QED
    BY <1>5, <2>1, <2>2
<1>6. ASSUME NEW c \in Clients, Rewrite(c) PROVE UnowedBounded'
  <2>1. TaskOf(c) \in Tasks /\ \A d \in Clients : TaskOf(d)' = TaskOf(d)
    BY <1>6, <1>t DEF Rewrite, TaskOf, Typed, RunsHoldTasks, TypeOK, Idle
  <2>2. CASE UNCHANGED <<rows, owing>>
    BY <1>6, <1>t, <1>s, <2>1, <2>2 DEF Rewrite, TypeOK
  <2>3. CASE Persist(c, TaskOf(c), client[c].copy)
    BY <1>6, <1>w, <2>1, <2>3 DEF Rewrite
  <2>4. QED
    BY <1>6, <2>2, <2>3 DEF Rewrite
<1>7. ASSUME NEW c \in Clients, Return(c) PROVE UnowedBounded'
  BY <1>7, <1>s, <1>t DEF Return, Leave, TaskOf, Typed, RunsHoldTasks, TypeOK
<1>8. ASSUME NEW c \in Clients, Die(c) PROVE UnowedBounded'
  <2>1. SUFFICES ASSUME NEW g \in Groups
                 PROVE  Cardinality((Stored(g) \ Owed)') <= MaxPerKind + deaths'
    BY DEF UnowedBounded
  <2> DEFINE old == Stored(g) \ Owed
  <2>2. (Stored(g) \ Owed)' \subseteq old \cup {TaskOf(c)}
    BY <1>8, <1>t DEF Die, Leave, Stored, Owed, TaskOf, TypeOK, Run
  <2>3. IsFiniteSet(old) /\ IsFiniteSet(old \cup {TaskOf(c)})
        /\ Cardinality(old \cup {TaskOf(c)}) <= Cardinality(old) + 1
    <3>1. IsFiniteSet(old) /\ Cardinality(old) \in Nat
      BY StoredFinite, FS_CardinalityType
    <3> HIDE DEF old
    <3>2. /\ IsFiniteSet(old \cup {TaskOf(c)})
          /\ Cardinality(old \cup {TaskOf(c)}) = IF TaskOf(c) \in old THEN Cardinality(old)
                                                ELSE Cardinality(old) + 1
      BY <3>1, FS_AddElement, Zenon
    <3>3. QED
      BY <3>1, <3>2
  <2>4. Cardinality((Stored(g) \ Owed)') <= Cardinality(old \cup {TaskOf(c)})
    BY <2>2, <2>3, FS_Subset
  <2>5. Cardinality((Stored(g) \ Owed)') \in Nat /\ Cardinality(old) \in Nat
        /\ Cardinality(old \cup {TaskOf(c)}) \in Nat
    BY <2>3, StoredFiniteNext, FS_CardinalityType
  <2>6. Cardinality(old) <= MaxPerKind + deaths /\ deaths' = deaths + 1
    BY <1>8 DEF UnowedBounded, Die
  <2> HIDE DEF old
  <2>7. QED
    BY <1>t, <2>3, <2>4, <2>5, <2>6, MaxPerKindAssumption, BoundsAssumption DEF TypeOK
<1>9. CASE Tick
  BY <1>9, <1>s DEF Tick, TaskOf
<1>10. CASE UNCHANGED vars
  BY <1>10, <1>s DEF vars, TaskOf
<1>11. QED
  BY <1>1, <1>2, <1>3, <1>4, <1>5, <1>6, <1>7, <1>8, <1>9, <1>10 DEF Next, Step

\* Never more rows in a group than maxPerKind, the runs of the group between
\* a write and its prune, and the runs that died.
THEOREM RetentionIsBounded == Spec => []RetentionBounded
<1>1. Spec => []UnowedBounded
  BY UnowedInit, UnowedNext, AlwaysTyped, PTL DEF Spec
<1>2. Typed /\ UnowedBounded => RetentionBounded
  <2> SUFFICES ASSUME Typed, UnowedBounded, NEW g \in Groups
               PROVE  Cardinality(Stored(g)) <= MaxPerKind + Cardinality(Owing(g)) + deaths
    BY DEF RetentionBounded
  <2> DEFINE taskOf == [c \in Owing(g) |-> TaskOf(c)]
             owed   == {TaskOf(c) : c \in Owing(g)}
             others == Stored(g) \ Owed
  <2>1. IsFiniteSet(Owing(g))
    BY ClientsAssumption, FS_Subset DEF Owing, Typed, TypeOK
  <2>2. taskOf \in Surjection(Owing(g), owed)
    BY DEF Surjection
  <2>3. IsFiniteSet(owed) /\ Cardinality(owed) <= Cardinality(Owing(g))
    BY <2>1, <2>2, FS_Surjection
  <2>4. Stored(g) \subseteq others \cup owed
    BY DEF Stored, Owed, Owing, Typed, TypeOK, RunsHoldTasks
  <2> HIDE DEF owed, taskOf, others
  <2>5. IsFiniteSet(others) /\ Cardinality(others) <= MaxPerKind + deaths
    BY StoredFinite DEF UnowedBounded, others
  <2>6. /\ Cardinality(others \cup owed) <= Cardinality(others) + Cardinality(owed)
        /\ IsFiniteSet(others \cup owed)
    <3>1. IsFiniteSet(others \cap owed)
      BY <2>5, FS_Subset
    <3>2. /\ Cardinality(others \cap owed) \in Nat /\ Cardinality(others) \in Nat
          /\ Cardinality(owed) \in Nat
      BY <2>3, <2>5, <3>1, FS_CardinalityType
    <3>3. /\ IsFiniteSet(others \cup owed)
          /\ Cardinality(others \cup owed)
               = Cardinality(others) + Cardinality(owed) - Cardinality(others \cap owed)
      BY <2>3, <2>5, FS_Union, Zenon
    <3>4. QED
      BY <3>2, <3>3
  <2>7. Cardinality(Stored(g)) <= Cardinality(others \cup owed)
    BY <2>4, <2>6, FS_Subset
  <2>8. /\ Cardinality(Stored(g)) \in Nat /\ Cardinality(others) \in Nat
        /\ Cardinality(owed) \in Nat /\ Cardinality(Owing(g)) \in Nat
        /\ Cardinality(others \cup owed) \in Nat /\ deaths \in Nat
    <3>1. deaths \in Nat
      BY BoundsAssumption DEF Typed, TypeOK
    <3>2. QED
      BY <2>1, <2>3, <2>5, <2>6, <3>1, StoredFinite, FS_CardinalityType
  <2>9. QED
    BY <2>3, <2>5, <2>6, <2>7, <2>8, MaxPerKindAssumption
<1>3. QED
  BY <1>1, <1>2, AlwaysTyped, PTL

-----------------------------------------------------------------------------
(* What a run may rely on in a group it shares with any number of others.  *)
(* A step is that of one client: the others stay where they are, and of    *)
(* the rows, that of the task it runs changes, or a prune takes some.      *)

Runs(c) == client[c].pc # "idle"

\* What the step of a client does to the others and to what is stored.
Taken(u) ==
  /\ rows'[u] = NoRow /\ artifacts'[u] = {}
  /\ \A d \in Clients : TaskOf(d) = u => past'[d].pruned

LEMMA OneMoves ==
  ASSUME Typed, NEW c \in Clients, Step(c)
  PROVE  /\ \A d \in Clients \ {c} :
              /\ client'[d] = client[d] /\ past'[d].wrote = past[d].wrote
              /\ past[d].crowd \subseteq past'[d].crowd
              /\ past[d].pruned => past'[d].pruned
         /\ \A u \in Tasks :
              \/ rows'[u] = rows[u] /\ artifacts'[u] = artifacts[u]
              \/ Runs(c)' /\ u = TaskOf(c)'
              \/ Taken(u)
         /\ clock' \in Nat /\ clock \in Nat /\ clock <= clock'
<1>t. /\ client \in [Clients -> Run] /\ rows \in [Tasks -> Row \cup {NoRow}] /\ clock \in Nat
      /\ artifacts \in [Tasks -> SUBSET Names] /\ past \in [Clients -> Past]
  BY BoundsAssumption DEF Typed, TypeOK
<1>b. \A d \in Clients : past[d] = [crowd |-> past[d].crowd, wrote |-> past[d].wrote, pruned |-> past[d].pruned]
  BY <1>t DEF Past
<1>m. ASSUME NEW t \in Tasks, NEW w \in BOOLEAN, Meet(c, t, w)
      PROVE  \A d \in Clients \ {c} :
               /\ past'[d].wrote = past[d].wrote /\ past[d].crowd \subseteq past'[d].crowd
               /\ past'[d].pruned = past[d].pruned
  <2> SUFFICES ASSUME NEW d \in Clients \ {c}
               PROVE  /\ past'[d].wrote = past[d].wrote /\ past[d].crowd \subseteq past'[d].crowd
                      /\ past'[d].pruned = past[d].pruned
    OBVIOUS
  <2>1. past'[d] = IF d \in Company(c) THEN [past[d] EXCEPT !.crowd = @ \cup {t}] ELSE past[d]
    BY <1>m DEF Meet
  <2>2. QED
    BY <1>t, <2>1 DEF Past
<1>1. CASE \E t \in Tasks : Create(c, t) \/ Resume(c, t)
  <2>1. PICK t \in Tasks : Create(c, t) \/ Resume(c, t)
    BY <1>1
  <2>2. /\ \A d \in Clients \ {c} : client'[d] = client[d]
        /\ Runs(c)' /\ TaskOf(c)' = t /\ UNCHANGED <<artifacts, clock>>
        /\ \A u \in Tasks \ {t} : rows'[u] = rows[u]
    BY <1>t, <2>1 DEF Create, Resume, Persist, Idle, Runs, TaskOf
  <2>3. \E w \in BOOLEAN : Meet(c, t, w)
    BY <2>1 DEF Create, Resume
  <2>4. QED
    BY <1>m, <1>t, <2>2, <2>3
<1>2. CASE \E last \in BOOLEAN : Update(c, last)
  <2>1. /\ \A d \in Clients \ {c} : client'[d] = client[d] /\ past'[d] = past[d]
        /\ Runs(c)' /\ TaskOf(c)' = TaskOf(c) /\ UNCHANGED <<artifacts, clock>>
        /\ \A u \in Tasks \ {TaskOf(c)} : rows'[u] = rows[u]
    BY <1>2, <1>t DEF Update, Persist, Runs, TaskOf, Run
  <2>2. QED
    BY <1>t, <2>1
<1>3. CASE Prune(c)
  <2> DEFINE all == Stored(GroupOf[TaskOf(c)])
  <2>1. PICK kept \in SUBSET all :
          /\ rows' = [t \in Tasks |-> IF t \in all \ kept THEN NoRow ELSE rows[t]]
          /\ artifacts' = [t \in Tasks |-> IF t \in all \ kept THEN {} ELSE artifacts[t]]
          /\ past' = [d \in Clients |-> IF TaskOf(d) \in all \ kept
                                      THEN [past[d] EXCEPT !.pruned = TRUE] ELSE past[d]]
    BY <1>3 DEF Prune
  <2>2. (\A d \in Clients \ {c} : client'[d] = client[d]) /\ UNCHANGED clock
    BY <1>3, <1>t DEF Prune, Run
  <2> HIDE DEF all
  <2>3. \A d \in Clients : /\ past'[d].wrote = past[d].wrote /\ past'[d].crowd = past[d].crowd
                           /\ past[d].pruned \/ TaskOf(d) \in all \ kept => past'[d].pruned
    <3> SUFFICES ASSUME NEW d \in Clients
                 PROVE  /\ past'[d].wrote = past[d].wrote /\ past'[d].crowd = past[d].crowd
                        /\ past[d].pruned \/ TaskOf(d) \in all \ kept => past'[d].pruned
      OBVIOUS
    <3>1. CASE TaskOf(d) \in all \ kept
      <4>1. past'[d] = [past[d] EXCEPT !.pruned = TRUE] /\ past[d] \in Past
        BY <1>t, <2>1, <3>1
      <4>2. QED
        BY <3>1, <4>1 DEF Past
    <3>2. CASE TaskOf(d) \notin all \ kept
      <4>1. past'[d] = past[d] /\ past[d].pruned \in BOOLEAN
        BY <1>t, <2>1, <3>2 DEF Past
      <4>2. QED
        BY <3>2, <4>1
    <3>3. QED
      BY <3>1, <3>2
  <2>4. \A u \in Tasks : (rows'[u] = rows[u] /\ artifacts'[u] = artifacts[u]) \/ Taken(u)
    BY <2>1, <2>3 DEF Taken
  <2>5. QED
    BY <1>t, <2>2, <2>3, <2>4
<1>4. CASE (\E a \in Names : PutArtifact(c, a)) \/ ReadBack(c) \/ Rewrite(c)
  <2>1. /\ \A d \in Clients \ {c} : client'[d] = client[d]
        /\ Runs(c)' /\ TaskOf(c)' = TaskOf(c) /\ UNCHANGED <<past, clock>>
    <3>1. CASE \E a \in Names : PutArtifact(c, a)
      BY <1>t, <3>1 DEF PutArtifact, Runs, TaskOf, Run
    <3>2. CASE ReadBack(c)
      BY <1>t, <3>2 DEF ReadBack, Runs, TaskOf, Run
    <3>3. CASE Rewrite(c)
      BY <1>t, <3>3 DEF Rewrite, Runs, TaskOf, Idle
    <3>4. QED
      BY <1>4, <3>1, <3>2, <3>3
  <2>2. \A u \in Tasks \ {TaskOf(c)} : rows'[u] = rows[u] /\ artifacts'[u] = artifacts[u]
    BY <1>4, <1>t DEF PutArtifact, ReadBack, Rewrite, Persist
  <2>3. QED
    BY <1>t, <2>1, <2>2
<1>5. CASE Return(c) \/ Die(c)
  BY <1>5, <1>t DEF Return, Die, Leave
<1>6. QED
  BY <1>1, <1>2, <1>3, <1>4, <1>5 DEF Step

\* The rows and the runs.  What a run holds is stored as long as no prune has
\* taken its session; an artifact without its session is never stored.
KeptRow(u) ==
  IF rows[u] = NoRow THEN artifacts[u] = {} ELSE u \in known /\ rows[u].stamp <= clock

KeptRun(c) ==
  Runs(c) =>
    /\ TaskOf(c) \in known
    /\ client[c].pc = "rewrite" /\ client[c].copy # NoRow => client[c].copy.stamp <= clock
    /\ ~past[c].pruned =>
         /\ rows[TaskOf(c)] # NoRow
         /\ client[c].held \subseteq artifacts[TaskOf(c)]
         /\ client[c].pc \in {"read-back", "rewrite"} => client[c].name \in artifacts[TaskOf(c)]

KeptInv == (\A u \in Tasks : KeptRow(u)) /\ (\A c \in Clients : KeptRun(c))

LEMMA KeptInit == Init => KeptInv
  BY DEF Init, KeptInv, KeptRow, KeptRun, Runs, Idle

\* The step of a client, from what it does to the task it runs.
LEMMA KeptStep ==
  ASSUME Typed, KeptInv, NEW c \in Clients, Step(c), known \subseteq known', KeptRun(c)',
         NEW t, Runs(c)' => /\ TaskOf(c)' = t /\ t \in Tasks /\ KeptRow(t)'
                            /\ \/ Taken(t)
                               \/ /\ artifacts[t] \subseteq artifacts'[t]
                                  /\ rows[t] # NoRow => rows'[t] # NoRow
  PROVE  KeptInv'
<1>t. /\ rows \in [Tasks -> Row \cup {NoRow}] /\ \A u \in Tasks : rows[u] # NoRow => rows[u].stamp \in Nat
      /\ \A d \in Clients : client[d].copy # NoRow => client[d].copy.stamp \in Nat
  BY DEF Typed, TypeOK, Row, Run
<1>1. ASSUME NEW u \in Tasks PROVE KeptRow(u)'
  <2>1. CASE rows'[u] = rows[u] /\ artifacts'[u] = artifacts[u]
    BY <1>t, <2>1, OneMoves DEF KeptInv, KeptRow
  <2>2. CASE Runs(c)' /\ u = TaskOf(c)'
    BY <2>2
  <2>3. CASE Taken(u)
    BY <2>3 DEF Taken, KeptRow
  <2>4. QED
    BY <2>1, <2>2, <2>3, OneMoves
<1>2. ASSUME NEW d \in Clients \ {c} PROVE KeptRun(d)'
  <2> SUFFICES ASSUME Runs(d)' PROVE KeptRun(d)'
    BY DEF KeptRun
  <2>1. client'[d] = client[d] /\ TaskOf(d)' = TaskOf(d) /\ Runs(d) /\ TaskOf(d) \in Tasks
        /\ (past[d].pruned => past'[d].pruned)
    BY OneMoves DEF TaskOf, Runs, Typed, RunsHoldTasks
  <2>2. KeptRun(d)
    BY DEF KeptInv
  <2>3. \/ past'[d].pruned
        \/ /\ artifacts[TaskOf(d)] \subseteq artifacts'[TaskOf(d)]
           /\ rows[TaskOf(d)] # NoRow => rows'[TaskOf(d)] # NoRow
    BY <2>1, OneMoves DEF Taken
  <2>4. TaskOf(d) \in known'
    BY <2>1, <2>2 DEF KeptRun
  <2>5. client'[d].pc = "rewrite" /\ client'[d].copy # NoRow => client'[d].copy.stamp <= clock'
    BY <1>t, <2>1, <2>2, OneMoves DEF KeptRun
  <2>6. QED
    BY <2>1, <2>2, <2>3, <2>4, <2>5 DEF KeptRun
<1>3. QED
  BY <1>1, <1>2 DEF KeptInv

LEMMA KeptNext == Typed /\ KeptInv /\ [Next]_vars => KeptInv'
<1> SUFFICES ASSUME Typed, KeptInv, [Next]_vars PROVE KeptInv'
  OBVIOUS
<1>t. /\ client \in [Clients -> Run] /\ rows \in [Tasks -> Row \cup {NoRow}] /\ clock \in Nat
      /\ artifacts \in [Tasks -> SUBSET Names] /\ past \in [Clients -> Past]
  BY BoundsAssumption DEF Typed, TypeOK
<1>h. \A c \in Clients : Runs(c) => TaskOf(c) \in Tasks
  BY DEF Typed, RunsHoldTasks, Runs
<1>k. (\A u \in Tasks : KeptRow(u)) /\ \A c \in Clients : KeptRun(c)
  BY DEF KeptInv
<1>s. \A u \in Tasks : rows[u] # NoRow => rows[u].stamp \in Nat
  BY <1>t DEF Row
<1>1. ASSUME NEW c \in Clients, NEW t \in Tasks, Create(c, t) PROVE KeptInv'
  <2>1. /\ rows' = [rows EXCEPT ![t] = [stamp |-> clock, steps |-> {}]]
        /\ known' = known \cup {t} /\ UNCHANGED <<artifacts, clock>>
        /\ client'[c].pc = "prune" /\ client'[c].task = t /\ client'[c].held = {}
    BY <1>1, <1>t DEF Create, Persist, Idle
  <2>2. rows'[t] # NoRow /\ rows'[t].stamp = clock
    BY <1>t, <2>1 DEF NoRow
  <2>3. KeptRow(t)' /\ KeptRun(c)' /\ TaskOf(c)' = t
    BY <1>t, <2>1, <2>2 DEF KeptRow, KeptRun, TaskOf
  <2>4. Step(c)
    BY <1>1 DEF Step
  <2>5. QED
    BY <2>1, <2>2, <2>3, <2>4, KeptStep
<1>2. ASSUME NEW c \in Clients, NEW t \in Tasks, Resume(c, t) PROVE KeptInv'
  <2>1. /\ UNCHANGED <<rows, artifacts, clock, known>> /\ rows[t] # NoRow
        /\ client'[c].pc = "ready" /\ client'[c].task = t /\ client'[c].held = artifacts[t]
    BY <1>2, <1>t DEF Resume, Idle
  <2>2. KeptRow(t)' /\ KeptRun(c)' /\ TaskOf(c)' = t
    BY <1>k, <2>1 DEF KeptRow, KeptRun, TaskOf
  <2>3. Step(c)
    BY <1>2 DEF Step
  <2>4. QED
    BY <2>1, <2>2, <2>3, KeptStep
<1>3. ASSUME NEW c \in Clients, NEW last \in BOOLEAN, Update(c, last) PROVE KeptInv'
  <2> DEFINE t == TaskOf(c)
  <2>1. /\ Runs(c) /\ t \in Tasks /\ UNCHANGED <<artifacts, clock, known>>
        /\ rows' = [rows EXCEPT ![t] = [stamp |-> clock, steps |-> client[c].held]]
        /\ client'[c].pc \in {"prune", "prune-last"} /\ client'[c].task = t
        /\ client'[c].held = client[c].held
    BY <1>3, <1>h, <1>t DEF Update, Persist, Runs, TaskOf, Run
  <2>2. rows'[t] # NoRow /\ rows'[t].stamp = clock
    BY <1>t, <2>1 DEF NoRow
  <2>3. past[c].pruned => past'[c].pruned
    <3>1. past'[c] = [past[c] EXCEPT !.wrote = TRUE] /\ past[c] \in Past
      BY <1>3, <1>t DEF Update
    <3>2. QED
      BY <3>1 DEF Past
  <2>4. KeptRun(c)
    BY <1>k
  <2>5. KeptRow(t)' /\ KeptRun(c)' /\ TaskOf(c)' = t
    BY <1>t, <2>1, <2>2, <2>3, <2>4 DEF KeptRow, KeptRun, TaskOf
  <2>6. Step(c)
    BY <1>3 DEF Step
  <2>7. QED
    BY <2>1, <2>2, <2>5, <2>6, KeptStep
<1>4. ASSUME NEW c \in Clients, Prune(c) PROVE KeptInv'
  <2> DEFINE t == TaskOf(c)
  <2>1. /\ Runs(c) /\ t \in Tasks /\ UNCHANGED <<clock, known>>
        /\ client'[c].pc \in {"ready", "returning"} /\ client'[c].task = t
        /\ client'[c].held = client[c].held
    BY <1>4, <1>h, <1>t DEF Prune, Runs, TaskOf, Run
  <2>2. PICK gone \in SUBSET Tasks :
          /\ rows' = [u \in Tasks |-> IF u \in gone THEN NoRow ELSE rows[u]]
          /\ artifacts' = [u \in Tasks |-> IF u \in gone THEN {} ELSE artifacts[u]]
          /\ past' = [d \in Clients |-> IF TaskOf(d) \in gone
                                      THEN [past[d] EXCEPT !.pruned = TRUE] ELSE past[d]]
    BY <1>4 DEF Prune, Stored
  <2>3. \A d \in Clients : TaskOf(d) \in gone => past'[d].pruned
    <3> SUFFICES ASSUME NEW d \in Clients, TaskOf(d) \in gone PROVE past'[d].pruned
      OBVIOUS
    <3>1. past'[d] = [past[d] EXCEPT !.pruned = TRUE] /\ past[d] \in Past
      BY <1>t, <2>2
    <3>2. QED
      BY <3>1 DEF Past
  <2>4. KeptRun(c) /\ KeptRow(t)
    BY <1>k, <2>1
  <2>5. CASE t \in gone
    <3>1. Taken(t) /\ past'[c].pruned
      BY <2>1, <2>2, <2>3, <2>5 DEF Taken
    <3>2. KeptRow(t)' /\ KeptRun(c)' /\ TaskOf(c)' = t
      BY <2>1, <2>4, <3>1 DEF KeptRow, KeptRun, Taken, TaskOf
    <3>3. Step(c)
      BY <1>4 DEF Step
    <3>4. QED
      BY <2>1, <3>1, <3>2, <3>3, KeptStep
  <2>6. CASE t \notin gone
    <3>1. rows'[t] = rows[t] /\ artifacts'[t] = artifacts[t] /\ past'[c] = past[c]
      BY <2>1, <2>2, <2>6
    <3>2. KeptRow(t)' /\ KeptRun(c)' /\ TaskOf(c)' = t
      BY <2>1, <2>4, <3>1 DEF KeptRow, KeptRun, TaskOf
    <3>3. Step(c)
      BY <1>4 DEF Step
    <3>4. QED
      BY <2>1, <3>1, <3>2, <3>3, KeptStep
  <2>7. QED
    BY <2>5, <2>6
<1>5. ASSUME NEW c \in Clients, NEW a \in Names, PutArtifact(c, a) PROVE KeptInv'
  <2> DEFINE t == TaskOf(c)
  <2>1. /\ Runs(c) /\ t \in Tasks /\ rows[t] # NoRow /\ UNCHANGED <<rows, clock, known, past>>
        /\ artifacts' = [artifacts EXCEPT ![t] = @ \cup {a}]
        /\ client'[c].pc = "read-back" /\ client'[c].task = t
        /\ client'[c].held = client[c].held /\ client'[c].name = a
    BY <1>5, <1>h, <1>t DEF PutArtifact, Runs, TaskOf, Run
  <2>2. artifacts'[t] = artifacts[t] \cup {a}
    BY <1>t, <2>1
  <2>3. KeptRun(c) /\ KeptRow(t)
    BY <1>k, <2>1
  <2>4. KeptRow(t)' /\ KeptRun(c)' /\ TaskOf(c)' = t
    BY <2>1, <2>2, <2>3 DEF KeptRow, KeptRun, TaskOf
  <2>5. Step(c)
    BY <1>5 DEF Step
  <2>6. QED
    BY <2>1, <2>2, <2>4, <2>5, KeptStep
<1>6. ASSUME NEW c \in Clients, ReadBack(c) PROVE KeptInv'
  <2> DEFINE t == TaskOf(c)
             copy == IF rows[t] = NoRow THEN NoRow
                     ELSE [stamp |-> rows[t].stamp,
                           steps |-> rows[t].steps \cap (artifacts[t] \cup {client[c].name})]
  <2>1. /\ Runs(c) /\ client[c].pc = "read-back" /\ t \in Tasks
        /\ UNCHANGED <<rows, artifacts, clock, known, past>>
        /\ client' = [client EXCEPT ![c] = [client[c] EXCEPT !.pc = "rewrite", !.copy = copy]]
    BY <1>6, <1>h DEF ReadBack, Runs
  <2>2. copy # NoRow => rows[t] # NoRow /\ copy.stamp = rows[t].stamp
    BY DEF NoRow
  <2> HIDE DEF copy
  <2>3. client'[c].pc = "rewrite" /\ client'[c].task = t /\ client'[c].held = client[c].held
        /\ client'[c].name = client[c].name /\ client'[c].copy = copy
    BY <1>t, <2>1 DEF Run, TaskOf
  <2>4. KeptRun(c) /\ KeptRow(t)
    BY <1>k, <2>1
  <2>5. KeptRow(t)' /\ KeptRun(c)' /\ TaskOf(c)' = t
    BY <2>1, <2>2, <2>3, <2>4 DEF KeptRow, KeptRun, TaskOf
  <2>6. Step(c)
    BY <1>6 DEF Step
  <2>7. QED
    BY <2>1, <2>5, <2>6, KeptStep
<1>7. ASSUME NEW c \in Clients, Rewrite(c) PROVE KeptInv'
  <2> DEFINE t == TaskOf(c)
  <2>1. /\ Runs(c) /\ client[c].pc = "rewrite" /\ t \in Tasks
        /\ UNCHANGED <<artifacts, clock, known, past>>
        /\ client'[c].pc = "ready" /\ client'[c].task = t
        /\ client'[c].held = client[c].held \cup {client[c].name}
    BY <1>7, <1>h, <1>t DEF Rewrite, Runs, Idle
  <2>2. rows'[t] = IF client[c].copy = NoRow THEN rows[t] ELSE client[c].copy
    BY <1>7, <1>t, <2>1 DEF Rewrite, Persist
  <2>3. KeptRun(c) /\ KeptRow(t)
    BY <1>k, <2>1
  <2>4. KeptRow(t)' /\ KeptRun(c)' /\ TaskOf(c)' = t
    BY <2>1, <2>2, <2>3 DEF KeptRow, KeptRun, TaskOf
  <2>5. Step(c)
    BY <1>7 DEF Step
  <2>6. QED
    BY <2>1, <2>2, <2>4, <2>5, KeptStep
<1>8. ASSUME NEW c \in Clients, Return(c) \/ Die(c) PROVE KeptInv'
  <2>1. client'[c] = Idle /\ known' = known
    BY <1>8, <1>t DEF Return, Die, Leave
  <2>2. ~Runs(c)' /\ KeptRun(c)'
    BY <2>1 DEF Runs, KeptRun, Idle
  <2>3. Step(c)
    BY <1>8 DEF Step
  <2>4. QED
    BY <2>1, <2>2, <2>3, KeptStep
<1>9. CASE Tick
  <2>1. UNCHANGED <<rows, artifacts, known, client, past>> /\ clock' = clock + 1
    BY <1>9 DEF Tick
  <2>2. \A c \in Clients : client[c].copy # NoRow => client[c].copy.stamp \in Nat
    BY <1>t DEF Run, Row
  <2>3. \A u \in Tasks : KeptRow(u)'
    BY <1>k, <1>s, <1>t, <2>1 DEF KeptRow
  <2>4. \A c \in Clients : KeptRun(c)'
    BY <1>k, <1>t, <2>1, <2>2 DEF KeptRun, Runs, TaskOf
  <2>5. QED
    BY <2>3, <2>4 DEF KeptInv
<1>10. CASE UNCHANGED vars
  BY <1>10 DEF vars, KeptInv, KeptRow, KeptRun, Runs, TaskOf
<1>11. QED
  BY <1>1, <1>2, <1>3, <1>4, <1>5, <1>6, <1>7, <1>8, <1>9, <1>10 DEF Next, Step

LEMMA AlwaysKept == Spec => []KeptInv
  BY KeptInit, KeptNext, AlwaysTyped, PTL DEF Spec

\* A run that tells its caller "available for resume and artifact reads"
\* tells the truth, in whatever company, unless a prune took its session
\* while it ran: nothing else ever takes the session or an artifact of it.
THEOREM PromisesAreKept == Spec => []PromisedArtifactsReadable
<1>1. KeptInv => PromisedArtifactsReadable
  BY DEF KeptInv, KeptRun, PromisedArtifactsReadable, Runs
<1>2. QED
  BY <1>1, AlwaysKept, PTL

-----------------------------------------------------------------------------
(* What a prune may take.  The rows a prune would prefer to the one a run  *)
(* has stored were stamped no earlier, so they are of tasks that were run  *)
(* at that time or later: the run has met them all.                        *)

Others(c) == {u \in Stored(KindOf[c]) : u # TaskOf(c)}

\* Runs of one group have met.
Met ==
  \A a, b \in Clients :
    a # b /\ Runs(a) /\ Runs(b) /\ KindOf[a] = KindOf[b] => TaskOf(b) \in past[a].crowd

\* A row stamped with the present is of a task that is run now: before its
\* client leaves, the clock moves on.
RunNow ==
  \A u \in Tasks : rows[u] # NoRow /\ rows[u].stamp = clock => \E b \in Clients : Runs(b) /\ TaskOf(b) = u

\* Whatever is as new as what the run has stored, or will write back, was met.
Crowded(c) ==
  /\ client[c].pc \in {"prune", "prune-last"} => past[c].wrote
  /\ Runs(c) /\ past[c].wrote /\ TaskOf(c) \notin past[c].crowd =>
       \A u \in Others(c) : u \notin past[c].crowd =>
         /\ rows[TaskOf(c)] # NoRow => rows[u].stamp < rows[TaskOf(c)].stamp
         /\ client[c].pc = "rewrite" /\ client[c].copy # NoRow => rows[u].stamp < client[c].copy.stamp

CrowdInv == Met /\ RunNow /\ \A c \in Clients : Crowded(c)

LEMMA CrowdInit == Init => CrowdInv
  BY DEF Init, CrowdInv, Met, RunNow, Crowded, Runs, Idle, NoRow

\* What the step of a client does to its own run.
LEMMA OwnMove ==
  ASSUME Typed, NEW c \in Clients, Step(c)
  PROVE  \/ /\ Runs(c) /\ Runs(c)' /\ TaskOf(c)' = TaskOf(c) /\ clock' = clock
            /\ past'[c].crowd = past[c].crowd /\ \A d \in Clients : past'[d].crowd = past[d].crowd
         \/ /\ Runs(c) /\ ~Runs(c)' /\ rows' = rows /\ clock' = clock + 1
            /\ \A d \in Clients \ {c} : past'[d] = past[d]
         \/ /\ ~Runs(c) /\ Runs(c)' /\ clock' = clock
            /\ \E w \in BOOLEAN : Meet(c, TaskOf(c)', w)
<1>t. /\ client \in [Clients -> Run] /\ past \in [Clients -> Past]
  BY DEF Typed, TypeOK
<1>1. CASE \E t \in Tasks : Create(c, t) \/ Resume(c, t)
  BY <1>1, <1>t DEF Create, Resume, Runs, TaskOf, Idle
<1>2. CASE \E last \in BOOLEAN : Update(c, last)
  <2>1. Runs(c) /\ Runs(c)' /\ TaskOf(c)' = TaskOf(c) /\ clock' = clock
    BY <1>2, <1>t DEF Update, Runs, TaskOf, Run
  <2>2. \A d \in Clients : past'[d].crowd = past[d].crowd
    <3>1. \A p \in Past : [p EXCEPT !.wrote = TRUE].crowd = p.crowd
      BY DEF Past
    <3>2. past' = [past EXCEPT ![c] = [past[c] EXCEPT !.wrote = TRUE]]
      BY <1>2 DEF Update
    <3>3. QED
      BY <1>t, <3>1, <3>2
  <2>3. QED
    BY <2>1, <2>2
<1>3. CASE Prune(c)
  <2>1. Runs(c) /\ Runs(c)' /\ TaskOf(c)' = TaskOf(c) /\ clock' = clock
    BY <1>3, <1>t DEF Prune, Runs, TaskOf, Run
  <2>2. \A d \in Clients : past'[d].crowd = past[d].crowd
    <3>1. \A p \in Past : [p EXCEPT !.pruned = TRUE].crowd = p.crowd
      BY DEF Past
    <3>2. PICK gone \in SUBSET Tasks :
            past' = [d \in Clients |-> IF TaskOf(d) \in gone THEN [past[d] EXCEPT !.pruned = TRUE]
                                     ELSE past[d]]
      BY <1>3 DEF Prune, Stored
    <3>3. QED
      BY <1>t, <3>1, <3>2
  <2>3. QED
    BY <2>1, <2>2
<1>4. CASE \E a \in Names : PutArtifact(c, a)
  BY <1>4, <1>t DEF PutArtifact, Runs, TaskOf, Run
<1>5. CASE ReadBack(c)
  BY <1>5, <1>t DEF ReadBack, Runs, TaskOf, Run
<1>6. CASE Rewrite(c)
  BY <1>6, <1>t DEF Rewrite, Runs, TaskOf, Idle
<1>7. CASE Return(c) \/ Die(c)
  BY <1>7, <1>t DEF Return, Die, Leave, Runs, Idle
<1>8. QED
  BY <1>1, <1>2, <1>3, <1>4, <1>5, <1>6, <1>7 DEF Step

LEMMA MetNext == ASSUME Typed, Met, NEW c \in Clients, Step(c) PROVE Met'
<1> SUFFICES ASSUME NEW a \in Clients, NEW b \in Clients, a # b, Runs(a)', Runs(b)', KindOf[a] = KindOf[b]
             PROVE  TaskOf(b)' \in past'[a].crowd
  BY DEF Met
<1>1. \A d \in Clients \ {c} : client'[d] = client[d] /\ past[d].crowd \subseteq past'[d].crowd
  BY OneMoves
<1>2. CASE Runs(c) /\ TaskOf(c)' = TaskOf(c) /\ \A d \in Clients : past'[d].crowd = past[d].crowd
  BY <1>1, <1>2 DEF Met, Runs, TaskOf
<1>3. CASE Runs(c) /\ ~Runs(c)'
  BY <1>1, <1>3 DEF Met, Runs, TaskOf
<1>4. CASE ~Runs(c) /\ \E w \in BOOLEAN : Meet(c, TaskOf(c)', w)
  <2>1. PICK w \in BOOLEAN : Meet(c, TaskOf(c)', w)
    BY <1>4
  <2>2. CASE a = c
    <3>1. b \in Company(c) /\ TaskOf(b)' = TaskOf(b)
      BY <1>1, <2>2 DEF Company, Runs, TaskOf
    <3>2. past'[a] = [Blank EXCEPT !.crowd = {TaskOf(e) : e \in Company(c)}, !.wrote = w]
      BY <2>1, <2>2 DEF Meet
    <3>3. past'[a].crowd = {TaskOf(e) : e \in Company(c)}
      BY <3>2 DEF Blank
    <3>4. QED
      BY <3>1, <3>3
  <2>3. CASE b = c
    <3>1. a \in Company(c) /\ a # c
      BY <1>1, <2>3 DEF Company, Runs
    <3>2. past'[a] = [past[a] EXCEPT !.crowd = @ \cup {TaskOf(c)'}]
      BY <2>1, <3>1 DEF Meet
    <3>3. past[a] \in Past
      BY DEF Typed, TypeOK
    <3>4. past'[a].crowd = past[a].crowd \cup {TaskOf(c)'}
      BY <3>2, <3>3 DEF Past
    <3>5. QED
      BY <2>3, <3>4
  <2>4. CASE a # c /\ b # c
    BY <1>1, <2>4 DEF Met, Runs, TaskOf
  <2>5. QED
    BY <2>2, <2>3, <2>4
<1>5. QED
  BY <1>2, <1>3, <1>4, OwnMove

LEMMA RunNowNext ==
  ASSUME Typed, KeptInv, RunNow, NEW c \in Clients, Step(c) PROVE RunNow'
<1> SUFFICES ASSUME NEW u \in Tasks, rows'[u] # NoRow, rows'[u].stamp = clock'
             PROVE  \E b \in Clients : Runs(b)' /\ TaskOf(b)' = u
  BY DEF RunNow
<1>1. CASE Runs(c)' /\ u = TaskOf(c)'
  BY <1>1
<1>2. CASE rows'[u] = rows[u]
  <2>1. rows[u] # NoRow /\ rows[u].stamp \in Nat /\ rows[u].stamp <= clock
    BY <1>2 DEF KeptInv, KeptRow, Typed, TypeOK, Row
  <2>2. clock \in Nat /\ clock' \in Nat /\ clock <= clock' /\ \A d \in Clients \ {c} : client'[d] = client[d]
    BY OneMoves
  <2>3. clock' = clock
    BY <1>2, <2>1, <2>2
  <2>4. PICK b \in Clients : Runs(b) /\ TaskOf(b) = u
    BY <1>2, <2>1, <2>3 DEF RunNow
  <2>5. CASE b = c
    BY <2>2, <2>3, <2>4, <2>5, OwnMove
  <2>6. CASE b # c
    BY <2>2, <2>4, <2>6 DEF Runs, TaskOf
  <2>7. QED
    BY <2>5, <2>6
<1>3. CASE Taken(u)
  BY <1>3 DEF Taken
<1>4. QED
  BY <1>1, <1>2, <1>3, OneMoves

\* The others: only the task the client of the step runs is written, and they
\* have met that.
LEMMA OthersCrowded ==
  ASSUME Typed, Typed', KeptInv, Met', NEW c \in Clients, Step(c), NEW d \in Clients \ {c}, Crowded(d)
  PROVE  Crowded(d)'
<1>1. /\ client'[d] = client[d] /\ TaskOf(d)' = TaskOf(d) /\ Runs(d)' = Runs(d)
      /\ past'[d].wrote = past[d].wrote /\ past[d].crowd \subseteq past'[d].crowd
  BY OneMoves DEF TaskOf, Runs
<1> SUFFICES ASSUME Runs(d)', past'[d].wrote, TaskOf(d)' \notin past'[d].crowd,
                    NEW u \in Others(d)', u \notin past'[d].crowd
             PROVE  /\ rows'[TaskOf(d)'] # NoRow => rows'[u].stamp < rows'[TaskOf(d)'].stamp
                    /\ client'[d].pc = "rewrite" /\ client'[d].copy # NoRow =>
                         rows'[u].stamp < client'[d].copy.stamp
  BY <1>1 DEF Crowded
<1>2. /\ u \in Tasks /\ rows'[u] # NoRow /\ GroupOf[u] = KindOf[d] /\ u # TaskOf(d)
      /\ TaskOf(d) \in Tasks /\ GroupOf[TaskOf(d)] = KindOf[d]
  BY <1>1 DEF Others, Stored, Typed, RunsHoldTasks, Runs
<1>3. ASSUME NEW v \in {u, TaskOf(d)} PROVE rows'[v] = rows[v] \/ rows'[v] = NoRow
  <2>1. ~(Runs(c)' /\ v = TaskOf(c)')
    <3>1. SUFFICES ASSUME Runs(c)', v = TaskOf(c)' PROVE FALSE
      OBVIOUS
    <3>2. KindOf[c] = GroupOf[v]
      BY <3>1 DEF Typed, RunsHoldTasks, Runs
    <3>3. v \in past'[d].crowd
      BY <1>2, <3>1, <3>2 DEF Met
    <3>4. QED
      BY <1>1, <3>3
  <2>2. QED
    BY <1>2, <2>1, OneMoves DEF Taken
<1>4. rows[u] # NoRow /\ rows'[u] = rows[u] /\ u \in Others(d) /\ u \notin past[d].crowd
  BY <1>1, <1>2, <1>3 DEF Others, Stored
<1>5. QED
  BY <1>1, <1>3, <1>4 DEF Crowded

\* The run itself: what it stamps now is newer than all it has not met.
LEMMA StampedNow ==
  ASSUME Typed', KeptInv', Met', RunNow', NEW c \in Clients, Runs(c)',
         NEW u \in Others(c)', u \notin past'[c].crowd
  PROVE  rows'[u].stamp < clock'
<1>1. u \in Tasks /\ rows'[u] # NoRow /\ GroupOf[u] = KindOf[c] /\ u # TaskOf(c)'
  BY DEF Others, Stored
<1>2. rows'[u].stamp \in Nat /\ clock' \in Nat /\ rows'[u].stamp <= clock'
  BY <1>1, BoundsAssumption DEF KeptInv, KeptRow, Typed, TypeOK, Row
<1>3. SUFFICES ASSUME rows'[u].stamp = clock' PROVE FALSE
  BY <1>2
<1>4. PICK b \in Clients : Runs(b)' /\ TaskOf(b)' = u
  BY <1>1, <1>3 DEF RunNow
<1>5. b # c /\ KindOf[b] = KindOf[c]
  BY <1>1, <1>4 DEF Typed, RunsHoldTasks, Runs
<1>6. QED
  BY <1>4, <1>5 DEF Met

LEMMA OwnCrowded ==
  ASSUME Typed, Typed', KeptInv, KeptInv', Met', RunNow', NEW c \in Clients, Step(c), Crowded(c)
  PROVE  Crowded(c)'
<1>t. /\ client \in [Clients -> Run] /\ rows \in [Tasks -> Row \cup {NoRow}] /\ past \in [Clients -> Past]
      /\ clock \in Nat
  BY BoundsAssumption DEF Typed, TypeOK
<1>h. Runs(c) => TaskOf(c) \in Tasks
  BY DEF Typed, RunsHoldTasks, Runs
<1>1. ASSUME NEW t \in Tasks, Create(c, t) PROVE Crowded(c)'
  <2>1. /\ rows' = [rows EXCEPT ![t] = [stamp |-> clock, steps |-> {}]] /\ clock' = clock
        /\ client'[c].pc = "prune" /\ client'[c].task = t
    BY <1>1, <1>t DEF Create, Persist, Idle
  <2>2. past'[c].wrote
    <3>1. past'[c] = [Blank EXCEPT !.crowd = {TaskOf(e) : e \in Company(c)}, !.wrote = TRUE]
      BY <1>1 DEF Create, Meet
    <3>2. QED
      BY <3>1 DEF Blank
  <2>3. rows'[t].stamp = clock'
    BY <1>t, <2>1
  <2>4. Runs(c)' /\ TaskOf(c)' = t
    BY <2>1 DEF Runs, TaskOf
  <2>5. \A u \in Others(c)' : u \notin past'[c].crowd => rows'[u].stamp < rows'[t].stamp
    BY <2>3, <2>4, StampedNow
  <2>6. QED
    BY <2>1, <2>2, <2>4, <2>5 DEF Crowded
<1>2. ASSUME NEW t \in Tasks, Resume(c, t) PROVE Crowded(c)'
  <2>1. client'[c].pc = "ready"
    BY <1>2, <1>t DEF Resume, Idle
  <2>2. ~past'[c].wrote
    <3>1. past'[c] = [Blank EXCEPT !.crowd = {TaskOf(e) : e \in Company(c)}, !.wrote = FALSE]
      BY <1>2 DEF Resume, Meet
    <3>2. QED
      BY <3>1 DEF Blank
  <2>3. QED
    BY <2>1, <2>2 DEF Crowded
<1>3. ASSUME NEW last \in BOOLEAN, Update(c, last) PROVE Crowded(c)'
  <2> DEFINE t == TaskOf(c)
  <2>1. /\ Runs(c) /\ t \in Tasks /\ clock' = clock
        /\ rows' = [rows EXCEPT ![t] = [stamp |-> clock, steps |-> client[c].held]]
        /\ client'[c].pc \in {"prune", "prune-last"} /\ TaskOf(c)' = t /\ Runs(c)'
    BY <1>3, <1>h, <1>t DEF Update, Persist, Runs, TaskOf, Run
  <2>2. past'[c].wrote
    <3>1. past' = [past EXCEPT ![c] = [past[c] EXCEPT !.wrote = TRUE]] /\ past[c] \in Past
      BY <1>3, <1>t DEF Update
    <3>2. QED
      BY <1>t, <3>1 DEF Past
  <2>3. rows'[t].stamp = clock'
    BY <1>t, <2>1
  <2>4. \A u \in Others(c)' : u \notin past'[c].crowd => rows'[u].stamp < rows'[t].stamp
    BY <2>1, <2>3, StampedNow
  <2>5. QED
    BY <2>1, <2>2, <2>4 DEF Crowded
<1>4. ASSUME Prune(c) PROVE Crowded(c)'
  <2>1. /\ Runs(c) /\ client[c].pc \in {"prune", "prune-last"} /\ client'[c].pc \in {"ready", "returning"}
        /\ TaskOf(c)' = TaskOf(c) /\ TaskOf(c) \in Tasks
    BY <1>4, <1>h, <1>t DEF Prune, Runs, TaskOf, Run
  <2>2. \A u \in Tasks : rows'[u] # NoRow => rows'[u] = rows[u]
    BY <1>4 DEF Prune
  <2>3. past'[c].crowd = past[c].crowd
    BY <2>1, OwnMove DEF Runs
  <2>4. past[c].wrote
    BY <2>1 DEF Crowded
  <2>5. \A u \in Others(c)' : u \in Others(c) /\ rows'[u] = rows[u]
    BY <2>1, <2>2 DEF Others, Stored
  <2>6. QED
    BY <2>1, <2>2, <2>3, <2>4, <2>5 DEF Crowded
<1>5. ASSUME NEW a \in Names, PutArtifact(c, a) PROVE Crowded(c)'
  <2>1. /\ Runs(c) /\ client'[c].pc = "read-back" /\ TaskOf(c)' = TaskOf(c) /\ UNCHANGED <<rows, past>>
    BY <1>5, <1>t DEF PutArtifact, Runs, TaskOf, Run
  <2>2. Others(c)' = Others(c)
    BY <2>1 DEF Others, Stored
  <2>3. QED
    BY <2>1, <2>2 DEF Crowded
<1>6. ASSUME ReadBack(c) PROVE Crowded(c)'
  <2> DEFINE t == TaskOf(c)
             copy == IF rows[t] = NoRow THEN NoRow
                     ELSE [stamp |-> rows[t].stamp,
                           steps |-> rows[t].steps \cap (artifacts[t] \cup {client[c].name})]
  <2>1. /\ Runs(c) /\ UNCHANGED <<rows, past>>
        /\ client' = [client EXCEPT ![c] = [client[c] EXCEPT !.pc = "rewrite", !.copy = copy]]
    BY <1>6 DEF ReadBack, Runs
  <2>2. copy # NoRow => rows[t] # NoRow /\ copy.stamp = rows[t].stamp
    BY DEF NoRow
  <2> HIDE DEF copy
  <2>3. client'[c].pc = "rewrite" /\ TaskOf(c)' = t /\ client'[c].copy = copy
    BY <1>t, <2>1 DEF Run, TaskOf
  <2>4. Others(c)' = Others(c)
    BY <2>1, <2>3 DEF Others, Stored
  <2>5. QED
    BY <2>1, <2>2, <2>3, <2>4 DEF Crowded
<1>7. ASSUME Rewrite(c) PROVE Crowded(c)'
  <2> DEFINE t == TaskOf(c)
  <2>1. /\ Runs(c) /\ client[c].pc = "rewrite" /\ t \in Tasks /\ UNCHANGED past
        /\ client'[c].pc = "ready" /\ TaskOf(c)' = t
    BY <1>7, <1>h, <1>t DEF Rewrite, Runs, TaskOf, Idle
  <2>2. /\ rows'[t] = IF client[c].copy = NoRow THEN rows[t] ELSE client[c].copy
        /\ \A u \in Tasks \ {t} : rows'[u] = rows[u]
    BY <1>7, <1>t, <2>1 DEF Rewrite, Persist
  <2>3. \A u \in Others(c)' : u \in Others(c) /\ rows'[u] = rows[u]
    BY <2>1, <2>2 DEF Others, Stored
  <2>4. QED
    BY <2>1, <2>2, <2>3 DEF Crowded
<1>8. ASSUME Return(c) \/ Die(c) PROVE Crowded(c)'
  <2>1. client'[c] = Idle
    BY <1>8, <1>t DEF Return, Die, Leave
  <2>2. QED
    BY <2>1 DEF Crowded, Runs, Idle
<1>9. QED
  BY <1>1, <1>2, <1>3, <1>4, <1>5, <1>6, <1>7, <1>8 DEF Step

LEMMA CrowdNext ==
  Typed /\ Typed' /\ KeptInv /\ KeptInv' /\ CrowdInv /\ [Next]_vars => CrowdInv'
<1> SUFFICES ASSUME Typed, Typed', KeptInv, KeptInv', CrowdInv, [Next]_vars PROVE CrowdInv'
  OBVIOUS
<1>t. Met /\ RunNow /\ \A c \in Clients : Crowded(c)
  BY DEF CrowdInv
<1>1. ASSUME NEW c \in Clients, Step(c) PROVE CrowdInv'
  <2>1. Met'
    BY <1>1, <1>t, MetNext
  <2>2. RunNow'
    BY <1>1, <1>t, RunNowNext
  <2>3. \A d \in Clients \ {c} : Crowded(d)'
    BY <1>1, <1>t, <2>1, OthersCrowded
  <2>4. Crowded(c)'
    BY <1>1, <1>t, <2>1, <2>2, OwnCrowded
  <2>5. QED
    BY <2>1, <2>2, <2>3, <2>4 DEF CrowdInv
<1>2. CASE Tick
  <2>1. UNCHANGED <<rows, client, past>> /\ clock' = clock + 1
    BY <1>2 DEF Tick
  <2>2. Met' /\ \A c \in Clients : Crowded(c)'
    BY <1>t, <2>1 DEF Met, Crowded, Others, Stored, Runs, TaskOf
  <2>3. \A u \in Tasks : rows[u] # NoRow => rows[u].stamp \in Nat /\ rows[u].stamp <= clock /\ clock \in Nat
    BY BoundsAssumption DEF KeptInv, KeptRow, Typed, TypeOK, Row
  <2>4. RunNow'
    BY <2>1, <2>3 DEF RunNow
  <2>5. QED
    BY <2>2, <2>4 DEF CrowdInv
<1>3. CASE UNCHANGED vars
  BY <1>3 DEF vars, CrowdInv, Met, RunNow, Crowded, Others, Stored, Runs, TaskOf
<1>4. QED
  BY <1>1, <1>2, <1>3 DEF Next

\* No prune takes the session of a run that was alone in its group, nor, once
\* the run has stored it, one that fewer than maxPerKind others have met.
THEOREM CrowdsAloneCostASession == Spec => PrunesSpareTheFew
<1>1. ASSUME Typed, CrowdInv, [Next]_vars, NEW c \in Clients,
             TaskOf(c) \notin past[c].crowd, ~past[c].pruned, past'[c].pruned
      PROVE  past[c].crowd # {} /\ (past[c].wrote => Cardinality(past[c].crowd) >= MaxPerKind)
  <2>t. past \in [Clients -> Past] /\ client \in [Clients -> Run]
    BY <1>1 DEF Typed, TypeOK
  <2>1. PICK e \in Clients : Prune(e)
    <3>1. ASSUME NEW d \in Clients, NEW t \in Tasks, NEW w \in BOOLEAN, Meet(d, t, w) PROVE FALSE
      <4>1. past'[c] = IF c = d THEN [Blank EXCEPT !.crowd = {TaskOf(e) : e \in Company(d)}, !.wrote = w]
                       ELSE IF c \in Company(d) THEN [past[c] EXCEPT !.crowd = @ \cup {t}] ELSE past[c]
        BY <3>1 DEF Meet
      <4>2. past[c] \in Past
        BY <2>t
      <4>3. ~past'[c].pruned
        BY <1>1, <4>1, <4>2 DEF Past, Blank
      <4>4. QED
        BY <1>1, <4>3
    <3>2. ASSUME NEW d \in Clients, NEW last \in BOOLEAN, Update(d, last) PROVE FALSE
      <4>1. past' = [past EXCEPT ![d] = [past[d] EXCEPT !.wrote = TRUE]]
        BY <3>2 DEF Update
      <4>2. \A p \in Past : [p EXCEPT !.wrote = TRUE].pruned = p.pruned
        BY DEF Past
      <4>3. QED
        BY <1>1, <2>t, <4>1, <4>2
    <3>3. ASSUME NEW d \in Clients, Return(d) \/ Die(d) PROVE FALSE
      <4>1. past' = [past EXCEPT ![d] = Blank]
        BY <3>3 DEF Return, Die, Leave
      <4>2. QED
        BY <1>1, <2>t, <4>1 DEF Blank
    <3>4. ASSUME past' = past PROVE FALSE
      BY <1>1, <3>4
    <3>5. QED
      BY <1>1, <3>1, <3>2, <3>3, <3>4
         DEF Next, Step, Create, Resume, PutArtifact, ReadBack, Rewrite, Tick, vars
  <2> DEFINE all == Stored(GroupOf[TaskOf(e)])
             t == TaskOf(c)
  <2>2. PICK kept \in SUBSET all :
          /\ Newest(kept, all)
          /\ past' = [d \in Clients |-> IF TaskOf(d) \in all \ kept
                                      THEN [past[d] EXCEPT !.pruned = TRUE] ELSE past[d]]
    BY <2>1 DEF Prune
  <2>3. t \in all \ kept
    BY <1>1, <2>t, <2>2
  <2>4. Runs(c) /\ Runs(e) /\ t \in Tasks /\ GroupOf[t] = KindOf[c] /\ KindOf[e] = KindOf[c]
        /\ rows[t] # NoRow /\ client[e].pc \in {"prune", "prune-last"}
    BY <1>1, <2>1, <2>3, TasksAssumption DEF Prune, Runs, Typed, RunsHoldTasks, Stored, NoTask
  <2>5. past[c].wrote => Cardinality(past[c].crowd) >= MaxPerKind
    <3> SUFFICES ASSUME past[c].wrote PROVE Cardinality(past[c].crowd) >= MaxPerKind
      OBVIOUS
    <3>1. Cardinality(kept) = MaxPerKind /\ \A u \in kept : Newer(u, t)
      BY <2>2, <2>3 DEF Newest
    <3>2. kept \subseteq past[c].crowd
      <4> SUFFICES ASSUME NEW u \in kept, u \notin past[c].crowd PROVE FALSE
        OBVIOUS
      <4>1. u \in Others(c) /\ u \in Tasks /\ rows[u] # NoRow
        BY <1>1, <2>1, <2>3, <2>4 DEF Others, Stored, Typed, RunsHoldTasks, Runs
      <4>2. rows[u].stamp < rows[t].stamp
        BY <1>1, <2>4, <4>1 DEF CrowdInv, Crowded
      <4>3. rows[u].stamp \in Nat /\ rows[t].stamp \in Nat
        BY <1>1, <2>4, <4>1 DEF Typed, TypeOK, Row
      <4>4. QED
        BY <3>1, <4>2, <4>3 DEF Newer
    <3>3. IsFiniteSet(past[c].crowd)
      BY <2>t, TasksAssumption, FS_Subset DEF Past
    <3>4. Cardinality(kept) <= Cardinality(past[c].crowd)
      BY <3>2, <3>3, FS_Subset
    <3>5. QED
      BY <3>1, <3>4
  <2>6. past[c].crowd # {}
    <3>1. CASE e = c
      <4>1. past[c].wrote
        BY <1>1, <2>4, <3>1 DEF CrowdInv, Crowded
      <4>2. Cardinality(past[c].crowd) >= MaxPerKind
        BY <2>5, <4>1
      <4>3. QED
        BY <4>2, FS_EmptySet, MaxPerKindAssumption
    <3>2. CASE e # c
      BY <1>1, <2>4, <3>2 DEF CrowdInv, Met
    <3>3. QED
      BY <3>1, <3>2
  <2>7. QED
    BY <2>5, <2>6
<1>2. Typed /\ CrowdInv /\ [Next]_vars =>
        [\A c \in Clients :
           TaskOf(c) \notin past[c].crowd /\ ~past[c].pruned /\ past'[c].pruned =>
             /\ past[c].crowd # {}
             /\ past[c].wrote => Cardinality(past[c].crowd) >= MaxPerKind]_vars
  BY <1>1
<1>3. QED
  BY <1>2, CrowdInit, CrowdNext, AlwaysTyped, AlwaysKept, PTL DEF Spec, PrunesSpareTheFew

-----------------------------------------------------------------------------
(* The store as a run sees it.  Until it is lost, a run has its task for   *)
(* itself, holds what is stored of it, and writes back what it read.       *)

OwnInv(c) ==
  Runs(c) /\ c \notin Lost =>
    /\ artifacts[TaskOf(c)] = client[c].held \cup
         (IF client[c].pc \in {"read-back", "rewrite"} THEN {client[c].name} ELSE {})
    /\ client[c].pc = "rewrite" =>
         client[c].copy = [rows[TaskOf(c)] EXCEPT !.steps = @ \cap artifacts[TaskOf(c)]]

OwnStoreInv ==
  /\ Typed /\ KeptInv /\ Met
  /\ \A c \in Clients : OwnInv(c)

LEMMA OwnInit == Init => OwnStoreInv
  BY TypedInit, KeptInit DEF Init, OwnStoreInv, OwnInv, Met, Runs, Idle

\* Who runs a task that is not lost runs it alone.
LEMMA NotLostAlone ==
  ASSUME Typed, Met, NEW c \in Clients, NEW d \in Clients, c # d, Runs(c), Runs(d), c \notin Lost
  PROVE  TaskOf(d) # TaskOf(c)
  BY DEF Typed, RunsHoldTasks, Runs, Met, Lost

\* A run that is not lost after the step of another was not lost before it,
\* and finds its session and its artifacts as they were.
LEMMA OthersOwn ==
  ASSUME Typed, Typed', Met', NEW c \in Clients, Step(c), NEW d \in Clients \ {c}, OwnInv(d)
  PROVE  OwnInv(d)'
<1>1. /\ client'[d] = client[d] /\ TaskOf(d)' = TaskOf(d) /\ Runs(d)' = Runs(d)
      /\ past[d].crowd \subseteq past'[d].crowd /\ (past[d].pruned => past'[d].pruned)
  BY OneMoves DEF TaskOf, Runs
<1> SUFFICES ASSUME Runs(d)', d \notin Lost' PROVE OwnInv(d)'
  BY DEF OwnInv
<1>2. d \notin Lost /\ TaskOf(d) \in Tasks /\ Runs(d)
  BY <1>1 DEF Lost, Typed, RunsHoldTasks, Runs
<1>3. ~(Runs(c)' /\ TaskOf(d) = TaskOf(c)')
  <2>1. SUFFICES ASSUME Runs(c)', TaskOf(d) = TaskOf(c)' PROVE FALSE
    OBVIOUS
  <2>2. KindOf[c] = KindOf[d]
    BY <1>1, <2>1 DEF Typed, RunsHoldTasks, Runs
  <2>3. TaskOf(c)' \in past'[d].crowd
    BY <2>1, <2>2 DEF Met
  <2>4. QED
    BY <1>1, <2>1, <2>3 DEF Lost
<1>4. ~Taken(TaskOf(d))
  BY <1>1 DEF Taken, Lost
<1>5. rows'[TaskOf(d)] = rows[TaskOf(d)] /\ artifacts'[TaskOf(d)] = artifacts[TaskOf(d)]
  BY <1>2, <1>3, <1>4, OneMoves
<1>6. QED
  BY <1>1, <1>2, <1>5 DEF OwnInv

LEMMA OwnOwn ==
  ASSUME Typed, KeptInv, Met, NEW c \in Clients, Step(c), OwnInv(c)
  PROVE  OwnInv(c)'
<1>t. /\ client \in [Clients -> Run] /\ rows \in [Tasks -> Row \cup {NoRow}] /\ past \in [Clients -> Past]
      /\ artifacts \in [Tasks -> SUBSET Names]
  BY DEF Typed, TypeOK
<1>h. Runs(c) => TaskOf(c) \in Tasks
  BY DEF Typed, RunsHoldTasks, Runs
<1>1. ASSUME NEW t \in Tasks, Create(c, t) PROVE OwnInv(c)'
  <2>1. /\ t \notin known /\ artifacts' = artifacts
        /\ client'[c].pc = "prune" /\ client'[c].task = t /\ client'[c].held = {}
    BY <1>1, <1>t DEF Create, Idle
  <2>2. artifacts[t] = {}
    BY <2>1 DEF KeptInv, KeptRow
  <2>3. QED
    BY <2>1, <2>2 DEF OwnInv, TaskOf
<1>2. ASSUME NEW t \in Tasks, Resume(c, t) PROVE OwnInv(c)'
  <2>1. /\ artifacts' = artifacts
        /\ client'[c].pc = "ready" /\ client'[c].task = t /\ client'[c].held = artifacts[t]
    BY <1>2, <1>t DEF Resume, Idle
  <2>2. QED
    BY <2>1 DEF OwnInv, TaskOf
<1>l. ASSUME Runs(c), past'[c].crowd = past[c].crowd, TaskOf(c)' = TaskOf(c),
             past[c].pruned => past'[c].pruned, c \notin Lost'
      PROVE  c \notin Lost
  BY <1>l DEF Lost
<1>3. ASSUME NEW last \in BOOLEAN, Update(c, last) PROVE OwnInv(c)'
  <2>1. /\ Runs(c) /\ client[c].pc = "ready" /\ artifacts' = artifacts /\ TaskOf(c)' = TaskOf(c)
        /\ client'[c].pc \in {"prune", "prune-last"} /\ client'[c].held = client[c].held
    BY <1>3, <1>t DEF Update, Runs, TaskOf, Run
  <2>2. past'[c].crowd = past[c].crowd /\ (past[c].pruned => past'[c].pruned)
    <3>1. past'[c] = [past[c] EXCEPT !.wrote = TRUE] /\ past[c] \in Past
      BY <1>3, <1>t DEF Update
    <3>2. QED
      BY <3>1 DEF Past
  <2>3. QED
    BY <1>l, <2>1, <2>2 DEF OwnInv
<1>4. ASSUME Prune(c) PROVE OwnInv(c)'
  <2>1. /\ Runs(c) /\ client[c].pc \in {"prune", "prune-last"} /\ client'[c].pc \in {"ready", "returning"}
        /\ TaskOf(c)' = TaskOf(c) /\ client'[c].held = client[c].held /\ TaskOf(c) \in Tasks
    BY <1>4, <1>h, <1>t DEF Prune, Runs, TaskOf, Run
  <2>2. PICK gone \in SUBSET Tasks :
          /\ artifacts' = [u \in Tasks |-> IF u \in gone THEN {} ELSE artifacts[u]]
          /\ past' = [d \in Clients |-> IF TaskOf(d) \in gone
                                      THEN [past[d] EXCEPT !.pruned = TRUE] ELSE past[d]]
    BY <1>4 DEF Prune, Stored
  <2>3. CASE TaskOf(c) \in gone
    <3>1. past'[c] = [past[c] EXCEPT !.pruned = TRUE] /\ past[c] \in Past
      BY <1>t, <2>2, <2>3
    <3>2. c \in Lost'
      BY <3>1 DEF Lost, Past
    <3>3. QED
      BY <3>2 DEF OwnInv
  <2>4. CASE TaskOf(c) \notin gone
    <3>1. past'[c] = past[c] /\ artifacts'[TaskOf(c)] = artifacts[TaskOf(c)]
      BY <2>1, <2>2, <2>4
    <3>2. QED
      BY <1>l, <2>1, <3>1 DEF OwnInv
  <2>5. QED
    BY <2>3, <2>4
<1>5. ASSUME NEW a \in Names, PutArtifact(c, a) PROVE OwnInv(c)'
  <2>1. /\ Runs(c) /\ client[c].pc = "ready" /\ client'[c].pc = "read-back" /\ client'[c].name = a
        /\ TaskOf(c)' = TaskOf(c) /\ client'[c].held = client[c].held /\ past' = past
        /\ TaskOf(c) \in Tasks /\ artifacts' = [artifacts EXCEPT ![TaskOf(c)] = @ \cup {a}]
    BY <1>5, <1>h, <1>t DEF PutArtifact, Runs, TaskOf, Run
  <2>2. artifacts'[TaskOf(c)] = artifacts[TaskOf(c)] \cup {a}
    BY <1>t, <2>1
  <2>3. QED
    BY <1>l, <2>1, <2>2 DEF OwnInv
<1>6. ASSUME ReadBack(c) PROVE OwnInv(c)'
  <2> DEFINE t == TaskOf(c)
             copy == IF rows[t] = NoRow THEN NoRow
                     ELSE [stamp |-> rows[t].stamp,
                           steps |-> rows[t].steps \cap (artifacts[t] \cup {client[c].name})]
  <2>1. /\ Runs(c) /\ client[c].pc = "read-back" /\ UNCHANGED <<rows, artifacts, past>> /\ t \in Tasks
        /\ client' = [client EXCEPT ![c] = [client[c] EXCEPT !.pc = "rewrite", !.copy = copy]]
    BY <1>6, <1>h DEF ReadBack, Runs
  <2>2. ASSUME c \notin Lost PROVE copy = [rows[t] EXCEPT !.steps = @ \cap artifacts[t]]
    <3>1. ~past[c].pruned
      BY <2>2 DEF Lost
    <3>2. rows[t] # NoRow /\ rows[t] \in Row
      BY <1>t, <2>1, <3>1 DEF KeptInv, KeptRun
    <3>3. client[c].name \in artifacts[t]
      BY <2>1, <3>1 DEF KeptInv, KeptRun
    <3>4. copy = [stamp |-> rows[t].stamp, steps |-> rows[t].steps \cap artifacts[t]]
      <4>1. artifacts[t] \cup {client[c].name} = artifacts[t]
        BY <3>3
      <4>2. QED
        BY <3>2, <4>1
    <3>5. QED
      BY <3>2, <3>4 DEF Row
  <2> HIDE DEF copy
  <2>3. /\ client'[c].pc = "rewrite" /\ TaskOf(c)' = t /\ client'[c].held = client[c].held
        /\ client'[c].name = client[c].name /\ client'[c].copy = copy
    BY <1>t, <2>1 DEF Run, TaskOf
  <2>4. QED
    BY <1>l, <2>1, <2>2, <2>3 DEF OwnInv
<1>7. ASSUME Rewrite(c) PROVE OwnInv(c)'
  <2>1. /\ Runs(c) /\ client[c].pc = "rewrite" /\ client'[c].pc = "ready" /\ TaskOf(c)' = TaskOf(c)
        /\ client'[c].held = client[c].held \cup {client[c].name} /\ UNCHANGED <<artifacts, past>>
    BY <1>7, <1>t DEF Rewrite, Runs, TaskOf, Idle
  <2>2. QED
    BY <1>l, <2>1 DEF OwnInv
<1>8. ASSUME Return(c) \/ Die(c) PROVE OwnInv(c)'
  <2>1. client'[c] = Idle
    BY <1>8, <1>t DEF Return, Die, Leave
  <2>2. QED
    BY <2>1 DEF OwnInv, Runs, Idle
<1>9. QED
  BY <1>1, <1>2, <1>3, <1>4, <1>5, <1>6, <1>7, <1>8 DEF Step

LEMMA OwnNext == OwnStoreInv /\ Typed' /\ KeptInv' /\ [Next]_vars => OwnStoreInv'
<1> SUFFICES ASSUME OwnStoreInv, Typed', KeptInv', [Next]_vars PROVE OwnStoreInv'
  OBVIOUS
<1>t. Typed /\ KeptInv /\ Met /\ \A c \in Clients : OwnInv(c)
  BY DEF OwnStoreInv
<1>1. ASSUME NEW c \in Clients, Step(c) PROVE OwnStoreInv'
  <2>1. Met'
    BY <1>1, <1>t, MetNext
  <2>2. \A d \in Clients \ {c} : OwnInv(d)'
    BY <1>1, <1>t, <2>1, OthersOwn
  <2>3. OwnInv(c)'
    BY <1>1, <1>t, OwnOwn
  <2>4. QED
    BY <2>1, <2>2, <2>3 DEF OwnStoreInv
<1>2. CASE Tick \/ UNCHANGED vars
  <2>1. UNCHANGED <<rows, artifacts, client, past>>
    BY <1>2 DEF Tick, vars
  <2>2. QED
    BY <1>t, <2>1 DEF OwnStoreInv, OwnInv, Met, Lost, Runs, TaskOf
<1>3. QED
  BY <1>1, <1>2 DEF Next

LEMMA AlwaysOwn == Spec => []OwnStoreInv
  BY OwnInit, OwnNext, AlwaysTyped, AlwaysKept, PTL DEF Spec

\* How the set of lost runs moves.
LEMMA LostInit == Init => Lost = {}
<1> SUFFICES ASSUME Init, NEW c \in Clients PROVE ~past[c].pruned /\ TaskOf(c) \notin past[c].crowd
  BY DEF Lost
<1>1. past[c] = Blank
  BY DEF Init
<1>2. QED
  BY <1>1 DEF Blank

LEMMA SharedInit == Init => Shared!Init
<1> SUFFICES ASSUME Init PROVE Shared!Init
  OBVIOUS
<1>1. [c \in Clients |-> TaskOf(c)] = [c \in Clients |-> NoTask]
  BY DEF Init, TaskOf, Idle
<1>2. QED
  BY <1>1, LostInit DEF Init, Shared!Init

LEMMA LostBegins ==
  ASSUME Typed, NEW c \in Clients, NEW t \in Tasks, NEW w \in BOOLEAN, Meet(c, t, w),
         ~Runs(c), GroupOf[t] = KindOf[c], TaskOf(c)' = t,
         \A d \in Clients \ {c} : client'[d] = client[d]
  PROVE  Lost' = IF {d \in Clients : TaskOf(d) = t} = {} THEN Lost
                 ELSE Lost \cup {d \in Clients : TaskOf(d) = t} \cup {c}
<1> DEFINE same == {d \in Clients : TaskOf(d) = t}
<1>1. c \notin Lost /\ c \notin same
  <2>1. past[c] = Blank /\ TaskOf(c) = NoTask
    BY DEF Typed, RunsHoldTasks, Runs
  <2>2. QED
    BY <2>1, TasksAssumption DEF Lost, Blank, NoTask
<1>2. same = {d \in Company(c) : TaskOf(d) = t}
  <2>1. ASSUME NEW d \in same PROVE d \in Company(c)
    <3>1. Runs(d)
      BY TasksAssumption DEF Typed, RunsHoldTasks, Runs, NoTask
    <3>2. KindOf[d] = KindOf[c]
      BY <3>1 DEF Typed, RunsHoldTasks, Runs
    <3>3. QED
      BY <1>1, <3>1, <3>2 DEF Company, Runs
  <2>2. QED
    BY <2>1 DEF Company
<1>3. c \in Lost' <=> same # {}
  <2>1. past'[c] = [Blank EXCEPT !.crowd = {TaskOf(e) : e \in Company(c)}, !.wrote = w]
    BY DEF Meet
  <2>2. past'[c].crowd = {TaskOf(e) : e \in Company(c)} /\ ~past'[c].pruned
    BY <2>1 DEF Blank
  <2>3. c \in Lost' <=> t \in {TaskOf(e) : e \in Company(c)}
    BY <2>2 DEF Lost
  <2>4. QED
    BY <1>2, <2>3
<1>4. ASSUME NEW d \in Clients \ {c} PROVE d \in Lost' <=> d \in Lost \/ d \in same
  <2>1. TaskOf(d)' = TaskOf(d) /\ past[d] \in Past
    BY DEF TaskOf, Typed, TypeOK
  <2>2. CASE d \in Company(c)
    <3>1. past'[d] = [past[d] EXCEPT !.crowd = @ \cup {t}]
      BY <2>2 DEF Meet
    <3>2. past'[d].crowd = past[d].crowd \cup {t} /\ past'[d].pruned = past[d].pruned
      BY <2>1, <3>1 DEF Past
    <3>3. QED
      BY <2>1, <3>2 DEF Lost
  <2>3. CASE d \notin Company(c)
    <3>1. past'[d] = past[d] /\ d \notin same
      BY <1>2, <2>3 DEF Meet
    <3>2. QED
      BY <2>1, <3>1 DEF Lost
  <2>4. QED
    BY <2>2, <2>3
<1>5. CASE same = {}
  <2>1. Lost' = Lost
    BY <1>1, <1>3, <1>4, <1>5 DEF Lost
  <2>2. QED
    BY <1>5, <2>1
<1>6. CASE same # {}
  <2>1. Lost' = Lost \cup same \cup {c}
    BY <1>1, <1>3, <1>4, <1>6 DEF Lost
  <2>2. QED
    BY <1>6, <2>1
<1>7. QED
  BY <1>5, <1>6

LEMMA SharedStep == OwnStoreInv /\ OwnStoreInv' /\ [Next]_vars => [Shared!Next]_(Shared!vars)
<1> SUFFICES ASSUME OwnStoreInv, OwnStoreInv', [Next]_vars PROVE Shared!Next \/ UNCHANGED Shared!vars
  OBVIOUS
<1> DEFINE task == [c \in Clients |-> client[c].task]
<1> USE DEF TaskOf
<1>t. /\ client \in [Clients -> Run] /\ rows \in [Tasks -> Row \cup {NoRow}] /\ clock \in Nat
      /\ artifacts \in [Tasks -> SUBSET Names] /\ past \in [Clients -> Past]
      /\ Typed /\ KeptInv /\ \A c \in Clients : OwnInv(c)
      /\ \A c \in Clients : Runs(c) => client[c].task \in Tasks /\ client[c].task # NoTask
                                       /\ GroupOf[client[c].task] = KindOf[c]
      /\ \A c \in Clients : ~Runs(c) => client[c].task = NoTask
  BY TasksAssumption, BoundsAssumption DEF OwnStoreInv, Typed, TypeOK, RunsHoldTasks, Runs, NoTask
<1>k. ASSUME NEW c \in Clients, client'[c].task = client[c].task,
             \A d \in Clients \ {c} : client'[d] = client[d]
      PROVE  task' = task
  BY <1>k
<1>r. ASSUME NEW c \in Clients, c \notin Lost, Runs(c) PROVE rows[client[c].task] # NoRow
  BY <1>r, <1>t DEF KeptInv, KeptRun, Lost
<1>1. ASSUME NEW c \in Clients, NEW t \in Tasks, Create(c, t) \/ Resume(c, t) PROVE Shared!Begin(c, t)
  <2>1. /\ ~Runs(c) /\ UNCHANGED <<artifacts, clock>> /\ GroupOf[t] = KindOf[c]
        /\ client'[c].task = t /\ \A d \in Clients \ {c} : client'[d] = client[d]
    BY <1>1, <1>t DEF Create, Resume, Idle, Runs
  <2>2. \E w \in BOOLEAN : Meet(c, t, w)
    BY <1>1 DEF Create, Resume
  <2>3. Lost' = IF {d \in Clients : task[d] = t} = {} THEN Lost
                ELSE Lost \cup {d \in Clients : task[d] = t} \cup {c}
    <3>1. PICK w \in BOOLEAN : Meet(c, t, w)
      BY <2>2
    <3>2. {d \in Clients : task[d] = t} = {d \in Clients : TaskOf(d) = t} /\ TaskOf(c)' = t
      BY <2>1
    <3> HIDE DEF task, TaskOf
    <3>3. Lost' = IF {d \in Clients : TaskOf(d) = t} = {} THEN Lost
                  ELSE Lost \cup {d \in Clients : TaskOf(d) = t} \cup {c}
      BY <1>t, <2>1, <3>1, <3>2, LostBegins
    <3>4. QED
      BY <3>2, <3>3
  <2>4. task' = [task EXCEPT ![c] = t] /\ task[c] = NoTask
    BY <1>t, <2>1
  <2>5. IF rows[t] = NoRow THEN artifacts[t] = {} /\ Shared!StoreSession(t, {}) ELSE UNCHANGED rows
    <3>1. CASE Create(c, t)
      <4>1. t \notin known /\ rows' = [rows EXCEPT ![t] = [stamp |-> clock, steps |-> {}]]
        BY <3>1 DEF Create, Persist
      <4>2. rows[t] = NoRow /\ artifacts[t] = {}
        BY <1>t, <4>1 DEF KeptInv, KeptRow
      <4>3. QED
        BY <4>1, <4>2 DEF Shared!StoreSession
    <3>2. CASE Resume(c, t)
      BY <3>2 DEF Resume
    <3>3. QED
      BY <1>1, <3>1, <3>2
  <2>6. QED
    BY <2>1, <2>3, <2>4, <2>5 DEF Shared!Begin, Shared!Runs, Shared!RunsOf
<1>2. ASSUME NEW c \in Clients, NEW last \in BOOLEAN, Update(c, last)
      PROVE  Shared!Update(c) \/ Shared!Stray(c)
  <2>1. /\ Runs(c) /\ client[c].pc = "ready" /\ client'[c].task = client[c].task
        /\ \A d \in Clients \ {c} : client'[d] = client[d]
        /\ UNCHANGED <<artifacts, clock>>
        /\ rows' = [rows EXCEPT ![client[c].task] = [stamp |-> clock, steps |-> client[c].held]]
    BY <1>2, <1>t DEF Update, Persist, Run, Runs
  <2>2. task' = task /\ task[c] = client[c].task /\ client[c].task # NoTask /\ client[c].task \in Tasks
    BY <1>k, <1>t, <2>1
  <2>3. Lost' = Lost
    <3>1. past' = [past EXCEPT ![c] = [past[c] EXCEPT !.wrote = TRUE]]
      BY <1>2 DEF Update
    <3>2. \A p \in Past : [p EXCEPT !.wrote = TRUE].crowd = p.crowd /\ [p EXCEPT !.wrote = TRUE].pruned = p.pruned
      BY DEF Past
    <3>3. \A d \in Clients : past'[d].crowd = past[d].crowd /\ past'[d].pruned = past[d].pruned
      BY <1>t, <3>1, <3>2
    <3>4. \A d \in Clients : TaskOf(d)' = TaskOf(d)
      BY <2>1
    <3>5. QED
      BY <3>3, <3>4 DEF Lost
  <2>4. CASE c \notin Lost
    <3>1. artifacts[client[c].task] = client[c].held \cup {}
      BY <1>t, <2>1, <2>4 DEF OwnInv
    <3>2. client[c].held = artifacts[client[c].task]
      BY <3>1
    <3>3. Shared!Update(c)
      BY <2>1, <2>2, <2>3, <2>4, <3>2 DEF Shared!Update, Shared!Runs, Shared!StoreSession
    <3>4. QED
      BY <3>3
  <2>5. CASE c \in Lost
    <3>1. DOMAIN rows' = Tasks /\ rows'[client[c].task] # NoRow
          /\ \A u \in Tasks \ {client[c].task} : rows'[u] = rows[u]
      BY <1>t, <2>1, <2>2 DEF NoRow
    <3>2. Shared!Stray(c)
      BY <2>1, <2>2, <2>3, <2>5, <3>1 DEF Shared!Stray, Shared!Runs
    <3>3. QED
      BY <3>2
  <2>6. QED
    BY <2>4, <2>5
<1>3. ASSUME NEW c \in Clients, Prune(c) PROVE Shared!Next \/ UNCHANGED Shared!vars
  <2> DEFINE g == GroupOf[client[c].task]
  <2>1. /\ Runs(c) /\ client'[c].task = client[c].task /\ UNCHANGED clock
        /\ \A d \in Clients \ {c} : client'[d] = client[d]
    BY <1>3, <1>t DEF Prune, Run, Runs
  <2>2. PICK kept \in SUBSET Stored(g) :
          /\ Newest(kept, Stored(g))
          /\ rows' = [t \in Tasks |-> IF t \in Stored(g) \ kept THEN NoRow ELSE rows[t]]
          /\ artifacts' = [t \in Tasks |-> IF t \in Stored(g) \ kept THEN {} ELSE artifacts[t]]
          /\ past' = [d \in Clients |-> IF TaskOf(d) \in Stored(g) \ kept
                                      THEN [past[d] EXCEPT !.pruned = TRUE] ELSE past[d]]
    BY <1>3 DEF Prune
  <2> DEFINE gone == Stored(g) \ kept
  <2>3. task' = task
    BY <1>k, <2>1
  <2>4. Lost' = Lost \cup UNION {Shared!RunsOf(t) : t \in gone}
    <3> HIDE DEF gone, g
    <3>1. \A p \in Past : /\ [p EXCEPT !.pruned = TRUE].crowd = p.crowd
                          /\ [p EXCEPT !.pruned = TRUE].pruned
      BY DEF Past
    <3>2. ASSUME NEW d \in Clients PROVE d \in Lost' <=> d \in Lost \/ client[d].task \in gone
      <4>1. TaskOf(d)' = TaskOf(d)
        BY <2>1
      <4>2. past'[d] = IF client[d].task \in gone THEN [past[d] EXCEPT !.pruned = TRUE] ELSE past[d]
        BY <2>2 DEF gone
      <4>3. past[d] \in Past
        BY <1>t
      <4>4. QED
        BY <3>1, <4>1, <4>2, <4>3 DEF Lost
    <3>3. \A d \in Clients : d \in UNION {Shared!RunsOf(t) : t \in gone} <=> client[d].task \in gone
      BY DEF Shared!RunsOf
    <3>4. Lost \subseteq Clients /\ Lost' \subseteq Clients
          /\ UNION {Shared!RunsOf(t) : t \in gone} \subseteq Clients
      BY DEF Lost, Shared!RunsOf
    <3>5. QED
      BY <3>2, <3>3, <3>4
  <2>5. CASE kept = Stored(g)
    <3>1. rows' = rows /\ artifacts' = artifacts
      BY <1>t, <2>2, <2>5
    <3>2. Lost' = Lost
      BY <2>4, <2>5
    <3>3. QED
      BY <2>1, <2>3, <3>1, <3>2 DEF Shared!vars
  <2>6. CASE kept # Stored(g)
    <3>1. Cardinality(kept) = MaxPerKind /\ \A u \in kept, t \in gone : Newer(u, t)
      BY <2>2, <2>6 DEF Newest
    <3>2. \A u \in kept, t \in gone : rows[u].stamp >= rows[t].stamp
      <4>1. \A u \in Stored(g) : rows[u].stamp \in Nat
        BY <1>t DEF Stored, Row
      <4>2. QED
        BY <2>2, <3>1, <4>1 DEF Newer
    <3>3. Stored(g) \ gone = kept /\ gone \in SUBSET Stored(g) /\ g \in Groups
      BY <1>t, <2>1, <2>2, GroupsAssumption
    <3>4. Shared!Stored(g) = Stored(g)
      BY DEF Stored, Shared!Stored
    <3> HIDE DEF gone
    <3>5. /\ rows' = [t \in Tasks |-> IF t \in gone THEN NoRow ELSE rows[t]]
          /\ artifacts' = [t \in Tasks |-> IF t \in gone THEN {} ELSE artifacts[t]]
          /\ UNCHANGED <<clock, task>>
      BY <2>1, <2>2, <2>3 DEF gone
    <3>6. Shared!Prune(g)
      <4>1. gone \in SUBSET Shared!Stored(g) /\ Shared!Stored(g) \ gone = kept
        BY <3>3, <3>4
      <4>2. Shared!Cardinality(Shared!Stored(g) \ gone) = MaxPerKind
        BY <3>1, <4>1 DEF Cardinality, Shared!Cardinality
      <4>3. \A u \in Shared!Stored(g) \ gone, t \in gone : rows[u].stamp >= rows[t].stamp
        BY <3>2, <4>1
      <4>4. QED
        BY <2>4, <3>5, <4>1, <4>2, <4>3 DEF Shared!Prune
    <3>7. QED
      BY <3>3, <3>6 DEF Shared!Next
  <2>7. QED
    BY <2>5, <2>6
<1>4. ASSUME NEW c \in Clients, NEW a \in Names, PutArtifact(c, a) PROVE Shared!Put(c, a)
  <2>1. /\ Runs(c) /\ client'[c].task = client[c].task /\ rows[client[c].task] # NoRow
        /\ \A d \in Clients \ {c} : client'[d] = client[d]
        /\ UNCHANGED <<rows, clock, past>>
        /\ artifacts' = [artifacts EXCEPT ![client[c].task] = @ \cup {a}]
    BY <1>4, <1>t DEF PutArtifact, Run, Runs
  <2>2. task' = task /\ task[c] = client[c].task /\ client[c].task # NoTask
    BY <1>k, <1>t, <2>1
  <2>3. Lost' = Lost
    BY <2>1 DEF Lost
  <2>4. QED
    BY <2>1, <2>2, <2>3 DEF Shared!Put, Shared!Runs
<1>5. ASSUME NEW c \in Clients, ReadBack(c) PROVE UNCHANGED Shared!vars
  <2>1. /\ client'[c].task = client[c].task /\ UNCHANGED <<rows, artifacts, clock, past>>
        /\ \A d \in Clients \ {c} : client'[d] = client[d]
    BY <1>5, <1>t DEF ReadBack, Run
  <2>2. task' = task
    BY <1>k, <2>1
  <2>3. Lost' = Lost
    BY <2>1 DEF Lost
  <2>4. QED
    BY <2>1, <2>2, <2>3 DEF Shared!vars
<1>6. ASSUME NEW c \in Clients, Rewrite(c)
      PROVE  Shared!Mend(c) \/ Shared!Stray(c) \/ UNCHANGED Shared!vars
  <2>1. /\ Runs(c) /\ client[c].pc = "rewrite" /\ client'[c].task = client[c].task
        /\ \A d \in Clients \ {c} : client'[d] = client[d]
        /\ UNCHANGED <<artifacts, clock, past>>
    BY <1>6, <1>t DEF Rewrite, Idle, Runs
  <2>2. task' = task /\ task[c] = client[c].task /\ client[c].task # NoTask /\ client[c].task \in Tasks
    BY <1>k, <1>t, <2>1
  <2>3. Lost' = Lost
    BY <2>1 DEF Lost
  <2>4. rows' = IF client[c].copy = NoRow THEN rows ELSE [rows EXCEPT ![client[c].task] = client[c].copy]
    BY <1>6 DEF Rewrite, Persist
  <2>5. CASE c \notin Lost
    <3>1. client[c].copy = [rows[client[c].task] EXCEPT !.steps = @ \cap artifacts[client[c].task]]
      BY <1>t, <2>1, <2>5 DEF OwnInv
    <3>2. rows[client[c].task] \in Row
      BY <1>r, <1>t, <2>1, <2>2, <2>5
    <3>3. client[c].copy # NoRow
      BY <3>1, <3>2 DEF Row, NoRow
    <3>4. rows' = [rows EXCEPT ![client[c].task].steps = @ \cap artifacts[client[c].task]]
      BY <2>4, <3>1, <3>3
    <3>5. Shared!Mend(c)
      BY <2>1, <2>2, <2>3, <2>5, <3>4 DEF Shared!Mend, Shared!Runs
    <3>6. QED
      BY <3>5
  <2>6. CASE c \in Lost /\ client[c].copy = NoRow
    BY <2>1, <2>2, <2>3, <2>4, <2>6 DEF Shared!vars
  <2>7. CASE c \in Lost /\ client[c].copy # NoRow
    <3>1. DOMAIN rows' = Tasks /\ rows'[client[c].task] # NoRow
          /\ \A u \in Tasks \ {client[c].task} : rows'[u] = rows[u]
      BY <1>t, <2>2, <2>4, <2>7
    <3>2. Shared!Stray(c)
      BY <2>1, <2>2, <2>3, <2>7, <3>1 DEF Shared!Stray, Shared!Runs
    <3>3. QED
      BY <3>2
  <2>8. QED
    BY <2>5, <2>6, <2>7
<1>7. ASSUME NEW c \in Clients, Return(c) \/ Die(c) PROVE Shared!End(c)
  <2>1. /\ Runs(c) /\ UNCHANGED <<rows, artifacts>> /\ clock' = clock + 1
        /\ client'[c].task = NoTask /\ \A d \in Clients \ {c} : client'[d] = client[d]
        /\ past' = [past EXCEPT ![c] = Blank]
    BY <1>7, <1>t DEF Return, Die, Leave, Idle, Runs
  <2>2. task' = [task EXCEPT ![c] = NoTask] /\ task[c] # NoTask
    BY <1>t, <2>1
  <2>3. Lost' = Lost \ {c}
    <3>1. \A d \in Clients \ {c} : TaskOf(d)' = TaskOf(d) /\ past'[d] = past[d]
      BY <1>t, <2>1
    <3>2. past'[c] = Blank
      BY <1>t, <2>1
    <3>3. QED
      BY <3>1, <3>2 DEF Lost, Blank
  <2>4. clock' > clock
    BY <1>t, <2>1
  <2>5. QED
    BY <2>1, <2>2, <2>3, <2>4 DEF Shared!End, Shared!Runs
<1>8. CASE Tick
  <2>1. clock' > clock /\ UNCHANGED <<rows, artifacts, client, past>>
    BY <1>8, <1>t DEF Tick
  <2>2. Lost' = Lost
    BY <2>1 DEF Lost
  <2>3. QED
    BY <2>1, <2>2 DEF Shared!Tick, Shared!Next
<1>9. CASE UNCHANGED vars
  BY <1>9 DEF vars, Shared!vars, Lost
<1>10. QED
  BY <1>1, <1>2, <1>3, <1>4, <1>5, <1>6, <1>7, <1>8, <1>9 DEF Next, Step, Shared!Next

\* However many clients share a group, and even a task, each finds calls that
\* are atomic and a session only it changes, up to the moment a prune takes
\* that session or another client begins to run the same task: a refinement.
THEOREM RunsFindTheirOwnStore == Spec => ImplementsSessionStore
<1>1. OwnStoreInv /\ OwnStoreInv' /\ [Next]_vars => [Shared!Next]_(Shared!vars)
  BY SharedStep
<1>2. QED
  BY <1>1, SharedInit, AlwaysOwn, PTL DEF Spec, ImplementsSessionStore, Shared!Spec
=============================================================================

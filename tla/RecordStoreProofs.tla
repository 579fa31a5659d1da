------------------------- MODULE RecordStoreProofs -------------------------
(* What holds of the rows for any number of writers, types, suites and rows *)
(* and any limits.                                                          *)
EXTENDS RecordStore, FiniteSetTheorems, TLAPS

\* What a writer carries with it: a draft until the row is inserted, then a
\* row that was, and, once it has read one, a limit.
Carries ==
  \A w \in Writer :
    /\ pc[w] = "insert" => mine[w] \in Draft
    /\ pc[w] \in {"limit", "prune"} => mine[w] \in ever
    /\ pc[w] # "idle" => answer[w] = "none"
    /\ pc[w] = "prune" /\ mine[w].group \in EventType => asked[w] \in Limits

Typed == TypeOK /\ Carries

LEMMA TypedInit == Init => Typed
<1> SUFFICES ASSUME Init PROVE Typed
  OBVIOUS
<1> USE BoundsAssumption DEF Init, NoRow
<1>1. TypeOK
  <2>1. owed \in [Group -> Nat] /\ mine \in [Writer -> Row \cup Draft \cup {NoRow}]
    OBVIOUS
  <2>2. QED
    BY <2>1 DEF TypeOK, Answer
<1>2. Carries
  BY DEF Carries
<1>3. QED
  BY <1>1, <1>2 DEF Typed

LEMMA TypedNext == Typed /\ [Next]_vars => Typed'
<1> SUFFICES ASSUME Typed, [Next]_vars PROVE Typed'
  OBVIOUS
<1> USE BoundsAssumption DEF Typed, TypeOK, Carries, At, Goto, Tell, Answer
<1>1. ASSUME NEW w \in Writer, NEW g \in Group, Stamp(w, g) PROVE Typed'
  <2>1. [group |-> g, stamp |-> now, id |-> 0] \in Draft
    BY DEF Draft
  <2>2. mine' \in [Writer -> Row \cup Draft \cup {NoRow}]
    BY <1>1, <2>1 DEF Stamp
  <2>3. QED
    BY <1>1, <2>1, <2>2 DEF Stamp
<1>2. ASSUME NEW w \in Writer, Insert(w) PROVE Typed'
  <2>1. PICK i \in NextId(mine[w].group) :
          /\ rows' = rows \cup {[mine[w] EXCEPT !.id = i]}
          /\ ever' = ever \cup {[mine[w] EXCEPT !.id = i]}
          /\ mine' = [mine EXCEPT ![w] = [mine[w] EXCEPT !.id = i]]
    BY <1>2 DEF Insert
  <2> DEFINE row == [mine[w] EXCEPT !.id = i]
  <2>2. mine[w] \in Draft
    BY <1>2 DEF Insert
  <2>3. i \in 1 .. MaxRows /\ \A r \in ever : r.group = mine[w].group => r.id # i
    BY <2>1 DEF NextId, Unused, InGroup
  <2>4. row \in Row /\ row.group = mine[w].group /\ row.id = i
    BY <2>2, <2>3 DEF Draft, Row
  <2>5. mine' = [mine EXCEPT ![w] = row] /\ rows' = rows \cup {row} /\ ever' = ever \cup {row}
    BY <2>1
  <2> HIDE DEF row
  <2>6. \A r, s \in ever' : r.group = s.group /\ r.id = s.id => r = s
    BY <2>3, <2>4, <2>5
  <2>7. mine' \in [Writer -> Row \cup Draft \cup {NoRow}]
    BY <2>4, <2>5
  <2>8. TypeOK'
    BY <1>2, <2>4, <2>5, <2>6, <2>7 DEF Insert
  <2>9. Carries'
    BY <1>2, <2>4, <2>5 DEF Insert
  <2>10. QED
    BY <2>8, <2>9
<1>3. ASSUME NEW w \in Writer, InsertFails(w) PROVE Typed'
  BY <1>3 DEF InsertFails, Refused
<1>4. ASSUME NEW w \in Writer, ReadLimit(w) PROVE Typed'
  BY <1>4 DEF ReadLimit
<1>5. ASSUME NEW w \in Writer, Prune(w) PROVE Typed'
  <2>1. rows' \subseteq rows
    BY <1>5 DEF Prune, Pruned, Newest, InGroup
  <2>2. QED
    BY <1>5, <2>1 DEF Prune
<1>6. ASSUME NEW w \in Writer, PruneMissed(w) PROVE Typed'
  <2>1. mine[w].group \in Group
    BY <1>6 DEF PruneMissed, Row
  <2>2. owed[mine[w].group] + 1 \in Nat
    BY <2>1
  <2>3. owed' \in [Group -> Nat]
    BY <1>6, <2>2 DEF PruneMissed
  <2>4. QED
    BY <1>6, <2>3 DEF PruneMissed
<1>7. CASE Tick
  BY <1>7 DEF Tick
<1>8. ASSUME NEW n \in Limits, EditLimit(n) PROVE Typed'
  BY <1>8 DEF EditLimit
<1>9. CASE UNCHANGED vars
  BY <1>9 DEF vars
<1>10. QED
  BY <1>1, <1>2, <1>3, <1>4, <1>5, <1>6, <1>7, <1>8, <1>9 DEF Next, CleanupAudit, Group

LEMMA AlwaysTyped == Spec => []Typed
  BY TypedInit, TypedNext, PTL DEF Spec

\* Every variable keeps its type, and no two rows of a group share a key.
THEOREM RecordsTypeCorrect == Spec => []TypeOK
<1>1. Typed => TypeOK
  BY DEF Typed
<1>2. QED
  BY <1>1, AlwaysTyped, PTL

-----------------------------------------------------------------------------
(* Answers.  A row that was inserted stays in ever, so what a writer was    *)
(* told stays true until it begins the next row.                            *)

LEMMA AnswersNext == Typed /\ AnswersAreTrue /\ [Next]_vars => AnswersAreTrue'
<1> SUFFICES ASSUME Typed, AnswersAreTrue, [Next]_vars PROVE AnswersAreTrue'
  OBVIOUS
<1> USE DEF AnswersAreTrue, Typed, TypeOK, Carries, At, Goto, Tell
<1>1. ASSUME NEW w \in Writer, NEW g \in Group, Stamp(w, g) PROVE AnswersAreTrue'
  BY <1>1 DEF Stamp
<1>2. ASSUME NEW w \in Writer, Insert(w) PROVE AnswersAreTrue'
  <2>1. ever \subseteq ever' /\ answer' = answer /\ answer[w] = "none"
    BY <1>2 DEF Insert
  <2>2. \A v \in Writer : v # w => mine'[v] = mine[v]
    BY <1>2 DEF Insert
  <2>3. QED
    BY <2>1, <2>2
<1>3. ASSUME NEW w \in Writer, InsertFails(w) PROVE AnswersAreTrue'
  BY <1>3 DEF InsertFails, Refused, Draft
<1>4. ASSUME NEW w \in Writer, ReadLimit(w) PROVE AnswersAreTrue'
  BY <1>4 DEF ReadLimit
<1>5. ASSUME NEW w \in Writer, Prune(w) PROVE AnswersAreTrue'
  BY <1>5 DEF Prune
<1>6. ASSUME NEW w \in Writer, PruneMissed(w) PROVE AnswersAreTrue'
  BY <1>6 DEF PruneMissed
<1>7. CASE Tick \/ (\E n \in Limits : EditLimit(n)) \/ UNCHANGED vars
  BY <1>7 DEF Tick, EditLimit, vars
<1>8. QED
  BY <1>1, <1>2, <1>3, <1>4, <1>5, <1>6, <1>7, BoundsAssumption DEF Next, CleanupAudit, Group

\* audit-log.ts:194: who is told "written" has inserted its row, and who is told
\* "not-written" has left nothing behind.
THEOREM WritersAreToldTheTruth == Spec => []AnswersAreTrue
<1>1. Init => AnswersAreTrue
  BY DEF Init, AnswersAreTrue
<1>2. QED
  BY <1>1, AnswersNext, AlwaysTyped, PTL DEF Spec

-----------------------------------------------------------------------------
(* Survival.  A prune takes a row for which its group, as the prune found   *)
(* it, holds as many newer ones as it keeps; those have been written, so    *)
(* they count in ever for good, also when they are pruned themselves.       *)

Finite == IsFiniteSet(ever)

NewerOnes(S, r) == {s \in InGroup(S, r.group) : Newer(s, r)}

LEMMA FiniteNext == Finite /\ [Next]_vars => Finite'
<1> SUFFICES ASSUME Finite, [Next]_vars PROVE Finite'
  OBVIOUS
<1>1. ever' = ever \/ \E row : ever' = ever \cup {row}
  BY DEF Next, vars, CleanupAudit, Stamp, Insert, InsertFails, ReadLimit, Prune, PruneMissed,
         Tick, EditLimit
<1>2. QED
  BY <1>1, FS_AddElement DEF Finite

\* A subset of a finite set has at most as many elements.
LEMMA FewerOnes ==
  ASSUME NEW S, NEW T, IsFiniteSet(T), S \subseteq T, NEW r
  PROVE  /\ Cardinality(NewerOnes(S, r)) \in Nat /\ Cardinality(NewerOnes(T, r)) \in Nat
         /\ Cardinality(NewerOnes(S, r)) <= Cardinality(NewerOnes(T, r))
<1>1. NewerOnes(S, r) \subseteq NewerOnes(T, r) /\ NewerOnes(T, r) \subseteq T
  BY DEF NewerOnes, InGroup
<1>2. IsFiniteSet(NewerOnes(T, r)) /\ IsFiniteSet(NewerOnes(S, r))
  BY <1>1, FS_Subset
<1>3. QED
  BY <1>1, <1>2, FS_Subset, FS_CardinalityType

LEMMA LowestIsLeast == Lowest \in Limits /\ \A n \in Limits : Lowest <= n
<1>1. Limits \subseteq 1 .. 5 /\ Limits # {}
  BY BoundsAssumption
<1>2. \E n \in Limits : \A m \in Limits : n <= m
  <2>1. PICK n \in Limits : TRUE
    BY <1>1
  <2>2. n \in 1 .. 5
    BY <1>1
  <2>3. n = 1 \/ n = 2 \/ n = 3 \/ n = 4 \/ n = 5
    BY <2>2
  <2>4. \A m \in Limits : m = 1 \/ m = 2 \/ m = 3 \/ m = 4 \/ m = 5
    BY <1>1
  <2>5. QED
    BY <2>1, <2>3, <2>4
<1>3. QED
  BY <1>2 DEF Lowest

LEMMA LimitsAtLeastLowest == \A n \in Limits : n \in Nat /\ Lowest <= n
<1>1. \A n \in 1 .. 5 : n \in Nat
  OBVIOUS
<1>2. QED
  BY <1>1, LowestIsLeast, BoundsAssumption

LEMMA SurvivorsNext ==
  Typed /\ Finite /\ NewestSurvive /\ [Next]_vars => NewestSurvive'
<1> SUFFICES ASSUME Typed, Finite, NewestSurvive, [Next]_vars PROVE NewestSurvive'
  OBVIOUS
<1> USE DEF Typed, TypeOK
<1>1. \A r : Least(r.group) \in Nat
  BY LowestIsLeast, BoundsAssumption DEF Least
<1>2. ASSUME NEW w \in Writer, Insert(w) PROVE NewestSurvive'
  <2>1. ever \subseteq ever' /\ ever' \ rows' \subseteq ever \ rows /\ Finite'
    BY <1>2, FiniteNext DEF Insert
  <2>2. ASSUME NEW r \in ever' \ rows' PROVE Cardinality(NewerOnes(ever', r)) >= Least(r.group)
    <3>1. Cardinality(NewerOnes(ever, r)) >= Least(r.group)
      BY <2>1 DEF NewestSurvive, NewerOnes
    <3>2. QED
      BY <1>1, <2>1, <3>1, FewerOnes DEF Finite
  <2>3. QED
    BY <2>2 DEF NewestSurvive, NewerOnes, Least
<1>3. ASSUME NEW w \in Writer, Prune(w) PROVE NewestSurvive'
  <2> DEFINE g == mine[w].group
  <2>1. ever' = ever /\ rows' = Pruned(rows, g, Keep(w))
    BY <1>3 DEF Prune
  <2>2. Keep(w) \in Nat /\ Least(g) <= Keep(w)
    <3>1. CASE g \in EventType
      <4>1. asked[w] \in Limits
        BY <1>3, <3>1 DEF Prune, At, Carries
      <4>2. asked[w] \in Nat /\ Lowest <= asked[w]
        BY <4>1, LimitsAtLeastLowest, Zenon
      <4>3. QED
        BY <3>1, <4>2 DEF Keep, Least
    <3>2. CASE g \notin EventType
      BY <3>2 DEF Keep, Least
    <3>3. QED
      BY <3>1, <3>2
  <2>3. ASSUME NEW r \in ever \ rows' PROVE Cardinality(NewerOnes(ever, r)) >= Least(r.group)
    <3>1. CASE r \notin rows
      BY <3>1 DEF NewestSurvive, NewerOnes
    <3>2. CASE r \in rows
      <4>1. r.group = g /\ r \in InGroup(rows, g) /\ r \notin Newest(InGroup(rows, g), Keep(w))
        BY <2>1, <2>3, <3>2 DEF Pruned, InGroup
      <4>2. ~(Cardinality(NewerOnes(rows, r)) < Keep(w))
        BY <4>1 DEF Newest, NewerOnes
      <4>3. QED
        BY <1>1, <2>2, <4>1, <4>2, FewerOnes DEF Finite
    <3>3. QED
      BY <3>1, <3>2
  <2>4. QED
    BY <2>1, <2>3 DEF NewestSurvive, NewerOnes, Least
<1>4. CASE UNCHANGED <<rows, ever>>
  BY <1>4 DEF NewestSurvive, InGroup, Newer, Least
<1>5. QED
  BY <1>2, <1>3, <1>4
     DEF Next, vars, CleanupAudit, Stamp, InsertFails, ReadLimit, PruneMissed, Tick, EditLimit

\* audit-log.ts:90 and worker-benchmark-store.ts:44: a row gives way only to
\* as many newer ones of its own group as the group keeps.
THEOREM NewestRowsSurvive == Spec => []NewestSurvive
<1>1. Init => Finite /\ NewestSurvive
  BY FS_EmptySet DEF Init, Finite, NewestSurvive
<1>2. QED
  BY <1>1, FiniteNext, SurvivorsNext, AlwaysTyped, PTL DEF Spec

-----------------------------------------------------------------------------
(* Bounds.  The number of newer rows tells the rows of a group apart, so    *)
(* that a prune keeps at most as many rows as it looks for; an insert adds  *)
(* a row and a writer that has yet to prune; a prune that is missed is owed.*)

Keyed(S) ==
  /\ \A r \in S : r.stamp \in Nat /\ r.id \in Nat
  /\ \A r, s \in S : r.id = s.id => r = s

LEMMA NewestAtMost ==
  ASSUME NEW S, IsFiniteSet(S), Keyed(S), NEW n \in Nat
  PROVE  Cardinality(Newest(S, n)) <= n
<1> DEFINE above(r) == {s \in S : Newer(s, r)}
           rank == [r \in Newest(S, n) |-> Cardinality(above(r))]
<1>1. \A r \in S : IsFiniteSet(above(r)) /\ Cardinality(above(r)) \in Nat
  <2>1. \A r \in S : above(r) \subseteq S
    OBVIOUS
  <2>2. QED
    BY <2>1, FS_Subset, FS_CardinalityType
<1>2. ASSUME NEW r \in S, NEW s \in S, Newer(r, s) PROVE Cardinality(above(r)) # Cardinality(above(s))
  <2>1. above(r) \subseteq above(s)
    BY <1>2 DEF Newer, Keyed
  <2>2. r \in above(s) /\ r \notin above(r)
    BY <1>2 DEF Newer, Keyed
  <2>3. above(r) # above(s)
    BY <2>2
  <2>4. QED
    BY <1>1, <2>1, <2>3, FS_Subset
<1>3. ASSUME NEW r \in S, NEW s \in S, r # s PROVE Newer(r, s) \/ Newer(s, r)
  BY <1>3 DEF Newer, Keyed
<1>4. rank \in [Newest(S, n) -> 0 .. n - 1]
  BY <1>1 DEF Newest
<1>5. \A r, s \in Newest(S, n) : rank[r] = rank[s] => r = s
  <2>1. Newest(S, n) \subseteq S
    BY DEF Newest
  <2>2. \A r, s \in S : Cardinality(above(r)) = Cardinality(above(s)) => r = s
    BY <1>2, <1>3
  <2>3. QED
    BY <2>1, <2>2
<1>6. rank \in Injection(Newest(S, n), 0 .. n - 1)
  BY <1>4, <1>5 DEF Injection, IsInjective
<1>7. IsFiniteSet(0 .. n - 1) /\ Cardinality(0 .. n - 1) = n
  BY FS_Interval
<1>8. QED
  BY <1>6, <1>7, FS_Injection

Owe(g) == {w \in Writer : pc[w] \in {"limit", "prune"} /\ mine[w].group = g}

LEMMA OweFinite == \A g : IsFiniteSet(Owe(g)) /\ Cardinality(Owe(g)) \in Nat
  BY WritersAssumption, FS_Subset, FS_CardinalityType DEF Owe

LEMMA OweFiniteNext == \A g : IsFiniteSet(Owe(g)') /\ Cardinality(Owe(g)') \in Nat
  BY WritersAssumption, FS_Subset, FS_CardinalityType DEF Owe

\* The rows of a group are finitely many, and have keys.
LEMMA GroupKeyed ==
  ASSUME Typed, Finite, NEW g
  PROVE  /\ IsFiniteSet(InGroup(rows, g)) /\ Cardinality(InGroup(rows, g)) \in Nat
         /\ Keyed(InGroup(rows, g))
<1>1. InGroup(rows, g) \subseteq ever
  BY DEF InGroup, Typed, TypeOK
<1>2. \A r \in ever : r.stamp \in Nat /\ r.id \in Nat
  BY BoundsAssumption DEF Typed, TypeOK, Row
<1>3. QED
  BY <1>1, <1>2, FS_Subset, FS_CardinalityType DEF Finite, Keyed, InGroup, Typed, TypeOK

LEMMA HighestIsMost == Highest \in Limits /\ \A n \in Limits : n <= Highest
<1>1. \E n \in Limits : \A m \in Limits : m <= n
  <2>1. PICK n \in Limits : TRUE
    BY BoundsAssumption
  <2>2. \A m \in Limits : m = 1 \/ m = 2 \/ m = 3 \/ m = 4 \/ m = 5
    BY BoundsAssumption
  <2>3. n = 1 \/ n = 2 \/ n = 3 \/ n = 4 \/ n = 5
    BY <2>1, <2>2
  <2>4. QED
    BY <2>1, <2>2, <2>3
<1>2. QED
  BY <1>1 DEF Highest

LEMMA LimitsAtMostHighest == \A n \in Limits : n \in Nat /\ n <= Highest
<1>1. \A n \in 1 .. 5 : n \in Nat
  OBVIOUS
<1>2. QED
  BY <1>1, HighestIsMost, BoundsAssumption

LEMMA MostIsNat == \A g : Most(g) \in Nat
  BY HighestIsMost, LimitsAtMostHighest DEF Most

Bounded(g) == Cardinality(InGroup(rows, g)) <= Most(g) + owed[g] + Cardinality(Owe(g))

\* A group nothing happened to, or whose rows got fewer, is bounded as before.
LEMMA StaysBounded ==
  ASSUME Typed, Finite, NEW g \in Group, Bounded(g), owed'[g] = owed[g], Owe(g)' = Owe(g),
         InGroup(rows, g)' = InGroup(rows, g)
  PROVE  Bounded(g)'
  BY DEF Bounded, Most

LEMMA BoundedNext ==
  Typed /\ Finite /\ (\A g \in Group : Bounded(g)) /\ [Next]_vars => \A g \in Group : Bounded(g)'
<1> SUFFICES ASSUME Typed, Finite, \A g \in Group : Bounded(g), [Next]_vars, NEW g \in Group
             PROVE  Bounded(g)'
  OBVIOUS
<1>t. TypeOK /\ Carries /\ TypeOK' /\ Carries' /\ Finite' /\ Typed'
  BY TypedNext, FiniteNext DEF Typed
<1>n. /\ Most(g) \in Nat /\ owed[g] \in Nat /\ owed'[g] \in Nat
      /\ Cardinality(Owe(g)) \in Nat /\ Cardinality(Owe(g)') \in Nat
      /\ Cardinality(InGroup(rows, g)) \in Nat /\ Bounded(g)
  BY <1>t, MostIsNat, OweFinite, OweFiniteNext, GroupKeyed DEF TypeOK
<1>1. ASSUME NEW w \in Writer, NEW h \in Group, Stamp(w, h) PROVE Bounded(g)'
  <2>1. Owe(g)' = Owe(g)
    BY <1>1, <1>t DEF Stamp, Owe, At, Goto, TypeOK
  <2>2. QED
    BY <1>1, <1>n, <2>1, StaysBounded DEF Stamp, InGroup
<1>2. ASSUME NEW w \in Writer, Insert(w) PROVE Bounded(g)'
  <2>1. PICK i \in NextId(mine[w].group) :
          /\ rows' = rows \cup {[mine[w] EXCEPT !.id = i]}
          /\ mine' = [mine EXCEPT ![w] = [mine[w] EXCEPT !.id = i]]
    BY <1>2 DEF Insert
  <2> DEFINE row == [mine[w] EXCEPT !.id = i]
  <2>2. row.group = mine[w].group
    BY <1>2, <1>t DEF Insert, At, Carries, Draft
  <2>3. rows' = rows \cup {row} /\ mine' = [mine EXCEPT ![w] = row] /\ owed' = owed
    BY <1>2, <2>1 DEF Insert
  <2>4. pc[w] = "insert" /\ pc' = [pc EXCEPT ![w] = pc'[w]] /\ pc'[w] \in {"limit", "prune"}
    BY <1>2, <1>t DEF Insert, At, Goto, TypeOK
  <2> HIDE DEF row
  <2>5. CASE mine[w].group = g
    <3>1. InGroup(rows, g)' = InGroup(rows, g) \cup {row}
      BY <2>2, <2>3, <2>5 DEF InGroup
    <3>2. Owe(g)' = Owe(g) \cup {w} /\ w \notin Owe(g)
      BY <1>t, <2>2, <2>3, <2>4, <2>5 DEF Owe, TypeOK
    <3>3. Cardinality(Owe(g)') = Cardinality(Owe(g)) + 1
      BY <3>2, OweFinite, FS_AddElement
    <3>4. Cardinality(InGroup(rows, g)') <= Cardinality(InGroup(rows, g)) + 1
      <4>1. IsFiniteSet(InGroup(rows, g))
        BY GroupKeyed
      <4>2. \/ Cardinality(InGroup(rows, g) \cup {row}) = Cardinality(InGroup(rows, g))
            \/ Cardinality(InGroup(rows, g) \cup {row}) = Cardinality(InGroup(rows, g)) + 1
        BY <4>1, FS_AddElement, Zenon
      <4>3. QED
        BY <1>n, <3>1, <4>2
    <3>5. Cardinality(InGroup(rows, g)') \in Nat
      BY <1>t, <3>1, GroupKeyed, FS_AddElement, FS_CardinalityType
    <3>6. QED
      BY <1>n, <2>3, <3>3, <3>4, <3>5 DEF Bounded, Most
  <2>6. CASE mine[w].group # g
    <3>1. InGroup(rows, g)' = InGroup(rows, g)
      BY <2>2, <2>3, <2>6 DEF InGroup
    <3>2. Owe(g)' = Owe(g)
      BY <1>t, <2>2, <2>3, <2>4, <2>6 DEF Owe, TypeOK
    <3>3. QED
      BY <1>n, <2>3, <3>1, <3>2, StaysBounded
  <2>7. QED
    BY <2>5, <2>6
<1>3. ASSUME NEW w \in Writer, InsertFails(w) PROVE Bounded(g)'
  <2>1. Owe(g)' = Owe(g)
    BY <1>3, <1>t DEF InsertFails, Owe, At, Goto, Tell, TypeOK
  <2>2. QED
    BY <1>3, <1>n, <2>1, StaysBounded DEF InsertFails, InGroup
<1>4. ASSUME NEW w \in Writer, ReadLimit(w) PROVE Bounded(g)'
  <2>1. Owe(g)' = Owe(g)
    BY <1>4, <1>t DEF ReadLimit, Owe, At, Goto, TypeOK
  <2>2. QED
    BY <1>4, <1>n, <2>1, StaysBounded DEF ReadLimit, InGroup
<1>5. ASSUME NEW w \in Writer, Prune(w) PROVE Bounded(g)'
  <2>1. rows' = Pruned(rows, mine[w].group, Keep(w)) /\ mine' = mine
        /\ owed' = [owed EXCEPT ![mine[w].group] = 0]
    BY <1>5 DEF Prune
  <2>2. pc' = [pc EXCEPT ![w] = "idle"] /\ pc[w] = "prune"
    BY <1>5 DEF Prune, Tell, Goto, At
  <2>3. CASE mine[w].group = g
    <3>1. Keep(w) \in Nat /\ Keep(w) <= Most(g)
      <4>1. CASE g \in EventType
        <5>1. asked[w] \in Limits
          BY <1>t, <2>2, <2>3, <4>1 DEF Carries
        <5>2. QED
          BY <2>3, <4>1, <5>1, LimitsAtMostHighest, Zenon DEF Keep, Most
      <4>2. CASE g \notin EventType
        BY <2>3, <4>2 DEF Keep, Most
      <4>3. QED
        BY <4>1, <4>2
    <3>2. InGroup(rows, g)' = Newest(InGroup(rows, g), Keep(w))
      BY <2>1, <2>3 DEF Pruned, InGroup, Newest
    <3>3. Cardinality(InGroup(rows, g)') <= Keep(w)
      BY <3>1, <3>2, GroupKeyed, NewestAtMost
    <3>4. owed'[g] = 0
      BY <1>t, <2>1, <2>3 DEF TypeOK
    <3>5. Cardinality(InGroup(rows, g)') \in Nat
      BY <1>t, <3>2, GroupKeyed, FS_Subset, FS_CardinalityType DEF Newest
    <3>6. QED
      BY <1>n, <3>1, <3>3, <3>4, <3>5 DEF Bounded, Most
  <2>4. CASE mine[w].group # g
    <3>1. InGroup(rows, g)' = InGroup(rows, g)
      BY <2>1, <2>4 DEF Pruned, InGroup, Newest
    <3>2. Owe(g)' = Owe(g)
      BY <1>t, <2>1, <2>2, <2>4 DEF Owe, TypeOK
    <3>3. owed'[g] = owed[g]
      BY <1>t, <2>1, <2>4 DEF TypeOK
    <3>4. QED
      BY <1>n, <3>1, <3>2, <3>3, StaysBounded
  <2>5. QED
    BY <2>3, <2>4
<1>6. ASSUME NEW w \in Writer, PruneMissed(w) PROVE Bounded(g)'
  <2>1. rows' = rows /\ mine' = mine /\ owed' = [owed EXCEPT ![mine[w].group] = @ + 1]
        /\ pc[w] \in {"limit", "prune"} /\ pc' = [pc EXCEPT ![w] = "idle"]
    BY <1>6 DEF PruneMissed, Tell, Goto
  <2>2. InGroup(rows, g)' = InGroup(rows, g)
    BY <2>1 DEF InGroup
  <2>3. CASE mine[w].group = g
    <3>1. w \in Owe(g) /\ Owe(g)' = Owe(g) \ {w}
      BY <1>t, <2>1, <2>3 DEF Owe, TypeOK
    <3>2. Cardinality(Owe(g)') = Cardinality(Owe(g)) - 1
      BY <3>1, OweFinite, FS_RemoveElement
    <3>3. owed'[g] = owed[g] + 1
      BY <1>t, <2>1, <2>3 DEF TypeOK
    <3>4. QED
      BY <1>n, <2>2, <3>2, <3>3 DEF Bounded, Most
  <2>4. CASE mine[w].group # g
    <3>1. Owe(g)' = Owe(g)
      BY <1>t, <2>1, <2>4 DEF Owe, TypeOK
    <3>2. owed'[g] = owed[g]
      BY <1>t, <2>1, <2>4 DEF TypeOK
    <3>3. QED
      BY <1>n, <2>2, <3>1, <3>2, StaysBounded
  <2>5. QED
    BY <2>3, <2>4
<1>7. CASE Tick \/ (\E n \in Limits : EditLimit(n)) \/ UNCHANGED vars
  <2>1. UNCHANGED <<rows, owed, pc, mine>>
    BY <1>7 DEF Tick, EditLimit, vars
  <2>2. QED
    BY <1>n, <2>1, StaysBounded DEF InGroup, Owe
<1>8. QED
  BY <1>1, <1>2, <1>3, <1>4, <1>5, <1>6, <1>7, BoundsAssumption DEF Next, CleanupAudit, Group

\* audit-log.ts:201: a group outgrows what it keeps only by the rows that have
\* yet to be pruned and by the prunes that failed or died.
THEOREM GroupsStayBounded == Spec => []GroupsBounded
<1>1. Init => Finite /\ \A g \in Group : Bounded(g)
  <2>1. Init => Finite
    BY FS_EmptySet DEF Init, Finite
  <2>2. ASSUME Init, NEW g \in Group PROVE Bounded(g)
    <3>1. InGroup(rows, g) = {} /\ owed[g] = 0
      BY <2>2 DEF Init, InGroup
    <3>2. QED
      BY <3>1, FS_EmptySet, MostIsNat, OweFinite DEF Bounded
  <2>3. QED
    BY <2>1, <2>2
<1>2. (\A g \in Group : Bounded(g)) => GroupsBounded
  BY DEF Bounded, GroupsBounded, Owe
<1>3. Spec => [](\A g \in Group : Bounded(g))
  <2> DEFINE All == \A g \in Group : Bounded(g)
  <2>1. Init => Finite /\ All
    BY <1>1
  <2>2. Typed /\ Finite /\ All /\ [Next]_vars => All'
    BY BoundedNext
  <2> HIDE DEF All
  <2>3. Spec => []All
    BY <2>1, <2>2, FiniteNext, AlwaysTyped, PTL DEF Spec
  <2>4. QED
    BY <2>3 DEF All
<1>4. QED
  BY <1>2, <1>3, PTL
=============================================================================

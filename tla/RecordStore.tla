---------------------------- MODULE RecordStore ----------------------------
(* The rows that are kept for a while: audit events, the newest few of each *)
(* type, and worker benchmarks, the newest of each worker and suite.  A     *)
(* writer takes a time stamp, inserts on one connection, and prunes the     *)
(* group on another; an audit writer reads the configuration in between.    *)
(* Writers of several processes interleave at each of these points.         *)
EXTENDS Naturals, FiniteSets

CONSTANTS Writer,
          EventType,    \* groups of audit events: actor and action
          Suite,        \* groups of benchmarks: worker and suite
          Limits,       \* what storage.audit.maxPerType may be set to
          MaxRows,      \* bound: rows inserted in all
          MaxTime,      \* bound: ticks of the clock
          MaxEdits      \* bound: changes of the configuration

Cleanup == "cli:cleanup-audit"

ASSUME WritersAssumption == IsFiniteSet(Writer)
ASSUME BoundsAssumption == /\ MaxRows \in Nat /\ MaxTime \in Nat /\ MaxEdits \in Nat
                           /\ Limits \subseteq 1 .. 5 /\ Limits # {}
                           /\ EventType \cap Suite = {} /\ Cleanup \in EventType

Group == EventType \cup Suite
\* created_at or updated_at, and the id that breaks a tie
Row == [group : Group, stamp : 0 .. MaxTime, id : 1 .. MaxRows]
NoRow == [group |-> "none", stamp |-> 0, id |-> 0]
\* a row that has not been inserted yet
Draft == [group : Group, stamp : 0 .. MaxTime, id : {0}]
Answer == {"none", "written", "not-written", "threw", "died"}

VARIABLES rows,      \* audit_events and worker_benchmarks of data.db
          limit,     \* storage.audit.maxPerType
          now,
          pc, mine,  \* where a writer is, and the row it writes
          asked,     \* the limit a writer has read
          answer,    \* what its call came to
          edits,
          ever,      \* ghost: every row ever inserted
          owed       \* ghost: prunes that died or failed since the last one, per group
vars == <<rows, limit, now, pc, mine, asked, answer, edits, ever, owed>>

Init == /\ rows = {} /\ ever = {} /\ now = 0 /\ edits = 0
        /\ limit \in Limits
        /\ pc = [w \in Writer |-> "idle"]
        /\ mine = [w \in Writer |-> NoRow]
        /\ asked = [w \in Writer |-> 1]
        /\ answer = [w \in Writer |-> "none"]
        /\ owed = [g \in Group |-> 0]

Newer(r, s) == r.stamp > s.stamp \/ (r.stamp = s.stamp /\ r.id > s.id)
InGroup(S, g) == {r \in S : r.group = g}
\* ORDER BY stamp DESC, id DESC LIMIT n
Newest(S, n) == {r \in S : Cardinality({s \in S : Newer(s, r)}) < n}

At(w, place) == pc[w] = place
Goto(w, place) == pc' = [pc EXCEPT ![w] = place]
Tell(w, said) == Goto(w, "idle") /\ answer' = [answer EXCEPT ![w] = said]

\* the stamp is taken before the row is inserted; the id of an event is
\* random, that of a benchmark the next one
Stamp(w, g) ==
  /\ At(w, "idle")
  /\ mine' = [mine EXCEPT ![w] = [group |-> g, stamp |-> now, id |-> 0]]
  /\ answer' = [answer EXCEPT ![w] = "none"]
  /\ Goto(w, "insert")
  /\ UNCHANGED <<rows, limit, now, asked, edits, ever, owed>>

Unused(g) == {i \in 1 .. MaxRows : \A r \in InGroup(ever, g) : r.id # i}
\* mutant: ids by the number of rows
NextIdByCount(g) == {Cardinality(InGroup(rows, g)) + 1}
NextId(g) == IF g \in EventType THEN Unused(g)
             ELSE {i \in Unused(g) : \A r \in InGroup(ever, g) : r.id < i}

Insert(w) ==
  /\ At(w, "insert") /\ Cardinality(ever) < MaxRows
  /\ \E i \in NextId(mine[w].group) :
       LET row == [mine[w] EXCEPT !.id = i] IN
       /\ rows' = rows \cup {row} /\ ever' = ever \cup {row}
       /\ mine' = [mine EXCEPT ![w] = row]
  /\ Goto(w, IF mine[w].group \in EventType THEN "limit" ELSE "prune")
  /\ UNCHANGED <<limit, now, asked, answer, edits, owed>>

\* mutant: an event whose insert is refused is taken for written
RefusedUnseen(g) == IF g \in EventType THEN {"written", "threw"} ELSE {"threw"}
\* a busy or unwritable database: a benchmark throws; so does an event when
\* the store cannot be made ready or opened, and it is given up without a
\* word when only its insert is refused
Refused(g) == IF g \in EventType THEN {"not-written", "threw"} ELSE {"threw"}
InsertFails(w) ==
  /\ At(w, "insert")
  /\ \E said \in Refused(mine[w].group) : Tell(w, said)
  /\ UNCHANGED <<rows, limit, now, mine, asked, edits, ever, owed>>

\* loadCwConfig in pruneAuditEvents
ReadLimit(w) ==
  /\ At(w, "limit")
  /\ asked' = [asked EXCEPT ![w] = limit]
  /\ Goto(w, "prune")
  /\ UNCHANGED <<rows, limit, now, mine, answer, edits, ever, owed>>

\* mutant: the row just written does not count
KeepOneMore(w) == IF mine[w].group \in EventType THEN asked[w] + 1 ELSE 1
Keep(w) == IF mine[w].group \in EventType THEN asked[w] ELSE 1
\* mutant: the subquery forgets the group
PrunedOfAll(S, g, n) == (S \ InGroup(S, g)) \cup (InGroup(S, g) \cap Newest(S, n))
Pruned(S, g, n) == (S \ InGroup(S, g)) \cup Newest(InGroup(S, g), n)
Prune(w) ==
  /\ At(w, "prune")
  /\ rows' = Pruned(rows, mine[w].group, Keep(w))
  /\ owed' = [owed EXCEPT ![mine[w].group] = 0]
  /\ asked' = [asked EXCEPT ![w] = 1]
  /\ Tell(w, "written")
  /\ UNCHANGED <<limit, now, mine, edits, ever>>

\* the row is there and the caller gets an exception, or nobody is left
PruneMissed(w) ==
  /\ pc[w] \in {"limit", "prune"}
  /\ owed' = [owed EXCEPT ![mine[w].group] = @ + 1]
  /\ \/ At(w, "prune") /\ Tell(w, "threw")
     \/ Tell(w, "died")
  /\ asked' = [asked EXCEPT ![w] = 1]
  /\ UNCHANGED <<rows, limit, now, mine, edits, ever>>

\* `cw cleanup audit` looks for old .jsonl files in a directory of its own;
\* of the rows it touches none, and then writes an event like any other
CleanupAudit(w) == Stamp(w, Cleanup)

Tick == /\ now < MaxTime /\ now' = now + 1
        /\ UNCHANGED <<rows, limit, pc, mine, asked, answer, edits, ever, owed>>

\* the operator changes maxPerType; an unreadable file counts as 3
EditLimit(n) ==
  /\ n # limit /\ edits < MaxEdits
  /\ limit' = n /\ edits' = edits + 1
  /\ UNCHANGED <<rows, now, pc, mine, asked, answer, ever, owed>>

Next == \/ \E w \in Writer :
             \/ \E g \in Group \ {Cleanup} : Stamp(w, g)
             \/ CleanupAudit(w)
             \/ Insert(w) \/ InsertFails(w) \/ ReadLimit(w) \/ Prune(w) \/ PruneMissed(w)
        \/ Tick
        \/ \E n \in Limits : EditLimit(n)

Spec == Init /\ [][Next]_vars

-----------------------------------------------------------------------------
(* Properties.                                                              *)

Highest == CHOOSE n \in Limits : \A m \in Limits : m <= n
Lowest == CHOOSE n \in Limits : \A m \in Limits : n <= m
Least(g) == IF g \in EventType THEN Lowest ELSE 1
Most(g) == IF g \in EventType THEN Highest ELSE 1

\* Types of the store and of the writers; no two rows of a group share a key.
TypeOK ==
  /\ rows \subseteq Row /\ ever \subseteq Row /\ rows \subseteq ever
  /\ \A r, s \in ever : r.group = s.group /\ r.id = s.id => r = s
  /\ limit \in Limits /\ now \in 0 .. MaxTime /\ edits \in 0 .. MaxEdits
  /\ pc \in [Writer -> {"idle", "insert", "limit", "prune"}]
  /\ asked \in [Writer -> Limits \cup {1}]
  /\ answer \in [Writer -> Answer]
  /\ mine \in [Writer -> Row \cup Draft \cup {NoRow}]
  /\ owed \in [Group -> Nat]

\* audit-log.ts:90 and worker-benchmark-store.ts:44: a row is given up only
\* when as many newer rows of its own group were written as the group keeps;
\* the newest row of a group is never lost, whichever writer prunes with
\* whatever limit it has read, and whether its stamp came before or after
\* those of the rows around it.
NewestSurvive ==
  \A r \in ever \ rows :
    Cardinality({s \in InGroup(ever, r.group) : Newer(s, r)}) >= Least(r.group)

\* audit-log.ts:201: a group outgrows what it keeps only by the rows whose
\* writers have yet to prune, and by those whose prune failed or died.
GroupsBounded ==
  \A g \in Group :
    Cardinality(InGroup(rows, g)) <=
      Most(g) + owed[g]
        + Cardinality({w \in Writer : pc[w] \in {"limit", "prune"} /\ mine[w].group = g})

\* audit-log.ts:194 and worker-benchmark-store.ts:203: who is told "written"
\* has inserted its row, pruned since or not; who is told "not-written" has
\* left nothing behind.  An exception says neither: it may come before the
\* insert or after it.
AnswersAreTrue ==
  \A w \in Writer :
    /\ answer[w] = "written" => mine[w] \in ever
    /\ answer[w] = "not-written" => mine[w].id = 0
=============================================================================

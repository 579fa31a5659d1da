----------------------- MODULE WorkerExecutionProofs -----------------------
(***************************************************************************)
(* What holds of the calls for any tasks, profiles, workspace, subjects,   *)
(* answers and proposals: what a model is sent, and that a record is true  *)
(* of its call for good.                                                   *)
(***************************************************************************)
EXTENDS WorkerExecution, TLAPS

Kinds   == {"json-parse", "schema-validation", "provider-invocation"}
Classes == Kinds \cup {"none", "valid"}
Early   == {"admit", "select", "validate", "start", "resolve"}
Late    == {"record", "complete", "done"}
Places  == Early \cup {"invoke"} \cup Late \cup {"threw", "crashed"}

PackOf(request) ==
  RepositoryContextPack(Workspace, request.about.scope, request.about.names)
AnyReport == UNION {[about.checks -> {"not-configured", "dry-run"} \cup Outcomes] : about \in Subjects}

CallRecord ==
  [pc : Places, request : Requests,
   pack : {NoPack} \cup {PackOf(r) : r \in Requests}, given : SUBSET AnyReport,
   resolution : Resolutions \cup {Unresolved},
   state : {"not_executed", "executed", "blocked_by_policy"},
   attempt : 1..5, replies : [1..5 -> Classes], kind : Kinds, text : 0..5,
   last : {NoReply} \cup [class : {"valid"}, output : Answers \cup Proposals]]

-----------------------------------------------------------------------------
(* The invariant, of one call k with its record r and its events e.        *)

\* The bounds of a call, and its report.
Bounds(k) ==
  /\ k.attempt <= MaxAttempts(k.request.task) /\ k.text <= k.attempt
  /\ \A report \in k.given : DOMAIN report = k.request.about.checks

\* What was selected could be.
Packed(k) ==
  /\ k.pack = PackOf(k.request)
  /\ Selectable(Workspace, k.request.about.scope, k.request.about.names)

Selected(k) ==
  /\ k.pack = NoPack \/ Packed(k)
  /\ k.pc \in {"validate", "start", "resolve", "invoke"} \cup Late => Packed(k)
  /\ k.pc = "admit" => ByTool(k) \/ Packed(k)

\* The model may be asked.
Admitted(k) ==
  /\ k.request.require => Usable(k.resolution)
  /\ k.request.task # PatchTask =>
       \/ k.request.force
       \/ Usable(k.resolution) /\ Eligible(k.resolution.profile, k.request.task)

Unanswered(k) == k.last = NoReply /\ \A i \in 1..5 : k.replies[i] = "none"

Asking(k) ==
  /\ k.state = "executed" /\ k.last = NoReply
  /\ \A i \in 1..5 : k.replies[i] # "none" <=> i < k.attempt

\* The replies are over: there were none, or as many as attempts, and the
\* last one is what the call goes by.
Settled(k) ==
  \/ k.state # "executed" /\ Unanswered(k)
  \/ /\ k.state = "executed"
     /\ \A i \in 1..5 : k.replies[i] # "none" <=> i <= k.attempt
     /\ IF k.replies[k.attempt] = "valid" THEN k.last.class = "valid"
        ELSE k.last = NoReply /\ k.kind = k.replies[k.attempt]

Replied(k) ==
  /\ k.pc \in Early => Unanswered(k) /\ k.attempt = 1
  /\ k.pc = "invoke" => Asking(k) /\ Admitted(k)
  /\ k.pc \in Late => Settled(k)
  /\ k.replies[1] # "none" => Admitted(k)

\* A record is of a call that is settled, and says what it would say now.
Recorded(k, r) ==
  /\ k.pc = "complete" => k.request.dry \/ r # NoRecord
  /\ r # NoRecord =>
       /\ k.pc \in {"complete", "done", "threw", "crashed"} /\ ~k.request.dry
       /\ r = RecordOf(k) /\ Settled(k) /\ Packed(k)

Logged(k, r, e) ==
  /\ e \subseteq {"start", "complete"}
  /\ "complete" \in e => r # NoRecord
  /\ k.request.dry => e = {}

CallInv(k, r, e) ==
  /\ k \in CallRecord /\ Bounds(k) /\ Selected(k) /\ Replied(k)
  /\ Recorded(k, r) /\ Logged(k, r, e)

Inv ==
  /\ stored \in Resolutions
  /\ DOMAIN call = Calls /\ DOMAIN records = Calls /\ DOMAIN events = Calls
  /\ \A c \in Calls :
       IF Asked(c) THEN CallInv(call[c], records[c], events[c])
       ELSE records[c] = NoRecord /\ events[c] = {}

-----------------------------------------------------------------------------
(* A call that goes on to another place without more.                      *)

LEMMA PlaceOnly ==
  ASSUME NEW k \in CallRecord, NEW pc \in Places
  PROVE  LET next == [k EXCEPT !.pc = pc]
         IN  /\ next \in CallRecord /\ next.pc = pc
             /\ next.request = k.request /\ next.pack = k.pack /\ next.given = k.given
             /\ next.resolution = k.resolution /\ next.state = k.state
             /\ next.attempt = k.attempt /\ next.replies = k.replies /\ next.kind = k.kind
             /\ next.text = k.text /\ next.last = k.last
  BY DEF CallRecord

\* A record does not depend on the place of a call.
LEMMA SameRecord ==
  ASSUME NEW k \in CallRecord, NEW pc \in Places
  PROVE  RecordOf([k EXCEPT !.pc = pc]) = RecordOf(k)
<1> DEFINE next == [k EXCEPT !.pc = pc]
<1>1. /\ next.request = k.request /\ next.pack = k.pack /\ next.given = k.given
      /\ next.resolution = k.resolution /\ next.state = k.state
      /\ next.attempt = k.attempt /\ next.kind = k.kind /\ next.last = k.last
  BY PlaceOnly
<1> HIDE DEF next
<1>2. Evidence(next) = Evidence(k)
  BY <1>1 DEF Evidence
<1>3. Answered(next) = Answered(k)
  BY <1>1 DEF Answered
<1>4. Issues(next) = Issues(k)
  BY <1>1, <1>2, <1>3 DEF Issues
<1>5. HostStatus(next) = HostStatus(k) /\ Complete(next) = Complete(k)
  BY <1>1, <1>3, <1>4 DEF HostStatus, Complete
<1>6. HostFailure(next) = HostFailure(k)
  BY <1>1, <1>3, <1>5 DEF HostFailure
<1>7. Succeeded(next) = Succeeded(k)
  BY <1>1, <1>5 DEF Succeeded, NeedsHostReview, Overridden
<1>8. Proposal(next) = Proposal(k)
  BY <1>1, <1>3 DEF Proposal
<1>9. ProposalIssues(next) = ProposalIssues(k) /\ PatchAccepted(next) = PatchAccepted(k)
  BY <1>2, <1>8 DEF ProposalIssues, PatchAccepted
<1>10. RecordOf(next) = RecordOf(k)
  BY <1>1, <1>5, <1>6, <1>7, <1>9 DEF RecordOf
<1>11. QED
  BY <1>10 DEF next

LEMMA StatusOfResult ==
  ASSUME NEW issues
  PROVE  /\ ResultStatus(issues) \in {"ok", "blocked", "invalid_output", "needs_more_context"}
         /\ ResultStatus(issues) = "ok" <=> issues = {}
  BY DEF ResultStatus

LEMMA RecordTypes ==
  ASSUME NEW k \in CallRecord
  PROVE  /\ RecordOf(k).status \in {"ok", "blocked", "invalid_output", "needs_more_context"}
         /\ RecordOf(k).failure \in Kinds \cup {"none", "policy-blocked", "semantic-validation"}
         /\ RecordOf(k) # NoRecord
<1>1. HostStatus(k) \in {"ok", "blocked", "invalid_output", "needs_more_context"}
  BY StatusOfResult DEF HostStatus
<1>2. HostFailure(k) \in Kinds \cup {"none", "policy-blocked", "semantic-validation"}
  BY DEF HostFailure, CallRecord
<1>3. RecordOf(k).status \in {"ok", "blocked", "invalid_output", "needs_more_context"}
  BY <1>1, StatusOfResult DEF RecordOf
<1>4. RecordOf(k).failure \in Kinds \cup {"none", "policy-blocked", "semantic-validation"}
  BY <1>2 DEF RecordOf
<1>5. QED
  BY <1>3, <1>4 DEF NoRecord

-----------------------------------------------------------------------------
(* Steps of one call.                                                      *)

\* All others are left alone.
LEMMA OneCall ==
  ASSUME Inv, NEW c \in Calls, NEW k, NEW r, NEW e, CallInv(k, r, e),
         stored' \in Resolutions, call' = [call EXCEPT ![c] = k],
         DOMAIN records' = Calls, records'[c] = r,
         DOMAIN events' = Calls, events'[c] = e,
         \A d \in Calls \ {c} : records'[d] = records[d] /\ events'[d] = events[d]
  PROVE  Inv'
<1>1. DOMAIN call' = Calls /\ call'[c] = k /\ \A d \in Calls \ {c} : call'[d] = call[d]
  BY DEF Inv
<1>2. k # Unstarted
  <2>1. k.pc \in Places
    BY DEF CallInv, CallRecord
  <2>2. Unstarted.pc = "idle" /\ "idle" \notin Places
    BY DEF Unstarted, Places, Early, Late
  <2>3. QED
    BY <2>1, <2>2
<1>3. ASSUME NEW d \in Calls
      PROVE  IF Asked(d)' THEN CallInv(call'[d], records'[d], events'[d])
             ELSE records'[d] = NoRecord /\ events'[d] = {}
  <2>1. CASE d = c
    BY <1>1, <1>2, <2>1 DEF Asked
  <2>2. CASE d # c
    <3>1. call'[d] = call[d] /\ records'[d] = records[d] /\ events'[d] = events[d]
      BY <1>1, <2>2
    <3>2. QED
      BY <3>1 DEF Inv, Asked
  <2>3. QED
    BY <2>1, <2>2
<1>4. QED
  BY <1>1, <1>3 DEF Inv

LEMMA Moves ==
  ASSUME NEW k, NEW r, NEW e, CallInv(k, r, e), NEW pc \in Places, NEW logged,
         pc # "invoke", pc \in Early => k.pc \in Early, pc \in Late => k.pc \in Late,
         pc \in {"validate", "start", "resolve"} \cup Late => Packed(k),
         pc = "admit" => ByTool(k) \/ Packed(k),
         pc = "complete" => k.request.dry \/ r # NoRecord,
         r # NoRecord => pc \in {"complete", "done", "threw", "crashed"},
         Logged(k, r, logged)
  PROVE  CallInv([k EXCEPT !.pc = pc], r, logged)
<1> DEFINE next == [k EXCEPT !.pc = pc]
<1>1. k \in CallRecord
  BY DEF CallInv
<1>2. /\ next \in CallRecord /\ next.pc = pc
      /\ next.request = k.request /\ next.pack = k.pack /\ next.given = k.given
      /\ next.resolution = k.resolution /\ next.state = k.state
      /\ next.attempt = k.attempt /\ next.replies = k.replies /\ next.kind = k.kind
      /\ next.text = k.text /\ next.last = k.last
  BY <1>1, PlaceOnly
<1>3. RecordOf(next) = RecordOf(k)
  BY <1>1, SameRecord
<1> HIDE DEF next
<1>4. Bounds(next)
  BY <1>2 DEF CallInv, Bounds
<1>5. (Packed(next) <=> Packed(k)) /\ (ByTool(next) <=> ByTool(k))
  BY <1>2 DEF Packed, ByTool
<1>6. Selected(next)
  BY <1>2, <1>5 DEF CallInv, Selected
<1>7. (Settled(next) <=> Settled(k)) /\ (Admitted(next) <=> Admitted(k))
      /\ (Unanswered(next) <=> Unanswered(k))
  BY <1>2 DEF Settled, Unanswered, Admitted
<1>8. Replied(next)
  BY <1>2, <1>7 DEF CallInv, Replied
<1>9. Recorded(next, r)
  BY <1>2, <1>3, <1>5, <1>7 DEF CallInv, Recorded
<1>10. Logged(next, r, logged)
  BY <1>2 DEF Logged
<1>11. CallInv(next, r, logged)
  BY <1>2, <1>4, <1>6, <1>8, <1>9, <1>10 DEF CallInv
<1>12. QED
  BY <1>11 DEF next

\* A call that has no record yet, put together anew.
LEMMA Goes ==
  ASSUME NEW k \in CallRecord, NEW e, Bounds(k), Selected(k), Replied(k), Logged(k, NoRecord, e),
         k.pc # "complete"
  PROVE  CallInv(k, NoRecord, e)
  BY DEF CallInv, Recorded

LEMMA Unqualified == \A taskType : ~Eligible(Unavailable, taskType)
  BY DEF Eligible, Unavailable

LEMMA AskStep ==
  ASSUME Inv, NEW c \in Calls, NEW request \in Requests, Ask(c, request) PROVE Inv'
<1> DEFINE k == [pc |-> IF request.task # PatchTask /\ request.about.caller = "tool"
                        THEN "admit" ELSE "select",
                 request |-> request, pack |-> NoPack, given |-> {}, resolution |-> Unresolved,
                 state |-> "not_executed", attempt |-> 1, replies |-> [i \in 1..5 |-> "none"],
                 kind |-> "provider-invocation", text |-> 0, last |-> NoReply]
<1>1. call' = [call EXCEPT ![c] = k] /\ UNCHANGED <<stored, records, events>>
  BY DEF Ask, Become
<1>2. records[c] = NoRecord /\ events[c] = {}
  BY DEF Ask, Inv, Asked
<1>3. k \in CallRecord
  BY DEF CallRecord, Places, Early, Late, Kinds, Classes
<1>4. Bounds(k)
  BY AttemptsAssumption DEF Bounds, MaxAttempts
<1>5. Selected(k)
  BY DEF Selected, ByTool, Late
<1>6. Replied(k)
  BY DEF Replied, Unanswered, Early, Late
<1>7. Logged(k, NoRecord, {})
  BY DEF Logged
<1>8. k.pc # "complete"
  OBVIOUS
<1> HIDE DEF k
<1>9. CallInv(k, NoRecord, {})
  BY <1>3, <1>4, <1>5, <1>6, <1>7, <1>8, Goes
<1>10. QED
  BY <1>1, <1>2, <1>9, OneCall DEF Inv

\* The actions that change no more than the place of a call.
LEMMA GoStep ==
  ASSUME Inv, NEW c \in Calls, Asked(c), NEW pc \in Places, Go(c, pc),
         UNCHANGED <<stored, records, events>>,
         pc # "invoke", pc \in Early => call[c].pc \in Early, pc \in Late => call[c].pc \in Late,
         pc \in {"validate", "start", "resolve"} \cup Late => Packed(call[c]),
         pc = "admit" => ByTool(call[c]) \/ Packed(call[c]),
         pc = "complete" => call[c].request.dry \/ records[c] # NoRecord,
         records[c] # NoRecord => pc \in {"complete", "done", "threw", "crashed"}
  PROVE  Inv'
<1> DEFINE k == [call[c] EXCEPT !.pc = pc]
<1>1. call' = [call EXCEPT ![c] = k]
  BY DEF Go, Become
<1>2. CallInv(call[c], records[c], events[c]) /\ Logged(call[c], records[c], events[c])
  BY DEF Inv, CallInv
<1>3. CallInv(k, records[c], events[c])
  BY <1>2, Moves
<1> HIDE DEF k
<1>4. QED
  BY <1>1, <1>3, OneCall DEF Inv

LEMMA PlacedIsAsked == ASSUME NEW c, call[c].pc # "idle" PROVE Asked(c)
  BY DEF Asked, Unstarted

LEMMA AdmitStep == ASSUME Inv, NEW c \in Calls, Admit(c) PROVE Inv'
<1>1. call[c].pc = "admit" /\ Asked(c)
  BY PlacedIsAsked DEF Admit
<1>2. CallInv(call[c], records[c], events[c])
  BY <1>1 DEF Inv
<1>3. records[c] = NoRecord /\ (ByTool(call[c]) \/ Packed(call[c]))
  BY <1>1, <1>2 DEF CallInv, Recorded, Selected
<1>4. PICK pc \in {"threw", "select", "start"} :
        Go(c, pc) /\ (pc = "start" => ~ByTool(call[c])) /\ UNCHANGED <<stored, records, events>>
  BY DEF Admit
<1>5. pc \in Places /\ pc # "invoke" /\ pc \notin Late /\ call[c].pc \in Early
  BY <1>1 DEF Places, Early, Late
<1>6. QED
  BY <1>1, <1>3, <1>4, <1>5, GoStep

LEMMA CrashStep == ASSUME Inv, NEW c \in Calls, Crash(c) PROVE Inv'
<1>1. Asked(c) /\ Go(c, "crashed") /\ UNCHANGED <<stored, records, events>>
  BY PlacedIsAsked DEF Crash, Active
<1>2. "crashed" \in Places /\ "crashed" \notin Early \cup Late
  BY DEF Places, Early, Late
<1>3. QED
  BY <1>1, <1>2, GoStep

LEMMA SelectStep == ASSUME Inv, NEW c \in Calls, Select(c) PROVE Inv'
<1> DEFINE k == call[c]
           about == k.request.about
<1>1. k.pc = "select" /\ Asked(c) /\ UNCHANGED <<stored, records, events>>
  BY PlacedIsAsked DEF Select
<1>2. CallInv(k, records[c], events[c])
  BY <1>1 DEF Inv
<1>3. records[c] = NoRecord /\ Logged(k, NoRecord, events[c]) /\ k \in CallRecord
      /\ Unanswered(k) /\ k.attempt = 1 /\ Bounds(k)
  BY <1>1, <1>2 DEF CallInv, Recorded, Replied, Early
<1>4. CASE Selectable(Workspace, about.scope, about.names)
  <2> DEFINE pc == IF ~ByTool(k) THEN "validate" ELSE IF Host(k) THEN "start" ELSE "resolve"
             next == [k EXCEPT !.pack = PackOf(k.request), !.pc = pc]
  <2>1. call' = [call EXCEPT ![c] = next]
    BY <1>4 DEF Select, Become, PackOf
  <2>2. pc \in Early /\ pc \in Places /\ pc \notin {"invoke", "admit", "complete"} \cup Late
    BY DEF Early, Late, Places
  <2> HIDE DEF pc
  <2>3. PackOf(k.request) \in {PackOf(r) : r \in Requests}
    BY <1>3 DEF CallRecord
  <2>4. /\ next \in CallRecord /\ next.pc = pc /\ next.pack = PackOf(k.request)
        /\ next.request = k.request /\ next.given = k.given
        /\ next.attempt = k.attempt /\ next.replies = k.replies
        /\ next.text = k.text /\ next.last = k.last
    BY <1>3, <2>2, <2>3 DEF CallRecord
  <2> HIDE DEF next
  <2>5. Packed(next)
    BY <1>4, <2>4 DEF Packed
  <2>6. Bounds(next) /\ Selected(next) /\ Logged(next, NoRecord, events[c])
    BY <1>3, <2>2, <2>4, <2>5 DEF Bounds, Selected, Logged
  <2>7. Replied(next)
    BY <1>3, <2>2, <2>4 DEF Replied, Unanswered
  <2>8. CallInv(next, NoRecord, events[c])
    BY <2>2, <2>4, <2>6, <2>7, Goes
  <2>9. QED
    BY <1>1, <1>3, <2>1, <2>8, OneCall DEF Inv
<1>5. CASE ~Selectable(Workspace, about.scope, about.names)
  <2>1. Go(c, "threw")
    BY <1>5 DEF Select
  <2>2. "threw" \in Places /\ "threw" \notin Early \cup Late
    BY DEF Places, Early, Late
  <2>3. QED
    BY <1>1, <2>1, <2>2, GoStep
<1>6. QED
  BY <1>4, <1>5

LEMMA ReportsAreReports ==
  ASSUME NEW scope, NEW dry, NEW about \in Subjects,
         NEW report \in Reports(Workspace, scope, dry, about.checks)
  PROVE  report \in AnyReport /\ DOMAIN report = about.checks
  BY DEF Reports, AnyReport, Outcomes

LEMMA ValidateStep == ASSUME Inv, NEW c \in Calls, Validate(c) PROVE Inv'
<1> DEFINE k == call[c]
           checks == k.request.about.checks
<1>1. k.pc = "validate" /\ Asked(c) /\ UNCHANGED <<stored, records, events>>
  BY PlacedIsAsked DEF Validate
<1>2. CallInv(k, records[c], events[c])
  BY <1>1 DEF Inv
<1>3. records[c] = NoRecord /\ Logged(k, NoRecord, events[c]) /\ k \in CallRecord
      /\ Unanswered(k) /\ k.attempt = 1 /\ Bounds(k) /\ Packed(k)
  BY <1>1, <1>2 DEF CallInv, Recorded, Replied, Selected, Early
<1>4. ASSUME NEW report \in Reports(Workspace, k.pack.scope, k.request.dry, checks),
             Become(c, [k EXCEPT !.given = {report}, !.pc = IF Host(k) THEN "admit" ELSE "resolve"])
      PROVE  Inv'
  <2> DEFINE pc == IF Host(k) THEN "admit" ELSE "resolve"
             next == [k EXCEPT !.given = {report}, !.pc = pc]
  <2>1. call' = [call EXCEPT ![c] = next]
    BY <1>4 DEF Become
  <2>2. pc \in Early /\ pc \in Places /\ pc \notin {"invoke", "complete"} \cup Late
    BY DEF Early, Late, Places
  <2> HIDE DEF pc
  <2>3. report \in AnyReport /\ DOMAIN report = checks
    <3>1. k.request.about \in Subjects
      BY <1>3 DEF CallRecord, Requests
    <3>2. QED
      BY <1>4, <3>1, ReportsAreReports
  <2>4. /\ next \in CallRecord /\ next.pc = pc /\ next.pack = k.pack
        /\ next.request = k.request /\ next.given = {report}
        /\ next.attempt = k.attempt /\ next.replies = k.replies
        /\ next.text = k.text /\ next.last = k.last
    BY <1>3, <2>2, <2>3 DEF CallRecord
  <2> HIDE DEF next
  <2>5. Packed(next)
    BY <1>3, <2>4 DEF Packed
  <2>6. Bounds(next) /\ Selected(next) /\ Logged(next, NoRecord, events[c])
    BY <1>3, <2>2, <2>3, <2>4, <2>5 DEF Bounds, Selected, Logged
  <2>7. Replied(next)
    BY <1>3, <2>2, <2>4 DEF Replied, Unanswered
  <2>8. CallInv(next, NoRecord, events[c])
    BY <2>2, <2>4, <2>6, <2>7, Goes
  <2>9. QED
    BY <1>1, <1>3, <2>1, <2>8, OneCall DEF Inv
<1>5. CASE Go(c, "threw")
  <2>1. "threw" \in Places /\ "threw" \notin Early \cup Late
    BY DEF Places, Early, Late
  <2>2. QED
    BY <1>1, <1>5, <2>1, GoStep
<1>6. QED
  BY <1>4, <1>5 DEF Validate

\* An event is written, or not, and the call goes on or throws.
LEMMA WriteEventStep ==
  ASSUME Inv, NEW c \in Calls, Asked(c), NEW event \in {"start", "complete"},
         NEW next \in {"resolve", "done"}, WriteEvent(c, event, next), UNCHANGED <<stored, records>>,
         event = "complete" => call[c].request.dry \/ records[c] # NoRecord,
         next = "resolve" => call[c].pc \in Early /\ records[c] = NoRecord,
         next = "done" => call[c].pc \in Late,
         Packed(call[c])
  PROVE  Inv'
<1>1. PICK pc \in {next, "threw"} : Go(c, pc)
  BY DEF WriteEvent
<1> DEFINE k == [call[c] EXCEPT !.pc = pc]
<1>2. call' = [call EXCEPT ![c] = k]
  BY <1>1 DEF Go, Become
<1>3. CallInv(call[c], records[c], events[c]) /\ Logged(call[c], records[c], events[c])
  BY DEF Inv, CallInv
<1>4. /\ events'[c] = events[c] \/ (~call[c].request.dry /\ events'[c] = events[c] \cup {event})
      /\ DOMAIN events' = Calls /\ \A d \in Calls \ {c} : events'[d] = events[d]
  BY DEF WriteEvent, Inv
<1>5. Logged(call[c], records[c], events'[c])
  BY <1>3, <1>4 DEF Logged
<1>6. pc \in Places /\ pc \notin {"invoke", "admit", "complete"}
      /\ (pc \in Early => next = "resolve") /\ (pc \in Late => next = "done")
  BY DEF Places, Early, Late
<1>7. records[c] # NoRecord => pc \in {"done", "threw"}
  OBVIOUS
<1>8. CallInv(k, records[c], events'[c])
  BY <1>3, <1>5, <1>6, <1>7, Moves
<1> HIDE DEF k
<1>9. QED
  BY <1>2, <1>4, <1>8, OneCall DEF Inv

LEMMA StartStep == ASSUME Inv, NEW c \in Calls, Start(c) PROVE Inv'
<1>1. call[c].pc = "start" /\ Asked(c)
  BY PlacedIsAsked DEF Start
<1>2. CallInv(call[c], records[c], events[c])
  BY <1>1 DEF Inv
<1>3. records[c] = NoRecord /\ Packed(call[c]) /\ call[c].pc \in Early
  BY <1>1, <1>2 DEF CallInv, Recorded, Selected, Early
<1>4. QED
  BY <1>1, <1>3, WriteEventStep DEF Start

LEMMA FinishStep == ASSUME Inv, NEW c \in Calls, Finish(c) PROVE Inv'
<1>1. call[c].pc = "complete" /\ Asked(c)
  BY PlacedIsAsked DEF Finish
<1>2. CallInv(call[c], records[c], events[c])
  BY <1>1 DEF Inv
<1>3. (call[c].request.dry \/ records[c] # NoRecord) /\ Packed(call[c]) /\ call[c].pc \in Late
  BY <1>1, <1>2 DEF CallInv, Recorded, Selected, Late
<1>4. QED
  BY <1>1, <1>3, WriteEventStep DEF Finish

\* A call that has resolved its profile.
LEMMA ResolvedStep ==
  ASSUME Inv, NEW c \in Calls, call[c].pc = "resolve",
         NEW state \in {"executed", "blocked_by_policy"}, NEW pc \in {"invoke", "record", "threw"},
         Become(c, [call[c] EXCEPT !.resolution = stored, !.state = state, !.pc = pc]),
         UNCHANGED <<stored, records, events>>,
         pc = "record" => state = "blocked_by_policy",
         pc = "invoke" =>
           /\ state = "executed"
           /\ call[c].request.require => Usable(stored)
           /\ call[c].request.task # PatchTask =>
                \/ call[c].request.force
                \/ Usable(stored) /\ Eligible(stored.profile, call[c].request.task)
  PROVE  Inv'
<1> DEFINE k == call[c]
           next == [k EXCEPT !.resolution = stored, !.state = state, !.pc = pc]
<1>1. Asked(c) /\ CallInv(k, records[c], events[c]) /\ stored \in Resolutions
  BY PlacedIsAsked DEF Inv
<1>2. records[c] = NoRecord /\ Logged(k, NoRecord, events[c]) /\ k \in CallRecord
      /\ Unanswered(k) /\ k.attempt = 1 /\ Bounds(k) /\ Packed(k)
  BY <1>1 DEF CallInv, Recorded, Replied, Selected, Early
<1>3. pc \in Places /\ pc \notin Early /\ pc \notin {"admit", "complete"}
      /\ (pc \in Late => pc = "record")
  BY DEF Early, Late, Places
<1>4. /\ next \in CallRecord /\ next.pc = pc /\ next.pack = k.pack
      /\ next.request = k.request /\ next.given = k.given
      /\ next.resolution = stored /\ next.state = state
      /\ next.attempt = k.attempt /\ next.replies = k.replies
      /\ next.text = k.text /\ next.last = k.last
  BY <1>1, <1>2, <1>3 DEF CallRecord
<1>5. call' = [call EXCEPT ![c] = next]
  BY DEF Become
<1> HIDE DEF next
<1>6. Packed(next)
  BY <1>2, <1>4 DEF Packed
<1>7. Bounds(next) /\ Selected(next) /\ Logged(next, NoRecord, events[c])
  BY <1>2, <1>3, <1>4, <1>6 DEF Bounds, Selected, Logged
<1>8. Unanswered(next) /\ next.attempt = 1
  BY <1>2, <1>4 DEF Unanswered
<1>9. pc = "invoke" => Asking(next) /\ Admitted(next)
  BY <1>4, <1>8 DEF Asking, Admitted, Unanswered
<1>10. pc \in Late => Settled(next)
  BY <1>3, <1>4, <1>8 DEF Settled
<1>11. Replied(next)
  BY <1>3, <1>4, <1>8, <1>9, <1>10 DEF Replied, Unanswered
<1>12. CallInv(next, NoRecord, events[c])
  BY <1>3, <1>4, <1>7, <1>11, Goes
<1>13. QED
  BY <1>1, <1>2, <1>5, <1>12, OneCall DEF Inv

LEMMA ResolveHostStep == ASSUME Inv, NEW c \in Calls, ResolveHost(c) PROVE Inv'
<1> DEFINE request == call[c].request
           profile == HostProfile(stored)
           allowed == Eligible(profile, request.task)
           override == request.force /\ ~allowed
           state == IF allowed \/ override THEN "executed" ELSE "blocked_by_policy"
           pc == IF request.require /\ ~Usable(stored) THEN "threw"
                 ELSE IF override THEN "invoke"
                 ELSE IF ~allowed THEN "record"
                 ELSE IF Routed(profile, request.task) THEN "invoke" ELSE "threw"
<1>1. allowed => Usable(stored) /\ Eligible(stored.profile, request.task)
  BY Unqualified DEF HostProfile
<1>2. /\ call[c].pc = "resolve" /\ UNCHANGED <<stored, records, events>>
      /\ Become(c, [call[c] EXCEPT !.resolution = stored, !.state = state, !.pc = pc])
  BY DEF ResolveHost
<1>3. state \in {"executed", "blocked_by_policy"} /\ pc \in {"invoke", "record", "threw"}
  OBVIOUS
<1>4. pc = "record" => state = "blocked_by_policy"
  OBVIOUS
<1>5. pc = "invoke" =>
        /\ state = "executed"
        /\ request.require => Usable(stored)
        /\ request.force \/ (Usable(stored) /\ Eligible(stored.profile, request.task))
  BY <1>1
<1> HIDE DEF state, pc, allowed, override
<1>6. QED
  BY <1>2, <1>3, <1>4, <1>5, ResolvedStep

LEMMA ResolvePatchStep == ASSUME Inv, NEW c \in Calls, ResolvePatch(c) PROVE Inv'
<1> DEFINE request == call[c].request
           state == IF PatchDenied(stored) THEN "blocked_by_policy" ELSE "executed"
           pc == IF request.require /\ ~Usable(stored) THEN "threw"
                 ELSE IF PatchDenied(stored) THEN "record" ELSE "invoke"
<1>1. /\ call[c].pc = "resolve" /\ UNCHANGED <<stored, records, events>>
      /\ Become(c, [call[c] EXCEPT !.resolution = stored, !.state = state, !.pc = pc])
      /\ request.task = PatchTask
  BY DEF ResolvePatch
<1>2. state \in {"executed", "blocked_by_policy"} /\ pc \in {"invoke", "record", "threw"}
  OBVIOUS
<1>3. pc = "record" => state = "blocked_by_policy"
  OBVIOUS
<1>4. pc = "invoke" => state = "executed" /\ (request.require => Usable(stored))
  OBVIOUS
<1> HIDE DEF state, pc
<1>5. QED
  BY <1>1, <1>2, <1>3, <1>4, ResolvedStep

\* A reply that is heard: the call asks again, or it is settled.
LEMMA HeardStep ==
  ASSUME Inv, NEW c \in Calls, call[c].pc = "invoke", NEW class \in Classes \ {"none"}, NEW next,
         call' = [call EXCEPT ![c] = next], UNCHANGED <<stored, records, events>>,
         next \in CallRecord, Bounds(next),
         next.request = call[c].request, next.pack = call[c].pack,
         next.resolution = call[c].resolution, next.state = call[c].state,
         next.replies = [call[c].replies EXCEPT ![call[c].attempt] = class],
         \/ next.pc = "invoke" /\ next.attempt = call[c].attempt + 1 /\ next.last = NoReply
         \/ /\ next.pc = "record" /\ next.attempt = call[c].attempt
            /\ IF class = "valid" THEN next.last.class = "valid"
               ELSE next.last = NoReply /\ next.kind = class
  PROVE  Inv'
<1> DEFINE k == call[c]
<1>1. Asked(c) /\ CallInv(k, records[c], events[c])
  BY PlacedIsAsked DEF Inv
<1>2. records[c] = NoRecord /\ Logged(k, NoRecord, events[c]) /\ k \in CallRecord
      /\ Asking(k) /\ Admitted(k) /\ Packed(k)
  BY <1>1 DEF CallInv, Recorded, Replied, Selected
<1>3. Packed(next) /\ Admitted(next) /\ Logged(next, NoRecord, events[c])
  BY <1>2 DEF Packed, Admitted, Logged
<1>4. Selected(next)
  BY <1>3 DEF Selected
<1>5. \A i \in 1..5 : next.replies[i] # "none" <=> i <= k.attempt
  BY <1>2 DEF Asking, CallRecord
<1>6. next.replies[k.attempt] = class /\ k.attempt \in 1..5 /\ k.state = "executed"
  BY <1>2 DEF CallRecord, Asking
<1>7. CASE next.pc = "invoke"
  <2>1. Asking(next)
    BY <1>5, <1>6, <1>7 DEF Asking
  <2>2. Replied(next)
    BY <1>3, <1>7, <2>1 DEF Replied, Early, Late
  <2>3. CallInv(next, NoRecord, events[c])
    BY <1>3, <1>4, <1>7, <2>2, Goes
  <2>4. QED
    BY <1>1, <1>2, <2>3, OneCall DEF Inv
<1>8. CASE next.pc = "record"
  <2>1. Settled(next)
    BY <1>5, <1>6, <1>8 DEF Settled
  <2>2. Replied(next)
    BY <1>3, <1>8, <2>1 DEF Replied, Early, Late
  <2>3. CallInv(next, NoRecord, events[c])
    BY <1>3, <1>4, <1>8, <2>2, Goes
  <2>4. QED
    BY <1>1, <1>2, <2>3, OneCall DEF Inv
<1>9. QED
  BY <1>7, <1>8

\* What a call in which the model is asked is like.
LEMMA Invoked ==
  ASSUME Inv, NEW c \in Calls, call[c].pc = "invoke"
  PROVE  /\ call[c] \in CallRecord /\ Bounds(call[c]) /\ call[c].last = NoReply
         /\ MaxAttempts(call[c].request.task) \in 1..5
<1>1. CallInv(call[c], records[c], events[c])
  BY PlacedIsAsked DEF Inv
<1>2. QED
  BY <1>1, AttemptsAssumption DEF CallInv, Replied, Asking, MaxAttempts

LEMMA HeardFields ==
  ASSUME NEW k \in CallRecord, NEW class \in Classes
  PROVE  LET h == Heard(k, class)
         IN  /\ h \in CallRecord /\ h.pc = k.pc /\ h.text = k.text /\ h.last = k.last
             /\ h.request = k.request /\ h.pack = k.pack /\ h.given = k.given
             /\ h.resolution = k.resolution /\ h.state = k.state /\ h.attempt = k.attempt
             /\ h.kind = k.kind /\ h.replies = [k.replies EXCEPT ![k.attempt] = class]
  BY DEF Heard, CallRecord

LEMMA ValidStep ==
  ASSUME Inv, NEW c \in Calls, NEW output \in Outputs(call[c].request.task), Valid(c, output)
  PROVE  Inv'
<1> DEFINE k == call[c]
           answer == [class |-> "valid", output |-> output]
           h == Heard(k, "valid")
           next == [h EXCEPT !.pc = "record", !.text = k.attempt, !.last = answer]
<1>1. k.pc = "invoke" /\ call' = [call EXCEPT ![c] = next] /\ UNCHANGED <<stored, records, events>>
  BY DEF Valid, Become
<1>2. k \in CallRecord /\ Bounds(k)
  BY <1>1, Invoked
<1>3. answer \in [class : {"valid"}, output : Answers \cup Proposals] /\ answer.class = "valid"
  BY DEF Outputs
<1> HIDE DEF answer
<1>4. /\ next \in CallRecord /\ next.pc = "record" /\ next.text = k.attempt /\ next.last = answer
      /\ next.request = k.request /\ next.pack = k.pack /\ next.given = k.given
      /\ next.resolution = k.resolution /\ next.state = k.state /\ next.attempt = k.attempt
      /\ next.replies = [k.replies EXCEPT ![k.attempt] = "valid"]
  <2>1. /\ h \in CallRecord
        /\ h.request = k.request /\ h.pack = k.pack /\ h.given = k.given
        /\ h.resolution = k.resolution /\ h.state = k.state /\ h.attempt = k.attempt
        /\ h.replies = [k.replies EXCEPT ![k.attempt] = "valid"]
    BY <1>2, HeardFields DEF Classes
  <2>2. k.attempt \in 0..5
    BY <1>2 DEF CallRecord
  <2>3. "record" \in Places
    BY DEF Places, Late
  <2> HIDE DEF h
  <2>4. QED
    BY <1>3, <2>1, <2>2, <2>3 DEF CallRecord
<1> HIDE DEF next
<1>5. Bounds(next)
  BY <1>2, <1>4 DEF Bounds, CallRecord
<1>6. QED
  BY <1>1, <1>3, <1>4, <1>5, HeardStep DEF Classes

LEMMA MalformedStep ==
  ASSUME Inv, NEW c \in Calls, NEW class \in {"json-parse", "schema-validation"}, Malformed(c, class)
  PROVE  Inv'
<1> DEFINE k == call[c]
           h == Heard(k, class)
           heard == [h EXCEPT !.text = k.attempt, !.kind = FailureKind(k, class)]
           again == [heard EXCEPT !.attempt = NextAttempt(heard.attempt)]
           over == [heard EXCEPT !.pc = "record"]
           max == MaxAttempts(k.request.task)
<1>1. k.pc = "invoke" /\ UNCHANGED <<stored, records, events>>
      /\ call' = [call EXCEPT ![c] = IF heard.attempt < MaxAttempts(heard.request.task)
                                     THEN again ELSE over]
  BY DEF Malformed, Become
<1>2. k \in CallRecord /\ Bounds(k) /\ k.last = NoReply /\ max \in 1..5
  BY <1>1, Invoked
<1>3. /\ heard \in CallRecord /\ heard.pc = k.pc /\ heard.text = k.attempt /\ heard.last = k.last
      /\ heard.request = k.request /\ heard.pack = k.pack /\ heard.given = k.given
      /\ heard.resolution = k.resolution /\ heard.state = k.state /\ heard.attempt = k.attempt
      /\ heard.kind = class /\ heard.replies = [k.replies EXCEPT ![k.attempt] = class]
  <2>1. /\ h \in CallRecord /\ h.pc = k.pc /\ h.last = k.last
        /\ h.request = k.request /\ h.pack = k.pack /\ h.given = k.given
        /\ h.resolution = k.resolution /\ h.state = k.state /\ h.attempt = k.attempt
        /\ h.replies = [k.replies EXCEPT ![k.attempt] = class]
    BY <1>2, HeardFields DEF Classes, Kinds
  <2>2. k.attempt \in 0..5
    BY <1>2 DEF CallRecord
  <2>3. FailureKind(k, class) = class /\ class \in Kinds
    BY DEF FailureKind, Kinds
  <2> HIDE DEF h
  <2>4. QED
    BY <2>1, <2>2, <2>3 DEF CallRecord
<1>4. class \in Classes \ {"none"} /\ class # "valid"
  BY DEF Classes, Kinds
<1>5. k.attempt \in 1..5 /\ k.attempt <= max
  BY <1>2 DEF CallRecord, Bounds
<1> HIDE DEF heard
<1>6. CASE k.attempt < max
  <2>1. call' = [call EXCEPT ![c] = again]
    BY <1>1, <1>3, <1>6
  <2>2. k.attempt + 1 \in 1..5
    BY <1>2, <1>5, <1>6
  <2>3. /\ again \in CallRecord /\ again.pc = "invoke" /\ again.text = k.attempt
        /\ again.last = NoReply /\ again.request = k.request /\ again.pack = k.pack
        /\ again.given = k.given /\ again.resolution = k.resolution /\ again.state = k.state
        /\ again.attempt = k.attempt + 1 /\ again.replies = heard.replies
    BY <1>1, <1>2, <1>3, <2>2 DEF CallRecord, NextAttempt
  <2> HIDE DEF again
  <2>4. Bounds(again)
    BY <1>2, <1>5, <1>6, <2>3 DEF Bounds
  <2>5. QED
    <3>1. again.replies = [k.replies EXCEPT ![k.attempt] = class]
      BY <1>3, <2>3
    <3>2. again.pc = "invoke" /\ again.attempt = call[c].attempt + 1 /\ again.last = NoReply
      BY <2>3
    <3>3. QED
      BY <1>1, <1>4, <2>1, <2>3, <2>4, <3>1, <3>2, HeardStep
<1>7. CASE ~(k.attempt < max)
  <2>1. call' = [call EXCEPT ![c] = over]
    BY <1>1, <1>3, <1>7
  <2>2. /\ over \in CallRecord /\ over.pc = "record" /\ over.text = k.attempt
        /\ over.last = NoReply /\ over.request = k.request /\ over.pack = k.pack
        /\ over.given = k.given /\ over.resolution = k.resolution /\ over.state = k.state
        /\ over.attempt = k.attempt /\ over.replies = heard.replies /\ over.kind = class
    BY <1>2, <1>3 DEF CallRecord, Places, Late
  <2> HIDE DEF over
  <2>3. Bounds(over)
    BY <1>2, <1>5, <2>2 DEF Bounds
  <2>4. QED
    BY <1>1, <1>3, <1>4, <2>1, <2>2, <2>3, HeardStep
<1>8. QED
  BY <1>6, <1>7

LEMMA ProviderThrowsStep == ASSUME Inv, NEW c \in Calls, ProviderThrows(c) PROVE Inv'
<1> DEFINE k == call[c]
           class == "provider-invocation"
           h == Heard(k, class)
           next == [h EXCEPT !.pc = "record", !.kind = class]
<1>1. k.pc = "invoke" /\ call' = [call EXCEPT ![c] = next] /\ UNCHANGED <<stored, records, events>>
  BY DEF ProviderThrows, Become
<1>2. k \in CallRecord /\ Bounds(k) /\ k.last = NoReply
  BY <1>1, Invoked
<1>3. /\ next \in CallRecord /\ next.pc = "record" /\ next.text = k.text /\ next.last = NoReply
      /\ next.request = k.request /\ next.pack = k.pack /\ next.given = k.given
      /\ next.resolution = k.resolution /\ next.state = k.state /\ next.attempt = k.attempt
      /\ next.kind = class /\ next.replies = [k.replies EXCEPT ![k.attempt] = class]
  <2>1. /\ h \in CallRecord /\ h.text = k.text /\ h.last = k.last
        /\ h.request = k.request /\ h.pack = k.pack /\ h.given = k.given
        /\ h.resolution = k.resolution /\ h.state = k.state /\ h.attempt = k.attempt
        /\ h.replies = [k.replies EXCEPT ![k.attempt] = class]
    BY <1>2, HeardFields DEF Classes, Kinds
  <2>2. "record" \in Places /\ class \in Kinds
    BY DEF Places, Late, Kinds
  <2> HIDE DEF h
  <2>3. QED
    BY <1>2, <2>1, <2>2 DEF CallRecord
<1> HIDE DEF next
<1>4. Bounds(next)
  BY <1>2, <1>3 DEF Bounds
<1>5. class \in Classes \ {"none"} /\ class # "valid"
  BY DEF Classes, Kinds
<1> HIDE DEF class
<1>6. QED
  BY <1>1, <1>3, <1>4, <1>5, HeardStep

LEMMA RecordStep == ASSUME Inv, NEW c \in Calls, Record(c) PROVE Inv'
<1> DEFINE k == call[c]
<1>1. k.pc = "record" /\ Asked(c) /\ UNCHANGED <<stored, events>>
  BY PlacedIsAsked DEF Record
<1>2. CallInv(k, records[c], events[c])
  BY <1>1 DEF Inv
<1>3. records[c] = NoRecord /\ Logged(k, NoRecord, events[c]) /\ k \in CallRecord
      /\ Settled(k) /\ Packed(k)
  BY <1>1, <1>2 DEF CallInv, Recorded, Replied, Selected, Late
<1>4. {"complete", "threw"} \subseteq Places /\ "complete" \notin Early \cup {"admit"}
      /\ "threw" \notin Early \cup Late /\ k.pc \in Late
  BY <1>1 DEF Places, Early, Late
<1>5. CASE k.request.dry /\ Go(c, "complete") /\ UNCHANGED records
  BY <1>1, <1>3, <1>4, <1>5, GoStep
<1>6. CASE Go(c, "threw") /\ UNCHANGED records
  BY <1>1, <1>3, <1>4, <1>6, GoStep
<1>7. CASE ~k.request.dry /\ records' = [records EXCEPT ![c] = RecordOf(k)] /\ Go(c, "complete")
  <2> DEFINE next == [k EXCEPT !.pc = "complete"]
             r == RecordOf(k)
  <2>1. call' = [call EXCEPT ![c] = next]
    BY <1>7 DEF Go, Become
  <2>2. /\ next \in CallRecord /\ next.pc = "complete"
        /\ next.request = k.request /\ next.pack = k.pack /\ next.given = k.given
        /\ next.resolution = k.resolution /\ next.state = k.state
        /\ next.attempt = k.attempt /\ next.replies = k.replies /\ next.kind = k.kind
        /\ next.text = k.text /\ next.last = k.last
    BY <1>3, <1>4, PlaceOnly
  <2>3. RecordOf(next) = r
    BY <1>3, <1>4, SameRecord
  <2>4. r # NoRecord
    BY <1>3, RecordTypes
  <2> HIDE DEF next, r
  <2>5. Settled(next) /\ Packed(next) /\ Bounds(next)
    BY <1>2, <1>3, <2>2 DEF Settled, Unanswered, Packed, Bounds, CallInv
  <2>6. Selected(next) /\ Recorded(next, r)
    BY <1>7, <2>2, <2>3, <2>4, <2>5 DEF Selected, Recorded
  <2>7. Replied(next)
    BY <1>2, <2>2, <2>5 DEF Replied, Admitted, CallInv, Early
  <2>8. Logged(next, r, events[c])
    BY <1>3, <1>7, <2>2, <2>4 DEF Logged
  <2>9. CallInv(next, r, events[c])
    BY <2>2, <2>5, <2>6, <2>7, <2>8 DEF CallInv
  <2>10. DOMAIN records' = Calls /\ records'[c] = r
         /\ \A d \in Calls \ {c} : records'[d] = records[d]
    BY <1>7 DEF Inv, r
  <2>11. QED
    BY <1>1, <2>1, <2>9, <2>10, OneCall DEF Inv
<1>8. QED
  BY <1>5, <1>6, <1>7 DEF Record

LEMMA ProfileStep ==
  ASSUME Inv, NEW resolution \in Resolutions, ProfileChanges(resolution) PROVE Inv'
  BY DEF Inv, ProfileChanges, Asked

LEMMA Stutter == ASSUME Inv, UNCHANGED vars PROVE Inv'
  BY DEF Inv, vars, Asked

LEMMA InvInit == Init => Inv
  BY DEF Init, Inv, Asked

LEMMA InvNext == Inv /\ [Next]_vars => Inv'
<1> SUFFICES ASSUME Inv, [Next]_vars PROVE Inv'
  OBVIOUS
<1>1. ASSUME NEW c \in Calls, Work(c) PROVE Inv'
  BY <1>1, AdmitStep, SelectStep, StartStep, ResolveHostStep, ResolvePatchStep, RecordStep,
     FinishStep DEF Work
<1>2. ASSUME NEW c \in Calls, Reply(c) PROVE Inv'
  BY <1>2, ValidStep, MalformedStep, ProviderThrowsStep DEF Reply
<1>3. QED
  BY <1>1, <1>2, ValidateStep, CrashStep, AskStep, ProfileStep, Stutter DEF Next

LEMMA Always == Spec => []Inv
  BY InvInit, InvNext, PTL DEF Spec

-----------------------------------------------------------------------------
(* What a record says, put together from what the call has become.         *)

LEMMA ScopeKept ==
  ASSUME NEW scope \in Workspace.dirs, NEW names
  PROVE  EffectiveScope(Workspace, scope, names) = scope /\ scope # NoScope
  BY ScopeAssumption DEF EffectiveScope

\* What a selected file is.
LEMMA SelectedFile ==
  ASSUME NEW k, Packed(k), NEW path \in k.pack.selected
  PROVE  LET about == k.request.about
             file == Workspace.files[path]
         IN  /\ path \in DOMAIN Workspace.files /\ ~file.secret
             /\ about.scope \in Workspace.dirs => about.scope \in file.within
             /\ file.ignored => \E n \in about.names : n.path = path
<1> DEFINE about == k.request.about
           scope == EffectiveScope(Workspace, about.scope, about.names)
<1>1. k.pack.selected = IF about.names = {} THEN Walked(Workspace, scope)
                        ELSE {n.path : n \in about.names}
  BY DEF Packed, PackOf, RepositoryContextPack
<1>2. about.scope \in Workspace.dirs => scope = about.scope /\ scope # NoScope
  BY ScopeKept
<1>3. CASE about.names = {}
  <2>1. path \in Walked(Workspace, scope)
    BY <1>1, <1>3
  <2>2. QED
    BY <1>2, <2>1 DEF Walked, InsideScope, Candidate
<1>4. CASE about.names # {}
  <2>1. PICK n \in about.names : n.path = path
    BY <1>1, <1>4
  <2>2. Readable(Workspace, n.path) /\ InsideScope(Workspace, n.path, scope)
    BY <1>4 DEF Packed, Selectable
  <2>3. QED
    BY <1>2, <2>1, <2>2 DEF Readable, InsideScope
<1>5. QED
  BY <1>3, <1>4

\* Files that were named are selected.
LEMMA NamedIsSelected ==
  ASSUME NEW k, Packed(k), NEW n \in k.request.about.names PROVE n.path \in k.pack.selected
  BY DEF Packed, PackOf, RepositoryContextPack

LEMMA PassedClaim ==
  ASSUME NEW given, SupportsPassedClaim(given)
  PROVE  \E report \in given : Undisputed(report)
  BY DEF SupportsPassedClaim, ReportOk, Undisputed, Has

\* An accepted patch has none of the issues.
LEMMA AcceptedPatch ==
  ASSUME NEW k, PatchAccepted(k)
  PROVE  /\ k.last.class = "valid" /\ k.last.output.inspects = "ok" /\ ~k.last.output.placeholder
         /\ k.pack.selected # {} => k.last.output.paths \subseteq k.pack.selected
         /\ k.last.output.claims => SupportsPassedClaim(k.given)
<1> DEFINE proposal == Proposal(k)
<1>1. PatchProposalIssues(Evidence(k), proposal, proposal.inspects = "ok") = {}
  BY DEF PatchAccepted, ProposalIssues, PatchIssues
<1>2. ~proposal.placeholder /\ proposal.inspects = "ok"
  BY <1>1 DEF PatchAccepted, PatchProposalIssues, When
<1>3. Evidence(k).selected # {} => proposal.paths \subseteq Evidence(k).selected
  BY <1>1 DEF PatchProposalIssues, When
<1>4. proposal.claims => Evidence(k).reportPasses
  BY <1>1 DEF PatchProposalIssues, When
<1>5. Answered(k) /\ proposal = k.last.output
  BY <1>2 DEF Proposal, FallbackProposal
<1> HIDE DEF proposal
<1>6. QED
  BY <1>2, <1>3, <1>4, <1>5 DEF Answered, Evidence

\* So has an answer that succeeded, and its worker was fit for the task.
LEMMA AcceptedAnswer ==
  ASSUME NEW k, Succeeded(k)
  PROVE  /\ k.last.class = "valid" /\ ~k.last.output.template
         /\ k.pack.selected # {} => k.last.output.mentions \cap k.pack.selected # {}
         /\ k.last.output.claims => SupportsPassedClaim(k.given)
         /\ Usable(k.resolution) /\ k.resolution.profile.status = "qualified"
         /\ Eligible(k.resolution.profile, k.request.task)
<1> DEFINE profile == HostProfile(k.resolution)
<1>1. k.state = "executed" /\ Answered(k) /\ Issues(k) = {}
  BY DEF Succeeded, Complete
<1>2. AnswerIssues(k.request.task, Evidence(k), k.last.output) = {}
  BY <1>1 DEF Issues
<1>3. /\ Evidence(k).selected # {} =>
           k.last.output.mentions \cap Evidence(k).selected # {}
      /\ ~k.last.output.template
      /\ k.last.output.claims => Evidence(k).reportPasses
  BY <1>2 DEF AnswerIssues, CitationIssues, FallbackPatternIssues, ValidationClaimIssues, When
<1>4. profile.status = "qualified" /\ Eligible(profile, k.request.task)
  BY <1>1 DEF Succeeded, NeedsHostReview, Overridden, RequiresHostReview
<1>5. Usable(k.resolution)
  BY <1>4, Unqualified DEF HostProfile
<1>6. QED
  BY <1>1, <1>3, <1>4, <1>5 DEF Evidence, Answered, HostProfile

LEMMA PatchStatus ==
  ASSUME NEW k
  PROVE  ResultStatus(ProposalIssues(k)) = "ok" <=> PatchAccepted(k)
<1>1. ProposalIssues(k) = {} => Proposal(k).inspects = "ok"
  BY DEF ProposalIssues, PatchIssues, PatchProposalIssues, When
<1>2. QED
  BY <1>1, StatusOfResult DEF PatchAccepted

LEMMA AnswerStatus ==
  ASSUME NEW k \in CallRecord
  PROVE  /\ HostStatus(k) = "ok" <=> Complete(k)
         /\ HostFailure(k) = "none" <=> Complete(k)
         /\ HostFailure(k) = "policy-blocked" <=> k.state # "executed"
         /\ HostFailure(k) \in Kinds => HostFailure(k) = k.kind /\ ~Answered(k) /\ k.state = "executed"
<1>1. k.kind \in Kinds
  BY DEF CallRecord
<1>2. HostStatus(k) = "ok" <=> Complete(k)
  BY StatusOfResult DEF HostStatus, Complete
<1>3. QED
  BY <1>1, <1>2 DEF HostFailure, Kinds, Complete

-----------------------------------------------------------------------------
(* The theorems.                                                           *)

\* Every call keeps its types: a place of the workflow, a request that can be
\* made, an attempt within what the contract or the model allows, and a pack
\* of files of the workspace (runHostWorkerWorkflow, runPatchProposalWorkflow).
THEOREM ExecutionTypeCorrect == Spec => []TypeOK
<1>1. ASSUME Inv PROVE TypeOK
  <2>1. ASSUME NEW c \in Calls, Asked(c)
        PROVE  /\ Active(c) \/ call[c].pc \in {"done", "threw", "crashed"}
               /\ call[c].request \in Requests
               /\ call[c].resolution \in Resolutions \cup {Unresolved}
               /\ call[c].pack.selected \subseteq DOMAIN Workspace.files
               /\ \A report \in call[c].given : DOMAIN report = call[c].request.about.checks
               /\ call[c].state \in {"not_executed", "executed", "blocked_by_policy"}
               /\ call[c].attempt \in 1..MaxAttempts(call[c].request.task)
               /\ call[c].text \in 0..call[c].attempt
    <3> DEFINE k == call[c]
    <3>1. k \in CallRecord /\ Bounds(k) /\ Selected(k)
      BY <1>1, <2>1 DEF Inv, CallInv
    <3>2. k.pack.selected \subseteq DOMAIN Workspace.files
      <4>1. CASE k.pack = NoPack
        BY <4>1 DEF NoPack
      <4>2. CASE Packed(k)
        BY <4>2, SelectedFile
      <4>3. QED
        BY <3>1, <4>1, <4>2 DEF Selected
    <3>3. MaxAttempts(k.request.task) \in 1..5
      BY AttemptsAssumption DEF MaxAttempts
    <3>4. k.attempt \in 1..MaxAttempts(k.request.task) /\ k.text \in 0..k.attempt
      BY <3>1, <3>3 DEF CallRecord, Bounds
    <3>5. Active(c) \/ k.pc \in {"done", "threw", "crashed"}
      BY <3>1 DEF CallRecord, Active, Places, Early, Late
    <3>6. QED
      BY <3>1, <3>2, <3>4, <3>5 DEF CallRecord, Bounds
  <2>2. ASSUME NEW c \in Calls, records[c] # NoRecord
        PROVE  /\ records[c].status \in {"ok", "blocked", "invalid_output", "needs_more_context"}
               /\ records[c].failure \in {"none", "policy-blocked", "provider-invocation",
                                          "json-parse", "schema-validation", "semantic-validation"}
    <3>1. call[c] \in CallRecord /\ records[c] = RecordOf(call[c])
      BY <1>1, <2>2 DEF Inv, CallInv, Recorded
    <3>2. QED
      BY <3>1, RecordTypes DEF Kinds
  <2>3. ASSUME NEW c \in Calls PROVE events[c] \subseteq {"start", "complete"}
    BY <1>1 DEF Inv, CallInv, Logged
  <2>4. stored \in Resolutions
    BY <1>1 DEF Inv
  <2>5. QED
    BY <2>1, <2>2, <2>3, <2>4 DEF TypeOK
<1>2. QED
  BY <1>1, Always, PTL

\* Whichever writes of writeAuditEvent and recordWorkerTaskExecution fail, a
\* closing event has its record, and a dry run leaves no trace.
THEOREM EventsHaveRecords == Spec => []EventsFollowRecords
<1>1. Inv => EventsFollowRecords
  BY DEF Inv, CallInv, Recorded, Logged, EventsFollowRecords
<1>2. QED
  BY <1>1, Always, PTL

\* However the profile changes while a call goes on, the model is asked only
\* for a task that the profile at hand or the caller admits, and is sent no
\* file that selectRepositoryFiles must keep back.
THEOREM OnlyAdmittedIsSent == Spec => []SentIsAdmitted
<1>1. ASSUME Inv, NEW c \in Calls, Asked(c), call[c].replies[1] # "none"
      PROVE  LET k == call[c]
                 about == k.request.about
             IN  /\ k.request.require => Usable(k.resolution)
                 /\ k.request.task # PatchTask =>
                      \/ k.request.force
                      \/ Usable(k.resolution) /\ Eligible(k.resolution.profile, k.request.task)
                 /\ \A path \in k.pack.selected :
                      /\ ~Workspace.files[path].secret
                      /\ about.scope \in Workspace.dirs =>
                           about.scope \in Workspace.files[path].within
                      /\ Workspace.files[path].ignored => \E n \in about.names : n.path = path
  <2> DEFINE k == call[c]
  <2>1. Selected(k) /\ Replied(k)
    BY <1>1 DEF Inv, CallInv
  <2>2. Admitted(k)
    BY <1>1, <2>1 DEF Replied
  <2>3. ASSUME NEW path \in k.pack.selected
        PROVE  /\ ~Workspace.files[path].secret
               /\ k.request.about.scope \in Workspace.dirs =>
                    k.request.about.scope \in Workspace.files[path].within
               /\ Workspace.files[path].ignored => \E n \in k.request.about.names : n.path = path
    <3>1. Packed(k)
      BY <2>1, <2>3 DEF Selected, NoPack
    <3>2. QED
      BY <2>3, <3>1, SelectedFile
  <2>4. QED
    BY <2>2, <2>3 DEF Admitted
<1>2. Inv => SentIsAdmitted
  BY <1>1 DEF SentIsAdmitted
<1>3. QED
  BY <1>2, Always, PTL

\* For any number of repairs, the status, the failure and the attempts of the
\* result envelope agree with each other and with the replies of the model.
THEOREM EnvelopesAgree == Spec => []EnvelopeAgrees
<1>1. ASSUME Inv, NEW c \in Calls, records[c] # NoRecord
      PROVE  LET r == records[c]
                 replies == call[c].replies
             IN  /\ r.status = "ok" <=> r.failure = "none"
                 /\ r.accepted => r.status = "ok"
                 /\ \A i \in 1..5 : replies[i] # "none" <=> i <= r.attempts
                 /\ call[c].request.task # PatchTask =>
                      /\ r.failure = "policy-blocked" <=> r.attempts = 0
                      /\ r.failure \in {"provider-invocation", "json-parse", "schema-validation"} =>
                           r.failure = replies[r.attempts]
                      /\ r.attempts > 0 /\ replies[r.attempts] # "valid" =>
                           r.status = "invalid_output"
  <2> DEFINE k == call[c]
             r == records[c]
             patch == k.request.task = PatchTask
  <2>1. k \in CallRecord /\ r = RecordOf(k) /\ Settled(k)
    BY <1>1 DEF Inv, CallInv, Recorded
  <2>2. /\ r.status = IF patch THEN ResultStatus(ProposalIssues(k)) ELSE HostStatus(k)
        /\ r.failure = IF ~patch THEN HostFailure(k)
                       ELSE IF PatchAccepted(k) THEN "none" ELSE "policy-blocked"
        /\ r.attempts = IF k.state = "executed" THEN k.attempt ELSE 0
        /\ r.accepted = IF patch THEN PatchAccepted(k) ELSE Succeeded(k)
    BY <2>1 DEF RecordOf
  <2>3. k.attempt \in 1..5
    BY <2>1 DEF CallRecord
  <2>4. r.status = "ok" <=> r.failure = "none"
    BY <2>1, <2>2, PatchStatus, AnswerStatus
  <2>5. r.accepted => r.status = "ok"
    BY <2>1, <2>2, PatchStatus, AnswerStatus DEF Succeeded
  <2>6. \A i \in 1..5 : k.replies[i] # "none" <=> i <= r.attempts
    BY <2>1, <2>2, <2>3 DEF Settled, Unanswered
  <2>7. ASSUME ~patch
        PROVE  /\ r.failure = "policy-blocked" <=> r.attempts = 0
               /\ r.failure \in Kinds => r.failure = k.replies[r.attempts]
               /\ r.attempts > 0 /\ k.replies[r.attempts] # "valid" => r.status = "invalid_output"
    <3>1. r.failure = "policy-blocked" <=> r.attempts = 0
      BY <2>1, <2>2, <2>3, <2>7, AnswerStatus
    <3>2. ASSUME r.failure \in Kinds PROVE r.failure = k.replies[r.attempts]
      <4>1. r.failure = k.kind /\ ~Answered(k) /\ k.state = "executed" /\ r.attempts = k.attempt
        BY <2>1, <2>2, <2>7, <3>2, AnswerStatus
      <4>2. k.last.class # "valid"
        BY <4>1 DEF Answered
      <4>3. QED
        BY <2>1, <4>1, <4>2 DEF Settled
    <3>3. ASSUME r.attempts > 0, k.replies[r.attempts] # "valid"
          PROVE  r.status = "invalid_output"
      <4>1. k.state = "executed" /\ r.attempts = k.attempt
        BY <2>2, <3>3
      <4>2. ~Answered(k)
        BY <2>1, <3>3, <4>1 DEF Settled, Answered, NoReply
      <4>3. QED
        BY <2>2, <2>7, <4>1, <4>2 DEF HostStatus
    <3>4. QED
      BY <3>1, <3>2, <3>3
  <2>8. QED
    BY <2>4, <2>5, <2>6, <2>7 DEF Kinds
<1>2. Inv => EnvelopeAgrees
  BY <1>1 DEF EnvelopeAgrees
<1>3. QED
  BY <1>2, Always, PTL

\* Whatever the models answer and however the profile changes, an accepted
\* record is of a vetted answer: the gates of buildQualityGate and of the
\* patch workflow let nothing else through, and stay true of it.
THEOREM AcceptedWasVetted == Spec => []AcceptedIsVetted
<1>1. ASSUME Inv, NEW c \in Calls, records[c] # NoRecord, records[c].accepted
      PROVE  LET k == call[c]
                 selected == k.pack.selected
                 output == k.last.output
             IN  /\ k.last.class = "valid"
                 /\ \A n \in k.request.about.names : n.path \in selected
                 /\ output.claims => \E report \in k.given : Undisputed(report)
                 /\ IF k.request.task = PatchTask
                    THEN /\ selected # {} => output.paths \subseteq selected
                         /\ output.inspects = "ok" /\ ~output.placeholder
                    ELSE /\ selected # {} => output.mentions \cap selected # {}
                         /\ ~output.template
                         /\ Usable(k.resolution) /\ k.resolution.profile.status = "qualified"
                         /\ Eligible(k.resolution.profile, k.request.task)
  <2> DEFINE k == call[c]
  <2>1. records[c] = RecordOf(k) /\ Packed(k)
    BY <1>1 DEF Inv, CallInv, Recorded
  <2>2. IF k.request.task = PatchTask THEN PatchAccepted(k) ELSE Succeeded(k)
    BY <1>1, <2>1 DEF RecordOf
  <2>3. k.last.output.claims => SupportsPassedClaim(k.given)
    BY <2>2, AcceptedPatch, AcceptedAnswer
  <2>4. QED
    BY <2>1, <2>2, <2>3, NamedIsSelected, PassedClaim, AcceptedPatch, AcceptedAnswer
<1>2. Inv => AcceptedIsVetted
  BY <1>1 DEF AcceptedIsVetted
<1>3. QED
  BY <1>2, Always, PTL
=============================================================================

-------------------------- MODULE PatchApplyProofs --------------------------
(***************************************************************************)
(* Theorems of PatchApply: for every repository, patch and set of options. *)
(***************************************************************************)
EXTENDS PatchApply, TLAPS

Working == {"inspect", "status", "check", "apply", "writing"}
Gated   == {"apply", "writing"}

\* A call that is still at work holds no result, or its denial.
Undecided == pc \in Working => result \in {NoResult, Denied}

\* From the status to the return the call has been told of every edit it can
\* know of outside tmp/; later a rollback on offer still vouches for that.
Told ==
  /\ pc \in {"check", "apply", "writing"} => known \ IgnoredLocal \subseteq snapshot
  /\ result.rollback => known \subseteq IgnoredLocal

\* While git writes, what is not pending is written.
Progress ==
  /\ pc = "writing" => Touched \ pending \subseteq patched
  /\ AppliedIsWhole

\* Beyond the gates the options and the snapshot stay what they were.
Passed ==
  pc \in Gated => /\ options.allowWrite /\ options.confirm /\ ~options.dryRun
                  /\ snapshot = {} \/ options.allowDirty

\* "git apply --check" is only run where nothing may be written, and between
\* two calls nothing is remembered of the last but its answer.
Apart ==
  /\ pc = "check" => options.dryRun \/ ~options.allowWrite
  /\ pc = "idle" => options = NoOptions /\ snapshot = {}

ApplyInv ==
  TypeOK /\ Undecided /\ Told /\ RollbackKeepsKnownEdits /\ Progress /\ Passed /\ Apart

-----------------------------------------------------------------------------
\* The records the function returns are results.
LEMMA ResultsTyped ==
  /\ NoResult \in [mode : Mode, rollback : BOOLEAN]
  /\ Denied \in [mode : Mode, rollback : BOOLEAN]
  /\ ~NoResult.rollback /\ ~Denied.rollback
  /\ NoResult.mode # "execute" /\ Denied.mode # "execute"
  /\ NoOptions \in CallOption
BY DEF NoResult, Denied, NoOptions, CallOption, Mode, None

LEMMA ApplyInit == Init => ApplyInv
BY ResultsTyped, CallsAssumption
DEF Init, ApplyInv, TypeOK, Undecided, Told, RollbackKeepsKnownEdits, Progress, Passed, Apart,
    AppliedIsWhole, Working, Gated, Change, Mode, None

\* A call ends with the result it had, or with none.
LEMMA EndKeeps ==
  ASSUME ApplyInv, NEW returned \in {result, NoResult}, pc # "idle", End(returned),
         audited' \in Mode
  PROVE  ApplyInv'
BY ResultsTyped
DEF End, ApplyInv, TypeOK, Undecided, Told, RollbackKeepsKnownEdits, Progress, Passed, Apart,
    AppliedIsWhole, Working, Gated

LEMMA ApplyNext == ApplyInv /\ [Next]_vars => ApplyInv'
<1> USE DEF ApplyInv
<1> SUFFICES ASSUME ApplyInv, [Next]_vars
             PROVE  ApplyInv'
  OBVIOUS
<1>1. ASSUME NEW f \in Files, NEW c \in {"apart", "overlapping"}, Edit(f, c)
      PROVE  ApplyInv'
  BY <1>1, CallsAssumption
  DEF Edit, call, TypeOK, Change, Undecided, Told, RollbackKeepsKnownEdits, Progress, Passed, Apart,
      AppliedIsWhole
<1>2. CASE RollBack
  <2>1. TypeOK'
    BY <1>2, ResultsTyped DEF RollBack, call, TypeOK, Change
  <2>2. Undecided' /\ Told' /\ Progress' /\ Passed' /\ Apart'
    BY <1>2, ResultsTyped
    DEF RollBack, call, Undecided, Told, Progress, Passed, Apart, AppliedIsWhole, Working, Gated
  <2>3. RollbackKeepsKnownEdits'
    BY <1>2 DEF RollBack, Told, RollbackKeepsKnownEdits
  <2>4. QED BY <2>1, <2>2, <2>3
<1>3. ASSUME NEW o \in Options, Call(o)
      PROVE  ApplyInv'
  BY <1>3, ResultsTyped, CallsAssumption
  DEF Call, TypeOK, Undecided, Told, RollbackKeepsKnownEdits, Progress, Passed, Apart,
      AppliedIsWhole, Working, Gated
<1>4. ASSUME NEW b \in BOOLEAN, InspectPatch(b)
      PROVE  ApplyInv'
  BY <1>4, ResultsTyped
  DEF InspectPatch, TypeOK, Undecided, Told, RollbackKeepsKnownEdits, Progress, Passed, Apart,
      AppliedIsWhole, Working, Gated
<1>5. CASE ReadWorktree
  <2>1. TypeOK'
    BY <1>5, ResultsTyped, FilesAssumption
    DEF ReadWorktree, TypeOK, VisibleDirt, Dirty, Edited
  <2>2. Undecided'
    BY <1>5 DEF ReadWorktree, Undecided, Working
  <2>3. Told'
    BY <1>5, ResultsTyped
    DEF ReadWorktree, Told, Undecided, Working, VisibleDirt, Dirty
  <2>4. Progress' /\ RollbackKeepsKnownEdits'
    BY <1>5, ResultsTyped
    DEF ReadWorktree, Progress, RollbackKeepsKnownEdits, AppliedIsWhole
  <2>5. Passed' /\ Apart'
    BY <1>5 DEF ReadWorktree, Passed, Apart, Gated, Deny
  <2>6. QED BY <2>1, <2>2, <2>3, <2>4, <2>5
<1>6. ASSUME NEW p \in BOOLEAN, CheckPatch(p)
      PROVE  ApplyInv'
  BY <1>6, ResultsTyped
  DEF CheckPatch, TypeOK, Undecided, Told, RollbackKeepsKnownEdits, Progress, Passed, Apart,
      AppliedIsWhole, Working, Gated, Mode
<1>7. CASE GitStarts
  BY <1>7, ResultsTyped
  DEF GitStarts, TypeOK, Undecided, Told, RollbackKeepsKnownEdits, Progress, Passed, Apart,
      AppliedIsWhole, Working, Gated
<1>8. ASSUME NEW f \in Files, GitWrites(f)
      PROVE  ApplyInv'
  BY <1>8
  DEF GitWrites, TypeOK, Undecided, Told, RollbackKeepsKnownEdits, Progress, Passed, Apart,
      AppliedIsWhole, Working, Gated
<1>9. CASE GitFails
  BY <1>9, ResultsTyped
  DEF GitFails, TypeOK, Undecided, Told, RollbackKeepsKnownEdits, Progress, Passed, Apart,
      AppliedIsWhole, Working, Gated
<1>10. ASSUME NEW ok \in BOOLEAN, GitSucceeds(ok)
       PROVE  ApplyInv'
  BY <1>10
  DEF GitSucceeds, Recovery, TypeOK, Undecided, Told, RollbackKeepsKnownEdits, Progress, Passed, Apart,
      AppliedIsWhole, Working, Gated, Mode
<1>11. CASE Audit
  BY <1>11, EndKeeps DEF Audit, TypeOK
<1>12. CASE Throw
  BY <1>12, EndKeeps DEF Throw, TypeOK
<1>13. CASE UNCHANGED vars
  BY <1>13
  DEF vars, call, TypeOK, Undecided, Told, RollbackKeepsKnownEdits, Progress, Passed, Apart,
      AppliedIsWhole
<1>14. QED
  BY <1>1, <1>2, <1>3, <1>4, <1>5, <1>6, <1>7, <1>8, <1>9, <1>10, <1>11, <1>12, <1>13
  DEF Next, Operator, Function

\* All the conjuncts at once.
LEMMA AlwaysApplyInv == Spec => []ApplyInv
BY ApplyInit, ApplyNext, PTL DEF Spec

\* Every variable keeps its type, whatever fails or is edited.
THEOREM ApplyTypeCorrect == Spec => []TypeOK
BY AlwaysApplyInv, PTL DEF ApplyInv

\* Rollback commands never destroy an edit outside tmp/ that existed when the
\* call that built them read the worktree: they are built from a snapshot
\* that was clean, and the call carries that snapshot to the end.
THEOREM RollbackIsCareful == Spec => []RollbackKeepsKnownEdits
BY AlwaysApplyInv, PTL DEF ApplyInv

\* An "execute" result stands for the whole patch, also when earlier calls
\* died in the middle of theirs.
THEOREM ExecuteMeansWhole == Spec => []AppliedIsWhole
BY AlwaysApplyInv, PTL DEF ApplyInv, Progress

\* What a step that writes a file has passed.
WriteGated ==
  patched' \ patched # {} =>
    /\ options.allowWrite /\ options.confirm /\ ~options.dryRun
    /\ snapshot = {} \/ options.allowDirty

\* Only GitWrites writes, and it is beyond the gates.
LEMMA WriteStep == ApplyInv /\ [Next]_vars => [WriteGated]_vars
<1> SUFFICES ASSUME ApplyInv, [Next]_vars, patched' \ patched # {}
             PROVE  pc = "writing"
  BY DEF ApplyInv, Passed, Gated, WriteGated
<1> QED
  BY DEF Next, Operator, Function, Edit, RollBack, Call, InspectPatch, ReadWorktree, CheckPatch,
         GitStarts, GitWrites, GitFails, GitSucceeds, Audit, Throw, End, vars

\* No file is written without the request, the permission, the confirmation
\* and a clean snapshot (or leave to write to a dirty worktree).
THEOREM WritesAreGated == Spec => WritesPassAllGates
BY AlwaysApplyInv, WriteStep, PTL DEF Spec, WritesPassAllGates, WriteGated

-----------------------------------------------------------------------------
(* Refinement: what the caller sees of a call is what PatchCall promises.  *)

\* The mapped variables stay in their types, and follow their parts.
LEMMA ConsentTyped ==
  ASSUME NEW o \in CallOption,
         NEW c, c = [write |-> o.allowWrite /\ o.confirm /\ ~o.dryRun, dirty |-> o.allowDirty]
  PROVE  c \in Promise!Consents
BY DEF CallOption, Promise!Consents

LEMMA MapsInit == Init => Promise!Init
<1> SUFFICES ASSUME Init PROVE Promise!Init
  OBVIOUS
<1>1. CallConsent = Promise!NoConsent
  BY DEF Init, CallConsent, NoOptions, Promise!NoConsent
<1>2. /\ patched = {} /\ CallStage = "closed" /\ snapshot = {} /\ CallAnswer = "none"
      /\ result.rollback = FALSE /\ audited = "none"
  BY DEF Init, CallStage, CallAnswer, NoResult, None
<1> QED BY <1>1, <1>2 DEF Promise!Init

\* In terms of the mapping, a step is a stutter or a step of PatchCall.
LEMMA MapsStep == ApplyInv /\ [Next]_vars => [Promise!Next]_(Promise!vars)
<1> SUFFICES ASSUME ApplyInv, [Next]_vars
             PROVE  [Promise!Next]_(Promise!vars)
  OBVIOUS
<1> USE DEF call
<1>s. ASSUME UNCHANGED <<patched, options, snapshot, audited>>, UNCHANGED CallStage,
             UNCHANGED CallAnswer, UNCHANGED result.rollback
      PROVE  UNCHANGED Promise!vars
  BY <1>s DEF Promise!vars, Promise!work, CallConsent
<1>1. ASSUME NEW f \in Files, NEW c \in {"apart", "overlapping"}, Edit(f, c)
      PROVE  UNCHANGED Promise!vars
  BY <1>1, <1>s DEF Edit, CallStage, CallAnswer
<1>2. CASE RollBack
  <2>1. patched' = {}
    BY <1>2 DEF RollBack, ApplyInv, TypeOK
  <2>2. /\ CallStage = "closed" /\ UNCHANGED <<CallStage, CallConsent, snapshot, audited>>
        /\ result.rollback /\ CallAnswer' = "none" /\ result'.rollback = FALSE
    BY <1>2 DEF RollBack, CallStage, CallConsent, CallAnswer, NoResult, None
  <2> QED BY <2>1, <2>2 DEF Promise!Next, Promise!Undo, Promise!work
<1>3. ASSUME NEW o \in Options, Call(o)
      PROVE  Promise!Open
  <2>1. CallConsent' \in Promise!Consents
    BY <1>3, CallsAssumption, ConsentTyped DEF Call, CallConsent
  <2>2. /\ CallStage = "closed" /\ CallStage' = "open" /\ UNCHANGED <<patched, snapshot, audited>>
        /\ CallAnswer' = "none" /\ result'.rollback = FALSE
    BY <1>3 DEF Call, CallStage, CallAnswer, NoResult, None
  <2> QED BY <2>1, <2>2 DEF Promise!Open
<1>4. ASSUME NEW b \in BOOLEAN, InspectPatch(b)
      PROVE  UNCHANGED Promise!vars
  <2>1. result.rollback = FALSE /\ result'.rollback = FALSE
    BY <1>4 DEF InspectPatch, ApplyInv, Undecided, Working, NoResult, Denied
  <2> QED BY <1>4, <1>s, <2>1 DEF InspectPatch, CallStage, CallAnswer
<1>5. CASE ReadWorktree
  <2>1. /\ CallStage = "open" /\ UNCHANGED <<patched, CallConsent, audited>> /\ CallAnswer = "none"
        /\ CallConsent.dirty = options.allowDirty
    BY <1>5 DEF ReadWorktree, CallStage, CallConsent, CallAnswer, None
  <2>2. result.rollback = FALSE /\ result'.rollback = FALSE
    BY <1>5 DEF ReadWorktree, ApplyInv, Undecided, Working, NoResult, Denied
  <2>3. CASE Deny
    <3>1. CallStage' = "answered" /\ CallAnswer' = "denied"
      BY <1>5, <2>3 DEF ReadWorktree, CallStage, CallAnswer, Denied
    <3> QED BY <2>1, <2>2, <3>1 DEF Promise!Look, Promise!Answer, Promise!Next
  <2>4. CASE ~Deny
    <3>1. CallStage' = "looked" /\ CallAnswer' = "none"
      BY <1>5, <2>4 DEF ReadWorktree, CallStage, CallAnswer, None
    <3>2. snapshot' = {} \/ options.allowDirty
      BY <2>4 DEF Deny
    <3> QED BY <2>1, <2>2, <3>1, <3>2 DEF Promise!Look, Promise!Next
  <2> QED BY <2>3, <2>4
<1>6. ASSUME NEW p \in BOOLEAN, CheckPatch(p)
      PROVE  Promise!Check \/ Promise!Deny
  <2>1. /\ CallStage = "looked" /\ CallStage' = "answered"
        /\ UNCHANGED <<patched, CallConsent, snapshot, audited>>
        /\ CallConsent.write = (options.allowWrite /\ options.confirm /\ ~options.dryRun)
    BY <1>6 DEF CheckPatch, CallStage, CallConsent
  <2>2. ~CallConsent.write
    BY <1>6, <2>1 DEF CheckPatch, ApplyInv, Apart
  <2>3. result.rollback = FALSE /\ result'.rollback = FALSE
    BY <1>6 DEF CheckPatch, ApplyInv, Undecided, Working, NoResult, Denied
  <2>4. CASE p
    <3>1. patched = {}
      BY <1>6, <2>4 DEF CheckPatch, PatchFits, Fits, ApplyInv, TypeOK
    <3>2. CallAnswer' = "dry-run"
      BY <1>6, <2>4 DEF CheckPatch, CallAnswer
    <3> QED BY <2>1, <2>2, <2>3, <3>1, <3>2 DEF Promise!Check, Promise!Answer
  <2>5. CASE ~p
    <3>1. CallAnswer' = "denied"
      BY <1>6, <2>5 DEF CheckPatch, CallAnswer, Denied
    <3> QED BY <2>1, <2>3, <3>1 DEF Promise!Deny, Promise!Answer
  <2> QED BY <2>4, <2>5
<1>7. CASE GitStarts
  <2>1. patched = {}
    BY <1>7 DEF GitStarts, PatchFits, Fits, ApplyInv, TypeOK
  <2>2. CallConsent.write
    BY <1>7 DEF GitStarts, ApplyInv, Passed, Gated, CallConsent
  <2>3. /\ CallStage = "looked" /\ CallStage' = "writing"
        /\ UNCHANGED <<patched, CallConsent, snapshot, CallAnswer, result, audited>>
    BY <1>7 DEF GitStarts, CallStage, CallConsent, CallAnswer
  <2> QED BY <2>1, <2>2, <2>3 DEF Promise!Begin, Promise!Next
<1>8. ASSUME NEW f \in Files, GitWrites(f)
      PROVE  UNCHANGED Promise!vars \/ (Promise!Write(f) /\ f \in Touched)
  <2>1. /\ CallStage = "writing" /\ f \in Touched
        /\ UNCHANGED <<CallStage, CallConsent, snapshot, CallAnswer, result, audited>>
    BY <1>8 DEF GitWrites, CallStage, CallConsent, CallAnswer, ApplyInv, TypeOK
  <2>2. patched' = patched \cup {f}
    BY <1>8 DEF GitWrites
  <2>3. CASE f \in patched
    BY <2>1, <2>2, <2>3 DEF Promise!vars, Promise!work
  <2>4. CASE f \notin patched
    BY <2>1, <2>2, <2>4 DEF Promise!Write, Promise!work
  <2> QED BY <2>3, <2>4
<1>9. CASE GitFails
  <2>1. result.rollback = FALSE /\ result'.rollback = FALSE
    BY <1>9 DEF GitFails, ApplyInv, Undecided, Working, NoResult, Denied
  <2>2. /\ CallStage \in {"looked", "writing"} /\ CallStage' = "answered"
        /\ UNCHANGED <<patched, CallConsent, snapshot, audited>> /\ CallAnswer' = "denied"
    BY <1>9 DEF GitFails, CallStage, CallConsent, CallAnswer, Denied
  <2> QED BY <2>1, <2>2 DEF Promise!Deny, Promise!Answer, Promise!Next
<1>10. ASSUME NEW ok \in BOOLEAN, GitSucceeds(ok)
       PROVE  Promise!Execute
  <2>1. patched = Touched
    BY <1>10 DEF GitSucceeds, ApplyInv, Progress, TypeOK
  <2>2. result'.rollback \in BOOLEAN /\ (result'.rollback => snapshot = {})
    BY <1>10 DEF GitSucceeds, Recovery
  <2>3. /\ CallStage = "writing" /\ CallStage' = "answered" /\ CallAnswer' = "execute"
        /\ UNCHANGED <<patched, CallConsent, snapshot, audited>>
    BY <1>10 DEF GitSucceeds, CallStage, CallConsent, CallAnswer
  <2> QED BY <2>1, <2>2, <2>3 DEF Promise!Execute
<1>11. ASSUME NEW returned, End(returned)
       PROVE  Promise!Close
  <2>1. CallConsent' = Promise!NoConsent
    BY <1>11 DEF End, CallConsent, NoOptions, Promise!NoConsent
  <2>2. CallStage' = "closed" /\ snapshot' = {} /\ patched' = patched
    BY <1>11 DEF End, CallStage
  <2> QED BY <2>1, <2>2 DEF Promise!Close
<1>12. CASE Audit
  <2>1. CallStage = "answered" /\ audited' = CallAnswer /\ UNCHANGED <<CallAnswer, result>>
    BY <1>12 DEF Audit, End, CallStage, CallAnswer
  <2> QED BY <1>11, <1>12, <2>1 DEF Audit, Promise!Return, Promise!Next
<1>13. CASE Throw
  <2>1. CallStage # "closed"
    BY <1>13 DEF Throw, CallStage, ApplyInv, TypeOK
  <2>2. CallAnswer' = "none" /\ result'.rollback = FALSE /\ audited' = audited
    BY <1>13 DEF Throw, End, CallAnswer, NoResult, None
  <2> QED BY <1>11, <1>13, <2>1, <2>2 DEF Throw, Promise!Throw, Promise!Next
<1>14. CASE UNCHANGED vars
  BY <1>14, <1>s DEF vars, CallStage, CallAnswer
<1> QED
  BY <1>1, <1>2, <1>3, <1>4, <1>5, <1>6, <1>7, <1>8, <1>9, <1>10, <1>12, <1>13, <1>14
  DEF Next, Operator, Function, Promise!Next

\* Every behaviour of the function is one that PatchCall allows: for every
\* patch, every set of options and every bound.
THEOREM CallsKeepThePromise == Spec => ImplementsPatchCall
BY AlwaysApplyInv, MapsInit, MapsStep, PTL DEF Spec, ImplementsPatchCall, Promise!Spec
=============================================================================

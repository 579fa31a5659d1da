----------------------------- MODULE PatchApply -----------------------------
(***************************************************************************)
(* applyPatchProposal, called by "cw patch apply", by the cw_apply_patch   *)
(* tool and by the last stage of a task session.  It inspects the patch,   *)
(* reads the state of the worktree, passes the write gates, lets           *)
(* "git apply" write the files one after the other, validates, and may     *)
(* hand back rollback commands, which the operator may run at any later    *)
(* time.  The operator goes on editing all the while: every await is a     *)
(* point where the files may change under the call.                        *)
(*                                                                         *)
(* One patch and the files of its repository are modelled; a file is known *)
(* by whether it holds uncommitted changes of the operator and whether it  *)
(* holds the patch's.  Nothing edits a file while git itself writes it.    *)
(***************************************************************************)
EXTENDS Naturals, FiniteSets

CONSTANTS
  Files,         \* files of the repository (existing or not)
  Touched,       \* the files the patch changes
  Added,         \* those of them that it creates
  IgnoredLocal,  \* files under tmp/, which readDirtyWorktree sets aside
  Options,       \* the option records the function is called with
  MaxCalls,      \* bound: calls
  MaxEdits       \* bound: edits by the operator

CallOption == [dryRun : BOOLEAN, allowWrite : BOOLEAN, confirm : BOOLEAN,
               allowDirty : BOOLEAN, validate : BOOLEAN]

ASSUME FilesAssumption ==
  /\ IsFiniteSet(Files)
  /\ Touched \subseteq Files /\ Added \subseteq Touched /\ IgnoredLocal \subseteq Files
ASSUME CallsAssumption ==
  Options \subseteq CallOption /\ MaxCalls \in Nat /\ MaxEdits \in Nat

VARIABLES
  edit,      \* edit[f]: the operator's uncommitted change of f, if any:
             \* "apart" from the lines of the patch, or "overlapping" them
  patched,   \* files that hold the change of the patch
  pc,        \* where the call in progress is
  options,   \* its options
  snapshot,  \* the dirty files it was told of
  pending,   \* files "git apply" has still to write
  result,    \* what the last call returned or is about to return
  known,     \* history: files with edits when that call read the worktree
  lost,      \* history: files whose known edits a rollback destroyed
  audited,   \* mode of the last audit event of this function
  calls, edits

call == <<pc, options, snapshot, pending>>
vars == <<edit, patched, call, result, known, lost, audited, calls, edits>>

None      == "none"
Change    == {None, "apart", "overlapping"}
Mode      == {None, "denied", "dry-run", "execute"}
NoOptions == [dryRun |-> FALSE, allowWrite |-> FALSE, confirm |-> FALSE,
              allowDirty |-> FALSE, validate |-> FALSE]
NoResult  == [mode |-> None, rollback |-> FALSE]
Denied    == [mode |-> "denied", rollback |-> FALSE]

Edited == {f \in Files : edit[f] # None}
Dirty  == Edited \cup patched

Init ==
  /\ edit = [f \in Files |-> None]
  /\ patched = {}
  /\ pc = "idle" /\ options = NoOptions /\ snapshot = {} /\ pending = {}
  /\ result = NoResult
  /\ known = {} /\ lost = {}
  /\ audited = None
  /\ calls = 0 /\ edits = 0

-----------------------------------------------------------------------------
(* The operator.                                                           *)

Edit(f, change) ==
  /\ pc # "writing"
  /\ edits < MaxEdits
  /\ edits' = edits + 1
  /\ edit' = [edit EXCEPT ![f] = change]
  /\ UNCHANGED <<patched, call, result, known, lost, audited, calls>>

\* The commands of buildRollbackDetails: "git restore --worktree" for the
\* files the patch changed, "git clean -f" for those it added.
RollBack ==
  /\ pc = "idle" /\ result.rollback
  /\ edit' = [f \in Files |-> IF f \in Touched THEN None ELSE edit[f]]
  /\ patched' = patched \ Touched
  /\ lost' = lost \cup (known \cap Edited \cap Touched)
  /\ result' = NoResult
  /\ UNCHANGED <<call, known, audited, calls, edits>>

-----------------------------------------------------------------------------
(* The call.                                                               *)

Call(o) ==
  /\ pc = "idle"
  /\ calls < MaxCalls
  /\ calls' = calls + 1
  /\ pc' = "inspect"
  /\ options' = o
  /\ result' = NoResult
  /\ UNCHANGED <<edit, patched, snapshot, pending, known, lost, audited, edits>>

\* What "git apply" checks before it writes the first file: no file has the
\* patch already, no new file exists, no edit overlaps.
Fits(f)  == f \notin patched /\ edit[f] \in (IF f \in Added THEN {None} ELSE {None, "apart"})
PatchFits == \A f \in Touched : Fits(f)

\* inspectPatch; a reason other than git's may block any patch.
InspectPatch(blocked) ==
  /\ pc = "inspect"
  /\ blocked \/ PatchFits
  /\ pc' = "status"
  /\ result' = IF blocked THEN Denied ELSE NoResult
  /\ UNCHANGED <<edit, patched, options, snapshot, pending, known, lost, audited, calls, edits>>

\* Mutant: files under tmp/ count as dirty.
AllDirt == Dirty

\* readDirtyWorktree, and the gates up to the next await: the inspection, the
\* dirty worktree, the dry run, the confirmation.
VisibleDirt == Dirty \ IgnoredLocal

\* Mutant: the confirmation is not asked for.
DenyUnconfirmed ==
  \/ result = Denied
  \/ snapshot' # {} /\ ~options.allowDirty

Deny ==
  \/ result = Denied
  \/ snapshot' # {} /\ ~options.allowDirty
  \/ options.allowWrite /\ ~options.dryRun /\ ~options.confirm

ReadWorktree ==
  /\ pc = "status"
  /\ snapshot' = VisibleDirt
  /\ known' = Edited
  /\ IF Deny THEN pc' = "audit" /\ result' = Denied
     ELSE /\ pc' = IF options.dryRun \/ ~options.allowWrite THEN "check" ELSE "apply"
          /\ UNCHANGED result
  /\ UNCHANGED <<edit, patched, options, pending, lost, audited, calls, edits>>

\* "git apply --check"; a command that is killed by its timeout fails, too.
CheckPatch(passed) ==
  /\ pc = "check"
  /\ passed => PatchFits
  /\ pc' = "audit"
  /\ result' = IF passed THEN [mode |-> "dry-run", rollback |-> FALSE] ELSE Denied
  /\ UNCHANGED <<edit, patched, options, snapshot, pending, known, lost, audited, calls, edits>>

\* "git apply" looks at all files again before it writes the first.
GitStarts ==
  /\ pc = "apply" /\ PatchFits
  /\ pc' = "writing"
  /\ pending' = Touched
  /\ UNCHANGED <<edit, patched, options, snapshot, result, known, lost, audited, calls, edits>>

GitWrites(f) ==
  /\ pc = "writing" /\ f \in pending
  /\ patched' = patched \cup {f}
  /\ pending' = pending \ {f}
  /\ UNCHANGED <<edit, pc, options, snapshot, result, known, lost, audited, calls, edits>>

\* Mutant: the exit code is not looked at.
GitFailureMissed ==
  /\ pc \in {"apply", "writing"}
  /\ pc' = "audit"
  /\ pending' = {}
  /\ result' = [mode |-> "execute", rollback |-> FALSE]
  /\ UNCHANGED <<edit, patched, options, snapshot, known, lost, audited, calls, edits>>

\* It refuses the patch, cannot write a file, or is killed after 120 s: any
\* exit code but 0 is "denied", whatever has been written by then.
GitFails ==
  /\ pc \in {"apply", "writing"}
  /\ pc' = "audit"
  /\ pending' = {}
  /\ result' = Denied
  /\ UNCHANGED <<edit, patched, options, snapshot, known, lost, audited, calls, edits>>

\* Mutant: rollback commands are built for a dirty worktree, too.
RashRecovery(ok) == ~ok

\* Rollback commands are only built if the snapshot was clean.
Recovery(ok) == ~ok /\ snapshot = {}

\* Mutant: the exit of git is not awaited.
GitPresumed(ok) ==
  /\ pc = "writing"
  /\ ~ok => options.validate
  /\ pc' = "audit"
  /\ result' = [mode |-> "execute", rollback |-> Recovery(ok)]
  /\ UNCHANGED <<edit, patched, options, snapshot, pending, known, lost, audited, calls, edits>>

\* Exit code 0, and then runRepositoryValidation.
GitSucceeds(ok) ==
  /\ pc = "writing" /\ pending = {}
  /\ ~ok => options.validate
  /\ pc' = "audit"
  /\ result' = [mode |-> "execute", rollback |-> Recovery(ok)]
  /\ UNCHANGED <<edit, patched, options, snapshot, pending, known, lost, audited, calls, edits>>

End(returned) ==
  /\ pc' = "idle" /\ options' = NoOptions /\ snapshot' = {} /\ pending' = {}
  /\ result' = returned
  /\ UNCHANGED <<edit, patched, known, lost, calls, edits>>

\* auditPatchAction, then the return.
Audit ==
  /\ pc = "audit"
  /\ audited' = result.mode
  /\ End(result)

\* An exception of git status, of validation or of the audit store, or a
\* crash: the caller gets no result, and no audit event is written.
Throw ==
  /\ pc # "idle"
  /\ End(NoResult)
  /\ UNCHANGED audited

Operator == (\E f \in Files, c \in {"apart", "overlapping"} : Edit(f, c)) \/ RollBack

Function ==
  \/ \E o \in Options : Call(o)
  \/ \E b \in BOOLEAN : InspectPatch(b)
  \/ ReadWorktree
  \/ \E p \in BOOLEAN : CheckPatch(p)
  \/ GitStarts
  \/ \E f \in Files : GitWrites(f)
  \/ GitFails
  \/ \E ok \in BOOLEAN : GitSucceeds(ok)
  \/ Audit
  \/ Throw

Next == Operator \/ Function

Spec == Init /\ [][Next]_vars

-----------------------------------------------------------------------------
(* Properties.                                                             *)

\* Every variable has its type.
TypeOK ==
  /\ edit \in [Files -> Change]
  /\ patched \subseteq Touched
  /\ pc \in {"idle", "inspect", "status", "check", "apply", "writing", "audit"}
  /\ options \in CallOption
  /\ snapshot \subseteq Files \ IgnoredLocal
  /\ pending \subseteq Touched
  /\ result \in [mode : Mode, rollback : BOOLEAN]
  /\ known \subseteq Files /\ lost \subseteq Files
  /\ audited \in Mode
  /\ calls \in 0..MaxCalls /\ edits \in 0..MaxEdits

\* Rollback commands, whenever they are run, destroy no edit that existed
\* outside tmp/ when the call that built them read the worktree.
RollbackKeepsKnownEdits == lost \subseteq IgnoredLocal

\* A result or an audit event "execute" means that every file of the patch
\* has been written: git's partial work is never reported as applied.
AppliedIsWhole ==
  result.mode = "execute" => Touched \subseteq patched

\* Whatever failed or was thrown before, a file is written only under a call
\* that asked for it, allowed it, confirmed it and was told of no dirty file
\* (or said it may be dirty): the gates are passed awaits before the write.
WritesPassAllGates ==
  [][patched' \ patched # {} =>
       /\ options.allowWrite /\ options.confirm /\ ~options.dryRun
       /\ snapshot = {} \/ options.allowDirty]_vars

-----------------------------------------------------------------------------
(* What the caller is promised: PatchCall, as the caller sees the function. *)

CallStage ==
  CASE pc = "idle"                  -> "closed"
    [] pc \in {"inspect", "status"} -> "open"
    [] pc \in {"check", "apply"}    -> "looked"
    [] pc = "writing"               -> "writing"
    [] pc = "audit"                 -> "answered"

CallConsent == [write |-> options.allowWrite /\ options.confirm /\ ~options.dryRun,
                dirty |-> options.allowDirty]

\* A denial that the next gate will return is no answer yet.
CallAnswer == IF pc \in {"idle", "audit"} THEN result.mode ELSE None

\* However its files are edited and its steps fail, the function keeps what
\* PatchCall promises: consent before the first write, nothing written over
\* an earlier attempt or behind an answer, the whole patch behind "execute",
\* nothing of it behind "dry-run", a way back only from a clean worktree.
Promise == INSTANCE PatchCall WITH
  Diff <- Touched, written <- patched, stage <- CallStage, consent <- CallConsent,
  clean <- snapshot = {}, answer <- CallAnswer, recovery <- result.rollback,
  logged <- audited

ImplementsPatchCall == Promise!Spec
=============================================================================

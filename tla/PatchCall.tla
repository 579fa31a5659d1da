----------------------------- MODULE PatchCall -----------------------------
(***************************************************************************)
(* What applyPatchProposal promises its caller about one patch, whatever   *)
(* git, the validation or the process itself does: a call looks at the     *)
(* worktree before anything else; only a call with consent writes, into a  *)
(* worktree that is clean or may be dirty, and only if nothing of the      *)
(* patch is there yet; "execute" says that this very call wrote all of     *)
(* it, "dry-run" that none of it is there, and "denied" nothing at all; a  *)
(* way back is offered only by a call that wrote the whole patch into a    *)
(* clean worktree.                                                         *)
(***************************************************************************)
CONSTANT Diff  \* the files the patch changes

VARIABLES
  written,  \* those of them that hold its change
  stage,    \* how far the call is
  consent,  \* what the caller agreed to: to write, to write to a dirty worktree
  clean,    \* what the call found
  answer,   \* what it answers, or last answered, and
  recovery, \* whether that offers a way back
  logged    \* the answer of the last call that returned

work == <<stage, consent, clean>>
vars == <<written, work, answer, recovery, logged>>

Consents  == [write : BOOLEAN, dirty : BOOLEAN]
NoConsent == [write |-> FALSE, dirty |-> FALSE]

Init ==
  /\ written = {}
  /\ stage = "closed" /\ consent = NoConsent /\ clean = TRUE
  /\ answer = "none" /\ recovery = FALSE /\ logged = "none"

Open ==
  /\ stage = "closed" /\ stage' = "open"
  /\ consent' \in Consents
  /\ answer' = "none" /\ recovery' = FALSE
  /\ UNCHANGED <<written, clean, logged>>

Answer(a) ==
  /\ stage' = "answered" /\ answer' = a
  /\ UNCHANGED <<written, consent, recovery, logged>>

\* It may turn the call down at once, and must for dirt that is not tolerated.
Look ==
  /\ stage = "open"
  /\ clean' \in BOOLEAN
  /\ \/ Answer("denied")
     \/ /\ clean' \/ consent.dirty
        /\ stage' = "looked"
        /\ UNCHANGED <<written, consent, answer, recovery, logged>>

Deny ==
  /\ stage \in {"looked", "writing"}
  /\ Answer("denied")
  /\ UNCHANGED clean

\* A dry run: the patch would fit.
Check ==
  /\ stage = "looked" /\ ~consent.write
  /\ written = {}
  /\ Answer("dry-run")
  /\ UNCHANGED clean

Begin ==
  /\ stage = "looked" /\ consent.write
  /\ written = {}
  /\ stage' = "writing"
  /\ UNCHANGED <<written, consent, clean, answer, recovery, logged>>

Write(f) ==
  /\ stage = "writing" /\ f \in Diff \ written
  /\ written' = written \cup {f}
  /\ UNCHANGED <<work, answer, recovery, logged>>

Execute ==
  /\ stage = "writing" /\ written = Diff
  /\ stage' = "answered" /\ answer' = "execute"
  /\ recovery' \in BOOLEAN /\ (recovery' => clean)
  /\ UNCHANGED <<written, consent, clean, logged>>

Close ==
  /\ stage' = "closed" /\ consent' = NoConsent /\ clean' = TRUE
  /\ UNCHANGED written

Return ==
  /\ stage = "answered" /\ Close
  /\ logged' = answer
  /\ UNCHANGED <<answer, recovery>>

\* The call throws or dies: no answer, no log, and what is written stays.
Throw ==
  /\ stage # "closed" /\ Close
  /\ answer' = "none" /\ recovery' = FALSE
  /\ UNCHANGED logged

\* The way back is taken, at any time before the next call.
Undo ==
  /\ stage = "closed" /\ recovery
  /\ written' = {}
  /\ answer' = "none" /\ recovery' = FALSE
  /\ UNCHANGED <<work, logged>>

Next ==
  \/ Open \/ Look \/ Deny \/ Check \/ Begin
  \/ (\E f \in Diff : Write(f)) \/ Execute
  \/ Return \/ Throw \/ Undo

Spec == Init /\ [][Next]_vars
=============================================================================

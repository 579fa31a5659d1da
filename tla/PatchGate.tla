----------------------------- MODULE PatchGate -----------------------------
(***************************************************************************)
(* What a task session promises about the repository, whatever it stores,  *)
(* resumes or loses: a run is opened with or without the caller's consent  *)
(* to write; its work is approved or not; it makes one decision to apply   *)
(* or not; and only an approved run with consent applies the one proposal  *)
(* it holds, which is never a placeholder.                                 *)
(***************************************************************************)
CONSTANTS Proposals, NoProposal

VARIABLES
  worktree,   \* proposals applied to the repository
  genuine,    \* proposals that are patches, not fallback placeholders
  open,       \* a run is in progress
  consent,    \* its caller asked for the apply and passed both write gates
  approved,   \* its quality gates accept the work so far
  proposal,   \* the proposal it holds
  decided     \* it is past its one decision to apply

run  == <<open, consent, approved, proposal, decided>>
vars == <<worktree, genuine, run>>

Init ==
  /\ worktree = {} /\ genuine = {}
  /\ open = FALSE /\ consent = FALSE /\ approved = FALSE
  /\ proposal = NoProposal /\ decided = FALSE

\* A resumed run starts from the judgement and the proposal it reads back.
Open ==
  /\ ~open /\ open'
  /\ consent' \in BOOLEAN
  /\ approved' \in BOOLEAN
  /\ proposal' \in Proposals \cup {NoProposal}
  /\ ~decided'
  /\ UNCHANGED <<worktree, genuine>>

Judge ==
  /\ open /\ ~decided
  /\ approved' \in BOOLEAN
  /\ UNCHANGED <<worktree, genuine, open, consent, proposal, decided>>

Propose(p) ==
  /\ open /\ ~decided /\ approved
  /\ p \notin genuine
  /\ proposal' = p
  /\ genuine' \in {genuine, genuine \cup {p}}
  /\ UNCHANGED <<worktree, open, consent, approved, decided>>

Apply ==
  /\ open /\ ~decided /\ decided'
  /\ approved /\ consent
  /\ proposal \in genuine
  /\ worktree' = worktree \cup {proposal}
  /\ UNCHANGED <<genuine, open, consent, approved, proposal>>

Decline ==
  /\ open /\ ~decided /\ decided'
  /\ UNCHANGED <<worktree, genuine, open, consent, approved, proposal>>

Close ==
  /\ open /\ ~open'
  /\ ~consent' /\ ~approved' /\ proposal' = NoProposal /\ ~decided'
  /\ UNCHANGED <<worktree, genuine>>

Next == Open \/ Judge \/ (\E p \in Proposals : Propose(p)) \/ Apply \/ Decline \/ Close

Spec == Init /\ [][Next]_vars
=============================================================================

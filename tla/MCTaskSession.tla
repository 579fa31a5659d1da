--------------------------- MODULE MCTaskSession ---------------------------
(***************************************************************************)
(* TLC instances of TaskSession: sets of start and resume options.         *)
(***************************************************************************)
EXTENDS TaskSession, TLC

\* The ids of proposals are interchangeable (used by the safety runs only).
McSymmetry == Permutations(Proposals)

\* The calls of the guides: review, review with a fix plan, propose, and a
\* start that asks for everything at once, with and without persistence.
McStartOptions ==
  [fix : {"no", "file"}, propose : {TRUE}, apply : {FALSE},
   allowWrite : {FALSE}, confirm : {FALSE}, persist : {TRUE}]
  \cup
  [fix : {"flag"}, propose : BOOLEAN, apply : {TRUE},
   allowWrite : {TRUE}, confirm : BOOLEAN, persist : BOOLEAN]

McResumeOptions ==
  [fix : {"unset", "no"}, propose : {"unset", "no", "yes"}, apply : BOOLEAN,
   allowWrite : BOOLEAN, confirm : {TRUE}, persist : BOOLEAN,
   fromStep : {None, "fix-planned", "patch-applied"}]

\* Small sets, for three runs in a row and for liveness.
McOneStartOption ==
  [fix : {"file"}, propose : {TRUE}, apply : {FALSE},
   allowWrite : {FALSE}, confirm : {FALSE}, persist : {TRUE}]
McOneResumeOption ==
  [fix : {"unset"}, propose : {"unset"}, apply : {TRUE},
   allowWrite : {TRUE}, confirm : {TRUE}, persist : {TRUE},
   fromStep : {None, "patch-applied"}]
McFewStartOptions ==
  [fix : {"no", "file"}, propose : {TRUE}, apply : {FALSE},
   allowWrite : {FALSE}, confirm : {FALSE}, persist : {TRUE}]
McFewResumeOptions ==
  [fix : {"unset"}, propose : {"unset"}, apply : BOOLEAN,
   allowWrite : {TRUE}, confirm : {TRUE}, persist : {TRUE},
   fromStep : {None, "patch-applied"}]

\* No crash, no exception: what the documents and messages are read against.
UndisturbedSpec == Init /\ [][Caller \/ Workflow]_vars
=============================================================================

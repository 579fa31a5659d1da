---------------------------- MODULE MCTaskStore ----------------------------
(***************************************************************************)
(* TLC instances of TaskStore.                                             *)
(***************************************************************************)
EXTENDS TaskStore, TLC

CONSTANTS c1, c2, g1, a1

\* Two clients with the same goal, scope, worker and options.
McOneGroup == [t \in Tasks |-> g1]
McOneKind  == [c \in Clients |-> g1]

\* They are interchangeable, in the properties too.
ClientSymmetry == Permutations(Clients)
=============================================================================

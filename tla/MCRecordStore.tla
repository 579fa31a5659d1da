--------------------------- MODULE MCRecordStore ---------------------------
(* Two writers, an event type and the type of the cleanup, one suite.     *)
EXTENDS RecordStore, TLC

Symmetry == Permutations(Writer)
=============================================================================

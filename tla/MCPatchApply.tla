---------------------------- MODULE MCPatchApply ----------------------------
(***************************************************************************)
(* TLC instances of PatchApply.                                            *)
(***************************************************************************)
EXTENDS PatchApply

\* Every combination of options.
McAnyOption == CallOption

\* "cw patch apply --allow-write --confirm-apply --typecheck"
McDocumentedOption ==
  [dryRun : {FALSE}, allowWrite : {TRUE}, confirm : {TRUE}, allowDirty : {FALSE},
   validate : {TRUE}]
=============================================================================

------------------------- MODULE RepositoryContext -------------------------
(***************************************************************************)
(* What a task of a worker is about: the files selectRepositoryFiles takes *)
(* for the repository context, and the report runRepositoryValidation      *)
(* makes of the scripts of the repository.                                 *)
(*                                                                         *)
(* A workspace is a record                                                 *)
(*   [files, dirs, scripts, autoDiscover, pnpmAllowed]                     *)
(* files maps the path of each file to                                     *)
(*   [within : set of scopes, secret, ignored, text : BOOLEAN],            *)
(* dirs are its directories but the root, and scripts maps the root        *)
(* (NoScope) and some directories to the set of <<check, source>> for      *)
(* which their package.json has a script.  A caller names a file as        *)
(* [written, path]: what it wrote and the path this resolves to.           *)
(***************************************************************************)
NoScope == "none"
Outside == "outside"   \* every path that leaves the root

-----------------------------------------------------------------------------
(* The selection of files.                                                 *)

\* resolveSelectionScope: beside explicit files, a scope that is not there is
\* left out, with a warning.
EffectiveScope(ws, scope, names) ==
  IF names # {} /\ scope \notin ws.dirs \cup DOMAIN ws.files THEN NoScope ELSE scope

InsideScope(ws, path, scope) == scope = NoScope \/ scope \in ws.files[path].within

\* readScopedRepositoryFile, of a path inside the root.
Readable(ws, path) == path \in DOMAIN ws.files /\ ~ws.files[path].secret

\* shouldIgnoreEntry, isSecretLikeFile and isReadableTextFile.
Candidate(file) == file.text /\ ~file.secret /\ ~file.ignored

\* walk, where no file is named.
Walked(ws, scope) ==
  {path \in DOMAIN ws.files : InsideScope(ws, path, scope) /\ Candidate(ws.files[path])}

\* selectRepositoryFiles throws on the first file that it may not read or that
\* is not there, and on a scope that is not a directory to walk.
Selectable(ws, scope, names) ==
  /\ scope # Outside
  /\ LET effective == EffectiveScope(ws, scope, names)
     IN  IF names = {} THEN effective \in ws.dirs \cup {NoScope}
         ELSE \A n \in names : Readable(ws, n.path) /\ InsideScope(ws, n.path, effective)

\* buildRepositoryContextPack.  Nothing is ever put into skippedFiles, so that
\* there never is a gap.
RepositoryContextPack(ws, scope, names) ==
  LET effective == EffectiveScope(ws, scope, names)
  IN  [requested |-> {n.written : n \in names},
       selected |-> IF names = {} THEN Walked(ws, effective) ELSE {n.path : n \in names},
       scope |-> effective, gap |-> FALSE]

-----------------------------------------------------------------------------
(* The validation.                                                         *)

HasScript(ws, dir, check) ==
  /\ dir \in DOMAIN ws.scripts
  /\ \E source \in {"canonical", "configured", "auto-discovered"} :
       /\ <<check, source>> \in ws.scripts[dir]
       /\ source = "auto-discovered" => ws.autoDiscover

\* resolveValidationExecutionPlan: the script of the scope, or of the root.
Configured(ws, scope, check) == HasScript(ws, scope, check) \/ HasScript(ws, NoScope, check)

\* The checks that come to a command: runSafeCommand throws if the command is
\* not allowed, and runs nothing in a dry run.
Commands(ws, scope, checks) == {check \in checks : Configured(ws, scope, check)}
Blocked(ws, scope, checks) == ~ws.pnpmAllowed /\ Commands(ws, scope, checks) # {}

\* runCommand: success is the exit code 0; a command that is killed has none.
Outcomes == {"success", "failure"}

Statuses(ws, scope, dry, check) ==
  IF ~Configured(ws, scope, check) THEN {"not-configured"}
  ELSE IF dry THEN {"dry-run"} ELSE Outcomes

\* The reports that a run of the checks may give, a check being asked for at
\* most once and no stop on a failure.
Reports(ws, scope, dry, checks) ==
  {report \in [checks -> {"not-configured", "dry-run", "success", "failure"}] :
     \A check \in checks : report[check] \in Statuses(ws, scope, dry, check)}

\* The field ok of a report.
ReportOk(report) == \A check \in DOMAIN report : report[check] \in {"success", "dry-run"}

\* Mutant: that nothing failed is enough.
NothingFailed(given) ==
  \A report \in given : \A check \in DOMAIN report : report[check] # "failure"

\* validationReportSupportsPassedClaim: "given" holds the report, if any.
SupportsPassedClaim(given) ==
  \E report \in given :
    ReportOk(report) \/ \E check \in DOMAIN report : report[check] = "success"
=============================================================================

-------------------------- MODULE MCWorkerExecution --------------------------
(***************************************************************************)
(* An instance of WorkerExecution: the profiles are those of a few         *)
(* interviews of WorkerInterview, the subjects and the answers have one    *)
(* thing wrong at a time.                                                  *)
(***************************************************************************)
EXTENDS WorkerExecution

I == INSTANCE WorkerInterview

AllSound == [c \in I!Cases |-> I!Sound]
Flaw == [I!Sound EXCEPT !.flaw = "plain"]
ProfileOf(answers) == I!BuildCapabilityProfile(answers, "m1", 0, 1)

Good     == ProfileOf(AllSound)
Patcher  == I!WithPatchGeneration(Good, TRUE)
\* Eligible for code-understanding, not for review-lite.
Reader   == ProfileOf([AllSound EXCEPT !["review-grounding"] = Flaw])

FewResolutions ==
  {[source |-> "persisted", profile |-> Patcher], [source |-> "persisted", profile |-> Reader],
   [source |-> "stale", profile |-> Patcher], [source |-> "missing"]}

FewTasks == {"review-lite", "code-understanding", "codegen", "summarization", PatchTask}

\* a is in the directory src, x beside it; secret lies in src too.
File(within) == [within |-> within, secret |-> FALSE, ignored |-> FALSE, text |-> TRUE]
SmallWorkspace ==
  [files |-> [a |-> File({"src", "a"}), b |-> File({"src", "b"}), x |-> File({"x"}),
              secret |-> [File({"src", "secret"}) EXCEPT !.secret = TRUE],
              built |-> [File({"dist", "built"}) EXCEPT !.ignored = TRUE]],
   dirs |-> {"src", "dist"},
   scripts |-> [none |-> {<<"test", "canonical">>}, src |-> {<<"lint", "auto-discovered">>}],
   autoDiscover |-> FALSE, pnpmAllowed |-> TRUE]

Name(path) == [written |-> path, path |-> path]
Tool(scope, names) == [caller |-> "tool", scope |-> scope, names |-> names, checks |-> {}]
Workflow(scope, names, checks) ==
  [caller |-> "workflow", scope |-> scope, names |-> names, checks |-> checks]
FewSubjects ==
  {Tool("src", {}), Tool("dist", {}), Tool("nowhere", {Name("built")}),
   Tool(NoScope, {Name("a"), [written |-> "./b", path |-> "b"]}),
   Tool("src", {Name("x")}), Tool(NoScope, {Name("secret")}),
   Workflow("src", {}, {}), Workflow("src", {}, {"lint", "test"}),
   Workflow("src", {Name("a")}, {"test"})}

Grounded == [mentions |-> {"a"}, refs |-> {"a"}, answered |-> TRUE, uncited |-> FALSE,
             template |-> FALSE, generic |-> FALSE, claims |-> FALSE]
FewAnswers ==
  {Grounded, [Grounded EXCEPT !.claims = TRUE], [Grounded EXCEPT !.template = TRUE],
   [Grounded EXCEPT !.refs = {"a", "x"}], [Grounded EXCEPT !.mentions = {}, !.refs = {}]}

Clean == [paths |-> {"a"}, placeholder |-> FALSE, claims |-> FALSE, inspects |-> "ok"]
FewProposals ==
  {Clean, [Clean EXCEPT !.paths = {"a", "x"}], [Clean EXCEPT !.placeholder = TRUE],
   [Clean EXCEPT !.claims = TRUE], [Clean EXCEPT !.inspects = "corrupt"],
   [Clean EXCEPT !.inspects = "blocked"]}
=============================================================================

------------------------- MODULE MCWorkerRegistry -------------------------
(* Two processes, two worker ids, two targets and a base URL.  Among the    *)
(* commands are a register that names notes and may meet another target, an *)
(* unregister, a scripted setup with and without registration (neither      *)
(* names a base URL) and with other safety settings, one without a worker,  *)
(* and the interactive init.                                                *)
EXTENDS WorkerRegistry, TLC

Plan(kind, id, target) ==
  [kind |-> kind, id |-> id, target |-> target, base |-> NoBase, extras |-> {},
   safety |-> "keep", register |-> FALSE, interview |-> FALSE, benchmark |-> FALSE]

MCCommand ==
  {[Plan("register", "w1", "t1") EXCEPT !.base = "u", !.extras = {"notes", "tags"}],
   [Plan("register", "w2", "t1") EXCEPT !.extras = {"command"}],
   Plan("unregister", "w1", NoTarget),
   [Plan("setup", "w1", "t2") EXCEPT
      !.safety = "allow-write", !.interview = TRUE, !.benchmark = TRUE],
   [Plan("setup", "w1", "t1") EXCEPT
      !.register = TRUE, !.interview = TRUE, !.benchmark = TRUE],
   [Plan("setup", NoTarget, NoTarget) EXCEPT !.safety = "dry-run"],
   [Plan("init", "w2", "t2") EXCEPT !.register = TRUE]}

\* no file, a file a dead process left half, a file with a tuned worker
MCInitially ==
  {Absent, Half,
   [DefaultConfig EXCEPT !.safety = "allow-write", !.workers = With(Empty, "w1",
      [target |-> "t1", base |-> "u", extras |-> {"tuning", "disabled"}])]}

Symmetry == Permutations(Process)
============================================================================

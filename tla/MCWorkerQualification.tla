------------------------ MODULE MCWorkerQualification ------------------------
(***************************************************************************)
(* Instances of WorkerQualification: one client and every interview with   *)
(* at most two cases that are not answered soundly, for the scoring; two   *)
(* processes and a few interviews, for the evaluations that overlap.       *)
(***************************************************************************)
EXTENDS WorkerQualification

\* The interviews in which all but two cases are answered soundly.
SoundButTwo ==
  UNION {{[c \in Cases |-> IF c = c1 THEN x ELSE IF c = c2 THEN y ELSE Sound] :
            x \in Possible(c1), y \in Possible(c2)} : c1 \in Cases, c2 \in Cases}

AllSound == [c \in Cases |-> Sound]
Flaw == [Sound EXCEPT !.flaw = "plain"]

\* Sound; a coder that cannot review; one that was not always reached.
FewInterviews ==
  {AllSound,
   [AllSound EXCEPT !["review-grounding"] = Flaw, !["evidence-sufficiency"] = Flaw],
   [AllSound EXCEPT !["summarization"] = Unreachable]}

AllPassed == [f \in Fixtures |-> "passed"]
OneFailed == [AllPassed EXCEPT !["unit-test-fix"] = "failed"]
FewBenchmarks == {AllPassed, OneFailed}

OneHost  == [c \in Clients |-> CHOOSE p \in Processes : TRUE]
\* One process for a client each.
OwnHosts == CHOOSE h \in [Clients -> Processes] : \A c, d \in Clients : h[c] = h[d] => c = d
=============================================================================

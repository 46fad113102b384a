------------------------------- MODULE MCRules -------------------------------
(***************************************************************************)
(* The rules of every module, each on its own problems.                    *)
(***************************************************************************)
EXTENDS MCMatchRules, MCClientReads, MCCurrentRules, MCGrantLists

vars == <<problem, answer>>

Init ==
  /\ AMatchingProblem \/ ClientProblem \/ CurrentProblem \/ ListProblem
  /\ answer = Unanswered

Read_ == problem.kind \in {"search", "grants", "eligibility"} /\ answer' = ClientAnswer(problem)

List_ == problem.kind \in {"tables", "filing"} /\ answer' = ListAnswer(problem)

Next == answer = Unanswered /\ (MatchStep \/ Read_ \/ BlockStep \/ VersionStep \/ List_) /\ UNCHANGED problem

Spec == Init /\ [][Next]_vars
=============================================================================

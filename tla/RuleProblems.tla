---------------------------- MODULE RuleProblems ----------------------------
(***************************************************************************)
(* The rule modules run on bounded inputs: a behaviour is a problem and    *)
(* the answer the rules give to it.  MatchProblems brings the problems of  *)
(* MatchRules, and the MC modules of the others theirs; MCRules puts them  *)
(* in one specification.                                                   *)
(***************************************************************************)
EXTENDS FiniteSetsExt

VARIABLES problem, answer

Unanswered == [none |-> TRUE]

Solved(kind) == problem.kind = kind /\ answer # Unanswered

UpTo(n, S) == UNION {kSubset(k, S) : k \in 0..n}
=============================================================================

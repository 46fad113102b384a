---------------------------- MODULE MCMatchRun ----------------------------
(* Two matchers, alike, and two policies, alike; of the relations, one is  *)
(* built from privategrants_current and one has views over it.             *)
EXTENDS MatchRun, TLC

Alike == Permutations(Matchers) \cup Permutations(Policies)

CONSTANTS pg, bfpf, privategrants_current, privategrants_future_current

FutureReadsPaid == (privategrants_current :> {}) @@ (privategrants_future_current :> {privategrants_current})
=============================================================================

---------------------------- MODULE MCLearnedRate ----------------------------
(* Instances of LearnedRate: callers that share a key.                       *)
EXTENDS LearnedRate, TLC

CONSTANTS c1, c2

PaceSymmetry == Permutations(Callers)
=============================================================================

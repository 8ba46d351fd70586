--------------------------- MODULE MCQuotaLedger ---------------------------
(* Instances of QuotaLedger: ticks of a second and a window of three.       *)
EXTENDS QuotaLedger, TLC

CONSTANTS k1, k2, c1, c2

QuotaSymmetry == Permutations(Callers)
=============================================================================

--------------------------- MODULE MCSummaryBatch ---------------------------
(* Instances of SummaryBatch: a subscription seat (luna) beside one or two *)
(* request-metered doors (gemini).                                         *)
EXTENDS SummaryBatch

CONSTANTS j1, j2, j3, l1, l2, g1, luna, gem31

(* One luna driver, one of gemini; a collage and a rewrite.                *)
MixKind   == luna :> "luna" @@ gem31 :> "gemini"
MixServes == luna :> {"collage", "rewrite"} @@ gem31 :> {"rewrite"}
MixPoolOf == l1 :> luna @@ g1 :> gem31
MixShape  == j1 :> "collage" @@ j2 :> "rewrite"

(* Two luna drivers, one of gemini; a collage and two rewrites.            *)
RankPoolOf == l1 :> luna @@ l2 :> luna @@ g1 :> gem31
RankShape  == j1 :> "collage" @@ j2 :> "rewrite" @@ j3 :> "rewrite"

(* The two rewrites are alike.                                             *)
BatchSymmetry == Permutations({j2, j3})
=============================================================================

---------------------------- MODULE MCGeminiDay -----------------------------
(* Two processes over the same keys.                                       *)
EXTENDS GeminiDay
=============================================================================

--------------------------- MODULE MCSeatRotation ---------------------------
(* Instances of SeatRotation: the night's run and a run by hand on the same *)
(* seat, beside the timer.                                                  *)
EXTENDS SeatRotation, TLC

CONSTANTS night, hand, n1, n2, h1, t1

(* Two drivers in the night's run, one in the run by hand.                  *)
BothClientOf == n1 :> night @@ n2 :> night @@ h1 :> hand

(* The two drivers of the night's run are alike.                            *)
SeatSymmetry == Permutations({n1, n2})
=============================================================================

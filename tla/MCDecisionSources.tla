------------------------- MODULE MCDecisionSources --------------------------
(* Instances of DecisionSources: two source_uids of one source and one of   *)
(* another, which comes before or after them.                              *)
EXTENDS DecisionSources

OneAndTwo == [u \in Uids |-> IF u = 3 THEN "dila" ELSE "judilibre"]
TwoAndOne == [u \in Uids |-> IF u = 3 THEN "judilibre" ELSE "dila"]
OneEdited == [u \in Uids |-> IF u = 1 THEN {1, 2} ELSE {1}]
Ranks     == [s \in Sources |-> IF s = "judilibre" THEN 60 ELSE 30]
=============================================================================

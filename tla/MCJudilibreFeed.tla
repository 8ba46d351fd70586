-------------------------- MODULE MCJudilibreFeed ---------------------------
(* Instances of JudilibreFeed: two decisions of one jurisdiction, and one of  *)
(* each of two.                                                             *)
EXTENDS JudilibreFeed

OneJur == <<"cc">>
TwoJurs == <<"cc", "ca">>
AllOfOne == [d \in Decisions |-> "cc"]
FirstTwo == [d \in Decisions |-> IF d < 3 THEN "cc" ELSE "ca"]
OneOfEach == [d \in Decisions |-> IF d = 1 THEN "cc" ELSE "ca"]
=============================================================================

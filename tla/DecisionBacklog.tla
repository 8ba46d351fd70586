-------------------------- MODULE DecisionBacklog ---------------------------
(***************************************************************************)
(* What a batch of the summary backfill promises of its decisions, without *)
(* saying who works on them: an answer is bought at most once for each,    *)
(* and what was bought is written, or lost with a run that was abandoned.  *)
(***************************************************************************)
CONSTANT Jobs   \* the decisions of the batch

VARIABLES
  status,   \* what each decision has come to
  end       \* the batch: open, closed (it ended by itself) or abandoned

vars == <<status, end>>

Statuses == {"waiting", "paid", "written", "dropped", "lost"}
Ends     == {"open", "closed", "abandoned"}

(* Types, and the promise as a state: a closed batch owes nothing.         *)
TypeOK ==
  /\ status \in [Jobs -> Statuses]
  /\ end \in Ends

NothingOwed == end = "closed" => \A j \in Jobs : status[j] \notin {"paid", "lost"}

Init ==
  /\ status = [j \in Jobs |-> "waiting"]
  /\ end = "open"

Pending == {j \in Jobs : status[j] = "paid"}

(* A model answered for the decision.                                      *)
Pay(j) ==
  /\ end # "closed" /\ status[j] = "waiting"
  /\ status' = [status EXCEPT ![j] = "paid"]
  /\ UNCHANGED end

(* The store took the answer.                                              *)
Write(j) ==
  /\ end = "open" /\ status[j] = "paid"
  /\ status' = [status EXCEPT ![j] = "written"]
  /\ UNCHANGED end

(* No model could do it.                                                   *)
Drop(j) ==
  /\ end # "closed" /\ status[j] = "waiting"
  /\ status' = [status EXCEPT ![j] = "dropped"]
  /\ UNCHANGED end

(* Answers that have nobody left to write them.                            *)
Lost(S) == [j \in Jobs |-> IF j \in S THEN "lost" ELSE status[j]]

Lose(S) ==
  /\ end = "abandoned"
  /\ status' = Lost(S)
  /\ UNCHANGED end

(* The batch ends by itself, decisions waiting or not, none bought.        *)
Close ==
  /\ end = "open" /\ Pending = {}
  /\ end' = "closed"
  /\ UNCHANGED status

(* The batch is cut short, from outside or by the store.                   *)
Abandon ==
  \E S \in SUBSET Pending :
    /\ end' = "abandoned"
    /\ status' = Lost(S)

Next ==
  \/ \E j \in Jobs : Pay(j) \/ Write(j) \/ Drop(j)
  \/ \E S \in SUBSET Pending : Lose(S)
  \/ Close
  \/ Abandon

Spec == Init /\ [][Next]_vars
=============================================================================

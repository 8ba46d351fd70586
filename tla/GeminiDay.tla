----------------------------- MODULE GeminiDay ------------------------------
(***************************************************************************)
(* The day of the Gemini keys (lj-llm gemini.rs, lj-store llm_keys.rs).    *)
(* Each key may send so many requests a Pacific day, which no response     *)
(* announces: every process counts its own in memory, adds them to the     *)
(* store at the end of a batch, and takes from it what the others spent.   *)
(* The count paces and reports; a key stops only when the service refuses  *)
(* it for the day.                                                         *)
(*                                                                         *)
(* A call, the reading of the store and the flush take time, and midnight  *)
(* may fall in any of them.                                                *)
(***************************************************************************)
EXTENDS Integers, FiniteSets, Functions

CONSTANTS
  Processes,  \* the summary runs and benches that share the keys
  Keys,
  Limit,      \* req_per_day
  MaxDay      \* bound: days

ASSUME DayAssumption ==
  IsFiniteSet(Processes) /\ Limit \in Nat \ {0} /\ MaxDay \in Nat \ {0}

Days == 1 .. MaxDay

VARIABLES
  today,    \* the Pacific day
  served,   \* what the service has counted, by key and day
  spent,    \* gemini_key_day, by key and day
  pc,       \* what a process is doing
  day,      \* DayBudget: the day it counts,
  charged,  \*   what the store held at the last flush,
  pending,  \*   what was sent since
  parked,   \* the day from which a key emits
  call,     \* the request in flight on a key,
  late,     \*   and the keys on which it has seen a midnight
  carried,  \* what a flush has read,
  total,    \*   and what the store returned to it, or to the seed
  own,      \* history: served calls a process has noted on its day
  lost      \* history: requests no count holds any more

vars == <<today, served, spent, pc, day, charged, pending, parked, call, late, carried, total,
          own, lost>>

None == [k \in Keys |-> 0]

Init ==
  /\ today = 1
  /\ served = [k \in Keys |-> [d \in Days |-> 0]]
  /\ spent = [k \in Keys |-> [d \in Days |-> 0]]
  /\ pc = [p \in Processes |-> "down"]
  /\ day = [p \in Processes |-> 1]
  /\ charged = [p \in Processes |-> None]
  /\ pending = [p \in Processes |-> None]
  /\ parked = [p \in Processes |-> None]
  /\ call = [p \in Processes |-> [k \in Keys |-> "none"]]
  /\ late = [p \in Processes |-> {}]
  /\ carried = [p \in Processes |-> None]
  /\ total = [p \in Processes |-> None]
  /\ own = [p \in Processes |-> None]
  /\ lost = None
-----------------------------------------------------------------------------
(* The client cuts a call after two minutes: it sees one midnight at most.  *)
Midnight ==
  /\ today < MaxDay /\ \A p \in Processes : late[p] = {}
  /\ today' = today + 1
  /\ late' = [p \in Processes |-> {k \in Keys : call[p][k] # "none"}]
  /\ UNCHANGED <<served, spent, pc, day, charged, pending, parked, call, carried, total,
                 own, lost>>

Goes(p, to) == pc' = [pc EXCEPT ![p] = to]

(* GeminiClient::new, and gemini_day_spent.                                *)
Start(p) ==
  /\ pc[p] = "down"
  /\ Goes(p, "seed")
  /\ day' = [day EXCEPT ![p] = today]
  /\ charged' = [charged EXCEPT ![p] = None]
  /\ pending' = [pending EXCEPT ![p] = None]
  /\ parked' = [parked EXCEPT ![p] = None]
  /\ own' = [own EXCEPT ![p] = None]
  /\ total' = [total EXCEPT ![p] = [k \in Keys |-> spent[k][today]]]
  /\ UNCHANGED <<today, served, spent, call, late, carried, lost>>

(* seed_day.                                                               *)
Seed(p) ==
  /\ pc[p] = "seed"
  /\ Goes(p, "run")
  /\ day' = [day EXCEPT ![p] = today]
  /\ charged' = [charged EXCEPT ![p] = total[p]]
  /\ total' = [total EXCEPT ![p] = None]
  /\ UNCHANGED <<today, served, spent, pending, parked, call, late, carried, own, lost>>
-----------------------------------------------------------------------------
Answers(p, k, c) ==
  /\ call' = [call EXCEPT ![p] = [call[p] EXCEPT ![k] = c]]
  /\ late' = [late EXCEPT ![p] = IF c = "none" THEN late[p] \ {k} ELSE late[p]]

(* generate_now: a live key takes a call.                                  *)
Send(p, k) ==
  /\ pc[p] = "run" /\ call[p][k] = "none"
  /\ parked[p][k] <= today
  /\ Answers(p, k, "sent")
  /\ UNCHANGED <<today, served, spent, pc, day, charged, pending, parked, carried, total, own, lost>>

(* The service serves it, or refuses it for the day or for the minute.     *)
Serve(p, k) ==
  /\ call[p][k] = "sent"
  /\ \/ /\ served[k][today] < Limit
        /\ served' = [served EXCEPT ![k] = [served[k] EXCEPT ![today] = served[k][today] + 1]]
        /\ Answers(p, k, "served")
     \/ /\ served[k][today] = Limit
        /\ Answers(p, k, "PerDay")
        /\ UNCHANGED served
     \/ Answers(p, k, "PerMinute") /\ UNCHANGED served
  /\ UNCHANGED <<today, spent, pc, day, charged, pending, parked, carried, total, own, lost>>

(* DayBudget::roll: the counters of another day are dropped.               *)
Rolled(p, counter) == IF day[p] = today THEN counter[p] ELSE None

(* note_served.                                                            *)
NoteServed(p, k) ==
  LET noted == Rolled(p, pending)
      mine  == Rolled(p, own)
  IN
  /\ call[p][k] = "served"
  /\ day' = [day EXCEPT ![p] = today]
  /\ charged' = [charged EXCEPT ![p] = Rolled(p, charged)]
  /\ pending' = [pending EXCEPT ![p] = [noted EXCEPT ![k] = noted[k] + 1]]
  /\ own' = [own EXCEPT ![p] = [mine EXCEPT ![k] = mine[k] + 1]]
  /\ lost' = [j \in Keys |-> lost[j] + pending[p][j] - noted[j]]
  /\ Answers(p, k, "none")
  /\ UNCHANGED <<today, served, spent, pc, parked, carried, total>>

(* Only a refusal that names the day parks the key, until the day is over. *)
(* Mutant: any that names a quota.                                         *)
NamesAny(c) == c \in {"PerDay", "PerMinute"}
NamesTheDay(c) == c = "PerDay"

Refused(p, k) ==
  /\ call[p][k] \in {"PerDay", "PerMinute"}
  /\ IF NamesTheDay(call[p][k])
     THEN parked' = [parked EXCEPT ![p] = [parked[p] EXCEPT ![k] = today + 1]]
     ELSE UNCHANGED parked
  /\ Answers(p, k, "none")
  /\ UNCHANGED <<today, served, spent, pc, day, charged, pending, carried, total, own, lost>>

(* A call that ends in an error of the network, served or not.             *)
Dropped(p, k) ==
  /\ call[p][k] \in {"sent", "served"}
  /\ lost' = [lost EXCEPT ![k] = lost[k] + (IF call[p][k] = "served" THEN 1 ELSE 0)]
  /\ Answers(p, k, "none")
  /\ UNCHANGED <<today, served, spent, pc, day, charged, pending, parked, carried, total, own>>
-----------------------------------------------------------------------------
(* flush_gemini_day, between two batches: day_pending ...                  *)
DayPending(p) ==
  /\ pc[p] = "run" /\ \A k \in Keys : call[p][k] = "none"
  /\ pending[p] # None
  /\ carried' = [carried EXCEPT ![p] = pending[p]]
  /\ Goes(p, "bump")
  /\ UNCHANGED <<today, served, spent, day, charged, pending, parked, call, late, total, own, lost>>

(* ... bump_gemini_day_spent, which adds to the day it is, and returns the *)
(* totals of the keys it added to (mutant: what it added) ...              *)
AddedTo(p, k) == carried[p][k]
TotalOf(p, k) == spent[k][today] + carried[p][k]

Bump(p) ==
  /\ pc[p] = "bump"
  /\ spent' = [k \in Keys |-> [spent[k] EXCEPT ![today] = spent[k][today] + carried[p][k]]]
  /\ total' = [total EXCEPT ![p] = [k \in Keys |-> IF carried[p][k] > 0 THEN TotalOf(p, k)
                                                   ELSE charged[p][k]]]
  /\ Goes(p, "book")
  /\ UNCHANGED <<today, served, day, charged, pending, parked, call, late, carried, own, lost>>

(* ... day_flushed.  Mutant: what was written stays pending.               *)
StillPending(p, k) == pending[p][k]
NoLongerPending(p, k) == pending[p][k] - carried[p][k]

DayFlushed(p) ==
  /\ pc[p] = "book"
  /\ pending' = [pending EXCEPT ![p] = [k \in Keys |-> NoLongerPending(p, k)]]
  /\ charged' = [charged EXCEPT ![p] = total[p]]
  /\ carried' = [carried EXCEPT ![p] = None]
  /\ total' = [total EXCEPT ![p] = None]
  /\ Goes(p, "run")
  /\ UNCHANGED <<today, served, spent, day, parked, call, late, own, lost>>

(* The end of a run: what is in flight or pending dies with it, unless the *)
(* store has it.                                                           *)
Written(p, k) == IF pc[p] = "book" THEN carried[p][k] ELSE 0
Flying(p, k)  == IF call[p][k] = "served" THEN 1 ELSE 0

Stop(p) ==
  /\ pc[p] # "down"
  /\ lost' = [k \in Keys |-> lost[k] + pending[p][k] - Written(p, k) + Flying(p, k)]
  /\ Goes(p, "down")
  /\ charged' = [charged EXCEPT ![p] = None]
  /\ pending' = [pending EXCEPT ![p] = None]
  /\ parked' = [parked EXCEPT ![p] = None]
  /\ call' = [call EXCEPT ![p] = [k \in Keys |-> "none"]]
  /\ late' = [late EXCEPT ![p] = {}]
  /\ carried' = [carried EXCEPT ![p] = None]
  /\ total' = [total EXCEPT ![p] = None]
  /\ own' = [own EXCEPT ![p] = None]
  /\ UNCHANGED <<today, served, spent, day>>
-----------------------------------------------------------------------------
Flush(p) == DayPending(p) \/ Bump(p) \/ DayFlushed(p)

Next ==
  \/ Midnight
  \/ \E p \in Processes : Start(p) \/ Seed(p) \/ Flush(p) \/ Stop(p)
  \/ \E p \in Processes, k \in Keys :
       Send(p, k) \/ Serve(p, k) \/ NoteServed(p, k) \/ Refused(p, k) \/ Dropped(p, k)

Spec == Init /\ [][Next]_vars
-----------------------------------------------------------------------------
Counter == [Keys -> Nat]

TypeOK ==
  /\ today \in Days
  /\ served \in [Keys -> [Days -> 0 .. Limit]]
  /\ spent \in [Keys -> [Days -> Nat]]
  /\ pc \in [Processes -> {"down", "seed", "run", "bump", "book"}]
  /\ day \in [Processes -> Days]
  /\ charged \in [Processes -> Counter] /\ pending \in [Processes -> Counter]
  /\ parked \in [Processes -> [Keys -> 0 .. MaxDay + 1]]
  /\ call \in [Processes -> [Keys -> {"none", "sent", "served", "PerDay", "PerMinute"}]]
  /\ late \in [Processes -> SUBSET Keys]
  /\ carried \in [Processes -> Counter] /\ total \in [Processes -> Counter]
  /\ own \in [Processes -> Counter] /\ lost \in Counter

(* What a process has of a key's count and the store has not.              *)
Unwritten(k) == [p \in Processes |-> pending[p][k] - Written(p, k) + Flying(p, k)]

(* Every request the service served is once in the count: in the store, in *)
(* the pending of one process, or noted shortly; or it is among those no   *)
(* count holds, which died with a run, or with the day they were sent on.  *)
(* Flushes of several processes, midnights and cuts never count one twice. *)
CountedOnce ==
  \A k \in Keys :
    SumFunctionOnSet(served[k], Days) =
      SumFunctionOnSet(spent[k], Days) + lost[k] + SumFunctionOnSet(Unwritten(k), Processes)

(* On the day it counts, the budget of a process never shows less than what*)
(* it was itself served that day, through the seed and the flushes of it   *)
(* and of the others, and through those that straddle midnight.            *)
BudgetSeesOwn ==
  \A p \in Processes, k \in Keys :
    day[p] = today => charged[p][k] + pending[p][k] >= own[p][k]

(* A key is out for the day only when the service has served its whole day,*)
(* the one it is or, if midnight fell under the answer, the one before.    *)
ParkedIsSpent ==
  \A p \in Processes, k \in Keys : parked[p][k] > today =>
    \E d \in {today, today - 1} \cap Days : served[k][d] = Limit
=============================================================================

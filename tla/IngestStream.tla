---------------------------- MODULE IngestStream ----------------------------
(***************************************************************************)
(* The ingest of one Judilibre month file (lj-ingest pipeline/opendata.rs,  *)
(* batch.rs, prepare.rs): the lines not yet marked go through the stages     *)
(* prepare, embed, extract and write, one loop each, joined by bounded       *)
(* channels, and the manifest is marked once the last batch is committed.    *)
(* The file grows between the runs, a run may die anywhere, and the next one *)
(* reads again whatever is not marked.                                      *)
(*                                                                         *)
(* A line is known by its number in the file.  A batch is a set of lines of   *)
(* distinct decisions; no batch on its way is empty.                        *)
(***************************************************************************)
EXTENDS Integers, Sequences, FiniteSets, FiniteSetsExt, Functions

CONSTANTS
  Uids,        \* decisions, by source_uid
  Texts,       \* the contents a line may give one, by checksum
  BatchSize,   \* BATCH_SIZE
  StageQueue,  \* STAGE_QUEUE
  ExtractQueue,\* EXTRACT_QUEUE
  MaxLines,    \* bound: the lines of the file
  MaxRuns      \* bound: the runs of the ingest

Absent == "absent"
Empty  == "empty"    \* a decision whose text is empty once cleaned
Bad    == "bad"      \* a line that does not parse

ASSUME IngestAssumption ==
  /\ IsFiniteSet(Uids) /\ IsFiniteSet(Texts)
  /\ Texts \cap {Absent, Empty, Bad} = {}
  /\ BatchSize \in Nat \ {0} /\ StageQueue \in Nat \ {0} /\ ExtractQueue \in Nat \ {0}
  /\ MaxLines \in Nat /\ MaxRuns \in Nat

VARIABLES
  file,      \* the lines of the month file
  db,        \* what the base holds of each decision
  marked,    \* the lines the manifest marks as ingested
  run,       \* the run under way: its phase, mode, counters
  cand,      \* candidates on their way to prepare
  buffer,    \* the batch prepare is filling
  queue,     \* the batches on their way to each later stage
  hand,      \* the batch each stage has in hand
  before     \* the base when the run started

vars == <<file, db, marked, run, cand, buffer, queue, hand, before>>

Stages == {"prepare", "embed", "extract", "write"}
Later  == {"embed", "extract", "write"}
After  == [s \in {"prepare", "embed", "extract"} |->
             CASE s = "prepare" -> "embed" [] s = "embed" -> "extract" [] s = "extract" -> "write"]

Room == [embed |-> StageQueue, extract |-> ExtractQueue, write |-> StageQueue]
CandRoom == BatchSize * (StageQueue + 1)

LineNos == 1 .. MaxLines
Batches == SUBSET LineNos

TypeOK ==
  /\ file \in Seq([uid : Uids, text : Texts \cup {Empty, Bad}]) /\ Len(file) <= MaxLines
  /\ db \in [Uids -> Texts \cup {Absent}]
  /\ marked \in 0 .. Len(file)
  /\ run \in [phase : {"idle", "running", "joined"}, all : BOOLEAN, no : 0 .. MaxRuns,
              sent : 0 .. Len(file), errors : BOOLEAN, hydrated : BOOLEAN]
  /\ cand \in Seq(LineNos) /\ Len(cand) <= CandRoom
  /\ buffer \in Seq(LineNos) /\ Len(buffer) <= BatchSize
  /\ queue \in [Later -> Seq(Batches \ {{}})] /\ \A s \in Later : Len(queue[s]) <= Room[s]
  /\ hand \in [Stages -> Batches]
  /\ before \in [Uids -> Texts \cup {Absent}]

NoQueue == [s \in Later |-> <<>>]
NoHand  == [s \in Stages |-> {}]

Init ==
  /\ file = <<>> /\ marked = 0
  /\ db = [u \in Uids |-> Absent] /\ before = db
  /\ run = [phase |-> "idle", all |-> FALSE, no |-> 0, sent |-> 0, errors |-> FALSE,
            hydrated |-> FALSE]
  /\ cand = <<>> /\ buffer = <<>> /\ queue = NoQueue /\ hand = NoHand

Running == run.phase = "running"

-----------------------------------------------------------------------------
(* Between the runs the downloader appends to the file.                     *)
Grow ==
  /\ run.phase = "idle" /\ Len(file) < MaxLines
  /\ \E u \in Uids, t \in Texts \cup {Empty, Bad} :
       file' = Append(file, [uid |-> u, text |-> t])
  /\ UNCHANGED <<db, marked, run, cand, buffer, queue, hand, before>>

(* A file whose size is the one marked is skipped; otherwise the run resumes  *)
(* after the marked lines.  Mode All looks at no mark.                      *)
Start ==
  /\ run.phase = "idle" /\ run.no < MaxRuns
  /\ \E all \in BOOLEAN :
       /\ all \/ marked < Len(file)
       /\ run' = [phase |-> "running", all |-> all, no |-> run.no + 1,
                  sent |-> IF all THEN 0 ELSE marked, errors |-> FALSE, hydrated |-> FALSE]
  /\ before' = db
  /\ UNCHANGED <<file, db, marked, cand, buffer, queue, hand>>

(* The next line: a candidate, or an error that is counted.                 *)
Produce ==
  LET i == run.sent + 1 IN
  /\ Running /\ run.sent < Len(file)
  /\ IF file[i].text = Bad
     THEN run' = [run EXCEPT !.sent = i, !.errors = TRUE] /\ UNCHANGED cand
     ELSE /\ Len(cand) < CandRoom
          /\ cand' = Append(cand, i)
          /\ run' = [run EXCEPT !.sent = i]
  /\ UNCHANGED <<file, db, marked, buffer, queue, hand, before>>

-----------------------------------------------------------------------------
(* Prepare.                                                                *)

(* What is in the channel goes to the batch, up to the room left in it.       *)
Taken == Min({BatchSize - Len(buffer), Len(cand)})

Collect ==
  /\ Running /\ hand["prepare"] = {} /\ Len(buffer) < BatchSize /\ cand # <<>>
  /\ buffer' = buffer \o SubSeq(cand, 1, Taken)
  /\ cand' = SubSeq(cand, Taken + 1, Len(cand))
  /\ UNCHANGED <<file, db, marked, run, queue, hand, before>>

Closed == run.sent = Len(file) /\ cand = <<>>

(* A batch is full, or the last one.  Mutant: full.                         *)
CompleteWhenFull == Len(buffer) = BatchSize
Complete == buffer # <<>> /\ (Len(buffer) = BatchSize \/ Closed)

(* Of two lines of one decision in a batch, the last stays.  Mutant: the      *)
(* first.                                                                   *)
FirstOf(b) == {b[j] : j \in {x \in DOMAIN b : \A y \in DOMAIN b :
                              y < x => file[b[y]].uid # file[b[x]].uid}}
LastOf(b) == {b[j] : j \in {x \in DOMAIN b : \A y \in DOMAIN b :
                             y > x => file[b[y]].uid # file[b[x]].uid}}

(* A decision the base holds with the same checksum is skipped, unless the    *)
(* mode is All.  Mutant: whatever the mode.                                  *)
Differs(i) == db[file[i].uid] # file[i].text
Survives(i) == run.all \/ Differs(i)

(* One read of the base for the whole batch, before the batches under way     *)
(* are committed; what has no text is dropped after the triage.             *)
Prepare ==
  /\ Running /\ hand["prepare"] = {} /\ Complete
  /\ buffer' = <<>>
  /\ hand' = [hand EXCEPT !["prepare"] =
                {i \in LastOf(buffer) : Survives(i) /\ file[i].text # Empty}]
  /\ UNCHANGED <<file, db, marked, run, cand, queue, before>>

-----------------------------------------------------------------------------
(* The stages downstream.                                                  *)

Hydrate ==
  /\ Running /\ ~run.hydrated
  /\ run' = [run EXCEPT !.hydrated = TRUE]
  /\ UNCHANGED <<file, db, marked, cand, buffer, queue, hand, before>>

(* The extraction takes nothing before its context is there.                *)
Receive(s) ==
  /\ Running /\ hand[s] = {} /\ queue[s] # <<>>
  /\ s = "extract" => run.hydrated
  /\ hand' = [hand EXCEPT ![s] = Head(queue[s])]
  /\ queue' = [queue EXCEPT ![s] = Tail(@)]
  /\ UNCHANGED <<file, db, marked, run, cand, buffer, before>>

Send(s) ==
  /\ Running /\ hand[s] # {} /\ Len(queue[After[s]]) < Room[After[s]]
  /\ queue' = [queue EXCEPT ![After[s]] = Append(@, hand[s])]
  /\ hand' = [hand EXCEPT ![s] = {}]
  /\ UNCHANGED <<file, db, marked, run, cand, buffer, before>>

(* One transaction per batch.  The upsert of a decision skips a checksum it   *)
(* finds, which leaves the row as the write would.                          *)
Written(b) == [u \in Uids |-> IF \E i \in b : file[i].uid = u
                              THEN file[CHOOSE i \in b : file[i].uid = u].text
                              ELSE db[u]]
Commit ==
  /\ Running /\ hand["write"] # {}
  /\ db' = Written(hand["write"])
  /\ hand' = [hand EXCEPT !["write"] = {}]
  /\ UNCHANGED <<file, marked, run, cand, buffer, queue, before>>

-----------------------------------------------------------------------------
(* The end of a run.                                                       *)

(* Every loop has returned.  Mutant: all but the writer's.                  *)
JoinedButWrite == Closed /\ buffer = <<>> /\ queue = NoQueue
                    /\ \A s \in Stages \ {"write"} : hand[s] = {}
Joined == Closed /\ buffer = <<>> /\ queue = NoQueue /\ hand = NoHand

(* The loops are gone, with what they held.                                 *)
Join ==
  /\ Running /\ Joined
  /\ run' = [run EXCEPT !.phase = "joined"] /\ hand' = NoHand
  /\ UNCHANGED <<file, db, marked, cand, buffer, queue, before>>

Rest == [run EXCEPT !.phase = "idle"]

(* A run without a parse error marks every line it counted.                 *)
Mark ==
  /\ run.phase = "joined" /\ ~run.errors
  /\ marked' = Len(file) /\ run' = Rest
  /\ UNCHANGED <<file, db, cand, buffer, queue, hand, before>>

LeaveUnmarked ==
  /\ run.phase = "joined" /\ run.errors
  /\ run' = Rest
  /\ UNCHANGED <<file, db, marked, cand, buffer, queue, hand, before>>

(* An error of a stage drops the others where they are, as does a cut.       *)
Fail ==
  /\ run.phase # "idle"
  /\ run' = Rest
  /\ cand' = <<>> /\ buffer' = <<>> /\ queue' = NoQueue /\ hand' = NoHand
  /\ UNCHANGED <<file, db, marked, before>>

Next ==
  \/ Grow \/ Start \/ Produce \/ Collect \/ Prepare \/ Hydrate
  \/ \E s \in Later : Receive(s)
  \/ \E s \in DOMAIN After : Send(s)
  \/ Commit \/ Join \/ Mark \/ LeaveUnmarked \/ Fail

(* Each loop goes on while it can; nothing has to grow, start or fail.       *)
Fairness ==
  /\ WF_vars(Produce) /\ WF_vars(Collect) /\ WF_vars(Prepare) /\ WF_vars(Hydrate)
  /\ \A s \in Later : WF_vars(Receive(s))
  /\ \A s \in DOMAIN After : WF_vars(Send(s))
  /\ WF_vars(Commit) /\ WF_vars(Join) /\ WF_vars(Mark) /\ WF_vars(LeaveUnmarked)

Spec == Init /\ [][Next]_vars /\ Fairness

-----------------------------------------------------------------------------
(* Properties.                                                             *)

(* What the manifest marks is in the base: a decision whose last marked line  *)
(* gives it a text is there, whatever died in between (ingest_judilibre,    *)
(* opendata.rs:409-426).                                                    *)
StandsLast(i, n) ==
  /\ file[i].text # Bad
  /\ \A j \in i + 1 .. n : file[j].uid = file[i].uid => file[j].text = Bad

MarkedIsServed ==
  \A i \in 1 .. marked :
    StandsLast(i, marked) /\ file[i].text \in Texts => db[file[i].uid] # Absent

(* At the mark the base holds the last line of every decision the run read,  *)
(* save one that goes back to a text it had: the one the base held when the    *)
(* run started, or that of an earlier line of the same run.  Mode All keeps    *)
(* even that one (triage_candidates, prepare.rs:93-131).                     *)
GoesBack(i) ==
  \/ before[file[i].uid] = file[i].text
  \/ \E j \in marked + 1 .. i - 1 : file[j] = file[i]

StaleOnlyIfBack ==
  [][Mark =>
       \A i \in 1 .. Len(file) :
         StandsLast(i, Len(file)) /\ file[i].text \in Texts /\ (run.all \/ i > marked) =>
           db[file[i].uid] = file[i].text \/ (~run.all /\ GoesBack(i))]_vars

(* The bounded channels never hold a run for ever (run_stream,              *)
(* batch.rs:355-364).                                                       *)
RunEnds == Running ~> run.phase = "idle"
=============================================================================

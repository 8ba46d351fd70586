---------------------------- MODULE SummaryBatch ----------------------------
(***************************************************************************)
(* One batch of the summary backfill (apps/lj-ingest/src/summary.rs): two  *)
(* shared files of jobs, one per shape, that the drivers of several model  *)
(* pools pull from; a bounded channel that carries the answers to the one  *)
(* writer; and the ways a batch ends: every sender gone, a store error,    *)
(* the watchdog, a signal.                                                 *)
(*                                                                         *)
(* A driver takes a job for the length of one call.  What the call answers *)
(* is the pool's business (its quota ledger, its service), so each answer  *)
(* the door can give is a choice; what the driver does with it is the code. *)
(***************************************************************************)
EXTENDS Naturals, FiniteSets, Sequences, SequencesExt

CONSTANTS
  Jobs,            \* the decisions of the batch that have a body to send
  Drivers,         \* the tasks spawned for the batch
  Pools,           \* the doors of the run
  Kind,            \* which client a pool is: luna, gemini or mistral
  Serves,          \* the shapes a pool carries an engine for
  PoolOf,          \* the pool a driver pulls for
  ShapeOf,         \* the shape a decision is written in
  ByRank,          \* Doors::ByRank (TRUE) or Doors::All (FALSE)
  MaxAttempts,     \* MAX_ATTEMPTS, 3 in the code
  MaxUnavailable,  \* MAX_UNAVAILABLE, 8 in the code
  ChannelCap,      \* room of the channel to the writer, 64 in the code
  NoJob,           \* a driver that holds no job
  Writer           \* the receiving side, as the place an answer was lost

Shapes == {"collage", "rewrite"}
Kinds  == {"luna", "gemini", "mistral"}

DriversOf(p) == {d \in Drivers : PoolOf[d] = p}
JobsOf(s)    == {j \in Jobs : ShapeOf[j] = s}

ASSUME BatchAssumption ==
  /\ IsFiniteSet(Jobs) /\ NoJob \notin Jobs
  /\ IsFiniteSet(Drivers) /\ Writer \notin Drivers
  /\ Kind \in [Pools -> Kinds]
  /\ Serves \in [Pools -> SUBSET Shapes]
  /\ PoolOf \in [Drivers -> Pools]
  /\ ShapeOf \in [Jobs -> Shapes]
  /\ ByRank \in BOOLEAN
  /\ MaxAttempts \in Nat \ {0}
  /\ MaxUnavailable \in Nat \ {0}
  /\ ChannelCap \in Nat \ {0}

Other(s)   == IF s = "collage" THEN "rewrite" ELSE "collage"
Prefers(p) == IF Kind[p] = "luna" THEN "collage" ELSE "rewrite"
Rank(p)    == IF Kind[p] = "luna" THEN 0 ELSE 1

Leaders == {d \in Drivers : Rank(PoolOf[d]) = 0}

(* The count the higher ranks wait on, one for each driver of rank 0.  The  *)
(* mutant counts the doors.                                                *)
AheadCountsDoors == Cardinality({p \in Pools : Rank(p) = 0})
AheadAtStart == Cardinality(Leaders)

(* A job that failed n times is given up.                                  *)
GivenUp(n, max) == n >= max

VARIABLES
  file,         \* the two queues of jobs
  pc,           \* where each driver stands
  held,         \* the job a driver has in its hands
  cooling,      \* the job a driver is sleeping a 503 backoff for
  exit,         \* why a driver stopped pulling
  late,         \* the drivers that took a job after the signal
  attempts,     \* failed calls of a job
  unavailable,  \* 503 answers of a job
  ahead,        \* rank 0 drivers still able to take a job
  channel,      \* answers on their way to the writer
  written,      \* summaries the store holds
  dropped,      \* jobs given up after too many failures
  lost,         \* paid answers that will never be written, with where they were
  stopping,     \* STOPPING
  phase         \* the batch: draining, joined, broken, cut or killed

driverVars == <<pc, held, cooling, exit, late>>
jobVars    == <<attempts, unavailable, dropped>>
sinkVars   == <<channel, written, lost>>
vars == <<file, driverVars, jobVars, ahead, sinkVars, stopping, phase>>

AtRest == {"gate", "pull", "armed", "sleep", "backoff", "left", "done"}
PcSet  == AtRest \cup {"call", "send"}
Exits  == {"none", "dry", "handover", "closed"}
Phases == {"draining", "joined", "broken", "cut", "killed"}

(* The batch order of a set of jobs: whatever order the store returned.     *)
Orders(S) ==
  {q \in [1..Cardinality(S) -> S] :
     /\ ToSet(q) = S
     /\ \A m, n \in DOMAIN q : q[m] = q[n] => m = n}

Init ==
  /\ file \in [Shapes -> UNION {Orders(JobsOf(s)) : s \in Shapes}]
  /\ \A s \in Shapes : file[s] \in Orders(JobsOf(s))
  /\ pc = [d \in Drivers |->
             IF ByRank /\ Rank(PoolOf[d]) > 0 THEN "gate" ELSE "pull"]
  /\ held = [d \in Drivers |-> NoJob]
  /\ cooling = [d \in Drivers |-> NoJob]
  /\ exit = [d \in Drivers |-> "none"]
  /\ late = {}
  /\ attempts = [j \in Jobs |-> 0]
  /\ unavailable = [j \in Jobs |-> 0]
  /\ ahead = AheadAtStart
  /\ channel = <<>>
  /\ written = {}
  /\ dropped = {}
  /\ lost = {}
  /\ stopping = FALSE
  /\ phase = "draining"

-----------------------------------------------------------------------------
(* The files.  A push goes to the file of the job's own shape.  Mutants:   *)
(* the job handed back is forgotten, or queued last.                       *)

PushBack(j)   == file' = [file EXCEPT ![ShapeOf[j]] = Append(@, j)]
PushNowhere(j) == UNCHANGED file
PushLast(j)   == PushBack(j)
PushFront(j)  == file' = [file EXCEPT ![ShapeOf[j]] = <<j>> \o @]

(* pop_front.  Mutant: the job is read and stays queued.                   *)
Peek(s) == UNCHANGED file
Pop(s)  == file' = [file EXCEPT ![s] = Tail(@)]

(* The file Files::take pops for a pool: the preferred shape if the pool   *)
(* has an engine for it and a job waits there, the other one otherwise.    *)
Ready(p, s) == s \in Serves[p] /\ file[s] # <<>>
TakesFrom(p, s) ==
  /\ Ready(p, s)
  /\ s = Prefers(p) \/ ~Ready(p, Prefers(p))

-----------------------------------------------------------------------------
(* drive and pull, for a driver d.                                         *)

Alive == phase # "killed"
MayTakeAnyway == TRUE                   \* mutant: STOPPING is not read
MayTake == ~stopping
Goto(d, to) == pc' = [pc EXCEPT ![d] = to]
Return(d, why) ==
  /\ Goto(d, "left")
  /\ exit' = [exit EXCEPT ![d] = why]

(* A door of higher rank polls `ahead` and starts once it reads zero.      *)
OpenGate(d) ==
  /\ Alive /\ pc[d] = "gate" /\ ahead = 0
  /\ Goto(d, "pull")
  /\ UNCHANGED <<file, held, cooling, exit, late, jobVars, ahead, sinkVars, stopping, phase>>

(* `take` reads STOPPING, then locks the files: a signal may fall between.  *)
Arm(d) ==
  /\ Alive /\ pc[d] = "pull" /\ MayTake
  /\ Goto(d, "armed")
  /\ UNCHANGED <<file, held, cooling, exit, late, jobVars, ahead, sinkVars, stopping, phase>>

Take(d) ==
  /\ Alive /\ pc[d] = "armed"
  /\ \E s \in Shapes :
       /\ TakesFrom(PoolOf[d], s)
       /\ held' = [held EXCEPT ![d] = Head(file[s])]
       /\ Pop(s)
  /\ Goto(d, "call")
  /\ late' = IF stopping THEN late \cup {d} ELSE late
  /\ UNCHANGED <<cooling, exit, jobVars, ahead, sinkVars, stopping, phase>>

(* The run is stopping, or nothing waits that the door serves: pull ends.  *)
Dry(d) ==
  /\ Alive
  /\ \/ pc[d] = "pull" /\ ~MayTake
     \/ pc[d] = "armed" /\ \A s \in Shapes : ~TakesFrom(PoolOf[d], s)
  /\ Return(d, "dry")
  /\ UNCHANGED <<file, held, cooling, late, jobVars, ahead, sinkVars, stopping, phase>>

(* Drops the job from the driver's hands, in the state of a call that ended. *)
Calling(d) == Alive /\ pc[d] = "call"
LetGo(d)   == held' = [held EXCEPT ![d] = NoJob]

(* Attempt::Written: the driver now has an answer to hand to the writer.   *)
Answered(d) ==
  /\ Calling(d)
  /\ Goto(d, "send")
  /\ UNCHANGED <<file, held, cooling, exit, late, jobVars, ahead, sinkVars, stopping, phase>>

(* Attempt::Busy: nothing was sent, or a 429: the job goes back first.     *)
Busy(d) ==
  /\ Calling(d)
  /\ PushFront(held[d]) /\ LetGo(d) /\ Goto(d, "sleep")
  /\ UNCHANGED <<cooling, exit, late, jobVars, ahead, sinkVars, stopping, phase>>

(* Attempt::Handover: the pool is out until its quota resets.              *)
Handover(d) ==
  /\ Calling(d)
  /\ PushFront(held[d]) /\ LetGo(d) /\ Return(d, "handover")
  /\ UNCHANGED <<cooling, late, jobVars, ahead, sinkVars, stopping, phase>>

(* Attempt::Unavailable, a gemini 503: the job is queued again before the  *)
(* driver sleeps its backoff, and given up at MaxUnavailable.              *)
Unavailable(d) ==
  LET j == held[d] IN
  /\ Calling(d) /\ Kind[PoolOf[d]] = "gemini"
  /\ unavailable' = [unavailable EXCEPT ![j] = @ + 1]
  /\ LetGo(d)
  /\ \/ /\ GivenUp(unavailable[j] + 1, MaxUnavailable)
        /\ dropped' = dropped \cup {j}
        /\ Goto(d, "pull")
        /\ UNCHANGED <<file, cooling>>
     \/ /\ ~GivenUp(unavailable[j] + 1, MaxUnavailable)
        /\ PushBack(j)
        /\ Goto(d, "backoff")
        /\ cooling' = [cooling EXCEPT ![d] = j]
        /\ UNCHANGED dropped
  /\ UNCHANGED <<exit, late, attempts, ahead, sinkVars, stopping, phase>>

(* Attempt::Failed: any other error, or an empty summary.                  *)
Failed(d) ==
  LET j == held[d] IN
  /\ Calling(d)
  /\ attempts' = [attempts EXCEPT ![j] = @ + 1]
  /\ LetGo(d) /\ Goto(d, "pull")
  /\ \/ /\ GivenUp(attempts[j] + 1, MaxAttempts)
        /\ dropped' = dropped \cup {j}
        /\ UNCHANGED file
     \/ /\ ~GivenUp(attempts[j] + 1, MaxAttempts)
        /\ PushBack(j)
        /\ UNCHANGED dropped
  /\ UNCHANGED <<cooling, exit, late, unavailable, ahead, sinkVars, stopping, phase>>

(* The end of a sleep, after a Busy or a 503.                              *)
Wake(d) ==
  /\ Alive /\ pc[d] \in {"sleep", "backoff"}
  /\ Goto(d, "pull")
  /\ cooling' = [cooling EXCEPT ![d] = NoJob]
  /\ UNCHANGED <<file, held, exit, late, jobVars, ahead, sinkVars, stopping, phase>>

(* tx.send: waits for room while the receiver lives.                       *)
Send(d) ==
  /\ pc[d] = "send" /\ phase = "draining"
  /\ Len(channel) < ChannelCap
  /\ channel' = Append(channel, [job |-> held[d], pool |-> PoolOf[d]])
  /\ LetGo(d) /\ Goto(d, "pull")
  /\ UNCHANGED <<file, cooling, exit, late, jobVars, ahead, written, lost, stopping, phase>>

(* tx.send on a receiver that is gone: the answer is lost, pull returns.   *)
(* Mutant: the error is ignored and the driver takes the next job.         *)
PullsOn(d)    == Goto(d, "pull") /\ UNCHANGED exit
StopsAtClosed(d) == Return(d, "closed")
SendClosed(d) ==
  /\ pc[d] = "send" /\ phase \in {"broken", "cut"}
  /\ lost' = lost \cup {[job |-> held[d], by |-> d]}
  /\ LetGo(d) /\ StopsAtClosed(d)
  /\ UNCHANGED <<file, cooling, late, jobVars, ahead, channel, written, stopping, phase>>

(* The tail of drive: a rank 0 driver counts itself out, the sender drops. *)
(* Mutant: it does not.                                                    *)
StillAhead(d) == ahead
AheadWithout(d) == IF Rank(PoolOf[d]) = 0 THEN ahead - 1 ELSE ahead
Leave(d) ==
  /\ Alive /\ pc[d] = "left"
  /\ Goto(d, "done")
  /\ ahead' = AheadWithout(d)
  /\ UNCHANGED <<file, held, cooling, exit, late, jobVars, sinkVars, stopping, phase>>

-----------------------------------------------------------------------------
(* The run: the writer, the watchdog, the signals.                         *)

(* The writer drains while the drivers run.  Mutant: it joins them first.  *)
SendersGone == \A d \in Drivers : pc[d] = "done"
DrainsAfterJoin == phase = "draining" /\ channel # <<>> /\ SendersGone
Drains == phase = "draining" /\ channel # <<>>

Record ==
  /\ Drains
  /\ written' = written \cup {Head(channel)}
  /\ channel' = Tail(channel)
  /\ UNCHANGED <<file, driverVars, jobVars, ahead, lost, stopping, phase>>

(* recv returns None: the channel is empty and every sender is dropped.    *)
(* Mutant: an empty channel is enough.                                     *)
EmptyIsTheEnd == channel = <<>>
StreamEnds    == channel = <<>> /\ SendersGone
EndOfStream ==
  /\ phase = "draining" /\ StreamEnds
  /\ phase' = "joined"
  /\ UNCHANGED <<file, driverVars, jobVars, ahead, sinkVars, stopping>>

(* The receiver goes away with what it had not written.  The tasks are     *)
(* detached and run on.                                                    *)
CloseReceiver ==
  /\ lost' = lost \cup {[job |-> a.job, by |-> Writer] : a \in ToSet(channel)}
  /\ channel' = <<>>
  /\ UNCHANGED <<file, driverVars, jobVars, ahead, written, stopping>>

(* set_summary fails: `?` leaves the loop, and the run.                    *)
RecordFails ==
  /\ phase = "draining" /\ channel # <<>>
  /\ phase' = "broken"
  /\ CloseReceiver

(* The watchdog of the chain drops the run's future at its deadline.       *)
Cut ==
  /\ phase = "draining"
  /\ phase' = "cut"
  /\ CloseReceiver

(* SIGTERM or SIGINT.  RUNNING holds until the run returns or is dropped.  *)
Signal ==
  IF phase \in {"draining", "joined"} /\ ~stopping
  THEN /\ stopping' = TRUE
       /\ UNCHANGED <<file, driverVars, jobVars, ahead, sinkVars, phase>>
  ELSE /\ Alive
       /\ phase' = "killed"
       /\ UNCHANGED <<file, driverVars, jobVars, ahead, sinkVars, stopping>>

(* Nothing is left to run: the batch joined, or its last task ended.       *)
Finished ==
  /\ \/ phase = "killed"
     \/ phase # "draining" /\ SendersGone
  /\ UNCHANGED vars

DriverStep(d) ==
  \/ OpenGate(d) \/ Arm(d) \/ Take(d) \/ Dry(d)
  \/ Answered(d) \/ Busy(d) \/ Handover(d) \/ Unavailable(d) \/ Failed(d)
  \/ Wake(d) \/ Send(d) \/ SendClosed(d) \/ Leave(d)

WriterStep == Record \/ EndOfStream

Next ==
  \/ \E d \in Drivers : DriverStep(d)
  \/ WriterStep
  \/ RecordFails \/ Cut \/ Signal
  \/ Finished

(* tokio runs every ready task; a call ends because its client carries a   *)
(* timeout; a sleep ends because the clock runs.  A signal, the watchdog   *)
(* and a store error owe nothing.                                          *)
Fairness ==
  /\ \A d \in Drivers : WF_vars(DriverStep(d))
  /\ WF_vars(WriterStep)

Spec     == Init /\ [][Next]_vars
FairSpec == Spec /\ Fairness

-----------------------------------------------------------------------------
(* Properties.                                                             *)

Queued == UNION {ToSet(file[s]) : s \in Shapes}
InHand == {held[d] : d \in Drivers} \ {NoJob}
InAir  == {a.job : a \in ToSet(channel)}
Stored == {a.job : a \in written}
Gone   == {x.job : x \in lost}
Paid   == InAir \cup {held[d] : d \in {e \in Drivers : pc[e] = "send"}}

(* Every variable has its type.                                            *)
TypeOK ==
  /\ file \in [Shapes -> Seq(Jobs)]
  /\ pc \in [Drivers -> PcSet]
  /\ held \in [Drivers -> Jobs \cup {NoJob}]
  /\ cooling \in [Drivers -> Jobs \cup {NoJob}]
  /\ exit \in [Drivers -> Exits]
  /\ late \subseteq Drivers
  /\ attempts \in [Jobs -> 0..MaxAttempts]
  /\ unavailable \in [Jobs -> 0..MaxUnavailable]
  /\ ahead \in Int
  /\ channel \in Seq([job : Jobs, pool : Pools])
  /\ written \subseteq [job : Jobs, pool : Pools]
  /\ dropped \subseteq Jobs
  /\ lost \subseteq [job : Jobs, by : Drivers \cup {Writer}]
  /\ stopping \in BOOLEAN
  /\ phase \in Phases

(* No decision leaves the batch unaccounted for: whatever the drivers, the *)
(* refusals and the way the batch ends, each is queued, in a driver's      *)
(* hands, on its way to the writer, written, given up, or known lost.      *)
NoJobLost ==
  Jobs \subseteq Queued \cup InHand \cup InAir \cup Stored \cup dropped \cup Gone

(* No decision is in two places, so none is paid for by two drivers at     *)
(* once, and none is written after it was given up or written before: the  *)
(* hand-backs of Busy, Handover, Unavailable and Failed never duplicate.   *)
NoJobTwice ==
  /\ \A s \in Shapes : \A m, n \in DOMAIN file[s] :
       file[s][m] = file[s][n] => m = n
  /\ \A m, n \in DOMAIN channel : channel[m].job = channel[n].job => m = n
  /\ \A d, e \in Drivers : held[d] = held[e] /\ held[d] # NoJob => d = e
  /\ Queued \cap (InHand \cup InAir \cup Stored \cup dropped \cup Gone) = {}
  /\ InHand \cap (InAir \cup Stored \cup dropped \cup Gone) = {}
  /\ InAir \cap (Stored \cup dropped \cup Gone) = {}
  /\ Stored \cap (dropped \cup Gone) = {}
  /\ dropped \cap Gone = {}

(* A run that ends by itself, stopped or not, has written every answer it  *)
(* paid for: what is not written or given up is back in its file.          *)
JoinedWroteAll ==
  phase = "joined" => /\ InHand = {} /\ InAir = {} /\ Gone = {}
                      /\ Jobs = Queued \cup Stored \cup dropped

(* Under Doors::ByRank no door of higher rank pulls while a rank 0 driver  *)
(* can still take a job, the counter they wait on being shared.            *)
RankHolds ==
  ByRank => \A d, e \in Drivers :
    Rank(PoolOf[d]) > 0 /\ pc[d] # "gate" /\ e \in Leaders
      => pc[e] = "done"

(* Once the receiver is gone (store error, watchdog) a detached driver     *)
(* pays for one more answer at most before it notices.                     *)
OneLostAnswerPerDriver ==
  \A x, y \in lost : x.by = y.by /\ x.by \in Drivers => x = y

(* A refusal of the pool is not paid by the job: only a failed call        *)
(* or a 503 moves a job's counters, and a job handed back for want of quota *)
(* is the next one its file serves.                                        *)
RefusalCostsNothing ==
  [][\A d \in Drivers :
       pc[d] = "call" /\ (pc'[d] = "sleep" \/ exit'[d] = "handover")
         => /\ UNCHANGED <<attempts, unavailable, dropped>>
            /\ Head(file'[ShapeOf[held[d]]]) = held[d]]_vars

(* After a signal a driver takes one job at most, the one it was about to  *)
(* take: STOPPING is read before each, whatever was handed back.           *)
LateTakesOnce ==
  [][\A d \in late : held'[d] \in {held[d], NoJob}]_vars

(* A stopping run comes to its end, whatever the quotas say: every driver  *)
(* returns, the gate of the higher ranks opens, the writer sees the last   *)
(* sender go.                                                              *)
StopDrains == stopping ~> (phase # "draining")

(* A paid answer comes to rest: it is written, or counted lost with the    *)
(* receiver it waited for; no full channel holds driver and writer apart.  *)
PaidIsSettled ==
  \A j \in Jobs : (j \in Paid) ~> (j \in Stored \cup Gone \/ ~Alive)

-----------------------------------------------------------------------------
(* What the batch promises of a decision, whoever works on it.             *)

StatusOf(j) ==
  CASE j \in Stored  -> "written"
    [] j \in dropped -> "dropped"
    [] j \in Gone    -> "lost"
    [] j \in Paid    -> "paid"
    [] OTHER         -> "waiting"

EndOf(ph) ==
  CASE ph = "draining" -> "open"
    [] ph = "joined"   -> "closed"
    [] OTHER           -> "abandoned"

Backlog == INSTANCE DecisionBacklog WITH
             status <- [j \in Jobs |-> StatusOf(j)], end <- EndOf(phase)

(* The drivers, the files, the gate and the channel implement a backlog in *)
(* which each decision is paid for at most once and a clean end leaves no  *)
(* paid answer behind.                                                     *)
ImplementsBacklog == Backlog!Spec
=============================================================================

---------------------------- MODULE SeatRotation ----------------------------
(***************************************************************************)
(* The tokens of one OpenAI seat (kind "oauth" in llm_credential).  A       *)
(* refresh token is single use: the provider trades it for the next one and *)
(* kills it.  Three parties trade it: the drivers of a luna client, on a    *)
(* 401 (lj-llm luna.rs); the daily "credential refresh" (credential.rs);    *)
(* and the operator who logs in again.  The seat is lost, and needs a       *)
(* browser, once no live token can reach the store any more.                *)
(*                                                                          *)
(* Tokens are numbered in the order the provider issues them; an access     *)
(* token carries the number of the refresh token issued with it.            *)
(***************************************************************************)
EXTENDS Naturals, FiniteSets, Sequences, SequencesExt

CONSTANTS
  Clients,     \* the luna clients, one per summary run
  Drivers,     \* the tasks that call through them
  ClientOf,    \* the client a driver calls through
  Timers,      \* the processes that run "credential refresh"
  MaxTokens,   \* bound: pairs the provider issues
  MaxLogins,   \* bound: logins after the first
  MaxAged      \* bound: access tokens that come to their last days

ASSUME SeatAssumption ==
  /\ IsFiniteSet(Clients) /\ IsFiniteSet(Drivers)
  /\ ClientOf \in [Drivers -> Clients]
  /\ MaxTokens \in Nat \ {0}
  /\ MaxLogins \in Nat
  /\ MaxAged \in Nat

NoToken == 0
Tokens  == 1 .. MaxTokens
Misfortunes == {"answer", "cut", "store", "order"}

VARIABLES
  live,     \* the refresh tokens the provider would trade
  issued,   \* the last pair it issued
  aged,     \* the last access token in its last two days, expired or not
  logins,   \* logins so far
  row,      \* the seat's row: token, the token expires_at was set for, rotated_at
  memory,   \* the pair a client holds (tokens[seat])
  queue,    \* the pairs a client has to write back (rotations)
  taken,    \* the pairs flush_luna_rotations took and has not written
  phase,    \* a client: off, on, closing, flushing, ended, cut
  pc,       \* where each driver stands
  held,     \* the token a driver read, traded for or received
  timer,    \* where each timer stands, with the token and version it read
  spoilt    \* what has gone wrong so far, among Misfortunes

providerVars == <<live, issued, aged, logins>>
clientVars   == <<memory, queue, taken, phase>>
driverVars   == <<pc, held>>
vars == <<providerVars, row, clientVars, driverVars, timer, spoilt>>

DriversOf(c) == {d \in Drivers : ClientOf[d] = c}
Idle(c)      == \A d \in DriversOf(c) : pc[d] = "idle"
Running      == {"on", "closing", "flushing"}

(* The pairs of a client the store has not seen.                           *)
InHand(c)  == {held[d] : d \in {e \in DriversOf(c) : pc[e] \in {"answered", "applied"}}}
Queued(c)  == ToSet(queue[c]) \cup ToSet(taken[c])
Pending(c) == InHand(c) \cup Queued(c)

TypeOK ==
  /\ live \subseteq Tokens
  /\ issued \in Tokens
  /\ aged \in 0 .. issued
  /\ logins \in 0 .. MaxLogins
  /\ row \in [token : Tokens, dated : Tokens, version : Nat]
  /\ memory \in [Clients -> Tokens \cup {NoToken}]
  /\ queue \in [Clients -> Seq(Tokens)]
  /\ taken \in [Clients -> Seq(Tokens)]
  /\ phase \in [Clients -> Running \cup {"off", "ended", "cut"}]
  /\ pc \in [Drivers -> {"idle", "calling", "asking", "answered", "applied", "again"}]
  /\ held \in [Drivers -> Tokens \cup {NoToken}]
  /\ timer \in [Timers -> [at : {"idle", "asking", "turned"},
                           token : Tokens \cup {NoToken}, seen : Nat]]
  /\ spoilt \subseteq Misfortunes

Resting == [at |-> "idle", token |-> NoToken, seen |-> 0]

Init ==
  /\ live = {1} /\ issued = 1 /\ aged = 0 /\ logins = 0
  /\ row = [token |-> 1, dated |-> 1, version |-> 0]
  /\ memory = [c \in Clients |-> NoToken]
  /\ queue = [c \in Clients |-> <<>>]
  /\ taken = [c \in Clients |-> <<>>]
  /\ phase = [c \in Clients |-> "off"]
  /\ pc = [d \in Drivers |-> "idle"]
  /\ held = [d \in Drivers |-> NoToken]
  /\ timer = [t \in Timers |-> Resting]
  /\ spoilt = {}

(* What spoils the seat, when the condition holds.                         *)
Spoils(what, condition) ==
  spoilt' = spoilt \cup (IF condition THEN {what} ELSE {})

-----------------------------------------------------------------------------
(* The provider.                                                           *)

(* Trades a live token for the next one; a dead one is refused.            *)
Trade(old) ==
  /\ old \in live
  /\ issued < MaxTokens
  /\ issued' = issued + 1
  /\ live' = (live \ {old}) \cup {issued + 1}
  /\ UNCHANGED <<aged, logins>>

Refuses(old) == old \notin live

(* The access tokens reach their last days in the order they were issued.  *)
Age ==
  /\ aged < issued /\ aged < MaxAged
  /\ aged' = aged + 1
  /\ UNCHANGED <<live, issued, logins, row, clientVars, driverVars, timer, spoilt>>

-----------------------------------------------------------------------------
(* A luna client.                                                          *)

(* The run reads its seats once, at its start.                             *)
Start(c) ==
  /\ phase[c] = "off"
  /\ phase' = [phase EXCEPT ![c] = "on"]
  /\ memory' = [memory EXCEPT ![c] = row.token]
  /\ UNCHANGED <<providerVars, row, queue, taken, driverVars, timer, spoilt>>

(* A call goes out under the access token in memory.  The drivers of a cut  *)
(* run are detached tasks: they go on until they find the writer gone.      *)
Call(d) ==
  LET c == ClientOf[d] IN
  /\ pc[d] = "idle" /\ phase[c] \in {"on", "cut"}
  /\ pc' = [pc EXCEPT ![d] = "calling"]
  /\ held' = [held EXCEPT ![d] = memory[c]]
  /\ UNCHANGED <<providerVars, row, clientVars, timer, spoilt>>

(* The call settles, whatever its status, or does not come back.  After a   *)
(* refresh a second 401 is an answer like another.                          *)
Settle(d) ==
  /\ pc[d] \in {"calling", "again"}
  /\ pc' = [pc EXCEPT ![d] = "idle"]
  /\ held' = [held EXCEPT ![d] = NoToken]
  /\ UNCHANGED <<providerVars, row, clientVars, timer, spoilt>>

(* A 401: the driver reads the refresh token of the seat, and asks.         *)
Unauthorised(d) ==
  /\ pc[d] = "calling" /\ held[d] <= aged
  /\ pc' = [pc EXCEPT ![d] = "asking"]
  /\ held' = [held EXCEPT ![d] = memory[ClientOf[d]]]
  /\ UNCHANGED <<providerVars, row, clientVars, timer, spoilt>>

(* The pair kept for the store is the one received.  Mutant: the token asked *)
(* with.                                                                     *)
ReceivedOld(d) == held[d]
Received(d) == issued + 1

(* The provider answers the new pair.  A cut run will never write it.       *)
Answered(d) ==
  /\ pc[d] = "asking"
  /\ Trade(held[d])
  /\ pc' = [pc EXCEPT ![d] = "answered"]
  /\ held' = [held EXCEPT ![d] = Received(d)]
  /\ Spoils("cut", phase[ClientOf[d]] = "cut")
  /\ UNCHANGED <<row, clientVars, timer>>

(* The token was traded already: the call fails, the job loses an attempt.  *)
Refused(d) ==
  /\ pc[d] = "asking" /\ Refuses(held[d])
  /\ pc' = [pc EXCEPT ![d] = "idle"]
  /\ held' = [held EXCEPT ![d] = NoToken]
  /\ UNCHANGED <<providerVars, row, clientVars, timer, spoilt>>

(* The provider traded, and its answer was lost on the way or carried no    *)
(* access token.                                                            *)
AnswerLost(d) ==
  /\ pc[d] = "asking"
  /\ Trade(held[d])
  /\ pc' = [pc EXCEPT ![d] = "idle"]
  /\ held' = [held EXCEPT ![d] = NoToken]
  /\ Spoils("answer", TRUE)
  /\ UNCHANGED <<row, clientVars, timer>>

(* The request never reached the provider.                                  *)
AskFails(d) ==
  /\ pc[d] = "asking"
  /\ pc' = [pc EXCEPT ![d] = "idle"]
  /\ held' = [held EXCEPT ![d] = NoToken]
  /\ UNCHANGED <<providerVars, row, clientVars, timer, spoilt>>

(* The pair goes to memory, then, under another lock, to the queue.         *)
Apply(d) ==
  /\ pc[d] = "answered"
  /\ memory' = [memory EXCEPT ![ClientOf[d]] = held[d]]
  /\ pc' = [pc EXCEPT ![d] = "applied"]
  /\ UNCHANGED <<providerVars, row, queue, taken, phase, held, timer, spoilt>>

(* Between the two, another driver may have traded this pair and queued the *)
(* next: the queue is then out of order.                                    *)
Overtaken(d) == \E g \in ToSet(queue[ClientOf[d]]) : g > held[d]

Push(d) ==
  LET c == ClientOf[d] IN
  /\ pc[d] = "applied"
  /\ queue' = [queue EXCEPT ![c] = Append(@, held[d])]
  /\ pc' = [pc EXCEPT ![d] = "again"]
  /\ held' = [held EXCEPT ![d] = NoToken]
  /\ Spoils("order", Overtaken(d))
  /\ UNCHANGED <<providerVars, row, memory, taken, phase, timer>>

-----------------------------------------------------------------------------
(* The writer of the run: a batch, its drivers joined, the flush.           *)

Close(c) ==
  /\ phase[c] = "on"
  /\ phase' = [phase EXCEPT ![c] = "closing"]
  /\ UNCHANGED <<providerVars, row, memory, queue, taken, driverVars, timer, spoilt>>

(* The flush comes after the join.  Mutants: it does not wait for the        *)
(* drivers; it waits for the detached ones of a cut run too.                 *)
JoinedNever(c) == TRUE
JoinedAll(c) == \A d \in Drivers : pc[d] = "idle"
Joined(c) == Idle(c)

TakeRotations(c) ==
  /\ phase[c] = "closing" /\ Joined(c)
  /\ phase' = [phase EXCEPT ![c] = "flushing"]
  /\ taken' = [taken EXCEPT ![c] = queue[c]]
  /\ queue' = [queue EXCEPT ![c] = <<>>]
  /\ UNCHANGED <<providerVars, row, memory, driverVars, timer, spoilt>>

(* The rotation written leaves the vector.  Mutant: it is kept.             *)
OthersAll(s) == s
Others(s) == Tail(s)

(* merge_credential_secret looks at no version and leaves expires_at.       *)
Merge(c) ==
  /\ phase[c] = "flushing" /\ taken[c] # <<>>
  /\ row' = [row EXCEPT !.token = Head(taken[c]), !.version = @ + 1]
  /\ taken' = [taken EXCEPT ![c] = Others(@)]
  /\ UNCHANGED <<providerVars, memory, queue, phase, driverVars, timer, spoilt>>

(* The flush done, the next batch or the end of the run.                    *)
Flushed(c) ==
  /\ phase[c] = "flushing" /\ taken[c] = <<>>
  /\ \E next \in {"on", "ended"} : phase' = [phase EXCEPT ![c] = next]
  /\ UNCHANGED <<providerVars, row, memory, queue, taken, driverVars, timer, spoilt>>

(* The store refuses a write: the rest of the vector goes with the error.   *)
MergeFails(c) ==
  /\ phase[c] = "flushing" /\ taken[c] # <<>>
  /\ phase' = [phase EXCEPT ![c] = "cut"]
  /\ taken' = [taken EXCEPT ![c] = <<>>]
  /\ Spoils("store", TRUE)
  /\ UNCHANGED <<providerVars, row, memory, queue, driverVars, timer>>

(* A store error elsewhere in the run, the watchdog, a crash.  A crash is a *)
(* cut whose drivers take no further step.                                  *)
Cut(c) ==
  /\ phase[c] \in Running
  /\ phase' = [phase EXCEPT ![c] = "cut"]
  /\ queue' = [queue EXCEPT ![c] = <<>>]
  /\ taken' = [taken EXCEPT ![c] = <<>>]
  /\ Spoils("cut", Pending(c) # {})
  /\ UNCHANGED <<providerVars, row, memory, driverVars, timer>>

-----------------------------------------------------------------------------
(* The daily timer, and the operator.                                       *)

(* A row is skipped while its expires_at is more than two days away.        *)
TimerReads(t) ==
  /\ timer[t].at = "idle" /\ row.dated <= aged
  /\ timer' = [timer EXCEPT ![t] = [at |-> "asking", token |-> row.token,
                                    seen |-> row.version]]
  /\ UNCHANGED <<providerVars, row, clientVars, driverVars, spoilt>>

TimerTurns(t) ==
  /\ timer[t].at = "asking"
  /\ Trade(timer[t].token)
  /\ timer' = [timer EXCEPT ![t].at = "turned", ![t].token = issued + 1]
  /\ UNCHANGED <<row, clientVars, driverVars, spoilt>>

(* Refused, or the request did not leave: the sweep goes on to the next row. *)
TimerGivesUp(t) ==
  /\ timer[t].at = "asking"
  /\ timer' = [timer EXCEPT ![t] = Resting]
  /\ UNCHANGED <<providerVars, row, clientVars, driverVars, spoilt>>

TimerAnswerLost(t) ==
  /\ timer[t].at = "asking"
  /\ Trade(timer[t].token)
  /\ timer' = [timer EXCEPT ![t] = Resting]
  /\ Spoils("answer", TRUE)
  /\ UNCHANGED <<row, clientVars, driverVars>>

(* rotate_credential: only over the version it read.  Mutant: over any.     *)
SameVersionNever(t) == TRUE
SameVersion(t) == row.version = timer[t].seen

TimerRotates(t) ==
  /\ timer[t].at = "turned" /\ SameVersion(t)
  /\ row' = [token |-> timer[t].token, dated |-> timer[t].token,
             version |-> row.version + 1]
  /\ timer' = [timer EXCEPT ![t] = Resting]
  /\ UNCHANGED <<providerVars, clientVars, driverVars, spoilt>>

(* Another process wrote the row first: the pair is dropped.                *)
TimerLoses(t) ==
  /\ timer[t].at = "turned" /\ ~SameVersion(t)
  /\ timer' = [timer EXCEPT ![t] = Resting]
  /\ UNCHANGED <<providerVars, row, clientVars, driverVars, spoilt>>

(* The write fails, or the process dies, with the new pair in its hands.    *)
TimerFails(t) ==
  /\ timer[t].at = "turned"
  /\ timer' = [timer EXCEPT ![t] = Resting]
  /\ Spoils("store", TRUE)
  /\ UNCHANGED <<providerVars, row, clientVars, driverVars>>

(* The operator approves the device again: a chain of tokens of its own.    *)
Login ==
  /\ logins < MaxLogins /\ issued < MaxTokens
  /\ logins' = logins + 1
  /\ issued' = issued + 1
  /\ live' = live \cup {issued + 1}
  /\ row' = [token |-> issued + 1, dated |-> issued + 1, version |-> row.version + 1]
  /\ UNCHANGED <<aged, clientVars, driverVars, timer, spoilt>>

-----------------------------------------------------------------------------
CallGoesOn(d) ==
  \/ Settle(d) \/ Unauthorised(d) \/ Answered(d) \/ Refused(d)
  \/ AnswerLost(d) \/ AskFails(d) \/ Apply(d) \/ Push(d)

DriverStep(d) == Call(d) \/ CallGoesOn(d)

BatchGoesOn(c) == Close(c) \/ TakeRotations(c) \/ Merge(c) \/ Flushed(c)

ClientStep(c) == Start(c) \/ BatchGoesOn(c) \/ MergeFails(c) \/ Cut(c)

TimerStep(t) ==
  \/ TimerReads(t) \/ TimerTurns(t) \/ TimerGivesUp(t) \/ TimerAnswerLost(t)
  \/ TimerRotates(t) \/ TimerLoses(t) \/ TimerFails(t)

Next ==
  \/ Age \/ Login
  \/ \E d \in Drivers : DriverStep(d)
  \/ \E c \in Clients : ClientStep(c)
  \/ \E t \in Timers : TimerStep(t)

(* A call ends at its timeout at the latest and a batch runs out of jobs;    *)
(* nothing else is owed.                                                     *)
Fairness ==
  /\ \A d \in Drivers : WF_vars(CallGoesOn(d))
  /\ \A c \in Clients : WF_vars(BatchGoesOn(c))

Spec == Init /\ [][Next]_vars /\ Fairness
-----------------------------------------------------------------------------
(* A live token is in the store or on a way that leads there: a run that    *)
(* will flush it, or a timer whose write will not be refused.               *)
Reachable ==
  \/ row.token \in live
  \/ \E c \in Clients : phase[c] \in Running /\ Pending(c) \cap live # {}
  \/ \E t \in Timers : /\ timer[t].at = "turned" /\ timer[t].token \in live
                       /\ row.version = timer[t].seen

(* The seat needs a browser only after a misfortune: an answer of the       *)
(* provider lost, a run cut with a pair unwritten, a write refused, or two   *)
(* drivers that queued their pairs in the wrong order.  No other order of    *)
(* the steps of runs, timers and logins loses it.                            *)
SeatSurvives == spoilt = {} => Reachable

(* A pair on its way to the store is in one place only: no other client,     *)
(* timer or row knows it, so nobody else can trade it (luna.rs refresh,      *)
(* take_rotations, flush_luna_rotations).                                    *)
PendingIsPrivate ==
  \A c \in Clients : \A g \in Pending(c) :
    /\ row.token # g
    /\ \A t \in Timers : timer[t].token # g
    /\ \A b \in Clients \ {c} : memory[b] # g /\ g \notin Pending(b)
    /\ \A d \in Drivers \ DriversOf(c) : held[d] # g

(* A run that ends without an error has written back every pair its drivers  *)
(* traded for: the flush comes after the join (backfill_summaries).          *)
EndOwesNothing == \A c \in Clients : phase[c] = "ended" => Pending(c) = {}

(* rotate_credential never writes over a live token: what it replaces is the *)
(* token this timer traded, whatever a login or a flush wrote meanwhile.     *)
RotationReplacesDead ==
  [][\A t \in Timers : TimerRotates(t) => row.token \notin live]_vars

(* What a run has queued is written within the batch, unless the run is cut. *)
QueuedIsWritten ==
  \A c \in Clients :
    (phase[c] = "on" /\ queue[c] # <<>>)
      ~> (phase[c] = "cut" \/ Queued(c) = {})
=============================================================================

---------------------------- MODULE QuotaLedger ----------------------------
(***************************************************************************)
(* The quota ledger of a Mistral key pool (lj-llm ratelimit.rs): one bucket *)
(* per key, a rolling window of tokens and a hard-edged counter of requests *)
(* learnt from the replies, and reservations that leave the bucket when the *)
(* call is settled, refused or dropped.                                     *)
(*                                                                          *)
(* Time is in ticks.  A caller reads the wall clock before it takes the     *)
(* bucket's mutex, so the instant it books under may be an older one.       *)
(***************************************************************************)
EXTENDS Integers, FiniteSets, FiniteSetsExt, Functions

CONSTANTS
  Keys,            \* the keys of the pool
  Callers,         \* the tasks that call through it
  TicksPerSecond,
  WindowSecs,      \* WINDOW_SECS, and the seconds of a wall minute
  SeedTokens,      \* SEED_TOK_PER_MIN
  Limits,          \* the token ceilings the service announces
  Costs,           \* what a call is estimated at: nothing, for an OCR
  Bills,           \* what the service bills for it
  ReqLimit,        \* the request ceiling of the service
  Announces,       \* whether the route announces a request counter
  MaxClock,        \* bound: the horizon
  MaxAsks,         \* bound: admissions asked for
  MaxSkew          \* bound: ticks between reading the clock and the mutex

ASSUME QuotaAssumption ==
  /\ IsFiniteSet(Keys) /\ IsFiniteSet(Callers) /\ Keys # {}
  /\ TicksPerSecond \in Nat \ {0} /\ WindowSecs \in Nat \ {0}
  /\ SeedTokens \in Nat \ {0}
  /\ Limits \subseteq Nat /\ Costs \subseteq Nat /\ Bills \subseteq Nat
  /\ ReqLimit \in Nat \ {0}
  /\ Announces \in BOOLEAN
  /\ MaxClock \in Nat /\ TicksPerSecond * WindowSecs <= MaxClock
  /\ MaxAsks \in Nat
  /\ MaxSkew \in 0 .. TicksPerSecond

VARIABLES
  clock,     \* the wall clock
  bucket,    \* the bucket of each key
  service,   \* the requests the service still grants a key, and the minute
  call,      \* where each caller stands
  booked,    \* the tokens each bucket was told of, by the instant of the booking
  asks,      \* the admissions asked for so far
  upset      \* the keys whose calls in flight a new ceiling has upset

vars == <<clock, bucket, service, call, booked, asks, upset>>

Window    == TicksPerSecond * WindowSecs
SecOf(t)    == t \div TicksPerSecond
MinuteOf(t) == t \div Window
Slots     == 0 .. WindowSecs
SlotOf(s) == s % (WindowSecs + 1)
Ticks     == 0 .. MaxClock

Least(m, n) == IF m < n THEN m ELSE n
Above0(n)   == IF n < 0 THEN 0 ELSE n

NoCounter == [limit |-> 0, left |-> -1]
NoReply   == [kind |-> "none", req |-> NoCounter, tok |-> NoCounter, bill |-> 0]
Reply(kind, req, tok, bill) == [kind |-> kind, req |-> req, tok |-> tok, bill |-> bill]

(* The phases that hold a reservation.                                     *)
Reserved == {"sent", "answered", "stamped"}
LiveOn(k) == {c \in Callers : call[c].pc \in Reserved /\ call[c].key = k}

TypeOK ==
  LET Counter == [limit : Nat, left : Int] IN
  /\ clock \in Ticks
  /\ bucket \in [Keys -> [limit : Nat, inflight : Nat, inflightReq : Nat,
                          slots : [Slots -> [until : Nat, tokens : Nat]],
                          req : Counter, minute : Nat, informed : BOOLEAN]]
  /\ service \in [Keys -> [left : 0 .. ReqLimit, minute : Nat]]
  /\ call \in [Callers -> [pc : {"idle", "asking"} \cup Reserved, now : Ticks,
                           todo : SUBSET Keys, key : Keys, cost : Nat, kept : Nat,
                           reply : [kind : {"none", "served", "refused", "failed"},
                                    req : Counter, tok : Counter, bill : Nat]]]
  /\ booked \in [Keys -> [Ticks -> Nat]]
  /\ asks \in 0 .. MaxAsks
  /\ upset \subseteq Keys

AtRest == [pc |-> "idle", now |-> 0, todo |-> {}, key |-> CHOOSE k \in Keys : TRUE,
           cost |-> 0, kept |-> 0, reply |-> NoReply]

Seed == [limit |-> SeedTokens, inflight |-> 0, inflightReq |-> 0,
         slots |-> [i \in Slots |-> [until |-> 0, tokens |-> 0]],
         req |-> NoCounter, minute |-> 0, informed |-> FALSE]

(* The wall clock is past its first window: no walk over the seconds starts   *)
(* at the epoch.                                                            *)
Init ==
  /\ clock = Window
  /\ bucket = [k \in Keys |-> Seed]
  /\ service = [k \in Keys |-> [left |-> ReqLimit, minute |-> 0]]
  /\ call = [c \in Callers |-> AtRest]
  /\ booked = [k \in Keys |-> [t \in Ticks |-> 0]]
  /\ asks = 0
  /\ upset = {}

-----------------------------------------------------------------------------
(* The token window of a bucket.                                           *)

(* Of the slots, those not yet released.  Mutant: released with the wall     *)
(* minute.                                                                  *)
HeldAtMinute(slot, t) == slot.until > t /\ MinuteOf(slot.until) = MinuteOf(t) + 1
Held(slot, t) == slot.until > t

Spent(b, t) ==
  SumFunctionOnSet([i \in Slots |-> b.slots[i].tokens], {i \in Slots : Held(b.slots[i], t)})

(* Mutant: the calls in flight are not deducted.                            *)
AvailableUnreserved(b, t) == b.limit - Spent(b, t)
Available(b, t) == b.limit - Spent(b, t) - b.inflight

(* A slot keeps its tokens while it is held, and is released a window after   *)
(* the booking that came last.                                              *)
Record(b, n, t) ==
  LET i == SlotOf(SecOf(t)) IN
  [b EXCEPT !.slots[i] =
     [until  |-> t + Window,
      tokens |-> n + (IF Held(@, t) THEN @.tokens ELSE 0)]]

(* The seconds whose slots give back a deficit, oldest first, up to the one  *)
(* that covers it.                                                          *)
Seconds(t) == Above0(SecOf(t) - WindowSecs) .. SecOf(t)
GivenBack(b, s, t) ==
  SumFunctionOnSet([r \in Seconds(t) |-> b.slots[SlotOf(r)].tokens],
                   {r \in Seconds(t) : r <= s /\ Held(b.slots[SlotOf(r)], t)})
Covering(b, deficit, t) == {s \in Seconds(t) : GivenBack(b, s, t) >= deficit}

(* The wait is the deadline of that slot.  The ring has the slots of a window  *)
(* and a second, so that of the oldest second is that of the next one too: a  *)
(* caller with an older reading of the clock finds there what another has     *)
(* booked since, and takes it for the oldest.  Mutant: the top of the minute. *)
WaitForMinute(b, deficit, t) == Window - (t % Window)
WaitFor(b, deficit, t) == b.slots[SlotOf(Min(Covering(b, deficit, t)))].until - t

(* What the service says is spent and the window does not know of was spent  *)
(* by another consumer of the key: it goes in now.                          *)
Unaccounted(b, left, t) == Above0(b.limit - left - Spent(b, t))

-----------------------------------------------------------------------------
(* A bucket.                                                               *)

(* The request counter is full again at the top of the minute.              *)
Roll(b, t) ==
  IF b.req # NoCounter /\ MinuteOf(t) > b.minute
  THEN [b EXCEPT !.req.left = b.req.limit, !.minute = MinuteOf(t)]
  ELSE b

(* One call in flight until a reply has spoken of the key.  Mutant: tokens    *)
(* in flight, which an OCR call does not hold.                              *)
ProbingByTokens(b) == ~b.informed /\ b.inflight > 0
Probing(b) == ~b.informed /\ b.inflightReq > 0

(* A call dearer than the whole bucket is left to the service to refuse.    *)
Capped(b, cost) == Least(cost, b.limit)

Payable(b, cost, t) == Available(b, t) >= Capped(b, cost)

(* The announced remainder nets out what was served, not what is in flight. *)
RequestFree(b) == b.req = NoCounter \/ b.req.left > b.inflightReq

Admits(b, cost, t) == ~Probing(b) /\ Payable(b, cost, t) /\ RequestFree(b)

Reserve(b, cost) == [b EXCEPT !.inflightReq = @ + 1, !.inflight = @ + Capped(b, cost)]

(* What comes back is the estimate, capped or not.  Mutant: the tokens stay   *)
(* behind.                                                                  *)
ReleaseRequest(b, cost) == [b EXCEPT !.inflightReq = Above0(@ - 1)]
Release(b, cost) ==
  [b EXCEPT !.inflightReq = Above0(@ - 1), !.inflight = Above0(@ - cost)]

(* A zero request limit would be sealed by the next roll: it is taken as 1.  *)
(* Mutant: as announced.                                                    *)
CeilingAsSaid(req) == req.limit
Ceiling(req) == IF req.limit = 0 THEN 1 ELSE req.limit

Observe(b, reply, t) ==
  LET r == Roll(b, t) IN
  [r EXCEPT
     !.req = IF reply.req = NoCounter THEN @
             ELSE [limit |-> Ceiling(reply.req), left |-> reply.req.left],
     !.minute = IF reply.req = NoCounter THEN @ ELSE MinuteOf(t),
     !.limit = IF reply.tok = NoCounter THEN @ ELSE reply.tok.limit,
     !.informed = @ \/ reply.tok # NoCounter]

-----------------------------------------------------------------------------
(* A caller.                                                               *)

(* It reads the clock and orders the keys it may use; one that was told to   *)
(* wait asks again the same way.                                            *)
Ask(c) ==
  /\ call[c].pc = "idle" /\ asks < MaxAsks
  /\ asks' = asks + 1
  /\ \E order \in (SUBSET Keys) \ {{}}, cost \in Costs :
       call' = [call EXCEPT ![c] = [AtRest EXCEPT !.pc = "asking", !.now = clock,
                                                  !.todo = order, !.cost = cost]]
  /\ UNCHANGED <<clock, bucket, service, booked, upset>>

(* Under the mutex of one key of the order: the bucket can pay.             *)
Grant(c) ==
  /\ call[c].pc = "asking"
  /\ \E k \in call[c].todo :
       LET b == Roll(bucket[k], call[c].now) IN
       /\ Admits(b, call[c].cost, call[c].now)
       /\ bucket' = [bucket EXCEPT ![k] = Reserve(b, call[c].cost)]
       /\ call' = [call EXCEPT ![c] = [@ EXCEPT !.pc = "sent", !.key = k, !.todo = {},
                                                !.kept = Capped(b, call[c].cost)]]
  /\ UNCHANGED <<clock, service, booked, asks, upset>>

(* It cannot: the next key, and once none is left the caller is told to wait.*)
Deny(c) ==
  /\ call[c].pc = "asking"
  /\ \E k \in call[c].todo :
       LET b == Roll(bucket[k], call[c].now)
           left == call[c].todo \ {k} IN
       /\ ~Admits(b, call[c].cost, call[c].now)
       /\ bucket' = [bucket EXCEPT ![k] = b]
       /\ call' = [call EXCEPT ![c] = IF left = {} THEN AtRest ELSE [@ EXCEPT !.todo = left]]
  /\ UNCHANGED <<clock, service, booked, asks, upset>>

(* The reply, or the failure, is in: the caller reads the clock again.      *)
Stamp(c) ==
  /\ call[c].pc = "answered"
  /\ call' = [call EXCEPT ![c] = [@ EXCEPT !.pc = "stamped", !.now = clock]]
  /\ UNCHANGED <<clock, bucket, service, booked, asks, upset>>

Book(k, n, t) == booked' = [booked EXCEPT ![k][t] = @ + n]

Ends(c, k, b) ==
  /\ bucket' = [bucket EXCEPT ![k] = b]
  /\ call' = [call EXCEPT ![c] = AtRest]

(* A call capped at one ceiling gives back its whole estimate, which is more  *)
(* than it holds: that takes from the others once the ceiling has risen     *)
(* above the cap, or is zero.                                               *)
Upsets(c, k, tok) ==
  upset' = IF /\ tok # NoCounter
              /\ \/ tok.limit = 0
                 \/ \E d \in LiveOn(k) \ {c} :
                      call[d].kept < call[d].cost /\ call[d].kept < tok.limit
           THEN upset \cup {k} ELSE upset

(* A served call is booked at what it was billed.  A failure that is no 429  *)
(* is settled too, at the estimate.                                         *)
Settle(c) ==
  LET m == call[c]  k == m.key  billed == IF m.reply.kind = "served" THEN m.reply.bill ELSE m.cost IN
  /\ m.pc = "stamped" /\ m.reply.kind \in {"served", "failed"}
  /\ Ends(c, k, Record(Observe(Release(bucket[k], m.cost), m.reply, m.now), billed, m.now))
  /\ Book(k, billed, m.now)
  /\ Upsets(c, k, m.reply.tok)
  /\ UNCHANGED <<clock, service, asks>>

(* A refusal bills nothing, and what it says remains holds.                 *)
Refused(c) ==
  LET m == call[c]  k == m.key
      b == Observe(Release(bucket[k], m.cost), m.reply, m.now)
      n == Unaccounted(b, m.reply.tok.left, m.now)
      reconciled == m.reply.tok # NoCounter /\ n > 0 IN
  /\ m.pc = "stamped" /\ m.reply.kind = "refused"
  /\ Ends(c, k, IF reconciled THEN Record(b, n, m.now) ELSE b)
  /\ Book(k, IF reconciled THEN n ELSE 0, m.now)
  /\ Upsets(c, k, m.reply.tok)
  /\ UNCHANGED <<clock, service, asks>>

(* The caller's deadline cuts the call, or it is not sent.                  *)
Drop(c) ==
  /\ call[c].pc \in {"sent", "answered"}
  /\ Ends(c, call[c].key, Release(bucket[call[c].key], call[c].cost))
  /\ UNCHANGED <<clock, service, booked, asks, upset>>

-----------------------------------------------------------------------------
(* The service, and the wall clock.                                        *)

Granted(k) == IF MinuteOf(clock) > service[k].minute THEN ReqLimit ELSE service[k].left

Answers(c, left, reply) ==
  /\ call[c].pc = "sent"
  /\ service' = [service EXCEPT ![call[c].key] = [left |-> left, minute |-> MinuteOf(clock)]]
  /\ call' = [call EXCEPT ![c] = [@ EXCEPT !.pc = "answered", !.reply = reply]]
  /\ UNCHANGED <<clock, bucket, booked, asks, upset>>

Announced(limit, left) == IF Announces THEN [limit |-> limit, left |-> left] ELSE NoCounter

(* A call is served if the minute still grants the key a request; a route    *)
(* that announces no counter has none.  What a served reply says remains is  *)
(* not read.                                                                *)
Serves(c) ==
  LET left == Granted(call[c].key) - (IF Announces THEN 1 ELSE 0) IN
  /\ left >= 0
  /\ \E limit \in Limits \ {0}, bill \in Bills :
       Answers(c, left, Reply("served", Announced(ReqLimit, left),
                              [limit |-> limit, left |-> 0], bill))

(* A refusal names the exhausted resource alone: the requests, the tokens,   *)
(* or a whole tier closed at zero.                                          *)
OutOfRequests(c) ==
  /\ Announces /\ Granted(call[c].key) = 0
  /\ Answers(c, 0, Reply("refused", Announced(ReqLimit, 0), NoCounter, 0))

OutOfTokens(c) ==
  \E limit \in Limits :
    Answers(c, Granted(call[c].key), Reply("refused", NoCounter, [limit |-> limit, left |-> 0], 0))

TierClosed(c) ==
  /\ Announces
  /\ Answers(c, Granted(call[c].key), Reply("refused", Announced(0, 0), NoCounter, 0))

Fails(c) ==
  Answers(c, Granted(call[c].key), Reply("failed", NoCounter, NoCounter, 0))

Tick ==
  /\ clock < MaxClock
  /\ \A c \in Callers : call[c].pc \in {"asking", "stamped"} => clock - call[c].now < MaxSkew
  /\ clock' = clock + 1
  /\ UNCHANGED <<bucket, service, call, booked, asks, upset>>

Next ==
  \/ \E c \in Callers :
       \/ Ask(c) \/ Grant(c) \/ Deny(c) \/ Stamp(c) \/ Settle(c) \/ Refused(c) \/ Drop(c)
       \/ Serves(c) \/ OutOfRequests(c) \/ OutOfTokens(c) \/ TierClosed(c) \/ Fails(c)
  \/ Tick

Spec == Init /\ [][Next]_vars

-----------------------------------------------------------------------------
(* Properties.                                                             *)

Kept(k) == SumFunctionOnSet([c \in Callers |-> call[c].kept], LiveOn(k))

Since(k, t) == SumFunctionOnSet(booked[k], {u \in Ticks : u > t})

(* What a bucket holds back is what its calls in flight reserved, so a call   *)
(* cut by its deadline leaks nothing.  Once a new ceiling has upset them, a   *)
(* call gives back what it never took: only the upper bound is left         *)
(* (Bucket::try_reserve and release, ratelimit.rs:448-479).                 *)
InflightExact ==
  \A k \in Keys :
    /\ bucket[k].inflightReq = Cardinality(LiveOn(k))
    /\ bucket[k].inflight <= Kept(k)
    /\ k \notin upset => bucket[k].inflight = Kept(k)

(* A booking stays in the window for 60 s, a second more or less: the slot is *)
(* as wide as a second, and a caller that read the clock first may book last *)
(* (TokenWindow, ratelimit.rs:141-156).                                     *)
HeldForTheWindow ==
  \A k \in Keys :
    /\ Spent(bucket[k], clock) >= Since(k, clock - Window + TicksPerSecond)
    /\ Spent(bucket[k], clock) <= Since(k, clock - Window - TicksPerSecond)

(* Until a reply has spoken of a key's tokens, at most one call is out on it: *)
(* a request refusal, a failure and a dropped call leave the next one to be   *)
(* the probe (Bucket::try_reserve, ratelimit.rs:443-447).                   *)
OneProbe ==
  \A k \in Keys : ~bucket[k].informed => Cardinality(LiveOn(k)) <= 1

(* No reply seals a key: with nothing in flight on it, a window and a second  *)
(* later it admits any call (Bucket::observe, ratelimit.rs:485-493).        *)
NeverSealed ==
  \A k \in Keys :
    LiveOn(k) = {} =>
      LET t == clock + Window + TicksPerSecond IN
      \A cost \in Costs : Admits(Roll(bucket[k], t), cost, t)

(* Another caller has booked the second after the one t is in.              *)
Overtaken(b, t) == b.slots[SlotOf(SecOf(t) + 1)].until > t + Window

(* The wait a caller is told for tokens, from its own reading of the clock,   *)
(* ends when they are there, and not before; without one the tokens are with  *)
(* a call in flight.  If it was overtaken the wait may be too short or too     *)
(* long, and no longer than a window and the age of its reading             *)
(* (TokenWindow::wait_for, ratelimit.rs:164-182, 453-458).                  *)
WaitIsExact ==
  \A c \in Callers : call[c].pc = "asking" => \A k \in call[c].todo :
    LET b == bucket[k]
        t == call[c].now
        cost == call[c].cost
        deficit == Capped(b, cost) - Available(b, t)
        w == WaitFor(b, deficit, t) IN
    deficit > 0 =>
      IF Covering(b, deficit, t) = {} THEN LiveOn(k) # {}
      ELSE IF Overtaken(b, t) THEN w \in 1 .. Window + (clock - t)
      ELSE /\ Payable(b, cost, t + w)
           /\ \A u \in t .. t + w - 1 : ~Payable(b, cost, u)

(* A call is admitted only if it fits under the ceiling with what the last    *)
(* minute booked and what the other calls in flight reserved (Ledger, "only  *)
(* admits a request it can pay for", ratelimit.rs:1-2).                     *)
Admitted(c, k) == call[c].pc = "asking" /\ call'[c].pc = "sent" /\ call'[c].key = k

FitsTheCeiling ==
  [][\A c \in Callers, k \in Keys \ upset :
       Admitted(c, k) =>
         Since(k, clock - Window + TicksPerSecond) + Kept(k)' <= bucket[k].limit]_vars
=============================================================================

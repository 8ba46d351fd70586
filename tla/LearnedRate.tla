----------------------------- MODULE LearnedRate -----------------------------
(***************************************************************************)
(* The pace of a key whose service publishes no counter (lj-llm ratelimit.rs, *)
(* LearnedRate): a token bucket whose target, the calls in flight it aims to   *)
(* hold, is learnt from the outcomes.  A served call raises it by a step, a     *)
(* refusal cuts it, waits and leaves a ceiling behind.                       *)
(*                                                                         *)
(* Time is in ticks.  A target is counted in steps of growth, Whole of them    *)
(* to a call in flight.  A latency is in ticks, of which Base is a multiple;   *)
(* the bucket counts in shares of a call, Whole * Base of them to a call, so    *)
(* that a tick of refill is a whole number of shares.  The token window and    *)
(* the reservations of the same bucket are those of QuotaLedger.              *)
(***************************************************************************)
EXTENDS Integers, FiniteSets, FiniteSetsExt

CONSTANTS
  Callers,     \* the tasks that call through the key
  Whole,       \* steps of a call in flight: 1 / GROW_STEP
  TargetMin,   \* TARGET_MIN
  SeedTarget,  \* the target Little gives from the seed rate and latency
  Latencies,   \* the round trips, from LATENCY_MIN
  Base,        \* a multiple of each
  Minute,      \* ticks of a wall minute
  Margin,      \* BOUNDARY_MARGIN
  ProbePeriod, \* PROBE_PERIOD
  Delays,      \* the retryDelay a refusal may state
  Ceilings,    \* the rate it may state, in steps a tick
  MaxSkew,     \* bound: ticks between reading the clock and the mutex
  MaxClock,    \* bound: the horizon
  MaxCalls     \* bound: admissions

None == -1

ASSUME PaceAssumption ==
  /\ IsFiniteSet(Callers)
  /\ Whole \in Nat \ {0} /\ TargetMin \in Nat \ {0} /\ SeedTarget \in Nat \ {0}
  /\ TargetMin <= SeedTarget
  /\ Latencies \subseteq Nat \ {0} /\ IsFiniteSet(Latencies) /\ Latencies # {}
  /\ Base \in Nat \ {0} /\ \A l \in Latencies : Base % l = 0
  /\ Minute \in Nat \ {0} /\ Margin \in Nat /\ ProbePeriod \in Nat
  /\ Delays \subseteq Nat /\ Ceilings \subseteq Nat \ {0}
  /\ MaxSkew \in Nat /\ MaxClock \in Nat /\ MaxCalls \in Nat

VARIABLES
  clock,  \* the wall clock
  pace,   \* the bucket
  out,    \* the calls in flight, by the instant they were admitted, None otherwise
  calls,  \* admissions so far
  told    \* what the outcomes have said: the latest instant to wait for since the
          \* hold was last set anew, the last cut,
          \* the last time the ceiling was met

vars == <<clock, pace, out, calls, told>>

Larger(m, n)  == IF m < n THEN n ELSE m
Smaller(m, n) == IF m < n THEN m ELSE n
MinuteOf(t) == t \div Minute

Call     == Whole * Base
Burst(p) == Larger(p.target, Whole) * Base
Rate(p)  == p.target * (Base \div p.latency)

TypeOK ==
  /\ clock \in 0 .. MaxClock
  /\ pace \in [tokens : Nat, target : Nat, latency : Latencies, ceiling : Nat \cup {None},
               probe : Nat, hold : Nat, cut : Nat, starved : BOOLEAN, last : 0 .. clock]
  /\ pace.tokens <= Burst(pace) /\ pace.target >= TargetMin
  /\ out \in [Callers -> 0 .. clock \cup {None}]
  /\ calls \in 0 .. MaxCalls
  /\ told \in [wait : Nat, cut : Int, met : Int]

Init ==
  /\ clock = 0
  /\ \E l \in Latencies :
       pace = [tokens |-> Larger(SeedTarget, Whole) * Base, target |-> SeedTarget, latency |-> l,
               ceiling |-> None, probe |-> 0, hold |-> 0, cut |-> 0, starved |-> FALSE, last |-> 0]
  /\ out = [c \in Callers |-> None]
  /\ calls = 0
  /\ told = [wait |-> 0, cut |-> 0 - Minute, met |-> 0 - ProbePeriod]

(* A caller reads the clock before it takes the mutex.                       *)
Readings == Larger(0, clock - MaxSkew) .. clock

Tick ==
  /\ clock < MaxClock
  /\ clock' = clock + 1
  /\ UNCHANGED <<pace, out, calls, told>>

-----------------------------------------------------------------------------
(* Admission.                                                              *)

(* What the bucket has earned since it was last looked at, up to its burst.    *)
Earned(p, now) == Smaller(p.tokens + (now - p.last) * Rate(p), Burst(p))

Refill(p, now) ==
  IF now > p.last THEN [p EXCEPT !.tokens = Earned(p, now), !.last = now] ELSE p

Held(p, now) == now < p.hold
Admits(p, now) == ~Held(p, now) /\ Refill(p, now).tokens >= Call

Admit(c) ==
  /\ out[c] = None /\ calls < MaxCalls
  /\ \E now \in Readings :
       /\ Admits(pace, now)
       /\ pace' = [Refill(pace, now) EXCEPT !.tokens = @ - Call]
       /\ out' = [out EXCEPT ![c] = now]
  /\ calls' = calls + 1
  /\ UNCHANGED <<clock, told>>

(* Refused for want of tokens, not by a hold, the bucket notes that its target  *)
(* is what binds.                                                           *)
Deny(c) ==
  /\ out[c] = None
  /\ \E now \in Readings :
       /\ ~Admits(pace, now)
       /\ pace' = [Refill(pace, now) EXCEPT !.starved = @ \/ ~Held(pace, now)]
  /\ UNCHANGED <<clock, out, calls, told>>

-----------------------------------------------------------------------------
(* Outcomes.                                                               *)

(* The round trip moves towards the sample; the weights of the average are    *)
(* left open.                                                               *)
Between(old, sample) ==
  IF sample <= 0 THEN {old}
  ELSE {l \in Latencies : Smaller(old, sample) <= l /\ l <= Larger(old, sample)}

Grown(p) == p.target + 1
Meets(p) == p.ceiling # None /\ Grown(p) >= p.ceiling

(* A refused target is crossed when a probe is due, by one step, and the next   *)
(* probe is put off.  Mutant: it is not.                                    *)
ProbedFreely(p, now) == p.probe
Probed(p, now) == now + ProbePeriod

Serve(c) ==
  /\ out[c] # None
  /\ \E now \in Readings, l \in Latencies :
       /\ l \in Between(pace.latency, now - out[c])
       /\ LET p == [pace EXCEPT !.latency = l, !.starved = FALSE] IN
          IF ~pace.starved \/ (Meets(p) /\ now < p.probe)
          THEN pace' = p /\ UNCHANGED told
          ELSE IF Meets(p)
          THEN /\ pace' = [p EXCEPT !.target = Grown(p), !.probe = Probed(p, now)]
               /\ told' = [told EXCEPT !.met = now]
          ELSE pace' = [p EXCEPT !.target = Grown(p)] /\ UNCHANGED told
  /\ out' = [out EXCEPT ![c] = None]
  /\ UNCHANGED <<clock, calls>>

(* A delay the service states never shortens the one it stated before.        *)
(* Mutant: the last one stated holds.                                       *)
HeldLast(p, now, delay) == IF delay = None THEN p.hold ELSE now + delay
HeldUntil(p, now, delay) == IF delay = None THEN p.hold ELSE Larger(p.hold, now + delay)

(* A refusal that names its ceiling gives the target outright.                *)
Named(now, delay, rate) ==
  LET p == [pace EXCEPT !.hold = HeldUntil(pace, now, delay)]
      target == Larger(rate * p.latency, TargetMin) IN
  /\ pace' = [p EXCEPT !.target = target, !.ceiling = target, !.probe = now + ProbePeriod,
                       !.tokens = Smaller(@, Larger(target, Whole) * Base)]
  /\ told' = [wait |-> Larger(told.wait, IF delay = None THEN 0 ELSE now + delay),
              cut |-> told.cut, met |-> now]

(* One cut per episode.  Mutant: the episode is read from the hold, which a      *)
(* refusal may state as nothing.                                             *)
PaidByHold(p, now) == now < p.hold
Paid(p, now) == now < p.cut

CutOf(target) == Larger((target * 3) \div 4, TargetMin)
Boundary(now) == now + (Minute - (now % Minute)) + Margin

Bare(now, delay) ==
  LET p == [pace EXCEPT !.hold = HeldUntil(pace, now, delay)] IN
  IF Paid(p, now)
  THEN /\ pace' = p
       /\ told' = [told EXCEPT !.wait = Larger(@, IF delay = None THEN 0 ELSE now + delay)]
  ELSE /\ pace' = [p EXCEPT !.ceiling = p.target, !.probe = now + ProbePeriod,
                            !.target = CutOf(p.target), !.tokens = 0, !.last = now,
                            !.cut = Boundary(now),
                            !.hold = IF delay = None THEN Boundary(now) ELSE @]
       /\ told' = [wait |-> IF delay = None THEN Boundary(now) ELSE Larger(told.wait, now + delay),
                   cut |-> now, met |-> now]

Refuse(c) ==
  /\ out[c] # None
  /\ \E now \in Readings, delay \in Delays \cup {None} :
       \/ Bare(now, delay)
       \/ \E rate \in Ceilings : Named(now, delay, rate)
  /\ out' = [out EXCEPT ![c] = None]
  /\ UNCHANGED <<clock, calls>>

(* A failure, the day's refusal, a call dropped by its caller.               *)
Drop(c) ==
  /\ out[c] # None
  /\ out' = [out EXCEPT ![c] = None]
  /\ UNCHANGED <<clock, pace, calls, told>>

Next ==
  \/ Tick
  \/ \E c \in Callers : Admit(c) \/ Deny(c) \/ Serve(c) \/ Refuse(c) \/ Drop(c)

Spec == Init /\ [][Next]_vars

-----------------------------------------------------------------------------
(* Properties.                                                             *)

(* A wave refused call by call cuts the target once a wall minute at most,     *)
(* whatever delays the refusals state and in whatever order they come          *)
(* (LearnedRate::refused, ratelimit.rs:361-365).                            *)
OneCutPerMinute == [][told'.cut # told.cut => MinuteOf(told'.cut) > MinuteOf(told.cut)]_vars

(* A target that was refused is reached again by growth once a probe period at  *)
(* most, and by one step (LearnedRate::served, ratelimit.rs:319-342).         *)
CeilingIsProbed ==
  [][pace.starved /\ ~pace'.starved /\ pace'.target > pace.target
       /\ pace.ceiling # None /\ pace'.target >= pace.ceiling
       => pace'.target = pace.target + 1 /\ told'.met - told.met >= ProbePeriod]_vars

(* No call leaves before the latest instant a refusal asked to wait for,        *)
(* whatever the order they settle in.  One kind of refusal is excepted: one    *)
(* that states nothing, past the episode that is paid, sets the hold anew to   *)
(* the end of its wall minute, be the stated instant later; it does so once a  *)
(* wall minute (LearnedRate::try_take, ratelimit.rs:298-309, and refused,      *)
(* 347-349, 372-374).                                                       *)
StatedWaitHolds ==
  [][/\ \A c \in Callers : out[c] = None /\ out'[c] # None => out'[c] >= told.wait
     /\ pace'.hold < told.wait =>
          /\ pace'.hold = Boundary(told'.cut)
          /\ MinuteOf(told'.cut) > MinuteOf(told.cut)]_vars
=============================================================================

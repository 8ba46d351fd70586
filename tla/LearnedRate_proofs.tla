-------------------------- MODULE LearnedRate_proofs -------------------------
(* Proofs about LearnedRate, for any callers, round trips, minute, probe   *)
(* period, delays and rates.                                               *)
EXTENDS LearnedRate, TLAPS

(* The hold of the bucket is never short of what the service asked for.    *)
WaitIsHeld == told.wait <= pace.hold

(* The next probe is a period after the ceiling was last met.              *)
MetOnce == pace.probe = told.met + ProbePeriod

(* The episode that was paid ends with the wall minute of its cut, or no   *)
(* cut was made yet.                                                       *)
CutIsPaid ==
  \/ told.cut = 0 - Minute /\ pace.cut = 0
  \/ told.cut \in Nat /\ pace.cut = Boundary(told.cut)

IInv ==
  /\ TypeOK
  /\ WaitIsHeld /\ MetOnce /\ CutIsPaid

Pace == [tokens : Nat, target : Nat, latency : Latencies, ceiling : Nat \cup {None},
         probe : Nat, hold : Nat, cut : Nat, starved : BOOLEAN, last : Nat]

(* What TypeOK says of the bucket p at the instant t.                      *)
PaceOK(p, t) ==
  /\ p \in Pace /\ p.last <= t
  /\ p.tokens <= Burst(p) /\ p.target >= TargetMin
-----------------------------------------------------------------------------
(* Arithmetic: the boundary of a wall minute is past it, and a time past   *)
(* the boundary is of a later minute.                                      *)
LEMMA BoundaryIsLater ==
  ASSUME NEW t \in Nat
  PROVE  /\ Boundary(t) \in Nat
         /\ \A u \in Nat : u >= Boundary(t) => MinuteOf(u) > MinuteOf(t)
<1>1. Minute \in Nat \ {0} /\ Margin \in Nat
  BY PaceAssumption
<1>2. Minute - (t % Minute) \in Nat
  BY <1>1, SMTT(30)
<1>3. ASSUME NEW u \in Nat, u >= t + (Minute - (t % Minute))
      PROVE  u \div Minute > t \div Minute
  BY <1>1, <1>3, SMTT(30)
<1>4. ASSUME NEW u \in Nat, u >= Boundary(t)
      PROVE  u >= t + (Minute - (t % Minute))
  BY <1>1, <1>2, <1>4 DEF Boundary
<1> QED BY <1>1, <1>2, <1>3, <1>4 DEF Boundary, MinuteOf

(* Any time is of a later minute than the one before the first.            *)
LEMMA FirstMinute ==
  ASSUME NEW t \in Nat
  PROVE  MinuteOf(t) > MinuteOf(0 - Minute)
<1>1. Minute \in Nat \ {0} BY PaceAssumption
<1> QED BY <1>1, SMTT(30) DEF MinuteOf

LEMMA ReadingsAreTimes ==
  ASSUME TypeOK, NEW now \in Readings
  PROVE  now \in Nat /\ now <= clock /\ clock \in Nat
  BY PaceAssumption DEF TypeOK, Readings, Larger

(* A larger target has no smaller burst.                                   *)
LEMMA BurstGrows ==
  ASSUME NEW m \in Nat, NEW n \in Nat, m <= n
  PROVE  /\ Larger(m, Whole) * Base \in Nat
         /\ Larger(m, Whole) * Base <= Larger(n, Whole) * Base
<1>1. Base \in Nat /\ Larger(m, Whole) \in Nat /\ Larger(n, Whole) \in Nat
      /\ Larger(m, Whole) <= Larger(n, Whole)
  BY PaceAssumption DEF Larger
<1> HIDE DEF Larger
<1>2. \A a, b, c \in Nat : a <= b => a * c \in Nat /\ a * c <= b * c
  BY SMTT(30)
<1> QED BY <1>1, <1>2

(* A refill keeps everything but the tokens and their date.                *)
LEMMA RefillOK ==
  ASSUME NEW t \in Nat, NEW p, PaceOK(p, t), NEW now \in Nat, now <= t
  PROVE  /\ PaceOK(Refill(p, now), t)
         /\ Refill(p, now).target = p.target /\ Refill(p, now).ceiling = p.ceiling
         /\ Refill(p, now).probe = p.probe /\ Refill(p, now).hold = p.hold
         /\ Refill(p, now).cut = p.cut /\ Refill(p, now).starved = p.starved
<1>1. CASE ~(now > p.last)
  BY <1>1 DEF Refill
<1>2. CASE now > p.last
  <2>1. Burst(p) \in Nat /\ Rate(p) \in Nat
    <3>1. Burst(p) \in Nat
      BY BurstGrows DEF PaceOK, Pace, Burst
    <3>2. p.latency \in Nat \ {0} /\ Base \in Nat /\ p.target \in Nat
      BY PaceAssumption DEF PaceOK, Pace
    <3>3. Base \div p.latency \in Nat
      BY <3>2, SMTT(30)
    <3>4. \A a, b \in Nat : a * b \in Nat
      BY SMTT(30)
    <3> QED BY <3>1, <3>2, <3>3, <3>4 DEF Rate
  <2>2. Earned(p, now) \in Nat /\ Earned(p, now) <= Burst(p)
    <3>1. p.tokens \in Nat /\ now - p.last \in Nat
      BY <1>2 DEF PaceOK, Pace
    <3>2. \A a, b \in Nat : a * b \in Nat
      BY SMTT(30)
    <3>3. p.tokens + (now - p.last) * Rate(p) \in Nat
      BY <2>1, <3>1, <3>2
    <3> QED BY <2>1, <3>3 DEF Earned, Smaller
  <2>3. PICK q : q = [p EXCEPT !.tokens = Earned(p, now), !.last = now] OBVIOUS
  <2>4. q \in Pace /\ q.tokens = Earned(p, now) /\ q.last = now /\ q.target = p.target
        /\ q.ceiling = p.ceiling /\ q.probe = p.probe /\ q.hold = p.hold /\ q.cut = p.cut
        /\ q.starved = p.starved
    BY <2>2, <2>3 DEF PaceOK, Pace
  <2>5. q = Refill(p, now) BY <1>2, <2>3 DEF Refill
  <2> QED BY <2>2, <2>4, <2>5 DEF PaceOK, Burst
<1> QED BY <1>1, <1>2
-----------------------------------------------------------------------------
LEMMA InitIInv == Init => IInv
<1> SUFFICES ASSUME Init PROVE IInv OBVIOUS
<1>1. PICK l \in Latencies :
        pace = [tokens |-> Larger(SeedTarget, Whole) * Base, target |-> SeedTarget, latency |-> l,
                ceiling |-> None, probe |-> 0, hold |-> 0, cut |-> 0, starved |-> FALSE, last |-> 0]
  BY DEF Init
<1>2. Larger(SeedTarget, Whole) * Base \in Nat
  BY BurstGrows, PaceAssumption
<1>3. TypeOK
  BY <1>1, <1>2, PaceAssumption DEF Init, TypeOK, Burst
<1>4. WaitIsHeld /\ MetOnce /\ CutIsPaid
  BY <1>1, PaceAssumption DEF Init, WaitIsHeld, MetOnce, CutIsPaid
<1> QED BY <1>3, <1>4 DEF IInv

LEMMA IsPaceOK == ASSUME TypeOK PROVE PaceOK(pace, clock) /\ clock \in Nat
  BY PaceAssumption DEF TypeOK, PaceOK, Pace

LEMMA TickIInv ==
  ASSUME IInv, Tick
  PROVE  IInv'
<1> USE DEF IInv, Tick
<1>1. TypeOK'
  <2>1. clock' \in 0 .. MaxClock /\ clock \in 0 .. clock'
    BY PaceAssumption DEF TypeOK
  <2>2. out' \in [Callers -> 0 .. clock' \cup {None}]
    BY <2>1 DEF TypeOK
  <2>3. PaceOK(pace, clock)
    BY IsPaceOK
  <2> QED BY <2>1, <2>2, <2>3 DEF TypeOK, PaceOK, Pace, Burst
<1>2. WaitIsHeld' /\ MetOnce' /\ CutIsPaid'
  BY DEF WaitIsHeld, MetOnce, CutIsPaid, Boundary
<1> QED BY <1>1, <1>2

LEMMA AdmitIInv ==
  ASSUME IInv, NEW c \in Callers, Admit(c)
  PROVE  IInv'
<1> USE DEF IInv
<1>1. PICK now \in Readings :
        /\ Admits(pace, now)
        /\ pace' = [Refill(pace, now) EXCEPT !.tokens = @ - Call]
        /\ out' = [out EXCEPT ![c] = now]
  BY DEF Admit
<1>2. now \in Nat /\ now <= clock /\ clock \in Nat
  BY ReadingsAreTimes
<1>3. PICK q : q = Refill(pace, now) OBVIOUS
<1>4. /\ PaceOK(q, clock) /\ q.hold = pace.hold /\ q.probe = pace.probe /\ q.cut = pace.cut
  BY <1>2, <1>3, IsPaceOK, RefillOK
<1>5. Call \in Nat /\ q.tokens >= Call
  <2>1. \A a, b \in Nat : a * b \in Nat BY SMTT(30)
  <2> QED BY <1>1, <1>3, <2>1, PaceAssumption DEF Admits, Call
<1>6. /\ PaceOK(pace', clock) /\ pace'.hold = q.hold /\ pace'.probe = q.probe /\ pace'.cut = q.cut
  <2>1. q.tokens - Call \in Nat BY <1>4, <1>5 DEF PaceOK, Pace
  <2>2. Burst(q) \in Nat BY <1>4, BurstGrows DEF PaceOK, Pace, Burst
  <2> QED BY <1>1, <1>3, <1>4, <1>5, <2>1, <2>2 DEF PaceOK, Pace, Burst
<1>7. TypeOK'
  BY <1>1, <1>2, <1>6, PaceAssumption DEF TypeOK, Admit, PaceOK, Pace, Burst
<1>8. WaitIsHeld' /\ MetOnce' /\ CutIsPaid'
  BY <1>4, <1>6 DEF Admit, WaitIsHeld, MetOnce, CutIsPaid, Boundary
<1> QED BY <1>7, <1>8

LEMMA DenyIInv ==
  ASSUME IInv, NEW c \in Callers, Deny(c)
  PROVE  IInv'
<1> USE DEF IInv
<1>1. PICK now \in Readings :
        pace' = [Refill(pace, now) EXCEPT !.starved = @ \/ ~Held(pace, now)]
  BY DEF Deny
<1>2. now \in Nat /\ now <= clock /\ clock \in Nat
  BY ReadingsAreTimes
<1>3. PICK q : q = Refill(pace, now) OBVIOUS
<1>4. /\ PaceOK(q, clock) /\ q.hold = pace.hold /\ q.probe = pace.probe /\ q.cut = pace.cut
  BY <1>2, <1>3, IsPaceOK, RefillOK
<1>5. PICK s \in BOOLEAN : s = (q.starved \/ ~Held(pace, now)) OBVIOUS
<1>6. pace' = [q EXCEPT !.starved = s]
  BY <1>1, <1>3, <1>5
<1>7. /\ PaceOK(pace', clock) /\ pace'.hold = q.hold /\ pace'.probe = q.probe /\ pace'.cut = q.cut
  BY <1>4, <1>6 DEF PaceOK, Pace, Burst
<1>8. TypeOK'
  BY <1>2, <1>7, PaceAssumption DEF TypeOK, Deny, PaceOK, Pace, Burst
<1>9. WaitIsHeld' /\ MetOnce' /\ CutIsPaid'
  BY <1>4, <1>7 DEF Deny, WaitIsHeld, MetOnce, CutIsPaid, Boundary
<1> QED BY <1>8, <1>9

(* What an outcome may do to the bucket and to what was told, for the      *)
(* invariant to hold on.                                                   *)
LEMMA OutcomeIInv ==
  ASSUME IInv, NEW c \in Callers, out' = [out EXCEPT ![c] = None],
         UNCHANGED <<clock, calls>>, PaceOK(pace', clock),
         told' \in [wait : Nat, cut : Int, met : Int],
         (WaitIsHeld /\ MetOnce /\ CutIsPaid)'
  PROVE  IInv'
<1> QED BY PaceAssumption DEF IInv, TypeOK, PaceOK, Pace, Burst

LEMMA DropIInv ==
  ASSUME IInv, NEW c \in Callers, Drop(c)
  PROVE  IInv'
<1>1. (WaitIsHeld /\ MetOnce /\ CutIsPaid)'
  BY DEF IInv, Drop, WaitIsHeld, MetOnce, CutIsPaid, Boundary
<1>2. PaceOK(pace', clock) /\ told' \in [wait : Nat, cut : Int, met : Int]
  BY IsPaceOK DEF IInv, TypeOK, Drop
<1> QED BY <1>1, <1>2, OutcomeIInv DEF Drop

(* A served call moves the round trip, and the target by a step at most:   *)
(* at the ceiling, when a probe is due.                                    *)
LEMMA ServedStep ==
  ASSUME IInv, NEW c \in Callers, Serve(c)
  PROVE  /\ PaceOK(pace', clock) /\ told' \in [wait : Nat, cut : Int, met : Int]
         /\ pace'.hold = pace.hold /\ pace'.cut = pace.cut /\ pace'.ceiling = pace.ceiling
         /\ told'.wait = told.wait /\ told'.cut = told.cut
         /\ \/ pace'.probe = pace.probe /\ told' = told
               /\ (pace'.target = pace.target \/ (pace'.target = pace.target + 1 /\ ~Meets(pace)))
            \/ pace'.target = pace.target + 1 /\ told'.met \in Nat /\ told'.met >= pace.probe
               /\ pace'.probe = told'.met + ProbePeriod
<1> USE DEF IInv
<1>1. PICK now \in Readings, l \in Latencies :
       LET p == [pace EXCEPT !.latency = l, !.starved = FALSE] IN
          IF ~pace.starved \/ (Meets(p) /\ now < p.probe)
          THEN pace' = p /\ UNCHANGED told
          ELSE IF Meets(p)
          THEN /\ pace' = [p EXCEPT !.target = Grown(p), !.probe = Probed(p, now)]
               /\ told' = [told EXCEPT !.met = now]
          ELSE pace' = [p EXCEPT !.target = Grown(p)] /\ UNCHANGED told
  BY DEF Serve
<1>2. now \in Nat /\ now <= clock /\ clock \in Nat /\ PaceOK(pace, clock)
  BY ReadingsAreTimes, IsPaceOK
<1>3. PICK p : p = [pace EXCEPT !.latency = l, !.starved = FALSE] OBVIOUS
<1>4. /\ PaceOK(p, clock) /\ p.hold = pace.hold /\ p.cut = pace.cut /\ p.ceiling = pace.ceiling
      /\ p.probe = pace.probe /\ p.target = pace.target /\ p.tokens = pace.tokens
      /\ p.last = pace.last
  BY <1>2, <1>3 DEF PaceOK, Pace, Burst
<1>5. Meets(p) <=> Meets(pace)
  BY <1>4 DEF Meets, Grown
<1>6. \/ pace' = p /\ UNCHANGED told
      \/ /\ Meets(p) /\ ~(now < p.probe)
         /\ pace' = [p EXCEPT !.target = Grown(p), !.probe = Probed(p, now)]
         /\ told' = [told EXCEPT !.met = now]
      \/ ~Meets(p) /\ pace' = [p EXCEPT !.target = Grown(p)] /\ UNCHANGED told
  BY <1>1, <1>3
<1>7. CASE pace' = p /\ UNCHANGED told
  BY <1>4, <1>7 DEF TypeOK
<1>8. Larger(p.target, Whole) * Base \in Nat
      /\ Larger(p.target, Whole) * Base <= Larger(Grown(p), Whole) * Base
      /\ Larger(Grown(p), Whole) * Base \in Nat /\ Grown(p) \in Nat /\ Grown(p) = pace.target + 1
      /\ Grown(p) >= TargetMin
  BY <1>4, BurstGrows, PaceAssumption DEF PaceOK, Pace, Grown
<1>9. CASE /\ Meets(p) /\ ~(now < p.probe)
           /\ pace' = [p EXCEPT !.target = Grown(p), !.probe = Probed(p, now)]
           /\ told' = [told EXCEPT !.met = now]
  <2>1. told' \in [wait : Nat, cut : Int, met : Int] /\ told'.wait = told.wait
        /\ told'.cut = told.cut /\ told'.met = now
    BY <1>2, <1>9 DEF TypeOK
  <2>2. Probed(p, now) \in Nat /\ Probed(p, now) = now + ProbePeriod
    BY <1>2, PaceAssumption DEF Probed
  <2>3. pace' \in Pace /\ pace'.target = Grown(p) /\ pace'.probe = Probed(p, now)
        /\ pace'.tokens = p.tokens /\ pace'.last = p.last /\ pace'.hold = p.hold
        /\ pace'.cut = p.cut /\ pace'.ceiling = p.ceiling
    BY <1>4, <1>8, <1>9, <2>2 DEF PaceOK, Pace
  <2>4. PaceOK(pace', clock)
    BY <1>4, <1>8, <2>3 DEF PaceOK, Pace, Burst
  <2>5. now >= pace.probe
    BY <1>2, <1>4, <1>9 DEF PaceOK, Pace
  <2> QED BY <1>2, <1>4, <1>8, <2>1, <2>2, <2>3, <2>4, <2>5
<1>10. CASE ~Meets(p) /\ pace' = [p EXCEPT !.target = Grown(p)] /\ UNCHANGED told
  <2>1. pace' \in Pace /\ pace'.target = Grown(p) /\ pace'.probe = p.probe
        /\ pace'.tokens = p.tokens /\ pace'.last = p.last /\ pace'.hold = p.hold
        /\ pace'.cut = p.cut /\ pace'.ceiling = p.ceiling
    BY <1>4, <1>8, <1>10 DEF PaceOK, Pace
  <2>2. PaceOK(pace', clock)
    BY <1>4, <1>8, <2>1 DEF PaceOK, Pace, Burst
  <2> QED BY <1>4, <1>5, <1>8, <1>10, <2>1, <2>2 DEF TypeOK
<1> QED BY <1>6, <1>7, <1>9, <1>10

LEMMA ServeIInv ==
  ASSUME IInv, NEW c \in Callers, Serve(c)
  PROVE  IInv'
<1>1. WaitIsHeld' /\ MetOnce' /\ CutIsPaid'
  BY ServedStep DEF IInv, WaitIsHeld, MetOnce, CutIsPaid, Boundary
<1> QED BY <1>1, ServedStep, OutcomeIInv DEF Serve

(* The hold and the instant to wait for move together.                     *)
Waited(now, delay) == Larger(told.wait, IF delay = None THEN 0 ELSE now + delay)

LEMMA HoldMoves ==
  ASSUME IInv, NEW now \in Nat, NEW delay \in Delays \cup {None}
  PROVE  /\ HeldUntil(pace, now, delay) \in Nat /\ Waited(now, delay) \in Nat
         /\ Waited(now, delay) <= HeldUntil(pace, now, delay)
         /\ told.wait <= HeldUntil(pace, now, delay)
         /\ delay # None => now + delay \in Nat
              /\ Larger(told.wait, now + delay) = Waited(now, delay)
<1>1. told.wait \in Nat /\ pace.hold \in Nat /\ told.wait <= pace.hold
  BY DEF IInv, TypeOK, WaitIsHeld
<1>2. delay # None => delay \in Nat
  BY PaceAssumption
<1> QED BY <1>1, <1>2, PaceAssumption DEF HeldUntil, Waited, Larger, None

(* The bucket with its hold moved.                                         *)
LEMMA HeldPace ==
  ASSUME IInv, NEW h \in Nat, NEW p, p = [pace EXCEPT !.hold = h]
  PROVE  /\ PaceOK(p, clock) /\ p.hold = h /\ p.tokens = pace.tokens /\ p.target = pace.target
         /\ p.latency = pace.latency /\ p.probe = pace.probe /\ p.cut = pace.cut
         /\ p.ceiling = pace.ceiling /\ p.starved = pace.starved /\ p.last = pace.last
<1>1. PaceOK(pace, clock) BY IsPaceOK DEF IInv
<1> QED BY <1>1 DEF PaceOK, Pace, Burst

LEMMA NamedStep ==
  ASSUME IInv, NEW now \in Readings, NEW delay \in Delays \cup {None}, NEW rate \in Ceilings,
         Named(now, delay, rate)
  PROVE  /\ PaceOK(pace', clock) /\ told' \in [wait : Nat, cut : Int, met : Int]
         /\ pace'.starved = pace.starved /\ told'.cut = told.cut
         /\ told.wait <= pace'.hold
         /\ WaitIsHeld' /\ MetOnce' /\ CutIsPaid'
<1>1. now \in Nat /\ now <= clock /\ clock \in Nat
  BY ReadingsAreTimes DEF IInv
<1>2. PICK h : h = HeldUntil(pace, now, delay) OBVIOUS
<1>3. PICK p : p = [pace EXCEPT !.hold = h] OBVIOUS
<1>4. h \in Nat /\ Waited(now, delay) \in Nat /\ Waited(now, delay) <= h /\ told.wait <= h
  BY <1>1, <1>2, HoldMoves
<1>5. /\ PaceOK(p, clock) /\ p.hold = h /\ p.tokens = pace.tokens /\ p.latency = pace.latency
      /\ p.cut = pace.cut /\ p.starved = pace.starved /\ p.last = pace.last
  BY <1>3, <1>4, HeldPace
<1>6. PICK t : t = Larger(rate * p.latency, TargetMin) OBVIOUS
<1>7. PICK k : k = Smaller(p.tokens, Larger(t, Whole) * Base) OBVIOUS
<1>8. /\ pace' = [p EXCEPT !.target = t, !.ceiling = t, !.probe = now + ProbePeriod, !.tokens = k]
      /\ told' = [wait |-> Waited(now, delay), cut |-> told.cut, met |-> now]
  BY <1>2, <1>3, <1>6, <1>7 DEF Named, Waited
<1>9. t \in Nat /\ t >= TargetMin
  <2>1. rate \in Nat /\ p.latency \in Nat
    BY <1>5, PaceAssumption DEF PaceOK, Pace
  <2>2. \A a, b \in Nat : a * b \in Nat BY SMTT(30)
  <2>3. rate * p.latency \in Nat BY <2>1, <2>2
  <2> QED BY <1>6, <2>3, PaceAssumption DEF Larger
<1>10. Larger(t, Whole) * Base \in Nat
  BY <1>9, BurstGrows
<1>11. k \in Nat /\ k <= Larger(t, Whole) * Base
  BY <1>5, <1>7, <1>10 DEF Smaller, PaceOK, Pace
<1>12. now + ProbePeriod \in Nat
  BY <1>1, PaceAssumption
<1>13. /\ pace' \in Pace /\ pace'.target = t /\ pace'.probe = now + ProbePeriod
       /\ pace'.tokens = k /\ pace'.last = p.last /\ pace'.hold = h /\ pace'.cut = p.cut
       /\ pace'.starved = p.starved
  BY <1>5, <1>8, <1>9, <1>11, <1>12 DEF PaceOK, Pace
<1>14. PaceOK(pace', clock)
  BY <1>5, <1>9, <1>11, <1>13 DEF PaceOK, Pace, Burst
<1>15. /\ told' \in [wait : Nat, cut : Int, met : Int] /\ told'.wait = Waited(now, delay)
       /\ told'.met = now /\ told'.cut = told.cut
  <2>1. told.cut \in Int BY DEF IInv, TypeOK
  <2> QED BY <1>1, <1>4, <1>8, <2>1
<1>16. WaitIsHeld' /\ MetOnce' /\ CutIsPaid'
  BY <1>4, <1>5, <1>13, <1>15 DEF IInv, WaitIsHeld, MetOnce, CutIsPaid, Boundary
<1> QED BY <1>4, <1>5, <1>13, <1>14, <1>15, <1>16

(* A refusal that names no rate is part of an episode that is paid, and    *)
(* changes but the hold, or opens an episode of its own.                   *)
LEMMA BareStep ==
  ASSUME IInv, NEW now \in Readings, NEW delay \in Delays \cup {None}, Bare(now, delay)
  PROVE  /\ PaceOK(pace', clock) /\ told' \in [wait : Nat, cut : Int, met : Int]
         /\ pace'.starved = pace.starved
         /\ told'.cut = told.cut \/ (told'.cut \in Nat /\ told'.cut >= pace.cut)
         /\ \/ told.wait <= pace'.hold
            \/ told'.cut \in Nat /\ told'.cut >= pace.cut /\ pace'.hold = Boundary(told'.cut)
         /\ WaitIsHeld' /\ MetOnce' /\ CutIsPaid'
<1>1. now \in Nat /\ now <= clock /\ clock \in Nat
  BY ReadingsAreTimes DEF IInv
<1>2. PICK h : h = HeldUntil(pace, now, delay) OBVIOUS
<1>3. PICK p : p = [pace EXCEPT !.hold = h] OBVIOUS
<1>4. /\ h \in Nat /\ Waited(now, delay) \in Nat /\ Waited(now, delay) <= h /\ told.wait <= h
      /\ delay # None => Larger(told.wait, now + delay) = Waited(now, delay)
  BY <1>1, <1>2, HoldMoves
<1>5. /\ PaceOK(p, clock) /\ p.hold = h /\ p.tokens = pace.tokens /\ p.target = pace.target
      /\ p.probe = pace.probe /\ p.cut = pace.cut /\ p.starved = pace.starved
  BY <1>3, <1>4, HeldPace
<1>6. CASE Paid(p, now)
  <2>1. pace' = p /\ told' = [told EXCEPT !.wait = Waited(now, delay)]
    BY <1>2, <1>3, <1>6 DEF Bare, Waited
  <2>2. /\ told' \in [wait : Nat, cut : Int, met : Int] /\ told'.wait = Waited(now, delay)
        /\ told'.met = told.met /\ told'.cut = told.cut
    BY <1>4, <2>1 DEF IInv, TypeOK
  <2>3. WaitIsHeld' /\ MetOnce' /\ CutIsPaid'
    BY <1>4, <1>5, <2>1, <2>2 DEF IInv, WaitIsHeld, MetOnce, CutIsPaid, Boundary
  <2> QED BY <1>4, <1>5, <2>1, <2>2, <2>3
<1>7. CASE ~Paid(p, now)
  <2>1. PICK b : b = Boundary(now) OBVIOUS
  <2>2. b \in Nat BY <1>1, <2>1, BoundaryIsLater
  <2>3. PICK t : t = CutOf(p.target) OBVIOUS
  <2>4. PICK g : g = (IF delay = None THEN b ELSE h) OBVIOUS
  <2>5. PICK w : w = (IF delay = None THEN b ELSE Larger(told.wait, now + delay)) OBVIOUS
  <2>6. /\ pace' = [p EXCEPT !.ceiling = p.target, !.probe = now + ProbePeriod, !.target = t,
                             !.tokens = 0, !.last = now, !.cut = b, !.hold = g]
        /\ told' = [wait |-> w, cut |-> now, met |-> now]
    BY <1>2, <1>3, <1>5, <1>7, <2>1, <2>3, <2>4, <2>5 DEF Bare
  <2>7. g \in Nat /\ w \in Nat /\ w <= g
    BY <1>4, <2>2, <2>4, <2>5
  <2>8. t \in Nat /\ t >= TargetMin
    <3>1. p.target \in Nat BY <1>5 DEF PaceOK, Pace
    <3>2. (p.target * 3) \div 4 \in Nat BY <3>1, SMTT(30)
    <3> QED BY <2>3, <3>2, PaceAssumption DEF CutOf, Larger
  <2>9. now + ProbePeriod \in Nat /\ Larger(t, Whole) * Base \in Nat
    BY <1>1, <2>8, BurstGrows, PaceAssumption
  <2>10. /\ pace' \in Pace /\ pace'.target = t /\ pace'.probe = now + ProbePeriod
         /\ pace'.tokens = 0 /\ pace'.last = now /\ pace'.hold = g /\ pace'.cut = b
         /\ pace'.starved = p.starved
    BY <1>1, <1>5, <2>2, <2>6, <2>7, <2>8, <2>9 DEF PaceOK, Pace
  <2>11. PaceOK(pace', clock)
    BY <1>1, <2>8, <2>9, <2>10 DEF PaceOK, Burst
  <2>12. /\ told' \in [wait : Nat, cut : Int, met : Int] /\ told'.wait = w
         /\ told'.met = now /\ told'.cut = now
    BY <1>1, <2>6, <2>7
  <2>13. WaitIsHeld' /\ MetOnce' /\ CutIsPaid'
    BY <1>1, <2>1, <2>7, <2>10, <2>12 DEF WaitIsHeld, MetOnce, CutIsPaid, Boundary
  <2>14. now >= pace.cut
    BY <1>1, <1>5, <1>7 DEF Paid, PaceOK, Pace
  <2>15. told.wait <= pace'.hold \/ pace'.hold = Boundary(told'.cut)
    BY <1>4, <2>1, <2>4, <2>10, <2>12
  <2> QED BY <1>1, <1>5, <2>10, <2>11, <2>12, <2>13, <2>14, <2>15
<1> QED BY <1>6, <1>7

LEMMA RefuseStep ==
  ASSUME IInv, NEW c \in Callers, Refuse(c)
  PROVE  /\ IInv' /\ pace'.starved = pace.starved
         /\ told'.cut = told.cut \/ (told'.cut \in Nat /\ told'.cut >= pace.cut)
         /\ \/ told.wait <= pace'.hold
            \/ told'.cut \in Nat /\ told'.cut >= pace.cut /\ pace'.hold = Boundary(told'.cut)
<1>1. PICK now \in Readings, delay \in Delays \cup {None} :
        Bare(now, delay) \/ \E rate \in Ceilings : Named(now, delay, rate)
  BY DEF Refuse
<1>2. CASE Bare(now, delay)
  BY <1>2, BareStep, OutcomeIInv DEF Refuse
<1>3. CASE \E rate \in Ceilings : Named(now, delay, rate)
  BY <1>3, NamedStep, OutcomeIInv DEF Refuse
<1> QED BY <1>1, <1>2, <1>3
-----------------------------------------------------------------------------
LEMMA NextIInv == IInv /\ [Next]_vars => IInv'
<1> SUFFICES ASSUME IInv, [Next]_vars PROVE IInv' OBVIOUS
<1>1. CASE Tick BY <1>1, TickIInv
<1>2. ASSUME NEW c \in Callers, Admit(c) \/ Deny(c) \/ Serve(c) \/ Refuse(c) \/ Drop(c)
      PROVE  IInv'
  BY <1>2, AdmitIInv, DenyIInv, ServeIInv, RefuseStep, DropIInv
<1>3. CASE UNCHANGED vars
  BY <1>3 DEF vars, IInv, TypeOK, Burst, WaitIsHeld, MetOnce, CutIsPaid, Boundary
<1> QED BY <1>1, <1>2, <1>3 DEF Next

LEMMA Inductive == Spec => []IInv
  BY InitIInv, NextIInv, PTL DEF Spec

(* Every variable keeps its type; in particular the bucket never holds     *)
(* more than its burst, and the target never falls under its floor         *)
(* (LearnedRate, ratelimit.rs).                                            *)
THEOREM TypeCorrect == Spec => []TypeOK
<1>1. IInv => TypeOK BY DEF IInv
<1> QED BY <1>1, Inductive, PTL

(* However many calls of a wave come back refused, and in whatever order   *)
(* and under whatever readings of the clock, the target is cut once a wall *)
(* minute (LearnedRate::refused).                                          *)
THEOREM WavesCutOnce == Spec => OneCutPerMinute
<1>1. IInv /\ [Next]_vars
        => (told'.cut # told.cut => MinuteOf(told'.cut) > MinuteOf(told.cut))
  <2> SUFFICES ASSUME IInv, [Next]_vars, told'.cut # told.cut
               PROVE  MinuteOf(told'.cut) > MinuteOf(told.cut)
    OBVIOUS
  <2>1. told'.cut \in Nat /\ told'.cut >= pace.cut
    BY RefuseStep, ServedStep DEF Next, Tick, Admit, Deny, Drop, vars
  <2> QED BY <2>1, BoundaryIsLater, FirstMinute DEF IInv, CutIsPaid
<1>2. IInv /\ [Next]_vars
        => [told'.cut # told.cut => MinuteOf(told'.cut) > MinuteOf(told.cut)]_vars
  BY <1>1
<1> QED BY <1>2, Inductive, PTL DEF Spec, OneCutPerMinute

(* A target that was refused is reached again once a probe period, and by  *)
(* one step (LearnedRate::served).                                         *)
THEOREM CeilingsAreProbed == Spec => CeilingIsProbed
<1> DEFINE Probing ==
      pace.starved /\ ~pace'.starved /\ pace'.target > pace.target
       /\ pace.ceiling # None /\ pace'.target >= pace.ceiling
       => pace'.target = pace.target + 1 /\ told'.met - told.met >= ProbePeriod
<1>1. IInv /\ [Next]_vars => Probing
  <2> SUFFICES ASSUME IInv, [Next]_vars, pace.starved, ~pace'.starved,
                      pace'.target > pace.target, pace.ceiling # None,
                      pace'.target >= pace.ceiling
               PROVE  pace'.target = pace.target + 1 /\ told'.met - told.met >= ProbePeriod
    OBVIOUS
  <2>0. PaceOK(pace, clock) /\ clock \in Nat /\ told \in [wait : Nat, cut : Int, met : Int]
    BY IsPaceOK DEF IInv, TypeOK
  <2>1. ASSUME NEW c \in Callers, Admit(c) PROVE FALSE
    <3>1. PICK now \in Readings : pace' = [Refill(pace, now) EXCEPT !.tokens = @ - Call]
      BY <2>1 DEF Admit
    <3>2. now \in Nat /\ now <= clock BY ReadingsAreTimes DEF IInv
    <3>3. PICK q : q = Refill(pace, now) OBVIOUS
    <3>4. PaceOK(q, clock) /\ q.starved = pace.starved
      BY <2>0, <3>2, <3>3, RefillOK
    <3> QED BY <3>1, <3>3, <3>4 DEF PaceOK, Pace
  <2>2. ASSUME NEW c \in Callers, Deny(c) PROVE FALSE
    <3>1. PICK now \in Readings :
            pace' = [Refill(pace, now) EXCEPT !.starved = @ \/ ~Held(pace, now)]
      BY <2>2 DEF Deny
    <3>2. now \in Nat /\ now <= clock BY ReadingsAreTimes DEF IInv
    <3>3. PICK q : q = Refill(pace, now) OBVIOUS
    <3>4. PaceOK(q, clock) /\ q.starved = pace.starved
      BY <2>0, <3>2, <3>3, RefillOK
    <3>5. pace' = [q EXCEPT !.starved = TRUE]
      BY <3>1, <3>3, <3>4
    <3> QED BY <3>4, <3>5 DEF PaceOK, Pace
  <2>3. ASSUME NEW c \in Callers, Serve(c)
        PROVE  pace'.target = pace.target + 1 /\ told'.met - told.met >= ProbePeriod
    <3>1. \/ pace'.target = pace.target + 1 /\ ~Meets(pace)
          \/ pace'.target = pace.target + 1 /\ told'.met \in Nat /\ told'.met >= pace.probe
      BY <2>0, <2>3, ServedStep DEF PaceOK, Pace
    <3>2. ~(pace'.target = pace.target + 1 /\ ~Meets(pace))
      BY <2>0 DEF Meets, Grown, PaceOK, Pace
    <3> QED BY <2>0, <3>1, <3>2, PaceAssumption DEF IInv, MetOnce
  <2>4. CASE Tick \/ UNCHANGED vars \/ \E c \in Callers : Drop(c) \/ Refuse(c)
    BY <2>4, RefuseStep DEF Tick, vars, Drop
  <2> QED BY <2>1, <2>2, <2>3, <2>4 DEF Next
<1>2. IInv /\ [Next]_vars => [Probing]_vars
  BY <1>1
<1> QED BY <1>2, Inductive, PTL DEF Spec, CeilingIsProbed

(* A cut is of a later wall minute than the one before.                    *)
LEMMA CutIsLater ==
  ASSUME IInv, told'.cut \in Nat, told'.cut >= pace.cut
  PROVE  MinuteOf(told'.cut) > MinuteOf(told.cut)
  BY BoundaryIsLater, FirstMinute DEF IInv, CutIsPaid

(* No call leaves before the latest instant a refusal stated, in whatever   *)
(* order they settle, unless a refusal that states nothing has cut the      *)
(* target and set the hold anew to the end of its wall minute: that is the  *)
(* one step that lowers the hold under what was stated, once a wall minute  *)
(* (LearnedRate::try_take, LearnedRate::refused).                          *)
THEOREM OnlyACutLowersTheHold == Spec => StatedWaitHolds
<1> DEFINE Waits == \A c \in Callers : out[c] = None /\ out'[c] # None => out'[c] >= told.wait
           Falls == pace'.hold < told.wait =>
                      /\ pace'.hold = Boundary(told'.cut)
                      /\ MinuteOf(told'.cut) > MinuteOf(told.cut)
<1>1. IInv /\ [Next]_vars => Waits
  <2> SUFFICES ASSUME IInv, [Next]_vars, NEW c \in Callers, out[c] = None, out'[c] # None
               PROVE  out'[c] >= told.wait
    OBVIOUS
  <2>1. out \in [Callers -> 0 .. clock \cup {None}] BY DEF IInv, TypeOK
  <2>2. ASSUME NEW d \in Callers, Admit(d) PROVE out'[c] >= told.wait
    <3>1. PICK now \in Readings : ~(now < pace.hold) /\ out' = [out EXCEPT ![d] = now]
      BY <2>2 DEF Admit, Admits, Held
    <3>2. now \in Nat BY ReadingsAreTimes DEF IInv
    <3>3. out'[c] = now BY <2>1, <3>1
    <3> QED BY <3>1, <3>2, <3>3 DEF IInv, WaitIsHeld, TypeOK
  <2>3. CASE Tick \/ UNCHANGED vars \/ \E d \in Callers : Deny(d) \/ Drop(d) \/ Serve(d) \/ Refuse(d)
    BY <2>1, <2>3 DEF Tick, vars, Deny, Drop, Serve, Refuse
  <2> QED BY <2>2, <2>3 DEF Next
<1>2. IInv /\ [Next]_vars => Falls
  <2> SUFFICES ASSUME IInv, [Next]_vars, pace'.hold < told.wait
               PROVE  /\ pace'.hold = Boundary(told'.cut)
                      /\ MinuteOf(told'.cut) > MinuteOf(told.cut)
    OBVIOUS
  <2>0. PaceOK(pace, clock) /\ told.wait \in Nat /\ pace.hold \in Nat /\ told.wait <= pace.hold
    BY IsPaceOK DEF IInv, TypeOK, WaitIsHeld
  <2>1. ASSUME NEW c \in Callers, Refuse(c)
        PROVE  told'.cut \in Nat /\ told'.cut >= pace.cut /\ pace'.hold = Boundary(told'.cut)
    <3>1. IInv' BY <2>1, RefuseStep
    <3>2. pace'.hold \in Nat BY <3>1 DEF IInv, TypeOK
    <3>3. ~(told.wait <= pace'.hold) BY <2>0, <3>2
    <3> QED BY <2>1, <3>3, RefuseStep
  <2>2. ASSUME NEW c \in Callers, Admit(c) \/ Deny(c) PROVE pace'.hold = pace.hold
    <3>1. PICK now \in Readings :
            \E x : \/ pace' = [Refill(pace, now) EXCEPT !.tokens = x]
                  \/ pace' = [Refill(pace, now) EXCEPT !.starved = x]
      BY <2>2 DEF Admit, Deny
    <3>2. now \in Nat /\ now <= clock /\ clock \in Nat BY ReadingsAreTimes DEF IInv
    <3>3. PICK q : q = Refill(pace, now) OBVIOUS
    <3>4. PaceOK(q, clock) /\ q.hold = pace.hold BY <2>0, <3>2, <3>3, RefillOK
    <3> QED BY <3>1, <3>3, <3>4 DEF PaceOK, Pace
  <2>3. ASSUME NEW c \in Callers, Serve(c) PROVE pace'.hold = pace.hold
    BY <2>3, ServedStep
  <2>4. CASE Tick \/ UNCHANGED vars \/ \E c \in Callers : Drop(c)
    BY <2>0, <2>4 DEF Tick, vars, Drop
  <2>5. ASSUME NEW c \in Callers, Admit(c) \/ Deny(c) \/ Serve(c) PROVE FALSE
    BY <2>0, <2>2, <2>3, <2>5
  <2> QED BY <2>1, <2>4, <2>5, CutIsLater DEF Next
<1>3. IInv /\ [Next]_vars => [Waits /\ Falls]_vars
  BY <1>1, <1>2
<1> QED BY <1>3, Inductive, PTL DEF Spec, StatedWaitHolds
=============================================================================

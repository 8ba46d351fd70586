------------------------ MODULE SummaryBatch_proofs -------------------------
(***************************************************************************)
(* Theorems about SummaryBatch for every set of jobs, drivers and doors.   *)
(*                                                                         *)
(* The argument: the six places a decision can be in (queued, in a hand,   *)
(* in the channel, written, given up, lost) partition the batch, and every *)
(* action moves one decision, or none, from one place to another.          *)
(***************************************************************************)
EXTENDS SummaryBatch, FiniteSetTheorems, TLAPS

-----------------------------------------------------------------------------
(* The inductive invariant.                                                *)

(* Every job waits in the file of its shape, once.                         *)
FilesOK ==
  /\ file \in [Shapes -> Seq(Jobs)]
  /\ \A s \in Shapes : \A n \in DOMAIN file[s] : ShapeOf[file[s][n]] = s
  /\ \A s \in Shapes : \A m, n \in DOMAIN file[s] : file[s][m] = file[s][n] => m = n

(* A driver holds a job exactly while it calls or sends, and no other has  *)
(* that job.                                                               *)
HandsOK ==
  /\ pc \in [Drivers -> PcSet]
  /\ held \in [Drivers -> Jobs \cup {NoJob}]
  /\ \A d \in Drivers : held[d] # NoJob <=> pc[d] \in {"call", "send"}
  /\ \A d, e \in Drivers : held[d] = held[e] /\ held[d] # NoJob => d = e

ChannelOK ==
  /\ channel \in Seq([job : Jobs, pool : Pools])
  /\ \A m, n \in DOMAIN channel : channel[m].job = channel[n].job => m = n

(* The places are disjoint and hold every job.                             *)
PlacesOK ==
  /\ Queued \cap (InHand \cup InAir \cup Stored \cup dropped \cup Gone) = {}
  /\ InHand \cap (InAir \cup Stored \cup dropped \cup Gone) = {}
  /\ InAir \cap (Stored \cup dropped \cup Gone) = {}
  /\ Stored \cap (dropped \cup Gone) = {}
  /\ dropped \cap Gone = {}
  /\ Jobs \subseteq Queued \cup InHand \cup InAir \cup Stored \cup dropped \cup Gone

(* A job still in play has passes left.                                    *)
CountsOK ==
  /\ attempts \in [Jobs -> 0..MaxAttempts]
  /\ unavailable \in [Jobs -> 0..MaxUnavailable]
  /\ \A j \in Queued \cup InHand :
       attempts[j] < MaxAttempts /\ unavailable[j] < MaxUnavailable

RestOK ==
  /\ cooling \in [Drivers -> Jobs \cup {NoJob}]
  /\ exit \in [Drivers -> Exits]
  /\ late \subseteq Drivers
  /\ ahead \in Int
  /\ written \subseteq [job : Jobs, pool : Pools]
  /\ dropped \subseteq Jobs
  /\ lost \subseteq [job : Jobs, by : Drivers \cup {Writer}]
  /\ stopping \in BOOLEAN
  /\ phase \in Phases

IInv == FilesOK /\ HandsOK /\ ChannelOK /\ PlacesOK /\ CountsOK /\ RestOK

-----------------------------------------------------------------------------
(* The constants, in the form the steps use.                               *)

LEMMA ConstantFacts ==
  /\ NoJob \notin Jobs
  /\ ShapeOf \in [Jobs -> Shapes]
  /\ PoolOf \in [Drivers -> Pools]
  /\ MaxAttempts \in Nat /\ MaxAttempts > 0
  /\ MaxUnavailable \in Nat /\ MaxUnavailable > 0
BY BatchAssumption DEF BatchAssumption

-----------------------------------------------------------------------------
(* Sequences as places.                                                    *)

LEMMA AppendFacts ==
  ASSUME NEW S, NEW q \in Seq(S), NEW x \in S
  PROVE  /\ Append(q, x) \in Seq(S)
         /\ ToSet(Append(q, x)) = ToSet(q) \cup {x}
         /\ DOMAIN Append(q, x) = 1..(Len(q) + 1)
         /\ \A n \in DOMAIN q : Append(q, x)[n] = q[n]
         /\ Append(q, x)[Len(q) + 1] = x
<1>1. /\ Append(q, x) \in Seq(S)
      /\ DOMAIN q = 1..Len(q)
      /\ DOMAIN Append(q, x) = 1..(Len(q) + 1)
      /\ \A n \in 1..Len(q) : Append(q, x)[n] = q[n]
      /\ Append(q, x)[Len(q) + 1] = x
      /\ Len(q) \in Nat
  OBVIOUS
<1>2. ToSet(Append(q, x)) = ToSet(q) \cup {x}
  BY <1>1 DEF ToSet
<1> QED
  BY <1>1, <1>2

LEMMA ConsFacts ==
  ASSUME NEW S, NEW q \in Seq(S), NEW x \in S
  PROVE  /\ <<x>> \o q \in Seq(S)
         /\ ToSet(<<x>> \o q) = ToSet(q) \cup {x}
         /\ DOMAIN (<<x>> \o q) = 1..(Len(q) + 1)
         /\ (<<x>> \o q)[1] = x
         /\ \A n \in 2..(Len(q) + 1) : (<<x>> \o q)[n] = q[n - 1]
<1> DEFINE r == <<x>> \o q
<1>1. /\ r \in Seq(S)
      /\ Len(q) \in Nat
      /\ DOMAIN q = 1..Len(q)
      /\ Len(r) = Len(q) + 1
      /\ DOMAIN r = 1..(Len(q) + 1)
      /\ r[1] = x
      /\ \A n \in 2..(Len(q) + 1) : r[n] = q[n - 1]
  OBVIOUS
<1>2. \A n \in DOMAIN q : q[n] = r[n + 1] /\ n + 1 \in DOMAIN r
  BY <1>1
<1>3. \A n \in DOMAIN r : n = 1 \/ n - 1 \in DOMAIN q
  BY <1>1
<1>4. ToSet(r) = ToSet(q) \cup {x}
  <2>1. ToSet(r) \subseteq ToSet(q) \cup {x}
    BY <1>1, <1>3 DEF ToSet
  <2>2. ToSet(q) \subseteq ToSet(r)
    <3>1. SUFFICES ASSUME NEW n \in DOMAIN q PROVE q[n] \in ToSet(r)
      BY DEF ToSet
    <3> QED BY <1>2 DEF ToSet
  <2>3. x \in ToSet(r)
    BY <1>1 DEF ToSet
  <2> QED BY <2>1, <2>2, <2>3
<1> QED
  BY <1>1, <1>4

LEMMA TailFacts ==
  ASSUME NEW S, NEW q \in Seq(S), q # <<>>
  PROVE  /\ Tail(q) \in Seq(S)
         /\ Head(q) \in S /\ Head(q) = q[1] /\ 1 \in DOMAIN q
         /\ DOMAIN Tail(q) = 1..(Len(q) - 1)
         /\ \A n \in DOMAIN Tail(q) : Tail(q)[n] = q[n + 1] /\ n + 1 \in DOMAIN q
         /\ \A n \in DOMAIN q : n = 1 \/ (n - 1 \in DOMAIN Tail(q) /\ Tail(q)[n - 1] = q[n])
  OBVIOUS

-----------------------------------------------------------------------------
(* What a push and a pop do to the files as places.                        *)

LEMMA QueuedGrows ==
  ASSUME NEW t \in Shapes, NEW j,
         \A s \in Shapes \ {t} : file'[s] = file[s],
         ToSet(file'[t]) = ToSet(file[t]) \cup {j}
  PROVE  Queued' = Queued \cup {j}
<1>1. Queued' = UNION {ToSet(file'[s]) : s \in Shapes}
  BY DEF Queued
<1>2. \A x : x \in Queued' <=> \E s \in Shapes : x \in ToSet(file'[s])
  BY <1>1
<1>3. \A x : x \in Queued <=> \E s \in Shapes : x \in ToSet(file[s])
  BY DEF Queued
<1> QED
  BY <1>2, <1>3

LEMMA PushBackFiles ==
  ASSUME FilesOK, NEW j \in Jobs, j \notin Queued, PushBack(j)
  PROVE  FilesOK' /\ Queued' = Queued \cup {j}
<1> DEFINE t == ShapeOf[j]
           q == file[t]
<1>1. t \in Shapes /\ q \in Seq(Jobs)
  BY ConstantFacts DEF FilesOK
<1>2. /\ file' = [file EXCEPT ![t] = Append(q, j)]
      /\ file'[t] = Append(q, j)
      /\ \A s \in Shapes \ {t} : file'[s] = file[s]
  BY <1>1 DEF PushBack, FilesOK
<1>3. /\ Append(q, j) \in Seq(Jobs)
      /\ ToSet(Append(q, j)) = ToSet(q) \cup {j}
      /\ DOMAIN q = 1..Len(q) /\ Len(q) \in Nat
      /\ DOMAIN Append(q, j) = 1..(Len(q) + 1)
      /\ \A n \in DOMAIN q : Append(q, j)[n] = q[n]
      /\ Append(q, j)[Len(q) + 1] = j
  BY <1>1, AppendFacts
<1>4. j \notin ToSet(q)
  BY <1>1 DEF Queued
<1>5. \A n \in DOMAIN q : q[n] # j
  BY <1>4 DEF ToSet
<1>6. \A n \in DOMAIN file'[t] : n \in DOMAIN q \/ n = Len(q) + 1
  BY <1>2, <1>3
<1>7. \A n \in DOMAIN file'[t] : ShapeOf[file'[t][n]] = t
  BY <1>1, <1>2, <1>3, <1>6 DEF FilesOK
<1>8. \A m, n \in DOMAIN file'[t] : file'[t][m] = file'[t][n] => m = n
  BY <1>1, <1>2, <1>3, <1>5, <1>6 DEF FilesOK
<1>9. file' \in [Shapes -> Seq(Jobs)]
  BY <1>1, <1>2, <1>3 DEF FilesOK
<1>10. FilesOK'
  BY <1>2, <1>7, <1>8, <1>9 DEF FilesOK
<1>11. ToSet(file'[t]) = ToSet(file[t]) \cup {j}
  BY <1>2, <1>3
<1> HIDE DEF t, q
<1> QED
  BY <1>1, <1>2, <1>10, <1>11, QueuedGrows

LEMMA PushFrontFiles ==
  ASSUME FilesOK, NEW j \in Jobs, j \notin Queued, PushFront(j)
  PROVE  FilesOK' /\ Queued' = Queued \cup {j}
<1> DEFINE t == ShapeOf[j]
           q == file[t]
           r == <<j>> \o q
<1>1. t \in Shapes /\ q \in Seq(Jobs)
  BY ConstantFacts DEF FilesOK
<1>2. /\ file' = [file EXCEPT ![t] = r]
      /\ file'[t] = r
      /\ \A s \in Shapes \ {t} : file'[s] = file[s]
  BY <1>1 DEF PushFront, FilesOK
<1>3. /\ r \in Seq(Jobs)
      /\ ToSet(r) = ToSet(q) \cup {j}
      /\ DOMAIN r = 1..(Len(q) + 1)
      /\ r[1] = j
      /\ \A n \in 2..(Len(q) + 1) : r[n] = q[n - 1]
  BY <1>1, ConsFacts
<1>4. DOMAIN q = 1..Len(q) /\ Len(q) \in Nat
  BY <1>1
<1>5. j \notin ToSet(q)
  BY <1>1 DEF Queued
<1>6. \A n \in DOMAIN q : q[n] # j
  BY <1>5 DEF ToSet
<1> HIDE DEF r
<1>7. \A n \in DOMAIN r : n = 1 \/ (n - 1 \in DOMAIN q /\ r[n] = q[n - 1] /\ n \in Int)
  BY <1>3, <1>4
<1>8. \A n \in DOMAIN r : ShapeOf[r[n]] = t
  BY <1>1, <1>3, <1>7 DEF FilesOK
<1>9. \A m, n \in DOMAIN r : r[m] = r[n] => m = n
  <2> SUFFICES ASSUME NEW m \in DOMAIN r, NEW n \in DOMAIN r, r[m] = r[n]
               PROVE  m = n
    OBVIOUS
  <2>1. CASE m = 1
    BY <2>1, <1>3, <1>6, <1>7
  <2>2. CASE n = 1
    BY <2>2, <1>3, <1>6, <1>7
  <2>3. CASE m # 1 /\ n # 1
    <3>1. q[m - 1] = q[n - 1] /\ m - 1 \in DOMAIN q /\ n - 1 \in DOMAIN q
      BY <2>3, <1>7
    <3>2. m - 1 = n - 1
      BY <3>1, <1>1 DEF FilesOK
    <3> QED BY <3>2, <2>3, <1>7
  <2> QED BY <2>1, <2>2, <2>3
<1>10. file' \in [Shapes -> Seq(Jobs)]
  BY <1>1, <1>2, <1>3 DEF FilesOK
<1>11. FilesOK'
  BY <1>2, <1>8, <1>9, <1>10 DEF FilesOK
<1> QED
  BY <1>1, <1>2, <1>3, <1>11, QueuedGrows

LEMMA PopFiles ==
  ASSUME FilesOK, NEW t \in Shapes, file[t] # <<>>, Pop(t)
  PROVE  /\ FilesOK'
         /\ Head(file[t]) \in Jobs
         /\ Head(file[t]) \in Queued
         /\ Queued' = Queued \ {Head(file[t])}
<1> DEFINE q == file[t]
           h == Head(q)
<1>1. q \in Seq(Jobs) /\ q # <<>>
  BY DEF FilesOK
<1>2. /\ Tail(q) \in Seq(Jobs)
      /\ h \in Jobs /\ h = q[1] /\ 1 \in DOMAIN q
      /\ DOMAIN Tail(q) = 1..(Len(q) - 1)
      /\ \A n \in DOMAIN Tail(q) : Tail(q)[n] = q[n + 1] /\ n + 1 \in DOMAIN q
      /\ \A n \in DOMAIN q : n = 1 \/ (n - 1 \in DOMAIN Tail(q) /\ Tail(q)[n - 1] = q[n])
  BY <1>1, TailFacts
<1>3. /\ file' = [file EXCEPT ![t] = Tail(q)]
      /\ file'[t] = Tail(q)
      /\ \A s \in Shapes \ {t} : file'[s] = file[s]
  BY DEF Pop, FilesOK
<1>4. \A m, n \in DOMAIN q : q[m] = q[n] => m = n
  BY DEF FilesOK
<1>5. \A n \in DOMAIN Tail(q) : n \in Int /\ n >= 1
  BY <1>2
<1>6. \A m, n \in DOMAIN Tail(q) : Tail(q)[m] = Tail(q)[n] => m = n
  <2> SUFFICES ASSUME NEW m \in DOMAIN Tail(q), NEW n \in DOMAIN Tail(q),
                      Tail(q)[m] = Tail(q)[n]
               PROVE  m = n
    OBVIOUS
  <2>1. m + 1 = n + 1
    BY <1>2, <1>4
  <2> QED BY <2>1, <1>5
<1>7. \A n \in DOMAIN Tail(q) : ShapeOf[Tail(q)[n]] = t
  BY <1>2 DEF FilesOK
<1>8. FilesOK'
  <2>1. file' \in [Shapes -> Seq(Jobs)]
    BY <1>2, <1>3 DEF FilesOK
  <2> QED BY <2>1, <1>3, <1>6, <1>7 DEF FilesOK
<1>9. h \in ToSet(q) /\ h \in Queued
  <2>1. h \in ToSet(q)
    BY <1>2 DEF ToSet
  <2> QED BY <2>1 DEF Queued
<1>10. ToSet(Tail(q)) = ToSet(q) \ {h}
  <2>1. ASSUME NEW x \in ToSet(Tail(q)) PROVE x \in ToSet(q) \ {h}
    <3>1. PICK n \in DOMAIN Tail(q) : x = Tail(q)[n]
      BY <2>1 DEF ToSet
    <3>2. x = q[n + 1] /\ n + 1 \in DOMAIN q /\ n + 1 # 1
      BY <3>1, <1>2, <1>5
    <3>3. x # h
      BY <3>2, <1>2, <1>4
    <3> QED BY <3>2, <3>3 DEF ToSet
  <2>2. ASSUME NEW x \in ToSet(q), x # h PROVE x \in ToSet(Tail(q))
    <3>1. PICK n \in DOMAIN q : x = q[n]
      BY <2>2 DEF ToSet
    <3>2. n - 1 \in DOMAIN Tail(q) /\ Tail(q)[n - 1] = x
      BY <3>1, <2>2, <1>2
    <3> QED BY <3>2 DEF ToSet
  <2> QED BY <2>1, <2>2
<1>11. \A s \in Shapes \ {t} : h \notin ToSet(file[s])
  BY <1>2 DEF ToSet, FilesOK
<1>12. Queued' = Queued \ {h}
  <2>1. \A x : x \in Queued' <=> \E s \in Shapes : x \in ToSet(file'[s])
    BY DEF Queued
  <2>2. \A x : x \in Queued <=> \E s \in Shapes : x \in ToSet(file[s])
    BY DEF Queued
  <2> QED BY <2>1, <2>2, <1>3, <1>10, <1>11
<1> QED
  BY <1>2, <1>8, <1>9, <1>12

-----------------------------------------------------------------------------
(* What the hands are after a driver lets go, takes, or walks on.          *)

Busyness == {"call", "send"}

LEMMA LetGoHands ==
  ASSUME HandsOK, NEW d \in Drivers, pc[d] \in Busyness,
         LetGo(d), NEW to \in AtRest, Goto(d, to)
  PROVE  /\ HandsOK'
         /\ held[d] \in Jobs /\ held[d] \in InHand
         /\ InHand' = InHand \ {held[d]}
<1>1. held[d] \in Jobs /\ held[d] \in InHand
  BY ConstantFacts DEF HandsOK, Busyness, InHand
<1>2. /\ held' \in [Drivers -> Jobs \cup {NoJob}]
      /\ held'[d] = NoJob
      /\ \A e \in Drivers \ {d} : held'[e] = held[e]
      /\ \A e \in Drivers \ {d} : held[e] # held[d]
  BY <1>1, ConstantFacts DEF HandsOK, LetGo
<1>3. pc' \in [Drivers -> PcSet] /\ pc'[d] = to /\ \A e \in Drivers \ {d} : pc'[e] = pc[e]
  BY DEF HandsOK, Goto, PcSet
<1>4. to \notin Busyness
  BY DEF AtRest, Busyness
<1>5. HandsOK'
  BY <1>2, <1>3, <1>4 DEF HandsOK, Busyness
<1>6. InHand' = InHand \ {held[d]}
  BY <1>1, <1>2 DEF InHand
<1> QED
  BY <1>1, <1>5, <1>6

LEMMA GrabHands ==
  ASSUME HandsOK, NEW d \in Drivers, pc[d] \notin Busyness,
         NEW j \in Jobs, j \notin InHand,
         held' = [held EXCEPT ![d] = j], Goto(d, "call")
  PROVE  HandsOK' /\ InHand' = InHand \cup {j}
<1>1. j # NoJob /\ held[d] = NoJob
  BY ConstantFacts DEF HandsOK, Busyness
<1>2. /\ held' \in [Drivers -> Jobs \cup {NoJob}]
      /\ held'[d] = j
      /\ \A e \in Drivers \ {d} : held'[e] = held[e]
      /\ \A e \in Drivers : held[e] # j
  BY <1>1 DEF HandsOK, InHand
<1>3. pc' \in [Drivers -> PcSet] /\ pc'[d] = "call" /\ \A e \in Drivers \ {d} : pc'[e] = pc[e]
  BY DEF HandsOK, Goto, PcSet
<1>4. HandsOK'
  BY <1>1, <1>2, <1>3 DEF HandsOK, Busyness
<1>5. InHand' = InHand \cup {j}
  BY <1>1, <1>2 DEF InHand
<1> QED
  BY <1>4, <1>5

LEMMA WalkHands ==
  ASSUME HandsOK, NEW d \in Drivers, NEW to \in PcSet,
         pc[d] \in Busyness <=> to \in Busyness,
         Goto(d, to), UNCHANGED held
  PROVE  HandsOK' /\ InHand' = InHand
<1>1. pc' \in [Drivers -> PcSet] /\ pc'[d] = to /\ \A e \in Drivers \ {d} : pc'[e] = pc[e]
  BY DEF HandsOK, Goto
<1>2. held' = held
  OBVIOUS
<1>3. \A e \in Drivers : pc'[e] \in Busyness <=> pc[e] \in Busyness
  BY <1>1
<1>4. HandsOK'
  BY <1>1, <1>2, <1>3 DEF HandsOK, Busyness
<1> QED
  BY <1>2, <1>4 DEF InHand

-----------------------------------------------------------------------------
(* The channel.                                                            *)

LEMMA SendChannel ==
  ASSUME ChannelOK, NEW j \in Jobs, j \notin InAir, NEW p \in Pools,
         channel' = Append(channel, [job |-> j, pool |-> p])
  PROVE  ChannelOK' /\ InAir' = InAir \cup {j}
<1> DEFINE A == [job : Jobs, pool : Pools]
           x == [job |-> j, pool |-> p]
<1>1. channel \in Seq(A) /\ x \in A /\ x.job = j /\ channel' = Append(channel, x)
  BY DEF ChannelOK
<1> HIDE DEF A, x
<1>2. /\ channel' \in Seq(A)
      /\ ToSet(channel') = ToSet(channel) \cup {x}
      /\ DOMAIN channel' = 1..(Len(channel) + 1)
      /\ DOMAIN channel = 1..Len(channel) /\ Len(channel) \in Nat
      /\ \A n \in DOMAIN channel : channel'[n] = channel[n]
      /\ channel'[Len(channel) + 1] = x
  BY <1>1, AppendFacts
<1>3. \A n \in DOMAIN channel : channel[n].job # j
  BY DEF InAir, ToSet
<1>4. \A m, n \in DOMAIN channel' : channel'[m].job = channel'[n].job => m = n
  BY <1>1, <1>2, <1>3 DEF ChannelOK
<1>5. InAir' = InAir \cup {j}
  <2>1. InAir' = {a.job : a \in ToSet(channel')}
    BY DEF InAir
  <2> QED BY <2>1, <1>1, <1>2 DEF InAir
<1> QED
  BY <1>2, <1>4, <1>5 DEF ChannelOK, A

LEMMA RecordChannel ==
  ASSUME ChannelOK, channel # <<>>, channel' = Tail(channel)
  PROVE  /\ ChannelOK'
         /\ Head(channel) \in [job : Jobs, pool : Pools]
         /\ Head(channel).job \in InAir
         /\ InAir' = InAir \ {Head(channel).job}
<1> DEFINE A == [job : Jobs, pool : Pools]
           h == Head(channel)
<1>1. channel \in Seq(A)
  BY DEF ChannelOK
<1> HIDE DEF A
<1>2. /\ channel' \in Seq(A)
      /\ h \in A /\ h = channel[1] /\ 1 \in DOMAIN channel
      /\ DOMAIN channel' = 1..(Len(channel) - 1)
      /\ \A n \in DOMAIN channel' : channel'[n] = channel[n + 1] /\ n + 1 \in DOMAIN channel
      /\ \A n \in DOMAIN channel : n = 1 \/ (n - 1 \in DOMAIN channel' /\ channel'[n - 1] = channel[n])
  BY <1>1, TailFacts
<1>3. \A n \in DOMAIN channel' : n \in Int /\ n >= 1
  BY <1>2
<1>4. \A m, n \in DOMAIN channel : channel[m].job = channel[n].job => m = n
  BY DEF ChannelOK
<1>5. \A m, n \in DOMAIN channel' : channel'[m].job = channel'[n].job => m = n
  <2> SUFFICES ASSUME NEW m \in DOMAIN channel', NEW n \in DOMAIN channel',
                      channel'[m].job = channel'[n].job
               PROVE  m = n
    OBVIOUS
  <2>1. m + 1 = n + 1
    BY <1>2, <1>4
  <2> QED BY <2>1, <1>3
<1>6. h.job \in InAir
  BY <1>2 DEF InAir, ToSet
<1>7. \A y : y \in InAir <=> \E n \in DOMAIN channel : y = channel[n].job
  BY DEF InAir, ToSet
<1>8. \A y : y \in InAir' <=> \E n \in DOMAIN channel' : y = channel'[n].job
  BY DEF InAir, ToSet
<1>9. InAir' = InAir \ {h.job}
  <2>1. ASSUME NEW y \in InAir' PROVE y \in InAir /\ y # h.job
    <3>1. PICK n \in DOMAIN channel' : y = channel'[n].job
      BY <1>8, <2>1
    <3>2. y = channel[n + 1].job /\ n + 1 \in DOMAIN channel /\ n + 1 # 1
      BY <3>1, <1>2, <1>3
    <3> QED BY <3>2, <1>2, <1>4, <1>7
  <2>2. ASSUME NEW y \in InAir, y # h.job PROVE y \in InAir'
    <3>1. PICK n \in DOMAIN channel : y = channel[n].job
      BY <1>7, <2>2
    <3> QED BY <3>1, <2>2, <1>2, <1>8
  <2> QED BY <2>1, <2>2
<1> QED
  BY <1>2, <1>5, <1>6, <1>9 DEF ChannelOK, A

-----------------------------------------------------------------------------
(* What does not move.                                                     *)

LEMMA SameFiles ==
  ASSUME FilesOK, UNCHANGED file
  PROVE  FilesOK' /\ Queued' = Queued
BY DEF FilesOK, Queued

LEMMA SameHands ==
  ASSUME HandsOK, UNCHANGED <<pc, held>>
  PROVE  HandsOK' /\ InHand' = InHand
BY DEF HandsOK, InHand

LEMMA SameSink ==
  ASSUME ChannelOK, UNCHANGED <<channel, written, lost>>
  PROVE  /\ ChannelOK' /\ InAir' = InAir
         /\ Stored' = Stored /\ Gone' = Gone
BY DEF ChannelOK, InAir, Stored, Gone

(* A driver that walks on, touching no job.                                *)
LEMMA WalkKeeps ==
  ASSUME IInv, NEW d \in Drivers, NEW to \in PcSet,
         pc[d] \in Busyness <=> to \in Busyness, Goto(d, to),
         UNCHANGED <<file, held, jobVars, sinkVars>>, RestOK'
  PROVE  IInv'
<1>1. FilesOK' /\ Queued' = Queued
  BY SameFiles DEF IInv
<1>2. HandsOK' /\ InHand' = InHand
  BY WalkHands DEF IInv
<1>3. ChannelOK' /\ InAir' = InAir /\ Stored' = Stored /\ Gone' = Gone
  BY SameSink DEF IInv, sinkVars
<1>4. PlacesOK'
  BY <1>1, <1>2, <1>3 DEF IInv, PlacesOK, jobVars
<1>5. CountsOK'
  BY <1>1, <1>2 DEF IInv, CountsOK, jobVars
<1> QED
  BY <1>1, <1>2, <1>3, <1>4, <1>5 DEF IInv

(* A driver that puts its job back: to is where it stands then.            *)
LEMMA HandBackKeeps ==
  ASSUME IInv, NEW d \in Drivers, pc[d] \in Busyness, NEW to \in AtRest,
         PushBack(held[d]) \/ PushFront(held[d]),
         LetGo(d), Goto(d, to), UNCHANGED <<dropped, sinkVars>>,
         attempts' \in [Jobs -> 0..MaxAttempts],
         unavailable' \in [Jobs -> 0..MaxUnavailable],
         \A j \in Jobs \ {held[d]} :
           attempts'[j] = attempts[j] /\ unavailable'[j] = unavailable[j],
         attempts'[held[d]] < MaxAttempts, unavailable'[held[d]] < MaxUnavailable,
         RestOK'
  PROVE  IInv'
<1> DEFINE j == held[d]
<1>1. /\ HandsOK' /\ j \in Jobs /\ j \in InHand
      /\ InHand' = InHand \ {j}
  BY LetGoHands DEF IInv
<1>2. j \notin Queued
  BY <1>1 DEF IInv, PlacesOK
<1>3. FilesOK' /\ Queued' = Queued \cup {j}
  BY <1>1, <1>2, PushBackFiles, PushFrontFiles DEF IInv
<1>4. ChannelOK' /\ InAir' = InAir /\ Stored' = Stored /\ Gone' = Gone
  BY SameSink DEF IInv, sinkVars
<1>5. PlacesOK'
  BY <1>1, <1>3, <1>4 DEF IInv, PlacesOK
<1>6. \A i \in Queued \cup InHand : i \in Jobs
  BY DEF IInv, FilesOK, HandsOK, Queued, InHand, ToSet
<1>7. CountsOK'
  BY <1>1, <1>3, <1>6 DEF IInv, CountsOK
<1> QED
  BY <1>1, <1>3, <1>4, <1>5, <1>7 DEF IInv

(* A driver that gives its job up.                                         *)
LEMMA GiveUpKeeps ==
  ASSUME IInv, NEW d \in Drivers, pc[d] \in Busyness,
         dropped' = dropped \cup {held[d]},
         LetGo(d), Goto(d, "pull"), UNCHANGED <<file, sinkVars>>,
         attempts' \in [Jobs -> 0..MaxAttempts],
         unavailable' \in [Jobs -> 0..MaxUnavailable],
         \A j \in Jobs \ {held[d]} :
           attempts'[j] = attempts[j] /\ unavailable'[j] = unavailable[j],
         RestOK'
  PROVE  IInv'
<1> DEFINE j == held[d]
<1>0. "pull" \in AtRest
  BY DEF AtRest
<1>1. /\ HandsOK' /\ j \in Jobs /\ j \in InHand
      /\ InHand' = InHand \ {j}
  BY <1>0, LetGoHands DEF IInv
<1>2. FilesOK' /\ Queued' = Queued
  BY SameFiles DEF IInv
<1>3. ChannelOK' /\ InAir' = InAir /\ Stored' = Stored /\ Gone' = Gone
  BY SameSink DEF IInv, sinkVars
<1>4. PlacesOK'
  BY <1>1, <1>2, <1>3 DEF IInv, PlacesOK
<1>5. \A i \in Queued \cup InHand : i \in Jobs
  BY DEF IInv, FilesOK, HandsOK, Queued, InHand, ToSet
<1>6. \A i \in Queued' \cup InHand' : i \in Queued \cup InHand /\ i # j
  BY <1>1, <1>2 DEF IInv, PlacesOK
<1>7. CountsOK'
  BY <1>5, <1>6 DEF IInv, CountsOK
<1> QED
  BY <1>1, <1>2, <1>3, <1>4, <1>7 DEF IInv

-----------------------------------------------------------------------------
(* The invariant holds at first.                                           *)

LEMMA InvInit == Init => IInv
<1> SUFFICES ASSUME Init PROVE IInv
  OBVIOUS
<1>1. \A s \in Shapes : /\ file[s] \in Seq(JobsOf(s))
                        /\ ToSet(file[s]) = JobsOf(s)
                        /\ \A m, n \in DOMAIN file[s] : file[s][m] = file[s][n] => m = n
  <2> SUFFICES ASSUME NEW s \in Shapes
               PROVE  /\ file[s] \in Seq(JobsOf(s))
                      /\ ToSet(file[s]) = JobsOf(s)
                      /\ \A m, n \in DOMAIN file[s] : file[s][m] = file[s][n] => m = n
    OBVIOUS
  <2>1. IsFiniteSet(Jobs) /\ JobsOf(s) \subseteq Jobs
    BY BatchAssumption DEF BatchAssumption, JobsOf
  <2>2. Cardinality(JobsOf(s)) \in Nat
    BY <2>1, FS_Subset, FS_CardinalityType
  <2>3. file[s] \in Orders(JobsOf(s))
    BY DEF Init
  <2> QED
    BY <2>2, <2>3 DEF Orders
<1>2. \A s \in Shapes : JobsOf(s) \subseteq Jobs /\ \A j \in JobsOf(s) : ShapeOf[j] = s
  BY DEF JobsOf
<1>3. FilesOK
  <2>1. \A s \in Shapes : file[s] \in Seq(Jobs)
    BY <1>1, <1>2
  <2>2. \A s \in Shapes : \A n \in DOMAIN file[s] : ShapeOf[file[s][n]] = s
    BY <1>1, <1>2 DEF ToSet
  <2>3. file \in [Shapes -> Seq(Jobs)]
    BY <2>1 DEF Init
  <2> QED BY <2>2, <2>3, <1>1 DEF FilesOK
<1>4. Jobs \subseteq Queued
  <2> SUFFICES ASSUME NEW j \in Jobs PROVE j \in Queued
    OBVIOUS
  <2>1. ShapeOf[j] \in Shapes /\ j \in JobsOf(ShapeOf[j])
    BY ConstantFacts DEF JobsOf
  <2> QED BY <2>1, <1>1 DEF Queued
<1>5. /\ InHand = {} /\ InAir = {} /\ Stored = {} /\ Gone = {} /\ dropped = {}
  BY DEF Init, InHand, InAir, Stored, Gone, ToSet
<1>6. HandsOK
  BY DEF Init, HandsOK, PcSet, AtRest
<1>7. ChannelOK
  BY DEF Init, ChannelOK
<1>8. PlacesOK
  BY <1>4, <1>5 DEF PlacesOK
<1>9. CountsOK
  BY <1>3, <1>5, ConstantFacts DEF Init, CountsOK, FilesOK, Queued, ToSet
<1>10. AheadAtStart \in Int
  <2>1. IsFiniteSet(Drivers) /\ Leaders \subseteq Drivers
    BY BatchAssumption DEF BatchAssumption, Leaders
  <2> QED BY <2>1, FS_Subset, FS_CardinalityType DEF AheadAtStart
<1>11. RestOK
  BY <1>10 DEF Init, RestOK, Exits, Phases
<1> QED
  BY <1>3, <1>6, <1>7, <1>8, <1>9, <1>11 DEF IInv

-----------------------------------------------------------------------------
(* Every step of a driver keeps it.                                        *)

LEMMA DriverKeeps ==
  ASSUME IInv, NEW d \in Drivers, DriverStep(d)
  PROVE  IInv'
<1> USE DEF Goto
<1>1. CASE OpenGate(d)
  <2>1. RestOK'
    BY <1>1 DEF OpenGate, IInv, RestOK, jobVars, sinkVars
  <2>2. pc[d] \notin Busyness /\ "pull" \notin Busyness /\ "pull" \in PcSet
    BY <1>1 DEF OpenGate, Busyness, PcSet, AtRest
  <2> QED BY <2>1, <2>2, <1>1, WalkKeeps DEF OpenGate
<1>2. CASE Arm(d)
  <2>1. RestOK'
    BY <1>2 DEF Arm, IInv, RestOK, jobVars, sinkVars
  <2>2. pc[d] \notin Busyness /\ "armed" \notin Busyness /\ "armed" \in PcSet
    BY <1>2 DEF Arm, Busyness, PcSet, AtRest
  <2> QED BY <2>1, <2>2, <1>2, WalkKeeps DEF Arm
<1>3. CASE Take(d)
  <2>1. PICK s \in Shapes : /\ TakesFrom(PoolOf[d], s)
                           /\ held' = [held EXCEPT ![d] = Head(file[s])]
                           /\ Pop(s)
    BY <1>3 DEF Take
  <2> DEFINE j == Head(file[s])
  <2>2. file[s] # <<>>
    BY <2>1 DEF TakesFrom, Ready
  <2>3. FilesOK' /\ j \in Jobs /\ j \in Queued /\ Queued' = Queued \ {j}
    BY <2>1, <2>2, PopFiles DEF IInv
  <2>4. j \notin InHand
    BY <2>3 DEF IInv, PlacesOK
  <2>5. pc[d] \notin Busyness
    BY <1>3 DEF Take, Busyness
  <2>6. HandsOK' /\ InHand' = InHand \cup {j}
    BY <2>1, <2>3, <2>4, <2>5, <1>3, GrabHands DEF IInv, Take
  <2>7. ChannelOK' /\ InAir' = InAir /\ Stored' = Stored /\ Gone' = Gone
    BY <1>3, SameSink DEF IInv, Take, sinkVars
  <2>8. dropped' = dropped
    BY <1>3 DEF Take, jobVars
  <2>9. PlacesOK'
    BY <2>3, <2>6, <2>7, <2>8 DEF IInv, PlacesOK
  <2>10. CountsOK'
    BY <2>3, <2>6, <1>3 DEF IInv, CountsOK, Take, jobVars
  <2>11. RestOK'
    BY <1>3 DEF IInv, RestOK, Take, jobVars, sinkVars
  <2> QED BY <2>3, <2>6, <2>7, <2>9, <2>10, <2>11 DEF IInv
<1>4. CASE Dry(d)
  <2>1. RestOK'
    BY <1>4 DEF Dry, Return, IInv, RestOK, Exits, jobVars, sinkVars
  <2>2. pc[d] \notin Busyness /\ "left" \notin Busyness /\ "left" \in PcSet
    BY <1>4 DEF Dry, Busyness, PcSet, AtRest
  <2> QED BY <2>1, <2>2, <1>4, WalkKeeps DEF Dry, Return
<1>5. CASE Answered(d)
  <2>1. RestOK'
    BY <1>5 DEF Answered, IInv, RestOK, jobVars, sinkVars
  <2>2. pc[d] \in Busyness /\ "send" \in Busyness /\ "send" \in PcSet
    BY <1>5 DEF Answered, Calling, Busyness, PcSet
  <2> QED BY <2>1, <2>2, <1>5, WalkKeeps DEF Answered
<1> DEFINE j == held[d]
<1>6. pc[d] \in Busyness => /\ j \in Jobs
                           /\ attempts[j] \in Nat /\ unavailable[j] \in Nat
                           /\ attempts[j] < MaxAttempts
                           /\ unavailable[j] < MaxUnavailable
                           /\ attempts \in [Jobs -> 0..MaxAttempts]
                           /\ unavailable \in [Jobs -> 0..MaxUnavailable]
  BY ConstantFacts DEF IInv, HandsOK, CountsOK, InHand, Busyness
<1>7. {"sleep", "backoff", "left", "pull"} \subseteq AtRest
  BY DEF AtRest
<1>8. CASE Busy(d)
  <2>1. RestOK'
    BY <1>8 DEF Busy, IInv, RestOK, jobVars, sinkVars
  <2>2. pc[d] \in Busyness
    BY <1>8 DEF Busy, Calling, Busyness
  <2>3. UNCHANGED <<attempts, unavailable, dropped, sinkVars>>
    BY <1>8 DEF Busy, jobVars
  <2> QED BY <2>1, <2>2, <2>3, <1>6, <1>7, <1>8, HandBackKeeps DEF Busy
<1>9. CASE Handover(d)
  <2>1. RestOK'
    BY <1>9 DEF Handover, Return, IInv, RestOK, Exits, jobVars, sinkVars
  <2>2. pc[d] \in Busyness
    BY <1>9 DEF Handover, Calling, Busyness
  <2>3. UNCHANGED <<attempts, unavailable, dropped, sinkVars>>
    BY <1>9 DEF Handover, jobVars
  <2> QED BY <2>1, <2>2, <2>3, <1>6, <1>7, <1>9, HandBackKeeps DEF Handover, Return
<1>10. CASE Unavailable(d)
  <2>1. pc[d] \in Busyness
    BY <1>10 DEF Unavailable, Calling, Busyness
  <2>2. /\ unavailable' \in [Jobs -> 0..MaxUnavailable]
        /\ unavailable'[j] = unavailable[j] + 1
        /\ \A i \in Jobs \ {j} : unavailable'[i] = unavailable[i]
        /\ attempts' = attempts
    BY <2>1, <1>6, <1>10, ConstantFacts DEF Unavailable
  <2>3. UNCHANGED sinkVars /\ LetGo(d)
    BY <1>10 DEF Unavailable
  <2>4. RestOK'
    BY <2>1, <1>6, <1>10 DEF Unavailable, IInv, RestOK, jobVars, sinkVars
  <2>5. CASE /\ dropped' = dropped \cup {j} /\ Goto(d, "pull") /\ UNCHANGED file
    BY <2>1, <2>2, <2>3, <2>4, <2>5, <1>6, GiveUpKeeps
  <2>6. CASE /\ ~GivenUp(unavailable[j] + 1, MaxUnavailable)
             /\ PushBack(j) /\ Goto(d, "backoff") /\ UNCHANGED dropped
    <3>1. unavailable'[j] < MaxUnavailable /\ attempts'[j] < MaxAttempts
      BY <2>1, <2>2, <2>6, <1>6, ConstantFacts DEF GivenUp
    <3> QED BY <2>1, <2>2, <2>3, <2>4, <2>6, <3>1, <1>6, <1>7, HandBackKeeps
  <2> QED BY <2>5, <2>6, <1>10 DEF Unavailable
<1>11. CASE Failed(d)
  <2>1. pc[d] \in Busyness
    BY <1>11 DEF Failed, Calling, Busyness
  <2>2. /\ attempts' \in [Jobs -> 0..MaxAttempts]
        /\ attempts'[j] = attempts[j] + 1
        /\ \A i \in Jobs \ {j} : attempts'[i] = attempts[i]
        /\ unavailable' = unavailable
    BY <2>1, <1>6, <1>11, ConstantFacts DEF Failed
  <2>3. UNCHANGED sinkVars /\ LetGo(d) /\ Goto(d, "pull")
    BY <1>11 DEF Failed
  <2>4. RestOK'
    BY <2>1, <1>6, <1>11 DEF Failed, IInv, RestOK, jobVars, sinkVars
  <2>5. CASE dropped' = dropped \cup {j} /\ UNCHANGED file
    BY <2>1, <2>2, <2>3, <2>4, <2>5, <1>6, GiveUpKeeps
  <2>6. CASE ~GivenUp(attempts[j] + 1, MaxAttempts) /\ PushBack(j) /\ UNCHANGED dropped
    <3>1. unavailable'[j] < MaxUnavailable /\ attempts'[j] < MaxAttempts
      BY <2>1, <2>2, <2>6, <1>6, ConstantFacts DEF GivenUp
    <3> QED BY <2>1, <2>2, <2>3, <2>4, <2>6, <3>1, <1>6, <1>7, HandBackKeeps
  <2> QED BY <2>5, <2>6, <1>11 DEF Failed
<1>12. CASE Wake(d)
  <2>1. RestOK'
    BY <1>12 DEF Wake, IInv, RestOK, jobVars, sinkVars
  <2>2. pc[d] \notin Busyness /\ "pull" \notin Busyness /\ "pull" \in PcSet
    BY <1>12 DEF Wake, Busyness, PcSet, AtRest
  <2> QED BY <2>1, <2>2, <1>12, WalkKeeps DEF Wake
<1>13. CASE Send(d)
  <2>1. pc[d] \in Busyness /\ LetGo(d) /\ Goto(d, "pull")
    BY <1>13 DEF Send, Busyness
  <2>2. /\ HandsOK' /\ j \in Jobs /\ j \in InHand /\ InHand' = InHand \ {j}
    BY <2>1, <1>7, LetGoHands DEF IInv
  <2>3. j \notin InAir
    BY <2>2 DEF IInv, PlacesOK
  <2>4. ChannelOK' /\ InAir' = InAir \cup {j}
    BY <2>2, <2>3, <1>13, ConstantFacts, SendChannel DEF IInv, Send
  <2>5. FilesOK' /\ Queued' = Queued
    BY <1>13, SameFiles DEF IInv, Send
  <2>6. Stored' = Stored /\ Gone' = Gone /\ dropped' = dropped
    BY <1>13 DEF Send, Stored, Gone, jobVars
  <2>7. PlacesOK'
    BY <2>2, <2>4, <2>5, <2>6 DEF IInv, PlacesOK
  <2>8. CountsOK'
    BY <2>2, <2>5, <1>13 DEF IInv, CountsOK, Send, jobVars
  <2>9. RestOK'
    BY <1>13 DEF IInv, RestOK, Send, jobVars
  <2> QED BY <2>2, <2>4, <2>5, <2>7, <2>8, <2>9 DEF IInv
<1>14. CASE SendClosed(d)
  <2>1. pc[d] \in Busyness /\ LetGo(d) /\ Goto(d, "left")
    BY <1>14 DEF SendClosed, StopsAtClosed, Return, Busyness
  <2>2. /\ HandsOK' /\ j \in Jobs /\ j \in InHand /\ InHand' = InHand \ {j}
    BY <2>1, <1>7, LetGoHands DEF IInv
  <2>3. lost' = lost \cup {[job |-> j, by |-> d]}
    BY <1>14 DEF SendClosed
  <2>4. Gone' = Gone \cup {j}
    <3> DEFINE x == [job |-> j, by |-> d]
    <3>1. x.job = j
      OBVIOUS
    <3>2. lost' = lost \cup {x}
      BY <2>3
    <3> HIDE DEF x, j
    <3>3. \A y : y \in Gone' <=> \E z \in lost' : y = z.job
      BY DEF Gone
    <3>4. \A y : y \in Gone <=> \E z \in lost : y = z.job
      BY DEF Gone
    <3> QED BY <3>1, <3>2, <3>3, <3>4
  <2>5. ChannelOK' /\ InAir' = InAir /\ Stored' = Stored
    BY <1>14 DEF IInv, SendClosed, ChannelOK, InAir, Stored
  <2>6. FilesOK' /\ Queued' = Queued /\ dropped' = dropped
    BY <1>14, SameFiles DEF IInv, SendClosed, jobVars
  <2>7. PlacesOK'
    BY <2>2, <2>4, <2>5, <2>6 DEF IInv, PlacesOK
  <2>8. CountsOK'
    BY <2>2, <2>6, <1>14 DEF IInv, CountsOK, SendClosed, jobVars
  <2>9. [job |-> j, by |-> d] \in [job : Jobs, by : Drivers \cup {Writer}]
    BY <2>2
  <2>10. RestOK'
    BY <2>3, <2>9, <1>14 DEF IInv, RestOK, SendClosed, StopsAtClosed, Return, Exits, jobVars
  <2> QED BY <2>2, <2>5, <2>6, <2>7, <2>8, <2>10 DEF IInv
<1>15. CASE Leave(d)
  <2>1. AheadWithout(d) \in Int
    BY DEF IInv, RestOK, AheadWithout
  <2>2. RestOK'
    BY <2>1, <1>15 DEF Leave, IInv, RestOK, jobVars, sinkVars
  <2>3. pc[d] \notin Busyness /\ "done" \notin Busyness /\ "done" \in PcSet
    BY <1>15 DEF Leave, Busyness, PcSet, AtRest
  <2> QED BY <2>2, <2>3, <1>15, WalkKeeps DEF Leave
<1> QED
  BY <1>1, <1>2, <1>3, <1>4, <1>5, <1>8, <1>9, <1>10, <1>11, <1>12, <1>13,
     <1>14, <1>15 DEF DriverStep

-----------------------------------------------------------------------------
(* Every other step keeps it.                                              *)

LEMMA SettleKeeps ==
  ASSUME IInv, Record
  PROVE  IInv'
<1> DEFINE a == Head(channel)
<1>1. /\ ChannelOK' /\ a \in [job : Jobs, pool : Pools]
      /\ a.job \in InAir /\ InAir' = InAir \ {a.job}
  BY RecordChannel DEF IInv, Record, Drains
<1>2. Stored' = Stored \cup {a.job}
  <2>1. written' = written \cup {a}
    BY DEF Record
  <2> HIDE DEF a
  <2> QED BY <2>1 DEF Stored
<1>3. FilesOK' /\ Queued' = Queued
  BY SameFiles DEF IInv, Record
<1>4. HandsOK' /\ InHand' = InHand
  BY SameHands DEF IInv, Record, driverVars
<1>5. Gone' = Gone /\ dropped' = dropped
  BY DEF Record, Gone, jobVars
<1>6. PlacesOK'
  BY <1>1, <1>2, <1>3, <1>4, <1>5 DEF IInv, PlacesOK
<1>7. CountsOK'
  BY <1>3, <1>4 DEF IInv, CountsOK, Record, jobVars
<1>8. RestOK'
  BY <1>1 DEF IInv, RestOK, Record, driverVars, jobVars
<1> QED
  BY <1>1, <1>3, <1>4, <1>6, <1>7, <1>8 DEF IInv

(* The receiver goes: what was in the channel is lost.                     *)
LEMMA CloseKeeps ==
  ASSUME IInv, CloseReceiver, phase' \in Phases
  PROVE  IInv'
<1>1. ChannelOK' /\ InAir' = {}
  BY DEF CloseReceiver, ChannelOK, InAir, ToSet
<1>2. \A a \in ToSet(channel) : a.job \in Jobs
  <2> DEFINE A == [job : Jobs, pool : Pools]
  <2>1. channel \in Seq(A)
    BY DEF IInv, ChannelOK
  <2> HIDE DEF A
  <2>2. \A n \in DOMAIN channel : channel[n] \in A
    BY <2>1
  <2> QED BY <2>2 DEF ToSet, A
<1> DEFINE R(a) == [job |-> a.job, by |-> Writer]
           L == {R(a) : a \in ToSet(channel)}
<1>3. lost' = lost \cup L
  BY DEF CloseReceiver
<1>4. L \subseteq [job : Jobs, by : Drivers \cup {Writer}]
  <2>1. \A a \in ToSet(channel) : R(a) \in [job : Jobs, by : Drivers \cup {Writer}]
    BY <1>2
  <2> HIDE DEF R
  <2> QED BY <2>1
<1>5. Gone' = Gone \cup InAir
  <2>1. \A y : (\E z \in L : y = z.job) <=> y \in InAir
    <3>1. \A a : R(a).job = a.job
      OBVIOUS
    <3> HIDE DEF R
    <3>2. \A y : y \in InAir <=> \E a \in ToSet(channel) : y = a.job
      BY DEF InAir
    <3>3. \A z : z \in L <=> \E a \in ToSet(channel) : z = R(a)
      OBVIOUS
    <3> HIDE DEF L
    <3> QED BY <3>1, <3>2, <3>3
  <2> HIDE DEF L
  <2>2. \A y : y \in Gone' <=> \E z \in lost' : y = z.job
    BY DEF Gone
  <2>3. \A y : y \in Gone <=> \E z \in lost : y = z.job
    BY DEF Gone
  <2> QED BY <1>3, <2>1, <2>2, <2>3
<1>6. FilesOK' /\ Queued' = Queued
  BY SameFiles DEF IInv, CloseReceiver
<1>7. HandsOK' /\ InHand' = InHand
  BY SameHands DEF IInv, CloseReceiver, driverVars
<1>8. Stored' = Stored /\ dropped' = dropped
  BY DEF CloseReceiver, Stored, jobVars
<1>9. PlacesOK'
  BY <1>1, <1>5, <1>6, <1>7, <1>8 DEF IInv, PlacesOK
<1>10. CountsOK'
  BY <1>6, <1>7 DEF IInv, CountsOK, CloseReceiver, jobVars
<1> HIDE DEF L
<1>11. RestOK'
  BY <1>3, <1>4 DEF IInv, RestOK, CloseReceiver, driverVars, jobVars
<1> QED
  BY <1>1, <1>6, <1>7, <1>9, <1>10, <1>11 DEF IInv

(* Nothing but the phase and the signal changes.                           *)
LEMMA StandKeeps ==
  ASSUME IInv, UNCHANGED <<file, driverVars, jobVars, ahead, sinkVars>>,
         phase' \in Phases, stopping' \in BOOLEAN
  PROVE  IInv'
<1>1. FilesOK' /\ Queued' = Queued
  BY SameFiles DEF IInv
<1>2. HandsOK' /\ InHand' = InHand
  BY SameHands DEF IInv, driverVars
<1>3. ChannelOK' /\ InAir' = InAir /\ Stored' = Stored /\ Gone' = Gone
  BY SameSink DEF IInv, sinkVars
<1>4. PlacesOK'
  BY <1>1, <1>2, <1>3 DEF IInv, PlacesOK, jobVars
<1>5. CountsOK'
  BY <1>1, <1>2 DEF IInv, CountsOK, jobVars
<1>6. RestOK'
  BY DEF IInv, RestOK, driverVars, jobVars, sinkVars
<1> QED
  BY <1>1, <1>2, <1>3, <1>4, <1>5, <1>6 DEF IInv

LEMMA InvStep == IInv /\ [Next]_vars => IInv'
<1> SUFFICES ASSUME IInv, [Next]_vars PROVE IInv'
  OBVIOUS
<1>0. phase \in Phases /\ stopping \in BOOLEAN
      /\ {"joined", "broken", "cut", "killed"} \subseteq Phases
  BY DEF IInv, RestOK, Phases
<1>1. CASE \E d \in Drivers : DriverStep(d)
  BY <1>1, DriverKeeps
<1>2. CASE Record
  BY <1>2, SettleKeeps
<1>3. CASE EndOfStream
  BY <1>0, <1>3, StandKeeps DEF EndOfStream
<1>4. CASE RecordFails
  BY <1>0, <1>4, CloseKeeps DEF RecordFails
<1>5. CASE Cut
  BY <1>0, <1>5, CloseKeeps DEF Cut
<1>6. CASE Signal
  <2>1. /\ UNCHANGED <<file, driverVars, jobVars, ahead, sinkVars>>
        /\ phase' \in Phases /\ stopping' \in BOOLEAN
    BY <1>0, <1>6 DEF Signal
  <2> QED BY <2>1, StandKeeps
<1>7. CASE UNCHANGED vars
  BY <1>0, <1>7, StandKeeps DEF vars
<1> QED
  BY <1>1, <1>2, <1>3, <1>4, <1>5, <1>6, <1>7 DEF Next, WriterStep, Finished

(* Every job of the corpus is in one place, and each driver's step agrees    *)
(* with the counts and the files it keeps (run_batch, summary.rs).           *)
THEOREM Invariance == Spec => []IInv
<1>1. Init => IInv
  BY InvInit
<1>2. IInv /\ [Next]_vars => IInv'
  BY InvStep
<1> QED
  BY <1>1, <1>2, PTL DEF Spec

-----------------------------------------------------------------------------
(* What it is for.                                                         *)

(* The state of the batch is well typed, whatever its size: the counters   *)
(* of a job never pass the limits that give it up.                         *)
THEOREM TypeCorrect == Spec => []TypeOK
<1>1. IInv => TypeOK
  BY DEF IInv, FilesOK, HandsOK, ChannelOK, CountsOK, RestOK, TypeOK
<1> QED
  BY <1>1, Invariance, PTL

(* No decision leaves a batch unaccounted for, for any number of jobs,     *)
(* drivers and doors.                                                      *)
THEOREM NothingIsLost == Spec => []NoJobLost
<1>1. IInv => NoJobLost
  BY DEF IInv, PlacesOK, NoJobLost
<1> QED
  BY <1>1, Invariance, PTL

(* No decision is in two hands, or in a file and a hand, or paid twice.    *)
THEOREM NothingIsTwice == Spec => []NoJobTwice
<1>1. IInv => NoJobTwice
  BY DEF IInv, FilesOK, HandsOK, ChannelOK, PlacesOK, NoJobTwice
<1> QED
  BY <1>1, Invariance, PTL

-----------------------------------------------------------------------------
(* The gate of the ranks.                                                  *)

StillIn == {d \in Leaders : pc[d] # "done"}

(* The counter is exact, and a door past its gate has read it at zero,     *)
(* where it stays.                                                         *)
RankInv ==
  /\ ahead = Cardinality(StillIn)
  /\ ByRank => \A d \in Drivers : Rank(PoolOf[d]) > 0 /\ pc[d] # "gate" => ahead = 0

LEMMA LeadersFinite ==
  /\ IsFiniteSet(StillIn)
  /\ Cardinality(StillIn) \in Nat
  /\ Cardinality(StillIn) = 0 <=> StillIn = {}
<1>1. IsFiniteSet(Drivers) /\ StillIn \subseteq Drivers
  BY BatchAssumption DEF BatchAssumption, Leaders, StillIn
<1>2. IsFiniteSet(StillIn)
  BY <1>1, FS_Subset
<1> QED
  BY <1>2, FS_CardinalityType, FS_EmptySet

LEMMA RankValues == \A p : Rank(p) \in {0, 1}
BY DEF Rank

(* A driver that goes on without leaving the count.                        *)
LEMMA WalkRank ==
  ASSUME IInv, RankInv, NEW d \in Drivers, NEW to \in PcSet \ {"done", "gate"},
         pc[d] # "done", Goto(d, to), UNCHANGED ahead,
         pc[d] = "gate" => ahead = 0
  PROVE  RankInv'
<1>1. /\ pc' \in [Drivers -> PcSet] /\ pc'[d] = to
      /\ \A e \in Drivers \ {d} : pc'[e] = pc[e]
  BY DEF IInv, HandsOK, Goto
<1>2. StillIn' = StillIn
  BY <1>1 DEF StillIn, Leaders
<1> QED
  BY <1>1, <1>2 DEF RankInv

LEMMA RankInit == Init => RankInv
<1> SUFFICES ASSUME Init PROVE RankInv
  OBVIOUS
<1>1. StillIn = Leaders
  BY DEF Init, StillIn, Leaders
<1> QED
  BY <1>1, RankValues DEF Init, RankInv, AheadAtStart

LEMMA RankStep == IInv /\ RankInv /\ [Next]_vars => RankInv'
<1> SUFFICES ASSUME IInv, RankInv, [Next]_vars PROVE RankInv'
  OBVIOUS
<1>1. ASSUME NEW d \in Drivers, OpenGate(d) \/ Arm(d) \/ Take(d) \/ Dry(d)
      PROVE  RankInv'
  BY <1>1, WalkRank DEF OpenGate, Arm, Take, Dry, Return, PcSet, AtRest
<1>2. ASSUME NEW d \in Drivers, Answered(d) \/ Busy(d) \/ Handover(d)
      PROVE  RankInv'
  BY <1>2, WalkRank DEF Answered, Busy, Handover, Return, Calling, PcSet, AtRest
<1>3. ASSUME NEW d \in Drivers, Unavailable(d) PROVE RankInv'
  BY <1>3, WalkRank DEF Unavailable, Calling, PcSet, AtRest
<1>4. ASSUME NEW d \in Drivers, Failed(d) \/ Wake(d) PROVE RankInv'
  BY <1>4, WalkRank DEF Failed, Wake, Calling, PcSet, AtRest
<1>5. ASSUME NEW d \in Drivers, Send(d) \/ SendClosed(d) PROVE RankInv'
  BY <1>5, WalkRank DEF Send, SendClosed, StopsAtClosed, Return, PcSet, AtRest
<1>6. ASSUME NEW d \in Drivers, Leave(d) PROVE RankInv'
  <2>1. /\ pc[d] = "left" /\ pc'[d] = "done"
        /\ \A e \in Drivers \ {d} : pc'[e] = pc[e]
        /\ ahead' = AheadWithout(d)
    BY <1>6 DEF Leave, Goto, IInv, HandsOK
  <2>2. CASE Rank(PoolOf[d]) = 0
    <3>1. d \in StillIn /\ StillIn' = StillIn \ {d}
      BY <2>1, <2>2 DEF StillIn, Leaders
    <3>2. Cardinality(StillIn') = Cardinality(StillIn) - 1
      BY <3>1, LeadersFinite, FS_RemoveElement
    <3>3. ahead # 0
      BY <3>1, LeadersFinite DEF RankInv
    <3>4. \A e \in Drivers : ByRank /\ Rank(PoolOf[e]) > 0 => pc[e] = "gate"
      BY <3>3 DEF RankInv
    <3>5. \A e \in Drivers : ByRank /\ Rank(PoolOf[e]) > 0 => pc'[e] = "gate"
      BY <3>4, <2>1, <2>2
    <3>6. ahead' = Cardinality(StillIn')
      BY <2>1, <2>2, <3>2 DEF RankInv, AheadWithout
    <3> QED BY <3>5, <3>6 DEF RankInv
  <2>3. CASE Rank(PoolOf[d]) # 0
    <3>1. StillIn' = StillIn
      BY <2>1, <2>3 DEF StillIn, Leaders
    <3> QED BY <2>1, <2>3, <3>1 DEF RankInv, AheadWithout
  <2> QED BY <2>2, <2>3
<1>7. CASE UNCHANGED <<pc, ahead>>
  BY <1>7 DEF RankInv, StillIn
<1>8. CASE WriterStep \/ RecordFails \/ Cut \/ Signal \/ UNCHANGED vars
  BY <1>7, <1>8 DEF WriterStep, Record, EndOfStream, RecordFails, Cut, CloseReceiver,
       Signal, vars, driverVars
<1> QED
  BY <1>1, <1>2, <1>3, <1>4, <1>5, <1>6, <1>8 DEF Next, DriverStep, Finished

(* For any number of drivers of any doors, no free key is spent while the  *)
(* subscription can still take a job.                                      *)
THEOREM RanksAreServedInOrder == Spec => []RankHolds
<1>1. Init => IInv /\ RankInv
  BY InvInit, RankInit
<1>2. (IInv /\ RankInv) /\ [Next]_vars => (IInv /\ RankInv)'
  BY InvStep, RankStep
<1>3. RankInv => RankHolds
  <2> SUFFICES ASSUME RankInv, ByRank, NEW d \in Drivers, NEW e \in Drivers,
                      Rank(PoolOf[d]) > 0, pc[d] # "gate", e \in Leaders
               PROVE  pc[e] = "done"
    BY DEF RankHolds
  <2>1. StillIn = {}
    BY LeadersFinite DEF RankInv
  <2> QED BY <2>1 DEF StillIn
<1> QED
  BY <1>1, <1>2, <1>3, PTL DEF Spec

-----------------------------------------------------------------------------
(* How a batch ends.                                                       *)

(* An answer is lost only with the receiver, and the batch joins only when *)
(* nobody works and nothing is on its way.                                 *)
EndInv ==
  /\ phase \in {"draining", "joined"} => lost = {}
  /\ phase = "joined" => channel = <<>> /\ SendersGone

LEMMA EndStep == IInv /\ EndInv /\ [Next]_vars => EndInv'
<1> SUFFICES ASSUME IInv, EndInv, [Next]_vars PROVE EndInv'
  OBVIOUS
<1>1. ASSUME NEW d \in Drivers, DriverStep(d) PROVE EndInv'
  <2>1. pc[d] # "done"
    BY <1>1 DEF DriverStep, OpenGate, Arm, Take, Dry, Answered, Busy, Handover,
       Unavailable, Failed, Wake, Send, SendClosed, Leave, Calling
  <2>2. phase # "joined"
    BY <2>1 DEF EndInv, SendersGone
  <2>3. phase' = phase
    BY <1>1 DEF DriverStep, OpenGate, Arm, Take, Dry, Answered, Busy, Handover,
       Unavailable, Failed, Wake, Send, SendClosed, Leave
  <2>4. phase \in {"broken", "cut"} \/ lost' = lost
    BY <1>1 DEF DriverStep, OpenGate, Arm, Take, Dry, Answered, Busy, Handover,
       Unavailable, Failed, Wake, Send, SendClosed, Leave, sinkVars
  <2> QED BY <2>2, <2>3, <2>4 DEF EndInv
<1>2. CASE Record
  BY <1>2 DEF Record, Drains, EndInv
<1>3. CASE EndOfStream
  BY <1>3 DEF EndOfStream, StreamEnds, EndInv, SendersGone, driverVars, sinkVars
<1>4. CASE RecordFails \/ Cut
  BY <1>4 DEF RecordFails, Cut, EndInv
<1>5. CASE Signal
  BY <1>5 DEF Signal, EndInv, SendersGone, driverVars, sinkVars
<1>6. CASE UNCHANGED vars
  BY <1>6 DEF vars, EndInv, SendersGone, driverVars, sinkVars
<1> QED
  BY <1>1, <1>2, <1>3, <1>4, <1>5, <1>6 DEF Next, WriterStep, Finished

LEMMA EndInvariance == Spec => [](IInv /\ EndInv)
<1>1. Init => IInv /\ EndInv
  BY InvInit DEF Init, EndInv
<1>2. (IInv /\ EndInv) /\ [Next]_vars => (IInv /\ EndInv)'
  BY InvStep, EndStep
<1> QED
  BY <1>1, <1>2, PTL DEF Spec

(* A batch that ends by itself, on a signal too, has written every answer  *)
(* it paid for; the rest is given up or back in its file.                  *)
THEOREM CleanEndOwesNothing == Spec => []JoinedWroteAll
<1>1. IInv /\ EndInv => JoinedWroteAll
  <2> SUFFICES ASSUME IInv, EndInv, phase = "joined"
               PROVE  /\ InHand = {} /\ InAir = {} /\ Gone = {}
                      /\ Jobs = Queued \cup Stored \cup dropped
    BY DEF JoinedWroteAll
  <2>1. InHand = {}
    BY DEF IInv, HandsOK, InHand, EndInv, SendersGone
  <2>2. InAir = {} /\ Gone = {}
    BY DEF EndInv, InAir, Gone, ToSet
  <2>3. Queued \subseteq Jobs /\ Stored \subseteq Jobs /\ dropped \subseteq Jobs
    BY DEF IInv, FilesOK, RestOK, Queued, Stored, ToSet
  <2> QED BY <2>1, <2>2, <2>3 DEF IInv, PlacesOK
<1> QED
  BY <1>1, EndInvariance, PTL

-----------------------------------------------------------------------------
(* What a driver does once it has a reason to stop.                        *)

(* A driver that returned, or that lost an answer, pulls no more; one that *)
(* took a job after the signal is past the last reading of STOPPING.       *)
StopInv ==
  /\ \A d \in Drivers : exit[d] # "none" => pc[d] \in {"left", "done"}
  /\ \A x \in lost : x.by \in Drivers => pc[x.by] \in {"left", "done"}
  /\ \A d \in late : stopping /\ pc[d] # "armed"
  /\ OneLostAnswerPerDriver

(* A step of a driver that returns for no reason and loses nothing.        *)
LEMMA WalkStops ==
  ASSUME IInv, StopInv, NEW d \in Drivers, NEW to \in PcSet,
         Goto(d, to), UNCHANGED <<lost, stopping, exit>>,
         pc[d] = "done" => to = "done", pc[d] = "left" => to = "done",
         to = "armed" => ~stopping,
         late' = late \/ (late' = late \cup {d} /\ stopping /\ to # "armed")
  PROVE  StopInv'
<1>1. /\ pc'[d] = to /\ \A e \in Drivers \ {d} : pc'[e] = pc[e]
      /\ late' \subseteq Drivers
  BY DEF IInv, HandsOK, RestOK, Goto
<1>2. (\A e \in Drivers : exit[e] # "none" => pc[e] \in {"left", "done"})'
  BY <1>1 DEF StopInv
<1>3. (\A x \in lost : x.by \in Drivers => pc[x.by] \in {"left", "done"})'
  BY <1>1 DEF StopInv
<1>4. (\A e \in late : stopping /\ pc[e] # "armed")'
  BY <1>1 DEF StopInv, IInv, RestOK
<1>5. OneLostAnswerPerDriver'
  BY DEF StopInv, OneLostAnswerPerDriver
<1> QED
  BY <1>2, <1>3, <1>4, <1>5 DEF StopInv

LEMMA ReturnStops ==
  ASSUME IInv, StopInv, NEW d \in Drivers, NEW why, Return(d, why),
         UNCHANGED <<late, stopping>>, pc[d] \notin {"left", "done"},
         lost' = lost \/ \E j : lost' = lost \cup {[job |-> j, by |-> d]}
  PROVE  StopInv'
<1>1. /\ pc'[d] = "left" /\ \A e \in Drivers \ {d} : pc'[e] = pc[e] /\ exit'[e] = exit[e]
  BY DEF IInv, HandsOK, RestOK, Return, Goto
<1>2. (\A e \in Drivers : exit[e] # "none" => pc[e] \in {"left", "done"})'
  BY <1>1 DEF StopInv
<1>3. \A x \in lost' : x \in lost \/ x.by = d
  OBVIOUS
<1>4. (\A x \in lost : x.by \in Drivers => pc[x.by] \in {"left", "done"})'
  BY <1>1, <1>3 DEF StopInv
<1>5. (\A e \in late : stopping /\ pc[e] # "armed")'
  BY <1>1 DEF StopInv, IInv, RestOK
<1>6. \A x \in lost : x.by # d
  BY DEF StopInv
<1>7. OneLostAnswerPerDriver'
  BY <1>6 DEF StopInv, OneLostAnswerPerDriver
<1> QED
  BY <1>2, <1>4, <1>5, <1>7 DEF StopInv

LEMMA StopStep == IInv /\ StopInv /\ [Next]_vars => StopInv'
<1> SUFFICES ASSUME IInv, StopInv, [Next]_vars PROVE StopInv'
  OBVIOUS
<1>1. ASSUME NEW d \in Drivers, OpenGate(d) \/ Arm(d) \/ Take(d)
      PROVE  StopInv'
  BY <1>1, WalkStops DEF OpenGate, Arm, Take, MayTake, sinkVars, PcSet, AtRest
<1>2. ASSUME NEW d \in Drivers, Answered(d) \/ Busy(d) \/ Wake(d) \/ Leave(d)
      PROVE  StopInv'
  BY <1>2, WalkStops DEF Answered, Busy, Wake, Leave, Calling, sinkVars, PcSet, AtRest
<1>3. ASSUME NEW d \in Drivers, Unavailable(d) PROVE StopInv'
  BY <1>3, WalkStops DEF Unavailable, Calling, sinkVars, PcSet, AtRest
<1>4. ASSUME NEW d \in Drivers, Failed(d) \/ Send(d) PROVE StopInv'
  BY <1>4, WalkStops DEF Failed, Send, Calling, sinkVars, PcSet, AtRest
<1>5. ASSUME NEW d \in Drivers, Dry(d) \/ Handover(d) \/ SendClosed(d)
      PROVE  StopInv'
  BY <1>5, ReturnStops DEF Dry, Handover, SendClosed, StopsAtClosed, Calling, sinkVars
<1>6. CASE RecordFails \/ Cut
  <2>1. /\ UNCHANGED <<pc, exit, late, stopping>>
        /\ \A x \in lost' : x \in lost \/ x.by = Writer
    BY <1>6 DEF RecordFails, Cut, CloseReceiver, driverVars
  <2>2. Writer \notin Drivers
    BY BatchAssumption DEF BatchAssumption
  <2> QED BY <2>1, <2>2 DEF StopInv, OneLostAnswerPerDriver
<1>7. CASE WriterStep \/ Signal \/ UNCHANGED vars
  BY <1>7 DEF WriterStep, Record, EndOfStream, Signal, vars, driverVars, sinkVars,
     StopInv, OneLostAnswerPerDriver
<1> QED
  BY <1>1, <1>2, <1>3, <1>4, <1>5, <1>6, <1>7 DEF Next, DriverStep, Finished

LEMMA StopInvariance == Spec => [](IInv /\ StopInv)
<1>1. Init => IInv /\ StopInv
  BY InvInit DEF Init, StopInv, OneLostAnswerPerDriver
<1>2. (IInv /\ StopInv) /\ [Next]_vars => (IInv /\ StopInv)'
  BY InvStep, StopStep
<1> QED
  BY <1>1, <1>2, PTL DEF Spec

(* A driver whose receiver is gone pays for one more answer at most, then  *)
(* returns (pull, summary.rs:597-599).                                    *)
THEOREM OneAnswerLostAtMost == Spec => []OneLostAnswerPerDriver
<1>1. StopInv => OneLostAnswerPerDriver
  BY DEF StopInv
<1> QED
  BY <1>1, StopInvariance, PTL

(* After a signal a driver takes one job at most (pull, summary.rs:581).   *)
THEOREM NoSecondTake == Spec => LateTakesOnce
<1>1. IInv /\ StopInv /\ [Next]_vars => \A d \in late : held'[d] \in {held[d], NoJob}
  <2> SUFFICES ASSUME IInv, StopInv, [Next]_vars, NEW d \in late
               PROVE  held'[d] \in {held[d], NoJob}
    OBVIOUS
  <2>1. d \in Drivers /\ pc[d] # "armed" /\ held \in [Drivers -> Jobs \cup {NoJob}]
    BY DEF IInv, RestOK, HandsOK, StopInv
  <2>2. ASSUME NEW e \in Drivers, Take(e) PROVE held'[d] \in {held[d], NoJob}
    BY <2>1, <2>2 DEF Take
  <2>3. ASSUME NEW e \in Drivers, LetGo(e) PROVE held'[d] \in {held[d], NoJob}
    BY <2>1, <2>3 DEF LetGo
  <2>4. CASE UNCHANGED held
    BY <2>4
  <2> QED
    BY <2>2, <2>3, <2>4 DEF Next, DriverStep, WriterStep, Record, EndOfStream, RecordFails,
       Cut, CloseReceiver, Signal, Finished, vars, driverVars, OpenGate, Arm, Dry, Answered,
       Busy, Handover, Unavailable, Failed, Wake, Send, SendClosed, Leave
<1>2. IInv /\ StopInv /\ [Next]_vars
        => [\A d \in late : held'[d] \in {held[d], NoJob}]_vars
  BY <1>1
<1> QED
  BY <1>2, StopInvariance, PTL DEF Spec, LateTakesOnce

(* A refusal moves no counter of the job, and puts it back where its file  *)
(* serves it next (pull, summary.rs:601-609).                 *)
THEOREM RefusalsAreFree == Spec => RefusalCostsNothing
<1> DEFINE Free == \A d \in Drivers :
             pc[d] = "call" /\ (pc'[d] = "sleep" \/ exit'[d] = "handover")
               => /\ UNCHANGED <<attempts, unavailable, dropped>>
                  /\ Head(file'[ShapeOf[held[d]]]) = held[d]
<1>1. IInv /\ StopInv /\ [Next]_vars => Free
  <2> SUFFICES ASSUME IInv, StopInv, [Next]_vars, NEW d \in Drivers, pc[d] = "call",
                      pc'[d] = "sleep" \/ exit'[d] = "handover"
               PROVE  /\ UNCHANGED <<attempts, unavailable, dropped>>
                      /\ Head(file'[ShapeOf[held[d]]]) = held[d]
    OBVIOUS
  <2>1. /\ exit[d] = "none" /\ held[d] \in Jobs
        /\ pc \in [Drivers -> PcSet] /\ exit \in [Drivers -> Exits]
    BY DEF StopInv, IInv, HandsOK, RestOK
  <2>2. CASE Busy(d) \/ Handover(d)
    <3>1. ShapeOf[held[d]] \in Shapes /\ file \in [Shapes -> Seq(Jobs)]
      BY <2>1, ConstantFacts DEF IInv, FilesOK
    <3>2. file'[ShapeOf[held[d]]] = <<held[d]>> \o file[ShapeOf[held[d]]]
      BY <2>2, <3>1 DEF Busy, Handover, PushFront
    <3>3. Head(file'[ShapeOf[held[d]]]) = held[d]
      BY <2>1, <3>1, <3>2
    <3> QED BY <2>2, <3>3 DEF Busy, Handover, jobVars
  <2>3. ASSUME NEW e \in Drivers, DriverStep(e), e # d PROVE FALSE
    <3>1. pc'[d] = pc[d]
      BY <2>1, <2>3 DEF DriverStep, OpenGate, Arm, Take, Dry, Answered, Busy, Handover,
         Unavailable, Failed, Wake, Send, SendClosed, StopsAtClosed, Leave, Return, Goto
    <3>2. exit'[d] = exit[d]
      BY <2>1, <2>3 DEF DriverStep, OpenGate, Arm, Take, Dry, Answered, Busy, Handover,
         Unavailable, Failed, Wake, Send, SendClosed, StopsAtClosed, Leave, Return
    <3> QED BY <2>1, <3>1, <3>2
  <2>4. CASE Answered(d) \/ Unavailable(d) \/ Failed(d)
    <3>1. pc'[d] # "sleep" /\ exit' = exit
      BY <2>1, <2>4 DEF Answered, Unavailable, Failed, Goto
    <3> QED BY <2>1, <3>1
  <2>5. CASE UNCHANGED <<pc, exit>>
    BY <2>1, <2>5
  <2>6. CASE DriverStep(d)
    BY <2>1, <2>2, <2>4, <2>6 DEF DriverStep, OpenGate, Arm, Take, Dry, Wake, Send,
       SendClosed, Leave
  <2> QED
    BY <2>3, <2>5, <2>6 DEF Next, WriterStep, Record, EndOfStream, RecordFails, Cut,
       CloseReceiver, Signal, Finished, vars, driverVars
<1>2. IInv /\ StopInv /\ [Next]_vars => [Free]_vars
  BY <1>1
<1> QED
  BY <1>2, StopInvariance, PTL DEF Spec, RefusalCostsNothing

-----------------------------------------------------------------------------
(* The batch implements a backlog of decisions.                            *)

Sending == {held[d] : d \in {e \in Drivers : pc[e] = "send"}}

LEMMA PaidFacts ==
  ASSUME IInv
  PROVE  /\ Paid = InAir \cup Sending
         /\ Sending \subseteq InHand
         /\ Paid \cap (Stored \cup dropped \cup Gone) = {}
<1>1. Sending \subseteq InHand
  BY DEF IInv, HandsOK, Sending, InHand
<1> QED
  BY <1>1 DEF IInv, PlacesOK, Paid, Sending

(* The status of a decision, read off the sets, before a step and after.   *)
LEMMA StatusFacts ==
  ASSUME IInv, NEW j
  PROVE  /\ j \in Stored  => StatusOf(j) = "written"
         /\ j \in dropped => StatusOf(j) = "dropped"
         /\ j \in Gone    => StatusOf(j) = "lost"
         /\ j \in Paid    => StatusOf(j) = "paid"
         /\ j \notin Stored \cup dropped \cup Gone \cup Paid => StatusOf(j) = "waiting"
<1>1. /\ Paid \cap (Stored \cup dropped \cup Gone) = {}
      /\ Stored \cap (dropped \cup Gone) = {}
      /\ dropped \cap Gone = {}
  BY PaidFacts DEF IInv, PlacesOK
<1> QED
  BY <1>1 DEF StatusOf

LEMMA StatusFactsNext ==
  ASSUME IInv', NEW j
  PROVE  /\ j \in Stored'  => StatusOf(j)' = "written"
         /\ j \in dropped' => StatusOf(j)' = "dropped"
         /\ j \in Gone'    => StatusOf(j)' = "lost"
         /\ j \in Paid'    => StatusOf(j)' = "paid"
         /\ j \notin Stored' \cup dropped' \cup Gone' \cup Paid' => StatusOf(j)' = "waiting"
<1>1. Paid' = InAir' \cup Sending' /\ Sending' \subseteq InHand'
  BY DEF IInv, HandsOK, Sending, InHand, Paid
<1>2. /\ Paid' \cap (Stored' \cup dropped' \cup Gone') = {}
      /\ Stored' \cap (dropped' \cup Gone') = {}
      /\ dropped' \cap Gone' = {}
  BY <1>1 DEF IInv, PlacesOK
<1> QED
  BY <1>2 DEF StatusOf

(* A driver that neither starts nor ends a send leaves Sending alone.      *)
LEMMA SameSending ==
  ASSUME HandsOK, NEW d \in Drivers, NEW to, Goto(d, to),
         pc[d] # "send", to # "send",
         \A e \in Drivers \ {d} : held'[e] = held[e]
  PROVE  Sending' = Sending
<1>1. /\ pc'[d] # "send"
      /\ \A e \in Drivers \ {d} : pc'[e] = pc[e]
  BY DEF HandsOK, Goto
<1> QED
  BY <1>1 DEF Sending

SameStatus == \A j \in Jobs : StatusOf(j)' = StatusOf(j)

LEMMA StatusStands ==
  ASSUME IInv, IInv', Stored' = Stored, dropped' = dropped, Gone' = Gone, Paid' = Paid
  PROVE  SameStatus
BY StatusFacts, StatusFactsNext DEF SameStatus

(* The steps of a driver, as the decision sees them.                       *)
LEMMA DriverStatus ==
  ASSUME IInv, IInv', NEW d \in Drivers, DriverStep(d)
  PROVE  \/ SameStatus
         \/ \E j \in Jobs : /\ StatusOf(j) = "waiting"
                           /\ StatusOf(j)' \in {"paid", "dropped"}
                           /\ \A i \in Jobs \ {j} : StatusOf(i)' = StatusOf(i)
         \/ \E j \in Jobs : /\ phase \in {"broken", "cut"}
                           /\ StatusOf(j) = "paid" /\ StatusOf(j)' = "lost"
                           /\ \A i \in Jobs \ {j} : StatusOf(i)' = StatusOf(i)
<1>a. PICK j : j = held[d]
  OBVIOUS
<1> USE <1>a
<1>0. Paid = InAir \cup Sending /\ Paid' = InAir' \cup Sending'
  BY DEF Paid, Sending
<1>1. HandsOK /\ (pc[d] \in Busyness => j \in Jobs /\ j \in InHand)
  BY DEF IInv, HandsOK, Busyness, InHand
<1>2. pc[d] = "call" => j \notin Stored \cup dropped \cup Gone \cup Paid
  <2> SUFFICES ASSUME pc[d] = "call" PROVE j \notin Stored \cup dropped \cup Gone \cup Paid
    OBVIOUS
  <2>1. j \in InHand
    BY <1>1 DEF Busyness
  <2>2. j \notin Sending
    BY DEF IInv, HandsOK, Sending
  <2> QED BY <2>1, <2>2, <1>0 DEF IInv, PlacesOK
<1>3. CASE OpenGate(d) \/ Arm(d) \/ Take(d) \/ Dry(d) \/ Busy(d) \/ Handover(d)
           \/ Wake(d) \/ Leave(d)
  <2>1. Sending' = Sending
    BY <1>1, <1>3, SameSending DEF HandsOK, OpenGate, Arm, Take, Dry, Busy, Handover,
       Wake, Leave, Return, LetGo, Calling
  <2>2. InAir' = InAir /\ Stored' = Stored /\ Gone' = Gone /\ dropped' = dropped
    BY <1>3 DEF OpenGate, Arm, Take, Dry, Busy, Handover, Wake, Leave, jobVars,
       sinkVars, InAir, Stored, Gone
  <2> QED BY <2>1, <2>2, <1>0, StatusStands
<1>4. CASE Answered(d)
  <2>1. /\ pc[d] = "call" /\ pc'[d] = "send" /\ held' = held
        /\ \A e \in Drivers \ {d} : pc'[e] = pc[e]
    BY <1>1, <1>4 DEF Answered, Calling, Goto, HandsOK
  <2>2. Sending' = Sending \cup {j}
    BY <2>1 DEF Sending
  <2>3. InAir' = InAir /\ Stored' = Stored /\ Gone' = Gone /\ dropped' = dropped
    BY <1>4 DEF Answered, jobVars, sinkVars, InAir, Stored, Gone
  <2>4. Paid' = Paid \cup {j} /\ j \in Jobs
    BY <2>1, <2>2, <2>3, <1>0, <1>1 DEF Busyness
  <2>5. StatusOf(j) = "waiting" /\ StatusOf(j)' = "paid"
    BY <2>1, <2>4, <1>2, StatusFacts, StatusFactsNext
  <2>6. \A i \in Jobs \ {j} : StatusOf(i)' = StatusOf(i)
    BY <2>3, <2>4, StatusFacts, StatusFactsNext
  <2> QED BY <2>4, <2>5, <2>6
<1>5. CASE Unavailable(d) \/ Failed(d)
  <2>1. pc[d] = "call" /\ j \in Jobs
    BY <1>1, <1>5 DEF Unavailable, Failed, Calling, Busyness
  <2>2. Sending' = Sending
    BY <1>1, <1>5, SameSending DEF HandsOK, Unavailable, Failed, LetGo, Calling
  <2>3. InAir' = InAir /\ Stored' = Stored /\ Gone' = Gone
    BY <1>5 DEF Unavailable, Failed, sinkVars, InAir, Stored, Gone
  <2>4. dropped' = dropped \/ dropped' = dropped \cup {j}
    BY <1>5 DEF Unavailable, Failed
  <2>5. CASE dropped' = dropped
    BY <2>2, <2>3, <2>5, <1>0, StatusStands
  <2>6. CASE dropped' = dropped \cup {j}
    <3>1. StatusOf(j) = "waiting" /\ StatusOf(j)' = "dropped"
      BY <2>1, <2>6, <1>2, StatusFacts, StatusFactsNext
    <3>2. \A i \in Jobs \ {j} : StatusOf(i)' = StatusOf(i)
      BY <2>2, <2>3, <2>6, <1>0, StatusFacts, StatusFactsNext
    <3> QED BY <3>1, <3>2, <2>1
  <2> QED BY <2>4, <2>5, <2>6
<1>6. ASSUME pc[d] = "send", LetGo(d), NEW to \in AtRest, Goto(d, to)
      PROVE  Sending' = Sending \ {j}
  <2>1. /\ \A e \in Drivers \ {d} : pc'[e] = pc[e] /\ held'[e] = held[e]
        /\ pc'[d] # "send"
        /\ \A e \in Drivers \ {d} : held[e] # j
    BY <1>1, <1>6, ConstantFacts DEF HandsOK, LetGo, Goto, AtRest
  <2> QED BY <1>6, <2>1 DEF Sending
<1>7. CASE Send(d)
  <2>1. pc[d] = "send" /\ LetGo(d) /\ Goto(d, "pull") /\ "pull" \in AtRest
    BY <1>7 DEF Send, AtRest
  <2>2. Sending' = Sending \ {j} /\ j \in Sending
    BY <2>1, <1>6 DEF Sending
  <2>3. InAir' = InAir \cup {j}
    <3>1. j \in Jobs /\ j \notin InAir
      BY <2>1, <1>1 DEF Busyness, IInv, PlacesOK
    <3> QED BY <3>1, <1>7, ConstantFacts, SendChannel DEF IInv, Send
  <2>4. Stored' = Stored /\ Gone' = Gone /\ dropped' = dropped
    BY <1>7 DEF Send, jobVars, Stored, Gone
  <2> QED BY <2>2, <2>3, <2>4, <1>0, StatusStands
<1>8. CASE SendClosed(d)
  <2>1. pc[d] = "send" /\ LetGo(d) /\ Goto(d, "left") /\ "left" \in AtRest
    BY <1>8 DEF SendClosed, StopsAtClosed, Return, AtRest
  <2>2. Sending' = Sending \ {j} /\ j \in Sending /\ j \in Jobs
    BY <2>1, <1>1, <1>6 DEF Sending, Busyness
  <2>3. InAir' = InAir /\ Stored' = Stored /\ dropped' = dropped
    BY <1>8 DEF SendClosed, InAir, Stored, jobVars
  <2>4. Gone' = Gone \cup {j}
    <3> DEFINE x == [job |-> j, by |-> d]
    <3>1. x.job = j
      OBVIOUS
    <3>2. lost' = lost \cup {x}
      BY <1>8 DEF SendClosed
    <3> HIDE DEF x
    <3> QED BY <3>1, <3>2 DEF Gone
  <2>5. j \notin InAir
    BY <2>1, <1>1 DEF Busyness, IInv, PlacesOK
  <2>6. StatusOf(j) = "paid" /\ StatusOf(j)' = "lost"
    BY <2>2, <2>4, <1>0, StatusFacts, StatusFactsNext
  <2>7. \A i \in Jobs \ {j} : StatusOf(i)' = StatusOf(i)
    BY <2>2, <2>3, <2>4, <1>0, StatusFacts, StatusFactsNext
  <2>8. phase \in {"broken", "cut"}
    BY <1>8 DEF SendClosed
  <2> QED BY <2>2, <2>6, <2>7, <2>8
<1> QED
  BY <1>3, <1>4, <1>5, <1>7, <1>8 DEF DriverStep

(* The mapping, and its value after a step.                                *)
status == [j \in Jobs |-> StatusOf(j)]
end    == EndOf(phase)

LEMMA StatusIs ==
  /\ \A j \in Jobs : status[j] = StatusOf(j)
  /\ \A j \in Jobs : status'[j] = StatusOf(j)'
  /\ DOMAIN status = Jobs /\ DOMAIN status' = Jobs
  /\ SameStatus => status' = status
BY DEF status, SameStatus

(* One decision changes.                                                   *)
LEMMA OneMoves ==
  ASSUME NEW j \in Jobs, NEW v, StatusOf(j)' = v,
         \A i \in Jobs \ {j} : StatusOf(i)' = StatusOf(i)
  PROVE  status' = [status EXCEPT ![j] = v]
BY DEF status

(* Those of a set are lost.                                                *)
LEMMA SomeAreLost ==
  ASSUME NEW S \in SUBSET Jobs,
         \A j \in S : StatusOf(j)' = "lost",
         \A j \in Jobs \ S : StatusOf(j)' = StatusOf(j)
  PROVE  status' = [j \in Jobs |-> IF j \in S THEN "lost" ELSE status[j]]
BY DEF status

LEMMA EndValues ==
  /\ phase = "draining" => end = "open"
  /\ phase = "joined" => end = "closed"
  /\ phase \in Phases \ {"draining", "joined"} => end = "abandoned"
  /\ phase' = "draining" => end' = "open"
  /\ phase' = "joined" => end' = "closed"
  /\ phase' \in Phases \ {"draining", "joined"} => end' = "abandoned"
BY DEF end, EndOf, Phases

LEMMA BacklogStep ==
  ASSUME IInv, IInv', EndInv, [Next]_vars
  PROVE  [Backlog!Next]_(Backlog!vars)
<1> USE DEF status, end
<1>0. phase \in Phases /\ phase' \in Phases
  BY DEF IInv, RestOK
<1>1. ASSUME NEW d \in Drivers, DriverStep(d)
      PROVE  [Backlog!Next]_(Backlog!vars)
  <2>1. phase' = phase
    BY <1>1 DEF DriverStep, OpenGate, Arm, Take, Dry, Answered, Busy, Handover,
       Unavailable, Failed, Wake, Send, SendClosed, Leave
  <2>2. pc[d] # "done"
    BY <1>1 DEF DriverStep, OpenGate, Arm, Take, Dry, Answered, Busy, Handover,
       Unavailable, Failed, Wake, Send, SendClosed, Leave, Calling
  <2>3. phase # "joined"
    BY <2>2 DEF EndInv, SendersGone
  <2>4. end # "closed" /\ end' = end
    BY <2>1, <2>3 DEF EndOf
  <2>5. CASE SameStatus
    BY <2>4, <2>5, StatusIs DEF Backlog!vars
  <2>6. ASSUME NEW j \in Jobs, StatusOf(j) = "waiting",
               StatusOf(j)' \in {"paid", "dropped"},
               \A i \in Jobs \ {j} : StatusOf(i)' = StatusOf(i)
        PROVE  [Backlog!Next]_(Backlog!vars)
    <3>1. status[j] = "waiting"
      BY <2>6
    <3>2. CASE StatusOf(j)' = "paid"
      <4>1. status' = [status EXCEPT ![j] = "paid"]
        BY <2>6, <3>2, OneMoves
      <4>2. Backlog!Pay(j)
        BY <3>1, <4>1, <2>4 DEF Backlog!Pay
      <4> QED BY <4>2 DEF Backlog!Next
    <3>3. CASE StatusOf(j)' = "dropped"
      <4>1. status' = [status EXCEPT ![j] = "dropped"]
        BY <2>6, <3>3, OneMoves
      <4>2. Backlog!Drop(j)
        BY <3>1, <4>1, <2>4 DEF Backlog!Drop
      <4> QED BY <4>2 DEF Backlog!Next
    <3> QED BY <2>6, <3>2, <3>3
  <2>7. ASSUME NEW j \in Jobs, phase \in {"broken", "cut"},
               StatusOf(j) = "paid", StatusOf(j)' = "lost",
               \A i \in Jobs \ {j} : StatusOf(i)' = StatusOf(i)
        PROVE  [Backlog!Next]_(Backlog!vars)
    <3>1. {j} \in SUBSET Backlog!Pending
      BY <2>7 DEF Backlog!Pending
    <3>2. status' = [i \in Jobs |-> IF i \in {j} THEN "lost" ELSE status[i]]
      BY <2>7, SomeAreLost
    <3>3. end = "abandoned"
      BY <2>7, <1>0, EndValues
    <3>4. Backlog!Lose({j})
      BY <3>2, <3>3, <2>4 DEF Backlog!Lose, Backlog!Lost
    <3> QED BY <3>1, <3>4 DEF Backlog!Next
  <2> QED BY <2>5, <2>6, <2>7, <1>1, DriverStatus
<1>2. CASE Record
  <2> DEFINE a == Head(channel)
  <2>1. PICK j : j = a.job
    OBVIOUS
  <2>2. /\ a \in [job : Jobs, pool : Pools] /\ j \in InAir /\ InAir' = InAir \ {j}
    BY <1>2, <2>1, RecordChannel DEF IInv, Record, Drains
  <2>3. Stored' = Stored \cup {j}
    <3>1. written' = written \cup {a}
      BY <1>2 DEF Record
    <3> HIDE DEF a
    <3> QED BY <3>1, <2>1 DEF Stored
  <2>4. Sending' = Sending /\ Gone' = Gone /\ dropped' = dropped
    BY <1>2 DEF Record, Sending, Gone, driverVars, jobVars
  <2>5. j \in Jobs
    BY <2>1, <2>2
  <2>6. Paid = InAir \cup Sending /\ Paid' = InAir' \cup Sending'
    BY DEF Paid, Sending
  <2>7. j \notin Sending
    BY <2>2, PaidFacts DEF IInv, PlacesOK
  <2> HIDE DEF a, status, end
  <2>8. StatusOf(j) = "paid" /\ StatusOf(j)' = "written"
    BY <2>2, <2>3, <2>6, StatusFacts, StatusFactsNext
  <2>9. \A i \in Jobs \ {j} : StatusOf(i)' = StatusOf(i)
    BY <2>2, <2>3, <2>4, <2>6, StatusFacts, StatusFactsNext
  <2>10. status' = [status EXCEPT ![j] = "written"] /\ status[j] = "paid"
    BY <2>5, <2>8, <2>9, OneMoves, StatusIs
  <2>11. phase = "draining" /\ phase' = phase
    BY <1>2 DEF Record, Drains
  <2>12. end = "open" /\ end' = end
    BY <2>11, EndValues
  <2>13. Backlog!Write(j)
    BY <2>10, <2>12 DEF Backlog!Write, status, end
  <2> QED BY <2>5, <2>13 DEF Backlog!Next
<1>3. CASE EndOfStream
  <2>1. Paid = {}
    BY <1>3 DEF EndOfStream, StreamEnds, SendersGone, Paid, InAir, ToSet
  <2>2. \A j \in Jobs : StatusOf(j) # "paid"
    BY <2>1, StatusFacts
  <2>3. Backlog!Pending = {}
    BY <2>2 DEF Backlog!Pending
  <2>4. Stored' = Stored /\ dropped' = dropped /\ Gone' = Gone /\ Paid' = Paid
    BY <1>3 DEF EndOfStream, driverVars, jobVars, sinkVars, Stored, Gone, Paid, InAir
  <2>5. status' = status
    BY <2>4, StatusStands, StatusIs
  <2>6. end = "open" /\ end' = "closed"
    BY <1>3, EndValues DEF EndOfStream
  <2>7. Backlog!Close
    BY <2>3, <2>5, <2>6 DEF Backlog!Close
  <2> QED BY <2>7 DEF Backlog!Next
<1>4. CASE RecordFails \/ Cut
  <2>1. CloseReceiver /\ phase' \in {"broken", "cut"}
    BY <1>4 DEF RecordFails, Cut
  <2>2. lost' = lost \cup {[job |-> x.job, by |-> Writer] : x \in ToSet(channel)}
    BY <2>1 DEF CloseReceiver
  <2>3. Gone' = Gone \cup InAir
    <3> DEFINE R(x) == [job |-> x.job, by |-> Writer]
               L == {R(x) : x \in ToSet(channel)}
    <3>1. \A x : R(x).job = x.job
      OBVIOUS
    <3>2. lost' = lost \cup L
      BY <2>2
    <3> HIDE DEF R
    <3>3. \A z : z \in L <=> \E x \in ToSet(channel) : z = R(x)
      OBVIOUS
    <3> HIDE DEF L
    <3>4. \A y : (\E z \in L : y = z.job) <=> y \in InAir
      BY <3>1, <3>3 DEF InAir
    <3> QED BY <3>2, <3>4 DEF Gone
  <2>4. InAir' = {} /\ Sending' = Sending /\ Stored' = Stored /\ dropped' = dropped
    BY <2>1 DEF CloseReceiver, InAir, ToSet, Sending, Stored, driverVars, jobVars
  <2>5. Paid = InAir \cup Sending /\ Paid' = InAir' \cup Sending'
    BY DEF Paid, Sending
  <2>6. InAir \subseteq Jobs /\ InAir \cap Sending = {}
    <3>1. InAir \subseteq Jobs
      <4> DEFINE A == [job : Jobs, pool : Pools]
      <4>1. channel \in Seq(A) /\ \A x \in A : x.job \in Jobs
        BY DEF IInv, ChannelOK
      <4> HIDE DEF A
      <4> QED BY <4>1 DEF InAir, ToSet
    <3> QED BY <3>1, PaidFacts DEF IInv, PlacesOK
  <2>7. \A j \in InAir : StatusOf(j) = "paid" /\ StatusOf(j)' = "lost"
    BY <2>3, <2>5, StatusFacts, StatusFactsNext
  <2>8. \A j \in Jobs \ InAir : StatusOf(j)' = StatusOf(j)
    BY <2>3, <2>4, <2>5, <2>6, StatusFacts, StatusFactsNext
  <2>9. status' = [j \in Jobs |-> IF j \in InAir THEN "lost" ELSE status[j]]
    BY <2>6, <2>7, <2>8, SomeAreLost
  <2>10. InAir \in SUBSET Backlog!Pending
    BY <2>6, <2>7 DEF Backlog!Pending
  <2>11. end' = "abandoned"
    BY <2>1, <1>0, EndValues
  <2>12. Backlog!Abandon
    BY <2>9, <2>10, <2>11 DEF Backlog!Abandon, Backlog!Lost
  <2> QED BY <2>12 DEF Backlog!Next
<1>5. ASSUME UNCHANGED <<file, driverVars, jobVars, ahead, sinkVars>>
      PROVE  status' = status
  <2>1. Stored' = Stored /\ dropped' = dropped /\ Gone' = Gone /\ Paid' = Paid
    BY <1>5 DEF driverVars, jobVars, sinkVars, Stored, Gone, Paid, InAir
  <2> QED BY <2>1, StatusStands, StatusIs
<1>6. CASE Signal
  <2>1. status' = status
    BY <1>5, <1>6 DEF Signal
  <2>2. CASE phase' = phase
    BY <2>1, <2>2 DEF Backlog!vars
  <2>3. CASE phase' = "killed"
    <3>1. end' = "abandoned" /\ {} \in SUBSET Backlog!Pending
      BY <2>3, <1>0, EndValues
    <3>2. status' = [j \in Jobs |-> IF j \in {} THEN "lost" ELSE status[j]]
      BY <2>1
    <3>3. Backlog!Abandon
      BY <3>1, <3>2 DEF Backlog!Abandon, Backlog!Lost
    <3> QED BY <3>3 DEF Backlog!Next
  <2> QED BY <1>6, <2>2, <2>3 DEF Signal
<1>7. CASE UNCHANGED vars
  <2>1. status' = status /\ phase' = phase
    BY <1>5, <1>7 DEF vars
  <2> QED BY <2>1 DEF Backlog!vars
<1> QED
  BY <1>1, <1>2, <1>3, <1>4, <1>6, <1>7 DEF Next, WriterStep, Finished

(* For any drivers, doors and jobs, a batch is a backlog in which each     *)
(* decision is paid for at most once, only a paid one is written, and a    *)
(* batch that closes owes nothing.                                         *)
THEOREM BatchImplementsBacklog == Spec => ImplementsBacklog
<1>1. Init => Backlog!Init
  <2> SUFFICES ASSUME Init PROVE Backlog!Init
    OBVIOUS
  <2>1. IInv /\ Stored = {} /\ dropped = {} /\ Gone = {} /\ Paid = {}
    BY InvInit DEF Init, Stored, Gone, Paid, InAir, ToSet
  <2>2. \A j \in Jobs : StatusOf(j) = "waiting"
    BY <2>1, StatusFacts
  <2>3. EndOf(phase) = "open"
    BY DEF Init, EndOf
  <2> QED BY <2>2, <2>3 DEF Backlog!Init
<1>2. IInv /\ IInv' /\ EndInv /\ [Next]_vars => [Backlog!Next]_(Backlog!vars)
  BY BacklogStep
<1> QED
  BY <1>1, <1>2, EndInvariance, PTL DEF Spec, ImplementsBacklog, Backlog!Spec

=============================================================================

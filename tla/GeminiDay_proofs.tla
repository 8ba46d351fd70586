-------------------------- MODULE GeminiDay_proofs --------------------------
(* Proofs about GeminiDay, for any processes, keys, limit and days.        *)
EXTENDS GeminiDay, FiniteSetTheorems, TLAPS

(* A call is in flight in a run alone, and a run that has not started has  *)
(* nothing: no other step may note a call while a flush is under way.      *)
CallsInRuns ==
  \A p \in Processes :
    /\ pc[p] # "run" => \A k \in Keys : call[p][k] = "none"
    /\ pc[p] \in {"down", "seed"} => own[p] = None /\ pending[p] = None

(* A flush carries what is pending, which stays so until it is booked.     *)
CarriesAll ==
  \A p \in Processes : pc[p] \in {"bump", "book"} => carried[p] = pending[p]

(* No process counts a day to come.                                        *)
NoDayAhead == \A p \in Processes : day[p] <= today

(* What a process was served on the day it counts is in the store or still *)
(* pending; once a flush has written it, in the store and in what the flush*)
(* brings back.                                                            *)
InTheStore ==
  \A p \in Processes, k \in Keys : day[p] = today =>
    IF pc[p] = "book"
    THEN own[p][k] <= spent[k][today] /\ own[p][k] <= total[p][k]
    ELSE own[p][k] <= pending[p][k] + spent[k][today]

IInv ==
  /\ TypeOK
  /\ CallsInRuns
  /\ CarriesAll
  /\ NoDayAhead
  /\ InTheStore
  /\ BudgetSeesOwn
-----------------------------------------------------------------------------
(* Sums.  A sum is a recursive function over the subsets of a finite set;  *)
(* what it does for every set follows from a least one that it fails for.  *)

(* What holds of the empty set, and of a set as soon as it holds of those  *)
(* with one element less, holds of every finite set.                       *)
LEMMA OneLess ==
  ASSUME NEW S, IsFiniteSet(S), NEW G, {} \in G,
         \A t \in SUBSET S : t # {} /\ (\A x \in t : t \ {x} \in G) => t \in G
  PROVE  \A t \in SUBSET S : t \in G
<1> SUFFICES ASSUME \E t \in SUBSET S : t \notin G PROVE FALSE
  OBVIOUS
<1>1. FiniteSubsetsOf(S) = SUBSET S
  BY FS_FiniteSubsetsOfFinite
<1>2. IsWellFoundedOn(StrictSubsetOrdering(S), SUBSET S)
  <2>1. IsWellFoundedOn(StrictSubsetOrdering(S), FiniteSubsetsOf(S))
    BY FS_StrictSubsetOrderingWellFounded
  <2> QED BY <1>1, <2>1
<1> DEFINE T == {t \in SUBSET S : t \notin G}
<1>3. T \subseteq SUBSET S /\ T # {} OBVIOUS
<1>4. \E t \in T : \A u \in T : ~ (<<u, t>> \in StrictSubsetOrdering(S))
  <2> HIDE DEF T
  <2> QED BY <1>2, <1>3, WFMin
<1>5. PICK t \in T : \A u \in T : ~ (<<u, t>> \in StrictSubsetOrdering(S))
  BY <1>4
<1>6. t # {} OBVIOUS
<1>7. ASSUME NEW x \in t PROVE t \ {x} \in G
  <2>1. t \ {x} \in SUBSET S /\ t \ {x} # t /\ t \ {x} \subseteq t OBVIOUS
  <2>2. <<t \ {x}, t>> \in StrictSubsetOrdering(S) BY <2>1 DEF StrictSubsetOrdering
  <2> QED BY <1>5, <2>1, <2>2
<1> QED BY <1>6, <1>7

Pick(s) == CHOOSE x \in s : TRUE

(* The sums of f over the subsets that D holds.                            *)
Totals(f, D, g) ==
  g = [s \in D |-> IF s = {} THEN 0 ELSE f[Pick(s)] + g[s \ {Pick(s)}]]

LEMMA SumIs ==
  ASSUME NEW f, NEW S
  PROVE  SumFunctionOnSet(f, S) = (CHOOSE g : Totals(f, SUBSET S, g))[S]
BY DEF SumFunctionOnSet, FoldFunctionOnSet, MapThenFoldSet, Totals, Pick

LEMMA Picked ==
  ASSUME NEW s, s # {} PROVE Pick(s) \in s
BY DEF Pick

LEMMA LeastSize ==
  ASSUME NEW T, T \subseteq Nat, T # {}
  PROVE  \E n \in T : \A m \in T : n <= m
<1>1. \E n \in T : \A m \in T : ~ (<<m, n>> \in OpToRel(<, Nat))
  BY NatLessThanWellFounded, WFMin
<1>2. PICK n \in T : \A m \in T : ~ (<<m, n>> \in OpToRel(<, Nat)) BY <1>1
<1>3. ASSUME NEW m \in T, m < n PROVE FALSE
  <2>1. <<m, n>> \in Nat \X Nat /\ <<m, n>>[1] < <<m, n>>[2] BY <1>3
  <2> QED BY <1>2, <2>1 DEF OpToRel
<1> QED BY <1>3

(* They exist: those up to a size give those up to the next.               *)
LEMMA TotalsExist ==
  ASSUME NEW f, NEW S, IsFiniteSet(S)
  PROVE  \E g : Totals(f, SUBSET S, g)
<1> DEFINE Upto(n) == {s \in SUBSET S : Cardinality(s) <= n}
           Missing == {n \in Nat : ~ \E g : Totals(f, Upto(n), g)}
<1>1. ASSUME Missing # {} PROVE FALSE
  <2>1. PICK n \in Missing : \A m \in Missing : n <= m
    <3> HIDE DEF Missing
    <3>1. Missing \subseteq Nat BY DEF Missing
    <3> QED BY <1>1, <3>1, LeastSize
  <2>2. \A s \in SUBSET S : IsFiniteSet(s) /\ Cardinality(s) \in Nat /\ (Cardinality(s) = 0 <=> s = {})
    BY FS_Subset, FS_CardinalityType, FS_EmptySet
  <2>3. n # 0
    <3>1. Upto(0) = {{}} BY <2>2
    <3>2. PICK g : g = [s \in {{}} |-> 0] OBVIOUS
    <3>3. Totals(f, {{}}, g) BY <3>2 DEF Totals
    <3>4. 0 \notin Missing BY <3>1, <3>3
    <3> QED BY <2>1, <3>4
  <2>4. n - 1 \in Nat /\ n - 1 \notin Missing
    <3>1. n \in Nat OBVIOUS
    <3>2. n - 1 \in Nat /\ ~ n <= n - 1 BY <2>3, <3>1
    <3> HIDE DEF Missing
    <3> QED BY <2>1, <3>2
  <2>5. PICK g : Totals(f, Upto(n - 1), g) BY <2>4
  <2>6. PICK h : h = [s \in Upto(n) |-> IF s = {} THEN 0 ELSE f[Pick(s)] + g[s \ {Pick(s)}]]
    OBVIOUS
  <2>7. ASSUME NEW s \in Upto(n), s # {}
        PROVE  /\ s \ {Pick(s)} \in Upto(n - 1) /\ s \ {Pick(s)} \in Upto(n)
    <3>1. Cardinality(s \ {Pick(s)}) = Cardinality(s) - 1
      BY <2>2, <2>7, Picked, FS_RemoveElement
    <3> QED BY <2>2, <2>7, <3>1
  <2>8. ASSUME NEW s \in Upto(n), s # {} PROVE g[s \ {Pick(s)}] = h[s \ {Pick(s)}]
    <3>1. PICK t : t = s \ {Pick(s)} OBVIOUS
    <3>2. t \in Upto(n - 1) /\ t \in Upto(n) BY <2>7, <2>8, <3>1
    <3>3. g[t] = IF t = {} THEN 0 ELSE f[Pick(t)] + g[t \ {Pick(t)}]
      <4> HIDE DEF Upto
      <4> QED BY <2>5, <3>2 DEF Totals
    <3>4. h[t] = IF t = {} THEN 0 ELSE f[Pick(t)] + g[t \ {Pick(t)}]
      <4> HIDE DEF Upto
      <4> QED BY <2>6, <3>2
    <3> QED BY <3>1, <3>3, <3>4
  <2>9. h = [s \in Upto(n) |-> IF s = {} THEN 0 ELSE f[Pick(s)] + h[s \ {Pick(s)}]]
    <3> HIDE DEF Upto
    <3> QED BY <2>6, <2>8
  <2>10. Totals(f, Upto(n), h)
    <3> HIDE DEF Upto
    <3> QED BY <2>9 DEF Totals
  <2> QED BY <2>1, <2>10
<1>2. Cardinality(S) \in Nat /\ Upto(Cardinality(S)) = SUBSET S
  BY FS_Subset, FS_CardinalityType
<1> QED BY <1>1, <1>2

Sums(f, S, g) ==
  \A t \in SUBSET S : g[t] = IF t = {} THEN 0 ELSE f[Pick(t)] + g[t \ {Pick(t)}]

LEMMA SumTotals ==
  ASSUME NEW f, NEW S, IsFiniteSet(S)
  PROVE  \E g : SumFunctionOnSet(f, S) = g[S] /\ Sums(f, S, g)
<1>1. PICK g : g = CHOOSE h : Totals(f, SUBSET S, h) OBVIOUS
<1>2. Totals(f, SUBSET S, g) BY <1>1, TotalsExist
<1>3. Sums(f, S, g) BY <1>2 DEF Totals, Sums
<1>4. SumFunctionOnSet(f, S) = g[S] BY <1>1, SumIs
<1> QED BY <1>3, <1>4, Zenon

(* The sum over a set, from those over its subsets.                        *)
LEMMA SumRec ==
  ASSUME NEW f, NEW S, IsFiniteSet(S)
  PROVE  SumFunctionOnSet(f, S) =
           IF S = {} THEN 0 ELSE f[Pick(S)] + SumFunctionOnSet(f, S \ {Pick(S)})
<1>1. PICK g : SumFunctionOnSet(f, S) = g[S] /\ Sums(f, S, g)
  BY SumTotals
<1>2. PICK r : r = S \ {Pick(S)} OBVIOUS
<1>3. IsFiniteSet(r) /\ r \in SUBSET S BY <1>2, FS_Subset
<1>4. PICK h : SumFunctionOnSet(f, r) = h[r] /\ Sums(f, r, h)
  BY <1>3, SumTotals
<1> DEFINE G == {t \in SUBSET r : g[t] = h[t]}
<1>5. {} \in G BY <1>1, <1>3, <1>4 DEF Sums
<1>6. ASSUME NEW t \in SUBSET r, t # {}, \A x \in t : t \ {x} \in G PROVE t \in G
  <2>1. t \ {Pick(t)} \in G BY <1>6, Picked
  <2>2. t \in SUBSET S BY <1>3
  <2> QED BY <1>1, <1>4, <1>6, <2>1, <2>2 DEF Sums
<1> HIDE DEF G
<1>7. r \in G BY <1>3, <1>5, <1>6, OneLess
<1>8. g[r] = h[r] BY <1>7 DEF G
<1>9. S \in SUBSET S OBVIOUS
<1> QED BY <1>1, <1>2, <1>4, <1>8, <1>9 DEF Sums

LEMMA SumEmpty == \A f : SumFunctionOnSet(f, {}) = 0
BY SumRec, FS_EmptySet

LEMMA SumType ==
  ASSUME NEW S, IsFiniteSet(S), NEW f, \A x \in S : f[x] \in Int
  PROVE  SumFunctionOnSet(f, S) \in Int
<1> DEFINE G == {t \in SUBSET S : SumFunctionOnSet(f, t) \in Int}
<1>1. {} \in G BY SumEmpty
<1>2. ASSUME NEW t \in SUBSET S, t # {}, \A x \in t : t \ {x} \in G PROVE t \in G
  <2>1. IsFiniteSet(t) BY FS_Subset
  <2>2. Pick(t) \in t BY <1>2, Picked
  <2>3. SumFunctionOnSet(f, t) = f[Pick(t)] + SumFunctionOnSet(f, t \ {Pick(t)})
    BY <1>2, <2>1, SumRec
  <2>4. SumFunctionOnSet(f, t \ {Pick(t)}) \in Int BY <1>2, <2>2
  <2> QED BY <2>2, <2>3, <2>4
<1>3. \A t \in SUBSET S : t # {} /\ (\A x \in t : t \ {x} \in G) => t \in G BY <1>2
<1> HIDE DEF G
<1>4. \A t \in SUBSET S : t \in G BY <1>1, <1>3, OneLess
<1> QED BY <1>4 DEF G

(* Any element may go first.                                               *)
LEMMA SumAny ==
  ASSUME NEW S, IsFiniteSet(S), NEW f, \A y \in S : f[y] \in Int, NEW x \in S
  PROVE  SumFunctionOnSet(f, S) = f[x] + SumFunctionOnSet(f, S \ {x})
<1> DEFINE Sum(t) == SumFunctionOnSet(f, t)
           G == {t \in SUBSET S : \A y \in t : Sum(t) = f[y] + Sum(t \ {y})}
<1>1. {} \in G OBVIOUS
<1>2. ASSUME NEW t \in SUBSET S, t # {}, \A y \in t : t \ {y} \in G PROVE t \in G
  <2> SUFFICES ASSUME NEW y \in t PROVE Sum(t) = f[y] + Sum(t \ {y})
    OBVIOUS
  <2>1. PICK c \in t : c = Pick(t) BY <1>2, Picked
  <2>2. IsFiniteSet(t) BY FS_Subset
  <2>3. Sum(t) = f[c] + Sum(t \ {c}) BY <1>2, <2>1, <2>2, SumRec
  <2>4. CASE y = c BY <2>3, <2>4
  <2>5. CASE y # c
    <3>1. t \ {c} \in G /\ t \ {y} \in G BY <1>2
    <3>2. Sum(t \ {c}) = f[y] + Sum((t \ {c}) \ {y}) BY <2>5, <3>1
    <3>3. Sum(t \ {y}) = f[c] + Sum((t \ {y}) \ {c}) BY <2>5, <3>1
    <3>4. PICK r : r = (t \ {c}) \ {y} /\ r = (t \ {y}) \ {c} OBVIOUS
    <3>5. IsFiniteSet(r) /\ \A z \in r : f[z] \in Int BY <3>4, FS_Subset
    <3>6. Sum(r) \in Int BY <3>5, SumType
    <3>7. f[c] \in Int /\ f[y] \in Int OBVIOUS
    <3>8. Sum(t) = f[c] + (f[y] + Sum(r)) BY <2>3, <3>2, <3>4
    <3>9. Sum(t \ {y}) = f[c] + Sum(r) BY <3>3, <3>4
    <3> HIDE DEF Sum
    <3> QED BY <3>6, <3>7, <3>8, <3>9
  <2> QED BY <2>4, <2>5
<1>3. \A t \in SUBSET S : t # {} /\ (\A y \in t : t \ {y} \in G) => t \in G BY <1>2
<1> HIDE DEF G
<1>4. \A t \in SUBSET S : t \in G BY <1>1, <1>3, OneLess
<1> QED BY <1>4 DEF G

LEMMA SumSame ==
  ASSUME NEW S, IsFiniteSet(S), NEW f, NEW h, \A x \in S : f[x] = h[x]
  PROVE  SumFunctionOnSet(f, S) = SumFunctionOnSet(h, S)
<1> DEFINE G == {t \in SUBSET S : SumFunctionOnSet(f, t) = SumFunctionOnSet(h, t)}
<1>1. {} \in G BY SumEmpty
<1>2. ASSUME NEW t \in SUBSET S, t # {}, \A x \in t : t \ {x} \in G PROVE t \in G
  <2>1. IsFiniteSet(t) BY FS_Subset
  <2>2. Pick(t) \in t BY <1>2, Picked
  <2>3. /\ SumFunctionOnSet(f, t) = f[Pick(t)] + SumFunctionOnSet(f, t \ {Pick(t)})
        /\ SumFunctionOnSet(h, t) = h[Pick(t)] + SumFunctionOnSet(h, t \ {Pick(t)})
    BY <1>2, <2>1, SumRec
  <2>4. SumFunctionOnSet(f, t \ {Pick(t)}) = SumFunctionOnSet(h, t \ {Pick(t)}) BY <1>2, <2>2
  <2> QED BY <2>2, <2>3, <2>4
<1>3. \A t \in SUBSET S : t # {} /\ (\A x \in t : t \ {x} \in G) => t \in G BY <1>2
<1> HIDE DEF G
<1>4. \A t \in SUBSET S : t \in G BY <1>1, <1>3, OneLess
<1> QED BY <1>4 DEF G
-----------------------------------------------------------------------------
LEMMA InitIInv == Init => IInv
  BY DayAssumption DEF Init, IInv, TypeOK, CallsInRuns, CarriesAll, NoDayAhead, InTheStore,
     BudgetSeesOwn, None, Days, Counter

LEMMA MidnightIInv ==
  ASSUME IInv, Midnight
  PROVE  IInv'
<1> USE DEF IInv, Midnight
<1>1. TypeOK'
  <2>1. today' \in Days
    BY DayAssumption DEF TypeOK, Days
  <2> QED BY <2>1 DEF TypeOK
<1>2. CallsInRuns' BY DEF TypeOK, CallsInRuns
<1>3. CarriesAll' BY DEF TypeOK, CallsInRuns, CarriesAll
<1>4. NoDayAhead' BY DEF TypeOK, Days, NoDayAhead
<1>5. InTheStore' BY DEF TypeOK, Days, Counter, CallsInRuns, CarriesAll, NoDayAhead, InTheStore
<1>6. BudgetSeesOwn'
  BY DEF TypeOK, Days, Counter, CallsInRuns, CarriesAll, NoDayAhead, InTheStore, BudgetSeesOwn
<1> QED BY <1>1, <1>2, <1>3, <1>4, <1>5, <1>6

LEMMA StartIInv ==
  ASSUME IInv, NEW p \in Processes, Start(p)
  PROVE  IInv'
<1> USE DEF IInv, Start, Goes, None
<1>1. TypeOK'
  <2>1. own' \in [Processes -> Counter] /\ charged' \in [Processes -> Counter]
       /\ pending' \in [Processes -> Counter]
    BY DEF TypeOK, Counter
  <2>2. parked' \in [Processes -> [Keys -> 0 .. MaxDay + 1]]
    BY DayAssumption DEF TypeOK
  <2>3. total' \in [Processes -> Counter]
    BY DEF TypeOK, Counter
  <2>4. day' \in [Processes -> Days] /\ pc' \in [Processes -> {"down", "seed", "run", "bump", "book"}]
    BY DEF TypeOK
  <2> QED BY <2>1, <2>2, <2>3, <2>4 DEF TypeOK
<1>2. CallsInRuns' BY DEF TypeOK, CallsInRuns
<1>3. CarriesAll' BY DEF TypeOK, CallsInRuns, CarriesAll
<1>4. NoDayAhead' BY DEF TypeOK, Days, NoDayAhead
<1>5. InTheStore'
  <2> SUFFICES ASSUME NEW q \in Processes, NEW j \in Keys, day'[q] = today'
               PROVE  IF pc'[q] = "book"
                      THEN own'[q][j] <= spent'[j][today'] /\ own'[q][j] <= total'[q][j]
                      ELSE own'[q][j] <= pending'[q][j] + spent'[j][today']
    BY DEF InTheStore
  <2>1. CASE q = p
    BY <2>1 DEF TypeOK, Counter, CallsInRuns, CarriesAll, InTheStore
  <2>2. CASE q # p
    BY <2>2 DEF TypeOK, Counter, CallsInRuns, CarriesAll, InTheStore
  <2> QED BY <2>1, <2>2
<1>6. BudgetSeesOwn'
  BY DEF TypeOK, Days, Counter, CallsInRuns, CarriesAll, NoDayAhead, InTheStore, BudgetSeesOwn
<1> QED BY <1>1, <1>2, <1>3, <1>4, <1>5, <1>6

LEMMA SeedIInv ==
  ASSUME IInv, NEW p \in Processes, Seed(p)
  PROVE  IInv'
<1> USE DEF IInv, Seed, Goes, None
<1>1. TypeOK' BY DayAssumption DEF TypeOK, Days, Counter
<1>2. CallsInRuns' BY DEF TypeOK, CallsInRuns
<1>3. CarriesAll' BY DEF TypeOK, CallsInRuns, CarriesAll
<1>4. NoDayAhead' BY DEF TypeOK, Days, NoDayAhead
<1>5. InTheStore'
  <2> SUFFICES ASSUME NEW q \in Processes, NEW j \in Keys, day'[q] = today'
               PROVE  IF pc'[q] = "book"
                      THEN own'[q][j] <= spent'[j][today'] /\ own'[q][j] <= total'[q][j]
                      ELSE own'[q][j] <= pending'[q][j] + spent'[j][today']
    BY DEF InTheStore
  <2>1. CASE q = p
    BY <2>1 DEF TypeOK, Counter, CallsInRuns, CarriesAll, InTheStore
  <2>2. CASE q # p
    BY <2>2 DEF TypeOK, Counter, CallsInRuns, CarriesAll, InTheStore
  <2> QED BY <2>1, <2>2
<1>6. BudgetSeesOwn'
  <2> SUFFICES ASSUME NEW q \in Processes, NEW j \in Keys, day'[q] = today'
               PROVE  charged'[q][j] + pending'[q][j] >= own'[q][j]
    BY DEF BudgetSeesOwn
  <2>1. CASE q = p
    <3>1. own'[p][j] = 0 /\ charged'[p][j] = total[p][j] /\ pending'[p][j] = pending[p][j]
      BY DEF TypeOK, CallsInRuns
    <3>2. total[p][j] \in Nat /\ pending[p][j] \in Nat BY DEF TypeOK, Counter
    <3> QED BY <2>1, <3>1, <3>2
  <2>2. CASE q # p BY <2>2 DEF TypeOK, BudgetSeesOwn
  <2> QED BY <2>1, <2>2
<1> QED BY <1>1, <1>2, <1>3, <1>4, <1>5, <1>6

LEMMA SendIInv ==
  ASSUME IInv, NEW p \in Processes, NEW k \in Keys, Send(p, k)
  PROVE  IInv'
<1> USE DEF IInv, Send, Answers
<1>1. TypeOK' BY DayAssumption DEF TypeOK, Days, Counter
<1>2. CallsInRuns' BY DEF TypeOK, CallsInRuns
<1>3. CarriesAll' BY DEF TypeOK, CallsInRuns, CarriesAll
<1>4. NoDayAhead' BY DEF TypeOK, Days, NoDayAhead
<1>5. InTheStore' BY DEF TypeOK, Days, Counter, CallsInRuns, CarriesAll, NoDayAhead, InTheStore
<1>6. BudgetSeesOwn'
  BY DEF TypeOK, Days, Counter, CallsInRuns, CarriesAll, NoDayAhead, InTheStore, BudgetSeesOwn
<1> QED BY <1>1, <1>2, <1>3, <1>4, <1>5, <1>6

LEMMA ServeIInv ==
  ASSUME IInv, NEW p \in Processes, NEW k \in Keys, Serve(p, k)
  PROVE  IInv'
<1> USE DEF IInv, Serve, Answers
<1>1. TypeOK'
  <2>1. PICK c \in {"served", "PerDay", "PerMinute"} : call' = [call EXCEPT ![p] = [call[p] EXCEPT ![k] = c]]
    OBVIOUS
  <2>2. [call[p] EXCEPT ![k] = c] \in [Keys -> {"none", "sent", "served", "PerDay", "PerMinute"}]
    BY DEF TypeOK
  <2>3. call' \in [Processes -> [Keys -> {"none", "sent", "served", "PerDay", "PerMinute"}]]
    BY <2>1, <2>2 DEF TypeOK
  <2>4. CASE served' = served
    BY <2>3, <2>4 DEF TypeOK
  <2>5. CASE /\ served[k][today] < Limit
             /\ served' = [served EXCEPT ![k] = [served[k] EXCEPT ![today] = served[k][today] + 1]]
    <3>1. served[k][today] + 1 \in 0 .. Limit
      BY <2>5, DayAssumption DEF TypeOK
    <3>2. [served[k] EXCEPT ![today] = served[k][today] + 1] \in [Days -> 0 .. Limit]
      BY <3>1 DEF TypeOK
    <3>3. served' \in [Keys -> [Days -> 0 .. Limit]]
      BY <2>5, <3>2 DEF TypeOK
    <3> QED BY <2>3, <3>3 DEF TypeOK
  <2> QED BY <2>4, <2>5
<1>2. CallsInRuns'
  <2>1. pc[p] = "run" BY DEF CallsInRuns
  <2>2. \A q \in Processes : q # p => call'[q] = call[q] BY DEF TypeOK
  <2> QED BY <2>1, <2>2 DEF CallsInRuns
<1>3. CarriesAll' BY DEF TypeOK, CallsInRuns, CarriesAll
<1>4. NoDayAhead' BY DEF TypeOK, Days, NoDayAhead
<1>5. InTheStore' BY DEF TypeOK, Days, Counter, CallsInRuns, CarriesAll, NoDayAhead, InTheStore
<1>6. BudgetSeesOwn'
  BY DEF TypeOK, Days, Counter, CallsInRuns, CarriesAll, NoDayAhead, InTheStore, BudgetSeesOwn
<1> QED BY <1>1, <1>2, <1>3, <1>4, <1>5, <1>6

LEMMA NoteServedIInv ==
  ASSUME IInv, NEW p \in Processes, NEW k \in Keys, NoteServed(p, k)
  PROVE  IInv'
<1> USE DEF IInv, NoteServed, Answers, Rolled, None
<1>1. TypeOK'
  <2>1. call' \in [Processes -> [Keys -> {"none", "sent", "served", "PerDay", "PerMinute"}]]
    BY DEF TypeOK
  <2>2. pending' \in [Processes -> Counter]
    BY DEF TypeOK, Counter
  <2>3. own' \in [Processes -> Counter]
    BY DEF TypeOK, Counter
  <2>4. charged' \in [Processes -> Counter]
    BY DEF TypeOK, Counter
  <2>5. lost' \in Counter
    BY DEF TypeOK, Counter
  <2>6. day' \in [Processes -> Days]
    BY DEF TypeOK
  <2> QED BY <2>1, <2>2, <2>3, <2>4, <2>5, <2>6 DEF TypeOK
<1>2. CallsInRuns' BY DEF TypeOK, CallsInRuns
<1>3. CarriesAll' BY DEF TypeOK, CallsInRuns, CarriesAll
<1>4. NoDayAhead' BY DEF TypeOK, Days, NoDayAhead
<1>5. InTheStore'
  <2> SUFFICES ASSUME NEW q \in Processes, NEW j \in Keys, day'[q] = today'
               PROVE  IF pc'[q] = "book"
                      THEN own'[q][j] <= spent'[j][today'] /\ own'[q][j] <= total'[q][j]
                      ELSE own'[q][j] <= pending'[q][j] + spent'[j][today']
    BY DEF InTheStore
  <2>1. CASE q = p
    <3>1. pc[p] = "run" BY DEF CallsInRuns
    <3>2. CASE day[p] = today /\ j = k
      <4>1. /\ own'[p][k] = own[p][k] + 1 /\ pending'[p][k] = pending[p][k] + 1
            /\ spent' = spent /\ today' = today /\ pc' = pc
        BY <3>2 DEF TypeOK, Counter
      <4>2. own[p][k] <= pending[p][k] + spent[k][today] BY <3>1, <3>2 DEF InTheStore
      <4>3. own[p][k] \in Nat /\ pending[p][k] \in Nat /\ spent[k][today] \in Nat
        BY DEF TypeOK, Counter
      <4> QED BY <2>1, <3>1, <3>2, <4>1, <4>2, <4>3
    <3>3. CASE day[p] = today /\ j # k
      BY <2>1, <3>1, <3>3 DEF TypeOK, Counter, InTheStore
    <3>4. CASE day[p] # today
      BY <2>1, <3>1, <3>4 DEF TypeOK, Counter
    <3> QED BY <3>2, <3>3, <3>4
  <2>2. CASE q # p
    BY <2>2 DEF TypeOK, Counter, CallsInRuns, CarriesAll, InTheStore
  <2> QED BY <2>1, <2>2
<1>6. BudgetSeesOwn'
  <2> SUFFICES ASSUME NEW q \in Processes, NEW j \in Keys, day'[q] = today'
               PROVE  charged'[q][j] + pending'[q][j] >= own'[q][j]
    BY DEF BudgetSeesOwn
  <2>1. CASE q = p
    BY <2>1 DEF TypeOK, Counter, BudgetSeesOwn
  <2>2. CASE q # p
    BY <2>2 DEF TypeOK, BudgetSeesOwn
  <2> QED BY <2>1, <2>2
<1> QED BY <1>1, <1>2, <1>3, <1>4, <1>5, <1>6

LEMMA RefusedIInv ==
  ASSUME IInv, NEW p \in Processes, NEW k \in Keys, Refused(p, k)
  PROVE  IInv'
<1> USE DEF IInv, Refused, Answers, NamesTheDay
<1>1. TypeOK'
  <2>1. call' \in [Processes -> [Keys -> {"none", "sent", "served", "PerDay", "PerMinute"}]]
    BY DEF TypeOK
  <2>2. today + 1 \in 0 .. MaxDay + 1
    BY DayAssumption DEF TypeOK, Days
  <2>3. parked' \in [Processes -> [Keys -> 0 .. MaxDay + 1]]
    <3>1. CASE parked' = parked BY <3>1 DEF TypeOK
    <3>2. CASE parked' = [parked EXCEPT ![p] = [parked[p] EXCEPT ![k] = today + 1]]
      <4>1. [parked[p] EXCEPT ![k] = today + 1] \in [Keys -> 0 .. MaxDay + 1]
        BY <2>2 DEF TypeOK
      <4> QED BY <3>2, <4>1 DEF TypeOK
    <3> QED BY <3>1, <3>2
  <2> QED BY <2>1, <2>2, <2>3 DEF TypeOK
<1>2. CallsInRuns' BY DEF TypeOK, CallsInRuns
<1>3. CarriesAll' BY DEF TypeOK, CallsInRuns, CarriesAll
<1>4. NoDayAhead' BY DEF TypeOK, Days, NoDayAhead
<1>5. InTheStore' BY DEF TypeOK, Days, Counter, CallsInRuns, CarriesAll, NoDayAhead, InTheStore
<1>6. BudgetSeesOwn'
  BY DEF TypeOK, Days, Counter, CallsInRuns, CarriesAll, NoDayAhead, InTheStore, BudgetSeesOwn
<1> QED BY <1>1, <1>2, <1>3, <1>4, <1>5, <1>6

LEMMA DroppedIInv ==
  ASSUME IInv, NEW p \in Processes, NEW k \in Keys, Dropped(p, k)
  PROVE  IInv'
<1> USE DEF IInv, Dropped, Answers
<1>1. TypeOK'
  <2>1. call' \in [Processes -> [Keys -> {"none", "sent", "served", "PerDay", "PerMinute"}]]
    BY DEF TypeOK
  <2>2. lost' \in Counter
    BY DEF TypeOK, Counter
  <2> QED BY <2>1, <2>2 DEF TypeOK
<1>2. CallsInRuns' BY DEF TypeOK, CallsInRuns
<1>3. CarriesAll' BY DEF TypeOK, CallsInRuns, CarriesAll
<1>4. NoDayAhead' BY DEF TypeOK, Days, NoDayAhead
<1>5. InTheStore' BY DEF TypeOK, Days, Counter, CallsInRuns, CarriesAll, NoDayAhead, InTheStore
<1>6. BudgetSeesOwn'
  BY DEF TypeOK, Days, Counter, CallsInRuns, CarriesAll, NoDayAhead, InTheStore, BudgetSeesOwn
<1> QED BY <1>1, <1>2, <1>3, <1>4, <1>5, <1>6

LEMMA DayPendingIInv ==
  ASSUME IInv, NEW p \in Processes, DayPending(p)
  PROVE  IInv'
<1> USE DEF IInv, DayPending, Goes
<1>1. TypeOK' BY DayAssumption DEF TypeOK, Days, Counter
<1>2. CallsInRuns' BY DEF TypeOK, CallsInRuns
<1>3. CarriesAll' BY DEF TypeOK, CallsInRuns, CarriesAll
<1>4. NoDayAhead' BY DEF TypeOK, Days, NoDayAhead
<1>5. InTheStore' BY DEF TypeOK, Days, Counter, CallsInRuns, CarriesAll, NoDayAhead, InTheStore
<1>6. BudgetSeesOwn'
  BY DEF TypeOK, Days, Counter, CallsInRuns, CarriesAll, NoDayAhead, InTheStore, BudgetSeesOwn
<1> QED BY <1>1, <1>2, <1>3, <1>4, <1>5, <1>6

LEMMA BumpIInv ==
  ASSUME IInv, NEW p \in Processes, Bump(p)
  PROVE  IInv'
<1> USE DEF IInv, Bump, Goes, TotalOf
<1>1. TypeOK'
  <2>1. carried[p] \in Counter /\ charged[p] \in Counter /\ today \in Days
    BY DEF TypeOK
  <2>2. ASSUME NEW k \in Keys
       PROVE  [spent[k] EXCEPT ![today] = spent[k][today] + carried[p][k]] \in [Days -> Nat]
    BY <2>1 DEF TypeOK, Counter
  <2>3. spent' \in [Keys -> [Days -> Nat]]
    BY <2>2
  <2>4. ASSUME NEW k \in Keys PROVE spent[k][today] + carried[p][k] \in Nat
    BY <2>1 DEF TypeOK, Counter
  <2>5. total' \in [Processes -> Counter]
    BY <2>1, <2>4 DEF TypeOK, Counter
  <2>6. pc' \in [Processes -> {"down", "seed", "run", "bump", "book"}]
    BY DEF TypeOK
  <2> QED BY <2>1, <2>2, <2>3, <2>4, <2>5, <2>6 DEF TypeOK
<1>2. CallsInRuns' BY DEF TypeOK, CallsInRuns
<1>3. CarriesAll' BY DEF TypeOK, CallsInRuns, CarriesAll
<1>4. NoDayAhead' BY DEF TypeOK, Days, NoDayAhead
<1>5. InTheStore'
  <2> SUFFICES ASSUME NEW q \in Processes, NEW j \in Keys, day'[q] = today'
               PROVE  IF pc'[q] = "book"
                      THEN own'[q][j] <= spent'[j][today'] /\ own'[q][j] <= total'[q][j]
                      ELSE own'[q][j] <= pending'[q][j] + spent'[j][today']
    BY DEF InTheStore
  <2>1. CASE q = p
    <3>1. spent'[j][today] = spent[j][today] + carried[p][j] BY DEF TypeOK
    <3>2. total'[p][j] = IF carried[p][j] > 0 THEN spent[j][today] + carried[p][j]
                                              ELSE charged[p][j]
      BY DEF TypeOK
    <3>3. carried[p] = pending[p] BY DEF CarriesAll
    <3>4. /\ own[p][j] <= pending[p][j] + spent[j][today]
          /\ own[p][j] <= charged[p][j] + pending[p][j]
      BY <2>1 DEF TypeOK, InTheStore, BudgetSeesOwn
    <3>5. /\ own[p][j] \in Nat /\ pending[p][j] \in Nat /\ charged[p][j] \in Nat
          /\ spent[j][today] \in Nat
      BY DEF TypeOK, Counter
    <3>6. pc'[q] = "book" /\ own'[q][j] = own[p][j] BY <2>1 DEF TypeOK
    <3> QED BY <2>1, <3>1, <3>2, <3>3, <3>4, <3>5, <3>6
  <2>2. CASE q # p
    BY <2>2 DEF TypeOK, Counter, CallsInRuns, CarriesAll, InTheStore, BudgetSeesOwn
  <2> QED BY <2>1, <2>2
<1>6. BudgetSeesOwn'
  BY DEF TypeOK, Days, Counter, CallsInRuns, CarriesAll, NoDayAhead, InTheStore, BudgetSeesOwn
<1> QED BY <1>1, <1>2, <1>3, <1>4, <1>5, <1>6

LEMMA DayFlushedIInv ==
  ASSUME IInv, NEW p \in Processes, DayFlushed(p)
  PROVE  IInv'
<1> USE DEF IInv, DayFlushed, Goes, None, NoLongerPending
<1>1. TypeOK'
  <2>1. ASSUME NEW k \in Keys PROVE pending[p][k] - carried[p][k] \in Nat
    BY DEF TypeOK, Counter, CarriesAll
  <2>2. pending' \in [Processes -> Counter]
    BY <2>1 DEF TypeOK, Counter
  <2>3. charged' \in [Processes -> Counter]
    BY DEF TypeOK
  <2>4. carried' \in [Processes -> Counter] /\ total' \in [Processes -> Counter]
    BY DEF TypeOK, Counter
  <2>5. pc' \in [Processes -> {"down", "seed", "run", "bump", "book"}]
    BY DEF TypeOK
  <2> QED BY <2>1, <2>2, <2>3, <2>4, <2>5 DEF TypeOK
<1>2. CallsInRuns' BY DEF TypeOK, CallsInRuns
<1>3. CarriesAll' BY DEF TypeOK, CallsInRuns, CarriesAll
<1>4. NoDayAhead' BY DEF TypeOK, Days, NoDayAhead
<1>5. InTheStore'
  <2> SUFFICES ASSUME NEW q \in Processes, NEW j \in Keys, day'[q] = today'
               PROVE  IF pc'[q] = "book"
                      THEN own'[q][j] <= spent'[j][today'] /\ own'[q][j] <= total'[q][j]
                      ELSE own'[q][j] <= pending'[q][j] + spent'[j][today']
    BY DEF InTheStore
  <2>1. CASE q = p
    BY <2>1 DEF TypeOK, Counter, CallsInRuns, CarriesAll, InTheStore
  <2>2. CASE q # p
    BY <2>2 DEF TypeOK, Counter, CallsInRuns, CarriesAll, InTheStore
  <2> QED BY <2>1, <2>2
<1>6. BudgetSeesOwn'
  <2> SUFFICES ASSUME NEW q \in Processes, NEW j \in Keys, day'[q] = today'
               PROVE  charged'[q][j] + pending'[q][j] >= own'[q][j]
    BY DEF BudgetSeesOwn
  <2>1. CASE q = p
    <3>1. /\ charged'[p][j] = total[p][j] /\ pending'[p][j] = pending[p][j] - carried[p][j]
          /\ own'[p][j] = own[p][j] /\ day[p] = today
      BY <2>1 DEF TypeOK
    <3>2. /\ total[p][j] \in Nat /\ pending[p][j] \in Nat /\ own[p][j] \in Nat
          /\ carried[p][j] = pending[p][j]
      BY DEF TypeOK, Counter, CarriesAll
    <3>3. own[p][j] <= total[p][j] BY <3>1 DEF InTheStore
    <3> QED BY <2>1, <3>1, <3>2, <3>3
  <2>2. CASE q # p
    BY <2>2 DEF TypeOK, BudgetSeesOwn
  <2> QED BY <2>1, <2>2
<1> QED BY <1>1, <1>2, <1>3, <1>4, <1>5, <1>6

LEMMA StopIInv ==
  ASSUME IInv, NEW p \in Processes, Stop(p)
  PROVE  IInv'
<1> USE DEF IInv, Stop, Goes, None, Written, Flying
<1>1. TypeOK'
  <2>1. None \in Counter
    BY DEF Counter
  <2>2. /\ charged' \in [Processes -> Counter] /\ pending' \in [Processes -> Counter]
       /\ carried' \in [Processes -> Counter] /\ total' \in [Processes -> Counter]
       /\ own' \in [Processes -> Counter]
    BY <2>1 DEF TypeOK
  <2>3. parked' \in [Processes -> [Keys -> 0 .. MaxDay + 1]]
    BY DayAssumption DEF TypeOK
  <2>4. ASSUME NEW k \in Keys
       PROVE  lost[k] + pending[p][k] - (IF pc[p] = "book" THEN carried[p][k] ELSE 0)
                + (IF call[p][k] = "served" THEN 1 ELSE 0) \in Nat
    BY DEF TypeOK, Counter, CarriesAll
  <2>5. lost' \in Counter
    BY <2>4 DEF Counter
  <2>6. call' \in [Processes -> [Keys -> {"none", "sent", "served", "PerDay", "PerMinute"}]]
    BY DEF TypeOK
  <2>7. pc' \in [Processes -> {"down", "seed", "run", "bump", "book"}]
    BY DEF TypeOK
  <2> QED BY <2>1, <2>2, <2>3, <2>4, <2>5, <2>6, <2>7 DEF TypeOK
<1>2. CallsInRuns' BY DEF TypeOK, CallsInRuns
<1>3. CarriesAll' BY DEF TypeOK, CallsInRuns, CarriesAll
<1>4. NoDayAhead' BY DEF TypeOK, Days, NoDayAhead
<1>5. InTheStore'
  <2> SUFFICES ASSUME NEW q \in Processes, NEW j \in Keys, day'[q] = today'
               PROVE  IF pc'[q] = "book"
                      THEN own'[q][j] <= spent'[j][today'] /\ own'[q][j] <= total'[q][j]
                      ELSE own'[q][j] <= pending'[q][j] + spent'[j][today']
    BY DEF InTheStore
  <2>1. CASE q = p
    BY <2>1 DEF TypeOK, Counter, CallsInRuns, CarriesAll, InTheStore
  <2>2. CASE q # p
    BY <2>2 DEF TypeOK, Counter, CallsInRuns, CarriesAll, InTheStore
  <2> QED BY <2>1, <2>2
<1>6. BudgetSeesOwn'
  BY DEF TypeOK, Days, Counter, CallsInRuns, CarriesAll, NoDayAhead, InTheStore, BudgetSeesOwn
<1> QED BY <1>1, <1>2, <1>3, <1>4, <1>5, <1>6

LEMMA NextIInv == IInv /\ [Next]_vars => IInv'
<1> SUFFICES ASSUME IInv, [Next]_vars PROVE IInv'
  OBVIOUS
<1>1. CASE Midnight BY <1>1, MidnightIInv
<1>2. CASE \E p \in Processes : Start(p) \/ Seed(p) \/ Flush(p) \/ Stop(p)
  BY <1>2, StartIInv, SeedIInv, DayPendingIInv, BumpIInv, DayFlushedIInv, StopIInv DEF Flush
<1>3. CASE \E p \in Processes, k \in Keys :
             Send(p, k) \/ Serve(p, k) \/ NoteServed(p, k) \/ Refused(p, k) \/ Dropped(p, k)
  BY <1>3, SendIInv, ServeIInv, NoteServedIInv, RefusedIInv, DroppedIInv
<1>4. CASE UNCHANGED vars
  BY <1>4 DEF vars, IInv, TypeOK, CallsInRuns, CarriesAll, NoDayAhead, InTheStore, BudgetSeesOwn
<1> QED BY <1>1, <1>2, <1>3, <1>4 DEF Next

LEMMA Inductive == Spec => []IInv
  BY InitIInv, NextIInv, PTL DEF Spec

(* Every count is a count: a flush never leaves a negative one behind.     *)
THEOREM TypeCorrect == Spec => []TypeOK
<1>1. IInv => TypeOK BY DEF IInv
<1> QED BY <1>1, Inductive, PTL

(* On the day it counts, the budget of a process shows at least what it was*)
(* itself served, through the flushes of any number of processes.          *)
THEOREM BudgetNeverShort == Spec => []BudgetSeesOwn
<1>1. IInv => BudgetSeesOwn BY DEF IInv
<1> QED BY <1>1, Inductive, PTL
-----------------------------------------------------------------------------
(* A key that is out.  An answer that refuses a key for the day was given  *)
(* when the day, or the one that ended under it, was all served.           *)
RefusedIsSpent ==
  \A p \in Processes, k \in Keys : call[p][k] = "PerDay" =>
    \/ served[k][today] = Limit
    \/ k \in late[p] /\ today - 1 \in Days /\ served[k][today - 1] = Limit

(* No key is out for longer than the night.                                *)
ParkedOverNight == \A p \in Processes, k \in Keys : parked[p][k] <= today + 1

ParkedInv == RefusedIsSpent /\ ParkedOverNight /\ ParkedIsSpent

(* What a step of a process may do to the keys that are out.               *)
SameDay ==
  /\ today' = today
  /\ \A k \in Keys, d \in Days : served[k][d] = Limit => served'[k][d] = Limit
  /\ \A p \in Processes, k \in Keys : call'[p][k] = "PerDay" =>
       \/ served'[k][today] = Limit
       \/ call[p][k] = "PerDay" /\ (k \in late[p] => k \in late'[p])
  /\ \A p \in Processes, k \in Keys :
       \/ parked'[p][k] = parked[p][k]
       \/ parked'[p][k] <= today
       \/ parked'[p][k] = today + 1 /\ call[p][k] = "PerDay"

LEMMA SameDayParked ==
  ASSUME TypeOK, TypeOK', ParkedInv, SameDay
  PROVE  ParkedInv'
<1> USE DEF ParkedInv
<1>1. today \in Nat /\ today \in Days /\ today' = today
  BY DayAssumption DEF TypeOK, Days, SameDay
<1>2. RefusedIsSpent'
  <2> SUFFICES ASSUME NEW p \in Processes, NEW k \in Keys, call'[p][k] = "PerDay"
               PROVE  \/ served'[k][today] = Limit
                      \/ /\ k \in late'[p] /\ today - 1 \in Days
                         /\ served'[k][today - 1] = Limit
    BY <1>1 DEF RefusedIsSpent
  <2>1. CASE served'[k][today] = Limit BY <2>1
  <2>2. CASE call[p][k] = "PerDay" /\ (k \in late[p] => k \in late'[p])
    <3>1. CASE served[k][today] = Limit BY <1>1, <3>1 DEF SameDay
    <3>2. CASE k \in late[p] /\ today - 1 \in Days /\ served[k][today - 1] = Limit
      BY <2>2, <3>2 DEF SameDay
    <3> QED BY <2>2, <3>1, <3>2 DEF RefusedIsSpent
  <2> QED BY <2>1, <2>2 DEF SameDay
<1>3. \A p \in Processes, k \in Keys : parked[p][k] \in Int /\ parked'[p][k] \in Int
  BY DayAssumption DEF TypeOK
<1>4. ParkedOverNight'
  <2> SUFFICES ASSUME NEW p \in Processes, NEW k \in Keys
               PROVE  parked'[p][k] <= today + 1
    BY <1>1 DEF ParkedOverNight
  <2>1. parked[p][k] <= today + 1 BY DEF ParkedOverNight
  <2>2. parked'[p][k] = parked[p][k] \/ parked'[p][k] <= today \/ parked'[p][k] = today + 1
    BY DEF SameDay
  <2> QED BY <1>1, <1>3, <2>1, <2>2
<1>5. ParkedIsSpent'
  <2> SUFFICES ASSUME NEW p \in Processes, NEW k \in Keys, parked'[p][k] > today
               PROVE  \E d \in {today, today - 1} \cap Days : served'[k][d] = Limit
    BY <1>1 DEF ParkedIsSpent
  <2>1. \/ parked[p][k] > today
        \/ call[p][k] = "PerDay"
    <3>1. ~ parked'[p][k] <= today BY <1>1, <1>3
    <3> QED BY <1>1, <1>3, <3>1 DEF SameDay
  <2>2. \E d \in {today, today - 1} \cap Days : served[k][d] = Limit
    <3>1. CASE parked[p][k] > today BY <3>1 DEF ParkedIsSpent
    <3>2. CASE call[p][k] = "PerDay" BY <1>1, <3>2 DEF RefusedIsSpent
    <3> QED BY <2>1, <3>1, <3>2
  <2> QED BY <2>2 DEF SameDay
<1> QED BY <1>2, <1>4, <1>5

LEMMA InitParked == Init => ParkedInv
BY DayAssumption DEF Init, ParkedInv, RefusedIsSpent, ParkedOverNight, ParkedIsSpent, None

LEMMA MidnightParked ==
  ASSUME IInv, IInv', ParkedInv, Midnight
  PROVE  ParkedInv'
<1> USE DEF ParkedInv
<1>1. TypeOK /\ TypeOK' BY DEF IInv
<1>2. /\ today \in Nat /\ today \in Days /\ today' = today + 1 /\ today' - 1 = today
      /\ served' = served /\ call' = call /\ parked' = parked
  BY <1>1, DayAssumption DEF TypeOK, Days, Midnight
<1>3. RefusedIsSpent'
  <2> SUFFICES ASSUME NEW p \in Processes, NEW k \in Keys, call[p][k] = "PerDay"
               PROVE  k \in late'[p] /\ today \in Days /\ served[k][today] = Limit
    BY <1>2 DEF RefusedIsSpent
  <2>1. late[p] = {} /\ k \in late'[p] BY DEF Midnight
  <2> QED BY <1>2, <2>1 DEF RefusedIsSpent
<1>4. \A p \in Processes, k \in Keys : parked[p][k] \in Int /\ parked[p][k] <= today + 1
  BY <1>1, DayAssumption DEF TypeOK, ParkedOverNight
<1>5. ParkedOverNight' BY <1>2, <1>4 DEF ParkedOverNight
<1>6. ParkedIsSpent' BY <1>2, <1>4 DEF ParkedIsSpent
<1> QED BY <1>3, <1>5, <1>6

(* The service goes on counting a day that is not all served.              *)
LEMMA ServeParked ==
  ASSUME IInv, NEW p \in Processes, NEW k \in Keys, Serve(p, k)
  PROVE  SameDay
<1>1. TypeOK BY DEF IInv
<1>2. PICK n : n = served[k][today] OBVIOUS
<1>3. n \in Nat /\ Limit \in Nat BY <1>1, <1>2, DayAssumption DEF TypeOK
<1>4. \A j \in Keys, d \in Days : served[j][d] = Limit => served'[j][d] = Limit
  <2> TAKE j \in Keys, d \in Days
  <2> HAVE served[j][d] = Limit
  <2>1. CASE served' = served BY <2>1
  <2>2. CASE /\ served[k][today] < Limit
             /\ served' = [served EXCEPT ![k] =
                             [served[k] EXCEPT ![today] = served[k][today] + 1]]
    <3>1. ~ (j = k /\ d = today) BY <1>2, <1>3, <2>2
    <3> QED BY <1>1, <2>2, <3>1 DEF TypeOK
  <2> QED BY <2>1, <2>2 DEF Serve
<1>5. ASSUME NEW q \in Processes, NEW j \in Keys, call'[q][j] = "PerDay"
      PROVE  \/ served'[j][today] = Limit
             \/ call[q][j] = "PerDay" /\ (j \in late[q] => j \in late'[q])
  <2>1. late' = late BY <1>1 DEF Serve, Answers, TypeOK
  <2>2. CASE q = p /\ j = k
    <3>1. CASE call'[p][k] = "served" BY <1>5, <2>2, <3>1
    <3>2. CASE served[k][today] = Limit BY <1>1, <1>4, <2>2, <3>2 DEF TypeOK
    <3>3. CASE call'[p][k] = "PerMinute" BY <1>5, <2>2, <3>3
    <3> QED BY <1>1, <3>1, <3>2, <3>3 DEF Serve, Answers, TypeOK
  <2>3. CASE ~ (q = p /\ j = k)
    <3>1. call'[q][j] = call[q][j] BY <1>1, <2>3 DEF Serve, Answers, TypeOK
    <3> QED BY <1>5, <2>1, <3>1
  <2> QED BY <2>2, <2>3
<1>6. today' = today /\ parked' = parked BY DEF Serve
<1> QED BY <1>4, <1>5, <1>6 DEF SameDay

(* A call that ends leaves the others as they are.                         *)
LEMMA AnswersParked ==
  ASSUME IInv, NEW p \in Processes, NEW k \in Keys, NEW c \in {"none", "sent"}, Answers(p, k, c)
  PROVE  \A q \in Processes, j \in Keys : call'[q][j] = "PerDay" =>
           call[q][j] = "PerDay" /\ (j \in late[q] => j \in late'[q])
<1>1. TypeOK BY DEF IInv
<1> SUFFICES ASSUME NEW q \in Processes, NEW j \in Keys, call'[q][j] = "PerDay"
             PROVE  call[q][j] = "PerDay" /\ (j \in late[q] => j \in late'[q])
  OBVIOUS
<1>2. ~ (q = p /\ j = k) BY <1>1 DEF Answers, TypeOK
<1> QED BY <1>1, <1>2 DEF Answers, TypeOK

LEMMA RefusedParked ==
  ASSUME IInv, NEW p \in Processes, NEW k \in Keys, Refused(p, k)
  PROVE  SameDay
<1>1. TypeOK BY DEF IInv
<1>2. Answers(p, k, "none") /\ today' = today /\ served' = served BY DEF Refused
<1>3. \A q \in Processes, j \in Keys :
        \/ parked'[q][j] = parked[q][j]
        \/ parked'[q][j] = today + 1 /\ call[q][j] = "PerDay"
  <2> SUFFICES ASSUME NEW q \in Processes, NEW j \in Keys
               PROVE  \/ parked'[q][j] = parked[q][j]
                      \/ parked'[q][j] = today + 1 /\ call[q][j] = "PerDay"
    OBVIOUS
  <2>1. CASE parked' = parked BY <2>1
  <2>2. CASE /\ call[p][k] = "PerDay"
             /\ parked' = [parked EXCEPT ![p] = [parked[p] EXCEPT ![k] = today + 1]]
    <3>1. CASE q = p /\ j = k BY <1>1, <2>2, <3>1 DEF TypeOK
    <3>2. CASE ~ (q = p /\ j = k) BY <1>1, <2>2, <3>2 DEF TypeOK
    <3> QED BY <3>1, <3>2
  <2> QED BY <2>1, <2>2 DEF Refused, NamesTheDay
<1>4. \A q \in Processes, j \in Keys : call'[q][j] = "PerDay" =>
        call[q][j] = "PerDay" /\ (j \in late[q] => j \in late'[q])
  BY <1>2, AnswersParked
<1> QED BY <1>2, <1>3, <1>4 DEF SameDay

LEMMA CallParked ==
  ASSUME IInv, NEW p \in Processes, NEW k \in Keys,
         Send(p, k) \/ NoteServed(p, k) \/ Dropped(p, k)
  PROVE  SameDay
<1>1. /\ Answers(p, k, "none") \/ Answers(p, k, "sent")
      /\ today' = today /\ served' = served /\ parked' = parked
  BY DEF Send, NoteServed, Dropped
<1>2. \A q \in Processes, j \in Keys : call'[q][j] = "PerDay" =>
        call[q][j] = "PerDay" /\ (j \in late[q] => j \in late'[q])
  BY <1>1, AnswersParked
<1> QED BY <1>1, <1>2 DEF SameDay

LEMMA RunParked ==
  ASSUME IInv, NEW p \in Processes, Start(p) \/ Seed(p) \/ Flush(p) \/ Stop(p)
  PROVE  SameDay
<1>1. TypeOK /\ today \in Nat BY DayAssumption DEF IInv, TypeOK, Days
<1>2. today' = today /\ served' = served
  BY DEF Start, Seed, Flush, DayPending, Bump, DayFlushed, Stop
<1>3. \A q \in Processes, j \in Keys :
        parked'[q][j] = parked[q][j] \/ parked'[q][j] <= today
  <2>1. parked' = parked \/ parked' = [parked EXCEPT ![p] = None]
    BY DEF Start, Seed, Flush, DayPending, Bump, DayFlushed, Stop
  <2>2. PICK none : none = None OBVIOUS
  <2>3. \A j \in Keys : none[j] = 0 BY <2>2 DEF None
  <2>4. parked = [q \in Processes |-> parked[q]] BY <1>1 DEF TypeOK
  <2>5. \A q \in Processes : parked'[q] = parked[q] \/ parked'[q] = none
    BY <2>1, <2>2, <2>4
  <2> QED BY <1>1, <2>3, <2>5
<1>4. \A q \in Processes, j \in Keys : call'[q][j] = "PerDay" =>
        call[q][j] = "PerDay" /\ (j \in late[q] => j \in late'[q])
  <2>1. \/ call' = call /\ late' = late
        \/ /\ call' = [call EXCEPT ![p] = [k \in Keys |-> "none"]]
           /\ late' = [late EXCEPT ![p] = {}]
    BY DEF Start, Seed, Flush, DayPending, Bump, DayFlushed, Stop
  <2>2. \A q \in Processes : \/ call'[q] = call[q] /\ late'[q] = late[q]
                             \/ \A j \in Keys : call'[q][j] = "none"
    <3>1. CASE call' = call /\ late' = late BY <3>1
    <3>2. CASE /\ call' = [call EXCEPT ![p] = [k \in Keys |-> "none"]]
               /\ late' = [late EXCEPT ![p] = {}]
      BY <1>1, <3>2 DEF TypeOK
    <3> QED BY <2>1, <3>1, <3>2
  <2> QED BY <2>2
<1> QED BY <1>2, <1>3, <1>4 DEF SameDay

LEMMA NextParked == IInv /\ IInv' /\ ParkedInv /\ [Next]_vars => ParkedInv'
<1> SUFFICES ASSUME IInv, IInv', ParkedInv, [Next]_vars PROVE ParkedInv'
  OBVIOUS
<1>1. CASE Midnight BY <1>1, MidnightParked
<1>2. SameDay => ParkedInv' BY SameDayParked DEF IInv
<1>3. CASE \E p \in Processes : Start(p) \/ Seed(p) \/ Flush(p) \/ Stop(p)
  BY <1>2, <1>3, RunParked
<1>4. CASE \E p \in Processes, k \in Keys :
             Send(p, k) \/ Serve(p, k) \/ NoteServed(p, k) \/ Refused(p, k) \/ Dropped(p, k)
  BY <1>2, <1>4, CallParked, ServeParked, RefusedParked
<1>5. CASE UNCHANGED vars
  BY <1>2, <1>5 DEF SameDay, vars
<1> QED BY <1>1, <1>3, <1>4, <1>5 DEF Next

(* A key is out for the day only when the service has served its whole day,*)
(* whatever the runs, the flushes and the midnights under an answer.       *)
THEOREM ParkedOnlyWhenSpent == Spec => []ParkedIsSpent
<1>1. ParkedInv => ParkedIsSpent BY DEF ParkedInv
<1> QED BY <1>1, Inductive, InitParked, NextParked, PTL DEF Spec
-----------------------------------------------------------------------------
(* The count.  A step moves the request of one process from one of the     *)
(* four accounts to another.                                               *)
Counts(v, s, n, u) ==
  SumFunctionOnSet(v, Days) = SumFunctionOnSet(s, Days) + n + SumFunctionOnSet(u, Processes)

(* They differ at x at most.                                               *)
Differ(S, f, h, x) ==
  /\ \A y \in S : f[y] \in Int /\ h[y] \in Int
  /\ \A y \in S : y # x => h[y] = f[y]

LEMMA SumUpdate ==
  ASSUME NEW S, IsFiniteSet(S), NEW f, NEW h, NEW x \in S, Differ(S, f, h, x)
  PROVE  /\ SumFunctionOnSet(f, S) \in Int /\ SumFunctionOnSet(h, S) \in Int
         /\ SumFunctionOnSet(h, S) = SumFunctionOnSet(f, S) - f[x] + h[x]
<1>1. PICK r : r = S \ {x} OBVIOUS
<1>2. IsFiniteSet(r) BY <1>1, FS_Subset
<1>3. \A y \in S : f[y] \in Int /\ h[y] \in Int BY DEF Differ
<1>4. SumFunctionOnSet(f, S) = f[x] + SumFunctionOnSet(f, r) BY <1>1, <1>3, SumAny
<1>5. SumFunctionOnSet(h, S) = h[x] + SumFunctionOnSet(h, r) BY <1>1, <1>3, SumAny
<1>6. SumFunctionOnSet(h, r) = SumFunctionOnSet(f, r)
  <2>1. \A y \in r : h[y] = f[y] BY <1>1 DEF Differ
  <2> QED BY <1>2, <2>1, SumSame
<1>7. SumFunctionOnSet(f, r) \in Int BY <1>1, <1>2, <1>3, SumType
<1>8. f[x] \in Int /\ h[x] \in Int BY <1>3
<1> QED BY <1>4, <1>5, <1>6, <1>7, <1>8

LEMMA SumZero ==
  ASSUME NEW S, IsFiniteSet(S), NEW f, \A x \in S : f[x] = 0
  PROVE  SumFunctionOnSet(f, S) = 0
<1> DEFINE G == {t \in SUBSET S : SumFunctionOnSet(f, t) = 0}
<1>1. {} \in G BY SumEmpty
<1>2. ASSUME NEW t \in SUBSET S, t # {}, \A x \in t : t \ {x} \in G PROVE t \in G
  <2>1. IsFiniteSet(t) BY FS_Subset
  <2>2. Pick(t) \in t BY <1>2, Picked
  <2>3. SumFunctionOnSet(f, t) = f[Pick(t)] + SumFunctionOnSet(f, t \ {Pick(t)})
    BY <1>2, <2>1, SumRec
  <2>4. SumFunctionOnSet(f, t \ {Pick(t)}) = 0 /\ f[Pick(t)] = 0 BY <1>2, <2>2
  <2> QED BY <2>3, <2>4
<1>3. \A t \in SUBSET S : t # {} /\ (\A x \in t : t \ {x} \in G) => t \in G BY <1>2
<1> HIDE DEF G
<1>4. \A t \in SUBSET S : t \in G BY <1>1, <1>3, OneLess
<1> QED BY <1>4 DEF G

(* Two books that differ on one day and for one process, by as much.       *)
Moved(v, s, n, u, w, t, m, z, d, p) ==
  /\ \A e \in Days : v[e] \in Int /\ s[e] \in Int /\ w[e] \in Int /\ t[e] \in Int
  /\ \A e \in Days : e # d => w[e] = v[e] /\ t[e] = s[e]
  /\ \A q \in Processes : u[q] \in Int /\ z[q] \in Int
  /\ \A q \in Processes : q # p => z[q] = u[q]
  /\ n \in Int /\ m \in Int
  /\ w[d] - v[d] = (t[d] - s[d]) + (m - n) + (z[p] - u[p])

LEMMA MovedCounts ==
  ASSUME NEW v, NEW s, NEW n, NEW u, NEW w, NEW t, NEW m, NEW z,
         NEW d \in Days, NEW p \in Processes,
         Counts(v, s, n, u), Moved(v, s, n, u, w, t, m, z, d, p)
  PROVE  Counts(w, t, m, z)
<1>1. IsFiniteSet(Days) /\ IsFiniteSet(Processes)
  BY FS_Interval, DayAssumption DEF Days
<1>2. /\ SumFunctionOnSet(v, Days) \in Int
      /\ SumFunctionOnSet(w, Days) = SumFunctionOnSet(v, Days) - v[d] + w[d]
  <2>1. Differ(Days, v, w, d) BY DEF Moved, Differ
  <2> QED BY <1>1, <2>1, SumUpdate
<1>3. /\ SumFunctionOnSet(s, Days) \in Int
      /\ SumFunctionOnSet(t, Days) = SumFunctionOnSet(s, Days) - s[d] + t[d]
  <2>1. Differ(Days, s, t, d) BY DEF Moved, Differ
  <2> QED BY <1>1, <2>1, SumUpdate
<1>4. /\ SumFunctionOnSet(u, Processes) \in Int
      /\ SumFunctionOnSet(z, Processes) = SumFunctionOnSet(u, Processes) - u[p] + z[p]
  <2>1. Differ(Processes, u, z, p) BY DEF Moved, Differ
  <2> QED BY <1>1, <2>1, SumUpdate
<1>5. /\ v[d] \in Int /\ w[d] \in Int /\ s[d] \in Int /\ t[d] \in Int
      /\ u[p] \in Int /\ z[p] \in Int /\ n \in Int /\ m \in Int
      /\ w[d] - v[d] = (t[d] - s[d]) + (m - n) + (z[p] - u[p])
  BY DEF Moved
<1>6. SumFunctionOnSet(v, Days) =
        SumFunctionOnSet(s, Days) + n + SumFunctionOnSet(u, Processes)
  BY DEF Counts
<1>7. SumFunctionOnSet(w, Days) =
        SumFunctionOnSet(t, Days) + m + SumFunctionOnSet(z, Processes)
  BY <1>2, <1>3, <1>4, <1>5, <1>6
<1> QED BY <1>7 DEF Counts

(* What one process has of a key's count and the store has not.            *)
Has(b, c, w, x) ==
  b - (IF c = "book" THEN w ELSE 0) + (IF x = "served" THEN 1 ELSE 0)

LEMMA HasInt ==
  ASSUME NEW b \in Int, NEW c, NEW w \in Int, NEW x
  PROVE  Has(b, c, w, x) \in Int
BY DEF Has

(* A step of process p keeps the count of key k.                           *)
Kept(p, k) ==
  /\ \A d \in Days : d # today => served'[k][d] = served[k][d] /\ spent'[k][d] = spent[k][d]
  /\ \A q \in Processes : q # p =>
       /\ pending'[q][k] = pending[q][k] /\ pc'[q] = pc[q]
       /\ carried'[q][k] = carried[q][k] /\ call'[q][k] = call[q][k]
  /\ served'[k][today] - served[k][today] =
       (spent'[k][today] - spent[k][today]) + (lost'[k] - lost[k])
         + (Has(pending'[p][k], pc'[p], carried'[p][k], call'[p][k])
              - Has(pending[p][k], pc[p], carried[p][k], call[p][k]))

LEMMA KeptCounts ==
  ASSUME TypeOK, TypeOK', CountedOnce, NEW p \in Processes, \A k \in Keys : Kept(p, k)
  PROVE  CountedOnce'
<1> SUFFICES ASSUME NEW k \in Keys
             PROVE  Counts(served'[k], spent'[k], lost'[k], Unwritten(k)')
  BY DEF CountedOnce, Counts
<1>1. PICK u : u = Unwritten(k) OBVIOUS
<1>2. PICK z : z = Unwritten(k)' OBVIOUS
<1>3. \A q \in Processes : u[q] = Has(pending[q][k], pc[q], carried[q][k], call[q][k])
  BY <1>1 DEF Unwritten, Written, Flying, Has
<1>4. \A q \in Processes : z[q] = Has(pending'[q][k], pc'[q], carried'[q][k], call'[q][k])
  BY <1>2 DEF Unwritten, Written, Flying, Has
<1>5. Counts(served[k], spent[k], lost[k], u) BY <1>1 DEF CountedOnce, Counts
<1>6. \A q \in Processes : u[q] \in Int /\ z[q] \in Int
  <2> TAKE q \in Processes
  <2>1. /\ pending[q][k] \in Int /\ carried[q][k] \in Int
        /\ pending'[q][k] \in Int /\ carried'[q][k] \in Int
    BY DEF TypeOK, Counter
  <2> QED BY <1>3, <1>4, <2>1, HasInt
<1>7. \A e \in Days : /\ served[k][e] \in Int /\ spent[k][e] \in Int
                      /\ served'[k][e] \in Int /\ spent'[k][e] \in Int
  BY DayAssumption DEF TypeOK
<1>8. lost[k] \in Int /\ lost'[k] \in Int /\ today \in Days BY DEF TypeOK, Counter
<1>9. \A q \in Processes : q # p => z[q] = u[q]
  BY <1>3, <1>4 DEF Kept
<1>10. Moved(served[k], spent[k], lost[k], u, served'[k], spent'[k], lost'[k], z, today, p)
  BY <1>3, <1>4, <1>6, <1>7, <1>8, <1>9 DEF Kept, Moved
<1>11. Counts(served'[k], spent'[k], lost'[k], z) BY <1>5, <1>8, <1>10, MovedCounts
<1> QED BY <1>2, <1>11

SameCount ==
  UNCHANGED <<served, spent, lost, pending, pc, carried, call>>

LEMMA SameCounts ==
  ASSUME CountedOnce, SameCount
  PROVE  CountedOnce'
BY DEF CountedOnce, SameCount, Unwritten, Written, Flying

LEMMA InitCounts == Init => CountedOnce
<1> SUFFICES ASSUME Init, NEW k \in Keys
             PROVE  Counts(served[k], spent[k], lost[k], Unwritten(k))
  BY DEF CountedOnce, Counts
<1>1. \A p \in Processes : Unwritten(k)[p] = 0
  BY DEF Init, Unwritten, Written, Flying, None
<1>2. PICK u : u = Unwritten(k) OBVIOUS
<1>3. SumFunctionOnSet(u, Processes) = 0 BY <1>1, <1>2, DayAssumption, SumZero
<1>4. \A d \in Days : served[k][d] = spent[k][d] BY DEF Init
<1>5. IsFiniteSet(Days) BY FS_Interval, DayAssumption DEF Days
<1>6. SumFunctionOnSet(served[k], Days) = SumFunctionOnSet(spent[k], Days)
  BY <1>4, <1>5, SumSame
<1>7. SumFunctionOnSet(spent[k], Days) \in Int
  <2>1. \A d \in Days : spent[k][d] \in Int BY DEF Init
  <2> QED BY <1>5, <2>1, SumType
<1>8. lost[k] = 0 BY DEF Init, None
<1> QED BY <1>2, <1>3, <1>6, <1>7, <1>8 DEF Counts

(* Start and Seed open a budget that holds nothing.                        *)
LEMMA StartCounts ==
  ASSUME IInv, NEW p \in Processes, Start(p)
  PROVE  \A k \in Keys : Kept(p, k)
<1>1. TypeOK /\ pending[p] = None BY DEF IInv, CallsInRuns, Start
<1> SUFFICES ASSUME NEW k \in Keys PROVE Kept(p, k)
  OBVIOUS
<1>2. served' = served /\ spent' = spent /\ lost' = lost /\ carried' = carried /\ call' = call
  BY DEF Start
<1>3. \A q \in Processes : q # p => pending'[q] = pending[q] /\ pc'[q] = pc[q]
  BY <1>1 DEF Start, Goes, TypeOK
<1>4. pending'[p] = pending[p] /\ pc[p] = "down" /\ pc'[p] = "seed"
  BY <1>1 DEF Start, Goes, TypeOK
<1>5. /\ pending[p][k] \in Int /\ lost[k] \in Int
      /\ served[k][today] \in Int /\ spent[k][today] \in Int
  BY <1>1, DayAssumption DEF TypeOK, Counter
<1> QED BY <1>2, <1>3, <1>4, <1>5 DEF Kept, Has

LEMMA SeedCounts ==
  ASSUME IInv, NEW p \in Processes, Seed(p)
  PROVE  \A k \in Keys : Kept(p, k)
<1>1. TypeOK BY DEF IInv
<1> SUFFICES ASSUME NEW k \in Keys PROVE Kept(p, k)
  OBVIOUS
<1>2. /\ served' = served /\ spent' = spent /\ lost' = lost /\ carried' = carried /\ call' = call
      /\ pending' = pending
  BY DEF Seed
<1>3. \A q \in Processes : q # p => pc'[q] = pc[q] BY <1>1 DEF Seed, Goes, TypeOK
<1>4. pc[p] = "seed" /\ pc'[p] = "run" BY <1>1 DEF Seed, Goes, TypeOK
<1>5. /\ pending[p][k] \in Int /\ lost[k] \in Int
      /\ served[k][today] \in Int /\ spent[k][today] \in Int
  BY <1>1, DayAssumption DEF TypeOK, Counter
<1> QED BY <1>2, <1>3, <1>4, <1>5 DEF Kept, Has

(* A call changes hands; a served one stays with its process.              *)
LEMMA SendCounts ==
  ASSUME IInv, NEW p \in Processes, NEW k \in Keys, Send(p, k) \/ Refused(p, k)
  PROVE  \A j \in Keys : Kept(p, j)
<1>1. TypeOK BY DEF IInv
<1> SUFFICES ASSUME NEW j \in Keys PROVE Kept(p, j)
  OBVIOUS
<1>2. /\ served' = served /\ spent' = spent /\ lost' = lost /\ carried' = carried /\ pc' = pc
      /\ pending' = pending
  BY DEF Send, Refused
<1>3. \A q \in Processes : q # p => call'[q] = call[q]
  BY <1>1 DEF Send, Refused, Answers, TypeOK
<1>4. call'[p][j] = "served" <=> call[p][j] = "served"
  BY <1>1 DEF Send, Refused, Answers, TypeOK
<1>5. /\ pending[p][j] \in Int /\ carried[p][j] \in Int /\ lost[j] \in Int
      /\ served[j][today] \in Int /\ spent[j][today] \in Int
  BY <1>1, DayAssumption DEF TypeOK, Counter
<1> QED BY <1>2, <1>3, <1>4, <1>5 DEF Kept, Has

LEMMA ServeCounts ==
  ASSUME IInv, NEW p \in Processes, NEW k \in Keys, Serve(p, k)
  PROVE  \A j \in Keys : Kept(p, j)
<1>1. TypeOK BY DEF IInv
<1> SUFFICES ASSUME NEW j \in Keys PROVE Kept(p, j)
  OBVIOUS
<1>2. /\ spent' = spent /\ lost' = lost /\ carried' = carried /\ pc' = pc /\ pending' = pending
      /\ call[p][k] = "sent"
  BY DEF Serve
<1>3. \A q \in Processes : q # p => call'[q] = call[q]
  BY <1>1 DEF Serve, Answers, TypeOK
<1>4. /\ pending[p][j] \in Int /\ carried[p][j] \in Int /\ lost[j] \in Int
      /\ served[j][today] \in Int /\ spent[j][today] \in Int /\ today \in Days
  BY <1>1, DayAssumption DEF TypeOK, Counter
<1>5. \A d \in Days : d # today => served'[j][d] = served[j][d]
  <2>1. CASE served' = served BY <2>1
  <2>2. CASE served' = [served EXCEPT ![k] =
                          [served[k] EXCEPT ![today] = served[k][today] + 1]]
    <3>1. CASE j = k BY <1>1, <2>2, <3>1 DEF TypeOK
    <3>2. CASE j # k BY <1>1, <2>2, <3>2 DEF TypeOK
    <3> QED BY <3>1, <3>2
  <2> QED BY <2>1, <2>2 DEF Serve
<1>6. CASE j = k /\ call'[p][k] = "served"
  <2>1. served'[k][today] = served[k][today] + 1 BY <1>1, <1>6 DEF Serve, Answers, TypeOK
  <2> QED BY <1>2, <1>3, <1>4, <1>5, <1>6, <2>1 DEF Kept, Has
<1>7. CASE ~ (j = k /\ call'[p][k] = "served")
  <2>1. served'[j][today] = served[j][today] BY <1>1, <1>7 DEF Serve, Answers, TypeOK
  <2>2. call'[p][j] = "served" <=> call[p][j] = "served"
    BY <1>1, <1>2, <1>7 DEF Serve, Answers, TypeOK
  <2> QED BY <1>2, <1>3, <1>4, <1>5, <2>1, <2>2 DEF Kept, Has
<1> QED BY <1>6, <1>7

(* What is noted is pending; what was pending of another day is lost.      *)
LEMMA NoteServedCounts ==
  ASSUME IInv, NEW p \in Processes, NEW k \in Keys, NoteServed(p, k)
  PROVE  \A j \in Keys : Kept(p, j)
<1>1. TypeOK /\ pc[p] = "run" BY DEF IInv, CallsInRuns, NoteServed
<1> SUFFICES ASSUME NEW j \in Keys PROVE Kept(p, j)
  OBVIOUS
<1>2. /\ served' = served /\ spent' = spent /\ carried' = carried /\ pc' = pc
      /\ call[p][k] = "served"
  BY DEF NoteServed
<1>3. \A q \in Processes : q # p => call'[q] = call[q] /\ pending'[q] = pending[q]
  BY <1>1 DEF NoteServed, Answers, TypeOK
<1>4. PICK n : n = Rolled(p, pending) OBVIOUS
<1>5. n \in Counter BY <1>1, <1>4 DEF TypeOK, Counter, Rolled, None
<1>6. /\ pending'[p] = [n EXCEPT ![k] = n[k] + 1]
      /\ lost'[j] = lost[j] + pending[p][j] - n[j]
  BY <1>1, <1>4 DEF NoteServed, TypeOK
<1>7. /\ pending[p][j] \in Int /\ carried[p][j] \in Int /\ lost[j] \in Int
      /\ served[j][today] \in Int /\ spent[j][today] \in Int /\ n[j] \in Int
  BY <1>1, <1>5, DayAssumption DEF TypeOK, Counter
<1>8. CASE j = k
  <2>1. pending'[p][j] = n[j] + 1 BY <1>5, <1>6, <1>8 DEF Counter
  <2>2. call'[p][j] = "none" BY <1>1, <1>8 DEF NoteServed, Answers, TypeOK
  <2> QED BY <1>1, <1>2, <1>3, <1>6, <1>7, <1>8, <2>1, <2>2 DEF Kept, Has
<1>9. CASE j # k
  <2>1. pending'[p][j] = n[j] BY <1>5, <1>6, <1>9 DEF Counter
  <2>2. call'[p][j] = call[p][j] BY <1>1, <1>9 DEF NoteServed, Answers, TypeOK
  <2>3. PICK y \in Int : y = IF call[p][j] = "served" THEN 1 ELSE 0 OBVIOUS
  <2>4. /\ Has(pending'[p][j], pc'[p], carried'[p][j], call'[p][j]) = n[j] + y
        /\ Has(pending[p][j], pc[p], carried[p][j], call[p][j]) = pending[p][j] + y
    BY <1>1, <1>2, <1>7, <2>1, <2>2, <2>3 DEF Has
  <2> QED BY <1>1, <1>2, <1>3, <1>6, <1>7, <2>4 DEF Kept
<1> QED BY <1>8, <1>9

LEMMA DroppedCounts ==
  ASSUME IInv, NEW p \in Processes, NEW k \in Keys, Dropped(p, k)
  PROVE  \A j \in Keys : Kept(p, j)
<1>1. TypeOK BY DEF IInv
<1> SUFFICES ASSUME NEW j \in Keys PROVE Kept(p, j)
  OBVIOUS
<1>2. /\ served' = served /\ spent' = spent /\ carried' = carried /\ pc' = pc
      /\ pending' = pending
  BY DEF Dropped
<1>3. \A q \in Processes : q # p => call'[q] = call[q]
  BY <1>1 DEF Dropped, Answers, TypeOK
<1>4. /\ pending[p][j] \in Int /\ carried[p][j] \in Int /\ lost[j] \in Int
      /\ served[j][today] \in Int /\ spent[j][today] \in Int
  BY <1>1, DayAssumption DEF TypeOK, Counter
<1>5. CASE j = k
  <2>1. lost'[j] = lost[j] + (IF call[p][j] = "served" THEN 1 ELSE 0)
    BY <1>1, <1>5 DEF Dropped, TypeOK, Counter
  <2>2. call'[p][j] = "none" BY <1>1, <1>5 DEF Dropped, Answers, TypeOK
  <2> QED BY <1>2, <1>3, <1>4, <2>1, <2>2 DEF Kept, Has
<1>6. CASE j # k
  <2>1. lost'[j] = lost[j] /\ call'[p][j] = call[p][j]
    BY <1>1, <1>6 DEF Dropped, Answers, TypeOK, Counter
  <2> QED BY <1>2, <1>3, <1>4, <2>1 DEF Kept, Has
<1> QED BY <1>5, <1>6

(* A flush: read, written, booked.                                         *)
LEMMA DayPendingCounts ==
  ASSUME IInv, NEW p \in Processes, DayPending(p)
  PROVE  \A k \in Keys : Kept(p, k)
<1>1. TypeOK BY DEF IInv
<1> SUFFICES ASSUME NEW k \in Keys PROVE Kept(p, k)
  OBVIOUS
<1>2. /\ served' = served /\ spent' = spent /\ lost' = lost /\ call' = call
      /\ pending' = pending
  BY DEF DayPending
<1>3. \A q \in Processes : q # p => pc'[q] = pc[q] /\ carried'[q] = carried[q]
  BY <1>1 DEF DayPending, Goes, TypeOK
<1>4. pc[p] = "run" /\ pc'[p] = "bump" BY <1>1 DEF DayPending, Goes, TypeOK
<1>5. /\ pending[p][k] \in Int /\ lost[k] \in Int
      /\ served[k][today] \in Int /\ spent[k][today] \in Int
  BY <1>1, DayAssumption DEF TypeOK, Counter
<1> QED BY <1>2, <1>3, <1>4, <1>5 DEF Kept, Has

LEMMA BumpCounts ==
  ASSUME IInv, NEW p \in Processes, Bump(p)
  PROVE  \A k \in Keys : Kept(p, k)
<1>1. TypeOK BY DEF IInv
<1> SUFFICES ASSUME NEW k \in Keys PROVE Kept(p, k)
  OBVIOUS
<1>2. /\ served' = served /\ lost' = lost /\ call' = call /\ pending' = pending
      /\ carried' = carried
  BY DEF Bump
<1>3. \A q \in Processes : q # p => pc'[q] = pc[q]
  BY <1>1 DEF Bump, Goes, TypeOK
<1>4. pc[p] = "bump" /\ pc'[p] = "book" BY <1>1 DEF Bump, Goes, TypeOK
<1>5. /\ spent'[k][today] = spent[k][today] + carried[p][k]
      /\ \A d \in Days : d # today => spent'[k][d] = spent[k][d]
  <2>1. spent'[k] = [spent[k] EXCEPT ![today] = spent[k][today] + carried[p][k]]
    BY DEF Bump
  <2> QED BY <1>1, <2>1 DEF TypeOK
<1>6. /\ pending[p][k] \in Int /\ carried[p][k] \in Int /\ lost[k] \in Int
      /\ served[k][today] \in Int /\ spent[k][today] \in Int
  BY <1>1, DayAssumption DEF TypeOK, Counter
<1> QED BY <1>2, <1>3, <1>4, <1>5, <1>6 DEF Kept, Has

LEMMA DayFlushedCounts ==
  ASSUME IInv, NEW p \in Processes, DayFlushed(p)
  PROVE  \A k \in Keys : Kept(p, k)
<1>1. TypeOK BY DEF IInv
<1> SUFFICES ASSUME NEW k \in Keys PROVE Kept(p, k)
  OBVIOUS
<1>2. served' = served /\ spent' = spent /\ lost' = lost /\ call' = call
  BY DEF DayFlushed
<1>3. \A q \in Processes : q # p =>
        pc'[q] = pc[q] /\ pending'[q] = pending[q] /\ carried'[q] = carried[q]
  BY <1>1 DEF DayFlushed, Goes, TypeOK
<1>4. pc[p] = "book" /\ pc'[p] = "run" BY <1>1 DEF DayFlushed, Goes, TypeOK
<1>5. pending'[p][k] = pending[p][k] - carried[p][k]
  BY <1>1 DEF DayFlushed, NoLongerPending, TypeOK
<1>6. /\ pending[p][k] \in Int /\ carried[p][k] \in Int /\ lost[k] \in Int
      /\ served[k][today] \in Int /\ spent[k][today] \in Int
  BY <1>1, DayAssumption DEF TypeOK, Counter
<1> QED BY <1>2, <1>3, <1>4, <1>5, <1>6 DEF Kept, Has

LEMMA StopCounts ==
  ASSUME IInv, NEW p \in Processes, Stop(p)
  PROVE  \A k \in Keys : Kept(p, k)
<1>1. TypeOK BY DEF IInv
<1> SUFFICES ASSUME NEW k \in Keys PROVE Kept(p, k)
  OBVIOUS
<1>2. served' = served /\ spent' = spent BY DEF Stop
<1>3. \A q \in Processes : q # p =>
        /\ pc'[q] = pc[q] /\ pending'[q] = pending[q]
        /\ carried'[q] = carried[q] /\ call'[q] = call[q]
  BY <1>1 DEF Stop, Goes, TypeOK
<1>4. pc'[p] = "down" /\ pending'[p][k] = 0 /\ call'[p][k] = "none"
  BY <1>1 DEF Stop, Goes, TypeOK, None
<1>5. lost'[k] = lost[k] + pending[p][k] - (IF pc[p] = "book" THEN carried[p][k] ELSE 0)
                   + (IF call[p][k] = "served" THEN 1 ELSE 0)
  BY DEF Stop, Written, Flying
<1>6. /\ pending[p][k] \in Int /\ carried[p][k] \in Int /\ lost[k] \in Int
      /\ served[k][today] \in Int /\ spent[k][today] \in Int
  BY <1>1, DayAssumption DEF TypeOK, Counter
<1> QED BY <1>2, <1>3, <1>4, <1>5, <1>6 DEF Kept, Has

LEMMA NextCounts == IInv /\ IInv' /\ CountedOnce /\ [Next]_vars => CountedOnce'
<1> SUFFICES ASSUME IInv, IInv', CountedOnce, [Next]_vars PROVE CountedOnce'
  OBVIOUS
<1>1. CASE Midnight \/ UNCHANGED vars
  <2>1. SameCount BY <1>1 DEF Midnight, vars, SameCount
  <2> QED BY <2>1, SameCounts
<1>2. ASSUME NEW p \in Processes, \A k \in Keys : Kept(p, k) PROVE CountedOnce'
  BY <1>2, KeptCounts DEF IInv
<1>3. CASE \E p \in Processes : Start(p) \/ Seed(p) \/ Flush(p) \/ Stop(p)
  <2>1. PICK p \in Processes : Start(p) \/ Seed(p) \/ Flush(p) \/ Stop(p) BY <1>3
  <2>2. \A k \in Keys : Kept(p, k)
    BY <2>1, StartCounts, SeedCounts, DayPendingCounts, BumpCounts, DayFlushedCounts, StopCounts
    DEF Flush
  <2> QED BY <1>2, <2>2
<1>4. CASE \E p \in Processes, k \in Keys :
             Send(p, k) \/ Serve(p, k) \/ NoteServed(p, k) \/ Refused(p, k) \/ Dropped(p, k)
  <2>1. PICK p \in Processes, k \in Keys :
          Send(p, k) \/ Serve(p, k) \/ NoteServed(p, k) \/ Refused(p, k) \/ Dropped(p, k)
    BY <1>4
  <2>2. \A j \in Keys : Kept(p, j)
    BY <2>1, SendCounts, ServeCounts, NoteServedCounts, DroppedCounts
  <2> QED BY <1>2, <2>2
<1> QED BY <1>1, <1>3, <1>4 DEF Next

(* Every request the service served is once in the count, or among those   *)
(* no count holds any more, through flushes, midnights and runs cut short. *)
THEOREM EveryRequestOnce == Spec => []CountedOnce
BY Inductive, InitCounts, NextCounts, PTL DEF Spec
=============================================================================

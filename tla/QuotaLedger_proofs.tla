------------------------ MODULE QuotaLedger_proofs -------------------------
(***************************************************************************)
(* Theorems about QuotaLedger for every pool, every set of callers, every   *)
(* width of the window, every ceiling and every cost.                      *)
(*                                                                         *)
(* The invariant has three parts.  Calls: a bucket's inflightReq is the     *)
(* number of its live reservations, and an uninformed bucket grants only    *)
(* when that is zero.  Tokens: a bucket's inflight is the sum of what they  *)
(* hold; a call that holds less than its estimate took the whole ceiling    *)
(* and is alone in holding any, so giving back its whole estimate takes     *)
(* from nobody, until a new ceiling upsets the key.  Slots: a slot holds    *)
(* what one second booked, the latest of those that share it.  That a       *)
(* caller's instant is a second old at most makes a slot safe to reuse: a   *)
(* booking that finds it held is of the same second, and one that finds it  *)
(* released is the first of its second.                                    *)
(***************************************************************************)
EXTENDS QuotaLedger, FiniteSetTheorems, TLAPS

-----------------------------------------------------------------------------
(* Sums.  A sum is a recursive function over the subsets of a finite set;  *)
(* what it does for every set follows from a least one that it fails for.  *)

(* What holds of the empty set, and of a set as soon as it holds of those  *)
(* with one element less, holds of every finite set.                       *)
LEMMA OneLess ==
  ASSUME NEW S, IsFiniteSet(S), NEW G, {} \in G,
         \A t \in SUBSET S : t # {} /\ (\A x \in t : t \ {x} \in G) => t \in G
  PROVE  \A t \in SUBSET S : t \in G
<1> SUFFICES ASSUME \E t \in SUBSET S : t \notin G PROVE FALSE
  OBVIOUS
<1>1. FiniteSubsetsOf(S) = SUBSET S
  BY FS_FiniteSubsetsOfFinite
<1>2. IsWellFoundedOn(StrictSubsetOrdering(S), SUBSET S)
  <2>1. IsWellFoundedOn(StrictSubsetOrdering(S), FiniteSubsetsOf(S))
    BY FS_StrictSubsetOrderingWellFounded
  <2> QED BY <1>1, <2>1
<1> DEFINE T == {t \in SUBSET S : t \notin G}
<1>3. T \subseteq SUBSET S /\ T # {} OBVIOUS
<1>4. \E t \in T : \A u \in T : ~ (<<u, t>> \in StrictSubsetOrdering(S))
  <2> HIDE DEF T
  <2> QED BY <1>2, <1>3, WFMin
<1>5. PICK t \in T : \A u \in T : ~ (<<u, t>> \in StrictSubsetOrdering(S))
  BY <1>4
<1>6. t # {} OBVIOUS
<1>7. ASSUME NEW x \in t PROVE t \ {x} \in G
  <2>1. t \ {x} \in SUBSET S /\ t \ {x} # t /\ t \ {x} \subseteq t OBVIOUS
  <2>2. <<t \ {x}, t>> \in StrictSubsetOrdering(S) BY <2>1 DEF StrictSubsetOrdering
  <2> QED BY <1>5, <2>1, <2>2
<1> QED BY <1>6, <1>7

Pick(s) == CHOOSE x \in s : TRUE

(* The sums of f over the subsets that D holds.                            *)
Totals(f, D, g) ==
  g = [s \in D |-> IF s = {} THEN 0 ELSE f[Pick(s)] + g[s \ {Pick(s)}]]

LEMMA SumIs ==
  ASSUME NEW f, NEW S
  PROVE  SumFunctionOnSet(f, S) = (CHOOSE g : Totals(f, SUBSET S, g))[S]
BY DEF SumFunctionOnSet, FoldFunctionOnSet, MapThenFoldSet, Totals, Pick

LEMMA Picked ==
  ASSUME NEW s, s # {} PROVE Pick(s) \in s
BY DEF Pick

LEMMA LeastSize ==
  ASSUME NEW T, T \subseteq Nat, T # {}
  PROVE  \E n \in T : \A m \in T : n <= m
<1>1. \E n \in T : \A m \in T : ~ (<<m, n>> \in OpToRel(<, Nat))
  BY NatLessThanWellFounded, WFMin
<1>2. PICK n \in T : \A m \in T : ~ (<<m, n>> \in OpToRel(<, Nat)) BY <1>1
<1>3. ASSUME NEW m \in T, m < n PROVE FALSE
  <2>1. <<m, n>> \in Nat \X Nat /\ <<m, n>>[1] < <<m, n>>[2] BY <1>3
  <2> QED BY <1>2, <2>1 DEF OpToRel
<1> QED BY <1>3

(* They exist: those up to a size give those up to the next.               *)
LEMMA TotalsExist ==
  ASSUME NEW f, NEW S, IsFiniteSet(S)
  PROVE  \E g : Totals(f, SUBSET S, g)
<1> DEFINE Upto(n) == {s \in SUBSET S : Cardinality(s) <= n}
           Missing == {n \in Nat : ~ \E g : Totals(f, Upto(n), g)}
<1>1. ASSUME Missing # {} PROVE FALSE
  <2>1. PICK n \in Missing : \A m \in Missing : n <= m
    <3> HIDE DEF Missing
    <3>1. Missing \subseteq Nat BY DEF Missing
    <3> QED BY <1>1, <3>1, LeastSize
  <2>2. \A s \in SUBSET S : IsFiniteSet(s) /\ Cardinality(s) \in Nat /\ (Cardinality(s) = 0 <=> s = {})
    BY FS_Subset, FS_CardinalityType, FS_EmptySet
  <2>3. n # 0
    <3>1. Upto(0) = {{}} BY <2>2
    <3>2. PICK g : g = [s \in {{}} |-> 0] OBVIOUS
    <3>3. Totals(f, {{}}, g) BY <3>2 DEF Totals
    <3>4. 0 \notin Missing BY <3>1, <3>3
    <3> QED BY <2>1, <3>4
  <2>4. n - 1 \in Nat /\ n - 1 \notin Missing
    <3>1. n \in Nat OBVIOUS
    <3>2. n - 1 \in Nat /\ ~ n <= n - 1 BY <2>3, <3>1
    <3> HIDE DEF Missing
    <3> QED BY <2>1, <3>2
  <2>5. PICK g : Totals(f, Upto(n - 1), g) BY <2>4
  <2>6. PICK h : h = [s \in Upto(n) |-> IF s = {} THEN 0 ELSE f[Pick(s)] + g[s \ {Pick(s)}]]
    OBVIOUS
  <2>7. ASSUME NEW s \in Upto(n), s # {}
        PROVE  /\ s \ {Pick(s)} \in Upto(n - 1) /\ s \ {Pick(s)} \in Upto(n)
    <3>1. Cardinality(s \ {Pick(s)}) = Cardinality(s) - 1
      BY <2>2, <2>7, Picked, FS_RemoveElement
    <3> QED BY <2>2, <2>7, <3>1
  <2>8. ASSUME NEW s \in Upto(n), s # {} PROVE g[s \ {Pick(s)}] = h[s \ {Pick(s)}]
    <3>1. PICK t : t = s \ {Pick(s)} OBVIOUS
    <3>2. t \in Upto(n - 1) /\ t \in Upto(n) BY <2>7, <2>8, <3>1
    <3>3. g[t] = IF t = {} THEN 0 ELSE f[Pick(t)] + g[t \ {Pick(t)}]
      <4> HIDE DEF Upto
      <4> QED BY <2>5, <3>2 DEF Totals
    <3>4. h[t] = IF t = {} THEN 0 ELSE f[Pick(t)] + g[t \ {Pick(t)}]
      <4> HIDE DEF Upto
      <4> QED BY <2>6, <3>2
    <3> QED BY <3>1, <3>3, <3>4
  <2>9. h = [s \in Upto(n) |-> IF s = {} THEN 0 ELSE f[Pick(s)] + h[s \ {Pick(s)}]]
    <3> HIDE DEF Upto
    <3> QED BY <2>6, <2>8
  <2>10. Totals(f, Upto(n), h)
    <3> HIDE DEF Upto
    <3> QED BY <2>9 DEF Totals
  <2> QED BY <2>1, <2>10
<1>2. Cardinality(S) \in Nat /\ Upto(Cardinality(S)) = SUBSET S
  BY FS_Subset, FS_CardinalityType
<1> QED BY <1>1, <1>2

Sums(f, S, g) ==
  \A t \in SUBSET S : g[t] = IF t = {} THEN 0 ELSE f[Pick(t)] + g[t \ {Pick(t)}]

LEMMA SumTotals ==
  ASSUME NEW f, NEW S, IsFiniteSet(S)
  PROVE  \E g : SumFunctionOnSet(f, S) = g[S] /\ Sums(f, S, g)
<1>1. PICK g : g = CHOOSE h : Totals(f, SUBSET S, h) OBVIOUS
<1>2. Totals(f, SUBSET S, g) BY <1>1, TotalsExist
<1>3. Sums(f, S, g) BY <1>2 DEF Totals, Sums
<1>4. SumFunctionOnSet(f, S) = g[S] BY <1>1, SumIs
<1> QED BY <1>3, <1>4, Zenon

(* The sum over a set, from those over its subsets.                        *)
LEMMA SumRec ==
  ASSUME NEW f, NEW S, IsFiniteSet(S)
  PROVE  SumFunctionOnSet(f, S) =
           IF S = {} THEN 0 ELSE f[Pick(S)] + SumFunctionOnSet(f, S \ {Pick(S)})
<1>1. PICK g : SumFunctionOnSet(f, S) = g[S] /\ Sums(f, S, g)
  BY SumTotals
<1>2. PICK r : r = S \ {Pick(S)} OBVIOUS
<1>3. IsFiniteSet(r) /\ r \in SUBSET S BY <1>2, FS_Subset
<1>4. PICK h : SumFunctionOnSet(f, r) = h[r] /\ Sums(f, r, h)
  BY <1>3, SumTotals
<1> DEFINE G == {t \in SUBSET r : g[t] = h[t]}
<1>5. {} \in G BY <1>1, <1>3, <1>4 DEF Sums
<1>6. ASSUME NEW t \in SUBSET r, t # {}, \A x \in t : t \ {x} \in G PROVE t \in G
  <2>1. t \ {Pick(t)} \in G BY <1>6, Picked
  <2>2. t \in SUBSET S BY <1>3
  <2> QED BY <1>1, <1>4, <1>6, <2>1, <2>2 DEF Sums
<1> HIDE DEF G
<1>7. r \in G BY <1>3, <1>5, <1>6, OneLess
<1>8. g[r] = h[r] BY <1>7 DEF G
<1>9. S \in SUBSET S OBVIOUS
<1> QED BY <1>1, <1>2, <1>4, <1>8, <1>9 DEF Sums

LEMMA SumEmpty == \A f : SumFunctionOnSet(f, {}) = 0
BY SumRec, FS_EmptySet

LEMMA SumType ==
  ASSUME NEW S, IsFiniteSet(S), NEW f, \A x \in S : f[x] \in Int
  PROVE  SumFunctionOnSet(f, S) \in Int
<1> DEFINE G == {t \in SUBSET S : SumFunctionOnSet(f, t) \in Int}
<1>1. {} \in G BY SumEmpty
<1>2. ASSUME NEW t \in SUBSET S, t # {}, \A x \in t : t \ {x} \in G PROVE t \in G
  <2>1. IsFiniteSet(t) BY FS_Subset
  <2>2. Pick(t) \in t BY <1>2, Picked
  <2>3. SumFunctionOnSet(f, t) = f[Pick(t)] + SumFunctionOnSet(f, t \ {Pick(t)})
    BY <1>2, <2>1, SumRec
  <2>4. SumFunctionOnSet(f, t \ {Pick(t)}) \in Int BY <1>2, <2>2
  <2> QED BY <2>2, <2>3, <2>4
<1>3. \A t \in SUBSET S : t # {} /\ (\A x \in t : t \ {x} \in G) => t \in G BY <1>2
<1> HIDE DEF G
<1>4. \A t \in SUBSET S : t \in G BY <1>1, <1>3, OneLess
<1> QED BY <1>4 DEF G

(* Any element may go first.                                               *)
LEMMA SumAny ==
  ASSUME NEW S, IsFiniteSet(S), NEW f, \A y \in S : f[y] \in Int, NEW x \in S
  PROVE  SumFunctionOnSet(f, S) = f[x] + SumFunctionOnSet(f, S \ {x})
<1> DEFINE Sum(t) == SumFunctionOnSet(f, t)
           G == {t \in SUBSET S : \A y \in t : Sum(t) = f[y] + Sum(t \ {y})}
<1>1. {} \in G OBVIOUS
<1>2. ASSUME NEW t \in SUBSET S, t # {}, \A y \in t : t \ {y} \in G PROVE t \in G
  <2> SUFFICES ASSUME NEW y \in t PROVE Sum(t) = f[y] + Sum(t \ {y})
    OBVIOUS
  <2>1. PICK c \in t : c = Pick(t) BY <1>2, Picked
  <2>2. IsFiniteSet(t) BY FS_Subset
  <2>3. Sum(t) = f[c] + Sum(t \ {c}) BY <1>2, <2>1, <2>2, SumRec
  <2>4. CASE y = c BY <2>3, <2>4
  <2>5. CASE y # c
    <3>1. t \ {c} \in G /\ t \ {y} \in G BY <1>2
    <3>2. Sum(t \ {c}) = f[y] + Sum((t \ {c}) \ {y}) BY <2>5, <3>1
    <3>3. Sum(t \ {y}) = f[c] + Sum((t \ {y}) \ {c}) BY <2>5, <3>1
    <3>4. PICK r : r = (t \ {c}) \ {y} /\ r = (t \ {y}) \ {c} OBVIOUS
    <3>5. IsFiniteSet(r) /\ \A z \in r : f[z] \in Int BY <3>4, FS_Subset
    <3>6. Sum(r) \in Int BY <3>5, SumType
    <3>7. f[c] \in Int /\ f[y] \in Int OBVIOUS
    <3>8. Sum(t) = f[c] + (f[y] + Sum(r)) BY <2>3, <3>2, <3>4
    <3>9. Sum(t \ {y}) = f[c] + Sum(r) BY <3>3, <3>4
    <3> HIDE DEF Sum
    <3> QED BY <3>6, <3>7, <3>8, <3>9
  <2> QED BY <2>4, <2>5
<1>3. \A t \in SUBSET S : t # {} /\ (\A y \in t : t \ {y} \in G) => t \in G BY <1>2
<1> HIDE DEF G
<1>4. \A t \in SUBSET S : t \in G BY <1>1, <1>3, OneLess
<1> QED BY <1>4 DEF G

LEMMA SumSame ==
  ASSUME NEW S, IsFiniteSet(S), NEW f, NEW h, \A x \in S : f[x] = h[x]
  PROVE  SumFunctionOnSet(f, S) = SumFunctionOnSet(h, S)
<1> DEFINE G == {t \in SUBSET S : SumFunctionOnSet(f, t) = SumFunctionOnSet(h, t)}
<1>1. {} \in G BY SumEmpty
<1>2. ASSUME NEW t \in SUBSET S, t # {}, \A x \in t : t \ {x} \in G PROVE t \in G
  <2>1. IsFiniteSet(t) BY FS_Subset
  <2>2. Pick(t) \in t BY <1>2, Picked
  <2>3. /\ SumFunctionOnSet(f, t) = f[Pick(t)] + SumFunctionOnSet(f, t \ {Pick(t)})
        /\ SumFunctionOnSet(h, t) = h[Pick(t)] + SumFunctionOnSet(h, t \ {Pick(t)})
    BY <1>2, <2>1, SumRec
  <2>4. SumFunctionOnSet(f, t \ {Pick(t)}) = SumFunctionOnSet(h, t \ {Pick(t)}) BY <1>2, <2>2
  <2> QED BY <2>2, <2>3, <2>4
<1>3. \A t \in SUBSET S : t # {} /\ (\A x \in t : t \ {x} \in G) => t \in G BY <1>2
<1> HIDE DEF G
<1>4. \A t \in SUBSET S : t \in G BY <1>1, <1>3, OneLess
<1> QED BY <1>4 DEF G

LEMMA SumNat ==
  ASSUME NEW S, IsFiniteSet(S), NEW f, \A x \in S : f[x] \in Nat
  PROVE  SumFunctionOnSet(f, S) \in Nat
<1> DEFINE G == {t \in SUBSET S : SumFunctionOnSet(f, t) \in Nat}
<1>1. {} \in G BY SumEmpty
<1>2. ASSUME NEW t \in SUBSET S, t # {}, \A x \in t : t \ {x} \in G PROVE t \in G
  <2>1. IsFiniteSet(t) BY FS_Subset
  <2>2. Pick(t) \in t BY <1>2, Picked
  <2>3. SumFunctionOnSet(f, t) = f[Pick(t)] + SumFunctionOnSet(f, t \ {Pick(t)})
    BY <1>2, <2>1, SumRec
  <2>4. SumFunctionOnSet(f, t \ {Pick(t)}) \in Nat BY <1>2, <2>2
  <2> QED BY <2>2, <2>3, <2>4
<1>3. \A t \in SUBSET S : t # {} /\ (\A x \in t : t \ {x} \in G) => t \in G BY <1>2
<1> HIDE DEF G
<1>4. \A t \in SUBSET S : t \in G BY <1>1, <1>3, OneLess
<1> QED BY <1>4 DEF G

LEMMA SumUnion ==
  ASSUME NEW S, IsFiniteSet(S), NEW R, IsFiniteSet(R), S \cap R = {},
         NEW f, \A x \in S \cup R : f[x] \in Nat
  PROVE  SumFunctionOnSet(f, S \cup R) = SumFunctionOnSet(f, S) + SumFunctionOnSet(f, R)
<1> DEFINE Sum(t) == SumFunctionOnSet(f, t)
           G == {t \in SUBSET S : Sum(t \cup R) = Sum(t) + Sum(R)}
<1>0. Sum(R) \in Nat BY SumNat
<1>1. {} \in G
  <2>1. Sum({}) = 0 BY SumEmpty
  <2>2. {} \cup R = R OBVIOUS
  <2> HIDE DEF Sum
  <2> QED BY <1>0, <2>1, <2>2
<1>2. ASSUME NEW t \in SUBSET S, t # {}, \A x \in t : t \ {x} \in G PROVE t \in G
  <2>1. PICK x \in t : TRUE BY <1>2
  <2>2. IsFiniteSet(t) /\ IsFiniteSet(t \cup R) BY FS_Subset, FS_Union
  <2>3. Sum(t) = f[x] + Sum(t \ {x}) BY <2>2, SumAny
  <2>4. Sum(t \cup R) = f[x] + Sum((t \cup R) \ {x}) BY <2>2, SumAny
  <2>5. (t \cup R) \ {x} = (t \ {x}) \cup R OBVIOUS
  <2>6. Sum((t \ {x}) \cup R) = Sum(t \ {x}) + Sum(R) BY <1>2
  <2>7. IsFiniteSet(t \ {x}) BY <2>2, FS_RemoveElement
  <2>8. Sum(t \ {x}) \in Nat /\ f[x] \in Nat BY <2>7, SumNat
  <2>9. PICK s, r, a : s = Sum(t \ {x}) /\ r = Sum(R) /\ a = f[x] OBVIOUS
  <2>10. Sum(t \cup R) = a + (s + r) BY <2>4, <2>5, <2>6, <2>9
  <2>11. Sum(t) = a + s BY <2>3, <2>9
  <2>12. a + (s + r) = (a + s) + r BY <1>0, <2>8, <2>9
  <2>13. Sum(t \cup R) = Sum(t) + Sum(R) BY <2>9, <2>10, <2>11, <2>12
  <2> QED BY <2>13
<1>3. \A t \in SUBSET S : t # {} /\ (\A x \in t : t \ {x} \in G) => t \in G BY <1>2
<1>4. \A t \in SUBSET S : t \in G
  <2> HIDE DEF G
  <2> QED BY <1>1, <1>3, OneLess
<1>5. S \in SUBSET S OBVIOUS
<1> QED BY <1>4, <1>5

LEMMA SumMore ==
  ASSUME NEW R, IsFiniteSet(R), NEW S \in SUBSET R, NEW f, \A x \in R : f[x] \in Nat
  PROVE  SumFunctionOnSet(f, S) <= SumFunctionOnSet(f, R)
<1>1. IsFiniteSet(S) /\ IsFiniteSet(R \ S) /\ S \cap (R \ S) = {} /\ S \cup (R \ S) = R
  BY FS_Subset
<1>2. SumFunctionOnSet(f, S \cup (R \ S)) = SumFunctionOnSet(f, S) + SumFunctionOnSet(f, R \ S)
  BY <1>1, SumUnion
<1>3. PICK a, b : a = SumFunctionOnSet(f, S) /\ b = SumFunctionOnSet(f, R \ S) OBVIOUS
<1>4. a \in Nat /\ b \in Nat BY <1>1, <1>3, SumNat
<1>5. a <= a + b BY <1>4
<1>6. SumFunctionOnSet(f, R) = a + b BY <1>1, <1>2, <1>3
<1> QED BY <1>3, <1>5, <1>6

(* What is zero adds nothing.                                              *)
LEMMA SumBut0 ==
  ASSUME NEW R, IsFiniteSet(R), NEW S \in SUBSET R, NEW f,
         \A x \in R : f[x] \in Nat, \A x \in R \ S : f[x] = 0
  PROVE  SumFunctionOnSet(f, R) = SumFunctionOnSet(f, S)
<1>1. IsFiniteSet(S) /\ IsFiniteSet(R \ S) /\ S \cap (R \ S) = {} /\ S \cup (R \ S) = R
  BY FS_Subset
<1>2. SumFunctionOnSet(f, S \cup (R \ S)) = SumFunctionOnSet(f, S) + SumFunctionOnSet(f, R \ S)
  BY <1>1, SumUnion
<1>3. SumFunctionOnSet(f, S) \in Nat BY <1>1, SumNat
<1>4. SumFunctionOnSet(f, R \ S) = 0
  <2> DEFINE G == {t \in SUBSET (R \ S) : SumFunctionOnSet(f, t) = 0}
  <2>1. {} \in G BY SumEmpty
  <2>2. ASSUME NEW t \in SUBSET (R \ S), t # {}, \A x \in t : t \ {x} \in G PROVE t \in G
    <3>1. IsFiniteSet(t) BY <1>1, FS_Subset
    <3>2. Pick(t) \in t BY <2>2, Picked
    <3>3. SumFunctionOnSet(f, t) = f[Pick(t)] + SumFunctionOnSet(f, t \ {Pick(t)})
      BY <2>2, <3>1, SumRec
    <3>4. SumFunctionOnSet(f, t \ {Pick(t)}) = 0 BY <2>2, <3>2
    <3>5. f[Pick(t)] = 0 BY <3>2
    <3> QED BY <3>3, <3>4, <3>5
  <2>3. \A t \in SUBSET (R \ S) : t # {} /\ (\A x \in t : t \ {x} \in G) => t \in G BY <2>2
  <2>4. \A t \in SUBSET (R \ S) : t \in G
    <3> HIDE DEF G
    <3>1. PICK D : D = R \ S OBVIOUS
    <3>2. /\ IsFiniteSet(D)
          /\ \A t \in SUBSET D : t # {} /\ (\A x \in t : t \ {x} \in G) => t \in G
      BY <1>1, <2>3, <3>1
    <3>3. \A t \in SUBSET D : t \in G BY ONLY <2>1, <3>2, OneLess
    <3> QED BY <3>1, <3>3
  <2> QED BY <2>4
<1>5. PICK a : a = SumFunctionOnSet(f, S) OBVIOUS
<1>6. a + 0 = a BY <1>3, <1>5
<1>7. SumFunctionOnSet(f, R) = a + 0 BY <1>1, <1>2, <1>4, <1>5
<1> QED BY <1>5, <1>6, <1>7

(* The terms under other names.                                            *)
LEMMA SumImage ==
  ASSUME NEW R, IsFiniteSet(R), NEW p, \A x, y \in R : p[x] = p[y] => x = y,
         NEW f, NEW h, \A x \in R : h[x] = f[p[x]] /\ f[p[x]] \in Nat
  PROVE  SumFunctionOnSet(h, R) = SumFunctionOnSet(f, {p[x] : x \in R})
<1> DEFINE Im(t) == {p[x] : x \in t}
           G == {t \in SUBSET R : SumFunctionOnSet(h, t) = SumFunctionOnSet(f, Im(t))}
<1>1. {} \in G
  <2>1. Im({}) = {} OBVIOUS
  <2> QED BY <2>1, SumEmpty
<1>2. ASSUME NEW t \in SUBSET R, t # {}, \A x \in t : t \ {x} \in G PROVE t \in G
  <2>1. PICK x \in t : TRUE BY <1>2
  <2>2. IsFiniteSet(t) /\ IsFiniteSet(Im(t))
    <3>1. IsFiniteSet(t) BY FS_Subset
    <3>2. [y \in t |-> p[y]] \in Surjection(t, Im(t)) BY DEF Surjection
    <3> HIDE DEF Im
    <3> QED BY <3>1, <3>2, FS_Surjection
  <2>3. p[x] \in Im(t) /\ \A y \in Im(t) : f[y] \in Int OBVIOUS
  <2>4. SumFunctionOnSet(h, t) = h[x] + SumFunctionOnSet(h, t \ {x})
    <3>1. \A y \in t : h[y] \in Int OBVIOUS
    <3> QED BY <2>2, <3>1, SumAny
  <2>5. SumFunctionOnSet(f, Im(t)) = f[p[x]] + SumFunctionOnSet(f, Im(t) \ {p[x]})
    <3> HIDE DEF Im
    <3> QED BY <2>2, <2>3, SumAny
  <2>6. Im(t) \ {p[x]} = Im(t \ {x}) OBVIOUS
  <2>7. SumFunctionOnSet(h, t \ {x}) = SumFunctionOnSet(f, Im(t \ {x})) BY <1>2
  <2> QED BY <2>4, <2>5, <2>6, <2>7
<1>3. \A t \in SUBSET R : t # {} /\ (\A x \in t : t \ {x} \in G) => t \in G BY <1>2
<1>4. \A t \in SUBSET R : t \in G
  <2> HIDE DEF G
  <2> QED BY <1>1, <1>3, OneLess
<1>5. R \in SUBSET R OBVIOUS
<1> QED BY <1>4, <1>5

(* Sums over parts that do not meet, summed.                               *)
Grouped(U, f, H, B, g) ==
  /\ IsFiniteSet(U) /\ IsFiniteSet(H)
  /\ \A x \in U : f[x] \in Nat
  /\ \A i \in H : B[i] \in SUBSET U /\ g[i] = SumFunctionOnSet(f, B[i])
  /\ \A i, j \in H : i # j => B[i] \cap B[j] = {}

LEMMA SumGroups ==
  ASSUME NEW U, NEW f, NEW H, NEW B, NEW g, Grouped(U, f, H, B, g)
  PROVE  SumFunctionOnSet(g, H) = SumFunctionOnSet(f, UNION {B[i] : i \in H})
<1> USE DEF Grouped
<1> DEFINE All(t) == UNION {B[i] : i \in t}
           G == {t \in SUBSET H : SumFunctionOnSet(g, t) = SumFunctionOnSet(f, All(t))}
<1>1. {} \in G
  <2>1. All({}) = {} OBVIOUS
  <2> QED BY <2>1, SumEmpty
<1>2. ASSUME NEW t \in SUBSET H, t # {}, \A x \in t : t \ {x} \in G PROVE t \in G
  <2>1. PICK i \in t : TRUE BY <1>2
  <2>2. PICK r : r = t \ {i} OBVIOUS
  <2>3. IsFiniteSet(t) BY FS_Subset
  <2>4. All(r) \in SUBSET U /\ B[i] \in SUBSET U BY <2>2
  <2>5. IsFiniteSet(All(r)) /\ IsFiniteSet(B[i]) BY <2>4, FS_Subset
  <2>6. \A j \in t : g[j] \in Int
    <3> SUFFICES ASSUME NEW j \in t PROVE g[j] \in Int OBVIOUS
    <3>1. IsFiniteSet(B[j]) BY FS_Subset
    <3>2. \A x \in B[j] : f[x] \in Nat OBVIOUS
    <3>3. SumFunctionOnSet(f, B[j]) \in Nat BY <3>1, <3>2, SumNat
    <3> QED BY <3>3
  <2>7. SumFunctionOnSet(g, t) = g[i] + SumFunctionOnSet(g, r)
    BY <2>2, <2>3, <2>6, SumAny
  <2>8. B[i] \cap All(r) = {} BY <2>2
  <2>9. All(t) = B[i] \cup All(r) BY <2>2
  <2>10. SumFunctionOnSet(f, B[i] \cup All(r))
           = SumFunctionOnSet(f, B[i]) + SumFunctionOnSet(f, All(r))
    <3>1. \A x \in B[i] \cup All(r) : f[x] \in Nat BY <2>4
    <3> HIDE DEF All
    <3> QED BY <2>5, <2>8, <3>1, SumUnion
  <2>11. SumFunctionOnSet(g, r) = SumFunctionOnSet(f, All(r)) BY <1>2, <2>2
  <2>12. g[i] = SumFunctionOnSet(f, B[i]) OBVIOUS
  <2>13. SumFunctionOnSet(g, t) = SumFunctionOnSet(f, All(t))
    <3> HIDE DEF All
    <3> QED BY <2>7, <2>9, <2>10, <2>11, <2>12
  <2> QED BY <2>13
<1>3. \A t \in SUBSET H : t # {} /\ (\A x \in t : t \ {x} \in G) => t \in G BY <1>2
<1>4. \A t \in SUBSET H : t \in G
  <2> HIDE DEF G
  <2> QED BY <1>1, <1>3, OneLess
<1>5. H \in SUBSET H OBVIOUS
<1> QED BY <1>4, <1>5

-----------------------------------------------------------------------------
(* Ticks, seconds, minutes and slots.                                       *)

LEMMA Division ==
  ASSUME NEW n \in Nat \ {0}, NEW t \in Nat
  PROVE  /\ t \div n \in Nat /\ t % n \in 0 .. n - 1
         /\ t = n * (t \div n) + (t % n)
<1>1. t % n \in 0 .. n - 1 OBVIOUS
<1>2. t = n * (t \div n) + (t % n) BY SMTT(30)
<1>3. t \div n \in Int OBVIOUS
<1>4. t \div n \in Nat BY SMTT(30)
<1> QED BY <1>1, <1>2, <1>4

LEMMA Products ==
  ASSUME NEW n \in Nat \ {0}, NEW x \in Int, NEW y \in Int, n * x < n * y PROVE x < y
BY SMTT(30)

LEMMA WindowIs == Window \in Nat \ {0} /\ Window = TicksPerSecond * WindowSecs
<1>1. TicksPerSecond \in Nat \ {0} /\ WindowSecs \in Nat \ {0} BY QuotaAssumption
<1>2. \A a, b \in Nat \ {0} : a * b \in Nat \ {0} BY SMTT(30)
<1> QED BY <1>1, <1>2 DEF Window

(* The second of a tick, and the ticks of a second.                        *)
LEMMA SecIs ==
  ASSUME NEW t \in Nat
  PROVE  /\ SecOf(t) \in Nat
         /\ TicksPerSecond * SecOf(t) <= t
         /\ t < TicksPerSecond * SecOf(t) + TicksPerSecond
<1>1. TicksPerSecond \in Nat \ {0} BY QuotaAssumption
<1>2. /\ t \div TicksPerSecond \in Nat /\ t % TicksPerSecond \in 0 .. TicksPerSecond - 1
      /\ t = TicksPerSecond * (t \div TicksPerSecond) + (t % TicksPerSecond)
  BY <1>1, Division
<1>3. PICK q, m, r : /\ q = t \div TicksPerSecond /\ m = TicksPerSecond * q
                     /\ r = t % TicksPerSecond
  OBVIOUS
<1>4. \A a, b \in Nat : a * b \in Nat BY SMTT(30)
<1>5. q \in Nat /\ m \in Nat /\ r \in 0 .. TicksPerSecond - 1 /\ t = m + r
  BY <1>1, <1>2, <1>3, <1>4
<1> QED BY <1>1, <1>3, <1>5 DEF SecOf

(* Less than n seconds of ticks apart, at most n seconds apart.             *)
LEMMA SecsApart ==
  ASSUME NEW t \in Nat, NEW u \in Nat, NEW n \in Nat, u - t < TicksPerSecond * n
  PROVE  SecOf(u) - SecOf(t) <= n
<1>1. PICK T \in Nat \ {0} : T = TicksPerSecond BY QuotaAssumption
<1>2. PICK a \in Nat, b \in Nat : a = SecOf(t) /\ b = SecOf(u) BY SecIs
<1>3. T * b <= u /\ t < T * a + T BY <1>1, <1>2, SecIs
<1>4. \A x, y \in Nat : x * y \in Nat BY SMTT(30)
<1>5. PICK p \in Nat, q \in Nat, r \in Nat : p = T * b /\ q = T * a /\ r = T * n BY <1>4
<1>6. p < q + T + r BY <1>1, <1>3, <1>5
<1>7. \A x, y, z \in Nat : x * (y + 1 + z) = x * y + x + x * z BY SMTT(30)
<1>8. T * b < T * (a + 1 + n) BY <1>5, <1>6, <1>7
<1>9. b < a + 1 + n BY <1>8, Products
<1> QED BY <1>2, <1>9

LEMMA SecsInOrder ==
  ASSUME NEW t \in Nat, NEW u \in Nat, t <= u PROVE SecOf(t) <= SecOf(u)
<1>1. TicksPerSecond * 0 = 0 BY QuotaAssumption
<1>2. CASE t = u BY <1>2, SecIs
<1>3. CASE t < u
  <2>1. t - u < TicksPerSecond * 0 BY <1>1, <1>3
  <2>2. SecOf(t) - SecOf(u) <= 0 BY <2>1, SecsApart
  <2> QED BY <2>2, SecIs
<1> QED BY <1>2, <1>3

LEMMA SecsOrder ==
  ASSUME NEW t \in Nat, NEW u \in Nat, SecOf(t) < SecOf(u) PROVE t < u
BY SecsInOrder, SecIs

(* Two ticks of one second are less than a second apart.                    *)
LEMMA OneSecond ==
  ASSUME NEW t \in Nat, NEW u \in Nat, SecOf(t) = SecOf(u)
  PROVE  u - t < TicksPerSecond
<1>1. PICK T \in Nat \ {0} : T = TicksPerSecond BY QuotaAssumption
<1>2. PICK a \in Nat : a = SecOf(t) BY SecIs
<1>3. \A x, y \in Nat : x * y \in Nat BY SMTT(30)
<1>4. PICK q \in Nat : q = T * a BY <1>3
<1>5. q <= t /\ u < q + T BY <1>1, <1>2, <1>4, SecIs
<1> QED BY <1>1, <1>5

(* A second apart at most, in the same second or the next.                  *)
LEMMA SecNext ==
  ASSUME NEW t \in Nat, NEW u \in Nat, u - t <= TicksPerSecond
  PROVE  SecOf(u) <= SecOf(t) + 1
<1>1. PICK a \in Nat, b \in Nat : a = SecOf(t) /\ b = SecOf(u) BY SecIs
<1>2. PICK T \in Nat \ {0} : T = TicksPerSecond BY QuotaAssumption
<1>3. T * b <= u /\ t < T * a + T BY <1>1, <1>2, SecIs
<1>4. \A x, y \in Nat : x * y \in Nat /\ x * (y + 2) = x * y + x + x BY SMTT(30)
<1>5. T * b < T * (a + 2) BY <1>2, <1>3, <1>4
<1>6. b < a + 2 BY <1>5, Products
<1> QED BY <1>1, <1>6

(* Past the first window, as many seconds as it has have gone by.           *)
LEMMA SecsPast ==
  ASSUME NEW t \in Nat, Window <= t PROVE WindowSecs <= SecOf(t)
<1>1. PICK a \in Nat : a = SecOf(t) BY SecIs
<1>2. PICK T \in Nat \ {0}, V \in Nat \ {0} : T = TicksPerSecond /\ V = WindowSecs
  BY QuotaAssumption
<1>3. T * V <= t /\ t < T * a + T BY <1>1, <1>2, SecIs, WindowIs
<1>4. \A x, y \in Nat : x * y \in Nat /\ x * (y + 1) = x * y + x BY SMTT(30)
<1>5. T * V < T * (a + 1) BY <1>2, <1>3, <1>4
<1>6. V < a + 1 BY <1>5, Products
<1> QED BY <1>1, <1>2, <1>6

LEMMA MinuteIs ==
  ASSUME NEW t \in Nat
  PROVE  /\ MinuteOf(t) \in Nat
         /\ \A u \in Nat : t <= u => MinuteOf(t) <= MinuteOf(u)
         /\ \A u \in Nat : t + Window <= u => MinuteOf(t) < MinuteOf(u)
<1>1. PICK W \in Nat \ {0} : W = Window BY WindowIs
<1>2. \A x, y \in Nat : x * y \in Nat BY SMTT(30)
<1>3. \A u \in Nat : /\ MinuteOf(u) \in Nat /\ W * MinuteOf(u) \in Nat
                     /\ W * MinuteOf(u) <= u /\ u < W * MinuteOf(u) + W
  <2> SUFFICES ASSUME NEW u \in Nat
               PROVE  /\ MinuteOf(u) \in Nat /\ W * MinuteOf(u) \in Nat
                      /\ W * MinuteOf(u) <= u /\ u < W * MinuteOf(u) + W
    OBVIOUS
  <2>1. /\ u \div W \in Nat /\ u % W \in 0 .. W - 1
        /\ u = W * (u \div W) + (u % W)
    BY Division
  <2>2. PICK q, r : q = u \div W /\ r = u % W OBVIOUS
  <2>3. PICK m \in Nat : m = W * q BY <1>2, <2>1, <2>2
  <2>4. u = m + r /\ r \in 0 .. W - 1 BY <2>1, <2>2, <2>3
  <2>5. MinuteOf(u) = q BY <1>1, <2>2 DEF MinuteOf
  <2>6. W * MinuteOf(u) = m BY <2>3, <2>5
  <2>7. q \in Nat /\ m <= u /\ u < m + W BY <2>1, <2>2, <2>4
  <2> QED BY <2>5, <2>6, <2>7
<1>4. \A x, y \in Nat : x * (y + 1) = x * y + x BY SMTT(30)
<1>5. ASSUME NEW u \in Nat, t <= u PROVE MinuteOf(t) <= MinuteOf(u)
  <2>1. PICK a \in Nat, b \in Nat : a = MinuteOf(t) /\ b = MinuteOf(u) BY <1>3
  <2>2. W * a < W * b + W BY <1>3, <1>5, <2>1
  <2>3. W * a < W * (b + 1) BY <1>4, <2>2
  <2>4. a < b + 1 BY <2>3, Products
  <2> QED BY <2>1, <2>4
<1>6. ASSUME NEW u \in Nat, t + W <= u PROVE MinuteOf(t) < MinuteOf(u)
  <2>1. PICK a \in Nat, b \in Nat : a = MinuteOf(t) /\ b = MinuteOf(u) BY <1>3
  <2>2. W * a + W < W * b + W BY <1>3, <1>6, <2>1
  <2>3. W * a < W * b BY <1>2, <2>2
  <2>4. a < b BY <2>3, Products
  <2> QED BY <2>1, <2>4
<1> QED BY <1>1, <1>3, <1>5, <1>6

LEMMA SlotIs ==
  ASSUME NEW r \in Nat
  PROVE  /\ SlotOf(r) \in Slots
         /\ \A s \in Nat :
              SlotOf(r) = SlotOf(s) /\ r - s <= WindowSecs /\ s - r <= WindowSecs => r = s
<1>1. PICK n \in Nat \ {0} : n = WindowSecs + 1 BY QuotaAssumption
<1>2. \A x, y \in Nat : x * y \in Nat BY SMTT(30)
<1>3. \A s \in Nat : SlotOf(s) = s % n BY <1>1 DEF SlotOf
<1>4. SlotOf(r) \in Slots BY <1>1, <1>3, Division, QuotaAssumption DEF Slots
<1>5. ASSUME NEW s \in Nat, SlotOf(r) = SlotOf(s), r - s <= WindowSecs, s - r <= WindowSecs
      PROVE  r = s
  <2>0. /\ r \div n \in Nat /\ s \div n \in Nat /\ r % n \in Nat
        /\ r = n * (r \div n) + (r % n) /\ s = n * (s \div n) + (s % n)
        /\ r % n = s % n
    <3>1. r % n = s % n BY <1>3, <1>5
    <3>2. r \div n \in Nat /\ r % n \in 0 .. n - 1 /\ r = n * (r \div n) + (r % n)
      BY Division
    <3>3. s \div n \in Nat /\ s = n * (s \div n) + (s % n) BY Division
    <3>4. r % n \in Nat BY <3>2
    <3> QED BY <3>1, <3>2, <3>3, <3>4
  <2>1. PICK a \in Nat, b \in Nat, m \in Nat :
          r = n * a + m /\ s = n * b + m
    BY <2>0
  <2>2. PICK p \in Nat, q \in Nat : p = n * a /\ q = n * b BY <1>2
  <2>3. p < q + n /\ q < p + n BY <1>1, <1>5, <2>1, <2>2, QuotaAssumption
  <2>4. \A x, y \in Nat : x * (y + 1) = x * y + x BY SMTT(30)
  <2>5. n * a < n * (b + 1) /\ n * b < n * (a + 1) BY <2>2, <2>3, <2>4
  <2>6. a < b + 1 /\ b < a + 1 BY <2>5, Products
  <2>7. a = b BY <2>6
  <2> QED BY <2>1, <2>7
<1> QED BY <1>4, <1>5

(* The oldest second of a walk and the one after its newest share a slot.    *)
LEMMA RingIs ==
  ASSUME NEW r \in Nat PROVE SlotOf(r + WindowSecs + 1) = SlotOf(r)
<1>1. PICK n \in Nat \ {0} : n = WindowSecs + 1 BY QuotaAssumption
<1>2. PICK u \in Nat : u = r + n /\ u = r + WindowSecs + 1 BY <1>1, QuotaAssumption
<1>3. /\ r \div n \in Nat /\ r % n \in 0 .. n - 1 /\ r = n * (r \div n) + (r % n)
  BY Division
<1>4. /\ u \div n \in Nat /\ u % n \in 0 .. n - 1 /\ u = n * (u \div n) + (u % n)
  BY Division
<1>5. PICK a \in Nat, b \in Nat, x \in 0 .. n - 1, y \in 0 .. n - 1 :
        x = r % n /\ y = u % n /\ r = n * a + x /\ u = n * b + y
  BY <1>3, <1>4
<1>6. \A v, w \in Nat : v * w \in Nat /\ v * (w + 1) = v * w + v BY SMTT(30)
<1>7. PICK g \in Nat, h \in Nat : g = n * (a + 1) /\ h = n * b BY <1>6
<1>8. g + x = h + y
  <2>1. n * (a + 1) = n * a + n BY <1>6
  <2>2. PICK q \in Nat : q = n * a BY <1>6
  <2> QED BY <1>2, <1>5, <1>7, <2>1, <2>2
<1>9. g < h + n /\ h < g + n BY <1>5, <1>8
<1>10. n * (a + 1) < n * (b + 1) /\ n * b < n * (a + 1 + 1)
  <2>1. n * (b + 1) = n * b + n BY <1>6
  <2>2. n * (a + 1 + 1) = n * (a + 1) + n BY <1>6
  <2> QED BY <1>7, <1>9, <2>1, <2>2
<1>11. a + 1 < b + 1 /\ b < a + 1 + 1 BY <1>10, Products
<1>12. b = a + 1 BY <1>11
<1>13. x = y BY <1>7, <1>8, <1>12
<1> QED BY <1>1, <1>2, <1>5, <1>13 DEF SlotOf

-----------------------------------------------------------------------------
(* The operations on a bucket, field by field.                             *)

Counters == [limit : Nat, left : Int]
SlotFcns == [Slots -> [until : Nat, tokens : Nat]]
Buckets == [limit : Nat, inflight : Nat, inflightReq : Nat, slots : SlotFcns,
            req : Counters, minute : Nat, informed : BOOLEAN]
Replies == [kind : {"none", "served", "refused", "failed"},
            req : Counters, tok : Counters, bill : Nat]
Calls == [pc : {"idle", "asking"} \cup Reserved, now : Ticks, todo : SUBSET Keys,
          key : Keys, cost : Nat, kept : Nat, reply : Replies]

(* A booking, on the slots alone.                                          *)
Put(s, n, t) ==
  [s EXCEPT ![SlotOf(SecOf(t))] =
     [until |-> t + Window, tokens |-> n + (IF Held(@, t) THEN @.tokens ELSE 0)]]

LEMMA RollIs ==
  ASSUME NEW b \in Buckets, NEW t \in Nat, NEW r, r = Roll(b, t)
  PROVE  /\ r \in Buckets
         /\ r.limit = b.limit /\ r.inflight = b.inflight /\ r.inflightReq = b.inflightReq
         /\ r.slots = b.slots /\ r.informed = b.informed
         /\ r.req.limit = b.req.limit
         /\ r.req # NoCounter => b.req # NoCounter
         /\ b.req # NoCounter => r.req # NoCounter
         /\ b.req # NoCounter /\ MinuteOf(t) > b.minute => r.req.left = b.req.limit
         /\ r.minute = b.minute \/ r.minute = MinuteOf(t)
<1>1. PICK u \in Nat : u = MinuteOf(t) BY MinuteIs
<1>2. NoCounter \in Counters /\ NoCounter.left = -1 BY DEF NoCounter, Counters
<1>3. PICK q \in Counters : q = b.req BY DEF Buckets
<1>8. PICK l \in Nat : l = q.limit BY DEF Counters
<1>9. [q EXCEPT !.left = l] \in Counters BY DEF Counters
<1>4. PICK v \in Counters : v = [q EXCEPT !.left = q.limit] BY <1>8, <1>9
<1>7. v.limit = b.req.limit /\ v.left = b.req.limit /\ v # NoCounter
  BY <1>2, <1>3, <1>4, <1>8 DEF Counters
<1>5. CASE b.req # NoCounter /\ u > b.minute
  <2>1. r = [b EXCEPT !.req = v, !.minute = u] BY <1>1, <1>3, <1>4, <1>5 DEF Roll
  <2>2. /\ r.limit = b.limit /\ r.inflight = b.inflight /\ r.inflightReq = b.inflightReq
        /\ r.slots = b.slots /\ r.informed = b.informed /\ r.req = v /\ r.minute = u
    BY <2>1 DEF Buckets
  <2>3. r \in Buckets BY <2>1 DEF Buckets
  <2> QED BY <1>1, <1>7, <1>5, <2>2, <2>3
<1>6. CASE ~ (b.req # NoCounter /\ u > b.minute)
  <2>1. r = b BY <1>1, <1>6 DEF Roll
  <2> QED BY <1>1, <1>6, <2>1
<1> QED BY <1>5, <1>6

LEMMA CappedIs ==
  ASSUME NEW b \in Buckets, NEW cost \in Nat PROVE Capped(b, cost) \in Nat
BY DEF Capped, Least, Buckets

LEMMA ReserveIs ==
  ASSUME NEW b \in Buckets, NEW cost \in Nat, NEW n \in Nat, n = Capped(b, cost),
         NEW r, r = Reserve(b, cost)
  PROVE  /\ r \in Buckets
         /\ r.limit = b.limit /\ r.slots = b.slots /\ r.informed = b.informed
         /\ r.req = b.req /\ r.minute = b.minute
         /\ r.inflight = b.inflight + n /\ r.inflightReq = b.inflightReq + 1
<1>1. PICK i \in Nat, m \in Nat : i = b.inflight + n /\ m = b.inflightReq + 1
  BY DEF Buckets
<1>2. r = [b EXCEPT !.inflightReq = m, !.inflight = i] BY <1>1 DEF Reserve
<1> QED BY <1>1, <1>2 DEF Buckets

LEMMA ReleaseIs ==
  ASSUME NEW b \in Buckets, NEW cost \in Nat, NEW r, r = Release(b, cost)
  PROVE  /\ r \in Buckets
         /\ r.limit = b.limit /\ r.slots = b.slots /\ r.informed = b.informed
         /\ r.req = b.req /\ r.minute = b.minute
         /\ r.inflight = Above0(b.inflight - cost) /\ r.inflightReq = Above0(b.inflightReq - 1)
<1>1. PICK n \in Nat, m \in Nat : n = Above0(b.inflight - cost) /\ m = Above0(b.inflightReq - 1)
  BY DEF Above0, Buckets
<1>2. r = [b EXCEPT !.inflightReq = m, !.inflight = n] BY <1>1 DEF Release
<1> QED BY <1>1, <1>2 DEF Buckets

LEMMA ObserveIs ==
  ASSUME NEW b \in Buckets, NEW reply \in Replies, NEW t \in Nat, NEW r, r = Observe(b, reply, t)
  PROVE  /\ r \in Buckets
         /\ r.inflight = b.inflight /\ r.inflightReq = b.inflightReq /\ r.slots = b.slots
         /\ r.limit = IF reply.tok = NoCounter THEN b.limit ELSE reply.tok.limit
         /\ r.informed = (b.informed \/ reply.tok # NoCounter)
         /\ r.req.limit >= 1 \/ (r.req.limit = b.req.limit /\ (r.req # NoCounter => b.req # NoCounter))
         /\ r.minute = b.minute \/ r.minute = MinuteOf(t)
<1>1. PICK a \in Buckets : a = Roll(b, t) BY RollIs
<1>2. /\ a.limit = b.limit /\ a.inflight = b.inflight /\ a.inflightReq = b.inflightReq
      /\ a.slots = b.slots /\ a.informed = b.informed /\ a.req.limit = b.req.limit
      /\ a.req # NoCounter => b.req # NoCounter
      /\ a.minute = b.minute \/ a.minute = MinuteOf(t)
  BY <1>1, RollIs
<1>3. PICK q \in Nat : q = Ceiling(reply.req) /\ q >= 1 BY DEF Ceiling, Replies, Counters
<1>4. PICK v \in Counters : v = IF reply.req = NoCounter THEN a.req
                                ELSE [limit |-> q, left |-> reply.req.left]
  BY DEF Replies, Counters, Buckets
<1>5. PICK u \in Nat : u = IF reply.req = NoCounter THEN a.minute ELSE MinuteOf(t)
  BY MinuteIs DEF Buckets
<1>6. PICK l \in Nat : l = IF reply.tok = NoCounter THEN a.limit ELSE reply.tok.limit
  BY DEF Replies, Counters, Buckets
<1>7. PICK g \in BOOLEAN : g = (a.informed \/ reply.tok # NoCounter)
  BY DEF Buckets
<1>8. r = [a EXCEPT !.req = v, !.minute = u, !.limit = l, !.informed = g]
  BY <1>1, <1>3, <1>4, <1>5, <1>6, <1>7 DEF Observe
<1>9. /\ r.req = v /\ r.minute = u /\ r.limit = l /\ r.informed = g
      /\ r.inflight = a.inflight /\ r.inflightReq = a.inflightReq /\ r.slots = a.slots
  BY <1>8 DEF Buckets
<1>10. r \in Buckets BY <1>8 DEF Buckets
<1>11. CASE reply.req = NoCounter BY <1>2, <1>4, <1>5, <1>6, <1>7, <1>9, <1>10, <1>11
<1>12. CASE reply.req # NoCounter
  <2>1. v.limit = q BY <1>4, <1>12
  <2> QED BY <1>2, <1>3, <1>5, <1>6, <1>7, <1>9, <1>10, <1>12, <2>1
<1> QED BY <1>11, <1>12

LEMMA PutIs ==
  ASSUME NEW s \in SlotFcns, NEW n \in Nat, NEW t \in Nat, NEW i \in Slots, i = SlotOf(SecOf(t)),
         Window \in Nat, NEW p, p = Put(s, n, t)
  PROVE  /\ p \in SlotFcns
         /\ p[i].until = t + Window
         /\ s[i].until > t => p[i].tokens = n + s[i].tokens
         /\ ~ (s[i].until > t) => p[i].tokens = n
         /\ \A j \in Slots : j # i => p[j] = s[j]
BY DEF Put, SlotFcns, Held

LEMMA RecordIs ==
  ASSUME NEW b \in Buckets, NEW n \in Nat, NEW t \in Nat, NEW r, r = Record(b, n, t),
         Put(b.slots, n, t) \in SlotFcns
  PROVE  /\ r \in Buckets
         /\ r.limit = b.limit /\ r.inflight = b.inflight /\ r.inflightReq = b.inflightReq
         /\ r.informed = b.informed /\ r.req = b.req /\ r.minute = b.minute
         /\ r.slots = Put(b.slots, n, t)
<1>1. PICK s \in SlotFcns : s = Put(b.slots, n, t) OBVIOUS
<1>2. r = [b EXCEPT !.slots = s] BY <1>1 DEF Record, Put
<1> QED BY <1>1, <1>2 DEF Buckets

-----------------------------------------------------------------------------
(* The invariant.                                                          *)

Typed ==
  /\ clock \in Ticks
  /\ bucket \in [Keys -> Buckets]
  /\ service \in [Keys -> [left : 0 .. ReqLimit, minute : Nat]]
  /\ call \in [Callers -> Calls]
  /\ booked \in [Keys -> [Ticks -> Nat]]
  /\ asks \in 0 .. MaxAsks
  /\ upset \subseteq Keys

(* A caller's instant is a second old at most when a bucket is told of it.  *)
LateBySecond(m) ==
  /\ m.now <= clock
  /\ m.pc \in {"asking", "stamped"} => clock - m.now <= TicksPerSecond

Clocks == \A c \in Callers : LateBySecond(call[c])

(* An announced counter grants a request, and its minute has begun.         *)
Unsealed(b) == (b.req # NoCounter => b.req.limit >= 1) /\ b.minute <= MinuteOf(clock)
CountersOK == \A k \in Keys : Unsealed(bucket[k])

(* The requests in flight of a bucket are its live reservations.            *)
RequestsCounted == \A k \in Keys : bucket[k].inflightReq = Cardinality(LiveOn(k))

(* The tokens in flight are what those reservations hold.  A call that holds  *)
(* less than its estimate, which it gives back whole, is alone in holding   *)
(* any: it took the whole ceiling.                                          *)
TokensKept ==
  \A k \in Keys :
    /\ \A c \in LiveOn(k) : call[c].kept <= call[c].cost
    /\ bucket[k].inflight <= Kept(k)
    /\ k \notin upset =>
         /\ bucket[k].inflight = Kept(k) /\ bucket[k].limit > 0
         /\ \A c \in LiveOn(k) : call[c].kept < call[c].cost =>
              /\ bucket[k].limit <= call[c].kept
              /\ \A d \in LiveOn(k) \ {c} : call[d].kept = 0

(* A slot holds what one second booked, and the second it was last booked in  *)
(* is the latest of those that share it.                                    *)
TicksOf(s) == {u \in Ticks : SecOf(u) = s}
Fresh == [until |-> 0, tokens |-> 0]
LastBooked(s, f, now, i, l) ==
  /\ s[i].until = l + Window /\ l <= now /\ SlotOf(SecOf(l)) = i
  /\ s[i].tokens = SumFunctionOnSet(f, TicksOf(SecOf(l)))
SlotsFit(s, f, now) ==
  /\ \A i \in Slots : s[i] = Fresh \/ \E l \in Ticks : LastBooked(s, f, now, i, l)
  /\ \A u \in Ticks : f[u] # 0 =>
       \E l \in Ticks : s[SlotOf(SecOf(u))].until = l + Window /\ SecOf(u) <= SecOf(l)
SlotsOK == \A k \in Keys : SlotsFit(bucket[k].slots, booked[k], clock)

IInv ==
  /\ Typed /\ Clocks /\ CountersOK /\ SlotsOK
  /\ RequestsCounted /\ OneProbe /\ TokensKept

LEMMA TypesAre == Typed => TypeOK
BY DEF Typed, TypeOK, Buckets, SlotFcns, Counters, Calls, Replies

-----------------------------------------------------------------------------
(* The slots of a bucket.                                                  *)

LEMMA TicksFinite ==
  /\ Ticks \subseteq Nat /\ IsFiniteSet(Ticks) /\ 0 \in Ticks
  /\ \A s : TicksOf(s) \in SUBSET Ticks /\ IsFiniteSet(TicksOf(s))
<1>1. Ticks \subseteq Nat /\ IsFiniteSet(Ticks) /\ 0 \in Ticks
  BY QuotaAssumption, FS_Interval DEF Ticks
<1>2. \A s : TicksOf(s) \in SUBSET Ticks BY DEF TicksOf
<1> QED BY <1>1, <1>2, FS_Subset

(* A tick that a slot shares with its last booking is not of a later second. *)
LEMMA SameSlot ==
  ASSUME NEW t \in Nat, NEW l \in Nat, SlotOf(SecOf(t)) = SlotOf(SecOf(l)),
         l - t <= TicksPerSecond, t - l < Window
  PROVE  SecOf(t) = SecOf(l)
<1>1. PICK a \in Nat, b \in Nat : a = SecOf(t) /\ b = SecOf(l) BY SecIs
<1>2. b - a <= 1
  <2>1. PICK T \in Nat \ {0} : T = TicksPerSecond BY QuotaAssumption
  <2>2. T * b <= l /\ t < T * a + T BY <1>1, <2>1, SecIs
  <2>3. \A x, y \in Nat : x * y \in Nat /\ x * (y + 2) = x * y + x + x BY SMTT(30)
  <2>4. T * b < T * (a + 2) BY <2>1, <2>2, <2>3
  <2>5. b < a + 2 BY <2>4, Products
  <2> QED BY <2>5
<1>3. a - b <= WindowSecs
  <2>1. t - l < TicksPerSecond * WindowSecs BY WindowIs
  <2> QED BY <1>1, <2>1, SecsApart, QuotaAssumption
<1>4. WindowSecs \in Nat \ {0} BY QuotaAssumption
<1>5. b - a <= WindowSecs BY <1>2, <1>4
<1> QED BY <1>1, <1>3, <1>5, SlotIs

(* A booking keeps the slots in step with what was booked.                  *)
LEMMA PutKeeps ==
  ASSUME NEW s \in SlotFcns, NEW f \in [Ticks -> Nat], NEW now \in Ticks, SlotsFit(s, f, now),
         NEW t \in Ticks, t <= now, now - t <= TicksPerSecond, NEW n \in Nat,
         NEW p, p = Put(s, n, t), NEW h, h = [f EXCEPT ![t] = @ + n]
  PROVE  SlotsFit(p, h, now) /\ p \in SlotFcns /\ h \in [Ticks -> Nat]
<1>0. t \in Nat /\ now \in Nat /\ Ticks \subseteq Nat BY TicksFinite
<1>1. PICK a \in Nat : a = SecOf(t) BY <1>0, SecIs
<1>2. PICK i \in Slots : i = SlotOf(a) BY SlotIs
<1>3. Window \in Nat \ {0} BY WindowIs
<1>4. /\ p \in SlotFcns /\ p[i].until = t + Window
      /\ s[i].until > t => p[i].tokens = n + s[i].tokens
      /\ ~ (s[i].until > t) => p[i].tokens = n
      /\ \A j \in Slots : j # i => p[j] = s[j]
  <2>1. i = SlotOf(SecOf(t)) /\ t \in Nat /\ Window \in Nat BY <1>0, <1>1, <1>2, <1>3
  <2>7. s \in SlotFcns /\ n \in Nat /\ i \in Slots /\ p = Put(s, n, t) OBVIOUS
  <2>2. p \in SlotFcns BY ONLY <2>1, <2>7, PutIs
  <2>3. p[i].until = t + Window BY ONLY <2>1, <2>7, PutIs
  <2>4. s[i].until > t => p[i].tokens = n + s[i].tokens BY ONLY <2>1, <2>7, PutIs
  <2>5. ~ (s[i].until > t) => p[i].tokens = n BY ONLY <2>1, <2>7, PutIs
  <2>6. \A j \in Slots : j # i => p[j] = s[j] BY ONLY <2>1, <2>7, PutIs
  <2> QED BY <2>2, <2>3, <2>4, <2>5, <2>6
<1>5. /\ h \in [Ticks -> Nat] /\ h[t] = f[t] + n
      /\ \A u \in Ticks : u # t => h[u] = f[u]
  OBVIOUS
<1>6. t \in TicksOf(a) BY <1>1 DEF TicksOf
<1>7. SumFunctionOnSet(h, TicksOf(a)) = n + SumFunctionOnSet(f, TicksOf(a))
  <2>1. PICK S : S = TicksOf(a) OBVIOUS
  <2>2. S \in SUBSET Ticks /\ IsFiniteSet(S) /\ t \in S /\ IsFiniteSet(S \ {t})
    BY <2>1, <1>6, TicksFinite, FS_RemoveElement
  <2>3. \A u \in S : f[u] \in Int /\ h[u] \in Int BY <2>2, <1>5
  <2>4. SumFunctionOnSet(h, S) = h[t] + SumFunctionOnSet(h, S \ {t}) BY <2>2, <2>3, SumAny
  <2>5. SumFunctionOnSet(f, S) = f[t] + SumFunctionOnSet(f, S \ {t}) BY <2>2, <2>3, SumAny
  <2>6. SumFunctionOnSet(h, S \ {t}) = SumFunctionOnSet(f, S \ {t}) BY <2>2, <1>5, SumSame
  <2>7. SumFunctionOnSet(f, S \ {t}) \in Int BY <2>2, <2>3, SumType
  <2>8. PICK x \in Int : x = SumFunctionOnSet(f, S \ {t}) BY <2>7
  <2>9. SumFunctionOnSet(h, S) = f[t] + n + x /\ SumFunctionOnSet(f, S) = f[t] + x
    BY <2>4, <2>5, <2>6, <2>8, <1>5
  <2>10. f[t] \in Nat OBVIOUS
  <2> QED BY <2>1, <2>8, <2>9, <2>10
<1>8. p[i].tokens = SumFunctionOnSet(h, TicksOf(a))
  <2>1. CASE s[i].until > t
    <3>1. s[i] # Fresh BY <2>1, <1>0 DEF Fresh
    <3>2. PICK l \in Ticks : LastBooked(s, f, now, i, l) BY <3>1 DEF SlotsFit
    <3>3. l \in Nat /\ l + Window > t /\ l <= now /\ SlotOf(SecOf(l)) = i
      BY <3>2, <2>1, <1>0 DEF LastBooked
    <3>4. SecOf(t) = SecOf(l)
      <4>1. l - t <= TicksPerSecond /\ t - l < Window BY <3>3, <1>0, <1>3, QuotaAssumption
      <4> QED BY <4>1, <3>3, <1>0, <1>1, <1>2, SameSlot
    <3>5. s[i].tokens = SumFunctionOnSet(f, TicksOf(a)) BY <3>2, <3>4, <1>1 DEF LastBooked
    <3> QED BY <3>5, <2>1, <1>4, <1>7
  <2>2. CASE ~ (s[i].until > t)
    <3>1. ASSUME NEW u \in TicksOf(a), f[u] # 0 PROVE FALSE
      <4>1. u \in Ticks /\ u \in Nat /\ SecOf(u) = a BY <1>0 DEF TicksOf
      <4>2. PICK l \in Ticks : s[i].until = l + Window /\ a <= SecOf(l)
        BY <3>1, <4>1, <1>2 DEF SlotsFit
      <4>3. l \in Nat /\ l + Window <= t BY <4>2, <2>2, <1>0, <1>3
      <4>4. TicksPerSecond <= Window
        <5>1. \A x, y \in Nat \ {0} : x <= x * y BY SMTT(30)
        <5> QED BY <5>1, WindowIs, QuotaAssumption
      <4>5. l <= t /\ ~ (t - l < TicksPerSecond) BY <4>3, <4>4, <1>0, <1>3, QuotaAssumption
      <4>6. SecOf(l) <= a BY <4>3, <4>5, <1>0, <1>1, SecsInOrder
      <4>7. SecOf(l) = a BY <4>2, <4>3, <4>6, SecIs
      <4> QED BY <4>3, <4>5, <4>7, <1>0, <1>1, OneSecond
    <3>2. SumFunctionOnSet(f, TicksOf(a)) = SumFunctionOnSet(f, {})
      <4>1. {} \in SUBSET TicksOf(a) /\ IsFiniteSet(TicksOf(a)) /\ TicksOf(a) \in SUBSET Ticks
        BY TicksFinite
      <4>2. \A u \in TicksOf(a) : f[u] \in Nat /\ f[u] = 0 BY <4>1, <3>1
      <4> QED BY <4>1, <4>2, SumBut0
    <3> QED BY <3>2, <2>2, <1>4, <1>7, SumEmpty
  <2> QED BY <2>1, <2>2
<1>9. ASSUME NEW j \in Slots PROVE p[j] = Fresh \/ \E l \in Ticks : LastBooked(p, h, now, j, l)
  <2>1. CASE j = i
    <3>1. LastBooked(p, h, now, i, t) BY <1>1, <1>2, <1>4, <1>8 DEF LastBooked
    <3> QED BY <3>1, <2>1
  <2>2. CASE j # i /\ s[j] # Fresh
    <3>1. PICK l \in Ticks : LastBooked(s, f, now, j, l) BY <2>2 DEF SlotsFit
    <3>2. t \notin TicksOf(SecOf(l)) BY <3>1, <2>2, <1>1, <1>2 DEF TicksOf, LastBooked
    <3>3. \A u \in TicksOf(SecOf(l)) : h[u] = f[u] BY <3>2, <1>5, TicksFinite
    <3>4. SumFunctionOnSet(h, TicksOf(SecOf(l))) = SumFunctionOnSet(f, TicksOf(SecOf(l)))
      BY <3>3, TicksFinite, SumSame
    <3>5. p[j] = s[j] BY <2>2, <1>4
    <3>6. LastBooked(p, h, now, j, l) BY <3>1, <3>4, <3>5 DEF LastBooked
    <3> QED BY <3>6
  <2>3. CASE j # i /\ s[j] = Fresh BY <2>3, <1>4
  <2> QED BY <2>1, <2>2, <2>3
<1>10. ASSUME NEW u \in Ticks, h[u] # 0
       PROVE  \E l \in Ticks : p[SlotOf(SecOf(u))].until = l + Window /\ SecOf(u) <= SecOf(l)
  <2>0. u \in Nat /\ SecOf(u) \in Nat /\ SlotOf(SecOf(u)) \in Slots BY <1>0, SecIs, SlotIs
  <2>1. CASE SlotOf(SecOf(u)) # i
    <3>1. u # t BY <2>1, <1>1, <1>2
    <3>2. f[u] # 0 BY <3>1, <1>5, <1>10
    <3>3. PICK l \in Ticks : s[SlotOf(SecOf(u))].until = l + Window /\ SecOf(u) <= SecOf(l)
      BY <3>2 DEF SlotsFit
    <3> QED BY <3>3, <2>0, <2>1, <1>4
  <2>2. CASE SlotOf(SecOf(u)) = i
    <3>1. SecOf(u) <= a
      <4>1. CASE u = t BY <4>1, <2>0, <1>1
      <4>2. CASE u # t
        <5>1. f[u] # 0 BY <4>2, <1>5, <1>10
        <5>2. PICK l \in Ticks : s[i].until = l + Window /\ SecOf(u) <= SecOf(l)
          BY <5>1, <2>2 DEF SlotsFit
        <5>3. l \in Nat BY <1>0
        <5>4. s[i] # Fresh BY <5>2, <5>3, <1>3 DEF Fresh
        <5>5. PICK m \in Ticks : LastBooked(s, f, now, i, m) BY <5>4 DEF SlotsFit
        <5>6. m = l /\ l <= now BY <5>2, <5>3, <5>5, <1>0, <1>3 DEF LastBooked
        <5>7. PICK b \in Nat, e \in Nat : b = SecOf(u) /\ e = SecOf(l) BY <2>0, <5>3, SecIs
        <5>8. e - a <= 1
          <6>1. PICK T \in Nat \ {0} : T = TicksPerSecond BY QuotaAssumption
          <6>2. T * e <= l /\ t < T * a + T BY <5>3, <5>7, <1>0, <1>1, <6>1, SecIs
          <6>3. \A x, y \in Nat : x * y \in Nat /\ x * (y + 2) = x * y + x + x BY SMTT(30)
          <6>4. l - t <= T BY <5>6, <5>3, <1>0, <6>1
          <6>5. PICK q \in Nat, r \in Nat : q = T * e /\ r = T * a BY <6>3
          <6>6. q < r + T + T BY <6>2, <6>4, <6>5, <5>3, <1>0
          <6>7. T * e < T * (a + 2) BY <6>3, <6>5, <6>6
          <6>8. e < a + 2 BY <6>7, Products
          <6> QED BY <6>8
        <5>9. b <= a + 1 BY <5>2, <5>7, <5>8
        <5>10. CASE b = a + 1
          <6>1. b - a <= WindowSecs /\ a - b <= WindowSecs BY <5>10, QuotaAssumption
          <6>2. SlotOf(b) = SlotOf(a) BY <2>2, <5>7, <1>2
          <6>3. b = a BY <6>1, <6>2, SlotIs
          <6> QED BY <5>10, <6>3
        <5> QED BY <5>7, <5>9, <5>10
      <4> QED BY <4>1, <4>2
    <3>2. p[SlotOf(SecOf(u))].until = t + Window BY <2>2, <1>4
    <3> QED BY <3>1, <3>2, <1>1
  <2> QED BY <2>1, <2>2
<1> QED BY <1>4, <1>5, <1>9, <1>10 DEF SlotsFit

(* What a bucket has spent at t, and at an instant after.                   *)
LEMMA SpentIs ==
  ASSUME NEW b \in Buckets, NEW t \in Nat
  PROVE  /\ Spent(b, t) \in Nat
         /\ \A u \in Nat : t <= u => Spent(b, u) <= Spent(b, t)
<1>1. IsFiniteSet(Slots) BY QuotaAssumption, FS_Interval DEF Slots
<1>2. PICK f : f = [i \in Slots |-> b.slots[i].tokens] OBVIOUS
<1>3. \A i \in Slots : f[i] \in Nat /\ b.slots[i].until \in Nat BY <1>2 DEF Buckets, SlotFcns
<1> DEFINE H(u) == {i \in Slots : Held(b.slots[i], u)}
<1>4. \A u : H(u) \in SUBSET Slots /\ IsFiniteSet(H(u)) BY <1>1, FS_Subset
<1>5. \A u : Spent(b, u) = SumFunctionOnSet(f, H(u)) BY <1>2 DEF Spent
<1>6. \A u \in Nat : t <= u => H(u) \in SUBSET H(t) BY <1>3 DEF Held
<1> HIDE DEF H
<1>7. ASSUME NEW u \in Nat, t <= u
      PROVE  SumFunctionOnSet(f, H(u)) <= SumFunctionOnSet(f, H(t))
  <2>1. H(u) \in SUBSET H(t) BY <1>6, <1>7
  <2>2. IsFiniteSet(H(t)) /\ \A i \in H(t) : f[i] \in Nat BY <1>3, <1>4
  <2> QED BY <2>1, <2>2, SumMore
<1>8. SumFunctionOnSet(f, H(t)) \in Nat BY <1>3, <1>4, SumNat
<1> QED BY <1>5, <1>7, <1>8

(* The last booking of each slot that is held at t, which may be past.       *)
HeldFrom(s, f, t, now, L) ==
  \A i \in Slots : s[i].until > t =>
    /\ L[i] \in Ticks /\ L[i] \in Nat
    /\ s[i].until = L[i] + Window /\ L[i] <= now /\ L[i] + Window > t
    /\ SlotOf(SecOf(L[i])) = i
    /\ s[i].tokens = SumFunctionOnSet(f, TicksOf(SecOf(L[i])))

LEMMA HeldSlots ==
  ASSUME NEW s, NEW f, NEW now \in Ticks, SlotsFit(s, f, now), NEW t \in Nat
  PROVE  \E L : HeldFrom(s, f, t, now, L)
<1>0. now \in Nat /\ Ticks \subseteq Nat BY TicksFinite
<1>1. PICK L : L = [i \in Slots |-> CHOOSE l \in Ticks : LastBooked(s, f, now, i, l)] OBVIOUS
<1>2. ASSUME NEW i \in Slots, s[i].until > t
      PROVE  L[i] \in Ticks /\ LastBooked(s, f, now, i, L[i])
  <2>1. s[i] # Fresh BY <1>2 DEF Fresh
  <2>2. \E l \in Ticks : LastBooked(s, f, now, i, l) BY <2>1 DEF SlotsFit
  <2> QED BY <1>1, <2>2
<1>3. HeldFrom(s, f, t, now, L) BY <1>0, <1>2 DEF HeldFrom, LastBooked
<1> QED BY <1>3

(* The seconds of a window that is a second shorter: what was booked in them  *)
(* is held, and what is held was booked in those of a longer one.           *)
LEMMA SlotsHold ==
  ASSUME NEW b \in Buckets, NEW f \in [Ticks -> Nat], NEW now \in Ticks,
         SlotsFit(b.slots, f, now)
  PROVE  /\ Spent(b, now)
              >= SumFunctionOnSet(f, {u \in Ticks : u > now - Window + TicksPerSecond})
         /\ Spent(b, now)
              <= SumFunctionOnSet(f, {u \in Ticks : u > now - Window - TicksPerSecond})
<1>0. now \in Nat /\ Ticks \subseteq Nat /\ IsFiniteSet(Ticks) BY TicksFinite
<1>1. PICK s \in SlotFcns : s = b.slots BY DEF Buckets
<1>2. PICK W \in Nat \ {0} : W = Window BY WindowIs
<1>3. PICK T \in Nat \ {0} : T = TicksPerSecond BY QuotaAssumption
<1>4. SlotsFit(s, f, now) BY <1>1
<1>5. PICK H : H = {i \in Slots : s[i].until > now} OBVIOUS
<1>6. PICK L : HeldFrom(s, f, now, now, L) BY <1>0, <1>4, HeldSlots
<1>7. ASSUME NEW i \in H
      PROVE  /\ i \in Slots /\ L[i] \in Ticks /\ L[i] \in Nat
             /\ s[i].until = L[i] + W /\ L[i] <= now /\ L[i] + W > now
             /\ SlotOf(SecOf(L[i])) = i
             /\ s[i].tokens = SumFunctionOnSet(f, TicksOf(SecOf(L[i])))
  BY <1>2, <1>5, <1>6 DEF HeldFrom
<1>8. PICK B : B = [i \in H |-> TicksOf(SecOf(L[i]))] OBVIOUS
<1>9. PICK g : g = [i \in Slots |-> s[i].tokens] OBVIOUS
<1>10. PICK A : A = UNION {B[i] : i \in H} OBVIOUS
<1>11. A \in SUBSET Ticks BY <1>8, <1>10, TicksFinite
<1>12. Spent(b, now) = SumFunctionOnSet(f, A)
  <2>1. IsFiniteSet(Slots) BY QuotaAssumption, FS_Interval DEF Slots
  <2>2. IsFiniteSet(H) BY <1>5, <2>1, FS_Subset
  <2>3. \A i \in H : B[i] \in SUBSET Ticks /\ g[i] = SumFunctionOnSet(f, B[i])
    BY <1>7, <1>8, <1>9, TicksFinite
  <2>4. ASSUME NEW i \in H, NEW j \in H, i # j PROVE B[i] \cap B[j] = {}
    <3>1. SecOf(L[i]) # SecOf(L[j]) BY <1>7, <2>4
    <3> QED BY <3>1, <1>8 DEF TicksOf
  <2>5. SumFunctionOnSet(g, H) = SumFunctionOnSet(f, UNION {B[i] : i \in H})
    <3>1. \A x \in Ticks : f[x] \in Nat OBVIOUS
    <3>2. \A i, j \in H : i # j => B[i] \cap B[j] = {} BY <2>4
    <3>3. Grouped(Ticks, f, H, B, g) BY <1>0, <2>2, <2>3, <3>1, <3>2 DEF Grouped
    <3> QED BY <3>3, SumGroups
  <2>6. Spent(b, now) = SumFunctionOnSet(g, H) BY <1>1, <1>5, <1>9 DEF Spent, Held
  <2> QED BY <2>5, <2>6, <1>10
<1>13. ASSUME NEW u \in A PROVE u > now - W - T
  <2>1. PICK i \in H : u \in TicksOf(SecOf(L[i])) BY <1>8, <1>10
  <2>2. u \in Nat /\ SecOf(u) = SecOf(L[i]) BY <2>1, <1>0 DEF TicksOf
  <2>3. L[i] - u < T BY <1>3, <1>7, <2>2, OneSecond
  <2> QED BY <1>0, <1>2, <1>3, <1>7, <2>2, <2>3
<1>14. ASSUME NEW u \in Ticks, u > now - W + T, f[u] # 0 PROVE u \in A
  <2>1. u \in Nat BY <1>0
  <2>2. PICK r \in Nat, n \in Nat : r = SecOf(u) /\ n = SecOf(now) BY <1>0, <2>1, SecIs
  <2>3. PICK i \in Slots : i = SlotOf(r) BY SlotIs
  <2>4. PICK l \in Ticks : s[i].until = l + W /\ r <= SecOf(l)
    BY <1>2, <1>4, <1>14, <2>2, <2>3 DEF SlotsFit
  <2>5. l \in Nat /\ SecOf(l) \in Nat BY <1>0, <2>4, SecIs
  <2>6. s[i] # Fresh BY <1>2, <2>4, <2>5 DEF Fresh
  <2>7. PICK m \in Ticks : LastBooked(s, f, now, i, m) BY <1>4, <2>6 DEF SlotsFit
  <2>8. m = l /\ l <= now /\ SlotOf(SecOf(l)) = i
    <3>1. /\ m \in Nat /\ s[i].until = m + W /\ m <= now /\ SlotOf(SecOf(m)) = i
      BY <1>0, <1>2, <2>7 DEF LastBooked
    <3>2. m = l BY <2>4, <2>5, <3>1
    <3> QED BY <3>1, <3>2
  <2>9. SecOf(l) <= n BY <1>0, <2>2, <2>5, <2>8, SecsInOrder
  <2>10. n - r <= WindowSecs
    <3>1. now - u < TicksPerSecond * WindowSecs BY <1>0, <1>2, <1>3, <1>14, <2>1, WindowIs
    <3> QED BY <1>0, <2>1, <2>2, <3>1, SecsApart, QuotaAssumption
  <2>11. SecOf(l) = r
    <3>1. WindowSecs \in Nat BY QuotaAssumption
    <3>2. SecOf(l) - r <= WindowSecs /\ r - SecOf(l) <= WindowSecs
      BY <2>2, <2>4, <2>5, <2>9, <2>10, <3>1
    <3> QED BY <2>2, <2>3, <2>5, <2>8, <3>2, SlotIs
  <2>12. u - l < T BY <1>3, <2>1, <2>2, <2>5, <2>11, OneSecond
  <2>13. l + W > now BY <1>0, <1>2, <1>3, <1>14, <2>1, <2>5, <2>12
  <2>14. i \in H BY <1>5, <2>4, <2>13
  <2>15. L[i] = l BY <1>2, <1>7, <2>4, <2>5, <2>14
  <2>16. u \in TicksOf(SecOf(L[i])) BY <2>2, <2>11, <2>15 DEF TicksOf
  <2> QED BY <1>8, <1>10, <2>14, <2>16
<1>15. PICK C, D : C = {u \in Ticks : u > now - W + T} /\ D = {u \in Ticks : u > now - W - T}
  OBVIOUS
<1>16. PICK E : E = {u \in C : f[u] # 0} OBVIOUS
<1>17. /\ IsFiniteSet(A) /\ IsFiniteSet(C) /\ IsFiniteSet(D)
       /\ A \in SUBSET D /\ E \in SUBSET A /\ E \in SUBSET C
       /\ \A u \in A \cup C \cup D : f[u] \in Nat
       /\ \A u \in C \ E : f[u] = 0
  BY <1>0, <1>11, <1>13, <1>14, <1>15, <1>16, FS_Subset
<1>18. SumFunctionOnSet(f, A) <= SumFunctionOnSet(f, D) BY <1>17, SumMore
<1>19. SumFunctionOnSet(f, C) = SumFunctionOnSet(f, E) BY <1>17, SumBut0
<1>20. SumFunctionOnSet(f, E) <= SumFunctionOnSet(f, A) BY <1>17, SumMore
<1>21. SumFunctionOnSet(f, A) \in Nat /\ SumFunctionOnSet(f, C) \in Nat BY <1>17, SumNat
<1>22. SumFunctionOnSet(f, A) >= SumFunctionOnSet(f, C) BY <1>19, <1>20, <1>21
<1> QED BY <1>2, <1>3, <1>12, <1>15, <1>18, <1>22

(* The wait for a deficit, read by a caller whose clock stood at now: the     *)
(* slots are released in the order of their seconds, so what is left when one *)
(* is released is what the later ones hold, unless the first of the walk is   *)
(* that of the next second.                                                 *)
LEMMA WaitIs ==
  ASSUME NEW b \in Buckets, NEW f \in [Ticks -> Nat], NEW clk \in Ticks,
         SlotsFit(b.slots, f, clk),
         NEW now \in Ticks, now <= clk, clk - now <= TicksPerSecond, Window <= now,
         NEW cost \in Nat,
         NEW deficit \in Int, deficit = Capped(b, cost) - Available(b, now), deficit > 0
  PROVE  IF Covering(b, deficit, now) = {} THEN b.inflight > 0
         ELSE LET w == WaitFor(b, deficit, now) IN
              /\ w \in 1 .. Window + (clk - now)
              /\ ~ Overtaken(b, now) =>
                   /\ Payable(b, cost, now + w)
                   /\ \A u \in now .. now + w - 1 : ~ Payable(b, cost, u)
<1>0. now \in Nat /\ clk \in Nat /\ Ticks \subseteq Nat BY TicksFinite
<1>1. PICK s \in SlotFcns : s = b.slots BY DEF Buckets
<1>2. \A i \in Slots : s[i].until \in Nat /\ s[i].tokens \in Nat BY DEF SlotFcns
<1>3. PICK limit \in Nat, inflight \in Nat, cap \in Nat :
        limit = b.limit /\ inflight = b.inflight /\ cap = Capped(b, cost) /\ cap <= limit
  BY DEF Buckets, Capped, Least
<1>4. PICK n \in Nat : n = SecOf(now) BY <1>0, SecIs
<1>5. PICK V \in Nat \ {0} : V = WindowSecs BY QuotaAssumption
<1>6. PICK R : R = Seconds(now) OBVIOUS
<1>7. /\ IsFiniteSet(R) /\ R \subseteq Nat /\ n \in R
      /\ \A r \in Nat : r \in R <=> r <= n /\ n - r <= V
  <2>1. PICK m \in Nat : m = Above0(n - V) /\ n - V <= m /\ m <= n
    <3>1. Above0(n - V) \in Nat /\ n - V <= Above0(n - V) /\ Above0(n - V) <= n BY DEF Above0
    <3> QED BY <3>1
  <2>2. R = m .. n BY <1>4, <1>5, <1>6, <2>1 DEF Seconds
  <2>3. \A r \in Nat : n - r <= V <=> m <= r BY <2>1 DEF Above0
  <2>4. IsFiniteSet(m .. n) BY FS_Interval
  <2>5. \A r \in Nat : r \in m .. n <=> r <= n /\ m <= r OBVIOUS
  <2>6. m .. n \subseteq Nat /\ n \in m .. n BY <2>1
  <2> QED BY <2>2, <2>3, <2>4, <2>5, <2>6
<1>8. PICK L : HeldFrom(s, f, now, clk, L) BY <1>0, <1>1, HeldSlots
<1>9. PICK p : p = [r \in R |-> SlotOf(r)] OBVIOUS
<1>10. /\ \A r \in R : p[r] \in Slots /\ p[r] = SlotOf(r)
       /\ \A r, x \in R : p[r] = p[x] => r = x
  <2>1. \A r \in R : p[r] \in Slots /\ p[r] = SlotOf(r) BY <1>7, <1>9, SlotIs
  <2>2. ASSUME NEW r \in R, NEW x \in R, p[r] = p[x] PROVE r = x
    <3>1. r \in Nat /\ x \in Nat /\ r <= n /\ n - r <= V /\ x <= n /\ n - x <= V BY <1>7
    <3>2. r - x <= WindowSecs /\ x - r <= WindowSecs BY <1>5, <3>1
    <3> QED BY <2>1, <2>2, <3>1, <3>2, SlotIs
  <2> QED BY <2>1, <2>2
(* The seconds whose slots are held, and the second under which the walk      *)
(* meets a slot.                                                            *)
<1>11. PICK G : G = {r \in R : s[p[r]].until > now} OBVIOUS
<1>e. PICK e : e = [i \in Slots |-> IF SecOf(L[i]) = n + 1 THEN n - V ELSE SecOf(L[i])]
  OBVIOUS
<1>12. ASSUME NEW i \in Slots, s[i].until > now
       PROVE  /\ L[i] \in Nat /\ s[i].until = L[i] + Window /\ L[i] <= clk
              /\ e[i] \in G /\ p[e[i]] = i
              /\ e[i] = SecOf(L[i]) \/ Overtaken(b, now)
  <2>1. /\ L[i] \in Nat /\ s[i].until = L[i] + Window /\ L[i] <= clk
        /\ L[i] + Window > now /\ SlotOf(SecOf(L[i])) = i
    BY <1>8, <1>12 DEF HeldFrom
  <2>2. PICK l \in Nat, z \in Nat : l = L[i] /\ z = SecOf(l) BY <2>1, SecIs
  <2>3. l - now <= TicksPerSecond
    <3>1. PICK T \in Nat : T = TicksPerSecond /\ clk - now <= T BY QuotaAssumption
    <3> QED BY <1>0, <2>1, <2>2, <3>1
  <2>4. z <= n + 1 BY <1>0, <1>4, <2>2, <2>3, SecNext
  <2>5. CASE z = n + 1
    <3>1. V <= n BY <1>0, <1>4, <1>5, SecsPast
    <3>2. PICK o \in Nat : o = n - V BY <3>1
    <3>3. e[i] = o BY <1>e, <2>2, <2>5, <3>2
    <3>4. o \in R BY <1>7, <3>2
    <3>5. o + V + 1 = z BY <2>5, <3>2
    <3>6. SlotOf(z) = SlotOf(o) BY <1>5, <3>5, RingIs
    <3>7. p[o] = i BY <1>10, <2>1, <2>2, <3>4, <3>6
    <3>8. now < l
      <4>1. SecOf(now) < SecOf(l) BY <1>4, <2>2, <2>5
      <4> QED BY <1>0, <4>1, SecsOrder
    <3>9. PICK W \in Nat : W = Window BY WindowIs
    <3>10. s[i].until > now + W BY <1>0, <2>1, <2>2, <3>8, <3>9
    <3>11. Overtaken(b, now) BY <1>1, <1>4, <2>1, <2>2, <2>5, <3>9, <3>10 DEF Overtaken
    <3> QED BY <1>11, <1>12, <2>1, <3>3, <3>4, <3>7, <3>11
  <2>6. CASE z # n + 1
    <3>1. z <= n BY <2>4, <2>6
    <3>2. now - l < TicksPerSecond * WindowSecs BY <1>0, <2>1, <2>2, WindowIs
    <3>3. n - z <= V BY <1>0, <1>4, <1>5, <2>2, <3>2, SecsApart
    <3>4. e[i] = z BY <1>e, <2>2, <2>6
    <3>5. z \in R BY <1>7, <3>1, <3>3
    <3>6. p[z] = i BY <1>10, <2>1, <2>2, <3>5
    <3> QED BY <1>11, <1>12, <2>1, <2>2, <3>4, <3>5, <3>6
  <2> QED BY <2>5, <2>6
<1>13. ASSUME NEW r \in G
       PROVE  /\ r \in R /\ r \in Nat /\ p[r] \in Slots /\ s[p[r]].until > now
              /\ L[p[r]] \in Nat /\ s[p[r]].until = L[p[r]] + Window /\ L[p[r]] <= clk
              /\ SecOf(L[p[r]]) = r \/ Overtaken(b, now)
  <2>1. r \in R /\ r \in Nat /\ p[r] \in Slots /\ s[p[r]].until > now BY <1>7, <1>10, <1>11
  <2>2. e[p[r]] \in R /\ p[e[p[r]]] = p[r] BY <1>11, <1>12, <2>1
  <2>3. e[p[r]] = r BY <1>10, <2>1, <2>2
  <2> QED BY <1>12, <2>1, <2>3
(* They are released in order, if none was overtaken.                        *)
<1>14. ASSUME ~ Overtaken(b, now), NEW r \in G, NEW x \in G
       PROVE  s[p[r]].until > s[p[x]].until <=> r > x
  <2>1. PICK l \in Nat, m \in Nat : /\ l = L[p[r]] /\ m = L[p[x]]
                                    /\ s[p[r]].until = l + Window /\ SecOf(l) = r
                                    /\ s[p[x]].until = m + Window /\ SecOf(m) = x
    BY <1>13, <1>14
  <2>2. r \in Nat /\ x \in Nat BY <1>13
  <2>3. r > x => l > m BY <2>1, <2>2, SecsOrder
  <2>4. r < x => l < m BY <2>1, <2>2, SecsOrder
  <2>5. CASE r = x
    <3>1. s[p[r]].until = s[p[x]].until /\ s[p[r]].until \in Nat BY <2>5, <1>2, <1>13
    <3> QED BY <2>2, <2>5, <3>1
  <2>6. CASE r # x BY <2>1, <2>2, <2>3, <2>4, <2>6, WindowIs
  <2> QED BY <2>5, <2>6
(* Sums over the seconds and over the slots.                                *)
<1>15. PICK tk, hr : /\ tk = [i \in Slots |-> s[i].tokens]
                     /\ hr = [r \in R |-> s[SlotOf(r)].tokens]
  OBVIOUS
<1>16. IsFiniteSet(G) /\ \A r \in G : hr[r] = tk[p[r]] /\ hr[r] \in Nat /\ tk[p[r]] \in Nat
  BY <1>2, <1>7, <1>10, <1>11, <1>13, <1>15, FS_Subset
<1>17. ASSUME NEW u \in Nat, now <= u
       PROVE  Spent(b, u) = SumFunctionOnSet(hr, {r \in G : s[p[r]].until > u})
  <2>1. PICK Q : Q = {r \in G : s[p[r]].until > u} OBVIOUS
  <2>2. IsFiniteSet(Q) /\ Q \in SUBSET G BY <1>16, <2>1, FS_Subset
  <2>3. {p[r] : r \in Q} = {i \in Slots : s[i].until > u}
    <3>1. ASSUME NEW r \in Q PROVE p[r] \in Slots /\ s[p[r]].until > u BY <1>13, <2>1
    <3>2. ASSUME NEW i \in Slots, s[i].until > u PROVE \E r \in Q : p[r] = i
      <4>1. s[i].until > now BY <1>0, <1>2, <1>17, <3>2
      <4>2. e[i] \in Q BY <1>12, <2>1, <3>2, <4>1
      <4> QED BY <1>12, <4>1, <4>2
    <3> QED BY <3>1, <3>2
  <2>4. \A x, y \in Q : p[x] = p[y] => x = y BY <1>10, <1>11, <2>2
  <2>5. \A r \in Q : hr[r] = tk[p[r]] /\ tk[p[r]] \in Nat BY <1>16, <2>2
  <2>6. SumFunctionOnSet(hr, Q) = SumFunctionOnSet(tk, {p[r] : r \in Q})
    BY <2>2, <2>4, <2>5, SumImage
  <2>7. Spent(b, u) = SumFunctionOnSet(tk, {i \in Slots : s[i].until > u})
    BY <1>1, <1>15 DEF Spent, Held
  <2> QED BY <2>1, <2>3, <2>6, <2>7
<1>18. \A x : GivenBack(b, x, now) = SumFunctionOnSet(hr, {r \in G : r <= x})
  <2> SUFFICES ASSUME NEW x
               PROVE  GivenBack(b, x, now) = SumFunctionOnSet(hr, {r \in G : r <= x})
    OBVIOUS
  <2>1. {r \in R : r <= x /\ s[SlotOf(r)].until > now} = {r \in G : r <= x}
    BY <1>10, <1>11
  <2>2. GivenBack(b, x, now) = SumFunctionOnSet(hr, {r \in R : r <= x /\ s[SlotOf(r)].until > now})
    BY <1>1, <1>6, <1>15 DEF GivenBack, Held
  <2> QED BY <2>1, <2>2
<1>19. PICK all \in Nat : all = SumFunctionOnSet(hr, G) BY <1>16, SumNat
<1>20. Spent(b, now) = all
  <2>1. {r \in G : s[p[r]].until > now} = G BY <1>13
  <2> QED BY <1>0, <1>17, <1>19, <2>1
<1>21. deficit = cap - (limit - all - inflight) BY <1>3, <1>20 DEF Available
<1>22. CASE Covering(b, deficit, now) = {}
  <2>1. ~ (GivenBack(b, n, now) >= deficit) BY <1>6, <1>7, <1>22 DEF Covering
  <2>2. {r \in G : r <= n} = G BY <1>7, <1>13
  <2>3. all < deficit BY <1>18, <1>19, <2>1, <2>2
  <2>4. inflight > 0 BY <1>3, <1>21, <2>3
  <2> QED BY <1>3, <1>22, <2>4
<1>23. CASE Covering(b, deficit, now) # {}
  <2>1. PICK K : K = Covering(b, deficit, now) OBVIOUS
  <2>2. \A x : x \in K <=> x \in R /\ GivenBack(b, x, now) >= deficit
    BY <1>6, <2>1 DEF Covering
  <2>3. PICK x \in K : x = Min(K) /\ \A y \in K : x <= y
    <3>1. K \subseteq Nat /\ K # {} BY <1>7, <1>23, <2>1, <2>2
    <3>2. \E y \in K : \A z \in K : y <= z BY <3>1, LeastSize
    <3> QED BY <3>2 DEF Min
  <2>4. x \in R /\ x \in Nat BY <1>7, <2>2
  <2>5. PICK Lo, Hi, Le : /\ Lo = {r \in G : r < x} /\ Hi = {r \in G : r > x}
                          /\ Le = {r \in G : r <= x}
    OBVIOUS
  <2>6. /\ IsFiniteSet(Lo) /\ IsFiniteSet(Hi) /\ IsFiniteSet(Le)
        /\ Lo \in SUBSET G /\ Hi \in SUBSET G /\ Le \in SUBSET G
    BY <1>16, <2>5, FS_Subset
  <2>7. PICK lo \in Nat, hi \in Nat, le \in Nat :
          /\ lo = SumFunctionOnSet(hr, Lo) /\ hi = SumFunctionOnSet(hr, Hi)
          /\ le = SumFunctionOnSet(hr, Le)
    BY <1>16, <2>6, SumNat
  <2>8. le >= deficit BY <1>18, <2>2, <2>5, <2>7
  <2>9. lo < deficit
    <3>1. CASE x - 1 \in R
      <4>1. x - 1 \notin K BY <2>3, <2>4
      <4>2. ~ (GivenBack(b, x - 1, now) >= deficit) BY <2>2, <3>1, <4>1
      <4>3. {r \in G : r <= x - 1} = Lo BY <1>13, <2>4, <2>5
      <4>4. GivenBack(b, x - 1, now) = lo BY <1>18, <2>7, <4>3
      <4> QED BY <2>7, <4>2, <4>4
    <3>2. CASE x - 1 \notin R
      <4>1. ASSUME NEW r \in Lo PROVE FALSE
        <5>1. r \in Nat /\ r \in R /\ r < x BY <1>13, <2>5
        <5>2. x - 1 \in Nat /\ r <= x - 1 BY <2>4, <5>1
        <5>3. n - r <= V /\ x <= n BY <1>7, <2>4, <5>1
        <5>4. x - 1 <= n /\ n - (x - 1) <= V BY <2>4, <5>1, <5>2, <5>3
        <5> QED BY <1>7, <3>2, <5>2, <5>4
      <4>2. Lo = {} BY <4>1
      <4>3. lo = 0 BY <2>7, <4>2, SumEmpty
      <4> QED BY <4>3
    <3> QED BY <3>1, <3>2
  <2>10. x \in G
    <3>1. SUFFICES ASSUME x \notin G PROVE FALSE OBVIOUS
    <3>2. Le = Lo BY <1>13, <2>4, <2>5, <3>1
    <3> QED BY <2>7, <2>8, <2>9, <3>2
  <2>11. all = le + hi
    <3>1. Le \cap Hi = {} /\ Le \cup Hi = G BY <1>13, <2>4, <2>5
    <3>2. \A r \in Le \cup Hi : hr[r] \in Nat BY <1>16, <3>1
    <3>3. SumFunctionOnSet(hr, Le \cup Hi) = SumFunctionOnSet(hr, Le) + SumFunctionOnSet(hr, Hi)
      BY <2>6, <3>1, <3>2, SumUnion
    <3> QED BY <1>19, <2>7, <3>1, <3>3
  <2>12. PICK end \in Nat : end = s[p[x]].until /\ end > now BY <1>2, <1>13, <2>10
  <2>13. WaitFor(b, deficit, now) = end - now
    BY <1>1, <1>10, <2>1, <2>3, <2>4, <2>12 DEF WaitFor
  <2>18. end - now \in 1 .. Window + (clk - now)
    <3>1. PICK l \in Nat, W \in Nat : end = l + W /\ l <= clk /\ W = Window
      BY <1>13, <2>10, <2>12, WindowIs
    <3> QED BY <1>0, <2>12, <3>1
  <2>19. ASSUME ~ Overtaken(b, now)
         PROVE  Payable(b, cost, end) /\ \A u \in now .. end - 1 : ~ Payable(b, cost, u)
    <3>14. Spent(b, end) = hi
      <4>1. {r \in G : s[p[r]].until > end} = Hi BY <1>14, <2>5, <2>10, <2>12, <2>19
      <4> QED BY <1>0, <1>17, <2>7, <2>12, <4>1
    <3>15. Payable(b, cost, end)
      <4>1. limit - hi - inflight >= cap BY <1>21, <2>8, <2>11
      <4> QED BY <1>3, <3>14, <4>1 DEF Payable, Available
    <3>16. ASSUME NEW u \in now .. end - 1 PROVE ~ Payable(b, cost, u)
      <4>1. u \in Nat /\ now <= u /\ u < end BY <1>0, <2>12
      <4>2. PICK M : M = {r \in G : s[p[r]].until > u} OBVIOUS
      <4>3. IsFiniteSet(M) /\ M \in SUBSET G BY <1>16, <4>2, FS_Subset
      <4>4. G \ Lo \in SUBSET M
        <5> SUFFICES ASSUME NEW r \in G, r \notin Lo PROVE s[p[r]].until > u BY <4>2
        <5>1. r \in Nat /\ ~ (r < x) BY <1>13, <2>5
        <5>2. ~ (s[p[x]].until > s[p[r]].until) BY <1>14, <2>4, <2>10, <2>19, <5>1
        <5>3. s[p[r]].until \in Nat BY <1>2, <1>13
        <5> QED BY <2>12, <4>1, <5>2, <5>3
      <4>5. PICK m \in Nat : m = SumFunctionOnSet(hr, M) BY <1>16, <4>3, SumNat
      <4>6. PICK rest \in Nat : rest = SumFunctionOnSet(hr, G \ Lo) /\ rest <= m
        <5>1. IsFiniteSet(G \ Lo) /\ \A r \in G \ Lo : hr[r] \in Nat BY <1>16, FS_Difference
        <5>2. SumFunctionOnSet(hr, G \ Lo) \in Nat BY <5>1, SumNat
        <5>3. \A r \in M : hr[r] \in Nat BY <1>16, <4>3
        <5>4. SumFunctionOnSet(hr, G \ Lo) <= SumFunctionOnSet(hr, M) BY <4>3, <4>4, <5>3, SumMore
        <5> QED BY <4>5, <5>2, <5>4
      <4>7. all = lo + rest
        <5>1. Lo \cap (G \ Lo) = {} /\ Lo \cup (G \ Lo) = G /\ IsFiniteSet(G \ Lo)
          BY <1>16, <2>6, FS_Difference
        <5>2. \A r \in Lo \cup (G \ Lo) : hr[r] \in Nat BY <1>16, <5>1
        <5>3. SumFunctionOnSet(hr, Lo \cup (G \ Lo))
                = SumFunctionOnSet(hr, Lo) + SumFunctionOnSet(hr, G \ Lo)
          BY <2>6, <5>1, <5>2, SumUnion
        <5> QED BY <1>19, <2>7, <4>6, <5>1, <5>3
      <4>8. Spent(b, u) = m BY <1>17, <4>1, <4>2, <4>5
      <4>9. ~ (limit - m - inflight >= cap) BY <1>21, <2>9, <4>6, <4>7
      <4> QED BY <1>3, <4>8, <4>9 DEF Payable, Available
    <3> QED BY <3>15, <3>16
  <2>17. now + (end - now) = end /\ now + (end - now) - 1 = end - 1 BY <1>0, <2>12
  <2> QED BY <1>23, <2>13, <2>17, <2>18, <2>19
<1> QED BY <1>22, <1>23

(* A bucket with nothing in flight admits any call a window and a second on.  *)
LEMMA AdmitsLater ==
  ASSUME NEW b \in Buckets, NEW f, NEW now \in Ticks, SlotsFit(b.slots, f, now),
         b.inflight = 0, b.inflightReq = 0,
         b.req # NoCounter => b.req.limit >= 1, b.minute <= MinuteOf(now),
         NEW cost \in Nat, NEW t, t = now + Window + TicksPerSecond
  PROVE  Admits(Roll(b, t), cost, t)
<1>0. now \in Nat /\ Ticks \subseteq Nat BY TicksFinite
<1>1. PICK W \in Nat \ {0}, T \in Nat \ {0} : W = Window /\ T = TicksPerSecond
  BY WindowIs, QuotaAssumption
<1>2. t \in Nat /\ now + W <= t /\ t = now + W + T BY <1>0, <1>1
<1>3. PICK r \in Buckets : r = Roll(b, t) BY <1>2, RollIs
<1>4. /\ r.limit = b.limit /\ r.inflight = 0 /\ r.inflightReq = 0 /\ r.slots = b.slots
      /\ r.req # NoCounter => b.req # NoCounter
      /\ b.req # NoCounter /\ MinuteOf(t) > b.minute => r.req.left = b.req.limit
  <2>1. b \in Buckets /\ t \in Nat /\ r = Roll(b, t) BY <1>2, <1>3
  <2>2. /\ r.limit = b.limit /\ r.inflight = b.inflight /\ r.inflightReq = b.inflightReq
        /\ r.slots = b.slots
    BY ONLY <2>1, RollIs
  <2>3. r.req # NoCounter => b.req # NoCounter BY ONLY <2>1, RollIs
  <2>4. b.req # NoCounter /\ MinuteOf(t) > b.minute => r.req.left = b.req.limit
    BY ONLY <2>1, RollIs
  <2> QED BY <2>2, <2>3, <2>4
<1>5. MinuteOf(t) > b.minute
  <2>1. MinuteOf(now) < MinuteOf(t) BY <1>0, <1>1, <1>2, MinuteIs
  <2>2. MinuteOf(now) \in Nat /\ MinuteOf(t) \in Nat /\ b.minute \in Nat
    BY <1>0, <1>2, MinuteIs DEF Buckets
  <2> QED BY <2>1, <2>2
<1>6. RequestFree(r)
  <2>1. CASE r.req = NoCounter BY <2>1 DEF RequestFree
  <2>2. CASE r.req # NoCounter
    <3>1. r.req.left = b.req.limit /\ b.req.limit >= 1 BY <1>4, <1>5, <2>2
    <3>2. b.req.limit \in Nat BY DEF Buckets, Counters
    <3> QED BY <1>4, <3>1, <3>2 DEF RequestFree
  <2> QED BY <2>1, <2>2
<1>7. Spent(r, t) = 0
  <2>1. ASSUME NEW i \in Slots PROVE ~ Held(b.slots[i], t)
    <3>1. CASE b.slots[i] = Fresh BY <1>2, <3>1 DEF Fresh, Held
    <3>2. CASE b.slots[i] # Fresh
      <4>1. PICK l \in Ticks : LastBooked(b.slots, f, now, i, l) BY <3>2 DEF SlotsFit
      <4>2. l \in Nat /\ b.slots[i].until = l + W /\ l <= now BY <1>0, <1>1, <4>1 DEF LastBooked
      <4> QED BY <1>0, <1>1, <1>2, <4>2 DEF Held
    <3> QED BY <3>1, <3>2
  <2>2. {i \in Slots : Held(r.slots[i], t)} = {} BY <1>4, <2>1
  <2> QED BY <2>2, SumEmpty DEF Spent
<1>8. Payable(r, cost, t)
  <2>1. PICK limit \in Nat : limit = r.limit BY DEF Buckets
  <2>2. Capped(r, cost) <= limit BY <2>1 DEF Capped, Least
  <2>3. Available(r, t) = limit - 0 - 0 BY <1>4, <1>7, <2>1 DEF Available
  <2>4. Capped(r, cost) \in Nat BY <2>1 DEF Capped, Least
  <2> QED BY <2>1, <2>2, <2>3, <2>4 DEF Payable
<1>9. ~ Probing(r) BY <1>4 DEF Probing
<1> QED BY <1>3, <1>6, <1>8, <1>9 DEF Admits

-----------------------------------------------------------------------------
(* The live reservations.                                                  *)

LEMMA LiveFinite ==
  ASSUME NEW k
  PROVE  /\ LiveOn(k) \in SUBSET Callers /\ IsFiniteSet(LiveOn(k))
         /\ Cardinality(LiveOn(k)) \in Nat
<1>1. LiveOn(k) \in SUBSET Callers /\ IsFiniteSet(Callers)
  BY QuotaAssumption DEF LiveOn
<1> QED BY <1>1, FS_Subset, FS_CardinalityType

(* What the callers of a set hold.                                         *)
KeptIn(g, S) == SumFunctionOnSet([c \in Callers |-> g[c].kept], S)

LEMMA KeptIs ==
  ASSUME NEW g \in [Callers -> Calls], NEW S \in SUBSET Callers
  PROVE  /\ KeptIn(g, S) \in Nat
         /\ \A c \in S : /\ KeptIn(g, S \ {c}) \in Nat
                         /\ KeptIn(g, S) = g[c].kept + KeptIn(g, S \ {c})
<1>1. PICK f : f = [c \in Callers |-> g[c].kept] OBVIOUS
<1>2. \A c \in Callers : f[c] = g[c].kept /\ f[c] \in Nat /\ f[c] \in Int BY <1>1 DEF Calls
<1>3. IsFiniteSet(S) BY QuotaAssumption, FS_Subset
<1>4. SumFunctionOnSet(f, S) \in Nat BY <1>2, <1>3, SumNat
<1>5. ASSUME NEW c \in S
      PROVE  /\ SumFunctionOnSet(f, S \ {c}) \in Nat
             /\ SumFunctionOnSet(f, S) = g[c].kept + SumFunctionOnSet(f, S \ {c})
  <2>1. IsFiniteSet(S \ {c}) /\ \A d \in S \ {c} : f[d] \in Nat BY <1>2, <1>3, FS_RemoveElement
  <2>2. \A d \in S : f[d] \in Int BY <1>2
  <2>3. SumFunctionOnSet(f, S) = f[c] + SumFunctionOnSet(f, S \ {c}) BY <1>3, <2>2, SumAny
  <2> QED BY <1>2, <2>1, <2>3, SumNat
<1> QED BY <1>1, <1>4, <1>5 DEF KeptIn

LEMMA KeptSame ==
  ASSUME NEW S \in SUBSET Callers, NEW g, NEW h, \A c \in S : g[c].kept = h[c].kept
  PROVE  KeptIn(g, S) = KeptIn(h, S)
<1>1. PICK f, e : f = [c \in Callers |-> g[c].kept] /\ e = [c \in Callers |-> h[c].kept] OBVIOUS
<1>2. IsFiniteSet(S) /\ \A c \in S : f[c] = e[c] BY <1>1, QuotaAssumption, FS_Subset
<1>3. SumFunctionOnSet(f, S) = SumFunctionOnSet(e, S) BY <1>2, SumSame
<1> QED BY <1>1, <1>3 DEF KeptIn

LEMMA RestIs ==
  /\ AtRest \in Calls /\ AtRest.pc = "idle" /\ AtRest.now = 0 /\ AtRest.pc \notin Reserved
  /\ Seed \in Buckets
  /\ Seed.limit = SeedTokens /\ Seed.inflight = 0 /\ Seed.inflightReq = 0
  /\ Seed.slots = [i \in Slots |-> Fresh] /\ Seed.req = NoCounter /\ Seed.minute = 0
<1>1. NoCounter \in Counters BY DEF NoCounter, Counters
<1>2. PICK a \in Replies : a = NoReply BY <1>1 DEF NoReply, Replies
<1>3. PICK k \in Keys : k = (CHOOSE x \in Keys : TRUE) BY QuotaAssumption
<1>4. AtRest = [pc |-> "idle", now |-> 0, todo |-> {}, key |-> k, cost |-> 0, kept |-> 0,
                reply |-> a]
  BY <1>2, <1>3 DEF AtRest
<1>5. AtRest \in Calls /\ AtRest.pc = "idle" /\ AtRest.now = 0
  BY <1>4, TicksFinite DEF Calls
<1>6. PICK s \in SlotFcns : s = [i \in Slots |-> Fresh] BY DEF SlotFcns, Fresh
<1>7. PICK w \in Counters : w = NoCounter BY <1>1
<1>8. SeedTokens \in Nat BY QuotaAssumption
<1>9. Seed = [limit |-> SeedTokens, inflight |-> 0, inflightReq |-> 0, slots |-> s,
              req |-> w, minute |-> 0, informed |-> FALSE]
  BY <1>6, <1>7 DEF Seed, Fresh
<1>10. Seed \in Buckets /\ Seed.limit = SeedTokens /\ Seed.inflight = 0 /\ Seed.inflightReq = 0
       /\ Seed.slots = s /\ Seed.req = w /\ Seed.minute = 0
  BY <1>8, <1>9 DEF Buckets
<1> QED BY <1>5, <1>6, <1>7, <1>10 DEF Reserved

LEMMA InitOK == Init => IInv
<1> SUFFICES ASSUME Init PROVE IInv OBVIOUS
<1>0. /\ 0 \in Ticks /\ Ticks \subseteq Nat
      /\ Window \in Ticks /\ Window \in Nat /\ clock = Window
  <2>1. Window \in Nat /\ Window <= MaxClock BY WindowIs, QuotaAssumption
  <2> QED BY <2>1, TicksFinite DEF Init, Ticks
<1>1. Typed
  <2>1. service \in [Keys -> [left : 0 .. ReqLimit, minute : Nat]]
    BY QuotaAssumption DEF Init
  <2>2. asks \in 0 .. MaxAsks BY QuotaAssumption DEF Init
  <2>3. /\ bucket \in [Keys -> Buckets] /\ call \in [Callers -> Calls]
        /\ booked \in [Keys -> [Ticks -> Nat]]
    BY RestIs DEF Init
  <2> QED BY <1>0, <2>1, <2>2, <2>3 DEF Typed, Init
<1>2. Clocks
  <2>1. PICK m : m = AtRest /\ m.pc = "idle" /\ m.now = 0 BY RestIs
  <2>2. LateBySecond(m) BY <1>0, <2>1 DEF LateBySecond
  <2>3. \A c \in Callers : call[c] = m BY <2>1 DEF Init
  <2> QED BY <2>2, <2>3 DEF Clocks
<1>3. CountersOK
  <2>1. MinuteOf(Window) \in Nat BY <1>0, MinuteIs
  <2> QED BY <1>0, <2>1, RestIs DEF Init, CountersOK, Unsealed
<1>4. SlotsOK
  <2>1. \A i \in Slots : [j \in Slots |-> Fresh][i] = Fresh OBVIOUS
  <2>2. SlotsFit([i \in Slots |-> Fresh], [t \in Ticks |-> 0], Window)
    BY <2>1 DEF SlotsFit
  <2> QED BY <1>0, <2>2, RestIs DEF Init, SlotsOK
<1>5. \A k \in Keys : LiveOn(k) = {} BY RestIs DEF Init, LiveOn
<1>6. \A k \in Keys : /\ bucket[k].inflight = 0 /\ bucket[k].inflightReq = 0
                      /\ bucket[k].limit = SeedTokens
  BY RestIs DEF Init
<1>7. RequestsCounted BY <1>5, <1>6, FS_EmptySet DEF RequestsCounted
<1>8. OneProbe BY <1>5, FS_EmptySet DEF OneProbe
<1>9. TokensKept
  <2>1. \A k \in Keys : Kept(k) = 0 BY <1>5, SumEmpty DEF Kept
  <2>2. SeedTokens \in Nat \ {0} BY QuotaAssumption
  <2> QED BY <1>5, <1>6, <2>1, <2>2 DEF TokensKept
<1> QED BY <1>1, <1>2, <1>3, <1>4, <1>7, <1>8, <1>9 DEF IInv

-----------------------------------------------------------------------------
(* A step that takes no reservation and gives none back: a caller moves, and  *)
(* a bucket may roll its counter.                                          *)

Quiet(c) ==
  /\ \E m \in Calls :
       /\ call' = [call EXCEPT ![c] = m]
       /\ m.pc \in Reserved <=> call[c].pc \in Reserved
       /\ m.pc \in Reserved =>
            m.key = call[c].key /\ m.cost = call[c].cost /\ m.kept = call[c].kept
       /\ LateBySecond(m)
  /\ bucket' \in [Keys -> Buckets]
  /\ \A k \in Keys :
       /\ bucket'[k].limit = bucket[k].limit /\ bucket'[k].inflight = bucket[k].inflight
       /\ bucket'[k].inflightReq = bucket[k].inflightReq /\ bucket'[k].slots = bucket[k].slots
       /\ bucket'[k].informed = bucket[k].informed
       /\ Unsealed(bucket'[k])
  /\ service' \in [Keys -> [left : 0 .. ReqLimit, minute : Nat]]
  /\ asks' \in 0 .. MaxAsks
  /\ UNCHANGED <<clock, booked, upset>>

LEMMA QuietKeeps ==
  ASSUME IInv, NEW c \in Callers, Quiet(c) PROVE IInv'
<1>0. /\ call \in [Callers -> Calls] /\ bucket \in [Keys -> Buckets]
      /\ clock' = clock /\ booked' = booked /\ upset' = upset
  BY DEF IInv, Typed, Quiet
<1>1. PICK m \in Calls :
        /\ call' = [call EXCEPT ![c] = m]
        /\ m.pc \in Reserved <=> call[c].pc \in Reserved
        /\ m.pc \in Reserved =>
             m.key = call[c].key /\ m.cost = call[c].cost /\ m.kept = call[c].kept
        /\ LateBySecond(m)
  BY DEF Quiet
<1>2. /\ call' \in [Callers -> Calls] /\ call'[c] = m
      /\ \A d \in Callers : d # c => call'[d] = call[d]
  BY <1>0, <1>1
<1>3. \A k \in Keys :
        /\ bucket'[k].limit = bucket[k].limit /\ bucket'[k].inflight = bucket[k].inflight
        /\ bucket'[k].inflightReq = bucket[k].inflightReq /\ bucket'[k].slots = bucket[k].slots
        /\ bucket'[k].informed = bucket[k].informed
        /\ Unsealed(bucket'[k])
  BY DEF Quiet
<1>4. Typed' BY <1>0, <1>2 DEF IInv, Typed, Quiet
<1>5. Clocks' BY <1>0, <1>1, <1>2 DEF IInv, Clocks, LateBySecond
<1>6. CountersOK' BY <1>0, <1>3 DEF CountersOK, Unsealed
<1>7. SlotsOK' BY <1>0, <1>3 DEF IInv, SlotsOK, SlotsFit, LastBooked
<1>8. ASSUME NEW k PROVE LiveOn(k)' = LiveOn(k)
  <2>1. ASSUME NEW d \in Callers
        PROVE  call'[d].pc \in Reserved /\ call'[d].key = k <=> call[d].pc \in Reserved /\ call[d].key = k
    BY <1>1, <1>2
  <2> QED BY <2>1 DEF LiveOn
<1>9. ASSUME NEW k, NEW d \in LiveOn(k)
      PROVE  d \in Callers /\ call'[d].kept = call[d].kept /\ call'[d].cost = call[d].cost
  BY <1>1, <1>2 DEF LiveOn
<1>10. RequestsCounted' BY <1>3, <1>8 DEF IInv, RequestsCounted
<1>11. OneProbe' BY <1>3, <1>8 DEF IInv, OneProbe
<1>12. \A k \in Keys : Kept(k)' = Kept(k)
  <2> SUFFICES ASSUME NEW k \in Keys PROVE Kept(k)' = Kept(k) OBVIOUS
  <2>1. LiveOn(k) \in SUBSET Callers /\ \A d \in LiveOn(k) : call'[d].kept = call[d].kept
    BY <1>9, LiveFinite
  <2>2. KeptIn(call', LiveOn(k)) = KeptIn(call, LiveOn(k)) BY <2>1, KeptSame
  <2> QED BY <2>2, <1>8 DEF Kept, KeptIn
<1>13. TokensKept'
  <2> SUFFICES ASSUME NEW k \in Keys
               PROVE  /\ \A d \in LiveOn(k)' : call'[d].kept <= call'[d].cost
                      /\ bucket'[k].inflight <= Kept(k)'
                      /\ k \notin upset' =>
                           /\ bucket'[k].inflight = Kept(k)' /\ bucket'[k].limit > 0
                           /\ \A d \in LiveOn(k)' : call'[d].kept < call'[d].cost =>
                                /\ bucket'[k].limit <= call'[d].kept
                                /\ \A e \in LiveOn(k)' \ {d} : call'[e].kept = 0
    BY DEF TokensKept
  <2>1. /\ \A d \in LiveOn(k) : call[d].kept <= call[d].cost
        /\ bucket[k].inflight <= Kept(k)
        /\ k \notin upset =>
             /\ bucket[k].inflight = Kept(k) /\ bucket[k].limit > 0
             /\ \A d \in LiveOn(k) : call[d].kept < call[d].cost =>
                  /\ bucket[k].limit <= call[d].kept
                  /\ \A e \in LiveOn(k) \ {d} : call[e].kept = 0
    BY DEF IInv, TokensKept
  <2> QED BY <1>0, <1>3, <1>8, <1>9, <1>12, <2>1
<1> QED BY <1>4, <1>5, <1>6, <1>7, <1>10, <1>11, <1>13 DEF IInv

(* The caller's side of the steps that leave the buckets alone.             *)
LEMMA MoveIsQuiet ==
  ASSUME IInv, NEW c \in Callers, NEW m \in Calls, call' = [call EXCEPT ![c] = m],
         m.pc \in Reserved <=> call[c].pc \in Reserved,
         m.pc \in Reserved =>
           m.key = call[c].key /\ m.cost = call[c].cost /\ m.kept = call[c].kept,
         LateBySecond(m),
         service' \in [Keys -> [left : 0 .. ReqLimit, minute : Nat]], asks' \in 0 .. MaxAsks,
         UNCHANGED <<clock, bucket, booked, upset>>
  PROVE  IInv'
<1>1. \A k \in Keys : Unsealed(bucket[k]) BY DEF IInv, CountersOK
<1>2. Quiet(c) BY <1>1 DEF IInv, Typed, Quiet
<1> QED BY <1>2, QuietKeeps

LEMMA CallerIs ==
  ASSUME IInv, NEW c \in Callers
  PROVE  /\ call[c] \in Calls /\ LateBySecond(call[c])
         /\ clock \in Nat /\ clock \in Ticks /\ clock - clock = 0 /\ clock <= clock
         /\ TicksPerSecond \in Nat \ {0}
  BY TicksFinite, QuotaAssumption DEF IInv, Typed, Clocks

LEMMA AskStep ==
  ASSUME IInv, NEW c \in Callers, Ask(c) PROVE IInv'
<1>0. clock \in Ticks /\ clock \in Nat BY CallerIs
<1>1. PICK order \in (SUBSET Keys) \ {{}}, cost \in Costs :
        call' = [call EXCEPT ![c] = [AtRest EXCEPT !.pc = "asking", !.now = clock,
                                                   !.todo = order, !.cost = cost]]
  BY DEF Ask
<1>2. PICK rest \in Calls : rest = AtRest BY RestIs
<1>3. PICK now \in Ticks : now = clock BY <1>0
<1>4. PICK m : m = [rest EXCEPT !.pc = "asking", !.now = now, !.todo = order, !.cost = cost]
  OBVIOUS
<1>5. m \in Calls /\ m.pc = "asking" /\ m.now = now
  <2>1. cost \in Nat /\ order \in SUBSET Keys BY QuotaAssumption
  <2> QED BY <2>1, <1>4 DEF Calls
<1>6. LateBySecond(m) BY <1>3, <1>5, CallerIs DEF LateBySecond
<1>7. call' = [call EXCEPT ![c] = m] BY <1>1, <1>2, <1>3, <1>4
<1>8. m.pc \notin Reserved /\ call[c].pc \notin Reserved BY <1>5 DEF Ask, Reserved
<1>9. asks' \in 0 .. MaxAsks BY QuotaAssumption DEF Ask, IInv, Typed
<1>10. /\ service' \in [Keys -> [left : 0 .. ReqLimit, minute : Nat]]
       /\ UNCHANGED <<clock, bucket, booked, upset>>
  BY DEF Ask, IInv, Typed
<1> QED BY <1>5, <1>6, <1>7, <1>8, <1>9, <1>10, MoveIsQuiet

LEMMA StampStep ==
  ASSUME IInv, NEW c \in Callers, Stamp(c) PROVE IInv'
<1>1. PICK now \in Ticks, n \in Calls : now = clock /\ n = call[c] /\ n.pc = "answered"
  BY CallerIs DEF Stamp
<1>2. PICK m : m = [n EXCEPT !.pc = "stamped", !.now = now] OBVIOUS
<1>3. /\ m \in Calls /\ m.pc = "stamped" /\ m.now = now
      /\ m.key = n.key /\ m.cost = n.cost /\ m.kept = n.kept
  BY <1>2 DEF Calls, Reserved
<1>4. LateBySecond(m) BY <1>1, <1>3, CallerIs DEF LateBySecond
<1>5. call' = [call EXCEPT ![c] = m] BY <1>1, <1>2 DEF Stamp
<1>6. m.pc \in Reserved /\ call[c].pc \in Reserved BY <1>1, <1>3 DEF Reserved
<1>7. /\ service' \in [Keys -> [left : 0 .. ReqLimit, minute : Nat]]
      /\ asks' \in 0 .. MaxAsks
      /\ UNCHANGED <<clock, bucket, booked, upset>>
  BY DEF Stamp, IInv, Typed
<1> QED BY <1>1, <1>3, <1>4, <1>5, <1>6, <1>7, MoveIsQuiet

LEMMA AnswerStep ==
  ASSUME IInv, NEW c \in Callers, NEW left \in 0 .. ReqLimit, NEW reply \in Replies,
         Answers(c, left, reply)
  PROVE  IInv'
<1>1. PICK n \in Calls : n = call[c] /\ n.pc = "sent" BY CallerIs DEF Answers
<1>2. PICK m : m = [n EXCEPT !.pc = "answered", !.reply = reply] OBVIOUS
<1>3. /\ m \in Calls /\ m.pc = "answered" /\ m.now = n.now
      /\ m.key = n.key /\ m.cost = n.cost /\ m.kept = n.kept
  BY <1>2 DEF Calls, Reserved
<1>4. LateBySecond(m) BY <1>1, <1>3, CallerIs DEF LateBySecond
<1>5. call' = [call EXCEPT ![c] = m] BY <1>1, <1>2 DEF Answers
<1>6. m.pc \in Reserved /\ call[c].pc \in Reserved BY <1>1, <1>3 DEF Reserved
<1>7. service' \in [Keys -> [left : 0 .. ReqLimit, minute : Nat]]
  <2>1. PICK u \in Nat : u = MinuteOf(clock) BY CallerIs, MinuteIs
  <2>2. service' = [service EXCEPT ![n.key] = [left |-> left, minute |-> u]]
    BY <1>1, <2>1 DEF Answers
  <2>3. service \in [Keys -> [left : 0 .. ReqLimit, minute : Nat]] BY DEF IInv, Typed
  <2> QED BY <2>2, <2>3
<1>8. asks' \in 0 .. MaxAsks /\ UNCHANGED <<clock, bucket, booked, upset>>
  BY DEF Answers, IInv, Typed
<1> QED BY <1>1, <1>3, <1>4, <1>5, <1>6, <1>7, <1>8, MoveIsQuiet

(* What the service answers.                                               *)
LEMMA ServiceStep ==
  ASSUME IInv, NEW c \in Callers,
         Serves(c) \/ OutOfRequests(c) \/ OutOfTokens(c) \/ TierClosed(c) \/ Fails(c)
  PROVE  IInv'
<1>1. PICK k \in Keys : k = call[c].key BY CallerIs DEF Calls
<1>2. PICK granted \in 0 .. ReqLimit : granted = Granted(k)
  <2>1. service[k].left \in 0 .. ReqLimit BY DEF IInv, Typed
  <2>2. ReqLimit \in 0 .. ReqLimit BY QuotaAssumption
  <2> QED BY <2>1, <2>2 DEF Granted
<1>3. NoCounter \in Counters BY DEF NoCounter, Counters
<1>4. ASSUME NEW limit \in Nat, NEW left \in Int PROVE Announced(limit, left) \in Counters
  BY <1>3 DEF Announced, Counters
<1>5. ASSUME NEW kind \in {"served", "refused", "failed"}, NEW req \in Counters,
             NEW tok \in Counters, NEW bill \in Nat
      PROVE  Reply(kind, req, tok, bill) \in Replies
  BY DEF Reply, Replies
<1>6. ReqLimit \in Nat /\ 0 \in 0 .. ReqLimit /\ Limits \subseteq Nat /\ Bills \subseteq Nat
  BY QuotaAssumption
<1>7. \A limit \in Limits : [limit |-> limit, left |-> 0] \in Counters BY <1>6 DEF Counters
<1>8. CASE Serves(c)
  <2>1. PICK left \in 0 .. ReqLimit : left = granted - (IF Announces THEN 1 ELSE 0) /\ left >= 0
    BY <1>1, <1>2, <1>6, <1>8 DEF Serves
  <2>2. PICK limit \in Limits, bill \in Bills :
          Answers(c, left, Reply("served", Announced(ReqLimit, left),
                                 [limit |-> limit, left |-> 0], bill))
    BY <1>1, <1>2, <1>8, <2>1 DEF Serves
  <2>3. Reply("served", Announced(ReqLimit, left), [limit |-> limit, left |-> 0], bill)
          \in Replies
    BY <1>4, <1>5, <1>6, <1>7
  <2> QED BY <2>2, <2>3, AnswerStep
<1>9. CASE OutOfRequests(c)
  <2>1. Answers(c, 0, Reply("refused", Announced(ReqLimit, 0), NoCounter, 0))
    BY <1>9 DEF OutOfRequests
  <2>2. Reply("refused", Announced(ReqLimit, 0), NoCounter, 0) \in Replies
    BY <1>3, <1>4, <1>5, <1>6
  <2> QED BY <1>6, <2>1, <2>2, AnswerStep
<1>10. CASE OutOfTokens(c)
  <2>1. PICK limit \in Limits :
          Answers(c, granted, Reply("refused", NoCounter, [limit |-> limit, left |-> 0], 0))
    BY <1>1, <1>2, <1>10 DEF OutOfTokens
  <2>2. Reply("refused", NoCounter, [limit |-> limit, left |-> 0], 0) \in Replies
    BY <1>3, <1>5, <1>7
  <2> QED BY <2>1, <2>2, AnswerStep
<1>11. CASE TierClosed(c)
  <2>1. Answers(c, granted, Reply("refused", Announced(0, 0), NoCounter, 0))
    BY <1>1, <1>2, <1>11 DEF TierClosed
  <2>2. Reply("refused", Announced(0, 0), NoCounter, 0) \in Replies
    BY <1>3, <1>4, <1>5
  <2> QED BY <2>1, <2>2, AnswerStep
<1>12. CASE Fails(c)
  <2>1. Answers(c, granted, Reply("failed", NoCounter, NoCounter, 0))
    BY <1>1, <1>2, <1>12 DEF Fails
  <2>2. Reply("failed", NoCounter, NoCounter, 0) \in Replies BY <1>3, <1>5
  <2> QED BY <2>1, <2>2, AnswerStep
<1> QED BY <1>8, <1>9, <1>10, <1>11, <1>12

(* A refused admission rolls the counter of a bucket.                       *)
LEMMA DenyStep ==
  ASSUME IInv, NEW c \in Callers, Deny(c) PROVE IInv'
<1>1. PICK n \in Calls : n = call[c] /\ n.pc = "asking" /\ LateBySecond(n)
  BY CallerIs DEF Deny
<1>2. PICK k \in n.todo :
        /\ bucket' = [bucket EXCEPT ![k] = Roll(bucket[k], n.now)]
        /\ call' = [call EXCEPT ![c] = IF n.todo \ {k} = {} THEN AtRest
                                       ELSE [n EXCEPT !.todo = n.todo \ {k}]]
  BY <1>1 DEF Deny
<1>3. k \in Keys /\ n.now \in Nat /\ n.now <= clock
  BY <1>1, TicksFinite DEF Calls, LateBySecond
<1>4. bucket \in [Keys -> Buckets] /\ bucket[k] \in Buckets /\ Unsealed(bucket[k]) /\ clock \in Nat
  BY <1>3, TicksFinite DEF IInv, Typed, CountersOK
<1>5. PICK r \in Buckets : r = Roll(bucket[k], n.now) BY <1>3, <1>4, RollIs
<1>6. /\ r.limit = bucket[k].limit /\ r.inflight = bucket[k].inflight
      /\ r.inflightReq = bucket[k].inflightReq /\ r.slots = bucket[k].slots
      /\ r.informed = bucket[k].informed
  BY <1>3, <1>4, <1>5, RollIs
<1>7. Unsealed(r)
  <2>1. /\ r.req.limit = bucket[k].req.limit /\ (r.req # NoCounter => bucket[k].req # NoCounter)
        /\ r.minute = bucket[k].minute \/ r.minute = MinuteOf(n.now)
    BY <1>3, <1>4, <1>5, RollIs
  <2>2. MinuteOf(n.now) <= MinuteOf(clock) BY <1>3, <1>4, MinuteIs
  <2> QED BY <1>4, <2>1, <2>2 DEF Unsealed
<1>8. /\ bucket' \in [Keys -> Buckets] /\ bucket'[k] = r
      /\ \A j \in Keys : j # k => bucket'[j] = bucket[j]
  BY <1>2, <1>3, <1>4, <1>5
<1>9. \A j \in Keys : Unsealed(bucket[j]) BY DEF IInv, CountersOK
<1>10. PICK left : left = n.todo \ {k} /\ left \in SUBSET Keys BY DEF Calls
<1>11. PICK m \in Calls :
         /\ call' = [call EXCEPT ![c] = m]
         /\ m.pc \notin Reserved /\ LateBySecond(m)
  <2>1. CASE left = {}
    <3>1. LateBySecond(AtRest) BY <1>4, RestIs DEF LateBySecond
    <3> QED BY <1>2, <1>10, <2>1, <3>1, RestIs
  <2>2. CASE left # {}
    <3>1. PICK m : m = [n EXCEPT !.todo = left] OBVIOUS
    <3>2. m \in Calls /\ m.pc = "asking" /\ m.now = n.now BY <1>1, <1>10, <3>1 DEF Calls
    <3>3. call' = [call EXCEPT ![c] = m] BY <1>2, <1>10, <2>2, <3>1
    <3>4. LateBySecond(m) /\ m.pc \notin Reserved
      BY <1>1, <3>2 DEF LateBySecond, Reserved
    <3> QED BY <3>2, <3>3, <3>4
  <2> QED BY <2>1, <2>2
<1>12. call[c].pc \notin Reserved BY <1>1 DEF Reserved
<1>13. /\ service' \in [Keys -> [left : 0 .. ReqLimit, minute : Nat]]
       /\ asks' \in 0 .. MaxAsks /\ UNCHANGED <<clock, booked, upset>>
  BY DEF Deny, IInv, Typed
<1>14. Quiet(c) BY <1>6, <1>7, <1>8, <1>9, <1>11, <1>12, <1>13 DEF Quiet
<1> QED BY <1>14, QuietKeeps

-----------------------------------------------------------------------------
(* The tokens in flight of one bucket, b, against what the callers of a set   *)
(* hold on it.                                                             *)

TokensOf(b, g, S, exact) ==
  /\ \A c \in S : g[c].kept <= g[c].cost
  /\ b.inflight <= KeptIn(g, S)
  /\ exact =>
       /\ b.inflight = KeptIn(g, S) /\ b.limit > 0
       /\ \A c \in S : g[c].kept < g[c].cost =>
            /\ b.limit <= g[c].kept
            /\ \A d \in S \ {c} : g[d].kept = 0

LEMMA TokensAre == TokensKept <=> \A k \in Keys : TokensOf(bucket[k], call, LiveOn(k), k \notin upset)
BY DEF TokensKept, TokensOf, Kept, KeptIn

LEMMA KeptNothing ==
  ASSUME NEW g \in [Callers -> Calls], NEW S \in SUBSET Callers, \A c \in S : g[c].kept = 0
  PROVE  KeptIn(g, S) = 0
<1>1. PICK f : f = [c \in Callers |-> g[c].kept] OBVIOUS
<1>2. \A c \in S : f[c] = 0 /\ f[c] \in Nat BY <1>1
<1>3. IsFiniteSet(S) /\ {} \in SUBSET S BY QuotaAssumption, FS_Subset
<1>4. \A c \in S \ {} : f[c] = 0 BY <1>2
<1>5. SumFunctionOnSet(f, S) = SumFunctionOnSet(f, {}) BY <1>2, <1>3, <1>4, SumBut0
<1> QED BY <1>1, <1>5, SumEmpty DEF KeptIn

LEMMA TokensReserved ==
  ASSUME NEW b \in Buckets, NEW r \in Buckets, NEW g \in [Callers -> Calls],
         NEW h \in [Callers -> Calls], NEW S \in SUBSET Callers, NEW c \in Callers \ S,
         \A d \in S : h[d].kept = g[d].kept /\ h[d].cost = g[d].cost,
         NEW exact \in BOOLEAN, TokensOf(b, g, S, exact),
         NEW cap \in Nat, cap = Capped(b, h[c].cost), h[c].kept = cap,
         r.limit = b.limit, r.inflight = b.inflight + cap,
         NEW spent \in Nat, b.limit - spent - b.inflight >= cap
  PROVE  TokensOf(r, h, S \cup {c}, exact)
<1>1. PICK limit \in Nat, inflight \in Nat, cost \in Nat :
        limit = b.limit /\ inflight = b.inflight /\ cost = h[c].cost
  BY DEF Buckets, Calls
<1>2. cap <= cost /\ cap <= limit /\ (cap < cost => cap = limit)
  BY <1>1 DEF Capped, Least
<1>3. PICK K \in Nat : K = KeptIn(g, S) BY KeptIs
<1>4. KeptIn(h, S \cup {c}) = K + cap
  <2>1. S \cup {c} \in SUBSET Callers /\ (S \cup {c}) \ {c} = S OBVIOUS
  <2>2. KeptIn(h, S \cup {c}) = h[c].kept + KeptIn(h, (S \cup {c}) \ {c}) BY <2>1, KeptIs
  <2>3. KeptIn(h, S) = K BY <1>3, KeptSame
  <2>4. KeptIn(h, S \cup {c}) = cap + K BY ONLY <2>1, <2>2, <2>3, h[c].kept = cap
  <2> QED BY ONLY <2>4, cap \in Nat, K \in Nat
<1>5. ASSUME NEW d \in S
      PROVE  g[d].kept \in Nat /\ g[d].cost \in Nat /\ g[d].kept <= K /\ g[d].kept <= g[d].cost
  <2>1. KeptIn(g, S \ {d}) \in Nat /\ K = g[d].kept + KeptIn(g, S \ {d}) BY <1>3, KeptIs
  <2>2. g[d].kept \in Nat /\ g[d].cost \in Nat BY DEF Calls
  <2>3. PICK x \in Nat : x = KeptIn(g, S \ {d}) BY <2>1
  <2> QED BY <2>1, <2>2, <2>3 DEF TokensOf
<1>6. inflight <= K /\ r.inflight = inflight + cap /\ r.limit = limit
  BY <1>1, <1>3 DEF TokensOf
<1>7. \A d \in S \cup {c} : h[d].kept <= h[d].cost
  BY <1>1, <1>2, <1>5
<1>8. r.inflight <= KeptIn(h, S \cup {c}) BY <1>4, <1>6
<1>9. ASSUME exact
      PROVE  /\ r.inflight = KeptIn(h, S \cup {c}) /\ r.limit > 0
             /\ \A e \in S \cup {c} : h[e].kept < h[e].cost =>
                  /\ r.limit <= h[e].kept
                  /\ \A d \in (S \cup {c}) \ {e} : h[d].kept = 0
  <2>1. inflight = K /\ limit > 0 BY <1>1, <1>3, <1>9 DEF TokensOf
  <2>2. r.inflight = KeptIn(h, S \cup {c}) BY <1>4, <1>6, <2>1
  <2>3. ASSUME h[c].kept < h[c].cost
        PROVE  limit <= h[c].kept /\ \A d \in S : h[d].kept = 0
    <3>1. cap = limit BY <1>1, <1>2, <2>3
    <3>2. K = 0 BY <1>1, <2>1, <3>1
    <3> QED BY <1>1, <1>5, <3>1, <3>2
  <2>4. ASSUME NEW e \in S, h[e].kept < h[e].cost
        PROVE  /\ limit <= h[e].kept
               /\ \A d \in (S \cup {c}) \ {e} : h[d].kept = 0
    <3>1. g[e].kept < g[e].cost BY <2>4
    <3>2. limit <= g[e].kept /\ \A d \in S \ {e} : g[d].kept = 0
      BY <1>1, <1>9, <3>1 DEF TokensOf
    <3>3. cap = 0 BY <1>1, <1>5, <2>1, <3>2
    <3> QED BY <3>2, <3>3
  <2> QED BY <1>6, <2>1, <2>2, <2>3, <2>4
<1> QED BY <1>7, <1>8, <1>9 DEF TokensOf

(* What a release leaves of the tokens in flight.                           *)
GaveBack(r, b, cost) == r.inflight = Above0(b.inflight - cost)

Released(b, r, g, h, S, c, exact, later) ==
  /\ TokensOf(b, g, S, exact) /\ GaveBack(r, b, g[c].cost)
  /\ \A d \in S \ {c} : h[d].kept = g[d].kept /\ h[d].cost = g[d].cost
  /\ later =>
       /\ exact
       /\ \/ r.limit = b.limit
          \/ /\ r.limit > 0
             /\ \A d \in S \ {c} : g[d].kept < g[d].cost => r.limit <= g[d].kept

LEMMA TokensReleased ==
  ASSUME NEW b \in Buckets, NEW r \in Buckets, NEW g \in [Callers -> Calls],
         NEW h \in [Callers -> Calls], NEW S \in SUBSET Callers, NEW c \in S,
         NEW exact \in BOOLEAN, NEW later \in BOOLEAN,
         Released(b, r, g, h, S, c, exact, later)
  PROVE  TokensOf(r, h, S \ {c}, later)
<1> USE DEF Released
<1>1. PICK limit \in Nat, inflight \in Nat, cost \in Nat, kept \in Nat :
        limit = b.limit /\ inflight = b.inflight /\ cost = g[c].cost /\ kept = g[c].kept
  BY DEF Buckets, Calls
<1>2. PICK K \in Nat, R \in Nat : K = KeptIn(g, S) /\ R = KeptIn(g, S \ {c}) /\ K = kept + R
  BY <1>1, KeptIs
<1>3. KeptIn(h, S \ {c}) = R BY <1>2, KeptSame
<1>4. kept <= cost /\ inflight <= K BY <1>1, <1>2 DEF TokensOf
<1>5. \A d \in S \ {c} : h[d].kept <= h[d].cost BY DEF TokensOf
<1>6. r.inflight = Above0(inflight - cost) BY <1>1 DEF GaveBack
<1>7. r.inflight <= R BY <1>2, <1>4, <1>6 DEF Above0
<1>8. ASSUME later
      PROVE  /\ r.inflight = R /\ r.limit > 0
             /\ \A e \in S \ {c} : h[e].kept < h[e].cost =>
                  /\ r.limit <= h[e].kept
                  /\ \A d \in (S \ {c}) \ {e} : h[d].kept = 0
  <2>1. /\ inflight = K /\ limit > 0
        /\ \A e \in S : g[e].kept < g[e].cost =>
             limit <= g[e].kept /\ \A d \in S \ {e} : g[d].kept = 0
    BY <1>1, <1>2, <1>8 DEF TokensOf
  <2>2. r.inflight = R
    <3>1. CASE kept = cost BY <1>2, <1>6, <2>1, <3>1 DEF Above0
    <3>2. CASE kept < cost
      <4>1. \A d \in S \ {c} : g[d].kept = 0 BY <1>1, <2>1, <3>2
      <4>2. S \ {c} \in SUBSET Callers OBVIOUS
      <4>3. R = 0 BY <1>2, <4>1, <4>2, KeptNothing
      <4> QED BY <1>2, <1>6, <2>1, <3>2, <4>3 DEF Above0
    <3> QED BY <1>4, <3>1, <3>2
  <2>3. r.limit > 0 BY <1>1, <1>8, <2>1
  <2>4. ASSUME NEW e \in S \ {c}, h[e].kept < h[e].cost
        PROVE  /\ r.limit <= h[e].kept
               /\ \A d \in (S \ {c}) \ {e} : h[d].kept = 0
    <3>1. g[e].kept < g[e].cost /\ e \in S /\ h[e].kept = g[e].kept BY <2>4
    <3>2. limit <= g[e].kept /\ \A d \in S \ {e} : g[d].kept = 0 BY <2>1, <3>1
    <3>3. r.limit <= g[e].kept BY <1>1, <1>8, <3>1, <3>2
    <3> QED BY <3>1, <3>2, <3>3
  <2> QED BY <2>2, <2>3, <2>4
<1> QED BY <1>3, <1>5, <1>7, <1>8 DEF TokensOf

(* An admission: one caller enters the live reservations of one key.        *)
LEMMA GrantStep ==
  ASSUME IInv, NEW c \in Callers, Grant(c) PROVE IInv'
<1>1. PICK n \in Calls : n = call[c] /\ n.pc = "asking" /\ LateBySecond(n)
  BY CallerIs DEF Grant
<1>2. PICK k0 \in n.todo :
        LET b == Roll(bucket[k0], n.now) IN
        /\ Admits(b, n.cost, n.now)
        /\ bucket' = [bucket EXCEPT ![k0] = Reserve(b, n.cost)]
        /\ call' = [call EXCEPT ![c] = [n EXCEPT !.pc = "sent", !.key = k0, !.todo = {},
                                                 !.kept = Capped(b, n.cost)]]
  BY <1>1 DEF Grant
<1>3. k0 \in Keys /\ n.now \in Nat /\ n.now <= clock /\ n.cost \in Nat
  BY <1>1, TicksFinite DEF Calls, LateBySecond
<1>4. /\ bucket \in [Keys -> Buckets] /\ bucket[k0] \in Buckets /\ Unsealed(bucket[k0])
      /\ clock \in Nat /\ call \in [Callers -> Calls]
  BY <1>3, TicksFinite DEF IInv, Typed, CountersOK
<1>5. PICK q \in Buckets : q = Roll(bucket[k0], n.now) BY <1>3, <1>4, RollIs
<1>6. /\ q.limit = bucket[k0].limit /\ q.inflight = bucket[k0].inflight
      /\ q.inflightReq = bucket[k0].inflightReq /\ q.slots = bucket[k0].slots
      /\ q.informed = bucket[k0].informed
      /\ q.req.limit = bucket[k0].req.limit /\ (q.req # NoCounter => bucket[k0].req # NoCounter)
      /\ q.minute = bucket[k0].minute \/ q.minute = MinuteOf(n.now)
  <2>0. bucket[k0] \in Buckets /\ n.now \in Nat /\ q = Roll(bucket[k0], n.now)
    BY <1>3, <1>4, <1>5
  <2>1. /\ q.limit = bucket[k0].limit /\ q.inflight = bucket[k0].inflight
        /\ q.inflightReq = bucket[k0].inflightReq /\ q.slots = bucket[k0].slots
        /\ q.informed = bucket[k0].informed
    BY ONLY <2>0, RollIs
  <2>2. /\ q.req.limit = bucket[k0].req.limit /\ (q.req # NoCounter => bucket[k0].req # NoCounter)
        /\ q.minute = bucket[k0].minute \/ q.minute = MinuteOf(n.now)
    BY ONLY <2>0, RollIs
  <2> QED BY <2>1, <2>2
<1>7. Unsealed(q)
  <2>1. MinuteOf(n.now) <= MinuteOf(clock) BY <1>3, <1>4, MinuteIs
  <2> QED BY <1>4, <1>6, <2>1 DEF Unsealed
<1>8. PICK cap \in Nat : cap = Capped(q, n.cost) BY <1>3, CappedIs
<1>9. PICK w \in Buckets :
        /\ w = Reserve(q, n.cost)
        /\ w.limit = q.limit /\ w.slots = q.slots /\ w.informed = q.informed
        /\ w.req = q.req /\ w.minute = q.minute
        /\ w.inflight = q.inflight + cap /\ w.inflightReq = q.inflightReq + 1
  BY <1>3, <1>8, ReserveIs
<1>10. PICK m : m = [n EXCEPT !.pc = "sent", !.key = k0, !.todo = {}, !.kept = cap] OBVIOUS
<1>11. /\ m \in Calls /\ m.pc = "sent" /\ m.key = k0 /\ m.kept = cap
       /\ m.cost = n.cost /\ m.now = n.now
  BY <1>3, <1>10 DEF Calls, Reserved
<1>12. bucket' = [bucket EXCEPT ![k0] = w] /\ call' = [call EXCEPT ![c] = m]
       /\ Admits(q, n.cost, n.now)
  BY <1>2, <1>5, <1>8, <1>9, <1>10
<1>13. /\ bucket' \in [Keys -> Buckets] /\ bucket'[k0] = w
       /\ \A k \in Keys : k # k0 => bucket'[k] = bucket[k]
  BY <1>3, <1>4, <1>12
<1>14. /\ call' \in [Callers -> Calls] /\ call'[c] = m
       /\ \A d \in Callers : d # c => call'[d] = call[d]
  BY <1>4, <1>11, <1>12
<1>15. clock' = clock /\ service' = service /\ booked' = booked /\ asks' = asks /\ upset' = upset
  BY DEF Grant
<1>16. Typed' BY <1>13, <1>14, <1>15 DEF IInv, Typed
<1>17. Clocks'
  <2>1. LateBySecond(m) BY <1>3, <1>11 DEF LateBySecond
  <2> QED BY <2>1, <1>14, <1>15 DEF IInv, Clocks, LateBySecond
<1>18. CountersOK'
  <2>1. Unsealed(w) BY <1>7, <1>9 DEF Unsealed
  <2> QED BY <2>1, <1>13, <1>15 DEF IInv, CountersOK, Unsealed
<1>19. SlotsOK'
  <2>1. \A k \in Keys : bucket'[k].slots = bucket[k].slots BY <1>6, <1>9, <1>13
  <2> QED BY <2>1, <1>15 DEF IInv, SlotsOK, SlotsFit, LastBooked
<1>20. LiveOn(k0)' = LiveOn(k0) \cup {c} /\ c \notin LiveOn(k0)
  <2>1. c \notin LiveOn(k0) BY <1>1 DEF LiveOn, Reserved
  <2>2. ASSUME NEW d PROVE d \in LiveOn(k0)' <=> d \in LiveOn(k0) \cup {c}
    BY <1>11, <1>14 DEF LiveOn, Reserved
  <2> QED BY <2>1, <2>2
<1>21. ASSUME NEW k \in Keys, k # k0
       PROVE  /\ LiveOn(k)' = LiveOn(k)
              /\ \A d \in LiveOn(k) : call'[d] = call[d]
  <2>1. ASSUME NEW d PROVE d \in LiveOn(k)' <=> d \in LiveOn(k)
    BY <1>1, <1>11, <1>14, <1>21 DEF LiveOn, Reserved
  <2>2. c \notin LiveOn(k) BY <1>1 DEF LiveOn, Reserved
  <2> QED BY <1>14, <2>1, <2>2 DEF LiveOn
<1>22. PICK S \in SUBSET Callers : S = LiveOn(k0) /\ IsFiniteSet(S) /\ Cardinality(S) \in Nat
  BY LiveFinite
<1>23. LiveOn(k0)' = S \cup {c} /\ c \notin S /\ Cardinality(S \cup {c}) = Cardinality(S) + 1
  BY <1>20, <1>22, FS_AddElement
<1>24. bucket[k0].inflightReq = Cardinality(S)
  BY <1>3, <1>22 DEF IInv, RequestsCounted
<1>25. RequestsCounted'
  <2>1. bucket'[k0].inflightReq = Cardinality(LiveOn(k0)')
    BY <1>6, <1>9, <1>13, <1>23, <1>24
  <2>2. \A k \in Keys : k # k0 => bucket'[k].inflightReq = Cardinality(LiveOn(k)')
    BY <1>13, <1>21 DEF IInv, RequestsCounted
  <2> QED BY <2>1, <2>2 DEF RequestsCounted
<1>26. OneProbe'
  <2>1. ~ bucket'[k0].informed => Cardinality(LiveOn(k0)') <= 1
    <3> SUFFICES ASSUME ~ q.informed PROVE Cardinality(LiveOn(k0)') <= 1 BY <1>9, <1>13
    <3>1. ~ (q.inflightReq > 0) BY <1>12 DEF Admits, Probing
    <3>2. Cardinality(S) = 0 BY <3>1, <1>6, <1>22, <1>24
    <3> QED BY <3>2, <1>23
  <2>2. \A k \in Keys : k # k0 /\ ~ bucket'[k].informed => Cardinality(LiveOn(k)') <= 1
    BY <1>13, <1>21 DEF IInv, OneProbe
  <2> QED BY <2>1, <2>2 DEF OneProbe
<1>27. TokensKept'
  <2>1. \A k \in Keys : TokensOf(bucket[k], call, LiveOn(k), k \notin upset)
    BY TokensAre DEF IInv
  <2>2. TokensOf(bucket'[k0], call', LiveOn(k0)', k0 \notin upset')
    <3>1. PICK exact \in BOOLEAN : exact = (k0 \notin upset) OBVIOUS
    <3>2. TokensOf(q, call, S, exact)
      <4>1. TokensOf(bucket[k0], call, S, exact) BY <1>3, <1>22, <2>1, <3>1
      <4> QED BY <4>1, <1>6 DEF TokensOf
    <3>3. PICK spent \in Nat : spent = Spent(q, n.now) BY <1>3, SpentIs
    <3>4. q.limit - spent - q.inflight >= cap
      BY <1>8, <1>12, <3>3 DEF Admits, Payable, Available
    <3>5. PICK h \in [Callers -> Calls] : h = call' BY <1>14
    <3>6. /\ \A d \in S : h[d].kept = call[d].kept /\ h[d].cost = call[d].cost
          /\ cap = Capped(q, h[c].cost) /\ h[c].kept = cap /\ c \in Callers \ S
          /\ w.limit = q.limit /\ w.inflight = q.inflight + cap
      BY <1>8, <1>9, <1>11, <1>14, <1>22, <1>23, <3>5
    <3>7. TokensOf(w, h, S \cup {c}, exact)
      BY ONLY <3>2, <3>4, <3>6, <1>4, TokensReserved
    <3> QED BY <1>13, <1>15, <1>23, <3>1, <3>5, <3>7
  <2>3. ASSUME NEW k \in Keys, k # k0
        PROVE  TokensOf(bucket'[k], call', LiveOn(k)', k \notin upset')
    <3>1. PICK T \in SUBSET Callers : T = LiveOn(k) BY LiveFinite
    <3>2. \A d \in T : call'[d] = call[d] BY <1>21, <2>3, <3>1
    <3>3. TokensOf(bucket[k], call, T, k \notin upset) BY <2>1, <3>1
    <3>4. KeptIn(call', T) = KeptIn(call, T) BY <3>2, KeptSame
    <3>5. TokensOf(bucket[k], call', T, k \notin upset) BY <3>2, <3>3, <3>4 DEF TokensOf
    <3> QED BY <1>13, <1>15, <1>21, <2>3, <3>1, <3>5
  <2>4. \A k \in Keys : TokensOf(bucket'[k], call', LiveOn(k)', k \notin upset')
    BY <2>2, <2>3
  <2> QED BY <2>4 DEF TokensKept, TokensOf, Kept, KeptIn
<1> QED BY <1>16, <1>17, <1>18, <1>19, <1>25, <1>26, <1>27 DEF IInv

(* A bucket of k is told of one booking at most, in step with booked.       *)
Books(k, a, e) ==
  \/ e.slots = a.slots /\ booked' = booked
  \/ \E n \in Nat, t \in Ticks :
       /\ t <= clock /\ clock - t <= TicksPerSecond
       /\ e.slots = Put(a.slots, n, t)
       /\ Book(k, n, t)

(* A step that gives a reservation back: the caller is at rest, the bucket    *)
(* has the call's estimate back, and may have been told of a booking and of *)
(* a new ceiling.                                                          *)
GivesBack(c, k, b) ==
  /\ call[c].pc \in Reserved /\ call[c].key = k
  /\ bucket' = [bucket EXCEPT ![k] = b]
  /\ call' = [call EXCEPT ![c] = AtRest]
  /\ b.inflight = Above0(bucket[k].inflight - call[c].cost)
  /\ b.inflightReq = Above0(bucket[k].inflightReq - 1)
  /\ bucket[k].informed => b.informed
  /\ Unsealed(b)
  /\ \/ b.limit = bucket[k].limit /\ upset' = upset
     \/ \E tok \in Counters : tok # NoCounter /\ b.limit = tok.limit /\ Upsets(c, k, tok)
  /\ Books(k, bucket[k], b)
  /\ UNCHANGED <<clock, service, asks>>

LEMMA GivingBack ==
  ASSUME IInv, NEW c \in Callers, NEW k \in Keys, NEW b \in Buckets, GivesBack(c, k, b)
  PROVE  IInv'
<1>1. /\ bucket \in [Keys -> Buckets] /\ bucket[k] \in Buckets /\ call \in [Callers -> Calls]
      /\ booked \in [Keys -> [Ticks -> Nat]] /\ clock \in Ticks /\ upset \subseteq Keys
      /\ clock' = clock /\ service' = service /\ asks' = asks
  BY DEF IInv, Typed, GivesBack
<1>2. /\ bucket' \in [Keys -> Buckets] /\ bucket'[k] = b
      /\ \A j \in Keys : j # k => bucket'[j] = bucket[j]
  BY <1>1 DEF GivesBack
<1>3. PICK rest \in Calls : rest = AtRest BY RestIs
<1>4. /\ call' \in [Callers -> Calls] /\ call'[c] = rest
      /\ \A d \in Callers : d # c => call'[d] = call[d]
  BY <1>1, <1>3 DEF GivesBack
<1>5. /\ upset' \subseteq Keys /\ upset \subseteq upset'
      /\ \A j \in Keys : j # k => (j \in upset' <=> j \in upset)
  BY <1>1 DEF GivesBack, Upsets
<1>6. /\ booked' \in [Keys -> [Ticks -> Nat]]
      /\ SlotsFit(b.slots, booked'[k], clock)
      /\ \A j \in Keys : j # k => booked'[j] = booked[j]
  <2>0. SlotsFit(bucket[k].slots, booked[k], clock) BY DEF IInv, SlotsOK
  <2>1. CASE b.slots = bucket[k].slots /\ booked' = booked BY <1>1, <2>0, <2>1
  <2>2. CASE \E n \in Nat, t \in Ticks :
               /\ t <= clock /\ clock - t <= TicksPerSecond
               /\ b.slots = Put(bucket[k].slots, n, t)
               /\ Book(k, n, t)
    <3>1. PICK n \in Nat, t \in Ticks :
            /\ t <= clock /\ clock - t <= TicksPerSecond
            /\ b.slots = Put(bucket[k].slots, n, t)
            /\ Book(k, n, t)
      BY <2>2
    <3>2. PICK s \in SlotFcns, f \in [Ticks -> Nat] : s = bucket[k].slots /\ f = booked[k]
      BY <1>1 DEF Buckets
    <3>3. PICK h : h = [f EXCEPT ![t] = @ + n] OBVIOUS
    <3>4. PICK p : p = Put(s, n, t) OBVIOUS
    <3>5. SlotsFit(s, f, clock) BY <2>0, <3>2
    <3>6. SlotsFit(p, h, clock) /\ h \in [Ticks -> Nat]
      BY ONLY <1>1, <3>1, <3>2, <3>3, <3>4, <3>5, PutKeeps
    <3>7. booked' = [booked EXCEPT ![k] = h]
      <4>1. booked' = [booked EXCEPT ![k][t] = @ + n] BY <3>1 DEF Book
      <4>2. \A j \in Keys : j # k => booked'[j] = booked[j] BY <1>1, <4>1
      <4>3. booked'[k] = h BY <1>1, <3>2, <3>3, <4>1
      <4>4. booked' = [j \in Keys |-> booked'[j]] BY <1>1, <4>1
      <4> QED BY <1>1, <4>2, <4>3, <4>4
    <3>8. b.slots = p BY <3>1, <3>2, <3>4
    <3> QED BY <1>1, <3>6, <3>7, <3>8
  <2> QED BY <2>1, <2>2 DEF GivesBack, Books
<1>7. Typed' BY <1>1, <1>2, <1>4, <1>5, <1>6 DEF IInv, Typed
<1>8. Clocks'
  <2>1. LateBySecond(rest) BY <1>3, RestIs, CallerIs DEF LateBySecond
  <2> QED BY <2>1, <1>1, <1>4 DEF IInv, Clocks, LateBySecond
<1>9. CountersOK' BY <1>1, <1>2 DEF IInv, CountersOK, Unsealed, GivesBack
<1>10. SlotsOK'
  <2>1. \A j \in Keys : SlotsFit(bucket[j].slots, booked[j], clock) BY DEF IInv, SlotsOK
  <2>2. \A j \in Keys : SlotsFit(bucket'[j].slots, booked'[j], clock') BY <1>1, <1>2, <1>6, <2>1
  <2> QED BY <2>2 DEF SlotsOK, SlotsFit, LastBooked
<1>11. LiveOn(k)' = LiveOn(k) \ {c} /\ c \in LiveOn(k)
  <2>1. c \in LiveOn(k) BY DEF LiveOn, GivesBack
  <2>2. rest.pc \notin Reserved BY <1>3, RestIs
  <2>3. ASSUME NEW d PROVE d \in LiveOn(k)' <=> d \in LiveOn(k) \ {c}
    BY <1>4, <2>2 DEF LiveOn
  <2> QED BY <2>1, <2>3
<1>12. ASSUME NEW j \in Keys, j # k
       PROVE  /\ LiveOn(j)' = LiveOn(j)
              /\ \A d \in LiveOn(j) : call'[d] = call[d]
  <2>1. c \notin LiveOn(j) BY <1>12 DEF LiveOn, GivesBack
  <2>2. rest.pc \notin Reserved BY <1>3, RestIs
  <2>3. ASSUME NEW d PROVE d \in LiveOn(j)' <=> d \in LiveOn(j)
    BY <1>4, <2>1, <2>2 DEF LiveOn
  <2> QED BY <1>4, <2>1, <2>3 DEF LiveOn
<1>13. PICK S \in SUBSET Callers : S = LiveOn(k) /\ IsFiniteSet(S) /\ Cardinality(S) \in Nat
  BY LiveFinite
<1>14. /\ LiveOn(k)' = S \ {c} /\ c \in S
       /\ Cardinality(S \ {c}) \in Nat /\ Cardinality(S \ {c}) = Cardinality(S) - 1
  BY <1>11, <1>13, FS_RemoveElement, FS_CardinalityType
<1>15. bucket[k].inflightReq = Cardinality(S) BY <1>13 DEF IInv, RequestsCounted
<1>16. RequestsCounted'
  <2>1. bucket'[k].inflightReq = Cardinality(LiveOn(k)')
    <3>1. PICK n \in Nat : n = Cardinality(S \ {c}) /\ Cardinality(S) = n + 1 BY <1>13, <1>14
    <3>2. b.inflightReq = Above0((n + 1) - 1) BY <1>15, <3>1 DEF GivesBack
    <3> QED BY <1>2, <1>14, <3>1, <3>2 DEF Above0
  <2>2. \A j \in Keys : j # k => bucket'[j].inflightReq = Cardinality(LiveOn(j)')
    BY <1>2, <1>12 DEF IInv, RequestsCounted
  <2> QED BY <2>1, <2>2 DEF RequestsCounted
<1>17. OneProbe'
  <2>1. ~ bucket'[k].informed => Cardinality(LiveOn(k)') <= 1
    <3> SUFFICES ASSUME ~ b.informed PROVE Cardinality(LiveOn(k)') <= 1 BY <1>2
    <3>1. Cardinality(S) <= 1 BY <1>13 DEF IInv, OneProbe, GivesBack
    <3> QED BY <3>1, <1>13, <1>14
  <2>2. \A j \in Keys : j # k /\ ~ bucket'[j].informed => Cardinality(LiveOn(j)') <= 1
    BY <1>2, <1>12 DEF IInv, OneProbe
  <2> QED BY <2>1, <2>2 DEF OneProbe
<1>18. TokensKept'
  <2>1. \A j \in Keys : TokensOf(bucket[j], call, LiveOn(j), j \notin upset)
    BY TokensAre DEF IInv
  <2>2. TokensOf(bucket'[k], call', LiveOn(k)', k \notin upset')
    <3>1. PICK exact \in BOOLEAN, later \in BOOLEAN :
            exact = (k \notin upset) /\ later = (k \notin upset')
      OBVIOUS
    <3>2. PICK a \in Buckets : a = bucket[k] BY <1>1
    <3>3. TokensOf(a, call, S, exact) BY <1>13, <2>1, <3>1, <3>2
    <3>4. PICK h \in [Callers -> Calls] : h = call' BY <1>4
    <3>5. /\ \A d \in S \ {c} : h[d].kept = call[d].kept /\ h[d].cost = call[d].cost
          /\ GaveBack(b, a, call[c].cost)
      BY <1>4, <3>2, <3>4 DEF GivesBack, GaveBack
    <3>6. later => exact BY <1>5, <3>1
    <3>7. later => \/ b.limit = a.limit
                   \/ /\ b.limit > 0
                      /\ \A d \in S \ {c} : call[d].kept < call[d].cost => b.limit <= call[d].kept
      <4> SUFFICES ASSUME k \notin upset', b.limit # a.limit
                   PROVE  /\ b.limit > 0
                          /\ \A d \in S \ {c} : call[d].kept < call[d].cost => b.limit <= call[d].kept
        BY <3>1
      <4>1. PICK tok \in Counters : tok # NoCounter /\ b.limit = tok.limit /\ Upsets(c, k, tok)
        BY <3>2 DEF GivesBack
      <4>2. ~ \/ tok.limit = 0
              \/ \E d \in S \ {c} : call[d].kept < call[d].cost /\ call[d].kept < tok.limit
        BY <1>13, <4>1 DEF Upsets
      <4>3. tok.limit \in Nat /\ \A d \in S : call[d].kept \in Nat
        BY <1>1 DEF Counters, Calls
      <4> QED BY <4>1, <4>2, <4>3
    <3>8. TokensOf(b, h, S \ {c}, later)
      <4>1. Released(a, b, call, h, S, c, exact, later) BY <3>3, <3>5, <3>6, <3>7 DEF Released
      <4>2. call \in [Callers -> Calls] /\ c \in S BY <1>1, <1>14
      <4> QED BY ONLY <4>1, <4>2, TokensReleased
    <3> QED BY <1>2, <1>14, <3>1, <3>4, <3>8
  <2>3. ASSUME NEW j \in Keys, j # k
        PROVE  TokensOf(bucket'[j], call', LiveOn(j)', j \notin upset')
    <3>1. PICK T \in SUBSET Callers : T = LiveOn(j) BY LiveFinite
    <3>2. \A d \in T : call'[d] = call[d] BY <1>12, <2>3, <3>1
    <3>3. TokensOf(bucket[j], call, T, j \notin upset) BY <2>1, <3>1
    <3>4. KeptIn(call', T) = KeptIn(call, T) BY <3>2, KeptSame
    <3>5. TokensOf(bucket[j], call', T, j \notin upset) BY <3>2, <3>3, <3>4 DEF TokensOf
    <3> QED BY <1>2, <1>5, <1>12, <2>3, <3>1, <3>5
  <2>4. \A j \in Keys : TokensOf(bucket'[j], call', LiveOn(j)', j \notin upset')
    BY <2>2, <2>3
  <2> QED BY <2>4 DEF TokensKept, TokensOf, Kept, KeptIn
<1> QED BY <1>7, <1>8, <1>9, <1>10, <1>16, <1>17, <1>18 DEF IInv

(* A call cut by its deadline, or not sent, is released and tells nothing.    *)
LEMMA DropStep ==
  ASSUME IInv, NEW c \in Callers, Drop(c) PROVE IInv'
<1>1. PICK m \in Calls : m = call[c] /\ m.pc \in {"sent", "answered"} BY CallerIs DEF Drop
<1>2. PICK k \in Keys, cost \in Nat : k = m.key /\ cost = m.cost BY DEF Calls
<1>3. PICK a \in Buckets : a = bucket[k] /\ Unsealed(a) BY DEF IInv, Typed, CountersOK
<1>4. PICK b \in Buckets :
        /\ b = Release(a, cost)
        /\ b.limit = a.limit /\ b.slots = a.slots /\ b.informed = a.informed
        /\ b.req = a.req /\ b.minute = a.minute
        /\ b.inflight = Above0(a.inflight - cost) /\ b.inflightReq = Above0(a.inflightReq - 1)
  BY ReleaseIs
<1>5. Unsealed(b) BY <1>3, <1>4 DEF Unsealed
<1>6. /\ bucket' = [bucket EXCEPT ![k] = b] /\ call' = [call EXCEPT ![c] = AtRest]
      /\ UNCHANGED <<clock, service, booked, asks, upset>>
  BY <1>1, <1>2, <1>3, <1>4 DEF Drop, Ends
<1>7. call[c].pc \in Reserved /\ call[c].key = k /\ call[c].cost = cost
  BY <1>1, <1>2 DEF Reserved
<1>8. GivesBack(c, k, b) BY <1>3, <1>4, <1>5, <1>6, <1>7 DEF GivesBack, Books
<1> QED BY <1>8, GivingBack

(* What a reply does to the bucket of its call, before a booking.           *)
Told(a, b, cost, tok) ==
  /\ b.inflight = Above0(a.inflight - cost) /\ b.inflightReq = Above0(a.inflightReq - 1)
  /\ b.slots = a.slots
  /\ a.informed => b.informed
  /\ b.limit = IF tok = NoCounter THEN a.limit ELSE tok.limit
  /\ Unsealed(b)

LEMMA Telling ==
  ASSUME IInv, NEW c \in Callers, call[c].pc = "stamped"
  PROVE  \E m \in Calls, k \in Keys, cost \in Nat, now \in Ticks, reply \in Replies,
            a \in Buckets, b \in Buckets :
           /\ m = call[c] /\ k = m.key /\ cost = m.cost /\ now = m.now /\ reply = m.reply
           /\ a = bucket[k] /\ b = Observe(Release(a, cost), reply, now)
           /\ Told(a, b, cost, reply.tok)
           /\ now <= clock /\ clock - now <= TicksPerSecond
<1>1. PICK m \in Calls : m = call[c] /\ m.pc = "stamped" /\ LateBySecond(m) BY CallerIs
<1>2. PICK k \in Keys, cost \in Nat, now \in Ticks, reply \in Replies :
        k = m.key /\ cost = m.cost /\ now = m.now /\ reply = m.reply
  BY DEF Calls
<1>3. now \in Nat /\ clock \in Nat /\ now <= clock /\ clock - now <= TicksPerSecond
  BY <1>1, <1>2, TicksFinite, CallerIs DEF LateBySecond
<1>4. PICK a \in Buckets : a = bucket[k] /\ Unsealed(a) BY DEF IInv, Typed, CountersOK
<1>5. PICK r \in Buckets :
        /\ r = Release(a, cost)
        /\ r.limit = a.limit /\ r.slots = a.slots /\ r.informed = a.informed
        /\ r.req = a.req /\ r.minute = a.minute
        /\ r.inflight = Above0(a.inflight - cost) /\ r.inflightReq = Above0(a.inflightReq - 1)
  BY ReleaseIs
<1>6. PICK b \in Buckets :
        /\ b = Observe(r, reply, now)
        /\ b.inflight = r.inflight /\ b.inflightReq = r.inflightReq /\ b.slots = r.slots
        /\ b.limit = IF reply.tok = NoCounter THEN r.limit ELSE reply.tok.limit
        /\ b.informed = (r.informed \/ reply.tok # NoCounter)
        /\ b.req.limit >= 1 \/ (b.req.limit = r.req.limit /\ (b.req # NoCounter => r.req # NoCounter))
        /\ b.minute = r.minute \/ b.minute = MinuteOf(now)
  BY <1>3, ObserveIs
<1>7. Unsealed(b)
  <2>1. MinuteOf(now) <= MinuteOf(clock) BY <1>3, MinuteIs
  <2> QED BY <1>4, <1>5, <1>6, <2>1 DEF Unsealed
<1>8. Told(a, b, cost, reply.tok) BY <1>5, <1>6, <1>7 DEF Told
<1>9. b = Observe(Release(a, cost), reply, now) BY <1>5, <1>6
<1> QED BY <1>1, <1>2, <1>3, <1>4, <1>8, <1>9

SameButSlots(b, e) ==
  /\ e.limit = b.limit /\ e.inflight = b.inflight /\ e.inflightReq = b.inflightReq
  /\ e.informed = b.informed /\ e.req = b.req /\ e.minute = b.minute

(* The bucket and the booking of a call that is given back.                 *)
LEMMA Ending ==
  ASSUME IInv, NEW c \in Callers, NEW k \in Keys, NEW a \in Buckets, NEW b \in Buckets,
         NEW e \in Buckets, NEW cost \in Nat, NEW tok \in Counters,
         call[c].pc = "stamped", call[c].key = k, call[c].cost = cost, a = bucket[k],
         Told(a, b, cost, tok), Upsets(c, k, tok), SameButSlots(b, e), Books(k, a, e),
         bucket' = [bucket EXCEPT ![k] = e], call' = [call EXCEPT ![c] = AtRest],
         UNCHANGED <<clock, service, asks>>
  PROVE  IInv'
<1>1. call[c].pc \in Reserved BY DEF Reserved
<1>2. Unsealed(e) BY DEF Told, Unsealed, SameButSlots
<1>3. \/ e.limit = a.limit /\ upset' = upset
      \/ \E w \in Counters : w # NoCounter /\ e.limit = w.limit /\ Upsets(c, k, w)
  <2>1. CASE tok = NoCounter BY <2>1 DEF Told, SameButSlots, Upsets
  <2>2. CASE tok # NoCounter BY <2>2 DEF Told, SameButSlots
  <2> QED BY <2>1, <2>2
<1>4. /\ e.inflight = Above0(a.inflight - cost) /\ e.inflightReq = Above0(a.inflightReq - 1)
      /\ a.informed => e.informed
  BY DEF Told, SameButSlots
<1>5. GivesBack(c, k, e) BY <1>1, <1>2, <1>3, <1>4 DEF GivesBack
<1> QED BY <1>5, GivingBack

(* A booking in a bucket.                                                  *)
LEMMA Recording ==
  ASSUME NEW b \in Buckets, NEW n \in Nat, NEW t \in Ticks
  PROVE  \E e \in Buckets :
           /\ e = Record(b, n, t)
           /\ SameButSlots(b, e)
           /\ e.slots = Put(b.slots, n, t)
<1>1. t \in Nat /\ SecOf(t) \in Nat BY TicksFinite, SecIs
<1>2. PICK i \in Slots : i = SlotOf(SecOf(t)) BY <1>1, SlotIs
<1>3. PICK s \in SlotFcns : s = b.slots BY DEF Buckets
<1>4. Window \in Nat BY WindowIs
<1>5. Put(s, n, t) \in SlotFcns BY <1>1, <1>2, <1>4, PutIs
<1>6. Put(b.slots, n, t) \in SlotFcns BY <1>3, <1>5
<1> QED BY <1>1, <1>6, RecordIs DEF SameButSlots

LEMMA SettleStep ==
  ASSUME IInv, NEW c \in Callers, Settle(c) PROVE IInv'
<1>1. PICK m \in Calls, k \in Keys, cost \in Nat, now \in Ticks, reply \in Replies,
           a \in Buckets, b \in Buckets :
        /\ m = call[c] /\ k = m.key /\ cost = m.cost /\ now = m.now /\ reply = m.reply
        /\ a = bucket[k] /\ b = Observe(Release(a, cost), reply, now)
        /\ Told(a, b, cost, reply.tok)
        /\ now <= clock /\ clock - now <= TicksPerSecond
  BY Telling DEF Settle
<1>2. PICK n \in Nat : n = IF reply.kind = "served" THEN reply.bill ELSE cost
  BY DEF Replies
<1>3. PICK e \in Buckets :
        /\ e = Record(b, n, now)
        /\ SameButSlots(b, e)
        /\ e.slots = Put(b.slots, n, now)
  BY Recording
<1>4. /\ bucket' = [bucket EXCEPT ![k] = e] /\ call' = [call EXCEPT ![c] = AtRest]
      /\ Book(k, n, now) /\ Upsets(c, k, reply.tok)
      /\ UNCHANGED <<clock, service, asks>>
      /\ call[c].pc = "stamped"
  BY <1>1, <1>2, <1>3 DEF Settle, Ends
<1>5. reply.tok \in Counters BY DEF Replies
<1>6. Books(k, a, e)
  <2>1. e.slots = Put(a.slots, n, now) BY <1>1, <1>3 DEF Told
  <2> QED BY <1>1, <1>4, <2>1 DEF Books
<1>7. call[c].key = k /\ call[c].cost = cost BY <1>1
<1>8. /\ a = bucket[k] /\ Told(a, b, cost, reply.tok) /\ SameButSlots(b, e)
  BY <1>1, <1>3
<1> QED BY ONLY IInv, <1>4, <1>5, <1>6, <1>7, <1>8, Ending

LEMMA RefusedStep ==
  ASSUME IInv, NEW c \in Callers, Refused(c) PROVE IInv'
<1>1. PICK m \in Calls, k \in Keys, cost \in Nat, now \in Ticks, reply \in Replies,
           a \in Buckets, b \in Buckets :
        /\ m = call[c] /\ k = m.key /\ cost = m.cost /\ now = m.now /\ reply = m.reply
        /\ a = bucket[k] /\ b = Observe(Release(a, cost), reply, now)
        /\ Told(a, b, cost, reply.tok)
        /\ now <= clock /\ clock - now <= TicksPerSecond
  BY Telling DEF Refused
<1>2. PICK n \in Nat : n = Unaccounted(b, reply.tok.left, now)
  <2>1. Spent(b, now) \in Nat BY TicksFinite, SpentIs
  <2>2. b.limit - reply.tok.left - Spent(b, now) \in Int
    BY <2>1 DEF Buckets, Replies, Counters
  <2> QED BY <2>2 DEF Unaccounted, Above0
<1>3. PICK yes \in BOOLEAN : yes = (reply.tok # NoCounter /\ n > 0) OBVIOUS
<1>4. /\ bucket' = [bucket EXCEPT ![k] = IF yes THEN Record(b, n, now) ELSE b]
      /\ call' = [call EXCEPT ![c] = AtRest]
      /\ Book(k, IF yes THEN n ELSE 0, now) /\ Upsets(c, k, reply.tok)
      /\ UNCHANGED <<clock, service, asks>>
      /\ call[c].pc = "stamped"
  BY <1>1, <1>2, <1>3 DEF Refused, Ends
<1>5. reply.tok \in Counters BY DEF Replies
<1>6. call[c].key = k /\ call[c].cost = cost BY <1>1
<1>7. CASE yes
  <2>1. PICK e \in Buckets :
          /\ e = Record(b, n, now)
          /\ SameButSlots(b, e)
          /\ e.slots = Put(b.slots, n, now)
    BY Recording
  <2>2. bucket' = [bucket EXCEPT ![k] = e] /\ Book(k, n, now) BY <1>4, <1>7, <2>1
  <2>3. Books(k, a, e)
    <3>1. e.slots = Put(a.slots, n, now) BY <1>1, <2>1 DEF Told
    <3> QED BY <1>1, <2>2, <3>1 DEF Books
  <2>4. /\ a = bucket[k] /\ Told(a, b, cost, reply.tok) /\ SameButSlots(b, e)
    BY <1>1, <2>1
  <2> QED BY ONLY IInv, <1>4, <1>5, <1>6, <2>2, <2>3, <2>4, Ending
<1>8. CASE ~ yes
  <2>1. booked' = booked
    <3>1. Book(k, 0, now) /\ booked \in [Keys -> [Ticks -> Nat]]
      BY <1>4, <1>8 DEF IInv, Typed
    <3>2. booked' = [booked EXCEPT ![k][now] = @ + 0] BY <3>1 DEF Book
    <3>3. booked[k][now] + 0 = booked[k][now] BY <3>1
    <3>4. \A j \in Keys, t \in Ticks : booked'[j][t] = booked[j][t] BY <3>1, <3>2, <3>3
    <3>5. booked' \in [Keys -> [Ticks -> Nat]] BY <3>1, <3>2, <3>3
    <3>6. \A j \in Keys : booked'[j] = booked[j] BY <3>1, <3>4, <3>5
    <3> QED BY <3>1, <3>5, <3>6
  <2>2. Books(k, a, b) BY <1>1, <2>1 DEF Told, Books
  <2>3. bucket' = [bucket EXCEPT ![k] = b] BY <1>4, <1>8
  <2>4. /\ a = bucket[k] /\ Told(a, b, cost, reply.tok) /\ SameButSlots(b, b)
    BY <1>1 DEF SameButSlots
  <2> QED BY ONLY IInv, <1>4, <1>5, <1>6, <2>2, <2>3, <2>4, Ending
<1> QED BY <1>7, <1>8

LEMMA TickStep ==
  ASSUME IInv, Tick PROVE IInv'
<1>1. PICK now \in Nat : now = clock /\ now \in Ticks BY TicksFinite DEF IInv, Typed
<1>2. clock' = now + 1 /\ now + 1 \in Ticks BY <1>1, QuotaAssumption DEF Tick, Ticks
<1>3. /\ bucket' = bucket /\ service' = service /\ call' = call /\ booked' = booked
      /\ asks' = asks /\ upset' = upset
  BY DEF Tick
<1>4. Typed' BY <1>2, <1>3 DEF IInv, Typed
<1>5. Clocks'
  <2> SUFFICES ASSUME NEW c \in Callers
               PROVE  /\ call[c].now <= now + 1
                      /\ call[c].pc \in {"asking", "stamped"} => (now + 1) - call[c].now <= TicksPerSecond
    BY <1>2, <1>3 DEF Clocks, LateBySecond
  <2>1. PICK m \in Calls, t \in Nat : m = call[c] /\ t = m.now /\ t <= now
    BY <1>1, CallerIs, TicksFinite DEF Calls, LateBySecond
  <2>2. CASE m.pc \in {"asking", "stamped"}
    <3>1. now - t < MaxSkew BY <1>1, <2>1, <2>2 DEF Tick
    <3>2. MaxSkew \in Nat /\ TicksPerSecond \in Nat /\ MaxSkew <= TicksPerSecond
      BY QuotaAssumption
    <3> QED BY <2>1, <3>1, <3>2
  <2> QED BY <2>1, <2>2
<1>6. CountersOK'
  <2>1. MinuteOf(now) \in Nat /\ MinuteOf(now + 1) \in Nat /\ MinuteOf(now) <= MinuteOf(now + 1)
    BY MinuteIs
  <2>2. \A k \in Keys : Unsealed(bucket[k]) /\ bucket[k].minute \in Nat
    BY DEF IInv, CountersOK, Typed, Buckets
  <2> QED BY <1>1, <1>2, <1>3, <2>1, <2>2 DEF CountersOK, Unsealed
<1>7. SlotsOK'
  <2>1. ASSUME NEW k \in Keys PROVE SlotsFit(bucket[k].slots, booked[k], now + 1)
    <3>1. PICK s, f : s = bucket[k].slots /\ f = booked[k] OBVIOUS
    <3>2. SlotsFit(s, f, now) BY <1>1, <3>1 DEF IInv, SlotsOK
    <3>3. ASSUME NEW i \in Slots, NEW l \in Ticks, LastBooked(s, f, now, i, l)
          PROVE  LastBooked(s, f, now + 1, i, l)
      BY <3>3, TicksFinite DEF LastBooked
    <3>4. SlotsFit(s, f, now + 1) BY <3>2, <3>3 DEF SlotsFit
    <3> QED BY <3>1, <3>4
  <2> QED BY <1>2, <1>3, <2>1 DEF SlotsOK, SlotsFit, LastBooked
<1>8. \A k : LiveOn(k)' = LiveOn(k) BY <1>3 DEF LiveOn
<1>9. RequestsCounted' BY <1>3, <1>8 DEF IInv, RequestsCounted
<1>10. OneProbe' BY <1>3, <1>8 DEF IInv, OneProbe
<1>11. TokensKept' BY <1>3, <1>8 DEF IInv, TokensKept, Kept
<1> QED BY <1>4, <1>5, <1>6, <1>7, <1>9, <1>10, <1>11 DEF IInv

LEMMA StepOK == IInv /\ [Next]_vars => IInv'
<1> SUFFICES ASSUME IInv, [Next]_vars PROVE IInv' OBVIOUS
<1>1. ASSUME NEW c \in Callers,
             Ask(c) \/ Grant(c) \/ Deny(c) \/ Stamp(c) \/ Settle(c) \/ Refused(c) \/ Drop(c)
             \/ Serves(c) \/ OutOfRequests(c) \/ OutOfTokens(c) \/ TierClosed(c) \/ Fails(c)
      PROVE  IInv'
  <2>1. CASE Ask(c) BY <2>1, AskStep
  <2>2. CASE Grant(c) BY <2>2, GrantStep
  <2>3. CASE Deny(c) BY <2>3, DenyStep
  <2>4. CASE Stamp(c) BY <2>4, StampStep
  <2>5. CASE Settle(c) BY <2>5, SettleStep
  <2>6. CASE Refused(c) BY <2>6, RefusedStep
  <2>7. CASE Drop(c) BY <2>7, DropStep
  <2>8. CASE Serves(c) \/ OutOfRequests(c) \/ OutOfTokens(c) \/ TierClosed(c) \/ Fails(c)
    BY <2>8, ServiceStep
  <2> QED BY <1>1, <2>1, <2>2, <2>3, <2>4, <2>5, <2>6, <2>7, <2>8
<1>2. CASE Tick BY <1>2, TickStep
<1>3. CASE UNCHANGED vars
  <2>1. /\ clock' = clock /\ bucket' = bucket /\ service' = service /\ call' = call
        /\ booked' = booked /\ asks' = asks /\ upset' = upset
    BY <1>3 DEF vars
  <2>2. \A k : LiveOn(k)' = LiveOn(k) BY <2>1 DEF LiveOn
  <2>3. Typed' /\ CountersOK' BY <2>1 DEF IInv, Typed, CountersOK, Unsealed
  <2>4. Clocks' BY <2>1 DEF IInv, Clocks, LateBySecond
  <2>5. SlotsOK' BY <2>1 DEF IInv, SlotsOK, SlotsFit, LastBooked
  <2>6. RequestsCounted' /\ OneProbe' BY <2>1, <2>2 DEF IInv, RequestsCounted, OneProbe
  <2>7. TokensKept' BY <2>1, <2>2 DEF IInv, TokensKept, Kept
  <2> QED BY <2>3, <2>4, <2>5, <2>6, <2>7 DEF IInv
<1> QED BY <1>1, <1>2, <1>3 DEF Next

(* The invariant: typed state, instants a second old at most, slots and        *)
(* counters in step with what was booked and reserved.                      *)
THEOREM Invariance == Spec => []IInv
BY InitOK, StepOK, PTL DEF Spec

-----------------------------------------------------------------------------
(* What the invariant says of a bucket.                                    *)

LEMMA InFlight == IInv => InflightExact
BY DEF IInv, RequestsCounted, TokensKept, InflightExact

LEMMA Held60 == IInv => HeldForTheWindow
<1> SUFFICES ASSUME IInv, NEW k \in Keys
             PROVE  /\ Spent(bucket[k], clock) >= Since(k, clock - Window + TicksPerSecond)
                    /\ Spent(bucket[k], clock) <= Since(k, clock - Window - TicksPerSecond)
  BY DEF HeldForTheWindow
<1>1. PICK b \in Buckets, f \in [Ticks -> Nat], now \in Ticks :
        b = bucket[k] /\ f = booked[k] /\ now = clock /\ SlotsFit(b.slots, f, now)
  BY DEF IInv, Typed, SlotsOK
<1>2. /\ Spent(b, now)
           >= SumFunctionOnSet(f, {u \in Ticks : u > now - Window + TicksPerSecond})
      /\ Spent(b, now)
           <= SumFunctionOnSet(f, {u \in Ticks : u > now - Window - TicksPerSecond})
  BY <1>1, SlotsHold
<1> QED BY <1>1, <1>2 DEF Since

(* With nothing in flight on a key, its bucket holds nothing back.          *)
LEMMA NothingHeld ==
  ASSUME IInv, NEW k \in Keys
  PROVE  /\ bucket[k] \in Buckets /\ bucket[k].inflight \in Nat
         /\ LiveOn(k) = {} => bucket[k].inflight = 0 /\ bucket[k].inflightReq = 0
<1>1. bucket[k] \in Buckets BY DEF IInv, Typed
<1>2. bucket[k].inflight \in Nat BY <1>1 DEF Buckets
<1>3. ASSUME LiveOn(k) = {} PROVE bucket[k].inflight = 0 /\ bucket[k].inflightReq = 0
  <2>1. bucket[k].inflightReq = 0 BY <1>3, FS_EmptySet DEF IInv, RequestsCounted
  <2>2. Kept(k) = 0 BY <1>3, SumEmpty DEF Kept
  <2>3. bucket[k].inflight <= 0 BY <2>2 DEF IInv, TokensKept
  <2> QED BY <1>2, <2>1, <2>3
<1> QED BY <1>1, <1>2, <1>3

LEMMA Unseals == IInv => NeverSealed
<1> SUFFICES ASSUME IInv, NEW k \in Keys, LiveOn(k) = {}, NEW cost \in Costs,
                    NEW t, t = clock + Window + TicksPerSecond
             PROVE  Admits(Roll(bucket[k], t), cost, t)
  BY DEF NeverSealed
<1>0. PICK b \in Buckets, now \in Ticks : b = bucket[k] /\ now = clock BY DEF IInv, Typed
<1>5. PICK f : f = booked[k] OBVIOUS
<1>1. /\ b = bucket[k] /\ SlotsFit(b.slots, f, now)
      /\ b.req # NoCounter => b.req.limit >= 1
      /\ b.minute <= MinuteOf(now)
  BY <1>0, <1>5 DEF IInv, SlotsOK, CountersOK, Unsealed
<1>2. b.inflight = 0 /\ b.inflightReq = 0 BY <1>1, NothingHeld
<1>3. cost \in Nat /\ t = now + Window + TicksPerSecond BY <1>0, QuotaAssumption
<1>4. Admits(Roll(b, t), cost, t) BY ONLY <1>1, <1>2, <1>3, AdmitsLater
<1> QED BY <1>1, <1>4

(* No caller has read the clock before it was past its first window.          *)
Started ==
  /\ clock >= Window
  /\ \A c \in Callers : call[c].pc = "asking" => call[c].now >= Window

LEMMA StartedFirst == Init => Started
<1> SUFFICES ASSUME Init PROVE Started OBVIOUS
<1>1. clock >= Window BY WindowIs DEF Init
<1>2. \A c \in Callers : call[c].pc # "asking" BY RestIs DEF Init
<1> QED BY <1>1, <1>2 DEF Started

(* A caller asks under a clock it reads then, and keeps its reading from one   *)
(* key to the next.                                                         *)
LEMMA StillStarted == IInv /\ Started /\ [Next]_vars => Started'
<1> SUFFICES ASSUME IInv, Started, [Next]_vars PROVE Started' OBVIOUS
<1>0. /\ call \in [Callers -> Calls] /\ clock \in Nat /\ Window \in Nat /\ clock >= Window
      /\ \A c \in Callers : call[c].pc = "asking" => call[c].now >= Window
  BY TicksFinite, WindowIs DEF IInv, Typed, Started
<1>1. ASSUME clock' = clock, NEW d \in Callers, NEW m, call' = [call EXCEPT ![d] = m],
             m.pc = "asking" => m.now >= Window
      PROVE  Started'
  BY <1>0, <1>1 DEF Started
<1>2. ASSUME NEW d \in Callers, Ask(d) PROVE Started'
  <2>1. PICK order \in (SUBSET Keys) \ {{}}, cost \in Costs :
          call' = [call EXCEPT ![d] = [AtRest EXCEPT !.pc = "asking", !.now = clock,
                                                     !.todo = order, !.cost = cost]]
    BY <1>2 DEF Ask
  <2>2. PICK a \in Calls : a = AtRest BY RestIs
  <2>3. PICK m : m = [a EXCEPT !.pc = "asking", !.now = clock, !.todo = order, !.cost = cost]
    OBVIOUS
  <2>4. m.now = clock BY <2>3 DEF Calls
  <2>5. call' = [call EXCEPT ![d] = m] BY <2>1, <2>2, <2>3
  <2>6. clock' = clock BY <1>2 DEF Ask
  <2> QED BY <1>0, <1>1, <2>4, <2>5, <2>6
<1>3. ASSUME NEW d \in Callers, Grant(d) PROVE Started'
  <2>1. PICK n \in Calls : n = call[d] BY <1>0
  <2>2. PICK k, cap : call' = [call EXCEPT ![d] = [n EXCEPT !.pc = "sent", !.key = k, !.todo = {},
                                                            !.kept = cap]]
    BY <1>3, <2>1 DEF Grant
  <2>3. PICK m : m = [n EXCEPT !.pc = "sent", !.key = k, !.todo = {}, !.kept = cap] OBVIOUS
  <2>4. m.pc = "sent" BY <2>3 DEF Calls
  <2>5. clock' = clock BY <1>3 DEF Grant
  <2> QED BY <1>1, <2>2, <2>3, <2>4, <2>5
<1>4. ASSUME NEW d \in Callers, Deny(d) PROVE Started'
  <2>1. PICK n \in Calls : n = call[d] BY <1>0
  <2>2. PICK k : call' = [call EXCEPT ![d] = IF n.todo \ {k} = {} THEN AtRest
                                            ELSE [n EXCEPT !.todo = n.todo \ {k}]]
    BY <1>4, <2>1 DEF Deny
  <2>3. PICK left, e : left = n.todo \ {k} /\ e = [n EXCEPT !.todo = left] OBVIOUS
  <2>4. e.pc = n.pc /\ e.now = n.now BY <2>3 DEF Calls
  <2>5. PICK m : m = IF left = {} THEN AtRest ELSE e OBVIOUS
  <2>6. call' = [call EXCEPT ![d] = m] BY <2>2, <2>3, <2>5
  <2>7. clock' = clock BY <1>4 DEF Deny
  <2>8. m.pc = "asking" => m.now >= Window BY <1>0, <2>1, <2>4, <2>5, RestIs
  <2> QED BY <1>1, <2>6, <2>7, <2>8
<1>5. ASSUME NEW d \in Callers, Stamp(d) PROVE Started'
  <2>1. PICK n \in Calls : n = call[d] BY <1>0
  <2>2. PICK m : m = [n EXCEPT !.pc = "stamped", !.now = clock] OBVIOUS
  <2>3. m.pc = "stamped" BY <2>2 DEF Calls
  <2>4. call' = [call EXCEPT ![d] = m] /\ clock' = clock BY <1>5, <2>1, <2>2 DEF Stamp
  <2> QED BY <1>1, <2>3, <2>4
<1>6. ASSUME NEW d \in Callers, Settle(d) \/ Refused(d) \/ Drop(d) PROVE Started'
  <2>1. call' = [call EXCEPT ![d] = AtRest] /\ clock' = clock
    BY <1>6 DEF Settle, Refused, Drop, Ends
  <2>2. AtRest.pc # "asking" BY RestIs
  <2> QED BY <1>1, <2>1, <2>2
<1>7. ASSUME NEW d \in Callers,
             Serves(d) \/ OutOfRequests(d) \/ OutOfTokens(d) \/ TierClosed(d) \/ Fails(d)
      PROVE  Started'
  <2>1. PICK left, reply : Answers(d, left, reply)
    BY <1>7 DEF Serves, OutOfRequests, OutOfTokens, TierClosed, Fails
  <2>2. PICK n \in Calls : n = call[d] BY <1>0
  <2>3. PICK m : m = [n EXCEPT !.pc = "answered", !.reply = reply] OBVIOUS
  <2>4. m.pc = "answered" BY <2>3 DEF Calls
  <2>5. call' = [call EXCEPT ![d] = m] /\ clock' = clock BY <2>1, <2>2, <2>3 DEF Answers
  <2> QED BY <1>1, <2>4, <2>5
<1>8. CASE Tick BY <1>0, <1>8 DEF Tick, Started
<1>9. CASE UNCHANGED vars BY <1>9 DEF vars, Started
<1> QED BY <1>2, <1>3, <1>4, <1>5, <1>6, <1>7, <1>8, <1>9 DEF Next

LEMMA AlwaysStarted == Spec => []Started
BY StartedFirst, StillStarted, Invariance, PTL DEF Spec

LEMMA Waits == IInv /\ Started => WaitIsExact
<1> SUFFICES ASSUME IInv, Started, NEW c \in Callers, call[c].pc = "asking",
                    NEW k \in call[c].todo
             PROVE  LET b == bucket[k]
                        t == call[c].now
                        cost == call[c].cost
                        deficit == Capped(b, cost) - Available(b, t)
                        w == WaitFor(b, deficit, t) IN
                    deficit > 0 =>
                      IF Covering(b, deficit, t) = {} THEN LiveOn(k) # {}
                      ELSE IF Overtaken(b, t) THEN w \in 1 .. Window + (clock - t)
                      ELSE /\ Payable(b, cost, t + w)
                           /\ \A u \in t .. t + w - 1 : ~ Payable(b, cost, u)
  BY Zenon DEF WaitIsExact
<1> SUFFICES ASSUME NEW b, b = bucket[k], NEW t, t = call[c].now,
                    NEW cost, cost = call[c].cost, NEW deficit,
                    deficit = Capped(b, cost) - Available(b, t), deficit > 0,
                    NEW w, w = WaitFor(b, deficit, t)
             PROVE  IF Covering(b, deficit, t) = {} THEN LiveOn(k) # {}
                    ELSE IF Overtaken(b, t) THEN w \in 1 .. Window + (clock - t)
                    ELSE /\ Payable(b, cost, t + w)
                         /\ \A u \in t .. t + w - 1 : ~ Payable(b, cost, u)
  OBVIOUS
<1>1. PICK n \in Calls : n = call[c] /\ n.pc = "asking" /\ LateBySecond(n) BY CallerIs
<1>2. k \in Keys /\ t \in Ticks /\ cost \in Nat BY <1>1 DEF Calls
<1>3. PICK f \in [Ticks -> Nat], now \in Ticks :
        f = booked[k] /\ now = clock /\ SlotsFit(b.slots, f, now)
  BY <1>2 DEF IInv, Typed, SlotsOK
<1>4. b \in Buckets BY <1>2, NothingHeld
<1>5. t \in Nat /\ now \in Nat /\ t <= now /\ now - t <= TicksPerSecond
  BY <1>1, <1>2, <1>3, TicksFinite DEF LateBySecond
<1>6. Window <= t BY <1>5, WindowIs DEF Started
<1>7. deficit \in Int
  <2>1. Spent(b, t) \in Nat /\ Capped(b, cost) \in Nat
    BY <1>2, <1>4, <1>5, SpentIs, CappedIs
  <2>2. Available(b, t) \in Int BY <1>4, <2>1 DEF Available, Buckets
  <2> QED BY <2>1, <2>2
<1>8. IF Covering(b, deficit, t) = {} THEN b.inflight > 0
      ELSE LET v == WaitFor(b, deficit, t) IN
           /\ v \in 1 .. Window + (now - t)
           /\ ~ Overtaken(b, t) =>
                /\ Payable(b, cost, t + v)
                /\ \A u \in t .. t + v - 1 : ~ Payable(b, cost, u)
  BY ONLY <1>2, <1>3, <1>4, <1>5, <1>6, <1>7, deficit > 0,
          deficit = Capped(b, cost) - Available(b, t), WaitIs
<1>9. b.inflight > 0 => LiveOn(k) # {} BY <1>2, NothingHeld
<1> QED BY <1>3, <1>8, <1>9

(* A call is admitted by Grant, and by nothing else.                        *)
LEMMA GrantAdmits ==
  ASSUME IInv, Next, NEW c \in Callers, call[c].pc = "asking", call'[c].pc = "sent"
  PROVE  Grant(c)
<1>0. call \in [Callers -> Calls] BY DEF IInv, Typed
<1>1. ASSUME NEW d \in Callers, NEW m, call' = [call EXCEPT ![d] = m]
      PROVE  d = c /\ m.pc = "sent"
  BY <1>0, <1>1
<1>2. AtRest.pc # "sent" BY RestIs
<1>3. ASSUME NEW d \in Callers,
             Ask(d) \/ Deny(d) \/ Stamp(d) \/ Settle(d) \/ Refused(d) \/ Drop(d)
      PROVE  FALSE
  <2>1. CASE Ask(d)
    <3>1. PICK m : call' = [call EXCEPT ![d] = m] BY <2>1 DEF Ask
    <3> QED BY <1>1, <2>1, <3>1 DEF Ask
  <2>2. CASE Deny(d)
    <3>1. PICK k : call' = [call EXCEPT ![d] = IF call[d].todo \ {k} = {} THEN AtRest
                                               ELSE [call[d] EXCEPT !.todo = call[d].todo \ {k}]]
      BY <2>2 DEF Deny
    <3>2. PICK n \in Calls : n = call[d] /\ n.pc = "asking" BY <1>0, <2>2 DEF Deny
    <3>3. PICK left : left = n.todo \ {k} OBVIOUS
    <3>4. PICK e : e = [n EXCEPT !.todo = left] OBVIOUS
    <3>5. e.pc = "asking" BY <3>2, <3>4 DEF Calls
    <3>6. PICK m : m = IF left = {} THEN AtRest ELSE e OBVIOUS
    <3>7. call' = [call EXCEPT ![d] = m] BY <3>1, <3>2, <3>3, <3>4, <3>6
    <3>8. m.pc = "sent" BY <1>1, <3>7
    <3> QED BY <1>2, <3>5, <3>6, <3>8
  <2>3. CASE Stamp(d)
    <3>1. PICK m : call' = [call EXCEPT ![d] = m] BY <2>3 DEF Stamp
    <3> QED BY <1>1, <2>3, <3>1 DEF Stamp
  <2>4. CASE Settle(d) \/ Refused(d) \/ Drop(d)
    <3>1. call' = [call EXCEPT ![d] = AtRest] BY <2>4 DEF Settle, Refused, Drop, Ends
    <3> QED BY <1>1, <1>2, <3>1
  <2> QED BY <1>3, <2>1, <2>2, <2>3, <2>4
<1>4. ASSUME NEW d \in Callers,
             Serves(d) \/ OutOfRequests(d) \/ OutOfTokens(d) \/ TierClosed(d) \/ Fails(d)
      PROVE  FALSE
  <2>1. PICK left, reply : Answers(d, left, reply)
    BY <1>4 DEF Serves, OutOfRequests, OutOfTokens, TierClosed, Fails
  <2>2. PICK m : call' = [call EXCEPT ![d] = m] BY <2>1 DEF Answers
  <2> QED BY <1>1, <2>1, <2>2 DEF Answers
<1>5. ~ Tick BY DEF Tick
<1>6. ASSUME NEW d \in Callers, Grant(d) PROVE d = c
  <2>1. PICK m : call' = [call EXCEPT ![d] = m] BY <1>6 DEF Grant
  <2> QED BY <1>1, <2>1
<1> QED BY <1>3, <1>4, <1>5, <1>6 DEF Next

LEMMA Fits ==
  ASSUME IInv, [Next]_vars, NEW c \in Callers, NEW k \in Keys, k \notin upset, Admitted(c, k)
  PROVE  Since(k, clock - Window + TicksPerSecond) + Kept(k)' <= bucket[k].limit
<1>1. call[c].pc = "asking" /\ call'[c].pc = "sent" /\ call'[c].key = k BY DEF Admitted
<1>2. Next BY <1>1 DEF vars
<1>3. Grant(c) BY <1>1, <1>2, GrantAdmits
<1>4. IInv' BY <1>3, GrantStep
<1>5. PICK n \in Calls : n = call[c] /\ n.pc = "asking" /\ LateBySecond(n) BY <1>1, CallerIs
<1>6. PICK k0 \in n.todo :
        LET b == Roll(bucket[k0], n.now) IN
        /\ Admits(b, n.cost, n.now)
        /\ bucket' = [bucket EXCEPT ![k0] = Reserve(b, n.cost)]
        /\ call' = [call EXCEPT ![c] = [n EXCEPT !.pc = "sent", !.key = k0, !.todo = {},
                                                 !.kept = Capped(b, n.cost)]]
  BY <1>3, <1>5 DEF Grant
<1>7. k0 = k
  <2>1. PICK e : e = Capped(Roll(bucket[k0], n.now), n.cost) OBVIOUS
  <2>2. PICK m : m = [n EXCEPT !.pc = "sent", !.key = k0, !.todo = {}, !.kept = e] OBVIOUS
  <2>3. m.key = k0 BY <2>2 DEF Calls
  <2>4. call' = [call EXCEPT ![c] = m] BY <1>6, <2>1, <2>2
  <2>5. call'[c] = m BY <2>4 DEF IInv, Typed
  <2> QED BY <1>1, <2>3, <2>5
<1>8. /\ bucket \in [Keys -> Buckets] /\ clock \in Ticks /\ clock \in Nat
      /\ n.now \in Nat /\ n.now <= clock /\ n.cost \in Nat
  BY <1>5, TicksFinite DEF IInv, Typed, Calls, LateBySecond
<1>9. PICK a \in Buckets : a = bucket[k] BY <1>8
<1>10. PICK q \in Buckets :
         /\ q = Roll(a, n.now)
         /\ q.limit = a.limit /\ q.inflight = a.inflight /\ q.slots = a.slots
  <2>1. PICK now \in Nat : now = n.now BY <1>8
  <2>2. PICK q : q = Roll(a, now) OBVIOUS
  <2>3. q \in Buckets BY ONLY <2>2, a \in Buckets, now \in Nat, RollIs
  <2>4. q.limit = a.limit /\ q.inflight = a.inflight /\ q.slots = a.slots
    BY ONLY <2>2, a \in Buckets, now \in Nat, RollIs
  <2> QED BY <2>1, <2>2, <2>3, <2>4
<1>11. PICK cap \in Nat : cap = Capped(q, n.cost) BY <1>8, CappedIs
<1>12. PICK w \in Buckets : w = Reserve(q, n.cost) /\ w.inflight = q.inflight + cap
  BY <1>8, <1>11, ReserveIs
<1>13. bucket'[k] = w /\ Admits(q, n.cost, n.now)
  BY <1>6, <1>7, <1>8, <1>9, <1>10, <1>12
<1>14. Kept(k)' = a.inflight + cap
  <2>1. k \notin upset' BY <1>3 DEF Grant
  <2>2. bucket'[k].inflight = Kept(k)' BY <1>4, <2>1 DEF IInv, TokensKept
  <2> QED BY <1>10, <1>12, <1>13, <2>2
<1>15. PICK limit \in Nat, inflight \in Nat : limit = a.limit /\ inflight = a.inflight
  BY DEF Buckets
<1>16. PICK spent \in Nat, held \in Nat :
         spent = Spent(q, n.now) /\ held = Spent(q, clock) /\ held <= spent
  BY <1>8, SpentIs
<1>17. limit - spent - inflight >= cap
  BY <1>10, <1>11, <1>13, <1>15, <1>16 DEF Admits, Payable, Available
<1>18. held = Spent(a, clock) BY <1>10, <1>16 DEF Spent
<1>19. PICK since \in Nat : since = Since(k, clock - Window + TicksPerSecond)
  <2>1. PICK S : S = {u \in Ticks : u > clock - Window + TicksPerSecond} OBVIOUS
  <2>2. IsFiniteSet(S) /\ S \in SUBSET Ticks BY <2>1, TicksFinite, FS_Subset
  <2>3. \A u \in S : booked[k][u] \in Nat BY <2>2 DEF IInv, Typed
  <2> QED BY <2>1, <2>2, <2>3, SumNat DEF Since
<1>20. held >= since BY <1>9, <1>18, <1>19, Held60 DEF HeldForTheWindow
<1>21. since + (inflight + cap) <= limit BY <1>16, <1>17, <1>20
<1> QED BY <1>9, <1>14, <1>15, <1>19, <1>21

-----------------------------------------------------------------------------
(* The theorems.                                                           *)

(* Every reachable state has the types the module declares.                 *)
THEOREM TypeCorrect == Spec => []TypeOK
<1>1. IInv => TypeOK BY TypesAre DEF IInv
<1> QED BY <1>1, Invariance, PTL

(* The requests a bucket counts as in flight are its live calls: none leaks,  *)
(* whichever way a call ends (Bucket::try_reserve and release).             *)
THEOREM RequestsNeverLeak == Spec => []RequestsCounted
<1>1. IInv => RequestsCounted BY DEF IInv
<1> QED BY <1>1, Invariance, PTL

(* Until a reply has spoken of a key's tokens, one call at most is out on it  *)
(* (Bucket::try_reserve).                                                  *)
THEOREM OneProbeAtATime == Spec => []OneProbe
<1>1. IInv => OneProbe BY DEF IInv
<1> QED BY <1>1, Invariance, PTL

(* What a bucket holds back is what its live calls reserved, and never more;  *)
(* exactly that on a key no new ceiling has upset (Bucket::release).        *)
THEOREM TokensNeverLeak == Spec => []InflightExact
BY InFlight, Invariance, PTL

(* A booking stays in the window for its width, a second more or less, under  *)
(* every order in which late callers book (TokenWindow).                    *)
THEOREM BookingsAreHeld == Spec => []HeldForTheWindow
BY Held60, Invariance, PTL

(* No reply seals a key: a window and a second after the last call came back  *)
(* it admits any call (Bucket::observe).                                    *)
THEOREM NoKeyIsSealed == Spec => []NeverSealed
BY Unseals, Invariance, PTL

(* The wait a caller is told, from its own reading of the clock, ends at the   *)
(* first instant its tokens are there; if another has booked the next second  *)
(* since, it is a window and the age of the reading at most                 *)
(* (TokenWindow::wait_for).                                                *)
THEOREM WaitsAreExact == Spec => []WaitIsExact
BY Waits, AlwaysStarted, Invariance, PTL

(* A call is admitted only under the ceiling, with what the window booked and *)
(* what the other calls hold (Bucket::try_reserve).                         *)
THEOREM AdmittedUnderTheCeiling == Spec => FitsTheCeiling
<1>1. IInv /\ [Next]_vars =>
        [\A c \in Callers, k \in Keys \ upset :
           Admitted(c, k) =>
             Since(k, clock - Window + TicksPerSecond) + Kept(k)' <= bucket[k].limit]_vars
  BY Fits
<1> QED BY <1>1, Invariance, PTL DEF Spec, FitsTheCeiling
=============================================================================

------------------------- MODULE JudilibreFeed_proofs -------------------------
(* Proofs about JudilibreFeed, for any jurisdictions, decisions and sizes of   *)
(* the pages.                                                              *)
EXTENDS JudilibreFeed, FiniteSetTheorems, SequenceTheorems, WellFoundedInduction, TLAPS

Working == run.pc \in {"scan", "endjur"}
Paging == run.pc \in {"fetch", "save"}

(* The position the history will be read from once the page is saved.        *)
Reach == IF run.next # None THEN run.next ELSE run.at

(* The manifest of the run and the saved one differ in their months only, and  *)
(* only while a month is scanned or a page is saved.                         *)
Manifests ==
  /\ mem.wm = disk.wm /\ mem.cursor = disk.cursor
  /\ run.pc \in {"idle", "jur", "page", "fetch"} => mem = disk
  /\ \A j \in JurSet :
       /\ ~disk.months[j].here => disk.months[j] = NoMonth
       /\ ~mem.months[j].here => mem.months[j] = NoMonth
       /\ disk.months[j].boot => mem.months[j].boot

(* No position is in the future.                                           *)
Past ==
  /\ disk.wm <= Now /\ disk.cursor <= Now
  /\ run.seed <= Now /\ run.next <= Now /\ run.at <= Now

Phases ==
  /\ run.pc = "idle" => run = NoRun
  /\ Working => run.seed # None /\ run.todo # <<>>
  /\ run.pc \in {"page", "fetch", "save"} => ~NoHistory /\ run.from = From(disk)
  /\ NoHistory => tomb = {}

(* The month being scanned is out of the state, or in it as it was saved.     *)
Scanning ==
  LET j == Head(run.todo) IN
  /\ Working => /\ j \notin torn /\ ~disk.months[j].boot
                /\ \A i \in JurSet \ {j} : mem.months[i] = disk.months[i]
  /\ run.pc = "scan" =>
       /\ ~run.month.boot
       /\ \/ mem.months[j] = NoMonth
          \/ mem.months[j] = run.month /\ disk.months[j] = run.month

(* A torn file is that of a month scanned already, or of one the run is still  *)
(* to scan.                                                                *)
TornIsScanned ==
  \A j \in torn :
    \/ disk.months[j].boot \/ run.pc = "idle"
    \/ run.pc \in {"jur", "scan", "endjur"} /\ \E k \in DOMAIN run.todo : run.todo[k] = j

(* What the saved manifest would have the next run do, if this one died now.   *)
Unscanned(d) ==
  LET m == disk.months[JurOf[d]] IN ~m.boot /\ (m.cursor < d \/ JurOf[d] \in torn)

SavedCovers ==
  run.pc \in {"scan", "endjur", "save"} /\ ~NoHistory =>
    \A d \in Decisions : Live(d) =>
      Kept(d) \/ Owed(d) \/ Excused(d) \/ Unscanned(d) \/ Forgotten(d)

(* A tombstone of a decision the service has will be lifted by the history,    *)
(* past the page being read.                                               *)
TombsOwed ==
  \A d \in tomb : Live(d) => Owed(d) /\ (Paging => LastOp(d) > Reach)

(* What the page being read moves the position past is done.                 *)
PageDone ==
  /\ Paging => \A d \in Decisions : run.from < LastOp(d) /\ LastOp(d) <= Reach =>
       IF Live(d)
       THEN \/ missed[d] = LastOp(d)
            \/ run.pc = "fetch" /\ (d \in run.ask \/ run.got[d] = LastOp(d))
            \/ run.pc = "save" /\ line[d] = LastOp(d)
       ELSE d \in tomb
  /\ run.pc = "fetch" => \A d \in Decisions : run.got[d] # 0 =>
       (run.got[d] = LastOp(d) /\ Live(d)) \/ LastOp(d) > run.from

IInv ==
  /\ TypeOK
  /\ Manifests /\ Past /\ Phases /\ Scanning /\ TornIsScanned
  /\ SavedCovers /\ TombsOwed /\ PageDone
  /\ Covered /\ Withdrawn
-----------------------------------------------------------------------------
(* The greatest of a finite set of integers: one with the fewest above it.     *)
LEMMA LeastNat ==
  ASSUME NEW T, T \subseteq Nat, T # {}
  PROVE  \E x \in T : \A y \in T : x <= y
<1>1. \E x \in T : \A y \in T : ~(<<y, x>> \in OpToRel(<, Nat))
  BY NatLessThanWellFounded, WFMin
<1>2. \A x, y \in Nat : ~(<<y, x>> \in OpToRel(<, Nat)) => x <= y
  BY DEF OpToRel
<1> QED BY <1>1, <1>2

LEMMA MaxFacts ==
  ASSUME NEW S, IsFiniteSet(S), S \subseteq Int, S # {}
  PROVE  Max(S) \in S /\ \A y \in S : y <= Max(S)
<1> DEFINE Above(x) == {y \in S : y > x}
           T == {Cardinality(Above(x)) : x \in S}
<1>s. S \subseteq Int OBVIOUS
<1>1. \A x \in S : IsFiniteSet(Above(x)) /\ Cardinality(Above(x)) \in Nat
  BY FS_Subset, FS_CardinalityType
<1>2. PICK x \in S : \A y \in S : Cardinality(Above(x)) <= Cardinality(Above(y))
  <2>1. T \subseteq Nat /\ T # {} BY <1>1
  <2>2. PICK n \in T : \A m \in T : n <= m BY <2>1, LeastNat
  <2> QED BY <2>2
<1>3. ASSUME NEW y \in S, y > x PROVE FALSE
  <2>a. \A z \in S : z \in Int BY <1>s
  <2>b. x \in Int /\ y \in Int BY <2>a
  <2>c. \A z \in S : z > y => z > x BY <1>3, <2>a, <2>b
  <2>d. ~(y > y) BY <2>b
  <2>1. Above(y) \subseteq Above(x) /\ y \in Above(x) /\ y \notin Above(y) BY <1>3, <2>c, <2>d
  <2>2. Cardinality(Above(y)) < Cardinality(Above(x))
    <3> HIDE DEF Above
    <3> QED BY <2>1, <1>1, FS_Subset
  <2> QED BY <2>2, <1>1, <1>2
<1>4. \A y \in S : x >= y BY <1>3
<1> QED BY <1>4 DEF Max

LEMMA Sizes ==
  /\ MaxOps \in Nat /\ Hour \in Nat /\ MaxFaults \in Nat
  /\ PageSize \in Nat /\ PageSize > 0 /\ ScanSize \in Nat /\ ScanSize > 0
  /\ JurOf \in [Decisions -> JurSet]
  /\ \A d \in Decisions : d \in Nat /\ d > 0
BY FeedAssumption

LEMMA HistFacts ==
  ASSUME TypeOK
  PROVE  /\ Now \in Nat /\ Now <= MaxOps /\ DOMAIN hist = 1 .. Now
         /\ \A i \in 1 .. Now : hist[i].id \in Decisions /\ hist[i].put \in BOOLEAN
<1> DEFINE Op == [id : Decisions, put : BOOLEAN]
<1>1. hist \in Seq(Op) /\ Len(hist) <= MaxOps BY DEF TypeOK
<1>2. \A o \in Op : o.id \in Decisions /\ o.put \in BOOLEAN OBVIOUS
<1> HIDE DEF Op
<1>3. Len(hist) \in Nat /\ DOMAIN hist = 1 .. Len(hist) /\ \A i \in 1 .. Len(hist) : hist[i] \in Op
  BY <1>1
<1> QED BY <1>1, <1>2, <1>3 DEF Now

LEMMA LastFacts ==
  ASSUME TypeOK, NEW d \in Decisions
  PROVE  /\ LastOp(d) \in 0 .. Now
         /\ \A i \in OpsOf(d) : i <= LastOp(d)
         /\ OpsOf(d) # {} => LastOp(d) \in OpsOf(d)
         /\ Live(d) => LastOp(d) > 0 /\ LastOp(d) \in OpsOf(d) /\ hist[LastOp(d)].put
<1>1. OpsOf(d) \subseteq 1 .. Now BY HistFacts DEF OpsOf
<1>2. IsFiniteSet(OpsOf(d))
  <2>1. IsFiniteSet(1 .. Now) BY HistFacts, FS_Interval
  <2> QED BY <1>1, <2>1, FS_Subset
<1>3. OpsOf(d) # {} => LastOp(d) \in OpsOf(d) /\ \A i \in OpsOf(d) : i <= LastOp(d)
  <2>1. OpsOf(d) \subseteq Int BY <1>1, HistFacts
  <2> QED BY <2>1, <1>2, MaxFacts DEF LastOp
<1>4. OpsOf(d) = {} => LastOp(d) = 0 BY DEF LastOp
<1>5. LastOp(d) \in 0 .. Now BY <1>1, <1>3, <1>4, HistFacts
<1> QED BY <1>1, <1>3, <1>5, HistFacts DEF Live

(* What the service has does not change in a step of the run.                 *)
LEMMA Steady ==
  ASSUME hist' = hist
  PROVE  /\ Now' = Now
         /\ \A d \in Decisions : LastOp(d)' = LastOp(d) /\ (Live(d)' <=> Live(d))
<1>1. \A d \in Decisions : OpsOf(d)' = OpsOf(d) BY DEF OpsOf
<1>2. \A d \in Decisions : LastOp(d)' = LastOp(d) BY <1>1 DEF LastOp
<1> QED BY <1>1, <1>2 DEF Live, Now

LEMMA DateFacts ==
  ASSUME TypeOK, NEW date \in Dates
  PROVE  date \in Positions /\ date <= Now /\ date >= mem.wm /\ date # None
<1> DEFINE a == Now - Hour
           b == mem.wm
<1>1. a \in Int /\ b \in Int /\ Now \in Nat /\ Now <= MaxOps
  BY HistFacts, Sizes DEF TypeOK, Manifest, Positions, None
<1>2. date \in Max({0, a, b}) .. Now BY DEF Dates
<1> HIDE DEF a
<1>3. \E x \in {0, a, b} : \A y \in {0, a, b} : x >= y BY <1>1
<1>4. Max({0, a, b}) \in {0, a, b} /\ \A y \in {0, a, b} : Max({0, a, b}) >= y
  BY <1>3 DEF Max
<1>5. Max({0, a, b}) \in Int BY <1>1, <1>4
<1>6. date \in Int /\ date >= Max({0, a, b}) /\ date <= Now BY <1>1, <1>2, <1>5
<1>7. Max({0, a, b}) >= 0 /\ Max({0, a, b}) >= b BY <1>4
<1> HIDE DEF b
<1>8. date >= 0 /\ date >= b BY <1>1, <1>5, <1>6, <1>7
<1> QED BY <1>1, <1>6, <1>8, Sizes DEF Positions, None, b

LEMMA StateFacts ==
  ASSUME TypeOK
  PROVE  /\ \A j \in JurSet : disk.months[j] \in Month /\ mem.months[j] \in Month
         /\ \A j \in JurSet : disk.months[j].cursor \in Nat /\ mem.months[j].cursor \in Nat
         /\ run.month \in Month /\ run.month.cursor \in Nat
         /\ disk.wm \in Int /\ disk.cursor \in Int /\ mem.wm \in Int /\ mem.cursor \in Int
         /\ run.seed \in Int /\ run.from \in Nat /\ run.next \in Int /\ run.at \in Nat
         /\ run.todo \in Seq(JurSet)
<1>1. disk \in Manifest /\ mem \in Manifest /\ run \in Run BY DEF TypeOK
<1>2. \A m \in Month : m.cursor \in Nat BY Sizes DEF Month
<1>3. \A j \in JurSet : disk.months[j] \in Month /\ mem.months[j] \in Month
  BY <1>1 DEF Manifest
<1>4. /\ disk.wm \in Int /\ disk.cursor \in Int /\ mem.wm \in Int /\ mem.cursor \in Int
      /\ run.seed \in Int /\ run.from \in Nat /\ run.next \in Int /\ run.at \in Nat
  BY <1>1, Sizes DEF Manifest, Run, Positions, None
<1>5. run.month \in Month /\ run.todo \in Seq(JurSet) BY <1>1 DEF Run
<1> QED BY <1>2, <1>3, <1>4, <1>5

(* A step that leaves the service, the files and the saved months alone.      *)
LEMMA Untouched ==
  ASSUME hist' = hist, line' = line, tomb' = tomb, torn' = torn, missed' = missed,
         disk'.months = disk.months, Resume' = Resume, NEW d \in Decisions
  PROVE  /\ Kept(d)' <=> Kept(d)
         /\ Owed(d)' <=> Owed(d)
         /\ Excused(d)' <=> Excused(d)
         /\ Unscanned(d)' <=> Unscanned(d)
<1>1. LastOp(d)' = LastOp(d) /\ (Live(d)' <=> Live(d)) BY Steady
<1>2. Kept(d)' <=> Kept(d) BY <1>1 DEF Kept
<1>3. Owed(d)' <=> Owed(d) BY <1>1 DEF Owed
<1>4. Behind(d)' <=> Behind(d) BY <1>1 DEF Behind
<1>5. Excused(d)' <=> Excused(d) BY <1>1, <1>4 DEF Excused
<1>6. Unscanned(d)' <=> Unscanned(d) BY DEF Unscanned
<1> QED BY <1>2, <1>3, <1>5, <1>6

(* With no history to read and no seed yet, whatever the scans are past is      *)
(* excused, and the rest is still to scan.                                   *)
LEMMA Unseeded ==
  ASSUME TypeOK, mem = disk, run.pc # "scan", Resume = None, NEW d \in Decisions
  PROVE  ToScan(d) \/ Excused(d)
<1>1. JurOf[d] \in JurSet /\ d \in Nat BY Sizes
<1>2. disk.months[JurOf[d]].cursor \in Nat BY <1>1, StateFacts
<1>3. ToScan(d) \/ Behind(d) BY <1>1, <1>2 DEF ToScan, Behind
<1> QED BY <1>3 DEF Excused

LEMMA NoRunType == NoRun \in Run
<1>1. 0 \in Positions BY Sizes DEF Positions
<1>2. <<>> \in Seq(JurSet) OBVIOUS
<1>3. NoMonth \in Month BY DEF NoMonth, Month
<1> QED BY <1>1, <1>2, <1>3 DEF NoRun, Run, None

LEMMA InitIInv == Init => IInv
<1> SUFFICES ASSUME Init PROVE IInv OBVIOUS
<1>1. TypeOK
  <2>1. Cardinality(Decisions) \in Nat /\ Cardinality(Decisions) <= MaxOps
    BY FeedAssumption, FS_CardinalityType
  <2>2. hist \in Seq([id : Decisions, put : BOOLEAN]) /\ Len(hist) <= MaxOps
    <3> DEFINE n == Cardinality(Decisions)
    <3>1. hist \in [1 .. n -> [id : Decisions, put : {TRUE}]] BY DEF Init
    <3>2. [id : Decisions, put : {TRUE}] \subseteq [id : Decisions, put : BOOLEAN] OBVIOUS
    <3>3. hist \in [1 .. n -> [id : Decisions, put : BOOLEAN]] BY <3>1, <3>2
    <3> HIDE DEF n
    <3>4. n \in Nat /\ n <= MaxOps BY <2>1 DEF n
    <3>5. hist \in Seq([id : Decisions, put : BOOLEAN]) BY <3>3, <3>4, SeqDef
    <3>6. DOMAIN hist = 1 .. n BY <3>3
    <3>7. Len(hist) = n BY <3>4, <3>5, <3>6
    <3> QED BY <3>4, <3>5, <3>7
  <2>3. NoMonth \in Month BY DEF NoMonth, Month
  <2>4. disk \in Manifest /\ mem \in Manifest BY <2>3 DEF Init, Manifest, None
  <2>5. NoRun \in Run BY NoRunType
  <2>6. line \in [Decisions -> Positions] /\ missed \in [Decisions -> Positions]
    BY Sizes DEF Init, Positions
  <2> QED BY <2>2, <2>4, <2>5, <2>6, Sizes DEF Init, TypeOK
<1>2. /\ disk.wm = None /\ disk.cursor = None /\ run = NoRun /\ run.pc = "idle" /\ mem = disk
      /\ run.seed = None /\ run.next = None /\ run.at = 0 /\ tomb = {} /\ torn = {}
      /\ \A j \in JurSet : disk.months[j] = NoMonth
  BY DEF Init, NoRun
<1>3. NoHistory /\ Resume = None BY <1>2 DEF NoHistory, Resume
<1>4. Manifests BY <1>2 DEF Manifests
<1>5. Past BY <1>1, <1>2, HistFacts DEF Past, None
<1>6. Phases /\ Scanning /\ TornIsScanned /\ SavedCovers /\ TombsOwed /\ PageDone
  BY <1>2 DEF Phases, Scanning, TornIsScanned, SavedCovers, TombsOwed, PageDone, Working, Paging
<1>7. Covered BY <1>1, <1>2, <1>3, Unseeded DEF Covered
<1>8. Withdrawn BY <1>3 DEF Withdrawn, Excused, Behind
<1> QED BY <1>1, <1>4, <1>5, <1>6, <1>7, <1>8 DEF IInv
-----------------------------------------------------------------------------
(* A change of the service.                                                *)
LEMMA ChangeFacts ==
  ASSUME TypeOK, Change
  PROVE  /\ Now' = Now + 1 /\ Now + 1 <= MaxOps
         /\ hist' \in Seq([id : Decisions, put : BOOLEAN])
         /\ \E e \in Decisions :
              /\ LastOp(e)' = Now + 1
              /\ \A d \in Decisions \ {e} : LastOp(d)' = LastOp(d) /\ (Live(d)' <=> Live(d))
<1> DEFINE Op == [id : Decisions, put : BOOLEAN]
<1>1. PICK e \in Decisions, put \in BOOLEAN : hist' = Append(hist, [id |-> e, put |-> put])
  BY DEF Change
<1>2. PICK o \in Op : o.id = e /\ hist' = Append(hist, o) BY <1>1
<1>3. hist \in Seq(Op) BY DEF TypeOK
<1> HIDE DEF Op
<1>4. Now \in Nat /\ Now < MaxOps /\ DOMAIN hist = 1 .. Now BY HistFacts DEF Change
<1>5. hist' \in Seq(Op) /\ Len(hist') = Now + 1 BY <1>2, <1>3 DEF Now
<1>6. DOMAIN hist' = 1 .. Now + 1 BY <1>4, <1>5
<1>7. \A i \in 1 .. Now : hist'[i] = hist[i] BY <1>2, <1>3, <1>4 DEF Now
<1>8. hist'[Now + 1] = o BY <1>2, <1>3, <1>4 DEF Now
<1>9. OpsOf(e)' = OpsOf(e) \cup {Now + 1}
  <2>1. \A i : i \in OpsOf(e)' <=> i \in 1 .. Now + 1 /\ hist'[i].id = e BY <1>6 DEF OpsOf
  <2>2. \A i : i \in OpsOf(e) <=> i \in 1 .. Now /\ hist[i].id = e BY <1>4 DEF OpsOf
  <2>3. \A i \in 1 .. Now + 1 : i \in 1 .. Now \/ i = Now + 1 BY <1>4
  <2>4. Now + 1 \in 1 .. Now + 1 /\ 1 .. Now \subseteq 1 .. Now + 1 BY <1>4
  <2> QED BY <2>1, <2>2, <2>3, <2>4, <1>2, <1>7, <1>8
<1>10. LastOp(e)' = Now + 1
  <2>1. \A i \in OpsOf(e)' : i \in Nat /\ i <= Now + 1 BY <1>4, <1>9 DEF OpsOf
  <2>2. Max(OpsOf(e)') = Now + 1
    <3>1. \E x \in OpsOf(e)' : \A y \in OpsOf(e)' : x >= y BY <1>4, <1>9, <2>1
    <3>2. Max(OpsOf(e)') \in OpsOf(e)' /\ \A y \in OpsOf(e)' : Max(OpsOf(e)') >= y
      BY <3>1 DEF Max
    <3>3. Now + 1 \in OpsOf(e)' BY <1>9
    <3>4. PICK x \in Nat : x = Max(OpsOf(e)') BY <2>1, <3>2
    <3>5. x <= Now + 1 /\ x >= Now + 1 BY <2>1, <3>2, <3>3, <3>4
    <3> QED BY <1>4, <3>4, <3>5
  <2> QED BY <2>2, <1>9 DEF LastOp
<1>11. ASSUME NEW d \in Decisions \ {e}
       PROVE  LastOp(d)' = LastOp(d) /\ (Live(d)' <=> Live(d))
  <2>1. OpsOf(d)' = OpsOf(d)
    <3>1. \A i : i \in OpsOf(d)' <=> i \in 1 .. Now + 1 /\ hist'[i].id = d BY <1>6 DEF OpsOf
    <3>2. \A i : i \in OpsOf(d) <=> i \in 1 .. Now /\ hist[i].id = d BY <1>4 DEF OpsOf
    <3>3. \A i \in 1 .. Now + 1 : i \in 1 .. Now \/ i = Now + 1 BY <1>4
    <3>4. 1 .. Now \subseteq 1 .. Now + 1 BY <1>4
    <3> QED BY <3>1, <3>2, <3>3, <3>4, <1>2, <1>7, <1>8
  <2>2. LastOp(d)' = LastOp(d) BY <2>1 DEF LastOp
  <2>3. OpsOf(d) # {} => LastOp(d) \in 1 .. Now
    BY LastFacts, <1>4 DEF OpsOf
  <2>4. Live(d)' <=> OpsOf(d)' # {} /\ hist'[LastOp(d)'].put BY DEF Live
  <2>5. Live(d) <=> OpsOf(d) # {} /\ hist[LastOp(d)].put BY DEF Live
  <2> QED BY <2>1, <2>2, <2>3, <2>4, <2>5, <1>7
<1>12. Now' = Now + 1 BY <1>5 DEF Now
<1>13. hist' \in Seq([id : Decisions, put : BOOLEAN]) BY <1>5 DEF Op
<1>14. \A d \in Decisions \ {e} : LastOp(d)' = LastOp(d) /\ (Live(d)' <=> Live(d)) BY <1>11
<1>15. \E x \in Decisions :
         /\ LastOp(x)' = Now + 1
         /\ \A d \in Decisions \ {x} : LastOp(d)' = LastOp(d) /\ (Live(d)' <=> Live(d))
  <2> WITNESS e \in Decisions
  <2> QED BY <1>10, <1>14
<1> QED BY <1>4, Sizes, <1>15, <1>12, <1>13

LEMMA ChangeStep == ASSUME IInv, Change PROVE IInv'
<1>1. TypeOK /\ Manifests /\ Past /\ Phases /\ Scanning /\ TornIsScanned
  BY DEF IInv
<1>2. SavedCovers /\ TombsOwed /\ PageDone /\ Covered /\ Withdrawn
  BY DEF IInv
<1>3. /\ line' = line /\ torn' = torn /\ tomb' = tomb /\ disk' = disk /\ mem' = mem
      /\ run' = run /\ whole' = whole /\ missed' = missed /\ faults' = faults
  BY DEF Change
<1>4. PICK e \in Decisions :
        /\ LastOp(e)' = Now + 1
        /\ \A d \in Decisions \ {e} : LastOp(d)' = LastOp(d) /\ (Live(d)' <=> Live(d))
  BY <1>1, ChangeFacts
<1>5. Now' = Now + 1 /\ Now + 1 <= MaxOps /\ Now \in Nat
      /\ hist' \in Seq([id : Decisions, put : BOOLEAN])
  BY <1>1, ChangeFacts, HistFacts
<1>6. /\ disk.wm \in Int /\ disk.cursor \in Int /\ run.seed \in Int /\ run.from \in Nat
      /\ run.next \in Int /\ run.at \in Nat
  BY <1>1, StateFacts
<1>7. Resume' = Resume /\ (NoHistory' <=> NoHistory) BY <1>3 DEF Resume, NoHistory, From
<1>8. Resume \in Int /\ Resume <= Now BY <1>1, <1>6 DEF Resume, From, Past
<1>9. Resume # None => Owed(e)' BY <1>4, <1>5, <1>7, <1>8 DEF Owed
<1>10. Reach' = Reach /\ Reach <= Now BY <1>1, <1>3, <1>6 DEF Reach, Past
<1>11. ASSUME NEW d \in Decisions \ {e}
       PROVE  /\ Kept(d)' <=> Kept(d)
              /\ Owed(d)' <=> Owed(d)
              /\ Excused(d)' <=> Excused(d)
              /\ Unscanned(d)' <=> Unscanned(d)
              /\ Forgotten(d)' <=> Forgotten(d)
              /\ ToScan(d)' <=> ToScan(d)
  <2>1. LastOp(d)' = LastOp(d) /\ (Live(d)' <=> Live(d)) BY <1>4
  <2>2. Behind(d)' <=> Behind(d) BY <1>3, <2>1 DEF Behind
  <2>3. Kept(d)' <=> Kept(d) BY <1>3, <2>1 DEF Kept
  <2>4. Owed(d)' <=> Owed(d) BY <1>7, <2>1 DEF Owed
  <2>5. Excused(d)' <=> Excused(d) BY <1>3, <1>7, <2>1, <2>2 DEF Excused
  <2>6. Unscanned(d)' <=> Unscanned(d) BY <1>3 DEF Unscanned
  <2>7. Forgotten(d)' <=> Forgotten(d) BY <1>3 DEF Forgotten
  <2>8. ToScan(d)' <=> ToScan(d) BY <1>3 DEF ToScan
  <2> QED BY <2>3, <2>4, <2>5, <2>6, <2>7, <2>8
<1>12. Resume = None => mem = disk /\ run.pc # "scan" /\ NoHistory
       /\ run.pc \notin {"scan", "endjur", "page", "fetch", "save"}
  <2>1. SUFFICES ASSUME Resume = None PROVE run.pc \in {"idle", "jur"} /\ NoHistory
    BY <1>1 DEF Manifests
  <2>2. NoHistory BY <2>1 DEF Resume, From, NoHistory
  <2>3. run.seed = None BY <2>1, <2>2 DEF Resume
  <2>4. run.pc \notin {"scan", "endjur", "page", "fetch", "save"}
    BY <1>1, <2>2, <2>3 DEF Phases, Working
  <2>5. run.pc \in {"idle", "jur", "scan", "endjur", "page", "fetch", "save"}
    BY <1>1 DEF TypeOK, Run
  <2> QED BY <2>2, <2>4, <2>5
<1>13. TypeOK' BY <1>1, <1>3, <1>5 DEF TypeOK, Now
<1>14. Manifests' BY <1>1, <1>3 DEF Manifests
<1>15. Past' BY <1>1, <1>3, <1>5, <1>6 DEF Past
<1>16. Phases' BY <1>1, <1>3, <1>7 DEF Phases, Working, From
<1>17. Scanning' BY <1>1, <1>3 DEF Scanning, Working
<1>18. TornIsScanned' BY <1>1, <1>3 DEF TornIsScanned
<1>19. SavedCovers'
  <2> SUFFICES ASSUME NEW d \in Decisions, Live(d)', ~NoHistory,
                      run.pc \in {"scan", "endjur", "save"}
               PROVE  (Kept(d) \/ Owed(d) \/ Excused(d) \/ Unscanned(d) \/ Forgotten(d))'
    BY <1>3, <1>7 DEF SavedCovers
  <2>1. CASE d = e BY <2>1, <1>9, <1>12
  <2>2. CASE d # e BY <2>2, <1>2, <1>4, <1>11 DEF SavedCovers
  <2> QED BY <2>1, <2>2
<1>20. TombsOwed'
  <2> SUFFICES ASSUME NEW d \in tomb, Live(d)'
               PROVE  Owed(d)' /\ (Paging => LastOp(d)' > Reach)
    BY <1>3, <1>10 DEF TombsOwed, Paging
  <2>1. d \in Decisions BY <1>1 DEF TypeOK
  <2>2. CASE d = e
    <3>1. Resume # None BY <1>1, <1>12 DEF Phases
    <3>2. Reach \in Int BY <1>6 DEF Reach
    <3> QED BY <2>2, <3>1, <3>2, <1>4, <1>5, <1>9, <1>10
  <2>3. CASE d # e BY <2>1, <2>3, <1>2, <1>4, <1>11 DEF TombsOwed
  <2> QED BY <2>2, <2>3
<1>21. PageDone'
  <2>1. Reach \in Int BY <1>6 DEF Reach
  <2>2. ASSUME NEW d \in Decisions, Paging, run.from < LastOp(d)', LastOp(d)' <= Reach
        PROVE  IF Live(d)'
               THEN \/ missed[d] = LastOp(d)'
                    \/ run.pc = "fetch" /\ (d \in run.ask \/ run.got[d] = LastOp(d)')
                    \/ run.pc = "save" /\ line[d] = LastOp(d)'
               ELSE d \in tomb
    <3>1. d # e BY <2>1, <2>2, <1>4, <1>5, <1>10
    <3> QED BY <2>2, <3>1, <1>2, <1>4 DEF PageDone
  <2>3. ASSUME NEW d \in Decisions, run.pc = "fetch", run.got[d] # 0
        PROVE  (run.got[d] = LastOp(d)' /\ Live(d)') \/ LastOp(d)' > run.from
    <3>1. run.from <= Now
      <4>1. run.from = From(disk) BY <1>1, <2>3 DEF Phases
      <4> QED BY <1>1, <1>6, <4>1 DEF From, Past
    <3>2. CASE d = e BY <3>1, <3>2, <1>4, <1>5, <1>6
    <3>3. CASE d # e BY <2>3, <3>3, <1>2, <1>4 DEF PageDone
    <3> QED BY <3>2, <3>3
  <2> QED BY <2>2, <2>3, <1>3, <1>10 DEF PageDone, Paging
<1>22. Covered'
  <2> SUFFICES ASSUME NEW d \in Decisions, Live(d)'
               PROVE  (Kept(d) \/ ToScan(d) \/ Owed(d) \/ Excused(d))'
    BY DEF Covered
  <2>1. CASE d # e BY <2>1, <1>2, <1>4, <1>11 DEF Covered
  <2>2. CASE d = e /\ Resume # None BY <2>2, <1>9
  <2>3. CASE d = e /\ Resume = None
    <3>1. JurOf[d] \in JurSet /\ d \in Nat BY Sizes
    <3>2. disk.months[JurOf[d]].cursor \in Nat BY <1>1, <3>1, StateFacts
    <3>3. ToScan(d)' \/ Behind(d)' BY <1>3, <1>12, <2>3, <3>1, <3>2 DEF ToScan, Behind
    <3> QED BY <2>3, <3>3, <1>7 DEF Excused
  <2> QED BY <2>1, <2>2, <2>3
<1>23. Withdrawn'
  <2> SUFFICES ASSUME NEW d \in Decisions, ~Live(d)', line[d] # 0
               PROVE  d \in tomb \/ Owed(d)' \/ Excused(d)'
    BY <1>3 DEF Withdrawn
  <2>1. CASE d # e BY <2>1, <1>2, <1>4, <1>11 DEF Withdrawn
  <2>2. CASE d = e /\ Resume # None BY <2>2, <1>9
  <2>3. CASE d = e /\ Resume = None BY <2>3, <1>3, <1>7 DEF Excused, Behind
  <2> QED BY <2>1, <2>2, <2>3
<1> QED BY <1>13, <1>14, <1>15, <1>16, <1>17, <1>18, <1>19, <1>20, <1>21, <1>22, <1>23 DEF IInv
-----------------------------------------------------------------------------
(* Steps of the run that leave the service, the files and the saved months     *)
(* alone, outside the pages of the history.                                   *)
LEMMA QuietStep ==
  ASSUME Covered, Withdrawn, TombsOwed,
         hist' = hist, line' = line, tomb' = tomb, torn' = torn, missed' = missed,
         disk'.months = disk.months, Resume' = Resume, ~Paging',
         \A d \in Decisions : ToScan(d) => ToScan(d)'
  PROVE  Covered' /\ Withdrawn' /\ TombsOwed' /\ PageDone'
<1>1. \A d \in Decisions : LastOp(d)' = LastOp(d) /\ (Live(d)' <=> Live(d)) BY Steady
<1>2. Covered'
  <2> SUFFICES ASSUME NEW d \in Decisions, Live(d)'
               PROVE  (Kept(d) \/ ToScan(d) \/ Owed(d) \/ Excused(d))'
    BY DEF Covered
  <2> QED BY <1>1, Untouched DEF Covered
<1>3. Withdrawn'
  <2> SUFFICES ASSUME NEW d \in Decisions, ~Live(d)', line[d] # 0
               PROVE  d \in tomb \/ Owed(d)' \/ Excused(d)'
    BY DEF Withdrawn
  <2> QED BY <1>1, Untouched DEF Withdrawn
<1>4. TombsOwed'
  <2> SUFFICES ASSUME NEW d \in tomb, Live(d)' PROVE Owed(d)'
    BY DEF TombsOwed
  <2>1. Live(d) /\ LastOp(d)' = LastOp(d)
    <3>1. OpsOf(d)' = OpsOf(d) BY DEF OpsOf
    <3>2. LastOp(d)' = LastOp(d) BY <3>1 DEF LastOp
    <3> QED BY <3>1, <3>2 DEF Live
  <2>2. Owed(d) BY <2>1 DEF TombsOwed
  <2> QED BY <2>1, <2>2 DEF Owed
<1>5. PageDone' BY DEF PageDone, Paging
<1> QED BY <1>2, <1>3, <1>4, <1>5

LEMMA StartStep == ASSUME IInv, Start PROVE IInv'
<1>1. /\ TypeOK /\ Manifests /\ Past /\ Phases /\ Scanning /\ TornIsScanned
      /\ TombsOwed /\ Covered /\ Withdrawn
  BY DEF IInv
<1>2. run.pc = "idle" /\ run = NoRun /\ mem = disk /\ run.seed = None
  BY <1>1 DEF Start, Phases, Manifests, NoRun
<1>3. /\ hist' = hist /\ line' = line /\ torn' = torn /\ tomb' = tomb /\ disk' = disk
      /\ mem' = disk /\ whole' = whole /\ missed' = missed /\ faults' = faults
  BY DEF Start
<1>4. /\ run'.pc = "jur" /\ run'.todo = Jurs /\ run'.seed = None /\ run'.next = None
      /\ run'.at = 0
  BY DEF Start, NoRun
<1>5. Resume' = Resume /\ (NoHistory' <=> NoHistory) BY <1>2, <1>3, <1>4 DEF Resume, NoHistory, From
<1>6. TypeOK'
  <2>1. run' \in Run BY NoRunType, FeedAssumption DEF Start, Run
  <2> QED BY <1>1, <1>3, <2>1 DEF TypeOK
<1>7. Manifests' BY <1>1, <1>3, <1>4 DEF Manifests
<1>8. Past' BY <1>1, <1>3, <1>4, HistFacts DEF Past, Now, None
<1>9. Phases' BY <1>1, <1>3, <1>4, <1>5 DEF Phases, Working
<1>10. Scanning' BY <1>4 DEF Scanning, Working
<1>11. TornIsScanned'
  <2>1. \A j \in torn : \E k \in DOMAIN Jurs : Jurs[k] = j BY <1>1 DEF TypeOK, JurSet
  <2> QED BY <1>3, <1>4, <2>1 DEF TornIsScanned
<1>12. SavedCovers' BY <1>4 DEF SavedCovers
<1>13. \A d \in Decisions : ToScan(d) => ToScan(d)' BY <1>2, <1>3, <1>4 DEF ToScan
<1>14. ~Paging' BY <1>4 DEF Paging
<1>15. Covered' /\ Withdrawn' /\ TombsOwed' /\ PageDone'
  BY <1>1, <1>3, <1>5, <1>13, <1>14, QuietStep
<1> QED BY <1>6, <1>7, <1>8, <1>9, <1>10, <1>11, <1>12, <1>15 DEF IInv

LEMMA TodoFacts ==
  ASSUME TypeOK, run.todo # <<>>
  PROVE  /\ Head(run.todo) \in JurSet /\ Tail(run.todo) \in Seq(JurSet)
         /\ 1 \in DOMAIN run.todo /\ Head(run.todo) = run.todo[1]
         /\ \A k \in DOMAIN run.todo : k # 1 =>
               k - 1 \in DOMAIN Tail(run.todo) /\ Tail(run.todo)[k - 1] = run.todo[k]
<1>1. run.todo \in Seq(JurSet) BY StateFacts
<1>2. Len(run.todo) \in Nat /\ Len(run.todo) > 0 /\ DOMAIN run.todo = 1 .. Len(run.todo)
  BY <1>1
<1>3. /\ Head(run.todo) \in JurSet /\ Tail(run.todo) \in Seq(JurSet)
      /\ Head(run.todo) = run.todo[1] /\ Len(Tail(run.todo)) = Len(run.todo) - 1
  BY <1>1
<1>4. \A k \in 1 .. Len(run.todo) - 1 : Tail(run.todo)[k] = run.todo[k + 1]
  BY <1>1, <1>2
<1>5. DOMAIN Tail(run.todo) = 1 .. Len(run.todo) - 1 BY <1>2, <1>3
<1> QED BY <1>2, <1>3, <1>4, <1>5

LEMMA PassStep == ASSUME IInv, Pass PROVE IInv'
<1>1. /\ TypeOK /\ Manifests /\ Past /\ Phases /\ Scanning /\ TornIsScanned
      /\ TombsOwed /\ Covered /\ Withdrawn
  BY DEF IInv
<1>2. run.pc = "jur" /\ mem = disk /\ run.todo # <<>> /\ MonthOf(Head(run.todo)).boot
  BY <1>1 DEF Pass, Manifests
<1>3. /\ hist' = hist /\ line' = line /\ torn' = torn /\ tomb' = tomb /\ disk' = disk
      /\ mem' = mem /\ whole' = whole /\ missed' = missed /\ faults' = faults
  BY <1>2 DEF Pass
<1>4. run \in Run BY <1>1 DEF TypeOK
<1>5. /\ run' \in Run /\ run'.pc = "jur" /\ run'.todo = Tail(run.todo) /\ run'.seed = run.seed
      /\ run'.next = run.next /\ run'.at = run.at
  BY <1>1, <1>2, <1>4, TodoFacts DEF Pass, Run
<1>6. Resume' = Resume /\ (NoHistory' <=> NoHistory) BY <1>3, <1>5 DEF Resume, NoHistory, From
<1>7. TypeOK' BY <1>1, <1>3, <1>5 DEF TypeOK
<1>8. Manifests' BY <1>1, <1>2, <1>3 DEF Manifests
<1>9. Past' BY <1>1, <1>3, <1>5 DEF Past, Now
<1>10. Phases' BY <1>1, <1>3, <1>5, <1>6 DEF Phases, Working
<1>11. Scanning' BY <1>5 DEF Scanning, Working
<1>12. TornIsScanned'
  <2> SUFFICES ASSUME NEW j \in torn, ~disk.months[j].boot
               PROVE  \E k \in DOMAIN Tail(run.todo) : Tail(run.todo)[k] = j
    BY <1>3, <1>5 DEF TornIsScanned
  <2>1. PICK k \in DOMAIN run.todo : run.todo[k] = j BY <1>1, <1>2 DEF TornIsScanned
  <2>2. disk.months[Head(run.todo)].boot
    <3>1. MonthOf(Head(run.todo)) = disk.months[Head(run.todo)]
      BY <1>2 DEF MonthOf, Fresh, NoMonth
    <3> QED BY <1>2, <3>1
  <2>3. k # 1 BY <1>1, <1>2, <2>1, <2>2, TodoFacts
  <2> QED BY <1>1, <1>2, <2>1, <2>3, TodoFacts
<1>13. SavedCovers' BY <1>5 DEF SavedCovers
<1>14. \A d \in Decisions : ToScan(d) => ToScan(d)' BY <1>2, <1>3, <1>5 DEF ToScan
<1>15. ~Paging' BY <1>5 DEF Paging
<1>16. Covered' /\ Withdrawn' /\ TombsOwed' /\ PageDone'
  BY <1>1, <1>3, <1>6, <1>14, <1>15, QuietStep
<1> QED BY <1>7, <1>8, <1>9, <1>10, <1>11, <1>12, <1>13, <1>16 DEF IInv

LEMMA HistoryStep == ASSUME IInv, History PROVE IInv'
<1>1. /\ TypeOK /\ Manifests /\ Past /\ Phases /\ Scanning /\ TornIsScanned
      /\ TombsOwed /\ Covered /\ Withdrawn
  BY DEF IInv
<1>2. run.pc = "jur" /\ mem = disk /\ run.todo = <<>> BY <1>1 DEF History, Manifests
<1>3. /\ hist' = hist /\ line' = line /\ torn' = torn /\ tomb' = tomb
      /\ mem' = Seeded /\ disk' = Seeded /\ whole' = whole /\ missed' = missed
      /\ faults' = faults
  BY <1>2 DEF History
<1>4. run \in Run /\ disk \in Manifest /\ mem \in Manifest BY <1>1 DEF TypeOK
<1>5. /\ disk'.months = disk.months /\ disk'.cursor = disk.cursor
      /\ disk'.wm = IF disk.wm = None THEN run.seed ELSE disk.wm
      /\ mem' = disk' /\ disk' \in Manifest
  BY <1>2, <1>3, <1>4 DEF Seeded, Manifest, Run
<1>6. /\ run.from \in Nat /\ disk.wm \in Positions \cup {None} /\ run.seed \in Positions \cup {None}
      /\ disk.cursor \in Positions \cup {None}
  BY <1>1, <1>4, StateFacts DEF Manifest, Run
<1>9. mem'.months = mem.months BY <1>2, <1>5
<1>7. CASE disk'.wm = None /\ disk'.cursor = None
  <2>1. run' = NoRun BY <1>2, <1>3, <1>7 DEF History
  <2>2. /\ run'.pc = "idle" /\ run'.seed = None /\ run'.next = None /\ run'.at = 0 /\ run' \in Run
    BY <2>1, NoRunType DEF NoRun
  <2>3. Resume' = Resume /\ (NoHistory' <=> NoHistory) /\ NoHistory
    BY <1>5, <1>7, <2>2 DEF Resume, NoHistory, From
  <2>4. TypeOK' BY <1>1, <1>3, <1>5, <2>2 DEF TypeOK
  <2>5. Manifests' BY <1>1, <1>5, <1>2 DEF Manifests
  <2>6. Past' BY <1>1, <1>3, <1>7, <2>2, HistFacts DEF Past, Now, None
  <2>7. Phases' BY <1>1, <1>3, <2>1, <2>2, <2>3 DEF Phases, Working
  <2>8. Scanning' /\ TornIsScanned' /\ SavedCovers'
    BY <2>2 DEF Scanning, Working, TornIsScanned, SavedCovers
  <2>9. \A d \in Decisions : ToScan(d) => ToScan(d)' BY <1>2, <1>3, <1>9, <2>2 DEF ToScan
  <2>10. ~Paging' BY <2>2 DEF Paging
  <2>11. Covered' /\ Withdrawn' /\ TombsOwed' /\ PageDone'
    BY <1>1, <1>3, <1>5, <2>3, <2>9, <2>10, QuietStep
  <2> QED BY <2>4, <2>5, <2>6, <2>7, <2>8, <2>11 DEF IInv
<1>8. CASE ~(disk'.wm = None /\ disk'.cursor = None)
  <2>1. run' = [run EXCEPT !.pc = "page", !.from = From(Seeded)]
    BY <1>2, <1>3, <1>8 DEF History
  <2>2. From(Seeded) \in Positions BY <1>3, <1>5, <1>6, <1>8 DEF From
  <2>3. /\ run'.pc = "page" /\ run'.seed = run.seed /\ run'.next = run.next /\ run'.at = run.at
        /\ run' \in Run /\ run'.from = From(disk')
    BY <1>3, <1>4, <2>1, <2>2 DEF Run
  <2>4. ~NoHistory' BY <1>8 DEF NoHistory
  <2>5. Resume' = From(disk') BY <2>4 DEF Resume
  <2>6. Resume' = Resume BY <1>5, <1>8, <2>5 DEF Resume, NoHistory, From
  <2>7. TypeOK' BY <1>1, <1>3, <1>5, <2>3 DEF TypeOK
  <2>8. Manifests' BY <1>1, <1>2, <1>5 DEF Manifests
  <2>9. Past' BY <1>1, <1>3, <1>5, <2>3 DEF Past, Now
  <2>10. Phases' BY <2>3, <2>4 DEF Phases, Working
  <2>11. Scanning' /\ SavedCovers' BY <2>3 DEF Scanning, Working, SavedCovers
  <2>12. TornIsScanned' BY <1>1, <1>2, <1>3, <1>5 DEF TornIsScanned
  <2>13. \A d \in Decisions : ToScan(d) => ToScan(d)' BY <1>2, <1>3, <1>9, <2>3 DEF ToScan
  <2>14. ~Paging' BY <2>3 DEF Paging
  <2>15. Covered' /\ Withdrawn' /\ TombsOwed' /\ PageDone'
    BY <1>1, <1>3, <1>5, <2>6, <2>13, <2>14, QuietStep
  <2> QED BY <2>7, <2>8, <2>9, <2>10, <2>11, <2>12, <2>15 DEF IInv
<1> QED BY <1>7, <1>8

LEMMA ScanFailsStep == ASSUME IInv, ScanFails PROVE IInv'
<1>1. /\ TypeOK /\ Manifests /\ Past /\ Phases /\ Scanning /\ TornIsScanned
      /\ SavedCovers /\ TombsOwed /\ Covered /\ Withdrawn
  BY DEF IInv
<1>2. /\ hist' = hist /\ line' = line /\ torn' = torn /\ tomb' = tomb /\ disk' = disk
      /\ mem' = mem /\ whole' = whole /\ missed' = missed /\ faults' \in 0 .. MaxFaults
  BY <1>1, Sizes DEF ScanFails, TypeOK
<1>3. run \in Run /\ run.pc = "scan" /\ Working BY <1>1 DEF TypeOK, ScanFails, Working
<1>4. /\ run' \in Run /\ run'.pc = "endjur" /\ run'.todo = run.todo /\ run'.seed = run.seed
      /\ run'.next = run.next /\ run'.at = run.at
  BY <1>3 DEF ScanFails, Run
<1>5. Resume' = Resume /\ (NoHistory' <=> NoHistory) BY <1>2, <1>4 DEF Resume, NoHistory, From
<1>6. TypeOK' BY <1>1, <1>2, <1>4 DEF TypeOK
<1>7. Manifests' BY <1>1, <1>2, <1>4 DEF Manifests
<1>8. Past' BY <1>1, <1>2, <1>4 DEF Past, Now
<1>9. Phases' BY <1>1, <1>2, <1>3, <1>4, <1>5 DEF Phases, Working
<1>10. Scanning' BY <1>1, <1>2, <1>3, <1>4 DEF Scanning, Working
<1>11. TornIsScanned' BY <1>1, <1>2, <1>3, <1>4 DEF TornIsScanned
<1>12. \/ mem.months[Head(run.todo)] = NoMonth
       \/ /\ mem.months[Head(run.todo)] = run.month
          /\ disk.months[Head(run.todo)] = run.month
  BY <1>1, <1>3 DEF Scanning
<1>13. ASSUME NEW d \in Decisions, ToScan(d) PROVE ToScan(d)'
  <2>1. CASE JurOf[d] # Head(run.todo) BY <2>1, <1>2, <1>4, <1>13 DEF ToScan
  <2>2. CASE JurOf[d] = Head(run.todo) /\ mem.months[Head(run.todo)] = NoMonth
    BY <2>2, <1>2, <1>4, Sizes DEF ToScan, NoMonth
  <2>3. CASE JurOf[d] = Head(run.todo) /\ mem.months[Head(run.todo)] = run.month
    BY <2>3, <1>2, <1>3, <1>4, <1>13 DEF ToScan
  <2> QED BY <2>1, <2>2, <2>3, <1>12
<1>14. ~Paging' BY <1>4 DEF Paging
<1>15. \A d \in Decisions : ToScan(d) => ToScan(d)' BY <1>13
<1>16. Covered' /\ Withdrawn' /\ TombsOwed' /\ PageDone'
  BY <1>1, <1>2, <1>5, <1>14, <1>15, QuietStep
<1>17. ASSUME NEW d \in Decisions, Forgotten(d) PROVE Forgotten(d)'
  <2>1. JurOf[d] \in JurSet /\ d \in Nat /\ run.month.cursor \in Nat BY <1>1, Sizes, StateFacts
  <2>2. Head(run.todo) = JurOf[d] /\ disk.months[JurOf[d]].cursor >= d /\ run.month.cursor < d
    BY <1>3, <1>17 DEF Forgotten
  <2>3. disk.months[JurOf[d]].cursor \in Nat BY <1>1, <2>1, StateFacts
  <2>4. mem.months[JurOf[d]] = NoMonth BY <1>12, <2>1, <2>2, <2>3
  <2> QED BY <1>2, <1>4, <1>17, <2>4 DEF Forgotten, NoMonth
<1>18. SavedCovers'
  <2> SUFFICES ASSUME NEW d \in Decisions, Live(d)', ~NoHistory
               PROVE  (Kept(d) \/ Owed(d) \/ Excused(d) \/ Unscanned(d) \/ Forgotten(d))'
    BY <1>5 DEF SavedCovers
  <2>1. Live(d) BY <1>2, Steady
  <2>2. Kept(d) \/ Owed(d) \/ Excused(d) \/ Unscanned(d) \/ Forgotten(d)
    BY <1>1, <1>3, <2>1 DEF SavedCovers
  <2>3. /\ Kept(d) => Kept(d)'
        /\ Owed(d) => Owed(d)'
        /\ Excused(d) => Excused(d)'
        /\ Unscanned(d) => Unscanned(d)'
    BY <1>2, <1>5, Untouched
  <2> QED BY <1>17, <2>2, <2>3
<1> QED BY <1>6, <1>7, <1>8, <1>9, <1>10, <1>11, <1>16, <1>18 DEF IInv

LEMMA EndJurStep == ASSUME IInv, EndJur PROVE IInv'
<1>1. /\ TypeOK /\ Manifests /\ Past /\ Phases /\ Scanning /\ TornIsScanned
      /\ TombsOwed /\ Covered /\ Withdrawn
  BY DEF IInv
<1>2. /\ hist' = hist /\ line' = line /\ torn' = torn /\ tomb' = tomb /\ disk' = mem
      /\ mem' = mem /\ whole' = whole /\ missed' = missed /\ faults' = faults
  BY DEF EndJur
<1>3. run \in Run /\ run.pc = "endjur" /\ Working /\ run.todo # <<>> /\ run.seed # None
  BY <1>1 DEF TypeOK, EndJur, Working, Phases
<1>4. /\ run' \in Run /\ run'.pc = "jur" /\ run'.todo = Tail(run.todo) /\ run'.seed = run.seed
      /\ run'.next = run.next /\ run'.at = run.at
  BY <1>1, <1>3, TodoFacts DEF EndJur, Run
<1>5. disk'.wm = disk.wm /\ disk'.cursor = disk.cursor BY <1>1, <1>2 DEF Manifests
<1>6. Resume' = Resume /\ (NoHistory' <=> NoHistory) BY <1>4, <1>5 DEF Resume, NoHistory, From
<1>7. Resume # None BY <1>3 DEF Resume, From, NoHistory
<1>8. LET j == Head(run.todo) IN
      /\ j \notin torn /\ j \in JurSet
      /\ \A i \in JurSet \ {j} : mem.months[i] = disk.months[i]
  BY <1>1, <1>3, TodoFacts DEF Scanning
<1>9. TypeOK' BY <1>1, <1>2, <1>4 DEF TypeOK
<1>10. Manifests' BY <1>1, <1>2, <1>4 DEF Manifests
<1>11. Past' BY <1>1, <1>2, <1>4, <1>5 DEF Past, Now
<1>12. Phases' BY <1>1, <1>2, <1>4, <1>6 DEF Phases, Working
<1>13. Scanning' /\ SavedCovers' BY <1>4 DEF Scanning, Working, SavedCovers
<1>14. TornIsScanned'
  <2> SUFFICES ASSUME NEW j \in torn, ~mem.months[j].boot
               PROVE  \E k \in DOMAIN Tail(run.todo) : Tail(run.todo)[k] = j
    BY <1>2, <1>4 DEF TornIsScanned
  <2>1. j \in JurSet /\ ~disk.months[j].boot BY <1>1 DEF TypeOK, Manifests
  <2>2. PICK k \in DOMAIN run.todo : run.todo[k] = j BY <1>1, <1>3, <2>1 DEF TornIsScanned
  <2>3. k # 1 BY <1>1, <1>3, <1>8, <2>2, TodoFacts
  <2> QED BY <1>1, <1>3, <2>2, <2>3, TodoFacts
<1>15. ASSUME NEW d \in Decisions
       PROVE  /\ Kept(d) => Kept(d)'
              /\ Owed(d) => Owed(d)'
              /\ Excused(d) => Excused(d)'
              /\ ToScan(d) => ToScan(d)'
  <2>1. LastOp(d)' = LastOp(d) /\ JurOf[d] \in JurSet BY <1>2, Steady, Sizes
  <2>2. Kept(d) => Kept(d)' BY <1>2, <2>1 DEF Kept
  <2>3. Owed(d) => Owed(d)' BY <1>6, <2>1 DEF Owed
  <2>4. Excused(d) => Excused(d)'
    <3>1. JurOf[d] \in torn => disk'.months[JurOf[d]] = disk.months[JurOf[d]]
      BY <1>2, <1>8, <2>1
    <3> QED BY <1>2, <1>6, <1>7, <2>1, <3>1 DEF Excused
  <2>5. ToScan(d) => ToScan(d)' BY <1>2, <1>3, <1>4 DEF ToScan
  <2> QED BY <2>2, <2>3, <2>4, <2>5
<1>16. Covered'
  <2> SUFFICES ASSUME NEW d \in Decisions, Live(d)'
               PROVE  (Kept(d) \/ ToScan(d) \/ Owed(d) \/ Excused(d))'
    BY DEF Covered
  <2>1. Live(d) BY <1>2, Steady
  <2>2. Kept(d) \/ ToScan(d) \/ Owed(d) \/ Excused(d) BY <1>1, <2>1 DEF Covered
  <2> QED BY <1>15, <2>2
<1>17. Withdrawn'
  <2> SUFFICES ASSUME NEW d \in Decisions, ~Live(d)', line[d] # 0
               PROVE  d \in tomb \/ Owed(d)' \/ Excused(d)'
    BY <1>2 DEF Withdrawn
  <2>1. ~Live(d) BY <1>2, Steady
  <2>2. d \in tomb \/ Owed(d) \/ Excused(d) BY <1>1, <2>1 DEF Withdrawn
  <2> QED BY <1>15, <2>2
<1>18. TombsOwed'
  <2> SUFFICES ASSUME NEW d \in tomb, Live(d)' PROVE Owed(d)'
    BY <1>2, <1>4 DEF TombsOwed, Paging
  <2>1. d \in Decisions BY <1>1 DEF TypeOK
  <2>2. Live(d) BY <1>2, <2>1, Steady
  <2> QED BY <1>1, <1>15, <2>1, <2>2 DEF TombsOwed
<1>19. PageDone' BY <1>4 DEF PageDone, Paging
<1> QED BY <1>9, <1>10, <1>11, <1>12, <1>13, <1>14, <1>16, <1>17, <1>18, <1>19 DEF IInv

LEMMA BeginStep == ASSUME IInv, Begin PROVE IInv'
<1>1. /\ TypeOK /\ Manifests /\ Past /\ Phases /\ Scanning /\ TornIsScanned
      /\ TombsOwed /\ Covered /\ Withdrawn
  BY DEF IInv
<1>2. PICK j : j = Head(run.todo) OBVIOUS
<1>3. run.pc = "jur" /\ mem = disk /\ run.todo # <<>> /\ ~MonthOf(j).boot /\ run \in Run
  BY <1>1, <1>2 DEF Begin, Manifests, TypeOK
<1>4. PICK date \in Seeds :
        run' = [run EXCEPT !.pc = "scan", !.seed = date,
                           !.month = IF Drop(j) THEN Fresh ELSE MonthOf(j)]
  BY <1>2 DEF Begin
<1>5. /\ hist' = hist /\ tomb' = tomb /\ disk' = disk /\ whole' = whole /\ faults' = faults
      /\ torn' = torn \ {j} /\ mem' = [mem EXCEPT !.months[j] = NoMonth]
      /\ line' = [d \in Decisions |-> IF Drop(j) /\ JurOf[d] = j THEN 0 ELSE line[d]]
      /\ missed' = [d \in Decisions |-> IF run.seed = None /\ NoHistory /\ Behind(d)
                                        THEN LastOp(d) ELSE missed[d]]
  BY <1>2 DEF Begin
<1>6. j \in JurSet /\ run.seed \in Positions \cup {None}
  BY <1>1, <1>2, <1>3, TodoFacts DEF Run
<1>7. date \in Positions /\ date <= Now /\ date # None
      /\ (run.seed # None => date = run.seed)
  <2>1. CASE run.seed = None BY <1>1, <2>1, DateFacts DEF Seeds
  <2>2. CASE run.seed # None BY <1>1, <1>6, <2>2 DEF Seeds, Past
  <2> QED BY <2>1, <2>2
(* What the month is taken for.                                            *)
<1>8. disk.months[j] \in Month /\ ~disk.months[j].boot
      /\ disk.months[j].cursor \in Nat
      /\ (disk.months[j].here => MonthOf(j) = disk.months[j])
      /\ (~disk.months[j].here => Drop(j) /\ MonthOf(j) = Fresh)
  <2>1. disk.months[j] \in Month /\ disk.months[j].cursor \in Nat BY <1>1, <1>6, StateFacts
  <2>2. disk.months[j].here => MonthOf(j) = disk.months[j] BY <1>3 DEF MonthOf
  <2>3. ~disk.months[j].here => Drop(j) /\ MonthOf(j) = Fresh
    BY <1>3 DEF MonthOf, Drop, Fresh, NoMonth
  <2>4. ~disk.months[j].boot BY <1>1, <1>3, <1>6, <2>2 DEF Manifests, NoMonth
  <2> QED BY <2>1, <2>2, <2>3, <2>4
<1>9. PICK month \in Month :
        /\ month = IF Drop(j) THEN Fresh ELSE MonthOf(j)
        /\ ~month.boot
        /\ Drop(j) => month.cursor = 0
        /\ ~Drop(j) => month = disk.months[j] /\ j \notin torn
        /\ month.cursor \in Nat
  <2>1. Fresh \in Month /\ ~Fresh.boot /\ Fresh.cursor = 0 BY DEF Fresh, NoMonth, Month
  <2>2. ~Drop(j) => j \notin torn BY DEF Drop
  <2> QED BY <1>8, <2>1, <2>2
<1>10. /\ run' \in Run /\ run'.pc = "scan" /\ run'.seed = date /\ run'.month = month
       /\ run'.todo = run.todo /\ run'.next = run.next /\ run'.at = run.at
  BY <1>3, <1>4, <1>7, <1>9 DEF Run
<1>11. /\ mem' \in Manifest /\ mem'.wm = disk.wm /\ mem'.cursor = disk.cursor
       /\ mem'.months[j] = NoMonth
       /\ \A i \in JurSet : i # j => mem'.months[i] = disk.months[i]
  <2>1. mem \in Manifest /\ NoMonth \in Month BY <1>1 DEF TypeOK, NoMonth, Month
  <2> QED BY <1>3, <1>5, <1>6, <2>1 DEF Manifest
<1>12. (NoHistory' <=> NoHistory) /\ (run.seed # None \/ ~NoHistory => Resume' = Resume)
       /\ (NoHistory => Resume' = date)
  BY <1>5, <1>7, <1>10 DEF NoHistory, Resume, From
<1>13. ASSUME NEW d \in Decisions
       PROVE  /\ LastOp(d)' = LastOp(d)
              /\ (Live(d)' <=> Live(d))
              /\ JurOf[d] \in JurSet
              /\ d \in Nat /\ d > 0
              /\ LastOp(d) \in Positions
  <2>1. LastOp(d) \in Positions BY <1>1, LastFacts, HistFacts, Sizes DEF Positions
  <2> QED BY <1>5, <2>1, Steady, Sizes
<1>14. TypeOK'
  <2>1. missed' \in [Decisions -> Positions] BY <1>1, <1>5, <1>13 DEF TypeOK
  <2>2. line' \in [Decisions -> Positions] BY <1>1, <1>5, Sizes DEF TypeOK, Positions
  <2> QED BY <1>1, <1>5, <1>10, <1>11, <2>1, <2>2 DEF TypeOK
<1>15. Manifests'
  BY <1>1, <1>5, <1>8, <1>10, <1>11 DEF Manifests, NoMonth
<1>16. Past' BY <1>1, <1>5, <1>7, <1>10 DEF Past, Now
<1>17. Phases' BY <1>1, <1>3, <1>5, <1>7, <1>10, <1>12 DEF Phases, Working
<1>18. Scanning' BY <1>2, <1>5, <1>8, <1>9, <1>10, <1>11 DEF Scanning, Working
<1>19. TornIsScanned' BY <1>1, <1>3, <1>5, <1>10 DEF TornIsScanned
(* What was said of a decision before the scan still is, or the scan is to      *)
(* reach it.                                                               *)
<1>20. ASSUME NEW d \in Decisions, Resume' = Resume, ~(run.seed = None /\ NoHistory),
              ~(Drop(j) /\ JurOf[d] = j)
       PROVE  /\ Kept(d) => Kept(d)'
              /\ Owed(d) => Owed(d)'
              /\ Excused(d) => Excused(d)'
              /\ ToScan(d) => ToScan(d)'
              /\ Unscanned(d) => Unscanned(d)'
              /\ line'[d] = line[d]
  <2>1. line'[d] = line[d] /\ missed'[d] = missed[d] BY <1>5, <1>20
  <2>2. JurOf[d] \in torn' <=> JurOf[d] \in torn BY <1>5, <1>9, <1>20
  <2>3. Kept(d) => Kept(d)' BY <1>5, <1>13, <2>1, <2>2 DEF Kept
  <2>4. Owed(d) => Owed(d)' BY <1>13, <1>20 DEF Owed
  <2>5. Resume # None BY <1>7, <1>20 DEF Resume, NoHistory, From
  <2>6. Excused(d) => Excused(d)' BY <1>5, <1>13, <1>20, <2>1, <2>2, <2>5 DEF Excused
  <2>7. ToScan(d) => ToScan(d)'
    <3>1. CASE JurOf[d] = j
      BY <1>2, <1>3, <1>9, <1>10, <1>20, <2>2, <3>1 DEF ToScan
    <3>2. CASE JurOf[d] # j
      BY <1>2, <1>3, <1>10, <1>11, <1>13, <2>2, <3>2 DEF ToScan
    <3> QED BY <3>1, <3>2
  <2>8. Unscanned(d) => Unscanned(d)' BY <1>5, <2>2 DEF Unscanned
  <2> QED BY <2>1, <2>3, <2>4, <2>6, <2>7, <2>8
<1>21. ASSUME NEW d \in Decisions, Drop(j), JurOf[d] = j
       PROVE  ToScan(d)' /\ line'[d] = 0
  BY <1>2, <1>5, <1>9, <1>10, <1>13, <1>21 DEF ToScan
(* A seed taken anew: what the scans are past is missed.                      *)
<1>22. ASSUME NEW d \in Decisions, run.seed = None, NoHistory
       PROVE  (Behind(d) => Excused(d)') /\ (~Behind(d) => ToScan(d)')
  <2>1. Behind(d) => Excused(d)' BY <1>5, <1>13, <1>22 DEF Excused
  <2>2. ASSUME ~Behind(d) PROVE ToScan(d)'
    <3>1. ~disk.months[JurOf[d]].boot /\ ~(disk.months[JurOf[d]].cursor >= d)
      BY <2>2 DEF Behind
    <3>2. disk.months[JurOf[d]].cursor \in Nat BY <1>1, <1>13, StateFacts
    <3>3. disk.months[JurOf[d]].cursor < d BY <1>13, <3>1, <3>2
    <3>4. CASE JurOf[d] = j
      BY <1>2, <1>9, <1>10, <1>13, <3>3, <3>4 DEF ToScan
    <3>5. CASE JurOf[d] # j
      BY <1>2, <1>10, <1>11, <1>13, <3>1, <3>3, <3>5 DEF ToScan
    <3> QED BY <3>4, <3>5
  <2> QED BY <2>1, <2>2
<1>23. Covered'
  <2> SUFFICES ASSUME NEW d \in Decisions, Live(d)'
               PROVE  (Kept(d) \/ ToScan(d) \/ Owed(d) \/ Excused(d))'
    BY DEF Covered
  <2>1. CASE run.seed = None /\ NoHistory BY <2>1, <1>22
  <2>2. CASE Drop(j) /\ JurOf[d] = j BY <2>2, <1>21
  <2>3. CASE ~(run.seed = None /\ NoHistory) /\ ~(Drop(j) /\ JurOf[d] = j)
    <3>1. Kept(d) \/ ToScan(d) \/ Owed(d) \/ Excused(d) BY <1>1, <1>13 DEF Covered
    <3> QED BY <2>3, <3>1, <1>12, <1>20
  <2> QED BY <2>1, <2>2, <2>3
<1>24. Withdrawn'
  <2> SUFFICES ASSUME NEW d \in Decisions, ~Live(d)', line'[d] # 0
               PROVE  d \in tomb \/ Owed(d)' \/ Excused(d)'
    BY <1>5 DEF Withdrawn
  <2>1. ~(Drop(j) /\ JurOf[d] = j) BY <1>21
  <2>2. ~Live(d) /\ line[d] # 0 BY <1>5, <1>13, <2>1
  <2>3. CASE run.seed = None /\ NoHistory BY <2>2, <2>3, <1>22 DEF Behind
  <2>4. CASE ~(run.seed = None /\ NoHistory)
    <3>1. d \in tomb \/ Owed(d) \/ Excused(d) BY <1>1, <2>2 DEF Withdrawn
    <3> QED BY <2>1, <2>4, <3>1, <1>12, <1>20
  <2> QED BY <2>3, <2>4
<1>25. TombsOwed'
  <2> SUFFICES ASSUME NEW d \in tomb, Live(d)' PROVE Owed(d)'
    BY <1>5, <1>10 DEF TombsOwed, Paging
  <2>1. d \in Decisions BY <1>1 DEF TypeOK
  <2>2. Live(d) BY <1>13, <2>1
  <2>3. Owed(d) /\ ~NoHistory BY <1>1, <2>2 DEF TombsOwed, Phases
  <2> QED BY <1>12, <1>13, <2>1, <2>3 DEF Owed
<1>26. PageDone' BY <1>10 DEF PageDone, Paging
<1>27. SavedCovers'
  <2> SUFFICES ASSUME NEW d \in Decisions, Live(d)', ~NoHistory
               PROVE  (Kept(d) \/ Owed(d) \/ Excused(d) \/ Unscanned(d) \/ Forgotten(d))'
    BY <1>12 DEF SavedCovers
  <2>1. CASE Drop(j) /\ JurOf[d] = j
    <3>1. Unscanned(d)' <=> disk.months[j].cursor < d BY <1>5, <1>8, <2>1 DEF Unscanned
    <3>2. Forgotten(d)' <=> disk.months[j].cursor >= d
      BY <1>2, <1>5, <1>9, <1>10, <1>13, <1>21, <2>1 DEF Forgotten
    <3> QED BY <1>8, <1>13, <3>1, <3>2
  <2>2. CASE ~(Drop(j) /\ JurOf[d] = j)
    <3>1. Kept(d) \/ ToScan(d) \/ Owed(d) \/ Excused(d) BY <1>1, <1>13 DEF Covered
    <3>2. ToScan(d) => Unscanned(d) BY <1>3 DEF ToScan, Unscanned
    <3> QED BY <2>2, <3>1, <3>2, <1>12, <1>20
  <2> QED BY <2>1, <2>2
<1> QED BY <1>14, <1>15, <1>16, <1>17, <1>18, <1>19, <1>23, <1>24, <1>25, <1>26, <1>27 DEF IInv

(* A page holds the first of the decisions ahead.                            *)
LEMMA PageFacts ==
  ASSUME TypeOK, NEW j
  PROVE  /\ PageOf(j) \subseteq Ahead(j)
         /\ PageOf(j) # Ahead(j) =>
              /\ Max(PageOf(j)) \in PageOf(j)
              /\ \A d \in PageOf(j) : d <= Max(PageOf(j))
              /\ \A d \in Ahead(j) \ PageOf(j) : Max(PageOf(j)) < d
<1> DEFINE Before(d) == {e \in Ahead(j) : e < d}
<1>1. IsFiniteSet(Decisions) /\ Ahead(j) \subseteq Decisions /\ Decisions \subseteq Nat
  BY FeedAssumption DEF Ahead
<1>2. IsFiniteSet(Ahead(j)) BY <1>1, FS_Subset
<1>3. \A d \in Ahead(j) : IsFiniteSet(Before(d)) /\ Cardinality(Before(d)) \in Nat
  BY <1>2, FS_Subset, FS_CardinalityType
<1>4. PageOf(j) = {d \in Ahead(j) : Cardinality(Before(d)) < ScanSize} BY DEF PageOf
<1>5. PageOf(j) \subseteq Ahead(j) BY <1>4
<1>6. ASSUME NEW d \in PageOf(j), NEW e \in Ahead(j), e < d PROVE e \in PageOf(j)
  <2>1. d \in Nat /\ e \in Nat /\ d \in Ahead(j) BY <1>1, <1>5
  <2>2. \A x \in Nat : x < e => x < d BY <2>1, <1>6
  <2>3. Before(e) \subseteq Before(d)
    <3>1. Ahead(j) \subseteq Nat BY <1>1
    <3> QED BY <2>2, <3>1
  <2>4. Cardinality(Before(e)) <= Cardinality(Before(d))
    <3> HIDE DEF Before
    <3> QED BY <1>3, <2>1, <2>3, FS_Subset
  <2>5. Cardinality(Before(d)) < ScanSize BY <1>4
  <2> HIDE DEF Before
  <2> QED BY <1>3, <1>4, <2>1, <2>4, <2>5, Sizes
<1>7. Ahead(j) # {} => PageOf(j) # {}
  <2>1. SUFFICES ASSUME Ahead(j) # {} PROVE PageOf(j) # {} OBVIOUS
  <2>2. Ahead(j) \subseteq Nat BY <1>1
  <2>3. PICK x \in Ahead(j) : \A y \in Ahead(j) : x <= y BY <2>1, <2>2, LeastNat
  <2>4. Before(x) = {} BY <2>2, <2>3
  <2>5. Cardinality(Before(x)) = 0 BY <2>4, FS_EmptySet
  <2> QED BY <1>4, <2>5, Sizes
<1>8. ASSUME PageOf(j) # Ahead(j)
      PROVE  /\ Max(PageOf(j)) \in PageOf(j)
             /\ \A d \in PageOf(j) : d <= Max(PageOf(j))
             /\ \A d \in Ahead(j) \ PageOf(j) : Max(PageOf(j)) < d
  <2>1. PageOf(j) # {} BY <1>5, <1>7, <1>8
  <2>2. IsFiniteSet(PageOf(j)) BY <1>2, <1>5, FS_Subset
  <2>3. PageOf(j) \subseteq Int
    <3>1. PageOf(j) \subseteq Nat BY <1>1, <1>5
    <3> QED BY <3>1
  <2>4. Max(PageOf(j)) \in PageOf(j) /\ \A d \in PageOf(j) : d <= Max(PageOf(j))
    BY <2>1, <2>2, <2>3, MaxFacts
  <2>5. PICK x \in PageOf(j) : x = Max(PageOf(j)) BY <2>4
  <2>6. ASSUME NEW d \in Ahead(j) \ PageOf(j) PROVE x < d
    <3>1. ~(d < x) BY <1>6, <2>6
    <3>2. d \in Nat /\ x \in Nat /\ d # x BY <1>1, <1>5, <2>6
    <3> QED BY <3>1, <3>2
  <2> QED BY <2>4, <2>5, <2>6
<1> QED BY <1>5, <1>8

LEMMA ScanStep == ASSUME IInv, Scan PROVE IInv'
<1>1. /\ TypeOK /\ Manifests /\ Past /\ Phases /\ Scanning /\ TornIsScanned
      /\ TombsOwed /\ Covered /\ Withdrawn
  BY DEF IInv
<1>2. PICK j : j = Head(run.todo) OBVIOUS
<1>3. PICK last \in BOOLEAN : last <=> PageOf(j) = Ahead(j) OBVIOUS
<1>4. /\ run.pc = "scan" /\ Working /\ run.todo # <<>> /\ run.seed # None /\ run \in Run
      /\ j \in JurSet /\ disk \in Manifest /\ mem \in Manifest
  BY <1>1, <1>2, TodoFacts DEF Scan, Working, Phases, TypeOK
<1>5. \A d \in Decisions : /\ JurOf[d] \in JurSet
                           /\ d \in Nat /\ d > 0
                           /\ LastOp(d) \in Positions
                           /\ (Live(d) => LastOp(d) > 0)
  <2>1. \A d \in Decisions : LastOp(d) \in Positions /\ (Live(d) => LastOp(d) > 0)
    BY <1>1, LastFacts, HistFacts, Sizes DEF Positions
  <2> QED BY <2>1, Sizes
<1>6. PICK m \in Month :
        /\ m = [here |-> TRUE, boot |-> FALSE, cursor |-> IF last THEN 0 ELSE Max(PageOf(j)),
                got |-> run.month.got \/ PageOf(j) # {}]
        /\ m.here /\ ~m.boot
        /\ m.cursor = (IF last THEN 0 ELSE Max(PageOf(j)))
        /\ m.cursor \in Nat
  <2>1. ~last => Max(PageOf(j)) \in Decisions BY <1>1, <1>3, PageFacts DEF Ahead
  <2>2. PICK c \in Decisions \cup {0} : c = IF last THEN 0 ELSE Max(PageOf(j)) BY <2>1
  <2>3. PICK g \in BOOLEAN : g = (run.month.got \/ PageOf(j) # {}) OBVIOUS
  <2>4. [here |-> TRUE, boot |-> FALSE, cursor |-> c, got |-> g] \in Month BY DEF Month
  <2>5. c \in Nat BY Sizes
  <2> QED BY <2>2, <2>3, <2>4, <2>5
<1>7. PICK n \in Month : /\ n = [m EXCEPT !.boot = last]
                         /\ n.here
                         /\ (n.boot <=> last)
                         /\ n.cursor = m.cursor
  <2>1. [m EXCEPT !.boot = last] \in Month BY <1>6 DEF Month
  <2> QED BY <2>1, <1>6 DEF Month
<1>8. /\ hist' = hist /\ torn' = torn /\ tomb' = tomb /\ missed' = missed /\ faults' = faults
      /\ line' = Appended(j)
      /\ disk' = [mem EXCEPT !.months[j] = m]
      /\ mem' = [mem EXCEPT !.months[j] = n]
      /\ run' = [run EXCEPT !.month = m, !.pc = IF last THEN "endjur" ELSE "scan"]
      /\ whole' = IF last THEN whole \cup {j} ELSE whole
  BY <1>2, <1>3, <1>6, <1>7 DEF Scan
<1>9. /\ disk' \in Manifest /\ mem' \in Manifest
      /\ disk'.months[j] = m /\ mem'.months[j] = n
      /\ \A i \in JurSet : i # j => disk'.months[i] = mem.months[i] /\ mem'.months[i] = mem.months[i]
      /\ disk'.wm = mem.wm /\ disk'.cursor = mem.cursor
      /\ mem'.wm = mem.wm /\ mem'.cursor = mem.cursor
  BY <1>4, <1>8 DEF Manifest
<1>10. /\ run' \in Run /\ run'.pc = (IF last THEN "endjur" ELSE "scan") /\ run'.month = m
       /\ run'.todo = run.todo /\ run'.seed = run.seed /\ run'.next = run.next
       /\ run'.at = run.at
  BY <1>4, <1>8 DEF Run
<1>11. /\ j \notin torn /\ ~disk.months[j].boot
       /\ \A i \in JurSet : i # j => mem.months[i] = disk.months[i]
       /\ ~run.month.boot
  BY <1>1, <1>2, <1>4 DEF Scanning
<1>12. disk'.wm = disk.wm /\ disk'.cursor = disk.cursor BY <1>1, <1>9 DEF Manifests
<1>13. Resume' = Resume /\ (NoHistory' <=> NoHistory) BY <1>10, <1>12 DEF Resume, NoHistory, From
<1>14. Resume # None BY <1>4 DEF Resume, From, NoHistory
<1>15. PageOf(j) \subseteq Ahead(j) /\ Ahead(j) \subseteq Decisions BY <1>1, PageFacts DEF Ahead
<1>16. TypeOK'
  <2>1. line' \in [Decisions -> Positions] BY <1>1, <1>5, <1>8 DEF TypeOK, Appended
  <2>2. whole' \subseteq JurSet BY <1>1, <1>4, <1>8 DEF TypeOK
  <2> QED BY <1>1, <1>8, <1>9, <1>10, <2>1, <2>2 DEF TypeOK
<1>17. Manifests'
  <2>1. run'.pc \notin {"idle", "jur", "page", "fetch"} BY <1>10
  <2>2. mem'.wm = disk'.wm /\ mem'.cursor = disk'.cursor BY <1>9
  <2>3. ASSUME NEW i \in JurSet
        PROVE  /\ ~disk'.months[i].here => disk'.months[i] = NoMonth
               /\ ~mem'.months[i].here => mem'.months[i] = NoMonth
               /\ disk'.months[i].boot => mem'.months[i].boot
    <3>1. CASE i = j BY <3>1, <1>6, <1>7, <1>9
    <3>2. CASE i # j BY <3>2, <1>1, <1>9 DEF Manifests
    <3> QED BY <3>1, <3>2
  <2> QED BY <2>1, <2>2, <2>3 DEF Manifests
<1>18. Past' BY <1>1, <1>8, <1>10, <1>12 DEF Past, Now
<1>19. Phases' BY <1>1, <1>4, <1>8, <1>10, <1>13 DEF Phases, Working
<1>20. Scanning'
  <2>1. ~last => n = m BY <1>6, <1>7 DEF Month
  <2>2. \A i \in JurSet \ {j} : mem'.months[i] = disk'.months[i] BY <1>9
  <2>3. Head(run'.todo) = j BY <1>2, <1>10
  <2>4. j \notin torn' /\ ~disk'.months[j].boot BY <1>6, <1>8, <1>9, <1>11
  <2>5. run'.pc = "scan" => ~run'.month.boot /\ mem'.months[j] = run'.month
                            /\ disk'.months[j] = run'.month
    BY <1>6, <1>9, <1>10, <2>1
  <2> QED BY <2>2, <2>3, <2>4, <2>5 DEF Scanning, Working
<1>21. TornIsScanned'
  <2>1. \A i \in torn : disk'.months[i] = disk.months[i] BY <1>1, <1>9, <1>11 DEF TypeOK
  <2> QED BY <1>1, <1>4, <1>8, <1>10, <2>1 DEF TornIsScanned
<1>22. ASSUME NEW d \in Decisions
       PROVE  /\ LastOp(d)' = LastOp(d)
              /\ (Live(d)' <=> Live(d))
              /\ Owed(d) => Owed(d)'
              /\ Excused(d) => Excused(d)'
              /\ (d \notin PageOf(j) => line'[d] = line[d])
              /\ (d \notin PageOf(j) /\ Kept(d) => Kept(d)')
              /\ (d \in PageOf(j) => line'[d] = LastOp(d) /\ JurOf[d] = j /\ Live(d))
  <2>1. LastOp(d)' = LastOp(d) /\ (Live(d)' <=> Live(d)) BY <1>8, Steady
  <2>2. Owed(d) => Owed(d)' BY <1>13, <2>1 DEF Owed
  <2>3. JurOf[d] \in torn => disk'.months[JurOf[d]] = disk.months[JurOf[d]]
    BY <1>5, <1>9, <1>11
  <2>4. Excused(d) => Excused(d)' BY <1>8, <1>13, <1>14, <2>1, <2>3 DEF Excused
  <2>5. line'[d] = IF d \in PageOf(j) THEN LastOp(d) ELSE line[d] BY <1>8 DEF Appended
  <2>6. d \notin PageOf(j) /\ Kept(d) => Kept(d)' BY <1>8, <2>1, <2>5 DEF Kept
  <2>7. d \in PageOf(j) => JurOf[d] = j /\ Live(d) BY <1>15 DEF Ahead
  <2> QED BY <2>1, <2>2, <2>4, <2>5, <2>6, <2>7
(* A decision of the page is in the file, unless its tombstone is to be lifted. *)
<1>23. ASSUME NEW d \in PageOf(j) PROVE Kept(d)' \/ Owed(d)'
  <2>1. d \in Decisions BY <1>15
  <2>2. line'[d] = LastOp(d) /\ JurOf[d] = j /\ Live(d) /\ LastOp(d)' = LastOp(d)
    BY <2>1, <1>22
  <2>3. CASE d \in tomb BY <1>1, <1>22, <2>1, <2>2, <2>3 DEF TombsOwed
  <2>4. CASE d \notin tomb BY <1>8, <1>11, <2>2, <2>4 DEF Kept
  <2> QED BY <2>3, <2>4
<1>24. ASSUME NEW d \in Decisions, Live(d), d \notin PageOf(j), ~(Kept(d) \/ Owed(d) \/ Excused(d))
       PROVE  /\ ToScan(d)'
              /\ JurOf[d] = j => ~last /\ m.cursor < d
  <2>1. ToScan(d) BY <1>1, <1>24 DEF Covered
  <2>2. CASE JurOf[d] = j
    <3>1. run.month.cursor < d BY <1>2, <1>4, <1>11, <2>1, <2>2 DEF ToScan
    <3>2. run.month.cursor \in Nat /\ d \in Nat BY <1>1, <1>5, StateFacts
    <3>3. d \in Ahead(j) BY <1>24, <2>2, <3>1, <3>2 DEF Ahead
    <3>4. ~last /\ Max(PageOf(j)) < d BY <1>1, <1>3, <1>24, <3>3, PageFacts
    <3>5. m.cursor < d BY <1>6, <3>4
    <3> QED BY <1>2, <1>6, <1>10, <2>2, <3>4, <3>5 DEF ToScan
  <2>3. CASE JurOf[d] # j BY <1>2, <1>5, <1>8, <1>9, <1>10, <2>1, <2>3 DEF ToScan
  <2> QED BY <2>2, <2>3
<1>25. Covered'
  <2> SUFFICES ASSUME NEW d \in Decisions, Live(d)'
               PROVE  (Kept(d) \/ ToScan(d) \/ Owed(d) \/ Excused(d))'
    BY DEF Covered
  <2>1. Live(d) BY <1>22
  <2>2. CASE d \in PageOf(j) BY <2>2, <1>23
  <2>3. CASE d \notin PageOf(j) BY <2>1, <2>3, <1>22, <1>24
  <2> QED BY <2>2, <2>3
<1>26. Withdrawn'
  <2> SUFFICES ASSUME NEW d \in Decisions, ~Live(d)', line'[d] # 0
               PROVE  d \in tomb \/ Owed(d)' \/ Excused(d)'
    BY <1>8 DEF Withdrawn
  <2>1. ~Live(d) /\ line[d] # 0 BY <1>22
  <2>2. d \in tomb \/ Owed(d) \/ Excused(d) BY <1>1, <2>1 DEF Withdrawn
  <2> QED BY <1>22, <2>2
<1>27. TombsOwed'
  <2> SUFFICES ASSUME NEW d \in tomb, Live(d)' PROVE Owed(d)'
    BY <1>8, <1>10 DEF TombsOwed, Paging
  <2>1. d \in Decisions BY <1>1 DEF TypeOK
  <2> QED BY <1>1, <1>22, <2>1 DEF TombsOwed
<1>28. PageDone' BY <1>10 DEF PageDone, Paging
<1>29. SavedCovers'
  <2> SUFFICES ASSUME NEW d \in Decisions, Live(d)', ~NoHistory
               PROVE  (Kept(d) \/ Owed(d) \/ Excused(d) \/ Unscanned(d) \/ Forgotten(d))'
    BY <1>13 DEF SavedCovers
  <2>1. Live(d) BY <1>22
  <2>2. CASE d \in PageOf(j) BY <2>2, <1>23
  <2>3. CASE d \notin PageOf(j) /\ ~(Kept(d) \/ Owed(d) \/ Excused(d)) /\ JurOf[d] = j
    BY <2>1, <2>3, <1>6, <1>9, <1>24 DEF Unscanned
  <2>4. CASE d \notin PageOf(j) /\ ~(Kept(d) \/ Owed(d) \/ Excused(d)) /\ JurOf[d] # j
    <3>1. ToScan(d) BY <1>1, <2>1, <2>4 DEF Covered
    <3> QED BY <1>2, <1>5, <1>8, <1>9, <2>4, <3>1 DEF ToScan, Unscanned
  <2>5. CASE d \notin PageOf(j) /\ (Kept(d) \/ Owed(d) \/ Excused(d)) BY <2>5, <1>22
  <2> QED BY <2>2, <2>3, <2>4, <2>5
<1> QED BY <1>16, <1>17, <1>18, <1>19, <1>20, <1>21, <1>25, <1>26, <1>27, <1>28, <1>29 DEF IInv
-----------------------------------------------------------------------------
(* The history.                                                            *)
LEMMA OpsFacts ==
  ASSUME TypeOK
  PROVE  /\ Now \in Nat /\ run.from \in Nat
         /\ \A i : i \in Ops <=> i \in 1 .. Now /\ run.from < i /\ i <= run.from + PageSize
         /\ \A i \in Ops : i \in Nat /\ hist[i].id \in Decisions
BY HistFacts, StateFacts DEF Ops

LEMMA LastByFacts ==
  ASSUME TypeOK, NEW d \in Decisions, NEW n \in Nat, \E i \in Ops : i <= n /\ hist[i].id = d
  PROVE  /\ LastBy(d, n) \in Ops /\ LastBy(d, n) <= n /\ hist[LastBy(d, n)].id = d
         /\ \A i \in Ops : i <= n /\ hist[i].id = d => i <= LastBy(d, n)
         /\ LastBy(d, n) <= LastOp(d) /\ LastBy(d, n) \in Positions
<1> DEFINE S == {i \in Ops : i <= n /\ hist[i].id = d}
<1>1. S \subseteq 1 .. Now /\ S # {} BY OpsFacts
<1>2. IsFiniteSet(1 .. Now) BY HistFacts, FS_Interval
<1>3. IsFiniteSet(S) BY <1>1, <1>2, FS_Subset
<1>4. S \subseteq Int BY <1>1, HistFacts
<1>5. Max(S) \in S /\ \A i \in S : i <= Max(S)
  <2> HIDE DEF S
  <2> QED BY <1>1, <1>3, <1>4, MaxFacts
<1>6. LastBy(d, n) = Max(S) BY DEF LastBy
<1>7. LastBy(d, n) \in S /\ \A i \in S : i <= LastBy(d, n) BY <1>5, <1>6
<1>8. LastBy(d, n) \in OpsOf(d) BY <1>7, OpsFacts, HistFacts DEF OpsOf
<1>9. LastBy(d, n) <= LastOp(d) BY <1>8, LastFacts
<1>10. LastBy(d, n) \in Positions BY <1>1, <1>7, HistFacts, Sizes DEF Positions
<1> QED BY <1>7, <1>9, <1>10

(* The tombstones of the first transactions of a page.                        *)
LEMMA TombFacts ==
  ASSUME TypeOK, NEW n \in Nat
  PROVE  /\ TombsAfter(n) \subseteq Decisions
         /\ \A d \in Decisions :
               (\E i \in Ops : i <= n /\ hist[i].id = d) =>
                 /\ (d \in TombsAfter(n) <=> ~hist[LastBy(d, n)].put)
                 /\ LastOp(d) > run.from
         /\ \A d \in Decisions :
               ~(\E i \in Ops : i <= n /\ hist[i].id = d) => (d \in TombsAfter(n) <=> d \in tomb)
<1>1. tomb \subseteq Decisions BY DEF TypeOK
<1>2. Told \subseteq Decisions BY OpsFacts DEF Told
<1>3. \A d : d \in TombsAfter(n) <=>
        IF d \in Told /\ \E i \in Ops : i <= n /\ hist[i].id = d
        THEN ~hist[LastBy(d, n)].put ELSE d \in tomb
  BY DEF TombsAfter, Marked
<1>4. ASSUME NEW d \in Decisions, NEW i \in Ops, i <= n, hist[i].id = d
      PROVE  d \in Told /\ LastOp(d) > run.from
  <2>1. i \in OpsOf(d) BY <1>4, OpsFacts, HistFacts DEF OpsOf
  <2>2. i <= LastOp(d) /\ LastOp(d) \in Nat BY <2>1, LastFacts, HistFacts
  <2>3. i > run.from /\ i \in Nat /\ run.from \in Nat BY OpsFacts
  <2>4. d \in Told BY <1>4 DEF Told
  <2> QED BY <2>2, <2>3, <2>4
<1> QED BY <1>1, <1>2, <1>3, <1>4

LEMMA PageEmptyStep == ASSUME IInv, PageEmpty PROVE IInv'
<1>1. /\ TypeOK /\ Manifests /\ Past /\ Phases /\ Scanning /\ TornIsScanned
      /\ TombsOwed /\ Covered /\ Withdrawn
  BY DEF IInv
<1>2. PICK date \in Dates : mem' = [mem EXCEPT !.wm = date] BY DEF PageEmpty
<1>3. /\ run.pc = "page" /\ Ops = {} /\ mem = disk /\ ~NoHistory /\ run.from = From(disk)
      /\ mem \in Manifest /\ disk \in Manifest
  BY <1>1 DEF PageEmpty, Manifests, Phases, TypeOK
<1>4. /\ hist' = hist /\ line' = line /\ torn' = torn /\ tomb' = tomb /\ disk' = mem'
      /\ run' = NoRun /\ whole' = whole /\ missed' = missed /\ faults' = faults
  BY DEF PageEmpty
<1>5. date \in Positions /\ date <= Now /\ date # None BY <1>1, <1>2, DateFacts
<1>6. /\ mem' \in Manifest /\ mem'.months = disk.months /\ mem'.wm = date
      /\ mem'.cursor = disk.cursor
  BY <1>2, <1>3, <1>5 DEF Manifest
<1>7. /\ run'.pc = "idle" /\ run'.seed = None /\ run'.next = None /\ run'.at = 0 /\ run' \in Run
  BY <1>4, NoRunType DEF NoRun
<1>8. Resume = run.from /\ Resume # None /\ ~NoHistory' /\ Resume' # None
  BY <1>3, <1>4, <1>5, <1>6 DEF Resume, NoHistory, From
<1>9. Now <= run.from
  <2>1. run.from + 1 \notin Ops BY <1>3
  <2>2. Now \in Nat /\ run.from \in Nat /\ PageSize >= 1 /\ PageSize \in Nat
    BY <1>1, OpsFacts, Sizes
  <2>3. ~(run.from + 1 \in 1 .. Now) BY <1>1, <2>1, <2>2, OpsFacts
  <2> QED BY <2>2, <2>3
<1>10. ASSUME NEW d \in Decisions
       PROVE  /\ LastOp(d)' = LastOp(d)
              /\ (Live(d)' <=> Live(d))
              /\ ~Owed(d)
              /\ (Kept(d) => Kept(d)')
              /\ (Excused(d) => Excused(d)')
              /\ (ToScan(d) => ToScan(d)')
  <2>1. LastOp(d)' = LastOp(d) /\ (Live(d)' <=> Live(d)) BY <1>4, Steady
  <2>2. LastOp(d) \in 0 .. Now /\ Now \in Nat /\ run.from \in Nat BY <1>1, LastFacts, OpsFacts
  <2>3. ~Owed(d) BY <1>8, <1>9, <2>2 DEF Owed
  <2>4. Kept(d) => Kept(d)' BY <1>4, <2>1 DEF Kept
  <2>5. Excused(d) => Excused(d)' BY <1>4, <1>6, <1>8, <2>1 DEF Excused
  <2>6. ToScan(d) => ToScan(d)' BY <1>3, <1>4, <1>6, <1>7 DEF ToScan
  <2> QED BY <2>1, <2>3, <2>4, <2>5, <2>6
<1>11. TypeOK' BY <1>1, <1>4, <1>6, <1>7 DEF TypeOK
<1>12. Manifests'
  BY <1>1, <1>3, <1>4, <1>6 DEF Manifests
<1>13. Past' BY <1>1, <1>4, <1>5, <1>6, <1>7, HistFacts DEF Past, Now, None
<1>14. Phases' BY <1>4, <1>7, <1>8 DEF Phases, Working
<1>15. Scanning' /\ TornIsScanned' /\ SavedCovers' /\ PageDone'
  BY <1>7 DEF Scanning, Working, TornIsScanned, SavedCovers, PageDone, Paging
<1>16. Covered'
  <2> SUFFICES ASSUME NEW d \in Decisions, Live(d)'
               PROVE  (Kept(d) \/ ToScan(d) \/ Owed(d) \/ Excused(d))'
    BY DEF Covered
  <2>1. Kept(d) \/ ToScan(d) \/ Excused(d) BY <1>1, <1>10 DEF Covered
  <2> QED BY <1>10, <2>1
<1>17. Withdrawn'
  <2> SUFFICES ASSUME NEW d \in Decisions, ~Live(d)', line[d] # 0
               PROVE  d \in tomb \/ Owed(d)' \/ Excused(d)'
    BY <1>4 DEF Withdrawn
  <2>1. d \in tomb \/ Excused(d) BY <1>1, <1>10 DEF Withdrawn
  <2> QED BY <1>10, <2>1
<1>18. TombsOwed'
  <2> SUFFICES ASSUME NEW d \in tomb, Live(d)' PROVE FALSE
    BY <1>4 DEF TombsOwed
  <2>1. d \in Decisions BY <1>1 DEF TypeOK
  <2>2. Live(d) BY <1>10, <2>1
  <2> QED BY <1>1, <1>10, <2>1, <2>2 DEF TombsOwed
<1> QED BY <1>11, <1>12, <1>13, <1>14, <1>15, <1>16, <1>17, <1>18 DEF IInv

LEMMA PageStep == ASSUME IInv, Page PROVE IInv'
<1>1. /\ TypeOK /\ Manifests /\ Past /\ Phases /\ Scanning /\ TornIsScanned
      /\ TombsOwed /\ Covered /\ Withdrawn
  BY DEF IInv
<1>2. PICK next \in Positions \cup {None} :
        next = IF run.from + PageSize < Now THEN run.from + PageSize ELSE None
  <2>1. run.from + PageSize < Now => run.from + PageSize \in Positions
    BY <1>1, OpsFacts, HistFacts, Sizes DEF Positions
  <2> QED BY <2>1
<1>3. PICK date \in Dates :
        run' = [run EXCEPT !.pc = "fetch", !.ask = Asked, !.seen = @ \cup Put,
                           !.got = NoRun.got, !.at = date, !.next = next]
  BY <1>2 DEF Page
<1>4. /\ run.pc = "page" /\ Ops # {} /\ mem = disk /\ ~NoHistory /\ run.from = From(disk)
      /\ run \in Run
  BY <1>1 DEF Page, Manifests, Phases, TypeOK
<1>5. /\ hist' = hist /\ line' = line /\ torn' = torn /\ tomb' = TombsAfter(Now)
      /\ disk' = disk /\ mem' = mem /\ whole' = whole /\ faults' = faults
      /\ missed' = [d \in Decisions |-> IF d \in Put \ Asked THEN LastBy(d, Now) ELSE missed[d]]
  BY DEF Page
<1>6. date \in Positions /\ date <= Now /\ date # None BY <1>1, DateFacts
<1>7. /\ Now \in Nat /\ run.from \in Nat /\ PageSize \in Nat
      /\ \A i : i \in Ops <=> i \in 1 .. Now /\ run.from < i /\ i <= run.from + PageSize
  BY <1>1, OpsFacts, Sizes
<1>8. Put \subseteq Decisions /\ Asked \subseteq Decisions
  BY <1>1, OpsFacts DEF Put, Asked
<1>9. NoRun.got = [d \in Decisions |-> 0] /\ NoRun.got \in [Decisions -> Positions]
  BY NoRunType DEF NoRun, Run
<1>10. PICK got \in [Decisions -> Positions] : got = NoRun.got /\ \A d \in Decisions : got[d] = 0
  BY <1>9
<1>11. PICK ask \in SUBSET Decisions : ask = Asked BY <1>8
<1>12. PICK seen \in SUBSET Decisions : seen = run.seen \cup Put BY <1>4, <1>8 DEF Run
<1>13. /\ run' \in Run /\ run'.pc = "fetch" /\ run'.ask = Asked /\ run'.got = got
       /\ run'.at = date /\ run'.next = next /\ run'.from = run.from /\ run'.seed = run.seed
       /\ run'.todo = run.todo
  <2>1. run' = [run EXCEPT !.pc = "fetch", !.ask = ask, !.seen = seen, !.got = got,
                           !.at = date, !.next = next]
    BY <1>3, <1>10, <1>11, <1>12
  <2> QED BY <1>4, <1>6, <1>11, <2>1 DEF Run
<1>14. PICK reach \in Nat :
         /\ reach = Reach'
         /\ reach <= Now
         /\ \A n \in Nat : n > run.from /\ n <= Now =>
               (n <= run.from + PageSize => n \in Ops) /\ (n > run.from + PageSize => n > reach)
         /\ \A n \in Nat : n > run.from /\ n <= reach => n \in Ops
  <2>1. CASE run.from + PageSize < Now
    <3>1. Reach' = run.from + PageSize BY <1>2, <1>7, <1>13, <2>1 DEF Reach, None
    <3>2. \A n \in Nat : n > run.from /\ n <= Now /\ n <= run.from + PageSize => n \in Ops
      BY <1>7
    <3> QED BY <1>7, <2>1, <3>1, <3>2
  <2>2. CASE ~(run.from + PageSize < Now)
    <3>1. Reach' = date BY <1>2, <1>13, <2>2 DEF Reach
    <3>2. date \in Nat BY <1>6, Sizes DEF Positions
    <3>3. \A n \in Nat : n > run.from /\ n <= Now => n \in Ops /\ ~(n > run.from + PageSize)
      BY <1>7, <2>2
    <3> QED BY <1>6, <1>7, <3>1, <3>2, <3>3
  <2> QED BY <2>1, <2>2
<1>15. Resume' = Resume /\ (NoHistory' <=> NoHistory) /\ Resume = run.from /\ Resume # None
  BY <1>4, <1>5, <1>7, <1>13 DEF Resume, NoHistory, From, None
<1>16. ASSUME NEW d \in Decisions
       PROVE  /\ LastOp(d)' = LastOp(d)
              /\ (Live(d)' <=> Live(d))
              /\ LastOp(d) \in Nat /\ LastOp(d) <= Now
              /\ (Owed(d) <=> LastOp(d) > run.from)
              /\ (Owed(d)' <=> Owed(d))
              /\ (ToScan(d) => ToScan(d)')
  <2>1. LastOp(d)' = LastOp(d) /\ (Live(d)' <=> Live(d)) BY <1>5, Steady
  <2>2. LastOp(d) \in Nat /\ LastOp(d) <= Now BY <1>1, <1>7, LastFacts
  <2>3. Owed(d) <=> LastOp(d) > run.from BY <1>15 DEF Owed
  <2>4. Owed(d)' <=> Owed(d) BY <1>15, <2>1 DEF Owed
  <2>5. ToScan(d) => ToScan(d)' BY <1>4, <1>5, <1>13 DEF ToScan
  <2> QED BY <2>1, <2>2, <2>3, <2>4, <2>5
(* What the page tells of.                                                 *)
<1>17. ASSUME NEW d \in Decisions, NEW i \in Ops, hist[i].id = d
       PROVE  /\ LastOp(d) > run.from
              /\ d \in tomb' <=> ~hist[LastBy(d, Now)].put
              /\ LastOp(d) \in Ops => LastBy(d, Now) = LastOp(d)
  <2>1. i <= Now BY <1>7
  <2>2. LastOp(d) > run.from /\ (d \in tomb' <=> ~hist[LastBy(d, Now)].put)
    BY <1>1, <1>5, <1>7, <1>17, <2>1, TombFacts
  <2>3. ASSUME LastOp(d) \in Ops PROVE LastBy(d, Now) = LastOp(d)
    <3>1. LastBy(d, Now) <= LastOp(d) /\ LastBy(d, Now) \in Ops
          /\ \A x \in Ops : x <= Now /\ hist[x].id = d => x <= LastBy(d, Now)
      BY <1>1, <1>7, <1>17, <2>1, LastByFacts
    <3>2. OpsOf(d) # {} BY <1>1, <1>7, <1>17, HistFacts DEF OpsOf
    <3>3. hist[LastOp(d)].id = d BY <1>1, <3>2, LastFacts DEF OpsOf
    <3>4. LastOp(d) <= LastBy(d, Now) BY <1>16, <2>3, <3>1, <3>3
    <3>5. LastBy(d, Now) \in Nat /\ LastOp(d) \in Nat BY <1>7, <1>16, <3>1
    <3> QED BY <3>1, <3>4, <3>5
  <2> QED BY <2>2, <2>3
<1>18. ASSUME NEW d \in Decisions, ~\E i \in Ops : hist[i].id = d
       PROVE  /\ d \in tomb' <=> d \in tomb
              /\ missed'[d] = missed[d]
              /\ (Kept(d) => Kept(d)')
              /\ (Excused(d) => Excused(d)')
  <2>1. d \in tomb' <=> d \in tomb BY <1>1, <1>5, <1>7, <1>18, TombFacts
  <2>2. d \notin Put BY <1>18 DEF Put
  <2>3. missed'[d] = missed[d] BY <1>5, <2>2
  <2>4. Kept(d) => Kept(d)' BY <1>5, <1>16, <2>1 DEF Kept
  <2>5. Excused(d) => Excused(d)' BY <1>5, <1>15, <1>16, <2>3 DEF Excused
  <2> QED BY <2>1, <2>3, <2>4, <2>5
<1>19. TypeOK'
  <2>1. missed' \in [Decisions -> Positions]
    <3>1. ASSUME NEW d \in Put PROVE LastBy(d, Now) \in Positions
      <4>1. PICK i \in Ops : hist[i].id = d BY DEF Put
      <4>2. d \in Decisions /\ i <= Now BY <1>7, <1>8
      <4> QED BY <1>1, <1>7, <4>1, <4>2, LastByFacts
    <3> QED BY <1>1, <1>5, <3>1 DEF TypeOK
  <2>2. tomb' \subseteq Decisions BY <1>1, <1>5, <1>7, TombFacts
  <2> QED BY <1>1, <1>5, <1>13, <2>1, <2>2 DEF TypeOK
<1>20. Manifests' BY <1>1, <1>4, <1>5 DEF Manifests
<1>21. Past'
  <2>1. run'.next <= Now BY <1>2, <1>7, <1>13 DEF None
  <2> QED BY <1>1, <1>5, <1>6, <1>13, <2>1 DEF Past, Now
<1>22. Phases' BY <1>4, <1>5, <1>13, <1>15 DEF Phases, Working
<1>23. Scanning' /\ SavedCovers' BY <1>13 DEF Scanning, Working, SavedCovers
<1>24. TornIsScanned' BY <1>1, <1>4, <1>5 DEF TornIsScanned
<1>25. Covered'
  <2> SUFFICES ASSUME NEW d \in Decisions, Live(d)'
               PROVE  (Kept(d) \/ ToScan(d) \/ Owed(d) \/ Excused(d))'
    BY DEF Covered
  <2>1. CASE \E i \in Ops : hist[i].id = d BY <2>1, <1>16, <1>17
  <2>2. CASE ~\E i \in Ops : hist[i].id = d
    <3>1. Kept(d) \/ ToScan(d) \/ Owed(d) \/ Excused(d) BY <1>1, <1>16 DEF Covered
    <3> QED BY <2>2, <3>1, <1>16, <1>18
  <2> QED BY <2>1, <2>2
<1>26. Withdrawn'
  <2> SUFFICES ASSUME NEW d \in Decisions, ~Live(d)', line[d] # 0
               PROVE  d \in tomb' \/ Owed(d)' \/ Excused(d)'
    BY <1>5 DEF Withdrawn
  <2>1. CASE \E i \in Ops : hist[i].id = d BY <2>1, <1>16, <1>17
  <2>2. CASE ~\E i \in Ops : hist[i].id = d
    <3>1. d \in tomb \/ Owed(d) \/ Excused(d) BY <1>1, <1>16 DEF Withdrawn
    <3> QED BY <2>2, <3>1, <1>16, <1>18
  <2> QED BY <2>1, <2>2
<1>27. TombsOwed'
  <2> SUFFICES ASSUME NEW d \in tomb', Live(d)' PROVE Owed(d)' /\ LastOp(d)' > reach
    BY <1>14 DEF TombsOwed
  <2>1. d \in Decisions BY <1>19 DEF TypeOK
  <2>2. Live(d) /\ hist[LastOp(d)].put BY <1>1, <1>16, <2>1, LastFacts
  <2>3. LastOp(d) > run.from /\ LastOp(d) \notin Ops
    <3>1. CASE \E i \in Ops : hist[i].id = d BY <3>1, <1>17, <2>1, <2>2
    <3>2. CASE ~\E i \in Ops : hist[i].id = d
      <4>1. Owed(d) BY <1>1, <1>18, <2>1, <2>2, <3>2 DEF TombsOwed
      <4>2. hist[LastOp(d)].id = d BY <1>1, <2>1, <2>2, LastFacts DEF OpsOf
      <4> QED BY <1>16, <2>1, <3>2, <4>1, <4>2
    <3> QED BY <3>1, <3>2
  <2>4. LastOp(d) > reach BY <1>7, <1>14, <1>16, <2>1, <2>3
  <2> QED BY <1>16, <2>1, <2>3, <2>4
<1>28. PageDone'
  <2>1. ASSUME NEW d \in Decisions, run.from < LastOp(d), LastOp(d) <= reach
        PROVE  IF Live(d) THEN missed'[d] = LastOp(d) \/ d \in Asked ELSE d \in tomb'
    <3>1. LastOp(d) \in Ops BY <1>14, <1>16, <2>1
    <3>2. OpsOf(d) # {} BY <1>7, <1>16, <2>1 DEF LastOp
    <3>3. hist[LastOp(d)].id = d /\ (Live(d) <=> hist[LastOp(d)].put)
      BY <1>1, <3>2, LastFacts DEF OpsOf, Live
    <3>4. LastBy(d, Now) = LastOp(d) /\ (d \in tomb' <=> ~hist[LastBy(d, Now)].put)
      BY <1>17, <3>1, <3>3
    <3>5. CASE Live(d)
      <4>1. d \in Put BY <3>1, <3>3, <3>5 DEF Put
      <4>2. d \notin Asked => missed'[d] = LastOp(d) BY <1>5, <3>4, <4>1
      <4> QED BY <3>5, <4>2
    <3>6. CASE ~Live(d) BY <3>3, <3>4, <3>6
    <3> QED BY <3>5, <3>6
  <2>2. ASSUME NEW d \in Decisions, run.from < LastOp(d)', LastOp(d)' <= reach
        PROVE  IF Live(d)' THEN missed'[d] = LastOp(d)' \/ d \in Asked ELSE d \in tomb'
    BY <1>16, <2>1, <2>2
  <2> QED BY <1>10, <1>13, <1>14, <2>2 DEF PageDone, Paging
<1> QED BY <1>19, <1>20, <1>21, <1>22, <1>23, <1>24, <1>25, <1>26, <1>27, <1>28 DEF IInv

LEMMA FetchStep == ASSUME IInv, NEW e \in Decisions, Fetch(e) PROVE IInv'
<1>1. /\ TypeOK /\ Manifests /\ Past /\ Phases /\ Scanning /\ TornIsScanned
      /\ TombsOwed /\ PageDone /\ Covered /\ Withdrawn
  BY DEF IInv
<1>2. /\ hist' = hist /\ line' = line /\ torn' = torn /\ tomb' = tomb /\ disk' = disk
      /\ mem' = mem /\ whole' = whole /\ missed' = missed /\ faults' = faults
  BY DEF Fetch
<1>3. run \in Run /\ run.pc = "fetch" /\ ~NoHistory BY <1>1 DEF TypeOK, Fetch, Phases
<1>4. \A d \in Decisions : /\ LastOp(d)' = LastOp(d)
                           /\ (Live(d)' <=> Live(d))
                           /\ LastOp(d) \in Positions
  <2>1. \A d \in Decisions : LastOp(d) \in Positions
    BY <1>1, LastFacts, HistFacts, Sizes DEF Positions
  <2> QED BY <1>2, <2>1, Steady
<1>5. PICK v \in Positions : v = IF Live(e) THEN LastOp(e) ELSE 0
  BY <1>4, Sizes DEF Positions
<1>6. run' = [run EXCEPT !.ask = @ \ {e}, !.got[e] = v] BY <1>5 DEF Fetch
<1>7. /\ run' \in Run /\ run'.pc = "fetch" /\ run'.ask = run.ask \ {e}
      /\ run'.got = [run.got EXCEPT ![e] = v] /\ run'.todo = run.todo /\ run'.seed = run.seed
      /\ run'.next = run.next /\ run'.at = run.at /\ run'.from = run.from
  BY <1>3, <1>6 DEF Run
<1>8. Resume' = Resume /\ (NoHistory' <=> NoHistory) BY <1>2, <1>7 DEF Resume, NoHistory, From
<1>9. Reach' = Reach BY <1>7 DEF Reach
<1>10. \A d \in Decisions : run'.got[d] = IF d = e THEN v ELSE run.got[d]
  <2>1. run.got \in [Decisions -> Positions] BY <1>3 DEF Run
  <2> QED BY <1>7, <2>1
<1>11. ASSUME NEW d \in Decisions
       PROVE  /\ (Kept(d) => Kept(d)')
              /\ (Owed(d) => Owed(d)')
              /\ (Excused(d) => Excused(d)')
              /\ (ToScan(d) => ToScan(d)')
  <2>1. ToScan(d) => ToScan(d)' BY <1>2, <1>3, <1>7 DEF ToScan
  <2> QED BY <1>2, <1>8, <2>1, Untouched
<1>12. TypeOK' BY <1>1, <1>2, <1>7 DEF TypeOK
<1>13. Manifests' BY <1>1, <1>2, <1>3 DEF Manifests
<1>14. Past' BY <1>1, <1>2, <1>7 DEF Past, Now
<1>15. Phases' BY <1>1, <1>2, <1>3, <1>7, <1>8 DEF Phases, Working, From
<1>16. Scanning' /\ SavedCovers' BY <1>7 DEF Scanning, Working, SavedCovers
<1>17. TornIsScanned' BY <1>1, <1>2, <1>3 DEF TornIsScanned
<1>18. Covered'
  <2> SUFFICES ASSUME NEW d \in Decisions, Live(d)'
               PROVE  (Kept(d) \/ ToScan(d) \/ Owed(d) \/ Excused(d))'
    BY DEF Covered
  <2> QED BY <1>1, <1>4, <1>11 DEF Covered
<1>19. Withdrawn'
  <2> SUFFICES ASSUME NEW d \in Decisions, ~Live(d)', line[d] # 0
               PROVE  d \in tomb \/ Owed(d)' \/ Excused(d)'
    BY <1>2 DEF Withdrawn
  <2> QED BY <1>1, <1>4, <1>11 DEF Withdrawn
<1>20. TombsOwed'
  <2> SUFFICES ASSUME NEW d \in tomb, Live(d)' PROVE Owed(d)' /\ LastOp(d)' > Reach
    BY <1>2, <1>9 DEF TombsOwed
  <2>1. d \in Decisions BY <1>1 DEF TypeOK
  <2> QED BY <1>1, <1>3, <1>4, <1>11, <2>1 DEF TombsOwed, Paging
<1>21. PageDone'
  <2>1. ASSUME NEW d \in Decisions, run.from < LastOp(d), LastOp(d) <= Reach
        PROVE  IF Live(d) THEN missed[d] = LastOp(d) \/ d \in run'.ask \/ run'.got[d] = LastOp(d)
               ELSE d \in tomb
    <3>1. IF Live(d) THEN missed[d] = LastOp(d) \/ d \in run.ask \/ run.got[d] = LastOp(d)
          ELSE d \in tomb
      BY <1>1, <1>3, <2>1 DEF PageDone, Paging
    <3> QED BY <3>1, <1>5, <1>7, <1>10
  <2>2. ASSUME NEW d \in Decisions, run'.got[d] # 0
        PROVE  (run'.got[d] = LastOp(d) /\ Live(d)) \/ LastOp(d) > run.from
    <3>1. CASE d = e BY <2>2, <3>1, <1>5, <1>10
    <3>2. CASE d # e BY <2>2, <3>2, <1>1, <1>3, <1>10 DEF PageDone
    <3> QED BY <3>1, <3>2
  <2>3. ASSUME NEW d \in Decisions, run'.from < LastOp(d)', LastOp(d)' <= Reach'
        PROVE  IF Live(d)'
               THEN missed'[d] = LastOp(d)' \/ d \in run'.ask \/ run'.got[d] = LastOp(d)'
               ELSE d \in tomb'
    BY <2>1, <2>3, <1>2, <1>4, <1>7, <1>9
  <2>4. ASSUME NEW d \in Decisions, run'.got[d] # 0
        PROVE  (run'.got[d] = LastOp(d)' /\ Live(d)') \/ LastOp(d)' > run'.from
    BY <2>2, <2>4, <1>4, <1>7
  <2> QED BY <2>3, <2>4, <1>7 DEF PageDone
<1> QED BY <1>12, <1>13, <1>14, <1>15, <1>16, <1>17, <1>18, <1>19, <1>20, <1>21 DEF IInv

LEMMA FetchFailsStep == ASSUME IInv, NEW e \in Decisions, FetchFails(e) PROVE IInv'
<1>1. /\ TypeOK /\ Manifests /\ Past /\ Phases /\ Scanning /\ TornIsScanned
      /\ TombsOwed /\ PageDone /\ Covered /\ Withdrawn
  BY DEF IInv
<1>2. /\ hist' = hist /\ line' = line /\ torn' = torn /\ tomb' = tomb /\ disk' = disk
      /\ mem' = mem /\ whole' = whole /\ faults' \in 0 .. MaxFaults
      /\ missed' = [missed EXCEPT ![e] = LastOp(e)]
  BY <1>1, Sizes DEF FetchFails, TypeOK
<1>3. run \in Run /\ run.pc = "fetch" /\ ~NoHistory BY <1>1 DEF TypeOK, FetchFails, Phases
<1>4. \A d \in Decisions : /\ LastOp(d)' = LastOp(d)
                           /\ (Live(d)' <=> Live(d))
                           /\ LastOp(d) \in Positions
  <2>1. \A d \in Decisions : LastOp(d) \in Positions
    BY <1>1, LastFacts, HistFacts, Sizes DEF Positions
  <2> QED BY <1>2, <2>1, Steady
<1>5. run' = [run EXCEPT !.ask = @ \ {e}] BY DEF FetchFails
<1>6. /\ run' \in Run /\ run'.pc = "fetch" /\ run'.ask = run.ask \ {e}
      /\ run'.got = run.got /\ run'.todo = run.todo /\ run'.seed = run.seed
      /\ run'.next = run.next /\ run'.at = run.at /\ run'.from = run.from
  BY <1>3, <1>5 DEF Run
<1>7. \A d \in Decisions : missed'[d] = IF d = e THEN LastOp(d) ELSE missed[d]
  BY <1>1, <1>2 DEF TypeOK
<1>8. Resume' = Resume /\ (NoHistory' <=> NoHistory) BY <1>2, <1>6 DEF Resume, NoHistory, From
<1>9. Reach' = Reach BY <1>6 DEF Reach
<1>10. Resume # None BY <1>3 DEF Resume, NoHistory, From
<1>11. ASSUME NEW d \in Decisions
       PROVE  /\ (Kept(d) => Kept(d)')
              /\ (Owed(d) => Owed(d)')
              /\ (Excused(d) => Excused(d)')
              /\ (ToScan(d) => ToScan(d)')
  <2>1. ToScan(d) => ToScan(d)' BY <1>2, <1>3, <1>6 DEF ToScan
  <2>2. Kept(d) => Kept(d)' BY <1>2, <1>4 DEF Kept
  <2>3. Owed(d) => Owed(d)' BY <1>4, <1>8 DEF Owed
  <2>4. Excused(d) => Excused(d)' BY <1>2, <1>4, <1>7, <1>10 DEF Excused
  <2> QED BY <2>1, <2>2, <2>3, <2>4
<1>12. TypeOK'
  <2>1. missed' \in [Decisions -> Positions] BY <1>1, <1>2, <1>4 DEF TypeOK
  <2> QED BY <1>1, <1>2, <1>6, <2>1 DEF TypeOK
<1>13. Manifests' BY <1>1, <1>2, <1>3 DEF Manifests
<1>14. Past' BY <1>1, <1>2, <1>6 DEF Past, Now
<1>15. Phases' BY <1>1, <1>2, <1>3, <1>6, <1>8 DEF Phases, Working, From
<1>16. Scanning' /\ SavedCovers' BY <1>6 DEF Scanning, Working, SavedCovers
<1>17. TornIsScanned' BY <1>1, <1>2, <1>3 DEF TornIsScanned
<1>18. Covered'
  <2> SUFFICES ASSUME NEW d \in Decisions, Live(d)'
               PROVE  (Kept(d) \/ ToScan(d) \/ Owed(d) \/ Excused(d))'
    BY DEF Covered
  <2> QED BY <1>1, <1>4, <1>11 DEF Covered
<1>19. Withdrawn'
  <2> SUFFICES ASSUME NEW d \in Decisions, ~Live(d)', line[d] # 0
               PROVE  d \in tomb \/ Owed(d)' \/ Excused(d)'
    BY <1>2 DEF Withdrawn
  <2> QED BY <1>1, <1>4, <1>11 DEF Withdrawn
<1>20. TombsOwed'
  <2> SUFFICES ASSUME NEW d \in tomb, Live(d)' PROVE Owed(d)' /\ LastOp(d)' > Reach
    BY <1>2, <1>9 DEF TombsOwed
  <2>1. d \in Decisions BY <1>1 DEF TypeOK
  <2> QED BY <1>1, <1>3, <1>4, <1>11, <2>1 DEF TombsOwed, Paging
<1>21. PageDone'
  <2>1. ASSUME NEW d \in Decisions, run.from < LastOp(d), LastOp(d) <= Reach
        PROVE  IF Live(d) THEN missed'[d] = LastOp(d) \/ d \in run'.ask \/ run.got[d] = LastOp(d)
               ELSE d \in tomb
    <3>1. IF Live(d) THEN missed[d] = LastOp(d) \/ d \in run.ask \/ run.got[d] = LastOp(d)
          ELSE d \in tomb
      BY <1>1, <1>3, <2>1 DEF PageDone, Paging
    <3> QED BY <3>1, <1>6, <1>7
  <2>2. ASSUME NEW d \in Decisions, run.got[d] # 0
        PROVE  (run.got[d] = LastOp(d) /\ Live(d)) \/ LastOp(d) > run.from
    BY <2>2, <1>1, <1>3 DEF PageDone
  <2>3. ASSUME NEW d \in Decisions, run'.from < LastOp(d)', LastOp(d)' <= Reach'
        PROVE  IF Live(d)'
               THEN missed'[d] = LastOp(d)' \/ d \in run'.ask \/ run'.got[d] = LastOp(d)'
               ELSE d \in tomb'
    BY <2>1, <2>3, <1>2, <1>4, <1>6, <1>9
  <2>4. ASSUME NEW d \in Decisions, run'.got[d] # 0
        PROVE  (run'.got[d] = LastOp(d)' /\ Live(d)') \/ LastOp(d)' > run'.from
    BY <2>2, <2>4, <1>4, <1>6
  <2> QED BY <2>3, <2>4, <1>6 DEF PageDone
<1> QED BY <1>12, <1>13, <1>14, <1>15, <1>16, <1>17, <1>18, <1>19, <1>20, <1>21 DEF IInv

LEMMA AppendPageStep == ASSUME IInv, AppendPage PROVE IInv'
<1>1. /\ TypeOK /\ Manifests /\ Past /\ Phases /\ Scanning /\ TornIsScanned
      /\ TombsOwed /\ PageDone /\ Covered /\ Withdrawn
  BY DEF IInv
<1>2. /\ hist' = hist /\ torn' = torn /\ tomb' = tomb /\ disk' = disk
      /\ whole' = whole /\ faults' = faults /\ line' = Filed(Files)
      /\ missed' = [d \in Decisions |->
                      IF JurOf[d] \in Files /\ ~mem.months[JurOf[d]].here /\ d \notin Fetched
                      THEN LastOp(d) ELSE missed[d]]
      /\ run' = [run EXCEPT !.pc = "save"]
  BY DEF AppendPage
<1>3. /\ run \in Run /\ run.pc = "fetch" /\ run.ask = {} /\ mem = disk /\ ~NoHistory
      /\ run.from = From(disk) /\ mem \in Manifest
  BY <1>1 DEF TypeOK, AppendPage, Manifests, Phases
<1>4. PICK months \in [JurSet -> Month] :
        /\ mem' = [mem EXCEPT !.months = months]
        /\ \A j \in JurSet : months[j] = IF j \in Files /\ ~mem.months[j].here THEN Entered(j)
                                         ELSE mem.months[j]
  <2>1. \A j : Entered(j) \in Month BY DEF Entered, Fresh, NoMonth, Month
  <2>2. mem.months \in [JurSet -> Month] BY <1>3 DEF Manifest
  <2> DEFINE f == [j \in JurSet |-> IF j \in Files /\ ~mem.months[j].here THEN Entered(j)
                                    ELSE mem.months[j]]
  <2>3. f \in [JurSet -> Month] BY <2>1, <2>2
  <2>4. mem' = [mem EXCEPT !.months = f] BY DEF AppendPage
  <2> QED BY <2>3, <2>4
<1>5. /\ mem' \in Manifest /\ mem'.wm = mem.wm /\ mem'.cursor = mem.cursor
      /\ mem'.months = months
  BY <1>3, <1>4 DEF Manifest
<1>6. /\ run' \in Run /\ run'.pc = "save" /\ run'.got = run.got /\ run'.todo = run.todo
      /\ run'.seed = run.seed /\ run'.next = run.next /\ run'.at = run.at /\ run'.from = run.from
  BY <1>2, <1>3 DEF Run
<1>7. Resume' = Resume /\ (NoHistory' <=> NoHistory) /\ Resume = run.from /\ Resume # None
  BY <1>2, <1>3, <1>6 DEF Resume, NoHistory, From
<1>8. Reach' = Reach BY <1>6 DEF Reach
<1>9. run.got \in [Decisions -> Positions] /\ run.from \in Nat BY <1>1, <1>3, StateFacts DEF Run
<1>10. ASSUME NEW d \in Decisions
       PROVE  /\ LastOp(d)' = LastOp(d)
              /\ (Live(d)' <=> Live(d))
              /\ LastOp(d) \in Positions /\ LastOp(d) \in Nat
              /\ (Live(d) => LastOp(d) # 0)
              /\ JurOf[d] \in JurSet
              /\ (Owed(d) <=> LastOp(d) > run.from)
              /\ (Owed(d)' <=> Owed(d))
              /\ line'[d] = (IF run.got[d] # 0 THEN run.got[d] ELSE line[d])
              /\ (missed'[d] = missed[d] \/ missed'[d] = LastOp(d))
  <2>1. LastOp(d)' = LastOp(d) /\ (Live(d)' <=> Live(d)) BY <1>2, Steady
  <2>2. LastOp(d) \in Positions /\ LastOp(d) \in Nat /\ (Live(d) => LastOp(d) # 0)
        /\ JurOf[d] \in JurSet
    BY <1>1, LastFacts, HistFacts, Sizes DEF Positions
  <2>3. Owed(d) <=> LastOp(d) > run.from BY <1>7 DEF Owed
  <2>4. Owed(d)' <=> Owed(d) BY <1>7, <2>1 DEF Owed
  <2>5. line'[d] = IF run.got[d] # 0 THEN run.got[d] ELSE line[d]
    BY <1>2 DEF Filed, Files, Fetched
  <2>6. missed'[d] = missed[d] \/ missed'[d] = LastOp(d) BY <1>2
  <2> QED BY <2>1, <2>2, <2>3, <2>4, <2>5, <2>6
<1>11. ASSUME NEW d \in Decisions, Excused(d) PROVE Excused(d)'
  BY <1>2, <1>7, <1>10, <1>11 DEF Excused
(* What was fetched is the last version, or the history tells of a later one.   *)
<1>12. ASSUME NEW d \in Decisions, run.got[d] # 0
       PROVE  \/ Owed(d)
              \/ /\ Live(d) /\ run.got[d] = LastOp(d)
                 /\ Kept(d)' \/ Excused(d)'
  <2>1. (run.got[d] = LastOp(d) /\ Live(d)) \/ Owed(d)
    BY <1>1, <1>3, <1>10, <1>12 DEF PageDone
  <2>2. ASSUME run.got[d] = LastOp(d), Live(d), ~Owed(d) PROVE Kept(d)' \/ Excused(d)'
    <3>1. d \notin tomb BY <1>1, <2>2 DEF TombsOwed
    <3>2. CASE JurOf[d] \in torn
      <4>1. disk.months[JurOf[d]].boot BY <1>1, <1>3, <3>2 DEF TornIsScanned
      <4> QED BY <1>2, <3>2, <4>1 DEF Excused
    <3>3. CASE JurOf[d] \notin torn
      BY <1>2, <1>10, <1>12, <2>2, <3>1, <3>3 DEF Kept
    <3> QED BY <3>2, <3>3
  <2> QED BY <2>1, <2>2
(* What was not fetched is left as it was, or its month is taken for scanned.    *)
<1>13. ASSUME NEW d \in Decisions, run.got[d] = 0
       PROVE  /\ (Kept(d) => Kept(d)')
              /\ (ToScan(d) => Unscanned(d)')
              /\ (ToScan(d) => ToScan(d)' \/ Excused(d)')
  <2>1. Kept(d) => Kept(d)' BY <1>2, <1>10, <1>13 DEF Kept
  <2>2. ToScan(d) => Unscanned(d)' BY <1>2, <1>3 DEF ToScan, Unscanned
  <2>3. CASE JurOf[d] \in Files /\ ~mem.months[JurOf[d]].here
    <3>1. d \notin Fetched BY <1>13 DEF Fetched
    <3>2. missed'[d] = LastOp(d)' BY <1>2, <1>10, <2>3, <3>1
    <3>3. Excused(d)' BY <3>2 DEF Excused
    <3> QED BY <2>1, <2>2, <3>3
  <2>4. CASE ~(JurOf[d] \in Files /\ ~mem.months[JurOf[d]].here)
    <3>1. mem'.months[JurOf[d]] = mem.months[JurOf[d]] BY <1>4, <1>5, <1>10, <2>4
    <3> QED BY <1>2, <1>3, <1>6, <3>1, <2>1, <2>2 DEF ToScan
  <2> QED BY <2>1, <2>2, <2>3, <2>4
<1>14. TypeOK'
  <2>1. line' \in [Decisions -> Positions] BY <1>1, <1>2, <1>9 DEF TypeOK, Filed
  <2>2. missed' \in [Decisions -> Positions] BY <1>1, <1>2, <1>10 DEF TypeOK
  <2> QED BY <1>1, <1>2, <1>5, <1>6, <2>1, <2>2 DEF TypeOK
<1>15. Manifests'
  <2>1. ASSUME NEW j \in JurSet
        PROVE  /\ ~disk'.months[j].here => disk'.months[j] = NoMonth
               /\ ~mem'.months[j].here => mem'.months[j] = NoMonth
               /\ disk'.months[j].boot => mem'.months[j].boot
    <3>1. Entered(j).here /\ Entered(j).boot BY DEF Entered, Fresh, NoMonth
    <3> QED BY <3>1, <1>1, <1>2, <1>3, <1>4, <1>5 DEF Manifests
  <2> QED BY <2>1, <1>2, <1>3, <1>5, <1>6 DEF Manifests
<1>16. Past' BY <1>1, <1>2, <1>6 DEF Past, Now
<1>17. Phases' BY <1>1, <1>2, <1>3, <1>6, <1>7 DEF Phases, Working, From
<1>18. Scanning' BY <1>6 DEF Scanning, Working
<1>19. TornIsScanned' BY <1>1, <1>2, <1>3 DEF TornIsScanned
<1>20. Covered'
  <2> SUFFICES ASSUME NEW d \in Decisions, Live(d)'
               PROVE  (Kept(d) \/ ToScan(d) \/ Owed(d) \/ Excused(d))'
    BY DEF Covered
  <2>1. CASE run.got[d] # 0 BY <2>1, <1>10, <1>12
  <2>2. CASE run.got[d] = 0
    <3>1. Kept(d) \/ ToScan(d) \/ Owed(d) \/ Excused(d) BY <1>1, <1>10 DEF Covered
    <3> QED BY <2>2, <3>1, <1>10, <1>11, <1>13
  <2> QED BY <2>1, <2>2
<1>21. SavedCovers'
  <2> SUFFICES ASSUME NEW d \in Decisions, Live(d)'
               PROVE  (Kept(d) \/ Owed(d) \/ Excused(d) \/ Unscanned(d) \/ Forgotten(d))'
    BY DEF SavedCovers
  <2>1. CASE run.got[d] # 0 BY <2>1, <1>10, <1>12
  <2>2. CASE run.got[d] = 0
    <3>1. Kept(d) \/ ToScan(d) \/ Owed(d) \/ Excused(d) BY <1>1, <1>10 DEF Covered
    <3> QED BY <2>2, <3>1, <1>10, <1>11, <1>13
  <2> QED BY <2>1, <2>2
<1>22. Withdrawn'
  <2> SUFFICES ASSUME NEW d \in Decisions, ~Live(d)', line'[d] # 0
               PROVE  d \in tomb \/ Owed(d)' \/ Excused(d)'
    BY <1>2 DEF Withdrawn
  <2>1. CASE run.got[d] # 0 BY <2>1, <1>10, <1>12
  <2>2. CASE run.got[d] = 0
    <3>1. d \in tomb \/ Owed(d) \/ Excused(d) BY <1>1, <1>10, <2>2 DEF Withdrawn
    <3> QED BY <3>1, <1>10, <1>11
  <2> QED BY <2>1, <2>2
<1>23. TombsOwed'
  <2> SUFFICES ASSUME NEW d \in tomb, Live(d)' PROVE Owed(d)' /\ LastOp(d)' > Reach
    BY <1>2, <1>8 DEF TombsOwed
  <2>1. d \in Decisions BY <1>1 DEF TypeOK
  <2> QED BY <1>1, <1>3, <1>10, <2>1 DEF TombsOwed, Paging
<1>24. PageDone'
  <2>1. ASSUME NEW d \in Decisions, run.from < LastOp(d), LastOp(d) <= Reach
        PROVE  IF Live(d) THEN missed'[d] = LastOp(d) \/ line'[d] = LastOp(d) ELSE d \in tomb
    <3>1. IF Live(d) THEN missed[d] = LastOp(d) \/ run.got[d] = LastOp(d) ELSE d \in tomb
      BY <1>1, <1>3, <2>1 DEF PageDone, Paging
    <3> QED BY <3>1, <1>10
  <2>2. ASSUME NEW d \in Decisions, run'.from < LastOp(d)', LastOp(d)' <= Reach'
        PROVE  IF Live(d)' THEN missed'[d] = LastOp(d)' \/ line'[d] = LastOp(d)' ELSE d \in tomb'
    BY <2>1, <2>2, <1>2, <1>6, <1>8, <1>10
  <2> QED BY <2>2, <1>6 DEF PageDone
<1> QED BY <1>14, <1>15, <1>16, <1>17, <1>18, <1>19, <1>20, <1>21, <1>22, <1>23, <1>24 DEF IInv

LEMMA SavePageStep == ASSUME IInv, SavePage PROVE IInv'
<1>1. /\ TypeOK /\ Manifests /\ Past /\ Phases /\ Scanning /\ TornIsScanned
      /\ TombsOwed /\ PageDone /\ Covered /\ Withdrawn
  BY DEF IInv
<1>2. /\ hist' = hist /\ line' = line /\ torn' = torn /\ tomb' = tomb /\ whole' = whole
      /\ missed' = missed /\ faults' = faults /\ disk' = mem'
      /\ mem' = [mem EXCEPT !.wm = run.at,
                            !.cursor = IF run.next # None THEN run.next ELSE @]
  BY DEF SavePage
<1>3. /\ run \in Run /\ run.pc = "save" /\ ~NoHistory /\ run.from = From(disk)
      /\ mem \in Manifest /\ mem.wm = disk.wm /\ mem.cursor = disk.cursor
  BY <1>1 DEF TypeOK, SavePage, Manifests, Phases
<1>4. /\ run.at \in Positions /\ run.next \in Positions \cup {None} /\ run.at # None
      /\ disk.cursor \in Positions \cup {None}
  BY <1>1, <1>3 DEF Run, Positions, None, Manifest
<1>5. /\ mem' \in Manifest /\ mem'.months = mem.months /\ mem'.wm = run.at
      /\ mem'.cursor = IF run.next # None THEN run.next ELSE disk.cursor
  BY <1>2, <1>3, <1>4 DEF Manifest
<1>7. /\ run' \in Run
      /\ \/ run.next = None /\ run' = NoRun /\ run'.pc = "idle" /\ run'.seed = None
            /\ run'.next = None /\ run'.at = 0
         \/ run.next # None /\ run'.pc = "page" /\ run'.from = run.next
            /\ run'.seed = run.seed /\ run'.next = run.next /\ run'.at = run.at
  <2>1. CASE run.next = None
    <3>1. run' = NoRun BY <2>1 DEF SavePage
    <3> QED BY <2>1, <3>1, NoRunType DEF NoRun
  <2>2. CASE run.next # None
    <3>1. run' = [run EXCEPT !.pc = "page", !.from = run.next] BY <2>2 DEF SavePage
    <3> QED BY <1>3, <1>4, <2>2, <3>1 DEF Run
  <2> QED BY <2>1, <2>2
<1>8. ~NoHistory' /\ Resume = run.from /\ Resume # None /\ Resume' # None
  BY <1>2, <1>3, <1>4, <1>5 DEF NoHistory, Resume, From
<1>9. Resume' = Resume \/ Resume' = Reach
  BY <1>2, <1>3, <1>4, <1>5, <1>8 DEF Resume, Reach, From, NoHistory
<1>10. ASSUME NEW d \in Decisions
       PROVE  /\ LastOp(d)' = LastOp(d)
              /\ (Live(d)' <=> Live(d))
              /\ (LastOp(d) > Resume' => Owed(d)')
              /\ (Kept(d) => Kept(d)')
              /\ (Excused(d) => Excused(d)')
              /\ (ToScan(d) => ToScan(d)')
              /\ JurOf[d] \in JurSet
  <2>1. LastOp(d)' = LastOp(d) /\ (Live(d)' <=> Live(d)) /\ JurOf[d] \in JurSet
    BY <1>2, Steady, Sizes
  <2>2. LastOp(d) > Resume' => Owed(d)' BY <1>8, <2>1 DEF Owed
  <2>3. Kept(d) => Kept(d)' BY <1>2, <2>1 DEF Kept
  <2>4. disk.months[JurOf[d]].boot => disk'.months[JurOf[d]].boot
    BY <1>1, <1>2, <1>5, <2>1 DEF Manifests
  <2>5. Excused(d) => Excused(d)' BY <1>2, <1>8, <2>1, <2>4 DEF Excused
  <2>6. ToScan(d) => ToScan(d)' BY <1>2, <1>3, <1>5, <1>7 DEF ToScan
  <2> QED BY <2>1, <2>2, <2>3, <2>5, <2>6
(* What the position moves past is done.                                     *)
<1>11. ASSUME NEW d \in Decisions, Owed(d)
       PROVE  \/ Owed(d)'
              \/ ~Live(d) /\ d \in tomb
              \/ Live(d) /\ (Kept(d)' \/ Excused(d)')
  <2>1. LastOp(d) > run.from BY <1>8, <1>11 DEF Owed
  <2>2. CASE LastOp(d) > Resume' BY <2>2, <1>10
  <2>3. CASE ~(LastOp(d) > Resume')
    <3>1. LastOp(d) \in Nat /\ Reach \in Int BY <1>1, LastFacts, HistFacts, StateFacts DEF Reach
    <3>2. LastOp(d) <= Reach /\ ~(LastOp(d) > Reach) BY <1>8, <1>9, <2>1, <2>3, <3>1
    <3>3. IF Live(d) THEN missed[d] = LastOp(d) \/ line[d] = LastOp(d) ELSE d \in tomb
      BY <1>1, <1>3, <2>1, <3>2 DEF PageDone, Paging
    <3>4. CASE Live(d) /\ missed[d] = LastOp(d) BY <3>4, <1>10 DEF Excused
    <3>5. CASE Live(d) /\ line[d] = LastOp(d)
      <4>1. d \notin tomb BY <1>1, <1>3, <3>2, <3>5 DEF TombsOwed, Paging
      <4>2. JurOf[d] \in torn => Excused(d) BY <1>1, <1>3 DEF TornIsScanned, Excused
      <4> QED BY <1>10, <3>5, <4>1, <4>2 DEF Kept
    <3> QED BY <3>3, <3>4, <3>5
  <2> QED BY <2>2, <2>3
<1>12. TypeOK' BY <1>1, <1>2, <1>5, <1>7 DEF TypeOK
<1>13. Manifests' BY <1>1, <1>2, <1>5 DEF Manifests
<1>14. Past'
  <2>1. mem'.wm <= Now /\ mem'.cursor <= Now BY <1>1, <1>5 DEF Past
  <2>2. run'.seed <= Now /\ run'.next <= Now /\ run'.at <= Now
    BY <1>1, <1>7, HistFacts DEF Past, None
  <2> QED BY <1>2, <2>1, <2>2 DEF Past, Now
<1>15. Phases'
  <2>1. run'.pc = "page" => run'.from = From(disk') BY <1>2, <1>5, <1>7 DEF From
  <2>2. run'.pc = "idle" => run' = NoRun BY <1>7
  <2> QED BY <1>7, <1>8, <2>1, <2>2 DEF Phases, Working
<1>16. Scanning' /\ SavedCovers' /\ PageDone'
  BY <1>7 DEF Scanning, Working, SavedCovers, PageDone, Paging
<1>17. TornIsScanned'
  <2>1. \A j \in torn : disk.months[j].boot BY <1>1, <1>3 DEF TornIsScanned
  <2>2. \A j \in torn : disk'.months[j].boot BY <1>1, <1>2, <1>5, <2>1 DEF Manifests, TypeOK
  <2> QED BY <1>2, <2>2 DEF TornIsScanned
<1>18. Covered'
  <2> SUFFICES ASSUME NEW d \in Decisions, Live(d)'
               PROVE  (Kept(d) \/ ToScan(d) \/ Owed(d) \/ Excused(d))'
    BY DEF Covered
  <2>1. Kept(d) \/ ToScan(d) \/ Owed(d) \/ Excused(d) BY <1>1, <1>10 DEF Covered
  <2> QED BY <1>10, <1>11, <2>1
<1>19. Withdrawn'
  <2> SUFFICES ASSUME NEW d \in Decisions, ~Live(d)', line[d] # 0
               PROVE  d \in tomb \/ Owed(d)' \/ Excused(d)'
    BY <1>2 DEF Withdrawn
  <2>1. d \in tomb \/ Owed(d) \/ Excused(d) BY <1>1, <1>10 DEF Withdrawn
  <2> QED BY <1>10, <1>11, <2>1
<1>20. TombsOwed'
  <2> SUFFICES ASSUME NEW d \in tomb, Live(d)' PROVE Owed(d)'
    BY <1>2, <1>7 DEF TombsOwed, Paging
  <2>1. d \in Decisions BY <1>1 DEF TypeOK
  <2>2. Live(d) /\ Owed(d) /\ LastOp(d) > Reach BY <1>1, <1>3, <1>10, <2>1 DEF TombsOwed, Paging
  <2>3. LastOp(d) > Resume BY <2>2 DEF Owed
  <2> QED BY <1>9, <1>10, <2>1, <2>2, <2>3
<1> QED BY <1>12, <1>13, <1>14, <1>15, <1>16, <1>17, <1>18, <1>19, <1>20 DEF IInv

(* A run that dies: what it had written, then what its files and tombstones are. *)
LEMMA CutFiles ==
  ASSUME IInv, Cut, NEW d \in Decisions
  PROVE  \/ line'[d] = line[d]
         \/ Live(d) /\ line'[d] = LastOp(d)
         \/ Owed(d)
<1>1. TypeOK /\ Phases /\ PageDone BY DEF IInv
<1>2. PICK files \in SUBSET Writing : line' = Wrote(files) BY DEF Cut
<1>3. CASE files = {} BY <1>2, <1>3 DEF Wrote
<1>4. CASE files # {} /\ run.pc = "scan"
  <2>1. line' = Appended(Head(run.todo)) BY <1>2, <1>4 DEF Wrote
  <2>2. d \in PageOf(Head(run.todo)) => Live(d) BY DEF PageOf, Ahead
  <2> QED BY <2>1, <2>2 DEF Appended
<1>5. CASE files # {} /\ run.pc # "scan"
  <2>1. run.pc = "fetch" /\ line' = Filed(files) BY <1>2, <1>5 DEF Wrote, Writing
  <2>2. line'[d] = line[d] \/ (line'[d] = run.got[d] /\ run.got[d] # 0)
    BY <2>1 DEF Filed, Fetched
  <2>3. run.got[d] # 0 => (run.got[d] = LastOp(d) /\ Live(d)) \/ LastOp(d) > run.from
    BY <1>1, <2>1 DEF PageDone
  <2>4. LastOp(d) > run.from => Owed(d)
    <3>1. ~NoHistory /\ run.from = From(disk) BY <1>1, <2>1 DEF Phases
    <3>2. Resume = run.from BY <3>1 DEF Resume
    <3>3. run.from # None BY <1>1, StateFacts DEF None
    <3> QED BY <3>2, <3>3 DEF Owed
  <2> QED BY <2>2, <2>3, <2>4
<1> QED BY <1>3, <1>4, <1>5

LEMMA CutTypes ==
  ASSUME IInv, Cut
  PROVE  /\ line' \in [Decisions -> Positions]
         /\ torn \subseteq torn' /\ torn' \subseteq JurSet
         /\ tomb' \subseteq Decisions
         /\ (NoHistory => tomb' = {})
         /\ \A d \in Decisions :
              Owed(d) \/ (d \in tomb' <=> d \in tomb)
<1>1. TypeOK /\ Phases BY DEF IInv
<1>2. PICK files \in SUBSET Writing :
        /\ line' = Wrote(files)
        /\ torn' = torn \/ \E j \in Writing \ files : torn' = torn \cup {j}
  BY DEF Cut
<1>3. run \in Run /\ line \in [Decisions -> Positions] BY <1>1 DEF TypeOK
<1>4. \A d \in Decisions : LastOp(d) \in Positions
  BY <1>1, LastFacts, HistFacts, Sizes DEF Positions
<1>5. line' \in [Decisions -> Positions]
  <2>1. \A j : Appended(j) \in [Decisions -> Positions] BY <1>3, <1>4 DEF Appended
  <2>2. run.got \in [Decisions -> Positions] BY <1>3 DEF Run
  <2>3. Filed(files) \in [Decisions -> Positions] BY <1>3, <2>2 DEF Filed
  <2> QED BY <1>2, <1>3, <2>1, <2>3 DEF Wrote
<1>6. Writing \subseteq JurSet
  <2>1. CASE run.pc = "scan"
    <3>1. run.todo # <<>> BY <1>1, <2>1 DEF Phases, Working
    <3>2. Head(run.todo) \in JurSet BY <1>1, <3>1, TodoFacts
    <3> QED BY <2>1, <3>2 DEF Writing
  <2>2. CASE run.pc # "scan" BY <2>2, Sizes DEF Writing, Files, Fetched
  <2> QED BY <2>1, <2>2
<1>7. torn \subseteq torn' /\ torn' \subseteq JurSet BY <1>1, <1>2, <1>6 DEF TypeOK
<1>8. CASE tomb' = tomb BY <1>1, <1>5, <1>7, <1>8 DEF TypeOK, Phases
<1>9. CASE run.pc = "page" /\ \E n \in Ops : tomb' = TombsAfter(n)
  <2>1. PICK n \in Ops : tomb' = TombsAfter(n) BY <1>9
  <2>2. n \in Nat BY <1>1, OpsFacts
  <2>3. tomb' \subseteq Decisions BY <1>1, <2>1, <2>2, TombFacts
  <2>4. ~NoHistory /\ run.from = From(disk) BY <1>1, <1>9 DEF Phases
  <2>5. Resume = run.from /\ Resume # None
    BY <1>1, <2>4, StateFacts DEF Resume, None
  <2>6. ASSUME NEW d \in Decisions PROVE Owed(d) \/ (d \in tomb' <=> d \in tomb)
    <3>1. CASE \E i \in Ops : i <= n /\ hist[i].id = d
      <4>1. LastOp(d) > run.from BY <1>1, <2>2, <3>1, TombFacts
      <4> QED BY <2>5, <4>1 DEF Owed
    <3>2. CASE ~\E i \in Ops : i <= n /\ hist[i].id = d
      BY <1>1, <2>1, <2>2, <3>2, TombFacts
    <3> QED BY <3>1, <3>2
  <2> QED BY <1>5, <1>7, <2>3, <2>4, <2>6
<1> QED BY <1>8, <1>9 DEF Cut

LEMMA CutStep == ASSUME IInv, Cut PROVE IInv'
<1>1. /\ TypeOK /\ Manifests /\ Past /\ Phases /\ Scanning /\ TornIsScanned
      /\ SavedCovers /\ TombsOwed /\ Covered /\ Withdrawn
  BY DEF IInv
<1>2. /\ hist' = hist /\ disk' = disk /\ mem' = disk /\ run' = NoRun /\ whole' = whole
      /\ faults' \in 0 .. MaxFaults
      /\ missed' = [d \in Decisions |-> IF Forgotten(d) THEN LastOp(d) ELSE missed[d]]
  BY <1>1, Sizes DEF Cut, TypeOK
<1>3. /\ run'.pc = "idle" /\ run'.seed = None /\ run'.next = None /\ run'.at = 0 /\ run' \in Run
  BY <1>2, NoRunType DEF NoRun
<1>4. NoHistory' <=> NoHistory BY <1>2 DEF NoHistory
<1>5. (NoHistory => Resume' = None) /\ (~NoHistory => Resume' = Resume /\ Resume # None)
  BY <1>2, <1>3 DEF Resume, NoHistory, From
<1>6. \A d \in Decisions : /\ LastOp(d)' = LastOp(d)
                           /\ (Live(d)' <=> Live(d))
                           /\ LastOp(d) \in Positions
                           /\ JurOf[d] \in JurSet
                           /\ d \in Nat
  <2>1. \A d \in Decisions : LastOp(d) \in Positions
    BY <1>1, LastFacts, HistFacts, Sizes DEF Positions
  <2> QED BY <1>2, <2>1, Steady, Sizes
<1>7. TypeOK'
  <2>1. missed' \in [Decisions -> Positions] BY <1>1, <1>2, <1>6 DEF TypeOK
  <2> QED BY <1>1, <1>2, <1>3, <2>1, CutTypes DEF TypeOK
<1>8. Manifests' BY <1>1, <1>2 DEF Manifests
<1>9. Past' BY <1>1, <1>2, <1>3, HistFacts DEF Past, Now, None
<1>10. Phases' BY <1>2, <1>3, <1>4, CutTypes DEF Phases, Working
<1>11. Scanning' /\ TornIsScanned' /\ SavedCovers' /\ PageDone'
  BY <1>3 DEF Scanning, Working, TornIsScanned, SavedCovers, PageDone, Paging
<1>12. ASSUME NEW d \in Decisions, ~NoHistory
       PROVE  /\ (Owed(d) => Owed(d)')
              /\ (Excused(d) => Excused(d)')
              /\ (Unscanned(d) => ToScan(d)')
              /\ (Forgotten(d) => Excused(d)')
  <2>1. torn \subseteq torn' BY CutTypes
  <2>2. Owed(d) => Owed(d)' BY <1>5, <1>6, <1>12 DEF Owed
  <2>3. missed'[d] = missed[d] \/ missed'[d] = LastOp(d) BY <1>2
  <2>4. Excused(d) => Excused(d)' BY <1>2, <1>5, <1>6, <1>12, <2>1, <2>3 DEF Excused
  <2>5. Unscanned(d) => ToScan(d)' BY <1>2, <1>3, <2>1 DEF Unscanned, ToScan
  <2>6. Forgotten(d) => Excused(d)' BY <1>2, <1>6 DEF Excused
  <2> QED BY <2>2, <2>4, <2>5, <2>6
<1>13. Covered'
  <2> SUFFICES ASSUME NEW d \in Decisions, Live(d)'
               PROVE  (Kept(d) \/ ToScan(d) \/ Owed(d) \/ Excused(d))'
    BY DEF Covered
  <2>1. Live(d) BY <1>6
  <2>2. CASE NoHistory
    <3>1. disk.months[JurOf[d]].cursor \in Nat BY <1>1, <1>6, StateFacts
    <3>2. ToScan(d)' \/ Behind(d)' BY <1>2, <1>3, <1>6, <3>1 DEF ToScan, Behind
    <3> QED BY <1>5, <2>2, <3>2 DEF Excused
  <2>3. CASE ~NoHistory
    <3>1. Kept(d) \/ Owed(d) \/ Excused(d) \/ Unscanned(d) \/ Forgotten(d)
      <4>1. CASE run.pc \in {"scan", "endjur", "save"} BY <1>1, <2>1, <2>3, <4>1 DEF SavedCovers
      <4>2. CASE run.pc \notin {"scan", "endjur", "save"}
        <5>1. mem = disk BY <1>1, <4>2 DEF Manifests, TypeOK, Run
        <5>2. ToScan(d) => Unscanned(d) BY <4>2, <5>1 DEF ToScan, Unscanned
        <5> QED BY <1>1, <2>1, <5>2 DEF Covered
      <4> QED BY <4>1, <4>2
    <3>2. CASE Kept(d) /\ ~Owed(d)
      <4>1. line[d] = LastOp(d) /\ d \notin tomb BY <3>2 DEF Kept
      <4>2. line'[d] = LastOp(d) BY <3>2, <4>1, CutFiles
      <4>3. d \notin tomb' BY <3>2, <4>1, CutTypes
      <4>4. CASE JurOf[d] \notin torn' BY <1>6, <4>2, <4>3, <4>4 DEF Kept
      <4>5. CASE JurOf[d] \in torn' BY <1>2, <1>3, <4>5 DEF ToScan, Excused
      <4> QED BY <4>4, <4>5
    <3> QED BY <1>12, <2>3, <3>1, <3>2
  <2> QED BY <2>2, <2>3
<1>14. Withdrawn'
  <2> SUFFICES ASSUME NEW d \in Decisions, ~Live(d)', line'[d] # 0
               PROVE  d \in tomb' \/ Owed(d)' \/ Excused(d)'
    BY DEF Withdrawn
  <2>1. ~Live(d) BY <1>6
  <2>2. CASE NoHistory BY <1>5, <2>2 DEF Excused, Behind
  <2>3. CASE ~NoHistory /\ Owed(d) BY <1>12, <2>3
  <2>4. CASE ~NoHistory /\ ~Owed(d)
    <3>1. line'[d] = line[d] /\ (d \in tomb' <=> d \in tomb) BY <2>1, <2>4, CutFiles, CutTypes
    <3>2. d \in tomb \/ Excused(d) BY <1>1, <2>1, <2>4, <3>1 DEF Withdrawn
    <3> QED BY <1>12, <2>4, <3>1, <3>2
  <2> QED BY <2>2, <2>3, <2>4
<1>15. TombsOwed'
  <2> SUFFICES ASSUME NEW d \in tomb', Live(d)' PROVE Owed(d)'
    BY <1>3 DEF TombsOwed, Paging
  <2>1. d \in Decisions /\ ~NoHistory BY CutTypes
  <2>2. Live(d) BY <1>6, <2>1
  <2>3. Owed(d) \/ d \in tomb BY <2>1, CutTypes
  <2>4. Owed(d) BY <1>1, <2>2, <2>3 DEF TombsOwed
  <2> QED BY <1>12, <2>1, <2>4
<1> QED BY <1>7, <1>8, <1>9, <1>10, <1>11, <1>13, <1>14, <1>15 DEF IInv
-----------------------------------------------------------------------------
LEMMA StutterStep == ASSUME IInv, UNCHANGED vars PROVE IInv'
<1>1. /\ TypeOK /\ Manifests /\ Past /\ Phases /\ Scanning /\ TornIsScanned
      /\ SavedCovers /\ TombsOwed /\ PageDone /\ Covered /\ Withdrawn
  BY DEF IInv
<1>2. /\ hist' = hist /\ line' = line /\ torn' = torn /\ tomb' = tomb /\ disk' = disk
      /\ mem' = mem /\ run' = run /\ whole' = whole /\ missed' = missed /\ faults' = faults
  BY DEF vars
<1>3. Resume' = Resume /\ (NoHistory' <=> NoHistory) /\ Now' = Now /\ Reach' = Reach
  BY <1>2 DEF Resume, NoHistory, From, Now, Reach
<1>4. ASSUME NEW d \in Decisions
      PROVE  /\ LastOp(d)' = LastOp(d)
             /\ (Live(d)' <=> Live(d))
             /\ (Kept(d)' <=> Kept(d))
             /\ (Owed(d)' <=> Owed(d))
             /\ (Excused(d)' <=> Excused(d))
             /\ (Unscanned(d)' <=> Unscanned(d))
             /\ (Forgotten(d)' <=> Forgotten(d))
             /\ (ToScan(d)' <=> ToScan(d))
  <2>1. LastOp(d)' = LastOp(d) /\ (Live(d)' <=> Live(d)) BY <1>2, Steady
  <2>2. Forgotten(d)' <=> Forgotten(d) BY <1>2 DEF Forgotten
  <2>3. ToScan(d)' <=> ToScan(d) BY <1>2 DEF ToScan
  <2> QED BY <1>2, <1>3, <2>1, <2>2, <2>3, Untouched
<1>5. TypeOK' BY <1>1, <1>2 DEF TypeOK
<1>6. Manifests' BY <1>1, <1>2 DEF Manifests
<1>7. Past' BY <1>1, <1>2 DEF Past, Now
<1>8. Phases' BY <1>1, <1>2, <1>3 DEF Phases, Working, From
<1>9. Scanning' BY <1>1, <1>2 DEF Scanning, Working
<1>10. TornIsScanned' BY <1>1, <1>2 DEF TornIsScanned
<1>11. Covered' BY <1>1, <1>4 DEF Covered
<1>12. Withdrawn' BY <1>1, <1>2, <1>4 DEF Withdrawn
<1>13. SavedCovers' BY <1>1, <1>2, <1>3, <1>4 DEF SavedCovers
<1>14. TombsOwed' BY <1>1, <1>2, <1>3, <1>4 DEF TombsOwed, Paging, TypeOK
<1>15. PageDone' BY <1>1, <1>2, <1>3, <1>4 DEF PageDone, Paging
<1> QED BY <1>5, <1>6, <1>7, <1>8, <1>9, <1>10, <1>11, <1>12, <1>13, <1>14, <1>15 DEF IInv

LEMMA NextIInv == IInv /\ [Next]_vars => IInv'
<1> SUFFICES ASSUME IInv, [Next]_vars PROVE IInv' OBVIOUS
<1>1. CASE Change BY <1>1, ChangeStep
<1>2. CASE Start BY <1>2, StartStep
<1>3. CASE Begin BY <1>3, BeginStep
<1>4. CASE Pass BY <1>4, PassStep
<1>5. CASE Scan BY <1>5, ScanStep
<1>6. CASE EndJur BY <1>6, EndJurStep
<1>7. CASE History BY <1>7, HistoryStep
<1>8. CASE PageEmpty BY <1>8, PageEmptyStep
<1>9. CASE Page BY <1>9, PageStep
<1>10. CASE \E d \in Decisions : Fetch(d) BY <1>10, FetchStep
<1>11. CASE AppendPage BY <1>11, AppendPageStep
<1>12. CASE SavePage BY <1>12, SavePageStep
<1>13. CASE ScanFails BY <1>13, ScanFailsStep
<1>14. CASE \E d \in Decisions : FetchFails(d) BY <1>14, FetchFailsStep
<1>15. CASE Cut BY <1>15, CutStep
<1>16. CASE UNCHANGED vars BY <1>16, StutterStep
<1> QED BY <1>1, <1>2, <1>3, <1>4, <1>5, <1>6, <1>7, <1>8, <1>9, <1>10, <1>11, <1>12, <1>13,
           <1>14, <1>15, <1>16 DEF Next, Work

(* What a run that dies would leave to the next one, at every moment of the  *)
(* runs, the kills and the changes of the service (sync_judilibre).           *)
THEOREM Inductive == Spec => []IInv
BY InitIInv, NextIInv, PTL DEF Spec

(* Every value the downloader keeps has its type (judilibre.rs, manifest.rs).  *)
THEOREM FeedTypeCorrect == Spec => []TypeOK
<1>1. IInv => TypeOK BY DEF IInv
<1> QED BY Inductive, <1>1, PTL

(* Whatever dies and whenever, a decision the service has is in the files in its *)
(* last version, or a scan or the history is still to give it, or it was lost in *)
(* one of the ways named by Excused (sync_judilibre, judilibre.rs:69-177).      *)
THEOREM NothingIsPassedOver == Spec => []Covered
<1>1. IInv => Covered BY DEF IInv
<1> QED BY Inductive, <1>1, PTL

(* A decision the files have and the service no longer has is a tombstone, or     *)
(* the history is still to say so (incremental_global, judilibre.rs:559-569).    *)
THEOREM WithdrawnIsMarked == Spec => []Withdrawn
<1>1. IInv => Withdrawn BY DEF IInv
<1> QED BY Inductive, <1>1, PTL
=============================================================================

------------------------- MODULE IngestStream_proofs -------------------------
(* Proofs about IngestStream, for any decisions, texts and sizes of the    *)
(* batches and channels.                                                   *)
EXTENDS IngestStream, TLAPS

(* Outside a run the stages hold nothing, and a run joins at the end of    *)
(* the file.                                                               *)
AtRest ==
  /\ run.phase # "running" =>
       cand = <<>> /\ buffer = <<>> /\ queue = NoQueue /\ hand = NoHand
  /\ run.phase = "joined" => run.sent = Len(file)

(* Candidates are lines that were read, in the order of the file, those of *)
(* the batch being filled before those of the channel.                     *)
Readable(i) == i <= run.sent /\ file[i].text # Bad

InOrder ==
  /\ \A n \in DOMAIN cand : Readable(cand[n])
  /\ \A n \in DOMAIN buffer : Readable(buffer[n])
  /\ \A m, n \in DOMAIN cand : m < n => cand[m] < cand[n]
  /\ \A m, n \in DOMAIN buffer : m < n => buffer[m] < buffer[n]
  /\ \A m \in DOMAIN buffer, n \in DOMAIN cand : buffer[m] < cand[n]

(* A batch past the triage holds lines that give a text.                   *)
Writable(b) == \A i \in b : i <= run.sent /\ file[i].text \in Texts

BatchesWritable ==
  /\ \A s \in Later : \A n \in DOMAIN queue[s] : Writable(queue[s][n])
  /\ \A s \in Stages : Writable(hand[s])

(* The last line read of a decision is in the base or on its way there.    *)
Pending(i) ==
  \/ \E n \in DOMAIN cand : cand[n] = i
  \/ \E n \in DOMAIN buffer : buffer[n] = i
  \/ \E s \in Later : \E n \in DOMAIN queue[s] : i \in queue[s][n]
  \/ \E s \in Stages : i \in hand[s]

Lasts(i, n) == StandsLast(i, n) /\ file[i].text \in Texts

LastIsOnItsWay ==
  run.phase # "idle" =>
    \A i \in 1 .. run.sent : Lasts(i, run.sent) => db[file[i].uid] # Absent \/ Pending(i)

RunType == [phase : {"idle", "running", "joined"}, all : BOOLEAN, no : 0 .. MaxRuns,
            sent : 0 .. Len(file), errors : BOOLEAN, hydrated : BOOLEAN]

IInv ==
  /\ TypeOK
  /\ AtRest /\ InOrder /\ BatchesWritable
  /\ LastIsOnItsWay /\ MarkedIsServed
-----------------------------------------------------------------------------
LEMMA Sizes ==
  /\ BatchSize \in Nat \ {0} /\ StageQueue \in Nat \ {0} /\ ExtractQueue \in Nat \ {0}
  /\ MaxLines \in Nat /\ MaxRuns \in Nat /\ CandRoom \in Nat
  /\ Room \in [Later -> Nat \ {0}]
<1>1. BatchSize \in Nat /\ StageQueue + 1 \in Nat BY IngestAssumption
<1>2. \A a, b \in Nat : a * b \in Nat BY SMTT(30)
<1> QED BY <1>1, <1>2, IngestAssumption DEF CandRoom, Room, Later

(* The three steps of a batch.                                             *)
LEMMA Steps ==
  /\ DOMAIN After = {"prepare", "embed", "extract"}
  /\ \A s \in DOMAIN After : After[s] \in Later /\ s \in Stages
  /\ Later \subseteq Stages
BY DEF After, Later, Stages

LEMMA FileFacts ==
  ASSUME TypeOK
  PROVE  /\ Len(file) \in Nat /\ DOMAIN file = 1 .. Len(file)
         /\ run.sent \in 0 .. Len(file) /\ marked \in 0 .. Len(file)
         /\ \A i \in 1 .. Len(file) : file[i].uid \in Uids
                /\ file[i].text \in Texts \cup {Empty, Bad}
<1>1. run.sent \in 0 .. Len(file) /\ marked \in 0 .. Len(file)
  BY DEF TypeOK
<1> DEFINE Line == [uid : Uids, text : Texts \cup {Empty, Bad}]
<1>2. file \in Seq(Line)
  BY DEF TypeOK
<1>3. \A l \in Line : l.uid \in Uids /\ l.text \in Texts \cup {Empty, Bad}
  OBVIOUS
<1> HIDE DEF Line
<1>4. Len(file) \in Nat /\ DOMAIN file = 1 .. Len(file) /\ \A i \in 1 .. Len(file) : file[i] \in Line
  BY <1>2
<1> QED BY <1>1, <1>3, <1>4

(* What goes to the batch comes out of the channel, in order.              *)
LEMMA CollectFacts ==
  ASSUME NEW S, NEW b \in Seq(S), NEW c \in Seq(S), NEW t \in Nat, t <= Len(c)
  PROVE  /\ b \o SubSeq(c, 1, t) \in Seq(S) /\ SubSeq(c, t + 1, Len(c)) \in Seq(S)
         /\ Len(b \o SubSeq(c, 1, t)) = Len(b) + t
         /\ Len(SubSeq(c, t + 1, Len(c))) = Len(c) - t
         /\ \A n \in 1 .. Len(b) : (b \o SubSeq(c, 1, t))[n] = b[n]
         /\ \A n \in 1 .. t : (b \o SubSeq(c, 1, t))[Len(b) + n] = c[n]
         /\ \A n \in 1 .. Len(c) - t : SubSeq(c, t + 1, Len(c))[n] = c[t + n]
<1>1. /\ SubSeq(c, 1, t) \in Seq(S) /\ Len(SubSeq(c, 1, t)) = t
      /\ \A n \in 1 .. t : SubSeq(c, 1, t)[n] = c[n]
  OBVIOUS
<1>2. SubSeq(c, t + 1, Len(c)) \in Seq(S)
  OBVIOUS
<1>3. Len(SubSeq(c, t + 1, Len(c))) = Len(c) - t
  OBVIOUS
<1>4. \A n \in 1 .. Len(c) - t : SubSeq(c, t + 1, Len(c))[n] = c[t + n]
  OBVIOUS
<1> QED BY <1>1, <1>2, <1>3, <1>4

LEMMA TakenFacts ==
  ASSUME TypeOK, cand # <<>>, Len(buffer) < BatchSize
  PROVE  /\ Taken \in Nat /\ Taken <= Len(cand) /\ Len(buffer) + Taken <= BatchSize
         /\ Taken >= 1
<1> DEFINE a == BatchSize - Len(buffer)
           b == Len(cand)
<1>1. a \in Nat /\ b \in Nat BY Sizes DEF TypeOK
<1> HIDE DEF a, b
<1>2. \E x \in {a, b} : \A y \in {a, b} : x <= y BY <1>1
<1>3. Min({a, b}) \in {a, b} /\ \A y \in {a, b} : Min({a, b}) <= y
  BY <1>2 DEF Min
<1>4. Taken = Min({a, b}) BY DEF Taken, a, b
<1> USE DEF a, b
<1> QED BY <1>1, <1>3, <1>4, Sizes DEF TypeOK
-----------------------------------------------------------------------------
LEMMA InitIInv == Init => IInv
<1> SUFFICES ASSUME Init PROVE IInv OBVIOUS
<1>1. TypeOK
  <2>1. queue \in [Later -> Seq(Batches \ {{}})] /\ \A s \in Later : Len(queue[s]) <= Room[s]
    BY Sizes DEF Init, NoQueue
  <2> QED BY <2>1, Sizes DEF Init, TypeOK, NoHand, Batches
<1>2. AtRest /\ InOrder /\ BatchesWritable
  BY DEF Init, AtRest, InOrder, BatchesWritable, NoQueue, NoHand, Writable
<1>3. LastIsOnItsWay /\ MarkedIsServed
  BY DEF Init, LastIsOnItsWay, MarkedIsServed
<1> QED BY <1>1, <1>2, <1>3 DEF IInv

LEMMA GrowIInv ==
  ASSUME IInv, Grow
  PROVE  IInv'
<1> USE DEF IInv
<1>1. PICK l \in [uid : Uids, text : Texts \cup {Empty, Bad}] : file' = Append(file, l)
  BY DEF Grow
<1>2. /\ file' \in Seq([uid : Uids, text : Texts \cup {Empty, Bad}])
      /\ Len(file') = Len(file) + 1 /\ \A i \in 1 .. Len(file) : file'[i] = file[i]
  BY <1>1 DEF TypeOK
<1>3. TypeOK'
  BY <1>2, Sizes DEF TypeOK, Grow
<1>4. AtRest' /\ InOrder' /\ BatchesWritable'
  BY DEF Grow, AtRest, InOrder, BatchesWritable, NoQueue, NoHand, Writable
<1>5. LastIsOnItsWay' /\ MarkedIsServed'
  <2>1. marked' = marked /\ \A j \in 1 .. marked : file'[j] = file[j]
    BY <1>2, FileFacts DEF Grow
  <2>2. ASSUME NEW i \in 1 .. marked
        PROVE  StandsLast(i, marked)' <=> StandsLast(i, marked)
    <3>1. \A j \in i + 1 .. marked : j \in 1 .. marked
      BY FileFacts
    <3>2. /\ file'[i].text # Bad <=> file[i].text # Bad
          /\ \A j \in i + 1 .. marked :
               (file'[j].uid = file'[i].uid => file'[j].text = Bad)
                 <=> (file[j].uid = file[i].uid => file[j].text = Bad)
      BY ONLY <2>1, <3>1
    <3> QED BY ONLY <2>1, <3>2 DEF StandsLast
  <2> QED BY <1>2, <2>1, <2>2, FileFacts DEF LastIsOnItsWay, MarkedIsServed, Grow
<1> QED BY <1>3, <1>4, <1>5

LEMMA StartIInv ==
  ASSUME IInv, Start
  PROVE  IInv'
<1> USE DEF IInv
<1>1. PICK all \in BOOLEAN :
        run' = [phase |-> "running", all |-> all, no |-> run.no + 1,
                sent |-> IF all THEN 0 ELSE marked, errors |-> FALSE, hydrated |-> FALSE]
  BY DEF Start
<1>2. /\ run'.phase = "running" /\ run'.sent \in {0, marked}
  BY <1>1
<1>3. TypeOK'
  <2>1. run' \in [phase : {"idle", "running", "joined"}, all : BOOLEAN, no : 0 .. MaxRuns,
              sent : 0 .. Len(file), errors : BOOLEAN, hydrated : BOOLEAN]
    BY <1>1, Sizes DEF TypeOK, Start
  <2> QED BY <2>1 DEF TypeOK, Start
<1>4. AtRest' /\ InOrder' /\ BatchesWritable'
  BY <1>2 DEF Start, AtRest, InOrder, BatchesWritable, NoQueue, NoHand, Writable
<1>5. LastIsOnItsWay' /\ MarkedIsServed'
  BY <1>2 DEF Start, LastIsOnItsWay, MarkedIsServed, Lasts, StandsLast
<1> QED BY <1>3, <1>4, <1>5

(* The line read is the last of its decision: no other that was read is.   *)
LEMMA ProduceIInv ==
  ASSUME IInv, Produce
  PROVE  IInv'
<1> USE DEF IInv
<1>1. PICK i : i = run.sent + 1 OBVIOUS
<1>2. /\ i \in 1 .. Len(file) /\ i \in LineNos /\ run.sent \in Nat
      /\ run.phase = "running"
  BY <1>1, FileFacts, Sizes DEF Produce, TypeOK, LineNos, Running
<1>3. /\ UNCHANGED <<file, db, marked, buffer, queue, hand, before>>
      /\ \/ file[i].text = Bad /\ run' = [run EXCEPT !.sent = i, !.errors = TRUE] /\ cand' = cand
         \/ /\ file[i].text # Bad /\ Len(cand) < CandRoom
            /\ cand' = Append(cand, i) /\ run' = [run EXCEPT !.sent = i]
  BY <1>1 DEF Produce
<1>4. /\ run' \in [phase : {"idle", "running", "joined"}, all : BOOLEAN, no : 0 .. MaxRuns,
              sent : 0 .. Len(file), errors : BOOLEAN, hydrated : BOOLEAN]
      /\ run'.phase = "running" /\ run'.sent = i
  <2>1. PICK r, q : r = run /\ q = run' OBVIOUS
  <2>2. r \in RunType /\ r.phase = "running" /\ i \in 0 .. Len(file)
    BY <1>2, <2>1 DEF TypeOK, RunType
  <2>3. q = [r EXCEPT !.sent = i, !.errors = TRUE] \/ q = [r EXCEPT !.sent = i]
    BY <1>3, <2>1
  <2>4. q \in RunType /\ q.phase = "running" /\ q.sent = i
    BY ONLY <2>2, <2>3 DEF RunType
  <2> QED BY <2>1, <2>4, <1>3 DEF RunType
<1>5. /\ cand \in Seq(LineNos) /\ Len(cand) <= CandRoom /\ cand' \in Seq(LineNos)
      /\ Len(cand') <= CandRoom
  <2>1. cand \in Seq(LineNos) /\ Len(cand) <= CandRoom /\ CandRoom \in Nat
    BY Sizes DEF TypeOK
  <2>2. cand' = cand \/ (cand' = Append(cand, i) /\ Len(cand) < CandRoom)
    BY <1>3
  <2>3. i \in LineNos BY <1>2
  <2> QED BY ONLY <2>1, <2>2, <2>3
<1>6. \/ cand' = cand /\ file[i].text = Bad
      \/ /\ Len(cand') = Len(cand) + 1 /\ cand'[Len(cand) + 1] = i /\ file[i].text # Bad
         /\ \A n \in 1 .. Len(cand) : cand'[n] = cand[n]
  BY <1>2, <1>3, <1>5
<1>7. TypeOK'
  BY <1>3, <1>4, <1>5 DEF TypeOK
<1>8. AtRest'
  BY <1>4 DEF AtRest
<1>9. InOrder'
  <2>0. /\ \A n \in 1 .. Len(cand) : n \in DOMAIN cand /\ cand[n] \in LineNos
        /\ \A n \in DOMAIN buffer : buffer[n] \in LineNos
    <3>1. cand \in Seq(LineNos) /\ buffer \in Seq(LineNos) BY <1>5 DEF TypeOK
    <3> QED BY ONLY <3>1
  <2>7. \A n \in LineNos : n \in Nat BY Sizes DEF LineNos
  <2>8. \A k \in Nat : Readable(k) => k < i /\ file[k].text # Bad
    BY <1>1, <1>2 DEF Readable
  <2>1. \A n \in 1 .. Len(cand) : cand[n] \in Nat /\ cand[n] < i /\ file[cand[n]].text # Bad
    BY <2>0, <2>7, <2>8 DEF InOrder
  <2>2. \A n \in DOMAIN buffer : buffer[n] \in Nat /\ buffer[n] < i /\ file[buffer[n]].text # Bad
    BY <2>0, <2>7, <2>8 DEF InOrder
  <2>3. \A n \in DOMAIN cand' : cand'[n] \in Nat /\ cand'[n] <= i /\ file[cand'[n]].text # Bad
    BY <1>2, <1>5, <1>6, <2>1
  <2>4. \A m, n \in DOMAIN cand' : m < n => cand'[m] < cand'[n]
    BY <1>2, <1>5, <1>6, <2>1 DEF InOrder
  <2>5. \A m \in DOMAIN buffer, n \in DOMAIN cand' : buffer[m] < cand'[n]
    <3> SUFFICES ASSUME NEW m \in DOMAIN buffer, NEW n \in DOMAIN cand'
                 PROVE  buffer[m] < cand'[n]
      OBVIOUS
    <3>1. (n \in DOMAIN cand /\ cand'[n] = cand[n]) \/ cand'[n] = i BY <1>5, <1>6
    <3> QED BY <2>2, <3>1 DEF InOrder
  <2> QED BY <1>3, <1>4, <2>2, <2>3, <2>4, <2>5 DEF InOrder, Readable
<1>10. BatchesWritable'
  BY <1>1, <1>2, <1>3, <1>4 DEF BatchesWritable, Writable, TypeOK, LineNos, Batches
<1>11. LastIsOnItsWay'
  <2> SUFFICES ASSUME NEW j \in 1 .. i, Lasts(j, i), db[file[j].uid] = Absent
               PROVE  Pending(j)'
    BY <1>3, <1>4 DEF LastIsOnItsWay, Lasts, StandsLast
  <2>1. CASE j = i
    BY <1>2, <1>5, <1>6, <2>1 DEF Pending, Lasts, StandsLast
  <2>2. CASE j # i
    <3>1. j \in 1 .. run.sent /\ Lasts(j, run.sent)
      BY <1>1, <1>2, <2>2 DEF Lasts, StandsLast
    <3>2. Pending(j)
      BY <1>2, <3>1 DEF LastIsOnItsWay
    <3>3. \A n \in DOMAIN cand : n \in DOMAIN cand' /\ cand'[n] = cand[n]
      BY <1>5, <1>6
    <3> QED BY <1>3, <3>2, <3>3 DEF Pending
  <2> QED BY <2>1, <2>2
<1>12. MarkedIsServed'
  BY <1>3 DEF MarkedIsServed, StandsLast
<1> QED BY <1>7, <1>8, <1>9, <1>10, <1>11, <1>12

LEMMA CollectIInv ==
  ASSUME IInv, Collect
  PROVE  IInv'
<1> USE DEF IInv
<1>1. PICK t : t = Taken OBVIOUS
<1>2. t \in Nat /\ t <= Len(cand) /\ Len(buffer) + t <= BatchSize
  BY <1>1, TakenFacts DEF Collect
<1>3. /\ buffer' = buffer \o SubSeq(cand, 1, t) /\ cand' = SubSeq(cand, t + 1, Len(cand))
      /\ UNCHANGED <<file, db, marked, run, queue, hand, before>> /\ run.phase = "running"
  BY <1>1 DEF Collect, Running
<1>4. /\ cand \in Seq(LineNos) /\ buffer \in Seq(LineNos) /\ Len(cand) <= CandRoom
  BY DEF TypeOK
<1>5. /\ buffer' \in Seq(LineNos) /\ cand' \in Seq(LineNos)
      /\ Len(buffer') = Len(buffer) + t /\ Len(cand') = Len(cand) - t
      /\ \A n \in 1 .. Len(buffer) : buffer'[n] = buffer[n]
      /\ \A n \in 1 .. t : buffer'[Len(buffer) + n] = cand[n]
      /\ \A n \in 1 .. Len(cand) - t : cand'[n] = cand[t + n]
  BY <1>2, <1>3, <1>4, CollectFacts
<1>6. TypeOK'
  <2>1. Len(cand) \in Nat /\ CandRoom \in Nat BY <1>4, Sizes
  <2>2. Len(cand') <= CandRoom BY ONLY <1>2, <1>4, <1>5, <2>1
  <2>3. Len(buffer') <= BatchSize BY <1>2, <1>5
  <2> QED BY <1>3, <1>5, <2>2, <2>3 DEF TypeOK
<1>7. AtRest'
  BY <1>3 DEF AtRest
<1>8. \A n \in DOMAIN buffer' : \/ n \in DOMAIN buffer /\ buffer'[n] = buffer[n]
                                \/ /\ n - Len(buffer) \in DOMAIN cand /\ n - Len(buffer) <= t
                                   /\ buffer'[n] = cand[n - Len(buffer)] /\ n > Len(buffer)
  <2> SUFFICES ASSUME NEW n \in DOMAIN buffer', n > Len(buffer)
               PROVE  /\ n - Len(buffer) \in 1 .. t
                      /\ buffer'[n] = cand[n - Len(buffer)]
    BY <1>2, <1>4, <1>5
  <2>1. n - Len(buffer) \in 1 .. t BY <1>2, <1>4, <1>5
  <2>2. PICK m : m = n - Len(buffer) OBVIOUS
  <2>3. n = Len(buffer) + m BY <1>4, <1>5, <2>2
  <2> QED BY <1>5, <2>1, <2>2, <2>3
<1>9. \A n \in DOMAIN cand' : t + n \in DOMAIN cand /\ cand'[n] = cand[t + n]
  BY <1>2, <1>4, <1>5
<1>10. InOrder'
  <2>1. \A n \in DOMAIN cand' : Readable(cand'[n])
    BY <1>9 DEF InOrder
  <2>2. \A n \in DOMAIN buffer' : Readable(buffer'[n])
    BY <1>8 DEF InOrder
  <2>3. \A m, n \in DOMAIN cand' : m < n => cand'[m] < cand'[n]
    BY <1>2, <1>5, <1>9 DEF InOrder
  <2>4. \A m, n \in DOMAIN buffer' : m < n => buffer'[m] < buffer'[n]
    <3> SUFFICES ASSUME NEW m \in DOMAIN buffer', NEW n \in DOMAIN buffer', m < n
                 PROVE  buffer'[m] < buffer'[n]
      OBVIOUS
    <3>1. /\ m \in Nat /\ n \in Nat /\ Len(buffer) \in Nat
          /\ \A k \in Nat : k \in DOMAIN buffer => k <= Len(buffer)
      BY <1>4, <1>5
    <3>2. CASE n \in DOMAIN buffer /\ buffer'[n] = buffer[n]
      <4>1. m \in DOMAIN buffer /\ buffer'[m] = buffer[m]
        BY <1>8, <3>1, <3>2
      <4> QED BY <3>2, <4>1 DEF InOrder
    <3>3. CASE n > Len(buffer) /\ n - Len(buffer) \in DOMAIN cand
               /\ buffer'[n] = cand[n - Len(buffer)]
      <4>1. CASE m \in DOMAIN buffer /\ buffer'[m] = buffer[m]
        BY <3>3, <4>1 DEF InOrder
      <4>2. CASE m > Len(buffer) /\ m - Len(buffer) \in DOMAIN cand
                 /\ buffer'[m] = cand[m - Len(buffer)]
        <5>1. m - Len(buffer) < n - Len(buffer) BY <3>1
        <5> QED BY <3>3, <4>2, <5>1 DEF InOrder
      <4> QED BY <1>8, <4>1, <4>2
    <3> QED BY <1>8, <3>2, <3>3
  <2>5. \A m \in DOMAIN buffer', n \in DOMAIN cand' : buffer'[m] < cand'[n]
    BY <1>2, <1>4, <1>5, <1>8, <1>9 DEF InOrder
  <2> QED BY <1>3, <2>1, <2>2, <2>3, <2>4, <2>5 DEF InOrder, Readable
<1>11. BatchesWritable'
  BY <1>3 DEF BatchesWritable, Writable
<1>12. LastIsOnItsWay'
  <2>1. ASSUME NEW j, Pending(j) PROVE Pending(j)'
    <3>1. CASE \E n \in DOMAIN cand : cand[n] = j
      <4>1. PICK n \in DOMAIN cand : cand[n] = j BY <3>1
      <4>2. CASE n <= t
        <5>1. n \in 1 .. t /\ Len(buffer) + n \in DOMAIN buffer'
          BY <1>2, <1>4, <1>5, <4>2
        <5> QED BY <1>5, <4>1, <5>1 DEF Pending
      <4>3. CASE n > t
        <5>1. PICK m : m = n - t OBVIOUS
        <5>2. m \in 1 .. Len(cand) - t /\ n = t + m /\ m \in DOMAIN cand'
          BY <1>2, <1>4, <1>5, <4>3, <5>1
        <5> QED BY <1>5, <4>1, <5>2 DEF Pending
      <4> QED BY <1>2, <1>4, <4>2, <4>3
    <3>2. CASE \E n \in DOMAIN buffer : buffer[n] = j
      <4>1. \A n \in DOMAIN buffer : n \in DOMAIN buffer' /\ buffer'[n] = buffer[n]
        BY <1>2, <1>4, <1>5
      <4> QED BY <3>2, <4>1 DEF Pending
    <3> QED BY <1>3, <2>1, <3>1, <3>2 DEF Pending
  <2> QED BY <1>3, <2>1 DEF LastIsOnItsWay, Lasts, StandsLast
<1>13. MarkedIsServed'
  BY <1>3 DEF MarkedIsServed, StandsLast
<1> QED BY <1>6, <1>7, <1>10, <1>11, <1>12, <1>13

(* A line that gives its decision its last text passes the triage, or the  *)
(* base has that text already.                                             *)
LEMMA PrepareIInv ==
  ASSUME IInv, Prepare
  PROVE  IInv'
<1> USE DEF IInv
<1>1. PICK b : b = {i \in LastOf(buffer) : Survives(i) /\ file[i].text # Empty} OBVIOUS
<1>2. /\ buffer' = <<>> /\ hand' = [hand EXCEPT !["prepare"] = b] /\ hand["prepare"] = {}
      /\ UNCHANGED <<file, db, marked, run, cand, queue, before>> /\ run.phase = "running"
  BY <1>1 DEF Prepare, Running
<1>3. /\ buffer \in Seq(LineNos) /\ \A n \in DOMAIN buffer : buffer[n] \in LineNos /\ n \in Nat
      /\ \A n \in LineNos : n \in Nat
  <2>1. buffer \in Seq(LineNos) BY DEF TypeOK
  <2>2. \A n \in LineNos : n \in Nat BY Sizes DEF LineNos
  <2> QED BY ONLY <2>1, <2>2
<1>4. \A i \in b : \E n \in DOMAIN buffer : buffer[n] = i
  BY <1>1 DEF LastOf
<1>5. b \in Batches
  BY <1>3, <1>4 DEF Batches
<1>6. \A i \in b : i <= run.sent /\ file[i].text \in Texts
  <2> SUFFICES ASSUME NEW i \in b PROVE i <= run.sent /\ file[i].text \in Texts
    OBVIOUS
  <2>1. i \in LineNos /\ i \in Nat /\ i >= 1 /\ Readable(i) /\ file[i].text # Empty
    BY <1>1, <1>3, <1>4, Sizes DEF InOrder, LineNos
  <2>2. i \in 1 .. Len(file)
    BY <2>1, FileFacts DEF Readable
  <2> QED BY <2>1, <2>2, FileFacts DEF Readable
<1>7. /\ hand' \in [Stages -> Batches] /\ hand'["prepare"] = b
      /\ \A s \in Stages \ {"prepare"} : hand'[s] = hand[s]
  BY <1>2, <1>5 DEF TypeOK, Stages
<1>8. TypeOK'
  BY <1>2, <1>7, Sizes DEF TypeOK
<1>9. AtRest'
  BY <1>2 DEF AtRest
<1>10. InOrder'
  BY <1>2 DEF InOrder, Readable
<1>11. BatchesWritable'
  BY <1>2, <1>6, <1>7 DEF BatchesWritable, Writable
<1>12. LastIsOnItsWay'
  <2>0. "prepare" \in Stages BY DEF Stages
  <2> SUFFICES ASSUME NEW j \in 1 .. run.sent, Lasts(j, run.sent), db[file[j].uid] = Absent,
                      ~Pending(j)'
               PROVE  FALSE
    BY <1>2 DEF LastIsOnItsWay, Lasts, StandsLast
  <2>1. Pending(j)
    BY <1>2 DEF LastIsOnItsWay
  <2>2. CASE \E n \in DOMAIN buffer : buffer[n] = j
    <3>1. PICK x \in DOMAIN buffer : buffer[x] = j BY <2>2
    <3>2. \A y \in DOMAIN buffer : y > x => file[buffer[y]].uid # file[buffer[x]].uid
      <4> SUFFICES ASSUME NEW y \in DOMAIN buffer, y > x, file[buffer[y]].uid = file[j].uid
                   PROVE  FALSE
        BY <3>1
      <4>1. j < buffer[y] /\ Readable(buffer[y]) /\ buffer[y] \in Nat
        BY <1>3, <3>1 DEF InOrder
      <4>2. run.sent \in Nat BY FileFacts
      <4>3. buffer[y] \in j + 1 .. run.sent BY <4>1, <4>2 DEF Readable
      <4> QED BY <4>1, <4>3 DEF Lasts, StandsLast, Readable
    <3>3. j \in LastOf(buffer) BY <3>1, <3>2 DEF LastOf
    <3>4. file[j].text \in Texts /\ file[j].text # Empty /\ Survives(j)
      BY IngestAssumption DEF Lasts, Survives, Differs, Absent, Empty
    <3>5. j \in hand'["prepare"] BY <1>1, <1>7, <3>3, <3>4
    <3> QED BY <2>0, <3>5 DEF Pending
  <2>3. CASE \E s \in Stages : j \in hand[s]
    BY <1>2, <1>7, <2>3 DEF Pending
  <2> QED BY <1>2, <2>1, <2>2, <2>3 DEF Pending
<1>13. MarkedIsServed'
  BY <1>2 DEF MarkedIsServed, StandsLast
<1> QED BY <1>8, <1>9, <1>10, <1>11, <1>12, <1>13

LEMMA HydrateIInv ==
  ASSUME IInv, Hydrate
  PROVE  IInv'
<1> USE DEF IInv
<1>1. UNCHANGED <<file, db, marked, cand, buffer, queue, hand, before>>
      /\ run' = [run EXCEPT !.hydrated = TRUE] /\ run \in RunType
  BY DEF Hydrate, TypeOK, RunType
<1>2. run' \in RunType /\ run'.phase = run.phase /\ run'.sent = run.sent
  BY <1>1 DEF RunType
<1>3. TypeOK'
  BY <1>1, <1>2 DEF TypeOK, RunType
<1>4. AtRest' /\ InOrder' /\ BatchesWritable'
  BY <1>1, <1>2 DEF AtRest, InOrder, BatchesWritable, Readable, Writable
<1>5. LastIsOnItsWay' /\ MarkedIsServed'
  BY <1>1, <1>2 DEF LastIsOnItsWay, MarkedIsServed, Lasts, StandsLast, Pending
<1> QED BY <1>3, <1>4, <1>5

(* The queues of batches, as sequences.                                    *)
LEMMA QueueFacts ==
  ASSUME NEW S, NEW q \in Seq(S)
  PROVE  /\ q # <<>> => /\ Head(q) \in S /\ Head(q) = q[1] /\ 1 \in DOMAIN q /\ Tail(q) \in Seq(S)
                        /\ Len(Tail(q)) = Len(q) - 1
                        /\ \A n \in DOMAIN Tail(q) : n + 1 \in DOMAIN q /\ Tail(q)[n] = q[n + 1]
                        /\ \A n \in DOMAIN q : n = 1 \/ (n - 1 \in DOMAIN Tail(q) /\ Tail(q)[n - 1] = q[n])
         /\ \A x \in S : /\ Append(q, x) \in Seq(S) /\ Len(Append(q, x)) = Len(q) + 1
                         /\ Append(q, x)[Len(q) + 1] = x /\ Len(q) + 1 \in DOMAIN Append(q, x)
                         /\ \A n \in DOMAIN q : n \in DOMAIN Append(q, x) /\ Append(q, x)[n] = q[n]
                         /\ \A n \in DOMAIN Append(q, x) : n = Len(q) + 1 \/ n \in DOMAIN q
         /\ Len(q) \in Nat
  OBVIOUS

LEMMA ReceiveIInv ==
  ASSUME IInv, NEW s \in Later, Receive(s)
  PROVE  IInv'
<1> USE DEF IInv
<1>1. /\ queue \in [Later -> Seq(Batches \ {{}})] /\ hand \in [Stages -> Batches]
      /\ s \in Stages /\ \A q \in Later : Len(queue[q]) <= Room[q]
  BY Steps DEF TypeOK
<1>2. PICK x, y : x = Head(queue[s]) /\ y = Tail(queue[s]) OBVIOUS
<1>3. /\ hand' = [hand EXCEPT ![s] = x] /\ queue' = [queue EXCEPT ![s] = y]
      /\ queue[s] # <<>> /\ hand[s] = {} /\ run.phase = "running"
      /\ UNCHANGED <<file, db, marked, run, cand, buffer, before>>
  BY <1>1, <1>2 DEF Receive, Running
<1>4. /\ x \in Batches \ {{}} /\ x = queue[s][1] /\ 1 \in DOMAIN queue[s]
      /\ y \in Seq(Batches \ {{}}) /\ Len(y) = Len(queue[s]) - 1
      /\ \A n \in DOMAIN y : n + 1 \in DOMAIN queue[s] /\ y[n] = queue[s][n + 1]
      /\ \A n \in DOMAIN queue[s] : n = 1 \/ (n - 1 \in DOMAIN y /\ y[n - 1] = queue[s][n])
      /\ Len(queue[s]) \in Nat
  <2>1. queue[s] \in Seq(Batches \ {{}}) BY <1>1
  <2> QED BY <1>2, <1>3, <2>1, QueueFacts
<1>5. /\ queue' \in [Later -> Seq(Batches \ {{}})] /\ hand' \in [Stages -> Batches]
      /\ queue'[s] = y /\ \A q \in Later \ {s} : queue'[q] = queue[q]
      /\ hand'[s] = x /\ \A q \in Stages \ {s} : hand'[q] = hand[q]
  BY <1>1, <1>3, <1>4
<1>6. TypeOK'
  <2>0. Room[s] \in Nat BY Sizes
  <2>1. Len(y) <= Room[s] BY <1>1, <1>4, <2>0
  <2>2. \A q \in Later : Len(queue'[q]) <= Room[q]
    BY <1>1, <1>5, <2>1
  <2> QED BY <1>3, <1>5, <2>2 DEF TypeOK
<1>7. AtRest' /\ InOrder' /\ MarkedIsServed'
  BY <1>3 DEF AtRest, InOrder, Readable, MarkedIsServed, StandsLast
<1>8. BatchesWritable'
  <2>1. Writable(x) BY <1>4 DEF BatchesWritable
  <2>2. \A n \in DOMAIN y : Writable(y[n]) BY <1>4 DEF BatchesWritable
  <2> QED BY <1>3, <1>5, <2>1, <2>2 DEF BatchesWritable, Writable
<1>9. LastIsOnItsWay'
  <2>1. ASSUME NEW j, Pending(j) PROVE Pending(j)'
    <3>1. CASE \E q \in Later : \E n \in DOMAIN queue[q] : j \in queue[q][n]
      <4>1. PICK q \in Later : \E n \in DOMAIN queue[q] : j \in queue[q][n] BY <3>1
      <4>2. CASE q = s
        <5>1. PICK n \in DOMAIN queue[s] : j \in queue[s][n] BY <4>1, <4>2
        <5>2. j \in x \/ \E m \in DOMAIN y : j \in y[m] BY <1>4, <5>1
        <5> QED BY <1>1, <1>5, <5>2 DEF Pending
      <4>3. CASE q # s BY <1>5, <4>1, <4>3 DEF Pending
      <4> QED BY <4>2, <4>3
    <3>2. CASE \E q \in Stages : j \in hand[q]
      BY <1>3, <1>5, <3>2 DEF Pending
    <3> QED BY <1>3, <2>1, <3>1, <3>2 DEF Pending
  <2> QED BY <1>3, <2>1 DEF LastIsOnItsWay, Lasts, StandsLast
<1> QED BY <1>6, <1>7, <1>8, <1>9

LEMMA SendIInv ==
  ASSUME IInv, NEW s \in DOMAIN After, Send(s)
  PROVE  IInv'
<1> USE DEF IInv
<1>1. PICK d, x, y : d = After[s] /\ x = hand[s] /\ y = Append(queue[d], x) OBVIOUS
<1>2. /\ queue \in [Later -> Seq(Batches \ {{}})] /\ hand \in [Stages -> Batches]
      /\ s \in Stages /\ d \in Later /\ \A q \in Later : Len(queue[q]) <= Room[q]
  BY <1>1, Steps DEF TypeOK
<1>3. /\ hand' = [hand EXCEPT ![s] = {}] /\ queue' = [queue EXCEPT ![d] = y]
      /\ x # {} /\ Len(queue[d]) < Room[d] /\ run.phase = "running"
      /\ UNCHANGED <<file, db, marked, run, cand, buffer, before>>
  BY <1>1, <1>2 DEF Send, Running
<1>4. /\ x \in Batches \ {{}} /\ y \in Seq(Batches \ {{}}) /\ Len(y) = Len(queue[d]) + 1
      /\ y[Len(queue[d]) + 1] = x /\ Len(queue[d]) + 1 \in DOMAIN y
      /\ \A n \in DOMAIN queue[d] : n \in DOMAIN y /\ y[n] = queue[d][n]
      /\ \A n \in DOMAIN y : n = Len(queue[d]) + 1 \/ n \in DOMAIN queue[d]
      /\ Len(queue[d]) \in Nat
  <2>1. x \in Batches \ {{}} BY <1>1, <1>2, <1>3
  <2>2. queue[d] \in Seq(Batches \ {{}}) BY <1>2
  <2> QED BY <1>1, <2>1, <2>2, QueueFacts
<1>5. /\ queue' \in [Later -> Seq(Batches \ {{}})] /\ hand' \in [Stages -> Batches]
      /\ queue'[d] = y /\ \A q \in Later \ {d} : queue'[q] = queue[q]
      /\ hand'[s] = {} /\ \A q \in Stages \ {s} : hand'[q] = hand[q]
  <2>1. {} \in Batches BY DEF Batches
  <2> QED BY <1>2, <1>3, <1>4, <2>1
<1>6. TypeOK'
  <2>1. \A q \in Later : Len(queue'[q]) <= Room[q]
    BY <1>2, <1>3, <1>4, <1>5, Sizes
  <2> QED BY <1>3, <1>5, <2>1 DEF TypeOK
<1>7. AtRest' /\ InOrder' /\ MarkedIsServed'
  BY <1>3 DEF AtRest, InOrder, Readable, MarkedIsServed, StandsLast
<1>8. BatchesWritable'
  <2>1. Writable(x) BY <1>1, <1>2 DEF BatchesWritable
  <2>2. \A n \in DOMAIN y : Writable(y[n]) BY <1>2, <1>4, <2>1 DEF BatchesWritable
  <2>3. Writable({}) BY DEF Writable
  <2> QED BY <1>3, <1>5, <2>2, <2>3 DEF BatchesWritable, Writable
<1>9. LastIsOnItsWay'
  <2>1. ASSUME NEW j, Pending(j) PROVE Pending(j)'
    <3>1. CASE \E q \in Later : \E n \in DOMAIN queue[q] : j \in queue[q][n]
      <4>0. PICK q \in Later : \E n \in DOMAIN queue[q] : j \in queue[q][n] BY <3>1
      <4>1. PICK n \in DOMAIN queue[q] : j \in queue[q][n] BY <4>0
      <4>2. n \in DOMAIN queue'[q] /\ j \in queue'[q][n] BY <1>4, <1>5, <4>1
      <4> QED BY <4>2 DEF Pending
    <3>2. CASE \E q \in Stages : j \in hand[q]
      <4>1. PICK q \in Stages : j \in hand[q] BY <3>2
      <4>2. CASE q = s
        <5>1. j \in queue'[d][Len(queue[d]) + 1] /\ Len(queue[d]) + 1 \in DOMAIN queue'[d]
          BY <1>1, <1>4, <1>5, <4>1, <4>2
        <5> QED BY <1>2, <5>1 DEF Pending
      <4>3. CASE q # s BY <1>5, <4>1, <4>3 DEF Pending
      <4> QED BY <4>2, <4>3
    <3> QED BY <1>3, <2>1, <3>1, <3>2 DEF Pending
  <2> QED BY <1>3, <2>1 DEF LastIsOnItsWay, Lasts, StandsLast
<1> QED BY <1>6, <1>7, <1>8, <1>9

(* A commit takes nothing out of the base, and puts there all it had in    *)
(* hand.                                                                   *)
LEMMA CommitIInv ==
  ASSUME IInv, Commit
  PROVE  IInv'
<1> USE DEF IInv
<1>1. PICK b : b = hand["write"] OBVIOUS
<1>2. /\ hand' = [hand EXCEPT !["write"] = {}] /\ run.phase = "running"
      /\ UNCHANGED <<file, marked, run, cand, buffer, queue, before>>
      /\ db' = Written(b)
  BY <1>1 DEF Commit, Running
<1>3. "write" \in Stages /\ hand \in [Stages -> Batches] /\ {} \in Batches
  BY DEF TypeOK, Stages, Batches
<1>4. /\ hand' \in [Stages -> Batches] /\ hand'["write"] = {}
      /\ \A q \in Stages \ {"write"} : hand'[q] = hand[q]
  BY <1>2, <1>3
<1>5. Writable(b)
  BY <1>1, <1>3 DEF BatchesWritable
<1>6. \A u \in Uids :
        IF \E i \in b : file[i].uid = u THEN db'[u] \in Texts ELSE db'[u] = db[u]
  BY <1>2, <1>5 DEF Written, Writable
<1>7. Absent \notin Texts BY IngestAssumption
<1>8. \A u \in Uids : db[u] # Absent => db'[u] # Absent
  BY <1>6, <1>7
<1>9. TypeOK'
  <2>1. db' \in [Uids -> Texts \cup {Absent}]
    <3>1. \A u \in Uids : db'[u] \in Texts \cup {Absent} BY <1>6 DEF TypeOK
    <3>2. db' = [u \in Uids |-> db'[u]] BY <1>2 DEF Written
    <3> QED BY <3>1, <3>2
  <2> QED BY <1>2, <1>4, <2>1 DEF TypeOK
<1>10. AtRest' /\ InOrder'
  BY <1>2 DEF AtRest, InOrder, Readable
<1>11. BatchesWritable'
  <2>1. Writable({}) BY DEF Writable
  <2> QED BY <1>2, <1>4, <2>1 DEF BatchesWritable, Writable
<1>12. LastIsOnItsWay'
  <2> SUFFICES ASSUME NEW j \in 1 .. run.sent, Lasts(j, run.sent), db'[file[j].uid] = Absent
               PROVE  Pending(j)'
    BY <1>2 DEF LastIsOnItsWay, Lasts, StandsLast
  <2>1. file[j].uid \in Uids BY FileFacts
  <2>2. Pending(j) BY <1>2, <1>8, <2>1 DEF LastIsOnItsWay
  <2>3. j \notin hand["write"] BY <1>1, <1>6, <1>7, <2>1
  <2> QED BY <1>2, <1>4, <2>2, <2>3 DEF Pending
<1>13. MarkedIsServed'
  <2> SUFFICES ASSUME NEW i \in 1 .. marked, StandsLast(i, marked), file[i].text \in Texts
               PROVE  db'[file[i].uid] # Absent
    BY <1>2 DEF MarkedIsServed, StandsLast
  <2>1. file[i].uid \in Uids BY FileFacts
  <2> QED BY <1>8, <2>1 DEF MarkedIsServed
<1> QED BY <1>9, <1>10, <1>11, <1>12, <1>13

LEMMA JoinIInv ==
  ASSUME IInv, Join
  PROVE  IInv'
<1> USE DEF IInv
<1>1. /\ UNCHANGED <<file, db, marked, cand, buffer, queue, before>>
      /\ cand = <<>> /\ buffer = <<>> /\ queue = NoQueue /\ hand = NoHand /\ hand' = hand
      /\ run.phase = "running" /\ run.sent = Len(file)
      /\ run' = [run EXCEPT !.phase = "joined"] /\ run \in RunType
  BY DEF Join, Joined, Closed, Running, TypeOK, RunType
<1>2. run' \in RunType /\ run'.phase = "joined" /\ run'.sent = run.sent
  BY <1>1 DEF RunType
<1>3. TypeOK'
  BY <1>1, <1>2 DEF TypeOK, RunType
<1>4. AtRest' /\ InOrder' /\ BatchesWritable'
  BY <1>1, <1>2 DEF AtRest, InOrder, BatchesWritable, Readable, Writable
<1>5. LastIsOnItsWay' /\ MarkedIsServed'
  BY <1>1, <1>2 DEF LastIsOnItsWay, MarkedIsServed, Lasts, StandsLast, Pending
<1> QED BY <1>3, <1>4, <1>5

(* The end of a run, which says nothing of the lines on their way.         *)
LEMMA RestFacts ==
  ASSUME IInv, run' = Rest, UNCHANGED file
  PROVE  run' \in RunType' /\ run'.phase = "idle" /\ run'.sent = run.sent
<1>1. run \in RunType BY DEF IInv, TypeOK, RunType
<1> QED BY <1>1 DEF Rest, RunType

(* Nothing is on its way once every loop has returned.                     *)
LEMMA MarkIInv ==
  ASSUME IInv, Mark
  PROVE  IInv'
<1> USE DEF IInv
<1>1. /\ UNCHANGED <<file, db, cand, buffer, queue, hand, before>>
      /\ marked' = Len(file) /\ run' = Rest /\ run.phase = "joined" /\ run.sent = Len(file)
      /\ cand = <<>> /\ buffer = <<>> /\ queue = NoQueue /\ hand = NoHand
  BY DEF Mark, AtRest
<1>2. run' \in RunType' /\ run'.phase = "idle"
  BY <1>1, RestFacts
<1>3. TypeOK'
  BY <1>1, <1>2, FileFacts DEF TypeOK, RunType
<1>4. AtRest' /\ InOrder' /\ BatchesWritable' /\ LastIsOnItsWay'
  BY <1>1, <1>2 DEF AtRest, InOrder, BatchesWritable, Writable, NoQueue, NoHand, LastIsOnItsWay
<1>5. \A i : ~Pending(i)
  BY <1>1 DEF Pending, NoQueue, NoHand
<1>6. MarkedIsServed'
  <2> SUFFICES ASSUME NEW i \in 1 .. Len(file), StandsLast(i, Len(file)), file[i].text \in Texts
               PROVE  db[file[i].uid] # Absent
    BY <1>1 DEF MarkedIsServed, StandsLast
  <2>1. i \in 1 .. run.sent /\ Lasts(i, run.sent) BY <1>1 DEF Lasts
  <2> QED BY <1>1, <1>5, <2>1 DEF LastIsOnItsWay
<1> QED BY <1>3, <1>4, <1>6

LEMMA LeaveUnmarkedIInv ==
  ASSUME IInv, LeaveUnmarked
  PROVE  IInv'
<1> USE DEF IInv
<1>1. /\ UNCHANGED <<file, db, marked, cand, buffer, queue, hand, before>>
      /\ run' = Rest /\ run.phase = "joined"
      /\ cand = <<>> /\ buffer = <<>> /\ queue = NoQueue /\ hand = NoHand
  BY DEF LeaveUnmarked, AtRest
<1>2. run' \in RunType' /\ run'.phase = "idle"
  BY <1>1, RestFacts
<1>3. TypeOK'
  BY <1>1, <1>2 DEF TypeOK, RunType
<1>4. AtRest' /\ InOrder' /\ BatchesWritable' /\ LastIsOnItsWay' /\ MarkedIsServed'
  BY <1>1, <1>2 DEF AtRest, InOrder, BatchesWritable, Writable, NoQueue, NoHand, LastIsOnItsWay,
                    MarkedIsServed, StandsLast
<1> QED BY <1>3, <1>4

LEMMA FailIInv ==
  ASSUME IInv, Fail
  PROVE  IInv'
<1> USE DEF IInv
<1>1. /\ UNCHANGED <<file, db, marked, before>> /\ run' = Rest
      /\ cand' = <<>> /\ buffer' = <<>> /\ queue' = NoQueue /\ hand' = NoHand
  BY DEF Fail
<1>2. run' \in RunType' /\ run'.phase = "idle"
  BY <1>1, RestFacts
<1>3. TypeOK'
  <2>1. /\ queue' \in [Later -> Seq(Batches \ {{}})] /\ \A s \in Later : Len(queue'[s]) <= Room[s]
        /\ hand' \in [Stages -> Batches]
    BY <1>1, Sizes DEF NoQueue, NoHand, Batches
  <2>2. cand' \in Seq(LineNos) /\ Len(cand') <= CandRoom /\ buffer' \in Seq(LineNos)
        /\ Len(buffer') <= BatchSize
    BY <1>1, Sizes
  <2> QED BY <1>1, <1>2, <2>1, <2>2 DEF TypeOK, RunType
<1>4. AtRest' /\ InOrder' /\ BatchesWritable' /\ LastIsOnItsWay' /\ MarkedIsServed'
  BY <1>1, <1>2 DEF AtRest, InOrder, BatchesWritable, Writable, NoQueue, NoHand, LastIsOnItsWay,
                    MarkedIsServed, StandsLast
<1> QED BY <1>3, <1>4
-----------------------------------------------------------------------------
LEMMA NextIInv == IInv /\ [Next]_vars => IInv'
<1> SUFFICES ASSUME IInv, [Next]_vars PROVE IInv' OBVIOUS
<1>1. CASE Grow BY <1>1, GrowIInv
<1>2. CASE Start BY <1>2, StartIInv
<1>3. CASE Produce BY <1>3, ProduceIInv
<1>4. CASE Collect BY <1>4, CollectIInv
<1>5. CASE Prepare BY <1>5, PrepareIInv
<1>6. CASE Hydrate BY <1>6, HydrateIInv
<1>7. CASE \E s \in Later : Receive(s) BY <1>7, ReceiveIInv
<1>8. CASE \E s \in DOMAIN After : Send(s) BY <1>8, SendIInv
<1>9. CASE Commit BY <1>9, CommitIInv
<1>10. CASE Join BY <1>10, JoinIInv
<1>11. CASE Mark BY <1>11, MarkIInv
<1>12. CASE LeaveUnmarked BY <1>12, LeaveUnmarkedIInv
<1>13. CASE Fail BY <1>13, FailIInv
<1>14. CASE UNCHANGED vars
  BY <1>14 DEF vars, IInv, TypeOK, AtRest, InOrder, BatchesWritable, LastIsOnItsWay,
               MarkedIsServed, Readable, Writable, Lasts, StandsLast, Pending
<1> QED BY <1>1, <1>2, <1>3, <1>4, <1>5, <1>6, <1>7, <1>8, <1>9, <1>10, <1>11, <1>12,
           <1>13, <1>14 DEF Next

LEMMA Inductive == Spec => []IInv
<1>1. Init => IInv BY InitIInv
<1>2. IInv /\ [Next]_vars => IInv' BY NextIInv
<1> QED BY <1>1, <1>2, PTL DEF Spec

(* The places a line goes through, from the channel of the producer down   *)
(* to the hand of the writer.                                              *)
HandPlace  == [s \in Stages |-> CASE s = "write" -> 1 [] s = "extract" -> 3
                                  [] s = "embed" -> 5 [] s = "prepare" -> 7]
QueuePlace == [s \in Later |-> HandPlace[s] + 1]

At(r, i) ==
  \/ \E s \in Stages : r = HandPlace[s] /\ i \in hand[s]
  \/ \E s \in Later : r = QueuePlace[s] /\ \E n \in DOMAIN queue[s] : i \in queue[s][n]
  \/ r = 8 /\ \E n \in DOMAIN buffer : buffer[n] = i
  \/ r = 9 /\ \E n \in DOMAIN cand : cand[n] = i

(* What is on its way was read by this run, and a line never overtakes one *)
(* that comes before it in the file.                                       *)
From == IF run.all THEN 0 ELSE marked

ReadNow ==
  \A r \in 1 .. 9, i \in LineNos : At(r, i) =>
    From < i /\ i <= run.sent /\ file[i].text # Bad

FileOrder ==
  /\ \A r, q \in 1 .. 9 : r < q => \A i, j \in LineNos : At(r, i) /\ At(q, j) => i < j
  /\ \A s \in Later : \A m, n \in DOMAIN queue[s] : m < n =>
       \A i \in queue[s][m], j \in queue[s][n] : i < j

(* A batch has one line of a decision.                                     *)
Distinct(b) == \A i, j \in b : file[i].uid = file[j].uid => i = j

OneEach ==
  /\ \A s \in Later : \A n \in DOMAIN queue[s] : Distinct(queue[s][n])
  /\ \A s \in Stages : Distinct(hand[s])

(* What the base holds was there when the run started, or comes from a line*)
(* of the run that is before all those the triage has not seen.            *)
CameFrom(u) ==
  \/ db[u] = before[u]
  \/ \E j \in From + 1 .. run.sent :
       /\ file[j].uid = u /\ file[j].text = db[u]
       /\ \A k \in LineNos : At(8, k) \/ At(9, k) => j < k

Origin == run.phase # "idle" => \A u \in Uids : CameFrom(u)

(* The last line a run read of a decision is on its way, goes back to an   *)
(* earlier text, or is in the base with no other line to come.             *)
Landed(i) ==
  /\ db[file[i].uid] = file[i].text
  /\ \A r \in 1 .. 9, j \in LineNos : At(r, j) => file[j].uid # file[i].uid

LastWins ==
  run.phase # "idle" => \A i \in From + 1 .. run.sent : Lasts(i, run.sent) =>
    (\E r \in 1 .. 9 : At(r, i)) \/ (~run.all /\ GoesBack(i)) \/ Landed(i)

StartsAt == run.phase # "idle" => From <= run.sent

OInv == StartsAt /\ ReadNow /\ FileOrder /\ OneEach /\ Origin /\ LastWins
-----------------------------------------------------------------------------
LEMMA Places ==
  /\ \A s \in Stages : HandPlace[s] \in 1 .. 7
  /\ \A s, t \in Stages : HandPlace[s] = HandPlace[t] => s = t
  /\ \A s \in Later : QueuePlace[s] = HandPlace[s] + 1 /\ s \in Stages
  /\ \A s \in Later : QueuePlace[s] \in 2 .. 6
  /\ \A s, t \in Later : QueuePlace[s] = QueuePlace[t] => s = t
  /\ \A s \in Later, t \in Stages : QueuePlace[s] # HandPlace[t]
  /\ \A s \in DOMAIN After : HandPlace[s] = QueuePlace[After[s]] + 1
  /\ HandPlace["write"] = 1 /\ HandPlace["prepare"] = 7
BY DEF HandPlace, QueuePlace, Stages, Later, After

LEMMA LinesAt ==
  ASSUME TypeOK, NEW r, NEW i, At(r, i)
  PROVE  r \in 1 .. 9 /\ i \in LineNos /\ i \in Nat
<1>1. LineNos \subseteq Nat BY Sizes DEF LineNos
<1>2. CASE \E s \in Stages : r = HandPlace[s] /\ i \in hand[s]
  BY <1>1, <1>2, Places DEF TypeOK, Batches
<1>3. CASE \E s \in Later : r = QueuePlace[s] /\ \E n \in DOMAIN queue[s] : i \in queue[s][n]
  <2>1. PICK s \in Later : r = QueuePlace[s] /\ \E n \in DOMAIN queue[s] : i \in queue[s][n]
    BY <1>3
  <2>2. PICK n \in DOMAIN queue[s] : i \in queue[s][n] BY <2>1
  <2>3. queue[s] \in Seq(Batches \ {{}}) BY DEF TypeOK
  <2>4. queue[s][n] \in Batches BY <2>2, <2>3
  <2>5. i \in LineNos BY <2>2, <2>4 DEF Batches
  <2>6. r \in 1 .. 9 BY <2>1, Places
  <2> QED BY <1>1, <2>5, <2>6
<1>4. CASE r = 8 /\ \E n \in DOMAIN buffer : buffer[n] = i
  <2>1. buffer \in Seq(LineNos) BY DEF TypeOK
  <2>2. \A n \in DOMAIN buffer : buffer[n] \in LineNos BY ONLY <2>1
  <2>3. PICK n \in DOMAIN buffer : buffer[n] = i BY <1>4
  <2>4. i \in LineNos BY <2>2, <2>3
  <2> QED BY <1>1, <1>4, <2>4
<1>5. CASE r = 9 /\ \E n \in DOMAIN cand : cand[n] = i
  <2>1. cand \in Seq(LineNos) BY DEF TypeOK
  <2>2. \A n \in DOMAIN cand : cand[n] \in LineNos BY ONLY <2>1
  <2>3. PICK n \in DOMAIN cand : cand[n] = i BY <1>5
  <2>4. i \in LineNos BY <2>2, <2>3
  <2> QED BY <1>1, <1>5, <2>4
<1> QED BY <1>2, <1>3, <1>4, <1>5, At(r, i) DEF At

(* The batch being filled and the channel of candidates, before a step and *)
(* after.                                                                  *)
LEMMA Upstream ==
  /\ \A i : At(8, i) <=> \E n \in DOMAIN buffer : buffer[n] = i
  /\ \A i : At(9, i) <=> \E n \in DOMAIN cand : cand[n] = i
  /\ \A i : At(8, i)' <=> \E n \in DOMAIN buffer' : buffer'[n] = i
  /\ \A i : At(9, i)' <=> \E n \in DOMAIN cand' : cand'[n] = i
BY Places DEF At

LEMMA NothingAt ==
  ASSUME cand = <<>>, buffer = <<>>, queue = NoQueue, hand = NoHand
  PROVE  \A r, i : ~At(r, i)
BY DEF At, NoQueue, NoHand

(* A line is its decision and its text.                                    *)
LEMMA SameLine ==
  ASSUME TypeOK, NEW i \in 1 .. Len(file), NEW j \in 1 .. Len(file),
         file[i].uid = file[j].uid, file[i].text = file[j].text
  PROVE  file[i] = file[j]
<1> DEFINE Line == [uid : Uids, text : Texts \cup {Empty, Bad}]
<1>1. file \in Seq(Line) BY DEF TypeOK
<1>2. \A l, m \in Line : l.uid = m.uid /\ l.text = m.text => l = m OBVIOUS
<1> HIDE DEF Line
<1>3. file[i] \in Line /\ file[j] \in Line BY <1>1
<1> QED BY <1>2, <1>3

LEMMA Lines == LineNos \subseteq Nat /\ \A i \in LineNos : i >= 1
BY Sizes DEF LineNos

(* A step that only moves lines on: nothing goes up, and the last line of  *)
(* a decision stays on its way, or has no more to go.                      *)
SameRun == run'.phase = run.phase /\ run'.all = run.all /\ run'.sent = run.sent

LEMMA Moved ==
  ASSUME OInv, SameRun, UNCHANGED <<file, db, marked, before>>,
         \A r \in 1 .. 9, i \in LineNos : At(r, i)' => \E q \in r .. 9 : At(q, i),
         \A i \in LineNos : Lasts(i, run.sent) /\ (\E r \in 1 .. 9 : At(r, i)) =>
           (\E r \in 1 .. 9 : At(r, i)') \/ (~run.all /\ GoesBack(i)) \/ Landed(i)',
         TypeOK
  PROVE  StartsAt' /\ ReadNow' /\ Origin' /\ LastWins'
<1>0. From' = From /\ \A i, n : Lasts(i, n)' <=> Lasts(i, n)
  BY DEF SameRun, From, Lasts, StandsLast
<1>1. \A r \in 1 .. 9, i \in LineNos : At(r, i)' => \E q \in 1 .. 9 : At(q, i)
  OBVIOUS
<1>2. ReadNow' BY <1>0, <1>1 DEF OInv, ReadNow, SameRun
<1>3. Origin'
  <2>1. \A k \in LineNos : At(8, k)' \/ At(9, k)' => At(8, k) \/ At(9, k)
    <3>1. \A q \in 8 .. 9 : q = 8 \/ q = 9 OBVIOUS
    <3>2. \A q \in 9 .. 9 : q = 9 OBVIOUS
    <3>3. 8 \in 1 .. 9 /\ 9 \in 1 .. 9 OBVIOUS
    <3> QED BY <3>1, <3>2, <3>3
  <2> QED BY <1>0, <2>1 DEF OInv, Origin, CameFrom, SameRun
<1>4. LastWins'
  <2> SUFFICES ASSUME run.phase # "idle", NEW i \in From + 1 .. run.sent, Lasts(i, run.sent)
               PROVE  (\E r \in 1 .. 9 : At(r, i)') \/ (~run.all /\ GoesBack(i)) \/ Landed(i)'
    BY <1>0 DEF LastWins, SameRun, GoesBack
  <2>1. i \in LineNos
    <3>1. run.sent \in 0 .. Len(file) /\ marked \in Nat /\ Len(file) <= MaxLines /\ Len(file) \in Nat
      BY FileFacts DEF TypeOK
    <3>2. i >= 1 /\ i <= MaxLines BY <3>1, Sizes DEF From
    <3> QED BY <3>1, <3>2, Sizes DEF LineNos, From
  <2>2. CASE \E r \in 1 .. 9 : At(r, i)
    BY <2>1, <2>2
  <2>3. CASE Landed(i)
    <3>1. Landed(i)' BY <1>1, <2>3 DEF Landed
    <3> QED BY <3>1
  <2> QED BY <2>2, <2>3 DEF OInv, LastWins
<1>5. StartsAt' BY <1>0 DEF OInv, StartsAt, SameRun
<1> QED BY <1>2, <1>3, <1>4, <1>5
-----------------------------------------------------------------------------
LEMMA InitOInv == Init => OInv
<1> SUFFICES ASSUME Init PROVE OInv OBVIOUS
<1>1. cand = <<>> /\ buffer = <<>> /\ queue = NoQueue /\ hand = NoHand BY DEF Init
<1>2. \A r, i : ~At(r, i) BY <1>1, NothingAt
<1>3. run.phase = "idle" BY DEF Init
<1>4. OneEach BY <1>1 DEF OneEach, NoQueue, NoHand, Distinct
<1>5. \A s \in Later : DOMAIN queue[s] = {} BY <1>1 DEF NoQueue
<1> QED BY <1>2, <1>3, <1>4, <1>5 DEF OInv, StartsAt, ReadNow, FileOrder, Origin, LastWins

(* Between the runs nothing is on its way.                                 *)
LEMMA IdleOInv ==
  ASSUME cand = <<>>, buffer = <<>>, queue = NoQueue, hand = NoHand, run.phase = "idle"
  PROVE  OInv
<1>2. \A r, i : ~At(r, i) BY NothingAt
<1>4. OneEach BY DEF OneEach, NoQueue, NoHand, Distinct
<1>5. \A s \in Later : DOMAIN queue[s] = {} BY DEF NoQueue
<1> QED BY <1>2, <1>4, <1>5 DEF OInv, StartsAt, ReadNow, FileOrder, Origin, LastWins

LEMMA StartOInv ==
  ASSUME IInv, Start
  PROVE  OInv'
<1>1. PICK all \in BOOLEAN :
        run' = [phase |-> "running", all |-> all, no |-> run.no + 1,
                sent |-> IF all THEN 0 ELSE marked, errors |-> FALSE, hydrated |-> FALSE]
  BY DEF Start
<1>2. /\ run'.phase = "running" /\ run'.sent = From' /\ marked' = marked
  BY <1>1 DEF Start, From
<1>3. /\ cand' = <<>> /\ buffer' = <<>> /\ queue' = NoQueue /\ hand' = NoHand
      /\ before' = db /\ db' = db
  BY DEF Start, IInv, AtRest
<1>4. \A r, i : ~At(r, i)' BY <1>3 DEF At, NoQueue, NoHand
<1>5. OneEach' BY <1>3 DEF OneEach, NoQueue, NoHand, Distinct
<1>6. \A s \in Later : DOMAIN queue'[s] = {} BY <1>3 DEF NoQueue
<1>7. From' \in Nat BY <1>1, FileFacts DEF From, IInv, Start
<1>8. LastWins'
  <2>1. PICK f \in Nat : f = From' BY <1>7
  <2>2. \A i \in f + 1 .. f : FALSE OBVIOUS
  <2> QED BY <1>2, <2>1, <2>2 DEF LastWins
<1>9. StartsAt' BY <1>2, <1>7 DEF StartsAt
<1> QED BY <1>3, <1>4, <1>5, <1>6, <1>8, <1>9 DEF OInv, ReadNow, FileOrder, Origin, CameFrom

LEMMA ProduceOInv ==
  ASSUME IInv, OInv, Produce
  PROVE  OInv'
<1>1. PICK i : i = run.sent + 1 OBVIOUS
<1>2. /\ i \in 1 .. Len(file) /\ i \in LineNos /\ run.sent \in Nat
      /\ run.phase = "running"
  BY <1>1, FileFacts, Sizes DEF Produce, IInv, TypeOK, LineNos, Running
<1>3. /\ UNCHANGED <<file, db, marked, buffer, queue, hand, before>>
      /\ \/ file[i].text = Bad /\ run' = [run EXCEPT !.sent = i, !.errors = TRUE] /\ cand' = cand
         \/ /\ file[i].text # Bad
            /\ cand' = Append(cand, i) /\ run' = [run EXCEPT !.sent = i]
  BY <1>1 DEF Produce
<1>4. /\ run'.phase = "running" /\ run'.sent = i /\ run'.all = run.all
  <2>1. PICK r, q : r = run /\ q = run' OBVIOUS
  <2>2. r \in RunType /\ r.phase = "running" /\ i \in 0 .. Len(file)
    BY <1>2, <2>1 DEF IInv, TypeOK, RunType
  <2>3. q = [r EXCEPT !.sent = i, !.errors = TRUE] \/ q = [r EXCEPT !.sent = i]
    BY <1>3, <2>1
  <2>4. q.phase = "running" /\ q.sent = i /\ q.all = r.all
    BY ONLY <2>2, <2>3 DEF RunType
  <2> QED BY <2>1, <2>4
<1>5. cand \in Seq(LineNos) BY DEF IInv, TypeOK
<1>6. \/ cand' = cand /\ file[i].text = Bad
      \/ /\ Len(cand') = Len(cand) + 1 /\ cand'[Len(cand) + 1] = i /\ file[i].text # Bad
         /\ DOMAIN cand' = 1 .. Len(cand) + 1
         /\ \A n \in DOMAIN cand : n \in DOMAIN cand' /\ cand'[n] = cand[n]
  <2>1. PICK q : q = Append(cand, i) OBVIOUS
  <2>2. /\ Len(q) = Len(cand) + 1 /\ q[Len(cand) + 1] = i /\ DOMAIN q = 1 .. Len(cand) + 1
        /\ \A n \in DOMAIN cand : n \in DOMAIN q /\ q[n] = cand[n]
    BY ONLY <1>2, <1>5, <2>1
  <2> QED BY <1>3, <2>1, <2>2
<1>7. ASSUME NEW r \in 1 .. 9, NEW k
      PROVE  At(r, k)' <=> At(r, k) \/ (r = 9 /\ k = i /\ file[i].text # Bad)
  <2>1. (\E n \in DOMAIN cand' : cand'[n] = k)
          <=> (\E n \in DOMAIN cand : cand[n] = k) \/ (k = i /\ file[i].text # Bad)
    <3>1. Len(cand) \in Nat /\ DOMAIN cand = 1 .. Len(cand) BY <1>5
    <3>2. CASE cand' = cand /\ file[i].text = Bad BY <3>2
    <3>3. CASE cand' # cand \/ file[i].text # Bad
      <4>1. \A n \in 1 .. Len(cand) + 1 : n = Len(cand) + 1 \/ n \in DOMAIN cand BY <3>1
      <4>2. Len(cand) + 1 \in DOMAIN cand' BY <1>6, <3>1, <3>3
      <4> QED BY <1>6, <3>3, <4>1, <4>2
    <3> QED BY <3>2, <3>3
  <2> QED BY <1>3, <2>1 DEF At
<1>8. From' = From /\ From \in Nat /\ From <= run.sent
  <2>1. From' = From BY <1>3, <1>4 DEF From
  <2>2. marked \in Nat BY FileFacts DEF IInv
  <2> QED BY <1>2, <2>1, <2>2 DEF OInv, StartsAt, From
<1>9. \A r \in 1 .. 9, k \in LineNos : At(r, k) => k < i /\ file[k].text # Bad /\ k \in Nat
  <2>1. \A k \in LineNos : k \in Nat /\ (k <= run.sent => k < i) BY <1>1, <1>2, Lines
  <2> QED BY <2>1 DEF OInv, ReadNow
<1>10. ReadNow'
  <2> SUFFICES ASSUME NEW r \in 1 .. 9, NEW k \in LineNos, At(r, k)'
               PROVE  From < k /\ k <= i /\ file[k].text # Bad
    BY <1>3, <1>4, <1>8 DEF ReadNow
  <2>1. CASE At(r, k)
    <3>1. From < k BY <2>1 DEF OInv, ReadNow
    <3>2. k < i /\ file[k].text # Bad /\ k \in Nat BY <1>9, <2>1
    <3>3. k <= i BY <1>2, <3>2
    <3> QED BY <3>1, <3>2, <3>3
  <2>2. CASE k = i /\ file[i].text # Bad BY <1>1, <1>2, <1>8, <2>2
  <2> QED BY <1>7, <2>1, <2>2
<1>11. FileOrder'
  <2>1. \A r, q \in 1 .. 9 : r < q => \A j, k \in LineNos : At(r, j)' /\ At(q, k)' => j < k
    <3> SUFFICES ASSUME NEW r \in 1 .. 9, NEW q \in 1 .. 9, r < q, NEW j \in LineNos, NEW k \in LineNos,
                        At(r, j)', At(q, k)'
                 PROVE  j < k
      OBVIOUS
    <3>1. At(r, j) BY <1>7
    <3>2. CASE At(q, k) BY <3>1, <3>2 DEF OInv, FileOrder
    <3>3. CASE k = i BY <1>9, <3>1, <3>3
    <3> QED BY <1>7, <3>2, <3>3
  <2> QED BY <1>3, <2>1 DEF OInv, FileOrder
<1>12. OneEach' BY <1>3 DEF OInv, OneEach, Distinct
<1>13. Origin'
  <2> SUFFICES ASSUME NEW u \in Uids PROVE CameFrom(u)'
    BY DEF Origin
  <2>1. CameFrom(u) BY <1>2 DEF OInv, Origin
  <2>2. CASE db[u] = before[u] BY <1>3, <2>2 DEF CameFrom
  <2>3. CASE \E j \in From + 1 .. run.sent :
               /\ file[j].uid = u /\ file[j].text = db[u]
               /\ \A k \in LineNos : At(8, k) \/ At(9, k) => j < k
    <3>1. PICK j \in From + 1 .. run.sent :
                 /\ file[j].uid = u /\ file[j].text = db[u]
                 /\ \A k \in LineNos : At(8, k) \/ At(9, k) => j < k
      BY <2>3
    <3>2. j \in From + 1 .. i /\ j < i BY <1>1, <1>2, <1>8, <3>1
    <3>3. \A k \in LineNos : At(8, k)' \/ At(9, k)' => j < k
      BY <1>7, <3>1, <3>2
    <3> QED BY <1>3, <1>4, <1>8, <3>1, <3>2, <3>3 DEF CameFrom
  <2> QED BY <2>1, <2>2, <2>3 DEF CameFrom
<1>14. LastWins'
  <2> SUFFICES ASSUME NEW j \in From + 1 .. i, Lasts(j, i)
               PROVE  (\E r \in 1 .. 9 : At(r, j)') \/ (~run.all /\ GoesBack(j)) \/ Landed(j)'
    BY <1>3, <1>4, <1>8 DEF LastWins, Lasts, StandsLast, GoesBack
  <2>1. CASE j = i
    <3>1. At(9, i)' BY <1>7, <2>1 DEF Lasts, StandsLast
    <3> QED BY <2>1, <3>1
  <2>2. CASE j # i
    <3>1. j \in From + 1 .. run.sent /\ Lasts(j, run.sent) /\ i \in j + 1 .. i
      BY <1>1, <1>2, <1>8, <2>2 DEF Lasts, StandsLast
    <3>2. file[i].uid = file[j].uid => file[i].text = Bad
      BY <3>1 DEF Lasts, StandsLast
    <3>3. CASE \E r \in 1 .. 9 : At(r, j) BY <1>7, <3>3
    <3>4. CASE Landed(j) BY <1>3, <1>7, <3>2, <3>4 DEF Landed
    <3> QED BY <1>2, <3>1, <3>3, <3>4 DEF OInv, LastWins
  <2> QED BY <2>1, <2>2
<1>15. StartsAt' BY <1>1, <1>2, <1>4, <1>8 DEF StartsAt
<1> QED BY <1>10, <1>11, <1>12, <1>13, <1>14, <1>15 DEF OInv

(* A step of the writer or of the loop between two of its places.          *)
LEMMA HandOnlyOInv ==
  ASSUME IInv, OInv, SameRun, UNCHANGED <<file, db, marked, before, cand, buffer, queue, hand>>
  PROVE  OInv'
<1>1. \A r, i : At(r, i)' <=> At(r, i) BY DEF At
<1>2. \A r \in 1 .. 9, i \in LineNos : At(r, i)' => \E q \in r .. 9 : At(q, i)
  <2>1. \A r \in 1 .. 9 : r \in r .. 9 OBVIOUS
  <2> QED BY <1>1, <2>1
<1>3. StartsAt' /\ ReadNow' /\ Origin' /\ LastWins'
  BY <1>1, <1>2, Moved DEF IInv
<1>4. FileOrder' /\ OneEach' BY <1>1 DEF OInv, FileOrder, OneEach, Distinct
<1> QED BY <1>3, <1>4 DEF OInv

(* What prepare takes out of the channel is the head of it.                *)
LEMMA CollectOInv ==
  ASSUME IInv, OInv, Collect
  PROVE  OInv'
<1>1. PICK t : t = Taken OBVIOUS
<1>2. t \in Nat /\ t <= Len(cand)
  BY <1>1, TakenFacts DEF Collect, IInv
<1>3. /\ buffer' = buffer \o SubSeq(cand, 1, t) /\ cand' = SubSeq(cand, t + 1, Len(cand))
      /\ UNCHANGED <<file, db, marked, run, queue, hand, before>>
  BY <1>1 DEF Collect
<1>4. /\ cand \in Seq(LineNos) /\ buffer \in Seq(LineNos)
  BY DEF IInv, TypeOK
<1>5. /\ buffer' \in Seq(LineNos) /\ cand' \in Seq(LineNos)
      /\ Len(buffer') = Len(buffer) + t /\ Len(cand') = Len(cand) - t
      /\ \A n \in 1 .. Len(buffer) : buffer'[n] = buffer[n]
      /\ \A n \in 1 .. t : buffer'[Len(buffer) + n] = cand[n]
      /\ \A n \in 1 .. Len(cand) - t : cand'[n] = cand[t + n]
  BY <1>2, <1>3, <1>4, CollectFacts
<1>6. /\ Len(buffer) \in Nat /\ DOMAIN buffer = 1 .. Len(buffer)
      /\ Len(cand) \in Nat /\ DOMAIN cand = 1 .. Len(cand)
      /\ DOMAIN buffer' = 1 .. Len(buffer) + t /\ DOMAIN cand' = 1 .. Len(cand) - t
  BY ONLY <1>4, <1>5
<1>7. ASSUME NEW r, NEW i, At(r, i)' PROVE At(r, i) \/ (r = 8 /\ At(9, i))
  <2>1. CASE r = 8 /\ \E n \in DOMAIN buffer' : buffer'[n] = i
    <3>1. PICK n \in 1 .. Len(buffer) + t : buffer'[n] = i BY <1>6, <2>1
    <3>2. CASE n <= Len(buffer)
      <4>1. n \in DOMAIN buffer /\ buffer[n] = i BY <1>2, <1>5, <1>6, <3>1, <3>2
      <4> QED BY <2>1, <4>1, Upstream
    <3>3. CASE n > Len(buffer)
      <4>1. PICK m : m = n - Len(buffer) OBVIOUS
      <4>2. m \in 1 .. t /\ n = Len(buffer) + m /\ m \in DOMAIN cand
        BY <1>2, <1>6, <3>1, <3>3, <4>1
      <4>3. cand[m] = i BY <1>5, <3>1, <4>2
      <4> QED BY <2>1, <4>2, <4>3 DEF At
    <3> QED BY <1>2, <1>6, <3>2, <3>3
  <2>2. CASE r = 9 /\ \E n \in DOMAIN cand' : cand'[n] = i
    <3>1. PICK n \in 1 .. Len(cand) - t : cand'[n] = i BY <1>6, <2>2
    <3>2. t + n \in DOMAIN cand /\ cand[t + n] = i BY <1>2, <1>5, <1>6, <3>1
    <3> QED BY <2>2, <3>2 DEF At
  <2> QED BY <1>3, <1>7, <2>1, <2>2 DEF At
<1>8. ASSUME NEW i, NEW r \in 1 .. 9, At(r, i) PROVE \E q \in 1 .. 9 : At(q, i)'
  <2>1. CASE r = 9 /\ \E n \in DOMAIN cand : cand[n] = i
    <3>1. PICK n \in 1 .. Len(cand) : cand[n] = i BY <1>6, <2>1
    <3>2. CASE n <= t
      <4>1. Len(buffer) + n \in DOMAIN buffer' /\ buffer'[Len(buffer) + n] = i
        BY <1>2, <1>5, <1>6, <3>1, <3>2
      <4> QED BY <4>1 DEF At
    <3>3. CASE n > t
      <4>1. PICK m : m = n - t OBVIOUS
      <4>2. m \in 1 .. Len(cand) - t /\ n = t + m /\ m \in DOMAIN cand'
        BY <1>2, <1>6, <3>1, <3>3, <4>1
      <4>3. cand'[m] = i BY <1>5, <3>1, <4>2
      <4> QED BY <4>2, <4>3 DEF At
    <3> QED BY <1>2, <3>2, <3>3
  <2>2. CASE r = 8 /\ \E n \in DOMAIN buffer : buffer[n] = i
    <3>1. PICK n \in 1 .. Len(buffer) : buffer[n] = i BY <1>6, <2>2
    <3>2. n \in DOMAIN buffer' /\ buffer'[n] = i BY <1>2, <1>5, <1>6, <3>1
    <3> QED BY <3>2 DEF At
  <2> QED BY <1>3, <1>8, <2>1, <2>2 DEF At
<1>9. \A r \in 1 .. 9, i \in LineNos : At(r, i)' => \E q \in r .. 9 : At(q, i)
  <2>1. \A r \in 1 .. 9 : r \in r .. 9 /\ 9 \in r .. 9 OBVIOUS
  <2> QED BY <1>7, <2>1
<1>10. SameRun BY <1>3 DEF SameRun
<1>11. StartsAt' /\ ReadNow' /\ Origin' /\ LastWins'
  BY <1>3, <1>8, <1>9, <1>10, Moved DEF IInv
<1>12. FileOrder'
  <2> SUFFICES ASSUME NEW r \in 1 .. 9, NEW q \in 1 .. 9, r < q, NEW i \in LineNos, NEW j \in LineNos,
                      At(r, i)', At(q, j)'
               PROVE  i < j
    BY <1>3 DEF OInv, FileOrder
  <2>1. CASE At(q, j) /\ At(r, i) BY <2>1 DEF OInv, FileOrder
  <2>2. CASE q = 8 /\ At(9, j)
    <3>1. At(r, i) /\ r < 9 BY <1>7, <2>2
    <3> QED BY <2>2, <3>1 DEF OInv, FileOrder
  <2>3. CASE r = 8 /\ At(9, i) /\ q = 9
    <3>1. PICK m \in 1 .. Len(buffer) + t : buffer'[m] = i
      <4>1. \E m \in DOMAIN buffer' : buffer'[m] = i BY <2>3, Upstream
      <4> QED BY <1>6, <4>1
    <3>2. PICK n \in DOMAIN cand' : cand'[n] = j BY <2>3, Upstream
    <3>3. InOrder' BY CollectIInv DEF IInv
    <3> QED BY <1>6, <3>1, <3>2, <3>3 DEF InOrder
  <2> QED BY <1>7, <2>1, <2>2, <2>3
<1>13. OneEach' BY <1>3 DEF OInv, OneEach, Distinct
<1> QED BY <1>11, <1>12, <1>13 DEF OInv

(* A line the triage drops, the last of its decision, gives the text the   *)
(* base held when the run started, or had from an earlier line of the run. *)
LEMMA PrepareOInv ==
  ASSUME IInv, OInv, Prepare
  PROVE  OInv'
<1>1. PICK b : b = {i \in LastOf(buffer) : Survives(i) /\ file[i].text # Empty} OBVIOUS
<1>2. /\ buffer' = <<>> /\ hand' = [hand EXCEPT !["prepare"] = b] /\ hand["prepare"] = {}
      /\ UNCHANGED <<file, db, marked, run, cand, queue, before>> /\ run.phase = "running"
  BY <1>1 DEF Prepare, Running
<1>3. /\ \A n \in DOMAIN buffer : buffer[n] \in LineNos /\ n \in Nat
      /\ \A n \in LineNos : n \in Nat
  <2>1. buffer \in Seq(LineNos) BY DEF IInv, TypeOK
  <2> QED BY <2>1, Lines
<1>4. /\ hand'["prepare"] = b /\ "prepare" \in Stages
      /\ \A s \in Stages \ {"prepare"} : hand'[s] = hand[s]
  BY <1>2 DEF IInv, TypeOK, Stages
<1>5. \A i \in b : At(8, i) BY <1>1, Upstream DEF LastOf
<1>6. ASSUME NEW r, NEW i, At(r, i)' PROVE At(r, i) \/ (r = 7 /\ i \in b /\ At(8, i))
  BY <1>2, <1>4, <1>5, <1>6, Places DEF At
<1>7. ASSUME NEW r, NEW i, At(r, i), r # 8 PROVE At(r, i)'
  BY <1>2, <1>4, <1>7 DEF At
<1>8. \A r \in 1 .. 9, i \in LineNos : At(r, i)' => \E q \in r .. 9 : At(q, i)
  <2>1. \A r \in 1 .. 9 : r \in r .. 9 OBVIOUS
  <2>2. 8 \in 7 .. 9 OBVIOUS
  <2> QED BY <1>6, <2>1, <2>2
<1>9. SameRun BY <1>2 DEF SameRun
<1>10. ASSUME NEW i \in LineNos, Lasts(i, run.sent), At(8, i), ~At(7, i)'
       PROVE  ~run.all /\ GoesBack(i)
  <2>1. PICK x \in DOMAIN buffer : buffer[x] = i BY <1>10, Upstream
  <2>2. \A y \in DOMAIN buffer : y > x => file[buffer[y]].uid # file[buffer[x]].uid
    <3> SUFFICES ASSUME NEW y \in DOMAIN buffer, y > x, file[buffer[y]].uid = file[i].uid
                 PROVE  FALSE
      BY <2>1
    <3>1. i < buffer[y] /\ Readable(buffer[y]) /\ buffer[y] \in Nat
      BY <1>3, <2>1 DEF IInv, InOrder
    <3>2. run.sent \in Nat BY FileFacts DEF IInv
    <3>3. buffer[y] \in i + 1 .. run.sent BY <1>3, <3>1, <3>2 DEF Readable
    <3> QED BY <1>10, <3>1, <3>3 DEF Lasts, StandsLast, Readable
  <2>3. i \in LastOf(buffer) /\ file[i].text # Empty
    BY <1>10, <2>1, <2>2, IngestAssumption DEF LastOf, Lasts
  <2>4. i \notin b
    <3>1. i \in b => At(7, i)' BY <1>4, Places DEF At
    <3> QED BY <1>10, <3>1
  <2>5. ~run.all /\ db[file[i].uid] = file[i].text
    BY <1>1, <2>3, <2>4 DEF Survives, Differs
  <2>6. i \in 1 .. Len(file) /\ i <= run.sent /\ run.sent \in Nat /\ marked \in Nat
    BY <1>3, <1>10, Lines, FileFacts DEF OInv, ReadNow, IInv
  <2>7. file[i].uid \in Uids BY <2>6, FileFacts DEF IInv
  <2>8. CameFrom(file[i].uid) BY <1>2, <2>7 DEF OInv, Origin
  <2>9. CASE \E j \in From + 1 .. run.sent :
               /\ file[j].uid = file[i].uid /\ file[j].text = db[file[i].uid]
               /\ \A k \in LineNos : At(8, k) \/ At(9, k) => j < k
    <3>1. PICK j \in marked + 1 .. run.sent :
                 file[j].uid = file[i].uid /\ file[j].text = file[i].text /\ j < i
      BY <1>10, <2>5, <2>9 DEF From
    <3>2. j \in marked + 1 .. i - 1 BY <1>3, <2>6, <3>1
    <3>3. j \in 1 .. Len(file) BY <2>6, <3>1, FileFacts DEF IInv
    <3>4. file[j] = file[i] BY <2>6, <3>1, <3>3, SameLine DEF IInv
    <3> QED BY <2>5, <3>2, <3>4 DEF GoesBack
  <2> QED BY <2>5, <2>8, <2>9 DEF CameFrom, GoesBack
<1>11. \A i \in LineNos : Lasts(i, run.sent) /\ (\E r \in 1 .. 9 : At(r, i)) =>
         (\E r \in 1 .. 9 : At(r, i)') \/ (~run.all /\ GoesBack(i)) \/ Landed(i)'
  <2>1. 7 \in 1 .. 9 OBVIOUS
  <2> QED BY <1>7, <1>10, <2>1
<1>12. StartsAt' /\ ReadNow' /\ Origin' /\ LastWins'
  BY <1>2, <1>8, <1>9, <1>11, Moved DEF IInv
<1>13. FileOrder'
  <2> SUFFICES ASSUME NEW r \in 1 .. 9, NEW q \in 1 .. 9, r < q, NEW i \in LineNos, NEW j \in LineNos,
                      At(r, i)', At(q, j)'
               PROVE  i < j
    BY <1>2 DEF OInv, FileOrder
  <2>1. CASE At(q, j) /\ At(r, i) BY <2>1 DEF OInv, FileOrder
  <2>2. CASE q = 7 /\ At(8, j)
    <3>1. At(r, i) /\ r < 8 BY <1>6, <2>2
    <3> QED BY <2>2, <3>1 DEF OInv, FileOrder
  <2>3. CASE r = 7 /\ At(8, i) /\ At(q, j) /\ q # 8
    <3>1. q > 8 /\ 8 \in 1 .. 9 BY <2>3
    <3> QED BY <2>3, <3>1 DEF OInv, FileOrder
  <2>4. ~At(8, j)' BY <1>2, Upstream
  <2> QED BY <1>6, <2>1, <2>2, <2>3, <2>4
<1>14. OneEach'
  <2>1. Distinct(b)
    <3> SUFFICES ASSUME NEW i \in LastOf(buffer), NEW j \in LastOf(buffer), file[i].uid = file[j].uid
                 PROVE  i = j
      BY <1>1 DEF Distinct
    <3>1. PICK x \in DOMAIN buffer : buffer[x] = i /\ \A y \in DOMAIN buffer :
                 y > x => file[buffer[y]].uid # file[i].uid
      BY DEF LastOf
    <3>2. PICK y \in DOMAIN buffer : buffer[y] = j /\ \A z \in DOMAIN buffer :
                 z > y => file[buffer[z]].uid # file[j].uid
      BY DEF LastOf
    <3> QED BY <1>3, <3>1, <3>2
  <2> QED BY <1>2, <1>4, <2>1 DEF OInv, OneEach, Distinct
<1> QED BY <1>12, <1>13, <1>14 DEF OInv

(* The head of a queue comes to hand, behind the batches downstream.       *)
LEMMA ReceiveOInv ==
  ASSUME IInv, OInv, NEW s \in Later, Receive(s)
  PROVE  OInv'
<1>1. /\ queue \in [Later -> Seq(Batches \ {{}})] /\ hand \in [Stages -> Batches]
      /\ s \in Stages
  BY Steps DEF IInv, TypeOK
<1>2. PICK x, y : x = Head(queue[s]) /\ y = Tail(queue[s]) OBVIOUS
<1>3. /\ hand' = [hand EXCEPT ![s] = x] /\ queue' = [queue EXCEPT ![s] = y]
      /\ queue[s] # <<>> /\ hand[s] = {}
      /\ UNCHANGED <<file, db, marked, run, cand, buffer, before>>
  BY <1>1, <1>2 DEF Receive
<1>4. /\ x = queue[s][1] /\ 1 \in DOMAIN queue[s]
      /\ \A n \in DOMAIN y : n + 1 \in DOMAIN queue[s] /\ y[n] = queue[s][n + 1]
      /\ \A n \in DOMAIN queue[s] : n = 1 \/ (n - 1 \in DOMAIN y /\ y[n - 1] = queue[s][n])
      /\ \A n \in DOMAIN y : n \in Nat /\ n >= 1
  <2>1. queue[s] \in Seq(Batches \ {{}}) BY <1>1
  <2>2. y \in Seq(Batches \ {{}}) BY <1>2, <1>3, <2>1, QueueFacts
  <2>3. \A n \in DOMAIN y : n \in Nat /\ n >= 1 BY ONLY <2>2
  <2> QED BY <1>2, <1>3, <2>1, <2>3, QueueFacts
<1>5. /\ queue'[s] = y /\ \A q \in Later \ {s} : queue'[q] = queue[q]
      /\ hand'[s] = x /\ \A q \in Stages \ {s} : hand'[q] = hand[q]
  BY <1>1, <1>3
<1>6. PICK h \in 1 .. 7 : h = HandPlace[s] /\ QueuePlace[s] = h + 1 /\ h + 1 \in 1 .. 9
  BY <1>1, Places
<1>7. \A i \in x : At(h + 1, i) BY <1>4, <1>6 DEF At
<1>8. ASSUME NEW r, NEW i, At(r, i)' PROVE At(r, i) \/ (r = h /\ i \in x)
  <2>1. CASE \E q \in Stages : r = HandPlace[q] /\ i \in hand'[q]
    BY <1>5, <1>6, <2>1 DEF At
  <2>2. CASE \E q \in Later : r = QueuePlace[q] /\ \E n \in DOMAIN queue'[q] : i \in queue'[q][n]
    <3>1. PICK q \in Later : r = QueuePlace[q] /\ \E n \in DOMAIN queue'[q] : i \in queue'[q][n]
      BY <2>2
    <3>2. \E n \in DOMAIN queue[q] : i \in queue[q][n] BY <1>4, <1>5, <3>1
    <3> QED BY <3>1, <3>2 DEF At
  <2> QED BY <1>3, <1>8, <2>1, <2>2 DEF At
<1>9. ASSUME NEW r, NEW i, At(r, i) PROVE At(r, i)' \/ At(h, i)'
  <2>1. CASE \E q \in Stages : r = HandPlace[q] /\ i \in hand[q]
    <3>1. PICK q \in Stages : r = HandPlace[q] /\ i \in hand[q] BY <2>1
    <3>2. q # s /\ i \in hand'[q] BY <1>3, <1>5, <3>1
    <3> QED BY <3>1, <3>2 DEF At
  <2>2. CASE \E q \in Later : r = QueuePlace[q] /\ \E n \in DOMAIN queue[q] : i \in queue[q][n]
    <3>1. PICK q \in Later : r = QueuePlace[q] /\ \E n \in DOMAIN queue[q] : i \in queue[q][n]
      BY <2>2
    <3>2. PICK n \in DOMAIN queue[q] : i \in queue[q][n] BY <3>1
    <3>3. CASE q = s /\ n = 1 BY <1>1, <1>4, <1>5, <1>6, <3>2, <3>3 DEF At
    <3>4. CASE q = s /\ n # 1 BY <1>4, <1>5, <3>1, <3>2, <3>4 DEF At
    <3>5. CASE q # s BY <1>5, <3>1, <3>2, <3>5 DEF At
    <3> QED BY <3>3, <3>4, <3>5
  <2> QED BY <1>3, <1>9, <2>1, <2>2 DEF At
<1>10. \A r \in 1 .. 9, i \in LineNos : At(r, i)' => \E q \in r .. 9 : At(q, i)
  <2>1. \A r \in 1 .. 9 : r \in r .. 9 OBVIOUS
  <2>2. h + 1 \in h .. 9 BY <1>6
  <2> QED BY <1>7, <1>8, <2>1, <2>2
<1>11. \A i \in LineNos : (\E r \in 1 .. 9 : At(r, i)) => \E r \in 1 .. 9 : At(r, i)'
  BY <1>6, <1>9
<1>12. SameRun BY <1>3 DEF SameRun
<1>13. StartsAt' /\ ReadNow' /\ Origin' /\ LastWins'
  BY <1>3, <1>10, <1>11, <1>12, Moved DEF IInv
<1>14. FileOrder'
  <2>1. ASSUME NEW r \in 1 .. 9, NEW q \in 1 .. 9, r < q, NEW i \in LineNos, NEW j \in LineNos,
               At(r, i)', At(q, j)'
        PROVE  i < j
    <3>1. CASE At(q, j) /\ At(r, i) BY <2>1, <3>1 DEF OInv, FileOrder
    <3>2. CASE q = h /\ j \in x
      <4>1. At(r, i) /\ At(h + 1, j) /\ r < h + 1 BY <1>7, <1>8, <2>1, <3>2
      <4> QED BY <1>6, <4>1 DEF OInv, FileOrder
    <3>3. CASE r = h /\ i \in x /\ At(q, j) /\ q > h + 1
      <4>1. At(h + 1, i) BY <1>7, <3>3
      <4> QED BY <1>6, <3>3, <4>1 DEF OInv, FileOrder
    <3>4. CASE r = h /\ i \in x /\ q = h + 1
      <4>1. PICK n \in DOMAIN y : j \in y[n]
        <5>1. PICK t \in Later : q = QueuePlace[t] /\ \E n \in DOMAIN queue'[t] : j \in queue'[t][n]
          <6>1. \A t \in Stages : q # HandPlace[t] BY <1>6, <3>4, Places
          <6>2. q # 8 /\ q # 9 BY <1>6, <3>4, Places
          <6> QED BY <2>1, <6>1, <6>2 DEF At
        <5>2. t = s BY <1>6, <3>4, <5>1, Places
        <5> QED BY <1>5, <5>1, <5>2
      <4>2. n + 1 \in DOMAIN queue[s] /\ y[n] = queue[s][n + 1] /\ 1 < n + 1 BY <1>4
      <4> QED BY <1>4, <3>4, <4>1, <4>2 DEF OInv, FileOrder
    <3> QED BY <1>6, <1>8, <2>1, <3>1, <3>2, <3>3, <3>4
  <2>2. ASSUME NEW q \in Later, NEW m \in DOMAIN queue'[q], NEW n \in DOMAIN queue'[q], m < n,
               NEW i \in queue'[q][m], NEW j \in queue'[q][n]
        PROVE  i < j
    <3>1. CASE q = s
      <4>1. m \in DOMAIN y /\ n \in DOMAIN y /\ i \in y[m] /\ j \in y[n] BY <1>5, <2>2, <3>1
      <4>2. m + 1 < n + 1 BY <1>4, <2>2, <4>1
      <4> QED BY <1>4, <4>1, <4>2 DEF OInv, FileOrder
    <3>2. CASE q # s BY <1>5, <2>2, <3>2 DEF OInv, FileOrder
    <3> QED BY <3>1, <3>2
  <2> QED BY <2>1, <2>2 DEF FileOrder
<1>15. OneEach'
  <2>1. Distinct(x) /\ \A n \in DOMAIN y : Distinct(y[n]) BY <1>4 DEF OInv, OneEach
  <2> QED BY <1>3, <1>5, <2>1 DEF OInv, OneEach, Distinct
<1> QED BY <1>13, <1>14, <1>15 DEF OInv

(* A batch leaves a hand for the end of the next queue.                    *)
LEMMA SendOInv ==
  ASSUME IInv, OInv, NEW s \in DOMAIN After, Send(s)
  PROVE  OInv'
<1>1. PICK d, x, y : d = After[s] /\ x = hand[s] /\ y = Append(queue[d], x) OBVIOUS
<1>2. /\ queue \in [Later -> Seq(Batches \ {{}})] /\ hand \in [Stages -> Batches]
      /\ s \in Stages /\ d \in Later
  BY <1>1, Steps DEF IInv, TypeOK
<1>3. /\ hand' = [hand EXCEPT ![s] = {}] /\ queue' = [queue EXCEPT ![d] = y] /\ x # {}
      /\ UNCHANGED <<file, db, marked, run, cand, buffer, before>>
  BY <1>1, <1>2 DEF Send
<1>4. PICK e : /\ y[e] = x /\ e \in DOMAIN y /\ e \notin DOMAIN queue[d]
               /\ \A n \in DOMAIN queue[d] : n \in DOMAIN y /\ y[n] = queue[d][n] /\ n < e
               /\ \A n \in DOMAIN y : n = e \/ n \in DOMAIN queue[d]
               /\ \A n \in DOMAIN y : ~ e < n
  <2>1. x \in Batches \ {{}} BY <1>1, <1>2, <1>3
  <2>2. queue[d] \in Seq(Batches \ {{}}) BY <1>2
  <2>3. /\ y \in Seq(Batches \ {{}}) /\ Len(y) = Len(queue[d]) + 1 /\ Len(queue[d]) \in Nat
        /\ y[Len(queue[d]) + 1] = x /\ Len(queue[d]) + 1 \in DOMAIN y
        /\ \A n \in DOMAIN queue[d] : n \in DOMAIN y /\ y[n] = queue[d][n]
        /\ \A n \in DOMAIN y : n = Len(queue[d]) + 1 \/ n \in DOMAIN queue[d]
    BY <1>1, <2>1, <2>2, QueueFacts
  <2>4. DOMAIN queue[d] = 1 .. Len(queue[d]) /\ DOMAIN y = 1 .. Len(y)
    BY <2>2, <2>3
  <2>5. Len(queue[d]) + 1 \notin DOMAIN queue[d] BY ONLY <2>3, <2>4
  <2>6. \A n \in DOMAIN queue[d] : n < Len(queue[d]) + 1 BY ONLY <2>3, <2>4
  <2>7. \A n \in DOMAIN y : ~ Len(queue[d]) + 1 < n BY ONLY <2>3, <2>4
  <2> QED BY <2>3, <2>5, <2>6, <2>7
<1>5. /\ queue'[d] = y /\ \A q \in Later \ {d} : queue'[q] = queue[q]
      /\ hand'[s] = {} /\ \A q \in Stages \ {s} : hand'[q] = hand[q]
  BY <1>2, <1>3
<1>6. PICK h \in 1 .. 7 : h = HandPlace[s] /\ QueuePlace[d] = h - 1 /\ h - 1 \in 1 .. 9
  <2>1. HandPlace[s] = QueuePlace[d] + 1 BY <1>1, Places
  <2>2. QueuePlace[d] \in 2 .. 6 BY <1>2, Places
  <2> QED BY <2>1, <2>2
<1>7. \A i \in x : At(h, i) BY <1>1, <1>2, <1>6 DEF At
<1>8. ASSUME NEW r, NEW i, At(r, i)'
      PROVE  (At(r, i) /\ r # h) \/ (r = h - 1 /\ i \in x)
  <2>1. CASE \E q \in Stages : r = HandPlace[q] /\ i \in hand'[q]
    <3>1. PICK q \in Stages : r = HandPlace[q] /\ i \in hand'[q] BY <2>1
    <3>2. q # s /\ i \in hand[q] BY <1>5, <3>1
    <3>3. r # h BY <1>2, <1>6, <3>1, <3>2, Places
    <3> QED BY <3>1, <3>2, <3>3 DEF At
  <2>2. CASE \E q \in Later : r = QueuePlace[q] /\ \E n \in DOMAIN queue'[q] : i \in queue'[q][n]
    <3>1. PICK q \in Later : r = QueuePlace[q] /\ \E n \in DOMAIN queue'[q] : i \in queue'[q][n]
      BY <2>2
    <3>2. r # h BY <1>2, <1>6, <3>1, Places
    <3>3. PICK n \in DOMAIN queue'[q] : i \in queue'[q][n] BY <3>1
    <3>4. CASE q = d BY <1>4, <1>5, <1>6, <3>1, <3>2, <3>3, <3>4 DEF At
    <3>5. CASE q # d BY <1>5, <3>1, <3>2, <3>3, <3>5 DEF At
    <3> QED BY <3>4, <3>5
  <2>3. CASE r = 8 \/ r = 9 BY <1>3, <1>6, <1>8, <2>3, Upstream
  <2> QED BY <1>8, <2>1, <2>2, <2>3 DEF At
<1>9. ASSUME NEW r, NEW i, At(r, i) PROVE At(r, i)' \/ At(h - 1, i)'
  <2>1. CASE \E q \in Stages : r = HandPlace[q] /\ i \in hand[q]
    <3>1. PICK q \in Stages : r = HandPlace[q] /\ i \in hand[q] BY <2>1
    <3>2. CASE q = s
      <4>1. e \in DOMAIN queue'[d] /\ i \in queue'[d][e] BY <1>1, <1>4, <1>5, <3>1, <3>2
      <4> QED BY <1>2, <1>6, <4>1 DEF At
    <3>3. CASE q # s BY <1>5, <3>1, <3>3 DEF At
    <3> QED BY <3>2, <3>3
  <2>2. CASE \E q \in Later : r = QueuePlace[q] /\ \E n \in DOMAIN queue[q] : i \in queue[q][n]
    <3>1. PICK q \in Later : r = QueuePlace[q] /\ \E n \in DOMAIN queue[q] : i \in queue[q][n]
      BY <2>2
    <3>2. PICK n \in DOMAIN queue[q] : i \in queue[q][n] BY <3>1
    <3>3. n \in DOMAIN queue'[q] /\ queue'[q][n] = queue[q][n] BY <1>4, <1>5, <3>2
    <3> QED BY <3>1, <3>2, <3>3 DEF At
  <2> QED BY <1>3, <1>9, <2>1, <2>2 DEF At
<1>10. \A r \in 1 .. 9, i \in LineNos : At(r, i)' => \E q \in r .. 9 : At(q, i)
  <2>1. \A r \in 1 .. 9 : r \in r .. 9 OBVIOUS
  <2>2. h \in h - 1 .. 9 BY <1>6
  <2> QED BY <1>7, <1>8, <2>1, <2>2
<1>11. \A i \in LineNos : (\E r \in 1 .. 9 : At(r, i)) => \E r \in 1 .. 9 : At(r, i)'
  BY <1>6, <1>9
<1>12. SameRun BY <1>3 DEF SameRun
<1>13. StartsAt' /\ ReadNow' /\ Origin' /\ LastWins'
  BY <1>3, <1>10, <1>11, <1>12, Moved DEF IInv
<1>14. FileOrder'
  <2>1. ASSUME NEW r \in 1 .. 9, NEW q \in 1 .. 9, r < q, NEW i \in LineNos, NEW j \in LineNos,
               At(r, i)', At(q, j)'
        PROVE  i < j
    <3>1. CASE At(q, j) /\ At(r, i) BY <2>1, <3>1 DEF OInv, FileOrder
    <3>2. CASE q = h - 1 /\ j \in x
      <4>1. At(r, i) /\ At(h, j) /\ r < h BY <1>6, <1>7, <1>8, <2>1, <3>2
      <4> QED BY <1>6, <4>1 DEF OInv, FileOrder
    <3>3. CASE r = h - 1 /\ i \in x /\ At(q, j) /\ q # h
      <4>1. At(h, i) /\ h < q BY <1>6, <1>7, <2>1, <3>3
      <4> QED BY <1>6, <3>3, <4>1 DEF OInv, FileOrder
    <3> QED BY <1>8, <2>1, <3>1, <3>2, <3>3
  <2>2. ASSUME NEW q \in Later, NEW m \in DOMAIN queue'[q], NEW n \in DOMAIN queue'[q], m < n,
               NEW i \in queue'[q][m], NEW j \in queue'[q][n]
        PROVE  i < j
    <3>1. CASE q = d /\ n = e
      <4>1. m \in DOMAIN queue[d] /\ i \in queue[d][m] /\ j \in x
        BY <1>4, <1>5, <2>2, <3>1
      <4>2. At(h - 1, i) /\ At(h, j) BY <1>2, <1>6, <1>7, <4>1 DEF At
      <4>3. i \in LineNos /\ j \in LineNos BY <4>2, LinesAt DEF IInv
      <4> QED BY <1>6, <4>2, <4>3 DEF OInv, FileOrder
    <3>2. CASE q = d /\ n # e
      <4>1. m # e BY <1>4, <1>5, <2>2, <3>2
      <4>2. /\ m \in DOMAIN queue[d] /\ n \in DOMAIN queue[d]
            /\ i \in queue[d][m] /\ j \in queue[d][n]
        BY <1>4, <1>5, <2>2, <3>2, <4>1
      <4> QED BY <1>2, <2>2, <4>2 DEF OInv, FileOrder
    <3>3. CASE q # d BY <1>5, <2>2, <3>3 DEF OInv, FileOrder
    <3> QED BY <3>1, <3>2, <3>3
  <2> QED BY <2>1, <2>2 DEF FileOrder
<1>15. OneEach'
  <2>1. Distinct(x) /\ Distinct({}) BY <1>1, <1>2 DEF OInv, OneEach, Distinct
  <2>2. \A n \in DOMAIN y : Distinct(y[n]) BY <1>2, <1>4, <2>1 DEF OInv, OneEach
  <2> QED BY <1>3, <1>5, <2>1, <2>2 DEF OInv, OneEach, Distinct
<1> QED BY <1>13, <1>14, <1>15 DEF OInv

(* A commit gives its decisions the text of their line, which comes before *)
(* all that is left of them.                                               *)
LEMMA CommitOInv ==
  ASSUME IInv, OInv, Commit
  PROVE  OInv'
<1>1. PICK b : b = hand["write"] OBVIOUS
<1>2. /\ hand' = [hand EXCEPT !["write"] = {}] /\ run.phase = "running"
      /\ UNCHANGED <<file, marked, run, cand, buffer, queue, before>>
      /\ db' = Written(b)
  BY <1>1 DEF Commit, Running
<1>3. "write" \in Stages /\ hand \in [Stages -> Batches]
  BY DEF IInv, TypeOK, Stages
<1>4. /\ hand'["write"] = {}
      /\ \A q \in Stages \ {"write"} : hand'[q] = hand[q]
  BY <1>2, <1>3
<1>5. Distinct(b) /\ Writable(b) BY <1>1, <1>3 DEF OInv, OneEach, IInv, BatchesWritable
<1>6. \A i \in b : At(1, i) BY <1>1, <1>3, Places DEF At
<1>7. ASSUME NEW r, NEW i, At(r, i)' PROVE At(r, i) /\ r # 1
  <2>1. CASE \E q \in Stages : r = HandPlace[q] /\ i \in hand'[q]
    <3>1. PICK q \in Stages : r = HandPlace[q] /\ i \in hand'[q] BY <2>1
    <3>2. q # "write" /\ i \in hand[q] BY <1>4, <3>1
    <3>3. r # 1 BY <1>3, <3>1, <3>2, Places
    <3> QED BY <3>1, <3>2, <3>3 DEF At
  <2>2. CASE \E q \in Later : r = QueuePlace[q] /\ \E n \in DOMAIN queue'[q] : i \in queue'[q][n]
    BY <1>2, <1>3, <2>2, Places DEF At
  <2> QED BY <1>2, <1>7, <2>1, <2>2 DEF At
<1>8. ASSUME NEW r, NEW i, At(r, i) PROVE At(r, i)' \/ i \in b
  BY <1>1, <1>2, <1>4, <1>8 DEF At
<1>9. \A i \in b : i \in LineNos /\ i \in Nat
  BY <1>6, LinesAt DEF IInv
<1>10. \A i \in b : db'[file[i].uid] = file[i].text
  <2> SUFFICES ASSUME NEW i \in b PROVE db'[file[i].uid] = file[i].text
    OBVIOUS
  <2>1. i \in 1 .. Len(file)
    BY <1>5, <1>9, Lines, FileFacts DEF Writable, IInv
  <2>2. PICK u \in Uids : u = file[i].uid BY <2>1, FileFacts DEF IInv
  <2>3. PICK c : c = CHOOSE j \in b : file[j].uid = u OBVIOUS
  <2>4. c \in b /\ file[c].uid = u BY <2>2, <2>3
  <2>5. c = i BY <1>5, <2>2, <2>4 DEF Distinct
  <2>6. Written(b)[u] = file[c].text BY <2>2, <2>3 DEF Written
  <2> QED BY <1>2, <2>2, <2>5, <2>6
<1>11. \A u \in Uids : (\A i \in b : file[i].uid # u) => db'[u] = db[u]
  BY <1>2 DEF Written
<1>12. From' = From /\ StartsAt' BY <1>2 DEF OInv, StartsAt, From
<1>13. ReadNow' BY <1>2, <1>7, <1>12 DEF OInv, ReadNow
<1>14. FileOrder' BY <1>2, <1>7 DEF OInv, FileOrder
<1>15. OneEach'
  <2>1. Distinct({}) BY DEF Distinct
  <2> QED BY <1>2, <1>4, <2>1 DEF OInv, OneEach, Distinct
<1>16. Origin'
  <2> SUFFICES ASSUME NEW u \in Uids PROVE CameFrom(u)'
    BY DEF Origin
  <2>1. CASE \E i \in b : file[i].uid = u
    <3>1. PICK i \in b : file[i].uid = u BY <2>1
    <3>2. From < i /\ i <= run.sent /\ i \in Nat BY <1>6, <1>9, <3>1 DEF OInv, ReadNow
    <3>3. From \in Nat /\ run.sent \in Nat BY FileFacts DEF From, IInv
    <3>4. i \in From + 1 .. run.sent BY <3>2, <3>3
    <3>5. \A k \in LineNos : At(8, k)' \/ At(9, k)' => i < k
      <4>1. 1 \in 1 .. 9 /\ 8 \in 1 .. 9 /\ 9 \in 1 .. 9 /\ 1 < 8 /\ 1 < 9 OBVIOUS
      <4> QED BY <1>6, <1>7, <1>9, <4>1 DEF OInv, FileOrder
    <3> QED BY <1>2, <1>10, <1>12, <3>1, <3>4, <3>5 DEF CameFrom
  <2>2. CASE \A i \in b : file[i].uid # u
    <3>1. CameFrom(u) BY <1>2 DEF OInv, Origin
    <3>2. db'[u] = db[u] BY <1>11, <2>2
    <3>3. CASE db[u] = before[u] BY <1>2, <3>2, <3>3 DEF CameFrom
    <3>4. CASE \E j \in From + 1 .. run.sent :
                 /\ file[j].uid = u /\ file[j].text = db[u]
                 /\ \A k \in LineNos : At(8, k) \/ At(9, k) => j < k
      <4>1. PICK j \in From + 1 .. run.sent :
                   /\ file[j].uid = u /\ file[j].text = db[u]
                   /\ \A k \in LineNos : At(8, k) \/ At(9, k) => j < k
        BY <3>4
      <4>2. \A k \in LineNos : At(8, k)' \/ At(9, k)' => j < k BY <1>7, <4>1
      <4> QED BY <1>2, <1>12, <3>2, <4>1, <4>2 DEF CameFrom
    <3> QED BY <3>1, <3>3, <3>4 DEF CameFrom
  <2> QED BY <2>1, <2>2
<1>17. LastWins'
  <2> SUFFICES ASSUME NEW i \in From + 1 .. run.sent, Lasts(i, run.sent),
                      \A r \in 1 .. 9 : ~At(r, i)', ~(~run.all /\ GoesBack(i))
               PROVE  Landed(i)'
    BY <1>2, <1>12 DEF LastWins, Lasts, StandsLast, GoesBack
  <2>0. /\ marked \in Nat /\ run.sent \in Nat /\ Len(file) \in Nat /\ run.sent <= Len(file)
        /\ From \in Nat
    BY FileFacts DEF IInv, From
  <2>1. i \in 1 .. Len(file) /\ i \in Nat BY <2>0
  <2>2. PICK u \in Uids : u = file[i].uid BY <2>1, FileFacts DEF IInv
  <2>3. CASE i \in b
    <3>1. db'[u] = file[i].text BY <1>10, <2>2, <2>3
    <3>2. ASSUME NEW r \in 1 .. 9, NEW j \in LineNos, At(r, j)', file[j].uid = u PROVE FALSE
      <4>1. At(r, j) /\ 1 < r BY <1>7, <3>2
      <4>2. i < j /\ j <= run.sent /\ file[j].text # Bad
        BY <1>6, <1>9, <2>3, <4>1 DEF OInv, FileOrder, ReadNow
      <4>3. j \in i + 1 .. run.sent BY <2>0, <2>1, <4>2, Lines
      <4> QED BY <2>2, <3>2, <4>2, <4>3 DEF Lasts, StandsLast
    <3> QED BY <1>2, <2>2, <3>1, <3>2 DEF Landed
  <2>4. CASE i \notin b
    <3>1. Landed(i) BY <1>2, <1>8, <2>4 DEF OInv, LastWins
    <3>2. 1 \in 1 .. 9 OBVIOUS
    <3>3. \A j \in b : file[j].uid # u BY <1>6, <1>9, <2>2, <3>1, <3>2 DEF Landed
    <3> QED BY <1>2, <1>7, <1>11, <2>2, <3>1, <3>3 DEF Landed
  <2> QED BY <2>3, <2>4
<1> QED BY <1>12, <1>13, <1>14, <1>15, <1>16, <1>17 DEF OInv

LEMMA NextOInv == IInv /\ OInv /\ [Next]_vars => OInv'
<1> SUFFICES ASSUME IInv, OInv, [Next]_vars PROVE OInv' OBVIOUS
<1>1. run \in RunType BY DEF IInv, TypeOK, RunType
<1>2. CASE Grow \/ Mark \/ LeaveUnmarked \/ Fail
  <2>1. /\ cand' = <<>> /\ buffer' = <<>> /\ queue' = NoQueue /\ hand' = NoHand
        /\ run'.phase = "idle"
    BY <1>1, <1>2 DEF Grow, Mark, LeaveUnmarked, Fail, Rest, RunType, IInv, AtRest
  <2>2. \A r, i : ~At(r, i)' BY <2>1 DEF At, NoQueue, NoHand
  <2>3. OneEach' BY <2>1 DEF OneEach, NoQueue, NoHand, Distinct
  <2>4. \A s \in Later : DOMAIN queue'[s] = {} BY <2>1 DEF NoQueue
  <2> QED BY <2>1, <2>2, <2>3, <2>4 DEF OInv, StartsAt, ReadNow, FileOrder, Origin, LastWins
<1>3. CASE Start BY <1>3, StartOInv
<1>4. CASE Produce BY <1>4, ProduceOInv
<1>5. CASE Collect BY <1>5, CollectOInv
<1>6. CASE Prepare BY <1>6, PrepareOInv
<1>7. CASE Hydrate
  <2>1. SameRun BY <1>1, <1>7 DEF Hydrate, SameRun, RunType
  <2> QED BY <1>7, <2>1, HandOnlyOInv DEF Hydrate
<1>8. CASE \E s \in Later : Receive(s) BY <1>8, ReceiveOInv
<1>9. CASE \E s \in DOMAIN After : Send(s) BY <1>9, SendOInv
<1>10. CASE Commit BY <1>10, CommitOInv
<1>11. CASE Join
  <2>1. /\ cand' = <<>> /\ buffer' = <<>> /\ queue' = NoQueue /\ hand' = NoHand
        /\ cand = <<>> /\ buffer = <<>> /\ queue = NoQueue /\ hand = NoHand
        /\ UNCHANGED <<file, db, marked, before>>
    BY <1>11 DEF Join, Joined, Closed
  <2>2. run'.phase = "joined" /\ run'.all = run.all /\ run'.sent = run.sent /\ run.phase = "running"
    BY <1>1, <1>11 DEF Join, RunType, Running
  <2>3. \A r, i : (At(r, i)' <=> At(r, i)) /\ ~At(r, i)
    BY <2>1 DEF At, NoQueue, NoHand
  <2>4. OneEach' BY <2>1 DEF OneEach, NoQueue, NoHand, Distinct
  <2>5. \A s \in Later : DOMAIN queue'[s] = {} BY <2>1 DEF NoQueue
  <2>6. From' = From BY <2>1, <2>2 DEF From
  <2>7. StartsAt' /\ ReadNow' /\ FileOrder'
    BY <2>2, <2>3, <2>5, <2>6 DEF OInv, StartsAt, ReadNow, FileOrder
  <2>8. Origin' BY <2>1, <2>2, <2>3, <2>6 DEF OInv, Origin, CameFrom
  <2>9. LastWins'
    BY <2>1, <2>2, <2>3, <2>6 DEF OInv, LastWins, Landed, Lasts, StandsLast, GoesBack
  <2> QED BY <2>4, <2>7, <2>8, <2>9 DEF OInv
<1>12. CASE UNCHANGED vars
  BY <1>12, HandOnlyOInv DEF vars, SameRun
<1> QED BY <1>2, <1>3, <1>4, <1>5, <1>6, <1>7, <1>8, <1>9, <1>10, <1>11, <1>12 DEF Next

(* At the mark nothing is on its way any more.                             *)
LEMMA MarkKeeps ==
  ASSUME IInv, OInv, Mark, NEW i \in 1 .. Len(file),
         StandsLast(i, Len(file)), file[i].text \in Texts, run.all \/ i > marked
  PROVE  db[file[i].uid] = file[i].text \/ (~run.all /\ GoesBack(i))
<1>1. /\ cand = <<>> /\ buffer = <<>> /\ queue = NoQueue /\ hand = NoHand
      /\ run.phase = "joined" /\ run.sent = Len(file)
  BY DEF Mark, IInv, AtRest
<1>2. \A r, j : ~At(r, j) BY <1>1, NothingAt
<1>3. Len(file) \in Nat /\ marked \in Nat BY FileFacts DEF IInv
<1>4. i \in From + 1 .. run.sent BY <1>1, <1>3 DEF From
<1>5. Lasts(i, run.sent) BY <1>1 DEF Lasts
<1> QED BY <1>1, <1>2, <1>4, <1>5 DEF OInv, LastWins, Landed

-----------------------------------------------------------------------------
(* The end of a run.  That a run under way ends, RunEnds, is liveness; its *)
(* two halves are not.  The first: some loop can always go on.  Each       *)
(* disjunct is the guard of an action that Fairness names.                 *)
Reads == run.sent < Len(file) /\ (file[run.sent + 1].text = Bad \/ Len(cand) < CandRoom)
Fills == hand["prepare"] = {} /\ Len(buffer) < BatchSize /\ cand # <<>>
Sorts == hand["prepare"] = {} /\ Complete
Takes == \E s \in Later : hand[s] = {} /\ queue[s] # <<>> /\ (s = "extract" => run.hydrated)
Gives == \E s \in DOMAIN After : hand[s] # {} /\ Len(queue[After[s]]) < Room[After[s]]

GoesOn == Reads \/ Fills \/ Sorts \/ ~run.hydrated \/ Takes \/ Gives \/ hand["write"] # {} \/ Joined

(* The second: each step of a loop leaves less to do.  A line not read, a  *)
(* candidate, a line of the batch being filled and a batch weigh the less  *)
(* the further they are.                                                   *)
HandLoad(s) == IF hand[s] = {} THEN 0 ELSE 1
Unhydrated == IF run.hydrated THEN 0 ELSE 1

Load ==
  10 * (Len(file) - run.sent) + 9 * Len(cand) + 8 * Len(buffer)
  + 7 * HandLoad("prepare") + 6 * Len(queue["embed"]) + 5 * HandLoad("embed")
  + 4 * Len(queue["extract"]) + 3 * HandLoad("extract") + 2 * Len(queue["write"])
  + HandLoad("write") + Unhydrated

LEMMA CandRoomIs == CandRoom >= 1
<1>1. BatchSize \in Nat \ {0} /\ StageQueue + 1 \in Nat \ {0} BY IngestAssumption
<1>2. \A a, b \in Nat \ {0} : a * b >= 1 BY SMTT(30)
<1> QED BY <1>1, <1>2 DEF CandRoom

LEMMA StateLengths ==
  ASSUME TypeOK
  PROVE  /\ Len(file) \in Nat /\ run.sent \in Nat /\ run.sent <= Len(file)
         /\ cand \in Seq(LineNos) /\ Len(cand) \in Nat
         /\ buffer \in Seq(LineNos) /\ Len(buffer) \in Nat /\ Len(buffer) <= BatchSize
         /\ \A s \in Later : queue[s] \in Seq(Batches \ {{}}) /\ Len(queue[s]) \in Nat
         /\ run.hydrated \in BOOLEAN
  BY FileFacts DEF TypeOK

LEMMA SomeLoopGoesOn == TypeOK /\ Running => GoesOn
<1> SUFFICES ASSUME TypeOK, Running, ~GoesOn PROVE FALSE OBVIOUS
<1>1. run.hydrated /\ hand["write"] = {} BY DEF GoesOn
<1>2. ASSUME NEW s \in Later, hand[s] = {} PROVE queue[s] = <<>>
  BY <1>1, <1>2 DEF GoesOn, Takes
<1>3. ASSUME NEW s \in DOMAIN After, queue[After[s]] = <<>> PROVE hand[s] = {}
  <2>1. Room[After[s]] \in Nat \ {0} BY Sizes, Steps
  <2>2. Len(queue[After[s]]) < Room[After[s]] BY <1>3, <2>1
  <2> QED BY <2>2 DEF GoesOn, Gives
<1>4. /\ "prepare" \in DOMAIN After /\ After["prepare"] = "embed"
      /\ "embed" \in DOMAIN After /\ After["embed"] = "extract"
      /\ "extract" \in DOMAIN After /\ After["extract"] = "write"
  BY DEF After
<1>5. queue["write"] = <<>> /\ hand["extract"] = {} BY <1>1, <1>2, <1>3, <1>4 DEF Later
<1>6. queue["extract"] = <<>> /\ hand["embed"] = {} BY <1>5, <1>2, <1>3, <1>4 DEF Later
<1>7. queue["embed"] = <<>> /\ hand["prepare"] = {} BY <1>6, <1>2, <1>3, <1>4 DEF Later
<1>8. cand = <<>>
  <2> SUFFICES ASSUME cand # <<>> PROVE FALSE OBVIOUS
  <2>1. Len(buffer) = BatchSize BY <1>7, StateLengths, Sizes DEF GoesOn, Fills
  <2>2. buffer # <<>> BY <2>1, Sizes
  <2> QED BY <1>7, <2>1, <2>2 DEF GoesOn, Sorts, Complete
<1>9. run.sent = Len(file)
  <2>1. Len(cand) < CandRoom BY <1>8, CandRoomIs, Sizes
  <2> QED BY <2>1, StateLengths DEF GoesOn, Reads
<1>10. buffer = <<>> BY <1>7, <1>8, <1>9 DEF GoesOn, Sorts, Complete, Closed
<1>11. queue = NoQueue
  <2>1. queue = [s \in Later |-> queue[s]] BY DEF TypeOK
  <2> QED BY <1>5, <1>6, <1>7, <2>1 DEF NoQueue, Later
<1>12. hand = NoHand
  <2>1. hand = [s \in Stages |-> hand[s]] BY DEF TypeOK
  <2> QED BY <1>1, <1>5, <1>6, <1>7, <2>1 DEF NoHand, Stages
<1> QED BY <1>8, <1>9, <1>10, <1>11, <1>12 DEF GoesOn, Joined, Closed

(* The weights of a state, apart from what they add up to.                 *)
LEMMA Weights ==
  TypeOK =>
    /\ Len(file) \in Nat /\ run.sent \in Nat /\ run.sent <= Len(file)
    /\ Len(cand) \in Nat /\ Len(buffer) \in Nat
    /\ Len(queue["embed"]) \in Nat /\ Len(queue["extract"]) \in Nat
    /\ Len(queue["write"]) \in Nat
    /\ \A s \in Stages : HandLoad(s) \in {0, 1}
    /\ Unhydrated \in {0, 1}
  BY StateLengths DEF Later, HandLoad, Unhydrated

LEMMA WeightsNext ==
  (TypeOK =>
    /\ Len(file) \in Nat /\ run.sent \in Nat /\ run.sent <= Len(file)
    /\ Len(cand) \in Nat /\ Len(buffer) \in Nat
    /\ Len(queue["embed"]) \in Nat /\ Len(queue["extract"]) \in Nat
    /\ Len(queue["write"]) \in Nat
    /\ \A s \in Stages : HandLoad(s) \in {0, 1}
    /\ Unhydrated \in {0, 1})'
  BY Weights, PTL

(* What a state weighs, as the sum of integers.                            *)
Sum(l, c, b, hp, qe, he, qx, hx, qw, hw, y) ==
  10 * l + 9 * c + 8 * b + 7 * hp + 6 * qe + 5 * he + 4 * qx + 3 * hx + 2 * qw + hw + y

LEMMA LoadIsSum ==
  TypeOK => \E l, c, b, hp, qe, he, qx, hx, qw, hw, y \in Nat :
    /\ l = Len(file) - run.sent /\ c = Len(cand) /\ b = Len(buffer)
    /\ qe = Len(queue["embed"]) /\ qx = Len(queue["extract"]) /\ qw = Len(queue["write"])
    /\ hp = HandLoad("prepare") /\ he = HandLoad("embed")
    /\ hx = HandLoad("extract") /\ hw = HandLoad("write") /\ y = Unhydrated
    /\ Load = Sum(l, c, b, hp, qe, he, qx, hx, qw, hw, y)
<1> SUFFICES ASSUME TypeOK PROVE
      \E l, c, b, hp, qe, he, qx, hx, qw, hw, y \in Nat :
        /\ l = Len(file) - run.sent /\ c = Len(cand) /\ b = Len(buffer)
        /\ qe = Len(queue["embed"]) /\ qx = Len(queue["extract"]) /\ qw = Len(queue["write"])
        /\ hp = HandLoad("prepare") /\ he = HandLoad("embed")
        /\ hx = HandLoad("extract") /\ hw = HandLoad("write") /\ y = Unhydrated
        /\ Load = Sum(l, c, b, hp, qe, he, qx, hx, qw, hw, y)
  OBVIOUS
<1>1. /\ HandLoad("prepare") \in Nat /\ HandLoad("embed") \in Nat
      /\ HandLoad("extract") \in Nat /\ HandLoad("write") \in Nat
      /\ Unhydrated \in Nat
  BY Weights DEF Stages
<1>2. Len(file) - run.sent \in Nat BY Weights
<1>3. /\ Len(cand) \in Nat /\ Len(buffer) \in Nat /\ Len(queue["embed"]) \in Nat
      /\ Len(queue["extract"]) \in Nat /\ Len(queue["write"]) \in Nat
  BY Weights
<1>4. Load = Sum(Len(file) - run.sent, Len(cand), Len(buffer), HandLoad("prepare"),
                 Len(queue["embed"]), HandLoad("embed"), Len(queue["extract"]),
                 HandLoad("extract"), Len(queue["write"]), HandLoad("write"), Unhydrated)
  BY DEF Load, Sum
<1> QED BY ONLY <1>1, <1>2, <1>3, <1>4, Zenon

LEMMA SumIsNat ==
  ASSUME NEW l \in Nat, NEW c \in Nat, NEW b \in Nat, NEW hp \in Nat, NEW qe \in Nat,
         NEW he \in Nat, NEW qx \in Nat, NEW hx \in Nat, NEW qw \in Nat, NEW hw \in Nat,
         NEW y \in Nat
  PROVE  Sum(l, c, b, hp, qe, he, qx, hx, qw, hw, y) \in Nat
  BY DEF Sum

LEMMA LoadIsSumNext ==
  (TypeOK => \E l, c, b, hp, qe, he, qx, hx, qw, hw, y \in Nat :
    /\ l = Len(file) - run.sent /\ c = Len(cand) /\ b = Len(buffer)
    /\ qe = Len(queue["embed"]) /\ qx = Len(queue["extract"]) /\ qw = Len(queue["write"])
    /\ hp = HandLoad("prepare") /\ he = HandLoad("embed")
    /\ hx = HandLoad("extract") /\ hw = HandLoad("write") /\ y = Unhydrated
    /\ Load = Sum(l, c, b, hp, qe, he, qx, hx, qw, hw, y))'
  BY LoadIsSum, PTL

LEMMA LoadIsNat == TypeOK => Load \in Nat
<1> SUFFICES ASSUME TypeOK PROVE Load \in Nat OBVIOUS
<1>1. PICK l, c, b, hp, qe, he, qx, hx, qw, hw, y \in Nat :
        /\ l = Len(file) - run.sent /\ c = Len(cand) /\ b = Len(buffer)
        /\ qe = Len(queue["embed"]) /\ qx = Len(queue["extract"]) /\ qw = Len(queue["write"])
        /\ hp = HandLoad("prepare") /\ he = HandLoad("embed")
        /\ hx = HandLoad("extract") /\ hw = HandLoad("write") /\ y = Unhydrated
        /\ Load = Sum(l, c, b, hp, qe, he, qx, hx, qw, hw, y)
  BY LoadIsSum
<1> QED BY <1>1, SumIsNat

LEMMA LoadNextIsNat == (TypeOK => Load \in Nat)'
  BY LoadIsNat, PTL

LEMMA HandLoads ==
  ASSUME TypeOK, TypeOK', NEW s \in Stages,
         \A t \in Stages \ {s} : hand'[t] = hand[t]
  PROVE  \A t \in Stages \ {s} : HandLoad(t)' = HandLoad(t)
  BY DEF HandLoad

LEMMA QueueLoads ==
  ASSUME TypeOK, NEW s \in Later
  PROVE  /\ queue[s] # <<>> => Len(queue[s]) >= 1 /\ Len(Tail(queue[s])) = Len(queue[s]) - 1
         /\ \A b \in Batches \ {{}} : Len(Append(queue[s], b)) = Len(queue[s]) + 1
<1> PICK q : q = queue[s] OBVIOUS
<1>1. q \in Seq(Batches \ {{}}) BY DEF TypeOK
<1>2. q # <<>> => Len(q) >= 1 /\ Len(Tail(q)) = Len(q) - 1 BY <1>1
<1>3. \A b \in Batches \ {{}} : Len(Append(q, b)) = Len(q) + 1 BY <1>1
<1> QED BY <1>2, <1>3

LEMMA EachStepUnloads ==
  ASSUME TypeOK, TypeOK', Next, Running, run'.phase = "running"
  PROVE  Load' < Load
<1>w. PICK l, c, b, hp, qe, he, qx, hx, qw, hw, y \in Nat :
        /\ l = Len(file) - run.sent /\ c = Len(cand) /\ b = Len(buffer)
        /\ qe = Len(queue["embed"]) /\ qx = Len(queue["extract"]) /\ qw = Len(queue["write"])
        /\ hp = HandLoad("prepare") /\ he = HandLoad("embed")
        /\ hx = HandLoad("extract") /\ hw = HandLoad("write") /\ y = Unhydrated
        /\ Load = Sum(l, c, b, hp, qe, he, qx, hx, qw, hw, y)
  BY LoadIsSum
<1>x. PICK l2, c2, b2, hp2, qe2, he2, qx2, hx2, qw2, hw2, y2 \in Nat :
        /\ l2 = Len(file') - run'.sent /\ c2 = Len(cand') /\ b2 = Len(buffer')
        /\ qe2 = Len(queue'["embed"]) /\ qx2 = Len(queue'["extract"]) /\ qw2 = Len(queue'["write"])
        /\ hp2 = HandLoad("prepare")' /\ he2 = HandLoad("embed")'
        /\ hx2 = HandLoad("extract")' /\ hw2 = HandLoad("write")' /\ y2 = Unhydrated'
        /\ Load' = Sum(l2, c2, b2, hp2, qe2, he2, qx2, hx2, qw2, hw2, y2)
  BY LoadIsSumNext
<1>s. Load = Sum(l, c, b, hp, qe, he, qx, hx, qw, hw, y) BY <1>w
<1>t. Load' = Sum(l2, c2, b2, hp2, qe2, he2, qx2, hx2, qw2, hw2, y2) BY <1>x
<1>n. /\ hp <= 1 /\ he <= 1 /\ hx <= 1 /\ hw <= 1 /\ y <= 1
      /\ hp2 <= 1 /\ he2 <= 1 /\ hx2 <= 1 /\ hw2 <= 1 /\ y2 <= 1
  <2>1. {"prepare", "embed", "extract", "write"} \subseteq Stages BY DEF Stages
  <2>2. \A n \in {0, 1} : n <= 1 OBVIOUS
  <2>3. hp \in {0, 1} /\ he \in {0, 1} /\ hx \in {0, 1} /\ hw \in {0, 1} /\ y \in {0, 1}
    BY <1>w, <2>1, Weights
  <2>4. hp2 \in {0, 1} /\ he2 \in {0, 1} /\ hx2 \in {0, 1} /\ hw2 \in {0, 1} /\ y2 \in {0, 1}
    BY <1>x, <2>1, WeightsNext
  <2> QED BY <2>2, <2>3, <2>4
<1>a. run \in [phase : {"idle", "running", "joined"}, all : BOOLEAN, no : 0 .. MaxRuns,
               sent : 0 .. Len(file), errors : BOOLEAN, hydrated : BOOLEAN]
  BY DEF TypeOK
<1>1. CASE Produce
  <2>1. /\ run'.sent = run.sent + 1 /\ run'.hydrated = run.hydrated
        /\ UNCHANGED <<file, buffer, queue, hand>>
    BY <1>1, <1>a DEF Produce
  <2>2. Len(cand') <= Len(cand) + 1
    <3>1. cand' = cand \/ cand' = Append(cand, run.sent + 1) BY <1>1 DEF Produce
    <3>2. Len(cand) \in Nat /\ cand \in Seq(LineNos) BY StateLengths
    <3>3. Len(Append(cand, run.sent + 1)) = Len(cand) + 1 BY <3>2
    <3> QED BY <3>1, <3>2, <3>3
  <2>3. \A s \in Stages : HandLoad(s)' = HandLoad(s) BY <2>1 DEF HandLoad
  <2>4. /\ l2 = l - 1 /\ c2 <= c + 1 /\ b2 = b /\ hp2 = hp /\ qe2 = qe
        /\ he2 = he /\ qx2 = qx /\ hx2 = hx /\ qw2 = qw /\ hw2 = hw /\ y2 = y
    <3>1. c2 <= c + 1 BY <1>w, <1>x, <2>2
    <3>2. l2 = l - 1
      <4>1. PICK m \in Nat, n \in Nat : m = Len(file) /\ n = run.sent BY StateLengths
      <4>2. l = m - n /\ l2 = m - (n + 1) BY <1>w, <1>x, <2>1, <4>1
      <4> QED BY <4>2
    <3>3. /\ b2 = b /\ hp2 = hp /\ qe2 = qe /\ he2 = he /\ qx2 = qx
          /\ hx2 = hx /\ qw2 = qw /\ hw2 = hw /\ y2 = y
      BY <1>w, <1>x, <2>1, <2>3 DEF Stages, Unhydrated
    <3> QED BY <3>1, <3>2, <3>3
  <2> QED BY <1>s, <1>t, <1>n, <2>4 DEF Sum
<1>2. CASE Collect
  <2>1. /\ UNCHANGED <<file, run, queue, hand>>
        /\ cand # <<>> /\ Len(buffer) < BatchSize
        /\ buffer' = buffer \o SubSeq(cand, 1, Taken)
        /\ cand' = SubSeq(cand, Taken + 1, Len(cand))
    BY <1>2 DEF Collect
  <2>2. Taken \in Nat /\ Taken >= 1 /\ Taken <= Len(cand) BY <2>1, TakenFacts
  <2>3. Len(buffer') = Len(buffer) + Taken /\ Len(cand') = Len(cand) - Taken
    BY <2>1, <2>2, StateLengths, CollectFacts
  <2>4. \A s \in Stages : HandLoad(s)' = HandLoad(s) BY <2>1 DEF HandLoad
  <2>5. /\ l2 = l /\ c2 <= c - 1 /\ b2 + c2 = b + c /\ hp2 = hp /\ qe2 = qe
        /\ he2 = he /\ qx2 = qx /\ hx2 = hx /\ qw2 = qw /\ hw2 = hw /\ y2 = y
    <3>1. PICK k \in Nat : k = Taken /\ k >= 1 BY <2>2
    <3>2. c2 = c - k /\ b2 = b + k BY <1>w, <1>x, <2>3, <3>1
    <3>3. /\ l2 = l /\ hp2 = hp /\ qe2 = qe /\ he2 = he /\ qx2 = qx
          /\ hx2 = hx /\ qw2 = qw /\ hw2 = hw /\ y2 = y
      BY <1>w, <1>x, <2>1, <2>4 DEF Stages, Unhydrated
    <3> QED BY <3>1, <3>2, <3>3
  <2> QED BY <1>s, <1>t, <1>n, <2>5 DEF Sum
<1>3. CASE Prepare
  <2>1. /\ UNCHANGED <<file, run, cand, queue>>
        /\ hand["prepare"] = {} /\ buffer # <<>> /\ buffer' = <<>>
        /\ \A s \in Stages \ {"prepare"} : hand'[s] = hand[s]
    BY <1>3 DEF Prepare, Complete, TypeOK
  <2>2. Len(buffer) >= 1 /\ Len(buffer') = 0 BY <2>1, StateLengths
  <2>3. \A s \in Stages \ {"prepare"} : HandLoad(s)' = HandLoad(s)
    BY <2>1, HandLoads DEF Stages
  <2>4. HandLoad("prepare")' <= 1 /\ HandLoad("prepare") = 0 BY <2>1 DEF HandLoad, Stages
  <2>5. /\ l2 = l /\ c2 = c /\ b >= 1 /\ b2 = 0 /\ hp = 0 /\ qe2 = qe
        /\ he2 = he /\ qx2 = qx /\ hx2 = hx /\ qw2 = qw /\ hw2 = hw /\ y2 = y
    BY <1>w, <1>x, <2>1, <2>2, <2>3, <2>4 DEF Stages, Unhydrated
  <2> QED BY <1>s, <1>t, <1>n, <2>5 DEF Sum
<1>4. CASE Hydrate
  <2>1. /\ UNCHANGED <<file, cand, buffer, queue, hand>>
        /\ run'.sent = run.sent /\ ~run.hydrated /\ run'.hydrated
    BY <1>4, <1>a DEF Hydrate
  <2>2. \A s \in Stages : HandLoad(s)' = HandLoad(s) BY <2>1 DEF HandLoad
  <2>3. /\ l2 = l /\ c2 = c /\ b2 = b /\ hp2 = hp /\ qe2 = qe /\ he2 = he
        /\ qx2 = qx /\ hx2 = hx /\ qw2 = qw /\ hw2 = hw /\ y = 1 /\ y2 = 0
    BY <1>w, <1>x, <2>1, <2>2 DEF Stages, Unhydrated
  <2> QED BY <1>s, <1>t, <1>n, <2>3 DEF Sum
<1>5. ASSUME NEW s \in Later, Receive(s) PROVE Load' < Load
  <2>1. /\ UNCHANGED <<file, run, cand, buffer>>
        /\ hand[s] = {} /\ queue[s] # <<>> /\ queue'[s] = Tail(queue[s])
        /\ \A t \in Stages \ {s} : hand'[t] = hand[t]
        /\ \A t \in Later \ {s} : queue'[t] = queue[t]
    BY <1>5 DEF Receive, TypeOK
  <2>2. Len(queue[s]) >= 1 /\ Len(queue'[s]) = Len(queue[s]) - 1 BY <2>1, QueueLoads
  <2>3. \A t \in Stages \ {s} : HandLoad(t)' = HandLoad(t) BY <2>1, HandLoads, Steps
  <2>4. HandLoad(s) = 0 /\ HandLoad(s)' <= 1 BY <2>1, Steps DEF HandLoad
  <2>5. CASE s = "embed"
    <3>1. /\ l2 = l /\ c2 = c /\ b2 = b /\ hp2 = hp /\ qe2 = qe - 1 /\ he = 0
          /\ qx2 = qx /\ hx2 = hx /\ qw2 = qw /\ hw2 = hw /\ y2 = y
      BY <1>w, <1>x, <2>1, <2>2, <2>3, <2>4, <2>5 DEF Stages, Later, Unhydrated
    <3> QED BY <1>s, <1>t, <1>n, <3>1 DEF Sum
  <2>6. CASE s = "extract"
    <3>1. /\ l2 = l /\ c2 = c /\ b2 = b /\ hp2 = hp /\ qe2 = qe /\ he2 = he
          /\ qx2 = qx - 1 /\ hx = 0 /\ qw2 = qw /\ hw2 = hw /\ y2 = y
      BY <1>w, <1>x, <2>1, <2>2, <2>3, <2>4, <2>6 DEF Stages, Later, Unhydrated
    <3> QED BY <1>s, <1>t, <1>n, <3>1 DEF Sum
  <2>7. CASE s = "write"
    <3>1. /\ l2 = l /\ c2 = c /\ b2 = b /\ hp2 = hp /\ qe2 = qe /\ he2 = he
          /\ qx2 = qx /\ hx2 = hx /\ qw2 = qw - 1 /\ hw = 0 /\ y2 = y
      BY <1>w, <1>x, <2>1, <2>2, <2>3, <2>4, <2>7 DEF Stages, Later, Unhydrated
    <3> QED BY <1>s, <1>t, <1>n, <3>1 DEF Sum
  <2> QED BY <2>5, <2>6, <2>7 DEF Later
<1>6. ASSUME NEW s \in DOMAIN After, Send(s) PROVE Load' < Load
  <2>1. After[s] \in Later /\ s \in Stages BY Steps
  <2>2. /\ UNCHANGED <<file, run, cand, buffer>>
        /\ hand[s] \in Batches \ {{}} /\ hand'[s] = {}
        /\ queue'[After[s]] = Append(queue[After[s]], hand[s])
        /\ \A t \in Stages \ {s} : hand'[t] = hand[t]
        /\ \A t \in Later \ {After[s]} : queue'[t] = queue[t]
    BY <1>6, <2>1 DEF Send, TypeOK
  <2>3. Len(queue'[After[s]]) = Len(queue[After[s]]) + 1 BY <2>1, <2>2, QueueLoads
  <2>4. \A t \in Stages \ {s} : HandLoad(t)' = HandLoad(t) BY <2>1, <2>2, HandLoads
  <2>5. HandLoad(s) = 1 /\ HandLoad(s)' = 0 BY <2>1, <2>2 DEF HandLoad
  <2>6. CASE s = "prepare"
    <3>1. After[s] = "embed" BY <2>6 DEF After
    <3>2. /\ l2 = l /\ c2 = c /\ b2 = b /\ hp = 1 /\ hp2 = 0 /\ qe2 = qe + 1
          /\ he2 = he /\ qx2 = qx /\ hx2 = hx /\ qw2 = qw /\ hw2 = hw
          /\ y2 = y
      BY <1>w, <1>x, <2>2, <2>3, <2>4, <2>5, <2>6, <3>1 DEF Stages, Later, Unhydrated
    <3> QED BY <1>s, <1>t, <1>n, <3>2 DEF Sum
  <2>7. CASE s = "embed"
    <3>1. After[s] = "extract" BY <2>7 DEF After
    <3>2. /\ l2 = l /\ c2 = c /\ b2 = b /\ hp2 = hp /\ qe2 = qe
          /\ he = 1 /\ he2 = 0 /\ qx2 = qx + 1 /\ hx2 = hx /\ qw2 = qw
          /\ hw2 = hw /\ y2 = y
      BY <1>w, <1>x, <2>2, <2>3, <2>4, <2>5, <2>7, <3>1 DEF Stages, Later, Unhydrated
    <3> QED BY <1>s, <1>t, <1>n, <3>2 DEF Sum
  <2>8. CASE s = "extract"
    <3>1. After[s] = "write" BY <2>8 DEF After
    <3>2. /\ l2 = l /\ c2 = c /\ b2 = b /\ hp2 = hp /\ qe2 = qe /\ he2 = he
          /\ qx2 = qx /\ hx = 1 /\ hx2 = 0 /\ qw2 = qw + 1 /\ hw2 = hw
          /\ y2 = y
      BY <1>w, <1>x, <2>2, <2>3, <2>4, <2>5, <2>8, <3>1 DEF Stages, Later, Unhydrated
    <3> QED BY <1>s, <1>t, <1>n, <3>2 DEF Sum
  <2> QED BY <2>6, <2>7, <2>8, Steps
<1>7. CASE Commit
  <2>1. /\ UNCHANGED <<file, run, cand, buffer, queue>>
        /\ hand["write"] # {} /\ hand'["write"] = {}
        /\ \A t \in Stages \ {"write"} : hand'[t] = hand[t]
    BY <1>7 DEF Commit, TypeOK, Stages
  <2>2. \A t \in Stages \ {"write"} : HandLoad(t)' = HandLoad(t) BY <2>1, HandLoads DEF Stages
  <2>3. HandLoad("write") = 1 /\ HandLoad("write")' = 0 BY <2>1 DEF HandLoad
  <2>4. /\ l2 = l /\ c2 = c /\ b2 = b /\ hp2 = hp /\ qe2 = qe /\ he2 = he
        /\ qx2 = qx /\ hx2 = hx /\ qw2 = qw /\ hw = 1 /\ hw2 = 0 /\ y2 = y
    BY <1>w, <1>x, <2>1, <2>2, <2>3 DEF Stages, Unhydrated
  <2> QED BY <1>s, <1>t, <1>n, <2>4 DEF Sum
<1>8. CASE Grow \/ Start BY <1>8 DEF Grow, Start, Running
<1>9. CASE Join \/ Mark \/ LeaveUnmarked \/ Fail
  BY <1>9, <1>a DEF Join, Mark, LeaveUnmarked, Fail, Rest
<1> QED BY <1>1, <1>2, <1>3, <1>4, <1>5, <1>6, <1>7, <1>8, <1>9 DEF Next
-----------------------------------------------------------------------------
(* Whatever the file, the batches and the channels, a run counts the lines *)
(* it read and no more, and no channel of run_stream holds more batches    *)
(* than it was given, nor the batch of prepare_loop more lines             *)
(* (batch.rs:346-364, 398-409).                                            *)
THEOREM TypeCorrect == Spec => []TypeOK
<1>1. IInv => TypeOK BY DEF IInv
<1> QED BY <1>1, Inductive, PTL

(* A decision whose last marked line gives it a text is in the base, for a *)
(* file of any length cut into batches of any size, whichever runs died on *)
(* the way (ingest_judilibre, opendata.rs:409-426).                        *)
THEOREM MarkedLinesAreServed == Spec => []MarkedIsServed
<1>1. IInv => MarkedIsServed BY DEF IInv
<1> QED BY <1>1, Inductive, PTL

(* A run that marks its file leaves each decision it read the text of its  *)
(* last line, however its batches interleave in the stages; the only loss  *)
(* is a text that goes back to an earlier one, and mode All has none       *)
(* (triage_candidates, prepare.rs:93-131; run_stream, batch.rs:355-364).   *)
THEOREM StaleOnlyIfTheTextGoesBack == Spec => StaleOnlyIfBack
<1>1. IInv /\ OInv /\ [Next]_vars =>
        [Mark => \A i \in 1 .. Len(file) :
           StandsLast(i, Len(file)) /\ file[i].text \in Texts /\ (run.all \/ i > marked) =>
             db[file[i].uid] = file[i].text \/ (~run.all /\ GoesBack(i))]_vars
  BY MarkKeeps
<1>2. Init => OInv BY InitOInv
<1>3. IInv /\ OInv /\ [Next]_vars => OInv' BY NextOInv
<1> QED BY <1>1, <1>2, <1>3, Inductive, PTL DEF Spec, StaleOnlyIfBack

(* A run under way is never locked: a loop that finds its channel full     *)
(* finds downstream one that can take or give, down to the writer, whatever*)
(* the rooms (run_stream, batch.rs:355-364).                               *)
THEOREM RunsNeverLock == Spec => [](Running => GoesOn)
<1>1. IInv => (Running => GoesOn) BY SomeLoopGoesOn DEF IInv
<1> QED BY <1>1, Inductive, PTL

(* And every step it makes leaves less to do, so that no loop goes round:  *)
(* what is read once is never read again by the same run (run_stream,      *)
(* batch.rs:346-409).                                                      *)
THEOREM RunsAdvance ==
  Spec => [][Running /\ run'.phase = "running" =>
               Load \in Nat /\ Load' \in Nat /\ Load' < Load]_vars
<1>1. IInv /\ IInv' /\ [Next]_vars =>
        [Running /\ run'.phase = "running" =>
           Load \in Nat /\ Load' \in Nat /\ Load' < Load]_vars
  <2> SUFFICES ASSUME IInv, IInv', Next, Running, run'.phase = "running"
               PROVE  Load \in Nat /\ Load' \in Nat /\ Load' < Load
    OBVIOUS
  <2>1. TypeOK /\ TypeOK' BY DEF IInv
  <2>2. Load \in Nat BY <2>1, LoadIsNat
  <2>3. Load' \in Nat BY <2>1, LoadNextIsNat
  <2>4. Load' < Load BY <2>1, EachStepUnloads
  <2> QED BY <2>2, <2>3, <2>4
<1> QED BY <1>1, Inductive, PTL DEF Spec
=============================================================================

---------------------------- MODULE Store_proofs -----------------------------
(* Proofs about the store: DecisionSources, for any source_uids, sources,  *)
(* ranks, runs and bounds, then Migrator, for any processes and any series *)
(* of migrations.                                                          *)
EXTENDS DecisionSources, Migrator, TLAPS

Table == [Uids -> Row]

Decision == [state : {"none", "live", "withdrawn"}, meta : Text, text : Text]

(* What the row x of the decision d owes its sources, those of r.          *)
Fits(r, x, d) ==
  x.state # "none" =>
    /\ SourcesIn(r, d) # {}
    /\ x.state = "withdrawn" <=> Withdrawn(r, d)
    /\ x.state = "withdrawn" => x.text = NoText

Serves(r, x, d) ==
  \A u \in Uids : x.state = "live" /\ Leads(r, u, d) =>
    /\ x.text = [uid |-> u, sum |-> r[u].sum]
    /\ x.meta = x.text

ByAuthority(r, x, d) == x.state = "withdrawn" => Withdrawn(r, d)

(* Rows and jobs are of the kind the transactions leave: a row without a   *)
(* decision is not active, a job has its source_uid, and its decision from *)
(* the lock on; the prune and the merge know what they work on.            *)
WellFormed ==
  /\ \A u \in Uids : rows[u].active => rows[u].dec # 0
  /\ \A w \in Writers : job[w].pc # "idle" => job[w].uid \in Uids
  /\ \A w \in Writers : job[w].pc \in {"lock", "commit"} => job[w].id \in Ids
  /\ prune.id # 0 => prune.uid \in Uids
  /\ merge.losers # {} => merge.keeper \in Ids
  /\ \A d \in Ids : d > lastId => decisions[d].state = "none"

(* A decision that is locked is there, and has one lock; so has a row.     *)
LocksHold ==
  /\ \A w \in Holders : Refers(job[w].id)
  /\ \A w, x \in Holders : w # x => job[w].id # job[x].id /\ job[w].uid # job[x].uid

(* What a run learnt of the authority under the lock still stands when it  *)
(* commits, but for rows that have left the decision.                      *)
Stands(r, u, d, c, lead, f) ==
  /\ lead => Leads(Attached(r, u, d, c), u, d)
  /\ Leads(Attached(r, u, d, c), u, d) => lead \/ d \in f

LeadStands ==
  \A w \in Holders : Stands(rows, job[w].uid, job[w].id, job[w].sum, job[w].lead, frozen)

(* A decision is withdrawn by its authority, raced or not, unless that     *)
(* authority has left it.                                                  *)
WithdrawnByAuthority == \A d \in Ids \ frozen : ByAuthority(rows, decisions[d], d)

IInv ==
  /\ TypeOK
  /\ WellFormed /\ LocksHold /\ LeadStands
  /\ WithdrawnByAuthority /\ Reconciled /\ AuthorityServes
-----------------------------------------------------------------------------
(* The order of authority is total and strict.                             *)
LEMMA AboveOrder ==
  ASSUME NEW u \in Uids, NEW v \in Uids, NEW w \in Uids
  PROVE  /\ ~Above(u, u)
         /\ u # v => Above(u, v) \/ Above(v, u)
         /\ Above(u, v) /\ Above(v, w) => Above(u, w)
<1>1. Rank(u) \in Nat /\ Rank(v) \in Nat /\ Rank(w) \in Nat /\ u \in Nat /\ v \in Nat /\ w \in Nat
  BY SourcesAssumption DEF Rank
<1> QED BY <1>1 DEF Above

(* A decision has one authority.                                           *)
LEMMA OneLeader ==
  ASSUME NEW r, NEW d, NEW u, NEW v, Leads(r, u, d), Leads(r, v, d)
  PROVE  u = v
  BY AboveOrder DEF Leads, SourcesIn

(* r and s have the same rows in d.                                        *)
Agree(r, s, d) ==
  \A u \in Uids : /\ r[u].dec = d <=> s[u].dec = d
                  /\ r[u].dec = d => s[u] = r[u]

LEMMA AgreeingRows ==
  ASSUME NEW r, NEW s, NEW d, NEW x, Agree(r, s, d)
  PROVE  /\ SourcesIn(s, d) = SourcesIn(r, d)
         /\ \A u : Leads(s, u, d) <=> Leads(r, u, d)
         /\ Fits(r, x, d) => Fits(s, x, d)
         /\ Serves(r, x, d) => Serves(s, x, d)
         /\ ByAuthority(r, x, d) => ByAuthority(s, x, d)
<1>1. SourcesIn(s, d) = SourcesIn(r, d)
  BY DEF Agree, SourcesIn
<1>2. \A u : Leads(s, u, d) <=> Leads(r, u, d)
  BY <1>1 DEF Leads
<1>3. \A u : Leads(r, u, d) => u \in Uids /\ s[u] = r[u]
  BY DEF Leads, SourcesIn, Agree
<1>4. Withdrawn(s, d) <=> Withdrawn(r, d)
  BY <1>2, <1>3 DEF Withdrawn
<1>5. Fits(r, x, d) => Fits(s, x, d) BY <1>1, <1>4 DEF Fits
<1>6. Serves(r, x, d) => Serves(s, x, d) BY <1>2, <1>3 DEF Serves
<1>7. ByAuthority(r, x, d) => ByAuthority(s, x, d) BY <1>4 DEF ByAuthority
<1> QED BY <1>1, <1>2, <1>5, <1>6, <1>7

(* A row that is not the authority leaves d: who leads is the same.        *)
LEMMA FollowerLeaves ==
  ASSUME NEW r, NEW s, NEW d, NEW x, NEW u \in Uids,
         u \in SourcesIn(r, d), ~Leads(r, u, d), s[u].dec # d,
         \A v \in Uids \ {u} : s[v] = r[v]
  PROVE  /\ \A v : Leads(s, v, d) <=> Leads(r, v, d)
         /\ Fits(r, x, d) => Fits(s, x, d)
         /\ Serves(r, x, d) => Serves(s, x, d)
         /\ ByAuthority(r, x, d) => ByAuthority(s, x, d)
<1>1. \A v : v \in SourcesIn(s, d) <=> v \in SourcesIn(r, d) /\ v # u
  BY DEF SourcesIn
<1>2. PICK t \in SourcesIn(r, d) : Above(t, u)
  BY DEF Leads
<1>3. t \in Uids /\ t # u
  BY <1>2, AboveOrder DEF SourcesIn
<1>4. \A v : Leads(s, v, d) <=> Leads(r, v, d)
  <2>1. ASSUME NEW v, Leads(r, v, d) PROVE Leads(s, v, d)
    BY <2>1, <1>1 DEF Leads
  <2>2. ASSUME NEW v, Leads(s, v, d) PROVE Leads(r, v, d)
    <3>1. v \in Uids /\ v \in SourcesIn(r, d) BY <2>2, <1>1 DEF Leads, SourcesIn
    <3>2. ~Above(t, v) BY <2>2, <1>1, <1>2, <1>3 DEF Leads
    <3>3. ~Above(u, v) BY <3>1, <3>2, <1>2, <1>3, AboveOrder
    <3>4. \A w \in SourcesIn(r, d) : ~Above(w, v) BY <2>2, <3>3, <1>1 DEF Leads
    <3> QED BY <3>1, <3>4 DEF Leads
  <2> QED BY <2>1, <2>2
<1>5. \A v : Leads(r, v, d) => v \in Uids /\ s[v] = r[v]
  BY DEF Leads, SourcesIn
<1>6. Withdrawn(s, d) <=> Withdrawn(r, d)
  BY <1>4, <1>5 DEF Withdrawn
<1>7. SourcesIn(s, d) # {} BY <1>1, <1>2, <1>3
<1>8. Fits(r, x, d) => Fits(s, x, d) BY <1>6, <1>7 DEF Fits
<1>9. Serves(r, x, d) => Serves(s, x, d) BY <1>4, <1>5 DEF Serves
<1>10. ByAuthority(r, x, d) => ByAuthority(s, x, d) BY <1>6 DEF ByAuthority
<1> QED BY <1>4, <1>8, <1>9, <1>10
-----------------------------------------------------------------------------
(* What reconcile leaves fits the sources it read.                         *)
LEMMA SettledFits ==
  ASSUME NEW r, NEW d, NEW x \in Decision
  PROVE  /\ Settled(r, d, x) \in Decision
         /\ Settled(r, d, x).state = "none" <=> x.state = "none" \/ SourcesIn(r, d) = {}
         /\ Fits(r, Settled(r, d, x), d)
         /\ ByAuthority(r, Settled(r, d, x), d)
<1>1. NoText \in Text /\ x.meta \in Text /\ x.text \in Text
      /\ x.state \in {"none", "live", "withdrawn"}
  BY DEF NoText, Text, Decision
<1>2. CASE x.state = "none" \/ SourcesIn(r, d) = {}
  BY <1>1, <1>2 DEF Settled, NoDec, Fits, ByAuthority, Decision
<1>3. CASE ~(x.state = "none" \/ SourcesIn(r, d) = {}) /\ Withdrawn(r, d)
  BY <1>1, <1>3 DEF Settled, Fits, ByAuthority, Decision
<1>4. CASE ~(x.state = "none" \/ SourcesIn(r, d) = {}) /\ ~Withdrawn(r, d)
  BY <1>1, <1>4 DEF Settled, Fits, ByAuthority, Decision
<1> QED BY <1>2, <1>3, <1>4

(* reconcile keeps what is served, when it brings nothing back: whoever    *)
(* leads now led before, with the same text.                               *)
LEMMA SettledServes ==
  ASSUME NEW r, NEW s, NEW d, NEW x \in Decision,
         Serves(r, x, d), ByAuthority(r, x, d),
         \A v \in Uids : Leads(s, v, d) =>
           /\ Leads(r, v, d)
           /\ s[v].sum = r[v].sum
           /\ ~r[v].active => ~s[v].active
  PROVE  Serves(s, Settled(s, d, x), d)
<1> SUFFICES ASSUME NEW u \in Uids, Settled(s, d, x).state = "live", Leads(s, u, d)
             PROVE  /\ Settled(s, d, x).text = [uid |-> u, sum |-> s[u].sum]
                    /\ Settled(s, d, x).meta = Settled(s, d, x).text
  BY DEF Serves
<1>1. /\ x.state # "none" /\ ~Withdrawn(s, d)
      /\ Settled(s, d, x).text = x.text /\ Settled(s, d, x).meta = x.meta
  BY DEF Settled, NoDec
<1>2. Leads(r, u, d) /\ s[u].sum = r[u].sum
  OBVIOUS
<1>3. x.state # "withdrawn"
  <2>1. SUFFICES ASSUME x.state = "withdrawn" PROVE FALSE
    OBVIOUS
  <2>2. PICK v \in Uids : Leads(r, v, d) /\ ~r[v].active
    BY <2>1 DEF ByAuthority, Withdrawn
  <2>3. v = u BY <2>2, <1>2, OneLeader
  <2> QED BY <2>2, <2>3, <1>1 DEF Withdrawn
<1>4. x.state = "live" BY <1>1, <1>3 DEF Decision
<1> QED BY <1>1, <1>2, <1>4 DEF Serves

(* A source that comes first brings its text and its metadata.             *)
LEMMA LeaderServes ==
  ASSUME NEW s, NEW d, NEW x \in Decision, NEW u \in Uids, NEW c,
         Leads(s, u, d), s[u].sum = c
  PROVE  Serves(s, Settled(s, d, Written(x, u, c, TRUE, TRUE)), d)
<1> DEFINE y == Written(x, u, c, TRUE, TRUE)
<1>1. y.text = [uid |-> u, sum |-> c] /\ y.meta = [uid |-> u, sum |-> c]
  BY DEF Written
<1>2. Settled(s, d, y).state = "live" => Settled(s, d, y).text = y.text
                                         /\ Settled(s, d, y).meta = y.meta
  BY DEF Settled, NoDec
<1> HIDE DEF y
<1>3. \A v \in Uids : Leads(s, v, d) => v = u
  BY OneLeader
<1> QED BY <1>1, <1>2, <1>3 DEF Serves, y
-----------------------------------------------------------------------------
(* A lead read under a lock stands while the rows of the decision do, that *)
(* of the run itself set aside.                                            *)
LEMMA StandsSame ==
  ASSUME NEW r \in Table, NEW s \in Table, NEW f, NEW g,
         NEW u \in Uids, NEW d, NEW c, NEW lead \in BOOLEAN, Stands(r, u, d, c, lead, f),
         d \in f => d \in g,
         \A v \in Uids \ {u} : r[v].dec = d <=> s[v].dec = d
  PROVE  Stands(s, u, d, c, lead, g)
<1>1. \A v : v \in SourcesIn(Attached(s, u, d, c), d) <=> v = u \/ v \in SourcesIn(s, d)
  BY DEF Attached, Table, SourcesIn
<1>2. \A v : v \in SourcesIn(Attached(r, u, d, c), d) <=> v = u \/ v \in SourcesIn(r, d)
  BY DEF Attached, Table, SourcesIn
<1>3. \A v \in Uids \ {u} : v \in SourcesIn(r, d) <=> v \in SourcesIn(s, d)
  BY DEF SourcesIn
<1>4. SourcesIn(r, d) \subseteq Uids /\ SourcesIn(s, d) \subseteq Uids
  BY DEF SourcesIn
<1>5. \A v : v \in SourcesIn(Attached(s, u, d, c), d) <=> v \in SourcesIn(Attached(r, u, d, c), d)
  BY <1>1, <1>2, <1>3, <1>4
<1>6. SourcesIn(Attached(s, u, d, c), d) = SourcesIn(Attached(r, u, d, c), d)
  BY ONLY <1>5
<1> QED BY <1>6 DEF Stands, Leads

(* It stands when another row leaves, which was not the authority, or which*)
(* leaves the decision frozen.                                             *)
LEMMA StandsLosing ==
  ASSUME NEW r \in Table, NEW s \in Table, NEW f, NEW g,
         NEW u \in Uids, NEW d, NEW c, NEW lead \in BOOLEAN, Stands(r, u, d, c, lead, f),
         d \in f => d \in g,
         NEW v \in Uids \ {u}, r[v].dec = d, s[v].dec # d,
         \A w \in Uids \ {v} : s[w] = r[w],
         Leads(r, v, d) => d \in g
  PROVE  Stands(s, u, d, c, lead, g)
<1> DEFINE a == Attached(r, u, d, c)
<1> DEFINE b == Attached(s, u, d, c)
<1>1. /\ \A w \in Uids \ {v} : b[w] = a[w]
      /\ b[v].dec # d /\ v \in SourcesIn(a, d)
      /\ \A w : w \in SourcesIn(a, d) <=> w = u \/ w \in SourcesIn(r, d)
  <2>1. \A w \in Uids \ {u} : a[w] = r[w] /\ b[w] = s[w]
    BY DEF Attached, Table, SourcesIn
  <2>2. b[u] = a[u]
    BY DEF Attached, Table, SourcesIn
  <2>3. \A w : w \in SourcesIn(a, d) <=> w = u \/ w \in SourcesIn(r, d)
    BY DEF Attached, Table, SourcesIn
  <2> HIDE DEF a, b
  <2>4. \A w \in Uids \ {v} : b[w] = a[w]
    BY <2>1, <2>2
  <2>5. b[v].dec # d /\ a[v].dec = d
    BY <2>1
  <2> QED BY <2>3, <2>4, <2>5 DEF SourcesIn
<1>2. Stands(r, u, d, c, lead, f) <=>
        (lead => Leads(a, u, d)) /\ (Leads(a, u, d) => lead \/ d \in f)
  BY DEF Stands
<1>3. Stands(s, u, d, c, lead, g) <=>
        (lead => Leads(b, u, d)) /\ (Leads(b, u, d) => lead \/ d \in g)
  BY DEF Stands
<1> HIDE DEF a, b
<1>4. SourcesIn(b, d) \subseteq SourcesIn(a, d)
  BY <1>1 DEF SourcesIn
<1>5. Leads(a, u, d) => Leads(b, u, d)
  BY <1>1, <1>4 DEF Leads, SourcesIn
<1>6. CASE d \in g
  BY <1>2, <1>3, <1>5, <1>6
<1>7. CASE ~Leads(r, v, d)
  <2>1. PICK t \in SourcesIn(r, d) : Above(t, v)
    BY <1>7 DEF Leads, SourcesIn
  <2>2. ~Leads(a, v, d)
    BY <2>1, <1>1 DEF Leads
  <2>3. \A w : Leads(b, w, d) <=> Leads(a, w, d)
    BY ONLY <2>2, <1>1, FollowerLeaves
  <2> QED BY <2>3, <1>2, <1>3
<1> QED BY <1>6, <1>7
-----------------------------------------------------------------------------
(* The steps that touch no row and no decision.                            *)
LEMMA InitIInv == Init => IInv
  BY SourcesAssumption DEF Init, IInv, TypeOK, WellFormed, LocksHold, LeadStands, Stands,
     WithdrawnByAuthority, ByAuthority, Reconciled, AuthorityServes, Holders, Row, Text, Job,
     NoRow, NoDec, NoText, NoJob, NoMerge, Ids, Refers

LEMMA QuietStep ==
  ASSUME IInv, TypeOK', WellFormed', UNCHANGED <<rows, decisions, raced, frozen>>,
         \A w \in Writers : job'[w].pc = "commit" => job'[w] = job[w]
  PROVE  IInv'
<1>1. LocksHold' BY DEF IInv, LocksHold, Holders, Refers
<1>2. LeadStands' BY DEF IInv, LeadStands, Holders
<1>3. WithdrawnByAuthority' BY DEF IInv, WithdrawnByAuthority
<1>4. Reconciled' BY DEF IInv, Reconciled
<1>5. AuthorityServes' BY DEF IInv, AuthorityServes
<1> QED BY <1>1, <1>2, <1>3, <1>4, <1>5 DEF IInv

LEMMA WithdrawIInv ==
  ASSUME IInv, NEW u \in Uids, Withdraw(u)
  PROVE  IInv'
<1> USE DEF Withdraw, counts, tools
<1>1. TypeOK'
  <2>1. says + 1 \in 0 .. MaxSays BY SourcesAssumption DEF IInv, TypeOK
  <2> QED BY <2>1 DEF IInv, TypeOK
<1>2. WellFormed' BY SourcesAssumption DEF IInv, TypeOK, Row, Job, Ids, WellFormed
<1>3. \A x \in Writers : job'[x].pc = "commit" => job'[x] = job[x]
  BY DEF IInv, TypeOK
<1> QED BY <1>1, <1>2, <1>3, QuietStep

LEMMA RepublishIInv ==
  ASSUME IInv, NEW u \in Uids, Republish(u)
  PROVE  IInv'
<1> USE DEF Republish, counts, tools
<1>1. TypeOK' BY SourcesAssumption DEF IInv, TypeOK, Row, Job, Ids, Sums, WellFormed
<1>2. WellFormed' BY SourcesAssumption DEF IInv, TypeOK, Row, Job, Ids, WellFormed
<1>3. \A x \in Writers : job'[x].pc = "commit" => job'[x] = job[x]
  BY DEF IInv, TypeOK
<1> QED BY <1>1, <1>2, <1>3, QuietStep

LEMMA TriageIInv ==
  ASSUME IInv, NEW w \in Writers, NEW u \in Uids, NEW c \in SumsOf[u], Triage(w, u, c)
  PROVE  IInv'
<1> USE DEF Triage, counts, tools, NoJob
<1>0. PICK m \in Job : job' = [job EXCEPT ![w] = m]
  <2>1. rows[u].dec \in 0 .. MaxId /\ 0 \in 0 .. MaxId /\ c \in Sums
    BY SourcesAssumption DEF IInv, TypeOK, Row, Ids, Sums
  <2>2. PICK m : m = IF rows[u].active
                     THEN [pc |-> "lock", uid |-> u, sum |-> c, id |-> rows[u].dec, lead |-> FALSE]
                     ELSE [pc |-> "lookup", uid |-> u, sum |-> c, id |-> 0, lead |-> FALSE]
    OBVIOUS
  <2>3. m \in Job BY <2>1, <2>2 DEF Job
  <2> QED BY <2>2, <2>3
<1>1. TypeOK'
  <2>1. job' \in [Writers -> Job] BY <1>0 DEF IInv, TypeOK
  <2>2. feeds' \in 0 .. MaxFeeds BY SourcesAssumption DEF IInv, TypeOK
  <2> QED BY <2>1, <2>2 DEF IInv, TypeOK
<1>2. WellFormed' BY SourcesAssumption DEF IInv, TypeOK, Row, Job, Ids, WellFormed
<1>3. \A x \in Writers : job'[x].pc = "commit" => job'[x] = job[x]
  BY DEF IInv, TypeOK
<1> QED BY <1>1, <1>2, <1>3, QuietStep

LEMMA LookupIInv ==
  ASSUME IInv, NEW w \in Writers, Lookup(w)
  PROVE  IInv'
<1> DEFINE Going(step, d) == [pc |-> step, uid |-> job[w].uid, sum |-> job[w].sum, id |-> d,
                            lead |-> FALSE]
<1>1. /\ job \in [Writers -> Job] /\ job[w] \in Job
      /\ job[w].uid \in Uids
      /\ rows[job[w].uid].dec \in 0 .. MaxId
      /\ UNCHANGED <<rows, decisions, lastId, out, tools, raced, frozen, counts>>
  BY DEF IInv, TypeOK, WellFormed, Row, Lookup
<1>2. \/ job' = [job EXCEPT ![w] = NoJob]
      \/ job' = [job EXCEPT ![w] = Going("create", 0)]
      \/ \E d \in Ids : job' = [job EXCEPT ![w] = Going("lock", d)]
  BY <1>1, SourcesAssumption DEF Lookup, Goes, CanTake, Ids
<1>3. NoJob \in Job /\ Going("create", 0) \in Job
  BY <1>1, SourcesAssumption DEF NoJob, Job
<1>4. \A d \in Ids : Going("lock", d) \in Job
  BY <1>1, SourcesAssumption DEF Job, Ids
<1>5. \A x \in Writers : x # w => job'[x] = job[x]
  BY <1>1, <1>2
<1>6. /\ job' \in [Writers -> Job]
      /\ job'[w].pc # "commit"
      /\ job'[w].pc # "idle" => job'[w].uid \in Uids
      /\ job'[w].pc = "lock" => job'[w].id \in Ids
  <2>1. CASE job' = [job EXCEPT ![w] = NoJob]
    BY <2>1, <1>1, <1>3 DEF NoJob
  <2>2. CASE job' = [job EXCEPT ![w] = Going("create", 0)]
    BY <2>2, <1>1, <1>3
  <2>3. CASE \E d \in Ids : job' = [job EXCEPT ![w] = Going("lock", d)]
    BY <2>3, <1>1, <1>4
  <2> QED BY <1>2, <2>1, <2>2, <2>3
<1>7. TypeOK' BY <1>1, <1>6 DEF IInv, TypeOK, tools, counts
<1>8. WellFormed' BY <1>1, <1>5, <1>6 DEF IInv, WellFormed, tools
<1> QED BY <1>1, <1>5, <1>6, <1>7, <1>8, QuietStep

LEMMA RollbackIInv ==
  ASSUME IInv, NEW w \in Writers, Rollback(w)
  PROVE  IInv'
<1> USE DEF Rollback, counts, tools, NoJob
<1>1. TypeOK'
  <2>1. [pc |-> "idle", uid |-> 0, sum |-> 0, id |-> 0, lead |-> FALSE] \in Job
    BY SourcesAssumption DEF Job
  <2> QED BY <2>1 DEF IInv, TypeOK
<1>2. WellFormed' BY SourcesAssumption DEF IInv, TypeOK, Row, Job, Ids, WellFormed
<1>3. \A x \in Writers : job'[x].pc = "commit" => job'[x] = job[x]
  BY DEF IInv, TypeOK
<1> QED BY <1>1, <1>2, <1>3, QuietStep

LEMMA FindIInv ==
  ASSUME IInv, NEW u \in Uids, Find(u)
  PROVE  IInv'
<1> USE DEF Find, counts, tools, Found, Kept
<1>1. TypeOK' BY SourcesAssumption DEF IInv, TypeOK, Row, Job, Ids, Sums, WellFormed
<1>2. WellFormed' BY SourcesAssumption DEF IInv, TypeOK, Row, Job, Ids, WellFormed
<1>3. \A x \in Writers : job'[x].pc = "commit" => job'[x] = job[x]
  BY DEF IInv, TypeOK
<1> QED BY <1>1, <1>2, <1>3, QuietStep

LEMMA MergeFailsIInv ==
  ASSUME IInv, NEW l \in Ids, MergeFails(l)
  PROVE  IInv'
<1> USE DEF MergeFails, counts, tools, NoMerge
<1>1. TypeOK' BY SourcesAssumption DEF IInv, TypeOK, Row, Job, Ids, Sums, WellFormed
<1>2. WellFormed' BY SourcesAssumption DEF IInv, TypeOK, Row, Job, Ids, WellFormed
<1>3. \A x \in Writers : job'[x].pc = "commit" => job'[x] = job[x]
  BY DEF IInv, TypeOK
<1> QED BY <1>1, <1>2, <1>3, QuietStep

LEMMA ReadClusterIInv ==
  ASSUME IInv, ReadCluster
  PROVE  IInv'
<1> USE DEF ReadCluster, counts, tools, Cluster, NoMerge
<1>1. TypeOK' BY SourcesAssumption DEF IInv, TypeOK, Row, Job, Ids, Sums, WellFormed
<1>2. WellFormed' BY SourcesAssumption DEF IInv, TypeOK, Row, Job, Ids, WellFormed
<1>3. \A x \in Writers : job'[x].pc = "commit" => job'[x] = job[x]
  BY DEF IInv, TypeOK
<1> QED BY <1>1, <1>2, <1>3, QuietStep

LEMMA ReadLosersIInv ==
  ASSUME IInv, ReadLosers
  PROVE  IInv'
<1> USE DEF ReadLosers, counts, tools, ActiveIn, SourcesIn
<1>1. TypeOK' BY SourcesAssumption DEF IInv, TypeOK, Row, Job, Ids, Sums, WellFormed
<1>2. WellFormed' BY SourcesAssumption DEF IInv, TypeOK, Row, Job, Ids, WellFormed
<1>3. \A x \in Writers : job'[x].pc = "commit" => job'[x] = job[x]
  BY DEF IInv, TypeOK
<1> QED BY <1>1, <1>2, <1>3, QuietStep

LEMMA LockIInv ==
  ASSUME IInv, NEW w \in Writers, Lock(w)
  PROVE  IInv'
<1>1. PICK b \in BOOLEAN : b <=> Leads(Attached(rows, job[w].uid, job[w].id, job[w].sum), job[w].uid, job[w].id)
  OBVIOUS
<1>2. /\ job \in [Writers -> Job] /\ job[w].pc = "lock"
      /\ job[w].uid \in Uids /\ job[w].sum \in Sums \cup {0} /\ job[w].id \in Ids
      /\ LockFree(job[w].id) /\ RowFree(job[w].uid) /\ Refers(job[w].id)
      /\ UNCHANGED <<rows, decisions, lastId, out, tools, raced, frozen, counts>>
  BY DEF IInv, TypeOK, WellFormed, Job, Lock
<1>3. job' = [job EXCEPT ![w] = [pc |-> "commit", uid |-> job[w].uid, sum |-> job[w].sum,
                                 id |-> job[w].id, lead |-> b]]
  BY <1>1 DEF Lock, Goes, Leads
<1>4. [pc |-> "commit", uid |-> job[w].uid, sum |-> job[w].sum, id |-> job[w].id,
       lead |-> b] \in Job
  BY <1>2, SourcesAssumption DEF Job, Ids
<1>5. /\ job' \in [Writers -> Job] /\ job'[w].uid = job[w].uid /\ job'[w].sum = job[w].sum
      /\ job'[w].id = job[w].id /\ job'[w].lead = b
      /\ \A x \in Writers : x # w => job'[x] = job[x]
  BY <1>2, <1>3, <1>4
<1>6. \A x \in Holders' : x # w => x \in Holders /\ job'[x] = job[x]
  BY <1>5 DEF Holders
<1>7. TypeOK' BY <1>2, <1>5 DEF IInv, TypeOK, tools, counts
<1>8. WellFormed' BY <1>2, <1>5 DEF IInv, WellFormed, tools
<1>9. LocksHold'
  <2>1. \A x \in Holders' : Refers(job'[x].id)
    BY <1>2, <1>5, <1>6 DEF IInv, LocksHold
  <2>2. \A x \in Holders' : x # w => job'[x].id # job[w].id /\ job'[x].uid # job[w].uid
    BY <1>2, <1>6 DEF LockFree, RowFree
  <2>3. ASSUME NEW x \in Holders', NEW y \in Holders', x # y
        PROVE  job'[x].id # job'[y].id /\ job'[x].uid # job'[y].uid
    BY <2>2, <2>3, <1>5, <1>6 DEF IInv, LocksHold
  <2> QED BY <2>1, <2>3, <1>2 DEF LocksHold, Refers
<1>10. LeadStands'
  <2>1. ASSUME NEW x \in Holders', x # w
        PROVE  Stands(rows', job'[x].uid, job'[x].id, job'[x].sum, job'[x].lead, frozen')
    BY <2>1, <1>2, <1>6 DEF IInv, LeadStands
  <2>2. Stands(rows', job'[w].uid, job'[w].id, job'[w].sum, job'[w].lead, frozen')
    BY <1>1, <1>2, <1>5 DEF Stands
  <2> QED BY <2>1, <2>2 DEF LeadStands
<1>11. WithdrawnByAuthority' BY <1>2 DEF IInv, WithdrawnByAuthority
<1>12. Reconciled' BY <1>2 DEF IInv, Reconciled
<1>13. AuthorityServes' BY <1>2 DEF IInv, AuthorityServes
<1> QED BY <1>7, <1>8, <1>9, <1>10, <1>11, <1>12, <1>13 DEF IInv
-----------------------------------------------------------------------------
(* The steps that move the row of one source, u, to d.                     *)
Moves(r, s, u, d) == s[u].dec = d /\ \A v \in Uids \ {u} : s[v] = r[v]

LEMMA AttachedMoves ==
  ASSUME NEW r \in Table, NEW u \in Uids, NEW d \in Ids, NEW c \in Sums \cup {0}
  PROVE  /\ Attached(r, u, d, c) \in Table
         /\ Moves(r, Attached(r, u, d, c), u, d)
         /\ Attached(r, u, d, c)[u].sum = c
         /\ Attached(r, u, d, c)[u].active
<1>1. [dec |-> d, sum |-> c, active |-> TRUE] \in Row
  BY SourcesAssumption DEF Row, Ids
<1> QED BY <1>1 DEF Attached, Table, Moves

(* A decision it does not come to is as it was, unless u led it.           *)
LEMMA OthersMove ==
  ASSUME NEW r, NEW s, NEW u \in Uids, NEW d, NEW e, NEW x,
         Moves(r, s, u, d), e # d, ~Leads(r, u, e)
  PROVE  /\ Fits(r, x, e) => Fits(s, x, e)
         /\ Serves(r, x, e) => Serves(s, x, e)
         /\ ByAuthority(r, x, e) => ByAuthority(s, x, e)
<1>1. CASE r[u].dec = e
  <2>1. u \in SourcesIn(r, e) /\ s[u].dec # e /\ \A v \in Uids \ {u} : s[v] = r[v]
    BY <1>1 DEF Moves, SourcesIn
  <2> QED BY ONLY <2>1, FollowerLeaves, u \in Uids, ~Leads(r, u, e)
<1>2. CASE r[u].dec # e
  <2>1. Agree(r, s, e) BY <1>2 DEF Moves, Agree
  <2> QED BY <2>1, AgreeingRows
<1> QED BY <1>1, <1>2

LEMMA StandsMove ==
  ASSUME NEW r \in Table, NEW s \in Table, NEW f, NEW g,
         NEW u \in Uids, NEW d, NEW v \in Uids, NEW e, NEW c, NEW lead \in BOOLEAN,
         Moves(r, s, u, d), u # v, d # e, Stands(r, v, e, c, lead, f),
         e \in f => e \in g, Leads(r, u, e) => e \in g
  PROVE  Stands(s, v, e, c, lead, g)
<1>1. CASE r[u].dec = e
  <2>1. u \in Uids \ {v} /\ s[u].dec # e /\ \A w \in Uids \ {u} : s[w] = r[w]
    BY DEF Moves
  <2> QED BY <1>1, <2>1, StandsLosing
<1>2. CASE r[u].dec # e
  <2>1. \A w \in Uids \ {v} : r[w].dec = e <=> s[w].dec = e
    BY <1>2 DEF Moves
  <2> QED BY <2>1, StandsSame
<1> QED BY <1>1, <1>2

(* Where it comes without leading, who leads led before.                   *)
LEMMA FollowerComes ==
  ASSUME NEW r \in Table, NEW s \in Table, NEW u \in Uids, NEW d, NEW v,
         Moves(r, s, u, d), ~Leads(s, u, d), Leads(s, v, d)
  PROVE  v # u /\ Leads(r, v, d) /\ s[v] = r[v]
<1>1. v \in Uids /\ v # u BY DEF Leads, SourcesIn
<1>2. SourcesIn(r, d) \subseteq SourcesIn(s, d) BY DEF Moves, SourcesIn
<1>3. v \in SourcesIn(r, d) BY <1>1 DEF Moves, SourcesIn, Leads
<1> QED BY <1>1, <1>2, <1>3 DEF Leads, Moves

LEMMA WrittenIs ==
  ASSUME NEW x \in Decision, NEW u \in Uids, NEW c \in Sums \cup {0},
         NEW lead \in BOOLEAN, NEW first \in BOOLEAN
  PROVE  /\ Written(x, u, c, lead, first) \in Decision
         /\ Written(x, u, c, lead, first).state = x.state
         /\ ~lead /\ ~first => Written(x, u, c, lead, first) = x
<1>1. [uid |-> u, sum |-> c] \in Text BY DEF Text
<1> QED BY <1>1 DEF Written, Decision

(* The decision u comes to, settled: it fits, and serves its authority     *)
(* unless it was frozen before.                                            *)
LEMMA SettledWhereItComes ==
  ASSUME NEW r \in Table, NEW u \in Uids, NEW d \in Ids, NEW c \in Sums \cup {0},
         NEW x \in Decision, NEW lead \in BOOLEAN, NEW first \in BOOLEAN,
         NEW s, s = Attached(r, u, d, c), first <=> Leads(s, u, d),
         NEW y, y = Settled(s, d, Written(x, u, c, lead, first)),
         x.state # "none"
  PROVE  /\ y \in Decision /\ y.state # "none"
         /\ Fits(s, y, d) /\ ByAuthority(s, y, d)
         /\ lead /\ first => Serves(s, y, d)
         /\ /\ lead => first
            /\ first => lead
            /\ Serves(r, x, d) /\ ByAuthority(r, x, d)
            => Serves(s, y, d)
<1>1. s \in Table /\ Moves(r, s, u, d) /\ s[u].sum = c
  BY AttachedMoves
<1>2. /\ Written(x, u, c, lead, first) \in Decision
      /\ Written(x, u, c, lead, first).state = x.state
      /\ ~lead /\ ~first => Written(x, u, c, lead, first) = x
  BY WrittenIs
<1>3. SourcesIn(s, d) # {} BY <1>1 DEF Moves, SourcesIn
<1>4. y \in Decision /\ y.state # "none" /\ Fits(s, y, d) /\ ByAuthority(s, y, d)
  BY <1>2, <1>3, SettledFits
<1>5. ASSUME lead, first PROVE Serves(s, y, d)
  BY <1>5, <1>1, LeaderServes
<1>6. ASSUME ~lead, ~first, Serves(r, x, d), ByAuthority(r, x, d) PROVE Serves(s, y, d)
  <2>1. y = Settled(s, d, x) BY <1>2, <1>6
  <2>2. \A v \in Uids : Leads(s, v, d) => Leads(r, v, d) /\ s[v] = r[v]
    BY <1>1, <1>6, FollowerComes
  <2> QED BY <2>1, <2>2, <1>6, SettledServes
<1> QED BY <1>4, <1>5, <1>6

(* A decision that stays as it was, and one that u left, are in order.     *)
LEMMA Elsewhere ==
  ASSUME IInv, NEW s, NEW u \in Uids, NEW d, NEW e \in Ids, NEW R, NEW F,
         Moves(rows, s, u, d), e # d,
         Leads(rows, u, e) => e \in R /\ e \in F,
         e \in raced => e \in R, e \in frozen => e \in F
  PROVE  /\ e \notin R => Fits(s, decisions[e], e)
         /\ e \notin F => Serves(s, decisions[e], e) /\ ByAuthority(s, decisions[e], e)
<1>1. e \notin raced => Fits(rows, decisions[e], e)
  BY DEF IInv, Reconciled, Fits
<1>2. e \notin frozen => Serves(rows, decisions[e], e) /\ ByAuthority(rows, decisions[e], e)
  BY DEF IInv, AuthorityServes, Serves, WithdrawnByAuthority
<1>3. CASE Leads(rows, u, e) BY <1>3
<1>4. CASE ~Leads(rows, u, e) BY <1>1, <1>2, <1>4, OthersMove
<1> QED BY <1>3, <1>4

(* The three parts of the invariant that speak of decisions.               *)
LEMMA InOrder ==
  ASSUME \A e \in Ids :
           /\ e \notin raced' => Fits(rows', decisions'[e], e)
           /\ e \notin frozen' => Serves(rows', decisions'[e], e)
                                  /\ ByAuthority(rows', decisions'[e], e)
  PROVE  WithdrawnByAuthority' /\ Reconciled' /\ AuthorityServes'
<1>1. Reconciled' BY DEF Reconciled, Fits
<1>2. AuthorityServes' BY DEF AuthorityServes, Serves
<1>3. WithdrawnByAuthority' BY DEF WithdrawnByAuthority
<1> QED BY <1>1, <1>2, <1>3

(* The foreign key, when rows move to d.                                   *)
ForeignKey(r, ds) == \A u \in Uids : r[u].dec # 0 => ds[r[u].dec].state # "none"

LEMMA Typed ==
  TypeOK <=> /\ rows \in Table /\ decisions \in [Ids -> Decision] /\ ForeignKey(rows, decisions)
             /\ lastId \in 0 .. MaxId /\ job \in [Writers -> Job] /\ out \subseteq Uids
             /\ prune \in [uid : Uids \cup {0}, id : 0 .. MaxId]
             /\ merge \in [keeper : 0 .. MaxId, losers : SUBSET Ids]
             /\ losers \subseteq [dec : Ids, uid : Uids]
             /\ raced \subseteq Ids /\ frozen \subseteq Ids
             /\ feeds \in 0 .. MaxFeeds /\ says \in 0 .. MaxSays /\ commands \in 0 .. MaxCommands
  BY DEF TypeOK, Table, Decision, ForeignKey

LEMMA CommitIInv ==
  ASSUME IInv, NEW w \in Writers, Commit(w)
  PROVE  IInv'
<1>1. PICK u \in Uids, d \in Ids, c \in Sums \cup {0}, lead \in BOOLEAN :
        u = job[w].uid /\ d = job[w].id /\ c = job[w].sum /\ lead = job[w].lead
  BY DEF IInv, TypeOK, WellFormed, Job, Commit
<1>2. PICK s : s = Attached(rows, u, d, c)
  OBVIOUS
<1>3. PICK first \in BOOLEAN : first <=> Leads(s, u, d)
  OBVIOUS
<1>4. PICK y : y = Settled(s, d, Written(decisions[d], u, c, lead, first))
  OBVIOUS
<1>5. /\ job[w].pc = "commit" /\ w \in Holders
      /\ rows' = s
      /\ decisions' = [decisions EXCEPT ![d] = y]
      /\ raced' = (raced \ {d}) \cup ({rows[u].dec} \ {0, d})
      /\ frozen' = (IF lead /\ first THEN frozen \ {d} ELSE frozen) \cup ({rows[u].dec} \ {0, d})
      /\ job' = [job EXCEPT ![w] = NoJob]
      /\ UNCHANGED <<lastId, out, prune, merge, losers, feeds, says, commands>>
  <2>1. first = Leads(s, u, d) BY <1>3 DEF Leads
  <2> QED BY <1>1, <1>2, <1>3, <1>4, <2>1 DEF Commit, Left, Holders, tools, counts
<1>6. /\ rows \in Table /\ decisions \in [Ids -> Decision] /\ ForeignKey(rows, decisions)
      /\ rows[u].dec \in 0 .. MaxId
      /\ job \in [Writers -> Job] /\ decisions[d] \in Decision
  BY Typed DEF IInv, Table, Row
<1>7. s \in Table /\ Moves(rows, s, u, d) /\ s[u].sum = c /\ s[u].active
  BY <1>2, <1>6, AttachedMoves
<1>8. Refers(d) /\ Stands(rows, u, d, c, lead, frozen)
  BY <1>1, <1>5 DEF IInv, LocksHold, LeadStands
<1>9. /\ y \in Decision /\ y.state # "none" /\ Fits(s, y, d) /\ ByAuthority(s, y, d)
      /\ lead /\ first => Serves(s, y, d)
      /\ (lead => first) /\ (first => lead)
         /\ Serves(rows, decisions[d], d) /\ ByAuthority(rows, decisions[d], d) => Serves(s, y, d)
  BY <1>2, <1>3, <1>4, <1>6, <1>8, SettledWhereItComes DEF Refers
<1>10. \A e \in Ids : decisions'[e] = IF e = d THEN y ELSE decisions[e]
  BY <1>5, <1>6
<1>11. TypeOK'
  <2>1. decisions' \in [Ids -> Decision] BY <1>5, <1>6, <1>9
  <2>2. ForeignKey(rows', decisions')
    BY <1>5, <1>6, <1>7, <1>9, <1>10 DEF ForeignKey, Moves, Table, Row, Ids
  <2>3. job' \in [Writers -> Job]
    <3>1. NoJob \in Job BY SourcesAssumption DEF NoJob, Job
    <3> QED BY <3>1, <1>5, <1>6
  <2>4. raced' \subseteq Ids /\ frozen' \subseteq Ids
    BY <1>5, <1>6, Typed, SourcesAssumption DEF IInv, Ids
  <2>5. /\ lastId' \in 0 .. MaxId /\ out' \subseteq Uids
        /\ prune' \in [uid : Uids \cup {0}, id : 0 .. MaxId]
        /\ merge' \in [keeper : 0 .. MaxId, losers : SUBSET Ids]
        /\ losers' \subseteq [dec : Ids, uid : Uids]
        /\ feeds' \in 0 .. MaxFeeds /\ says' \in 0 .. MaxSays /\ commands' \in 0 .. MaxCommands
    BY <1>5, Typed, Zenon DEF IInv
  <2>6. rows' \in [Uids -> Row] BY <1>5, <1>7 DEF Table
  <2> QED BY ONLY <2>1, <2>2, <2>3, <2>4, <2>5, <2>6, Zenon DEF TypeOK, Decision, ForeignKey
<1>12. \A x \in Writers : job'[x] = IF x = w THEN NoJob ELSE job[x]
  BY <1>5, <1>6
<1>13. WellFormed'
  <2>1. \A v \in Uids : rows'[v].active => rows'[v].dec # 0
    BY <1>5, <1>7, SourcesAssumption DEF IInv, WellFormed, Moves, Ids
  <2>2. \A e \in Ids : e > lastId' => decisions'[e].state = "none"
    BY <1>5, <1>8, <1>10 DEF IInv, WellFormed, Refers
  <2> QED BY <2>1, <2>2, <1>5, <1>12 DEF IInv, WellFormed, NoJob
<1>14. \A x \in Holders' : x \in Holders /\ job'[x] = job[x] /\ job[x].id # d /\ job[x].uid # u
  <2>1. \A x \in Holders' : x \in Holders /\ x # w /\ job'[x] = job[x]
    BY <1>12 DEF Holders, NoJob
  <2> QED BY <2>1, <1>1, <1>5 DEF IInv, LocksHold
<1>15. LocksHold'
  <2>1. \A x \in Holders : job[x].id \in Ids
    BY DEF IInv, WellFormed, Holders
  <2> QED BY <2>1, <1>10, <1>14 DEF IInv, LocksHold, Refers
<1>16. LeadStands'
  <2> SUFFICES ASSUME NEW x \in Holders'
               PROVE  Stands(s, job[x].uid, job[x].id, job[x].sum, job[x].lead, frozen')
    BY <1>5, <1>14 DEF LeadStands
  <2>1. PICK v \in Uids, e \in Ids, k \in Sums \cup {0}, l \in BOOLEAN :
          v = job[x].uid /\ e = job[x].id /\ k = job[x].sum /\ l = job[x].lead
    BY <1>6, <1>14 DEF IInv, WellFormed, Holders, Job
  <2>2. Stands(rows, v, e, k, l, frozen) /\ u # v /\ d # e
    BY <2>1, <1>14 DEF IInv, LeadStands
  <2>3. (e \in frozen => e \in frozen') /\ (Leads(rows, u, e) => e \in frozen')
    BY <2>2, <1>5, SourcesAssumption DEF Leads, SourcesIn, Ids
  <2>4. Stands(s, v, e, k, l, frozen')
    BY <2>2, <2>3, <1>6, <1>7, StandsMove
  <2> QED BY <2>1, <2>4
<1>17. ASSUME NEW e \in Ids
       PROVE  /\ e \notin raced' => Fits(rows', decisions'[e], e)
              /\ e \notin frozen' => Serves(rows', decisions'[e], e)
                                     /\ ByAuthority(rows', decisions'[e], e)
  <2>1. CASE e = d
    <3>1. d \notin frozen => Serves(rows, decisions[d], d) /\ ByAuthority(rows, decisions[d], d)
      BY DEF IInv, AuthorityServes, Serves, WithdrawnByAuthority
    <3>2. d \notin frozen => (lead => first) /\ (first => lead)
      BY <1>2, <1>3, <1>8 DEF Stands
    <3>3. d \notin frozen' => d \notin frozen \/ (lead /\ first)
      BY <1>5
    <3> QED BY <2>1, <3>1, <3>2, <3>3, <1>5, <1>9, <1>10
  <2>2. CASE e # d
    <3>1. Leads(rows, u, e) => e \in raced' /\ e \in frozen'
      BY <2>2, <1>5, SourcesAssumption DEF Leads, SourcesIn, Ids
    <3>2. (e \in raced => e \in raced') /\ (e \in frozen => e \in frozen')
      BY <2>2, <1>5
    <3> QED BY <2>2, <3>1, <3>2, <1>5, <1>7, <1>10, Elsewhere
  <2> QED BY <2>1, <2>2
<1>18. WithdrawnByAuthority' /\ Reconciled' /\ AuthorityServes'
  BY <1>17, InOrder
<1> QED BY <1>11, <1>13, <1>15, <1>16, <1>18 DEF IInv

(* A decision to come has no source.                                       *)
LEMMA Unborn ==
  ASSUME IInv, NEW d \in Ids, decisions[d].state = "none"
  PROVE  \A u \in Uids : rows[u].dec # d
<1>1. d # 0 /\ ForeignKey(rows, decisions)
  BY SourcesAssumption, Typed DEF IInv, Ids
<1> QED BY <1>1 DEF ForeignKey

LEMMA CreateIInv ==
  ASSUME IInv, NEW w \in Writers, Create(w)
  PROVE  IInv'
<1>1. PICK u \in Uids, c \in Sums \cup {0} : u = job[w].uid /\ c = job[w].sum
  BY DEF IInv, TypeOK, WellFormed, Job, Create
<1>2. PICK d \in Ids : d = lastId + 1
  BY SourcesAssumption DEF IInv, TypeOK, Create, Ids
<1>3. PICK s : s = Attached(rows, u, d, c)
  OBVIOUS
<1>4. PICK y : y = [state |-> "live", meta |-> [uid |-> u, sum |-> c], text |-> [uid |-> u, sum |-> c]]
  OBVIOUS
<1>5. /\ RowFree(u)
      /\ lastId' = d /\ rows' = s
      /\ decisions' = [decisions EXCEPT ![d] = y]
      /\ raced' = raced \cup ({rows[u].dec} \ {0, d})
      /\ frozen' = frozen \cup ({rows[u].dec} \ {0, d})
      /\ job' = [job EXCEPT ![w] = NoJob]
      /\ UNCHANGED <<out, prune, merge, losers, feeds, says, commands>>
  BY <1>1, <1>2, <1>3, <1>4 DEF Create, Left, tools, counts
<1>6. /\ rows \in Table /\ decisions \in [Ids -> Decision] /\ ForeignKey(rows, decisions)
      /\ rows[u].dec \in 0 .. MaxId /\ job \in [Writers -> Job] /\ lastId \in 0 .. MaxId
  BY Typed DEF IInv, Table, Row
<1>7. s \in Table /\ Moves(rows, s, u, d) /\ s[u].sum = c /\ s[u].active
  BY <1>3, <1>6, AttachedMoves
<1>8. y \in Decision
  BY <1>4 DEF Decision, Text
<1>9. decisions[d].state = "none" /\ \A v \in Uids : rows[v].dec # d
  <2>1. d > lastId BY <1>2, <1>6, SourcesAssumption
  <2> QED BY <2>1, Unborn DEF IInv, WellFormed
<1>10. \A e \in Ids : decisions'[e] = IF e = d THEN y ELSE decisions[e]
  BY <1>5, <1>6
<1>11. TypeOK'
  <2>1. decisions' \in [Ids -> Decision] BY <1>5, <1>6, <1>8
  <2>2. ForeignKey(rows', decisions')
    BY <1>4, <1>5, <1>6, <1>7, <1>10 DEF ForeignKey, Moves, Table, Row, Ids
  <2>3. job' \in [Writers -> Job]
    <3>1. NoJob \in Job BY SourcesAssumption DEF NoJob, Job
    <3> QED BY <3>1, <1>5, <1>6
  <2>4. raced' \subseteq Ids /\ frozen' \subseteq Ids
    BY <1>5, <1>6, Typed, SourcesAssumption DEF IInv, Ids
  <2>5. lastId' \in 0 .. MaxId BY <1>5, SourcesAssumption DEF Ids
  <2> QED BY <1>5, <1>7, <2>1, <2>2, <2>3, <2>4, <2>5, Typed
             DEF IInv, TypeOK, Table, Decision, ForeignKey
<1>12. \A x \in Writers : job'[x] = IF x = w THEN NoJob ELSE job[x]
  BY <1>5, <1>6
<1>13. WellFormed'
  <2>1. \A v \in Uids : rows'[v].active => rows'[v].dec # 0
    <3>1. d # 0 BY SourcesAssumption DEF Ids
    <3>2. \A v \in Uids : rows[v].active => rows[v].dec # 0 BY DEF IInv, WellFormed
    <3> QED BY <3>1, <3>2, <1>5, <1>7 DEF Moves
  <2>2. \A e \in Ids : e > lastId' => decisions'[e].state = "none"
    BY <1>2, <1>5, <1>6, <1>10, SourcesAssumption DEF IInv, WellFormed, Ids
  <2> QED BY <2>1, <2>2, <1>5, <1>12 DEF IInv, WellFormed, NoJob
<1>14. \A x \in Holders' : x \in Holders /\ job'[x] = job[x] /\ job[x].id # d /\ job[x].uid # u
  <2>1. \A x \in Holders' : x \in Holders /\ job'[x] = job[x]
    BY <1>12 DEF Holders, NoJob
  <2> QED BY <2>1, <1>5, <1>9 DEF IInv, LocksHold, Refers, RowFree
<1>15. LocksHold'
  <2>1. \A x \in Holders : job[x].id \in Ids
    BY DEF IInv, WellFormed, Holders
  <2> QED BY <2>1, <1>10, <1>14 DEF IInv, LocksHold, Refers
<1>16. LeadStands'
  <2> SUFFICES ASSUME NEW x \in Holders'
               PROVE  Stands(s, job[x].uid, job[x].id, job[x].sum, job[x].lead, frozen')
    BY <1>5, <1>14 DEF LeadStands
  <2>1. PICK v \in Uids, e \in Ids, k \in Sums \cup {0}, l \in BOOLEAN :
          v = job[x].uid /\ e = job[x].id /\ k = job[x].sum /\ l = job[x].lead
    BY <1>6, <1>14 DEF IInv, WellFormed, Holders, Job
  <2>2. Stands(rows, v, e, k, l, frozen) /\ u # v /\ d # e
    BY <2>1, <1>14 DEF IInv, LeadStands
  <2>3. (e \in frozen => e \in frozen') /\ (Leads(rows, u, e) => e \in frozen')
    BY <2>2, <1>5, SourcesAssumption DEF Leads, SourcesIn, Ids
  <2>4. Stands(s, v, e, k, l, frozen')
    BY <2>2, <2>3, <1>6, <1>7, StandsMove
  <2> QED BY <2>1, <2>4
<1>17. Fits(s, y, d) /\ Serves(s, y, d) /\ ByAuthority(s, y, d)
  <2>1. \A v \in Uids : v \in SourcesIn(s, d) <=> v = u
    BY <1>7, <1>9 DEF Moves, SourcesIn
  <2>2. ~Withdrawn(s, d) /\ SourcesIn(s, d) # {} /\ \A v \in Uids : Leads(s, v, d) => v = u
    BY <2>1, <1>7 DEF Withdrawn, Leads
  <2> QED BY <2>2, <1>4, <1>7 DEF Fits, Serves, ByAuthority
<1>18. ASSUME NEW e \in Ids
       PROVE  /\ e \notin raced' => Fits(rows', decisions'[e], e)
              /\ e \notin frozen' => Serves(rows', decisions'[e], e)
                                     /\ ByAuthority(rows', decisions'[e], e)
  <2>1. CASE e = d
    BY <2>1, <1>5, <1>10, <1>17
  <2>2. CASE e # d
    <3>1. Leads(rows, u, e) => e \in raced' /\ e \in frozen'
      BY <2>2, <1>5, SourcesAssumption DEF Leads, SourcesIn, Ids
    <3>2. (e \in raced => e \in raced') /\ (e \in frozen => e \in frozen')
      BY <2>2, <1>5
    <3> QED BY <2>2, <3>1, <3>2, <1>5, <1>7, <1>10, Elsewhere
  <2> QED BY <2>1, <2>2
<1>19. WithdrawnByAuthority' /\ Reconciled' /\ AuthorityServes'
  BY <1>18, InOrder
<1> QED BY <1>11, <1>13, <1>15, <1>16, <1>19 DEF IInv

LEMMA SplitIInv ==
  ASSUME IInv, NEW p \in losers, NEW c \in SumsOf[p.uid], Split(p, c)
  PROVE  IInv'
<1>1. PICK u \in Uids : u = p.uid
  BY DEF IInv, TypeOK
<1>2. PICK n \in Ids : n = lastId + 1
  BY SourcesAssumption DEF IInv, TypeOK, Split, Ids
<1>3. c \in Sums \cup {0}
  BY <1>1, SourcesAssumption DEF Sums
<1>4. PICK skeleton : skeleton = [state |-> "live", meta |-> NoText, text |-> NoText]
  OBVIOUS
<1>5. PICK ds : ds = [decisions EXCEPT ![n] = skeleton]
  OBVIOUS
<1>6. PICK d \in SplitTarget(p, n) :
        /\ LockFree(d)
        /\ rows' = Attached(rows, u, d, c)
        /\ decisions' = [ds EXCEPT ![d] = Settled(rows', d, Written(ds[d], u, c, Leads(rows', u, d), Leads(rows', u, d)))]
        /\ raced' = (raced \ {d}) \cup ({n} \ {d}) \cup (IF Leads(rows, u, p.dec) THEN {p.dec} ELSE {})
        /\ frozen' = (IF Leads(rows', u, d) THEN frozen \ {d} ELSE frozen)
                     \cup (IF Leads(rows, u, p.dec) THEN {p.dec} ELSE {})
  <2>1. n = lastId + 1 /\ u = p.uid /\ skeleton = [state |-> "live", meta |-> NoText, text |-> NoText]
        /\ ds = [decisions EXCEPT ![n] = skeleton]
    BY <1>1, <1>2, <1>4, <1>5
  <2>2. \E x \in SplitTarget(p, n) :
          LET r == Attached(rows, u, x, c)
              lead == Leads(r, u, x)
          IN
          /\ LockFree(x)
          /\ rows' = r
          /\ decisions' = [ds EXCEPT ![x] = Settled(r, x, Written(ds[x], u, c, lead, lead))]
          /\ raced' = (raced \ {x}) \cup ({n} \ {x}) \cup (IF Leads(rows, u, p.dec) THEN {p.dec} ELSE {})
          /\ frozen' = (IF lead THEN frozen \ {x} ELSE frozen)
                       \cup (IF Leads(rows, u, p.dec) THEN {p.dec} ELSE {})
    BY ONLY <2>1, Split(p, c) DEF Split
  <2>3. PICK x \in SplitTarget(p, n) : 
          LET r == Attached(rows, u, x, c)
              lead == Leads(r, u, x)
          IN
          /\ LockFree(x)
          /\ rows' = r
          /\ decisions' = [ds EXCEPT ![x] = Settled(r, x, Written(ds[x], u, c, lead, lead))]
          /\ raced' = (raced \ {x}) \cup ({n} \ {x}) \cup (IF Leads(rows, u, p.dec) THEN {p.dec} ELSE {})
          /\ frozen' = (IF lead THEN frozen \ {x} ELSE frozen)
                       \cup (IF Leads(rows, u, p.dec) THEN {p.dec} ELSE {})
    BY ONLY <2>2
  <2> QED BY ONLY <2>3
<1>7. /\ RowFree(u) /\ lastId' = n /\ losers' = losers \ {p}
      /\ UNCHANGED <<job, out, prune, merge, feeds, says, commands>>
  BY <1>1, <1>2 DEF Split, counts
<1>8. /\ rows \in Table /\ decisions \in [Ids -> Decision] /\ ForeignKey(rows, decisions)
      /\ rows[u].dec \in 0 .. MaxId /\ job \in [Writers -> Job] /\ lastId \in 0 .. MaxId
      /\ p.dec \in Ids
  BY Typed DEF IInv, Table, Row
<1>9. /\ d \in Ids
      /\ d # n => decisions[d].state # "none"
      /\ rows[u].dec \in Ids => rows[u].dec = p.dec \/ rows[u].dec = d
  BY <1>1, <1>6, <1>8, SourcesAssumption DEF SplitTarget, CanTake, ForeignKey, Ids
<1>10. PICK s : s = Attached(rows, u, d, c) /\ rows' = s
  BY <1>6
<1>11. PICK first \in BOOLEAN : first = Leads(s, u, d)
  BY DEF Leads
<1>12. PICK y : y = Settled(s, d, Written(ds[d], u, c, first, first)) /\ decisions' = [ds EXCEPT ![d] = y]
  BY <1>6, <1>10, <1>11
<1>13. s \in Table /\ Moves(rows, s, u, d) /\ s[u].sum = c /\ s[u].active
  BY <1>3, <1>8, <1>9, <1>10, AttachedMoves
<1>14. skeleton \in Decision /\ ds \in [Ids -> Decision] /\ ds[d] \in Decision
  <2>1. skeleton \in Decision BY <1>4 DEF Decision, Text, NoText
  <2> QED BY <2>1, <1>5, <1>8, <1>9
<1>15. decisions[n].state = "none" /\ \A v \in Uids : rows[v].dec # n
  <2>1. n > lastId BY <1>2, <1>8, SourcesAssumption
  <2> QED BY <2>1, Unborn DEF IInv, WellFormed
<1>16. \A e \in Ids : ds[e] = IF e = n THEN skeleton ELSE decisions[e]
  BY <1>5, <1>8
<1>17. \A e \in Ids : decisions'[e] = IF e = d THEN y ELSE ds[e]
  BY <1>12, <1>14
<1>18. ds[d].state # "none"
  BY <1>4, <1>9, <1>16
<1>19. /\ y \in Decision /\ y.state # "none" /\ Fits(s, y, d) /\ ByAuthority(s, y, d)
       /\ first => Serves(s, y, d)
       /\ Serves(rows, ds[d], d) /\ ByAuthority(rows, ds[d], d) => Serves(s, y, d)
  BY <1>3, <1>8, <1>9, <1>10, <1>11, <1>12, <1>14, <1>18, SettledWhereItComes
<1>20. TypeOK'
  <2>1. decisions' \in [Ids -> Decision] BY <1>12, <1>14, <1>19
  <2>2. ForeignKey(rows', decisions')
    <3> SUFFICES ASSUME NEW v \in Uids, rows'[v].dec # 0
                 PROVE  decisions'[rows'[v].dec].state # "none"
      BY DEF ForeignKey
    <3>1. CASE v = u BY <3>1, <1>9, <1>10, <1>13, <1>17, <1>19 DEF Moves
    <3>2. CASE v # u
      <4>1. rows'[v] = rows[v] /\ rows[v].dec # 0
        BY <3>2, <1>10, <1>13 DEF Moves
      <4>2. rows[v].dec \in Ids
        BY <4>1, <1>8, SourcesAssumption DEF Table, Row, Ids
      <4>3. decisions[rows[v].dec].state # "none" /\ rows[v].dec # n
        BY <4>1, <1>8, <1>15 DEF ForeignKey
      <4> QED BY <4>1, <4>2, <4>3, <1>16, <1>17, <1>19
    <3> QED BY <3>1, <3>2
  <2>3. raced' \subseteq Ids /\ frozen' \subseteq Ids
    BY <1>6, <1>8, Typed DEF IInv
  <2>4. lastId' \in 0 .. MaxId BY <1>7, SourcesAssumption DEF Ids
  <2> QED BY <1>7, <1>10, <1>13, <2>1, <2>2, <2>3, <2>4, Typed
             DEF IInv, TypeOK, Table, Decision, ForeignKey
<1>21. WellFormed'
  <2>1. \A v \in Uids : rows'[v].active => rows'[v].dec # 0
    BY <1>9, <1>10, <1>13, SourcesAssumption DEF IInv, WellFormed, Moves, Ids
  <2>2. \A e \in Ids : e > lastId' => decisions'[e].state = "none"
    BY <1>2, <1>7, <1>8, <1>9, <1>16, <1>17, SourcesAssumption DEF IInv, WellFormed, Ids
  <2> QED BY <2>1, <2>2, <1>7 DEF IInv, WellFormed
<1>22. /\ Holders' = Holders
       /\ \A x \in Holders : job[x].id # d /\ job[x].uid # u /\ job[x].id # n
  BY <1>6, <1>7, <1>15 DEF Holders, LockFree, RowFree, IInv, LocksHold, Refers
<1>23. LocksHold'
  <2>1. \A x \in Holders : job[x].id \in Ids
    BY DEF IInv, WellFormed, Holders
  <2> QED BY <2>1, <1>7, <1>16, <1>17, <1>22 DEF IInv, LocksHold, Refers
<1>24. \A e \in Ids : e # d /\ Leads(rows, u, e) => e \in raced' /\ e \in frozen'
  BY <1>6, <1>9 DEF Leads, SourcesIn
<1>25. \A e \in Ids : e # d => (e \in raced => e \in raced') /\ (e \in frozen => e \in frozen')
  BY <1>6
<1>26. LeadStands'
  <2> SUFFICES ASSUME NEW x \in Holders
               PROVE  Stands(s, job[x].uid, job[x].id, job[x].sum, job[x].lead, frozen')
    BY <1>7, <1>10, <1>22 DEF LeadStands
  <2>1. PICK v \in Uids, e \in Ids, k \in Sums \cup {0}, l \in BOOLEAN :
          v = job[x].uid /\ e = job[x].id /\ k = job[x].sum /\ l = job[x].lead
    BY <1>8, <1>22 DEF IInv, WellFormed, Holders, Job
  <2>2. Stands(rows, v, e, k, l, frozen) /\ u # v /\ d # e
    BY <2>1, <1>22 DEF IInv, LeadStands
  <2>3. /\ Moves(rows, s, u, d) /\ (e \in frozen => e \in frozen')
        /\ (Leads(rows, u, e) => e \in frozen')
    BY <1>13, <1>24, <1>25, <2>1, <2>2
  <2>4. Stands(s, v, e, k, l, frozen')
    BY ONLY <2>1, <2>2, <2>3, <1>8, <1>13, StandsMove
  <2> QED BY <2>1, <2>4
<1>27. /\ SourcesIn(rows, n) = {}
       /\ Serves(rows, skeleton, n) /\ ByAuthority(rows, skeleton, n)
       /\ n # d => Serves(s, skeleton, n) /\ ByAuthority(s, skeleton, n)
  BY <1>4, <1>13, <1>15 DEF SourcesIn, Serves, ByAuthority, Leads, Moves
<1>28. ASSUME NEW e \in Ids
       PROVE  /\ e \notin raced' => Fits(rows', decisions'[e], e)
              /\ e \notin frozen' => Serves(rows', decisions'[e], e)
                                     /\ ByAuthority(rows', decisions'[e], e)
  <2>1. CASE e = d
    <3>1. d \notin frozen => Serves(rows, decisions[d], d) /\ ByAuthority(rows, decisions[d], d)
      BY <1>9 DEF IInv, AuthorityServes, Serves, WithdrawnByAuthority
    <3>2. d \notin frozen' => d \notin frozen \/ first
      BY <1>6, <1>10, <1>11
    <3>3. CASE d = n
      BY <2>1, <3>3, <1>10, <1>16, <1>17, <1>19, <1>27
    <3>4. CASE d # n
      BY <2>1, <3>1, <3>2, <3>4, <1>9, <1>10, <1>16, <1>17, <1>19
    <3> QED BY <3>3, <3>4
  <2>2. CASE e # d /\ e = n
    BY <2>2, <1>6, <1>10, <1>16, <1>17, <1>27
  <2>3. CASE e # d /\ e # n
    <3>1. decisions'[e] = decisions[e] BY <2>3, <1>16, <1>17
    <3> QED BY <2>3, <3>1, <1>10, <1>13, <1>24, <1>25, Elsewhere
  <2> QED BY <2>1, <2>2, <2>3
<1>29. WithdrawnByAuthority' /\ Reconciled' /\ AuthorityServes'
  BY <1>28, InOrder
<1> QED BY <1>20, <1>21, <1>23, <1>26, <1>29 DEF IInv
-----------------------------------------------------------------------------
(* The steps that tombstone a row, move all those of a decision, or drop   *)
(* them with it.                                                           *)

(* The locks stand when no locked decision loses or gains a row, and none  *)
(* goes.                                                                   *)
LEMMA LocksKept ==
  ASSUME IInv, UNCHANGED job, rows' \in Table,
         \A w \in Holders : decisions'[job[w].id].state # "none",
         \A w \in Holders : job[w].id \in frozen => job[w].id \in frozen',
         \A w \in Holders : \A v \in Uids :
           v # job[w].uid => (rows[v].dec = job[w].id <=> rows'[v].dec = job[w].id)
  PROVE  LocksHold' /\ LeadStands'
<1>1. Holders' = Holders BY DEF Holders
<1>2. LocksHold' BY <1>1 DEF IInv, LocksHold, Refers
<1>3. ASSUME NEW x \in Holders
      PROVE  Stands(rows', job[x].uid, job[x].id, job[x].sum, job[x].lead, frozen')
  <2>1. PICK v \in Uids, e \in Ids, l \in BOOLEAN :
          v = job[x].uid /\ e = job[x].id /\ l = job[x].lead
    BY DEF IInv, TypeOK, WellFormed, Holders, Job
  <2>2. PICK k : k = job[x].sum OBVIOUS
  <2>3. Stands(rows, v, e, k, l, frozen)
    BY <2>1, <2>2 DEF IInv, LeadStands
  <2>4. rows \in Table BY Typed DEF IInv
  <2>5. (e \in frozen => e \in frozen') /\ \A w \in Uids \ {v} : rows[w].dec = e <=> rows'[w].dec = e
    BY <2>1
  <2>6. Stands(rows', v, e, k, l, frozen')
    BY <2>3, <2>4, <2>5, StandsSame
  <2> QED BY <2>1, <2>2, <2>6
<1>4. LeadStands' BY <1>1, <1>3 DEF LeadStands
<1> QED BY <1>2, <1>4

LEMMA InOrderBefore ==
  ASSUME IInv, NEW e \in Ids
  PROVE  /\ e \notin raced => Fits(rows, decisions[e], e)
         /\ e \notin frozen => Serves(rows, decisions[e], e) /\ ByAuthority(rows, decisions[e], e)
  BY DEF IInv, Reconciled, Fits, AuthorityServes, Serves, WithdrawnByAuthority

LEMMA DeleteIInv ==
  ASSUME IInv, Delete
  PROVE  IInv'
<1>1. PICK u \in Uids, d \in Ids : u = prune.uid /\ d = prune.id
  <2>1. prune.id # 0 BY DEF Delete
  <2>2. prune.id \in Ids BY <2>1, SourcesAssumption DEF IInv, TypeOK, Ids
  <2> QED BY <2>1, <2>2 DEF IInv, WellFormed
<1>2. PICK s : s = Tombstoned(rows, u)
  OBVIOUS
<1>3. PICK y : y = Settled(s, d, decisions[d])
  OBVIOUS
<1>4. /\ LockFree(d) /\ rows' = s
      /\ decisions' = [decisions EXCEPT ![d] = y]
      /\ raced' = (raced \ {d}) \cup ({rows[u].dec} \ {0, d})
      /\ prune' = [uid |-> u, id |-> 0]
      /\ UNCHANGED <<lastId, job, out, merge, losers, frozen, feeds, says, commands>>
  BY <1>1, <1>2, <1>3 DEF Delete, Left, counts
<1>5. /\ rows \in Table /\ decisions \in [Ids -> Decision] /\ ForeignKey(rows, decisions)
      /\ rows[u] \in Row /\ decisions[d] \in Decision
  BY Typed DEF IInv, Table
<1>6. /\ s \in Table
      /\ s[u].dec = rows[u].dec /\ s[u].sum = rows[u].sum /\ ~s[u].active
      /\ \A v \in Uids \ {u} : s[v] = rows[v]
  <2>1. [dec |-> rows[u].dec, sum |-> rows[u].sum, active |-> FALSE] \in Row
    BY <1>5 DEF Row
  <2> QED BY <2>1, <1>2, <1>5 DEF Tombstoned, Table
<1>7. \A e : SourcesIn(s, e) = SourcesIn(rows, e) /\ \A v : Leads(s, v, e) <=> Leads(rows, v, e)
  <2>1. \A e : SourcesIn(s, e) = SourcesIn(rows, e) BY <1>6 DEF SourcesIn
  <2> QED BY <2>1 DEF Leads
<1>8. y \in Decision /\ Fits(s, y, d) /\ ByAuthority(s, y, d)
      /\ (y.state = "none" <=> decisions[d].state = "none" \/ SourcesIn(s, d) = {})
  BY <1>3, <1>5, SettledFits
<1>9. \A e \in Ids : decisions'[e] = IF e = d THEN y ELSE decisions[e]
  BY <1>4, <1>5
<1>10. TypeOK'
  <2>1. decisions' \in [Ids -> Decision] BY <1>4, <1>5, <1>8
  <2>2. ForeignKey(rows', decisions')
    <3> SUFFICES ASSUME NEW v \in Uids, s[v].dec # 0 PROVE decisions'[s[v].dec].state # "none"
      BY <1>4 DEF ForeignKey
    <3>1. s[v].dec = rows[v].dec BY <1>6
    <3>2. s[v].dec \in Ids /\ decisions[s[v].dec].state # "none"
      BY <3>1, <1>5, SourcesAssumption DEF ForeignKey, Table, Row, Ids
    <3>3. s[v].dec = d => SourcesIn(s, d) # {} BY DEF SourcesIn
    <3> QED BY <3>2, <3>3, <1>8, <1>9
  <2>3. raced' \subseteq Ids
    BY <1>4, <1>5, Typed, SourcesAssumption DEF IInv, Ids, Row
  <2>4. prune' \in [uid : Uids \cup {0}, id : 0 .. MaxId]
    BY <1>4, SourcesAssumption
  <2> QED BY <1>4, <1>6, <2>1, <2>2, <2>3, <2>4, Typed
             DEF IInv, TypeOK, Table, Decision, ForeignKey
<1>11. WellFormed'
  <2>1. \A v \in Uids : rows'[v].active => rows'[v].dec # 0
    BY <1>4, <1>6 DEF IInv, WellFormed
  <2>2. \A e \in Ids : e > lastId' => decisions'[e].state = "none"
    BY <1>4, <1>8, <1>9 DEF IInv, WellFormed
  <2> QED BY <2>1, <2>2, <1>4 DEF IInv, WellFormed
<1>12. LocksHold' /\ LeadStands'
  <2>1. \A w \in Holders : job[w].id # d /\ job[w].id \in Ids
    BY <1>4 DEF LockFree, IInv, WellFormed, Holders
  <2>2. \A w \in Holders : decisions'[job[w].id].state # "none"
    BY <2>1, <1>9 DEF IInv, LocksHold, Refers
  <2>3. \A v \in Uids : rows'[v].dec = rows[v].dec
    BY <1>4, <1>6
  <2> QED BY <2>2, <2>3, <1>4, <1>6, LocksKept
<1>13. ASSUME NEW e \in Ids
       PROVE  /\ e \notin raced' => Fits(rows', decisions'[e], e)
              /\ e \notin frozen' => Serves(rows', decisions'[e], e)
                                     /\ ByAuthority(rows', decisions'[e], e)
  <2>1. CASE e = d
    <3>1. \A v \in Uids : Leads(s, v, d) =>
            Leads(rows, v, d) /\ s[v].sum = rows[v].sum /\ (~rows[v].active => ~s[v].active)
      BY <1>6, <1>7
    <3>2. Serves(rows, decisions[d], d) /\ ByAuthority(rows, decisions[d], d) => Serves(s, y, d)
      BY <3>1, <1>3, <1>5, SettledServes
    <3>3. d \notin frozen => Serves(rows, decisions[d], d) /\ ByAuthority(rows, decisions[d], d)
      BY InOrderBefore
    <3> QED BY <2>1, <3>2, <3>3, <1>4, <1>8, <1>9
  <2>2. CASE e # d /\ rows[u].dec # e
    <3>1. Agree(rows, s, e) BY <2>2, <1>6 DEF Agree
    <3>2. /\ Fits(rows, decisions[e], e) => Fits(s, decisions[e], e)
          /\ Serves(rows, decisions[e], e) => Serves(s, decisions[e], e)
          /\ ByAuthority(rows, decisions[e], e) => ByAuthority(s, decisions[e], e)
      BY <3>1, AgreeingRows
    <3> QED BY <2>2, <3>2, <1>4, <1>9, InOrderBefore
  <2>3. CASE e # d /\ rows[u].dec = e
    <3>1. e \in raced' BY <2>3, <1>4, SourcesAssumption DEF Ids
    <3>2. Serves(rows, decisions[e], e) => Serves(s, decisions[e], e)
      BY <1>6, <1>7 DEF Serves
    <3>3. ByAuthority(rows, decisions[e], e) => ByAuthority(s, decisions[e], e)
      BY <1>6, <1>7 DEF ByAuthority, Withdrawn
    <3> QED BY <2>3, <3>1, <3>2, <3>3, <1>4, <1>9, InOrderBefore
  <2> QED BY <2>1, <2>2, <2>3
<1>14. WithdrawnByAuthority' /\ Reconciled' /\ AuthorityServes'
  BY <1>13, InOrder
<1> QED BY <1>10, <1>11, <1>12, <1>14 DEF IInv

LEMMA MergeIntoIInv ==
  ASSUME IInv, NEW l \in Ids, MergeInto(l)
  PROVE  IInv'
<1>1. PICK k \in Ids : k = merge.keeper
  BY DEF IInv, WellFormed, MergeInto
<1>2. PICK s : s = Moved(rows, l, k)
  OBVIOUS
<1>3. /\ LockFree(k) /\ LockFree(l) /\ (Refers(k) \/ SourcesIn(rows, l) = {})
      /\ rows' = s
      /\ decisions' = [e \in Ids |-> IF e \in {k, l} THEN Settled(s, e, decisions[e]) ELSE decisions[e]]
      /\ raced' = raced \ {k, l}
      /\ frozen' = IF \E u \in SourcesIn(rows, l) : Leads(s, u, k) THEN frozen \cup {k} ELSE frozen
      /\ merge' = Rest(l)
      /\ UNCHANGED <<lastId, job, out, prune, losers, feeds, says, commands>>
  BY <1>1, <1>2 DEF MergeInto, counts
<1>4. /\ rows \in Table /\ decisions \in [Ids -> Decision] /\ ForeignKey(rows, decisions)
  BY Typed DEF IInv
<1>5. /\ s \in Table
      /\ \A v \in Uids : /\ rows[v].dec = l => s[v].dec = k /\ s[v].sum = rows[v].sum
                                               /\ s[v].active = rows[v].active
                         /\ rows[v].dec # l => s[v] = rows[v]
  <2>1. \A v \in Uids : [dec |-> k, sum |-> rows[v].sum, active |-> rows[v].active] \in Row
    BY <1>4, SourcesAssumption DEF Table, Row, Ids
  <2> QED BY <2>1, <1>2, <1>4 DEF Moved, Table
<1>6. \A e \in {k, l} : /\ Settled(s, e, decisions[e]) \in Decision
                        /\ Fits(s, Settled(s, e, decisions[e]), e)
                        /\ ByAuthority(s, Settled(s, e, decisions[e]), e)
                        /\ Settled(s, e, decisions[e]).state = "none"
                             <=> decisions[e].state = "none" \/ SourcesIn(s, e) = {}
  BY <1>4, SettledFits
<1>7. \A e \in Ids : decisions'[e] = IF e \in {k, l} THEN Settled(s, e, decisions[e]) ELSE decisions[e]
  BY <1>3
<1>8. TypeOK'
  <2>1. decisions' \in [Ids -> Decision] BY <1>3, <1>4, <1>6
  <2>2. ForeignKey(rows', decisions')
    <3> SUFFICES ASSUME NEW v \in Uids, s[v].dec # 0 PROVE decisions'[s[v].dec].state # "none"
      BY <1>3 DEF ForeignKey
    <3>1. s[v].dec \in Ids
      BY <1>5, SourcesAssumption DEF Table, Row, Ids
    <3>2. decisions[s[v].dec].state # "none"
      <4>1. CASE rows[v].dec = l
        BY <4>1, <1>3, <1>5 DEF SourcesIn, Refers
      <4>2. CASE rows[v].dec # l
        BY <4>2, <1>4, <1>5 DEF ForeignKey
      <4> QED BY <4>1, <4>2
    <3>3. SourcesIn(s, s[v].dec) # {} BY DEF SourcesIn
    <3> QED BY <3>1, <3>2, <3>3, <1>6, <1>7
  <2>3. raced' \subseteq Ids /\ frozen' \subseteq Ids
    BY <1>3, Typed DEF IInv
  <2>4. merge' \in [keeper : 0 .. MaxId, losers : SUBSET Ids]
    BY <1>1, <1>3, Typed, SourcesAssumption DEF IInv, Rest, NoMerge, Ids
  <2> QED BY <1>3, <1>5, <2>1, <2>2, <2>3, <2>4, Typed
             DEF IInv, TypeOK, Table, Decision, ForeignKey
<1>9. WellFormed'
  <2>1. \A v \in Uids : rows'[v].active => rows'[v].dec # 0
    <3>1. k # 0 BY SourcesAssumption DEF Ids
    <3> QED BY <3>1, <1>3, <1>5 DEF IInv, WellFormed
  <2>2. \A e \in Ids : e > lastId' => decisions'[e].state = "none"
    BY <1>3, <1>6, <1>7 DEF IInv, WellFormed
  <2>3. merge'.losers # {} => merge'.keeper \in Ids
    BY <1>1, <1>3 DEF Rest, NoMerge
  <2> QED BY <2>1, <2>2, <2>3, <1>3 DEF IInv, WellFormed
<1>10. LocksHold' /\ LeadStands'
  <2>1. \A w \in Holders : job[w].id # k /\ job[w].id # l /\ job[w].id \in Ids
    BY <1>3 DEF LockFree, IInv, WellFormed, Holders
  <2>2. \A w \in Holders : decisions'[job[w].id].state # "none"
    BY <2>1, <1>7 DEF IInv, LocksHold, Refers
  <2>3. \A w \in Holders : \A v \in Uids : rows[v].dec = job[w].id <=> s[v].dec = job[w].id
    BY <2>1, <1>5
  <2>4. \A e : e \in frozen => e \in frozen'
    BY <1>3
  <2> QED BY <2>2, <2>3, <2>4, <1>3, <1>5, LocksKept
<1>11. ASSUME NEW e \in Ids
       PROVE  /\ e \notin raced' => Fits(rows', decisions'[e], e)
              /\ e \notin frozen' => Serves(rows', decisions'[e], e)
                                     /\ ByAuthority(rows', decisions'[e], e)
  <2>1. CASE e = k
    <3>1. ASSUME e \notin frozen' PROVE Serves(s, Settled(s, k, decisions[k]), k)
      <4>1. k \notin frozen /\ \A u \in SourcesIn(rows, l) : ~Leads(s, u, k)
        BY <2>1, <3>1, <1>3
      <4>2. ASSUME NEW v \in Uids, Leads(s, v, k)
            PROVE  Leads(rows, v, k) /\ s[v] = rows[v]
        <5>1. rows[v].dec # l /\ s[v] = rows[v]
          BY <4>1, <4>2, <1>5 DEF SourcesIn
        <5>2. v \in SourcesIn(rows, k)
          BY <4>2, <5>1 DEF Leads, SourcesIn
        <5>3. \A t \in SourcesIn(rows, k) : t \in SourcesIn(s, k)
          BY <1>5 DEF SourcesIn
        <5> QED BY <4>2, <5>1, <5>2, <5>3 DEF Leads
      <4>3. Serves(rows, decisions[k], k) /\ ByAuthority(rows, decisions[k], k)
        BY <4>1, InOrderBefore
      <4>4. \A v \in Uids : Leads(s, v, k) =>
              Leads(rows, v, k) /\ s[v].sum = rows[v].sum /\ (~rows[v].active => ~s[v].active)
        BY <4>2
      <4> QED BY <4>3, <4>4, <1>4, SettledServes
    <3> QED BY <2>1, <3>1, <1>3, <1>6, <1>7
  <2>2. CASE e = l /\ l # k
    <3>1. SourcesIn(s, l) = {} BY <2>2, <1>5 DEF SourcesIn
    <3>2. Settled(s, l, decisions[l]).state = "none" BY <3>1, <1>6
    <3> QED BY <2>2, <3>2, <1>3, <1>6, <1>7 DEF Serves
  <2>3. CASE e # k /\ e # l
    <3>1. Agree(rows, s, e) BY <2>3, <1>5 DEF Agree
    <3>2. /\ Fits(rows, decisions[e], e) => Fits(s, decisions[e], e)
          /\ Serves(rows, decisions[e], e) => Serves(s, decisions[e], e)
          /\ ByAuthority(rows, decisions[e], e) => ByAuthority(s, decisions[e], e)
      BY <3>1, AgreeingRows
    <3> QED BY <2>3, <3>2, <1>3, <1>7, InOrderBefore
  <2> QED BY <2>1, <2>2, <2>3
<1>12. WithdrawnByAuthority' /\ Reconciled' /\ AuthorityServes'
  BY <1>11, InOrder
<1> QED BY <1>8, <1>9, <1>10, <1>12 DEF IInv

LEMMA PurgeIInv ==
  ASSUME IInv, Purge
  PROVE  IInv'
<1>1. PICK O : O = Orphans
  OBVIOUS
<1>2. PICK s : s = [u \in Uids |-> IF rows[u].dec \in O THEN NoRow ELSE rows[u]]
  OBVIOUS
<1>3. /\ \A d \in O : Unpinned(d)
      /\ O \subseteq Ids /\ 0 \notin O
      /\ rows' = s
      /\ decisions' = [d \in Ids |-> IF d \in O THEN NoDec ELSE decisions[d]]
      /\ commands < MaxCommands /\ commands' = commands + 1
      /\ UNCHANGED <<lastId, job, out, prune, merge, losers, raced, frozen, feeds, says>>
  BY <1>1, <1>2, SourcesAssumption DEF Purge, Orphans, Ids, tools
<1>4. /\ rows \in Table /\ decisions \in [Ids -> Decision] /\ ForeignKey(rows, decisions)
  BY Typed DEF IInv
<1>5. /\ s \in Table
      /\ \A v \in Uids : s[v] = IF rows[v].dec \in O THEN NoRow ELSE rows[v]
  <2>1. NoRow \in Row BY SourcesAssumption DEF NoRow, Row
  <2> QED BY <2>1, <1>2, <1>4 DEF Table
<1>6. \A d \in Ids : decisions'[d] = IF d \in O THEN NoDec ELSE decisions[d]
  BY <1>3
<1>7. TypeOK'
  <2>1. decisions' \in [Ids -> Decision]
    <3>1. NoDec \in Decision BY DEF NoDec, Decision, NoText, Text
    <3> QED BY <3>1, <1>3, <1>4
  <2>2. ForeignKey(rows', decisions')
    <3> SUFFICES ASSUME NEW v \in Uids, s[v].dec # 0 PROVE decisions'[s[v].dec].state # "none"
      BY <1>3 DEF ForeignKey
    <3>1. s[v] = rows[v] /\ rows[v].dec \notin O
      BY <1>5 DEF NoRow
    <3>2. s[v].dec \in Ids BY <1>5, SourcesAssumption DEF Table, Row, Ids
    <3> QED BY <3>1, <3>2, <1>4, <1>6 DEF ForeignKey
  <2>3. commands' \in 0 .. MaxCommands
    BY <1>3, Typed, SourcesAssumption DEF IInv
  <2> QED BY <1>3, <1>5, <2>1, <2>2, <2>3, Typed
             DEF IInv, TypeOK, Table, Decision, ForeignKey
<1>8. WellFormed'
  <2>1. \A v \in Uids : rows'[v].active => rows'[v].dec # 0
    BY <1>3, <1>5 DEF IInv, WellFormed, NoRow
  <2>2. \A e \in Ids : e > lastId' => decisions'[e].state = "none"
    BY <1>3, <1>6 DEF IInv, WellFormed, NoDec
  <2> QED BY <2>1, <2>2, <1>3 DEF IInv, WellFormed
<1>9. LocksHold' /\ LeadStands'
  <2>1. \A w \in Holders : job[w].id \notin O /\ job[w].id \in Ids /\ job[w].id # 0
    BY <1>3, SourcesAssumption DEF Unpinned, IInv, WellFormed, Holders, Ids
  <2>2. \A w \in Holders : decisions'[job[w].id].state # "none"
    BY <2>1, <1>6 DEF IInv, LocksHold, Refers
  <2>3. \A w \in Holders : \A v \in Uids : rows[v].dec = job[w].id <=> s[v].dec = job[w].id
    <3> SUFFICES ASSUME NEW w \in Holders, NEW v \in Uids
                 PROVE  rows[v].dec = job[w].id <=> s[v].dec = job[w].id
      OBVIOUS
    <3>1. CASE rows[v].dec \in O
      <4>1. s[v].dec = 0 BY <3>1, <1>5 DEF NoRow
      <4> QED BY <3>1, <4>1, <2>1
    <3>2. CASE rows[v].dec \notin O
      BY <3>2, <1>5
    <3> QED BY <3>1, <3>2
  <2> QED BY <2>2, <2>3, <1>3, <1>5, LocksKept
<1>10. ASSUME NEW e \in Ids
       PROVE  /\ e \notin raced' => Fits(rows', decisions'[e], e)
              /\ e \notin frozen' => Serves(rows', decisions'[e], e)
                                     /\ ByAuthority(rows', decisions'[e], e)
  <2>1. CASE e \in O
    BY <2>1, <1>6 DEF NoDec, Fits, Serves, ByAuthority
  <2>2. CASE e \notin O
    <3>1. Agree(rows, s, e) BY <2>2, <1>5, SourcesAssumption DEF Agree, NoRow, Ids
    <3>2. /\ Fits(rows, decisions[e], e) => Fits(s, decisions[e], e)
          /\ Serves(rows, decisions[e], e) => Serves(s, decisions[e], e)
          /\ ByAuthority(rows, decisions[e], e) => ByAuthority(s, decisions[e], e)
      BY <3>1, AgreeingRows
    <3> QED BY <2>2, <3>2, <1>3, <1>6, InOrderBefore
  <2> QED BY <2>1, <2>2
<1>11. WithdrawnByAuthority' /\ Reconciled' /\ AuthorityServes'
  BY <1>10, InOrder
<1> QED BY <1>7, <1>8, <1>9, <1>11 DEF IInv
-----------------------------------------------------------------------------
LEMMA NextIInv == IInv /\ [Next]_vars => IInv'
<1> SUFFICES ASSUME IInv, [Next]_vars PROVE IInv'
  OBVIOUS
<1>1. CASE \E u \in Uids : Withdraw(u) \/ Republish(u)
  BY <1>1, WithdrawIInv, RepublishIInv
<1>2. CASE \E w \in Writers, u \in Uids : \E c \in SumsOf[u] : Triage(w, u, c)
  BY <1>2, TriageIInv
<1>3. CASE \E w \in Writers : Ingest(w) \/ Rollback(w)
  BY <1>3, LookupIInv, LockIInv, CommitIInv, CreateIInv, RollbackIInv DEF Ingest
<1>4. CASE Prune
  BY <1>4, FindIInv, DeleteIInv DEF Prune
<1>5. CASE ReadCluster BY <1>5, ReadClusterIInv
<1>6. CASE \E l \in Ids : MergeInto(l) \/ MergeFails(l)
  BY <1>6, MergeIntoIInv, MergeFailsIInv
<1>7. CASE ReadLosers BY <1>7, ReadLosersIInv
<1>8. CASE \E p \in losers : \E c \in SumsOf[p.uid] : Split(p, c)
  BY <1>8, SplitIInv
<1>9. CASE Purge BY <1>9, PurgeIInv
<1>10. CASE UNCHANGED vars
  <2> USE <1>10 DEF vars
  <2>1. TypeOK' BY DEF IInv, TypeOK
  <2>2. WellFormed' BY DEF IInv, WellFormed
  <2> QED BY <2>1, <2>2, QuietStep
<1> QED BY <1>1, <1>2, <1>3, <1>4, <1>5, <1>6, <1>7, <1>8, <1>9, <1>10 DEF Next

LEMMA Inductive == Spec => []IInv
  BY InitIInv, NextIInv, PTL DEF Spec

(* Types, and the foreign key.                                             *)
THEOREM TypeCorrect == Spec => []TypeOK
<1>1. IInv => TypeOK BY DEF IInv
<1> QED BY <1>1, Inductive, PTL

(* Whatever the runs, the prune and the maintenance commands do across one *)
(* another, a decision is what its sources make of it, but for those that  *)
(* lost a row unreconciled.                                                *)
THEOREM DecisionsFollowSources == Spec => []Reconciled
<1>1. IInv => Reconciled BY DEF IInv
<1> QED BY <1>1, Inductive, PTL

(* A live decision serves what its authority last came with, though whether*)
(* a source is the authority is asked before its content is written.       *)
THEOREM AuthorityIsServed == Spec => []AuthorityServes
<1>1. IInv => AuthorityServes BY DEF IInv
<1> QED BY <1>1, Inductive, PTL
-----------------------------------------------------------------------------
(* Migrator.  The steps under its lock, and those that have a migration    *)
(* under way.                                                              *)
Locked == {"read", "apply", "ddl", "record", "free", "orphan"}
Busy   == {"apply", "ddl", "orphan", "record"}

(* The lock is held by one session, that of the process in its steps.      *)
Exclusive ==
  /\ \A p \in Processes : p \in held <=> pc[p] \in Locked
  /\ \A p, q \in held : p = q

(* What a process found pending is still what is pending; a statement it   *)
(* runs is one that no transaction may hold, and leaves its work behind    *)
(* before it is recorded.                                                  *)
TodoIsPending ==
  \A p \in Processes : pc[p] \in Busy =>
    /\ binary[p] \in Versions
    /\ todo[p] = Embedded(binary[p]) \ recorded

InHand ==
  \A p \in Processes, v \in Versions : IsNext(p, v) =>
    /\ pc[p] \in {"ddl", "orphan", "record"} => v \in Outside
    /\ pc[p] = "record" => schema[v] = "done"

VerifiedStands ==
  \A p \in Processes : pc[p] = "work" => Embedded(binary[p]) \subseteq recorded

MigratorInv ==
  /\ MigratorTypeOK
  /\ Exclusive
  /\ TodoIsPending
  /\ InHand
  /\ VerifiedStands
  /\ Ladder
-----------------------------------------------------------------------------
LEMMA InitMigratorInv == MigratorInit => MigratorInv
  BY MigratorAssumption DEF MigratorInit, MigratorInv, MigratorTypeOK, Exclusive, TodoIsPending, InHand,
     VerifiedStands, Ladder, Locked, Busy, Steps, IsNext

(* What a process has to apply next is the first migration missing.        *)
LEMMA NextIsFirstMissing ==
  ASSUME MigratorInv, NEW p \in Processes, NEW v \in Versions, pc[p] \in Busy, IsNext(p, v)
  PROVE  v \notin recorded /\ Embedded(v - 1) \subseteq recorded
<1>1. /\ binary[p] \in Nat /\ v \in Nat
      /\ v \in Embedded(binary[p]) \ recorded
      /\ \A w \in Embedded(binary[p]) \ recorded : v <= w
  BY MigratorAssumption DEF MigratorInv, TodoIsPending, IsNext
<1>2. ASSUME NEW w \in Embedded(v - 1) PROVE w \in recorded
  <2>1. w \in Int /\ w < v /\ w \in Embedded(binary[p])
    BY <1>1 DEF Embedded
  <2> QED BY <1>1, <2>1
<1> QED BY <1>1, <1>2

LEMMA MigrateInv ==
  ASSUME MigratorInv, NEW p \in Processes, NEW b \in Versions, Migrate(p, b)
  PROVE  MigratorInv'
<1> USE DEF MigratorInv, Migrate, Turns
<1>1. MigratorTypeOK' BY MigratorAssumption DEF MigratorTypeOK, Steps, IsNext
<1>2. Exclusive' BY DEF MigratorTypeOK, Exclusive, Locked
<1>3. TodoIsPending' BY DEF MigratorTypeOK, Exclusive, TodoIsPending, Locked, Busy, IsNext
<1>4. InHand' BY DEF MigratorTypeOK, Exclusive, TodoIsPending, InHand, Locked, Busy, IsNext
<1>5. VerifiedStands' BY DEF MigratorTypeOK, VerifiedStands
<1>6. Ladder' BY MigratorAssumption DEF MigratorTypeOK, Exclusive, TodoIsPending, InHand, Ladder, Locked, Busy, IsNext
<1> QED BY <1>1, <1>2, <1>3, <1>4, <1>5, <1>6

LEMMA VerifyInv ==
  ASSUME MigratorInv, NEW p \in Processes, NEW b \in Versions, Verify(p, b)
  PROVE  MigratorInv'
<1> USE DEF MigratorInv, Verify, Turns, Current, Pending, Embedded
<1>1. MigratorTypeOK' BY MigratorAssumption DEF MigratorTypeOK, Steps, IsNext
<1>2. Exclusive' BY DEF MigratorTypeOK, Exclusive, Locked
<1>3. TodoIsPending' BY DEF MigratorTypeOK, Exclusive, TodoIsPending, Locked, Busy, IsNext
<1>4. InHand' BY DEF MigratorTypeOK, Exclusive, TodoIsPending, InHand, Locked, Busy, IsNext
<1>5. VerifiedStands' BY DEF MigratorTypeOK, VerifiedStands
<1>6. Ladder' BY MigratorAssumption DEF MigratorTypeOK, Exclusive, TodoIsPending, InHand, Ladder, Locked, Busy, IsNext
<1> QED BY <1>1, <1>2, <1>3, <1>4, <1>5, <1>6

LEMMA AcquireInv ==
  ASSUME MigratorInv, NEW p \in Processes, Acquire(p)
  PROVE  MigratorInv'
<1> USE DEF MigratorInv, Acquire, Turns, Taken
<1>1. MigratorTypeOK' BY MigratorAssumption DEF MigratorTypeOK, Steps, IsNext
<1>2. Exclusive' BY DEF MigratorTypeOK, Exclusive, Locked
<1>3. TodoIsPending' BY DEF MigratorTypeOK, Exclusive, TodoIsPending, Locked, Busy, IsNext
<1>4. InHand' BY DEF MigratorTypeOK, Exclusive, TodoIsPending, InHand, Locked, Busy, IsNext
<1>5. VerifiedStands' BY DEF MigratorTypeOK, VerifiedStands
<1>6. Ladder' BY MigratorAssumption DEF MigratorTypeOK, Exclusive, TodoIsPending, InHand, Ladder, Locked, Busy, IsNext
<1> QED BY <1>1, <1>2, <1>3, <1>4, <1>5, <1>6

LEMMA ReadInv ==
  ASSUME MigratorInv, NEW p \in Processes, Read(p)
  PROVE  MigratorInv'
<1> USE DEF MigratorInv, Read, Turns, Pending, Embedded
<1>1. MigratorTypeOK'
  <2>1. Embedded(binary[p]) \subseteq Versions
    <3>1. CASE binary[p] = 0 BY <3>1
    <3>2. CASE binary[p] \in Versions BY <3>2, MigratorAssumption
    <3> QED BY <3>1, <3>2 DEF MigratorTypeOK
  <2> QED BY <2>1 DEF MigratorTypeOK, Steps
<1>2. Exclusive' BY DEF MigratorTypeOK, Exclusive, Locked
<1>3. TodoIsPending' BY DEF MigratorTypeOK, Exclusive, TodoIsPending, Locked, Busy, IsNext
<1>4. InHand' BY DEF MigratorTypeOK, Exclusive, TodoIsPending, InHand, Locked, Busy, IsNext
<1>5. VerifiedStands' BY DEF MigratorTypeOK, VerifiedStands
<1>6. Ladder' BY MigratorAssumption DEF MigratorTypeOK, Exclusive, TodoIsPending, InHand, Ladder, Locked, Busy, IsNext
<1> QED BY <1>1, <1>2, <1>3, <1>4, <1>5, <1>6

LEMMA ApplyOneInv ==
  ASSUME MigratorInv, NEW p \in Processes, NEW v \in Versions, ApplyOne(p, v)
  PROVE  MigratorInv'
<1> USE DEF MigratorInv, ApplyOne, Records, Turns, Embedded
<1>1. MigratorTypeOK' BY MigratorAssumption DEF MigratorTypeOK, Steps, IsNext
<1>2. Exclusive' BY DEF MigratorTypeOK, Exclusive, Locked
<1>3. TodoIsPending' BY DEF MigratorTypeOK, Exclusive, TodoIsPending, Locked, Busy, IsNext
<1>4. InHand' BY DEF MigratorTypeOK, Exclusive, TodoIsPending, InHand, Locked, Busy, IsNext
<1>5. VerifiedStands' BY DEF MigratorTypeOK, VerifiedStands
<1>6. Ladder'
  <2>1. v \notin recorded /\ Embedded(v - 1) \subseteq recorded
    BY NextIsFirstMissing DEF Busy
  <2>3. ASSUME NEW w \in recorded' PROVE schema'[w] = "done" /\ Embedded(w) \subseteq recorded'
    <3>1. CASE w = v BY <2>1, <3>1, MigratorAssumption DEF MigratorTypeOK
    <3>2. CASE w # v BY <3>2 DEF MigratorTypeOK, Ladder
    <3> QED BY <3>1, <3>2
  <2>4. ASSUME NEW w \in Versions \ recorded', schema'[w] # "absent"
        PROVE  w \in Outside /\ Embedded(w - 1) \subseteq recorded'
    BY <2>4 DEF MigratorTypeOK, Ladder
  <2> QED BY <2>3, <2>4 DEF Ladder
<1> QED BY <1>1, <1>2, <1>3, <1>4, <1>5, <1>6

LEMMA StartDdlInv ==
  ASSUME MigratorInv, NEW p \in Processes, NEW v \in Versions, StartDdl(p, v)
  PROVE  MigratorInv'
<1> USE DEF MigratorInv, StartDdl, Turns, Accepted, Embedded
<1>1. MigratorTypeOK' BY MigratorAssumption DEF MigratorTypeOK, Steps, IsNext
<1>2. Exclusive' BY DEF MigratorTypeOK, Exclusive, Locked
<1>3. TodoIsPending' BY DEF MigratorTypeOK, Exclusive, TodoIsPending, Locked, Busy, IsNext
<1>4. InHand' BY DEF MigratorTypeOK, Exclusive, TodoIsPending, InHand, Locked, Busy, IsNext
<1>5. VerifiedStands' BY DEF MigratorTypeOK, VerifiedStands
<1>6. Ladder'
  <2>1. v \notin recorded /\ Embedded(v - 1) \subseteq recorded
    BY NextIsFirstMissing DEF Busy
  <2>3. ASSUME NEW w \in recorded' PROVE schema'[w] = "done" /\ Embedded(w) \subseteq recorded'
    BY <2>1 DEF MigratorTypeOK, Ladder
  <2>4. ASSUME NEW w \in Versions \ recorded', schema'[w] # "absent"
        PROVE  w \in Outside /\ Embedded(w - 1) \subseteq recorded'
    BY <2>1, <2>4 DEF MigratorTypeOK, Ladder
  <2> QED BY <2>3, <2>4 DEF Ladder
<1> QED BY <1>1, <1>2, <1>3, <1>4, <1>5, <1>6

LEMMA EndDdlInv ==
  ASSUME MigratorInv, NEW p \in Processes, NEW v \in Versions, EndDdl(p, v)
  PROVE  MigratorInv'
<1> USE DEF MigratorInv, EndDdl, Turns
<1>1. MigratorTypeOK' BY MigratorAssumption DEF MigratorTypeOK, Steps, IsNext
<1>2. Exclusive' BY DEF MigratorTypeOK, Exclusive, Locked
<1>3. TodoIsPending' BY DEF MigratorTypeOK, Exclusive, TodoIsPending, Locked, Busy, IsNext
<1>4. InHand'
  <2> SUFFICES ASSUME NEW q \in Processes, NEW w \in Versions, IsNext(q, w)'
               PROVE  /\ pc'[q] \in {"ddl", "orphan", "record"} => w \in Outside
                      /\ pc'[q] = "record" => schema'[w] = "done"
    BY DEF InHand
  <2>1. CASE q = p
    <3>1. w = v BY <2>1, MigratorAssumption DEF MigratorTypeOK, IsNext
    <3> QED BY <2>1, <3>1 DEF MigratorTypeOK, InHand, IsNext
  <2>2. CASE q # p BY <2>2 DEF MigratorTypeOK, InHand, IsNext
  <2> QED BY <2>1, <2>2
<1>5. VerifiedStands' BY DEF MigratorTypeOK, VerifiedStands
<1>6. Ladder'
  <2>1. v \notin recorded /\ Embedded(v - 1) \subseteq recorded
    BY NextIsFirstMissing DEF Busy
  <2>3. ASSUME NEW w \in recorded' PROVE schema'[w] = "done" /\ Embedded(w) \subseteq recorded'
    BY <2>1 DEF MigratorTypeOK, Ladder
  <2>4. v \in Outside BY DEF InHand
  <2>5. ASSUME NEW w \in Versions \ recorded', schema'[w] # "absent"
        PROVE  w \in Outside /\ Embedded(w - 1) \subseteq recorded'
    BY <2>1, <2>4, <2>5 DEF MigratorTypeOK, Ladder
  <2> QED BY <2>3, <2>5 DEF Ladder
<1> QED BY <1>1, <1>2, <1>3, <1>4, <1>5, <1>6

LEMMA StopDdlInv ==
  ASSUME MigratorInv, NEW p \in Processes, StopDdl(p)
  PROVE  MigratorInv'
<1> USE DEF MigratorInv, StopDdl, Turns
<1>1. MigratorTypeOK' BY MigratorAssumption DEF MigratorTypeOK, Steps, IsNext
<1>2. Exclusive' BY DEF MigratorTypeOK, Exclusive, Locked
<1>3. TodoIsPending' BY DEF MigratorTypeOK, Exclusive, TodoIsPending, Locked, Busy, IsNext
<1>4. InHand' BY DEF MigratorTypeOK, Exclusive, TodoIsPending, InHand, Locked, Busy, IsNext
<1>5. VerifiedStands' BY DEF MigratorTypeOK, VerifiedStands
<1>6. Ladder' BY MigratorAssumption DEF MigratorTypeOK, Exclusive, TodoIsPending, InHand, Ladder, Locked, Busy, IsNext
<1> QED BY <1>1, <1>2, <1>3, <1>4, <1>5, <1>6

LEMMA RecordInv ==
  ASSUME MigratorInv, NEW p \in Processes, NEW v \in Versions, Record(p, v)
  PROVE  MigratorInv'
<1> USE DEF MigratorInv, Record, Records, Turns, Embedded
<1>1. MigratorTypeOK' BY MigratorAssumption DEF MigratorTypeOK, Steps, IsNext
<1>2. Exclusive' BY DEF MigratorTypeOK, Exclusive, Locked
<1>3. TodoIsPending' BY DEF MigratorTypeOK, Exclusive, TodoIsPending, Locked, Busy, IsNext
<1>4. InHand' BY DEF MigratorTypeOK, Exclusive, TodoIsPending, InHand, Locked, Busy, IsNext
<1>5. VerifiedStands' BY DEF MigratorTypeOK, VerifiedStands
<1>6. Ladder' BY MigratorAssumption DEF MigratorTypeOK, Exclusive, TodoIsPending, InHand, Ladder, Locked, Busy, IsNext
<1> QED BY <1>1, <1>2, <1>3, <1>4, <1>5, <1>6

LEMMA FailInv ==
  ASSUME MigratorInv, NEW p \in Processes, Fail(p)
  PROVE  MigratorInv'
<1> USE DEF MigratorInv, Fail, Turns
<1>1. MigratorTypeOK' BY MigratorAssumption DEF MigratorTypeOK, Steps, IsNext
<1>2. Exclusive' BY DEF MigratorTypeOK, Exclusive, Locked
<1>3. TodoIsPending' BY DEF MigratorTypeOK, Exclusive, TodoIsPending, Locked, Busy, IsNext
<1>4. InHand' BY DEF MigratorTypeOK, Exclusive, TodoIsPending, InHand, Locked, Busy, IsNext
<1>5. VerifiedStands' BY DEF MigratorTypeOK, VerifiedStands
<1>6. Ladder' BY MigratorAssumption DEF MigratorTypeOK, Exclusive, TodoIsPending, InHand, Ladder, Locked, Busy, IsNext
<1> QED BY <1>1, <1>2, <1>3, <1>4, <1>5, <1>6

LEMMA UnlockInv ==
  ASSUME MigratorInv, NEW p \in Processes, Unlock(p)
  PROVE  MigratorInv'
<1> USE DEF MigratorInv, Unlock, Turns
<1>1. MigratorTypeOK' BY MigratorAssumption DEF MigratorTypeOK, Steps, IsNext
<1>2. Exclusive' BY DEF MigratorTypeOK, Exclusive, Locked
<1>3. TodoIsPending' BY DEF MigratorTypeOK, Exclusive, TodoIsPending, Locked, Busy, IsNext
<1>4. InHand' BY DEF MigratorTypeOK, Exclusive, TodoIsPending, InHand, Locked, Busy, IsNext
<1>5. VerifiedStands' BY DEF MigratorTypeOK, VerifiedStands
<1>6. Ladder' BY MigratorAssumption DEF MigratorTypeOK, Exclusive, TodoIsPending, InHand, Ladder, Locked, Busy, IsNext
<1> QED BY <1>1, <1>2, <1>3, <1>4, <1>5, <1>6

LEMMA FinishInv ==
  ASSUME MigratorInv, NEW p \in Processes, Finish(p)
  PROVE  MigratorInv'
<1> USE DEF MigratorInv, Finish, Turns
<1>1. MigratorTypeOK' BY MigratorAssumption DEF MigratorTypeOK, Steps, IsNext
<1>2. Exclusive' BY DEF MigratorTypeOK, Exclusive, Locked
<1>3. TodoIsPending' BY DEF MigratorTypeOK, Exclusive, TodoIsPending, Locked, Busy, IsNext
<1>4. InHand' BY DEF MigratorTypeOK, Exclusive, TodoIsPending, InHand, Locked, Busy, IsNext
<1>5. VerifiedStands' BY DEF MigratorTypeOK, VerifiedStands
<1>6. Ladder' BY MigratorAssumption DEF MigratorTypeOK, Exclusive, TodoIsPending, InHand, Ladder, Locked, Busy, IsNext
<1> QED BY <1>1, <1>2, <1>3, <1>4, <1>5, <1>6

LEMMA CrashInv ==
  ASSUME MigratorInv, NEW p \in Processes, Crash(p)
  PROVE  MigratorInv'
<1> USE DEF MigratorInv, Crash, Turns, KeptBySession
<1>1. MigratorTypeOK' BY MigratorAssumption DEF MigratorTypeOK, Steps, IsNext
<1>2. Exclusive' BY DEF MigratorTypeOK, Exclusive, Locked
<1>3. TodoIsPending' BY DEF MigratorTypeOK, Exclusive, TodoIsPending, Locked, Busy, IsNext
<1>4. InHand' BY DEF MigratorTypeOK, Exclusive, TodoIsPending, InHand, Locked, Busy, IsNext
<1>5. VerifiedStands' BY DEF MigratorTypeOK, VerifiedStands
<1>6. Ladder' BY MigratorAssumption DEF MigratorTypeOK, Exclusive, TodoIsPending, InHand, Ladder, Locked, Busy, IsNext
<1> QED BY <1>1, <1>2, <1>3, <1>4, <1>5, <1>6

LEMMA RepairInv ==
  ASSUME MigratorInv, NEW v \in Versions, Repair(v)
  PROVE  MigratorInv'
<1> USE DEF MigratorInv, Repair, Embedded
<1>1. MigratorTypeOK' BY MigratorAssumption DEF MigratorTypeOK, Steps, IsNext
<1>2. Exclusive' BY DEF MigratorTypeOK, Exclusive, Locked
<1>3. TodoIsPending' BY DEF MigratorTypeOK, Exclusive, TodoIsPending, Locked, Busy, IsNext
<1>4. InHand' BY DEF MigratorTypeOK, Exclusive, TodoIsPending, InHand, Locked, Busy, IsNext
<1>5. VerifiedStands' BY DEF MigratorTypeOK, VerifiedStands
<1>6. Ladder' BY MigratorAssumption DEF MigratorTypeOK, Exclusive, TodoIsPending, InHand, Ladder, Locked, Busy, IsNext
<1> QED BY <1>1, <1>2, <1>3, <1>4, <1>5, <1>6

-----------------------------------------------------------------------------
LEMMA NextMigratorInv == MigratorInv /\ [MigratorNext]_migratorVars => MigratorInv'
<1> SUFFICES ASSUME MigratorInv, [MigratorNext]_migratorVars PROVE MigratorInv' OBVIOUS
<1>1. ASSUME NEW p \in Processes, NEW b \in Versions, Migrate(p, b) \/ Verify(p, b) PROVE MigratorInv'
  BY <1>1, MigrateInv, VerifyInv
<1>2. ASSUME NEW p \in Processes, NEW v \in Versions,
             ApplyOne(p, v) \/ StartDdl(p, v) \/ EndDdl(p, v) \/ Record(p, v)
      PROVE  MigratorInv'
  BY <1>2, ApplyOneInv, StartDdlInv, EndDdlInv, RecordInv
<1>3. ASSUME NEW p \in Processes, Read(p) \/ StopDdl(p) \/ Fail(p) \/ Unlock(p) PROVE MigratorInv'
  BY <1>3, ReadInv, StopDdlInv, FailInv, UnlockInv
<1>4. ASSUME NEW p \in Processes, Acquire(p) \/ Finish(p) \/ Crash(p) PROVE MigratorInv'
  BY <1>4, AcquireInv, FinishInv, CrashInv
<1>5. ASSUME NEW v \in Versions, Repair(v) PROVE MigratorInv'
  BY <1>5, RepairInv
<1>6. CASE UNCHANGED migratorVars
  BY <1>6 DEF migratorVars, MigratorInv, MigratorTypeOK, Exclusive, TodoIsPending, InHand, VerifiedStands, Ladder, IsNext
<1> QED BY <1>1, <1>2, <1>3, <1>4, <1>5, <1>6 DEF MigratorNext, Applies

LEMMA MigratorInductive == MigratorSpec => []MigratorInv
  BY InitMigratorInv, NextMigratorInv, PTL DEF MigratorSpec

(* Every state of the migrator is well typed.                              *)
THEOREM MigratorTypeCorrect == MigratorSpec => []MigratorTypeOK
  BY MigratorInductive, PTL DEF MigratorInv

(* The recorded migrations are a prefix of the series and are in place,    *)
(* and only the first missing one can have left something behind.          *)
THEOREM NoHoleUnderAMigration == MigratorSpec => []Ladder
  BY MigratorInductive, PTL DEF MigratorInv

(* A command that verified its schema keeps it until it ends.              *)
THEOREM CommandsHaveTheirSchema == MigratorSpec => []WorksOnItsSchema
<1>1. MigratorInv => WorksOnItsSchema
  BY DEF MigratorInv, VerifiedStands, Ladder, WorksOnItsSchema
<1> QED BY <1>1, MigratorInductive, PTL

(* Only the work of a migration that is not recorded touches the schema,   *)
(* and only one runner is at it.                                           *)
LEMMA StepsAreOneAtATime ==
  ASSUME MigratorInv, MigratorNext
  PROVE  \A v \in Versions : schema'[v] # schema[v] =>
           /\ v \notin recorded
           /\ \A p, q \in Processes : Underway(p) /\ Underway(q) => p = q
<1> SUFFICES ASSUME NEW v \in Versions, schema'[v] # schema[v] PROVE v \notin recorded
  BY DEF MigratorInv, Exclusive, Underway, Locked
<1>1. CASE \E w \in Versions : Repair(w)
  BY <1>1 DEF Repair, MigratorInv, MigratorTypeOK
<1>2. CASE \E p \in Processes, w \in Versions : ApplyOne(p, w) \/ StartDdl(p, w) \/ EndDdl(p, w)
  <2>1. PICK p \in Processes, w \in Versions : ApplyOne(p, w) \/ StartDdl(p, w) \/ EndDdl(p, w)
    BY <1>2
  <2>2. w \notin recorded
    BY <2>1 DEF ApplyOne, StartDdl, EndDdl, MigratorInv, TodoIsPending, IsNext, Busy
  <2> QED BY <2>1, <2>2 DEF ApplyOne, StartDdl, EndDdl, MigratorInv, MigratorTypeOK
<1>3. CASE UNCHANGED schema BY <1>3
<1> QED
  BY <1>1, <1>2, <1>3 DEF MigratorNext, Applies, Migrate, Verify, Acquire, Read, StopDdl, Record, Fail,
     Unlock, Finish, Crash

(* The statements of two migrations never cross, even when a client died in*)
(* one of them, nor is a recorded migration run again.                     *)
THEOREM StatementsNeverCross == MigratorSpec => OneAtATime
<1>1. MigratorInv /\ [MigratorNext]_migratorVars =>
        [\A v \in Versions : schema'[v] # schema[v] =>
           /\ v \notin recorded
           /\ \A p, q \in Processes : Underway(p) /\ Underway(q) => p = q]_migratorVars
  BY StepsAreOneAtATime
<1> QED BY <1>1, MigratorInductive, PTL DEF MigratorSpec, OneAtATime
=============================================================================

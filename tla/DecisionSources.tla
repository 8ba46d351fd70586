-------------------------- MODULE DecisionSources ---------------------------
(***************************************************************************)
(* The sources of a decision (lj-store decisions.rs and identity.rs).  A   *)
(* decision is one row served to readers; each text received for it is a   *)
(* row of decision_sources, found again by its source_uid.  The source of  *)
(* highest rank is the authority: it alone writes what is served, and its  *)
(* withdrawal empties the decision.                                        *)
(*                                                                         *)
(* Ingest runs attach sources, the prune withdraws them, and the           *)
(* maintenance commands merge, split and purge decisions, each over a      *)
(* connection of its own.  Every transaction reads where a source is, then *)
(* takes the advisory lock of that decision, then writes and commits: what *)
(* it read may have moved in between.                                      *)
(*                                                                         *)
(* The decisions modelled are those of one canonical_ref, in one language. *)
(***************************************************************************)
EXTENDS Integers

CONSTANTS
  Uids,        \* the source_uids, ordered as the store orders them
  Sources,     \* judilibre, opendata, dila-cass, ...
  SourceOf,    \* the source of a source_uid
  RankOf,      \* source_rank
  Judilibre,   \* the source unmerge repairs, and whose withdrawals are kept
  SumsOf,      \* the contents a source_uid may come with (content_checksum)
  Writers,     \* the ingest runs
  MaxId,       \* bound: decisions ever created
  MaxFeeds,    \* bound: candidates fed to the ingest runs
  MaxSays,     \* bound: withdrawals by the sources
  MaxCommands  \* bound: maintenance commands started

ASSUME SourcesAssumption ==
  /\ Uids \subseteq Nat \ {0}
  /\ SourceOf \in [Uids -> Sources]
  /\ RankOf \in [Sources -> Nat]
  /\ SumsOf \in [Uids -> SUBSET (Nat \ {0})]
  /\ MaxId \in Nat /\ MaxFeeds \in Nat /\ MaxSays \in Nat /\ MaxCommands \in Nat

VARIABLES
  rows,       \* decision_sources, by source_uid
  decisions,  \* decisions, by id
  lastId,     \* the sequence of decision ids
  job,        \* the transaction of each ingest run
  out,        \* the withdrawals to apply; those of tombstones.jsonl stay
  prune,      \* the withdrawal under way, and the last source_uid pruned
  merge,      \* the cluster the merge command read
  losers,     \* the sources the unmerge command read
  raced,      \* history: decisions that lost or changed a row unreconciled
  frozen,     \* history: decisions whose authority came without its text
  feeds, says, commands

vars == <<rows, decisions, lastId, job, out, prune, merge, losers, raced,
          frozen, feeds, says, commands>>

counts == <<feeds, says, commands>>
tools  == <<prune, merge, losers>>

Ids    == 1 .. MaxId
Sums   == UNION {SumsOf[u] : u \in Uids}
NoRow  == [dec |-> 0, sum |-> 0, active |-> FALSE]
NoText == [uid |-> 0, sum |-> 0]
NoDec  == [state |-> "none", meta |-> NoText, text |-> NoText]
NoJob  == [pc |-> "idle", uid |-> 0, sum |-> 0, id |-> 0, lead |-> FALSE]
NoMerge == [keeper |-> 0, losers |-> {}]
-----------------------------------------------------------------------------
Rank(u) == RankOf[SourceOf[u]]

(* The order of authority: rank, then the smallest source_uid.             *)
Above(u, v) == Rank(u) > Rank(v) \/ (Rank(u) = Rank(v) /\ u < v)

SourcesIn(r, d) == {u \in Uids : r[u].dec = d}

(* authority_source_uid: tombstoned sources count.                         *)
Leads(r, u, d) == u \in SourcesIn(r, d) /\ \A v \in SourcesIn(r, d) : ~Above(v, u)

Withdrawn(r, d) == \E u \in Uids : Leads(r, u, d) /\ ~r[u].active

(* upsert_decision_source: the row goes where the writer says, and lives.  *)
Attached(r, u, d, c) == [r EXCEPT ![u] = [dec |-> d, sum |-> c, active |-> TRUE]]

Tombstoned(r, u) == [r EXCEPT ![u] = [dec |-> r[u].dec, sum |-> r[u].sum, active |-> FALSE]]

(* reconcile: what becomes of the decision d, whose row is x.  Mutant: one *)
(* active source, of whatever rank, keeps it live.                         *)
SettledByAny(r, d, x) ==
  IF x.state = "none" \/ SourcesIn(r, d) = {} THEN NoDec
  ELSE IF \A u \in SourcesIn(r, d) : ~r[u].active
       THEN [state |-> "withdrawn", meta |-> x.meta, text |-> NoText]
  ELSE [state |-> "live", meta |-> x.meta, text |-> x.text]
Settled(r, d, x) ==
  IF x.state = "none" \/ SourcesIn(r, d) = {} THEN NoDec
  ELSE IF Withdrawn(r, d) THEN [state |-> "withdrawn", meta |-> x.meta, text |-> NoText]
  ELSE [state |-> "live", meta |-> x.meta, text |-> x.text]

(* write_canonical_content by the authority, and decision_text_put, which  *)
(* looks again whether the source comes first.                             *)
Written(x, u, c, lead, first) ==
  [state |-> x.state,
   meta  |-> IF lead THEN [uid |-> u, sum |-> c] ELSE x.meta,
   text  |-> IF first THEN [uid |-> u, sum |-> c] ELSE x.text]

(* find_canonical_ref_merge_target: live, and without an active row of s.  *)
CanTake(s) ==
  {d \in Ids : /\ decisions[d].state = "live"
               /\ \A u \in SourcesIn(rows, d) : rows[u].active => SourceOf[u] # s}

(* The foreign key of a row.  Mutant: none.                                *)
RefersToAny(d) == d \in Ids
Refers(d) == decisions[d].state # "none"

(* The advisory lock of a decision, the foreign key's share lock of it, and*)
(* the lock of a source's row.  Mutant: no advisory lock.                  *)
Holders  == {w \in Writers : job[w].pc = "commit"}
LockOfNone(d) == d \in Ids
LockFree(d) == \A w \in Holders : job[w].id # d
Unpinned(d) == \A w \in Holders : job[w].id # d
RowFree(u)  == \A w \in Holders : job[w].uid # u

(* The decision the row of u leaves when it is attached to d.              *)
Left(u, d) == {rows[u].dec} \ {0, d}

Init ==
  /\ rows = [u \in Uids |-> NoRow]
  /\ decisions = [d \in Ids |-> NoDec]
  /\ lastId = 0
  /\ job = [w \in Writers |-> NoJob]
  /\ out = {}
  /\ prune = [uid |-> 0, id |-> 0]
  /\ merge = NoMerge
  /\ losers = {}
  /\ raced = {} /\ frozen = {}
  /\ feeds = 0 /\ says = 0 /\ commands = 0
-----------------------------------------------------------------------------
(* The sources withdraw a text, and publish it again.                      *)
Withdraw(u) ==
  /\ says < MaxSays /\ u \notin out
  /\ out' = out \cup {u}
  /\ says' = says + 1
  /\ UNCHANGED <<rows, decisions, lastId, job, tools, raced, frozen, feeds, commands>>

Republish(u) ==
  /\ u \in out
  /\ out' = out \ {u}
  /\ UNCHANGED <<rows, decisions, lastId, job, tools, raced, frozen, counts>>

(* A candidate is triaged against the base as it is before the batches     *)
(* under way are written: an active source keeps the id it has now, an      *)
(* unknown or withdrawn one is looked up when it is written.  An unchanged  *)
(* one is skipped, or written again where it is if its embeddings are       *)
(* missing.                                                                *)
Triage(w, u, c) ==
  /\ job[w].pc = "idle" /\ feeds < MaxFeeds
  /\ job' = [job EXCEPT ![w] =
       IF rows[u].active
       THEN [pc |-> "lock", uid |-> u, sum |-> c, id |-> rows[u].dec, lead |-> FALSE]
       ELSE [pc |-> "lookup", uid |-> u, sum |-> c, id |-> 0, lead |-> FALSE]]
  /\ feeds' = feeds + 1
  /\ UNCHANGED <<rows, decisions, lastId, out, tools, raced, frozen, says, commands>>

Goes(w, pc, d, lead) ==
  job' = [job EXCEPT ![w] = [pc |-> pc, uid |-> job[w].uid, sum |-> job[w].sum,
                             id |-> d, lead |-> lead]]

(* upsert: by source_uid, tombstoned included, then by canonical_ref.      *)
Lookup(w) ==
  LET u == job[w].uid
      targets == CanTake(SourceOf[u])
  IN
  /\ job[w].pc = "lookup"
  /\ \/ /\ rows[u].dec # 0
        /\ IF rows[u].active /\ rows[u].sum = job[w].sum
           THEN job' = [job EXCEPT ![w] = NoJob]
           ELSE Goes(w, "lock", rows[u].dec, FALSE)
     \/ /\ rows[u].dec = 0 /\ targets = {}
        /\ Goes(w, "create", 0, FALSE)
     \/ /\ rows[u].dec = 0
        /\ \E d \in targets : (\A e \in targets : d <= e) /\ Goes(w, "lock", d, FALSE)
  /\ UNCHANGED <<rows, decisions, lastId, out, tools, raced, frozen, counts>>

(* apply_provenance: the lock of the decision, the row of the source, and  *)
(* whether the source is now its authority.  The row refers to a decision  *)
(* that must still be there.                                               *)
Lock(w) ==
  LET u == job[w].uid
      d == job[w].id
  IN
  /\ job[w].pc = "lock"
  /\ LockFree(d) /\ RowFree(u)
  /\ Refers(d)
  /\ Goes(w, "commit", d, Leads(Attached(rows, u, d, job[w].sum), u, d))
  /\ UNCHANGED <<rows, decisions, lastId, out, tools, raced, frozen, counts>>

(* The rest of apply_provenance: the content, reconcile, the commit.       *)
Commit(w) ==
  LET u == job[w].uid
      d == job[w].id
      c == job[w].sum
      r == Attached(rows, u, d, c)
      first == Leads(r, u, d)
  IN
  /\ job[w].pc = "commit"
  /\ rows' = r
  /\ decisions' = [decisions EXCEPT ![d] =
       Settled(r, d, Written(decisions[d], u, c, job[w].lead, first))]
  /\ raced' = (raced \ {d}) \cup Left(u, d)
  /\ frozen' = (IF job[w].lead /\ first THEN frozen \ {d} ELSE frozen) \cup Left(u, d)
  /\ job' = [job EXCEPT ![w] = NoJob]
  /\ UNCHANGED <<lastId, out, tools, counts>>

(* insert_decision: no lock.  A row another run has inserted meanwhile     *)
(* under the same source_uid moves here.                                   *)
Create(w) ==
  LET u == job[w].uid
      d == lastId + 1
      c == job[w].sum
  IN
  /\ job[w].pc = "create"
  /\ lastId < MaxId /\ RowFree(u)
  /\ lastId' = d
  /\ rows' = Attached(rows, u, d, c)
  /\ decisions' = [decisions EXCEPT ![d] = [state |-> "live", meta |-> [uid |-> u, sum |-> c],
                                           text |-> [uid |-> u, sum |-> c]]]
  /\ raced' = raced \cup Left(u, d)
  /\ frozen' = frozen \cup Left(u, d)
  /\ job' = [job EXCEPT ![w] = NoJob]
  /\ UNCHANGED <<out, tools, counts>>

(* An error, of which a decision that is gone is one, or a run that is     *)
(* killed: the transaction is rolled back and its locks released.          *)
Rollback(w) ==
  /\ job[w].pc # "idle"
  /\ job' = [job EXCEPT ![w] = NoJob]
  /\ UNCHANGED <<rows, decisions, lastId, out, tools, raced, frozen, counts>>
-----------------------------------------------------------------------------
(* The next withdrawal after the last, round and round: every prune reads  *)
(* tombstones.jsonl whole again.                                           *)
NextOut(u) ==
  /\ u \in out
  /\ \/ prune.uid < u /\ \A v \in out : prune.uid < v => u <= v
     \/ /\ \A v \in out : v <= prune.uid
        /\ \A v \in out : u <= v

(* delete: the decision of a row, tombstoned already or not.  Mutant: if not.*)
FoundActive(u) == IF rows[u].active THEN rows[u].dec ELSE 0
Found(u) == rows[u].dec

(* The deletions of an archive of another source are applied once.         *)
Kept(u) == IF SourceOf[u] = Judilibre THEN out ELSE out \ {u}

(* The decision is read before its lock is taken ...                       *)
Find(u) ==
  /\ prune.id = 0
  /\ NextOut(u)
  /\ prune' = [uid |-> u, id |-> Found(u)]
  /\ out' = Kept(u)
  /\ <<prune', out'>> # <<prune, out>>
  /\ UNCHANGED <<rows, decisions, lastId, job, merge, losers, raced, frozen, counts>>

(* ... then tombstones the row, wherever it is, and reconciles that one.   *)
Delete ==
  LET u == prune.uid
      d == prune.id
      r == Tombstoned(rows, u)
  IN
  /\ d # 0
  /\ LockFree(d) /\ RowFree(u)
  /\ rows' = r
  /\ decisions' = [decisions EXCEPT ![d] = Settled(r, d, decisions[d])]
  /\ raced' = (raced \ {d}) \cup Left(u, d)
  /\ prune' = [uid |-> u, id |-> 0]
  /\ UNCHANGED <<lastId, job, out, merge, losers, frozen, counts>>
-----------------------------------------------------------------------------
ActiveIn(d) == {u \in SourcesIn(rows, d) : rows[u].active}
Cluster     == {d \in Ids : decisions[d].state = "live" /\ ActiveIn(d) # {}}

(* d comes before e in a cluster: highest active rank, then smallest id.   *)
Before(d, e) ==
  \E u \in ActiveIn(d) : \A v \in ActiveIn(e) :
    Rank(u) > Rank(v) \/ (Rank(u) = Rank(v) /\ d < e)

(* fetch_cross_source_merge_groups, read once for the whole command: two   *)
(* decisions or more, no source in two of them.                            *)
ReadCluster ==
  /\ merge = NoMerge /\ commands < MaxCommands
  /\ \A d, e \in Cluster : d # e =>
       \A u \in ActiveIn(d), v \in ActiveIn(e) : SourceOf[u] # SourceOf[v]
  /\ \E k \in Cluster :
       /\ Cluster # {k}
       /\ \A e \in Cluster \ {k} : Before(k, e)
       /\ merge' = [keeper |-> k, losers |-> Cluster \ {k}]
  /\ commands' = commands + 1
  /\ UNCHANGED <<rows, decisions, lastId, job, out, prune, losers, raced, frozen, feeds, says>>

Moved(r, from, to) ==
  [u \in Uids |-> IF r[u].dec = from
                  THEN [dec |-> to, sum |-> r[u].sum, active |-> r[u].active]
                  ELSE r[u]]

Rest(l) == IF merge.losers = {l} THEN NoMerge
           ELSE [keeper |-> merge.keeper, losers |-> merge.losers \ {l}]

(* merge_into: both locks, every row of the loser to the keeper, reconcile *)
(* both.  The keeper's content stays.                                      *)
MergeInto(l) ==
  LET k == merge.keeper
      r == Moved(rows, l, k)
  IN
  /\ l \in merge.losers
  /\ LockFree(k) /\ LockFree(l)
  /\ \A u \in SourcesIn(rows, l) : RowFree(u)
  /\ Refers(k) \/ SourcesIn(rows, l) = {}
  /\ rows' = r
  /\ decisions' = [d \in Ids |-> IF d \in {k, l} THEN Settled(r, d, decisions[d])
                                 ELSE decisions[d]]
  /\ raced' = raced \ {k, l}
  /\ frozen' = IF \E u \in SourcesIn(rows, l) : Leads(r, u, k)
               THEN frozen \cup {k} ELSE frozen
  /\ merge' = Rest(l)
  /\ UNCHANGED <<lastId, job, out, prune, losers, counts>>

(* The keeper is gone: the rows cannot refer to it, the command ends.      *)
MergeFails(l) ==
  /\ l \in merge.losers
  /\ ~Refers(merge.keeper) /\ SourcesIn(rows, l) # {}
  /\ merge' = NoMerge
  /\ UNCHANGED <<rows, decisions, lastId, job, out, prune, losers, raced, frozen, counts>>
-----------------------------------------------------------------------------
(* fetch_same_source_judilibre_losers, read once for the whole command:    *)
(* the active rows of one source that another of them comes before.        *)
ReadLosers ==
  /\ losers = {} /\ commands < MaxCommands
  /\ losers' =
       {p \in [dec : Ids, uid : Uids] :
          /\ p.uid \in ActiveIn(p.dec) /\ SourceOf[p.uid] = Judilibre
          /\ \E v \in ActiveIn(p.dec) : SourceOf[v] = Judilibre /\ Above(v, p.uid)}
  /\ losers' # {}
  /\ commands' = commands + 1
  /\ UNCHANGED <<rows, decisions, lastId, job, out, prune, merge, raced, frozen, feeds, says>>

(* create_split_decision makes a skeleton n of the same canonical_ref, and *)
(* takes the row there if it is still where the list says.  The payload of *)
(* the cache is written where upsert then finds the row: the skeleton, the *)
(* decision it moved to, or the first that can take a source now unknown.  *)
SplitTarget(p, n) ==
  IF rows[p.uid].dec = p.dec THEN {n}
  ELSE IF rows[p.uid].dec # 0 THEN {rows[p.uid].dec}
  ELSE {d \in CanTake(Judilibre) \cup {n} : \A e \in CanTake(Judilibre) \cup {n} : d <= e}

(* The split and the writing of its payload, in one transaction.           *)
Split(p, c) ==
  LET u == p.uid
      n == lastId + 1
      skeleton == [state |-> "live", meta |-> NoText, text |-> NoText]
  IN
  /\ p \in losers
  /\ lastId < MaxId /\ RowFree(u)
  /\ lastId' = n
  /\ \E d \in SplitTarget(p, n) :
       LET r == Attached(rows, u, d, c)
           first == Leads(r, u, d)
           ds == [decisions EXCEPT ![n] = skeleton]
       IN
       /\ LockFree(d)
       /\ rows' = r
       /\ decisions' = [ds EXCEPT ![d] = Settled(r, d, Written(ds[d], u, c, first, first))]
       /\ raced' = (raced \ {d}) \cup ({n} \ {d})
                   \cup (IF Leads(rows, u, p.dec) THEN {p.dec} ELSE {})
       /\ frozen' = (IF first THEN frozen \ {d} ELSE frozen)
                    \cup (IF Leads(rows, u, p.dec) THEN {p.dec} ELSE {})
  /\ losers' = losers \ {p}
  /\ UNCHANGED <<job, out, prune, merge, counts>>

(* purge_orphan_tombstones: withdrawn, empty, and no active row; the rows  *)
(* go with the decision.                                                   *)
Orphans == {d \in Ids : /\ decisions[d].state = "withdrawn"
                        /\ decisions[d].text = NoText
                        /\ ActiveIn(d) = {}}

Purge ==
  /\ commands < MaxCommands /\ Orphans # {}
  /\ \A d \in Orphans : Unpinned(d) /\ \A u \in SourcesIn(rows, d) : RowFree(u)
  /\ rows' = [u \in Uids |-> IF rows[u].dec \in Orphans THEN NoRow ELSE rows[u]]
  /\ decisions' = [d \in Ids |-> IF d \in Orphans THEN NoDec ELSE decisions[d]]
  /\ commands' = commands + 1
  /\ UNCHANGED <<lastId, job, out, tools, raced, frozen, feeds, says>>
-----------------------------------------------------------------------------
Ingest(w) == Lookup(w) \/ Lock(w) \/ Commit(w) \/ Create(w)
Prune     == (\E u \in Uids : Find(u)) \/ Delete

Next ==
  \/ \E u \in Uids : Withdraw(u) \/ Republish(u)
  \/ \E w \in Writers, u \in Uids : \E c \in SumsOf[u] : Triage(w, u, c)
  \/ \E w \in Writers : Ingest(w) \/ Rollback(w)
  \/ Prune
  \/ ReadCluster
  \/ \E l \in Ids : MergeInto(l) \/ MergeFails(l)
  \/ ReadLosers
  \/ \E p \in losers : \E c \in SumsOf[p.uid] : Split(p, c)
  \/ Purge

(* The prune runs every day, and a transaction that waits for a lock     *)
(* holds none the other waits for.                                         *)
Fairness == WF_vars(Prune) /\ \A w \in Writers : WF_vars(Lock(w) \/ Commit(w) \/ Rollback(w))

Spec == Init /\ [][Next]_vars /\ Fairness
-----------------------------------------------------------------------------
Row  == [dec : 0 .. MaxId, sum : Sums \cup {0}, active : BOOLEAN]
Text == [uid : Uids \cup {0}, sum : Sums \cup {0}]
Job  == [pc : {"idle", "lookup", "lock", "commit", "create"}, uid : Uids \cup {0},
         sum : Sums \cup {0}, id : 0 .. MaxId, lead : BOOLEAN]

(* Types, and the foreign key: a row refers to a decision that is there.   *)
TypeOK ==
  /\ rows \in [Uids -> Row]
  /\ decisions \in [Ids -> [state : {"none", "live", "withdrawn"}, meta : Text, text : Text]]
  /\ lastId \in 0 .. MaxId
  /\ job \in [Writers -> Job]
  /\ out \subseteq Uids
  /\ prune \in [uid : Uids \cup {0}, id : 0 .. MaxId]
  /\ merge \in [keeper : 0 .. MaxId, losers : SUBSET Ids]
  /\ losers \subseteq [dec : Ids, uid : Uids]
  /\ raced \subseteq Ids /\ frozen \subseteq Ids
  /\ feeds \in 0 .. MaxFeeds /\ says \in 0 .. MaxSays /\ commands \in 0 .. MaxCommands
  /\ \A u \in Uids : rows[u].dec # 0 => decisions[rows[u].dec].state # "none"

(* A decision is what its sources make of it (reconcile): it has one, it is*)
(* withdrawn exactly when its authority is, and then holds no text.  The   *)
(* only exception is a decision whose row a transaction changed after it   *)
(* had looked it up in another (delete, update_existing, insert_decision,  *)
(* a split whose list is old), until the next reconcile.                   *)
Reconciled ==
  \A d \in Ids \ raced : decisions[d].state # "none" =>
    /\ SourcesIn(rows, d) # {}
    /\ decisions[d].state = "withdrawn" <=> Withdrawn(rows, d)
    /\ decisions[d].state = "withdrawn" => decisions[d].text = NoText

(* What a live decision serves, its text and its metadata, is the text its *)
(* authority last came with, except where the authority came by a merge    *)
(* that kept the keeper's text, or went with a row that was moved away.    *)
AuthorityServes ==
  \A d \in Ids \ frozen, u \in Uids :
    decisions[d].state = "live" /\ Leads(rows, u, d) =>
      /\ decisions[d].text = [uid |-> u, sum |-> rows[u].sum]
      /\ decisions[d].meta = decisions[d].text

(* No decision carries two active rows of one source.                      *)
OneActivePerSource ==
  \A d \in Ids : \A u, v \in ActiveIn(d) : SourceOf[u] = SourceOf[v] => u = v

Emptied(u) ==
  /\ ~rows[u].active
  /\ \A d \in Ids \ frozen : decisions[d].text.uid # u

(* What Judilibre has withdrawn for good is in the end withdrawn here, and *)
(* its text served nowhere, whatever the runs and commands that crossed the*)
(* prune: a delete that reconciled another decision than the source's is   *)
(* made good by the next prune.  A decision whose authority came without   *)
(* its text, or whose only row was moved away, is the exception.           *)
WithdrawnForGood == \A u \in Uids : <>[](u \in out) => <>[]Emptied(u)
=============================================================================

---------------------------- MODULE JudilibreFeed ----------------------------
(****************************************************************************)
(* The downloader of Judilibre (lj-sources downloader/judilibre.rs): each    *)
(* jurisdiction is scanned once, page by page, into a file that only grows,  *)
(* then the history of the service's transactions says what to fetch again   *)
(* and what was withdrawn.  The manifest is saved as the run goes; a run may *)
(* die anywhere, and the next one resumes from what was saved.  The service  *)
(* changes at any moment.                                                    *)
(*                                                                           *)
(* A date of the service is a number of transactions passed.  The history is *)
(* read from an hour before the date that was saved: what is kept here of a  *)
(* date is the number passed an hour before it.  A version of a decision is  *)
(* the number of the transaction that gave it.  A jurisdiction stands for one*)
(* of its months; the archive is scanned in the same way, but its error ends *)
(* the run.                                                                  *)
(****************************************************************************)
EXTENDS Integers, Sequences, FiniteSets, FiniteSetsExt

CONSTANTS
  Jurs,       \* jurisdictions, in the order of the run
  Decisions,  \* decisions, in the order of a scan
  JurOf,      \* the jurisdiction of each
  ScanSize,   \* decisions of a page of /scan
  PageSize,   \* transactions of a page of /transactionalhistory
  Hour,       \* bound: transactions of an hour
  MaxOps,     \* bound: transactions
  MaxFaults   \* bound: runs that die, answers of the service that are errors

JurSet == {Jurs[x] : x \in DOMAIN Jurs}
None == -1

ASSUME FeedAssumption ==
  /\ Jurs \in Seq(JurSet) /\ Decisions \subseteq Nat \ {0} /\ IsFiniteSet(Decisions)
  /\ JurOf \in [Decisions -> JurSet]
  /\ ScanSize \in Nat \ {0} /\ PageSize \in Nat \ {0}
  /\ Hour \in Nat /\ MaxFaults \in Nat
  /\ MaxOps \in Nat /\ Cardinality(Decisions) <= MaxOps

VARIABLES
  hist,   \* the transactions of the service
  line,   \* the version each decision has last in its file, 0 for none
  torn,   \* jurisdictions whose file holds a truncated member
  tomb,   \* tombstones
  disk,   \* the manifest as saved
  mem,    \* the manifest of the run
  run,    \* the run under way
  whole,  \* jurisdictions scanned to the end
  missed, \* the version of each decision the run is known to have passed over
  faults  \* runs that died, errors

vars == <<hist, line, torn, tomb, disk, mem, run, whole, missed, faults>>

Positions == 0 .. MaxOps
Month   == [here : BOOLEAN, boot : BOOLEAN, cursor : Decisions \cup {0}, got : BOOLEAN]
NoMonth == [here |-> FALSE, boot |-> FALSE, cursor |-> 0, got |-> FALSE]
Fresh   == [NoMonth EXCEPT !.here = TRUE]
Manifest == [months : [JurSet -> Month], wm : Positions \cup {None}, cursor : Positions \cup {None}]
NoRun == [pc |-> "idle", todo |-> <<>>, month |-> NoMonth, seed |-> None, from |-> 0,
          seen |-> {}, ask |-> {}, got |-> [d \in Decisions |-> 0], next |-> None, at |-> 0]

Run == [pc : {"idle", "jur", "scan", "endjur", "page", "fetch", "save"},
        todo : Seq(JurSet), month : Month, seed : Positions \cup {None}, from : Positions,
        seen : SUBSET Decisions, ask : SUBSET Decisions, got : [Decisions -> Positions],
        next : Positions \cup {None}, at : Positions]

TypeOK ==
  /\ hist \in Seq([id : Decisions, put : BOOLEAN]) /\ Len(hist) <= MaxOps
  /\ line \in [Decisions -> Positions] /\ missed \in [Decisions -> Positions]
  /\ torn \subseteq JurSet /\ whole \subseteq JurSet /\ tomb \subseteq Decisions
  /\ disk \in Manifest /\ mem \in Manifest
  /\ run \in Run
  /\ faults \in 0 .. MaxFaults

-----------------------------------------------------------------------------
(* The service.                                                              *)

OpsOf(d) == {i \in DOMAIN hist : hist[i].id = d}
LastOp(d) == IF OpsOf(d) = {} THEN 0 ELSE Max(OpsOf(d))
Live(d) == OpsOf(d) # {} /\ hist[LastOp(d)].put

Now == Len(hist)

(* The date it is, as the history will be read from it: it is later than the *)
(* one before.                                                               *)
Dates == Max({0, Now - Hour, mem.wm}) .. Now

Init ==
  /\ hist \in [1 .. Cardinality(Decisions) -> [id : Decisions, put : {TRUE}]]
  /\ \A i \in DOMAIN hist : \A j \in 1 .. i - 1 : hist[j].id < hist[i].id
  /\ line = [d \in Decisions |-> 0] /\ missed = line
  /\ torn = {} /\ whole = {} /\ tomb = {}
  /\ disk = [months |-> [j \in JurSet |-> NoMonth], wm |-> None, cursor |-> None] /\ mem = disk
  /\ run = NoRun /\ faults = 0

(* A decision is created, updated or deleted.                                *)
Change ==
  /\ Now < MaxOps
  /\ \E d \in Decisions, put \in BOOLEAN :
       /\ put \/ Live(d)
       /\ hist' = Append(hist, [id |-> d, put |-> put])
  /\ UNCHANGED <<line, torn, tomb, disk, mem, run, whole, missed, faults>>

-----------------------------------------------------------------------------
(* The scans.                                                                *)

Start ==
  /\ run.pc = "idle"
  /\ mem' = disk
  /\ run' = [NoRun EXCEPT !.pc = "jur", !.todo = Jurs]
  /\ UNCHANGED <<hist, line, torn, tomb, disk, whole, missed, faults>>

(* What the manifest has, or a month never seen.                             *)
MonthOf(j) == IF mem.months[j].here THEN mem.months[j] ELSE Fresh

(* The file is dropped where nothing was counted in it, or where it is torn. *)
Drop(j) == (MonthOf(j).cursor = 0 /\ ~MonthOf(j).got) \/ j \in torn

(* The instant the history will have to be read from, asked once before the  *)
(* first scan.                                                               *)
Seeds == IF run.seed = None THEN Dates ELSE {run.seed}

(* A decision the scans are past, or that the files have and the service no  *)
(* longer has.                                                               *)
Behind(d) == \/ disk.months[JurOf[d]].boot \/ disk.months[JurOf[d]].cursor >= d
             \/ line[d] # 0 /\ ~Live(d)
NoHistory == disk.wm = None /\ disk.cursor = None

(* A jurisdiction to scan: the state loses its month while the scan holds it.*)
(* A seed taken anew passes over what changed since the scan that was cut.   *)
Begin ==
  /\ run.pc = "jur" /\ run.todo # <<>>
  /\ LET j == Head(run.todo) IN
       /\ ~MonthOf(j).boot
       /\ \E date \in Seeds :
            run' = [run EXCEPT !.pc = "scan", !.seed = date,
                               !.month = IF Drop(j) THEN Fresh ELSE MonthOf(j)]
       /\ mem' = [mem EXCEPT !.months[j] = NoMonth]
       /\ line' = [d \in Decisions |-> IF Drop(j) /\ JurOf[d] = j THEN 0 ELSE line[d]]
       /\ torn' = torn \ {j}
  /\ missed' = [d \in Decisions |-> IF run.seed = None /\ NoHistory /\ Behind(d)
                                    THEN LastOp(d) ELSE missed[d]]
  /\ UNCHANGED <<hist, tomb, disk, whole, faults>>

(* One scanned already: its state is saved as it is.                         *)
Pass ==
  /\ run.pc = "jur" /\ run.todo # <<>> /\ MonthOf(Head(run.todo)).boot
  /\ disk' = mem
  /\ run' = [run EXCEPT !.todo = Tail(@)]
  /\ UNCHANGED <<hist, line, torn, tomb, mem, whole, missed, faults>>

(* What the service would still give of the scan, and its next page.         *)
Ahead(j) == {d \in Decisions : JurOf[d] = j /\ Live(d) /\ d > run.month.cursor}
PageOf(j) == {d \in Ahead(j) : Cardinality({e \in Ahead(j) : e < d}) < ScanSize}
Appended(j) == [d \in Decisions |-> IF d \in PageOf(j) THEN LastOp(d) ELSE line[d]]

(* A page goes to the file, then its cursor to the saved manifest; the last  *)
(* one also ends the scan, in memory only.                                   *)
Scan ==
  /\ run.pc = "scan"
  /\ LET j == Head(run.todo)
         page == PageOf(j)
         last == page = Ahead(j)
         m == [here |-> TRUE, boot |-> FALSE, cursor |-> IF last THEN 0 ELSE Max(page),
               got |-> run.month.got \/ page # {}]
     IN
       /\ line' = Appended(j)
       /\ disk' = [mem EXCEPT !.months[j] = m]
       /\ mem' = [mem EXCEPT !.months[j] = [m EXCEPT !.boot = last]]
       /\ run' = [run EXCEPT !.month = m, !.pc = IF last THEN "endjur" ELSE "scan"]
       /\ whole' = IF last THEN whole \cup {j} ELSE whole
  /\ UNCHANGED <<hist, torn, tomb, missed, faults>>

(* A page that cannot be had ends the scan of the month, not the run.        *)
ScanFails ==
  /\ run.pc = "scan" /\ faults < MaxFaults
  /\ run' = [run EXCEPT !.pc = "endjur"] /\ faults' = faults + 1
  /\ UNCHANGED <<hist, line, torn, tomb, disk, mem, whole, missed>>

EndJur ==
  /\ run.pc = "endjur"
  /\ disk' = mem
  /\ run' = [run EXCEPT !.pc = "jur", !.todo = Tail(@)]
  /\ UNCHANGED <<hist, line, torn, tomb, mem, whole, missed, faults>>

-----------------------------------------------------------------------------
(* The history.                                                              *)

(* The position a manifest says to read the history from: its cursor, or its *)
(* date.  Mutant: the date first.                                            *)
FromDate(m) == IF m.wm # None THEN m.wm ELSE m.cursor
From(m) == IF m.cursor # None THEN m.cursor ELSE m.wm

(* After the scans the seed is saved, unless a date is known already, and the*)
(* history is read.                                                          *)
Seeded == IF mem.wm = None THEN [mem EXCEPT !.wm = run.seed] ELSE mem

History ==
  /\ run.pc = "jur" /\ run.todo = <<>>
  /\ mem' = Seeded /\ disk' = Seeded
  /\ IF Seeded.wm = None /\ Seeded.cursor = None
     THEN run' = NoRun
     ELSE run' = [run EXCEPT !.pc = "page", !.from = From(Seeded)]
  /\ UNCHANGED <<hist, line, torn, tomb, whole, missed, faults>>

(* A page of transactions.  Mutant: the first is taken for one already had.  *)
OpsAfter == {i \in DOMAIN hist : run.from + 1 < i /\ i <= run.from + PageSize}
Ops == {i \in DOMAIN hist : run.from < i /\ i <= run.from + PageSize}
Told == {hist[i].id : i \in Ops}

(* The transaction that decides, of those of a decision among the first n.   *)
LastBy(d, n) == Max({i \in Ops : i <= n /\ hist[i].id = d})
Put == {hist[i].id : i \in {x \in Ops : hist[x].put}}

(* What a page asks for: the decisions this run has not fetched yet.         *)
Asked == Put \ run.seen

(* Nothing left: the date moves on.                                          *)
PageEmpty ==
  /\ run.pc = "page" /\ Ops = {}
  /\ \E date \in Dates : mem' = [mem EXCEPT !.wm = date]
  /\ disk' = mem'
  /\ run' = NoRun
  /\ UNCHANGED <<hist, line, torn, tomb, whole, missed, faults>>

(* Every decision told of, those fetched by this run too.  Mutant: not those.*)
MarkedOnce == Told \ run.seen
Marked == Told

(* The last transaction of a decision makes or lifts its tombstone; a run that*)
(* dies may leave the first n of a page done.                                *)
TombsAfter(n) ==
  LET told == {d \in Marked : \E i \in Ops : i <= n /\ hist[i].id = d} IN
  (tomb \ told) \cup {d \in told : ~hist[LastBy(d, n)].put}

Page ==
  /\ run.pc = "page" /\ Ops # {}
  /\ tomb' = TombsAfter(Now)
  /\ \E date \in Dates :
       run' = [run EXCEPT !.pc = "fetch", !.ask = Asked, !.seen = @ \cup Put,
                          !.got = NoRun.got, !.at = date,
                          !.next = IF run.from + PageSize < Now THEN run.from + PageSize
                                   ELSE None]
  /\ missed' = [d \in Decisions |-> IF d \in Put \ Asked THEN LastBy(d, Now) ELSE missed[d]]
  /\ UNCHANGED <<hist, line, torn, disk, mem, whole, faults>>

(* One decision, as it is by then; one deleted since is an error too.        *)
Fetch(d) ==
  /\ run.pc = "fetch" /\ d \in run.ask
  /\ run' = [run EXCEPT !.ask = @ \ {d}, !.got[d] = IF Live(d) THEN LastOp(d) ELSE 0]
  /\ UNCHANGED <<hist, line, torn, tomb, disk, mem, whole, missed, faults>>

(* An error is logged, and the page goes on.                                 *)
FetchFails(d) ==
  /\ run.pc = "fetch" /\ d \in run.ask /\ Live(d) /\ faults < MaxFaults
  /\ run' = [run EXCEPT !.ask = @ \ {d}] /\ faults' = faults + 1
  /\ missed' = [missed EXCEPT ![d] = LastOp(d)]
  /\ UNCHANGED <<hist, line, torn, tomb, disk, mem, whole>>

Fetched == {d \in Decisions : run.got[d] # 0}
Files == {JurOf[d] : d \in Fetched}
Filed(files) == [d \in Decisions |-> IF d \in Fetched /\ JurOf[d] \in files THEN run.got[d]
                                     ELSE line[d]]

(* What was fetched goes to the files; a month the state does not have is    *)
(* taken for a scanned one.                                                  *)
Entered(j) == [Fresh EXCEPT !.boot = TRUE]

AppendPage ==
  /\ run.pc = "fetch" /\ run.ask = {}
  /\ line' = Filed(Files)
  /\ mem' = [mem EXCEPT !.months = [j \in JurSet |->
               IF j \in Files /\ ~@[j].here THEN Entered(j) ELSE @[j]]]
  /\ run' = [run EXCEPT !.pc = "save"]
  /\ missed' = [d \in Decisions |->
                  IF JurOf[d] \in Files /\ ~mem.months[JurOf[d]].here /\ d \notin Fetched
                  THEN LastOp(d) ELSE missed[d]]
  /\ UNCHANGED <<hist, torn, tomb, disk, whole, faults>>

(* The position moves after the files.  Without a next page the cursor stays.*)
SavePage ==
  /\ run.pc = "save"
  /\ mem' = [mem EXCEPT !.wm = run.at, !.cursor = IF run.next # None THEN run.next ELSE @]
  /\ disk' = mem'
  /\ run' = IF run.next = None THEN NoRun
            ELSE [run EXCEPT !.pc = "page", !.from = run.next]
  /\ UNCHANGED <<hist, line, torn, tomb, whole, missed, faults>>

-----------------------------------------------------------------------------
(* A run dies, or an error ends it, at any moment: inside a page of tombstones,*)
(* after some appends and before the save, or inside an append, which leaves a*)
(* truncated member.                                                         *)
Writing == CASE run.pc = "scan" /\ PageOf(Head(run.todo)) # {} -> {Head(run.todo)}
             [] run.pc = "fetch" /\ run.ask = {} -> Files
             [] OTHER -> {}
Wrote(files) == IF files = {} THEN line
                ELSE IF run.pc = "scan" THEN Appended(Head(run.todo)) ELSE Filed(files)

(* The file was dropped, and the saved manifest still has its cursor.        *)
Forgotten(d) ==
  LET j == JurOf[d] IN
  /\ run.pc \in {"scan", "endjur"} /\ Head(run.todo) = j
  /\ line[d] = 0 /\ disk.months[j].cursor >= d
  /\ IF run.pc = "scan" THEN run.month.cursor < d ELSE ~mem.months[j].here

Cut ==
  /\ run.pc # "idle" /\ faults < MaxFaults
  /\ run' = NoRun /\ mem' = disk /\ faults' = faults + 1
  /\ \E files \in SUBSET Writing :
       /\ line' = Wrote(files)
       /\ torn' = torn \/ \E j \in Writing \ files : torn' = torn \cup {j}
  /\ tomb' = tomb \/ (run.pc = "page" /\ \E n \in Ops : tomb' = TombsAfter(n))
  /\ missed' = [d \in Decisions |-> IF Forgotten(d) THEN LastOp(d) ELSE missed[d]]
  /\ UNCHANGED <<hist, disk, whole>>

Work == Begin \/ Pass \/ Scan \/ EndJur \/ History \/ PageEmpty \/ Page
          \/ (\E d \in Decisions : Fetch(d)) \/ AppendPage \/ SavePage

Next == Change \/ Start \/ Work \/ ScanFails \/ (\E d \in Decisions : FetchFails(d)) \/ Cut

(* A run is started every day, and one that no error stops goes on.          *)
Spec == Init /\ [][Next]_vars /\ WF_vars(Start) /\ WF_vars(Work)

-----------------------------------------------------------------------------
(* Properties.                                                               *)

(* The position from which the history will be read again, now or by the next*)
(* run.                                                                      *)
Resume == IF NoHistory THEN run.seed ELSE From(disk)

Owed(d) == Resume # None /\ LastOp(d) > Resume

(* The ways a change is passed over: a fetch that failed or was not made     *)
(* again, a month taken for scanned, a seed that was lost; and a file torn   *)
(* under a scanned month is not read again.                                  *)
Excused(d) ==
  \/ missed[d] = LastOp(d)
  \/ Resume = None /\ Behind(d)
  \/ JurOf[d] \in torn /\ disk.months[JurOf[d]].boot

Kept(d) == line[d] = LastOp(d) /\ d \notin tomb /\ JurOf[d] \notin torn

(* A scan under way, or the one the next run makes, is still to reach it.    *)
ToScan(d) ==
  LET j == JurOf[d]
      m == IF run.pc = "scan" /\ Head(run.todo) = j THEN run.month ELSE mem.months[j]
  IN ~m.boot /\ (m.cursor < d \/ j \in torn)

(* Whatever dies and whenever, a decision the service has is in the files in *)
(* its last version, or a scan or the history is still to give it; what is   *)
(* lost is lost in one of the ways of Excused (sync_judilibre,               *)
(* judilibre.rs:69-177).                                                     *)
Covered == \A d \in Decisions : Live(d) => Kept(d) \/ ToScan(d) \/ Owed(d) \/ Excused(d)

(* A decision the files have and the service no longer has is a tombstone, or*)
(* the history is still to say so (incremental_global, judilibre.rs:559-569).*)
Withdrawn ==
  \A d \in Decisions : ~Live(d) /\ line[d] # 0 => d \in tomb \/ Owed(d) \/ Excused(d)

(* Once the service rests, run after run brings the files to it              *)
(* (incremental_global, judilibre.rs:525-633).                               *)
CaughtUp ==
  \A d \in Decisions : <>[](Excused(d) \/ IF Live(d) THEN Kept(d) ELSE line[d] = 0 \/ d \in tomb)

(* A month is marked bootstrapped when it was scanned to its end: a scan that*)
(* stops resumes at its cursor (sync_judilibre, judilibre.rs:63-68).         *)
ScanIsWhole == \A j \in JurSet : disk.months[j].boot => j \in whole
=============================================================================

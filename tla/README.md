# LibreJustice: models and proofs

LibreJustice collects French court decisions and legal texts, stores them in
PostgreSQL, has language models write a summary of each decision, and serves
them through an API, an MCP server and a web front end. This directory holds
TLA+ models of the parts of it whose correctness depends on order: several
tasks over shared queues, single-use tokens traded by several processes,
budgets booked under a mutex, staged pipelines, runs cut at any moment and
resumed from a saved manifest, several writers of one decision, migrations
applied by several binaries.

- [The system](#the-system)
- [The modules](#the-modules)
- [What the runs check](#what-the-runs-check)
- [Where the code and its comments disagree](#where-the-code-and-its-comments-disagree)
- [Bounds](#bounds)
- [Fairness](#fairness)
- [What is proved](#what-is-proved)
- [What is not modelled](#what-is-not-modelled)
- [Plan](#plan)

To check a run: `tlc -workers 2 -config SummaryBatch_all.cfg MCSummaryBatch`.
To check the proofs: `tlapm SummaryBatch_proofs.tla`.

## The system

The program is a Cargo workspace of two kinds of crates: `apps/` (binaries:
`lj-ingest` for the batch jobs, `lj-server` for the service) and `packages/`
(libraries). A daily chain (`lj-ingest/src/chain.rs`) runs its steps one after
the other, each under a watchdog that drops the step's future at a deadline
(`main.rs`, `run_with_watchdog`): downloads, ingests, summaries, publication.
The refresh of credentials (`credential.rs`) has a timer of its own, so it runs
beside the summaries.

| Component | State it keeps | Operations | Talks to |
|---|---|---|---|
| Summary batch (`lj-ingest/src/summary.rs`) | two queues of jobs, counters per job, the count of rank 0 drivers, a bounded channel | a driver pulls, calls, hands back, gives up or sends; the writer records; a signal, a store error or the watchdog ends the batch | the model pools, the store |
| Quota ledger (`lj-llm/src/ratelimit.rs`) | a bucket per key: 61 slots of a second, request counter and its minute or a pace learnt from refusals, what is in flight | reserve, observe, settle, refuse, drop, wait | the drivers, through the Mistral and Gemini clients |
| Seat tokens (`lj-llm/src/luna.rs`, `lj-ingest/src/credential.rs`, `lj-store/.../llm_keys.rs`) | the row of a seat, the tokens a client has in memory, the rotations to write back | call, refresh on a 401, flush, daily refresh, login | the provider, the store |
| Gemini pool (`lj-llm/src/gemini.rs`) | a day's count per key in memory, the store's count by key and day, parking | seed, send, note, flush the day to the store | the drivers, the service, the store |
| Judilibre downloader (`lj-sources/src/downloader/judilibre.rs`) | a manifest (months, cursors, watermark), month files, tombstones | scan a month, read the history, fetch, append, save | the Judilibre service, the ingest (files) |
| Ingest stream (`lj-ingest/src/pipeline/`) | channels between five loops, marks in the manifest | read lines, triage, embed, extract, commit, mark | the files, the store |
| Decisions store (`lj-store/src/repository/decisions.rs`, `identity.rs`) | a decision served, a row per source of it, tombstoned or not | upsert, delete, reconcile, merge, split, purge | the ingest runs, the prune, the maintenance commands |
| Migrator (`lj-store/src/migrator.rs`) | the versions recorded, the schema, a session lock | migrate, check the version | every binary |
| API, MCP, web (`lj-api`, `lj-mcp-tools`, `lj-server`, `lj-web`) | sessions, authorisation codes, caches | reads, sign in | the store |
| Parsing and rendering (`lj-parse`, `lj-norm`, `lj-chunk`, `lj-pdf`, ...) | none | pure functions | |

What is hard in each, and what makes it correct:

- **Summary batch.** Drivers of several doors (model pools) share the files
  and hand jobs back in six ways; the answer a driver brings is paid for, and
  the channel that carries it can be full, or closed by a store error or the
  watchdog while a detached driver goes on. Correct: no decision is lost or in
  two places, none is paid for twice, a clean end leaves no paid answer behind,
  doors are served in order of rank, and a stopping run ends.
- **Quota ledger.** Reservations leave by four roads, one of which is a `Drop`
  run by a deadline; the clock is read before the mutex is taken; what a reply
  says overwrites what is known. Correct: what is held back is what is in
  flight, a booking stays a window and no longer, one probe at a time, no reply
  seals a key, the wait told is the shortest that admits the call.
- **Seat tokens.** A refresh token dies when it is traded; drivers, a timer
  and an operator trade it without a common lock; the new pair is in memory
  for a time, and only there. Correct: the live token always has a way to the
  row.
- **Judilibre downloader.** The service changes between any two requests, a
  run is cut between an append and a save, an error is logged and passed over.
  Correct: what the service has is in the files, or a scan or the history is
  still to give it.
- **Ingest stream.** The triage reads a base that lags behind the batches
  under way; the bounded channels form a chain each link of which may be full;
  a cut falls between commits and mark. Correct: what is marked is served, the
  last line of a decision wins, the chain never locks.
- **Decisions store.** Several sources describe one decision; the one of
  highest rank decides, tombstoned or not. A transaction looks up where a
  source is, waits for the lock of that decision, and writes: the source may
  have moved, been withdrawn, merged or purged meanwhile. Correct: a decision
  is what its sources make of it, the text served is its authority's, and what
  a source withdraws is served no more.
- **Gemini pool.** A count is read, flushed and booked in three steps, by
  several processes, across a Pacific midnight. Correct: no request counted
  twice, a budget that covers what the process was served, a key parked only
  for a day that is spent.
- **Migrator.** Some migrations run outside any transaction, their process may
  die while the statement goes on in the server, and commands of other binaries
  check the schema without the lock. Correct: what is recorded is a prefix and
  is there, statements never cross, a command finds the schema it knows.

`PROJECT.json` names the places in the code where each of these can go wrong
(`hazards`), with the properties that would see it, and the lines each
definition of a module stands for (`map`).

## The modules

`DecisionBacklog` <- `SummaryBatch` (refinement); the others stand alone: they
meet in the store, one statement or one file at a time. Each
`MC` module gives the constants of its specification the instances the `.cfg`
files name; each `_proofs` module extends its specification and TLAPS
(`Store_proofs` extends two, `DecisionSources` and `Migrator`, both of
`lj-store`).

**`DecisionBacklog`**: what a batch promises of a decision, whoever works on
it: waiting, then paid, then written; or dropped; or lost, and then the batch
was abandoned. A closed batch owes nothing.

**`SummaryBatch`** models one batch of `backfill_summaries`. `file` is the two
shared queues (`VecDeque` under a mutex, one per shape), `pc` and `held` are
each driver task, `channel` is the `mpsc` to the writer, `ahead` the atomic
count the higher ranks wait on, `attempts` and `unavailable` the counters of a
job, `phase` how the batch ends. One action per step of `pull`/`drive`: passing
the gate, taking a job (own shape first, then the other's), each answer a door
gives (`Done`, `Busy`, `Handover`, `Unavailable`, `Failed`), the send, the
writer's `record`, the end of the last sender, a store error, the watchdog, a
signal. What a call answers is the door's business, so each answer is a choice.

**`QuotaLedger`** models the announced buckets of a Mistral pool. Time is in
ticks, several to a second, so that the width of a slot and the age of a late
clock read are visible. A bucket has the fields of the code; `Roll`, `Reserve`,
`Release`, `Observe`, `Record` are its methods, and the actions are a caller
asking with the clock it read (`Ask`, `Grant`, `Deny`), the service answering
(`Answer`, `Stamp`), and the reservation leaving (`Settle`, `Refused`, `Drop`).
Every action takes the mutex once, as the code does. `WaitFor` is `wait_for`;
the wait told is asked of it under the caller's own reading of the clock
(`:770-781`), so `WaitIsExact` is stated there, for every caller that asks and
every key it may still be denied. Two ghosts: `booked`, what
the bucket was told of, by instant, and `upset`, the keys on which a call in
flight gives back more than it took. An estimate dearer than the ceiling is
reserved capped at it (`ratelimit.rs:448-450`), and released whole
(`:477-479`): nobody notices as long as the ceiling stands, since such a call is
alone in holding tokens; once a reply has raised the ceiling, a second call may
be admitted beside it, and the first takes part of that one's reservation with
it. `InflightExact` is exact outside `upset` and an upper bound within; both the
exception and the bound come from the proof, which failed without them.

**`SeatRotation`** models the life of one seat's refresh token. Tokens are
numbered in the order they are issued; the provider trades a live one and kills
it. Clients (one per run), their drivers, the daily timer and the operator are
separate actors; `Apply` and `Push` are two actions because the code writes
`tokens[seat]` and `rotations` under two locks; the timer reads, trades and
writes in three. `spoilt` records the misfortunes after which a seat may really
be lost.

**`LearnedRate`** models the other regime of the same buckets: a token bucket
whose target is learnt from the outcomes. The target is counted in steps of
growth, tokens in shares of a call so that a tick of refill is whole, a stated
rate in steps a tick. `Admit` and `Deny` are `try_take`, `Serve` is `served`,
`Refuse` is `refused` with (`Named`) or without (`Bare`) a stated rate, `Drop`
what changes no pace. The weights of the average round trip are left open.
`told` keeps what the outcomes said: the instant to wait for, the last cut, the
last time the ceiling was met. A refusal that states nothing, past the paid
episode, sets the hold anew, even below a delay stated before; `told.wait` is
the latest instant stated since. `StatedWaitHolds` says that no call leaves
before it, and that this refusal alone lowers the hold under it: to the end of
its wall minute, and once a wall minute.

**`IngestStream`** models `ingest_judilibre` over one month file: the file
grows between runs, `cand`, `queue` and `hand` are the channels and
what each of the five loops has in hand, `db` the committed base, `marked` the
manifest. Actions are the receive, the work and the send of each loop, the
commit, the join, the mark (or its refusal when a line failed), a death
anywhere, and the next run, which starts from the mark.

**`JudilibreFeed`** models `sync_judilibre`. The service is its list of
transactions; a version of a decision is the number of the transaction that
gave it; a date is a number of transactions passed.
`disk` and `mem` are the saved manifest and the one of the run, `line` what the
files hold last of each decision, `torn` the files with a truncated member,
`tomb` the tombstones. Actions: `Begin`, `Scan`, `ScanFails`, `EndJur` for the
scans, `History`, `Page`, `Fetch`, `FetchFails`, `AppendPage`, `SavePage`,
`PageEmpty` for the history, `Cut` at any moment, also among the tombstones of a
page and between the files of one, and `Change` by the service. A jurisdiction
stands for one of its months. The history is asked for from an hour before the
date that was saved; the hour is in `Dates`, once, when the date is noted, so
that one date always means one position.

**`DecisionSources`** models the decisions of one `canonical_ref` and the rows
of `decision_sources` that carry them. An ingest run is `Triage` (against the
base as it is before the batch), `Lookup` (`upsert`: by `source_uid`, then
`find_canonical_ref_merge_target`), `Lock` and `Commit` (`apply_provenance`,
which asks whether the source leads before it writes and whether it comes first
as it writes) or `Create` (`insert_decision`, which takes no lock), and
`Rollback` anywhere. The prune is `Find` then `Delete` (`delete`); the commands
are `ReadCluster` and `MergeInto`, `ReadLosers` and `Split`, `Purge`: each reads
its list once and works through it while the others move what it names. The
advisory lock of a decision, the share lock a foreign key takes on it and the
lock of a row are the three guards `LockFree`, `Unpinned`, `RowFree`. A text is
its `source_uid` and its checksum. Two history variables name the code's own
exceptions, and each is empty again as soon as the code repairs it. `raced`
holds the decisions that lost or changed a row without a `reconcile`, until the
next one. `frozen` holds those whose authority came without its text (a merge
keeps the keeper's) or left, until an authority writes.

**`Migrator`** models `migrate`, `verify` and the deaths of both. `recorded` is
`schema_migrations`, `schema` what the DDL has left (`invalid` while a
`CONCURRENTLY` statement runs, and after one that did not end), `held` the
session lock. `ApplyOne` is a migration and its record in one transaction;
`StartDdl`, `EndDdl`, `StopDdl`, `Record` are one outside. `Crash` during a
statement leaves an `orphan`: the server goes on with it, and the session keeps
the lock until it ends. `Repair` is the operator's `DROP INDEX`.

**`GeminiDay`** models `DayBudget` in several processes over one store: `Start`
and `Seed` (`gemini_day_spent`, `seed_day`), `Send`, the service's `Serve`,
`NoteServed`, `Refused`, `Dropped`, the three steps of a flush (`DayPending`,
`Bump`, `DayFlushed`), `Stop` and `Midnight`. A flush starts when no call of
the process is in flight, because the batch has joined its drivers first
(`summary.rs:996-998`). A call is shorter than a day (the client gives up after
120 s, `gemini.rs:135`): `late` holds the keys whose call has seen a midnight,
and no second one falls under it. `own` and `lost` are history: what a process
was served on the day it counts, and the requests no count holds any more.

## What the runs check

| Run | States | Shows |
|---|---|---|
| `batch_all` | 1.06 M | every door at once (`Doors::All`), a channel of one: no decision lost or doubled, a refusal costs a job nothing, a driver takes one job at most after a signal, pays one answer at most for a receiver that is gone, and the batch implements `DecisionBacklog` |
| `batch_rank` | 78 k | doors by rank, fair: the free keys wait for the seats, a signal drains the batch, a paid answer comes to rest |
| `seat_all` | 423 k | two runs, a timer, a login: the seat survives everything but the named misfortunes; a pair on its way is private; a run that ends owes nothing; a queued pair is written |
| `quota_all` | 2.25 M | two callers of a key whose ceiling moves, over more than a window: exactness of what is in flight, of the window and of the wait told, from the clock the caller read; one probe; no key sealed; an admission fits its ceiling |
| `pace_all` | 1.29 M | two callers over three wall minutes of a key that publishes no counter: a wave of refusals cuts the target once a minute, a refused target is crossed by one step and once a probe period, no call leaves before the latest delay stated, but after a cut that sets the hold anew |
| `ingest_all` | 1.66 M | one decision, five lines, two runs: what is marked is served, a lost last line is one that goes back to an earlier text, the run ends |
| `feed_all` | 845 k | three decisions, two jurisdictions, two changes, two faults: a live decision is kept, to be scanned, or owed by the history, and a withdrawn one has or will have its tombstone, but for the named losses; run after run catches up |
| `sources_all` | 566 k | two ingest runs, the prune, a merge, an unmerge, a purge over three texts of two sources: a decision is what its sources make of it, a live one serves its authority, a text withdrawn for good ends up withdrawn and served nowhere |
| `migrate_all` | 97 k | two processes of any binaries, four migrations, one of each kind outside a transaction, deaths anywhere: recorded is a prefix that is there, statements never cross, a command at work finds its schema, a runner that waits ends |
| `day_all` | 303 k | two processes, two requests a day, a midnight: every served request counted once or named lost, no budget short of its own requests, a key parked only for a spent day |

Two more runs, `feed_scan` and `sources_one`, each check what a comment says and
find it violated (next section).

`Covered`, `Withdrawn` and `CaughtUp` have an exception, `Excused`, which lists
the ways a change is really lost by the code: a fetch that failed, a decision
already fetched in the run, a seed date lost with a cut run, a month taken for
scanned, a torn file under a month that is not scanned again. The ghost
`missed` notes each as it happens, for the version it touches; a later version
is owed anew. `SeatSurvives` and `StaleOnlyIfBack` name theirs in the same way.
They are the losses to look at when one of these components is changed. In
`DecisionSources` the exceptions are `raced` and `frozen`; `WithdrawnForGood`
says that the first never lasts where it matters, since the prune reads all of
`tombstones.jsonl` again every day.

## Where the code and its comments disagree

Two runs check a single property each, which is what a comment says, and find a
behaviour of the code that violates it.

- `feed_scan` (`ScanIsWhole`): a month whose first page failed is dropped from
  the state; the first transaction of one of its decisions enters it again,
  marked bootstrapped, and it is never scanned (`judilibre.rs:423`, `:603`).
- `sources_one` (`OneActivePerSource`): a source withdrawn, then published
  again, is revived where it was, although another text of the same source has
  taken its place there (`decisions.rs:69`). The decision then carries two
  active texts of one source; the command `unmerge` is what undoes it.

Others were met in reading and are in the models as the code has them, without
a run of their own:

- Jobs left in a batch end the whole run, because "every pool handed over"
  (`summary.rs:1000-1001`, `:1038`); a door whose driver found the files empty
  while another door held the last job has not.
- A timer told that another process refreshed first may drop the only live
  token, when a flush wrote two pairs out of order (`llm_keys.rs:170-172`,
  `:189`).
- A dropped call gives back a request the service has served, and the counter is
  that of the last reply settled, not of the last one written
  (`ratelimit.rs:477`).
- "Slots go out oldest first, so the wait is the deadline of the one that covers
  the deficit" (`ratelimit.rs:164-165`): not for a caller whose clock is older
  than another's booking of the next second. The ring has 61 slots, so the slot
  of second `now + 1` is that of `now - 60`, where the walk starts
  (`:169-178`): the newest booking is counted first, as if it were the oldest.
  The caller is then told up to 61 s although older slots come back sooner, or
  the deadline of an older slot that does not suffice alone. The wait is a hint,
  and the caller asks again after it. This one is `Overtaken` in `WaitIsExact`.
- "Floor a `retryDelay` has posted: the service's own figure holds"
  (`ratelimit.rs:253`): a refusal that states nothing, past the paid episode,
  replaces it by the end of the wall minute (`:372-374`), be it sooner. This one
  is the exception of `StatedWaitHolds`.
- A migration outside a transaction "ne fait la queue devant personne"
  (`migrator.rs:2007-2008`): `CREATE` and `REINDEX INDEX CONCURRENTLY` wait for
  the snapshots older than their own, and a runner that waits for the lock is in
  `BEGIN; SELECT pg_advisory_lock` (`:1736-1744`), with such a snapshot, while
  the one that holds the lock runs the statement. Each waits for the other until
  Postgres cuts one of them: the statement, which leaves an INVALID index
  (`StopDdl`), or the waiter, which gives up (`Crash` of a runner that waits).
- Lines A, B, A of one decision within the window of the batches under way
  leave B: the triage skips the last as unchanged (`batch.rs:146`), so the
  upsert that should catch it (`batch.rs:331-333`) is never reached. This one is
  the exception named in `StaleOnlyIfBack`.
- What the comment says of a migration outside a transaction that was
  interrupted (`migrator.rs:2004-2006`: the next run fails on "already exists",
  an operator drops the index) holds for a `CREATE`. A `DROP` (0314, 0336) that
  ended but was not recorded fails the other way, on an index that is gone; a
  `REINDEX` (0326 to 0329) simply runs again.
- `GeminiDay`: a flush that straddles midnight books yesterday's requests on
  the new day; the roll of the day drops what was pending; a seed read before
  midnight charges yesterday's count to the new day, and the measured demand
  may then call on Mistral (`summary.rs:817-822`); a refusal for the day
  answered after midnight parks the key for the whole new day
  (`gemini.rs:386`), and `day_left` then counts it as having nothing left
  "whatever the count says" (`gemini.rs:195`).
  `CountedOnce`, `BudgetSeesOwn` and `ParkedIsSpent` say how far each goes.

## Bounds

Named in the modules and given in the `.cfg` files.

- `SummaryBatch`: `MaxAttempts` and `MaxUnavailable` are 2 (3 and 8 in the
  code): a first failure and the one that gives up. `ChannelCap` is 1: a full
  channel is the interesting case, and drivers outnumber its room. Three jobs
  over two shapes let a door hand back a job of the other's shape. Symmetry
  only in `batch_all`, which checks no liveness property, between the two jobs
  of one shape.
- `QuotaLedger`: windows of 3 seconds of a tick, so rings of 4 slots. The clock
  starts at the end of the first window (3) and ends at `MaxClock` 7: a booking
  enters, is counted, leaves, and its slot is written over. No walk over the
  seconds starts at the epoch, as none does at a real date. `MaxAsks` 4 admissions: a dear call, the one
  that raises the ceiling, and one after it; `MaxSkew` one tick between the
  clock and the mutex. Ceilings of 2 and 6, or stated as zero; estimates of 3,
  above the first and under the second, or nothing. One key: the move of a
  denied caller to the next key is in the model (`Deny`), and is exercised here
  only to the end of a pool of one; the proofs are for any pool.
- `LearnedRate`: a minute of 4 ticks, a probe period of 8, `MaxClock` 12: three
  minutes, a probe and what follows it. Three calls by two callers: a wave, and
  one after it. `MaxSkew` one tick.
- `SeatRotation`: `MaxTokens` 3 pairs, `MaxLogins` 1, `MaxAged` 3: two trades
  of one chain, or one and a login, and every token may expire.
- `IngestStream`: `MaxLines` 5, `MaxRuns` 2, batches of 2, channels of 1: the
  file is longer than what the stages hold, and the second run resumes.
- `JudilibreFeed`: `MaxOps` 5, of which three create the decisions; `MaxFaults`
  2 deaths or errors; pages of one; `Hour` 1: an hour in which none or one
  transaction passed, at choice, so no property rests on that margin. Two faults
  are enough for a cut run, a torn file, and a failure of the run that repairs it.
  The whole inductive invariant of the proof was checked on this instance, on one
  with an `Hour` of 2 (2.69 M states) and on one of two decisions (674 k).
- `DecisionSources`: three `source_uid`s, two of Judilibre and one of a lower
  source, the first with two contents; `MaxId` 3 decisions, `MaxFeeds` 4
  candidates, `MaxSays` 1 withdrawal (and its reversal, as often as one likes),
  `MaxCommands` 2, two writers. Enough for a merge or a split of what a prune is
  deleting while a run writes it, and for a purge under a lookup. All four are
  bounds of the model, hence `CHECK_DEADLOCK FALSE`; the proofs hold for any.
- `Migrator`: two processes, versions 1 to 4: a plain one, a `CREATE`, a `DROP`
  and a `REINDEX`, in that order. Every binary 1 to 4 may be started by either.
- `GeminiDay`: one key of two requests a day, two processes, two days: one
  midnight, in any step. With three days the same properties hold (13.8 M
  states, too long for a run kept here; 508 k with one request a day).

## Fairness

- `SummaryBatch` (`FairSpec`): a driver's own step and the writer's are
  weakly fair: they are tasks of one runtime, and every call has a timeout.
  Nothing says that a signal, an error or quota comes.
- `SeatRotation`: a call under way ends (timeout), and a batch runs out of jobs
  and flushes. The timer, logins and starts are owed nothing.
- `IngestStream`: each loop is a task of the runtime. A run is not promised to
  start, nor to survive.
- `JudilibreFeed`: a run is started every day (`Start`), and one that no error
  stops goes on (`Work`). Faults are bounded, so a scan is not refused for ever.
- `DecisionSources`: the prune runs every day and goes through its list; a
  transaction that has its decision in hand takes the lock, commits or is rolled
  back (Postgres ends what it cannot serve). Nothing says that a run is fed or a
  command started.
- `Migrator`: a statement under way ends, in one way or another, and the lock is
  given in the order it was asked for, hence strong fairness of `Acquire`: a
  waiting session is not passed by for ever by those that come and go. A process
  may always die instead.
- `QuotaLedger`, `LearnedRate`, `GeminiDay` and `DecisionBacklog` state safety
  only.

## What is proved

By TLAPS, for every value of the constants that satisfies the module's
assumption. A proof module states its inductive invariant first; TLC has
checked its parts on the instances above.

**`SummaryBatch_proofs`.** `NoJobLost` and `NoJobTwice` are not inductive as
they stand: that a decision is in one place only survives a hand-back because a
driver holds a job exactly when it calls or sends, because a file holds only
jobs of its shape and each once, and because a job in play has passes left.
`IInv` is the conjunction of these (`FilesOK`, `HandsOK`, `ChannelOK`,
`PlacesOK`, `CountsOK`, `RestOK`): the six places partition the batch and each
action moves one decision or none. From it: `TypeCorrect`, `NothingIsLost`,
`NothingIsTwice`. With `RankInv` (the shared count is the number of rank 0
drivers not done, and stays zero once zero): `RanksAreServedInOrder`. With
`EndInv`: `CleanEndOwesNothing`. With `StopInv` (a driver that has returned, or
has lost an answer, pulls no more; past the signal no driver is armed again):
`OneAnswerLostAtMost`, and the action properties `NoSecondTake` and
`RefusalsAreFree`. `BatchImplementsBacklog` maps each step to a
step of `DecisionBacklog` or a stutter, through the status of the one decision
that moves.

**`SeatRotation_proofs`.** `AInv` says who may know a pair before the row does:
one in a driver's hands, queued, or in a timer's hands is known to nobody else,
and a timer whose version still stands has read the token that stands. It gives
`TypeCorrect`, `EndedRunsOweNothing`, `PairsArePrivate` and
`RotationsReplaceDead` (an action property). `BInv` adds, while nothing is
spoilt, that queues are in order, that the last pair a run has on its way is
live, and that the row's token is live or something on its way covers it; it
gives `SeatIsNeverLost`.

**`QuotaLedger_proofs`.** The invariant has three parts. *Calls*: what
`inflightReq` counts is the reservations alive, whatever the replies say,
because `Grant` alone takes one and `Settle`, `Refused` and `Drop` alone give it
back (`RequestsNeverLeak`); hence one probe at most (`OneProbeAtATime`), an
informed bucket never becoming uninformed. *Tokens* (`TokensKept`): `inflight`
is the sum of what the live calls hold; a call that holds less than its estimate
took the whole ceiling and is alone in holding any, so the estimate it gives back
takes from nobody, until a new ceiling upsets the key (`TokensNeverLeak`).
*Slots* (`SlotsOK`): a slot holds what one second booked, the latest of those
that share it. That a caller's instant is a second old at most (`Clocks`, from
`MaxSkew`) makes the reuse of a slot safe: a booking that finds it held is of
the same second, one that finds it released is the first of its second. The
sum of the slots held is then between the sums of what was booked over the two
windows that `HeldForTheWindow` names (`BookingsAreHeld`), and at the instant
`wait_for` returns enough slots are released and no instant before
(`WaitsAreExact`), since the slots held are released in the order of the walk.
That order needs two facts about a caller's reading: it is past the first window
(`Started`, an invariant of its own), and nobody has booked the second after it.
Without the second the slot of that booking is met first (`RingIs`), under the
second that is a window older; what is proved then is that the wait is at most a
window and the age of the reading. From these, `NoKeyIsSealed` and `AdmittedUnderTheCeiling`, an
action property.

A sum here is a fold over a finite set. The library's induction over finite sets
cannot be instantiated by these provers; `OneLess` replaces it: what fails for
some subset fails for a least one, by the well-foundedness of strict inclusion,
and there one element can be taken out. `GeminiDay_proofs` sums in the same way.

**`Store_proofs`**, on `DecisionSources`. `Reconciled` and `AuthorityServes` are about what
is committed, and are not inductive: a run that holds a decision has asked
whether its source leads, and will write on the strength of it. `LeadStands`
says that the answer still holds when it commits, because whoever could change
it needs the same lock, but for rows that leave the decision (`frozen`).
`LocksHold` says that two runs hold different decisions and different rows and
that a decision held is there, `WithdrawnByAuthority` that a decision outside
`frozen` is withdrawn by its authority even while it is `raced`. From these:
`TypeCorrect` (with the foreign key), `DecisionsFollowSources` and
`AuthorityIsServed`, for any sources, ranks, runs and bounds. The order of
authority is shown to have one first element at most (`OneLeader`); no
finiteness is needed.

**`Store_proofs`**, on `Migrator`. `Exclusive` (the lock is held by the process in its
steps, alive or not), `TodoIsPending` (what it read under the lock is still what
is pending), `InHand` (what it runs, and what is done before it records) and
`VerifiedStands` (a base at a binary's version stays at or above it) make
`Ladder` inductive. It gives `NoHoleUnderAMigration`, `CommandsHaveTheirSchema`
and, as an action property, `StatementsNeverCross`.

**`GeminiDay_proofs`.** `BudgetSeesOwn` rests on `InTheStore` (what a process
was served on the day it counts is in the store or pending), `CarriesAll` (a
flush carries all that is pending, and it stays so until booked) and
`CallsInRuns` (no call is noted while a flush is under way). It gives
`TypeCorrect`, by which no flush leaves a count negative, and
`BudgetNeverShort`. This is where the joining of the drivers before a flush is
used: with a call in flight across it the invariant would fail. `EveryRequestOnce`
(`CountedOnce`) is an account: each step moves requests of one process between
what the service counted, what the store holds, what the process has and what is
lost, so that the sums over days and over processes change at one place each.
`ParkedOnlyWhenSpent` adds that an answer that refuses a key for the day was
given when that day, or the one that ended under it, was all served
(`RefusedIsSpent`), and that no key is out for longer than the night
(`ParkedOverNight`). It is here that a call must be shorter than a day.

**`LearnedRate_proofs`.** Three facts relate what the outcomes said (`told`) to
the bucket: the hold is never short of the wait asked for (`WaitIsHeld`), the
next probe is a period after the ceiling was last met (`MetOnce`), and the
episode that was paid ends with the wall minute of the last cut (`CutIsPaid`).
With an instant read late, "the same minute" is a comparison of two roundings;
the lemma `BoundaryIsLater` settles it. From them the action properties
`WavesCutOnce`, `CeilingsAreProbed` and `OnlyACutLowersTheHold`; the last says
with which step a call may leave before an instant that was stated, and that it
comes once a wall minute.

**`IngestStream_proofs`.** `MarkedIsServed` says nothing of a run under way.
`LastIsOnItsWay` does: the last line read of a decision gives it a text that is
in the base, or the line is in a channel, in the batch being filled or in a
hand. The triage keeps it so because it drops of two lines the earlier one
(`InOrder`: candidates are in the order of the file, across channel and batch),
or a line whose text the base has. When every loop has returned nothing is on
its way, and the mark is made on that. It gives `TypeCorrect`, by which no
channel holds more than its room, and `MarkedLinesAreServed`, for any file,
batch and channels.

`StaleOnlyIfBack`, which says which text is served, needs the order. The places
of a line are numbered from the writer's hand up to the producer's channel, and
no line overtakes an earlier one of the file (`FileOrder`), a batch has one line
of a decision (`OneEach`), and the text in the base was there when the run
started or is that of a line of the run before all those still on their way
(`Origin`). Then (`LastWins`) the last line of a decision is on its way, is in
the base with no other to come, or was dropped by the triage for the text the
base held at that moment, and so goes back to an earlier text. The mark finds
nothing on its way: `StaleOnlyIfTheTextGoesBack`, an action property.

Of `RunEnds` the two halves that are not liveness are proved. `RunsNeverLock`: a
run under way always has a loop that can go on (`GoesOn`, the guards of the
actions that `Fairness` names), for any rooms of the channels: were none able
to, the writer's hand would be empty, then its channel, and so up to the
producer, which would have nothing left to read. `RunsAdvance`: each step that
leaves the run under way makes `Load`, a natural number, smaller; it weighs a
line or a batch the less the further down it is, so no loop can go round. What
is left to TLC is the inference from the two, under weak fairness.

**`JudilibreFeed_proofs`.** `Covered` speaks of the run under way and of the
manifest as saved, and neither is enough: a run that dies leaves the second.
`SavedCovers` says of every live decision what the saved manifest would have the
next run do, if this one died now: it is in its file, or owed by the history, or
excused, or unscanned in the saved month, or forgotten by a scan that dropped
its file (which `Cut` then notes). `Manifests`, `Past`, `Phases` and `Scanning`
say how the two manifests, the month in hand and the positions relate. For the
history, `PageDone` says that what the position is about to move past is done:
told of and passed over, still to fetch, fetched in its last version, or in its
file; a deletion is in the tombstones. `TombsOwed` says that a tombstone of a
decision the service has again will be lifted by a transaction past the page
being read, or `Kept` would fail at the save; `TornIsScanned` that a torn file
belongs to a month scanned already or still on the run's list. From these
`NothingIsPassedOver` (`Covered`), `WithdrawnIsMarked` (`Withdrawn`) and
`FeedTypeCorrect`, for any jurisdictions, decisions, page sizes and hour. The
greatest of a finite set of positions exists because one has the fewest above
it. The attempt found that the model drew the length of the hour anew each time
the history was read; a date now keeps the position it stands for.

Every invariant and action property of the passing runs is proved. Only
model-checked:

- liveness (`StopDrains`, `PaidIsSettled`, `QueuedIsWritten`, `RunEnds`,
  `CaughtUp`, `WithdrawnForGood`, `WaitsEnd`), which is beyond this prover; for
  `RunEnds`, only the step from `RunsNeverLock` and `RunsAdvance` to it.

## What is not modelled

`PROJECT.json` lists every component with its reason. In short: what prompts,
parsers, embeddings and renderers compute (pure functions over texts, under
golden tests); single SQL statements, whose atomicity is the database's; read
paths; deployment. Within the modelled components:

- *Summary batch*: the choice of batches, the number of drivers computed from
  the demand, the commentary upgrade, which runs the same drivers.
- *Quota ledger*: the moving averages, the jitter of wake-ups, dead keys; of the
  learnt pace, fractions of a step of growth (a cut rounds down).
- *Seat tokens*: parking, the order of the seats, usage counts.
- *Ingest stream*: the other producers, runs without embeddings, the backfill
  of source XML.
- *Judilibre downloader*: several months of a jurisdiction, the archive (the
  same scan, whose error ends the run: a `Cut`), the undated bucket,
  compaction, a decision that changes month, a torn line of the tombstones file.
- *Decisions store*: other `canonical_ref`s and languages, transactions of
  several decisions (a batch holds the locks of all of its own: see the hazard
  at `batch.rs:50`), the guard on `extract_version` (`decisions.rs:266-267`),
  the satellites of a decision (citations, parties, chunks), `resplit` and
  `rekey`. `Purge` and each half of `Split` are one step each. The losers of a
  cluster are merged in any order.
- *Migrator*: the second series of `apply_migrations_with`, the SQL of the
  migrations, the time limits.
- *Gemini pool*: `day_left` and the choice of Mistral it makes, the order of the
  keys, the parsing of refusals, more than one call in flight per key and
  process.

Not modelled, though it has state: the PISTE bearer (`piste.rs`), one cached
token under a mutex, where a late 401 of an old bearer drops a fresh one at the
cost of one more request; the chain and its watchdog, whose cut is an action of
the models it can cut; the caches and limiters of the API, whose state is in
libraries. The legal texts (`referential.rs`, `lj-api/src/legi.rs`), the other
ingest pipelines and the extractors are by far the larger part of the lines.
They are pure functions over texts, or single statements in the order of a
file: there is no order of events in them to check, and their lines are outside
the share `map` covers.

## Plan

What is left, in order:

1. A composition of `JudilibreFeed`, the prune of `DecisionSources` and
   `IngestStream`: the prune runs at the start of the ingest
   (`opendata.rs:291`), which may then read a line of a withdrawn decision.
2. A batch of several decisions in `DecisionSources`, whose locks are taken in
   the order of the file, beside a merge that takes two in the order of ids.
3. In the proofs: that the exceptions are tight where the code repairs them
   (`raced` and `frozen` empty again after a reconcile and a write).

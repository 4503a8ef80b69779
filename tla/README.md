# What's on the river: a verification project

TLA+ models, model-checking runs and machine-checked proofs for the API of
`whatsontheriver-v2`: a collector in a cabin on the Mississippi hears vessels
(AIS) and polls locks, posts what it observes to a FastAPI service over
Postgres, and the service answers "where is everybody", "when does the next tow
come by", "what is the lock doing". All paths below are relative to the
repository (`src/`).

`PROJECT.json` is the machine-readable side of this file: components, runs,
mutants, the map from every definition to the lines it models, findings,
hazards and theorems.

## 1. Inventory

### The system

```
 cabin collector --POST /ingest (HMAC, batches, resent until 200)--> api/main.py
                                                                       |  one transaction per batch
      telemetry_raw   vessel_position   lock_status_observation   vessel_current_state   lock_live_state
                                                                       |
   GET /live-positions  /next-vessel  /vessel-eta  /lock-status  /replay  /vessel-profile  ...
        | projections.py   next_vessel.py   vessel_eta.py            replay.py ...
        +- vessel_speed.py: process-wide cache + vessel_speed_profile table
```

One process (one container instance), one event loop, a pool of ten
connections. Handlers interleave at every `await`, that is between any two SQL
statements. Postgres runs at its default, READ COMMITTED: every statement has a
snapshot of its own, so no handler that issues two queries sees one state.

### Components

| component | code | state | operations | talks to |
|---|---|---|---|---|
| ingest endpoint | `api/main.py:757-949`, `schema/`, `migrations/` | the five tables above and `sources` | `ingest`, `write_event`, `admin_prune`, `admin_restart`, startup migrations | the collector (requests, retries); all readers (tables) |
| collector | external, `collector/SPEC.md` | its spool | send, resend, drop on 200 | ingest |
| live positions | `api/main.py:281-352`, `api/projections.py` | none but the answer in the making; the transit-table cache | `live_positions`, `get_dead_reckoned`, `compute_projected_tiers` | tables, speed profiles |
| speed profiles | `api/vessel_speed.py` | `_cache`, `vessel_speed_profile` | `ensure_fresh`, `refresh`, `lookup` | live positions |
| next vessel | `api/next_vessel.py` | the answer in the making | `build`, `find_best_at_lock`, filters, ETA block | tables |
| vessel ETA | `api/vessel_eta.py` | the answer in the making | `build`, `_project_leg`, tiers | tables, `next_vessel.py` helpers |
| lock status | `api/main.py:377-475, 670-755` | the answer in the making | `_compute_lock_status_data`, `_find_current_lockage`, `_find_last_cleared`, `_compute_flag` | tables; river pulse calls it |
| transit table | `api/projections.py:200-312` | one-hour cache of medians | `_build_empirical_transit_table` | live positions |
| river pulse | `api/river_pulse.py` | the answer in the making | `surface_score`, `lock_pressure`, `compose_reason` | tables, lock status |
| replay | `api/replay.py` | the answer in the making | `build`, `_load_lock_clearances`, `_build_simulated_segments` | tables |
| vessel profile | `api/vessel_profile.py` | none | `_mark_shuttles`, `build` | tables |
| vessel track | `api/vessel_track.py` | none | one query | tables |
| photo submissions, signup | `api/main.py` | one table each | one INSERT each | - |
| admin reads, exports | `api/main.py` | last-error strings | read only | - |
| edge worker, container | `worker/` | - | routing | the API |
| queue pipeline | `ingest/`, `api/worker.py` | SQS | publish, consume | not in the deployed image (`Dockerfile`) |

### What is hard here, and what correct means

* **Retries against a store.** A batch is resent until a 200 arrives, so every
  batch may arrive twice, at once, after its commit was lost, or next to a
  batch that shares events with it. Correct: each event has its rows once; what
  was acknowledged is stored; a batch is stored whole or not at all; every
  acceptable batch is acknowledged in the end.
* **Several writers of one live row.** Batches lock live rows in the order of
  their events. Correct: the live row is the newest archived report of its
  subject and never goes back; a clock that is far ahead cannot block it;
  crossing lock orders end.
* **Answers made of several snapshots.** Vessels are reported, lock through and
  grow older between the queries of one handler, and what is stored meanwhile may
  have happened long before. Correct: nobody is in two
  tiers or in none, a passage is one entry, the tow in the chamber is shown,
  nothing in an answer lies after its date, markers do not jump back.
* **A cache in front of an expensive refresh.** Requests overlap it, it fails
  half way, the process restarts, keys enter and leave the sample. Correct: who
  gets past it reads a fresh profile of every key that stayed in it, and nobody
  hangs.
* **Arithmetic with edges.** Windows that must meet without a gap or an
  overlap, bands that must stay in order, eleven thresholds in one chain of
  early returns.
* **History put together from rows.** Lockages are stored late, out of order or
  never, a big tow has one row per cut, and a leg is a pair of rows that need
  not lie in the same window. Correct: a time or a leg in an answer is one that
  a boat really went, a leg she went is in the answer, fast algorithms (two
  pointers, bisection, a LEAD over a partition) find what a comparison of all
  pairs finds.

`PROJECT.json` lists 40 such hazards at their lines, each with the properties
that would catch it and, where these catch a part of it only or none of it, with
what is left and why.

## 2. Modules and how they correspond to the code

| module | models | one action is |
|---|---|---|
| `IngestStore` | `POST /ingest`, `write_event`, prune, restart, over Postgres' transactions and locks | one SQL statement, a commit, a fault |
| `TelemetryLedger` | what the collector is promised: an abstract specification | a batch recorded, acknowledged or forgotten as a whole |
| `IngestStoreProofs` | eight theorems about `IngestStore`, one of them that it implements `TelemetryLedger` | |
| `LivePositions` | `GET /live-positions`, three tiers | one query, or a report, a departure, time |
| `LivePositionsProofs` | five theorems about `LivePositions` | |
| `SpeedProfiles` | `vessel_speed.py` as live positions calls it | one query, row lock, commit, cache write |
| `SpeedProfilesProofs` | two theorems about `SpeedProfiles` | |
| `NextVessel` | the walk of `next_vessel.py` for one user and one way | one query about one tow, or a tow locking through or heard |
| `ArrivalBlocks` | the blocks of its answer: live estimate and arrival band of the first few tows; EXTENDS `NextVessel`, uses `EtaBands` | one query of one block |
| `NextVesselProofs` | five theorems about `NextVessel` and `ArrivalBlocks` | |
| `VesselEta`, `EtaBands` | `GET /vessel-eta`; the arithmetic of its bands | one query of one leg, or a position coming in |
| `EtaBandsProofs` | lemmas on the bands, for `VesselEtaProofs` and `NextVesselProofs` | |
| `VesselEtaProofs` | four theorems about `VesselEta` | |
| `LockStatus` | `GET /lock-status` for one lock | one query, or a tow entering, leaving, being stored |
| `RiverPulse` | `GET /river-pulse` around the handler of `LockStatus`, which it EXTENDS | the count of vessels, or what `LockStatus` does |
| `LockStatusProofs` | six theorems about `LockStatus` and `RiverPulse` | |
| `Lockages` | a chain of locks, boats locking through it in both ways and in cuts, and the rows stored of it | a boat locking through, a row being stored, time |
| `TransitTable` | the medians between neighbouring locks and their one-hour cache, over `Lockages` | the check of the cache, the query, the store, a restart |
| `Replay` | `GET /replay` for one vessel, over `Lockages` | one query, or a position coming in |
| `VesselProfile` | the algorithms of `GET /vessel-profile`, over `Lockages` | (a function of the stored rows) |
| `VesselHistory` | replay and profile over one river | what `Replay` does |
| `LockageProofs` | eight theorems about `TransitTable`, `Replay` and `VesselProfile`, all over `Lockages` | |
| `MC...` | small instances of the above for TLC | |

**IngestStore.** A *slot* is a connection running the handler once. `Send`
(the collector), `Reject`/`Admit` (size, signature, clock skew, the `sources`
row), `Begin`, then for each event `InsertRaw` or `SkipStored` (the
`ON CONFLICT` tag), `AppendRow` (`vessel_position` /
`lock_status_observation`), `Upsert` (the live row and its `WHERE newer`), then
`Commit` and `Reply`. `raw`, `copies` and `live` are the committed tables;
`txRaw`, `txCopies` and `txLive` what an open transaction has written and
therefore holds locked. A statement whose key or row another transaction holds
is not enabled; a cycle of waits enables `BreakDeadlock`. `Fail`,
`CommitUnseen`, `GiveUp` and `Restart` are the faults, `Prune` the maintenance
endpoint. `ClampNever`, `NewerAlways` and the other definitions commented
"Deviation" are the mutants that show the properties bite.

**LivePositions.** `ReadLive`, `ReadNames`, `ReadReckonable`,
`ReadDepartures`, then `Project` per tow and `Reply`; `live`, `heard`,
`reckoned`, `due` and `markers` are the locals of the handler. `whole` is FALSE
when the projection raised and the handler went on without it. `shown` keeps
the marker of the answer before.

**SpeedProfiles.** `checked` is the `now_t` of `ensure_fresh`, `stamp` the
`now` of `refresh`, `todo`/`wrote` its loop. `Scan` are the two full scans, of
which the second decides which keys have a profile; `Begin` is the `now` of
`refresh` and its `BEGIN`, some time later. The cache entry is written (`Mark`)
after the commit, so overlapping requests recompute too. `since` says since when
a key has had enough readings, or that it has not: `Resample` takes it out of the
sample or in. No statement deletes a row, so the row of a key that left stays.

**NextVessel.** `Ask`, `Pull` (the departures at one lock), `Check` (already
passed?) per departure, `CollapseCuts`, `Rate` and `Confirm` per candidate,
`Walk` to the next lock, `Reply`. `rated` is `all_candidates`. `LockThrough` and
`Hear` are a lockage and a position being stored, with any end or time up to now:
the collector spools what it cannot send, and the lock feed is polled. So a row
may come in, during a request, that is older than the request, and a position
that is newer than the one before and still old; one older than the newest
changes no answer and is no step. `known` (what was stored when the request
came) and `heard` (every position that has been a tow's newest since then) are
history, for the properties only.

**ArrivalBlocks.** When the walk is over, `Estimate` takes the next tow of the
list and asks for her live estimate (`build_live_estimate`), `Arrive` asks for
her position once more and fixes the band (`compute_antenna_verified_bands`, or
the times of the lock feed); `blocks` is the answer. It takes `NextVessel`'s
actions as they are and adds what a reply must wait for.

**RiverPulse.** `CountBoats` is the first query; then the actions of
`LockStatus` run as the handler does that awaits `_compute_lock_status_data`;
`Answer` is its reply, or its failure, which the pulse survives. A line of the
pulse is the set of things it names: kinds of boats or that there are none, a
tow tied up, a queue, or that the locks are clear (`SurfaceReason`,
`LockReason`, `Says`). Of the other five locks there are the sum of their scores
and whether one has a tow in the chamber or a queue (`Rests`).

**TransitTable.** `Ask` is the look at `_empirical_transit_cache`, `Read` the
query, `Keep` the assignment of data and time, `Reply` or `Fail` the end of the
call. `cache` holds a scan with the time it is kept under and, as history, the
time it was taken; the table itself (`Hops`, `Entry`, `LegInfo`) is a function
of the scan.

**Replay and VesselProfile.** `AskReplay` takes the clock, then `ReadPositions`,
`ReadLockages`, `Finish`; `awaits`, `clock`, `seen` and `known` are the locals;
`KeptOf`, `Capped`, `Collapse` and `Segments` are the loops of the handler as
functions of what it read. `VesselProfile` follows `left` and `right` of
`_mark_shuttles` row by row and `bisect_left` by what it finds.

**VesselEta.** `FindLockage`, then for each leg `ReadKind`
(`_is_commercial_tow`), `TryLive`, `TryReckoned`; `legs` is the answer.
`EtaBands` has the bands with integers: tenths of minutes and miles, half miles
per hour. The code computes with floats and rounds at the end; so every time of
the model is one fraction, rounded down once, and what the code compares before
it rounds (the larger of two late times, the own speed with the typical range)
is compared as speeds or fractions. Rounding every step of the way would bring
times out of order that the code keeps in order.

**LockStatus.** `Ask` takes the clock, `ReadLockages` and `ReadQueue` are the
two queries; `Current`, `Cleared` and `Flag` are the three functions. `Answers`
is the set of answers the order of rows may produce.

### Abstractions

* Python's clock and Postgres' are one clock.
* A payload is an event name with a type, a subject and a claimed time; the
  ones no statement can take are the set `Malformed`, the batches whose HMAC
  verifies the set `Signed`.
* The river is a line of miles; positions to miles and back is floating-point
  geometry and stays outside. Pace and median of a leg are constants, course
  and speed of a row one field in `LivePositions`.
* Names are identities: the fuzzy match of AIS and lock names is not modelled,
  except that in `LivePositions` a vessel may be heard without a name.
* The lookback windows of 30 and 45 days never matter in the few ticks modelled
  and are left out; so is the table lock of VACUUM.
* `NextVessel` and `LockStatus` have one way of travel or one lock per request;
  the code runs the same function for each, one after the other. The other locks
  of the pulse are a constant of what they add to the score and to the line; they
  do not change while a pulse is under way.
* The two scans of a speed refresh are one step: the first one, of the lockages,
  decides what a profile says and not which profiles there are.
* In `ArrivalBlocks` the straight distance to the user and the distance along
  the river are one, every position has a speed and a course, and the note on
  the Red Wing terminal is left out.
* In `Lockages` no two lockages of one name end at the same instant: SQL leaves
  the order of such rows open, and nothing more is claimed of it here.
* In `Replay` every position of the vessel is in range of its receiver, a leg is
  always on the channel, and the cap on the number of vessels is left out. The
  locks of `SIM_LOCKS` are neighbours, as they are on the river
  (`TowAssumption`). `LegsAreReal` is stated for a name that is one boat's
  (`NameIsHers`), with every lockage of the time in question stored
  (`NothingMissing`), and for a boat that does not come back from beyond the last
  of `SIM_LOCKS` within the dedup gap (`NeverSoonBack`): the collapse would take
  her two visits for the cuts of one, and the stay beyond for part of the leg
  before.

## 3. Runs

All passing runs check for deadlock.

| run | configuration | shows |
|---|---|---|
| `ingest_safety` | 2 slots, 3 batches sharing an event and locking two vessels in opposite orders, a malformed payload, a time far ahead, prune, 1 fault | `WrittenOnce`, `AckedIsStored`, `BatchAtomic`, `LiveIsNewest`, `FutureBounded`, `SeenNeverGoesBack` |
| `ingest_retries` | the crossing batches and the shared event, 1 fault, no prune, fairness | refinement of the ledger (`KeepsLedger`), `Delivered`, `RequestsEnd` |
| `live_positions` | 2 vessels (one heard without a name), 2 locks, 1 report, 1 departure, 5 ticks | `NeverLiveAndProjected`, `NobodyLost`, `MarkerNeverGoesBack` |
| `speed_profiles` | 2 requests, 2 keys of which one was in the sample long before, one change of the sample, 1 fault or restart, fairness | `ServedIsFresh`, `RequestsEnd` |
| `next_vessel` | 2 tows, 2 locks in a chain, requests down the river at tick 2 of 3, up to 3 rows stored at once or late, of which up to 2 are positions, of five kinds; lockages both ways and of two sizes at the near lock | `OneEntryPerPassage`, `BlocksInOrder`, `HeardIsUsed`, `DueIsAnswered` |
| `vessel_eta` | the constants of the code, the vessel above, between and below the checkpoints, positions of age 0, 5, 120, 125 minutes, 2 reports | `BandsInOrder`, `RecentIsUsed`, `CheckpointsInOrder` |
| `lock_status` | a double-cut tow, a medium one and a pleasure craft, observed twice in any order; two tows or one boat on the water; the other locks idle, flagged without a row, or queued | `WhoIsInsideIsShown`, `BusyIsExplained`, `WorseIsNeverCalmer` |
| `transit_table` | a big boat in two cuts and a small one at two locks, 3 lockages, 2 overlapping requests, restarts | `ServedIsRecent`, `TimesAreReal` |
| `vessel_history` | a double-cut tow in the middle of four locks of which replay knows three, up to 5 lockages and 1 position, 3 and 2, or 4 positions alone, 9 ticks, a cap of 2 points | `PointsKeepUp`, `LegsAreReal`, `LegsAreShown`, `EveryProfileIsRight` |
| `ingest_prune`, `real_fix`, `stale_trip` | | counterexamples, see section 6 |

**Why the bounds are enough.** Every property speaks of at most two requests or
vessels at a time, so two of each are there, with every order of their
statements. The numbers were chosen so that what a window or a limit is about
happens on either side of it: claimed times within and beyond the clamp; ages in
each tier and, in `vessel_eta`, exactly on its edges; departures inside and
outside the windows; a batch of the largest legal size; speeds below the
minimum, below and above the typical range. One fault suffices to show that a fault at any
statement is harmless, because what it leaves behind is a state without the
request, and two slots keep another request running through it. Two runs have a state
constraint (`Bound`).

In `next_vessel` requests come down the river at tick 2, when a small tow from
the nearest lock may be too late to wait for, and one more tick may pass between
two queries. The model keeps no time at which a row was stored, so what is stored
before the request is stored then, with any end or time up to it; what is stored
during the request has any time up to now. Three rows are there: three cuts of
one passage of which any may be missing from the answer or come late, two
lockages of one tow or of two and a position, or one lockage and two positions,
one replacing the other between any two of the five look-ups of it. Three
lockages are of one tow at one lock, big tows and turns at the near lock only.
The five positions are one on her way at either of two miles, one without a
course, one the other way and one past the user. Positions of a tow without a
lockage and a clock that goes on when nothing comes in any more are left out
(`Relevant`): they change no answer. In `stale_trip` there is no `Bound`.

In `vessel_history` the window is 7, a leg takes at most 3, cuts lie within 2 and
so does the cadence. Five lockages of a tow that starts between locks 2 and 3 are
two legs, with a second cut at either end of one, and a turn within and beyond
the gap; lock 4 is beyond those replay looks at. Three of them with two positions,
heard from tick 7 on and so within a cadence of each other or just not, let a
name, or the class, be in a position that is thinned out or in one that is kept. With four positions and a cap of two
an answer without thinning has points too close. Histories of more than three
lockages begin at tick 2, requests come at tick 8 or 9, once she was heard, and
two lockages at most are not stored yet (one, after she was heard). Out of the
run's reach is `NeverSoonBack`: a return from beyond the last lock takes seven
lockages here, so that condition of `LegsAreReal` is used by the proof alone.

`lock_status` has one length of the queue: what it checks is proved for all. In
`speed_profiles` one key was in the sample for longer than a TTL and may leave
it, the other may come in; `ServedIsFresh` is about the first as long as it
stays.

Each property has a mutant in `PROJECT.json`: a plausible bug in the code it is about, with
which the same run finds it violated; that is how we know the case happens
within the bounds.

**Fairness.** `IngestStore`: weak fairness of each handler (the event loop runs
every coroutine whose answer has come), of the deadlock detector and of the
collector's retry; strong fairness of the two statements that take locks, at
each position of a batch, because a waiting statement is woken when the lock is
released, long before the aborted batch comes again. In `ingest_retries` the
shared event stands last in both batches: with it in the middle, two batches
could deadlock now on the unique key and now on the live row and be retried in
step for ever, which no assumption about the scheduler excludes.
`SpeedProfiles`: strong fairness of each request's work, because row locks are
granted in turn, and weak fairness of the deadlock detector. Nothing assumes
that requests come, that faults happen or that they stop; faults are bounded
by `MaxFaults`.

## 4. Proofs

TLAPS checks 38 theorems, each for every value of the constants that meets the
named assumptions; TLC evaluates those assumptions on every run. Of the
properties of the passing runs 34 are stated by a theorem. The inductive
invariants were checked by TLC on the instances of the runs first.

* **`IngestStoreProofs`**: `TypeCorrect`, `EachEventWrittenOnce`,
  `AcceptedIsStored`, `BatchesAreAtomic`, `LiveRowsAreNewest`,
  `LiveRowsAreNotFarAhead`, `LiveRowsNeverGoBack`. The properties themselves
  speak of committed rows only and are not inductive, since a commit installs
  whatever the transaction holds. The inductive invariant `IInv` therefore says
  what is true between any two statements: `KeyInv` (the unique index is a lock:
  whoever holds an uncommitted raw row is alone with it; a transaction owes
  domain rows for its current event only), `BatchInv` (events before the
  current one are stored or held; a transaction at its commit has dealt with all
  of them), `LiveInv` (a held live row is held once, no older than the
  committed one, and covers every finished event of its transaction). `TypeOK`
  comes first and alone, then each group uses those before it.
  `IngestKeepsLedger` is the refinement, under the hypothesis `PruneAges = {}`
  (nobody prunes; with a prune it is false, section 6). The mapping shows raw
  rows, live rows and the spool; only a commit and the receipt of a 200 change
  them. `CommitRecords`: a commit records exactly what the batch lacks, by
  `BatchInv` all of it, and moves the view to the newest recorded time
  (`ViewIsNewest`, from `LiveInv`). `ReplyAcknowledges`: the batch of a 200 that
  is still awaited is recorded. Everything else is a stutter.
* **`LivePositionsProofs`**: `TierInvariant`, and from it `LiveIsNotProjected`
  and `QuietVesselsAreAnswered`. The three tiers are read by different queries,
  so the invariant (`TierType`, `RowInv`, `HeardInv`, `QuietInv`) says what each
  tier read so far says about the rows as they are now. The one arithmetical
  assumption is `Fresh + Patience <= DeadReckon`: a vessel too old for the live
  tier when it was read must still be inside the dead-reckoning window when that
  is read, at most `Patience` later. With `Patience` one tick larger, TLC finds
  `NeverLiveAndProjected` violated.
  `MarkersNeverGoBack` has two parts. `PlaceMonotone` is about the arithmetic:
  `PlaceAt(dep, row, t)`, where a marker made for the clock `t` stands, is
  monotone in `t` along her way, because each of its parts is: the hop
  (`ProgressMonotone`, over the interpolated, the grace and the frozen branch
  and their boundaries), the override by a report (`RealMonotone`) and the hold
  at the edge of the reception circle (`HoldMonotone`). `MarkInv` is about the
  handler: a marker in the making was made for the clock of this request, one
  that was shown for an earlier clock. `PositionsAreTyped` needs `CountInv`
  besides, which bounds the counters.
* **`EtaBandsProofs`**: no theorem, but the arithmetic of a band. `FractionOrder`
  (rounding down keeps the order of fractions) gives `TimeOrder`, and from it
  `FasterIsEarlier` and `FartherIsLater`; `LiveBandHolds`,
  `ReckonedBandInOrder` and `ScaledBandHolds` say that a band is in order, the
  `...Farther` lemmas that no time of it is earlier for a longer leg. That the
  early time is before the middle one is proved for all bands but the reckoned
  one, where it is false (section 6).
* **`VesselEtaProofs`**: `TypeCorrect` and `BandsAreInOrder`, whose invariant
  adds that a place lies ahead as long as a leg is missing, and that a tier is
  entered only with a speed that can be divided by; `RecentPositionsAreUsed` and
  `CheckpointsAreInOrder`. These speak of legs estimated one query at a time,
  so the invariant `Told` says what each leg so far is: if only one position was
  there since the request came, what that position makes it, tier, stop and
  band; and if all were a tow's, the full model's where the leg meets the
  terminal. Either way two legs to the checkpoints are of one tier, and the
  farther one is later by the `...Farther` lemmas.
* **`NextVesselProofs`**: about the walk, `PassagesAreAnsweredOnce` and
  `WhoIsDueIsAnswered`; about the blocks, `BlocksAreTyped`,
  `BandsOfBlocksAreInOrder` and `WhatIsHeardIsUsed`. All hold whatever rows and
  positions are stored between the queries, and with whatever times. Two things
  can be said of that: what was stored when the request came stays stored
  (`known`), and a tow's newest position only gets newer, so it is the last of
  those in `heard` (`Hearing`). `WalkInv` adds what is in hand at each await
  (`Stages`), that it comes from the lock in hand and from inside the window
  (`Rows`), and that the candidates of one tow are further apart than the cuts
  of a passage (`Apart`): after `CollapseCuts` of one lock by `CollapseApart`,
  and between locks because the walk goes on to the next one only with nothing
  rated.
  `CutsKept` follows the cuts on record of a tow that no position speaks
  against: each of them is pulled and survives its check, so all of them are
  among the rows of the collapse, and then each candidate has the last end and
  the most barges of its passage (`CollapseTakesIn`), also where rows stored
  since the request stand between them. `DueKept` follows a tow that is due
  through the stages: she is among the departures pulled, kept by the check,
  stands behind a candidate that left no earlier and has as many barges
  (`CollapseCarries`), and is rated, since her class has a bound no nearer than
  the median of the smaller one. While a request is under way the record and the
  set of such tows only shrink (`RecordShrinks`, `DueShrinks`), so no departure
  can become due after the walk has passed its lock, and a candidate that takes
  in its passage goes on to (`TakesInStays`). `BlockInv` says of each block
  (`Said`), and of the tow in hand between its two queries (`InHand`), that her
  mile, estimate and band are each what one of her positions gave, none older
  than the one before, and that she is the foremost of those left; with five
  look-ups `HeardIsUsed` is not inductive without it. Assumed: locks are finitely
  many and at different miles; the median of the small class is not after the
  outer bound of the big one (`DueIsAnswered` depends on it: a candidate takes
  the largest cut of its passage and may be big where the departure in question
  is small); the window of the estimate is inside that of the band
  (`LiveFor < UnderWay`).
  Where a position comes in, during the request, that speaks against her, nothing
  is claimed of her cuts but that no two entries are within the gap: the code
  judges cut by cut, and the answer may have some of them.

* **`LockStatusProofs`**: `InsideIsShown`, `NeverCalmer`, and for the pulse
  `PulseTypeCorrect` and `BusyExplained`. The invariant (`LockInvariant`) says
  that tows go through one after the other (`ChamberInv`), that every row tells
  of a lockage that happened (`RowsInv`), and that the flag of the answer before
  was due to its tow at some time before this request (`BeforeInv`); without
  the last `WorseIsNeverCalmer` is not inductive, for nothing in the state says
  when that answer was given. The rest is `FlagGrows`: `_compute_flag` is
  monotone in barges, age and each field of the queue. `PulseIsLockStatus` shows
  that the pulse implements the handler it calls, which carries the theorems
  over. `BusyFollows` needs that a side with more than 5 points is in the line
  (`ActiveIsSaid`), what the two sides say when they have such points
  (`SurfaceWords`, `LockWords`: a tow in the live row scores and is named), and
  that a double-cut tow known to be inside is a jam (`BigIsJam`, from
  `InsideFollows`). What is proved of a jam with an empty live row is what the
  code does: the line has the reason of the locks, which reads that they are
  clear (section 6).
* **`LockageProofs`**: everything over `Lockages`. It rests on `RouteInv`: one
  name has one lockage at a time, the last lockage of a boat says where she is
  (in the lock after a first cut, else in the pool it leads to), and the next
  one is at the next lock on the same way or at the same lock, for a boat in one
  piece the other way. The types need that boats in one piece start between
  locks (`FleetAssumption`), for they go through a chamber in one step.
  - *The table of transit times*: `TypeCorrect`, `ServedRecently`,
    `TableTimesAreReal`. The code keeps a table under the time of the look at the
    cache, not of the scan, so no entry is kept under a time after its scan
    (`AgeInv`); whoever finds it fresh gets a scan that is. The request that scans
    is itself served at once, which needs `TTL >= 1`. `HopsAreRuns`: two stored
    lockages at neighbouring locks on the same way, with one missing between
    them, cannot be, for that one would have turned her round or taken her past.
    `MedianIsASample` shows that the median exists, without induction: the least
    time that more than half of the samples do not exceed (`Foremost` finds it,
    from the well-foundedness of strict inclusion). For tows in cuts `OneMissing`
    asks that none of their rows is missing; with one missing the first cut is
    taken for the whole passage and the time is longer than any run.
  - *The legs of a replay*: `ReplayIsTyped`, `DrawnLegsAreReal`,
    `RealLegsAreDrawn`. Between the two lockages of a drawn leg she is known at
    the second lock alone, since the last one known elsewhere would have survived
    the collapse (`KnownOnALeg`); her first lockage after the leg began is one
    lock on (`OneLockOn`), and it is at the second lock of the leg, because a boat
    that leaves the locks of `SIM_LOCKS` has to come back the way she went
    (`NoWayAround`). Conversely (`LegsAppear`) every leg is drawn that ended in
    the window and took `MaxLeg` at most, not only the last one: its lockages are
    read although the first is before the window, her name and class are told by
    positions that survive the thinning, and by `StaysCollapse` all cuts of the
    stay at its end become the last one (`StaysUntil`), which follows the last
    one at its beginning, whatever came before or comes after.
  - *The points of a replay*: `PointsAreEnough`. The loop that thins her
    positions is a recursive function of time. It exists by `BoundedRecursion`,
    and `BoundedInduction` is the induction over an interval, both proved with
    sets in place of the operators that the library's induction theorems take.
    `LastKept` unfolds the loop, `KeptFacts` says what it keeps; `Ranks` and
    `EvenlySpread` say that of the ranks `(i * n) \div MaxPoints` one is at most
    `(n - 1) \div MaxPoints` before any other.
  - *The profile*: `ProfilesAreRight`, in every state. `HerRowsInOrder` gives
    the rows by their ranks. Each pointer is where it would be if it were
    looked for from the first row on (`LeftFinds`, `RightFinds`), because what a
    row excludes every later row excludes too, and the right one never starts
    beyond what it looks for; so the window of a row is all rows within a round
    trip of it (`MarkedRows`). `HitsGoOn` does the bisection.
* **`SpeedProfilesProofs`**: `TypeCorrect` and `ServedFresh`. A key is steady at a
  time if it has been in the sample since before it (`Steady`). A scan finds every
  key that was steady when its request came and still is (`ScanInv`), and a
  refresh dates its rows after that (`StampInv`). Once it has committed, the rows
  of these keys are no older than its request but for what an older refresh
  installs over them, at most `Patience` back (`MarkInv`), and so are those behind
  a cache entry (`EntryInv`). Overlapping refreshes may commit and mark in any
  order; `2 * Patience <= TTL` is what keeps a slow one from bringing rows that are
  already too old. `ServedFresh` claims this of keys that have been in the sample
  for longer than a TTL, and of no other: a newcomer may have come after the scan
  behind a valid entry, and of one that left nothing is rewritten (section 6).

Only model-checked: the liveness properties (`Delivered` of `IngestStore`,
`RequestsEnd` of `IngestStore` and of `SpeedProfiles`), since the prover has no
ENABLED and no fairness. Every other property of the passing runs is proved.

## 5. Not modelled

* The **queue pipeline** is not in the deployed image, and `api/worker.py`
  passes the timestamps of its events to asyncpg as strings, so its first
  statement raises for every message: a model would have no successful write.
* **Vessel track**: one query, thinned by the rule `Replay` has (`KeptOf`), then
  a line drawn on at a constant speed. Its way is that of the whole trail, and
  its points count from now although the last position may be hours old; no
  text says otherwise.
* **Photos, signup, admin reads, exports**: one statement each.
* **Edge worker, container, channel geometry**: configuration and
  floating-point geometry.
* Of the modelled parts: the medians of the speed profiles, the stop-rate table
  (the code always returns None), the daily lockage counts of the pulse, the
  means and counts of a profile, wording.

## 6. Findings

1. **Pruning forgets what was written** (`ingest_prune`). The comment above
   `admin_prune` calls `telemetry_raw` safe to prune because nothing live reads
   it; `write_event` does, to tell a resent event from a new one. A batch whose
   response was lost before the prune is written twice.
2. **A real fix is overruled** (`real_fix`). The reception cap of
   `compute_projected_tiers` runs after the override by a real position and puts
   a tow back to the edge of the reception circle although she was heard beyond.
3. **An old trip hides a new one** (`stale_trip`). `_vessel_already_passed`
   applies no age cutoff although `_latest_position` leaves that to its callers.

Read off the code while modelling it, where a text says otherwise, without a run:

* `schema/schema.sql:20` says every payload lands in `telemetry_raw` first; the
  raw insert shares the transaction of the normalisation, so one payload a
  domain statement refuses takes the raw rows of its whole batch with it.
* `_live_priority_rm` (`next_vessel.py:318-321`) says a tow heard now must win
  whatever the statistical model says; the bound of that model drops her at 511,
  before it is asked.
* `_build_empirical_transit_table` (`projections.py:206-210`) says pleasure
  craft are excluded; nothing excludes them, and since they share one name,
  lockages of two craft become one transit. `TimesAreReal` is stated for boats
  with names of their own.
* `vessel_speed.py:27-30` says that profiles are refreshed on the TTL. The
  refresh writes the keys of its sample (153-185) and deletes no others, and
  `lookup` (202-213) asks for no age: a tow that fell below the minimum of
  readings is projected with her last profile, however old.
* The caveat at `river_pulse.py:190-192` says that both sides are named when
  they diverge; a side whose score is 5 or less is not, so one pleasure craft
  next to a busy lock reads "No vessels visible".
* `lock_pressure` (`river_pulse.py:53-79`) scores a flag whether the live row is
  empty or not and puts the reason together from live rows alone. A lock whose
  jam comes from the lockage table makes the score of a line that reads "all
  bracket locks clear"; two such locks make the river "average" for that reason.
  So does a pulse without boats when the lock query failed.

Not contradicted by any text, but met on the way: overlapping requests of
`ensure_fresh` all scan, where its docstring has one scan per TTL for the whole
process; the dead-reckoned band (`vessel_eta.py:191`, `next_vessel.py:449`)
cuts only its late side, so a vessel faster than her typical range gets an
early time after the middle one; a vessel heard anew between two queries of
`/vessel-eta` may fall between the live and the reckoned tier and be given the
times of other vessels; when a position comes in that speaks against a tow while
her cuts are held against it one by one (`next_vessel.py:488`), the answer has
those judged before and not those after, so she may stand in it with the barges
or the end of some of her cuts, and if what is missing lay between them, twice;
a lockage observed without its end shows the chamber busy until the next one is
observed; the last cut of a passage that is stored late leaves a leg of a replay
that ends, or begins, with the cut before it; in a replay a tow that comes back
from beyond the last of `SIM_LOCKS` within three hours would have her two visits
drawn as one (`NeverSoonBack`).

## 7. Plan

Done: the write path with its abstract specification and the proof that it
implements it; live positions, speed profiles, the next-vessel walk and its
arrival blocks, vessel ETA, lock status, river pulse, the transit table, replay
and vessel profile, each with proofs of all the safety properties its run checks.

Left, most important first:

1. The hazards of `PROJECT.json` that no property covers, each with its note:
   names shared by pleasure craft, a row without its end next to one that has
   it, the statistical cut before the live check, profiles that are never
   deleted, an answer whose projection failed.
2. The liveness of the two retry loops for any number of slots and requests,
   with a prover that has fairness.
3. `vessel_track.py`, should its projection get an age.

# ScalpForge in TLA+

ScalpForge records quotes of a broker, builds research data sets from them,
looks for trading rules in those, and follows one frozen rule on paper in a
*demo-shadow* campaign: tick by tick, with append-only ledgers that later decide
whether the rule is any good. No order is placed. What can go wrong is
bookkeeping: files that several processes append to and replace, runs that die
half-way, batches that cut a feed at arbitrary places, data sets that are joined
although they do not belong together, and computations that look at a quote
which was not there yet when the decision was made. That is what these modules
are about.

## 1. Inventory

Paths are relative to `src/`; `strategy/` stands for
`packages/strategy/scalpforge_strategy/`, and likewise for the other packages.

| Component | State it keeps | Operations | What is hard | What makes it correct |
|---|---|---|---|---|
| MT4 recorder, `mt4/Experts/ScalpForgeRecorder.mq4` | daily tick CSVs, sequence, session | `OnTick`, `OnTimer`, flush, reopen | rows become visible in lots, old by then; half a line may be visible | rows in the order of their times |
| Demo-shadow engine, `strategy/demo_shadow_engine.py` | `engine-state.json` (replaced), `fills.jsonl`, `signals.jsonl`, `invalidations.jsonl` (appended) | `run_demo_shadow`, `invalidate_shadow_signal` | a run that dies between appends and save; batches; clock against feed; the operator's edit beside a run | result independent of where runs cut the feed; exit at the first due quote; no row unseen |
| Scheduled run and worker, `demo_shadow_scheduled_cli.py`, `demo_shadow_worker_cli.py` | `scheduled-run.lock`, run log | `run_scheduled`, `run_worker` | races for a stale lock, killed holders | one run at a time; a dead holder does not stop the campaign |
| Campaign creation and rollover, `demo_shadow_protocol.py`, `demo_shadow_rollover.py` | the campaign directory, the parent's ledger | `initialize_demo_shadow_protocol`, `rollover_demo_shadow`, `verify_bootstrap` | racing operators, death while writing | the protocol is the commit point; the parent is superseded once |
| Evaluator, `demo_shadow_evaluator.py` | a report per id, a row per week | `evaluate_demo_shadow` | ledgers that grow meanwhile; duplicated and invalidated rows; a death between report and row | a signal counts once, an invalidated one never; one row per evaluation |
| Collector, `collector/` | offsets, chunks, manifests, health | `collect_once`, `run_forever`, schedule | a crash between chunk, manifest and state; half lines; midnight | what the offset has passed is in the archive |
| Archive quality, `quality/`, `data/quality.py` | snapshots and their manifests, Parquet data sets | reports, data set, `prune_legacy_snapshots` | deletion in two steps; chunks archived twice | nothing readable is lost; "ready" counts no tick twice |
| Dataset publication, `data/scalpforge_data/historical.py`, `trade_history.py`, `jforex_batch.py`, `replay/.../dataset.py` | staging and final directories | import, publish, replay | two callers, a crash while building | what has a manifest is its source, once and in order |
| Tick import and merge, `importer.py`, `dukascopy.py`, `data/quality.py` | none | validate, merge | times with and without an offset, duplicates | counts add up; merged rows pair bid and ask |
| Experiment registry, `strategy/experiment_registry.py` | hash-chained JSONL | `register_experiment`, `read_registry` | two appends at once, a line cut off | chain unbroken, each experiment once |
| News archive, `news/` | responses, `events.jsonl`, health | ingest, merge, report | two ingestions, one temporary file | an event keeps the time it was first seen |
| Features, structure, ranges, decision bars: `research_dataset.py`, `structural.py`, `session_ranges.py`, `multi_hour_dataset.py` | the state of one pass | one step per tick or row | queues, resets, day and session edges | each row is what its definition says of the whole tape |
| Outcomes and episodes: `outcomes.py`, `multi_hour_outcomes.py`, `execution_clock.py`, `episodes.py`, `session_episodes.py` | windows with look-ahead | label, join | edges of windows; three data sets in step | outcomes independent of the windows; one episode per range and day |
| Gap audit, `market_session_calendar.py`, `gap_semantics_audit.py` | none | classify intervals and invalid outcomes | openings over midnight, closures, holes | no gap put down to an impossible cause |
| Sequence, quote-pressure and episode labs | none (a report) | select, simulate, score | order of quotes inside one path; intervals of a fold | no decision looks ahead; the choice is blind to the test |
| Gold strategies: `gold_strategy_*.py`, `candidate_robustness.py`, `trend_candidate_audit.py`, `candidate_tick_replay.py` | frames, zones, cooldowns of one pass | states, episodes, trades, tick replay | a zone found again, overlaps, midnight | equal to the definition over all bars |
| Candidate replay, parity audit and discovery arms: `avatrade_*.py`, `candidate_parity_audit.py` | a report | batch versions of the engine's rule | the recorder writes on; incremental against batch | same bars, causal signals, one position |
| Research lineage: every builder and lab | directories named by a hash | compute, publish | data sets of different origin joined | everything under a report has one origin |
| Backtest and replay engine, `backtest/`, `replay/.../engine.py` | position, pending intents, virtual clock | one step per tick | stop, target and fill in one tick | every intent once, one position, the first exit |
| Virtual portfolio and council, risk governor and brokers, API, broker reports, other audits, JForex exporter, core models, deployment | see section 7 | - | - | - |

**Interactions.** The recorder appends to tick files in MT4's common directory.
The engine reads them through cursors it keeps in `engine-state.json`, and
appends to the ledgers of the active campaign directory. `demo_shadow_protocol`
and `demo_shadow_rollover` create that directory; every run of the engine checks
it (`verify_protocol`, `verify_bootstrap`) before it does anything. The
scheduler, or the persistent worker, starts runs through `run_scheduled`, which
keeps them apart with a lock file. `invalidate_shadow_signal` and the evaluator
work on the same files without that lock. The collector copies the tick files to
the archive, from which the quality reports, the Parquet data sets and the
replays of the candidate work offline. History from Dukascopy, JForex or a CSV
comes in through the publication commands; from it the research pipeline builds
one data set on top of another (features; structure, ranges, outcomes, decision bars;
episodes and states), each in a directory of its own, and the labs report on
them and register their experiments. Everything is shared through files; there
are no messages and no threads, and the concurrency is that of processes.

The hazards are listed, each at the line where it bites, in `PROJECT.json`.

## 2. Modules

| Module | Models | Uses | Run by |
|---|---|---|---|
| `ShadowAccount` | what a campaign promises, without files, runs and quotes | - | refinement target of `ShadowEngine` |
| `ShadowEngine` | `run_demo_shadow` with its files and every place to die | `ShadowAccount` (refinement) | `MCShadowEngine`; proofs in `ShadowEngineProofs` |
| `RunLock` | `run_scheduled`, `_acquire_lock` | - | `MCCampaign`; proofs in `RunLockProofs` |
| `CampaignRoot` | campaign directory: initialize, rollover, `verify_bootstrap`, and the state the engine saves | - | `MCCampaign`; proofs in `CampaignRootProofs` |
| `TickArchive` | recorder's files, collector, archive readers, cleanup | - | `MCTickFiles`; proofs in `TickArchiveProofs` |
| `QuoteReader` | the engine's reading of files that grow | extends `TickArchive` | `MCTickFiles`; proofs in `TickArchiveProofs` |
| `Ordering` | a stable sort: a finite set in the order of a relation | - | through the next ones; lemmas in `OrderingProofs` |
| `ShadowEvaluation` | the evaluator as a function of the ledgers | extends `Ordering` | through the next |
| `ShadowInvalidation` | engine runs, invalidations by several operators and several evaluations, unlocked | extends `ShadowEvaluation` | `MCShadowInvalidation`; proofs in `ShadowInvalidationProofs` |
| `SourceFeeds` | validation, statistics, partitions, merge, import, replay of a data set | extends `Ordering` | through the next |
| `DatasetPublication` | building under a name, in place or staged | extends `SourceFeeds` | `MCPublication`; proofs in `PublicationProofs` |
| `ExperimentRegistry` | the report file of a lab and the chained registry | - | `MCPublication`; proofs in `PublicationProofs` |
| `ResearchLineage` | the data sets and reports of the research, by the names of their sources | - | `MCPublication`; proofs in `PublicationProofs` |
| `NewsArchive` | ingestion of news and observations: the archive of responses and the event file | extends `Ordering` | `MCPublication`; proofs in `OfflineProofs` |
| `Backtest` | the replay engine and the backtest | extends `Ordering` | `MCPublication`; proofs in `OfflineProofs` |
| `CandidateReplay` | the replays of the frozen candidate and of the discovery arms | - | `MCPublication` (INSTANCE) |
| `QuoteFeatures` | streams from ticks to features, structure, ranges, decision bars | - | through `MarketTape` |
| `CausalOutcomes` | outcomes, windows, episodes | extends `QuoteFeatures` | through `MarketTape` |
| `GapAudit` | calendar and attribution | extends `CausalOutcomes` | through `MarketTape` |
| `MarketTape` | a tape that runs through all streams | extends `GapAudit` | `MCResearch` |
| `SequenceLab`, `QuotePressureLab`, `EpisodeLabs` | the labs as functions of rows | each extends the one before, from `CausalOutcomes` on | through `ResearchLabs` |
| `ResearchLabs` | the labs over a closed tape | extends `MarketTape`, `EpisodeLabs` | `MCResearch` |
| `GoldStrategies` | states, episodes, trades and tick replay over decision bars | extends `CausalOutcomes` | `MCResearch` |

### ShadowEngine

One action per step of a run that another process, or a death, can see:

| Action | Code (`demo_shadow_engine.py`) |
|---|---|
| `Start` | load the state, read the rows beyond the cursors (38-62) |
| `NoQuotes`, `NoNewQuotes`, `WarmUp` | the three early returns (63-84) |
| `Observe` | take the clock, merge bars, find the new ones and `previous_active` (70-129) |
| `KeepPosition`, `ExitPosition` | the exit, appended to `fills.jsonl` (103-126) |
| `PassOver`, `Decline`, `EnterPosition`, `RecordEntry` | the loop over new candidates: not a rising edge or in cooldown; ignored, late or timed out; entered, which is two appends (130-206) |
| `SaveState` | the replacement of `engine-state.json` (207-216) |
| `Crash` | the process dies, or an exception leaves the function, anywhere |
| `Tick`, `Quote` | the clock, and rows that become visible in the tick files |

`disk`, `fills` and `signals` are the three files, `run` the locals. Time is an
integer; a bar is named by the time it becomes available. Prices are gone: whether
a bar is an active candidate is chosen by the environment once, with the bar's first
row, because the code computes it from that bar and its predecessors and recomputes
it in every later run. (That the bars it keeps and merges from run
to run give the same candidates as one pass is `ReplayHolds` of `CandidateReplay`.) A row carries the time the
recorder stamped it with, and appears at or after it: the recorder flushes every
`FlushEveryTicks` rows or with a heartbeat, so rows can be old when first seen.

### RunLock

The lock is a file with an owner, open or closed, young or old. `Acquire` to
`RecreateRefused` are the system calls of `_acquire_lock` one by one, `LogStart`,
`CloseLock` and `RemoveLock` those of `run_scheduled`. Which process's file
is unlinked is not checked by the code: the only protection is the operating system's. `PinOpenFiles`
is the rule of Windows, on which this software is deployed (`ops/windows`): a
file that a process opened with `os.open` cannot be unlinked by another one. The operating
system is external to the repository, so this is an assumption, stated as a constant. With it off,
`MutualExclusion` fails already for a run that takes longer than ten minutes: its lock looks
stale, and a contender deletes it and goes on; two contenders for a really stale lock can
also delete each other's.

### CampaignRoot

The name of the directory is a hash of its contents, so the interesting races are
between calls for the same directory. Files are `absent`, `torn` or `whole`; writing
one is two steps (truncate, fill), in the order of the code, with `protocol.json` last.
`schema` is the `schema_version` in `engine-state.json`: 3 as the rollover writes
it, 2 once the engine has saved.

### TickArchive and QuoteReader

A tick file is measured in half lines, so that an odd length ends in a line that
is only half visible; line 1 is the header, `Heartbeats` the lines without a tick.
`Record`, `Midnight` and `OpenDailyFile` are the recorder. `collect_once`
(`collector/collector.py:39-98`) is one action per access to the disk: `Missing` (46-50),
`Read` of the source and of the saved offset (52-68), `WriteChunk` (69-73), `WriteManifest`
(74-85), `SaveState` (86-88, 118-121), and `Inspect` with the health report (89-105). A chunk that a dead
collector cut off is `litter` under its name; a manifest that is cut off makes
every reader of the archive fail (`unreadable`). `Restart` (the loop of `collector/cli.py:25-34`) comes a minute later, and the name of
a chunk contains the second. `PruneScan`, `PruneSnapshot` and `PruneManifest` are
the cleanup (`prune.py`), and `Dataset` and `Report` are functions of any
selection of manifests a reader may have found.

`QuoteReader` adds the engine's side: the first run reads every file and takes the
sizes afterwards (`WarmRead`, `WarmSize`), a later one takes a size, reads to the
end and saves the size (`TakeSize`, `ReadToTheEnd`, `Save`). Half a line may
parse as a quote if what is cut off is not needed. `edges` is history: the lines
that could be lost at an edge, and those read beyond the size that was saved.
`ShadowEngine` takes rows as given; this module says which rows it is given.

### ShadowInvalidation and ShadowEvaluation

Processes on one campaign without a lock: a run of the engine (`Run...`, the ledgers
and the open position only), any number of calls of `invalidate_shadow_signal`
(`Edit...`), one for each operator, and of `evaluate_demo_shadow` (`Eval...`), one for each evaluator. A run and
an invalidation each have their own copy of `engine-state.json`, and replace the whole of it. They share
`engine-state.tmp` too, so that of two that save at once one may fail; that is a death
of it. An evaluation hashes the ledgers one by one, reads them one by one, writes its report,
looks for its weekly row (`EvalChecks`) and appends it (`EvalAppends`), each a step of its own.
`ShadowEvaluation` is the evaluator as a function of the
ledgers: which rows count, the metrics that gates use, the gates with their
third value for "not known", the status. Two variables are history: `overlapped`, an
invalidation met a run or another invalidation, or one of these died; `together`,
two evaluations ran at the same time.

### DatasetPublication and SourceFeeds

`SourceFeeds` says what becomes of the rows: conversion of times, validation,
statistics, partitions of a day, merge of two one-sided exports, the importer of the backtests,
the replay of a data set. `Stats` and `ByDay` say what counts and files should be; `Count`
and `Put` are what the code does row by row. `DatasetPublication` is the protocol around it, for
four kinds of source: a CSV (`ticks`), two merged exports (`merge`) and a trade
history (`trades`) are built in place with the manifest last; JForex batches are
archived, in their order up to the first that conflicts, and then staged in `<id>.partial`. `Begin` to `Publish` are the steps of
a call, `Raise` an exception in it, `Die` its death. `blocked` is history: a call ended where
nothing cleans up.

### ExperimentRegistry, NewsArchive, ResearchLineage

`ExperimentRegistry`: the report file of a lab and the line it appends to the
registry, with reading and checking of the chain in between. `WriteOnce` are the
labs that return a stored report. A line may be cut off by a death; the next one
is then appended to it. `overlapped` is history: the researcher's runs,
this or an earlier one whose damage stays, have met another's.

`NewsArchive`: a response is archived with its manifest, its articles are
normalized and merged into `events.jsonl` through the one file `events.tmp`, which is
written line by line, a line also in two parts. Whoever opens it empties it, also under
another call's hands; a call that writes into a file with other lines than its own
cuts or covers some of them (`Written`), and the rename raises or takes the file away
from under it (`Renamed`). A `Torn` line, one that is there in part or made of parts of
several, makes the next ingestion raise.

`ResearchLineage`: an artifact is its name and the names of its sources. There
are nine kinds of data sets and sixteen kinds of reports, each with the
condition under which the command accepts its sources and the part of them
that makes its name (`Candidates`, `Audits`, `Join`). `LookForManifest` to
`PublishArtifact` is the protocol of the builders with their `.partial` directory,
`WriteReport` a report, which has none.

### CandidateReplay and Backtest

`CandidateReplay`: bars from quotes, by batch and incrementally, candidates, the four
discovery arms, signals with cooldown, trades at the first quote after the
boundary, path metrics and groups. There are two reports: that of the forensics
(`Metrics`), whose days have valid trades only, and that of the discovery arms (`ArmMetrics`,
`avatrade_discovery_lab.py:253-279`), which counts a trade whose exit came late for its day
though not in the total. So leaving out the best day leaves the other days in the first, and in
the second only when no exit was late; `ForensicsAddUp` says both. And the three commands that hash the exports,
read them and hash again (`Begin`, `Read`, `Publish`) while the recorder appends
(`Write`). Prices are integers and a difference stands for a return.

`Backtest`: the replay engine under its virtual clock, also when it is used again
(`Handle`), and the loop over the ticks. `OnTick` closes at stop or target; each turn of the inner
loop, which refuses or opens the next eligible intent, is a `Take`, and there is no other tick, and no
`Finish`, while one is eligible; `Finish` closes and rejects what is left. A data set is the list of the times of its
rows, partition after partition. A sort of intents is stable (`Generated`).

### QuoteFeatures to ResearchLabs

The research pipeline is a function of the tape, and most of what it computes is
computed incrementally: queues, windows, resets at the edge of a day. So the code's
streams are modelled as they are, one step per row, and what they are to hold
is defined over the whole tape. `QuoteFeatures` has the streams
(`research_dataset.py`, `structural.py`, `session_ranges.py`,
`multi_hour_dataset.py`), `CausalOutcomes` the labels (`outcomes.py` with its cores and
look-ahead, `multi_hour_outcomes.py`, `execution_clock.py`) and episodes,
`GapAudit` the calendar and the attribution. `MarketTape` runs a tape through
them: `Arrive` takes a burst of quotes, `Close` ends the tape.

`SequenceLab` has folds, spacing of events, entry policies and exit styles;
`QuotePressureLab` entries at the market and at a limit and the choice of
thresholds per fold; `EpisodeLabs` path policies, baskets, confirmations, gates
and matched trades. `ResearchLabs` applies them to the rows of a closed tape.

A ratio is a pair of numbers, a mid is bid plus ask, and a price difference
stands for a return, so that everything is an integer.

### GoldStrategies

One step takes in a decision bar (`gold_strategy_states.py`): frames, trend and
rejection states, price zones; the episodes with their cooldowns
(`gold_strategy_episodes.py`) follow in the same step. Over them, as functions:
the trades of the tournament's development months, the ledgers of robustness
report and trend audit, removal of overlaps, reasons of rejection, and the
replay on the tick archive, which loads only the days of entry and exit.

## 3. Runs

| Run | Bounds | What it shows |
|---|---|---|
| `shadow_engine` | `BarLen 2`, `Holding 3`, `Cooldown 6`, `MaxDelay 1`, `MaxAge 0`, `MaxTime 8`, 4 rows, 1 death | with the inequality of the frozen timing: types and the inductive invariant (`SafetyInvariant`); exits at the first due quote (`ExitAtFirstQuote`); the signals of any number of runs are those of a single pass over the bars, each in one row as long as no run has died (`DecisionsReplay`); `ignored_open_position` is out of reach (`NeverIgnored`); a due position is closed in the end (`PositionsClose`) |
| `shadow_account` | `Cooldown 2`, `Holding 4`, `MaxAge 1`, `MaxTime 9`, 5 rows, no deaths | with a cooldown shorter than the holding time, so that signals meet positions: a signal is ignored exactly if a trade of the ledger spans it (`IgnoredExactlyWhileOpen`), and the ledgers implement `ShadowAccount` (`AccountSpec`) |
| `shadow_one_position` | 1 death, `MaxTime 9` | violated, see Findings |
| `shadow_entry_quote` | no deaths, `MaxTime 6` | violated, see Findings |
| `campaign` | scene of the lock: 3 processes, one a worker, 3 faults; scene of the directory: 3 operators, 2 deaths, both kinds of call, and a worker that holds the lock | `MutualExclusion`; a stale lock does not end the campaign (`RunsGoOn`); `CommitPoint`, `SupersededOnce`, `WriteOnce`, `SupersessionRecorded`; deadlock is checked |
| `campaign_bootstrap` | no deaths | violated, see Findings |
| `tick_files` | 2 days, 6 half lines, 1 death; scenes archive and engine | what the offset has passed is in whole chunks (`ArchiveComplete`); a data set that is built has no hole and no torn line (`DatasetExact`); "ready" counts each tick once (`ReadyCountsOnce`); nothing readable is lost (`ArchivedStays`); a visible line is archived in the end (`LinesArchived`); the engine misses nothing but at the edges and reads nothing twice but what it read ahead (`NothingUnseen`, `RereadOnlyAhead`) |
| `shadow_invalidation` | 2 operators, 2 evaluators, 2 signals, 2 rows of fills, 2 weekly rows, 1 death; four scenes | an invalidated trade never counts (`InvalidatedNeverCounts`); state and events agree as long as whoever replaces the state excludes the others (`AloneItHolds`); each weekly row has its report, and one row per evaluation as long as no two evaluations meet (`WeeklyOnce`); the drawdown is the worst stretch (`DrawdownIsWorstStretch`) |
| `publication` | 2 callers, 3 calls, 1 failure or death; sources of up to 3 rows; 4 runs of labs; 7 bars; 5 ticks; six scenes | `OneManifest`, `PublishedIsWhole`, `RefusedOnlyAfterTrouble`, `RegistryHolds`, `FirstSeenStays`, `LineageHolds`, `ReplayHolds`, `BacktestHolds` |
| `research` | any 5 quotes up to time 16; up to two breakouts in 6 ways of 11 quotes each; up to 15 decision bars; three scenes | `StreamsHold`, `OutcomesHold`, `EpisodesOnce`, `AuditHolds`, `TradesHold`, `ChosenBlind`, `PathsHold`, `GoldHolds` |
| `research_embargo` | as `research`, purge and embargo as long as the longest horizon | violated, see Findings |
| `research_zones` | as `research`, only the scene "gold" matters | violated, see Findings |

**Why the bounds are enough.** The engine compares times only with each other and
with the four durations, so what matters is the order of events and their distance
relative to those durations: `Holding` > `BarLen` so that a position outlives a bar,
`Cooldown >= MaxDelay + Holding + BarLen` as in the frozen protocol
(28800 s against 60 s + 3600 s + 300 s), `MaxDelay` less than a bar. Five units of time
suffice for a warm-up, a bar, its decision and an entry; eight or nine also for the
exit and the next signal. `shadow_account` has a longer `Holding`, because with 3 every position
is due by the time the next signal can come. Two rows before and two after the entry distinguish first, latest and
due quotes; the fifth row of `shadow_account` starts another signal inside the trade.
A second death meets nothing that the first does not: the state on disk is only replaced as a
whole, and what a dead run leaves behind is rows. In
`RunLock`, three processes are the least with which somebody waits for a lock that
two others contend for; in `CampaignRoot`, one builder, one caller that saw no directory and one that
finds it half-made.

In `tick_files`, two days are the least with a midnight, and six half lines are a
header, two ticks or a tick and a heartbeat, each of which may be half visible.
`shadow_invalidation` has four scenes, because each question needs another past and
other processes: one signal still to come, with the engine, one operator and one evaluator
("busy"); a signal already recorded and two operators beside the engine, for what each may do to the state of the
other ("editors"); a closed trade and two evaluators, who both look for the weekly row before
either appends it ("reports"); two closed trades of any returns out of a loss and two gains,
for metrics and gates ("closed"). In all but the last one of the processes may die.

In `publication` two callers suffice for every race between accesses to one
directory; the third call is the one that comes afterwards and finds what they
left. Three rows are the least with which a time can go back, be doubled and
leave a gap, and they fill more than one batch of two. Two researchers race for a report and the log,
and two of their four runs come after the damage. Of three ingestions the last reads after two that met, or after a
death; of those that met, of which nothing is claimed, only lists of up to two lines are followed, no
death, and as a third one an ingestion of nothing new (`Few`); articles come again in a later response and within one. The lineage starts from any stage of
a complete chain over two feature configurations, so that two writes reach every
pair of data sets a command could mix up. The replay's bars span both higher frames, the cooldown and a bar without
quotes; commands run beside the recorder only while no more than three bars are
written, which is enough to have it append between each two steps of theirs.
The replay engine and the backtest share nothing and run one at a time.

In `research` all durations are scaled down but keep their order: a second is
two units, so that two quotes can share one; an hour is two seconds and a day
eight, so that a tape crosses sessions, windows and midnights. In the scene
"quotes" any five quotes follow each other, in all steps that separate one second from the next, a
gap and a session. Trades in the labs need long tapes, of which there are too many;
in the scene "breakouts" a tape is made of bursts: a base, a breakout and one of six ways it may
go on (goes on, fades, peaks, comes back to the level, fails, goes down), each
followed by quotes that can be reasons to leave and ways out, and a second one soon, in
the next interval of a fold, or after the next. A further tape leaves its range
twice on a day. In the scene "gold" legs of three bars (up, down, an impulse that forms a
zone, a return into it, a gap) follow each other.

`MCShadowEngine` lets the clock and the recorder move only between runs and between
the reading of quotes and of the clock (`pc \in {"idle", "read"}`). After `Observe` a run reads only
rows up to `run.upto` and the time `run.seenAt`, so their later steps commute with the rest of
the run. It also keeps row times distinct. These are restrictions of the exploration
(`MCSpec`) only: the theorems are of the whole `Spec`, or of `WarmSpec`, which is `Spec` with
a history variable.
The clock, the recorder, the callers and the tapes stop at their bounds, so these
runs do not check deadlock; `campaign` and `campaign_bootstrap` do.

**Fairness.** `shadow_engine`: weak fairness of `Step`. The worker loops without end
over `run_scheduled` and the task scheduler starts it again, and a started run does
not wait for anybody. Nothing is assumed of the recorder or of the clock.
`campaign`, the lock: weak fairness of each process's `Attempt`, for the same reason, and of
`GrowOld`, which is time. `RunsGoOn` has the premise that no worker leaks its
descriptor for ever: a "started" row that cannot be appended leaves the file
open, and pinned, in a worker that lives on (`demo_shadow_scheduled_cli.py:35`).
`campaign`, the directory: weak fairness of each `Call`, a process that is running; the
engine and deaths are not fair. `tick_files`: weak fairness of each step of the
collector and of `Restart`; the loop calls `collect_once` for ever
(`collector/cli.py:25-34`), and the scheduled task is started again a minute after it failed
(`ops/windows/Install-ScalpForgeCollector.ps1`). Recorder, midnight and deaths are not
fair, so a line that becomes visible just before midnight may stay out of the
archive: the collector turns to the new file. `LinesArchived` says exactly that.

## 4. What the model checking says of the design

Some properties hold only under a premise, and the premise is the result:

* `AloneItHolds`: an invalidation must not meet a run of the engine, nor another
  invalidation, and nothing in the code prevents either: the one that saves last puts
  back the state it had read, and an invalidated position may be open again. Yet the evaluator is safe either way
  (`InvalidatedNeverCounts`), since it reads the events ledger and not the state.
* `WeeklyOnce`: two evaluations of the same ledgers can both find no row of theirs and
  both append one (`demo_shadow_evaluator.py:181-183`).
* `RegistryHolds`, `FirstSeenStays`: two labs, or two ingestions, at the same time can
  break the chain or lose events. A death alone loses no event, but a registry line
  that is cut off makes the registry unreadable.
* `RefusedOnlyAfterTrouble`: whatever builds in place leaves a directory behind
  when it fails; later calls for the same source are refused until somebody removes it. The
  staged builders clean up after an exception, not after a death.
* `NothingUnseen`: lines can be missed at two edges, between the reads and the
  sizes of the first run, and where a cursor stands inside a line.
* `ChosenBlind`: an embargo must cover decision, entry and exit delays as well as
  the horizon. The passing run has one that does (14); the defaults do not (see Findings).
  The path lab's default is no better: 900 s, as long as its longest holding time
  (`path_management_lab.py:23`, `:34`).
* `LineageHolds`: every command compares only the sources of one step. That this
  suffices rests on every step doing it; a report on the candidate does not follow its
  episodes back, and is left out there.

## 5. Proofs

| Theorem | Module | For |
|---|---|---|
| `TypeCorrect`, `SafetyInvariantAlways`, `ExitAtFirstQuoteAlways` | `ShadowEngineProofs` | any timing, feed, and number of deaths |
| `DecisionsReplayAlways` | `ShadowEngineProofs` | any timing, feed, and number of deaths; of `WarmSpec`, the specification with the history of the warm-up |
| `NeverIgnoredAlways` | `ShadowEngineProofs` | the same; the inequality of the frozen timing is the property's own premise |
| `IgnoredExactlyWhileOpenAlways` | `ShadowEngineProofs` | any timing, as long as no run has died |
| `AccountKept` (`ShadowEngine` implements `ShadowAccount`) | `ShadowEngineProofs` | any timing; assumes `MaxCrashes = 0` |
| `LockTypeCorrect`, `HolderOwnsLockAlways`, `MutualExclusionAlways` | `RunLockProofs` | any processes and deaths; the last two assume `PinOpenFiles` |
| `CommitPointAlways`, `SupersededOnceAlways`, `WriteOnceAlways` | `CampaignRootProofs` | any number of operators and deaths |
| `ShadowInvariant`, `InvalidatedNeverCountsAlways`, `WeeklyOnceAlways`, `AloneItHoldsAlways` | `ShadowInvalidationProofs` | any number of signals, runs, operators, evaluators and deaths |
| `DrawdownIsWorstStretchAlways` | `ShadowInvalidationProofs` | the same, with any whole returns |
| `ArchiveAlways`, `ArchiveCompleteAlways`, `DatasetExactAlways`, `ArchivedStaysAlways` | `TickArchiveProofs` | any days, lines, chunk sizes, old snapshots and deaths |
| `ReadyCountsOnceAlways` | `TickArchiveProofs` | the same |
| `ReaderAlways`, `NothingUnseenAlways`, `RereadOnlyAheadAlways` | `TickArchiveProofs` | the same, with the engine's reader |
| `RegistryAlways`, `RegistryHoldsAlways` | `PublicationProofs` | any labs, researchers, runs and deaths |
| `PublicationAlways`, `OneManifestAlways`, `RefusedOnlyAfterTroubleAlways` | `PublicationProofs` | every source of every kind, any callers, failures and deaths |
| `ContentAlways`, `PublishedIsWholeAlways` | `PublicationProofs` | typed sources of any size (`Sourced`), any batch size, day length, callers, failures and deaths |
| `LineageAlways`, `LineageHoldsAlways` | `PublicationProofs` | any writers, feature configurations, failures and deaths |
| `NewsAlways`, `FirstSeenStaysAlways` | `OfflineProofs` | any articles (`NewsConfig`), ingestions and deaths |
| `BacktestAlways`, `BacktestHoldsAlways` | `OfflineProofs` | any intents, ticks, costs and data sets (`BacktestConfig`) |

Each argument is an inductive invariant, which TLC checked first.

*ShadowEngine.* `ExitAtFirstQuote` speaks of ledgers and feed only and is not inductive: a
step that appends an exit must know that no earlier batch held a due
quote, and that the position in memory is the one the ledger shows. `SafetyInvariant` says
so: the feed is ordered and reaches no further than the clock
(`FeedOrdered`); the saved position is the last entry of its signal in the
ledger and no row before the cursor was due for it (`SavedState`, with `Backed`
and `Awaits`); a run works on the state that is saved and on a prefix of the feed
(`RunOnSavedState`); and what it has opened or still holds while it decides is
backed and awaits its exit beyond the rows read (`Deciding`). The interesting
case is a run that decides a signal again after a death: the new entry
has the same signal as an orphaned one, and is later in the ledger, which is why
`Backed` asks for the last entry. The minimum and maximum of a set, which the code
uses throughout, come with lemmas `LeastExists` and `GreatestExists` (`OrderingProofs`). Assumptions:
`TimingAssumption` (natural numbers, a bar and a holding time that are not zero),
`NoneAssumption`, `StateAssumption` (a missing state file is no state).

*Its signals.* What ties runs together is the last signal
(`SignalInvariant`): it is behind every bar that is still to be decided, no earlier
than the signal of the position, and a position is due `MaxDelay + Holding` after its
signal at the latest. A signal met by a position would therefore be a cooldown
away from one that is over, also if the run that decides has just closed it. That a signal is
ignored *exactly* while a trade spans it needs the ledgers as well
(`LedgerInvariant`): the entries without an exit are the position held, each entry but the one
being recorded has its signal row, and exits lie within the rows read. A death
breaks this, as the finding below shows, so these parts are stated for
`crashes = 0`. The refinement takes its steps from the same facts: an exit,
a decided signal, or a stutter.

*Its decisions.* `DecisionsReplay` compares the signals of many runs with one pass
over the bars. A pass takes a candidate that comes a cooldown after all it took before;
there is one such set (`GreedyUnique`, `GreedyExists`), and more rows leave what it
says of earlier bars as it was (`SignalledKept`). Both are inductions in the form of a
least counterexample: among the bars where two passes differ there is a first. The
recursive function of the pass is unfolded as the CHOOSE it stands for
(`ReplayIsGreedy`). `DecisionInvariant`, which is inductive, ties the runs to it: the saved last bar is
one up to which the ledger holds all signals of the pass and the saved last signal is
the last of them (`SavedDecisions`); a run is done with the bars before those left to decide, and
its locals tell the last signal and the activity of the last bar, which is all it
takes to continue (`RunDecisions`). This is a theorem of `WarmSpec`, the specification with
nothing but the history variable `warm` added, which remembers where the warm-up ended: the clock and the recorder
move at any step, and rows may share a time. That each signal has one row as long as no run died follows
from `LedgerInvariant`: a signal that is decided is later than all that have a row (`DecidedOnceStep`).

*RunLock.* Mutual exclusion follows from `HolderOwnsLock`: the holder's file is there, its
own, and open. Every step of another process keeps it, because unlinking needs
`~Pinned` and creating needs `Absent`.

*CampaignRoot.* `OneBuilder`: `mkdir(exist_ok=False)` lets one call build, even when others die.
`Progress`: the builder has finished the files before the one it is at, and the
protocol is not whole before it is done. `AfterCommit`: nobody holds a
protocol, nothing runs and nothing is in the parent's ledger before the protocol is whole.
`WriteOnce`, an action property, needs `StillToWrite` besides: what a builder has not
reached yet is not whole.

*ShadowInvalidation.* An evaluation needs no exclusion to be blind to what is invalid: what it
knows to be is in the ledger, which only grows, and its report is there before its row
(`EvaluationBlind`). That the row is the only one needs that it is alone
(`EvaluationAlone`): what it found missing is then still missing when it appends, and
this ends with `together`. The state needs more: `InTurn` says that of the run and all invalidations one
at most is under way, working on what the others have saved, and it ends with `overlapped`.
`DrawdownIsWorstStretch` compares one loop over the trades with every stretch of them. The
loop carries an account, and after each trade its peak is the greatest equity so far and its
worst the greatest fall from an earlier equity to a later one (`WorstIs`); that fall is the loss over
the trades between (`StretchIs`). This is shown of every list of whole returns
(`DrawdownOfReturns`) by a least counterexample, `SumOf` and `MaximumDrawdown` being
recursive functions. That the trades of a campaign are such a list needs the sort: of one
signal there is one trade, and a signal comes first in one row only, so the order is total
(`TradesAre`, `NetsAre`). Assumption: `NumbersAssumption` (returns and the time are whole numbers).

*TickArchive.* `Covered`: each line up to the saved offset is in a whole chunk, and
`CollectInvariant` says the same of where each chunk begins, so that a
collector that died between manifest and state appends from an old
offset and leaves no hole. `DatasetExact` follows, since whatever manifests a reader
selects either leave a hole, which makes the selection invalid, or reach from the
header to some line. `PruneInvariant`: what a cleanup takes away is in a longer snapshot that
it keeps. The reader of the engine has two invariants, one between runs
(`SavedInvariant`: what is behind a saved cursor was seen or stood at an edge) and
one within (`ReaderInvariant`: the same of the days it is done with). `ArchiveAssumption` asks that
the old snapshots are finitely many, named by numbers; the smallest and largest
member of a set of numbers, which the code takes with `min` and `max`, are lemmas here.

`ReadyCountsOnce` says that without a second copy of a row in the chunks, the ticks counted are
those of the data set. A reader's rows are tagged with the chunk and the place they stand at;
without a copy the row of a tag names the tag, so the tags and the rows
of the data set are equally many. This replaces a sum over chunks, which would need induction over a
finite set.

*ExperimentRegistry.* Whoever is about to append has read a beginning of the log
without its own lab (`LogInvariant`). If another line came in between, two lines
have the same number, and the registry cannot be read: so one that can be read has
no experiment twice. `ReportInvariant` gives a report that is written once
one writer, `mkdir` being the race's only judge. `QuietInvariant` carries the
last part, runs one after the other. The first attempt at this proof failed,
and rightly so: that two runs had met was forgotten with the next one of the same
researcher, and `RegistryHolds` was false with a fourth run. `overlapped` is now
kept for good, and TLC explores four runs. Assumption: `LabsAssumption`, there is a lab.

*DatasetPublication.* A lemma for each action (`BeginIs` to `RaiseIs`) reduces it to what it does
to the two directories, ten kinds in all (`StepIs`); the invariants are
proved by these. `BuildInvariant`: one call at most builds, in a directory that is as far
as the call is, and a directory that is neither finished nor being built was left
behind. `AloneInvariant`: as long as a call is alone, it can rely on what it
has looked up. A manifest that is whole never changes (`WholeStays`), and from this
there is only one. Of the source nothing is assumed here: whether it is
accepted plays no part.

`PublishedIsWhole` needs what is inside. `ContentInvariant` says of a call that writes: its
rows so far are in order, the files and the open batch together hold them, a file for each day
(`Written`), and its counts are those of these rows (`ContentOf`); of a directory with a
whole manifest: all of its source is there and is counted (`FinalContent`). A row adds itself to what was written,
whether the day turns, the batch is full, both, or neither (`PutHolds`, on `FlushHolds`,
`ExtendFile` and `NewFile`); counting row by row gives what the rows say as a whole
(`StatsNext`). Since one call at most builds (`BuildInvariant`), nobody else touches its files
(`OthersKeep`). That files of increasing days, read one after the other, give
the rows in their order (`ReplayHolds`) is once more an argument by a least counterexample on the recursive function of the
reader (`RereadIs`). The sorts of the code are the operator `InOrder`: for a finite set and a strict order the
place of a member is how many come before it, so each place is taken once
(`InOrderIs` of `OrderingProofs`). Assumptions: `FeedAssumption`
(a day, a batch and a gap have sizes), `ZoneAssumption` (an offset is a number), and `Sourced` for
the source: rows have the types their readers give them, and the JForex folder
is finite, with batches that end after they begin, as the exporter writes them
(`ScalpForgeHistoricalExporter.java:90-102`).

*ResearchLineage.* `LineageHolds`, that a report of joined data sets goes back to one history and
one configuration, follows from names alone. A name tells the names of all its sources, as the code
hashes them into it (`NameTellsSources`), so two artifacts that name the same
source have the same ancestors along it. What the condition of one step compares is
so carried to the root (`ParentsHaveRoot`; ancestors are the parents, taken five
times, the length of the longest chain). `LineageInvariant` says of each
kind on the shelf with what it was formed (`Formed`), of all sources that
they are there, and the same of what a writer is about to write: the shelf only grows
(`ShelfGrows`), so what was there when it read its sources still is.

*NewsArchive.* A merge leaves one event for each key (`KeptIs`) and takes nothing that was not in an
archived response (`MergeSound`). That no event is lost and no line torn needs `Alone`: one ingestion is under
way at a time, it is the latest, so of two events with one key the one in the file was received first and is
kept (`MergeKeeps`); what it is to write holds all of the file as it still is; and the temporary file holds
exactly the lines it has written so far, of which the last may be torn (`Latest`, `SofarIs`), until it is closed.
Of ingestions that meet only the types are proved, and that who writes into the temporary file has one
(`Filling`). The dictionary and the sort of the code are here the set of events that came first for
their key (`Kept`), put in order (`Deduplicate`). Assumption: `NewsConfig`, a response is a sequence of articles.

*Backtest.* `BacktestHolds` says nothing of a position that is still held and of intents that wait, so it is
not inductive. `TestInvariant` adds the count of them (`Accounted`); that ticks and waiting
intents are in order, and that no tick but the last was late enough for what waits (`InLine`), from which a position
opens at the first tick it can; and that the held position has met neither stop nor target, has its stop on
the losing side, and began after the last trade (`HeldRight`), so that it becomes a trade that is right (`ClosedRight`).
`StopLoses` is the arithmetic of a stop: what is given up, slippage and commissions. The order of the
intents is once more `InOrderIs`. For the replay, `EngineInvariant` says that the queue goes on with the number after the last event
handled of this run, or from the first, and that the clock stands at the last event. Assumption: `BacktestConfig`,
costs and latency are not negative, quantity and bids positive, as the code validates, and no ask is below
its bid (`models.py` of `backtest` and of `core`); numbers are integers.

Only model-checked:

* liveness, which is beyond the prover: `PositionsClose`, `RunsGoOn`,
  `SupersessionRecorded`, `LinesArchived`;
* what is computed by a fold over data. These library operators take an
  operator as a parameter, which the provers cannot instantiate, so that not even their first step can
  be used; the ways round it, a recursive function unfolded by hand as for `DecisionsReplay`,
  `PublishedIsWhole` and `DrawdownIsWorstStretch`, or saying what the fold leaves as for `FirstSeenStays`, were taken
  where they say most. So remain `ReplayHolds` of `CandidateReplay`, and everything in `research`.

## 6. Findings

* **A death between entry and save orphans a position** (`shadow_one_position`).
  The entry row is appended (`demo_shadow_engine.py:173`) before the state is
  saved (`:215`). If the run dies in between, the next run decides the signal
  again, by then too late, records it as rejected, and never closes the entry. A later signal opens a
  second position, against `one_position_maximum_ignore_signals_while_open`
  (`demo_shadow_protocol.py:58`).
* **The entry is not the first quote** (`shadow_entry_quote`). `_live_entry_quote`
  returns the latest eligible quote (`:438`), where the frozen specification
  names `first_observed_avatrade_executable_side_after_signal`
  (`demo_shadow_protocol.py:56`).
* **A rolled-over campaign stops after its first saved run** (`campaign_bootstrap`).
  The engine saves `schema_version` 2 (`:211`); `verify_bootstrap` requires 3
  in every campaign that a rollover started (`demo_shadow_rollover.py:171`).
* **The default embargo lets the test into the choice** (`research_embargo`).
  `quote_pressure_lab.py:43` sets an embargo of 3600 s, as long as the longest
  horizon; a trade at the end of the validation interval also takes the signal
  delay and the quote delay, so that it ends on quotes of the test interval and
  its result counts in the choice of the threshold. The documentation says that a fold
  searches "using only its training and validation intervals"
  (`docs/quote-pressure-lab.md:10-12`).
* **A mitigated zone becomes fresh again** (`research_zones`).
  `build_gold_strategy_states` looks for a zone in the last three completed M15 bars at each row,
  and puts what it finds in place of the zone it has (`gold_strategy_states.py:80-83`). While
  these three bars are the last ones, that is the same zone without the mitigation a row before has set
  (`:91`), so `fvg_mitigated` goes back to false and the zone's retracement can come up a second
  time. The documentation promises "persistent M15 three-candle FVG zones with expiry and
  mitigation state" (`docs/gold-strategy-states.md:8`). `GoldHolds` of the passing run claims of mitigation
  one direction only: of a zone that is mitigated, a row has closed in it since it was formed.

## 7. What is not modelled

Within the modelled components:

* `ShadowEngine`: prices and indicators (they are in `CandidateReplay`), health
  rows, the reading of files (in `QuoteReader`), the invalidation (in
  `ShadowInvalidation`): four views of one function, not composed into one
  state space. Two engines at the same time: `RunLock` shows when that can
  happen; the engine CLI and `Run-ScalpForgeDemoShadow.ps1` bypass the lock.
* `RunLock`: rows of the run log and the outcome of a run; the PowerShell scripts.
* `CampaignRoot`: the evidence checks before the directory is looked for, which
  read files nobody changes meanwhile.
* `TickArchive`: source files that shrink, sequence numbers and sessions of the
  recorder after a restart, file errors of the recorder.
* `ShadowEvaluation`: metrics that no gate reads.
* `SourceFeeds`: parsing of text and numbers, and the check that a partition lies inside
  the directory of its data set (`dataset.py:28-33`).
* `DatasetPublication`: what two copies of one JForex batch over each other, or a death, leave of
  it in the archive.
* `GapAudit`: daylight saving; the calendar has one offset.
* The labs: bootstrap intervals, random controls, scores and rankings built on
  them, and descriptive tables. They are floating-point statistics over finished trades.
* `baselines.py`, `structural_lab.py`, `session_strategy_lab.py`,
  `shock_resiliency_lab.py`, `feasibility.py`, `abstention_lab.py`: only what they
  are computed from (`ResearchLineage`).

Not at all:

* Virtual portfolio (`portfolio.py`), council and feature pipeline: sums of one
  strategy in memory and pure functions, called by no command.
* Risk governor and brokers: `evaluate` is a list of guards over its arguments
  and keeps nothing; a property would repeat the guards.
* API, worker and journal: a request never really suspends between evaluation,
  paper broker and in-memory journal, so no two interleave; nothing is persisted,
  and the worker is an idle loop.
* Broker reports, copy-trader history, the copy-episode and provider-path labs,
  broker economics, macro calendar, news attribution: parsing and descriptive statistics
  over finished files.
* The JForex exporters, which run inside another platform (`DatasetPublication`
  takes their batches as input), core models and settings, argument parsing in
  the `*_cli.py`, deployment scripts and the database schema.

## 8. Plan

To model: the trades of the session, structural and
shock labs, which share the selection of `SequenceLab`.

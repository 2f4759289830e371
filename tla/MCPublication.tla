---------------------------- MODULE MCPublication ----------------------------
(***************************************************************************)
(* What the offline commands leave on the disk, one scene at a time: data  *)
(* sets published from small source files of each kind, labs with their    *)
(* registry, the archive of news, the chain of data sets and reports, the  *)
(* commands on the recorder's exports, and the event-time core.            *)
(***************************************************************************)
EXTENDS DatasetPublication, ExperimentRegistry, ResearchLineage, NewsArchive, Backtest

VARIABLES scene, rows, task, tasks, published

\* The same article may come again in a later response, and twice in one.
Read(key, at, usable) == [key |-> key, at |-> at, groups |-> {"gold"}, usable |-> usable]
Responses == {<<Read(1, 2, TRUE), Read(2, 1, TRUE)>>,
              <<Read(2, 1, TRUE), Read(3, 1, TRUE), Read(2, 1, TRUE)>>,
              <<Read(4, 1, FALSE)>>}

\* The quotes of a bar: none new, a turn below or above the range, and a late
\* first quote after a bar without quotes.
Bids(skip, offset, bids) == [skip |-> skip, offset |-> offset, bids |-> bids]
BarQuotes == {Bids(0, 0, <<3>>), Bids(0, 0, <<1, 6>>), Bids(0, 0, <<8, 4>>), Bids(1, 1, <<7>>)}
Replays == INSTANCE CandidateReplay WITH
  Bar <- 2, H1Bars <- 1, H4Bars <- 2, Fast <- 2, Slow <- 3, EfficiencyBars <- 2,
  MinimumEfficiency <- 50, TrimSpan <- 8, CooldownTime <- 3, Holdings <- {3, 5}, QuoteAge <- 0,
  Lookback <- 2, ShockBars <- 2, MinimumShock <- 3, MadMultiple <- 1, ShockEfficiency <- 50,
  ConfirmBars <- 1, BoundaryBars <- 2, DayLength <- 6, Bursts <- BarQuotes, MaxBars <- 7,
  MaxTasks <- 2

Wants(at, side) == [at |-> at, side |-> side, stop |-> 3, target |-> 3]
MCIntents == SeqOf({Wants(0, 1), Wants(1, 1), Wants(1, -1), Wants(2, 1), Wants(2, 0)}, 2)
TickAfter(step, bid) == [step |-> step, bid |-> bid, ask |-> bid + 1]
MCTickQuotes == {TickAfter(1, 10), TickAfter(1, 15), TickAfter(1, 5), TickAfter(3, 10)}
\* Two partitions each, of which one begins before the other has ended, and a last one.
MCDatasets == {<<1, 2>> \o <<2, 3>>, <<2>> \o <<1, 4>>, <<3>>}

ASSUME ReplayAssumption == Replays!CandidateReplayConfig /\ BacktestConfig
ASSUME NewsAssumption == NewsConfig

Row(at, own, bid) == [at |-> at, own |-> own, bid |-> bid, ask |-> 2]
TickRows == {Row(1, FALSE, 1), Row(2, FALSE, 1), Row(3, FALSE, 1), Row(1, TRUE, 1), Row(2, FALSE, 3)}
Trade(ticket, opened, closed, exit) ==
  [ticket |-> ticket, opened |-> opened, closed |-> closed, entry |-> 1, exit |-> exit]
TradeRows == {Trade(1, 2, 3, 1), Trade(2, 1, 0, 0), Trade(2, 2, 2, 1), Trade(1, 2, 1, 1)}
Quote(at) == [at |-> at, bid |-> 1, ask |-> 2]
Batch(from, to, ats) ==
  [from |-> from, to |-> to, ticks |-> [i \in DOMAIN ats |-> Quote(ats[i])], count |-> Len(ats)]
Exports == {Batch(0, 2, <<0, 1, 1>>), Batch(2, 4, <<2, 2>>), Batch(2, 4, <<4>>),
            Batch(1, 3, <<1>>), Batch(4, 6, <<>>)}

SideRow(at, price, flat) == [at |-> at, price |-> price, flat |-> flat]
SideRows == {SideRow(1, 2, TRUE), SideRow(2, 1, TRUE), SideRow(2, 2, FALSE)}

storeVars == <<kind, source, final, staging, archive, call, blocked>>
replayVars == <<rows, task, tasks, published>>
coreVars == <<backtestVars, engineVars>>
allVars == <<vars, scene, registryVars, newsVars, lineageVars, replayVars, coreVars>>

SeqsUpTo(set, n) == UNION {[1 .. k -> set] : k \in 1 .. n}
Sources ==
  \/ kind = "ticks" /\ source \in SeqsUpTo(TickRows, 3) /\ archive = <<>>
  \/ kind = "merge" /\ archive = <<>>
     /\ source \in [asks : SeqsUpTo(SideRows, 2), bids : SeqsUpTo(SideRows, 2)]
  \/ kind = "trades" /\ source \in SeqsUpTo(TradeRows, 3) /\ archive = <<>>
  \/ /\ kind = "jforex"
     /\ source \in [folder : (SUBSET Exports) \ {{}}, from : {0, 2}, to : {6}]
     /\ Cardinality(source.folder) <= 3
     /\ archive \in [Exports -> {"none"}] \cup [Exports -> {"none", "other"}]
     /\ \A b \in Exports : archive[b] = "other" => b \in source.folder /\ b.count = 3
MCInit ==
  /\ Init /\ RegistryInit /\ NewsInit
  /\ LineageInit /\ Replays!ReplayInit /\ BacktestInit
  /\ \/ scene = "data set" /\ Sources
     \/ scene \in {"lab", "news", "lineage", "replay", "backtest"} /\ kind = "ticks" /\ source = <<>> /\ archive = <<>>
  /\ shelf = {} \/ scene = "lineage"
  /\ intents = <<>> \/ scene = "backtest"
Store == scene = "data set" /\ Next /\ UNCHANGED <<registryVars, scene, newsVars, lineageVars, replayVars, coreVars>>
Experiment == scene = "lab" /\ RegistryNext /\ UNCHANGED <<scene, storeVars, calls, deaths, newsVars, lineageVars, replayVars, coreVars>>
\* Of ingestions that have met, about which nothing is claimed, only few lines, and no death.
Few(lists) == \A list \in lists : Len(list) <= 2
Ingestion ==
  /\ scene = "news" /\ NewsNext
  /\ shared' => /\ newsDeaths' = 0 /\ Few({events'} \cup Range(temporary'))
                /\ Few({ingest'[c].combined : c \in Ingesters})
                /\ \A c \in Ingesters : ingest'[c].at = 3 => Len(ingest'[c].payload) = 1
  /\ UNCHANGED <<scene, storeVars, calls, deaths, registryVars, lineageVars, replayVars, coreVars>>
Compute == scene = "lineage" /\ LineageNext /\ UNCHANGED <<scene, storeVars, calls, deaths, registryVars, newsVars, replayVars, coreVars>>
\* Commands run beside the recorder only while few bars are written.
Rerun == /\ scene = "replay" /\ Replays!ReplayNext
         /\ Len(rows') <= 3 \/ tasks' = 0
         /\ UNCHANGED <<scene, storeVars, calls, deaths, registryVars, newsVars, lineageVars, coreVars>>
\* The replay and the backtest share nothing: one of them at a time.
Test == /\ scene = "backtest" /\ BacktestNext /\ (replays' = 0 \/ ticks' = <<>>)
        /\ UNCHANGED <<scene, storeVars, calls, deaths, registryVars, newsVars, lineageVars, replayVars>>
MCNext == Store \/ Experiment \/ Ingestion \/ Compute \/ Rerun \/ Test
MCSpec == MCInit /\ [][MCNext]_allVars

ReplayHolds == Replays!ReplayHolds
=============================================================================

------------------------------ MODULE MarketTape ------------------------------
(***************************************************************************)
(* A tape of quotes runs through the streams of the research data sets:    *)
(* each quote may complete a bar of a second, whose features then reach    *)
(* the structure, the session ranges and the decision bars.  At the end    *)
(* the tape is closed and the outcomes and episodes are computed.          *)
(***************************************************************************)
EXTENDS GapAudit

CONSTANTS Bursts,  \* what may come at once: sequences of [step, bid, spread]
          MaxTicks, MaxTime

VARIABLES tape, bar, features, structure, ranges, hours, closed

vars == <<tape, bar, features, structure, ranges, hours, closed>>

\* A finished bar of a second goes through all streams.
Flow(bars) ==
  /\ features' = FoldLeft(AddFeatures, features, bars)
  /\ LET new == SubSeq(features'.rows, Len(features.rows) + 1, Len(features'.rows))
     IN  /\ structure' = FoldLeft(AddStructure, structure, new)
         /\ ranges' = FoldLeft(AddRanges, ranges, new)
         /\ hours' = FoldLeft(AddHour, hours, new)

\* Times never go back: such a tape raises.
Tick(last, quote) == [at |-> last + quote.step, bid |-> quote.bid, ask |-> quote.bid + quote.spread]
Ticks(last, burst) ==
  FoldLeft(LAMBDA ticks, q : Append(ticks, Tick(IF ticks = <<>> THEN last ELSE Last(ticks).at, q)), <<>>, burst)
\* A tick goes on with the bar of its second or completes it.
Collect(s, tick) == IF SameSecond(s.bar, tick) THEN [s EXCEPT !.bar = <<WithTick(@[1], tick)>>]
                    ELSE [bar |-> <<NewBar(tick)>>, done |-> s.done \o s.bar]
Arrive(burst) ==
  /\ ~closed /\ Len(tape) < MaxTicks
  /\ LET ticks == Ticks(IF tape = <<>> THEN 0 ELSE Last(tape).at, burst)
         collected == FoldLeft(Collect, [bar |-> bar, done |-> <<>>], ticks)
     IN  /\ Last(ticks).at <= MaxTime /\ tape' = tape \o ticks
         /\ bar' = collected.bar /\ Flow(collected.done)
  /\ UNCHANGED closed

Close ==
  /\ ~closed /\ tape # <<>> /\ closed' = TRUE /\ Flow(bar)
  /\ UNCHANGED <<tape, bar>>

Init ==
  /\ tape = <<>> /\ bar = <<>> /\ closed = FALSE
  /\ features = NoFeatures /\ structure = NoStructure /\ ranges = NoRanges /\ hours = NoHours
Next == (\E burst \in Bursts : Arrive(burst)) \/ Close
Spec == Init /\ [][Next]_vars

----------------------------------------------------------------------------
(* Properties.                                                             *)

Bars == [i \in DOMAIN features.rows |-> features.rows[i].bar]
Upto(i) == {k \in DOMAIN Bars : k < i}
Mids(set) == {Bars[k].mid : k \in set}

\* Each bar holds the quotes of its second.
BarsHold ==
  \A i \in DOMAIN Bars :
    LET ticks == SelectSeq(tape, LAMBDA t : t.at \div Second = Bars[i].at)
    IN  /\ ticks # <<>> /\ Bars[i].ticks = Len(ticks)
        /\ Bars[i].openAt = ticks[1].at /\ Bars[i].openBid = ticks[1].bid
        /\ Bars[i].bid = Last(ticks).bid /\ Bars[i].ask = Last(ticks).ask
        /\ Bars[i].changes = Cardinality({k \in 2 .. Len(ticks) :
                                            ticks[k].bid # ticks[k - 1].bid \/ ticks[k].ask # ticks[k - 1].ask})

\* A feature looks back over exactly its window; a return goes back to the last
\* bar at or before its horizon, unless that is older than the whole history.
FeaturesHold ==
  \A i \in DOMAIN Bars :
    LET row == features.rows[i]
        recent == {k \in Upto(i) : Bars[k].at >= Bars[i].at - VolatilityWindow}
    IN  /\ Len(row.steps) = Cardinality(recent) + 1 /\ row.rate[3] = Cardinality(recent)
        /\ row.rate[2] = Cardinality({t \in DOMAIN tape :
                           \E k \in recent : tape[t].at \div Second = Bars[k].at})
        /\ \A h \in ReturnHorizons :
             LET prior == {k \in Upto(i) : Bars[k].at <= Bars[i].at - h}
             IN  row.returns[h] =
                   IF prior = {} \/ Bars[Max(prior)].at < Bars[i].at - MaximumHistory - 1 THEN <<>>
                   ELSE <<Bars[i].mid, Bars[Max(prior)].mid>>

\* The heads of the queues are the extremes of the window, and the VWAP covers
\* the rows since the session began or a gap ended.
StructureHolds ==
  \A i \in DOMAIN Bars :
    LET row == structure.rows[i]
        Key(k) == <<DayOf(Bars[k].at), Session(Bars[k].at)>>
        starts == {k \in 1 .. i : k = 1 \/ Key(k) # Key(k - 1) \/ features.rows[k].gap}
        since == [n \in 1 .. (i - Max(starts) + 1) |-> Max(starts) + n - 1]
    IN  /\ \A w \in LevelWindows :
             LET window == {k \in Upto(i) : Bars[k].at >= Bars[i].at - w}
             IN  row.levels[w] = [high |-> MaxOr(Mids(window)), low |-> MinOr(Mids(window))]
        /\ row.vwap = <<FoldLeft(LAMBDA sum, k : sum + Bars[k].mid * Bars[k].ticks, 0, since),
                        FoldLeft(LAMBDA sum, k : sum + Bars[k].ticks, 0, since)>>

\* A range is known from the end of its window on and never before, and it is
\* that of the same day.
RangesHold ==
  \A i \in DOMAIN Bars : \A w \in RangeWindows :
    LET inside == {k \in Upto(i) : /\ DayOf(Bars[k].at) = DayOf(Bars[i].at)
                                   /\ TimeOfDay(Bars[k].at) \in (w.from * Hour) .. (w.to * Hour - 1)}
        known == IF TimeOfDay(Bars[i].at) >= w.to * Hour THEN Mids(inside) ELSE {}
    IN  ranges.rows[i].known[w] = [high |-> MaxOr(known), low |-> MinOr(known)]

\* A decision bar holds the rows of its bucket, and is complete only if no
\* silence longer than the limit ended in it.
HoursHold ==
  closed =>
    \A h \in DOMAIN Hours(hours) :
      LET hour == Hours(hours)[h]
          inside == {k \in DOMAIN Bars : Bars[k].at \in hour.at .. (hour.available - 1)}
      IN  /\ hour.at % DecisionBar = 0 /\ hour.seen = Cardinality(inside) /\ inside # {}
          /\ hour.high = Max(Mids(inside)) /\ hour.low = Min(Mids(inside))
          /\ hour.open = Bars[Min(inside)].mid /\ hour.close = Bars[Max(inside)].mid
          /\ hour.complete <=> \A k \in inside :
                                 k = 1 \/ Bars[k].at - Bars[k - 1].at <= MaximumSilence

\* Every stream agrees with what its rows are declared to hold, computed from
\* the whole tape (research_dataset.py:92-161, structural.py:103-157,
\* session_ranges.py:74-118, multi_hour_dataset.py:116-180).
StreamsHold == BarsHold /\ FeaturesHold /\ StructureHolds /\ RangesHold /\ HoursHold

\* A valid outcome enters no sooner than the row is available and the decision is
\* made, spans its horizon without a gap in the rows, and has the best and worst
\* quotes between.
RowAt(rows, time) == CHOOSE k \in DOMAIN rows : rows[k].bar.openAt = time
Extremes(values) == [high |-> Max(values), low |-> Min(values)]
OutcomeHolds(rows, i, outcome, entry, exit) ==
  /\ outcome.entryAt >= rows[i].availableAt + Latency
  /\ outcome.exitAt - outcome.entryAt \in (Horizon * Second) .. (Horizon * Second + ExitDelay)
  /\ \A k \in (i + 1) .. exit : rows[k].bar.at - rows[k - 1].bar.at <= ContinuityGap
  /\ outcome.bids = Extremes({rows[k].bar.openBid : k \in entry .. exit})
  /\ outcome.asks = Extremes({rows[k].bar.openAsk : k \in entry .. exit})
RowOutcomesHold(rows, whole) ==
  /\ \A core \in 1 .. 3 : StreamedOutcomes(rows, core) = whole
  /\ \A i \in DOMAIN rows :
       whole[i].valid => OutcomeHolds(rows, i, whole[i], RowAt(rows, whole[i].entryAt), RowAt(rows, whole[i].exitAt))
\* That of a decision bar begins when the bar is available and stays in its path.
HourOutcomeHolds(outcome, open) ==
  /\ outcome.entryDelay = 0 /\ outcome.toHigh <= HourHorizon
  /\ outcome.low <= open /\ open <= outcome.high
HourOutcomesHold(bars, rows) ==
  ~HourRaises(bars) =>
    \A i \in DOMAIN bars : HourValid(bars, i) =>
      HourOutcomeHolds(HourOutcome(bars, i), rows[i + 1].bar.open)

\* Outcomes computed window by window, whatever the size of a window, are those
\* of the whole file and hold what they promise (outcomes.py:140-222, :362-389,
\* multi_hour_outcomes.py:56-147).
OutcomesHold ==
  closed => /\ RowOutcomesHold(features.rows, Outcomes(features.rows))
            /\ HourOutcomesHold(Hours(hours), HourRows(Hours(hours)))

\* Joined row by row, at most one episode for each range of a day, each after
\* its range was known and with a side that had been zero before it
\* (session_episodes.py:107-155).
EpisodesHold(rows) ==
  /\ \A i, j \in DOMAIN rows : i # j =>
       rows[i].window # rows[j].window \/ DayOf(rows[i].at) # DayOf(rows[j].at)
  /\ \A i \in DOMAIN rows : /\ rows[i].range # NoRange
                            /\ TimeOfDay(rows[i].at) >= rows[i].window.to * Hour
JoinedHold(rows, ranged, outcomes) ==
  Aligned(rows, ranged, outcomes) /\ EpisodesHold(SessionEpisodes(rows, ranged, outcomes))
EpisodesOnce == closed => JoinedHold(features.rows, ranges.rows, Outcomes(features.rows))

\* The calendar agrees with its windows second by second, and the audit puts no
\* gap down to a cause that cannot be (market_session_calendar.py:33-83,
\* gap_semantics_audit.py:257-330).
AuditHolds ==
  /\ tape = <<>> => \A from \in 0 .. Day, length \in 1 .. Day : CalendarHolds(from, from + length)
  /\ closed /\ BarSeconds(Hours(hours)) = DecisionBar => AttributionHolds(Hours(hours), features.rows)
=============================================================================

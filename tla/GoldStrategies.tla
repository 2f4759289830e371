---------------------------- MODULE GoldStrategies ----------------------------
(***************************************************************************)
(* The gold strategies over the decision bars: the states of the higher    *)
(* frames and the price zones, one step for each bar, the episodes of the  *)
(* families, and what the reports on the frozen candidate make of them:    *)
(* the trades of the development months, the overlaps removed, the reasons *)
(* of rejection and the replay on the tick archive.                        *)
(***************************************************************************)
EXTENDS CausalOutcomes

CONSTANTS
  M15Time, H1Time, H4Time, \* the frames of GoldStateConfig
  FastBars, SlowBars,      \* ema_fast_bars, ema_slow_bars
  AtrBars, ZoneExpiry,     \* atr_bars, fvg_expiry_m15_bars
  ZoneDisplacement,        \* displacement_atr_multiple, in percent
  ShortWindow, LongWindow, LevelWindow, \* of the multi-hour data set
  GoldEfficiency, GoldExpansion, GoldDisplacement, \* thresholds of GoldEpisodeConfig, in percent
  GoldCooldown,            \* family_cooldown_seconds
  Month, WarmupMonths, SealedMonths,
  TickLatency, TickDelay,  \* latency_seconds, maximum_quote_delay_seconds
  MaxGoldBars

VARIABLE gold

GoldConfig ==
  /\ {M15Time, H1Time, H4Time, FastBars, SlowBars, AtrBars, Month} \subseteq Nat \ {0}
  /\ {ShortWindow, LongWindow, LevelWindow} \subseteq HourWindows /\ ShortWindow < LongWindow
ASSUME GoldAssumption == GoldConfig

Frames == [m15 |-> M15Time, h1 |-> H1Time, h4 |-> H4Time]
Families == {"trend_continuation", "boundary_rejection", "displacement_persistence",
             "volatility_expansion", "fvg_retracement"}
Distance(x, y) == IF x > y THEN x - y ELSE y - x
LastBars(seq, n) == SubSeq(seq, Len(seq) - n + 1, Len(seq))

----------------------------------------------------------------------------
(* States.                                                                 *)

\* A bar of a higher frame is complete when a row of another bucket comes.
UpdateBar(forming, bar, bucket) ==
  IF forming = <<>> THEN <<[bucket |-> bucket, open |-> bar.open, high |-> bar.high,
                            low |-> bar.low, close |-> bar.close]>>
  ELSE <<[forming[1] EXCEPT !.high = Max({@, bar.high}), !.low = Min({@, bar.low}),
                            !.close = bar.close]>>
UpdateFrame(frame, bar, length) ==
  LET bucket == bar.at - (bar.at % length)
      turned == frame.forming # <<>> /\ frame.forming[1].bucket # bucket
  IN  [completed |-> IF turned THEN frame.completed \o frame.forming ELSE frame.completed,
       forming |-> UpdateBar(IF turned THEN <<>> ELSE frame.forming, bar, bucket)]

Closes(bars) == [n \in DOMAIN bars |-> bars[n].close]
\* An average is a pair <<numerator, denominator>>.
EmaOf(bars, period) ==
  LET closes == Closes(LastBars(bars, period))
      Step(mean, close) == <<2 * close * mean[2] + (period - 1) * mean[1], (period + 1) * mean[2]>>
  IN  FoldLeft(Step, <<closes[1], 1>>, Tail(closes))
TrendSide(bars) ==
  IF Len(bars) < Max({FastBars, SlowBars}) THEN 0
  ELSE LET fast == EmaOf(bars, FastBars)
           slow == EmaOf(bars, SlowBars)
           difference == fast[1] * slow[2] - slow[1] * fast[2]
       IN  IF difference > 0 THEN 1 ELSE IF difference < 0 THEN -1 ELSE 0

\* The true ranges of the last bars, added up.
TrueRanges(bars, n) ==
  LET TrueRange(k) == Max({bars[k].high - bars[k].low, Distance(bars[k].high, bars[k - 1].close),
                        Distance(bars[k].low, bars[k - 1].close)})
  IN  FoldLeft(+, 0, [k \in 1 .. n |-> TrueRange(Len(bars) - n + k)])
\* The body of the last bar over the average true range, nothing if there is none.
DisplacementOf(bars) ==
  IF Len(bars) < AtrBars + 1 \/ TrueRanges(bars, AtrBars) = 0 THEN <<>>
  ELSE <<Distance(Last(bars).close, Last(bars).open) * AtrBars, TrueRanges(bars, AtrBars)>>

\* A zone: the middle of three bars is large and the outer two leave a gap.
ZoneOf(bars) ==
  LET three == LastBars(bars, 3)
      ranges == TrueRanges(three, 2)
      Zone(side, low, high) ==
        <<[side |-> side, low |-> low, high |-> high, formed |-> Len(bars), mitigated |-> FALSE]>>
  IN  IF Len(bars) < 3 THEN <<>>
      ELSE IF ranges = 0 \/ 200 * Distance(three[2].close, three[2].open) < ZoneDisplacement * ranges THEN <<>>
      ELSE IF three[3].low > three[1].high THEN Zone(1, three[1].high, three[3].low)
      ELSE IF three[3].high < three[1].low THEN Zone(-1, three[3].high, three[1].low)
      ELSE <<>>
\* Mutation: a zone is not replaced while it is active.
NextZoneKept(zone, bars, close) ==
  IF zone # <<>> /\ Len(bars) - zone[1].formed <= ZoneExpiry
  THEN IF close \in zone[1].low .. zone[1].high THEN <<[zone[1] EXCEPT !.mitigated = TRUE]>> ELSE zone
  ELSE ZoneOf(bars)
\* A zone formed by the last three bars takes the place of the one before at
\* each row, so a row may find it anew after it was mitigated.
Newest(found, zone) == IF found # <<>> THEN found ELSE zone
Aged(active, count, close) ==
  IF active = <<>> \/ count - active[1].formed > ZoneExpiry THEN <<>>
  ELSE IF close \in active[1].low .. active[1].high THEN <<[active[1] EXCEPT !.mitigated = TRUE]>>
  ELSE active
NextZone(zone, bars, close) == Aged(Newest(ZoneOf(bars), zone), Len(bars), close)

Rejection(bar, levels) ==
  IF levels.high # <<>> /\ bar.high > levels.high[1] /\ bar.close < levels.high[1] THEN -1
  ELSE IF levels.low # <<>> /\ bar.low < levels.low[1] /\ bar.close > levels.low[1] THEN 1 ELSE 0
\* |last - first| and the length of the path; the squares of the steps and their number.
PathEfficiency(closes) ==
  <<Distance(Last(closes), closes[1]),
    FoldLeft(+, 0, [n \in 2 .. Len(closes) |-> Distance(closes[n], closes[n - 1])])>>
StepSquares(closes) ==
  <<FoldLeft(+, 0, [n \in 2 .. Len(closes) |-> (closes[n] - closes[n - 1]) * (closes[n] - closes[n - 1])]),
    Len(closes) - 1>>
StateOf(row, frames, zone) ==
  [at |-> row.bar.occurred, available |-> row.bar.available, trend |-> TrendSide(frames.h1.completed),
   move |-> LET h4 == frames.h4.completed
            IN  IF Len(h4) < 2 THEN 0 ELSE Last(h4).close - h4[Len(h4) - 1].open,
   displacement |-> DisplacementOf(frames.m15.completed),
   efficiency |-> PathEfficiency(row.path[ShortWindow]),
   expansion |-> <<StepSquares(row.path[ShortWindow]), StepSquares(row.path[LongWindow])>>,
   zone |-> zone, rejection |-> Rejection(row.bar, row.levels[LevelWindow])]

----------------------------------------------------------------------------
(* Episodes.                                                               *)

\* What is seen at a row, by family with its side.
GoldCandidates(s) ==
  LET aligned == s.move * s.trend > 0
      efficient == s.efficiency[2] > 0 /\ 100 * s.efficiency[1] >= GoldEfficiency * s.efficiency[2]
      displaced == s.displacement # <<>> /\ 100 * s.displacement[1] >= GoldDisplacement * s.displacement[2]
      short == s.expansion[1]
      long == s.expansion[2]
      expanded == long[1] > 0 /\ 10000 * short[1] * long[2] >= GoldExpansion * GoldExpansion * long[1] * short[2]
      Seen(family, is, side) == IF is THEN {[family |-> family, side |-> side]} ELSE {}
  IN  Seen("trend_continuation", aligned /\ efficient, s.trend)
        \cup Seen("boundary_rejection", s.rejection # 0, s.rejection)
        \cup Seen("displacement_persistence", aligned /\ efficient /\ displaced, s.trend)
        \cup Seen("volatility_expansion", aligned /\ efficient /\ expanded, s.trend)
        \cup (IF s.zone # <<>> /\ s.zone[1].mitigated
              THEN Seen("fvg_retracement", TRUE, s.zone[1].side) ELSE {})
FamiliesOf(candidates) == {c.family : c \in candidates}

\* An episode where a family comes up again, if its last one is long enough ago.
GoldEpisodesAt(s, active, episodes) ==
  LET Cooled(family) == \A e \in Range(episodes) :
                          e.family = family => s.at - e.at >= GoldCooldown
      fresh == {c \in GoldCandidates(s) : c.family \notin active /\ Cooled(c.family)}
  IN  {[at |-> s.at, row |-> 0, family |-> c.family, side |-> c.side] : c \in fresh}

NoGold == [bars |-> <<>>, frames |-> [f \in DOMAIN Frames |-> [forming |-> <<>>, completed |-> <<>>]],
           zone |-> <<>>, states |-> <<>>, episodes |-> <<>>]
WithBar(s, bar) ==
  [s EXCEPT !.bars = Append(@, bar),
            !.frames = [f \in DOMAIN Frames |-> UpdateFrame(s.frames[f], bar, Frames[f])]]
WithZone(s) == [s EXCEPT !.zone = NextZone(@, s.frames.m15.completed, Last(s.bars).close)]
WithState(s) == [s EXCEPT !.states = Append(@, StateOf(HourRow(s.bars, Len(s.bars)), s.frames, s.zone))]
WithEpisodes(s) ==
  LET active == IF Len(s.states) = 1 THEN {} ELSE FamiliesOf(GoldCandidates(Last(Front(s.states))))
  IN  [s EXCEPT !.episodes =
         @ \o SetToSeq({[e EXCEPT !.row = Len(s.bars)] : e \in GoldEpisodesAt(Last(s.states), active, @)})]
AddGoldBar(s, bar) == WithEpisodes(WithState(WithZone(WithBar(s, bar))))

----------------------------------------------------------------------------
(* Reports on the candidate.                                               *)

\* Warm-up and sealed holdout are whole months; with none in between the run raises.
Development(bars) ==
  LET MonthOf(at) == at - (at % Month)
  IN  (MonthOf(bars[1].occurred) + WarmupMonths * Month)
        .. (MonthOf(Last(bars).occurred) + Month - SealedMonths * Month - 1)
Considered(s, family) ==
  SelectSeq(s.episodes, LAMBDA e : e.family = family /\ e.at \in Development(s.bars))

\* The trades of the tournament: long or short side of the outcome.
NetOf(outcome, side) ==
  IF side = 1 THEN outcome.long[1] - outcome.long[2] ELSE outcome.short[1] - outcome.short[2]
TournamentTrades(s, family) ==
  LET valid == SelectSeq(Considered(s, family), LAMBDA e : HourValid(s.bars, e.row))
  IN  [n \in DOMAIN valid |-> [at |-> valid[n].at, side |-> valid[n].side,
                               net |-> NetOf(HourOutcome(s.bars, valid[n].row), valid[n].side)]]

\* Why an episode has no trade: the first thing found on the way to its exit.
InvalidReason(bars, i, valid) ==
  LET entry == i + 1
      exit == entry + HourHorizon \div DecisionBar
      Late(k) == bars[k].occurred - bars[k - 1].occurred # DecisionBar
      broken == {k \in entry .. exit : ~bars[k].complete \/ Late(k)}
  IN  IF valid THEN "none"
      ELSE IF entry > Len(bars) THEN "entry_quote_unavailable"
      ELSE IF exit > Len(bars) THEN "exit_beyond_dataset"
      ELSE IF broken = {} THEN "outcome_invalid_other"
      ELSE IF ~bars[Min(broken)].complete THEN "flagged_gap"
      ELSE "market_closure_or_missing_bar"
\* The robustness report looks for it in all bars, the trend audit in those of
\* the development months.
RobustnessReason(s, e) == InvalidReason(s.bars, e.row, HourValid(s.bars, e.row))
AuditReason(s, e) ==
  LET before == Cardinality({n \in DOMAIN s.bars : s.bars[n].occurred < Min(Development(s.bars))})
  IN  InvalidReason(SelectSeq(s.bars, LAMBDA b : b.occurred \in Development(s.bars)),
                    e.row - before, HourValid(s.bars, e.row))
\* The trades of the robustness report with their times; the trend audit has the
\* same ones last from their signals on.
CandidateTrades(s) ==
  LET valid == SelectSeq(Considered(s, "trend_continuation"), LAMBDA e : RobustnessReason(s, e) = "none")
      EntryAt(e) == s.bars[e.row + 1].occurred
  IN  [n \in DOMAIN valid |->
         [at |-> valid[n].at, side |-> valid[n].side, from |-> EntryAt(valid[n]),
          to |-> EntryAt(valid[n]) + HourHorizon,
          net |-> NetOf(HourOutcome(s.bars, valid[n].row), valid[n].side)]]
AuditedTrades(trades) ==
  [n \in DOMAIN trades |-> [trades[n] EXCEPT !.from = trades[n].at, !.to = trades[n].at + HourHorizon]]

\* One position at a time, in the order of their entries.
NoTrades == [accepted |-> <<>>, rejected |-> 0, most |-> 0, open |-> {}]
WithTrade(s, trade) ==
  LET open == {t \in s.open : t.to > trade.from} \cup {trade}
      meets == s.accepted # <<>> /\ trade.from < Last(s.accepted).to
  IN  [accepted |-> IF meets THEN s.accepted ELSE Append(s.accepted, trade),
       rejected |-> IF meets THEN s.rejected + 1 ELSE s.rejected,
       most |-> Max({s.most, Cardinality(open)}), open |-> open]
RemoveOverlaps(trades) == FoldLeft(WithTrade, NoTrades, trades)
\* The ledger that the robustness report leaves for the replay.
Ledger(s) == RemoveOverlaps(CandidateTrades(s)).accepted

----------------------------------------------------------------------------
(* The replay on ticks.                                                    *)

\* The archive holds the first and the last quote of each bar, by days.
TicksOf(bar) ==
  LET first == [at |-> bar.at, bid |-> bar.openBid, ask |-> bar.openAsk]
      last == [at |-> bar.occurred, bid |-> bar.bid, ask |-> bar.ask]
  IN  IF bar.occurred = bar.at THEN <<first>> ELSE <<first, last>>
BarTicks(bars) == FoldLeft(LAMBDA ticks, bar : ticks \o TicksOf(bar), <<>>, bars)

\* The days loaded for the trades entered on one day, if they are there.
LoadedTicks(archive, trades, day) ==
  LET days == {day} \cup {DayOf(trades[n].to) : n \in {n \in DOMAIN trades : DayOf(trades[n].from) = day}}
  IN  SelectSeq(archive, LAMBDA t : DayOf(t.at) \in days)
FirstTick(ticks, at) ==
  LET later == {k \in DOMAIN ticks : ticks[k].at >= at} IN IF later = {} THEN 0 ELSE Min(later)
BoundaryReason(ticks, at) ==
  IF FirstTick(ticks, at) = 0 THEN "no_quote_after_boundary"
  ELSE IF ticks[FirstTick(ticks, at)].at - at > TickDelay THEN "stale_boundary_quote" ELSE "none"
Execute(trade, latency, ticks) ==
  LET from == trade.from + latency
      to == trade.to + latency
      entry == ticks[FirstTick(ticks, from)]
      exit == ticks[FirstTick(ticks, to)]
      reasons == <<BoundaryReason(ticks, from), BoundaryReason(ticks, to)>>
      reason == IF ticks = <<>> THEN "missing_tick_partition"
                ELSE IF reasons[1] # "none" THEN reasons[1] ELSE reasons[2]
  IN  IF reason # "none" THEN [trade |-> trade, latency |-> latency, reason |-> reason]
      ELSE [trade |-> trade, latency |-> latency, reason |-> reason, entryAt |-> entry.at, exitAt |-> exit.at,
            net |-> IF trade.side = 1 THEN exit.bid - entry.ask ELSE entry.bid - exit.ask]
TickReplay(bars, trades) ==
  {Execute(trades[n], latency, LoadedTicks(BarTicks(bars), trades, DayOf(trades[n].from))) :
     n \in DOMAIN trades, latency \in TickLatency}

----------------------------------------------------------------------------
(* Decision bars: each a step of whole bars after the one before.          *)

GoldBar(last, b) ==
  LET at == last.at + b.step * DecisionBar
      open == last.close + b.jump
      close == open + b.move
  IN  [at |-> at, occurred |-> at + b.last, available |-> at + DecisionBar,
       open |-> open, openBid |-> open, openAsk |-> open + 1, high |-> Max({open, close}) + b.wick,
       low |-> Min({open, close}) - b.wick, close |-> close, bid |-> close, ask |-> close + 1,
       complete |-> ~b.gap]
GoldInit == gold = NoGold
TakeBars(leg) ==
  /\ Len(gold.bars) + Len(leg) <= MaxGoldBars
  /\ LET Take(s, b) == AddGoldBar(s, GoldBar(IF s.bars = <<>> THEN [at |-> 0, close |-> 0] ELSE Last(s.bars), b))
     IN  gold' = FoldLeft(Take, gold, leg)

----------------------------------------------------------------------------
(* Properties.                                                             *)

BucketsOf(bars, length) == {b.at - (b.at % length) : b \in Range(bars)}
\* A completed bar of a frame is that of all rows of its bucket, and no row of
\* the last bucket is in one.
FramesHold(s) ==
  \A f \in DOMAIN Frames :
    LET done == s.frames[f].completed
        Inside(k) == SelectSeq(s.bars, LAMBDA b : b.at - (b.at % Frames[f]) = done[k].bucket)
    IN  /\ {done[k].bucket : k \in DOMAIN done} = BucketsOf(s.bars, Frames[f]) \ {Max(BucketsOf(s.bars, Frames[f]))}
        /\ \A k \in DOMAIN done :
             done[k] = [bucket |-> done[k].bucket, open |-> Head(Inside(k)).open, close |-> Last(Inside(k)).close,
                        high |-> Max({b.high : b \in Range(Inside(k))}), low |-> Min({b.low : b \in Range(Inside(k))})]

\* A zone is the last one formed and not expired; it counts as mitigated only if
\* a row closed in it since.
ZonesHold(s) ==
  LET done == s.frames.m15.completed
      Known(n) == Cardinality(BucketsOf(SubSeq(s.bars, 1, n), M15Time)) - 1
      formed == {k \in DOMAIN done : ZoneOf(SubSeq(done, 1, k)) # <<>>}
      zone == ZoneOf(SubSeq(done, 1, Max(formed)))[1]
      Later == {n \in DOMAIN s.bars : Known(n) >= Max(formed)}
  IN  IF formed = {} \/ Len(done) - Max(formed) > ZoneExpiry THEN s.zone = <<>>
      ELSE /\ s.zone # <<>> /\ [s.zone[1] EXCEPT !.mitigated = FALSE] = zone
           /\ s.zone[1].mitigated => \E n \in Later : s.bars[n].close \in zone.low .. zone.high

\* A family has an episode wherever it comes up, unless its last one is too
\* close, and nowhere else.
GoldEpisodesHold(s) ==
  \A family \in Families :
    LET Is(n) == family \in FamiliesOf(GoldCandidates(s.states[n]))
        rising == {n \in DOMAIN s.states : Is(n) /\ (n = 1 \/ ~Is(n - 1))}
        rows == {e.row : e \in {e \in Range(s.episodes) : e.family = family}}
    IN  /\ rows \subseteq rising
        /\ \A n \in rising : n \in rows <=>
             \A k \in rows : k < n => s.states[n].at - s.states[k].at >= GoldCooldown

\* A trade is dropped only for an earlier one that is kept and overlaps it.
OverlapsHold(trades) ==
  LET rest == RemoveOverlaps(trades)
      Overlapped(t) == {u \in Range(rest.accepted) : u.from < t.from /\ t.from < u.to}
      AtOnce(t) == {u \in Range(trades) : u.from <= t.from /\ t.from < u.to}
  IN  /\ \A t \in Range(trades) : t \in Range(rest.accepted) <=> Overlapped(t) = {}
      /\ rest.rejected = Len(trades) - Len(rest.accepted)
      /\ rest.most = Max({0} \cup {Cardinality(AtOnce(t)) : t \in Range(trades)})
\* The reports on the candidate have the same trades before overlaps; no invalid
\* outcome is without a reason, and the two reports give the same one except
\* where the development months end.
ReasonsAgree(audit, robustness) ==
  /\ "outcome_invalid_other" \notin {audit, robustness}
  /\ audit \in {robustness, "entry_quote_unavailable", "exit_beyond_dataset"}
ReportsAgree(s, trades) ==
  /\ TournamentTrades(s, "trend_continuation") =
       [n \in DOMAIN trades |-> [at |-> trades[n].at, side |-> trades[n].side, net |-> trades[n].net]]
  /\ OverlapsHold(trades) /\ OverlapsHold(AuditedTrades(trades))
  /\ BarSeconds(s.bars) = DecisionBar =>
       \A e \in Range(Considered(s, "trend_continuation")) : ReasonsAgree(AuditReason(s, e), RobustnessReason(s, e))
ReportsHold(s) == ReportsAgree(s, CandidateTrades(s))

\* A replayed trade takes the first quotes of the whole archive that can serve
\* it; one is refused only if none comes in time on the day it is scheduled for.
TickReplayHolds(s) ==
  \A result \in TickReplay(s.bars, Ledger(s)) :
    LET trade == result.trade
        archive == Range(BarTicks(s.bars))
        First(at) == Min({t.at : t \in {t \in archive : t.at >= at}})
        InTime(at) == {t \in archive : t.at \in (at + result.latency) .. (at + result.latency + TickDelay)
                                       /\ DayOf(t.at) = DayOf(at)}
    IN  IF result.reason = "none"
        THEN result.entryAt = First(trade.from + result.latency) /\ result.exitAt = First(trade.to + result.latency)
        ELSE InTime(trade.from) = {} \/ InTime(trade.to) = {}

\* The states, episodes and trades of the gold strategies are those of their
\* definitions over all bars seen (gold_strategy_states.py:65-113,
\* gold_strategy_episodes.py:68-104, candidate_robustness.py:173-228, :364-384,
\* candidate_tick_replay.py:97-173).
GoldHolds ==
  gold.bars # <<>> => /\ FramesHold(gold) /\ ZonesHold(gold) /\ GoldEpisodesHold(gold)
                      /\ ReportsHold(gold) /\ TickReplayHolds(gold)

\* A zone keeps what is known of it as long as it is there: once mitigated, it
\* is mitigated at each later bar ("persistent M15 three-candle FVG zones with
\* expiry and mitigation state", docs/gold-strategy-states.md:8).  The states
\* find it anew, and fresh, at each bar until the next three come
\* (gold_strategy_states.py:80-83).
ZonesStayMitigated ==
  \A m, n \in DOMAIN gold.states :
    LET before == gold.states[m].zone
        after == gold.states[n].zone
    IN  m < n /\ before # <<>> /\ after # <<>> /\ after[1].formed = before[1].formed =>
          (before[1].mitigated => after[1].mitigated)
=============================================================================

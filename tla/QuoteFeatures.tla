---------------------------- MODULE QuoteFeatures ----------------------------
(***************************************************************************)
(* The streams from ticks to features, one step for each row they take in: *)
(* bars of a second, features of a second, levels and VWAP of a session,   *)
(* ranges of the opening windows, and the bars of the decisions with what  *)
(* is derived from them.  A ratio is kept as the pair <<above, below>>,    *)
(* and a mid is kept as bid + ask.                                         *)
(***************************************************************************)
EXTENDS Integers, Sequences, SequencesExt, FiniteSetsExt

CONSTANTS
  Second,            \* clock units in a second
  Hour, Day,         \* seconds in an hour and in a day
  SessionStarts,     \* the hours the sessions of a day start at
  ReturnHorizons, VolatilityWindow, SpreadWindow, MaximumCarry, \* FeatureConfig
  LevelWindows, BreakoutWindow, MinimumBreakout,     \* StructuralConfig
  RangeWindows,                                      \* SessionRangeConfig
  DecisionBar, MaximumSilence, HourWindows           \* MultiHourConfig

\* What each configuration may be.
FeatureConfig ==
  MaximumCarry >= 0 /\ ReturnHorizons # {} /\ Min(ReturnHorizons) > 0 /\ VolatilityWindow > 1
StructuralConfig == Min(LevelWindows) > 1 /\ BreakoutWindow \in LevelWindows /\ MinimumBreakout >= 0
SessionRangeConfig ==
  RangeWindows # {} /\ \A w \in RangeWindows : 0 <= w.from /\ w.from < w.to /\ w.to * Hour < Day
MultiHourConfig ==
  DecisionBar > 0 /\ MaximumSilence > 0 /\ \A w \in HourWindows : w % DecisionBar = 0
ASSUME FeaturesAssumption == FeatureConfig /\ StructuralConfig /\ SessionRangeConfig /\ MultiHourConfig

TimeOfDay(second) == second % Day
DayOf(second) == second \div Day
Session(second) == Max({h \in SessionStarts : h * Hour <= TimeOfDay(second)})
OneOf(seq) == IF seq = <<>> THEN <<>> ELSE <<Last(seq)>>
MaxOr(set) == IF set = {} THEN <<>> ELSE <<Max(set)>>
MinOr(set) == IF set = {} THEN <<>> ELSE <<Min(set)>>

----------------------------------------------------------------------------
(* Bars of a second.                                                       *)

NewBar(tick) ==
  [at |-> tick.at \div Second, bid |-> tick.bid, ask |-> tick.ask, mid |-> tick.bid + tick.ask,
   openAt |-> tick.at, openBid |-> tick.bid, openAsk |-> tick.ask, ticks |-> 1, changes |-> 0]
WithTick(bar, tick) ==
  [bar EXCEPT !.bid = tick.bid, !.ask = tick.ask, !.mid = tick.bid + tick.ask, !.ticks = @ + 1,
              !.changes = @ + (IF tick.bid # bar.bid \/ tick.ask # bar.ask THEN 1 ELSE 0)]
SameSecond(bar, tick) == bar # <<>> /\ bar[1].at = tick.at \div Second

----------------------------------------------------------------------------
(* Features: the history is cut to what the longest window needs.          *)

MaximumHistory == Max(ReturnHorizons \cup {VolatilityWindow})
NoFeatures == [history |-> <<>>, previous |-> <<>>, rows |-> <<>>]

Spread(bar) == <<bar.ask - bar.bid, bar.mid>>
Since(bars, second) == SelectSeq(bars, LAMBDA b : b.at >= second)
AtOrBefore(bars, second) == OneOf(SelectSeq(bars, LAMBDA b : b.at <= second))
FeatureRow(bar, history, previous) ==
  LET recent == Since(history, bar.at - VolatilityWindow)
      age == IF previous = <<>> THEN <<>> ELSE <<bar.at - previous[1].at>>
  IN  [bar |-> bar, availableAt |-> (bar.at + 1) * Second,
       spreads |-> [i \in DOMAIN Since(history, bar.at - SpreadWindow) |->
                      Spread(Since(history, bar.at - SpreadWindow)[i])],
       returns |-> [h \in ReturnHorizons |-> LET prior == AtOrBefore(history, bar.at - h)
                                             IN  IF prior = <<>> THEN <<>>
                                                 ELSE <<bar.mid, prior[1].mid>>],
       steps |-> [i \in 1 .. (Len(recent) + 1) |-> Append(recent, bar)[i].mid],
       rate |-> <<bar.ticks, FoldLeft(LAMBDA sum, b : sum + b.ticks, 0, recent), Len(recent)>>,
       age |-> age, gap |-> age # <<>> /\ age[1] > MaximumCarry]
AddFeatures(s, bar) ==
  LET history == Since(s.history, bar.at - MaximumHistory - 1)
  IN  [history |-> Append(history, bar), previous |-> <<bar>>,
       rows |-> Append(s.rows, FeatureRow(bar, history, s.previous))]

----------------------------------------------------------------------------
(* Structure: highest and lowest mid of the last seconds, kept in queues   *)
(* whose heads are the extremes, and the VWAP since the session began or a *)
(* gap ended.                                                              *)

NoWindow == [values |-> <<>>, highs |-> <<>>, lows |-> <<>>]
NoStructure == [windows |-> [w \in LevelWindows |-> NoWindow], session |-> <<>>,
                weighted |-> 0, activity |-> 0, rows |-> <<>>]

\* Values leave one by one; the head of a queue leaves with its value.
Without(queue, item) == IF queue # <<>> /\ Head(queue) = item THEN Tail(queue) ELSE queue
DropFirst(window) ==
  [values |-> Tail(window.values), highs |-> Without(window.highs, Head(window.values)),
   lows |-> Without(window.lows, Head(window.values))]
ExpireValues(window, second) ==  \* the queues are forgotten
  [window EXCEPT !.values = SelectSeq(@, LAMBDA item : item[1] >= second)]

Expire(window, second) ==
  FoldLeft(LAMBDA w, item : IF item[1] < second THEN DropFirst(w) ELSE w, window, window.values)
Levels(window) ==
  [high |-> IF window.highs = <<>> THEN <<>> ELSE <<Head(window.highs)[2]>>,
   low |-> IF window.lows = <<>> THEN <<>> ELSE <<Head(window.lows)[2]>>]
AddValue(window, second, mid) ==
  LET item == <<second, mid>>
  IN  [values |-> Append(window.values, item),
       highs |-> Append(SelectSeq(window.highs, LAMBDA i : i[2] > mid), item),
       lows |-> Append(SelectSeq(window.lows, LAMBDA i : i[2] < mid), item)]

BreakoutSide(levels, mid) ==
  IF levels.high # <<>> /\ mid - levels.high[1] >= MinimumBreakout THEN 1
  ELSE IF levels.low # <<>> /\ levels.low[1] - mid >= MinimumBreakout THEN -1 ELSE 0
AddStructure(s, row) ==
  LET bar == row.bar
      key == <<DayOf(bar.at), Session(bar.at)>>
      fresh == key # s.session \/ row.gap
      windows == [w \in LevelWindows |-> Expire(s.windows[w], bar.at - w)]
      levels == [w \in LevelWindows |-> Levels(windows[w])]
      weight == Max({bar.ticks, 1})
      weighted == (IF fresh THEN 0 ELSE s.weighted) + bar.mid * weight
      activity == (IF fresh THEN 0 ELSE s.activity) + weight
  IN  [windows |-> [w \in LevelWindows |-> AddValue(windows[w], bar.at, bar.mid)],
       session |-> IF fresh THEN key ELSE s.session, weighted |-> weighted, activity |-> activity,
       rows |-> Append(s.rows, [at |-> bar.at, vwap |-> <<weighted, activity>>, levels |-> levels,
                                side |-> BreakoutSide(levels[BreakoutWindow], bar.mid)])]

----------------------------------------------------------------------------
(* Ranges of the windows of a day, known from the end of the window on.    *)

NoRange == [high |-> <<>>, low |-> <<>>]
NoRanges == [day |-> -1, ranges |-> [w \in RangeWindows |-> NoRange], rows |-> <<>>]
Observe(range, mid) ==
  [high |-> MaxOr({mid} \cup Range(range.high)), low |-> MinOr({mid} \cup Range(range.low))]
AddRanges(s, row) ==
  LET bar == row.bar
      time == TimeOfDay(bar.at)
      ranges == IF s.day = DayOf(bar.at) THEN s.ranges ELSE [w \in RangeWindows |-> NoRange]
      Known(w) == IF time >= w.to * Hour THEN ranges[w] ELSE NoRange
      Above(w) == Known(w).high # <<>> /\ bar.mid - Known(w).high[1] >= MinimumBreakout
      Below(w) == Known(w).low # <<>> /\ Known(w).low[1] - bar.mid >= MinimumBreakout
  IN  [day |-> DayOf(bar.at),
       ranges |-> [w \in RangeWindows |-> IF w.from * Hour <= time /\ time < w.to * Hour
                                          THEN Observe(ranges[w], bar.mid) ELSE ranges[w]],
       rows |-> Append(s.rows,
         [at |-> bar.at, day |-> DayOf(bar.at), known |-> [w \in RangeWindows |-> Known(w)],
          side |-> [w \in RangeWindows |-> (IF Above(w) THEN 1 ELSE 0) - (IF Below(w) THEN 1 ELSE 0)]])]

----------------------------------------------------------------------------
(* Decision bars: complete unless a silence ended in them.                 *)

NoHours == [current |-> <<>>, bars |-> <<>>]
NewHour(row, bucket) ==
  [at |-> bucket, occurred |-> row.bar.at, available |-> bucket + DecisionBar, open |-> row.bar.mid,
   openBid |-> row.bar.bid, openAsk |-> row.bar.ask, high |-> row.bar.mid, low |-> row.bar.mid,
   close |-> row.bar.mid, bid |-> row.bar.bid, ask |-> row.bar.ask, ticks |-> 0, seen |-> 0,
   silence |-> 0, complete |-> TRUE]
WithRow(hour, row) ==
  LET silence == IF row.age = <<>> THEN 0 ELSE row.age[1]
  IN  [hour EXCEPT !.occurred = row.bar.at, !.high = Max({@, row.bar.mid}),
                   !.low = Min({@, row.bar.mid}), !.close = row.bar.mid, !.bid = row.bar.bid,
                   !.ask = row.bar.ask, !.ticks = @ + row.bar.ticks, !.seen = @ + 1,
                   !.silence = Max({@, silence}), !.complete = @ /\ silence <= MaximumSilence]
AddHour(s, row) ==
  LET bucket == row.bar.at - (row.bar.at % DecisionBar)
  IN  IF s.current # <<>> /\ s.current[1].at = bucket
      THEN [s EXCEPT !.current = <<WithRow(s.current[1], row)>>]
      ELSE [current |-> <<WithRow(NewHour(row, bucket), row)>>, bars |-> s.bars \o s.current]
Hours(s) == s.bars \o s.current

\* What is derived from the bars before it; the volatility is kept as the
\* closes it is computed from.
PathOf(values) == [i \in DOMAIN values |-> values[i].close]
HourRow(bars, i) ==
  LET bar == bars[i]
      before == Since(SubSeq(bars, 1, i - 1), bar.at - Max(HourWindows))
      Window(w) == Since(before, bar.at - w)
      High(w) == MaxOr({Window(w)[k].high : k \in DOMAIN Window(w)})
      Low(w) == MinOr({Window(w)[k].low : k \in DOMAIN Window(w)})
  IN  [bar |-> bar,
       returns |-> [w \in HourWindows |-> IF Window(w) = <<>> THEN <<>>
                                          ELSE <<bar.close, Window(w)[1].open>>],
       path |-> [w \in HourWindows |-> PathOf(Append(Window(w), bar))],
       levels |-> [w \in HourWindows |-> [high |-> High(w), low |-> Low(w)]],
       side |-> [w \in HourWindows |->
                   CASE High(w) # <<>> /\ bar.close > High(w)[1] -> 1
                     [] Low(w) # <<>> /\ bar.close < Low(w)[1] -> -1
                     [] OTHER -> 0]]
HourRows(bars) == [i \in DOMAIN bars |-> HourRow(bars, i)]
=============================================================================

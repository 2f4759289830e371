------------------------------ MODULE SequenceLab ------------------------------
(***************************************************************************)
(* The sequence lab: walk-forward folds, episodes of breakouts far enough  *)
(* apart, the policies that may enter after one, and the ways out.  Mids   *)
(* are kept as bid + ask, and a return as a difference of prices.          *)
(***************************************************************************)
EXTENDS CausalOutcomes

CONSTANTS
  TrainDays, ValidationDays, TestDays, StepDays, Purge, Embargo, HoldoutDays, \* in days; seconds
  Holds, RetestWindow, SweepWindow, HoldDelay,        \* seconds
  Confirmation, Tolerance, LabSpread, MaximumShock, MinimumActivity,
  TrailingActivation, TrailingDistance, Slippage,
  DecisionInterval, EpisodeSpacing, ExitHorizons      \* seconds

SignalDelay == Max(Holds \cup {RetestWindow, SweepWindow})
WalkForwardConfig ==
  /\ TrainDays > 0 /\ ValidationDays > 0 /\ TestDays > 0 /\ StepDays > 0
  /\ Purge >= 0 /\ Embargo >= 0
\* The spacing covers the delay of the signal, the execution and the horizon,
\* and not the silences that may come on top of each.
SequenceLabConfig ==
  /\ Min(Holds) > 0 /\ LabSpread > 0 /\ MinimumActivity > 0 /\ MaximumShock > 0 /\ Min(ExitHorizons) > 0
  /\ EpisodeSpacing * Second >= (SignalDelay + Max(ExitHorizons)) * Second + EntryDelay + Latency
ASSUME SequenceLabAssumption == WalkForwardConfig /\ SequenceLabConfig

----------------------------------------------------------------------------
(* Folds.                                                                  *)

FoldFrom(start, n) ==
  LET trainEnd == start + ((n - 1) * StepDays + TrainDays) * Day
      validation == trainEnd + Purge
      test == validation + ValidationDays * Day + Embargo
  IN  [fold |-> n, train |-> start, trainEnd |-> trainEnd, validation |-> validation,
       validationEnd |-> validation + ValidationDays * Day, test |-> test, testEnd |-> test + TestDays * Day]
\* Folds as long as the test interval ends before the holdout.
Folds(start, end) ==
  [n \in 1 .. Cardinality({n \in 1 .. DayOf(end - start) : FoldFrom(start, n).testEnd <= end}) |->
     FoldFrom(start, n)]
StartOf(rows) == DayOf(rows[1].bar.at) * Day
EndOf(rows) == (DayOf(Last(rows).bar.at) + 1) * Day
HoldoutStart(rows) == EndOf(rows) - HoldoutDays * Day
LabFolds(rows) == Folds(StartOf(rows), HoldoutStart(rows))
FoldsAt(folds, second) == {f \in Range(folds) : f.test <= second /\ second < f.testEnd}

----------------------------------------------------------------------------
(* Times.                                                                  *)

RowTimes(rows) == [i \in DOMAIN rows |-> rows[i].bar.at]
QuoteTimes(rows) == [i \in DOMAIN rows |-> rows[i].bar.openAt]
OpenMid(bar) == bar.openBid + bar.openAsk
\* _at: the first time at or after a delay, over times without a gap; or 0.
At(times, start, delay, gap) ==
  LET k == Min({Len(times) + 1} \cup {q \in (start + 1) .. Len(times) : times[q] >= times[start] + delay})
  IN  IF /\ k <= Len(times) /\ times[k] - (times[start] + delay) <= gap
         /\ \A c \in (start + 1) .. k : times[c] - times[c - 1] <= gap
      THEN k ELSE 0

----------------------------------------------------------------------------
(* Episodes: a breakout begins, in a test interval, at an acceptable       *)
(* spread, and far enough from the last one.                               *)

Near(rows, i, last) == last # 0 /\ rows[i].bar.at - rows[last].bar.at < EpisodeSpacing
NearNothing(rows, i, last) == FALSE  \* no spacing
TooNear(rows, i, last) == Near(rows, i, last)
Starts(rows, structure) ==
  EpisodeStarts(RowTimes(rows),
                [i \in DOMAIN rows |-> IF structure[i].side = 0 THEN <<>> ELSE <<structure[i].side>>],
                DecisionInterval)
Fits(rows, i, folds) ==
  FoldsAt(folds, rows[i].bar.at) # {} /\ rows[i].bar.ask - rows[i].bar.bid <= LabSpread
Eligible(rows, structure, folds) ==
  LET starts == Starts(rows, structure)
      Take(taken, i) == IF TooNear(rows, i, IF taken = <<>> THEN 0 ELSE Last(taken))
                        THEN taken ELSE Append(taken, i)
  IN  FoldLeft(Take, <<>>, SelectSeq([i \in DOMAIN rows |-> i], LAMBDA i : i \in starts /\ Fits(rows, i, folds)))

----------------------------------------------------------------------------
(* Entries.                                                                *)

Policies == {<<"hold", d>> : d \in Holds}
            \cup {<<"compression", HoldDelay>>, <<"pressure", HoldDelay>>, <<"trend", HoldDelay>>}
            \cup {<<"retest", RetestWindow>>, <<"sweep", SweepWindow>>}

Ratio(pair) == IF pair = <<>> THEN 0 ELSE pair[1] - pair[2]
\* As many ticks for each of the bars before, or more.
Active(row) == row.rate[2] = 0 \/ row.rate[1] * row.rate[3] >= MinimumActivity * row.rate[2]
Shocked(row) ==
  LET sorted == SortSeq(row.spreads, LAMBDA a, b : a[1] * b[2] < b[1] * a[2])
      low == sorted[(Len(sorted) + 1) \div 2]
      high == sorted[Len(sorted) \div 2 + 1]
  IN  /\ row.spreads # <<>>
      /\ 2 * (row.bar.ask - row.bar.bid) * low[2] * high[2]
           > MaximumShock * row.bar.mid * (low[1] * high[2] + high[1] * low[2])
Pressed(row, horizon, side) == side * Ratio(row.returns[horizon]) >= Confirmation
Narrow(levels, w) == IF levels[w].high = <<>> THEN 0 ELSE levels[w].high[1] - levels[w].low[1]
\* The short range is at most so many percent of the long one, if both are known.
Compressed(levels, percent) ==
  /\ levels[Min(LevelWindows)].high # <<>> /\ Narrow(levels, Max(LevelWindows)) > 0
  /\ 100 * Narrow(levels, Min(LevelWindows)) <= percent * Narrow(levels, Max(LevelWindows))

\* What a policy asks of the row of the breakout.
Admits(policy, row, levels, side) ==
  CASE policy[1] = "compression" -> Compressed(levels, 50) /\ Active(row)
    [] policy[1] = "pressure" -> /\ Active(row) /\ 2 * row.bar.changes >= row.bar.ticks
                                 /\ Pressed(row, Min(ReturnHorizons), side) /\ ~Shocked(row)
    [] policy[1] = "trend" -> /\ Pressed(row, Min(ReturnHorizons), side)
                              /\ Pressed(row, Max(ReturnHorizons), side) /\ ~Shocked(row)
    [] OTHER -> TRUE

\* The row that gives the signal and the side to take, if there is one.
Earliest(set, way) == IF set = {} THEN {} ELSE {<<Min(set), way>>}
SignalUpto(end, policy, rows, levels, i, side, level) ==
  LET Cheap(k) == rows[k].bar.ask - rows[k].bar.bid <= LabSpread
      Beyond(k) == side * (rows[k].bar.mid - level) >= Confirmation
      Inside(k) == side * (level - rows[k].bar.mid) >= Tolerance
      Touched(k) == \E q \in (i + 1) .. k : rows[q].bar.mid - level \in (-Tolerance) .. Tolerance
  IN  CASE policy[1] = "sweep" -> Earliest({k \in (i + 1) .. end : Inside(k) /\ Cheap(k)}, -side)
        [] policy[1] = "retest" ->
             Earliest({k \in (i + 1) .. end : Touched(k) /\ Beyond(k) /\ Cheap(k)}, side)
        [] OTHER -> IF Admits(policy, rows[i], levels, side) /\ Cheap(end) /\ Beyond(end)
                    THEN {<<end, side>>} ELSE {}
Signal(policy, rows, levels, i, side, level) ==
  UNION {SignalUpto(end, policy, rows, levels, i, side, level) :
           end \in {At(RowTimes(rows), i, policy[2], ContinuityGap)} \ {0}}

----------------------------------------------------------------------------
(* Exits: at the horizon, or at the first quote that can be executed after *)
(* the path gave a reason to leave.                                        *)

Styles == {"time", "structural", "trailing"}
Gross(from, to, side) == side * (to - from)
Net(entry, exit, side) ==
  2 * (IF side > 0 THEN exit.openBid - entry.openAsk ELSE entry.openBid - exit.openAsk) - 2 * Slippage
Leaves(style, rows, entry, side, level, k) ==
  LET Gain(q) == Gross(OpenMid(rows[entry].bar), rows[q].bar.mid, side)
      best == Max({Gain(q) : q \in (entry + 1) .. k})
  IN  \/ style = "structural" /\ side * (rows[k].bar.mid - level) < 0
      \/ style = "trailing" /\ best >= TrailingActivation /\ Gain(k) <= best - TrailingDistance
LeaveAtOnce(rows, k) == k  \* at the quote of the signal
LeaveAt(rows, k) == EntryIndex(rows, k)
LabExit(style, rows, entry, side, level, final) ==
  LET signals == {k \in (entry + 1) .. final : /\ Leaves(style, rows, entry, side, level, k)
                                               /\ LeaveAt(rows, k) \in 1 .. final}
  IN  IF signals = {} THEN final ELSE LeaveAt(rows, Min(signals))

\* The trades of one episode, with the rows that can be seen.
LevelOf(row) ==
  (IF row.side > 0 THEN row.levels[BreakoutWindow].high ELSE row.levels[BreakoutWindow].low)[1]
Orders(rows, row, i) ==
  UNION {{[policy |-> p, signal |-> s[1], side |-> s[2], entry |-> EntryIndex(rows, s[1])] :
            s \in Signal(p, rows, row.levels, i, row.side, LevelOf(row))} : p \in Policies}
Before(rows, k, fold) == k # 0 /\ rows[k].bar.openAt < fold.testEnd * Second
Trade(rows, i, fold, order, horizon, style, exit) ==
  [episode |-> i, policy |-> order.policy, horizon |-> horizon, style |-> style, fold |-> fold.fold,
   signal |-> order.signal, side |-> order.side, entry |-> order.entry, exit |-> exit,
   gross |-> Gross(OpenMid(rows[order.entry].bar), OpenMid(rows[exit].bar), order.side),
   net |-> Net(rows[order.entry].bar, rows[exit].bar, order.side)]
HorizonTrades(rows, i, fold, order, level, horizon, final) ==
  IF ~Before(rows, final, fold) THEN {}
  ELSE {Trade(rows, i, fold, order, horizon, style,
              LabExit(style, rows, order.entry, order.side, level, final)) : style \in Styles}
EpisodeTrades(rows, structure, i, fold) ==
  UNION {HorizonTrades(rows, i, fold, order, LevelOf(structure[i]), h,
                       At(QuoteTimes(rows), order.entry, h * Second, ContinuityGap * Second)) :
           order \in {o \in Orders(rows, structure[i], i) : Before(rows, o.entry, fold)}, h \in ExitHorizons}

\* The rows of a window and those after it, up to the last time it looks for.
Sight(rows, core, i) ==
  LET last == Min({((i - 1) \div core + 1) * core, Len(rows)})
      target == (rows[last].bar.at + SignalDelay + Max(ExitHorizons) + 2) * Second + EntryDelay + Latency
  IN  Min({k \in last .. Len(rows) : /\ k % core = 0 \/ k = Len(rows)
                                     /\ k = Len(rows) \/ rows[k].bar.openAt >= target})
Trades(rows, structure, core) ==
  LET folds == LabFolds(rows)
      Seen(i) == SubSeq(rows, 1, Sight(rows, core, i))
      FoldAt(i) == folds[Min({f.fold : f \in FoldsAt(folds, rows[i].bar.at)})]
  IN  UNION {EpisodeTrades(Seen(i), structure, i, FoldAt(i)) : i \in Range(Eligible(rows, structure, folds))}

----------------------------------------------------------------------------
(* What the research gate asks besides the intervals of the means: enough  *)
(* trades, folds and months, and results that bear twice the costs.        *)

Sum(set, Of(_)) == MapThenSumSet(Of, set)
Net2(trade) == trade.net
Metrics(trades, eligible) ==
  LET folds == {t.fold : t \in trades}
      Profit(fold) == Sum({t \in trades : t.fold = fold}, Net2)
  IN  [count |-> Cardinality(trades), folds |-> Cardinality(folds),
       profitable |-> Cardinality({f \in folds : Profit(f) > 0}),
       gains |-> Sum({t \in trades : t.net > 0}, Net2),
       losses |-> -Sum({t \in trades : t.net < 0}, Net2),
       stressed |-> Sum(trades, LAMBDA t : 2 * t.net - t.gross),
       gross |-> Sum(trades, LAMBDA t : t.gross),
       abstained |-> eligible - Cardinality({t.episode : t \in trades})]
=============================================================================

------------------------------ MODULE EpisodeLabs ------------------------------
(***************************************************************************)
(* The labs that replay the quotes after each episode: path management,    *)
(* which chooses entry and exit rules on validation episodes, the baskets  *)
(* of controlled breakouts, the confirmations asked before one, the gates  *)
(* of a regime, and the pairs of a provider's and a copied trade.  A quote *)
(* is [at, bid, ask] with the last prices of its second, and a price       *)
(* difference stands for a return.                                         *)
(***************************************************************************)
EXTENDS QuotePressureLab

CONSTANTS
  Waits, Pullbacks, HoldingTimes, Stops, Targets, QuoteDelay, PathMargin,  \* PathManagementConfig
  MinimumEpisodes, MinimumTestEpisodes,
  Stages, QuickFailure, QuickFailureAfter, PartialTarget, RunnerTrailing, BasketStop,
  FixedHolding, RunnerHolding, ConfirmationDelay,                  \* ControlledBreakoutConfig
  MinimumDistance, MaximumCompression  \* BreakoutConfirmationConfig, the latter in percent

PathManagementConfig ==
  /\ QuoteDelay >= 1 /\ Min(Waits) >= 0 /\ Min(Pullbacks) >= 0
  /\ Min(HoldingTimes) >= 1 /\ Min(Stops) > 0 /\ Min(Targets) > 0
ControlledBreakoutConfig ==
  /\ Len(Stages) = 2 /\ Stages[1] <= Stages[2] /\ Slippage >= 0
  /\ \A value \in {QuoteDelay, QuickFailureAfter, QuickFailure, PartialTarget, RunnerTrailing,
                   FixedHolding, RunnerHolding, BasketStop} : value > 0
BreakoutConfirmationConfig ==
  \A value \in {Confirmation, LabSpread, MinimumActivity, MinimumDistance, MaximumCompression} : value > 0
ASSUME EpisodeLabsAssumption ==
  PathManagementConfig /\ ControlledBreakoutConfig /\ BreakoutConfirmationConfig

\* The quotes of an episode, from it on; the next time of an episode does not end it.
QuotePath(rows, episode, horizon) ==
  LET inside == SelectSeq(rows, LAMBDA r : r.bar.at \in episode.at .. (episode.at + horizon))
  IN  [n \in DOMAIN inside |-> [at |-> inside[n].bar.at, bid |-> inside[n].bar.bid, ask |-> inside[n].bar.ask]]
Buy(quote, side) == IF side > 0 THEN quote.ask ELSE quote.bid
Sell(quote, side) == IF side > 0 THEN quote.bid ELSE quote.ask
FirstOf(quotes, Is(_)) == {k \in DOMAIN quotes : Is(k) /\ \A q \in 1 .. (k - 1) : ~Is(q)}

----------------------------------------------------------------------------
(* Path management.                                                        *)

PathPolicies ==
  {p \in [wait : Waits, pullback : Pullbacks, holding : HoldingTimes, stop : Stops, target : Targets] :
     (p.pullback = 0) <=> (p.wait = 0)}
\* The latency is less than a second: it rules out the quote of the signal.
PathEntry(side, quotes, policy) ==
  LET wait == IF policy.wait > 0 THEN policy.wait ELSE QuoteDelay
      Improves(k) == side * (quotes[1].bid + quotes[1].ask - 2 * Buy(quotes[k], side)) >= 2 * policy.pullback
  IN  FirstOf(quotes, LAMBDA k : /\ quotes[k].at \in (quotes[1].at + 1) .. (quotes[1].at + wait)
                                 /\ policy.pullback = 0 \/ Improves(k))
Gain(quotes, entry, k, side) == side * (Sell(quotes[k], side) - Buy(quotes[entry], side))
PathExit(side, quotes, policy, entry) ==
  LET Ends(k, gain) == \/ gain <= -policy.stop \/ gain >= policy.target
                       \/ quotes[k].at >= quotes[entry].at + policy.holding
  IN  FirstOf(quotes, LAMBDA k : k >= entry /\ Ends(k, Gain(quotes, entry, k, side)))
PathTrade(policy, from, to, gain) ==
  [entered |-> from, exited |-> to, gross |-> gain, net |-> gain - 2 * Slippage,
   reason |-> IF gain <= -policy.stop THEN "stop" ELSE IF gain >= policy.target THEN "target" ELSE "time"]
\* The trade, if there is one.
SimulatePath(side, quotes, policy) ==
  UNION {{PathTrade(policy, quotes[entry].at, quotes[exit].at, Gain(quotes, entry, exit, side)) :
            exit \in PathExit(side, quotes, policy, entry)} : entry \in PathEntry(side, quotes, policy)}

\* The rule of a fold is the best of its validation episodes, if it gains.
PathHorizon == Max(HoldingTimes) + PathMargin
Evaluated(rows, episodes, policy) ==
  UNION {{[episode |-> e, net |-> t.net, gross |-> t.gross] :
            t \in SimulatePath(e.side, QuotePath(rows, e, PathHorizon), policy)} : e \in episodes}
BestOf(scores) ==
  LET candidates == {p \in DOMAIN scores : scores[p][2] >= MinimumEpisodes /\ scores[p][1] > 0}
  IN  {p \in candidates : \A q \in candidates : ~Above(scores[q], scores[p])}
SelectPolicy(rows, episodes) == BestOf([p \in PathPolicies |-> MeanNet(Evaluated(rows, episodes, p))])
Enough(trades) == IF Cardinality(trades) < MinimumTestEpisodes THEN {} ELSE trades
Tested(rows, episodes, selected) ==
  [policies |-> selected, trades |-> {Enough(Evaluated(rows, episodes, p)) : p \in selected}]
ManagedFold(rows, episodes, fold) ==
  Tested(rows, Between(episodes, fold.test, fold.testEnd),
         SelectPolicy(rows, Between(episodes, fold.validation, fold.validationEnd)))

----------------------------------------------------------------------------
(* Controlled breakouts: a basket of tickets, more of them as the price    *)
(* goes against it, half of it taken at a target, the rest trailing.       *)

Variants == [staged : BOOLEAN, runner : BOOLEAN]
NoBasket(entry) == [entries |-> <<entry>>, peak |-> <<>>, half |-> <<>>, gross |-> <<0, 1>>,
                    exit |-> 0, reason |-> "time"]
\* An average over the tickets: <<sum, count>>.
BasketGross(entries, price, side) ==
  <<FoldLeft(LAMBDA sum, p : sum + side * (price - p), 0, entries), Len(entries)>>
AtLeast(pair, value) == pair[1] >= value * pair[2]
AtMost(pair, value) == pair[1] <= value * pair[2]
Higher(a, b) == IF b = <<>> THEN a ELSE IF Above(b, a) THEN b ELSE a
Stage(basket, variant, move, quote, side) ==
  LET next == Len(basket.entries)
  IN  IF variant.staged /\ next <= Len(Stages) /\ move <= -Stages[Min({next, Len(Stages)})]
      THEN Append(basket.entries, Buy(quote, side)) ELSE basket.entries
StageTwice(basket, variant, move, quote, side) ==  \* the same threshold again and again
  IF variant.staged /\ move <= -Stages[1] THEN Append(basket.entries, Buy(quote, side)) ELSE basket.entries
Staged(basket, variant, move, quote, side) == Stage(basket, variant, move, quote, side)
Held(basket, entries, price, side) ==
  [basket EXCEPT !.entries = entries, !.gross = BasketGross(entries, price, side)]
Taken(held, variant) ==
  [held EXCEPT !.peak = Higher(held.gross, @),
               !.half = IF variant.runner /\ @ = <<>> /\ AtLeast(held.gross, PartialTarget)
                        THEN <<held.gross>> ELSE @]
Fell(gross, peak) == gross[1] * peak[2] + RunnerTrailing * gross[2] * peak[2] <= peak[1] * gross[2]
Exited(basket, at, reason) == [basket EXCEPT !.exit = at, !.reason = reason]
Trailed(taken, variant, at, start) ==
  IF taken.half # <<>> /\ Fell(taken.gross, taken.peak) THEN Exited(taken, at, "trailing")
  ELSE IF at >= start + (IF variant.runner THEN RunnerHolding ELSE FixedHolding) THEN Exited(taken, at, "time")
  ELSE taken
Controlled(held, variant, move, at, start) ==
  IF AtMost(held.gross, -BasketStop) THEN Exited(held, at, "basket_stop")
  ELSE IF at - start >= QuickFailureAfter /\ move <= -QuickFailure THEN Exited(held, at, "quick_failure")
  ELSE Trailed(Taken(held, variant), variant, at, start)
WithQuote(basket, variant, quote, side, start) ==
  LET price == Sell(quote, side)
      move == side * (price - basket.entries[1])
  IN  IF basket.exit # 0 THEN basket
      ELSE Controlled(Held(basket, Staged(basket, variant, move, quote, side), price, side),
                      variant, move, quote.at, start)
\* What half of the basket took at the target counts for half.
BasketResult(basket) == IF basket.half = <<>> THEN <<basket.gross, basket.gross>>
                        ELSE <<basket.half[1], basket.gross>>
BasketFrom(side, quotes, variant, entry) ==
  FoldLeft(LAMBDA b, q : WithQuote(b, variant, q, side, quotes[entry].at),
           NoBasket(Buy(quotes[entry], side)), SubSeq(quotes, entry, Len(quotes)))
\* The basket, if there is one that was closed.
SimulateBasket(side, quotes, variant) ==
  LET Entered(at) == at \in (quotes[1].at + ConfirmationDelay) .. (quotes[1].at + ConfirmationDelay + QuoteDelay)
  IN  {basket \in {BasketFrom(side, quotes, variant, entry) :
                     entry \in FirstOf(quotes, LAMBDA k : Entered(quotes[k].at))} : basket.exit # 0}

\* The mid has moved on by the confirmation, in the direction of the breakout.
Persists(side, quotes) ==
  LET later == {k \in DOMAIN quotes : quotes[k].at >= quotes[1].at + ConfirmationDelay}
  IN  /\ later # {}
      /\ side * (quotes[Min(later)].bid + quotes[Min(later)].ask - quotes[1].bid - quotes[1].ask) >= Confirmation
\* How far the mid is out of the range, and whether it is past the VWAP.
DistanceOut(row, level, side) ==
  IF side > 0 THEN row.bar.mid - level.high[1] ELSE level.low[1] - row.bar.mid
PastVwap(row, vwap, side) == side * (row.bar.mid * vwap[2] - vwap[1]) > 0
\* The breakouts of the structure stand for those of a range of the day.
Confirmed(rule, row, known, side, quotes) ==
  LET quality == /\ row.bar.ask - row.bar.bid <= LabSpread /\ Active(row)
                 /\ DistanceOut(row, known.levels[BreakoutWindow], side) >= MinimumDistance
      aligned == side * Ratio(row.returns[Max(ReturnHorizons)]) > 0 /\ PastVwap(row, known.vwap, side)
  IN  /\ quotes # <<>> /\ Persists(side, quotes)
      /\ CASE rule = "persistence" -> TRUE
           [] rule = "market_quality" -> quality
           [] rule = "alignment" -> aligned
           [] rule = "full_confirmation" -> quality /\ aligned /\ Compressed(known.levels, MaximumCompression)

----------------------------------------------------------------------------
(* Regime gates: the thresholds are the medians of the training episodes.  *)

\* Twice the median.
Median2(seq) ==
  LET sorted == SortSeq(seq, LAMBDA a, b : a < b)
  IN  sorted[(Len(sorted) + 1) \div 2] + sorted[Len(sorted) \div 2 + 1]
Measures == {"spread", "activity", "volatility", "width"}
Thresholds(train) == [m \in Measures |-> Median2([i \in DOMAIN train |-> train[i][m]])]
Passes(row, gate, thresholds) ==
  CASE gate = "all" -> TRUE
    [] gate = "tight_spread" -> 2 * row.spread <= thresholds["spread"]
    [] gate = "high_activity" -> 2 * row.activity >= thresholds["activity"]
    [] gate = "low_volatility" -> 2 * row.volatility <= thresholds["volatility"]
    [] gate = "high_volatility" -> 2 * row.volatility > thresholds["volatility"]
    [] gate = "narrow_range" -> 2 * row.width <= thresholds["width"]
    [] gate = "wide_range" -> 2 * row.width > thresholds["width"]
    [] gate = "trend_aligned" -> row.trend > 0

----------------------------------------------------------------------------
(* Pairs of trades: the nearest openings first, each trade in one pair.    *)

Earlier(a, b) ==
  \/ a.lag < b.lag
  \/ a.lag = b.lag /\ \/ a.provider.opened < b.provider.opened
                      \/ /\ a.provider.opened = b.provider.opened
                         /\ \/ a.provider.ticket < b.provider.ticket
                            \/ a.provider.ticket = b.provider.ticket /\ a.copied.ticket < b.copied.ticket
Abs(n) == IF n < 0 THEN -n ELSE n
MatchTrades(provider, copied, tolerance) ==
  LET Pair(p, c) == [lag |-> Abs(c.opened - p.opened), provider |-> p, copied |-> c]
      candidates == {x \in {Pair(p, c) : p \in provider, c \in copied} :
                       x.provider.side = x.copied.side /\ x.lag <= tolerance}
      Take(pairs, x) == IF \E y \in pairs : y.provider = x.provider \/ y.copied = x.copied
                        THEN pairs ELSE pairs \cup {x}
  IN  FoldLeft(Take, {}, SetToSortSeq(candidates, Earlier))
\* The effects of entering and of leaving at other prices.
Effects(pair) ==
  LET side == pair.provider.side
      Path(entry, exit) == side * (exit - entry)
  IN  [entry |-> Path(pair.copied.entry, pair.provider.exit) - Path(pair.provider.entry, pair.provider.exit),
       exit |-> Path(pair.copied.entry, pair.copied.exit) - Path(pair.copied.entry, pair.provider.exit)]
=============================================================================

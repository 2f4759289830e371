------------------------------ MODULE ResearchLabs ------------------------------
(***************************************************************************)
(* The labs run over a tape that is closed: its features and structure     *)
(* feed the sequence lab and the quote-pressure lab, and its breakouts are *)
(* the episodes of the others.                                             *)
(***************************************************************************)
EXTENDS MarketTape, EpisodeLabs

Rows == features.rows
Structure == structure.rows
Episodes(rows) == {[at |-> rows[i].bar.at, side |-> Structure[i].side] :
                     i \in {i \in DOMAIN rows : Structure[i].side # 0}}
Prefix(fold) == SelectSeq(Rows, LAMBDA r : (r.bar.at < fold.test))

\* A trade is entered once its signal is available and after the latency, left
\* in the fold it was entered in, without a gap on the way, and before its
\* horizon only at a quote that comes after the reason to leave was known.
TradeHolds(t, entry, exit, fold) ==
  /\ entry.openAt >= Rows[t.signal].availableAt + Latency /\ exit.openAt > entry.openAt
  /\ t.net <= t.gross
  /\ fold.test <= Rows[t.episode].bar.at /\ exit.openAt < fold.testEnd * Second
  /\ \A k \in (t.episode + 1) .. t.exit : Rows[k].bar.at - Rows[k - 1].bar.at <= ContinuityGap
  /\ exit.openAt < entry.openAt + t.horizon * Second =>
       \E k \in (t.entry + 1) .. t.exit :
         /\ Rows[k].availableAt + Latency <= exit.openAt
         /\ Leaves(t.style, Rows, t.entry, t.side, LevelOf(Structure[t.episode]), k)
Apart(s, t) == s.episode < t.episode => Rows[s.exit].bar.openAt < Rows[t.entry].bar.openAt
MetricsHold(metrics) ==
  /\ metrics.stressed <= metrics.gains - metrics.losses
  /\ metrics.profitable <= metrics.folds /\ metrics.abstained >= 0
LabHolds(trades, folds, episodes) ==
  /\ \A t \in trades : TradeHolds(t, Rows[t.entry].bar, Rows[t.exit].bar, folds[t.fold])
  /\ \A s, t \in trades : s.policy = t.policy /\ s.horizon = t.horizon /\ s.style = t.style => Apart(s, t)
  /\ \A style \in Styles : MetricsHold(Metrics({t \in trades : t.style = style}, episodes))
LimitsHold(events) ==
  \A e \in events : e.style = "limit" /\ e.entry # 0 =>
    \E k \in (e.signal + 1) .. e.entry :
      e.side * (OpenMid(Rows[e.signal].bar) - OpenMid(Rows[k].bar)) > 0

\* The trades of a lab are taken as they could have been; two trades of one policy
\* never overlap; costs only take, so bearing them twice is no better; and a limit
\* is filled only by a price that came to it (sequence_lab.py:241-624,
\* quote_pressure_lab.py:306-318).
TradesHold ==
  closed => /\ LabHolds(Trades(Rows, Structure, Len(Rows)), LabFolds(Rows), Cardinality(Episodes(Rows)))
            /\ LimitsHold(Events(Rows, Structure, HoldoutStart(Rows)))

\* The thresholds of a fold are chosen before its test interval: with nothing
\* but the rows before it, the choice is the same (quote_pressure_lab.py:358-399).
PressureBlind(folds, events, holdout) ==
  \A fold \in folds, style \in {"market", "limit"} :
    LET before == Prefix(fold)
    IN  before # <<>> =>
          Chosen(events, fold, style)
            = Chosen(Events(before, SubSeq(Structure, 1, Len(before)), holdout), fold, style)
PressureChosenBlind ==
  closed => PressureBlind(Range(LabFolds(Rows)), Events(Rows, Structure, HoldoutStart(Rows)), HoldoutStart(Rows))

\* So is the policy of a fold (path_management_lab.py:155-183, :262-283).
ManagedBlind(before, fold) ==
  before # <<>> => ManagedFold(Rows, Episodes(Rows), fold).policies
                     = ManagedFold(before, Episodes(before), fold).policies
PolicyChosenBlind == closed => \A fold \in Range(LabFolds(Rows)) : ManagedBlind(Prefix(fold), fold)

\* No trade is scored in two folds, if a step is no shorter than the test.
Disjoint(Of(_), folds) == \A f, g \in folds : f # g => Of(f) \cap Of(g) = {}
FoldsApart(folds, pressed, managed) ==
  /\ Disjoint(LAMBDA f : pressed[f], folds)
  /\ Disjoint(LAMBDA f : {t.episode : t \in UNION managed[f].trades}, folds)
SelectedAny(events, fold) ==
  UNION {Selected(events, fold, c) : c \in Candidates("market") \cup Candidates("limit")}
ScoredIn(folds, events) ==
  FoldsApart(folds, [f \in folds |-> SelectedAny(events, f)],
                    [f \in folds |-> ManagedFold(Rows, Episodes(Rows), f)])
ScoredOnce == closed => ScoredIn(Range(LabFolds(Rows)), Events(Rows, Structure, HoldoutStart(Rows)))

\* What a fold is scored with was chosen blind, if the embargo covers all that a
\* trade may take (quote_pressure_lab.py:161-178, path_management_lab.py:164-185).
ChosenBlind == PressureChosenBlind /\ PolicyChosenBlind /\ ScoredOnce

\* A trade that is decided stays decided, whatever quotes follow, and so do the
\* result of a basket and a confirmation; a ticket is added only at its own
\* threshold, so there are never more than the thresholds allow.
Results(side, quotes, variant) == {BasketResult(b) : b \in SimulateBasket(side, quotes, variant)}
DecisionsStay(i, side, quotes) ==
  \A n \in 0 .. Len(quotes) :
    LET seen == SubSeq(quotes, 1, n)
        Passed(rule, path) == Confirmed(rule, Rows[i], Structure[i], side, path)
    IN  /\ \A p \in PathPolicies : SimulatePath(side, seen, p) \subseteq SimulatePath(side, quotes, p)
        /\ \A v \in Variants : Results(side, seen, v) \subseteq Results(side, quotes, v)
        /\ \A rule \in {"persistence", "market_quality", "alignment", "full_confirmation"} :
             Passed(rule, seen) => Passed(rule, quotes) /\ Passed("persistence", seen)
TicketsHold(side, quotes) ==
  \A v \in Variants : \A basket \in SimulateBasket(side, quotes, v) :
    /\ Len(basket.entries) <= Len(Stages) + 1
    /\ \A n \in 2 .. Len(basket.entries) :
         \E k \in DOMAIN quotes :
           /\ quotes[k].at <= basket.exit /\ Buy(quotes[k], side) = basket.entries[n]
           /\ side * (Sell(quotes[k], side) - basket.entries[1]) <= -Stages[n - 1]
EpisodeHolds(i, side, quotes) == DecisionsStay(i, side, quotes) /\ TicketsHold(side, quotes)

\* A gate at the median passes at least half of the rows it was set on.
GatesHold ==
  \A values \in [1 .. 3 -> 0 .. 2] \cup [1 .. 4 -> 0 .. 1] :
    LET train == [i \in DOMAIN values |-> [m \in Measures \cup {"trend"} |-> values[i]]]
        Passing(gate) == {i \in DOMAIN train : Passes(train[i], gate, Thresholds(train))}
    IN  /\ \A gate \in {"tight_spread", "high_activity", "low_volatility", "narrow_range"} :
             2 * Cardinality(Passing(gate)) >= Len(train)
        /\ Passing("high_volatility") = DOMAIN train \ Passing("low_volatility")
        /\ Passing("wide_range") = DOMAIN train \ Passing("narrow_range")
        /\ Passing("trend_aligned") \subseteq Passing("all")

\* Pairs are of one side, within the tolerance, one for each trade; a trade left
\* alone has no free partner nearer than the one its neighbour took; and the
\* effects of a pair add up to the difference of its results.
Profit(t) == t.side * (t.exit - t.entry)
Opened(ticket, at, side) == [ticket |-> ticket, opened |-> at, side |-> side, entry |-> at, exit |-> 3 * ticket]
PairHolds(provider, copied, pairs) ==
  /\ \A x \in pairs : /\ x.provider.side = x.copied.side /\ x.lag <= 1
                      /\ Effects(x).entry + Effects(x).exit = Profit(x.copied) - Profit(x.provider)
  /\ \A x, y \in pairs : x.provider = y.provider \/ x.copied = y.copied => x = y
  /\ \A p \in provider, c \in copied :
       p.side = c.side /\ Abs(p.opened - c.opened) <= 1 =>
         \E x \in pairs : (x.provider = p \/ x.copied = c) /\ x.lag <= Abs(p.opened - c.opened)
PairsHold ==
  \A times \in [1 .. 4 -> {0, 1, 3}], sides \in [1 .. 2 -> {1, -1}] :
    LET provider == {Opened(1, times[1], 1), Opened(2, times[2], sides[1])}
        copied == {Opened(3, times[3], 1), Opened(4, times[4], sides[2])}
    IN  PairHolds(provider, copied, MatchTrades(provider, copied, 1))

\* The replays of an episode look at no quote after the one they decide on, and
\* the thresholds and pairs are what the labs say of them (path_management_lab.py
\* :78-140, controlled_breakout_lab.py:74-153, breakout_confirmation_lab.py:56-81,
\* regime_gate_lab.py:122-167, trade_management_lab.py:129-199).
PathsHold ==
  /\ closed => \A i \in DOMAIN Rows : Structure[i].side # 0 =>
                 EpisodeHolds(i, Structure[i].side, QuotePath(Rows, [at |-> Rows[i].bar.at], PathHorizon))
  /\ tape = <<>> /\ ~closed => GatesHold /\ PairsHold
=============================================================================

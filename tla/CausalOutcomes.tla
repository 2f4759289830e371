---------------------------- MODULE CausalOutcomes ----------------------------
(***************************************************************************)
(* What would have come of a trade at each row: the entry at the first     *)
(* quote after the decision, the exit at the first quote after the         *)
(* horizon, the best and the worst quote between, computed window by       *)
(* window over a long file; the same for decision bars; and the episodes   *)
(* that are joined with these labels.                                      *)
(***************************************************************************)
EXTENDS QuoteFeatures

CONSTANTS Latency, EntryDelay, ExitDelay,  \* clock units
          ContinuityGap, Horizon,          \* seconds
          HourHorizon, MaximumSpread

OutcomeConfig ==
  Horizon > 0 /\ EntryDelay >= 0 /\ ExitDelay >= 0 /\ ContinuityGap > 0 /\ Latency >= 0
MultiHourOutcomeConfig == HourHorizon > 0
SessionEpisodeConfig == MaximumSpread > 0
ASSUME OutcomesAssumption == OutcomeConfig /\ MultiHourOutcomeConfig /\ SessionEpisodeConfig

\* Rows of one segment have no gap between them.
Segment(rows, i) ==
  Cardinality({k \in 2 .. i : rows[k].bar.at - rows[k - 1].bar.at > ContinuityGap})
FirstAt(rows, after, time) ==
  Min({Len(rows) + 1} \cup {q \in (after + 1) .. Len(rows) : rows[q].bar.openAt >= time})
\* The first quote at or after a time, if it comes soon enough without a gap; or 0.
QuoteAfter(rows, i, time, delay) ==
  LET q == FirstAt(rows, i, time)
  IN  IF q <= Len(rows) /\ rows[q].bar.openAt - time <= delay /\ Segment(rows, q) = Segment(rows, i)
      THEN q ELSE 0
EntryIndex(rows, i) == QuoteAfter(rows, i, rows[i].availableAt + Latency, EntryDelay)
ExitIndex(rows, entry) ==
  IF entry = 0 THEN 0
  ELSE QuoteAfter(rows, entry, rows[entry].bar.openAt + Horizon * Second, ExitDelay)
Pairs(rows) ==
  [i \in DOMAIN rows |-> LET entry == EntryIndex(rows, i)
                         IN  [entry |-> entry, exit |-> ExitIndex(rows, entry)]]

\* Highest and lowest of a price between entry and exit, in one pass over two
\* queues of indices.
Push(queue, values, k, Worse(_, _)) ==
  Append(SelectSeq(queue, LAMBDA q : ~Worse(values[q], values[k])), k)
Filled(s, values, to) ==
  FoldLeft(LAMBDA t, k : [t EXCEPT !.added = k + 1,
                            !.max = Push(@, values, k, LAMBDA a, b : a <= b),
                            !.min = Push(@, values, k, LAMBDA a, b : a >= b)],
           s, [n \in 1 .. Max({0, to - s.added + 1}) |-> s.added + n - 1])
Expired(s, entry) == [s EXCEPT !.max = SelectSeq(@, LAMBDA q : q >= entry),
                               !.min = SelectSeq(@, LAMBDA q : q >= entry)]
WithHeads(s, values) ==
  [s EXCEPT !.out = Append(@, [high |-> values[Head(s.max)], low |-> values[Head(s.min)]])]
Forward(values, pairs) ==
  LET Next(s, pair) ==
        IF pair.exit = 0 THEN [s EXCEPT !.out = Append(@, <<>>)]
        ELSE WithHeads(Expired(Filled([s EXCEPT !.added = Max({@, pair.entry})], values, pair.exit),
                               pair.entry), values)
  IN  FoldLeft(Next, [added |-> 1, max |-> <<>>, min |-> <<>>, out |-> <<>>], pairs).out

\* The returns as ratios of what is received to what is paid.
Outcome(row, entry, exit, bids, asks) ==
  [at |-> row.bar.at, valid |-> TRUE, entryAt |-> entry.openAt, exitAt |-> exit.openAt,
   long |-> <<exit.openBid, entry.openAsk>>, short |-> <<entry.openBid, exit.openAsk>>,
   bids |-> bids, asks |-> asks]
OutcomesOf(rows, pairs, bids, asks) ==
  [i \in DOMAIN rows |->
     IF pairs[i].exit = 0 THEN [at |-> rows[i].bar.at, valid |-> FALSE]
     ELSE Outcome(rows[i], rows[pairs[i].entry].bar, rows[pairs[i].exit].bar, bids[i], asks[i])]
Paired(rows, pairs) ==
  OutcomesOf(rows, pairs, Forward([i \in DOMAIN rows |-> rows[i].bar.openBid], pairs),
                          Forward([i \in DOMAIN rows |-> rows[i].bar.openAsk], pairs))
Outcomes(rows) == Paired(rows, Pairs(rows))

\* Windows of a file: as many rows as one batch, and what follows them up to
\* the last quote their outcomes can need.
LookAheadToHorizon == Horizon * Second  \* without delays and latency
LookAhead == Horizon * Second + EntryDelay + ExitDelay + Latency
WindowEnd(rows, first, core) ==
  LET last == Min({first + core - 1, Len(rows)})
      loaded == {k \in last .. Len(rows) : k % core = 0 \/ k = Len(rows)}
  IN  Min({k \in loaded : k = Len(rows) \/ rows[k].bar.openAt >= rows[last].availableAt + LookAhead})
StreamedOutcomes(rows, core) ==
  LET First(k) == 1 + (k - 1) * core
      count == (Len(rows) + core - 1) \div core
      Written(k) == SubSeq(Outcomes(SubSeq(rows, First(k), WindowEnd(rows, First(k), core))),
                           1, Min({core, Len(rows) - First(k) + 1}))
  IN  FoldLeft(LAMBDA acc, k : acc \o Written(k), <<>>, [k \in 1 .. count |-> k])

----------------------------------------------------------------------------
(* Outcomes of decision bars: from the opening of the next bar, over bars  *)
(* that follow each other without a gap.                                   *)

BarSeconds(hours) ==
  LET steps == {hours[i].at - hours[i - 1].at : i \in 2 .. Len(hours)} \ {0}
  IN  IF steps = {} THEN 300 ELSE Min(steps)
HourSteps(hours) == HourHorizon \div BarSeconds(hours)
Continuous(hours, from, to) ==
  \A i \in from .. to : /\ hours[i].complete
                        /\ hours[i].at - hours[i - 1].at = BarSeconds(hours)
HourValid(hours, signal) ==
  /\ signal + 1 + HourSteps(hours) <= Len(hours)
  /\ Continuous(hours, signal + 1, signal + 1 + HourSteps(hours))
HourOutcome(hours, signal) ==
  LET entry == hours[signal + 1]
      exit == hours[signal + 1 + HourSteps(hours)]
      path == (signal + 1) .. (signal + 1 + HourSteps(hours))
      high == Max({hours[i].high : i \in path})
      low == Min({hours[i].low : i \in path})
      AtFirst(Is(_)) == hours[Min({i \in path : Is(hours[i])})].at - entry.at
  IN  [entryDelay |-> entry.at - hours[signal].available,
       long |-> <<exit.openBid, entry.openAsk>>, short |-> <<entry.openBid, exit.openAsk>>,
       high |-> high, low |-> low,
       toHigh |-> AtFirst(LAMBDA h : h.high = high), toLow |-> AtFirst(LAMBDA h : h.low = low)]
HourRaises(hours) == HourHorizon % BarSeconds(hours) # 0

----------------------------------------------------------------------------
(* Episodes.                                                               *)

\* episode_start_mask: where a state begins, or goes on after a gap.
EpisodeStarts(times, states, gap) ==
  {i \in DOMAIN times :
     /\ states[i] # <<>>
     /\ i = 1 \/ times[i] - times[i - 1] > gap \/ states[i] # states[i - 1]}

\* Session episodes: the first breakout of each range of a day whose spread is
\* acceptable and whose label is valid.
NoEpisodes == [day |-> -1, sides |-> [w \in RangeWindows |-> 0], emitted |-> {}, rows |-> <<>>]
EmittedLast(emitted, starts) == starts  \* what was emitted before is forgotten
EmittedToday(emitted, starts) == emitted \cup starts
AddEpisodes(s, feature, range, outcome) ==
  LET today == IF range.day = s.day THEN s ELSE [NoEpisodes EXCEPT !.rows = s.rows, !.day = range.day]
      starts == {w \in RangeWindows :
                   /\ range.side[w] # 0 /\ today.sides[w] = 0 /\ w \notin today.emitted
                   /\ feature.bar.ask - feature.bar.bid <= MaximumSpread /\ outcome.valid}
      Row(w) == [at |-> range.at, window |-> w, side |-> range.side[w], range |-> range.known[w],
                 returns |-> feature.returns,
                 label |-> IF range.side[w] > 0 THEN outcome.long ELSE outcome.short]
      ordered == SetToSortSeq(starts, LAMBDA a, b : a.from < b.from)
  IN  [today EXCEPT !.sides = range.side, !.emitted = EmittedToday(@, starts),
                    !.rows = @ \o [i \in DOMAIN ordered |-> Row(ordered[i])]]
SessionEpisodes(features, ranges, outcomes) ==
  FoldLeft(LAMBDA s, i : AddEpisodes(s, features[i], ranges[i], outcomes[i]),
           NoEpisodes, [i \in DOMAIN features |-> i]).rows

\* The data sets are joined row by row, and only if their times agree.
Aligned(features, ranges, outcomes) ==
  /\ Len(features) = Len(ranges) /\ Len(features) = Len(outcomes)
  /\ \A i \in DOMAIN features : features[i].bar.at = ranges[i].at /\ ranges[i].at = outcomes[i].at
=============================================================================

---------------------------- MODULE QuotePressureLab ----------------------------
(***************************************************************************)
(* The quote-pressure lab: what would have come of an entry at the market  *)
(* or at a limit after each breakout under pressure, and the choice of     *)
(* thresholds for each fold, made on its training and validation events    *)
(* and scored once on its test events.                                     *)
(***************************************************************************)
EXTENDS SequenceLab

CONSTANTS Pressures, SpreadCaps, LimitWait, MinimumTrain, MinimumValidation, MinimumTest

QuotePressureConfig ==
  EpisodeSpacing * Second >= (HoldDelay + Max(ExitHorizons)) * Second + EntryDelay + Latency
ASSUME QuotePressureAssumption == QuotePressureConfig

\* A limit at the opening bid or ask of the second of the signal is filled by
\* the first quote that trades through it.
Through(bar, limit, side) == IF side > 0 THEN bar.openAsk < limit ELSE bar.openBid > limit
Reached(bar, limit, side) ==  \* filled when the price is only reached
  IF side > 0 THEN bar.openAsk <= limit + 1 ELSE bar.openBid >= limit - 1
Fills(bar, limit, side) == Through(bar, limit, side)
LimitOf(bar, side) == IF side > 0 THEN bar.openBid ELSE bar.openAsk
LimitFill(rows, signal, side) ==
  LET end == At(QuoteTimes(rows), signal, LimitWait * Second, ContinuityGap * Second)
      through == {k \in (signal + 1) .. end : Fills(rows[k].bar, LimitOf(rows[signal].bar, side), side)}
  IN  IF end = 0 \/ through = {} THEN 0 ELSE Min(through)

EventReturn(from, to, side, style, limit) ==
  LET paid == IF style = "limit" THEN limit ELSE IF side > 0 THEN from.openAsk ELSE from.openBid
  IN  [gross |-> Gross(OpenMid(from), OpenMid(to), side),
       net |-> 2 * side * ((IF side > 0 THEN to.openBid ELSE to.openAsk) - paid)
               - Slippage * (IF style = "limit" THEN 1 ELSE 2)]

\* Only an event that is kept counts for the distance to the next; none begins in
\* the holdout, though one that begins before it may be filled and left in it.
PressureOf(rows, signal, side) == side * Ratio(rows[signal].returns[Min(ReturnHorizons)])
PressureEvents(rows, structure, holdout) ==
  LET Take(taken, i) ==
        LET signal == At(RowTimes(rows), i, HoldDelay, ContinuityGap)
        IN  IF \/ TooNear(rows, i, IF taken = <<>> THEN 0 ELSE Last(taken)) \/ signal = 0
            THEN taken
            ELSE IF PressureOf(rows, signal, structure[i].side) < Min(Pressures) THEN taken
            ELSE Append(taken, i)
      starts == {i \in Starts(rows, structure) : rows[i].bar.at < holdout}
  IN  FoldLeft(Take, <<>>, SelectSeq([i \in DOMAIN rows |-> i], LAMBDA i : i \in starts))

\* An event grows from its breakout and signal to its entry, exit and result.
Signalled(rows, structure, i) ==
  [at |-> rows[i].bar.at, side |-> structure[i].side, signal |-> At(RowTimes(rows), i, HoldDelay, ContinuityGap)]
EnteredAt(rows, e, style) ==
  e @@ [style |-> style, entry |-> IF style = "market" THEN EntryIndex(rows, e.signal)
                                   ELSE LimitFill(rows, e.signal, e.side)]
Left(rows, e, horizon) ==
  e @@ [horizon |-> horizon, exit |-> IF e.entry = 0 THEN 0
          ELSE At(QuoteTimes(rows), e.entry, horizon * Second, ContinuityGap * Second)]
\* One horizon without an exit leaves the later ones unfilled too (the code does
\* not take filled back); horizons ascend, so those have no exit either.
Scored(rows, e) ==
  e @@ [pressure |-> PressureOf(rows, e.signal, e.side), filled |-> e.exit # 0,
        spread |-> rows[e.signal].bar.ask - rows[e.signal].bar.bid]
    @@ IF e.exit = 0 THEN [gross |-> 0, net |-> 0]
       ELSE EventReturn(rows[e.entry].bar, rows[e.exit].bar, e.side, e.style,
                        LimitOf(rows[e.signal].bar, e.side))
PressureEvent(rows, structure, i, horizon, style) ==
  Scored(rows, Left(rows, EnteredAt(rows, Signalled(rows, structure, i), style), horizon))
Events(rows, structure, holdout) ==
  {PressureEvent(rows, structure, i, h, style) :
     i \in Range(PressureEvents(rows, structure, holdout)), h \in ExitHorizons, style \in {"market", "limit"}}

----------------------------------------------------------------------------
(* The choice; the thresholds of activity and the sessions, which are of   *)
(* the same kind as those of pressure and spread, are left out.            *)

Between(events, from, to) == {e \in events : from <= e.at /\ e.at < to}
Candidates(style) == [horizon : ExitHorizons, style : {style}, pressure : Pressures, spread : SpreadCaps]
Matching(events, c) ==
  {e \in events : /\ e.horizon = c.horizon /\ e.style = c.style /\ e.filled
                  /\ e.pressure >= c.pressure /\ e.spread <= c.spread}
\* Means are compared by cross-multiplication.
MeanNet(events) == <<Sum(events, Net2), Cardinality(events)>>
Above(a, b) == a[1] * b[2] > b[1] * a[2]
Worse(a, b) == IF Above(a, b) THEN b ELSE a
ScoreOf(train, validation) ==
  IF \/ train[2] < MinimumTrain \/ validation[2] < MinimumValidation
     \/ train[1] <= 0 \/ validation[1] <= 0
  THEN <<>> ELSE Worse(train, validation)
Score(events, fold, c) ==
  ScoreOf(MeanNet(Matching(Between(events, fold.train, fold.trainEnd), c)),
          MeanNet(Matching(Between(events, fold.validation, fold.validationEnd), c)))
ScoreOnTest(events, fold, c) ==  \* the test events have a say
  LET test == Matching(Between(events, fold.test, fold.testEnd), c)
  IN  IF Score(events, fold, c) = <<>> THEN <<>> ELSE <<100 + Sum(test, Net2), 1>>
Merit(events, fold, c) == Score(events, fold, c)

\* The best candidates; the code takes the first of them in the order of its loops.
Leading(merits) ==
  LET scored == {c \in DOMAIN merits : merits[c] # <<>>}
  IN  {c \in scored : \A other \in scored : ~Above(merits[other], merits[c])}
Chosen(events, fold, style) == Leading([c \in Candidates(style) |-> Merit(events, fold, c)])
Selected(events, fold, c) ==
  LET test == Matching(Between(events, fold.test, fold.testEnd), c)
  IN  IF Cardinality(test) < MinimumTest THEN {} ELSE test
=============================================================================

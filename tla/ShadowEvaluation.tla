-------------------------- MODULE ShadowEvaluation --------------------------
(***************************************************************************)
(* evaluate_demo_shadow as a function of the ledgers: which trades count,  *)
(* the metrics over them, the gates and the status.  Times are integers,   *)
(* returns are whole basis points, ratios are compared by multiplication.  *)
(* A metric that the code leaves at None makes its gate "none".            *)
(***************************************************************************)
EXTENDS Ordering, Sequences, SequencesExt

CONSTANTS DayLength, MinWeeks, MinTrades, MinDays,
          MinProfitFactor, MinCoverage, MaxBestDay, MaxTopFive  \* in percent

Gate(known, holds) == IF ~known THEN "none" ELSE IF holds THEN "pass" ELSE "fail"
SumOf(values) ==
  LET sum[n \in 0 .. Len(values)] == IF n = 0 THEN 0 ELSE sum[n - 1] + values[n]
  IN  sum[Len(values)]
Nets(trades) == [i \in DOMAIN trades |-> trades[i].net]
DayOf(trade) == trade.entry \div DayLength
DailyValues(trades) ==
  [d \in {DayOf(trades[i]) : i \in DOMAIN trades} |->
     SumOf(Nets(SelectSeq(trades, LAMBDA t : DayOf(t) = d)))]

\* Equity, its peak and the worst fall from a peak, trade by trade.
Flat == [equity |-> 0, peak |-> 0, worst |-> 0]
AfterTradeFromFirstPeak(account, net) ==  \* the peak is never raised
  LET equity == account.equity + net
  IN  [equity |-> equity, peak |-> account.peak,
       worst |-> Max({account.worst, account.peak - equity})]
AfterTrade(account, net) ==
  LET equity == account.equity + net
      peak == Max({account.peak, equity})
  IN  [equity |-> equity, peak |-> peak, worst |-> Max({account.worst, peak - equity})]
MaximumDrawdown(values) ==
  LET account[n \in 0 .. Len(values)] ==
        IF n = 0 THEN Flat ELSE AfterTrade(account[n - 1], values[n])
  IN  account[Len(values)].worst

\* The campaign is judged from the first start of the worker, else from the
\* first health row, else from its creation.
AuditStart(ledgers) ==
  CASE ledgers.workerStarts # {} -> Min(ledgers.workerStarts)
    [] ledgers.workerStarts = {} /\ ledgers.health # <<>> ->
         Min({ledgers.health[i].at : i \in DOMAIN ledgers.health})
    [] OTHER -> ledgers.created

InvalidByFills(ledgers) ==  \* only those whose position was cleared
  {f.id : f \in {x \in Range(ledgers.fills) : x.event = "invalidated"}}
Invalid(ledgers) == {e.id : e \in {x \in Range(ledgers.events) : x.exclude}}
Prospective(ledgers) ==
  SelectSeq(ledgers.signals, LAMBDA s : s.observed >= AuditStart(ledgers))
ValidSignals(ledgers) ==
  SelectSeq(Prospective(ledgers), LAMBDA s : s.id \notin Invalid(ledgers))

\* The rows of an event in the fills ledger; of several for one signal the last
\* counts.  An entry counts by when the engine observed it, not by its quote.
CountedRow(ledgers, row, event) ==
  /\ row.event = event /\ row.id \notin Invalid(ledgers)
  /\ event = "entry" => row.observed >= AuditStart(ledgers)
LastRows(ledgers, event) ==
  {i \in DOMAIN ledgers.fills :
     /\ CountedRow(ledgers, ledgers.fills[i], event)
     /\ \A j \in (i + 1) .. Len(ledgers.fills) :
          CountedRow(ledgers, ledgers.fills[j], event)
            => ledgers.fills[j].id # ledgers.fills[i].id}

Entries(ledgers) == LastRows(ledgers, "entry")
Exits(ledgers) == LastRows(ledgers, "exit")

\* An entry and an exit of one signal are a trade; trades count in their order.
CountedTrades(ledgers) ==
  LET pairs == {p \in Entries(ledgers) \X Exits(ledgers) :
                  ledgers.fills[p[1]].id = ledgers.fills[p[2]].id}
      trade(p) == [id |-> ledgers.fills[p[1]].id, side |-> ledgers.fills[p[1]].side,
                   entry |-> ledgers.fills[p[1]].at, net |-> ledgers.fills[p[2]].net,
                   boundary |-> ledgers.fills[p[2]].boundary]
  IN  {trade(p) : p \in pairs}
\* Those of one time keep the order in which their signals first came.
FirstRow(ledgers, id) ==
  Min({i \in DOMAIN ledgers.fills : /\ ledgers.fills[i].id = id
                                    /\ CountedRow(ledgers, ledgers.fills[i], "entry")})
EarlierTrades(ledgers) ==
  {p \in CountedTrades(ledgers) \X CountedTrades(ledgers) :
     \/ p[1].entry < p[2].entry
     \/ p[1].entry = p[2].entry /\ FirstRow(ledgers, p[1].id) < FirstRow(ledgers, p[2].id)}
Trades(ledgers) == InOrder(CountedTrades(ledgers), EarlierTrades(ledgers))

Failures(ledgers, trades) ==
  ledgers.failedCycles
    + Len(SelectSeq(ledgers.health, LAMBDA h : ~h.healthy))
    + Len(SelectSeq(trades, LAMBDA t : ~t.boundary))

BothNonnegative(first, second) ==
  Gate(first # <<>> /\ second # <<>>, SumOf(first) >= 0 /\ SumOf(second) >= 0)

Gates(ledgers, now) ==
  LET trades == Trades(ledgers)
      nets == Nets(trades)
      daily == DailyValues(trades)
      half == Len(nets) \div 2
      gains == SetToSortSeq({d \in DOMAIN daily : daily[d] > 0},
                            LAMBDA a, b : daily[a] > daily[b] \/ (daily[a] = daily[b] /\ a < b))
      positive == [i \in DOMAIN gains |-> daily[gains[i]]]
      wins == SumOf(SelectSeq(nets, LAMBDA v : v > 0))
      losses == -SumOf(SelectSeq(nets, LAMBDA v : v < 0))
      eligible == SelectSeq(ValidSignals(ledgers), LAMBDA s : s.disposition # "ignored")
      entered == SelectSeq(eligible, LAMBDA s : s.disposition = "entry")
      sideNets(side) == Nets(SelectSeq(trades, LAMBDA t : t.side = side))
  IN  [weeks |-> Gate(TRUE, now - AuditStart(ledgers) >= MinWeeks * 7 * DayLength),
       trades |-> Gate(TRUE, Len(trades) >= MinTrades),
       days |-> Gate(TRUE, Cardinality(DOMAIN daily) >= MinDays),
       mean |-> Gate(nets # <<>>, SumOf(nets) > 0),
       profitFactor |-> Gate(losses > 0, 100 * wins >= MinProfitFactor * losses),
       coverage |-> Gate(eligible # <<>>, 100 * Len(entered) >= MinCoverage * Len(eligible)),
       drawdownPct |-> "none",
       bestDay |-> Gate(positive # <<>>, 100 * positive[1] <= MaxBestDay * SumOf(positive)),
       topFive |-> Gate(positive # <<>>,
                        100 * SumOf(SubSeq(positive, 1, Min({5, Len(positive)})))
                          <= MaxTopFive * SumOf(positive)),
       directions |-> BothNonnegative(sideNets(1), sideNets(-1)),
       halves |-> IF Len(nets) < 2 THEN "none"
                  ELSE BothNonnegative(SubSeq(nets, 1, half),
                                       SubSeq(nets, half + 1, Len(nets))),
       failures |-> Gate(TRUE, Failures(ledgers, trades) <= 0)]

StatusOf(gates) ==
  LET results == {gates[g] : g \in DOMAIN gates}
  IN  CASE {gates.weeks, gates.trades, gates.days} # {"pass"} -> "collecting"
        [] {gates.weeks, gates.trades, gates.days} = {"pass"} /\ "none" \in results -> "yellow"
        [] results = {"pass"} -> "green"
        [] OTHER -> "red"

==================================================

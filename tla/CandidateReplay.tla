---------------------------- MODULE CandidateReplay ----------------------------
(***************************************************************************)
(* The frozen candidate and the discovery arms computed offline from the   *)
(* exports of the recorder: bars, candidates, signals and trades, and the  *)
(* commands that publish them while the recorder may go on writing.  A     *)
(* price is twice the mid, a price difference stands for a return, and an  *)
(* average is a pair <<numerator, denominator>>.                           *)
(***************************************************************************)
EXTENDS Integers, Sequences, FiniteSets, FiniteSetsExt, SequencesExt, TLC

CONSTANTS
  Bar,               \* 5 minutes
  H1Bars, H4Bars,    \* bars of the two higher frames, 12 and 48
  Fast, Slow,        \* periods of the averages, 12 and 26
  EfficiencyBars,    \* 6
  MinimumEfficiency, \* of the frozen specification, in percent
  TrimSpan,          \* 10 days
  CooldownTime,      \* family_cooldown_seconds, and 14400 in the arms
  Holdings, QuoteAge, \* holding_seconds of the specification and the arms, maximum_quote_age_seconds
  Lookback, ShockBars, MinimumShock, MadMultiple, ShockEfficiency, \* the shock arm of REGISTRY
  ConfirmBars,       \* 3
  BoundaryBars,      \* 48
  DayLength,
  Bursts, MaxBars,   \* what the recorder may write for the next bar, and how many bars
  MaxTasks           \* commands started
CandidateReplayConfig ==
  /\ {Bar, H1Bars, H4Bars, EfficiencyBars, Lookback, ShockBars, ConfirmBars, BoundaryBars,
      DayLength} \cup Holdings \subseteq Nat \ {0}
  /\ Fast \in 2 .. Slow /\ ShockBars <= Lookback + 1

VARIABLES rows, task, tasks, published

replayVars == <<rows, task, tasks, published>>

----------------------------------------------------------------------------
(* Bars.                                                                   *)

\* Each(seq, Op): Op of every element.
Each(seq, Op(_)) == SubSeq([n \in DOMAIN seq |-> Op(seq[n])], 1, Len(seq))
Indices(seq, Holds(_)) == SelectSeq([n \in DOMAIN seq |-> n], Holds)

\* ReadQuotes: each row of a session once, the rejected ones left out, in time order.
ReadQuotes(recorded) ==
  LET First(n) == \A k \in 1 .. (n - 1) : recorded[k].key # recorded[n].key
      Valid(n) == recorded[n].bid > 0 /\ recorded[n].ask >= recorded[n].bid
      Quote(n) == [at |-> recorded[n].at, bid |-> recorded[n].bid, ask |-> recorded[n].ask]
  IN  SortSeq(Each(Indices(recorded, LAMBDA n : First(n) /\ Valid(n)), Quote), LAMBDA p, q : p.at < q.at)

OpenOf(quote) == quote.at - (quote.at % Bar)
Ascending(opens) ==
  IF opens = {} THEN <<>>
  ELSE SelectSeq([n \in 1 .. (Max(opens) \div Bar + 1) |-> (n - 1) * Bar], LAMBDA o : o \in opens)
BarOf(opened, items) ==
  LET mids == Each(items, LAMBDA q : q.bid + q.ask)
  IN  [open_at |-> opened, available_at |-> opened + Bar, open |-> Head(mids), close |-> Last(mids),
       high |-> Max(ToSet(mids)), low |-> Min(ToSet(mids))]
Bars(quotes) ==
  Each(Ascending({OpenOf(q) : q \in ToSet(quotes)}),
       LAMBDA opened : BarOf(opened, SelectSeq(quotes, LAMBDA q : OpenOf(q) = opened)))

\* The parity audit closes a bar as soon as a quote of another one comes.
IncrementalBars(quotes) ==
  LET Step(groups, q) ==
        IF groups # <<>> /\ OpenOf(Last(groups)[1]) = OpenOf(q)
        THEN Front(groups) \o <<Append(Last(groups), q)>> ELSE Append(groups, <<q>>)
  IN  Each(FoldLeft(Step, <<>>, quotes), LAMBDA items : BarOf(OpenOf(items[1]), items))

Joined(old, new) ==
  [old EXCEPT !.close = new.close, !.high = Max({@, new.high}), !.low = Min({@, new.low})]
MergeBars(cached, incoming) ==
  LET Of(bars, opened) == SelectSeq(bars, LAMBDA b : b.open_at = opened)
      Merged(old, new) == IF old = <<>> THEN new[1] ELSE IF new = <<>> THEN old[1]
                          ELSE Joined(old[1], new[1])
  IN  Each(Ascending({b.open_at : b \in ToSet(cached \o incoming)}),
           LAMBDA opened : Merged(Of(cached, opened), Of(incoming, opened)))
TrimBars(bars, latest) == SelectSeq(bars, LAMBDA b : b.open_at >= latest - TrimSpan)

Continuous(bars) == \A n \in 2 .. Len(bars) : bars[n].open_at - bars[n - 1].open_at = Bar

----------------------------------------------------------------------------
(* The frozen candidate.                                                   *)

Completed(bars, count) ==
  LET Whole(n) == /\ Continuous(SubSeq(bars, n - count + 1, n))
                  /\ bars[n].available_at % (count * Bar) = 0
  IN  Each(Indices(bars, LAMBDA n : n >= count /\ Whole(n)),
           LAMBDA n : [open |-> bars[n - count + 1].open, close |-> bars[n].close,
                       available_at |-> bars[n].available_at])
Ema(values, period) ==
  LET Step(mean, value) ==
        <<2 * value * mean[2] + (period - 1) * mean[1], (period + 1) * mean[2]>>
  IN  FoldLeft(Step, <<values[Len(values) - period + 1], 1>>,
               SubSeq(values, Len(values) - period + 2, Len(values)))
Abs(x) == IF x < 0 THEN -x ELSE x
Sign(x) == IF x > 0 THEN 1 ELSE IF x < 0 THEN -1 ELSE 0
PathLength(closes) ==
  FoldLeft(+, 0, [n \in 1 .. (Len(closes) - 1) |-> Abs(closes[n + 1] - closes[n])])

Candidates(bars) ==
  LET h1 == Completed(bars, H1Bars)
      h4 == Completed(bars, H4Bars)
      Past(groups, n) == SelectSeq(groups, LAMBDA g : g.available_at <= bars[n].available_at)
      Ready(n) == n > EfficiencyBars /\ Len(Past(h1, n)) >= Slow /\ Len(Past(h4, n)) >= 2
      Closes(items) == Each(items, LAMBDA b : b.close)
      Side(n) == LET closes == Closes(Past(h1, n)) fast == Ema(closes, Fast) slow == Ema(closes, Slow)
                 IN  Sign(fast[1] * slow[2] - slow[1] * fast[2])
      Move(n) == LET past == Past(h4, n) IN Last(past).close - past[Len(past) - 1].open
      Efficient(n) == LET closes == Closes(SubSeq(bars, n - EfficiencyBars, n))
                          path == PathLength(closes)
                      IN  IF path = 0 THEN MinimumEfficiency <= 0
                          ELSE 100 * Abs(Last(closes) - Head(closes)) >= MinimumEfficiency * path
      State(n) == [available_at |-> bars[n].available_at, side |-> Side(n), move |-> Move(n),
                   active |-> Side(n) # 0 /\ Move(n) * Side(n) > 0 /\ Efficient(n)]
  IN  Each(Indices(bars, Ready), State)

Cooldown(signals) ==
  FoldLeft(LAMBDA kept, s : IF kept # <<>> /\ s.available_at - Last(kept).available_at < CooldownTime
                            THEN kept ELSE Append(kept, s), <<>>, signals)
\* Signals: an edge inside the cooldown is lost, it does not wait for the end of it.
Signals(candidates) ==
  Cooldown(SelectSeq(candidates, LAMBDA c : c.active /\ ~\E k \in 2 .. Len(candidates) :
                                   candidates[k] = c /\ candidates[k - 1].active))

----------------------------------------------------------------------------
(* The discovery arms.                                                     *)

\* Twice the median.
Median(values) ==
  LET sorted == SortSeq(values, <) n == Len(values)
  IN  sorted[(n + 1) \div 2] + sorted[n \div 2 + 1]
Signal(bar, side, move) ==
  [available_at |-> bar.available_at, side |-> side, move |-> move, active |-> TRUE]

ShockSignals(bars) ==
  LET Before(n) == Each(SubSeq(bars, n - Lookback, n - 1), LAMBDA b : Abs(b.close - b.open))
      Mad(n) == LET median == Median(Before(n))
                IN  Median(Each(Before(n), LAMBDA move : Abs(2 * move - median)))
      From(n) == bars[n - ShockBars + 1].open
      Move(n) == bars[n].close - From(n)
      Path(n) == PathLength(<<From(n)>> \o Each(SubSeq(bars, n - ShockBars + 1, n), LAMBDA b : b.close))
      Shock(n) == /\ n > Lookback /\ Continuous(SubSeq(bars, n - ShockBars + 1, n))
                  /\ 4 * Abs(Move(n)) >= Max({4 * MinimumShock, MadMultiple * Mad(n)})
                  /\ Path(n) > 0 /\ 100 * Abs(Move(n)) >= ShockEfficiency * Path(n)
  IN  Cooldown(Each(Indices(bars, Shock), LAMBDA n : Signal(bars[n], Sign(Move(n)), Move(n))))

Retraced(bars, n, side) ==
  LET from == bars[n - ShockBars + 1].open to == bars[n].close
  IN  from # to /\ 2 * (to - bars[n + ConfirmBars].close) * side >= Abs(to - from)
\* FailedAt: a failure is known at the bar that confirms it, not at its shock.
FailedAtShock(bars, n) == bars[n]
FailedAt(bars, n) == bars[n + ConfirmBars]
FailedShocks(bars, shocks) ==
  LET Index(s) == CHOOSE n \in DOMAIN bars : bars[n].available_at = s.available_at
      Failed(s) == /\ Index(s) + ConfirmBars <= Len(bars)
                   /\ Continuous(SubSeq(bars, Index(s), Index(s) + ConfirmBars))
                   /\ Retraced(bars, Index(s), s.side)
  IN  Cooldown(Each(SelectSeq(shocks, Failed),
                    LAMBDA s : Signal(FailedAt(bars, Index(s)), -s.side, s.move)))

BoundaryRejections(bars) ==
  LET Prior(n) == {bars[k] : k \in (n - BoundaryBars) .. (n - 1)}
      High(n) == Max({b.high : b \in Prior(n)})
      Low(n) == Min({b.low : b \in Prior(n)})
      Side(n) == IF bars[n].high > High(n) /\ bars[n].close < High(n) THEN -1
                 ELSE IF bars[n].low < Low(n) /\ bars[n].close > Low(n) THEN 1 ELSE 0
      Found(n) == n > BoundaryBars /\ Continuous(SubSeq(bars, n - BoundaryBars, n)) /\ Side(n) # 0
  IN  Cooldown(Each(Indices(bars, Found), LAMBDA n : Signal(bars[n], Side(n), 0)))

Arms(bars) ==
  [candidate |-> Signals(Candidates(bars)), shock |-> ShockSignals(bars),
   failed |-> FailedShocks(bars, ShockSignals(bars)), boundary |-> BoundaryRejections(bars)]

----------------------------------------------------------------------------
(* Trades of signals.                                                      *)

FirstQuote(quotes, at) == SelectSeq(quotes, LAMBDA q : q.at >= at)
\* Trades: one position at a time; a trade whose exit came late is kept and marked.
Trades(signals, quotes, holding) ==
  LET Traded(account, s, entry, exit) ==
        [account EXCEPT !.occupied = exit.at,
           !.trades = Append(@, [signal_at |-> s.available_at, side |-> s.side, entry_at |-> entry.at,
             exit_at |-> exit.at, entry |-> IF s.side = 1 THEN entry.ask ELSE entry.bid,
             net |-> s.side * ((IF s.side = 1 THEN exit.bid ELSE exit.ask)
                                - (IF s.side = 1 THEN entry.ask ELSE entry.bid)),
             boundary_valid |-> exit.at - entry.at - holding <= QuoteAge])]
      Missed(account, reason) == [account EXCEPT !.rejected[reason] = @ + 1]
      Step(account, s) ==
        LET entries == FirstQuote(quotes, s.available_at)
            exits == FirstQuote(quotes, entries[1].at + holding)
        IN  IF s.available_at < account.occupied THEN Missed(account, "open_position")
            ELSE IF entries = <<>> THEN Missed(account, "entry_quote_timeout")
            ELSE IF entries[1].at - s.available_at > QuoteAge THEN Missed(account, "entry_quote_timeout")
            ELSE IF exits = <<>>
            THEN [Missed(account, "exit_quote_unavailable") EXCEPT !.occupied = entries[1].at + holding]
            ELSE Traded(account, s, entries[1], exits[1])
  IN  FoldLeft(Step, [trades |-> <<>>, occupied |-> 0,
                      rejected |-> [open_position |-> 0, entry_quote_timeout |-> 0,
                                    exit_quote_unavailable |-> 0]], signals)

\* PathMetrics: the best and the worst result on the way.
PathMetrics(trade, quotes) ==
  LET path == SelectSeq(quotes, LAMBDA q : q.at \in trade.entry_at .. trade.exit_at)
      gains == {trade.side * ((IF trade.side = 1 THEN path[n].bid ELSE path[n].ask) - trade.entry) :
                  n \in DOMAIN path}
  IN  [mfe |-> Max(gains), mae |-> Min(gains)]
TotalOf(trades) == FoldLeft(LAMBDA sum, t : sum + t.net, 0, trades)
ValidOnly(trades) == SelectSeq(trades, LAMBDA t : t.boundary_valid)
DayOf(trade) == trade.signal_at \div DayLength
\* Groups: the trades of a day.
Groups(trades, day) == SelectSeq(trades, LAMBDA t : DayOf(t) = day)
\* The total of the valid trades, and what is left of it without the gain of the
\* best day of those that count for the days.
Report(trades, counting) ==
  LET total == TotalOf(ValidOnly(trades))
      best == Max({0} \cup {TotalOf(Groups(counting, DayOf(t))) : t \in ToSet(counting)})
  IN  [total |-> total, leave_best_day |-> total - best]
\* Metrics of the forensics: the days have valid trades only.
Metrics(trades) == Report(trades, ValidOnly(trades))
\* ArmMetrics of the discovery: a trade whose exit came late counts for its day
\* and not for the total.
ArmMetrics(trades) == Report(trades, trades)

----------------------------------------------------------------------------
(* The recorder and the commands.                                          *)

\* Commands that take the hashes of the exports, read them, and take the hashes again.
Commands == {"replay", "parity", "discovery"}
NoTask == [command |-> "none"]
ReplayInit == rows = <<>> /\ task = NoTask /\ tasks = 0 /\ published = {}

\* Write: the recorder appends the quotes of a bar, one bar after the last or later.
Write(burst) ==
  LET from == (IF rows = <<>> THEN 0 ELSE Last(rows).at - (Last(rows).at % Bar) + Bar) + burst.skip * Bar
  IN  /\ Cardinality({OpenOf(row) : row \in ToSet(rows)}) < MaxBars
      /\ rows' = rows \o [n \in DOMAIN burst.bids |->
                  [key |-> Len(rows) + n, at |-> from + burst.offset + n - 1,
                   bid |-> burst.bids[n], ask |-> burst.bids[n] + 1]]
      /\ UNCHANGED <<task, tasks, published>>
\* Begin: a command lists the exports and hashes them; the forensics refuses exports
\* that are not those of the discovery report.
Begin(command) ==
  /\ task = NoTask /\ tasks < MaxTasks /\ rows # <<>>
  /\ command \in Commands \/ (command = "forensics" /\ [command |-> "discovery", source |-> rows,
                                                        quotes |-> ReadQuotes(rows)] \in published)
  /\ task' = [command |-> command, hashed |-> rows, quotes |-> <<>>]
  /\ tasks' = tasks + 1
  /\ UNCHANGED <<rows, published>>
Read ==
  /\ task # NoTask /\ task.quotes = <<>>
  /\ task' = [task EXCEPT !.quotes = ReadQuotes(rows)]
  /\ UNCHANGED <<rows, tasks, published>>
\* Publish: the hashes are taken again and must be the same, except by the forensics.
Publish ==
  /\ task # NoTask /\ task.quotes # <<>> /\ task' = NoTask
  /\ published' = IF task.command = "forensics" \/ rows = task.hashed
                  THEN published \cup {[command |-> task.command, source |-> task.hashed,
                                        quotes |-> task.quotes]}
                  ELSE published
  /\ UNCHANGED <<rows, tasks>>

ReplayNext ==
  \/ \E burst \in Bursts : Write(burst)
  \/ \E command \in Commands \cup {"forensics"} : Begin(command)
  \/ Read \/ Publish

----------------------------------------------------------------------------
(* Properties.                                                             *)

\* SourceIsWhatWasRead: a report of a command that hashes twice rests on the
\* quotes its hashes name, though the recorder writes meanwhile.
SourceIsWhatWasRead ==
  \A r \in published : r.command \in Commands => r.quotes = ReadQuotes(r.source)

\* BarsAgree: the bars kept from run to run and merged are those of the whole
\* history, wherever the runs cut it, also inside a bar; the audit's incremental
\* bars are too; and a cache cut to its span has no candidate of its own.
BarsAgree(quotes, bars) ==
  /\ IncrementalBars(quotes) = bars
  /\ \A n \in 1 .. (Len(quotes) - 1) :
       MergeBars(Bars(SubSeq(quotes, 1, n)), Bars(SubSeq(quotes, n + 1, Len(quotes)))) = bars
  /\ quotes # <<>> => ToSet(Candidates(TrimBars(bars, Last(quotes).at))) \subseteq ToSet(Candidates(bars))

\* SignalsAreCausal: no arm uses a quote from after its signal became available;
\* the signals up to the next quote are those of the quotes before it.  (For the
\* quotes of the last bar; those of earlier bars were the last ones once.)
SignalsAreCausal(quotes, arms) ==
  LET Until(signals, at) == SelectSeq(signals, LAMBDA s : s.available_at <= at)
      Same(n) == LET before == Arms(Bars(SubSeq(quotes, 1, n)))
                 IN  \A arm \in DOMAIN arms :
                       Until(arms[arm], quotes[n + 1].at) = Until(before[arm], quotes[n + 1].at)
  IN  \A n \in 1 .. (Len(quotes) - 1) : OpenOf(quotes[n + 1]) = OpenOf(Last(quotes)) => Same(n)

\* TradesAddUp: every signal is traded or rejected once, one position at a time,
\* entered at the first quote in time.
TradesAddUp(quotes, arms) ==
  \A signals \in Range(arms), holding \in Holdings :
    LET account == Trades(signals, quotes, holding)
        trades == account.trades
    IN  /\ Len(trades) + account.rejected.open_position + account.rejected.entry_quote_timeout
             + account.rejected.exit_quote_unavailable = Len(signals)
        /\ \A n \in DOMAIN trades :
             LET t == trades[n] IN
             /\ t.entry_at \in t.signal_at .. (t.signal_at + QuoteAge)
             /\ t.exit_at >= t.entry_at + holding
             /\ n > 1 => trades[n - 1].exit_at <= t.entry_at

\* ForensicsAddUp: in the forensics of the shock arm a result lies between the
\* best and the worst on the way, and leaving out the best day leaves the other
\* days; the report of the discovery on that arm says the same unless an exit
\* came late.
ForensicsAddUp(quotes, shocks) ==
  \A holding \in Holdings :
    LET trades == Trades(shocks, quotes, holding).trades
        metrics == Metrics(trades)
        rest(day) == TotalOf(SelectSeq(ValidOnly(trades), LAMBDA t : DayOf(t) # day))
    IN  /\ \A t \in ToSet(trades) : t.net \in PathMetrics(t, quotes).mae .. PathMetrics(t, quotes).mfe
        /\ metrics.leave_best_day = metrics.total
             \/ \E t \in ToSet(trades) : metrics.leave_best_day = rest(DayOf(t))
        /\ ValidOnly(trades) = trades => ArmMetrics(trades) = metrics

\* ReplayHolds: offline results follow from the exports they name, and from
\* nothing later than the time they are dated at.
ReplayHolds ==
  /\ SourceIsWhatWasRead
  /\ LET quotes == ReadQuotes(rows) bars == Bars(quotes) arms == Arms(bars)
     IN  /\ BarsAgree(quotes, bars) /\ SignalsAreCausal(quotes, arms)
         /\ TradesAddUp(quotes, arms) /\ ForensicsAddUp(quotes, arms.shock)
=============================================================================

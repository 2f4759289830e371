----------------------------- MODULE SourceFeeds -----------------------------
(***************************************************************************)
(* What the readers of tick exports and trade histories make of a file:    *)
(* conversion of its times, validation and statistics in one pass, the     *)
(* partitions of a day, the merge of two one-sided exports, the importer   *)
(* of the backtests, and the replay of a published data set.               *)
(***************************************************************************)
EXTENDS Ordering, Sequences, SequencesExt

CONSTANTS DayLength, BatchSize, GapThreshold

ASSUME FeedAssumption ==
  DayLength \in Nat \ {0} /\ BatchSize \in Nat \ {0} /\ GapThreshold \in Nat

\* A time with an offset of its own ignores the declared time zone.
Utc(stamp, zone) == IF stamp.own THEN stamp.at ELSE stamp.at - zone
Tick(row, zone) == [at |-> Utc(row, zone), bid |-> row.bid, ask |-> row.ask]
Ticks(rows, zone) == [i \in DOMAIN rows |-> Tick(rows[i], zone)]

QuoteOk(tick) == tick.bid > 0 /\ tick.ask >= tick.bid
Ordered(ticks) == \A i \in 2 .. Len(ticks) : ticks[i - 1].at <= ticks[i].at
Acceptable(ticks) == ticks # <<>> /\ Ordered(ticks) /\ \A i \in DOMAIN ticks : QuoteOk(ticks[i])

NoStats == [rows |-> 0, duplicates |-> 0, gaps |-> 0, maximum |-> 0, last |-> <<>>]
Count(stats, tick) ==
  LET gap == IF stats.rows = 0 THEN 0 ELSE tick.at - stats.last[1].at
  IN  [rows |-> stats.rows + 1, last |-> <<tick>>,
       duplicates |-> stats.duplicates + (IF stats.last = <<tick>> THEN 1 ELSE 0),
       gaps |-> stats.gaps + (IF gap > GapThreshold THEN 1 ELSE 0),
       maximum |-> Max({stats.maximum, gap})]

\* What the statistics of the first n ticks should be.
Gap(ticks, i) == ticks[i].at - ticks[i - 1].at
Stats(ticks, n) ==
  [rows |-> n, last |-> IF n = 0 THEN <<>> ELSE <<ticks[n]>>,
   duplicates |-> Cardinality({i \in 2 .. n : ticks[i] = ticks[i - 1]}),
   gaps |-> Cardinality({i \in 2 .. n : Gap(ticks, i) > GapThreshold}),
   maximum |-> Max({0} \cup {Gap(ticks, i) : i \in 2 .. n})]

----------------------------------------------------------------------------
(* Partitions: rows are collected and written in batches to the file of    *)
(* their day; the file is closed when the day changes.                     *)

DayOf(tick) == tick.at \div DayLength
NoFiles == [parts |-> <<>>, day |-> <<>>, batch |-> <<>>, open |-> FALSE]

Extended(parts, rows) == [parts EXCEPT ![Len(parts)].rows = @ \o rows]
WithFile(parts, day, rows) == Append(parts, [day |-> day, rows |-> rows])
Flush(files) ==
  CASE files.batch = <<>> -> files
    [] files.batch # <<>> /\ files.open ->
         [files EXCEPT !.parts = Extended(@, files.batch), !.batch = <<>>]
    [] OTHER ->
         [files EXCEPT !.parts = WithFile(@, DayOf(files.batch[1]), files.batch),
                       !.batch = <<>>, !.open = TRUE]
Close(files) == [Flush(files) EXCEPT !.open = FALSE]

Collect(files, tick) ==
  LET put == [files EXCEPT !.day = <<DayOf(tick)>>, !.batch = Append(@, tick)]
  IN  IF Len(put.batch) >= BatchSize THEN Flush(put) ELSE put

PutWithoutTurning(files, tick) ==  \* the file stays open when the day changes
  Collect(files, tick)

Put(files, tick) ==
  Collect(IF files.day \notin {<<>>, <<DayOf(tick)>>} THEN Close(files) ELSE files, tick)

\* What the files should hold: those of the first n ticks, a file for each day
\* that has any, in order.
ByDay(parts, ticks, n) ==
  /\ \A k, l \in DOMAIN parts : k < l => parts[k].day < parts[l].day
  /\ \A i \in 1 .. n : \E k \in DOMAIN parts : parts[k].day = DayOf(ticks[i])
  /\ \A k \in DOMAIN parts : \E first \in 1 .. n, last \in 1 .. n :
       /\ first <= last /\ parts[k].rows = SubSeq(ticks, first, last)
       /\ \A i \in 1 .. n : DayOf(ticks[i]) = parts[k].day <=> first <= i /\ i <= last

\* The events of a replay, until the times go back.  The paths the manifest names
\* are not modelled, so neither is the check that they lie in its directory
\* (dataset.py:28-33); the data sets replayed here are where they were built.
Reread(parts) ==
  LET read[k \in 0 .. Len(parts)] == IF k = 0 THEN <<>> ELSE read[k - 1] \o parts[k].rows
  IN  read[Len(parts)]
Replay(parts) ==
  [raises |-> ~Ordered(Reread(parts)),
   events |-> [i \in DOMAIN Reread(parts) |-> [sequence |-> i, at |-> Reread(parts)[i].at]]]

----------------------------------------------------------------------------
(* Trade histories: of several rows of a ticket the first counts, whatever *)
(* the others hold, and nothing but what counts is validated.              *)

FirstRows(rows) ==
  {i \in DOMAIN rows : \A k \in DOMAIN rows : k < i => rows[k].ticket # rows[i].ticket}
TradeOk(row) ==
  /\ row.ticket # 0 /\ row.entry > 0
  /\ row.closed # 0 => row.closed >= row.opened /\ row.exit > 0
HistoryOk(rows) == rows # <<>> /\ \A i \in FirstRows(rows) : TradeOk(rows[i])
EarlierTrades(rows) ==
  {p \in FirstRows(rows) \X FirstRows(rows) :
     LET a == rows[p[1]]
         b == rows[p[2]]
     IN  a.opened < b.opened \/ (a.opened = b.opened /\ a.ticket < b.ticket)}
History(rows) ==
  LET order == InOrder(FirstRows(rows), EarlierTrades(rows))
  IN  [n \in DOMAIN order |-> rows[order[n]]]
HistoryStats(rows) ==
  LET trades == History(rows)
  IN  [rows |-> Len(trades), duplicates |-> Len(rows) - Len(trades),
       closed |-> Cardinality({n \in DOMAIN trades : trades[n].closed # 0}),
       first |-> Min({t.opened : t \in Range(trades)}),
       last |-> Max({0} \cup {t.closed : t \in Range(trades)})]

----------------------------------------------------------------------------
(* Batches of the JForex exporter: [from, to, ticks, count], to exclusive. *)

BatchesOk(batches) ==
  /\ batches # {} /\ \A b \in batches : b.count = Len(b.ticks)
  /\ \A a, b \in batches : a # b => a.to <= b.from \/ b.to <= a.from
InRange(batches, from, to) == {b \in batches : from <= b.from /\ b.to <= to}
\* The rows in the order they are written, each with its batch.
RowsOf(batch) == {[batch |-> batch, i |-> i, tick |-> batch.ticks[i]] : i \in DOMAIN batch.ticks}
AllRows(batches) == UNION {RowsOf(b) : b \in batches}
EarlierRows(batches) ==
  {p \in AllRows(batches) \X AllRows(batches) :
     \/ p[1].batch.from < p[2].batch.from
     \/ p[1].batch.from = p[2].batch.from /\ p[1].i < p[2].i}
BatchRows(batches) == InOrder(AllRows(batches), EarlierRows(batches))
RowOk(row, before) ==
  /\ row.batch.from <= row.tick.at /\ row.tick.at < row.batch.to
  /\ QuoteOk(row.tick)
  /\ before # <<>> => before[1].at <= row.tick.at

----------------------------------------------------------------------------
(* Two one-sided exports and the importer.                                 *)

\* One row for each pair of rows, as long as all of them agree.
CanMerge(asks, bids) ==
  /\ asks # <<>> /\ Len(asks) = Len(bids)
  /\ \A i \in DOMAIN asks : /\ asks[i].at = bids[i].at
                            /\ asks[i].flat /\ bids[i].flat
                            /\ bids[i].price <= asks[i].price
Merged(asks, bids) ==
  [i \in DOMAIN asks |-> [at |-> asks[i].at, bid |-> bids[i].price, ask |-> asks[i].price]]

\* TickCsvImporter.load: rows that are no tick, or whose time has no offset of
\* its own, are dropped and reported; two rows of one time are duplicates.
Imported(rows) == {i \in DOMAIN rows : rows[i].own /\ QuoteOk(rows[i])}
ImportErrors(rows) ==
  LET kept == Imported(rows)
      Precedes(k, i) == k < i /\ \A m \in kept : m < i => m <= k
  IN  (Len(rows) - Cardinality(kept))
        + Cardinality({i \in kept : \E k \in kept : Precedes(k, i) /\ rows[i].at < rows[k].at})
        + Cardinality({i \in kept : \E k \in kept : k < i /\ rows[k].at = rows[i].at})
IsUsable(rows) == ImportErrors(rows) = 0
=============================================================================

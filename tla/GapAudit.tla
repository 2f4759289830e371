------------------------------- MODULE GapAudit -------------------------------
(***************************************************************************)
(* The forensics of gaps: the session calendar of the venue, the intervals *)
(* without a quote, and why the outcome of a decision bar is not valid.    *)
(***************************************************************************)
EXTENDS CausalOutcomes

CONSTANTS
  WeekDays,         \* days in a week
  OpenWindows,      \* [weekday, from, to]: seconds of the day, local time
  Closures,         \* [from, to]
  Offset,           \* of the time zone of the calendar
  EffectiveFrom, EffectiveTo,   \* local days, the last one excluded
  StaleQuote, ShortInterruption

\* The seconds a weekly window covers around a stretch of time; one that does
\* not end after it starts ends on the next day.
Openings(from, to) ==
  LET days == (DayOf(from + Offset) - 1) .. DayOf(to + Offset)
      Opening(day, w) ==
        [from |-> day * Day + w.from - Offset,
         to |-> (IF w.to <= w.from THEN day + 1 ELSE day) * Day + w.to - Offset]
  IN  {o \in {Opening(day, w) : day \in days, w \in OpenWindows} :
         /\ \E day \in days, w \in OpenWindows : o = Opening(day, w) /\ w.weekday = day % WeekDays
         /\ Max({from, o.from}) < Min({to, o.to})}
\* Sorted by their start, the openings leave no hole.
AnyOpen(from, to) == Openings(from, to) # {}  \* some of it is open
FullyOpen(from, to) ==
  LET openings == SetToSortSeq({<<Max({from, o.from}), Min({to, o.to})>> : o \in Openings(from, to)},
                               LAMBDA a, b : a[1] < b[1] \/ (a[1] = b[1] /\ a[2] < b[2]))
      Sweep(cursor, o) == IF cursor >= to \/ o[1] > cursor THEN cursor ELSE Max({cursor, o[2]})
  IN  FoldLeft(Sweep, from, openings) >= to
Covers(second) == EffectiveFrom <= DayOf(second + Offset) /\ DayOf(second + Offset) < EffectiveTo
Classify(from, to) ==
  IF ~Covers(from) \/ ~Covers(to - 1) THEN "calendar_out_of_effective_range"
  ELSE IF \E c \in Closures : Max({from, c.from}) < Min({to, c.to}) THEN "scheduled_closed"
  ELSE IF FullyOpen(from, to) THEN "expected_open_quote_silence"
  ELSE "scheduled_closed"

\* The intervals without a quote.
Intervals(rows) ==
  LET stale == SelectSeq([i \in DOMAIN rows |-> i],
                         LAMBDA i : rows[i].age # <<>> /\ Last(rows[i].age) > StaleQuote)
      Interval(i) ==
        [from |-> rows[i - 1].bar.at, to |-> rows[i].bar.at, seconds |-> rows[i].age[1],
         short |-> rows[i].age[1] <= ShortInterruption,
         state |-> Classify(rows[i - 1].bar.at, rows[i].bar.at),
         jump |-> <<rows[i].bar.mid, rows[i - 1].bar.mid>>]
  IN  [n \in DOMAIN stale |-> Interval(stale[n])]

\* What a bar of the path that is missing is put down to.
Evidence(hours, rows, first, last) ==
  {LET empty == ~\E k \in DOMAIN rows : rows[k].bar.at \in bucket .. (bucket + DecisionBar - 1)
   IN  IF ~empty THEN "aggregation_defect"
       ELSE IF Classify(bucket, bucket + DecisionBar) = "scheduled_closed" THEN "scheduled_offline"
       ELSE "open_market" :
   bucket \in {b \in 0 .. (IF hours = <<>> THEN 0 ELSE Last(hours).at) :
                 \E i \in first .. last : /\ (b - hours[i - 1].at) % DecisionBar = 0
                                          /\ hours[i - 1].at < b /\ b < hours[i].at}}

\* The states of the intervals that begin on the path.
PathStates(intervals, from, to) ==
  {i.state : i \in {i \in Range(intervals) : from <= i.from /\ i.from < to /\ i.to > from}}

\* The longest silence on the path, in the features of a second.
PathEnd(hours, signal) == hours[signal].occurred + HourHorizon + DecisionBar
LongestSilence(hours, rows, signal) ==
  Max({0} \cup {rows[k].age[1] : k \in {k \in 2 .. Len(rows) :
        /\ hours[signal].occurred < rows[k].bar.at /\ rows[k].bar.at <= PathEnd(hours, signal)
        /\ rows[k].age[1] > 5}})
PathBars(hours, signal) ==
  (signal + 1) .. Min({signal + 1 + HourHorizon \div DecisionBar, Len(hours)})

Classification(hours, rows, signal) ==
  CASE \E i \in PathBars(hours, signal) : hours[i].at - hours[i - 1].at # DecisionBar ->
         "five_minute_bar_discontinuity"
    [] \A i \in PathBars(hours, signal) : /\ hours[i].at - hours[i - 1].at = DecisionBar
                                          /\ hours[i].complete ->
         "outcome_invalid_without_continuity_evidence"
    [] OTHER -> IF LongestSilence(hours, rows, signal) <= ShortInterruption
                THEN "short_quote_interruption_only"
                ELSE "long_quote_interruption_or_closure_unknown"

Attribution(hours, rows, signal) ==
  LET path == PathBars(hours, signal)
      evidence == Evidence(hours, rows, signal + 1, Max({signal} \cup path))
      states == PathStates(Intervals(rows), hours[signal].occurred, PathEnd(hours, signal))
      longest == LongestSilence(hours, rows, signal)
      labels == {l \in {"aggregation_defect"} : l \in evidence}
        \cup {l \in {"scheduled_offline_path"} :
                "scheduled_offline" \in evidence \/ "scheduled_closed" \in states}
        \cup {l \in {"open_market_missing_5m_bar"} : "open_market" \in evidence}
        \cup (IF longest > ShortInterruption THEN {"long_open_market_silence"}
              ELSE IF longest > 0 THEN {"short_quote_silence_only"} ELSE {})
  IN  IF labels = {} THEN "invalid_without_identified_path_evidence"
      ELSE IF Cardinality(labels) = 1 THEN CHOOSE l \in labels : TRUE ELSE "mixed_path"

----------------------------------------------------------------------------
(* What the calendar and the audit mean.                                   *)

OpenAt(second) ==
  LET local == second + Offset
      overnight == {w \in OpenWindows : w.to <= w.from}
  IN  \/ \E w \in OpenWindows : /\ w.weekday = DayOf(local) % WeekDays /\ TimeOfDay(local) >= w.from
                                 /\ (TimeOfDay(local) < w.to \/ w \in overnight)
      \/ \E w \in overnight : w.weekday = (DayOf(local) - 1) % WeekDays /\ TimeOfDay(local) < w.to
\* A stretch of time is expected to be open if each second of it is.
CalendarHolds(from, to) ==
  Classify(from, to) = "expected_open_quote_silence" <=>
    /\ \A second \in from .. (to - 1) : OpenAt(second) /\ ~\E c \in Closures : second \in c.from .. (c.to - 1)
    /\ {DayOf(from + Offset), DayOf(to - 1 + Offset)} \subseteq EffectiveFrom .. (EffectiveTo - 1)
\* A bar that is missing is never a defect of the aggregation, and an outcome
\* is invalid without evidence only where the bars end.
AttributionHolds(hours, rows) ==
  \A i \in DOMAIN hours :
    /\ Attribution(hours, rows, i) # "aggregation_defect"
    /\ Classification(hours, rows, i) = "outcome_invalid_without_continuity_evidence" /\ ~HourValid(hours, i) =>
         i + 1 + HourSteps(hours) > Len(hours)
=============================================================================

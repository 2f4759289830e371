----------------------------- MODULE QuoteReader -----------------------------
(***************************************************************************)
(* How the demo-shadow engine follows the recorder's files while they are  *)
(* written: a first run that reads whole files and then takes their sizes, *)
(* later runs that take a size, read to the end and save the size.         *)
(***************************************************************************)
EXTENDS TickArchive

VARIABLES saved,    \* source_cursors of engine-state.json, none before the first save
          reader,   \* the run under way
          taken,    \* lines that saved runs have seen as quotes
          edges     \* history: lines lost at a file's edge, and read beyond it

engineVars == <<saved, reader, taken, edges>>
readingVars == <<vars, engineVars>>

NoCursors == [d \in Day |-> 0]
NoReader == [pc |-> "idle", day |-> 0, size |-> 0, cursors |-> NoCursors, batch |-> {},
             gap |-> {}, ahead |-> {}]
LinesOf(day, from, to) == {<<day, l>> : l \in {k \in 2 .. Lines(to) : 2 * k - 2 >= from}}

\* Half of a line may parse as a quote, if what is cut off is not needed.
Torn(day, from, to) ==
  IF to % 2 = 1 /\ Lines(to) >= 1 /\ to > from THEN {<<day, Lines(to) + 1>>} ELSE {}
Guesses(day, from, to) == {{}, Torn(day, from, to)}

NextDay(next) == IF reader.day < Days THEN [next EXCEPT !.day = @ + 1]
                 ELSE [next EXCEPT !.pc = IF @ = "warm" THEN "size" ELSE "save"]

StartReadingAfresh ==
  /\ reader.pc = "idle"
  /\ reader' = [NoReader EXCEPT !.pc = IF saved.ready THEN "stat" ELSE "warm", !.day = 1]
  /\ UNCHANGED <<saved, taken, edges>>

StartReading ==
  /\ reader.pc = "idle"
  /\ reader' = [NoReader EXCEPT !.pc = IF saved.ready THEN "stat" ELSE "warm", !.day = 1,
                                !.cursors = saved.cursors]
  /\ UNCHANGED <<saved, taken, edges>>

\* _quotes: the first run reads every file from its start.
WarmRead ==
  /\ reader.pc = "warm"
  /\ LET h == file[reader.day]
     IN  \E guess \in Guesses(reader.day, 0, h) :
           reader' = NextDay([reader EXCEPT !.batch = @ \cup LinesOf(reader.day, 0, h) \cup guess])
  /\ UNCHANGED <<saved, taken, edges>>

\* _source_cursors: the sizes are taken when everything has been read.
WarmSize ==
  /\ reader.pc = "size"
  /\ reader' = [reader EXCEPT !.pc = "save", !.cursors = file,
       !.gap = (UNION {LinesOf(d, 0, file[d]) \cup Torn(d, 0, file[d]) : d \in Day})
                 \ reader.batch]
  /\ UNCHANGED <<saved, taken, edges>>

\* _incremental_quotes: a file that is as long as its cursor is passed over.
TakeSize ==
  /\ reader.pc = "stat"
  /\ IF file[reader.day] = reader.cursors[reader.day]
     THEN reader' = NextDay(reader)
     ELSE reader' = [reader EXCEPT !.pc = "read", !.size = file[reader.day]]
  /\ UNCHANGED <<saved, taken, edges>>

ReadToTheEnd ==
  /\ reader.pc = "read"
  /\ LET d == reader.day
         h == file[d]
         offset == IF reader.size < reader.cursors[d] THEN 0 ELSE reader.cursors[d]
     IN  \E guess \in Guesses(d, offset, h) :
           reader' = NextDay([reader EXCEPT !.pc = "stat",
             !.batch = @ \cup LinesOf(d, offset, h) \cup guess,
             !.cursors[d] = reader.size,
             !.gap = @ \cup Torn(d, offset, reader.size),
             !.ahead = @ \cup ((LinesOf(d, offset, h) \cup Torn(d, offset, h))
                                 \ LinesOf(d, offset, reader.size))])
  /\ UNCHANGED <<saved, taken, edges>>

SaveWithSizes ==  \* the sizes of the files when the state is saved
  /\ reader.pc = "save"
  /\ IF ~saved.ready /\ reader.batch = {}
     THEN UNCHANGED <<saved, taken, edges>>
     ELSE /\ saved' = [ready |-> TRUE, cursors |-> file]
          /\ taken' = taken \cup reader.batch
          /\ edges' = [lost |-> edges.lost \cup reader.gap, ahead |-> reader.ahead]
  /\ reader' = NoReader

\* The state is saved unless a first run has found nothing.
Save ==
  /\ reader.pc = "save"
  /\ IF ~saved.ready /\ reader.batch = {}
     THEN UNCHANGED <<saved, taken, edges>>
     ELSE /\ saved' = [ready |-> TRUE, cursors |-> reader.cursors]
          /\ taken' = taken \cup reader.batch
          /\ edges' = [lost |-> edges.lost \cup reader.gap, ahead |-> reader.ahead]
  /\ reader' = NoReader

ReaderDies ==
  /\ reader.pc # "idle" /\ reader' = NoReader
  /\ UNCHANGED <<saved, taken, edges>>

ReaderInit ==
  /\ saved = [ready |-> FALSE, cursors |-> NoCursors]
  /\ reader = NoReader /\ taken = {} /\ edges = [lost |-> {}, ahead |-> {}]

ReaderStep == \/ StartReading \/ WarmRead \/ WarmSize \/ TakeSize \/ ReadToTheEnd
              \/ Save \/ ReaderDies
ReaderNext == \/ ReaderStep /\ UNCHANGED vars
              \/ (Record \/ Midnight \/ OpenDailyFile) /\ UNCHANGED engineVars
ReaderSpec == Init /\ ReaderInit /\ [][ReaderNext]_readingVars

\* A whole line that a saved cursor has passed was seen as a quote, unless it
\* stood at an edge: it came between the reads and the sizes of the first run,
\* or a cursor was saved in the middle of it (demo_shadow_engine.py:57, :259-276).
NothingUnseen ==
  \A d \in Day : \A line \in LinesOf(d, 0, saved.cursors[d]) : line \in taken \cup edges.lost

\* A saved run sees a line again only if the run saved before it had read it
\* beyond the size it saved: no other line enters the bars twice.
RereadOnlyAhead ==
  [][saved' # saved \/ taken' # taken => reader.batch \cap taken \subseteq edges.ahead]_readingVars
----------------------------------------------------------------------------
(* What makes them inductive.                                              *)

AnyLine == Day \X Nat
\* Every variable of the reader keeps its type.
ReaderTypeOK ==
  /\ file \in [Day -> 0 .. MaxHalves] /\ today \in Day /\ openDay \in Day
  /\ saved \in [ready : BOOLEAN, cursors : [Day -> Nat]]
  /\ reader \in [pc : {"idle", "warm", "size", "stat", "read", "save"}, day : 0 .. Days,
                 size : Nat, cursors : [Day -> Nat], batch : SUBSET AnyLine,
                 gap : SUBSET AnyLine, ahead : SUBSET AnyLine]
  /\ taken \subseteq AnyLine
  /\ edges \in [lost : SUBSET AnyLine, ahead : SUBSET AnyLine]

\* The lines that a cursor has passed, the one it stands in too.
Behind(d, cursor) == LinesOf(d, 0, cursor) \cup Torn(d, 0, cursor)
StartsBefore(line, sizes) == 2 * line[2] - 2 < sizes[line[1]]

\* The days that the run under way has done with.
Done == CASE reader.pc = "save" -> Day
          [] reader.pc \in {"stat", "read"} -> 1 .. (reader.day - 1)
          [] OTHER -> {}

\* Between two runs: what is behind a saved cursor was seen or lost, what was
\* seen is behind it or was read ahead.
SavedInvariant ==
  /\ ~saved.ready => taken = {}
  /\ \A d \in Day : /\ saved.cursors[d] <= file[d]
                    /\ Behind(d, saved.cursors[d]) \subseteq taken \cup edges.lost
  /\ \A line \in taken : /\ StartsBefore(line, file)
                         /\ StartsBefore(line, saved.cursors) \/ line \in edges.ahead

\* Within a run the same holds of the days it has done with; it has read the
\* other days' lines not yet, and nothing before the saved cursors.
ReaderInvariant ==
  /\ reader.pc \in {"warm", "stat", "read"} => reader.day \in Day
  /\ reader.pc \in {"warm", "size"} => ~saved.ready
  /\ reader.pc \in {"stat", "read"} =>
       /\ saved.ready
       /\ \A d \in Day : d >= reader.day => reader.cursors[d] = saved.cursors[d]
       /\ \A line \in reader.batch : line[1] < reader.day
  /\ reader.pc = "read" => /\ reader.size <= file[reader.day]
                           /\ reader.size > reader.cursors[reader.day]
                           /\ \A line \in taken : line[1] = reader.day
                                                    => 2 * line[2] - 2 < reader.size
  /\ reader.pc # "idle" => \A d \in Day : reader.cursors[d] <= file[d]
  /\ \A line \in reader.batch :
       /\ StartsBefore(line, file)
       /\ saved.ready => 2 * line[2] - 2 >= saved.cursors[line[1]]
  /\ \A d \in Done :
       Behind(d, reader.cursors[d]) \subseteq taken \cup edges.lost \cup reader.batch \cup reader.gap
  /\ \A line \in taken \cup reader.batch :
       line[1] \in Done => StartsBefore(line, reader.cursors) \/ line \in reader.ahead
=============================================================================

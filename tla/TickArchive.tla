----------------------------- MODULE TickArchive -----------------------------
(***************************************************************************)
(* The recorder's daily tick files and what becomes of them: the collector *)
(* that copies new rows into chunks, the readers of the archive (Parquet   *)
(* data set, quality report), and the pruning of the cumulative snapshots  *)
(* that earlier collectors left behind.                                    *)
(*                                                                         *)
(* A file is measured in half lines: line n is the halves 2n-1 and 2n, and *)
(* an odd length ends in a line that is only half visible.  Line 1 is the  *)
(* header.  A chunk or a snapshot is the range of lines it holds.          *)
(***************************************************************************)
EXTENDS Integers, FiniteSets, FiniteSetsExt

CONSTANTS Days,        \* days 1 .. Days are recorded
          MaxHalves,   \* bound: the half lines of one day
          MaxDeaths,   \* bound: deaths of the collector and of prune
          Clock,       \* weekday and hour of the calls on each day
          Heartbeats,  \* lines that are heartbeats and not ticks
          Snapshots,   \* the old cumulative snapshots that may be there
          Checkpoint, Review  \* observed time asked for by the report

ASSUME ArchiveAssumption ==
  /\ Days \in Nat \ {0} /\ MaxHalves \in Nat /\ MaxDeaths \in Nat
  /\ Heartbeats \subseteq Nat \ {0, 1}
  /\ Snapshots \subseteq Nat /\ \E longest \in Snapshots \cup {0} : Snapshots \subseteq 0 .. longest
  /\ Checkpoint \in Nat /\ Review \in Nat

VARIABLES file,        \* halves of each day's file visible to readers
          today, openDay,  \* the UTC day, and the day whose file is open
          archive,     \* chunks that have a readable manifest
          unreadable,  \* a manifest was cut off
          second,      \* part of a chunk's name; moves on before a restart
          litter,      \* chunks cut off in the present second
          state,       \* collector.state.json: offset and last chunk per day
          health,      \* health.latest.json
          collect,     \* the call of collect_once under way
          legacy,      \* the old snapshots, each with its manifest
          prune,       \* the cleanup under way
          deaths

feedVars == <<file, today, openDay>>
archiveVars == <<archive, unreadable, second, litter, state, health, collect>>
pruneVars == <<legacy, prune>>
vars == <<feedVars, archiveVars, pruneVars, deaths>>

Day == 1 .. Days
Lines(halves) == halves \div 2
NoChunk == [day |-> 0, second |-> 0, from |-> 0, to |-> 0, whole |-> FALSE]
Ticks(from, to) == {l \in (from + 1) .. to : l > 1 /\ l \notin Heartbeats}

----------------------------------------------------------------------------
(* The recorder.                                                           *)

\* MT4 shows what it has buffered at a flush, or when the buffer is full.
Record ==
  /\ openDay = today
  /\ \E n \in {1, 2} : /\ file[today] + n <= MaxHalves
                       /\ file' = [file EXCEPT ![today] = @ + n]
  /\ UNCHANGED <<today, openDay, archiveVars, pruneVars, deaths>>

Midnight ==
  /\ today < Days /\ openDay = today
  /\ today' = today + 1
  /\ UNCHANGED <<file, openDay, archiveVars, pruneVars, deaths>>

\* The first record of the new day flushes and closes the file of the old one.
OpenDailyFile ==
  /\ openDay < today
  /\ \E last \in file[openDay] .. MaxHalves :
       /\ last % 2 = 0
       /\ file' = [file EXCEPT ![openDay] = last]
  /\ openDay' = today
  /\ UNCHANGED <<today, archiveVars, pruneVars, deaths>>

----------------------------------------------------------------------------
(* collect_once, one action per access to the file system.                 *)

Goto(pc) == collect' = [collect EXCEPT !.pc = pc]

\* The weekly closure, Friday 22:00 to Sunday 22:00; Monday is day 0.
GoldMarketOpen(weekday, hour) ==
  CASE weekday = 5 -> FALSE
    [] weekday = 6 -> hour >= 22
    [] OTHER -> ~(weekday = 4 /\ hour >= 22)

Missing ==
  /\ collect.pc = "idle" /\ file[today] = 0
  /\ health' = [status |-> "missing", snapshot |-> NoChunk]
  /\ UNCHANGED <<feedVars, archive, unreadable, second, litter, state, collect,
                 pruneVars, deaths>>

NextChunkToTheEnd(day, halves) ==  \* with the half line at the end
  LET offset == state[day].offset
  IN  [day |-> day, second |-> second, to |-> Lines(halves + 1), whole |-> TRUE,
       from |-> IF 2 * offset > halves THEN 0 ELSE offset]

\* The whole lines behind the offset of the state are the next chunk.
NextChunk(day, halves) ==
  LET offset == state[day].offset
  IN  [day |-> day, second |-> second, to |-> Lines(halves), whole |-> TRUE,
       from |-> IF 2 * offset > halves THEN 0 ELSE offset]

Read ==
  /\ collect.pc = "idle" /\ file[today] > 0
  /\ LET chunk == NextChunk(today, file[today])
     IN  collect' = [pc |-> IF chunk.to > chunk.from THEN "chunk" ELSE "inspect",
                     chunk |-> chunk]
  /\ UNCHANGED <<feedVars, archive, unreadable, second, litter, state, health,
                 pruneVars, deaths>>

\* A file of that name is taken for the chunk, whatever it holds.
WriteChunk ==
  /\ collect.pc = "chunk"
  /\ collect' = [pc |-> "manifest",
                 chunk |-> [collect.chunk EXCEPT !.whole = collect.chunk \notin litter]]
  /\ UNCHANGED <<feedVars, archive, unreadable, second, litter, state, health,
                 pruneVars, deaths>>

WriteManifest ==
  /\ collect.pc = "manifest"
  /\ archive' = archive \cup {collect.chunk}
  /\ Goto("state")
  /\ UNCHANGED <<feedVars, unreadable, second, litter, state, health,
                 pruneVars, deaths>>

SaveStateAtTheEnd ==  \* the length of the file as it is by now
  /\ collect.pc = "state"
  /\ state' = [state EXCEPT ![collect.chunk.day] =
                 [offset |-> Lines(file[collect.chunk.day]), last |-> collect.chunk]]
  /\ Goto("inspect")
  /\ UNCHANGED <<feedVars, archive, unreadable, second, litter, health,
                 pruneVars, deaths>>

SaveState ==
  /\ collect.pc = "state"
  /\ state' = [state EXCEPT ![collect.chunk.day] =
                 [offset |-> collect.chunk.to, last |-> collect.chunk]]
  /\ Goto("inspect")
  /\ UNCHANGED <<feedVars, archive, unreadable, second, litter, health,
                 pruneVars, deaths>>

Status(fresh, weekday, hour) ==
  CASE ~fresh -> "stale"
    [] GoldMarketOpen(weekday, hour) -> "healthy"
    [] OTHER -> "market_closed_heartbeat_healthy"

Inspect ==
  /\ collect.pc = "inspect"
  /\ \E fresh \in BOOLEAN :
       health' = [status |-> Status(fresh, Clock[today][1], Clock[today][2]),
                  snapshot |-> state[collect.chunk.day].last]
  /\ Goto("idle")
  /\ UNCHANGED <<feedVars, archive, unreadable, second, litter, state,
                 pruneVars, deaths>>

\* A half line can end in half a time, which _inspect cannot parse.
InspectRaises ==
  /\ collect.pc = "inspect" /\ file[collect.chunk.day] % 2 = 1
  /\ deaths < MaxDeaths /\ deaths' = deaths + 1
  /\ Goto("down")
  /\ UNCHANGED <<feedVars, archive, unreadable, second, litter, state, health,
                 pruneVars>>

\* What was being written when the process died is cut off.
Die ==
  /\ collect.pc \notin {"idle", "down"}
  /\ deaths < MaxDeaths /\ deaths' = deaths + 1
  /\ \/ collect.pc = "chunk" /\ litter' = litter \cup {collect.chunk}
        /\ UNCHANGED unreadable
     \/ collect.pc = "manifest" /\ unreadable' = TRUE /\ UNCHANGED litter
     \/ UNCHANGED <<litter, unreadable>>
  /\ Goto("down")
  /\ UNCHANGED <<feedVars, archive, second, state, health, pruneVars>>

RestartAtOnce ==  \* within the second that is part of the chunk's name
  /\ collect.pc = "down"
  /\ Goto("idle")
  /\ UNCHANGED <<feedVars, archive, unreadable, second, litter, state, health,
                 pruneVars, deaths>>

\* The scheduler starts the task again after a minute: no name recurs.
Restart ==
  /\ collect.pc = "down"
  /\ Goto("idle") /\ litter' = {} /\ second' = second + 1
  /\ UNCHANGED <<feedVars, archive, unreadable, state, health,
                 pruneVars, deaths>>

----------------------------------------------------------------------------
(* The cumulative snapshots of earlier collectors, all of one old source.  *)

Named == {n \in DOMAIN legacy : legacy[n].manifest}
Sound(n) == legacy[n].manifest /\ legacy[n].snapshot = "whole"
TickCount(n) == Cardinality(Ticks(0, n))

PruneScanKeepingFirst ==
  /\ prune = {}
  /\ ~unreadable /\ \A n \in Named : Sound(n)
  /\ Named # {}
  /\ prune' = Named \ {CHOOSE n \in Named : \A k \in Named : TickCount(k) <= TickCount(n)}
  /\ UNCHANGED <<feedVars, archiveVars, legacy, deaths>>

\* prune-legacy --apply refuses if any entry is invalid; chunks are passed over.
PruneScan ==
  /\ prune = {}
  /\ ~unreadable /\ \A n \in Named : Sound(n)
  /\ Named # {}
  /\ prune' = Named \ {Max(Named)}
  /\ UNCHANGED <<feedVars, archiveVars, legacy, deaths>>

PruneSnapshot ==
  /\ prune # {} /\ legacy[Min(prune)].snapshot = "whole"
  /\ legacy' = [legacy EXCEPT ![Min(prune)].snapshot = "gone"]
  /\ UNCHANGED <<feedVars, archiveVars, prune, deaths>>

PruneManifest ==
  /\ prune # {} /\ legacy[Min(prune)].snapshot = "gone"
  /\ legacy' = [legacy EXCEPT ![Min(prune)].manifest = FALSE]
  /\ prune' = prune \ {Min(prune)}
  /\ UNCHANGED <<feedVars, archiveVars, deaths>>

PruneDies ==
  /\ prune # {} /\ prune' = {}
  /\ deaths < MaxDeaths /\ deaths' = deaths + 1
  /\ UNCHANGED <<feedVars, archiveVars, legacy>>

----------------------------------------------------------------------------
(* What the readers of the archive return, as functions of it.             *)

\* The snapshot with most ticks; among equals the first in directory order.
Selections ==
  IF Named = {} THEN {{}}
  ELSE {{n} : n \in {k \in Named : \A j \in Named : TickCount(j) <= TickCount(k)}}

Invalid(selected) ==
  unreadable \/ (\E c \in archive : ~c.whole) \/ (\E n \in selected : ~Sound(n))

\* Rows are told apart by session, sequence and time; day 0 is the old source.
\* build_parquet_dataset: nothing if an entry is invalid, each row once.
Dataset(selected) ==
  (UNION {{<<c.day, l>> : l \in Ticks(c.from, c.to)} : c \in {d \in archive : d.whole}})
    \cup (UNION {{<<0, l>> : l \in Ticks(0, n)} : n \in {k \in selected : Sound(k)}})

\* The quality report counts a row again for every other file that holds it.
RowsRead(selected) ==
  (UNION {{<<c.day, l, c>> : l \in Ticks(c.from, c.to)} : c \in {d \in archive : d.whole}})
    \cup (UNION {{<<0, l, n>> : l \in Ticks(0, n)} : n \in {k \in selected : Sound(k)}})
TickTotal(selected) == Cardinality(RowsRead(selected))

\* The span of the ticks of a day, in lines.
Observed(rows, day) ==
  LET ls == {r[2] : r \in {q \in rows : q[1] = day}}
  IN  IF ls = {} THEN 0 ELSE Max(ls) - Min(ls)

ObservedHours(rows) == MapThenSumSet(LAMBDA d : Observed(rows, d), 0 .. Days)

ReportStatus(rows, errors) ==
  LET ready == ObservedHours(rows) >= Review /\ Cardinality({r[1] : r \in rows}) >= 2
  IN  CASE errors -> "quality_errors"
        [] ~errors /\ ready -> "ready_for_48h_review"
        [] ~errors /\ ~ready /\ ObservedHours(rows) >= Checkpoint -> "ready_for_24h_checkpoint"
        [] OTHER -> "collecting_under_24h"

\* The validator reports a row as an error if it has seen one like it.
NoDuplicates(selected) == 0
FirstSeen(rows, r) == CHOOSE q \in rows : q[1] = r[1] /\ q[2] = r[2]
Duplicates(selected) ==
  Cardinality({r \in RowsRead(selected) : r # FirstSeen(RowsRead(selected), r)})

Report(selected) ==
  [ticks |-> TickTotal(selected),
   status |-> ReportStatus(Dataset(selected),
                           Invalid(selected) \/ Duplicates(selected) > 0)]

----------------------------------------------------------------------------
Init ==
  /\ archive = {} /\ unreadable = FALSE /\ second = 0 /\ litter = {}
  /\ state = [d \in Day |-> [offset |-> 0, last |-> NoChunk]]
  /\ health = [status |-> "missing", snapshot |-> NoChunk]
  /\ collect = [pc |-> "idle", chunk |-> NoChunk]
  /\ \/ openDay = 1 /\ file = [d \in Day |-> 0] /\ legacy = <<>>
     \/ \* the last day, with old snapshots left
        /\ openDay = Days /\ file = [d \in Day |-> IF d = Days THEN MaxHalves ELSE 0]
        /\ \E kept \in SUBSET Snapshots :
             legacy \in [kept -> [snapshot : {"whole", "cut"}, manifest : {TRUE}]]
  /\ prune = {} /\ deaths = 0 /\ today = openDay

Collect == \/ Missing \/ Read \/ WriteChunk \/ WriteManifest \/ SaveState
           \/ Inspect \/ Restart
Cleanup == PruneScan \/ PruneSnapshot \/ PruneManifest
Next == \/ Record \/ Midnight \/ OpenDailyFile
        \/ Collect \/ InspectRaises \/ Die
        \/ Cleanup \/ PruneDies

Spec == Init /\ [][Next]_vars

----------------------------------------------------------------------------
(* Properties.                                                             *)

Chunk == [day : Day \cup {0}, second : 0 .. MaxDeaths, from : 0 .. MaxHalves,
          to : 0 .. MaxHalves, whole : BOOLEAN]

\* Every variable keeps its type.
TypeOK ==
  /\ file \in [Day -> 0 .. MaxHalves] /\ today \in Day /\ openDay \in Day
  /\ archive \subseteq Chunk /\ unreadable \in BOOLEAN /\ litter \subseteq Chunk
  /\ state \in [Day -> [offset : 0 .. MaxHalves, last : Chunk]]
  /\ health \in [status : {"missing", "stale", "healthy", "market_closed_heartbeat_healthy"},
                 snapshot : Chunk]
  /\ collect \in [pc : {"idle", "chunk", "manifest", "state", "inspect", "down"},
                  chunk : Chunk]
  /\ DOMAIN legacy \subseteq Snapshots
  /\ \A n \in DOMAIN legacy :
       legacy[n] \in [snapshot : {"whole", "cut", "gone"}, manifest : BOOLEAN]
  /\ prune \subseteq DOMAIN legacy /\ deaths \in 0 .. MaxDeaths

\* What the saved offset has passed is in whole chunks with their manifests,
\* and so is the snapshot that the health file names, wherever calls died
\* between chunk, manifest and state (collector.py:72-88).
ArchiveComplete ==
  /\ \A d \in Day : \A l \in 1 .. state[d].offset :
       \E c \in archive : c.day = d /\ c.whole /\ c.from < l /\ l <= c.to
  /\ health.snapshot \in archive \cup {NoChunk}

\* A data set that is built is, for each day, the ticks recorded up to some
\* line: no hole, nothing from a line that was only half there
\* (dataset.py:53-74 on what collector.py:65-68 cut).
DatasetExact ==
  \A selected \in Selections : ~Invalid(selected) =>
    \A d \in Day : \E l \in 0 .. Lines(file[d]) :
      {r \in Dataset(selected) : r[1] = d} = {<<d, k>> : k \in Ticks(0, l)}

\* A report that calls the archive ready counts each recorded tick at most
\* once: a chunk that is archived again after a death between manifest and
\* state must show up as an error (tick_report.py:31-44, data/quality.py:35).
ReadyCountsOnce ==
  \A selected \in Selections :
    Report(selected).status \in {"ready_for_24h_checkpoint", "ready_for_48h_review"}
      => Report(selected).ticks = Cardinality(Dataset(selected))

\* Ticks and heartbeats once readable in the archive stay readable: no run of
\* the collector and no cleanup, cut short or not, takes the last copy away
\* (prune.py:55-72; docs/phase1-quality.md:67-69).
ArchivedLines ==
  (UNION {{<<c.day, l>> : l \in (c.from + 1) .. c.to} : c \in {d \in archive : d.whole}})
    \cup (UNION {{<<0, l>> : l \in 1 .. n} : n \in {k \in DOMAIN legacy : Sound(k)}})
ArchivedStays == [][ArchivedLines \subseteq ArchivedLines']_vars
----------------------------------------------------------------------------
(* What makes them inductive.                                              *)

Covered(d, n) ==
  \A l \in 1 .. n : \E c \in archive : c.day = d /\ c.whole /\ c.from < l /\ l <= c.to

\* No name recurs: a restart moves on, and takes with it what was cut off.
\* Every chunk starts where the archive ends or before, and ends in the file.
CollectInvariant ==
  /\ second \in Nat /\ second <= deaths /\ (collect.pc = "down" => second < deaths)
  /\ collect.pc # "down" => litter = {}
  /\ collect.pc \notin {"idle", "down"} => collect.chunk.day \in Day
  /\ collect.pc \in {"chunk", "manifest", "state"} =>
       /\ collect.chunk.whole
       /\ collect.chunk.from <= state[collect.chunk.day].offset
       /\ collect.chunk.to <= Lines(file[collect.chunk.day])
  /\ collect.pc = "state" => collect.chunk \in archive
  /\ \A c \in archive : /\ c.day \in Day /\ c.whole
                        /\ c.to <= Lines(file[c.day]) /\ Covered(c.day, c.from)
  /\ \A d \in Day : state[d].last \in archive \cup {NoChunk}
ArchiveInvariant == CollectInvariant /\ ArchiveComplete

\* What a cleanup takes away is in a longer snapshot that it keeps.
PruneInvariant ==
  prune # {} => \E kept \in DOMAIN legacy \ prune : Sound(kept) /\ \A n \in prune : n <= kept
==================================================

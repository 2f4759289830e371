-------------------------- MODULE DatasetPublication --------------------------
(***************************************************************************)
(* How a data set gets its place under the id of its content.  The CSV     *)
(* normalizer and the trade histories build it in place, the manifest      *)
(* last; the JForex batches are archived and then built in a directory     *)
(* "<id>.partial" that is renamed.  Several calls for the same source may  *)
(* run at once, fail at any access to the disk, or die.                    *)
(***************************************************************************)
EXTENDS SourceFeeds

CONSTANTS Callers, MaxCalls, MaxDeaths,
          Zone   \* the declared offset of times that carry none

ASSUME ZoneAssumption == Zone \in Int

VARIABLES kind,     \* "ticks", "merge", "trades" or "jforex"
          source,   \* the content of the source files
          final,    \* the directory of the data set
          staging,  \* "<id>.partial"
          archive,  \* copies of the JForex batches
          call,     \* the call of each caller
          calls, deaths,
          blocked   \* history: an unfinished directory was left behind

vars == <<kind, source, final, staging, archive, call, calls, deaths, blocked>>

NoManifest == [state |-> "none", by |-> 0, stats |-> <<>>]
Nowhere == [there |-> FALSE, files |-> NoFiles, manifest |-> NoManifest]
NoCall == [pc |-> "idle", id |-> 0, row |-> 0, stats |-> NoStats, result |-> NoManifest,
           error |-> "", overlapped |-> FALSE]

Staged == kind = "jforex"
Target == IF Staged THEN staging ELSE final
SetTarget(dir) == IF Staged THEN staging' = dir /\ UNCHANGED final
                  ELSE final' = dir /\ UNCHANGED staging

\* The batches of the export folder that lie in the range asked for.
Batches == InRange(source.folder, source.from, source.to)

\* The rows to be written, and whether the source is accepted.
Rows ==
  CASE kind = "ticks" -> Ticks(source, Zone)
    [] kind = "merge" -> IF CanMerge(source.asks, source.bids) THEN Merged(source.asks, source.bids)
                         ELSE <<>>
    [] kind = "jforex" -> [i \in DOMAIN BatchRows(Batches) |-> BatchRows(Batches)[i].tick]
    [] OTHER -> History(source)
SourceOk ==
  CASE kind \in {"ticks", "merge"} -> Acceptable(Rows)
    [] kind = "jforex" -> BatchesOk(source.folder) /\ Batches # {}
    [] OTHER -> HistoryOk(source)

Goto(c, pc) == call' = [call EXCEPT ![c].pc = pc]
End(c, error) == call' = [call EXCEPT ![c].pc = "idle", ![c].error = error]

----------------------------------------------------------------------------
Begin(c) ==
  /\ call[c].pc = "idle" /\ calls < MaxCalls /\ calls' = calls + 1
  /\ LET others == {o \in Callers \ {c} : call[o].pc # "idle"}
     IN  call' = [o \in Callers |->
           IF o = c THEN [NoCall EXCEPT !.pc = IF Staged THEN "validate" ELSE "look",
                                        !.id = calls + 1, !.overlapped = others # {}]
           ELSE [call[o] EXCEPT !.overlapped = @ \/ o \in others]]
  /\ UNCHANGED <<kind, source, final, staging, archive, deaths, blocked>>

\* A finished data set is not built again.
Look(c) ==
  /\ call[c].pc = "look"
  /\ CASE final.manifest.state = "none" -> Goto(c, IF Staged THEN "make" ELSE "validate")
       [] final.manifest.state = "whole" ->
            call' = [call EXCEPT ![c].pc = "idle", ![c].result = final.manifest]
       [] OTHER -> End(c, "unreadable")
  /\ UNCHANGED <<kind, source, final, staging, archive, calls, deaths, blocked>>

Validate(c) ==
  /\ call[c].pc = "validate"
  /\ IF SourceOk THEN Goto(c, IF Staged THEN "archive" ELSE "make") ELSE End(c, "refused")
  /\ UNCHANGED <<kind, source, final, staging, archive, calls, deaths, blocked>>

\* The batches are copied in order, each beside its place and then renamed, here
\* in one step; another content there is a conflict.  A call that copied the same
\* batch at the same time may have renamed the temporary file first.  (What two
\* copies over each other and a death leave of a batch is not modelled.)
Archive(c) ==
  /\ call[c].pc = "archive"
  /\ LET left == {b \in Batches : archive[b] # "copy"}
         IsNext(b) == b \in left /\ \A p \in left : b.from <= p.from
     IN  \/ left = {} /\ Goto(c, "look") /\ UNCHANGED archive
         \/ \E b \in Batches : /\ IsNext(b) /\ archive[b] = "other"
                               /\ End(c, "conflict") /\ UNCHANGED archive
         \/ \E b \in Batches : /\ IsNext(b) /\ archive[b] = "none"
                               /\ archive' = [archive EXCEPT ![b] = "copy"] /\ UNCHANGED call
         \/ call[c].overlapped /\ Batches # {} /\ End(c, "raced") /\ UNCHANGED archive
  /\ UNCHANGED <<kind, source, final, staging, calls, deaths, blocked>>

MakeRootAgain(c) ==
  /\ call[c].pc = "make"
  /\ SetTarget(IF Target.there THEN Target ELSE [Nowhere EXCEPT !.there = TRUE])
  /\ call' = [call EXCEPT ![c].pc = "write", ![c].row = 0, ![c].stats = NoStats]
  /\ UNCHANGED <<kind, source, archive, calls, deaths, blocked>>

\* The directory must not be there yet.
MakeRoot(c) ==
  /\ call[c].pc = "make"
  /\ IF Target.there
     THEN End(c, "exists") /\ UNCHANGED <<final, staging>>
     ELSE /\ SetTarget([Nowhere EXCEPT !.there = TRUE])
          /\ call' = [call EXCEPT ![c].pc = "write", ![c].row = 0, ![c].stats = NoStats]
  /\ UNCHANGED <<kind, source, archive, calls, deaths, blocked>>

\* One row; the JForex batches are validated while they are written.
WriteRow(c) ==
  /\ call[c].pc = "write" /\ kind # "trades" /\ call[c].row < Len(Rows)
  /\ LET i == call[c].row + 1
     IN  IF Staged /\ ~RowOk(BatchRows(Batches)[i], call[c].stats.last)
         THEN End(c, "refused") /\ staging' = Nowhere /\ UNCHANGED final
         ELSE /\ SetTarget([Target EXCEPT !.files = Put(@, Rows[i])])
              /\ call' = [call EXCEPT ![c].row = i, ![c].stats = Count(@, Rows[i])]
  /\ UNCHANGED <<kind, source, archive, calls, deaths, blocked>>

CloseFiles(c) ==
  /\ call[c].pc = "write" /\ kind # "trades" /\ call[c].row = Len(Rows)
  /\ SetTarget([Target EXCEPT !.files = Close(@)])
  /\ Goto(c, "manifest")
  /\ UNCHANGED <<kind, source, archive, calls, deaths, blocked>>

WriteTrades(c) ==
  /\ call[c].pc = "write" /\ kind = "trades"
  /\ SetTarget([Target EXCEPT !.files.parts = <<[day |-> 0, rows |-> History(source)]>>])
  /\ Goto(c, "manifest")
  /\ UNCHANGED <<kind, source, archive, calls, deaths, blocked>>

OpenManifest(c) ==
  /\ call[c].pc = "manifest"
  /\ SetTarget([Target EXCEPT !.manifest.state = "cut"])
  /\ Goto(c, "fill")
  /\ UNCHANGED <<kind, source, archive, calls, deaths, blocked>>

FillManifest(c) ==
  /\ call[c].pc = "fill"
  /\ LET manifest == [state |-> "whole", by |-> call[c].id,
                      stats |-> IF kind = "trades" THEN HistoryStats(source) ELSE call[c].stats]
     IN  /\ SetTarget([Target EXCEPT !.manifest = manifest])
         /\ call' = [call EXCEPT ![c].pc = IF Staged THEN "publish" ELSE "idle",
                                 ![c].result = IF Staged THEN @ ELSE manifest]
  /\ UNCHANGED <<kind, source, archive, calls, deaths, blocked>>

\* The rename fails if somebody else has published in the meantime.
Publish(c) ==
  /\ call[c].pc = "publish"
  /\ staging' = Nowhere
  /\ IF final.there THEN End(c, "exists") /\ UNCHANGED final
     ELSE /\ final' = staging
          /\ call' = [call EXCEPT ![c].pc = "idle", ![c].result = staging.manifest]
  /\ UNCHANGED <<kind, source, archive, calls, deaths, blocked>>

Building(c) == call[c].pc \in {"write", "manifest", "fill", "publish"}

RaiseLeavingStaging(c) ==
  /\ Building(c) /\ deaths < MaxDeaths /\ deaths' = deaths + 1
  /\ End(c, "raised") /\ blocked' = (blocked \/ ~Staged)
  /\ UNCHANGED <<kind, source, final, staging, archive, calls>>

\* An exception while building: the staging directory is taken away again.
Raise(c) ==
  /\ Building(c) /\ deaths < MaxDeaths /\ deaths' = deaths + 1
  /\ End(c, "raised")
  /\ staging' = IF Staged THEN Nowhere ELSE staging
  /\ blocked' = (blocked \/ ~Staged)
  /\ UNCHANGED <<kind, source, final, archive, calls>>

Die(c) ==
  /\ call[c].pc # "idle" /\ deaths < MaxDeaths /\ deaths' = deaths + 1
  /\ End(c, "died")
  /\ blocked' = (blocked \/ Building(c))
  /\ UNCHANGED <<kind, source, final, staging, archive, calls>>

Init ==
  /\ final = Nowhere /\ staging = Nowhere
  /\ call = [c \in Callers |-> NoCall] /\ calls = 0 /\ deaths = 0 /\ blocked = FALSE

Call(c) == \/ Begin(c) \/ Look(c) \/ Validate(c) \/ Archive(c) \/ MakeRoot(c)
           \/ WriteRow(c) \/ CloseFiles(c) \/ WriteTrades(c)
           \/ OpenManifest(c) \/ FillManifest(c) \/ Publish(c)
           \/ Raise(c) \/ Die(c)
Next == \E c \in Callers : Call(c)
Spec == Init /\ [][Next]_vars

----------------------------------------------------------------------------
(* Properties.                                                             *)

\* Whatever failed, died or ran at the same time: all calls that succeed return
\* the one manifest on the disk, a data set is never built twice
\* (docs/research-dataset.md:36, historical.py:98-104, jforex_batch.py:98-127).
OneManifest ==
  \A c \in Callers : call[c].result.state = "whole" => call[c].result = final.manifest

\* If the manifest can be read, the data set holds each row of its source once,
\* in the file of its day and in order, the manifest counts them, and a replay
\* runs through; of a trade history it holds one row for each ticket.  Two
\* merged exports give each row its bid and its ask, and the importer of the
\* backtests finds errors in an accepted file only where a time lacks an offset
\* or comes twice
\* (historical.py:98-134, jforex_batch.py:98-127, trade_history.py:114-147,
\* dukascopy.py:47-74, importer.py:43-92).
PublishedIsWhole ==
  LET parts == final.files.parts
  IN  final.manifest.state = "whole" =>
        IF kind = "trades"
        THEN /\ Len(parts) = 1 /\ Range(parts[1].rows) \subseteq Range(source)
             /\ {t.ticket : t \in Range(source)} = {t.ticket : t \in Range(parts[1].rows)}
             /\ \A i, j \in DOMAIN parts[1].rows : i < j =>
                  /\ parts[1].rows[i].ticket # parts[1].rows[j].ticket
                  /\ parts[1].rows[i].opened <= parts[1].rows[j].opened
             /\ final.manifest.stats.rows = Len(parts[1].rows)
        ELSE /\ ByDay(parts, Rows, Len(Rows)) /\ final.manifest.stats = Stats(Rows, Len(Rows))
             /\ ~Replay(parts).raises
             /\ [i \in DOMAIN Rows |-> Rows[i].at] =
                  [i \in DOMAIN Replay(parts).events |-> Replay(parts).events[i].at]
             /\ kind = "merge" =>
                  \A i \in DOMAIN Rows : Rows[i] = [at |-> source.bids[i].at, ask |-> source.asks[i].price,
                                                   bid |-> source.bids[i].price]
             /\ kind = "ticks" =>
                  (IsUsable(source) <=> \A i \in DOMAIN source :
                      /\ source[i].own
                      /\ \A k \in DOMAIN source : k # i => source[k].at # source[i].at)

\* A call is refused for what it finds on the disk only if another call ran at
\* the same time, or one died or failed where nothing cleans up: a staged
\* directory never stays behind after an exception
\* (jforex_batch.py:99-101 and :128-130, historical.py:104).
RefusedOnlyAfterTrouble ==
  \A c \in Callers : call[c].error \in {"exists", "unreadable"} =>
    call[c].overlapped \/ blocked
----------------------------------------------------------------------------
(* What makes them inductive.                                              *)

\* Every variable keeps its shape, whatever the source holds.
ManifestOk(m) == /\ m = [state |-> m.state, by |-> m.by, stats |-> m.stats]
                 /\ m.state \in {"none", "cut", "whole"}
DirectoryOk(d) == /\ d = [there |-> d.there, files |-> d.files, manifest |-> d.manifest]
                  /\ d.there \in BOOLEAN /\ ManifestOk(d.manifest)
                  /\ ~d.there => d.manifest.state = "none"
CallOk(r) ==
  /\ r = [pc |-> r.pc, id |-> r.id, row |-> r.row, stats |-> r.stats, result |-> r.result,
          error |-> r.error, overlapped |-> r.overlapped]
  /\ r.pc \in {"idle", "look", "validate", "archive", "make", "write", "manifest", "fill", "publish"}
  /\ r.overlapped \in BOOLEAN
TypeOK ==
  /\ call = [c \in Callers |-> call[c]] /\ \A c \in Callers : CallOk(call[c])
  /\ DirectoryOk(final) /\ DirectoryOk(staging) /\ blocked \in BOOLEAN

\* One call at most builds, in a directory that is as far as the call is; a
\* directory that is neither finished nor being built was left behind.
Progress(c) == CASE call[c].pc \in {"write", "manifest"} -> "none"
                 [] call[c].pc = "fill" -> "cut"
                 [] OTHER -> "whole"
BuildInvariant ==
  /\ \A c \in Callers : Building(c) =>
       /\ Target.there /\ Target.manifest.state = Progress(c)
       /\ call[c].pc = "publish" => Staged
       /\ \A o \in Callers \ {c} : ~Building(o)
  /\ Staged /\ final.there => final.manifest.state = "whole"
  /\ Target.there /\ ~blocked => \/ \E c \in Callers : Building(c)
                                 \/ ~Staged /\ final.manifest.state = "whole"

\* A call that has found no finished data set and was alone all the time can
\* still rely on it.
Relies(c) == Building(c) \/ call[c].pc = "make" \/ (call[c].pc = "validate" /\ ~Staged)
AloneInvariant ==
  \A c \in Callers : call[c].pc # "idle" /\ ~call[c].overlapped =>
    /\ \A o \in Callers \ {c} : call[o].pc = "idle"
    /\ Relies(c) => final.manifest.state # "whole"
=============================================================================

---------------------------- MODULE MCTickFiles -----------------------------
(***************************************************************************)
(* Two days of tick files.  The scene says which reader follows them: the  *)
(* collector with the archive behind it, or the engine.  Neither writes    *)
(* what the other reads, so that they need not run together.               *)
(***************************************************************************)
EXTENDS QuoteReader
VARIABLE scene

MCClock == <<<<4, 22>>, <<6, 22>>>>
MCHeartbeats == {4}
MCSnapshots == {2, 3, 4}

mcVars == <<readingVars, scene>>
MCInit == Init /\ ReaderInit /\ scene \in {"archive", "engine"}
            /\ (scene = "engine" => legacy = <<>> /\ openDay = 1)
MCNext == /\ \/ scene = "archive" /\ Next /\ UNCHANGED engineVars
             \/ scene = "engine" /\ ReaderNext
          /\ UNCHANGED scene
MCArchiving == scene = "archive" /\ UNCHANGED <<engineVars, scene>>
MCSpec ==
  /\ MCInit /\ [][MCNext]_mcVars
  /\ WF_mcVars(Read /\ MCArchiving) /\ WF_mcVars(WriteChunk /\ MCArchiving)
  /\ WF_mcVars(WriteManifest /\ MCArchiving) /\ WF_mcVars(SaveState /\ MCArchiving)
  /\ WF_mcVars(Inspect /\ MCArchiving) /\ WF_mcVars(Restart /\ MCArchiving)

\* A line that is visible while its day lasts is archived, unless the day
\* ends first: the collector turns to the file of the new day
\* (collector/cli.py:25-30).
LinesArchived ==
  \A d \in Day : \A l \in 1 .. Lines(MaxHalves) :
    (scene = "archive" /\ today = d /\ Lines(file[d]) >= l)
      ~> (today > d \/ <<d, l>> \in ArchivedLines)
=============================================================================

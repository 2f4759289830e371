--------------------------- MODULE MCShadowEngine ---------------------------
(***************************************************************************)
(* The engine with a history variable: the last bar of the warm-up run,    *)
(* from which on bars are decided.                                         *)
(*                                                                         *)
(* After Observe a run looks at nothing the clock or the recorder can still *)
(* change (its rows end at run.upto, its time is run.seenAt), so their     *)
(* steps commute with the rest of the run and with its death.  The runs of *)
(* TLC let them move only where they matter: between runs, and between the *)
(* reading of the quotes and the reading of the clock.  A unit of time     *)
(* has at most one row.                                                    *)
(***************************************************************************)
EXTENDS ShadowEngine, Functions

VARIABLE warm  \* 0 when the warm-up saw no complete bar

MCInit == Init /\ warm = None

\* The warm-up is the run that saves the first state.
Remember == warm' = IF disk = None /\ disk' # None
                    THEN IF disk'.lastBar = None THEN 0 ELSE disk'.lastBar
                    ELSE warm

\* The whole engine, with the history variable.
WarmSpec == MCInit /\ [][Next /\ Remember]_<<vars, warm>>

\* What TLC explores of it.
MCNext ==
    /\ \/ pc \in {"idle", "read"} /\ (Tick \/ (Quote /\ IsInjective(feed')))
       \/ Step
       \/ Crash
    /\ Remember

MCSpec == MCInit /\ [][MCNext]_<<vars, warm>>

MCFairSpec == MCSpec /\ WF_<<vars, warm>>(Step /\ MCNext)

\* Between two runs the ledger holds exactly the signals of one pass over the
\* bars up to the last processed one; a run that died may have left some of
\* the next ones, never any other.  As long as none has died, each signal has
\* one row.
DecisionsReplay ==
    pc = "idle" /\ disk # None =>
        LET last == IF disk.lastBar = None THEN 0 ELSE disk.lastBar
        IN  /\ {d \in Decided : d <= last} = Replay(warm, last)
            /\ Decided \subseteq Replay(warm, now)
            /\ crashes = 0 => IsInjective([i \in DOMAIN signals |-> signals[i].sig])
=============================================================================

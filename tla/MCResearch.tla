------------------------------ MODULE MCResearch ------------------------------
(***************************************************************************)
(* Tapes for the labs: in the scene "quotes" any quotes may follow each    *)
(* other; in the scene "breakouts" each burst is a breakout with what      *)
(* comes of it, close to the last one or a fold later.  The scene "gold"   *)
(* has the decision bars themselves, for the gold strategies.              *)
(***************************************************************************)
EXTENDS ResearchLabs, GoldStrategies

VARIABLE scene

Quote(step, bid) == [step |-> step, bid |-> bid, spread |-> 1]
Quotes == {<<Quote(step, bid)>> : step \in {1, 2, 4, 9}, bid \in {1, 3}}
\* A base, a breakout in two quotes of a second, the signal, the entry, and the
\* quotes that may be reasons to leave, ways out, and a last one after a gap.
Steps == <<2, 1, 1, 4, 2, 2, 3, 2, 4, 8>>
Burst(lead, bids) ==
  <<Quote(lead, bids[1])>> \o [n \in DOMAIN Steps |-> Quote(Steps[n], bids[n + 1])]
Ways == {<<20, 22, 24, 27, 29, 31, 32, 33, 34, 35, 35>>,  \* goes on
         <<20, 22, 24, 27, 24, 19, 17, 16, 14, 12, 12>>,  \* fades
         <<20, 22, 24, 27, 28, 33, 28, 27, 26, 25, 25>>,  \* peaks
         <<20, 22, 23, 20, 24, 26, 27, 28, 29, 30, 30>>,  \* comes back to the level
         <<20, 22, 23, 17, 16, 15, 14, 12, 11, 10, 10>>,  \* fails
         <<20, 18, 16, 13, 11, 9, 8, 7, 6, 5, 5>>}        \* goes down
\* The ways of the later ones.
FewWays == {bids \in Ways : bids[11] \in {10, 12, 35}}
\* Twice out of the range of the morning, on one day.
Twice == [n \in 1 .. 9 |-> Quote(2, IF n \in {2, 4} THEN 24 ELSE 20)]
\* At once, in the next interval of a fold, or after the next.
Leads == IF tape = <<>> THEN {2} ELSE {6, 15, 59}
Breakouts == {Burst(lead, bids) : lead \in Leads, bids \in IF tape = <<>> THEN Ways ELSE FewWays}
             \cup (IF tape = <<>> THEN {Twice} ELSE {})

MCRangeWindows == {[from |-> 0, to |-> 1], [from |-> 1, to |-> 2]}
MCOpenWindows == {[weekday |-> 0, from |-> 0, to |-> 6], [weekday |-> 1, from |-> 4, to |-> 2]}
MCClosures == {[from |-> 3, to |-> 4]}
MCStages == <<2, 4>>

\* Three bars up, down, up by much, down into the last zone and out again, and
\* three after a gap.
Bar(step, move, wick) == [step |-> step, jump |-> 0, move |-> move, wick |-> wick, last |-> 1, gap |-> FALSE]
Legs == {<<Bar(1, 2, 0), Bar(1, 2, 0), Bar(1, 2, 0)>>,
         <<Bar(1, -2, 0), Bar(1, -2, 0), Bar(1, -2, 0)>>,
         <<Bar(1, 6, 0), Bar(1, 6, 0), Bar(1, 0, 0)>>,
         <<Bar(1, -4, 0), [Bar(1, 1, 2) EXCEPT !.last = 0], Bar(1, 2, 2)>>,
         <<[Bar(3, 2, 0) EXCEPT !.gap = TRUE], Bar(1, -2, 1), Bar(1, 2, 0)>>}

MCInit == Init /\ GoldInit /\ scene \in {"quotes", "breakouts", "gold"}
TapeNext == /\ scene # "gold"
            /\ \/ /\ scene = "quotes" /\ Len(tape) < 5
                  /\ \E burst \in Quotes : Arrive(burst) /\ Last(tape').at <= 16
               \/ scene = "breakouts" /\ \E burst \in Breakouts : Arrive(burst)
               \/ Close
            /\ UNCHANGED gold
GoldNext == scene = "gold" /\ (\E leg \in Legs : TakeBars(leg)) /\ UNCHANGED vars
MCNext == (TapeNext \/ GoldNext) /\ UNCHANGED scene
MCSpec == MCInit /\ [][MCNext]_<<vars, gold, scene>>
=============================================================================

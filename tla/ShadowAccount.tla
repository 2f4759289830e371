---------------------------- MODULE ShadowAccount ---------------------------
(***************************************************************************)
(* What a demo-shadow campaign promises, as the frozen specification of    *)
(* demo_shadow_protocol.py words it: one position at most, signals ignored *)
(* while it is open, a cooldown between the signals of the family, every   *)
(* signal decided once.  It has no files, no runs and no quotes: a signal  *)
(* is the time at which it became available.                               *)
(***************************************************************************)
EXTENDS Integers

CONSTANTS
    Signals,   \* the times at which a signal may become available
    Cooldown,  \* frozen_specification.family_cooldown_seconds
    None       \* no position

VARIABLES
    position,  \* the signal whose position is open, or None
    decided,   \* signals with a row in the signals ledger
    traded     \* signals that ever had a position

vars == <<position, decided, traded>>

Init == position = None /\ decided = {} /\ traded = {}

\* A signal may be acted on only after those before it, a cooldown apart.
Admissible(s) == \A d \in decided : s - d >= Cooldown /\ s > d

\* A position is opened; the decision is recorded next.
Open(s) ==
    /\ position = None
    /\ Admissible(s)
    /\ traded \subseteq decided
    /\ position' = s
    /\ traded' = traded \union {s}
    /\ UNCHANGED decided

\* A decision is recorded: that of the position just opened if there is one.
Decide(s) ==
    /\ Admissible(s)
    /\ traded \ decided \subseteq {s}
    /\ decided' = decided \union {s}
    /\ UNCHANGED <<position, traded>>

\* The position reached its exit.
Close ==
    /\ position # None
    /\ traded \subseteq decided
    /\ position' = None
    /\ UNCHANGED <<decided, traded>>

Next ==
    \/ Close
    \/ \E s \in Signals : Open(s) \/ Decide(s)

Spec == Init /\ [][Next]_vars
=============================================================================

---------------------------- MODULE ShadowEngine ----------------------------
(***************************************************************************)
(* The demo-shadow engine, run_demo_shadow in demo_shadow_engine.py.        *)
(*                                                                         *)
(* A run is one process: it loads engine-state.json, reads the rows that   *)
(* the MT4 recorder appended to the tick files since the stored cursors,   *)
(* closes the hypothetical position, decides every new completed bar, and  *)
(* only then replaces engine-state.json.  The ledgers (fills.jsonl and     *)
(* signals.jsonl) are appended to on the way, row by row, so a run that    *)
(* dies leaves rows behind that the next run knows nothing of.             *)
(*                                                                         *)
(* Time is counted in units; a five-minute bar is named by the time at     *)
(* which it becomes available, which is also all that distinguishes one    *)
(* signal_id from another (the side is a function of the bar).  Prices are *)
(* left out: whether a completed bar is an active candidate is the         *)
(* environment's choice, made once for each bar.                           *)
(***************************************************************************)
EXTENDS Integers, Sequences, FiniteSets, FiniteSetsExt

CONSTANTS
    BarLen,      \* length of a bar (five minutes)
    Holding,     \* frozen_specification.holding_seconds
    Cooldown,    \* frozen_specification.family_cooldown_seconds
    MaxDelay,    \* MAX_ENGINE_PROCESSING_DELAY_SECONDS
    MaxAge,      \* risk_limits.maximum_quote_age_seconds
    None,        \* Python's None
    MaxTime,     \* bound: the clock stops here
    MaxQuotes,   \* bound: rows the recorder writes
    MaxCrashes   \* bound: runs that die before their state is saved

ASSUME TimingAssumption ==
    /\ BarLen \in Nat \ {0}
    /\ Holding \in Nat \ {0}
    /\ Cooldown \in Nat
    /\ MaxDelay \in Nat
    /\ MaxAge \in Nat

ASSUME BoundsAssumption == MaxTime \in Nat /\ MaxQuotes \in Nat /\ MaxCrashes \in Nat

\* A hypothetical position, as engine-state.json keeps it.
Position == [sig : Nat, entryAt : Nat, due : Nat]

ASSUME NoneAssumption == None \notin Nat /\ None \notin Position

Dispositions == {"ignored_open_position", "rejected_late_engine_processing",
                 "entry_quote_timeout", "hypothetical_entry"}

VARIABLES
    now,      \* the clock of the host (recorder and engine share it)
    feed,     \* quote rows the tick files show, by received_utc
    active,   \* bars whose candidate is active once they are complete
    disk,     \* engine-state.json, None before the first run saved it
    fills,    \* fills.jsonl
    signals,  \* signals.jsonl
    pc,       \* where the current run stands, "idle" between runs
    run,      \* the local variables of the current run
    crashes   \* runs that died so far

env == <<now, feed, active>>
ledgers == <<fills, signals>>
vars == <<now, feed, active, disk, fills, signals, pc, run, crashes>>

-----------------------------------------------------------------------------
(* Bars                                                                    *)

\* The bar a quote of time t falls in, named by its available_at.
BarOf(t) == t - (t % BarLen) + BarLen

\* The bars present after the first n rows were merged into the cache.
BarsUpTo(n) == {BarOf(feed[i]) : i \in 1..n}

\* Those that are complete: available no later than the latest quote read.
Complete(n) == {b \in BarsUpTo(n) : b <= feed[n]}

\* The latest quote in a set of row indices, read in file order.
LatestOf(I) == feed[Max(I)]

\* The time of the last row the files show.
LatestRow == IF feed = <<>> THEN 0 ELSE feed[Len(feed)]

-----------------------------------------------------------------------------
(* The recorder and the clock                                              *)

Tick ==
    /\ now < MaxTime
    /\ now' = now + 1
    /\ UNCHANGED <<feed, active, disk, ledgers, pc, run, crashes>>

\* A tick row becomes visible in its file.  The recorder stamps it when the
\* tick arrives and flushes it some ticks later, so it may be old by now, but
\* never older than the row before it.  The first row of a bar settles whether
\* the bar will be active once it is complete.
Quote ==
    /\ Len(feed) < MaxQuotes
    /\ \E at \in LatestRow..now :
          /\ feed' = Append(feed, at)
          /\ \/ active' = active
             \/ /\ BarOf(at) \notin BarsUpTo(Len(feed))
                /\ active' = active \union {BarOf(at)}
    /\ UNCHANGED <<now, disk, ledgers, pc, run, crashes>>

-----------------------------------------------------------------------------
(* The locals of a run                                                     *)

State == [lastBar : Nat \union {None}, lastSignal : Nat \union {None},
          open : Position \union {None}, cursor : Nat]

ASSUME StateAssumption == None \notin State

Run == [st : State \union {None},          \* the state as loaded
        upto : Nat,                        \* rows of the feed read so far
        seenAt : Nat,                      \* now, taken after the quotes are read
        todo : SUBSET Nat,                 \* new candidates still to decide
        wasActive : BOOLEAN,               \* previous_active
        lastSignal : Nat \union {None},
        open : Position \union {None},
        freeAt : Nat \union {None}]        \* occupied_until

NoRun == [st |-> None, upto |-> 0, seenAt |-> 0, todo |-> {}, wasActive |-> FALSE,
          lastSignal |-> None, open |-> None, freeAt |-> None]

\* The rows this run read: everything without a state, else what lies
\* beyond the stored cursor.
Batch == (IF run.st = None THEN 1 ELSE run.st.cursor + 1)..run.upto

\* Completed bars at or before the last processed one.
Previous == IF run.st.lastBar = None THEN {}
            ELSE {b \in Complete(run.upto) : b <= run.st.lastBar}

LastComplete(n, default) == IF Complete(n) = {} THEN default ELSE Max(Complete(n))

-----------------------------------------------------------------------------
(* The steps of a run                                                      *)

\* The state is loaded and the tick files are read up to their present end;
\* that their sizes and their rows are taken one after the other is left out.
Start ==
    /\ pc = "idle"
    /\ run' = [NoRun EXCEPT !.st = disk, !.upto = Len(feed)]
    /\ pc' = "read"
    /\ UNCHANGED <<env, disk, ledgers, crashes>>

Finish == pc' = "idle" /\ run' = NoRun

\* No quote was ever seen: only a health row is written.
NoQuotes ==
    /\ pc = "read" /\ Batch = {} /\ run.st = None
    /\ Finish
    /\ UNCHANGED <<env, disk, ledgers, crashes>>

\* Nothing new since the last run: the state goes back as it was loaded.
NoNewQuotes ==
    /\ pc = "read" /\ Batch = {} /\ run.st # None
    /\ disk' = run.st
    /\ Finish
    /\ UNCHANGED <<env, ledgers, crashes>>

\* The first run records where it stands and decides nothing.
WarmUp ==
    /\ pc = "read" /\ Batch # {} /\ run.st = None
    /\ disk' = [lastBar |-> LastComplete(run.upto, None), lastSignal |-> None,
                open |-> None, cursor |-> run.upto]
    /\ Finish
    /\ UNCHANGED <<env, ledgers, crashes>>

\* A mutation: the last signal is forgotten.
ObserveForgettingSignal ==
    /\ pc = "read" /\ Batch # {} /\ run.st # None
    /\ run' = [run EXCEPT
                 !.seenAt = now,
                 !.todo = Complete(run.upto) \ Previous,
                 !.wasActive = Previous # {} /\ Max(Previous) \in active,
                 !.open = run.st.open]
    /\ pc' = "exit"
    /\ UNCHANGED <<env, disk, ledgers, crashes>>

\* The run takes the time and sorts the completed bars into old and new.
Observe ==
    /\ pc = "read" /\ Batch # {} /\ run.st # None
    /\ run' = [run EXCEPT
                 !.seenAt = now,
                 !.todo = Complete(run.upto) \ Previous,
                 !.wasActive = Previous # {} /\ Max(Previous) \in active,
                 !.lastSignal = run.st.lastSignal,
                 !.open = run.st.open]
    /\ pc' = "exit"
    /\ UNCHANGED <<env, disk, ledgers, crashes>>

\* Mutation: only a quote at the exit time itself closes the position.
ExitQuotesOnTheDot ==
    IF run.open = None THEN {} ELSE {i \in Batch : feed[i] = run.open.due}

\* Quotes of this batch at or after the exit time of the open position.
ExitQuotes == IF run.open = None THEN {} ELSE {i \in Batch : feed[i] >= run.open.due}

KeepPosition ==
    /\ pc = "exit" /\ ExitQuotes = {}
    /\ pc' = "scan"
    /\ UNCHANGED <<env, disk, ledgers, run, crashes>>

\* Mutation: the latest quote closes the position, as it opens one.
ExitPositionAtLatest ==
    /\ pc = "exit" /\ ExitQuotes # {}
    /\ fills' = Append(fills, [event |-> "hypothetical_exit", sig |-> run.open.sig,
                              at |-> LatestOf(ExitQuotes)])
    /\ run' = [run EXCEPT !.open = None, !.freeAt = LatestOf(ExitQuotes)]
    /\ pc' = "scan"
    /\ UNCHANGED <<env, disk, signals, crashes>>

\* The position is closed at the first of them.
ExitPosition ==
    /\ pc = "exit" /\ ExitQuotes # {}
    /\ LET at == feed[Min(ExitQuotes)]
       IN  /\ fills' = Append(fills, [event |-> "hypothetical_exit",
                                      sig |-> run.open.sig, at |-> at])
           /\ run' = [run EXCEPT !.open = None, !.freeAt = at]
    /\ pc' = "scan"
    /\ UNCHANGED <<env, disk, signals, crashes>>

\* The next candidate of the loop, in the order of the bars.
IsNext(c) == pc = "scan" /\ c \in run.todo /\ \A d \in run.todo : c <= d

Rising(c) == c \in active /\ ~run.wasActive
\* Mutation: no cooldown is kept.
NeverCooling(c) == TRUE

Cooled(c) == run.lastSignal # None => c - run.lastSignal >= Cooldown

\* Mutations: the exit of the same run, or the open position, does not count.
OccupiedByOpenOnly(c) == run.open # None
OccupiedByExitOnly(c) == run.freeAt # None /\ c < run.freeAt

Occupied(c) == run.open # None \/ (run.freeAt # None /\ c < run.freeAt)
Late(c) == run.seenAt - c > MaxDelay

\* Quotes of this batch the run could have acted on, and whether the latest
\* of them is still fresh.
EntryQuotes(c) == {i \in Batch : c <= feed[i] /\ feed[i] <= run.seenAt}
LiveEntry(c) ==
    /\ ~Late(c)
    /\ EntryQuotes(c) # {}
    /\ run.seenAt - LatestOf(EntryQuotes(c)) <= MaxAge

Disposition(c) ==
    CASE Occupied(c) -> "ignored_open_position"
      [] ~Occupied(c) /\ Late(c) -> "rejected_late_engine_processing"
      [] ~Occupied(c) /\ LiveEntry(c) -> "hypothetical_entry"
      [] OTHER -> "entry_quote_timeout"

PassOver(c) ==
    /\ IsNext(c)
    /\ ~(Rising(c) /\ Cooled(c))
    /\ run' = [run EXCEPT !.todo = @ \ {c}, !.wasActive = c \in active]
    /\ UNCHANGED <<env, disk, ledgers, pc, crashes>>

\* The signal row ends the turn of a candidate that was not passed over.
RecordSignal(c, disposition) ==
    /\ signals' = Append(signals, [sig |-> c, disposition |-> disposition])
    /\ run' = [run EXCEPT !.todo = @ \ {c}, !.wasActive = TRUE, !.lastSignal = c]

Decline(c) ==
    /\ IsNext(c) /\ Rising(c) /\ Cooled(c)
    /\ Disposition(c) # "hypothetical_entry"
    /\ RecordSignal(c, Disposition(c))
    /\ UNCHANGED <<env, disk, fills, pc, crashes>>

\* Mutation: the holding time counts from the signal.
EnterDueFromSignal(c) ==
    /\ IsNext(c) /\ Rising(c) /\ Cooled(c)
    /\ Disposition(c) = "hypothetical_entry"
    /\ LET at == LatestOf(EntryQuotes(c))
       IN  /\ fills' = Append(fills, [event |-> "hypothetical_entry", sig |-> c, at |-> at])
           /\ run' = [run EXCEPT !.open = [sig |-> c, entryAt |-> at, due |-> c + Holding]]
    /\ pc' = "entered"
    /\ UNCHANGED <<env, disk, signals, crashes>>

\* An entry is two appends: first the fill, then the signal.
EnterPosition(c) ==
    /\ IsNext(c) /\ Rising(c) /\ Cooled(c)
    /\ Disposition(c) = "hypothetical_entry"
    /\ LET at == LatestOf(EntryQuotes(c))
       IN  /\ fills' = Append(fills, [event |-> "hypothetical_entry", sig |-> c, at |-> at])
           /\ run' = [run EXCEPT !.open = [sig |-> c, entryAt |-> at, due |-> at + Holding]]
    /\ pc' = "entered"
    /\ UNCHANGED <<env, disk, signals, crashes>>

RecordEntry ==
    /\ pc = "entered"
    /\ RecordSignal(run.open.sig, "hypothetical_entry")
    /\ pc' = "scan"
    /\ UNCHANGED <<env, disk, fills, crashes>>

\* Everything is decided: the new state replaces the old one.
SaveState ==
    /\ pc = "scan" /\ run.todo = {}
    /\ disk' = [lastBar |-> LastComplete(run.upto, run.st.lastBar),
                lastSignal |-> run.lastSignal, open |-> run.open, cursor |-> run.upto]
    /\ Finish
    /\ UNCHANGED <<env, ledgers, crashes>>

\* The process dies, or an exception ends it, with the ledgers as they are.
Crash ==
    /\ pc # "idle" /\ crashes < MaxCrashes
    /\ crashes' = crashes + 1
    /\ Finish
    /\ UNCHANGED <<env, disk, ledgers>>

Step ==
    \/ Start \/ NoQuotes \/ NoNewQuotes \/ WarmUp \/ Observe
    \/ KeepPosition \/ ExitPosition \/ RecordEntry \/ SaveState
    \/ \E c \in run.todo : PassOver(c) \/ Decline(c) \/ EnterPosition(c)

Init ==
    /\ now = 0 /\ feed = <<>> /\ active = {}
    /\ disk = None /\ fills = <<>> /\ signals = <<>>
    /\ pc = "idle" /\ run = NoRun /\ crashes = 0

Next == Tick \/ Quote \/ Step \/ Crash

Spec == Init /\ [][Next]_vars

\* The scheduler starts a run every few minutes and a started run proceeds.
FairSpec == Spec /\ WF_vars(Step)

-----------------------------------------------------------------------------
Fill == [event : {"hypothetical_entry", "hypothetical_exit"}, sig : Nat, at : Nat]
Signal == [sig : Nat, disposition : Dispositions]

TypeOK ==
    /\ now \in Nat /\ feed \in Seq(Nat) /\ active \subseteq Nat
    /\ disk \in State \union {None}
    /\ fills \in Seq(Fill)
    /\ signals \in Seq(Signal)
    /\ pc \in {"idle", "read", "exit", "scan", "entered"}
    /\ run \in Run
    /\ crashes \in Nat

-----------------------------------------------------------------------------
(* What the ledgers say                                                    *)

Entries == {i \in DOMAIN fills : fills[i].event = "hypothetical_entry"}
Exits == {i \in DOMAIN fills : fills[i].event = "hypothetical_exit"}
Traded == {fills[i].sig : i \in Entries}
Decided == {signals[i].sig : i \in DOMAIN signals}

\* Signals with an entry in fills.jsonl and no exit: the positions a reader
\* of the ledger takes to be open.
OpenInLedger == Traded \ {fills[i].sig : i \in Exits}

\* The account as a reader of the ledgers sees it.
Account == INSTANCE ShadowAccount WITH
    Signals <- 0..MaxTime,
    position <- IF OpenInLedger = {} THEN None ELSE Max(OpenInLedger),
    decided <- Decided,
    traded <- Traded

\* Runs that are never cut short keep the promise of the campaign: one
\* position at a time, every signal decided once and in order, a cooldown
\* apart, no exit between an entry and its signal row.
AccountSpec == Account!Spec

\* The signals are those of one pass over all bars, however the runs cut
\* the feed into batches and wherever they died.  Bars at or before the
\* warm-up only say whether the first new one is a rising edge.
Replay(from, upto) ==
    LET bars == {b \in BarsUpTo(Len(feed)) : b <= upto}
        Before(b) == {d \in bars : d < b}
        Edge(b) == b \in active /\ (Before(b) = {} \/ Max(Before(b)) \notin active)
        pick[b \in bars \union {0}] ==
            IF b = 0 THEN {}
            ELSE LET earlier == pick[Max(Before(b) \union {0})]
                 IN  IF /\ b > from /\ Edge(b)
                        /\ earlier = {} \/ b - Max(earlier) >= Cooldown
                     THEN earlier \union {b}
                     ELSE earlier
    IN  pick[Max(bars \union {0})]

\* A position is closed at the first quote at or after its time, in the
\* whole feed and not just in the batch of the run that closed it, whether
\* or not a crash made a run do its work again.  The entry that counts is
\* the last one the ledger holds for the signal before the exit.
ExitAtFirstQuote ==
    \A i \in Exits : \E j \in Entries :
        /\ j < i /\ fills[j].sig = fills[i].sig
        /\ \A k \in Entries : k < i /\ fills[k].sig = fills[i].sig => k <= j
        /\ fills[i].at >= fills[j].at + Holding
        /\ \A q \in DOMAIN feed : feed[q] >= fills[j].at + Holding => feed[q] >= fills[i].at

-----------------------------------------------------------------------------
(* What makes ExitAtFirstQuote inductive: the ledger, the saved state and  *)
(* the locals of a run agree about the open position.                      *)

\* Rows come in the order of their times, and neither they nor the fills are
\* from the future.
FeedOrdered ==
    /\ \A i \in DOMAIN feed : feed[i] <= now
    /\ \A i, j \in DOMAIN feed : i <= j => feed[i] <= feed[j]
    /\ \A i \in DOMAIN fills : \E q \in DOMAIN feed : fills[i].at <= feed[q]

\* The last entry the ledger holds for the signal of p is p's.
Backed(p) ==
    /\ p.due = p.entryAt + Holding
    /\ \E i \in Entries :
          /\ fills[i].sig = p.sig /\ fills[i].at = p.entryAt
          /\ \A j \in Entries : fills[j].sig = p.sig => j <= i

\* None of the first n rows could have closed p.
Awaits(p, n) == \A i \in 1..n : feed[i] < p.due

\* What is saved: the cursor lies within the feed, the last processed bar is
\* one of the bars read, and the position is backed, still waits for its
\* exit quote and has its signal behind it.
SavedState ==
    disk # None =>
        /\ disk.cursor <= Len(feed)
        /\ disk.lastBar # None => disk.lastBar \in Complete(disk.cursor)
        /\ disk.open # None =>
              /\ Backed(disk.open) /\ Awaits(disk.open, disk.cursor)
              /\ disk.lastBar # None /\ disk.open.sig <= disk.lastBar

\* A run works on what is saved, on a prefix of the feed.
RunOnSavedState ==
    pc # "idle" =>
        /\ run.st = disk
        /\ run.upto <= Len(feed)
        /\ disk # None => disk.cursor <= run.upto

\* A run that decides: its candidates are new complete bars, its quotes are
\* not younger than its clock, and its position is the saved one or one that
\* it opened for a bar it read.
Deciding ==
    pc \in {"exit", "scan", "entered"} =>
        /\ disk # None
        /\ \A i \in 1..run.upto : feed[i] <= run.seenAt
        /\ run.seenAt <= now
        /\ run.todo \subseteq Complete(run.upto)
        /\ disk.lastBar # None => \A c \in run.todo : c > disk.lastBar
        /\ run.open # None =>
              /\ run.open = disk.open \/ run.open.sig \in Complete(run.upto)
              /\ Backed(run.open)
              /\ pc # "exit" => Awaits(run.open, run.upto)
        /\ pc = "exit" => run.open = disk.open
        /\ pc = "entered" => run.open # None

\* The types and all of this together: ledgers, feed, saved state and the locals
\* of a run agree about the open position (demo_shadow_engine.py:38-216).
SafetyInvariant ==
    TypeOK /\ FeedOrdered /\ ExitAtFirstQuote /\ SavedState /\ RunOnSavedState /\ Deciding

-----------------------------------------------------------------------------
\* A saved position is closed once the feed holds a quote at or after its
\* exit time, even if runs die on the way.
PositionDue ==
    /\ disk # None /\ disk.open # None
    /\ \E i \in DOMAIN feed : feed[i] >= disk.open.due

PositionsClose == PositionDue ~> ~PositionDue

\* With the frozen timing, where the cooldown outlasts delay, holding and a
\* bar, no signal ever finds the position open: "ignored_open_position" is
\* out of reach, however late the exit quote comes and wherever runs die.
FrozenTiming == Cooldown >= MaxDelay + Holding + BarLen

NeverIgnored ==
    FrozenTiming =>
        \A i \in DOMAIN signals : signals[i].disposition # "ignored_open_position"

\* A signal is ignored exactly when a trade of the ledger spans the time it
\* became available, also when the run that decides it closed that trade a
\* moment before; no trade is opened inside another.
Spanned(c) ==
    \E i \in Entries :
        /\ fills[i].sig < c
        /\ \A j \in Exits : fills[j].sig = fills[i].sig => fills[j].at > c

IgnoredExactlyWhileOpen ==
    \A i \in DOMAIN signals :
        (signals[i].disposition = "ignored_open_position") <=> Spanned(signals[i].sig)

\* One position at most, as the frozen specification words its overlap rule.
OnePositionAtMost == Cardinality(OpenInLedger) <= 1

\* The entry is the first quote observed at or after the signal, as the frozen
\* specification words its entry rule.
EntryAtFirstQuote ==
    \A i \in Entries : \A q \in DOMAIN feed :
        feed[q] >= fills[i].sig => feed[q] >= fills[i].at
=============================================================================

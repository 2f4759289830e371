-------------------------- MODULE ShadowEngineProofs ------------------------
(***************************************************************************)
(* Type correctness of ShadowEngine and the exit rule, ExitAtFirstQuote,   *)
(* for all timings, any feed and any number of runs that die.  The exit    *)
(* rule is about ledgers and feed only; it is kept because the saved state *)
(* and the locals of a run agree with both (SafetyInvariant).  After them, *)
(* what the signals ledger says, and the refinement of ShadowAccount.      *)
(***************************************************************************)
EXTENDS MCShadowEngine, OrderingProofs

-----------------------------------------------------------------------------
\* A bar is named by a natural number, later than the quotes in it.
LEMMA BarOfType ==
    ASSUME NEW t \in Nat
    PROVE  BarOf(t) \in Nat /\ BarOf(t) > t
<1>1. t % BarLen \in Nat /\ t % BarLen < BarLen
  BY TimingAssumption
<1> QED
  BY <1>1, TimingAssumption DEF BarOf

\* The complete bars of a prefix of the feed are naturals, none later than
\* the last quote of the prefix.
LEMMA CompleteType ==
    ASSUME TypeOK, NEW n \in 0..Len(feed)
    PROVE  /\ BarsUpTo(n) \subseteq Nat
           /\ Complete(n) \subseteq Nat
           /\ \A b \in Complete(n) : n > 0 /\ b <= feed[n]
<1>1. \A i \in 1..n : feed[i] \in Nat
  BY DEF TypeOK
<1>2. BarsUpTo(n) \subseteq Nat
  BY <1>1, BarOfType DEF BarsUpTo
<1>3. \A b \in Complete(n) : n > 0
  BY DEF Complete, BarsUpTo
<1> QED
  BY <1>2, <1>3 DEF Complete

\* The last complete bar of a prefix, if there is one, is the latest of them.
LEMMA LastCompleteIsLast ==
    ASSUME TypeOK, NEW n \in 0..Len(feed), Complete(n) # {}, NEW d
    PROVE  /\ LastComplete(n, d) \in Complete(n)
           /\ LastComplete(n, d) \in Nat
           /\ \A b \in Complete(n) : b <= LastComplete(n, d)
<1>1. n > 0 /\ feed[n] \in Nat
  BY CompleteType DEF TypeOK
<1>2. Max(Complete(n)) \in Complete(n) /\ \A b \in Complete(n) : Max(Complete(n)) >= b
  BY <1>1, CompleteType, GreatestExists
<1> QED
  BY <1>2, CompleteType DEF LastComplete

\* The first and the last of a set of rows of the feed are rows of the feed.
LEMMA RowsOfTheFeed ==
    ASSUME TypeOK, NEW I, I \subseteq 1..Len(feed), I # {}
    PROVE  /\ Min(I) \in I /\ \A i \in I : Min(I) <= i
           /\ Max(I) \in I /\ \A i \in I : Max(I) >= i
           /\ feed[Min(I)] \in Nat /\ LatestOf(I) \in Nat
<1>1. I \subseteq Nat /\ Len(feed) \in Nat /\ \A i \in I : i <= Len(feed)
  BY DEF TypeOK
<1>2. Min(I) \in I /\ \A i \in I : Min(I) <= i
  BY <1>1, LeastExists
<1>3. Max(I) \in I /\ \A i \in I : Max(I) >= i
  BY <1>1, GreatestExists
<1>4. \A i \in 1..Len(feed) : feed[i] \in Nat
  BY DEF TypeOK
<1> QED
  BY <1>2, <1>3, <1>4 DEF LatestOf

-----------------------------------------------------------------------------
IInv == TypeOK /\ SafetyInvariant

\* The rows of a batch are rows of the prefix that the run read.
LEMMA BatchRows ==
    ASSUME TypeOK, RunOnSavedState, pc # "idle"
    PROVE  run.upto \in 0..Len(feed) /\ Batch \subseteq 1..run.upto /\ Batch \subseteq 1..Len(feed)
<1>1. run.upto \in Nat /\ run.upto <= Len(feed) /\ Len(feed) \in Nat
  BY DEF TypeOK, RunOnSavedState, Run
<1>2. run.st # None => run.st.cursor \in Nat
  BY DEF TypeOK, Run, State
<1> QED
  BY <1>1, <1>2 DEF Batch

\* What a row appended to the fills ledger leaves as it was.
LEMMA AppendFill ==
    ASSUME fills \in Seq(Fill), NEW row \in Fill, fills' = Append(fills, row)
    PROVE  /\ fills' \in Seq(Fill)
           /\ Len(fills') = Len(fills) + 1
           /\ DOMAIN fills = 1..Len(fills) /\ DOMAIN fills' = 1..(Len(fills) + 1)
           /\ \A i \in 1..Len(fills) : fills'[i] = fills[i]
           /\ fills'[Len(fills) + 1] = row
  OBVIOUS

\* The position of a run is backed by the type of its fields.
LEMMA OpenType ==
    ASSUME TypeOK, run.open # None
    PROVE  run.open \in Position /\ run.open.sig \in Nat /\ run.open.entryAt \in Nat
           /\ run.open.due \in Nat
  BY DEF TypeOK, Run, Position

-----------------------------------------------------------------------------
(* Types                                                                   *)

\* Every step keeps the types, given that a run reads what the feed holds.
LEMMA TypeStep == IInv /\ [Next]_vars => TypeOK'
<1> SUFFICES ASSUME IInv, [Next]_vars
             PROVE  TypeOK'
  OBVIOUS
<1>0. TypeOK /\ RunOnSavedState /\ Deciding
  BY DEF IInv, SafetyInvariant
<1>a. NoRun \in Run
  BY DEF NoRun, Run
<1>1. CASE Tick
  BY <1>0, <1>1 DEF TypeOK, Tick, ledgers
<1>2. CASE Quote
  <2>1. PICK at \in LatestRow..now :
          /\ feed' = Append(feed, at)
          /\ active' = active \/ active' = active \union {BarOf(at)}
    BY <1>2 DEF Quote
  <2>a. LatestRow \in Nat /\ now \in Nat
    BY <1>0 DEF TypeOK, LatestRow
  <2>2. at \in Nat
    BY <2>a
  <2>3. BarOf(at) \in Nat
    BY <2>2, BarOfType
  <2>b. feed \in Seq(Nat) /\ active \subseteq Nat
    BY <1>0 DEF TypeOK
  <2>3a. active' \subseteq Nat
    BY <2>1, <2>3, <2>b
  <2>3b. feed' \in Seq(Nat)
    BY <2>1, <2>2, <2>b
  <2>4. feed' \in Seq(Nat) /\ active' \subseteq Nat
    BY <2>3a, <2>3b
  <2>5. UNCHANGED <<now, disk, fills, signals, pc, run, crashes>>
    BY <1>2 DEF Quote, ledgers
  <2> QED
    BY <1>0, <2>4, <2>5 DEF TypeOK
<1>3. CASE Start
  <2>1. disk \in State \union {None} /\ Len(feed) \in Nat
    BY <1>0 DEF TypeOK
  <2>2. run' \in Run
    BY <1>a, <1>3, <2>1 DEF Start, Run
  <2> QED
    BY <1>0, <1>3, <2>2 DEF TypeOK, Start, env, ledgers
<1>4. CASE NoQuotes
  BY <1>0, <1>a, <1>4 DEF TypeOK, NoQuotes, Finish, env, ledgers
<1>5. CASE NoNewQuotes
  BY <1>0, <1>a, <1>5 DEF TypeOK, NoNewQuotes, Finish, env, ledgers, Run
<1>6. CASE WarmUp
  <2>1. run.upto \in 0..Len(feed)
    BY <1>0, <1>6, BatchRows DEF WarmUp
  <2>2. LastComplete(run.upto, None) \in Nat \union {None}
    BY <1>0, <2>1, LastCompleteIsLast DEF LastComplete
  <2>3. disk' \in State
    BY <1>6, <2>1, <2>2 DEF WarmUp, State
  <2> QED
    BY <1>0, <1>a, <1>6, <2>3 DEF TypeOK, WarmUp, Finish, env, ledgers
<1>7. CASE Observe
  <2>1. Complete(run.upto) \subseteq Nat
    BY <1>0, <1>7, BatchRows, CompleteType DEF Observe
  <2>2. run.st \in State
    BY <1>0, <1>7 DEF TypeOK, Observe, Run
  <2>3. run' \in Run
    BY <1>0, <1>7, <2>1, <2>2 DEF TypeOK, Observe, Run, State
  <2> QED
    BY <1>0, <1>7, <2>3 DEF TypeOK, Observe, env, ledgers
<1>8. CASE KeepPosition
  BY <1>0, <1>8 DEF TypeOK, KeepPosition, env, ledgers
<1>9. CASE ExitPosition
  <2> DEFINE at == feed[Min(ExitQuotes)]
  <2>1. at \in Nat
    BY <1>0, <1>9, BatchRows, RowsOfTheFeed DEF ExitPosition, ExitQuotes
  <2>2. run.open.sig \in Nat
    BY <1>0, <1>9, OpenType DEF ExitPosition, ExitQuotes
  <2> HIDE DEF at
  <2>3. [event |-> "hypothetical_exit", sig |-> run.open.sig, at |-> at] \in Fill
    BY <2>1, <2>2 DEF Fill
  <2>4. fills' \in Seq(Fill)
    BY <1>0, <1>9, <2>3, AppendFill DEF ExitPosition, TypeOK, at
  <2>5. run' \in Run
    BY <1>0, <1>9, <2>1 DEF ExitPosition, TypeOK, Run, at
  <2> QED
    BY <1>0, <1>9, <2>4, <2>5 DEF TypeOK, ExitPosition, env, ledgers
<1>10. ASSUME NEW c \in run.todo, PassOver(c)
       PROVE  TypeOK'
  <2> DEFINE now_active == c \in active
  <2>1. now_active \in BOOLEAN
    OBVIOUS
  <2> HIDE DEF now_active
  <2>2. run' = [run EXCEPT !.todo = @ \ {c}, !.wasActive = now_active]
    BY <1>10 DEF PassOver, now_active
  <2>3. run' \in Run
    BY <1>0, <2>1, <2>2 DEF TypeOK, Run
  <2> QED
    BY <1>0, <1>10, <2>3 DEF TypeOK, PassOver, env, ledgers
<1>b. ASSUME NEW c \in Nat, NEW d \in Dispositions, RecordSignal(c, d)
      PROVE  run' \in Run /\ signals' \in Seq(Signal)
  <2>1. [sig |-> c, disposition |-> d] \in Signal
    BY DEF Signal
  <2>2. signals' \in Seq(Signal)
    BY <1>0, <1>b, <2>1 DEF TypeOK, RecordSignal
  <2>3. run' \in Run
    BY <1>0, <1>b DEF TypeOK, RecordSignal, Run
  <2> QED
    BY <2>2, <2>3
<1>c. run.todo \subseteq Nat
  BY <1>0 DEF TypeOK, Run
<1>11. ASSUME NEW c \in run.todo, Decline(c)
       PROVE  TypeOK'
  <2>1. Disposition(c) \in Dispositions
    BY DEF Disposition, Dispositions
  <2>2. run' \in Run /\ signals' \in Seq(Signal)
    BY <1>b, <1>c, <1>11, <2>1 DEF Decline
  <2> QED
    BY <1>0, <1>11, <2>2 DEF TypeOK, Decline, env
<1>12. ASSUME NEW c \in run.todo, EnterPosition(c)
       PROVE  TypeOK'
  <2> DEFINE at == LatestOf(EntryQuotes(c))
  <2>1. EntryQuotes(c) # {}
    BY <1>12 DEF EnterPosition, Disposition, LiveEntry
  <2>2. at \in Nat
    BY <1>0, <1>12, <2>1, BatchRows, RowsOfTheFeed
       DEF EnterPosition, IsNext, EntryQuotes
  <2> HIDE DEF at
  <2>3. [event |-> "hypothetical_entry", sig |-> c, at |-> at] \in Fill
    BY <1>c, <2>2 DEF Fill
  <2>4. fills' \in Seq(Fill)
    BY <1>0, <1>12, <2>3, AppendFill DEF EnterPosition, TypeOK, at
  <2>5. [sig |-> c, entryAt |-> at, due |-> at + Holding] \in Position
    BY <1>c, <2>2, TimingAssumption DEF Position
  <2>6. run' = [run EXCEPT !.open = [sig |-> c, entryAt |-> at, due |-> at + Holding]]
    BY <1>12 DEF EnterPosition, at
  <2>7. run' \in Run
    BY <1>0, <2>5, <2>6 DEF TypeOK, Run
  <2> QED
    BY <1>0, <1>12, <2>4, <2>7 DEF TypeOK, EnterPosition, env
<1>13. CASE RecordEntry
  <2>1. run.open.sig \in Nat
    BY <1>0, <1>13, OpenType DEF RecordEntry, Deciding
  <2>2. run' \in Run /\ signals' \in Seq(Signal)
    BY <1>b, <1>13, <2>1 DEF RecordEntry, Dispositions
  <2> QED
    BY <1>0, <1>13, <2>2 DEF TypeOK, RecordEntry, env
<1>14. CASE SaveState
  <2>1. run.upto \in 0..Len(feed) /\ run.st \in State
    BY <1>0, <1>14, BatchRows DEF SaveState, Deciding, RunOnSavedState, TypeOK
  <2>2. LastComplete(run.upto, run.st.lastBar) \in Nat \union {None}
    BY <1>0, <2>1, LastCompleteIsLast DEF LastComplete, State
  <2>3. disk' \in State
    BY <1>0, <1>14, <2>1, <2>2 DEF SaveState, State, TypeOK, Run
  <2> QED
    BY <1>0, <1>a, <1>14, <2>3 DEF TypeOK, SaveState, Finish, env, ledgers
<1>15. CASE Crash
  BY <1>0, <1>a, <1>15 DEF TypeOK, Crash, Finish, env, ledgers
<1>16. CASE UNCHANGED vars
  BY <1>0, <1>16 DEF TypeOK, vars
<1> QED
  BY <1>1, <1>2, <1>3, <1>4, <1>5, <1>6, <1>7, <1>8, <1>9, <1>10, <1>11, <1>12, <1>13,
     <1>14, <1>15, <1>16 DEF Next, Step

-----------------------------------------------------------------------------
(* What the steps that write a fill, or a row of the feed, do              *)

\* Every other step leaves clock, feed and fills alone.
LEMMA QuietSteps ==
    ASSUME [Next]_vars
    PROVE  \/ Tick \/ Quote \/ ExitPosition
           \/ \E c \in run.todo : EnterPosition(c)
           \/ UNCHANGED <<now, feed, fills>>
<1>1. ASSUME Start \/ NoQuotes \/ NoNewQuotes \/ WarmUp \/ Observe \/ KeepPosition
      PROVE  UNCHANGED <<now, feed, fills>>
  BY <1>1 DEF Start, NoQuotes, NoNewQuotes, WarmUp, Observe, KeepPosition, env, ledgers
<1>2. ASSUME RecordEntry \/ SaveState \/ Crash \/ UNCHANGED vars
      PROVE  UNCHANGED <<now, feed, fills>>
  BY <1>2 DEF RecordEntry, SaveState, Crash, env, ledgers, vars
<1>3. ASSUME NEW c \in run.todo, PassOver(c) \/ Decline(c)
      PROVE  UNCHANGED <<now, feed, fills>>
  BY <1>3 DEF PassOver, Decline, env, ledgers
<1> QED
  BY <1>1, <1>2, <1>3 DEF Next, Step

\* The exit is taken at a row of the feed, and no row that could have closed
\* the position is earlier.
LEMMA ExitFacts ==
    ASSUME IInv, ExitPosition
    PROVE  \E q \in 1..run.upto :
              /\ feed[q] \in Nat /\ feed[q] >= run.open.due /\ feed[q] <= now
              /\ \A i \in DOMAIN feed : feed[i] >= run.open.due => feed[i] >= feed[q]
              /\ fills' = Append(fills, [event |-> "hypothetical_exit",
                                        sig |-> run.open.sig, at |-> feed[q]])
              /\ run' = [run EXCEPT !.open = None, !.freeAt = feed[q]]
<1>0. /\ TypeOK /\ FeedOrdered /\ SavedState /\ RunOnSavedState /\ Deciding
      /\ pc = "exit" /\ ExitQuotes # {}
  BY DEF IInv, SafetyInvariant, ExitPosition
<1>1. run.open # None /\ ExitQuotes = {i \in Batch : feed[i] >= run.open.due}
  BY <1>0 DEF ExitQuotes
<1>2. /\ run.upto \in 0..Len(feed) /\ Batch \subseteq 1..run.upto
      /\ ExitQuotes \subseteq 1..Len(feed)
  BY <1>0, <1>1, BatchRows
<1> DEFINE q == Min(ExitQuotes)
<1>3. q \in ExitQuotes /\ \A i \in ExitQuotes : q <= i
  BY <1>0, <1>2, RowsOfTheFeed
<1>4. q \in 1..run.upto /\ q \in DOMAIN feed /\ feed[q] >= run.open.due
  BY <1>0, <1>1, <1>2, <1>3 DEF TypeOK
<1>5. feed[q] \in Nat /\ feed[q] <= now
  BY <1>0, <1>4 DEF TypeOK, FeedOrdered
<1>6. ASSUME NEW i \in DOMAIN feed, feed[i] >= run.open.due
      PROVE  feed[i] >= feed[q]
  <2>1. disk # None /\ run.st = disk /\ run.open = disk.open /\ disk.cursor \in Nat
    BY <1>0 DEF Deciding, RunOnSavedState, TypeOK, State
  <2>2. i \in Nat /\ feed[i] \in Nat /\ run.open.due \in Nat
    BY <1>0, <1>1, <1>6, OpenType DEF TypeOK
  <2>3. ~(i <= disk.cursor)
    <3> SUFFICES ASSUME i <= disk.cursor PROVE FALSE
      OBVIOUS
    <3>1. i \in 1..disk.cursor
      BY <1>0, <1>6, <2>1, <2>2 DEF TypeOK
    <3>2. feed[i] < disk.open.due
      BY <1>0, <1>1, <2>1, <3>1 DEF SavedState, Awaits
    <3> QED
      BY <1>6, <2>1, <2>2, <3>2
  <2>4. CASE i <= run.upto
    <3>1. i \in Batch
      BY <2>1, <2>2, <2>3, <2>4, <1>2 DEF Batch
    <3>2. q <= i
      BY <1>1, <1>3, <1>6, <3>1
    <3> QED
      BY <1>0, <1>4, <1>6, <3>2 DEF FeedOrdered
  <2>5. CASE ~(i <= run.upto)
    <3>1. q <= i
      BY <1>2, <1>4, <2>2, <2>5
    <3> QED
      BY <1>0, <1>4, <1>6, <3>1 DEF FeedOrdered
  <2> QED
    BY <2>4, <2>5
<1>7. /\ fills' = Append(fills, [event |-> "hypothetical_exit",
                                sig |-> run.open.sig, at |-> feed[q]])
      /\ run' = [run EXCEPT !.open = None, !.freeAt = feed[q]]
  BY DEF ExitPosition
<1> QED
  BY <1>4, <1>5, <1>6, <1>7

\* The entry is taken at the latest of the rows the run read, at or after
\* the time of its signal.
LEMMA EntryFacts ==
    ASSUME IInv, NEW c \in run.todo, EnterPosition(c)
    PROVE  /\ c \in Nat /\ c \in Complete(run.upto) /\ run.open = None
           /\ \E q \in 1..run.upto :
              /\ feed[q] \in Nat /\ feed[q] <= now /\ c <= feed[q]
              /\ \A i \in 1..run.upto : feed[i] <= feed[q]
              /\ fills' = Append(fills, [event |-> "hypothetical_entry", sig |-> c, at |-> feed[q]])
              /\ run' = [run EXCEPT !.open = [sig |-> c, entryAt |-> feed[q],
                                             due |-> feed[q] + Holding]]
<1>0. /\ TypeOK /\ FeedOrdered /\ RunOnSavedState /\ Deciding /\ pc = "scan"
      /\ EntryQuotes(c) # {} /\ ~Occupied(c)
  BY DEF IInv, SafetyInvariant, EnterPosition, IsNext, Disposition, LiveEntry
<1>1. c \in Nat /\ c \in Complete(run.upto) /\ run.open = None
  BY <1>0 DEF TypeOK, Run, Deciding, Occupied
<1>2. /\ run.upto \in 0..Len(feed) /\ Batch \subseteq 1..run.upto
      /\ EntryQuotes(c) \subseteq 1..Len(feed)
  BY <1>0, BatchRows DEF EntryQuotes
<1> DEFINE q == Max(EntryQuotes(c))
<1>3. q \in EntryQuotes(c) /\ \A i \in EntryQuotes(c) : q >= i
  BY <1>0, <1>2, RowsOfTheFeed
<1>4. q \in Batch /\ c <= feed[q]
  BY <1>3 DEF EntryQuotes
<1> HIDE DEF q
<1>a. \A i \in 1..run.upto : i \in DOMAIN feed /\ feed[i] \in Nat
  BY <1>0, <1>2 DEF TypeOK
<1>b. run.st # None => run.st.cursor \in Nat
  BY <1>0 DEF TypeOK, Run, State
<1>5. /\ q \in 1..run.upto /\ q \in DOMAIN feed
      /\ \A i \in 1..run.upto : i \in DOMAIN feed /\ feed[i] \in Nat
  BY <1>2, <1>4, <1>a
<1>6. feed[q] \in Nat /\ feed[q] <= now
  BY <1>0, <1>5 DEF FeedOrdered
<1>7. ASSUME NEW i \in 1..run.upto
      PROVE  feed[i] <= feed[q]
  <2>1. CASE i <= q
    BY <1>0, <1>5, <2>1 DEF FeedOrdered
  <2>2. CASE ~(i <= q)
    <3>1. i \in Batch
      BY <1>2, <1>4, <1>5, <1>b, <2>2 DEF Batch
    <3>2. feed[q] <= feed[i]
      BY <1>0, <1>5, <2>2 DEF FeedOrdered
    <3>3. c <= feed[i] /\ feed[i] <= run.seenAt
      BY <1>0, <1>1, <1>4, <1>5, <1>6, <3>2 DEF Deciding
    <3>4. i \in EntryQuotes(c)
      BY <3>1, <3>3 DEF EntryQuotes
    <3> QED
      BY <1>3, <1>5, <2>2, <3>4
  <2> QED
    BY <2>1, <2>2
<1>8. /\ fills' = Append(fills, [event |-> "hypothetical_entry", sig |-> c, at |-> feed[q]])
      /\ run' = [run EXCEPT !.open = [sig |-> c, entryAt |-> feed[q], due |-> feed[q] + Holding]]
  BY DEF EnterPosition, LatestOf, q
<1> QED
  BY <1>1, <1>4, <1>5, <1>6, <1>7, <1>8

\* The feed changes by a row that is not older than the last one.
LEMMA RowAppended ==
    ASSUME TypeOK, [Next]_vars
    PROVE  \/ feed' = feed
           \/ \E at \in Nat : LatestRow <= at /\ at <= now /\ feed' = Append(feed, at)
<1>1. LatestRow \in Nat /\ now \in Nat
  BY DEF TypeOK, LatestRow
<1>2. ASSUME Quote
      PROVE  \E at \in Nat : LatestRow <= at /\ at <= now /\ feed' = Append(feed, at)
  <2>1. PICK at \in LatestRow..now : feed' = Append(feed, at)
    BY <1>2 DEF Quote
  <2>2. at \in Nat /\ LatestRow <= at /\ at <= now
    BY <1>1
  <2> QED
    BY <2>1, <2>2
<1> QED
  BY <1>2, QuietSteps DEF Tick, ExitPosition, EnterPosition, env

\* Rows of the feed are never changed, so neither are the bars of a prefix.
LEMMA PrefixKept ==
    ASSUME TypeOK, [Next]_vars
    PROVE  /\ Len(feed') \in Nat /\ Len(feed) <= Len(feed')
           /\ DOMAIN feed = 1..Len(feed) /\ DOMAIN feed' = 1..Len(feed')
           /\ \A i \in 1..Len(feed) : feed'[i] = feed[i]
           /\ \A n \in 0..Len(feed) : Complete(n)' = Complete(n)
<1>1. feed' = feed \/ \E at \in Nat : feed' = Append(feed, at)
  BY RowAppended
<1>2. feed \in Seq(Nat)
  BY DEF TypeOK
<1>3. /\ Len(feed') \in Nat /\ Len(feed) <= Len(feed')
      /\ DOMAIN feed = 1..Len(feed) /\ DOMAIN feed' = 1..Len(feed')
      /\ \A i \in 1..Len(feed) : feed'[i] = feed[i]
  BY <1>1, <1>2
<1>4. ASSUME NEW n \in 0..Len(feed)
      PROVE  Complete(n)' = Complete(n)
  <2>1. \A i \in 1..n : feed'[i] = feed[i]
    BY <1>2, <1>3
  <2>2. BarsUpTo(n)' = BarsUpTo(n)
    BY <2>1 DEF BarsUpTo
  <2>3. CASE n = 0
    BY <2>3 DEF Complete, BarsUpTo
  <2>4. CASE n # 0
    BY <2>1, <2>2, <2>4 DEF Complete
  <2> QED
    BY <2>3, <2>4
<1> QED
  BY <1>3, <1>4

\* A row that joins the feed comes after all others, in time as in place.
LEMMA NewRow ==
    ASSUME TypeOK, FeedOrdered, [Next]_vars, NEW i \in DOMAIN feed', i \notin DOMAIN feed
    PROVE  /\ i = Len(feed) + 1 /\ feed'[i] \in Nat /\ feed'[i] <= now
           /\ \A q \in DOMAIN feed : feed[q] <= feed'[i]
<1>1. feed \in Seq(Nat)
  BY DEF TypeOK
<1>2. PICK at \in Nat : LatestRow <= at /\ at <= now /\ feed' = Append(feed, at)
  BY RowAppended
<1>3. i = Len(feed) + 1 /\ feed'[i] = at
  BY <1>1, <1>2
<1>4. ASSUME NEW q \in DOMAIN feed
      PROVE  feed[q] <= at
  <2>1. /\ Len(feed) \in DOMAIN feed /\ q <= Len(feed) /\ feed[q] \in Nat
        /\ feed[Len(feed)] \in Nat
    BY <1>1, <1>4
  <2>2. feed[q] <= feed[Len(feed)]
    BY <2>1 DEF FeedOrdered
  <2>3. LatestRow = feed[Len(feed)]
    BY <1>1, <1>4 DEF LatestRow
  <2> QED
    BY <1>2, <2>1, <2>2, <2>3
<1> QED
  BY <1>2, <1>3, <1>4

\* What the fills keep: the rows that were there, and whether p is the last
\* entry of its signal, unless another entry of the signal is appended.
LEMMA FillsKept ==
    ASSUME TypeOK, NEW p, Backed(p), NEW row \in Fill,
           \/ fills' = fills
           \/ /\ fills' = Append(fills, row)
              /\ row.event = "hypothetical_entry" => row.sig # p.sig
    PROVE  Backed(p)'
<1>0. fills \in Seq(Fill)
  BY DEF TypeOK
<1>1. CASE fills' = fills
  BY <1>1 DEF Backed, Entries
<1>2. CASE /\ fills' = Append(fills, row)
           /\ row.event = "hypothetical_entry" => row.sig # p.sig
  <2>1. PICK i \in Entries : /\ fills[i].sig = p.sig /\ fills[i].at = p.entryAt
                             /\ \A j \in Entries : fills[j].sig = p.sig => j <= i
    BY DEF Backed
  <2>2. i \in 1..Len(fills) /\ i \in Entries' /\ fills'[i] = fills[i]
    BY <1>0, <1>2, <2>1, AppendFill DEF Entries
  <2>3. ASSUME NEW j \in Entries', fills'[j].sig = p.sig
        PROVE  j <= i
    <3>1. j # Len(fills) + 1
      BY <1>0, <1>2, <2>3, AppendFill DEF Entries
    <3>2. j \in Entries /\ fills'[j] = fills[j]
      BY <1>0, <1>2, <2>3, <3>1, AppendFill DEF Entries
    <3> QED
      BY <2>1, <2>3, <3>2
  <2> QED
    BY <2>1, <2>2, <2>3 DEF Backed
<1> QED
  BY <1>1, <1>2

\* An entry that is appended is the last of its signal.
LEMMA EntryIsBacked ==
    ASSUME TypeOK, NEW p \in Position, p.due = p.entryAt + Holding,
           fills' = Append(fills, [event |-> "hypothetical_entry", sig |-> p.sig, at |-> p.entryAt])
    PROVE  Backed(p)'
<1> DEFINE row == [event |-> "hypothetical_entry", sig |-> p.sig, at |-> p.entryAt]
<1>1. row \in Fill /\ fills \in Seq(Fill)
  BY DEF TypeOK, Fill, Position
<1>2. /\ Len(fills) \in Nat /\ DOMAIN fills' = 1..(Len(fills) + 1)
      /\ fills'[Len(fills) + 1] = row
  BY <1>1, AppendFill
<1>3. Len(fills) + 1 \in Entries' /\ \A j \in Entries' : j <= Len(fills) + 1
  BY <1>2 DEF Entries
<1>4. fills'[Len(fills) + 1].sig = p.sig /\ fills'[Len(fills) + 1].at = p.entryAt
  BY <1>2
<1> QED
  BY <1>3, <1>4 DEF Backed

-----------------------------------------------------------------------------
(* The conjuncts of the safety invariant, one by one                       *)

LEMMA FeedStep == IInv /\ [Next]_vars => FeedOrdered'
<1> SUFFICES ASSUME IInv, [Next]_vars
             PROVE  FeedOrdered'
  OBVIOUS
<1>0. TypeOK /\ FeedOrdered
  BY DEF IInv, SafetyInvariant
<1>1. now' \in Nat /\ now <= now' /\ now \in Nat
  <2>1. now' = now \/ now' = now + 1
    BY QuietSteps DEF Tick, Quote, ExitPosition, EnterPosition, env
  <2> QED
    BY <1>0, <2>1 DEF TypeOK
<1>2. ASSUME NEW i \in DOMAIN feed'
      PROVE  feed'[i] \in Nat /\ feed'[i] <= now'
  <2>1. i \in DOMAIN feed => feed'[i] = feed[i] /\ feed[i] \in Nat /\ feed[i] <= now
    <3> SUFFICES ASSUME i \in DOMAIN feed
                 PROVE  feed'[i] = feed[i] /\ feed[i] \in Nat /\ feed[i] <= now
      OBVIOUS
    <3>1. feed \in Seq(Nat)
      BY <1>0 DEF TypeOK
    <3>2. feed[i] \in Nat
      BY <3>1
    <3>3. feed[i] <= now
      BY <1>0 DEF FeedOrdered
    <3>4. feed'[i] = feed[i]
      BY <1>0, PrefixKept
    <3> QED
      BY <3>2, <3>3, <3>4
  <2>2. i \notin DOMAIN feed => feed'[i] \in Nat /\ feed'[i] <= now
    BY <1>0, NewRow
  <2> QED
    BY <1>1, <2>1, <2>2
<1>3. ASSUME NEW i \in DOMAIN feed', NEW j \in DOMAIN feed', i <= j
      PROVE  feed'[i] <= feed'[j]
  <2>0. DOMAIN feed = 1..Len(feed) /\ DOMAIN feed' = 1..Len(feed') /\ Len(feed) \in Nat
    BY <1>0, PrefixKept DEF TypeOK
  <2>1. CASE j \in DOMAIN feed
    <3>1. i \in DOMAIN feed /\ feed'[i] = feed[i] /\ feed'[j] = feed[j]
      BY <1>0, <1>3, <2>1, PrefixKept
    <3> QED
      BY <1>0, <1>3, <2>1, <3>1 DEF FeedOrdered
  <2>2. CASE j \notin DOMAIN feed /\ i \in DOMAIN feed
    BY <1>0, <2>0, <2>2, NewRow, PrefixKept
  <2>3. CASE j \notin DOMAIN feed /\ i \notin DOMAIN feed
    <3>1. i = j
      BY <1>0, <2>3, NewRow
    <3> QED
      BY <1>2, <3>1
  <2> QED
    BY <2>1, <2>2, <2>3
<1>4. ASSUME NEW i \in DOMAIN fills'
      PROVE  \E q \in DOMAIN feed' : fills'[i].at <= feed'[q]
  <2>0. \A q \in DOMAIN feed : q \in DOMAIN feed' /\ feed'[q] = feed[q]
    BY <1>0, PrefixKept
  <2>1. CASE fills' = fills
    BY <1>0, <2>0, <2>1 DEF FeedOrdered
  <2>2. ASSUME NEW row \in Fill, NEW q \in DOMAIN feed, row.at = feed[q],
               fills' = Append(fills, row)
        PROVE  \E r \in DOMAIN feed' : fills'[i].at <= feed'[r]
    <3>1. i \in DOMAIN fills => fills'[i] = fills[i]
      BY <1>0, <2>2, AppendFill DEF TypeOK
    <3>2. i \notin DOMAIN fills => fills'[i] = row
      BY <1>0, <2>2, AppendFill DEF TypeOK
    <3>3. feed[q] \in Nat
      BY <1>0 DEF TypeOK
    <3>4. CASE i \in DOMAIN fills
      BY <1>0, <2>0, <3>1, <3>4 DEF FeedOrdered
    <3>5. CASE i \notin DOMAIN fills
      BY <2>0, <2>2, <3>2, <3>3, <3>5
    <3> QED
      BY <3>4, <3>5
  <2>a. \A q \in 1..run.upto : pc # "idle" => q \in DOMAIN feed
    BY <1>0, BatchRows DEF TypeOK, IInv, SafetyInvariant
  <2>3. CASE ExitPosition
    <3>1. run.open.sig \in Nat
      BY <1>0, <2>3, OpenType DEF ExitPosition, ExitQuotes
    <3>2. PICK q \in 1..run.upto :
            /\ feed[q] \in Nat
            /\ fills' = Append(fills, [event |-> "hypothetical_exit",
                                      sig |-> run.open.sig, at |-> feed[q]])
      BY <2>3, ExitFacts
    <3>3. [event |-> "hypothetical_exit", sig |-> run.open.sig, at |-> feed[q]] \in Fill
      BY <3>1, <3>2 DEF Fill
    <3>4. q \in DOMAIN feed
      BY <2>3, <2>a DEF ExitPosition
    <3> QED
      BY <2>2, <3>2, <3>3, <3>4
  <2>4. ASSUME NEW c \in run.todo, EnterPosition(c)
        PROVE  \E q \in DOMAIN feed' : fills'[i].at <= feed'[q]
    <3>1. PICK q \in 1..run.upto :
            /\ feed[q] \in Nat
            /\ fills' = Append(fills, [event |-> "hypothetical_entry", sig |-> c, at |-> feed[q]])
      BY <2>4, EntryFacts
    <3>2. [event |-> "hypothetical_entry", sig |-> c, at |-> feed[q]] \in Fill
      BY <2>4, <3>1, EntryFacts DEF Fill
    <3>3. q \in DOMAIN feed
      BY <2>4, <2>a DEF EnterPosition, IsNext
    <3> QED
      BY <2>2, <3>1, <3>2, <3>3
  <2> QED
    BY <2>1, <2>3, <2>4, QuietSteps DEF Tick, Quote, ledgers
<1> QED
  BY <1>2, <1>3, <1>4 DEF FeedOrdered

\* Exit rows that were there keep the entry they belong to, and a row that
\* joins the feed later is no earlier than any of them.
LEMMA OldExitsKept ==
    ASSUME IInv, [Next]_vars, NEW i \in Exits, NEW row \in Fill,
           fills' = fills \/ fills' = Append(fills, row)
    PROVE  \E j \in Entries' :
              /\ j < i /\ fills'[j].sig = fills'[i].sig
              /\ \A k \in Entries' : k < i /\ fills'[k].sig = fills'[i].sig => k <= j
              /\ fills'[i].at >= fills'[j].at + Holding
              /\ \A q \in DOMAIN feed' :
                    feed'[q] >= fills'[j].at + Holding => feed'[q] >= fills'[i].at
<1>0. TypeOK /\ FeedOrdered /\ ExitAtFirstQuote /\ fills \in Seq(Fill)
  BY DEF IInv, SafetyInvariant, TypeOK
<1>1. PICK j \in Entries :
        /\ j < i /\ fills[j].sig = fills[i].sig
        /\ \A k \in Entries : k < i /\ fills[k].sig = fills[i].sig => k <= j
        /\ fills[i].at >= fills[j].at + Holding
        /\ \A q \in DOMAIN feed : feed[q] >= fills[j].at + Holding => feed[q] >= fills[i].at
  BY <1>0 DEF ExitAtFirstQuote
<1>2. /\ i \in 1..Len(fills) /\ j \in 1..Len(fills) /\ Len(fills) \in Nat
      /\ DOMAIN fills = 1..Len(fills)
  BY <1>0 DEF Exits, Entries
<1>3. \A k \in 1..Len(fills) : k \in DOMAIN fills' /\ fills'[k] = fills[k]
  BY <1>0, <1>2, AppendFill
<1>4. j \in Entries'
  BY <1>1, <1>2, <1>3 DEF Entries
<1>5. ASSUME NEW k \in Entries', k < i, fills'[k].sig = fills'[i].sig
      PROVE  k <= j
  <2>1. k \in 1..Len(fills)
    BY <1>0, <1>2, <1>5, AppendFill DEF Entries
  <2>2. k \in Entries
    BY <1>2, <1>3, <1>5, <2>1 DEF Entries
  <2> QED
    BY <1>1, <1>2, <1>3, <1>5, <2>1, <2>2
<1>6. ASSUME NEW q \in DOMAIN feed', feed'[q] >= fills'[j].at + Holding
      PROVE  feed'[q] >= fills'[i].at
  <2>1. fills'[i] = fills[i] /\ fills'[j] = fills[j]
    BY <1>2, <1>3
  <2>2. CASE q \in DOMAIN feed
    BY <1>0, <1>1, <1>6, <2>1, <2>2, PrefixKept
  <2>3. CASE q \notin DOMAIN feed
    <3>1. fills[i] \in Fill
      BY <1>0, <1>2
    <3>2. fills[i].at \in Nat
      BY <3>1 DEF Fill
    <3>3. PICK r \in DOMAIN feed : fills[i].at <= feed[r]
      BY <1>0, <1>2 DEF FeedOrdered
    <3>4. feed[r] \in Nat /\ feed'[q] \in Nat /\ feed[r] <= feed'[q]
      BY <1>0, <2>3, NewRow DEF TypeOK
    <3> QED
      BY <2>1, <3>2, <3>3, <3>4
  <2> QED
    BY <2>2, <2>3
<1> QED
  BY <1>1, <1>2, <1>3, <1>4, <1>5, <1>6

LEMMA ExitRuleStep == IInv /\ [Next]_vars => ExitAtFirstQuote'
<1> SUFFICES ASSUME IInv, [Next]_vars, NEW i \in Exits'
             PROVE  \E j \in Entries' :
                      /\ j < i /\ fills'[j].sig = fills'[i].sig
                      /\ \A k \in Entries' : k < i /\ fills'[k].sig = fills'[i].sig => k <= j
                      /\ fills'[i].at >= fills'[j].at + Holding
                      /\ \A q \in DOMAIN feed' :
                            feed'[q] >= fills'[j].at + Holding => feed'[q] >= fills'[i].at
  BY DEF ExitAtFirstQuote
<1>0. TypeOK /\ Deciding /\ fills \in Seq(Fill)
  BY DEF IInv, SafetyInvariant, TypeOK
<1>1. CASE fills' = fills
  <2>1. i \in Exits
    BY <1>1 DEF Exits
  <2>2. [event |-> "hypothetical_exit", sig |-> 0, at |-> 0] \in Fill
    BY DEF Fill
  <2> QED
    BY <1>1, <2>1, <2>2, OldExitsKept
<1>2. CASE ExitPosition
  <2>1. /\ run.open # None /\ run.open.sig \in Nat /\ run.open.due \in Nat
        /\ run.open.entryAt \in Nat /\ Backed(run.open)
    BY <1>0, <1>2, OpenType DEF ExitPosition, ExitQuotes, Deciding
  <2>2. PICK q \in 1..run.upto :
          /\ feed[q] \in Nat /\ feed[q] >= run.open.due /\ feed[q] <= now
          /\ \A r \in DOMAIN feed : feed[r] >= run.open.due => feed[r] >= feed[q]
          /\ fills' = Append(fills, [event |-> "hypothetical_exit",
                                    sig |-> run.open.sig, at |-> feed[q]])
    BY <1>2, ExitFacts
  <2> DEFINE row == [event |-> "hypothetical_exit", sig |-> run.open.sig, at |-> feed[q]]
  <2>3. row \in Fill
    BY <2>1, <2>2 DEF Fill
  <2>4. /\ Len(fills) \in Nat /\ DOMAIN fills = 1..Len(fills)
        /\ DOMAIN fills' = 1..(Len(fills) + 1)
        /\ \A k \in 1..Len(fills) : fills'[k] = fills[k]
        /\ fills'[Len(fills) + 1] = row
    BY <1>0, <2>2, <2>3, AppendFill
  <2>5. CASE i \in DOMAIN fills
    <3>1. i \in Exits
      BY <2>4, <2>5 DEF Exits
    <3> QED
      BY <2>2, <2>3, <3>1, OldExitsKept
  <2>6. CASE i \notin DOMAIN fills
    <3>1. i = Len(fills) + 1 /\ fills'[i].sig = run.open.sig /\ fills'[i].at = feed[q]
      BY <2>4, <2>6 DEF Exits
    <3>2. PICK j \in Entries :
            /\ fills[j].sig = run.open.sig /\ fills[j].at = run.open.entryAt
            /\ \A k \in Entries : fills[k].sig = run.open.sig => k <= j
      BY <2>1 DEF Backed
    <3>3. j \in 1..Len(fills) /\ j \in Entries' /\ fills'[j] = fills[j]
      BY <2>4, <3>2 DEF Entries
    <3>4. ASSUME NEW k \in Entries', k < i, fills'[k].sig = fills'[i].sig
          PROVE  k <= j
      <4>1. k \in 1..Len(fills) /\ k \in Entries
        BY <2>4, <3>1, <3>4 DEF Entries
      <4> QED
        BY <2>4, <3>1, <3>2, <3>4, <4>1
    <3>5. fills'[j].at + Holding = run.open.due
      BY <2>1, <3>2, <3>3 DEF Backed
    <3>6. feed' = feed
      BY <1>2 DEF ExitPosition, env
    <3>7. \A r \in DOMAIN feed' :
             feed'[r] >= fills'[j].at + Holding => feed'[r] >= fills'[i].at
      BY <2>2, <3>1, <3>5, <3>6
    <3>8. j < i /\ fills'[j].sig = fills'[i].sig /\ fills'[i].at >= fills'[j].at + Holding
      BY <2>2, <2>4, <3>1, <3>2, <3>3, <3>5
    <3> QED
      BY <3>3, <3>4, <3>7, <3>8
  <2> QED
    BY <2>5, <2>6
<1>3. ASSUME NEW c \in run.todo, EnterPosition(c)
      PROVE  \E j \in Entries' :
                /\ j < i /\ fills'[j].sig = fills'[i].sig
                /\ \A k \in Entries' : k < i /\ fills'[k].sig = fills'[i].sig => k <= j
                /\ fills'[i].at >= fills'[j].at + Holding
                /\ \A q \in DOMAIN feed' :
                      feed'[q] >= fills'[j].at + Holding => feed'[q] >= fills'[i].at
  <2>1. PICK q \in 1..run.upto :
          /\ feed[q] \in Nat
          /\ fills' = Append(fills, [event |-> "hypothetical_entry", sig |-> c, at |-> feed[q]])
    BY <1>3, EntryFacts
  <2> DEFINE row == [event |-> "hypothetical_entry", sig |-> c, at |-> feed[q]]
  <2>2. row \in Fill
    BY <1>3, <2>1, EntryFacts DEF Fill
  <2>3. i \in Exits
    BY <1>0, <2>1, <2>2, AppendFill DEF Exits
  <2> QED
    BY <2>1, <2>2, <2>3, OldExitsKept
<1> QED
  BY <1>1, <1>2, <1>3, QuietSteps DEF Tick, Quote, ledgers

\* A position stays backed unless its own signal is entered once more.
LEMMA PositionKept ==
    ASSUME IInv, [Next]_vars, NEW p, Backed(p),
           \A c \in run.todo : EnterPosition(c) => c # p.sig
    PROVE  Backed(p)'
<1>0. TypeOK
  BY DEF IInv
<1>1. CASE fills' = fills
  <2>1. [event |-> "hypothetical_exit", sig |-> 0, at |-> 0] \in Fill
    BY DEF Fill
  <2> QED
    BY <1>0, <1>1, <2>1, FillsKept
<1>2. CASE ExitPosition
  <2>1. run.open.sig \in Nat
    BY <1>0, <1>2, OpenType DEF ExitPosition, ExitQuotes
  <2>2. PICK q \in 1..run.upto :
          /\ feed[q] \in Nat
          /\ fills' = Append(fills, [event |-> "hypothetical_exit",
                                    sig |-> run.open.sig, at |-> feed[q]])
    BY <1>2, ExitFacts
  <2> DEFINE row == [event |-> "hypothetical_exit", sig |-> run.open.sig, at |-> feed[q]]
  <2>3. row \in Fill /\ row.event # "hypothetical_entry"
    BY <2>1, <2>2 DEF Fill
  <2> QED
    BY <1>0, <2>2, <2>3, FillsKept
<1>3. ASSUME NEW c \in run.todo, EnterPosition(c)
      PROVE  Backed(p)'
  <2>1. PICK q \in 1..run.upto :
          /\ feed[q] \in Nat
          /\ fills' = Append(fills, [event |-> "hypothetical_entry", sig |-> c, at |-> feed[q]])
    BY <1>3, EntryFacts
  <2> DEFINE row == [event |-> "hypothetical_entry", sig |-> c, at |-> feed[q]]
  <2>2. row \in Fill /\ row.sig # p.sig
    BY <1>3, <2>1, EntryFacts DEF Fill
  <2> QED
    BY <1>0, <2>1, <2>2, FillsKept
<1> QED
  BY <1>1, <1>2, <1>3, QuietSteps DEF Tick, Quote, ledgers

\* A prefix of the feed that could not close a position never will.
LEMMA AwaitsKept ==
    ASSUME TypeOK, [Next]_vars, NEW p, NEW n \in 0..Len(feed), Awaits(p, n)
    PROVE  Awaits(p, n)'
<1>1. \A i \in 1..n : feed'[i] = feed[i]
  <2>1. Len(feed) \in Nat
    BY DEF TypeOK
  <2> QED
    BY <2>1, PrefixKept
<1> QED
  BY <1>1 DEF Awaits

\* What was saved stays right as long as it stays saved: a run enters only
\* bars behind the last processed one, never the saved position's again.
LEMMA SavedKept ==
    ASSUME IInv, [Next]_vars, disk' = disk
    PROVE  SavedState'
<1>0. TypeOK /\ SavedState /\ Deciding
  BY DEF IInv, SafetyInvariant
<1> SUFFICES ASSUME disk # None
             PROVE  SavedState'
  BY DEF SavedState
<1>1. /\ disk \in State /\ disk.cursor \in Nat /\ disk.cursor <= Len(feed)
      /\ Len(feed) \in Nat
  BY <1>0 DEF TypeOK, State, SavedState
<1>2. disk.cursor <= Len(feed') /\ Complete(disk.cursor)' = Complete(disk.cursor)
  <2>1. PICK n \in 0..Len(feed) : n = disk.cursor
    BY <1>1
  <2>2. Complete(n)' = Complete(n) /\ Len(feed) <= Len(feed') /\ Len(feed') \in Nat
    BY <1>0, PrefixKept
  <2> QED
    BY <1>1, <2>1, <2>2 DEF Complete, BarsUpTo
<1>3. ASSUME disk.open # None
      PROVE  Backed(disk.open)' /\ Awaits(disk.open, disk.cursor)'
  <2>1. PICK p : p = disk.open
    OBVIOUS
  <2>2. PICK n \in 0..Len(feed) : n = disk.cursor
    BY <1>1
  <2>3. /\ Backed(p) /\ Awaits(p, n)
        /\ disk.lastBar \in Nat /\ p.sig \in Nat /\ p.sig <= disk.lastBar
    BY <1>0, <1>1, <1>3, <2>1, <2>2, NoneAssumption DEF SavedState, State, Position
  <2>4. ASSUME NEW c \in run.todo, EnterPosition(c)
        PROVE  c # p.sig
    <3>1. c \in Nat /\ pc = "scan"
      BY <2>4, EntryFacts DEF EnterPosition, IsNext
    <3>2. c > disk.lastBar
      BY <1>0, <2>3, <3>1, NoneAssumption DEF Deciding
    <3> QED
      BY <2>3, <3>1, <3>2
  <2>5. Backed(p)'
    BY <2>3, <2>4, PositionKept
  <2>6. Awaits(p, n)'
    BY <1>0, <2>3, AwaitsKept
  <2> QED
    BY <2>1, <2>2, <2>5, <2>6 DEF Backed, Awaits
<1> QED
  BY <1>0, <1>2, <1>3 DEF SavedState

LEMMA SavedStep == IInv /\ [Next]_vars => SavedState'
<1> SUFFICES ASSUME IInv, [Next]_vars
             PROVE  SavedState'
  OBVIOUS
<1>0. TypeOK /\ SavedState /\ RunOnSavedState /\ Deciding
  BY DEF IInv, SafetyInvariant
<1>1. CASE NoNewQuotes
  <2>1. disk' = disk
    BY <1>0, <1>1 DEF NoNewQuotes, RunOnSavedState
  <2> QED
    BY <2>1, SavedKept
<1>2. CASE WarmUp
  <2>1. run.upto \in 0..Len(feed)
    BY <1>0, <1>2, BatchRows DEF WarmUp
  <2>2. disk' = [lastBar |-> LastComplete(run.upto, None), lastSignal |-> None,
                 open |-> None, cursor |-> run.upto] /\ feed' = feed
    BY <1>2 DEF WarmUp, env
  <2>3. LastComplete(run.upto, None) # None => LastComplete(run.upto, None) \in Complete(run.upto)
    BY <1>0, <2>1, LastCompleteIsLast DEF LastComplete
  <2>4. Complete(run.upto) = Complete(disk.cursor)'
    BY <2>2 DEF Complete, BarsUpTo
  <2> QED
    BY <2>1, <2>2, <2>3, <2>4 DEF SavedState
<1>3. CASE SaveState
  <2>1. /\ run.upto \in 0..Len(feed) /\ run.st = disk /\ disk \in State
        /\ disk.cursor \in Nat /\ disk.cursor <= run.upto
    BY <1>0, <1>3, BatchRows DEF SaveState, Deciding, RunOnSavedState, TypeOK, State
  <2> DEFINE last == LastComplete(run.upto, disk.lastBar)
  <2>2. /\ disk' = [lastBar |-> last, lastSignal |-> run.lastSignal,
                    open |-> run.open, cursor |-> run.upto]
        /\ feed' = feed /\ fills' = fills
    BY <1>3, <2>1 DEF SaveState, env, ledgers
  <2>3. Complete(disk.cursor) \subseteq Complete(run.upto)
    <3>1. SUFFICES ASSUME NEW b \in Complete(disk.cursor)
                   PROVE  b \in Complete(run.upto)
      OBVIOUS
    <3>2. disk.cursor > 0 /\ b \in Nat /\ b <= feed[disk.cursor]
      BY <1>0, <2>1, CompleteType DEF SavedState
    <3>3. /\ disk.cursor \in DOMAIN feed /\ run.upto \in DOMAIN feed
          /\ feed[disk.cursor] \in Nat /\ feed[run.upto] \in Nat
      <4>1. feed \in Seq(Nat)
        BY <1>0 DEF TypeOK
      <4>2. disk.cursor \in 1..Len(feed) /\ run.upto \in 1..Len(feed)
        BY <2>1, <3>2
      <4> QED
        BY <4>1, <4>2
    <3>4. feed[disk.cursor] <= feed[run.upto]
      BY <2>1, <3>3 DEF IInv, SafetyInvariant, FeedOrdered
    <3>5. b \in BarsUpTo(run.upto)
      BY <2>1 DEF Complete, BarsUpTo
    <3> QED
      BY <3>2, <3>3, <3>4, <3>5 DEF Complete
  <2>a. disk.lastBar # None => disk.lastBar \in Complete(run.upto)
    <3>1. disk # None
      BY <1>0, <1>3 DEF SaveState, Deciding
    <3> QED
      BY <1>0, <2>3, <3>1 DEF SavedState
  <2>4. last # None => last \in Complete(run.upto)
    <3>1. CASE Complete(run.upto) = {}
      BY <2>a, <3>1 DEF LastComplete
    <3>2. CASE Complete(run.upto) # {}
      BY <1>0, <2>1, <3>2, LastCompleteIsLast
    <3> QED
      BY <3>1, <3>2
  <2>5. Complete(disk.cursor)' = Complete(run.upto)
    BY <2>2 DEF Complete, BarsUpTo
  <2>6. ASSUME run.open # None
        PROVE  /\ Backed(disk.open)' /\ Awaits(disk.open, disk.cursor)'
               /\ last # None /\ run.open.sig <= last
    <3>1. Backed(run.open) /\ Awaits(run.open, run.upto)
      BY <1>0, <1>3, <2>6 DEF Deciding, SaveState
    <3>2. Backed(disk.open)' /\ Awaits(disk.open, disk.cursor)'
      BY <2>2, <3>1 DEF Backed, Awaits, Entries
    <3>3. \E b \in Complete(run.upto) : run.open.sig <= b
      <4>1. CASE run.open = disk.open
        <5>1. disk # None /\ disk.open # None
          BY <1>0, <1>3, <2>6, <4>1 DEF SaveState, Deciding
        <5>2. disk.lastBar # None /\ disk.open.sig <= disk.lastBar
          BY <1>0, <5>1 DEF SavedState
        <5> QED
          BY <2>a, <4>1, <5>2
      <4>2. CASE run.open.sig \in Complete(run.upto)
        BY <1>0, <2>6, <4>2, OpenType
      <4> QED
        BY <1>0, <1>3, <2>6, <4>1, <4>2 DEF Deciding, SaveState
    <3>4. PICK b \in Complete(run.upto) : run.open.sig <= b
      BY <3>3
    <3>5. last \in Nat /\ b <= last /\ b \in Nat /\ run.open.sig \in Nat
      BY <1>0, <2>1, <2>6, LastCompleteIsLast, CompleteType, OpenType
    <3> QED
      BY <3>2, <3>4, <3>5, NoneAssumption
  <2> HIDE DEF last
  <2> QED
    BY <2>1, <2>2, <2>4, <2>5, <2>6 DEF SavedState
<1>4. CASE disk' = disk
  BY <1>4, SavedKept
<1>5. ASSUME NEW c \in run.todo, PassOver(c) \/ Decline(c) \/ EnterPosition(c)
      PROVE  disk' = disk
  BY <1>5 DEF PassOver, Decline, EnterPosition
<1> QED
  BY <1>1, <1>2, <1>3, <1>4, <1>5
     DEF Next, Step, Tick, Quote, Start, NoQuotes, Observe, KeepPosition, ExitPosition,
         RecordEntry, Crash, vars

\* A run that has started keeps the state it loaded and the rows it read.
LEMMA RunKept ==
    ASSUME TypeOK, [Next]_vars, ~Start, pc' # "idle"
    PROVE  /\ pc # "idle" /\ disk' = disk
           /\ run'.st = run.st /\ run'.upto = run.upto
<1>0. run \in Run
  BY DEF TypeOK
<1>1. CASE Tick \/ Quote \/ UNCHANGED vars
  BY <1>1 DEF Tick, Quote, vars
<1>2. CASE Observe \/ KeepPosition \/ ExitPosition \/ RecordEntry
  BY <1>0, <1>2 DEF Observe, KeepPosition, ExitPosition, RecordEntry, RecordSignal, Run
<1>3. CASE \E c \in run.todo : PassOver(c) \/ Decline(c) \/ EnterPosition(c)
  BY <1>0, <1>3 DEF PassOver, Decline, EnterPosition, RecordSignal, IsNext, Run
<1>4. ~(NoQuotes \/ NoNewQuotes \/ WarmUp \/ SaveState \/ Crash)
  BY DEF NoQuotes, NoNewQuotes, WarmUp, SaveState, Crash, Finish
<1> QED
  BY <1>1, <1>2, <1>3, <1>4 DEF Next, Step

LEMMA RunStep == IInv /\ [Next]_vars => RunOnSavedState'
<1> SUFFICES ASSUME IInv, [Next]_vars, pc' # "idle"
             PROVE  RunOnSavedState'
  BY DEF RunOnSavedState
<1>0. TypeOK /\ SavedState /\ RunOnSavedState
  BY DEF IInv, SafetyInvariant
<1>1. CASE Start
  <2>1. run' = [NoRun EXCEPT !.st = disk, !.upto = Len(feed)] /\ disk' = disk /\ feed' = feed
    BY <1>1 DEF Start, env
  <2>2. run'.st = disk /\ run'.upto = Len(feed) /\ Len(feed) \in Nat
    BY <1>0, <2>1 DEF NoRun, TypeOK
  <2> QED
    BY <1>0, <2>1, <2>2 DEF RunOnSavedState, SavedState
<1>2. CASE ~Start
  <2>1. pc # "idle" /\ disk' = disk /\ run'.st = run.st /\ run'.upto = run.upto
    BY <1>0, <1>2, RunKept
  <2>2. /\ Len(feed) <= Len(feed') /\ Len(feed) \in Nat /\ Len(feed') \in Nat
        /\ run.upto \in Nat
    BY <1>0, PrefixKept DEF TypeOK, Run
  <2> QED
    BY <1>0, <2>1, <2>2 DEF RunOnSavedState
<1> QED
  BY <1>1, <1>2

\* A step that appends no fill and leaves the position of the run alone
\* keeps what a deciding run knows.
LEMMA DecidingKept ==
    ASSUME IInv, [Next]_vars, pc # "read", pc # "idle",
           fills' = fills, disk' = disk, run'.upto = run.upto, run'.seenAt = run.seenAt,
           run'.open = run.open, run'.todo \subseteq run.todo,
           pc' = "exit" => pc = "exit",
           pc' = "entered" => run.open # None,
           run.open # None /\ pc' # "exit" => Awaits(run.open, run.upto)
    PROVE  Deciding'
<1>0. TypeOK /\ Deciding /\ RunOnSavedState /\ pc \in {"exit", "scan", "entered"}
  BY DEF IInv, SafetyInvariant, TypeOK
<1>1. PICK n \in 0..Len(feed) : n = run.upto
  BY <1>0, BatchRows
<1>2. /\ Complete(n)' = Complete(n) /\ \A i \in 1..n : feed'[i] = feed[i]
  BY <1>0, PrefixKept DEF TypeOK
<1>3. Complete(run.upto)' = Complete(run.upto)
  BY <1>1, <1>2 DEF Complete, BarsUpTo
<1>4. run.seenAt \in Nat /\ run.seenAt <= now'
  <2>1. now' = now \/ now' = now + 1
    BY QuietSteps DEF Tick, Quote, ExitPosition, EnterPosition, env
  <2> QED
    BY <1>0, <2>1 DEF TypeOK, Deciding, Run
<1>5. ASSUME run.open # None
      PROVE  /\ run'.open = disk'.open \/ run'.open.sig \in Complete(run.upto)'
             /\ Backed(run.open)'
             /\ pc' # "exit" => Awaits(run.open, run.upto)'
  <2>1. PICK p : p = run.open
    OBVIOUS
  <2>2. Backed(p)
    BY <1>0, <1>5, <2>1 DEF Deciding
  <2>3. Backed(p)'
    BY <2>2 DEF Backed, Entries
  <2>4. Backed(run.open)'
    BY <2>1, <2>3 DEF Backed, Entries
  <2>5. ASSUME pc' # "exit"
        PROVE  Awaits(run.open, run.upto)'
    <3>1. Awaits(p, n)
      BY <1>1, <1>5, <2>1, <2>5
    <3>2. Awaits(p, n)'
      BY <1>0, <3>1, AwaitsKept
    <3> QED
      BY <1>1, <2>1, <3>2 DEF Awaits
  <2>6. run.open = disk.open \/ run.open.sig \in Complete(run.upto)
    BY <1>0, <1>5 DEF Deciding
  <2> QED
    BY <1>3, <2>4, <2>5, <2>6
<1>6. \A i \in 1..run'.upto : feed'[i] <= run'.seenAt
  BY <1>0, <1>1, <1>2 DEF Deciding
<1>7. run'.todo \subseteq Complete(run.upto)'
  BY <1>0, <1>3 DEF Deciding
<1>8. disk' # None /\ (disk'.lastBar # None => \A c \in run'.todo : c > disk'.lastBar)
  BY <1>0 DEF Deciding
<1>9. pc' = "exit" => run'.open = disk'.open
  BY <1>0 DEF Deciding
<1> QED
  BY <1>4, <1>5, <1>6, <1>7, <1>8, <1>9 DEF Deciding, Complete, BarsUpTo, Backed, Awaits, Entries

LEMMA DecidingStep == IInv /\ [Next]_vars => Deciding'
<1> SUFFICES ASSUME IInv, [Next]_vars, pc' \in {"exit", "scan", "entered"}
             PROVE  Deciding'
  BY DEF Deciding
<1>0. /\ TypeOK /\ FeedOrdered /\ SavedState /\ RunOnSavedState /\ Deciding
      /\ run \in Run
  BY DEF IInv, SafetyInvariant, TypeOK
<1>1. ~Start /\ ~NoQuotes /\ ~NoNewQuotes /\ ~WarmUp /\ ~SaveState /\ ~Crash
  BY DEF Start, NoQuotes, NoNewQuotes, WarmUp, SaveState, Crash, Finish
<1>2. pc # "idle" /\ disk' = disk /\ run.st = disk
  BY <1>0, <1>1, RunKept DEF RunOnSavedState
<1>a. run.upto \in 0..Len(feed) /\ Batch \subseteq 1..run.upto
  BY <1>0, <1>2, BatchRows
<1>b. \A i \in 1..run.upto : i \in DOMAIN feed /\ feed[i] \in Nat
  BY <1>0, <1>a DEF TypeOK
<1>3. CASE Tick \/ Quote \/ UNCHANGED vars
  <2>1. pc' = pc /\ run' = run /\ fills' = fills
    BY <1>3 DEF Tick, Quote, ledgers, vars
  <2>2. run.open # None /\ pc # "exit" => Awaits(run.open, run.upto)
    BY <1>0, <2>1 DEF Deciding
  <2>3. pc = "entered" => run.open # None
    BY <1>0 DEF Deciding
  <2> QED
    BY <1>2, <2>1, <2>2, <2>3, DecidingKept
<1>4. CASE Observe
  <2>1. /\ pc' = "exit" /\ disk # None /\ feed' = feed /\ fills' = fills /\ now' = now
        /\ run' = [run EXCEPT
                     !.seenAt = now,
                     !.todo = Complete(run.upto) \ Previous,
                     !.wasActive = Previous # {} /\ Max(Previous) \in active,
                     !.lastSignal = run.st.lastSignal,
                     !.open = run.st.open]
    BY <1>2, <1>4 DEF Observe, env, ledgers
  <2>2. /\ run'.seenAt = now /\ run'.upto = run.upto /\ run'.open = disk.open
        /\ run'.todo = Complete(run.upto) \ Previous
    BY <1>0, <1>2, <2>1 DEF Run
  <2>3. ASSUME disk.lastBar # None, NEW c \in run'.todo
        PROVE  c > disk.lastBar
    <3>1. disk \in State
      BY <1>0, <2>1 DEF TypeOK
    <3>2. disk.lastBar \in Nat \union {None}
      BY <3>1 DEF State
    <3>3. c \in Complete(run.upto) /\ ~(c <= disk.lastBar)
      BY <1>2, <2>2, <2>3 DEF Previous
    <3>4. c \in Nat /\ disk.lastBar \in Nat
      BY <1>0, <1>a, <2>3, <3>2, <3>3, CompleteType
    <3> QED
      BY <3>3, <3>4
  <2>4. \A i \in 1..run.upto : feed[i] <= now
    BY <1>0, <1>b DEF FeedOrdered
  <2>5. disk.open # None => Backed(disk.open)'
    <3>1. PICK p : p = disk.open
      OBVIOUS
    <3>2. disk.open # None => Backed(p)
      BY <1>0, <2>1, <3>1 DEF SavedState
    <3>3. Backed(p) => Backed(p)'
      BY <2>1 DEF Backed, Entries
    <3> QED
      BY <1>2, <3>1, <3>2, <3>3 DEF Backed, Entries
  <2>6. Backed(run.open)' <=> Backed(disk.open)'
    BY <1>2, <2>2 DEF Backed, Entries
  <2>7. Complete(run.upto)' = Complete(run.upto)
    BY <2>1, <2>2 DEF Complete, BarsUpTo
  <2>8. now \in Nat
    BY <1>0 DEF TypeOK
  <2> QED
    BY <1>2, <2>1, <2>2, <2>3, <2>4, <2>5, <2>6, <2>7, <2>8 DEF Deciding
<1>5. CASE KeepPosition
  <2>1. pc = "exit" /\ pc' = "scan" /\ fills' = fills /\ run' = run /\ ExitQuotes = {}
    BY <1>5 DEF KeepPosition, ledgers
  <2>2. ASSUME run.open # None
        PROVE  Awaits(run.open, run.upto)
    <3>1. run.open = disk.open /\ disk # None /\ disk \in State
      BY <1>0, <2>1 DEF Deciding, TypeOK
    <3>2. disk.cursor \in Nat /\ Awaits(run.open, disk.cursor)
      BY <1>0, <2>2, <3>1 DEF SavedState, State
    <3>3. run.open.due \in Nat
      BY <1>0, <2>2, OpenType
    <3>4. ASSUME NEW i \in 1..run.upto
          PROVE  feed[i] < run.open.due
      <4>1. CASE i <= disk.cursor
        BY <3>2, <4>1 DEF Awaits
      <4>2. CASE ~(i <= disk.cursor)
        <5>1. i \in Batch
          BY <1>2, <3>1, <3>2, <1>a, <4>2 DEF Batch
        <5>2. ~(feed[i] >= run.open.due)
          BY <2>1, <2>2, <5>1 DEF ExitQuotes
        <5> QED
          BY <1>b, <3>3, <5>2
      <4> QED
        BY <4>1, <4>2
    <3> QED
      BY <3>4 DEF Awaits
  <2> QED
    BY <1>2, <2>1, <2>2, DecidingKept
<1>6. CASE ExitPosition
  <2>1. /\ pc = "exit" /\ pc' = "scan" /\ feed' = feed /\ now' = now
        /\ run' = [run EXCEPT !.open = None, !.freeAt = feed[Min(ExitQuotes)]]
    BY <1>6 DEF ExitPosition, env
  <2>2. /\ run'.open = None /\ run'.upto = run.upto /\ run'.seenAt = run.seenAt
        /\ run'.todo = run.todo
    BY <1>0, <2>1 DEF Run
  <2>3. Complete(run.upto)' = Complete(run.upto)
    BY <2>1, <2>2 DEF Complete, BarsUpTo
  <2> QED
    BY <1>0, <1>2, <2>1, <2>2, <2>3 DEF Deciding
<1>7. ASSUME NEW c \in run.todo, PassOver(c) \/ Decline(c)
      PROVE  Deciding'
  <2>1. pc = "scan" /\ pc' = pc /\ fills' = fills
    BY <1>7 DEF PassOver, Decline, IsNext, ledgers
  <2>2. /\ run'.open = run.open /\ run'.upto = run.upto /\ run'.seenAt = run.seenAt
        /\ run'.todo \subseteq run.todo
    BY <1>0, <1>7 DEF PassOver, Decline, RecordSignal, Run
  <2>3. run.open # None => Awaits(run.open, run.upto)
    BY <1>0, <2>1 DEF Deciding
  <2> QED
    BY <1>2, <2>1, <2>2, <2>3, DecidingKept
<1>8. CASE RecordEntry
  <2>1. pc = "entered" /\ pc' = "scan" /\ fills' = fills
    BY <1>8 DEF RecordEntry
  <2>2. /\ run'.open = run.open /\ run'.upto = run.upto /\ run'.seenAt = run.seenAt
        /\ run'.todo \subseteq run.todo
    BY <1>0, <1>8 DEF RecordEntry, RecordSignal, Run
  <2>3. run.open # None => Awaits(run.open, run.upto)
    BY <1>0, <2>1 DEF Deciding
  <2> QED
    BY <1>2, <2>1, <2>2, <2>3, DecidingKept
<1>9. ASSUME NEW c \in run.todo, EnterPosition(c)
      PROVE  Deciding'
  <2>1. /\ pc = "scan" /\ pc' = "entered" /\ feed' = feed /\ now' = now
        /\ c \in Nat /\ c \in Complete(run.upto)
    BY <1>9, EntryFacts DEF EnterPosition, IsNext, env
  <2>2. PICK q \in 1..run.upto :
          /\ feed[q] \in Nat
          /\ \A i \in 1..run.upto : feed[i] <= feed[q]
          /\ fills' = Append(fills, [event |-> "hypothetical_entry", sig |-> c, at |-> feed[q]])
          /\ run' = [run EXCEPT !.open = [sig |-> c, entryAt |-> feed[q],
                                         due |-> feed[q] + Holding]]
    BY <1>9, EntryFacts
  <2>a. [sig |-> c, entryAt |-> feed[q], due |-> feed[q] + Holding] \in Position
    BY <2>1, <2>2, TimingAssumption DEF Position
  <2>3. PICK p \in Position : p = [sig |-> c, entryAt |-> feed[q], due |-> feed[q] + Holding]
    BY <2>a
  <2>4. /\ run'.open = p /\ run'.upto = run.upto /\ run'.seenAt = run.seenAt
        /\ run'.todo = run.todo
    BY <1>0, <2>2, <2>3 DEF Run
  <2>5. Backed(p)'
    BY <1>0, <2>2, <2>3, EntryIsBacked
  <2>6. Backed(run.open)'
    BY <2>4, <2>5 DEF Backed, Entries
  <2>7. Awaits(run.open, run.upto)'
    BY <1>b, <2>1, <2>2, <2>3, <2>4, TimingAssumption DEF Awaits
  <2>8. p.sig = c /\ p # None /\ Complete(run.upto)' = Complete(run.upto)
    BY <2>1, <2>3, <2>4, NoneAssumption DEF Complete, BarsUpTo
  <2> QED
    BY <1>0, <1>2, <2>1, <2>4, <2>6, <2>7, <2>8 DEF Deciding
<1> QED
  BY <1>1, <1>3, <1>4, <1>5, <1>6, <1>7, <1>8, <1>9 DEF Next, Step

-----------------------------------------------------------------------------
(* The theorems                                                            *)

LEMMA IInvInit == Init => IInv
<1> SUFFICES ASSUME Init
             PROVE  IInv
  OBVIOUS
<1>1. NoRun \in Run
  BY DEF NoRun, Run
<1>2. TypeOK
  BY <1>1 DEF Init, TypeOK
<1>3. SafetyInvariant
  BY <1>2 DEF Init, SafetyInvariant, FeedOrdered, ExitAtFirstQuote, SavedState,
         RunOnSavedState, Deciding, Exits
<1> QED
  BY <1>2, <1>3 DEF IInv

LEMMA IInvStep == IInv /\ [Next]_vars => IInv'
  BY TypeStep, FeedStep, ExitRuleStep, SavedStep, RunStep, DecidingStep
     DEF IInv, SafetyInvariant

\* The variables of the engine, its files and the locals of a run keep their
\* types, for every timing and any number of runs that die.
THEOREM TypeCorrect == Spec => []TypeOK
<1>1. IInv => TypeOK
  BY DEF IInv
<1> QED
  BY IInvInit, IInvStep, <1>1, PTL DEF Spec

\* Ledger, saved state and the locals of a run agree about the position: the
\* saved one is entered in the ledger, waits for its exit quote, and its
\* signal is behind the saved cursor (save at demo_shadow_engine.py:207-216).
THEOREM SafetyInvariantAlways == Spec => []SafetyInvariant
<1>1. IInv => SafetyInvariant
  BY DEF IInv
<1> QED
  BY IInvInit, IInvStep, <1>1, PTL DEF Spec

\* Every exit row closes its entry at the first quote of the whole feed at or
\* after the exit time, however runs cut the feed and wherever they die
\* (demo_shadow_engine.py:100-126).
THEOREM ExitAtFirstQuoteAlways == Spec => []ExitAtFirstQuote
<1>1. IInv => ExitAtFirstQuote
  BY DEF IInv, SafetyInvariant
<1> QED
  BY IInvInit, IInvStep, <1>1, PTL DEF Spec

-----------------------------------------------------------------------------
(* What the signals ledger says: that the frozen timing never has a signal *)
(* ignored, wherever runs die; and, as long as none has died, that a       *)
(* signal is ignored exactly while a trade of the ledger spans it, that    *)
(* the candidates decided are those of one pass over all bars, and that    *)
(* the engine implements the promise of the campaign, ShadowAccount.       *)
(*                                                                         *)
(* The last signal is what ties runs together: it is behind every bar that *)
(* is still to be decided, no earlier than the signal of the position, and *)
(* a position is due a bounded time after it.                              *)

Scanning == pc \in {"exit", "scan", "entered"}

\* A position is due no later than its signal allows.
Timely(p) == p.due <= p.sig + MaxDelay + Holding

\* The last processed bar is the latest complete one, the last signal is no
\* later than it, and no earlier than that of the saved position.
SavedSignal ==
    disk # None =>
        /\ \A b \in Complete(disk.cursor) : disk.lastBar # None /\ b <= disk.lastBar
        /\ disk.lastSignal # None => disk.lastBar # None /\ disk.lastSignal <= disk.lastBar
        /\ disk.open # None =>
              /\ Timely(disk.open)
              /\ disk.lastSignal # None /\ disk.open.sig <= disk.lastSignal

\* What is still to be decided comes after the last signal of the run.
RunSignal ==
    Scanning =>
        /\ run.lastSignal # None =>
              /\ run.lastSignal = disk.lastSignal \/ run.lastSignal \in Complete(run.upto)
              /\ \A c \in run.todo : run.lastSignal < c
        /\ pc = "exit" => run.lastSignal = disk.lastSignal
        /\ pc = "entered" =>
              /\ run.open.sig \in run.todo /\ \A d \in run.todo : run.open.sig <= d
              /\ Cooled(run.open.sig)

\* The position of a run is timely, and its signal is no later than the last.
RunPosition ==
    Scanning /\ run.open # None =>
        /\ Timely(run.open)
        /\ pc # "entered" => run.lastSignal # None /\ run.open.sig <= run.lastSignal

\* A position that this run closed was due a bounded time after the last
\* signal, and no row the run read lies between that time and its exit.
RunExit ==
    /\ pc \in {"read", "exit"} => run.freeAt = None
    /\ Scanning /\ run.freeAt # None =>
          /\ run.lastSignal # None
          /\ \E i \in 1..run.upto : run.freeAt = feed[i]
          /\ \A i \in 1..run.upto :
                feed[i] >= run.lastSignal + MaxDelay + Holding => feed[i] >= run.freeAt

SignalInvariant == SavedSignal /\ RunSignal /\ RunPosition /\ RunExit

-----------------------------------------------------------------------------
(* As long as no run has died                                              *)

\* The position and the last signal that count: those of a run that decides,
\* else the saved ones.
Held == IF Scanning THEN run.open ELSE IF disk = None THEN None ELSE disk.open
Latest == IF Scanning THEN run.lastSignal ELSE IF disk = None THEN None ELSE disk.lastSignal
Entering == IF pc = "entered" THEN {run.open.sig} ELSE {}
Closed == {fills[i].sig : i \in Exits}

\* The ledgers say what the engine holds.
LedgersInStep ==
    crashes = 0 =>
        /\ OpenInLedger = IF Held = None THEN {} ELSE {Held.sig}
        /\ \A d \in Decided : Latest # None /\ d <= Latest
        /\ Traded = (Traded \cap Decided) \union Entering
        /\ Closed \subseteq Traded

\* Exits lie within the rows that were read: by the saved runs, or this one.
ExitsRead ==
    crashes = 0 =>
        \A j \in Exits :
            \/ disk # None /\ \E q \in 1..disk.cursor : fills[j].at <= feed[q]
            \/ pc \in {"scan", "entered"} /\ fills[j].at = run.freeAt

\* The trade a run has closed spans what comes between its signal and exit.
ClosedTrade ==
    crashes = 0 /\ Scanning /\ run.freeAt # None =>
        \E i \in Entries :
            /\ fills[i].sig <= run.lastSignal
            /\ \A j \in Exits : fills[j].sig = fills[i].sig => fills[j].at = run.freeAt

Unspanned == crashes = 0 /\ pc = "entered" => ~Spanned(run.open.sig)

LedgerInvariant ==
    /\ LedgersInStep /\ ExitsRead /\ ClosedTrade /\ Unspanned
    /\ crashes = 0 => IgnoredExactlyWhileOpen
    /\ now <= MaxTime

-----------------------------------------------------------------------------
(* What every step of a run keeps                                          *)

\* A longer prefix of the feed has all the complete bars of a shorter one.
LEMMA CompleteGrows ==
    ASSUME TypeOK, FeedOrdered, NEW m \in 0..Len(feed), NEW n \in 0..Len(feed), m <= n
    PROVE  Complete(m) \subseteq Complete(n)
<1> SUFFICES ASSUME NEW b \in Complete(m)
             PROVE  b \in Complete(n)
  OBVIOUS
<1>1. m > 0 /\ b \in Nat /\ b <= feed[m]
  BY CompleteType
<1>2. feed \in Seq(Nat) /\ m \in 1..Len(feed) /\ n \in 1..Len(feed)
  BY <1>1 DEF TypeOK
<1>3. feed[m] \in Nat /\ feed[n] \in Nat /\ feed[m] <= feed[n]
  BY <1>2 DEF FeedOrdered
<1>4. b \in BarsUpTo(n)
  BY DEF Complete, BarsUpTo
<1> QED
  BY <1>1, <1>3, <1>4 DEF Complete

\* A step into or within the scan leaves the saved state and the rows alone.
LEMMA ScanKept ==
    ASSUME IInv, [Next]_vars, Scanning'
    PROVE  /\ pc # "idle" /\ disk' = disk /\ run.st = disk /\ run \in Run
           /\ run'.upto = run.upto /\ run.upto \in 0..Len(feed)
           /\ Complete(run.upto)' = Complete(run.upto)
           /\ \A i \in 1..run.upto :
                 i \in DOMAIN feed /\ feed[i] \in Nat /\ feed'[i] = feed[i]
           /\ ~(Start \/ NoQuotes \/ NoNewQuotes \/ WarmUp \/ SaveState \/ Crash)
<1>0. TypeOK /\ RunOnSavedState /\ run \in Run
  BY DEF IInv, SafetyInvariant, TypeOK
<1>1. ~(Start \/ NoQuotes \/ NoNewQuotes \/ WarmUp \/ SaveState \/ Crash)
  BY DEF Scanning, Start, NoQuotes, NoNewQuotes, WarmUp, SaveState, Crash, Finish
<1>2. pc # "idle" /\ disk' = disk /\ run'.upto = run.upto
  BY <1>0, <1>1, RunKept DEF Scanning
<1>3. run.upto \in 0..Len(feed)
  BY <1>0, <1>2, BatchRows
<1>4. PICK n \in 0..Len(feed) : n = run.upto
  BY <1>3
<1>5. Complete(n)' = Complete(n) /\ \A i \in 1..n : feed'[i] = feed[i]
  BY <1>0, PrefixKept DEF TypeOK
<1>6. Complete(run.upto)' = Complete(run.upto)
  BY <1>2, <1>4, <1>5 DEF Complete, BarsUpTo
<1>7. \A i \in 1..run.upto : i \in DOMAIN feed /\ feed[i] \in Nat
  BY <1>0, <1>3 DEF TypeOK
<1> QED
  BY <1>0, <1>1, <1>2, <1>3, <1>4, <1>5, <1>6, <1>7 DEF RunOnSavedState

\* Of the steps of the scan, these only move on.
LEMMA ScanSteps ==
    ASSUME IInv, [Next]_vars, Scanning'
    PROVE  \/ /\ Tick \/ Quote \/ KeepPosition \/ UNCHANGED vars
              /\ run' = run /\ fills' = fills /\ signals' = signals /\ Scanning
              /\ KeepPosition \/ pc' = pc
           \/ Observe \/ ExitPosition \/ RecordEntry
           \/ \E c \in run.todo : PassOver(c) \/ Decline(c) \/ EnterPosition(c)
<1>1. ~(Start \/ NoQuotes \/ NoNewQuotes \/ WarmUp \/ SaveState \/ Crash)
  BY ScanKept
<1>2. ASSUME Tick \/ Quote \/ KeepPosition \/ UNCHANGED vars
      PROVE  /\ run' = run /\ fills' = fills /\ signals' = signals /\ Scanning
             /\ KeepPosition \/ pc' = pc
  BY <1>2 DEF Tick, Quote, KeepPosition, vars, ledgers, Scanning
<1> QED
  BY <1>1, <1>2 DEF Next, Step

\* The last signal and the candidates of a run are naturals.
LEMMA SignalTypes ==
    ASSUME TypeOK
    PROVE  /\ run.lastSignal \in Nat \union {None} /\ run.todo \subseteq Nat
           /\ run.freeAt \in Nat \union {None} /\ run.seenAt \in Nat
           /\ run.open \in Position \union {None}
           /\ disk # None => /\ disk.lastSignal \in Nat \union {None}
                             /\ disk.lastBar \in Nat \union {None}
                             /\ disk.open \in Position \union {None} /\ disk.cursor \in Nat
  BY DEF TypeOK, Run, State

-----------------------------------------------------------------------------
(* SignalInvariant is inductive                                            *)

LEMMA SavedSignalStep ==
    ASSUME IInv, SignalInvariant, [Next]_vars
    PROVE  SavedSignal'
<1>0. /\ TypeOK /\ FeedOrdered /\ SavedState /\ RunOnSavedState /\ Deciding
      /\ SavedSignal /\ RunSignal /\ RunPosition
  BY DEF IInv, SafetyInvariant, SignalInvariant
<1>1. ASSUME disk' = disk
      PROVE  SavedSignal'
  <2> SUFFICES ASSUME disk # None
               PROVE  SavedSignal'
    BY <1>1 DEF SavedSignal
  <2>1. PICK n \in 0..Len(feed) : n = disk.cursor
    BY <1>0, SignalTypes DEF SavedState, TypeOK
  <2>2. Complete(n)' = Complete(n)
    BY <1>0, PrefixKept
  <2>3. Complete(disk.cursor)' = Complete(disk.cursor)
    BY <1>1, <2>1, <2>2 DEF Complete, BarsUpTo
  <2> QED
    BY <1>0, <1>1, <2>3 DEF SavedSignal, Timely
<1>2. CASE WarmUp
  <2>1. run.upto \in 0..Len(feed)
    BY <1>0, <1>2, BatchRows DEF WarmUp
  <2>2. /\ disk' = [lastBar |-> LastComplete(run.upto, None), lastSignal |-> None,
                    open |-> None, cursor |-> run.upto]
        /\ feed' = feed
    BY <1>2 DEF WarmUp, env
  <2>3. Complete(disk.cursor)' = Complete(run.upto)
    BY <2>2 DEF Complete, BarsUpTo
  <2>4. ASSUME NEW b \in Complete(run.upto)
        PROVE  LastComplete(run.upto, None) # None /\ b <= LastComplete(run.upto, None)
    BY <1>0, <2>1, LastCompleteIsLast, NoneAssumption
  <2> QED
    BY <2>2, <2>3, <2>4 DEF SavedSignal
<1>3. CASE SaveState
  <2>1. /\ run.st = disk /\ disk # None /\ disk \in State /\ pc = "scan" /\ Scanning
        /\ run.upto \in 0..Len(feed) /\ disk.cursor \in 0..Len(feed) /\ disk.cursor <= run.upto
    BY <1>0, <1>3, BatchRows
       DEF SaveState, Scanning, Deciding, RunOnSavedState, TypeOK, State, SavedState
  <2> DEFINE last == LastComplete(run.upto, disk.lastBar)
  <2>2. /\ disk' = [lastBar |-> last, lastSignal |-> run.lastSignal,
                    open |-> run.open, cursor |-> run.upto]
        /\ feed' = feed
    BY <1>3, <2>1 DEF SaveState, env
  <2>3. Complete(disk.cursor)' = Complete(run.upto)
    BY <2>2 DEF Complete, BarsUpTo
  <2>4. ASSUME NEW b \in Complete(run.upto)
        PROVE  last # None /\ b <= last
    BY <1>0, <2>1, LastCompleteIsLast, NoneAssumption
  <2>5. ASSUME run.lastSignal # None
        PROVE  last # None /\ run.lastSignal <= last
    <3>1. CASE run.lastSignal \in Complete(run.upto)
      BY <2>4, <3>1
    <3>2. CASE run.lastSignal = disk.lastSignal
      <4>1. /\ disk.lastBar # None /\ run.lastSignal <= disk.lastBar
            /\ disk.lastBar \in Complete(disk.cursor)
        BY <1>0, <2>1, <2>5, <3>2 DEF SavedSignal, SavedState
      <4>2. disk.lastBar \in Complete(run.upto)
        BY <1>0, <2>1, <4>1, CompleteGrows
      <4>3. last \in Nat /\ disk.lastBar <= last /\ disk.lastBar \in Nat
        BY <1>0, <2>1, <4>2, CompleteType, LastCompleteIsLast
      <4> QED
        BY <1>0, <2>5, <4>1, <4>3, SignalTypes, NoneAssumption
    <3> QED
      BY <1>0, <2>1, <2>5, <3>1, <3>2 DEF RunSignal
  <2> HIDE DEF last
  <2>6. run.open # None => /\ Timely(run.open)
                           /\ run.lastSignal # None /\ run.open.sig <= run.lastSignal
    BY <1>0, <2>1 DEF RunPosition
  <2> QED
    BY <2>2, <2>3, <2>4, <2>5, <2>6 DEF SavedSignal, Timely
<1>4. CASE NoNewQuotes
  <2>1. disk' = disk
    BY <1>0, <1>4 DEF NoNewQuotes, RunOnSavedState
  <2> QED
    BY <1>1, <2>1
<1>5. ASSUME NEW c \in run.todo, PassOver(c) \/ Decline(c) \/ EnterPosition(c)
      PROVE  disk' = disk
  BY <1>5 DEF PassOver, Decline, EnterPosition
<1>6. ASSUME ~WarmUp, ~SaveState, ~NoNewQuotes
      PROVE  disk' = disk
  BY <1>5, <1>6 DEF Next, Step, Tick, Quote, Start, NoQuotes, Observe, KeepPosition,
                    ExitPosition, RecordEntry, Crash, vars
<1> QED
  BY <1>1, <1>2, <1>3, <1>4, <1>6

\* The turn of a candidate ends: those left come after it.
LEMMA TurnEnds ==
    ASSUME IInv, NEW c \in run.todo, \A d \in run.todo : c <= d
    PROVE  c \in Nat /\ \A d \in run.todo \ {c} : c < d
<1>1. run.todo \subseteq Nat
  BY SignalTypes DEF IInv
<1> QED
  BY <1>1

LEMMA RunSignalStep ==
    ASSUME IInv, SignalInvariant, [Next]_vars
    PROVE  RunSignal'
<1> SUFFICES ASSUME Scanning'
             PROVE  RunSignal'
  BY DEF RunSignal
<1>0. TypeOK /\ Deciding /\ SavedSignal /\ RunSignal
  BY DEF IInv, SafetyInvariant, SignalInvariant
<1>1. /\ disk' = disk /\ run.st = disk /\ run \in Run
      /\ run'.upto = run.upto /\ run.upto \in 0..Len(feed)
      /\ Complete(run.upto)' = Complete(run.upto)
  BY ScanKept
<1>t. /\ run.lastSignal \in Nat \union {None} /\ run.todo \subseteq Nat
      /\ run.open \in Position \union {None}
  BY <1>0, SignalTypes
<1>2. ASSUME run' = run, pc' = pc \/ KeepPosition
      PROVE  RunSignal'
  <2>1. Scanning /\ (pc' = "exit" => pc = "exit") /\ (pc' = "entered" => pc = "entered")
    BY <1>2 DEF KeepPosition, Scanning
  <2> QED
    BY <1>0, <1>1, <1>2, <2>1 DEF RunSignal, Cooled
<1>3. CASE Observe
  <2>1. /\ pc' = "exit" /\ disk # None
        /\ run'.lastSignal = disk.lastSignal
        /\ run'.todo = Complete(run.upto) \ Previous
    BY <1>1, <1>3 DEF Observe, Run
  <2>2. ASSUME disk.lastSignal # None, NEW c \in run'.todo
        PROVE  disk.lastSignal < c
    <3>1. disk.lastBar \in Nat /\ disk.lastSignal \in Nat /\ disk.lastSignal <= disk.lastBar
      BY <1>0, <2>1, <2>2, SignalTypes DEF SavedSignal
    <3>2. c \in Complete(run.upto) /\ ~(c <= disk.lastBar)
      BY <1>1, <2>1, <2>2, <3>1, NoneAssumption DEF Previous
    <3>3. c \in Nat
      BY <1>0, <1>1, <3>2, CompleteType
    <3> QED
      BY <3>1, <3>2, <3>3
  <2> QED
    BY <1>1, <2>1, <2>2 DEF RunSignal
<1>4. CASE ExitPosition
  <2>1. /\ pc = "exit" /\ pc' = "scan"
        /\ run'.lastSignal = run.lastSignal /\ run'.todo = run.todo
    BY <1>1, <1>4 DEF ExitPosition, Run
  <2> QED
    BY <1>0, <1>1, <2>1 DEF RunSignal, Scanning
<1>5. ASSUME NEW c \in run.todo, PassOver(c)
      PROVE  RunSignal'
  <2>1. /\ pc = "scan" /\ pc' = "scan"
        /\ run'.lastSignal = run.lastSignal /\ run'.todo \subseteq run.todo
    BY <1>1, <1>5 DEF PassOver, IsNext, Run
  <2> QED
    BY <1>0, <1>1, <2>1 DEF RunSignal, Scanning
<1>6. ASSUME NEW c \in run.todo, Decline(c)
      PROVE  RunSignal'
  <2>1. /\ pc = "scan" /\ pc' = "scan" /\ \A d \in run.todo : c <= d
        /\ run'.lastSignal = c /\ run'.todo = run.todo \ {c}
    BY <1>1, <1>6 DEF Decline, RecordSignal, IsNext, Run
  <2>2. c \in Complete(run.upto)
    BY <1>0, <2>1 DEF Deciding
  <2>3. \A d \in run.todo \ {c} : c < d
    BY <2>1, TurnEnds
  <2> QED
    BY <1>1, <2>1, <2>2, <2>3 DEF RunSignal
<1>7. ASSUME NEW c \in run.todo, EnterPosition(c)
      PROVE  RunSignal'
  <2>1. /\ pc = "scan" /\ pc' = "entered" /\ \A d \in run.todo : c <= d /\ Cooled(c)
    BY <1>7 DEF EnterPosition, IsNext
  <2>2. /\ run'.open.sig = c
        /\ run'.lastSignal = run.lastSignal /\ run'.todo = run.todo
    BY <1>1, <1>7 DEF EnterPosition, Run
  <2>3. Cooled(run.open.sig)'
    BY <2>1, <2>2 DEF Cooled
  <2> QED
    BY <1>0, <1>1, <2>1, <2>2, <2>3 DEF RunSignal, Scanning
<1>8. CASE RecordEntry
  <2> DEFINE c == run.open.sig
  <2>1. /\ pc = "entered" /\ pc' = "scan" /\ c \in run.todo /\ \A d \in run.todo : c <= d
        /\ run'.lastSignal = c /\ run'.todo = run.todo \ {c}
    BY <1>0, <1>1, <1>8 DEF RecordEntry, RecordSignal, RunSignal, Scanning, Run
  <2> HIDE DEF c
  <2>2. c \in Complete(run.upto)
    BY <1>0, <2>1 DEF Deciding
  <2>3. \A d \in run.todo \ {c} : c < d
    BY <2>1, TurnEnds
  <2> QED
    BY <1>1, <2>1, <2>2, <2>3 DEF RunSignal
<1> QED
  BY <1>2, <1>3, <1>4, <1>5, <1>6, <1>7, <1>8, ScanSteps

\* An entry is taken no later than the delay allows.
LEMMA EntryIsTimely ==
    ASSUME IInv, NEW c \in run.todo, EnterPosition(c)
    PROVE  /\ run.open = None /\ run'.open # None
           /\ run'.open.sig = c /\ run'.open.due <= c + MaxDelay + Holding
<1>0. TypeOK /\ Deciding /\ pc = "scan" /\ run \in Run
  BY DEF IInv, SafetyInvariant, EnterPosition, IsNext, TypeOK
<1>1. PICK q \in 1..run.upto :
        /\ feed[q] \in Nat
        /\ run' = [run EXCEPT !.open = [sig |-> c, entryAt |-> feed[q],
                                       due |-> feed[q] + Holding]]
  BY EntryFacts
<1>2. run.open = None /\ c \in Nat /\ run.seenAt \in Nat /\ ~Late(c)
  BY <1>0, EntryFacts, SignalTypes DEF EnterPosition, Disposition, LiveEntry
<1>3. feed[q] <= run.seenAt /\ run.seenAt - c <= MaxDelay
  BY <1>0, <1>2, TimingAssumption DEF Deciding, Late
<1>4. run'.open = [sig |-> c, entryAt |-> feed[q], due |-> feed[q] + Holding]
  BY <1>0, <1>1 DEF Run
<1>5. run'.open \in Position
  BY <1>1, <1>2, <1>4, TimingAssumption DEF Position
<1>6. run'.open.due = feed[q] + Holding /\ run'.open.sig = c
  BY <1>4
<1>7. feed[q] + Holding <= c + MaxDelay + Holding
  BY <1>1, <1>2, <1>3, TimingAssumption
<1> QED
  BY <1>2, <1>5, <1>6, <1>7, NoneAssumption

LEMMA RunPositionStep ==
    ASSUME IInv, SignalInvariant, [Next]_vars
    PROVE  RunPosition'
<1> SUFFICES ASSUME Scanning', run'.open # None
             PROVE  /\ Timely(run'.open)
                    /\ pc' # "entered" =>
                         run'.lastSignal # None /\ run'.open.sig <= run'.lastSignal
  BY DEF RunPosition, Timely
<1>0. TypeOK /\ SavedSignal /\ RunSignal /\ RunPosition /\ Deciding
  BY DEF IInv, SafetyInvariant, SignalInvariant
<1>1. disk' = disk /\ run.st = disk /\ run \in Run
  BY ScanKept
<1>t. /\ run.lastSignal \in Nat \union {None} /\ run.todo \subseteq Nat
      /\ run.open # None => run.open.sig \in Nat
  BY <1>0, SignalTypes, OpenType
<1>2. ASSUME run' = run, pc' = pc \/ KeepPosition
      PROVE  /\ Timely(run'.open)
             /\ pc' # "entered" =>
                  run'.lastSignal # None /\ run'.open.sig <= run'.lastSignal
  <2>1. Scanning /\ (pc' # "entered" => pc # "entered")
    BY <1>2 DEF KeepPosition, Scanning
  <2> QED
    BY <1>0, <1>2, <2>1 DEF RunPosition
<1>3. CASE Observe
  <2>1. disk # None /\ run'.open = disk.open /\ run'.lastSignal = disk.lastSignal
    BY <1>1, <1>3 DEF Observe, Run
  <2> QED
    BY <1>0, <2>1 DEF SavedSignal
<1>4. CASE ExitPosition
  <2>1. run'.open = None
    BY <1>1, <1>4 DEF ExitPosition, Run
  <2> QED
    BY <2>1
<1>5. ASSUME NEW c \in run.todo, PassOver(c)
      PROVE  /\ Timely(run'.open)
             /\ run'.lastSignal # None /\ run'.open.sig <= run'.lastSignal
  <2>1. pc = "scan" /\ run'.open = run.open /\ run'.lastSignal = run.lastSignal
    BY <1>1, <1>5 DEF PassOver, IsNext, Run
  <2> QED
    BY <1>0, <2>1 DEF RunPosition, Scanning
<1>6. ASSUME NEW c \in run.todo, Decline(c)
      PROVE  /\ Timely(run'.open)
             /\ run'.lastSignal # None /\ run'.open.sig <= run'.lastSignal
  <2>1. pc = "scan" /\ run'.open = run.open /\ run'.lastSignal = c /\ c \in Nat
    BY <1>1, <1>t, <1>6 DEF Decline, RecordSignal, IsNext, Run
  <2>2. Timely(run.open) /\ run.lastSignal # None /\ run.open.sig <= run.lastSignal
    BY <1>0, <2>1 DEF RunPosition, Scanning
  <2>3. run.lastSignal < c
    BY <1>0, <2>1, <2>2 DEF RunSignal, Scanning
  <2> QED
    BY <1>t, <2>1, <2>2, <2>3, NoneAssumption
<1>7. ASSUME NEW c \in run.todo, EnterPosition(c)
      PROVE  Timely(run'.open) /\ pc' = "entered"
  <2>1. run'.open.sig = c /\ run'.open.due <= c + MaxDelay + Holding
    BY <1>7, EntryIsTimely
  <2> QED
    BY <1>7, <2>1 DEF EnterPosition, Timely
<1>8. CASE RecordEntry
  <2>1. pc = "entered" /\ run'.open = run.open /\ run'.lastSignal = run.open.sig
    BY <1>1, <1>8 DEF RecordEntry, RecordSignal, Run
  <2> QED
    BY <1>0, <1>t, <2>1, NoneAssumption DEF RunPosition, Scanning
<1> QED
  BY <1>2, <1>3, <1>4, <1>5, <1>6, <1>7, <1>8, ScanSteps

\* Before the exit step no position was closed.
LEMMA NotYetClosed ==
    ASSUME IInv, SignalInvariant, [Next]_vars, pc' \in {"read", "exit"}
    PROVE  run'.freeAt = None
<1>0. RunExit /\ run \in Run
  BY DEF IInv, SignalInvariant, TypeOK
<1>1. CASE Start
  BY <1>1 DEF Start, NoRun
<1>2. CASE Tick \/ Quote \/ UNCHANGED vars
  BY <1>0, <1>2 DEF Tick, Quote, vars, RunExit
<1>3. CASE Observe
  BY <1>0, <1>3 DEF Observe, RunExit, Run
<1>4. ASSUME NEW c \in run.todo, PassOver(c) \/ Decline(c) \/ EnterPosition(c)
      PROVE  FALSE
  BY <1>4 DEF PassOver, Decline, EnterPosition, IsNext
<1> QED
  BY <1>1, <1>2, <1>3, <1>4
     DEF Next, Step, NoQuotes, NoNewQuotes, WarmUp, KeepPosition, ExitPosition, RecordEntry,
         SaveState, Crash, Finish

LEMMA RunExitStep ==
    ASSUME IInv, SignalInvariant, [Next]_vars
    PROVE  RunExit'
<1> SUFFICES ASSUME Scanning', run'.freeAt # None
             PROVE  /\ run'.lastSignal # None
                    /\ \E i \in 1..run'.upto : run'.freeAt = feed'[i]
                    /\ \A i \in 1..run'.upto :
                          feed'[i] >= run'.lastSignal + MaxDelay + Holding
                            => feed'[i] >= run'.freeAt
  BY NotYetClosed DEF RunExit
<1>0. TypeOK /\ RunSignal /\ RunPosition /\ RunExit
  BY DEF IInv, SignalInvariant
<1>1. /\ run \in Run /\ run'.upto = run.upto
      /\ \A i \in 1..run.upto : i \in DOMAIN feed /\ feed[i] \in Nat /\ feed'[i] = feed[i]
  BY ScanKept
<1>t. /\ run.lastSignal \in Nat \union {None} /\ run.freeAt \in Nat \union {None}
      /\ run.todo \subseteq Nat /\ MaxDelay \in Nat /\ Holding \in Nat /\ Cooldown \in Nat
  BY <1>0, SignalTypes, TimingAssumption
\* The last signal only grows, and the exit stays.
<1>2. ASSUME Scanning, run'.freeAt = run.freeAt, run'.lastSignal \in Nat \union {None},
             run.lastSignal # None =>
                run'.lastSignal # None /\ run'.lastSignal >= run.lastSignal
      PROVE  /\ run'.lastSignal # None
             /\ \E i \in 1..run'.upto : run'.freeAt = feed'[i]
             /\ \A i \in 1..run'.upto :
                   feed'[i] >= run'.lastSignal + MaxDelay + Holding
                     => feed'[i] >= run'.freeAt
  <2>1. /\ run.lastSignal # None
        /\ \E i \in 1..run.upto : run.freeAt = feed[i]
        /\ \A i \in 1..run.upto :
              feed[i] >= run.lastSignal + MaxDelay + Holding => feed[i] >= run.freeAt
    BY <1>0, <1>2 DEF RunExit
  <2>2. /\ run.lastSignal \in Nat /\ run'.lastSignal \in Nat
        /\ run'.lastSignal >= run.lastSignal
    BY <1>t, <1>2, <2>1
  <2>3. ASSUME NEW i \in 1..run.upto, feed[i] >= run'.lastSignal + MaxDelay + Holding
        PROVE  feed[i] >= run.lastSignal + MaxDelay + Holding
    BY <1>1, <1>t, <2>2, <2>3
  <2> QED
    BY <1>1, <1>2, <2>1, <2>2, <2>3, NoneAssumption
<1>3. ASSUME run' = run, Scanning
      PROVE  run'.lastSignal \in Nat \union {None} /\ run'.freeAt = run.freeAt
             /\ (run.lastSignal # None =>
                   run'.lastSignal # None /\ run'.lastSignal >= run.lastSignal)
  BY <1>t, <1>3
<1>4. ~Observe
  BY NotYetClosed DEF Observe
<1>5. CASE ExitPosition
  <2>1. pc = "exit" /\ Scanning /\ run.open # None
    BY <1>5 DEF ExitPosition, ExitQuotes, Scanning
  <2>2. PICK q \in 1..run.upto :
          /\ feed[q] \in Nat
          /\ \A i \in DOMAIN feed : feed[i] >= run.open.due => feed[i] >= feed[q]
          /\ run' = [run EXCEPT !.open = None, !.freeAt = feed[q]]
    BY <1>5, ExitFacts
  <2>3. run'.freeAt = feed[q] /\ run'.lastSignal = run.lastSignal
    BY <1>1, <2>2 DEF Run
  <2>4. /\ run.lastSignal # None /\ run.open.sig <= run.lastSignal
        /\ run.open.due <= run.open.sig + MaxDelay + Holding
    BY <1>0, <2>1 DEF RunPosition, Timely
  <2>5. /\ run.open.sig \in Nat /\ run.open.due \in Nat /\ run.lastSignal \in Nat
    BY <1>0, <1>t, <2>1, <2>4, OpenType
  <2>6. run.open.due <= run.lastSignal + MaxDelay + Holding
    BY <1>t, <2>4, <2>5
  <2>7. ASSUME NEW i \in 1..run.upto, feed[i] >= run.lastSignal + MaxDelay + Holding
        PROVE  feed[i] >= feed[q]
    BY <1>1, <1>t, <2>2, <2>5, <2>6, <2>7
  <2> QED
    BY <1>1, <2>2, <2>3, <2>4, <2>7
<1>6. ASSUME NEW c \in run.todo, PassOver(c) \/ EnterPosition(c)
      PROVE  Scanning /\ run'.lastSignal = run.lastSignal /\ run'.freeAt = run.freeAt
  BY <1>1, <1>6 DEF PassOver, EnterPosition, IsNext, Scanning, Run
<1>7. ASSUME NEW c \in run.todo, Decline(c)
      PROVE  /\ Scanning /\ run'.freeAt = run.freeAt /\ run'.lastSignal = c /\ c \in Nat
             /\ run.lastSignal # None => run.lastSignal <= c
  <2>1. pc = "scan" /\ run'.freeAt = run.freeAt /\ run'.lastSignal = c /\ c \in Nat
    BY <1>1, <1>t, <1>7 DEF Decline, RecordSignal, IsNext, Run
  <2>2. run.lastSignal # None => run.lastSignal < c
    BY <1>0, <2>1 DEF RunSignal, Scanning
  <2> QED
    BY <1>t, <2>1, <2>2 DEF Scanning
<1>8. ASSUME RecordEntry
      PROVE  /\ Scanning /\ run'.freeAt = run.freeAt
             /\ run'.lastSignal = run.open.sig /\ run.open.sig \in Nat
             /\ run.lastSignal # None => run.lastSignal <= run.open.sig
  <2>1. /\ pc = "entered" /\ run'.freeAt = run.freeAt /\ run'.lastSignal = run.open.sig
        /\ run.open.sig \in run.todo
    BY <1>0, <1>1, <1>8 DEF RecordEntry, RecordSignal, RunSignal, Scanning, Run
  <2>2. run.lastSignal # None => run.lastSignal < run.open.sig
    BY <1>0, <2>1 DEF RunSignal, Scanning
  <2> QED
    BY <1>t, <2>1, <2>2 DEF Scanning
<1>9. CASE \E c \in run.todo : PassOver(c) \/ EnterPosition(c)
  BY <1>2, <1>6, <1>9, <1>t
<1>10. CASE RecordEntry \/ \E c \in run.todo : Decline(c)
  BY <1>2, <1>7, <1>8, <1>10, NoneAssumption
<1> QED
  BY <1>2, <1>3, <1>4, <1>5, <1>9, <1>10, ScanSteps

LEMMA SignalInit == Init => SignalInvariant
  BY DEF Init, SignalInvariant, SavedSignal, RunSignal, RunPosition, RunExit, Scanning

LEMMA SignalStep == IInv /\ SignalInvariant /\ [Next]_vars => SignalInvariant'
  BY SavedSignalStep, RunSignalStep, RunPositionStep, RunExitStep DEF SignalInvariant

-----------------------------------------------------------------------------
(* No signal is ever ignored under the frozen timing                       *)

\* A bar is complete only with a row in it, less than a bar before its time.
LEMMA RowOfBar ==
    ASSUME TypeOK, NEW n \in 0..Len(feed), NEW c \in Complete(n)
    PROVE  \E i \in 1..n : feed[i] \in Nat /\ c = BarOf(feed[i]) /\ c \in Nat
                           /\ feed[i] < c /\ feed[i] >= c - BarLen
<1>1. PICK i \in 1..n : c = BarOf(feed[i])
  BY DEF Complete, BarsUpTo
<1>2. feed[i] \in Nat
  BY DEF TypeOK
<1>3. BarOf(feed[i]) \in Nat /\ BarOf(feed[i]) > feed[i]
  BY <1>2, BarOfType
<1>4. feed[i] >= BarOf(feed[i]) - BarLen
  <2>1. feed[i] % BarLen \in Nat /\ BarLen \in Nat
    BY <1>2, TimingAssumption
  <2> QED
    BY <1>2, <2>1 DEF BarOf
<1> QED
  BY <1>1, <1>2, <1>3, <1>4

\* A cooldown after the last signal the position it may have left is closed,
\* and the exit lies behind.
LEMMA CooledIsFree ==
    ASSUME IInv, SignalInvariant, FrozenTiming, NEW c \in run.todo, IsNext(c), Cooled(c)
    PROVE  ~Occupied(c)
<1>0. /\ TypeOK /\ Deciding /\ RunOnSavedState /\ RunPosition /\ RunExit
      /\ pc = "scan" /\ Scanning /\ c \in Complete(run.upto)
  BY DEF IInv, SafetyInvariant, SignalInvariant, IsNext, Scanning, Deciding
<1>1. run.upto \in 0..Len(feed)
  BY <1>0, BatchRows
<1>2. PICK i \in 1..run.upto : /\ feed[i] \in Nat /\ c \in Nat
                               /\ feed[i] < c /\ feed[i] >= c - BarLen
  BY <1>0, <1>1, RowOfBar
<1>t. /\ run.lastSignal \in Nat \union {None} /\ run.freeAt \in Nat \union {None}
      /\ MaxDelay \in Nat /\ Holding \in Nat /\ Cooldown \in Nat /\ BarLen \in Nat
  BY <1>0, SignalTypes, TimingAssumption
<1>3. ASSUME run.lastSignal # None
      PROVE  /\ run.lastSignal \in Nat
             /\ feed[i] >= run.lastSignal + MaxDelay + Holding
  <2>1. run.lastSignal \in Nat /\ c - run.lastSignal >= Cooldown
    BY <1>t, <1>3 DEF Cooled
  <2> QED
    BY <1>2, <1>t, <2>1 DEF FrozenTiming
<1>4. run.open = None
  <2> SUFFICES ASSUME run.open # None
               PROVE  FALSE
    OBVIOUS
  <2>1. /\ run.lastSignal # None /\ run.open.sig <= run.lastSignal
        /\ run.open.due <= run.open.sig + MaxDelay + Holding
    BY <1>0 DEF RunPosition, Timely
  <2>2. feed[i] < run.open.due
    BY <1>0 DEF Deciding, Awaits
  <2>3. run.open.sig \in Nat /\ run.open.due \in Nat
    BY <1>0, OpenType
  <2> QED
    BY <1>2, <1>3, <1>t, <2>1, <2>2, <2>3
<1>5. ASSUME run.freeAt # None
      PROVE  ~(c < run.freeAt)
  <2>1. run.lastSignal # None /\ feed[i] >= run.freeAt
    BY <1>0, <1>3, <1>5 DEF RunExit
  <2> QED
    BY <1>2, <1>t, <1>5, <2>1
<1> QED
  BY <1>4, <1>5 DEF Occupied

\* Rows of the signals ledger change only by one more row.
LEMMA SignalRows ==
    ASSUME [Next]_vars
    PROVE  \/ signals' = signals
           \/ RecordEntry /\ signals' = Append(signals, [sig |-> run.open.sig,
                                              disposition |-> "hypothetical_entry"])
           \/ \E c \in run.todo : /\ Decline(c)
                                  /\ signals' = Append(signals, [sig |-> c,
                                                      disposition |-> Disposition(c)])
<1>1. ASSUME NEW c \in run.todo, PassOver(c) \/ EnterPosition(c)
      PROVE  signals' = signals
  BY <1>1 DEF PassOver, EnterPosition, ledgers
<1> QED
  BY <1>1 DEF Next, Step, Tick, Quote, Start, NoQuotes, NoNewQuotes, WarmUp, Observe,
              KeepPosition, ExitPosition, RecordEntry, Decline, RecordSignal, SaveState,
              Crash, vars, ledgers

LEMMA NeverIgnoredStep ==
    ASSUME IInv, SignalInvariant, NeverIgnored, [Next]_vars
    PROVE  NeverIgnored'
<1> SUFFICES ASSUME FrozenTiming, NEW i \in DOMAIN signals'
             PROVE  signals'[i].disposition # "ignored_open_position"
  BY DEF NeverIgnored, FrozenTiming
<1>0. signals \in Seq(Signal)
  BY DEF IInv, TypeOK
<1>1. \A k \in DOMAIN signals : signals[k].disposition # "ignored_open_position"
  BY DEF NeverIgnored
<1>2. ASSUME NEW c \in run.todo, Decline(c)
      PROVE  Disposition(c) # "ignored_open_position"
  <2>1. ~Occupied(c)
    BY <1>2, CooledIsFree DEF Decline
  <2> QED
    BY <2>1 DEF Disposition
<1>3. ASSUME NEW row, signals' = Append(signals, row), row.disposition # "ignored_open_position"
      PROVE  signals'[i].disposition # "ignored_open_position"
  <2>1. i \in DOMAIN signals \/ i = Len(signals) + 1
    BY <1>0, <1>3
  <2>2. i \in DOMAIN signals => signals'[i] = signals[i]
    BY <1>0, <1>3
  <2>3. i = Len(signals) + 1 => signals'[i] = row
    BY <1>0, <1>3
  <2> QED
    BY <1>1, <1>3, <2>1, <2>2, <2>3
<1>4. CASE signals' = signals
  BY <1>1, <1>4
<1> QED
  BY <1>2, <1>3, <1>4, SignalRows

\* Under the frozen timing no row of signals.jsonl says that a position was in
\* the way, however late its exit quote came and wherever runs died: the
\* disposition assigned at demo_shadow_engine.py:143 is out of reach.
THEOREM NeverIgnoredAlways == Spec => []NeverIgnored
<1>1. Init => IInv /\ SignalInvariant /\ NeverIgnored
  <2>1. Init => NeverIgnored
    BY DEF Init, NeverIgnored
  <2> QED
    BY <2>1, IInvInit, SignalInit
<1>2. (IInv /\ SignalInvariant /\ NeverIgnored) /\ [Next]_vars
        => (IInv /\ SignalInvariant /\ NeverIgnored)'
  BY IInvStep, SignalStep, NeverIgnoredStep
<1> QED
  BY <1>1, <1>2, PTL DEF Spec

-----------------------------------------------------------------------------
(* The ledgers as long as no run has died                                  *)

\* The types of what the ledgers hold.
LEMMA LedgerTypes ==
    ASSUME TypeOK
    PROVE  /\ Traded \subseteq Nat /\ Closed \subseteq Nat /\ Decided \subseteq Nat
           /\ OpenInLedger = Traded \ Closed
           /\ Entries \subseteq DOMAIN fills /\ Exits \subseteq DOMAIN fills
           /\ \A i \in DOMAIN fills : fills[i].sig \in Nat /\ fills[i].at \in Nat
<1>1. fills \in Seq(Fill) /\ signals \in Seq(Signal)
  BY DEF TypeOK
<1>2. \A i \in DOMAIN fills : fills[i] \in Fill
  BY <1>1
<1>3. \A i \in DOMAIN fills : fills[i].sig \in Nat /\ fills[i].at \in Nat
  BY <1>2 DEF Fill
<1>4. \A i \in DOMAIN signals : signals[i] \in Signal
  BY <1>1
<1>5. \A i \in DOMAIN signals : signals[i].sig \in Nat
  BY <1>4 DEF Signal
<1> QED
  BY <1>3, <1>5 DEF Traded, Closed, Decided, Entries, Exits, OpenInLedger

\* A row that joins the fills, by its event.
LEMMA FillSets ==
    ASSUME fills \in Seq(Fill), NEW row \in Fill, fills' = Append(fills, row)
    PROVE  /\ row.event = "hypothetical_entry" =>
                 /\ Entries' = Entries \union {Len(fills) + 1} /\ Exits' = Exits
                 /\ Traded' = Traded \union {row.sig} /\ Closed' = Closed
           /\ row.event = "hypothetical_exit" =>
                 /\ Exits' = Exits \union {Len(fills) + 1} /\ Entries' = Entries
                 /\ Closed' = Closed \union {row.sig} /\ Traded' = Traded
           /\ \A i \in Entries \union Exits : fills'[i] = fills[i]
           /\ fills'[Len(fills) + 1] = row
<1>1. /\ Len(fills) \in Nat
      /\ DOMAIN fills = 1..Len(fills) /\ DOMAIN fills' = 1..(Len(fills) + 1)
      /\ \A i \in 1..Len(fills) : fills'[i] = fills[i]
      /\ fills'[Len(fills) + 1] = row
  BY AppendFill
<1>2. \A i \in Entries \union Exits : fills'[i] = fills[i]
  BY <1>1 DEF Entries, Exits
<1>3. ASSUME row.event = "hypothetical_entry"
      PROVE  /\ Entries' = Entries \union {Len(fills) + 1} /\ Exits' = Exits
             /\ Traded' = Traded \union {row.sig} /\ Closed' = Closed
  <2>1. Entries' = Entries \union {Len(fills) + 1} /\ Exits' = Exits
    BY <1>1, <1>3 DEF Entries, Exits
  <2>2. Traded' = Traded \union {row.sig}
    BY <1>1, <1>2, <2>1 DEF Traded
  <2>3. Closed' = Closed
    BY <1>2, <2>1 DEF Closed
  <2> QED
    BY <2>1, <2>2, <2>3
<1>4. ASSUME row.event = "hypothetical_exit"
      PROVE  /\ Exits' = Exits \union {Len(fills) + 1} /\ Entries' = Entries
             /\ Closed' = Closed \union {row.sig} /\ Traded' = Traded
  <2>1. Exits' = Exits \union {Len(fills) + 1} /\ Entries' = Entries
    BY <1>1, <1>4 DEF Entries, Exits
  <2>2. Closed' = Closed \union {row.sig}
    BY <1>1, <1>2, <2>1 DEF Closed
  <2>3. Traded' = Traded
    BY <1>2, <2>1 DEF Traded
  <2> QED
    BY <2>1, <2>2, <2>3
<1> QED
  BY <1>1, <1>2, <1>3, <1>4

\* A row that joins the signals.
LEMMA SignalSets ==
    ASSUME signals \in Seq(Signal), NEW c, NEW d,
           signals' = Append(signals, [sig |-> c, disposition |-> d])
    PROVE  /\ Decided' = Decided \union {c}
           /\ \A i \in DOMAIN signals : signals'[i] = signals[i]
           /\ DOMAIN signals' = DOMAIN signals \union {Len(signals) + 1}
           /\ signals'[Len(signals) + 1] = [sig |-> c, disposition |-> d]
<1>1. /\ DOMAIN signals = 1..Len(signals) /\ DOMAIN signals' = 1..(Len(signals) + 1)
      /\ Len(signals) \in Nat
      /\ \A i \in 1..Len(signals) : signals'[i] = signals[i]
      /\ signals'[Len(signals) + 1] = [sig |-> c, disposition |-> d]
  OBVIOUS
<1>2. DOMAIN signals' = DOMAIN signals \union {Len(signals) + 1}
  BY <1>1
<1>3. Decided' = Decided \union {c}
  BY <1>1, <1>2 DEF Decided
<1> QED
  BY <1>1, <1>2, <1>3

\* The steps that neither write a row nor move the position or the last
\* signal: a run starts, observes and saves what it has.
Moving == /\ fills' = fills /\ signals' = signals
          /\ Held' = Held /\ Latest' = Latest /\ Entering' = Entering

\* What a step does to the ledgers and to what the engine holds.
LEMMA LedgerMoves ==
    ASSUME IInv, SignalInvariant, [Next]_vars, ~Crash
    PROVE  \/ Moving
           \/ /\ ExitPosition /\ Held # None /\ Held = run.open /\ signals' = signals
              /\ Held' = None /\ Latest' = Latest /\ Entering = {} /\ Entering' = {}
           \/ \E c \in run.todo :
                 /\ EnterPosition(c) /\ Held = None /\ signals' = signals
                 /\ Held' # None /\ Held'.sig = c /\ Latest' = Latest
                 /\ Entering = {} /\ Entering' = {c}
                 /\ Latest # None => Latest < c
           \/ \E c \in run.todo :
                 /\ \/ RecordEntry /\ c = run.open.sig /\ Entering = {c}
                    \/ Decline(c) /\ Entering = {}
                 /\ \E d : signals' = Append(signals, [sig |-> c, disposition |-> d])
                 /\ fills' = fills /\ Held' = Held /\ Latest' = c /\ Entering' = {}
                 /\ Latest # None => Latest < c
<1>0. /\ TypeOK /\ RunOnSavedState /\ Deciding /\ RunSignal /\ run \in Run
      /\ pc \in {"idle", "read", "exit", "scan", "entered"}
  BY DEF IInv, SafetyInvariant, SignalInvariant, TypeOK
<1>1. ASSUME Tick \/ Quote \/ UNCHANGED vars
      PROVE  Moving
  BY <1>1 DEF Tick, Quote, vars, ledgers, Moving, Held, Latest, Entering, Scanning
<1>2. ASSUME Start \/ NoQuotes \/ NoNewQuotes \/ WarmUp
      PROVE  Moving
  <2>1. pc \in {"idle", "read"} /\ pc' \in {"idle", "read"}
    BY <1>2 DEF Start, NoQuotes, NoNewQuotes, WarmUp, Finish
  <2>2. pc = "read" => run.st = disk
    BY <1>0 DEF RunOnSavedState
  <2>3. fills' = fills /\ signals' = signals
    BY <1>2 DEF Start, NoQuotes, NoNewQuotes, WarmUp, ledgers
  <2>4. \/ disk' = disk
        \/ disk = None /\ disk'.open = None /\ disk'.lastSignal = None
    <3>1. CASE WarmUp
      <4>1. /\ pc = "read" /\ run.st = None
            /\ disk' = [lastBar |-> LastComplete(run.upto, None), lastSignal |-> None,
                        open |-> None, cursor |-> run.upto]
        BY <3>1 DEF WarmUp
      <4> QED
        BY <2>2, <4>1
    <3> QED
      BY <1>2, <2>2, <3>1 DEF Start, NoQuotes, NoNewQuotes
  <2> QED
    BY <2>1, <2>3, <2>4 DEF Moving, Held, Latest, Entering, Scanning
<1>3. ASSUME Observe
      PROVE  Moving
  <2>1. /\ pc = "read" /\ pc' = "exit" /\ run.st = disk /\ disk # None /\ disk' = disk
        /\ fills' = fills /\ signals' = signals
        /\ run'.open = disk.open /\ run'.lastSignal = disk.lastSignal
    BY <1>0, <1>3 DEF Observe, RunOnSavedState, env, ledgers, Run
  <2> QED
    BY <2>1 DEF Moving, Held, Latest, Entering, Scanning
<1>4. ASSUME KeepPosition
      PROVE  Moving
  BY <1>4 DEF KeepPosition, ledgers, Moving, Held, Latest, Entering, Scanning
<1>5. ASSUME NEW c \in run.todo, PassOver(c)
      PROVE  Moving
  <2>1. /\ pc = "scan" /\ pc' = "scan" /\ fills' = fills /\ signals' = signals
        /\ run'.open = run.open /\ run'.lastSignal = run.lastSignal
    BY <1>0, <1>5 DEF PassOver, IsNext, ledgers, Run
  <2> QED
    BY <2>1 DEF Moving, Held, Latest, Entering, Scanning
<1>6. ASSUME SaveState
      PROVE  Moving
  <2>1. /\ pc = "scan" /\ pc' = "idle" /\ fills' = fills /\ signals' = signals
        /\ disk' = [lastBar |-> LastComplete(run.upto, run.st.lastBar),
                    lastSignal |-> run.lastSignal, open |-> run.open, cursor |-> run.upto]
    BY <1>6 DEF SaveState, Finish, ledgers
  <2>2. disk' # None
    <3>1. run.st = disk /\ disk # None /\ disk \in State
      BY <1>0, <1>6 DEF SaveState, RunOnSavedState, Deciding, TypeOK
    <3>2. run.upto \in 0..Len(feed)
      BY <1>0, <1>6, BatchRows DEF SaveState
    <3>3. LastComplete(run.upto, run.st.lastBar) \in Nat \union {None}
      BY <1>0, <3>1, <3>2, LastCompleteIsLast DEF LastComplete, State
    <3>4. disk' \in State
      BY <1>0, <2>1, <3>2, <3>3 DEF State, Run
    <3> QED
      BY <3>4, StateAssumption
  <2> QED
    BY <2>1, <2>2 DEF Moving, Held, Latest, Entering, Scanning
<1>7. ASSUME ExitPosition
      PROVE  /\ Held # None /\ Held = run.open /\ signals' = signals
             /\ Held' = None /\ Latest' = Latest /\ Entering = {} /\ Entering' = {}
  <2>1. /\ pc = "exit" /\ pc' = "scan" /\ run.open # None /\ signals' = signals
        /\ run'.open = None /\ run'.lastSignal = run.lastSignal
    BY <1>0, <1>7 DEF ExitPosition, ExitQuotes, Run
  <2> QED
    BY <2>1 DEF Held, Latest, Entering, Scanning
<1>8. ASSUME NEW c \in run.todo, EnterPosition(c)
      PROVE  /\ Held = None /\ signals' = signals
             /\ Held' # None /\ Held'.sig = c /\ Latest' = Latest
             /\ Entering = {} /\ Entering' = {c}
             /\ Latest # None => Latest < c
  <2>1. /\ pc = "scan" /\ pc' = "entered" /\ signals' = signals
        /\ run'.lastSignal = run.lastSignal
    BY <1>0, <1>8 DEF EnterPosition, IsNext, Run
  <2>2. run.open = None /\ run'.open # None /\ run'.open.sig = c
    BY <1>8, EntryIsTimely, EntryFacts DEF IInv
  <2>3. run.lastSignal # None => run.lastSignal < c
    BY <1>0, <2>1 DEF RunSignal, Scanning
  <2> QED
    BY <2>1, <2>2, <2>3 DEF Held, Latest, Entering, Scanning
<1>9. ASSUME NEW c \in run.todo, Decline(c)
      PROVE  /\ Entering = {} /\ fills' = fills
             /\ signals' = Append(signals, [sig |-> c, disposition |-> Disposition(c)])
             /\ Held' = Held /\ Latest' = c /\ Entering' = {}
             /\ Latest # None => Latest < c
  <2>1. /\ pc = "scan" /\ pc' = "scan" /\ fills' = fills
        /\ signals' = Append(signals, [sig |-> c, disposition |-> Disposition(c)])
        /\ run'.open = run.open /\ run'.lastSignal = c
    BY <1>0, <1>9 DEF Decline, RecordSignal, IsNext, Run
  <2>2. run.lastSignal # None => run.lastSignal < c
    BY <1>0, <2>1 DEF RunSignal, Scanning
  <2> QED
    BY <2>1, <2>2 DEF Held, Latest, Entering, Scanning
<1>10. ASSUME RecordEntry
       PROVE  /\ run.open.sig \in run.todo /\ Entering = {run.open.sig} /\ fills' = fills
              /\ signals' = Append(signals, [sig |-> run.open.sig,
                                             disposition |-> "hypothetical_entry"])
              /\ Held' = Held /\ Latest' = run.open.sig /\ Entering' = {}
              /\ Latest # None => Latest < run.open.sig
  <2>1. /\ pc = "entered" /\ pc' = "scan" /\ fills' = fills
        /\ signals' = Append(signals, [sig |-> run.open.sig,
                                       disposition |-> "hypothetical_entry"])
        /\ run'.open = run.open /\ run'.lastSignal = run.open.sig
    BY <1>0, <1>10 DEF RecordEntry, RecordSignal, Run
  <2>2. /\ run.open.sig \in run.todo
        /\ run.lastSignal # None => run.lastSignal < run.open.sig
    BY <1>0, <2>1 DEF RunSignal, Scanning
  <2> QED
    BY <2>1, <2>2 DEF Held, Latest, Entering, Scanning
<1>11. CASE ExitPosition
  BY <1>7, <1>11
<1>12. CASE \E c \in run.todo : EnterPosition(c)
  BY <1>8, <1>12
<1>13. CASE RecordEntry
  BY <1>10, <1>13
<1>14. CASE \E c \in run.todo : Decline(c)
  BY <1>9, <1>14
<1> QED
  BY <1>1, <1>2, <1>3, <1>4, <1>5, <1>6, <1>11, <1>12, <1>13, <1>14 DEF Next, Step

\* Only a run that dies is counted.
LEMMA CrashCounted ==
    ASSUME TypeOK, [Next]_vars, crashes' = 0
    PROVE  crashes = 0 /\ ~Crash
<1>1. ~Crash
  BY DEF Crash, TypeOK
<1>2. ASSUME NEW c \in run.todo, PassOver(c) \/ Decline(c) \/ EnterPosition(c)
      PROVE  crashes' = crashes
  BY <1>2 DEF PassOver, Decline, EnterPosition
<1>3. crashes' = crashes
  BY <1>1, <1>2 DEF Next, Step, Tick, Quote, Start, NoQuotes, NoNewQuotes, WarmUp, Observe,
                    KeepPosition, ExitPosition, RecordEntry, SaveState, vars
<1> QED
  BY <1>1, <1>3

\* The rows that ExitPosition and EnterPosition append.
LEMMA ExitRow ==
    ASSUME IInv, ExitPosition
    PROVE  \E row \in Fill, q \in 1..run.upto :
              /\ row.event = "hypothetical_exit" /\ row.sig = run.open.sig /\ row.at = feed[q]
              /\ feed[q] \in Nat /\ feed[q] >= run.open.due /\ run.open.due \in Nat
              /\ fills' = Append(fills, row) /\ run'.freeAt = feed[q]
<1>1. PICK q \in 1..run.upto :
        /\ feed[q] \in Nat /\ feed[q] >= run.open.due
        /\ fills' = Append(fills, [event |-> "hypothetical_exit",
                                  sig |-> run.open.sig, at |-> feed[q]])
        /\ run' = [run EXCEPT !.open = None, !.freeAt = feed[q]]
  BY ExitFacts
<1>2. run.open.sig \in Nat /\ run.open.due \in Nat /\ run \in Run
  BY OpenType DEF IInv, TypeOK, ExitPosition, ExitQuotes
<1>3. [event |-> "hypothetical_exit", sig |-> run.open.sig, at |-> feed[q]] \in Fill
  BY <1>1, <1>2 DEF Fill
<1>4. run'.freeAt = feed[q]
  BY <1>1, <1>2 DEF Run
<1> QED
  BY <1>1, <1>2, <1>3, <1>4

LEMMA EntryRow ==
    ASSUME IInv, NEW c \in run.todo, EnterPosition(c)
    PROVE  \E row \in Fill :
              /\ row.event = "hypothetical_entry" /\ row.sig = c
              /\ fills' = Append(fills, row)
<1>1. PICK q \in 1..run.upto :
        /\ feed[q] \in Nat
        /\ fills' = Append(fills, [event |-> "hypothetical_entry", sig |-> c, at |-> feed[q]])
  BY EntryFacts
<1>2. [event |-> "hypothetical_entry", sig |-> c, at |-> feed[q]] \in Fill
  BY <1>1, EntryFacts DEF Fill
<1> QED
  BY <1>1, <1>2

LEMMA LedgersStep ==
    ASSUME IInv, SignalInvariant, LedgersInStep, [Next]_vars
    PROVE  LedgersInStep'
<1> SUFFICES ASSUME crashes' = 0
             PROVE  /\ OpenInLedger' = IF Held' = None THEN {} ELSE {Held'.sig}
                    /\ \A d \in Decided' : Latest' # None /\ d <= Latest'
                    /\ Traded' = (Traded' \cap Decided') \union Entering'
                    /\ Closed' \subseteq Traded'
  BY DEF LedgersInStep
<1>0. TypeOK /\ ~Crash /\ fills \in Seq(Fill) /\ signals \in Seq(Signal)
  BY CrashCounted DEF IInv, TypeOK
<1>1. /\ OpenInLedger = Traded \ Closed
      /\ OpenInLedger = IF Held = None THEN {} ELSE {Held.sig}
      /\ \A d \in Decided : Latest # None /\ d <= Latest
      /\ Traded = (Traded \cap Decided) \union Entering
      /\ Closed \subseteq Traded
      /\ Decided \subseteq Nat /\ Traded \subseteq Nat
  BY <1>0, CrashCounted, LedgerTypes DEF LedgersInStep
<1>2. OpenInLedger' = Traded' \ Closed'
  BY DEF OpenInLedger, Closed
<1>3. CASE Moving
  <2>1. Traded' = Traded /\ Closed' = Closed /\ Decided' = Decided
    BY <1>3 DEF Moving, Traded, Closed, Decided, Entries, Exits
  <2> QED
    BY <1>1, <1>2, <1>3, <2>1 DEF Moving
<1>4. CASE /\ ExitPosition /\ Held # None /\ Held = run.open /\ signals' = signals
           /\ Held' = None /\ Latest' = Latest /\ Entering = {} /\ Entering' = {}
  <2>1. PICK row \in Fill : /\ row.event = "hypothetical_exit" /\ row.sig = run.open.sig
                            /\ fills' = Append(fills, row)
    BY <1>4, ExitRow
  <2>2. Traded' = Traded /\ Closed' = Closed \union {run.open.sig} /\ Decided' = Decided
    BY <1>0, <1>4, <2>1, FillSets DEF Decided
  <2> QED
    BY <1>1, <1>2, <1>4, <2>2
<1>5. ASSUME NEW c \in run.todo,
             /\ EnterPosition(c) /\ Held = None /\ signals' = signals
             /\ Held' # None /\ Held'.sig = c /\ Latest' = Latest
             /\ Entering = {} /\ Entering' = {c}
             /\ Latest # None => Latest < c
      PROVE  /\ OpenInLedger' = IF Held' = None THEN {} ELSE {Held'.sig}
             /\ \A d \in Decided' : Latest' # None /\ d <= Latest'
             /\ Traded' = (Traded' \cap Decided') \union Entering'
             /\ Closed' \subseteq Traded'
  <2>1. PICK row \in Fill : /\ row.event = "hypothetical_entry" /\ row.sig = c
                            /\ fills' = Append(fills, row)
    BY <1>5, EntryRow DEF IInv
  <2>2. Traded' = Traded \union {c} /\ Closed' = Closed /\ Decided' = Decided
    BY <1>0, <1>5, <2>1, FillSets DEF Decided
  <2>3. c \notin Decided
    <3>1. c \in Nat
      BY <1>0, SignalTypes
    <3>2. Latest \in Nat \union {None}
      BY <1>0, SignalTypes DEF Latest
    <3> QED
      BY <1>1, <1>5, <3>1, <3>2
  <2> QED
    BY <1>1, <1>2, <1>5, <2>2, <2>3
<1>6. ASSUME NEW c \in run.todo,
             /\ \/ RecordEntry /\ c = run.open.sig /\ Entering = {c}
                \/ Decline(c) /\ Entering = {}
             /\ \E d : signals' = Append(signals, [sig |-> c, disposition |-> d])
             /\ fills' = fills /\ Held' = Held /\ Latest' = c /\ Entering' = {}
             /\ Latest # None => Latest < c
      PROVE  /\ OpenInLedger' = IF Held' = None THEN {} ELSE {Held'.sig}
             /\ \A d \in Decided' : Latest' # None /\ d <= Latest'
             /\ Traded' = (Traded' \cap Decided') \union Entering'
             /\ Closed' \subseteq Traded'
  <2>1. Traded' = Traded /\ Closed' = Closed
    BY <1>6 DEF Traded, Closed, Entries, Exits
  <2>2. Decided' = Decided \union {c}
    BY <1>0, <1>6, SignalSets
  <2>3. c \in Nat /\ Latest \in Nat \union {None}
    BY <1>0, SignalTypes DEF Latest
  <2>4. \A d \in Decided' : c # None /\ d <= c
    <3>1. ASSUME NEW d \in Decided
          PROVE  d <= c
      <4>1. Latest # None /\ d <= Latest /\ d \in Nat /\ Latest < c
        BY <1>1, <1>6
      <4> QED
        BY <2>3, <4>1
    <3> QED
      BY <2>2, <2>3, <3>1, NoneAssumption
  <2>5. Traded \subseteq Decided \union {c}
    BY <1>1, <1>6
  <2> QED
    BY <1>1, <1>2, <1>6, <2>1, <2>2, <2>4, <2>5
<1> QED
  BY <1>0, <1>3, <1>4, <1>5, <1>6, LedgerMoves

-----------------------------------------------------------------------------
(* Exits lie behind what is still to be decided                            *)

\* Saved cursors only move forward.
LEMMA CursorGrows ==
    ASSUME IInv, [Next]_vars, disk # None
    PROVE  /\ disk' # None /\ disk.cursor \in 0..Len(feed) /\ disk'.cursor \in Nat
           /\ disk.cursor <= disk'.cursor
           /\ SaveState => disk'.cursor = run.upto
<1>0. TypeOK /\ SavedState /\ RunOnSavedState /\ Deciding /\ disk \in State
  BY DEF IInv, SafetyInvariant, TypeOK
<1>1. disk.cursor \in 0..Len(feed)
  BY <1>0 DEF SavedState, State, TypeOK
<1>2. ASSUME SaveState
      PROVE  disk' # None /\ disk'.cursor = run.upto /\ disk.cursor <= run.upto
             /\ run.upto \in Nat
  <2>1. run.st = disk /\ run.upto \in 0..Len(feed) /\ disk.cursor <= run.upto
    BY <1>0, <1>2, BatchRows DEF SaveState, RunOnSavedState
  <2>2. disk' = [lastBar |-> LastComplete(run.upto, run.st.lastBar),
                 lastSignal |-> run.lastSignal, open |-> run.open, cursor |-> run.upto]
    BY <1>2 DEF SaveState
  <2>3. LastComplete(run.upto, run.st.lastBar) \in Nat \union {None}
    BY <1>0, <2>1, LastCompleteIsLast DEF LastComplete, State
  <2>4. disk' \in State
    BY <1>0, <2>1, <2>2, <2>3 DEF State, Run, TypeOK
  <2> QED
    BY <2>1, <2>2, <2>4, StateAssumption
<1>3. ASSUME NEW c \in run.todo, PassOver(c) \/ Decline(c) \/ EnterPosition(c)
      PROVE  disk' = disk
  BY <1>3 DEF PassOver, Decline, EnterPosition
<1>4. ASSUME ~SaveState
      PROVE  disk' = disk
  BY <1>0, <1>3, <1>4 DEF Next, Step, Tick, Quote, Start, NoQuotes, NoNewQuotes, WarmUp,
       Observe, KeepPosition, ExitPosition, RecordEntry, Crash, vars, RunOnSavedState
<1> QED
  BY <1>1, <1>2, <1>4

LEMMA ExitsReadStep ==
    ASSUME IInv, SignalInvariant, ExitsRead, [Next]_vars
    PROVE  ExitsRead'
<1> SUFFICES ASSUME crashes' = 0, NEW j \in Exits'
             PROVE  \/ disk' # None /\ \E q \in 1..disk'.cursor : fills'[j].at <= feed'[q]
                    \/ pc' \in {"scan", "entered"} /\ fills'[j].at = run'.freeAt
  BY DEF ExitsRead
<1>0. /\ TypeOK /\ RunExit /\ RunOnSavedState /\ crashes = 0 /\ ~Crash
      /\ fills \in Seq(Fill) /\ run \in Run
  BY CrashCounted DEF IInv, SafetyInvariant, SignalInvariant, TypeOK
<1>1. \A n \in 0..Len(feed) : \A q \in 1..n : feed'[q] = feed[q]
  BY <1>0, PrefixKept, SMTT(30) DEF TypeOK
<1>2. ASSUME j \in Exits, fills'[j] = fills[j], ~ExitPosition
      PROVE  \/ disk' # None /\ \E q \in 1..disk'.cursor : fills'[j].at <= feed'[q]
             \/ pc' \in {"scan", "entered"} /\ fills'[j].at = run'.freeAt
  <2>1. CASE disk # None /\ \E q \in 1..disk.cursor : fills[j].at <= feed[q]
    <3>1. PICK q \in 1..disk.cursor : fills[j].at <= feed[q]
      BY <2>1
    <3>2. /\ disk' # None /\ disk.cursor \in 0..Len(feed) /\ disk'.cursor \in Nat
          /\ disk.cursor <= disk'.cursor
      BY <2>1, CursorGrows
    <3>3. feed'[q] = feed[q] /\ q \in 1..disk'.cursor
      BY <1>1, <3>2
    <3> QED
      BY <1>2, <3>1, <3>2, <3>3
  <2>2. CASE pc \in {"scan", "entered"} /\ fills[j].at = run.freeAt
    <3>1. CASE SaveState
      <4>1. run.freeAt # None
        BY <1>0, <1>2, <2>2, LedgerTypes, NoneAssumption
      <4>2. PICK q \in 1..run.upto : run.freeAt = feed[q]
        BY <1>0, <2>2, <4>1 DEF RunExit, Scanning
      <4>3. disk # None /\ disk' # None /\ disk'.cursor = run.upto
        BY <3>1, CursorGrows DEF SaveState, IInv, SafetyInvariant, Deciding
      <4>4. feed'[q] = feed[q]
        BY <3>1 DEF SaveState, env
      <4>5. fills[j].at <= feed[q]
        BY <1>0, <1>2, <2>2, <4>2, LedgerTypes
      <4> QED
        BY <1>2, <4>2, <4>3, <4>4, <4>5
    <3>2. CASE Tick \/ Quote \/ UNCHANGED vars
      BY <1>2, <2>2, <3>2 DEF Tick, Quote, vars
    <3>3. ASSUME NEW c \in run.todo, PassOver(c) \/ Decline(c) \/ EnterPosition(c)
          PROVE  pc' \in {"scan", "entered"} /\ run'.freeAt = run.freeAt
      BY <1>0, <2>2, <3>3 DEF PassOver, Decline, EnterPosition, RecordSignal, Run
    <3>4. CASE RecordEntry
      BY <1>0, <1>2, <2>2, <3>4 DEF RecordEntry, RecordSignal, Run
    <3> QED
      BY <1>0, <1>2, <2>2, <3>1, <3>2, <3>3, <3>4
         DEF Next, Step, Start, NoQuotes, NoNewQuotes, WarmUp, Observe, KeepPosition
  <2> QED
    BY <1>0, <1>2, <2>1, <2>2 DEF ExitsRead
<1>3. CASE ExitPosition
  <2>1. PICK row \in Fill, q \in 1..run.upto :
          /\ row.event = "hypothetical_exit" /\ row.at = feed[q]
          /\ fills' = Append(fills, row) /\ run'.freeAt = feed[q]
    BY <1>3, ExitRow
  <2>2. /\ Exits' = Exits \union {Len(fills) + 1} /\ \A i \in Exits : fills'[i] = fills[i]
        /\ fills'[Len(fills) + 1] = row
    BY <1>0, <2>1, FillSets
  <2>3. pc = "exit" /\ pc' = "scan" /\ disk' = disk /\ feed' = feed
    BY <1>3 DEF ExitPosition, env
  <2>4. CASE j \in Exits
    BY <1>0, <2>2, <2>3, <2>4 DEF ExitsRead
  <2>5. CASE j = Len(fills) + 1
    BY <2>1, <2>2, <2>3, <2>5
  <2> QED
    BY <2>2, <2>4, <2>5
<1>4. ASSUME NEW c \in run.todo, EnterPosition(c)
      PROVE  j \in Exits /\ fills'[j] = fills[j] /\ ~ExitPosition
  <2>1. PICK row \in Fill : row.event = "hypothetical_entry" /\ fills' = Append(fills, row)
    BY <1>4, EntryRow DEF IInv
  <2> QED
    BY <1>0, <1>4, <2>1, FillSets DEF EnterPosition, IsNext, ExitPosition
<1>5. CASE fills' = fills /\ ~ExitPosition
  BY <1>2, <1>5 DEF Exits
<1> QED
  BY <1>2, <1>3, <1>4, <1>5, QuietSteps DEF Tick, Quote, ledgers, ExitPosition

\* What a run has still to decide comes after every row of the runs before.
LEMMA TodoIsNew ==
    ASSUME IInv, SignalInvariant, Scanning, NEW c \in run.todo, NEW q \in 1..disk.cursor
    PROVE  feed[q] \in Nat /\ c \in Nat /\ feed[q] < c
<1>0. /\ TypeOK /\ FeedOrdered /\ SavedState /\ RunOnSavedState /\ Deciding /\ SavedSignal
      /\ disk # None /\ pc # "idle"
  BY DEF IInv, SafetyInvariant, SignalInvariant, Scanning, Deciding
<1>1. /\ disk.cursor \in 0..Len(feed) /\ run.upto \in 0..Len(feed)
      /\ disk.lastBar \in Nat \union {None}
  BY <1>0, BatchRows, SignalTypes DEF SavedState, TypeOK
<1>2. c \in Complete(run.upto) /\ (disk.lastBar # None => c > disk.lastBar) /\ c \in Nat
  BY <1>0, SignalTypes DEF Deciding, Scanning
<1>3. PICK k \in 1..run.upto : feed[k] \in Nat /\ c = BarOf(feed[k]) /\ feed[k] < c
  BY <1>0, <1>1, <1>2, RowOfBar
<1>a. feed \in Seq(Nat) /\ Len(feed) \in Nat
  BY <1>0 DEF TypeOK
<1>b. disk.cursor \in 1..Len(feed) /\ k \in 1..Len(feed) /\ q \in 1..Len(feed)
  BY <1>1, <1>a
<1>4. /\ disk.cursor \in DOMAIN feed /\ k \in DOMAIN feed /\ q \in DOMAIN feed
      /\ feed[disk.cursor] \in Nat /\ feed[q] \in Nat
      /\ disk.cursor \in Nat /\ k \in Nat /\ q \in Nat /\ q <= disk.cursor
  BY <1>a, <1>b
<1>5. feed[q] <= feed[disk.cursor]
  BY <1>0, <1>1, <1>4 DEF FeedOrdered
<1>6. ~(c <= feed[disk.cursor])
  <2> SUFFICES ASSUME c <= feed[disk.cursor]
               PROVE  FALSE
    OBVIOUS
  <2>1. ~(disk.cursor <= k)
    <3> SUFFICES ASSUME disk.cursor <= k
                 PROVE  FALSE
      OBVIOUS
    <3>1. feed[disk.cursor] <= feed[k]
      BY <1>0, <1>4 DEF FeedOrdered
    <3> QED
      BY <1>2, <1>3, <1>4, <3>1
  <2>2. c \in Complete(disk.cursor)
    BY <1>1, <1>3, <2>1 DEF Complete, BarsUpTo
  <2>3. disk.lastBar # None /\ c <= disk.lastBar
    BY <1>0, <2>2 DEF SavedSignal
  <2> QED
    BY <1>1, <1>2, <2>3
<1> QED
  BY <1>2, <1>4, <1>5, <1>6

LEMMA ClosedTradeStep ==
    ASSUME IInv, SignalInvariant, LedgersInStep, ClosedTrade, [Next]_vars
    PROVE  ClosedTrade'
<1> SUFFICES ASSUME crashes' = 0, Scanning', run'.freeAt # None
             PROVE  \E i \in Entries' :
                       /\ fills'[i].sig <= run'.lastSignal
                       /\ \A j \in Exits' :
                             fills'[j].sig = fills'[i].sig => fills'[j].at = run'.freeAt
  BY DEF ClosedTrade
<1>0. /\ TypeOK /\ crashes = 0 /\ ~Crash /\ fills \in Seq(Fill) /\ run \in Run
      /\ RunSignal /\ RunPosition /\ Deciding
      /\ run.lastSignal \in Nat \union {None} /\ run.todo \subseteq Nat
  BY CrashCounted, SignalTypes DEF IInv, SafetyInvariant, SignalInvariant, TypeOK
\* The trade stays as it was while the last signal grows.
<1>1. ASSUME Scanning, run'.freeAt = run.freeAt, run'.lastSignal \in Nat \union {None},
             run.lastSignal # None =>
                run'.lastSignal # None /\ run'.lastSignal >= run.lastSignal,
             Entries \subseteq Entries', Exits' = Exits,
             \A i \in Entries \union Exits : fills'[i] = fills[i]
      PROVE  \E i \in Entries' :
                /\ fills'[i].sig <= run'.lastSignal
                /\ \A j \in Exits' :
                      fills'[j].sig = fills'[i].sig => fills'[j].at = run'.freeAt
  <2>1. PICK i \in Entries :
          /\ fills[i].sig <= run.lastSignal
          /\ \A j \in Exits : fills[j].sig = fills[i].sig => fills[j].at = run.freeAt
    BY <1>0, <1>1 DEF ClosedTrade
  <2>2. run.lastSignal # None
    BY <1>1, RunExitStep DEF SignalInvariant, RunExit
  <2>3. fills[i].sig \in Nat
    BY <1>0, LedgerTypes
  <2>4. fills'[i].sig <= run'.lastSignal
    BY <1>0, <1>1, <2>1, <2>2, <2>3, NoneAssumption
  <2> QED
    BY <1>1, <2>1, <2>4
<1>2. ASSUME run' = run, fills' = fills
      PROVE  /\ run'.freeAt = run.freeAt /\ run'.lastSignal \in Nat \union {None}
             /\ run.lastSignal # None =>
                   run'.lastSignal # None /\ run'.lastSignal >= run.lastSignal
             /\ Entries \subseteq Entries' /\ Exits' = Exits
             /\ \A i \in Entries \union Exits : fills'[i] = fills[i]
  BY <1>0, <1>2 DEF Entries, Exits
<1>3. ~Observe
  BY NotYetClosed DEF Observe
<1>4. CASE ExitPosition
  <2>1. PICK row \in Fill, q \in 1..run.upto :
          /\ row.event = "hypothetical_exit" /\ row.sig = run.open.sig /\ row.at = feed[q]
          /\ fills' = Append(fills, row) /\ run'.freeAt = feed[q]
    BY <1>4, ExitRow
  <2>2. /\ Exits' = Exits \union {Len(fills) + 1} /\ Entries' = Entries
        /\ \A i \in Entries \union Exits : fills'[i] = fills[i]
        /\ fills'[Len(fills) + 1] = row
    BY <1>0, <2>1, FillSets
  <2>3. pc = "exit" /\ run.open # None /\ run'.lastSignal = run.lastSignal
    BY <1>0, <1>4 DEF ExitPosition, ExitQuotes, Run
  <2>4. run.lastSignal # None /\ run.open.sig <= run.lastSignal
    BY <1>0, <2>3 DEF RunPosition, Scanning
  <2>5. OpenInLedger = {run.open.sig}
    BY <1>0, <2>3 DEF LedgersInStep, Held, Scanning
  <2>6. PICK i \in Entries : fills[i].sig = run.open.sig
    BY <2>5 DEF OpenInLedger, Traded
  <2>7. \A j \in Exits : fills[j].sig # run.open.sig
    BY <2>5 DEF OpenInLedger
  <2>8. fills'[i].sig = run.open.sig /\ i \in Entries'
    BY <2>2, <2>6
  <2>9. ASSUME NEW j \in Exits', fills'[j].sig = run.open.sig
        PROVE  fills'[j].at = run'.freeAt
    BY <2>1, <2>2, <2>7, <2>9
  <2> QED
    BY <2>3, <2>4, <2>8, <2>9
<1>5. ASSUME NEW c \in run.todo, PassOver(c) \/ Decline(c)
      PROVE  /\ Scanning /\ run'.freeAt = run.freeAt /\ fills' = fills
             /\ run'.lastSignal \in Nat \union {None}
             /\ run.lastSignal # None =>
                   run'.lastSignal # None /\ run'.lastSignal >= run.lastSignal
             /\ Entries \subseteq Entries' /\ Exits' = Exits
             /\ \A i \in Entries \union Exits : fills'[i] = fills[i]
  <2>1. /\ pc = "scan" /\ Scanning /\ run'.freeAt = run.freeAt /\ fills' = fills
        /\ run'.lastSignal = run.lastSignal \/ run'.lastSignal = c
    BY <1>0, <1>5 DEF PassOver, Decline, RecordSignal, IsNext, Scanning, ledgers, Run
  <2>2. run.lastSignal # None => run.lastSignal < c
    BY <1>0, <2>1 DEF RunSignal
  <2>3. Entries' = Entries /\ Exits' = Exits
    BY <2>1 DEF Entries, Exits
  <2> QED
    BY <1>0, <2>1, <2>2, <2>3, NoneAssumption
<1>6. ASSUME RecordEntry
      PROVE  /\ Scanning /\ run'.freeAt = run.freeAt /\ fills' = fills
             /\ run'.lastSignal \in Nat \union {None}
             /\ run.lastSignal # None =>
                   run'.lastSignal # None /\ run'.lastSignal >= run.lastSignal
             /\ Entries \subseteq Entries' /\ Exits' = Exits
             /\ \A i \in Entries \union Exits : fills'[i] = fills[i]
  <2>1. /\ pc = "entered" /\ Scanning /\ run'.freeAt = run.freeAt /\ fills' = fills
        /\ run'.lastSignal = run.open.sig
    BY <1>0, <1>6 DEF RecordEntry, RecordSignal, Scanning, Run
  <2>2. /\ run.open.sig \in run.todo
        /\ run.lastSignal # None => run.lastSignal < run.open.sig
    BY <1>0, <2>1 DEF RunSignal
  <2>3. Entries' = Entries /\ Exits' = Exits
    BY <2>1 DEF Entries, Exits
  <2> QED
    BY <1>0, <2>1, <2>2, <2>3, NoneAssumption
<1>7. ASSUME NEW c \in run.todo, EnterPosition(c)
      PROVE  /\ Scanning /\ run'.freeAt = run.freeAt
             /\ run'.lastSignal = run.lastSignal
             /\ Entries \subseteq Entries' /\ Exits' = Exits
             /\ \A i \in Entries \union Exits : fills'[i] = fills[i]
  <2>1. Scanning /\ run'.freeAt = run.freeAt /\ run'.lastSignal = run.lastSignal
    BY <1>0, <1>7 DEF EnterPosition, IsNext, Scanning, Run
  <2>2. PICK row \in Fill : row.event = "hypothetical_entry" /\ fills' = Append(fills, row)
    BY <1>7, EntryRow DEF IInv
  <2>3. /\ Entries' = Entries \union {Len(fills) + 1} /\ Exits' = Exits
        /\ \A i \in Entries \union Exits : fills'[i] = fills[i]
    BY <1>0, <2>2, FillSets
  <2> QED
    BY <2>1, <2>3
<1>8. CASE RecordEntry \/ \E c \in run.todo : PassOver(c) \/ Decline(c)
  BY <1>1, <1>5, <1>6, <1>8
<1>9. CASE \E c \in run.todo : EnterPosition(c)
  BY <1>0, <1>1, <1>7, <1>9
<1> QED
  BY <1>1, <1>2, <1>3, <1>4, <1>8, <1>9, ScanSteps

-----------------------------------------------------------------------------
(* A signal is ignored exactly while a trade spans it                      *)

\* A candidate that finds no position in its way is inside no trade.
LEMMA FreeIsUnspanned ==
    ASSUME IInv, SignalInvariant, LedgerInvariant, crashes = 0,
           NEW c \in run.todo, IsNext(c), ~Occupied(c)
    PROVE  ~Spanned(c)
<1>0. /\ TypeOK /\ pc = "scan" /\ Scanning /\ run.open = None
      /\ (run.freeAt # None => ~(c < run.freeAt))
      /\ c \in Nat /\ run.freeAt \in Nat \union {None}
  BY SignalTypes DEF IInv, IsNext, Scanning, Occupied
<1>1. OpenInLedger = {}
  BY <1>0 DEF LedgerInvariant, LedgersInStep, Held
<1>2. ASSUME NEW i \in Entries
      PROVE  \E j \in Exits : fills[j].sig = fills[i].sig /\ ~(fills[j].at > c)
  <2>1. fills[i].sig \in Traded
    BY DEF Traded
  <2>2. PICK j \in Exits : fills[j].sig = fills[i].sig
    BY <1>1, <2>1 DEF OpenInLedger
  <2>3. fills[j].at \in Nat
    BY <1>0, LedgerTypes
  <2>4. CASE disk # None /\ \E q \in 1..disk.cursor : fills[j].at <= feed[q]
    <3>1. PICK q \in 1..disk.cursor : fills[j].at <= feed[q]
      BY <2>4
    <3>2. feed[q] \in Nat /\ feed[q] < c
      BY <1>0, TodoIsNew
    <3> QED
      BY <1>0, <2>2, <2>3, <3>1, <3>2
  <2>5. CASE fills[j].at = run.freeAt
    BY <1>0, <2>2, <2>3, <2>5, NoneAssumption
  <2> QED
    BY <2>4, <2>5 DEF LedgerInvariant, ExitsRead
<1> QED
  BY <1>2 DEF Spanned

\* One that is in the way of a candidate spans it.
LEMMA OccupiedIsSpanned ==
    ASSUME IInv, SignalInvariant, LedgerInvariant, crashes = 0,
           NEW c \in run.todo, IsNext(c), Occupied(c)
    PROVE  Spanned(c)
<1>0. /\ TypeOK /\ RunSignal /\ RunPosition /\ RunExit /\ pc = "scan" /\ Scanning /\ c \in Nat
      /\ run.lastSignal \in Nat \union {None} /\ run.freeAt \in Nat \union {None}
      /\ run.lastSignal # None => run.lastSignal < c
  BY SignalTypes DEF IInv, SignalInvariant, IsNext, Scanning, RunSignal
<1>1. CASE run.open # None
  <2>1. run.lastSignal # None /\ run.open.sig <= run.lastSignal
    BY <1>0, <1>1 DEF RunPosition
  <2>2. OpenInLedger = {run.open.sig}
    BY <1>0, <1>1 DEF LedgerInvariant, LedgersInStep, Held
  <2>3. PICK i \in Entries : fills[i].sig = run.open.sig
    BY <2>2 DEF OpenInLedger, Traded
  <2>4. \A j \in Exits : fills[j].sig # run.open.sig
    BY <2>2 DEF OpenInLedger
  <2>5. run.open.sig \in Nat
    BY <1>0, <1>1, OpenType
  <2>6. fills[i].sig < c
    BY <1>0, <2>1, <2>3, <2>5
  <2> QED
    BY <2>3, <2>4, <2>6 DEF Spanned
<1>2. CASE run.freeAt # None /\ c < run.freeAt
  <2>1. PICK i \in Entries :
          /\ fills[i].sig <= run.lastSignal
          /\ \A j \in Exits : fills[j].sig = fills[i].sig => fills[j].at = run.freeAt
    BY <1>0, <1>2 DEF LedgerInvariant, ClosedTrade
  <2>2. run.lastSignal # None
    BY <1>0, <1>2 DEF RunExit
  <2>3. fills[i].sig \in Nat
    BY <1>0, LedgerTypes
  <2>4. fills[i].sig < c
    BY <1>0, <2>1, <2>2, <2>3
  <2>5. run.freeAt > c
    BY <1>0, <1>2
  <2> QED
    BY <2>1, <2>4, <2>5 DEF Spanned
<1> QED
  BY <1>1, <1>2 DEF Occupied

\* Neither an entry at a later signal nor an exit after the time changes
\* whether a trade spans it.
LEMMA SpannedKept ==
    ASSUME IInv, NEW s \in Nat, NEW row \in Fill, fills' = Append(fills, row),
           \/ row.event = "hypothetical_entry" /\ ~(row.sig < s)
           \/ row.event = "hypothetical_exit" /\ row.at > s
    PROVE  Spanned(s)' <=> Spanned(s)
<1>0. fills \in Seq(Fill) /\ TypeOK
  BY DEF IInv, TypeOK
<1>1. /\ \A i \in Entries \union Exits : fills'[i] = fills[i]
      /\ fills'[Len(fills) + 1] = row
  BY <1>0, FillSets
<1>a. Entries \subseteq DOMAIN fills /\ Exits \subseteq DOMAIN fills
  BY <1>0, LedgerTypes
<1> DEFINE P(i) == \A j \in Exits : fills[j].sig = fills[i].sig => fills[j].at > s
           Q(i) == \A j \in Exits' : fills'[j].sig = fills'[i].sig => fills'[j].at > s
<1>b. Spanned(s)' <=> \E i \in Entries' : fills'[i].sig < s /\ Q(i)
  BY DEF Spanned
<1>c. Spanned(s) <=> \E i \in Entries : fills[i].sig < s /\ P(i)
  BY DEF Spanned
<1>2. CASE row.event = "hypothetical_entry" /\ ~(row.sig < s)
  <2>1. Entries' = Entries \union {Len(fills) + 1} /\ Exits' = Exits
    BY <1>0, <1>2, FillSets
  <2>2. \A i \in Entries' : fills'[i].sig < s => i \in Entries
    BY <1>1, <1>2, <2>1
  <2>3. ASSUME NEW i \in Entries
        PROVE  i \in Entries' /\ fills'[i] = fills[i] /\ (P(i) <=> Q(i))
    BY <1>1, <2>1
  <2> HIDE DEF P, Q
  <2> QED
    BY <1>b, <1>c, <2>2, <2>3
<1>3. CASE row.event = "hypothetical_exit" /\ row.at > s
  <2>1. Exits' = Exits \union {Len(fills) + 1} /\ Entries' = Entries
    BY <1>0, <1>3, FillSets
  <2>2. fills'[Len(fills) + 1].at > s
    BY <1>1, <1>3
  <2>3. ASSUME NEW i \in Entries
        PROVE  fills'[i] = fills[i] /\ (P(i) <=> Q(i))
    BY <1>1, <2>1, <2>2
  <2> HIDE DEF P, Q
  <2> QED
    BY <1>b, <1>c, <2>1, <2>3
<1> QED
  BY <1>2, <1>3

LEMMA UnspannedStep ==
    ASSUME IInv, SignalInvariant, LedgerInvariant, [Next]_vars
    PROVE  Unspanned'
<1> SUFFICES ASSUME crashes' = 0, pc' = "entered"
             PROVE  ~Spanned(run.open.sig)'
  BY DEF Unspanned, Spanned
<1>0. TypeOK /\ crashes = 0 /\ run \in Run
  BY CrashCounted DEF IInv, TypeOK
<1>1. ASSUME NEW c \in run.todo, EnterPosition(c)
      PROVE  ~Spanned(run.open.sig)'
  <2>1. IsNext(c) /\ ~Occupied(c) /\ c \in Nat /\ run'.open.sig = c
    BY <1>1, EntryIsTimely, EntryFacts DEF EnterPosition, Disposition, IInv
  <2>2. ~Spanned(c)
    BY <1>0, <2>1, FreeIsUnspanned
  <2>3. PICK row \in Fill : /\ row.event = "hypothetical_entry" /\ row.sig = c
                            /\ fills' = Append(fills, row)
    BY <1>1, EntryRow DEF IInv
  <2>4. ~Spanned(c)'
    BY <2>1, <2>2, <2>3, SpannedKept
  <2> QED
    BY <2>1, <2>4 DEF Spanned
<1>2. ASSUME run' = run, fills' = fills, pc' = pc
      PROVE  ~Spanned(run.open.sig)'
  <2>1. ~Spanned(run.open.sig)
    BY <1>0, <1>2 DEF LedgerInvariant, Unspanned
  <2> QED
    BY <1>2, <2>1 DEF Spanned, Entries, Exits
<1>3. Scanning'
  BY DEF Scanning
<1>4. ~(Observe \/ KeepPosition \/ ExitPosition \/ RecordEntry)
  BY DEF Observe, KeepPosition, ExitPosition, RecordEntry
<1>5. ASSUME NEW c \in run.todo, PassOver(c) \/ Decline(c)
      PROVE  FALSE
  BY <1>5 DEF PassOver, Decline, IsNext
<1> QED
  BY <1>1, <1>2, <1>3, <1>4, <1>5, ScanSteps

LEMMA IgnoredStep ==
    ASSUME IInv, SignalInvariant, LedgerInvariant, [Next]_vars, crashes' = 0
    PROVE  IgnoredExactlyWhileOpen'
<1>0. /\ TypeOK /\ crashes = 0 /\ ~Crash /\ fills \in Seq(Fill) /\ signals \in Seq(Signal)
      /\ IgnoredExactlyWhileOpen
  BY CrashCounted DEF IInv, TypeOK, LedgerInvariant
<1>1. ASSUME NEW i \in DOMAIN signals
      PROVE  /\ signals[i].sig \in Nat /\ Latest # None /\ signals[i].sig <= Latest
             /\ Latest \in Nat
             /\ signals[i].disposition = "ignored_open_position" <=> Spanned(signals[i].sig)
  <2>1. signals[i].sig \in Decided
    BY DEF Decided
  <2>2. Latest # None /\ signals[i].sig <= Latest /\ signals[i].sig \in Nat
    BY <1>0, <2>1, LedgerTypes DEF LedgerInvariant, LedgersInStep
  <2>3. Latest \in Nat
    BY <1>0, <2>2, SignalTypes DEF Latest
  <2> QED
    BY <1>0, <2>2, <2>3 DEF IgnoredExactlyWhileOpen
<1>2. ASSUME signals' = signals,
             \A i \in DOMAIN signals : Spanned(signals[i].sig)' <=> Spanned(signals[i].sig)
      PROVE  IgnoredExactlyWhileOpen'
  <2> SUFFICES ASSUME NEW i \in DOMAIN signals'
               PROVE  (signals'[i].disposition = "ignored_open_position")
                         <=> Spanned(signals[i].sig)'
    BY <1>2 DEF IgnoredExactlyWhileOpen, Spanned
  <2> QED
    BY <1>1, <1>2
<1>3. CASE Moving
  <2>1. signals' = signals /\ fills' = fills
    BY <1>3 DEF Moving
  <2> QED
    BY <1>0, <2>1 DEF IgnoredExactlyWhileOpen, Spanned, Entries, Exits
<1>4. CASE ExitPosition /\ Held = run.open /\ signals' = signals
  <2>1. PICK row \in Fill, q \in 1..run.upto :
          /\ row.event = "hypothetical_exit" /\ row.at = feed[q]
          /\ feed[q] \in Nat /\ feed[q] >= run.open.due /\ run.open.due \in Nat
          /\ fills' = Append(fills, row)
    BY <1>4, ExitRow
  <2>2. /\ pc = "exit" /\ Scanning /\ disk # None /\ run.open = disk.open /\ run.open # None
        /\ run.lastSignal = disk.lastSignal
    BY <1>4 DEF ExitPosition, ExitQuotes, Scanning, IInv, SafetyInvariant, Deciding,
                SignalInvariant, RunSignal
  <2>3. ASSUME NEW i \in DOMAIN signals
        PROVE  signals[i].sig < run.open.due
    <3>1. signals[i].sig \in Nat /\ signals[i].sig <= disk.lastSignal /\ disk.lastSignal \in Nat
      BY <1>1, <2>2 DEF Latest
    <3>2. /\ disk.lastBar # None /\ disk.lastSignal <= disk.lastBar
          /\ disk.lastBar \in Complete(disk.cursor) /\ disk.cursor \in 0..Len(feed)
          /\ Awaits(disk.open, disk.cursor)
      BY <1>0, <2>2, <3>1, SignalTypes, NoneAssumption
         DEF IInv, SafetyInvariant, SavedState, SignalInvariant, SavedSignal, TypeOK
    <3>3. disk.cursor > 0 /\ disk.lastBar \in Nat /\ disk.lastBar <= feed[disk.cursor]
      BY <1>0, <3>2, CompleteType
    <3>4. disk.cursor \in 1..Len(feed) /\ feed[disk.cursor] \in Nat
      BY <1>0, <3>2, <3>3 DEF TypeOK
    <3>5. feed[disk.cursor] < run.open.due
      BY <2>2, <3>2, <3>4 DEF Awaits
    <3> QED
      BY <2>1, <3>1, <3>2, <3>3, <3>4, <3>5
  <2>4. ASSUME NEW i \in DOMAIN signals
        PROVE  Spanned(signals[i].sig)' <=> Spanned(signals[i].sig)
    <3>1. PICK s \in Nat : s = signals[i].sig
      BY <1>1
    <3>2. row.at > s
      BY <2>1, <2>3, <3>1
    <3>3. Spanned(s)' <=> Spanned(s)
      BY <2>1, <3>2, SpannedKept
    <3> QED
      BY <1>4, <3>1, <3>3 DEF Spanned
  <2> QED
    BY <1>2, <1>4, <2>4
<1>5. ASSUME NEW c \in run.todo, EnterPosition(c), signals' = signals,
             Latest # None => Latest < c
      PROVE  IgnoredExactlyWhileOpen'
  <2>1. PICK row \in Fill : /\ row.event = "hypothetical_entry" /\ row.sig = c
                            /\ fills' = Append(fills, row)
    BY <1>5, EntryRow DEF IInv
  <2>2. c \in Nat
    BY <1>0, SignalTypes
  <2>3. ASSUME NEW i \in DOMAIN signals
        PROVE  Spanned(signals[i].sig)' <=> Spanned(signals[i].sig)
    <3>1. PICK s \in Nat : s = signals[i].sig
      BY <1>1
    <3>2. ~(row.sig < s)
      BY <1>1, <1>5, <2>1, <2>2, <3>1
    <3>3. Spanned(s)' <=> Spanned(s)
      BY <2>1, <3>2, SpannedKept
    <3> QED
      BY <1>5, <3>1, <3>3 DEF Spanned
  <2> QED
    BY <1>2, <1>5, <2>3
\* A row that says of its signal what the ledger says.
<1>6. ASSUME NEW c \in run.todo, NEW d, fills' = fills,
             signals' = Append(signals, [sig |-> c, disposition |-> d]),
             d = "ignored_open_position" <=> Spanned(c)
      PROVE  IgnoredExactlyWhileOpen'
  <2>1. /\ \A i \in DOMAIN signals : signals'[i] = signals[i]
        /\ DOMAIN signals' = DOMAIN signals \union {Len(signals) + 1}
        /\ signals'[Len(signals) + 1] = [sig |-> c, disposition |-> d]
    BY <1>0, <1>6, SignalSets
  <2>2. ASSUME NEW i \in DOMAIN signals', NEW s, s = signals'[i].sig
        PROVE  (signals'[i].disposition = "ignored_open_position") <=> Spanned(s)'
    <3>1. Spanned(s)' <=> Spanned(s)
      BY <1>6 DEF Spanned, Entries, Exits
    <3>2. CASE i \in DOMAIN signals
      BY <1>1, <2>1, <2>2, <3>1, <3>2
    <3>3. CASE i = Len(signals) + 1
      BY <1>6, <2>1, <2>2, <3>1, <3>3
    <3> QED
      BY <2>1, <3>2, <3>3
  <2> QED
    BY <2>2 DEF IgnoredExactlyWhileOpen, Spanned
<1>7. ASSUME NEW c \in run.todo, Decline(c), fills' = fills
      PROVE  IgnoredExactlyWhileOpen'
  <2>1. /\ IsNext(c)
        /\ signals' = Append(signals, [sig |-> c, disposition |-> Disposition(c)])
    BY <1>7 DEF Decline, RecordSignal
  <2>2. Disposition(c) = "ignored_open_position" <=> Occupied(c)
    BY DEF Disposition
  <2>3. Occupied(c) <=> Spanned(c)
    BY <1>0, <2>1, FreeIsUnspanned, OccupiedIsSpanned
  <2> QED
    BY <1>6, <1>7, <2>1, <2>2, <2>3
<1>8. ASSUME RecordEntry, run.open.sig \in run.todo, fills' = fills
      PROVE  IgnoredExactlyWhileOpen'
  <2>1. /\ pc = "entered"
        /\ signals' = Append(signals, [sig |-> run.open.sig,
                                       disposition |-> "hypothetical_entry"])
    BY <1>8 DEF RecordEntry, RecordSignal
  <2>2. ~Spanned(run.open.sig)
    BY <1>0, <2>1 DEF LedgerInvariant, Unspanned
  <2> QED
    BY <1>6, <1>8, <2>1, <2>2
<1> QED
  BY <1>0, <1>3, <1>4, <1>5, <1>7, <1>8, LedgerMoves

-----------------------------------------------------------------------------
(* LedgerInvariant is inductive                                            *)

LEMMA LedgerInit == Init => LedgerInvariant
<1> SUFFICES ASSUME Init
             PROVE  LedgerInvariant
  OBVIOUS
<1>1. Entries = {} /\ Exits = {} /\ ~Scanning /\ disk = None /\ DOMAIN signals = {}
  BY DEF Init, Entries, Exits, Scanning
<1>2. OpenInLedger = {} /\ Traded = {} /\ Closed = {} /\ Decided = {} /\ Held = None
  BY <1>1 DEF OpenInLedger, Traded, Closed, Decided, Held
<1>3. Entering = {} /\ pc = "idle"
  BY DEF Init, Entering
<1>4. now <= MaxTime
  BY BoundsAssumption DEF Init
<1>5. LedgersInStep
  BY <1>2, <1>3 DEF LedgersInStep
<1> QED
  BY <1>1, <1>3, <1>4, <1>5
     DEF LedgerInvariant, ExitsRead, ClosedTrade, Unspanned, IgnoredExactlyWhileOpen

LEMMA LedgerStep == IInv /\ SignalInvariant /\ LedgerInvariant /\ [Next]_vars => LedgerInvariant'
<1> SUFFICES ASSUME IInv, SignalInvariant, LedgerInvariant, [Next]_vars
             PROVE  LedgerInvariant'
  OBVIOUS
<1>1. LedgersInStep' /\ ExitsRead' /\ ClosedTrade' /\ Unspanned'
  BY LedgersStep, ExitsReadStep, ClosedTradeStep, UnspannedStep DEF LedgerInvariant
<1>2. (crashes = 0 => IgnoredExactlyWhileOpen)'
  BY IgnoredStep
<1>3. now' <= MaxTime
  <2>1. now \in Nat /\ now <= MaxTime
    BY DEF IInv, TypeOK, LedgerInvariant
  <2>2. Tick => now' <= MaxTime
    BY <2>1, BoundsAssumption DEF Tick
  <2>3. Quote => now' = now
    BY DEF Quote
  <2>4. ExitPosition => now' = now
    BY DEF ExitPosition, env
  <2>5. \A c \in run.todo : EnterPosition(c) => now' = now
    BY DEF EnterPosition, env
  <2> QED
    BY <2>1, <2>2, <2>3, <2>4, <2>5, QuietSteps
<1> QED
  BY <1>1, <1>2, <1>3 DEF LedgerInvariant

\* As long as no run has died, the ledger of the signals and that of the fills
\* tell one story: a row says "ignored_open_position" exactly when a trade
\* spans the time of its signal, also one closed by the run that wrote the row
\* (demo_shadow_engine.py:140-143, with the exit at 100-126).
THEOREM IgnoredExactlyWhileOpenAlways == Spec => [](crashes = 0 => IgnoredExactlyWhileOpen)
<1>1. Init => IInv /\ SignalInvariant /\ LedgerInvariant
  BY IInvInit, SignalInit, LedgerInit
<1>2. (IInv /\ SignalInvariant /\ LedgerInvariant) /\ [Next]_vars
        => (IInv /\ SignalInvariant /\ LedgerInvariant)'
  BY IInvStep, SignalStep, LedgerStep
<1>3. LedgerInvariant => (crashes = 0 => IgnoredExactlyWhileOpen)
  BY DEF LedgerInvariant
<1> QED
  BY <1>1, <1>2, <1>3, PTL DEF Spec

-----------------------------------------------------------------------------
(* The engine keeps the promise of the campaign                            *)

\* The latest member of a set of one.
LEMMA OnlyMember ==
    ASSUME NEW S, NEW p, p # None => p.sig \in Nat, S = IF p = None THEN {} ELSE {p.sig}
    PROVE  (IF S = {} THEN None ELSE Max(S)) = IF p = None THEN None ELSE p.sig
<1>1. CASE p = None
  BY <1>1
<1>2. CASE p # None
  <2>1. PICK s \in Nat : s = p.sig
    BY <1>2
  <2>2. S = {s} /\ S # {} /\ S \subseteq Nat
    BY <1>2, <2>1
  <2>3. \A x \in S : x <= s
    BY <2>2
  <2>4. Max(S) \in S
    BY <2>1, <2>2, <2>3, GreatestExists
  <2> QED
    BY <1>2, <2>1, <2>2, <2>4
<1> QED
  BY <1>1, <1>2

\* A candidate whose turn has come may be acted on: a cooldown after all
\* others, no later than the clock.
LEMMA TurnIsAdmissible ==
    ASSUME IInv, SignalInvariant, LedgerInvariant, crashes = 0, Scanning,
           NEW c \in run.todo, Cooled(c)
    PROVE  c \in 0..MaxTime /\ \A d \in Decided : c - d >= Cooldown /\ c > d
<1>0. /\ TypeOK /\ RunOnSavedState /\ Deciding /\ RunSignal /\ FeedOrdered /\ pc # "idle"
      /\ c \in Nat /\ run.lastSignal \in Nat \union {None} /\ now \in Nat /\ now <= MaxTime
      /\ Cooldown \in Nat /\ MaxTime \in Nat
  BY SignalTypes, TimingAssumption, BoundsAssumption
     DEF IInv, SafetyInvariant, SignalInvariant, LedgerInvariant, Scanning, TypeOK
<1>1. run.upto \in 0..Len(feed) /\ c \in Complete(run.upto)
  BY <1>0, BatchRows DEF Deciding, Scanning
<1>2. run.upto > 0 /\ c <= feed[run.upto]
  BY <1>0, <1>1, CompleteType
<1>3. run.upto \in DOMAIN feed /\ feed[run.upto] \in Nat
  BY <1>0, <1>1, <1>2 DEF TypeOK
<1>4. feed[run.upto] <= now
  BY <1>0, <1>3 DEF FeedOrdered
<1>5. c \in 0..MaxTime
  BY <1>0, <1>2, <1>3, <1>4
<1>6. ASSUME NEW d \in Decided
      PROVE  c - d >= Cooldown /\ c > d
  <2>1. run.lastSignal # None /\ d <= run.lastSignal
    BY <1>0 DEF LedgerInvariant, LedgersInStep, Latest
  <2>2. d \in Nat /\ run.lastSignal < c /\ c - run.lastSignal >= Cooldown
    BY <1>0, <2>1, LedgerTypes DEF RunSignal, Cooled
  <2> QED
    BY <1>0, <2>1, <2>2
<1> QED
  BY <1>5, <1>6

\* A step of the engine is a step of the account, or leaves it as it is.
LEMMA AccountStep ==
    ASSUME IInv, SignalInvariant, LedgerInvariant, [Next]_vars, crashes' = 0,
           TypeOK', LedgersInStep'
    PROVE  [Account!Next]_(Account!vars)
<1> DEFINE pos == IF OpenInLedger = {} THEN None ELSE Max(OpenInLedger)
<1>0. /\ TypeOK /\ crashes = 0 /\ ~Crash /\ RunSignal
      /\ fills \in Seq(Fill) /\ signals \in Seq(Signal)
  BY CrashCounted DEF IInv, TypeOK, SignalInvariant
<1>1. pos = IF Held = None THEN None ELSE Held.sig
  <2>1. Held # None => Held.sig \in Nat
    BY <1>0, OpenType, SignalTypes DEF Held, Position
  <2>2. OpenInLedger = IF Held = None THEN {} ELSE {Held.sig}
    BY <1>0 DEF LedgerInvariant, LedgersInStep
  <2> QED
    BY <2>1, <2>2, OnlyMember
<1>2. pos' = IF Held' = None THEN None ELSE Held'.sig
  <2>1. OpenInLedger' = IF Held' = None THEN {} ELSE {Held'.sig}
    BY DEF LedgersInStep
  <2>2. Held' # None => Held'.sig \in Nat
    BY DEF Held, TypeOK, Run, State, Position
  <2> QED
    BY <2>1, <2>2, OnlyMember
<1>3. /\ Held # None => Held.sig \in Nat
      /\ Traded = (Traded \cap Decided) \union Entering
  BY <1>0, OpenType, SignalTypes DEF Held, Position, LedgerInvariant, LedgersInStep
<1> HIDE DEF pos
<1>4. CASE Moving
  <2>1. Traded' = Traded /\ Decided' = Decided
    BY <1>4 DEF Moving, Traded, Decided, Entries
  <2>2. pos' = pos
    BY <1>1, <1>2, <1>4 DEF Moving
  <2> QED
    BY <2>1, <2>2 DEF Account!vars, pos
<1>5. CASE /\ ExitPosition /\ Held # None /\ signals' = signals
           /\ Held' = None /\ Entering = {}
  <2>1. PICK row \in Fill : row.event = "hypothetical_exit" /\ fills' = Append(fills, row)
    BY <1>5, ExitRow
  <2>2. Traded' = Traded /\ Decided' = Decided
    BY <1>0, <1>5, <2>1, FillSets DEF Decided
  <2>3. pos # None /\ pos' = None /\ Traded \subseteq Decided
    BY <1>1, <1>2, <1>3, <1>5, NoneAssumption
  <2>4. Account!Close
    BY <2>2, <2>3 DEF Account!Close, pos
  <2> QED
    BY <2>4 DEF Account!Next
<1>6. ASSUME NEW c \in run.todo,
             /\ EnterPosition(c) /\ Held = None /\ signals' = signals
             /\ Held' # None /\ Held'.sig = c /\ Entering = {}
      PROVE  Account!Next
  <2>1. PICK row \in Fill : /\ row.event = "hypothetical_entry" /\ row.sig = c
                            /\ fills' = Append(fills, row)
    BY <1>6, EntryRow DEF IInv
  <2>2. Traded' = Traded \union {c} /\ Decided' = Decided
    BY <1>0, <1>6, <2>1, FillSets DEF Decided
  <2>3. pos = None /\ pos' = c /\ Traded \subseteq Decided
    BY <1>1, <1>2, <1>3, <1>6
  <2>4. c \in 0..MaxTime /\ \A d \in Decided : c - d >= Cooldown /\ c > d
    BY <1>0, <1>6, TurnIsAdmissible DEF EnterPosition, IsNext, Scanning
  <2>5. Account!Open(c)
    BY <2>2, <2>3, <2>4 DEF Account!Open, Account!Admissible, pos
  <2> QED
    BY <2>4, <2>5 DEF Account!Next
<1>7. ASSUME NEW c \in run.todo,
             /\ \/ RecordEntry /\ c = run.open.sig /\ Entering = {c}
                \/ Decline(c) /\ Entering = {}
             /\ \E d : signals' = Append(signals, [sig |-> c, disposition |-> d])
             /\ fills' = fills /\ Held' = Held
      PROVE  Account!Next
  <2>1. Traded' = Traded /\ Decided' = Decided \union {c}
    BY <1>0, <1>7, SignalSets DEF Traded, Entries
  <2>2. pos' = pos /\ Traded \ Decided \subseteq {c}
    BY <1>1, <1>2, <1>3, <1>7
  <2>3. Scanning /\ Cooled(c)
    BY <1>0, <1>7 DEF RecordEntry, Decline, IsNext, Scanning, RunSignal
  <2>4. c \in 0..MaxTime /\ \A d \in Decided : c - d >= Cooldown /\ c > d
    BY <1>0, <2>3, TurnIsAdmissible
  <2>5. Account!Decide(c)
    BY <2>1, <2>2, <2>4 DEF Account!Decide, Account!Admissible, pos
  <2> QED
    BY <2>4, <2>5 DEF Account!Next
<1> QED
  BY <1>0, <1>4, <1>5, <1>6, <1>7, LedgerMoves

\* An engine whose runs are not cut short does what the frozen specification
\* promises of the campaign (demo_shadow_protocol.py): one position at most,
\* every signal decided once and in order, a cooldown apart, and no exit
\* between an entry and its signal row (demo_shadow_engine.py:96-216).
THEOREM AccountKept ==
    ASSUME MaxCrashes = 0
    PROVE  Spec => AccountSpec
<1> DEFINE Inv == IInv /\ SignalInvariant /\ LedgerInvariant /\ crashes = 0
<1>1. Init => Inv
  BY IInvInit, SignalInit, LedgerInit DEF Init
<1>2. Inv /\ [Next]_vars => crashes' = 0
  <2> SUFFICES ASSUME Inv, [Next]_vars
               PROVE  crashes' = 0
    OBVIOUS
  <2>1. ASSUME NEW c \in run.todo, PassOver(c) \/ Decline(c) \/ EnterPosition(c)
        PROVE  crashes' = crashes
    BY <2>1 DEF PassOver, Decline, EnterPosition
  <2>2. ~Crash
    BY DEF Crash
  <2> QED
    BY <2>1, <2>2 DEF Next, Step, Tick, Quote, Start, NoQuotes, NoNewQuotes, WarmUp, Observe,
                      KeepPosition, ExitPosition, RecordEntry, SaveState, vars
<1>3. Inv /\ [Next]_vars => Inv'
  BY <1>2, IInvStep, SignalStep, LedgerStep
<1>4. Inv /\ [Next]_vars /\ Inv' => [Account!Next]_(Account!vars)
  BY AccountStep DEF IInv, LedgerInvariant
<1>5. Init => Account!Init
  <2> SUFFICES ASSUME Init
               PROVE  Account!Init
    OBVIOUS
  <2>1. Entries = {} /\ DOMAIN signals = {}
    BY DEF Init, Entries
  <2>2. OpenInLedger = {} /\ Traded = {} /\ Decided = {}
    BY <2>1 DEF OpenInLedger, Traded, Decided
  <2> QED
    BY <2>2 DEF Account!Init
<1> HIDE DEF Inv
<1> QED
  BY <1>1, <1>3, <1>4, <1>5, PTL DEF Spec, AccountSpec, Account!Spec

-----------------------------------------------------------------------------
(***************************************************************************)
(* DecisionsReplay: the signals in the ledger are those of one pass over   *)
(* the bars, however runs cut the feed into batches and wherever they die. *)
(*                                                                         *)
(* One pass takes a candidate that comes a cooldown after every candidate  *)
(* it took before.  There is exactly one such set (GreedyUnique and        *)
(* GreedyExists, by least counterexample), the recursive function of       *)
(* Replay computes it (ReplayIsGreedy), and more rows leave what it says   *)
(* of the bars so far as it was (SignalledKept).  A run then needs no more *)
(* than its last signal and the activity of its last bar to continue it.   *)
(***************************************************************************)

\* The bars of the whole feed.
Seen == BarsUpTo(Len(feed))

\* A bar whose candidate is active while that of the bar before it is not.
Rise(b) ==
    /\ b \in active
    /\ \A d \in Seen : d < b /\ (\A e \in Seen : e < b => e <= d) => d \notin active

\* The candidates of one pass, and those of a set of candidates that the
\* cooldown lets through, taken in order.
Candidates(from, upto) == {b \in Seen : b <= upto /\ b > from /\ Rise(b)}
Greedy(S, C) == S = {c \in C : \A d \in S : d < c => c - d >= Cooldown}

\* The signals of one pass over all bars so far.
Signalled == CHOOSE S \in SUBSET Seen : Greedy(S, {b \in Seen : b > warm /\ Rise(b)})

-----------------------------------------------------------------------------
LastBar == IF disk.lastBar = None THEN 0 ELSE disk.lastBar
SignalledUpTo(n) == {s \in Signalled : s <= n}

\* x is the last of S, None if there is none.
IsLast(x, S) == IF S = {} THEN x = None ELSE x \in S /\ \A s \in S : s <= x

\* No signal before the warm-up, none but those of the one pass after it, and
\* none of those up to the last processed bar is missing.
SavedDecisions ==
    /\ disk = None => warm = None /\ Decided = {}
    /\ disk # None =>
          /\ warm \in Nat /\ warm <= LastBar
          /\ Decided \subseteq Signalled
          /\ SignalledUpTo(LastBar) \subseteq Decided
          /\ IsLast(disk.lastSignal, SignalledUpTo(LastBar))

\* The bars a run is done with come before those left to decide, their signals
\* are in the ledger, and the locals tell the last signal and the last bar.
Passed == Complete(run.upto) \ run.todo
RunDecisions ==
    Scanning =>
        /\ \A b \in Passed, c \in run.todo : b < c
        /\ Passed \intersect Signalled \subseteq Decided
        /\ IsLast(run.lastSignal, Passed \intersect Signalled)
        /\ pc # "entered" =>
              (run.wasActive <=> \E m \in Passed : m \in active /\ \A b \in Passed : b <= m)
        /\ pc = "entered" => run.open.sig \in Signalled

\* No bar is decided before its time.
DecidedInTime == \A d \in Decided : d <= now

DecisionInvariant == SavedDecisions /\ RunDecisions /\ DecidedInTime

-----------------------------------------------------------------------------
(* What a greedy pass takes                                                *)

LEMMA GreedyUnique ==
    ASSUME NEW C \in SUBSET Nat, NEW S, NEW T, Greedy(S, C), Greedy(T, C)
    PROVE  S = T
<1>0. /\ S \subseteq C /\ T \subseteq C
      /\ \A c \in C : c \in S <=> \A d \in S : d < c => c - d >= Cooldown
      /\ \A c \in C : c \in T <=> \A d \in T : d < c => c - d >= Cooldown
  BY DEF Greedy
<1> DEFINE D == {c \in C : ~(c \in S <=> c \in T)}
<1>1. SUFFICES ASSUME D # {}
               PROVE  FALSE
  BY <1>0
<1>2. D \subseteq Nat
  OBVIOUS
<1>3. Min(D) \in D /\ \A x \in D : Min(D) <= x
  BY <1>1, <1>2, LeastExists
<1>4. PICK c \in D : \A x \in D : c <= x
  BY <1>3
<1>5. \A d \in C : d < c => (d \in S <=> d \in T)
  <2> SUFFICES ASSUME NEW d \in C, d < c, d \in D
               PROVE  FALSE
    OBVIOUS
  <2>1. c <= d /\ c \in Nat /\ d \in Nat
    BY <1>4
  <2> QED
    BY <2>1
<1>6. c \in S <=> c \in T
  BY <1>0, <1>4, <1>5
<1> QED
  BY <1>4, <1>6

\* Those of the candidates up to k do not depend on the later ones.
LEMMA GreedyPrefix ==
    ASSUME NEW C \in SUBSET Nat, NEW S, Greedy(S, C), NEW k \in Nat
    PROVE  Greedy({s \in S : s <= k}, {c \in C : c <= k})
<1>0. /\ S \subseteq C
      /\ \A c \in C : c \in S <=> \A d \in S : d < c => c - d >= Cooldown
  BY DEF Greedy
<1>1. \A c \in C, d \in S : c <= k /\ d < c => d <= k
  BY <1>0
<1> QED
  BY <1>0, <1>1 DEF Greedy

LEMMA GreedyExists ==
    ASSUME NEW n \in Nat, NEW C \in SUBSET (0..n)
    PROVE  \E S \in SUBSET C : Greedy(S, C)
<1> DEFINE Good(k) == \E S \in SUBSET C : Greedy(S, {c \in C : c <= k})
           Bad == {k \in Nat : ~Good(k)}
<1>0. \A c \in C : c \in Nat /\ c <= n
  OBVIOUS
<1>1. Bad = {}
  <2> SUFFICES ASSUME Bad # {}
               PROVE  FALSE
    OBVIOUS
  <2>1. Min(Bad) \in Bad /\ \A k \in Bad : Min(Bad) <= k
    BY LeastExists
  <2>2. PICK m \in Bad : \A k \in Bad : m <= k
    BY <2>1
  <2>a. m \in Nat
    OBVIOUS
  <2> HIDE DEF Good, Bad
  <2>3. \E S \in SUBSET C : Greedy(S, {c \in C : c < m})
    <3>1. CASE m = 0
      <4>1. {c \in C : c < m} = {}
        <5>1. \A c \in C : ~(c < m)
          BY <1>0, <2>a, <3>1
        <5> QED
          BY <5>1
      <4>2. Greedy({}, {})
        BY DEF Greedy
      <4> QED
        BY <4>1, <4>2
    <3>2. CASE m # 0
      <4>1. m - 1 \in Nat /\ ~(m <= m - 1)
        BY <2>a, <3>2
      <4>2. Good(m - 1)
        BY <2>2, <4>1 DEF Bad
      <4>3. {c \in C : c <= m - 1} = {c \in C : c < m}
        <5>1. \A c \in C : c <= m - 1 <=> c < m
          BY <1>0, <2>a, <3>2
        <5> QED
          BY <5>1
      <4> QED
        BY <4>2, <4>3 DEF Good
    <3> QED
      BY <3>1, <3>2
  <2>4. PICK S \in SUBSET C : Greedy(S, {c \in C : c < m})
    BY <2>3
  <2>5. /\ \A s \in S : s \in Nat /\ s < m
        /\ \A c \in C : c < m => (c \in S <=> \A d \in S : d < c => c - d >= Cooldown)
    BY <2>4 DEF Greedy
  <2> DEFINE takes == m \in C /\ \A d \in S : m - d >= Cooldown
             T == IF takes THEN S \union {m} ELSE S
  <2>6. T \in SUBSET C /\ \A t \in T : t \in Nat /\ t <= m
    BY <2>5, <2>a
  <2>7. \A c \in C : c <= m => (c \in T <=> \A d \in T : d < c => c - d >= Cooldown)
    <3> SUFFICES ASSUME NEW c \in C, c <= m
                 PROVE  c \in T <=> \A d \in T : d < c => c - d >= Cooldown
      OBVIOUS
    <3>1. c \in Nat /\ m \in Nat
      BY <1>0, <2>a
    <3>2. \A d \in T : d < c => d \in S
      BY <3>1
    <3>3. S \subseteq T
      OBVIOUS
    <3>4. CASE c < m
      <4>1. c \in T <=> c \in S
        BY <3>1, <3>4
      <4> HIDE DEF T
      <4> QED
        BY <2>5, <3>2, <3>3, <3>4, <4>1
    <3>5. CASE c = m
      <4>1. c \in T <=> takes
        BY <2>5, <3>5
      <4>2. takes <=> \A d \in S : d < c => c - d >= Cooldown
        BY <2>5, <3>5
      <4> HIDE DEF T, takes
      <4> QED
        BY <3>2, <3>3, <4>1, <4>2
    <3> QED
      BY <3>1, <3>4, <3>5
  <2> HIDE DEF T
  <2>8. T = {c \in {cc \in C : cc <= m} : \A d \in T : d < c => c - d >= Cooldown}
    BY <2>6, <2>7
  <2>9. Good(m)
    BY <2>6, <2>8 DEF Greedy, Good
  <2> QED
    BY <2>9 DEF Bad
<1>2. Good(n)
  BY <1>1
<1>3. {c \in C : c <= n} = C
  BY <1>0
<1> QED
  BY <1>2, <1>3

-----------------------------------------------------------------------------
(* The recursive function of Replay                                        *)

Bars(upto) == {b \in BarsUpTo(Len(feed)) : b <= upto}
Before(b, upto) == {d \in Bars(upto) : d < b}
Edge(b, upto) ==
    b \in active /\ (Before(b, upto) = {} \/ Max(Before(b, upto)) \notin active)

\* What the pass has taken up to bar b, having taken "earlier" before it.
Taken(earlier, b, from, upto) ==
    IF /\ b > from /\ Edge(b, upto)
       /\ earlier = {} \/ b - Max(earlier) >= Cooldown
    THEN earlier \union {b}
    ELSE earlier

Passes(g, from, upto) ==
    g = [b \in Bars(upto) \union {0} |->
            IF b = 0 THEN {}
            ELSE Taken(g[Max(Before(b, upto) \union {0})], b, from, upto)]

LEMMA ReplayUnfolds ==
    ASSUME NEW from, NEW upto
    PROVE  Replay(from, upto)
             = (CHOOSE g : Passes(g, from, upto))[Max(Bars(upto) \union {0})]
  BY DEF Replay, Passes, Taken, Edge, Before, Bars

\* A bar is a positive natural number.
LEMMA SeenType ==
    ASSUME TypeOK
    PROVE  \A b \in Seen : b \in Nat /\ b > 0
<1>1. ASSUME NEW i \in 1..Len(feed)
      PROVE  BarOf(feed[i]) \in Nat /\ BarOf(feed[i]) > 0
  <2>1. PICK t \in Nat : t = feed[i]
    BY DEF TypeOK
  <2>2. BarOf(t) \in Nat /\ BarOf(t) > t
    BY BarOfType
  <2> QED
    BY <2>1, <2>2
<1> QED
  BY <1>1 DEF Seen, BarsUpTo

\* Its edges are the rises among all bars.
LEMMA EdgeIsRise ==
    ASSUME TypeOK, NEW upto \in Nat, NEW b \in Bars(upto)
    PROVE  Edge(b, upto) <=> Rise(b)
<1>0. /\ b \in Nat /\ b <= upto /\ b \in Seen
      /\ \A d : d \in Before(b, upto) <=> d \in Seen /\ d < b
  BY SeenType DEF Bars, Before, Seen
<1>1. CASE Before(b, upto) = {}
  BY <1>0, <1>1 DEF Edge, Rise
<1>2. CASE Before(b, upto) # {}
  <2>1. ASSUME NEW d \in Before(b, upto)
        PROVE  d \in Nat /\ d <= b
    <3>1. d \in Seen /\ d < b
      BY <1>0
    <3>2. d \in Nat
      BY <3>1, SeenType
    <3> QED
      BY <1>0, <3>1, <3>2
  <2>2. /\ Max(Before(b, upto)) \in Before(b, upto)
        /\ \A d \in Before(b, upto) : Max(Before(b, upto)) >= d
    BY <1>0, <1>2, <2>1, GreatestExists
  <2>3. PICK m \in Before(b, upto) :
           m = Max(Before(b, upto)) /\ \A d \in Before(b, upto) : d <= m
    BY <2>1, <2>2
  <2>4. \A d \in Seen : d < b /\ (\A e \in Seen : e < b => e <= d) <=> d = m
    BY <1>0, <2>1, <2>3
  <2> QED
    BY <1>0, <1>2, <2>3, <2>4 DEF Edge, Rise
<1> QED
  BY <1>1, <1>2

\* The candidates taken before b and the turn of b make those taken up to b.
LEMMA TakenNext ==
    ASSUME TypeOK, NEW from \in Nat, NEW upto \in Nat,
           NEW S, Greedy(S, Candidates(from, upto)), NEW b \in Bars(upto)
    PROVE  Taken({s \in S : s < b}, b, from, upto) = {s \in S : s <= b}
<1> DEFINE E == {s \in S : s < b}
<1>0. b \in Nat /\ b <= upto /\ b \in Seen
  BY SeenType DEF Bars, Seen
<1>1. /\ \A s \in S : s \in Nat
      /\ \A c \in Candidates(from, upto) :
            c \in S <=> \A d \in S : d < c => c - d >= Cooldown
  BY SeenType DEF Greedy, Candidates
<1>2. b \in Candidates(from, upto) <=> b > from /\ Edge(b, upto)
  BY <1>0, EdgeIsRise DEF Candidates
<1>3. S \subseteq Candidates(from, upto)
  BY DEF Greedy
<1>4. (E = {} \/ b - Max(E) >= Cooldown) <=> \A d \in S : d < b => b - d >= Cooldown
  <2>1. CASE E = {}
    BY <2>1
  <2>2. CASE E # {}
    <3>1. E \subseteq Nat /\ \A d \in E : d <= b
      BY <1>0, <1>1
    <3> HIDE DEF E
    <3>2. Max(E) \in E /\ \A d \in E : Max(E) >= d
      BY <1>0, <2>2, <3>1, GreatestExists
    <3>3. PICK m \in E : m = Max(E) /\ \A d \in E : m >= d
      BY <3>2
    <3>4. Cooldown \in Nat
      BY TimingAssumption
    <3>5. b - m >= Cooldown <=> \A d \in E : b - d >= Cooldown
      BY <1>0, <3>1, <3>3, <3>4
    <3> QED
      BY <2>2, <3>3, <3>5 DEF E
  <2> QED
    BY <2>1, <2>2
<1>5. {s \in S : s <= b} = IF b \in S THEN E \union {b} ELSE E
  <2>1. \A s \in S : s <= b <=> s < b \/ s = b
    BY <1>0, <1>1
  <2>2. b <= b
    BY <1>0
  <2> QED
    BY <2>1, <2>2
<1>6. b \in S <=> /\ b > from /\ Edge(b, upto)
                  /\ E = {} \/ b - Max(E) >= Cooldown
  BY <1>1, <1>2, <1>3, <1>4
<1> HIDE DEF E
<1>7. Taken(E, b, from, upto) = IF b \in S THEN E \union {b} ELSE E
  BY <1>6 DEF Taken
<1> QED
  BY <1>5, <1>7 DEF E

\* The bar before b, or 0.
LEMMA BarBefore ==
    ASSUME TypeOK, NEW upto \in Nat, NEW b \in Bars(upto)
    PROVE  \E p \in Bars(upto) \union {0} :
              /\ p = Max(Before(b, upto) \union {0}) /\ p \in Nat /\ p < b
              /\ \A d \in Bars(upto) : d < b <=> d <= p
<1> DEFINE P == Before(b, upto) \union {0}
<1>0. /\ b \in Nat /\ b > 0 /\ b <= upto
      /\ \A d \in Bars(upto) : d \in Nat
  BY SeenType DEF Bars, Seen
<1>1. \A d \in P : d \in Nat /\ d < b /\ d \in Bars(upto) \union {0}
  BY <1>0 DEF Before
<1>2. P # {} /\ P \subseteq Nat /\ \A d \in P : d <= b
  BY <1>0, <1>1
<1>3. \A d \in Bars(upto) : d < b => d \in P
  BY DEF Before
<1> HIDE DEF P
<1>4. Max(P) \in P /\ \A d \in P : Max(P) >= d
  BY <1>0, <1>2, GreatestExists
<1>5. PICK p \in P : p = Max(P) /\ \A d \in P : p >= d
  BY <1>4
<1>6. p \in Nat /\ p < b /\ p \in Bars(upto) \union {0}
  BY <1>1
<1>7. \A d \in Bars(upto) : d < b <=> d <= p
  BY <1>0, <1>3, <1>5, <1>6
<1> QED
  BY <1>5, <1>6, <1>7 DEF P

\* Replay is the greedy pass over the bars after "from" up to "upto".
LEMMA ReplayIsGreedy ==
    ASSUME TypeOK, NEW from \in Nat, NEW upto \in Nat
    PROVE  Greedy(Replay(from, upto), Candidates(from, upto))
<1> DEFINE B == Bars(upto) \union {0}
<1>1. \A b \in Bars(upto) : b \in Nat /\ b > 0 /\ b <= upto
  BY SeenType DEF Bars, Seen
<1>2. \A c \in Candidates(from, upto) : c \in 0..upto /\ c \in Bars(upto)
  BY SeenType DEF Candidates, Bars, Seen
<1>3. PICK S \in SUBSET Candidates(from, upto) : Greedy(S, Candidates(from, upto))
  <2>1. Candidates(from, upto) \in SUBSET (0..upto)
    BY <1>2
  <2> QED
    BY <2>1, GreedyExists
<1> DEFINE UpTo(b) == {s \in S : s <= b}
<1>4. ASSUME NEW b \in Bars(upto), NEW g, \A d \in B : d < b => g[d] = UpTo(d)
      PROVE  Taken(g[Max(Before(b, upto) \union {0})], b, from, upto) = UpTo(b)
  <2>1. PICK p \in B : /\ p = Max(Before(b, upto) \union {0}) /\ p < b
                       /\ \A d \in Bars(upto) : d < b <=> d <= p
    BY BarBefore
  <2>2. UpTo(p) = {s \in S : s < b}
    BY <1>2, <2>1
  <2>3. g[p] = {s \in S : s < b}
    BY <1>4, <2>1, <2>2
  <2>4. Taken({s \in S : s < b}, b, from, upto) = UpTo(b)
    BY <1>3, TakenNext
  <2> QED
    BY <2>1, <2>3, <2>4
<1>5. UpTo(0) = {}
  BY <1>1, <1>2
<1>6. Passes([b \in B |-> UpTo(b)], from, upto)
  <2> DEFINE h == [b \in B |-> UpTo(b)]
  <2>1. \A d \in B : h[d] = UpTo(d)
    OBVIOUS
  <2> HIDE DEF h, UpTo
  <2>2. ASSUME NEW b \in B
        PROVE  UpTo(b) = IF b = 0 THEN {}
                         ELSE Taken(h[Max(Before(b, upto) \union {0})], b, from, upto)
    <3>1. CASE b = 0
      BY <1>5, <3>1
    <3>2. CASE b # 0
      <4>1. b \in Bars(upto)
        BY <3>2
      <4> QED
        BY <1>4, <2>1, <3>2, <4>1
    <3> QED
      BY <3>1, <3>2
  <2>3. h = [b \in B |-> IF b = 0 THEN {}
                         ELSE Taken(h[Max(Before(b, upto) \union {0})], b, from, upto)]
    BY <2>2 DEF h
  <2> QED
    BY <2>3 DEF h, Passes
<1>7. ASSUME NEW g, Passes(g, from, upto)
      PROVE  \A b \in B : g[b] = UpTo(b)
  <2> DEFINE D == {b \in B : g[b] # UpTo(b)}
  <2>1. \A b \in B : g[b] = IF b = 0 THEN {}
                            ELSE Taken(g[Max(Before(b, upto) \union {0})], b, from, upto)
    BY <1>7, Zenon DEF Passes
  <2> SUFFICES ASSUME D # {}
               PROVE  FALSE
    OBVIOUS
  <2>2. D \subseteq Nat
    BY <1>1
  <2>3. Min(D) \in D /\ \A x \in D : Min(D) <= x
    BY <2>2, LeastExists
  <2>4. PICK b \in D : \A x \in D : b <= x
    BY <2>3
  <2>5. b \in B /\ g[b] # UpTo(b)
    OBVIOUS
  <2>6. ASSUME NEW d \in B, d < b
        PROVE  g[d] = UpTo(d)
    <3>1. b \in Nat /\ d \in Nat
      BY <1>1, <2>5
    <3>2. ~(b <= d)
      BY <2>6, <3>1
    <3> QED
      BY <2>4, <3>2
  <2> HIDE DEF D, UpTo
  <2>7. CASE b = 0
    BY <1>5, <2>1, <2>5, <2>7
  <2>8. CASE b # 0
    <3>1. b \in Bars(upto)
      BY <2>5, <2>8
    <3>2. Taken(g[Max(Before(b, upto) \union {0})], b, from, upto) = UpTo(b)
      BY <1>4, <2>6, <3>1
    <3> QED
      BY <2>1, <2>5, <2>8, <3>2
  <2> QED
    BY <2>7, <2>8
<1>8. Max(B) \in B /\ \A b \in B : Max(B) >= b
  <2>1. B # {} /\ B \subseteq Nat /\ \A b \in B : b <= upto
    BY <1>1
  <2> QED
    BY <2>1, GreatestExists
<1>9. UpTo(Max(B)) = S
  <2>1. PICK top \in B : top = Max(B) /\ \A b \in B : top >= b
    BY <1>8
  <2>2. \A s \in S : s <= top
    BY <1>1, <1>2, <2>1
  <2> QED
    BY <2>1, <2>2
<1> DEFINE pick == CHOOSE g : Passes(g, from, upto)
<1> HIDE DEF UpTo, B
<1>10. Passes(pick, from, upto)
  BY <1>6, Zenon
<1> HIDE DEF pick
<1>11. pick[Max(B)] = S
  BY <1>7, <1>8, <1>9, <1>10
<1>12. Replay(from, upto) = pick[Max(B)]
  BY ReplayUnfolds DEF pick, B
<1> QED
  BY <1>3, <1>11, <1>12

-----------------------------------------------------------------------------
(* The signals of one pass, as the feed grows                              *)

\* The bars so far lie below some bound.
LEMMA SeenBounded ==
    ASSUME TypeOK, FeedOrdered
    PROVE  \E n \in Nat : \A b \in Seen : b \in 0..n
<1>1. now \in Nat /\ BarLen \in Nat \ {0}
  BY TimingAssumption DEF TypeOK
<1>2. ASSUME NEW i \in 1..Len(feed)
      PROVE  BarOf(feed[i]) <= now + BarLen
  <2>1. PICK t \in Nat : t = feed[i] /\ t <= now
    BY DEF TypeOK, FeedOrdered
  <2>2. t % BarLen \in Nat
    BY <1>1
  <2>3. BarOf(t) <= now + BarLen
    BY <1>1, <2>1, <2>2 DEF BarOf
  <2> QED
    BY <2>1, <2>3
<1>3. \A b \in Seen : b \in 0..(now + BarLen)
  BY <1>1, <1>2, SeenType DEF Seen, BarsUpTo
<1> QED
  BY <1>1, <1>3

LEMMA SignalledIsGreedy ==
    ASSUME TypeOK, FeedOrdered
    PROVE  /\ Greedy(Signalled, {b \in Seen : b > warm /\ Rise(b)})
           /\ Signalled \subseteq Seen
           /\ \A s \in Signalled : s \in Nat /\ s > 0 /\ s > warm
<1> DEFINE C == {b \in Seen : b > warm /\ Rise(b)}
<1>1. PICK n \in Nat : \A b \in Seen : b \in 0..n
  BY SeenBounded
<1>2. PICK S \in SUBSET C : Greedy(S, C)
  <2>1. C \in SUBSET (0..n)
    BY <1>1
  <2> QED
    BY <2>1, GreedyExists
<1>3. S \in SUBSET Seen
  OBVIOUS
<1> HIDE DEF C
<1>4. Signalled \in SUBSET Seen /\ Greedy(Signalled, C)
  BY <1>2, <1>3, Zenon DEF Signalled, C
<1>5. Signalled \subseteq C
  BY <1>4 DEF Greedy
<1> QED
  BY <1>4, <1>5, SeenType DEF C

\* What the one pass says of the bars up to n is what Replay says.
LEMMA ReplayIsSignalled ==
    ASSUME TypeOK, FeedOrdered, warm \in Nat, NEW n \in Nat
    PROVE  Replay(warm, n) = SignalledUpTo(n)
<1> DEFINE C == {b \in Seen : b > warm /\ Rise(b)}
<1>1. C \in SUBSET Nat
  BY SeenType
<1>2. Greedy(SignalledUpTo(n), {c \in C : c <= n})
  BY <1>1, SignalledIsGreedy, GreedyPrefix DEF SignalledUpTo
<1>3. {c \in C : c <= n} = Candidates(warm, n)
  BY DEF Candidates
<1>4. Greedy(Replay(warm, n), Candidates(warm, n))
  BY ReplayIsGreedy
<1>5. Candidates(warm, n) \in SUBSET Nat
  BY SeenType DEF Candidates
<1> QED
  BY <1>2, <1>3, <1>4, <1>5, GreedyUnique

\* A later quote falls in no earlier bar.
LEMMA BarOfMonotone ==
    ASSUME NEW s \in Nat, NEW t \in Nat, s <= t
    PROVE  BarOf(s) <= BarOf(t)
<1>1. BarLen \in Nat \ {0}
  BY TimingAssumption
<1> DEFINE p == s \div BarLen
           q == t \div BarLen
<1>2. /\ s = BarLen * p + (s % BarLen) /\ t = BarLen * q + (t % BarLen)
      /\ p \in Nat /\ q \in Nat
      /\ s % BarLen \in 0..(BarLen - 1) /\ t % BarLen \in 0..(BarLen - 1)
  BY <1>1
<1>3. BarOf(s) = BarLen * p + BarLen /\ BarOf(t) = BarLen * q + BarLen
  BY <1>1, <1>2 DEF BarOf
<1> HIDE DEF p, q
<1>4. CASE p <= q
  <2>1. BarLen * p <= BarLen * q
    BY <1>1, <1>2, <1>4
  <2> QED
    BY <1>1, <1>2, <1>3, <2>1
<1>5. CASE q + 1 <= p
  <2>1. BarLen * (q + 1) <= BarLen * p /\ BarLen * (q + 1) = BarLen * q + BarLen
    BY <1>1, <1>2, <1>5
  <2> QED
    BY <1>1, <1>2, <2>1
<1> QED
  BY <1>2, <1>4, <1>5

\* All bars no later than a complete one are complete.
LEMMA EarlierBarsComplete ==
    ASSUME TypeOK, FeedOrdered, NEW n \in 0..Len(feed), NEW c \in Complete(n),
           NEW b \in Seen, b <= c
    PROVE  b \in Complete(n)
<1>1. n \in 1..Len(feed) /\ c \in Nat /\ c <= feed[n] /\ b \in Nat
  BY CompleteType, SeenType
<1>2. PICK i \in 1..Len(feed) : b = BarOf(feed[i])
  BY DEF Seen, BarsUpTo
<1>3. PICK t \in Nat : t = feed[i]
  BY DEF TypeOK
<1>4. PICK s \in Nat : s = feed[n]
  BY <1>1 DEF TypeOK
<1>5. BarOf(t) \in Nat /\ BarOf(t) > t
  BY BarOfType
<1>6. i <= n
  <2>1. ~(s <= t)
    BY <1>1, <1>2, <1>3, <1>4, <1>5
  <2>2. n <= i => s <= t
    BY <1>1, <1>3, <1>4, SMTT(30) DEF FeedOrdered, TypeOK
  <2> QED
    BY <1>1, <2>1, <2>2
<1>7. b \in BarsUpTo(n)
  BY <1>1, <1>2, <1>6 DEF BarsUpTo
<1>8. b <= feed[n]
  BY <1>1, <1>4
<1> QED
  BY <1>7, <1>8 DEF Complete

LEMMA CompleteIsSeen ==
    ASSUME TypeOK, NEW n \in 0..Len(feed)
    PROVE  Complete(n) \subseteq Seen
<1>1. Len(feed) \in Nat
  BY DEF TypeOK
<1>2. \A i \in 1..n : i \in 1..Len(feed)
  BY <1>1
<1> QED
  BY <1>2 DEF Complete, Seen, BarsUpTo

\* A row appended to the feed adds no bar between or before those there are,
\* nor does it change which of them rise.
LEMMA RisesKept ==
    ASSUME TypeOK, FeedOrdered, [Next]_vars
    PROVE  /\ Seen \subseteq Seen'
           /\ \E n \in Nat :
                 /\ \A b \in Seen : b <= n
                 /\ \A b \in Seen' : b <= n => b \in Seen
                 /\ \A b \in Seen : Rise(b)' <=> Rise(b)
<1>1. CASE Quote
  <2>0. feed \in Seq(Nat) /\ Len(feed) \in Nat /\ now \in Nat /\ LatestRow \in Nat
    BY DEF TypeOK, LatestRow
  <2>1. PICK at \in LatestRow..now :
          /\ feed' = Append(feed, at)
          /\ \/ active' = active
             \/ BarOf(at) \notin Seen /\ active' = active \union {BarOf(at)}
    BY <1>1 DEF Quote, Seen
  <2>2. at \in Nat
    BY <2>0
  <2> DEFINE k == BarOf(at)
  <2>3. k \in Nat /\ k > at
    BY <2>2, BarOfType
  <2>4. Seen' = Seen \union {k}
    <3>1. Len(feed') = Len(feed) + 1 /\ feed'[Len(feed) + 1] = at
          /\ \A i \in 1..Len(feed) : feed'[i] = feed[i]
      BY <2>0, <2>1, <2>2
    <3>2. Seen' = {BarOf(feed'[i]) : i \in 1..(Len(feed) + 1)}
      BY <3>1 DEF Seen, BarsUpTo, BarOf
    <3>3. \A i : i \in 1..(Len(feed) + 1) <=> i \in 1..Len(feed) \/ i = Len(feed) + 1
      BY <2>0
    <3> QED
      BY <3>1, <3>2, <3>3 DEF Seen, BarsUpTo
  <2>5. ASSUME NEW b \in Seen
        PROVE  b <= k
    <3>1. PICK i \in 1..Len(feed) : b = BarOf(feed[i])
      BY DEF Seen, BarsUpTo
    <3>2. PICK t \in Nat : t = feed[i]
      BY <2>0
    <3>3. t <= at
      <4>1. feed[i] <= feed[Len(feed)] /\ feed # <<>>
        BY <2>0 DEF FeedOrdered
      <4>2. LatestRow = feed[Len(feed)]
        BY <4>1 DEF LatestRow
      <4> QED
        BY <2>0, <2>2, <3>2, <4>1, <4>2
    <3> QED
      BY <2>2, <3>1, <3>2, <3>3, BarOfMonotone
  <2>6. \A b \in Seen : b \in Nat /\ b > 0
    BY SeenType
  <2> HIDE DEF k
  <2>7. CASE k \in Seen
    <3>1. Seen' = Seen /\ active' = active
      BY <2>1, <2>4, <2>7 DEF k
    <3>2. \A b \in Seen : Rise(b)' <=> Rise(b)
      BY <3>1 DEF Rise
    <3> QED
      BY <2>3, <2>5, <3>1, <3>2
  <2>8. CASE k \notin Seen
    <3>1. \A b \in Seen : b < k /\ b # k
      BY <2>3, <2>5, <2>6, <2>8
    <3>2. \A b \in Seen : b \in active' <=> b \in active
      BY <2>1, <3>1 DEF k
    <3>3. ASSUME NEW b \in Seen
          PROVE  Rise(b)' <=> Rise(b)
      <4>1. \A d \in Seen' : d < b => d \in Seen
        BY <2>3, <2>4, <2>6, <3>1
      <4>2. Seen \subseteq Seen'
        BY <2>4
      <4>3. (\A d \in Seen' : d < b /\ (\A e \in Seen' : e < b => e <= d) => d \notin active')
              <=> (\A d \in Seen : d < b /\ (\A e \in Seen : e < b => e <= d) => d \notin active)
        BY <3>2, <4>1, <4>2
      <4> QED
        BY <3>2, <4>3 DEF Rise
    <3>4. CASE k = 0
      BY <2>3, <2>2, <3>4
    <3>5. CASE k # 0
      <4>1. k - 1 \in Nat /\ (\A b \in Seen : b <= k - 1) /\ ~(k <= k - 1)
        BY <2>3, <2>6, <3>1, <3>5
      <4> QED
        BY <2>4, <3>3, <4>1
    <3> QED
      BY <3>4, <3>5
  <2> QED
    BY <2>7, <2>8
<1>2. CASE ~Quote
  <2>1. feed' = feed /\ active' = active
    <3>1. ASSUME NEW c \in run.todo, PassOver(c) \/ Decline(c) \/ EnterPosition(c)
          PROVE  feed' = feed /\ active' = active
      BY <3>1 DEF PassOver, Decline, EnterPosition, env
    <3> QED
      BY <1>2, <3>1 DEF Next, Step, Tick, Start, NoQuotes, NoNewQuotes, WarmUp, Observe,
                   KeepPosition, ExitPosition, RecordEntry, SaveState, Crash, env, vars
  <2>2. Seen' = Seen
    BY <2>1 DEF Seen, BarsUpTo, BarOf
  <2>3. \A b \in Seen : Rise(b)' <=> Rise(b)
    BY <2>1, <2>2 DEF Rise
  <2>4. PICK n \in Nat : \A b \in Seen : b \in 0..n
    BY SeenBounded
  <2> QED
    BY <2>2, <2>3, <2>4
<1> QED
  BY <1>1, <1>2

\* What the one pass says of the bars so far does not change with more rows.
LEMMA SignalledKept ==
    ASSUME IInv, [Next]_vars, warm' = warm
    PROVE  /\ Signalled = {s \in Signalled' : s \in Seen}
           /\ Seen \subseteq Seen'
           /\ \A s \in Signalled', b \in Seen : s <= b => s \in Seen
<1>0. TypeOK /\ FeedOrdered /\ TypeOK' /\ FeedOrdered'
  BY IInvStep DEF IInv, SafetyInvariant
<1> DEFINE C == {b \in Seen : b > warm /\ Rise(b)}
<1>1. /\ Greedy(Signalled, C) /\ Signalled \subseteq Seen
      /\ Greedy(Signalled', C') /\ Signalled' \subseteq Seen'
  <2>1. Greedy(Signalled, C) /\ Signalled \subseteq Seen
    BY <1>0, SignalledIsGreedy
  <2>2. (TypeOK /\ FeedOrdered => Greedy(Signalled, C) /\ Signalled \subseteq Seen)'
    BY SignalledIsGreedy, PTL
  <2>3. Greedy(Signalled, C)' /\ (Signalled \subseteq Seen)'
    BY <1>0, <2>2
  <2> QED
    BY <2>1, <2>3 DEF Greedy
<1>2. PICK n \in Nat :
        /\ \A b \in Seen : b <= n
        /\ \A b \in Seen' : b <= n => b \in Seen
        /\ \A b \in Seen : Rise(b)' <=> Rise(b)
  BY <1>0, RisesKept
<1>3. Seen \subseteq Seen'
  BY <1>0, RisesKept
<1>4. {c \in C' : c <= n} = C
  BY <1>2, <1>3
<1>t. \A b \in Seen' : b \in Nat
  <2>1. (TypeOK => \A b \in Seen : b \in Nat /\ b > 0)'
    BY SeenType, PTL
  <2> QED
    BY <1>0, <2>1
<1>5. C \in SUBSET Nat /\ C' \in SUBSET Nat
  <2>1. \A b \in Seen : b \in Nat
    BY <1>0, SeenType
  <2> QED
    BY <1>t, <2>1
<1>6. Signalled = {s \in Signalled' : s <= n}
  <2> HIDE DEF C
  <2>1. Greedy({s \in Signalled' : s <= n}, C)
    BY <1>1, <1>4, <1>5, GreedyPrefix
  <2> QED
    BY <1>1, <1>5, <2>1, GreedyUnique
<1>7. {s \in Signalled' : s <= n} = {s \in Signalled' : s \in Seen}
  BY <1>1, <1>2
<1>8. ASSUME NEW s \in Signalled', NEW b \in Seen, s <= b
      PROVE  s \in Seen
  <2>1. s \in Nat /\ b \in Nat /\ b <= n /\ s \in Seen'
    BY <1>0, <1>1, <1>2, <1>t, SeenType
  <2> QED
    BY <1>2, <1>8, <2>1
<1> QED
  BY <1>3, <1>6, <1>7, <1>8

-----------------------------------------------------------------------------
(* A run continues the one pass                                            *)

\* The bars a run has passed are all those before the one whose turn it is.
LEMMA PassedIsBefore ==
    ASSUME IInv, RunDecisions, NEW c \in run.todo, IsNext(c)
    PROVE  /\ c \in Nat /\ c \in Seen /\ c \in Complete(run.upto)
           /\ run.upto \in 0..Len(feed) /\ disk # None /\ Scanning
           /\ \A d \in Seen : d < c <=> d \in Passed
           /\ Passed \subseteq Seen
<1>0. TypeOK /\ FeedOrdered /\ RunOnSavedState /\ Deciding /\ pc = "scan" /\ Scanning
  BY DEF IInv, SafetyInvariant, IsNext, Scanning
<1>1. run.upto \in 0..Len(feed) /\ c \in Complete(run.upto) /\ disk # None
  BY <1>0, BatchRows DEF Deciding
<1>2. Complete(run.upto) \subseteq Seen /\ c \in Nat
  BY <1>0, <1>1, CompleteIsSeen, CompleteType
<1>3. ASSUME NEW d \in Seen, d < c
      PROVE  d \in Passed
  <2>1. d \in Nat /\ d <= c
    BY <1>0, <1>2, <1>3, SeenType
  <2>2. d \in Complete(run.upto)
    BY <1>0, <1>1, <2>1, EarlierBarsComplete
  <2>3. d \notin run.todo
    BY <1>2, <1>3, <2>1 DEF IsNext
  <2> QED
    BY <2>2, <2>3 DEF Passed
<1>4. \A d \in Passed : d < c
  BY <1>0 DEF RunDecisions
<1> QED
  BY <1>0, <1>1, <1>2, <1>3, <1>4 DEF Passed

\* The run decides as the one pass does.
LEMMA TurnDecides ==
    ASSUME IInv, DecisionInvariant, NEW c \in run.todo, IsNext(c)
    PROVE  c \in Signalled <=> Rising(c) /\ Cooled(c)
<1>0. /\ TypeOK /\ FeedOrdered /\ Deciding /\ SavedDecisions /\ RunDecisions
      /\ pc = "scan" /\ Scanning
  BY DEF IInv, SafetyInvariant, DecisionInvariant, IsNext, Scanning
<1>1. /\ c \in Nat /\ c \in Seen /\ disk # None
      /\ \A d \in Seen : d < c <=> d \in Passed
      /\ Passed \subseteq Seen
  BY <1>0, PassedIsBefore
<1>2. c > warm
  <2>1. warm \in Nat /\ warm <= LastBar
    BY <1>0, <1>1 DEF SavedDecisions
  <2>2. disk.lastBar \in Nat \union {None} /\ c > 0
    BY <1>0, <1>1, SignalTypes, SeenType
  <2>3. disk.lastBar # None => c > disk.lastBar
    BY <1>0 DEF Deciding
  <2> QED
    BY <1>1, <2>1, <2>2, <2>3 DEF LastBar
<1>3. \A d \in Seen : d \in Nat
  BY <1>0, SeenType
<1>4. Rise(c) <=> Rising(c)
  <2>1. run.wasActive <=> \E m \in Passed : m \in active /\ \A b \in Passed : b <= m
    BY <1>0 DEF RunDecisions
  <2>2. (\E m \in Passed : m \in active /\ \A b \in Passed : b <= m)
          <=> \E m \in Seen : m < c /\ (\A b \in Seen : b < c => b <= m) /\ m \in active
    BY <1>1
  <2> QED
    BY <2>1, <2>2 DEF Rise, Rising
<1>5. /\ Signalled \subseteq Seen
      /\ Greedy(Signalled, {b \in Seen : b > warm /\ Rise(b)})
  BY <1>0, SignalledIsGreedy
<1>6. c \in Signalled <=> Rise(c) /\ \A d \in Signalled : d < c => c - d >= Cooldown
  BY <1>1, <1>2, <1>5 DEF Greedy
<1>7. (\A d \in Signalled : d < c => c - d >= Cooldown) <=> Cooled(c)
  <2> DEFINE P == Passed \intersect Signalled
  <2>1. \A d \in Signalled : d < c <=> d \in P
    BY <1>1, <1>5
  <2>2. IsLast(run.lastSignal, P)
    BY <1>0 DEF RunDecisions
  <2>3. \A d \in P : d \in Nat /\ d \in Signalled
    BY <1>3, <1>5
  <2> HIDE DEF P
  <2>4. CASE P = {}
    <3>1. run.lastSignal = None
      BY <2>2, <2>4 DEF IsLast
    <3> QED
      BY <2>1, <2>4, <3>1 DEF Cooled
  <2>5. CASE P # {}
    <3>1. PICK l \in P : l = run.lastSignal /\ \A d \in P : d <= l
      BY <2>2, <2>5 DEF IsLast
    <3>2. l \in Nat /\ l # None
      BY <2>3, NoneAssumption
    <3>3. Cooldown \in Nat
      BY TimingAssumption
    <3>4. Cooled(c) <=> c - l >= Cooldown
      BY <3>1, <3>2 DEF Cooled
    <3>5. (\A d \in P : c - d >= Cooldown) <=> c - l >= Cooldown
      BY <1>1, <2>3, <3>1, <3>2, <3>3
    <3> QED
      BY <2>1, <2>3, <3>4, <3>5
  <2> QED
    BY <2>4, <2>5
<1> QED
  BY <1>4, <1>6, <1>7

\* Every signal a run records is one of the one pass.
LEMMA DecidedGrows ==
    ASSUME IInv, SignalInvariant, DecisionInvariant, [Next]_vars
    PROVE  /\ Decided \subseteq Decided'
           /\ disk = None => Decided' = Decided
           /\ \A d \in Decided' : d \in Decided \/ (d \in Signalled /\ d <= now)
<1>0. TypeOK /\ Deciding /\ RunDecisions /\ RunSignal /\ signals \in Seq(Signal)
  BY DEF IInv, SafetyInvariant, DecisionInvariant, SignalInvariant, TypeOK
<1>a. ASSUME NEW c \in run.todo, Scanning
      PROVE  c <= now
  <2>1. run.upto \in 0..Len(feed) /\ c \in Complete(run.upto)
    BY <1>0, <1>a, BatchRows DEF IInv, SafetyInvariant, Deciding, Scanning
  <2>2. c \in Nat /\ run.upto \in 1..Len(feed) /\ c <= feed[run.upto]
    BY <1>0, <2>1, CompleteType
  <2>3. feed[run.upto] \in Nat /\ feed[run.upto] <= now /\ now \in Nat
    BY <1>0, <2>2 DEF TypeOK, IInv, SafetyInvariant, FeedOrdered
  <2> QED
    BY <2>2, <2>3
<1>1. CASE signals' = signals
  BY <1>1 DEF Decided
<1>2. CASE RecordEntry /\ signals' = Append(signals, [sig |-> run.open.sig,
                                        disposition |-> "hypothetical_entry"])
  <2>1. Decided' = Decided \union {run.open.sig}
    BY <1>0, <1>2, SignalSets
  <2>2. run.open.sig \in Signalled /\ disk # None /\ run.open.sig <= now
    BY <1>0, <1>a, <1>2 DEF RecordEntry, RunDecisions, RunSignal, Scanning, Deciding
  <2> QED
    BY <2>1, <2>2
<1>3. ASSUME NEW c \in run.todo, Decline(c),
             signals' = Append(signals, [sig |-> c, disposition |-> Disposition(c)])
      PROVE  /\ Decided' = Decided \union {c} /\ c \in Signalled /\ disk # None /\ c <= now
  <2>1. Decided' = Decided \union {c}
    BY <1>0, <1>3, SignalSets
  <2>2. IsNext(c) /\ Rising(c) /\ Cooled(c) /\ pc = "scan"
    BY <1>3 DEF Decline, IsNext
  <2> QED
    BY <1>0, <1>a, <2>1, <2>2, TurnDecides DEF Deciding, Scanning
<1> QED
  BY <1>1, <1>2, <1>3, SignalRows

-----------------------------------------------------------------------------
(* DecisionInvariant is inductive                                          *)

LEMMA DiskSteps ==
    ASSUME IInv, [Next]_vars
    PROVE  disk' = disk \/ WarmUp \/ SaveState
<1>1. NoNewQuotes => disk' = disk
  BY DEF NoNewQuotes, RunOnSavedState, IInv, SafetyInvariant
<1>2. ASSUME NEW c \in run.todo, PassOver(c) \/ Decline(c) \/ EnterPosition(c)
      PROVE  disk' = disk
  BY <1>2 DEF PassOver, Decline, EnterPosition
<1> QED
  BY <1>1, <1>2 DEF Next, Step, Tick, Quote, Start, NoQuotes, Observe, KeepPosition,
                    ExitPosition, RecordEntry, Crash, vars

\* The last processed bar is one of the bars so far, if it is any.
LEMMA LastBarIsSeen ==
    ASSUME IInv, disk # None
    PROVE  /\ LastBar \in Nat
           /\ LastBar = 0 \/ (disk.lastBar = LastBar /\ LastBar \in Seen)
           /\ disk.cursor \in 0..Len(feed)
           /\ disk.lastBar # None => LastBar = disk.lastBar /\ LastBar \in Complete(disk.cursor)
<1>0. TypeOK /\ SavedState /\ disk.lastBar \in Nat \union {None} /\ disk.cursor \in Nat
  BY SignalTypes DEF IInv, SafetyInvariant
<1>1. disk.cursor \in 0..Len(feed)
  BY <1>0 DEF SavedState, TypeOK
<1>2. disk.lastBar # None => disk.lastBar \in Complete(disk.cursor) /\ disk.lastBar \in Seen
  BY <1>0, <1>1, CompleteIsSeen DEF SavedState
<1>3. CASE disk.lastBar = None
  <2>1. LastBar = 0
    BY <1>3 DEF LastBar
  <2> QED
    BY <1>1, <1>3, <2>1
<1>4. CASE disk.lastBar # None
  <2>1. LastBar = disk.lastBar
    BY <1>4 DEF LastBar
  <2> QED
    BY <1>0, <1>1, <1>2, <1>4, <2>1
<1> QED
  BY <1>3, <1>4

\* Nothing changes in what is saved while it is not replaced.
LEMMA SavedDecisionsKept ==
    ASSUME IInv, SignalInvariant, DecisionInvariant, [Next]_vars, Remember, disk' = disk
    PROVE  SavedDecisions'
<1>0. SavedDecisions /\ warm' = warm
  BY DEF DecisionInvariant, Remember
<1>1. CASE disk = None
  BY <1>0, <1>1, DecidedGrows DEF SavedDecisions
<1>2. CASE disk # None
  <2>1. /\ Decided \subseteq Decided'
        /\ \A d \in Decided' : d \in Decided \/ d \in Signalled
    BY DecidedGrows
  <2>2. /\ Signalled = {s \in Signalled' : s \in Seen}
        /\ \A s \in Signalled', b \in Seen : s <= b => s \in Seen
    BY <1>0, SignalledKept
  <2>3. LastBar' = LastBar /\ LastBar \in Nat /\ (LastBar = 0 \/ LastBar \in Seen)
    BY <1>2, LastBarIsSeen DEF LastBar
  <2>4. \A s \in Signalled' : s \in Nat /\ s > 0
    <3>1. (TypeOK /\ FeedOrdered => \A s \in Signalled : s \in Nat /\ s > 0 /\ s > warm)'
      BY SignalledIsGreedy, PTL
    <3> QED
      BY <3>1, IInvStep DEF IInv, SafetyInvariant
  <2>5. \A s \in Signalled' : s <= LastBar => s \in Seen
    BY <2>2, <2>3, <2>4
  <2>6. SignalledUpTo(LastBar)' = SignalledUpTo(LastBar)
    BY <2>2, <2>3, <2>5 DEF SignalledUpTo
  <2>7. Decided' \subseteq Signalled'
    BY <1>0, <1>2, <2>1, <2>2 DEF SavedDecisions
  <2> QED
    BY <1>0, <1>2, <2>1, <2>3, <2>6, <2>7 DEF SavedDecisions, IsLast
<1> QED
  BY <1>1, <1>2

\* The warm-up decides nothing.
LEMMA WarmUpDecides ==
    ASSUME IInv, SignalInvariant, DecisionInvariant, WarmUp, Remember
    PROVE  SavedDecisions'
<1>0. TypeOK /\ SavedDecisions /\ [Next]_vars /\ disk = None
  BY DEF IInv, DecisionInvariant, Next, Step, WarmUp, RunOnSavedState, SafetyInvariant
<1>1. IInv'
  BY <1>0, IInvStep
<1>2. /\ disk' = [lastBar |-> LastComplete(run.upto, None), lastSignal |-> None,
                  open |-> None, cursor |-> run.upto]
      /\ disk' \in State
  <2>1. run.upto \in 0..Len(feed)
    BY <1>0, BatchRows DEF IInv, SafetyInvariant, WarmUp
  <2>2. LastComplete(run.upto, None) \in Nat \union {None}
    BY <1>0, <2>1, LastCompleteIsLast DEF LastComplete
  <2> QED
    BY <2>1, <2>2 DEF WarmUp, State
<1>3. disk' # None /\ disk'.lastSignal = None /\ disk'.lastBar \in Nat \union {None}
  BY <1>2, StateAssumption DEF State
<1>4. warm' = LastBar' /\ LastBar' \in Nat
  BY <1>0, <1>3 DEF Remember, LastBar
<1>5. \A s \in Signalled' : s \in Nat /\ s > warm'
  <2>1. (TypeOK /\ FeedOrdered => \A s \in Signalled : s \in Nat /\ s > 0 /\ s > warm)'
    BY SignalledIsGreedy, PTL
  <2> QED
    BY <1>1, <2>1 DEF IInv, SafetyInvariant
<1>6. SignalledUpTo(LastBar)' = {}
  BY <1>4, <1>5 DEF SignalledUpTo
<1>7. Decided' = {}
  BY <1>0, DecidedGrows DEF SavedDecisions
<1> QED
  BY <1>3, <1>4, <1>6, <1>7 DEF SavedDecisions, IsLast

\* The state that a run saves says where the one pass stands.
LEMMA SaveDecides ==
    ASSUME IInv, SignalInvariant, DecisionInvariant, SaveState, Remember
    PROVE  SavedDecisions'
<1>0. /\ TypeOK /\ FeedOrdered /\ RunOnSavedState /\ Deciding /\ SavedState
      /\ SavedDecisions /\ RunDecisions /\ [Next]_vars /\ Scanning /\ pc # "idle"
  BY DEF IInv, SafetyInvariant, DecisionInvariant, Next, Step, SaveState, Scanning
<1>1. /\ run.upto \in 0..Len(feed) /\ run.st = disk /\ disk # None /\ disk \in State
      /\ disk.cursor \in 0..Len(feed) /\ disk.cursor <= run.upto
  BY <1>0, BatchRows, LastBarIsSeen DEF RunOnSavedState, Deciding, Scanning, TypeOK
<1> DEFINE K == Complete(run.upto)
           last == LastComplete(run.upto, disk.lastBar)
<1>2. /\ disk' = [lastBar |-> last, lastSignal |-> run.lastSignal,
                  open |-> run.open, cursor |-> run.upto]
      /\ run.todo = {} /\ signals' = signals
  BY <1>1 DEF SaveState, ledgers
<1>3. Passed = K
  BY <1>2 DEF Passed
<1>4. IInv' /\ disk' # None /\ warm' = warm /\ warm \in Nat
  <2>1. IInv'
    BY <1>0, IInvStep
  <2>2. disk' # None
    BY <1>1, SignalTypes, CursorGrows, <1>0
  <2> QED
    BY <1>0, <1>1, <2>1, <2>2 DEF Remember, SavedDecisions
<1>5. /\ Signalled = {s \in Signalled' : s \in Seen}
      /\ \A s \in Signalled', b \in Seen : s <= b => s \in Seen
  BY <1>0, <1>4, SignalledKept
<1>6. \A s \in Signalled' : s \in Nat /\ s > 0
  <2>1. (TypeOK /\ FeedOrdered => \A s \in Signalled : s \in Nat /\ s > 0 /\ s > warm)'
    BY SignalledIsGreedy, PTL
  <2> QED
    BY <1>4, <2>1 DEF IInv, SafetyInvariant
<1>7. disk.lastBar # None => disk.lastBar \in K /\ LastBar = disk.lastBar
  BY <1>0, <1>1, LastBarIsSeen, CompleteGrows
<1>8. /\ LastBar' \in Nat /\ LastBar <= LastBar'
      /\ SignalledUpTo(LastBar)' = K \intersect Signalled
  <2>1. CASE K = {}
    <3>1. disk.lastBar = None /\ last = None
      BY <1>7, <2>1 DEF LastComplete
    <3>2. LastBar = 0 /\ LastBar' = 0
      BY <1>2, <3>1 DEF LastBar
    <3> HIDE DEF K
    <3> QED
      BY <1>6, <2>1, <3>2 DEF SignalledUpTo
  <2>2. CASE K # {}
    <3>1. last \in K /\ last \in Nat /\ \A b \in K : b <= last
      BY <1>0, <1>1, <2>2, LastCompleteIsLast
    <3>2. LastBar' = last
      BY <1>2, <3>1, NoneAssumption DEF LastBar
    <3>3. LastBar <= last
      BY <1>7, <3>1 DEF LastBar
    <3>4. K \subseteq Seen
      BY <1>0, <1>1, CompleteIsSeen
    <3>5. ASSUME NEW s \in Signalled', s <= last
          PROVE  s \in K /\ s \in Signalled
      <4>1. s \in Seen
        BY <1>5, <3>1, <3>4, <3>5
      <4>2. s \in K
        BY <1>0, <1>1, <3>1, <3>5, <4>1, EarlierBarsComplete
      <4> QED
        BY <1>5, <3>5, <4>1, <4>2
    <3> HIDE DEF K, last
    <3>6. SignalledUpTo(LastBar)' = {s \in Signalled' : s <= last}
      BY <3>2 DEF SignalledUpTo
    <3> QED
      BY <1>5, <3>1, <3>2, <3>3, <3>5, <3>6
  <2> QED
    BY <2>1, <2>2
<1>9. /\ K \intersect Signalled \subseteq Decided /\ IsLast(run.lastSignal, K \intersect Signalled)
      /\ warm <= LastBar /\ Decided \subseteq Signalled
  BY <1>0, <1>1, <1>3 DEF RunDecisions, SavedDecisions
<1>10. disk'.lastSignal = run.lastSignal /\ Decided' = Decided
  BY <1>2 DEF Decided
<1>11. LastBar \in Nat
  BY <1>1, LastBarIsSeen
<1> HIDE DEF K, last
<1>12. warm' <= LastBar' /\ Decided' \subseteq Signalled'
  BY <1>4, <1>5, <1>8, <1>9, <1>10, <1>11
<1> QED
  BY <1>4, <1>8, <1>9, <1>10, <1>12 DEF SavedDecisions, IsLast

\* A bar there is already stays active or inactive.
LEMMA ActivityKept ==
    ASSUME [Next]_vars
    PROVE  \A b \in Seen : b \in active' <=> b \in active
<1>1. CASE Quote
  <2>1. active' = active \/ \E k : k \notin Seen /\ active' = active \union {k}
    BY <1>1 DEF Quote, Seen
  <2> QED
    BY <2>1
<1>2. ASSUME NEW c \in run.todo, PassOver(c) \/ Decline(c) \/ EnterPosition(c)
      PROVE  active' = active
  BY <1>2 DEF PassOver, Decline, EnterPosition, env
<1>3. CASE ~Quote
  BY <1>2, <1>3 DEF Next, Step, Tick, Start, NoQuotes, NoNewQuotes, WarmUp, Observe,
                    KeepPosition, ExitPosition, RecordEntry, SaveState, Crash, env, vars
<1> QED
  BY <1>1, <1>3

\* What holds of the bars a run has read while it works on them.
LEMMA BarsOfRunKept ==
    ASSUME IInv, SignalInvariant, DecisionInvariant, [Next]_vars, Remember, Scanning'
    PROVE  /\ Passed' = Complete(run.upto) \ run'.todo
           /\ \A b \in Complete(run.upto) :
                 /\ b \in Nat /\ b \in Seen
                 /\ b \in active' <=> b \in active
                 /\ b \in Signalled' <=> b \in Signalled
           /\ Decided \subseteq Decided' /\ disk # None /\ warm' = warm
           /\ run.upto \in 0..Len(feed)
<1>0. TypeOK /\ IInv'
  BY IInvStep DEF IInv
<1>1. /\ disk' = disk /\ run'.upto = run.upto /\ run.upto \in 0..Len(feed)
      /\ Complete(run.upto)' = Complete(run.upto)
  BY ScanKept
<1>2. disk # None /\ warm' = warm
  BY <1>0, <1>1 DEF IInv, SafetyInvariant, Deciding, Scanning, Remember
<1>3. Signalled = {s \in Signalled' : s \in Seen}
  BY <1>2, SignalledKept
<1>4. Complete(run.upto) \subseteq Seen /\ Complete(run.upto) \subseteq Nat
  BY <1>0, <1>1, CompleteIsSeen, CompleteType
<1>5. Passed' = Complete(run.upto) \ run'.todo
  BY <1>1 DEF Passed
<1> QED
  BY <1>1, <1>2, <1>3, <1>4, <1>5, ActivityKept, DecidedGrows

\* A step after which the same bars are left, and the same are told as last.
LEMMA SameBarsLeft ==
    ASSUME IInv, SignalInvariant, DecisionInvariant, [Next]_vars, Remember, Scanning, Scanning',
           run'.todo = run.todo, run'.lastSignal = run.lastSignal,
           run'.wasActive = run.wasActive, pc' # "entered" => pc # "entered",
           pc' = "entered" => run'.open.sig \in Signalled'
    PROVE  RunDecisions'
<1> DEFINE K == Complete(run.upto)
<1>1. /\ Passed' = K \ run'.todo
      /\ \A b \in K : /\ b \in Nat /\ (b \in active' <=> b \in active)
                      /\ b \in Signalled' <=> b \in Signalled
      /\ Decided \subseteq Decided'
  BY BarsOfRunKept
<1>2. Passed' = Passed /\ Passed \subseteq K
  BY <1>1 DEF Passed
<1> HIDE DEF K
<1>3. Passed' \intersect Signalled' = Passed \intersect Signalled
  BY <1>1, <1>2
<1>4. RunDecisions
  BY DEF DecisionInvariant
<1>5. /\ \A b \in Passed', c \in run'.todo : b < c
      /\ Passed' \intersect Signalled' \subseteq Decided'
      /\ IsLast(run'.lastSignal, Passed' \intersect Signalled')
  BY <1>1, <1>2, <1>3, <1>4 DEF RunDecisions
<1>6. pc' # "entered" =>
        (run'.wasActive <=> \E m \in Passed' : m \in active' /\ \A b \in Passed' : b <= m)
  BY <1>1, <1>2, <1>4 DEF RunDecisions
<1> QED
  BY <1>5, <1>6 DEF RunDecisions, IsLast

\* A step that ends the turn of a bar.
LEMMA TurnDone ==
    ASSUME IInv, SignalInvariant, DecisionInvariant, [Next]_vars, Remember, Scanning, Scanning', pc' # "entered",
           NEW c \in run.todo, \A d \in run.todo : c <= d, run'.todo = run.todo \ {c},
           run'.wasActive <=> c \in active,
           \/ /\ c \notin Signalled /\ run'.lastSignal = run.lastSignal
           \/ /\ c \in Signalled /\ c \in Decided' /\ run'.lastSignal = c
    PROVE  RunDecisions'
<1> DEFINE K == Complete(run.upto)
<1>1. /\ Passed' = K \ run'.todo
      /\ \A b \in K : /\ b \in Nat /\ (b \in active' <=> b \in active)
                      /\ b \in Signalled' <=> b \in Signalled
      /\ Decided \subseteq Decided'
  BY BarsOfRunKept
<1>2. c \in K /\ RunDecisions
  BY DEF IInv, SafetyInvariant, Deciding, Scanning, DecisionInvariant
<1>3. Passed' = Passed \union {c} /\ Passed \subseteq K
  BY <1>1, <1>2 DEF Passed
<1>4. c \in Nat /\ \A d \in run.todo \ {c} : c < d
  BY TurnEnds
<1>5. \A b \in Passed : b < c /\ b \in Nat
  BY <1>1, <1>2, <1>3 DEF RunDecisions
<1> HIDE DEF K
<1>6. \A b \in Passed', d \in run'.todo : b < d
  BY <1>2, <1>3, <1>4 DEF RunDecisions
<1>7. run'.wasActive <=> \E m \in Passed' : m \in active' /\ \A b \in Passed' : b <= m
  <2>1. \A b \in Passed' : b <= c /\ (b # c => ~(c <= b))
    BY <1>3, <1>4, <1>5
  <2>2. c \in active' <=> c \in active
    BY <1>1, <1>2
  <2> QED
    BY <1>3, <2>1, <2>2
<1>8. /\ Passed \intersect Signalled \subseteq Decided
      /\ IsLast(run.lastSignal, Passed \intersect Signalled)
  BY <1>2 DEF RunDecisions
<1>9. CASE c \notin Signalled /\ run'.lastSignal = run.lastSignal
  <2>1. Passed' \intersect Signalled' = Passed \intersect Signalled
    BY <1>1, <1>2, <1>3, <1>9
  <2> QED
    BY <1>1, <1>6, <1>7, <1>8, <1>9, <2>1 DEF RunDecisions, IsLast
<1>10. CASE c \in Signalled /\ c \in Decided' /\ run'.lastSignal = c
  <2>1. Passed' \intersect Signalled' = (Passed \intersect Signalled) \union {c}
    BY <1>1, <1>2, <1>3, <1>10
  <2>2. \A b \in Passed' \intersect Signalled' : b <= c
    BY <1>4, <1>5, <2>1
  <2>3. Passed' \intersect Signalled' \subseteq Decided'
    BY <1>1, <1>8, <1>10, <2>1
  <2> QED
    BY <1>6, <1>7, <1>10, <2>1, <2>2, <2>3 DEF RunDecisions, IsLast
<1> QED
  BY <1>9, <1>10

\* A run starts its scan where the saved state says the one pass stands.
LEMMA ObserveDecides ==
    ASSUME IInv, SignalInvariant, DecisionInvariant, Observe, Remember
    PROVE  RunDecisions'
<1>0. /\ TypeOK /\ FeedOrdered /\ SavedState /\ SavedDecisions /\ [Next]_vars /\ Scanning'
      /\ run.st = disk /\ run \in Run /\ disk # None /\ pc' = "exit"
  BY DEF IInv, SafetyInvariant, DecisionInvariant, Next, Step, Observe, Scanning,
         RunOnSavedState, TypeOK
<1> DEFINE K == Complete(run.upto)
<1>1. /\ Passed' = K \ run'.todo
      /\ \A b \in K : /\ b \in Nat /\ b \in Seen /\ (b \in active' <=> b \in active)
                      /\ b \in Signalled' <=> b \in Signalled
      /\ Decided \subseteq Decided' /\ run.upto \in 0..Len(feed)
  BY <1>0, BarsOfRunKept
<1>2. /\ run'.todo = K \ Previous /\ run'.lastSignal = disk.lastSignal
      /\ run'.wasActive <=> Previous # {} /\ Max(Previous) \in active
  <2> DEFINE wasActive == Previous # {} /\ Max(Previous) \in active
  <2>1. wasActive \in BOOLEAN
    OBVIOUS
  <2> HIDE DEF wasActive
  <2>2. run' = [run EXCEPT !.seenAt = now, !.todo = K \ Previous, !.wasActive = wasActive,
                           !.lastSignal = disk.lastSignal, !.open = disk.open]
    BY <1>0 DEF Observe, wasActive
  <2>3. /\ run'.todo = K \ Previous /\ run'.lastSignal = disk.lastSignal
        /\ run'.wasActive = wasActive
    BY <1>0, <2>2 DEF Run
  <2> QED
    BY <2>1, <2>3 DEF wasActive
<1>3. /\ LastBar \in Nat /\ disk.cursor \in 0..Len(feed) /\ disk.cursor <= run.upto
      /\ disk.lastBar # None => LastBar = disk.lastBar /\ LastBar \in Complete(disk.cursor)
      /\ disk.lastBar = None => LastBar = 0
  BY <1>0, LastBarIsSeen DEF IInv, SafetyInvariant, RunOnSavedState, Observe, LastBar
<1>4. disk.lastBar # None => LastBar \in K
  BY <1>0, <1>1, <1>3, CompleteGrows
<1>5. Previous = {b \in K : b <= LastBar}
  <2>1. CASE disk.lastBar = None
    <3>1. Previous = {}
      BY <1>0, <2>1 DEF Previous
    <3>2. \A b \in K : b > 0 /\ b \in Nat
      BY <1>0, <1>1, SeenType
    <3> HIDE DEF K
    <3> QED
      BY <1>3, <2>1, <3>1, <3>2
  <2>2. CASE disk.lastBar # None
    BY <1>0, <1>3, <2>2 DEF Previous
  <2> QED
    BY <2>1, <2>2
<1>6. Passed' = Previous
  BY <1>1, <1>2, <1>5
<1>7. Previous \intersect Signalled = SignalledUpTo(LastBar)
  <2>1. ASSUME NEW s \in Signalled, s <= LastBar
        PROVE  s \in K
    <3>1. s \in Nat /\ s > 0 /\ s \in Seen
      BY <1>0, SignalledIsGreedy
    <3>2. LastBar # 0
      BY <1>3, <2>1, <3>1
    <3>3. LastBar \in K
      BY <1>3, <1>4, <3>2
    <3> QED
      BY <1>0, <1>1, <2>1, <3>1, <3>3, EarlierBarsComplete
  <2> QED
    BY <1>5, <2>1 DEF SignalledUpTo
<1>8. run'.wasActive <=> \E m \in Passed' : m \in active' /\ \A b \in Passed' : b <= m
  <2>1. CASE Previous = {}
    BY <1>2, <1>6, <2>1
  <2>2. CASE Previous # {}
    <3>1. Previous \subseteq Nat /\ \A b \in Previous : b <= LastBar
      BY <1>1, <1>5
    <3>2. Max(Previous) \in Previous /\ \A b \in Previous : Max(Previous) >= b
      BY <1>3, <2>2, <3>1, GreatestExists
    <3>3. PICK m \in Previous : m = Max(Previous) /\ \A b \in Previous : b <= m
      BY <3>1, <3>2
    <3>4. \A n \in Previous : (\A b \in Previous : b <= n) => n = m
      BY <3>1, <3>3
    <3>5. m \in active' <=> m \in active
      BY <1>1, <1>5
    <3> QED
      BY <1>2, <1>6, <2>2, <3>3, <3>4, <3>5
  <2> QED
    BY <2>1, <2>2
<1> HIDE DEF K
<1>9. Passed' \intersect Signalled' = SignalledUpTo(LastBar)
  BY <1>1, <1>5, <1>6, <1>7
<1>10. \A b \in Passed', c \in run'.todo : b < c
  BY <1>1, <1>2, <1>3, <1>5, <1>6
<1>11. /\ SignalledUpTo(LastBar) \subseteq Decided
       /\ IsLast(disk.lastSignal, SignalledUpTo(LastBar))
  BY <1>0 DEF SavedDecisions
<1> QED
  BY <1>0, <1>1, <1>2, <1>8, <1>9, <1>10, <1>11 DEF RunDecisions, IsLast

LEMMA RunDecisionsStep ==
    ASSUME IInv, SignalInvariant, DecisionInvariant, [Next]_vars, Remember
    PROVE  RunDecisions'
<1> SUFFICES ASSUME Scanning'
             PROVE  RunDecisions'
  BY DEF RunDecisions
<1>0. /\ TypeOK /\ Deciding /\ RunDecisions /\ RunSignal /\ run \in Run
      /\ signals \in Seq(Signal)
  BY DEF IInv, SafetyInvariant, SignalInvariant, DecisionInvariant, TypeOK
<1>k. /\ Complete(run.upto) \subseteq Seen
      /\ \A b \in Complete(run.upto) : b \in Signalled' <=> b \in Signalled
  BY BarsOfRunKept
<1>1. ASSUME Tick \/ Quote \/ KeepPosition \/ UNCHANGED vars, run' = run, Scanning,
             KeepPosition \/ pc' = pc
      PROVE  RunDecisions'
  <2>1. pc' = "entered" => pc = "entered"
    BY <1>1 DEF KeepPosition
  <2>2. pc' # "entered" => pc # "entered"
    BY <1>1 DEF KeepPosition
  <2>3. pc = "entered" => run.open.sig \in Signalled /\ run.open.sig \in Complete(run.upto)
    BY <1>0 DEF RunDecisions, RunSignal, Scanning, Deciding
  <2> QED
    BY <1>1, <1>k, <2>1, <2>2, <2>3, SameBarsLeft
<1>2. CASE Observe
  BY <1>2, ObserveDecides
<1>3. CASE ExitPosition
  <2>1. /\ run'.todo = run.todo /\ run'.lastSignal = run.lastSignal
        /\ run'.wasActive = run.wasActive /\ pc = "exit" /\ pc' = "scan"
    BY <1>0, <1>3 DEF ExitPosition, Run
  <2> QED
    BY <2>1, SameBarsLeft DEF Scanning
<1>4. ASSUME NEW c \in run.todo, PassOver(c)
      PROVE  RunDecisions'
  <2> DEFINE now_active == c \in active
  <2>1. now_active \in BOOLEAN
    OBVIOUS
  <2> HIDE DEF now_active
  <2>2. run' = [run EXCEPT !.todo = @ \ {c}, !.wasActive = now_active]
    BY <1>4 DEF PassOver, now_active
  <2>3. /\ run'.todo = run.todo \ {c} /\ run'.wasActive = now_active
        /\ run'.lastSignal = run.lastSignal
    BY <1>0, <2>2 DEF Run
  <2>4. /\ IsNext(c) /\ ~(Rising(c) /\ Cooled(c)) /\ Scanning /\ pc' # "entered"
        /\ \A d \in run.todo : c <= d
    BY <1>4 DEF PassOver, IsNext, Scanning
  <2>5. c \notin Signalled
    BY <2>4, TurnDecides
  <2>6. run'.wasActive <=> c \in active
    BY <2>3 DEF now_active
  <2> QED
    BY <2>3, <2>4, <2>5, <2>6, TurnDone
<1>5. ASSUME NEW c \in run.todo, \A d \in run.todo : c <= d, Scanning, pc' # "entered",
             NEW d, RecordSignal(c, d), c \in Signalled
      PROVE  RunDecisions'
  <2>1. run'.todo = run.todo \ {c} /\ run'.wasActive = TRUE /\ run'.lastSignal = c
    BY <1>0, <1>5 DEF RecordSignal, Run
  <2>2. c \in Decided'
    BY <1>0, <1>5, SignalSets DEF RecordSignal
  <2>3. c \in active
    <3>1. Signalled \subseteq {b \in Seen : b > warm /\ Rise(b)}
      BY SignalledIsGreedy DEF Greedy, IInv, SafetyInvariant
    <3> QED
      BY <1>5, <3>1 DEF Rise
  <2> QED
    BY <1>5, <2>1, <2>2, <2>3, TurnDone
<1>6. ASSUME NEW c \in run.todo, Decline(c)
      PROVE  RunDecisions'
  <2>1. /\ IsNext(c) /\ Rising(c) /\ Cooled(c) /\ Scanning /\ pc' # "entered"
        /\ RecordSignal(c, Disposition(c)) /\ \A d \in run.todo : c <= d
    BY <1>6 DEF Decline, IsNext, Scanning
  <2> QED
    BY <1>5, <2>1, TurnDecides
<1>7. ASSUME NEW c \in run.todo, EnterPosition(c)
      PROVE  RunDecisions'
  <2>1. IsNext(c) /\ Rising(c) /\ Cooled(c) /\ Scanning /\ pc' = "entered"
    BY <1>7 DEF EnterPosition, IsNext, Scanning
  <2>2. c \in Signalled /\ c \in Complete(run.upto)
    BY <1>0, <2>1, TurnDecides DEF Deciding, IsNext
  <2>3. /\ run'.todo = run.todo /\ run'.lastSignal = run.lastSignal
        /\ run'.wasActive = run.wasActive /\ pc # "entered"
    BY <1>0, <1>7 DEF EnterPosition, IsNext, Run
  <2>4. run'.open.sig = c
    BY <1>7, EntryIsTimely
  <2> QED
    BY <1>k, <2>1, <2>2, <2>3, <2>4, SameBarsLeft
<1>8. CASE RecordEntry
  <2>1. /\ pc = "entered" /\ Scanning /\ pc' # "entered"
        /\ RecordSignal(run.open.sig, "hypothetical_entry")
    BY <1>8 DEF RecordEntry, Scanning
  <2>2. /\ run.open.sig \in run.todo /\ \A d \in run.todo : run.open.sig <= d
        /\ run.open.sig \in Signalled
    BY <1>0, <2>1 DEF RunSignal, RunDecisions
  <2> QED
    BY <1>5, <2>1, <2>2
<1> QED
  BY <1>1, <1>2, <1>3, <1>4, <1>6, <1>7, <1>8, ScanSteps

LEMMA DecidedInTimeStep ==
    ASSUME IInv, SignalInvariant, DecisionInvariant, [Next]_vars
    PROVE  DecidedInTime'
<1>0. TypeOK /\ DecidedInTime /\ Decided \subseteq Nat /\ now \in Nat
  BY LedgerTypes DEF IInv, DecisionInvariant, TypeOK
<1>1. now' \in Nat /\ now <= now'
  <2>1. ASSUME NEW c \in run.todo, EnterPosition(c)
        PROVE  now' = now
    BY <2>1 DEF EnterPosition, env
  <2>2. now' = now + 1 \/ now' = now
    BY <2>1, QuietSteps DEF Tick, Quote, ExitPosition, env
  <2> QED
    BY <1>0, <2>2
<1>2. \A d \in Decided' : d \in Nat /\ d <= now
  <2>1. \A s \in Signalled : s \in Nat
    BY SignalledIsGreedy DEF IInv, SafetyInvariant
  <2> QED
    BY <1>0, <2>1, DecidedGrows DEF DecidedInTime
<1> QED
  BY <1>0, <1>1, <1>2 DEF DecidedInTime

LEMMA DecisionStep ==
    ASSUME IInv, SignalInvariant, DecisionInvariant, [Next]_vars, Remember
    PROVE  DecisionInvariant'
  BY DiskSteps, SavedDecisionsKept, WarmUpDecides, SaveDecides, RunDecisionsStep,
     DecidedInTimeStep
     DEF DecisionInvariant

LEMMA DecisionInit == MCInit => DecisionInvariant
<1> SUFFICES ASSUME MCInit
             PROVE  DecisionInvariant
  OBVIOUS
<1>1. Decided = {} /\ disk = None /\ warm = None /\ ~Scanning
  BY DEF MCInit, Init, Decided, Scanning
<1> QED
  BY <1>1 DEF DecisionInvariant, SavedDecisions, RunDecisions, DecidedInTime

\* A row that a run writes tells of a signal that has none yet, unless a run
\* died between the row and the saving of its state.
DecidedOnce == \A i, j \in DOMAIN signals : signals[i].sig = signals[j].sig => i = j

LEMMA DecidedOnceStep ==
    ASSUME IInv, SignalInvariant, LedgerInvariant, crashes = 0 => DecidedOnce, [Next]_vars
    PROVE  (crashes = 0 => DecidedOnce)'
<1> SUFFICES ASSUME crashes' = 0
             PROVE  DecidedOnce'
  OBVIOUS
<1>0. crashes = 0 /\ DecidedOnce /\ RunSignal /\ signals \in Seq(Signal) /\ TypeOK
  BY CrashCounted DEF IInv, TypeOK, SignalInvariant
<1>1. CASE signals' = signals
  BY <1>0, <1>1 DEF DecidedOnce
<1>2. ASSUME NEW c \in run.todo, NEW d, Scanning, Cooled(c),
             signals' = Append(signals, [sig |-> c, disposition |-> d])
      PROVE  DecidedOnce'
  <2>1. c \in Nat /\ \A e \in Decided : e \in Nat /\ c > e
    BY <1>0, <1>2, TurnIsAdmissible, LedgerTypes, BoundsAssumption
  <2>2. \A i \in DOMAIN signals : signals[i].sig \in Decided
    BY DEF Decided
  <2>3. \A i \in DOMAIN signals : signals[i].sig # c
    BY <2>1, <2>2
  <2>4. /\ \A i \in DOMAIN signals : signals'[i] = signals[i]
        /\ DOMAIN signals' = DOMAIN signals \union {Len(signals) + 1}
        /\ signals'[Len(signals) + 1].sig = c
    BY <1>0, <1>2, SignalSets
  <2> QED
    BY <1>0, <2>3, <2>4 DEF DecidedOnce
<1>3. ASSUME RecordEntry
      PROVE  run.open.sig \in run.todo /\ Scanning /\ Cooled(run.open.sig)
  BY <1>0, <1>3 DEF RecordEntry, Scanning, RunSignal
<1>4. ASSUME NEW c \in run.todo, Decline(c)
      PROVE  Scanning /\ Cooled(c)
  BY <1>4 DEF Decline, IsNext, Scanning
<1> QED
  BY <1>1, <1>2, <1>3, <1>4, SignalRows

\* The invariant says what DecisionsReplay does.
LEMMA ReplayFollows ==
    ASSUME IInv, DecisionInvariant, crashes = 0 => DecidedOnce
    PROVE  DecisionsReplay
<1> DEFINE sigs == [i \in DOMAIN signals |-> signals[i].sig]
<1>a. crashes = 0 => IsInjective(sigs)
  BY DEF DecidedOnce, IsInjective
<1> SUFFICES ASSUME disk # None
             PROVE  /\ {d \in Decided : d <= LastBar} = Replay(warm, LastBar)
                    /\ Decided \subseteq Replay(warm, now)
  BY <1>a DEF DecisionsReplay, LastBar
<1> HIDE DEF sigs
<1>0. TypeOK /\ FeedOrdered /\ SavedDecisions /\ now \in Nat /\ LastBar \in Nat
  BY LastBarIsSeen DEF IInv, SafetyInvariant, DecisionInvariant, TypeOK
<1>1. /\ warm \in Nat /\ Decided \subseteq Signalled
      /\ SignalledUpTo(LastBar) \subseteq Decided
      /\ \A d \in Decided : d <= now
  BY <1>0 DEF SavedDecisions, DecidedInTime, DecisionInvariant
<1>2. Replay(warm, LastBar) = SignalledUpTo(LastBar) /\ Replay(warm, now) = SignalledUpTo(now)
  BY <1>0, <1>1, ReplayIsSignalled
<1> QED
  BY <1>1, <1>2 DEF SignalledUpTo

\* Between runs the ledger holds exactly the signals of one pass over the bars
\* after the warm-up, up to the last processed bar, and never any other signal:
\* however the runs cut the feed into batches, wherever they died and whatever
\* the recorder appended meanwhile (demo_shadow_engine.py:38-216, the saved
\* last_processed_bar and last_signal_at); and each signal once, as long as no
\* run has died.
THEOREM DecisionsReplayAlways == WarmSpec => []DecisionsReplay
<1> DEFINE Inv == /\ IInv /\ SignalInvariant /\ LedgerInvariant
                  /\ DecisionInvariant
                  /\ crashes = 0 => DecidedOnce
<1>1. MCInit => Inv
  BY IInvInit, SignalInit, LedgerInit, DecisionInit DEF MCInit, Init, DecidedOnce
<1>2. Inv /\ [Next /\ Remember]_<<vars, warm>> => Inv'
  <2> SUFFICES ASSUME Inv, [Next /\ Remember]_<<vars, warm>>
               PROVE  Inv'
    OBVIOUS
  <2>1. [Next]_vars /\ Remember
    BY DEF vars, Remember
  <2>2. IInv' /\ SignalInvariant' /\ LedgerInvariant' /\ DecisionInvariant'
    BY <2>1, IInvStep, SignalStep, LedgerStep, DecisionStep
  <2>3. (crashes = 0 => DecidedOnce)'
    BY <2>1, DecidedOnceStep
  <2> QED
    BY <2>2, <2>3
<1>3. Inv => DecisionsReplay
  BY ReplayFollows
<1> HIDE DEF Inv
<1> QED
  BY <1>1, <1>2, <1>3, PTL DEF WarmSpec
=============================================================================

------------------------------- MODULE Backtest -------------------------------
(***************************************************************************)
(* The event-time core: the replay of a published data set to a handler    *)
(* under a virtual clock, and the backtest, which fills intents on later   *)
(* ticks and leaves at a stop, a target or the end of the data.  Slippage  *)
(* is a price difference.                                                  *)
(***************************************************************************)
EXTENDS Ordering, Sequences, SequencesExt

CONSTANTS
  Latency, Slip, Commission, Quantity,  \* BacktestConfig
  Intents,     \* the lists of intents a backtest may be given
  TickQuotes,  \* the ticks: [step, bid, ask], the step after the tick before
  MaxTicks,
  Datasets,    \* the data sets replayed: the times of their rows, partition after partition
  MaxReplays   \* runs of one replay engine
TradeIntent == [at : Int, side : {-1, 0, 1}, stop : Int, target : Int]
TickQuote == [step : Nat, bid : Nat, ask : Nat]
BacktestConfig ==
  /\ {Latency, Slip, Commission} \subseteq Nat /\ Quantity \in Nat \ {0}
  /\ Intents \subseteq Seq(TradeIntent) /\ Datasets \subseteq Seq(Int)
  /\ TickQuotes \subseteq TickQuote /\ \A q \in TickQuotes : q.bid > 0 /\ q.ask >= q.bid

VARIABLES
  ticks, intents, pending, position, trades, rejected, finished,  \* BacktestEngine.run
  clock, queue, handled, replays                                  \* ReplayEngine

backtestVars == <<ticks, intents, pending, position, trades, rejected, finished>>
engineVars == <<clock, queue, handled, replays>>

----------------------------------------------------------------------------
(* Replay.                                                                 *)

\* Events: the rows of the partitions, numbered; an unordered data set raises here,
\* before the first event is handled, because the engine sorts what it reads.
InTimeOrder(times) == \A n \in 2 .. Len(times) : times[n - 1] <= times[n]
Events(times) == [n \in DOMAIN times |-> [at |-> times[n], sequence |-> n, replay |-> replays + 1]]
StartReplay(times) ==
  /\ queue = <<>> /\ replays < MaxReplays
  /\ replays' = replays + 1
  /\ queue' = IF InTimeOrder(times) THEN Events(times) ELSE <<>>
  /\ UNCHANGED <<clock, handled>>
\* Handle: the clock refuses to move back; then, or when the handler raises, the run ends.
Handle ==
  /\ queue # <<>>
  /\ IF clock # <<>> /\ Head(queue).at < clock[1]
     THEN queue' = <<>> /\ UNCHANGED <<clock, handled>>
     ELSE /\ clock' = <<Head(queue).at>> /\ handled' = Append(handled, Head(queue))
          /\ queue' \in {Tail(queue), <<>>}
  /\ UNCHANGED replays

----------------------------------------------------------------------------
(* Backtest.                                                               *)

NoPosition == [side |-> 0]
Executable(side, tick) == IF side = 1 THEN tick.bid ELSE tick.ask
Open(intent, tick) ==
  LET entry == (IF intent.side = 1 THEN tick.ask ELSE tick.bid) + intent.side * Slip
  IN  [side |-> intent.side, signal |-> intent.at, opened |-> Len(ticks), entry |-> entry,
       stop |-> entry - intent.side * intent.stop, target |-> entry + intent.side * intent.target]
CloseAt(held, tick, number, reason) ==
  LET exit == Executable(held.side, tick) - held.side * Slip
  IN  [signal |-> held.signal, opened |-> held.opened, closed |-> number, side |-> held.side,
       stop |-> held.stop, target |-> held.target, reason |-> reason,
       net |-> held.side * (exit - held.entry) * Quantity - 2 * Commission * Quantity]
StopHit(held, tick) == held.side * (Executable(held.side, tick) - held.stop) <= 0
TargetHit(held, tick) == held.side * (Executable(held.side, tick) - held.target) >= 0
MaybeClose(tick, number) ==
  IF position = NoPosition THEN <<>>
  ELSE IF StopHit(position, tick) THEN <<CloseAt(position, tick, number, "stop")>>
  ELSE IF TargetHit(position, tick) THEN <<CloseAt(position, tick, number, "take_profit")>>
  ELSE <<>>

\* The intents in the order in which they were generated.
Generated(list) ==
  LET Before == {p \in (DOMAIN list) \X (DOMAIN list) :
                   list[p[1]].at < list[p[2]].at \/ (list[p[1]].at = list[p[2]].at /\ p[1] < p[2])}
      order == InOrder(DOMAIN list, Before)
  IN  [n \in DOMAIN order |-> list[order[n]]]

\* The first intent that waits is eligible at the last tick.
Eligible == pending # <<>> /\ ticks # <<>> /\ Head(pending).at + Latency <= Last(ticks).at
RefusedWithoutPosition(intent) ==
  intent.at < Head(ticks).at \/ intent.side = 0 \/ intent.stop <= 0 \/ intent.target <= 0
Refused(intent) ==
  \/ intent.at < Head(ticks).at \/ position # NoPosition
  \/ intent.side = 0 \/ intent.stop <= 0 \/ intent.target <= 0

BacktestInit ==
  /\ intents \in Intents /\ pending = Generated(intents)
  /\ ticks = <<>> /\ position = NoPosition /\ trades = <<>> /\ rejected = 0 /\ finished = FALSE
  /\ clock = <<>> /\ queue = <<>> /\ handled = <<>> /\ replays = 0

\* A tick, once no intent is eligible at the one before: the position may be closed.
OnTick(quote) ==
  LET tick == [at |-> (IF ticks = <<>> THEN 0 ELSE Last(ticks).at) + quote.step,
               bid |-> quote.bid, ask |-> quote.ask]
      closed == MaybeClose(tick, Len(ticks) + 1)
  IN  /\ ~finished /\ ~Eligible /\ Len(ticks) < MaxTicks
      /\ ticks' = Append(ticks, tick) /\ trades' = trades \o closed
      /\ position' = IF closed = <<>> THEN position ELSE NoPosition
      /\ UNCHANGED <<intents, pending, rejected, finished>>
\* The intents that are eligible at a tick, one after the other.
Take ==
  /\ ~finished /\ Eligible /\ pending' = Tail(pending)
  /\ IF Refused(Head(pending)) THEN rejected' = rejected + 1 /\ UNCHANGED position
     ELSE position' = Open(Head(pending), Last(ticks)) /\ UNCHANGED rejected
  /\ UNCHANGED <<ticks, intents, trades, finished>>
Finish ==
  /\ ~finished /\ ticks # <<>> /\ ~Eligible
  /\ finished' = TRUE
  /\ rejected' = rejected + Len(pending)
  /\ trades' = IF position = NoPosition THEN trades
               ELSE Append(trades, CloseAt(position, Last(ticks), Len(ticks), "end_of_data"))
  /\ UNCHANGED <<ticks, intents, pending, position>>

BacktestNext ==
  \/ /\ \/ \E quote \in TickQuotes : OnTick(quote)
        \/ Take \/ Finish
     /\ UNCHANGED engineVars
  \/ /\ \/ \E times \in Datasets : StartReplay(times)
        \/ Handle
     /\ UNCHANGED backtestVars
BacktestSpec == BacktestInit /\ [][BacktestNext]_<<backtestVars, engineVars>>

----------------------------------------------------------------------------
(* Properties.                                                             *)

\* EveryIntentOnce: at the end each intent was traded or rejected, and not both.
EveryIntentOnce == finished => Len(trades) + rejected = Len(intents)

\* OneAtATime: a trade begins when the one before has ended, at the first tick
\* that came at its signal and the latency or later.
OneAtATime ==
  \A n \in DOMAIN trades :
    LET t == trades[n] IN
    /\ n > 1 => trades[n - 1].closed <= t.opened
    /\ ticks[t.opened].at >= t.signal + Latency
    /\ \A k \in 1 .. (t.opened - 1) : ticks[k].at < t.signal + Latency
    /\ t.signal >= ticks[1].at

\* FirstExit: a trade is left at the first tick after its own at the stop or the
\* target, at the stop when both are; and a stop never pays what it promises to save.
FirstExit ==
  \A t \in ToSet(trades) :
    /\ \A k \in (t.opened + 1) .. (t.closed - 1) : ~StopHit(t, ticks[k]) /\ ~TargetHit(t, ticks[k])
    /\ t.reason # "end_of_data" => t.closed > t.opened
    /\ t.reason = "take_profit" => TargetHit(t, ticks[t.closed]) /\ ~StopHit(t, ticks[t.closed])
    /\ t.reason = "stop" => t.net < 0

\* ReplayedInOrder: the handler sees time go forward, also when the engine is used
\* again, and the events of each run from the first on and without a hole.
GoesForward(list) ==
  /\ InTimeOrder([n \in DOMAIN list |-> list[n].at])
  /\ \A n \in DOMAIN list :
       list[n].sequence = IF n > 1 /\ list[n - 1].replay = list[n].replay
                          THEN list[n - 1].sequence + 1 ELSE 1
ReplayedInOrder == GoesForward(handled)

\* BacktestHolds: the replay and the backtest together.
BacktestHolds == EveryIntentOnce /\ OneAtATime /\ FirstExit /\ ReplayedInOrder

----------------------------------------------------------------------------
(* What makes it follow.                                                   *)

MarketTick == [at : Nat, bid : Nat, ask : Nat]
SimulatedPosition == [side : {-1, 1}, signal : Int, opened : Nat \ {0}, entry : Int, stop : Int, target : Int]
SimulatedTrade == [signal : Int, opened : Nat \ {0}, closed : Nat \ {0}, side : {-1, 1}, stop : Int, target : Int,
          reason : {"stop", "take_profit", "end_of_data"}, net : Int]
ReplayEvent == [at : Int, sequence : Nat, replay : Nat]

BacktestTypeOK ==
  /\ ticks \in Seq(MarketTick) /\ intents \in Seq(TradeIntent) /\ pending \in Seq(TradeIntent)
  /\ position \in SimulatedPosition \cup {NoPosition} /\ trades \in Seq(SimulatedTrade)
  /\ rejected \in Nat /\ finished \in BOOLEAN

\* Each intent waits, is held, was traded or was rejected.
Accounted ==
  Len(trades) + rejected
    + (IF finished THEN 0 ELSE Len(pending) + (IF position = NoPosition THEN 0 ELSE 1)) = Len(intents)

\* Ticks and waiting intents are in order, and no tick but the last was late enough
\* for what waits.
InLine ==
  /\ \A m, n \in DOMAIN ticks : m <= n => ticks[m].at <= ticks[n].at
  /\ \A m, n \in DOMAIN pending : m <= n => pending[m].at <= pending[n].at
  /\ \A k \in DOMAIN ticks, n \in DOMAIN pending :
       k < Len(ticks) => ticks[k].at < pending[n].at + Latency

\* A position or a trade began at the first tick it could, after an intent of the data's time.
Began(list, t) ==
  /\ t.opened \in DOMAIN list /\ t.signal >= list[1].at /\ list[t.opened].at >= t.signal + Latency
  /\ \A k \in 1 .. (t.opened - 1) : list[k].at < t.signal + Latency
\* Until then it met neither stop nor target.
Untouched(list, t, last) ==
  \A k \in (t.opened + 1) .. last : ~StopHit(t, list[k]) /\ ~TargetHit(t, list[k])

HeldRight ==
  ~finished /\ position # NoPosition =>
    /\ Began(ticks, position) /\ Untouched(ticks, position, Len(ticks))
    /\ position.side * (position.stop - position.entry) < 0
    /\ trades # <<>> => Last(trades).closed <= position.opened
TradeRight(list, t) ==
  /\ Began(list, t) /\ t.closed \in DOMAIN list /\ Untouched(list, t, t.closed - 1)
  /\ t.opened <= t.closed /\ (t.reason # "end_of_data" => t.opened < t.closed)
  /\ t.reason = "take_profit" => TargetHit(t, list[t.closed]) /\ ~StopHit(t, list[t.closed])
  /\ t.reason = "stop" => t.net < 0
TradesRight(list, done) ==
  /\ \A n \in DOMAIN done : TradeRight(list, done[n])
  /\ \A n \in DOMAIN done : n > 1 => done[n - 1].closed <= done[n].opened
TestInvariant == BacktestTypeOK /\ Accounted /\ InLine /\ HeldRight /\ TradesRight(ticks, trades)

\* What is still to be handled follows what was handled.
QueueRight ==
  /\ handled \in Seq(ReplayEvent) /\ queue \in Seq(ReplayEvent) /\ replays \in Nat
  /\ clock = IF handled = <<>> THEN <<>> ELSE <<Last(handled).at>>
  /\ \A n \in DOMAIN handled : handled[n].replay <= replays
  /\ \A n \in DOMAIN queue : queue[n].replay = replays /\ queue[n].sequence = Head(queue).sequence + n - 1
  /\ queue # <<>> => Head(queue).sequence = IF handled # <<>> /\ Last(handled).replay = replays
                                            THEN Last(handled).sequence + 1 ELSE 1
EngineInvariant == QueueRight /\ ReplayedInOrder
=============================================================================

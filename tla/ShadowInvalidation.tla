------------------------- MODULE ShadowInvalidation -------------------------
(***************************************************************************)
(* Operators invalidate shadow signals while the worker runs the engine    *)
(* and evaluations are made.  Nothing excludes any of them: the engine and *)
(* every invalidation read engine-state.json, append to ledgers and        *)
(* replace the whole state; an evaluation reads ledger after ledger.  A    *)
(* run is seen here only by what it does to the open position and the      *)
(* ledgers; ShadowEngine has its detail.  Two that save at once also share *)
(* engine-state.tmp, so that one may fail to replace the state: a death.   *)
(***************************************************************************)
EXTENDS ShadowEvaluation

CONSTANTS Editors,      \* operators, each with one invalidation at a time
          Evaluators,   \* and those who evaluate
          Signals,    \* bound: the signals 1 .. Signals arrive in this order
          Returns,      \* the returns an exit may have
          MaxDeaths, MaxWeekly,
          MaxFills,   \* bound: rows of the fills ledger
          Now         \* the time at which the campaign is looked at

ASSUME NumbersAssumption == Returns \subseteq Int /\ Now \in Int

VARIABLES ledgers,    \* signals, fills, health, events, worker log
          disk,       \* engine-state.json
          run,        \* the engine's run under way
          edits,      \* the invalidation under way of each editor
          evals,      \* the evaluation under way of each evaluator
          reports,    \* the report files by evaluation id
          weekly,     \* weekly-evaluations.jsonl
          deaths,
          overlapped, \* history: one that replaces the state met another, or died
          together    \* history: an evaluation met another

vars == <<ledgers, disk, run, edits, evals, reports, weekly, deaths, overlapped, together>>
None == 0
NoState == [open |-> None, last |-> 0, invalidated |-> {}]
Idle == [pc |-> "idle", state |-> NoState]
NoEdit == [pc |-> "idle", id |-> None, state |-> NoState]
Unread == [signals |-> <<>>, fills |-> <<>>, events |-> <<>>, health |-> <<>>,
           workerStarts |-> {0}, created |-> 0, failedCycles |-> 0]
NoHash == [signals |-> 0, fills |-> 0, events |-> 0]
NoEval == [pc |-> "idle", next |-> "signals", id |-> NoHash, known |-> {}, seen |-> Unread]

Recorded == {s.id : s \in Range(ledgers.signals)}
AppendTo(ledger, row) == [ledgers EXCEPT ![ledger] = Append(@, row)]
Fill(event, id, net) ==
  [event |-> event, id |-> id, side |-> IF id % 2 = 1 THEN 1 ELSE -1, at |-> Now,
   observed |-> Now, net |-> net, boundary |-> TRUE]
Editing(others) == \E e \in others : edits[e].pc # "idle"

----------------------------------------------------------------------------
(* run_demo_shadow.                                                        *)

RunLoads ==
  /\ run.pc = "idle" /\ run' = [pc |-> "loaded", state |-> disk]
  /\ overlapped' = (overlapped \/ Editing(Editors))
  /\ UNCHANGED <<ledgers, disk, edits, evals, reports, weekly, deaths, together>>

RunExits ==
  /\ run.pc = "loaded" /\ run.state.open # None /\ Len(ledgers.fills) < MaxFills
  /\ \E net \in Returns : ledgers' = AppendTo("fills", Fill("exit", run.state.open, net))
  /\ run' = [run EXCEPT !.state.open = None]
  /\ UNCHANGED <<disk, edits, evals, reports, weekly, deaths, overlapped, together>>

\* The next candidate: passed over while a position is open, entered, or too late.
RunDecides ==
  /\ run.pc = "loaded" /\ run.state.last < Signals /\ Len(ledgers.fills) < MaxFills
  /\ LET id == run.state.last + 1
     IN  \E disposition \in (IF run.state.open # None THEN {"ignored"} ELSE {"entry", "late"}) :
           /\ ledgers' = IF disposition = "entry" THEN AppendTo("fills", Fill("entry", id, 0))
                         ELSE ledgers
           /\ run' = [pc |-> "decided", row |-> [id |-> id, observed |-> Now,
                                                 disposition |-> disposition],
                      state |-> [run.state EXCEPT !.last = id,
                                   !.open = IF disposition = "entry" THEN id ELSE @]]
  /\ UNCHANGED <<disk, edits, evals, reports, weekly, deaths, overlapped, together>>

RunRecords ==
  /\ run.pc = "decided"
  /\ ledgers' = AppendTo("signals", run.row)
  /\ run' = [pc |-> "loaded", state |-> run.state]
  /\ UNCHANGED <<disk, edits, evals, reports, weekly, deaths, overlapped, together>>

\* The state is replaced; the row of the health ledger that follows is left out.
RunSaves ==
  /\ run.pc = "loaded" /\ run.state # disk
  /\ disk' = run.state /\ run' = Idle
  /\ UNCHANGED <<ledgers, edits, evals, reports, weekly, deaths, overlapped, together>>

RunEnds ==  \* no new quotes
  /\ run.pc = "loaded" /\ run.state = disk
  /\ run' = Idle
  /\ UNCHANGED <<ledgers, disk, edits, evals, reports, weekly, deaths, overlapped, together>>

----------------------------------------------------------------------------
(* invalidate_shadow_signal.                                               *)

EditLoads(e) ==
  /\ edits[e].pc = "idle"
  /\ edits' = [edits EXCEPT ![e] = [NoEdit EXCEPT !.pc = "loaded", !.state = disk]]
  /\ overlapped' = (overlapped \/ run.pc # "idle" \/ Editing(Editors \ {e}))
  /\ UNCHANGED <<ledgers, disk, run, evals, reports, weekly, deaths, together>>

\* The events are read: the signal has no correction yet.
EditChooses(e) ==
  /\ edits[e].pc = "loaded"
  /\ \E id \in (1 .. Signals) \ Invalid(ledgers) :
       edits' = [edits EXCEPT ![e].pc = "chosen", ![e].id = id]
  /\ UNCHANGED <<ledgers, disk, run, evals, reports, weekly, deaths, overlapped, together>>

EditReturns(e) ==  \* already invalidated, or no such signal
  /\ \/ edits[e].pc = "loaded"
     \/ edits[e].pc = "chosen" /\ edits[e].id \notin Recorded
  /\ edits' = [edits EXCEPT ![e] = NoEdit]
  /\ UNCHANGED <<ledgers, disk, run, evals, reports, weekly, deaths, overlapped, together>>

EditCorrectsOnly(e) ==  \* the open position is left alone
  /\ edits[e].pc = "chosen" /\ edits[e].id \in Recorded
  /\ ledgers' = AppendTo("events", [id |-> edits[e].id, exclude |-> TRUE])
  /\ edits' = [edits EXCEPT ![e].pc = "save",
                 ![e].state.invalidated = @ \cup {edits[e].id}]
  /\ UNCHANGED <<disk, run, evals, reports, weekly, deaths, overlapped, together>>

\* The signals are read and have it; the correction is appended.  Another
\* invalidation of the same signal may have appended one in the meantime.
EditCorrects(e) ==
  /\ edits[e].pc = "chosen" /\ edits[e].id \in Recorded
  /\ ledgers' = AppendTo("events", [id |-> edits[e].id, exclude |-> TRUE])
  /\ edits' = [edits EXCEPT ![e].pc = IF edits[e].state.open = edits[e].id THEN "fill" ELSE "save",
                 ![e].state.invalidated = @ \cup {edits[e].id}]
  /\ UNCHANGED <<disk, run, evals, reports, weekly, deaths, overlapped, together>>

EditClears(e) ==
  /\ edits[e].pc = "fill"
  /\ ledgers' = AppendTo("fills", Fill("invalidated", edits[e].id, 0))
  /\ edits' = [edits EXCEPT ![e].pc = "save", ![e].state.open = None]
  /\ UNCHANGED <<disk, run, evals, reports, weekly, deaths, overlapped, together>>

EditSaves(e) ==
  /\ edits[e].pc = "save"
  /\ disk' = edits[e].state /\ edits' = [edits EXCEPT ![e] = NoEdit]
  /\ UNCHANGED <<ledgers, run, evals, reports, weekly, deaths, overlapped, together>>

----------------------------------------------------------------------------
(* evaluate_demo_shadow.  First every ledger is hashed, then every ledger  *)
(* is read, one after the other.  The ledgers only grow, so the number of  *)
(* a ledger's rows stands for its hash.                                    *)

After == [signals |-> "fills", fills |-> "events", events |-> "signals"]

EvalHashes(v) ==
  LET eval == evals[v]
  IN  /\ eval.pc = "hashing" \/ (eval.pc = "idle" /\ Len(weekly) < MaxWeekly)
      /\ evals' = [evals EXCEPT ![v] =
                     [eval EXCEPT !.pc = IF eval.next = "events" THEN "reading" ELSE "hashing",
                        !.next = After[eval.next],
                        !.id[eval.next] = Len(ledgers[eval.next]),
                        !.known = IF eval.pc = "idle" THEN {e.id : e \in Range(ledgers.events)} ELSE @]]
      /\ together' = (together \/ \E w \in Evaluators \ {v} : evals[w].pc # "idle")
      /\ UNCHANGED <<ledgers, disk, run, edits, reports, weekly, deaths, overlapped>>

\* The events come with the health rows and the worker logs.
WithRest(seen) == [ledgers EXCEPT !.signals = seen.signals, !.fills = seen.fills]

EvalReads(v) ==
  LET eval == evals[v]
  IN  /\ eval.pc = "reading"
      /\ evals' = [evals EXCEPT ![v] =
                     [eval EXCEPT !.pc = IF eval.next = "events" THEN "judging" ELSE "reading",
                        !.next = After[eval.next],
                        !.seen = IF eval.next = "events" THEN WithRest(@)
                                 ELSE [@ EXCEPT ![eval.next] = ledgers[eval.next]]]]
      /\ UNCHANGED <<ledgers, disk, run, edits, reports, weekly, deaths, overlapped, together>>

ReportOf(eval) ==
  [id |-> eval.id, known |-> eval.known, trades |-> {t.id : t \in CountedTrades(eval.seen)},
   status |-> StatusOf(Gates(eval.seen, Now))]

EvalWrites(v) ==
  /\ evals[v].pc = "judging"
  /\ reports' = reports \cup {evals[v].id} /\ evals' = [evals EXCEPT ![v].pc = "written"]
  /\ UNCHANGED <<ledgers, disk, run, edits, weekly, deaths, overlapped, together>>

EvalChecksNothing(v) ==  \* whatever rows there are
  /\ evals[v].pc = "written"
  /\ evals' = [evals EXCEPT ![v].pc = "new"]
  /\ UNCHANGED <<ledgers, disk, run, edits, reports, weekly, deaths, overlapped, together>>

EvalChecks(v) ==  \* is there a row of this id?
  /\ evals[v].pc = "written"
  /\ evals' = [evals EXCEPT ![v] = IF \E row \in Range(weekly) : row.id = @.id THEN NoEval
                                   ELSE [@ EXCEPT !.pc = "new"]]
  /\ UNCHANGED <<ledgers, disk, run, edits, reports, weekly, deaths, overlapped, together>>

EvalAppends(v) ==
  /\ evals[v].pc = "new"
  /\ weekly' = Append(weekly, ReportOf(evals[v])) /\ evals' = [evals EXCEPT ![v] = NoEval]
  /\ UNCHANGED <<ledgers, disk, run, edits, reports, deaths, overlapped, together>>

----------------------------------------------------------------------------
RunDies == /\ run.pc # "idle" /\ run' = Idle /\ overlapped' = TRUE
           /\ UNCHANGED <<edits, evals>>
EditDies(e) == /\ edits[e].pc # "idle" /\ edits' = [edits EXCEPT ![e] = NoEdit]
               /\ overlapped' = TRUE /\ UNCHANGED <<run, evals>>
EvalDies(v) == /\ evals[v].pc # "idle" /\ evals' = [evals EXCEPT ![v] = NoEval]
               /\ UNCHANGED <<run, edits, overlapped>>
Dies ==
  /\ deaths < MaxDeaths /\ deaths' = deaths + 1
  /\ RunDies \/ (\E e \in Editors : EditDies(e)) \/ (\E v \in Evaluators : EvalDies(v))
  /\ UNCHANGED <<ledgers, disk, reports, weekly, together>>

Quiet ==
  /\ run = Idle /\ edits = [e \in Editors |-> NoEdit] /\ evals = [v \in Evaluators |-> NoEval]
  /\ reports = {} /\ weekly = <<>> /\ overlapped = FALSE /\ together = FALSE
Empty == Quiet /\ ledgers = Unread
Init == Empty /\ disk = NoState /\ deaths \in 0 .. MaxDeaths

RunStep == RunLoads \/ RunExits \/ RunDecides \/ RunRecords \/ RunSaves \/ RunEnds
EditStep(e) ==
  \/ EditLoads(e) \/ EditChooses(e) \/ EditReturns(e) \/ EditCorrects(e) \/ EditClears(e)
  \/ EditSaves(e)
EvalStep(v) ==
  \/ EvalHashes(v) \/ EvalReads(v) \/ EvalWrites(v) \/ EvalChecks(v) \/ EvalAppends(v)
Next == \/ RunStep
        \/ \E e \in Editors : EditStep(e)
        \/ \E v \in Evaluators : EvalStep(v)
        \/ Dies
Spec == Init /\ [][Next]_vars
----------------------------------------------------------------------------
(* Properties.                                                             *)

EngineState == [open : Nat, last : Nat, invalidated : SUBSET Nat]
SignalRow == [id : Nat \ {0}, observed : {Now}, disposition : {"entry", "late", "ignored"}]
FillRow == [event : {"entry", "exit", "invalidated"}, id : Nat, side : {1, -1}, at : {Now},
            observed : {Now}, net : Returns \cup {0}, boundary : {TRUE}]
EventRow == [id : Nat \ {0}, exclude : {TRUE}]
Ledgers == [signals : Seq(SignalRow), fills : Seq(FillRow), events : Seq(EventRow),
            health : {<<>>}, workerStarts : {{0}}, created : {0}, failedCycles : {0}]
EvaluationId == [signals : Nat, fills : Nat, events : Nat]
Report == [id : EvaluationId, known : SUBSET Nat, trades : SUBSET Nat,
           status : {"collecting", "yellow", "green", "red"}]
Edit == [pc : {"idle", "loaded", "chosen", "fill", "save"}, id : Nat, state : EngineState]
Evaluation == [pc : {"idle", "hashing", "reading", "judging", "written", "new"},
               next : {"signals", "fills", "events"}, id : EvaluationId,
               known : SUBSET Nat, seen : Ledgers]

\* Every variable keeps its type.
TypeOK ==
  /\ ledgers \in Ledgers
  /\ disk \in EngineState
  /\ \/ run \in [pc : {"idle", "loaded"}, state : EngineState]
     \/ run \in [pc : {"decided"}, state : EngineState, row : SignalRow]
  /\ edits \in [Editors -> Edit] /\ evals \in [Evaluators -> Evaluation]
  /\ reports \subseteq EvaluationId /\ weekly \in Seq(Report)
  /\ overlapped \in BOOLEAN /\ together \in BOOLEAN

\* No evaluation counts a trade whose signal was invalidated before the
\* evaluation began, even where a run with an older state has since closed the
\* position, other invalidations replace the state, or the invalidation died
\* before it saved (demo_shadow_evaluator.py:28-56 against
\* demo_shadow_engine.py:452-488).
InvalidatedNeverCounts ==
  \A row \in Range(weekly) : row.trades \cap row.known = {}

\* As long as no invalidation has met a run or another invalidation and none of
\* them has died, the state and the events ledger agree and no invalidated
\* position is open: those that replace the state need to exclude each other,
\* and the evaluations need not (demo_shadow_engine.py:452-488).
AloneItHolds ==
  ~overlapped /\ ~Editing(Editors) =>
    /\ disk.open \notin Invalid(ledgers)
    /\ disk.invalidated = Invalid(ledgers)

\* The weekly ledger has rows only for reports that are there, and one for an
\* evaluation as long as no two evaluations have run at the same time, although
\* an evaluation may die at any step: the check for the row and the row itself
\* are two steps (demo_shadow_evaluator.py:177-183).
WeeklyOnce ==
  /\ \A row \in Range(weekly) : row.id \in reports
  /\ ~together => \A i, j \in DOMAIN weekly : weekly[i].id = weekly[j].id => i = j

\* The drawdown is the loss over the worst stretch of consecutive trades
\* (demo_shadow_evaluator.py:246-252).
DrawdownIsWorstStretch ==
  LET nets == Nets(Trades(ledgers))
      stretches == {-SumOf(SubSeq(nets, i, j)) : i \in DOMAIN nets, j \in DOMAIN nets}
  IN  MaximumDrawdown(nets) = Max(stretches \cup {0})
----------------------------------------------------------------------------
(* What makes the first three inductive.                                   *)

\* An evaluation knows of no invalidation that the ledger does not have, what
\* it has read of the events has them all, and its report is there before a row.
EvaluationBlind ==
  \A v \in Evaluators :
    /\ evals[v].pc # "idle" => evals[v].known \subseteq Invalid(ledgers)
    /\ evals[v].pc \in {"judging", "written", "new"}
         => evals[v].known \subseteq Invalid(evals[v].seen)
    /\ evals[v].pc \in {"written", "new"} => evals[v].id \in reports
\* One evaluation at a time, and none appends what is there.
EvaluationAlone ==
  ~together => /\ \A v, w \in Evaluators :
                    evals[v].pc # "idle" /\ evals[w].pc # "idle" => v = w
               /\ \A v \in Evaluators :
                    evals[v].pc = "new" => \A row \in Range(weekly) : row.id # evals[v].id
ReportInvariant == EvaluationBlind /\ EvaluationAlone /\ InvalidatedNeverCounts /\ WeeklyOnce

\* The last signal that the ledger may have.
Counted == IF run.pc = "idle" THEN disk.last ELSE run.state.last

\* The run works on what the invalidations have saved: the signals are those up
\* to the last one counted, and no invalidation is under way.
RunInTurn ==
  /\ \A s \in Range(ledgers.signals) : s.id <= Counted
  /\ run.pc = "decided" => run.row.id = run.state.last
  /\ run.pc # "idle" => /\ ~Editing(Editors)
                        /\ run.state.invalidated = disk.invalidated
                        /\ run.state.open \notin Invalid(ledgers)
\* Only the one invalidation under way knows more than the saved state.
EditInTurn(e) ==
  edits[e].pc # "idle" =>
    /\ \A f \in Editors \ {e} : edits[f].pc = "idle"
    /\ edits[e].state.last = disk.last
    /\ edits[e].pc \in {"loaded", "chosen"} => edits[e].state = disk
    /\ edits[e].pc \in {"fill", "save"} => edits[e].state.invalidated = Invalid(ledgers)
    /\ edits[e].pc = "fill" => edits[e].state.open = edits[e].id
    /\ edits[e].pc = "save" => edits[e].state.open \notin Invalid(ledgers)
StateAgrees ==
  (\A e \in Editors : edits[e].pc \in {"idle", "loaded", "chosen"}) =>
    /\ disk.open \notin Invalid(ledgers)
    /\ disk.invalidated = Invalid(ledgers)
InTurn == RunInTurn /\ (\A e \in Editors : EditInTurn(e)) /\ StateAgrees
AloneInvariant ==
  /\ Invalid(ledgers) \subseteq Recorded
  /\ ~overlapped => InTurn
=============================================================================

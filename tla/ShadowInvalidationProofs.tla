---------------------- MODULE ShadowInvalidationProofs ----------------------
(***************************************************************************)
(* What the invalidations, the runs and the evaluations promise each other *)
(* for any number of operators, evaluators, signals and deaths.  The       *)
(* evaluations need no exclusion to never count what they know to be       *)
(* invalid; one weekly row for an evaluation needs them one at a time.     *)
(* The state and the events ledger agree as long as those that replace the *)
(* state, the run and the invalidations, do not meet.                      *)
(***************************************************************************)
EXTENDS ShadowInvalidation, OrderingProofs, SequenceTheorems

\* A row appended to a ledger: what is there stays, and the row joins.
LEMMA RowJoins ==
    ASSUME NEW S, NEW s \in Seq(S), NEW row \in S
    PROVE  /\ Append(s, row) \in Seq(S) /\ Len(Append(s, row)) = Len(s) + 1
           /\ DOMAIN s = 1..Len(s) /\ DOMAIN Append(s, row) = 1..(Len(s) + 1)
           /\ \A i \in 1..Len(s) : Append(s, row)[i] = s[i]
           /\ Append(s, row)[Len(s) + 1] = row
           /\ Range(Append(s, row)) = Range(s) \union {row}
<1>1. /\ Append(s, row) \in Seq(S) /\ Len(Append(s, row)) = Len(s) + 1 /\ Len(s) \in Nat
      /\ DOMAIN s = 1..Len(s) /\ DOMAIN Append(s, row) = 1..(Len(s) + 1)
      /\ \A i \in 1..Len(s) : Append(s, row)[i] = s[i]
      /\ Append(s, row)[Len(s) + 1] = row
  OBVIOUS
<1>2. Range(Append(s, row)) = Range(s) \union {row}
  BY <1>1 DEF Range
<1> QED
  BY <1>1, <1>2

\* The members of a ledger are rows of its type.
LEMMA RowsTyped ==
    ASSUME NEW S, NEW s \in Seq(S)
    PROVE  Range(s) \subseteq S
  BY DEF Range

\* The fields of a ledgers record.
LEMMA LedgersAre ==
    ASSUME NEW l \in Ledgers
    PROVE  /\ l.signals \in Seq(SignalRow) /\ l.fills \in Seq(FillRow)
           /\ l.events \in Seq(EventRow)
           /\ Invalid(l) = {e.id : e \in Range(l.events)}
           /\ Invalid(l) \subseteq Nat \ {0}
<1>1. /\ l.signals \in Seq(SignalRow) /\ l.fills \in Seq(FillRow)
      /\ l.events \in Seq(EventRow)
  BY DEF Ledgers
<1>2. Range(l.events) \subseteq EventRow
  BY <1>1, RowsTyped
<1>3. \A e \in Range(l.events) : e.exclude = TRUE /\ e.id \in Nat \ {0}
  BY <1>2 DEF EventRow
<1>4. Invalid(l) = {e.id : e \in Range(l.events)}
  BY <1>3 DEF Invalid
<1> QED
  BY <1>1, <1>3, <1>4

LEMMA LedgerFields ==
    ASSUME TypeOK
    PROVE  /\ ledgers \in Ledgers
           /\ ledgers.signals \in Seq(SignalRow) /\ ledgers.fills \in Seq(FillRow)
           /\ ledgers.events \in Seq(EventRow)
           /\ Invalid(ledgers) = {e.id : e \in Range(ledgers.events)}
           /\ Invalid(ledgers) \subseteq Nat \ {0}
<1>1. ledgers \in Ledgers
  BY DEF TypeOK
<1> QED
  BY <1>1, LedgersAre

\* A row of one of the three ledgers leaves the others alone.
LEMMA SignalAppended ==
    ASSUME TypeOK, NEW row \in SignalRow, ledgers' = AppendTo("signals", row)
    PROVE  /\ ledgers' \in Ledgers
           /\ Range(ledgers'.signals) = Range(ledgers.signals) \union {row}
           /\ ledgers'.events = ledgers.events /\ ledgers'.fills = ledgers.fills
<1>1. Append(ledgers.signals, row) \in Seq(SignalRow)
  BY LedgerFields, RowJoins
<1>2. ledgers' = [ledgers EXCEPT !.signals = Append(ledgers.signals, row)]
  BY DEF AppendTo, TypeOK, Ledgers
<1>3. ledgers'.signals = Append(ledgers.signals, row)
  BY <1>2 DEF TypeOK, Ledgers
<1>4. Range(ledgers'.signals) = Range(ledgers.signals) \union {row}
  <2>1. ledgers.signals \in Seq(SignalRow)
    BY LedgerFields
  <2>2. Range(Append(ledgers.signals, row)) = Range(ledgers.signals) \union {row}
    BY <2>1, RowJoins
  <2> QED
    BY <1>3, <2>2
<1> QED
  BY <1>1, <1>2, <1>4 DEF TypeOK, Ledgers

LEMMA FillAppended ==
    ASSUME TypeOK, NEW row \in FillRow, ledgers' = AppendTo("fills", row)
    PROVE  /\ ledgers' \in Ledgers
           /\ ledgers'.signals = ledgers.signals /\ ledgers'.events = ledgers.events
<1>1. Append(ledgers.fills, row) \in Seq(FillRow)
  BY LedgerFields, RowJoins
<1>2. ledgers' = [ledgers EXCEPT !.fills = Append(ledgers.fills, row)]
  BY DEF AppendTo, TypeOK, Ledgers
<1> QED
  BY <1>1, <1>2 DEF TypeOK, Ledgers

LEMMA EventAppended ==
    ASSUME TypeOK, NEW row \in EventRow, ledgers' = AppendTo("events", row)
    PROVE  /\ ledgers' \in Ledgers
           /\ ledgers'.signals = ledgers.signals
           /\ Range(ledgers'.events) = Range(ledgers.events) \union {row}
<1>1. Append(ledgers.events, row) \in Seq(EventRow)
  BY LedgerFields, RowJoins
<1>2. ledgers' = [ledgers EXCEPT !.events = Append(ledgers.events, row)]
  BY DEF AppendTo, TypeOK, Ledgers
<1>3. ledgers'.events = Append(ledgers.events, row)
  BY <1>2 DEF TypeOK, Ledgers
<1>4. Range(ledgers'.events) = Range(ledgers.events) \union {row}
  <2>1. ledgers.events \in Seq(EventRow)
    BY LedgerFields
  <2>2. Range(Append(ledgers.events, row)) = Range(ledgers.events) \union {row}
    BY <2>1, RowJoins
  <2> QED
    BY <1>3, <2>2
<1> QED
  BY <1>1, <1>2, <1>4 DEF TypeOK, Ledgers

\* No trade that counts is of an invalidated signal.
LEMMA TradesAreValid ==
    ASSUME NEW l \in Ledgers
    PROVE  {t.id : t \in CountedTrades(l)} \subseteq Nat \ Invalid(l)
<1> SUFFICES ASSUME NEW t \in CountedTrades(l)
             PROVE  t.id \in Nat \ Invalid(l)
  OBVIOUS
<1>1. PICK p \in Entries(l) \X Exits(l) : t.id = l.fills[p[1]].id
  BY DEF CountedTrades
<1>2. p[1] \in Entries(l)
  OBVIOUS
<1>3. p[1] \in DOMAIN l.fills /\ l.fills[p[1]].id \notin Invalid(l)
  BY <1>2 DEF Entries, LastRows, CountedRow
<1>4. l.fills \in Seq(FillRow)
  BY LedgersAre
<1>5. l.fills[p[1]] \in FillRow
  BY <1>3, <1>4
<1>6. l.fills[p[1]].id \in Nat
  BY <1>5 DEF FillRow
<1> QED
  BY <1>1, <1>3, <1>6

\* The row of an evaluation is a report.
LEMMA StatusType ==
    ASSUME NEW gates
    PROVE  StatusOf(gates) \in {"collecting", "yellow", "green", "red"}
  BY DEF StatusOf

\* A fill is a row of its ledger.
LEMMA FillTyped ==
    ASSUME NEW event \in {"entry", "exit", "invalidated"}, NEW id \in Nat,
           NEW net \in Returns \union {0}
    PROVE  Fill(event, id, net) \in FillRow
<1>1. (IF id % 2 = 1 THEN 1 ELSE -1) \in {1, -1}
  OBVIOUS
<1> QED
  BY <1>1 DEF Fill, FillRow

-----------------------------------------------------------------------------
(* Types                                                                   *)

LEMMA TypeInit == Init => TypeOK
<1> SUFFICES ASSUME Init
             PROVE  TypeOK
  OBVIOUS
<1>1. NoState \in EngineState
  BY DEF NoState, EngineState, None
<1>2. run \in [pc : {"idle", "loaded"}, state : EngineState]
  BY <1>1 DEF Init, Empty, Quiet, Idle
<1>3. NoEdit \in Edit
  BY <1>1 DEF NoEdit, Edit, None
<1>4. Unread \in Ledgers
  BY DEF Unread, Ledgers
<1>5. NoEval \in Evaluation
  BY <1>4 DEF NoEval, NoHash, Evaluation, EvaluationId
<1>6. edits \in [Editors -> Edit] /\ evals \in [Evaluators -> Evaluation]
  BY <1>3, <1>5 DEF Init, Empty, Quiet
<1>7. /\ reports \subseteq EvaluationId /\ weekly \in Seq(Report)
  BY DEF Init, Empty, Quiet
<1>8. overlapped \in BOOLEAN /\ together \in BOOLEAN
  BY Zenon DEF Init, Empty, Quiet
<1> QED
  BY <1>1, <1>2, <1>4, <1>6, <1>7, <1>8 DEF Init, Empty, TypeOK

\* What each process keeps.
LEMMA LocalTypes ==
    ASSUME TypeOK
    PROVE  /\ run.pc \in {"idle", "loaded", "decided"} /\ run.state \in EngineState
           /\ run.state.open \in Nat /\ run.state.last \in Nat
           /\ run.state.invalidated \subseteq Nat
           /\ run.pc = "decided" => run.row \in SignalRow
           /\ run.pc # "decided" => run \in [pc : {"idle", "loaded"}, state : EngineState]
           /\ disk \in EngineState
           /\ disk.open \in Nat /\ disk.last \in Nat /\ disk.invalidated \subseteq Nat
           /\ Idle.pc = "idle" /\ Idle.state = NoState
           /\ Idle \in [pc : {"idle", "loaded"}, state : EngineState]
           /\ NoEdit \in Edit /\ NoEdit.pc = "idle" /\ NoEval \in Evaluation
           /\ NoEval.pc = "idle"
<1>1. /\ run.pc \in {"idle", "loaded", "decided"} /\ run.state \in EngineState
      /\ run.pc = "decided" => run.row \in SignalRow
      /\ run.pc # "decided" => run \in [pc : {"idle", "loaded"}, state : EngineState]
  BY DEF TypeOK
<1>4. disk \in EngineState
  BY DEF TypeOK
<1>5. NoState \in EngineState
  BY DEF NoState, EngineState, None
<1>6. /\ Idle.pc = "idle" /\ Idle.state = NoState
      /\ Idle \in [pc : {"idle", "loaded"}, state : EngineState]
  BY <1>5 DEF Idle
<1>7. NoEdit \in Edit /\ NoEdit.pc = "idle"
  BY <1>5 DEF NoEdit, Edit, None
<1>8. NoEval \in Evaluation /\ NoEval.pc = "idle"
  <2>1. Unread \in Ledgers
    BY DEF Unread, Ledgers
  <2> QED
    BY <2>1 DEF NoEval, NoHash, Evaluation, EvaluationId
<1> QED
  BY <1>1, <1>4, <1>6, <1>7, <1>8 DEF EngineState

\* What an editor and an evaluator keep.
LEMMA EditTypes ==
    ASSUME TypeOK, NEW e \in Editors
    PROVE  /\ edits[e] \in Edit /\ edits[e].id \in Nat /\ edits[e].state \in EngineState
           /\ edits[e].pc \in {"idle", "loaded", "chosen", "fill", "save"}
           /\ edits[e].state.open \in Nat /\ edits[e].state.last \in Nat
           /\ edits[e].state.invalidated \subseteq Nat
<1>1. edits[e] \in Edit
  BY DEF TypeOK
<1> QED
  BY <1>1 DEF Edit, EngineState

LEMMA EvalTypes ==
    ASSUME TypeOK, NEW v \in Evaluators
    PROVE  /\ evals[v] \in Evaluation /\ evals[v].id \in EvaluationId
           /\ evals[v].pc \in {"idle", "hashing", "reading", "judging", "written", "new"}
           /\ evals[v].next \in {"signals", "fills", "events"}
           /\ evals[v].known \subseteq Nat /\ evals[v].seen \in Ledgers
<1>1. evals[v] \in Evaluation
  BY DEF TypeOK
<1> QED
  BY <1>1 DEF Evaluation

\* The report of what an evaluation has read.
LEMMA ReportTyped ==
    ASSUME NEW eval \in Evaluation
    PROVE  /\ ReportOf(eval) \in Report /\ ReportOf(eval).id = eval.id
           /\ ReportOf(eval).known = eval.known
           /\ ReportOf(eval).trades = {t.id : t \in CountedTrades(eval.seen)}
<1>1. {t.id : t \in CountedTrades(eval.seen)} \in SUBSET Nat
  <2>1. eval.seen \in Ledgers
    BY DEF Evaluation
  <2> QED
    BY <2>1, TradesAreValid
<1>2. eval.id \in EvaluationId /\ eval.known \in SUBSET Nat
  BY DEF Evaluation
<1> QED
  BY <1>1, <1>2, StatusType DEF ReportOf, Report

\* What a run appends to the ledgers.
LEMMA RunRows ==
    ASSUME TypeOK
    PROVE  /\ RunExits => \E row \in FillRow : ledgers' = AppendTo("fills", row)
           /\ RunDecides => \/ ledgers' = ledgers
                            \/ \E row \in FillRow : ledgers' = AppendTo("fills", row)
           /\ RunRecords => run.row \in SignalRow /\ ledgers' = AppendTo("signals", run.row)
           /\ \A e \in Editors :
                EditClears(e) => \E row \in FillRow : ledgers' = AppendTo("fills", row)
<1>1. ASSUME RunExits
      PROVE  \E row \in FillRow : ledgers' = AppendTo("fills", row)
  <2>1. PICK net \in Returns : ledgers' = AppendTo("fills", Fill("exit", run.state.open, net))
    BY <1>1 DEF RunExits
  <2>2. Fill("exit", run.state.open, net) \in FillRow
    BY LocalTypes, FillTyped
  <2> QED
    BY <2>1, <2>2
<1>2. ASSUME RunDecides
      PROVE  \/ ledgers' = ledgers
             \/ \E row \in FillRow : ledgers' = AppendTo("fills", row)
  <2>1. \/ ledgers' = ledgers
        \/ ledgers' = AppendTo("fills", Fill("entry", run.state.last + 1, 0))
    BY <1>2 DEF RunDecides
  <2>2. Fill("entry", run.state.last + 1, 0) \in FillRow
    BY LocalTypes, FillTyped
  <2> QED
    BY <2>1, <2>2
<1>3. ASSUME RunRecords
      PROVE  run.row \in SignalRow /\ ledgers' = AppendTo("signals", run.row)
  BY <1>3, LocalTypes DEF RunRecords
<1>4. ASSUME NEW e \in Editors, EditClears(e)
      PROVE  \E row \in FillRow : ledgers' = AppendTo("fills", row)
  <2>1. ledgers' = AppendTo("fills", Fill("invalidated", edits[e].id, 0))
    BY <1>4 DEF EditClears
  <2>2. Fill("invalidated", edits[e].id, 0) \in FillRow
    BY EditTypes, FillTyped
  <2> QED
    BY <2>1, <2>2
<1> QED
  BY <1>1, <1>2, <1>3, <1>4

\* What an invalidation appends: an event for a recorded signal.
LEMMA CorrectFacts ==
    ASSUME TypeOK, NEW e \in Editors, EditCorrects(e)
    PROVE  \E row \in EventRow, edit \in Edit :
              /\ row.id = edits[e].id /\ row.id \in Recorded
              /\ ledgers' = AppendTo("events", row)
              /\ edits[e].pc = "chosen"
              /\ edits' = [edits EXCEPT ![e] = edit]
              /\ edit.pc = IF edits[e].state.open = row.id THEN "fill" ELSE "save"
              /\ edit.id = row.id
              /\ edit.state.open = edits[e].state.open
              /\ edit.state.last = edits[e].state.last
              /\ edit.state.invalidated = edits[e].state.invalidated \union {row.id}
<1>1. PICK old \in Edit : old = edits[e]
  BY EditTypes
<1>2. /\ old.pc = "chosen" /\ old.id \in Recorded /\ old.id \in Nat
      /\ ledgers' = AppendTo("events", [id |-> old.id, exclude |-> TRUE])
  BY <1>1 DEF EditCorrects, Edit
<1>3. old.id \in Nat \ {0}
  <2>1. Range(ledgers.signals) \subseteq SignalRow
    BY LedgerFields, RowsTyped
  <2> QED
    BY <1>2, <2>1 DEF SignalRow, Recorded
<1>4. PICK row \in EventRow : row = [id |-> old.id, exclude |-> TRUE]
  BY <1>3 DEF EventRow
<1>5. PICK pc \in {"fill", "save"} : pc = IF old.state.open = old.id THEN "fill" ELSE "save"
  OBVIOUS
<1>6. PICK invalidated \in SUBSET Nat : invalidated = old.state.invalidated \union {old.id}
  BY <1>2 DEF Edit, EngineState
<1>7. PICK edit : edit = [old EXCEPT !.pc = pc, !.state.invalidated = invalidated]
  OBVIOUS
<1>8. edits' = [edits EXCEPT ![e] = edit]
  <2>1. edits' = [edits EXCEPT
                    ![e].pc = IF edits[e].state.open = edits[e].id THEN "fill" ELSE "save",
                    ![e].state.invalidated = @ \cup {edits[e].id}]
    BY DEF EditCorrects
  <2>2. edits \in [Editors -> Edit]
    BY DEF TypeOK
  <2> QED
    BY <1>1, <1>5, <1>6, <1>7, <2>1, <2>2 DEF Edit, EngineState
<1>9. /\ edit \in Edit /\ edit.pc = pc /\ edit.id = old.id
      /\ edit.state.open = old.state.open /\ edit.state.last = old.state.last
      /\ edit.state.invalidated = invalidated
  BY <1>7 DEF Edit, EngineState
<1> QED
  BY <1>1, <1>2, <1>4, <1>5, <1>6, <1>8, <1>9, ZenonT(30)

\* What a run decides: the next signal, entered only if nothing is open.
LEMMA DecideFacts ==
    ASSUME TypeOK, RunDecides
    PROVE  /\ run.pc = "loaded" /\ run'.pc = "decided"
           /\ run' \in [pc : {"decided"}, state : EngineState, row : SignalRow]
           /\ run'.row.id = run.state.last + 1 /\ run'.state.last = run.state.last + 1
           /\ run'.state.invalidated = run.state.invalidated
           /\ run'.state.open = run.state.open \/ run'.state.open = run.state.last + 1
<1>1. PICK d \in {"ignored", "entry", "late"} :
        run' = [pc |-> "decided", row |-> [id |-> run.state.last + 1, observed |-> Now,
                                           disposition |-> d],
                state |-> [run.state EXCEPT !.last = run.state.last + 1,
                             !.open = IF d = "entry" THEN run.state.last + 1 ELSE @]]
  BY DEF RunDecides
<1>2. run.state \in EngineState /\ run.state.last \in Nat /\ run.state.open \in Nat
  BY LocalTypes
<1>3. PICK open \in Nat : /\ open = IF d = "entry" THEN run.state.last + 1 ELSE run.state.open
                          /\ open = run.state.open \/ open = run.state.last + 1
  BY <1>2
<1>4. PICK last \in Nat : last = run.state.last + 1
  BY <1>2
<1>5. PICK state : state = [run.state EXCEPT !.last = last, !.open = open]
  OBVIOUS
<1>s. PICK old \in EngineState : old = run.state
  BY <1>2
<1>t. state = [old EXCEPT !.last = last, !.open = open]
  BY <1>5, <1>s
<1>6. /\ state \in EngineState /\ state.last = last /\ state.open = open
      /\ state.invalidated = run.state.invalidated
  <2>1. state \in EngineState
    BY <1>t DEF EngineState
  <2>2. state.last = last
    BY <1>t DEF EngineState
  <2>3. state.open = open
    BY <1>t DEF EngineState
  <2>4. state.invalidated = old.invalidated
    BY <1>t DEF EngineState
  <2> QED
    BY <1>s, <2>1, <2>2, <2>3, <2>4
<1>7. PICK row : row = [id |-> last, observed |-> Now, disposition |-> d]
  OBVIOUS
<1>8. row \in SignalRow /\ row.id = last
  BY <1>2, <1>4, <1>7 DEF SignalRow
<1>9. run' = [pc |-> "decided", row |-> row, state |-> state]
  BY <1>1, <1>3, <1>4, <1>5, <1>7
<1> QED
  BY <1>3, <1>4, <1>6, <1>8, <1>9 DEF RunDecides

\* The steps of the run, of an editor and of an evaluator leave the others alone.
LEMMA Frames ==
    ASSUME TRUE
    PROVE  /\ RunStep => /\ edits' = edits /\ evals' = evals /\ reports' = reports
                         /\ weekly' = weekly /\ together' = together
           /\ \A e \in Editors : EditStep(e) =>
                /\ run' = run /\ evals' = evals /\ reports' = reports
                /\ weekly' = weekly /\ together' = together
           /\ \A v \in Evaluators : EvalStep(v) =>
                /\ ledgers' = ledgers /\ disk' = disk /\ run' = run /\ edits' = edits
                /\ overlapped' = overlapped
           /\ Dies => /\ ledgers' = ledgers /\ disk' = disk /\ reports' = reports
                      /\ weekly' = weekly /\ together' = together
<1>1. RunStep => /\ edits' = edits /\ evals' = evals /\ reports' = reports
                 /\ weekly' = weekly /\ together' = together
  BY DEF RunStep, RunLoads, RunExits, RunDecides, RunRecords, RunSaves, RunEnds
<1>2. ASSUME NEW e \in Editors, EditStep(e)
      PROVE  /\ run' = run /\ evals' = evals /\ reports' = reports
             /\ weekly' = weekly /\ together' = together
  BY <1>2 DEF EditStep, EditLoads, EditChooses, EditReturns, EditCorrects, EditClears, EditSaves
<1>3. ASSUME NEW v \in Evaluators, EvalStep(v)
      PROVE  /\ ledgers' = ledgers /\ disk' = disk /\ run' = run /\ edits' = edits
             /\ overlapped' = overlapped
  BY <1>3 DEF EvalStep, EvalHashes, EvalReads, EvalWrites, EvalChecks, EvalAppends
<1>4. Dies => /\ ledgers' = ledgers /\ disk' = disk /\ reports' = reports
              /\ weekly' = weekly /\ together' = together
  BY DEF Dies
<1> QED
  BY <1>1, <1>2, <1>3, <1>4

\* An evaluation reads into what it has seen.
LEMMA SeenTyped ==
    ASSUME TypeOK, NEW v \in Evaluators, EvalReads(v)
    PROVE  \E seen \in Ledgers, pc \in {"reading", "judging"},
              next \in {"signals", "fills", "events"} :
             /\ evals' = [evals EXCEPT ![v] = [evals[v] EXCEPT !.pc = pc, !.next = next,
                                                               !.seen = seen]]
             /\ pc = "judging" => seen.events = ledgers.events
<1>1. PICK old \in Evaluation : old = evals[v]
  BY EvalTypes
<1>2. evals' = [evals EXCEPT ![v] =
                  [old EXCEPT !.pc = IF old.next = "events" THEN "judging" ELSE "reading",
                     !.next = After[old.next],
                     !.seen = IF old.next = "events" THEN WithRest(@)
                              ELSE [@ EXCEPT ![old.next] = ledgers[old.next]]]]
  BY <1>1 DEF EvalReads
<1>3. /\ old.seen \in Ledgers /\ ledgers \in Ledgers
      /\ old.next \in {"signals", "fills", "events"}
  BY LedgerFields DEF Evaluation
<1>4. PICK next \in {"signals", "fills", "events"} : next = After[old.next]
  BY <1>3 DEF After
<1>5. PICK pc \in {"reading", "judging"} :
        pc = IF old.next = "events" THEN "judging" ELSE "reading"
  OBVIOUS
<1>6. PICK seen : seen = IF old.next = "events" THEN WithRest(old.seen)
                         ELSE [old.seen EXCEPT ![old.next] = ledgers[old.next]]
  OBVIOUS
<1>7. seen \in Ledgers /\ (pc = "judging" => seen.events = ledgers.events)
  <2>1. CASE old.next = "events"
    <3>1. seen = WithRest(old.seen)
      BY <1>6, <2>1
    <3> QED
      BY <1>3, <3>1 DEF WithRest, Ledgers
  <2>2. CASE old.next = "signals"
    <3>1. seen = [old.seen EXCEPT !.signals = ledgers.signals] /\ pc = "reading"
      BY <1>5, <1>6, <2>2
    <3> QED
      BY <1>3, <3>1 DEF Ledgers
  <2>3. CASE old.next = "fills"
    <3>1. seen = [old.seen EXCEPT !.fills = ledgers.fills] /\ pc = "reading"
      BY <1>5, <1>6, <2>3
    <3> QED
      BY <1>3, <3>1 DEF Ledgers
  <2> QED
    BY <1>3, <2>1, <2>2, <2>3
<1>8. evals' = [evals EXCEPT ![v] = [old EXCEPT !.pc = pc, !.next = next, !.seen = seen]]
  BY <1>2, <1>4, <1>5, <1>6 DEF Evaluation
<1> QED
  BY <1>1, <1>7, <1>8

\* An evaluation hashes ledgers of which it knows the corrections.
LEMMA HashTyped ==
    ASSUME TypeOK, NEW v \in Evaluators, EvalHashes(v)
    PROVE  \E id \in EvaluationId, pc \in {"hashing", "reading"},
              next \in {"signals", "fills", "events"}, known \in SUBSET Nat :
             /\ evals' = [evals EXCEPT ![v] = [evals[v] EXCEPT !.pc = pc, !.next = next,
                                                               !.id = id, !.known = known]]
             /\ known = IF evals[v].pc = "idle" THEN Invalid(ledgers) ELSE evals[v].known
<1>1. PICK old \in Evaluation : old = evals[v]
  BY EvalTypes
<1>2. PICK known : known = IF old.pc = "idle" THEN Invalid(ledgers) ELSE old.known
  OBVIOUS
<1>3. known \in SUBSET Nat
  BY <1>2, LedgerFields DEF Evaluation
<1>4. old.next \in {"signals", "fills", "events"} /\ old.id \in EvaluationId
  BY DEF Evaluation
<1>5. PICK next \in {"signals", "fills", "events"} : next = After[old.next]
  BY <1>4 DEF After
<1>6. PICK pc \in {"hashing", "reading"} :
        pc = IF old.next = "events" THEN "reading" ELSE "hashing"
  OBVIOUS
<1>7. PICK id : id = [old.id EXCEPT ![old.next] = Len(ledgers[old.next])]
  OBVIOUS
<1>8. id \in EvaluationId
  <2>1. Len(ledgers[old.next]) \in Nat
    BY <1>4, LedgerFields
  <2> QED
    BY <1>4, <1>7, <2>1 DEF EvaluationId
<1>9. evals' = [evals EXCEPT ![v] = [old EXCEPT !.pc = pc, !.next = next, !.id = id,
                                                !.known = known]]
  <2>1. evals' = [evals EXCEPT ![v] =
                    [old EXCEPT !.pc = IF old.next = "events" THEN "reading" ELSE "hashing",
                       !.next = After[old.next],
                       !.id[old.next] = Len(ledgers[old.next]),
                       !.known = IF old.pc = "idle" THEN {e.id : e \in Range(ledgers.events)}
                                 ELSE @]]
    BY <1>1 DEF EvalHashes
  <2>2. Invalid(ledgers) = {e.id : e \in Range(ledgers.events)}
    BY LedgerFields
  <2>3. known = IF old.pc = "idle" THEN {e.id : e \in Range(ledgers.events)} ELSE old.known
    BY <1>2, <2>2
  <2> QED
    BY <1>5, <1>6, <1>7, <2>1, <2>3 DEF Evaluation
<1> QED
  BY <1>1, <1>2, <1>3, <1>8, <1>9

LEMMA TypeStep ==
    ASSUME TypeOK, [Next]_vars
    PROVE  TypeOK'
<1> DEFINE Runs == [pc : {"idle", "loaded"}, state : EngineState]
           Deciding == [pc : {"decided"}, state : EngineState, row : SignalRow]
<1>0. /\ ledgers \in Ledgers /\ disk \in EngineState /\ run \in Runs \union Deciding
      /\ edits \in [Editors -> Edit] /\ evals \in [Evaluators -> Evaluation]
      /\ reports \subseteq EvaluationId /\ weekly \in Seq(Report)
  BY DEF TypeOK
<1>a. overlapped \in BOOLEAN /\ together \in BOOLEAN
  BY DEF TypeOK
<1>b. /\ run.state \in EngineState /\ Idle \in Runs
      /\ run.pc = "loaded" => run \in Runs
      /\ run.pc = "decided" => run.row \in SignalRow
  BY LocalTypes
<1> DEFINE Typed == /\ ledgers' \in Ledgers /\ disk' \in EngineState
                    /\ run' \in Runs \union Deciding
                    /\ edits' \in [Editors -> Edit] /\ evals' \in [Evaluators -> Evaluation]
                    /\ reports' \subseteq EvaluationId /\ weekly' \in Seq(Report)
                    /\ overlapped' \in BOOLEAN /\ together' \in BOOLEAN
<1>1. ASSUME RunStep
      PROVE  Typed
  <2>1. ledgers' \in Ledgers
    <3>1. ASSUME RunExits \/ RunDecides \/ RunRecords
          PROVE  ledgers' \in Ledgers
      BY <1>0, <3>1, RunRows, FillAppended, SignalAppended
    <3>2. ASSUME RunLoads \/ RunSaves \/ RunEnds
          PROVE  ledgers' = ledgers
      BY <3>2 DEF RunLoads, RunSaves, RunEnds
    <3> QED
      BY <1>0, <1>1, <3>1, <3>2 DEF RunStep
  <2>2. disk' \in EngineState
    BY <1>0, <1>1, <1>b
       DEF RunStep, RunLoads, RunExits, RunDecides, RunRecords, RunSaves, RunEnds
  <2>3. run' \in Runs \union Deciding
    <3>1. ASSUME RunExits
          PROVE  run' \in Runs
      <4>1. run' = [run EXCEPT !.state.open = None] /\ run \in Runs
        BY <1>b, <3>1 DEF RunExits
      <4> QED
        BY <4>1 DEF EngineState, None
    <3>2. ASSUME RunDecides
          PROVE  run' \in Deciding
      BY <3>2, DecideFacts
    <3>3. ASSUME RunLoads \/ RunRecords \/ RunSaves \/ RunEnds
          PROVE  run' \in Runs
      BY <1>0, <1>b, <3>3 DEF RunLoads, RunRecords, RunSaves, RunEnds
    <3> HIDE DEF Runs, Deciding
    <3> QED
      BY <1>1, <3>1, <3>2, <3>3 DEF RunStep
  <2>4. overlapped' \in BOOLEAN
    <3>1. overlapped' = overlapped \/ overlapped' = (overlapped \/ Editing(Editors))
      BY <1>1 DEF RunStep, RunLoads, RunExits, RunDecides, RunRecords, RunSaves, RunEnds
    <3> QED
      BY <1>a, <3>1, Zenon
  <2>5. /\ edits' = edits /\ evals' = evals /\ reports' = reports
        /\ weekly' = weekly /\ together' = together
    BY <1>1, Frames
  <2> HIDE DEF Runs, Deciding
  <2> QED
    BY <1>0, <1>a, <2>1, <2>2, <2>3, <2>4, <2>5
<1>2. ASSUME NEW e \in Editors, EditStep(e)
      PROVE  Typed
  <2>1. ledgers' \in Ledgers
    <3>1. ASSUME EditClears(e)
          PROVE  ledgers' \in Ledgers
      BY <3>1, RunRows, FillAppended
    <3>2. ASSUME EditCorrects(e)
          PROVE  ledgers' \in Ledgers
      BY <3>2, CorrectFacts, EventAppended
    <3>3. ASSUME EditLoads(e) \/ EditChooses(e) \/ EditReturns(e) \/ EditSaves(e)
          PROVE  ledgers' = ledgers
      BY <3>3 DEF EditLoads, EditChooses, EditReturns, EditSaves
    <3> QED
      BY <1>0, <1>2, <3>1, <3>2, <3>3 DEF EditStep
  <2>2. disk' \in EngineState
    <3>1. edits[e].state \in EngineState
      BY EditTypes
    <3> QED
      BY <1>0, <1>2, <3>1
         DEF EditStep, EditLoads, EditChooses, EditReturns, EditCorrects, EditClears, EditSaves
  <2>3. edits' \in [Editors -> Edit]
    <3>a. NoEdit \in Edit /\ edits[e] \in Edit
      BY LocalTypes, EditTypes
    <3>1. ASSUME EditLoads(e)
          PROVE  edits' \in [Editors -> Edit]
      <4>1. PICK edit : edit = [NoEdit EXCEPT !.pc = "loaded", !.state = disk]
        OBVIOUS
      <4>2. edit \in Edit
        BY <1>0, <3>a, <4>1 DEF Edit
      <4> QED
        BY <1>0, <3>1, <4>1, <4>2 DEF EditLoads
    <3>2. ASSUME EditChooses(e)
          PROVE  edits' \in [Editors -> Edit]
      <4>1. PICK id \in 1 .. Signals : edits' = [edits EXCEPT ![e].pc = "chosen", ![e].id = id]
        BY <3>2 DEF EditChooses
      <4>2. id \in Nat
        OBVIOUS
      <4> QED
        BY <1>0, <3>a, <4>1, <4>2 DEF Edit
    <3>3. ASSUME EditCorrects(e)
          PROVE  edits' \in [Editors -> Edit]
      <4>1. PICK edit \in Edit : edits' = [edits EXCEPT ![e] = edit]
        BY <3>3, CorrectFacts
      <4> QED
        BY <1>0, <4>1
    <3>4. ASSUME EditClears(e)
          PROVE  edits' \in [Editors -> Edit]
      <4>1. edits' = [edits EXCEPT ![e].pc = "save", ![e].state.open = None]
        BY <3>4 DEF EditClears
      <4> QED
        BY <1>0, <3>a, <4>1 DEF Edit, EngineState, None
    <3>5. ASSUME EditReturns(e) \/ EditSaves(e)
          PROVE  edits' \in [Editors -> Edit]
      <4>1. edits' = [edits EXCEPT ![e] = NoEdit]
        BY <3>5 DEF EditReturns, EditSaves
      <4> QED
        BY <1>0, <3>a, <4>1
    <3> QED
      BY <1>2, <3>1, <3>2, <3>3, <3>4, <3>5 DEF EditStep
  <2>4. overlapped' \in BOOLEAN
    <3>1. \/ overlapped' = overlapped
          \/ overlapped' = (overlapped \/ run.pc # "idle" \/ Editing(Editors \ {e}))
      BY <1>2
         DEF EditStep, EditLoads, EditChooses, EditReturns, EditCorrects, EditClears, EditSaves
    <3> QED
      BY <1>a, <3>1, Zenon
  <2>5. /\ run' = run /\ evals' = evals /\ reports' = reports
        /\ weekly' = weekly /\ together' = together
    BY <1>2, Frames
  <2> HIDE DEF Runs, Deciding
  <2> QED
    BY <1>0, <1>a, <2>1, <2>2, <2>3, <2>4, <2>5
<1>3. ASSUME NEW v \in Evaluators, EvalStep(v)
      PROVE  Typed
  <2>a. NoEval \in Evaluation /\ evals[v] \in Evaluation
    BY LocalTypes, EvalTypes
  <2>1. evals' \in [Evaluators -> Evaluation]
    <3>1. ASSUME EvalHashes(v)
          PROVE  evals' \in [Evaluators -> Evaluation]
      <4>1. PICK id \in EvaluationId, pc \in {"hashing", "reading"},
               next \in {"signals", "fills", "events"}, known \in SUBSET Nat :
               /\ evals' = [evals EXCEPT ![v] = [evals[v] EXCEPT !.pc = pc, !.next = next,
                                                               !.id = id, !.known = known]]
               /\ known = IF evals[v].pc = "idle" THEN Invalid(ledgers) ELSE evals[v].known
        BY <3>1, HashTyped, Zenon
      <4>2. [evals[v] EXCEPT !.pc = pc, !.next = next, !.id = id, !.known = known] \in Evaluation
        BY <2>a, Zenon DEF Evaluation
      <4> QED
        BY <1>0, <4>1, <4>2, SMTT(30)
    <3>2. ASSUME EvalReads(v)
          PROVE  evals' \in [Evaluators -> Evaluation]
      <4>1. PICK seen \in Ledgers, pc \in {"reading", "judging"},
               next \in {"signals", "fills", "events"} :
               /\ evals' = [evals EXCEPT ![v] = [evals[v] EXCEPT !.pc = pc, !.next = next,
                                                               !.seen = seen]]
               /\ pc = "judging" => seen.events = ledgers.events
        BY <3>2, SeenTyped, Zenon
      <4>2. [evals[v] EXCEPT !.pc = pc, !.next = next, !.seen = seen] \in Evaluation
        BY <2>a DEF Evaluation
      <4> QED
        BY <1>0, <4>1, <4>2
    <3>3. ASSUME EvalWrites(v)
          PROVE  evals' \in [Evaluators -> Evaluation]
      BY <1>0, <2>a, <3>3 DEF EvalWrites, Evaluation
    <3>4. ASSUME EvalChecks(v)
          PROVE  evals' \in [Evaluators -> Evaluation]
      <4>1. [evals[v] EXCEPT !.pc = "new"] \in Evaluation
        BY <2>a DEF Evaluation
      <4>2. \/ evals' = [evals EXCEPT ![v] = NoEval]
            \/ evals' = [evals EXCEPT ![v] = [evals[v] EXCEPT !.pc = "new"]]
        BY <1>0, <3>4 DEF EvalChecks
      <4> QED
        BY <1>0, <2>a, <4>1, <4>2
    <3>5. ASSUME EvalAppends(v)
          PROVE  evals' \in [Evaluators -> Evaluation]
      BY <1>0, <2>a, <3>5 DEF EvalAppends
    <3> QED
      BY <1>3, <3>1, <3>2, <3>3, <3>4, <3>5 DEF EvalStep
  <2>2. reports' \subseteq EvaluationId
    <3>1. evals[v].id \in EvaluationId
      BY EvalTypes
    <3> QED
      BY <1>0, <1>3, <3>1
         DEF EvalStep, EvalHashes, EvalReads, EvalWrites, EvalChecks, EvalAppends
  <2>3. weekly' \in Seq(Report)
    <3>1. weekly' = weekly \/ weekly' = Append(weekly, ReportOf(evals[v]))
      BY <1>3 DEF EvalStep, EvalHashes, EvalReads, EvalWrites, EvalChecks, EvalAppends
    <3>2. ReportOf(evals[v]) \in Report
      BY <2>a, ReportTyped
    <3>3. Append(weekly, ReportOf(evals[v])) \in Seq(Report)
      BY <1>0, <3>2, RowJoins
    <3> QED
      BY <1>0, <3>1, <3>3
  <2>4. together' \in BOOLEAN
    <3>1. \/ together' = together
          \/ together' = (together \/ \E w \in Evaluators \ {v} : evals[w].pc # "idle")
      BY <1>3 DEF EvalStep, EvalHashes, EvalReads, EvalWrites, EvalChecks, EvalAppends
    <3> QED
      BY <1>a, <3>1, Zenon
  <2>5. /\ ledgers' = ledgers /\ disk' = disk /\ run' = run /\ edits' = edits
        /\ overlapped' = overlapped
    BY <1>3, Frames
  <2> HIDE DEF Runs, Deciding
  <2> QED
    BY <1>0, <1>a, <2>1, <2>2, <2>3, <2>4, <2>5
<1>4. ASSUME Dies
      PROVE  Typed
  <2>1. /\ ledgers' = ledgers /\ disk' = disk /\ reports' = reports
        /\ weekly' = weekly /\ together' = together
    BY <1>4, Frames
  <2>2. /\ run' \in Runs \union Deciding /\ edits' \in [Editors -> Edit]
        /\ evals' \in [Evaluators -> Evaluation] /\ overlapped' \in BOOLEAN
    <3>a. NoEdit \in Edit /\ NoEval \in Evaluation
      BY LocalTypes
    <3>1. ASSUME RunDies
          PROVE  /\ run' \in Runs /\ edits' = edits /\ evals' = evals /\ overlapped' = TRUE
      BY <1>b, <3>1 DEF RunDies
    <3>2. ASSUME NEW e \in Editors, EditDies(e)
          PROVE  /\ edits' \in [Editors -> Edit] /\ run' = run /\ evals' = evals
                 /\ overlapped' = TRUE
      BY <1>0, <3>a, <3>2 DEF EditDies
    <3>3. ASSUME NEW v \in Evaluators, EvalDies(v)
          PROVE  /\ evals' \in [Evaluators -> Evaluation] /\ run' = run /\ edits' = edits
                 /\ overlapped' = overlapped
      BY <1>0, <3>a, <3>3 DEF EvalDies
    <3> HIDE DEF Runs, Deciding
    <3> QED
      BY <1>0, <1>4, <1>a, <3>1, <3>2, <3>3 DEF Dies
  <2> HIDE DEF Runs, Deciding
  <2> QED
    BY <1>0, <1>a, <2>1, <2>2
<1>5. ASSUME UNCHANGED vars
      PROVE  Typed
  <2> HIDE DEF Runs, Deciding
  <2> QED
    BY <1>0, <1>5, <1>a DEF vars
<1>6. Typed
  <2> HIDE DEF Typed
  <2> QED
    BY <1>1, <1>2, <1>3, <1>4, <1>5 DEF Next
<1> QED
  BY <1>6 DEF TypeOK

-----------------------------------------------------------------------------
(* The evaluations                                                         *)

\* The invalidated signals depend on the events alone.
LEMMA InvalidOf ==
    ASSUME NEW old, NEW new
    PROVE  /\ new.events = old.events => Invalid(new) = Invalid(old)
           /\ \A row \in EventRow : Range(new.events) = Range(old.events) \union {row}
                                     => Invalid(new) = Invalid(old) \union {row.id}
<1>1. new.events = old.events => Invalid(new) = Invalid(old)
  BY DEF Invalid
<1>2. ASSUME NEW row \in EventRow, Range(new.events) = Range(old.events) \union {row}
      PROVE  Invalid(new) = Invalid(old) \union {row.id}
  <2>1. row.exclude = TRUE
    BY DEF EventRow
  <2> QED
    BY <1>2, <2>1 DEF Invalid
<1> QED
  BY <1>1, <1>2

\* What a step does to the signals and to the invalidated ones: a run records
\* a signal, or an invalidation adds one that was recorded, or both stay.
LEMMA LedgerSteps ==
    ASSUME TypeOK, [Next]_vars
    PROVE  \/ /\ ledgers'.signals = ledgers.signals
              /\ \E e \in Editors, row \in EventRow, edit \in Edit :
                    /\ EditCorrects(e) /\ row.id \in Recorded
                    /\ Invalid(ledgers') = Invalid(ledgers) \union {row.id}
           \/ /\ RunRecords /\ run.row \in SignalRow
              /\ Range(ledgers'.signals) = Range(ledgers.signals) \union {run.row}
              /\ Invalid(ledgers') = Invalid(ledgers)
           \/ /\ ledgers'.signals = ledgers.signals
              /\ Invalid(ledgers') = Invalid(ledgers)
<1>1. ASSUME NEW e \in Editors, EditCorrects(e)
      PROVE  /\ ledgers'.signals = ledgers.signals
             /\ \E row \in EventRow, edit \in Edit :
                    /\ EditCorrects(e) /\ row.id \in Recorded
                    /\ Invalid(ledgers') = Invalid(ledgers) \union {row.id}
  <2>1. PICK row \in EventRow, edit \in Edit :
              row.id \in Recorded /\ ledgers' = AppendTo("events", row)
    BY <1>1, CorrectFacts
  <2>2. /\ ledgers'.signals = ledgers.signals
        /\ Range(ledgers'.events) = Range(ledgers.events) \union {row}
    BY <2>1, EventAppended
  <2>3. Invalid(ledgers') = Invalid(ledgers) \union {row.id}
    BY <2>2, InvalidOf
  <2> QED
    BY <1>1, <2>1, <2>2, <2>3
<1>2. ASSUME RunRecords
      PROVE  /\ run.row \in SignalRow
             /\ Range(ledgers'.signals) = Range(ledgers.signals) \union {run.row}
             /\ Invalid(ledgers') = Invalid(ledgers)
  BY <1>2, RunRows, SignalAppended, InvalidOf
<1>3. ASSUME \A e \in Editors : ~EditCorrects(e), ~RunRecords
      PROVE  ledgers'.signals = ledgers.signals /\ Invalid(ledgers') = Invalid(ledgers)
  <2>1. ASSUME RunExits \/ RunDecides \/ \E e \in Editors : EditClears(e)
        PROVE  ledgers'.signals = ledgers.signals /\ ledgers'.events = ledgers.events
    BY <2>1, RunRows, FillAppended
  <2>2. ASSUME ~(RunExits \/ RunDecides \/ \E e \in Editors : EditClears(e))
        PROVE  ledgers' = ledgers
    <3>1. RunStep => ledgers' = ledgers
      BY <1>3, <2>2 DEF RunStep, RunLoads, RunSaves, RunEnds
    <3>2. \A e \in Editors : EditStep(e) => ledgers' = ledgers
      BY <1>3, <2>2 DEF EditStep, EditLoads, EditChooses, EditReturns, EditSaves
    <3> QED
      BY <3>1, <3>2, Frames DEF Next, vars
  <2> QED
    BY <2>1, <2>2, InvalidOf
<1> QED
  BY <1>1, <1>2, <1>3

\* An evaluation takes a step of its own, or stays, or is over.
LEMMA EvaluationMoves ==
    ASSUME TypeOK, [Next]_vars, NEW v \in Evaluators
    PROVE  /\ EvalStep(v) \/ evals'[v] = evals[v] \/ evals'[v] = NoEval
           /\ \A u \in Evaluators \ {v} : EvalStep(u) => evals'[v] = evals[v]
           /\ weekly' # weekly => \E u \in Evaluators : EvalAppends(u)
           /\ reports \subseteq reports'
           /\ together' # together => \E u \in Evaluators : EvalHashes(u)
<1>0. evals \in [Evaluators -> Evaluation]
  BY DEF TypeOK
<1>1. ASSUME NEW u \in Evaluators \ {v}, EvalStep(u)
      PROVE  evals'[v] = evals[v]
  BY <1>0, <1>1 DEF EvalStep, EvalHashes, EvalReads, EvalWrites, EvalChecks, EvalAppends
<1>2. Dies => evals'[v] = evals[v] \/ evals'[v] = NoEval
  BY <1>0 DEF Dies, RunDies, EditDies, EvalDies
<1>3. EvalStep(v) \/ evals'[v] = evals[v] \/ evals'[v] = NoEval
  BY <1>1, <1>2, Frames DEF Next, vars
<1>4. \A u \in Evaluators : EvalStep(u) => /\ weekly' = weekly \/ EvalAppends(u)
                                           /\ together' = together \/ EvalHashes(u)
                                           /\ reports \subseteq reports'
  BY DEF EvalStep, EvalHashes, EvalReads, EvalWrites, EvalChecks, EvalAppends
<1> QED
  BY <1>1, <1>3, <1>4, Frames DEF Next, vars, EvalAppends

LEMMA ReportInit == Init => ReportInvariant
<1> SUFFICES ASSUME Init
             PROVE  ReportInvariant
  OBVIOUS
<1>1. (\A v \in Evaluators : evals[v].pc = "idle") /\ weekly = <<>>
  BY DEF Init, Empty, Quiet, NoEval
<1>2. EvaluationBlind /\ EvaluationAlone
  BY <1>1 DEF EvaluationBlind, EvaluationAlone
<1>3. Range(weekly) = {} /\ DOMAIN weekly = {}
  BY <1>1 DEF Range
<1> QED
  BY <1>2, <1>3 DEF ReportInvariant, InvalidatedNeverCounts, WeeklyOnce

LEMMA BlindStep ==
    ASSUME TypeOK, EvaluationBlind, [Next]_vars
    PROVE  EvaluationBlind'
<1>1. Invalid(ledgers) \subseteq Invalid(ledgers')
  BY LedgerSteps
<1> DEFINE Blind(v) == /\ evals[v].pc # "idle" => evals[v].known \subseteq Invalid(ledgers)
                       /\ evals[v].pc \in {"judging", "written", "new"}
                            => evals[v].known \subseteq Invalid(evals[v].seen)
                       /\ evals[v].pc \in {"written", "new"} => evals[v].id \in reports
<1> SUFFICES ASSUME NEW v \in Evaluators
             PROVE  Blind(v)'
  BY DEF EvaluationBlind
<1>2. PICK old \in Evaluation : old = evals[v]
  BY EvalTypes
<1>3. evals \in [Evaluators -> Evaluation]
  BY DEF TypeOK
<1>4. /\ old.pc # "idle" => old.known \subseteq Invalid(ledgers)
      /\ old.pc \in {"judging", "written", "new"} => old.known \subseteq Invalid(old.seen)
      /\ old.pc \in {"written", "new"} => old.id \in reports
  BY <1>2 DEF EvaluationBlind
<1>5. CASE EvalHashes(v)
  <2>1. PICK id \in EvaluationId, pc \in {"hashing", "reading"},
             next \in {"signals", "fills", "events"}, known \in SUBSET Nat :
               /\ evals' = [evals EXCEPT ![v] = [evals[v] EXCEPT !.pc = pc, !.next = next,
                                                                 !.id = id, !.known = known]]
               /\ known = IF evals[v].pc = "idle" THEN Invalid(ledgers) ELSE evals[v].known
    BY <1>5, HashTyped, Zenon
  <2>2. evals'[v].pc = pc /\ evals'[v].known = known
    BY <1>2, <1>3, <2>1 DEF Evaluation
  <2>3. known \subseteq Invalid(ledgers')
    BY <1>1, <1>2, <1>4, <2>1
  <2> QED
    BY <2>1, <2>2, <2>3, SMTT(30)
<1>6. CASE EvalReads(v)
  <2>1. PICK seen \in Ledgers, pc \in {"reading", "judging"},
             next \in {"signals", "fills", "events"} :
               /\ evals' = [evals EXCEPT ![v] = [evals[v] EXCEPT !.pc = pc, !.next = next,
                                                                 !.seen = seen]]
               /\ pc = "judging" => seen.events = ledgers.events
    BY <1>6, SeenTyped, Zenon
  <2>2. /\ evals'[v].pc = pc /\ evals'[v].known = old.known /\ evals'[v].seen = seen
    BY <1>2, <1>3, <2>1 DEF Evaluation
  <2>3. old.known \subseteq Invalid(ledgers)
    BY <1>2, <1>4, <1>6 DEF EvalReads
  <2>4. pc = "judging" => old.known \subseteq Invalid(seen)
    BY <2>1, <2>3, InvalidOf
  <2> QED
    BY <1>1, <2>1, <2>2, <2>3, <2>4, SMTT(30)
<1>7. CASE EvalWrites(v)
  <2>1. /\ old.pc = "judging" /\ evals' = [evals EXCEPT ![v].pc = "written"]
        /\ reports' = reports \union {old.id}
    BY <1>2, <1>7 DEF EvalWrites
  <2>2. /\ evals'[v].pc = "written" /\ evals'[v].known = old.known
        /\ evals'[v].seen = old.seen /\ evals'[v].id = old.id
    BY <1>2, <1>3, <2>1 DEF Evaluation
  <2> QED
    BY <1>1, <1>4, <2>1, <2>2
<1>8. CASE EvalChecks(v) /\ evals'[v] # NoEval
  <2>1. /\ old.pc = "written" /\ evals'[v] = [old EXCEPT !.pc = "new"]
        /\ reports' = reports
    BY <1>2, <1>3, <1>8 DEF EvalChecks
  <2>2. /\ evals'[v].pc = "new" /\ evals'[v].known = old.known
        /\ evals'[v].seen = old.seen /\ evals'[v].id = old.id
    BY <2>1 DEF Evaluation
  <2> QED
    BY <1>1, <1>4, <2>1, <2>2
<1>9. CASE evals'[v] = NoEval
  BY <1>9, LocalTypes
<1>10. CASE evals'[v] = evals[v]
  <2>1. reports \subseteq reports'
    BY EvaluationMoves
  <2> QED
    BY <1>1, <1>2, <1>4, <1>10, <2>1
<1>11. EvalAppends(v) => evals'[v] = NoEval
  BY <1>3 DEF EvalAppends
<1>12. EvalStep(v) \/ evals'[v] = evals[v] \/ evals'[v] = NoEval
  BY EvaluationMoves
<1> QED
  BY <1>5, <1>6, <1>7, <1>8, <1>9, <1>10, <1>11, <1>12 DEF EvalStep

\* An evaluation begins only by hashing.
LEMMA EvaluationBegins ==
    ASSUME TypeOK, [Next]_vars, NEW v \in Evaluators, evals'[v].pc # "idle"
    PROVE  \/ evals[v].pc # "idle"
           \/ /\ EvalHashes(v)
              /\ together' = (together \/ \E w \in Evaluators \ {v} : evals[w].pc # "idle")
<1>1. EvalStep(v) \/ evals'[v] = evals[v] \/ evals'[v] = NoEval
  BY EvaluationMoves
<1>2. NoEval.pc = "idle"
  BY LocalTypes
<1>3. EvalStep(v) => EvalHashes(v) \/ evals[v].pc # "idle"
  BY DEF EvalStep, EvalReads, EvalWrites, EvalChecks, EvalAppends
<1> QED
  BY <1>1, <1>2, <1>3 DEF EvalHashes

LEMMA AloneEvaluationStep ==
    ASSUME TypeOK, EvaluationAlone, [Next]_vars
    PROVE  EvaluationAlone'
<1> SUFFICES ASSUME ~together'
             PROVE  /\ \A v, w \in Evaluators :
                          evals'[v].pc # "idle" /\ evals'[w].pc # "idle" => v = w
                    /\ \A v \in Evaluators :
                          evals'[v].pc = "new" => \A row \in Range(weekly') : row.id # evals'[v].id
  BY DEF EvaluationAlone
<1>0. evals \in [Evaluators -> Evaluation]
  BY DEF TypeOK
<1>1. \A v \in Evaluators : EvalHashes(v) =>
         together' = (together \/ \E w \in Evaluators \ {v} : evals[w].pc # "idle")
  BY DEF EvalHashes
<1>2. ~together
  <2>1. CASE \E v \in Evaluators : EvalHashes(v)
    BY <1>1, <2>1, Zenon
  <2>2. CASE together' = together
    BY <2>2, Zenon
  <2>3. CASE Evaluators = {}
    <3>1. together' = together
      BY <2>3, Frames DEF Next, vars
    <3> QED
      BY <3>1, Zenon
  <2> QED
    BY <2>1, <2>2, <2>3, EvaluationMoves
<1>3. /\ \A v, w \in Evaluators : evals[v].pc # "idle" /\ evals[w].pc # "idle" => v = w
      /\ \A v \in Evaluators :
            evals[v].pc = "new" => \A row \in Range(weekly) : row.id # evals[v].id
  BY <1>2 DEF EvaluationAlone
<1>4. ASSUME NEW v \in Evaluators, NEW w \in Evaluators \ {v}, evals'[v].pc # "idle"
      PROVE  evals'[w].pc = "idle"
  <2>1. CASE EvalHashes(v)
    <3>1. evals[w].pc = "idle"
      BY <1>1, <2>1, Zenon
    <3>2. evals'[w] = evals[w]
      BY <2>1, EvaluationMoves DEF EvalStep
    <3> QED
      BY <3>1, <3>2
  <2>2. CASE ~EvalHashes(v) /\ evals'[w].pc # "idle"
    <3>1. evals[v].pc # "idle"
      BY <1>4, <2>2, EvaluationBegins
    <3>2. evals[w].pc = "idle"
      BY <1>3, <3>1
    <3>3. together' = (together \/ \E u \in Evaluators \ {w} : evals[u].pc # "idle")
      BY <2>2, <3>2, EvaluationBegins
    <3> QED
      BY <3>1, <3>3, Zenon
  <2> QED
    BY <2>1, <2>2
<1>5. ASSUME NEW v \in Evaluators, evals'[v].pc = "new"
      PROVE  \A row \in Range(weekly') : row.id # evals'[v].id
  <2>1. evals[v] \in Evaluation
    BY EvalTypes
  <2>2. NoEval.pc = "idle"
    BY LocalTypes
  <2>3. CASE EvalChecks(v)
    <3>1. /\ evals'[v] = [evals[v] EXCEPT !.pc = "new"] /\ weekly' = weekly
          /\ \A row \in Range(weekly) : row.id # evals[v].id
      BY <1>0, <1>5, <2>2, <2>3 DEF EvalChecks
    <3> QED
      BY <2>1, <3>1 DEF Evaluation
  <2>4. CASE evals'[v] = evals[v]
    <3>1. CASE weekly' = weekly
      BY <1>3, <1>5, <2>4, <3>1
    <3>2. CASE weekly' # weekly
      <4>1. PICK u \in Evaluators : EvalAppends(u)
        BY <3>2, EvaluationMoves
      <4>2. evals[u].pc = "new" /\ evals'[u] = NoEval
        BY <1>0, <4>1 DEF EvalAppends
      <4>3. u = v
        BY <1>3, <1>5, <2>4, <4>2
      <4> QED
        BY <1>5, <2>2, <4>2, <4>3
    <3> QED
      BY <3>1, <3>2
  <2>5. CASE EvalHashes(v)
    <3>1. PICK id \in EvaluationId, pc \in {"hashing", "reading"},
             next \in {"signals", "fills", "events"}, known \in SUBSET Nat :
               /\ evals' = [evals EXCEPT ![v] = [evals[v] EXCEPT !.pc = pc, !.next = next,
                                                                 !.id = id, !.known = known]]
               /\ known = IF evals[v].pc = "idle" THEN Invalid(ledgers) ELSE evals[v].known
      BY <2>5, HashTyped, Zenon
    <3>2. evals'[v].pc = pc
      BY <1>0, <2>1, <3>1 DEF Evaluation
    <3> QED
      BY <1>5, <3>1, <3>2, SMTT(30)
  <2>6. CASE EvalReads(v)
    <3>1. PICK seen \in Ledgers, pc \in {"reading", "judging"},
             next \in {"signals", "fills", "events"} :
               /\ evals' = [evals EXCEPT ![v] = [evals[v] EXCEPT !.pc = pc, !.next = next,
                                                                 !.seen = seen]]
               /\ pc = "judging" => seen.events = ledgers.events
      BY <2>6, SeenTyped, Zenon
    <3>2. evals'[v].pc = pc
      BY <1>0, <2>1, <3>1 DEF Evaluation
    <3> QED
      BY <1>5, <3>1, <3>2, SMTT(30)
  <2>7. CASE EvalWrites(v)
    <3>1. evals' = [evals EXCEPT ![v].pc = "written"]
      BY <2>7 DEF EvalWrites
    <3>2. evals'[v].pc = "written"
      BY <1>0, <2>1, <3>1 DEF Evaluation
    <3> QED
      BY <1>5, <3>2
  <2>8. EvalAppends(v) => evals'[v] = NoEval
    BY <1>0 DEF EvalAppends
  <2>9. evals'[v] # NoEval
    BY <1>5, <2>2
  <2>10. EvalStep(v) \/ evals'[v] = evals[v] \/ evals'[v] = NoEval
    BY EvaluationMoves
  <2> QED
    BY <2>3, <2>4, <2>5, <2>6, <2>7, <2>8, <2>9, <2>10 DEF EvalStep
<1> QED
  BY <1>4, <1>5

LEMMA ReportStep ==
    ASSUME TypeOK, ReportInvariant, [Next]_vars
    PROVE  ReportInvariant'
<1>1. EvaluationBlind' /\ EvaluationAlone'
  BY BlindStep, AloneEvaluationStep DEF ReportInvariant
<1>2. CASE \E v \in Evaluators : EvalAppends(v)
  <2>1. PICK v \in Evaluators : EvalAppends(v)
    BY <1>2
  <2>2. PICK row : row = ReportOf(evals[v])
    OBVIOUS
  <2>3. /\ evals[v].pc = "new" /\ weekly' = Append(weekly, row) /\ reports' = reports
        /\ together' = together
    BY <2>1, <2>2 DEF EvalAppends
  <2>4. /\ row \in Report /\ row.id = evals[v].id /\ row.known = evals[v].known
        /\ row.trades = {t.id : t \in CountedTrades(evals[v].seen)}
    BY <2>2, EvalTypes, ReportTyped
  <2>5. /\ row.id \in reports /\ row.known \subseteq Invalid(evals[v].seen)
    BY <2>3, <2>4 DEF ReportInvariant, EvaluationBlind
  <2>6. row.trades \cap row.known = {}
    <3>1. evals[v].seen \in Ledgers
      BY EvalTypes
    <3>2. row.trades \subseteq Nat \ Invalid(evals[v].seen)
      BY <2>4, <3>1, TradesAreValid
    <3> QED
      BY <2>5, <3>2
  <2>7. weekly \in Seq(Report)
    BY DEF TypeOK
  <2>8. /\ DOMAIN weekly = 1..Len(weekly) /\ DOMAIN weekly' = 1..(Len(weekly) + 1)
        /\ \A i \in 1..Len(weekly) : weekly'[i] = weekly[i]
        /\ weekly'[Len(weekly) + 1] = row
        /\ Range(weekly') = Range(weekly) \union {row}
        /\ Len(weekly) \in Nat
    BY <2>3, <2>4, <2>7, RowJoins
  <2>9. \A r \in Range(weekly') : r.trades \cap r.known = {} /\ r.id \in reports'
    BY <2>3, <2>5, <2>6, <2>8 DEF ReportInvariant, InvalidatedNeverCounts, WeeklyOnce
  <2>10. ASSUME ~together', NEW i \in DOMAIN weekly', NEW j \in DOMAIN weekly',
                weekly'[i].id = weekly'[j].id
         PROVE  i = j
    <3>0. ~together
      BY <2>3, <2>10, Zenon
    <3>1. (i \in 1..Len(weekly) \/ i = Len(weekly) + 1)
          /\ (j \in 1..Len(weekly) \/ j = Len(weekly) + 1)
      BY <2>8
    <3>2. \A k \in 1..Len(weekly) : weekly[k].id # row.id
      BY <2>3, <2>4, <2>8, <3>0 DEF ReportInvariant, EvaluationAlone, Range
    <3>3. \A k, l \in 1..Len(weekly) : weekly[k].id = weekly[l].id => k = l
      BY <2>8, <3>0 DEF ReportInvariant, WeeklyOnce
    <3> QED
      BY <2>8, <2>10, <3>1, <3>2, <3>3
  <2> QED
    BY <1>1, <2>9, <2>10 DEF ReportInvariant, InvalidatedNeverCounts, WeeklyOnce
<1>3. CASE ~ \E v \in Evaluators : EvalAppends(v)
  <2>1. weekly' = weekly /\ reports \subseteq reports' /\ (together => together')
    <3>1. RunStep \/ (\E e \in Editors : EditStep(e)) \/ Dies \/ UNCHANGED vars
            => weekly' = weekly /\ reports' = reports /\ together' = together
      BY Frames DEF vars
    <3>2. ASSUME NEW v \in Evaluators, EvalStep(v)
          PROVE  weekly' = weekly /\ reports \subseteq reports'
      BY <1>3, <3>2 DEF EvalStep, EvalHashes, EvalReads, EvalWrites, EvalChecks
    <3>3. ASSUME NEW v \in Evaluators, EvalStep(v)
          PROVE  \/ together' = together
                 \/ together' = (together \/ \E w \in Evaluators \ {v} : evals[w].pc # "idle")
      BY <3>3 DEF EvalStep, EvalHashes, EvalReads, EvalWrites, EvalChecks, EvalAppends
    <3>4. (\E v \in Evaluators : EvalStep(v)) => (together => together')
      BY <3>3, Zenon
    <3>5. together' = together => (together => together')
      BY Zenon
    <3> QED
      BY <3>1, <3>2, <3>4, <3>5 DEF Next
  <2> QED
    BY <1>1, <2>1 DEF ReportInvariant, InvalidatedNeverCounts, WeeklyOnce
<1> QED
  BY <1>2, <1>3

-----------------------------------------------------------------------------
(* The state and the events                                                *)

LEMMA AloneInit == Init => AloneInvariant
<1> SUFFICES ASSUME Init
             PROVE  AloneInvariant
  OBVIOUS
<1>1. /\ run.pc = "idle" /\ (\A e \in Editors : edits[e].pc = "idle") /\ disk = NoState
      /\ ledgers.signals = <<>> /\ ledgers.events = <<>>
  BY DEF Init, Empty, Quiet, Idle, NoEdit, Unread
<1>2. Range(ledgers.signals) = {} /\ Range(ledgers.events) = {}
  BY <1>1 DEF Range
<1>3. Invalid(ledgers) = {}
  BY <1>2 DEF Invalid
<1>4. disk.invalidated = {}
  BY <1>1 DEF NoState
<1> QED
  BY <1>1, <1>2, <1>3, <1>4
     DEF AloneInvariant, InTurn, RunInTurn, EditInTurn, StateAgrees, Recorded

\* No two that replace the state have met, nor did one die, unless that is remembered.
LEMMA AloneMoves ==
    ASSUME TypeOK, [Next]_vars, ~overlapped'
    PROVE  /\ ~overlapped
           /\ RunLoads => ~Editing(Editors)
           /\ \A e \in Editors : EditLoads(e) => run.pc = "idle" /\ ~Editing(Editors \ {e})
           /\ Dies => run' = run /\ edits' = edits
<1>1. ASSUME RunLoads
      PROVE  ~overlapped /\ ~Editing(Editors)
  <2>1. overlapped' = (overlapped \/ Editing(Editors))
    BY <1>1 DEF RunLoads
  <2> QED
    BY <2>1, Zenon
<1>2. ASSUME NEW e \in Editors, EditLoads(e)
      PROVE  ~overlapped /\ run.pc = "idle" /\ ~Editing(Editors \ {e})
  <2>1. overlapped' = (overlapped \/ run.pc # "idle" \/ Editing(Editors \ {e}))
    BY <1>2 DEF EditLoads
  <2> QED
    BY <2>1, Zenon
<1>3. ASSUME Dies
      PROVE  ~overlapped /\ run' = run /\ edits' = edits
  <2>1. \/ overlapped' = TRUE
        \/ overlapped' = overlapped /\ run' = run /\ edits' = edits
    BY <1>3 DEF Dies, RunDies, EditDies, EvalDies
  <2>2. overlapped' # TRUE
    BY Zenon
  <2>3. overlapped' = overlapped => ~overlapped
    <3>1. overlapped = TRUE \/ overlapped = FALSE
      BY DEF TypeOK
    <3> QED
      BY <2>2, <3>1
  <2> QED
    BY <2>1, <2>2, <2>3
<1>4. ASSUME ~RunLoads, \A e \in Editors : ~EditLoads(e), ~Dies
      PROVE  ~overlapped
  <2>1. RunStep => overlapped' = overlapped
    BY <1>4 DEF RunStep, RunExits, RunDecides, RunRecords, RunSaves, RunEnds
  <2>2. \A e \in Editors : EditStep(e) => overlapped' = overlapped
    BY <1>4 DEF EditStep, EditChooses, EditReturns, EditCorrects, EditClears, EditSaves
  <2>3. overlapped' = overlapped
    BY <1>4, <2>1, <2>2, Frames DEF Next, vars
  <2> QED
    BY <2>3, Zenon
<1> QED
  BY <1>1, <1>2, <1>3, <1>4

\* A run in turn stays in turn.
LEMMA RunAlone ==
    ASSUME TypeOK, AloneInvariant, InTurn, RunStep, RunLoads => ~Editing(Editors)
    PROVE  InTurn'
<1>1. \A e \in Editors : edits[e].pc = "idle"
  <2>1. ~RunLoads => run.pc # "idle"
    BY DEF RunStep, RunExits, RunDecides, RunRecords, RunSaves, RunEnds
  <2> QED
    BY <2>1 DEF InTurn, RunInTurn, Editing
<1>2. edits' = edits
  BY Frames
<1>3. ~Editing(Editors)' /\ \A e \in Editors : EditInTurn(e)'
  BY <1>1, <1>2 DEF Editing, EditInTurn
<1>4. /\ disk.open \notin Invalid(ledgers) /\ disk.invalidated = Invalid(ledgers)
      /\ \A s \in Range(ledgers.signals) : s.id <= Counted
      /\ run.pc = "decided" => run.row.id = run.state.last
      /\ run.pc # "idle" => /\ run.state.invalidated = disk.invalidated
                            /\ run.state.open \notin Invalid(ledgers)
  BY <1>1 DEF InTurn, StateAgrees, RunInTurn
<1> SUFFICES /\ disk'.open \notin Invalid(ledgers') /\ disk'.invalidated = Invalid(ledgers')
             /\ \A s \in Range(ledgers'.signals) : s.id <= Counted'
             /\ run'.pc = "decided" => run'.row.id = run'.state.last
             /\ run'.pc # "idle" => /\ run'.state.invalidated = disk'.invalidated
                                    /\ run'.state.open \notin Invalid(ledgers')
  BY <1>3 DEF InTurn, StateAgrees, RunInTurn
<1>5. 0 \notin Invalid(ledgers)
  BY LedgerFields
<1>6. \A s \in Range(ledgers.signals) : s.id \in Nat
  <2>1. Range(ledgers.signals) \subseteq SignalRow
    BY LedgerFields, RowsTyped
  <2> QED
    BY <2>1 DEF SignalRow
<1>7. RunExits \/ RunDecides => /\ ledgers'.signals = ledgers.signals
                                /\ Invalid(ledgers') = Invalid(ledgers)
  BY RunRows, FillAppended, InvalidOf
<1>8. CASE RunLoads
  <2>1. /\ ledgers' = ledgers /\ disk' = disk
        /\ run.pc = "idle" /\ run'.pc = "loaded" /\ run'.state = disk
    BY <1>8 DEF RunLoads
  <2> QED
    BY <1>4, <2>1 DEF Counted
<1>9. CASE RunExits
  <2>1. /\ disk' = disk /\ run.pc = "loaded" /\ run' = [run EXCEPT !.state.open = None]
    BY <1>9 DEF RunExits
  <2>2. run \in [pc : {"idle", "loaded"}, state : EngineState]
    BY <2>1, LocalTypes
  <2>3. /\ run'.pc = "loaded" /\ run'.state.open = 0 /\ run'.state.last = run.state.last
        /\ run'.state.invalidated = run.state.invalidated
    BY <2>1, <2>2 DEF EngineState, None
  <2> QED
    BY <1>4, <1>5, <1>7, <1>9, <2>1, <2>3 DEF Counted
<1>10. CASE RunDecides
  <2>1. disk' = disk
    BY <1>10 DEF RunDecides
  <2>2. /\ run.pc = "loaded" /\ run'.pc = "decided"
        /\ run'.row.id = run.state.last + 1 /\ run'.state.last = run.state.last + 1
        /\ run'.state.invalidated = run.state.invalidated
        /\ run'.state.open = run.state.open \/ run'.state.open = run.state.last + 1
    BY <1>10, DecideFacts
  <2>4. run.state.last \in Nat
    BY LocalTypes
  <2>5. \A s \in Range(ledgers.signals) : s.id <= run.state.last
    BY <1>4, <2>2 DEF Counted
  <2>6. run.state.last + 1 \notin {s.id : s \in Range(ledgers.signals)}
    BY <1>6, <2>4, <2>5
  <2>7. run'.state.open \notin Invalid(ledgers)
    BY <1>4, <2>2, <2>6 DEF AloneInvariant, Recorded
  <2>8. \A s \in Range(ledgers.signals) : s.id <= run'.state.last
    BY <1>6, <2>2, <2>4, <2>5
  <2> QED
    BY <1>4, <1>7, <1>10, <2>1, <2>2, <2>7, <2>8 DEF Counted
<1>11. CASE RunRecords
  <2>1. /\ disk' = disk /\ run.pc = "decided"
        /\ run'.pc = "loaded" /\ run'.state = run.state
    BY <1>11 DEF RunRecords
  <2>2. /\ Range(ledgers'.signals) = Range(ledgers.signals) \union {run.row}
        /\ Invalid(ledgers') = Invalid(ledgers)
    BY <1>11, RunRows, SignalAppended, InvalidOf
  <2>3. run.row.id <= run.state.last
    BY <1>4, <2>1, LocalTypes
  <2> QED
    BY <1>4, <2>1, <2>2, <2>3 DEF Counted
<1>12. CASE RunSaves
  <2>1. /\ ledgers' = ledgers /\ disk' = run.state
        /\ run.pc = "loaded" /\ run'.pc = "idle"
    BY <1>12, LocalTypes DEF RunSaves
  <2> QED
    BY <1>4, <2>1 DEF Counted
<1>13. CASE RunEnds
  <2>1. /\ ledgers' = ledgers /\ disk' = disk /\ run.state = disk
        /\ run.pc = "loaded" /\ run'.pc = "idle"
    BY <1>13, LocalTypes DEF RunEnds
  <2> QED
    BY <1>4, <2>1 DEF Counted
<1> QED
  BY <1>8, <1>9, <1>10, <1>11, <1>12, <1>13 DEF RunStep

\* An invalidation in turn stays in turn.
LEMMA EditAlone ==
    ASSUME TypeOK, AloneInvariant, InTurn, NEW e \in Editors, EditStep(e),
           EditLoads(e) => run.pc = "idle" /\ ~Editing(Editors \ {e})
    PROVE  InTurn'
<1>0. edits \in [Editors -> Edit] /\ run' = run
  BY Frames DEF TypeOK
<1>1. PICK old \in Edit : old = edits[e]
  BY EditTypes
<1>2. run.pc = "idle" /\ \A f \in Editors \ {e} : edits[f].pc = "idle" /\ edits'[f] = edits[f]
  <2>1. ~EditLoads(e) => edits[e].pc # "idle"
    BY DEF EditStep, EditChooses, EditReturns, EditCorrects, EditClears, EditSaves
  <2>2. run.pc = "idle" /\ \A f \in Editors \ {e} : edits[f].pc = "idle"
    BY <2>1 DEF InTurn, RunInTurn, EditInTurn, Editing
  <2>3. \A f \in Editors \ {e} : edits'[f] = edits[f]
    BY <1>0
       DEF EditStep, EditLoads, EditChooses, EditReturns, EditCorrects, EditClears, EditSaves
  <2> QED
    BY <2>2, <2>3
<1>3. /\ \A s \in Range(ledgers.signals) : s.id <= disk.last
      /\ old.pc # "idle" => old.state.last = disk.last
      /\ old.pc \in {"loaded", "chosen"} => old.state = disk
      /\ old.pc \in {"fill", "save"} => old.state.invalidated = Invalid(ledgers)
      /\ old.pc = "fill" => old.state.open = old.id
      /\ old.pc = "save" => old.state.open \notin Invalid(ledgers)
      /\ old.pc \in {"idle", "loaded", "chosen"} => /\ disk.open \notin Invalid(ledgers)
                                                    /\ disk.invalidated = Invalid(ledgers)
  BY <1>1, <1>2 DEF InTurn, RunInTurn, EditInTurn, StateAgrees, Counted
<1> DEFINE new == edits'[e]
<1> SUFFICES /\ \A s \in Range(ledgers'.signals) : s.id <= disk'.last
             /\ new.pc # "idle" => new.state.last = disk'.last
             /\ new.pc \in {"loaded", "chosen"} => new.state = disk'
             /\ new.pc \in {"fill", "save"} => new.state.invalidated = Invalid(ledgers')
             /\ new.pc = "fill" => new.state.open = new.id
             /\ new.pc = "save" => new.state.open \notin Invalid(ledgers')
             /\ new.pc \in {"idle", "loaded", "chosen"}
                  => /\ disk'.open \notin Invalid(ledgers')
                     /\ disk'.invalidated = Invalid(ledgers')
  <2>1. RunInTurn'
    BY <1>0, <1>2 DEF RunInTurn, Counted
  <2>2. \A f \in Editors : EditInTurn(f)'
    BY <1>2 DEF EditInTurn
  <2>3. StateAgrees'
    BY DEF StateAgrees
  <2> QED
    BY <2>1, <2>2, <2>3 DEF InTurn
<1>4. CASE EditLoads(e)
  <2>1. /\ ledgers' = ledgers /\ disk' = disk /\ old.pc = "idle"
        /\ new = [NoEdit EXCEPT !.pc = "loaded", !.state = disk]
    BY <1>0, <1>1, <1>4 DEF EditLoads
  <2>2. new.pc = "loaded" /\ new.state = disk
    BY <2>1 DEF NoEdit
  <2> HIDE DEF new
  <2> QED
    BY <1>3, <2>1, <2>2
<1>5. CASE EditChooses(e)
  <2>1. PICK id : edits' = [edits EXCEPT ![e].pc = "chosen", ![e].id = id]
    BY <1>5 DEF EditChooses
  <2>2. ledgers' = ledgers /\ disk' = disk /\ old.pc = "loaded"
    BY <1>1, <1>5 DEF EditChooses
  <2>3. new.pc = "chosen" /\ new.state = old.state
    BY <1>0, <1>1, <2>1 DEF Edit
  <2> HIDE DEF new
  <2> QED
    BY <1>3, <2>2, <2>3
<1>6. CASE EditReturns(e)
  <2>1. /\ ledgers' = ledgers /\ disk' = disk /\ old.pc \in {"loaded", "chosen"}
        /\ new = NoEdit
    BY <1>0, <1>1, <1>6 DEF EditReturns
  <2>2. new.pc = "idle"
    BY <2>1, LocalTypes
  <2> HIDE DEF new
  <2> QED
    BY <1>3, <2>1, <2>2
<1>7. CASE EditCorrects(e)
  <2>1. PICK row \in EventRow, edit \in Edit :
              /\ row.id = edits[e].id /\ row.id \in Recorded
              /\ ledgers' = AppendTo("events", row)
              /\ edits[e].pc = "chosen"
              /\ edits' = [edits EXCEPT ![e] = edit]
              /\ edit.pc = IF edits[e].state.open = row.id THEN "fill" ELSE "save"
              /\ edit.id = row.id
              /\ edit.state.open = edits[e].state.open
              /\ edit.state.last = edits[e].state.last
              /\ edit.state.invalidated = edits[e].state.invalidated \union {row.id}
    BY <1>7, CorrectFacts
  <2>2. /\ ledgers'.signals = ledgers.signals
        /\ Range(ledgers'.events) = Range(ledgers.events) \union {row}
    BY <2>1, EventAppended
  <2>3. Invalid(ledgers') = Invalid(ledgers) \union {row.id}
    BY <2>2, InvalidOf
  <2>4. new = edit /\ disk' = disk
    BY <1>0, <1>7, <2>1 DEF EditCorrects
  <2> HIDE DEF new
  <2> QED
    BY <1>1, <1>3, <2>1, <2>2, <2>3, <2>4
<1>8. CASE EditClears(e)
  <2>1. /\ old.pc = "fill" /\ disk' = disk
        /\ edits' = [edits EXCEPT ![e].pc = "save", ![e].state.open = None]
    BY <1>1, <1>8 DEF EditClears
  <2>2. /\ new.pc = "save" /\ new.state.open = 0 /\ new.state.last = old.state.last
        /\ new.state.invalidated = old.state.invalidated
    BY <1>0, <1>1, <2>1 DEF Edit, EngineState, None
  <2>3. ledgers'.signals = ledgers.signals /\ Invalid(ledgers') = Invalid(ledgers)
    BY <1>8, RunRows, FillAppended, InvalidOf
  <2>4. 0 \notin Invalid(ledgers)
    BY LedgerFields
  <2> HIDE DEF new
  <2> QED
    BY <1>3, <2>1, <2>2, <2>3, <2>4
<1>9. CASE EditSaves(e)
  <2>1. /\ ledgers' = ledgers /\ disk' = old.state /\ old.pc = "save" /\ new = NoEdit
    BY <1>0, <1>1, <1>9 DEF EditSaves
  <2>2. new.pc = "idle"
    BY <2>1, LocalTypes
  <2> HIDE DEF new
  <2> QED
    BY <1>3, <2>1, <2>2
<1> QED
  BY <1>4, <1>5, <1>6, <1>7, <1>8, <1>9 DEF EditStep

LEMMA AloneStep ==
    ASSUME TypeOK, AloneInvariant, [Next]_vars
    PROVE  AloneInvariant'
<1>1. Invalid(ledgers') \subseteq Recorded'
  BY LedgerSteps DEF AloneInvariant, Recorded
<1> SUFFICES ASSUME ~overlapped'
             PROVE  InTurn'
  BY <1>1 DEF AloneInvariant
<1>2. /\ ~overlapped
      /\ RunLoads => ~Editing(Editors)
      /\ \A e \in Editors : EditLoads(e) => run.pc = "idle" /\ ~Editing(Editors \ {e})
      /\ Dies => run' = run /\ edits' = edits
  BY AloneMoves
<1>3. InTurn
  BY <1>2 DEF AloneInvariant
<1>4. CASE RunStep
  BY <1>2, <1>3, <1>4, RunAlone
<1>5. CASE \E e \in Editors : EditStep(e)
  BY <1>2, <1>3, <1>5, EditAlone
<1>6. CASE (\E v \in Evaluators : EvalStep(v)) \/ Dies \/ UNCHANGED vars
  <2>1. ledgers' = ledgers /\ disk' = disk /\ run' = run /\ edits' = edits
    BY <1>2, <1>6, Frames DEF vars
  <2> QED
    BY <1>3, <2>1 DEF InTurn, RunInTurn, EditInTurn, StateAgrees, Counted, Editing
<1> QED
  BY <1>4, <1>5, <1>6 DEF Next

-----------------------------------------------------------------------------
(* The theorems                                                            *)

\* Every reachable state is one of the types, the reports are blind, and those
\* that replace the state are in turn as long as none met another.
THEOREM ShadowInvariant == Spec => [](TypeOK /\ ReportInvariant /\ AloneInvariant)
<1>1. Init => TypeOK /\ ReportInvariant /\ AloneInvariant
  BY TypeInit, ReportInit, AloneInit
<1>2. TypeOK /\ ReportInvariant /\ AloneInvariant /\ [Next]_vars
        => (TypeOK /\ ReportInvariant /\ AloneInvariant)'
  BY TypeStep, ReportStep, AloneStep
<1> QED
  BY <1>1, <1>2, PTL DEF Spec

\* No evaluation counts a trade of a signal that was invalidated before it
\* began, whatever runs, invalidations, other evaluations and deaths do in between.
THEOREM InvalidatedNeverCountsAlways == Spec => []InvalidatedNeverCounts
<1>1. ReportInvariant => InvalidatedNeverCounts
  BY DEF ReportInvariant
<1> QED
  BY <1>1, ShadowInvariant, PTL

\* A row of the weekly ledger has its report, and an evaluation has one row as
\* long as no two evaluations ran at the same time.
THEOREM WeeklyOnceAlways == Spec => []WeeklyOnce
<1>1. ReportInvariant => WeeklyOnce
  BY DEF ReportInvariant
<1> QED
  BY <1>1, ShadowInvariant, PTL

\* As long as no invalidation has met a run or another invalidation and none of
\* them has died, the saved state and the events agree and no invalidated
\* position is open.
THEOREM AloneItHoldsAlways == Spec => []AloneItHolds
<1>1. AloneInvariant => AloneItHolds
  BY DEF AloneInvariant, InTurn, StateAgrees, AloneItHolds, Editing
<1> QED
  BY <1>1, ShadowInvariant, PTL

-----------------------------------------------------------------------------
(***************************************************************************)
(* DrawdownIsWorstStretch.  The account after every trade, which the loop  *)
(* of maximum_drawdown carries along, has as its peak the greatest equity  *)
(* so far and as its worst the greatest fall from an earlier equity; the   *)
(* fall from one equity to a later one is the loss over the trades between *)
(* (StretchIs, WorstIs).  What a recursive function says of every number   *)
(* of trades is shown by least counterexample.                             *)
(***************************************************************************)

Account == [equity : Int, peak : Int, worst : Int]

\* The account after each of the first n trades.
Follows(accounts, values, n) ==
  /\ accounts = [k \in 0 .. n |-> accounts[k]] /\ accounts[0] = Flat
  /\ \A k \in 1 .. n : accounts[k] = AfterTrade(accounts[k - 1], values[k])

\* The greater of two numbers.
LEMMA GreaterOfTwo ==
    ASSUME NEW a \in Int, NEW b \in Int
    PROVE  /\ Max({a, b}) \in {a, b} /\ Max({a, b}) >= a /\ Max({a, b}) >= b
<1>1. \E x \in {a, b} : \A y \in {a, b} : x >= y
  <2>1. CASE a >= b
    BY <2>1
  <2>2. CASE ~(a >= b)
    BY <2>2
  <2> QED
    BY <2>1, <2>2
<1> QED
  BY <1>1 DEF Max

\* What a trade makes of an account.
LEMMA AfterTradeIs ==
    ASSUME NEW account \in Account, NEW net \in Int, NEW next, next = AfterTrade(account, net)
    PROVE  /\ next \in Account /\ next.equity = account.equity + net
           /\ next.peak \in {account.peak, next.equity}
           /\ next.peak >= account.peak /\ next.peak >= next.equity
           /\ next.worst \in {account.worst, next.peak - next.equity}
           /\ next.worst >= account.worst /\ next.worst >= next.peak - next.equity
<1>1. PICK equity \in Int : equity = account.equity + net
  BY DEF Account
<1>2. account.peak \in Int /\ account.worst \in Int
  BY DEF Account
<1>3. PICK peak : peak = Max({account.peak, equity})
  OBVIOUS
<1>4. peak \in {account.peak, equity} /\ peak >= account.peak /\ peak >= equity
  BY <1>2, <1>3, GreaterOfTwo
<1>5. peak \in Int
  BY <1>1, <1>2, <1>4
<1>6. PICK fall \in Int : fall = peak - equity
  BY <1>1, <1>5
<1>7. PICK worst : worst = Max({account.worst, fall})
  OBVIOUS
<1>8. worst \in {account.worst, fall} /\ worst >= account.worst /\ worst >= fall
  BY <1>2, <1>6, <1>7, GreaterOfTwo
<1>9. worst \in Int
  BY <1>2, <1>6, <1>8
<1>10. next = [equity |-> equity, peak |-> peak, worst |-> worst]
  BY <1>1, <1>3, <1>6, <1>7 DEF AfterTrade
<1>11. next.equity = equity /\ next.peak = peak /\ next.worst = worst /\ next \in Account
  BY <1>1, <1>5, <1>9, <1>10 DEF Account
<1> QED
  BY <1>1, <1>4, <1>6, <1>8, <1>11

\* There is such an account after any number of trades, and it is a proper one.
LEMMA AccountsAre ==
    ASSUME NEW values \in Seq(Int), NEW n \in 0 .. Len(values), NEW accounts,
           Follows(accounts, values, n)
    PROVE  \A k \in 0 .. n : accounts[k] \in Account
<1> DEFINE D == {k \in 0 .. n : accounts[k] \notin Account}
<1>1. n \in Nat /\ \A k \in 1 .. n : values[k] \in Int
  BY ElementOfSeq, LenProperties
<1> SUFFICES ASSUME D # {}
             PROVE  FALSE
  OBVIOUS
<1>2. PICK k \in D : \A x \in D : k <= x
  <2>1. D \subseteq Nat
    OBVIOUS
  <2> HIDE DEF D
  <2> QED
    BY <2>1, LeastExists
<1>3. k # 0
  BY <1>1, <1>2 DEF Follows, Flat, Account
<1>4. k \in 1 .. n /\ k - 1 \in 0 .. n /\ k - 1 \notin D
  BY <1>1, <1>2, <1>3
<1>5. accounts[k] = AfterTrade(accounts[k - 1], values[k]) /\ accounts[k - 1] \in Account
  BY <1>4 DEF Follows
<1>6. accounts[k] \in Account
  BY <1>1, <1>4, <1>5, AfterTradeIs
<1> QED
  BY <1>2, <1>6

LEMMA AccountsExist ==
    ASSUME NEW values \in Seq(Int), NEW n \in 0 .. Len(values)
    PROVE  \E accounts : Follows(accounts, values, n)
<1> DEFINE D == {m \in 0 .. n : ~\E accounts : Follows(accounts, values, m)}
<1>1. n \in Nat /\ n \in 0 .. n
  BY LenProperties
<1> SUFFICES ASSUME D # {}
             PROVE  FALSE
  <2>1. D = {} => n \notin D
    OBVIOUS
  <2> QED
    BY <1>1, <2>1
<1>2. PICK m \in D : \A x \in D : m <= x
  <2>1. D \subseteq Nat
    OBVIOUS
  <2> HIDE DEF D
  <2> QED
    BY <2>1, LeastExists
<1>3. m # 0
  <2> DEFINE start == [k \in 0 .. 0 |-> Flat]
  <2>1. start = [k \in 0 .. 0 |-> start[k]] /\ start[0] = Flat
    OBVIOUS
  <2>2. Follows(start, values, 0)
    BY <2>1 DEF Follows
  <2> HIDE DEF start
  <2> QED
    BY <1>2, <2>2
<1>4. m - 1 \in 0 .. n /\ m - 1 \notin D /\ m \in 1 .. n
  BY <1>1, <1>2, <1>3
<1>5. PICK before : Follows(before, values, m - 1)
  BY <1>4
<1> DEFINE accounts == [k \in 0 .. m |-> IF k = m THEN AfterTrade(before[m - 1], values[m]) ELSE before[k]]
<1>6. accounts = [k \in 0 .. m |-> accounts[k]]
  OBVIOUS
<1>7. \A k \in 0 .. m - 1 : k \in 0 .. m /\ accounts[k] = before[k]
  BY <1>1, <1>4
<1>8. accounts[m] = AfterTrade(before[m - 1], values[m])
  BY <1>1, <1>4
<1> HIDE DEF accounts
<1>9. \A k \in 1 .. m : k = m \/ k \in 1 .. m - 1
  BY <1>1, <1>4
<1>10. 0 \in 0 .. m - 1 /\ m - 1 \in 0 .. m - 1 /\ \A k \in 1 .. m - 1 : k \in 0 .. m - 1 /\ k - 1 \in 0 .. m - 1
  BY <1>1, <1>4
<1>11. accounts[0] = Flat /\ accounts[m - 1] = before[m - 1]
  BY <1>5, <1>7, <1>10 DEF Follows
<1>12. ASSUME NEW k \in 1 .. m
       PROVE  accounts[k] = AfterTrade(accounts[k - 1], values[k])
  <2>1. CASE k = m
    BY <1>8, <1>11, <2>1
  <2>2. CASE k \in 1 .. m - 1
    BY <1>5, <1>7, <1>10, <2>2 DEF Follows
  <2> QED
    BY <1>9, <2>1, <2>2
<1>13. Follows(accounts, values, m)
  BY <1>6, <1>11, <1>12 DEF Follows
<1> QED
  BY <1>2, <1>13

\* The drawdown is that of the last account.
DrawdownOf(accounts, values) ==
  accounts = [n \in 0 .. Len(values) |->
                IF n = 0 THEN Flat ELSE AfterTrade(accounts[n - 1], values[n])]
LEMMA DrawdownIs ==
    ASSUME NEW values \in Seq(Int), NEW accounts, Follows(accounts, values, Len(values))
    PROVE  MaximumDrawdown(values) = accounts[Len(values)].worst
<1> DEFINE L == Len(values)
<1>1. L \in Nat
  BY LenProperties
<1>2. ASSUME NEW g, DrawdownOf(g, values)
      PROVE  \A k \in 0 .. L : g[k] = accounts[k]
  <2> DEFINE D == {k \in 0 .. L : g[k] # accounts[k]}
  <2>1. \A k \in 0 .. L : g[k] = IF k = 0 THEN Flat ELSE AfterTrade(g[k - 1], values[k])
    BY <1>2, Zenon DEF DrawdownOf
  <2> SUFFICES ASSUME D # {}
               PROVE  FALSE
    OBVIOUS
  <2>2. PICK k \in D : \A x \in D : k <= x
    <3>1. D \subseteq Nat
      OBVIOUS
    <3> HIDE DEF D
    <3> QED
      BY <3>1, LeastExists
  <2>3. k # 0
    BY <1>1, <2>1, <2>2 DEF Follows
  <2>4. k \in 1 .. L /\ k - 1 \in 0 .. L /\ k - 1 \notin D
    BY <1>1, <2>2, <2>3
  <2>5. g[k - 1] = accounts[k - 1] /\ g[k] = AfterTrade(g[k - 1], values[k])
    BY <2>1, <2>3, <2>4
  <2>6. accounts[k] = AfterTrade(accounts[k - 1], values[k])
    BY <2>4 DEF Follows
  <2> QED
    BY <2>2, <2>5, <2>6
<1>3. DrawdownOf(accounts, values)
  <2>1. \A k \in 0 .. L : k = 0 \/ k \in 1 .. L
    BY <1>1
  <2>2. accounts = [k \in 0 .. L |-> accounts[k]] 
    BY DEF Follows
  <2>3. \A k \in 0 .. L : accounts[k] = IF k = 0 THEN Flat ELSE AfterTrade(accounts[k - 1], values[k])
    BY <1>1, <2>1 DEF Follows
  <2> QED
    BY <2>2, <2>3 DEF DrawdownOf
<1> DEFINE found == CHOOSE g : DrawdownOf(g, values)
<1>4. DrawdownOf(found, values)
  BY <1>3, Zenon
<1>5. MaximumDrawdown(values) = found[L].worst
  BY DEF MaximumDrawdown, DrawdownOf
<1> HIDE DEF found
<1>6. L \in 0 .. L
  BY <1>1
<1> QED
  BY <1>2, <1>4, <1>5, <1>6

SumsUp(sums, values) ==
  sums = [n \in 0 .. Len(values) |-> IF n = 0 THEN 0 ELSE sums[n - 1] + values[n]]
LEMMA SumIs ==
    ASSUME NEW values, Len(values) \in Nat, NEW sums,
           sums = [k \in 0 .. Len(values) |-> sums[k]], sums[0] = 0,
           \A k \in 1 .. Len(values) : sums[k] = sums[k - 1] + values[k]
    PROVE  SumOf(values) = sums[Len(values)]
<1> DEFINE L == Len(values)
<1>1. ASSUME NEW g, SumsUp(g, values)
      PROVE  \A k \in 0 .. L : g[k] = sums[k]
  <2> DEFINE D == {k \in 0 .. L : g[k] # sums[k]}
  <2>1. \A k \in 0 .. L : g[k] = IF k = 0 THEN 0 ELSE g[k - 1] + values[k]
    BY <1>1, Zenon DEF SumsUp
  <2> SUFFICES ASSUME D # {}
               PROVE  FALSE
    OBVIOUS
  <2>2. PICK k \in D : \A x \in D : k <= x
    <3>1. D \subseteq Nat
      OBVIOUS
    <3> HIDE DEF D
    <3> QED
      BY <3>1, LeastExists
  <2>3. k # 0
    BY <2>1, <2>2
  <2>4. k \in 1 .. L /\ k - 1 \in 0 .. L /\ k - 1 \notin D
    BY <2>2, <2>3
  <2>5. g[k - 1] = sums[k - 1] /\ g[k] = g[k - 1] + values[k]
    BY <2>1, <2>3, <2>4
  <2>6. sums[k] = sums[k - 1] + values[k]
    BY <2>4
  <2> QED
    BY <2>2, <2>5, <2>6
<1>2. SumsUp(sums, values)
  <2>1. \A k \in 0 .. L : k = 0 \/ k \in 1 .. L
    OBVIOUS
  <2>2. \A k \in 0 .. L : sums[k] = IF k = 0 THEN 0 ELSE sums[k - 1] + values[k]
    BY <2>1
  <2>3. sums = [k \in 0 .. L |-> sums[k]]
    OBVIOUS
  <2> QED
    BY <2>2, <2>3 DEF SumsUp
<1> DEFINE found == CHOOSE g : SumsUp(g, values)
<1>3. SumsUp(found, values)
  BY <1>2, Zenon
<1>4. SumOf(values) = found[L]
  BY DEF SumOf, SumsUp
<1> HIDE DEF found
<1>5. L \in 0 .. L
  OBVIOUS
<1> QED
  BY <1>1, <1>3, <1>4, <1>5

\* No trades, no sum.
LEMMA EmptySum == SumOf(<<>>) = 0
<1> DEFINE sums == [k \in 0 .. 0 |-> 0]
<1>1. sums = [k \in 0 .. 0 |-> sums[k]] /\ sums[0] = 0
  OBVIOUS
<1> HIDE DEF sums
<1>2. PICK none : none = <<>> /\ Len(none) = 0
  OBVIOUS
<1>3. \A k \in 1 .. Len(none) : sums[k] = sums[k - 1] + none[k]
  BY <1>2
<1>4. Len(none) \in Nat /\ sums = [k \in 0 .. Len(none) |-> sums[k]]
  BY <1>1, <1>2
<1>5. SumOf(none) = sums[Len(none)]
  BY <1>1, <1>3, <1>4, SumIs
<1> QED
  BY <1>1, <1>2, <1>5

\* A stretch of trades makes the equity of its last less that before its first.
LEMMA StretchIs ==
    ASSUME NEW values \in Seq(Int), NEW accounts, Follows(accounts, values, Len(values)),
           NEW i \in 1 .. Len(values), NEW j \in i .. Len(values)
    PROVE  SumOf(SubSeq(values, i, j)) = accounts[j].equity - accounts[i - 1].equity
<1> DEFINE L == Len(values)
           stretch == SubSeq(values, i, j)
           sums == [k \in 0 .. j - i + 1 |-> accounts[i - 1 + k].equity - accounts[i - 1].equity]
<1>1. L \in Nat /\ i \in Nat /\ j \in Nat /\ 1 <= i /\ i <= j /\ j <= L /\ \A k \in 1 .. L : values[k] \in Int
  BY ElementOfSeq, LenProperties
<1>2. \A k \in 0 .. L : accounts[k] \in Account
  <2>1. L \in 0 .. L
    BY <1>1
  <2> QED
    BY <2>1, AccountsAre
<1>3. \A k \in 0 .. L : accounts[k].equity \in Int
  BY <1>2 DEF Account
<1>4. Len(stretch) = j - i + 1 /\ \A k \in 1 .. j - i + 1 : stretch[k] = values[i - 1 + k]
  BY <1>1
<1>5. \A k \in 1 .. L : accounts[k].equity = accounts[k - 1].equity + values[k]
  <2> SUFFICES ASSUME NEW k \in 1 .. L
               PROVE  accounts[k].equity = accounts[k - 1].equity + values[k]
    OBVIOUS
  <2>1. accounts[k] = AfterTrade(accounts[k - 1], values[k])
    BY DEF Follows
  <2>2. k - 1 \in 0 .. L /\ values[k] \in Int
    BY <1>1
  <2>3. PICK before \in Account : before = accounts[k - 1]
    BY <1>2, <2>2
  <2>4. PICK after : after = AfterTrade(before, values[k]) /\ after = accounts[k]
    BY <2>1, <2>3
  <2>5. after.equity = before.equity + values[k]
    BY <2>2, <2>4, AfterTradeIs, ZenonT(30)
  <2> QED
    BY <2>3, <2>4, <2>5
<1> HIDE DEF stretch
<1>6. PICK size \in Nat : size = j - i + 1
  BY <1>1
<1>7. /\ sums = [k \in 0 .. size |-> sums[k]] /\ sums[0] = 0
      /\ sums[size] = accounts[j].equity - accounts[i - 1].equity
  <2>1. 0 \in 0 .. size /\ size \in 0 .. size /\ i - 1 + 0 = i - 1 /\ i - 1 + size = j /\ i - 1 \in 0 .. L
    BY <1>1, <1>6
  <2>2. sums = [k \in 0 .. size |-> sums[k]]
    BY <1>6
  <2>3. sums[0] = accounts[i - 1].equity - accounts[i - 1].equity
    BY <1>6, <2>1
  <2>4. sums[size] = accounts[j].equity - accounts[i - 1].equity
    BY <1>6, <2>1
  <2>5. accounts[i - 1].equity \in Int
    BY <1>3, <2>1
  <2>6. sums[0] = 0
    <3> HIDE DEF sums
    <3> QED
      BY <2>3, <2>5
  <2> QED
    BY <2>2, <2>4, <2>6
<1>8. ASSUME NEW k \in 1 .. size
      PROVE  sums[k] = sums[k - 1] + stretch[k]
  <2>1. /\ k \in 0 .. size /\ k - 1 \in 0 .. size /\ i - 1 + k \in 1 .. L
        /\ i - 1 + (k - 1) = (i - 1 + k) - 1 /\ i - 1 \in 0 .. L /\ i - 1 + k \in 0 .. L
        /\ (i - 1 + k) - 1 \in 0 .. L
    BY <1>1, <1>6
  <2>2. sums[k] = accounts[i - 1 + k].equity - accounts[i - 1].equity
    BY <1>6, <2>1
  <2>3. sums[k - 1] = accounts[(i - 1 + k) - 1].equity - accounts[i - 1].equity
    BY <1>6, <2>1
  <2>4. accounts[i - 1 + k].equity = accounts[(i - 1 + k) - 1].equity + values[i - 1 + k]
    BY <1>5, <2>1
  <2>5. stretch[k] = values[i - 1 + k] /\ values[i - 1 + k] \in Int
    BY <1>1, <1>4, <1>6, <2>1
  <2>6. /\ accounts[i - 1 + k].equity \in Int /\ accounts[(i - 1 + k) - 1].equity \in Int
        /\ accounts[i - 1].equity \in Int
    BY <1>3, <2>1
  <2> HIDE DEF sums
  <2>7. PICK x \in Int, y \in Int, z \in Int, v \in Int :
          /\ x = accounts[i - 1 + k].equity /\ y = accounts[(i - 1 + k) - 1].equity
          /\ z = accounts[i - 1].equity /\ v = values[i - 1 + k]
    BY <2>5, <2>6
  <2>8. x = y + v
    BY <2>4, <2>7
  <2>9. sums[k] = x - z /\ sums[k - 1] = y - z /\ stretch[k] = v
    BY <2>2, <2>3, <2>5, <2>7
  <2>10. x - z = (y - z) + v
    BY <2>8
  <2> QED
    BY <2>9, <2>10
<1> HIDE DEF sums
<1>9. SumOf(stretch) = sums[size]
  <2>1. Len(stretch) = size
    BY <1>4, <1>6
  <2> QED
    BY <1>7, <1>8, <2>1, SumIs
<1> QED
  BY <1>7, <1>9 DEF stretch

\* The peak is the greatest equity so far, the worst the greatest fall from an
\* equity to a later one.
Worst(accounts, k) ==
  /\ \E a \in 0 .. k : accounts[k].peak = accounts[a].equity
  /\ \A a \in 0 .. k : accounts[k].peak >= accounts[a].equity
  /\ \E b \in 0 .. k : \E a \in 0 .. b : accounts[k].worst = accounts[a].equity - accounts[b].equity
  /\ \A b \in 0 .. k : \A a \in 0 .. b : accounts[k].worst >= accounts[a].equity - accounts[b].equity
LEMMA WorstIs ==
    ASSUME NEW values \in Seq(Int), NEW n \in 0 .. Len(values), NEW accounts,
           Follows(accounts, values, n), NEW m \in 0 .. n
    PROVE  Worst(accounts, m)
<1> DEFINE D == {k \in 0 .. n : ~Worst(accounts, k)}
<1>1. n \in Nat /\ \A k \in 1 .. n : values[k] \in Int
  BY ElementOfSeq, LenProperties
<1>2. \A k \in 0 .. n : /\ accounts[k] \in Account /\ accounts[k].equity \in Int
                        /\ accounts[k].peak \in Int /\ accounts[k].worst \in Int
  BY AccountsAre DEF Account
<1> SUFFICES ASSUME D # {}
             PROVE  FALSE
  OBVIOUS
<1>3. PICK k \in D : \A x \in D : k <= x
  <2>1. D \subseteq Nat
    OBVIOUS
  <2> HIDE DEF D
  <2> QED
    BY <2>1, LeastExists
<1>4. k # 0
  <2>1. accounts[0] = Flat
    BY DEF Follows
  <2>2. accounts[0].equity = 0 /\ accounts[0].peak = 0 /\ accounts[0].worst = 0
    BY <2>1 DEF Flat
  <2>3. Worst(accounts, 0)
    BY <2>2 DEF Worst
  <2> QED
    BY <1>3, <2>3
<1>5. k \in 1 .. n /\ k \in Nat /\ k - 1 \in 0 .. n /\ k - 1 \notin D
  BY <1>1, <1>3, <1>4
<1>6. Worst(accounts, k - 1)
  BY <1>5
<1>7. PICK before \in Account, after \in Account : before = accounts[k - 1] /\ after = accounts[k]
  BY <1>2, <1>5
<1>8. /\ after.peak \in {before.peak, after.equity}
      /\ after.peak >= before.peak /\ after.peak >= after.equity
      /\ after.worst \in {before.worst, after.peak - after.equity}
      /\ after.worst >= before.worst /\ after.worst >= after.peak - after.equity
  <2>1. after = AfterTrade(before, values[k]) /\ values[k] \in Int
    BY <1>1, <1>5, <1>7 DEF Follows
  <2> QED
    BY <2>1, AfterTradeIs
<1>9. /\ before.peak \in Int /\ before.worst \in Int
      /\ after.equity \in Int /\ after.peak \in Int /\ after.worst \in Int
  BY DEF Account
<1>10. \A a \in 0 .. k : (a = k \/ a \in 0 .. k - 1) /\ a \in 0 .. n
  BY <1>1, <1>5
<1>11. \A a \in 0 .. k - 1 : a \in 0 .. k
  BY <1>5
<1>12. k \in 0 .. k
  BY <1>5
<1>13. \E a \in 0 .. k : after.peak = accounts[a].equity
  <2>1. CASE after.peak = after.equity
    BY <1>7, <1>12, <2>1
  <2>2. CASE after.peak = before.peak
    <3>1. PICK a \in 0 .. k - 1 : before.peak = accounts[a].equity
      BY <1>6, <1>7 DEF Worst
    <3> QED
      BY <1>11, <2>2, <3>1
  <2> QED
    BY <1>8, <2>1, <2>2
<1>14. ASSUME NEW a \in 0 .. k
       PROVE  after.peak >= accounts[a].equity
  <2>1. CASE a = k
    BY <1>7, <1>8, <2>1
  <2>2. CASE a \in 0 .. k - 1
    <3>1. before.peak >= accounts[a].equity /\ accounts[a].equity \in Int
      BY <1>2, <1>6, <1>7, <1>10, <2>2 DEF Worst
    <3> QED
      BY <1>8, <1>9, <3>1, SMTT(30)
  <2> QED
    BY <1>10, <2>1, <2>2
<1>15. \E b \in 0 .. k : \E a \in 0 .. b : after.worst = accounts[a].equity - accounts[b].equity
  <2>1. CASE after.worst = before.worst
    <3>1. PICK b \in 0 .. k - 1 : \E a \in 0 .. b : before.worst = accounts[a].equity - accounts[b].equity
      BY <1>6, <1>7 DEF Worst
    <3> QED
      BY <1>11, <2>1, <3>1
  <2>2. CASE after.worst = after.peak - after.equity
    <3>1. PICK a \in 0 .. k : after.peak = accounts[a].equity
      BY <1>13
    <3> QED
      BY <1>7, <1>12, <2>2, <3>1
  <2> QED
    BY <1>8, <2>1, <2>2
<1>16. ASSUME NEW b \in 0 .. k, NEW a \in 0 .. b
       PROVE  after.worst >= accounts[a].equity - accounts[b].equity
  <2>0. a \in 0 .. k /\ accounts[a].equity \in Int /\ accounts[b].equity \in Int
    <3>1. a \in 0 .. k
      BY <1>5
    <3> QED
      BY <1>2, <1>10, <3>1
  <2>1. CASE b = k
    <3>1. after.peak >= accounts[a].equity
      BY <1>14, <2>0
    <3>2. accounts[b].equity = after.equity
      BY <1>7, <2>1
    <3>3. after.worst >= accounts[a].equity - after.equity
      BY <1>8, <1>9, <2>0, <3>1, SMTT(30)
    <3> QED
      BY <3>2, <3>3
  <2>2. CASE b \in 0 .. k - 1
    <3>1. before.worst >= accounts[a].equity - accounts[b].equity
      BY <1>6, <1>7, <2>2 DEF Worst
    <3>2. PICK fall \in Int : fall = accounts[a].equity - accounts[b].equity
      BY <2>0
    <3>3. after.worst >= before.worst /\ after.worst \in Int /\ before.worst \in Int
      BY <1>8, <1>9
    <3>4. before.worst >= fall
      BY <3>1, <3>2
    <3>5. after.worst >= fall
      BY <3>3, <3>4
    <3> QED
      BY <3>2, <3>5
  <2> QED
    BY <1>10, <2>1, <2>2
<1>17. Worst(accounts, k)
  BY <1>7, <1>13, <1>14, <1>15, <1>16 DEF Worst
<1> QED
  BY <1>3, <1>17

\* Of any list of returns the drawdown is the loss of its worst stretch.
LEMMA DrawdownOfReturns ==
    ASSUME NEW nets \in Seq(Int)
    PROVE  MaximumDrawdown(nets)
             = Max({-SumOf(SubSeq(nets, i, j)) : i \in DOMAIN nets, j \in DOMAIN nets} \cup {0})
<1> DEFINE L == Len(nets)
           stretches == {-SumOf(SubSeq(nets, i, j)) : i \in DOMAIN nets, j \in DOMAIN nets}
<1>1. L \in Nat /\ L \in 0 .. L /\ DOMAIN nets = 1 .. L
  BY LenProperties
<1>2. PICK accounts : Follows(accounts, nets, L)
  BY <1>1, AccountsExist
<1>3. PICK worst : worst = accounts[L].worst
  OBVIOUS
<1>4. MaximumDrawdown(nets) = worst
  BY <1>2, <1>3, DrawdownIs
<1>5. \A k \in 0 .. L : accounts[k].equity \in Int
  <2>1. \A k \in 0 .. L : accounts[k] \in Account
    BY <1>1, <1>2, AccountsAre
  <2> QED
    BY <2>1 DEF Account
<1>6. Worst(accounts, L)
  BY <1>1, <1>2, WorstIs
<1>7. worst \in stretches \cup {0}
  <2>1. PICK b \in 0 .. L : \E a \in 0 .. b : worst = accounts[a].equity - accounts[b].equity
    BY <1>3, <1>6 DEF Worst
  <2>2. PICK a \in 0 .. b : worst = accounts[a].equity - accounts[b].equity
    BY <2>1
  <2>3. a \in 0 .. L /\ accounts[a].equity \in Int /\ accounts[b].equity \in Int
    <3>1. a \in 0 .. L
      BY <1>1
    <3> QED
      BY <1>5, <3>1
  <2>4. CASE a = b
    BY <2>2, <2>3, <2>4
  <2>5. CASE a # b
    <3>1. PICK i \in 1 .. L : i = a + 1 /\ i - 1 = a /\ b \in i .. L /\ b \in 1 .. L
      BY <1>1, <2>5
    <3>2. SumOf(SubSeq(nets, i, b)) = accounts[b].equity - accounts[a].equity
      BY <1>2, <3>1, StretchIs
    <3>3. worst = -SumOf(SubSeq(nets, i, b))
      BY <2>2, <2>3, <3>2
    <3> QED
      BY <1>1, <3>1, <3>3, SMTT(30)
  <2> QED
    BY <2>4, <2>5
<1>8. worst \in Int /\ worst >= 0
  <2>1. accounts[L] \in Account
    BY <1>1, <1>2, AccountsAre
  <2>2. worst >= accounts[0].equity - accounts[0].equity
    BY <1>1, <1>3, <1>6 DEF Worst
  <2>3. accounts[0].equity \in Int
    BY <1>1, <1>5
  <2> QED
    BY <1>3, <2>1, <2>2, <2>3 DEF Account
<1>9. ASSUME NEW i \in 1 .. L, NEW j \in 1 .. L
      PROVE  worst >= -SumOf(SubSeq(nets, i, j))
  <2>1. CASE i <= j
    <3>1. j \in i .. L /\ i - 1 \in 0 .. j /\ j \in 0 .. L /\ i - 1 \in 0 .. L
      BY <1>1, <2>1
    <3>2. SumOf(SubSeq(nets, i, j)) = accounts[j].equity - accounts[i - 1].equity
      BY <1>2, <3>1, StretchIs
    <3>3. worst >= accounts[i - 1].equity - accounts[j].equity
      BY <1>3, <1>6, <3>1 DEF Worst
    <3>4. accounts[i - 1].equity \in Int /\ accounts[j].equity \in Int
      BY <1>5, <3>1
    <3> QED
      BY <1>8, <3>2, <3>3, <3>4
  <2>2. CASE ~(i <= j)
    <3>1. SubSeq(nets, i, j) = <<>>
      BY <1>1, <2>2
    <3> QED
      BY <1>8, <3>1, EmptySum
  <2> QED
    BY <2>1, <2>2
<1>10. \A x \in stretches \cup {0} : worst >= x
  BY <1>1, <1>8, <1>9
<1>11. \A x \in stretches \cup {0} : x \in Int
  <2>1. ASSUME NEW i \in 1 .. L, NEW j \in 1 .. L
        PROVE  SumOf(SubSeq(nets, i, j)) \in Int
    <3>1. CASE i <= j
      <4>1. j \in i .. L /\ j \in 0 .. L /\ i - 1 \in 0 .. L
        BY <1>1, <3>1
      <4>2. SumOf(SubSeq(nets, i, j)) = accounts[j].equity - accounts[i - 1].equity
        BY <1>2, <4>1, StretchIs
      <4> QED
        BY <1>5, <4>1, <4>2
    <3>2. CASE ~(i <= j)
      <4>1. SubSeq(nets, i, j) = <<>>
        BY <1>1, <3>2
      <4> QED
        BY <4>1, EmptySum
    <3> QED
      BY <3>1, <3>2
  <2> QED
    BY <1>1, <2>1
<1> HIDE DEF stretches
<1>12. Max(stretches \cup {0}) = worst
  <2> DEFINE S == stretches \cup {0}
             Top(x) == \A y \in S : x >= y
  <2>1. worst \in S /\ Top(worst)
    BY <1>7, <1>10
  <2>2. ASSUME NEW x \in S, Top(x)
        PROVE  x = worst
    <3>1. x >= worst /\ worst >= x /\ x \in Int
      BY <1>11, <2>1, <2>2
    <3> QED
      BY <1>8, <3>1
  <2>3. Max(S) = CHOOSE x \in S : Top(x)
    BY DEF Max
  <2> HIDE DEF S, Top
  <2>4. Max(S) \in S /\ Top(Max(S))
    BY <2>1, <2>3
  <2> QED
    BY <2>2, <2>4 DEF S
<1> QED
  BY <1>4, <1>12 DEF stretches

\* The trades that count are finitely many, one for each signal, and each has a return.
LEMMA TradesAre ==
    ASSUME TypeOK
    PROVE  /\ IsFiniteSet(CountedTrades(ledgers))
           /\ \A t \in CountedTrades(ledgers) :
                /\ t.entry = Now /\ t.net \in Int /\ FirstRow(ledgers, t.id) \in Nat
                /\ ledgers.fills[FirstRow(ledgers, t.id)].id = t.id
           /\ \A t, u \in CountedTrades(ledgers) : t.id = u.id => t = u
<1> DEFINE fills == ledgers.fills
           N == Len(fills)
           pairs == {p \in Entries(ledgers) \X Exits(ledgers) : fills[p[1]].id = fills[p[2]].id}
           trade(p) == [id |-> fills[p[1]].id, side |-> fills[p[1]].side, entry |-> fills[p[1]].at,
                        net |-> fills[p[2]].net, boundary |-> fills[p[2]].boundary]
<1>1. N \in Nat /\ DOMAIN fills = 1 .. N /\ \A i \in 1 .. N : fills[i] \in FillRow
  BY LedgerFields, ElementOfSeq, LenProperties
<1>2. CountedTrades(ledgers) = {trade(p) : p \in pairs}
  BY DEF CountedTrades
<1>3. Entries(ledgers) \subseteq 1 .. N /\ Exits(ledgers) \subseteq 1 .. N
  BY <1>1 DEF Entries, Exits, LastRows
<1>4. IsFiniteSet(CountedTrades(ledgers))
  <2>1. IsFiniteSet(1 .. N)
    <3>1. N \in Int
      BY <1>1
    <3> HIDE DEF N
    <3> QED
      BY <3>1, FS_Interval
  <2>2. IsFiniteSet(Entries(ledgers)) /\ IsFiniteSet(Exits(ledgers))
    BY <1>3, <2>1, FS_Subset
  <2>3. IsFiniteSet(Entries(ledgers) \X Exits(ledgers))
    BY <2>2, FS_Product
  <2>4. IsFiniteSet(pairs)
    BY <2>3, FS_Subset
  <2> DEFINE f == [p \in pairs |-> trade(p)]
  <2>5. f \in Surjection(pairs, CountedTrades(ledgers))
    <3> HIDE DEF trade, pairs
    <3> QED
      BY <1>2 DEF Surjection
  <2> HIDE DEF f, pairs
  <2> QED
    BY <2>4, <2>5, FS_Surjection
<1>5. ASSUME NEW p \in pairs
      PROVE  /\ p[1] \in Entries(ledgers) /\ p[2] \in Exits(ledgers) /\ p[1] \in 1 .. N /\ p[2] \in 1 .. N
             /\ p = <<p[1], p[2]>> /\ fills[p[1]].id = fills[p[2]].id
  BY <1>3, SMTT(30)
<1>6. ASSUME NEW t \in CountedTrades(ledgers)
      PROVE  /\ t.entry = Now /\ t.net \in Int /\ FirstRow(ledgers, t.id) \in Nat
             /\ fills[FirstRow(ledgers, t.id)].id = t.id
  <2>1. PICK p \in pairs : t = trade(p)
    BY <1>2
  <2>2. fills[p[1]] \in FillRow /\ fills[p[2]] \in FillRow
    BY <1>1, <1>5
  <2>3. fills[p[1]].at = Now /\ fills[p[2]].net \in Int
    <3>1. \A f \in FillRow : f.at = Now /\ f.net \in Returns \cup {0}
      BY DEF FillRow
    <3>2. fills[p[1]].at = Now /\ fills[p[2]].net \in Returns \cup {0}
      BY <2>2, <3>1
    <3>3. Returns \subseteq Int
      BY NumbersAssumption
    <3>4. \A x \in Returns \cup {0} : x \in Int
      BY <3>3
    <3> QED
      BY <3>2, <3>4
  <2>4. t.entry = fills[p[1]].at /\ t.net = fills[p[2]].net /\ t.id = fills[p[1]].id
    BY <2>1
  <2> DEFINE S == {i \in DOMAIN fills : /\ fills[i].id = t.id
                                        /\ CountedRow(ledgers, fills[i], "entry")}
  <2>5. p[1] \in S
    BY <1>1, <1>5, <2>4 DEF Entries, LastRows
  <2>6. S \subseteq Nat
    BY <1>1
  <2>7. Min(S) \in S
    <3> HIDE DEF S
    <3> QED
      BY <2>5, <2>6, LeastExists
  <2>8. FirstRow(ledgers, t.id) = Min(S)
    BY DEF FirstRow
  <2> QED
    BY <2>3, <2>4, <2>6, <2>7, <2>8, Zenon
<1>7. ASSUME NEW t \in CountedTrades(ledgers), NEW u \in CountedTrades(ledgers), t.id = u.id
      PROVE  t = u
  <2>1. PICK p \in pairs : t = trade(p)
    BY <1>2
  <2>2. PICK q \in pairs : u = trade(q)
    BY <1>2
  <2>3. fills[p[1]].id = fills[q[1]].id /\ fills[p[2]].id = fills[q[2]].id
    <3>1. t.id = fills[p[1]].id /\ u.id = fills[q[1]].id
      BY <2>1, <2>2
    <3> QED
      BY <1>5, <1>7, <3>1
  <2>4. ASSUME NEW event, NEW i \in LastRows(ledgers, event),
               NEW j \in LastRows(ledgers, event), fills[i].id = fills[j].id
        PROVE  i = j
    <3>1. /\ i \in 1 .. N /\ j \in 1 .. N
          /\ CountedRow(ledgers, fills[i], event) /\ CountedRow(ledgers, fills[j], event)
      BY <1>1 DEF LastRows
    <3>2. ~(j \in (i + 1) .. N) /\ ~(i \in (j + 1) .. N)
      BY <2>4, <3>1 DEF LastRows
    <3> QED
      BY <1>1, <3>1, <3>2
  <2>5. p[1] = q[1]
    BY <1>5, <2>3, <2>4 DEF Entries
  <2>6. p[2] = q[2]
    BY <1>5, <2>3, <2>4 DEF Exits
  <2> QED
    BY <2>1, <2>2, <2>5, <2>6
<1> QED
  BY <1>4, <1>6, <1>7

\* So they can be put in order, and what they return is a list of numbers.
LEMMA NetsAre ==
    ASSUME TypeOK
    PROVE  Nets(Trades(ledgers)) \in Seq(Int)
<1> DEFINE S == CountedTrades(ledgers)
           R == EarlierTrades(ledgers)
           N == Cardinality(S)
<1>1. /\ IsFiniteSet(S)
      /\ \A t \in S : /\ t.entry = Now /\ t.net \in Int /\ FirstRow(ledgers, t.id) \in Nat
                      /\ ledgers.fills[FirstRow(ledgers, t.id)].id = t.id
      /\ \A t, u \in S : t.id = u.id => t = u
  BY TradesAre
<1>2. ASSUME NEW t \in S, NEW u \in S
      PROVE  <<t, u>> \in R <=> FirstRow(ledgers, t.id) < FirstRow(ledgers, u.id)
  <2>1. t.entry = u.entry /\ ~(t.entry < u.entry)
    BY <1>1, NumbersAssumption
  <2>2. <<t, u>> \in R <=> \/ t.entry < u.entry
                           \/ t.entry = u.entry /\ FirstRow(ledgers, t.id) < FirstRow(ledgers, u.id)
    BY DEF EarlierTrades
  <2> QED
    BY <2>1, <2>2
<1> DEFINE row(t) == FirstRow(ledgers, t.id)
<1>3. /\ \A t \in S : row(t) \in Nat /\ t.net \in Int
      /\ \A t, u \in S : row(t) = row(u) => t = u
      /\ \A t, u \in S : <<t, u>> \in R <=> row(t) < row(u)
  <2>1. ASSUME NEW t \in S, NEW u \in S, row(t) = row(u)
        PROVE  t = u
    <3>1. t.id = u.id
      BY <1>1, <2>1
    <3> QED
      BY <1>1, <3>1
  <2> QED
    BY <1>1, <1>2, <2>1
<1> HIDE DEF S, R, row
<1>4. \A x \in S : <<x, x>> \notin R
  BY <1>3
<1>5. \A x, y, z \in S : <<x, y>> \in R /\ <<y, z>> \in R => <<x, z>> \in R
  <2> SUFFICES ASSUME NEW x \in S, NEW y \in S, NEW z \in S, <<x, y>> \in R, <<y, z>> \in R
               PROVE  <<x, z>> \in R
    OBVIOUS
  <2>1. row(x) < row(y) /\ row(y) < row(z) /\ row(x) \in Nat /\ row(y) \in Nat /\ row(z) \in Nat
    BY <1>3
  <2> QED
    BY <1>3, <2>1
<1>6. \A x, y \in S : x # y => <<x, y>> \in R \/ <<y, x>> \in R
  <2> SUFFICES ASSUME NEW x \in S, NEW y \in S, x # y
               PROVE  <<x, y>> \in R \/ <<y, x>> \in R
    OBVIOUS
  <2>1. row(x) \in Nat /\ row(y) \in Nat /\ row(x) # row(y)
    BY <1>3
  <2> QED
    BY <1>3, <2>1
<1>7. /\ N \in Nat /\ DOMAIN InOrder(S, R) = 1 .. N
      /\ \A n \in 1 .. N : InOrder(S, R)[n] \in S
  <2>1. IsFiniteSet(S)
    BY <1>1
  <2> QED
    BY <1>4, <1>5, <1>6, <2>1, InOrderIs
<1>8. Trades(ledgers) = InOrder(S, R)
  BY DEF Trades, S, R
<1>9. Nets(Trades(ledgers)) = [n \in 1 .. N |-> InOrder(S, R)[n].net]
  BY <1>7, <1>8 DEF Nets
<1>10. \A n \in 1 .. N : InOrder(S, R)[n].net \in Int
  BY <1>3, <1>7
<1>11. N \in Nat
  BY <1>7
<1> HIDE DEF N
<1>12. [n \in 1 .. N |-> InOrder(S, R)[n].net] \in [1 .. N -> Int]
  BY <1>10
<1>13. [n \in 1 .. N |-> InOrder(S, R)[n].net] \in Seq(Int)
  BY <1>11, <1>12, SeqDef
<1> QED
  BY <1>9, <1>13

\* Whatever the trades, the drawdown reported is the loss over their worst stretch
\* (demo_shadow_evaluator.py:246-252).
THEOREM DrawdownIsWorstStretchAlways == Spec => []DrawdownIsWorstStretch
<1>1. TypeOK => DrawdownIsWorstStretch
  <2> SUFFICES ASSUME TypeOK
               PROVE  DrawdownIsWorstStretch
    OBVIOUS
  <2>1. PICK nets \in Seq(Int) : nets = Nets(Trades(ledgers))
    BY NetsAre
  <2>2. MaximumDrawdown(nets)
          = Max({-SumOf(SubSeq(nets, i, j)) : i \in DOMAIN nets, j \in DOMAIN nets} \cup {0})
    BY DrawdownOfReturns
  <2> QED
    BY <2>1, <2>2 DEF DrawdownIsWorstStretch
<1> QED
  BY <1>1, ShadowInvariant, PTL

=============================================================================

------------------------ MODULE MCShadowInvalidation ------------------------
(***************************************************************************)
(* Scenes, each with the processes that take part in it:                   *)
(*   busy     the worker, one invalidation and one evaluation at a time;   *)
(*   editors  the worker and two invalidations, one of them all may die;   *)
(*   reports  two evaluations, of which one may die, and the worker;       *)
(*   closed   evaluations of a campaign with two closed trades of any      *)
(*            returns, and an invalidation.                                *)
(***************************************************************************)
EXTENDS ShadowInvalidation
MCExits == {1}
MCNets == {-2, 1, 3}
VARIABLE scene
MCVars == <<vars, scene>>

Taking == [busy |-> [editors |-> {"ann"}, evaluators |-> {"eve"}, rows |-> 1],
           editors |-> [editors |-> {"ann", "bob"}, evaluators |-> {}, rows |-> 0],
           reports |-> [editors |-> {"ann"}, evaluators |-> {"eve", "joe"}, rows |-> 2],
           closed |-> [editors |-> {"ann"}, evaluators |-> {"eve"}, rows |-> 1]]

Closed(nets) ==
  LET n == Len(nets)
      row(i) == [id |-> i, observed |-> i, disposition |-> "entry"]
      fill(i, event) == [event |-> event, id |-> i, side |-> IF i % 2 = 1 THEN 1 ELSE -1,
                         at |-> i, observed |-> i, net |-> nets[i], boundary |-> TRUE]
  IN  [signals |-> [i \in 1 .. n |-> row(i)], events |-> <<>>,
       fills |-> [k \in 1 .. 2 * n |-> IF k % 2 = 1 THEN fill((k + 1) \div 2, "entry")
                                       ELSE fill(k \div 2, "exit")],
       health |-> <<[at |-> 0, healthy |-> TRUE]>>,
       workerStarts |-> {}, created |-> 0, failedCycles |-> 0]

OneLate == [Unread EXCEPT !.signals = <<[id |-> 1, observed |-> Now, disposition |-> "late"]>>]

MCInit ==
  \/ /\ scene = "busy" /\ Empty /\ deaths = 0
     /\ disk = [NoState EXCEPT !.last = Signals - 1]
  \/ /\ scene = "editors" /\ Quiet /\ ledgers = OneLate
     /\ disk = [NoState EXCEPT !.last = 1] /\ deaths = 0
  \/ /\ scene = "reports" /\ Quiet /\ ledgers = Closed(<<1>>)
     /\ disk = [NoState EXCEPT !.last = Signals] /\ deaths = 0
  \/ /\ scene = "closed" /\ Quiet
     /\ \E nets \in [1 .. 2 -> MCNets] : ledgers = Closed(nets)
     /\ disk = [NoState EXCEPT !.last = Signals] /\ deaths = MaxDeaths

MCNext ==
  /\ Next
  /\ \A e \in Editors \ Taking[scene].editors : edits'[e] = NoEdit
  /\ \A v \in Evaluators \ Taking[scene].evaluators : evals'[v] = NoEval
  /\ Len(weekly') <= Taking[scene].rows
  /\ scene' = scene
MCSpec == MCInit /\ [][MCNext]_MCVars
=============================================================================

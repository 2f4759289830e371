-------------------------- MODULE CampaignRootProofs ------------------------
(***************************************************************************)
(* The commit point of a campaign directory, for any number of operators   *)
(* and deaths.  The argument: mkdir lets one call build the directory, the *)
(* builder has finished the files before the one it is at, and as long as  *)
(* it is not done nobody can read the protocol.                            *)
(***************************************************************************)
EXTENDS CampaignRoot, TLAPS

Building(p) == pc[p] \in {"open", "fill", "event"}

\* One call builds, and only after the directory was made.
OneBuilder ==
    /\ \A p, q \in Operator : Building(p) /\ Building(q) => p = q
    /\ \A p \in Operator : Building(p) => dir
    /\ ~dir => ~Complete

\* What the builder has done so far.
Progress ==
    \A p \in Operator : Building(p) =>
        /\ \A i \in 1..written[p] : files[Order[i]] = "whole"
        /\ kind = "rollover" /\ written[p] >= 3 => schema # 0
        /\ pc[p] = "event" => Complete
        /\ pc[p] # "event" => ~Complete /\ written[p] < Len(Order)
        /\ events = 0

\* Nobody holds a protocol, or uses one, before it is whole.
AfterCommit ==
    (handed # {} \/ engine = "running" \/ events # 0) => Complete

IInv == TypeOK /\ OneBuilder /\ Progress /\ AfterCommit /\ CommitPoint /\ SupersededOnce

\* The files of either call: the protocol is the last of them.
LEMMA OrderFacts ==
    ASSUME kind \in {"initialize", "rollover"}
    PROVE  /\ Len(Order) \in 2..4
           /\ \A i \in 1..Len(Order) : Order[i] \in File
           /\ \A i \in 1..Len(Order) : Order[i] = "protocol" <=> i = Len(Order)
           /\ \A i, j \in 1..Len(Order) : Order[i] = Order[j] => i = j
           /\ kind = "rollover" => Len(Order) = 4 /\ Order[3] = "state"
           /\ kind = "initialize" => \A i \in 1..Len(Order) : Order[i] # "state"
<1>1. CASE kind = "rollover"
  BY <1>1 DEF Order, File
<1>2. CASE kind = "initialize"
  BY <1>2 DEF Order, File
<1> QED
  BY <1>1, <1>2

LEMMA Initial == Init => IInv
<1> SUFFICES ASSUME Init PROVE IInv
  OBVIOUS
<1>1. TypeOK
  <2>1. /\ files \in [File -> {"absent", "torn", "whole"}]
        /\ pc \in [Operator -> {"idle", "found", "missing", "open", "fill", "event"}]
    BY DEF Init
  <2>2. written \in [Operator -> 0..4]
    <3>1. 0 \in 0..4
      OBVIOUS
    <3> QED
      BY <3>1 DEF Init
  <2> QED
    BY <2>1, <2>2 DEF Init, TypeOK
<1>2. ~Complete /\ \A p \in Operator : ~Building(p)
  BY DEF Init, Complete, Building, File
<1>3. OneBuilder /\ Progress
  BY <1>2 DEF OneBuilder, Progress
<1>4. AfterCommit /\ CommitPoint /\ SupersededOnce
  BY <1>2 DEF Init, AfterCommit, CommitPoint, SupersededOnce
<1> QED
  BY <1>1, <1>3, <1>4 DEF IInv

\* Steps that move one operator, or the engine, between places where it does
\* not build, and leave the directory and the ledger as they are.
LEMMA Aside ==
    ASSUME IInv, TypeOK',
           UNCHANGED <<kind, dir, files, schema, events, written>>,
           \A p \in Operator : Building(p)' => pc'[p] = pc[p],
           (handed' # {} \/ engine' = "running") => Complete
    PROVE  IInv'
<1>0. TypeOK /\ OneBuilder /\ Progress /\ AfterCommit /\ CommitPoint /\ SupersededOnce
  BY DEF IInv
<1>1. Complete' = Complete /\ Order' = Order
  BY DEF Complete, Order
<1>2. \A p \in Operator : Building(p)' => Building(p)
  BY DEF Building
<1>3. OneBuilder'
  BY <1>0, <1>1, <1>2 DEF OneBuilder
<1>4. Progress'
  BY <1>0, <1>1, <1>2 DEF Progress
<1>5. AfterCommit'
  BY <1>0, <1>1 DEF AfterCommit
<1>6. CommitPoint'
  BY <1>0, <1>1 DEF CommitPoint
<1>7. SupersededOnce'
  BY <1>0, <1>1 DEF SupersededOnce
<1> QED
  BY <1>3, <1>4, <1>5, <1>6, <1>7 DEF IInv

LEMMA Inductive == IInv /\ [Next]_vars => IInv'
<1> SUFFICES ASSUME IInv, [Next]_vars
             PROVE  IInv'
  OBVIOUS
<1>0. TypeOK /\ OneBuilder /\ Progress /\ AfterCommit /\ CommitPoint /\ SupersededOnce
  BY DEF IInv
<1> USE DEF Goto
<1>1. ASSUME NEW p \in Operator, Look(p) \/ TakeExisting(p) \/ ExistingUnreadable(p)
                                 \/ MakeRootRefused(p) \/ Die(p)
      PROVE  IInv'
  <2>1. TypeOK'
    BY <1>0, <1>1 DEF TypeOK, Look, TakeExisting, ExistingUnreadable, MakeRootRefused, Die
  <2>2. \A q \in Operator : Building(q)' => pc'[q] = pc[q]
    BY <1>0, <1>1
       DEF TypeOK, Building, Look, TakeExisting, ExistingUnreadable, MakeRootRefused, Die
  <2>3. (handed' # {} \/ engine' = "running") => Complete
    BY <1>0, <1>1
       DEF AfterCommit, Look, TakeExisting, ExistingUnreadable, MakeRootRefused, Die
  <2>4. UNCHANGED <<kind, dir, files, schema, events, written>>
    BY <1>1 DEF Look, TakeExisting, ExistingUnreadable, MakeRootRefused, Die
  <2> QED
    BY <2>1, <2>2, <2>3, <2>4, Aside
<1>2. CASE StartRun \/ EndWithoutSave \/ UNCHANGED vars
  <2>1. TypeOK'
    BY <1>0, <1>2 DEF TypeOK, StartRun, EndWithoutSave, vars
  <2>2. UNCHANGED <<kind, dir, files, schema, events, written, pc, handed>>
    BY <1>2 DEF StartRun, EndWithoutSave, vars
  <2>3. (handed' # {} \/ engine' = "running") => Complete
    BY <1>0, <1>2, <2>2 DEF AfterCommit, StartRun, EndWithoutSave, vars
  <2> QED
    BY <2>1, <2>2, <2>3, Aside
<1>3. CASE SaveState
  <2>1. /\ Complete /\ schema' = 2 /\ files' = [files EXCEPT !["state"] = "whole"]
        /\ UNCHANGED <<kind, dir, events, pc, written, handed>> /\ engine' = "idle"
    BY <1>0, <1>3 DEF SaveState, AfterCommit
  <2>2. \A f \in File : files[f] = "whole" => files'[f] = "whole"
    BY <1>0, <2>1 DEF TypeOK
  <2>3. Complete' /\ Order' = Order
    BY <1>0, <2>1, <2>2 DEF Complete, Order, File
  <2>4. TypeOK'
    BY <1>0, <1>3, <2>1 DEF TypeOK, SaveState, File
  <2>5. OneBuilder'
    BY <1>0, <2>1, <2>3 DEF OneBuilder, Building
  <2>6. \A i \in 1..Len(Order) : files'[Order[i]] = "whole"
    BY <1>0, <2>1, <2>2, OrderFacts DEF CommitPoint, TypeOK
  <2>7. Progress'
    <3> SUFFICES ASSUME NEW p \in Operator, Building(p)'
                 PROVE  /\ \A i \in 1..written'[p] : files'[Order[i]] = "whole"
                        /\ kind' = "rollover" /\ written'[p] >= 3 => schema' # 0
                        /\ pc'[p] = "event" /\ Complete'
                        /\ events' = 0
      BY <2>3 DEF Progress
    <3>1. Building(p) /\ pc[p] = "event" /\ events = 0
      BY <1>0, <2>1 DEF Progress, Building
    <3>2. \A i \in 1..written[p] : files[Order[i]] = "whole"
      BY <1>0, <3>1 DEF Progress
    <3>3. \A i \in 1..written[p] : files'[Order[i]] = "whole"
      <4>1. \A f : files[f] = "whole" => f = "state" \/ files'[f] = files[f]
        BY <1>0, <2>1 DEF TypeOK
      <4>2. files'["state"] = "whole"
        BY <1>0, <2>1 DEF TypeOK, File
      <4> QED
        BY <3>2, <4>1, <4>2
    <3> QED
      BY <2>1, <2>3, <3>1, <3>3
  <2>8. AfterCommit' /\ CommitPoint' /\ SupersededOnce'
    BY <1>0, <2>1, <2>3, <2>6 DEF AfterCommit, CommitPoint, SupersededOnce
  <2> QED
    BY <2>4, <2>5, <2>7, <2>8 DEF IInv
<1>4. ASSUME NEW p \in Operator, MakeRoot(p)
      PROVE  IInv'
  <2>1. /\ pc[p] = "missing" /\ ~dir /\ dir' = TRUE
        /\ written' = [written EXCEPT ![p] = 0] /\ pc' = [pc EXCEPT ![p] = "open"]
        /\ UNCHANGED <<kind, files, schema, events, handed, engine, crashes>>
    BY <1>4 DEF MakeRoot
  <2>2. /\ ~Complete /\ Complete' = Complete /\ Order' = Order
        /\ \A q \in Operator : ~Building(q)
        /\ handed = {} /\ engine # "running" /\ events = 0
    BY <1>0, <2>1 DEF OneBuilder, AfterCommit, Complete, Order
  <2>3. TypeOK'
    BY <1>0, <2>1 DEF TypeOK
  <2>4. \A q \in Operator : Building(q)' => q = p
    BY <1>0, <2>1, <2>2 DEF TypeOK, Building
  <2>5. OneBuilder'
    BY <2>1, <2>4 DEF OneBuilder
  <2>6. written'[p] = 0 /\ pc'[p] = "open"
    BY <1>0, <2>1 DEF TypeOK
  <2>7. Len(Order) \in 2..4
    BY <1>0, OrderFacts DEF TypeOK
  <2>8. Progress'
    <3> SUFFICES ASSUME NEW q \in Operator, Building(q)'
                 PROVE  /\ \A i \in 1..written'[q] : files'[Order'[i]] = "whole"
                        /\ kind' = "rollover" /\ written'[q] >= 3 => schema' # 0
                        /\ pc'[q] = "event" => Complete'
                        /\ pc'[q] # "event" => ~Complete' /\ written'[q] < Len(Order')
                        /\ events' = 0
      BY DEF Progress
    <3>1. q = p
      BY <2>4
    <3>2. written'[q] = 0 /\ pc'[q] = "open" /\ Len(Order') \in 2..4
      BY <2>2, <2>6, <2>7, <3>1
    <3>3. 1..0 = {} /\ ~(0 >= 3) /\ 0 < Len(Order')
      BY <3>2
    <3> QED
      BY <2>1, <2>2, <3>2, <3>3
  <2>9. AfterCommit' /\ CommitPoint' /\ SupersededOnce'
    BY <2>1, <2>2 DEF AfterCommit, CommitPoint, SupersededOnce
  <2> QED
    BY <2>3, <2>5, <2>8, <2>9 DEF IInv
<1>5. ASSUME NEW p \in Operator, OpenFile(p)
      PROVE  IInv'
  <2> DEFINE file == Order[written[p] + 1]
  <2>1. /\ pc[p] = "open" /\ files' = [files EXCEPT ![file] = "torn"]
        /\ pc' = [pc EXCEPT ![p] = "fill"]
        /\ UNCHANGED <<kind, dir, schema, events, written, handed, engine, crashes>>
    BY <1>5 DEF OpenFile
  <2>2. /\ Building(p) /\ dir /\ ~Complete /\ events = 0
        /\ written[p] \in 0..4 /\ written[p] < Len(Order)
        /\ \A i \in 1..written[p] : files[Order[i]] = "whole"
        /\ kind = "rollover" /\ written[p] >= 3 => schema # 0
    BY <1>0, <2>1 DEF TypeOK, Building, Progress, OneBuilder
  <2>3. /\ Len(Order) \in 2..4 /\ file \in File
        /\ \A i \in 1..Len(Order) : Order[i] = file => i = written[p] + 1
        /\ Order' = Order
    BY <1>0, <2>1, <2>2, OrderFacts DEF TypeOK, Order
  <2> HIDE DEF file
  <2>4. handed = {} /\ engine # "running"
    BY <1>0, <2>2 DEF AfterCommit
  <2>5. TypeOK'
    BY <1>0, <2>1, <2>3 DEF TypeOK
  <2>6. ~Complete'
    BY <1>0, <2>1, <2>2, <2>3 DEF TypeOK, Complete, File
  <2>7. \A q \in Operator : Building(q)' => q = p
    BY <1>0, <2>1, <2>2 DEF TypeOK, Building, OneBuilder
  <2>8. OneBuilder'
    BY <2>1, <2>2, <2>6, <2>7 DEF OneBuilder
  <2>9. \A i \in 1..written[p] : files'[Order[i]] = "whole"
    <3> SUFFICES ASSUME NEW i \in 1..written[p] PROVE files'[Order[i]] = "whole"
      OBVIOUS
    <3>1. i \in 1..Len(Order) /\ Order[i] # file
      BY <2>2, <2>3
    <3> QED
      BY <1>0, <2>1, <2>2, <2>3, <3>1, OrderFacts DEF TypeOK
  <2>10. pc'[p] = "fill"
    BY <1>0, <2>1 DEF TypeOK
  <2>11. Progress'
    BY <2>1, <2>2, <2>3, <2>6, <2>7, <2>9, <2>10 DEF Progress
  <2>12. AfterCommit' /\ CommitPoint' /\ SupersededOnce'
    BY <2>1, <2>2, <2>4, <2>6 DEF AfterCommit, CommitPoint, SupersededOnce
  <2> QED
    BY <2>5, <2>8, <2>11, <2>12 DEF IInv
<1>6. ASSUME NEW p \in Operator, FillFile(p)
      PROVE  IInv'
  <2> DEFINE file == Order[written[p] + 1]
             done == written[p] + 1 = Len(Order)
  <2>1. /\ pc[p] = "fill" /\ files' = [files EXCEPT ![file] = "whole"]
        /\ schema' = IF file = "state" THEN 3 ELSE schema
        /\ written' = [written EXCEPT ![p] = written[p] + 1]
        /\ pc' = [pc EXCEPT ![p] = IF written[p] + 1 < Len(Order) THEN "open" ELSE "event"]
        /\ UNCHANGED <<kind, dir, events, handed, engine, crashes>>
    BY <1>6 DEF FillFile
  <2>2. /\ Building(p) /\ dir /\ ~Complete /\ events = 0
        /\ written[p] \in 0..4 /\ written[p] < Len(Order)
        /\ \A i \in 1..written[p] : files[Order[i]] = "whole"
        /\ kind = "rollover" /\ written[p] >= 3 => schema # 0
    BY <1>0, <2>1 DEF TypeOK, Building, Progress, OneBuilder
  <2>3. /\ Len(Order) \in 2..4 /\ file \in File
        /\ file = "protocol" <=> done
        /\ kind = "rollover" => Len(Order) = 4 /\ Order[3] = "state"
        /\ Order' = Order
    BY <1>0, <2>1, <2>2, OrderFacts DEF TypeOK, Order
  <2>4. handed = {} /\ engine # "running"
    BY <1>0, <2>2 DEF AfterCommit
  <2>5. written'[p] = written[p] + 1 /\ written'[p] \in 0..4
    BY <1>0, <2>1, <2>2, <2>3 DEF TypeOK
  <2>6. pc'[p] = IF done THEN "event" ELSE "open"
    BY <1>0, <2>1, <2>2, <2>3 DEF TypeOK
  <2>7. kind = "rollover" /\ written'[p] >= 3 => schema' # 0
    <3> SUFFICES ASSUME kind = "rollover", written'[p] >= 3 PROVE schema' # 0
      OBVIOUS
    <3>1. CASE written[p] >= 3
      BY <2>1, <2>2, <3>1
    <3>2. CASE written[p] = 2
      BY <2>1, <2>3, <3>2
    <3> QED
      BY <2>2, <2>5, <3>1, <3>2
  <2>8. files' = [files EXCEPT ![file] = "whole"] /\ files \in [File -> {"absent", "torn", "whole"}]
    BY <1>0, <2>1 DEF TypeOK
  <2>9. Complete' <=> done
    <3>1. CASE done
      BY <2>3, <2>8, <3>1 DEF Complete
    <3>2. CASE ~done
      BY <2>2, <2>3, <2>8, <3>2 DEF Complete, File
    <3> QED
      BY <3>1, <3>2
  <2>10. \A i \in 1..written'[p] : files'[Order[i]] = "whole"
    <3> SUFFICES ASSUME NEW i \in 1..written'[p] PROVE files'[Order[i]] = "whole"
      OBVIOUS
    <3>1. CASE i = written[p] + 1
      BY <2>3, <2>8, <3>1
    <3>2. CASE i # written[p] + 1
      <4>1. i \in 1..written[p] /\ i \in 1..Len(Order)
        BY <2>2, <2>3, <2>5, <3>2
      <4>2. files[Order[i]] = "whole" /\ Order[i] \in File
        BY <1>0, <2>2, <4>1, OrderFacts DEF TypeOK
      <4> QED
        BY <2>8, <4>2
    <3> QED
      BY <3>1, <3>2
  <2>11. TypeOK'
    <3>1. files' \in [File -> {"absent", "torn", "whole"}]
      BY <2>3, <2>8
    <3>2. written' \in [Operator -> 0..4]
      BY <1>0, <2>1, <2>5 DEF TypeOK
    <3>3. schema' \in {0, 2, 3}
      BY <1>0, <2>1 DEF TypeOK
    <3>4. pc' \in [Operator -> {"idle", "found", "missing", "open", "fill", "event"}]
      BY <1>0, <2>1 DEF TypeOK
    <3> QED
      BY <1>0, <2>1, <3>1, <3>2, <3>3, <3>4 DEF TypeOK
  <2>12. \A q \in Operator : Building(q)' => q = p
    BY <1>0, <2>1, <2>2 DEF TypeOK, Building, OneBuilder
  <2>13. OneBuilder'
    BY <2>1, <2>2, <2>12 DEF OneBuilder
  <2>14. ~done => written'[p] < Len(Order)
    BY <2>2, <2>3, <2>5
  <2>15. kind' = kind /\ events' = 0 /\ Order' = Order
    BY <2>1, <2>2, <2>3
  <2> HIDE DEF file, done
  <2>16. Progress'
    <3> SUFFICES ASSUME NEW q \in Operator, Building(q)'
                 PROVE  /\ \A i \in 1..written'[q] : files'[Order'[i]] = "whole"
                        /\ kind' = "rollover" /\ written'[q] >= 3 => schema' # 0
                        /\ pc'[q] = "event" => Complete'
                        /\ pc'[q] # "event" => ~Complete' /\ written'[q] < Len(Order')
                        /\ events' = 0
      BY DEF Progress
    <3>1. q = p
      BY <2>12
    <3>2. /\ pc'[p] = "event" => Complete'
          /\ pc'[p] # "event" => ~Complete' /\ written'[p] < Len(Order)
      BY <2>6, <2>9, <2>14
    <3> QED
      BY <2>7, <2>10, <2>15, <3>1, <3>2
  <2>17. AfterCommit'
    BY <2>1, <2>2, <2>4 DEF AfterCommit
  <2>18. CommitPoint'
    <3> SUFFICES ASSUME Complete' PROVE CommitPoint'
      BY <2>1, <2>4 DEF CommitPoint
    <3>1. written'[p] = Len(Order)
      BY <2>5, <2>9 DEF done
    <3>2. kind = "rollover" => schema' # 0
      <4> SUFFICES ASSUME kind = "rollover" PROVE schema' # 0
        OBVIOUS
      <4>1. Len(Order) = 4
        BY <2>3
      <4>2. written'[p] >= 3
        BY <3>1, <4>1
      <4> QED
        BY <2>7, <4>2
    <3> QED
      BY <2>10, <2>15, <3>1, <3>2 DEF CommitPoint
  <2>19. SupersededOnce'
    BY <2>15 DEF SupersededOnce
  <2> QED
    BY <2>11, <2>13, <2>16, <2>17, <2>18, <2>19 DEF IInv
<1>7. ASSUME NEW p \in Operator, Return(p)
      PROVE  IInv'
  <2>1. /\ pc[p] = "event" /\ pc' = [pc EXCEPT ![p] = "idle"]
        /\ events' = IF kind = "rollover" THEN events + 1 ELSE events
        /\ handed' = handed \union {p}
        /\ UNCHANGED <<kind, dir, files, schema, written, engine, crashes>>
    BY <1>7 DEF Return
  <2>2. Building(p) /\ dir /\ Complete /\ events = 0
    BY <1>0, <2>1 DEF Building, OneBuilder, Progress
  <2>3. Complete' /\ Order' = Order
    BY <2>1, <2>2 DEF Complete, Order
  <2>4. TypeOK'
    BY <1>0, <2>1 DEF TypeOK
  <2>5. \A q \in Operator : ~Building(q)'
    BY <1>0, <2>1, <2>2 DEF TypeOK, Building, OneBuilder
  <2>6. OneBuilder' /\ Progress'
    BY <2>1, <2>2, <2>5 DEF OneBuilder, Progress
  <2>7. AfterCommit'
    BY <2>3 DEF AfterCommit
  <2>8. SupersededOnce'
    BY <2>1, <2>2, <2>3 DEF SupersededOnce
  <2>9. CommitPoint'
    BY <1>0, <2>1, <2>2, <2>3 DEF CommitPoint
  <2> QED
    BY <2>4, <2>6, <2>7, <2>8, <2>9 DEF IInv
<1> QED
  BY <1>1, <1>2, <1>3, <1>4, <1>5, <1>6, <1>7 DEF Next, Call

\* protocol.json is the commit point: a campaign that can be read, or was
\* returned by initialize or rollover, is complete, for any number of racing
\* and dying calls.
THEOREM CommitPointAlways == Spec => []CommitPoint
<1>1. IInv => CommitPoint
  BY DEF IInv
<1> QED
  BY Initial, Inductive, <1>1, PTL DEF Spec

\* However many operators roll the parent over, and wherever they die, its
\* ledger says at most once that it was superseded, and by a complete campaign.
THEOREM SupersededOnceAlways == Spec => []SupersededOnce
<1>1. IInv => SupersededOnce
  BY DEF IInv
<1> QED
  BY Initial, Inductive, <1>1, PTL DEF Spec
-----------------------------------------------------------------------------
(* No file that is whole is ever truncated                                 *)

\* What the builder has not reached yet is not whole: only mkdir's winner
\* opens files, in their order, and the engine waits for the last of them.
StillToWrite ==
    /\ ~dir => \A f \in File : files[f] = "absent"
    /\ \A p \in Operator : Building(p) =>
          \A i \in 1..Len(Order) : i > written[p] => files[Order[i]] # "whole"

\* Steps other than those that write keep both.
LEMMA StillToWriteKept ==
    ASSUME StillToWrite, UNCHANGED <<kind, dir, files, written>>,
           \A p \in Operator : Building(p)' => Building(p)
    PROVE  StillToWrite'
  BY DEF StillToWrite, Order

\* The next file of a builder is not whole before it is opened.
LEMMA OpensUnfinished ==
    ASSUME IInv, StillToWrite, NEW p \in Operator, OpenFile(p)
    PROVE  \E i \in 1..Len(Order) :
              /\ i = written[p] + 1 /\ Building(p) /\ files[Order[i]] # "whole"
              /\ files' = [files EXCEPT ![Order[i]] = "torn"]
<1>1. TypeOK /\ Progress /\ pc[p] = "open" /\ Building(p)
  BY DEF IInv, OpenFile, Building
<1>2. written[p] \in Nat /\ written[p] < Len(Order) /\ Len(Order) \in 2..4
  BY <1>1, OrderFacts DEF TypeOK, Progress
<1>3. written[p] + 1 \in 1..Len(Order) /\ written[p] + 1 > written[p]
  BY <1>2
<1> QED
  BY <1>1, <1>3 DEF StillToWrite, OpenFile

LEMMA StillToWriteStep ==
    ASSUME IInv, StillToWrite, [Next]_vars
    PROVE  StillToWrite'
<1>0. TypeOK /\ OneBuilder /\ AfterCommit
  BY DEF IInv
<1>o. /\ Len(Order) \in 2..4
      /\ \A i \in 1..Len(Order) : Order[i] \in File
      /\ \A i, j \in 1..Len(Order) : Order[i] = Order[j] => i = j
      /\ Order[Len(Order)] = "protocol"
  BY <1>0, OrderFacts DEF TypeOK
<1> USE DEF Goto
<1>1. ASSUME NEW p \in Operator,
             \/ Look(p) \/ TakeExisting(p) \/ ExistingUnreadable(p)
             \/ MakeRootRefused(p) \/ Return(p) \/ Die(p)
      PROVE  StillToWrite'
  <2>1. UNCHANGED <<kind, dir, files, written>>
    BY <1>1 DEF Look, TakeExisting, ExistingUnreadable, MakeRootRefused, Return, Die
  <2>2. \A q \in Operator : Building(q)' => Building(q)
    BY <1>0, <1>1 DEF TypeOK, Building, Look, TakeExisting, ExistingUnreadable,
                      MakeRootRefused, Return, Die
  <2> QED
    BY <2>1, <2>2, StillToWriteKept
<1>2. CASE StartRun \/ EndWithoutSave \/ UNCHANGED vars
  BY <1>2, StillToWriteKept DEF StartRun, EndWithoutSave, vars, Building
<1>3. CASE SaveState
  <2>1. Complete /\ dir /\ UNCHANGED <<kind, dir, pc, written>>
    BY <1>0, <1>3 DEF SaveState, AfterCommit, OneBuilder
  <2>2. \A p \in Operator : Building(p) => \A i \in 1..Len(Order) : ~(i > written[p])
    <3> SUFFICES ASSUME NEW p \in Operator, Building(p),
                        NEW i \in 1..Len(Order), i > written[p]
                 PROVE  FALSE
      OBVIOUS
    <3>1. Len(Order) \in 1..Len(Order) /\ Len(Order) > written[p]
      BY <1>0, <1>o DEF TypeOK
    <3> QED
      BY <1>o, <2>1, <3>1 DEF StillToWrite, Complete
  <2> QED
    BY <2>1, <2>2 DEF StillToWrite, Building, Order
<1>4. ASSUME NEW p \in Operator, MakeRoot(p)
      PROVE  StillToWrite'
  <2>1. ~dir /\ dir' /\ files' = files /\ Order' = Order
    BY <1>4 DEF MakeRoot, Order
  <2> QED
    BY <1>o, <2>1 DEF StillToWrite
<1>5. ASSUME NEW p \in Operator, OpenFile(p)
      PROVE  StillToWrite'
  <2>1. PICK i \in 1..Len(Order) :
          i = written[p] + 1 /\ Building(p) /\ files' = [files EXCEPT ![Order[i]] = "torn"]
    BY <1>5, OpensUnfinished
  <2>2. dir /\ UNCHANGED <<dir, kind, written>> /\ Order' = Order
    BY <1>0, <1>5, <2>1 DEF OpenFile, OneBuilder, Order
  <2>3. \A q \in Operator : Building(q)' => Building(q)
    BY <1>0, <1>5 DEF TypeOK, OpenFile, Building
  <2>4. \A f \in File : files'[f] = "whole" => files[f] = "whole"
    BY <1>0, <1>o, <2>1 DEF TypeOK
  <2> QED
    BY <1>o, <2>2, <2>3, <2>4 DEF StillToWrite
<1>6. ASSUME NEW p \in Operator, FillFile(p)
      PROVE  StillToWrite'
  <2>1. /\ pc[p] = "fill" /\ Building(p) /\ dir /\ UNCHANGED <<dir, kind>> /\ Order' = Order
        /\ files' = [files EXCEPT ![Order[written[p] + 1]] = "whole"]
        /\ written' = [written EXCEPT ![p] = @ + 1]
    BY <1>0, <1>6 DEF FillFile, Building, OneBuilder, Order
  <2>2. \A q \in Operator : Building(q)' => q = p
    BY <1>0, <1>6, <2>1 DEF TypeOK, FillFile, Building, OneBuilder
  <2>3. written[p] \in Nat /\ written'[p] = written[p] + 1
    BY <1>0, <2>1 DEF TypeOK
  <2>4. written[p] + 1 \in 1..Len(Order)
    BY <1>o, <2>1, <2>3 DEF IInv, Progress
  <2>5. ASSUME NEW i \in 1..Len(Order), i > written'[p]
        PROVE  files'[Order[i]] # "whole"
    <3>1. i # written[p] + 1 /\ i > written[p]
      BY <2>3, <2>5
    <3>2. Order[i] # Order[written[p] + 1] /\ Order[i] \in File
      BY <1>o, <2>4, <3>1
    <3>3. files'[Order[i]] = files[Order[i]]
      BY <1>0, <2>1, <3>2 DEF TypeOK
    <3> QED
      BY <2>1, <3>1, <3>3 DEF StillToWrite
  <2> QED
    BY <2>1, <2>2, <2>5 DEF StillToWrite
<1> QED
  BY <1>1, <1>2, <1>3, <1>4, <1>5, <1>6 DEF Next, Call

\* Whatever calls race, die or run the engine: no write_text ever truncates a
\* file of the campaign that somebody has completed
\* (demo_shadow_protocol.py, demo_shadow_rollover.py and the save of the engine).
THEOREM WriteOnceAlways == Spec => WriteOnce
<1>1. Init => IInv /\ StillToWrite
  <2>1. Init => StillToWrite
    BY DEF Init, StillToWrite, Building
  <2> QED
    BY <2>1, Initial
<1>2. (IInv /\ StillToWrite) /\ [Next]_vars => (IInv /\ StillToWrite)'
  BY Inductive, StillToWriteStep
<1>3. ASSUME IInv /\ StillToWrite, [Next]_vars
      PROVE  [\A f \in File : files[f] = "whole" => files'[f] = "whole"]_vars
  <2>0. TypeOK
    BY <1>3 DEF IInv
  <2> USE DEF Goto
  <2>1. ASSUME NEW p \in Operator,
               \/ Look(p) \/ TakeExisting(p) \/ ExistingUnreadable(p) \/ MakeRoot(p)
               \/ MakeRootRefused(p) \/ Return(p) \/ Die(p)
        PROVE  files' = files
    BY <2>1 DEF Look, TakeExisting, ExistingUnreadable, MakeRoot, MakeRootRefused, Return, Die
  <2>2. ASSUME StartRun \/ EndWithoutSave \/ UNCHANGED vars
        PROVE  files' = files
    BY <2>2 DEF StartRun, EndWithoutSave, vars
  <2>3. ASSUME SaveState \/ \E p \in Operator : FillFile(p)
        PROVE  \A f \in File : files[f] = "whole" => files'[f] = "whole"
    BY <2>0, <2>3 DEF TypeOK, SaveState, FillFile
  <2>4. ASSUME NEW p \in Operator, OpenFile(p)
        PROVE  \A f \in File : files[f] = "whole" => files'[f] = "whole"
    BY <1>3, <2>0, <2>4, OpensUnfinished DEF TypeOK
  <2> QED
    BY <1>3, <2>1, <2>2, <2>3, <2>4 DEF Next, Call
<1> QED
  BY <1>1, <1>2, <1>3, PTL DEF Spec, WriteOnce
=============================================================================

---------------------------- MODULE RunLockProofs ---------------------------
(***************************************************************************)
(* Mutual exclusion of RunLock for every set of processes, on a file       *)
(* system that refuses to delete an open file.  MutualExclusion alone is   *)
(* not inductive: a contender may create the lock only because the file is *)
(* gone, so what has to be kept is that the file of a holder is there.     *)
(***************************************************************************)
EXTENDS RunLock, TLAPS

\* Type correctness of the lock file, the control state and the fault count,
\* whatever the file system does.
THEOREM LockTypeCorrect == LockSpec => []LockTypeOK
<1>1. LockInit => LockTypeOK
  BY FaultsAssumption DEF LockInit, LockTypeOK, Labels
<1>2. LockTypeOK /\ [LockNext]_lockVars => LockTypeOK'
  <2> SUFFICES ASSUME LockTypeOK, [LockNext]_lockVars
               PROVE  LockTypeOK'
    OBVIOUS
  <2> USE DEF LockTypeOK, Labels, LockFile, Move
  <2>1. CASE GrowOld
    BY <2>1 DEF GrowOld
  <2>2. ASSUME NEW p \in Proc, Attempt(p)
        PROVE  LockTypeOK'
    <3>1. Dropped(p) \in LockFile \union {None}
      BY DEF Dropped, Owns
    <3>2. CASE Acquire(p) \/ Recreate(p)
      <4>1. [owner |-> p, open |-> TRUE, old |-> FALSE] \in LockFile
        OBVIOUS
      <4>2. place' \in [Proc -> Labels] /\ faults' = faults
        BY <3>2 DEF Acquire, Recreate
      <4> QED
        BY <3>2, <4>1, <4>2 DEF Acquire, Recreate, Created
    <3>3. CASE Contend(p) \/ GiveUp(p) \/ FindOld(p)
      BY <3>3 DEF Contend, GiveUp, FindOld
    <3>4. CASE Break(p) \/ BreakRefused(p) \/ RecreateRefused(p)
      BY <3>4 DEF Break, BreakRefused, RecreateRefused
    <3>5. CASE LogStart(p) \/ CloseLock(p)
      BY <3>1, <3>5 DEF LogStart, CloseLock
    <3>6. CASE RemoveLock(p) \/ RemoveRefused(p)
      BY <3>6 DEF RemoveLock, RemoveRefused
    <3> QED
      BY <2>2, <3>2, <3>3, <3>4, <3>5, <3>6 DEF Attempt
  <2>3. ASSUME NEW p \in Proc, LogStartFails(p) \/ Kill(p)
        PROVE  LockTypeOK'
    <3>1. Dropped(p) \in LockFile \union {None}
      BY DEF Dropped, Owns
    <3> QED
      BY <2>3, <3>1 DEF LogStartFails, Kill
  <2>4. CASE UNCHANGED lockVars
    BY <2>4 DEF lockVars
  <2> QED
    BY <2>1, <2>2, <2>3, <2>4 DEF LockNext
<1> QED
  BY <1>1, <1>2, PTL DEF LockSpec

-----------------------------------------------------------------------------
\* A step of p leaves alone the lock of any other holder q: its file is open,
\* so the system refuses to delete it, and no file can be created over it.
LEMMA OthersKeepTheirLock ==
    ASSUME PinOpenFiles, LockTypeOK, HolderOwnsLock,
           NEW p \in Proc, NEW q \in Proc, p # q, Holds(q),
           Attempt(p) \/ LogStartFails(p) \/ Kill(p)
    PROVE  file' = file /\ place'[q] = place[q] /\ ~Holds(p)'
<1>1. file # None /\ file.owner = q /\ file.open
  BY DEF HolderOwnsLock, Owns
<1>2. ~Absent /\ Pinned /\ Dropped(p) = file
  BY <1>1 DEF Absent, Pinned, Dropped, Owns
<1>3. ~Holds(p)
  BY <1>1 DEF HolderOwnsLock, Owns
<1> USE DEF Move, Holds, LockTypeOK
<1>4. CASE Acquire(p) \/ Contend(p) \/ GiveUp(p) \/ FindOld(p)
  BY <1>2, <1>4 DEF Acquire, Contend, GiveUp, FindOld
<1>5. CASE Break(p) \/ BreakRefused(p) \/ Recreate(p) \/ RecreateRefused(p)
  BY <1>2, <1>5 DEF Break, BreakRefused, Recreate, RecreateRefused
<1>6. CASE LogStart(p) \/ CloseLock(p) \/ RemoveLock(p) \/ RemoveRefused(p)
  BY <1>2, <1>3, <1>6 DEF LogStart, CloseLock, RemoveLock, RemoveRefused
<1>7. CASE LogStartFails(p) \/ Kill(p)
  BY <1>2, <1>3, <1>7 DEF LogStartFails, Kill
<1> QED
  BY <1>4, <1>5, <1>6, <1>7 DEF Attempt

\* A step of p that leaves p a holder leaves it with its own open file.
LEMMA HolderKeepsItsLock ==
    ASSUME LockTypeOK, HolderOwnsLock,
           NEW p \in Proc,
           Attempt(p) \/ LogStartFails(p) \/ Kill(p),
           Holds(p)'
    PROVE  (Owns(p) /\ file.open)'
<1> USE DEF Move, Holds, LockTypeOK
<1>1. CASE Acquire(p) \/ Recreate(p)
  <2>1. file' = [owner |-> p, open |-> TRUE, old |-> FALSE]
    BY <1>1 DEF Acquire, Recreate, Created
  <2>2. [owner |-> p, open |-> TRUE, old |-> FALSE] \in LockFile
    BY DEF LockFile
  <2>3. file' # None
    BY <2>1, <2>2, FileAssumption
  <2> QED
    BY <2>1, <2>3 DEF Owns
<1>2. CASE Contend(p) \/ GiveUp(p) \/ FindOld(p)
  BY <1>2 DEF Contend, GiveUp, FindOld
<1>3. CASE Break(p) \/ BreakRefused(p) \/ RecreateRefused(p)
  BY <1>3 DEF Break, BreakRefused, RecreateRefused
<1>4. CASE LogStart(p)
  BY <1>4 DEF LogStart, HolderOwnsLock, Owns
<1>5. CASE CloseLock(p) \/ RemoveLock(p) \/ RemoveRefused(p)
  BY <1>5 DEF CloseLock, RemoveLock, RemoveRefused
<1>6. CASE LogStartFails(p) \/ Kill(p)
  BY <1>6 DEF LogStartFails, Kill
<1> QED
  BY <1>1, <1>2, <1>3, <1>4, <1>5, <1>6 DEF Attempt

\* Every holder's lock file is there and pinned by it, if open files are.
THEOREM HolderOwnsLockAlways ==
    ASSUME PinOpenFiles
    PROVE  LockSpec => []HolderOwnsLock
<1>1. LockInit => HolderOwnsLock
  BY DEF LockInit, HolderOwnsLock, Holds
<1>2. LockTypeOK /\ HolderOwnsLock /\ [LockNext]_lockVars => HolderOwnsLock'
  <2> SUFFICES ASSUME LockTypeOK, HolderOwnsLock, [LockNext]_lockVars,
                      NEW q \in Proc, Holds(q)'
               PROVE  (Owns(q) /\ file.open)'
    BY DEF HolderOwnsLock
  <2>1. CASE GrowOld
    <3>1. file \in LockFile /\ file' = [file EXCEPT !.old = TRUE] /\ place' = place
      BY <2>1 DEF GrowOld, LockTypeOK
    <3>2. file.owner = q /\ file.open
      BY <3>1 DEF HolderOwnsLock, Owns, Holds
    <3>3. file' \in LockFile /\ file'.owner = file.owner /\ file'.open = file.open
      BY <3>1 DEF LockFile
    <3> QED
      BY <3>2, <3>3, FileAssumption DEF Owns
  <2>2. ASSUME NEW p \in Proc, Attempt(p) \/ LogStartFails(p) \/ Kill(p)
        PROVE  (Owns(q) /\ file.open)'
    <3>1. CASE p = q
      BY <2>2, <3>1, HolderKeepsItsLock
    <3>2. CASE p # q
      <4>1. place'[q] = place[q]
        BY <2>2, <3>2 DEF LockTypeOK, Move, Attempt, Acquire, Contend, GiveUp, FindOld,
           Break, BreakRefused, Recreate, RecreateRefused, LogStart, CloseLock,
           RemoveLock, RemoveRefused, LogStartFails, Kill
      <4>2. Holds(q)
        BY <4>1 DEF Holds
      <4>3. file' = file
        BY <2>2, <3>2, <4>2, OthersKeepTheirLock
      <4> QED
        BY <4>2, <4>3 DEF HolderOwnsLock, Owns
    <3> QED
      BY <3>1, <3>2
  <2>3. CASE UNCHANGED lockVars
    BY <2>3 DEF lockVars, HolderOwnsLock, Owns, Holds
  <2> QED
    BY <2>1, <2>2, <2>3 DEF LockNext
<1> QED
  BY <1>1, <1>2, LockTypeCorrect, PTL DEF LockSpec

\* No two runs of the engine overlap, for any number of processes, however
\* they race for an old lock and wherever they die.
THEOREM MutualExclusionAlways ==
    ASSUME PinOpenFiles
    PROVE  LockSpec => []MutualExclusion
<1>1. HolderOwnsLock => MutualExclusion
  BY DEF HolderOwnsLock, MutualExclusion, Owns
<1> QED
  BY <1>1, HolderOwnsLockAlways, PTL
=============================================================================

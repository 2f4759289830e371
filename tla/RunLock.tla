------------------------------- MODULE RunLock ------------------------------
(***************************************************************************)
(* scheduled-run.lock, the file that keeps runs of the demo-shadow engine  *)
(* apart: run_scheduled and _acquire_lock in demo_shadow_scheduled_cli.py, *)
(* called once by a scheduled process or again and again by the persistent *)
(* worker of demo_shadow_worker_cli.py.                                    *)
(*                                                                         *)
(* The lock is the file's existence.  Its age is all a contender knows of  *)
(* its owner: older than ten minutes, it is deleted and created again.     *)
(* Nothing in the code says whose file is deleted; what does is the file   *)
(* system.  PinOpenFiles is Windows, where a file that a live process has  *)
(* open cannot be deleted; without it any process can delete it.           *)
(***************************************************************************)
EXTENDS Integers, FiniteSets

CONSTANTS
    Proc,          \* processes that may call run_scheduled
    Worker,        \* those that live on when a call raises
    PinOpenFiles,  \* TRUE on Windows
    None,          \* no file
    MaxFaults      \* bound: processes killed and log rows that cannot be written

ASSUME ProcAssumption == Worker \subseteq Proc /\ None \notin Proc
ASSUME PinAssumption == PinOpenFiles \in BOOLEAN
ASSUME FaultsAssumption == MaxFaults \in Nat

VARIABLES
    file,    \* the lock file: who created it, is it still open, is it old
    place,      \* where each process stands in run_scheduled
    faults   \* faults so far

lockVars == <<file, place, faults>>

LockFile == [owner : Proc, open : BOOLEAN, old : BOOLEAN]
ASSUME FileAssumption == None \notin LockFile

Absent == file = None
Pinned == file # None /\ PinOpenFiles /\ file.open

\* Only the process that made the file holds it open: it is the one that
\* closes it, or loses the descriptor by exiting.
Owns(p) == file # None /\ file.owner = p

Move(p, label) == place' = [place EXCEPT ![p] = label]
\* Mutation: the descriptor is closed at once.
CreatedAndClosed(p) == file' = [owner |-> p, open |-> FALSE, old |-> FALSE]

Created(p) == file' = [owner |-> p, open |-> TRUE, old |-> FALSE]

\* The file as it is left when p closes its descriptor, or no longer exists.
Dropped(p) == IF Owns(p) THEN [file EXCEPT !.open = FALSE] ELSE file

-----------------------------------------------------------------------------
LockInit ==
    /\ file = None
    /\ place = [p \in Proc |-> "idle"]
    /\ faults = 0

\* O_CREAT with O_EXCL: the file is made, or it is already there.
Acquire(p) ==
    /\ place[p] = "idle" /\ Absent
    /\ Created(p)
    /\ Move(p, "acquired")
    /\ UNCHANGED faults

Contend(p) ==
    /\ place[p] = "idle" /\ ~Absent
    /\ Move(p, "contending")
    /\ UNCHANGED <<file, faults>>

\* The age is read.  A file that went away meanwhile raises, a young one
\* ends the call with skipped_overlap; both leave everything as it is.
GiveUp(p) ==
    /\ place[p] = "contending"
    /\ file # None => ~file.old
    /\ Move(p, "idle")
    /\ UNCHANGED <<file, faults>>

\* Mutation: an old lock is respected like a young one.
FindOldAndGiveUp(p) ==
    /\ place[p] = "contending" /\ file # None /\ file.old
    /\ Move(p, "idle")
    /\ UNCHANGED <<file, faults>>

FindOld(p) ==
    /\ place[p] = "contending" /\ file # None /\ file.old
    /\ Move(p, "breaking")
    /\ UNCHANGED <<file, faults>>

\* Whatever file is there now is deleted, unless the system refuses.
Break(p) ==
    /\ place[p] = "breaking" /\ ~Pinned
    /\ file' = None
    /\ Move(p, "recreating")
    /\ UNCHANGED faults

BreakRefused(p) ==
    /\ place[p] = "breaking" /\ Pinned
    /\ Move(p, "idle")
    /\ UNCHANGED <<file, faults>>

Recreate(p) ==
    /\ place[p] = "recreating" /\ Absent
    /\ Created(p)
    /\ Move(p, "acquired")
    /\ UNCHANGED faults

RecreateRefused(p) ==
    /\ place[p] = "recreating" /\ ~Absent
    /\ Move(p, "idle")
    /\ UNCHANGED <<file, faults>>

\* The "started" row is appended before the try block.
LogStart(p) ==
    /\ place[p] = "acquired"
    /\ Move(p, "running")
    /\ UNCHANGED <<file, faults>>

\* When that append raises nothing cleans up: the worker goes on with the
\* descriptor open, any other process exits and loses it.
LogStartFails(p) ==
    /\ place[p] = "acquired" /\ faults < MaxFaults
    /\ faults' = faults + 1
    /\ file' = IF p \in Worker THEN file ELSE Dropped(p)
    /\ Move(p, "idle")

\* The engine returned or raised: the descriptor is closed ...
CloseLock(p) ==
    /\ place[p] = "running"
    /\ file' = Dropped(p)
    /\ Move(p, "closed")
    /\ UNCHANGED faults

\* ... and the lock file deleted, whoever made it.
RemoveLock(p) ==
    /\ place[p] = "closed" /\ ~Pinned
    /\ file' = None
    /\ Move(p, "idle")
    /\ UNCHANGED faults

RemoveRefused(p) ==
    /\ place[p] = "closed" /\ Pinned
    /\ Move(p, "idle")
    /\ UNCHANGED <<file, faults>>

\* A process is killed (the machine restarts): the system closes its files.
Kill(p) ==
    /\ faults < MaxFaults
    /\ faults' = faults + 1
    /\ file' = Dropped(p)
    /\ Move(p, "idle")

\* Ten minutes pass.
GrowOld ==
    /\ file # None /\ ~file.old
    /\ file' = [file EXCEPT !.old = TRUE]
    /\ UNCHANGED <<place, faults>>

Attempt(p) ==
    \/ Acquire(p) \/ Contend(p) \/ GiveUp(p) \/ FindOld(p)
    \/ Break(p) \/ BreakRefused(p) \/ Recreate(p) \/ RecreateRefused(p)
    \/ LogStart(p) \/ CloseLock(p) \/ RemoveLock(p) \/ RemoveRefused(p)

LockNext ==
    \/ GrowOld
    \/ \E p \in Proc : Attempt(p) \/ LogStartFails(p) \/ Kill(p)

LockSpec == LockInit /\ [][LockNext]_lockVars

\* Processes are scheduled again and again and do not stop on the way.
LockFairSpec == LockSpec /\ WF_lockVars(GrowOld) /\ \A p \in Proc : WF_lockVars(Attempt(p))

-----------------------------------------------------------------------------
Labels == {"idle", "contending", "breaking", "recreating", "acquired", "running", "closed"}

LockTypeOK ==
    /\ file \in LockFile \union {None}
    /\ place \in [Proc -> Labels]
    /\ faults \in Nat

Holds(p) == place[p] \in {"acquired", "running"}

\* Two runs of the engine never overlap, through every race for an old lock,
\* however long a run takes and whoever's lock file run_scheduled deletes
\* when it is done; ShadowEngine is about one run at a time because of it.
MutualExclusion == \A p, q \in Proc : Holds(p) /\ Holds(q) => p = q

\* The strengthening that is inductive: the lock file is there, was made by
\* the holder and is pinned by it.
HolderOwnsLock == \A p \in Proc : Holds(p) => Owns(p) /\ file.open

\* The descriptor a live worker lost track of.
Leaked == file # None /\ file.open /\ ~Holds(file.owner)

\* A lock left behind by a process that died does not stop the campaign: as
\* long as no worker leaks its descriptor, runs go on for ever.
RunsGoOn == <>[](~Leaked) => []<>(\E p \in Proc : place[p] = "running")
=============================================================================

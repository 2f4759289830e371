----------------------------- MODULE MCCampaign -----------------------------
(***************************************************************************)
(* A campaign's directory and its lock, one scene at a time.  In the scene *)
(* of the lock the persistent worker and two processes that someone starts *)
(* besides contend for it, and the directory is not touched; in the scene  *)
(* of the directory three operators call for it, two calls may die, and    *)
(* the engine runs in it are the worker's, which holds the lock.           *)
(***************************************************************************)
EXTENDS CampaignRoot, RunLock

CONSTANTS worker, other, manual
MCProc == {worker, other, manual}
MCWorker == {worker}

VARIABLE scene
allVars == <<vars, lockVars, scene>>

LockHeld == /\ file = [owner |-> worker, open |-> TRUE, old |-> FALSE] /\ faults = 0
            /\ place = [p \in Proc |-> IF p = worker THEN "running" ELSE "idle"]
MCInit == /\ Init
          /\ \/ scene = "lock" /\ LockInit /\ kind = "initialize"
             \/ scene = "directory" /\ LockHeld

Lock(step) == scene = "lock" /\ step /\ UNCHANGED <<vars, scene>>
Directory(step) == scene = "directory" /\ step /\ UNCHANGED <<lockVars, scene>>

MCNext == \/ scene = "lock" /\ LockNext /\ UNCHANGED <<vars, scene>>
          \/ scene = "directory" /\ Next /\ UNCHANGED <<lockVars, scene>>
\* LockFairSpec and FairSpec ask for the same, each in its scene.
MCFairness ==
  /\ WF_allVars(Lock(GrowOld))
  /\ \A p \in Proc : WF_allVars(Lock(Attempt(p)))
  /\ \A p \in Operator : WF_allVars(Directory(Call(p)))
MCSpec == MCInit /\ [][MCNext]_allVars /\ MCFairness
=============================================================================

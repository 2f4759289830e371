---------------------------- MODULE CampaignRoot ----------------------------
(***************************************************************************)
(* The directory of a demo-shadow campaign, from the call that creates it  *)
(* to the engine runs in it: initialize_demo_shadow_protocol, which starts *)
(* a campaign, rollover_demo_shadow, which starts the successor of one,    *)
(* and verify_bootstrap, which every engine run of a successor must pass.  *)
(*                                                                         *)
(* The name of the directory is a hash of its contents, so two calls with  *)
(* the same evidence mean the same directory.  Its files are written in    *)
(* place, one after the other, and protocol.json comes last: whoever reads *)
(* it takes the campaign to be complete.  A call may die between any two   *)
(* steps, and in the middle of a file.                                     *)
(***************************************************************************)
EXTENDS Integers, Sequences

CONSTANTS
    Operator,   \* processes that call initialize or rollover
    MaxCrashes  \* bound: calls that die

ASSUME CrashesAssumption == MaxCrashes \in Nat

VARIABLES
    kind,     \* which of the two calls this directory is made by
    dir,      \* does the directory exist
    files,    \* how much of each file is there
    schema,   \* schema_version in engine-state.json, 0 without that file
    events,   \* protocol_superseded rows in the ledger of the parent
    pc,       \* where each operator stands
    written,  \* files each operator has finished
    handed,   \* operators a protocol was returned to
    engine,   \* the engine of this campaign
    crashes   \* calls that died so far

vars == <<kind, dir, files, schema, events, pc, written, handed, engine, crashes>>

File == {"ledgers", "certificate", "state", "protocol"}

\* Mutation: the protocol is written before the files it speaks of.
ProtocolFirst == IF kind = "rollover"
                 THEN <<"ledgers", "protocol", "certificate", "state">>
                 ELSE <<"protocol", "ledgers">>

\* The files a call writes, in this order (the five ledgers count as one).
Order == IF kind = "rollover"
         THEN <<"ledgers", "certificate", "state", "protocol">>
         ELSE <<"ledgers", "protocol">>

Complete == files["protocol"] = "whole"

Goto(p, label) == pc' = [pc EXCEPT ![p] = label]

-----------------------------------------------------------------------------
Init ==
    /\ kind \in {"initialize", "rollover"}
    /\ dir = FALSE
    /\ files = [f \in File |-> "absent"]
    /\ schema = 0
    /\ events = 0
    /\ pc = [p \in Operator |-> "idle"]
    /\ written = [p \in Operator |-> 0]
    /\ handed = {}
    /\ engine = "idle"
    /\ crashes = 0

\* root.exists()
Look(p) ==
    /\ pc[p] = "idle"
    /\ Goto(p, IF dir THEN "found" ELSE "missing")
    /\ UNCHANGED <<kind, dir, files, schema, events, written, handed, engine, crashes>>

\* The directory is there: its protocol.json is returned as it is ...
TakeExisting(p) ==
    /\ pc[p] = "found" /\ Complete
    /\ handed' = handed \union {p}
    /\ Goto(p, "idle")
    /\ UNCHANGED <<kind, dir, files, schema, events, written, engine, crashes>>

\* ... and if that is missing or cut off, reading it raises.
ExistingUnreadable(p) ==
    /\ pc[p] = "found" /\ ~Complete
    /\ Goto(p, "idle")
    /\ UNCHANGED <<kind, dir, files, schema, events, written, handed, engine, crashes>>

\* Mutation: mkdir(exist_ok=True)
MakeRootAnyway(p) ==
    /\ pc[p] = "missing"
    /\ dir' = TRUE
    /\ written' = [written EXCEPT ![p] = 0]
    /\ Goto(p, "open")
    /\ UNCHANGED <<kind, files, schema, events, handed, engine, crashes>>

\* mkdir(exist_ok=False)
MakeRoot(p) ==
    /\ pc[p] = "missing" /\ ~dir
    /\ dir' = TRUE
    /\ written' = [written EXCEPT ![p] = 0]
    /\ Goto(p, "open")
    /\ UNCHANGED <<kind, files, schema, events, handed, engine, crashes>>

MakeRootRefused(p) ==
    /\ pc[p] = "missing" /\ dir
    /\ Goto(p, "idle")
    /\ UNCHANGED <<kind, dir, files, schema, events, written, handed, engine, crashes>>

\* write_text opens, and so truncates, the next file and then fills it.
OpenFile(p) ==
    /\ pc[p] = "open"
    /\ files' = [files EXCEPT ![Order[written[p] + 1]] = "torn"]
    /\ Goto(p, "fill")
    /\ UNCHANGED <<kind, dir, schema, events, written, handed, engine, crashes>>

\* Mutation: the event is forgotten with the protocol written.
FillAndReturn(p) ==
    /\ pc[p] = "fill"
    /\ LET file == Order[written[p] + 1]
       IN  /\ files' = [files EXCEPT ![file] = "whole"]
           /\ schema' = IF file = "state" THEN 3 ELSE schema
    /\ written' = [written EXCEPT ![p] = @ + 1]
    /\ Goto(p, IF written[p] + 1 < Len(Order) THEN "open" ELSE "idle")
    /\ UNCHANGED <<kind, dir, events, handed, engine, crashes>>

FillFile(p) ==
    /\ pc[p] = "fill"
    /\ LET file == Order[written[p] + 1]
       IN  /\ files' = [files EXCEPT ![file] = "whole"]
           /\ schema' = IF file = "state" THEN 3 ELSE schema
    /\ written' = [written EXCEPT ![p] = @ + 1]
    /\ Goto(p, IF written[p] + 1 < Len(Order) THEN "open" ELSE "event")
    /\ UNCHANGED <<kind, dir, events, handed, engine, crashes>>

\* A rollover tells the ledger of the parent; the protocol is returned.
Return(p) ==
    /\ pc[p] = "event"
    /\ events' = IF kind = "rollover" THEN events + 1 ELSE events
    /\ handed' = handed \union {p}
    /\ Goto(p, "idle")
    /\ UNCHANGED <<kind, dir, files, schema, written, engine, crashes>>

Die(p) ==
    /\ pc[p] # "idle" /\ crashes < MaxCrashes
    /\ crashes' = crashes + 1
    /\ Goto(p, "idle")
    /\ UNCHANGED <<kind, dir, files, schema, events, written, handed, engine>>

-----------------------------------------------------------------------------
(* The engine of the campaign, as far as its state file goes               *)

\* verify_bootstrap asks a bootstrapped campaign for its certificate and for
\* the schema version of its state.
BootstrapVerified ==
    kind = "rollover" => files["certificate"] = "whole" /\ schema >= 3

StartRun ==
    /\ engine # "running" /\ Complete
    /\ engine' = IF BootstrapVerified THEN "running" ELSE "refused"
    /\ UNCHANGED <<kind, dir, files, schema, events, pc, written, handed, crashes>>

\* A run that read quotes saves its state, with the schema version it knows.
SaveState ==
    /\ engine = "running"
    /\ schema' = 2
    /\ files' = [files EXCEPT !["state"] = "whole"]
    /\ engine' = "idle"
    /\ UNCHANGED <<kind, dir, events, pc, written, handed, crashes>>

\* A run without new quotes, or one that dies, leaves the state as it was.
EndWithoutSave ==
    /\ engine = "running"
    /\ engine' = "idle"
    /\ UNCHANGED <<kind, dir, files, schema, events, pc, written, handed, crashes>>

Call(p) ==
    \/ Look(p) \/ TakeExisting(p) \/ ExistingUnreadable(p)
    \/ MakeRoot(p) \/ MakeRootRefused(p) \/ OpenFile(p) \/ FillFile(p) \/ Return(p)

Next ==
    \/ StartRun \/ SaveState \/ EndWithoutSave
    \/ \E p \in Operator : Call(p) \/ Die(p)

Spec == Init /\ [][Next]_vars

\* A process that was started goes on until it returns or dies.
FairSpec == Spec /\ \A p \in Operator : WF_vars(Call(p))

-----------------------------------------------------------------------------
TypeOK ==
    /\ kind \in {"initialize", "rollover"}
    /\ dir \in BOOLEAN
    /\ files \in [File -> {"absent", "torn", "whole"}]
    /\ schema \in {0, 2, 3}
    /\ events \in Nat
    /\ pc \in [Operator -> {"idle", "found", "missing", "open", "fill", "event"}]
    /\ written \in [Operator -> 0..4]
    /\ handed \subseteq Operator
    /\ engine \in {"idle", "running", "refused"}
    /\ crashes \in Nat

\* protocol.json is the commit point: once it can be read, or was returned to
\* anyone, everything the engine needs is there, whoever died on the way and
\* however many calls raced for the directory.
CommitPoint ==
    Complete \/ handed # {} =>
        /\ \A i \in 1..Len(Order) : files[Order[i]] = "whole"
        /\ kind = "rollover" => schema # 0

\* The parent is superseded once, and only by a campaign that is complete.
SupersededOnce ==
    /\ events <= 1
    /\ events = 1 => kind = "rollover" /\ Complete

\* A file that is complete stays: no call ever truncates what another one,
\* or the engine, has written.
WriteOnce == [][\A f \in File : files[f] = "whole" => files'[f] = "whole"]_vars

\* Unless a call dies, a complete successor is made known to its parent.
SupersessionRecorded == (kind = "rollover" /\ Complete) ~> (events = 1 \/ crashes > 0)

\* What verify_bootstrap requires of the state of a bootstrapped campaign.
BootstrapHolds == kind = "rollover" /\ Complete => schema >= 3
=============================================================================

-------------------------- MODULE ExperimentRegistry --------------------------
(***************************************************************************)
(* The labs and their registry, one line of JSON for each experiment.  A   *)
(* line carries its number, a hash of its own and the hash of the line     *)
(* before it; the whole file is checked whenever it is read.  Nothing      *)
(* locks it.  Some labs write their report once and return the stored one  *)
(* to a later call; others write it anew on every call.                    *)
(***************************************************************************)
EXTENDS Integers, Sequences, SequencesExt

CONSTANTS Labs, WriteOnce, Researchers, MaxRuns, MaxRunDeaths

ASSUME LabsAssumption == Labs # {}

VARIABLES log,      \* the lines of experiment-registry.jsonl
          report,   \* report.json of each lab: "none", "dir", "cut", "whole"
          run,      \* the run of each researcher, and whether one ever ran beside another
          runs, runDeaths

registryVars == <<log, report, run, runs, runDeaths>>

NoRun == [pc |-> "idle", lab |-> CHOOSE l \in Labs : TRUE, read |-> <<>>, error |-> "new",
          overlapped |-> FALSE]
Hash(line) == IF line = <<>> THEN 0 ELSE line[1].hash
LastOf(lines) == IF lines = <<>> THEN <<>> ELSE <<Last(lines)>>

\* read_registry: any line that does not fit makes the registry unreadable.
Readable(lines) ==
  \A i \in DOMAIN lines :
    /\ lines[i].whole /\ lines[i].sequence = i
    /\ lines[i].previous = Hash(LastOf(SubSeq(lines, 1, i - 1)))

CutOff == \E i \in DOMAIN log : ~log[i].whole

Stop(c, error) == run' = [run EXCEPT ![c].pc = "idle", ![c].error = error]
Proceed(c, pc) == run' = [run EXCEPT ![c].pc = pc]

Start(c) ==
  /\ run[c].pc = "idle" /\ runs < MaxRuns /\ runs' = runs + 1
  /\ \E l \in Labs :
       LET others == {o \in Researchers \ {c} : run[o].pc # "idle"}
       IN  run' = [o \in Researchers |->
             IF o = c THEN [NoRun EXCEPT !.pc = IF l \in WriteOnce THEN "look" ELSE "make",
                                         !.lab = l,
                                         !.overlapped = run[c].overlapped \/ others # {}]
             ELSE [run[o] EXCEPT !.overlapped = @ \/ o \in others]]
  /\ UNCHANGED <<log, report, runDeaths>>

\* A stored report is returned, and registered again.
LookForReport(c) ==
  /\ run[c].pc = "look"
  /\ CASE report[run[c].lab] = "whole" -> Proceed(c, "read")
       [] report[run[c].lab] = "cut" -> Stop(c, "report")
       [] OTHER -> Proceed(c, "make")
  /\ UNCHANGED <<log, report, runs, runDeaths>>

MakeDirectory(c) ==
  LET l == run[c].lab
  IN  /\ run[c].pc = "make"
      /\ IF l \in WriteOnce /\ report[l] # "none"
         THEN Stop(c, "report") /\ UNCHANGED report
         ELSE /\ report' = [report EXCEPT ![l] = IF @ = "none" THEN "dir" ELSE @]
              /\ Proceed(c, "open")
      /\ UNCHANGED <<log, runs, runDeaths>>

OpenReport(c) ==
  /\ run[c].pc = "open" /\ Proceed(c, "fill")
  /\ report' = [report EXCEPT ![run[c].lab] = "cut"]
  /\ UNCHANGED <<log, runs, runDeaths>>

FillReport(c) ==
  /\ run[c].pc = "fill" /\ Proceed(c, "read")
  /\ report' = [report EXCEPT ![run[c].lab] = "whole"]
  /\ UNCHANGED <<log, runs, runDeaths>>

\* An experiment that is registered is not registered again.
ReadLogAsNew(c) ==  \* whatever is registered
  /\ run[c].pc = "read"
  /\ IF ~Readable(log) THEN Stop(c, "registry")
     ELSE run' = [run EXCEPT ![c].pc = "append", ![c].read = log]
  /\ UNCHANGED <<log, report, runs, runDeaths>>

ReadLog(c) ==
  /\ run[c].pc = "read"
  /\ CASE ~Readable(log) -> Stop(c, "registry")
       [] Readable(log) /\ \E i \in DOMAIN log : log[i].lab = run[c].lab -> Stop(c, "")
       [] OTHER -> run' = [run EXCEPT ![c].pc = "append", ![c].read = log]
  /\ UNCHANGED <<log, report, runs, runDeaths>>

\* Appended in one write; behind a line that was cut off it is part of it.
Line(c, whole) ==
  [lab |-> run[c].lab, sequence |-> Len(run[c].read) + 1, hash |-> Len(log) + 1,
   previous |-> Hash(LastOf(run[c].read)), whole |-> whole]
AppendLine(c) ==
  /\ run[c].pc = "append" /\ Stop(c, "")
  /\ log' = IF CutOff THEN log ELSE Append(log, Line(c, TRUE))
  /\ UNCHANGED <<report, runs, runDeaths>>

DieRegistering(c) ==
  /\ run[c].pc # "idle" /\ runDeaths < MaxRunDeaths /\ runDeaths' = runDeaths + 1
  /\ Stop(c, "died")
  /\ \/ UNCHANGED log
     \/ /\ run[c].pc = "append" /\ ~CutOff
        /\ log' = Append(log, Line(c, FALSE))
  /\ UNCHANGED <<report, runs>>

RegistryInit ==
  /\ log = <<>> /\ report = [l \in Labs |-> "none"]
  /\ run = [c \in Researchers |-> NoRun] /\ runs = 0 /\ runDeaths = 0

Lab(c) == \/ Start(c) \/ LookForReport(c) \/ MakeDirectory(c) \/ OpenReport(c)
          \/ FillReport(c) \/ ReadLog(c) \/ AppendLine(c) \/ DieRegistering(c)
RegistryNext == \E c \in Researchers : Lab(c)
RegistrySpec == RegistryInit /\ [][RegistryNext]_registryVars

----------------------------------------------------------------------------
(* Properties.                                                             *)

\* A registry that can be read counts each experiment once, and those that
\* write their report once have it, whatever calls ran at the same time or
\* died; without a death or two calls at once it can always be read, and a call
\* that ends well has registered its experiment
\* (experiment_registry.py:43-63, sequence_lab.py:175-200).
RegistryHolds ==
  /\ Readable(log) =>
       /\ \A i, j \in DOMAIN log : i # j => log[i].lab # log[j].lab
       /\ \A i \in DOMAIN log : log[i].lab \in WriteOnce => report[log[i].lab] = "whole"
  /\ (\A c \in Researchers : ~run[c].overlapped) /\ runDeaths = 0 =>
       /\ Readable(log)
       /\ \A c \in Researchers : run[c].error \in {"", "new"}
       /\ \A c \in Researchers : run[c].pc = "idle" /\ run[c].error = "" =>
            \E i \in DOMAIN log : log[i].lab = run[c].lab
----------------------------------------------------------------------------
(* What makes it inductive.                                                *)

Entry == [lab : Labs, sequence : Nat, hash : Nat, previous : Nat, whole : BOOLEAN]
\* Every variable keeps its type.
RegistryTypeOK ==
  /\ log \in Seq(Entry) /\ report \in [Labs -> {"none", "dir", "cut", "whole"}]
  /\ run \in [Researchers -> [pc : {"idle", "look", "make", "open", "fill", "read", "append"},
                          lab : Labs, read : Seq(Entry), overlapped : BOOLEAN,
                          error : {"", "new", "report", "registry", "died"}]]
  /\ runs \in Nat /\ runDeaths \in Nat

\* Whoever is about to append has read a beginning of the log without its lab.
LogInvariant ==
  /\ \A c \in Researchers : run[c].pc = "append" =>
       /\ Len(run[c].read) <= Len(log)
       /\ \A i \in DOMAIN run[c].read : run[c].read[i] = log[i] /\ log[i].lab # run[c].lab
  /\ Readable(log) => \A i, j \in DOMAIN log : i # j => log[i].lab # log[j].lab

\* One call at most writes a report that is written once; who is behind it, in
\* its call or in the log, has it.
Writing(c) == run[c].pc \in {"open", "fill"}
ReportInvariant ==
  /\ \A c \in Researchers : run[c].lab \in WriteOnce =>
       /\ run[c].pc = "open" => report[run[c].lab] = "dir"
       /\ run[c].pc = "fill" => report[run[c].lab] = "cut"
       /\ run[c].pc \in {"read", "append"} => report[run[c].lab] = "whole"
       /\ \A o \in Researchers \ {c} : Writing(c) /\ Writing(o) => run[o].lab # run[c].lab
  /\ \A i \in DOMAIN log : log[i].lab \in WriteOnce => report[log[i].lab] = "whole"

\* Without a death and two calls at once there is no half report and no refusal.
Quiet == runDeaths = 0 /\ \A c \in Researchers : ~run[c].overlapped
QuietInvariant == Quiet =>
  /\ Readable(log)
  /\ \A l \in Labs : \/ report[l] \in {"none", "whole"}
                      \/ \E c \in Researchers : Writing(c) /\ run[c].lab = l
  /\ \A c \in Researchers :
       /\ run[c].error \in {"", "new"}
       /\ run[c].pc # "idle" => \A o \in Researchers \ {c} : run[o].pc = "idle"
       /\ run[c].pc = "make" /\ run[c].lab \in WriteOnce => report[run[c].lab] = "none"
       /\ run[c].pc = "append" => run[c].read = log
       /\ run[c].pc = "idle" /\ run[c].error = "" =>
            \E i \in DOMAIN log : log[i].lab = run[c].lab
=============================================================================

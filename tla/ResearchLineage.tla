---------------------------- MODULE ResearchLineage ----------------------------
(***************************************************************************)
(* What is computed from what.  A data set is named by a hash of the names *)
(* of its sources and of its configuration, is built in a .partial         *)
(* directory and moved to its place at once; a report is named alike.      *)
(* Before data sets are joined, a command compares the sources that their  *)
(* manifests name.  Here an artifact is its name and the names of all its  *)
(* sources; the protocol of the report files is that of                    *)
(* ExperimentRegistry, so a report appears in one step.                    *)
(***************************************************************************)
EXTENDS Integers, Sequences, FiniteSets, SequencesExt

CONSTANTS Writers, MaxWrites, FeatureConfigs

VARIABLES shelf,    \* the artifacts whose manifest or report is there
          partial,  \* the names of .partial directories
          writer,   \* the call of each writer
          writes, killed

lineageVars == <<shelf, partial, writer, writes, killed>>

Name(kind, of) == [kind |-> kind, of |-> of]
NameOf(artifact) == artifact.name
Artifact(kind, named, sources) ==
  [name |-> Name(kind, [i \in DOMAIN named |-> NameOf(named[i])]),
   from |-> {NameOf(source) : source \in sources}]
Named(kind, sources) == Artifact(kind, sources, Range(sources))
Of(s, kind) == {a \in s : a.name.kind = kind}
\* The manifest of a names that of b as its source.
BelongsToAny(a, b) == TRUE
BelongsTo(a, b) == b.name \in a.from

----------------------------------------------------------------------------
(* Data sets.                                                              *)

\* The ticks are one archive; features differ by their configuration.
FeatureDatasets == {[name |-> Name("features", <<[kind |-> config, of |-> <<>>]>>), from |-> {}] :
                      config \in FeatureConfigs}
StructuralDatasets(s) == {Named("structure", <<f>>) : f \in Of(s, "features")}
SessionRangeDatasets(s) == {Named("ranges", <<f>>) : f \in Of(s, "features")}
OutcomeDatasets(s) == {Named("outcomes", <<f>>) : f \in Of(s, "features")}
MultiHourDatasets(s) == {Named("hours", <<f>>) : f \in Of(s, "features")}
MultiHourOutcomes(s) == {Named("hour outcomes", <<h>>) : h \in Of(s, "hours")}
GoldStateDatasets(s) == {Named("states", <<h>>) : h \in Of(s, "hours")}
GoldEpisodeDatasets(s) == {Named("gold episodes", <<t>>) : t \in Of(s, "states")}

\* The sources of each kind, all of one feature data set; a data set or a report
\* is named by all of them.
Joined(s, kinds) ==
  UNION {LET derived == {a \in s : a.name.kind \in Range(kinds) /\ (a = f \/ BelongsTo(a, f))}
         IN  {j \in [DOMAIN kinds -> derived] : \A i \in DOMAIN kinds : j[i].name.kind = kinds[i]} :
           f \in Of(s, "features")}
Join(s, kind, kinds) == {Named(kind, j) : j \in Joined(s, kinds)}
SessionEpisodeDatasets(s) == Join(s, "episodes", <<"features", "ranges", "structure", "outcomes">>)

----------------------------------------------------------------------------
(* Reports.                                                                *)

Baselines(s) == Join(s, "baselines", <<"features", "outcomes">>)
ShockResiliencyLab(s) == Join(s, "shocks", <<"features", "outcomes">>)
FeasibilityMap(s) == Join(s, "feasibility", <<"features", "structure">>)
SequenceLabReports(s) == Join(s, "sequence lab", <<"features", "structure">>)
QuotePressureReports(s) == Join(s, "quote pressure", <<"features", "structure">>)
StructuralLab(s) == Join(s, "structural lab", <<"features", "structure", "outcomes">>)
SessionStrategyLab(s) == Join(s, "session lab", <<"features", "ranges", "outcomes">>)

\* The labs that replay quotes are named by their episodes only.
ReplayReports(s, lab) ==
  {Artifact(lab, <<p[1]>>, Range(p)) :
     p \in {q \in Of(s, "episodes") \X Of(s, "features") : BelongsTo(q[1], q[2])}}
PathManagementLab(s) == ReplayReports(s, "path management")
ControlledBreakoutLab(s) == ReplayReports(s, "controlled breakouts")
BreakoutConfirmationLab(s) == ReplayReports(s, "breakout confirmation")
RegimeGateLab(s) == {Named("regime gates", <<e>>) : e \in Of(s, "episodes")}
AbstentionLab(s) == {Named("abstention", <<e>>) : e \in Of(s, "episodes")}

\* The states that the episodes name and the outcomes are of the same bars.
GoldStrategyTournament(s) ==
  {Named("tournament", p) :
     p \in {q \in Of(s, "gold episodes") \X Of(s, "hour outcomes") :
              \E t \in Of(s, "states") : BelongsTo(q[1], t) /\ t.from = q[2].from}}

\* The reports on the candidate take the bars that the outcomes name; whether
\* the episodes are of the same bars is not asked.
Candidates(s) ==
  {p \in Of(s, "gold episodes") \X Of(s, "hour outcomes") \X Of(s, "hours") : BelongsTo(p[2], p[3])}
CandidateRobustness(s) == {Named("robustness", p) : p \in Candidates(s)}
\* The audits are named by episodes and outcomes only.
Audits(s, report) == {Artifact(report, <<p[1], p[2]>>, Range(p)) : p \in Candidates(s)}
TrendCandidateAudit(s) == Audits(s, "trend audit")
GapSemanticsAudit(s) == Audits(s, "gap audit")
CandidateReports == {"robustness", "trend audit", "gap audit"}

----------------------------------------------------------------------------
(* Calls.                                                                  *)

ArtifactDatasets(s) ==
  FeatureDatasets \cup StructuralDatasets(s) \cup SessionRangeDatasets(s) \cup OutcomeDatasets(s)
    \cup MultiHourDatasets(s) \cup MultiHourOutcomes(s) \cup GoldStateDatasets(s)
    \cup GoldEpisodeDatasets(s) \cup SessionEpisodeDatasets(s)
Reports(s) ==
  Baselines(s) \cup ShockResiliencyLab(s) \cup FeasibilityMap(s) \cup SequenceLabReports(s)
    \cup QuotePressureReports(s) \cup StructuralLab(s) \cup SessionStrategyLab(s)
    \cup PathManagementLab(s) \cup ControlledBreakoutLab(s) \cup BreakoutConfirmationLab(s)
    \cup RegimeGateLab(s) \cup AbstentionLab(s) \cup GoldStrategyTournament(s)
    \cup CandidateRobustness(s) \cup TrendCandidateAudit(s) \cup GapSemanticsAudit(s)

NoWriter == [step |-> "idle", for |-> {}]
On(s, name) == \E a \in s : a.name = name

\* The sources are accepted and there is no manifest of that name yet.
LookForManifest(w) ==
  /\ writer[w] = NoWriter /\ writes < MaxWrites /\ writes' = writes + 1
  /\ \E a \in ArtifactDatasets(shelf) :
       ~On(shelf, a.name) /\ writer' = [writer EXCEPT ![w] = [step |-> "make", for |-> {a}]]
  /\ UNCHANGED <<shelf, partial, killed>>

\* mkdir: raises if a .partial directory is there, of another call or left over.
MakePartial(w) ==
  /\ writer[w].step = "make"
  /\ LET names == {a.name : a \in writer[w].for}
     IN  IF names \subseteq partial
         THEN writer' = [writer EXCEPT ![w] = NoWriter] /\ UNCHANGED partial
         ELSE /\ partial' = partial \cup names
              /\ writer' = [writer EXCEPT ![w].step = "build"]
  /\ UNCHANGED <<shelf, writes, killed>>

\* The data set is moved to its place, which must be free; on an error, such as
\* rows that do not align or an episode data set without a row, it is removed.
PublishArtifact(w) ==
  /\ writer[w].step = "build"
  /\ shelf' = shelf \cup {a \in writer[w].for : ~On(shelf, a.name)}
  /\ partial' = partial \ {a.name : a \in writer[w].for}
  /\ writer' = [writer EXCEPT ![w] = NoWriter] /\ UNCHANGED <<writes, killed>>
RaiseBuilding(w) ==
  /\ writer[w].step = "build"
  /\ partial' = partial \ {a.name : a \in writer[w].for}
  /\ writer' = [writer EXCEPT ![w] = NoWriter] /\ UNCHANGED <<shelf, writes, killed>>
\* A process that is killed leaves its directory, as does an interrupt.
DieBuilding(w) ==
  /\ writer[w].step = "build" /\ ~killed /\ killed' = TRUE
  /\ writer' = [writer EXCEPT ![w] = NoWriter] /\ UNCHANGED <<shelf, partial, writes>>

\* A later report of the same name takes the place of the first, or is not written.
WriteReport(w) ==
  /\ writer[w] = NoWriter /\ writes < MaxWrites /\ writes' = writes + 1
  /\ \E a \in Reports(shelf) : shelf' = {b \in shelf : b.name # a.name} \cup {a}
  /\ UNCHANGED <<partial, writer, killed>>

\* What has been computed so far, command by command.
Grown(s) == s \cup ArtifactDatasets(s)
LineageInit ==
  /\ shelf \in {{}, Grown({}), Grown(Grown({})), Grown(Grown(Grown({}))),
                Grown(Grown(Grown(Grown({}))))}
  /\ partial = {} /\ writer = [w \in Writers |-> NoWriter] /\ writes = 0 /\ killed = FALSE
Write(w) == \/ LookForManifest(w) \/ MakePartial(w) \/ PublishArtifact(w) \/ RaiseBuilding(w)
            \/ DieBuilding(w) \/ WriteReport(w)
LineageNext == \E w \in Writers : Write(w)
LineageSpec == LineageInit /\ [][LineageNext]_lineageVars

----------------------------------------------------------------------------
\* No chain of sources is longer than from a report on the candidate to the ticks.
Parents(names) == names \cup UNION {a.from : a \in {b \in shelf : b.name \in names}}
Ancestors(names) == Parents(Parents(Parents(Parents(Parents(names)))))

\* Nothing is computed from two feature data sets, or from two sets of bars: each
\* check compares the sources of one step, the property follows them to the end.
\* Of the reports on the candidate it is so without their episodes (research
\* commands, session_episodes.py:231-243, gold_strategy_tournament.py:277-308).
OneOrigin(a) ==
  LET followed == IF a.name.kind \in CandidateReports
                  THEN {n \in a.from : n.kind # "gold episodes"} ELSE {a.name}
  IN  \A kind \in {"features", "hours"} :
        Cardinality({n \in Ancestors(followed) : n.kind = kind}) <= 1

\* A name stands for the same sources in every call, also where it is made of
\* only a part of them (path_management_lab.py:210, controlled_breakout_lab.py:231).
OneMeaning ==
  \A a \in shelf, b \in ArtifactDatasets(shelf) \cup Reports(shelf) : a.name = b.name => a.from = b.from

\* A name is blocked by a directory only while it is built or after a call was
\* killed, and what was built once is there for good (outcomes.py:63-136).
Unblocked ==
  LET building == {n \in partial : \E w \in Writers :
                     writer[w].step = "build" /\ n \in {a.name : a \in writer[w].for}}
  IN  /\ killed \/ partial = building
      /\ \A a \in shelf : a.from \subseteq {b.name : b \in shelf}

LineageHolds == (\A a \in shelf : OneOrigin(a)) /\ OneMeaning /\ Unblocked
----------------------------------------------------------------------------
(* What makes it inductive.                                                *)

Joinable == {"structure", "ranges", "outcomes"}
Derived == Joinable \cup {"hours"}
Hourly == {"hour outcomes", "states"}
Joins == {"episodes", "baselines", "shocks", "feasibility", "sequence lab", "quote pressure",
          "structural lab", "session lab"}
Replayed == {"path management", "controlled breakouts", "breakout confirmation"}
Screened == {"regime gates", "abstention"}
Audited == {"trend audit", "gap audit"}

\* The name of an artifact tells of which kinds its sources are, and that they
\* belong to each other; it tells all of them, also where it names only a part.
Formed(a) ==
  LET kind == a.name.kind
      of == a.name.of
      From(source) == of[1].kind = source /\ a.from = {of[1]}
      OfOutcomes == of[1].kind = "gold episodes" /\ of[2].kind = "hour outcomes"
  IN  \/ kind = "features" /\ a.from = {}
      \/ kind \in Derived /\ From("features")
      \/ kind \in Hourly /\ From("hours")
      \/ kind = "gold episodes" /\ From("states")
      \/ kind \in Screened /\ From("episodes")
      \/ /\ kind \in Joins /\ of[1].kind = "features" /\ a.from = Range(of)
         /\ \A n \in Range(of) : n = of[1] \/ (n.kind \in Joinable /\ n.of[1] = of[1])
      \/ /\ kind \in Replayed /\ of[1].kind = "episodes" /\ a.from = {of[1], of[1].of[1]}
         /\ of[1].of[1].kind = "features"
      \/ /\ kind = "tournament" /\ OfOutcomes /\ a.from = {of[1], of[2]}
         /\ of[1].of[1].kind = "states" /\ of[1].of[1].of[1] = of[2].of[1]
      \/ /\ kind = "robustness" /\ OfOutcomes /\ a.from = {of[1], of[2], of[3]}
         /\ of[3].kind = "hours" /\ of[3] = of[2].of[1]
      \/ /\ kind \in Audited /\ OfOutcomes /\ a.from = {of[1], of[2], of[2].of[1]}
         /\ of[2].of[1].kind = "hours"

Names == {a.name : a \in shelf}
LineageInvariant ==
  /\ writer = [w \in Writers |-> [step |-> writer[w].step, for |-> writer[w].for]]
  /\ \A a \in shelf : Formed(a) /\ a.from \subseteq Names
  /\ \A w \in Writers : \A a \in writer[w].for : Formed(a) /\ a.from \subseteq Names
  /\ Unblocked
=============================================================================

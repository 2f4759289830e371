----------------------------- MODULE NewsArchive -----------------------------
(***************************************************************************)
(* The ingestion of news and macro observations: a response is archived    *)
(* with a manifest, its articles become events, and the events are merged  *)
(* into events.jsonl by way of one temporary file, which is written part   *)
(* by part.  Two ingestions may run at the same time, and write into the   *)
(* same file; and each may die, also within a line.                        *)
(***************************************************************************)
EXTENDS Ordering, Sequences, SequencesExt

CONSTANTS Ingesters, MaxIngests, MaxNewsDeaths,
          Articles  \* what a response may hold: sequences of articles

Groups == {"gold", "federal_reserve", "inflation", "employment", "usd_yields", "geopolitics",
           "systemic_risk", "physical_demand"}
Article == [key : Int, at : Int, groups : SUBSET Groups, usable : BOOLEAN]
NewsConfig == Articles \subseteq Seq(Article)

VARIABLES raw,        \* archived responses: [payload, at, file, manifest]
          events,     \* the lines of events.jsonl
          temporary,  \* events.tmp: <<>> or <<its lines>>
          health,     \* the status in health.latest.json
          ingest,     \* the call of each ingester
          ingests, newsDeaths,
          shared      \* history: two ingestions ran at the same time

newsVars == <<raw, events, temporary, health, ingest, ingests, newsDeaths, shared>>

\* A call has written so many lines of combined, into the file its handle is for: the
\* temporary file, which may have been renamed to events.jsonl, which may be gone.
Idle == [pc |-> "idle", payload |-> <<>>, at |-> 0, new |-> <<>>, combined |-> <<>>,
         written |-> 0, handle |-> "gone"]
Reach(c, pc) == ingest' = [ingest EXCEPT ![c].pc = pc]

Torn == [torn |-> TRUE]  \* a line that is there in part, or made of parts of several

\* Relevance in thousandths: a step for each group of terms, and one for gold.
Relevance(groups) ==
  IF groups = {} THEN 0
  ELSE LET score == Min({1000, 250 + 180 * Cardinality(groups)})
       IN  IF "gold" \in groups THEN Min({1000, score + 250}) ELSE score
Event(article, at) ==
  [key |-> article.key, occurred |-> article.at, received |-> at,
   score |-> Relevance(article.groups), eligible |-> FALSE]
\* An article without title and time, an observation without value, is left out.
Normalize(payload, at) ==
  LET usable == {i \in DOMAIN payload : payload[i].usable}
      order == InOrder(usable, {p \in usable \X usable : p[1] < p[2]})
  IN  [n \in DOMAIN order |-> Event(payload[order[n]], at)]

\* Of the events with one key the one received first is kept, of several that were
\* received at one time the first; what is kept is sorted.
CameLast(list, i, j) == i > j  \* the one that came last
CameFirst(list, i, j) ==
  list[i].received < list[j].received \/ (list[i].received = list[j].received /\ i < j)
Kept(list) ==
  {list[i] : i \in {k \in DOMAIN list :
                      \A j \in DOMAIN list : list[j].key = list[k].key => j = k \/ CameFirst(list, k, j)}}
Sooner(a, b) == a.occurred < b.occurred \/ (a.occurred = b.occurred /\ a.key < b.key)
Deduplicate(list) ==
  LET kept == Kept(list) IN InOrder(kept, {p \in kept \X kept : Sooner(p[1], p[2])})

----------------------------------------------------------------------------
Fetch(c) ==
  /\ ingest[c].pc = "idle" /\ ingests < MaxIngests /\ ingests' = ingests + 1
  /\ shared' = (shared \/ \E o \in Ingesters \ {c} : ingest[o].pc # "idle")
  /\ \/ \E payload \in Articles :
          /\ ingest' = [ingest EXCEPT ![c] = [Idle EXCEPT !.pc = "archive", !.payload = payload,
                                                          !.at = ingests + 1]]
          /\ UNCHANGED health
     \/ health' = "throttled" /\ UNCHANGED ingest
     \/ UNCHANGED <<health, ingest>>                     \* any other error ends the call
  /\ UNCHANGED <<raw, events, temporary, newsDeaths>>

ArchiveFile(c) ==
  /\ ingest[c].pc = "archive" /\ Reach(c, "manifest")
  /\ raw' = raw \cup {[payload |-> ingest[c].payload, at |-> ingest[c].at, manifest |-> FALSE]}
  /\ UNCHANGED <<events, temporary, health, ingests, newsDeaths, shared>>

ArchiveManifest(c) ==
  /\ ingest[c].pc = "manifest"
  /\ LET entry == [payload |-> ingest[c].payload, at |-> ingest[c].at, manifest |-> TRUE]
     IN  raw' = (raw \ {[entry EXCEPT !.manifest = FALSE]}) \cup {entry}
  /\ ingest' = [ingest EXCEPT ![c].pc = "read",
                  ![c].new = Deduplicate(Normalize(ingest[c].payload, ingest[c].at))]
  /\ UNCHANGED <<events, temporary, health, ingests, newsDeaths, shared>>

\* A line that is no event makes the call raise.
ReadEvents(c) ==
  /\ ingest[c].pc = "read"
  /\ IF Torn \in Range(events) THEN Reach(c, "idle")
     ELSE ingest' = [ingest EXCEPT ![c].pc = "open", ![c].combined = Deduplicate(events \o ingest[c].new)]
  /\ UNCHANGED <<raw, events, temporary, health, ingests, newsDeaths, shared>>

\* Whoever opens the temporary file empties it, also under another call's hands.
OpenTemporary(c) ==
  /\ ingest[c].pc = "open" /\ temporary' = <<<<>>>>
  /\ ingest' = [ingest EXCEPT ![c].pc = "fill", ![c].written = 0, ![c].handle = "temporary"]
  /\ UNCHANGED <<raw, events, health, ingests, newsDeaths, shared>>

\* A call writes its next line, or a part of it, where its own lines end.  In a file that
\* holds anything else this is somewhere among the lines there: it cuts or covers some,
\* and may be no line itself.
Sofar(call) == SubSeq(call.combined, 1, call.written)
Gaps(call, old) ==
  {gap \in (0 .. Len(old)) \X (0 .. Len(old)) : gap[1] <= gap[2] /\ (call.written = 0 => gap[1] = 0)}
Written(call, old, line) ==
  IF old \in {Sofar(call), Append(Sofar(call), Torn)} THEN {Append(Sofar(call), line)}
  ELSE UNION {{SubSeq(old, 1, gap[1]) \o part \o SubSeq(old, gap[2] + 1, Len(old)) :
                 part \in {<<line>>, <<Torn>>, <<line, Torn>>}} : gap \in Gaps(call, old)}
FillTemporary(c) ==
  LET call == ingest[c]
  IN  /\ call.pc = "fill" /\ call.written < Len(call.combined)
      /\ \E line \in {call.combined[call.written + 1], Torn} :
           /\ ingest' = [ingest EXCEPT ![c].written = IF line = Torn THEN @ ELSE @ + 1]
           /\ \/ call.handle = "temporary" /\ UNCHANGED events
                /\ \E new \in Written(call, temporary[1], line) : temporary' = <<new>>
              \/ call.handle = "events" /\ UNCHANGED temporary
                /\ events' \in Written(call, events, line)
              \/ call.handle = "gone" /\ UNCHANGED <<events, temporary>>
      /\ UNCHANGED <<raw, health, ingests, newsDeaths, shared>>

CloseTemporary(c) ==
  /\ ingest[c].pc = "fill" /\ ingest[c].written = Len(ingest[c].combined) /\ Reach(c, "replace")
  /\ UNCHANGED <<raw, events, temporary, health, ingests, newsDeaths, shared>>

\* The rename raises if somebody else has taken the file, and on some systems while another
\* call has one of the two open; on the others that call goes on writing into what is now
\* events.jsonl, and who wrote into the file before writes into none.
Busy(c) == \E o \in Ingesters \ {c} : ingest[o].pc \in {"read", "fill"}
Renamed(c) ==
  [o \in Ingesters |->
     IF o = c THEN [ingest[o] EXCEPT !.pc = "health"]
     ELSE [ingest[o] EXCEPT !.handle = IF @ = "temporary" THEN "events" ELSE "gone"]]
ReplaceEvents(c) ==
  /\ ingest[c].pc = "replace"
  /\ \/ (temporary = <<>> \/ Busy(c)) /\ Reach(c, "idle") /\ UNCHANGED <<events, temporary>>
     \/ /\ temporary # <<>> /\ ingest' = Renamed(c)
        /\ events' = temporary[1] /\ temporary' = <<>>
  /\ UNCHANGED <<raw, health, ingests, newsDeaths, shared>>

Healthy(c) ==
  /\ ingest[c].pc = "health" /\ Reach(c, "idle") /\ health' = "healthy"
  /\ UNCHANGED <<raw, events, temporary, ingests, newsDeaths, shared>>

DieIngesting(c) ==
  /\ ingest[c].pc # "idle" /\ newsDeaths < MaxNewsDeaths /\ newsDeaths' = newsDeaths + 1 /\ Reach(c, "idle")
  /\ UNCHANGED <<raw, events, temporary, health, ingests, shared>>

NewsInit ==
  /\ raw = {} /\ events = <<>> /\ temporary = <<>> /\ health = "missing"
  /\ ingest = [c \in Ingesters |-> Idle] /\ ingests = 0 /\ newsDeaths = 0 /\ shared = FALSE

Ingest(c) == \/ Fetch(c) \/ ArchiveFile(c) \/ ArchiveManifest(c) \/ ReadEvents(c)
             \/ OpenTemporary(c) \/ FillTemporary(c) \/ CloseTemporary(c)
             \/ ReplaceEvents(c) \/ Healthy(c) \/ DieIngesting(c)
NewsNext == \E c \in Ingesters : Ingest(c)
NewsSpec == NewsInit /\ [][NewsNext]_newsVars

\* build_news_quality_report.
QualityReport ==
  [count |-> Len(events), unique |-> Cardinality({e.key : e \in Range(events)}),
   payloads |-> Cardinality({r \in raw : r.manifest}),
   eligible |-> Cardinality({e \in Range(events) : e.eligible}), health |-> health]

----------------------------------------------------------------------------
(* Properties.                                                             *)

\* As long as no two ingestions run at the same time, whoever dies, and in whatever line:
\* an event never leaves the file nor changes the time it was first received at, no event
\* is there twice and none in part, all come from an archived response with its manifest,
\* and none has a time a reaction could be measured from.  (Of two that met nothing is
\* said: the one loses what the other has merged, and they write into one file.)
\* (cli.py:22-37, dedup.py:8-14, docs/news-attribution.md:18-19).
FirstSeenStays ==
  [][ ~shared' =>
        /\ \A e \in Range(events) : e \in Range(events')
        /\ QualityReport'.unique = QualityReport'.count /\ QualityReport'.eligible = 0
        /\ \A e \in Range(events') : \E r \in raw' :
             r.manifest /\ e \in Range(Normalize(r.payload, r.at)) ]_newsVars

----------------------------------------------------------------------------
(* What makes it follow.                                                   *)

EventRow == [key : Int, occurred : Int, received : Nat, score : {Relevance(g) : g \in SUBSET Groups},
             eligible : {FALSE}]
EventLine == EventRow \cup {Torn}
Response == [payload : Seq(Article), at : Nat, manifest : BOOLEAN]
Step == {"idle", "archive", "manifest", "read", "open", "fill", "replace", "health"}
IngestCall == [pc : Step, payload : Seq(Article), at : Nat, new : Seq(EventRow), combined : Seq(EventRow),
               written : Nat, handle : {"temporary", "events", "gone"}]

NewsTypeOK ==
  /\ raw \subseteq Response /\ events \in Seq(EventLine)
  /\ temporary \in Seq(Seq(EventLine))
  /\ ingest \in [Ingesters -> IngestCall] /\ ingests \in Nat /\ shared \in BOOLEAN

\* A call that writes into the temporary file has one, and does not write more than it has.
Filling(call) ==
  call.pc = "fill" => /\ call.written <= Len(call.combined)
                      /\ call.handle = "temporary" => temporary # <<>>

\* A list that may stand in events.jsonl: each event once, from an archived response.
OnceEach(list) == \A i, j \in DOMAIN list : list[i].key = list[j].key => i = j
FromArchive(responses, event) ==
  \E r \in responses : r.manifest /\ event \in Range(Normalize(r.payload, r.at))
Sound(responses, list) ==
  list \in Seq(EventRow) /\ OnceEach(list) /\ \A e \in Range(list) : FromArchive(responses, e)

\* One ingestion at a time: it is the latest, no event was received later, what it is to
\* write is sound and holds all events of the file, and the temporary file is its own.
NoneLater(list) == \A e \in Range(list) : e.received <= ingests
Latest(call) ==
  call.pc # "idle" =>
    /\ call.at = ingests
    /\ call.pc = "read" => \A e \in Range(call.new) : e.received = ingests /\ FromArchive(raw, e)
    /\ call.pc \in {"open", "fill", "replace"} =>
         /\ Sound(raw, call.combined) /\ NoneLater(call.combined)
         /\ Range(events) \subseteq Range(call.combined)
    /\ call.pc = "fill" => /\ call.handle = "temporary"
                           /\ temporary \in {<<Sofar(call)>>, <<Append(Sofar(call), Torn)>>}
                           /\ call.written = Len(call.combined) => temporary = <<call.combined>>
    /\ call.pc = "replace" => temporary = <<call.combined>>
Alone ==
  ~shared => /\ Sound(raw, events) /\ NoneLater(events)
             /\ \A c \in Ingesters : Latest(ingest[c])
             /\ \A c, o \in Ingesters : c = o \/ ingest[c].pc = "idle" \/ ingest[o].pc = "idle"
NewsInvariant == NewsTypeOK /\ (\A c \in Ingesters : Filling(ingest[c])) /\ Alone
=============================================================================

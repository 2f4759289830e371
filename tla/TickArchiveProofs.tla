-------------------------- MODULE TickArchiveProofs --------------------------
(***************************************************************************)
(* What the readers of the recorder's files promise, for any number of     *)
(* days, lines, deaths and old snapshots: the collector's saved offset has *)
(* its chunks behind it, a data set that is built is a prefix of each day, *)
(* no cleanup takes the last copy of a line away, and the engine's reader  *)
(* misses and repeats lines only at the edges of its cursors.              *)
(***************************************************************************)
EXTENDS QuoteReader, FiniteSetTheorems, WellFoundedInduction, TLAPS

-----------------------------------------------------------------------------
(* Natural numbers: smallest and largest members, lines and half lines.    *)

\* A set of naturals has a smallest member, and Min is one.
LEMMA SmallestMember ==
    ASSUME NEW S \in SUBSET Nat, S # {}
    PROVE  Min(S) \in S /\ \A n \in S : Min(S) <= n
<1> DEFINE R == {ss \in Nat \X Nat : ss[1] < ss[2]}
<1>1. IsWellFoundedOn(R, Nat)
  BY NatLessThanWellFounded DEF OpToRel
<1> HIDE DEF R
<1>2. PICK m \in S : \A n \in S : ~ (<<n, m>> \in R)
  BY <1>1, WFMin
<1>3. ASSUME NEW n \in S
      PROVE  m <= n
  <2>1. m \in Nat /\ n \in Nat
    OBVIOUS
  <2>2. n < m => <<n, m>> \in R
    BY <2>1 DEF R
  <2> QED
    BY <1>2, <2>1, <2>2
<1> QED
  BY <1>3 DEF Min

\* A bounded one has a largest member, and Max is one.
LEMMA LargestMember ==
    ASSUME NEW bound \in Nat, NEW S \in SUBSET (0 .. bound), S # {}
    PROVE  Max(S) \in S /\ \A n \in S : n <= Max(S)
<1> DEFINE Above == {k \in Nat : \A n \in S : n <= k}
<1>1. bound \in Above
  OBVIOUS
<1>2. Above \in SUBSET Nat /\ Above # {}
  BY <1>1
<1> HIDE DEF Above
<1>3. PICK m \in Above : \A k \in Above : m <= k
  BY <1>2, SmallestMember
<1>4. m \in Nat /\ \A n \in S : n <= m
  BY <1>3 DEF Above
<1>5. m \in S
  <2>1. SUFFICES ASSUME m \notin S
                 PROVE  FALSE
    OBVIOUS
  <2>2. \A n \in S : n \in Nat /\ n < m
    BY <1>4, <2>1
  <2>3. m - 1 \in Nat
    <3>1. PICK n \in S : n \in Nat /\ n < m
      BY <2>2
    <3> QED
      BY <1>4, <3>1
  <2>4. \A n \in S : n <= m - 1
    BY <1>4, <2>2
  <2>5. m - 1 \in Above
    BY <2>3, <2>4 DEF Above
  <2> QED
    BY <1>3, <1>4, <2>5
<1>6. \A n \in S : m >= n
  BY <1>4
<1>7. Max(S) \in S /\ \A n \in S : Max(S) >= n
  BY <1>5, <1>6 DEF Max
<1> QED
  BY <1>7

\* The whole lines in a number of half lines.
LEMMA LinesOfHalves ==
    ASSUME NEW h \in Nat
    PROVE  /\ Lines(h) \in Nat /\ 2 * Lines(h) <= h /\ h <= 2 * Lines(h) + 1
           /\ (h % 2 = 1) <=> (h = 2 * Lines(h) + 1)
           /\ Lines(h) <= h
  BY DEF Lines

-----------------------------------------------------------------------------
(* The recorder                                                            *)

Feed == /\ file \in [Day -> 0 .. MaxHalves] /\ today \in Day /\ openDay \in Day

\* A day's file is only ever written at its end.
LEMMA FilesGrow ==
    ASSUME Feed, Record \/ Midnight \/ OpenDailyFile
    PROVE  Feed' /\ \A d \in Day : file[d] <= file'[d]
<1> USE ArchiveAssumption
<1>1. CASE Record
  <2>1. PICK n \in {1, 2} : /\ file[today] + n <= MaxHalves
                            /\ file' = [file EXCEPT ![today] = @ + n]
    BY <1>1 DEF Record
  <2>2. file[today] + n \in 0 .. MaxHalves
    BY <2>1 DEF Feed
  <2>3. file' = [file EXCEPT ![today] = file[today] + n]
    BY <2>1
  <2>4. today' = today /\ openDay' = openDay
    BY <1>1 DEF Record
  <2> QED
    BY <2>2, <2>3, <2>4 DEF Feed
<1>2. CASE Midnight
  <2>1. file' = file /\ openDay' = openDay /\ today' = today + 1 /\ today < Days
    BY <1>2 DEF Midnight
  <2> QED
    BY <2>1 DEF Feed, Day
<1>3. CASE OpenDailyFile
  <2>1. PICK last \in file[openDay] .. MaxHalves : file' = [file EXCEPT ![openDay] = last]
    BY <1>3 DEF OpenDailyFile
  <2>2. last \in 0 .. MaxHalves /\ file[openDay] <= last
    BY <2>1 DEF Feed
  <2>3. today' = today /\ openDay' = today
    BY <1>3 DEF OpenDailyFile
  <2> QED
    BY <2>1, <2>2, <2>3 DEF Feed
<1> QED
  BY <1>1, <1>2, <1>3

-----------------------------------------------------------------------------
(* The collector: types                                                    *)

\* The locals of the collector.
LEMMA CollectTypes ==
    ASSUME TypeOK
    PROVE  /\ Feed
           /\ collect.pc \in {"idle", "chunk", "manifest", "state", "inspect", "down"}
           /\ collect.chunk \in Chunk /\ NoChunk \in Chunk
           /\ collect.chunk.from \in 0 .. MaxHalves /\ collect.chunk.to \in 0 .. MaxHalves
           /\ \A d \in Day : /\ state[d].offset \in 0 .. MaxHalves /\ state[d].last \in Chunk
                             /\ file[d] \in 0 .. MaxHalves
<1> USE ArchiveAssumption
<1>1. /\ collect.pc \in {"idle", "chunk", "manifest", "state", "inspect", "down"}
      /\ collect.chunk \in Chunk
  BY DEF TypeOK
<1>2. \A c \in Chunk : c.from \in 0 .. MaxHalves /\ c.to \in 0 .. MaxHalves
  BY DEF Chunk
<1>3. NoChunk \in Chunk
  BY DEF Chunk, NoChunk
<1>4. \A d \in Day : /\ state[d].offset \in 0 .. MaxHalves /\ state[d].last \in Chunk
                     /\ file[d] \in 0 .. MaxHalves
  BY DEF TypeOK
<1> QED
  BY <1>1, <1>2, <1>3, <1>4 DEF TypeOK, Feed

\* The chunk that is read: it starts at the offset or before, and ends in the file.
LEMMA NextChunkTypes ==
    ASSUME TypeOK, CollectInvariant, NEW d \in Day
    PROVE  /\ NextChunk(d, file[d]) \in Chunk /\ NextChunk(d, file[d]).whole
           /\ NextChunk(d, file[d]).day = d /\ NextChunk(d, file[d]).second = second
           /\ NextChunk(d, file[d]).from <= state[d].offset
           /\ NextChunk(d, file[d]).to = Lines(file[d])
<1> USE ArchiveAssumption
<1> DEFINE from == IF 2 * state[d].offset > file[d] THEN 0 ELSE state[d].offset
<1>1. NextChunk(d, file[d]) = [day |-> d, second |-> second, to |-> Lines(file[d]),
                               whole |-> TRUE, from |-> from]
  BY DEF NextChunk
<1>2. file[d] \in 0 .. MaxHalves /\ state[d].offset \in 0 .. MaxHalves
  BY CollectTypes
<1>3. from \in 0 .. MaxHalves /\ from <= state[d].offset
  BY <1>2
<1>4. Lines(file[d]) \in 0 .. MaxHalves
  <2>1. file[d] \in Nat
    BY <1>2
  <2>2. Lines(file[d]) \in Nat /\ Lines(file[d]) <= file[d]
    BY <2>1, LinesOfHalves
  <2> QED
    BY <1>2, <2>2
<1>5. second \in 0 .. MaxDeaths
  BY DEF CollectInvariant, TypeOK
<1> HIDE DEF from
<1> QED
  BY <1>1, <1>3, <1>4, <1>5 DEF Chunk

LEMMA ArchiveTypeInit == Init => TypeOK
<1> SUFFICES ASSUME Init
             PROVE  TypeOK
  OBVIOUS
<1> USE ArchiveAssumption
<1>1. NoChunk \in Chunk
  BY DEF Chunk, NoChunk
<1>2. openDay \in Day /\ today \in Day
  <2>1. 1 \in Day /\ Days \in Day
    BY DEF ArchiveAssumption, Day
  <2>2. openDay \in {1, Days} /\ today = openDay
    BY DEF Init
  <2> QED
    BY <2>1, <2>2
<1>3. file \in [Day -> 0 .. MaxHalves]
  <2>1. 0 \in 0 .. MaxHalves /\ MaxHalves \in 0 .. MaxHalves
    BY DEF ArchiveAssumption
  <2>2. \/ file = [d \in Day |-> 0]
        \/ file = [d \in Day |-> IF d = Days THEN MaxHalves ELSE 0]
    BY DEF Init
  <2> QED
    BY <2>1, <2>2
<1>4. /\ DOMAIN legacy \subseteq Snapshots
      /\ \A n \in DOMAIN legacy :
           legacy[n] \in [snapshot : {"whole", "cut", "gone"}, manifest : BOOLEAN]
  <2>1. CASE legacy = <<>>
    BY <2>1
  <2>2. CASE legacy # <<>>
    <3>1. PICK kept \in SUBSET Snapshots :
            legacy \in [kept -> [snapshot : {"whole", "cut"}, manifest : {TRUE}]]
      BY <2>2 DEF Init
    <3>2. \A n \in kept : /\ legacy[n] \in [snapshot : {"whole", "cut"}, manifest : {TRUE}]
      BY <3>1
    <3>3. [snapshot : {"whole", "cut"}, manifest : {TRUE}]
            \subseteq [snapshot : {"whole", "cut", "gone"}, manifest : BOOLEAN]
      OBVIOUS
    <3> QED
      BY <3>1, <3>2, <3>3
  <2> QED
    BY <2>1, <2>2
<1>5. state \in [Day -> [offset : 0 .. MaxHalves, last : Chunk]]
  BY <1>1 DEF Init
<1>6. unreadable \in BOOLEAN
  BY Zenon DEF Init
<1>7. /\ health \in [status : {"missing", "stale", "healthy", "market_closed_heartbeat_healthy"},
                     snapshot : Chunk]
      /\ collect \in [pc : {"idle", "chunk", "manifest", "state", "inspect", "down"},
                      chunk : Chunk]
      /\ archive \subseteq Chunk /\ litter \subseteq Chunk
      /\ prune \subseteq DOMAIN legacy /\ deaths \in 0 .. MaxDeaths
  BY <1>1 DEF Init
<1> QED
  BY <1>2, <1>3, <1>4, <1>5, <1>6, <1>7 DEF TypeOK

LEMMA StatusIsOne ==
    ASSUME NEW fresh, NEW weekday, NEW hour
    PROVE  Status(fresh, weekday, hour)
             \in {"missing", "stale", "healthy", "market_closed_heartbeat_healthy"}
  BY DEF Status

LEMMA ArchiveTypeStep ==
    ASSUME TypeOK, CollectInvariant, [Next]_vars
    PROVE  TypeOK' /\ \A d \in Day : file[d] <= file'[d]
<1> USE ArchiveAssumption
<1> DEFINE States == [Day -> [offset : 0 .. MaxHalves, last : Chunk]]
           Healths == [status : {"missing", "stale", "healthy", "market_closed_heartbeat_healthy"},
                       snapshot : Chunk]
           Calls == [pc : {"idle", "chunk", "manifest", "state", "inspect", "down"},
                     chunk : Chunk]
           Entries == [snapshot : {"whole", "cut", "gone"}, manifest : BOOLEAN]
<1>0. /\ archive \subseteq Chunk /\ litter \subseteq Chunk /\ state \in States
      /\ health \in Healths /\ collect \in Calls /\ deaths \in 0 .. MaxDeaths
      /\ DOMAIN legacy \subseteq Snapshots /\ prune \subseteq DOMAIN legacy
      /\ \A n \in DOMAIN legacy : legacy[n] \in Entries
  BY DEF TypeOK
<1>a. unreadable \in BOOLEAN
  BY DEF TypeOK
<1>b. collect.chunk \in Chunk /\ NoChunk \in Chunk
  BY CollectTypes
<1>1. Feed' /\ \A d \in Day : file[d] <= file'[d]
  <2>1. ASSUME ~(Record \/ Midnight \/ OpenDailyFile)
        PROVE  file' = file /\ today' = today /\ openDay' = openDay
    BY <2>1 DEF Next, Collect, Missing, Read, WriteChunk, WriteManifest, SaveState, Inspect,
       Restart, InspectRaises, Die, Cleanup, PruneScan, PruneSnapshot, PruneManifest,
       PruneDies, vars, feedVars
  <2>2. Feed
    BY CollectTypes
  <2>3. \A d \in Day : file[d] <= file[d]
    BY CollectTypes
  <2> QED
    BY <2>1, <2>2, <2>3, FilesGrow DEF Feed
<1>2. archive' \subseteq Chunk
  <2>1. archive' = archive \/ archive' = archive \union {collect.chunk}
    BY DEF Next, Record, Midnight, OpenDailyFile, Collect, Missing, Read, WriteChunk,
       WriteManifest, SaveState, Inspect, Restart, InspectRaises, Die, Cleanup, PruneScan,
       PruneSnapshot, PruneManifest, PruneDies, vars, archiveVars
  <2> QED
    BY <1>0, <1>b, <2>1
<1>3. litter' \subseteq Chunk
  <2>1. litter' = litter \/ litter' = litter \union {collect.chunk} \/ litter' = {}
    BY DEF Next, Record, Midnight, OpenDailyFile, Collect, Missing, Read, WriteChunk,
       WriteManifest, SaveState, Inspect, Restart, InspectRaises, Die, Cleanup, PruneScan,
       PruneSnapshot, PruneManifest, PruneDies, vars, archiveVars
  <2> QED
    BY <1>0, <1>b, <2>1
<1>4. unreadable' \in BOOLEAN
  <2>1. unreadable' = unreadable \/ unreadable' = TRUE
    BY DEF Next, Record, Midnight, OpenDailyFile, Collect, Missing, Read, WriteChunk,
       WriteManifest, SaveState, Inspect, Restart, InspectRaises, Die, Cleanup, PruneScan,
       PruneSnapshot, PruneManifest, PruneDies, vars, archiveVars
  <2> QED
    BY <1>a, <2>1, Zenon
<1>5. state' \in States
  <2>1. CASE SaveState
    <3>1. state' = [state EXCEPT ![collect.chunk.day] =
                      [offset |-> collect.chunk.to, last |-> collect.chunk]]
      BY <2>1 DEF SaveState
    <3>2. [offset |-> collect.chunk.to, last |-> collect.chunk]
            \in [offset : 0 .. MaxHalves, last : Chunk]
      BY CollectTypes
    <3> QED
      BY <1>0, <3>1, <3>2
  <2>2. CASE ~SaveState
    <3>1. state' = state
      BY <2>2 DEF Next, Record, Midnight, OpenDailyFile, Collect, Missing, Read, WriteChunk,
         WriteManifest, Inspect, Restart, InspectRaises, Die, Cleanup, PruneScan,
         PruneSnapshot, PruneManifest, PruneDies, vars, archiveVars
    <3> QED
      BY <1>0, <3>1
  <2> QED
    BY <2>1, <2>2
<1>6. health' \in Healths
  <2>1. CASE Missing
    BY <1>b, <2>1 DEF Missing
  <2>2. CASE Inspect
    <3>1. PICK fresh \in BOOLEAN :
            health' = [status |-> Status(fresh, Clock[today][1], Clock[today][2]),
                       snapshot |-> state[collect.chunk.day].last]
      BY <2>2 DEF Inspect
    <3>2. collect.chunk.day \in Day
      BY <2>2 DEF Inspect, CollectInvariant
    <3>3. state[collect.chunk.day].last \in Chunk
      BY <3>2, CollectTypes
    <3> QED
      BY <3>1, <3>3, StatusIsOne
  <2>3. CASE ~(Missing \/ Inspect)
    <3>1. health' = health
      BY <2>3 DEF Next, Record, Midnight, OpenDailyFile, Collect, Read, WriteChunk,
         WriteManifest, SaveState, Restart, InspectRaises, Die, Cleanup, PruneScan,
         PruneSnapshot, PruneManifest, PruneDies, vars, archiveVars
    <3> QED
      BY <1>0, <3>1
  <2> QED
    BY <2>1, <2>2, <2>3
<1>7. collect' \in Calls
  <2>1. CASE Read
    <3>1. PICK chunk : /\ chunk = NextChunk(today, file[today])
                       /\ collect' = [pc |-> IF chunk.to > chunk.from THEN "chunk" ELSE "inspect",
                                      chunk |-> chunk]
      BY <2>1 DEF Read
    <3>2. chunk \in Chunk
      BY <3>1, NextChunkTypes DEF TypeOK
    <3> QED
      BY <3>1, <3>2
  <2>2. CASE WriteChunk
    <3>1. collect' = [pc |-> "manifest",
                      chunk |-> [collect.chunk EXCEPT !.whole = collect.chunk \notin litter]]
      BY <2>2 DEF WriteChunk
    <3>2. PICK whole \in BOOLEAN : whole = (collect.chunk \notin litter)
      BY Zenon
    <3>3. [collect.chunk EXCEPT !.whole = whole] \in Chunk
      BY <1>b DEF Chunk
    <3>4. collect' = [pc |-> "manifest", chunk |-> [collect.chunk EXCEPT !.whole = whole]]
      BY <3>1, <3>2
    <3> QED
      BY <3>3, <3>4
  <2>3. CASE ~(Read \/ WriteChunk)
    <3>1. \/ collect' = collect
          \/ \E pc \in {"idle", "chunk", "manifest", "state", "inspect", "down"} :
               collect' = [collect EXCEPT !.pc = pc]
      BY <2>3 DEF Next, Record, Midnight, OpenDailyFile, Collect, Missing,
         WriteManifest, SaveState, Inspect, Restart, InspectRaises, Die, Cleanup, PruneScan,
         PruneSnapshot, PruneManifest, PruneDies, Goto, vars, archiveVars
    <3> QED
      BY <1>0, <3>1
  <2> QED
    BY <2>1, <2>2, <2>3
<1>8. deaths' \in 0 .. MaxDeaths
  <2>1. deaths' = deaths \/ (deaths < MaxDeaths /\ deaths' = deaths + 1)
    BY DEF Next, Record, Midnight, OpenDailyFile, Collect, Missing, Read, WriteChunk,
       WriteManifest, SaveState, Inspect, Restart, InspectRaises, Die, Cleanup, PruneScan,
       PruneSnapshot, PruneManifest, PruneDies, vars
  <2> QED
    BY <1>0, <2>1
<1>9. /\ DOMAIN legacy' = DOMAIN legacy
      /\ \A n \in DOMAIN legacy : legacy'[n] \in Entries
  <2>1. CASE PruneSnapshot
    <3>1. legacy' = [legacy EXCEPT ![Min(prune)].snapshot = "gone"]
      BY <2>1 DEF PruneSnapshot
    <3> QED
      BY <1>0, <3>1
  <2>2. CASE PruneManifest
    <3>1. legacy' = [legacy EXCEPT ![Min(prune)].manifest = FALSE]
      BY <2>2 DEF PruneManifest
    <3> QED
      BY <1>0, <3>1
  <2>3. CASE ~(PruneSnapshot \/ PruneManifest)
    <3>1. legacy' = legacy
      BY <2>3 DEF Next, Record, Midnight, OpenDailyFile, Collect, Missing, Read, WriteChunk,
         WriteManifest, SaveState, Inspect, Restart, InspectRaises, Die, Cleanup, PruneScan,
         PruneDies, vars, pruneVars
    <3> QED
      BY <1>0, <3>1
  <2> QED
    BY <2>1, <2>2, <2>3
<1>10. prune' \subseteq DOMAIN legacy
  <2>1. prune' \subseteq prune \/ prune' \subseteq Named
    BY DEF Next, Record, Midnight, OpenDailyFile, Collect, Missing, Read, WriteChunk,
       WriteManifest, SaveState, Inspect, Restart, InspectRaises, Die, Cleanup, PruneScan,
       PruneSnapshot, PruneManifest, PruneDies, vars, pruneVars
  <2>2. Named \subseteq DOMAIN legacy
    BY DEF Named
  <2> QED
    BY <1>0, <2>1, <2>2
<1> HIDE DEF States, Healths, Calls, Entries
<1> QED
  BY <1>0, <1>1, <1>2, <1>3, <1>4, <1>5, <1>6, <1>7, <1>8, <1>9, <1>10
     DEF TypeOK, Feed, States, Healths, Calls, Entries

-----------------------------------------------------------------------------
(* The collector: what it has archived                                     *)

\* More chunks cover no less.
LEMMA CoveredStays ==
    ASSUME NEW d, NEW n, Covered(d, n), archive \subseteq archive'
    PROVE  Covered(d, n)'
  BY DEF Covered

\* What is covered up to a chunk is covered up to its end.
LEMMA ChunkCovers ==
    ASSUME NEW chunk \in archive, chunk.whole, chunk.from \in Nat, chunk.to \in Nat,
           Covered(chunk.day, chunk.from)
    PROVE  Covered(chunk.day, chunk.to)
<1> SUFFICES ASSUME NEW l \in 1 .. chunk.to
             PROVE  \E c \in archive : c.day = chunk.day /\ c.whole /\ c.from < l /\ l <= c.to
  BY DEF Covered
<1>1. CASE l <= chunk.from
  BY <1>1 DEF Covered
<1>2. CASE l > chunk.from
  BY <1>2
<1> QED
  BY <1>1, <1>2

LEMMA LinesMonotone ==
    ASSUME NEW h \in Nat, NEW g \in Nat, h <= g
    PROVE  Lines(h) <= Lines(g)
  BY LinesOfHalves

LEMMA ArchiveInit == Init => ArchiveInvariant
<1> SUFFICES ASSUME Init
             PROVE  ArchiveInvariant
  OBVIOUS
<1>1. \A d \in Day : state[d].last = NoChunk /\ state[d].offset = 0
  BY DEF Init
<1>2. \A d \in Day : 1 .. state[d].offset = {}
  BY <1>1
<1> QED
  BY <1>1, <1>2 DEF Init, ArchiveInvariant, CollectInvariant, ArchiveComplete

LEMMA ArchiveStep ==
    ASSUME TypeOK, ArchiveInvariant, [Next]_vars
    PROVE  ArchiveInvariant'
<1> USE ArchiveAssumption
<1>i. /\ CollectInvariant
      /\ \A d \in Day : Covered(d, state[d].offset)
      /\ health.snapshot \in archive \union {NoChunk}
  BY DEF ArchiveInvariant, ArchiveComplete, Covered
<1>t. /\ TypeOK' /\ \A d \in Day : file[d] <= file'[d]
      /\ \A d \in Day : Lines(file[d]) <= Lines(file'[d])
  <2>1. TypeOK' /\ \A d \in Day : file[d] <= file'[d]
    BY <1>i, ArchiveTypeStep
  <2>2. \A d \in Day : file[d] \in Nat /\ file'[d] \in Nat
    BY <2>1 DEF TypeOK
  <2> QED
    BY <2>1, <2>2, LinesMonotone
<1>a. archive' = archive \/ (WriteManifest /\ archive' = archive \union {collect.chunk})
  BY DEF Next, Record, Midnight, OpenDailyFile, Collect, Missing, Read, WriteChunk,
     WriteManifest, SaveState, Inspect, Restart, InspectRaises, Die, Cleanup, PruneScan,
     PruneSnapshot, PruneManifest, PruneDies, vars, archiveVars
<1>b. /\ collect.chunk \in Chunk
      /\ \A d \in Day : file[d] \in Nat /\ Lines(file[d]) \in Nat /\ Lines(file'[d]) \in Nat
      /\ deaths \in Nat
      /\ \A c \in archive : c \in Chunk
  <2>1. \A d \in Day : file[d] \in Nat /\ file'[d] \in Nat
    BY <1>t DEF TypeOK
  <2> QED
    BY <2>1, CollectTypes, LinesOfHalves DEF TypeOK
<1>1. /\ second' \in Nat /\ second' <= deaths' /\ (collect'.pc = "down" => second' < deaths')
      /\ collect'.pc # "down" => litter' = {}
  <2>1. CASE InspectRaises \/ Die
    <3>1. /\ second' = second /\ deaths' = deaths + 1
          /\ collect' = [collect EXCEPT !.pc = "down"]
      BY <2>1 DEF InspectRaises, Die, Goto
    <3>2. collect'.pc = "down"
      BY <3>1 DEF TypeOK
    <3> QED
      BY <1>i, <1>b, <3>1, <3>2 DEF CollectInvariant
  <2>2. CASE Restart
    <3>1. /\ second' = second + 1 /\ deaths' = deaths /\ litter' = {} /\ collect.pc = "down"
          /\ collect' = [collect EXCEPT !.pc = "idle"]
      BY <2>2 DEF Restart, Goto
    <3>2. collect'.pc = "idle"
      BY <3>1 DEF TypeOK
    <3> QED
      BY <1>i, <1>b, <3>1, <3>2 DEF CollectInvariant
  <2>3. CASE Read \/ WriteChunk \/ WriteManifest \/ SaveState \/ Inspect
    <3>1. /\ second' = second /\ deaths' = deaths /\ litter' = litter /\ collect.pc # "down"
          /\ collect'.pc # "down"
      BY <2>3, CollectTypes DEF Read, WriteChunk, WriteManifest, SaveState, Inspect, Goto, TypeOK
    <3> QED
      BY <1>i, <1>b, <3>1 DEF CollectInvariant
  <2>4. CASE ~(InspectRaises \/ Die \/ Restart \/ Read \/ WriteChunk \/ WriteManifest
               \/ SaveState \/ Inspect)
    <3>1. /\ second' = second /\ litter' = litter /\ collect' = collect
          /\ deaths' = deaths \/ deaths' = deaths + 1
      BY <2>4 DEF Next, Record, Midnight, OpenDailyFile, Collect, Missing, Cleanup, PruneScan,
         PruneSnapshot, PruneManifest, PruneDies, vars, archiveVars
    <3> QED
      BY <1>i, <1>b, <3>1 DEF CollectInvariant
  <2> QED
    BY <2>1, <2>2, <2>3, <2>4
<1>2. /\ collect'.pc \notin {"idle", "down"} => collect'.chunk.day \in Day
      /\ collect'.pc \in {"chunk", "manifest", "state"} =>
           /\ collect'.chunk.whole
           /\ collect'.chunk.from <= state'[collect'.chunk.day].offset
           /\ collect'.chunk.to <= Lines(file'[collect'.chunk.day])
      /\ collect'.pc = "state" => collect'.chunk \in archive'
  <2>1. CASE Read
    <3>1. /\ collect'.chunk = NextChunk(today, file[today]) /\ state' = state /\ file' = file
          /\ collect'.pc \in {"chunk", "inspect"}
      BY <2>1 DEF Read, feedVars
    <3>2. today \in Day
      BY DEF TypeOK
    <3>3. /\ collect'.chunk.whole /\ collect'.chunk.day = today
          /\ collect'.chunk.from <= state[today].offset
          /\ collect'.chunk.to = Lines(file[today])
      BY <1>i, <3>1, <3>2, NextChunkTypes
    <3> QED
      BY <1>b, <3>1, <3>2, <3>3
  <2>2. CASE WriteChunk
    <3>1. /\ collect.pc = "chunk" /\ state' = state /\ file' = file
          /\ collect' = [pc |-> "manifest",
                         chunk |-> [collect.chunk EXCEPT !.whole = collect.chunk \notin litter]]
      BY <2>2 DEF WriteChunk, feedVars
    <3>2. litter = {}
      BY <1>i, <3>1 DEF CollectInvariant
    <3>3. /\ collect'.chunk.whole = TRUE /\ collect'.chunk.day = collect.chunk.day
          /\ collect'.chunk.from = collect.chunk.from /\ collect'.chunk.to = collect.chunk.to
      BY <1>b, <3>1, <3>2 DEF Chunk
    <3> QED
      BY <1>i, <3>1, <3>3 DEF CollectInvariant
  <2>3. CASE WriteManifest
    <3>1. /\ collect.pc = "manifest" /\ state' = state /\ file' = file
          /\ archive' = archive \union {collect.chunk}
          /\ collect' = [collect EXCEPT !.pc = "state"]
      BY <2>3 DEF WriteManifest, Goto, feedVars
    <3>2. collect'.pc = "state" /\ collect'.chunk = collect.chunk
      BY <3>1 DEF TypeOK
    <3> QED
      BY <1>i, <3>1, <3>2 DEF CollectInvariant
  <2>4. CASE SaveState
    <3>1. /\ collect.pc = "state" /\ collect' = [collect EXCEPT !.pc = "inspect"]
      BY <2>4 DEF SaveState, Goto
    <3>2. collect'.pc = "inspect" /\ collect'.chunk = collect.chunk
      BY <3>1 DEF TypeOK
    <3> QED
      BY <1>i, <3>1, <3>2 DEF CollectInvariant
  <2>5. CASE Inspect \/ InspectRaises \/ Die \/ Restart
    <3>1. \E pc \in {"idle", "down"} : collect' = [collect EXCEPT !.pc = pc]
      BY <2>5 DEF Inspect, InspectRaises, Die, Restart, Goto
    <3>2. collect'.pc \in {"idle", "down"}
      BY <3>1 DEF TypeOK
    <3> QED
      BY <3>2
  <2>6. CASE ~(Read \/ WriteChunk \/ WriteManifest \/ SaveState \/ Inspect \/ InspectRaises
               \/ Die \/ Restart)
    <3>1. collect' = collect /\ state' = state /\ archive' = archive
      BY <2>6 DEF Next, Record, Midnight, OpenDailyFile, Collect, Missing, Cleanup, PruneScan,
         PruneSnapshot, PruneManifest, PruneDies, vars, archiveVars
    <3>2. collect.pc \in {"chunk", "manifest", "state"}
            => collect.chunk.to <= Lines(file'[collect.chunk.day])
      <4>1. ASSUME collect.pc \in {"chunk", "manifest", "state"}
            PROVE  collect.chunk.to <= Lines(file'[collect.chunk.day])
        <5>1. collect.chunk.day \in Day /\ collect.chunk.to <= Lines(file[collect.chunk.day])
          BY <1>i, <4>1 DEF CollectInvariant
        <5>2. collect.chunk.to \in Nat
          BY CollectTypes
        <5> QED
          BY <1>t, <1>b, <5>1, <5>2
      <4> QED
        BY <4>1
    <3> QED
      BY <1>i, <3>1, <3>2 DEF CollectInvariant
  <2> QED
    BY <2>1, <2>2, <2>3, <2>4, <2>5, <2>6
<1>3. \A c \in archive' : /\ c.day \in Day /\ c.whole
                          /\ c.to <= Lines(file'[c.day]) /\ Covered(c.day, c.from)'
  <2>1. ASSUME NEW c \in archive
        PROVE  /\ c.day \in Day /\ c.whole
               /\ c.to <= Lines(file'[c.day]) /\ Covered(c.day, c.from)'
    <3>1. c.day \in Day /\ c.whole /\ c.to <= Lines(file[c.day]) /\ Covered(c.day, c.from)
      BY <1>i DEF CollectInvariant
    <3>2. c.to \in Nat
      BY <1>b DEF Chunk
    <3>3. Covered(c.day, c.from)'
      BY <1>a, <3>1 DEF Covered
    <3> QED
      BY <1>t, <1>b, <3>1, <3>2, <3>3
  <2>2. ASSUME WriteManifest, NEW c, c = collect.chunk, archive' = archive \union {c}
        PROVE  /\ c.day \in Day /\ c.whole
               /\ c.to <= Lines(file'[c.day]) /\ Covered(c.day, c.from)'
    <3>1. /\ c.day \in Day /\ c.whole /\ c.to <= Lines(file[c.day])
          /\ c.from <= state[c.day].offset /\ file' = file
      BY <1>i, <2>2 DEF WriteManifest, CollectInvariant, feedVars
    <3>2. Covered(c.day, state[c.day].offset) /\ c.from \in Nat /\ state[c.day].offset \in Nat
      BY <1>i, <2>2, <3>1, CollectTypes
    <3>3. Covered(c.day, c.from)
      BY <3>1, <3>2 DEF Covered
    <3>4. Covered(c.day, c.from)'
      BY <2>2, <3>3 DEF Covered
    <3> QED
      BY <3>1, <3>4
  <2> QED
    BY <1>a, <2>1, <2>2
<1>4. \A d \in Day : Covered(d, state[d].offset)' /\ state'[d].last \in archive' \union {NoChunk}
  <2>1. CASE SaveState
    <3> DEFINE c == collect.chunk
    <3>1. /\ state' = [state EXCEPT ![c.day] = [offset |-> c.to, last |-> c]]
          /\ archive' = archive /\ c \in archive /\ c.day \in Day /\ c.whole
      BY <1>i, <2>1 DEF SaveState, CollectInvariant
    <3>2. c.from \in Nat /\ c.to \in Nat /\ Covered(c.day, c.from)
      BY <1>i, <3>1, CollectTypes DEF CollectInvariant
    <3>3. Covered(c.day, c.to)
      BY <3>1, <3>2, ChunkCovers
    <3>4. ASSUME NEW d \in Day
          PROVE  /\ state'[d].offset = IF d = c.day THEN c.to ELSE state[d].offset
                 /\ state'[d].last = IF d = c.day THEN c ELSE state[d].last
      BY <3>1 DEF TypeOK
    <3>5. ASSUME NEW d \in Day
          PROVE  Covered(d, state'[d].offset)
      BY <1>i, <3>3, <3>4
    <3> QED
      BY <1>i, <3>1, <3>4, <3>5 DEF Covered, CollectInvariant
  <2>2. CASE ~SaveState
    <3>1. state' = state
      BY <2>2 DEF Next, Record, Midnight, OpenDailyFile, Collect, Missing, Read, WriteChunk,
         WriteManifest, Inspect, Restart, InspectRaises, Die, Cleanup, PruneScan,
         PruneSnapshot, PruneManifest, PruneDies, vars, archiveVars
    <3>2. archive \subseteq archive'
      BY <1>a
    <3> QED
      BY <1>i, <3>1, <3>2 DEF Covered, CollectInvariant
  <2> QED
    BY <2>1, <2>2
<1>5. health'.snapshot \in archive' \union {NoChunk}
  <2>1. CASE Missing
    BY <2>1 DEF Missing
  <2>2. CASE Inspect
    <3>1. health'.snapshot = state[collect.chunk.day].last /\ collect.chunk.day \in Day
      BY <1>i, <2>2 DEF Inspect, CollectInvariant
    <3> QED
      BY <1>i, <1>a, <3>1 DEF CollectInvariant
  <2>3. CASE ~(Missing \/ Inspect)
    <3>1. health' = health
      BY <2>3 DEF Next, Record, Midnight, OpenDailyFile, Collect, Read, WriteChunk,
         WriteManifest, SaveState, Restart, InspectRaises, Die, Cleanup, PruneScan,
         PruneSnapshot, PruneManifest, PruneDies, vars, archiveVars
    <3> QED
      BY <1>i, <1>a, <3>1
  <2> QED
    BY <2>1, <2>2, <2>3
<1> QED
  BY <1>1, <1>2, <1>3, <1>4, <1>5 DEF ArchiveInvariant, CollectInvariant, ArchiveComplete, Covered

-----------------------------------------------------------------------------
(* The cleanup                                                             *)

LEMMA PruneInit == Init => PruneInvariant
  BY DEF Init, PruneInvariant

\* What a cleanup step does to the snapshots that can be read.
LEMMA PruneFacts ==
    ASSUME TypeOK, PruneInvariant, [Next]_vars
    PROVE  /\ PruneInvariant'
           /\ \A n \in DOMAIN legacy : Sound(n) =>
                \E k \in DOMAIN legacy : n <= k /\ Sound(k)'
           /\ DOMAIN legacy' = DOMAIN legacy
<1> USE ArchiveAssumption
<1>1. PICK longest \in Nat : Snapshots \subseteq 0 .. longest
  OBVIOUS
<1>2. /\ DOMAIN legacy \in SUBSET Nat /\ DOMAIN legacy \in SUBSET (0 .. longest)
      /\ prune \subseteq DOMAIN legacy /\ Named \subseteq DOMAIN legacy
      /\ \A n \in DOMAIN legacy : n <= n
  <2>1. DOMAIN legacy \subseteq Snapshots /\ prune \subseteq DOMAIN legacy
    BY DEF TypeOK
  <2>2. \A n \in 0 .. longest : n <= n
    OBVIOUS
  <2> QED
    BY <1>1, <2>1, <2>2 DEF Named
<1>3. \A n \in DOMAIN legacy :
        legacy[n] \in [snapshot : {"whole", "cut", "gone"}, manifest : BOOLEAN]
  BY DEF TypeOK
<1>4. CASE PruneScan
  <2>1. /\ prune' = Named \ {Max(Named)} /\ legacy' = legacy /\ Named # {}
        /\ \A n \in Named : Sound(n)
    BY <1>4 DEF PruneScan
  <2>2. Max(Named) \in Named /\ \A n \in Named : n <= Max(Named)
    BY <1>1, <1>2, <2>1, LargestMember
  <2>3. \E kept \in DOMAIN legacy \ prune' : Sound(kept) /\ \A n \in prune' : n <= kept
    BY <1>2, <2>1, <2>2
  <2> QED
    BY <1>2, <2>1, <2>3 DEF PruneInvariant, Sound
<1>5. CASE PruneSnapshot
  <2>1. /\ prune # {} /\ prune' = prune
        /\ legacy' = [legacy EXCEPT ![Min(prune)].snapshot = "gone"]
    BY <1>5 DEF PruneSnapshot
  <2>2. Min(prune) \in prune
    <3>1. prune \in SUBSET Nat
      BY <1>2
    <3> QED
      BY <2>1, <3>1, SmallestMember
  <2>3. PICK kept \in DOMAIN legacy \ prune : Sound(kept) /\ \A n \in prune : n <= kept
    BY <2>1 DEF PruneInvariant
  <2>4. /\ DOMAIN legacy' = DOMAIN legacy
        /\ \A n \in DOMAIN legacy : n # Min(prune) => legacy'[n] = legacy[n]
    BY <2>1
  <2>5. \A n \in DOMAIN legacy : n # Min(prune) /\ Sound(n) => Sound(n)'
    BY <2>4 DEF Sound
  <2>6. Sound(kept)'
    BY <2>2, <2>3, <2>5
  <2> QED
    BY <1>2, <2>1, <2>2, <2>3, <2>4, <2>5, <2>6 DEF PruneInvariant
<1>6. CASE PruneManifest
  <2>1. /\ prune # {} /\ legacy[Min(prune)].snapshot = "gone"
        /\ legacy' = [legacy EXCEPT ![Min(prune)].manifest = FALSE]
        /\ prune' = prune \ {Min(prune)}
    BY <1>6 DEF PruneManifest
  <2>3. PICK kept \in DOMAIN legacy \ prune : Sound(kept) /\ \A n \in prune : n <= kept
    BY <2>1 DEF PruneInvariant
  <2>4. /\ DOMAIN legacy' = DOMAIN legacy
        /\ \A n \in DOMAIN legacy : n # Min(prune) => legacy'[n] = legacy[n]
    BY <2>1
  <2>5. \A n \in DOMAIN legacy : Sound(n) => n # Min(prune)
    BY <2>1 DEF Sound
  <2>6. \A n \in DOMAIN legacy : Sound(n) => Sound(n)'
    BY <2>4, <2>5 DEF Sound
  <2> QED
    BY <1>2, <2>1, <2>3, <2>4, <2>6 DEF PruneInvariant
<1>7. CASE ~(PruneScan \/ PruneSnapshot \/ PruneManifest)
  <2>1. legacy' = legacy /\ (prune' = prune \/ prune' = {})
    BY <1>7 DEF Next, Record, Midnight, OpenDailyFile, Collect, Missing, Read, WriteChunk,
       WriteManifest, SaveState, Inspect, Restart, InspectRaises, Die, Cleanup,
       PruneDies, vars, pruneVars
  <2> QED
    BY <1>2, <2>1 DEF PruneInvariant, Sound
<1> QED
  BY <1>4, <1>5, <1>6, <1>7

\* The lines of some chunks, and of some snapshots.
OfChunks(chunks) == UNION {{<<c.day, l>> : l \in (c.from + 1) .. c.to} : c \in chunks}
OfSnapshots(snapshots) == UNION {{<<0, l>> : l \in 1 .. n} : n \in snapshots}

LEMMA ChunkLines ==
    ASSUME NEW chunks, NEW r
    PROVE  r \in OfChunks(chunks)
             <=> \E c \in chunks : \E l \in (c.from + 1) .. c.to : r = <<c.day, l>>
<1> DEFINE lines(c) == {<<c.day, l>> : l \in (c.from + 1) .. c.to}
<1>1. \A c : r \in lines(c) <=> \E l \in (c.from + 1) .. c.to : r = <<c.day, l>>
  OBVIOUS
<1> HIDE DEF lines
<1>2. r \in UNION {lines(c) : c \in chunks} <=> \E c \in chunks : r \in lines(c)
  OBVIOUS
<1> QED
  BY <1>1, <1>2 DEF lines, OfChunks

LEMMA SnapshotLines ==
    ASSUME NEW snapshots, NEW r
    PROVE  r \in OfSnapshots(snapshots)
             <=> \E n \in snapshots : \E l \in 1 .. n : r = <<0, l>>
<1> DEFINE lines(n) == {<<0, l>> : l \in 1 .. n}
<1>1. \A n : r \in lines(n) <=> \E l \in 1 .. n : r = <<0, l>>
  OBVIOUS
<1> HIDE DEF lines
<1>2. r \in UNION {lines(n) : n \in snapshots} <=> \E n \in snapshots : r \in lines(n)
  OBVIOUS
<1> QED
  BY <1>1, <1>2 DEF lines, OfSnapshots

\* What is archived stays archived in a step.
LEMMA LinesStay ==
    ASSUME TypeOK, PruneInvariant, [Next]_vars
    PROVE  ArchivedLines \subseteq ArchivedLines'
<1> USE ArchiveAssumption
<1> DEFINE Chunks == {c \in archive : c.whole}
           Kept == {k \in DOMAIN legacy : Sound(k)}
<1>1. Chunks \subseteq Chunks'
  <2>1. archive \subseteq archive'
    BY DEF Next, Record, Midnight, OpenDailyFile, Collect, Missing, Read, WriteChunk,
       WriteManifest, SaveState, Inspect, Restart, InspectRaises, Die, Cleanup, PruneScan,
       PruneSnapshot, PruneManifest, PruneDies, vars, archiveVars
  <2> QED
    BY <2>1
<1>2. \A n \in Kept : \E k \in Kept' : n <= k
  BY PruneFacts
<1>3. Kept \subseteq Nat /\ Kept' \subseteq Nat
  BY PruneFacts DEF TypeOK
<1>4. ArchivedLines = OfChunks(Chunks)
 \cup OfSnapshots(Kept)
  BY DEF ArchivedLines, OfChunks, OfSnapshots
<1>5. ArchivedLines' = OfChunks(Chunks')
  \cup OfSnapshots(Kept')
  BY DEF ArchivedLines, OfChunks, OfSnapshots
<1> HIDE DEF Chunks, Kept
<1>6. ASSUME NEW r \in ArchivedLines
      PROVE  r \in ArchivedLines'
  <2>1. CASE r \in OfSnapshots(Kept)
    <3>1. PICK n \in Kept : \E l \in 1 .. n : r = <<0, l>>
      BY <2>1, SnapshotLines
    <3>a. PICK l \in 1 .. n : r = <<0, l>>
      BY <3>1
    <3>2. PICK k \in Kept' : n <= k
      BY <1>2
    <3>3. l \in 1 .. k
      BY <1>3, <3>2
    <3>4. r \in OfSnapshots(Kept')
      BY <3>a, <3>3, SnapshotLines
    <3> QED
      BY <1>5, <3>4
  <2>2. CASE r \in OfChunks(Chunks)
    <3>1. PICK c \in Chunks : \E l \in (c.from + 1) .. c.to : r = <<c.day, l>>
      BY <2>2, ChunkLines
    <3>2. r \in OfChunks(Chunks')
      BY <1>1, <3>1, ChunkLines
    <3> QED
      BY <1>5, <3>2
  <2> QED
    BY <1>4, <2>1, <2>2
<1> QED
  BY <1>6

-----------------------------------------------------------------------------
(* The data set                                                            *)

TicksOfChunks(chunks) == UNION {{<<c.day, l>> : l \in Ticks(c.from, c.to)} : c \in chunks}
TicksOfSnapshots(snapshots) == UNION {{<<0, l>> : l \in Ticks(0, n)} : n \in snapshots}

LEMMA ChunkTicks ==
    ASSUME NEW chunks, NEW r
    PROVE  r \in TicksOfChunks(chunks)
             <=> \E c \in chunks : \E l \in Ticks(c.from, c.to) : r = <<c.day, l>>
<1> DEFINE ticks(c) == {<<c.day, l>> : l \in Ticks(c.from, c.to)}
<1>1. \A c : r \in ticks(c) <=> \E l \in Ticks(c.from, c.to) : r = <<c.day, l>>
  OBVIOUS
<1> HIDE DEF ticks
<1>2. r \in UNION {ticks(c) : c \in chunks} <=> \E c \in chunks : r \in ticks(c)
  OBVIOUS
<1> QED
  BY <1>1, <1>2 DEF ticks, TicksOfChunks

LEMMA SnapshotTicks ==
    ASSUME NEW snapshots, NEW r \in TicksOfSnapshots(snapshots)
    PROVE  r[1] = 0
  BY DEF TicksOfSnapshots

\* The chunks of a day are a prefix of it, and so is what a data set has of it.
LEMMA DatasetIsExact ==
    ASSUME TypeOK, ArchiveInvariant
    PROVE  DatasetExact
<1> USE ArchiveAssumption
<1> SUFFICES ASSUME NEW selected \in Selections, NEW d \in Day
             PROVE  \E l \in 0 .. Lines(file[d]) :
                      {r \in Dataset(selected) : r[1] = d} = {<<d, k>> : k \in Ticks(0, l)}
  BY DEF DatasetExact
<1> DEFINE Whole == {c \in archive : c.whole}
           Chunks == {c \in archive : c.day = d}
           Tops == {c.to : c \in Chunks}
<1>1. \A c \in archive : /\ c \in Chunk /\ c.day \in Day /\ c.whole
                         /\ c.to <= Lines(file[c.day]) /\ Covered(c.day, c.from)
                         /\ c.from \in Nat /\ c.to \in 0 .. MaxHalves
  <2>1. \A c \in archive : c \in Chunk
    BY DEF TypeOK
  <2>2. \A c \in Chunk : c.from \in Nat /\ c.to \in 0 .. MaxHalves
    BY DEF Chunk
  <2> QED
    BY <2>1, <2>2 DEF ArchiveInvariant, CollectInvariant
<1>2. d # 0
  BY DEF Day
<1>3. Lines(file[d]) \in Nat
  <2>1. file[d] \in Nat
    BY CollectTypes
  <2> QED
    BY <2>1, LinesOfHalves
<1>4. \A r : r \in Dataset(selected) /\ r[1] = d
               <=> \E c \in Chunks : \E k \in Ticks(c.from, c.to) : r = <<d, k>>
  <2> TAKE r
  <2>1. Dataset(selected) = TicksOfChunks(Whole)
                              \union TicksOfSnapshots({k \in selected : Sound(k)})
    BY DEF Dataset, TicksOfChunks, TicksOfSnapshots
  <2>2. Whole = archive
    BY <1>1
  <2>3. r \in Dataset(selected) /\ r[1] = d <=> r \in TicksOfChunks(archive) /\ r[1] = d
    BY <1>2, <2>1, <2>2, SnapshotTicks
  <2>4. r \in TicksOfChunks(archive)
          <=> \E c \in archive : \E k \in Ticks(c.from, c.to) : r = <<c.day, k>>
    BY ChunkTicks
  <2>5. (\E c \in archive : \E k \in Ticks(c.from, c.to) : r = <<c.day, k>>) /\ r[1] = d
          <=> \E c \in Chunks : \E k \in Ticks(c.from, c.to) : r = <<d, k>>
    OBVIOUS
  <2> QED
    BY <2>3, <2>4, <2>5
<1>5. CASE Chunks = {}
  <2>1. Ticks(0, 0) = {}
    BY DEF Ticks
  <2>2. {r \in Dataset(selected) : r[1] = d} = {<<d, k>> : k \in Ticks(0, 0)}
    BY <1>4, <1>5, <2>1
  <2> QED
    BY <1>3, <2>2
<1>6. CASE Chunks # {}
  <2>1. Max(Tops) \in Tops /\ \A n \in Tops : n <= Max(Tops)
    <3>1. Tops \in SUBSET (0 .. MaxHalves) /\ Tops # {}
      BY <1>1, <1>6
    <3> HIDE DEF Tops
    <3> QED
      BY <3>1, LargestMember
  <2>2. PICK last \in Chunks : last.to = Max(Tops)
    BY <2>1
  <2>3. /\ last.to \in 0 .. Lines(file[d]) /\ \A c \in Chunks : c.to <= last.to
        /\ last.to \in Nat
    BY <1>1, <1>3, <2>1, <2>2
  <2>4. Covered(d, last.to)
    BY <1>1, <2>2, <2>3, ChunkCovers
  <2>5. ASSUME NEW c \in Chunks, NEW k \in Ticks(c.from, c.to)
        PROVE  k \in Ticks(0, last.to)
    BY <1>1, <2>3, <2>5 DEF Ticks
  <2>6. ASSUME NEW k \in Ticks(0, last.to)
        PROVE  \E c \in Chunks : k \in Ticks(c.from, c.to)
    <3>1. k \in 1 .. last.to /\ k > 1 /\ k \notin Heartbeats
      BY <2>3 DEF Ticks
    <3>2. PICK c \in archive : c.day = d /\ c.from < k /\ k <= c.to
      BY <2>4, <3>1 DEF Covered
    <3>3. k \in Ticks(c.from, c.to)
      BY <1>1, <3>1, <3>2 DEF Ticks
    <3> QED
      BY <3>2, <3>3
  <2>7. {r \in Dataset(selected) : r[1] = d} = {<<d, k>> : k \in Ticks(0, last.to)}
    BY <1>4, <2>5, <2>6
  <2> QED
    BY <2>3, <2>7
<1> QED
  BY <1>5, <1>6

-----------------------------------------------------------------------------
(* The quality report                                                      *)

\* There are finitely many chunks.
LEMMA ChunksFinite == IsFiniteSet(Chunk)
<1> USE ArchiveAssumption
<1> DEFINE Parts == (0 .. Days) \X ((0 .. MaxDeaths) \X ((0 .. MaxHalves) \X ((0 .. MaxHalves) \X BOOLEAN)))
           Made(p) == [day |-> p[1], second |-> p[2][1], from |-> p[2][2][1],
                       to |-> p[2][2][2][1], whole |-> p[2][2][2][2]]
           make == [p \in Parts |-> Made(p)]
           Image == {Made(p) : p \in Parts}
<1>1. IsFiniteSet(Parts)
  <2>1. IsFiniteSet(BOOLEAN)
    <3>1. IsFiniteSet({TRUE}) /\ IsFiniteSet({FALSE})
      BY FS_Singleton
    <3>2. IsFiniteSet({TRUE} \union {FALSE})
      BY <3>1, FS_Union
    <3>3. BOOLEAN = {TRUE} \union {FALSE}
      OBVIOUS
    <3> QED
      BY <3>2, <3>3
  <2>2. IsFiniteSet(0 .. Days) /\ IsFiniteSet(0 .. MaxDeaths) /\ IsFiniteSet(0 .. MaxHalves)
    BY FS_Interval
  <2>3. IsFiniteSet((0 .. MaxHalves) \X BOOLEAN)
    BY <2>1, <2>2, FS_Product
  <2>4. IsFiniteSet((0 .. MaxHalves) \X ((0 .. MaxHalves) \X BOOLEAN))
    BY <2>2, <2>3, FS_Product
  <2>5. IsFiniteSet((0 .. MaxDeaths) \X ((0 .. MaxHalves) \X ((0 .. MaxHalves) \X BOOLEAN)))
    BY <2>2, <2>4, FS_Product
  <2> QED
    BY <2>2, <2>5, FS_Product
<1>2. make \in Surjection(Parts, Image)
  BY DEF Surjection
<1>3. IsFiniteSet(Image)
  BY <1>1, <1>2, FS_Surjection
<1>4. Chunk \subseteq Image
  <2> SUFFICES ASSUME NEW c \in Chunk
               PROVE  c \in Image
    OBVIOUS
  <2>1. /\ c.day \in 0 .. Days /\ c.second \in 0 .. MaxDeaths /\ c.from \in 0 .. MaxHalves
        /\ c.to \in 0 .. MaxHalves /\ c.whole \in BOOLEAN
        /\ c = [day |-> c.day, second |-> c.second, from |-> c.from, to |-> c.to, whole |-> c.whole]
    BY DEF Chunk, Day
  <2> DEFINE p == <<c.day, <<c.second, <<c.from, <<c.to, c.whole>>>>>>>>
  <2>2. p \in Parts
    BY <2>1
  <2>3. Made(p) = c
    BY <2>1
  <2> QED
    BY <2>2, <2>3
<1> QED
  BY <1>3, <1>4, FS_Subset

\* What is read is finite, and a row of the data set is a row that is read.
LEMMA RowsFinite ==
    ASSUME TypeOK, NEW selected \in Selections
    PROVE  IsFiniteSet(RowsRead(selected))
<1> USE ArchiveAssumption
<1>1. PICK longest \in Snapshots \cup {0} : Snapshots \subseteq 0 .. longest
  OBVIOUS
<1>2. longest \in Nat
  BY <1>1
<1> DEFINE Files == archive \cup (0 .. longest)
           All == (0 .. Days) \X ((0 .. MaxHalves + longest) \X Files)
           Plain(t) == <<t[1], t[2][1], t[2][2]>>
           flat == [t \in All |-> Plain(t)]
           Image == {Plain(t) : t \in All}
<1>3. IsFiniteSet(archive)
  BY ChunksFinite, FS_Subset DEF TypeOK
<1>4. IsFiniteSet(All)
  <2>1. IsFiniteSet(Files)
    <3>1. IsFiniteSet(0 .. longest)
      BY <1>2, FS_Interval
    <3> QED
      BY <1>3, <3>1, FS_Union
  <2>2. IsFiniteSet(0 .. Days) /\ IsFiniteSet(0 .. MaxHalves + longest)
    BY <1>2, FS_Interval
  <2>3. IsFiniteSet((0 .. MaxHalves + longest) \X Files)
    BY <2>1, <2>2, FS_Product
  <2> QED
    BY <2>2, <2>3, FS_Product
<1>5. IsFiniteSet(Image)
  <2>1. flat \in Surjection(All, Image)
    BY DEF Surjection
  <2> QED
    BY <1>4, <2>1, FS_Surjection
<1>6. ASSUME NEW c \in archive, NEW l \in Ticks(c.from, c.to)
      PROVE  <<c.day, l, c>> \in Image
  <2>1. c \in Chunk
    BY DEF TypeOK
  <2>2. c.day \in 0 .. Days /\ c.from \in 0 .. MaxHalves /\ c.to \in 0 .. MaxHalves
    BY <2>1 DEF Chunk, Day
  <2>3. l \in 0 .. MaxHalves + longest
    BY <1>2, <2>2 DEF Ticks
  <2>4. <<c.day, <<l, c>>>> \in All
    BY <2>2, <2>3
  <2>5. Plain(<<c.day, <<l, c>>>>) = <<c.day, l, c>>
    OBVIOUS
  <2> QED
    BY <2>4, <2>5
<1>7. ASSUME NEW n \in selected, NEW l \in Ticks(0, n)
      PROVE  <<0, l, n>> \in Image
  <2>1. n \in 0 .. longest
    <3>1. selected \subseteq DOMAIN legacy
      BY DEF Selections, Named
    <3> QED
      BY <1>1, <3>1 DEF TypeOK
  <2>2. l \in 0 .. MaxHalves + longest
    BY <1>2, <2>1 DEF Ticks
  <2>3. <<0, <<l, n>>>> \in All
    BY <2>1, <2>2
  <2>4. Plain(<<0, <<l, n>>>>) = <<0, l, n>>
    OBVIOUS
  <2> QED
    BY <2>3, <2>4
<1> HIDE DEF Image
<1>8. RowsRead(selected) \subseteq Image
  BY <1>6, <1>7 DEF RowsRead
<1> QED
  BY <1>5, <1>8, FS_Subset

\* Without a second copy of a row there are as many rows as are read.
LEMMA ReadyIsOnce ==
    ASSUME TypeOK
    PROVE  ReadyCountsOnce
<1> SUFFICES ASSUME NEW selected \in Selections,
                    Report(selected).status \in {"ready_for_24h_checkpoint", "ready_for_48h_review"}
             PROVE  Report(selected).ticks = Cardinality(Dataset(selected))
  BY DEF ReadyCountsOnce
<1> DEFINE Copies == RowsRead(selected)
           Again == {r \in Copies : r # FirstSeen(Copies, r)}
           row == [r \in Copies |-> <<r[1], r[2]>>]
<1>1. IsFiniteSet(Copies) /\ IsFiniteSet(Again)
  BY RowsFinite, FS_Subset
<1>2. Again = {}
  <2>1. ~(Duplicates(selected) > 0)
    <3>1. \A rows : ReportStatus(rows, TRUE) = "quality_errors"
      BY DEF ReportStatus
    <3>2. CASE Duplicates(selected) > 0
      <4>1. Report(selected).status = "quality_errors"
        BY <3>1, <3>2 DEF Report
      <4> QED
        BY <4>1
    <3> QED
      BY <3>2
  <2>2. Cardinality(Again) \in Nat /\ Duplicates(selected) = Cardinality(Again)
    BY <1>1, FS_CardinalityType DEF Duplicates
  <2> HIDE DEF Again
  <2>3. Cardinality(Again) = 0
    BY <2>1, <2>2
  <2> QED
    BY <1>1, <2>3, FS_EmptySet
<1>3. row \in Injection(Copies, Dataset(selected))
  <2>1. row \in [Copies -> Dataset(selected)]
    BY DEF RowsRead, Dataset
  <2>2. ASSUME NEW q \in Copies, NEW r \in Copies, row[q] = row[r]
        PROVE  q = r
    <3>1. q[1] = r[1] /\ q[2] = r[2]
      BY <2>2
    <3>2. FirstSeen(Copies, q) = FirstSeen(Copies, r)
      BY <3>1 DEF FirstSeen
    <3>3. q = FirstSeen(Copies, q) /\ r = FirstSeen(Copies, r)
      BY <1>2
    <3> QED
      BY <3>2, <3>3
  <2> QED
    BY <2>1, <2>2 DEF Injection, IsInjective
<1>4. row \in Surjection(Copies, Dataset(selected))
  <2>1. ASSUME NEW d \in Dataset(selected)
        PROVE  \E r \in Copies : row[r] = d
    <3>1. CASE \E c \in {a \in archive : a.whole} : \E l \in Ticks(c.from, c.to) : d = <<c.day, l>>
      <4>1. PICK c \in {a \in archive : a.whole} : \E l \in Ticks(c.from, c.to) : d = <<c.day, l>>
        BY <3>1
      <4>2. PICK l \in Ticks(c.from, c.to) : d = <<c.day, l>>
        BY <4>1
      <4>3. <<c.day, l, c>> \in Copies
        BY <4>2 DEF RowsRead
      <4>4. row[<<c.day, l, c>>] = d
        BY <4>2, <4>3
      <4> QED
        BY <4>3, <4>4
    <3>2. CASE \E n \in {k \in selected : Sound(k)} : \E l \in Ticks(0, n) : d = <<0, l>>
      <4>1. PICK n \in {k \in selected : Sound(k)} : \E l \in Ticks(0, n) : d = <<0, l>>
        BY <3>2
      <4>2. PICK l \in Ticks(0, n) : d = <<0, l>>
        BY <4>1
      <4>3. <<0, l, n>> \in Copies
        BY <4>2 DEF RowsRead
      <4>4. row[<<0, l, n>>] = d
        BY <4>2, <4>3
      <4> QED
        BY <4>3, <4>4
    <3> QED
      BY <2>1, <3>1, <3>2 DEF Dataset
  <2>2. row \in [Copies -> Dataset(selected)]
    BY <1>3 DEF Injection
  <2> QED
    BY <2>1, <2>2 DEF Surjection
<1>5. Cardinality(Dataset(selected)) = Cardinality(Copies)
  BY <1>1, <1>3, <1>4, FS_Surjection
<1> QED
  BY <1>5 DEF Report, TickTotal

\* Every reachable state of the collector and the cleanup is one of the types,
\* and the chunks and the snapshots are in order.
THEOREM ArchiveAlways == Spec => [](TypeOK /\ ArchiveInvariant /\ PruneInvariant)
<1>1. Init => TypeOK /\ ArchiveInvariant /\ PruneInvariant
  BY ArchiveTypeInit, ArchiveInit, PruneInit
<1>2. TypeOK /\ ArchiveInvariant /\ PruneInvariant /\ [Next]_vars
        => (TypeOK /\ ArchiveInvariant /\ PruneInvariant)'
  BY ArchiveTypeStep, ArchiveStep, PruneFacts DEF ArchiveInvariant
<1> QED
  BY <1>1, <1>2, PTL DEF Spec

\* What the saved offset has passed is in whole chunks with their manifests,
\* however many calls died between chunk, manifest and state.
THEOREM ArchiveCompleteAlways == Spec => []ArchiveComplete
<1>1. ArchiveInvariant => ArchiveComplete
  BY DEF ArchiveInvariant
<1> QED
  BY <1>1, ArchiveAlways, PTL

\* A data set that is built is a prefix of the ticks of each day.
THEOREM DatasetExactAlways == Spec => []DatasetExact
<1>1. TypeOK /\ ArchiveInvariant => DatasetExact
  BY DatasetIsExact
<1> QED
  BY <1>1, ArchiveAlways, PTL

\* A report that calls the archive ready counts each recorded tick once,
\* whatever was archived twice after a death.
THEOREM ReadyCountsOnceAlways == Spec => []ReadyCountsOnce
<1>1. TypeOK => ReadyCountsOnce
  BY ReadyIsOnce
<1> QED
  BY <1>1, ArchiveAlways, PTL

\* Lines once readable in the archive stay readable: no cleanup, cut short or
\* not, takes the last copy away.
THEOREM ArchivedStaysAlways == Spec => ArchivedStays
<1>1. TypeOK /\ PruneInvariant /\ [Next]_vars => [ArchivedLines \subseteq ArchivedLines']_vars
  BY LinesStay
<1> QED
  BY <1>1, ArchiveAlways, PTL DEF Spec, ArchivedStays

-----------------------------------------------------------------------------
(* The engine's reader: types                                              *)

LEMMA LinesTyped ==
    ASSUME NEW d \in Day, NEW from \in Nat, NEW to \in Nat
    PROVE  /\ LinesOf(d, from, to) \subseteq AnyLine
           /\ Torn(d, from, to) \subseteq AnyLine
           /\ \A guess \in Guesses(d, from, to) : guess \subseteq AnyLine
<1>1. Lines(to) \in Nat
  BY LinesOfHalves
<1>2. LinesOf(d, from, to) \subseteq AnyLine
  BY <1>1 DEF LinesOf, AnyLine
<1>3. Torn(d, from, to) \subseteq AnyLine
  BY <1>1 DEF Torn, AnyLine
<1> QED
  BY <1>2, <1>3 DEF Guesses

ReaderRecord == [pc : {"idle", "warm", "size", "stat", "read", "save"}, day : 0 .. Days,
                 size : Nat, cursors : [Day -> Nat], batch : SUBSET AnyLine,
                 gap : SUBSET AnyLine, ahead : SUBSET AnyLine]

LEMMA ReaderTypes ==
    ASSUME ReaderTypeOK
    PROVE  /\ Feed /\ reader \in ReaderRecord
           /\ \A d \in Day : /\ file[d] \in Nat /\ saved.cursors[d] \in Nat
                             /\ reader.cursors[d] \in Nat
           /\ reader.size \in Nat /\ reader.day \in 0 .. Days
           /\ taken \subseteq AnyLine /\ edges.lost \subseteq AnyLine
           /\ edges.ahead \subseteq AnyLine /\ reader.batch \subseteq AnyLine
           /\ file \in [Day -> Nat]
           /\ NoReader \in ReaderRecord /\ NoReader.pc = "idle" /\ NoReader.batch = {}
<1> USE ArchiveAssumption
<1>1. Feed /\ reader \in ReaderRecord /\ file \in [Day -> Nat]
  BY DEF ReaderTypeOK, Feed, ReaderRecord
<1>2. \A d \in Day : /\ file[d] \in Nat /\ saved.cursors[d] \in Nat
                     /\ reader.cursors[d] \in Nat
  BY DEF ReaderTypeOK
<1>3. /\ reader.size \in Nat /\ reader.day \in 0 .. Days
      /\ taken \subseteq AnyLine /\ edges.lost \subseteq AnyLine
      /\ edges.ahead \subseteq AnyLine /\ reader.batch \subseteq AnyLine
  BY DEF ReaderTypeOK
<1>4. NoReader \in ReaderRecord /\ NoReader.pc = "idle" /\ NoReader.batch = {}
  BY DEF NoReader, ReaderRecord, NoCursors
<1> QED
  BY <1>1, <1>2, <1>3, <1>4

\* To the next day, or behind the last one.
LEMMA NextDayTypes ==
    ASSUME ReaderTypeOK, NEW next \in ReaderRecord, next.day = reader.day, reader.day \in Day
    PROVE  /\ NextDay(next) \in ReaderRecord
           /\ NextDay(next).size = next.size /\ NextDay(next).cursors = next.cursors
           /\ NextDay(next).batch = next.batch /\ NextDay(next).gap = next.gap
           /\ NextDay(next).ahead = next.ahead
           /\ \/ /\ reader.day < Days /\ NextDay(next).pc = next.pc
                 /\ NextDay(next).day = reader.day + 1
              \/ /\ reader.day = Days /\ NextDay(next).day = reader.day
                 /\ NextDay(next).pc = IF next.pc = "warm" THEN "size" ELSE "save"
<1> USE ArchiveAssumption
<1>0. reader.day \in 1 .. Days
  BY DEF Day
<1>1. CASE reader.day < Days
  <2>1. NextDay(next) = [next EXCEPT !.day = reader.day + 1]
    BY <1>1 DEF NextDay, ReaderRecord
  <2> QED
    BY <1>0, <1>1, <2>1 DEF ReaderRecord
<1>2. CASE ~(reader.day < Days)
  <2>1. NextDay(next) = [next EXCEPT !.pc = IF next.pc = "warm" THEN "size" ELSE "save"]
    BY <1>2 DEF NextDay, ReaderRecord
  <2> QED
    BY <1>0, <1>2, <2>1 DEF ReaderRecord
<1> QED
  BY <1>1, <1>2

\* What a reading action does to the reader's record.
LEMMA WarmFacts ==
    ASSUME ReaderTypeOK, ReaderInvariant, WarmRead
    PROVE  \E guess \in Guesses(reader.day, 0, file[reader.day]) :
             /\ reader' \in ReaderRecord /\ reader.pc = "warm"
             /\ reader'.batch = reader.batch \union LinesOf(reader.day, 0, file[reader.day]) \union guess
             /\ reader'.cursors = reader.cursors
             /\ reader'.pc = "size" \/ (reader'.pc = "warm" /\ reader'.day \in Day)
<1>1. PICK guess \in Guesses(reader.day, 0, file[reader.day]) :
        reader' = NextDay([reader EXCEPT !.batch = @ \cup LinesOf(reader.day, 0, file[reader.day])
                                                     \cup guess])
  BY DEF WarmRead
<1>2. reader.pc = "warm" /\ reader.day \in Day
  BY DEF WarmRead, ReaderInvariant
<1>3. PICK batch : batch = reader.batch \union LinesOf(reader.day, 0, file[reader.day]) \union guess
  OBVIOUS
<1>4. batch \subseteq AnyLine
  <2>1. file[reader.day] \in Nat /\ 0 \in Nat
    BY <1>2, ReaderTypes
  <2>2. /\ LinesOf(reader.day, 0, file[reader.day]) \subseteq AnyLine
        /\ guess \subseteq AnyLine
    BY <1>2, <2>1, LinesTyped
  <2> QED
    BY <1>3, <2>2, ReaderTypes
<1>5. PICK next : next = [reader EXCEPT !.batch = batch]
  OBVIOUS
<1>6. /\ next \in ReaderRecord /\ next.day = reader.day /\ next.pc = "warm"
      /\ next.batch = batch /\ next.cursors = reader.cursors
  BY <1>2, <1>4, <1>5, ReaderTypes DEF ReaderRecord
<1>7. reader' = NextDay(next)
  BY <1>1, <1>3, <1>5
<1>8. reader'.day = reader.day + 1 /\ reader.day < Days => reader'.day \in Day
  BY <1>2, ArchiveAssumption DEF Day
<1> QED
  BY <1>2, <1>3, <1>6, <1>7, <1>8, NextDayTypes

LEMMA ReadFacts ==
    ASSUME ReaderTypeOK, ReaderInvariant, ReadToTheEnd, NEW d, d = reader.day
    PROVE  \E guess \in Guesses(d, reader.cursors[d], file[d]) :
             /\ reader' \in ReaderRecord /\ reader.pc = "read" /\ d \in Day
             /\ reader'.batch = reader.batch \union LinesOf(d, reader.cursors[d], file[d])
                                  \union guess
             /\ reader'.cursors = [reader.cursors EXCEPT ![d] = reader.size]
             /\ reader'.gap = reader.gap \union Torn(d, reader.cursors[d], reader.size)
             /\ reader'.ahead = reader.ahead
                  \union ((LinesOf(d, reader.cursors[d], file[d])
                             \union Torn(d, reader.cursors[d], file[d]))
                            \ LinesOf(d, reader.cursors[d], reader.size))
             /\ \/ d < Days /\ reader'.pc = "stat" /\ reader'.day = d + 1
                \/ d = Days /\ reader'.pc = "save"
<1> USE ArchiveAssumption
<1>1. /\ reader.pc = "read" /\ d \in Day /\ reader.size > reader.cursors[d]
      /\ reader.cursors[d] \in Nat /\ reader.size \in Nat /\ file[d] \in Nat
  BY ReaderTypes DEF ReadToTheEnd, ReaderInvariant
<1>2. PICK from : from = IF reader.size < reader.cursors[d] THEN 0 ELSE reader.cursors[d]
  OBVIOUS
<1>3. from = reader.cursors[d] /\ from \in Nat
  BY <1>1, <1>2
<1>4. PICK guess \in Guesses(d, from, file[d]) :
        reader' = NextDay([reader EXCEPT !.pc = "stat",
             !.batch = @ \cup LinesOf(d, from, file[d]) \cup guess,
             !.cursors[d] = reader.size,
             !.gap = @ \cup Torn(d, from, reader.size),
             !.ahead = @ \cup ((LinesOf(d, from, file[d]) \cup Torn(d, from, file[d]))
                                 \ LinesOf(d, from, reader.size))])
  BY <1>2 DEF ReadToTheEnd
<1>5. /\ LinesOf(d, from, file[d]) \subseteq AnyLine /\ guess \subseteq AnyLine
      /\ Torn(d, from, reader.size) \subseteq AnyLine
      /\ Torn(d, from, file[d]) \subseteq AnyLine
  BY <1>1, <1>3, <1>4, LinesTyped
<1>6. PICK batch, gap, ahead :
        /\ batch = reader.batch \union LinesOf(d, from, file[d]) \union guess
        /\ gap = reader.gap \union Torn(d, from, reader.size)
        /\ ahead = reader.ahead \union ((LinesOf(d, from, file[d]) \union Torn(d, from, file[d]))
                                          \ LinesOf(d, from, reader.size))
  OBVIOUS
<1>7. batch \subseteq AnyLine /\ gap \subseteq AnyLine /\ ahead \subseteq AnyLine
  BY <1>5, <1>6, ReaderTypes DEF ReaderTypeOK
<1>8. PICK next : next = [reader EXCEPT !.pc = "stat", !.batch = batch,
                            !.cursors[d] = reader.size, !.gap = gap, !.ahead = ahead]
  OBVIOUS
<1>9. reader \in ReaderRecord
  BY ReaderTypes
<1>10. next.pc = "stat" /\ next.day = reader.day /\ next.batch = batch
  BY <1>8, <1>9 DEF ReaderRecord
<1>11. next.gap = gap /\ next.ahead = ahead
  BY <1>8, <1>9 DEF ReaderRecord
<1>12. next.cursors = [reader.cursors EXCEPT ![d] = reader.size]
  BY <1>8, <1>9 DEF ReaderRecord
<1>13. next \in ReaderRecord
  BY <1>1, <1>7, <1>8, <1>9 DEF ReaderRecord
<1>14. reader' = NextDay(next)
  BY <1>4, <1>6, <1>8
<1> QED
  BY <1>1, <1>3, <1>6, <1>10, <1>11, <1>12, <1>13, <1>14, NextDayTypes

LEMMA ReaderTypeStep ==
    ASSUME ReaderTypeOK, ReaderInvariant, [ReaderNext]_readingVars
    PROVE  ReaderTypeOK' /\ \A d \in Day : file[d] <= file'[d]
<1> USE ArchiveAssumption
<1> DEFINE Saves == [ready : BOOLEAN, cursors : [Day -> Nat]]
           Edges == [lost : SUBSET AnyLine, ahead : SUBSET AnyLine]
<1>0. /\ saved \in Saves /\ edges \in Edges /\ reader \in ReaderRecord /\ taken \subseteq AnyLine
      /\ Feed /\ file \in [Day -> Nat]
  BY ReaderTypes DEF ReaderTypeOK
<1>1. Feed' /\ \A d \in Day : file[d] <= file'[d]
  <2>1. \/ Record \/ Midnight \/ OpenDailyFile
        \/ file' = file /\ today' = today /\ openDay' = openDay
    BY DEF ReaderNext, readingVars, vars, feedVars
  <2>2. \A d \in Day : file[d] <= file[d]
    BY ReaderTypes
  <2> QED
    BY <1>0, <2>1, <2>2, FilesGrow DEF Feed
<1>2. reader' \in ReaderRecord
  <2>1. CASE StartReading
    <3>1. PICK pc \in {"stat", "warm"} :
            reader' = [NoReader EXCEPT !.pc = pc, !.day = 1, !.cursors = saved.cursors]
      BY <2>1 DEF StartReading
    <3>2. 1 \in 0 .. Days /\ saved.cursors \in [Day -> Nat]
      BY DEF ReaderTypeOK
    <3> QED
      BY <3>1, <3>2, ReaderTypes DEF ReaderRecord
  <2>2. CASE WarmRead
    BY <2>2, WarmFacts, SMTT(30)
  <2>3. CASE WarmSize
    <3>1. PICK gap : /\ gap = (UNION {LinesOf(d, 0, file[d]) \cup Torn(d, 0, file[d]) : d \in Day})
                                \ reader.batch
                     /\ reader' = [reader EXCEPT !.pc = "save", !.cursors = file, !.gap = gap]
      BY <2>3 DEF WarmSize
    <3>2. \A d \in Day : LinesOf(d, 0, file[d]) \cup Torn(d, 0, file[d]) \subseteq AnyLine
      BY LinesTyped, ReaderTypes
    <3>3. gap \subseteq AnyLine
      BY <3>1, <3>2
    <3> QED
      BY <1>0, <3>1, <3>3 DEF ReaderRecord
  <2>4. CASE TakeSize
    <3>1. reader.day \in Day
      BY <2>4 DEF TakeSize, ReaderInvariant
    <3>2. NextDay(reader) \in ReaderRecord
      BY <1>0, <3>1, NextDayTypes
    <3>3. [reader EXCEPT !.pc = "read", !.size = file[reader.day]] \in ReaderRecord
      BY <1>0, <3>1 DEF ReaderRecord
    <3> QED
      BY <2>4, <3>2, <3>3 DEF TakeSize
  <2>5. CASE ReadToTheEnd
    BY <2>5, ReadFacts
  <2>6. CASE Save \/ ReaderDies
    BY <2>6, ReaderTypes DEF Save, ReaderDies
  <2>7. CASE ~ReaderStep
    BY <1>0, <2>7 DEF ReaderNext, readingVars, engineVars
  <2> QED
    BY <2>1, <2>2, <2>3, <2>4, <2>5, <2>6, <2>7 DEF ReaderStep
<1>3. saved' \in Saves /\ edges' \in Edges /\ taken' \subseteq AnyLine
  <2>1. CASE Save
    <3>1. \/ UNCHANGED <<saved, taken, edges>>
          \/ /\ saved' = [ready |-> TRUE, cursors |-> reader.cursors]
             /\ taken' = taken \cup reader.batch
             /\ edges' = [lost |-> edges.lost \cup reader.gap, ahead |-> reader.ahead]
      BY <2>1 DEF Save
    <3>2. /\ reader.cursors \in [Day -> Nat] /\ reader.batch \subseteq AnyLine
          /\ reader.gap \subseteq AnyLine /\ reader.ahead \subseteq AnyLine
          /\ edges.lost \subseteq AnyLine
      BY DEF ReaderTypeOK
    <3>3. ASSUME saved' = [ready |-> TRUE, cursors |-> reader.cursors]
          PROVE  saved' \in Saves
      BY <3>2, <3>3
    <3>4. ASSUME edges' = [lost |-> edges.lost \cup reader.gap, ahead |-> reader.ahead]
          PROVE  edges' \in Edges
      BY <3>2, <3>4
    <3> HIDE DEF Saves, Edges
    <3> QED
      BY <1>0, <3>1, <3>2, <3>3, <3>4
  <2>2. CASE ~Save
    <3>1. saved' = saved /\ edges' = edges /\ taken' = taken
      BY <2>2, Zenon DEF ReaderNext, ReaderStep, StartReading, WarmRead, WarmSize, TakeSize,
         ReadToTheEnd, ReaderDies, readingVars, engineVars
    <3> QED
      BY <1>0, <3>1, SMTT(30)
  <2> QED
    BY <2>1, <2>2
<1>4. /\ saved' \in [ready : BOOLEAN, cursors : [Day -> Nat]]
      /\ edges' \in [lost : SUBSET AnyLine, ahead : SUBSET AnyLine]
  BY <1>3
<1> HIDE DEF Saves, Edges
<1> QED
  BY <1>1, <1>2, <1>3, <1>4 DEF ReaderTypeOK, Feed, ReaderRecord

-----------------------------------------------------------------------------
(* The engine's reader: cursors and lines                                  *)

\* What a read beyond a cursor returns starts there or later, and before the end.
LEMMA ReadStarts ==
    ASSUME NEW d \in Day, NEW from \in Nat, NEW to \in Nat,
           NEW line \in LinesOf(d, from, to) \union Torn(d, from, to)
    PROVE  line[1] = d /\ 2 * line[2] - 2 >= from /\ 2 * line[2] - 2 < to
<1>1. /\ Lines(to) \in Nat /\ 2 * Lines(to) <= to /\ to <= 2 * Lines(to) + 1
      /\ (to % 2 = 1) <=> (to = 2 * Lines(to) + 1)
  BY LinesOfHalves
<1>2. CASE line \in LinesOf(d, from, to)
  <2>1. PICK k \in 2 .. Lines(to) : 2 * k - 2 >= from /\ line = <<d, k>>
    BY <1>2 DEF LinesOf
  <2> QED
    BY <1>1, <2>1
<1>3. CASE line \in Torn(d, from, to)
  <2>1. line = <<d, Lines(to) + 1>> /\ to % 2 = 1 /\ to > from
    BY <1>3 DEF Torn
  <2> QED
    BY <1>1, <2>1
<1> QED
  BY <1>2, <1>3

\* What a longer cursor has passed was passed before, or is read between the
\* two, or the longer one stands in it.
LEMMA BehindRead ==
    ASSUME NEW d \in Day, NEW c \in Nat, NEW s \in Nat, NEW h \in Nat, c < s, s <= h
    PROVE  Behind(d, s) \subseteq Behind(d, c) \union LinesOf(d, c, h) \union Torn(d, c, s)
<1>1. /\ Lines(c) \in Nat /\ 2 * Lines(c) <= c /\ c <= 2 * Lines(c) + 1
      /\ (c % 2 = 1) <=> (c = 2 * Lines(c) + 1)
  BY LinesOfHalves
<1>2. Lines(s) \in Nat /\ Lines(h) \in Nat /\ Lines(s) <= Lines(h)
  BY LinesMonotone, LinesOfHalves
<1>3. ASSUME NEW k \in 2 .. Lines(s)
      PROVE  <<d, k>> \in Behind(d, c) \union LinesOf(d, c, h)
  <2>1. CASE 2 * k - 2 >= c
    <3>1. k \in 2 .. Lines(h)
      BY <1>2
    <3> QED
      BY <2>1, <3>1 DEF LinesOf
  <2>2. CASE k <= Lines(c)
    <3>1. k \in 2 .. Lines(c) /\ 2 * k - 2 >= 0
      BY <1>1, <1>2, <2>2
    <3> QED
      BY <3>1 DEF LinesOf, Behind
  <2>3. CASE ~(2 * k - 2 >= c) /\ ~(k <= Lines(c))
    <3>1. c = 2 * Lines(c) + 1 /\ k = Lines(c) + 1 /\ Lines(c) >= 1 /\ c > 0
      BY <1>1, <1>2, <2>3
    <3> QED
      BY <1>1, <3>1 DEF Torn, Behind
  <2> QED
    BY <2>1, <2>2, <2>3
<1>4. LinesOf(d, 0, s) \subseteq Behind(d, c) \union LinesOf(d, c, h)
  BY <1>3 DEF LinesOf
<1>5. Torn(d, 0, s) \subseteq Torn(d, c, s)
  BY DEF Torn
<1> QED
  BY <1>4, <1>5 DEF Behind

LEMMA DoneIs == /\ reader.pc = "save" => Done = Day
                /\ reader.pc \in {"stat", "read"} => Done = 1 .. (reader.day - 1)
                /\ reader.pc \in {"idle", "warm", "size"} => Done = {}
  BY DEF Done

LEMMA ReaderInitHolds == Init /\ ReaderInit => ReaderTypeOK /\ SavedInvariant /\ ReaderInvariant
<1> SUFFICES ASSUME Init, ReaderInit
             PROVE  ReaderTypeOK /\ SavedInvariant /\ ReaderInvariant
  OBVIOUS
<1> USE ArchiveAssumption
<1>1. /\ saved = [ready |-> FALSE, cursors |-> NoCursors]
      /\ reader = NoReader /\ taken = {} /\ edges = [lost |-> {}, ahead |-> {}]
  BY DEF ReaderInit
<1>2. TypeOK
  BY ArchiveTypeInit
<1>3. NoReader \in ReaderRecord /\ NoReader.pc = "idle" /\ NoReader.batch = {}
  BY DEF NoReader, ReaderRecord, NoCursors
<1>4. saved \in [ready : BOOLEAN, cursors : [Day -> Nat]]
  <2>1. NoCursors \in [Day -> Nat] /\ FALSE \in BOOLEAN
    BY DEF NoCursors
  <2> QED
    BY <1>1, <2>1
<1>5. ReaderTypeOK
  BY <1>1, <1>2, <1>3, <1>4 DEF ReaderTypeOK, TypeOK, ReaderRecord
<1>6. \A d \in Day : saved.cursors[d] = 0 /\ file[d] \in Nat
  BY <1>1, <1>2 DEF NoCursors, TypeOK
<1>7. \A d \in Day : Behind(d, 0) = {}
  <2>1. Lines(0) = 0
    BY DEF Lines
  <2> QED
    BY <2>1 DEF Behind, LinesOf, Torn
<1>8. SavedInvariant
  BY <1>1, <1>6, <1>7 DEF SavedInvariant
<1>9. Done = {}
  BY <1>1, <1>3, DoneIs
<1>10. ReaderInvariant
  BY <1>1, <1>3, <1>9 DEF ReaderInvariant
<1> QED
  BY <1>5, <1>8, <1>10

\* A run hands over what it has seen and lost when it saves.
LEMMA SavedStep ==
    ASSUME ReaderTypeOK, SavedInvariant, ReaderInvariant, [ReaderNext]_readingVars
    PROVE  SavedInvariant'
<1>1. \A d \in Day : /\ file[d] <= file'[d] /\ file[d] \in Nat /\ file'[d] \in Nat
                     /\ saved.cursors[d] \in Nat /\ reader.cursors[d] \in Nat
  BY ReaderTypeStep, ReaderTypes DEF ReaderTypeOK
<1>2. \A line \in taken \union reader.batch : line[1] \in Day /\ line[2] \in Nat
  BY ReaderTypes DEF AnyLine
<1>3. CASE Save /\ ~UNCHANGED <<saved, taken, edges>>
  <2>1. /\ saved' = [ready |-> TRUE, cursors |-> reader.cursors]
        /\ taken' = taken \cup reader.batch
        /\ edges' = [lost |-> edges.lost \cup reader.gap, ahead |-> reader.ahead]
        /\ reader.pc = "save"
    BY <1>3 DEF Save
  <2>2. file' = file
    BY <1>3 DEF ReaderNext, ReaderStep, Save, Record, Midnight, OpenDailyFile, engineVars,
       readingVars, vars, feedVars
  <2>3. Done = Day
    BY <2>1, DoneIs
  <2>4. saved'.ready = TRUE /\ saved'.cursors = reader.cursors
        /\ edges'.lost = edges.lost \cup reader.gap /\ edges'.ahead = reader.ahead
    BY <2>1
  <2>5. \A d \in Day :
          /\ reader.cursors[d] <= file[d]
          /\ Behind(d, reader.cursors[d])
               \subseteq taken \cup edges.lost \cup reader.batch \cup reader.gap
    BY <2>1, <2>3 DEF ReaderInvariant
  <2>6. \A line \in taken \union reader.batch :
          /\ StartsBefore(line, file)
          /\ StartsBefore(line, reader.cursors) \/ line \in reader.ahead
    BY <1>2, <2>3 DEF ReaderInvariant, SavedInvariant
  <2>7. \A d \in Day : /\ saved'.cursors[d] <= file'[d]
                       /\ Behind(d, saved'.cursors[d]) \subseteq taken' \cup edges'.lost
    BY <2>1, <2>2, <2>4, <2>5
  <2>8. \A line \in taken' :
          /\ StartsBefore(line, file')
          /\ StartsBefore(line, saved'.cursors) \/ line \in edges'.ahead
    BY <2>1, <2>2, <2>4, <2>6
  <2> QED
    BY <2>4, <2>7, <2>8 DEF SavedInvariant, StartsBefore, Behind, LinesOf, Torn
<1>4. CASE ~(Save /\ ~UNCHANGED <<saved, taken, edges>>)
  <2>1. saved' = saved /\ edges' = edges /\ taken' = taken
    BY <1>4, Zenon DEF ReaderNext, ReaderStep, StartReading, WarmRead, WarmSize, TakeSize,
       ReadToTheEnd, ReaderDies, Save, readingVars, engineVars
  <2>2. \A line \in taken : StartsBefore(line, file) => StartsBefore(line, file')
    BY <1>1, <1>2 DEF StartsBefore
  <2>3. \A d \in Day : saved.cursors[d] <= file[d] => saved.cursors[d] <= file'[d]
    BY <1>1
  <2> QED
    BY <2>1, <2>2, <2>3, SMTT(30) DEF SavedInvariant, StartsBefore, Behind, LinesOf, Torn
<1> QED
  BY <1>3, <1>4

\* With the day that a run turns from, all days up to it are done.
LEMMA DayDone ==
    ASSUME ReaderTypeOK, reader.day \in Day,
           \/ reader.day < Days /\ reader'.pc = "stat" /\ reader'.day = reader.day + 1
           \/ reader.day = Days /\ reader'.pc = "save"
    PROVE  Done' = 1 .. reader.day
<1>1. reader.day \in Nat /\ Done' = CASE reader'.pc = "save" -> Day
                                      [] reader'.pc \in {"stat", "read"} -> 1 .. (reader'.day - 1)
                                      [] OTHER -> {}
  BY ArchiveAssumption DEF Done, Day
<1>2. CASE reader.day < Days /\ reader'.pc = "stat" /\ reader'.day = reader.day + 1
  <2>1. Done' = 1 .. (reader'.day - 1)
    BY <1>1, <1>2
  <2>2. reader'.day - 1 = reader.day
    BY <1>1, <1>2
  <2> QED
    BY <2>1, <2>2
<1>3. CASE reader.day = Days /\ reader'.pc = "save"
  BY <1>1, <1>3 DEF Day
<1> QED
  BY <1>2, <1>3

\* One clause of the invariant per step.
LEMMA ReaderInvariantStep ==
    ASSUME ReaderTypeOK, SavedInvariant, ReaderInvariant, [ReaderNext]_readingVars
    PROVE  ReaderInvariant'
<1> USE ArchiveAssumption
<1>t. /\ \A d \in Day : /\ file[d] <= file'[d] /\ file[d] \in Nat /\ file'[d] \in Nat
                        /\ saved.cursors[d] \in Nat /\ reader.cursors[d] \in Nat
      /\ reader.size \in Nat /\ reader.day \in 0 .. Days /\ reader \in ReaderRecord
  <2>1. \A d \in Day : file[d] <= file'[d]
    BY ReaderTypeStep
  <2>2. file' \in [Day -> 0 .. MaxHalves]
    BY ReaderTypeStep DEF ReaderTypeOK
  <2>3. \A d \in Day : file'[d] \in Nat
    BY <2>2
  <2> QED
    BY <2>1, <2>3, ReaderTypes
<1>d. Day = 1 .. Days
  BY DEF Day
<1>s. \/ ReaderStep /\ file' = file
      \/ UNCHANGED engineVars
  BY DEF ReaderNext, readingVars, vars, feedVars
<1>u. \A line \in taken \union reader.batch : line[1] \in Day /\ line[2] \in Nat
  BY ReaderTypes DEF AnyLine
<1>1. CASE StartReading /\ file' = file
  <2>1. /\ reader' = [NoReader EXCEPT !.pc = IF saved.ready THEN "stat" ELSE "warm", !.day = 1,
                                !.cursors = saved.cursors]
        /\ saved' = saved /\ taken' = taken /\ edges' = edges
    BY <1>1 DEF StartReading
  <2>2. /\ reader'.pc = IF saved.ready THEN "stat" ELSE "warm"
        /\ reader'.day = 1 /\ reader'.cursors = saved.cursors /\ reader'.batch = {}
        /\ reader'.gap = {}
    BY <2>1 DEF NoReader
  <2>3. file' = file /\ 1 \in Day
    BY <1>1, <1>d
  <2>4. Done' = {}
    BY <2>2 DEF Done
  <2>5. \A d \in Day : saved.cursors[d] <= file[d]
    BY DEF SavedInvariant
  <2> QED
    BY <2>1, <2>2, <2>3, <2>4, <2>5 DEF ReaderInvariant
<1>2. CASE WarmRead /\ file' = file
  <2> DEFINE d == reader.day
  <2>1. PICK guess \in Guesses(reader.day, 0, file[reader.day]) :
             /\ reader' \in ReaderRecord /\ reader.pc = "warm"
             /\ reader'.batch = reader.batch \union LinesOf(reader.day, 0, file[reader.day]) \union guess
             /\ reader'.cursors = reader.cursors
             /\ reader'.pc = "size" \/ (reader'.pc = "warm" /\ reader'.day \in Day)
    BY <1>2, WarmFacts
  <2>2. /\ saved' = saved /\ taken' = taken /\ edges' = edges /\ ~saved.ready /\ d \in Day
    BY <1>2, <2>1 DEF WarmRead, ReaderInvariant
  <2>3. file' = file
    BY <1>2
  <2>4. Done' = {}
    BY <2>1 DEF Done
  <2>5. \A line \in reader'.batch : StartsBefore(line, file)
    <3>1. \A line \in LinesOf(d, 0, file[d]) \union guess : StartsBefore(line, file)
      <4>1. guess \subseteq Torn(d, 0, file[d])
        BY <2>1 DEF Guesses
      <4>2. file[d] \in Nat /\ 0 \in Nat /\ d \in Day
        BY <1>t, <2>2
      <4>3. \A line \in LinesOf(d, 0, file[d]) \union Torn(d, 0, file[d]) :
              line[1] = d /\ 2 * line[2] - 2 < file[d]
        BY <4>2, ReadStarts
      <4> QED
        BY <4>1, <4>3 DEF StartsBefore
    <3> QED
      BY <2>1, <3>1 DEF ReaderInvariant
  <2>6. \A i \in Day : reader'.cursors[i] <= file'[i]
    BY <2>1, <2>3 DEF ReaderInvariant
  <2>7. \A line \in reader'.batch : StartsBefore(line, file')
    BY <2>3, <2>5
  <2>8. (\A line \in reader.batch : StartsBefore(line, file))'
    BY <2>7 DEF StartsBefore
  <2> HIDE DEF d
  <2> QED
    BY <2>1, <2>2, <2>4, <2>6, <2>8 DEF ReaderInvariant
<1>3. CASE WarmSize /\ file' = file
  <2>1. PICK gap : /\ gap = (UNION {LinesOf(d, 0, file[d]) \cup Torn(d, 0, file[d]) : d \in Day})
                              \ reader.batch
                   /\ reader' = [reader EXCEPT !.pc = "save", !.cursors = file, !.gap = gap]
    BY <1>3 DEF WarmSize
  <2>2. /\ reader'.pc = "save" /\ reader'.cursors = file /\ reader'.gap = gap
        /\ reader'.batch = reader.batch
    BY <1>t, <2>1 DEF ReaderRecord
  <2>3. /\ saved' = saved /\ taken' = taken /\ edges' = edges /\ ~saved.ready /\ taken = {}
    BY <1>3 DEF WarmSize, ReaderInvariant, SavedInvariant
  <2>4. file' = file
    BY <1>3
  <2>5. Done' = Day
    BY <2>2 DEF Done
  <2>6. \A d \in Day : Behind(d, file[d]) \subseteq reader.batch \union gap
    BY <2>1 DEF Behind
  <2>7. \A line \in reader.batch : StartsBefore(line, file)
    BY DEF ReaderInvariant
  <2>8. \A d \in Day : Behind(d, reader'.cursors[d])
          \subseteq taken' \cup edges'.lost \cup reader'.batch \cup reader'.gap
    BY <2>2, <2>6
  <2>9. \A line \in reader'.batch :
          StartsBefore(line, file') /\ StartsBefore(line, reader'.cursors)
    BY <2>2, <2>4, <2>7
  <2>10. \A d \in Day : reader'.cursors[d] <= file'[d]
    BY <1>t, <2>2, <2>4
  <2> QED
    BY <2>2, <2>3, <2>5, <2>8, <2>9, <2>10, SMTT(30)
       DEF ReaderInvariant, StartsBefore, Behind, LinesOf, Torn
<1>4. CASE TakeSize /\ file' = file
  <2>1. /\ reader.pc = "stat" /\ saved' = saved /\ taken' = taken /\ edges' = edges
        /\ file' = file
    BY <1>4 DEF TakeSize
  <2>2. /\ reader.day \in Day /\ saved.ready
        /\ \A d \in Day : d >= reader.day => reader.cursors[d] = saved.cursors[d]
        /\ \A line \in reader.batch : line[1] < reader.day
        /\ \A d \in Day : reader.cursors[d] <= file[d]
        /\ \A line \in reader.batch :
             /\ StartsBefore(line, file)
             /\ saved.ready => 2 * line[2] - 2 >= saved.cursors[line[1]]
    BY <2>1 DEF ReaderInvariant
  <2>3. Done = 1 .. (reader.day - 1)
    BY <2>1, DoneIs
  <2>4. /\ \A d \in Done : Behind(d, reader.cursors[d])
               \subseteq taken \cup edges.lost \cup reader.batch \cup reader.gap
        /\ \A line \in taken \cup reader.batch :
             line[1] \in Done => StartsBefore(line, reader.cursors) \/ line \in reader.ahead
    BY DEF ReaderInvariant
  <2>5. CASE file[reader.day] = reader.cursors[reader.day]
    <3>1. reader' = NextDay(reader)
      BY <1>4, <2>5 DEF TakeSize
    <3>2. /\ reader'.cursors = reader.cursors /\ reader'.batch = reader.batch
          /\ reader'.gap = reader.gap /\ reader'.ahead = reader.ahead
          /\ \/ reader.day < Days /\ reader'.pc = "stat" /\ reader'.day = reader.day + 1
             \/ reader.day = Days /\ reader'.pc = "save"
      BY <1>t, <2>1, <2>2, <3>1, NextDayTypes
    <3>3. Done' = 1 .. reader.day
      BY <2>2, <3>2, DayDone
    <3>4. Behind(reader.day, reader.cursors[reader.day]) \subseteq taken \cup edges.lost
      <4>1. reader.cursors[reader.day] = saved.cursors[reader.day]
        BY <1>d, <2>2
      <4> QED
        BY <2>2, <4>1 DEF SavedInvariant
    <3>5. \A d \in 1 .. reader.day : Behind(d, reader.cursors[d])
             \subseteq taken \cup edges.lost \cup reader.batch \cup reader.gap
      <4> TAKE d \in 1 .. reader.day
      <4>1. d = reader.day \/ d \in Done
        BY <1>d, <2>2, <2>3
      <4> QED
        BY <2>4, <3>4, <4>1
    <3>6. \A line \in taken \cup reader.batch :
            line[1] \in 1 .. reader.day
              => StartsBefore(line, reader.cursors) \/ line \in reader.ahead
      <4> SUFFICES ASSUME NEW line \in taken \cup reader.batch, line[1] \in 1 .. reader.day
                   PROVE  StartsBefore(line, reader.cursors) \/ line \in reader.ahead
        OBVIOUS
      <4>1. CASE line[1] \in Done
        BY <2>4, <4>1
      <4>2. CASE line[1] \notin Done
        <5>1. line[1] = reader.day
          BY <1>d, <2>2, <2>3, <4>2
        <5>2. line \in taken
          BY <1>d, <2>2, <5>1
        <5>3. StartsBefore(line, file)
          BY <5>2 DEF SavedInvariant
        <5> QED
          BY <2>5, <5>1, <5>3 DEF StartsBefore
      <4> QED
        BY <4>1, <4>2
    <3>7. reader'.pc \in {"stat", "read"} => reader'.day = reader.day + 1 /\ reader'.day \in Day
      BY <1>d, <2>2, <3>2
    <3>8. reader'.pc # "read" /\ reader'.pc \notin {"warm", "size"}
      BY <3>2
    <3>9. reader'.pc = "stat" =>
            /\ \A d \in Day : d >= reader'.day => reader.cursors[d] = saved.cursors[d]
            /\ \A line \in reader.batch : line[1] < reader'.day
      BY <1>d, <1>u, <2>2, <3>7
    <3> QED
      BY <2>1, <2>2, <3>2, <3>3, <3>5, <3>6, <3>7, <3>8, <3>9
         DEF ReaderInvariant, StartsBefore, Behind, LinesOf, Torn
  <2>6. CASE file[reader.day] # reader.cursors[reader.day]
    <3>1. reader' = [reader EXCEPT !.pc = "read", !.size = file[reader.day]]
      BY <1>4, <2>6 DEF TakeSize
    <3>2. /\ reader'.cursors = reader.cursors /\ reader'.batch = reader.batch
          /\ reader'.gap = reader.gap /\ reader'.ahead = reader.ahead
          /\ reader'.pc = "read" /\ reader'.day = reader.day /\ reader'.size = file[reader.day]
      BY <1>t, <3>1 DEF ReaderRecord
    <3>3. Done' = 1 .. (reader.day - 1)
      BY <3>2 DEF Done
    <3>4. file[reader.day] <= file[reader.day] /\ file[reader.day] > reader.cursors[reader.day]
      BY <1>t, <2>2, <2>6
    <3>5. \A line \in taken : line[1] = reader.day => 2 * line[2] - 2 < file[reader.day]
      BY DEF SavedInvariant, StartsBefore
    <3> QED
      BY <2>1, <2>2, <2>3, <2>4, <3>2, <3>3, <3>4, <3>5
         DEF ReaderInvariant, StartsBefore, Behind, LinesOf, Torn
  <2> QED
    BY <2>5, <2>6
<1>5. CASE ReadToTheEnd /\ file' = file
  <2>1. PICK d : d = reader.day
    OBVIOUS
  <2>2. PICK c, size, h : c = reader.cursors[d] /\ size = reader.size /\ h = file[d]
    OBVIOUS
  <2>3. PICK guess \in Guesses(d, c, h) :
          /\ reader' \in ReaderRecord /\ reader.pc = "read" /\ d \in Day
          /\ reader'.batch = reader.batch \union LinesOf(d, c, h) \union guess
          /\ reader'.cursors = [reader.cursors EXCEPT ![d] = size]
          /\ reader'.gap = reader.gap \union Torn(d, c, size)
          /\ reader'.ahead = reader.ahead
               \union ((LinesOf(d, c, h) \union Torn(d, c, h)) \ LinesOf(d, c, size))
          /\ \/ d < Days /\ reader'.pc = "stat" /\ reader'.day = d + 1
             \/ d = Days /\ reader'.pc = "save"
    BY <1>5, <2>1, <2>2, ReadFacts
  <2>4. PICK new : new = LinesOf(d, c, h) \union guess
    OBVIOUS
  <2>5. reader'.batch = reader.batch \union new
    BY <2>3, <2>4
  <2>6. saved' = saved /\ taken' = taken /\ edges' = edges /\ file' = file
    BY <1>5 DEF ReadToTheEnd
  <2>7. /\ saved.ready /\ c \in Nat /\ size \in Nat /\ h \in Nat /\ c < size /\ size <= h
        /\ \A i \in Day : i >= d => reader.cursors[i] = saved.cursors[i]
        /\ c = saved.cursors[d]
        /\ \A line \in reader.batch : line[1] < d
        /\ \A line \in taken : line[1] = d => 2 * line[2] - 2 < size
    BY <1>d, <1>t, <2>1, <2>2, <2>3 DEF ReaderInvariant
  <2>8. Done = 1 .. (d - 1)
    BY <2>1, <2>3, DoneIs
  <2>9. /\ \A i \in Done : Behind(i, reader.cursors[i])
               \subseteq taken \cup edges.lost \cup reader.batch \cup reader.gap
        /\ \A line \in taken \cup reader.batch :
             line[1] \in Done => StartsBefore(line, reader.cursors) \/ line \in reader.ahead
        /\ \A line \in reader.batch :
             /\ StartsBefore(line, file)
             /\ saved.ready => 2 * line[2] - 2 >= saved.cursors[line[1]]
        /\ \A i \in Day : reader.cursors[i] <= file[i]
    BY <2>3 DEF ReaderInvariant
  <2>10. Done' = 1 .. d
    BY <2>1, <2>3, DayDone
  <2>11. /\ reader'.cursors[d] = size
         /\ \A i \in Day : i # d => reader'.cursors[i] = reader.cursors[i]
    <3>1. reader.cursors \in [Day -> Nat]
      BY DEF ReaderTypeOK
    <3> QED
      BY <2>3, <3>1
  <2>12. new \subseteq LinesOf(d, c, h) \union Torn(d, c, h)
    BY <2>3, <2>4 DEF Guesses
  <2>13. \A line \in new : line[1] = d /\ 2 * line[2] - 2 >= c /\ 2 * line[2] - 2 < h
    BY <2>3, <2>7, <2>12, ReadStarts
  <2>14. \A line \in new : 2 * line[2] - 2 < size \/ line \in reader'.ahead
    <3>1. \A line \in LinesOf(d, c, size) : 2 * line[2] - 2 < size
      BY <2>3, <2>7, ReadStarts
    <3> QED
      BY <2>3, <2>12, <3>1
  <2>15. \A i \in 1 .. d : Behind(i, reader'.cursors[i])
             \subseteq taken \cup edges.lost \cup reader'.batch \cup reader'.gap
    <3> TAKE i \in 1 .. d
    <3>1. CASE i = d
      <4>1. Behind(d, size) \subseteq Behind(d, c) \union LinesOf(d, c, h) \union Torn(d, c, size)
        BY <2>3, <2>7, BehindRead
      <4>2. Behind(d, c) \subseteq taken \cup edges.lost
        BY <2>3, <2>7 DEF SavedInvariant
      <4> QED
        BY <2>3, <2>11, <3>1, <4>1, <4>2
    <3>2. CASE i # d
      <4>1. i \in Done /\ i \in Day
        BY <1>d, <2>3, <2>8, <3>2
      <4> QED
        BY <2>3, <2>9, <2>11, <3>2, <4>1
    <3> QED
      BY <3>1, <3>2
  <2>16. \A line \in taken \cup reader'.batch :
            line[1] \in 1 .. d => StartsBefore(line, reader'.cursors) \/ line \in reader'.ahead
    <3> SUFFICES ASSUME NEW line \in taken \cup reader'.batch, line[1] \in 1 .. d
                 PROVE  StartsBefore(line, reader'.cursors) \/ line \in reader'.ahead
      OBVIOUS
    <3>1. CASE line[1] = d
      <4>1. line \in taken \/ line \in new
        BY <1>d, <2>3, <2>5, <2>7, <3>1
      <4>2. 2 * line[2] - 2 < size \/ line \in reader'.ahead
        BY <2>7, <2>14, <3>1, <4>1
      <4> QED
        BY <2>11, <3>1, <4>2 DEF StartsBefore
    <3>2. CASE line[1] # d
      <4>1. line \in taken \cup reader.batch /\ line[1] \in Done /\ line[1] \in Day
        BY <1>d, <2>3, <2>5, <2>8, <2>13, <3>2
      <4>2. StartsBefore(line, reader.cursors) \/ line \in reader.ahead
        BY <2>9, <4>1
      <4> QED
        BY <2>3, <2>11, <3>2, <4>1, <4>2 DEF StartsBefore
    <3> QED
      BY <3>1, <3>2
  <2>17. \A line \in reader'.batch :
             /\ StartsBefore(line, file)
             /\ 2 * line[2] - 2 >= saved.cursors[line[1]]
    <3>1. \A line \in new : StartsBefore(line, file) /\ 2 * line[2] - 2 >= saved.cursors[line[1]]
      BY <2>2, <2>7, <2>13 DEF StartsBefore
    <3> QED
      BY <2>5, <2>7, <2>9, <3>1
  <2>18. \A i \in Day : reader'.cursors[i] <= file[i]
    BY <2>2, <2>7, <2>9, <2>11
  <2>19. reader'.pc = "stat" =>
            /\ reader'.day \in Day
            /\ \A i \in Day : i >= reader'.day => reader'.cursors[i] = saved.cursors[i]
            /\ \A line \in reader'.batch : line[1] < reader'.day
    <3>1. reader'.pc = "stat" => reader'.day = d + 1 /\ reader'.day \in Day
      BY <1>d, <2>3
    <3>2. \A i \in Day : i >= d + 1 => reader'.cursors[i] = saved.cursors[i]
      BY <1>d, <2>3, <2>7, <2>11
    <3>3. \A line \in reader.batch : line[1] < d + 1
      BY <1>d, <1>u, <2>3, <2>7
    <3>4. \A line \in new : line[1] < d + 1
      BY <1>d, <2>3, <2>13
    <3> QED
      BY <2>5, <3>1, <3>2, <3>3, <3>4
  <2>20. reader'.pc # "read" /\ reader'.pc \notin {"warm", "size"}
    BY <2>3
  <2> QED
    BY <2>6, <2>7, <2>10, <2>15, <2>16, <2>17, <2>18, <2>19, <2>20
       DEF ReaderInvariant, StartsBefore, Behind, LinesOf, Torn
<1>6. CASE Save \/ ReaderDies
  <2>1. reader' = NoReader
    BY <1>6 DEF Save, ReaderDies
  <2>2. reader'.pc = "idle" /\ reader'.batch = {}
    BY <2>1 DEF NoReader
  <2>3. Done' = {}
    BY <2>2 DEF Done
  <2> QED
    BY <2>2, <2>3 DEF ReaderInvariant
<1>7. CASE UNCHANGED engineVars
  <2>1. saved' = saved /\ taken' = taken /\ edges' = edges /\ reader' = reader
    BY <1>7 DEF engineVars
  <2>2. Done' = Done
    BY <2>1 DEF Done
  <2>3. \A line \in reader.batch : StartsBefore(line, file) => StartsBefore(line, file')
    BY <1>t, <1>u DEF StartsBefore
  <2>4. \A d \in Day : reader.cursors[d] <= file[d] => reader.cursors[d] <= file'[d]
    BY <1>t
  <2>5. reader.pc = "read" /\ reader.size <= file[reader.day] => reader.size <= file'[reader.day]
    <3>1. reader.pc = "read" => reader.day \in Day
      BY DEF ReaderInvariant
    <3> QED
      BY <1>t, <3>1
  <2> QED
    BY <2>1, <2>2, <2>3, <2>4, <2>5 DEF ReaderInvariant, StartsBefore, Behind, LinesOf, Torn
<1> QED
  BY <1>1, <1>2, <1>3, <1>4, <1>5, <1>6, <1>7, <1>s DEF ReaderStep

-----------------------------------------------------------------------------
(* The engine's reader: the theorems                                       *)

\* The invariant that carries both properties of the reader: between runs the
\* saved cursors divide what was seen from what was not, within a run the
\* same holds of the days it has done with (demo_shadow_engine.py:241-290).
THEOREM ReaderAlways == ReaderSpec => [](ReaderTypeOK /\ SavedInvariant /\ ReaderInvariant)
<1>1. Init /\ ReaderInit => ReaderTypeOK /\ SavedInvariant /\ ReaderInvariant
  BY ReaderInitHolds
<1>2. /\ ReaderTypeOK /\ SavedInvariant /\ ReaderInvariant
      /\ [ReaderNext]_readingVars
      => (ReaderTypeOK /\ SavedInvariant /\ ReaderInvariant)'
  BY ReaderTypeStep, SavedStep, ReaderInvariantStep
<1> QED
  BY <1>1, <1>2, PTL DEF ReaderSpec

\* However the recorder's flushes, midnight and the deaths of runs fall
\* between the reads of a run, a whole line that a saved cursor has passed was
\* seen as a quote or stood at an edge (demo_shadow_engine.py:57, :259-276).
THEOREM NothingUnseenAlways == ReaderSpec => []NothingUnseen
<1>1. SavedInvariant => NothingUnseen
  BY DEF SavedInvariant, NothingUnseen, Behind
<1> QED
  BY <1>1, ReaderAlways, PTL

\* A saved run sees a line a second time only if the run saved before it had
\* read it beyond the size that it saved (demo_shadow_engine.py:259-276).
THEOREM RereadOnlyAheadAlways == ReaderSpec => RereadOnlyAhead
<1>1. ASSUME ReaderTypeOK, SavedInvariant, ReaderInvariant, [ReaderNext]_readingVars,
             saved' # saved \/ taken' # taken
      PROVE  reader.batch \cap taken \subseteq edges.ahead
  <2> SUFFICES ASSUME NEW line \in reader.batch, line \in taken
               PROVE  line \in edges.ahead
    OBVIOUS
  <2>1. StartsBefore(line, saved.cursors) \/ line \in edges.ahead
    BY <1>1 DEF SavedInvariant
  <2>2. saved.ready
    BY <1>1 DEF SavedInvariant
  <2>3. 2 * line[2] - 2 >= saved.cursors[line[1]]
    BY <1>1, <2>2 DEF ReaderInvariant
  <2>4. line[1] \in Day /\ line[2] \in Nat /\ saved.cursors[line[1]] \in Nat
    BY <1>1, ReaderTypes DEF AnyLine
  <2> QED
    BY <2>1, <2>3, <2>4 DEF StartsBefore
<1> QED
  BY <1>1, ReaderAlways, PTL DEF ReaderSpec, RereadOnlyAhead
=============================================================================

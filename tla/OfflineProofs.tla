----------------------------- MODULE OfflineProofs -----------------------------
(***************************************************************************)
(* Two offline components: the news archive, and the backtest with the     *)
(* replay engine.                                                          *)
(*                                                                         *)
(* FirstSeenStays for any articles, any number of ingestions and deaths.   *)
(* What a merge makes is sound: each event once, and from an archived      *)
(* response.  That nothing leaves the file, and no line of it is torn,     *)
(* needs more: that one ingestion is under way at a time, so that it       *)
(* writes what it merged with the file as it still is, and into a file     *)
(* that holds its own lines only; and that it is the latest, so that of    *)
(* two events with one key the one in the file was received first (Alone). *)
(*                                                                         *)
(* BacktestHolds for any lists of intents, prices and costs.  That no      *)
(* intent is lost needs a count of all, also of the held one (Accounted);  *)
(* that a position is opened at the first tick it can be needs ticks and   *)
(* intents in order, and that no earlier tick was late enough for what     *)
(* still waits (InLine).                                                   *)
(***************************************************************************)
EXTENDS NewsArchive, Backtest, OrderingProofs, SequenceTheorems

-----------------------------------------------------------------------------
(* Lists of events.                                                        *)

\* The members of a sequence are the entries at its places.
LEMMA RangeIs ==
    ASSUME NEW S, NEW s \in Seq(S)
    PROVE  /\ Len(s) \in Nat /\ DOMAIN s = 1 .. Len(s) /\ \A i \in 1 .. Len(s) : s[i] \in S
           /\ \A x : x \in Range(s) <=> \E i \in 1 .. Len(s) : x = s[i]
           /\ Range(s) \subseteq S
<1>1. Len(s) \in Nat /\ DOMAIN s = 1 .. Len(s) /\ \A i \in 1 .. Len(s) : s[i] \in S
  BY LenProperties, ElementOfSeq
<1>2. Range(s) = {s[i] : i \in 1 .. Len(s)}
  BY <1>1 DEF Range
<1> QED
  BY <1>1, <1>2

\* A finite set in the order of a relation is a sequence of its members.
LEMMA OrderedIs ==
    ASSUME NEW T, NEW S \in SUBSET T, IsFiniteSet(S), NEW R,
           \A x \in S : <<x, x>> \notin R,
           \A x, y, z \in S : <<x, y>> \in R /\ <<y, z>> \in R => <<x, z>> \in R,
           \A x, y \in S : x # y => <<x, y>> \in R \/ <<y, x>> \in R
    PROVE  /\ InOrder(S, R) \in Seq(T) /\ Range(InOrder(S, R)) = S
           /\ \A i, j \in DOMAIN InOrder(S, R) : InOrder(S, R)[i] = InOrder(S, R)[j] => i = j
<1> DEFINE N == Cardinality(S)
           order == InOrder(S, R)
<1>1. /\ N \in Nat /\ DOMAIN order = 1 .. N
      /\ \A n \in 1 .. N : order[n] \in S
      /\ \A x \in S : \E n \in 1 .. N : order[n] = x
      /\ \A m, n \in 1 .. N : m < n => <<order[m], order[n]>> \in R
  BY InOrderIs
<1>2. order = [n \in 1 .. N |-> order[n]]
  <2> DEFINE at(n) == CHOOSE x \in S : Cardinality({y \in S : <<y, x>> \in R}) = n - 1
             listed == InOrder(S, R)
  <2>1. listed = [n \in 1 .. N |-> at(n)]
    BY DEF InOrder
  <2> HIDE DEF at, N, listed
  <2>2. listed = [n \in 1 .. N |-> listed[n]]
    BY <2>1
  <2> QED
    BY <2>2 DEF listed
<1> HIDE DEF N, order
<1>3. order \in [1 .. N -> T]
  BY <1>1, <1>2
<1>4. order \in Seq(T)
  BY <1>1, <1>3, SeqDef
<1>5. Range(order) = S
  BY <1>1 DEF Range
<1>6. ASSUME NEW i \in DOMAIN order, NEW j \in DOMAIN order, order[i] = order[j]
      PROVE  i = j
  <2>1. i \in 1 .. N /\ j \in 1 .. N /\ order[i] \in S
    BY <1>1
  <2>2. ~(i < j)
    BY <1>1, <1>6, <2>1
  <2>3. ~(j < i)
    BY <1>1, <1>6, <2>1
  <2> QED
    BY <1>1, <2>1, <2>2, <2>3
<1> QED
  BY <1>4, <1>5, <1>6 DEF order

\* What is kept of a list are some of its events, one for each key.
LEMMA KeptIs ==
    ASSUME NEW list \in Seq(EventRow)
    PROVE  /\ Kept(list) \subseteq Range(list) /\ Kept(list) \subseteq EventRow
           /\ IsFiniteSet(Kept(list))
           /\ \A a, b \in Kept(list) : a.key = b.key => a = b
<1> DEFINE N == Len(list)
           winners == {k \in DOMAIN list :
                         \A j \in DOMAIN list : list[j].key = list[k].key => j = k \/ CameFirst(list, k, j)}
<1>1. /\ N \in Nat /\ DOMAIN list = 1 .. N
      /\ \A i \in 1 .. N : list[i] \in EventRow
      /\ \A x : x \in Range(list) <=> \E i \in 1 .. N : x = list[i]
  BY RangeIs
<1>2. \A i \in 1 .. N : list[i].received \in Nat
  BY <1>1 DEF EventRow
<1>3. Kept(list) = {list[i] : i \in winners}
  BY DEF Kept
<1>4. winners \subseteq 1 .. N
  BY <1>1
<1>5. Kept(list) \subseteq Range(list) /\ Kept(list) \subseteq EventRow
  BY <1>1, <1>3, <1>4
<1>6. IsFiniteSet(Kept(list))
  <2>1. IsFiniteSet(1 .. N)
    BY <1>1, FS_Interval
  <2>2. IsFiniteSet(winners)
    BY <1>4, <2>1, FS_Subset
  <2> DEFINE f == [i \in winners |-> list[i]]
  <2>3. f \in Surjection(winners, Kept(list))
    <3> HIDE DEF winners
    <3> QED
      BY <1>3 DEF Surjection
  <2> HIDE DEF f, winners
  <2> QED
    BY <2>2, <2>3, FS_Surjection
<1>7. ASSUME NEW a \in Kept(list), NEW b \in Kept(list), a.key = b.key
      PROVE  a = b
  <2>1. PICK k \in winners : a = list[k]
    BY <1>3
  <2>2. PICK l \in winners : b = list[l]
    BY <1>3
  <2>3. k \in 1 .. N /\ l \in 1 .. N /\ list[k].key = list[l].key
    BY <1>4, <1>7, <2>1, <2>2
  <2>4. k = l \/ CameFirst(list, k, l)
    BY <1>1, <2>3
  <2>5. k = l \/ CameFirst(list, l, k)
    BY <1>1, <2>3
  <2>6. list[k].received \in Nat /\ list[l].received \in Nat /\ k \in Nat /\ l \in Nat
    BY <1>1, <1>2, <2>3
  <2>7. ~(CameFirst(list, k, l) /\ CameFirst(list, l, k))
    BY <2>6 DEF CameFirst
  <2> QED
    BY <2>1, <2>2, <2>4, <2>5, <2>7
<1> QED
  BY <1>5, <1>6, <1>7

\* A list without its doubles is a list of what is kept, each event once.
LEMMA DeduplicateIs ==
    ASSUME NEW list \in Seq(EventRow)
    PROVE  /\ Deduplicate(list) \in Seq(EventRow) /\ Range(Deduplicate(list)) = Kept(list)
           /\ OnceEach(Deduplicate(list))
<1> DEFINE kept == Kept(list)
           R == {p \in kept \X kept : Sooner(p[1], p[2])}
<1>1. /\ kept \subseteq EventRow /\ IsFiniteSet(kept)
      /\ \A a, b \in kept : a.key = b.key => a = b
  BY KeptIs
<1>2. \A a \in kept : a.occurred \in Int /\ a.key \in Int
  BY <1>1 DEF EventRow
<1>3. \A a, b \in kept : <<a, b>> \in R <=> Sooner(a, b)
  OBVIOUS
<1>4. Deduplicate(list) = InOrder(kept, R)
  BY DEF Deduplicate
<1> HIDE DEF kept, R
<1>5. \A x \in kept : <<x, x>> \notin R
  BY <1>2, <1>3 DEF Sooner
<1>6. \A x, y, z \in kept : <<x, y>> \in R /\ <<y, z>> \in R => <<x, z>> \in R
  <2> SUFFICES ASSUME NEW x \in kept, NEW y \in kept, NEW z \in kept, <<x, y>> \in R, <<y, z>> \in R
               PROVE  <<x, z>> \in R
    OBVIOUS
  <2>1. Sooner(x, y) /\ Sooner(y, z)
    BY <1>3
  <2>2. Sooner(x, z)
    BY <1>2, <2>1 DEF Sooner
  <2> QED
    BY <1>3, <2>2
<1>7. \A x, y \in kept : x # y => <<x, y>> \in R \/ <<y, x>> \in R
  <2> SUFFICES ASSUME NEW x \in kept, NEW y \in kept, x # y
               PROVE  <<x, y>> \in R \/ <<y, x>> \in R
    OBVIOUS
  <2>1. x.key # y.key
    BY <1>1
  <2>2. Sooner(x, y) \/ Sooner(y, x)
    BY <1>2, <2>1 DEF Sooner
  <2> QED
    BY <1>3, <2>2
<1>8. /\ InOrder(kept, R) \in Seq(EventRow) /\ Range(InOrder(kept, R)) = kept
      /\ \A i, j \in DOMAIN InOrder(kept, R) : InOrder(kept, R)[i] = InOrder(kept, R)[j] => i = j
  BY <1>1, <1>5, <1>6, <1>7, OrderedIs
<1>9. OnceEach(Deduplicate(list))
  <2> DEFINE out == InOrder(kept, R)
  <2> SUFFICES ASSUME NEW i \in DOMAIN out, NEW j \in DOMAIN out, out[i].key = out[j].key
               PROVE  i = j
    BY <1>4 DEF OnceEach
  <2>1. out[i] \in Range(out) /\ out[j] \in Range(out)
    BY DEF Range
  <2>2. out[i] \in kept /\ out[j] \in kept
    BY <1>8, <2>1
  <2>3. out[i] = out[j]
    BY <1>1, <2>2
  <2> QED
    BY <1>8, <2>3
<1> QED
  BY <1>4, <1>8, <1>9 DEF kept

\* An article becomes an event that was received when the response was.
LEMMA NormalizeIs ==
    ASSUME NEW payload \in Seq(Article), NEW at \in Nat
    PROVE  /\ Normalize(payload, at) \in Seq(EventRow)
           /\ \A e \in Range(Normalize(payload, at)) : e.received = at
<1> DEFINE usable == {i \in DOMAIN payload : payload[i].usable}
           R == {p \in usable \X usable : p[1] < p[2]}
           order == InOrder(usable, R)
           list == [n \in DOMAIN order |-> Event(payload[order[n]], at)]
<1>1. Normalize(payload, at) = list
  BY DEF Normalize
<1>2. /\ Len(payload) \in Nat /\ DOMAIN payload = 1 .. Len(payload)
      /\ \A i \in 1 .. Len(payload) : payload[i] \in Article
  BY RangeIs
<1>3. usable \subseteq 1 .. Len(payload)
  BY <1>2
<1>4. IsFiniteSet(usable)
  <2>1. IsFiniteSet(1 .. Len(payload))
    BY <1>2, FS_Interval
  <2> QED
    BY <1>3, <2>1, FS_Subset
<1>5. \A x, y \in usable : <<x, y>> \in R <=> x < y
  OBVIOUS
<1>6. \A x \in usable : x \in Nat
  BY <1>2, <1>3
<1> HIDE DEF usable, R
<1>7. /\ \A x \in usable : <<x, x>> \notin R
      /\ \A x, y, z \in usable : <<x, y>> \in R /\ <<y, z>> \in R => <<x, z>> \in R
      /\ \A x, y \in usable : x # y => <<x, y>> \in R \/ <<y, x>> \in R
  BY <1>5, <1>6
<1>8. order \in Seq(usable)
  BY <1>4, <1>7, OrderedIs
<1> HIDE DEF order
<1>9. Len(order) \in Nat /\ DOMAIN order = 1 .. Len(order) /\ \A n \in 1 .. Len(order) : order[n] \in usable
  BY <1>8, RangeIs
<1>10. \A article \in Article : Event(article, at) \in EventRow /\ Event(article, at).received = at
  BY DEF Article, Event, EventRow
<1>11. \A n \in 1 .. Len(order) : list[n] \in EventRow /\ list[n].received = at
  <2> SUFFICES ASSUME NEW n \in 1 .. Len(order)
               PROVE  list[n] \in EventRow /\ list[n].received = at
    OBVIOUS
  <2>1. payload[order[n]] \in Article
    BY <1>2, <1>3, <1>9
  <2>2. list[n] = Event(payload[order[n]], at)
    BY <1>9
  <2> QED
    BY <1>10, <2>1, <2>2
<1>12. DOMAIN list = 1 .. Len(order) /\ list = [n \in 1 .. Len(order) |-> list[n]]
  BY <1>9
<1> HIDE DEF list
<1>13. list \in [1 .. Len(order) -> EventRow]
  BY <1>11, <1>12
<1>14. list \in Seq(EventRow)
  BY <1>9, <1>13, SeqDef
<1>15. \A e \in Range(list) : e.received = at
  BY <1>11, <1>12 DEF Range
<1> QED
  BY <1>1, <1>14, <1>15

\* A merge of the file with events received no earlier keeps all events of the file
\* as they are.
LEMMA MergeKeeps ==
    ASSUME NEW old \in Seq(EventRow), NEW new \in Seq(EventRow), OnceEach(old), NEW now \in Nat,
           \A e \in Range(old) : e.received <= now, \A e \in Range(new) : e.received = now
    PROVE  /\ Range(old) \subseteq Range(Deduplicate(old \o new))
           /\ \A e \in Range(Deduplicate(old \o new)) : e.received <= now
<1> DEFINE list == old \o new
           M == Len(old)
           N == Len(list)
<1>1. /\ M \in Nat /\ DOMAIN old = 1 .. M /\ \A i \in 1 .. M : old[i] \in EventRow
      /\ \A x : x \in Range(old) <=> \E i \in 1 .. M : x = old[i]
      /\ Len(new) \in Nat /\ DOMAIN new = 1 .. Len(new) /\ \A i \in 1 .. Len(new) : new[i] \in EventRow
      /\ \A x : x \in Range(new) <=> \E i \in 1 .. Len(new) : x = new[i]
  BY RangeIs
<1>2. /\ list \in Seq(EventRow) /\ N = M + Len(new)
      /\ \A i \in 1 .. M + Len(new) : list[i] = IF i <= M THEN old[i] ELSE new[i - M]
  BY ConcatProperties
<1>3. N \in Nat /\ DOMAIN list = 1 .. N /\ \A x : x \in Range(list) <=> \E i \in 1 .. N : x = list[i]
  BY <1>2, RangeIs
<1>4. Range(Deduplicate(list)) = Kept(list) /\ Kept(list) \subseteq Range(list)
  BY <1>2, DeduplicateIs, KeptIs
<1> HIDE DEF list
<1>5. ASSUME NEW i \in 1 .. N
      PROVE  /\ i \in 1 .. M => list[i] = old[i] /\ list[i].received <= now
             /\ i \notin 1 .. M => list[i].received = now
             /\ list[i].received \in Nat
  <2>1. CASE i \in 1 .. M
    <3>1. i <= M /\ i \in 1 .. M + Len(new)
      BY <1>1, <1>2, <2>1
    <3>2. list[i] = old[i]
      BY <1>2, <3>1
    <3>3. old[i] \in Range(old) /\ old[i] \in EventRow
      BY <1>1, <2>1
    <3>4. list[i].received <= now /\ list[i].received \in Nat
      BY <3>2, <3>3 DEF EventRow
    <3> QED
      BY <2>1, <3>2, <3>4
  <2>2. CASE i \notin 1 .. M
    <3>1. i \in 1 .. M + Len(new) /\ ~(i <= M) /\ i - M \in 1 .. Len(new)
      BY <1>1, <1>2, <2>2
    <3>2. list[i] = new[i - M]
      BY <1>2, <3>1
    <3>3. new[i - M] \in Range(new)
      BY <1>1, <3>1
    <3> QED
      BY <2>2, <3>2, <3>3
  <2> QED
    BY <2>1, <2>2
<1>6. ASSUME NEW e \in Range(old)
      PROVE  e \in Kept(list)
  <2>1. PICK i \in 1 .. M : e = old[i]
    BY <1>1
  <2>2. i \in 1 .. N
    BY <1>1, <1>2
  <2>3. list[i] = e /\ list[i].received <= now /\ list[i].received \in Nat
    BY <1>5, <2>1, <2>2
  <2>4. ASSUME NEW j \in 1 .. N, list[j].key = list[i].key
        PROVE  j = i \/ CameFirst(list, i, j)
    <3>1. CASE j \in 1 .. M
      <4>1. old[j].key = old[i].key
        BY <1>5, <2>1, <2>3, <2>4, <3>1
      <4> QED
        BY <1>1, <3>1, <4>1 DEF OnceEach
    <3>2. CASE j \notin 1 .. M
      <4>1. list[j].received = now /\ i < j
        BY <1>1, <1>2, <1>5, <3>2
      <4> QED
        BY <2>3, <4>1 DEF CameFirst
    <3> QED
      BY <3>1, <3>2
  <2> QED
    BY <1>3, <2>2, <2>3, <2>4 DEF Kept
<1>7. ASSUME NEW e \in Kept(list)
      PROVE  e.received <= now
  <2>1. PICK i \in 1 .. N : e = list[i]
    BY <1>3, <1>4
  <2>2. list[i].received <= now
    <3>1. CASE i \in 1 .. M
      BY <1>5, <3>1
    <3>2. CASE i \notin 1 .. M
      <4>1. list[i].received = now
        BY <1>5, <3>2
      <4> QED
        BY <4>1
    <3> QED
      BY <3>1, <3>2
  <2> QED
    BY <2>1, <2>2
<1> QED
  BY <1>4, <1>6, <1>7 DEF list

\* What a merge writes came from what it merged.
LEMMA MergeSound ==
    ASSUME NEW responses, NEW old \in Seq(EventRow), NEW new \in Seq(EventRow),
           \A e \in Range(old) : FromArchive(responses, e), \A e \in Range(new) : FromArchive(responses, e)
    PROVE  Sound(responses, Deduplicate(old \o new))
<1> DEFINE list == old \o new
<1>1. list \in Seq(EventRow) /\ Range(list) = Range(old) \cup Range(new)
  <2>1. /\ list \in Seq(EventRow) /\ Len(list) = Len(old) + Len(new)
        /\ \A i \in 1 .. Len(old) + Len(new) : list[i] = IF i <= Len(old) THEN old[i] ELSE new[i - Len(old)]
    BY ConcatProperties
  <2>2. /\ Len(old) \in Nat /\ \A x : x \in Range(old) <=> \E i \in 1 .. Len(old) : x = old[i]
        /\ Len(new) \in Nat /\ \A x : x \in Range(new) <=> \E i \in 1 .. Len(new) : x = new[i]
        /\ \A x : x \in Range(list) <=> \E i \in 1 .. Len(list) : x = list[i]
    BY <2>1, RangeIs
  <2> HIDE DEF list
  <2>3. ASSUME NEW x \in Range(list)
        PROVE  x \in Range(old) \cup Range(new)
    <3>1. PICK i \in 1 .. Len(old) + Len(new) : x = list[i]
      BY <2>1, <2>2
    <3>2. CASE i <= Len(old)
      BY <2>1, <2>2, <3>1, <3>2
    <3>3. CASE ~(i <= Len(old))
      <4>1. i - Len(old) \in 1 .. Len(new) /\ x = new[i - Len(old)]
        BY <2>1, <2>2, <3>1, <3>3
      <4> QED
        BY <2>2, <4>1
    <3> QED
      BY <3>2, <3>3
  <2>4. ASSUME NEW x \in Range(old)
        PROVE  x \in Range(list)
    <3>1. PICK i \in 1 .. Len(old) : x = old[i]
      BY <2>2
    <3>2. i \in 1 .. Len(list) /\ list[i] = old[i]
      BY <2>1, <2>2
    <3> QED
      BY <2>2, <3>1, <3>2
  <2>5. ASSUME NEW x \in Range(new)
        PROVE  x \in Range(list)
    <3>1. PICK i \in 1 .. Len(new) : x = new[i]
      BY <2>2
    <3>2. PICK k \in 1 .. Len(list) : k = Len(old) + i
      BY <2>1, <2>2
    <3>3. ~(k <= Len(old)) /\ k - Len(old) = i /\ k \in 1 .. Len(old) + Len(new)
      BY <2>1, <2>2, <3>2
    <3>4. list[k] = new[i]
      BY <2>1, <3>3
    <3> QED
      BY <2>2, <3>1, <3>4
  <2> QED
    BY <2>1, <2>3, <2>4, <2>5
<1>2. /\ Deduplicate(list) \in Seq(EventRow)
      /\ OnceEach(Deduplicate(list)) /\ Range(Deduplicate(list)) \subseteq Range(list)
  BY <1>1, DeduplicateIs, KeptIs
<1> QED
  BY <1>1, <1>2 DEF Sound

-----------------------------------------------------------------------------
(* The steps.                                                              *)

\* A call takes on another record, and the others stay as they are.
LEMMA CallIs ==
    ASSUME NewsTypeOK, NEW c \in Ingesters, NEW after \in IngestCall, ingest' = [ingest EXCEPT ![c] = after]
    PROVE  /\ ingest' \in [Ingesters -> IngestCall] /\ ingest'[c] = after
           /\ \A o \in Ingesters \ {c} : ingest'[o] = ingest[o]
BY DEF NewsTypeOK

\* A call goes on: nothing changes but where it is.
LEMMA ReachIs ==
    ASSUME NewsTypeOK, NEW c \in Ingesters, NEW step \in Step, Reach(c, step)
    PROVE  /\ ingest' \in [Ingesters -> IngestCall] /\ \A o \in Ingesters \ {c} : ingest'[o] = ingest[o]
           /\ ingest'[c].pc = step /\ ingest'[c].at = ingest[c].at
           /\ ingest'[c].new = ingest[c].new /\ ingest'[c].combined = ingest[c].combined
           /\ ingest'[c].written = ingest[c].written /\ ingest'[c].handle = ingest[c].handle
<1>1. ingest \in [Ingesters -> IngestCall]
  BY DEF NewsTypeOK
<1>2. ingest' = [ingest EXCEPT ![c].pc = step]
  BY DEF Reach
<1>3. PICK call \in IngestCall : call = ingest[c]
  BY <1>1
<1>4. PICK after : after = [call EXCEPT !.pc = step]
  OBVIOUS
<1>5. /\ after \in IngestCall /\ after.pc = step /\ after.at = call.at
      /\ after.new = call.new /\ after.combined = call.combined
      /\ after.written = call.written /\ after.handle = call.handle
  BY <1>4 DEF IngestCall
<1>6. ingest' = [ingest EXCEPT ![c] = after]
  BY <1>1, <1>2, <1>3, <1>4
<1> QED
  BY <1>3, <1>5, <1>6, CallIs

\* What is archived with a manifest stays, and what is sound stays sound.
LEMMA SoundStays ==
    ASSUME NEW responses, NEW more, \A r \in responses : r.manifest => r \in more
    PROVE  /\ \A e : FromArchive(responses, e) => FromArchive(more, e)
           /\ \A list : Sound(responses, list) => Sound(more, list)
<1>1. \A e : FromArchive(responses, e) => FromArchive(more, e)
  BY DEF FromArchive
<1>2. \A list : Sound(responses, list) => Sound(more, list)
  BY <1>1 DEF Sound
<1> QED
  BY <1>1, <1>2

\* An event of the file stays in it.
Stays == ~shared' => Range(events) \subseteq Range(events')

\* A step of one call keeps the invariant if it leaves the others where they are and does
\* its part.
LEMMA StepKeeps ==
    ASSUME NewsInvariant, NEW c \in Ingesters,
           ingest' \in [Ingesters -> IngestCall],
           \A o \in Ingesters \ {c} : ingest'[o].pc = ingest[o].pc /\ Filling(ingest[o])',
           raw' \subseteq Response, events' \in Seq(EventLine), temporary' \in Seq(Seq(EventLine)),
           ingests' \in Nat, shared' \in BOOLEAN, Filling(ingest[c])',
           ~shared' => /\ \A o \in Ingesters \ {c} : ingest[o].pc = "idle"
                       /\ Sound(raw', events') /\ NoneLater(events)' /\ Latest(ingest[c])'
                       /\ Range(events) \subseteq Range(events')
    PROVE  NewsInvariant' /\ Stays
<1>1. NewsTypeOK'
  BY DEF NewsTypeOK
<1>2. \A o \in Ingesters : Filling(ingest[o])'
  OBVIOUS
<1>3. Alone'
  <2> SUFFICES ASSUME ~shared'
               PROVE  /\ Sound(raw', events') /\ NoneLater(events)'
                      /\ \A o \in Ingesters : Latest(ingest[o])'
                      /\ \A d, o \in Ingesters : d = o \/ ingest'[d].pc = "idle" \/ ingest'[o].pc = "idle"
    BY DEF Alone
  <2>1. \A o \in Ingesters \ {c} : ingest'[o].pc = "idle"
    OBVIOUS
  <2>2. \A o \in Ingesters \ {c} : Latest(ingest[o])'
    BY <2>1 DEF Latest
  <2> QED
    BY <2>1, <2>2
<1> QED
  BY <1>1, <1>2, <1>3 DEF NewsInvariant, Stays

\* The facts that every step starts from.
LEMMA NowIs ==
    ASSUME NewsInvariant, NEW c \in Ingesters
    PROVE  /\ NewsTypeOK /\ raw \subseteq Response
           /\ events \in Seq(EventLine) /\ temporary \in Seq(Seq(EventLine))
           /\ ingests \in Nat /\ shared \in BOOLEAN
           /\ ingest \in [Ingesters -> IngestCall] /\ ingest[c] \in IngestCall
           /\ ingest[c].new \in Seq(EventRow) /\ ingest[c].combined \in Seq(EventRow)
           /\ ingest[c].payload \in Seq(Article) /\ ingest[c].at \in Nat /\ ingest[c].written \in Nat
           /\ \A o \in Ingesters : Filling(ingest[o])
           /\ ~shared => Sound(raw, events) /\ NoneLater(events) /\ Latest(ingest[c])
           /\ ~shared /\ ingest[c].pc # "idle" => \A o \in Ingesters \ {c} : ingest[o].pc = "idle"
<1>1. NewsTypeOK /\ \A o \in Ingesters : Filling(ingest[o])
  BY DEF NewsInvariant
<1>2. ingest[c] \in IngestCall
  BY <1>1 DEF NewsTypeOK
<1>3. \A call \in IngestCall : /\ call.new \in Seq(EventRow) /\ call.combined \in Seq(EventRow)
                               /\ call.payload \in Seq(Article) /\ call.at \in Nat /\ call.written \in Nat
  BY DEF IngestCall
<1>4. ~shared => Sound(raw, events) /\ NoneLater(events) /\ Latest(ingest[c])
  BY DEF NewsInvariant, Alone
<1>5. ~shared /\ ingest[c].pc # "idle" => \A o \in Ingesters \ {c} : ingest[o].pc = "idle"
  BY DEF NewsInvariant, Alone
<1> QED
  BY <1>1, <1>2, <1>3, <1>4, <1>5 DEF NewsTypeOK

\* A step that leaves the files and the other calls alone.
LEMMA QuietKeeps ==
    ASSUME NewsInvariant, NEW c \in Ingesters,
           ingest' \in [Ingesters -> IngestCall], \A o \in Ingesters \ {c} : ingest'[o] = ingest[o],
           UNCHANGED <<events, temporary>>, raw' \subseteq Response, \A r \in raw : r.manifest => r \in raw',
           ingests' \in Nat, ingests <= ingests', shared' \in BOOLEAN, ~shared' => ~shared,
           Filling(ingest[c])',
           ~shared' => Latest(ingest[c])' /\ \A o \in Ingesters \ {c} : ingest[o].pc = "idle"
    PROVE  NewsInvariant' /\ Stays
<1>1. /\ NewsTypeOK /\ events \in Seq(EventLine) /\ temporary \in Seq(Seq(EventLine)) /\ ingests \in Nat
      /\ \A o \in Ingesters : Filling(ingest[o])
      /\ ~shared => Sound(raw, events) /\ NoneLater(events)
  BY NowIs
<1>2. \A o \in Ingesters \ {c} : ingest'[o].pc = ingest[o].pc /\ Filling(ingest[o])'
  BY <1>1 DEF Filling
<1>3. ASSUME ~shared'
      PROVE  Sound(raw', events') /\ NoneLater(events)'
  <2>1. Sound(raw, events) /\ NoneLater(events)
    BY <1>1, <1>3
  <2>2. Sound(raw', events')
    BY <2>1, SoundStays
  <2>3. ASSUME NEW e \in Range(events')
        PROVE  e.received <= ingests'
    <3>1. e \in EventRow /\ e.received <= ingests
      BY <2>1, RangeIs DEF Sound, NoneLater
    <3>2. e.received \in Nat
      BY <3>1 DEF EventRow
    <3> QED
      BY <1>1, <3>1, <3>2
  <2> QED
    BY <2>2, <2>3 DEF NoneLater
<1> QED
  BY <1>1, <1>2, <1>3, StepKeeps

\* Nothing at all is sound, and the first part of a temporary file is a list of lines.
LEMMA EmptyIsSound ==
    ASSUME NEW responses
    PROVE  /\ Sound(responses, <<>>) /\ <<>> \in Seq(EventRow) /\ <<>> \in Seq(EventLine)
           /\ <<<<>>>> \in Seq(Seq(EventLine)) /\ <<>> \in Seq(Seq(EventLine))
<1>1. <<>> \in Seq(EventRow) /\ <<>> \in Seq(EventLine) /\ Len(<<>>) = 0 /\ DOMAIN <<>> = {}
  BY EmptySeq
<1>2. Range(<<>>) = {}
  BY <1>1 DEF Range
<1>3. Sound(responses, <<>>)
  BY <1>1, <1>2 DEF Sound, OnceEach
<1> QED
  BY <1>1, <1>3

\* A line that is torn is no event.
LEMMA TornIs ==
    ASSUME TRUE
    PROVE  Torn \notin EventRow /\ EventRow \subseteq EventLine /\ Torn \in EventLine
<1>1. Torn \notin EventRow
  <2> SUFFICES ASSUME Torn \in EventRow
               PROVE  FALSE
    OBVIOUS
  <2>1. DOMAIN Torn = {"key", "occurred", "received", "score", "eligible"}
    BY DEF EventRow
  <2>2. DOMAIN Torn = {"torn"}
    BY DEF Torn
  <2>3. "key" \in {"torn"}
    BY <2>1, <2>2
  <2> QED
    BY <2>3
<1> QED
  BY <1>1 DEF EventLine

\* A list of lines none of which is torn is a list of events, and the other way round.
LEMMA WholeIs ==
    ASSUME NEW list
    PROVE  /\ list \in Seq(EventLine) /\ Torn \notin Range(list) => list \in Seq(EventRow)
           /\ list \in Seq(EventRow) => list \in Seq(EventLine) /\ Torn \notin Range(list)
<1>1. ASSUME list \in Seq(EventLine), Torn \notin Range(list)
      PROVE  list \in Seq(EventRow)
  <2>1. /\ Len(list) \in Nat /\ DOMAIN list = 1 .. Len(list)
        /\ \A i \in 1 .. Len(list) : list[i] \in EventLine
        /\ \A x : x \in Range(list) <=> \E i \in 1 .. Len(list) : x = list[i]
    BY <1>1, RangeIs
  <2>2. \A i \in 1 .. Len(list) : list[i] \in EventRow
    BY <1>1, <2>1 DEF EventLine
  <2>3. list = [i \in 1 .. Len(list) |-> list[i]]
    BY <1>1, <2>1
  <2> QED
    BY <2>1, <2>2, <2>3, IsASeq
<1>2. ASSUME list \in Seq(EventRow)
      PROVE  list \in Seq(EventLine) /\ Torn \notin Range(list)
  <2>1. list \in Seq(EventLine)
    BY <1>2, TornIs
  <2> QED
    BY <1>2, <2>1, TornIs, RangeIs
<1> QED
  BY <1>1, <1>2

\* What a call has written is the first part of what it has to write, and one line more
\* is the next.
LEMMA SofarIs ==
    ASSUME NEW list \in Seq(EventRow), NEW n \in Nat, n <= Len(list)
    PROVE  /\ SubSeq(list, 1, n) \in Seq(EventRow) /\ Len(SubSeq(list, 1, n)) = n
           /\ n = Len(list) => SubSeq(list, 1, n) = list
           /\ n = 0 => SubSeq(list, 1, n) = <<>>
           /\ n < Len(list) =>
                /\ list[n + 1] \in EventRow /\ SubSeq(list, 1, n + 1) \in Seq(EventRow)
                /\ Append(SubSeq(list, 1, n), list[n + 1]) = SubSeq(list, 1, n + 1)
<1>1. Len(list) \in Nat /\ DOMAIN list = 1 .. Len(list) /\ \A i \in 1 .. Len(list) : list[i] \in EventRow
  BY RangeIs
<1>2. ASSUME NEW m \in Nat, m <= Len(list)
      PROVE  /\ SubSeq(list, 1, m) \in Seq(EventRow) /\ Len(SubSeq(list, 1, m)) = m
             /\ \A i \in 1 .. m : SubSeq(list, 1, m)[i] = list[i]
  <2>1. 1 \in Int /\ m \in Int /\ \A i \in 1 .. m : list[i] \in EventRow
    BY <1>1, <1>2
  <2>2. /\ SubSeq(list, 1, m) \in Seq(EventRow)
        /\ Len(SubSeq(list, 1, m)) = IF 1 <= m THEN m - 1 + 1 ELSE 0
        /\ \A i \in 1 .. m - 1 + 1 : SubSeq(list, 1, m)[i] = list[1 + i - 1]
    BY <2>1, SubSeqProperties
  <2>3. Len(SubSeq(list, 1, m)) = m /\ m - 1 + 1 = m
    BY <1>2, <2>2
  <2> QED
    BY <2>2, <2>3
<1>3. PICK some \in Seq(EventRow) : some = SubSeq(list, 1, n)
  BY <1>2
<1>4. Len(some) = n /\ \A i \in 1 .. n : some[i] = list[i]
  BY <1>2, <1>3
<1>5. n = Len(list) => some = list
  BY <1>1, <1>4, SeqEqual
<1>6. n = 0 => some = <<>>
  BY <1>4, EmptySeq
<1>7. ASSUME n < Len(list)
      PROVE  /\ list[n + 1] \in EventRow /\ SubSeq(list, 1, n + 1) \in Seq(EventRow)
             /\ Append(some, list[n + 1]) = SubSeq(list, 1, n + 1)
  <2>1. n + 1 \in Nat /\ n + 1 <= Len(list) /\ n + 1 \in 1 .. Len(list)
    BY <1>1, <1>7
  <2>2. PICK more \in Seq(EventRow) : more = SubSeq(list, 1, n + 1)
    BY <1>2, <2>1
  <2>3. Len(more) = n + 1 /\ \A i \in 1 .. n + 1 : more[i] = list[i]
    BY <1>2, <2>1, <2>2
  <2>4. list[n + 1] \in EventRow
    BY <1>1, <2>1
  <2>5. PICK longer \in Seq(EventRow) : longer = Append(some, list[n + 1])
    BY <2>4, AppendProperties
  <2>6. Len(longer) = n + 1 /\ (\A i \in 1 .. n : longer[i] = some[i]) /\ longer[n + 1] = list[n + 1]
    BY <1>4, <2>4, <2>5, AppendProperties
  <2>7. ASSUME NEW i \in 1 .. n + 1
        PROVE  longer[i] = more[i]
    <3>1. CASE i \in 1 .. n
      BY <1>4, <2>3, <2>6, <3>1
    <3>2. CASE i = n + 1
      BY <2>3, <2>6, <3>2
    <3> QED
      BY <3>1, <3>2
  <2>8. longer = more
    BY <2>3, <2>6, <2>7, SeqEqual
  <2> QED
    BY <2>2, <2>4, <2>5, <2>8
<1> QED
  BY <1>2, <1>3, <1>4, <1>5, <1>6, <1>7

\* Whatever a call writes into, and wherever, it is a list of lines afterwards.
LEMMA WrittenIs ==
    ASSUME NEW call \in IngestCall, call.written <= Len(call.combined),
           NEW old \in Seq(EventLine), NEW line \in EventLine
    PROVE  /\ Written(call, old, line) \subseteq Seq(EventLine)
           /\ old \in {Sofar(call), Append(Sofar(call), Torn)}
                => Written(call, old, line) = {Append(Sofar(call), line)}
<1>1. call.combined \in Seq(EventRow) /\ call.written \in Nat
  BY DEF IngestCall
<1>2. Sofar(call) \in Seq(EventRow)
  BY <1>1, SofarIs DEF Sofar
<1>3. Sofar(call) \in Seq(EventLine)
  BY <1>2, WholeIs
<1>4. Append(Sofar(call), line) \in Seq(EventLine)
  BY <1>3, AppendProperties
<1>5. Len(old) \in Nat /\ \A i \in 1 .. Len(old) : old[i] \in EventLine
  BY RangeIs
<1>6. ASSUME NEW n \in 0 .. Len(old), NEW m \in 0 .. Len(old),
             NEW part \in {<<line>>, <<Torn>>, <<line, Torn>>}
      PROVE  SubSeq(old, 1, n) \o part \o SubSeq(old, m + 1, Len(old)) \in Seq(EventLine)
  <2>1. 1 \in Int /\ n \in Int /\ m + 1 \in Int /\ Len(old) \in Int
    BY <1>5
  <2>2. /\ \A i \in 1 .. n : old[i] \in EventLine
        /\ \A i \in m + 1 .. Len(old) : old[i] \in EventLine
    BY <1>5
  <2>3. SubSeq(old, 1, n) \in Seq(EventLine)
    BY <2>1, <2>2, SubSeqProperties
  <2>4. SubSeq(old, m + 1, Len(old)) \in Seq(EventLine)
    BY <2>1, <2>2, SubSeqProperties
  <2>5. part \in Seq(EventLine)
    <3>1. PICK torn \in EventLine : torn = Torn
      BY TornIs
    <3>2. <<line>> \in Seq(EventLine) /\ <<torn>> \in Seq(EventLine) /\ <<line, torn>> \in Seq(EventLine)
      OBVIOUS
    <3> QED
      BY <3>1, <3>2
  <2>6. SubSeq(old, 1, n) \o part \in Seq(EventLine)
    BY <2>3, <2>5, ConcatProperties
  <2> QED
    BY <2>4, <2>6, ConcatProperties
<1>7. CASE old \in {Sofar(call), Append(Sofar(call), Torn)}
  BY <1>4, <1>7 DEF Written
<1>8. CASE old \notin {Sofar(call), Append(Sofar(call), Torn)}
  <2> SUFFICES ASSUME NEW new \in Written(call, old, line)
               PROVE  new \in Seq(EventLine)
    BY <1>8
  <2>1. new \in UNION {{SubSeq(old, 1, gap[1]) \o part \o SubSeq(old, gap[2] + 1, Len(old)) :
                          part \in {<<line>>, <<Torn>>, <<line, Torn>>}} : gap \in Gaps(call, old)}
    BY <1>8 DEF Written
  <2>2. PICK gap \in Gaps(call, old), part \in {<<line>>, <<Torn>>, <<line, Torn>>} :
               new = SubSeq(old, 1, gap[1]) \o part \o SubSeq(old, gap[2] + 1, Len(old))
    BY <2>1, Zenon
  <2>3. gap[1] \in 0 .. Len(old) /\ gap[2] \in 0 .. Len(old)
    BY DEF Gaps
  <2> QED
    BY <1>6, <2>2, <2>3
<1> QED
  BY <1>7, <1>8

\* A response is fetched: it is the latest, and whoever else is under way is noticed.
LEMMA FetchKeeps ==
    ASSUME NewsConfig, NewsInvariant, NEW c \in Ingesters, Fetch(c)
    PROVE  NewsInvariant' /\ Stays
<1>1. /\ NewsTypeOK /\ raw \subseteq Response /\ ingests \in Nat /\ shared \in BOOLEAN
      /\ ingest \in [Ingesters -> IngestCall] /\ \A o \in Ingesters : Filling(ingest[o])
  BY NowIs
<1>2. /\ ingest[c].pc = "idle" /\ ingests' = ingests + 1
      /\ UNCHANGED <<raw, events, temporary>>
  BY DEF Fetch
<1>3. shared' \in BOOLEAN /\ (~shared' => ~shared)
      /\ (~shared' => \A o \in Ingesters \ {c} : ingest[o].pc = "idle")
  <2>1. shared' = (shared \/ \E o \in Ingesters \ {c} : ingest[o].pc # "idle")
    BY DEF Fetch
  <2> QED
    BY <1>1, <2>1, Zenon
<1>4. ingests' \in Nat /\ ingests <= ingests' /\ raw' \subseteq Response /\ raw' = raw
  BY <1>1, <1>2
<1>5. CASE \E payload \in Articles :
             ingest' = [ingest EXCEPT ![c] = [Idle EXCEPT !.pc = "archive", !.payload = payload, !.at = ingests + 1]]
  <2>1. PICK payload \in Articles :
          ingest' = [ingest EXCEPT ![c] = [Idle EXCEPT !.pc = "archive", !.payload = payload, !.at = ingests + 1]]
    BY <1>5
  <2>2. PICK call : call = [Idle EXCEPT !.pc = "archive", !.payload = payload, !.at = ingests + 1]
    OBVIOUS
  <2>3. call = [pc |-> "archive", payload |-> payload, at |-> ingests + 1, new |-> <<>>, combined |-> <<>>,
                written |-> 0, handle |-> "gone"]
    BY <2>2 DEF Idle
  <2>4. payload \in Seq(Article) /\ ingests + 1 \in Nat /\ <<>> \in Seq(EventRow)
    BY <1>1, <2>1, EmptyIsSound DEF NewsConfig
  <2>5. call \in IngestCall /\ call.pc = "archive" /\ call.at = ingests'
    BY <1>2, <2>3, <2>4 DEF IngestCall, Step
  <2>6. /\ ingest' \in [Ingesters -> IngestCall] /\ ingest'[c] = call
        /\ \A o \in Ingesters \ {c} : ingest'[o] = ingest[o]
    BY <1>1, <2>1, <2>2, <2>5, CallIs
  <2>7. Filling(ingest[c])' /\ Latest(ingest[c])'
    BY <2>5, <2>6 DEF Filling, Latest
  <2> QED
    BY <1>2, <1>3, <1>4, <2>6, <2>7, QuietKeeps
<1>6. CASE UNCHANGED ingest
  <2>1. Filling(ingest[c])' /\ Latest(ingest[c])'
    BY <1>2, <1>6 DEF Filling, Latest
  <2> QED
    BY <1>1, <1>2, <1>3, <1>4, <1>6, <2>1, QuietKeeps
<1> QED
  BY <1>5, <1>6 DEF Fetch

\* A response is archived, first without its manifest.
LEMMA ArchiveFileKeeps ==
    ASSUME NewsInvariant, NEW c \in Ingesters, ArchiveFile(c)
    PROVE  NewsInvariant' /\ Stays
<1>1. /\ NewsTypeOK /\ raw \subseteq Response /\ ingests \in Nat /\ shared \in BOOLEAN
      /\ ingest[c].payload \in Seq(Article) /\ ingest[c].at \in Nat
      /\ ~shared => Latest(ingest[c])
      /\ ~shared /\ ingest[c].pc # "idle" => \A o \in Ingesters \ {c} : ingest[o].pc = "idle"
  BY NowIs
<1>2. /\ ingest[c].pc = "archive" /\ Reach(c, "manifest")
      /\ raw' = raw \cup {[payload |-> ingest[c].payload, at |-> ingest[c].at, manifest |-> FALSE]}
      /\ UNCHANGED <<events, temporary, ingests, shared>>
  BY DEF ArchiveFile
<1>3. /\ ingest' \in [Ingesters -> IngestCall] /\ \A o \in Ingesters \ {c} : ingest'[o] = ingest[o]
      /\ ingest'[c].pc = "manifest" /\ ingest'[c].at = ingest[c].at
  BY <1>1, <1>2, ReachIs DEF Step
<1>4. raw' \subseteq Response /\ \A r \in raw : r.manifest => r \in raw'
  <2>1. [payload |-> ingest[c].payload, at |-> ingest[c].at, manifest |-> FALSE] \in Response
    BY <1>1 DEF Response
  <2> QED
    BY <1>1, <1>2, <2>1
<1>5. Filling(ingest[c])'
  BY <1>3 DEF Filling
<1>6. ~shared' => Latest(ingest[c])'
  BY <1>1, <1>2, <1>3 DEF Latest
<1> QED
  BY <1>1, <1>2, <1>3, <1>4, <1>5, <1>6, QuietKeeps

\* The manifest is written, and from here on the articles are events of the archive.
LEMMA ArchiveManifestKeeps ==
    ASSUME NewsInvariant, NEW c \in Ingesters, ArchiveManifest(c)
    PROVE  NewsInvariant' /\ Stays
<1>1. /\ NewsTypeOK /\ raw \subseteq Response /\ ingests \in Nat /\ shared \in BOOLEAN
      /\ ingest \in [Ingesters -> IngestCall] /\ ingest[c] \in IngestCall
      /\ ingest[c].payload \in Seq(Article) /\ ingest[c].at \in Nat
      /\ ~shared => Latest(ingest[c])
      /\ ~shared /\ ingest[c].pc # "idle" => \A o \in Ingesters \ {c} : ingest[o].pc = "idle"
  BY NowIs
<1>2. PICK entry : entry = [payload |-> ingest[c].payload, at |-> ingest[c].at, manifest |-> TRUE]
  OBVIOUS
<1>3. PICK bare : bare = [entry EXCEPT !.manifest = FALSE]
  OBVIOUS
<1>4. PICK list : list = Normalize(ingest[c].payload, ingest[c].at)
  OBVIOUS
<1>5. PICK new : new = Deduplicate(list)
  OBVIOUS
<1>6. /\ ingest[c].pc = "manifest" /\ raw' = (raw \ {bare}) \cup {entry}
      /\ ingest' = [ingest EXCEPT ![c].pc = "read", ![c].new = new]
      /\ UNCHANGED <<events, temporary, ingests, shared>>
  BY <1>2, <1>3, <1>4, <1>5 DEF ArchiveManifest
<1>7. list \in Seq(EventRow) /\ \A e \in Range(list) : e.received = ingest[c].at
  BY <1>1, <1>4, NormalizeIs
<1>8. new \in Seq(EventRow) /\ Range(new) \subseteq Range(list)
  BY <1>5, <1>7, DeduplicateIs, KeptIs
<1>9. entry \in Response /\ entry.manifest = TRUE /\ bare.manifest = FALSE
      /\ entry.payload = ingest[c].payload /\ entry.at = ingest[c].at
  BY <1>1, <1>2, <1>3 DEF Response
<1>10. raw' \subseteq Response /\ \A r \in raw : r.manifest => r \in raw'
  BY <1>1, <1>6, <1>9
<1>11. \A e \in Range(new) : FromArchive(raw', e)
  BY <1>4, <1>6, <1>8, <1>9 DEF FromArchive
<1>12. PICK call \in IngestCall : call = ingest[c]
  BY <1>1
<1>13. PICK after : after = [call EXCEPT !.pc = "read", !.new = new]
  OBVIOUS
<1>14. after \in IngestCall /\ after.pc = "read" /\ after.new = new /\ after.at = ingest[c].at
  BY <1>8, <1>12, <1>13 DEF IngestCall, Step
<1>15. ingest' = [ingest EXCEPT ![c] = after]
  BY <1>1, <1>6, <1>12, <1>13
<1>16. /\ ingest' \in [Ingesters -> IngestCall] /\ ingest'[c] = after
       /\ \A o \in Ingesters \ {c} : ingest'[o] = ingest[o]
  BY <1>1, <1>14, <1>15, CallIs
<1>17. Filling(ingest[c])'
  BY <1>14, <1>16 DEF Filling
<1>18. ~shared' => Latest(ingest[c])'
  <2> SUFFICES ASSUME ~shared
               PROVE  Latest(ingest[c])'
    BY <1>6
  <2>1. ingest[c].at = ingests
    BY <1>1, <1>6 DEF Latest
  <2>2. \A e \in Range(new) : e.received = ingests
    BY <1>7, <1>8, <2>1
  <2> QED
    BY <1>6, <1>11, <1>14, <1>16, <2>1, <2>2 DEF Latest
<1> QED
  BY <1>1, <1>6, <1>10, <1>16, <1>17, <1>18, QuietKeeps

\* The file is read and merged with what is new, or has a torn line.
LEMMA ReadEventsKeeps ==
    ASSUME NewsInvariant, NEW c \in Ingesters, ReadEvents(c)
    PROVE  NewsInvariant' /\ Stays
<1>1. /\ NewsTypeOK /\ raw \subseteq Response /\ events \in Seq(EventLine) /\ ingests \in Nat /\ shared \in BOOLEAN
      /\ ingest \in [Ingesters -> IngestCall] /\ ingest[c] \in IngestCall
      /\ ingest[c].new \in Seq(EventRow)
      /\ ~shared => Sound(raw, events) /\ NoneLater(events) /\ Latest(ingest[c])
      /\ ~shared /\ ingest[c].pc # "idle" => \A o \in Ingesters \ {c} : ingest[o].pc = "idle"
  BY NowIs
<1>2. ingest[c].pc = "read" /\ UNCHANGED <<raw, events, temporary, ingests, shared>>
  BY DEF ReadEvents
<1>3. CASE Torn \in Range(events)
  <2>1. Reach(c, "idle")
    BY <1>3 DEF ReadEvents
  <2>2. /\ ingest' \in [Ingesters -> IngestCall] /\ \A o \in Ingesters \ {c} : ingest'[o] = ingest[o]
        /\ ingest'[c].pc = "idle"
    BY <1>1, <2>1, ReachIs DEF Step
  <2>3. Filling(ingest[c])' /\ Latest(ingest[c])'
    BY <2>2 DEF Filling, Latest
  <2> QED
    BY <1>1, <1>2, <2>2, <2>3, QuietKeeps
<1>4. CASE Torn \notin Range(events)
  <2>1. PICK new \in Seq(EventRow) : new = ingest[c].new
    BY <1>1
  <2>2. PICK old \in Seq(EventRow) : old = events
    BY <1>1, <1>4, WholeIs
  <2>3. PICK merged : merged = Deduplicate(old \o new)
    OBVIOUS
  <2>4. ingest' = [ingest EXCEPT ![c].pc = "open", ![c].combined = merged]
    BY <1>4, <2>1, <2>2, <2>3 DEF ReadEvents
  <2>5. merged \in Seq(EventRow)
    <3>1. old \o new \in Seq(EventRow)
      BY <2>1, <2>2, ConcatProperties
    <3> QED
      BY <2>3, <3>1, DeduplicateIs
  <2>6. PICK call \in IngestCall : call = ingest[c]
    BY <1>1
  <2>7. PICK after : after = [call EXCEPT !.pc = "open", !.combined = merged]
    OBVIOUS
  <2>8. after \in IngestCall /\ after.pc = "open" /\ after.combined = merged /\ after.at = ingest[c].at
    BY <2>5, <2>6, <2>7 DEF IngestCall, Step
  <2>9. ingest' = [ingest EXCEPT ![c] = after]
    BY <1>1, <2>4, <2>6, <2>7
  <2>10. /\ ingest' \in [Ingesters -> IngestCall] /\ ingest'[c] = after
         /\ \A o \in Ingesters \ {c} : ingest'[o] = ingest[o]
    BY <1>1, <2>8, <2>9, CallIs
  <2>11. Filling(ingest[c])'
    BY <2>8, <2>10 DEF Filling
  <2>12. ASSUME ~shared
         PROVE  Latest(ingest[c])'
    <3>1. /\ ingest[c].at = ingests /\ Sound(raw, old) /\ \A e \in Range(old) : e.received <= ingests
          /\ \A e \in Range(new) : e.received = ingests /\ FromArchive(raw, e)
      BY <1>1, <1>2, <2>1, <2>2, <2>12 DEF Latest, NoneLater
    <3>2. OnceEach(old) /\ \A e \in Range(old) : FromArchive(raw, e)
      BY <3>1 DEF Sound
    <3>3. Sound(raw, merged)
      BY <2>1, <2>2, <2>3, <3>1, <3>2, MergeSound
    <3>4. Range(old) \subseteq Range(merged) /\ \A e \in Range(merged) : e.received <= ingests
      BY <1>1, <2>1, <2>2, <2>3, <3>1, <3>2, MergeKeeps
    <3> QED
      BY <1>2, <2>2, <2>8, <2>10, <3>1, <3>3, <3>4 DEF Latest, NoneLater
  <2> QED
    BY <1>1, <1>2, <2>10, <2>11, <2>12, QuietKeeps
<1> QED
  BY <1>3, <1>4

\* A call that writes may be taken as far as its own lines go.
LEMMA FilesKeep ==
    ASSUME NewsInvariant, NEW c \in Ingesters, ingest[c].pc # "idle",
           ingest' \in [Ingesters -> IngestCall], \A o \in Ingesters \ {c} : ingest'[o] = ingest[o],
           UNCHANGED <<raw, ingests, shared>>,
           events' \in Seq(EventLine), temporary' \in Seq(Seq(EventLine)),
           temporary' # <<>> \/ temporary = <<>>, Filling(ingest[c])',
           ~shared => UNCHANGED events /\ Latest(ingest[c])'
    PROVE  NewsInvariant' /\ Stays
<1>1. /\ NewsTypeOK /\ raw \subseteq Response /\ ingests \in Nat /\ shared \in BOOLEAN
      /\ \A o \in Ingesters : Filling(ingest[o])
      /\ ~shared => Sound(raw, events) /\ NoneLater(events)
      /\ ~shared /\ ingest[c].pc # "idle" => \A o \in Ingesters \ {c} : ingest[o].pc = "idle"
  BY NowIs
<1>2. \A o \in Ingesters \ {c} : ingest'[o].pc = ingest[o].pc /\ Filling(ingest[o])'
  BY <1>1 DEF Filling
<1>3. ~shared' => /\ Sound(raw', events') /\ NoneLater(events)'
                  /\ Range(events) \subseteq Range(events') /\ Latest(ingest[c])'
                  /\ \A o \in Ingesters \ {c} : ingest[o].pc = "idle"
  <2> SUFFICES ASSUME ~shared
               PROVE  /\ Sound(raw', events') /\ NoneLater(events)'
                      /\ Range(events) \subseteq Range(events') /\ Latest(ingest[c])'
                      /\ \A o \in Ingesters \ {c} : ingest[o].pc = "idle"
    OBVIOUS
  <2>1. events' = events /\ raw' = raw /\ ingests' = ingests
    OBVIOUS
  <2>2. Sound(raw, events) /\ NoneLater(events)
    BY <1>1
  <2>3. NoneLater(events)'
    BY <2>1, <2>2 DEF NoneLater
  <2> QED
    BY <1>1, <2>1, <2>2, <2>3
<1> QED
  BY <1>1, <1>2, <1>3, StepKeeps

\* The temporary file is opened, and emptied.
LEMMA OpenTemporaryKeeps ==
    ASSUME NewsInvariant, NEW c \in Ingesters, OpenTemporary(c)
    PROVE  NewsInvariant' /\ Stays
<1>1. /\ NewsTypeOK /\ events \in Seq(EventLine)
      /\ ingest \in [Ingesters -> IngestCall] /\ ingest[c] \in IngestCall /\ ingest[c].combined \in Seq(EventRow)
      /\ ~shared => Latest(ingest[c])
  BY NowIs
<1>2. /\ ingest[c].pc = "open" /\ temporary' = <<<<>>>>
      /\ ingest' = [ingest EXCEPT ![c].pc = "fill", ![c].written = 0, ![c].handle = "temporary"]
      /\ UNCHANGED <<raw, events, ingests, shared>>
  BY DEF OpenTemporary
<1>3. PICK call \in IngestCall : call = ingest[c]
  BY <1>1
<1>4. PICK after : after = [call EXCEPT !.pc = "fill", !.written = 0, !.handle = "temporary"]
  OBVIOUS
<1>5. /\ after \in IngestCall /\ after.pc = "fill" /\ after.written = 0 /\ after.handle = "temporary"
      /\ after.combined = ingest[c].combined /\ after.at = ingest[c].at
  BY <1>3, <1>4 DEF IngestCall, Step
<1>6. ingest' = [ingest EXCEPT ![c] = after]
  BY <1>1, <1>2, <1>3, <1>4
<1>7. /\ ingest' \in [Ingesters -> IngestCall] /\ ingest'[c] = after
      /\ \A o \in Ingesters \ {c} : ingest'[o] = ingest[o]
  BY <1>1, <1>5, <1>6, CallIs
<1>8. Len(after.combined) \in Nat /\ temporary' # <<>> /\ temporary' \in Seq(Seq(EventLine))
  BY <1>1, <1>2, <1>5, LenProperties, EmptyIsSound
<1>9. Filling(ingest[c])'
  BY <1>5, <1>7, <1>8 DEF Filling
<1>10. ASSUME ~shared
       PROVE  Latest(ingest[c])'
  <2>1. /\ ingest[c].at = ingests /\ Sound(raw, after.combined) /\ NoneLater(after.combined)
        /\ Range(events) \subseteq Range(after.combined)
    BY <1>1, <1>2, <1>5, <1>10 DEF Latest
  <2>2. Sofar(after) = <<>>
    BY <1>1, <1>5, <1>8, SofarIs DEF Sofar
  <2>3. after.written = Len(after.combined) => after.combined = <<>>
    BY <1>1, <1>5, EmptySeq
  <2>4. /\ temporary' \in {<<Sofar(after)>>, <<Append(Sofar(after), Torn)>>}
        /\ after.written = Len(after.combined) => temporary' = <<after.combined>>
    BY <1>2, <2>2, <2>3
  <2> QED
    BY <1>2, <1>5, <1>7, <2>1, <2>4 DEF Latest, NoneLater
<1> QED
  BY <1>1, <1>2, <1>7, <1>8, <1>9, <1>10, FilesKeep

\* The next line, or a part of it, is written: alone, behind the lines the call has written.
LEMMA FillTemporaryKeeps ==
    ASSUME NewsInvariant, NEW c \in Ingesters, FillTemporary(c)
    PROVE  NewsInvariant' /\ Stays
<1>1. /\ NewsTypeOK /\ events \in Seq(EventLine) /\ temporary \in Seq(Seq(EventLine))
      /\ ingest \in [Ingesters -> IngestCall] /\ ingest[c] \in IngestCall
      /\ \A o \in Ingesters : Filling(ingest[o])
      /\ ~shared => Latest(ingest[c])
  BY NowIs
<1>2. PICK call \in IngestCall : call = ingest[c]
  BY <1>1
<1>3. /\ call.pc = "fill" /\ call.written < Len(call.combined)
      /\ UNCHANGED <<raw, ingests, shared>>
  BY <1>2 DEF FillTemporary
<1>4. PICK line \in {call.combined[call.written + 1], Torn} :
        /\ ingest' = [ingest EXCEPT ![c].written = IF line = Torn THEN @ ELSE @ + 1]
        /\ \/ call.handle = "temporary" /\ UNCHANGED events
              /\ \E new \in Written(call, temporary[1], line) : temporary' = <<new>>
           \/ call.handle = "events" /\ UNCHANGED temporary
              /\ events' \in Written(call, events, line)
           \/ call.handle = "gone" /\ UNCHANGED <<events, temporary>>
  BY <1>2 DEF FillTemporary
<1>5. /\ call.combined \in Seq(EventRow) /\ call.written \in Nat /\ Len(call.combined) \in Nat
      /\ call.written <= Len(call.combined)
  BY <1>3, LenProperties DEF IngestCall
<1>6. /\ call.combined[call.written + 1] \in EventRow
      /\ Append(Sofar(call), call.combined[call.written + 1]) = SubSeq(call.combined, 1, call.written + 1)
  BY <1>3, <1>5, SofarIs DEF Sofar
<1>7. line \in EventLine
  BY <1>6, TornIs
<1>8. PICK n \in Nat : n = IF line = Torn THEN call.written ELSE call.written + 1
  BY <1>5
<1>9. n <= Len(call.combined)
  BY <1>3, <1>5, <1>8
<1>10. PICK after : after = [call EXCEPT !.written = n]
  OBVIOUS
<1>11. /\ after \in IngestCall /\ after.pc = "fill" /\ after.written = n /\ after.handle = call.handle
       /\ after.combined = call.combined /\ after.at = call.at
  BY <1>3, <1>10 DEF IngestCall
<1>12. ingest' = [ingest EXCEPT ![c] = after]
  <2>1. ingest' = [ingest EXCEPT ![c] = [ingest[c] EXCEPT !.written = IF line = Torn THEN @ ELSE @ + 1]]
    BY <1>1, <1>4
  <2>2. after = [call EXCEPT !.written = IF line = Torn THEN @ ELSE @ + 1]
    BY <1>8, <1>10
  <2> QED
    BY <1>2, <2>1, <2>2
<1>13. /\ ingest' \in [Ingesters -> IngestCall] /\ ingest'[c] = after
       /\ \A o \in Ingesters \ {c} : ingest'[o] = ingest[o]
  BY <1>1, <1>11, <1>12, CallIs
<1>14. call.handle = "temporary" => temporary # <<>>
  BY <1>1, <1>2, <1>3 DEF Filling
<1>15. /\ events' \in Seq(EventLine) /\ temporary' \in Seq(Seq(EventLine))
       /\ temporary' # <<>> \/ temporary = <<>>
  <2>1. CASE call.handle = "temporary"
    <3>1. temporary[1] \in Seq(EventLine)
      BY <1>1, <1>14, <2>1
    <3>2. Written(call, temporary[1], line) \subseteq Seq(EventLine)
      BY <1>3, <1>5, <1>7, <3>1, WrittenIs
    <3>3. PICK new \in Written(call, temporary[1], line) : temporary' = <<new>> /\ events' = events
      BY <1>4, <2>1
    <3>4. new \in Seq(EventLine)
      BY <3>2, <3>3
    <3> QED
      BY <1>1, <3>3, <3>4
  <2>2. CASE call.handle = "events"
    <3>1. Written(call, events, line) \subseteq Seq(EventLine)
      BY <1>1, <1>3, <1>5, <1>7, WrittenIs
    <3> QED
      BY <1>1, <1>4, <2>2, <3>1
  <2>3. CASE call.handle = "gone"
    BY <1>1, <1>4, <2>3
  <2> QED
    BY <2>1, <2>2, <2>3 DEF IngestCall
<1>16. Filling(ingest[c])'
  <2>1. after.handle = "temporary" => temporary' # <<>>
    BY <1>11, <1>14, <1>15
  <2> QED
    BY <1>9, <1>11, <1>13, <2>1 DEF Filling
<1>17. ASSUME ~shared
       PROVE  UNCHANGED events /\ Latest(ingest[c])'
  <2>1. /\ call.at = ingests /\ Sound(raw, call.combined) /\ NoneLater(call.combined)
        /\ Range(events) \subseteq Range(call.combined)
        /\ call.handle = "temporary"
        /\ temporary \in {<<Sofar(call)>>, <<Append(Sofar(call), Torn)>>}
    BY <1>1, <1>2, <1>3, <1>17 DEF Latest
  <2>2. temporary[1] \in {Sofar(call), Append(Sofar(call), Torn)}
    BY <2>1
  <2>3. Written(call, temporary[1], line) = {Append(Sofar(call), line)}
    <3>1. temporary[1] \in Seq(EventLine)
      BY <1>1, <1>14, <2>1
    <3> QED
      BY <1>3, <1>5, <1>7, <2>2, <3>1, WrittenIs
  <2>4. events' = events /\ temporary' = <<Append(Sofar(call), line)>>
    BY <1>4, <2>1, <2>3
  <2>5. /\ temporary' \in {<<Sofar(after)>>, <<Append(Sofar(after), Torn)>>}
        /\ after.written = Len(after.combined) => temporary' = <<after.combined>>
    <3>1. CASE line = Torn
      <4>1. n = call.written /\ Sofar(after) = Sofar(call) /\ after.written # Len(after.combined)
        BY <1>3, <1>5, <1>8, <1>11, <3>1 DEF Sofar
      <4> QED
        BY <2>4, <3>1, <4>1
    <3>2. CASE line # Torn
      <4>1. n = call.written + 1 /\ line = call.combined[call.written + 1]
        BY <1>4, <1>8, <3>2
      <4>2. Sofar(after) = SubSeq(call.combined, 1, n)
        BY <1>11 DEF Sofar
      <4>3. temporary' = <<Sofar(after)>>
        BY <1>6, <2>4, <4>1, <4>2
      <4>4. n = Len(call.combined) => Sofar(after) = call.combined
        BY <1>5, <1>9, <4>2, SofarIs
      <4> QED
        BY <1>11, <4>3, <4>4
    <3> QED
      BY <3>1, <3>2
  <2>6. Sound(raw', after.combined) /\ Range(events') \subseteq Range(after.combined) /\ after.at = ingests'
    BY <1>3, <1>11, <2>1, <2>4
  <2>7. \A e \in Range(after.combined) : e.received <= ingests'
    BY <1>3, <1>11, <2>1 DEF NoneLater
  <2>8. after.handle = "temporary" /\ after.pc = "fill"
    BY <1>11, <2>1
  <2> QED
    BY <1>13, <2>4, <2>5, <2>6, <2>7, <2>8 DEF Latest, NoneLater
<1> QED
  BY <1>2, <1>3, <1>13, <1>15, <1>16, <1>17, FilesKeep

\* All lines are written.
LEMMA CloseTemporaryKeeps ==
    ASSUME NewsInvariant, NEW c \in Ingesters, CloseTemporary(c)
    PROVE  NewsInvariant' /\ Stays
<1>1. /\ NewsTypeOK /\ raw \subseteq Response /\ ingests \in Nat /\ shared \in BOOLEAN
      /\ ~shared => Latest(ingest[c])
      /\ ~shared /\ ingest[c].pc # "idle" => \A o \in Ingesters \ {c} : ingest[o].pc = "idle"
  BY NowIs
<1>2. /\ ingest[c].pc = "fill" /\ ingest[c].written = Len(ingest[c].combined) /\ Reach(c, "replace")
      /\ UNCHANGED <<raw, events, temporary, ingests, shared>>
  BY DEF CloseTemporary
<1>3. /\ ingest' \in [Ingesters -> IngestCall] /\ \A o \in Ingesters \ {c} : ingest'[o] = ingest[o]
      /\ ingest'[c].pc = "replace" /\ ingest'[c].at = ingest[c].at
      /\ ingest'[c].combined = ingest[c].combined
  BY <1>1, <1>2, ReachIs DEF Step
<1>4. Filling(ingest[c])'
  BY <1>3 DEF Filling
<1>5. ASSUME ~shared
      PROVE  Latest(ingest[c])'
  <2>1. /\ ingest[c].at = ingests /\ Sound(raw, ingest[c].combined) /\ NoneLater(ingest[c].combined)
        /\ Range(events) \subseteq Range(ingest[c].combined) /\ temporary = <<ingest[c].combined>>
    BY <1>1, <1>2, <1>5 DEF Latest
  <2>2. NoneLater(ingest[c].combined)'
    BY <1>2, <1>3, <2>1 DEF NoneLater
  <2> QED
    BY <1>2, <1>3, <2>1, <2>2 DEF Latest
<1> QED
  BY <1>1, <1>2, <1>3, <1>4, <1>5, QuietKeeps

\* The temporary file becomes the file: alone, a call replaces it by what holds all of it.
LEMMA ReplaceEventsKeeps ==
    ASSUME NewsInvariant, NEW c \in Ingesters, ReplaceEvents(c)
    PROVE  NewsInvariant' /\ Stays
<1>1. /\ NewsTypeOK /\ raw \subseteq Response /\ events \in Seq(EventLine) /\ temporary \in Seq(Seq(EventLine))
      /\ ingests \in Nat /\ shared \in BOOLEAN /\ ingest \in [Ingesters -> IngestCall]
      /\ \A o \in Ingesters : Filling(ingest[o])
      /\ ~shared => NoneLater(events) /\ Latest(ingest[c])
      /\ ~shared /\ ingest[c].pc # "idle" => \A o \in Ingesters \ {c} : ingest[o].pc = "idle"
  BY NowIs
<1>2. ingest[c].pc = "replace" /\ UNCHANGED <<raw, ingests, shared>>
  BY DEF ReplaceEvents
<1>3. CASE Reach(c, "idle") /\ UNCHANGED <<events, temporary>>
  <2>1. /\ ingest' \in [Ingesters -> IngestCall] /\ \A o \in Ingesters \ {c} : ingest'[o] = ingest[o]
        /\ ingest'[c].pc = "idle"
    BY <1>1, <1>3, ReachIs DEF Step
  <2>2. Filling(ingest[c])' /\ Latest(ingest[c])'
    BY <2>1 DEF Filling, Latest
  <2> QED
    BY <1>1, <1>2, <1>3, <2>1, <2>2, QuietKeeps
<1>4. CASE temporary # <<>> /\ ingest' = Renamed(c) /\ events' = temporary[1] /\ temporary' = <<>>
  <2>1. ASSUME NEW o \in Ingesters
        PROVE  /\ ingest'[o] \in IngestCall /\ ingest'[o].written = ingest[o].written
               /\ ingest'[o].combined = ingest[o].combined /\ ingest'[o].at = ingest[o].at
               /\ o = c => ingest'[o].pc = "health"
               /\ o # c => ingest'[o].pc = ingest[o].pc /\ ingest'[o].handle # "temporary"
    <3>1. PICK call \in IngestCall : call = ingest[o]
      BY <1>1
    <3>2. CASE o = c
      <4>1. ingest'[o] = [call EXCEPT !.pc = "health"]
        BY <1>4, <3>1, <3>2 DEF Renamed
      <4> QED
        BY <3>1, <3>2, <4>1 DEF IngestCall, Step
    <3>3. CASE o # c
      <4>1. PICK handle \in {"events", "gone"} : handle = IF call.handle = "temporary" THEN "events" ELSE "gone"
        OBVIOUS
      <4>2. ingest'[o] = [call EXCEPT !.handle = handle]
        BY <1>4, <3>1, <3>3, <4>1 DEF Renamed
      <4> QED
        BY <3>1, <3>3, <4>1, <4>2 DEF IngestCall
    <3> QED
      BY <3>2, <3>3
  <2>2. ingest' \in [Ingesters -> IngestCall]
    <3>1. ingest' = [o \in Ingesters |-> ingest'[o]]
      BY <1>4 DEF Renamed
    <3> QED
      BY <2>1, <3>1
  <2>3. /\ events' \in Seq(EventLine) /\ temporary' \in Seq(Seq(EventLine))
    <3>1. temporary[1] \in Seq(EventLine)
      BY <1>1, <1>4
    <3> QED
      BY <1>4, <3>1, EmptyIsSound
  <2>4. Filling(ingest[c])' /\ \A o \in Ingesters \ {c} : ingest'[o].pc = ingest[o].pc /\ Filling(ingest[o])'
    BY <1>1, <2>1 DEF Filling
  <2>5. ASSUME ~shared
        PROVE  /\ Sound(raw', events') /\ NoneLater(events)' /\ Latest(ingest[c])'
               /\ Range(events) \subseteq Range(events')
    <3>1. /\ ingest[c].at = ingests /\ Sound(raw, ingest[c].combined) /\ NoneLater(ingest[c].combined)
          /\ Range(events) \subseteq Range(ingest[c].combined) /\ temporary = <<ingest[c].combined>>
      BY <1>1, <1>2, <2>5 DEF Latest
    <3>2. events' = ingest[c].combined
      BY <1>4, <3>1
    <3>3. NoneLater(events)'
      BY <1>2, <3>1, <3>2 DEF NoneLater
    <3>4. Latest(ingest[c])'
      BY <1>2, <2>1, <3>1 DEF Latest
    <3> QED
      BY <1>2, <3>1, <3>2, <3>3, <3>4
  <2> QED
    BY <1>1, <1>2, <2>2, <2>3, <2>4, <2>5, StepKeeps
<1> QED
  BY <1>3, <1>4 DEF ReplaceEvents

\* A call ends or dies: it leaves the files as they are.
LEMMA EndKeeps ==
    ASSUME NewsInvariant, NEW c \in Ingesters, ingest[c].pc # "idle", Reach(c, "idle"),
           UNCHANGED <<raw, events, temporary, ingests, shared>>
    PROVE  NewsInvariant' /\ Stays
<1>1. /\ NewsTypeOK /\ raw \subseteq Response /\ ingests \in Nat /\ shared \in BOOLEAN
      /\ ~shared /\ ingest[c].pc # "idle" => \A o \in Ingesters \ {c} : ingest[o].pc = "idle"
  BY NowIs
<1>2. /\ ingest' \in [Ingesters -> IngestCall] /\ \A o \in Ingesters \ {c} : ingest'[o] = ingest[o]
      /\ ingest'[c].pc = "idle"
  BY <1>1, ReachIs DEF Step
<1>3. Filling(ingest[c])' /\ Latest(ingest[c])'
  BY <1>2 DEF Filling, Latest
<1> QED
  BY <1>1, <1>2, <1>3, QuietKeeps

-----------------------------------------------------------------------------
(* The theorems.                                                           *)

\* The archive starts empty, with nothing under way.
LEMMA InitHolds ==
    ASSUME NewsInit
    PROVE  NewsInvariant
<1>1. /\ raw = {} /\ events = <<>> /\ temporary = <<>>
      /\ ingest = [c \in Ingesters |-> Idle] /\ ingests = 0 /\ shared = FALSE
  BY DEF NewsInit
<1>2. /\ <<>> \in Seq(EventRow) /\ <<>> \in Seq(EventLine) /\ <<>> \in Seq(Article)
      /\ <<>> \in Seq(Seq(EventLine)) /\ Sound(raw, <<>>) /\ Range(<<>>) = {}
  <2>1. DOMAIN <<>> = {} /\ <<>> \in Seq(Article)
    BY EmptySeq
  <2> QED
    BY <2>1, EmptyIsSound DEF Range
<1>3. Idle \in IngestCall /\ Idle.pc = "idle"
  BY <1>2 DEF Idle, IngestCall, Step
<1>4. ingest \in [Ingesters -> IngestCall] /\ \A c \in Ingesters : ingest[c].pc = "idle"
  BY <1>1, <1>3
<1>5. NewsTypeOK
  BY <1>1, <1>2, <1>4 DEF NewsTypeOK
<1>6. \A c \in Ingesters : Filling(ingest[c])
  BY <1>4 DEF Filling
<1>7. Alone
  BY <1>1, <1>2, <1>4 DEF Alone, NoneLater, Latest
<1> QED
  BY <1>5, <1>6, <1>7 DEF NewsInvariant

\* Every step keeps the invariant and, as long as one ingestion runs at a time, every event.
LEMMA NextKeeps ==
    ASSUME NewsConfig, NewsInvariant, [NewsNext]_newsVars
    PROVE  NewsInvariant' /\ Stays
<1>1. CASE UNCHANGED newsVars
  <2>1. UNCHANGED <<raw, events, temporary, ingest, ingests, shared>>
    BY <1>1 DEF newsVars
  <2>2. NewsTypeOK'
    BY <2>1 DEF NewsInvariant, NewsTypeOK
  <2>3. \A c \in Ingesters : Filling(ingest[c])'
    BY <2>1 DEF NewsInvariant, Filling
  <2>4. Alone'
    BY <2>1 DEF NewsInvariant, Alone, NoneLater, Latest, Sofar
  <2> QED
    BY <2>1, <2>2, <2>3, <2>4 DEF NewsInvariant, Stays
<1>2. CASE NewsNext
  <2>1. PICK c \in Ingesters : Ingest(c)
    BY <1>2 DEF NewsNext
  <2>2. CASE Fetch(c)
    BY <2>2, FetchKeeps
  <2>3. CASE ArchiveFile(c)
    BY <2>3, ArchiveFileKeeps
  <2>4. CASE ArchiveManifest(c)
    BY <2>4, ArchiveManifestKeeps
  <2>5. CASE ReadEvents(c)
    BY <2>5, ReadEventsKeeps
  <2>6. CASE OpenTemporary(c)
    BY <2>6, OpenTemporaryKeeps
  <2>7. CASE FillTemporary(c)
    BY <2>7, FillTemporaryKeeps
  <2>8. CASE ReplaceEvents(c)
    BY <2>8, ReplaceEventsKeeps
  <2>11. CASE CloseTemporary(c)
    BY <2>11, CloseTemporaryKeeps
  <2>9. CASE Healthy(c)
    <3>1. ingest[c].pc # "idle" /\ Reach(c, "idle") /\ UNCHANGED <<raw, events, temporary, ingests, shared>>
      BY <2>9 DEF Healthy
    <3> QED
      BY <3>1, EndKeeps
  <2>10. CASE DieIngesting(c)
    <3>1. ingest[c].pc # "idle" /\ Reach(c, "idle") /\ UNCHANGED <<raw, events, temporary, ingests, shared>>
      BY <2>10 DEF DieIngesting
    <3> QED
      BY <3>1, EndKeeps
  <2> QED
    BY <2>1, <2>2, <2>3, <2>4, <2>5, <2>6, <2>7, <2>8, <2>9, <2>10, <2>11 DEF Ingest
<1> QED
  BY <1>1, <1>2

\* As long as no two ingestions run at the same time, whatever the responses hold and
\* whoever dies, in whatever line: events.jsonl holds whole events only, each once and from
\* an archived response, and what is under way holds all that the file holds.
THEOREM NewsAlways ==
    ASSUME NewsConfig
    PROVE  NewsSpec => []NewsInvariant
<1>1. NewsInit => NewsInvariant
  BY InitHolds
<1>2. NewsInvariant /\ [NewsNext]_newsVars => NewsInvariant'
  BY NextKeeps
<1> QED
  BY <1>1, <1>2, PTL DEF NewsSpec

\* What the quality report counts of a sound file: as many keys as lines, no eligible event.
LEMMA Reported ==
    ASSUME NewsInvariant, ~shared
    PROVE  /\ QualityReport.unique = QualityReport.count /\ QualityReport.eligible = 0
           /\ \A e \in Range(events) : FromArchive(raw, e)
<1> DEFINE N == Len(events)
           keys == {e.key : e \in Range(events)}
           able == {e \in Range(events) : e.eligible}
<1>1. events \in Seq(EventRow) /\ Sound(raw, events)
  BY DEF NewsInvariant, Alone, Sound
<1>2. /\ N \in Nat /\ DOMAIN events = 1 .. N /\ \A i \in 1 .. N : events[i] \in EventRow
      /\ \A x : x \in Range(events) <=> \E i \in 1 .. N : x = events[i]
  BY <1>1, RangeIs
<1>3. OnceEach(events) /\ \A e \in Range(events) : FromArchive(raw, e)
  BY <1>1 DEF Sound
<1>4. Cardinality(keys) = N
  <2> DEFINE f == [i \in 1 .. N |-> events[i].key]
  <2>1. f \in [1 .. N -> keys]
    BY <1>2
  <2>2. \A i, j \in 1 .. N : f[i] = f[j] => i = j
    BY <1>2, <1>3 DEF OnceEach
  <2>3. \A k \in keys : \E i \in 1 .. N : f[i] = k
    BY <1>2
  <2> HIDE DEF f, keys
  <2>4. f \in Bijection(1 .. N, keys)
    BY <2>1, <2>2, <2>3 DEF Bijection, Injection, Surjection, IsInjective
  <2>5. IsFiniteSet(1 .. N) /\ Cardinality(1 .. N) = N
    BY <1>2, FS_Interval, SMTT(30)
  <2>6. Cardinality(1 .. N) = Cardinality(keys)
    BY <2>4, <2>5, FS_Bijection, SMTT(30) DEF ExistsBijection
  <2> QED
    BY <2>5, <2>6
<1>5. able = {}
  <2>1. \A e \in Range(events) : e \in EventRow
    BY <1>2
  <2>2. \A e \in EventRow : e.eligible = FALSE
    BY DEF EventRow
  <2> QED
    BY <2>1, <2>2, Zenon
<1>6. Cardinality(able) = 0
  BY <1>5, FS_EmptySet
<1>7. QualityReport.unique = Cardinality(keys) /\ QualityReport.count = N
      /\ QualityReport.eligible = Cardinality(able)
  BY DEF QualityReport
<1> QED
  BY <1>3, <1>4, <1>6, <1>7

\* FirstSeenStays: as long as no two ingestions run at the same time, an event stays in
\* the file with the time it was first received at, once, and from an archived response.
THEOREM FirstSeenStaysAlways ==
    ASSUME NewsConfig
    PROVE  NewsSpec => FirstSeenStays
<1> DEFINE Grows == ~shared' =>
             /\ \A e \in Range(events) : e \in Range(events')
             /\ QualityReport'.unique = QualityReport'.count /\ QualityReport'.eligible = 0
             /\ \A e \in Range(events') : \E r \in raw' :
                  r.manifest /\ e \in Range(Normalize(r.payload, r.at))
<1>1. NewsInvariant /\ ~shared =>
        /\ QualityReport.unique = QualityReport.count /\ QualityReport.eligible = 0
        /\ \A e \in Range(events) : FromArchive(raw, e)
  BY Reported
<1>2. NewsInvariant' /\ ~shared' =>
                        (/\ QualityReport.unique = QualityReport.count /\ QualityReport.eligible = 0
                         /\ \A e \in Range(events) : FromArchive(raw, e))'
  BY <1>1, PTL
<1>3. NewsInvariant /\ NewsInvariant' /\ [NewsNext]_newsVars => [Grows]_newsVars
  <2> SUFFICES ASSUME NewsInvariant, NewsInvariant', [NewsNext]_newsVars, ~shared'
               PROVE  /\ \A e \in Range(events) : e \in Range(events')
                      /\ QualityReport'.unique = QualityReport'.count /\ QualityReport'.eligible = 0
                      /\ \A e \in Range(events') : \E r \in raw' :
                           r.manifest /\ e \in Range(Normalize(r.payload, r.at))
    OBVIOUS
  <2>1. \A e \in Range(events) : e \in Range(events')
    BY NextKeeps DEF Stays
  <2> QED
    BY <1>2, <2>1 DEF FromArchive
<1>4. NewsSpec => []NewsInvariant
  BY NewsAlways
<1> QED
  BY <1>3, <1>4, PTL DEF NewsSpec, FirstSeenStays

-----------------------------------------------------------------------------
(* The backtest.                                                           *)

\* A sequence that is not empty has a first and a last member.
LEMMA EndsAre ==
    ASSUME NEW S, NEW s \in Seq(S), s # <<>>
    PROVE  /\ Len(s) \in Nat \ {0} /\ 1 \in DOMAIN s /\ Len(s) \in DOMAIN s
           /\ Head(s) = s[1] /\ Last(s) = s[Len(s)] /\ Head(s) \in S /\ Last(s) \in S
<1>1. Len(s) \in Nat \ {0} /\ DOMAIN s = 1 .. Len(s)
  BY EmptySeq, LenProperties
<1>2. s[1] \in S /\ s[Len(s)] \in S
  BY <1>1, ElementOfSeq
<1>3. Head(s) = s[1] /\ Last(s) = s[Len(s)]
  BY DEF Last
<1> QED
  BY <1>1, <1>2, <1>3

\* One member more.
LEMMA AppendIs ==
    ASSUME NEW S, NEW s \in Seq(S), NEW x \in S, NEW more, more = Append(s, x)
    PROVE  /\ more \in Seq(S) /\ more # <<>> /\ Len(s) \in Nat /\ DOMAIN s = 1 .. Len(s)
           /\ Len(more) = Len(s) + 1 /\ DOMAIN more = 1 .. Len(s) + 1
           /\ \A i \in 1 .. Len(s) : more[i] = s[i]
           /\ more[Len(s) + 1] = x /\ Last(more) = x
<1>1. /\ more \in Seq(S) /\ more # <<>> /\ Len(more) = Len(s) + 1
      /\ \A i \in 1 .. Len(s) : more[i] = s[i]
      /\ more[Len(s) + 1] = x
  BY AppendProperties
<1>2. Len(s) \in Nat /\ DOMAIN s = 1 .. Len(s) /\ DOMAIN more = 1 .. Len(more)
  BY <1>1, LenProperties
<1>3. Last(more) = x
  BY <1>1 DEF Last
<1> QED
  BY <1>1, <1>2, <1>3

\* The prices of a close, and that a stop loses: what it gives up, slippage and commissions.
LEMMA StopLoses ==
    ASSUME BacktestConfig, NEW held \in SimulatedPosition, NEW tick \in MarketTick, NEW number, NEW reason
    PROVE  /\ CloseAt(held, tick, number, reason).net \in Int
           /\ held.side * (held.stop - held.entry) < 0 /\ StopHit(held, tick)
                => CloseAt(held, tick, number, reason).net < 0
<1> DEFINE exit == Executable(held.side, tick) - held.side * Slip
           gross == held.side * (exit - held.entry)
           net == gross * Quantity - 2 * Commission * Quantity
<1>1. /\ Slip \in Nat /\ Commission \in Nat /\ Quantity \in Nat /\ Quantity > 0
      /\ held.side \in {-1, 1} /\ held.stop \in Int /\ held.entry \in Int
  BY DEF BacktestConfig, SimulatedPosition
<1>2. Executable(held.side, tick) \in Int
  BY DEF Executable, MarketTick
<1>3. gross \in Int
  BY <1>1, <1>2
<1>4. CloseAt(held, tick, number, reason).net = net
  BY DEF CloseAt
<1>5. ASSUME NEW a \in Int, NEW q \in Nat, q > 0
      PROVE  a * q \in Int /\ (a < 0 => a * q < 0)
  BY <1>5
<1>6. ASSUME NEW a \in Nat, NEW q \in Nat
      PROVE  2 * a * q \in Nat
  BY <1>6
<1>7. ASSUME held.side * (held.stop - held.entry) < 0, StopHit(held, tick)
      PROVE  gross < 0
  <2>1. held.side * (Executable(held.side, tick) - held.stop) <= 0
    BY <1>7 DEF StopHit
  <2>2. CASE held.side = 1
    BY <1>1, <1>2, <1>7, <2>1, <2>2
  <2>3. CASE held.side = -1
    BY <1>1, <1>2, <1>7, <2>1, <2>3
  <2> QED
    BY <1>1, <2>2, <2>3
<1> HIDE DEF gross
<1>8. gross * Quantity \in Int /\ 2 * Commission * Quantity \in Nat /\ (gross < 0 => gross * Quantity < 0)
  BY <1>1, <1>3, <1>5, <1>6
<1>9. net \in Int /\ (gross < 0 => net < 0)
  BY <1>8
<1> QED
  BY <1>4, <1>7, <1>9

\* A trade is the position it was, and where it ended.
LEMMA CloseIs ==
    ASSUME BacktestConfig, NEW held \in SimulatedPosition, NEW tick \in MarketTick, NEW number \in Nat \ {0},
           NEW reason \in {"stop", "take_profit", "end_of_data"}, NEW t, t = CloseAt(held, tick, number, reason)
    PROVE  /\ t \in SimulatedTrade
           /\ t.opened = held.opened /\ t.closed = number /\ t.reason = reason /\ t.signal = held.signal
           /\ t.side = held.side /\ t.stop = held.stop /\ t.target = held.target
           /\ t.net = CloseAt(held, tick, number, reason).net
           /\ \A q : (StopHit(t, q) <=> StopHit(held, q)) /\ (TargetHit(t, q) <=> TargetHit(held, q))
<1>1. /\ t.opened = held.opened /\ t.closed = number /\ t.reason = reason /\ t.signal = held.signal
      /\ t.side = held.side /\ t.stop = held.stop /\ t.target = held.target
  BY DEF CloseAt
<1>2. \A q : (StopHit(t, q) <=> StopHit(held, q)) /\ (TargetHit(t, q) <=> TargetHit(held, q))
  BY <1>1 DEF StopHit, TargetHit
<1>3. t.net \in Int
  BY StopLoses
<1>4. PICK net : net = t.net
  OBVIOUS
<1>5. t = [signal |-> held.signal, opened |-> held.opened, closed |-> number, side |-> held.side,
           stop |-> held.stop, target |-> held.target, reason |-> reason, net |-> net]
  BY <1>4 DEF CloseAt
<1>6. t \in SimulatedTrade
  BY <1>3, <1>4, <1>5 DEF SimulatedTrade, SimulatedPosition
<1> QED
  BY <1>1, <1>2, <1>6

\* A position that came to its end becomes a trade that is right.
LEMMA ClosedRight ==
    ASSUME BacktestConfig, NEW list \in Seq(MarketTick), NEW held \in SimulatedPosition,
           NEW number \in DOMAIN list, NEW reason \in {"stop", "take_profit", "end_of_data"},
           NEW t, t = CloseAt(held, list[number], number, reason),
           Began(list, held), Untouched(list, held, number - 1), held.opened <= number,
           held.side * (held.stop - held.entry) < 0,
           reason # "end_of_data" => held.opened < number,
           reason = "stop" => StopHit(held, list[number]),
           reason = "take_profit" => TargetHit(held, list[number]) /\ ~StopHit(held, list[number])
    PROVE  t \in SimulatedTrade /\ t.opened = held.opened /\ t.closed = number /\ TradeRight(list, t)
<1>1. number \in Nat \ {0} /\ list[number] \in MarketTick
  BY RangeIs
<1>2. /\ t \in SimulatedTrade
      /\ t.opened = held.opened /\ t.closed = number /\ t.reason = reason /\ t.signal = held.signal
      /\ t.net = CloseAt(held, list[number], number, reason).net
      /\ \A q : (StopHit(t, q) <=> StopHit(held, q)) /\ (TargetHit(t, q) <=> TargetHit(held, q))
  BY <1>1, CloseIs
<1>3. reason = "stop" => t.net < 0
  BY <1>1, <1>2, StopLoses
<1>4. Began(list, t)
  BY <1>2 DEF Began
<1>5. Untouched(list, t, t.closed - 1)
  BY <1>2 DEF Untouched
<1>6. /\ t.opened <= t.closed /\ (t.reason # "end_of_data" => t.opened < t.closed)
      /\ (t.reason = "take_profit" => TargetHit(t, list[t.closed]) /\ ~StopHit(t, list[t.closed]))
  BY <1>2
<1> QED
  BY <1>2, <1>3, <1>4, <1>5, <1>6 DEF TradeRight

\* One trade more is right if it is and begins after the others.
LEMMA MoreTrades ==
    ASSUME NEW list, NEW done \in Seq(SimulatedTrade), TradesRight(list, done),
           NEW t \in SimulatedTrade, TradeRight(list, t), done # <<>> => Last(done).closed <= t.opened
    PROVE  TradesRight(list, Append(done, t))
<1>1. PICK more : more = Append(done, t)
  OBVIOUS
<1>2. /\ Len(done) \in Nat /\ DOMAIN done = 1 .. Len(done) /\ DOMAIN more = 1 .. Len(done) + 1
      /\ \A i \in 1 .. Len(done) : more[i] = done[i]
      /\ more[Len(done) + 1] = t
  BY <1>1, AppendIs
<1>3. \A n \in DOMAIN more : TradeRight(list, more[n])
  <2> SUFFICES ASSUME NEW n \in DOMAIN more
               PROVE  TradeRight(list, more[n])
    OBVIOUS
  <2>1. CASE n \in 1 .. Len(done)
    BY <1>2, <2>1 DEF TradesRight
  <2>2. CASE n = Len(done) + 1
    BY <1>2, <2>2
  <2> QED
    BY <1>2, <2>1, <2>2
<1>4. \A n \in DOMAIN more : n > 1 => more[n - 1].closed <= more[n].opened
  <2> SUFFICES ASSUME NEW n \in DOMAIN more, n > 1
               PROVE  more[n - 1].closed <= more[n].opened
    OBVIOUS
  <2>1. CASE n \in 1 .. Len(done)
    <3>1. n - 1 \in 1 .. Len(done)
      BY <1>2, <2>1
    <3> QED
      BY <1>2, <2>1, <3>1 DEF TradesRight
  <2>2. CASE n = Len(done) + 1
    <3>1. done # <<>> /\ n - 1 = Len(done) /\ n - 1 \in 1 .. Len(done)
      BY <1>2, <2>2, EmptySeq
    <3>2. more[n - 1] = done[Len(done)] /\ more[n] = t
      BY <1>2, <2>2, <3>1
    <3>3. Last(done) = done[Len(done)]
      BY DEF Last
    <3> QED
      BY <3>1, <3>2, <3>3
  <2> QED
    BY <1>2, <2>1, <2>2
<1> QED
  BY <1>1, <1>3, <1>4 DEF TradesRight

\* What was right stays right when a tick comes.
LEMMA MoreTicks ==
    ASSUME NEW list \in Seq(MarketTick), NEW tick \in MarketTick, NEW more, more = Append(list, tick)
    PROVE  /\ \A held \in SimulatedPosition :
                /\ Began(list, held) => Began(more, held)
                /\ Untouched(list, held, Len(list)) => Untouched(more, held, Len(list))
           /\ \A done \in Seq(SimulatedTrade) : TradesRight(list, done) => TradesRight(more, done)
<1>1. /\ Len(list) \in Nat /\ DOMAIN list = 1 .. Len(list) /\ DOMAIN more = 1 .. Len(list) + 1
      /\ \A i \in 1 .. Len(list) : more[i] = list[i]
  BY AppendIs
<1>2. ASSUME NEW t, t.opened \in Nat \ {0}, Began(list, t)
      PROVE  Began(more, t)
  <2>1. /\ t.opened \in 1 .. Len(list) /\ t.signal >= list[1].at /\ list[t.opened].at >= t.signal + Latency
        /\ \A k \in 1 .. (t.opened - 1) : list[k].at < t.signal + Latency
    BY <1>1, <1>2 DEF Began
  <2>2. 1 \in 1 .. Len(list) /\ \A k \in 1 .. (t.opened - 1) : k \in 1 .. Len(list)
    BY <1>1, <1>2, <2>1
  <2>3. t.opened \in DOMAIN more /\ more[1] = list[1] /\ more[t.opened] = list[t.opened]
    BY <1>1, <2>1, <2>2
  <2>4. \A k \in 1 .. (t.opened - 1) : more[k] = list[k]
    BY <1>1, <2>2
  <2> QED
    BY <2>1, <2>3, <2>4 DEF Began
<1>3. ASSUME NEW t, t.opened \in Nat \ {0}, NEW last \in Int, last <= Len(list), Untouched(list, t, last)
      PROVE  Untouched(more, t, last)
  <2>1. \A k \in (t.opened + 1) .. last : k \in 1 .. Len(list)
    BY <1>1, <1>3
  <2> QED
    BY <1>1, <1>3, <2>1 DEF Untouched
<1>4. ASSUME NEW t \in SimulatedTrade, TradeRight(list, t)
      PROVE  TradeRight(more, t)
  <2>1. t.opened \in Nat \ {0} /\ t.closed \in Nat \ {0}
    BY DEF SimulatedTrade
  <2>2. t.closed \in 1 .. Len(list) /\ t.closed - 1 \in Int /\ t.closed - 1 <= Len(list)
    BY <1>1, <1>4, <2>1 DEF TradeRight
  <2>3. Began(more, t) /\ Untouched(more, t, t.closed - 1)
    BY <1>2, <1>3, <1>4, <2>1, <2>2 DEF TradeRight
  <2>4. t.closed \in DOMAIN more /\ more[t.closed] = list[t.closed]
    BY <1>1, <2>2
  <2> QED
    BY <1>4, <2>3, <2>4 DEF TradeRight
<1>5. ASSUME NEW done \in Seq(SimulatedTrade), TradesRight(list, done)
      PROVE  TradesRight(more, done)
  <2>1. \A n \in DOMAIN done : done[n] \in SimulatedTrade
    BY RangeIs
  <2> QED
    BY <1>4, <1>5, <2>1 DEF TradesRight
<1>6. \A held \in SimulatedPosition : held.opened \in Nat \ {0}
  BY DEF SimulatedPosition
<1> QED
  BY <1>1, <1>2, <1>3, <1>5, <1>6

\* The intents in the order of their times: as many, and none before an earlier one.
LEMMA GeneratedIs ==
    ASSUME NEW list \in Seq(TradeIntent)
    PROVE  /\ Generated(list) \in Seq(TradeIntent) /\ Len(Generated(list)) = Len(list)
           /\ \A m, n \in DOMAIN Generated(list) : m <= n => Generated(list)[m].at <= Generated(list)[n].at
<1> DEFINE S == DOMAIN list
           R == {p \in (DOMAIN list) \X (DOMAIN list) :
                   list[p[1]].at < list[p[2]].at \/ (list[p[1]].at = list[p[2]].at /\ p[1] < p[2])}
           order == InOrder(S, R)
           out == [n \in DOMAIN order |-> list[order[n]]]
<1>1. Generated(list) = out
  BY DEF Generated
<1>2. Len(list) \in Nat /\ S = 1 .. Len(list) /\ \A i \in S : list[i] \in TradeIntent
  BY RangeIs
<1>3. IsFiniteSet(S) /\ Cardinality(S) = Len(list)
  BY <1>2, FS_Interval, SMTT(30)
<1>4. \A i \in S : list[i].at \in Int /\ i \in Nat
  BY <1>2 DEF TradeIntent
<1>5. \A x, y \in S : <<x, y>> \in R <=> (list[x].at < list[y].at \/ (list[x].at = list[y].at /\ x < y))
  OBVIOUS
<1> HIDE DEF S, R
<1>6. /\ \A x \in S : <<x, x>> \notin R
      /\ \A x, y, z \in S : <<x, y>> \in R /\ <<y, z>> \in R => <<x, z>> \in R
      /\ \A x, y \in S : x # y => <<x, y>> \in R \/ <<y, x>> \in R
  BY <1>4, <1>5, SMTT(30)
<1>7. /\ DOMAIN order = 1 .. Len(list) /\ \A n \in 1 .. Len(list) : order[n] \in S
      /\ \A m, n \in 1 .. Cardinality(S) : m < n => <<order[m], order[n]>> \in R
  BY <1>3, <1>6, InOrderIs
<1> HIDE DEF order
<1>8. DOMAIN out = 1 .. Len(list) /\ \A n \in 1 .. Len(list) : out[n] = list[order[n]] /\ out[n] \in TradeIntent
  BY <1>2, <1>7
<1>9. out = [n \in 1 .. Len(list) |-> out[n]]
  BY <1>7
<1>10. \A m, n \in 1 .. Len(list) : m <= n => out[m].at <= out[n].at
  <2> SUFFICES ASSUME NEW m \in 1 .. Len(list), NEW n \in 1 .. Len(list), m <= n
               PROVE  out[m].at <= out[n].at
    OBVIOUS
  <2>1. out[m] = list[order[m]] /\ out[n] = list[order[n]] /\ order[m] \in S /\ order[n] \in S
    BY <1>7, <1>8
  <2>2. CASE m = n
    BY <1>4, <2>1, <2>2
  <2>3. CASE m < n
    <3>1. <<order[m], order[n]>> \in R
      BY <1>3, <1>7, <2>3
    <3>2. PICK x \in S : x = order[m]
      BY <2>1
    <3>3. PICK y \in S : y = order[n]
      BY <2>1
    <3>4. <<x, y>> \in R
      BY <3>1, <3>2, <3>3
    <3>5. list[x].at < list[y].at \/ list[x].at = list[y].at
      BY <1>5, <3>4
    <3>6. list[x].at <= list[y].at
      BY <1>4, <3>5
    <3> QED
      BY <2>1, <3>2, <3>3, <3>6
  <2> QED
    BY <1>2, <2>2, <2>3
<1> HIDE DEF out
<1>11. out \in [1 .. Len(list) -> TradeIntent]
  BY <1>8, <1>9
<1>12. out \in Seq(TradeIntent) /\ Len(out) = Len(list)
  BY <1>2, <1>11, SeqDef, LenProperties
<1> QED
  BY <1>1, <1>8, <1>10, <1>12

\* A backtest begins with all its intents waiting.
LEMMA TestBegins ==
    ASSUME BacktestConfig, BacktestInit
    PROVE  TestInvariant
<1>1. /\ intents \in Intents /\ pending = Generated(intents)
      /\ ticks = <<>> /\ position = NoPosition /\ trades = <<>> /\ rejected = 0 /\ finished = FALSE
  BY DEF BacktestInit
<1>2. intents \in Seq(TradeIntent)
  BY <1>1 DEF BacktestConfig
<1>3. /\ pending \in Seq(TradeIntent) /\ Len(pending) = Len(intents) /\ Len(intents) \in Nat
      /\ \A m, n \in DOMAIN pending : m <= n => pending[m].at <= pending[n].at
  BY <1>1, <1>2, GeneratedIs, LenProperties
<1>4. <<>> \in Seq(MarketTick) /\ <<>> \in Seq(SimulatedTrade) /\ Len(<<>>) = 0 /\ DOMAIN <<>> = {}
  BY EmptySeq
<1>5. BacktestTypeOK
  BY <1>1, <1>2, <1>3, <1>4 DEF BacktestTypeOK
<1>6. Accounted
  BY <1>1, <1>3, <1>4 DEF Accounted
<1>7. InLine
  BY <1>1, <1>3, <1>4 DEF InLine
<1>8. HeldRight /\ TradesRight(ticks, trades)
  BY <1>1, <1>4 DEF HeldRight, TradesRight
<1> QED
  BY <1>5, <1>6, <1>7, <1>8 DEF TestInvariant

\* The facts that every step of a backtest starts from.
LEMMA TestIs ==
    ASSUME TestInvariant
    PROVE  /\ ticks \in Seq(MarketTick) /\ intents \in Seq(TradeIntent) /\ pending \in Seq(TradeIntent)
           /\ position \in SimulatedPosition \cup {NoPosition} /\ trades \in Seq(SimulatedTrade)
           /\ rejected \in Nat /\ finished \in BOOLEAN
           /\ Len(ticks) \in Nat /\ DOMAIN ticks = 1 .. Len(ticks) /\ \A n \in 1 .. Len(ticks) : ticks[n] \in MarketTick
           /\ Len(pending) \in Nat /\ DOMAIN pending = 1 .. Len(pending)
           /\ \A n \in 1 .. Len(pending) : pending[n] \in TradeIntent
           /\ Len(trades) \in Nat /\ Len(intents) \in Nat
           /\ Accounted /\ InLine /\ HeldRight /\ TradesRight(ticks, trades)
<1>1. /\ ticks \in Seq(MarketTick) /\ intents \in Seq(TradeIntent) /\ pending \in Seq(TradeIntent)
      /\ position \in SimulatedPosition \cup {NoPosition} /\ trades \in Seq(SimulatedTrade)
      /\ rejected \in Nat /\ finished \in BOOLEAN
      /\ Accounted /\ InLine /\ HeldRight /\ TradesRight(ticks, trades)
  BY DEF TestInvariant, BacktestTypeOK
<1>2. Len(ticks) \in Nat /\ DOMAIN ticks = 1 .. Len(ticks) /\ \A n \in 1 .. Len(ticks) : ticks[n] \in MarketTick
  BY <1>1, RangeIs
<1>3. /\ Len(pending) \in Nat /\ DOMAIN pending = 1 .. Len(pending)
      /\ \A n \in 1 .. Len(pending) : pending[n] \in TradeIntent
  BY <1>1, RangeIs
<1>4. Len(trades) \in Nat /\ Len(intents) \in Nat
  BY <1>1, LenProperties
<1> QED
  BY <1>1, <1>2, <1>3, <1>4

\* A position is not NoPosition.
LEMMA HeldIs ==
    ASSUME NEW held \in SimulatedPosition
    PROVE  held # NoPosition /\ held.side # 0 /\ held.opened \in Nat \ {0}
BY DEF SimulatedPosition, NoPosition

\* The last trade ended no later than the last tick.
LEMMA LastClosed ==
    ASSUME TestInvariant, trades # <<>>
    PROVE  Last(trades).closed \in 1 .. Len(ticks)
<1>1. trades \in Seq(SimulatedTrade) /\ DOMAIN ticks = 1 .. Len(ticks) /\ TradesRight(ticks, trades)
  BY TestIs
<1>2. Len(trades) \in DOMAIN trades /\ Last(trades) = trades[Len(trades)]
  BY <1>1, EndsAre
<1> QED
  BY <1>1, <1>2 DEF TradesRight, TradeRight

\* An eligible intent is refused, or becomes the position.
LEMMA TakeKeeps ==
    ASSUME BacktestConfig, TestInvariant, Take
    PROVE  TestInvariant'
<1>1. /\ ticks \in Seq(MarketTick) /\ intents \in Seq(TradeIntent) /\ pending \in Seq(TradeIntent)
      /\ position \in SimulatedPosition \cup {NoPosition} /\ trades \in Seq(SimulatedTrade)
      /\ rejected \in Nat /\ finished \in BOOLEAN
      /\ Len(ticks) \in Nat /\ DOMAIN ticks = 1 .. Len(ticks) /\ \A n \in 1 .. Len(ticks) : ticks[n] \in MarketTick
      /\ Len(pending) \in Nat /\ DOMAIN pending = 1 .. Len(pending)
      /\ \A n \in 1 .. Len(pending) : pending[n] \in TradeIntent
      /\ Len(trades) \in Nat /\ Len(intents) \in Nat
      /\ Accounted /\ InLine /\ HeldRight /\ TradesRight(ticks, trades)
  BY TestIs
<1>2. /\ ~finished /\ pending # <<>> /\ ticks # <<>> /\ Head(pending).at + Latency <= Last(ticks).at
      /\ pending' = Tail(pending) /\ UNCHANGED <<ticks, intents, trades, finished>>
  BY DEF Take, Eligible
<1>3. /\ Head(pending) = pending[1] /\ Head(pending) \in TradeIntent /\ Len(pending) \in Nat \ {0}
      /\ Last(ticks) = ticks[Len(ticks)] /\ Last(ticks) \in MarketTick
      /\ Head(ticks) = ticks[1] /\ Len(ticks) \in Nat \ {0}
  BY <1>1, <1>2, EndsAre
<1>4. /\ pending' \in Seq(TradeIntent) /\ Len(pending') = Len(pending) - 1
      /\ \A i \in 1 .. Len(pending') : pending'[i] = pending[i + 1]
      /\ DOMAIN pending' = 1 .. Len(pending')
  BY <1>1, <1>2, HeadTailProperties, LenProperties
<1>5. InLine'
  <2>1. \A m, n \in DOMAIN pending' : m <= n => pending'[m].at <= pending'[n].at
    <3> SUFFICES ASSUME NEW m \in DOMAIN pending', NEW n \in DOMAIN pending', m <= n
                 PROVE  pending'[m].at <= pending'[n].at
      OBVIOUS
    <3>1. m + 1 \in DOMAIN pending /\ n + 1 \in DOMAIN pending /\ m + 1 <= n + 1
      BY <1>1, <1>3, <1>4
    <3> QED
      BY <1>1, <1>4, <3>1 DEF InLine
  <2>2. \A k \in DOMAIN ticks, n \in DOMAIN pending' : k < Len(ticks) => ticks[k].at < pending'[n].at + Latency
    <3> SUFFICES ASSUME NEW k \in DOMAIN ticks, NEW n \in DOMAIN pending', k < Len(ticks)
                 PROVE  ticks[k].at < pending'[n].at + Latency
      OBVIOUS
    <3>1. n + 1 \in DOMAIN pending /\ pending'[n] = pending[n + 1]
      BY <1>1, <1>3, <1>4
    <3> QED
      BY <1>1, <3>1 DEF InLine
  <2> QED
    BY <1>1, <1>2, <2>1, <2>2 DEF InLine
<1>6. CASE Refused(Head(pending))
  <2>1. rejected' = rejected + 1 /\ UNCHANGED position
    BY <1>6 DEF Take
  <2>2. BacktestTypeOK'
    BY <1>1, <1>2, <1>4, <2>1 DEF BacktestTypeOK
  <2>3. Accounted'
    <3>1. PICK h \in {0, 1} : h = IF position = NoPosition THEN 0 ELSE 1
      OBVIOUS
    <3>2. Len(trades) + rejected + (Len(pending) + h) = Len(intents)
      BY <1>1, <1>2, <3>1 DEF Accounted
    <3>3. Len(trades) + rejected' + (Len(pending') + h) = Len(intents)
      BY <1>1, <1>4, <2>1, <3>2, SMTT(30)
    <3> QED
      BY <1>2, <2>1, <3>1, <3>3 DEF Accounted
  <2>4. HeldRight' /\ TradesRight(ticks, trades)'
    BY <1>1, <1>2, <2>1 DEF HeldRight
  <2> QED
    BY <1>5, <2>2, <2>3, <2>4 DEF TestInvariant
<1>7. CASE ~Refused(Head(pending))
  <2>1. position' = Open(Head(pending), Last(ticks)) /\ UNCHANGED rejected
    BY <1>7 DEF Take
  <2>2. PICK intent \in TradeIntent : intent = Head(pending)
    BY <1>3
  <2>3. /\ intent.at \in Int /\ intent.side \in {-1, 1} /\ intent.stop \in Int /\ intent.target \in Int
        /\ intent.stop > 0 /\ position = NoPosition /\ ~(intent.at < Head(ticks).at)
    BY <1>7, <2>2 DEF Refused, TradeIntent
  <2>4. Slip \in Nat /\ Latency \in Nat
    BY DEF BacktestConfig
  <2>5. PICK entry \in Int : entry = (IF intent.side = 1 THEN Last(ticks).ask ELSE Last(ticks).bid) + intent.side * Slip
    BY <1>3, <2>3, <2>4 DEF MarketTick
  <2>6. PICK held : held = [side |-> intent.side, signal |-> intent.at, opened |-> Len(ticks), entry |-> entry,
                           stop |-> entry - intent.side * intent.stop, target |-> entry + intent.side * intent.target]
    OBVIOUS
  <2>7. position' = held
    BY <2>1, <2>2, <2>5, <2>6 DEF Open
  <2>8. intent.side * intent.stop \in Int /\ intent.side * intent.target \in Int
        /\ intent.side * ((entry - intent.side * intent.stop) - entry) < 0
    <3>1. CASE intent.side = 1
      BY <2>3, <2>5, <3>1
    <3>2. CASE intent.side = -1
      BY <2>3, <2>5, <3>2
    <3> QED
      BY <2>3, <3>1, <3>2
  <2>9. /\ held \in SimulatedPosition /\ held # NoPosition /\ held.opened = Len(ticks) /\ held.signal = intent.at
        /\ held.side * (held.stop - held.entry) < 0
    <3>1. held \in SimulatedPosition
      <4>1. entry - intent.side * intent.stop \in Int /\ entry + intent.side * intent.target \in Int
        BY <2>5, <2>8
      <4> QED
        BY <1>3, <2>3, <2>5, <2>6, <4>1 DEF SimulatedPosition
    <3> QED
      BY <2>6, <2>8, <3>1, HeldIs
  <2>10. Began(ticks, held)
    <3>1. held.signal >= ticks[1].at
      <4>1. ticks[1].at \in Int
        <5>1. ticks[1] \in MarketTick
          BY <1>1, <1>3
        <5> QED
          BY <5>1 DEF MarketTick
      <4> QED
        BY <1>3, <2>3, <2>9, <4>1
    <3>2. ticks[Len(ticks)].at >= held.signal + Latency
      <4>1. ticks[Len(ticks)].at \in Int
        BY <1>3 DEF MarketTick
      <4> QED
        BY <1>2, <1>3, <2>2, <2>3, <2>4, <2>9, <4>1
    <3>3. \A k \in 1 .. (Len(ticks) - 1) : ticks[k].at < held.signal + Latency
      <4>1. 1 \in DOMAIN pending /\ held.signal = pending[1].at
        BY <1>1, <1>3, <2>2, <2>9
      <4>2. \A k \in 1 .. (Len(ticks) - 1) : k \in DOMAIN ticks /\ k < Len(ticks)
        BY <1>1, <1>3
      <4> QED
        BY <1>1, <4>1, <4>2 DEF InLine
    <3> QED
      BY <1>1, <1>3, <2>9, <3>1, <3>2, <3>3 DEF Began
  <2>11. Untouched(ticks, held, Len(ticks))
    BY <1>3, <2>9 DEF Untouched
  <2>12. BacktestTypeOK'
    BY <1>1, <1>2, <1>4, <2>1, <2>7, <2>9 DEF BacktestTypeOK
  <2>13. Accounted'
    <3>1. Len(trades) + rejected + Len(pending) + 0 = Len(intents)
      BY <1>1, <1>2, <2>3 DEF Accounted
    <3>2. Len(trades) + rejected + (Len(pending') + 1) = Len(intents)
      BY <1>1, <1>3, <1>4, <3>1
    <3> QED
      BY <1>2, <2>1, <2>7, <2>9, <3>2 DEF Accounted
  <2>14. trades # <<>> => Last(trades).closed <= held.opened
    BY <1>1, <2>9, LastClosed
  <2>15. HeldRight'
    BY <1>2, <2>7, <2>9, <2>10, <2>11, <2>14 DEF HeldRight
  <2> QED
    BY <1>1, <1>2, <1>5, <2>12, <2>13, <2>15 DEF TestInvariant
<1> QED
  BY <1>6, <1>7

\* A tick comes when no intent is eligible any more; a position that meets its stop or its
\* target becomes a trade.
LEMMA OnTickKeeps ==
    ASSUME BacktestConfig, TestInvariant, NEW quote \in TickQuotes, OnTick(quote)
    PROVE  TestInvariant'
<1>1. /\ ticks \in Seq(MarketTick) /\ intents \in Seq(TradeIntent) /\ pending \in Seq(TradeIntent)
      /\ position \in SimulatedPosition \cup {NoPosition} /\ trades \in Seq(SimulatedTrade)
      /\ rejected \in Nat /\ finished \in BOOLEAN
      /\ Len(ticks) \in Nat /\ DOMAIN ticks = 1 .. Len(ticks) /\ \A n \in 1 .. Len(ticks) : ticks[n] \in MarketTick
      /\ Len(pending) \in Nat /\ DOMAIN pending = 1 .. Len(pending)
      /\ \A n \in 1 .. Len(pending) : pending[n] \in TradeIntent
      /\ Len(trades) \in Nat /\ Len(intents) \in Nat
      /\ Accounted /\ InLine /\ HeldRight /\ TradesRight(ticks, trades)
  BY TestIs
<1>2. PICK tick : tick = [at |-> (IF ticks = <<>> THEN 0 ELSE Last(ticks).at) + quote.step,
                          bid |-> quote.bid, ask |-> quote.ask]
  OBVIOUS
<1>3. PICK closed : closed = MaybeClose(tick, Len(ticks) + 1)
  OBVIOUS
<1>4. /\ ~finished /\ ~Eligible /\ ticks' = Append(ticks, tick) /\ trades' = trades \o closed
      /\ position' = (IF closed = <<>> THEN position ELSE NoPosition)
      /\ UNCHANGED <<intents, pending, rejected, finished>>
  BY <1>2, <1>3 DEF OnTick
<1>5. quote \in TickQuote /\ Latency \in Nat
  BY DEF BacktestConfig
<1>6. ticks # <<>> => /\ Last(ticks) = ticks[Len(ticks)] /\ Last(ticks) \in MarketTick
                      /\ Len(ticks) \in Nat \ {0}
  BY <1>1, EndsAre
<1>7. tick \in MarketTick /\ (ticks # <<>> => Last(ticks).at <= tick.at)
  <2>1. quote.step \in Nat /\ quote.bid \in Nat /\ quote.ask \in Nat
    BY <1>5 DEF TickQuote
  <2>2. CASE ticks = <<>>
    BY <1>2, <2>1, <2>2 DEF MarketTick
  <2>3. CASE ticks # <<>>
    <3>1. PICK before \in Nat : before = Last(ticks).at
      BY <1>6, <2>3 DEF MarketTick
    <3>2. tick = [at |-> before + quote.step, bid |-> quote.bid, ask |-> quote.ask]
      BY <1>2, <2>3, <3>1
    <3>3. before + quote.step \in Nat /\ before <= before + quote.step
      BY <2>1, <3>1
    <3> QED
      BY <2>1, <3>1, <3>2, <3>3 DEF MarketTick
  <2> QED
    BY <2>2, <2>3
<1>8. PICK number \in Nat \ {0} : number = Len(ticks) + 1
  BY <1>1
<1>9. /\ ticks' \in Seq(MarketTick) /\ Len(ticks') = number /\ DOMAIN ticks' = 1 .. number
      /\ \A i \in 1 .. Len(ticks) : ticks'[i] = ticks[i]
      /\ ticks'[number] = tick
  BY <1>1, <1>4, <1>7, <1>8, AppendIs
<1>10. /\ \A held \in SimulatedPosition :
            /\ Began(ticks, held) => Began(ticks', held)
            /\ Untouched(ticks, held, Len(ticks)) => Untouched(ticks', held, Len(ticks))
       /\ TradesRight(ticks', trades)
  BY <1>1, <1>4, <1>7, MoreTicks
<1>11. InLine'
  <2>1. \A m, n \in DOMAIN ticks' : m <= n => ticks'[m].at <= ticks'[n].at
    <3> SUFFICES ASSUME NEW m \in DOMAIN ticks', NEW n \in DOMAIN ticks', m <= n
                 PROVE  ticks'[m].at <= ticks'[n].at
      OBVIOUS
    <3>1. CASE n \in 1 .. Len(ticks)
      <4>1. m \in 1 .. Len(ticks)
        BY <1>1, <1>8, <1>9, <3>1
      <4> QED
        BY <1>1, <1>9, <3>1, <4>1 DEF InLine
    <3>2. CASE n = number /\ m \in 1 .. Len(ticks)
      <4>1. ticks # <<>> /\ Len(ticks) \in DOMAIN ticks /\ m <= Len(ticks)
        BY <1>1, <3>2, EmptySeq
      <4>2. ticks[m].at <= Last(ticks).at
        BY <1>1, <1>6, <3>2, <4>1 DEF InLine
      <4>3. Last(ticks).at <= tick.at /\ ticks[m].at \in Nat /\ Last(ticks).at \in Nat /\ tick.at \in Nat
        BY <1>1, <1>6, <1>7, <3>2, <4>1 DEF MarketTick
      <4>4. ticks[m].at <= tick.at
        BY <4>2, <4>3
      <4> QED
        BY <1>9, <3>2, <4>4
    <3>3. CASE n = number /\ m = number
      BY <1>7, <1>9, <3>3 DEF MarketTick
    <3> QED
      BY <1>1, <1>8, <1>9, <3>1, <3>2, <3>3
  <2>2. \A k \in DOMAIN ticks', n \in DOMAIN pending : k < number => ticks'[k].at < pending[n].at + Latency
    <3> SUFFICES ASSUME NEW k \in DOMAIN ticks', NEW n \in DOMAIN pending, k < number
                 PROVE  ticks'[k].at < pending[n].at + Latency
      OBVIOUS
    <3>1. k \in 1 .. Len(ticks) /\ ticks'[k] = ticks[k]
      BY <1>1, <1>8, <1>9
    <3>2. CASE k < Len(ticks)
      BY <1>1, <3>1, <3>2 DEF InLine
    <3>3. CASE k = Len(ticks)
      <4>1. ticks # <<>> /\ pending # <<>>
        BY <1>1, <3>1, EmptySeq
      <4>2. Head(pending) = pending[1] /\ 1 \in DOMAIN pending /\ 1 <= n
        BY <1>1, <4>1, EndsAre
      <4>3. ~(pending[1].at + Latency <= ticks[k].at)
        BY <1>4, <1>6, <3>3, <4>1, <4>2 DEF Eligible
      <4>4. pending[1].at <= pending[n].at
        BY <1>1, <4>2 DEF InLine
      <4>5. pending[1].at \in Int /\ pending[n].at \in Int /\ ticks[k].at \in Nat
        BY <1>1, <3>1, <4>2 DEF TradeIntent, MarketTick
      <4>6. ticks[k].at < pending[n].at + Latency
        BY <1>5, <4>3, <4>4, <4>5
      <4> QED
        BY <3>1, <4>6
    <3> QED
      BY <1>1, <3>1, <3>2, <3>3
  <2> QED
    BY <1>1, <1>4, <1>9, <2>1, <2>2 DEF InLine
<1>12. CASE closed = <<>>
  <2>1. UNCHANGED <<trades, position>>
    BY <1>1, <1>4, <1>12, ConcatEmptySeq
  <2>2. BacktestTypeOK'
    BY <1>1, <1>4, <1>9, <2>1 DEF BacktestTypeOK
  <2>3. Accounted'
    BY <1>1, <1>4, <2>1 DEF Accounted
  <2>4. HeldRight'
    <3> SUFFICES ASSUME position # NoPosition
                 PROVE  HeldRight'
      BY <2>1 DEF HeldRight
    <3>1. PICK held \in SimulatedPosition : held = position
      BY <1>1
    <3>2. /\ Began(ticks, held) /\ Untouched(ticks, held, Len(ticks))
          /\ held.side * (held.stop - held.entry) < 0
          /\ trades # <<>> => Last(trades).closed <= held.opened
      BY <1>1, <1>4, <3>1 DEF HeldRight
    <3>3. Began(ticks', held) /\ Untouched(ticks', held, Len(ticks))
      BY <1>10, <3>2
    <3>4. ~StopHit(held, tick) /\ ~TargetHit(held, tick)
      BY <1>3, <1>12, <3>1 DEF MaybeClose
    <3>5. Untouched(ticks', held, number)
      <4>1. \A k \in (held.opened + 1) .. number : k \in (held.opened + 1) .. Len(ticks) \/ k = number
        BY <1>1, <1>8, HeldIs
      <4> QED
        BY <1>9, <3>3, <3>4, <4>1 DEF Untouched
    <3> QED
      BY <1>9, <2>1, <3>1, <3>2, <3>3, <3>5 DEF HeldRight
  <2>5. TradesRight(ticks, trades)'
    BY <1>10, <2>1
  <2> QED
    BY <1>11, <2>2, <2>3, <2>4, <2>5 DEF TestInvariant
<1>13. CASE closed # <<>>
  <2>1. position # NoPosition
    BY <1>3, <1>13 DEF MaybeClose
  <2>2. PICK held \in SimulatedPosition : held = position
    BY <1>1, <2>1
  <2>3. /\ Began(ticks, held) /\ Untouched(ticks, held, Len(ticks))
        /\ held.side * (held.stop - held.entry) < 0
        /\ trades # <<>> => Last(trades).closed <= held.opened
    BY <1>1, <1>4, <2>1, <2>2 DEF HeldRight
  <2>4. PICK reason \in {"stop", "take_profit"} :
          /\ closed = <<CloseAt(held, tick, number, reason)>>
          /\ reason = "stop" => StopHit(held, tick)
          /\ reason = "take_profit" => TargetHit(held, tick) /\ ~StopHit(held, tick)
    BY <1>3, <1>8, <1>13, <2>1, <2>2 DEF MaybeClose
  <2>5. PICK t : t = CloseAt(held, tick, number, reason)
    OBVIOUS
  <2>6. held.opened \in 1 .. Len(ticks) /\ held.opened < number /\ number - 1 = Len(ticks)
    BY <1>1, <1>8, <2>3, HeldIs DEF Began
  <2>7. Began(ticks', held) /\ Untouched(ticks', held, number - 1)
    BY <1>10, <2>3, <2>6
  <2>8. t \in SimulatedTrade /\ t.opened = held.opened /\ TradeRight(ticks', t)
    <3>1. number \in DOMAIN ticks' /\ held.opened <= number
      BY <1>8, <1>9, <2>6
    <3> QED
      BY <1>9, <2>3, <2>4, <2>5, <2>6, <2>7, <3>1, ClosedRight
  <2>9. trades' = Append(trades, t)
    BY <1>1, <1>4, <2>4, <2>5, <2>8, AppendIsConcat
  <2>10. TradesRight(ticks', trades')
    BY <1>1, <1>10, <2>3, <2>8, <2>9, MoreTrades
  <2>11. position' = NoPosition /\ trades' \in Seq(SimulatedTrade) /\ Len(trades') = Len(trades) + 1
    BY <1>1, <1>4, <1>13, <2>8, <2>9, AppendProperties
  <2>12. BacktestTypeOK'
    BY <1>1, <1>4, <1>9, <2>11 DEF BacktestTypeOK
  <2>13. Accounted'
    <3>1. Len(trades) + rejected + (Len(pending) + 1) = Len(intents)
      BY <1>1, <1>4, <2>1 DEF Accounted
    <3>2. Len(trades') + rejected + (Len(pending) + 0) = Len(intents)
      BY <1>1, <2>11, <3>1
    <3> QED
      BY <1>4, <2>11, <3>2 DEF Accounted
  <2>14. HeldRight'
    BY <2>11 DEF HeldRight
  <2> QED
    BY <1>11, <2>10, <2>12, <2>13, <2>14 DEF TestInvariant
<1> QED
  BY <1>12, <1>13

\* At the end what waits is rejected, and a position becomes a trade.
LEMMA FinishKeeps ==
    ASSUME BacktestConfig, TestInvariant, Finish
    PROVE  TestInvariant'
<1>1. /\ ticks \in Seq(MarketTick) /\ intents \in Seq(TradeIntent) /\ pending \in Seq(TradeIntent)
      /\ position \in SimulatedPosition \cup {NoPosition} /\ trades \in Seq(SimulatedTrade)
      /\ rejected \in Nat /\ finished \in BOOLEAN
      /\ Len(ticks) \in Nat /\ DOMAIN ticks = 1 .. Len(ticks) /\ \A n \in 1 .. Len(ticks) : ticks[n] \in MarketTick
      /\ Len(pending) \in Nat
      /\ Len(trades) \in Nat /\ Len(intents) \in Nat
      /\ Accounted /\ InLine /\ HeldRight /\ TradesRight(ticks, trades)
  BY TestIs
<1>2. /\ ~finished /\ ticks # <<>> /\ finished' = TRUE /\ rejected' = rejected + Len(pending)
      /\ UNCHANGED <<ticks, intents, pending, position>>
  BY DEF Finish
<1>3. InLine' /\ HeldRight'
  BY <1>1, <1>2 DEF InLine, HeldRight
<1>4. CASE position = NoPosition
  <2>1. trades' = trades
    BY <1>4 DEF Finish
  <2>2. Len(trades) + (rejected + Len(pending)) + 0 = Len(intents)
    BY <1>1, <1>2, <1>4 DEF Accounted
  <2>3. Accounted'
    BY <1>2, <2>1, <2>2 DEF Accounted
  <2>4. BacktestTypeOK'
    BY <1>1, <1>2, <2>1 DEF BacktestTypeOK
  <2> QED
    BY <1>1, <1>2, <1>3, <2>1, <2>3, <2>4 DEF TestInvariant
<1>5. CASE position # NoPosition
  <2>1. PICK held \in SimulatedPosition : held = position
    BY <1>1, <1>5
  <2>2. PICK t : t = CloseAt(held, Last(ticks), Len(ticks), "end_of_data")
    OBVIOUS
  <2>3. trades' = Append(trades, t)
    BY <1>5, <2>1, <2>2 DEF Finish
  <2>4. /\ Began(ticks, held) /\ Untouched(ticks, held, Len(ticks))
        /\ held.side * (held.stop - held.entry) < 0
        /\ trades # <<>> => Last(trades).closed <= held.opened
    BY <1>1, <1>2, <1>5, <2>1 DEF HeldRight
  <2>5. Last(ticks) = ticks[Len(ticks)] /\ Len(ticks) \in DOMAIN ticks
    BY <1>1, <1>2, EndsAre
  <2>6. held.opened <= Len(ticks)
    BY <1>1, <2>4 DEF Began
  <2>7. Untouched(ticks, held, Len(ticks) - 1)
    <3>1. \A k \in (held.opened + 1) .. (Len(ticks) - 1) : k \in (held.opened + 1) .. Len(ticks)
      BY <1>1, HeldIs
    <3> QED
      BY <2>4, <3>1 DEF Untouched
  <2>8. t \in SimulatedTrade /\ t.opened = held.opened /\ TradeRight(ticks, t)
    <3>1. PICK number \in DOMAIN ticks : number = Len(ticks)
      BY <2>5
    <3>2. t = CloseAt(held, ticks[number], number, "end_of_data")
      BY <2>2, <2>5, <3>1
    <3> QED
      BY <1>1, <2>4, <2>6, <2>7, <3>1, <3>2, ClosedRight
  <2>9. TradesRight(ticks, trades')
    BY <1>1, <2>3, <2>4, <2>8, MoreTrades
  <2>10. trades' \in Seq(SimulatedTrade) /\ Len(trades') = Len(trades) + 1
    BY <1>1, <2>3, <2>8, AppendProperties
  <2>11. BacktestTypeOK'
    BY <1>1, <1>2, <2>10 DEF BacktestTypeOK
  <2>12. Accounted'
    <3>1. Len(trades) + rejected + (Len(pending) + 1) = Len(intents)
      BY <1>1, <1>2, <1>5 DEF Accounted
    <3>2. Len(trades') + (rejected + Len(pending)) + 0 = Len(intents)
      BY <1>1, <2>10, <3>1
    <3> QED
      BY <1>2, <3>2 DEF Accounted
  <2> QED
    BY <1>2, <1>3, <2>9, <2>11, <2>12 DEF TestInvariant
<1> QED
  BY <1>4, <1>5
\* What a backtest may do keeps what it says about its trades.
LEMMA TestKeeps ==
    ASSUME BacktestConfig, TestInvariant, [BacktestNext]_<<backtestVars, engineVars>>
    PROVE  TestInvariant'
<1>1. ASSUME NEW quote \in TickQuotes, OnTick(quote)
      PROVE  TestInvariant'
  BY <1>1, OnTickKeeps
<1>2. CASE Take
  BY <1>2, TakeKeeps
<1>3. CASE Finish
  BY <1>3, FinishKeeps
<1>4. CASE UNCHANGED backtestVars
  BY <1>4 DEF backtestVars, TestInvariant, BacktestTypeOK, Accounted, InLine, HeldRight
<1> QED
  BY <1>1, <1>2, <1>3, <1>4 DEF BacktestNext

-----------------------------------------------------------------------------
(* The replay.                                                             *)

\* The facts that every step of a replay starts from.
LEMMA EngineIs ==
    ASSUME EngineInvariant
    PROVE  /\ handled \in Seq(ReplayEvent) /\ queue \in Seq(ReplayEvent) /\ replays \in Nat
           /\ Len(handled) \in Nat /\ DOMAIN handled = 1 .. Len(handled)
           /\ \A n \in 1 .. Len(handled) : handled[n] \in ReplayEvent
           /\ Len(queue) \in Nat /\ DOMAIN queue = 1 .. Len(queue)
           /\ \A n \in 1 .. Len(queue) : queue[n] \in ReplayEvent
           /\ QueueRight /\ ReplayedInOrder
<1>1. handled \in Seq(ReplayEvent) /\ queue \in Seq(ReplayEvent) /\ replays \in Nat
  BY DEF EngineInvariant, QueueRight
<1>2. /\ Len(handled) \in Nat /\ DOMAIN handled = 1 .. Len(handled)
      /\ \A n \in 1 .. Len(handled) : handled[n] \in ReplayEvent
  BY <1>1, RangeIs
<1>3. /\ Len(queue) \in Nat /\ DOMAIN queue = 1 .. Len(queue)
      /\ \A n \in 1 .. Len(queue) : queue[n] \in ReplayEvent
  BY <1>1, RangeIs
<1> QED
  BY <1>1, <1>2, <1>3 DEF EngineInvariant

\* Before the first run nothing is handled.
LEMMA EngineBegins ==
    ASSUME BacktestInit
    PROVE  EngineInvariant
<1>1. clock = <<>> /\ queue = <<>> /\ handled = <<>> /\ replays = 0
  BY DEF BacktestInit
<1>2. <<>> \in Seq(ReplayEvent) /\ DOMAIN <<>> = {}
  BY EmptySeq
<1>3. QueueRight
  BY <1>1, <1>2 DEF QueueRight
<1>4. [n \in DOMAIN handled |-> handled[n].at] = <<>>
  BY <1>1, <1>2
<1>5. InTimeOrder(<<>>)
  BY EmptySeq DEF InTimeOrder
<1>6. ReplayedInOrder
  BY <1>1, <1>2, <1>4, <1>5 DEF ReplayedInOrder, GoesForward
<1> QED
  BY <1>3, <1>6 DEF EngineInvariant

\* A run begins with the first row of its data set, after the runs before.
LEMMA StartReplayKeeps ==
    ASSUME BacktestConfig, EngineInvariant, NEW times \in Datasets, StartReplay(times)
    PROVE  EngineInvariant'
<1>1. /\ handled \in Seq(ReplayEvent) /\ replays \in Nat
      /\ Len(handled) \in Nat /\ DOMAIN handled = 1 .. Len(handled)
      /\ \A n \in 1 .. Len(handled) : handled[n] \in ReplayEvent
      /\ QueueRight /\ ReplayedInOrder
  BY EngineIs
<1>2. /\ replays' = replays + 1 /\ clock' = clock /\ handled' = handled
      /\ queue' \in {Events(times), <<>>}
  BY DEF StartReplay
<1>3. times \in Seq(Int)
  BY DEF BacktestConfig
<1>4. Len(times) \in Nat /\ DOMAIN times = 1 .. Len(times) /\ \A n \in 1 .. Len(times) : times[n] \in Int
  BY <1>3, RangeIs
<1>5. PICK run : run = replays + 1
  OBVIOUS
<1>6. PICK list : list = Events(times)
  OBVIOUS
<1>7. list = [n \in 1 .. Len(times) |-> [at |-> times[n], sequence |-> n, replay |-> run]]
  BY <1>4, <1>5, <1>6 DEF Events
<1>8. run \in Nat
  BY <1>1, <1>5
<1>9. list \in Seq(ReplayEvent) /\ DOMAIN list = 1 .. Len(times)
  <2>1. \A n \in 1 .. Len(times) : [at |-> times[n], sequence |-> n, replay |-> run] \in ReplayEvent
    BY <1>4, <1>8 DEF ReplayEvent
  <2>2. list \in [1 .. Len(times) -> ReplayEvent]
    BY <1>7, <2>1
  <2> QED
    BY <1>4, <1>7, <2>2, SeqDef
<1>10. \A n \in DOMAIN list : list[n].replay = run /\ list[n].sequence = n
  BY <1>7
<1>11. list # <<>> => 1 \in DOMAIN list /\ Head(list) = list[1]
  BY <1>9, EndsAre
<1>12. /\ \A n \in DOMAIN list : list[n].replay = run /\ list[n].sequence = Head(list).sequence + n - 1
       /\ list # <<>> => Head(list).sequence = 1
  <2>1. list # <<>> => Head(list).sequence = 1
    BY <1>10, <1>11
  <2>2. \A n \in DOMAIN list : n \in Nat /\ n = 1 + n - 1
    BY <1>4, <1>9
  <2>3. DOMAIN list # {} => list # <<>>
    OBVIOUS
  <2> QED
    BY <1>10, <2>1, <2>2, <2>3
<1>13. <<>> \in Seq(ReplayEvent) /\ DOMAIN <<>> = {}
  BY EmptySeq
<1>14. /\ queue' \in Seq(ReplayEvent)
       /\ \A n \in DOMAIN queue' : queue'[n].replay = run /\ queue'[n].sequence = Head(queue').sequence + n - 1
       /\ queue' # <<>> => Head(queue').sequence = 1
  BY <1>2, <1>6, <1>9, <1>12, <1>13
<1>15. \A n \in DOMAIN handled : handled[n].replay < run /\ handled[n].replay <= run
  <2> SUFFICES ASSUME NEW n \in 1 .. Len(handled)
               PROVE  handled[n].replay < run /\ handled[n].replay <= run
    BY <1>1
  <2>1. handled[n].replay \in Nat /\ handled[n].replay <= replays
    BY <1>1 DEF QueueRight, ReplayEvent
  <2> QED
    BY <1>1, <1>5, <2>1
<1>16. ~(handled # <<>> /\ Last(handled).replay = run)
  <2> SUFFICES ASSUME handled # <<>>
               PROVE  Last(handled).replay # run
    OBVIOUS
  <2>1. Len(handled) \in DOMAIN handled /\ Last(handled) = handled[Len(handled)]
    BY <1>1, EndsAre
  <2>2. handled[Len(handled)].replay < run /\ handled[Len(handled)].replay \in Nat
    BY <1>1, <1>15, <2>1 DEF ReplayEvent
  <2> QED
    BY <1>8, <2>1, <2>2
<1>17. clock = IF handled = <<>> THEN <<>> ELSE <<Last(handled).at>>
  BY <1>1 DEF QueueRight
<1>18. QueueRight'
  BY <1>1, <1>2, <1>5, <1>8, <1>14, <1>15, <1>16, <1>17 DEF QueueRight
<1>19. ReplayedInOrder'
  BY <1>1, <1>2 DEF ReplayedInOrder
<1> QED
  BY <1>18, <1>19 DEF EngineInvariant

\* One event more, when its time has come and its number is the next.
LEMMA MoreHandled ==
    ASSUME EngineInvariant, NEW event \in ReplayEvent, NEW more, more = Append(handled, event),
           handled # <<>> => Last(handled).at <= event.at,
           event.sequence = IF handled # <<>> /\ Last(handled).replay = event.replay
                            THEN Last(handled).sequence + 1 ELSE 1
    PROVE  GoesForward(more)
<1>1. /\ handled \in Seq(ReplayEvent) /\ Len(handled) \in Nat /\ DOMAIN handled = 1 .. Len(handled)
      /\ \A n \in 1 .. Len(handled) : handled[n] \in ReplayEvent
      /\ ReplayedInOrder
  BY EngineIs
<1>2. /\ DOMAIN more = 1 .. Len(handled) + 1
      /\ \A i \in 1 .. Len(handled) : more[i] = handled[i]
      /\ more[Len(handled) + 1] = event
  BY <1>1, AppendIs
<1>3. ASSUME NEW n \in 1 .. Len(handled) + 1, n = Len(handled) + 1
      PROVE  /\ n > 1 <=> handled # <<>>
             /\ n > 1 => n - 1 \in DOMAIN more /\ more[n - 1] = Last(handled)
  <2>1. handled = <<>> => Len(handled) = 0
    OBVIOUS
  <2>2. handled # <<>> => Len(handled) \in Nat \ {0} /\ Last(handled) = handled[Len(handled)]
    BY <1>1, EndsAre
  <2>3. n > 1 <=> handled # <<>>
    BY <1>1, <1>3, <2>1, <2>2
  <2>4. ASSUME n > 1
        PROVE  n - 1 \in DOMAIN more /\ more[n - 1] = Last(handled)
    <3>1. n - 1 = Len(handled) /\ Len(handled) \in 1 .. Len(handled) /\ Len(handled) \in DOMAIN more
      BY <1>1, <1>2, <1>3, <2>4
    <3>2. more[Len(handled)] = handled[Len(handled)]
      BY <1>2, <3>1
    <3> QED
      BY <2>2, <2>3, <2>4, <3>1, <3>2
  <2> QED
    BY <2>3, <2>4
<1>4. ASSUME NEW n \in 1 .. Len(handled), n > 1
      PROVE  n - 1 \in 1 .. Len(handled) /\ more[n] = handled[n] /\ more[n - 1] = handled[n - 1]
  BY <1>1, <1>2, <1>4
<1>5. \A n \in 2 .. Len(handled) : handled[n - 1].at <= handled[n].at
  <2>1. PICK instants : instants = [n \in DOMAIN handled |-> handled[n].at]
    OBVIOUS
  <2>2. instants \in [1 .. Len(handled) -> Int]
    BY <1>1, <2>1 DEF ReplayEvent
  <2>3. Len(instants) = Len(handled)
    BY <1>1, <2>2, SeqDef, LenProperties
  <2>4. \A n \in 2 .. Len(handled) : instants[n - 1] <= instants[n]
    BY <1>1, <2>1, <2>3 DEF ReplayedInOrder, GoesForward, InTimeOrder
  <2>5. \A n \in 2 .. Len(handled) : n \in DOMAIN handled /\ n - 1 \in DOMAIN handled
    BY <1>1
  <2> QED
    BY <2>1, <2>4, <2>5
<1>6. \A n \in 2 .. Len(handled) + 1 : more[n - 1].at <= more[n].at
  <2> SUFFICES ASSUME NEW n \in 2 .. Len(handled) + 1
               PROVE  more[n - 1].at <= more[n].at
    OBVIOUS
  <2>1. CASE n \in 1 .. Len(handled)
    BY <1>1, <1>4, <1>5, <2>1
  <2>2. CASE n = Len(handled) + 1
    <3>1. n \in 1 .. Len(handled) + 1 /\ n > 1
      BY <1>1
    <3>2. handled # <<>> /\ more[n - 1] = Last(handled) /\ more[n] = event
      BY <1>2, <1>3, <2>2, <3>1
    <3> QED
      BY <3>2
  <2> QED
    BY <1>1, <2>1, <2>2
<1>7. InTimeOrder([n \in DOMAIN more |-> more[n].at])
  <2>1. PICK instants : instants = [n \in DOMAIN more |-> more[n].at]
    OBVIOUS
  <2>2. \A n \in 1 .. Len(handled) + 1 : more[n].at \in Int
    <3>1. \A n \in 1 .. Len(handled) + 1 : n \in 1 .. Len(handled) \/ n = Len(handled) + 1
      BY <1>1
    <3>2. \A n \in 1 .. Len(handled) + 1 : more[n] \in ReplayEvent
      BY <1>1, <1>2, <3>1
    <3> QED
      BY <3>2 DEF ReplayEvent
  <2>3. instants \in [1 .. Len(handled) + 1 -> Int]
    BY <1>2, <2>1, <2>2
  <2>4. Len(handled) + 1 \in Nat
    BY <1>1
  <2>5. instants \in Seq(Int) /\ Len(instants) = Len(handled) + 1
    BY <2>3, <2>4, SeqDef, LenProperties
  <2>6. \A n \in 2 .. Len(handled) + 1 : instants[n - 1] <= instants[n]
    <3> SUFFICES ASSUME NEW n \in 2 .. Len(handled) + 1
                 PROVE  instants[n - 1] <= instants[n]
      OBVIOUS
    <3>1. n \in DOMAIN more /\ n - 1 \in DOMAIN more
      BY <1>1, <1>2
    <3>2. instants[n] = more[n].at /\ instants[n - 1] = more[n - 1].at
      BY <2>1, <3>1
    <3> QED
      BY <1>6, <3>2
  <2> QED
    BY <2>1, <2>5, <2>6 DEF InTimeOrder
<1>8. \A n \in DOMAIN more :
        more[n].sequence = IF n > 1 /\ more[n - 1].replay = more[n].replay
                           THEN more[n - 1].sequence + 1 ELSE 1
  <2> SUFFICES ASSUME NEW n \in 1 .. Len(handled) + 1
               PROVE  more[n].sequence = IF n > 1 /\ more[n - 1].replay = more[n].replay
                                         THEN more[n - 1].sequence + 1 ELSE 1
    BY <1>2
  <2>1. CASE n \in 1 .. Len(handled)
    <3>1. handled[n].sequence = IF n > 1 /\ handled[n - 1].replay = handled[n].replay
                                THEN handled[n - 1].sequence + 1 ELSE 1
      BY <1>1, <2>1 DEF ReplayedInOrder, GoesForward
    <3> QED
      BY <1>2, <1>4, <2>1, <3>1
  <2>2. CASE n = Len(handled) + 1
    BY <1>2, <1>3, <2>2
  <2> QED
    BY <1>1, <2>1, <2>2
<1> QED
  BY <1>7, <1>8 DEF GoesForward

\* An event that the clock lets pass is the next one; at any other the run ends.
LEMMA HandleKeeps ==
    ASSUME EngineInvariant, Handle
    PROVE  EngineInvariant'
<1>1. /\ handled \in Seq(ReplayEvent) /\ queue \in Seq(ReplayEvent) /\ replays \in Nat
      /\ Len(handled) \in Nat /\ DOMAIN handled = 1 .. Len(handled)
      /\ \A n \in 1 .. Len(handled) : handled[n] \in ReplayEvent
      /\ Len(queue) \in Nat /\ DOMAIN queue = 1 .. Len(queue)
      /\ QueueRight /\ ReplayedInOrder
  BY EngineIs
<1>2. queue # <<>> /\ replays' = replays
  BY DEF Handle
<1>3. <<>> \in Seq(ReplayEvent) /\ DOMAIN <<>> = {}
  BY EmptySeq
<1>4. CASE clock # <<>> /\ Head(queue).at < clock[1]
  <2>1. queue' = <<>> /\ clock' = clock /\ handled' = handled
    BY <1>4 DEF Handle
  <2>2. /\ clock = IF handled = <<>> THEN <<>> ELSE <<Last(handled).at>>
        /\ \A n \in DOMAIN handled : handled[n].replay <= replays
    BY <1>1 DEF QueueRight
  <2>3. QueueRight'
    BY <1>1, <1>2, <1>3, <2>1, <2>2 DEF QueueRight
  <2>4. ReplayedInOrder'
    BY <1>1, <2>1 DEF ReplayedInOrder
  <2> QED
    BY <2>3, <2>4 DEF EngineInvariant
<1>5. CASE ~(clock # <<>> /\ Head(queue).at < clock[1])
  <2>1. PICK event \in ReplayEvent : event = Head(queue) /\ event = queue[1]
    BY <1>1, <1>2, EndsAre
  <2>2. 1 \in DOMAIN queue
    BY <1>1, <1>2, EndsAre
  <2>3. clock' = <<event.at>> /\ handled' = Append(handled, event) /\ queue' \in {Tail(queue), <<>>}
    BY <1>5, <2>1 DEF Handle
  <2>4. event.at \in Int /\ event.sequence \in Nat /\ event.replay = replays
    BY <1>1, <2>1, <2>2 DEF QueueRight, ReplayEvent
  <2>5. event.sequence = IF handled # <<>> /\ Last(handled).replay = event.replay
                         THEN Last(handled).sequence + 1 ELSE 1
    BY <1>1, <1>2, <2>1, <2>4 DEF QueueRight
  <2>6. handled # <<>> => Last(handled).at <= event.at
    <3> SUFFICES ASSUME handled # <<>>
                 PROVE  Last(handled).at <= event.at
      OBVIOUS
    <3>1. PICK last \in ReplayEvent : last = Last(handled)
      BY <1>1, EndsAre
    <3>2. clock = <<last.at>>
      BY <1>1, <3>1 DEF QueueRight
    <3>3. clock # <<>> /\ clock[1] = last.at
      BY <3>2
    <3>4. ~(event.at < last.at) /\ last.at \in Int
      BY <1>5, <2>1, <3>1, <3>3 DEF ReplayEvent
    <3> QED
      BY <2>4, <3>1, <3>4
  <2>7. PICK more : more = Append(handled, event)
    OBVIOUS
  <2>8. /\ more \in Seq(ReplayEvent) /\ more # <<>> /\ DOMAIN more = 1 .. Len(handled) + 1
        /\ \A i \in 1 .. Len(handled) : more[i] = handled[i]
        /\ more[Len(handled) + 1] = event /\ Last(more) = event
    <3>1. handled \in Seq(ReplayEvent)
      BY <1>1
    <3>2. event \in ReplayEvent
      BY <2>1
    <3>3. more = Append(handled, event)
      BY <2>7
    <3>4. /\ more \in Seq(ReplayEvent) /\ more # <<>> /\ DOMAIN more = 1 .. Len(handled) + 1
          /\ \A i \in 1 .. Len(handled) : more[i] = handled[i]
          /\ more[Len(handled) + 1] = event /\ Len(more) = Len(handled) + 1
      BY <3>1, <3>2, <3>3, AppendIs
    <3> QED
      BY <3>4 DEF Last
  <2>9. GoesForward(more)
    <3>1. event.sequence = IF handled # <<>> /\ Last(handled).replay = event.replay
                           THEN Last(handled).sequence + 1 ELSE 1
      BY <2>5
    <3>2. handled # <<>> => Last(handled).at <= event.at
      BY <2>6
    <3>3. event \in ReplayEvent
      BY <2>1
    <3> QED
      BY <2>7, <3>1, <3>2, <3>3, MoreHandled
  <2>10. handled' = more
    BY <2>3, <2>7
  <2>11. ReplayedInOrder'
    BY <2>9, <2>10 DEF ReplayedInOrder
  <2>12. \A n \in DOMAIN more : more[n].replay <= replays
    <3> SUFFICES ASSUME NEW n \in 1 .. Len(handled) + 1
                 PROVE  more[n].replay <= replays
      BY <2>8
    <3>1. CASE n \in 1 .. Len(handled)
      BY <1>1, <2>8, <3>1 DEF QueueRight
    <3>2. CASE n = Len(handled) + 1
      BY <1>1, <2>4, <2>8, <3>2
    <3> QED
      BY <1>1, <3>1, <3>2
  <2>13. PICK rest : rest = Tail(queue)
    OBVIOUS
  <2>14. /\ rest \in Seq(ReplayEvent) /\ Len(rest) = Len(queue) - 1
         /\ \A i \in 1 .. Len(rest) : rest[i] = queue[i + 1]
    BY <1>1, <1>2, <2>13, HeadTailProperties
  <2>15. Len(rest) \in Nat /\ DOMAIN rest = 1 .. Len(rest)
    BY <2>14, LenProperties
  <2>16. \A n \in DOMAIN rest : rest[n].replay = replays /\ rest[n].sequence = event.sequence + n
    <3> SUFFICES ASSUME NEW n \in 1 .. Len(rest)
                 PROVE  rest[n].replay = replays /\ rest[n].sequence = event.sequence + n
      BY <2>15
    <3>1. n + 1 \in DOMAIN queue /\ rest[n] = queue[n + 1]
      BY <1>1, <2>14, <2>15
    <3>2. queue[n + 1].replay = replays /\ queue[n + 1].sequence = event.sequence + (n + 1) - 1
      BY <1>1, <2>1, <3>1 DEF QueueRight
    <3>3. event.sequence + (n + 1) - 1 = event.sequence + n
      BY <2>4, <2>15
    <3> QED
      BY <3>1, <3>2, <3>3
  <2>17. rest # <<>> => 1 \in DOMAIN rest /\ Head(rest) = rest[1]
    BY <2>14, EndsAre
  <2>18. rest # <<>> => Head(rest).sequence = event.sequence + 1
    BY <2>16, <2>17
  <2>19. \A n \in DOMAIN rest : rest[n].sequence = Head(rest).sequence + n - 1
    <3> SUFFICES ASSUME NEW n \in 1 .. Len(rest)
                 PROVE  rest[n].sequence = Head(rest).sequence + n - 1
      BY <2>15
    <3>1. rest # <<>>
      BY <2>15, EmptySeq
    <3>2. event.sequence + n = (event.sequence + 1) + n - 1
      BY <2>4, <2>15
    <3> QED
      BY <2>15, <2>16, <2>18, <3>1, <3>2
  <2>20. /\ queue' \in Seq(ReplayEvent)
         /\ \A n \in DOMAIN queue' : queue'[n].replay = replays /\ queue'[n].sequence = Head(queue').sequence + n - 1
         /\ queue' # <<>> => Head(queue').sequence = event.sequence + 1
    BY <1>3, <2>3, <2>13, <2>14, <2>16, <2>18, <2>19
  <2>21. QueueRight'
    BY <1>1, <1>2, <2>3, <2>4, <2>8, <2>10, <2>12, <2>20 DEF QueueRight
  <2> QED
    BY <2>11, <2>21 DEF EngineInvariant
<1> QED
  BY <1>4, <1>5

\* What a step may do keeps what is said about the replay.
LEMMA EngineKeeps ==
    ASSUME BacktestConfig, EngineInvariant, [BacktestNext]_<<backtestVars, engineVars>>
    PROVE  EngineInvariant'
<1>1. ASSUME NEW times \in Datasets, StartReplay(times)
      PROVE  EngineInvariant'
  BY <1>1, StartReplayKeeps
<1>2. CASE Handle
  BY <1>2, HandleKeeps
<1>3. CASE UNCHANGED engineVars
  BY <1>3 DEF engineVars, EngineInvariant, QueueRight, ReplayedInOrder
<1> QED
  BY <1>1, <1>2, <1>3 DEF BacktestNext

\* BacktestAlways: in every state of a backtest each intent is accounted for, the
\* position and the trades are right, and what is handled is in order (engine.py).
THEOREM BacktestAlways ==
    ASSUME BacktestConfig
    PROVE  BacktestSpec => [](TestInvariant /\ EngineInvariant)
<1>1. BacktestInit => TestInvariant /\ EngineInvariant
  BY TestBegins, EngineBegins
<1>2. TestInvariant /\ EngineInvariant /\ [BacktestNext]_<<backtestVars, engineVars>>
        => (TestInvariant /\ EngineInvariant)'
  BY TestKeeps, EngineKeeps
<1> QED
  BY <1>1, <1>2, PTL DEF BacktestSpec

\* The invariant says what the backtest promises.
LEMMA BacktestSound ==
    ASSUME TestInvariant, EngineInvariant
    PROVE  BacktestHolds
<1>1. /\ trades \in Seq(SimulatedTrade) /\ Len(trades) \in Nat /\ rejected \in Nat
      /\ Accounted /\ TradesRight(ticks, trades)
  BY TestIs
<1>2. EveryIntentOnce
  BY <1>1 DEF Accounted, EveryIntentOnce
<1>3. OneAtATime
  BY <1>1 DEF OneAtATime, TradesRight, TradeRight, Began
<1>4. FirstExit
  <2> SUFFICES ASSUME NEW t \in ToSet(trades)
               PROVE  /\ \A k \in (t.opened + 1) .. (t.closed - 1) : ~StopHit(t, ticks[k]) /\ ~TargetHit(t, ticks[k])
                      /\ t.reason # "end_of_data" => t.closed > t.opened
                      /\ t.reason = "take_profit" => TargetHit(t, ticks[t.closed]) /\ ~StopHit(t, ticks[t.closed])
                      /\ t.reason = "stop" => t.net < 0
    BY DEF FirstExit
  <2>1. PICK n \in DOMAIN trades : t = trades[n]
    BY DEF ToSet
  <2>2. TradeRight(ticks, t) /\ t \in SimulatedTrade
    BY <1>1, <2>1, RangeIs DEF TradesRight
  <2>3. t.opened \in Nat /\ t.closed \in Nat
    BY <2>2 DEF SimulatedTrade
  <2> QED
    BY <2>2, <2>3 DEF TradeRight, Untouched
<1>5. ReplayedInOrder
  BY DEF EngineInvariant
<1> QED
  BY <1>2, <1>3, <1>4, <1>5 DEF BacktestHolds

\* BacktestHoldsAlways: at the end every intent was traded or rejected once; one
\* position at a time, opened at the first tick the latency allows and left at its
\* first stop or target; and a handler sees events in order, without a hole (engine.py).
THEOREM BacktestHoldsAlways ==
    ASSUME BacktestConfig
    PROVE  BacktestSpec => []BacktestHolds
<1>1. BacktestSpec => [](TestInvariant /\ EngineInvariant)
  BY BacktestAlways
<1>2. TestInvariant /\ EngineInvariant => BacktestHolds
  BY BacktestSound
<1> QED
  BY <1>1, <1>2, PTL
=============================================================================

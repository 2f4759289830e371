--------------------------- MODULE PublicationProofs ---------------------------
(***************************************************************************)
(* Proofs about what the offline commands leave on the disk.  Data sets,   *)
(* for every source and any number of calls: there is one manifest, and a  *)
(* call that was alone is refused only if something was left behind; a     *)
(* step of a call is first reduced to what it does to the two directories. *)
(* A data set with a whole manifest holds what its source says: that needs *)
(* the content, what each call has written so far of what it has read.     *)
(* The registry of experiments: one that can be read counts each           *)
(* experiment once, and without a death and two calls at once it can       *)
(* always be read.  The lineage: nothing is computed from two origins, a   *)
(* name stands for the same sources in every call, and no directory blocks *)
(* a name for good unless a call was killed.                               *)
(***************************************************************************)
EXTENDS DatasetPublication, ExperimentRegistry, ResearchLineage, OrderingProofs,
        SequenceTheorems

-----------------------------------------------------------------------------
(* The steps                                                               *)

Step == {"idle", "look", "validate", "archive", "make", "write", "manifest", "fill", "publish"}
Refusals == {"exists", "unreadable"}
SameDirectories == final' = final /\ staging' = staging /\ blocked' = blocked
SameOther == IF Staged THEN final' = final ELSE staging' = staging

Moves(c, pc) == /\ call'[c].pc = pc /\ call'[c].overlapped = call[c].overlapped
Stays(c) == call'[c].result = call[c].result /\ call'[c].error = call[c].error
Ends(c) == Moves(c, "idle") /\ call'[c].result = call[c].result /\ call'[c].error \notin Refusals

\* A call ends, and what it was building stays behind.
Leaves(c) == /\ Ends(c) /\ call[c].pc # "idle" /\ final' = final /\ staging' = staging
             /\ blocked' \in {TRUE, blocked} /\ (Building(c) => blocked')
\* It takes away what it was building.
Cleans(c) == /\ Ends(c) /\ Staged /\ Building(c) /\ final' = final /\ staging' = Nowhere
             /\ blocked' = blocked
\* It is refused for what it finds.
IsRefused(c) ==
  /\ Moves(c, "idle") /\ call'[c].result = call[c].result /\ final' = final /\ blocked' = blocked
  /\ \/ call[c].pc = "look" /\ final.manifest.state = "cut" /\ staging' = staging
     \/ call[c].pc = "make" /\ Target.there /\ staging' = staging
     \/ call[c].pc = "publish" /\ final.there /\ staging' = Nowhere
\* It finds a finished data set.
Returns(c) == /\ Moves(c, "idle") /\ call[c].pc = "look" /\ SameDirectories
              /\ final.manifest.state = "whole" /\ call'[c].result = final.manifest
              /\ call'[c].error = call[c].error
\* It goes on before it builds.
GoesOn(c) ==
  /\ Stays(c) /\ SameDirectories /\ call'[c].overlapped = call[c].overlapped
  /\ \/ call[c].pc = "look" /\ final.manifest.state = "none"
        /\ call'[c].pc = IF Staged THEN "make" ELSE "validate"
     \/ call[c].pc = "validate" /\ call'[c].pc = IF Staged THEN "archive" ELSE "make"
     \/ call[c].pc = "archive" /\ call'[c].pc \in {"archive", "look"}
\* It makes the directory.
Makes(c) == /\ Moves(c, "write") /\ Stays(c) /\ call[c].pc = "make" /\ ~Target.there
            /\ Target' = [Nowhere EXCEPT !.there = TRUE] /\ SameOther /\ blocked' = blocked
\* It writes into the directory.
Writes(c) ==
  /\ Stays(c) /\ SameOther /\ blocked' = blocked /\ call'[c].overlapped = call[c].overlapped
  /\ Target'.there = Target.there /\ DirectoryOk(Target')
  /\ \/ call[c].pc = "write" /\ call'[c].pc \in {"write", "manifest"}
        /\ Target'.manifest = Target.manifest
     \/ call[c].pc = "manifest" /\ call'[c].pc = "fill" /\ Target'.manifest.state = "cut"
     \/ call[c].pc = "fill" /\ Staged /\ call'[c].pc = "publish"
        /\ Target'.manifest.state = "whole"
\* It finishes the data set in place.
Finishes(c) ==
  /\ Moves(c, "idle") /\ call'[c].error = call[c].error /\ ~Staged /\ call[c].pc = "fill"
  /\ call'[c].result = final'.manifest /\ final'.manifest.state = "whole"
  /\ final'.there = final.there /\ DirectoryOk(final')
  /\ staging' = staging /\ blocked' = blocked
\* It renames the directory.
Renames(c) ==
  /\ Moves(c, "idle") /\ call'[c].error = call[c].error /\ call[c].pc = "publish"
  /\ ~final.there /\ final' = staging /\ staging' = Nowhere /\ blocked' = blocked
  /\ call'[c].result = staging.manifest
Starts(c) ==
  /\ call[c].pc = "idle" /\ call'[c].pc = (IF Staged THEN "validate" ELSE "look")
  /\ call'[c].result = NoManifest /\ call'[c].error = "" /\ SameDirectories
  /\ ~call'[c].overlapped => \A o \in Callers \ {c} : call[o].pc = "idle"
  /\ \A o \in Callers \ {c} : call[o].pc # "idle" => call'[o].overlapped

\* The other calls only learn that they are not alone.
OthersGoOn(c) ==
  /\ call' = [o \in Callers |-> call'[o]] /\ \A o \in Callers : CallOk(call'[o])
  /\ \A o \in Callers \ {c} :
       /\ call'[o].pc = call[o].pc /\ call'[o].result = call[o].result
       /\ call'[o].error = call[o].error /\ (call[o].overlapped => call'[o].overlapped)

LEMMA GotoIs ==
    ASSUME TypeOK, NEW c \in Callers, NEW pc \in Step, Goto(c, pc)
    PROVE  Moves(c, pc) /\ Stays(c) /\ OthersGoOn(c)
<1>1. call = [o \in Callers |-> call[o]] /\ \A o \in Callers : CallOk(call[o])
  BY DEF TypeOK
<1>2. call' = [call EXCEPT ![c] = [call[c] EXCEPT !.pc = pc]]
  BY <1>1 DEF Goto
<1>3. call'[c] = [call[c] EXCEPT !.pc = pc] /\ \A o \in Callers \ {c} : call'[o] = call[o]
  BY <1>1, <1>2
<1>4. CallOk(call'[c]) /\ Moves(c, pc) /\ Stays(c)
  BY <1>1, <1>3 DEF CallOk, Moves, Stays, Step
<1>5. call' = [o \in Callers |-> call'[o]]
  BY <1>1, <1>2
<1> QED
  BY <1>1, <1>3, <1>4, <1>5 DEF OthersGoOn

LEMMA EndIs ==
    ASSUME TypeOK, NEW c \in Callers, NEW error, End(c, error)
    PROVE  /\ Moves(c, "idle") /\ call'[c].result = call[c].result /\ call'[c].error = error
           /\ OthersGoOn(c)
<1>1. call = [o \in Callers |-> call[o]] /\ \A o \in Callers : CallOk(call[o])
  BY DEF TypeOK
<1>2. call' = [call EXCEPT ![c] = [call[c] EXCEPT !.pc = "idle", !.error = error]]
  BY <1>1 DEF End
<1>3. call'[c] = [call[c] EXCEPT !.pc = "idle", !.error = error]
      /\ \A o \in Callers \ {c} : call'[o] = call[o]
  BY <1>1, <1>2
<1>4. CallOk(call'[c]) /\ Moves(c, "idle")
  BY <1>1, <1>3 DEF CallOk, Moves
<1>5. call'[c].result = call[c].result /\ call'[c].error = error
  BY <1>1, <1>3 DEF CallOk
<1>6. call' = [o \in Callers |-> call'[o]]
  BY <1>1, <1>2
<1> QED
  BY <1>1, <1>3, <1>4, <1>5, <1>6 DEF OthersGoOn

LEMMA SetTargetIs ==
    ASSUME NEW dir, kind' = kind, SetTarget(dir)
    PROVE  Staged' = Staged /\ Target' = dir /\ SameOther
<1>1. Staged' = Staged
  BY DEF Staged
<1> QED
  BY <1>1 DEF SetTarget, Target, SameOther

IsStep(c) == \/ Starts(c) \/ Leaves(c) \/ Cleans(c) \/ IsRefused(c) \/ Returns(c) \/ GoesOn(c)
             \/ Makes(c) \/ Writes(c) \/ Finishes(c) \/ Renames(c)

LEMMA BeginIs ==
    ASSUME TypeOK, NEW c \in Callers, Begin(c)
    PROVE  OthersGoOn(c) /\ Starts(c)
<1> DEFINE others == {o \in Callers \ {c} : call[o].pc # "idle"}
<1>1. call = [o \in Callers |-> call[o]] /\ \A o \in Callers : CallOk(call[o])
  BY DEF TypeOK
<1>2. call' = [o \in Callers |->
           IF o = c THEN [NoCall EXCEPT !.pc = IF Staged THEN "validate" ELSE "look",
                                        !.id = calls + 1, !.overlapped = others # {}]
           ELSE [call[o] EXCEPT !.overlapped = @ \/ o \in others]]
  BY DEF Begin
<1>3. call[c].pc = "idle" /\ SameDirectories
  BY DEF Begin, SameDirectories
<1>4. call'[c] = [NoCall EXCEPT !.pc = IF Staged THEN "validate" ELSE "look",
                               !.id = calls + 1, !.overlapped = others # {}]
  BY <1>2
<1>5. ASSUME NEW o \in Callers \ {c}
      PROVE  call'[o] = [call[o] EXCEPT !.overlapped = call[o].overlapped \/ o \in others]
  BY <1>2, <1>5
<1>6. /\ call'[c].pc = (IF Staged THEN "validate" ELSE "look")
      /\ call'[c].result = NoManifest /\ call'[c].error = "" 
      /\ call'[c].overlapped = (others # {})
  BY <1>4 DEF NoCall
<1>7. CallOk(call'[c])
  BY <1>4 DEF NoCall, CallOk
<1>8. ASSUME NEW o \in Callers \ {c}
      PROVE  /\ CallOk(call'[o]) /\ call'[o].pc = call[o].pc /\ call'[o].result = call[o].result
             /\ call'[o].error = call[o].error
             /\ call'[o].overlapped = (call[o].overlapped \/ o \in others)
  <2> HIDE DEF others
  <2>1. CallOk(call[o])
    BY <1>1, <1>8
  <2>2. call'[o] = [call[o] EXCEPT !.overlapped = call[o].overlapped \/ o \in others]
    BY <1>5, <1>8
  <2> QED
    BY <2>1, <2>2 DEF CallOk
<1>9. OthersGoOn(c)
  <2>1. call' = [o \in Callers |-> call'[o]]
    BY <1>2
  <2> HIDE DEF others
  <2> QED
    BY <1>7, <1>8, <2>1 DEF OthersGoOn
<1> QED
  BY <1>3, <1>6, <1>8, <1>9 DEF Starts

LEMMA LookIs ==
    ASSUME TypeOK, NEW c \in Callers, Look(c)
    PROVE  OthersGoOn(c) /\ IsStep(c)
<1>1. call[c].pc = "look" /\ SameDirectories
  BY DEF Look, SameDirectories
<1>2. final.manifest.state \in {"none", "cut", "whole"}
  BY DEF TypeOK, DirectoryOk, ManifestOk
<1>3. CASE final.manifest.state = "none"
  <2> DEFINE pc == IF Staged THEN "make" ELSE "validate"
  <2>1. Goto(c, pc) /\ pc \in Step
    BY <1>3 DEF Look, Step
  <2>2. Moves(c, pc) /\ Stays(c) /\ OthersGoOn(c)
    <3> HIDE DEF pc
    <3> QED BY <2>1, GotoIs
  <2>3. GoesOn(c)
    BY <1>1, <1>3, <2>2 DEF GoesOn, Moves
  <2> QED
    BY <2>2, <2>3 DEF IsStep
<1>4. CASE final.manifest.state = "cut"
  <2>1. End(c, "unreadable")
    BY <1>4 DEF Look
  <2>2. Moves(c, "idle") /\ call'[c].result = call[c].result /\ OthersGoOn(c)
    BY <2>1, EndIs
  <2>3. IsRefused(c)
    BY <1>1, <1>4, <2>2 DEF IsRefused, SameDirectories
  <2> QED
    BY <2>2, <2>3 DEF IsStep
<1>5. CASE final.manifest.state = "whole"
  <2>1. call = [o \in Callers |-> call[o]] /\ \A o \in Callers : CallOk(call[o])
    BY DEF TypeOK
  <2>2. call' = [call EXCEPT ![c] = [call[c] EXCEPT !.pc = "idle", !.result = final.manifest]]
    BY <1>5, <2>1 DEF Look
  <2>3. call'[c] = [call[c] EXCEPT !.pc = "idle", !.result = final.manifest]
        /\ \A o \in Callers \ {c} : call'[o] = call[o]
    BY <2>1, <2>2
  <2>4. /\ CallOk(call'[c]) /\ Moves(c, "idle") /\ call'[c].result = final.manifest
        /\ call'[c].error = call[c].error
    BY <2>1, <2>3 DEF CallOk, Moves
  <2>5. call' = [o \in Callers |-> call'[o]]
    BY <2>1, <2>2
  <2>6. OthersGoOn(c)
    BY <2>1, <2>3, <2>4, <2>5 DEF OthersGoOn
  <2>7. Returns(c)
    BY <1>1, <1>5, <2>4 DEF Returns
  <2> QED
    BY <2>6, <2>7 DEF IsStep
<1> QED
  BY <1>2, <1>3, <1>4, <1>5

LEMMA ValidateIs ==
    ASSUME TypeOK, NEW c \in Callers, Validate(c) \/ Archive(c)
    PROVE  OthersGoOn(c) /\ IsStep(c)
<1>1. SameDirectories /\ call[c].pc \in {"validate", "archive"}
  BY DEF Validate, Archive, SameDirectories
<1>2. ASSUME NEW error \in {"refused", "conflict", "raced"}, End(c, error)
      PROVE  OthersGoOn(c) /\ IsStep(c)
  <2>1. Moves(c, "idle") /\ call'[c].result = call[c].result /\ call'[c].error = error /\ OthersGoOn(c)
    BY <1>2, EndIs
  <2>2. Leaves(c)
    BY <1>1, <2>1, <1>2 DEF Leaves, Ends, Refusals, SameDirectories, Building
  <2> QED
    BY <2>1, <2>2 DEF IsStep
<1>3. CASE Validate(c)
  <2>1. CASE SourceOk
    <3> DEFINE pc == IF Staged THEN "archive" ELSE "make"
    <3>1. Goto(c, pc) /\ pc \in Step /\ call[c].pc = "validate"
      BY <1>3, <2>1 DEF Validate, Step
    <3>2. Moves(c, pc) /\ Stays(c) /\ OthersGoOn(c)
      <4> HIDE DEF pc
      <4> QED BY <3>1, GotoIs
    <3>3. GoesOn(c)
      BY <1>1, <3>1, <3>2 DEF GoesOn, Moves
    <3> QED
      BY <3>2, <3>3 DEF IsStep
  <2>2. CASE ~SourceOk
    BY <1>2, <1>3, <2>2 DEF Validate
  <2> QED
    BY <2>1, <2>2
<1>4. CASE Archive(c)
  <2>1. call[c].pc = "archive"
    BY <1>4 DEF Archive
  <2>2. End(c, "conflict") \/ End(c, "raced") \/ call' = call \/ Goto(c, "look")
    BY <1>4 DEF Archive
  <2>3. CASE End(c, "conflict") \/ End(c, "raced")
    BY <1>2, <2>3
  <2>4. CASE call' = call
    BY <1>1, <2>1, <2>4 DEF IsStep, GoesOn, Stays, OthersGoOn, TypeOK
  <2>5. CASE Goto(c, "look")
    <3>1. Moves(c, "look") /\ Stays(c) /\ OthersGoOn(c)
      BY <2>5, GotoIs DEF Step
    <3> QED
      BY <1>1, <2>1, <3>1 DEF IsStep, GoesOn, Moves
  <2> QED
    BY <2>2, <2>3, <2>4, <2>5
<1> QED
  BY <1>3, <1>4

LEMMA MakeRootIs ==
    ASSUME TypeOK, NEW c \in Callers, MakeRoot(c)
    PROVE  OthersGoOn(c) /\ IsStep(c)
<1>1. call[c].pc = "make" /\ blocked' = blocked /\ kind' = kind
  BY DEF MakeRoot
<1>2. CASE Target.there
  <2>1. End(c, "exists") /\ final' = final /\ staging' = staging
    BY <1>2 DEF MakeRoot
  <2>2. Moves(c, "idle") /\ call'[c].result = call[c].result /\ OthersGoOn(c)
    BY <2>1, EndIs
  <2> QED
    BY <1>1, <1>2, <2>1, <2>2 DEF IsStep, IsRefused
<1>3. CASE ~Target.there
  <2>1. Target' = [Nowhere EXCEPT !.there = TRUE] /\ SameOther
    BY <1>1, <1>3, SetTargetIs DEF MakeRoot
  <2>2. call = [o \in Callers |-> call[o]] /\ \A o \in Callers : CallOk(call[o])
    BY DEF TypeOK
  <2>3. call' = [call EXCEPT ![c] = [call[c] EXCEPT !.pc = "write", !.row = 0, !.stats = NoStats]]
    BY <1>3, <2>2 DEF MakeRoot
  <2>4. call'[c] = [call[c] EXCEPT !.pc = "write", !.row = 0, !.stats = NoStats]
        /\ \A o \in Callers \ {c} : call'[o] = call[o]
    BY <2>2, <2>3
  <2>5. CallOk(call'[c]) /\ Moves(c, "write") /\ Stays(c)
    BY <2>2, <2>4 DEF CallOk, Moves, Stays
  <2>6. call' = [o \in Callers |-> call'[o]]
    BY <2>2, <2>3
  <2>7. OthersGoOn(c)
    BY <2>2, <2>4, <2>5, <2>6 DEF OthersGoOn
  <2>8. Makes(c)
    BY <1>1, <1>3, <2>1, <2>5 DEF Makes
  <2> QED
    BY <2>7, <2>8 DEF IsStep
<1> QED
  BY <1>2, <1>3

LEMMA WriteRowIs ==
    ASSUME TypeOK, BuildInvariant, NEW c \in Callers, WriteRow(c)
    PROVE  OthersGoOn(c) /\ IsStep(c)
<1> DEFINE i == call[c].row + 1
           refused == Staged /\ ~RowOk(BatchRows(Batches)[i], call[c].stats.last)
<1>1. call[c].pc = "write" /\ blocked' = blocked /\ kind' = kind
  BY DEF WriteRow
<1>2. CASE refused
  <2>1. End(c, "refused") /\ staging' = Nowhere /\ final' = final /\ Staged
    BY <1>2 DEF WriteRow
  <2>2. /\ Moves(c, "idle") /\ call'[c].result = call[c].result /\ call'[c].error = "refused"
        /\ OthersGoOn(c)
    BY <2>1, EndIs
  <2>3. Cleans(c)
    BY <1>1, <2>1, <2>2 DEF Cleans, Ends, Refusals, Building
  <2> QED
    BY <2>2, <2>3 DEF IsStep
<1>3. CASE ~refused
  <2> DEFINE files == Put(Target.files, Rows[i])
             stats == Count(call[c].stats, Rows[i])
  <2>1. /\ SetTarget([Target EXCEPT !.files = files])
        /\ call' = [call EXCEPT ![c].row = i, ![c].stats = stats]
    BY <1>3 DEF WriteRow
  <2> HIDE DEF files, stats, i
  <2>2. Staged' = Staged /\ Target' = [Target EXCEPT !.files = files] /\ SameOther
    BY <1>1, <2>1, SetTargetIs
  <2>3. call = [o \in Callers |-> call[o]] /\ \A o \in Callers : CallOk(call[o])
    BY DEF TypeOK
  <2>4. call' = [call EXCEPT ![c] = [call[c] EXCEPT !.row = i, !.stats = stats]]
    BY <2>1, <2>3
  <2>5. call'[c] = [call[c] EXCEPT !.row = i, !.stats = stats]
        /\ \A o \in Callers \ {c} : call'[o] = call[o]
    BY <2>3, <2>4
  <2>6. CallOk(call'[c]) /\ Moves(c, "write") /\ Stays(c)
    BY <1>1, <2>3, <2>5 DEF CallOk, Moves, Stays
  <2>7. call' = [o \in Callers |-> call'[o]]
    BY <2>3, <2>4
  <2>8. OthersGoOn(c)
    BY <2>3, <2>5, <2>6, <2>7 DEF OthersGoOn
  <2>9. DirectoryOk(Target)
    BY DEF TypeOK, Target
  <2>10. Target'.there = Target.there /\ DirectoryOk(Target') /\ Target'.manifest = Target.manifest
    BY <2>2, <2>9 DEF DirectoryOk
  <2>11. Writes(c)
    BY <1>1, <2>2, <2>6, <2>10 DEF Writes, Moves
  <2> QED
    BY <2>8, <2>11 DEF IsStep
<1> QED
  BY <1>2, <1>3

LEMMA CloseFilesIs ==
    ASSUME TypeOK, BuildInvariant, NEW c \in Callers, CloseFiles(c) \/ WriteTrades(c)
    PROVE  OthersGoOn(c) /\ IsStep(c)
<1>1. call[c].pc = "write" /\ blocked' = blocked /\ kind' = kind /\ Goto(c, "manifest")
  BY DEF CloseFiles, WriteTrades
<1>2. Moves(c, "manifest") /\ Stays(c) /\ OthersGoOn(c)
  BY <1>1, GotoIs DEF Step
<1>3. DirectoryOk(Target)
  BY DEF TypeOK, Target
<1>4. PICK files : SetTarget([Target EXCEPT !.files = files])
  <2>1. CASE CloseFiles(c)
    BY <2>1 DEF CloseFiles
  <2>2. CASE WriteTrades(c)
    <3> DEFINE day == <<[day |-> 0, rows |-> History(source)]>>
    <3>1. SetTarget([Target EXCEPT !.files.parts = day])
      BY <2>2 DEF WriteTrades
    <3>2. [Target EXCEPT !.files.parts = day] = [Target EXCEPT !.files = [Target.files EXCEPT !.parts = day]]
      BY <1>3 DEF DirectoryOk
    <3>3. SetTarget([Target EXCEPT !.files = [Target.files EXCEPT !.parts = day]])
      BY <3>1, <3>2
    <3> QED
      BY <3>3
  <2> QED
    BY <2>1, <2>2
<1>5. Target' = [Target EXCEPT !.files = files] /\ SameOther
  BY <1>1, <1>4, SetTargetIs
<1>6. Target'.there = Target.there /\ DirectoryOk(Target') /\ Target'.manifest = Target.manifest
  BY <1>3, <1>5 DEF DirectoryOk
<1>7. Writes(c)
  BY <1>1, <1>2, <1>5, <1>6 DEF Writes, Moves
<1> QED
  BY <1>2, <1>7 DEF IsStep

LEMMA OpenManifestIs ==
    ASSUME TypeOK, BuildInvariant, NEW c \in Callers, OpenManifest(c)
    PROVE  OthersGoOn(c) /\ IsStep(c)
<1>1. /\ call[c].pc = "manifest" /\ blocked' = blocked /\ kind' = kind /\ Goto(c, "fill")
      /\ SetTarget([Target EXCEPT !.manifest.state = "cut"])
  BY DEF OpenManifest
<1>2. Moves(c, "fill") /\ Stays(c) /\ OthersGoOn(c)
  BY <1>1, GotoIs DEF Step
<1>3. DirectoryOk(Target) /\ Target.there
  BY <1>1 DEF TypeOK, Target, BuildInvariant, Building
<1>4. [Target EXCEPT !.manifest.state = "cut"]
        = [Target EXCEPT !.manifest = [Target.manifest EXCEPT !.state = "cut"]]
  BY <1>3 DEF DirectoryOk
<1>5. Target' = [Target EXCEPT !.manifest = [Target.manifest EXCEPT !.state = "cut"]] /\ SameOther
  BY <1>1, <1>4, SetTargetIs
<1>6. Target'.there = Target.there /\ DirectoryOk(Target') /\ Target'.manifest.state = "cut"
  BY <1>3, <1>5 DEF DirectoryOk, ManifestOk
<1> QED
  BY <1>1, <1>2, <1>5, <1>6 DEF IsStep, Writes, Moves

LEMMA FillManifestIs ==
    ASSUME TypeOK, BuildInvariant, NEW c \in Callers, FillManifest(c)
    PROVE  OthersGoOn(c) /\ IsStep(c)
<1> DEFINE manifest == [state |-> "whole", by |-> call[c].id,
                        stats |-> IF kind = "trades" THEN HistoryStats(source) ELSE call[c].stats]
           pc == IF Staged THEN "publish" ELSE "idle"
           result == IF Staged THEN call[c].result ELSE manifest
<1>1. /\ call[c].pc = "fill" /\ blocked' = blocked /\ kind' = kind
      /\ SetTarget([Target EXCEPT !.manifest = manifest])
      /\ call' = [call EXCEPT ![c].pc = pc, ![c].result = result]
  BY DEF FillManifest
<1>2. ManifestOk(manifest) /\ manifest.state = "whole"
  BY DEF ManifestOk
<1>3. DirectoryOk(Target) /\ Target.there
  BY <1>1 DEF TypeOK, Target, BuildInvariant, Building
<1>4. pc \in {"idle", "publish"}
  OBVIOUS
<1> HIDE DEF manifest
<1>5. Staged' = Staged /\ Target' = [Target EXCEPT !.manifest = manifest] /\ SameOther
  BY <1>1, SetTargetIs
<1>6. /\ Target'.there = Target.there /\ DirectoryOk(Target')
      /\ Target'.manifest = manifest
  BY <1>2, <1>3, <1>5 DEF DirectoryOk
<1>7. call = [o \in Callers |-> call[o]] /\ \A o \in Callers : CallOk(call[o])
  BY DEF TypeOK
<1>8. call'[c] = [call[c] EXCEPT !.pc = pc, !.result = result]
      /\ \A o \in Callers \ {c} : call'[o] = call[o]
  <2> HIDE DEF pc, result
  <2>1. call' = [call EXCEPT ![c] = [call[c] EXCEPT !.pc = pc, !.result = result]]
    BY <1>1, <1>7
  <2> QED
    BY <1>7, <2>1
<1>9. call' = [o \in Callers |-> call'[o]]
  BY <1>1, <1>7
<1>10. /\ CallOk(call'[c]) /\ Moves(c, pc) /\ call'[c].result = result
       /\ call'[c].error = call[c].error
  <2> HIDE DEF pc, result
  <2> QED
    BY <1>4, <1>7, <1>8 DEF CallOk, Moves
<1>11. OthersGoOn(c)
  <2> HIDE DEF pc, result
  <2> QED
    BY <1>7, <1>8, <1>9, <1>10 DEF OthersGoOn
<1>12. CASE Staged
  <2>1. pc = "publish" /\ result = call[c].result
    BY <1>12
  <2>2. Writes(c)
    BY <1>1, <1>2, <1>5, <1>6, <1>10, <1>12, <2>1 DEF Writes, Moves, Stays
  <2> QED
    BY <1>11, <2>2 DEF IsStep
<1>13. CASE ~Staged
  <2>1. pc = "idle" /\ result = manifest
    BY <1>13
  <2>2. Target = final /\ Target' = final' /\ staging' = staging
    BY <1>5, <1>13 DEF Target, SameOther
  <2>3. Finishes(c)
    BY <1>1, <1>2, <1>6, <1>10, <1>13, <2>1, <2>2 DEF Finishes
  <2> QED
    BY <1>11, <2>3 DEF IsStep
<1> QED
  BY <1>12, <1>13

LEMMA PublishIs ==
    ASSUME TypeOK, NEW c \in Callers, Publish(c)
    PROVE  OthersGoOn(c) /\ IsStep(c)
<1>1. call[c].pc = "publish" /\ blocked' = blocked /\ staging' = Nowhere
  BY DEF Publish
<1>2. CASE final.there
  <2>1. End(c, "exists") /\ final' = final
    BY <1>2 DEF Publish
  <2>2. Moves(c, "idle") /\ call'[c].result = call[c].result /\ OthersGoOn(c)
    BY <2>1, EndIs
  <2> QED
    BY <1>1, <1>2, <2>1, <2>2 DEF IsStep, IsRefused
<1>3. CASE ~final.there
  <2>1. call = [o \in Callers |-> call[o]] /\ \A o \in Callers : CallOk(call[o])
    BY DEF TypeOK
  <2>2. call' = [call EXCEPT ![c] = [call[c] EXCEPT !.pc = "idle", !.result = staging.manifest]]
        /\ final' = staging
    BY <1>3, <2>1 DEF Publish
  <2>3. call'[c] = [call[c] EXCEPT !.pc = "idle", !.result = staging.manifest]
        /\ \A o \in Callers \ {c} : call'[o] = call[o]
    BY <2>1, <2>2
  <2>4. /\ CallOk(call'[c]) /\ Moves(c, "idle") /\ call'[c].result = staging.manifest
        /\ call'[c].error = call[c].error
    BY <2>1, <2>3 DEF CallOk, Moves
  <2>5. call' = [o \in Callers |-> call'[o]]
    BY <2>1, <2>2
  <2>6. OthersGoOn(c)
    BY <2>1, <2>3, <2>4, <2>5 DEF OthersGoOn
  <2>7. Renames(c)
    BY <1>1, <1>3, <2>2, <2>4 DEF Renames
  <2> QED
    BY <2>6, <2>7 DEF IsStep
<1> QED
  BY <1>2, <1>3

LEMMA RaiseIs ==
    ASSUME TypeOK, NEW c \in Callers, Raise(c) \/ Die(c)
    PROVE  OthersGoOn(c) /\ IsStep(c)
<1>1. blocked \in BOOLEAN
  BY DEF TypeOK
<1>2. PICK error \in {"raised", "died"} : End(c, error)
  BY DEF Raise, Die
<1>3. Moves(c, "idle") /\ call'[c].result = call[c].result /\ call'[c].error = error /\ OthersGoOn(c)
  BY <1>2, EndIs
<1>4. Ends(c)
  BY <1>3 DEF Ends, Refusals
<1>5. CASE Raise(c) /\ Staged
  BY <1>1, <1>3, <1>4, <1>5 DEF Raise, Cleans, IsStep
<1>6. CASE Raise(c) /\ ~Staged
  BY <1>3, <1>4, <1>6 DEF Raise, Leaves, IsStep, Building
<1>7. CASE Die(c)
  BY <1>1, <1>3, <1>4, <1>7 DEF Die, Leaves, IsStep
<1> QED
  BY <1>5, <1>6, <1>7

LEMMA StepIs ==
    ASSUME TypeOK, BuildInvariant, NEW c \in Callers, Call(c)
    PROVE  Staged' = Staged /\ OthersGoOn(c) /\ IsStep(c)
<1>1. kind' = kind
  BY Zenon DEF Call, Begin, Look, Validate, Archive, MakeRoot, WriteRow, CloseFiles, WriteTrades,
         OpenManifest, FillManifest, Publish, Raise, Die
<1>2. Staged' = Staged
  BY <1>1 DEF Staged
<1>3. CASE Begin(c)
  BY <1>2, <1>3, BeginIs DEF IsStep
<1> QED
  BY <1>2, <1>3, LookIs, ValidateIs, MakeRootIs, WriteRowIs, CloseFilesIs, OpenManifestIs,
     FillManifestIs, PublishIs, RaiseIs DEF Call

-----------------------------------------------------------------------------
(* The inductive invariant                                                 *)

LEMMA FreshDirectory ==
    /\ DirectoryOk(Nowhere) /\ ~Nowhere.there /\ Nowhere.manifest = NoManifest
    /\ DirectoryOk([Nowhere EXCEPT !.there = TRUE]) /\ [Nowhere EXCEPT !.there = TRUE].there
    /\ [Nowhere EXCEPT !.there = TRUE].manifest = NoManifest
    /\ NoManifest.state = "none"
<1>1. ASSUME NEW d, DirectoryOk(d), NEW e, e = [d EXCEPT !.there = TRUE]
      PROVE  DirectoryOk(e) /\ e.there /\ e.manifest = d.manifest
  BY <1>1 DEF DirectoryOk
<1>2. /\ DirectoryOk(Nowhere) /\ ~Nowhere.there /\ Nowhere.manifest = NoManifest
      /\ NoManifest.state = "none"
  BY DEF DirectoryOk, Nowhere, NoManifest, ManifestOk
<1>3. /\ DirectoryOk([Nowhere EXCEPT !.there = TRUE]) /\ [Nowhere EXCEPT !.there = TRUE].there
      /\ [Nowhere EXCEPT !.there = TRUE].manifest = Nowhere.manifest
  BY <1>1, <1>2
<1> QED
  BY <1>2, <1>3

LEMMA TypeStep ==
    ASSUME TypeOK, BuildInvariant, NEW c \in Callers, Call(c)
    PROVE  TypeOK'
<1>1. Staged' = Staged /\ OthersGoOn(c) /\ IsStep(c)
  BY StepIs
<1>2. DirectoryOk(final) /\ DirectoryOk(staging) /\ blocked \in BOOLEAN /\ DirectoryOk(Nowhere)
  BY DEF TypeOK, DirectoryOk, Nowhere, NoManifest, ManifestOk
<1>3. DirectoryOk([Nowhere EXCEPT !.there = TRUE])
  BY FreshDirectory
<1>4. blocked' \in BOOLEAN
  BY <1>1, <1>2 DEF IsStep, Starts, Leaves, Cleans, IsRefused, Returns, GoesOn, Makes, Writes,
                    Finishes, Renames, SameDirectories
<1>5. DirectoryOk(final') /\ DirectoryOk(staging')
  <2>1. CASE Makes(c) \/ Writes(c)
    <3>1. DirectoryOk(Target') /\ SameOther
      BY <1>3, <2>1 DEF Makes, Writes
    <3> QED
      BY <1>1, <1>2, <3>1 DEF Target, SameOther
  <2>2. CASE ~(Makes(c) \/ Writes(c))
    BY <1>1, <1>2, <2>2 DEF IsStep, Starts, Leaves, Cleans, IsRefused, Returns, GoesOn, Finishes,
                            Renames, SameDirectories
  <2> QED
    BY <2>1, <2>2
<1> QED
  BY <1>1, <1>4, <1>5 DEF TypeOK, OthersGoOn

\* The directories after a step that makes one.
LEMMA MakesIs ==
    ASSUME NEW c \in Callers, Staged' = Staged, Makes(c)
    PROVE  /\ Target'.there /\ Target'.manifest.state = "none"
           /\ Staged => final' = final
           /\ ~Staged => final'.manifest.state = "none" /\ ~final.there
  BY FreshDirectory DEF Makes, SameOther, Target

\* Who builds after a step.
LEMMA BuildersStep ==
    ASSUME NEW c \in Callers, OthersGoOn(c)
    PROVE  /\ \A o \in Callers \ {c} : Building(o)' <=> Building(o)
           /\ \A o \in Callers \ {c} : Building(o) => Progress(o)' = Progress(o)
           /\ \A o \in Callers \ {c} : call'[o].pc = "publish" <=> call[o].pc = "publish"
  BY DEF OthersGoOn, Building, Progress

LEMMA BuildStep ==
    ASSUME TypeOK, BuildInvariant, NEW c \in Callers, Call(c)
    PROVE  BuildInvariant'
<1>1. Staged' = Staged /\ OthersGoOn(c) /\ IsStep(c)
  BY StepIs
<1>2. DirectoryOk(final) /\ DirectoryOk(staging) /\ blocked \in BOOLEAN
  BY DEF TypeOK
<1>3. /\ \A o \in Callers \ {c} : Building(o)' <=> Building(o)
      /\ \A o \in Callers \ {c} : Building(o) => Progress(o)' = Progress(o)
      /\ \A o \in Callers \ {c} : call'[o].pc = "publish" <=> call[o].pc = "publish"
  BY <1>1, BuildersStep
<1> DEFINE Fits(o) == /\ Target.there /\ Target.manifest.state = Progress(o)
                      /\ call[o].pc = "publish" => Staged
                      /\ \A p \in Callers \ {o} : ~Building(p)
           Kept == Staged /\ final.there => final.manifest.state = "whole"
           Known == Target.there /\ ~blocked => \/ \E o \in Callers : Building(o)
                                                \/ ~Staged /\ final.manifest.state = "whole"
<1>4. (\A o \in Callers : Building(o) => Fits(o)) /\ Kept /\ Known
  BY DEF BuildInvariant
<1>5. SUFFICES (\A o \in Callers : Building(o)' => Fits(o)') /\ Kept' /\ Known'
  BY DEF BuildInvariant
<1>6. ASSUME SameDirectories, Building(c)' <=> Building(c), ~Building(c)
      PROVE  (\A o \in Callers : Building(o)' => Fits(o)') /\ Kept' /\ Known'
  <2>1. Target' = Target /\ final' = final /\ blocked' = blocked
    BY <1>1, <1>6 DEF SameDirectories, Target
  <2>2. \A o \in Callers : Building(o)' => Fits(o)'
    BY <1>1, <1>3, <1>4, <1>6, <2>1
  <2>3. Kept' /\ Known'
    BY <1>1, <1>3, <1>4, <1>6, <2>1
  <2> QED
    BY <2>2, <2>3
<1>7. CASE Starts(c) \/ Returns(c) \/ GoesOn(c)
  BY <1>6, <1>7 DEF Starts, Returns, GoesOn, Moves, Building
<1>8. CASE Leaves(c)
  <2>1. Target' = Target /\ final' = final /\ ~Building(c)'
    BY <1>1, <1>8 DEF Leaves, Ends, Moves, Target, Building
  <2>2. blocked' = TRUE \/ (blocked' = blocked /\ ~Building(c))
    BY <1>2, <1>8 DEF Leaves
  <2>3. \A o \in Callers : Building(o)' => Fits(o)'
    BY <1>1, <1>3, <1>4, <2>1
  <2>4. Kept' /\ Known'
    BY <1>1, <1>3, <1>4, <2>1, <2>2
  <2> QED
    BY <2>3, <2>4
<1>9. CASE Cleans(c) \/ IsRefused(c)
  <2>1. final' = final /\ blocked' = blocked /\ ~Building(c)'
    BY <1>9 DEF Cleans, IsRefused, Ends, Moves, Building
  <2>2. CASE Building(c)
    <3>1. Staged /\ ~Target'.there
      BY <1>1, <1>4, <1>9, <2>2, FreshDirectory DEF Cleans, IsRefused, Building, Target
    <3>2. \A o \in Callers : ~Building(o)'
      BY <1>3, <1>4, <2>1, <2>2
    <3> QED
      BY <1>1, <1>4, <2>1, <3>1, <3>2
  <2>3. CASE ~Building(c)
    BY <1>6, <1>9, <2>1, <2>3 DEF Cleans, IsRefused, SameDirectories, Building
  <2> QED
    BY <2>2, <2>3
<1>10. CASE Makes(c)
  <2>1. /\ Target'.there /\ Target'.manifest.state = "none" /\ blocked' = blocked
        /\ Building(c)' /\ Progress(c)' = "none" /\ call'[c].pc # "publish"
    BY <1>1, <1>10, MakesIs DEF Makes, Moves, Building, Progress
  <2>2. \A o \in Callers : ~Building(o)
    BY <1>4, <1>10 DEF Makes, Building
  <2>3. \A o \in Callers : Building(o)' => Fits(o)'
    BY <1>1, <1>3, <2>1, <2>2
  <2>4. Kept'
    BY <1>1, <1>4, <1>10, MakesIs
  <2> QED
    BY <2>1, <2>3, <2>4
<1>11. CASE Writes(c)
  <2>1. Building(c) /\ Building(c)' /\ Target.there /\ Target.manifest.state = Progress(c)
    BY <1>4, <1>11 DEF Writes, Building
  <2>2. Target'.there /\ Target'.manifest.state = Progress(c)'
    BY <1>11, <2>1 DEF Writes, Progress
  <2>3. call'[c].pc = "publish" => Staged
    BY <1>11 DEF Writes
  <2>4. \A o \in Callers : Building(o)' => Fits(o)'
    BY <1>1, <1>3, <1>4, <2>1, <2>2, <2>3
  <2>5. Kept'
    BY <1>1, <1>4, <1>11 DEF Writes, SameOther
  <2> QED
    BY <2>1, <2>4, <2>5
<1>12. CASE Finishes(c)
  <2>1. Building(c) /\ ~Building(c)' /\ ~Staged /\ final'.manifest.state = "whole"
    BY <1>12 DEF Finishes, Building, Moves
  <2>2. \A o \in Callers : ~Building(o)'
    BY <1>3, <1>4, <2>1
  <2> QED
    BY <1>1, <2>1, <2>2
<1>13. CASE Renames(c)
  <2>1. Building(c) /\ ~Building(c)' /\ Staged /\ Target.manifest.state = "whole" /\ ~Target'.there
    BY <1>1, <1>4, <1>13, FreshDirectory DEF Renames, Building, Moves, Progress, Target
  <2>2. \A o \in Callers : ~Building(o)'
    BY <1>3, <1>4, <2>1
  <2>3. final'.manifest.state = "whole"
    BY <1>13, <2>1 DEF Renames, Target
  <2> QED
    BY <1>1, <2>1, <2>2, <2>3
<1> QED
  BY <1>1, <1>7, <1>8, <1>9, <1>10, <1>11, <1>12, <1>13 DEF IsStep

LEMMA AloneStep ==
    ASSUME TypeOK, BuildInvariant, AloneInvariant, NEW c \in Callers, Call(c)
    PROVE  AloneInvariant'
<1>1. Staged' = Staged /\ OthersGoOn(c) /\ IsStep(c)
  BY StepIs
<1> DEFINE Active(o) == call[o].pc # "idle" /\ ~call[o].overlapped
           Alone(o) == /\ \A p \in Callers \ {o} : call[p].pc = "idle"
                       /\ Relies(o) => final.manifest.state # "whole"
<1>2. \A o \in Callers : Active(o) => Alone(o)
  BY DEF AloneInvariant
<1>3. \A o \in Callers \ {c} : call'[o].pc = call[o].pc /\ (call[o].overlapped => call'[o].overlapped)
  BY <1>1 DEF OthersGoOn
<1>4. ASSUME NEW o \in Callers \ {c}
      PROVE  ~Active(o)'
  <2>1. CASE call[c].pc = "idle"
    <3>1. Starts(c)
      BY <1>1, <2>1 DEF IsStep, Leaves, Cleans, IsRefused, Returns, GoesOn, Makes, Writes, Finishes,
                        Renames, Building
    <3> QED
      BY <1>3, <1>4, <3>1 DEF Starts
  <2>2. CASE call[c].pc # "idle"
    BY <1>2, <1>3, <1>4, <2>2
  <2> QED
    BY <2>1, <2>2
<1>5. ASSUME Active(c)'
      PROVE  Alone(c)'
  <2>1. CASE Starts(c)
    <3>1. \A p \in Callers \ {c} : call'[p].pc = "idle"
      BY <1>3, <1>5, <2>1 DEF Starts
    <3>2. ~Relies(c)'
      BY <1>1, <2>1 DEF Starts, Relies, Building
    <3> QED
      BY <3>1, <3>2
  <2>2. CASE ~Starts(c)
    <3>1. GoesOn(c) \/ Makes(c) \/ Writes(c)
      BY <1>1, <1>5, <2>2 DEF IsStep, Leaves, Cleans, IsRefused, Returns, Finishes, Renames, Ends,
                              Moves
    <3>2. Active(c)
      BY <1>5, <3>1 DEF GoesOn, Makes, Writes, Moves
    <3>3. \A p \in Callers \ {c} : call'[p].pc = "idle"
      BY <1>2, <1>3, <3>2
    <3>4. CASE GoesOn(c)
      BY <1>1, <1>2, <3>2, <3>3, <3>4 DEF GoesOn, SameDirectories, Relies, Building
    <3>5. CASE Makes(c)
      <4>1. Relies(c)
        BY <3>5 DEF Makes, Relies
      <4>2. final'.manifest.state # "whole"
        BY <1>1, <1>2, <3>2, <3>5, <4>1, MakesIs
      <4> QED
        BY <3>3, <4>2
    <3>6. CASE Writes(c)
      <4>1. Relies(c)
        BY <3>6 DEF Writes, Relies, Building
      <4>2. final'.manifest.state # "whole"
        BY <1>1, <1>2, <3>2, <3>6, <4>1 DEF Writes, SameOther, Target
      <4> QED
        BY <3>3, <4>2
    <3> QED
      BY <3>1, <3>4, <3>5, <3>6
  <2> QED
    BY <2>1, <2>2
<1>6. \A o \in Callers : Active(o)' => Alone(o)'
  BY <1>4, <1>5
<1> QED
  BY <1>6 DEF AloneInvariant

-----------------------------------------------------------------------------
(* What follows                                                            *)

\* A manifest that is written stays as it is.
LEMMA WholeStays ==
    ASSUME TypeOK, BuildInvariant, NEW c \in Callers, Call(c), final.manifest.state = "whole"
    PROVE  final'.manifest = final.manifest
<1>1. Staged' = Staged /\ IsStep(c)
  BY StepIs
<1>2. final.there
  BY DEF TypeOK, DirectoryOk
<1>3. CASE Makes(c)
  BY <1>1, <1>2, <1>3, MakesIs
<1>4. CASE Writes(c)
  BY <1>1, <1>4 DEF Writes, SameOther, Target, BuildInvariant, Building, Progress
<1>5. CASE Finishes(c)
  BY <1>5 DEF Finishes, BuildInvariant, Building, Progress, Target
<1>6. CASE Renames(c)
  BY <1>2, <1>6 DEF Renames
<1> QED
  BY <1>1, <1>3, <1>4, <1>5, <1>6 DEF IsStep, Starts, Leaves, Cleans, IsRefused, Returns, GoesOn,
                                      SameDirectories

LEMMA OneManifestStep ==
    ASSUME TypeOK, BuildInvariant, OneManifest, NEW c \in Callers, Call(c)
    PROVE  OneManifest'
<1>1. OthersGoOn(c) /\ IsStep(c)
  BY StepIs
<1>2. ASSUME NEW o \in Callers, call'[o].result.state = "whole", call'[o].result = call[o].result
      PROVE  call'[o].result = final'.manifest
  <2>1. call[o].result = final.manifest /\ final.manifest.state = "whole"
    BY <1>2 DEF OneManifest
  <2> QED
    BY <1>2, <2>1, WholeStays
<1>3. ASSUME call'[c].result.state = "whole", call'[c].result # call[c].result
      PROVE  call'[c].result = final'.manifest
  <2>1. ~Starts(c)
    BY <1>3, FreshDirectory DEF Starts
  <2>2. Returns(c) \/ Finishes(c) \/ Renames(c)
    BY <1>1, <1>3, <2>1 DEF IsStep, Leaves, Cleans, IsRefused, GoesOn, Makes, Writes, Ends, Stays
  <2> QED
    BY <2>2 DEF Returns, Finishes, Renames, SameDirectories
<1> QED
  BY <1>1, <1>2, <1>3 DEF OneManifest, OthersGoOn

LEMMA RefusedStep ==
    ASSUME TypeOK, BuildInvariant, AloneInvariant, RefusedOnlyAfterTrouble, NEW c \in Callers, Call(c)
    PROVE  RefusedOnlyAfterTrouble'
<1>1. Staged' = Staged /\ OthersGoOn(c) /\ IsStep(c)
  BY StepIs
<1>2. blocked \in BOOLEAN /\ blocked' \in BOOLEAN /\ DirectoryOk(final)
  BY TypeStep DEF TypeOK
<1>3. blocked => blocked'
  BY <1>1, <1>2 DEF IsStep, Starts, Leaves, Cleans, IsRefused, Returns, GoesOn, Makes, Writes,
                    Finishes, Renames, SameDirectories
<1>4. CASE IsRefused(c)
  <2>1. SUFFICES ASSUME ~call[c].overlapped, ~blocked
                 PROVE  FALSE
    BY <1>1, <1>3, <1>4 DEF RefusedOnlyAfterTrouble, OthersGoOn, IsRefused, Moves, Refusals
  <2>2. /\ call[c].pc # "idle" /\ \A o \in Callers \ {c} : call[o].pc = "idle"
        /\ Relies(c) => final.manifest.state # "whole"
    BY <1>4, <2>1 DEF AloneInvariant, IsRefused
  <2>3. Target.there => Building(c) \/ (~Staged /\ final.manifest.state = "whole")
    BY <2>1, <2>2 DEF BuildInvariant, Building
  <2>4. CASE call[c].pc = "look" /\ final.manifest.state = "cut"
    <3>1. final.there
      BY <1>2, <2>4 DEF DirectoryOk
    <3> QED
      BY <2>3, <2>4, <3>1 DEF BuildInvariant, Target, Building
  <2>5. CASE call[c].pc = "make" /\ Target.there
    BY <2>2, <2>3, <2>5 DEF Relies, Building
  <2>6. CASE call[c].pc = "publish" /\ final.there
    BY <2>2, <2>6 DEF Relies, Building, BuildInvariant
  <2> QED
    BY <1>4, <2>4, <2>5, <2>6 DEF IsRefused
<1>5. CASE ~IsRefused(c)
  <2>1. call'[c].error \notin Refusals \/ (/\ call'[c].error = call[c].error
                                          /\ call'[c].overlapped = call[c].overlapped)
    BY <1>1, <1>5 DEF IsStep, Starts, Leaves, Cleans, Returns, GoesOn, Makes, Writes, Finishes,
                      Renames, Ends, Moves, Stays, Refusals
  <2> QED
    BY <1>1, <1>3, <2>1 DEF RefusedOnlyAfterTrouble, OthersGoOn, Refusals
<1> QED
  BY <1>4, <1>5

-----------------------------------------------------------------------------
PublicationInvariant == /\ TypeOK /\ BuildInvariant /\ AloneInvariant
                        /\ OneManifest /\ RefusedOnlyAfterTrouble

LEMMA InitHolds == Init => PublicationInvariant
<1> SUFFICES ASSUME Init
             PROVE  PublicationInvariant
  OBVIOUS
<1>1. /\ final = Nowhere /\ staging = Nowhere /\ blocked = FALSE
      /\ call = [c \in Callers |-> NoCall]
  BY DEF Init
<1>2. CallOk(NoCall) /\ NoCall.pc = "idle" /\ NoCall.result = NoManifest /\ NoCall.error = ""
  BY DEF NoCall, CallOk
<1>3. \A c \in Callers : call[c] = NoCall
  BY <1>1
<1>4. DirectoryOk(Nowhere) /\ ~Nowhere.there /\ NoManifest.state = "none"
  BY FreshDirectory
<1>5. TypeOK
  BY <1>1, <1>2, <1>3, <1>4 DEF TypeOK
<1>6. BuildInvariant
  BY <1>1, <1>2, <1>3, <1>4 DEF BuildInvariant, Building, Target
<1>7. AloneInvariant /\ OneManifest /\ RefusedOnlyAfterTrouble
  BY <1>2, <1>3, <1>4 DEF AloneInvariant, OneManifest, RefusedOnlyAfterTrouble
<1> QED
  BY <1>5, <1>6, <1>7 DEF PublicationInvariant

LEMMA StepKeeps == PublicationInvariant /\ [Next]_vars => PublicationInvariant'
<1> SUFFICES ASSUME PublicationInvariant, [Next]_vars
             PROVE  PublicationInvariant'
  OBVIOUS
<1>1. TypeOK /\ BuildInvariant /\ AloneInvariant /\ OneManifest /\ RefusedOnlyAfterTrouble
  BY DEF PublicationInvariant
<1>2. CASE Next
  <2>1. PICK c \in Callers : Call(c)
    BY <1>2 DEF Next
  <2> QED
    BY <1>1, <2>1, TypeStep, BuildStep, AloneStep, OneManifestStep, RefusedStep
       DEF PublicationInvariant
<1>3. CASE UNCHANGED vars
  <2>1. /\ kind' = kind /\ final' = final /\ staging' = staging /\ call' = call
        /\ blocked' = blocked
    BY <1>3 DEF vars
  <2>2. Staged' = Staged /\ Target' = Target
    BY <2>1 DEF Staged, Target
  <2>3. TypeOK'
    BY <1>1, <2>1 DEF TypeOK
  <2>4. BuildInvariant'
    BY <1>1, <2>1, <2>2 DEF BuildInvariant, Building, Progress
  <2>5. AloneInvariant'
    BY <1>1, <2>1, <2>2 DEF AloneInvariant, Relies, Building
  <2>6. OneManifest' /\ RefusedOnlyAfterTrouble'
    BY <1>1, <2>1 DEF OneManifest, RefusedOnlyAfterTrouble
  <2> QED
    BY <2>3, <2>4, <2>5, <2>6 DEF PublicationInvariant
<1> QED
  BY <1>2, <1>3

\* Whatever the source holds, however many calls run, fail or die: at most one
\* builds, in a directory that is as far as the call is, a call that is alone
\* relies on what it has seen, and what follows from that.
THEOREM PublicationAlways == Spec => []PublicationInvariant
<1> QED
  BY InitHolds, StepKeeps, PTL DEF Spec

\* All calls that succeed return the one manifest that is on the disk: no data
\* set is built twice or changed after its manifest was returned.
THEOREM OneManifestAlways == Spec => []OneManifest
<1>1. PublicationInvariant => OneManifest
  BY DEF PublicationInvariant
<1> QED
  BY <1>1, PublicationAlways, PTL

\* A call is refused for what it finds on the disk only if another call ran at
\* the same time, or one left an unfinished directory behind.
THEOREM RefusedOnlyAfterTroubleAlways == Spec => []RefusedOnlyAfterTrouble
<1>1. PublicationInvariant => RefusedOnlyAfterTrouble
  BY DEF PublicationInvariant
<1> QED
  BY <1>1, PublicationAlways, PTL

-----------------------------------------------------------------------------
(* Data sets: rows in order, counts and days                               *)

\* What a tick holds.
Quotes == [at : Int, bid : Int, ask : Int]

\* Later times are not of an earlier day.
LEMMA DayIs ==
    ASSUME NEW a \in Int, NEW b \in Int
    PROVE  a \div DayLength \in Int /\ (a <= b => a \div DayLength <= b \div DayLength)
<1> DEFINE d == DayLength
<1>0. d \in Nat \ {0}
  BY FeedAssumption
<1>1. a \div d \in Int /\ b \div d \in Int
  BY <1>0
<1>2. /\ a = d * (a \div d) + (a % d) /\ b = d * (b \div d) + (b % d)
      /\ a % d \in 0 .. d - 1 /\ b % d \in 0 .. d - 1
  BY <1>0
<1> QED
  BY <1>0, <1>1, <1>2

\* Rows that are ordered one by one are ordered.
LEMMA Increasing ==
    ASSUME NEW ticks \in Seq(Quotes), NEW n \in 0 .. Len(ticks),
           \A i \in 2 .. n : ticks[i - 1].at <= ticks[i].at,
           NEW i \in 1 .. n, NEW j \in 1 .. n, i <= j
    PROVE  ticks[i].at <= ticks[j].at
<1> DEFINE D == {k \in i .. n : ~(ticks[i].at <= ticks[k].at)}
<1>1. n \in Nat /\ \A k \in 1 .. n : ticks[k].at \in Int
  <2>1. Len(ticks) \in Nat /\ \A k \in 1 .. n : ticks[k] \in Quotes
    BY ElementOfSeq, LenProperties
  <2> QED
    BY <2>1, SMTT(30) DEF Quotes
<1>2. SUFFICES ASSUME D # {}
               PROVE  FALSE
  BY <1>1
<1>3. PICK k \in D : \A x \in D : k <= x
  <2>1. D \subseteq Nat
    OBVIOUS
  <2> QED
    BY <1>2, <2>1, LeastExists
<1>4. k # i
  BY <1>1, <1>3
<1>5. k - 1 \in i .. n /\ k - 1 \notin D
  BY <1>3, <1>4
<1>6. ticks[i].at <= ticks[k - 1].at /\ ticks[k - 1].at <= ticks[k].at
  BY <1>3, <1>4, <1>5
<1>7. ticks[i].at \in Int /\ ticks[k - 1].at \in Int /\ ticks[k].at \in Int
  BY <1>1, <1>3, <1>5
<1> QED
  BY <1>3, <1>6, <1>7

\* One more number for which something holds, or one more for which it does not.
LEMMA CountNext ==
    ASSUME NEW n \in Nat, NEW A \in SUBSET (2 .. n + 1)
    PROVE  Cardinality(A) = Cardinality(A \cap (2 .. n)) + (IF n + 1 \in A THEN 1 ELSE 0)
<1> DEFINE B == A \cap (2 .. n)
<1>1. IsFiniteSet(2 .. n + 1)
  BY FS_Interval
<1>2. B \in SUBSET (2 .. n + 1) /\ n + 1 \notin B
  OBVIOUS
<1>3. IsFiniteSet(B) /\ Cardinality(B) \in Nat
  BY <1>1, <1>2, FS_Subset, FS_CardinalityType
<1>4. (n + 1 \in A => A = B \cup {n + 1}) /\ (n + 1 \notin A => A = B)
  <2>1. \A x \in 2 .. n + 1 : x \in 2 .. n \/ x = n + 1
    OBVIOUS
  <2> QED
    BY <2>1
<1>5. Cardinality(B \cup {n + 1}) = Cardinality(B) + 1
  BY <1>2, <1>3, FS_AddElement
<1>6. n + 1 \in A => Cardinality(A) = Cardinality(B) + 1
  BY <1>4, <1>5
<1>7. n + 1 \notin A => Cardinality(A) = Cardinality(B)
  BY <1>4
<1> HIDE DEF B
<1>8. Cardinality(A) = Cardinality(B) + (IF n + 1 \in A THEN 1 ELSE 0)
  BY <1>3, <1>6, <1>7
<1> QED
  BY <1>8 DEF B

\* Before the first row everything is zero.
LEMMA StatsStart == ASSUME NEW ticks PROVE Stats(ticks, 0) = NoStats
<1>1. 2 .. 0 = {}
  OBVIOUS
<1>2. Cardinality({}) = 0
  BY FS_EmptySet
<1>3. Max({0}) = 0
  BY GreatestIs
<1>4. {i \in 2 .. 0 : ticks[i] = ticks[i - 1]} = {} /\ {i \in 2 .. 0 : Gap(ticks, i) > GapThreshold} = {}
      /\ {0} \cup {Gap(ticks, i) : i \in 2 .. 0} = {0}
  BY <1>1
<1> QED
  BY <1>2, <1>3, <1>4 DEF Stats, NoStats

\* Counting row by row (validate_ticks and the loop of jforex_batch.py) gives what the
\* rows say as a whole.
LEMMA StatsNext ==
    ASSUME NEW ticks \in Seq(Quotes), NEW n \in 0 .. Len(ticks) - 1,
           \A i \in 2 .. n + 1 : ticks[i - 1].at <= ticks[i].at
    PROVE  Count(Stats(ticks, n), ticks[n + 1]) = Stats(ticks, n + 1)
<1> DEFINE same(k) == {i \in 2 .. k : ticks[i] = ticks[i - 1]}
           gaps(k) == {i \in 2 .. k : Gap(ticks, i) > GapThreshold}
           sizes(k) == {0} \cup {Gap(ticks, i) : i \in 2 .. k}
           gap == IF n = 0 THEN 0 ELSE Gap(ticks, n + 1)
<1>1. n \in Nat /\ Len(ticks) \in Nat /\ \A i \in 1 .. n + 1 : ticks[i] \in Quotes
  BY ElementOfSeq, LenProperties
<1>2. \A i \in 2 .. n + 1 : Gap(ticks, i) \in Int /\ Gap(ticks, i) >= 0
  <2> SUFFICES ASSUME NEW i \in 2 .. n + 1
               PROVE  Gap(ticks, i) \in Int /\ Gap(ticks, i) >= 0
    OBVIOUS
  <2>1. i \in 1 .. n + 1 /\ i - 1 \in 1 .. n + 1
    BY <1>1
  <2>2. ticks[i].at \in Int /\ ticks[i - 1].at \in Int /\ ticks[i - 1].at <= ticks[i].at
    BY <1>1, <2>1 DEF Quotes
  <2> QED
    BY <2>2 DEF Gap
<1>3. Cardinality(same(n + 1)) = Cardinality(same(n)) + (IF n + 1 \in same(n + 1) THEN 1 ELSE 0)
  <2>1. same(n + 1) \in SUBSET (2 .. n + 1) /\ same(n + 1) \cap (2 .. n) = same(n)
    BY <1>1
  <2> HIDE DEF same
  <2> QED
    BY <1>1, <2>1, CountNext
<1>4. Cardinality(gaps(n + 1)) = Cardinality(gaps(n)) + (IF n + 1 \in gaps(n + 1) THEN 1 ELSE 0)
  <2>1. gaps(n + 1) \in SUBSET (2 .. n + 1) /\ gaps(n + 1) \cap (2 .. n) = gaps(n)
    BY <1>1
  <2> HIDE DEF gaps
  <2> QED
    BY <1>1, <2>1, CountNext
<1>5. (n + 1 \in same(n + 1)) <=> (IF n = 0 THEN <<>> ELSE <<ticks[n]>>) = <<ticks[n + 1]>>
  <2>1. CASE n = 0
    <3>1. n + 1 \notin same(n + 1)
      BY <2>1
    <3>2. <<>> # <<ticks[n + 1]>>
      OBVIOUS
    <3> QED
      BY <2>1, <3>1, <3>2
  <2>2. CASE n # 0
    <3>1. n + 1 \in 2 .. n + 1 /\ n + 1 - 1 = n
      BY <1>1, <2>2
    <3>2. n + 1 \in same(n + 1) <=> ticks[n + 1] = ticks[n]
      BY <3>1
    <3> HIDE DEF same
    <3> QED
      BY <2>2, <3>2
  <2> QED
    BY <2>1, <2>2
<1>6. gap \in Nat /\ (n + 1 \in gaps(n + 1) <=> gap > GapThreshold)
  <2>1. CASE n = 0
    BY <2>1, FeedAssumption
  <2>2. CASE n # 0
    <3>1. n + 1 \in 2 .. n + 1
      BY <1>1, <2>2
    <3> QED
      BY <1>2, <2>2, <3>1
  <2> QED
    BY <2>1, <2>2
<1>7. ASSUME NEW k \in 0 .. n + 1
      PROVE  /\ Max(sizes(k)) \in sizes(k) /\ \A s \in sizes(k) : Max(sizes(k)) >= s
             /\ sizes(k) \subseteq Nat
  <2>1. sizes(k) \subseteq Nat
    BY <1>1, <1>2
  <2> DEFINE bound == IF k = 0 THEN 0 ELSE ticks[k].at - ticks[1].at
  <2>2. bound \in Nat /\ \A s \in sizes(k) : s <= bound
    <3>1. CASE k = 0
      BY <3>1
    <3>2. CASE k # 0
      <4>1. k \in 1 .. n + 1 /\ n + 1 \in 0 .. Len(ticks)
        BY <1>1, <3>2
      <4>2. \A j \in 1 .. k : ticks[1].at <= ticks[j].at /\ ticks[j].at <= ticks[k].at
        BY <1>1, <4>1, Increasing
      <4>3. bound \in Nat
        <5>1. 1 \in 1 .. k /\ 1 \in 1 .. n + 1
          BY <1>1, <4>1
        <5>2. ticks[1].at <= ticks[k].at /\ ticks[1].at \in Int /\ ticks[k].at \in Int
          BY <1>1, <4>1, <4>2, <5>1 DEF Quotes
        <5> QED
          BY <3>2, <5>2
      <4>4. ASSUME NEW i \in 2 .. k
            PROVE  Gap(ticks, i) <= bound
        <5>1. i - 1 \in 1 .. k /\ i \in 1 .. k /\ i \in 1 .. n + 1 /\ i - 1 \in 1 .. n + 1 /\ 1 \in 1 .. n + 1
          BY <4>1
        <5>2. /\ ticks[1].at <= ticks[i - 1].at /\ ticks[i].at <= ticks[k].at
              /\ ticks[1].at \in Int /\ ticks[i - 1].at \in Int /\ ticks[i].at \in Int /\ ticks[k].at \in Int
          BY <1>1, <4>1, <4>2, <5>1 DEF Quotes
        <5>3. \A a, b, c, d \in Int : a <= b /\ c <= d => c - b <= d - a
          OBVIOUS
        <5>4. ticks[i].at - ticks[i - 1].at <= ticks[k].at - ticks[1].at
          BY <5>2, <5>3
        <5> QED
          BY <3>2, <5>4 DEF Gap
      <4> HIDE DEF bound
      <4> QED
        BY <4>3, <4>4
    <3> QED
      BY <3>1, <3>2
  <2> HIDE DEF bound
  <2> QED
    BY <2>1, <2>2, GreatestExists
<1>8. Max({Max(sizes(n)), gap}) = Max(sizes(n + 1))
  <2> DEFINE m == IF Max(sizes(n)) >= gap THEN Max(sizes(n)) ELSE gap
  <2>1. /\ Max(sizes(n)) \in sizes(n) /\ \A s \in sizes(n) : Max(sizes(n)) >= s
        /\ sizes(n) \subseteq Nat /\ sizes(n + 1) \subseteq Nat
    <3>1. n \in 0 .. n + 1 /\ n + 1 \in 0 .. n + 1
      BY <1>1
    <3> HIDE DEF sizes
    <3> QED
      BY <1>7, <3>1
  <2>2. sizes(n + 1) = sizes(n) \cup {gap}
    <3>1. CASE n = 0
      BY <3>1
    <3>2. CASE n # 0
      <4>1. 2 .. n + 1 = (2 .. n) \cup {n + 1}
        BY <1>1, <3>2
      <4>2. sizes(n + 1) = {0} \cup {Gap(ticks, i) : i \in (2 .. n) \cup {n + 1}}
        BY <4>1
      <4> QED
        BY <3>2, <4>2
    <3> QED
      BY <3>1, <3>2
  <2> HIDE DEF sizes, gap
  <2>3. /\ m \in {Max(sizes(n)), gap} /\ m \in sizes(n + 1)
        /\ {Max(sizes(n)), gap} \in SUBSET Int /\ sizes(n + 1) \in SUBSET Int
        /\ (\A s \in {Max(sizes(n)), gap} : m >= s) /\ \A s \in sizes(n + 1) : m >= s
    BY <1>6, <2>1, <2>2
  <2> HIDE DEF m
  <2>4. Max({Max(sizes(n)), gap}) = m
    BY <2>3, GreatestIs
  <2>5. Max(sizes(n + 1)) = m
    BY <2>3, GreatestIs
  <2> QED
    BY <2>4, <2>5
<1> DEFINE old == Stats(ticks, n)
           new == Count(old, ticks[n + 1])
<1>9. /\ old.rows = n /\ old.last = (IF n = 0 THEN <<>> ELSE <<ticks[n]>>)
      /\ old.duplicates = Cardinality(same(n)) /\ old.gaps = Cardinality(gaps(n))
      /\ old.maximum = Max(sizes(n))
  BY DEF Stats
<1>10. (IF old.rows = 0 THEN 0 ELSE ticks[n + 1].at - old.last[1].at) = gap
  BY <1>1, <1>9 DEF Gap
<1> HIDE DEF old, same, gaps, sizes, gap
<1>11. new = [rows |-> n + 1, last |-> <<ticks[n + 1]>>,
              duplicates |-> Cardinality(same(n + 1)), gaps |-> Cardinality(gaps(n + 1)),
              maximum |-> Max(sizes(n + 1))]
  BY <1>3, <1>4, <1>5, <1>6, <1>8, <1>9, <1>10 DEF Count
<1> QED
  BY <1>1, <1>11 DEF Stats, same, gaps, sizes, old

\* What the files hold of the first n rows, the batch still to be written aside.
HasDay(parts, day) == \E k \in DOMAIN parts : parts[k].day = day
Held(files, ticks, n) ==
  LET m == n - Len(files.batch)
  IN  /\ files = [parts |-> files.parts, day |-> files.day, batch |-> files.batch, open |-> files.open]
      /\ files.parts \in Seq([day : Int, rows : Seq(Quotes)])
      /\ m >= 0 /\ files.batch \in Seq(Quotes) /\ files.batch = SubSeq(ticks, m + 1, n)
      /\ \A i \in m + 1 .. n : files.day = <<DayOf(ticks[i])>>
      /\ ByDay(files.parts, ticks, m)
      /\ files.open \in BOOLEAN
      /\ files.open <=> \E k \in DOMAIN files.parts : files.day = <<files.parts[k].day>>

\* Of ordered rows the days do not go back.
LEMMA DaysIncrease ==
    ASSUME NEW ticks \in Seq(Quotes), NEW n \in 0 .. Len(ticks),
           \A i \in 2 .. n : ticks[i - 1].at <= ticks[i].at
    PROVE  /\ \A i \in 1 .. n : DayOf(ticks[i]) \in Int
           /\ \A i, j \in 1 .. n : i <= j => DayOf(ticks[i]) <= DayOf(ticks[j])
<1>1. \A i \in 1 .. n : ticks[i].at \in Int
  <2>1. \A k \in 1 .. n : ticks[k] \in Quotes
    BY ElementOfSeq, LenProperties
  <2> QED
    BY <2>1 DEF Quotes
<1>2. ASSUME NEW i \in 1 .. n, NEW j \in 1 .. n, i <= j
      PROVE  DayOf(ticks[i]) <= DayOf(ticks[j])
  <2>1. ticks[i].at <= ticks[j].at
    BY <1>2, Increasing
  <2> QED
    BY <1>1, <2>1, DayIs DEF DayOf
<1>3. \A i \in 1 .. n : DayOf(ticks[i]) \in Int
  BY <1>1, DayIs DEF DayOf
<1> QED
  BY <1>2, <1>3

\* More rows of the last day extend its file.
LEMMA ExtendFile ==
    ASSUME NEW ticks \in Seq(Quotes), NEW n \in 0 .. Len(ticks), NEW m \in 0 .. n - 1,
           \A i \in 2 .. n : ticks[i - 1].at <= ticks[i].at,
           NEW parts \in Seq([day : Int, rows : Seq(Quotes)]), ByDay(parts, ticks, m),
           NEW day, \A i \in m + 1 .. n : DayOf(ticks[i]) = day,
           NEW k \in DOMAIN parts, parts[k].day = day
    PROVE  /\ Extended(parts, SubSeq(ticks, m + 1, n)) \in Seq([day : Int, rows : Seq(Quotes)])
           /\ ByDay(Extended(parts, SubSeq(ticks, m + 1, n)), ticks, n)
           /\ HasDay(Extended(parts, SubSeq(ticks, m + 1, n)), day)
<1> DEFINE K == Len(parts)
           batch == SubSeq(ticks, m + 1, n)
           longer == [parts[K] EXCEPT !.rows = @ \o batch]
           new == [parts EXCEPT ![K].rows = @ \o batch]
           Part == [day : Int, rows : Seq(Quotes)]
<1>1. n \in Nat /\ m \in Nat /\ Len(ticks) \in Nat /\ K \in Nat /\ DOMAIN parts = 1 .. K
      /\ \A l \in 1 .. K : parts[l] \in Part
  <2>1. parts \in Seq(Part)
    OBVIOUS
  <2> HIDE DEF Part
  <2> QED
    BY <2>1, ElementOfSeq, LenProperties
<1>2. /\ \A i \in 1 .. n : DayOf(ticks[i]) \in Int
      /\ \A i, j \in 1 .. n : i <= j => DayOf(ticks[i]) <= DayOf(ticks[j])
  BY DaysIncrease
<1>3. ASSUME NEW l \in 1 .. K
      PROVE  \E first \in 1 .. m, last \in 1 .. m :
               /\ first <= last /\ parts[l].rows = SubSeq(ticks, first, last)
               /\ \A i \in 1 .. m : DayOf(ticks[i]) = parts[l].day <=> first <= i /\ i <= last
  BY <1>1 DEF ByDay
<1>4. \A l \in 1 .. K : parts[l].day <= day
  <2> SUFFICES ASSUME NEW l \in 1 .. K
               PROVE  parts[l].day <= day
    OBVIOUS
  <2>1. PICK i \in 1 .. m : DayOf(ticks[i]) = parts[l].day
    <3>1. PICK first \in 1 .. m, last \in 1 .. m :
            first <= last /\ \A i \in 1 .. m : DayOf(ticks[i]) = parts[l].day <=> first <= i /\ i <= last
      BY <1>3
    <3>2. first <= first
      OBVIOUS
    <3>3. DayOf(ticks[first]) = parts[l].day
      BY <3>1, <3>2
    <3> QED
      BY <3>3
  <2>2. i \in 1 .. n /\ n \in 1 .. n /\ n \in m + 1 .. n /\ i <= n
    BY <1>1
  <2> QED
    BY <1>2, <2>1, <2>2
<1>5. k = K
  <2> SUFFICES ASSUME k < K
               PROVE  FALSE
    BY <1>1
  <2>1. K \in 1 .. K /\ parts[k].day < parts[K].day /\ parts[K].day <= day /\ parts[K].day \in Int /\ day \in Int
    <3>1. K \in 1 .. K /\ k \in 1 .. K
      BY <1>1
    <3>2. parts[k].day \in Int /\ parts[K].day \in Int
      BY <1>1, <3>1
    <3>3. parts[k].day < parts[K].day
      BY <1>1, <3>1 DEF ByDay
    <3> QED
      BY <1>4, <3>1, <3>2, <3>3
  <2> QED
    BY <2>1, SMTT(30)
<1>6. K \in 1 .. K
  BY <1>1, <1>5
<1>7. PICK first \in 1 .. m, last \in 1 .. m :
               /\ first <= last /\ parts[K].rows = SubSeq(ticks, first, last)
               /\ \A i \in 1 .. m : DayOf(ticks[i]) = parts[K].day <=> first <= i /\ i <= last
  BY <1>3, <1>6
<1>8. last = m
  <2>1. m \in 1 .. m /\ last \in 1 .. n /\ m \in 1 .. n /\ n \in 1 .. n /\ n \in m + 1 .. n
    BY <1>1, <1>7, SMTT(30)
  <2>2. DayOf(ticks[last]) = day /\ DayOf(ticks[n]) = day
    BY <1>5, <1>7, <2>1
  <2>3. DayOf(ticks[m]) = day
    BY <1>1, <1>2, <2>1, <2>2
  <2> QED
    BY <1>1, <1>5, <1>7, <2>1, <2>3
<1>9. longer = [day |-> day, rows |-> SubSeq(ticks, first, n)]
  <2>1. parts[K] = [day |-> day, rows |-> parts[K].rows]
    BY <1>1, <1>5, <1>6
  <2>2. parts[K].rows \o batch = SubSeq(ticks, first, n)
    <3>1. first \in 1 .. Len(ticks) + 1 /\ m \in first - 1 .. Len(ticks) /\ n \in m .. Len(ticks)
      BY <1>1, <1>7
    <3> QED
      BY <1>7, <1>8, <3>1, ConcatAdjacentSubSeq
  <2> DEFINE r == parts[K]
             rows == parts[K].rows \o batch
  <2>3. longer = [r EXCEPT !.rows = rows]
    OBVIOUS
  <2>4. \A t, v : [[day |-> day, rows |-> t] EXCEPT !.rows = v] = [day |-> day, rows |-> v]
    OBVIOUS
  <2>5. r = [day |-> day, rows |-> r.rows]
    BY <2>1
  <2> HIDE DEF r, rows, longer
  <2>6. longer = [day |-> day, rows |-> rows]
    BY <2>3, <2>4, <2>5
  <2> QED
    BY <2>2, <2>6 DEF rows
<1>10. longer \in Part
  <2>1. SubSeq(ticks, first, n) \in Seq(Quotes)
    <3>1. \A i \in first .. n : ticks[i] \in Quotes
      BY <1>1, <1>7, ElementOfSeq
    <3>2. first \in Int /\ n \in Int
      BY <1>1, <1>7
    <3> QED
      BY <3>1, <3>2, SubSeqProperties
  <2>2. day \in Int
    BY <1>1, <1>5, <1>6
  <2> QED
    BY <1>9, <2>1, <2>2
<1>11. /\ new = [parts EXCEPT ![K] = longer] /\ new \in Seq(Part) /\ Len(new) = K /\ DOMAIN new = 1 .. K
       /\ \A l \in 1 .. K : new[l] = IF l = K THEN longer ELSE parts[l]
  <2>1. new = [parts EXCEPT ![K] = longer]
    OBVIOUS
  <2> HIDE DEF longer, new
  <2>2. \A l \in 1 .. K : new[l] = IF l = K THEN longer ELSE parts[l]
    BY <1>1, <2>1
  <2>3. new \in Seq(Part) /\ Len(new) = K
    BY <1>1, <1>6, <1>10, <2>1, ExceptSeq
  <2> QED
    BY <2>1, <2>2, <2>3, LenProperties
<1> HIDE DEF longer, new, batch
<1>12. \A l \in 1 .. K : new[l].day = parts[l].day
  BY <1>5, <1>9, <1>11
<1>13. ByDay(new, ticks, n)
  <2>1. \A l, o \in DOMAIN new : l < o => new[l].day < new[o].day
    BY <1>1, <1>11, <1>12, ZenonT(30) DEF ByDay
  <2>2. ASSUME NEW i \in 1 .. n
        PROVE  \E l \in DOMAIN new : new[l].day = DayOf(ticks[i])
    <3>1. CASE i \in 1 .. m
      BY <1>1, <1>11, <1>12, <3>1 DEF ByDay
    <3>2. CASE i \notin 1 .. m
      <4>1. i \in m + 1 .. n
        BY <1>1, <3>2
      <4> QED
        BY <1>5, <1>6, <1>11, <1>12, <4>1
    <3> QED
      BY <3>1, <3>2
  <2>3. ASSUME NEW l \in DOMAIN new
        PROVE  \E a \in 1 .. n, b \in 1 .. n :
                 /\ a <= b /\ new[l].rows = SubSeq(ticks, a, b)
                 /\ \A i \in 1 .. n : DayOf(ticks[i]) = new[l].day <=> a <= i /\ i <= b
    <3>1. CASE l = K
      <4>1. first \in 1 .. n /\ n \in 1 .. n /\ first <= n
        BY <1>1, <1>7
      <4>2. new[l].rows = SubSeq(ticks, first, n) /\ new[l].day = day
        BY <1>9, <1>11, <2>3, <3>1
      <4>3. ASSUME NEW i \in 1 .. n
            PROVE  DayOf(ticks[i]) = day <=> first <= i /\ i <= n
        <5>1. CASE i \in 1 .. m
          BY <1>1, <1>5, <1>7, <1>8, <5>1
        <5>2. CASE i \notin 1 .. m
          <6>1. i \in m + 1 .. n
            BY <1>1, <5>2
          <6> QED
            BY <1>1, <1>7, <6>1
        <5> QED
          BY <5>1, <5>2
      <4> QED
        BY <4>1, <4>2, <4>3
    <3>2. CASE l # K
      <4>1. l \in 1 .. K /\ new[l] = parts[l]
        BY <1>11, <2>3, <3>2
      <4>2. PICK a \in 1 .. m, b \in 1 .. m :
               /\ a <= b /\ parts[l].rows = SubSeq(ticks, a, b)
               /\ \A i \in 1 .. m : DayOf(ticks[i]) = parts[l].day <=> a <= i /\ i <= b
        BY <1>3, <4>1
      <4>3. parts[l].day # day
        <5>1. l < K /\ parts[l].day \in Int /\ parts[K].day \in Int /\ parts[K].day = day
          <6>1. K \in Nat /\ l \in 1 .. K /\ K \in 1 .. K
            BY <1>1, <1>6, <4>1
          <6>2. l < K
            BY <3>2, <6>1
          <6>3. parts[l].day \in Int /\ parts[K].day \in Int
            BY <1>1, <6>1
          <6> QED
            BY <1>5, <6>2, <6>3
        <5>2. parts[l].day < parts[K].day
          BY <1>1, <1>6, <4>1, <5>1 DEF ByDay
        <5>3. parts[l].day # parts[K].day
          BY <5>1, <5>2, SMTT(30)
        <5> QED
          BY <5>1, <5>3, Zenon
      <4>4. ASSUME NEW i \in 1 .. n
            PROVE  DayOf(ticks[i]) = parts[l].day <=> a <= i /\ i <= b
        <5>1. CASE i \in 1 .. m
          BY <4>2, <5>1
        <5>2. CASE i \notin 1 .. m
          <6>1. i \in m + 1 .. n /\ ~(i <= b)
            BY <1>1, <4>2, <5>2
          <6> QED
            BY <4>3, <6>1
        <5> QED
          BY <5>1, <5>2
      <4>5. a \in 1 .. n /\ b \in 1 .. n
        BY <1>1, <4>2, SMTT(30)
      <4>6. a <= b /\ new[l].rows = SubSeq(ticks, a, b)
        BY <4>1, <4>2
      <4>7. \A i \in 1 .. n : DayOf(ticks[i]) = new[l].day <=> a <= i /\ i <= b
        BY <4>1, <4>4, Zenon
      <4> QED
        BY <4>5, <4>6, <4>7, Zenon
    <3> QED
      BY <3>1, <3>2
  <2> QED
    BY <2>1, <2>2, <2>3 DEF ByDay
<1>14. new = Extended(parts, SubSeq(ticks, m + 1, n))
  BY DEF new, batch, Extended
<1>15. \E l \in DOMAIN new : new[l].day = day
  BY <1>5, <1>6, <1>11, <1>12
<1> QED
  BY <1>11, <1>13, <1>14, <1>15 DEF HasDay

\* Rows of a new day get a file after all others.
LEMMA NewFile ==
    ASSUME NEW ticks \in Seq(Quotes), NEW n \in 0 .. Len(ticks), NEW m \in 0 .. n - 1,
           \A i \in 2 .. n : ticks[i - 1].at <= ticks[i].at,
           NEW parts \in Seq([day : Int, rows : Seq(Quotes)]), ByDay(parts, ticks, m),
           NEW day, \A i \in m + 1 .. n : DayOf(ticks[i]) = day,
           \A k \in DOMAIN parts : parts[k].day # day
    PROVE  /\ WithFile(parts, day, SubSeq(ticks, m + 1, n)) \in Seq([day : Int, rows : Seq(Quotes)])
           /\ ByDay(WithFile(parts, day, SubSeq(ticks, m + 1, n)), ticks, n)
           /\ HasDay(WithFile(parts, day, SubSeq(ticks, m + 1, n)), day)
<1> DEFINE K == Len(parts)
           part == [day |-> day, rows |-> SubSeq(ticks, m + 1, n)]
           new == Append(parts, part)
           Part == [day : Int, rows : Seq(Quotes)]
<1>1. n \in Nat /\ m \in Nat /\ Len(ticks) \in Nat /\ K \in Nat /\ DOMAIN parts = 1 .. K
      /\ \A l \in 1 .. K : parts[l] \in Part
  <2>1. parts \in Seq(Part)
    OBVIOUS
  <2> HIDE DEF Part
  <2> QED
    BY <2>1, ElementOfSeq, LenProperties
<1>2. /\ \A i \in 1 .. n : DayOf(ticks[i]) \in Int
      /\ \A i, j \in 1 .. n : i <= j => DayOf(ticks[i]) <= DayOf(ticks[j])
  BY DaysIncrease
<1>3. ASSUME NEW l \in 1 .. K
      PROVE  \E first \in 1 .. m, last \in 1 .. m :
               /\ first <= last /\ parts[l].rows = SubSeq(ticks, first, last)
               /\ \A i \in 1 .. m : DayOf(ticks[i]) = parts[l].day <=> first <= i /\ i <= last
  BY <1>1 DEF ByDay
<1>4. n \in 1 .. n /\ n \in m + 1 .. n /\ DayOf(ticks[n]) = day /\ day \in Int
  BY <1>1, <1>2
<1>5. \A l \in 1 .. K : parts[l].day < day
  <2> SUFFICES ASSUME NEW l \in 1 .. K
               PROVE  parts[l].day < day
    OBVIOUS
  <2>1. PICK first \in 1 .. m, last \in 1 .. m :
          first <= last /\ \A i \in 1 .. m : DayOf(ticks[i]) = parts[l].day <=> first <= i /\ i <= last
    BY <1>3
  <2>2. first <= first /\ first \in 1 .. n /\ first <= n
    BY <1>1, <2>1
  <2>3. DayOf(ticks[first]) = parts[l].day
    BY <2>1, <2>2
  <2>4. parts[l].day <= day /\ parts[l].day # day /\ parts[l].day \in Int
    BY <1>1, <1>2, <1>4, <2>2, <2>3
  <2> QED
    BY <1>4, <2>4
<1>6. part \in Part
  <2>1. \A i \in m + 1 .. n : ticks[i] \in Quotes
    <3>1. \A i \in m + 1 .. n : i \in 1 .. Len(ticks)
      BY <1>1
    <3> QED
      BY <3>1, ElementOfSeq
  <2>2. m + 1 \in Int /\ n \in Int
    BY <1>1
  <2>3. SubSeq(ticks, m + 1, n) \in Seq(Quotes)
    BY <2>1, <2>2, SubSeqProperties
  <2> QED
    BY <1>4, <2>3
<1>7. /\ new \in Seq(Part) /\ Len(new) = K + 1 /\ DOMAIN new = 1 .. K + 1
      /\ new[K + 1] = part /\ \A l \in 1 .. K : new[l] = parts[l]
  <2>1. parts \in Seq(Part)
    OBVIOUS
  <2> HIDE DEF part, Part
  <2> QED
    BY <1>1, <1>6, <2>1, AppendProperties, LenProperties
<1>8. part.day = day /\ part.rows = SubSeq(ticks, m + 1, n)
  OBVIOUS
<1> HIDE DEF new, part, Part
<1>0. /\ DOMAIN new = 1 .. K + 1 /\ K \in Nat /\ m \in Nat /\ n \in Nat /\ m < n /\ DOMAIN parts = 1 .. K
      /\ \A l \in 1 .. K : parts[l].day # day
  <2>1. DOMAIN new = 1 .. K + 1
    BY <1>7
  <2>2. K \in Nat /\ m \in Nat /\ n \in Nat /\ m < n /\ DOMAIN parts = 1 .. K
    BY <1>1
  <2>3. \A l \in 1 .. K : parts[l].day # day
    BY <2>2 DEF HasDay
  <2> QED
    BY <2>1, <2>2, <2>3
<1> HIDE DEF K
<1>9. ByDay(new, ticks, n)
  <2>1. ASSUME NEW l \in DOMAIN new, NEW o \in DOMAIN new, l < o
        PROVE  new[l].day < new[o].day
    <3>1. CASE o = K + 1
      BY <1>0, <1>5, <1>7, <1>8, <2>1, <3>1
    <3>2. CASE o # K + 1
      <4>1. l \in 1 .. K /\ o \in 1 .. K
        BY <1>0, <2>1, <3>2, SMTT(30)
      <4> QED
        BY <1>1, <1>7, <2>1, <4>1 DEF ByDay
    <3> QED
      BY <3>1, <3>2
  <2>2. ASSUME NEW i \in 1 .. n
        PROVE  \E l \in DOMAIN new : new[l].day = DayOf(ticks[i])
    <3>1. CASE i \in 1 .. m
      <4>1. PICK l \in 1 .. K : parts[l].day = DayOf(ticks[i])
        BY <1>1, <3>1 DEF ByDay
      <4>2. l \in DOMAIN new /\ new[l] = parts[l]
        BY <1>1, <1>7
      <4> QED
        BY <4>1, <4>2
    <3>2. CASE i \notin 1 .. m
      <4>1. i \in m + 1 .. n /\ K + 1 \in DOMAIN new
        BY <1>1, <1>7, <3>2
      <4> QED
        BY <1>7, <1>8, <4>1
    <3> QED
      BY <3>1, <3>2
  <2>3. ASSUME NEW l \in DOMAIN new
        PROVE  \E a \in 1 .. n, b \in 1 .. n :
                 /\ a <= b /\ new[l].rows = SubSeq(ticks, a, b)
                 /\ \A i \in 1 .. n : DayOf(ticks[i]) = new[l].day <=> a <= i /\ i <= b
    <3>1. CASE l = K + 1
      <4>1. m + 1 \in 1 .. n /\ n \in 1 .. n /\ m + 1 <= n
        BY <1>1
      <4>2. new[l].rows = SubSeq(ticks, m + 1, n) /\ new[l].day = day
        BY <1>7, <1>8, <3>1
      <4>3. ASSUME NEW i \in 1 .. n
            PROVE  DayOf(ticks[i]) = day <=> m + 1 <= i /\ i <= n
        <5>1. CASE i \in 1 .. m
          <6>1. PICK o \in 1 .. K : parts[o].day = DayOf(ticks[i])
            BY <1>1, <5>1 DEF ByDay
          <6> QED
            BY <1>0, <5>1, <6>1
        <5>2. CASE i \notin 1 .. m
          <6>1. i \in m + 1 .. n /\ m + 1 <= i /\ i <= n
            BY <1>1, <5>2
          <6> QED
            BY <6>1
        <5> QED
          BY <5>1, <5>2
      <4> QED
        BY <4>1, <4>2, <4>3
    <3>2. CASE l # K + 1
      <4>1. l \in 1 .. K /\ new[l] = parts[l]
        BY <1>0, <1>7, <2>3, <3>2
      <4>2. PICK a \in 1 .. m, b \in 1 .. m :
               /\ a <= b /\ parts[l].rows = SubSeq(ticks, a, b)
               /\ \A i \in 1 .. m : DayOf(ticks[i]) = parts[l].day <=> a <= i /\ i <= b
        BY <1>3, <4>1
      <4>3. parts[l].day # day
        BY <1>1, <4>1
      <4>4. ASSUME NEW i \in 1 .. n
            PROVE  DayOf(ticks[i]) = parts[l].day <=> a <= i /\ i <= b
        <5>1. CASE i \in 1 .. m
          BY <4>2, <5>1
        <5>2. CASE i \notin 1 .. m
          <6>1. i \in m + 1 .. n /\ ~(i <= b)
            BY <1>1, <4>2, <5>2
          <6> QED
            BY <4>3, <6>1
        <5> QED
          BY <5>1, <5>2
      <4>5. a \in 1 .. n /\ b \in 1 .. n
        BY <1>0, <4>2
      <4>6. new[l].rows = SubSeq(ticks, a, b) /\ new[l].day = parts[l].day
        BY <4>1, <4>2
      <4> QED
        BY <4>2, <4>4, <4>5, <4>6
    <3> QED
      BY <3>1, <3>2
  <2> QED
    BY <2>1, <2>2, <2>3 DEF ByDay
<1>10. \E k \in DOMAIN new : new[k].day = day
  <2>1. K + 1 \in DOMAIN new
    BY <1>1, <1>7
  <2> QED
    BY <1>7, <1>8, <2>1
<1>11. new = WithFile(parts, day, SubSeq(ticks, m + 1, n))
  BY DEF new, part, WithFile
<1> QED
  BY <1>7, <1>9, <1>10, <1>11 DEF Part, HasDay

\* Writing out a batch leaves the files with all rows so far.
LEMMA FlushHolds ==
    ASSUME NEW ticks \in Seq(Quotes), NEW n \in 0 .. Len(ticks),
           \A i \in 2 .. n : ticks[i - 1].at <= ticks[i].at,
           NEW files, Held(files, ticks, n)
    PROVE  /\ Held(Flush(files), ticks, n)
           /\ Flush(files).batch = <<>> /\ Flush(files).day = files.day
<1> DEFINE m == n - Len(files.batch)
           new == Flush(files)
<1>1. /\ files = [parts |-> files.parts, day |-> files.day, batch |-> files.batch, open |-> files.open]
      /\ files.parts \in Seq([day : Int, rows : Seq(Quotes)])
      /\ m >= 0 /\ files.batch \in Seq(Quotes) /\ files.batch = SubSeq(ticks, m + 1, n)
      /\ \A i \in m + 1 .. n : files.day = <<DayOf(ticks[i])>>
      /\ ByDay(files.parts, ticks, m)
      /\ files.open \in BOOLEAN
      /\ files.open <=> \E k \in DOMAIN files.parts : files.day = <<files.parts[k].day>>
  BY DEF Held
<1>2. CASE files.batch = <<>>
  BY <1>2 DEF Flush
<1>3. CASE files.batch # <<>>
  <2>1. Len(files.batch) \in Nat \ {0} /\ n \in Nat /\ m \in 0 .. n - 1
    <3>1. Len(files.batch) \in Nat \ {0}
      BY <1>1, <1>3, EmptySeq
    <3> QED
      BY <1>1, <3>1, LenProperties, SMTT(30)
  <2> DEFINE day == DayOf(ticks[n])
  <2>2. /\ files.day = <<day>> /\ \A i \in m + 1 .. n : DayOf(ticks[i]) = day
        /\ DayOf(files.batch[1]) = day
    <3>1. n \in m + 1 .. n
      BY <2>1
    <3>2. files.day = <<day>>
      BY <1>1, <3>1
    <3>3. \A i \in m + 1 .. n : <<DayOf(ticks[i])>> = <<day>>
      BY <1>1, <3>2
    <3>4. \A a, b : <<a>> = <<b>> => a = b
      OBVIOUS
    <3>5. \A i \in m + 1 .. n : DayOf(ticks[i]) = day
      BY <3>3, <3>4
    <3>6. files.batch[1] = ticks[m + 1]
      <4>1. \A i \in m + 1 .. n : ticks[i] \in Quotes
        <5>1. \A i \in m + 1 .. n : i \in 1 .. Len(ticks)
          BY <2>1
        <5> QED
          BY <5>1, ElementOfSeq
      <4>2. m + 1 \in Int /\ n \in Int /\ 1 \in 1 .. n - (m + 1) + 1 /\ m + 1 + 1 - 1 = m + 1
        BY <2>1
      <4> HIDE DEF m
      <4>3. SubSeq(ticks, m + 1, n)[1] = ticks[m + 1 + 1 - 1]
        BY <4>1, <4>2, SubSeqProperties
      <4> QED
        BY <1>1, <4>2, <4>3 
    <3>7. m + 1 \in m + 1 .. n
      BY <2>1
    <3>8. DayOf(files.batch[1]) = day
      <4>1. DayOf(ticks[m + 1]) = day
        BY <3>5, <3>7
      <4> HIDE DEF m, day
      <4> QED
        BY <3>6, <4>1
    <3> QED
      BY <3>2, <3>5, <3>8
  <2> DEFINE b == SubSeq(ticks, m + 1, n)
             parts == IF files.open THEN Extended(files.parts, b) ELSE WithFile(files.parts, day, b)
  <2>3. new = [parts |-> parts, day |-> files.day, batch |-> <<>>, open |-> TRUE]
    <3>1. CASE files.open
      <4>1. new = [files EXCEPT !.parts = Extended(files.parts, b), !.batch = <<>>]
        BY <1>1, <1>3, <3>1 DEF Flush
      <4> QED
        BY <1>1, <3>1, <4>1
    <3>2. CASE ~files.open
      <4>1. new = [files EXCEPT !.parts = WithFile(files.parts, day, b), !.batch = <<>>, !.open = TRUE]
        BY <1>1, <1>3, <2>2, <3>2 DEF Flush
      <4> QED
        BY <1>1, <3>2, <4>1
    <3> QED
      BY <3>1, <3>2
  <2>4. /\ parts \in Seq([day : Int, rows : Seq(Quotes)]) /\ ByDay(parts, ticks, n)
        /\ \E k \in DOMAIN parts : parts[k].day = day
    <3> DEFINE p == files.parts
    <3>0. /\ p \in Seq([day : Int, rows : Seq(Quotes)]) /\ ByDay(p, ticks, m)
          /\ m \in 0 .. n - 1 /\ \A i \in m + 1 .. n : DayOf(ticks[i]) = day
          /\ parts = (IF files.open THEN Extended(p, b) ELSE WithFile(p, day, b))
          /\ files.open <=> \E k \in DOMAIN p : p[k].day = day
      <4>1. \A k \in DOMAIN p : files.day = <<p[k].day>> <=> p[k].day = day
        BY <2>2
      <4> QED
        BY <1>1, <2>1, <2>2, <4>1
    <3> HIDE DEF m, day, p, parts, b
    <3>1. PICK q \in 0 .. n - 1, r \in Seq([day : Int, rows : Seq(Quotes)]) : q = m /\ r = p
      BY <3>0
    <3>2. ByDay(r, ticks, q) /\ (\A i \in q + 1 .. n : DayOf(ticks[i]) = day) /\ b = SubSeq(ticks, q + 1, n)
      BY <3>0, <3>1 DEF b
    <3>3. CASE files.open
      <4>1. PICK k \in DOMAIN r : r[k].day = day
        BY <3>0, <3>1, <3>3
      <4>2. /\ Extended(r, b) \in Seq([day : Int, rows : Seq(Quotes)])
            /\ ByDay(Extended(r, b), ticks, n) /\ HasDay(Extended(r, b), day)
        BY <3>2, <4>1, ExtendFile
      <4> QED
        BY <3>0, <3>1, <3>3, <4>2 DEF HasDay
    <3>4. CASE ~files.open
      <4>1. \A k \in DOMAIN r : r[k].day # day
        BY <3>0, <3>1, <3>4
      <4>2. /\ WithFile(r, day, b) \in Seq([day : Int, rows : Seq(Quotes)])
            /\ ByDay(WithFile(r, day, b), ticks, n) /\ HasDay(WithFile(r, day, b), day)
        BY <3>2, <4>1, NewFile
      <4> QED
        BY <3>0, <3>1, <3>4, <4>2 DEF HasDay
    <3> QED
      BY <3>3, <3>4
  <2> HIDE DEF parts
  <2>5. new.parts = parts /\ new.day = files.day /\ new.batch = <<>> /\ new.open = TRUE
        /\ new = [parts |-> new.parts, day |-> new.day, batch |-> new.batch, open |-> new.open]
    BY <2>3
  <2>6. Len(<<>>) = 0 /\ n - 0 = n /\ n >= 0 /\ <<>> \in Seq(Quotes) /\ SubSeq(ticks, n + 1, n) = <<>>
    BY <2>1, EmptySeq, SubSeqEmpty
  <2>7. \A i \in n + 1 .. n : FALSE
    BY <2>1
  <2> HIDE DEF new, m, day
  <2>8. new.open <=> \E k \in DOMAIN new.parts : new.day = <<new.parts[k].day>>
    BY <2>2, <2>4, <2>5
  <2>9. Held(new, ticks, n)
    BY <2>4, <2>5, <2>6, <2>7, <2>8 DEF Held
  <2> QED
    BY <2>5, <2>9 DEF new
<1> QED
  BY <1>2, <1>3

\* The files and the batch together hold the first n rows.
Written(files, ticks, n) ==
  Held(files, ticks, n) /\ files.day = IF n = 0 THEN <<>> ELSE <<DayOf(ticks[n])>>

\* The files are ready for a row of that day.
Fitting(files, ticks, n, day) ==
  LET m == n - Len(files.batch)
  IN  /\ files = [parts |-> files.parts, day |-> files.day, batch |-> files.batch, open |-> files.open]
      /\ files.parts \in Seq([day : Int, rows : Seq(Quotes)])
      /\ m >= 0 /\ files.batch \in Seq(Quotes) /\ files.batch = SubSeq(ticks, m + 1, n)
      /\ \A i \in m + 1 .. n : DayOf(ticks[i]) = day
      /\ ByDay(files.parts, ticks, m)
      /\ files.open \in BOOLEAN
      /\ files.open <=> HasDay(files.parts, day)

\* Before the batch the files hold what was written out.
LEMMA HeldIs ==
    ASSUME NEW ticks, NEW n \in Nat, NEW files, NEW m \in Int, m = n - Len(files.batch),
           files = [parts |-> files.parts, day |-> files.day, batch |-> files.batch, open |-> files.open],
           files.parts \in Seq([day : Int, rows : Seq(Quotes)]),
           m >= 0, files.batch \in Seq(Quotes), files.batch = SubSeq(ticks, m + 1, n),
           \A i \in m + 1 .. n : files.day = <<DayOf(ticks[i])>>,
           ByDay(files.parts, ticks, m),
           files.open \in BOOLEAN,
           files.open <=> \E k \in DOMAIN files.parts : files.day = <<files.parts[k].day>>
    PROVE  Held(files, ticks, n)
BY DEF Held

\* A row of the open day is collected, and nothing else changes.
LEMMA CollectHolds ==
    ASSUME NEW ticks \in Seq(Quotes), NEW n \in 0 .. Len(ticks) - 1,
           \A i \in 2 .. n + 1 : ticks[i - 1].at <= ticks[i].at,
           NEW files, Fitting(files, ticks, n, DayOf(ticks[n + 1]))
    PROVE  Written(Collect(files, ticks[n + 1]), ticks, n + 1)
<1> DEFINE tick == ticks[n + 1]
           day == DayOf(tick)
           made == [files EXCEPT !.day = <<DayOf(tick)>>, !.batch = Append(@, tick)]
<1>0. n \in Nat /\ Len(files.batch) \in Nat
  BY LenProperties DEF Fitting
<1>s. PICK size \in Nat : size = Len(files.batch)
  BY <1>0
<1>m. PICK m \in Int : m = n - Len(files.batch)
  <2>1. n - size \in Int
    BY <1>0
  <2> QED
    BY <1>s, <2>1
<1>p. PICK put : put = made
  OBVIOUS
<1> HIDE DEF made
<1>1. /\ files = [parts |-> files.parts, day |-> files.day, batch |-> files.batch, open |-> files.open]
      /\ files.parts \in Seq([day : Int, rows : Seq(Quotes)])
      /\ m >= 0 /\ files.batch \in Seq(Quotes) /\ files.batch = SubSeq(ticks, m + 1, n)
      /\ \A i \in m + 1 .. n : DayOf(ticks[i]) = day
      /\ ByDay(files.parts, ticks, m)
      /\ files.open \in BOOLEAN
      /\ files.open <=> HasDay(files.parts, day)
  BY <1>0, <1>m DEF Fitting
<1>2. /\ n \in Nat /\ Len(ticks) \in Nat /\ Len(files.batch) \in Nat /\ n + 1 \in 0 .. Len(ticks)
      /\ n + 1 \in 1 .. Len(ticks) /\ tick \in Quotes
  <2>1. n \in Nat /\ Len(ticks) \in Nat /\ n + 1 \in 0 .. Len(ticks) /\ n + 1 \in 1 .. Len(ticks)
    BY LenProperties
  <2>2. tick \in Quotes
    BY <2>1, ElementOfSeq
  <2> QED
    BY <1>1, <2>1, <2>2, LenProperties
<1>3. /\ put.parts = files.parts /\ put.day = <<day>> /\ put.batch = Append(files.batch, tick)
      /\ put.open = files.open
      /\ put = [parts |-> put.parts, day |-> put.day, batch |-> put.batch, open |-> put.open]
  <2> DEFINE turned == [files EXCEPT !.day = <<day>>]
  <2>1. files = [parts |-> files.parts, day |-> files.day, batch |-> files.batch, open |-> files.open]
    BY <1>1
  <2>2. turned = [parts |-> files.parts, day |-> <<day>>, batch |-> files.batch, open |-> files.open]
    <3> HIDE DEF day
    <3> QED
      BY <2>1, SMTT(30)
  <2>4. put = [turned EXCEPT !.batch = Append(files.batch, tick)]
    BY <1>p, <2>1, Zenon DEF made
  <2>3. put = [parts |-> files.parts, day |-> <<day>>, batch |-> Append(files.batch, tick), open |-> files.open]
    <3> HIDE DEF day, tick, turned
    <3> QED
      BY <2>2, <2>4
  <2> HIDE DEF day, tick
  <2> QED
    BY <2>3
<1>4. /\ put.batch \in Seq(Quotes) /\ Len(put.batch) = Len(files.batch) + 1
      /\ put.batch = SubSeq(ticks, m + 1, n + 1)
  <2> HIDE DEF tick
  <2>1. PICK b \in Seq(Quotes), t \in Quotes : b = files.batch /\ t = tick
    BY <1>1, <1>2
  <2>2. Append(b, t) \in Seq(Quotes) /\ Append(b, t) = b \o <<t>> /\ Len(Append(b, t)) = Len(b) + 1
    BY AppendIsConcat, AppendProperties
  <2>3. m >= 0 /\ m \in Int /\ m <= n
    <3>1. m >= 0
      BY <1>1
    <3>2. n \in Nat /\ Len(files.batch) \in Nat
      BY <1>2
    <3> HIDE DEF tick
    <3> QED
      BY <1>m, <3>1, <3>2
  <2>4. m \in 0 .. n
    BY <1>2, <2>3
  <2>5. m + 1 \in 1 .. Len(ticks) /\ n + 1 \in m + 1 .. Len(ticks) /\ n + 1 - 1 = n
    BY <1>2, <2>4
  <2>6. PICK r \in Nat, u \in Nat : r = m + 1 /\ u = n + 1
    BY <1>2, <2>4
  <2>7. SubSeq(ticks, r, u) = SubSeq(ticks, r, u - 1) \o <<ticks[u]>>
    BY <2>5, <2>6, SubSeqRecursiveSecond
  <2>8. u - 1 = n
    BY <2>5, <2>6
  <2>9. SubSeq(ticks, m + 1, n + 1) = SubSeq(ticks, m + 1, n) \o <<tick>>
    BY <2>4, <2>6, <2>7, <2>8 DEF tick
  <2>10. files.batch = SubSeq(ticks, m + 1, n)
    BY <1>1
  <2> QED
    BY <1>3, <2>1, <2>2, <2>9, <2>10
<1>5. n + 1 - Len(put.batch) = m
  BY <1>m, <1>2, <1>4
<1>6. \A i \in m + 1 .. n + 1 : put.day = <<DayOf(ticks[i])>>
  <2> SUFFICES ASSUME NEW i \in m + 1 .. n + 1
               PROVE  DayOf(ticks[i]) = day
    BY <1>3
  <2>1. i = n + 1 \/ i \in m + 1 .. n
    BY <1>1, <1>2
  <2> QED
    BY <1>1, <2>1
<1>7. put.open <=> \E k \in DOMAIN put.parts : put.day = <<put.parts[k].day>>
  <2>1. put.open <=> \E k \in DOMAIN files.parts : files.parts[k].day = day
    BY <1>1, <1>3 DEF HasDay
  <2>2. \A k \in DOMAIN files.parts : <<day>> = <<files.parts[k].day>> <=> files.parts[k].day = day
    OBVIOUS
  <2> HIDE DEF day
  <2> QED
    BY <1>3, <2>1, <2>2
<1> DEFINE new == Collect(files, tick)
<1>8. new = (IF Len(put.batch) >= BatchSize THEN Flush(put) ELSE put)
  BY <1>p DEF Collect, made
<1> HIDE DEF day
<1>9. Held(put, ticks, n + 1)
  <2>1. ByDay(put.parts, ticks, m) /\ put.parts \in Seq([day : Int, rows : Seq(Quotes)]) /\ m >= 0
    BY <1>1, <1>3, Zenon
  <2>2. put.open \in BOOLEAN
    BY <1>1, <1>3
  <2>3. PICK p \in Nat : p = n + 1
    BY <1>2
  <2>4. m = p - Len(put.batch) /\ put.batch = SubSeq(ticks, m + 1, p) /\ put.batch \in Seq(Quotes)
    <3>1. n + 1 = p /\ put.batch = SubSeq(ticks, m + 1, n + 1) /\ m = n + 1 - Len(put.batch)
      BY <1>4, <1>5, <2>3, Zenon
    <3>2. m = p - Len(put.batch)
      BY <3>1
    <3>3. put.batch = SubSeq(ticks, m + 1, p)
      BY <3>1
    <3> QED
      BY <3>2, <3>3, <1>4
  <2>5. \A i \in m + 1 .. p : put.day = <<DayOf(ticks[i])>>
    BY <1>2, <1>6, <2>3
  <2>6. Held(put, ticks, p)
    BY <1>3, <1>7, <2>1, <2>2, <2>4, <2>5, HeldIs
  <2> QED
    BY <2>3, <2>6
<1>10. Held(Flush(put), ticks, n + 1) /\ Flush(put).day = put.day
  BY <1>2, <1>9, FlushHolds
<1>11. Held(new, ticks, n + 1) /\ new.day = <<day>>
  BY <1>3, <1>8, <1>9, <1>10
<1>12. n + 1 # 0
  BY <1>2
<1> QED
  BY <1>11, <1>12 DEF Written, day

\* Each row of an ordered source adds itself to what was written, whether the day
\* turns or not.
LEMMA PutHolds ==
    ASSUME NEW ticks \in Seq(Quotes), NEW n \in 0 .. Len(ticks) - 1,
           \A i \in 2 .. n + 1 : ticks[i - 1].at <= ticks[i].at,
           NEW files, Written(files, ticks, n)
    PROVE  Written(Put(files, ticks[n + 1]), ticks, n + 1)
<1> DEFINE day == DayOf(ticks[n + 1])
           base == IF files.day \notin {<<>>, <<day>>} THEN Close(files) ELSE files
<1>1. n \in Nat /\ Len(ticks) \in Nat /\ n \in 0 .. Len(ticks) /\ n + 1 \in 0 .. Len(ticks) /\ n + 1 \in 1 .. n + 1
  BY LenProperties
<1>2. /\ \A i \in 1 .. n + 1 : DayOf(ticks[i]) \in Int
      /\ \A i, j \in 1 .. n + 1 : i <= j => DayOf(ticks[i]) <= DayOf(ticks[j])
  BY <1>1, DaysIncrease
<1>3. \A i \in 2 .. n : ticks[i - 1].at <= ticks[i].at
  BY <1>1
<1>4. Held(files, ticks, n) /\ files.day = IF n = 0 THEN <<>> ELSE <<DayOf(ticks[n])>>
  BY DEF Written
<1> DEFINE m == n - Len(files.batch)
<1>5. /\ files = [parts |-> files.parts, day |-> files.day, batch |-> files.batch, open |-> files.open]
      /\ files.parts \in Seq([day : Int, rows : Seq(Quotes)])
      /\ m >= 0 /\ files.batch \in Seq(Quotes) /\ files.batch = SubSeq(ticks, m + 1, n)
      /\ \A i \in m + 1 .. n : files.day = <<DayOf(ticks[i])>>
      /\ ByDay(files.parts, ticks, m)
      /\ files.open \in BOOLEAN
      /\ files.open <=> \E k \in DOMAIN files.parts : files.day = <<files.parts[k].day>>
  BY <1>4 DEF Held
<1>6. ASSUME NEW x, NEW parts, NEW o \in 0 .. n, ByDay(parts, ticks, o), HasDay(parts, x)
      PROVE  \E i \in 1 .. o : DayOf(ticks[i]) = x
  <2>1. PICK k \in DOMAIN parts : parts[k].day = x
    BY <1>6 DEF HasDay
  <2>2. PICK first \in 1 .. o, last \in 1 .. o :
          first <= last /\ \A i \in 1 .. o : DayOf(ticks[i]) = parts[k].day <=> first <= i /\ i <= last
    BY <1>6, <2>1 DEF ByDay
  <2>3. first <= first
    BY <1>1, <2>2
  <2> QED
    BY <2>1, <2>2, <2>3
<1>7. Fitting(base, ticks, n, day)
  <2>1. CASE files.day = <<day>>
    <3>1. base = files
      BY <2>1
    <3>2. \A i \in m + 1 .. n : DayOf(ticks[i]) = day
      <4>1. \A i \in m + 1 .. n : <<day>> = <<DayOf(ticks[i])>>
        BY <1>5, <2>1
      <4>2. \A a, b : <<a>> = <<b>> => a = b
        OBVIOUS
      <4> QED
        BY <4>1, <4>2
    <3>3. files.open <=> HasDay(files.parts, day)
      <4>1. \A k \in DOMAIN files.parts : files.day = <<files.parts[k].day>> <=> files.parts[k].day = day
        BY <2>1
      <4> QED
        BY <1>5, <4>1 DEF HasDay
    <3> HIDE DEF day
    <3> QED
      BY <1>5, <3>1, <3>2, <3>3 DEF Fitting
  <2>2. CASE files.day = <<>>
    <3>0. \A x : <<>> # <<x>>
      OBVIOUS
    <3>1. base = files /\ n = 0
      BY <1>4, <2>2, <3>0
    <3>2. Len(files.batch) \in Nat /\ m = 0
      BY <1>1, <1>5, <3>1, LenProperties
    <3>3. ~HasDay(files.parts, day)
      BY <1>1, <1>5, <1>6, <3>1, <3>2
    <3>4. ~files.open
      BY <1>5, <2>2
    <3>5. \A i \in m + 1 .. n : FALSE
      BY <3>1, <3>2
    <3> HIDE DEF day
    <3> QED
      BY <1>5, <3>1, <3>3, <3>4, <3>5 DEF Fitting
  <2>3. CASE files.day \notin {<<>>, <<day>>}
    <3> DEFINE flushed == Flush(files)
    <3>1. Held(flushed, ticks, n) /\ flushed.batch = <<>> /\ flushed.day = files.day
      BY <1>1, <1>3, <1>4, FlushHolds
    <3> HIDE DEF flushed
    <3>2. Len(<<>>) = 0 /\ n - 0 = n
      BY <1>1
    <3>3. /\ flushed = [parts |-> flushed.parts, day |-> flushed.day, batch |-> flushed.batch, open |-> flushed.open]
          /\ flushed.parts \in Seq([day : Int, rows : Seq(Quotes)])
          /\ n >= 0 /\ flushed.batch \in Seq(Quotes) /\ flushed.batch = SubSeq(ticks, n + 1, n)
          /\ ByDay(flushed.parts, ticks, n)
      BY <3>1, <3>2 DEF Held
    <3>4. base = [flushed EXCEPT !.open = FALSE]
      BY <2>3 DEF Close, flushed
    <3> HIDE DEF base
    <3>5. /\ base.parts = flushed.parts /\ base.batch = <<>> /\ base.open = FALSE
          /\ base = [parts |-> base.parts, day |-> base.day, batch |-> base.batch, open |-> base.open]
      <4>1. base = [parts |-> flushed.parts, day |-> flushed.day, batch |-> flushed.batch, open |-> FALSE]
        BY <3>3, <3>4
      <4> QED
        BY <3>1, <4>1
    <3>6. ~HasDay(flushed.parts, day)
      <4> SUFFICES ASSUME HasDay(flushed.parts, day)
                   PROVE  FALSE
        OBVIOUS
      <4>1. PICK i \in 1 .. n : DayOf(ticks[i]) = day
        <5> HIDE DEF day
        <5>1. n \in 0 .. n
          BY <1>1
        <5> QED
          BY <5>1, <1>6, <3>3
      <4>2. n # 0 /\ files.day = <<DayOf(ticks[n])>>
        BY <1>1, <1>4, <2>3
      <4>3. DayOf(ticks[n]) # day
        BY <2>3, <4>2
      <4>4. /\ i \in 1 .. n + 1 /\ n \in 1 .. n + 1 /\ i <= n /\ n <= n + 1
        BY <1>1, <4>2
      <4>5. day <= DayOf(ticks[n]) /\ DayOf(ticks[n]) <= day /\ day \in Int /\ DayOf(ticks[n]) \in Int
        BY <1>1, <1>2, <4>1, <4>4
      <4> QED
        BY <4>3, <4>5
    <3>7. \A i \in n + 1 .. n : FALSE
      BY <1>1
    <3> HIDE DEF day
    <3> QED
      BY <3>1, <3>2, <3>3, <3>5, <3>6, <3>7 DEF Fitting
  <2> QED
    BY <2>1, <2>2, <2>3
<1>8. Put(files, ticks[n + 1]) = Collect(base, ticks[n + 1])
  BY DEF Put
<1> HIDE DEF base
<1> QED
  BY <1>7, <1>8, CollectHolds

\* Closing the files leaves nothing in the batch: every day has its file.
LEMMA CloseHolds ==
    ASSUME NEW ticks \in Seq(Quotes), NEW n \in 0 .. Len(ticks),
           \A i \in 2 .. n : ticks[i - 1].at <= ticks[i].at,
           NEW files, Written(files, ticks, n)
    PROVE  /\ Close(files).parts \in Seq([day : Int, rows : Seq(Quotes)])
           /\ ByDay(Close(files).parts, ticks, n)
<1> DEFINE flushed == Flush(files)
<1>1. Held(flushed, ticks, n) /\ flushed.batch = <<>>
  BY FlushHolds DEF Written
<1>2. n \in Nat /\ Len(<<>>) = 0 /\ n - 0 = n
  BY LenProperties
<1> HIDE DEF flushed
<1>3. /\ flushed = [parts |-> flushed.parts, day |-> flushed.day, batch |-> flushed.batch, open |-> flushed.open]
      /\ flushed.parts \in Seq([day : Int, rows : Seq(Quotes)]) /\ ByDay(flushed.parts, ticks, n)
  BY <1>1, <1>2 DEF Held
<1>4. Close(files).parts = flushed.parts
  BY <1>3 DEF Close, flushed
<1> QED
  BY <1>3, <1>4

\* In an empty directory nothing is written.
LEMMA NothingWritten == ASSUME NEW ticks PROVE Written(NoFiles, ticks, 0)
<1>1. /\ NoFiles = [parts |-> <<>>, day |-> <<>>, batch |-> <<>>, open |-> FALSE]
      /\ Len(<<>>) = 0 /\ DOMAIN <<>> = {}
  BY DEF NoFiles
<1>2. SubSeq(ticks, 1, 0) = <<>>
  BY SubSeqEmpty
<1>3. ByDay(<<>>, ticks, 0)
  BY <1>1 DEF ByDay
<1> QED
  BY <1>1, <1>2, <1>3 DEF Written, Held

\* The files read one after the other (replay.py).
Reads(g, parts) ==
  g = [k \in 0 .. Len(parts) |-> IF k = 0 THEN <<>> ELSE g[k - 1] \o parts[k].rows]

\* What is read up to a file is what a function says that adds file to file.
LEMMA RereadIs ==
    ASSUME NEW parts, Len(parts) \in Nat, NEW whole,
           whole = [k \in 0 .. Len(parts) |-> whole[k]], whole[0] = <<>>,
           \A k \in 1 .. Len(parts) : whole[k] = whole[k - 1] \o parts[k].rows
    PROVE  Reread(parts) = whole[Len(parts)]
<1> DEFINE L == Len(parts)
<1>1. ASSUME NEW g, Reads(g, parts)
      PROVE  \A k \in 0 .. L : g[k] = whole[k]
  <2> DEFINE D == {k \in 0 .. L : g[k] # whole[k]}
  <2>1. \A k \in 0 .. L : g[k] = IF k = 0 THEN <<>> ELSE g[k - 1] \o parts[k].rows
    BY <1>1, Zenon DEF Reads
  <2> SUFFICES ASSUME D # {}
               PROVE  FALSE
    OBVIOUS
  <2>2. PICK k \in D : \A x \in D : k <= x
    <3>1. D \subseteq Nat
      OBVIOUS
    <3> HIDE DEF D
    <3> QED
      BY <3>1, LeastExists
  <2>3. k \in 1 .. L /\ k - 1 \in 0 .. L
    <3>1. k # 0
      BY <2>1
    <3> QED
      BY <3>1
  <2>4. g[k - 1] = whole[k - 1]
    BY <2>2, <2>3
  <2> QED
    BY <2>1, <2>3, <2>4
<1>2. Reads(whole, parts)
  <2>1. \A k \in 0 .. L : whole[k] = IF k = 0 THEN <<>> ELSE whole[k - 1] \o parts[k].rows
    <3>1. \A k \in 0 .. L : k # 0 => k \in 1 .. Len(parts)
      OBVIOUS
    <3> QED
      BY <3>1
  <2>2. whole = [k \in 0 .. L |-> whole[k]]
    OBVIOUS
  <2> QED
    BY <2>1, <2>2 DEF Reads
<1> DEFINE read == CHOOSE g : Reads(g, parts)
<1>3. Reads(read, parts)
  BY <1>2, Zenon
<1>4. Reread(parts) = read[L]
  BY DEF Reread, Reads
<1> HIDE DEF read
<1>5. L \in 0 .. L
  OBVIOUS
<1> QED
  BY <1>1, <1>3, <1>4, <1>5

\* A replay of the files of the days reads the rows in their order.
LEMMA ReplayHolds ==
    ASSUME NEW ticks \in Seq(Quotes), \A i \in 2 .. Len(ticks) : ticks[i - 1].at <= ticks[i].at,
           NEW parts \in Seq([day : Int, rows : Seq(Quotes)]), ByDay(parts, ticks, Len(ticks))
    PROVE  Reread(parts) = ticks
<1> DEFINE n == Len(ticks)
           L == Len(parts)
           Span(k, first, last) ==
             /\ first <= last /\ parts[k].rows = SubSeq(ticks, first, last)
             /\ \A i \in 1 .. n : DayOf(ticks[i]) = parts[k].day <=> first <= i /\ i <= last
<1>1. n \in Nat /\ L \in Nat /\ DOMAIN parts = 1 .. L /\ \A k \in 1 .. L : parts[k].day \in Int
  <2> DEFINE Part == [day : Int, rows : Seq(Quotes)]
  <2>1. parts \in Seq(Part)
    OBVIOUS
  <2>2. \A p \in Part : p.day \in Int
    OBVIOUS
  <2> HIDE DEF Part
  <2> QED
    BY <2>1, <2>2, ElementOfSeq, LenProperties
<1>2. /\ \A i \in 1 .. n : DayOf(ticks[i]) \in Int
      /\ \A i, j \in 1 .. n : i <= j => DayOf(ticks[i]) <= DayOf(ticks[j])
  <2>1. n \in 0 .. Len(ticks)
    BY <1>1
  <2> QED
    BY <2>1, DaysIncrease
<1>3. /\ \A k, l \in 1 .. L : k < l => parts[k].day < parts[l].day
      /\ \A i \in 1 .. n : \E k \in 1 .. L : parts[k].day = DayOf(ticks[i])
      /\ \A k \in 1 .. L : \E first \in 1 .. n, last \in 1 .. n : Span(k, first, last)
  BY <1>1 DEF ByDay
<1> DEFINE lo == [k \in 1 .. L |-> CHOOSE first \in 1 .. n : \E last \in 1 .. n : Span(k, first, last)]
           hi == [k \in 1 .. L |-> CHOOSE last \in 1 .. n : Span(k, lo[k], last)]
<1>4. ASSUME NEW k \in 1 .. L
      PROVE  lo[k] \in 1 .. n /\ hi[k] \in 1 .. n /\ Span(k, lo[k], hi[k])
  <2> HIDE DEF Span
  <2>1. lo[k] \in 1 .. n /\ \E last \in 1 .. n : Span(k, lo[k], last)
    BY <1>3, Zenon
  <2> QED
    BY <2>1, Zenon
<1> HIDE DEF lo, hi
<1>i. ASSUME NEW k \in 1 .. L
      PROVE  /\ k \in Int /\ 1 <= k /\ k <= L /\ L \in Int /\ n \in Int
             /\ lo[k] \in Int /\ hi[k] \in Int /\ 1 <= lo[k] /\ lo[k] <= hi[k] /\ hi[k] <= n
  <2>1. lo[k] \in 1 .. n /\ hi[k] \in 1 .. n /\ lo[k] <= hi[k]
    BY <1>4
  <2> QED
    BY <1>1, <2>1
<1>5. ASSUME NEW k \in 1 .. L, NEW l \in 1 .. L, k < l
      PROVE  hi[k] < lo[l]
  <2> SUFFICES ASSUME lo[l] <= hi[k]
               PROVE  FALSE
    BY <1>1, <1>4, SMTT(30)
  <2>1. /\ lo[l] \in 1 .. n /\ hi[k] \in 1 .. n /\ lo[k] <= hi[k] /\ lo[l] <= hi[l] 
        /\ lo[k] \in 1 .. n /\ hi[l] \in 1 .. n
    BY <1>4
  <2>2. DayOf(ticks[lo[l]]) = parts[l].day /\ DayOf(ticks[hi[k]]) = parts[k].day
    <3>1. lo[l] <= lo[l] /\ hi[k] <= hi[k]
      BY <1>1, <2>1, SMTT(30)
    <3> QED
      BY <1>4, <2>1, <3>1
  <2>3. DayOf(ticks[lo[l]]) <= DayOf(ticks[hi[k]])
    BY <1>2, <2>1
  <2>4. parts[k].day < parts[l].day
    BY <1>3, <1>5
  <2> QED
    BY <1>1, <2>2, <2>3, <2>4, SMTT(30)
<1>6. ASSUME NEW i \in 1 .. n
      PROVE  \E k \in 1 .. L : lo[k] <= i /\ i <= hi[k]
  BY <1>3, <1>4
<1> HIDE DEF Span
<1>7. ASSUME NEW k \in 1 .. L
      PROVE  lo[k] = IF k = 1 THEN 1 ELSE hi[k - 1] + 1
  <2> DEFINE e == IF k = 1 THEN 1 ELSE hi[k - 1] + 1
  <2>1. /\ lo[k] \in 1 .. n /\ hi[k] \in 1 .. n /\ lo[k] <= hi[k]
    BY <1>4 DEF Span
  <2>2. e \in 1 .. n /\ e <= lo[k]
    <3>1. CASE k = 1
      BY <1>1, <2>1, <3>1
    <3>2. CASE k # 1
      <4>1. k - 1 \in 1 .. L /\ k - 1 < k
        BY <1>1, <3>2
      <4>2. hi[k - 1] < lo[k]
        BY <1>5, <4>1
      <4>3. /\ hi[k - 1] \in Int /\ 1 <= hi[k - 1] /\ lo[k] \in Int /\ lo[k] <= n /\ n \in Int
        <5>1. /\ hi[k - 1] \in Int /\ lo[k - 1] \in Int /\ 1 <= lo[k - 1] /\ lo[k - 1] <= hi[k - 1]
              /\ lo[k] \in Int /\ hi[k] \in Int /\ lo[k] <= hi[k] /\ hi[k] <= n /\ n \in Int
          BY <1>i, <4>1
        <5> QED
          BY <5>1
      <4> QED
        BY <3>2, <4>2, <4>3, SMTT(30)
    <3> QED
      BY <3>1, <3>2
  <2>3. PICK j \in 1 .. L : lo[j] <= e /\ e <= hi[j]
    BY <1>6, <2>2
  <2>4. lo[j] \in 1 .. n /\ hi[j] \in 1 .. n
    BY <1>4
  <2>5. ~(k < j)
    <3> SUFFICES ASSUME k < j
                 PROVE  FALSE
      OBVIOUS
    <3>1. hi[k] < lo[j]
      BY <1>5
    <3>2. /\ hi[k] \in Int /\ lo[j] \in Int /\ lo[k] \in Int /\ lo[k] <= hi[k] /\ e \in Int
      BY <1>i, <2>2
    <3> HIDE DEF e
    <3> QED
      BY <2>2, <2>3, <3>1, <3>2, SMTT(30)
  <2>6. ~(j < k)
    <3> SUFFICES ASSUME j < k
                 PROVE  FALSE
      OBVIOUS
    <3>1. k # 1 /\ k - 1 \in 1 .. L /\ hi[k - 1] \in 1 .. n /\ e = hi[k - 1] + 1
      <4>1. k # 1 /\ k - 1 \in 1 .. L
        BY <1>1
      <4> QED
        BY <1>4, <4>1
    <3>2. hi[j] <= hi[k - 1]
      <4>1. CASE j = k - 1
        BY <1>1, <2>4, <4>1
      <4>2. CASE j < k - 1
        <5>1. hi[j] < lo[k - 1]
          BY <1>5, <3>1, <4>2
        <5>2. hi[j] \in Int /\ lo[k - 1] \in Int /\ hi[k - 1] \in Int /\ lo[k - 1] <= hi[k - 1]
          BY <1>i, <3>1
        <5> QED
          BY <5>1, <5>2, SMTT(30)
      <4> QED
        BY <1>1, <4>1, <4>2
    <3>3. hi[j] \in Int /\ hi[k - 1] \in Int
      BY <1>i, <3>1
    <3>4. hi[k - 1] + 1 <= hi[j]
      BY <2>3, <3>1
    <3>5. PICK here \in Int : here = hi[j]
      BY <3>3
    <3>6. PICK before \in Int : before = hi[k - 1]
      BY <3>3
    <3>7. here <= before
      BY <3>2, <3>5, <3>6, Zenon
    <3>8. before + 1 <= here
      BY <3>4, <3>5, <3>6, Zenon
    <3> QED
      BY <3>7, <3>8
  <2>7. j = k
    BY <1>1, <2>5, <2>6
  <2> HIDE DEF e
  <2>8. lo[k] = e
    BY <1>1, <2>1, <2>2, <2>3, <2>7
  <2> QED
    BY <2>8 DEF e
<1>8. IF L = 0 THEN n = 0 ELSE hi[L] = n
  <2>1. CASE L = 0
    <3>1. n \notin 1 .. n
      BY <1>1, <1>6, <2>1
    <3> QED
      BY <1>1, <2>1, <3>1
  <2>2. CASE L # 0
    <3>1. L \in 1 .. L /\ hi[L] \in 1 .. n
      BY <1>1, <1>4, <2>2
    <3>2. PICK j \in 1 .. L : lo[j] <= n /\ n <= hi[j]
      <4>1. n \in 1 .. n
        BY <1>1, <3>1
      <4> QED
        BY <1>6, <4>1
    <3>3. hi[j] \in 1 .. n
      BY <1>4
    <3>4. j < L => hi[j] < lo[L] /\ lo[L] \in 1 .. n
      BY <1>4, <1>5, <3>1
    <3>5. j = L
      <4>1. /\ hi[j] \in Int /\ lo[L] \in Int /\ lo[L] <= hi[L] /\ hi[L] <= n /\ hi[L] \in Int /\ n \in Int
            /\ j \in Int /\ j <= L /\ L \in Int
        BY <1>i, <3>1
      <4> QED
        BY <3>2, <3>4, <4>1, SMTT(30)
    <3> QED
      BY <1>1, <2>2, <3>1, <3>2, <3>5
  <2> QED
    BY <2>1, <2>2
<1> DEFINE end(k) == IF k = 0 THEN 0 ELSE hi[k]
           whole == [k \in 0 .. L |-> SubSeq(ticks, 1, end(k))]
<1>9. whole[0] = <<>>
  <2>1. 0 \in 0 .. L
    BY <1>1
  <2>2. whole[0] = SubSeq(ticks, 1, 0)
    BY <2>1
  <2> QED
    BY <2>2, SubSeqEmpty
<1>10. ASSUME NEW k \in 1 .. L
       PROVE  whole[k] = whole[k - 1] \o parts[k].rows
  <2>1. /\ k \in 0 .. L /\ k - 1 \in 0 .. L /\ end(k) = hi[k] /\ lo[k] \in 1 .. n /\ hi[k] \in 1 .. n
        /\ lo[k] <= hi[k] /\ parts[k].rows = SubSeq(ticks, lo[k], hi[k])
    <3>1. k \in 0 .. L /\ k - 1 \in 0 .. L /\ k # 0
      BY <1>1
    <3>2. end(k) = hi[k]
      BY <3>1
    <3>3. lo[k] \in 1 .. n /\ hi[k] \in 1 .. n /\ Span(k, lo[k], hi[k])
      BY <1>4
    <3>4. lo[k] <= hi[k] /\ parts[k].rows = SubSeq(ticks, lo[k], hi[k])
      BY <3>3 DEF Span
    <3> QED
      BY <3>1, <3>2, <3>3, <3>4
  <2>2. end(k - 1) = lo[k] - 1
    <3>1. CASE k = 1
      BY <1>7, <3>1
    <3>2. CASE k # 1
      <4>1. k - 1 \in 1 .. L
        BY <1>1, <3>2
      <4>2. hi[k - 1] \in 1 .. n /\ lo[k] = hi[k - 1] + 1
        BY <1>4, <1>7, <3>2, <4>1
      <4> QED
        BY <1>1, <4>1, <4>2, SMTT(30)
    <3> QED
      BY <3>1, <3>2
  <2>3. whole[k] = SubSeq(ticks, 1, hi[k]) /\ whole[k - 1] = SubSeq(ticks, 1, lo[k] - 1)
    <3>1. whole[k] = SubSeq(ticks, 1, end(k)) /\ whole[k - 1] = SubSeq(ticks, 1, end(k - 1))
      BY <2>1, Zenon
    <3> HIDE DEF whole, end
    <3> QED
      BY <2>1, <2>2, <3>1
  <2> HIDE DEF whole, end
  <2>4. PICK a \in 1 .. n, b \in 1 .. n : a = lo[k] /\ b = hi[k]
    BY <2>1
  <2>5. a <= b
    BY <2>1, <2>4
  <2>6. SubSeq(ticks, 1, b) = SubSeq(ticks, 1, a - 1) \o SubSeq(ticks, a, b)
    <3>1. 1 \in 1 .. Len(ticks) + 1 /\ a - 1 \in 1 - 1 .. Len(ticks) /\ b \in a - 1 .. Len(ticks) /\ a - 1 + 1 = a
      BY <1>1, <2>5, SMTT(30)
    <3>2. SubSeq(ticks, 1, a - 1) \o SubSeq(ticks, a - 1 + 1, b) = SubSeq(ticks, 1, b)
      BY <3>1, ConcatAdjacentSubSeq
    <3> QED
      BY <3>1, <3>2
  <2> QED
    BY <2>1, <2>3, <2>4, <2>6
<1>11. Reread(parts) = whole[L]
  <2>1. whole = [k \in 0 .. Len(parts) |-> whole[k]]
    BY Zenon
  <2> HIDE DEF whole
  <2> QED
    BY <1>1, <1>9, <1>10, <2>1, RereadIs
<1>12. whole[L] = SubSeq(ticks, 1, n)
  <2>1. whole[L] = SubSeq(ticks, 1, end(L))
    <3>1. L \in 0 .. L
      BY <1>1
    <3> HIDE DEF end, L
    <3> QED
      BY <3>1, Zenon
  <2>2. end(L) = n
    BY <1>8
  <2> QED
    <3> HIDE DEF end, whole
    <3> QED
      BY <2>1, <2>2
<1> QED
  BY <1>11, <1>12, SubSeqFull

-----------------------------------------------------------------------------
(* Data sets: the sources                                                  *)

\* The sources a call can be given: typed rows, and of the JForex exporter a finite
\* folder of batches that end after they begin
\* (ScalpForgeHistoricalExporter.java:90-102).
TickRow == [at : Int, own : BOOLEAN, bid : Int, ask : Int]
SideRow == [at : Int, price : Int, flat : BOOLEAN]
TradeRow == [ticket : Int, opened : Int, closed : Int, entry : Int, exit : Int]
ExportedBatch == [from : Int, to : Int, ticks : Seq(Quotes), count : Nat]
Sourced ==
  \/ kind = "ticks" /\ source \in Seq(TickRow)
  \/ kind = "merge" /\ source \in [asks : Seq(SideRow), bids : Seq(SideRow)]
  \/ kind = "trades" /\ source \in Seq(TradeRow)
  \/ /\ kind = "jforex" /\ source \in [folder : SUBSET ExportedBatch, from : Int, to : Int]
     /\ IsFiniteSet(source.folder) /\ \A b \in source.folder : b.from < b.to

\* The rows of a file are ticks, one for each.
LEMMA TicksIn ==
    ASSUME NEW file \in Seq(TickRow)
    PROVE  /\ Ticks(file, Zone) \in Seq(Quotes) /\ Len(Ticks(file, Zone)) = Len(file)
           /\ \A i \in 1 .. Len(file) : Ticks(file, Zone)[i] = Tick(file[i], Zone)
<1>1. Len(file) \in Nat /\ DOMAIN file = 1 .. Len(file)
  BY LenProperties
<1>2. ASSUME NEW i \in 1 .. Len(file)
      PROVE  Tick(file[i], Zone) \in Quotes
  <2>1. file[i] \in TickRow
    BY ElementOfSeq
  <2> QED
    BY <2>1, ZoneAssumption DEF Tick, Utc, Quotes, TickRow
<1>3. Ticks(file, Zone) = [i \in 1 .. Len(file) |-> Tick(file[i], Zone)]
  BY <1>1 DEF Ticks
<1> QED
  BY <1>1, <1>2, <1>3

\* Two exports that can be merged give one tick for each pair of rows.
LEMMA MergedIn ==
    ASSUME NEW asks \in Seq(SideRow), NEW bids \in Seq(SideRow), CanMerge(asks, bids)
    PROVE  /\ Merged(asks, bids) \in Seq(Quotes) /\ Len(Merged(asks, bids)) = Len(asks)
           /\ \A i \in 1 .. Len(asks) :
                Merged(asks, bids)[i] = [at |-> bids[i].at, ask |-> asks[i].price, bid |-> bids[i].price]
<1>1. Len(asks) \in Nat /\ DOMAIN asks = 1 .. Len(asks) /\ Len(bids) = Len(asks)
  BY LenProperties DEF CanMerge
<1> DEFINE M(i) == [at |-> asks[i].at, bid |-> bids[i].price, ask |-> asks[i].price]
<1>2. ASSUME NEW i \in 1 .. Len(asks)
      PROVE  M(i) \in Quotes /\ asks[i].at = bids[i].at
  <2>1. asks[i] \in SideRow /\ bids[i] \in SideRow
    BY <1>1, ElementOfSeq
  <2>2. asks[i].at = bids[i].at
    BY <1>1 DEF CanMerge
  <2> QED
    BY <2>1, <2>2 DEF Quotes, SideRow
<1>3. Merged(asks, bids) = [i \in 1 .. Len(asks) |-> M(i)]
  BY <1>1 DEF Merged
<1>4. Merged(asks, bids) \in Seq(Quotes) /\ Len(Merged(asks, bids)) = Len(asks)
  <2> HIDE DEF M
  <2> QED
    BY <1>1, <1>2, <1>3
<1> QED
  BY <1>1, <1>2, <1>3, <1>4

\* Batches that do not overlap list each of their rows.
LEMMA BatchRowsIn ==
    ASSUME NEW batches, IsFiniteSet(batches), batches \subseteq ExportedBatch,
           \A b \in batches : b.from < b.to,
           \A a, b \in batches : a # b => a.to <= b.from \/ b.to <= a.from
    PROVE  \E N \in Nat :
             /\ DOMAIN BatchRows(batches) = 1 .. N
             /\ \A i \in 1 .. N : /\ BatchRows(batches)[i] \in AllRows(batches)
                                  /\ BatchRows(batches)[i].tick \in Quotes
<1> DEFINE S == AllRows(batches)
           R == EarlierRows(batches)
<1>1. ASSUME NEW b \in batches
      PROVE  /\ Len(b.ticks) \in Nat /\ DOMAIN b.ticks = 1 .. Len(b.ticks) /\ b.from \in Int /\ b.to \in Int
             /\ \A i \in DOMAIN b.ticks : b.ticks[i] \in Quotes
  <2>1. b.ticks \in Seq(Quotes) /\ b.from \in Int /\ b.to \in Int
    BY DEF ExportedBatch
  <2>2. PICK t \in Seq(Quotes) : t = b.ticks
    BY <2>1
  <2>3. Len(t) \in Nat /\ DOMAIN t = 1 .. Len(t) /\ \A i \in DOMAIN t : t[i] \in Quotes
    BY ElementOfSeq, LenProperties
  <2> QED
    BY <2>1, <2>2, <2>3
<1>2. ASSUME NEW b \in batches
      PROVE  IsFiniteSet(RowsOf(b))
  <2> DEFINE f == [i \in DOMAIN b.ticks |-> [batch |-> b, i |-> i, tick |-> b.ticks[i]]]
  <2>1. IsFiniteSet(DOMAIN b.ticks)
    <3>1. PICK k \in Nat : DOMAIN b.ticks = 1 .. k
      BY <1>1
    <3>2. IsFiniteSet(1 .. k)
      BY FS_Interval
    <3> QED
      BY <3>1, <3>2, Zenon
  <2>2. f \in Surjection(DOMAIN b.ticks, RowsOf(b))
    BY DEF Surjection, RowsOf
  <2> HIDE DEF f
  <2> QED
    BY <2>1, <2>2, FS_Surjection
<1>3. IsFiniteSet(S)
  <2> DEFINE F == {RowsOf(b) : b \in batches}
  <2>1. IsFiniteSet(F)
    <3> DEFINE f == [b \in batches |-> RowsOf(b)]
    <3>1. f \in Surjection(batches, F)
      BY DEF Surjection
    <3> HIDE DEF f, F
    <3> QED
      BY <3>1, FS_Surjection
  <2>2. \A x \in F : IsFiniteSet(x)
    BY <1>2
  <2>3. S = UNION F
    BY DEF AllRows
  <2> HIDE DEF F, S
  <2> QED
    BY <2>1, <2>2, <2>3, FS_UNION
<1>4. ASSUME NEW x \in S
      PROVE  /\ x.batch \in batches /\ x.batch.from \in Int /\ x.batch.to \in Int /\ x.i \in Nat
             /\ x = [batch |-> x.batch, i |-> x.i, tick |-> x.batch.ticks[x.i]] /\ x.tick \in Quotes
  <2>1. PICK b \in batches : x \in RowsOf(b)
    BY DEF AllRows
  <2>2. PICK i \in DOMAIN b.ticks : x = [batch |-> b, i |-> i, tick |-> b.ticks[i]]
    BY <2>1 DEF RowsOf
  <2>3. x.batch = b /\ x.i = i /\ x.tick = b.ticks[i]
    BY <2>2
  <2>4. i \in Nat /\ b.ticks[i] \in Quotes /\ b.from \in Int /\ b.to \in Int
    BY <1>1
  <2> QED
    BY <2>2, <2>3, <2>4
<1>5. ASSUME NEW x \in S, NEW y \in S
      PROVE  <<x, y>> \in R <=> \/ x.batch.from < y.batch.from
                                \/ x.batch.from = y.batch.from /\ x.i < y.i
  BY DEF EarlierRows
<1>6. ASSUME NEW x \in S, NEW y \in S, x.batch.from = y.batch.from, x.i = y.i
      PROVE  x = y
  <2>1. /\ x.batch \in batches /\ y.batch \in batches /\ x.batch.from \in Int /\ x.batch.to \in Int
        /\ y.batch.from \in Int /\ y.batch.to \in Int
    BY <1>4
  <2>2. x.batch.from < x.batch.to /\ y.batch.from < y.batch.to
    BY <2>1
  <2>3. x.batch = y.batch
    BY <1>6, <2>1, <2>2
  <2>4. /\ x = [batch |-> x.batch, i |-> x.i, tick |-> x.batch.ticks[x.i]]
        /\ y = [batch |-> y.batch, i |-> y.i, tick |-> y.batch.ticks[y.i]]
    BY <1>4
  <2> QED
    BY <1>6, <2>3, <2>4
<1> HIDE DEF S, R
<1>7. \A x \in S : <<x, x>> \notin R
  BY <1>4, <1>5
<1>8. \A x, y, z \in S : <<x, y>> \in R /\ <<y, z>> \in R => <<x, z>> \in R
  <2> SUFFICES ASSUME NEW x \in S, NEW y \in S, NEW z \in S, <<x, y>> \in R, <<y, z>> \in R
               PROVE  <<x, z>> \in R
    OBVIOUS
  <2>1. /\ x.batch.from \in Int /\ x.i \in Int /\ y.batch.from \in Int /\ y.i \in Int
        /\ z.batch.from \in Int /\ z.i \in Int
    BY <1>4
  <2>2. \/ x.batch.from < y.batch.from
        \/ x.batch.from = y.batch.from /\ x.i < y.i
    BY <1>5
  <2>3. \/ y.batch.from < z.batch.from
        \/ y.batch.from = z.batch.from /\ y.i < z.i
    BY <1>5
  <2>4. \/ x.batch.from < z.batch.from
        \/ x.batch.from = z.batch.from /\ x.i < z.i
    BY <2>1, <2>2, <2>3
  <2> QED
    BY <1>5, <2>4
<1>9. \A x, y \in S : x # y => <<x, y>> \in R \/ <<y, x>> \in R
  <2> SUFFICES ASSUME NEW x \in S, NEW y \in S, x # y
               PROVE  <<x, y>> \in R \/ <<y, x>> \in R
    OBVIOUS
  <2>1. /\ x.batch.from \in Int /\ x.i \in Int /\ y.batch.from \in Int /\ y.i \in Int
    BY <1>4
  <2>2. ~(x.batch.from = y.batch.from /\ x.i = y.i)
    BY <1>6
  <2> QED
    BY <1>5, <2>1, <2>2
<1>10. /\ Cardinality(S) \in Nat /\ DOMAIN InOrder(S, R) = 1 .. Cardinality(S)
       /\ \A n \in 1 .. Cardinality(S) : InOrder(S, R)[n] \in S
  BY <1>3, <1>7, <1>8, <1>9, InOrderIs
<1>11. BatchRows(batches) = InOrder(S, R)
  BY DEF BatchRows, S, R
<1>12. \A i \in 1 .. Cardinality(S) : BatchRows(batches)[i] \in S /\ BatchRows(batches)[i].tick \in Quotes
  BY <1>4, <1>10, <1>11
<1> QED
  BY <1>10, <1>11, <1>12 DEF S

\* Whatever the source, the rows of an accepted one are ticks; only those of the JForex
\* batches may still be out of order, and are validated while they are written.
LEMMA RowsIn ==
    ASSUME Sourced, SourceOk, kind # "trades"
    PROVE  /\ Rows \in Seq(Quotes)
           /\ kind # "jforex" => \A i \in 2 .. Len(Rows) : Rows[i - 1].at <= Rows[i].at
           /\ kind = "jforex" => \A i \in 1 .. Len(Rows) : Rows[i] = BatchRows(Batches)[i].tick
<1>1. CASE kind = "ticks"
  <2>1. source \in Seq(TickRow) /\ Rows = Ticks(source, Zone) /\ Acceptable(Rows)
    BY <1>1 DEF Sourced, Rows, SourceOk
  <2> QED
    BY <1>1, <2>1, TicksIn DEF Acceptable, Ordered
<1>2. CASE kind = "merge"
  <2>1. source \in [asks : Seq(SideRow), bids : Seq(SideRow)] /\ Acceptable(Rows)
    BY <1>2 DEF Sourced, SourceOk
  <2>2. Rows = IF CanMerge(source.asks, source.bids) THEN Merged(source.asks, source.bids) ELSE <<>>
    BY <1>2 DEF Rows
  <2>3. PICK asks \in Seq(SideRow), bids \in Seq(SideRow) : asks = source.asks /\ bids = source.bids
    BY <2>1
  <2>4. Rows = Merged(asks, bids) /\ CanMerge(asks, bids)
    BY <2>1, <2>2, <2>3 DEF Acceptable
  <2> QED
    BY <1>2, <2>1, <2>4, MergedIn DEF Acceptable, Ordered
<1>3. CASE kind = "jforex"
  <2>1. /\ source \in [folder : SUBSET ExportedBatch, from : Int, to : Int]
        /\ IsFiniteSet(source.folder) /\ \A b \in source.folder : b.from < b.to
        /\ BatchesOk(source.folder)
    BY <1>3 DEF Sourced, SourceOk
  <2>2. Batches \subseteq source.folder
    BY DEF Batches, InRange
  <2>3. Batches \subseteq ExportedBatch /\ IsFiniteSet(Batches) /\ \A b \in Batches : b.from < b.to
    BY <2>1, <2>2, FS_Subset
  <2>4. \A a, b \in Batches : a # b => a.to <= b.from \/ b.to <= a.from
    BY <2>1, <2>2 DEF BatchesOk
  <2>5. PICK N \in Nat :
             /\ DOMAIN BatchRows(Batches) = 1 .. N
             /\ \A i \in 1 .. N : /\ BatchRows(Batches)[i] \in AllRows(Batches)
                                  /\ BatchRows(Batches)[i].tick \in Quotes
    BY <2>3, <2>4, BatchRowsIn
  <2>6. Rows = [i \in 1 .. N |-> BatchRows(Batches)[i].tick]
    BY <1>3, <2>5 DEF Rows
  <2> QED
    BY <1>3, <2>5, <2>6
<1> QED
  BY <1>1, <1>2, <1>3 DEF Sourced

\* Of a trade history one row counts for each ticket, in the order of opening.
LEMMA HistoryIs ==
    ASSUME NEW rows \in Seq(TradeRow)
    PROVE  /\ Len(History(rows)) \in Nat /\ DOMAIN History(rows) = 1 .. Len(History(rows))
           /\ Range(History(rows)) \subseteq Range(rows)
           /\ {t.ticket : t \in Range(rows)} = {t.ticket : t \in Range(History(rows))}
           /\ \A i, j \in DOMAIN History(rows) : i < j =>
                /\ History(rows)[i].ticket # History(rows)[j].ticket
                /\ History(rows)[i].opened <= History(rows)[j].opened
           /\ HistoryStats(rows).rows = Len(History(rows))
<1> DEFINE S == FirstRows(rows)
           R == EarlierTrades(rows)
           h == History(rows)
           N == Cardinality(S)
<1>1. Len(rows) \in Nat /\ DOMAIN rows = 1 .. Len(rows) /\ \A i \in 1 .. Len(rows) : rows[i] \in TradeRow
  BY ElementOfSeq, LenProperties
<1>2. IsFiniteSet(S) /\ S \subseteq 1 .. Len(rows)
  <2>1. S \subseteq 1 .. Len(rows)
    BY <1>1 DEF FirstRows
  <2>2. IsFiniteSet(1 .. Len(rows))
    BY <1>1, FS_Interval
  <2> QED
    BY <2>1, <2>2, FS_Subset
<1>3. ASSUME NEW i \in S
      PROVE  i \in Int /\ rows[i].opened \in Int /\ rows[i].ticket \in Int
  BY <1>1, <1>2, SMTT(30) DEF TradeRow
<1>4. ASSUME NEW i \in S, NEW j \in S, rows[i].ticket = rows[j].ticket
      PROVE  i = j
  <2>1. ~(i < j) /\ ~(j < i)
    BY <1>1, <1>2, <1>4 DEF FirstRows
  <2> QED
    BY <1>3, <2>1
<1>5. ASSUME NEW i \in S, NEW j \in S
      PROVE  <<i, j>> \in R <=>
               (\/ rows[i].opened < rows[j].opened
                \/ rows[i].opened = rows[j].opened /\ rows[i].ticket < rows[j].ticket)
  BY DEF EarlierTrades
<1> HIDE DEF S, R
<1>6. \A x \in S : <<x, x>> \notin R
  BY <1>3, <1>5
<1>7. \A x, y, z \in S : <<x, y>> \in R /\ <<y, z>> \in R => <<x, z>> \in R
  <2> SUFFICES ASSUME NEW x \in S, NEW y \in S, NEW z \in S, <<x, y>> \in R, <<y, z>> \in R
               PROVE  <<x, z>> \in R
    OBVIOUS
  <2>1. /\ rows[x].opened \in Int /\ rows[x].ticket \in Int /\ rows[y].opened \in Int
        /\ rows[y].ticket \in Int /\ rows[z].opened \in Int /\ rows[z].ticket \in Int
    BY <1>3
  <2>2. \/ rows[x].opened < rows[y].opened
        \/ rows[x].opened = rows[y].opened /\ rows[x].ticket < rows[y].ticket
    BY <1>5
  <2>3. \/ rows[y].opened < rows[z].opened
        \/ rows[y].opened = rows[z].opened /\ rows[y].ticket < rows[z].ticket
    BY <1>5
  <2>4. \/ rows[x].opened < rows[z].opened
        \/ rows[x].opened = rows[z].opened /\ rows[x].ticket < rows[z].ticket
    BY <2>1, <2>2, <2>3
  <2> QED
    BY <1>5, <2>4
<1>8. \A x, y \in S : x # y => <<x, y>> \in R \/ <<y, x>> \in R
  <2> SUFFICES ASSUME NEW x \in S, NEW y \in S, x # y
               PROVE  <<x, y>> \in R \/ <<y, x>> \in R
    OBVIOUS
  <2>1. /\ rows[x].opened \in Int /\ rows[x].ticket \in Int /\ rows[y].opened \in Int
        /\ rows[y].ticket \in Int
    BY <1>3
  <2>2. rows[x].ticket # rows[y].ticket
    BY <1>4
  <2> QED
    BY <1>5, <2>1, <2>2
<1> DEFINE order == InOrder(S, R)
<1>9. /\ N \in Nat /\ DOMAIN order = 1 .. N
      /\ \A n \in 1 .. N : order[n] \in S
      /\ \A x \in S : \E n \in 1 .. N : order[n] = x
      /\ \A m, n \in 1 .. N : m < n => <<order[m], order[n]>> \in R
  BY <1>2, <1>6, <1>7, <1>8, InOrderIs
<1>10. h = [n \in 1 .. N |-> rows[order[n]]]
  <2>1. h = [n \in DOMAIN order |-> rows[order[n]]]
    BY DEF History, S, R
  <2> HIDE DEF order, h, N
  <2> QED
    BY <1>9, <2>1
<1> HIDE DEF order, h, N
<1>11. Len(h) = N /\ DOMAIN h = 1 .. N /\ \A n \in 1 .. N : h[n] = rows[order[n]]
  BY <1>9, <1>10
<1>12. Range(h) \subseteq Range(rows)
  <2>1. ASSUME NEW n \in 1 .. N
        PROVE  \E i \in 1 .. Len(rows) : h[n] = rows[i]
    BY <1>2, <1>9, <1>11
  <2> QED
    BY <1>1, <1>11, <2>1 DEF Range
<1>13. {t.ticket : t \in Range(rows)} = {t.ticket : t \in Range(h)}
  <2>1. ASSUME NEW t \in Range(rows)
        PROVE  \E u \in Range(h) : u.ticket = t.ticket
    <3>1. PICK i \in 1 .. Len(rows) : t = rows[i]
      BY <1>1 DEF Range
    <3> DEFINE D == {k \in 1 .. Len(rows) : rows[k].ticket = t.ticket}
    <3>2. PICK k \in D : \A x \in D : k <= x
      <4>1. D \subseteq Nat /\ D # {}
        BY <3>1
      <4> HIDE DEF D
      <4> QED
        BY <4>1, LeastExists
    <3>3. k \in S
      <4>1. \A l \in 1 .. Len(rows) : l < k => rows[l].ticket # rows[k].ticket
        BY <1>1, <3>2
      <4> QED
        BY <1>1, <4>1 DEF S, FirstRows
    <3>4. PICK n \in 1 .. N : order[n] = k
      BY <1>9, <3>3
    <3>5. h[n] = rows[k] /\ h[n] \in Range(h)
      BY <1>11, <3>4 DEF Range
    <3> QED
      BY <3>2, <3>5
  <2> QED
    BY <1>12, <2>1
<1>14. ASSUME NEW i \in 1 .. N, NEW j \in 1 .. N, i < j
       PROVE  h[i].ticket # h[j].ticket /\ h[i].opened <= h[j].opened
  <2>1. order[i] \in S /\ order[j] \in S /\ <<order[i], order[j]>> \in R
    BY <1>9, <1>14
  <2>2. PICK x \in S, y \in S : x = order[i] /\ y = order[j] /\ <<x, y>> \in R
    BY <2>1
  <2>3. x # y
    BY <1>6, <2>2
  <2>4. rows[x].ticket # rows[y].ticket
    BY <1>4, <2>3
  <2>5. rows[x].opened \in Int /\ rows[y].opened \in Int
    BY <1>3
  <2>6. rows[x].opened <= rows[y].opened
    BY <1>5, <2>2, <2>5, SMTT(30)
  <2> QED
    BY <1>11, <2>2, <2>4, <2>6
<1>15. HistoryStats(rows).rows = Len(h)
  BY DEF HistoryStats, h
<1> QED
  BY <1>9, <1>11, <1>12, <1>13, <1>14, <1>15 DEF h

\* The importer of the backtests accepts a published file if all its times have an
\* offset of their own and none comes twice.
LEMMA UsableIs ==
    ASSUME NEW rows \in Seq(TickRow), Acceptable(Ticks(rows, Zone))
    PROVE  IsUsable(rows) <=> \A i \in DOMAIN rows :
                                /\ rows[i].own
                                /\ \A k \in DOMAIN rows : k # i => rows[k].at # rows[i].at
<1> DEFINE n == Len(rows)
           kept == Imported(rows)
           Precedes(k, i) == k < i /\ \A m \in kept : m < i => m <= k
           back == {i \in kept : \E k \in kept : Precedes(k, i) /\ rows[i].at < rows[k].at}
           twice == {i \in kept : \E k \in kept : k < i /\ rows[k].at = rows[i].at}
<1>1. n \in Nat /\ DOMAIN rows = 1 .. n /\ \A i \in 1 .. n : rows[i] \in TickRow
  BY ElementOfSeq, LenProperties
<1>2. IsFiniteSet(1 .. n) /\ Cardinality(1 .. n) = n
  <2>1. \A k \in Nat : IsFiniteSet(1 .. k) /\ Cardinality(1 .. k) = k
    BY FS_Interval
  <2> QED
    BY <1>1, <2>1
<1>3. kept \subseteq 1 .. n /\ \A i \in 1 .. n : i \in kept <=> rows[i].own
  <2>1. \A i \in 1 .. n : QuoteOk(Tick(rows[i], Zone))
    <3>1. DOMAIN Ticks(rows, Zone) = 1 .. n /\ \A i \in 1 .. n : Ticks(rows, Zone)[i] = Tick(rows[i], Zone)
      BY <1>1 DEF Ticks
    <3> QED
      BY <3>1 DEF Acceptable
  <2>2. \A i \in 1 .. n : QuoteOk(rows[i])
    BY <2>1 DEF QuoteOk, Tick
  <2> QED
    BY <1>1, <2>2 DEF Imported
<1> HIDE DEF kept
<1>4. kept \in SUBSET (1 .. n) /\ back \in SUBSET (1 .. n) /\ twice \in SUBSET (1 .. n)
  BY <1>3
<1>5. ImportErrors(rows) = (n - Cardinality(kept)) + Cardinality(back) + Cardinality(twice)
  BY DEF ImportErrors, kept
<1> HIDE DEF back, twice
<1>6. /\ IsFiniteSet(kept) /\ IsFiniteSet(back) /\ IsFiniteSet(twice)
      /\ Cardinality(kept) <= n /\ (Cardinality(kept) = n => kept = 1 .. n)
  BY <1>2, <1>4, FS_Subset
<1>7. Cardinality(kept) \in Nat /\ Cardinality(back) \in Nat /\ Cardinality(twice) \in Nat
  BY <1>6, FS_CardinalityType
<1>8. IsUsable(rows) <=> Cardinality(kept) = n /\ Cardinality(back) = 0 /\ Cardinality(twice) = 0
  BY <1>1, <1>5, <1>6, <1>7 DEF IsUsable
<1>9. (Cardinality(back) = 0 <=> back = {}) /\ (Cardinality(twice) = 0 <=> twice = {})
  BY <1>6, FS_EmptySet
<1>10. IsUsable(rows) <=> kept = 1 .. n /\ back = {} /\ twice = {}
  BY <1>2, <1>6, <1>8, <1>9
<1>11. kept = 1 .. n <=> \A i \in 1 .. n : rows[i].own
  BY <1>3
<1>12. ASSUME \A i \in 1 .. n : rows[i].own
       PROVE  back = {}
  <2> SUFFICES ASSUME NEW i \in 1 .. n, NEW k \in 1 .. n, Precedes(k, i), rows[i].at < rows[k].at
               PROVE  FALSE
    BY <1>3 DEF back
  <2>1. kept = 1 .. n
    BY <1>11, <1>12
  <2>2. i \in Int /\ k \in Int /\ 1 <= k /\ i <= n /\ n \in Int /\ k < i
    BY <1>1
  <2>3. i - 1 \in 1 .. n /\ i - 1 < i
    BY <2>2
  <2>4. i - 1 <= k
    BY <2>1, <2>3
  <2>5. k = i - 1 /\ i \in 2 .. n
    BY <2>2, <2>4
  <2>6. /\ DOMAIN Ticks(rows, Zone) = 1 .. n /\ Len(Ticks(rows, Zone)) = n
        /\ \A j \in 1 .. n : Ticks(rows, Zone)[j] = Tick(rows[j], Zone)
    BY <1>1, TicksIn DEF Ticks
  <2>7. Tick(rows[i - 1], Zone).at <= Tick(rows[i], Zone).at
    BY <2>3, <2>5, <2>6 DEF Acceptable, Ordered
  <2>8. rows[i - 1].at <= rows[i].at
    BY <1>12, <2>3, <2>7 DEF Tick, Utc
  <2>9. rows[i].at \in Int /\ rows[k].at \in Int
    BY <1>1 DEF TickRow
  <2> QED
    BY <2>5, <2>8, <2>9
<1>13. ASSUME kept = 1 .. n
       PROVE  twice = {} <=> \A i, k \in 1 .. n : k # i => rows[k].at # rows[i].at
  <2>1. \A i, k \in 1 .. n : k # i => k < i \/ i < k
    BY <1>1
  <2>2. \A i, k \in 1 .. n : k < i => k # i
    BY <1>1
  <2> QED
    BY <1>13, <2>1, <2>2 DEF twice
<1> QED
  BY <1>1, <1>10, <1>11, <1>12, <1>13

-----------------------------------------------------------------------------
(* Data sets: what is written                                              *)

\* The content: what a complete data set holds, and what its manifest counts.
Ascending(n) == \A i \in 2 .. n : Rows[i - 1].at <= Rows[i].at
Complete(files) ==
  IF kind = "trades" THEN files.parts = <<[day |-> 0, rows |-> History(source)]>>
  ELSE /\ files.parts \in Seq([day : Int, rows : Seq(Quotes)])
       /\ ByDay(files.parts, Rows, Len(Rows)) /\ Ascending(Len(Rows))
Counted(stats) == stats = IF kind = "trades" THEN HistoryStats(source) ELSE Stats(Rows, Len(Rows))
Validated(c) == \/ call[c].pc \in {"archive", "make", "write", "manifest", "fill", "publish"}
                \/ call[c].pc = "look" /\ Staged

\* What a call has written is what it has read so far.
ContentOf(c) ==
  /\ Validated(c) => SourceOk
  /\ call[c].pc = "write" /\ kind = "trades" => Target.files = NoFiles
  /\ call[c].pc = "write" /\ kind # "trades" =>
       /\ call[c].row \in 0 .. Len(Rows) /\ Ascending(call[c].row)
       /\ Written(Target.files, Rows, call[c].row) /\ call[c].stats = Stats(Rows, call[c].row)
  /\ call[c].pc \in {"manifest", "fill", "publish"} =>
       Complete(Target.files) /\ (kind # "trades" => call[c].stats = Stats(Rows, Len(Rows)))
  /\ call[c].pc = "publish" => Counted(Target.manifest.stats)
ContentAfter(c) == ContentOf(c)'
FinalContent ==
  final.manifest.state = "whole" => SourceOk /\ Complete(final.files) /\ Counted(final.manifest.stats)
ContentInvariant == Sourced /\ FinalContent /\ \A c \in Callers : ContentOf(c)

\* A step of a call leaves what others have read and written alone.
LEMMA SourceStays ==
    ASSUME kind' = kind, source' = source
    PROVE  /\ Rows' = Rows /\ Batches' = Batches /\ SourceOk' = SourceOk /\ Staged' = Staged
           /\ Sourced' = Sourced
           /\ \A files : Complete(files)' <=> Complete(files)
           /\ \A stats : Counted(stats)' <=> Counted(stats)
           /\ \A n : Ascending(n)' <=> Ascending(n)
<1>1. Rows' = Rows /\ Batches' = Batches /\ Staged' = Staged
  BY DEF Rows, Batches, Staged
<1>2. SourceOk' = SourceOk /\ Sourced' = Sourced
  BY <1>1 DEF SourceOk, Sourced
<1>3. \A n : Ascending(n)' <=> Ascending(n)
  BY <1>1 DEF Ascending
<1>4. \A files : Complete(files)' <=> Complete(files)
  BY <1>1, <1>3 DEF Complete
<1>5. \A stats : Counted(stats)' <=> Counted(stats)
  BY <1>1 DEF Counted
<1> QED
  BY <1>1, <1>2, <1>3, <1>4, <1>5

\* A call that keeps its place keeps its content if nobody touches its directory.
LEMMA ContentStays ==
    ASSUME kind' = kind, source' = source, NEW o \in Callers, ContentOf(o),
           call'[o].pc = call[o].pc, call'[o].row = call[o].row, call'[o].stats = call[o].stats,
           Building(o) => Target' = Target
    PROVE  ContentAfter(o)
<1>1. Rows' = Rows /\ SourceOk' = SourceOk /\ Staged' = Staged
  BY SourceStays
<1>2. Validated(o)' <=> Validated(o)
  BY <1>1 DEF Validated
<1>3. CASE ~Building(o)
  BY <1>1, <1>2, <1>3 DEF ContentOf, ContentAfter, Building
<1>4. CASE Building(o)
  <2>1. Target' = Target
    BY <1>4
  <2>2. Complete(Target.files)' <=> Complete(Target.files)
    BY <1>1, <2>1 DEF Complete, Ascending
  <2>3. Counted(Target.manifest.stats)' <=> Counted(Target.manifest.stats)
    BY <1>1, <2>1 DEF Counted
  <2>4. Written(Target.files, Rows, call[o].row)' <=> Written(Target.files, Rows, call[o].row)
    BY <1>1, <2>1
  <2>5. Ascending(call[o].row)' <=> Ascending(call[o].row)
    BY <1>1 DEF Ascending
  <2> QED
    BY <1>1, <1>2, <2>1, <2>2, <2>3, <2>4, <2>5 DEF ContentOf, ContentAfter
<1> QED
  BY <1>3, <1>4

\* The other calls keep what they have read, and nobody else writes for them.
LEMMA OthersKeep ==
    ASSUME TypeOK, BuildInvariant, NEW c \in Callers, Call(c), NEW o \in Callers \ {c}
    PROVE  /\ call'[o].pc = call[o].pc /\ call'[o].row = call[o].row
           /\ call'[o].stats = call[o].stats /\ (Building(o) => Target' = Target)
<1>1. Staged' = Staged /\ OthersGoOn(c) /\ IsStep(c)
  BY StepIs
<1>2. call = [p \in Callers |-> call[p]] /\ CallOk(call[o])
  BY DEF TypeOK
<1>3. call'[o].row = call[o].row /\ call'[o].stats = call[o].stats
  <2>1. CASE Begin(c)
    <3>1. PICK b : call'[o] = [call[o] EXCEPT !.overlapped = b]
      BY <1>2, <2>1, Zenon DEF Begin
    <3> QED
      BY <1>2, <3>1 DEF CallOk
  <2>2. CASE ~Begin(c)
    <3>1. call' = call \/ \E r : call' = [call EXCEPT ![c] = r]
      BY <2>2, Zenon DEF Call, Look, Validate, Archive, MakeRoot, WriteRow, CloseFiles, WriteTrades,
                         OpenManifest, FillManifest, Publish, Raise, Die, Goto, End
    <3> QED
      BY <1>2, <3>1
  <2> QED
    BY <2>1, <2>2
<1>4. ASSUME Building(o)
      PROVE  Target' = Target
  <2>1. Target.there /\ ~Building(c)
    BY <1>4 DEF BuildInvariant
  <2>2. final' = final /\ staging' = staging
    BY <1>1, <2>1 DEF IsStep, Starts, Leaves, Cleans, IsRefused, Returns, GoesOn, Makes, Writes,
                      Finishes, Renames, SameDirectories, Building
  <2> QED
    BY <1>1, <2>2 DEF Target
<1> QED
  BY <1>1, <1>3, <1>4 DEF OthersGoOn

\* Going on, a call keeps what it has read.
LEMMA GotoKeeps ==
    ASSUME TypeOK, NEW c \in Callers, NEW pc \in Step, Goto(c, pc)
    PROVE  call'[c].pc = pc /\ call'[c].row = call[c].row /\ call'[c].stats = call[c].stats
<1>1. call = [o \in Callers |-> call[o]] /\ CallOk(call[c])
  BY DEF TypeOK
<1>2. call'[c] = [call[c] EXCEPT !.pc = pc]
  BY <1>1 DEF Goto
<1> QED
  BY <1>1, <1>2 DEF CallOk

\* A call that is not building has written nothing.
LEMMA QuietContent ==
    ASSUME kind' = kind, source' = source, NEW c \in Callers,
           call'[c].pc \in {"idle", "look", "validate", "archive", "make"},
           call'[c].pc \in {"idle", "validate"} \/ SourceOk \/ (call'[c].pc = "look" /\ ~Staged)
    PROVE  ContentAfter(c)
<1>1. Rows' = Rows /\ SourceOk' = SourceOk /\ Staged' = Staged
  BY SourceStays
<1> QED
  BY <1>1 DEF ContentOf, ContentAfter, Validated

\* Before a call builds, it relies on its source only.
LEMMA BeforeBuilding ==
    ASSUME TypeOK, ContentInvariant, NEW c \in Callers, kind' = kind, source' = source,
           Begin(c) \/ Look(c) \/ Validate(c) \/ Archive(c)
    PROVE  ContentAfter(c)
<1>1. /\ call = [o \in Callers |-> call[o]] /\ CallOk(call[c]) /\ ContentOf(c)
      /\ final.manifest.state \in {"none", "cut", "whole"}
  BY DEF TypeOK, ContentInvariant, DirectoryOk, ManifestOk
<1>2. ASSUME NEW error, End(c, error)
      PROVE  ContentAfter(c)
  BY <1>2, EndIs, QuietContent DEF Moves
<1>3. CASE Begin(c)
  <2>1. call'[c].pc = (IF Staged THEN "validate" ELSE "look")
    BY <1>3, BeginIs DEF Starts
  <2> QED
    BY <2>1, QuietContent
<1>4. CASE Look(c)
  <2>1. call[c].pc = "look"
    BY <1>4 DEF Look
  <2>2. CASE final.manifest.state = "none"
    <3>1. Goto(c, IF Staged THEN "make" ELSE "validate")
      BY <1>4, <2>2 DEF Look
    <3>2. call'[c].pc = (IF Staged THEN "make" ELSE "validate")
      BY <3>1, GotoKeeps DEF Step
    <3>3. Staged => SourceOk
      BY <1>1, <2>1 DEF ContentOf, Validated
    <3> QED
      BY <3>2, <3>3, QuietContent
  <2>3. CASE final.manifest.state = "whole"
    <3>1. call' = [call EXCEPT ![c].pc = "idle", ![c].result = final.manifest]
      BY <1>4, <2>3 DEF Look
    <3>2. call'[c] = [call[c] EXCEPT !.pc = "idle", !.result = final.manifest]
      BY <1>1, <3>1
    <3>3. call'[c].pc = "idle"
      BY <1>1, <3>2 DEF CallOk
    <3> QED
      BY <3>3, QuietContent
  <2>4. CASE final.manifest.state = "cut"
    <3>1. End(c, "unreadable")
      BY <1>4, <2>4 DEF Look
    <3> QED
      BY <1>2, <3>1
  <2> QED
    BY <1>1, <2>2, <2>3, <2>4
<1>5. CASE Validate(c)
  <2>1. CASE SourceOk
    <3>1. Goto(c, IF Staged THEN "archive" ELSE "make")
      BY <1>5, <2>1 DEF Validate
    <3>2. call'[c].pc = (IF Staged THEN "archive" ELSE "make")
      BY <3>1, GotoKeeps DEF Step
    <3> QED
      BY <2>1, <3>2, QuietContent
  <2>2. CASE ~SourceOk
    BY <1>2, <1>5, <2>2 DEF Validate
  <2> QED
    BY <2>1, <2>2
<1>6. CASE Archive(c)
  <2>1. call[c].pc = "archive" /\ SourceOk
    BY <1>1, <1>6 DEF Archive, ContentOf, Validated
  <2>2. CASE End(c, "conflict") \/ End(c, "raced")
    BY <1>2, <2>2
  <2>3. CASE call' = call
    BY <2>1, <2>3, QuietContent
  <2>4. CASE Goto(c, "look")
    <3>1. call'[c].pc = "look"
      BY <2>4, GotoKeeps DEF Step
    <3> QED
      BY <2>1, <3>1, QuietContent
  <2> QED
    BY <1>6, <2>2, <2>3, <2>4 DEF Archive
<1> QED
  BY <1>3, <1>4, <1>5, <1>6

\* What a call has written of a source it reads row by row.
WrittenUpTo(c) ==
  /\ call[c].row \in 0 .. Len(Rows) /\ Ascending(call[c].row)
  /\ Written(Target.files, Rows, call[c].row) /\ call[c].stats = Stats(Rows, call[c].row)

\* A new directory is empty, and the call starts with its first row.
LEMMA NewDirectory ==
    ASSUME TypeOK, ContentInvariant, NEW c \in Callers, MakeRoot(c)
    PROVE  ContentAfter(c)
<1>1. /\ call = [o \in Callers |-> call[o]] /\ CallOk(call[c]) /\ ContentOf(c)
      /\ kind' = kind /\ source' = source /\ call[c].pc = "make"
  BY DEF TypeOK, ContentInvariant, MakeRoot
<1>2. CASE Target.there
  <2>1. End(c, "exists")
    BY <1>2 DEF MakeRoot
  <2> QED
    BY <1>1, <2>1, EndIs, QuietContent DEF Moves
<1>3. CASE ~Target.there
  <2>1. Target' = [Nowhere EXCEPT !.there = TRUE]
    BY <1>1, <1>3, SetTargetIs DEF MakeRoot
  <2>2. call'[c] = [call[c] EXCEPT !.pc = "write", !.row = 0, !.stats = NoStats]
    BY <1>1, <1>3 DEF MakeRoot
  <2>3. call'[c].pc = "write" /\ call'[c].row = 0 /\ call'[c].stats = NoStats
    BY <1>1, <2>2 DEF CallOk
  <2>4. Target'.files = NoFiles
    BY <2>1 DEF Nowhere
  <2>5. SourceOk /\ Rows' = Rows /\ SourceOk' = SourceOk
    BY <1>1, SourceStays DEF ContentOf, Validated
  <2>6. Sourced /\ (kind # "trades" => Len(Rows) \in Nat)
    BY <2>5, RowsIn, LenProperties DEF ContentInvariant
  <2>7. kind # "trades" => WrittenUpTo(c)'
    <3>1. Written(NoFiles, Rows, 0) /\ NoStats = Stats(Rows, 0)
      BY NothingWritten, StatsStart
    <3>2. Written(NoFiles, Rows, 0)' /\ (NoStats = Stats(Rows, 0))'
      BY <2>5, <3>1
    <3>3. Ascending(0)'
      BY DEF Ascending
    <3>4. kind # "trades" => 0 \in 0 .. Len(Rows)'
      BY <2>5, <2>6
    <3> QED
      BY <2>3, <2>4, <2>5, <3>1, <3>3, <3>4 DEF WrittenUpTo
  <2> QED
    BY <1>1, <2>3, <2>4, <2>5, <2>7 DEF ContentOf, ContentAfter, WrittenUpTo
<1> QED
  BY <1>2, <1>3

\* Each row that passes goes to the files and into the counts.
LEMMA OneMoreRow ==
    ASSUME TypeOK, ContentInvariant, NEW c \in Callers, WriteRow(c)
    PROVE  ContentAfter(c)
<1>1. /\ call = [o \in Callers |-> call[o]] /\ CallOk(call[c]) /\ DirectoryOk(Target)
      /\ kind' = kind /\ source' = source /\ call[c].pc = "write" /\ kind # "trades"
      /\ call[c].row < Len(Rows)
  BY DEF TypeOK, WriteRow, Target
<1>2. ContentOf(c) /\ Sourced
  BY DEF ContentInvariant
<1>3. WrittenUpTo(c) /\ SourceOk
  BY <1>1, <1>2 DEF ContentOf, WrittenUpTo, Validated
<1>4. /\ Rows \in Seq(Quotes) /\ Len(Rows) \in Nat
      /\ kind # "jforex" => Ascending(Len(Rows))
      /\ kind = "jforex" => \A i \in 1 .. Len(Rows) : Rows[i] = BatchRows(Batches)[i].tick
  BY <1>1, <1>2, <1>3, RowsIn, LenProperties DEF Ascending
<1>5. PICK n \in 0 .. Len(Rows) - 1 : n = call[c].row
  BY <1>1, <1>3, <1>4 DEF WrittenUpTo
<1>6. n \in Nat /\ n + 1 \in 1 .. Len(Rows)
  BY <1>4
<1>7. Ascending(n) /\ Written(Target.files, Rows, n) /\ call[c].stats = Stats(Rows, n)
  BY <1>3, <1>5 DEF WrittenUpTo
<1> DEFINE refused == Staged /\ ~RowOk(BatchRows(Batches)[n + 1], call[c].stats.last)
<1>8. CASE refused
  <2>1. End(c, "refused")
    BY <1>5, <1>8 DEF WriteRow
  <2> QED
    BY <1>1, <2>1, EndIs, QuietContent DEF Moves
<1>9. CASE ~refused
  <2> DEFINE files == Put(Target.files, Rows[n + 1])
             stats == Count(call[c].stats, Rows[n + 1])
  <2>1. /\ SetTarget([Target EXCEPT !.files = files])
        /\ call' = [call EXCEPT ![c].row = n + 1, ![c].stats = stats]
    BY <1>5, <1>9 DEF WriteRow
  <2>2. Ascending(n + 1)
    <3>1. CASE kind # "jforex"
      BY <1>4, <1>6, <3>1, SMTT(30) DEF Ascending
    <3>2. CASE kind = "jforex"
      <4>1. n # 0 => Rows[n].at <= Rows[n + 1].at
        <5> SUFFICES ASSUME n # 0
                     PROVE  Rows[n].at <= Rows[n + 1].at
          OBVIOUS
        <5>1. call[c].stats.last = <<Rows[n]>>
          BY <1>7 DEF Stats
        <5>2. RowOk(BatchRows(Batches)[n + 1], call[c].stats.last)
          BY <1>9, <3>2 DEF Staged
        <5>3. <<Rows[n]>> # <<>> /\ <<Rows[n]>>[1] = Rows[n]
          OBVIOUS
        <5>4. Rows[n + 1] = BatchRows(Batches)[n + 1].tick
          BY <1>4, <1>6, <3>2
        <5> QED
          BY <5>1, <5>2, <5>3, <5>4 DEF RowOk
      <4>2. \A i \in 2 .. n + 1 : i \in 2 .. n \/ (n # 0 /\ i = n + 1 /\ i - 1 = n)
        BY <1>6
      <4> QED
        BY <1>7, <4>1, <4>2 DEF Ascending
    <3> QED
      BY <3>1, <3>2
  <2>3. Written(files, Rows, n + 1) /\ stats = Stats(Rows, n + 1)
    <3>1. PICK rows \in Seq(Quotes) : rows = Rows
      BY <1>4
    <3>2. n \in 0 .. Len(rows) - 1 /\ \A i \in 2 .. n + 1 : rows[i - 1].at <= rows[i].at
      BY <2>2, <3>1 DEF Ascending
    <3>3. Written(Target.files, rows, n)
      BY <1>7, <3>1
    <3>4. Written(Put(Target.files, rows[n + 1]), rows, n + 1)
      BY <3>2, <3>3, PutHolds
    <3>5. Count(Stats(rows, n), rows[n + 1]) = Stats(rows, n + 1)
      BY <3>2, StatsNext
    <3> QED
      BY <1>7, <3>1, <3>4, <3>5
  <2> HIDE DEF files, stats
  <2>4. Target' = [Target EXCEPT !.files = files]
    BY <1>1, <2>1, SetTargetIs
  <2>5. Target'.files = files
    BY <1>1, <2>4 DEF DirectoryOk
  <2>6. call'[c] = [call[c] EXCEPT !.row = n + 1, !.stats = stats]
    BY <1>1, <2>1
  <2>7. call'[c].pc = "write" /\ call'[c].row = n + 1 /\ call'[c].stats = stats
    BY <1>1, <2>6 DEF CallOk
  <2>8. Rows' = Rows /\ SourceOk' = SourceOk
    BY <1>1, SourceStays
  <2>9. Ascending(n + 1)'
    BY <2>2, <2>8 DEF Ascending
  <2>10. WrittenUpTo(c)'
    BY <1>6, <2>3, <2>5, <2>7, <2>8, <2>9 DEF WrittenUpTo
  <2> QED
    BY <1>1, <1>3, <2>7, <2>8, <2>10 DEF ContentOf, ContentAfter, WrittenUpTo
<1> QED
  BY <1>8, <1>9

\* After its last row a call has written all there is.
LEMMA FilesComplete ==
    ASSUME TypeOK, ContentInvariant, NEW c \in Callers, CloseFiles(c) \/ WriteTrades(c)
    PROVE  ContentAfter(c)
<1>1. /\ call = [o \in Callers |-> call[o]] /\ CallOk(call[c]) /\ DirectoryOk(Target)
      /\ kind' = kind /\ source' = source /\ call[c].pc = "write" /\ Goto(c, "manifest")
  BY DEF TypeOK, CloseFiles, WriteTrades, Target
<1>2. ContentOf(c) /\ Sourced /\ SourceOk
  BY <1>1 DEF ContentInvariant, ContentOf, Validated
<1>3. call'[c].pc = "manifest" /\ call'[c].stats = call[c].stats
  BY <1>1, GotoKeeps DEF Step
<1>4. Rows' = Rows /\ SourceOk' = SourceOk
  BY <1>1, SourceStays
<1>5. Complete(Target'.files) /\ (kind # "trades" => call[c].stats = Stats(Rows, Len(Rows)))
  <2>1. CASE CloseFiles(c)
    <3>1. kind # "trades" /\ call[c].row = Len(Rows) /\ SetTarget([Target EXCEPT !.files = Close(@)])
      BY <2>1 DEF CloseFiles
    <3>2. WrittenUpTo(c)
      BY <1>1, <1>2, <3>1 DEF ContentOf, WrittenUpTo
    <3>3. Rows \in Seq(Quotes) /\ Len(Rows) \in Nat
      BY <1>2, <3>1, RowsIn, LenProperties
    <3>4. Ascending(Len(Rows)) /\ Written(Target.files, Rows, Len(Rows)) /\ call[c].stats = Stats(Rows, Len(Rows))
      BY <3>1, <3>2 DEF WrittenUpTo
    <3>0. PICK rows \in Seq(Quotes) : rows = Rows
      BY <3>3
    <3>5. PICK n \in 0 .. Len(rows) : n = Len(Rows)
      BY <3>0, <3>3
    <3>6. (\A i \in 2 .. n : rows[i - 1].at <= rows[i].at) /\ Written(Target.files, rows, n)
      BY <3>0, <3>4, <3>5 DEF Ascending
    <3>7. /\ Close(Target.files).parts \in Seq([day : Int, rows : Seq(Quotes)])
          /\ ByDay(Close(Target.files).parts, rows, n)
      BY <3>6, CloseHolds
    <3>8. Target' = [Target EXCEPT !.files = Close(@)]
      BY <1>1, <3>1, SetTargetIs
    <3>9. Target'.files = Close(Target.files)
      BY <1>1, <3>8 DEF DirectoryOk
    <3> QED
      BY <3>0, <3>1, <3>4, <3>5, <3>7, <3>9 DEF Complete
  <2>2. CASE WriteTrades(c)
    <3> DEFINE day == <<[day |-> 0, rows |-> History(source)]>>
    <3>1. kind = "trades" /\ SetTarget([Target EXCEPT !.files.parts = day])
      BY <2>2 DEF WriteTrades
    <3>2. Target.files = NoFiles
      BY <1>1, <1>2, <3>1 DEF ContentOf
    <3> HIDE DEF day
    <3>3. Target' = [Target EXCEPT !.files.parts = day]
      BY <1>1, <3>1, SetTargetIs
    <3>4. Target'.files = [NoFiles EXCEPT !.parts = day]
      BY <1>1, <3>2, <3>3 DEF DirectoryOk
    <3>5. Target'.files.parts = day
      BY <3>4 DEF NoFiles
    <3> QED
      BY <3>1, <3>5 DEF Complete, day
  <2> QED
    BY <2>1, <2>2
<1>6. Complete(Target.files)'
  BY <1>1, <1>4, <1>5 DEF Complete, Ascending
<1> QED
  BY <1>1, <1>2, <1>3, <1>4, <1>5, <1>6 DEF ContentOf, ContentAfter

\* Opening the manifest leaves the files alone.
LEMMA ManifestOpened ==
    ASSUME TypeOK, ContentInvariant, NEW c \in Callers, OpenManifest(c)
    PROVE  ContentAfter(c)
<1>1. /\ DirectoryOk(Target) /\ kind' = kind /\ source' = source /\ call[c].pc = "manifest"
      /\ SetTarget([Target EXCEPT !.manifest.state = "cut"]) /\ Goto(c, "fill")
  BY DEF TypeOK, OpenManifest, Target
<1>2. ContentOf(c) /\ SourceOk
  BY <1>1 DEF ContentInvariant, ContentOf, Validated
<1>3. call'[c].pc = "fill" /\ call'[c].stats = call[c].stats
  BY <1>1, GotoKeeps DEF Step
<1>4. Rows' = Rows /\ SourceOk' = SourceOk
  BY <1>1, SourceStays
<1>5. Target'.files = Target.files
  <2>1. Target' = [Target EXCEPT !.manifest.state = "cut"]
    BY <1>1, SetTargetIs
  <2> QED
    BY <1>1, <2>1 DEF DirectoryOk
<1>6. Complete(Target.files)
  BY <1>1, <1>2 DEF ContentOf
<1>7. Complete(Target.files)'
  BY <1>1, <1>4, <1>5, <1>6 DEF Complete, Ascending
<1> QED
  BY <1>1, <1>2, <1>3, <1>4, <1>7 DEF ContentOf, ContentAfter

\* What is written into the manifest counts what the files hold.
LEMMA ManifestFilled ==
    ASSUME TypeOK, ContentInvariant, NEW c \in Callers, FillManifest(c)
    PROVE  /\ ContentAfter(c)
           /\ SourceOk /\ Complete(Target'.files) /\ Counted(Target'.manifest.stats)
<1> DEFINE manifest == [state |-> "whole", by |-> call[c].id,
                        stats |-> IF kind = "trades" THEN HistoryStats(source) ELSE call[c].stats]
           pc == IF Staged THEN "publish" ELSE "idle"
           result == IF Staged THEN call[c].result ELSE manifest
<1>1. /\ call = [o \in Callers |-> call[o]] /\ CallOk(call[c])
      /\ DirectoryOk(Target) /\ kind' = kind /\ source' = source /\ call[c].pc = "fill"
      /\ SetTarget([Target EXCEPT !.manifest = manifest])
      /\ call' = [call EXCEPT ![c].pc = pc, ![c].result = result]
  BY DEF TypeOK, FillManifest, Target
<1>2. ContentOf(c) /\ SourceOk
  BY <1>1 DEF ContentInvariant, ContentOf, Validated
<1>3. Complete(Target.files) /\ (kind # "trades" => call[c].stats = Stats(Rows, Len(Rows)))
  BY <1>1, <1>2 DEF ContentOf
<1>4. Counted(manifest.stats)
  BY <1>3 DEF Counted
<1> HIDE DEF manifest
<1>5. Target' = [Target EXCEPT !.manifest = manifest]
  BY <1>1, SetTargetIs
<1>6. Target'.files = Target.files /\ Target'.manifest = manifest
  BY <1>1, <1>5 DEF DirectoryOk
<1>7. pc \in {"idle", "publish"}
  OBVIOUS
<1> HIDE DEF pc, result
<1>8. call'[c] = [call[c] EXCEPT !.pc = pc, !.result = result]
  BY <1>1
<1>9. call'[c].pc = pc /\ call'[c].stats = call[c].stats
  BY <1>1, <1>8 DEF CallOk
<1>10. Rows' = Rows /\ SourceOk' = SourceOk
  BY <1>1, SourceStays
<1>11. Complete(Target.files)'
  BY <1>1, <1>3, <1>6, <1>10 DEF Complete, Ascending
<1>12. Counted(Target.manifest.stats)'
  BY <1>1, <1>4, <1>6, <1>10 DEF Counted
<1>13. ContentAfter(c)
  BY <1>1, <1>2, <1>3, <1>7, <1>9, <1>10, <1>11, <1>12 DEF ContentOf, ContentAfter
<1> QED
  BY <1>2, <1>3, <1>4, <1>6, <1>13

\* A call that ends keeps no content.
LEMMA CallEnds ==
    ASSUME TypeOK, NEW c \in Callers, Publish(c) \/ Raise(c) \/ Die(c)
    PROVE  ContentAfter(c)
<1>1. /\ call = [o \in Callers |-> call[o]] /\ CallOk(call[c]) /\ kind' = kind /\ source' = source
  BY DEF TypeOK, Publish, Raise, Die
<1>2. ASSUME NEW error, End(c, error)
      PROVE  ContentAfter(c)
  BY <1>1, <1>2, EndIs, QuietContent DEF Moves
<1>3. CASE Publish(c) /\ ~final.there
  <2>1. call' = [call EXCEPT ![c].pc = "idle", ![c].result = staging.manifest]
    BY <1>3 DEF Publish
  <2>2. call'[c] = [call[c] EXCEPT !.pc = "idle", !.result = staging.manifest]
    BY <1>1, <2>1
  <2>3. call'[c].pc = "idle"
    BY <1>1, <2>2 DEF CallOk
  <2> QED
    BY <1>1, <2>3, QuietContent
<1>4. CASE ~(Publish(c) /\ ~final.there)
  BY <1>2, <1>4 DEF Publish, Raise, Die
<1> QED
  BY <1>3, <1>4

\* The directory of the data set gets a whole manifest by the call that fills it, or by
\* the rename of a staged directory that has one.
LEMMA FinalStep ==
    ASSUME TypeOK, BuildInvariant, ContentInvariant, NEW c \in Callers, Call(c)
    PROVE  FinalContent'
<1>1. Staged' = Staged /\ OthersGoOn(c) /\ IsStep(c)
  BY StepIs, SMTT(30)
<1>2. kind' = kind /\ source' = source
  BY Zenon DEF Call, Begin, Look, Validate, Archive, MakeRoot, WriteRow, CloseFiles, WriteTrades,
         OpenManifest, FillManifest, Publish, Raise, Die
<1>3. Rows' = Rows /\ SourceOk' = SourceOk
  BY <1>2, SourceStays
<1>4. FinalContent /\ ContentOf(c)
  BY DEF ContentInvariant
<1>5. ASSUME final'.manifest.state = "whole" => 
               SourceOk /\ Complete(final'.files) /\ Counted(final'.manifest.stats)
      PROVE  FinalContent'
  <2> SUFFICES ASSUME final'.manifest.state = "whole"
               PROVE  SourceOk' /\ Complete(final.files)' /\ Counted(final.manifest.stats)'
    BY DEF FinalContent
  <2>1. SourceOk /\ Complete(final'.files) /\ Counted(final'.manifest.stats)
    BY <1>5
  <2>2. Complete(final.files)'
    BY <1>2, <1>3, <2>1 DEF Complete, Ascending
  <2>3. Counted(final.manifest.stats)'
    BY <1>2, <1>3, <2>1 DEF Counted
  <2> QED
    BY <1>3, <2>1, <2>2, <2>3
<1>6. CASE final' = final
  BY <1>4, <1>5, <1>6 DEF FinalContent
<1>7. CASE final'.manifest.state # "whole"
  BY <1>5, <1>7
<1>8. CASE FillManifest(c) /\ ~Staged
  <2>1. Target' = final'
    BY <1>1, <1>8 DEF Target
  <2>2. SourceOk /\ Complete(Target'.files) /\ Counted(Target'.manifest.stats)
    BY <1>8, ManifestFilled
  <2> QED
    BY <1>5, <2>1, <2>2
<1>9. CASE Staged /\ final' # final
  <2>1. Renames(c)
    BY <1>1, <1>9 DEF IsStep, Starts, Leaves, Cleans, IsRefused, Returns, GoesOn, Makes, Writes,
                      Finishes, SameDirectories, SameOther
  <2>2. final' = staging /\ call[c].pc = "publish" /\ Target = staging
    BY <1>9, <2>1 DEF Renames, Target
  <2>3. SourceOk /\ Complete(staging.files) /\ Counted(staging.manifest.stats)
    BY <1>4, <2>2 DEF ContentOf, Validated
  <2> QED
    BY <1>5, <2>2, <2>3
<1>10. CASE ~FillManifest(c) /\ ~Staged /\ final' # final
  <2>1. Makes(c) \/ Writes(c) \/ Finishes(c) \/ Renames(c)
    BY <1>1, <1>10 DEF IsStep, Starts, Leaves, Cleans, IsRefused, Returns, GoesOn, SameDirectories
  <2>2. CASE Makes(c)
    BY <1>1, <1>7, <1>10, <2>2, MakesIs
  <2>3. CASE Writes(c)
    <3>1. Target = final /\ Target' = final'
      BY <1>1, <1>10 DEF Target
    <3>2. call[c].pc = "write" => final.manifest.state = "none"
      BY <3>1 DEF BuildInvariant, Building, Progress
    <3>3. final'.manifest.state \in {"none", "cut"}
      BY <1>10, <2>3, <3>1, <3>2 DEF Writes
    <3> QED
      BY <1>7, <3>3
  <2>4. CASE Finishes(c)
    <3>1. call[c].pc = "fill"
      BY <2>4 DEF Finishes
    <3>2. Raise(c) \/ Die(c)
      BY <1>10, <3>1 DEF Call, Begin, Look, Validate, Archive, MakeRoot, WriteRow, CloseFiles,
                         WriteTrades, OpenManifest, Publish
    <3> QED
      BY <1>10, <3>2 DEF Raise, Die
  <2>5. CASE Renames(c)
    BY <1>10, <2>5 DEF Renames, BuildInvariant, Building
  <2> QED
    BY <2>1, <2>2, <2>3, <2>4, <2>5
<1> QED
  BY <1>6, <1>8, <1>9, <1>10

\* Every step keeps the content, that of the call that steps and that of the others.
LEMMA ContentStep ==
    ASSUME TypeOK, BuildInvariant, ContentInvariant, NEW c \in Callers, Call(c)
    PROVE  ContentInvariant'
<1>1. kind' = kind /\ source' = source
  BY DEF Call, Begin, Look, Validate, Archive, MakeRoot, WriteRow, CloseFiles, WriteTrades,
         OpenManifest, FillManifest, Publish, Raise, Die
<1>2. Sourced'
  BY <1>1, SourceStays DEF ContentInvariant
<1>3. ContentAfter(c)
  BY <1>1, BeforeBuilding, NewDirectory, OneMoreRow, FilesComplete, ManifestOpened, ManifestFilled,
     CallEnds DEF Call
<1>4. ASSUME NEW o \in Callers \ {c}
      PROVE  ContentAfter(o)
  <2>1. ContentOf(o)
    BY DEF ContentInvariant
  <2>2. /\ call'[o].pc = call[o].pc /\ call'[o].row = call[o].row
        /\ call'[o].stats = call[o].stats /\ (Building(o) => Target' = Target)
    BY OthersKeep
  <2> QED
    BY <1>1, <2>1, <2>2, ContentStays
<1>5. \A o \in Callers : ContentAfter(o)
  BY <1>3, <1>4
<1>6. \A o \in Callers : ContentOf(o)'
  BY <1>5 DEF ContentAfter
<1>7. FinalContent'
  BY FinalStep
<1> QED
  BY <1>2, <1>6, <1>7 DEF ContentInvariant

\* At first there is nothing.
LEMMA ContentStarts ==
    ASSUME Init, Sourced
    PROVE  ContentInvariant
<1>1. final = Nowhere /\ call = [c \in Callers |-> NoCall]
  BY DEF Init
<1>2. final.manifest.state = "none"
  BY <1>1 DEF Nowhere, NoManifest
<1>3. ASSUME NEW c \in Callers
      PROVE  ContentOf(c)
  <2>1. call[c].pc = "idle"
    BY <1>1 DEF NoCall
  <2> QED
    BY <2>1 DEF ContentOf, Validated
<1> QED
  BY <1>2, <1>3 DEF ContentInvariant, FinalContent

\* With the invariants of the directories the content is inductive.
LEMMA ContentKeeps ==
    ASSUME PublicationInvariant, ContentInvariant, [Next]_vars
    PROVE  ContentInvariant'
<1>1. TypeOK /\ BuildInvariant
  BY DEF PublicationInvariant
<1>2. CASE Next
  <2>1. PICK c \in Callers : Call(c)
    BY <1>2 DEF Next
  <2> QED
    BY <1>1, <2>1, ContentStep
<1>3. CASE UNCHANGED vars
  <2>1. /\ kind' = kind /\ source' = source /\ final' = final /\ staging' = staging /\ call' = call
    BY <1>3 DEF vars
  <2>2. Sourced' /\ Sourced /\ FinalContent /\ SourceOk' = SourceOk /\ Target' = Target
    BY <2>1, SourceStays DEF ContentInvariant, Target
  <2>3. ASSUME NEW o \in Callers
        PROVE  ContentAfter(o)
    <3>1. ContentOf(o)
      BY DEF ContentInvariant
    <3> QED
      BY <2>1, <2>2, <3>1, ContentStays
  <2>4. \A o \in Callers : ContentOf(o)'
    BY <2>3 DEF ContentAfter
  <2>5. Complete(final.files)' <=> Complete(final.files)
    BY <2>1, SourceStays DEF Complete, Ascending
  <2>6. Counted(final.manifest.stats)' <=> Counted(final.manifest.stats)
    BY <2>1, SourceStays DEF Counted
  <2>7. FinalContent'
    BY <2>1, <2>2, <2>5, <2>6 DEF FinalContent
  <2> QED
    BY <2>2, <2>4, <2>7 DEF ContentInvariant
<1> QED
  BY <1>2, <1>3

\* Whatever fails, dies or runs at the same time: files with a whole manifest
\* hold what their source says, and so does what each call has written so far.
THEOREM ContentAlways == Sourced /\ Spec => []ContentInvariant
<1>1. Init /\ Sourced => ContentInvariant
  BY ContentStarts
<1>2. PublicationInvariant /\ ContentInvariant /\ [Next]_vars => ContentInvariant'
  BY ContentKeeps
<1> QED
  BY <1>1, <1>2, PublicationAlways, PTL DEF Spec

\* What the content means for a reader of a trade history.
LEMMA TradesWhole ==
    ASSUME ContentInvariant, final.manifest.state = "whole", kind = "trades",
           NEW parts, parts = final.files.parts
    PROVE  /\ Len(parts) = 1 /\ Range(parts[1].rows) \subseteq Range(source)
           /\ {t.ticket : t \in Range(source)} = {t.ticket : t \in Range(parts[1].rows)}
           /\ \A i, j \in DOMAIN parts[1].rows : i < j =>
                /\ parts[1].rows[i].ticket # parts[1].rows[j].ticket
                /\ parts[1].rows[i].opened <= parts[1].rows[j].opened
           /\ final.manifest.stats.rows = Len(parts[1].rows)
<1>1. /\ source \in Seq(TradeRow) /\ parts = <<[day |-> 0, rows |-> History(source)]>>
      /\ final.manifest.stats = HistoryStats(source)
  BY DEF ContentInvariant, FinalContent, Sourced, Complete, Counted
<1>2. Len(parts) = 1 /\ parts[1].rows = History(source)
  BY <1>1
<1>3. PICK rows \in Seq(TradeRow) : rows = source
  BY <1>1
<1>4. final.manifest.stats.rows = Len(History(rows))
  BY <1>1, <1>3, HistoryIs
<1>5. PICK held : held = parts[1].rows /\ held = History(rows)
  BY <1>2, <1>3
<1>6. /\ Range(held) \subseteq Range(rows)
      /\ {t.ticket : t \in Range(rows)} = {t.ticket : t \in Range(held)}
      /\ \A i, j \in DOMAIN held : i < j =>
           held[i].ticket # held[j].ticket /\ held[i].opened <= held[j].opened
  BY <1>5, HistoryIs
<1>7. final.manifest.stats.rows = Len(held)
  BY <1>3, <1>4, <1>5, HistoryIs
<1>8. Range(held) \subseteq Range(source)
  BY <1>3, <1>6, Zenon
<1>9. {t.ticket : t \in Range(source)} = {t.ticket : t \in Range(held)}
  BY <1>3, <1>6, Zenon
<1>10. parts[1].rows = held
  BY <1>5
<1>11. \A i, j \in DOMAIN parts[1].rows : i < j =>
         /\ parts[1].rows[i].ticket # parts[1].rows[j].ticket
         /\ parts[1].rows[i].opened <= parts[1].rows[j].opened
  BY <1>6, <1>10
<1>12. Range(parts[1].rows) \subseteq Range(source)
  BY <1>8, <1>10, Zenon
<1>13. {t.ticket : t \in Range(source)} = {t.ticket : t \in Range(parts[1].rows)}
  BY <1>9, <1>10, Zenon
<1>14. final.manifest.stats.rows = Len(parts[1].rows)
  BY <1>7, <1>10
<1> QED
  BY <1>2, <1>11, <1>12, <1>13, <1>14, Zenon

\* What it means for a reader of quotes.
LEMMA QuotesWhole ==
    ASSUME ContentInvariant, final.manifest.state = "whole", kind # "trades",
           NEW parts, parts = final.files.parts
    PROVE  /\ ByDay(parts, Rows, Len(Rows)) /\ final.manifest.stats = Stats(Rows, Len(Rows))
           /\ Reread(parts) = Rows /\ Ordered(Rows)
<1>1. /\ Sourced /\ SourceOk /\ Complete(final.files)
      /\ final.manifest.stats = Stats(Rows, Len(Rows))
  BY DEF ContentInvariant, FinalContent, Counted
<1>2. /\ parts \in Seq([day : Int, rows : Seq(Quotes)]) /\ ByDay(parts, Rows, Len(Rows))
      /\ \A i \in 2 .. Len(Rows) : Rows[i - 1].at <= Rows[i].at
  BY <1>1 DEF Complete, Ascending
<1>3. PICK ticks \in Seq(Quotes) : ticks = Rows
  BY <1>1, RowsIn
<1>4. Reread(parts) = ticks
  BY <1>2, <1>3, ReplayHolds
<1> QED
  BY <1>1, <1>2, <1>3, <1>4 DEF Ordered

\* The content is all the property asks for.
LEMMA ContentIsWhole ==
    ASSUME ContentInvariant
    PROVE  PublishedIsWhole
<1> SUFFICES ASSUME final.manifest.state = "whole", kind # "trades"
             PROVE  LET parts == final.files.parts
                    IN  /\ ByDay(parts, Rows, Len(Rows)) /\ final.manifest.stats = Stats(Rows, Len(Rows))
                        /\ ~Replay(parts).raises
                        /\ [i \in DOMAIN Rows |-> Rows[i].at] =
                             [i \in DOMAIN Replay(parts).events |-> Replay(parts).events[i].at]
                        /\ kind = "merge" =>
                             \A i \in DOMAIN Rows :
                               Rows[i] = [at |-> source.bids[i].at, ask |-> source.asks[i].price,
                                          bid |-> source.bids[i].price]
                        /\ kind = "ticks" =>
                             (IsUsable(source) <=> \A i \in DOMAIN source :
                                 /\ source[i].own
                                 /\ \A k \in DOMAIN source : k # i => source[k].at # source[i].at)
  <2>1. CASE kind = "trades"
    BY <2>1, TradesWhole DEF PublishedIsWhole
  <2>2. CASE kind # "trades"
    BY <2>2 DEF PublishedIsWhole
  <2> QED
    BY <2>1, <2>2
<1>1. Sourced /\ SourceOk
  BY DEF ContentInvariant, FinalContent
<1>2. PICK parts : parts = final.files.parts
  OBVIOUS
<1>3. /\ ByDay(parts, Rows, Len(Rows)) /\ final.manifest.stats = Stats(Rows, Len(Rows))
      /\ Reread(parts) = Rows /\ Ordered(Rows)
  BY <1>2, QuotesWhole
<1>4. ~Replay(parts).raises
  BY <1>3 DEF Replay
<1>5. [i \in DOMAIN Rows |-> Rows[i].at] =
        [i \in DOMAIN Replay(parts).events |-> Replay(parts).events[i].at]
  <2>1. Replay(parts).events = [i \in DOMAIN Rows |-> [sequence |-> i, at |-> Rows[i].at]]
    BY <1>3 DEF Replay
  <2>2. PICK events : events = Replay(parts).events
    OBVIOUS
  <2>3. DOMAIN events = DOMAIN Rows /\ \A i \in DOMAIN Rows : events[i].at = Rows[i].at
    BY <2>1, <2>2
  <2> QED
    BY <2>2, <2>3
<1>6. ASSUME kind = "merge", NEW i \in DOMAIN Rows
      PROVE  Rows[i] = [at |-> source.bids[i].at, ask |-> source.asks[i].price,
                        bid |-> source.bids[i].price]
  <2>1. source \in [asks : Seq(SideRow), bids : Seq(SideRow)] /\ Rows # <<>>
    BY <1>1, <1>6 DEF Sourced, SourceOk, Acceptable
  <2>2. PICK asks \in Seq(SideRow), bids \in Seq(SideRow) : asks = source.asks /\ bids = source.bids
    BY <2>1
  <2>3. CanMerge(asks, bids) /\ Rows = Merged(asks, bids)
    BY <1>6, <2>1, <2>2 DEF Rows
  <2>4. DOMAIN Rows = DOMAIN asks /\ DOMAIN asks = 1 .. Len(asks)
    BY <2>3, LenProperties DEF Merged
  <2>5. i \in 1 .. Len(asks)
    BY <1>6, <2>4
  <2>6. Merged(asks, bids)[i] = [at |-> bids[i].at, ask |-> asks[i].price, bid |-> bids[i].price]
    BY <2>3, <2>5, MergedIn
  <2> QED
    BY <2>2, <2>3, <2>6
<1>7. ASSUME kind = "ticks"
      PROVE  IsUsable(source) <=> \A i \in DOMAIN source :
               /\ source[i].own
               /\ \A k \in DOMAIN source : k # i => source[k].at # source[i].at
  <2>1. source \in Seq(TickRow) /\ Acceptable(Ticks(source, Zone))
    BY <1>1, <1>7 DEF Sourced, SourceOk, Rows
  <2> QED
    BY <2>1, UsableIs
<1> QED
  BY <1>2, <1>3, <1>4, <1>5, <1>6, <1>7

\* A data set whose manifest can be read holds each row of its source once, in
\* the file of its day and in order, is counted right, and a replay of it runs
\* through; of a trade history it holds one row for each ticket.
THEOREM PublishedIsWholeAlways == Sourced /\ Spec => []PublishedIsWhole
<1>1. ContentInvariant => PublishedIsWhole
  BY ContentIsWhole
<1> QED
  BY <1>1, ContentAlways, PTL

-----------------------------------------------------------------------------
(* The registry of experiments                                             *)

RunRecord == [pc : {"idle", "look", "make", "open", "fill", "read", "append"},
         lab : Labs, read : Seq(Entry), overlapped : BOOLEAN,
         error : {"", "new", "report", "registry", "died"}]

-----------------------------------------------------------------------------
(* The chain of lines                                                      *)

\* What a line must carry is the hash of the line before it.
LEMMA HashBefore ==
    ASSUME NEW lines \in Seq(Entry), NEW i \in DOMAIN lines
    PROVE  Hash(LastOf(SubSeq(lines, 1, i - 1))) = IF i = 1 THEN 0 ELSE lines[i - 1].hash
<1>1. i \in 1 .. Len(lines) /\ Len(lines) \in Nat
  BY LenProperties
<1>2. CASE i = 1
  <2>1. SubSeq(lines, 1, 0) = << >>
    BY <1>1
  <2> QED
    BY <1>2, <2>1 DEF Hash, LastOf
<1>3. CASE i # 1
  <2>1. SubSeq(lines, 1, i - 1) = [k \in 1 .. (i - 1) |-> lines[k]]
    BY <1>1, <1>3
  <2>2. Len(SubSeq(lines, 1, i - 1)) = i - 1
    BY <1>1, <1>3
  <2>3. SubSeq(lines, 1, i - 1)[i - 1] = lines[i - 1]
    BY <1>1, <1>3, <2>1
  <2>4. SubSeq(lines, 1, i - 1) # << >>
    BY <1>1, <1>3, <2>2
  <2> QED
    BY <1>3, <2>2, <2>3, <2>4 DEF Hash, LastOf, Last
<1> QED
  BY <1>2, <1>3

LEMMA ReadableIs ==
    ASSUME NEW lines \in Seq(Entry)
    PROVE  Readable(lines) <=>
             \A i \in 1 .. Len(lines) :
               /\ lines[i].whole /\ lines[i].sequence = i
               /\ lines[i].previous = IF i = 1 THEN 0 ELSE lines[i - 1].hash
<1>1. DOMAIN lines = 1 .. Len(lines)
  BY LenProperties
<1> QED
  BY <1>1, HashBefore DEF Readable

\* A line that is appended fits if its writer has read the whole log.
LEMMA ReadableAppend ==
    ASSUME NEW lines \in Seq(Entry), NEW entry \in Entry
    PROVE  Readable(Append(lines, entry)) <=>
             /\ Readable(lines) /\ entry.whole /\ entry.sequence = Len(lines) + 1
             /\ entry.previous = Hash(LastOf(lines))
<1>1. PICK longer : longer = Append(lines, entry)
  OBVIOUS
<1>2. /\ longer \in Seq(Entry) /\ Len(lines) \in Nat /\ Len(longer) = Len(lines) + 1
      /\ longer[Len(lines) + 1] = entry
      /\ \A i \in 1 .. Len(lines) : longer[i] = lines[i]
  BY <1>1, AppendProperties, LenProperties
<1>3. Hash(LastOf(lines)) = IF Len(lines) = 0 THEN 0 ELSE lines[Len(lines)].hash
  <2>1. CASE lines = << >>
    BY <2>1 DEF Hash, LastOf
  <2>2. CASE lines # << >>
    <3>1. Len(lines) # 0
      BY <2>2, EmptySeq
    <3> QED
      BY <1>2, <2>2, <3>1 DEF Hash, LastOf, Last
  <2> QED
    BY <2>1, <2>2
<1> DEFINE Fits(some, i) == /\ some[i].whole /\ some[i].sequence = i
                            /\ some[i].previous = IF i = 1 THEN 0 ELSE some[i - 1].hash
<1>4. Readable(lines) <=> \A i \in 1 .. Len(lines) : Fits(lines, i)
  BY ReadableIs
<1>5. Readable(longer) <=> \A i \in 1 .. (Len(lines) + 1) : Fits(longer, i)
  BY <1>2, ReadableIs
<1>6. ASSUME NEW i \in 1 .. Len(lines)
      PROVE  Fits(longer, i) <=> Fits(lines, i)
  <2>1. longer[i] = lines[i]
    BY <1>2
  <2>2. CASE i = 1
    BY <2>1, <2>2
  <2>3. CASE i # 1
    <3>1. i - 1 \in 1 .. Len(lines)
      BY <1>2, <2>3
    <3>2. longer[i - 1] = lines[i - 1]
      BY <1>2, <3>1
    <3> QED
      BY <2>1, <2>3, <3>2
  <2> QED
    BY <2>2, <2>3
<1>7. Fits(longer, Len(lines) + 1)
        <=> /\ entry.whole /\ entry.sequence = Len(lines) + 1
            /\ entry.previous = Hash(LastOf(lines))
  <2>1. CASE Len(lines) = 0
    BY <1>2, <1>3, <2>1
  <2>2. CASE Len(lines) # 0
    <3>1. Len(lines) \in 1 .. Len(lines) /\ (Len(lines) + 1) - 1 = Len(lines) /\ Len(lines) + 1 # 1
      BY <1>2, <2>2
    <3>2. longer[(Len(lines) + 1) - 1] = lines[Len(lines)]
      BY <1>2, <3>1
    <3> QED
      BY <1>2, <1>3, <2>2, <3>1, <3>2
  <2> QED
    BY <2>1, <2>2
<1>8. 1 .. (Len(lines) + 1) = (1 .. Len(lines)) \union {Len(lines) + 1}
  BY <1>2
<1> HIDE DEF Fits
<1> QED
  BY <1>1, <1>4, <1>5, <1>6, <1>7, <1>8

-----------------------------------------------------------------------------
(* Types                                                                   *)

LEMMA Types ==
    ASSUME RegistryTypeOK
    PROVE  /\ log \in Seq(Entry) /\ Len(log) \in Nat /\ DOMAIN log = 1 .. Len(log)
           /\ \A i \in DOMAIN log : log[i] \in Entry /\ log[i].lab \in Labs
           /\ report \in [Labs -> {"none", "dir", "cut", "whole"}]
           /\ run \in [Researchers -> RunRecord] /\ runs \in Nat /\ runDeaths \in Nat
           /\ \A c \in Researchers : /\ run[c].lab \in Labs /\ run[c].read \in Seq(Entry)
                                 /\ Len(run[c].read) \in Nat
                                 /\ DOMAIN run[c].read = 1 .. Len(run[c].read)
<1>1. /\ log \in Seq(Entry) /\ run \in [Researchers -> RunRecord] /\ runs \in Nat /\ runDeaths \in Nat
      /\ report \in [Labs -> {"none", "dir", "cut", "whole"}]
  BY DEF RegistryTypeOK, RunRecord
<1>2. Len(log) \in Nat /\ DOMAIN log = 1 .. Len(log)
  BY <1>1, LenProperties
<1>3. \A i \in DOMAIN log : log[i] \in Entry
  BY <1>1, <1>2, ElementOfSeq
<1>4. \A c \in Researchers : run[c].lab \in Labs /\ run[c].read \in Seq(Entry)
  BY <1>1 DEF RunRecord
<1>5. \A c \in Researchers : /\ Len(run[c].read) \in Nat
                         /\ DOMAIN run[c].read = 1 .. Len(run[c].read)
  BY <1>4, LenProperties
<1> QED
  BY <1>1, <1>2, <1>3, <1>4, <1>5 DEF Entry

\* What a step makes of the call it belongs to; the others go on.
LEMMA ProceedIs ==
    ASSUME RegistryTypeOK, NEW c \in Researchers, NEW pc, Proceed(c, pc),
           pc \in {"idle", "look", "make", "open", "fill", "read", "append"}
    PROVE  /\ run' \in [Researchers -> RunRecord] /\ run'[c] = [run[c] EXCEPT !.pc = pc]
           /\ \A o \in Researchers \ {c} : run'[o] = run[o]
<1>1. run \in [Researchers -> RunRecord]
  BY Types
<1>2. run' = [run EXCEPT ![c] = [run[c] EXCEPT !.pc = pc]]
  BY <1>1 DEF Proceed
<1>3. [run[c] EXCEPT !.pc = pc] \in RunRecord
  BY <1>1 DEF RunRecord
<1> QED
  BY <1>1, <1>2, <1>3

LEMMA StopIs ==
    ASSUME RegistryTypeOK, NEW c \in Researchers, NEW error, Stop(c, error),
           error \in {"", "new", "report", "registry", "died"}
    PROVE  /\ run' \in [Researchers -> RunRecord]
           /\ run'[c] = [run[c] EXCEPT !.pc = "idle", !.error = error]
           /\ \A o \in Researchers \ {c} : run'[o] = run[o]
<1>1. run \in [Researchers -> RunRecord]
  BY Types
<1>2. run' = [run EXCEPT ![c] = [run[c] EXCEPT !.pc = "idle", !.error = error]]
  BY <1>1 DEF Stop
<1>3. [run[c] EXCEPT !.pc = "idle", !.error = error] \in RunRecord
  BY <1>1 DEF RunRecord
<1> QED
  BY <1>1, <1>2, <1>3

LEMMA NoRunIs ==
    NoRun \in RunRecord /\ NoRun.pc = "idle" /\ NoRun.error = "new" /\ NoRun.overlapped = FALSE
<1>1. (CHOOSE l \in Labs : TRUE) \in Labs
  BY LabsAssumption
<1>2. << >> \in Seq(Entry)
  BY EmptySeq
<1> QED
  BY <1>1, <1>2 DEF NoRun, RunRecord

LEMMA StartIs ==
    ASSUME RegistryTypeOK, NEW c \in Researchers, Start(c)
    PROVE  \E l \in Labs :
             /\ run' \in [Researchers -> RunRecord] /\ run[c].pc = "idle"
             /\ run'[c].pc = IF l \in WriteOnce THEN "look" ELSE "make"
             /\ run'[c].lab = l /\ run'[c].error = "new"
             /\ run[c].overlapped => run'[c].overlapped
             /\ ~run'[c].overlapped => \A o \in Researchers \ {c} : run[o].pc = "idle"
             /\ \A o \in Researchers \ {c} :
                  /\ run'[o].pc = run[o].pc /\ run'[o].lab = run[o].lab
                  /\ run'[o].read = run[o].read /\ run'[o].error = run[o].error
                  /\ run[o].overlapped => run'[o].overlapped
<1>1. PICK l \in Labs, others \in SUBSET Researchers :
        /\ others = {o \in Researchers \ {c} : run[o].pc # "idle"}
        /\ run' = [o \in Researchers |->
             IF o = c THEN [NoRun EXCEPT !.pc = IF l \in WriteOnce THEN "look" ELSE "make",
                                         !.lab = l,
                                         !.overlapped = run[c].overlapped \/ others # {}]
             ELSE [run[o] EXCEPT !.overlapped = @ \/ o \in others]]
  BY Zenon DEF Start
<1>2. PICK pc, overlapped : /\ pc = IF l \in WriteOnce THEN "look" ELSE "make"
                            /\ overlapped = (run[c].overlapped \/ others # {})
  OBVIOUS
<1>3. PICK new : new = [NoRun EXCEPT !.pc = pc, !.lab = l, !.overlapped = overlapped]
  OBVIOUS
<1>4. run \in [Researchers -> RunRecord] /\ NoRun \in RunRecord
  BY Types, NoRunIs
<1>5. overlapped \in BOOLEAN /\ pc \in {"look", "make"}
  BY <1>2
<1>6. /\ new \in RunRecord /\ new.pc = pc /\ new.lab = l /\ new.error = "new"
      /\ new.overlapped = overlapped
  BY <1>3, <1>4, <1>5, NoRunIs DEF RunRecord
<1>7. run'[c] = new
  BY <1>1, <1>2, <1>3
<1>8. ASSUME NEW o \in Researchers \ {c}
      PROVE  /\ run'[o] \in RunRecord
             /\ run'[o].pc = run[o].pc /\ run'[o].lab = run[o].lab
             /\ run'[o].read = run[o].read /\ run'[o].error = run[o].error
             /\ run[o].overlapped => run'[o].overlapped
  <2>1. PICK flag : flag = (run[o].overlapped \/ o \in others)
    OBVIOUS
  <2>2. flag \in BOOLEAN /\ run[o] \in RunRecord
    BY <1>4, <2>1
  <2>3. run'[o] = [run[o] EXCEPT !.overlapped = flag]
    BY <1>1, <2>1, <2>2, ZenonT(30) DEF RunRecord
  <2> QED
    BY <2>1, <2>2, <2>3 DEF RunRecord
<1>9. run' \in [Researchers -> RunRecord]
  <2>1. \A o \in Researchers : run'[o] \in RunRecord
    BY <1>6, <1>7, <1>8
  <2> QED
    BY <1>1, <2>1
<1>10. ~overlapped => ~run[c].overlapped /\ \A o \in Researchers \ {c} : run[o].pc = "idle"
  BY <1>1, <1>2
<1>11. run[c].pc = "idle"
  BY DEF Start
<1> QED
  BY <1>2, <1>6, <1>7, <1>8, <1>9, <1>10, <1>11, SMTT(30)

LEMMA ReadIs ==
    ASSUME RegistryTypeOK, NEW c \in Researchers,
           run' = [run EXCEPT ![c].pc = "append", ![c].read = log]
    PROVE  /\ run' \in [Researchers -> RunRecord]
           /\ run'[c] = [run[c] EXCEPT !.pc = "append", !.read = log]
           /\ \A o \in Researchers \ {c} : run'[o] = run[o]
<1>1. run \in [Researchers -> RunRecord] /\ log \in Seq(Entry)
  BY Types
<1>2. run' = [run EXCEPT ![c] = [run[c] EXCEPT !.pc = "append", !.read = log]]
  BY <1>1
<1>3. [run[c] EXCEPT !.pc = "append", !.read = log] \in RunRecord
  BY <1>1 DEF RunRecord
<1> QED
  BY <1>1, <1>2, <1>3

LEMMA LineIs ==
    ASSUME RegistryTypeOK, NEW c \in Researchers, NEW whole \in BOOLEAN
    PROVE  /\ Line(c, whole) \in Entry /\ Line(c, whole).lab = run[c].lab
           /\ Line(c, whole).whole = whole
           /\ Line(c, whole).sequence = Len(run[c].read) + 1
           /\ Line(c, whole).previous = Hash(LastOf(run[c].read))
<1>1. run[c].read \in Seq(Entry) /\ Len(run[c].read) \in Nat /\ Len(log) \in Nat
      /\ run[c].lab \in Labs
  BY Types
<1>2. Hash(LastOf(run[c].read)) \in Nat
  <2>1. CASE run[c].read = << >>
    BY <2>1 DEF Hash, LastOf
  <2>2. CASE run[c].read # << >>
    <3>1. Len(run[c].read) \in 1 .. Len(run[c].read)
      BY <1>1, <2>2, EmptySeq
    <3>2. run[c].read[Len(run[c].read)] \in Entry
      BY <1>1, <3>1, ElementOfSeq
    <3> QED
      BY <2>2, <3>2 DEF Hash, LastOf, Last, Entry
  <2> QED
    BY <2>1, <2>2
<1> QED
  BY <1>1, <1>2 DEF Line, Entry

\* The log stays as it is or gets one line, which is whole if its writer lives.
LEMMA LogIs ==
    ASSUME RegistryTypeOK, NEW c \in Researchers, Lab(c)
    PROVE  \/ log' = log
           \/ \E whole \in BOOLEAN :
                /\ log' = Append(log, Line(c, whole)) /\ run[c].pc = "append"
                /\ whole => runDeaths' = runDeaths
                /\ ~whole => runDeaths' = runDeaths + 1
<1>1. CASE AppendLine(c)
  <2>1. log' = log \/ log' = Append(log, Line(c, TRUE))
    BY <1>1 DEF AppendLine
  <2> QED
    BY <1>1, <2>1 DEF AppendLine
<1>2. CASE DieRegistering(c)
  BY <1>2 DEF DieRegistering
<1>3. CASE ~AppendLine(c) /\ ~DieRegistering(c)
  BY <1>3 DEF Lab, Start, LookForReport, MakeDirectory, OpenReport, FillReport, ReadLog
<1> QED
  BY <1>1, <1>2, <1>3

\* The other calls only learn that they are not alone.
LEMMA OthersProceed ==
    ASSUME RegistryTypeOK, NEW c \in Researchers, Lab(c)
    PROVE  /\ run' \in [Researchers -> RunRecord]
           /\ run[c].overlapped => run'[c].overlapped
           /\ \A o \in Researchers \ {c} :
                /\ run'[o].pc = run[o].pc /\ run'[o].lab = run[o].lab
                /\ run'[o].read = run[o].read /\ run'[o].error = run[o].error
                /\ run[o].overlapped => run'[o].overlapped
           /\ run'[c].lab # run[c].lab => run[c].pc = "idle"
<1> DEFINE Only(made) == /\ run' \in [Researchers -> RunRecord] /\ run'[c] = made
                         /\ \A o \in Researchers \ {c} : run'[o] = run[o]
<1>1. run[c] \in RunRecord
  BY Types
<1>2. CASE Start(c)
  BY <1>2, StartIs
<1>3. ASSUME NEW pc \in {"idle", "look", "make", "open", "fill", "read", "append"}, Proceed(c, pc)
      PROVE  Only([run[c] EXCEPT !.pc = pc])
  BY <1>3, ProceedIs
<1>4. ASSUME NEW error \in {"", "new", "report", "registry", "died"}, Stop(c, error)
      PROVE  Only([run[c] EXCEPT !.pc = "idle", !.error = error])
  BY <1>4, StopIs
<1>5. CASE ReadLog(c)
  <2>1. \/ Stop(c, "") \/ Stop(c, "registry")
        \/ run' = [run EXCEPT ![c].pc = "append", ![c].read = log]
    BY <1>5 DEF ReadLog
  <2>2. CASE Stop(c, "") \/ Stop(c, "registry")
    BY <1>1, <1>4, <2>2, ZenonT(30) DEF RunRecord
  <2>3. CASE run' = [run EXCEPT ![c].pc = "append", ![c].read = log]
    <3>1. Only([run[c] EXCEPT !.pc = "append", !.read = log])
      BY <2>3, ReadIs
    <3> QED
      BY <1>1, <3>1 DEF RunRecord
  <2> QED
    BY <2>1, <2>2, <2>3
<1>6. CASE LookForReport(c) \/ MakeDirectory(c)
  <2>1. \/ \E pc \in {"read", "make", "open"} : Proceed(c, pc)
        \/ Stop(c, "report")
    BY <1>6 DEF LookForReport, MakeDirectory
  <2> QED
    BY <1>1, <1>3, <1>4, <2>1, Zenon DEF RunRecord
<1>7. CASE OpenReport(c) \/ FillReport(c)
  <2>1. \E pc \in {"fill", "read"} : Proceed(c, pc)
    BY <1>7 DEF OpenReport, FillReport
  <2> QED
    BY <1>1, <1>3, <2>1 DEF RunRecord
<1>8. CASE AppendLine(c) \/ DieRegistering(c)
  <2>1. \E error \in {"", "died"} : Stop(c, error)
    BY <1>8 DEF AppendLine, DieRegistering
  <2> QED
    BY <1>1, <1>4, <2>1, Zenon DEF RunRecord
<1> QED
  BY <1>2, <1>5, <1>6, <1>7, <1>8 DEF Lab

LEMMA RegistryTypeStep ==
    ASSUME RegistryTypeOK, [RegistryNext]_registryVars
    PROVE  RegistryTypeOK'
<1>1. ASSUME NEW c \in Researchers, Lab(c)
      PROVE  RegistryTypeOK'
  <2>1. run' \in [Researchers -> RunRecord]
    BY <1>1, OthersProceed
  <2>2. log' \in Seq(Entry)
    <3>1. CASE log' = log
      BY <3>1, Types
    <3>2. ASSUME NEW whole \in BOOLEAN, log' = Append(log, Line(c, whole))
          PROVE  log' \in Seq(Entry)
      <4>1. log \in Seq(Entry) /\ Line(c, whole) \in Entry
        BY Types, LineIs
      <4> QED
        BY <3>2, <4>1, AppendProperties
    <3> QED
      BY <1>1, <3>1, <3>2, LogIs
  <2>3. report' \in [Labs -> {"none", "dir", "cut", "whole"}]
    <3>1. \/ report' = report
          \/ \E value \in {"none", "dir", "cut", "whole"} :
               report' = [report EXCEPT ![run[c].lab] = value]
      <4>1. CASE MakeDirectory(c)
        <5>1. report \in [Labs -> {"none", "dir", "cut", "whole"}] /\ run[c].lab \in Labs
          BY Types
        <5>2. PICK value : value = IF report[run[c].lab] = "none" THEN "dir"
                                   ELSE report[run[c].lab]
          OBVIOUS
        <5>3. value \in {"none", "dir", "cut", "whole"}
          BY <5>1, <5>2
        <5>4. report' = report \/ report' = [report EXCEPT ![run[c].lab] = value]
          BY <4>1, <5>1, <5>2 DEF MakeDirectory
        <5> QED
          BY <5>3, <5>4
      <4>2. CASE OpenReport(c) \/ FillReport(c)
        BY <4>2, SMTT(30) DEF OpenReport, FillReport
      <4>3. CASE ~MakeDirectory(c) /\ ~OpenReport(c) /\ ~FillReport(c)
        BY <1>1, <4>3 DEF Lab, Start, LookForReport, ReadLog, AppendLine, DieRegistering
      <4> QED
        BY <4>1, <4>2, <4>3
    <3> QED
      BY <3>1, Types
  <2>4. runs' \in Nat /\ runDeaths' \in Nat
    <3>1. /\ runs' = runs \/ runs' = runs + 1
          /\ runDeaths' = runDeaths \/ runDeaths' = runDeaths + 1
      BY <1>1 DEF Lab, Start, LookForReport, MakeDirectory, OpenReport, FillReport, ReadLog,
         AppendLine, DieRegistering
    <3> QED
      BY <3>1, Types, SMTT(30)
  <2> QED
    BY <2>1, <2>2, <2>3, <2>4 DEF RegistryTypeOK, RunRecord
<1>2. CASE UNCHANGED registryVars
  BY <1>2 DEF RegistryTypeOK, registryVars
<1> QED
  BY <1>1, <1>2 DEF RegistryNext

-----------------------------------------------------------------------------
(* The log                                                                 *)

\* From one step of a call to the next, and what happens to its report.
LEMMA CallSteps ==
    ASSUME RegistryTypeOK, NEW c \in Researchers, Lab(c), NEW l, l = run[c].lab
    PROVE  \/ run'[c].pc = "idle" /\ report' = report
           \/ /\ run[c].pc = "idle" /\ run'[c].pc \in {"look", "make"} /\ report' = report
              /\ run'[c].lab \in WriteOnce => run'[c].pc = "look"
           \/ /\ run[c].pc = "look" /\ run'[c].lab = l /\ report' = report
              /\ \/ run'[c].pc = "make" /\ report[l] \notin {"whole", "cut"}
                 \/ run'[c].pc = "read" /\ report[l] = "whole"
           \/ /\ run[c].pc = "make" /\ run'[c].pc = "open" /\ run'[c].lab = l
              /\ report' = [report EXCEPT ![l] = IF report[l] = "none" THEN "dir" ELSE report[l]]
              /\ l \in WriteOnce => report[l] = "none"
           \/ /\ run[c].pc = "open" /\ run'[c].pc = "fill" /\ run'[c].lab = l
              /\ report' = [report EXCEPT ![l] = "cut"]
           \/ /\ run[c].pc = "fill" /\ run'[c].pc = "read" /\ run'[c].lab = l
              /\ report' = [report EXCEPT ![l] = "whole"]
           \/ /\ run[c].pc = "read" /\ run'[c].pc = "append" /\ run'[c].lab = l
              /\ report' = report /\ run'[c].read = log /\ log' = log /\ Readable(log)
              /\ \A i \in DOMAIN log : log[i].lab # l
<1>1. run[c] \in RunRecord /\ report \in [Labs -> {"none", "dir", "cut", "whole"}] /\ l \in Labs
  BY Types
<1>2. ASSUME NEW pc \in {"idle", "look", "make", "open", "fill", "read", "append"}, Proceed(c, pc)
      PROVE  run'[c].pc = pc /\ run'[c].lab = l
  <2>1. run'[c] = [run[c] EXCEPT !.pc = pc]
    BY <1>2, ProceedIs
  <2> QED
    BY <1>1, <2>1 DEF RunRecord
<1>3. ASSUME NEW error \in {"", "new", "report", "registry", "died"}, Stop(c, error)
      PROVE  run'[c].pc = "idle"
  <2>1. run'[c] = [run[c] EXCEPT !.pc = "idle", !.error = error]
    BY <1>3, StopIs, Zenon
  <2> QED
    BY <1>1, <2>1 DEF RunRecord
<1>4. CASE Start(c)
  BY <1>4, StartIs, ZenonT(30) DEF Start
<1>5. CASE LookForReport(c)
  <2>1. CASE Proceed(c, "read") /\ report[l] = "whole"
    BY <1>2, <1>5, <2>1 DEF LookForReport
  <2>2. CASE Stop(c, "report")
    BY <1>3, <1>5, <2>2 DEF LookForReport
  <2>3. CASE Proceed(c, "make") /\ report[l] \notin {"whole", "cut"}
    BY <1>2, <1>5, <2>3 DEF LookForReport
  <2> QED
    BY <1>5, <2>1, <2>2, <2>3 DEF LookForReport
<1>6. CASE MakeDirectory(c)
  <2>1. CASE Stop(c, "report") /\ report' = report
    BY <1>3, <2>1
  <2>2. CASE /\ Proceed(c, "open")
             /\ l \in WriteOnce => report[l] = "none"
             /\ report' = [report EXCEPT ![l] = IF report[l] = "none" THEN "dir" ELSE report[l]]
    BY <1>2, <1>6, <2>2 DEF MakeDirectory
  <2>3. \/ Stop(c, "report") /\ report' = report
        \/ /\ Proceed(c, "open")
           /\ l \in WriteOnce => report[l] = "none"
           /\ report' = [report EXCEPT ![l] = IF @ = "none" THEN "dir" ELSE @]
    BY <1>6 DEF MakeDirectory
  <2> QED
    BY <1>1, <2>1, <2>2, <2>3
<1>7. CASE OpenReport(c) \/ FillReport(c)
  BY <1>2, <1>7 DEF OpenReport, FillReport
<1>8. CASE ReadLog(c)
  <2>1. CASE Stop(c, "") \/ Stop(c, "registry")
    BY <1>3, <1>8, <2>1 DEF ReadLog
  <2>2. CASE /\ run' = [run EXCEPT ![c].pc = "append", ![c].read = log]
             /\ Readable(log) /\ \A i \in DOMAIN log : log[i].lab # run[c].lab
    <3>1. run'[c] = [run[c] EXCEPT !.pc = "append", !.read = log]
      BY <2>2, ReadIs
    <3>2. run'[c].pc = "append" /\ run'[c].read = log /\ run'[c].lab = l
      BY <1>1, <3>1 DEF RunRecord
    <3> QED
      BY <1>8, <2>2, <3>2 DEF ReadLog
  <2> QED
    BY <1>8, <2>1, <2>2 DEF ReadLog
<1>9. CASE AppendLine(c) \/ DieRegistering(c)
  BY <1>3, <1>9 DEF AppendLine, DieRegistering
<1> QED
  BY <1>4, <1>5, <1>6, <1>7, <1>8, <1>9 DEF Lab

\* The lines that are in the log stay there.
LEMMA LogGrows ==
    ASSUME RegistryTypeOK, NEW c \in Researchers, Lab(c)
    PROVE  /\ Len(log) <= Len(log') /\ DOMAIN log \subseteq DOMAIN log'
           /\ \A i \in DOMAIN log : log'[i] = log[i]
           /\ \A i \in DOMAIN log' \ DOMAIN log :
                log'[i].lab = run[c].lab /\ run[c].pc = "append"
<1>1. log \in Seq(Entry) /\ Len(log) \in Nat /\ DOMAIN log = 1 .. Len(log)
  BY Types
<1>2. CASE log' = log
  BY <1>1, <1>2
<1>3. ASSUME NEW whole \in BOOLEAN, log' = Append(log, Line(c, whole)), run[c].pc = "append"
      PROVE  /\ Len(log) <= Len(log') /\ DOMAIN log \subseteq DOMAIN log'
             /\ \A i \in DOMAIN log : log'[i] = log[i]
             /\ \A i \in DOMAIN log' \ DOMAIN log :
                  log'[i].lab = run[c].lab /\ run[c].pc = "append"
  <2>1. Line(c, whole) \in Entry /\ Line(c, whole).lab = run[c].lab
    BY LineIs
  <2>2. /\ Len(log') = Len(log) + 1 /\ DOMAIN log' = 1 .. (Len(log) + 1)
        /\ log'[Len(log) + 1] = Line(c, whole)
        /\ \A i \in 1 .. Len(log) : log'[i] = log[i]
    BY <1>1, <1>3, <2>1, AppendProperties, LenProperties
  <2>3. \A i \in DOMAIN log' \ DOMAIN log : i = Len(log) + 1
    BY <1>1, <2>2
  <2> QED
    BY <1>1, <1>3, <2>1, <2>2, <2>3
<1> QED
  BY <1>2, <1>3, LogIs

LEMMA LogStep ==
    ASSUME RegistryTypeOK, LogInvariant, NEW c \in Researchers, Lab(c)
    PROVE  LogInvariant'
<1>1. /\ Len(log) \in Nat /\ DOMAIN log = 1 .. Len(log) /\ log \in Seq(Entry)
      /\ RegistryTypeOK' /\ Len(log') \in Nat /\ DOMAIN log' = 1 .. Len(log')
  <2>1. RegistryTypeOK'
    BY RegistryTypeStep DEF RegistryNext
  <2>2. log' \in Seq(Entry)
    BY <2>1 DEF RegistryTypeOK
  <2> QED
    BY <2>1, <2>2, Types, LenProperties
<1>2. ASSUME NEW o \in Researchers, run'[o].pc = "append"
      PROVE  /\ Len(run'[o].read) <= Len(log')
             /\ \A i \in DOMAIN run'[o].read :
                  run'[o].read[i] = log'[i] /\ log'[i].lab # run'[o].lab
  <2>1. CASE o = c
    <3>1. run'[c].lab = run[c].lab /\ run'[c].read = log /\ log' = log
          /\ \A i \in DOMAIN log : log[i].lab # run[c].lab
      BY <1>2, <2>1, CallSteps
    <3> QED
      BY <1>1, <2>1, <3>1
  <2>2. CASE o # c
    <3>1. /\ run'[o].pc = run[o].pc /\ run'[o].lab = run[o].lab
          /\ run'[o].read = run[o].read
      BY <2>2, OthersProceed
    <3>2. /\ Len(run[o].read) <= Len(log)
          /\ \A i \in DOMAIN run[o].read :
               run[o].read[i] = log[i] /\ log[i].lab # run[o].lab
      BY <1>2, <3>1 DEF LogInvariant
    <3>3. /\ Len(run[o].read) \in Nat /\ DOMAIN run[o].read = 1 .. Len(run[o].read)
      BY Types
    <3>4. Len(log) <= Len(log') /\ \A i \in DOMAIN log : log'[i] = log[i]
      BY LogGrows
    <3> QED
      BY <1>1, <3>1, <3>2, <3>3, <3>4
  <2> QED
    BY <2>1, <2>2
<1>3. ASSUME Readable(log)'
      PROVE  \A i, j \in DOMAIN log' : i # j => log'[i].lab # log'[j].lab
  <2>1. CASE log' = log
    BY <1>3, <2>1 DEF LogInvariant, Readable
  <2>2. ASSUME NEW whole \in BOOLEAN, log' = Append(log, Line(c, whole)), run[c].pc = "append"
        PROVE  \A i, j \in DOMAIN log' : i # j => log'[i].lab # log'[j].lab
    <3>1. /\ Line(c, whole) \in Entry /\ Line(c, whole).lab = run[c].lab
          /\ Line(c, whole).sequence = Len(run[c].read) + 1
      BY LineIs
    <3>2. Readable(Append(log, Line(c, whole)))
      BY <1>3, <2>2 DEF Readable
    <3>3. Readable(log) /\ Len(run[c].read) + 1 = Len(log) + 1
      BY <1>1, <3>1, <3>2, ReadableAppend
    <3>4. /\ Len(run[c].read) \in Nat /\ DOMAIN run[c].read = 1 .. Len(run[c].read)
      BY Types
    <3>5. DOMAIN run[c].read = DOMAIN log
      BY <1>1, <3>3, <3>4
    <3>6. \A i \in DOMAIN log : log[i].lab # run[c].lab
      BY <2>2, <3>5 DEF LogInvariant
    <3>7. \A i, j \in DOMAIN log : i # j => log[i].lab # log[j].lab
      BY <3>3 DEF LogInvariant
    <3>8. /\ DOMAIN log' = 1 .. (Len(log) + 1) /\ log'[Len(log) + 1] = Line(c, whole)
          /\ \A i \in DOMAIN log : log'[i] = log[i]
      BY <1>1, <2>2, <3>1, AppendProperties, LenProperties
    <3>9. \A i \in DOMAIN log' : i \in DOMAIN log \/ i = Len(log) + 1
      BY <1>1, <3>8
    <3> QED
      BY <3>1, <3>6, <3>7, <3>8, <3>9
  <2> QED
    BY <2>1, <2>2, LogIs
<1> QED
  BY <1>2, <1>3 DEF LogInvariant

-----------------------------------------------------------------------------
(* The reports                                                             *)

\* How the report of a lab that writes it once fits the call c.
Fits(c) ==
  /\ run[c].pc = "open" => report[run[c].lab] = "dir"
  /\ run[c].pc = "fill" => report[run[c].lab] = "cut"
  /\ run[c].pc \in {"read", "append"} => report[run[c].lab] = "whole"

LEMMA ReportStep ==
    ASSUME RegistryTypeOK, ReportInvariant, NEW c \in Researchers, Lab(c)
    PROVE  ReportInvariant'
<1>1. PICK l \in Labs : l = run[c].lab
  BY Types
<1>2. report \in [Labs -> {"none", "dir", "cut", "whole"}]
  BY Types
<1>3. /\ \A o \in Researchers : run[o].lab \in WriteOnce =>
           /\ Fits(o)
           /\ \A p \in Researchers \ {o} : Writing(o) /\ Writing(p) => run[p].lab # run[o].lab
      /\ \A i \in DOMAIN log : log[i].lab \in WriteOnce => report[log[i].lab] = "whole"
  BY DEF ReportInvariant, Fits
<1>4. \A o \in Researchers \ {c} : run'[o].pc = run[o].pc /\ run'[o].lab = run[o].lab
  BY OthersProceed
<1>5. /\ DOMAIN log \subseteq DOMAIN log' /\ \A i \in DOMAIN log : log'[i] = log[i]
      /\ \A i \in DOMAIN log' \ DOMAIN log : log'[i].lab = l /\ run[c].pc = "append"
  BY <1>1, LogGrows
<1>6. SUFFICES
        /\ \A o \in Researchers : run'[o].lab \in WriteOnce =>
             /\ Fits(o)'
             /\ \A p \in Researchers \ {o} :
                  run'[o].pc \in {"open", "fill"} /\ run'[p].pc \in {"open", "fill"}
                    => run'[p].lab # run'[o].lab
        /\ \A i \in DOMAIN log' : log'[i].lab \in WriteOnce => report'[log'[i].lab] = "whole"
  BY DEF ReportInvariant, Fits, Writing
<1>7. CASE report' = report /\ run'[c].pc \notin {"open", "fill"}
  <2>1. run'[c].pc \in {"read", "append"} /\ run'[c].lab \in WriteOnce
          => report[run'[c].lab] = "whole"
    <3>1. /\ run'[c].pc \in {"read", "append"}
          => /\ run'[c].lab = l
             /\ run[c].pc = "read" \/ report[l] = "whole" \/ run[c].pc = "fill"
      BY <1>1, CallSteps
    <3>2. run[c].pc = "fill" => run'[c].pc \notin {"read", "append"} \/ report'[l] = "whole"
      BY <1>1, <1>2, CallSteps
    <3> QED
      BY <1>1, <1>3, <1>7, <3>1, <3>2 DEF Fits
  <2>2. \A o \in Researchers : run'[o].lab \in WriteOnce => Fits(o)'
    BY <1>3, <1>4, <1>7, <2>1 DEF Fits
  <2>3. \A i \in DOMAIN log' : log'[i].lab \in WriteOnce => report'[log'[i].lab] = "whole"
    BY <1>1, <1>3, <1>5, <1>7 DEF Fits
  <2>4. \A o \in Researchers : run'[o].lab \in WriteOnce =>
          \A p \in Researchers \ {o} :
            run'[o].pc \in {"open", "fill"} /\ run'[p].pc \in {"open", "fill"}
              => run'[p].lab # run'[o].lab
    BY <1>3, <1>4, <1>7 DEF Writing
  <2> QED
    BY <2>2, <2>3, <2>4
<1>8. CASE report' # report \/ run'[c].pc \in {"open", "fill"}
  <2>1. PICK before \in {"none", "dir", "cut", "whole"}, after \in {"dir", "cut", "whole"} :
          /\ run'[c].lab = l /\ report' = [report EXCEPT ![l] = after] /\ report[l] = before
          /\ run[c].pc # "append"
          /\ \/ /\ run[c].pc = "make" /\ run'[c].pc = "open"
                /\ l \in WriteOnce => before = "none" /\ after = "dir"
             \/ run[c].pc = "open" /\ run'[c].pc = "fill" /\ after = "cut"
             \/ run[c].pc = "fill" /\ run'[c].pc = "read" /\ after = "whole"
    BY <1>1, <1>2, <1>8, CallSteps
  <2>2. /\ report'[l] = after
        /\ \A m \in Labs \ {l} : report'[m] = report[m]
    BY <1>2, <2>1
  <2>3. l \in WriteOnce => \/ before = "none" /\ after = "dir"
                           \/ before = "dir" /\ after = "cut"
                           \/ before = "cut" /\ after = "whole"
    BY <1>1, <1>3, <2>1 DEF Fits
  <2>4. l \in WriteOnce => \A o \in Researchers \ {c} :
          run[o].lab = l => run[o].pc \notin {"open", "fill", "read", "append"}
    <3> SUFFICES ASSUME l \in WriteOnce, NEW o \in Researchers \ {c}, run[o].lab = l
                 PROVE  run[o].pc \notin {"open", "fill", "read", "append"}
      OBVIOUS
    <3>1. Fits(o) /\ report[l] = before
      BY <1>3, <2>1
    <3>2. run[o].pc \notin {"read", "append"}
      BY <2>3, <3>1 DEF Fits
    <3>3. ~Writing(o)
      <4>1. CASE Writing(c)
        BY <1>1, <1>3, <4>1
      <4>2. CASE ~Writing(c)
        <5>1. before = "none"
          BY <2>1, <4>2 DEF Writing
        <5> QED
          BY <3>1, <5>1 DEF Fits, Writing
      <4> QED
        BY <4>1, <4>2
    <3> QED
      BY <3>2, <3>3 DEF Writing
  <2>5. ASSUME NEW o \in Researchers, run'[o].lab \in WriteOnce
        PROVE  Fits(o)'
    <3>1. CASE o = c
      BY <2>1, <2>2, <2>5, <3>1 DEF Fits
    <3>2. CASE o # c
      <4>1. run'[o].pc = run[o].pc /\ run'[o].lab = run[o].lab /\ run[o].lab \in Labs
        BY <1>4, <3>2, Types
      <4>2. Fits(o)
        BY <1>3, <2>5, <4>1
      <4>3. CASE run[o].lab = l
        <5>1. run[o].pc \notin {"open", "fill", "read", "append"}
          BY <2>4, <2>5, <3>2, <4>1, <4>3
        <5> QED
          BY <4>1, <5>1 DEF Fits
      <4>4. CASE run[o].lab # l
        <5>1. report'[run[o].lab] = report[run[o].lab]
          BY <2>2, <4>1, <4>4
        <5> QED
          BY <4>1, <4>2, <5>1 DEF Fits
      <4> QED
        BY <4>3, <4>4
    <3> QED
      BY <3>1, <3>2
  <2>6. ASSUME NEW o \in Researchers, run'[o].lab \in WriteOnce, NEW p \in Researchers \ {o},
               run'[o].pc \in {"open", "fill"}, run'[p].pc \in {"open", "fill"}
        PROVE  run'[p].lab # run'[o].lab
    <3>1. CASE o = c
      BY <1>4, <2>1, <2>4, <2>6, <3>1
    <3>2. CASE p = c
      BY <1>4, <2>1, <2>4, <2>6, <3>2
    <3>3. CASE o # c /\ p # c
      BY <1>3, <1>4, <2>6, <3>3 DEF Writing
    <3> QED
      BY <3>1, <3>2, <3>3
  <2>7. ASSUME NEW i \in DOMAIN log', log'[i].lab \in WriteOnce
        PROVE  report'[log'[i].lab] = "whole"
    <3>1. i \in DOMAIN log /\ log'[i] = log[i] /\ log[i].lab \in Labs
      BY <1>5, <2>1, Types
    <3>2. report[log[i].lab] = "whole"
      BY <1>3, <2>7, <3>1
    <3>3. log[i].lab # l
      BY <2>1, <2>3, <2>7, <3>1, <3>2
    <3> QED
      BY <2>2, <3>1, <3>2, <3>3
  <2> QED
    BY <2>5, <2>6, <2>7
<1> QED
  BY <1>7, <1>8

-----------------------------------------------------------------------------
(* Alone and alive                                                         *)

LEMMA QuietStep ==
    ASSUME RegistryTypeOK, QuietInvariant, NEW c \in Researchers, Lab(c)
    PROVE  QuietInvariant'
<1> SUFFICES ASSUME Quiet'
             PROVE  /\ Readable(log)'
                    /\ \A l \in Labs : \/ report'[l] \in {"none", "whole"}
                                        \/ \E o \in Researchers : /\ run'[o].pc \in {"open", "fill"}
                                                              /\ run'[o].lab = l
                    /\ \A o \in Researchers :
                         /\ run'[o].error \in {"", "new"}
                         /\ run'[o].pc # "idle" => \A p \in Researchers \ {o} : run'[p].pc = "idle"
                         /\ run'[o].pc = "make" /\ run'[o].lab \in WriteOnce
                              => report'[run'[o].lab] = "none"
                         /\ run'[o].pc = "append" => run'[o].read = log'
                         /\ run'[o].pc = "idle" /\ run'[o].error = "" =>
                              \E i \in DOMAIN log' : log'[i].lab = run'[o].lab
  BY DEF QuietInvariant, Writing
<1>1. /\ report \in [Labs -> {"none", "dir", "cut", "whole"}] /\ run[c] \in RunRecord
      /\ runDeaths \in Nat /\ log \in Seq(Entry)
  BY Types
<1>2. Quiet /\ ~DieRegistering(c)
  <2>1. runDeaths' = 0 /\ \A o \in Researchers : ~run'[o].overlapped
    BY DEF Quiet
  <2>2. ~DieRegistering(c)
    <3>1. DieRegistering(c) => runDeaths' = runDeaths + 1
      BY DEF DieRegistering
    <3>2. runDeaths + 1 # 0
      BY <1>1, SMTT(30)
    <3> QED
      BY <2>1, <3>1, <3>2
  <2>3. runDeaths' = runDeaths
    BY <2>2 DEF Lab, Start, LookForReport, MakeDirectory, OpenReport, FillReport, ReadLog,
       AppendLine
  <2>4. \A o \in Researchers : ~run[o].overlapped
    BY <2>1, OthersProceed
  <2> QED
    BY <2>1, <2>2, <2>3, <2>4 DEF Quiet
<1>3. /\ Readable(log)
      /\ \A l \in Labs : \/ report[l] \in {"none", "whole"}
                         \/ \E o \in Researchers : Writing(o) /\ run[o].lab = l
      /\ \A o \in Researchers :
           /\ run[o].error \in {"", "new"}
           /\ run[o].pc # "idle" => \A p \in Researchers \ {o} : run[p].pc = "idle"
           /\ run[o].pc = "make" /\ run[o].lab \in WriteOnce => report[run[o].lab] = "none"
           /\ run[o].pc = "append" => run[o].read = log
           /\ run[o].pc = "idle" /\ run[o].error = "" =>
                \E i \in DOMAIN log : log[i].lab = run[o].lab
  BY <1>2 DEF QuietInvariant
<1>4. \A o \in Researchers \ {c} : run[o].pc = "idle"
  <2>1. CASE Start(c)
    <3>1. ~run'[c].overlapped
      BY DEF Quiet
    <3> QED
      BY <2>1, <3>1, StartIs
  <2>2. CASE ~Start(c)
    <3>1. run[c].pc # "idle"
      BY <2>2 DEF Lab, LookForReport, MakeDirectory, OpenReport, FillReport, ReadLog,
         AppendLine, DieRegistering
    <3> QED
      BY <1>3, <3>1
  <2> QED
    BY <2>1, <2>2
<1>5. \A l \in Labs : report[l] \in {"none", "whole"} \/ (Writing(c) /\ run[c].lab = l)
  BY <1>3, <1>4, ZenonT(30) DEF Writing
<1>6. ASSUME NEW o \in Researchers \ {c}
      PROVE  /\ run'[o].error \in {"", "new"} /\ run'[o].pc = "idle"
             /\ run'[o].error = "" => \E i \in DOMAIN log' : log'[i].lab = run'[o].lab
  <2>1. run'[o].pc = run[o].pc /\ run'[o].lab = run[o].lab /\ run'[o].error = run[o].error
    BY OthersProceed
  <2>2. DOMAIN log \subseteq DOMAIN log' /\ \A i \in DOMAIN log : log'[i] = log[i]
    BY LogGrows
  <2>3. run[o].pc = "idle" /\ run[o].error \in {"", "new"}
    BY <1>3, <1>4
  <2>4. run[o].error = "" => \E i \in DOMAIN log : log[i].lab = run[o].lab
    BY <1>3, <2>3
  <2>5. run'[o].error = "" => \E i \in DOMAIN log' : log'[i].lab = run'[o].lab
    BY <2>1, <2>2, <2>4
  <2> QED
    BY <2>1, <2>3, <2>5
<1> DEFINE Good(pc, lab, error) ==
             /\ run'[c].pc = pc /\ run'[c].lab = lab /\ run'[c].error = error
             /\ Readable(log)'
             /\ \A l \in Labs : report'[l] \in {"none", "whole"} \/ (pc \in {"open", "fill"} /\ lab = l)
             /\ error \in {"", "new"}
             /\ pc = "make" /\ lab \in WriteOnce => report'[lab] = "none"
             /\ pc = "append" => run'[c].read = log'
             /\ pc = "idle" /\ error = "" => \E i \in DOMAIN log' : log'[i].lab = lab
<1>7. SUFFICES \E pc, lab, error : Good(pc, lab, error)
  BY <1>6, ZenonT(30)
<1> DEFINE l == run[c].lab
           error == run[c].error
<1>8. l \in Labs /\ error \in {"", "new"}
  BY <1>3, Types
<1>9. ASSUME NEW pc \in {"idle", "look", "make", "open", "fill", "read", "append"}, Proceed(c, pc)
      PROVE  run'[c].pc = pc /\ run'[c].lab = l /\ run'[c].error = error
  <2>1. run'[c] = [run[c] EXCEPT !.pc = pc]
    BY <1>9, ProceedIs
  <2> QED
    BY <1>1, <2>1 DEF RunRecord
<1>10. Stop(c, "") => run'[c].pc = "idle" /\ run'[c].lab = l /\ run'[c].error = ""
  <2>1. Stop(c, "") => run'[c] = [run[c] EXCEPT !.pc = "idle", !.error = ""]
    BY StopIs
  <2> QED
    BY <1>1, <2>1 DEF RunRecord
<1>11. ASSUME log' = log
       PROVE  Readable(log)'
  BY <1>3, <1>11 DEF Readable
<1> HIDE DEF l, error
<1>12. CASE Start(c)
  <2>1. PICK m \in Labs : /\ run'[c].pc = IF m \in WriteOnce THEN "look" ELSE "make"
                          /\ run'[c].lab = m /\ run'[c].error = "new" /\ run[c].pc = "idle"
    BY <1>12, StartIs
  <2>2. report' = report /\ log' = log
    BY <1>12 DEF Start
  <2>3. \A k \in Labs : report[k] \in {"none", "whole"}
    BY <1>5, <2>1 DEF Writing
  <2>4. Good("look", m, "new") \/ Good("make", m, "new")
    BY <1>11, <2>1, <2>2, <2>3
  <2> HIDE DEF Good
  <2> QED
    BY <2>4
<1>13. CASE LookForReport(c)
  <2>1. report[l] \in {"none", "whole"} /\ report' = report /\ log' = log /\ run[c].pc = "look"
    BY <1>5, <1>8, <1>13 DEF LookForReport, Writing, l
  <2>2. \/ Proceed(c, "read")
        \/ Proceed(c, "make") /\ report[l] = "none"
    BY <1>13, <2>1 DEF LookForReport, l
  <2>3. \A k \in Labs : report[k] \in {"none", "whole"}
    BY <1>5, <2>1 DEF Writing
  <2>4. Good("read", l, error) \/ Good("make", l, error)
    BY <1>8, <1>9, <1>11, <2>1, <2>2, <2>3
  <2> HIDE DEF Good
  <2> QED
    BY <2>4
<1>14. CASE MakeDirectory(c)
  <2>1. Proceed(c, "open") /\ log' = log /\ \A k \in Labs \ {l} : report'[k] = report[k]
    BY <1>1, <1>3, <1>14 DEF MakeDirectory, l
  <2>2. run[c].pc = "make"
    BY <1>14 DEF MakeDirectory
  <2>3. \A k \in Labs \ {l} : report'[k] \in {"none", "whole"}
    BY <1>5, <2>1, <2>2 DEF Writing
  <2>4. \A k \in Labs : report'[k] \in {"none", "whole"} \/ l = k
    BY <2>3
  <2>5. Good("open", l, error)
    BY <1>8, <1>9, <1>11, <2>1, <2>4
  <2> HIDE DEF Good
  <2> QED
    BY <2>5
<1>15. CASE OpenReport(c)
  <2>1. Proceed(c, "fill") /\ log' = log /\ \A k \in Labs \ {l} : report'[k] = report[k]
    BY <1>1, <1>15 DEF OpenReport, l
  <2>2. \A k \in Labs \ {l} : report'[k] \in {"none", "whole"}
    BY <1>5, <2>1 DEF Writing, l
  <2>3. \A k \in Labs : report'[k] \in {"none", "whole"} \/ l = k
    BY <2>2
  <2>4. Good("fill", l, error)
    BY <1>8, <1>9, <1>11, <2>1, <2>3
  <2> HIDE DEF Good
  <2> QED
    BY <2>4
<1>16. CASE FillReport(c)
  <2>1. /\ Proceed(c, "read") /\ log' = log /\ report'[l] = "whole"
        /\ \A k \in Labs \ {l} : report'[k] = report[k]
    BY <1>1, <1>8, <1>16 DEF FillReport, l
  <2>2. \A k \in Labs : report'[k] \in {"none", "whole"}
    BY <1>5, <2>1 DEF Writing, l
  <2>3. Good("read", l, error)
    BY <1>8, <1>9, <1>11, <2>1, <2>2
  <2> HIDE DEF Good
  <2> QED
    BY <2>3
<1>17. CASE ReadLog(c)
  <2>1. log' = log /\ report' = report /\ run[c].pc = "read"
    BY <1>17 DEF ReadLog
  <2>2. \A k \in Labs : report[k] \in {"none", "whole"}
    BY <1>5, <2>1 DEF Writing
  <2>3. CASE Stop(c, "") /\ \E i \in DOMAIN log : log[i].lab = l
    <3>1. Good("idle", l, "")
      BY <1>10, <1>11, <2>1, <2>2, <2>3
    <3> QED
      BY <3>1
  <2>4. CASE run' = [run EXCEPT ![c].pc = "append", ![c].read = log]
    <3>1. run'[c] = [run[c] EXCEPT !.pc = "append", !.read = log]
      BY <2>4, ReadIs
    <3>2. run'[c].pc = "append" /\ run'[c].lab = l /\ run'[c].error = error /\ run'[c].read = log
      BY <1>1, <3>1 DEF RunRecord, l, error
    <3>3. Good("append", l, error)
      BY <1>8, <1>11, <2>1, <2>2, <3>2
    <3> QED
      BY <3>3
  <2> QED
    BY <1>3, <1>17, <2>3, <2>4 DEF ReadLog, l
<1>18. CASE AppendLine(c)
  <2>1. Stop(c, "") /\ report' = report /\ run[c].pc = "append" /\ run[c].read = log
    BY <1>3, <1>18 DEF AppendLine
  <2>2. ~CutOff
    BY <1>3 DEF CutOff, Readable
  <2>3. PICK line : line = Line(c, TRUE)
    OBVIOUS
  <2>4. log' = Append(log, line)
    BY <1>18, <2>2, <2>3 DEF AppendLine
  <2>5. /\ line \in Entry /\ line.lab = l /\ line.whole /\ line.sequence = Len(log) + 1
        /\ line.previous = Hash(LastOf(log))
    BY <2>1, <2>3, LineIs DEF l
  <2>6. Readable(Append(log, line))
    BY <1>1, <1>3, <2>5, ReadableAppend
  <2>7. Readable(log)'
    BY <2>4, <2>6 DEF Readable
  <2>8. \E i \in DOMAIN log' : log'[i].lab = l
    <3>1. /\ log' \in Seq(Entry) /\ Len(log') = Len(log) + 1 /\ Len(log) \in Nat
          /\ log'[Len(log) + 1] = line
      BY <1>1, <2>4, <2>5, AppendProperties, LenProperties
    <3>2. Len(log) + 1 \in DOMAIN log'
      BY <3>1, LenProperties
    <3> QED
      BY <2>5, <3>1, <3>2
  <2>9. \A k \in Labs : report[k] \in {"none", "whole"}
    BY <1>5, <2>1 DEF Writing
  <2>10. Good("idle", l, "")
    BY <1>10, <2>1, <2>7, <2>8, <2>9
  <2> HIDE DEF Good
  <2> QED
    BY <2>10
<1> HIDE DEF Good
<1> QED
  BY <1>2, <1>12, <1>13, <1>14, <1>15, <1>16, <1>17, <1>18 DEF Lab

-----------------------------------------------------------------------------
(* The theorems                                                            *)

RegistryInvariant == RegistryTypeOK /\ LogInvariant /\ ReportInvariant /\ QuietInvariant

LEMMA RegistryStarts == RegistryInit => RegistryInvariant
<1> SUFFICES ASSUME RegistryInit PROVE RegistryInvariant
  OBVIOUS
<1>1. /\ log = << >> /\ report = [l \in Labs |-> "none"]
      /\ run = [c \in Researchers |-> NoRun] /\ runs = 0 /\ runDeaths = 0
  BY DEF RegistryInit
<1>2. /\ NoRun \in RunRecord /\ NoRun.pc = "idle" /\ NoRun.error = "new" /\ << >> \in Seq(Entry)
      /\ DOMAIN << >> = {}
  BY NoRunIs, EmptySeq
<1>3. \A c \in Researchers : run[c] = NoRun
  BY <1>1
<1>4. RegistryTypeOK
  BY <1>1, <1>2 DEF RegistryTypeOK, RunRecord
<1>5. Readable(log)
  BY <1>1, <1>2 DEF Readable
<1>6. LogInvariant /\ ReportInvariant
  BY <1>1, <1>2, <1>3 DEF LogInvariant, ReportInvariant, Writing
<1>7. \A l \in Labs : report[l] = "none"
  BY <1>1
<1>8. QuietInvariant
  BY <1>2, <1>3, <1>5, <1>7 DEF QuietInvariant
<1> QED
  BY <1>4, <1>6, <1>8 DEF RegistryInvariant

\* The beginning that every writer has read, the one writer of a report that
\* is written once, and the registry of calls that come one after the other.
THEOREM RegistryAlways == RegistrySpec => []RegistryInvariant
<1>1. RegistryInit => RegistryInvariant
  BY RegistryStarts
<1>2. RegistryInvariant /\ [RegistryNext]_registryVars => RegistryInvariant'
  <2> SUFFICES ASSUME RegistryInvariant, [RegistryNext]_registryVars
               PROVE  RegistryInvariant'
    OBVIOUS
  <2>1. RegistryTypeOK /\ LogInvariant /\ ReportInvariant /\ QuietInvariant
    BY DEF RegistryInvariant
  <2>2. ASSUME NEW c \in Researchers, Lab(c)
        PROVE  RegistryInvariant'
    <3>1. RegistryTypeOK'
      BY <2>1, RegistryTypeStep
    <3>2. LogInvariant' /\ ReportInvariant' /\ QuietInvariant'
      BY <2>1, <2>2, LogStep, ReportStep, QuietStep
    <3> QED
      BY <3>1, <3>2 DEF RegistryInvariant
  <2>3. CASE UNCHANGED registryVars
    <3>1. log' = log /\ report' = report /\ run' = run /\ runDeaths' = runDeaths
      BY <2>3 DEF registryVars
    <3>2. Readable(log)' <=> Readable(log)
      BY <3>1 DEF Readable
    <3>3. RegistryTypeOK'
      BY <2>1, RegistryTypeStep
    <3>4. LogInvariant'
      BY <2>1, <3>1, <3>2 DEF LogInvariant
    <3>5. ReportInvariant'
      BY <2>1, <3>1 DEF ReportInvariant, Writing
    <3>6. Quiet' <=> Quiet
      BY <3>1 DEF Quiet
    <3>7. QuietInvariant'
      BY <2>1, <3>1, <3>2, <3>6, ZenonT(30) DEF QuietInvariant, Writing
    <3> QED
      BY <3>3, <3>4, <3>5, <3>7 DEF RegistryInvariant
  <2> QED
    BY <2>2, <2>3 DEF RegistryNext
<1> QED
  BY <1>1, <1>2, PTL DEF RegistrySpec

\* A registry that can be read counts each experiment once, and those that
\* write their report once have it; without a death or two calls at once it can
\* always be read (experiment_registry.py:43-63, sequence_lab.py:175-200).
THEOREM RegistryHoldsAlways == RegistrySpec => []RegistryHolds
<1>1. RegistryInvariant => RegistryHolds
  <2> SUFFICES ASSUME RegistryInvariant
               PROVE  RegistryHolds
    OBVIOUS
  <2>1. LogInvariant /\ ReportInvariant /\ QuietInvariant
    BY DEF RegistryInvariant
  <2>2. Readable(log) =>
          /\ \A i, j \in DOMAIN log : i # j => log[i].lab # log[j].lab
          /\ \A i \in DOMAIN log : log[i].lab \in WriteOnce => report[log[i].lab] = "whole"
    BY <2>1 DEF LogInvariant, ReportInvariant
  <2>3. (\A c \in Researchers : ~run[c].overlapped) /\ runDeaths = 0 =>
          /\ Readable(log)
          /\ \A c \in Researchers : run[c].error \in {"", "new"}
          /\ \A c \in Researchers : run[c].pc = "idle" /\ run[c].error = "" =>
               \E i \in DOMAIN log : log[i].lab = run[c].lab
    BY <2>1 DEF QuietInvariant, Quiet
  <2> QED
    BY <2>2, <2>3 DEF RegistryHolds
<1> QED
  BY <1>1, RegistryAlways, PTL

-----------------------------------------------------------------------------
(* The lineage: what a name tells                                          *)

FeatureOf(n) ==
  IF n.kind = "features" THEN n
  ELSE IF n.kind \in Derived \cup Joins THEN n.of[1]
  ELSE IF n.kind \in Hourly \cup Replayed \cup Screened THEN n.of[1].of[1]
  ELSE IF n.kind = "gold episodes" THEN n.of[1].of[1].of[1]
  ELSE n.of[1].of[1].of[1].of[1]
HourKinds == {"hours", "hour outcomes", "states", "gold episodes", "tournament"}
HoursOf(n) ==
  IF n.kind = "hours" THEN n
  ELSE IF n.kind \in Hourly THEN n.of[1]
  ELSE IF n.kind = "gold episodes" THEN n.of[1].of[1]
  ELSE n.of[1].of[1].of[1]

\* Sources with one origin, and so theirs.
OneRoot(names, features, hours) ==
  \A n \in names : /\ n.kind \notin CandidateReports
                   /\ FeatureOf(n) = features
                   /\ n.kind \in HourKinds => HoursOf(n) = hours

LEMMA SourceHasRoot ==
    ASSUME NEW a, Formed(a), a.name.kind \notin CandidateReports, NEW m \in a.from
    PROVE  /\ m.kind \notin CandidateReports
           /\ FeatureOf(m) = FeatureOf(a.name)
           /\ m.kind \in HourKinds => a.name.kind \in HourKinds /\ HoursOf(m) = HoursOf(a.name)
<1> USE DEF CandidateReports
<1>1. PICK k : k = a.name.kind
  OBVIOUS
<1>2. PICK of : of = a.name.of
  BY Zenon
<1> USE DEF FeatureOf, HoursOf, HourKinds, Derived, Joinable, Hourly, Joins,
            Replayed, Screened, Audited
<1>3. CASE k \in Derived
  <2>1. of[1].kind = "features" /\ m = of[1]
    BY <1>1, <1>2, <1>3, Zenon DEF Formed
  <2> QED
    BY <1>1, <1>2, <1>3, <2>1, Zenon
<1>4. CASE k \in Hourly
  <2>1. of[1].kind = "hours" /\ m = of[1]
    BY <1>1, <1>2, <1>4, Zenon DEF Formed
  <2> QED
    BY <1>1, <1>2, <1>4, <2>1, Zenon
<1>5. CASE k = "gold episodes"
  <2>1. of[1].kind = "states" /\ m = of[1]
    BY <1>1, <1>2, <1>5, Zenon DEF Formed
  <2> QED
    BY <1>1, <1>2, <1>5, <2>1, Zenon
<1>6. CASE k \in Screened
  <2>1. of[1].kind = "episodes" /\ m = of[1]
    BY <1>1, <1>2, <1>6, Zenon DEF Formed
  <2> QED
    BY <1>1, <1>2, <1>6, <2>1, Zenon
<1>7. CASE k \in Joins
  <2>1. of[1].kind = "features" /\ (m = of[1] \/ (m.kind \in Joinable /\ m.of[1] = of[1]))
    BY <1>1, <1>2, <1>7, Zenon DEF Formed
  <2>2. FeatureOf(a.name) = of[1]
    BY <1>1, <1>2, <1>7, Zenon
  <2>3. CASE m = of[1]
    BY <2>1, <2>2, <2>3, Zenon
  <2>4. CASE m.kind \in Joinable /\ m.of[1] = of[1]
    <3>1. m.kind # "features" /\ FeatureOf(m) = m.of[1]
      BY <2>4, Zenon
    <3> QED
      BY <1>1, <1>2, <1>7, <2>2, <2>4, <3>1, Zenon
  <2> QED
    BY <2>1, <2>3, <2>4, Zenon
<1>8. CASE k \in Replayed
  <2>1. of[1].kind = "episodes" /\ of[1].of[1].kind = "features" /\ m \in {of[1], of[1].of[1]}
    BY <1>1, <1>2, <1>8 DEF Formed
  <2> QED
    BY <1>1, <1>2, <1>8, <2>1, Zenon
<1>9. CASE k = "tournament"
  <2>1. /\ of[1].kind = "gold episodes" /\ of[2].kind = "hour outcomes" /\ m \in {of[1], of[2]}
        /\ of[1].of[1].of[1] = of[2].of[1]
    BY <1>1, <1>2, <1>9 DEF Formed
  <2> QED
    BY <1>1, <1>2, <1>9, <2>1
<1>10. CASE k = "features"
  BY <1>1, <1>10, Zenon DEF Formed
<1> QED
  BY <1>1, <1>3, <1>4, <1>5, <1>6, <1>7, <1>8, <1>9, <1>10, Zenon DEF Formed

\* A name tells all sources.
LEMMA NameTellsSources ==
    ASSUME NEW a, NEW b, Formed(a), Formed(b), a.name = b.name
    PROVE  a.from = b.from
<1> USE DEF Derived, Joinable, Hourly, Joins, Replayed, Screened, Audited
<1>1. PICK k : k = a.name.kind /\ k = b.name.kind
  OBVIOUS
<1>2. PICK of : of = a.name.of /\ of = b.name.of
  OBVIOUS
<1>3. CASE k = "features"
  BY <1>1, <1>3 DEF Formed
<1>4. CASE k \in Derived \cup Hourly \cup Screened \cup {"gold episodes"}
  <2>1. a.from = {of[1]} /\ b.from = {of[1]}
    BY <1>1, <1>2, <1>4, Zenon DEF Formed
  <2> QED
    BY <2>1, SMTT(30)
<1>5. CASE k \in Joins
  <2>1. a.from = Range(of) /\ b.from = Range(of)
    BY <1>1, <1>2, <1>5, Zenon DEF Formed
  <2> QED
    BY <2>1
<1>6. CASE k \in Replayed
  <2>1. a.from = {of[1], of[1].of[1]} /\ b.from = {of[1], of[1].of[1]}
    BY <1>1, <1>2, <1>6, Zenon DEF Formed
  <2> QED
    BY <2>1
<1>7. CASE k = "tournament"
  <2>1. a.from = {of[1], of[2]} /\ b.from = {of[1], of[2]}
    BY <1>1, <1>2, <1>7, Zenon DEF Formed
  <2> QED
    BY <2>1
<1>8. CASE k = "robustness"
  <2>1. a.from = {of[1], of[2], of[3]} /\ b.from = {of[1], of[2], of[3]}
    BY <1>1, <1>2, <1>8 DEF Formed
  <2> QED
    BY <2>1, SMTT(30)
<1>9. CASE k \in Audited
  <2>1. a.from = {of[1], of[2], of[2].of[1]} /\ b.from = {of[1], of[2], of[2].of[1]}
    BY <1>1, <1>2, <1>9, Zenon DEF Formed
  <2> QED
    BY <2>1, SMTT(30)
<1> QED
  BY <1>1, <1>3, <1>4, <1>5, <1>6, <1>7, <1>8, <1>9, Zenon DEF Formed

-----------------------------------------------------------------------------
(* The lineage: what each command computes                                 *)

Whole(s) == \A a \in s : Formed(a)
MadeFrom(b, s) == Formed(b) /\ b.from \subseteq {a.name : a \in s}

\* A sequence of one, two or three, as a name has them.
LEMMA RangeOfOne ==
    ASSUME NEW x
    PROVE  DOMAIN <<x>> = {1} /\ <<x>>[1] = x /\ Range(<<x>>) = {x}
<1> DEFINE one == <<x>>
<1>1. DOMAIN one = 1 .. 1 /\ one[1] = x
  OBVIOUS
<1>2. 1 .. 1 = {1}
  OBVIOUS
<1> HIDE DEF one
<1>3. Range(one) = {x}
  BY <1>1, <1>2 DEF Range
<1> QED
  BY <1>1, <1>2, <1>3 DEF one

LEMMA RangeOfTwo ==
    ASSUME NEW x, NEW y
    PROVE  DOMAIN <<x, y>> = {1, 2} /\ <<x, y>>[1] = x /\ <<x, y>>[2] = y /\ Range(<<x, y>>) = {x, y}
<1> DEFINE two == <<x, y>>
<1>1. DOMAIN two = 1 .. 2 /\ two[1] = x /\ two[2] = y
  OBVIOUS
<1>2. 1 .. 2 = {1, 2}
  OBVIOUS
<1> HIDE DEF two
<1>3. Range(two) = {x, y}
  BY <1>1, <1>2 DEF Range
<1> QED
  BY <1>1, <1>2, <1>3 DEF two

LEMMA RangeOfThree ==
    ASSUME NEW x, NEW y, NEW z
    PROVE  /\ DOMAIN <<x, y, z>> = {1, 2, 3} /\ Range(<<x, y, z>>) = {x, y, z}
           /\ <<x, y, z>>[1] = x /\ <<x, y, z>>[2] = y /\ <<x, y, z>>[3] = z
<1> DEFINE three == <<x, y, z>>
<1>1. DOMAIN three = 1 .. 3 /\ three[1] = x /\ three[2] = y /\ three[3] = z
  OBVIOUS
<1>2. 1 .. 3 = {1, 2, 3}
  OBVIOUS
<1> HIDE DEF three
<1>3. Range(three) = {x, y, z}
  BY <1>1, <1>2 DEF Range
<1> QED
  BY <1>1, <1>2, <1>3 DEF three

LEMMA OneSource ==
    ASSUME NEW s, Whole(s), NEW origin \in s, NEW k,
           \/ k \in Derived /\ origin.name.kind = "features"
           \/ k \in Hourly /\ origin.name.kind = "hours"
           \/ k = "gold episodes" /\ origin.name.kind = "states"
           \/ k \in Screened /\ origin.name.kind = "episodes"
    PROVE  MadeFrom(Named(k, <<origin>>), s)
<1>1. PICK b : b = Named(k, <<origin>>)
  OBVIOUS
<1> DEFINE one == <<origin>>
<1>2. DOMAIN one = {1} /\ one[1] = origin /\ Range(one) = {origin}
  BY RangeOfOne
<1>3. b.name.kind = k /\ b.name.of[1] = origin.name /\ b.from = {origin.name}
  <2> HIDE DEF one
  <2>1. b = Named(k, one)
    BY <1>1 DEF one
  <2>2. b.name.of = [i \in DOMAIN one |-> NameOf(one[i])]
    BY <2>1 DEF Named, Artifact, Name
  <2>3. b.name.of[1] = origin.name
    BY <1>2, <2>2 DEF NameOf
  <2>4. b.name.kind = k /\ b.from = {NameOf(x) : x \in Range(one)}
    BY <2>1 DEF Named, Artifact, Name
  <2> QED
    BY <1>2, <2>3, <2>4 DEF NameOf
<1>4. Formed(b)
  BY <1>3 DEF Formed
<1> QED
  BY <1>1, <1>3, <1>4 DEF MadeFrom

\* Sources joined are those asked for, of one feature data set.
LEMMA JoinedIs ==
    ASSUME NEW s, Whole(s), NEW kinds,
           1 \in DOMAIN kinds, kinds[1] = "features",
           \A i \in DOMAIN kinds : i = 1 \/ kinds[i] \in Joinable,
           NEW j \in Joined(s, kinds)
    PROVE  /\ DOMAIN j = DOMAIN kinds
           /\ \A i \in DOMAIN kinds : j[i] \in s /\ j[i].name.kind = kinds[i]
           /\ \A i \in DOMAIN kinds : i = 1 \/ j[i].name.of[1] = j[1].name
<1> DEFINE derived(f) == {a \in s : a.name.kind \in Range(kinds) /\ (a = f \/ BelongsTo(a, f))}
           of(f) == {x \in [DOMAIN kinds -> derived(f)] : \A i \in DOMAIN kinds : x[i].name.kind = kinds[i]}
<1>1. PICK f \in Of(s, "features") : j \in of(f)
  BY DEF Joined
<1>2. /\ DOMAIN j = DOMAIN kinds
      /\ \A i \in DOMAIN kinds : j[i] \in derived(f) /\ j[i].name.kind = kinds[i]
  BY <1>1
<1>3. \A a \in derived(f) : a \in s /\ (a = f \/ f.name \in a.from)
  BY DEF BelongsTo
<1> HIDE DEF derived, of
<1>4. j[1] = f
  <2>1. j[1].from = {}
    BY <1>2, <1>3 DEF Whole, Formed, Derived, Joinable, Hourly, Joins, Replayed, Screened, Audited
  <2> QED
    BY <1>2, <1>3, <2>1
<1>5. ASSUME NEW i \in DOMAIN kinds, i # 1
      PROVE  j[i].name.of[1] = f.name
  <2>1. j[i] \in s /\ j[i].name.kind \in Joinable
    BY <1>2, <1>3, <1>5
  <2>2. j[i].from = {j[i].name.of[1]}
    BY <2>1 DEF Whole, Formed, Derived, Joinable, Hourly, Joins, Replayed, Screened, Audited
  <2>3. j[i] # f
    BY <1>2, <1>4, <2>1 DEF Joinable
  <2> QED
    BY <1>2, <1>3, <2>2, <2>3
<1> QED
  BY <1>2, <1>3, <1>4, <1>5

LEMMA JoinIs ==
    ASSUME NEW s, Whole(s), NEW k \in Joins, NEW kinds,
           1 \in DOMAIN kinds, kinds[1] = "features",
           \A i \in DOMAIN kinds : i = 1 \/ kinds[i] \in Joinable,
           NEW b \in Join(s, k, kinds)
    PROVE  MadeFrom(b, s)
<1>1. PICK j \in Joined(s, kinds) : b = Named(k, j)
  BY DEF Join
<1>2. /\ DOMAIN j = DOMAIN kinds
      /\ \A i \in DOMAIN kinds : j[i] \in s /\ j[i].name.kind = kinds[i]
      /\ \A i \in DOMAIN kinds : i = 1 \/ j[i].name.of[1] = j[1].name
  BY JoinedIs
<1>3. PICK of : of = [i \in DOMAIN kinds |-> j[i].name]
  OBVIOUS
<1>4. b.name.kind = k /\ b.name.of = of /\ b.from = Range(of)
  <2>1. b.name.kind = k /\ b.name.of = [i \in DOMAIN j |-> NameOf(j[i])]
        /\ b.from = {NameOf(x) : x \in Range(j)}
    BY <1>1 DEF Named, Artifact, Name
  <2> QED
    BY <1>2, <1>3, <2>1 DEF NameOf, Range
<1>5. of[1].kind = "features" /\ \A n \in Range(of) : n = of[1] \/ (n.kind \in Joinable /\ n.of[1] = of[1])
  BY <1>2, <1>3 DEF Range
<1>6. Formed(b)
  BY <1>4, <1>5 DEF Formed
<1>7. b.from \subseteq {a.name : a \in s}
  BY <1>2, <1>3, <1>4 DEF Range
<1> QED
  BY <1>6, <1>7 DEF MadeFrom

\* The labs that replay quotes.
LEMMA ReplayIs ==
    ASSUME NEW s, Whole(s), NEW k \in Replayed, NEW b \in ReplayReports(s, k)
    PROVE  MadeFrom(b, s)
<1>1. PICK p \in Of(s, "episodes") \X Of(s, "features") :
        BelongsTo(p[1], p[2]) /\ b = Artifact(k, <<p[1]>>, Range(p))
  BY DEF ReplayReports
<1>2. PICK e \in s, f \in s : /\ p = <<e, f>> /\ e.name.kind = "episodes" /\ f.name.kind = "features"
                             /\ f.name \in e.from
  BY <1>1 DEF Of, BelongsTo
<1>3. b.name.kind = k /\ b.name.of[1] = e.name /\ b.from = {e.name, f.name}
  <2>1. PICK one : one = <<e>> /\ DOMAIN one = {1} /\ one[1] = e
    BY RangeOfOne
  <2>2. Range(p) = {e, f}
    BY <1>2, RangeOfTwo
  <2>3. b = Artifact(k, one, {e, f})
    BY <1>1, <1>2, <2>1, <2>2
  <2> QED
    BY <2>1, <2>3 DEF Artifact, Name, NameOf
<1>4. e.name.of[1].kind = "features" /\ f.name = e.name.of[1]
  <2>1. /\ e.name.of[1].kind = "features" /\ e.from = Range(e.name.of)
        /\ \A n \in Range(e.name.of) : n = e.name.of[1] \/ n.kind \in Joinable
    BY <1>2 DEF Whole, Formed, Derived, Joinable, Hourly, Joins, Replayed, Screened, Audited
  <2> QED
    BY <1>2, <2>1 DEF Joinable
<1>5. Formed(b)
  BY <1>2, <1>3, <1>4 DEF Formed
<1>6. b.from \subseteq {a.name : a \in s}
  BY <1>2, <1>3
<1> QED
  BY <1>5, <1>6 DEF MadeFrom

LEMMA PairIs ==
    ASSUME NEW A, NEW B, NEW p \in A \X B
    PROVE  p[1] \in A /\ p[2] \in B /\ p = <<p[1], p[2]>>
  OBVIOUS
LEMMA TripleIs ==
    ASSUME NEW A, NEW B, NEW C, NEW p \in A \X B \X C
    PROVE  p[1] \in A /\ p[2] \in B /\ p[3] \in C /\ p = <<p[1], p[2], p[3]>>
  OBVIOUS

\* What the sources of the reports on gold episodes are.
LEMMA GoldSources ==
    ASSUME NEW s, Whole(s), NEW a \in s
    PROVE  /\ a.name.kind = "gold episodes" => a.name.of[1].kind = "states" /\ a.from = {a.name.of[1]}
           /\ a.name.kind \in Hourly => a.name.of[1].kind = "hours" /\ a.from = {a.name.of[1]}
  BY DEF Whole, Formed, Derived, Joinable, Hourly, Joins, Replayed, Screened, Audited

LEMMA TournamentIs ==
    ASSUME NEW s, Whole(s), NEW b \in GoldStrategyTournament(s)
    PROVE  MadeFrom(b, s)
<1>1. PICK p \in Of(s, "gold episodes") \X Of(s, "hour outcomes"), t \in Of(s, "states") :
        BelongsTo(p[1], t) /\ t.from = p[2].from /\ b = Named("tournament", p)
  BY DEF GoldStrategyTournament
<1>2. PICK e \in s, o \in s : /\ p = <<e, o>> /\ e.name.kind = "gold episodes"
                             /\ o.name.kind = "hour outcomes"
  <2>1. p[1] \in Of(s, "gold episodes") /\ p[2] \in Of(s, "hour outcomes") /\ p = <<p[1], p[2]>>
    BY <1>1, PairIs, Zenon
  <2> QED
    BY <2>1 DEF Of
<1>3. b.name.kind = "tournament" /\ b.name.of[1] = e.name /\ b.name.of[2] = o.name /\ b.from = {e.name, o.name}
  <2>1. DOMAIN p = {1, 2} /\ p[1] = e /\ p[2] = o /\ Range(p) = {e, o}
    <3>1. /\ DOMAIN <<e, o>> = {1, 2} /\ <<e, o>>[1] = e /\ <<e, o>>[2] = o
          /\ Range(<<e, o>>) = {e, o}
      BY RangeOfTwo
    <3>2. p = <<e, o>>
      BY <1>2
    <3> QED
      BY <3>1, <3>2, Zenon
  <2> QED
    BY <1>1, <2>1, Zenon DEF Named, Artifact, Name, NameOf
<1>4. t \in s /\ t.name.kind = "states" /\ t.name \in e.from /\ t.from = o.from
  <2>1. p[1] = e /\ p[2] = o
    BY <1>2
  <2> QED
    BY <1>1, <2>1 DEF Of, BelongsTo
<1>5. t.name = e.name.of[1] /\ t.name.of[1] = o.name.of[1]
  <2>1. e.from = {e.name.of[1]}
    BY <1>2, GoldSources
  <2>2. o.from = {o.name.of[1]}
    BY <1>2, GoldSources DEF Hourly
  <2>3. t.from = {t.name.of[1]}
    BY <1>4, GoldSources DEF Hourly
  <2>4. t.name = e.name.of[1]
    BY <1>4, <2>1
  <2>5. t.name.of[1] \in t.from
    BY <2>3
  <2>6. t.name.of[1] \in o.from
    BY <1>4, <2>5
  <2>7. t.name.of[1] = o.name.of[1]
    BY <2>2, <2>6, ZenonT(30)
  <2> QED
    BY <2>4, <2>7
<1>6. Formed(b)
  BY <1>2, <1>3, <1>4, <1>5 DEF Formed
<1> QED
  BY <1>3, <1>6 DEF MadeFrom

LEMMA CandidateIs ==
    ASSUME NEW s, Whole(s), NEW b \in CandidateRobustness(s) \cup TrendCandidateAudit(s) \cup GapSemanticsAudit(s)
    PROVE  MadeFrom(b, s)
<1>1. PICK p \in Candidates(s) : \/ b = Named("robustness", p)
                                \/ \E k \in Audited : b = Artifact(k, <<p[1], p[2]>>, Range(p))
  BY DEF CandidateRobustness, TrendCandidateAudit, GapSemanticsAudit, Audits, Audited
<1>2. PICK e \in s, o \in s, h \in s :
        /\ p = <<e, o, h>> /\ e.name.kind = "gold episodes" /\ o.name.kind = "hour outcomes"
        /\ h.name.kind = "hours" /\ h.name \in o.from
  <2>1. /\ p[1] \in Of(s, "gold episodes") /\ p[2] \in Of(s, "hour outcomes") /\ p[3] \in Of(s, "hours")
        /\ BelongsTo(p[2], p[3]) /\ p = <<p[1], p[2], p[3]>>
    <3>1. p \in Of(s, "gold episodes") \X Of(s, "hour outcomes") \X Of(s, "hours") /\ BelongsTo(p[2], p[3])
      BY DEF Candidates
    <3>2. PICK A, B, C : /\ A = Of(s, "gold episodes") /\ B = Of(s, "hour outcomes")
                         /\ C = Of(s, "hours")
      OBVIOUS
    <3>3. p \in A \X B \X C
      BY <3>1, <3>2
    <3>4. p[1] \in A /\ p[2] \in B /\ p[3] \in C /\ p = <<p[1], p[2], p[3]>>
      BY <3>3, TripleIs
    <3> QED
      BY <3>1, <3>2, <3>4
  <2> QED
    BY <2>1 DEF Of, BelongsTo
<1>3. h.name = o.name.of[1]
  BY <1>2, GoldSources DEF Hourly
<1>4. /\ DOMAIN p = {1, 2, 3} /\ p[1] = e /\ p[2] = o /\ p[3] = h /\ Range(p) = {e, o, h}
  <2>1. /\ DOMAIN <<e, o, h>> = {1, 2, 3} /\ Range(<<e, o, h>>) = {e, o, h}
        /\ <<e, o, h>>[1] = e /\ <<e, o, h>>[2] = o /\ <<e, o, h>>[3] = h
    BY RangeOfThree
  <2>2. p = <<e, o, h>>
    BY <1>2
  <2> QED
    BY <2>1, <2>2, Zenon
<1>5. CASE b = Named("robustness", p)
  <2>1. /\ b.name.kind = "robustness" /\ b.name.of[1] = e.name /\ b.name.of[2] = o.name
        /\ b.name.of[3] = h.name /\ b.from = {e.name, o.name, h.name}
    BY <1>4, <1>5 DEF Named, Artifact, Name, NameOf
  <2>2. Formed(b)
    BY <1>2, <1>3, <2>1 DEF Formed
  <2> QED
    BY <2>1, <2>2 DEF MadeFrom
<1>6. ASSUME NEW k \in Audited, b = Artifact(k, <<p[1], p[2]>>, Range(p))
      PROVE  MadeFrom(b, s)
  <2>1. PICK two : two = <<e, o>> /\ DOMAIN two = {1, 2} /\ two[1] = e /\ two[2] = o
    BY RangeOfTwo, ZenonT(30)
  <2>2. b = Artifact(k, two, {e, o, h})
    BY <1>4, <1>6, <2>1
  <2>3. /\ b.name.kind = k /\ b.name.of[1] = e.name /\ b.name.of[2] = o.name
        /\ b.from = {e.name, o.name, h.name}
    BY <2>1, <2>2 DEF Artifact, Name, NameOf
  <2>4. Formed(b)
    BY <1>2, <1>3, <2>3 DEF Formed
  <2> QED
    BY <2>3, <2>4 DEF MadeFrom
<1> QED
  BY <1>1, <1>5, <1>6

\* The labs and the episodes take features and one to three other data sets.
LEMMA JoinOfTwo ==
    ASSUME NEW s, Whole(s), NEW k \in Joins, NEW second \in Joinable,
           NEW b \in Join(s, k, <<"features", second>>)
    PROVE  MadeFrom(b, s)
<1>1. PICK kinds : kinds = <<"features", second>>
  OBVIOUS
<1>2. DOMAIN kinds = {1, 2} /\ kinds[1] = "features" /\ kinds[2] = second
  BY <1>1, RangeOfTwo
<1> QED
  BY <1>1, <1>2, JoinIs

LEMMA JoinOfThree ==
    ASSUME NEW s, Whole(s), NEW k \in Joins, NEW second \in Joinable, NEW third \in Joinable,
           NEW b \in Join(s, k, <<"features", second, third>>)
    PROVE  MadeFrom(b, s)
<1>1. PICK kinds : kinds = <<"features", second, third>>
  OBVIOUS
<1>2. DOMAIN kinds = {1, 2, 3} /\ kinds[1] = "features" /\ kinds[2] = second /\ kinds[3] = third
  BY <1>1, RangeOfThree
<1> QED
  BY <1>1, <1>2, JoinIs

LEMMA EpisodesAre ==
    ASSUME NEW s, Whole(s), NEW b \in SessionEpisodeDatasets(s)
    PROVE  MadeFrom(b, s)
<1>1. PICK kinds : kinds = <<"features", "ranges", "structure", "outcomes">>
  OBVIOUS
<1>2. /\ DOMAIN kinds = 1 .. 4 /\ kinds[1] = "features"
      /\ kinds[2] = "ranges" /\ kinds[3] = "structure" /\ kinds[4] = "outcomes"
  BY <1>1
<1>3. \A i \in DOMAIN kinds : i = 1 \/ kinds[i] \in Joinable
  <2>1. \A i \in 1 .. 4 : i \in {1, 2, 3, 4}
    OBVIOUS
  <2> QED
    BY <1>2, <2>1 DEF Joinable
<1>4. 1 \in DOMAIN kinds
  BY <1>2
<1>5. "episodes" \in Joins /\ b \in Join(s, "episodes", kinds)
  BY <1>1 DEF SessionEpisodeDatasets, Joins
<1> HIDE <1>1
<1> QED
  BY <1>2, <1>3, <1>4, <1>5, JoinIs

\* Every command computes from sources that are there what its name tells.
LEMMA ComputedIs ==
    ASSUME NEW s, Whole(s), NEW b \in ArtifactDatasets(s) \cup Reports(s)
    PROVE  MadeFrom(b, s)
<1>1. CASE b \in FeatureDatasets
  <2>1. b.name.kind = "features" /\ b.from = {}
    BY <1>1 DEF FeatureDatasets, Name
  <2> QED
    BY <2>1 DEF Formed, MadeFrom
<1>2. CASE \/ b \in StructuralDatasets(s) \cup SessionRangeDatasets(s) \cup OutcomeDatasets(s)
           \/ b \in MultiHourDatasets(s)
  <2>1. \E k \in Derived : \E f \in Of(s, "features") : b = Named(k, <<f>>)
    BY <1>2 DEF StructuralDatasets, SessionRangeDatasets, OutcomeDatasets, MultiHourDatasets, Derived, Joinable
  <2> QED
    BY <2>1, OneSource DEF Of
<1>3. CASE b \in MultiHourOutcomes(s) \cup GoldStateDatasets(s)
  <2>1. \E k \in Hourly : \E h \in Of(s, "hours") : b = Named(k, <<h>>)
    BY <1>3 DEF MultiHourOutcomes, GoldStateDatasets, Hourly
  <2> QED
    BY <2>1, OneSource DEF Of
<1>4. CASE b \in GoldEpisodeDatasets(s)
  BY <1>4, OneSource DEF GoldEpisodeDatasets, Of
<1>5. CASE b \in RegimeGateLab(s) \cup AbstentionLab(s)
  <2>1. \E k \in Screened : \E e \in Of(s, "episodes") : b = Named(k, <<e>>)
    BY <1>5 DEF RegimeGateLab, AbstentionLab, Screened
  <2> QED
    BY <2>1, OneSource DEF Of
<1>6. CASE b \in Baselines(s) \cup ShockResiliencyLab(s) \cup FeasibilityMap(s)
             \cup SequenceLabReports(s) \cup QuotePressureReports(s)
  <2>1. \E k \in Joins, second \in Joinable : b \in Join(s, k, <<"features", second>>)
    BY <1>6 DEF Baselines, ShockResiliencyLab, FeasibilityMap, SequenceLabReports,
                QuotePressureReports, Joins, Joinable
  <2> QED
    BY <2>1, JoinOfTwo
<1>7. CASE b \in StructuralLab(s) \cup SessionStrategyLab(s)
  <2>1. \E k \in Joins, second \in Joinable, third \in Joinable :
          b \in Join(s, k, <<"features", second, third>>)
    BY <1>7 DEF StructuralLab, SessionStrategyLab, Joins, Joinable
  <2> QED
    BY <2>1, JoinOfThree
<1>8. CASE b \in PathManagementLab(s) \cup ControlledBreakoutLab(s) \cup BreakoutConfirmationLab(s)
  <2>1. \E k \in Replayed : b \in ReplayReports(s, k)
    BY <1>8 DEF PathManagementLab, ControlledBreakoutLab, BreakoutConfirmationLab, Replayed
  <2> QED
    BY <2>1, ReplayIs
<1> QED
  BY <1>1, <1>2, <1>3, <1>4, <1>5, <1>6, <1>7, <1>8, EpisodesAre, TournamentIs, CandidateIs
     DEF ArtifactDatasets, Reports

-----------------------------------------------------------------------------
(* The lineage: one origin                                                 *)

LEMMA ParentsHaveRoot ==
    ASSUME Whole(shelf), NEW names, NEW features, NEW hours, OneRoot(names, features, hours)
    PROVE  OneRoot(Parents(names), features, hours)
<1> SUFFICES ASSUME NEW m \in Parents(names)
             PROVE  /\ m.kind \notin CandidateReports
                    /\ FeatureOf(m) = features
                    /\ m.kind \in HourKinds => HoursOf(m) = hours
  BY DEF OneRoot
<1>1. CASE m \in names
  BY <1>1 DEF OneRoot
<1>2. CASE m \notin names
  <2>1. PICK a \in shelf : a.name \in names /\ m \in a.from
    BY <1>2 DEF Parents
  <2>2. /\ a.name.kind \notin CandidateReports /\ FeatureOf(a.name) = features
        /\ a.name.kind \in HourKinds => HoursOf(a.name) = hours
    BY <2>1 DEF OneRoot
  <2>3. Formed(a)
    BY DEF Whole
  <2> QED
    BY <2>1, <2>2, <2>3, SourceHasRoot
<1> QED
  BY <1>1, <1>2

LEMMA OneFollowed ==
    ASSUME Whole(shelf), NEW names, NEW features, NEW hours, OneRoot(names, features, hours),
           NEW k \in {"features", "hours"}
    PROVE  Cardinality({n \in Ancestors(names) : n.kind = k}) <= 1
<1>1. OneRoot(Ancestors(names), features, hours)
  BY ParentsHaveRoot DEF Ancestors
<1>2. PICK root : \A n \in Ancestors(names) : n.kind = k => n = root
  <2>1. CASE k = "features"
    <3>1. \A n \in Ancestors(names) : n.kind = k => n = features
      BY <1>1, <2>1 DEF OneRoot, FeatureOf
    <3> QED
      BY <3>1, SMTT(30)
  <2>2. CASE k = "hours"
    <3>1. \A n \in Ancestors(names) : n.kind = k => n = hours
      BY <1>1, <2>2 DEF OneRoot, HoursOf, HourKinds
    <3> QED
      BY <3>1
  <2> QED
    BY <2>1, <2>2
<1> DEFINE found == {n \in Ancestors(names) : n.kind = k}
<1>3. found \in SUBSET {root}
  BY <1>2
<1> HIDE DEF found
<1>4. IsFiniteSet({root}) /\ Cardinality({root}) = 1
  BY FS_Singleton
<1>5. IsFiniteSet(found) /\ Cardinality(found) <= 1
  BY <1>3, <1>4, FS_Subset
<1> QED
  BY <1>5 DEF found

LEMMA WholeHasOneOrigin ==
    ASSUME Whole(shelf), NEW a \in shelf
    PROVE  OneOrigin(a)
<1>1. Formed(a)
  BY DEF Whole
<1>2. PICK followed : followed = IF a.name.kind \in CandidateReports
                                 THEN {n \in a.from : n.kind # "gold episodes"} ELSE {a.name}
  OBVIOUS
<1>3. \E features, hours : OneRoot(followed, features, hours)
  <2>1. CASE a.name.kind \notin CandidateReports
    <3>1. followed = {a.name}
      BY <1>2, <2>1
    <3> QED
      BY <2>1, <3>1 DEF OneRoot
  <2>2. CASE a.name.kind \in CandidateReports
    <3>1. PICK o, h : /\ \A n \in followed : n = o \/ n = h
                      /\ o.kind = "hour outcomes" /\ h.kind = "hours" /\ h = o.of[1]
      <4>1. \E g, o, h : /\ a.from = {g, o, h} /\ g.kind = "gold episodes"
                         /\ o.kind = "hour outcomes" /\ h.kind = "hours" /\ h = o.of[1]
        BY <1>1, <2>2, ZenonT(30) DEF Formed, CandidateReports, Derived, Joinable, Hourly, Joins, Replayed,
                          Screened, Audited
      <4> QED
        BY <1>2, <2>2, <4>1
    <3>2. OneRoot({o, h}, o.of[1].of[1], o.of[1])
      BY <3>1 DEF OneRoot, FeatureOf, HoursOf, HourKinds, CandidateReports, Derived, Joinable,
                  Hourly, Joins, Replayed, Screened
    <3> QED
      BY <3>1, <3>2, ZenonT(30) DEF OneRoot
  <2> QED
    BY <2>1, <2>2
<1> QED
  BY <1>2, <1>3, OneFollowed DEF OneOrigin

-----------------------------------------------------------------------------
(* The lineage: steps                                                      *)

Made(w) == {a.name : a \in writer[w].for}
BeingBuilt(n) == \E w \in Writers : writer[w].step = "build" /\ n \in Made(w)
Blocked == killed \/ \A n : n \in partial => BeingBuilt(n)
Shelved == Whole(shelf) /\ \A a \in shelf : a.from \subseteq Names
InHand == \A w \in Writers : \A a \in writer[w].for : Formed(a) /\ a.from \subseteq Names
WritersOk == writer = [w \in Writers |-> [step |-> writer[w].step, for |-> writer[w].for]]

LEMMA InvariantIs == LineageInvariant <=> WritersOk /\ Shelved /\ InHand /\ Blocked
<1>1. (\A a \in shelf : Formed(a) /\ a.from \subseteq Names) <=> Shelved
  BY DEF Shelved, Whole
<1>2. Unblocked <=> (killed \/ \A n : n \in partial => BeingBuilt(n)) /\ \A a \in shelf : a.from \subseteq Names
  <2>1. partial = {n \in partial : BeingBuilt(n)} <=> \A n : n \in partial => BeingBuilt(n)
    OBVIOUS
  <2> QED
    BY <2>1 DEF Unblocked, BeingBuilt, Made, Names
<1> QED
  BY <1>1, <1>2 DEF LineageInvariant, InHand, WritersOk, Blocked

\* The writer that takes a step; the others wait.
LEMMA WriterSet ==
    ASSUME WritersOk, NEW w \in Writers, NEW step, NEW for,
           writer' = [writer EXCEPT ![w] = [step |-> step, for |-> for]]
    PROVE  /\ WritersOk' /\ writer'[w].step = step /\ writer'[w].for = for
           /\ \A o \in Writers : o # w => writer'[o] = writer[o]
<1>1. writer' = [o \in Writers |-> IF o = w THEN [step |-> step, for |-> for] ELSE writer[o]]
  BY DEF WritersOk
<1>2. \A o \in Writers : writer[o] = [step |-> writer[o].step, for |-> writer[o].for]
  BY DEF WritersOk
<1>3. \A o \in Writers : writer'[o] = [step |-> writer'[o].step, for |-> writer'[o].for]
  BY <1>1, <1>2
<1>4. WritersOk'
  BY <1>1, <1>3 DEF WritersOk
<1> QED
  BY <1>1, <1>4

\* What is on the shelf stays under its name, and new things come from it.
LEMMA ShelfGrows ==
    ASSUME Shelved, NEW new, shelf' \subseteq shelf \cup new,
           \A a \in new : Formed(a) /\ a.from \subseteq Names, Names \subseteq Names'
    PROVE  Shelved'
<1>1. Whole(shelf)'
  BY DEF Shelved, Whole
<1>2. ASSUME NEW a \in shelf'
      PROVE  a.from \subseteq Names'
  BY <1>2 DEF Shelved
<1> QED
  BY <1>1, <1>2 DEF Shelved

LEMMA InvariantStep ==
    ASSUME LineageInvariant, NEW w \in Writers, Write(w)
    PROVE  LineageInvariant'
<1>0. WritersOk /\ Shelved /\ InHand /\ Blocked
  BY InvariantIs
<1> SUFFICES WritersOk' /\ Shelved' /\ InHand' /\ Blocked'
  BY InvariantIs, PTL
<1>1. ASSUME UNCHANGED shelf
      PROVE  Shelved' /\ Names' = Names
  BY <1>0, <1>1 DEF Shelved, Whole, Names
<1>2. CASE LookForManifest(w)
  <2>1. PICK a \in ArtifactDatasets(shelf) :
          writer' = [writer EXCEPT ![w] = [step |-> "make", for |-> {a}]]
    BY <1>2 DEF LookForManifest
  <2>2. /\ WritersOk' /\ writer'[w].step = "make" /\ writer'[w].for = {a}
        /\ \A o \in Writers : o # w => writer'[o] = writer[o]
    BY <1>0, <2>1, WriterSet
  <2>3. shelf' = shelf /\ partial' = partial /\ killed' = killed /\ writer[w].step # "build"
    BY <1>2 DEF LookForManifest, NoWriter
  <2>4. Formed(a) /\ a.from \subseteq Names
    <3>1. MadeFrom(a, shelf)
      BY <1>0, ComputedIs DEF Shelved
    <3> QED
      BY <3>1 DEF MadeFrom, Names
  <2>5. InHand'
    BY <1>0, <1>1, <2>2, <2>3, <2>4 DEF InHand
  <2>6. Blocked'
    BY <1>0, <2>2, <2>3 DEF Blocked, BeingBuilt, Made
  <2> QED
    BY <1>1, <2>2, <2>3, <2>5, <2>6
<1>3. CASE MakePartial(w)
  <2>1. shelf' = shelf /\ killed' = killed /\ writer[w].step = "make"
    BY <1>3 DEF MakePartial
  <2>2. CASE Made(w) \subseteq partial
    <3>1. writer' = [writer EXCEPT ![w] = NoWriter] /\ partial' = partial
      BY <1>3, <2>2 DEF MakePartial, Made
    <3>2. /\ WritersOk' /\ writer'[w].step = "idle" /\ writer'[w].for = {}
          /\ \A o \in Writers : o # w => writer'[o] = writer[o]
      BY <1>0, <3>1, WriterSet DEF NoWriter
    <3>3. InHand'
      BY <1>0, <1>1, <2>1, <3>2 DEF InHand
    <3>4. Blocked'
      BY <1>0, <2>1, <3>1, <3>2 DEF Blocked, BeingBuilt, Made
    <3> QED
      BY <1>1, <2>1, <3>2, <3>3, <3>4
  <2>3. CASE ~(Made(w) \subseteq partial)
    <3>1. writer' = [writer EXCEPT ![w].step = "build"] /\ partial' = partial \cup Made(w)
      BY <1>3, <2>3 DEF MakePartial, Made
    <3>2. writer' = [writer EXCEPT ![w] = [step |-> "build", for |-> writer[w].for]]
      <4>1. writer[w] = [step |-> writer[w].step, for |-> writer[w].for]
        BY <1>0 DEF WritersOk
      <4>2. PICK old : old = writer[w] /\ old = [step |-> old.step, for |-> old.for]
        BY <4>1
      <4>3. writer' = [writer EXCEPT ![w] = [old EXCEPT !.step = "build"]]
        BY <3>1, <4>2
      <4>4. [old EXCEPT !.step = "build"] = [step |-> "build", for |-> old.for]
        BY <4>2
      <4> QED
        BY <4>2, <4>3, <4>4
    <3>3. /\ WritersOk' /\ writer'[w].step = "build" /\ writer'[w].for = writer[w].for
          /\ \A o \in Writers : o # w => writer'[o] = writer[o]
      BY <1>0, <3>2, WriterSet
    <3>4. InHand'
      BY <1>0, <1>1, <2>1, <3>3 DEF InHand
    <3>5. Blocked'
      <4>1. \A o \in Writers : writer[o].step = "build" => writer'[o].step = "build"
        BY <2>1, <3>3
      <4>2. \A o \in Writers : Made(o)' = Made(o)
        BY <3>3 DEF Made
      <4>3. \A n : BeingBuilt(n) => BeingBuilt(n)'
        BY <4>1, <4>2 DEF BeingBuilt
      <4>4. \A n \in Made(w) : BeingBuilt(n)'
        BY <3>3, <4>2 DEF BeingBuilt
      <4> QED
        BY <1>0, <2>1, <3>1, <4>3, <4>4 DEF Blocked
    <3> QED
      BY <1>1, <2>1, <3>3, <3>4, <3>5
  <2> QED
    BY <2>2, <2>3
<1>4. CASE PublishArtifact(w) \/ RaiseBuilding(w)
  <2>1. /\ writer' = [writer EXCEPT ![w] = NoWriter] /\ killed' = killed
        /\ partial' = partial \ Made(w)
    BY <1>4 DEF PublishArtifact, RaiseBuilding, Made
  <2>2. /\ WritersOk' /\ writer'[w].step = "idle" /\ writer'[w].for = {}
        /\ \A o \in Writers : o # w => writer'[o] = writer[o]
    BY <1>0, <2>1, WriterSet DEF NoWriter
  <2>3. shelf' = shelf \/ shelf' = shelf \cup {a \in writer[w].for : ~On(shelf, a.name)}
    BY <1>4 DEF PublishArtifact, RaiseBuilding
  <2>4. Names \subseteq Names'
    BY <2>3 DEF Names
  <2>5. Shelved'
    <3>1. \A a \in writer[w].for : Formed(a) /\ a.from \subseteq Names
      BY <1>0 DEF InHand
    <3>2. shelf' \subseteq shelf \cup writer[w].for
      BY <2>3
    <3> QED
      BY <1>0, <2>4, <3>1, <3>2, ShelfGrows
  <2>6. InHand'
    BY <1>0, <2>2, <2>4 DEF InHand
  <2>7. Blocked'
    <3>1. ASSUME NEW n, n \in partial', BeingBuilt(n)
          PROVE  BeingBuilt(n)'
      <4>1. PICK o \in Writers : writer[o].step = "build" /\ n \in Made(o)
        BY <3>1 DEF BeingBuilt
      <4>2. o # w
        BY <2>1, <3>1, <4>1
      <4> QED
        BY <2>2, <4>1, <4>2 DEF BeingBuilt, Made
    <3> QED
      BY <1>0, <2>1, <3>1 DEF Blocked
  <2> QED
    BY <2>2, <2>5, <2>6, <2>7
<1>5. CASE DieBuilding(w)
  <2>1. writer' = [writer EXCEPT ![w] = NoWriter] /\ killed' = TRUE /\ shelf' = shelf
    BY <1>5 DEF DieBuilding
  <2>2. /\ WritersOk' /\ writer'[w].for = {}
        /\ \A o \in Writers : o # w => writer'[o] = writer[o]
    BY <1>0, <2>1, WriterSet, ZenonT(30) DEF NoWriter
  <2>3. InHand'
    BY <1>0, <1>1, <2>1, <2>2 DEF InHand
  <2> QED
    BY <1>1, <2>1, <2>2, <2>3 DEF Blocked
<1>6. CASE WriteReport(w)
  <2>1. PICK a \in Reports(shelf) : shelf' = {b \in shelf : b.name # a.name} \cup {a}
    BY <1>6 DEF WriteReport
  <2>2. writer' = writer /\ partial' = partial /\ killed' = killed
    BY <1>6 DEF WriteReport
  <2>3. Names \subseteq Names'
    <3>1. ASSUME NEW b \in shelf
          PROVE  \E c \in shelf' : c.name = b.name
      BY <2>1, <3>1
    <3> QED
      BY <3>1 DEF Names
  <2>4. Formed(a) /\ a.from \subseteq Names
    <3>1. MadeFrom(a, shelf)
      BY <1>0, ComputedIs DEF Shelved
    <3> QED
      BY <3>1 DEF MadeFrom, Names
  <2>5. Shelved'
    <3>1. shelf' \subseteq shelf \cup {a}
      BY <2>1
    <3> QED
      BY <1>0, <2>3, <2>4, <3>1, ShelfGrows, Zenon
  <2>6. InHand' /\ WritersOk' /\ Blocked'
    BY <1>0, <2>2, <2>3 DEF InHand, WritersOk, Blocked, BeingBuilt, Made
  <2> QED
    BY <2>5, <2>6
<1> QED
  BY <1>2, <1>3, <1>4, <1>5, <1>6 DEF Write

LEMMA LineageStarts == LineageInit => LineageInvariant
<1> SUFFICES ASSUME LineageInit
             PROVE  WritersOk /\ Shelved /\ InHand /\ Blocked
  BY InvariantIs
<1> DEFINE Good(s) == Whole(s) /\ \A a \in s : a.from \subseteq {b.name : b \in s}
<1>1. Good({})
  BY DEF Whole
<1>2. ASSUME NEW s, Good(s)
      PROVE  Good(Grown(s))
  <2>1. \A b \in ArtifactDatasets(s) : Formed(b) /\ b.from \subseteq {a.name : a \in s}
    BY <1>2, ComputedIs DEF MadeFrom
  <2> QED
    BY <1>2, <2>1 DEF Grown, Whole
<1> HIDE DEF Good
<1>3. Good(shelf)
  BY <1>1, <1>2 DEF LineageInit
<1>4. Shelved
  BY <1>3 DEF Good, Shelved, Names
<1>5. writer = [w \in Writers |-> NoWriter] /\ partial = {}
  BY DEF LineageInit
<1>6. WritersOk /\ InHand
  BY <1>5 DEF WritersOk, InHand, NoWriter
<1> QED
  BY <1>4, <1>5, <1>6 DEF Blocked

\* Whatever the commands have computed, in any order and cut short anywhere, is
\* of the kinds that its name tells, and all its sources are there.
THEOREM LineageAlways == LineageSpec => []LineageInvariant
<1>1. LineageInvariant /\ UNCHANGED lineageVars => LineageInvariant'
  <2> SUFFICES ASSUME LineageInvariant, UNCHANGED lineageVars
               PROVE  WritersOk' /\ Shelved' /\ InHand' /\ Blocked'
    BY InvariantIs, PTL
  <2>1. WritersOk /\ Shelved /\ InHand /\ Blocked
    BY InvariantIs
  <2>2. shelf' = shelf /\ partial' = partial /\ writer' = writer /\ killed' = killed
    BY DEF lineageVars
  <2> QED
    BY <2>1, <2>2 DEF WritersOk, Shelved, Whole, InHand, Blocked, BeingBuilt, Made, Names
<1>2. LineageInvariant /\ [LineageNext]_lineageVars => LineageInvariant'
  BY <1>1, InvariantStep DEF LineageNext
<1> QED
  BY <1>2, LineageStarts, PTL DEF LineageSpec

\* Nothing is computed from two feature data sets or two sets of bars, a name
\* stands for the same sources in every call, and no directory blocks a name
\* once nobody builds it, unless a call was killed.
THEOREM LineageHoldsAlways == LineageSpec => []LineageHolds
<1>1. LineageInvariant => LineageHolds
  <2> SUFFICES ASSUME LineageInvariant
               PROVE  LineageHolds
    OBVIOUS
  <2>1. Whole(shelf) /\ Unblocked
    BY InvariantIs DEF LineageInvariant, Shelved
  <2>2. \A a \in shelf : OneOrigin(a)
    BY <2>1, WholeHasOneOrigin
  <2>3. OneMeaning
    BY <2>1, ComputedIs, NameTellsSources DEF OneMeaning, Whole, MadeFrom
  <2> QED
    BY <2>1, <2>2, <2>3 DEF LineageHolds
<1> QED
  BY <1>1, LineageAlways, PTL
=============================================================================

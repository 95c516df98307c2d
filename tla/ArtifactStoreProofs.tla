------------------------- MODULE ArtifactStoreProofs -------------------------
(***************************************************************************)
(* Theorems about ArtifactStore, for any number of runs, workers, readers, *)
(* files, clip names, sampling rates and faults: the six invariants that   *)
(* are also model-checked.                                                 *)
(*                                                                         *)
(* IInv is their inductive strengthening.  It says at which file every     *)
(* worker is and what the files behind it hold (Progress), when a file may *)
(* be empty or torn (WritesExplained), what the frames directory has kept  *)
(* from which run (FramesExplained), that a run which is over and was      *)
(* completed before another leaves no file behind unless runs overlapped   *)
(* (Replaced), and what a reader knows between its two queries             *)
(* (ReadersWellFormed).                                                    *)
(***************************************************************************)
EXTENDS ArtifactStore, TLAPS

\* The name under which run r has its i-th file.
Name(r, i) == IF FileOrder[i] = "clip" THEN clip[r] ELSE FileOrder[i]

Early == {"normalize", "extract", "analyse"}
Late  == {"save", "cutting", "cut", "saving", "commit"}

\* Every busy worker has a run of its own, started under the configuration of now.
WorkersOwnRuns ==
    /\ \A w \in Workers : Busy(w) =>
          /\ Mine(w) \in Runs
          /\ run[Mine(w)] = "running"
          /\ startedAs[Mine(w)] = config
    /\ \A v, w \in Workers : Busy(v) /\ Busy(w) /\ Mine(v) = Mine(w) => v = w

\* A run that waits has left no trace; the completed ones are those with rows.
RunsWellFormed ==
    /\ \A r \in Runs : run[r] = "pending" => clip[r] = None /\ startedAs[r] = None
    /\ rows = Completed
    /\ Completed # {} => \E n \in Completed : \A m \in Completed : m <= n

\* What a worker holds at each of its steps.
WorkersWellFormed == \A w \in Workers :
    /\ worker[w].pc \in Early =>
          clip[Mine(w)] = None /\ worker[w].at = 1 /\ worker[w].data = None
    /\ worker[w].pc \in Late => clip[Mine(w)] \in ClipNames
    /\ worker[w].pc \in {"cutting", "cut"} =>
          Saving(w) \in ClipNames /\ worker[w].data = None
    /\ worker[w].pc \in {"cutting", "cut", "saving"} => file[Saving(w)] \notin {None, Legacy}
    /\ worker[w].pc = "saving" /\ Saving(w) \in ClipNames => worker[w].data # None
    /\ worker[w].pc \in {"save", "saving"} /\ worker[w].data # None => Saving(w) \in ClipNames

ClipsNotLegacy == \A f \in ClipNames : file[f] # Legacy

\* The files behind a worker are there, and its own unless runs have overlapped.
Progress == \A w \in Workers : worker[w].pc \in Late =>
    \A i \in 1..Len(FileOrder) : i < worker[w].at \/ worker[w].pc = "commit" =>
        /\ file[Name(Mine(w), i)] \notin {None, Legacy}
        /\ ~overlap => file[Name(Mine(w), i)] = Mine(w)

RowsNamed == \A r \in rows :
    /\ clip[r] \in ClipNames
    /\ \A f \in Named(r) : file[f] \notin {None, Legacy}

ManifestNamed == file["timeline_manifest"] \in Runs =>
    /\ clip[file["timeline_manifest"]] \in ClipNames
    /\ file[clip[file["timeline_manifest"]]] # None

\* A worker that is alone with a file it opened finds it as opening left it.
OpenAlone == \A w \in Workers, f \in Files \ crossed : Open(w, f) =>
    /\ file[f] = Empty
    /\ \A v \in Workers : Open(v, f) => v = w

\* An empty file is open; without a fault, a torn one was opened by two at once, or is a clip
\* of runs that overlapped.
WritesExplained ==
    /\ \A f \in Files : file[f] = Empty => \E w \in Workers : Open(w, f)
    /\ OpenAlone
    /\ \A f \in Files : file[f] = Torn /\ faults = 0 =>
          IF f \in ClipNames THEN overlap ELSE f \in crossed

\* As long as runs have not overlapped, one worker at most is busy, with the run started last.
Serial == ~overlap =>
    /\ crossed = {}
    /\ \A v, w \in Workers : Busy(v) /\ Busy(w) => v = w
    /\ \A w \in Workers : Busy(w) => last = Mine(w)
    /\ \A w \in Workers : worker[w].pc = "cut" => file[Saving(w)] = Mine(w)
    /\ \A w \in Workers : Busy(w) => worker[w].data \in {None, Mine(w)}
    /\ last # None /\ run[last] = "completed" => \A f \in Named(last) : file[f] = last

\* Every frame comes from a run started under its rate; a run analyses its own ones, and of
\* others those beyond its own.
FramesExplained ==
    /\ \A i \in Frames : frame[i] # None =>
          i <= FrameCount[frame[i]] /\ \E q \in Runs : startedAs[q] = frame[i]
    /\ ~overlap => \A w \in Workers : worker[w].pc = "analyse" =>
          \A i \in 1..FrameCount[config] : frame[i] = config
    /\ ~overlap => \A r \in Runs : clip[r] # None =>
          /\ startedAs[r] \in Configs
          /\ FrameCount[startedAs[r]] > 0 => startedAs[r] \in inputs[r]
          /\ \A c \in inputs[r] :
                \/ c = startedAs[r] /\ FrameCount[c] > 0
                \/ FrameCount[c] > FrameCount[startedAs[r]] /\ \E q \in Runs : startedAs[q] = c

\* A run that is over, of which no document is left unless runs overlapped.
Replaced(q) ==
    /\ run[q] # "pending"
    /\ \A w \in Workers : Busy(w) => Mine(w) # q
    /\ ~overlap => \A f \in Documents : file[f] # q

OutdatedReplaced == \A q \in outdated : Replaced(q)

\* The runs that a reader must not be served are replaced, and those of them that completed
\* are no newer than the newest it knows of; one without run_id that has resolved the latest
\* run knows one as new as it was due.
ReaderWellFormed(r) ==
    /\ r.pc # "idle" => r.file \in Documents
    /\ \A q \in r.old : Replaced(q) /\ (q \in Completed /\ r.since # 0 => q <= r.since)
    /\ r.pinned = None /\ r.since # 0 =>
          /\ r.since \in Completed
          /\ r.pc = "row" => r.seen \in Completed /\ r.seen >= r.since
          /\ r.pc \in {"read", "done"} => r.row \in Completed /\ r.row >= r.since
          /\ r.pc = "done" => r.content \in Runs \cup {Torn}
          /\ r.pc = "done" /\ ~overlap => r.content \notin r.old

ReadersWellFormed == \A c \in Readers : ReaderWellFormed(reader[c])

IInv ==
    /\ TypeOK
    /\ WorkersOwnRuns
    /\ RunsWellFormed
    /\ WorkersWellFormed
    /\ ClipsNotLegacy
    /\ Progress
    /\ RowsNamed
    /\ ManifestNamed
    /\ WritesExplained
    /\ Serial
    /\ FramesExplained
    /\ OutdatedReplaced
    /\ ReadersWellFormed

-----------------------------------------------------------------------------
(* Names of files.                                                          *)

LEMMA DocumentsAreFiles ==
    /\ "timeline_manifest" \in Documents
    /\ \A i \in 1..Len(FileOrder) : FileOrder[i] = "clip" \/ FileOrder[i] \in Documents
    /\ \A f \in Documents : f # "clip" /\ \E i \in 1..Len(FileOrder) : FileOrder[i] = f
    /\ \A f \in Documents : f \in Files /\ f \notin ClipNames
    /\ \A f \in ClipNames : f \in Files /\ f \notin Documents /\ f # None
BY StoreAssumption DEF Documents, Files

LEMMA SavingIsNamed == \A w \in Workers : Saving(w) = Name(Mine(w), worker[w].at)
BY DEF Saving, Name

\* The files of a run with a clip: all different, the documents and its clip.
LEMMA NamesOfRun ==
    ASSUME NEW r \in Runs, clip[r] \in ClipNames
    PROVE  /\ \A i \in 1..Len(FileOrder) : Name(r, i) \in Files
           /\ \A i, j \in 1..Len(FileOrder) : Name(r, i) = Name(r, j) => i = j
           /\ \A i \in 1..Len(FileOrder) : Name(r, i) \in Named(r)
           /\ \A f \in Named(r) : f \in Files /\ \E i \in 1..Len(FileOrder) : Name(r, i) = f
           /\ \A i \in 1..Len(FileOrder) :
                 IF FileOrder[i] = "clip" THEN Name(r, i) = clip[r]
                 ELSE Name(r, i) = FileOrder[i] /\ Name(r, i) \in Documents
<1>1. \E i \in 1..Len(FileOrder) : FileOrder[i] = "clip"
  BY StoreAssumption
<1>2. \A i \in 1..Len(FileOrder) :
         IF FileOrder[i] = "clip" THEN Name(r, i) = clip[r]
         ELSE Name(r, i) = FileOrder[i] /\ Name(r, i) \in Documents
  BY DocumentsAreFiles DEF Name
<1>3. \A i, j \in 1..Len(FileOrder) : Name(r, i) = Name(r, j) => i = j
  <2>1. \A i, j \in 1..Len(FileOrder) : FileOrder[i] = FileOrder[j] => i = j
    BY StoreAssumption
  <2> QED
    BY <1>2, <2>1, DocumentsAreFiles
<1>4. \A i \in 1..Len(FileOrder) : Name(r, i) \in Files /\ Name(r, i) \in Named(r)
  BY <1>2, DocumentsAreFiles DEF Named
<1>5. ASSUME NEW f \in Named(r)
      PROVE  f \in Files /\ \E i \in 1..Len(FileOrder) : Name(r, i) = f
  <2>1. CASE f = clip[r]
    BY <1>1, <1>2, <2>1, DocumentsAreFiles
  <2>2. CASE f \in Documents
    BY <1>2, <2>2, DocumentsAreFiles
  <2> QED
    BY <2>1, <2>2 DEF Named
<1> QED
  BY <1>2, <1>3, <1>4, <1>5

-----------------------------------------------------------------------------
(* The worker's steps.                                                      *)

WorkerStates == [pc : WorkerPcs, run : Runs \cup {None}, at : 1..Len(FileOrder),
                 data : Runs \cup {None, Torn}]

\* What Goes and Rests change.
LEMMA GoesFacts ==
    ASSUME TypeOK, NEW w \in Workers, NEW pc \in WorkerPcs, Goes(w, pc)
    PROVE  /\ worker' \in [Workers -> WorkerStates]
           /\ \A v \in Workers \ {w} : worker'[v] = worker[v]
           /\ worker'[w].pc = pc /\ worker'[w].run = worker[w].run
           /\ worker'[w].at = worker[w].at /\ worker'[w].data = worker[w].data
<1>1. worker \in [Workers -> WorkerStates]
  BY DEF TypeOK, WorkerStates
<1>2. worker' = [worker EXCEPT ![w] = [worker[w] EXCEPT !.pc = pc]]
  BY DEF Goes
<1>3. worker[w] \in WorkerStates
  BY <1>1
<1>4. [worker[w] EXCEPT !.pc = pc] \in WorkerStates
  BY <1>3 DEF WorkerStates
<1> QED
  BY <1>1, <1>2, <1>3, <1>4 DEF WorkerStates

LEMMA RestsFacts ==
    ASSUME TypeOK, NEW w \in Workers, Rests(w)
    PROVE  /\ worker' \in [Workers -> WorkerStates]
           /\ \A v \in Workers \ {w} : worker'[v] = worker[v]
           /\ worker'[w].pc = "idle" /\ worker'[w].data = None
<1>1. worker \in [Workers -> WorkerStates]
  BY DEF TypeOK, WorkerStates
<1>2. 1 \in 1..Len(FileOrder)
  BY StoreAssumption
<1>3. Resting \in WorkerStates
  BY <1>2 DEF Resting, WorkerStates, WorkerPcs
<1> QED
  BY <1>1, <1>3 DEF Rests, Resting

\* Where a worker is that has its clip named: at one file of its run's, and at none behind it.
LEMMA WorkerAtFile ==
    ASSUME IInv, NEW w \in Workers, worker[w].pc \in Late
    PROVE  /\ Busy(w) /\ Mine(w) \in Runs /\ clip[Mine(w)] \in ClipNames
           /\ run[Mine(w)] = "running"
           /\ worker[w].at \in 1..Len(FileOrder)
           /\ Saving(w) = Name(Mine(w), worker[w].at)
           /\ Saving(w) \in Files
           /\ \A i \in 1..Len(FileOrder) : Name(Mine(w), i) = Saving(w) => i = worker[w].at
<1>1. Busy(w) /\ Mine(w) \in Runs /\ clip[Mine(w)] \in ClipNames /\ run[Mine(w)] = "running"
  BY DEF IInv, WorkersOwnRuns, WorkersWellFormed, Late, Busy
<1>2. worker[w].at \in 1..Len(FileOrder)
  BY DEF IInv, TypeOK
<1>3. Saving(w) = Name(Mine(w), worker[w].at)
  BY SavingIsNamed
<1> QED
  BY <1>1, <1>2, <1>3, NamesOfRun

\* A worker changes the file it is at, to something that is there and is not another run's
\* document: no file goes away, and of those behind any worker none becomes another run's.
LEMMA OneFileChanges ==
    ASSUME IInv, NEW w \in Workers, worker[w].pc \in Late \ {"commit"},
           NEW x \in Runs \cup {Torn, Empty}, file' = [file EXCEPT ![Saving(w)] = x],
           Saving(w) \in Documents /\ x \in Runs => x \in {Mine(w), file[Saving(w)]},
           UNCHANGED <<rows, clip>>
    PROVE  /\ file' \in [Files -> Origins \cup {Empty}]
           /\ file'[Saving(w)] = x
           /\ \A f \in Files \ {Saving(w)} : file'[f] = file[f]
           /\ \A f \in Files : file[f] \notin {None, Legacy} => file'[f] \notin {None, Legacy}
           /\ ClipsNotLegacy' /\ RowsNamed' /\ ManifestNamed'
           /\ \A q \in Runs : q # Mine(w) =>
                 \A f \in Documents : file[f] # q => file'[f] # q
           /\ \A v \in Workers : worker[v].pc \in Late =>
                 \A i \in 1..Len(FileOrder) : i < worker[v].at \/ worker[v].pc = "commit" =>
                    /\ file'[Name(Mine(v), i)] \notin {None, Legacy}
                    /\ ~overlap => file'[Name(Mine(v), i)] = Mine(v)
<1>1. /\ Mine(w) \in Runs /\ clip[Mine(w)] \in ClipNames
      /\ worker[w].at \in 1..Len(FileOrder)
      /\ Saving(w) = Name(Mine(w), worker[w].at) /\ Saving(w) \in Files
      /\ \A i \in 1..Len(FileOrder) : Name(Mine(w), i) = Saving(w) => i = worker[w].at
  BY WorkerAtFile
<1>2. /\ None \notin Runs /\ Legacy \notin Runs /\ Torn \notin Runs /\ Empty \notin Runs
      /\ None # Empty /\ None # Torn /\ Legacy # Empty /\ Legacy # Torn
  BY StoreAssumption
<1>3. /\ file' \in [Files -> Origins \cup {Empty}]
      /\ file'[Saving(w)] = x /\ x \notin {None, Legacy}
      /\ \A f \in Files \ {Saving(w)} : file'[f] = file[f]
  BY <1>1, <1>2 DEF IInv, TypeOK, Origins
<1>4. \A f \in Files : file[f] # None => file'[f] # None
  BY <1>3
<1>5. \A f \in Files : file[f] \notin {None, Legacy} => file'[f] \notin {None, Legacy}
  BY <1>3
<1>6. ClipsNotLegacy'
  BY <1>3, DocumentsAreFiles DEF IInv, ClipsNotLegacy
<1>7. RowsNamed'
  BY <1>5, DocumentsAreFiles DEF IInv, RowsNamed, Named
<1>8. ManifestNamed'
  <2>1. CASE Saving(w) = "timeline_manifest" /\ x = Mine(w)
    <3>1. PICK i \in 1..Len(FileOrder) : FileOrder[i] = "clip" /\ i < worker[w].at
      <4>1. FileOrder[worker[w].at] = "timeline_manifest"
        BY <1>1, <2>1, DocumentsAreFiles DEF Name
      <4> QED
        BY <1>1, <4>1, StoreAssumption
    <3>2. Name(Mine(w), i) = clip[Mine(w)]
      BY <3>1 DEF Name
    <3>3. file[clip[Mine(w)]] # None
      BY <3>1, <3>2 DEF IInv, Progress
    <3> QED
      BY <1>1, <1>3, <1>4, <2>1, <3>3, DocumentsAreFiles DEF ManifestNamed
  <2>2. CASE Saving(w) = "timeline_manifest" /\ x # Mine(w)
    BY <1>1, <1>2, <1>3, <1>4, <2>2, DocumentsAreFiles DEF IInv, ManifestNamed
  <2>3. CASE Saving(w) # "timeline_manifest"
    BY <1>1, <1>3, <1>4, <2>3, DocumentsAreFiles DEF IInv, ManifestNamed
  <2> QED
    BY <2>1, <2>2, <2>3
<1>9. ASSUME NEW q \in Runs, q # Mine(w), NEW f \in Documents, file[f] # q
      PROVE  file'[f] # q
  BY <1>2, <1>3, <1>9, DocumentsAreFiles
<1>10. ASSUME NEW v \in Workers, worker[v].pc \in Late, NEW i \in 1..Len(FileOrder),
              i < worker[v].at \/ worker[v].pc = "commit"
       PROVE  /\ file'[Name(Mine(v), i)] \notin {None, Legacy}
              /\ ~overlap => file'[Name(Mine(v), i)] = Mine(v)
  <2>1. /\ file[Name(Mine(v), i)] \notin {None, Legacy}
        /\ ~overlap => file[Name(Mine(v), i)] = Mine(v)
    BY <1>10 DEF IInv, Progress
  <2>2. Name(Mine(v), i) \in Files
    BY <1>10, WorkerAtFile, NamesOfRun
  <2>3. ASSUME ~overlap
        PROVE  file'[Name(Mine(v), i)] = Mine(v)
    <3>1. v = w
      BY <1>10, <2>3, WorkerAtFile DEF IInv, Serial
    <3>2. i # worker[w].at
      BY <1>1, <1>10, <3>1
    <3>3. Name(Mine(v), i) # Saving(w)
      BY <1>1, <3>1, <3>2
    <3> QED
      BY <1>3, <2>1, <2>2, <2>3, <3>3
  <2> QED
    BY <1>5, <2>1, <2>2, <2>3
<1> QED
  BY <1>3, <1>5, <1>6, <1>7, <1>8, <1>9, <1>10

\* Readers who do not move: what they must not be served stays replaced.
LEMMA ReadersStay ==
    ASSUME IInv, UNCHANGED reader, overlap => overlap', Completed \subseteq Completed',
           \A q \in Runs : Replaced(q) => Replaced(q)' /\ (q \in Completed' => q \in Completed)
    PROVE  ReadersWellFormed'
<1>1. \A c \in Readers : reader[c].old \subseteq Runs
  BY DEF IInv, TypeOK
<1>2. SUFFICES ASSUME NEW c \in Readers
               PROVE  ReaderWellFormed(reader[c])'
  BY DEF ReadersWellFormed
<1>3. ReaderWellFormed(reader[c])
  BY DEF IInv, ReadersWellFormed
<1>4. \A q \in reader[c].old :
         Replaced(q)' /\ (q \in Completed' /\ reader[c].since # 0 => q <= reader[c].since)
  BY <1>1, <1>3 DEF ReaderWellFormed
<1> QED
  BY <1>3, <1>4 DEF ReaderWellFormed

\* A worker that closes the file it had open leaves it whole, or explains why it does not.
LEMMA ClosingExplained ==
    ASSUME IInv, NEW w \in Workers, worker[w].pc \in {"cutting", "saving"},
           NEW x \in Runs \cup {Torn}, file' = [file EXCEPT ![Saving(w)] = x],
           x = Torn /\ faults' = 0 =>
              IF Saving(w) \in ClipNames THEN overlap ELSE Saving(w) \in crossed,
           worker'[w].pc \notin {"cutting", "saving"},
           \A v \in Workers \ {w} : worker'[v] = worker[v], faults' = 0 => faults = 0,
           UNCHANGED <<clip, crossed, overlap>>
    PROVE  WritesExplained'
<1>1. Saving(w) \in Files
  BY WorkerAtFile DEF Late
<1>2. Empty \notin Runs /\ Empty # Torn
  BY StoreAssumption
<1>3. /\ file'[Saving(w)] = x
      /\ \A f \in Files \ {Saving(w)} : file'[f] = file[f]
  BY <1>1 DEF IInv, TypeOK
<1>4. \A v \in Workers, f \in Files : Open(v, f)' <=> v # w /\ Open(v, f)
  BY DEF Open, Saving, Mine
<1>5. \A f \in Files : Open(w, f) <=> f = Saving(w)
  BY DEF Open
<1>6. \A f \in Files : file'[f] = Empty => \E v \in Workers : Open(v, f)'
  BY <1>2, <1>3, <1>4, <1>5 DEF IInv, WritesExplained
<1>7. OpenAlone'
  BY <1>1, <1>3, <1>4, <1>5 DEF IInv, WritesExplained, OpenAlone
<1>8. ASSUME NEW f \in Files, file'[f] = Torn, faults' = 0
      PROVE  IF f \in ClipNames THEN overlap ELSE f \in crossed
  BY <1>3, <1>8 DEF IInv, WritesExplained
<1> QED
  BY <1>6, <1>7, <1>8 DEF WritesExplained

\* Normalisation only moves the worker on.
LEMMA NormalizeKeeps ==
    ASSUME IInv, NEW w \in Workers, Normalize(w)
    PROVE  IInv'
<1>1. /\ worker' \in [Workers -> WorkerStates]
      /\ \A v \in Workers \ {w} : worker'[v] = worker[v]
      /\ worker[w].pc = "normalize" /\ worker'[w].pc = "extract"
      /\ worker'[w].run = worker[w].run
      /\ worker'[w].at = worker[w].at /\ worker'[w].data = worker[w].data
  BY GoesFacts DEF IInv, Normalize, WorkerPcs
<1>2. UNCHANGED <<run, rows, legacy, clip, file, frame, config, redeploys, reader, faults,
   last, overlap, crossed, outdated, inputs, startedAs>>
  BY DEF Normalize
<1>3. \A v \in Workers : Saving(v)' = Saving(v)
  BY <1>1, <1>2 DEF Saving, Mine
<1>4. TypeOK'
  BY <1>1, <1>2 DEF IInv, TypeOK, WorkerStates
<1>5. WorkersOwnRuns'
  BY <1>1, <1>2, <1>3 DEF IInv, WorkersOwnRuns, Busy, Mine
<1>6. RunsWellFormed'
  BY <1>1, <1>2, <1>3 DEF IInv, RunsWellFormed, Completed
<1>7. WorkersWellFormed'
  BY <1>1, <1>2, <1>3 DEF IInv, WorkersWellFormed, Early, Late, Mine
<1>8. ClipsNotLegacy'
  BY <1>1, <1>2, <1>3 DEF IInv, ClipsNotLegacy
<1>9. Progress'
  BY <1>1, <1>2, <1>3 DEF IInv, Progress, Name, Late, Mine
<1>10. RowsNamed'
  BY <1>1, <1>2, <1>3 DEF IInv, RowsNamed, Named
<1>11. ManifestNamed'
  BY <1>1, <1>2, <1>3 DEF IInv, ManifestNamed
<1>12. WritesExplained'
  BY <1>1, <1>2, <1>3 DEF IInv,
     WritesExplained, OpenAlone, Open
<1>13. Serial'
  BY <1>1, <1>2, <1>3 DEF IInv, Serial, Busy, Mine, Named
<1>14. FramesExplained'
  BY <1>1, <1>2, <1>3 DEF IInv, FramesExplained, Mine
<1>15. ASSUME NEW q \in Runs, Replaced(q)
      PROVE  Replaced(q)'
  BY <1>1, <1>2, <1>15 DEF Replaced, Busy, Mine
<1>16. Completed' = Completed
  BY <1>2 DEF Completed
<1>17. OutdatedReplaced' /\ ReadersWellFormed'
  BY <1>2, <1>15, <1>16, ReadersStay DEF IInv, TypeOK, OutdatedReplaced
<1> QED
  BY <1>4, <1>5, <1>6, <1>7, <1>8, <1>9, <1>10, <1>11, <1>12, <1>13, <1>14, <1>17 DEF IInv

\* A worker opens the file it is at, a clip to cut it or any file to save it: the file is
\* empty and open, and the worker is alone with it or the file is crossed.
LEMMA OpeningKeeps ==
    ASSUME IInv, NEW w \in Workers, NEW pc \in {"cutting", "saving"},
           worker[w].pc = "save", Opens(w), Goes(w, pc),
           pc = "cutting" => Saving(w) \in ClipNames /\ worker[w].data = None,
           pc = "saving" => Saving(w) \in Documents \/ worker[w].data # None,
           UNCHANGED <<run, rows, legacy, clip, frame, config, redeploys, reader, faults,
                       last, overlap, outdated, inputs, startedAs>>
    PROVE  IInv'
<1>1. /\ worker' \in [Workers -> WorkerStates]
      /\ \A v \in Workers \ {w} : worker'[v] = worker[v]
      /\ worker'[w].pc = pc /\ worker'[w].run = worker[w].run
      /\ worker'[w].at = worker[w].at /\ worker'[w].data = worker[w].data
  BY GoesFacts DEF IInv, WorkerPcs
<1>2. /\ \A v \in Workers : Saving(v)' = Saving(v) /\ Mine(v)' = Mine(v)
      /\ Completed' = Completed /\ worker[w].pc \in Late \ {"commit"}
  BY <1>1 DEF Saving, Mine, Completed, Late
<1>3. Busy(w) /\ Mine(w) \in Runs /\ Saving(w) \in Files
  BY <1>2, WorkerAtFile
<1>4. Empty \notin Runs /\ Empty # Torn /\ Empty # None
  BY StoreAssumption
<1>5. /\ file' \in [Files -> Origins \cup {Empty}]
      /\ file'[Saving(w)] = Empty
      /\ \A f \in Files \ {Saving(w)} : file'[f] = file[f]
      /\ ClipsNotLegacy' /\ RowsNamed' /\ ManifestNamed'
      /\ \A q \in Runs : q # Mine(w) =>
            \A f \in Documents : file[f] # q => file'[f] # q
      /\ \A v \in Workers : worker[v].pc \in Late =>
            \A i \in 1..Len(FileOrder) : i < worker[v].at \/ worker[v].pc = "commit" =>
               /\ file'[Name(Mine(v), i)] \notin {None, Legacy}
               /\ ~overlap => file'[Name(Mine(v), i)] = Mine(v)
  <2>1. file' = [file EXCEPT ![Saving(w)] = Empty]
    BY DEF Opens
  <2> QED
    BY <1>2, <1>4, <2>1, OneFileChanges
<1>6. /\ crossed' \subseteq Files
      /\ \A f \in Files \ {Saving(w)} : f \in crossed' <=> f \in crossed
      /\ Saving(w) \in crossed' <=> Shared(w)
  BY <1>3 DEF Opens, IInv, TypeOK
<1>7. TypeOK'
  BY <1>1, <1>5, <1>6 DEF IInv, TypeOK, WorkerStates
<1>8. WorkersOwnRuns'
  BY <1>1, <1>2 DEF IInv, WorkersOwnRuns, Busy
<1>9. RunsWellFormed'
  BY <1>2 DEF IInv, RunsWellFormed
<1>10. WorkersWellFormed'
  <2>1. \A v \in Workers : worker[v].pc \in {"cutting", "cut", "saving"} => Saving(v) \in Files
    BY WorkerAtFile DEF Late
  <2>2. Empty \notin {None, Legacy}
    BY StoreAssumption
  <2> QED
    BY <1>1, <1>2, <1>5, <2>1, <2>2, DocumentsAreFiles DEF IInv, WorkersWellFormed, Early, Late
<1>11. Progress'
  BY <1>1, <1>2, <1>5 DEF Progress, Name, Late
<1>12. WritesExplained'
  <2>1. \A v \in Workers, f \in Files :
           Open(v, f)' <=> IF v = w THEN f = Saving(w) ELSE Open(v, f)
    BY <1>1, <1>2 DEF Open
  <2>2. \A f \in Files : ~Open(w, f)
    BY DEF Open
  <2>3. \A f \in Files : file'[f] = Empty => \E v \in Workers : Open(v, f)'
    BY <1>5, <2>1, <2>2 DEF IInv, WritesExplained
  <2>4. OpenAlone'
    <3> SUFFICES ASSUME NEW v \in Workers, NEW f \in Files \ crossed', Open(v, f)'
                 PROVE  /\ file'[f] = Empty
                        /\ \A u \in Workers : Open(u, f)' => u = v
      BY DEF OpenAlone
    <3>1. CASE f = Saving(w)
      BY <1>5, <1>6, <2>1, <3>1 DEF Shared
    <3>2. CASE f # Saving(w)
      BY <1>5, <1>6, <2>1, <2>2, <3>2 DEF IInv, WritesExplained, OpenAlone
    <3> QED
      BY <3>1, <3>2
  <2>5. ASSUME NEW f \in Files, file'[f] = Torn, faults = 0
        PROVE  IF f \in ClipNames THEN overlap ELSE f \in crossed'
    BY <1>4, <1>5, <1>6, <2>5 DEF IInv, WritesExplained
  <2> QED
    BY <2>3, <2>4, <2>5 DEF WritesExplained
<1>13. Serial'
  <2>1. ASSUME ~overlap
        PROVE  crossed' = {}
    <3>1. ~Shared(w)
      BY <1>3, <2>1 DEF IInv, Serial, Shared, Open, Busy
    <3> QED
      BY <1>6, <2>1, <3>1 DEF IInv, Serial
  <2>2. ASSUME ~overlap, last # None, run[last] = "completed"
        PROVE  FALSE
    BY <1>3, <2>2 DEF IInv, Serial, WorkersOwnRuns
  <2> QED
    BY <1>1, <1>2, <1>3, <2>1, <2>2 DEF IInv, Serial, Busy
<1>14. FramesExplained'
  BY <1>1 DEF IInv, FramesExplained
<1>15. ASSUME NEW q \in Runs, Replaced(q)
       PROVE  Replaced(q)'
  BY <1>1, <1>2, <1>3, <1>5, <1>15 DEF Replaced, Busy
<1>16. OutdatedReplaced' /\ ReadersWellFormed'
  BY <1>2, <1>15, ReadersStay DEF IInv, TypeOK, OutdatedReplaced
<1> QED
  BY <1>5, <1>7, <1>8, <1>9, <1>10, <1>11, <1>12, <1>13, <1>14, <1>16 DEF IInv

\* A clip is opened to be cut.
LEMMA BeginCutKeeps ==
    ASSUME IInv, NEW w \in Workers, BeginCut(w)
    PROVE  IInv'
BY OpeningKeeps DEF BeginCut

\* What a write may leave: its content; and without a fault it tears the file only if the
\* content was torn, or the file is crossed.
LEMMA LeftFacts ==
    ASSUME IInv, NEW w \in Workers, worker[w].pc \in {"cutting", "saving"},
           NEW content, NEW left \in Left(w, content)
    PROVE  /\ left \in {content, Torn}
           /\ left = content \/ Saving(w) \in crossed
<1>1. Saving(w) \in Files /\ Open(w, Saving(w))
  BY WorkerAtFile DEF Late, Open
<1>2. Saving(w) \notin crossed => file[Saving(w)] = Empty /\ ~Shared(w)
  BY <1>1 DEF IInv, WritesExplained, OpenAlone, Shared
<1> QED
  BY <1>2 DEF Left

\* The clip is cut, in part perhaps if another worker is busy.
LEMMA EndCutKeeps ==
    ASSUME IInv, NEW w \in Workers, EndCut(w)
    PROVE  IInv'
<1>1. /\ worker' \in [Workers -> WorkerStates]
      /\ \A v \in Workers \ {w} : worker'[v] = worker[v]
      /\ worker[w].pc = "cutting" /\ worker'[w].pc = "cut"
      /\ worker'[w].run = worker[w].run
      /\ worker'[w].at = worker[w].at /\ worker'[w].data = worker[w].data
  BY GoesFacts DEF IInv, EndCut, WorkerPcs
<1>2. UNCHANGED <<run, rows, legacy, clip, frame, config, redeploys, reader, faults,
                  last, overlap, crossed, outdated, inputs, startedAs>>
  BY DEF EndCut
<1>3. /\ \A v \in Workers : Saving(v)' = Saving(v) /\ Mine(v)' = Mine(v)
      /\ Completed' = Completed /\ worker[w].pc \in Late \ {"commit"}
  BY <1>1, <1>2 DEF Saving, Mine, Completed, Late
<1>4. /\ Busy(w) /\ Mine(w) \in Runs /\ Saving(w) \in Files /\ Saving(w) \in ClipNames
      /\ worker[w].data = None
  BY <1>1, <1>3, WorkerAtFile DEF IInv, WorkersWellFormed
<1>5. None \notin Runs /\ Torn \notin Runs /\ None # Torn
  BY StoreAssumption
<1>6. PICK left \in {Mine(w), Torn} :
         file' = [file EXCEPT ![Saving(w)] = left] /\ (left = Mine(w) \/ overlap)
  <2>1. PICK content \in {Mine(w), Torn} :
           /\ content = Torn => \E v \in Workers : worker[v].pc = "normalize"
           /\ \E left \in Left(w, content) : file' = [file EXCEPT ![Saving(w)] = left]
    BY DEF EndCut
  <2>2. PICK left \in Left(w, content) : file' = [file EXCEPT ![Saving(w)] = left]
    BY <2>1
  <2>3. content = Mine(w) \/ overlap
    BY <1>1, <1>4, <2>1 DEF IInv, Serial, Busy
  <2>4. left \in {content, Torn} /\ (left = content \/ Saving(w) \in crossed)
    BY <1>1, <2>2, LeftFacts
  <2>5. Saving(w) \in crossed => overlap
    BY DEF IInv, Serial
  <2> QED
    BY <2>1, <2>2, <2>3, <2>4, <2>5
<1>7. /\ file' \in [Files -> Origins \cup {Empty}] /\ file'[Saving(w)] = left
      /\ \A f \in Files : file[f] \notin {None, Legacy} => file'[f] \notin {None, Legacy}
      /\ ClipsNotLegacy' /\ RowsNamed' /\ ManifestNamed'
      /\ \A q \in Runs : q # Mine(w) =>
            \A f \in Documents : file[f] # q => file'[f] # q
      /\ \A v \in Workers : worker[v].pc \in Late =>
            \A i \in 1..Len(FileOrder) : i < worker[v].at \/ worker[v].pc = "commit" =>
               /\ file'[Name(Mine(v), i)] \notin {None, Legacy}
               /\ ~overlap => file'[Name(Mine(v), i)] = Mine(v)
  BY <1>2, <1>3, <1>4, <1>6, DocumentsAreFiles, OneFileChanges
<1>8. TypeOK'
  BY <1>1, <1>2, <1>7 DEF IInv, TypeOK, WorkerStates
<1>9. WorkersOwnRuns'
  BY <1>1, <1>2, <1>3 DEF IInv, WorkersOwnRuns, Busy
<1>10. RunsWellFormed'
  BY <1>2, <1>3 DEF IInv, RunsWellFormed
<1>11. WorkersWellFormed'
  <2>1. \A v \in Workers : worker[v].pc \in {"cutting", "cut", "saving"} => Saving(v) \in Files
    BY WorkerAtFile DEF Late
  <2> QED
    BY <1>1, <1>2, <1>3, <1>4, <1>5, <1>6, <1>7, <2>1
       DEF IInv, WorkersWellFormed, Early, Late
<1>12. Progress'
  BY <1>1, <1>2, <1>3, <1>7 DEF Progress, Name, Late
<1>13. WritesExplained'
  BY <1>1, <1>2, <1>4, <1>5, <1>6, ClosingExplained
<1>14. Serial'
  <2>1. ASSUME ~overlap, last # None, run[last] = "completed"
        PROVE  FALSE
    BY <1>4, <2>1 DEF IInv, Serial, WorkersOwnRuns
  <2> QED
    BY <1>1, <1>2, <1>3, <1>4, <1>6, <1>7, <2>1 DEF IInv, Serial, Busy
<1>15. FramesExplained'
  BY <1>1, <1>2 DEF IInv, FramesExplained
<1>16. ASSUME NEW q \in Runs, Replaced(q)
       PROVE  Replaced(q)'
  BY <1>1, <1>2, <1>3, <1>4, <1>7, <1>16 DEF Replaced, Busy
<1>17. OutdatedReplaced' /\ ReadersWellFormed'
  BY <1>2, <1>3, <1>16, ReadersStay DEF IInv, TypeOK, OutdatedReplaced
<1> QED
  BY <1>7, <1>8, <1>9, <1>10, <1>11, <1>12, <1>13, <1>14, <1>15, <1>17 DEF IInv

\* A file is opened to be saved.
LEMMA BeginSaveKeeps ==
    ASSUME IInv, NEW w \in Workers, BeginSave(w)
    PROVE  IInv'
BY OpeningKeeps DEF BeginSave

\* What the clip holds by now is read: something, and the run's own unless runs overlapped.
LEMMA ReadClipKeeps ==
    ASSUME IInv, NEW w \in Workers, ReadClip(w)
    PROVE  IInv'
<1>a. /\ worker[w].pc = "cut" /\ worker[w] \in WorkerStates
      /\ worker \in [Workers -> WorkerStates]
  BY DEF ReadClip, IInv, TypeOK, WorkerStates
<1>b. Saving(w) \in ClipNames /\ Saving(w) \in Files /\ file[Saving(w)] \notin {None, Legacy}
  BY <1>a, DocumentsAreFiles DEF IInv, WorkersWellFormed
<1>c. PICK data \in Held(Saving(w)) :
         worker' = [worker EXCEPT ![w] = [worker[w] EXCEPT !.pc = "save", !.data = data]]
  BY DEF ReadClip
<1>d. data \in Runs \cup {Torn} /\ (~overlap => data = Mine(w))
  <2>1. ~overlap => file[Saving(w)] = Mine(w) /\ ~\E v \in Workers : Open(v, Saving(w))
    BY <1>a DEF IInv, Serial, Open, Busy
  <2>2. ~overlap => file[Saving(w)] # Empty
    BY <1>b, <2>1 DEF IInv, WritesExplained
  <2>3. file[Saving(w)] \in Runs \cup {Torn, Empty}
    BY <1>b DEF IInv, TypeOK, Origins
  <2> QED
    BY <2>1, <2>2, <2>3 DEF Held
<1>e. [worker[w] EXCEPT !.pc = "save", !.data = data] \in WorkerStates
  BY <1>a, <1>d DEF WorkerStates, WorkerPcs
<1>1. /\ worker' \in [Workers -> WorkerStates]
      /\ \A v \in Workers \ {w} : worker'[v] = worker[v]
      /\ worker[w].pc = "cut" /\ worker'[w].pc = "save"
      /\ worker'[w].run = worker[w].run /\ worker'[w].at = worker[w].at
      /\ worker'[w].data = data /\ data \in Runs \cup {Torn} /\ (~overlap => data = Mine(w))
  BY <1>a, <1>c, <1>d, <1>e DEF WorkerStates
<1>2. UNCHANGED <<run, rows, legacy, clip, file, frame, config, redeploys, reader, faults,
   last, overlap, crossed, outdated, inputs, startedAs>>
  BY DEF ReadClip
<1>3. \A v \in Workers : Saving(v)' = Saving(v)
  BY <1>1, <1>2 DEF Saving, Mine
<1>4. /\ Mine(w) \in Runs /\ clip[Mine(w)] \in ClipNames
      /\ worker[w].at \in 1..Len(FileOrder)
      /\ Saving(w) = Name(Mine(w), worker[w].at)
  BY <1>1 DEF IInv, TypeOK, WorkersOwnRuns, WorkersWellFormed, Late, Busy, Mine, Saving, Name
<1>5. /\ Saving(w) \in Files
      /\ \A i \in 1..Len(FileOrder) : Name(Mine(w), i) = Saving(w) => i = worker[w].at
  BY <1>4, NamesOfRun
<1>6. /\ Runs \cap {None, Legacy, Torn} = {} /\ None # Legacy /\ None # Torn /\ Legacy # Torn
  BY StoreAssumption
<1>7. TypeOK'
  BY <1>1, <1>2 DEF IInv, TypeOK, WorkerStates
<1>8. WorkersOwnRuns'
  BY <1>1, <1>2, <1>3, <1>4, <1>5, <1>6 DEF IInv, WorkersOwnRuns, Busy, Mine
<1>9. RunsWellFormed'
  BY <1>1, <1>2, <1>3, <1>4, <1>5, <1>6 DEF IInv, RunsWellFormed, Completed
<1>10. WorkersWellFormed'
  BY <1>1, <1>2, <1>3, <1>4, <1>5, <1>6 DEF IInv, WorkersWellFormed, Early, Late, Mine
<1>11. ClipsNotLegacy'
  BY <1>1, <1>2, <1>3, <1>4, <1>5, <1>6 DEF IInv, ClipsNotLegacy
<1>12. Progress'
  BY <1>1, <1>2, <1>3, <1>4, <1>5, <1>6 DEF IInv, Progress, Name, Late, Mine
<1>13. RowsNamed'
  BY <1>1, <1>2, <1>3, <1>4, <1>5, <1>6 DEF IInv, RowsNamed, Named
<1>14. ManifestNamed'
  BY <1>1, <1>2, <1>3, <1>4, <1>5, <1>6 DEF IInv, ManifestNamed
<1>15. WritesExplained'
  BY <1>1, <1>2, <1>3, <1>4, <1>5, <1>6 DEF IInv,
     WritesExplained, OpenAlone, Open
<1>16. Serial'
  BY <1>1, <1>2, <1>3, <1>4, <1>5, <1>6 DEF IInv, WorkersOwnRuns, Serial, Busy, Mine, Named
<1>17. FramesExplained'
  BY <1>1, <1>2, <1>3, <1>4, <1>5, <1>6 DEF IInv, FramesExplained, Mine
<1>18. ASSUME NEW q \in Runs, Replaced(q)
      PROVE  Replaced(q)'
  BY <1>1, <1>2, <1>18 DEF Replaced, Busy, Mine
<1>19. Completed' = Completed
  BY <1>2 DEF Completed
<1>20. OutdatedReplaced' /\ ReadersWellFormed'
  BY <1>2, <1>18, <1>19, ReadersStay DEF IInv, TypeOK, OutdatedReplaced
<1> QED
  BY <1>7, <1>8, <1>9, <1>10, <1>11, <1>12, <1>13, <1>14, <1>15, <1>16, <1>17, <1>20 DEF IInv

\* Frames up to some number are the run's own; all it extracts unless another worker is busy.
LEMMA ExtractFramesKeeps ==
    ASSUME IInv, NEW w \in Workers, ExtractFrames(w)
    PROVE  IInv'
<1>1. /\ worker' \in [Workers -> WorkerStates]
      /\ \A v \in Workers \ {w} : worker'[v] = worker[v]
      /\ worker[w].pc = "extract" /\ worker'[w].pc = "analyse"
      /\ worker'[w].run = worker[w].run
      /\ worker'[w].at = worker[w].at /\ worker'[w].data = worker[w].data
  BY GoesFacts DEF IInv, ExtractFrames, WorkerPcs
<1>2. UNCHANGED <<run, rows, legacy, clip, file, config, redeploys, reader, faults, last,
   overlap, crossed, outdated, inputs, startedAs>>
  BY DEF ExtractFrames
<1>3. \A v \in Workers : Saving(v)' = Saving(v)
  BY <1>1, <1>2 DEF Saving, Mine
<1>4. /\ Mine(w) \in Runs /\ startedAs[Mine(w)] = config
      /\ FrameCount \in [Configs -> Nat] /\ config \in Configs /\ None \notin Configs
  BY <1>1, StoreAssumption DEF IInv, TypeOK, WorkersOwnRuns, Busy
<1>5. PICK n \in 0..FrameCount[config] :
         /\ n = FrameCount[config] \/ \E v \in Workers : worker[v].pc = "normalize"
         /\ frame' = [i \in Frames |-> IF i <= n THEN config ELSE frame[i]]
  BY DEF ExtractFrames
<1>6. n = FrameCount[config] \/ overlap
  BY <1>1, <1>5 DEF IInv, Serial, Busy
<1>7. \A i \in 1..FrameCount[config] : i \in Frames
  BY <1>4 DEF Frames
<1>8. Frames \subseteq Nat
  BY StoreAssumption DEF Frames
<1>9. TypeOK'
  BY <1>1, <1>2, <1>3, <1>4, <1>5, <1>6, <1>7, <1>8 DEF IInv, TypeOK, WorkerStates
<1>10. WorkersOwnRuns'
  BY <1>1, <1>2, <1>3, <1>4, <1>5, <1>6, <1>7, <1>8 DEF IInv, WorkersOwnRuns, Busy, Mine
<1>11. RunsWellFormed'
  BY <1>1, <1>2, <1>3, <1>4, <1>5, <1>6, <1>7, <1>8 DEF IInv, RunsWellFormed, Completed
<1>12. WorkersWellFormed'
  BY <1>1, <1>2, <1>3, <1>4, <1>5, <1>6, <1>7, <1>8 DEF IInv, WorkersWellFormed, Early,
     Late, Mine
<1>13. ClipsNotLegacy'
  BY <1>1, <1>2, <1>3, <1>4, <1>5, <1>6, <1>7, <1>8 DEF IInv, ClipsNotLegacy
<1>14. Progress'
  BY <1>1, <1>2, <1>3, <1>4, <1>5, <1>6, <1>7, <1>8 DEF IInv, Progress, Name, Late, Mine
<1>15. RowsNamed'
  BY <1>1, <1>2, <1>3, <1>4, <1>5, <1>6, <1>7, <1>8 DEF IInv, RowsNamed, Named
<1>16. ManifestNamed'
  BY <1>1, <1>2, <1>3, <1>4, <1>5, <1>6, <1>7, <1>8 DEF IInv, ManifestNamed
<1>17. WritesExplained'
  BY <1>1, <1>2, <1>3, <1>4, <1>5, <1>6, <1>7, <1>8 DEF IInv,
     WritesExplained, OpenAlone, Open
<1>18. Serial'
  BY <1>1, <1>2, <1>3, <1>4, <1>5, <1>6, <1>7, <1>8 DEF IInv, Serial, Busy, Mine, Named
<1>19. FramesExplained'
  <2>1. ASSUME NEW i \in Frames, frame'[i] # None
        PROVE  i <= FrameCount[frame'[i]] /\ \E q \in Runs : startedAs[q] = frame'[i]
    <3>1. i \in Nat /\ n \in Nat /\ FrameCount[config] \in Nat
      BY <1>4, <1>5, <1>8
    <3>2. CASE i <= n
      BY <1>4, <1>5, <2>1, <3>1, <3>2
    <3>3. CASE ~(i <= n)
      BY <1>5, <2>1, <3>3 DEF IInv, FramesExplained
    <3> QED
      BY <3>2, <3>3
  <2>2. ASSUME ~overlap, NEW v \in Workers, worker'[v].pc = "analyse",
               NEW i \in 1..FrameCount[config]
        PROVE  frame'[i] = config
    <3>1. n = FrameCount[config] /\ FrameCount[config] \in Nat
      BY <1>4, <1>6, <2>2
    <3> QED
      BY <1>5, <1>7, <2>2, <3>1
  <2> QED
    BY <1>2, <2>1, <2>2 DEF IInv, FramesExplained
<1>20. ASSUME NEW q \in Runs, Replaced(q)
      PROVE  Replaced(q)'
  BY <1>1, <1>2, <1>20 DEF Replaced, Busy, Mine
<1>21. Completed' = Completed
  BY <1>2 DEF Completed
<1>22. OutdatedReplaced' /\ ReadersWellFormed'
  BY <1>2, <1>20, <1>21, ReadersStay DEF IInv, TypeOK, OutdatedReplaced
<1> QED
  BY <1>9, <1>10, <1>11, <1>12, <1>13, <1>14, <1>15, <1>16, <1>17, <1>18, <1>19, <1>22 DEF IInv

\* A saved document is the run's own, a saved clip what the run has read; then the next file.
LEMMA EndSaveKeeps ==
    ASSUME IInv, NEW w \in Workers, EndSave(w)
    PROVE  IInv'
<1>a. worker[w].pc = "saving" /\ worker \in [Workers -> WorkerStates]
      /\ worker[w] \in WorkerStates /\ worker' = [worker EXCEPT ![w] = NextFile(w)]
  BY DEF EndSave, IInv, TypeOK, WorkerStates
<1>b. /\ NextFile(w) \in WorkerStates
      /\ NextFile(w).run = worker[w].run
      /\ NextFile(w).at = IF worker[w].at = Len(FileOrder) THEN worker[w].at ELSE worker[w].at + 1
      /\ NextFile(w).pc = IF worker[w].at = Len(FileOrder) THEN "commit" ELSE "save"
      /\ NextFile(w).data = IF worker[w].at = Len(FileOrder) THEN worker[w].data ELSE None
  <2>1. CASE worker[w].at = Len(FileOrder)
    BY <1>a, <2>1 DEF NextFile, WorkerStates, WorkerPcs
  <2>2. CASE worker[w].at # Len(FileOrder)
    <3>1. worker[w].at + 1 \in 1..Len(FileOrder)
      BY <1>a, <2>2, StoreAssumption DEF WorkerStates
    <3> QED
      BY <1>a, <2>2, <3>1 DEF NextFile, WorkerStates, WorkerPcs
  <2> QED
    BY <2>1, <2>2
<1>1. /\ worker' \in [Workers -> WorkerStates]
      /\ \A v \in Workers \ {w} : worker'[v] = worker[v]
      /\ worker'[w].run = worker[w].run
      /\ worker'[w].at = IF worker[w].at = Len(FileOrder) THEN worker[w].at ELSE worker[w].at + 1
      /\ worker'[w].pc = IF worker[w].at = Len(FileOrder) THEN "commit" ELSE "save"
      /\ worker'[w].data = IF worker[w].at = Len(FileOrder) THEN worker[w].data ELSE None
      /\ worker[w].pc = "saving" /\ worker[w] \in WorkerStates
  BY <1>a, <1>b DEF EndSave, WorkerStates
<1>2. UNCHANGED <<run, rows, legacy, clip, frame, config, redeploys, reader, faults,
                  last, overlap, crossed, outdated, inputs, startedAs>>
  BY DEF EndSave
<1>3. /\ \A v \in Workers \ {w} : Saving(v)' = Saving(v)
      /\ \A v \in Workers : Mine(v)' = Mine(v)
      /\ Completed' = Completed /\ worker[w].pc \in Late \ {"commit"}
  BY <1>1, <1>2 DEF Saving, Mine, Completed, Late
<1>4. /\ Busy(w) /\ Mine(w) \in Runs /\ clip[Mine(w)] \in ClipNames /\ Saving(w) \in Files
      /\ worker[w].at \in 1..Len(FileOrder)
      /\ Saving(w) = Name(Mine(w), worker[w].at)
  BY <1>3, WorkerAtFile
<1>5. /\ Runs \cap {None, Legacy, Torn} = {} /\ None # Torn /\ Legacy # Torn
      /\ Empty \notin Runs /\ Empty # Torn
  BY StoreAssumption
<1>6. /\ Saved(w) \in Runs \cup {Torn}
      /\ ~overlap => Saved(w) = Mine(w)
      /\ Saving(w) \in Documents => Saved(w) = Mine(w)
  BY <1>1, <1>4, <1>5, DocumentsAreFiles
     DEF IInv, TypeOK, WorkerStates, WorkersWellFormed, Serial, Busy, Saved
<1>7. PICK left \in Runs \cup {Torn} :
         /\ file' = [file EXCEPT ![Saving(w)] = left]
         /\ ~overlap => left = Mine(w)
         /\ Saving(w) \in Documents =>
               left \in {Mine(w), Torn} /\ (left = Mine(w) \/ Saving(w) \in crossed)
  <2>1. PICK left \in Left(w, Saved(w)) : file' = [file EXCEPT ![Saving(w)] = left]
    BY DEF EndSave
  <2>2. left \in {Saved(w), Torn} /\ (left = Saved(w) \/ Saving(w) \in crossed)
    BY <1>1, <2>1, LeftFacts
  <2>3. ~overlap => Saving(w) \notin crossed
    BY DEF IInv, Serial
  <2> QED
    BY <1>6, <2>1, <2>2, <2>3
<1>8. /\ file' \in [Files -> Origins \cup {Empty}] /\ file'[Saving(w)] = left
      /\ \A f \in Files : file[f] \notin {None, Legacy} => file'[f] \notin {None, Legacy}
      /\ ClipsNotLegacy' /\ RowsNamed' /\ ManifestNamed'
      /\ \A q \in Runs : q # Mine(w) =>
            \A f \in Documents : file[f] # q => file'[f] # q
      /\ \A v \in Workers : worker[v].pc \in Late =>
            \A i \in 1..Len(FileOrder) : i < worker[v].at \/ worker[v].pc = "commit" =>
               /\ file'[Name(Mine(v), i)] \notin {None, Legacy}
               /\ ~overlap => file'[Name(Mine(v), i)] = Mine(v)
  BY <1>2, <1>3, <1>5, <1>7, OneFileChanges
<1>9. TypeOK'
  BY <1>1, <1>2, <1>8 DEF IInv, TypeOK, WorkerStates
<1>10. WorkersOwnRuns'
  BY <1>1, <1>2, <1>3 DEF IInv, WorkersOwnRuns, Busy
<1>11. RunsWellFormed'
  BY <1>2, <1>3 DEF IInv, RunsWellFormed
<1>12. WorkersWellFormed'
  <2>1. \A v \in Workers : worker[v].pc \in {"cutting", "cut", "saving"} => Saving(v) \in Files
    BY WorkerAtFile DEF Late
  <2> QED
    BY <1>1, <1>2, <1>3, <1>4, <1>8, <2>1 DEF IInv, WorkersWellFormed, Early, Late
<1>13. Progress'
  <2> SUFFICES ASSUME NEW v \in Workers, worker'[v].pc \in Late, NEW i \in 1..Len(FileOrder),
                      i < worker'[v].at \/ worker'[v].pc = "commit"
               PROVE  /\ file'[Name(Mine(v), i)] \notin {None, Legacy}
                      /\ ~overlap => file'[Name(Mine(v), i)] = Mine(v)
    BY <1>1, <1>2 DEF Progress, Name, Mine
  <2>1. CASE v = w /\ i = worker[w].at
    BY <1>4, <1>5, <1>7, <1>8, <2>1
  <2>2. CASE v = w /\ i # worker[w].at
    <3>1. i < worker[w].at
      BY <1>1, <1>4, <2>2
    <3> QED
      BY <1>3, <1>8, <2>2, <3>1
  <2>3. CASE v # w
    BY <1>1, <1>8, <2>3
  <2> QED
    BY <2>1, <2>2, <2>3
<1>14. WritesExplained'
  <2>1. left = Torn => IF Saving(w) \in ClipNames THEN overlap ELSE Saving(w) \in crossed
    BY <1>4, <1>5, <1>7 DEF Files
  <2> QED
    BY <1>1, <1>2, <1>7, <2>1, ClosingExplained
<1>15. Serial'
  <2>1. ASSUME ~overlap, last # None, run[last] = "completed"
        PROVE  FALSE
    BY <1>4, <2>1 DEF IInv, Serial, WorkersOwnRuns
  <2> QED
    BY <1>1, <1>2, <1>3, <1>4, <2>1 DEF IInv, Serial, Busy
<1>16. FramesExplained'
  BY <1>1, <1>2 DEF IInv, FramesExplained
<1>17. ASSUME NEW q \in Runs, Replaced(q)
       PROVE  Replaced(q)'
  BY <1>1, <1>2, <1>3, <1>4, <1>8, <1>17 DEF Replaced, Busy
<1>18. OutdatedReplaced' /\ ReadersWellFormed'
  BY <1>2, <1>3, <1>17, ReadersStay DEF IInv, TypeOK, OutdatedReplaced
<1> QED
  BY <1>8, <1>9, <1>10, <1>11, <1>12, <1>13, <1>14, <1>15, <1>16, <1>18 DEF IInv

\* The run takes the frames it finds, and a name for its clip.
LEMMA RunPipelineKeeps ==
    ASSUME IInv, NEW w \in Workers, RunPipeline(w)
    PROVE  IInv'
<1>1. /\ worker' \in [Workers -> WorkerStates]
      /\ \A v \in Workers \ {w} : worker'[v] = worker[v]
      /\ worker[w].pc = "analyse" /\ worker'[w].pc = "save"
      /\ worker'[w].run = worker[w].run
      /\ worker'[w].at = worker[w].at /\ worker'[w].data = worker[w].data
  BY GoesFacts DEF IInv, RunPipeline, WorkerPcs
<1>2. UNCHANGED <<run, rows, legacy, file, frame, config, redeploys, reader, faults, last,
   overlap, crossed, outdated, startedAs>>
  BY DEF RunPipeline
<1>3. /\ Mine(w) \in Runs /\ clip[Mine(w)] = None /\ startedAs[Mine(w)] = config
      /\ run[Mine(w)] = "running" /\ worker[w].at = 1 /\ worker[w].data = None
  BY <1>1 DEF IInv, WorkersOwnRuns, WorkersWellFormed, Busy, Mine, Early
<1>4. PICK name \in ClipNames : clip' = [clip EXCEPT ![Mine(w)] = name]
  BY DEF RunPipeline
<1>5. /\ clip' \in [Runs -> ClipNames \cup {None}] /\ clip'[Mine(w)] \in ClipNames
      /\ \A r \in Runs \ {Mine(w)} : clip'[r] = clip[r]
  BY <1>3, <1>4 DEF IInv, TypeOK
<1>6. /\ inputs' \in [Runs -> SUBSET Configs]
      /\ inputs'[Mine(w)] = {frame[i] : i \in Frames} \ {None}
      /\ \A r \in Runs \ {Mine(w)} : inputs'[r] = inputs[r]
  BY <1>3 DEF RunPipeline, IInv, TypeOK
<1>7. \A v \in Workers \ {w} : Busy(v) =>
         Mine(v) \in Runs \ {Mine(w)} /\ Saving(v)' = Saving(v) /\ clip'[Mine(v)] = clip[Mine(v)]
  BY <1>1, <1>2, <1>5 DEF IInv, WorkersOwnRuns, Busy, Mine, Saving
<1>8. clip[Mine(w)] = None /\ None \notin ClipNames
      /\ Runs \cap {None, Legacy, Torn} = {}
  BY <1>3, DocumentsAreFiles, StoreAssumption
<1>9. TypeOK'
  BY <1>1, <1>2, <1>3, <1>4, <1>5, <1>6, <1>7, <1>8 DEF IInv, TypeOK, WorkerStates
<1>10. WorkersOwnRuns'
  BY <1>1, <1>2, <1>3, <1>4, <1>5, <1>6, <1>7, <1>8 DEF IInv, WorkersOwnRuns, Busy, Mine
<1>11. RunsWellFormed'
  BY <1>1, <1>2, <1>3, <1>4, <1>5, <1>6, <1>7, <1>8 DEF IInv, RunsWellFormed, Completed
<1>12. WorkersWellFormed'
  BY <1>1, <1>2, <1>3, <1>4, <1>5, <1>6, <1>7, <1>8 DEF IInv, WorkersWellFormed, Early,
     Late, Mine, Busy
<1>13. ClipsNotLegacy'
  BY <1>1, <1>2, <1>3, <1>4, <1>5, <1>6, <1>7, <1>8 DEF IInv, ClipsNotLegacy
<1>14. Progress'
  <2> SUFFICES ASSUME NEW v \in Workers, worker'[v].pc \in Late, NEW i \in 1..Len(FileOrder),
                      i < worker'[v].at \/ worker'[v].pc = "commit"
               PROVE  /\ file[Name(Mine(v), i)'] \notin {None, Legacy}
                      /\ ~overlap => file[Name(Mine(v), i)'] = Mine(v)
    BY <1>1, <1>2 DEF Progress, Name, Mine
  <2>1. v # w
    BY <1>1, <1>3
  <2>2. Name(Mine(v), i)' = Name(Mine(v), i)
    BY <1>1, <1>7, <2>1 DEF Name, Mine, Busy, Late
  <2> QED
    BY <1>1, <2>1, <2>2 DEF IInv, Progress
<1>15. RowsNamed'
  <2>1. \A r \in rows : r \in Runs \ {Mine(w)}
    BY <1>3 DEF IInv, RunsWellFormed, Completed
  <2> QED
    BY <1>2, <1>5, <2>1 DEF IInv, RowsNamed, Named
<1>16. ManifestNamed'
  BY <1>2, <1>3, <1>4, <1>5, <1>6, <1>7, <1>8 DEF IInv, ManifestNamed
<1>17. WritesExplained'
  BY <1>1, <1>2, <1>3, <1>4, <1>5, <1>6, <1>7, <1>8 DEF IInv,
     WritesExplained, OpenAlone, Open, Busy
<1>18. Serial'
  BY <1>1, <1>2, <1>3, <1>4, <1>5, <1>6, <1>7, <1>8 DEF IInv, WorkersOwnRuns, Serial, Busy,
     Mine, Named
<1>19. FramesExplained'
  <2>1. ASSUME ~overlap, NEW v \in Workers, worker'[v].pc = "analyse"
        PROVE  FALSE
    BY <1>1, <2>1 DEF IInv, Serial, Busy
  <2>2. ASSUME ~overlap, NEW r \in Runs, clip'[r] # None
        PROVE  /\ startedAs[r] \in Configs
               /\ FrameCount[startedAs[r]] > 0 => startedAs[r] \in inputs'[r]
               /\ \A c \in inputs'[r] :
                     \/ c = startedAs[r] /\ FrameCount[c] > 0
                     \/ /\ FrameCount[c] > FrameCount[startedAs[r]]
                        /\ \E q \in Runs : startedAs[q] = c
    <3>1. CASE r # Mine(w)
      BY <1>5, <1>6, <2>2, <3>1 DEF IInv, FramesExplained
    <3>2. CASE r = Mine(w)
      <4>1. /\ config \in Configs /\ None \notin Configs /\ FrameCount \in [Configs -> Nat]
            /\ FrameCount[config] \in Nat
        BY StoreAssumption DEF IInv, TypeOK
      <4>2. \A i \in 1..FrameCount[config] : frame[i] = config /\ i \in Frames
        BY <1>1, <2>2, <4>1 DEF IInv, FramesExplained, Frames
      <4>3. FrameCount[config] > 0 => config \in inputs'[r]
        <5>1. FrameCount[config] > 0 => 1 \in 1..FrameCount[config]
          BY <4>1
        <5> QED
          BY <1>6, <3>2, <4>1, <4>2, <5>1
      <4>4. ASSUME NEW c \in inputs'[r]
            PROVE  \/ c = config /\ FrameCount[c] > 0
                   \/ /\ FrameCount[c] > FrameCount[config]
                      /\ \E q \in Runs : startedAs[q] = c
        <5>1. PICK i \in Frames : frame[i] = c /\ c # None
          BY <1>6, <3>2
        <5>2. i \in Nat /\ i > 0
          BY StoreAssumption DEF Frames
        <5>3. i <= FrameCount[c] /\ \E q \in Runs : startedAs[q] = c
          BY <5>1 DEF IInv, FramesExplained
        <5>4. c \in Configs /\ FrameCount[c] \in Nat
          BY <4>1, <5>1 DEF IInv, TypeOK
        <5>5. i > FrameCount[config] \/ c = config
          BY <4>1, <4>2, <5>1, <5>2
        <5> QED
          BY <4>1, <5>2, <5>3, <5>4, <5>5
      <4> QED
        BY <1>3, <3>2, <4>1, <4>3, <4>4
    <3> QED
      BY <3>1, <3>2
  <2> QED
    BY <1>2, <2>1, <2>2 DEF IInv, FramesExplained
<1>20. ASSUME NEW q \in Runs, Replaced(q)
      PROVE  Replaced(q)'
  BY <1>1, <1>2, <1>20 DEF Replaced, Busy, Mine
<1>21. Completed' = Completed
  BY <1>2 DEF Completed
<1>22. OutdatedReplaced' /\ ReadersWellFormed'
  BY <1>2, <1>20, <1>21, ReadersStay DEF IInv, TypeOK, OutdatedReplaced
<1> QED
  BY <1>9, <1>10, <1>11, <1>12, <1>13, <1>14, <1>15, <1>16, <1>17, <1>18, <1>19, <1>22 DEF IInv

\* A worker that gives its run up, or dies with it, leaves the files as they are, or torn the
\* one it had open.
LEMMA GivingUpKeeps ==
    ASSUME IInv, NEW w \in Workers, RunFails(w) \/ WorkerCrash(w)
    PROVE  IInv'
<1>1. /\ worker' \in [Workers -> WorkerStates]
      /\ \A v \in Workers \ {w} : worker'[v] = worker[v]
      /\ Busy(w) /\ worker'[w].pc = "idle" /\ worker'[w].data = None
  BY RestsFacts DEF IInv, RunFails, WorkerCrash, Busy
<1>2. UNCHANGED <<rows, legacy, clip, frame, config, redeploys, reader, last, overlap,
                  crossed, outdated, inputs, startedAs>>
  BY DEF RunFails, WorkerCrash
<1>3. faults \in Nat /\ faults' = faults + 1 /\ faults' \in 0..MaxFaults /\ faults' # 0
  BY StoreAssumption DEF RunFails, WorkerCrash, Fault, IInv, TypeOK
<1>4. /\ run' \in [Runs -> RunStatuses] /\ Mine(w) \in Runs /\ run[Mine(w)] = "running"
      /\ \A r \in Runs \ {Mine(w)} : run'[r] = run[r]
      /\ run'[Mine(w)] \in {"running", "error"}
  BY <1>1 DEF RunFails, WorkerCrash, IInv, TypeOK, WorkersOwnRuns, RunStatuses
<1>5. Completed' = Completed
  BY <1>4 DEF Completed
<1>6. \A v \in Workers \ {w} : Saving(v)' = Saving(v) /\ Mine(v)' = Mine(v)
  BY <1>1, <1>2 DEF Saving, Mine
<1>7. /\ file' \in [Files -> Origins \cup {Empty}]
      /\ \A f \in Files : file[f] \notin {None, Legacy} => file'[f] \notin {None, Legacy}
      /\ ClipsNotLegacy' /\ RowsNamed' /\ ManifestNamed'
      /\ \A q \in Runs : q # Mine(w) =>
            \A f \in Documents : file[f] # q => file'[f] # q
      /\ \A v \in Workers : worker[v].pc \in Late =>
            \A i \in 1..Len(FileOrder) : i < worker[v].at \/ worker[v].pc = "commit" =>
               /\ file'[Name(Mine(v), i)] \notin {None, Legacy}
               /\ ~overlap => file'[Name(Mine(v), i)] = Mine(v)
      /\ WritesExplained'
  <2>1. CASE worker[w].pc \in {"cutting", "saving"}
    <3>1. PICK left \in {file[Saving(w)], Torn} \ {Empty} : file' = [file EXCEPT ![Saving(w)] = left]
      BY <2>1 DEF RunFails, WorkerCrash, GivesUpFile
    <3>2. worker[w].pc \in Late \ {"commit"} /\ Saving(w) \in Files
      BY <2>1, WorkerAtFile DEF Late
    <3>3. file[Saving(w)] \notin {None, Legacy}
      BY <2>1 DEF IInv, WorkersWellFormed
    <3>4. left \in Runs \cup {Torn}
      BY <3>1, <3>2, <3>3 DEF IInv, TypeOK, Origins
    <3>5. Torn \notin Runs
      BY StoreAssumption
    <3>6. WritesExplained'
      BY <1>1, <1>2, <1>3, <2>1, <3>1, <3>4, ClosingExplained
    <3>7. left \in Runs \cup {Torn, Empty} /\ (left \in Runs => left \in {Mine(w), file[Saving(w)]})
      BY <3>1, <3>4, <3>5
    <3> QED
      BY <1>2, <3>1, <3>2, <3>6, <3>7, OneFileChanges
  <2>2. CASE worker[w].pc \notin {"cutting", "saving"}
    <3>1. file' = file
      BY <2>2 DEF RunFails, WorkerCrash, GivesUpFile
    <3>2. WritesExplained'
      <4>1. \A v \in Workers, f \in Files : Open(v, f)' <=> Open(v, f)
        BY <1>1, <1>2, <1>6, <2>2 DEF Open
      <4> QED
        BY <1>2, <1>3, <3>1, <4>1 DEF IInv, WritesExplained, OpenAlone
    <3> QED
      BY <1>2, <3>1, <3>2 DEF IInv, TypeOK, ClipsNotLegacy, RowsNamed, Named, ManifestNamed, Progress
  <2> QED
    BY <2>1, <2>2
<1>8. TypeOK'
  BY <1>1, <1>2, <1>3, <1>4, <1>7 DEF IInv, TypeOK, WorkerStates
<1>9. WorkersOwnRuns'
  BY <1>1, <1>2, <1>4 DEF IInv, WorkersOwnRuns, Busy, Mine
<1>10. RunsWellFormed'
  BY <1>2, <1>4, <1>5 DEF IInv, RunsWellFormed
<1>11. WorkersWellFormed'
  <2>1. \A v \in Workers : worker[v].pc \in {"cutting", "cut", "saving"} => Saving(v) \in Files
    BY WorkerAtFile DEF Late
  <2> QED
    BY <1>1, <1>2, <1>6, <1>7, <2>1 DEF IInv, WorkersWellFormed, Early, Late
<1>12. Progress'
  BY <1>1, <1>2, <1>6, <1>7 DEF Progress, Name, Late
<1>13. Serial'
  <2>1. ASSUME ~overlap, last # None, run'[last] = "completed"
        PROVE  FALSE
    BY <1>1, <1>4, <2>1 DEF IInv, Serial
  <2>2. ASSUME ~overlap, NEW v \in Workers, v # w
        PROVE  ~Busy(v)
    BY <1>1, <2>2 DEF IInv, Serial
  <2> QED
    BY <1>1, <1>2, <1>6, <2>1, <2>2 DEF IInv, Serial, Busy
<1>14. FramesExplained'
  BY <1>1, <1>2 DEF IInv, FramesExplained
<1>15. ASSUME NEW q \in Runs, Replaced(q)
       PROVE  Replaced(q)'
  BY <1>1, <1>2, <1>4, <1>6, <1>7, <1>15 DEF Replaced, Busy
<1>16. OutdatedReplaced' /\ ReadersWellFormed'
  BY <1>2, <1>5, <1>15, ReadersStay DEF IInv, TypeOK, OutdatedReplaced
<1> QED
  BY <1>7, <1>8, <1>9, <1>10, <1>11, <1>12, <1>13, <1>14, <1>16 DEF IInv

\* A run that commits has all its files; it is the newest, or an older one was.
LEMMA CommitRunKeeps ==
    ASSUME IInv, NEW w \in Workers, CommitRun(w)
    PROVE  IInv'
<1>1. /\ worker' \in [Workers -> WorkerStates]
      /\ \A v \in Workers \ {w} : worker'[v] = worker[v]
      /\ worker[w].pc = "commit" /\ worker'[w].pc = "idle" /\ worker'[w].data = None
  BY RestsFacts DEF IInv, CommitRun
<1>2. UNCHANGED <<legacy, clip, file, frame, config, redeploys, reader, faults, last, overlap,
                  crossed, inputs, startedAs>>
  BY DEF CommitRun
<1>3. /\ Mine(w) \in Runs /\ run[Mine(w)] = "running" /\ clip[Mine(w)] \in ClipNames
      /\ Mine(w) \in Nat /\ Runs \subseteq Nat
  BY <1>1, StoreAssumption DEF IInv, WorkersOwnRuns, WorkersWellFormed, Busy, Late
<1>4. /\ run' \in [Runs -> RunStatuses]
      /\ \A r \in Runs \ {Mine(w)} : run'[r] = run[r]
      /\ run'[Mine(w)] = "completed"
  BY <1>3 DEF CommitRun, IInv, TypeOK, RunStatuses
<1>5. Completed' = Completed \cup {Mine(w)}
  BY <1>3, <1>4 DEF Completed
<1>6. /\ rows' = rows \cup {Mine(w)}
      /\ rows' = Completed'
  BY <1>5 DEF CommitRun, IInv, RunsWellFormed
<1>7. \A f \in Named(Mine(w)) : file[f] \notin {None, Legacy} /\ (~overlap => file[f] = Mine(w))
  <2>1. \A i \in 1..Len(FileOrder) :
           
              /\ file[Name(Mine(w), i)] \notin {None, Legacy}
              /\ ~overlap => file[Name(Mine(w), i)] = Mine(w)
    BY <1>1 DEF IInv, Progress, Late
  <2> QED
    BY <1>3, <2>1, NamesOfRun
<1>8. \A v \in Workers \ {w} : Saving(v)' = Saving(v)
  BY <1>1, <1>2 DEF Saving, Mine
<1>9. TypeOK'
  BY <1>1, <1>2, <1>3, <1>4, <1>6 DEF CommitRun, IInv, TypeOK, WorkerStates
<1>10. WorkersOwnRuns'
  BY <1>1, <1>2, <1>4 DEF IInv, WorkersOwnRuns, Busy, Mine
<1>11. RunsWellFormed'
  <2>1. \E n \in Completed' : \A m \in Completed' : m <= n
    <3>1. Completed \subseteq Nat
      BY <1>3 DEF Completed
    <3>2. CASE Completed = {}
      BY <1>3, <1>5, <3>2
    <3>3. CASE Completed # {}
      <4>1. PICK n \in Completed : \A m \in Completed : m <= n
        BY <3>3 DEF IInv, RunsWellFormed
      <4>2. CASE Mine(w) <= n
        BY <1>5, <4>1, <4>2
      <4>3. CASE ~(Mine(w) <= n)
        <5>1. \A m \in Completed' : m <= Mine(w)
          BY <1>3, <1>5, <3>1, <4>1, <4>3
        <5> QED
          BY <1>5, <5>1
      <4> QED
        BY <4>2, <4>3
    <3> QED
      BY <3>2, <3>3
  <2> QED
    BY <1>2, <1>4, <1>6, <2>1 DEF IInv, RunsWellFormed
<1>12. WorkersWellFormed' /\ Progress'
  BY <1>1, <1>2, <1>8 DEF IInv, WorkersWellFormed, Progress, Name, Early, Late, Mine
<1>13. ClipsNotLegacy' /\ ManifestNamed' /\ FramesExplained'
  BY <1>1, <1>2 DEF IInv, ClipsNotLegacy, ManifestNamed, FramesExplained
<1>14. RowsNamed'
  BY <1>2, <1>3, <1>6, <1>7 DEF IInv, RowsNamed, Named
<1>15. WritesExplained'
  <2>1. \A v \in Workers, f \in Files : Open(v, f)' <=> Open(v, f)
    BY <1>1, <1>8 DEF Open
  <2> QED
    BY <1>2, <2>1 DEF IInv, WritesExplained, OpenAlone
<1>16. Serial'
  BY <1>1, <1>2, <1>4, <1>7, <1>8 DEF IInv, Serial, Busy, Mine, Named
<1>17. ASSUME NEW q \in Runs, Replaced(q)
       PROVE  Replaced(q)' /\ q # Mine(w)
  BY <1>1, <1>2, <1>3, <1>4, <1>17 DEF Replaced, Busy, Mine
<1>18. ReadersWellFormed'
  BY <1>2, <1>5, <1>17, ReadersStay
<1>19. OutdatedReplaced'
  <2> SUFFICES ASSUME NEW q \in Runs, q # Mine(w), run[q] # "pending",
                      \A v \in Workers : Busy(v) => Mine(v) # q
               PROVE  Replaced(q)'
    BY DEF OutdatedReplaced, CommitRun
  <2>1. run'[q] # "pending" /\ \A v \in Workers : Busy(v)' => Mine(v)' # q
    BY <1>1, <1>4 DEF Busy, Mine
  <2>2. ~overlap => \A f \in Documents : file[f] # q
    BY <1>7 DEF Named
  <2> QED
    BY <1>2, <2>1, <2>2 DEF Replaced
<1> QED
  BY <1>9, <1>10, <1>11, <1>12, <1>13, <1>14, <1>15, <1>16, <1>18, <1>19 DEF IInv

\* A run is started under the configuration of now; if another worker is busy, runs overlap.
LEMMA StartRunKeeps ==
    ASSUME IInv, NEW w \in Workers, NEW r \in Runs, StartRun(w, r)
    PROVE  IInv'
<1>1. 1 \in 1..Len(FileOrder)
  BY StoreAssumption
<1>2. /\ worker' \in [Workers -> WorkerStates]
      /\ \A v \in Workers \ {w} : worker'[v] = worker[v]
      /\ worker[w].pc = "idle" /\ worker'[w].pc = "normalize" /\ worker'[w].run = r
      /\ worker'[w].at = 1 /\ worker'[w].data = None
  BY <1>1 DEF StartRun, IInv, TypeOK, WorkerStates, Resting, WorkerPcs
<1>3. UNCHANGED <<rows, legacy, clip, file, frame, config, redeploys, reader, faults,
                  crossed, outdated, inputs>>
  BY DEF StartRun
<1>4. /\ run[r] = "pending" /\ clip[r] = None /\ startedAs[r] = None /\ config \in Configs
      /\ None \notin Configs /\ None \notin Runs
  BY StoreAssumption DEF StartRun, IInv, TypeOK, RunsWellFormed
<1>5. /\ run' \in [Runs -> RunStatuses] /\ run'[r] = "running"
      /\ \A q \in Runs \ {r} : run'[q] = run[q]
      /\ startedAs' \in [Runs -> Configs \cup {None}] /\ startedAs'[r] = config
      /\ \A q \in Runs \ {r} : startedAs'[q] = startedAs[q]
  BY <1>4 DEF StartRun, IInv, TypeOK, RunStatuses
<1>6. /\ last' = r /\ overlap' \in BOOLEAN
      /\ ~overlap' => ~overlap /\ \A v \in Workers : ~Busy(v)
  BY DEF StartRun, IInv, TypeOK
<1>7. Completed' = Completed
  BY <1>4, <1>5 DEF Completed
<1>8. \A v \in Workers \ {w} : Saving(v)' = Saving(v)
  BY <1>2, <1>3 DEF Saving, Mine
<1>9. \A c \in Configs : (\E q \in Runs : startedAs[q] = c) => \E q \in Runs : startedAs'[q] = c
  BY <1>4, <1>5
<1>10. TypeOK'
  BY <1>2, <1>3, <1>5, <1>6 DEF IInv, TypeOK, WorkerStates
<1>11. WorkersOwnRuns'
  BY <1>2, <1>3, <1>4, <1>5 DEF IInv, WorkersOwnRuns, Busy, Mine
<1>12. RunsWellFormed'
  BY <1>3, <1>5, <1>7 DEF IInv, RunsWellFormed
<1>13. WorkersWellFormed'
  BY <1>2, <1>3, <1>4, <1>8 DEF IInv, WorkersWellFormed, Early, Late, Mine
<1>14. Progress'
  BY <1>2, <1>3, <1>6 DEF IInv, Progress, Name, Late, Mine
<1>15. ClipsNotLegacy' /\ ManifestNamed' /\ RowsNamed'
  BY <1>3 DEF IInv, ClipsNotLegacy, ManifestNamed, RowsNamed, Named
<1>16. WritesExplained'
  <2>1. \A v \in Workers, f \in Files : Open(v, f)' <=> Open(v, f)
    BY <1>2, <1>8 DEF Open
  <2> QED
    BY <1>3, <1>6, <2>1 DEF IInv, TypeOK, WritesExplained, OpenAlone
<1>17. Serial'
  BY <1>2, <1>3, <1>5, <1>6 DEF IInv, Serial, Busy, Mine
<1>18. FramesExplained'
  <2>1. ASSUME NEW i \in Frames, frame[i] # None
        PROVE  i <= FrameCount[frame[i]] /\ \E q \in Runs : startedAs'[q] = frame[i]
    BY <1>9, <2>1 DEF IInv, TypeOK, FramesExplained
  <2>2. ASSUME ~overlap', NEW q \in Runs, clip[q] # None
        PROVE  /\ startedAs'[q] = startedAs[q] /\ startedAs[q] \in Configs
               /\ FrameCount[startedAs[q]] > 0 => startedAs[q] \in inputs[q]
               /\ \A c \in inputs[q] :
                     \/ c = startedAs[q] /\ FrameCount[c] > 0
                     \/ /\ FrameCount[c] > FrameCount[startedAs[q]]
                        /\ \E p \in Runs : startedAs'[p] = c
    <3>1. q # r /\ ~overlap /\ inputs[q] \subseteq Configs
      BY <1>4, <1>6, <2>2 DEF IInv, TypeOK
    <3> QED
      BY <1>5, <1>9, <2>2, <3>1 DEF IInv, FramesExplained
  <2>3. \A v \in Workers : worker'[v].pc = "analyse" => overlap'
    BY <1>2, <1>6 DEF Busy
  <2> QED
    BY <1>3, <2>1, <2>2, <2>3 DEF FramesExplained
<1>19. ASSUME NEW q \in Runs, Replaced(q)
       PROVE  Replaced(q)'
  BY <1>2, <1>3, <1>4, <1>5, <1>6, <1>19 DEF Replaced, Busy, Mine
<1>20. overlap => overlap'
  BY DEF StartRun
<1>21. OutdatedReplaced' /\ ReadersWellFormed'
  BY <1>3, <1>7, <1>19, <1>20, ReadersStay DEF IInv, TypeOK, OutdatedReplaced
<1> QED
  BY <1>10, <1>11, <1>12, <1>13, <1>14, <1>15, <1>16, <1>17, <1>18, <1>21 DEF IInv

\* The configuration changes while no worker is busy.
LEMMA RedeployKeeps ==
    ASSUME IInv, NEW c \in Configs, Redeploy(c)
    PROVE  IInv'
<1>1. /\ \A w \in Workers : ~Busy(w)
      /\ UNCHANGED <<run, rows, legacy, clip, file, frame, worker, reader, faults, last, overlap,
                     crossed, outdated, inputs, startedAs>>
      /\ config' \in Configs /\ redeploys' \in 0..MaxRedeploys
  BY StoreAssumption DEF Redeploy, IInv, TypeOK
<1>2. TypeOK' /\ WorkersOwnRuns'
  BY <1>1 DEF IInv, TypeOK, WorkersOwnRuns, Busy
<1>3. Completed' = Completed /\ \A w \in Workers : Saving(w)' = Saving(w)
  BY <1>1 DEF Completed, Saving, Mine
<1>4. RunsWellFormed' /\ WorkersWellFormed' /\ ClipsNotLegacy'
  BY <1>1, <1>3 DEF IInv, RunsWellFormed, WorkersWellFormed, ClipsNotLegacy, Mine
<1>5. Progress' /\ RowsNamed' /\ ManifestNamed'
  BY <1>1 DEF IInv, Progress, RowsNamed, ManifestNamed, Name, Named, Mine
<1>6. WritesExplained' /\ Serial'
  BY <1>1, <1>3 DEF IInv, WritesExplained, OpenAlone, Open, Serial, Busy, Mine, Named
<1>7. FramesExplained'
  BY <1>1 DEF IInv, FramesExplained, Busy
<1>8. ASSUME NEW q \in Runs, Replaced(q)
      PROVE  Replaced(q)'
  BY <1>1, <1>8 DEF Replaced, Busy, Mine
<1>9. OutdatedReplaced' /\ ReadersWellFormed'
  BY <1>1, <1>3, <1>8, ReadersStay DEF IInv, TypeOK, OutdatedReplaced
<1> QED
  BY <1>2, <1>4, <1>5, <1>6, <1>7, <1>9 DEF IInv

-----------------------------------------------------------------------------
(* The reader's steps.                                                      *)

\* The newest completed run is one of them.
LEMMA MostCompleted ==
    ASSUME IInv, Completed # {}
    PROVE  Most(Completed) \in Completed /\ \A m \in Completed : m <= Most(Completed)
BY DEF IInv, RunsWellFormed, Most

\* A reader changes nothing but what it knows.
LEMMA ReaderStepKeeps ==
    ASSUME IInv, TypeOK', ReadersWellFormed',
           UNCHANGED <<run, rows, legacy, clip, file, frame, config, redeploys, worker, faults,
                       last, overlap, crossed, outdated, inputs, startedAs>>
    PROVE  IInv'
<1>1. \A w \in Workers : Saving(w)' = Saving(w)
  BY DEF Saving, Mine
<1>2. WorkersOwnRuns' /\ RunsWellFormed' /\ WorkersWellFormed' /\ ClipsNotLegacy'
  BY <1>1 DEF IInv, WorkersOwnRuns, RunsWellFormed, Completed, WorkersWellFormed, ClipsNotLegacy,
              Mine, Busy
<1>3. Progress' /\ RowsNamed' /\ ManifestNamed' /\ FramesExplained'
  BY DEF IInv, Progress, RowsNamed, ManifestNamed, Name, Named, Mine, FramesExplained
<1>4. WritesExplained' /\ Serial' /\ OutdatedReplaced'
  BY <1>1 DEF IInv, WritesExplained, OpenAlone, Open, OutdatedReplaced, Replaced, Serial, Busy, Mine, Named
<1> QED
  BY <1>2, <1>3, <1>4 DEF IInv

ReaderStates == [pc : ReaderPcs, file : Documents \cup {None}, pinned : Runs \cup {None},
                 seen : Runs \cup {None}, row : Runs \cup {None, Legacy},
                 since : Runs \cup {0}, old : SUBSET Runs, content : Origins]

\* Each reader's step keeps what is said of readers.
LEMMA ReadersKeep ==
    ASSUME IInv, NEW c \in Readers,
           \/ \E f \in Documents, p \in Runs \cup {None} : BeginRead(c, f, p)
           \/ GetLatestRun(c) \/ GetArtifact(c) \/ ReadFile(c)
    PROVE  IInv'
<1>1. reader \in [Readers -> ReaderStates] /\ reader[c] \in ReaderStates
  BY DEF IInv, TypeOK, ReaderStates
<1>2. Completed \subseteq Runs /\ None \notin Runs /\ Runs \subseteq Nat
  BY StoreAssumption DEF Completed
<1>3. UNCHANGED <<run, rows, legacy, clip, file, frame, config, redeploys, worker, faults, last,
                  overlap, crossed, outdated, inputs, startedAs>>
  BY DEF BeginRead, GetLatestRun, GetArtifact, ReadFile
<1>4. ReaderWellFormed(reader[c])
  BY DEF IInv, ReadersWellFormed
<1>5. SUFFICES \E new \in ReaderStates :
                  reader' = [reader EXCEPT ![c] = new] /\ ReaderWellFormed(new)
  <2>1. PICK new \in ReaderStates :
                  reader' = [reader EXCEPT ![c] = new] /\ ReaderWellFormed(new)
    BY <1>5
  <2>2. /\ reader' \in [Readers -> ReaderStates] /\ reader'[c] = new
        /\ \A d \in Readers \ {c} : reader'[d] = reader[d]
    BY <1>1, <2>1
  <2>3. TypeOK'
    BY <1>3, <2>2 DEF IInv, TypeOK, ReaderStates
  <2>4. \A d \in Readers : ReaderWellFormed(reader'[d])
    BY <2>1, <2>2 DEF IInv, ReadersWellFormed
  <2>5. ReadersWellFormed'
    BY <1>3, <2>4 DEF ReadersWellFormed, ReaderWellFormed, Replaced, Completed, Busy, Mine
  <2> QED
    BY <1>3, <2>3, <2>5, ReaderStepKeeps
<1>6. ASSUME NEW f \in Documents, NEW p \in Runs \cup {None}, BeginRead(c, f, p)
      PROVE  \E new \in ReaderStates :
                  reader' = [reader EXCEPT ![c] = new] /\ ReaderWellFormed(new)
  <2> DEFINE since == IF Completed = {} THEN 0 ELSE Most(Completed)
             new == [NoRead EXCEPT !.pc = IF p = None THEN "latest" ELSE "row", !.file = f,
                                   !.pinned = p, !.since = since, !.old = outdated]
  <2>1. /\ since \in Runs \cup {0} /\ (since # 0 => since \in Completed)
        /\ since # 0 => \A q \in Completed : q <= since
    BY <1>2, MostCompleted
  <2>2. outdated \subseteq Runs /\ \A q \in outdated : Replaced(q)
    BY DEF IInv, TypeOK, OutdatedReplaced
  <2>3. new \in ReaderStates
    BY <2>1, <2>2 DEF NoRead, ReaderStates, ReaderPcs, Origins
  <2>4. reader' = [reader EXCEPT ![c] = new]
    BY <1>6 DEF BeginRead
  <2>5. /\ new.file = f /\ new.pinned = p /\ new.since = since /\ new.old = outdated
        /\ new.pc = IF p = None THEN "latest" ELSE "row"
    BY DEF NoRead
  <2> HIDE DEF since, new
  <2>6. ReaderWellFormed(new)
    BY <2>1, <2>2, <2>5 DEF ReaderWellFormed
  <2> QED
    BY <2>3, <2>4, <2>6
<1>7. ASSUME GetLatestRun(c)
      PROVE  \E new \in ReaderStates :
                  reader' = [reader EXCEPT ![c] = new] /\ ReaderWellFormed(new)
  <2> DEFINE new == [reader[c] EXCEPT !.pc = "row", !.seen = LatestRun]
  <2>1. /\ LatestRun \in Runs \cup {None}
        /\ Completed # {} => LatestRun \in Completed /\ \A q \in Completed : q <= LatestRun
    BY <1>2, MostCompleted DEF LatestRun
  <2>2. new \in ReaderStates
    BY <1>1, <2>1 DEF ReaderStates, ReaderPcs
  <2>3. reader' = [reader EXCEPT ![c] = new]
    BY <1>7 DEF GetLatestRun
  <2>4. /\ new.pc = "row" /\ new.seen = LatestRun /\ new.pinned = reader[c].pinned
        /\ new.since = reader[c].since /\ new.file = reader[c].file /\ new.old = reader[c].old
        /\ reader[c].pc = "latest"
    BY <1>1, <1>7 DEF ReaderStates, GetLatestRun
  <2> HIDE DEF new
  <2>5. ReaderWellFormed(new)
    BY <1>2, <1>4, <2>1, <2>4 DEF ReaderWellFormed
  <2> QED
    BY <2>2, <2>3, <2>5
<1>8. ASSUME GetArtifact(c)
      PROVE  \E new \in ReaderStates :
                  reader' = [reader EXCEPT ![c] = new] /\ ReaderWellFormed(new)
  <2>1. PICK found \in RowsFound(c) :
           reader' = [reader EXCEPT ![c].row = found,
                                    ![c].pc = IF found = None THEN "done" ELSE "read"]
    BY <1>8 DEF GetArtifact
  <2> DEFINE new == [reader[c] EXCEPT !.row = found,
                                      !.pc = IF found = None THEN "done" ELSE "read"]
  <2>2. found \in Runs \cup {None, Legacy}
    BY <1>1, <2>1 DEF RowsFound, IInv, TypeOK, ReaderStates
  <2>3. new \in ReaderStates
    BY <1>1, <2>2 DEF ReaderStates, ReaderPcs
  <2>4. reader' = [reader EXCEPT ![c] = new]
    BY <2>1
  <2>5. /\ new.pc = (IF found = None THEN "done" ELSE "read") /\ new.row = found
        /\ new.pinned = reader[c].pinned /\ new.since = reader[c].since
        /\ new.file = reader[c].file /\ new.old = reader[c].old /\ reader[c].pc = "row"
    BY <1>1, <1>8 DEF ReaderStates, GetArtifact
  <2>6. ASSUME reader[c].pinned = None, reader[c].since # 0
        PROVE  found = reader[c].seen /\ found \in Completed /\ found >= reader[c].since
    <3>1. reader[c].seen \in Completed /\ reader[c].seen >= reader[c].since
      BY <1>4, <2>5, <2>6 DEF ReaderWellFormed
    <3>2. RowsFound(c) = {reader[c].seen}
      BY <2>6, <3>1 DEF RowsFound, IInv, RunsWellFormed
    <3> QED
      BY <2>1, <3>1, <3>2
  <2> HIDE DEF new
  <2>7. ReaderWellFormed(new)
    BY <1>2, <1>4, <2>5, <2>6 DEF ReaderWellFormed
  <2> QED
    BY <2>3, <2>4, <2>7
<1>9. ASSUME ReadFile(c)
      PROVE  \E new \in ReaderStates :
                  reader' = [reader EXCEPT ![c] = new] /\ ReaderWellFormed(new)
  <2> DEFINE f == reader[c].file
  <2>1. PICK content \in Held(f) :
           reader' = [reader EXCEPT ![c] = [reader[c] EXCEPT !.pc = "done", !.content = content]]
    BY <1>9 DEF ReadFile
  <2> DEFINE new == [reader[c] EXCEPT !.pc = "done", !.content = content]
  <2>2. f \in Documents /\ f \in Files /\ file[f] \in Origins \cup {Empty}
    BY <1>4, <1>9, DocumentsAreFiles DEF ReadFile, IInv, TypeOK, ReaderWellFormed
  <2>3. content \in Origins /\ (content = file[f] \/ content = Torn)
    BY <2>2 DEF Held, Origins
  <2>4. new \in ReaderStates
    BY <1>1, <2>3 DEF ReaderStates, ReaderPcs
  <2>5. /\ new.pc = "done" /\ new.row = reader[c].row /\ new.pinned = reader[c].pinned
        /\ new.since = reader[c].since /\ new.file = f /\ new.old = reader[c].old
        /\ new.content = content /\ reader[c].pc = "read" /\ reader[c].old \subseteq Runs
    BY <1>1, <1>9 DEF ReaderStates, ReadFile
  <2>6. ASSUME reader[c].pinned = None, reader[c].since # 0
        PROVE  content \in Runs \cup {Torn}
    <3>1. reader[c].since \in rows
      BY <1>4, <2>6 DEF ReaderWellFormed, IInv, RunsWellFormed
    <3>2. file[f] \notin {None, Legacy}
      BY <2>2, <3>1 DEF IInv, RowsNamed, Named
    <3>3. Torn \notin {None, Legacy}
      BY StoreAssumption
    <3> QED
      BY <2>3, <3>2, <3>3 DEF Origins
  <2>7. ASSUME ~overlap
        PROVE  content \notin reader[c].old
    <3>1. Torn \notin Runs
      BY StoreAssumption
    <3>2. \A q \in reader[c].old : file[f] # q
      BY <1>4, <2>2, <2>7 DEF ReaderWellFormed, Replaced
    <3> QED
      BY <2>3, <2>5, <3>1, <3>2
  <2> HIDE DEF new, f
  <2>8. ReaderWellFormed(new)
    BY <1>4, <2>2, <2>5, <2>6, <2>7 DEF ReaderWellFormed
  <2> QED
    BY <2>1, <2>4, <2>8 DEF new
<1> QED
  BY <1>6, <1>7, <1>8, <1>9

-----------------------------------------------------------------------------
(* The invariant.                                                           *)

\* Nothing has run: no file is torn, and what legacy rows name is there.
LEMMA InitIInv == Init => IInv
<1> SUFFICES ASSUME Init PROVE IInv
  OBVIOUS
<1>1. /\ 1 \in 1..Len(FileOrder) /\ None # Torn /\ None # Legacy /\ Torn # Legacy
      /\ None # Empty /\ Legacy # Empty /\ {None, Legacy, Torn} \cap Runs = {} /\ 0 \in 0..MaxFaults
      /\ 0 \in 0..MaxRedeploys
  BY StoreAssumption
<1>2. /\ Resting \in WorkerStates /\ NoRead \in ReaderStates
      /\ \A w \in Workers : worker[w].pc = "idle"
      /\ \A c \in Readers : reader[c].pc = "idle" /\ reader[c].since = 0 /\ reader[c].old = {}
  BY <1>1 DEF Init, Resting, NoRead, WorkerStates, WorkerPcs, ReaderStates, ReaderPcs, Origins
<1>3. \A f \in Files : file[f] = (IF legacy /\ f \in Documents THEN Legacy ELSE None)
  BY DEF Init
<1>4. Completed = {} /\ \A r \in Runs : run[r] = "pending"
  BY DEF Init, Completed
<1>5. TypeOK
  BY <1>1, <1>2 DEF Init, TypeOK, WorkerStates, ReaderStates, RunStatuses, Origins
<1>6. WorkersOwnRuns /\ WorkersWellFormed /\ Progress
  BY <1>2 DEF WorkersOwnRuns, WorkersWellFormed, Progress, Busy, Early, Late
<1>7. RunsWellFormed /\ RowsNamed
  BY <1>4 DEF Init, RunsWellFormed, RowsNamed
<1>8. ClipsNotLegacy /\ ManifestNamed /\ WritesExplained
  BY <1>1, <1>2, <1>3, DocumentsAreFiles
     DEF ClipsNotLegacy, ManifestNamed, WritesExplained, OpenAlone, Open
<1>9. Serial
  BY <1>2, <1>4 DEF Init, Serial, Busy
<1>10. FramesExplained
  BY <1>2 DEF Init, FramesExplained
<1>11. OutdatedReplaced /\ ReadersWellFormed
  BY <1>2 DEF Init, OutdatedReplaced, ReadersWellFormed, ReaderWellFormed
<1> QED
  BY <1>5, <1>6, <1>7, <1>8, <1>9, <1>10, <1>11 DEF IInv

\* Nothing happens.
LEMMA StutterKeeps ==
    ASSUME IInv, UNCHANGED vars
    PROVE  IInv'
<1>1. UNCHANGED <<run, rows, legacy, clip, file, frame, config, redeploys, worker, faults, last,
                  overlap, crossed, outdated, inputs, startedAs>> /\ UNCHANGED reader
  BY DEF vars
<1>2. TypeOK'
  BY <1>1 DEF IInv, TypeOK
<1>3. ReadersWellFormed'
  BY <1>1 DEF IInv, ReadersWellFormed, ReaderWellFormed, Replaced, Completed, Busy, Mine
<1> QED
  BY <1>1, <1>2, <1>3, ReaderStepKeeps

\* Every step of any worker, reader or deployment keeps the invariant.
LEMMA NextIInv == IInv /\ [Next]_vars => IInv'
<1> SUFFICES ASSUME IInv, [Next]_vars PROVE IInv'
  OBVIOUS
<1>1. CASE UNCHANGED vars
  BY <1>1, StutterKeeps
<1>2. ASSUME NEW w \in Workers,
             \/ \E r \in Runs : StartRun(w, r)
             \/ Normalize(w) \/ ExtractFrames(w) \/ RunPipeline(w)
             \/ BeginCut(w) \/ EndCut(w) \/ ReadClip(w)
             \/ BeginSave(w) \/ EndSave(w) \/ CommitRun(w)
             \/ RunFails(w) \/ WorkerCrash(w)
      PROVE  IInv'
  <2>1. CASE \E r \in Runs : StartRun(w, r)
    BY <2>1, StartRunKeeps
  <2>2. CASE Normalize(w)
    BY <2>2, NormalizeKeeps
  <2>3. CASE ExtractFrames(w)
    BY <2>3, ExtractFramesKeeps
  <2>4. CASE RunPipeline(w)
    BY <2>4, RunPipelineKeeps
  <2>5. CASE BeginCut(w)
    BY <2>5, BeginCutKeeps
  <2>6. CASE EndCut(w)
    BY <2>6, EndCutKeeps
  <2>7. CASE ReadClip(w)
    BY <2>7, ReadClipKeeps
  <2>8. CASE BeginSave(w)
    BY <2>8, BeginSaveKeeps
  <2>9. CASE EndSave(w)
    BY <2>9, EndSaveKeeps
  <2>10. CASE CommitRun(w)
    BY <2>10, CommitRunKeeps
  <2>11. CASE RunFails(w) \/ WorkerCrash(w)
    BY <2>11, GivingUpKeeps
  <2> QED
    BY <1>2, <2>1, <2>2, <2>3, <2>4, <2>5, <2>6, <2>7, <2>8, <2>9, <2>10, <2>11
<1>3. CASE \E c \in Configs : Redeploy(c)
  BY <1>3, RedeployKeeps
<1>4. ASSUME NEW c \in Readers,
             \/ \E f \in Documents, p \in Runs \cup {None} : BeginRead(c, f, p)
             \/ GetLatestRun(c) \/ GetArtifact(c) \/ ReadFile(c)
      PROVE  IInv'
  BY <1>4, ReadersKeep
<1> QED
  BY <1>1, <1>2, <1>3, <1>4 DEF Next

\* The inductive invariant: where every worker is in its list of files, what the files behind
\* it and the frames directory hold, and what a reader knows between its queries.
THEOREM StoreInvariant == Spec => []IInv
BY InitIInv, NextIInv, PTL DEF Spec

\* Variables stay within their types, however many runs, workers and readers there are.
THEOREM StoreTypes == Spec => []TypeOK
<1>1. IInv => TypeOK
  BY DEF IInv
<1> QED
  BY <1>1, StoreInvariant, PTL

\* However runs of a video overlap, fail and crash, a committed row names files that are
\* there; and documents that are whole, unless one is being written again, a fault tore it,
\* or two workers had it open at once, which may tear it for good.
THEOREM RowsNeverDangle == Spec => []NoDanglingRow
<1>1. IInv => NoDanglingRow
  <2> SUFFICES ASSUME IInv, NEW r \in rows, NEW f \in Named(r)
               PROVE  /\ file[f] # None
                      /\ /\ file[f] \in {Empty, Torn} /\ faults = 0
                         /\ IF f \in ClipNames THEN ~overlap ELSE f \notin crossed
                         => \E w \in Workers : Open(w, f)
    BY DEF NoDanglingRow
  <2>1. file[f] # None /\ clip[r] \in ClipNames
    BY DEF IInv, RowsNamed
  <2>2. f \in Files
    BY <2>1 DEF Named, Files
  <2> QED
    BY <2>1, <2>2 DEF IInv, WritesExplained
<1> QED
  BY <1>1, StoreInvariant, PTL

\* A manifest, also of a run that never completes, leads to a clip that is there, and whole or
\* being written as long as runs neither overlap nor fail: clips are saved before it and no
\* clip is removed.
THEOREM ManifestLeadsToClips == Spec => []TimelineLeadsToClips
<1>1. IInv => TimelineLeadsToClips
  <2>1. Runs \cap {None} = {} /\ None \notin ClipNames
    BY StoreAssumption
  <2> QED
    BY <2>1 DEF IInv, ManifestNamed, WritesExplained, TimelineLeadsToClips, Files
<1> QED
  BY <1>1, StoreInvariant, PTL

\* As long as runs of a video never overlap, the run started last, once completed, is the
\* writer of every file it names, whatever failed or crashed before it.
THEOREM SerialRunsStayWhole == Spec => []SerialRunIsWhole
<1>1. IInv => SerialRunIsWhole
  BY DEF IInv, Serial, SerialRunIsWhole
<1> QED
  BY <1>1, StoreInvariant, PTL

\* A read without run_id, of a video with a completed run, gives a completed run's row and a
\* file that is there: no row of a run replaced before the newest one completed, if that was
\* also completed last, and no file of a run replaced before, unless runs overlapped.
THEOREM ReadsStayFresh == Spec => []ReadsAreFresh
<1>1. IInv => ReadsAreFresh
  <2> SUFFICES ASSUME IInv, NEW c \in Readers, reader[c].pinned = None, reader[c].since # 0,
                      reader[c].pc \in {"read", "done"}
               PROVE  LET r == reader[c] IN
                      /\ r.row \in Completed
                      /\ r.since \notin r.old => r.row \notin r.old
                      /\ r.pc = "done" => r.content \in Runs \cup {Torn}
                      /\ r.pc = "done" /\ ~overlap => r.content \notin r.old
    BY DEF ReadsAreFresh
  <2>1. ReaderWellFormed(reader[c])
    BY DEF IInv, ReadersWellFormed
  <2>2. reader[c].row \in Nat /\ reader[c].since \in Nat
    BY <2>1, StoreAssumption DEF ReaderWellFormed, Completed
  <2>3. reader[c].since \notin reader[c].old => reader[c].row \notin reader[c].old
    BY <2>1, <2>2 DEF ReaderWellFormed
  <2> QED
    BY <2>1, <2>3 DEF ReaderWellFormed
<1> QED
  BY <1>1, StoreInvariant, PTL

\* Of frames left over in the shared directory, a run that overlaps with none analyses only
\* those beyond its own, of runs with a rate that gave more.
THEOREM OnlySurplusFramesStale == Spec => []StaleFramesAreSurplus
<1>1. IInv => StaleFramesAreSurplus
  <2> SUFFICES ASSUME IInv, NEW r \in Runs, ~overlap, run[r] = "completed"
               PROVE  LET own == startedAs[r] IN
                      /\ FrameCount[own] > 0 => own \in inputs[r]
                      /\ \A c \in inputs[r] \ {own} :
                            FrameCount[c] > FrameCount[own] /\ \E q \in Runs : startedAs[q] = c
    BY DEF StaleFramesAreSurplus
  <2>1. clip[r] # None
    BY StoreAssumption DEF IInv, RunsWellFormed, RowsNamed, Completed
  <2> QED
    BY <2>1 DEF IInv, FramesExplained
<1> QED
  BY <1>1, StoreInvariant, PTL

=============================================================================

---------------------------- MODULE ArtifactStore ----------------------------
(***************************************************************************)
(* The results of one video: runs of it write files, cut clips, commit     *)
(* rows that name them, and readers resolve a row and then read its file.  *)
(* The key of a file has the video's id in it and not the run's            *)
(* (libs.storage.artifact_key), so all runs of a video, finished, running  *)
(* or failing, share one file per artifact type, one normalised video and  *)
(* one directory of frames.                                                *)
(*                                                                         *)
(* A clip is named after its position and label, so runs that label alike  *)
(* share it too, and no clip is ever removed.  Here a run has one clip.    *)
(*                                                                         *)
(* The storage backend is the local one: the clips directory is inside it, *)
(* and ffmpeg writes the very file that storage.save writes again.  S3 puts *)
(* an object in one step, a save here with nothing in between.             *)
(*                                                                         *)
(* A file's content is abstracted to the run that wrote it, a frame to the *)
(* configuration (sampling rate) it was extracted under.  A save opens the *)
(* file, which empties it, and writes all its bytes in one write at an     *)
(* offset of its own; of two that have a file open at once, the one that   *)
(* writes last may leave what the other wrote beyond it.                   *)
(***************************************************************************)
EXTENDS Naturals, Sequences, FiniteSets

CONSTANTS
    Runs,        \* ids of the ProcessingRun rows of the video
    Workers, Readers,
    FileOrder,   \* the artifact types, in the order in which a run saves them; "clip" is one
    ClipNames,   \* file names of clips (model values), segment_<index>_<label>.mp4
    Configs,     \* values of settings.frame_sample_fps the workers are deployed with
    FrameCount,  \* FrameCount[c]: frames that a run under c extracts (none of a very short video)
    MaxRedeploys,\* bound: how many times the configuration changes
    Faults,      \* subset of {"crash", "storage", "pipeline"}
    MaxFaults,   \* bound: how many faults happen
    None, Legacy,
    Empty,       \* what a file holds that was opened to be written, and so truncated
    Torn         \* what a file holds that has bytes in it, but no whole content

Documents == {FileOrder[i] : i \in 1..Len(FileOrder)} \ {"clip"}
Files == Documents \cup ClipNames
Most(S) == CHOOSE n \in S : \A m \in S : m <= n
Frames == UNION {1..FrameCount[c] : c \in Configs}

ASSUME StoreAssumption ==
    /\ Runs \subseteq Nat \ {0}
    /\ FileOrder \in Seq(Documents \cup {"clip"})
    /\ \A i, j \in 1..Len(FileOrder) : FileOrder[i] = FileOrder[j] => i = j
    \* The clips are saved before the manifest that names them.
    /\ \E i, j \in 1..Len(FileOrder) :
          i < j /\ FileOrder[i] = "clip" /\ FileOrder[j] = "timeline_manifest"
    /\ ClipNames # {} /\ Documents \cap ClipNames = {}
    /\ FrameCount \in [Configs -> Nat]
    /\ MaxRedeploys \in Nat /\ MaxFaults \in Nat
    /\ None # Legacy /\ None # Empty /\ None # Torn
    /\ Legacy # Empty /\ Legacy # Torn /\ Empty # Torn
    /\ {None, Legacy, Empty, Torn} \cap (Runs \cup Configs \cup ClipNames) = {}

VARIABLES
    run,      \* run[r]: ProcessingRun.status
    rows,     \* runs whose Artifact rows (one per type) are committed
    legacy,   \* is there a row per type from before runs existed (no processing_run_id)?
    clip,     \* clip[r]: the name of r's clip, in its manifest and rows, or None before
    file,     \* file[f]: who wrote file f, None, Empty or Torn
    frame,    \* frame[i]: the configuration under which frame_i.jpg was extracted, or None
    config,   \* the configuration the workers run with
    redeploys,
    worker,   \* worker[w]: its step, its run, the index in FileOrder of the file it saves
    reader,   \* reader[c]: a GET of one artifact type, with or without run_id
    faults,
    last,     \* history: the run started last
    overlap,  \* history: has a run ever been started while another was being processed?
    crossed,  \* history: files that were opened to be written while another worker had them open
    outdated, \* history: runs that were over before the run completed last was completed
    inputs,   \* history: inputs[r], configurations of the frames r analysed
    startedAs \* history: the configuration r was started under

vars == <<run, rows, legacy, clip, file, frame, config, redeploys, worker, reader, faults,
          last, overlap, crossed, outdated, inputs, startedAs>>

-----------------------------------------------------------------------------
RunStatuses == {"pending", "running", "completed", "error"}
WorkerPcs == {"idle", "normalize", "extract", "analyse", "save", "cutting", "cut",
              "saving", "commit"}
ReaderPcs == {"idle", "latest", "row", "read", "done"}

Resting == [pc |-> "idle", run |-> None, at |-> 1, data |-> None]
NoRead  == [pc |-> "idle", file |-> None, pinned |-> None, row |-> None, seen |-> None,
            since |-> 0, old |-> {}, content |-> None]

Origins == Runs \cup {None, Legacy, Torn}

TypeOK ==
    /\ run \in [Runs -> RunStatuses]
    /\ rows \subseteq Runs
    /\ legacy \in BOOLEAN
    /\ clip \in [Runs -> ClipNames \cup {None}]
    /\ file \in [Files -> Origins \cup {Empty}]
    /\ frame \in [Frames -> Configs \cup {None}]
    /\ config \in Configs
    /\ redeploys \in 0..MaxRedeploys
    /\ worker \in [Workers -> [pc : WorkerPcs, run : Runs \cup {None}, at : 1..Len(FileOrder),
                               data : Runs \cup {None, Torn}]]
    /\ reader \in [Readers -> [pc : ReaderPcs, file : Documents \cup {None},
                               pinned : Runs \cup {None}, seen : Runs \cup {None},
                               row : Runs \cup {None, Legacy}, since : Runs \cup {0},
                               old : SUBSET Runs, content : Origins]]
    /\ faults \in 0..MaxFaults
    /\ last \in Runs \cup {None}
    /\ overlap \in BOOLEAN
    /\ crossed \subseteq Files
    /\ outdated \subseteq Runs
    /\ inputs \in [Runs -> SUBSET Configs]
    /\ startedAs \in [Runs -> Configs \cup {None}]

Init ==
    /\ run = [r \in Runs |-> "pending"]
    /\ rows = {}
    /\ legacy \in BOOLEAN
    /\ clip = [r \in Runs |-> None]
    /\ file = [f \in Files |-> IF legacy /\ f \in Documents THEN Legacy ELSE None]
    /\ frame = [i \in Frames |-> None]
    /\ config \in Configs
    /\ redeploys = 0
    /\ worker = [w \in Workers |-> Resting]
    /\ reader = [c \in Readers |-> NoRead]
    /\ faults = 0
    /\ last = None
    /\ overlap = FALSE
    /\ crossed = {}
    /\ outdated = {}
    /\ inputs = [r \in Runs |-> {}]
    /\ startedAs = [r \in Runs |-> None]

Fault(kind) ==
    /\ kind \in Faults
    /\ faults < MaxFaults
    /\ faults' = faults + 1

Mine(w)   == worker[w].run
Busy(w)   == worker[w].pc # "idle"
Goes(w, pc) == worker' = [worker EXCEPT ![w].pc = pc]
Rests(w)  == worker' = [worker EXCEPT ![w] = Resting]

-----------------------------------------------------------------------------
(* The worker: handle_process_video.                                        *)

\* The row is marked running.  Any pending run may be next: what the queue orders is
\* RunLifecycle's subject.
StartRun(w, r) ==
    /\ worker[w].pc = "idle"
    /\ run[r] = "pending"
    /\ run' = [run EXCEPT ![r] = "running"]
    /\ worker' = [worker EXCEPT ![w] = [Resting EXCEPT !.pc = "normalize", !.run = r]]
    /\ last' = r
    /\ overlap' = (overlap \/ \E v \in Workers : Busy(v))
    /\ startedAs' = [startedAs EXCEPT ![r] = config]
    /\ UNCHANGED <<rows, legacy, clip, file, frame, config, redeploys, reader, faults,
                   crossed, outdated, inputs>>

\* <video_id>_normalized.mp4 is written, from a source that never changes.
Normalize(w) ==
    /\ worker[w].pc = "normalize"
    /\ Goes(w, "extract")
    /\ UNCHANGED <<run, rows, legacy, clip, file, frame, config, redeploys, reader, faults,
                   last, overlap, crossed, outdated, inputs, startedAs>>

\* Variant: frames that exist are kept.
ExtractFrames_KeepsOld(w) ==
    /\ worker[w].pc = "extract"
    /\ frame' = [i \in Frames |-> IF i <= FrameCount[config] /\ frame[i] = None
                                  THEN config ELSE frame[i]]
    /\ Goes(w, "analyse")
    /\ UNCHANGED <<run, rows, legacy, clip, file, config, redeploys, reader, faults,
                   last, overlap, crossed, outdated, inputs, startedAs>>

\* ffmpeg -y numbers its frames from the first and removes none.  While another worker
\* rewrites the normalised video, only a part of it may be there to be read.
ExtractFrames(w) ==
    /\ worker[w].pc = "extract"
    /\ \E n \in 0..FrameCount[config] :
          /\ n = FrameCount[config] \/ \E v \in Workers : worker[v].pc = "normalize"
          /\ frame' = [i \in Frames |-> IF i <= n THEN config ELSE frame[i]]
    /\ Goes(w, "analyse")
    /\ UNCHANGED <<run, rows, legacy, clip, file, config, redeploys, reader, faults,
                   last, overlap, crossed, outdated, inputs, startedAs>>

\* run_pipeline over every frame_*.jpg of the directory; the segments it finds name the clip.
RunPipeline(w) ==
    /\ worker[w].pc = "analyse"
    /\ inputs' = [inputs EXCEPT ![Mine(w)] = {frame[i] : i \in Frames} \ {None}]
    /\ \E name \in ClipNames : clip' = [clip EXCEPT ![Mine(w)] = name]
    /\ Goes(w, "save")
    /\ UNCHANGED <<run, rows, legacy, file, frame, config, redeploys, reader, faults,
                   last, overlap, crossed, outdated, startedAs>>

\* Variant: the manifest and what follows it are saved before the clips.
Saving_ManifestFirst(w) ==
    LET type == FileOrder[1 + Len(FileOrder) - worker[w].at]
    IN IF type = "clip" THEN clip[Mine(w)] ELSE type

\* The file the worker is at.
Saving(w) ==
    LET type == FileOrder[worker[w].at] IN IF type = "clip" THEN clip[Mine(w)] ELSE type

\* Worker w has file f open: opened, and not closed yet.
Open(w, f) == worker[w].pc \in {"cutting", "saving"} /\ Saving(w) = f

\* Another worker has the file open that w is at.
Shared(w) == \E v \in Workers \ {w} : Open(v, Saving(w))

\* open(path, "wb"): the file is emptied, also under whoever else has it open.
Opens(w) ==
    /\ file' = [file EXCEPT ![Saving(w)] = Empty]
    /\ crossed' = IF Shared(w) THEN crossed \cup {Saving(w)} ELSE crossed \ {Saving(w)}

\* What is left of a file once w, who had it open, has written this content from its start.
\* If another wrote it meanwhile, or still may, what is longer sticks out behind what is
\* written last, and the file is neither the one nor the other.
Left(w, content) ==
    {content} \cup (IF file[Saving(w)] # Empty \/ Shared(w) THEN {Torn} ELSE {})

\* What a read of file f may find: what it holds, or part of what is being written.
Held(f) ==
    IF file[f] = Empty THEN {Torn}
    ELSE {file[f]} \cup (IF \E w \in Workers : Open(w, f) THEN {Torn} ELSE {})

\* ffmpeg -y opens, and so truncates, the clip it cuts out of the normalised video.  Each
\* clip is cut once.
BeginCut(w) ==
    /\ worker[w].pc = "save"
    /\ Saving(w) \in ClipNames
    /\ worker[w].data = None
    /\ Opens(w)
    /\ Goes(w, "cutting")
    /\ UNCHANGED <<run, rows, legacy, clip, frame, config, redeploys, reader, faults,
                   last, overlap, outdated, inputs, startedAs>>

\* Only a part comes out while another worker rewrites the normalised video.
EndCut(w) ==
    /\ worker[w].pc = "cutting"
    /\ \E content \in {Mine(w), Torn} :
          /\ content = Torn => \E v \in Workers : worker[v].pc = "normalize"
          /\ \E left \in Left(w, content) : file' = [file EXCEPT ![Saving(w)] = left]
    /\ Goes(w, "cut")
    /\ UNCHANGED <<run, rows, legacy, clip, frame, config, redeploys, reader, faults,
                   last, overlap, crossed, outdated, inputs, startedAs>>

\* clip_local.read_bytes(): what the file holds by now, which may be another run's.
ReadClip(w) ==
    /\ worker[w].pc = "cut"
    /\ \E data \in Held(Saving(w)) :
          worker' = [worker EXCEPT ![w].pc = "save", ![w].data = data]
    /\ UNCHANGED <<run, rows, legacy, clip, file, frame, config, redeploys, reader, faults,
                   last, overlap, crossed, outdated, inputs, startedAs>>

\* On to the next file, or to the rows.
NextFile(w) ==
    IF worker[w].at = Len(FileOrder) THEN [worker[w] EXCEPT !.pc = "commit"]
    ELSE [worker[w] EXCEPT !.pc = "save", !.at = @ + 1, !.data = None]

\* Variant: a file that is there is not written again.
BeginSave_KeepsOld(w) ==
    /\ worker[w].pc = "save"
    /\ Saving(w) \in Documents \/ worker[w].data # None
    /\ IF file[Saving(w)] = None
       THEN Opens(w) /\ Goes(w, "saving")
       ELSE worker' = [worker EXCEPT ![w] = NextFile(w)] /\ UNCHANGED <<file, crossed>>
    /\ UNCHANGED <<run, rows, legacy, clip, frame, config, redeploys, reader, faults,
                   last, overlap, outdated, inputs, startedAs>>

\* storage.save, of a document or of a clip that was read, begins.
BeginSave(w) ==
    /\ worker[w].pc = "save"
    /\ Saving(w) \in Documents \/ worker[w].data # None
    /\ Opens(w)
    /\ Goes(w, "saving")
    /\ UNCHANGED <<run, rows, legacy, clip, frame, config, redeploys, reader, faults,
                   last, overlap, outdated, inputs, startedAs>>

\* What is being saved: the bytes of the clip that was read, or the run's own document.
Saved(w) == IF Saving(w) \in ClipNames THEN worker[w].data ELSE Mine(w)

\* Variant: the last file is not saved.
EndSave_OneLess(w) ==
    /\ worker[w].pc = "saving"
    /\ \E left \in Left(w, Saved(w)) : file' = [file EXCEPT ![Saving(w)] = left]
    /\ IF worker[w].at + 1 >= Len(FileOrder)
       THEN Goes(w, "commit")
       ELSE worker' = [worker EXCEPT ![w] = NextFile(w)]
    /\ UNCHANGED <<run, rows, legacy, clip, frame, config, redeploys, reader, faults,
                   last, overlap, crossed, outdated, inputs, startedAs>>

\* The bytes are written, all in one write, and the file is closed.
EndSave(w) ==
    /\ worker[w].pc = "saving"
    /\ \E left \in Left(w, Saved(w)) : file' = [file EXCEPT ![Saving(w)] = left]
    /\ worker' = [worker EXCEPT ![w] = NextFile(w)]
    /\ UNCHANGED <<run, rows, legacy, clip, frame, config, redeploys, reader, faults,
                   last, overlap, crossed, outdated, inputs, startedAs>>

\* The Artifact rows and the status, in one transaction.
CommitRun(w) ==
    /\ worker[w].pc = "commit"
    /\ rows' = rows \cup {Mine(w)}
    /\ run' = [run EXCEPT ![Mine(w)] = "completed"]
    /\ outdated' = {r \in Runs \ {Mine(w)} :
                       run[r] # "pending" /\ \A v \in Workers : Busy(v) => Mine(v) # r}
    /\ Rests(w)
    /\ UNCHANGED <<legacy, clip, file, frame, config, redeploys, reader, faults,
                   last, overlap, crossed, inputs, startedAs>>

\* The file w has open, if any, stays as it is, or with a part of what was to be written.
GivesUpFile(w) ==
    IF worker[w].pc \in {"cutting", "saving"}
    THEN \E left \in {file[Saving(w)], Torn} \ {Empty} : file' = [file EXCEPT ![Saving(w)] = left]
    ELSE UNCHANGED file

\* Variant: the name of the event is written as the status.
RunFails_WrongEnum(w) ==
    /\ Fault("storage") /\ worker[w].pc \in {"save", "cut", "saving"}
    /\ run' = [run EXCEPT ![Mine(w)] = "failed"]
    /\ GivesUpFile(w)
    /\ Rests(w)
    /\ UNCHANGED <<rows, legacy, clip, frame, config, redeploys, reader,
                   last, overlap, crossed, outdated, inputs, startedAs>>

\* A step raises; what was saved stays.
RunFails(w) ==
    /\ \/ Fault("pipeline") /\ worker[w].pc \in {"normalize", "extract", "analyse", "cutting"}
       \/ Fault("storage") /\ worker[w].pc \in {"save", "cut", "saving"}
    /\ run' = [run EXCEPT ![Mine(w)] = "error"]
    /\ GivesUpFile(w)
    /\ Rests(w)
    /\ UNCHANGED <<rows, legacy, clip, frame, config, redeploys, reader,
                   last, overlap, crossed, outdated, inputs, startedAs>>

WorkerCrash(w) ==
    /\ Fault("crash")
    /\ Busy(w)
    /\ GivesUpFile(w)
    /\ Rests(w)
    /\ UNCHANGED <<run, rows, legacy, clip, frame, config, redeploys, reader,
                   last, overlap, crossed, outdated, inputs, startedAs>>

\* The workers are restarted with another sampling rate.
Redeploy(c) ==
    /\ redeploys < MaxRedeploys
    /\ c # config
    /\ \A w \in Workers : ~Busy(w)
    /\ config' = c
    /\ redeploys' = redeploys + 1
    /\ UNCHANGED <<run, rows, legacy, clip, file, frame, worker, reader, faults,
                   last, overlap, crossed, outdated, inputs, startedAs>>

-----------------------------------------------------------------------------
(* The reader: get_latest_artifact, then read_artifact_json.                *)

Completed == {r \in Runs : run[r] = "completed"}

\* Variant: ordered by id, ascending.
LatestRun_First == IF Completed = {} THEN None
                   ELSE CHOOSE r \in Completed : \A q \in Completed : r <= q

LatestRun == IF Completed = {} THEN None ELSE Most(Completed)

\* A GET of type f of the latest run, or of run p.
BeginRead(c, f, p) ==
    /\ reader[c].pc = "idle"
    /\ reader' = [reader EXCEPT ![c] =
          [NoRead EXCEPT !.pc = IF p = None THEN "latest" ELSE "row", !.file = f, !.pinned = p,
                         !.since = IF Completed = {} THEN 0 ELSE Most(Completed),
                         !.old = outdated]]
    /\ UNCHANGED <<run, rows, legacy, clip, file, frame, config, redeploys, worker, faults,
                   last, overlap, crossed, outdated, inputs, startedAs>>

GetLatestRun(c) ==
    /\ reader[c].pc = "latest"
    /\ reader' = [reader EXCEPT ![c].pc = "row", ![c].seen = LatestRun]
    /\ UNCHANGED <<run, rows, legacy, clip, file, frame, config, redeploys, worker, faults,
                   last, overlap, crossed, outdated, inputs, startedAs>>

\* What the queries for the row may find: the pinned run's row or none; the latest run's;
\* and failing that the row with the highest id.  Rows get their ids when they are flushed,
\* so among runs that overlapped any may be the highest; legacy rows are older than all.
RowsFound(c) ==
    LET r == reader[c] IN
    IF r.pinned # None THEN {IF r.pinned \in rows THEN r.pinned ELSE None}
    ELSE IF r.seen \in rows THEN {r.seen}
    ELSE IF rows # {} THEN rows
    ELSE {IF legacy THEN Legacy ELSE None}

\* No row: 404.
GetArtifact(c) ==
    /\ reader[c].pc = "row"
    /\ \E found \in RowsFound(c) :
          reader' = [reader EXCEPT ![c].row = found,
                                   ![c].pc = IF found = None THEN "done" ELSE "read"]
    /\ UNCHANGED <<run, rows, legacy, clip, file, frame, config, redeploys, worker, faults,
                   last, overlap, crossed, outdated, inputs, startedAs>>

\* A torn file is not valid JSON: 404 (500 for the timeline).
ReadFile(c) ==
    /\ reader[c].pc = "read"
    /\ \E content \in Held(reader[c].file) :
          reader' = [reader EXCEPT ![c].pc = "done", ![c].content = content]
    /\ UNCHANGED <<run, rows, legacy, clip, file, frame, config, redeploys, worker, faults,
                   last, overlap, crossed, outdated, inputs, startedAs>>

-----------------------------------------------------------------------------
Next ==
    \/ \E w \in Workers :
          \/ \E r \in Runs : StartRun(w, r)
          \/ Normalize(w) \/ ExtractFrames(w) \/ RunPipeline(w)
          \/ BeginCut(w) \/ EndCut(w) \/ ReadClip(w)
          \/ BeginSave(w) \/ EndSave(w) \/ CommitRun(w)
          \/ RunFails(w) \/ WorkerCrash(w)
    \/ \E c \in Configs : Redeploy(c)
    \/ \E c \in Readers :
          \/ \E f \in Documents, p \in Runs \cup {None} : BeginRead(c, f, p)
          \/ GetLatestRun(c) \/ GetArtifact(c) \/ ReadFile(c)

Spec == Init /\ [][Next]_vars

-----------------------------------------------------------------------------
(***************************************************************************)
(* Properties.                                                             *)
(***************************************************************************)

\* The files of a run, as its rows name them.
Named(r) == Documents \cup {clip[r]}

\* A committed row names a file that is there, and one that is whole unless it is being
\* written again, a fault has torn it, or it was opened by two workers at once, who may have
\* left a mixture of what they wrote for good: a later save of it alone makes it whole.
\* (Not so for clips: of two runs that overlap, one may read the clip while the other cuts
\* it, and save what it read last.)
NoDanglingRow ==
    \A r \in rows : \A f \in Named(r) :
        /\ file[f] # None
        /\ /\ file[f] \in {Empty, Torn} /\ faults = 0
           /\ IF f \in ClipNames THEN ~overlap ELSE f \notin crossed
           => \E w \in Workers : Open(w, f)

\* Whoever holds a manifest, also one of a run that is not completed yet or never will be,
\* is led to a clip that is there, and as long as runs neither overlap nor fail to one that
\* is whole or being written: the clips are saved before the manifest, and none goes away.
TimelineLeadsToClips ==
    LET r == file["timeline_manifest"] IN
    r \in Runs =>
        /\ clip[r] # None
        /\ file[clip[r]] # None
        /\ file[clip[r]] \in {Empty, Torn} /\ faults = 0 /\ ~overlap =>
              \E w \in Workers : Open(w, clip[r])

\* If no two runs of the video were ever processed at once, then whenever none is and the
\* one started last completed, every file it names is its own: no mixture is left behind, also not
\* after runs that failed or crashed half way.
SerialRunIsWhole ==
    /\ ~overlap
    /\ \A w \in Workers : ~Busy(w)
    /\ last # None
    /\ run[last] = "completed"
    => \A f \in Named(last) : file[f] = last

\* A reader without run_id, of a video with a completed run, gets the row of a completed
\* run, and then a file that is there.  If the run with the highest id was also the last to
\* be completed when the request came, that row is of no run that was over before it.  And
\* unless runs overlapped, neither is the file: its row may be one run's and its content
\* another's, but never that of a run already replaced.
ReadsAreFresh ==
    \A c \in Readers :
        LET r == reader[c] IN
        r.pinned = None /\ r.since # 0 /\ r.pc \in {"read", "done"} =>
            /\ r.row \in Completed
            /\ r.since \notin r.old => r.row \notin r.old
            /\ r.pc = "done" => r.content \in Runs \cup {Torn}
            /\ r.pc = "done" /\ ~overlap => r.content \notin r.old

\* A reader without run_id gets the row of the run completed last, or of one that was being
\* processed then or came later: README, "artifacts from the most recently completed run".
LatestReadIsLastCompleted ==
    \A c \in Readers :
        LET r == reader[c] IN
        r.pinned = None /\ r.since # 0 /\ r.pc \in {"read", "done"} => r.row \notin r.old

\* As long as runs do not overlap, a completed run has analysed frames of its own rate, if
\* that gives any, and of others only what sticks out behind them: frames of runs whose rate
\* gave more, that ffmpeg numbers higher and never removes.
StaleFramesAreSurplus ==
    \A r \in Runs :
        LET own == startedAs[r] IN
        ~overlap /\ run[r] = "completed" =>
            /\ FrameCount[own] > 0 => own \in inputs[r]
            /\ \A c \in inputs[r] \ {own} :
                  FrameCount[c] > FrameCount[own] /\ \E q \in Runs : startedAs[q] = c

\* reprocess_video: artifacts from previous runs are never overwritten.  A reader who asks
\* for a run's artifact, and gets a whole file, is given what that run wrote.
PinnedReadIsOwn ==
    \A c \in Readers :
        LET r == reader[c] IN
        r.pinned # None /\ r.content \in Runs => r.content = r.pinned
=============================================================================

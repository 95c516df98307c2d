---------------------------- MODULE RunLifecycle ----------------------------
(***************************************************************************)
(* The life of a processing run in MotionState, across the processes that  *)
(* carry it: an API request commits the Video, ProcessingRun and Job rows, *)
(* THEN pushes a message on the Redis list, THEN publishes the "created"   *)
(* event; a worker pops the message (BLPOP removes it: at most once), loads *)
(* the rows, commits "running", runs the pipeline, commits the verdict and *)
(* publishes the matching event.  Each of these is a step of its own, so   *)
(* that other requests, other workers and failures come in between.        *)
(*                                                                         *)
(* Rows and the queue survive every fault; what a process was doing does   *)
(* not.  A row that is not committed is not in the state at all.           *)
(***************************************************************************)
EXTENDS Naturals, Sequences

CONSTANTS
    Videos,     \* ids of Video rows
    Runs,       \* ids of ProcessingRun rows; the Job of run r has the same id here
    Clients,    \* API requests in flight at once
    Workers,    \* worker processes, each running run_worker
    Faults,     \* the kinds of fault that may happen, a subset of FaultKinds
    MaxFaults,  \* bound: how many faults happen in a behaviour
    NoRun, NoVideo

FaultKinds ==
    { "crash",      \* an API or worker process dies and is restarted
      "redis",      \* an RPUSH raises, applied or not
      "database",   \* a SELECT or a COMMIT raises, applied or not
      "flush" }     \* the flush inside libs.usage.emit raises

ASSUME LifecycleAssumption ==
    /\ NoRun \notin Runs
    /\ NoVideo \notin Videos
    /\ Faults \subseteq FaultKinds
    /\ MaxFaults \in Nat

VARIABLES
    videoStatus,  \* Video.status
    runVideo,     \* ProcessingRun.video_id and Job.video_id
    runStatus,    \* ProcessingRun.status
    jobStatus,    \* Job.status
    outputs,      \* runs whose Artifact rows and usage events are committed
    queue,        \* the Redis list motionstate:jobs, process_video messages only
    events,       \* events[r]: the RunEventTypes handed to the webhook queue
    api,          \* api[c]: where request c is after its commit
    worker,       \* worker[w]: where worker w is in handle_process_video
    faults        \* how many faults have happened

rows == <<videoStatus, runVideo, runStatus, jobStatus, outputs>>
vars == <<rows, queue, events, api, worker, faults>>

-----------------------------------------------------------------------------
VideoStatuses == {"absent", "pending", "processing", "ready", "error"}
JobStatuses   == {"absent", "queued", "running", "done", "error"}
RunStatuses   == {"absent", "pending", "running", "completed", "error"}
EventTypes    == {"created", "running", "completed", "failed"}

ApiPcs    == {"ready", "committed", "enqueued"}
WorkerPcs == {"idle", "dequeued", "loaded", "marked", "pipeline", "raised",
              "poisoned", "finished", "failed"}

ApiReady   == [pc |-> "ready", run |-> NoRun]
WorkerIdle == [pc |-> "idle", run |-> NoRun, seen |-> "absent"]

\* One type invariant: every column holds a value of its enum, every process is
\* at a known place, and the fault bound is kept.
TypeOK ==
    /\ videoStatus \in [Videos -> VideoStatuses]
    /\ runVideo \in [Runs -> Videos \cup {NoVideo}]
    /\ runStatus \in [Runs -> RunStatuses]
    /\ jobStatus \in [Runs -> JobStatuses]
    /\ outputs \subseteq Runs
    /\ queue \in Seq(Runs)
    /\ events \in [Runs -> SUBSET EventTypes]
    /\ api \in [Clients -> [pc : ApiPcs, run : Runs \cup {NoRun}]]
    /\ worker \in [Workers -> [pc : WorkerPcs, run : Runs \cup {NoRun},
                               seen : VideoStatuses]]
    /\ faults \in 0..MaxFaults

Init ==
    /\ videoStatus = [v \in Videos |-> "absent"]
    /\ runVideo = [r \in Runs |-> NoVideo]
    /\ runStatus = [r \in Runs |-> "absent"]
    /\ jobStatus = [r \in Runs |-> "absent"]
    /\ outputs = {}
    /\ queue = <<>>
    /\ events = [r \in Runs |-> {}]
    /\ api = [c \in Clients |-> ApiReady]
    /\ worker = [w \in Workers |-> WorkerIdle]
    /\ faults = 0

-----------------------------------------------------------------------------
(* Steps shared by several handlers.                                        *)

Fault(kind) ==
    /\ kind \in Faults
    /\ faults < MaxFaults
    /\ faults' = faults + 1

\* enqueue_run_event(kind) for run r: the delivery messages are on the queue.
Publish(r, kind) == events' = [events EXCEPT ![r] = @ \cup {kind}]

ApiGoes(c, pc) == api' = [api EXCEPT ![c].pc = pc]
ApiDone(c)     == api' = [api EXCEPT ![c] = ApiReady]

WorkerGoes(w, pc) == worker' = [worker EXCEPT ![w].pc = pc]
WorkerDone(w)     == worker' = [worker EXCEPT ![w] = WorkerIdle]

-----------------------------------------------------------------------------
(* The API: apps/api/routes/videos.py.                                      *)

\* Variant: reprocess takes over an unfinished run instead of inserting a new one.
CommitRunAndJob_ReusesRun(c, v, r) ==
    /\ api[c].pc = "ready"
    /\ runStatus[r] \in {"absent", "running"}
    /\ runVideo' = [runVideo EXCEPT ![r] = v]
    /\ runStatus' = [runStatus EXCEPT ![r] = "pending"]
    /\ jobStatus' = [jobStatus EXCEPT ![r] = "queued"]
    /\ api' = [api EXCEPT ![c] = [pc |-> "committed", run |-> r]]
    /\ UNCHANGED <<outputs, queue, events, worker, faults>>

\* The ProcessingRun (pending) and its Job (queued) for video v, committed together.
CommitRunAndJob(c, v, r) ==
    /\ api[c].pc = "ready"
    /\ runStatus[r] = "absent"
    /\ runVideo' = [runVideo EXCEPT ![r] = v]
    /\ runStatus' = [runStatus EXCEPT ![r] = "pending"]
    /\ jobStatus' = [jobStatus EXCEPT ![r] = "queued"]
    /\ api' = [api EXCEPT ![c] = [pc |-> "committed", run |-> r]]
    /\ UNCHANGED <<outputs, queue, events, worker, faults>>

\* POST /videos up to its commit; a failure before it rolls everything back.
UploadVideo(c, v, r) ==
    /\ videoStatus[v] = "absent"
    /\ videoStatus' = [videoStatus EXCEPT ![v] = "pending"]
    /\ CommitRunAndJob(c, v, r)

\* POST /videos/upload-init: a pending Video with a key and no run, job or message.
UploadInit(v) ==
    /\ videoStatus[v] = "absent"
    /\ videoStatus' = [videoStatus EXCEPT ![v] = "pending"]
    /\ UNCHANGED <<runVideo, runStatus, jobStatus, outputs, queue, events, api,
                   worker, faults>>

\* POST /videos/{id}/reprocess up to its commit; the Video row is not written.
ReprocessVideo(c, v, r) ==
    /\ videoStatus[v] # "absent"
    /\ UNCHANGED videoStatus
    /\ CommitRunAndJob(c, v, r)

\* await enqueue(job.id, ...) after the commit.
Enqueue(c) ==
    /\ api[c].pc = "committed"
    /\ queue' = Append(queue, api[c].run)
    /\ ApiGoes(c, "enqueued")
    /\ UNCHANGED <<rows, events, worker, faults>>

\* The created event; enqueue_run_event swallows its own errors.
PublishCreated(c) ==
    /\ api[c].pc = "enqueued"
    /\ Publish(api[c].run, "created")
    /\ ApiDone(c)
    /\ UNCHANGED <<rows, queue, worker, faults>>

ApiStep(c) == Enqueue(c) \/ PublishCreated(c)

\* Variant: the request pushes again after an error, whether the push was applied or not.
ApiRedisFails_Retries(c) ==
    /\ Fault("redis")
    /\ api[c].pc = "committed"
    /\ queue' \in {queue, Append(queue, api[c].run)}
    /\ UNCHANGED <<rows, events, api, worker>>

\* RPUSH raises.  The job message is pushed or not, and the request ends in a 500
\* although the rows are committed; an event is lost (to RPUSH or to the SELECT of
\* its subscribers), which is logged, and the request succeeds.
ApiRedisFails(c) ==
    /\ Fault("redis")
    /\ \/ /\ api[c].pc = "committed"
          /\ queue' \in {queue, Append(queue, api[c].run)}
       \/ /\ api[c].pc = "enqueued"
          /\ UNCHANGED queue
    /\ ApiDone(c)
    /\ UNCHANGED <<rows, events, worker>>

ApiCrash(c) ==
    /\ Fault("crash")
    /\ api[c].pc # "ready"
    /\ ApiDone(c)
    /\ UNCHANGED <<rows, queue, events, worker>>

-----------------------------------------------------------------------------
(* The worker: apps/worker/main.py and jobs/process_video.py.               *)

\* Variant: the message is read and left on the list.
Dequeue_Peeks(w) ==
    /\ worker[w].pc = "idle"
    /\ queue # <<>>
    /\ worker' = [worker EXCEPT ![w] = [pc |-> "dequeued", run |-> Head(queue),
                                        seen |-> "absent"]]
    /\ UNCHANGED <<rows, queue, events, api, faults>>

\* BLPOP: the message leaves Redis before any work is done on it.
Dequeue(w) ==
    /\ worker[w].pc = "idle"
    /\ queue # <<>>
    /\ queue' = Tail(queue)
    /\ worker' = [worker EXCEPT ![w] = [pc |-> "dequeued", run |-> Head(queue),
                                        seen |-> "absent"]]
    /\ UNCHANGED <<rows, events, api, faults>>

\* Variant: a run waits until no other run of its video is being processed.
LoadRows_Waits(w) ==
    LET r == worker[w].run IN
    /\ worker[w].pc = "dequeued"
    /\ videoStatus[runVideo[r]] # "processing"
    /\ worker' = [worker EXCEPT ![w].pc = "loaded", ![w].seen = videoStatus[runVideo[r]]]
    /\ UNCHANGED <<rows, queue, events, api, faults>>

\* db.get of the Job, the Video and the run; a missing row ends the handler.
LoadRows(w) ==
    LET r == worker[w].run IN
    /\ worker[w].pc = "dequeued"
    /\ worker' = IF jobStatus[r] = "absent" THEN [worker EXCEPT ![w] = WorkerIdle]
                 ELSE [worker EXCEPT ![w].pc = "loaded",
                                     ![w].seen = videoStatus[runVideo[r]]]
    /\ UNCHANGED <<rows, queue, events, api, faults>>

\* The rows written by the "running" commit.  SQLAlchemy emits no UPDATE for a
\* column set to the value it was loaded with: a Video seen as processing is left
\* as it is by then, whatever another worker committed in between.
MarkRows(r, seen) ==
    /\ jobStatus' = [jobStatus EXCEPT ![r] = "running"]
    /\ runStatus' = [runStatus EXCEPT ![r] = "running"]
    /\ videoStatus' = IF seen = "processing" THEN videoStatus
                      ELSE [videoStatus EXCEPT ![runVideo[r]] = "processing"]
    /\ UNCHANGED <<runVideo, outputs>>

\* Variant: the Job is given the run's terminal status.
CompleteRows_WrongEnum(r) ==
    /\ jobStatus' = [jobStatus EXCEPT ![r] = "completed"]
    /\ runStatus' = [runStatus EXCEPT ![r] = "completed"]
    /\ videoStatus' = [videoStatus EXCEPT ![runVideo[r]] = "ready"]
    /\ outputs' = outputs \cup {r}
    /\ UNCHANGED runVideo

\* The rows written by the final commit: artifacts, statuses and usage together.
CompleteRows(r) ==
    /\ jobStatus' = [jobStatus EXCEPT ![r] = "done"]
    /\ runStatus' = [runStatus EXCEPT ![r] = "completed"]
    /\ videoStatus' = [videoStatus EXCEPT ![runVideo[r]] = "ready"]
    /\ outputs' = outputs \cup {r}
    /\ UNCHANGED runVideo

\* Variants of the except block: the Job is left running; the Video is left
\* processing; the artifact rows already added to the session go out too.
ErrorRows_ForgetsJob(r) ==
    /\ runStatus' = [runStatus EXCEPT ![r] = "error"]
    /\ videoStatus' = [videoStatus EXCEPT ![runVideo[r]] = "error"]
    /\ UNCHANGED <<runVideo, jobStatus, outputs>>

ErrorRows_ForgetsVideo(r) ==
    /\ jobStatus' = [jobStatus EXCEPT ![r] = "error"]
    /\ runStatus' = [runStatus EXCEPT ![r] = "error"]
    /\ UNCHANGED <<videoStatus, runVideo, outputs>>

ErrorRows_KeepsArtifacts(r) ==
    /\ jobStatus' = [jobStatus EXCEPT ![r] = "error"]
    /\ runStatus' = [runStatus EXCEPT ![r] = "error"]
    /\ videoStatus' = [videoStatus EXCEPT ![runVideo[r]] = "error"]
    /\ outputs' = outputs \cup {r}
    /\ UNCHANGED runVideo

\* The rows written by the commit in the handler's except block.
ErrorRows(r) ==
    /\ jobStatus' = [jobStatus EXCEPT ![r] = "error"]
    /\ runStatus' = [runStatus EXCEPT ![r] = "error"]
    /\ videoStatus' = [videoStatus EXCEPT ![runVideo[r]] = "error"]
    /\ UNCHANGED <<runVideo, outputs>>

MarkRunning(w) ==
    /\ worker[w].pc = "loaded"
    /\ MarkRows(worker[w].run, worker[w].seen)
    /\ WorkerGoes(w, "marked")
    /\ UNCHANGED <<queue, events, api, faults>>

PublishRunning(w) ==
    /\ worker[w].pc = "marked"
    /\ Publish(worker[w].run, "running")
    /\ WorkerGoes(w, "pipeline")
    /\ UNCHANGED <<rows, queue, api, faults>>

\* Variant: the exception is not caught by the handler.
PipelineRaises_Uncaught(w) ==
    /\ worker[w].pc = "pipeline"
    /\ WorkerDone(w)
    /\ UNCHANGED <<rows, queue, events, api, faults>>

\* Anything between the source check and the last blob raises.
PipelineRaises(w) ==
    /\ worker[w].pc = "pipeline"
    /\ WorkerGoes(w, "raised")
    /\ UNCHANGED <<rows, queue, events, api, faults>>

CommitCompleted(w) ==
    /\ worker[w].pc = "pipeline"
    /\ CompleteRows(worker[w].run)
    /\ WorkerGoes(w, "finished")
    /\ UNCHANGED <<queue, events, api, faults>>

CommitError(w) ==
    /\ worker[w].pc = "raised"
    /\ ErrorRows(worker[w].run)
    /\ WorkerGoes(w, "failed")
    /\ UNCHANGED <<queue, events, api, faults>>

\* Variants: every verdict is announced as completed; a failure is not announced.
PublishVerdict_AlwaysCompleted(w) ==
    /\ worker[w].pc \in {"finished", "failed"}
    /\ Publish(worker[w].run, "completed")
    /\ WorkerDone(w)
    /\ UNCHANGED <<rows, queue, api, faults>>

PublishVerdict_SilentFailure(w) ==
    /\ \/ worker[w].pc = "finished" /\ Publish(worker[w].run, "completed")
       \/ worker[w].pc = "failed" /\ UNCHANGED events
    /\ WorkerDone(w)
    /\ UNCHANGED <<rows, queue, api, faults>>

\* The completed or failed event; then back to the top of run_worker's loop.
PublishVerdict(w) ==
    /\ \/ worker[w].pc = "finished" /\ Publish(worker[w].run, "completed")
       \/ worker[w].pc = "failed" /\ Publish(worker[w].run, "failed")
    /\ WorkerDone(w)
    /\ UNCHANGED <<rows, queue, api, faults>>

\* libs.usage.emit logs a failed flush and returns, but SQLAlchemy has rolled the
\* transaction back and refuses every later statement until rollback() is called.
UsageFlushFails(w) ==
    /\ Fault("flush")
    /\ worker[w].pc = "pipeline"
    /\ WorkerGoes(w, "poisoned")
    /\ UNCHANGED <<rows, queue, events, api>>

\* The final commit raises, and so does the commit of the except block, which
\* is reached with no rollback; run_worker logs the exception and goes on.
PoisonedCommitRaises(w) ==
    /\ worker[w].pc = "poisoned"
    /\ WorkerDone(w)
    /\ UNCHANGED <<rows, queue, events, api, faults>>

\* A statement raises in the worker; the commit it belongs to is applied or not.
\* enqueue_run_event logs the failure of its own SELECT, but the transaction is
\* aborted by it, and nothing the handler does later can commit.
WorkerDatabaseFails(w) ==
    LET r == worker[w].run IN
    /\ Fault("database")
    /\ \/ worker[w].pc \notin {"idle", "poisoned"} /\ UNCHANGED rows
       \/ worker[w].pc = "loaded" /\ MarkRows(r, worker[w].seen)
       \/ worker[w].pc = "raised" /\ ErrorRows(r)
       \/ worker[w].pc = "pipeline" /\ CompleteRows(r)
    /\ WorkerDone(w)
    /\ UNCHANGED <<queue, events, api>>

\* Pushing an event raises and it is lost (one that was applied is PublishRunning or
\* PublishVerdict); enqueue_run_event logs the error and the handler goes on.
WorkerRedisFails(w) ==
    /\ Fault("redis")
    /\ \/ worker[w].pc = "marked" /\ WorkerGoes(w, "pipeline")
       \/ worker[w].pc \in {"finished", "failed"} /\ WorkerDone(w)
    /\ UNCHANGED <<rows, queue, events, api>>

WorkerCrash(w) ==
    /\ Fault("crash")
    /\ worker[w].pc # "idle"
    /\ WorkerDone(w)
    /\ UNCHANGED <<rows, queue, events, api>>

WorkerStep(w) ==
    \/ Dequeue(w) \/ LoadRows(w) \/ MarkRunning(w) \/ PublishRunning(w)
    \/ PipelineRaises(w) \/ CommitCompleted(w) \/ CommitError(w)
    \/ PublishVerdict(w) \/ PoisonedCommitRaises(w)

-----------------------------------------------------------------------------
Next ==
    \/ \E v \in Videos : UploadInit(v)
    \/ \E c \in Clients, v \in Videos, r \in Runs :
          UploadVideo(c, v, r) \/ ReprocessVideo(c, v, r)
    \/ \E c \in Clients : ApiStep(c) \/ ApiRedisFails(c) \/ ApiCrash(c)
    \/ \E w \in Workers :
          \/ WorkerStep(w)
          \/ UsageFlushFails(w) \/ WorkerDatabaseFails(w)
          \/ WorkerRedisFails(w) \/ WorkerCrash(w)

Spec == Init /\ [][Next]_vars

\* A started request and a worker keep executing: the server and run_worker are
\* loops and the pipeline is a finite computation.  Nothing obliges a client to
\* send a request, and nothing obliges a fault to happen.
Fairness ==
    /\ \A c \in Clients : WF_vars(ApiStep(c))
    /\ \A w \in Workers : WF_vars(WorkerStep(w))

FairSpec == Spec /\ Fairness

-----------------------------------------------------------------------------
(* Who is responsible for a run.                                            *)

ApiHolds(c, r)    == api[c].pc = "committed" /\ api[c].run = r
QueueHolds(r)     == \E i \in 1..Len(queue) : queue[i] = r
WorkerHolds(w, r) == worker[w].pc # "idle" /\ worker[w].run = r

Held(r) ==
    \/ \E c \in Clients : ApiHolds(c, r)
    \/ QueueHolds(r)
    \/ \E w \in Workers : WorkerHolds(w, r)

Unfinished(r) == runStatus[r] \in {"pending", "running"}

\* A run that waits for ever: its rows say it is coming, and no process or message
\* will ever take it up (nothing in the repository scans for such rows).
Stranded(r) == Unfinished(r) /\ ~Held(r)

(***************************************************************************)
(* Safety.                                                                 *)
(***************************************************************************)

\* The three records of one run never disagree, whatever commit was lost: Job and
\* ProcessingRun move together, and Artifact rows with their usage events exist
\* exactly for completed runs (process_video.py commits them in one transaction).
RowsAgree ==
    \A r \in Runs :
        /\ runStatus[r] = "absent"    <=> jobStatus[r] = "absent"
        /\ runStatus[r] = "pending"   <=> jobStatus[r] = "queued"
        /\ runStatus[r] = "running"   <=> jobStatus[r] = "running"
        /\ runStatus[r] = "completed" <=> jobStatus[r] = "done"
        /\ runStatus[r] = "error"     <=> jobStatus[r] = "error"
        /\ r \in outputs <=> runStatus[r] = "completed"

\* The status a run has while somebody holds it: a message names a committed row
\* that nobody started, and a worker's place in the handler matches the row.
HolderStatus ==
    /\ \A c \in Clients : api[c].pc = "committed" => runStatus[api[c].run] = "pending"
    /\ \A i \in 1..Len(queue) : runStatus[queue[i]] = "pending"
    /\ \A w \in Workers :
          LET status == runStatus[worker[w].run] IN
          /\ worker[w].pc \in {"dequeued", "loaded"} => status = "pending"
          /\ worker[w].pc \in {"marked", "pipeline", "raised", "poisoned"} => status = "running"
          /\ worker[w].pc = "finished" => status = "completed"
          /\ worker[w].pc = "failed" => status = "error"

\* A run is handled at most once: it is with one request, in one place of the
\* queue or with one worker, never in two of them (enqueue after commit, BLPOP).
SingleHolder ==
    /\ \A i, j \in 1..Len(queue) : queue[i] = queue[j] => i = j
    /\ \A c, d \in Clients : \A r \in Runs : ApiHolds(c, r) /\ ApiHolds(d, r) => c = d
    /\ \A w, x \in Workers : \A r \in Runs : WorkerHolds(w, r) /\ WorkerHolds(x, r) => w = x
    /\ \A r \in Runs :
          /\ \A c \in Clients : ~(ApiHolds(c, r) /\ QueueHolds(r))
          /\ \A w \in Workers : ~(QueueHolds(r) /\ WorkerHolds(w, r))
          /\ \A c \in Clients, w \in Workers : ~(ApiHolds(c, r) /\ WorkerHolds(w, r))

\* Without a fault no run is lost between commit, queue and worker.
NoRunLostWithoutFault == faults = 0 => \A r \in Runs : ~Stranded(r)

RunsOf(v) == {r \in Runs : runStatus[r] # "absent" /\ runVideo[r] = v}

\* Video.status is shared by all the runs of a video and the last commit wins, yet
\* it is never made up: processing needs a run marked running, ready a completed
\* run, error a failed one, and once every run of the video has ended the video
\* shows a verdict and not "processing" or "pending".
VideoStatusEarned ==
    \A v \in Videos :
        /\ videoStatus[v] = "processing" => \E r \in RunsOf(v) : runStatus[r] = "running"
        /\ videoStatus[v] = "ready" => \E r \in RunsOf(v) : runStatus[r] = "completed"
        /\ videoStatus[v] = "error" => \E r \in RunsOf(v) : runStatus[r] = "error"
        /\ (RunsOf(v) # {} /\ \A r \in RunsOf(v) : ~Unfinished(r))
              => videoStatus[v] \in {"ready", "error"}

\* A subscriber is never told of something that is not committed, nor of two
\* verdicts for one run: every event is published after the commit it reports.
EventsTruthful ==
    \A r \in Runs :
        /\ "created" \in events[r] => runStatus[r] # "absent"
        /\ "running" \in events[r] => runStatus[r] \notin {"absent", "pending"}
        /\ "completed" \in events[r] => runStatus[r] = "completed"
        /\ "failed" \in events[r] => runStatus[r] = "error"

\* The runs, seen from outside, follow the contract: one edge of one run per step,
\* terminal runs never move again, outputs appear with completion.
Contract == INSTANCE RunContract WITH status <- runStatus, published <- outputs

ImplementsContract == Contract!Spec

\* No retry, no sweeper: a stranded run stays stranded, and its row stays as it is.
NothingRecoversARun ==
    [][\A r \in Runs : Stranded(r) => Stranded(r)' /\ runStatus'[r] = runStatus[r]]_vars

(***************************************************************************)
(* Liveness.                                                               *)
(***************************************************************************)

\* Under every fault, a run whose rows are committed ends, or is stranded by a
\* fault: nobody holds it for ever, and the queue starves nobody.
EveryRunEndsOrIsStranded ==
    \A r \in Runs : (runStatus[r] # "absent") ~>
        (runStatus[r] \in {"completed", "error"} \/ Stranded(r))

(***************************************************************************)
(* What libs/usage.py says of emit ("fire-and-forget safe"): metering that *)
(* fails does not cost a run its verdict.                                  *)
(***************************************************************************)
MeteringNeverStrandsARun == \A r \in Runs : ~Stranded(r)
=============================================================================

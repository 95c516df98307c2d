# MotionState in TLA+

MotionState takes a video, runs a computer-vision pipeline over it in the background, keeps
the results of every run as artifacts, and tells subscribers over webhooks how runs end. This
directory models the parts of it whose correctness depends on order: which process does what
when, what is in the database, in Redis and on disk in between, and what happens when one of
them fails there. Paths below are relative to the repository unless they name a module.

## 1. The system

One or more API processes (FastAPI, `apps/api`) and one or more worker processes
(`apps/worker/main.py`) share a Postgres database, one Redis list (`motionstate:jobs`) and an
artifact store (a directory, or S3). There is no other channel between them: no lock, no
heartbeat, no acknowledgement of a message, and no task that looks for work left behind.

| Component | State it keeps | Operations |
|---|---|---|
| Runs: `routes/videos.py`, `jobs/process_video.py`, `libs/queue.py` | `Video.status`, `ProcessingRun.status`, `Job.status`, artifact rows, the list | upload, upload-init, reprocess; enqueue, dequeue; mark running, pipeline, commit of a verdict |
| Quotas and metering: `libs/quotas.py`, `libs/usage.py`, `libs/auth.py` | limits and suspension of a project, `usage_events`, `ApiKey.last_used_at` | authenticate, `check_quota`, `emit`, the reports |
| Webhooks: `libs/webhooks.py`, `jobs/deliver_webhook.py`, `routes/webhooks.py` | endpoints, their timestamps, messages with a retry counter | create, patch, delete; publish an event; deliver, stamp, charge, retry |
| Artifacts: `libs/artifacts.py`, `libs/storage`, `libs/video/frames.py` | files under keys that name the video, rows that name a run | save, commit rows, find the latest run, read |
| Pipeline: `libs/pipeline/*` | of one run only: active tracks, poses, features | detect, track, pose, derive features, segment |
| Clips, ffmpeg: `libs/video/*` | files | normalise, extract frames, cut |
| Projects, keys, admin and job routes, health | rows | single inserts and queries |
| SDK: `sdk/python` | none | calls, and polling of a run until it ends |

**How they interact.** A request commits its rows, then pushes the job's message, then
publishes `created` (a query for the endpoints and one push for each). A worker pops a message,
which removes it, and handles it to the end: it loads the rows, commits `running`, publishes,
runs the pipeline, saves every artifact, commits artifact rows, statuses and usage in one
transaction, and publishes the verdict. Webhook messages travel in the same list and are
handled by the same workers. `check_quota` reads what other requests and workers have
committed; `get_latest_artifact` reads rows that workers commit and files that they overwrite.

**What is hard.** Each arrow above is a gap: a process may die in it, Redis or the database may
raise in it with the effect applied or not, and others run in it. Rows of one run are shared
by nobody, but `Video.status`, the files and the frames of a video are shared by all its
runs, and two may be processed at once. A check and the insert it should guard are seconds
apart. A retry must not repeat what already succeeded. The list of 38 hazards, each at its
line with the properties aimed at it, is in `PROJECT.json`.

**What makes each component correct.**

- *Runs*: a run is created, starts and ends at most once, in that order, and its outputs appear
  in the step that completes it; run, job and outputs never disagree; a message is with one
  process only; events say nothing that the rows do not; without a fault every run ends, and
  with one it may be stranded but is never half done.
- *Quotas*: how far a limit can be passed in the worst race, and that a key's row lock is
  always given back.
- *Webhooks*: a delivery is carried by one message at a time, has at most four POSTs, is
  charged once if it was acknowledged, is never sent again after that, and ends. Retries
  delay the runs in the same list by no more than one attempt each.
- *Artifacts*: a row leads to a file and a timeline to its clips; runs that do not overlap leave
  no mixture; a reader is not served a run that had already been replaced; a run analyses its
  own frames, and of others at most those beyond its own.
- *SDK*: a wait ends; what it returns is final, and a timeout is neither early nor about a run
  that had ended in time.
- *Tracker*: identities partition the detections and live exactly as long as `max_age` says.
- *Segments*: they tile the time, and labels and counts are what the poses say.

## 2. Modules

| Module | Models | Extends / used by |
|---|---|---|
| `RunContract` | what a run promises, with no process in sight (abstract) | instantiated by `RunLifecycle` |
| `RunLifecycle` | requests, queue, workers, rows, events, faults | implements `RunContract` |
| `RunWait` | a client that waits for a run through the API | extends `RunLifecycle` |
| `RunLifecycleProofs` | the theorems about `RunLifecycle` and `RunWait` | extends `RunWait` |
| `QuotaAdmission`, `QuotaAdmissionProofs` | requests of a project against its quotas; theorems | |
| `DeliveryContract` | what a delivery promises an endpoint and a bill (abstract) | instantiated by `WebhookDelivery` |
| `WebhookDelivery`, `WebhookDeliveryProofs` | endpoints, publishers, the webhook messages, delivery and retry; theorems | implements `DeliveryContract`; its events are the elements of `RunLifecycle.events` |
| `Lists`, `ListProofs` | a list comprehension with a condition; what it returns, induction and recursion | used by `SharedQueue` and `Tracker`; its lemmas by `MotionSegmentsProofs` too |
| `SharedQueue`, `SharedQueueProofs` | the one list and the workers that runs and deliveries share; theorems | composes `RunLifecycle` and `WebhookDelivery`, and their proofs, by INSTANCE |
| `ArtifactStore`, `ArtifactStoreProofs` | files, clips, rows, frames, workers and readers of one video; theorems | takes up the worker inside `RunLifecycle`'s "pipeline" step |
| `Tracker`, `TrackerProofs` | `IOUTracker` over the frames of a video; theorems | |
| `MotionSegments`, `MotionSegmentsProofs` | poses, features, windows, labels, merging; theorems | its tracks are what `Tracker` identifies |
| `MC*` | constants, symmetry and small data for TLC | one for each |

The names of actions and variables are those of the code where it has one.

**RunLifecycle.** `videoStatus`, `runStatus`, `jobStatus`, `runVideo`, `outputs` are committed
columns; what is not committed is not in the state, because a crash or a rollback removes it.
`api[c]` says how far a request is after its commit, `worker[w]` where `handle_process_video`
is. A commit that raises is applied or not, and so is a push. Two things in the code
need care. SQLAlchemy sends no UPDATE for a column that is set to the value it was loaded
with, so a worker that loaded a video as `processing` does not write it (`MarkRows`). And
`usage.emit` swallows a failed flush, but the session refuses every later statement, so both
commits that follow raise (`UsageFlushFails`, `PoisonedCommitRaises`).
`redis` faults are those of a push; a failing BLPOP takes no message and is a delay.

**QuotaAdmission.** Postgres in READ COMMITTED: the UPDATE of `last_used_at` takes the lock of
the key's row at the next flush, before the project is read, and keeps it until the end of
the transaction. `usage_events.created_at` is the start of the transaction; the month compared
with the limit is the clock's when `check_quota` runs. `straddled` and `slipped` are history
variables, used only by properties.

**WebhookDelivery.** `publisher[v]` is `enqueue_run_event` between its query and its last
push; `worker[w]` is `handle_deliver_webhook`, whose timestamp and usage are written in
sessions of their own and fail on their own. `posts` and `outcome` are history. Seen through
`outcome`, `posts` and `usage`, the module implements `DeliveryContract`, in which there are
only a delivery's state, its attempts and the charges of its endpoint: a delivery is addressed
once, attempted while it is open, and ends in one of acknowledged, skipped, given up or lost.
Lost is not a value of `outcome`: the mapping calls an open delivery lost when no publisher,
message or worker carries it any more.

**SharedQueue.** `RunLifecycle` keeps the jobs of the list and `WebhookDelivery` its deliveries,
each as if the other were not there. Here `list` is the one Redis list, in which a job is the
id of its run and a delivery is `WebhookDelivery`'s message, and the two modules are instances
with `queue` replaced by the part of the list that is theirs and the worker's place in each
handler by `worker` and `courier`. Every step is a step of one of them, or of both: the step
with which a process adds an event to `events` is `SelectEndpoints` of that event, and that
process goes on only when it has pushed the last message (`Announcing`). A worker takes what is
first, and only when both handlers are at rest. `overtaken` is history: which deliveries were
taken from the list while a run waited on it.

**RunWait.** `waiter[m]` is a call of `wait_for_run_completion`: where it is in a round, what its
last answer said, and its own monotonic clock, in units in which nothing else is measured.
The clock advances by the time a request takes, at most `MaxLatency`, and by `PollInterval`
for each sleep, and starts at the deadline's computation. The ids are the caller's, so the run
may be of another video or not exist yet, and the video may not exist. `early` is history.

**ArtifactStore.** One video: `file[f]` tells which run wrote the file that the key leads to,
`Legacy` if it is older than runs, `Empty` if it was opened, and so truncated, and not written
since, and `Torn` if it holds part of a content or a mixture of two. `LocalStorage.save` is two
steps, the `open` and the write through an offset of its own. Between them another worker may
open the same file or write it: then the one that writes last may leave what is longer of the
other behind its own bytes (`Left`), and the file stays torn, with no fault and nobody
writing. `crossed` is history: the files that were last opened while another worker had them
open. `outdated` is history too: the runs that were over before the last completion, and
a reader keeps in `old` what it was when its request came. `frame[i]` tells the sampling rate under which `frame_i.jpg` was
extracted. A read is three queries and an `open`, with anything in between. A clip is cut by
ffmpeg into `clips/` under the name of its index and label, read back, and saved under a key
that, on the local backend, is the very file it was read from; `clip[r]` is the name that run
`r` uses, and two runs may use the same or different ones. The local backend is modelled; S3
puts a whole object at once, which is a save with no step in the middle. One clip and the
timeline manifest stand for all the files: the properties relate a first file and a later
one that names it, and the others are saved by the same code.

**Tracker, MotionSegments.** Sequential code over any input. `Update` covers the three branches
of `update` with one definition: with no active tracks or no detections the set of pairs is
empty. The candidates are a set of records and `Ranked` puts them in the one order that a stable
sort by descending score gives the list of the two loops: by score, and by place where scores are
equal. Boxes have integer coordinates and scores are exact fractions; a feature of a joint is
a point in time like the two that `MotionSegments` keeps (`keypoint_visibility_count`, and
`bbox_area`, which every pose has because it is estimated from a detection of its frame), and
with two features at every pose the default threshold of two is reached in any case. Floats may
round where fractions do not, so a score or a speed at its threshold exactly may be judged the
other way by the program; confidences are left out.

## 3. What the runs check

| Run | Instance | Shows |
|---|---|---|
| `lifecycle_safety` | 2 videos, 3 runs, 2 requests, 2 workers, 2 faults of four kinds | types, agreement of rows (`RowsAgree`), one holder (`SingleHolder`, `HolderStatus`), nothing lost without a fault, `VideoStatusEarned`, `EventsTruthful`, a stranded run stays stranded (`NothingRecoversARun`), and `ImplementsContract` |
| `lifecycle_live` | 1 video, 2 runs, 1 request, 2 workers, 1 fault, one call of the SDK (timeout 2, interval 2, latency up to 1) | every run ends or is stranded by a fault (`EveryRunEndsOrIsStranded`); the call ends (`WaitEnds`), with the run's final status (`ReturnedIsFinal`) or an honest timeout (`TimeoutIsHonest`) |
| `lifecycle_metering` | one flush fails | **violation**, see below |
| `quota_safety` | 4 requests, 2 keys, limit 1, storage 2, a change of month, a suspension | `UploadOvershootBounded`, `DoorHolds`, `LocksInUse` |
| `quota_uploads` | 2 requests, 2 keys | **violation**, see below |
| `webhook_safety` | 1 endpoint, 2 events, 2 workers, 4 attempts, 2 edits, 2 faults | `CarriedOnce`, `UsageMatchesAcks`, `StampsEarned`, and `ImplementsDelivery` |
| `queue_live` | 2 runs of a video, 1 request, 1 worker, 1 endpoint that subscribes to verdicts, 2 attempts, 1 edit, 1 fault | a retry never overtakes a waiting run (`RetriesStepAside`); every run and every delivery comes to its end (`EverythingEnds`); a verdict reaches the endpoint or is refused by it (`VerdictsReachEndpoints`) |
| `artifacts_safety` | 2 runs, 2 workers, 1 reader, 2 clip names, a change of rate, 2 faults | `NoDanglingRow`, `TimelineLeadsToClips`, `SerialRunIsWhole`, `ReadsAreFresh`, `StaleFramesAreSurplus` |
| `artifacts_pinned` | 2 runs, 1 worker, no fault | **violation**, see below |
| `artifacts_latest` | 2 runs, 2 workers, no fault | **violation**, see below |
| `tracker` | all videos of 4 frames, 2 detections of 3 boxes each, `max_age` 1 | `TracksPartitionDetections`, `ActiveIsRecent`, `NoBetterMatchRefused` |
| `segments` | all poses of 2 tracks in 4 frames, 2 places, up to 3 windows | `SegmentsTile`, `SparseIsUnseen`, `MotionIsSomebodys`, `CountsCoverFeatures` |

**Where code and documents disagree.**

1. `MeteringNeverStrandsARun`: `libs/usage.py:5` calls its functions "fire-and-forget safe". One
   failed flush inside `emit` makes the final commit and the one of the error path raise,
   and the run stays `running` with no message left.
2. `PinnedReadIsOwn`: `reprocess_video` says "artifacts from previous runs are never
   overwritten". `artifact_key` names no run: asked for run 1's artifact the API serves run 2's
   file.
3. `MonthlyUploadsWithinLimit`: uploads with two keys of one project both pass the check.
   `UploadOvershootBounded` is what does hold, and it is proved.
4. `LatestReadIsLastCompleted`: the README promises artifacts "from the most recently completed
   run" (`README.md:794`), and those rows come first by `Artifact.id` (`README.md:1228`).
   `get_latest_run` takes the highest id among the completed runs (`artifacts.py:61`). When run 2
   completes before run 1, readers get run 2's row and never run 1's. `ReadsAreFresh` says
   what holds under both readings: where the run with the highest id was also completed last, no
   row of a run over before it is served.

**Bounds, and why they are enough.** Races of this code are between two parties (two requests,
two workers, a worker and a reader), and a third run or request is there where a property
needs a bystander: a third run whose rows or message must not be touched, a third and fourth
request to exceed a bound of two keys. Two faults allow a failure of the error handling
itself, after which a process has stopped. `max_age` 1 and four frames allow a track to be missed,
matched again, dropped, and its place taken by another. Windows of 3 ms over frames at 0, 2, 4,
6 ms put poses at a window's start, inside it and at the end of the range, and leave windows
that only a motion spans. No average in this instance equals a threshold exactly, so that edge
is covered by the proof (`MotionEarned`) and by no run. Four attempts are the code's in
`webhook_safety`. In `queue_live` each step is one that the other runs explore with more processes; what is new there is the
order in the list, for which two runs, their verdicts and one retry are enough, and the one
worker, which has nobody to leave the rest to, is the hard case of starvation. Its
endpoint takes no `created` events, so `PushNext` is taken by workers only. A timeout and an
interval of two time units with requests of up to one let a run end before a poll,
during it, in the last sleep, and after the deadline. `MaxFaults`, `MaxEdits`,
`MaxRedeploys`, `MaxFrames`, `MaxDetections`, `MaxLatency`, `Months` and `Suspensions` are the
bounds of counters; `Runs`, `Requests`, `Events` are finite supplies of ids, and when they are used up
the system rests, which is why deadlock is not reported.
The runs of liveness use no symmetry.

**Fairness.** `WF` of each started request, publisher and worker: their code is straight-line or
a loop, a POST and an ffmpeg call have timeouts, and the pipeline is a finite computation. No
client is obliged to send a request, no endpoint to answer, no fault to happen, and no event to
be published. Strong fairness is assumed nowhere. The properties do not need the
order in which several workers are served. A call of the SDK has `WF` of its own steps: the API
answers or the request fails, both within the HTTP client's timeout, and `sleep` returns. The timeout of `httpx` is one of each
operation (connect, write, read) and not of the whole request: that a POST or a poll ends
is an assumption about the peer, that it does not feed the answer in drops for ever. That
the call ends follows from its own clock and not from the run, which may be stranded.

## 4. What is proved

TLAPS checks these for every value of the constants, under the named assumptions of the modules.

| Assumption | Says |
|---|---|
| `LifecycleAssumption` | the null values are not ids, the fault kinds are known, the bound is a number |
| `WaitAssumption` | what is awaited are runs, `PollInterval` is at least one unit |
| `QuotaAssumption` (`QuotaAdmission`) | the keys are a finite, non-empty set, limits and costs are numbers |
| `DeliveryAssumption` | at least one attempt, the bounds are numbers, the null value is not a delivery |
| `QueueAssumption` (`SharedQueue`) | those of its two parts; an id of a run is not a delivery message, a process is a request or a worker |
| `TrackerAssumption` | boxes have natural coordinates and sizes, the threshold is a fraction, the bounds are numbers |
| `SegmentsAssumption` (`MotionSegments`) | finitely many tracks; places are numbers; an interval and a window last a millisecond at least; the motion thresholds are non-negative fractions, the low one below the active one |
| `StoreAssumption` | ids of runs are positive numbers (the newest run is the one with the highest id); every file is saved once, a clip before the manifest that names it, as `handle_process_video` does; there is a clip name |

**RunLifecycle.** The invariants that the run checks are not inductive alone: a worker's
commit keeps `RowsAgree` only if the row has the status its place implies, and that holds only
while no other process has the same run. So
`IInv == TypeOK /\ RunsWellFormed /\ RowsAgree /\ HolderStatus /\ SingleHolder` is proved first
(`LifecycleInvariant`), with one lemma per way a step moves a run: committed rows, a push, a pop,
a handler that ends, moves on, or writes its rows. From it follow

- `TypeCorrect`, `RowsAlwaysAgree`, `HoldersMatchRows`, `RunHandledOnce`;
- `LifecycleImplementsContract`: initial states map to initial states, and each step is a step of
  `RunContract` on `runStatus` and `outputs`, or a stutter;
- `EventsAlwaysTruthful`, with `EInv`, which adds that a request's run is committed;
- `VideoStatusAlwaysEarned`, with `VInv`: a video with a started run is past `pending`, which is
  what the UPDATE that is not sent relies on;
- `StrandedForEver`: no step takes up a run that nobody holds;
- `NothingLostWithoutFault`, with `NInv`, which adds that only a fault poisons a session.

**RunWait.** `WaitingOnlyWatches` first: a call changes nothing of the system, so that
`WaitSpec => Spec` and every theorem of `RunLifecycle` holds with any number of callers. `WInv`
then says what a call knows at each place: a verdict that is on its way is the row's (verdicts
are final, and a run keeps its video), its clock stays below `Horizon`, and a run that had ended
early enough is reported by the next answer. `ReturnedStaysFinal` and
`TimeoutStaysHonest` follow. These proofs stand in `RunLifecycleProofs`, behind those they use;
where that module is instanced for `SharedQueue`, it is with no waiting client.

**QuotaAdmission.** `LInv` (types, known keys, `LocksInUse`), then two counts. `UploadsCounted`:
the uploads of a month, plus the keys whose holder is admitted and will add one, stay within the
bound. `SlippersCounted`: what slipped through a closed door, plus the keys whose holder still
can, is at most the number of keys. Counting keys and not requests is what makes them
inductive: a request is admitted only while it holds its key's lock. From them
`AdmissionTypes`, `LocksAlwaysInUse`, `OvershootAlwaysBounded` and `DoorAlwaysHolds`.

**WebhookDelivery.** `CarriedOnce` counts carriers, which no step preserves on sight.
`SingleCarrier` says instead that any two carriers of a delivery, be they a publisher's
remaining endpoint, a place in the queue or a worker, are the same one; `CarrierState` what the
carrier's place tells of `outcome` and `posts` (a message with retry `n` has had `n` posts);
`NothingLost` that without a fault an open delivery has a carrier. `UsageMatchesAcks` is about
cardinalities and needs that the acknowledgements and bookings are finite sets
(`FiniteBooks`). These, with `StampsEarned`, are `DeliveryInvariant`; from it `TypesKept`,
`DeliveriesCarriedOnce`, `UsageAlwaysMatchesAcks`, `StampsAlwaysEarned`, and
`DeliveryImplementsContract`, one lemma per action, where the hard half is that exactly the
steps that drop the last carrier of an open delivery map to `Lose`.

**SharedQueue.** Nothing is proved of the two parts again: `RP` and `DP` are their proof modules,
instanced over the shares they have of this state, and `PartsAssumed` discharges their
assumptions. What is new is the list. `ListProofs` shows what `Selected` returns for every list,
by an induction that needs no operator parameter: a set that holds 0 and the successor of what it
holds contains `Nat` (`Induction`, from the least element of a non-empty set), and with it that
recursions have solutions (`Iteration`). A push, a pop or neither on `list` is then a push, a pop
or neither on what each part sees, each step of `SharedQueue` is a step of `RunLifecycle`, of
`WebhookDelivery`, or of both, and `SharedInvariant` holds: both parts' invariants, and
`OvertakenStayBehind`, that what was taken while a run waits is nowhere in front of it.

- `RetriesAlwaysStepAside` is the action property of the run, from `OvertakenStayBehind`.
- `RunsSafeTogether` and `DeliveriesSafeTogether`: what was proved of the parts alone holds of them
  together.
- `EndpointsToldTheTruth` is about both, and about more than either can say: an event that was
  addressed to an endpoint is borne out by the run's committed row. It goes from the delivery to
  the publication (`BegunWasPublished`) and from there to the row (`RunLifecycle`'s `EInv`).

**ArtifactStore.** All six invariants of the run, from one that follows each worker through its
files. `Progress`: the files behind a worker are there, and its own unless runs have
overlapped. `WritesExplained`: an empty file is open in a worker; a worker that has a file open
which is not crossed is alone with it and finds it as opening left it; and so, without a fault, a
torn document is crossed, and a torn clip one of runs that overlapped. `Replaced`: a run that is
over and was there before the last completion has left no document behind unless runs overlapped,
which no later step undoes.
`WorkersOwnRuns`, `RunsWellFormed` and `WorkersWellFormed` tell what a worker holds at each step;
`RowsNamed` and `ManifestNamed` that the names kept in rows and in the manifest lead to
files that exist; `Serial` that without overlap the last run's files have stayed its own;
`FramesExplained` which run's frames are left in the directory under later ones; and
`ReadersWellFormed` what a reader knows between its queries. `FileOrder` is any order of any
files in which a clip precedes the manifest, and the number of frames of a configuration any number,
zero included.

**Tracker.** For any boxes, threshold and `max_age`, and any number of detections and frames. First
the algorithm: scores are totally ordered (a product of denominators cancels), so `Ranked` is a
permutation of the candidates in which none stands behind a worse one (`RankedSorts`: the place of
a candidate is the number of those before it, and no number is left out); the loop over them
leaves each candidate a place taken by it or by an earlier one (`GreedyTakes`, by `Induction`);
hence the pairs are one-to-one and no better match is refused (`GreedyMatchFacts`), and they and
the fresh detections share the frame out (`MatchingShares`). Then one update: a track gets one
detection of the frame or none (`Taking`), and every entry of the active set, before the old
ones are dropped, says when and where its track was last seen (`FrameEntries`). The invariants of
the run need one more part to be inductive, `History`: no track is empty and no
detection is of a frame to come, so that the new ones are the latest. From `TrackerInvariant`
follow `TrackerTypes`, `DetectionsPartitioned` and `ActiveAsSeen`, and with the facts about the
matching the action property, `BestMatchesTaken`.

**MotionSegments.** For any finite set of tracks, any places and thresholds, any interval, window
and number of frames. Only the poses change from state to state, and what must be inductive is
said of them (`IInv`: finitely many, typed, one of a track in a frame at most); all else is about what
`derive` and `segment` make of any such poses. Five arguments carry it.

- *The windows tile* (`BoundariesTile`): they begin with the earliest feature and end a
  millisecond behind the latest, so that every pose falls into one (`WindowOf`).
- *The features are two for each pose and one for each pair that moved*, counted one to one
  (`PointsOfSeen`, `SpeedsOfMoves`), whence what a window counts (`InsideCounts`).
- *An average lies between* (`AverageBetween`): the fold over the speeds is a recursion over
  subsets (`SubsetRecursion`), and a sum of `n` fractions below `q` is below `n * q`. If
  every speed of a window were below a threshold, so would the average be, and if none were,
  neither would the average.
- *The merge cuts the windows into runs* (`MergeAdjacentFacts`): the fold over the windows is a
  recursion over their places, each segment takes in one window after the other, and what is said
  of a segment and its first and last window need only be shown of one window and kept by one more
  (`Accumulates`). Neighbours differ because equal ones would have been merged.
- *A segment stands for its run* (`SegmentsStand`): it lasts from the first to the last, has the
  label of each, and counts the features of each pose in it once, since a pose is in one window,
  and a motion once at least and once for each window at most, since a motion may touch several.

From `PosesInvariant` follow `SegmentTypes`, `SegmentsAlwaysTile`, `NoPoseIsSparse`, `MotionEarned`
and `CountsBounded`: all five invariants of the run.

**Only model-checked.** Liveness and anything about ENABLED (`EveryRunEndsOrIsStranded`,
`WaitEnds`, `EverythingEnds`, `VerdictsReachEndpoints`): the prover has no rule for either. Every
invariant, action property and refinement that a passing run checks is also proved. The four
properties that runs show violated are refuted by TLC's counterexamples and need no proof.

## 5. Not modelled

- Neural networks, ffmpeg and its output, geometry of joints: computations without state. What
  they may return is the input of `Tracker` and `MotionSegments`, and that they may fail is a
  fault of `RunLifecycle` and `ArtifactStore`.
- Response shapes, settings, start-up, health, hashing of keys, signing of webhooks: data.
- Admin and job routes and the usage reports: queries that change nothing, of rows the other
  modules model, each in one transaction. Projects and keys: single inserts.
- `bootstrap.py` and `verify_deploy.py`: run once, by hand, against a system at rest.
- Source uploads: one write under a name that no other request uses, before the commit that
  makes the video known. A failure after it leaves a file that nothing names.
- The other methods of the SDK: one request each.
- The size of a write. A save writes all its bytes in one write of the file, as `aiofiles` does
  but for what the operating system splits; readers and other writers may come before or after.
- A worker that fails while it normalises leaves part of the video to one that reads it without
  normalising again, which only an overlapping run does: the properties about contents exclude
  overlap.
- Durations. A slow endpoint delays videos because both share a list; that the waiting ends is
  `EverythingEnds`, that it is one attempt for each delivery ahead is `RetriesStepAside`, how
  long an attempt takes is not said.

## 6. Observations without a run

Met while modelling; the code does it and no run singles it out:

- Two saves of one document, by runs of a video that overlap, may tear it for good: both open the
  file before either writes, the longer content lands first, and the shorter leaves its tail.
  The rows of both runs then name a file that is not JSON, until a run saves it alone. It is in
  the model, and `NoDanglingRow` says when it can be: the file is in `crossed`.
- A run that fails after it has saved some of its files leaves them under the rows of the last
  completed run. `README.md:800` says that "a failed reprocessing attempt never overwrites what
  downstream consumers see", which is true of the rows. The cause is that of
  `PinnedReadIsOwn`; `ReadsAreFresh` says only that what is read is nothing older.
- Two runs of a video that overlap may use one clip file. `process_video.py:309` calls the
  directory of the clips a "local temp dir", but it is the store's own directory of the video:
  one worker reads the clip back (`process_video.py:320`) while the other's ffmpeg has it
  open and truncated (`clips.py:88`), and saves what it read, for good and with no fault.
  `NoDanglingRow` and `TimelineLeadsToClips` therefore say less of clips when runs overlap.
- No caller passes `video_seconds` to `check_quota` (`videos.py:70, 199, 587`), so its comparison
  at `quotas.py:78` never runs, although `README.md:562` and `README.md:581` give a monthly limit
  of seconds. No race is needed to see it, so the model leaves seconds out.
- `client.py:309` gives `timeout` as the "Maximum seconds to wait before raising". The loop may
  exceed it by a sleep and a request, which is the bound `TimeoutIsHonest` states, and it
  raises `NotFoundError` or a connection's error at the first poll that fails.
- `fetch_latest_outputs` resolves "latest" anew for each of its requests, so that its result may
  mix two runs unless `run_id` is given; and then `PinnedReadIsOwn` does not hold either.

## 7. How it grew, and what is left

Modules were written in the order of how much depends on them: runs, quotas, webhooks,
artifacts, the pipeline's two stateful algorithms, then the client, the abstract
delivery and the composition over the shared list. The proofs followed the same order, and none
of the plan's are left open.

What would be worth doing next is outside of what is modelled: the floats of the segmenter and the
tracker, whose rounding the fractions here do not have, and the S3 backend, whose saves have no
step in the middle.

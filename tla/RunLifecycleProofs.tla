------------------------ MODULE RunLifecycleProofs ------------------------
(***************************************************************************)
(* RunLifecycle for every set of videos, runs, requests and workers, every *)
(* choice of faults and every bound on them: type correctness, the         *)
(* agreement of the rows, one holder per run, and what the steps may do.   *)
(*                                                                         *)
(* And what a call of wait_for_run_completion may rely on, for any number  *)
(* of calls beside any such system, any timeout, poll interval and latency: *)
(* a status it returns is final, and a timeout it raises is neither early, *)
(* nor late, nor about a run that had long ended.                          *)
(***************************************************************************)
EXTENDS RunWait, SequenceTheorems, TLAPS

\* Appending to a sequence keeps its elements where they are.
LEMMA AppendFacts ==
    ASSUME NEW S, NEW s \in Seq(S), NEW e \in S
    PROVE  /\ Append(s, e) \in Seq(S)
           /\ Len(Append(s, e)) = Len(s) + 1
           /\ \A i \in 1..Len(s) : Append(s, e)[i] = s[i]
           /\ Append(s, e)[Len(s) + 1] = e
  OBVIOUS

\* Removing the head of a non-empty sequence shifts the rest by one.
LEMMA TailFacts ==
    ASSUME NEW S, NEW s \in Seq(S), s # <<>>
    PROVE  /\ Len(s) \in Nat \ {0}
           /\ Head(s) \in S
           /\ Head(s) = s[1]
           /\ Tail(s) \in Seq(S)
           /\ Len(Tail(s)) = Len(s) - 1
           /\ \A i \in 1..Len(s) - 1 : Tail(s)[i] = s[i + 1]
  OBVIOUS

ApiType    == [Clients -> [pc : ApiPcs, run : Runs \cup {NoRun}]]
WorkerType == [Workers -> [pc : WorkerPcs, run : Runs \cup {NoRun}, seen : VideoStatuses]]

\* Moving a request, ending it, moving a worker, ending its handler: what changes.
LEMMA ApiGoesFacts ==
    ASSUME TypeOK, NEW c \in Clients, NEW pc \in ApiPcs, ApiGoes(c, pc)
    PROVE  /\ api' \in ApiType
           /\ api'[c].pc = pc
           /\ api'[c].run = api[c].run
           /\ \A d \in Clients : d # c => api'[d] = api[d]
  BY DEF TypeOK, ApiType, ApiGoes

LEMMA ApiDoneFacts ==
    ASSUME TypeOK, NEW c \in Clients, ApiDone(c)
    PROVE  /\ api' \in ApiType
           /\ api'[c].pc = "ready"
           /\ \A d \in Clients : d # c => api'[d] = api[d]
  BY DEF TypeOK, ApiType, ApiDone, ApiReady, ApiPcs

LEMMA WorkerGoesFacts ==
    ASSUME TypeOK, NEW w \in Workers, NEW pc \in WorkerPcs, WorkerGoes(w, pc)
    PROVE  /\ worker' \in WorkerType
           /\ worker'[w].pc = pc
           /\ worker'[w].run = worker[w].run
           /\ \A x \in Workers : x # w => worker'[x] = worker[x]
  BY DEF TypeOK, WorkerType, WorkerGoes

LEMMA WorkerDoneFacts ==
    ASSUME TypeOK, NEW w \in Workers, WorkerDone(w)
    PROVE  /\ worker' \in WorkerType
           /\ worker'[w].pc = "idle"
           /\ \A x \in Workers : x # w => worker'[x] = worker[x]
  BY DEF TypeOK, WorkerType, WorkerDone, WorkerIdle, WorkerPcs, VideoStatuses

\* Requests and workers that are under way name a run, and a row that exists
\* names a video.
RunsWellFormed ==
    /\ \A c \in Clients : api[c].pc # "ready" => api[c].run \in Runs
    /\ \A w \in Workers : worker[w].pc # "idle" => worker[w].run \in Runs
    /\ \A r \in Runs : runStatus[r] # "absent" => runVideo[r] \in Videos

IInv == TypeOK /\ RunsWellFormed /\ RowsAgree /\ HolderStatus /\ SingleHolder

LEMMA InitIInv == Init => IInv
  <1> SUFFICES ASSUME Init PROVE IInv
    OBVIOUS
  <1> USE LifecycleAssumption
  <1>1. TypeOK
    BY DEF Init, TypeOK, ApiReady, WorkerIdle, VideoStatuses, JobStatuses, RunStatuses,
           EventTypes, ApiPcs, WorkerPcs
  <1>2. RunsWellFormed
    BY DEF Init, RunsWellFormed, ApiReady, WorkerIdle
  <1>3. RowsAgree
    BY DEF Init, RowsAgree
  <1>4. HolderStatus
    BY DEF Init, HolderStatus, ApiReady, WorkerIdle
  <1>5. SingleHolder
    BY DEF Init, SingleHolder, ApiHolds, QueueHolds, WorkerHolds, ApiReady, WorkerIdle
  <1> QED BY <1>1, <1>2, <1>3, <1>4, <1>5 DEF IInv

LEMMA CommitStep ==
    ASSUME IInv, NEW c \in Clients, NEW v \in Videos, NEW r \in Runs,
           UploadVideo(c, v, r) \/ ReprocessVideo(c, v, r)
    PROVE  IInv'
  <1> USE DEF IInv
  <1>0. CommitRunAndJob(c, v, r) /\ videoStatus' \in [Videos -> VideoStatuses]
    BY DEF UploadVideo, ReprocessVideo, TypeOK, VideoStatuses
  <1>1. TypeOK'
    <2>1. api' \in [Clients -> [pc : ApiPcs, run : Runs \cup {NoRun}]]
      BY <1>0 DEF CommitRunAndJob, TypeOK, ApiPcs
    <2>2. /\ runVideo' \in [Runs -> Videos \cup {NoVideo}]
          /\ runStatus' \in [Runs -> RunStatuses]
          /\ jobStatus' \in [Runs -> JobStatuses]
      BY <1>0 DEF CommitRunAndJob, TypeOK, RunStatuses, JobStatuses
    <2> QED BY <1>0, <2>1, <2>2 DEF CommitRunAndJob, TypeOK
  <1>2. RunsWellFormed'
    <2>1. \A d \in Clients : api'[d].pc # "ready" => api'[d].run \in Runs
      BY <1>0 DEF CommitRunAndJob, TypeOK, RunsWellFormed
    <2> QED BY <1>0, <2>1 DEF CommitRunAndJob, TypeOK, RunsWellFormed
  <1>3. RowsAgree'
    BY <1>0 DEF CommitRunAndJob, TypeOK, RowsAgree
  <1>4. HolderStatus'
    BY <1>0 DEF CommitRunAndJob, TypeOK, HolderStatus, RunsWellFormed
  <1>5. SingleHolder'
    <2>1. /\ ~QueueHolds(r)
          /\ \A d \in Clients : ~ApiHolds(d, r)
          /\ \A w \in Workers : ~WorkerHolds(w, r)
      BY <1>0 DEF CommitRunAndJob, HolderStatus, QueueHolds, ApiHolds, WorkerHolds, TypeOK, WorkerPcs
    <2>2. /\ \A q \in Runs : QueueHolds(q)' <=> QueueHolds(q)
          /\ \A w \in Workers, q \in Runs : WorkerHolds(w, q)' <=> WorkerHolds(w, q)
          /\ \A d \in Clients, q \in Runs : ApiHolds(d, q)' <=> ApiHolds(d, q) \/ (d = c /\ q = r)
      BY <1>0 DEF CommitRunAndJob, QueueHolds, ApiHolds, WorkerHolds, TypeOK
    <2> QED BY <1>0, <2>1, <2>2 DEF CommitRunAndJob, SingleHolder
  <1> QED BY <1>1, <1>2, <1>3, <1>4, <1>5

LEMMA UploadInitStep ==
    ASSUME IInv, NEW v \in Videos, UploadInit(v)
    PROVE  IInv'
  BY DEF IInv, UploadInit, TypeOK, VideoStatuses, RunsWellFormed, RowsAgree, HolderStatus,
         SingleHolder, ApiHolds, QueueHolds, WorkerHolds

\* What every step keeps of the two variables the invariant does not relate to others.
SideTyped == events' \in [Runs -> SUBSET EventTypes] /\ faults' \in 0..MaxFaults

\* A fault stays within its bound.
LEMMA FaultTyped ==
    ASSUME IInv, NEW k, Fault(k)
    PROVE  faults' \in 0..MaxFaults
  BY LifecycleAssumption DEF IInv, TypeOK, Fault

\* Publishing an event of a run keeps the type of events.
LEMMA PublishTyped ==
    ASSUME IInv, NEW r \in Runs, NEW k \in EventTypes, Publish(r, k)
    PROVE  events' \in [Runs -> SUBSET EventTypes]
  BY DEF IInv, TypeOK, Publish

\* A request ends: its answer is sent, Redis failed, or the process died.
LEMMA RequestEnds ==
    ASSUME IInv, NEW c \in Clients, ApiDone(c), UNCHANGED <<rows, queue, worker>>, SideTyped
    PROVE  IInv'
  <1> USE DEF IInv
  <1>1. TypeOK'
    <2>1. api' \in [Clients -> [pc : ApiPcs, run : Runs \cup {NoRun}]]
      BY DEF ApiDone, ApiReady, TypeOK, ApiPcs
    <2> QED BY <2>1 DEF TypeOK, rows, SideTyped
  <1>2. RunsWellFormed'
    BY DEF RunsWellFormed, ApiDone, ApiReady, TypeOK, rows
  <1>3. RowsAgree'
    BY DEF RowsAgree, rows
  <1>4. HolderStatus'
    BY DEF HolderStatus, ApiDone, ApiReady, TypeOK, rows
  <1>5. SingleHolder'
    <2>1. /\ \A q \in Runs : QueueHolds(q)' <=> QueueHolds(q)
          /\ \A w \in Workers, q \in Runs : WorkerHolds(w, q)' <=> WorkerHolds(w, q)
          /\ \A d \in Clients, q \in Runs : ApiHolds(d, q)' => ApiHolds(d, q)
      BY DEF ApiDone, ApiReady, QueueHolds, ApiHolds, WorkerHolds, TypeOK
    <2> QED BY <2>1 DEF SingleHolder
  <1> QED BY <1>1, <1>2, <1>3, <1>4, <1>5

\* The job message moves from the request to the tail of the queue.
LEMMA JobPushed ==
    ASSUME IInv, NEW c \in Clients, NEW r, api[c].pc = "committed", api[c].run = r,
           queue' = Append(queue, r),
           ApiGoes(c, "enqueued") \/ ApiDone(c),
           UNCHANGED <<rows, worker>>, SideTyped
    PROVE  IInv'
  <1> USE DEF IInv
  <1>0. r \in Runs /\ runStatus[r] = "pending"
    BY DEF RunsWellFormed, HolderStatus
  <1>a. /\ queue' \in Seq(Runs)
        /\ Len(queue') = Len(queue) + 1
        /\ \A i \in 1..Len(queue) : queue'[i] = queue[i]
        /\ queue'[Len(queue) + 1] = r
        /\ Len(queue) \in Nat
    BY <1>0, AppendFacts DEF TypeOK
  <1>b. /\ api' \in ApiType
        /\ api'[c].pc # "committed"
        /\ api'[c].pc # "ready" => api'[c].run = r
        /\ \A d \in Clients : d # c => api'[d] = api[d]
    BY ApiGoesFacts, ApiDoneFacts DEF ApiPcs
  <1>1. TypeOK'
    BY <1>a, <1>b DEF TypeOK, ApiType, rows, SideTyped
  <1>2. RunsWellFormed'
    BY <1>0, <1>b DEF RunsWellFormed, rows
  <1>3. RowsAgree'
    BY DEF RowsAgree, rows
  <1>4. HolderStatus'
    <2>1. \A i \in 1..Len(queue') : runStatus'[queue'[i]] = "pending"
      BY <1>0, <1>a DEF HolderStatus, rows
    <2> QED BY <2>1, <1>b DEF HolderStatus, rows
  <1>5. SingleHolder'
    <2>1. /\ ~QueueHolds(r)
          /\ \A w \in Workers : ~WorkerHolds(w, r)
      BY <1>0 DEF SingleHolder, ApiHolds
    <2>2. /\ \A q \in Runs : QueueHolds(q)' => QueueHolds(q) \/ q = r
          /\ \A w \in Workers, q \in Runs : WorkerHolds(w, q)' <=> WorkerHolds(w, q)
          /\ \A d \in Clients, q \in Runs : ApiHolds(d, q)' => ApiHolds(d, q) /\ d # c
      <3>1. \A q \in Runs : QueueHolds(q)' => QueueHolds(q) \/ q = r
        <4> SUFFICES ASSUME NEW q \in Runs, NEW i \in 1..Len(queue'), queue'[i] = q, q # r
                     PROVE  \E j \in 1..Len(queue) : queue[j] = q
          BY DEF QueueHolds
        <4>1. i \in 1..Len(queue)
          BY <1>a
        <4> QED BY <4>1, <1>a
      <3>2. \A w \in Workers, q \in Runs : WorkerHolds(w, q)' <=> WorkerHolds(w, q)
        BY DEF WorkerHolds
      <3>3. \A d \in Clients, q \in Runs : ApiHolds(d, q)' => ApiHolds(d, q) /\ d # c
        BY <1>b DEF ApiHolds
      <3> QED BY <3>1, <3>2, <3>3
    <2>3. ASSUME NEW i \in 1..Len(queue'), NEW j \in 1..Len(queue'), queue'[i] = queue'[j]
          PROVE  i = j
      <3>1. CASE i \in 1..Len(queue) /\ j \in 1..Len(queue)
        BY <3>1, <2>3, <1>a DEF SingleHolder
      <3>2. CASE i = Len(queue) + 1 \/ j = Len(queue) + 1
        BY <3>2, <2>3, <1>a, <2>1 DEF QueueHolds
      <3> QED BY <3>1, <3>2, <1>a
    <2>4. \A d \in Clients : ~ApiHolds(d, r)'
      BY <2>2, <1>0 DEF SingleHolder, ApiHolds
    <2> QED BY <2>1, <2>2, <2>3, <2>4 DEF SingleHolder
  <1> QED BY <1>1, <1>2, <1>3, <1>4, <1>5

\* BLPOP: the run moves from the head of the queue to the worker.
LEMMA DequeueStep ==
    ASSUME IInv, NEW w \in Workers, Dequeue(w)
    PROVE  IInv'
  <1> USE DEF IInv, Dequeue
  <1>r. PICK r : r = Head(queue)
    OBVIOUS
  <1>a. /\ Len(queue) \in Nat \ {0}
        /\ r \in Runs
        /\ r = queue[1]
        /\ queue' \in Seq(Runs)
        /\ Len(queue') = Len(queue) - 1
        /\ \A i \in 1..Len(queue) - 1 : queue'[i] = queue[i + 1]
    BY <1>r, TailFacts DEF TypeOK
  <1>0. runStatus[r] = "pending" /\ QueueHolds(r)
    BY <1>a DEF HolderStatus, QueueHolds
  <1>b. /\ worker' \in [Workers -> [pc : WorkerPcs, run : Runs \cup {NoRun}, seen : VideoStatuses]]
        /\ worker'[w].pc = "dequeued"
        /\ worker'[w].run = r
        /\ \A x \in Workers : x # w => worker'[x] = worker[x]
    BY <1>r, <1>a DEF TypeOK, WorkerPcs, VideoStatuses
  <1>1. TypeOK'
    BY <1>a, <1>b DEF TypeOK, rows
  <1>2. RunsWellFormed'
    BY <1>a, <1>b DEF RunsWellFormed, rows
  <1>3. RowsAgree'
    BY DEF RowsAgree, rows
  <1>4. HolderStatus'
    <2>1. \A i \in 1..Len(queue') : runStatus'[queue'[i]] = "pending"
      BY <1>a DEF HolderStatus, rows
    <2> QED BY <2>1, <1>0, <1>b DEF HolderStatus, rows
  <1>5. SingleHolder'
    <2>1. /\ ~QueueHolds(r)'
          /\ \A q \in Runs : QueueHolds(q)' => QueueHolds(q)
          /\ \A i, j \in 1..Len(queue') : queue'[i] = queue'[j] => i = j
      <3>1. ASSUME NEW i \in 1..Len(queue')
            PROVE  i + 1 \in 1..Len(queue) /\ i + 1 # 1 /\ queue'[i] = queue[i + 1]
        BY <1>a
      <3>2. ASSUME NEW i \in 1..Len(queue'), NEW j \in 1..Len(queue'), queue'[i] = queue'[j]
            PROVE  i = j
        <4>1. i + 1 = j + 1
          BY <3>1, <3>2 DEF SingleHolder
        <4> QED BY <4>1
      <3>3. ~QueueHolds(r)'
        BY <3>1, <1>a DEF SingleHolder, QueueHolds
      <3>4. \A q \in Runs : QueueHolds(q)' => QueueHolds(q)
        BY <3>1 DEF QueueHolds
      <3> QED BY <3>2, <3>3, <3>4
    <2>2. /\ \A x \in Workers, q \in Runs :
                WorkerHolds(x, q)' <=> (IF x = w THEN q = r ELSE WorkerHolds(x, q))
          /\ \A d \in Clients, q \in Runs : ApiHolds(d, q)' <=> ApiHolds(d, q)
      BY <1>b DEF ApiHolds, WorkerHolds
    <2>3. /\ \A x \in Workers : ~WorkerHolds(x, r)
          /\ \A d \in Clients : ~ApiHolds(d, r)
      BY <1>0, <1>a DEF SingleHolder
    <2>4. /\ \A d, e \in Clients : \A q \in Runs : ApiHolds(d, q)' /\ ApiHolds(e, q)' => d = e
          /\ \A x, y \in Workers : \A q \in Runs : WorkerHolds(x, q)' /\ WorkerHolds(y, q)' => x = y
      BY <2>2, <2>3 DEF SingleHolder
    <2>5. \A q \in Runs :
            /\ \A d \in Clients : ~(ApiHolds(d, q)' /\ QueueHolds(q)')
            /\ \A x \in Workers : ~(QueueHolds(q)' /\ WorkerHolds(x, q)')
            /\ \A d \in Clients, x \in Workers : ~(ApiHolds(d, q)' /\ WorkerHolds(x, q)')
      BY <2>1, <2>2, <2>3 DEF SingleHolder
    <2> QED BY <2>1, <2>4, <2>5 DEF SingleHolder
  <1> QED BY <1>1, <1>2, <1>3, <1>4, <1>5

\* A worker is back at the top of its loop, with the rows as they are.
LEMMA HandlerEnds ==
    ASSUME IInv, NEW w \in Workers, WorkerDone(w), UNCHANGED <<rows, queue, api>>, SideTyped
    PROVE  IInv'
  <1> USE DEF IInv
  <1>a. /\ worker' \in WorkerType
        /\ worker'[w].pc = "idle"
        /\ \A x \in Workers : x # w => worker'[x] = worker[x]
    BY WorkerDoneFacts
  <1>1. TypeOK'
    BY <1>a DEF TypeOK, WorkerType, rows, SideTyped
  <1>2. RunsWellFormed'
    BY <1>a DEF RunsWellFormed, rows
  <1>3. RowsAgree'
    BY DEF RowsAgree, rows
  <1>4. HolderStatus'
    BY <1>a DEF HolderStatus, rows
  <1>5. SingleHolder'
    <2>1. /\ \A q \in Runs : QueueHolds(q)' <=> QueueHolds(q)
          /\ \A x \in Workers, q \in Runs : WorkerHolds(x, q)' => WorkerHolds(x, q)
          /\ \A d \in Clients, q \in Runs : ApiHolds(d, q)' <=> ApiHolds(d, q)
      BY <1>a DEF QueueHolds, ApiHolds, WorkerHolds
    <2> QED BY <2>1 DEF SingleHolder
  <1> QED BY <1>1, <1>2, <1>3, <1>4, <1>5

\* A worker moves on between two places that expect the same status of its run.
LEMMA HandlerMoves ==
    ASSUME IInv, NEW w \in Workers, NEW pc \in WorkerPcs,
           worker' \in WorkerType, worker'[w].pc = pc, worker'[w].run = worker[w].run,
           \A x \in Workers : x # w => worker'[x] = worker[x],
           \/ worker[w].pc \in {"marked", "pipeline"} /\ pc \in {"pipeline", "raised", "poisoned"}
           \/ worker[w].pc = "dequeued" /\ pc = "loaded",
           UNCHANGED <<rows, queue, api>>, SideTyped
    PROVE  IInv'
  <1> USE DEF IInv
  <1>1. TypeOK'
    BY DEF TypeOK, WorkerType, rows, SideTyped
  <1>2. RunsWellFormed'
    BY DEF RunsWellFormed, rows
  <1>3. RowsAgree'
    BY DEF RowsAgree, rows
  <1>4. HolderStatus'
    BY DEF HolderStatus, rows
  <1>5. SingleHolder'
    <2>1. /\ \A q \in Runs : QueueHolds(q)' <=> QueueHolds(q)
          /\ \A x \in Workers, q \in Runs : WorkerHolds(x, q)' => WorkerHolds(x, q)
          /\ \A d \in Clients, q \in Runs : ApiHolds(d, q)' <=> ApiHolds(d, q)
      BY DEF QueueHolds, ApiHolds, WorkerHolds
    <2> QED BY <2>1 DEF SingleHolder
  <1> QED BY <1>1, <1>2, <1>3, <1>4, <1>5

\* A fault that strikes elsewhere changes nothing here.
LEMMA FaultElsewhere ==
    ASSUME IInv, UNCHANGED <<rows, queue, api, worker>>, SideTyped
    PROVE  IInv'
  BY DEF IInv, rows, TypeOK, SideTyped, RunsWellFormed, RowsAgree, HolderStatus, SingleHolder,
         ApiHolds, QueueHolds, WorkerHolds

LEMMA LoadRowsStep ==
    ASSUME IInv, NEW w \in Workers, LoadRows(w)
    PROVE  IInv'
  <1> USE DEF IInv
  <1>0. /\ worker[w].run \in Runs
        /\ runVideo[worker[w].run] \in Videos
        /\ jobStatus[worker[w].run] # "absent"
    BY DEF LoadRows, RunsWellFormed, HolderStatus, RowsAgree
  <1>1. /\ worker' \in WorkerType
        /\ worker'[w].pc = "loaded"
        /\ worker'[w].run = worker[w].run
        /\ \A x \in Workers : x # w => worker'[x] = worker[x]
    BY <1>0 DEF LoadRows, TypeOK, WorkerType, WorkerPcs
  <1> QED BY <1>1, HandlerMoves DEF LoadRows, WorkerPcs, SideTyped, TypeOK

\* The three commits of the handler: the worker then goes on, or is back in its
\* loop because the database failed after applying the commit.
RowsWritten(w, r) ==
    \/ /\ worker[w].pc = "loaded" /\ MarkRows(r, worker[w].seen)
       /\ WorkerGoes(w, "marked") \/ WorkerDone(w)
    \/ /\ worker[w].pc = "pipeline" /\ CompleteRows(r)
       /\ WorkerGoes(w, "finished") \/ WorkerDone(w)
    \/ /\ worker[w].pc = "raised" /\ ErrorRows(r)
       /\ WorkerGoes(w, "failed") \/ WorkerDone(w)

LEMMA RowsWrittenStep ==
    ASSUME IInv, NEW w \in Workers, NEW r, worker[w].run = r, RowsWritten(w, r),
           UNCHANGED <<queue, api>>, SideTyped
    PROVE  IInv'
  <1> USE DEF IInv
  <1>0. /\ r \in Runs
        /\ runVideo[r] \in Videos
        /\ worker[w].pc = "loaded" => runStatus[r] = "pending"
        /\ worker[w].pc \in {"pipeline", "raised"} => runStatus[r] = "running"
    BY DEF RowsWritten, RunsWellFormed, HolderStatus
  <1>1. /\ ~QueueHolds(r)
        /\ \A d \in Clients : ~ApiHolds(d, r)
        /\ \A x \in Workers : WorkerHolds(x, r) => x = w
    BY <1>0 DEF RowsWritten, SingleHolder, WorkerHolds
  <1>2. /\ worker' \in WorkerType
        /\ worker'[w].pc # "idle" => worker'[w].run = r
        /\ \A x \in Workers : x # w => worker'[x] = worker[x]
    BY WorkerGoesFacts, WorkerDoneFacts DEF RowsWritten, WorkerPcs
  <1>3. /\ runStatus' \in [Runs -> RunStatuses]
        /\ runStatus'[r] # "absent"
        /\ \A q \in Runs : q # r => runStatus'[q] = runStatus[q]
        /\ runVideo' = runVideo
    BY <1>0 DEF RowsWritten, MarkRows, CompleteRows, ErrorRows, TypeOK, RunStatuses
  <1>4. TypeOK'
    <2>1. videoStatus' \in [Videos -> VideoStatuses]
      BY DEF RowsWritten, MarkRows, CompleteRows, ErrorRows, TypeOK, VideoStatuses
    <2>2. jobStatus' \in [Runs -> JobStatuses]
      BY DEF RowsWritten, MarkRows, CompleteRows, ErrorRows, TypeOK, JobStatuses
    <2>3. outputs' \subseteq Runs
      BY <1>0 DEF RowsWritten, MarkRows, CompleteRows, ErrorRows, TypeOK
    <2> QED BY <1>2, <1>3, <2>1, <2>2, <2>3 DEF TypeOK, WorkerType, SideTyped
  <1>5. RunsWellFormed'
    BY <1>0, <1>2, <1>3 DEF RunsWellFormed
  <1>6. RowsAgree'
    BY <1>0 DEF RowsAgree, RowsWritten, MarkRows, CompleteRows, ErrorRows, TypeOK
  <1>7. HolderStatus'
    <2>1. \A d \in Clients : api'[d].pc = "committed" => runStatus'[api'[d].run] = "pending"
      BY <1>1, <1>3 DEF HolderStatus, ApiHolds, RunsWellFormed
    <2>2. \A i \in 1..Len(queue') : runStatus'[queue'[i]] = "pending"
      <3> SUFFICES ASSUME NEW i \in 1..Len(queue) PROVE runStatus'[queue[i]] = "pending"
        OBVIOUS
      <3>1. queue[i] \in Runs /\ queue[i] # r
        BY <1>1 DEF QueueHolds, TypeOK
      <3> QED BY <3>1, <1>3 DEF HolderStatus
    <2>3. ASSUME NEW x \in Workers, x # w, worker[x].pc # "idle"
          PROVE  runStatus'[worker'[x].run] = runStatus[worker[x].run] /\ worker'[x] = worker[x]
      BY <2>3, <1>1, <1>2, <1>3 DEF WorkerHolds, RunsWellFormed
    <2>4. /\ worker'[w].pc \in {"idle", "marked", "finished", "failed"}
          /\ worker'[w].pc = "marked" => runStatus'[r] = "running"
          /\ worker'[w].pc = "finished" => runStatus'[r] = "completed"
          /\ worker'[w].pc = "failed" => runStatus'[r] = "error"
      BY <1>0, WorkerGoesFacts, WorkerDoneFacts
         DEF RowsWritten, WorkerPcs, MarkRows, CompleteRows, ErrorRows, TypeOK
    <2> QED BY <1>2, <2>1, <2>2, <2>3, <2>4 DEF HolderStatus
  <1>8. SingleHolder'
    <2>1. /\ \A q \in Runs : QueueHolds(q)' <=> QueueHolds(q)
          /\ \A x \in Workers, q \in Runs : WorkerHolds(x, q)' => WorkerHolds(x, q)
          /\ \A d \in Clients, q \in Runs : ApiHolds(d, q)' <=> ApiHolds(d, q)
      BY <1>2 DEF QueueHolds, ApiHolds, WorkerHolds, RowsWritten
    <2> QED BY <2>1 DEF SingleHolder
  <1> QED BY <1>4, <1>5, <1>6, <1>7, <1>8

LEMMA NextIInv == IInv /\ [Next]_vars => IInv'
  <1> SUFFICES ASSUME IInv, [Next]_vars PROVE IInv'
    OBVIOUS
  <1>t. /\ faults \in 0..MaxFaults
        /\ events \in [Runs -> SUBSET EventTypes]
        /\ \A w \in Workers : worker[w].pc # "idle" => worker[w].run \in Runs
        /\ \A c \in Clients : api[c].pc # "ready" => api[c].run \in Runs
    BY DEF IInv, TypeOK, RunsWellFormed
  <1>1. CASE UNCHANGED vars
    BY <1>1 DEF vars, rows, IInv, TypeOK, RunsWellFormed, RowsAgree, HolderStatus,
                SingleHolder, ApiHolds, QueueHolds, WorkerHolds
  <1>2. ASSUME NEW v \in Videos, UploadInit(v) PROVE IInv'
    BY <1>2, UploadInitStep
  <1>3. ASSUME NEW c \in Clients, NEW v \in Videos, NEW r \in Runs,
               UploadVideo(c, v, r) \/ ReprocessVideo(c, v, r)
        PROVE  IInv'
    BY <1>3, CommitStep
  <1>4. ASSUME NEW c \in Clients, ApiStep(c) \/ ApiRedisFails(c) \/ ApiCrash(c) PROVE IInv'
    <2>1. CASE Enqueue(c)
      BY <2>1, <1>t, JobPushed DEF Enqueue, SideTyped
    <2>2. CASE PublishCreated(c)
      <3>1. SideTyped
        BY <2>2, <1>t, PublishTyped DEF PublishCreated, SideTyped, EventTypes
      <3> QED BY <2>2, <3>1, RequestEnds DEF PublishCreated
    <2>3. CASE ApiRedisFails(c)
      <3>1. SideTyped
        BY <2>3, <1>t, FaultTyped DEF ApiRedisFails, SideTyped
      <3>2. CASE queue' = queue
        BY <2>3, <3>1, <3>2, RequestEnds DEF ApiRedisFails
      <3>3. CASE api[c].pc = "committed" /\ queue' = Append(queue, api[c].run)
        BY <2>3, <3>1, <3>3, JobPushed DEF ApiRedisFails
      <3> QED BY <2>3, <3>2, <3>3 DEF ApiRedisFails
    <2>4. CASE ApiCrash(c)
      <3>1. SideTyped
        BY <2>4, <1>t, FaultTyped DEF ApiCrash, SideTyped
      <3> QED BY <2>4, <3>1, RequestEnds DEF ApiCrash
    <2> QED BY <1>4, <2>1, <2>2, <2>3, <2>4 DEF ApiStep
  <1>5. ASSUME NEW w \in Workers, WorkerStep(w) PROVE IInv'
    <2>1. CASE Dequeue(w)
      BY <2>1, DequeueStep
    <2>2. CASE LoadRows(w)
      BY <2>2, LoadRowsStep
    <2>3. CASE MarkRunning(w)
      BY <2>3, <1>t, RowsWrittenStep DEF MarkRunning, RowsWritten, SideTyped
    <2>4. CASE PublishRunning(w)
      <3>1. SideTyped
        BY <2>4, <1>t, PublishTyped DEF PublishRunning, SideTyped, EventTypes
      <3> QED BY <2>4, <3>1, WorkerGoesFacts, HandlerMoves DEF PublishRunning, WorkerPcs, IInv
    <2>5. CASE PipelineRaises(w)
      BY <2>5, <1>t, WorkerGoesFacts, HandlerMoves DEF PipelineRaises, WorkerPcs, IInv, SideTyped
    <2>6. CASE CommitCompleted(w)
      BY <2>6, <1>t, RowsWrittenStep DEF CommitCompleted, RowsWritten, SideTyped
    <2>7. CASE CommitError(w)
      BY <2>7, <1>t, RowsWrittenStep DEF CommitError, RowsWritten, SideTyped
    <2>8. CASE PublishVerdict(w)
      <3>1. SideTyped
        BY <2>8, <1>t, PublishTyped DEF PublishVerdict, SideTyped, EventTypes
      <3> QED BY <2>8, <3>1, HandlerEnds DEF PublishVerdict
    <2>9. CASE PoisonedCommitRaises(w)
      BY <2>9, <1>t, HandlerEnds DEF PoisonedCommitRaises, SideTyped
    <2> QED BY <1>5, <2>1, <2>2, <2>3, <2>4, <2>5, <2>6, <2>7, <2>8, <2>9 DEF WorkerStep
  <1>6. ASSUME NEW w \in Workers,
               UsageFlushFails(w) \/ WorkerDatabaseFails(w) \/ WorkerRedisFails(w) \/ WorkerCrash(w)
        PROVE  IInv'
    <2>0. SideTyped
      BY <1>6, <1>t, FaultTyped
         DEF UsageFlushFails, WorkerDatabaseFails, WorkerRedisFails, WorkerCrash, SideTyped
    <2>1. CASE UsageFlushFails(w)
      BY <2>0, <2>1, WorkerGoesFacts, HandlerMoves DEF UsageFlushFails, WorkerPcs, IInv
    <2>2. CASE WorkerDatabaseFails(w)
      <3>1. CASE UNCHANGED rows
        BY <2>0, <2>2, <3>1, HandlerEnds DEF WorkerDatabaseFails
      <3>2. CASE ~UNCHANGED rows
        BY <2>0, <2>2, <3>2, RowsWrittenStep DEF WorkerDatabaseFails, RowsWritten
      <3> QED BY <3>1, <3>2
    <2>3. CASE WorkerRedisFails(w)
      <3>1. CASE WorkerDone(w)
        BY <2>0, <2>3, <3>1, HandlerEnds DEF WorkerRedisFails
      <3>2. CASE worker[w].pc = "marked" /\ WorkerGoes(w, "pipeline")
        BY <2>0, <2>3, <3>2, WorkerGoesFacts, HandlerMoves DEF WorkerRedisFails, WorkerPcs, IInv
      <3> QED BY <2>3, <3>1, <3>2 DEF WorkerRedisFails
    <2>4. CASE WorkerCrash(w)
      BY <2>0, <2>4, HandlerEnds DEF WorkerCrash
    <2> QED BY <1>6, <2>1, <2>2, <2>3, <2>4
  <1> QED BY <1>1, <1>2, <1>3, <1>4, <1>5, <1>6 DEF Next

\* The inductive invariant: types, rows that agree, and one holder per run.
THEOREM LifecycleInvariant == Spec => []IInv
  BY InitIInv, NextIInv, PTL DEF Spec

\* Every variable keeps its type, for every instance.
THEOREM TypeCorrect == Spec => []TypeOK
  <1>1. IInv => TypeOK
    BY DEF IInv
  <1> QED BY <1>1, LifecycleInvariant, PTL

\* Job, ProcessingRun and outputs never disagree, whatever fails.
THEOREM RowsAlwaysAgree == Spec => []RowsAgree
  <1>1. IInv => RowsAgree
    BY DEF IInv
  <1> QED BY <1>1, LifecycleInvariant, PTL

\* No run is ever with two holders, so none is processed twice.
THEOREM RunHandledOnce == Spec => []SingleHolder
  <1>1. IInv => SingleHolder
    BY DEF IInv
  <1> QED BY <1>1, LifecycleInvariant, PTL

\* Whoever holds a run finds its row in the status that the holder's place in the code calls
\* for: no message names a run that was started, no worker ends one that has ended.
THEOREM HoldersMatchRows == Spec => []HolderStatus
  <1>1. IInv => HolderStatus
    BY DEF IInv
  <1> QED BY <1>1, LifecycleInvariant, PTL

-----------------------------------------------------------------------------
(* Refinement: the runs follow RunContract.                                 *)

\* A commit of the handler is one step of the contract.
LEMMA RowsWrittenIsContractStep ==
    ASSUME IInv, NEW w \in Workers, NEW r, worker[w].run = r, RowsWritten(w, r)
    PROVE  Contract!Next
  <1>0. /\ r \in Runs
        /\ worker[w].pc = "loaded" => runStatus[r] = "pending"
        /\ worker[w].pc \in {"pipeline", "raised"} => runStatus[r] = "running"
    BY DEF RowsWritten, IInv, RunsWellFormed, HolderStatus
  <1>1. CASE worker[w].pc = "loaded"
    BY <1>0, <1>1 DEF RowsWritten, MarkRows, Contract!Next, Contract!Start, Contract!Move
  <1>2. CASE worker[w].pc = "pipeline"
    BY <1>0, <1>2 DEF RowsWritten, CompleteRows, Contract!Next, Contract!Complete, Contract!Move
  <1>3. CASE worker[w].pc = "raised"
    BY <1>0, <1>3 DEF RowsWritten, ErrorRows, Contract!Next, Contract!Fail, Contract!Move
  <1> QED BY <1>1, <1>2, <1>3 DEF RowsWritten

LEMMA NextIsContractStep == IInv /\ [Next]_vars => [Contract!Next]_<<runStatus, outputs>>
  <1> SUFFICES ASSUME IInv, [Next]_vars PROVE Contract!Next \/ UNCHANGED <<runStatus, outputs>>
    OBVIOUS
  <1>1. CASE UNCHANGED vars
    BY <1>1 DEF vars, rows
  <1>2. ASSUME NEW v \in Videos, UploadInit(v) PROVE UNCHANGED <<runStatus, outputs>>
    BY <1>2 DEF UploadInit
  <1>3. ASSUME NEW c \in Clients, NEW v \in Videos, NEW r \in Runs,
               UploadVideo(c, v, r) \/ ReprocessVideo(c, v, r)
        PROVE  Contract!Next
    BY <1>3 DEF UploadVideo, ReprocessVideo, CommitRunAndJob,
                Contract!Next, Contract!Create, Contract!Move
  <1>4. ASSUME NEW c \in Clients, ApiStep(c) \/ ApiRedisFails(c) \/ ApiCrash(c)
        PROVE  UNCHANGED <<runStatus, outputs>>
    BY <1>4 DEF ApiStep, Enqueue, PublishCreated, ApiRedisFails, ApiCrash, rows
  <1>5. ASSUME NEW w \in Workers, WorkerStep(w)
        PROVE  Contract!Next \/ UNCHANGED <<runStatus, outputs>>
    <2>1. CASE MarkRunning(w) \/ CommitCompleted(w) \/ CommitError(w)
      BY <2>1, RowsWrittenIsContractStep DEF MarkRunning, CommitCompleted, CommitError, RowsWritten
    <2>2. CASE \/ Dequeue(w) \/ LoadRows(w) \/ PublishRunning(w) \/ PipelineRaises(w)
               \/ PublishVerdict(w) \/ PoisonedCommitRaises(w)
      BY <2>2 DEF Dequeue, LoadRows, PublishRunning, PipelineRaises, PublishVerdict,
                  PoisonedCommitRaises, rows
    <2> QED BY <1>5, <2>1, <2>2 DEF WorkerStep
  <1>6. ASSUME NEW w \in Workers, WorkerDatabaseFails(w)
        PROVE  Contract!Next \/ UNCHANGED <<runStatus, outputs>>
    <2>1. CASE UNCHANGED rows
      BY <2>1 DEF rows
    <2>2. CASE ~UNCHANGED rows
      BY <1>6, <2>2, RowsWrittenIsContractStep DEF WorkerDatabaseFails, RowsWritten
    <2> QED BY <2>1, <2>2
  <1>7. ASSUME NEW w \in Workers, UsageFlushFails(w) \/ WorkerRedisFails(w) \/ WorkerCrash(w)
        PROVE  UNCHANGED <<runStatus, outputs>>
    BY <1>7 DEF UsageFlushFails, WorkerRedisFails, WorkerCrash, rows
  <1> QED BY <1>1, <1>2, <1>3, <1>4, <1>5, <1>6, <1>7 DEF Next

\* RunLifecycle implements RunContract: whatever fails, a run is started and ended
\* at most once and its outputs appear in the step that completes it.
THEOREM LifecycleImplementsContract == Spec => ImplementsContract
  <1>1. Init => Contract!Init
    BY DEF Init, Contract!Init
  <1>2. IInv /\ [Next]_vars => [Contract!Next]_(Contract!contractVars)
    BY NextIsContractStep DEF Contract!contractVars
  <1> QED BY <1>1, <1>2, LifecycleInvariant, PTL DEF Spec, ImplementsContract, Contract!Spec

\* Seen from one run: its status stays, or moves along one edge.
StatusMoves(r) ==
    \/ runStatus'[r] = runStatus[r]
    \/ runStatus[r] = "absent" /\ runStatus'[r] = "pending"
    \/ runStatus[r] = "pending" /\ runStatus'[r] = "running"
    \/ runStatus[r] = "running" /\ runStatus'[r] \in {"completed", "error"}

LEMMA StatusMovesAlongEdges == IInv /\ [Next]_vars => \A r \in Runs : StatusMoves(r)
  <1> SUFFICES ASSUME IInv, [Next]_vars, NEW r \in Runs PROVE StatusMoves(r)
    OBVIOUS
  <1>1. CASE UNCHANGED <<runStatus, outputs>>
    BY <1>1 DEF StatusMoves
  <1>2. CASE Contract!Next
    BY <1>2 DEF StatusMoves, IInv, TypeOK, Contract!Next, Contract!Create, Contract!Start,
                Contract!Complete, Contract!Fail, Contract!Move
  <1> QED BY <1>1, <1>2, NextIsContractStep

-----------------------------------------------------------------------------
(* Events.                                                                  *)

EInv == EventsTruthful /\ \A c \in Clients : api[c].pc # "ready" => runStatus[api[c].run] # "absent"

\* An event true of a run before a step is true of it after the step.
LEMMA EventsStayTruthful ==
    ASSUME IInv, [Next]_vars, EventsTruthful, UNCHANGED events
    PROVE  EventsTruthful'
  BY StatusMovesAlongEdges DEF EventsTruthful, StatusMoves

LEMMA PublishedIsTrue ==
    ASSUME IInv, EventsTruthful, NEW r \in Runs, NEW k \in EventTypes, Publish(r, k),
           UNCHANGED runStatus,
           k = "created" => runStatus[r] # "absent",
           k = "running" => runStatus[r] = "running",
           k = "completed" => runStatus[r] = "completed",
           k = "failed" => runStatus[r] = "error"
    PROVE  EventsTruthful'
  BY DEF IInv, TypeOK, EventsTruthful, Publish, EventTypes

LEMMA NextEInv == IInv /\ EInv /\ [Next]_vars => EInv'
  <1> SUFFICES ASSUME IInv, EInv, [Next]_vars PROVE EInv'
    OBVIOUS
  <1>1. EventsTruthful'
    <2>1. ASSUME NEW c \in Clients, PublishCreated(c) PROVE EventsTruthful'
      <3>1. api[c].run \in Runs /\ runStatus[api[c].run] # "absent"
        BY <2>1 DEF PublishCreated, EInv, IInv, RunsWellFormed
      <3> QED BY <2>1, <3>1, PublishedIsTrue DEF PublishCreated, EInv, EventTypes, rows
    <2>2. ASSUME NEW w \in Workers, PublishRunning(w) PROVE EventsTruthful'
      <3>1. worker[w].run \in Runs /\ runStatus[worker[w].run] = "running"
        BY <2>2 DEF PublishRunning, IInv, RunsWellFormed, HolderStatus
      <3> QED BY <2>2, <3>1, PublishedIsTrue DEF PublishRunning, EInv, EventTypes, rows
    <2>3. ASSUME NEW w \in Workers, PublishVerdict(w) PROVE EventsTruthful'
      <3>1. worker[w].run \in Runs
        BY <2>3 DEF PublishVerdict, IInv, RunsWellFormed
      <3>2. \/ Publish(worker[w].run, "completed") /\ runStatus[worker[w].run] = "completed"
            \/ Publish(worker[w].run, "failed") /\ runStatus[worker[w].run] = "error"
        BY <2>3 DEF PublishVerdict, IInv, HolderStatus
      <3> QED BY <2>3, <3>1, <3>2, PublishedIsTrue DEF PublishVerdict, EInv, EventTypes, rows
    <2>4. CASE UNCHANGED events
      BY <2>4, EventsStayTruthful DEF EInv
    <2>5. \/ UNCHANGED events
          \/ \E c \in Clients : PublishCreated(c)
          \/ \E w \in Workers : PublishRunning(w) \/ PublishVerdict(w)
      BY DEF Next, vars, UploadInit, UploadVideo, ReprocessVideo, CommitRunAndJob, ApiStep, Enqueue,
             ApiRedisFails, ApiCrash, WorkerStep, Dequeue, LoadRows, MarkRunning, PipelineRaises,
             CommitCompleted, CommitError, PoisonedCommitRaises, UsageFlushFails,
             WorkerDatabaseFails, WorkerRedisFails, WorkerCrash
    <2> QED BY <2>1, <2>2, <2>3, <2>4, <2>5
  <1>2. ASSUME NEW c \in Clients, api'[c].pc # "ready" PROVE runStatus'[api'[c].run] # "absent"
    <2>1. CASE api'[c].run = api[c].run /\ api[c].pc # "ready"
      BY <2>1, StatusMovesAlongEdges DEF EInv, IInv, RunsWellFormed, StatusMoves
    <2>2. CASE \E v \in Videos, r \in Runs : UploadVideo(c, v, r) \/ ReprocessVideo(c, v, r)
      BY <2>2 DEF UploadVideo, ReprocessVideo, CommitRunAndJob, IInv, TypeOK
    <2>3. \/ api'[c].run = api[c].run /\ api[c].pc # "ready"
          \/ \E v \in Videos, r \in Runs : UploadVideo(c, v, r) \/ ReprocessVideo(c, v, r)
      <3>1. CASE UNCHANGED api
        BY <1>2, <3>1
      <3>2. ASSUME NEW d \in Clients, ApiStep(d) \/ ApiRedisFails(d) \/ ApiCrash(d)
            PROVE  api'[c].run = api[c].run /\ api[c].pc # "ready"
        <4>1. (ApiGoes(d, "enqueued") /\ api[d].pc # "ready") \/ ApiDone(d)
          BY <3>2 DEF ApiStep, Enqueue, PublishCreated, ApiRedisFails, ApiCrash
        <4> QED BY <1>2, <4>1, ApiGoesFacts, ApiDoneFacts DEF IInv, ApiPcs
      <3>3. ASSUME NEW d \in Clients, NEW v \in Videos, NEW r \in Runs, d # c,
                   UploadVideo(d, v, r) \/ ReprocessVideo(d, v, r)
            PROVE  api'[c] = api[c]
        BY <3>3 DEF UploadVideo, ReprocessVideo, CommitRunAndJob, IInv, TypeOK
      <3>4. \/ UNCHANGED api
            \/ \E d \in Clients : ApiStep(d) \/ ApiRedisFails(d) \/ ApiCrash(d)
            \/ \E d \in Clients, v \in Videos, r \in Runs :
                  UploadVideo(d, v, r) \/ ReprocessVideo(d, v, r)
        BY DEF Next, vars, UploadInit, WorkerStep, Dequeue, LoadRows, MarkRunning, PublishRunning,
               PipelineRaises, CommitCompleted, CommitError, PublishVerdict, PoisonedCommitRaises,
               UsageFlushFails, WorkerDatabaseFails, WorkerRedisFails, WorkerCrash
      <3> QED BY <1>2, <3>1, <3>2, <3>3, <3>4
    <2> QED BY <2>1, <2>2, <2>3
  <1> QED BY <1>1, <1>2 DEF EInv

\* No event is ever published that the committed rows do not bear out.
THEOREM EventsAlwaysTruthful == Spec => []EventsTruthful
  <1>1. Init => EInv
    BY DEF Init, EInv, EventsTruthful, ApiReady
  <1>2. EInv => EventsTruthful
    BY DEF EInv
  <1> QED BY <1>1, <1>2, NextEInv, LifecycleInvariant, PTL DEF Spec

-----------------------------------------------------------------------------
(* Video.status.                                                            *)

HasRun(v, st) == \E r \in Runs : runStatus[r] = st /\ runVideo[r] = v

\* VideoStatusEarned made inductive: a video with a started run is past pending, and
\* a worker that saw "processing" (and will not write it again) saw such a video.
VInv ==
    /\ \A v \in Videos :
          /\ videoStatus[v] = "processing" => HasRun(v, "running")
          /\ videoStatus[v] = "ready" => HasRun(v, "completed")
          /\ videoStatus[v] = "error" => HasRun(v, "error")
    /\ \A r \in Runs : runStatus[r] \notin {"absent", "pending"}
          => videoStatus[runVideo[r]] \notin {"absent", "pending"}
    /\ \A w \in Workers : worker[w].pc = "loaded" /\ worker[w].seen = "processing"
          => videoStatus[runVideo[worker[w].run]] \notin {"absent", "pending"}

LEMMA VInvImpliesEarned == IInv /\ VInv => VideoStatusEarned
  <1> SUFFICES ASSUME IInv, VInv, NEW v \in Videos
               PROVE  /\ videoStatus[v] = "processing" => \E r \in RunsOf(v) : runStatus[r] = "running"
                      /\ videoStatus[v] = "ready" => \E r \in RunsOf(v) : runStatus[r] = "completed"
                      /\ videoStatus[v] = "error" => \E r \in RunsOf(v) : runStatus[r] = "error"
                      /\ (RunsOf(v) # {} /\ \A r \in RunsOf(v) : ~Unfinished(r))
                            => videoStatus[v] \in {"ready", "error"}
    BY DEF VideoStatusEarned
  <1>1. ASSUME NEW st \in RunStatuses, st # "absent", HasRun(v, st)
        PROVE  \E r \in RunsOf(v) : runStatus[r] = st
    BY <1>1 DEF HasRun, RunsOf
  <1>2. /\ videoStatus[v] = "processing" => \E r \in RunsOf(v) : runStatus[r] = "running"
        /\ videoStatus[v] = "ready" => \E r \in RunsOf(v) : runStatus[r] = "completed"
        /\ videoStatus[v] = "error" => \E r \in RunsOf(v) : runStatus[r] = "error"
    BY <1>1 DEF VInv, RunStatuses
  <1>3. ASSUME RunsOf(v) # {}, \A r \in RunsOf(v) : ~Unfinished(r)
        PROVE  videoStatus[v] \in {"ready", "error"}
    <2>1. PICK r \in Runs : runStatus[r] \notin {"absent", "pending"} /\ runVideo[r] = v
      BY <1>3 DEF RunsOf, Unfinished
    <2>2. videoStatus[v] \notin {"absent", "pending"}
      BY <2>1 DEF VInv
    <2>3. videoStatus[v] # "processing"
      BY <1>2, <1>3 DEF Unfinished
    <2> QED BY <2>2, <2>3 DEF IInv, TypeOK, VideoStatuses
  <1> QED BY <1>2, <1>3

\* A step that writes no row and loads none keeps VInv.
LEMMA VInvSameRows ==
    ASSUME VInv, UNCHANGED rows,
           \A w \in Workers : worker'[w].pc = "loaded" => worker'[w] = worker[w]
    PROVE  VInv'
  BY DEF VInv, HasRun, rows

LEMMA VInvInsert ==
    ASSUME IInv, VInv, NEW c \in Clients, NEW v \in Videos, NEW r \in Runs,
           UploadVideo(c, v, r) \/ ReprocessVideo(c, v, r)
    PROVE  VInv'
  <1>1. /\ runStatus[r] = "absent" /\ runStatus'[r] = "pending"
        /\ \A q \in Runs : q # r => runStatus'[q] = runStatus[q] /\ runVideo'[q] = runVideo[q]
        /\ worker' = worker
        /\ \A u \in Videos : videoStatus'[u] # videoStatus[u]
            => videoStatus[u] = "absent" /\ videoStatus'[u] = "pending"
    <2>1. CommitRunAndJob(c, v, r)
      BY DEF UploadVideo, ReprocessVideo
    <2>2. \A u \in Videos : videoStatus'[u] # videoStatus[u]
            => videoStatus[u] = "absent" /\ videoStatus'[u] = "pending"
      <3>1. videoStatus \in [Videos -> VideoStatuses]
        BY DEF IInv, TypeOK
      <3>2. \/ UNCHANGED videoStatus
            \/ videoStatus[v] = "absent" /\ videoStatus' = [videoStatus EXCEPT ![v] = "pending"]
        BY DEF UploadVideo, ReprocessVideo
      <3> QED BY <3>1, <3>2
    <2> QED BY <2>1, <2>2 DEF CommitRunAndJob, IInv, TypeOK
  <1>2. \A u \in Videos, st \in {"running", "completed", "error"} : HasRun(u, st) => HasRun(u, st)'
    BY <1>1 DEF HasRun
  <1>3. ASSUME NEW q \in Runs, runStatus'[q] \notin {"absent", "pending"}
        PROVE  videoStatus'[runVideo'[q]] \notin {"absent", "pending"}
    <2>1. q # r /\ runVideo[q] \in Videos
      BY <1>1, <1>3 DEF IInv, RunsWellFormed
    <2> QED BY <1>1, <1>3, <2>1 DEF VInv
  <1>4. ASSUME NEW w \in Workers, worker'[w].pc = "loaded", worker'[w].seen = "processing"
        PROVE  videoStatus'[runVideo'[worker'[w].run]] \notin {"absent", "pending"}
    <2>1. worker[w].run \in Runs /\ worker[w].run # r /\ runVideo[worker[w].run] \in Videos
      BY <1>1, <1>4 DEF IInv, RunsWellFormed, HolderStatus
    <2> QED BY <1>1, <1>4, <2>1 DEF VInv
  <1>5. \A u \in Videos :
          /\ videoStatus'[u] = "processing" => HasRun(u, "running")'
          /\ videoStatus'[u] = "ready" => HasRun(u, "completed")'
          /\ videoStatus'[u] = "error" => HasRun(u, "error")'
    BY <1>1, <1>2 DEF VInv
  <1> QED BY <1>3, <1>4, <1>5 DEF VInv

LEMMA VInvRowsWritten ==
    ASSUME IInv, VInv, NEW w \in Workers, NEW r, worker[w].run = r, RowsWritten(w, r)
    PROVE  VInv'
  <1>0. /\ r \in Runs
        /\ runVideo[r] \in Videos
        /\ worker[w].pc = "loaded" => runStatus[r] = "pending"
        /\ worker[w].pc \in {"pipeline", "raised"} => runStatus[r] = "running"
    BY DEF RowsWritten, IInv, RunsWellFormed, HolderStatus
  <1>1. /\ runVideo' = runVideo
        /\ \A q \in Runs : q # r => runStatus'[q] = runStatus[q]
        /\ \A u \in Videos : u # runVideo[r] => videoStatus'[u] = videoStatus[u]
        /\ \A x \in Workers : worker'[x].pc = "loaded" => worker'[x] = worker[x]
    <2>1. \A x \in Workers : worker'[x].pc = "loaded" => worker'[x] = worker[x]
      BY WorkerGoesFacts, WorkerDoneFacts DEF RowsWritten, WorkerPcs, IInv
    <2> QED BY <2>1 DEF RowsWritten, MarkRows, CompleteRows, ErrorRows, IInv, TypeOK
  <1>2. /\ videoStatus'[runVideo[r]] \notin {"absent", "pending"}
        /\ videoStatus'[runVideo[r]] = "processing" => runStatus'[r] = "running"
        /\ videoStatus'[runVideo[r]] = "ready" => HasRun(runVideo[r], "completed")'
        /\ videoStatus'[runVideo[r]] = "error" => HasRun(runVideo[r], "error")'
    <2>1. CASE worker[w].pc = "loaded"
      <3>1. /\ runStatus'[r] = "running"
            /\ \/ videoStatus'[runVideo[r]] = "processing"
               \/ videoStatus'[runVideo[r]] = videoStatus[runVideo[r]] /\ worker[w].seen = "processing"
        BY <1>0, <2>1 DEF RowsWritten, MarkRows, IInv, TypeOK
      <3>2. \A st \in {"completed", "error"} :
              HasRun(runVideo[r], st) => \E q \in Runs : runStatus'[q] = st /\ runVideo'[q] = runVideo[r]
        BY <1>0, <1>1, <2>1 DEF HasRun
      <3> QED BY <1>0, <1>1, <2>1, <3>1, <3>2 DEF VInv, HasRun
    <2>2. CASE worker[w].pc = "pipeline"
      BY <1>0, <1>1, <2>2 DEF RowsWritten, CompleteRows, IInv, TypeOK, HasRun
    <2>3. CASE worker[w].pc = "raised"
      BY <1>0, <1>1, <2>3 DEF RowsWritten, ErrorRows, IInv, TypeOK, HasRun
    <2> QED BY <2>1, <2>2, <2>3 DEF RowsWritten
  <1>3. ASSUME NEW u \in Videos
        PROVE  /\ videoStatus'[u] = "processing" => HasRun(u, "running")'
               /\ videoStatus'[u] = "ready" => HasRun(u, "completed")'
               /\ videoStatus'[u] = "error" => HasRun(u, "error")'
    <2>1. CASE u = runVideo[r]
      BY <1>0, <1>1, <1>2, <2>1 DEF HasRun
    <2>2. CASE u # runVideo[r]
      BY <1>1, <2>2 DEF VInv, HasRun
    <2> QED BY <2>1, <2>2
  <1>4. ASSUME NEW q \in Runs, runStatus'[q] \notin {"absent", "pending"}
        PROVE  videoStatus'[runVideo'[q]] \notin {"absent", "pending"}
    <2>1. CASE runVideo[q] = runVideo[r]
      BY <1>1, <1>2, <2>1
    <2>2. CASE runVideo[q] # runVideo[r]
      <3>1. runVideo[q] \in Videos /\ q # r
        BY <1>1, <1>4, <2>2 DEF IInv, RunsWellFormed
      <3> QED BY <1>1, <1>4, <2>2, <3>1 DEF VInv
    <2> QED BY <2>1, <2>2
  <1>5. ASSUME NEW x \in Workers, worker'[x].pc = "loaded", worker'[x].seen = "processing"
        PROVE  videoStatus'[runVideo'[worker'[x].run]] \notin {"absent", "pending"}
    <2>1. worker'[x] = worker[x] /\ worker[x].run \in Runs /\ runVideo[worker[x].run] \in Videos
      BY <1>1, <1>5 DEF IInv, RunsWellFormed, HolderStatus
    <2> QED BY <1>1, <1>2, <1>5, <2>1 DEF VInv
  <1> QED BY <1>3, <1>4, <1>5 DEF VInv

LEMMA NextVInv == IInv /\ VInv /\ [Next]_vars => VInv'
  <1> SUFFICES ASSUME IInv, VInv, [Next]_vars PROVE VInv'
    OBVIOUS
  <1>1. CASE UNCHANGED vars
    BY <1>1, VInvSameRows DEF vars
  <1>2. ASSUME NEW v \in Videos, UploadInit(v) PROVE VInv'
    <2>1. \A u \in Videos : videoStatus'[u] # videoStatus[u]
            => videoStatus[u] = "absent" /\ videoStatus'[u] = "pending"
      <3>1. videoStatus \in [Videos -> VideoStatuses]
        BY DEF IInv, TypeOK
      <3> QED BY <1>2, <3>1 DEF UploadInit
    <2>2. \A u \in Videos, st \in {"running", "completed", "error"} : HasRun(u, st) => HasRun(u, st)'
      BY <1>2 DEF UploadInit, HasRun
    <2>3. \A r \in Runs : runStatus[r] # "absent" => runVideo[r] \in Videos
      BY DEF IInv, RunsWellFormed
    <2>4. \A w \in Workers : worker[w].pc = "loaded" => runVideo[worker[w].run] \in Videos
      BY DEF IInv, RunsWellFormed, HolderStatus
    <2> QED BY <1>2, <2>1, <2>2, <2>3, <2>4 DEF UploadInit, VInv
  <1>3. ASSUME NEW c \in Clients, NEW v \in Videos, NEW r \in Runs,
               UploadVideo(c, v, r) \/ ReprocessVideo(c, v, r)
        PROVE  VInv'
    BY <1>3, VInvInsert
  <1>4. ASSUME NEW c \in Clients, ApiStep(c) \/ ApiRedisFails(c) \/ ApiCrash(c) PROVE VInv'
    BY <1>4, VInvSameRows DEF ApiStep, Enqueue, PublishCreated, ApiRedisFails, ApiCrash
  <1>5. ASSUME NEW w \in Workers, LoadRows(w) PROVE VInv'
    <2>0. /\ worker[w].run \in Runs
          /\ jobStatus[worker[w].run] # "absent"
          /\ runVideo[worker[w].run] \in Videos
      BY <1>5 DEF LoadRows, IInv, RunsWellFormed, HolderStatus, RowsAgree
    <2>1. /\ worker'[w].run = worker[w].run
          /\ worker'[w].seen = videoStatus[runVideo[worker[w].run]]
          /\ \A x \in Workers : x # w => worker'[x] = worker[x]
      BY <1>5, <2>0 DEF LoadRows, IInv, TypeOK
    <2>2. ASSUME NEW x \in Workers, worker'[x].pc = "loaded", worker'[x].seen = "processing"
          PROVE  videoStatus[runVideo[worker'[x].run]] \notin {"absent", "pending"}
      BY <2>1, <2>2 DEF VInv
    <2>3. UNCHANGED rows
      BY <1>5 DEF LoadRows
    <2> QED BY <2>2, <2>3 DEF VInv, HasRun, rows
  <1>6. ASSUME NEW w \in Workers, MarkRunning(w) \/ CommitCompleted(w) \/ CommitError(w) PROVE VInv'
    BY <1>6, VInvRowsWritten DEF MarkRunning, CommitCompleted, CommitError, RowsWritten
  <1>7. ASSUME NEW w \in Workers, WorkerDatabaseFails(w) PROVE VInv'
    <2>1. CASE UNCHANGED rows
      <3>1. \A x \in Workers : worker'[x].pc = "loaded" => worker'[x] = worker[x]
        BY <1>7, WorkerDoneFacts DEF WorkerDatabaseFails, IInv
      <3> QED BY <2>1, <3>1, VInvSameRows
    <2>2. CASE ~UNCHANGED rows
      BY <1>7, <2>2, VInvRowsWritten DEF WorkerDatabaseFails, RowsWritten
    <2> QED BY <2>1, <2>2
  <1>8. ASSUME NEW w \in Workers,
               \/ Dequeue(w) \/ PublishRunning(w) \/ PipelineRaises(w) \/ PublishVerdict(w)
               \/ PoisonedCommitRaises(w) \/ UsageFlushFails(w) \/ WorkerRedisFails(w) \/ WorkerCrash(w)
        PROVE  VInv'
    <2>1. CASE Dequeue(w)
      <3>1. \A x \in Workers : worker'[x].pc = "loaded" => worker'[x] = worker[x]
        BY <2>1 DEF Dequeue, IInv, TypeOK
      <3> QED BY <2>1, <3>1, VInvSameRows DEF Dequeue
    <2>2. CASE ~Dequeue(w)
      <3>1. \/ WorkerDone(w)
            \/ \E pc \in {"pipeline", "raised", "poisoned"} : WorkerGoes(w, pc)
        BY <1>8, <2>2 DEF PublishRunning, PipelineRaises, PublishVerdict, PoisonedCommitRaises,
                          UsageFlushFails, WorkerRedisFails, WorkerCrash
      <3>2. \A x \in Workers : worker'[x].pc = "loaded" => worker'[x] = worker[x]
        BY <3>1, WorkerDoneFacts, WorkerGoesFacts DEF IInv, WorkerPcs
      <3>3. UNCHANGED rows
        BY <1>8, <2>2 DEF PublishRunning, PipelineRaises, PublishVerdict, PoisonedCommitRaises,
                          UsageFlushFails, WorkerRedisFails, WorkerCrash
      <3> QED BY <3>2, <3>3, VInvSameRows
    <2> QED BY <2>1, <2>2
  <1> QED BY <1>1, <1>2, <1>3, <1>4, <1>5, <1>6, <1>7, <1>8 DEF Next, WorkerStep

\* Video.status is always earned by one of the video's runs.
THEOREM VideoStatusAlwaysEarned == Spec => []VideoStatusEarned
  <1>1. Init => VInv
    BY DEF Init, VInv, WorkerIdle
  <1> QED BY <1>1, NextVInv, VInvImpliesEarned, LifecycleInvariant, PTL DEF Spec

-----------------------------------------------------------------------------
(* Who holds a run, before and after a step.                                *)

\* What a step does to the three kinds of holder, as far as responsibility goes.
LEMMA PushHolds ==
    ASSUME IInv, NEW r \in Runs, queue' = Append(queue, r)
    PROVE  \A q \in Runs : QueueHolds(q)' <=> QueueHolds(q) \/ q = r
  <1>1. /\ Len(queue) \in Nat
        /\ Len(queue') = Len(queue) + 1
        /\ \A i \in 1..Len(queue) : queue'[i] = queue[i]
        /\ queue'[Len(queue) + 1] = r
    BY AppendFacts DEF IInv, TypeOK
  <1>2. ASSUME NEW q \in Runs, QueueHolds(q)' PROVE QueueHolds(q) \/ q = r
    <2>1. PICK i \in 1..Len(queue') : queue'[i] = q
      BY <1>2 DEF QueueHolds
    <2>2. CASE i \in 1..Len(queue)
      BY <1>1, <2>1, <2>2 DEF QueueHolds
    <2>3. CASE i = Len(queue) + 1
      BY <1>1, <2>1, <2>3
    <2> QED BY <1>1, <2>2, <2>3
  <1>3. ASSUME NEW q \in Runs, QueueHolds(q) PROVE QueueHolds(q)'
    <2>1. PICK i \in 1..Len(queue) : queue[i] = q
      BY <1>3 DEF QueueHolds
    <2> QED BY <1>1, <2>1 DEF QueueHolds
  <1>4. ASSUME NEW q \in Runs, q = r PROVE QueueHolds(q)'
    <2>1. Len(queue) + 1 \in 1..Len(queue')
      BY <1>1
    <2> QED BY <1>1, <1>4, <2>1 DEF QueueHolds
  <1> QED BY <1>2, <1>3, <1>4

LEMMA PopHolds ==
    ASSUME IInv, queue # <<>>, queue' = Tail(queue)
    PROVE  /\ Head(queue) \in Runs
           /\ QueueHolds(Head(queue))
           /\ \A q \in Runs : QueueHolds(q)' => QueueHolds(q)
           /\ \A q \in Runs : QueueHolds(q) => QueueHolds(q)' \/ q = Head(queue)
  <1>1. /\ Len(queue) \in Nat \ {0}
        /\ Head(queue) \in Runs
        /\ Head(queue) = queue[1]
        /\ Len(queue') = Len(queue) - 1
        /\ \A i \in 1..Len(queue) - 1 : queue'[i] = queue[i + 1]
    BY TailFacts DEF IInv, TypeOK
  <1>2. ASSUME NEW q \in Runs, QueueHolds(q)' PROVE QueueHolds(q)
    <2>1. PICK i \in 1..Len(queue') : queue'[i] = q
      BY <1>2 DEF QueueHolds
    <2>2. i + 1 \in 1..Len(queue) /\ queue[i + 1] = q
      BY <1>1, <2>1
    <2> QED BY <2>2 DEF QueueHolds
  <1>3. ASSUME NEW q \in Runs, QueueHolds(q) PROVE QueueHolds(q)' \/ q = Head(queue)
    <2>1. PICK i \in 1..Len(queue) : queue[i] = q
      BY <1>3 DEF QueueHolds
    <2>2. CASE i = 1
      BY <1>1, <2>1, <2>2
    <2>3. CASE i # 1
      <3>1. i - 1 \in 1..Len(queue') /\ queue'[i - 1] = queue[i]
        BY <1>1, <2>1, <2>3
      <3> QED BY <2>1, <3>1 DEF QueueHolds
    <2> QED BY <2>2, <2>3
  <1>4. QueueHolds(Head(queue))
    BY <1>1 DEF QueueHolds
  <1> QED BY <1>1, <1>2, <1>3, <1>4

\* A worker's move neither takes up a run nor lets go of it; its return to the loop
\* only lets go of its own.
LEMMA WorkerMoveHolds ==
    ASSUME IInv, NEW w \in Workers, UNCHANGED <<queue, api>>,
           \/ WorkerDone(w)
           \/ \E pc \in WorkerPcs : pc # "idle" /\ worker[w].pc # "idle" /\ WorkerGoes(w, pc)
           \/ LoadRows(w)
    PROVE  \A r \in Runs :
             /\ Held(r)' => Held(r)
             /\ Held(r) /\ ~Held(r)' => /\ WorkerHolds(w, r)
                                        /\ WorkerDone(w) \/ (LoadRows(w) /\ jobStatus[r] = "absent")
  <1> SUFFICES ASSUME NEW r \in Runs
               PROVE  /\ Held(r)' => Held(r)
                      /\ Held(r) /\ ~Held(r)'
                           => /\ WorkerHolds(w, r)
                              /\ WorkerDone(w) \/ (LoadRows(w) /\ jobStatus[r] = "absent")
    OBVIOUS
  <1>1. /\ QueueHolds(r)' <=> QueueHolds(r)
        /\ \A c \in Clients : ApiHolds(c, r)' <=> ApiHolds(c, r)
    BY DEF QueueHolds, ApiHolds
  <1>2. \A x \in Workers : x # w => (WorkerHolds(x, r)' <=> WorkerHolds(x, r))
    BY DEF WorkerHolds, WorkerDone, WorkerGoes, LoadRows, IInv, TypeOK
  <1>3. WorkerHolds(w, r)' => WorkerHolds(w, r)
    <2>1. CASE WorkerDone(w)
      BY <2>1, WorkerDoneFacts DEF WorkerHolds, IInv
    <2>2. CASE \E pc \in WorkerPcs : pc # "idle" /\ worker[w].pc # "idle" /\ WorkerGoes(w, pc)
      BY <2>2, WorkerGoesFacts DEF WorkerHolds, IInv
    <2>3. CASE LoadRows(w)
      BY <2>3 DEF WorkerHolds, LoadRows, IInv, TypeOK, WorkerIdle
    <2> QED BY <2>1, <2>2, <2>3
  <1>4. WorkerHolds(w, r) /\ ~WorkerHolds(w, r)'
          => WorkerDone(w) \/ (LoadRows(w) /\ jobStatus[r] = "absent")
    <2>1. CASE \E pc \in WorkerPcs : pc # "idle" /\ worker[w].pc # "idle" /\ WorkerGoes(w, pc)
      BY <2>1, WorkerGoesFacts DEF WorkerHolds, IInv
    <2>2. CASE LoadRows(w)
      BY <2>2 DEF WorkerHolds, LoadRows, IInv, TypeOK
    <2> QED BY <2>1, <2>2
  <1> QED BY <1>1, <1>2, <1>3, <1>4 DEF Held

LEMMA ApiEndHolds ==
    ASSUME IInv, NEW c \in Clients, ApiDone(c) \/ ApiGoes(c, "enqueued"), UNCHANGED worker
    PROVE  \A r \in Runs :
             /\ \A d \in Clients : ApiHolds(d, r)' <=> ApiHolds(d, r) /\ d # c
             /\ \A x \in Workers : WorkerHolds(x, r)' <=> WorkerHolds(x, r)
  <1>1. /\ api'[c].pc # "committed"
        /\ \A d \in Clients : d # c => api'[d] = api[d]
    BY ApiGoesFacts, ApiDoneFacts DEF IInv, ApiPcs
  <1> QED BY <1>1 DEF ApiHolds, WorkerHolds

\* The job message on its way to Redis keeps its run held.
LEMMA EnqueueHolds ==
    ASSUME IInv, NEW c \in Clients, api[c].pc = "committed",
           queue' = Append(queue, api[c].run), UNCHANGED worker,
           ApiDone(c) \/ ApiGoes(c, "enqueued")
    PROVE  \A r \in Runs : Held(r)' <=> Held(r)
  <1> SUFFICES ASSUME NEW r \in Runs PROVE Held(r)' <=> Held(r)
    OBVIOUS
  <1>0. PICK q \in Runs : q = api[c].run
    BY DEF IInv, RunsWellFormed
  <1>1. QueueHolds(r)' <=> QueueHolds(r) \/ r = q
    BY <1>0, PushHolds
  <1>2. /\ \A d \in Clients : ApiHolds(d, r)' <=> ApiHolds(d, r) /\ d # c
        /\ \A x \in Workers : WorkerHolds(x, r)' <=> WorkerHolds(x, r)
    BY ApiEndHolds
  <1>3. ApiHolds(c, r) <=> r = q
    BY <1>0 DEF ApiHolds
  <1> QED BY <1>1, <1>2, <1>3 DEF Held

LEMMA DequeueHolds ==
    ASSUME IInv, NEW w \in Workers, Dequeue(w)
    PROVE  \A r \in Runs : Held(r)' <=> Held(r)
  <1> SUFFICES ASSUME NEW r \in Runs PROVE Held(r)' <=> Held(r)
    OBVIOUS
  <1>0. PICK h \in Runs : h = Head(queue)
    BY PopHolds DEF Dequeue
  <1>1. /\ QueueHolds(h)
        /\ QueueHolds(r)' => QueueHolds(r)
        /\ QueueHolds(r) => QueueHolds(r)' \/ r = h
    BY <1>0, PopHolds DEF Dequeue
  <1>2. /\ worker'[w].pc = "dequeued" /\ worker'[w].run = h
        /\ \A x \in Workers : x # w => worker'[x] = worker[x]
        /\ worker[w].pc = "idle"
    BY <1>0 DEF Dequeue, IInv, TypeOK
  <1>3. /\ \A x \in Workers : x # w => (WorkerHolds(x, r)' <=> WorkerHolds(x, r))
        /\ WorkerHolds(w, r)' <=> r = h
        /\ ~WorkerHolds(w, r)
        /\ \A d \in Clients : ApiHolds(d, r)' <=> ApiHolds(d, r)
    BY <1>2 DEF WorkerHolds, ApiHolds, Dequeue
  <1> QED BY <1>1, <1>3 DEF Held

\* Inserting a run makes it held and changes nobody else's hold.
LEMMA InsertHolds ==
    ASSUME IInv, NEW c \in Clients, NEW v \in Videos, NEW q \in Runs,
           UploadVideo(c, v, q) \/ ReprocessVideo(c, v, q)
    PROVE  \A r \in Runs : Held(r)' <=> Held(r) \/ r = q
  <1> SUFFICES ASSUME NEW r \in Runs PROVE Held(r)' <=> Held(r) \/ r = q
    OBVIOUS
  <1>1. /\ api[c].pc = "ready"
        /\ api'[c].pc = "committed" /\ api'[c].run = q
        /\ \A d \in Clients : d # c => api'[d] = api[d]
        /\ UNCHANGED <<queue, worker>>
    BY DEF UploadVideo, ReprocessVideo, CommitRunAndJob, IInv, TypeOK
  <1>2. /\ \A d \in Clients : d # c => (ApiHolds(d, r)' <=> ApiHolds(d, r))
        /\ ApiHolds(c, r)' <=> r = q
        /\ ~ApiHolds(c, r)
        /\ QueueHolds(r)' <=> QueueHolds(r)
        /\ \A x \in Workers : WorkerHolds(x, r)' <=> WorkerHolds(x, r)
    BY <1>1 DEF ApiHolds, QueueHolds, WorkerHolds
  <1> QED BY <1>2 DEF Held

\* A step that touches neither holders nor queue.
LEMMA SameHolds ==
    ASSUME UNCHANGED <<queue, api, worker>>
    PROVE  \A r \in Runs : Held(r)' <=> Held(r)
  BY DEF Held, ApiHolds, QueueHolds, WorkerHolds

\* Every step of a worker but Dequeue either moves it or sends it back to its loop.
WorkerMoves(w) ==
    /\ UNCHANGED <<queue, api>>
    /\ \/ WorkerDone(w)
       \/ \E pc \in WorkerPcs : pc # "idle" /\ worker[w].pc # "idle" /\ WorkerGoes(w, pc)
       \/ LoadRows(w)

WorkerFault(w) ==
    UsageFlushFails(w) \/ WorkerDatabaseFails(w) \/ WorkerRedisFails(w) \/ WorkerCrash(w)

LEMMA WorkerStepMoves ==
    ASSUME NEW w, WorkerStep(w) \/ WorkerFault(w), ~Dequeue(w)
    PROVE  WorkerMoves(w)
  <1>1. UNCHANGED <<queue, api>>
    BY DEF WorkerStep, WorkerFault, LoadRows, MarkRunning, PublishRunning, PipelineRaises,
           CommitCompleted, CommitError, PublishVerdict, PoisonedCommitRaises, UsageFlushFails,
           WorkerDatabaseFails, WorkerRedisFails, WorkerCrash
  <1>2. \/ WorkerDone(w)
        \/ \E pc \in WorkerPcs : pc # "idle" /\ worker[w].pc # "idle" /\ WorkerGoes(w, pc)
        \/ LoadRows(w)
    BY DEF WorkerStep, WorkerFault, MarkRunning, PublishRunning, PipelineRaises,
           CommitCompleted, CommitError, PublishVerdict, PoisonedCommitRaises, UsageFlushFails,
           WorkerDatabaseFails, WorkerRedisFails, WorkerCrash, WorkerPcs
  <1> QED BY <1>1, <1>2 DEF WorkerMoves

\* Nobody comes to hold a run that exists and that nobody held.
LEMMA HoldsComeFromHolds ==
    ASSUME IInv, [Next]_vars, NEW r \in Runs, Held(r)', runStatus[r] # "absent"
    PROVE  Held(r)
  <1>1. CASE UNCHANGED vars
    BY <1>1, SameHolds DEF vars
  <1>2. ASSUME NEW v \in Videos, UploadInit(v) PROVE Held(r)
    BY <1>2, SameHolds DEF UploadInit
  <1>3. ASSUME NEW c \in Clients, NEW v \in Videos, NEW q \in Runs,
               UploadVideo(c, v, q) \/ ReprocessVideo(c, v, q)
        PROVE  Held(r)
    BY <1>3, InsertHolds DEF UploadVideo, ReprocessVideo, CommitRunAndJob
  <1>4. ASSUME NEW c \in Clients, ApiStep(c) \/ ApiRedisFails(c) \/ ApiCrash(c) PROVE Held(r)
    <2>1. CASE UNCHANGED queue
      <3>1. QueueHolds(r)' <=> QueueHolds(r)
        BY <2>1 DEF QueueHolds
      <3>2. (ApiDone(c) \/ ApiGoes(c, "enqueued")) /\ UNCHANGED worker
        BY <1>4 DEF ApiStep, Enqueue, PublishCreated, ApiRedisFails, ApiCrash
      <3> QED BY <3>1, <3>2, ApiEndHolds DEF Held
    <2>2. CASE ~UNCHANGED queue
      <3>1. /\ api[c].pc = "committed" /\ queue' = Append(queue, api[c].run) /\ UNCHANGED worker
            /\ ApiDone(c) \/ ApiGoes(c, "enqueued")
        BY <1>4, <2>2 DEF ApiStep, Enqueue, PublishCreated, ApiRedisFails, ApiCrash
      <3> QED BY <3>1, EnqueueHolds
    <2> QED BY <2>1, <2>2
  <1>5. ASSUME NEW w \in Workers, WorkerStep(w) \/ WorkerFault(w) PROVE Held(r)
    <2>1. CASE Dequeue(w)
      BY <2>1, DequeueHolds
    <2>2. CASE ~Dequeue(w)
      BY <1>5, <2>2, WorkerStepMoves, WorkerMoveHolds DEF WorkerMoves
    <2> QED BY <2>1, <2>2
  <1> QED BY <1>1, <1>2, <1>3, <1>4, <1>5 DEF Next, WorkerFault

\* Only its holder moves a run that exists.
LEMMA OnlyHoldersMove ==
    ASSUME IInv, [Next]_vars, NEW r \in Runs, runStatus[r] # "absent", ~Held(r)
    PROVE  runStatus'[r] = runStatus[r]
  <1>1. CASE UNCHANGED runStatus
    BY <1>1
  <1>2. ASSUME NEW c \in Clients, NEW v \in Videos, NEW q \in Runs,
               UploadVideo(c, v, q) \/ ReprocessVideo(c, v, q)
        PROVE  runStatus'[r] = runStatus[r]
    BY <1>2 DEF UploadVideo, ReprocessVideo, CommitRunAndJob, IInv, TypeOK
  <1>3. ASSUME NEW w \in Workers, RowsWritten(w, worker[w].run)
        PROVE  runStatus'[r] = runStatus[r]
    <2>1. worker[w].run # r
      BY <1>3 DEF RowsWritten, Held, WorkerHolds
    <2> QED BY <1>3, <2>1 DEF RowsWritten, MarkRows, CompleteRows, ErrorRows, IInv, TypeOK
  <1>4. \/ UNCHANGED runStatus
        \/ \E c \in Clients, v \in Videos, q \in Runs : UploadVideo(c, v, q) \/ ReprocessVideo(c, v, q)
        \/ \E w \in Workers : RowsWritten(w, worker[w].run)
    <2>1. ASSUME NEW w \in Workers, MarkRunning(w) \/ CommitCompleted(w) \/ CommitError(w)
          PROVE  RowsWritten(w, worker[w].run)
      BY <2>1 DEF MarkRunning, CommitCompleted, CommitError, RowsWritten
    <2>2. ASSUME NEW w \in Workers, WorkerDatabaseFails(w)
          PROVE  UNCHANGED runStatus \/ RowsWritten(w, worker[w].run)
      BY <2>2 DEF WorkerDatabaseFails, RowsWritten, rows
    <2> QED BY <2>1, <2>2 DEF Next, vars, rows, UploadInit, ApiStep, Enqueue, PublishCreated, ApiRedisFails,
             ApiCrash, WorkerStep, Dequeue, LoadRows, PublishRunning, PipelineRaises, PublishVerdict,
             PoisonedCommitRaises, UsageFlushFails, WorkerRedisFails, WorkerCrash
  <1> QED BY <1>1, <1>2, <1>3, <1>4

\* A stranded run is stranded for ever: nothing in the system looks for it.
THEOREM StrandedForEver == Spec => NothingRecoversARun
  <1>1. IInv /\ [Next]_vars
          => [\A r \in Runs : Stranded(r) => Stranded(r)' /\ runStatus'[r] = runStatus[r]]_vars
    <2> SUFFICES ASSUME IInv, [Next]_vars, NEW r \in Runs, Stranded(r)
                 PROVE  Stranded(r)' /\ runStatus'[r] = runStatus[r]
      OBVIOUS
    <2>1. runStatus[r] # "absent" /\ ~Held(r)
      BY DEF Stranded, Unfinished
    <2>2. runStatus'[r] = runStatus[r]
      BY <2>1, OnlyHoldersMove
    <2>3. ~Held(r)'
      BY <2>1, HoldsComeFromHolds
    <2> QED BY <2>2, <2>3 DEF Stranded, Unfinished
  <1> QED BY <1>1, LifecycleInvariant, PTL DEF Spec, NothingRecoversARun

-----------------------------------------------------------------------------
(* Without a fault nothing is lost.                                         *)

NInv == /\ faults \in Nat
        /\ faults = 0 => \A r \in Runs : Unfinished(r) => Held(r)
        /\ \A w \in Workers : worker[w].pc = "poisoned" => faults > 0

\* A step that is no fault keeps every unfinished run with somebody.
LEMMA HoldsAreKept ==
    ASSUME IInv, NInv, [Next]_vars, UNCHANGED faults, faults = 0, NEW r \in Runs, Held(r), Unfinished(r)'
    PROVE  Held(r)'
  <1>0. \A k : ~Fault(k)
    BY DEF Fault
  <1>1. CASE UNCHANGED vars
    BY <1>1, SameHolds DEF vars
  <1>2. ASSUME NEW v \in Videos, UploadInit(v) PROVE Held(r)'
    BY <1>2, SameHolds DEF UploadInit
  <1>3. ASSUME NEW c \in Clients, NEW v \in Videos, NEW q \in Runs,
               UploadVideo(c, v, q) \/ ReprocessVideo(c, v, q)
        PROVE  Held(r)'
    BY <1>3, InsertHolds
  <1>4. ASSUME NEW c \in Clients, ApiStep(c) PROVE Held(r)'
    <2>1. CASE Enqueue(c)
      BY <2>1, EnqueueHolds DEF Enqueue
    <2>2. CASE PublishCreated(c)
      <3>1. QueueHolds(r)' <=> QueueHolds(r)
        BY <2>2 DEF QueueHolds, PublishCreated
      <3>2. \A d \in Clients : ApiHolds(d, r) => d # c
        BY <2>2 DEF PublishCreated, ApiHolds
      <3> QED BY <2>2, <3>1, <3>2, ApiEndHolds DEF Held, PublishCreated
    <2> QED BY <1>4, <2>1, <2>2 DEF ApiStep
  <1>5. ASSUME NEW w \in Workers, WorkerStep(w) PROVE Held(r)'
    <2>1. CASE Dequeue(w)
      BY <2>1, DequeueHolds
    <2>2. CASE ~Dequeue(w)
      <3>1. WorkerMoves(w)
        BY <1>5, <2>2, WorkerStepMoves
      <3>2. ASSUME ~Held(r)' PROVE FALSE
        <4>1. /\ WorkerHolds(w, r)
              /\ WorkerDone(w) \/ (LoadRows(w) /\ jobStatus[r] = "absent")
          BY <3>1, <3>2, WorkerMoveHolds DEF WorkerMoves
        <4>2. CASE LoadRows(w)
          BY <4>1, <4>2 DEF LoadRows, WorkerHolds, IInv, HolderStatus, RowsAgree, WorkerDone,
                            TypeOK, WorkerIdle
        <4>3. CASE PublishVerdict(w)
          BY <4>1, <4>3 DEF PublishVerdict, WorkerHolds, IInv, HolderStatus, Unfinished, rows
        <4>4. CASE PoisonedCommitRaises(w)
          BY <4>4 DEF PoisonedCommitRaises, NInv
        <4>5. CASE \E pc \in WorkerPcs : pc # "idle" /\ WorkerGoes(w, pc)
          <5>1. worker'[w].pc # "idle"
            BY <4>5, WorkerGoesFacts DEF IInv
          <5>2. ~WorkerDone(w)
            BY <5>1, WorkerDoneFacts DEF IInv
          <5>3. LoadRows(w)
            BY <4>1, <5>2
          <5> QED BY <4>2, <5>3
        <4>6. \/ LoadRows(w) \/ PublishVerdict(w) \/ PoisonedCommitRaises(w)
              \/ \E pc \in WorkerPcs : pc # "idle" /\ WorkerGoes(w, pc)
          BY <1>5, <2>2 DEF WorkerStep, MarkRunning, PublishRunning, PipelineRaises, CommitCompleted,
                            CommitError, WorkerPcs
        <4> QED BY <4>2, <4>3, <4>4, <4>5, <4>6
      <3> QED BY <3>2
    <2> QED BY <2>1, <2>2
  <1> QED BY <1>0, <1>1, <1>2, <1>3, <1>4, <1>5
          DEF Next, ApiRedisFails, ApiCrash, UsageFlushFails, WorkerDatabaseFails, WorkerRedisFails,
              WorkerCrash

\* A run comes into being only by an insertion, which leaves it with its request.
LEMMA NewRunsAreHeld ==
    ASSUME IInv, [Next]_vars, NEW r \in Runs, runStatus[r] = "absent", Unfinished(r)'
    PROVE  Held(r)'
  <1>1. PICK c \in Clients, v \in Videos, q \in Runs : UploadVideo(c, v, q) \/ ReprocessVideo(c, v, q)
    <2>1. runStatus'[r] # runStatus[r]
      BY DEF Unfinished
    <2>2. ASSUME NEW w \in Workers, RowsWritten(w, worker[w].run) PROVE runStatus'[r] = runStatus[r]
      <3>1. worker[w].run # r
        BY <2>2 DEF RowsWritten, IInv, HolderStatus
      <3> QED BY <2>2, <3>1 DEF RowsWritten, MarkRows, CompleteRows, ErrorRows, IInv, TypeOK
    <2>3. ASSUME NEW w \in Workers, MarkRunning(w) \/ CommitCompleted(w) \/ CommitError(w)
          PROVE  RowsWritten(w, worker[w].run)
      BY <2>3 DEF MarkRunning, CommitCompleted, CommitError, RowsWritten
    <2>4. ASSUME NEW w \in Workers, WorkerDatabaseFails(w)
          PROVE  UNCHANGED runStatus \/ RowsWritten(w, worker[w].run)
      BY <2>4 DEF WorkerDatabaseFails, RowsWritten, rows
    <2> QED BY <2>1, <2>2, <2>3, <2>4
            DEF Next, vars, rows, UploadInit, ApiStep, Enqueue, PublishCreated, ApiRedisFails,
             ApiCrash, WorkerStep, Dequeue, LoadRows, PublishRunning, PipelineRaises, PublishVerdict,
             PoisonedCommitRaises, UsageFlushFails, WorkerRedisFails, WorkerCrash
  <1>2. q = r
    BY <1>1 DEF UploadVideo, ReprocessVideo, CommitRunAndJob, IInv, TypeOK, Unfinished
  <1> QED BY <1>1, <1>2, InsertHolds

\* A step counts at most one fault.
LEMMA FaultsStep ==
    ASSUME [Next]_vars
    PROVE  faults' = faults \/ faults' = faults + 1
  BY DEF Next, vars, UploadInit, UploadVideo, ReprocessVideo, CommitRunAndJob, ApiStep, Enqueue,
         PublishCreated, ApiRedisFails, ApiCrash, WorkerStep, Dequeue, LoadRows, MarkRunning,
         PublishRunning, PipelineRaises, CommitCompleted, CommitError, PublishVerdict,
         PoisonedCommitRaises, UsageFlushFails, WorkerDatabaseFails, WorkerRedisFails, WorkerCrash, Fault

\* The fault counter is stepped by faults alone, and only a fault poisons a session.
LEMMA FaultsCounted ==
    ASSUME IInv, faults \in Nat, [Next]_vars,
           \A w \in Workers : worker[w].pc = "poisoned" => faults > 0
    PROVE  /\ faults' = faults \/ faults' = faults + 1
           /\ \A w \in Workers : worker'[w].pc = "poisoned" => faults' > 0
  <1>1. UNCHANGED faults \/ faults' = faults + 1
    BY FaultsStep
  <1>2. CASE faults' = faults + 1
    BY <1>1, <1>2
  <1>3. ASSUME UNCHANGED faults, NEW w \in Workers, worker'[w].pc = "poisoned"
        PROVE  worker[w].pc = "poisoned"
    <2>1. CASE UNCHANGED worker
      BY <1>3, <2>1
    <2>2. ASSUME NEW x \in Workers, WorkerStep(x) PROVE worker[w].pc = "poisoned"
      <3>1. CASE Dequeue(x)
        BY <1>3, <3>1 DEF Dequeue, IInv, TypeOK
      <3>2. CASE LoadRows(x)
        BY <1>3, <3>2 DEF LoadRows, IInv, TypeOK, WorkerIdle
      <3>3. CASE WorkerDone(x)
        BY <1>3, <3>3 DEF WorkerDone, IInv, TypeOK, WorkerIdle
      <3>4. CASE \E pc \in {"marked", "pipeline", "raised", "finished", "failed"} : WorkerGoes(x, pc)
        BY <1>3, <3>4 DEF WorkerGoes, IInv, TypeOK
      <3> QED BY <2>2, <3>1, <3>2, <3>3, <3>4
              DEF WorkerStep, MarkRunning, PublishRunning, PipelineRaises, CommitCompleted,
                  CommitError, PublishVerdict, PoisonedCommitRaises
    <2>3. \A k : ~Fault(k)
      BY <1>3 DEF Fault
    <2> QED BY <2>1, <2>2, <2>3
            DEF Next, vars, UploadInit, UploadVideo, ReprocessVideo, CommitRunAndJob, ApiStep,
             Enqueue, PublishCreated, ApiRedisFails, ApiCrash, UsageFlushFails, WorkerDatabaseFails,
             WorkerRedisFails, WorkerCrash
  <1> QED BY <1>1, <1>2, <1>3

LEMMA NextNInv == IInv /\ NInv /\ [Next]_vars => NInv'
  <1> SUFFICES ASSUME IInv, NInv, [Next]_vars PROVE NInv'
    OBVIOUS
  <1>1. /\ faults' \in Nat
        /\ faults' = 0 => faults = 0 /\ UNCHANGED faults
        /\ \A w \in Workers : worker'[w].pc = "poisoned" => faults' > 0
    BY FaultsCounted DEF NInv
  <1>2. ASSUME faults' = 0, NEW r \in Runs, Unfinished(r)' PROVE Held(r)'
    <2>1. faults = 0 /\ UNCHANGED faults
      BY <1>1, <1>2
    <2>2. Unfinished(r) \/ runStatus[r] = "absent"
      BY <1>2, StatusMovesAlongEdges DEF StatusMoves, Unfinished, IInv, TypeOK, RunStatuses
    <2>3. CASE Unfinished(r)
      BY <1>2, <2>1, <2>3, HoldsAreKept DEF NInv
    <2>4. CASE runStatus[r] = "absent"
      BY <1>2, <2>4, NewRunsAreHeld
    <2> QED BY <2>2, <2>3, <2>4
  <1> QED BY <1>1, <1>2 DEF NInv

\* Without a fault no run is lost between the database, the queue and the worker.
THEOREM NothingLostWithoutFault == Spec => []NoRunLostWithoutFault
  <1>1. Init => NInv
    BY DEF Init, NInv, WorkerIdle, Unfinished
  <1>2. NInv => NoRunLostWithoutFault
    BY DEF NInv, NoRunLostWithoutFault, Stranded
  <1> QED BY <1>1, <1>2, NextNInv, LifecycleInvariant, PTL DEF Spec

-----------------------------------------------------------------------------
(* Calls that wait.  WInv, the inductive invariant, adds to IInv what a call *)
(* knows between the answer's departure and its arrival: a terminal status it *)
(* carries is still the row's, and once the run is known to have ended in   *)
(* time the next answer will say so.                                       *)

Verdicts == {"completed", "error"}
WaitPcs  == {"ready", "polling", "answered"} \cup Ended

WaiterStates == [pc : WaitPcs, video : Videos \cup {NoVideo}, run : Runs \cup {NoRun},
                 elapsed : Nat, seen : RunStatuses, early : BOOLEAN]

\* What is known of a call at each of its steps.
CallOk(call) ==
    /\ call.pc \in {"polling", "answered", "returned", "timedout"} =>
          call.run \in Runs /\ call.video \in Videos
    /\ call.pc \in {"answered", "returned"} /\ call.seen \in Verdicts =>
          runStatus[call.run] = call.seen
    /\ call.pc = "returned" => call.seen \in Verdicts
    /\ call.pc \in {"polling", "answered"} => call.elapsed < Timeout + PollInterval
    /\ call.pc = "timedout" => call.elapsed >= Timeout /\ call.elapsed < Horizon
    /\ call.pc \in {"polling", "answered", "timedout"} /\ call.early =>
          /\ Over(call.run)
          /\ runVideo[call.run] = call.video =>
                call.pc # "timedout" /\ (call.pc = "answered" => call.seen \in Verdicts)

WInv ==
    /\ IInv
    /\ waiter \in [Waiters -> WaiterStates]
    /\ \A m \in Waiters : CallOk(waiter[m])

-----------------------------------------------------------------------------
(* The system, seen by a call.                                              *)

\* A run that exists stays with its video.
LEMMA VideoOfARunIsFixed ==
    IInv /\ [Next]_vars =>
        \A r \in Runs : runStatus[r] # "absent" => runVideo'[r] = runVideo[r]
<1> SUFFICES ASSUME IInv, [Next]_vars, NEW r \in Runs, runStatus[r] # "absent"
             PROVE  runVideo'[r] = runVideo[r]
  OBVIOUS
<1>1. CASE UNCHANGED runVideo
  BY <1>1
<1>2. ASSUME NEW c \in Clients, NEW v \in Videos, NEW q \in Runs,
             UploadVideo(c, v, q) \/ ReprocessVideo(c, v, q)
      PROVE  runVideo'[r] = runVideo[r]
  BY <1>2 DEF UploadVideo, ReprocessVideo, CommitRunAndJob, IInv, TypeOK
<1>3. ASSUME NEW w \in Workers,
             WorkerStep(w) \/ UsageFlushFails(w) \/ WorkerDatabaseFails(w) \/ WorkerRedisFails(w)
             \/ WorkerCrash(w)
      PROVE  UNCHANGED runVideo
  BY <1>3 DEF WorkerStep, Dequeue, LoadRows, MarkRunning, PublishRunning, PipelineRaises,
              CommitCompleted, CommitError, PublishVerdict, PoisonedCommitRaises, UsageFlushFails,
              WorkerDatabaseFails, WorkerRedisFails, WorkerCrash, MarkRows, CompleteRows, ErrorRows,
              rows
<1>4. ASSUME NEW c \in Clients, ApiStep(c) \/ ApiRedisFails(c) \/ ApiCrash(c)
      PROVE  UNCHANGED runVideo
  BY <1>4 DEF ApiStep, Enqueue, PublishCreated, ApiRedisFails, ApiCrash, rows
<1>5. CASE UNCHANGED vars \/ \E v \in Videos : UploadInit(v)
  BY <1>5 DEF vars, rows, UploadInit
<1> QED
  BY <1>1, <1>2, <1>3, <1>4, <1>5 DEF Next

\* Whatever the system does, what a call knows stays true: verdicts are final.
LEMMA SystemKeepsCalls ==
    ASSUME WInv, [Next]_vars, NEW m \in Waiters, waiter'[m] = waiter[m]
    PROVE  CallOk(waiter[m])'
<1>1. \A r \in Runs : Over(r) => runStatus'[r] = runStatus[r] /\ runVideo'[r] = runVideo[r]
  BY StatusMovesAlongEdges, VideoOfARunIsFixed DEF WInv, StatusMoves, Over
<1>2. PICK call : call = waiter[m]
  OBVIOUS
<1>3. CallOk(call)
  BY <1>2 DEF WInv
<1> QED
  BY <1>1, <1>2, <1>3 DEF CallOk, Over, Verdicts

-----------------------------------------------------------------------------
(* The call's own steps.                                                    *)

\* A step of one call, from a good state to a good state.
LEMMA OneCallSteps ==
    ASSUME WInv, UNCHANGED vars, NEW m \in Waiters, NEW call \in WaiterStates,
           waiter' = [waiter EXCEPT ![m] = call], CallOk(call)
    PROVE  WInv'
<1>1. IInv'
  BY NextIInv DEF WInv
<1>2. UNCHANGED <<runStatus, runVideo>>
  BY DEF vars, rows
<1>3. waiter' \in [Waiters -> WaiterStates] /\ waiter'[m] = call
      /\ \A n \in Waiters \ {m} : waiter'[n] = waiter[n]
  BY DEF WInv
<1>4. ASSUME NEW n \in Waiters
      PROVE  CallOk(waiter[n])'
  <2>1. CASE n = m
    BY <1>2, <1>3, <2>1 DEF CallOk, Over
  <2>2. CASE n # m
    BY <1>3, <2>2, SystemKeepsCalls
  <2> QED
    BY <2>1, <2>2
<1> QED
  BY <1>1, <1>3, <1>4 DEF WInv

\* A call begins, or ends with an error that is raised.
LEMMA BeginOrAbort ==
    ASSUME WInv, NEW m \in Waiters,
           \/ \E v \in Videos, r \in Awaited : StartWait(m, v, r)
           \/ VideoNotFound(m) \/ PollFails(m)
    PROVE  WInv'
<1>1. Awaited \subseteq Runs /\ Timeout \in Nat /\ PollInterval \in Nat \ {0}
  BY WaitAssumption
<1>2. ASSUME NEW v \in Videos, NEW r \in Awaited, StartWait(m, v, r)
      PROVE  WInv'
  <2> DEFINE call == [NoWait EXCEPT !.pc = "polling", !.video = v, !.run = r]
  <2>1. call \in WaiterStates
    BY <1>1 DEF NoWait, WaiterStates, WaitPcs, Ended, RunStatuses
  <2>2. call.pc = "polling" /\ call.run = r /\ call.video = v /\ call.elapsed = 0 /\ ~call.early
    BY DEF NoWait
  <2>3. CallOk(call)
    BY <1>1, <2>2 DEF CallOk
  <2> QED
    BY <1>2, <2>1, <2>3, OneCallSteps DEF StartWait
<1>3. ASSUME VideoNotFound(m) \/ PollFails(m)
      PROVE  WInv'
  <2> DEFINE call == [NoWait EXCEPT !.pc = "aborted"]
  <2>1. call \in WaiterStates
    BY DEF NoWait, WaiterStates, WaitPcs, Ended, RunStatuses
  <2>2. CallOk(call)
    BY DEF CallOk, NoWait
  <2> QED
    BY <1>3, <2>1, <2>2, OneCallSteps DEF VideoNotFound, PollFails
<1> QED
  BY <1>2, <1>3

\* The API answers with the row as it is now.
LEMMA ListRunsKeeps ==
    ASSUME WInv, NEW m \in Waiters, ListRuns(m)
    PROVE  WInv'
<1> DEFINE now == Listed(waiter[m].video, waiter[m].run)
           call == [waiter[m] EXCEPT !.pc = "answered", !.early = EarlyNow(m), !.seen = now]
<1>1. waiter[m] \in WaiterStates /\ waiter[m].pc = "polling" /\ CallOk(waiter[m])
  BY DEF WInv, ListRuns
<1>2. waiter[m].run \in Runs /\ now \in RunStatuses
  BY <1>1 DEF CallOk, Listed, WInv, IInv, TypeOK, RunStatuses
<1>3. /\ EarlyNow(m) \in BOOLEAN
      /\ EarlyNow(m) => Over(waiter[m].run)
  BY <1>1 DEF EarlyNow, Over, CallOk, WaiterStates
<1>4. call \in WaiterStates
  BY <1>1, <1>2, <1>3 DEF WaiterStates, WaitPcs
<1>5. /\ call.pc = "answered" /\ call.run = waiter[m].run /\ call.video = waiter[m].video
      /\ call.elapsed = waiter[m].elapsed /\ call.seen = now /\ call.early = EarlyNow(m)
  BY <1>1 DEF WaiterStates
<1>6. now \in Verdicts => runStatus[waiter[m].run] = now
  BY DEF Listed, Verdicts
<1>7. Over(waiter[m].run) /\ runVideo[waiter[m].run] = waiter[m].video => now \in Verdicts
  BY DEF Over, Listed, Verdicts
<1>8. CallOk(call)
  BY <1>1, <1>2, <1>3, <1>5, <1>6, <1>7 DEF CallOk
<1>9. waiter' = [waiter EXCEPT ![m] = call] /\ UNCHANGED vars
  BY DEF ListRuns
<1> QED
  BY <1>4, <1>8, <1>9, OneCallSteps

\* The three ways to leave an answer behind, field by field: the verdict is returned,
LEMMA ReturnsFacts ==
    ASSUME NEW call \in WaiterStates, NEW now \in Nat
    PROVE  LET new == Returns(call) IN
           /\ new \in WaiterStates
           /\ new.run = call.run /\ new.video = call.video
           /\ new.pc = "returned" /\ new.seen = call.seen
BY DEF Returns, WaiterStates, WaitPcs, Ended, RunStatuses

\* it is too late,
LEMMA TimesOutFacts ==
    ASSUME NEW call \in WaiterStates, NEW now \in Nat
    PROVE  LET new == TimesOut(call, now) IN
           /\ new \in WaiterStates
           /\ new.run = call.run /\ new.video = call.video
           /\ new.pc = "timedout" /\ new.elapsed = now /\ new.early = call.early
BY DEF TimesOut, WaiterStates, WaitPcs, Ended, RunStatuses

\* or the call sleeps.
LEMMA SleepsFacts ==
    ASSUME NEW call \in WaiterStates, NEW now \in Nat
    PROVE  LET new == Sleeps(call, now) IN
           /\ new \in WaiterStates
           /\ new.run = call.run /\ new.video = call.video
           /\ new.pc = "polling" /\ new.elapsed = now + PollInterval /\ new.early = call.early
<1>1. now + PollInterval \in Nat
  BY WaitAssumption
<1> QED
  BY <1>1 DEF Sleeps, WaiterStates, WaitPcs, Ended, RunStatuses

\* The answer arrives: it is returned, or it is too late, or the call sleeps.  A call that
\* finds itself too late has not learnt just now that its run was over in time.
LEMMA ReceiveRunsKeeps ==
    ASSUME WInv, NEW m \in Waiters, ReceiveRuns(m)
    PROVE  WInv'
<1>1. PICK d \in 0..MaxLatency :
         waiter' = [waiter EXCEPT ![m] =
             Decide([waiter[m] EXCEPT !.early = EarlyNow(m)], waiter[m].elapsed + d)]
  BY DEF ReceiveRuns
<1>2. PICK old \in WaiterStates : old = waiter[m] /\ CallOk(old) /\ old.pc = "answered"
  BY DEF WInv, ReceiveRuns
<1>3. PICK now \in Nat : now = old.elapsed + d
  BY WaitAssumption DEF WaiterStates
<1>4. /\ Timeout \in Nat /\ PollInterval \in Nat /\ MaxLatency \in Nat /\ d \in Nat
      /\ d <= MaxLatency /\ old.elapsed \in Nat /\ old.elapsed < Timeout + PollInterval
      /\ now < Horizon /\ old.run \in Runs /\ old.video \in Videos
  BY <1>2, <1>3, WaitAssumption DEF CallOk, WaiterStates, Horizon
<1>5. PICK early \in BOOLEAN :
         early = EarlyNow(m) /\ (early => Over(old.run)) /\ (now >= Timeout /\ early => old.early)
  <2>1. /\ EarlyNow(m) \in BOOLEAN
        /\ EarlyNow(m) => Over(old.run)
        /\ now >= Timeout /\ EarlyNow(m) => old.early
    BY <1>2, <1>3, <1>4 DEF EarlyNow, Over, CallOk, WaiterStates
  <2> QED
    BY <2>1
<1>6. PICK call \in WaiterStates :
         /\ call = [old EXCEPT !.early = early] /\ call.run = old.run /\ call.early = early
         /\ call.video = old.video /\ call.seen = old.seen /\ old.seen \in RunStatuses
  <2>1. [old EXCEPT !.early = early] \in WaiterStates
    BY DEF WaiterStates
  <2> QED
    BY <2>1 DEF WaiterStates
<1>7. old.seen \in TerminalStatuses <=> old.seen \in Verdicts
  BY <1>6 DEF TerminalStatuses, Verdicts, RunStatuses
<1>8. PICK new : new = Decide(call, now)
  OBVIOUS
<1>9. new \in WaiterStates /\ CallOk(new)
  <2>1. CASE old.seen \in Verdicts
    <3>1. new = Returns(call)
      BY <1>6, <1>7, <1>8, <2>1 DEF Decide
    <3>2. /\ new \in WaiterStates /\ new.pc = "returned" /\ new.run = old.run
          /\ new.video = old.video /\ new.seen = old.seen
      BY <1>6, <3>1, ReturnsFacts
    <3> QED
      BY <1>2, <1>4, <2>1, <3>2 DEF CallOk
  <2>2. CASE old.seen \notin Verdicts /\ now >= Timeout
    <3>1. new = TimesOut(call, now)
      BY <1>6, <1>7, <1>8, <2>2 DEF Decide
    <3>2. /\ new \in WaiterStates /\ new.pc = "timedout" /\ new.run = old.run
          /\ new.video = old.video /\ new.elapsed = now /\ new.early = early
      BY <1>6, <3>1, TimesOutFacts
    <3>3. early => runVideo[old.run] # old.video
      BY <1>2, <1>5, <2>2 DEF CallOk
    <3> QED
      BY <1>4, <1>5, <2>2, <3>2, <3>3 DEF CallOk
  <2>3. CASE old.seen \notin Verdicts /\ ~(now >= Timeout)
    <3>1. new = Sleeps(call, now)
      BY <1>6, <1>7, <1>8, <2>3 DEF Decide
    <3>2. /\ new \in WaiterStates /\ new.pc = "polling" /\ new.run = old.run
          /\ new.video = old.video /\ new.elapsed = now + PollInterval /\ new.early = early
      BY <1>6, <3>1, SleepsFacts
    <3> QED
      BY <1>4, <1>5, <2>3, <3>2 DEF CallOk
  <2> QED
    BY <2>1, <2>2, <2>3
<1>10. waiter' = [waiter EXCEPT ![m] = new] /\ UNCHANGED vars
  BY <1>1, <1>2, <1>3, <1>5, <1>6, <1>8 DEF ReceiveRuns
<1> QED
  BY <1>9, <1>10, OneCallSteps

-----------------------------------------------------------------------------
(* The invariant.                                                           *)

\* No call has begun.
LEMMA InitWInv == WaitInit => WInv
<1> SUFFICES ASSUME WaitInit PROVE WInv
  OBVIOUS
<1>1. NoWait \in WaiterStates /\ CallOk(NoWait)
  BY DEF NoWait, WaiterStates, WaitPcs, RunStatuses, CallOk
<1> QED
  BY <1>1, InitIInv DEF WaitInit, WInv

\* The system's steps and the calls' steps keep it.
LEMMA NextWInv == WInv /\ [WaitNext]_waitVars => WInv'
<1> SUFFICES ASSUME WInv, [WaitNext]_waitVars PROVE WInv'
  OBVIOUS
<1>1. CASE [Next]_vars /\ UNCHANGED waiter
  BY <1>1, NextIInv, SystemKeepsCalls DEF WInv
<1>2. ASSUME NEW m \in Waiters,
             \/ \E v \in Videos, r \in Awaited : StartWait(m, v, r)
             \/ WaiterStep(m) \/ PollFails(m)
      PROVE  WInv'
  BY <1>2, BeginOrAbort, ListRunsKeeps, ReceiveRunsKeeps DEF WaiterStep
<1> QED
  BY <1>1, <1>2 DEF WaitNext, waitVars

\* The inductive invariant: a terminal status on its way is still the row's, clocks stay below
\* the horizon, and a run that ended early enough is reported by the next answer.
THEOREM WaitInvariant == WaitSpec => []WInv
BY InitWInv, NextWInv, PTL DEF WaitSpec

\* Waiting disturbs nothing: beside its calls the system behaves as RunLifecycle says, so
\* everything proved of RunLifecycle holds here.
THEOREM WaitingOnlyWatches == WaitSpec => Spec
<1>1. WaitInit => Init
  BY DEF WaitInit
<1>2. [WaitNext]_waitVars => [Next]_vars
  BY DEF WaitNext, waitVars, StartWait, WaiterStep, ListRuns, VideoNotFound, ReceiveRuns, PollFails
<1> QED
  BY <1>1, <1>2, PTL DEF WaitSpec, Spec

\* What wait_for_run_completion returns stays the run's status, and with "completed" its
\* outputs are there.
THEOREM ReturnedStaysFinal == WaitSpec => []ReturnedIsFinal
<1>1. WInv => ReturnedIsFinal
  <2> SUFFICES ASSUME WInv, NEW m \in Waiters, waiter[m].pc = "returned"
               PROVE  /\ Over(waiter[m].run)
                      /\ runStatus[waiter[m].run] = waiter[m].seen
                      /\ waiter[m].seen = "completed" => waiter[m].run \in outputs
    BY DEF ReturnedIsFinal
  <2>1. /\ waiter[m].run \in Runs /\ waiter[m].seen \in Verdicts
        /\ runStatus[waiter[m].run] = waiter[m].seen
    BY DEF WInv, CallOk
  <2> QED
    BY <2>1 DEF WInv, IInv, RowsAgree, Over, Verdicts
<1> QED
  BY <1>1, WaitInvariant, PTL

\* PollingTimeout comes after the timeout, within one sleep and one request of it, and never
\* about a run that was over more than a latency before the deadline.
THEOREM TimeoutStaysHonest == WaitSpec => []TimeoutIsHonest
<1>1. WInv => TimeoutIsHonest
  <2>1. Horizon \in Nat /\ Timeout \in Nat
    BY WaitAssumption DEF Horizon
  <2>2. ASSUME WInv, NEW m \in Waiters, waiter[m].pc = "timedout"
        PROVE  /\ waiter[m].elapsed \in Timeout..(Horizon - 1)
               /\ runVideo[waiter[m].run] = waiter[m].video => ~waiter[m].early
    <3>1. waiter[m].elapsed \in Nat /\ CallOk(waiter[m])
      BY <2>2 DEF WInv, WaiterStates
    <3> QED
      BY <2>1, <2>2, <3>1 DEF CallOk
  <2> QED
    BY <2>2 DEF TimeoutIsHonest
<1> QED
  BY <1>1, WaitInvariant, PTL

=============================================================================

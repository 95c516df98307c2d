-------------------------- MODULE SharedQueueProofs --------------------------
(***************************************************************************)
(* SharedQueue for every set of runs, requests, workers and endpoints,     *)
(* every number of attempts, every choice of faults and every bound:       *)
(* nothing is lost of what RunLifecycleProofs and WebhookDeliveryProofs    *)
(* prove of the two parts when they share the list and the workers; no     *)
(* retry passes a waiting run twice; and what the endpoints are told is    *)
(* true.                                                                   *)
(***************************************************************************)
EXTENDS SharedQueue, ListProofs

\* The theorems of the two parts, of their share of this state.

\* Nobody waits for a run here.
RP == INSTANCE RunLifecycleProofs
    WITH queue   <- JobsOn(list),
         Waiters <- {}, Awaited <- {}, Timeout <- 0, PollInterval <- 1, MaxLatency <- 0,
         waiter  <- [m \in {} |-> m]

DP == INSTANCE WebhookDeliveryProofs
    WITH queue     <- DeliveriesOn(list),
         worker    <- courier,
         Events    <- RunEvents,
         EventType <- [v \in RunEvents |-> v[2]]

\* The steps of the two parts are those of the parts' proofs.
LEMMA SameJobSteps == R!Next <=> RP!Next
  BY Zenon DEF R!Next, RP!Next, R!UploadInit, RP!UploadInit, R!UploadVideo, RP!UploadVideo, R!ReprocessVideo, RP!ReprocessVideo,
     R!CommitRunAndJob, RP!CommitRunAndJob, R!ApiStep, RP!ApiStep, R!Enqueue, RP!Enqueue, R!PublishCreated, RP!PublishCreated,
     R!ApiRedisFails, RP!ApiRedisFails, R!ApiCrash, RP!ApiCrash, R!ApiGoes, RP!ApiGoes, R!ApiDone, RP!ApiDone, R!ApiReady, RP!ApiReady,
     R!Fault, RP!Fault, R!rows, RP!rows,
     R!UsageFlushFails, RP!UsageFlushFails, R!WorkerDatabaseFails, RP!WorkerDatabaseFails, R!WorkerRedisFails, RP!WorkerRedisFails,
     R!WorkerCrash, RP!WorkerCrash,
     R!WorkerStep, RP!WorkerStep, R!Dequeue, RP!Dequeue, R!LoadRows, RP!LoadRows, R!MarkRunning, RP!MarkRunning,
     R!PublishRunning, RP!PublishRunning, R!PipelineRaises, RP!PipelineRaises, R!CommitCompleted, RP!CommitCompleted,
     R!CommitError, RP!CommitError, R!PublishVerdict, RP!PublishVerdict, R!PoisonedCommitRaises, RP!PoisonedCommitRaises,
     R!WorkerGoes, RP!WorkerGoes, R!WorkerDone, RP!WorkerDone, R!Publish, RP!Publish, R!MarkRows, RP!MarkRows,
     R!CompleteRows, RP!CompleteRows, R!ErrorRows, RP!ErrorRows, R!WorkerIdle, RP!WorkerIdle

\* So are the two instances of WebhookDelivery.
LEMMA SameDeliverySteps == D!Next <=> DP!Next
  BY Zenon DEF D!Next, DP!Next, D!CreateWebhook, DP!CreateWebhook, D!UpdateWebhook, DP!UpdateWebhook, D!DeleteWebhook, DP!DeleteWebhook,
     D!Edit, DP!Edit, D!Fault, DP!Fault, D!SelectEndpoints, DP!SelectEndpoints, D!Pushed, DP!Pushed, D!Push, DP!Push, D!PushFails, DP!PushFails,
     D!PublisherStops, DP!PublisherStops, D!PublisherStep, DP!PublisherStep, D!Deliveries, DP!Deliveries,
     D!Mine, DP!Mine, D!WorkerGoes, DP!WorkerGoes, D!WorkerDone, DP!WorkerDone, D!Idle, DP!Idle,
     D!Take, DP!Take, D!LoadEndpoint, DP!LoadEndpoint, D!LoadFails, DP!LoadFails, D!Post, DP!Post, D!Stamp, DP!Stamp, D!Exists, DP!Exists,
     D!StampResult, DP!StampResult, D!EmitUsage, DP!EmitUsage, D!Again, DP!Again, D!RetryOrGiveUp, DP!RetryOrGiveUp,
     D!RetryFails, DP!RetryFails, D!BookkeepingFails, DP!BookkeepingFails, D!WorkerCrash, DP!WorkerCrash, D!WorkerStep, DP!WorkerStep

-----------------------------------------------------------------------------
(* The inductive invariant.                                                *)

Messages == Runs \cup DeliveryMessages

\* The list holds jobs and deliveries, and a process tells of an event or of none.
ListTyped ==
    /\ list \in Seq(Messages)
    /\ overtaken \in [Runs -> SUBSET (Endpoints \X RunEvents)]

TellingTyped == telling \in [Processes -> RunEvents \cup {NoEvent}]

\* What was taken from the list while a run waits is not in front of that run again.
OvertakenStayBehind ==
    /\ \A r \in Runs : ~Contains(list, r) => overtaken[r] = {}
    /\ \A i, j \in 1..Len(list) :
          i < j /\ list[i] \in DeliveryMessages /\ list[j] \in Runs
              => list[i].delivery \notin overtaken[list[j]]

ListInv == ListTyped /\ OvertakenStayBehind

SInv == RP!IInv /\ DP!IInv /\ ListInv /\ TellingTyped

\* The assumptions of the two parts, as their proofs state them.
LEMMA PartsAssumed == RP!LifecycleAssumption /\ RP!WaitAssumption /\ DP!DeliveryAssumption
  BY QueueAssumption DEF QueueAssumption, R!LifecycleAssumption, D!DeliveryAssumption,
     RP!LifecycleAssumption, RP!WaitAssumption, DP!DeliveryAssumption, R!FaultKinds, RP!FaultKinds, D!Deliveries, DP!Deliveries

-----------------------------------------------------------------------------
(* What is done to the list.                                               *)

\* A job and a delivery message are told apart.
LEMMA TwoTypes == \A m \in Messages : m \in Runs <=> m \notin DeliveryMessages
  BY QueueAssumption DEF QueueAssumption, Messages

\* A message at the tail is seen by its own side only.
LEMMA PushSeen ==
    ASSUME ListTyped, NEW m \in Messages, list' = Append(list, m)
    PROVE  /\ m \in Runs => DeliveriesOn(list)' = DeliveriesOn(list)
           /\ m \in DeliveryMessages => JobsOn(list)' = JobsOn(list)
  BY TwoTypes, SelectedAppend DEF ListTyped, JobsOn, DeliveriesOn

\* So is the message that is taken from the head.
LEMMA PopSeen ==
    ASSUME ListTyped, list # <<>>, list' = Tail(list)
    PROVE  /\ Head(list) \in Messages
           /\ Head(list) \in Runs => DeliveriesOn(list)' = DeliveriesOn(list)
           /\ Head(list) \in DeliveryMessages => JobsOn(list)' = JobsOn(list)
           /\ Head(list) \in DeliveryMessages => Head(DeliveriesOn(list)) = Head(list)
  BY TwoTypes, SelectedTail DEF ListTyped, JobsOn, DeliveriesOn

\* A run on the list is one the run's side sees there.
LEMMA WaitingRunsSeen ==
    ASSUME ListTyped, NEW r \in Runs, Contains(list, r)
    PROVE  RP!QueueHolds(r)
  <1>1. PICK at : Positions(at, JobsOn(list), list, Runs, Len(list))
    BY SelectedPlaces DEF ListTyped, JobsOn
  <1>2. PICK i \in 1..Len(list) : list[i] = r
    BY DEF Contains
  <1>3. PICK k \in 1..Len(JobsOn(list)) : at[k] = i
    BY <1>1, <1>2 DEF Positions
  <1> QED BY <1>1, <1>2, <1>3 DEF Positions, RP!QueueHolds

\* No two messages of the list are about one delivery.
LEMMA DeliveriesDistinct ==
    ASSUME ListTyped, DP!IInv, NEW i \in 1..Len(list), NEW j \in 1..Len(list),
           list[i] \in DeliveryMessages, list[j] \in DeliveryMessages,
           list[i].delivery = list[j].delivery
    PROVE  i = j
  <1>1. PICK at : Positions(at, DeliveriesOn(list), list, DeliveryMessages, Len(list))
    BY SelectedPlaces DEF ListTyped, DeliveriesOn
  <1>2. PICK k \in 1..Len(DeliveriesOn(list)), n \in 1..Len(DeliveriesOn(list)) : at[k] = i /\ at[n] = j
    BY <1>1 DEF Positions
  <1>3. DeliveriesOn(list)[k] = list[i] /\ DeliveriesOn(list)[n] = list[j]
    BY <1>1, <1>2 DEF Positions
  <1>4. k = n
    BY <1>3 DEF DP!IInv, DP!SingleCarrier
  <1> QED BY <1>2, <1>4

-----------------------------------------------------------------------------
(* The history of the list is kept.                                        *)

LEMMA ListKept ==
    ASSUME ListInv, SameList \/ ListBecomes(list, {})
    PROVE  ListInv'
  <1>1. list' = list
    BY DEF SameList, ListBecomes
  <1>2. overtaken' = overtaken
    <2>1. CASE SameList
      BY <2>1 DEF SameList
    <2>2. CASE ListBecomes(list, {})
      BY <2>2 DEF ListBecomes, ListInv, ListTyped, OvertakenStayBehind
    <2> QED BY <2>1, <2>2
  <1> QED BY <1>1, <1>2 DEF ListInv, ListTyped, OvertakenStayBehind, Contains

\* A delivery goes behind every run, and a run that waits nowhere yet has seen none taken.
LEMMA ListGrows ==
    ASSUME ListInv, NEW m \in Messages, ListBecomes(Append(list, m), {}),
           m \in Runs => ~Contains(list, m)
    PROVE  ListInv'
  <1> USE DEF ListInv
  <1>1. /\ list' \in Seq(Messages)
        /\ Len(list) \in Nat
        /\ Len(list') = Len(list) + 1
        /\ \A i \in 1..Len(list) : list'[i] = list[i]
        /\ list'[Len(list) + 1] = m
    BY DEF ListBecomes, ListTyped
  <1>2. \A r \in Runs : Contains(list, r) => Contains(Append(list, m), r)
    BY <1>1 DEF ListBecomes, Contains
  <1>3. overtaken' = overtaken
    BY <1>2 DEF ListBecomes, ListTyped, OvertakenStayBehind
  <1>4. ListTyped'
    BY <1>1, <1>3 DEF ListTyped
  <1>5. \A r \in Runs : ~Contains(list', r) => overtaken'[r] = {}
    BY <1>2, <1>3 DEF ListBecomes, OvertakenStayBehind
  <1>6. ASSUME NEW i \in 1..Len(list'), NEW j \in 1..Len(list'), i < j,
               list'[i] \in DeliveryMessages, list'[j] \in Runs
        PROVE  list'[i].delivery \notin overtaken'[list'[j]]
    <2>1. i \in 1..Len(list) /\ list'[i] = list[i]
      BY <1>1, <1>6
    <2>2. CASE j \in 1..Len(list)
      BY <1>1, <1>3, <1>6, <2>1, <2>2 DEF OvertakenStayBehind
    <2>3. CASE j = Len(list) + 1
      BY <1>1, <1>3, <1>6, <2>1, <2>3 DEF OvertakenStayBehind
    <2> QED BY <1>1, <2>2, <2>3
  <1> QED BY <1>4, <1>5, <1>6 DEF OvertakenStayBehind

\* Taking the head: what is taken is not on the list any more.
LEMMA ListShrinks ==
    ASSUME ListInv, DP!IInv, list # <<>>, NEW taken, ListBecomes(Tail(list), taken),
           \/ Head(list) \in Runs /\ taken = {}
           \/ Head(list) \in DeliveryMessages /\ taken = {Head(list).delivery}
    PROVE  ListInv'
  <1> USE DEF ListInv
  <1>1. /\ list' \in Seq(Messages)
        /\ Len(list) \in Nat \ {0}
        /\ Len(list') = Len(list) - 1
        /\ Head(list) = list[1]
        /\ \A i \in 1..Len(list') : list'[i] = list[i + 1]
    BY DEF ListBecomes, ListTyped
  <1>2. /\ overtaken' = [r \in Runs |-> IF Contains(list', r) THEN overtaken[r] \cup taken ELSE {}]
        /\ list' = Tail(list)
    BY DEF ListBecomes
  <1>3. taken \in SUBSET (Endpoints \X RunEvents)
    BY DEF DeliveryMessages
  <1>4. ListTyped'
    BY <1>1, <1>2, <1>3 DEF ListTyped
  <1>5. \A r \in Runs : ~Contains(list', r) => overtaken'[r] = {}
    BY <1>2
  <1>6. ASSUME NEW i \in 1..Len(list'), NEW j \in 1..Len(list'), i < j,
               list'[i] \in DeliveryMessages, list'[j] \in Runs
        PROVE  list'[i].delivery \notin overtaken'[list'[j]]
    <2>1. /\ i + 1 \in 1..Len(list) /\ j + 1 \in 1..Len(list) /\ i + 1 < j + 1 /\ 1 \in 1..Len(list)
          /\ i + 1 # 1
          /\ list'[i] = list[i + 1] /\ list'[j] = list[j + 1]
      BY <1>1, <1>6
    <2>2. list'[i].delivery \notin overtaken[list'[j]]
      BY <1>6, <2>1 DEF OvertakenStayBehind
    <2>3. list'[i].delivery \notin taken
      BY <1>1, <1>6, <2>1, DeliveriesDistinct
    <2> QED BY <1>2, <1>6, <2>2, <2>3
  <1> QED BY <1>4, <1>5, <1>6 DEF OvertakenStayBehind

-----------------------------------------------------------------------------
(* What a step of one part, or of none, does to the invariants of both.    *)

\* A step of the run's side keeps its invariant, and counts faults upwards.
LEMMA JobStepKeeps ==
    ASSUME RP!IInv, R!Next
    PROVE  RP!IInv' /\ DP!FaultsGrow
  <1>1. [RP!Next]_(RP!vars)
    BY SameJobSteps
  <1>2. RP!IInv'
    BY <1>1, PartsAssumed, RP!NextIInv
  <1>3. faults' = faults \/ faults' = faults + 1
    BY <1>1, PartsAssumed, RP!FaultsStep
  <1>4. faults \in 0..MaxFaults /\ faults' \in 0..MaxFaults
    BY <1>2 DEF RP!IInv, RP!TypeOK
  <1> QED BY <1>2, <1>3, <1>4 DEF DP!FaultsGrow

\* Nothing of the run's side changes but the faults.
LEMMA JobsAside ==
    ASSUME RP!IInv, UNCHANGED <<jobSide, JobsOn(list)>>, DP!FaultsGrow
    PROVE  RP!IInv'
  <1>1. UNCHANGED <<RP!rows, JobsOn(list), api, worker, events>>
    BY DEF jobSide, RP!rows
  <1>2. RP!SideTyped
    BY <1>1 DEF RP!IInv, RP!TypeOK, RP!SideTyped, DP!FaultsGrow
  <1> QED BY <1>1, <1>2, PartsAssumed, RP!FaultElsewhere

\* A step of the deliveries' side keeps its invariant, and counts faults upwards.
LEMMA DeliveryStepKeeps ==
    ASSUME DP!IInv, D!Next
    PROVE  DP!IInv'
  <1>1. [DP!Next]_(DP!vars)
    BY SameDeliverySteps
  <1> QED BY <1>1, PartsAssumed, DP!NextIInv

\* Nothing of the deliveries' side changes but the faults.
LEMMA DeliveriesAside ==
    ASSUME DP!IInv, UNCHANGED <<deliverySide, DeliveriesOn(list)>>, DP!FaultsGrow
    PROVE  DP!IInv'
  <1>1. UNCHANGED <<endpoint, publisher, DeliveriesOn(list), courier, stamped, usage, edits, posts, outcome>>
    BY DEF deliverySide
  <1> QED BY <1>1, PartsAssumed, DP!EndpointStep DEF DP!IInv, DP!TypeOK

\* The event of a step, if any, is handed to the endpoints it selects.
LEMMA TellsKeeps ==
    ASSUME DP!IInv, TellingTyped, NEW p \in Processes, Tells(p), DP!FaultsGrow,
           UNCHANGED DeliveriesOn(list)
    PROVE  DP!IInv' /\ TellingTyped'
  <1>1. CASE UNCHANGED deliverySide /\ telling' = [telling EXCEPT ![p] = NoEvent]
    BY <1>1, DeliveriesAside DEF TellingTyped
  <1>2. ASSUME NEW v \in RunEvents, D!SelectEndpoints(v), telling' = [telling EXCEPT ![p] = v]
        PROVE  DP!IInv' /\ TellingTyped'
    <2>1. D!Next
      BY <1>2 DEF D!Next, D!PublisherStep
    <2> QED BY <1>2, <2>1, DeliveryStepKeeps DEF TellingTyped
  <1> QED BY <1>1, <1>2 DEF Tells

\* A step of the run's side that pushes no delivery and takes none.
LEMMA JobStepTells ==
    ASSUME SInv, NEW p \in Processes, R!Next, Tells(p), UNCHANGED DeliveriesOn(list), ListInv'
    PROVE  SInv'
  BY JobStepKeeps, TellsKeeps DEF SInv

\* A step of the deliveries' side that pushes no job and takes none.
LEMMA DeliveryStepAlone ==
    ASSUME SInv, D!Next, UNCHANGED <<jobSide, JobsOn(list)>>, TellingTyped', ListInv'
    PROVE  SInv'
  <1>1. DP!IInv'
    BY DeliveryStepKeeps DEF SInv
  <1>2. DP!FaultsGrow
    BY SameDeliverySteps, PartsAssumed, DP!FaultsStep DEF SInv
  <1> QED BY <1>1, <1>2, JobsAside DEF SInv

-----------------------------------------------------------------------------
(* One lemma per kind of process: its steps preserve the invariant.        *)

\* The owner's calls.
LEMMA EditStep ==
    ASSUME SInv, EditEndpoints
    PROVE  SInv'
  <1>1. D!Next
    BY DEF EditEndpoints, D!Next
  <1>2. UNCHANGED <<jobSide, list, overtaken, telling>>
    BY DEF EditEndpoints, SameList
  <1>3. ListInv' /\ TellingTyped' /\ UNCHANGED JobsOn(list)
    BY <1>2, ListKept DEF EditEndpoints, SInv, TellingTyped, JobsOn
  <1> QED BY <1>1, <1>2, <1>3, DeliveryStepAlone

\* The message of a delivery that a process is pushing.
LEMMA AnnouncedMessage ==
    ASSUME SInv, NEW p \in Processes, Announcing(p), NEW e \in Endpoints
    PROVE  /\ telling[p] \in RunEvents
           /\ [delivery |-> <<e, telling[p]>>, retry |-> 0] \in DeliveryMessages
  BY DEF SInv, TellingTyped, Announcing, DeliveryMessages

\* A delivery message goes to the tail, or is lost on the way.
LEMMA DeliveryPushed ==
    ASSUME SInv, NEW m \in DeliveryMessages, NEW l \in {list, Append(list, m)}, ListBecomes(l, {})
    PROVE  ListInv' /\ UNCHANGED JobsOn(list)
  <1>1. m \in Messages /\ m \notin Runs
    BY TwoTypes DEF Messages
  <1>2. CASE l = list
    BY <1>2, ListKept DEF SInv, ListBecomes, JobsOn
  <1>3. CASE l = Append(list, m)
    BY <1>1, <1>3, ListGrows, PushSeen DEF SInv, ListInv, ListBecomes
  <1> QED BY <1>2, <1>3

\* enqueue_run_event's loop.
LEMMA PushNextStep ==
    ASSUME SInv, NEW p \in Processes, PushNext(p) \/ PushNextFails(p)
    PROVE  SInv'
  <1> DEFINE Message(e) == [delivery |-> <<e, telling[p]>>, retry |-> 0]
  <1>0. PICK e \in Endpoints :
            \E l \in {list, Append(list, Message(e))} :
               ListBecomes(l, {}) /\ (D!Push(telling[p], e) \/ D!PushFails(telling[p], e))
    BY DEF PushNext, PushNextFails
  <1>1. PICK l \in {list, Append(list, Message(e))} :
            ListBecomes(l, {}) /\ (D!Push(telling[p], e) \/ D!PushFails(telling[p], e))
    BY <1>0
  <1>2. Announcing(p) /\ UNCHANGED <<jobSide, telling>>
    BY DEF PushNext, PushNextFails
  <1>3. telling[p] \in RunEvents /\ Message(e) \in DeliveryMessages
    BY <1>2, AnnouncedMessage
  <1>4. D!Next
    BY <1>1, <1>3 DEF D!Next, D!PublisherStep
  <1>5. ListInv' /\ UNCHANGED JobsOn(list)
    BY <1>1, <1>3, DeliveryPushed
  <1>6. TellingTyped'
    BY <1>2 DEF SInv, TellingTyped
  <1> QED BY <1>2, <1>4, <1>5, <1>6, DeliveryStepAlone

\* A job goes to the tail, or is lost on the way; the request that pushes it holds its run.
LEMMA JobPushed ==
    ASSUME SInv, NEW c \in Clients, api[c].pc = "committed",
           NEW l \in {list, Append(list, api[c].run)}, ListBecomes(l, {})
    PROVE  ListInv' /\ UNCHANGED DeliveriesOn(list)
  <1>1. api[c].run \in Runs /\ api[c].run \in Messages
    BY DEF SInv, RP!IInv, RP!RunsWellFormed, Messages
  <1>2. ~Contains(list, api[c].run)
    BY <1>1, WaitingRunsSeen DEF SInv, ListInv, RP!IInv, RP!SingleHolder, RP!ApiHolds
  <1>3. CASE l = list
    BY <1>3, ListKept DEF SInv, ListBecomes, DeliveriesOn
  <1>4. CASE l = Append(list, api[c].run)
    BY <1>1, <1>2, <1>4, ListGrows, PushSeen DEF SInv, ListInv, ListBecomes
  <1> QED BY <1>3, <1>4

\* A list that stays is seen as it was.
LEMMA SameListSeen ==
    ASSUME SInv, SameList
    PROVE  ListInv' /\ UNCHANGED <<JobsOn(list), DeliveriesOn(list)>>
  BY ListKept DEF SInv, SameList, JobsOn, DeliveriesOn

\* A process dies in the middle of publishing.
LEMMA PublisherDies ==
    ASSUME SInv, NEW p \in Processes, Announcing(p), D!PublisherStops(telling[p]), SameList,
           UNCHANGED telling
    PROVE  /\ DP!IInv' /\ ListInv' /\ TellingTyped'
           /\ DP!FaultsGrow
           /\ UNCHANGED JobsOn(list)
  <1>1. telling[p] \in RunEvents
    BY DEF SInv, TellingTyped, Announcing
  <1>2. D!Next
    BY <1>1 DEF D!Next
  <1>3. DP!IInv' /\ DP!FaultsGrow
    BY <1>2, DeliveryStepKeeps, SameDeliverySteps, PartsAssumed, DP!FaultsStep DEF SInv
  <1> QED BY <1>3, SameListSeen DEF SInv, TellingTyped

\* A request.
LEMMA RequestKeeps ==
    ASSUME SInv, NEW c \in Clients,
           NewRequest(c) \/ RequestStep(c) \/ RequestFails(c) \/ RequestCrashes(c)
    PROVE  SInv'
  <1>0. c \in Processes
    BY DEF Processes
  <1>1. CASE NewRequest(c)
    <2>1. R!Next
      BY <1>1 DEF NewRequest, R!Next
    <2> QED BY <1>0, <1>1, <2>1, SameListSeen, JobStepTells DEF NewRequest
  <1>2. CASE PushJob(c)
    <2>1. R!Next /\ api[c].pc = "committed"
      BY <1>2 DEF PushJob, R!Next, R!ApiStep, R!Enqueue
    <2>2. ListInv' /\ UNCHANGED DeliveriesOn(list)
      BY <1>2, <2>1, JobPushed DEF PushJob
    <2> QED BY <1>0, <1>2, <2>1, <2>2, JobStepTells DEF PushJob
  <1>3. CASE RequestTells(c)
    <2>1. R!Next
      BY <1>3 DEF RequestTells, R!Next, R!ApiStep
    <2> QED BY <1>0, <1>3, <2>1, SameListSeen, JobStepTells DEF RequestTells
  <1>4. CASE PushNext(c)
    BY <1>0, <1>4, PushNextStep
  <1>5. CASE RequestFails(c)
    <2>1. PICK l \in {list, Append(list, api[c].run)} : ListBecomes(l, {}) /\ R!ApiRedisFails(c)
      BY <1>5 DEF RequestFails
    <2>2. R!Next
      BY <2>1 DEF R!Next
    <2>3. ListInv' /\ UNCHANGED DeliveriesOn(list)
      <3>1. CASE l = list
        BY <2>1, <3>1, ListKept DEF SInv, ListBecomes, DeliveriesOn
      <3>2. CASE api[c].pc = "committed"
        BY <2>1, <3>2, JobPushed
      <3>3. CASE l = Append(list, api[c].run) /\ api[c].pc = "enqueued"
        <4>1. list' = Append(list, api[c].run) /\ UNCHANGED JobsOn(list)
          BY <2>1, <3>3 DEF ListBecomes, R!ApiRedisFails
        <4>2. api[c].run \in Runs /\ api[c].run \in Messages
          BY <3>3 DEF SInv, RP!IInv, RP!RunsWellFormed, Messages
        <4>3. JobsOn(list') = Append(JobsOn(list), api[c].run) /\ JobsOn(list) \in Seq(Runs)
          BY <4>1, <4>2, SelectedAppend DEF SInv, ListInv, ListTyped, JobsOn, RP!IInv, RP!TypeOK
        <4> QED BY <4>1, <4>3, <4>2
      <3> QED BY <2>1, <3>1, <3>2, <3>3 DEF R!ApiRedisFails
    <2> QED BY <1>0, <1>5, <2>2, <2>3, JobStepTells DEF RequestFails
  <1>6. CASE RequestCrashes(c)
    <2>1. CASE R!ApiCrash(c) /\ Tells(c)
      <3>1. R!Next
        BY <2>1 DEF R!Next
      <3> QED BY <1>0, <1>6, <2>1, <3>1, SameListSeen, JobStepTells DEF RequestCrashes
    <2>2. CASE Announcing(c) /\ D!PublisherStops(telling[c]) /\ UNCHANGED <<jobSide, telling>>
      <3>1. /\ DP!IInv' /\ ListInv' /\ TellingTyped'
            /\ DP!FaultsGrow
            /\ UNCHANGED JobsOn(list)
        BY <1>0, <1>6, <2>2, PublisherDies DEF RequestCrashes
      <3> QED BY <2>2, <3>1, JobsAside DEF SInv
    <2> QED BY <1>6, <2>1, <2>2 DEF RequestCrashes
  <1> QED BY <1>1, <1>2, <1>3, <1>4, <1>5, <1>6 DEF RequestStep

\* run_worker takes a job.
LEMMA TakeJobStep ==
    ASSUME SInv, NEW w \in Workers, TakeJob(w)
    PROVE  SInv'
  <1>1. R!Next
    BY DEF TakeJob, R!Next, R!WorkerStep
  <1>2. list # <<>> /\ Head(list) \in Runs /\ ListBecomes(Tail(list), {})
    BY DEF TakeJob, IsJob
  <1>3. ListInv' /\ UNCHANGED DeliveriesOn(list)
    BY <1>2, ListShrinks, PopSeen DEF SInv, ListInv, ListBecomes
  <1> QED BY <1>1, <1>3, JobStepTells DEF TakeJob, Processes

\* run_worker takes a delivery.
LEMMA TakeDeliveryStep ==
    ASSUME SInv, NEW w \in Workers, TakeDelivery(w)
    PROVE  SInv'
  <1>1. D!Next
    BY DEF TakeDelivery, D!Next, D!WorkerStep
  <1>2. list # <<>> /\ Head(list) \in Messages /\ Head(list) \notin Runs
        /\ ListBecomes(Tail(list), {Head(list).delivery})
    BY PopSeen DEF TakeDelivery, IsJob, SInv, ListInv, ListBecomes
  <1>3. ListInv' /\ UNCHANGED JobsOn(list)
    BY <1>2, TwoTypes, ListShrinks, PopSeen DEF SInv, ListInv, ListBecomes
  <1>4. TellingTyped' /\ UNCHANGED jobSide
    BY DEF TakeDelivery, SInv, TellingTyped
  <1> QED BY <1>1, <1>3, <1>4, DeliveryStepAlone

\* The end of a failed attempt: what goes back is a delivery message.
LEMMA RetryStep ==
    ASSUME SInv, NEW w \in Workers, RetryDelivery(w)
    PROVE  SInv'
  <1>1. PICK l \in {list, Append(list, D!Again(w))} : ListBecomes(l, {}) /\ D!RetryOrGiveUp(w)
    BY DEF RetryDelivery
  <1>2. D!Next
    BY <1>1 DEF D!Next, D!WorkerStep
  <1>3. D!Again(w) \in DeliveryMessages
    <2>1. courier[w].pc = "retrying"
      BY <1>1 DEF D!RetryOrGiveUp
    <2>2. courier[w].delivery \in Endpoints \X RunEvents
      BY <2>1 DEF SInv, DP!IInv, DP!WorkersWellFormed, DP!Deliveries
    <2>3. courier[w].retry \in Nat
      <3>1. MaxAttempts \in Nat
        BY PartsAssumed DEF DP!DeliveryAssumption
      <3>2. courier[w].retry \in 0..(MaxAttempts - 1)
        BY DEF SInv, DP!IInv, DP!TypeOK
      <3> QED BY <3>1, <3>2
    <2> QED BY <2>2, <2>3 DEF D!Again, D!Mine, DeliveryMessages
  <1>4. ListInv' /\ UNCHANGED JobsOn(list)
    BY <1>1, <1>3, DeliveryPushed
  <1>5. TellingTyped' /\ UNCHANGED jobSide
    BY DEF RetryDelivery, SInv, TellingTyped
  <1> QED BY <1>2, <1>4, <1>5, DeliveryStepAlone

\* A worker.
LEMMA WorkerKeeps ==
    ASSUME SInv, NEW w \in Workers,
           WorkerStep(w) \/ JobFails(w) \/ DeliveryFails(w) \/ WorkerCrashes(w)
    PROVE  SInv'
  <1>0. w \in Processes
    BY DEF Processes
  <1>1. CASE TakeJob(w)
    BY <1>1, TakeJobStep
  <1>2. CASE TakeDelivery(w)
    BY <1>2, TakeDeliveryStep
  <1>3. CASE WorkOnJob(w) \/ JobFails(w)
    <2>1. R!Next
      BY <1>3 DEF WorkOnJob, JobFails, R!Next
    <2> QED BY <1>0, <1>3, <2>1, SameListSeen, JobStepTells DEF WorkOnJob, JobFails
  <1>4. CASE WorkOnDelivery(w) \/ DeliveryFails(w)
    <2>1. D!Next
      BY <1>4 DEF WorkOnDelivery, DeliveryFails, D!Next, D!WorkerStep
    <2>2. SameList /\ UNCHANGED <<jobSide, telling>>
      BY <1>4 DEF WorkOnDelivery, DeliveryFails
    <2> QED BY <2>1, <2>2, SameListSeen, DeliveryStepAlone DEF SInv, TellingTyped
  <1>5. CASE RetryDelivery(w)
    BY <1>5, RetryStep
  <1>6. CASE PushNext(w)
    BY <1>0, <1>6, PushNextStep
  <1>7. CASE WorkerCrashes(w)
    <2>0. SameList
      BY <1>7 DEF WorkerCrashes
    <2>1. CASE D!WorkerCrash(w) /\ UNCHANGED <<jobSide, telling>>
      <3>1. D!Next
        BY <2>1 DEF D!Next
      <3> QED BY <2>0, <2>1, <3>1, SameListSeen, DeliveryStepAlone DEF SInv, TellingTyped
    <2>2. CASE R!WorkerCrash(w) /\ Tells(w)
      <3>1. R!Next
        BY <2>2 DEF R!Next
      <3> QED BY <1>0, <2>0, <2>2, <3>1, SameListSeen, JobStepTells
    <2>3. CASE /\ Announcing(w) /\ D!PublisherStops(telling[w])
               /\ worker' = [worker EXCEPT ![w] = R!WorkerIdle]
               /\ UNCHANGED <<videoStatus, runVideo, runStatus, jobStatus, outputs, events, api, telling>>
      <3>1. /\ DP!IInv' /\ ListInv' /\ TellingTyped'
            /\ DP!FaultsGrow
            /\ UNCHANGED JobsOn(list)
        BY <1>0, <2>0, <2>3, PublisherDies
      <3>2. RP!WorkerDone(w)
        BY <2>3 DEF RP!WorkerDone, R!WorkerIdle, RP!WorkerIdle
      <3>3. RP!SideTyped
        BY <2>3, <3>1 DEF SInv, RP!IInv, RP!TypeOK, RP!SideTyped, DP!FaultsGrow
      <3>4. UNCHANGED <<RP!rows, JobsOn(list), api>>
        BY <2>3, <3>1 DEF RP!rows
      <3> QED BY <3>1, <3>2, <3>3, <3>4, PartsAssumed, RP!HandlerEnds DEF SInv
    <2> QED BY <1>7, <2>1, <2>2, <2>3 DEF WorkerCrashes
  <1> QED BY <1>1, <1>2, <1>3, <1>4, <1>5, <1>6, <1>7 DEF WorkerStep

LEMMA StutterKeeps ==
    ASSUME SInv, UNCHANGED vars
    PROVE  SInv'
  <1>1. UNCHANGED <<jobSide, deliverySide, faults, list, telling, overtaken>>
    BY DEF vars
  <1>2. DP!FaultsGrow
    BY <1>1 DEF SInv, DP!IInv, DP!TypeOK, DP!FaultsGrow
  <1>3. SameList
    BY <1>1 DEF SameList
  <1> QED BY <1>1, <1>2, <1>3, SameListSeen, JobsAside, DeliveriesAside DEF SInv, TellingTyped

LEMMA NextSInv == SInv /\ [Next]_vars => SInv'
  <1> SUFFICES ASSUME SInv, [Next]_vars PROVE SInv'
    OBVIOUS
  <1>1. CASE UNCHANGED vars
    BY <1>1, StutterKeeps
  <1>2. CASE EditEndpoints
    BY <1>2, EditStep
  <1>3. ASSUME NEW c \in Clients,
               NewRequest(c) \/ RequestStep(c) \/ RequestFails(c) \/ RequestCrashes(c)
        PROVE  SInv'
    BY <1>3, RequestKeeps
  <1>4. ASSUME NEW w \in Workers,
               WorkerStep(w) \/ JobFails(w) \/ DeliveryFails(w) \/ WorkerCrashes(w)
        PROVE  SInv'
    BY <1>4, WorkerKeeps
  <1>5. ASSUME NEW p \in Processes, PushNextFails(p) PROVE SInv'
    BY <1>5, PushNextStep
  <1> QED BY <1>1, <1>2, <1>3, <1>4, <1>5 DEF Next

LEMMA InitSInv == Init => SInv
  <1> SUFFICES ASSUME Init PROVE SInv
    OBVIOUS
  <1>1. RP!Init /\ DP!Init
    <2>1. R!Init /\ D!Init
      BY DEF Init
    <2>2. RP!Init
      BY <2>1 DEF R!Init, RP!Init, R!ApiReady, RP!ApiReady, R!WorkerIdle, RP!WorkerIdle
    <2>3. DP!Init
      BY <2>1 DEF D!Init, DP!Init, D!Deliveries, DP!Deliveries, D!Idle, DP!Idle
    <2> QED BY <2>2, <2>3
  <1>2. RP!IInv /\ DP!IInv
    BY <1>1, PartsAssumed, RP!InitIInv, DP!InitIInv
  <1>3. ListInv /\ TellingTyped
    BY DEF Init, ListInv, ListTyped, OvertakenStayBehind, TellingTyped, Contains
  <1> QED BY <1>2, <1>3 DEF SInv

\* The invariants of the two parts hold of what they share, and the list lets nothing past
\* a waiting run twice.
THEOREM SharedInvariant == Spec => []SInv
  BY InitSInv, NextSInv, PTL DEF Spec

-----------------------------------------------------------------------------
(* Retries step aside.                                                     *)

\* The three things that happen to a courier that takes nothing.
CourierMoves(x) ==
    \/ D!WorkerDone(x)
    \/ \E pc \in {"posting", "acked", "stamped", "failed", "retrying"} : D!WorkerGoes(x, pc)

\* A worker goes on with its delivery or ends it: nobody becomes one that has just taken one.
LEMMA MovingTakesNothing ==
    ASSUME DP!IInv, NEW x \in Workers, CourierMoves(x), NEW w \in Workers,
           courier[w].pc = "idle"
    PROVE  courier'[w].pc # "taken"
  <1>1. courier[x] \in [pc : DP!WorkerPcs, delivery : DP!Deliveries \cup {NoDelivery},
                        retry : 0..(MaxAttempts - 1)]
    BY DEF DP!IInv, DP!TypeOK
  <1>2. w \in DOMAIN courier /\ x \in DOMAIN courier
    BY DEF DP!IInv, DP!TypeOK
  <1>3. CASE D!WorkerDone(x)
    BY <1>2, <1>3 DEF D!WorkerDone, D!Idle
  <1>4. CASE \E pc \in {"posting", "acked", "stamped", "failed", "retrying"} : D!WorkerGoes(x, pc)
    <2>1. PICK pc \in {"posting", "acked", "stamped", "failed", "retrying"} :
              courier' = [courier EXCEPT ![x].pc = pc]
      BY <1>4 DEF D!WorkerGoes
    <2>2. w = x => courier'[w].pc = pc
      BY <1>1, <1>2, <2>1
    <2>3. w # x => courier'[w] = courier[w]
      BY <1>2, <2>1
    <2> QED BY <2>2, <2>3
  <1> QED BY <1>3, <1>4 DEF CourierMoves

\* Only TakeDelivery takes a delivery.
LEMMA OnlyTakesTake ==
    ASSUME SInv, [Next]_vars, NEW w \in Workers,
           courier[w].pc = "idle", courier'[w].pc = "taken"
    PROVE  \E x \in Workers : TakeDelivery(x)
  <1>0. ~UNCHANGED courier
    OBVIOUS
  <1>1. \A x \in Workers : ~CourierMoves(x)
    BY MovingTakesNothing DEF SInv
  <1>2. \A v : ~D!SelectEndpoints(v) /\ ~D!PublisherStops(v)
    BY <1>0 DEF D!SelectEndpoints, D!PublisherStops
  <1>3. \A v, e : ~D!Push(v, e) /\ ~D!PushFails(v, e)
    BY <1>0 DEF D!Push, D!PushFails
  <1>4. ~UNCHANGED deliverySide
    BY <1>0 DEF deliverySide
  <1>5. \A p : ~Tells(p) /\ ~PushNext(p) /\ ~PushNextFails(p)
    BY <1>2, <1>3, <1>4 DEF Tells, PushNext, PushNextFails
  <1>6. ~UNCHANGED vars
    BY <1>4 DEF vars
  <1>7. ~EditEndpoints
    BY <1>0 DEF EditEndpoints, D!CreateWebhook, D!UpdateWebhook, D!DeleteWebhook
  <1>8. ASSUME NEW c \in Clients
        PROVE  ~(NewRequest(c) \/ RequestStep(c) \/ RequestFails(c) \/ RequestCrashes(c))
    BY <1>2, <1>5 DEF NewRequest, RequestStep, PushJob, RequestTells, RequestFails, RequestCrashes
  <1>9. ASSUME NEW x \in Workers
        PROVE  /\ ~TakeJob(x) /\ ~WorkOnJob(x) /\ ~JobFails(x)
               /\ ~WorkOnDelivery(x) /\ ~RetryDelivery(x) /\ ~DeliveryFails(x) /\ ~WorkerCrashes(x)
    <2>1. ~TakeJob(x) /\ ~WorkOnJob(x) /\ ~JobFails(x)
      BY <1>5 DEF TakeJob, WorkOnJob, JobFails
    <2>2. ~WorkOnDelivery(x)
      BY <1>1 DEF WorkOnDelivery, CourierMoves, D!LoadEndpoint, D!Post, D!StampResult, D!EmitUsage
    <2>3. ~RetryDelivery(x) /\ ~DeliveryFails(x)
      BY <1>1 DEF RetryDelivery, DeliveryFails, CourierMoves, D!RetryOrGiveUp, D!LoadFails,
                  D!RetryFails, D!BookkeepingFails
    <2>4. ~WorkerCrashes(x)
      BY <1>1, <1>2, <1>5 DEF WorkerCrashes, CourierMoves, D!WorkerCrash
    <2> QED BY <2>1, <2>2, <2>3, <2>4
  <1> QED BY <1>5, <1>6, <1>7, <1>8, <1>9 DEF Next, WorkerStep

\* What is taken was not taken before while a run behind it waits.
LEMMA TakenIsNew ==
    ASSUME SInv, NEW x \in Workers, TakeDelivery(x), NEW w \in Workers, NEW r \in Runs,
           Contains(list, r), courier[w].pc = "idle", courier'[w].pc = "taken"
    PROVE  courier'[w].delivery \notin overtaken[r]
  <1>1. /\ list # <<>> /\ Head(list) \notin Runs
        /\ ListBecomes(Tail(list), {Head(list).delivery})
        /\ D!Take(x)
    BY DEF TakeDelivery, IsJob
  <1>2. w = x
    BY <1>1 DEF D!Take, SInv, DP!IInv, DP!TypeOK
  <1>3. Head(list) \in DeliveryMessages /\ Head(DeliveriesOn(list)) = Head(list)
    BY <1>1, PopSeen, TwoTypes DEF SInv, ListInv, ListBecomes
  <1>4. courier'[w].delivery = Head(list).delivery
    BY <1>1, <1>2, <1>3 DEF D!Take, SInv, DP!IInv, DP!TypeOK
  <1>5. PICK j \in 1..Len(list) : list[j] = r
    BY DEF Contains
  <1>6. Head(list) = list[1] /\ 1 \in 1..Len(list) /\ 1 < j
    BY <1>1, <1>5 DEF SInv, ListInv, ListTyped
  <1> QED BY <1>3, <1>4, <1>5, <1>6 DEF SInv, ListInv, OvertakenStayBehind

\* While a job waits on the list no delivery is taken twice, with any number of workers,
\* runs, endpoints and attempts.
THEOREM RetriesAlwaysStepAside == Spec => RetriesStepAside
  <1> DEFINE StepsAside == \A w \in Workers, r \in Runs :
                Contains(list, r) /\ courier[w].pc = "idle" /\ courier'[w].pc = "taken"
                    => courier'[w].delivery \notin overtaken[r]
  <1>1. SInv /\ [Next]_vars => [StepsAside]_vars
    BY OnlyTakesTake, TakenIsNew
  <1>2. Spec => [][StepsAside]_vars
    BY <1>1, SharedInvariant, PTL DEF Spec
  <1> QED BY <1>2 DEF RetriesStepAside

-----------------------------------------------------------------------------
(* The parts keep what they promise when they share their workers.         *)

\* On the shared list and with shared workers, the rows of a run agree, whoever holds it finds
\* it in the status its place calls for, and it has one holder.
THEOREM RunsSafeTogether == Spec => [](R!RowsAgree /\ R!HolderStatus /\ R!SingleHolder)
  <1>1. SInv => R!RowsAgree /\ R!HolderStatus /\ R!SingleHolder
    BY DEF SInv, RP!IInv, R!RowsAgree, RP!RowsAgree, R!HolderStatus, RP!HolderStatus,
           R!SingleHolder, RP!SingleHolder, R!ApiHolds, RP!ApiHolds, R!QueueHolds, RP!QueueHolds,
           R!WorkerHolds, RP!WorkerHolds
  <1> QED BY <1>1, SharedInvariant, PTL

\* There too, a delivery has one carrier and without a fault ends only as it should, and a
\* project is charged for the deliveries that its endpoints acknowledged.
THEOREM DeliveriesSafeTogether == Spec => [](D!CarriedOnce /\ D!UsageMatchesAcks)
  <1>1. SInv => DP!CarriedOnce /\ DP!UsageMatchesAcks
    BY PartsAssumed, DP!CarriedOnceFollows DEF SInv, DP!IInv
  <1>2. \A S : DP!Cardinality(S) = D!Cardinality(S)
    BY DEF DP!Cardinality, D!Cardinality
  <1>3. \A d : DP!Carriers(d) = D!Carriers(d) /\ DP!TakenBy(d) = D!TakenBy(d)
    BY <1>2 DEF DP!Carriers, D!Carriers, DP!TakenBy, D!TakenBy, DP!QueuedAt, D!QueuedAt, DP!ToPush, D!ToPush
  <1>4. DP!CarriedOnce => D!CarriedOnce
    BY <1>2, <1>3 DEF D!CarriedOnce, DP!CarriedOnce, D!Deliveries, DP!Deliveries
  <1>5. \A e : DP!Booking(e) = D!Booking(e) /\ DP!Acked(e) = D!Acked(e)
    BY DEF DP!Booking, D!Booking, DP!Acked, D!Acked
  <1>6. DP!UsageMatchesAcks => D!UsageMatchesAcks
    BY <1>2, <1>5 DEF D!UsageMatchesAcks, DP!UsageMatchesAcks
  <1> QED BY <1>1, <1>4, <1>6, SharedInvariant, PTL

-----------------------------------------------------------------------------
(* What the endpoints are told is true.                                    *)

\* The rows of the run say what event v says of it.
BornOut(v) ==
    LET status == runStatus[v[1]] IN
    /\ v[2] = "created"   => status # "absent"
    /\ v[2] = "running"   => status \notin {"absent", "pending"}
    /\ v[2] = "completed" => status = "completed"
    /\ v[2] = "failed"    => status = "error"

\* Nothing is addressed to an endpoint that the committed rows do not bear out, when it is
\* addressed or later.
DeliveriesTruthful ==
    \A e \in Endpoints, v \in RunEvents : outcome[<<e, v>>] # "unselected" => BornOut(v)

\* A delivery has begun only for an event that was published.
BegunWasPublished ==
    \A e \in Endpoints, v \in RunEvents : outcome[<<e, v>>] # "unselected" => v[2] \in events[v[1]]

\* The deliveries that have begun and the events that are published, before and after.
NothingBegins == \A d \in Endpoints \X RunEvents : outcome[d] = "unselected" => outcome'[d] = "unselected"
EventsStay    == \A r \in Runs : events[r] \subseteq events'[r]

\* An event that is published stays published.
LEMMA EventsAreKept ==
    ASSUME RP!IInv, RP!Next
    PROVE  EventsStay
  <1>1. events \in [Runs -> SUBSET RP!EventTypes]
    BY DEF RP!IInv, RP!TypeOK
  <1>2. CASE UNCHANGED events
    BY <1>2 DEF EventsStay
  <1>3. ASSUME NEW r, NEW k, RP!Publish(r, k) PROVE EventsStay
    BY <1>1, <1>3 DEF RP!Publish, EventsStay
  <1> QED BY <1>2, <1>3
      DEF RP!Next, RP!UploadInit, RP!UploadVideo, RP!ReprocessVideo, RP!CommitRunAndJob, RP!ApiStep,
          RP!Enqueue, RP!PublishCreated, RP!ApiRedisFails, RP!ApiCrash, RP!WorkerStep, RP!Dequeue,
          RP!LoadRows, RP!MarkRunning, RP!PublishRunning, RP!PipelineRaises, RP!CommitCompleted,
          RP!CommitError, RP!PublishVerdict, RP!PoisonedCommitRaises, RP!UsageFlushFails,
          RP!WorkerDatabaseFails, RP!WorkerRedisFails, RP!WorkerCrash

\* A step of a courier ends deliveries that have begun, and begins none.
LEMMA CouriersBeginNothing ==
    ASSUME DP!IInv, NEW w \in Workers,
           \/ UNCHANGED outcome
           \/ /\ courier[w].pc \in {"taken", "posting", "retrying"}
              /\ \E o : outcome' = [outcome EXCEPT ![D!Mine(w)] = o]
    PROVE  NothingBegins
  <1>1. CASE UNCHANGED outcome
    BY <1>1 DEF NothingBegins
  <1>2. ASSUME courier[w].pc \in {"taken", "posting", "retrying"},
               NEW o, outcome' = [outcome EXCEPT ![D!Mine(w)] = o]
        PROVE  NothingBegins
    <2>1. outcome[D!Mine(w)] = "open"
      BY <1>2 DEF DP!IInv, DP!CarrierState, DP!Mine, D!Mine
    <2>2. DOMAIN outcome = Endpoints \X RunEvents
      BY DEF DP!IInv, DP!TypeOK, DP!Deliveries
    <2> QED BY <1>2, <2>1, <2>2 DEF NothingBegins
  <1> QED BY <1>1, <1>2

\* An event is addressed in the step that publishes it.
LEMMA TellsPublished ==
    ASSUME DP!IInv, BegunWasPublished, NEW p, Tells(p), EventsStay
    PROVE  BegunWasPublished'
  <1>1. CASE UNCHANGED deliverySide
    BY <1>1 DEF deliverySide, BegunWasPublished, EventsStay, RunEvents
  <1>2. ASSUME NEW v \in RunEvents, v[2] \in events'[v[1]], D!SelectEndpoints(v)
        PROVE  BegunWasPublished'
    <2>1. \A d \in Endpoints \X RunEvents : d[2] # v => outcome'[d] = outcome[d]
      BY <1>2 DEF D!SelectEndpoints, D!Deliveries
    <2>2. ASSUME NEW e \in Endpoints, NEW u \in RunEvents, outcome'[<<e, u>>] # "unselected"
          PROVE  u[2] \in events'[u[1]]
      <3>1. CASE u = v
        BY <1>2, <3>1
      <3>2. CASE u # v
        BY <2>1, <2>2, <3>2 DEF BegunWasPublished, EventsStay, RunEvents
      <3> QED BY <3>1, <3>2
    <2> QED BY <2>2 DEF BegunWasPublished
  <1> QED BY <1>1, <1>2 DEF Tells

\* Nothing begins, and nothing is published.
LEMMA NothingTold ==
    ASSUME BegunWasPublished, NothingBegins, UNCHANGED events
    PROVE  BegunWasPublished'
  BY DEF BegunWasPublished, NothingBegins

\* Every step publishes before it addresses.
LEMMA NextPublishedFirst == SInv /\ BegunWasPublished /\ [Next]_vars => BegunWasPublished'
  <1> SUFFICES ASSUME SInv, BegunWasPublished, [Next]_vars PROVE BegunWasPublished'
    OBVIOUS
  <1>1. ASSUME NEW p, R!Next, Tells(p) PROVE BegunWasPublished'
    BY <1>1, EventsAreKept, SameJobSteps, TellsPublished DEF SInv
  <1>2. ASSUME UNCHANGED <<events, outcome>> PROVE BegunWasPublished'
    BY <1>2 DEF BegunWasPublished
  <1>3. ASSUME NEW w \in Workers, UNCHANGED events,
               \/ UNCHANGED outcome
               \/ /\ courier[w].pc \in {"taken", "posting", "retrying"}
                  /\ \E o : outcome' = [outcome EXCEPT ![D!Mine(w)] = o]
        PROVE  BegunWasPublished'
    BY <1>3, CouriersBeginNothing, NothingTold DEF SInv
  <1>4. CASE UNCHANGED vars \/ EditEndpoints
    BY <1>2, <1>4 DEF vars, jobSide, deliverySide, EditEndpoints, D!CreateWebhook, D!UpdateWebhook,
                      D!DeleteWebhook
  <1>5. ASSUME NEW p, PushNext(p) \/ PushNextFails(p) PROVE BegunWasPublished'
    BY <1>2, <1>5 DEF PushNext, PushNextFails, D!Push, D!PushFails, jobSide
  <1>6. ASSUME NEW c \in Clients,
               NewRequest(c) \/ RequestStep(c) \/ RequestFails(c) \/ RequestCrashes(c)
        PROVE  BegunWasPublished'
    <2>1. CASE NewRequest(c)
      BY <1>1, <2>1 DEF NewRequest, R!Next
    <2>2. CASE PushJob(c)
      BY <1>1, <2>2 DEF PushJob, R!Next, R!ApiStep
    <2>3. CASE RequestTells(c)
      BY <1>1, <2>3 DEF RequestTells, R!Next, R!ApiStep
    <2>4. CASE RequestFails(c)
      BY <1>1, <2>4 DEF RequestFails, R!Next
    <2>5. CASE RequestCrashes(c)
      <3>1. CASE R!ApiCrash(c) /\ Tells(c)
        BY <1>1, <3>1 DEF R!Next
      <3>2. CASE D!PublisherStops(telling[c]) /\ UNCHANGED <<jobSide, telling>>
        BY <1>2, <3>2 DEF D!PublisherStops, jobSide
      <3> QED BY <2>5, <3>1, <3>2 DEF RequestCrashes
    <2> QED BY <1>5, <1>6, <2>1, <2>2, <2>3, <2>4, <2>5 DEF RequestStep
  <1>7. ASSUME NEW w \in Workers,
               WorkerStep(w) \/ JobFails(w) \/ DeliveryFails(w) \/ WorkerCrashes(w)
        PROVE  BegunWasPublished'
    <2>1. CASE TakeJob(w)
      BY <1>1, <2>1 DEF TakeJob, R!Next, R!WorkerStep
    <2>2. CASE WorkOnJob(w) \/ JobFails(w)
      BY <1>1, <2>2 DEF WorkOnJob, JobFails, R!Next
    <2>3. CASE TakeDelivery(w)
      BY <1>2, <2>3 DEF TakeDelivery, D!Take, jobSide
    <2>4. CASE WorkOnDelivery(w)
      BY <1>3, <2>4 DEF WorkOnDelivery, D!LoadEndpoint, D!Post, D!StampResult, D!EmitUsage, jobSide
    <2>5. CASE RetryDelivery(w)
      BY <1>3, <2>5 DEF RetryDelivery, D!RetryOrGiveUp, jobSide
    <2>6. CASE DeliveryFails(w)
      BY <1>2, <2>6 DEF DeliveryFails, D!LoadFails, D!RetryFails, D!BookkeepingFails, jobSide
    <2>7. CASE WorkerCrashes(w)
      <3>1. CASE D!WorkerCrash(w) /\ UNCHANGED <<jobSide, telling>>
        BY <1>2, <3>1 DEF D!WorkerCrash, jobSide
      <3>2. CASE R!WorkerCrash(w) /\ Tells(w)
        BY <1>1, <3>2 DEF R!Next
      <3>3. CASE D!PublisherStops(telling[w]) /\ UNCHANGED events
        BY <1>2, <3>3 DEF D!PublisherStops
      <3> QED BY <2>7, <3>1, <3>2, <3>3 DEF WorkerCrashes
    <2> QED BY <1>5, <1>7, <2>1, <2>2, <2>3, <2>4, <2>5, <2>6, <2>7 DEF WorkerStep
  <1> QED BY <1>4, <1>5, <1>6, <1>7 DEF Next

\* A step is one of the run's side, or leaves the rows, the events and the requests alone.
LEMMA JobStepOrAside ==
    ASSUME [Next]_vars
    PROVE  R!Next \/ UNCHANGED <<runStatus, events, api>>
  <1>1. CASE UNCHANGED vars \/ EditEndpoints
    BY <1>1 DEF vars, jobSide, EditEndpoints
  <1>2. ASSUME NEW p, PushNext(p) \/ PushNextFails(p) PROVE UNCHANGED <<runStatus, events, api>>
    BY <1>2 DEF PushNext, PushNextFails, jobSide
  <1>3. ASSUME NEW c \in Clients,
               NewRequest(c) \/ RequestStep(c) \/ RequestFails(c) \/ RequestCrashes(c)
        PROVE  R!Next \/ UNCHANGED <<runStatus, events, api>>
    BY <1>2, <1>3 DEF NewRequest, RequestStep, PushJob, RequestTells, RequestFails, RequestCrashes,
                      R!Next, R!ApiStep, jobSide
  <1>4. ASSUME NEW w \in Workers,
               WorkerStep(w) \/ JobFails(w) \/ DeliveryFails(w) \/ WorkerCrashes(w)
        PROVE  R!Next \/ UNCHANGED <<runStatus, events, api>>
    BY <1>2, <1>4 DEF WorkerStep, TakeJob, TakeDelivery, WorkOnJob, WorkOnDelivery, RetryDelivery, JobFails,
                      DeliveryFails, WorkerCrashes, R!Next, R!WorkerStep, jobSide
  <1> QED BY <1>1, <1>2, <1>3, <1>4 DEF Next

\* So the events of the run's side are as true here as where it is alone.
LEMMA NextEventsTrue == SInv /\ RP!EInv /\ [Next]_vars => RP!EInv'
  <1> SUFFICES ASSUME SInv, RP!EInv, [Next]_vars PROVE RP!EInv'
    OBVIOUS
  <1>1. CASE R!Next
    BY <1>1, SameJobSteps, PartsAssumed, RP!NextEInv DEF SInv
  <1>2. CASE UNCHANGED <<runStatus, events, api>>
    BY <1>2 DEF RP!EInv, RP!EventsTruthful
  <1> QED BY <1>1, <1>2, JobStepOrAside

\* From end to end: whatever is posted to an endpoint about a run is true of the run's rows,
\* under every fault and however late the delivery.
THEOREM EndpointsToldTheTruth == Spec => []DeliveriesTruthful
  <1>1. Init => RP!EInv /\ BegunWasPublished
    <2>1. Init => RP!EInv
      BY DEF Init, R!Init, R!ApiReady, RP!EInv, RP!EventsTruthful
    <2>2. Init => BegunWasPublished
      BY DEF Init, D!Init, D!Deliveries, BegunWasPublished
    <2> QED BY <2>1, <2>2
  <1>2. RP!EInv /\ BegunWasPublished => DeliveriesTruthful
    BY DEF RP!EInv, RP!EventsTruthful, BegunWasPublished, DeliveriesTruthful, BornOut, RunEvents
  <1> QED BY <1>1, <1>2, NextEventsTrue, NextPublishedFirst, SharedInvariant, PTL DEF Spec
====

----------------------------- MODULE SharedQueue -----------------------------
(***************************************************************************)
(* RunLifecycle and WebhookDelivery composed: what their processes share.  *)
(* Jobs and deliveries travel in one Redis list, every worker takes both,  *)
(* one at a time and in the order of the list, and it is the process that  *)
(* publishes an event, a request or a worker between two steps of a run,   *)
(* that selects the endpoints and pushes the deliveries.                   *)
(*                                                                         *)
(* R and D are the two specifications over their share of this state; a    *)
(* step here is a step of R, of D, or of both at once.                     *)
(***************************************************************************)
EXTENDS Naturals, Sequences, SequencesExt, Lists

CONSTANTS
    Videos, Runs, Clients, NoRun, NoVideo,                              \* of RunLifecycle
    Endpoints, MaxAttempts, Subscriptions, MaxEdits, NoDelivery,        \* of WebhookDelivery
    Workers, Faults, MaxFaults,                                         \* of both
    NoEvent

VARIABLES
    videoStatus, runVideo, runStatus, jobStatus, outputs, events, api,  \* of RunLifecycle
    endpoint, publisher, stamped, usage, edits, posts, outcome,         \* of WebhookDelivery
    faults,     \* of both
    list,       \* the Redis list: a job's run, or a delivery message
    worker,     \* worker[w]: where w is in handle_process_video
    courier,    \* courier[w]: where w is in handle_deliver_webhook
    telling,    \* telling[p]: the event that process p published in its last step
    overtaken   \* history: the deliveries taken from the list while run r waited on it

jobSide      == <<videoStatus, runVideo, runStatus, jobStatus, outputs, events, api, worker>>
deliverySide == <<endpoint, publisher, stamped, usage, edits, posts, outcome, courier>>
vars == <<jobSide, deliverySide, faults, list, telling, overtaken>>

-----------------------------------------------------------------------------
\* The events that reach somebody: of a type some endpoint may subscribe to.
RunEvents == Runs \X UNION Subscriptions
Processes == Clients \cup Workers

IsJob(m) == m \in Runs

DeliveryMessages == [delivery : Endpoints \X RunEvents, retry : Nat]

\* What the two handlers would see of the list, were it theirs alone.
JobsOn(l)       == Selected(l, Runs)
DeliveriesOn(l) == Selected(l, DeliveryMessages)

R == INSTANCE RunLifecycle WITH queue <- JobsOn(list)

D == INSTANCE WebhookDelivery
    WITH queue     <- DeliveriesOn(list),
         worker    <- courier,
         Events    <- RunEvents,
         EventType <- [v \in RunEvents |-> v[2]]

\* A message is of one type, and a process is a request or a worker.
ASSUME QueueAssumption ==
    /\ R!LifecycleAssumption
    /\ D!DeliveryAssumption
    /\ \A r \in Runs : r \notin DeliveryMessages
    /\ Clients \cap Workers = {}
    /\ NoEvent \notin RunEvents

Init ==
    /\ list = <<>>
    /\ R!Init
    /\ D!Init
    /\ telling = [p \in Processes |-> NoEvent]
    /\ overtaken = [r \in Runs |-> {}]

-----------------------------------------------------------------------------
(* The list.                                                                *)

ListBecomes(l, taken) ==
    /\ list' = l
    /\ overtaken' = [r \in Runs |-> IF Contains(l, r) THEN overtaken[r] \cup taken ELSE {}]

SameList == UNCHANGED <<list, overtaken>>

\* Variant: the publisher waits until its deliveries have ended.
Announcing_Waits(p) ==
    /\ telling[p] # NoEvent
    /\ \E e \in Endpoints : outcome[<<e, telling[p]>>] = "open"

\* A process that publishes goes on only when it has pushed to the last endpoint.
Announcing(p) == telling[p] # NoEvent /\ publisher[telling[p]].left # {}

Free(w) == worker[w].pc = "idle" /\ courier[w].pc = "idle" /\ ~Announcing(w)

\* A step of the run's side by process p: the event it publishes, if any, is handed to
\* the endpoints selected there and then.
Tells(p) ==
    LET published == {v \in RunEvents : v[2] \in events'[v[1]] \ events[v[1]]} IN
    \/ /\ published = {}
       /\ telling' = [telling EXCEPT ![p] = NoEvent]
       /\ UNCHANGED deliverySide
    \/ \E v \in published :
          /\ D!SelectEndpoints(v)
          /\ telling' = [telling EXCEPT ![p] = v]

\* enqueue_run_event's loop, in the process that published.
PushNext(p) ==
    LET v == telling[p] IN
    /\ Announcing(p)
    /\ \E e \in Endpoints :
          /\ ListBecomes(Append(list, [delivery |-> <<e, v>>, retry |-> 0]), {})
          /\ D!Push(v, e)
    /\ UNCHANGED <<jobSide, faults, telling>>

PushNextFails(p) ==
    LET v == telling[p] IN
    /\ Announcing(p)
    /\ \E e \in Endpoints :
          \E l \in {list, Append(list, [delivery |-> <<e, v>>, retry |-> 0])} :
             ListBecomes(l, {}) /\ D!PushFails(v, e)
    /\ UNCHANGED <<jobSide, telling>>

-----------------------------------------------------------------------------
(* Requests.                                                                *)

NewRequest(c) ==
    /\ ~Announcing(c)
    /\ SameList
    /\ \E v \in Videos, r \in Runs : R!UploadVideo(c, v, r) \/ R!ReprocessVideo(c, v, r)
    /\ Tells(c)

PushJob(c) ==
    /\ ListBecomes(Append(list, api[c].run), {})
    /\ R!Enqueue(c)
    /\ Tells(c)

RequestTells(c) == SameList /\ R!PublishCreated(c) /\ Tells(c)

RequestFails(c) ==
    /\ \E l \in {list, Append(list, api[c].run)} : ListBecomes(l, {}) /\ R!ApiRedisFails(c)
    /\ Tells(c)

RequestCrashes(c) ==
    /\ SameList
    /\ \/ R!ApiCrash(c) /\ Tells(c)
       \/ /\ Announcing(c) /\ "crash" \in Faults
          /\ D!PublisherStops(telling[c])
          /\ UNCHANGED <<jobSide, telling>>

RequestStep(c) == PushJob(c) \/ RequestTells(c) \/ PushNext(c)

-----------------------------------------------------------------------------
(* Workers: run_worker takes whatever is first and handles it to the end.   *)

TakeJob(w) ==
    /\ Free(w)
    /\ list # <<>> /\ IsJob(Head(list))
    /\ ListBecomes(Tail(list), {})
    /\ R!Dequeue(w)
    /\ Tells(w)

TakeDelivery(w) ==
    /\ Free(w)
    /\ list # <<>> /\ ~IsJob(Head(list))
    /\ ListBecomes(Tail(list), {Head(list).delivery})
    /\ D!Take(w)
    /\ telling' = [telling EXCEPT ![w] = NoEvent]
    /\ UNCHANGED <<jobSide, faults>>

\* Any other step of handle_process_video.
WorkOnJob(w) ==
    /\ ~Announcing(w)
    /\ worker[w].pc # "idle"
    /\ SameList
    /\ R!WorkerStep(w)
    /\ Tells(w)

\* Variant: a retry is pushed at the head of the list.
RetryDelivery_First(w) ==
    /\ \E l \in {list, <<D!Again(w)>> \o list} : ListBecomes(l, {}) /\ D!RetryOrGiveUp(w)
    /\ UNCHANGED <<jobSide, faults, telling>>

\* The end of a failed attempt: a retry is pushed at the tail.
RetryDelivery(w) ==
    /\ \E l \in {list, Append(list, D!Again(w))} : ListBecomes(l, {}) /\ D!RetryOrGiveUp(w)
    /\ UNCHANGED <<jobSide, faults, telling>>

\* Any other step of handle_deliver_webhook.
WorkOnDelivery(w) ==
    /\ SameList
    /\ D!LoadEndpoint(w) \/ D!Post(w) \/ D!StampResult(w) \/ D!EmitUsage(w)
    /\ UNCHANGED <<jobSide, faults, telling>>

\* An error in a handler.  An event that is lost in its push is PushNextFails.
JobFails(w) ==
    /\ ~Announcing(w)
    /\ SameList
    /\ R!UsageFlushFails(w) \/ R!WorkerDatabaseFails(w)
    /\ Tells(w)

DeliveryFails(w) ==
    /\ SameList
    /\ D!LoadFails(w) \/ D!RetryFails(w) \/ D!BookkeepingFails(w)
    /\ UNCHANGED <<jobSide, telling>>

\* The process dies with what it was doing: a delivery, a run, or the publishing of an
\* event in the middle of a run or at its end.
WorkerCrashes(w) ==
    /\ SameList
    /\ \/ D!WorkerCrash(w) /\ UNCHANGED <<jobSide, telling>>
       \/ R!WorkerCrash(w) /\ ~Announcing(w) /\ Tells(w)
       \/ /\ Announcing(w) /\ "crash" \in Faults
          /\ D!PublisherStops(telling[w])
          /\ worker' = [worker EXCEPT ![w] = R!WorkerIdle]
          /\ UNCHANGED <<videoStatus, runVideo, runStatus, jobStatus, outputs, events, api, telling>>

WorkerStep(w) ==
    \/ TakeJob(w) \/ TakeDelivery(w)
    \/ WorkOnJob(w) \/ WorkOnDelivery(w) \/ RetryDelivery(w)
    \/ PushNext(w)

-----------------------------------------------------------------------------
\* The owner's calls, which the two modules do not share.
EditEndpoints ==
    /\ SameList
    /\ \E e \in Endpoints :
          \/ \E types \in Subscriptions :
                \/ D!CreateWebhook(e, types)
                \/ \E state \in {"active", "inactive"} : D!UpdateWebhook(e, state, types)
          \/ D!DeleteWebhook(e)
    /\ UNCHANGED <<jobSide, faults, telling>>

Next ==
    \/ EditEndpoints
    \/ \E c \in Clients :
          NewRequest(c) \/ RequestStep(c) \/ RequestFails(c) \/ RequestCrashes(c)
    \/ \E w \in Workers :
          WorkerStep(w) \/ JobFails(w) \/ DeliveryFails(w) \/ WorkerCrashes(w)
    \/ \E p \in Processes : PushNextFails(p)

Spec == Init /\ [][Next]_vars

\* As in the two modules: a started request and run_worker's loop go on, every POST ends
\* within its timeout, and nothing obliges an endpoint to answer or a fault to happen.
Fairness ==
    /\ \A c \in Clients : WF_vars(RequestStep(c))
    /\ \A w \in Workers : WF_vars(WorkerStep(w))

FairSpec == Spec /\ Fairness

-----------------------------------------------------------------------------
(***************************************************************************)
(* Properties.                                                             *)
(***************************************************************************)

\* While a job waits on the list no delivery is taken twice: a retry goes behind every
\* run that waits, so that an endpoint that never answers costs a run at most one
\* attempt for each delivery, and never its place.
RetriesStepAside ==
    [][\A w \in Workers, r \in Runs :
          Contains(list, r) /\ courier[w].pc = "idle" /\ courier'[w].pc = "taken"
              => courier'[w].delivery \notin overtaken[r]]_vars

\* Deliveries and runs share their workers and starve neither: under any fault, and
\* with endpoints that never answer, every delivery and every run comes to its end.
EverythingEnds == D!EveryDeliveryEnds /\ R!EveryRunEndsOrIsStranded

\* From end to end: without a fault or an edit, an endpoint that is active while a run
\* is pending gets that run's verdict, or refuses it MaxAttempts times.
VerdictsReachEndpoints ==
    \A r \in Runs, e \in Endpoints :
        (runStatus[r] = "pending" /\ endpoint[e].state = "active") ~>
            \/ faults > 0 \/ edits > 0
            \/ \E kind \in {"completed", "failed"} :
                  outcome[<<e, <<r, kind>>>>] \in {"acked", "gaveup"}
=============================================================================

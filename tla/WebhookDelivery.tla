-------------------------- MODULE WebhookDelivery ---------------------------
(***************************************************************************)
(* How run events reach webhook endpoints.  The publisher of an event      *)
(* (enqueue_run_event, in an API request or in a worker) reads the active  *)
(* endpoints once and pushes one message per subscribed endpoint.  A       *)
(* worker pops a message, reads the endpoint again, POSTs, writes the      *)
(* timestamp, and then records the usage or pushes a retry, each with a    *)
(* session or a call of its own.  Endpoints are created, patched and       *)
(* deleted meanwhile.                                                      *)
(*                                                                         *)
(* A delivery is one endpoint with one event.  The event is what           *)
(* RunLifecycle calls an element of events[r].                             *)
(***************************************************************************)
EXTENDS Naturals, Sequences, FiniteSets

CONSTANTS
    Endpoints,    \* ids of WebhookEndpoint rows; an id is never used again
    Events,       \* run events published, each once
    EventType,    \* EventType[v]: the RunEventType of event v
    Workers,
    MaxAttempts,  \* libs.webhooks.MAX_DELIVERY_ATTEMPTS
    Subscriptions,\* the values event_types_json takes; a set of types (null: all of them)
    MaxEdits,     \* bound: how many times endpoints are patched or deleted
    Faults,       \* subset of {"crash", "redis", "database"}
    MaxFaults,    \* bound: how many faults happen
    NoDelivery

Deliveries == Endpoints \X Events

ASSUME DeliveryAssumption ==
    /\ MaxAttempts \in Nat \ {0}
    /\ MaxEdits \in Nat /\ MaxFaults \in Nat
    /\ NoDelivery \notin Deliveries

VARIABLES
    endpoint,   \* endpoint[e].state, and the types it subscribes to
    publisher,  \* publisher[v]: has v been published, and to whom it is still to be pushed
    queue,      \* the deliver_webhook messages on the Redis list
    worker,     \* worker[w]: where w is in handle_deliver_webhook
    stamped,    \* endpoints whose last_success_at, last_failure_at are set
    usage,      \* usage[e]: webhook_deliveries events recorded for e's deliveries
    edits, faults,
    posts,      \* history: posts[d], how many POSTs of delivery d were sent
    outcome     \* history: outcome[d], why no further attempt of d will be made

vars == <<endpoint, publisher, queue, worker, stamped, usage, edits, faults, posts, outcome>>

-----------------------------------------------------------------------------
EndpointStates == {"absent", "active", "inactive", "deleted"}
WorkerPcs == {"idle", "taken", "posting", "acked", "stamped", "failed", "retrying"}
Outcomes  == {"unselected", "open", "acked", "skipped", "gaveup"}

Idle == [pc |-> "idle", delivery |-> NoDelivery, retry |-> 0]

Message == [delivery : Deliveries, retry : 0..(MaxAttempts - 1)]

TypeOK ==
    /\ endpoint \in [Endpoints -> [state : EndpointStates, types : Subscriptions]]
    /\ publisher \in [Events -> [pc : {"todo", "pushing", "done"}, left : SUBSET Endpoints]]
    /\ queue \in Seq(Message)
    /\ worker \in [Workers -> [pc : WorkerPcs, delivery : Deliveries \cup {NoDelivery},
                               retry : 0..(MaxAttempts - 1)]]
    /\ stamped \subseteq Endpoints \X {"success", "failure"}
    /\ usage \in [Endpoints -> Nat]
    /\ edits \in 0..MaxEdits
    /\ faults \in 0..MaxFaults
    /\ posts \in [Deliveries -> Nat]
    /\ outcome \in [Deliveries -> Outcomes]

Init ==
    /\ endpoint \in [Endpoints -> [state : {"absent", "active"}, types : Subscriptions]]
    /\ publisher = [v \in Events |-> [pc |-> "todo", left |-> {}]]
    /\ queue = <<>>
    /\ worker = [w \in Workers |-> Idle]
    /\ stamped = {}
    /\ usage = [e \in Endpoints |-> 0]
    /\ edits = 0
    /\ faults = 0
    /\ posts = [d \in Deliveries |-> 0]
    /\ outcome = [d \in Deliveries |-> "unselected"]

Fault(kind) ==
    /\ kind \in Faults
    /\ faults < MaxFaults
    /\ faults' = faults + 1

-----------------------------------------------------------------------------
(* Endpoints: apps/api/routes/webhooks.py.                                  *)

CreateWebhook(e, types) ==
    /\ endpoint[e].state = "absent"
    /\ endpoint' = [endpoint EXCEPT ![e] = [state |-> "active", types |-> types]]
    /\ UNCHANGED <<publisher, queue, worker, stamped, usage, edits, faults, posts, outcome>>

Edit == edits < MaxEdits /\ edits' = edits + 1

\* PATCH: is_active, the subscription, or both.
UpdateWebhook(e, state, types) ==
    /\ Edit
    /\ endpoint[e].state \in {"active", "inactive"}
    /\ endpoint' = [endpoint EXCEPT ![e] = [state |-> state, types |-> types]]
    /\ UNCHANGED <<publisher, queue, worker, stamped, usage, faults, posts, outcome>>

DeleteWebhook(e) ==
    /\ Edit
    /\ endpoint[e].state \in {"active", "inactive"}
    /\ endpoint' = [endpoint EXCEPT ![e].state = "deleted"]
    /\ UNCHANGED <<publisher, queue, worker, stamped, usage, faults, posts, outcome>>

Exists(e) == endpoint[e].state \in {"active", "inactive"}

-----------------------------------------------------------------------------
(* Publishing: libs/webhooks.py enqueue_run_event.                          *)

\* The SELECT of the active endpoints, and the subscription filter on its result.
SelectEndpoints(v) ==
    LET chosen == {e \in Endpoints : /\ endpoint[e].state = "active"
                                     /\ EventType[v] \in endpoint[e].types} IN
    /\ publisher[v].pc = "todo"
    /\ publisher' = [publisher EXCEPT ![v] = [pc |-> "pushing", left |-> chosen]]
    /\ outcome' = [d \in Deliveries |-> IF d[2] = v /\ d[1] \in chosen THEN "open" ELSE outcome[d]]
    /\ UNCHANGED <<endpoint, queue, worker, stamped, usage, edits, faults, posts>>

Pushed(v, e) == [publisher EXCEPT ![v].left = @ \ {e}]

\* RPUSH of the first attempt's message.
Push(v, e) ==
    /\ publisher[v].pc = "pushing"
    /\ e \in publisher[v].left
    /\ publisher' = Pushed(v, e)
    /\ queue' = Append(queue, [delivery |-> <<e, v>>, retry |-> 0])
    /\ UNCHANGED <<endpoint, worker, stamped, usage, edits, faults, posts, outcome>>

\* RPUSH raises, applied or not: the error is logged and the loop goes on.
PushFails(v, e) ==
    /\ Fault("redis")
    /\ publisher[v].pc = "pushing"
    /\ e \in publisher[v].left
    /\ publisher' = Pushed(v, e)
    /\ queue' \in {queue, Append(queue, [delivery |-> <<e, v>>, retry |-> 0])}
    /\ UNCHANGED <<endpoint, worker, stamped, usage, edits, posts, outcome>>

\* The SELECT raises (logged), or the publishing process dies in between: what was
\* not pushed never will be.
PublisherStops(v) ==
    /\ Fault("database") \/ Fault("crash")
    /\ publisher[v].pc # "done"
    /\ publisher' = [publisher EXCEPT ![v] = [pc |-> "done", left |-> {}]]
    /\ UNCHANGED <<endpoint, queue, worker, stamped, usage, edits, posts, outcome>>

PublisherStep(v) ==
    \/ SelectEndpoints(v)
    \/ \E e \in Endpoints : Push(v, e)

-----------------------------------------------------------------------------
(* Delivering: apps/worker/jobs/deliver_webhook.py.                         *)

Mine(w)     == worker[w].delivery
WorkerGoes(w, pc) == worker' = [worker EXCEPT ![w].pc = pc]
WorkerDone(w)     == worker' = [worker EXCEPT ![w] = Idle]

\* BLPOP.
Take(w) ==
    /\ worker[w].pc = "idle"
    /\ queue # <<>>
    /\ worker' = [worker EXCEPT ![w] = [pc |-> "taken", delivery |-> Head(queue).delivery,
                                        retry |-> Head(queue).retry]]
    /\ queue' = Tail(queue)
    /\ UNCHANGED <<endpoint, publisher, stamped, usage, edits, faults, posts, outcome>>

\* _load_and_deliver reads the endpoint: gone or inactive, the message is dropped.
LoadEndpoint(w) ==
    /\ worker[w].pc = "taken"
    /\ \/ /\ endpoint[Mine(w)[1]].state = "active"
          /\ WorkerGoes(w, "posting")
          /\ UNCHANGED outcome
       \/ /\ endpoint[Mine(w)[1]].state # "active"
          /\ WorkerDone(w)
          /\ outcome' = [outcome EXCEPT ![Mine(w)] = "skipped"]
    /\ UNCHANGED <<endpoint, publisher, queue, stamped, usage, edits, faults, posts>>

\* A database error while loading is caught and counts as a failed attempt, also for an
\* endpoint that is gone.
LoadFails(w) ==
    /\ Fault("database")
    /\ worker[w].pc = "taken"
    /\ WorkerGoes(w, "failed")
    /\ UNCHANGED <<endpoint, publisher, queue, stamped, usage, edits, posts, outcome>>

\* The POST is answered with 2xx and the handler sees it, or counts as failed: refused,
\* timed out, its answer lost, or an error when the session around it is closed.
Post(w) ==
    /\ worker[w].pc = "posting"
    /\ posts' = [posts EXCEPT ![Mine(w)] = @ + 1]
    /\ \/ WorkerGoes(w, "acked") /\ outcome' = [outcome EXCEPT ![Mine(w)] = "acked"]
       \/ WorkerGoes(w, "failed") /\ UNCHANGED outcome
    /\ UNCHANGED <<endpoint, publisher, queue, stamped, usage, edits, faults>>

Stamp(w, which) ==
    stamped' = IF Exists(Mine(w)[1]) THEN stamped \cup {<<Mine(w)[1], which>>} ELSE stamped

\* Variant: the two columns are swapped.
StampResult_Swapped(w) ==
    /\ \/ worker[w].pc = "acked" /\ Stamp(w, "failure") /\ WorkerGoes(w, "stamped")
       \/ worker[w].pc = "failed" /\ Stamp(w, "success") /\ WorkerGoes(w, "retrying")
    /\ UNCHANGED <<endpoint, publisher, queue, usage, edits, faults, posts, outcome>>

\* _update_webhook_timestamp, in a session of its own.
StampResult(w) ==
    /\ \/ worker[w].pc = "acked" /\ Stamp(w, "success") /\ WorkerGoes(w, "stamped")
       \/ worker[w].pc = "failed" /\ Stamp(w, "failure") /\ WorkerGoes(w, "retrying")
    /\ UNCHANGED <<endpoint, publisher, queue, usage, edits, faults, posts, outcome>>

\* Variant: the usage of a delivery is recorded and its message pushed once more.
EmitUsage_Requeues(w) ==
    /\ worker[w].pc = "stamped"
    /\ usage' = [usage EXCEPT ![Mine(w)[1]] = @ + 1]
    /\ queue' = Append(queue, [delivery |-> Mine(w), retry |-> worker[w].retry])
    /\ WorkerDone(w)
    /\ UNCHANGED <<endpoint, publisher, stamped, edits, faults, posts, outcome>>

\* Variant: one event per attempt instead of one per delivery.
EmitUsage_PerAttempt(w) ==
    /\ worker[w].pc = "stamped"
    /\ usage' = [usage EXCEPT ![Mine(w)[1]] = @ + 1 + worker[w].retry]
    /\ WorkerDone(w)
    /\ UNCHANGED <<endpoint, publisher, queue, stamped, edits, faults, posts, outcome>>

\* _emit_webhook_usage, in another session: the project is read from the endpoint.
EmitUsage(w) ==
    /\ worker[w].pc = "stamped"
    /\ usage' = IF Exists(Mine(w)[1]) THEN [usage EXCEPT ![Mine(w)[1]] = @ + 1] ELSE usage
    /\ WorkerDone(w)
    /\ UNCHANGED <<endpoint, publisher, queue, stamped, edits, faults, posts, outcome>>

Again(w) == [delivery |-> Mine(w), retry |-> worker[w].retry + 1]

\* Variants: the limit is compared one too late; one too early.
RetryOrGiveUp_OneMore(w) ==
    /\ worker[w].pc = "retrying"
    /\ IF worker[w].retry < MaxAttempts
       THEN queue' = Append(queue, Again(w)) /\ UNCHANGED outcome
       ELSE outcome' = [outcome EXCEPT ![Mine(w)] = "gaveup"] /\ UNCHANGED queue
    /\ WorkerDone(w)
    /\ UNCHANGED <<endpoint, publisher, stamped, usage, edits, faults, posts>>

RetryOrGiveUp_OneLess(w) ==
    /\ worker[w].pc = "retrying"
    /\ IF worker[w].retry + 2 < MaxAttempts
       THEN queue' = Append(queue, Again(w)) /\ UNCHANGED outcome
       ELSE outcome' = [outcome EXCEPT ![Mine(w)] = "gaveup"] /\ UNCHANGED queue
    /\ WorkerDone(w)
    /\ UNCHANGED <<endpoint, publisher, stamped, usage, edits, faults, posts>>

\* _reenqueue at the tail of the list, or the last attempt has failed.
RetryOrGiveUp(w) ==
    /\ worker[w].pc = "retrying"
    /\ \/ /\ worker[w].retry + 1 < MaxAttempts
          /\ queue' = Append(queue, Again(w))
          /\ UNCHANGED outcome
       \/ /\ worker[w].retry + 1 >= MaxAttempts
          /\ outcome' = [outcome EXCEPT ![Mine(w)] = "gaveup"]
          /\ UNCHANGED queue
    /\ WorkerDone(w)
    /\ UNCHANGED <<endpoint, publisher, stamped, usage, edits, faults, posts>>

\* The RPUSH of the retry raises: logged, and the message is gone (one that was
\* applied is RetryOrGiveUp).
RetryFails(w) ==
    /\ Fault("redis")
    /\ worker[w].pc = "retrying"
    /\ worker[w].retry + 1 < MaxAttempts
    /\ WorkerDone(w)
    /\ UNCHANGED <<endpoint, publisher, queue, stamped, usage, edits, posts, outcome>>

\* A timestamp or usage session raises: logged, and the handler goes on.
BookkeepingFails(w) ==
    /\ Fault("database")
    /\ \/ worker[w].pc = "acked" /\ WorkerGoes(w, "stamped")
       \/ worker[w].pc = "failed" /\ WorkerGoes(w, "retrying")
       \/ worker[w].pc = "stamped" /\ WorkerDone(w)
    /\ UNCHANGED <<endpoint, publisher, queue, stamped, usage, edits, posts, outcome>>

WorkerCrash(w) ==
    /\ Fault("crash")
    /\ worker[w].pc # "idle"
    /\ WorkerDone(w)
    /\ UNCHANGED <<endpoint, publisher, queue, stamped, usage, edits, posts, outcome>>

WorkerStep(w) ==
    \/ Take(w) \/ LoadEndpoint(w) \/ Post(w) \/ StampResult(w) \/ EmitUsage(w) \/ RetryOrGiveUp(w)

-----------------------------------------------------------------------------
Next ==
    \/ \E e \in Endpoints, types \in Subscriptions :
          \/ CreateWebhook(e, types)
          \/ \E state \in {"active", "inactive"} : UpdateWebhook(e, state, types)
    \/ \E e \in Endpoints : DeleteWebhook(e)
    \/ \E v \in Events :
          \/ PublisherStep(v) \/ PublisherStops(v)
          \/ \E e \in Endpoints : PushFails(v, e)
    \/ \E w \in Workers :
          \/ WorkerStep(w)
          \/ LoadFails(w) \/ RetryFails(w) \/ BookkeepingFails(w) \/ WorkerCrash(w)

Spec == Init /\ [][Next]_vars

-----------------------------------------------------------------------------
(***************************************************************************)
(* Properties.                                                             *)
(***************************************************************************)
ToPush(d)       == d[1] \in publisher[d[2]].left
QueuedAt(d)     == {i \in 1..Len(queue) : queue[i].delivery = d}
TakenBy(d)      == {w \in Workers : worker[w].delivery = d}
Carriers(d)     == Cardinality(QueuedAt(d)) + Cardinality(TakenBy(d))
                     + (IF ToPush(d) THEN 1 ELSE 0)

\* A delivery is never carried twice, by message or worker, and without a fault an open
\* one is always carried by somebody and given up only after all its attempts were sent:
\* retries neither fork nor get lost, nor end early.
CarriedOnce ==
    \A d \in Deliveries :
        /\ Carriers(d) <= 1
        /\ outcome[d] = "open" /\ faults = 0 => Carriers(d) = 1
        /\ outcome[d] \in {"unselected", "skipped", "gaveup"} => Carriers(d) = 0
        /\ outcome[d] = "acked" => Carriers(d) = Cardinality(TakenBy(d))
        /\ outcome[d] = "gaveup" /\ faults = 0 => posts[d] = MaxAttempts

\* An open delivery that no message, publisher or worker carries any more: it is lost.
Lost(d) == outcome[d] = "open" /\ Carriers(d) = 0

\* Seen by the endpoints and on the bill, deliveries follow the contract: they end once, a
\* lost one never comes back, and one the handler has seen acknowledged is never sent
\* again, whatever fails in the bookkeeping after the POST.
Contract == INSTANCE DeliveryContract
    WITH delivery <- [d \in Deliveries |-> IF Lost(d) THEN "lost" ELSE outcome[d]],
         attempts <- posts,
         charges  <- usage

ImplementsDelivery == Contract!Spec

Acked(e) == {v \in Events : outcome[<<e, v>>] = "acked"}
Booking(e) == {w \in Workers : worker[w].pc \in {"acked", "stamped"} /\ worker[w].delivery[1] = e}

\* A project is never charged more deliveries than its endpoints acknowledged, and
\* without a fault exactly those, while the endpoint is not deleted.
UsageMatchesAcks ==
    \A e \in Endpoints :
        /\ usage[e] + Cardinality(Booking(e)) <= Cardinality(Acked(e))
        /\ faults = 0 /\ endpoint[e].state # "deleted"
              => usage[e] + Cardinality(Booking(e)) = Cardinality(Acked(e))

\* last_success_at and last_failure_at tell the truth of the endpoint's attempts.
StampsEarned ==
    \A e \in Endpoints :
        /\ <<e, "success">> \in stamped => Acked(e) # {}
        /\ <<e, "failure">> \in stamped /\ faults = 0 =>
              \E v \in Events :
                 posts[<<e, v>>] > (IF outcome[<<e, v>>] = "acked" THEN 1 ELSE 0)

\* No delivery stays in the system for ever: it is acknowledged, skipped, given up or
\* lost, under any fault and whatever is done to the endpoints meanwhile.
EveryDeliveryEnds == \A d \in Deliveries : (outcome[d] = "open") ~> [](Carriers(d) = 0)
=============================================================================

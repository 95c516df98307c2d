----------------------- MODULE WebhookDeliveryProofs -----------------------
(***************************************************************************)
(* WebhookDelivery for every set of endpoints, events and workers, every   *)
(* number of attempts, every choice of faults and every bound on them:     *)
(* type correctness, one carrier per delivery, usage and timestamps that   *)
(* match the acknowledgements, and the refinement of DeliveryContract.     *)
(***************************************************************************)
EXTENDS WebhookDelivery, FiniteSetTheorems, SequenceTheorems, TLAPS

\* A delivery is its endpoint with its event.
LEMMA DeliveryParts ==
    /\ \A d \in Deliveries : d[1] \in Endpoints /\ d[2] \in Events /\ d = <<d[1], d[2]>>
    /\ \A e \in Endpoints, v \in Events : <<e, v>> \in Deliveries
  BY DEF Deliveries

-----------------------------------------------------------------------------
(* The inductive invariant.                                                *)

\* An idle worker holds nothing, a busy one a delivery.
WorkersWellFormed ==
    \A w \in Workers : /\ worker[w].pc = "idle" => worker[w].delivery = NoDelivery
                       /\ worker[w].pc # "idle" => worker[w].delivery \in Deliveries

\* Only a publisher that is pushing has something left, and before it has read the
\* endpoints none of its deliveries has begun.
PublishersWellFormed ==
    \A v \in Events :
        /\ publisher[v].pc # "pushing" => publisher[v].left = {}
        /\ publisher[v].pc = "todo" => \A e \in Endpoints : outcome[<<e, v>>] = "unselected"

\* A delivery that has not begun was never sent; one that has is to a row that exists or existed.
BegunDeliveries ==
    \A d \in Deliveries :
        /\ outcome[d] = "unselected" => posts[d] = 0
        /\ outcome[d] # "unselected" => endpoint[d[1]].state # "absent"

\* No delivery is at two places of the queue, at two workers, or at two of publisher,
\* queue and workers.
SingleCarrier ==
    /\ \A i, j \in 1..Len(queue) : queue[i].delivery = queue[j].delivery => i = j
    /\ \A w, x \in Workers :
          worker[w].pc # "idle" /\ worker[w].delivery = worker[x].delivery => w = x
    /\ \A i \in 1..Len(queue), w \in Workers : queue[i].delivery # worker[w].delivery
    /\ \A i \in 1..Len(queue) : ~ToPush(queue[i].delivery)
    /\ \A w \in Workers : worker[w].pc # "idle" => ~ToPush(worker[w].delivery)

\* n POSTs of d are behind it if nothing has failed, and never more.
Sent(d, n) == posts[d] <= n /\ (faults = 0 => posts[d] = n)

\* What a carrier says of its delivery: its outcome, and how often it was sent.
CarrierState ==
    /\ \A d \in Deliveries : ToPush(d) => outcome[d] = "open" /\ Sent(d, 0)
    /\ \A i \in 1..Len(queue) :
          /\ outcome[queue[i].delivery] = "open"
          /\ Sent(queue[i].delivery, queue[i].retry)
    /\ \A w \in Workers :
          /\ worker[w].pc \in {"taken", "posting"} =>
                outcome[Mine(w)] = "open" /\ Sent(Mine(w), worker[w].retry)
          /\ worker[w].pc \in {"failed", "retrying"} =>
                outcome[Mine(w)] = "open" /\ Sent(Mine(w), worker[w].retry + 1)
          /\ worker[w].pc \in {"acked", "stamped"} => outcome[Mine(w)] = "acked"

Queued(d)  == \E i \in 1..Len(queue) : queue[i].delivery = d
Taken(d)   == \E w \in Workers : worker[w].delivery = d
Carried(d) == ToPush(d) \/ Queued(d) \/ Taken(d)

\* Without a fault nothing open is lost, and nothing is given up early.
NothingLost ==
    faults = 0 => \A d \in Deliveries : /\ outcome[d] = "open" => Carried(d)
                                        /\ outcome[d] = "gaveup" => posts[d] = MaxAttempts

\* The two sets whose sizes the bill compares are finite, however many events there are.
FiniteBooks == \A e \in Endpoints : IsFiniteSet(Acked(e)) /\ IsFiniteSet(Booking(e))

IInv ==
    /\ TypeOK
    /\ WorkersWellFormed
    /\ PublishersWellFormed
    /\ BegunDeliveries
    /\ SingleCarrier
    /\ CarrierState
    /\ NothingLost
    /\ FiniteBooks
    /\ UsageMatchesAcks
    /\ StampsEarned

\* No delivery has begun.
LEMMA InitIInv == Init => IInv
  <1> SUFFICES ASSUME Init PROVE IInv
    OBVIOUS
  <1> USE DeliveryAssumption, DeliveryParts
  <1>1. TypeOK
    BY DEF Init, TypeOK, EndpointStates, WorkerPcs, Outcomes, Idle
  <1>2. WorkersWellFormed /\ PublishersWellFormed /\ BegunDeliveries
    BY DEF Init, WorkersWellFormed, PublishersWellFormed, BegunDeliveries, Idle
  <1>3. SingleCarrier /\ CarrierState
    BY DEF Init, SingleCarrier, CarrierState, ToPush, Idle
  <1>4. NothingLost
    BY DEF Init, NothingLost
  <1>5. \A e \in Endpoints : Acked(e) = {} /\ Booking(e) = {}
    BY DEF Init, Acked, Booking, Idle
  <1>6. FiniteBooks /\ UsageMatchesAcks
    <2>1. IsFiniteSet({}) /\ Cardinality({}) = 0
      BY FS_EmptySet
    <2>2. \A e \in Endpoints : usage[e] = 0
      BY DEF Init
    <2>3. \A e \in Endpoints : /\ IsFiniteSet(Acked(e)) /\ IsFiniteSet(Booking(e))
                               /\ Cardinality(Acked(e)) = 0 /\ Cardinality(Booking(e)) = 0
      BY <1>5, <2>1
    <2>4. FiniteBooks
      BY <2>3 DEF FiniteBooks
    <2>5. UsageMatchesAcks
      BY <2>2, <2>3 DEF UsageMatchesAcks
    <2> QED BY <2>4, <2>5
  <1>7. StampsEarned
    BY DEF Init, StampsEarned
  <1> QED BY <1>1, <1>2, <1>3, <1>4, <1>6, <1>7 DEF IInv

-----------------------------------------------------------------------------
(* What the kinds of step do to the queue and to a worker.                 *)

\* The messages on the list are about deliveries and within the attempts.
LEMMA QueueTyped ==
    ASSUME TypeOK
    PROVE  /\ Len(queue) \in Nat
           /\ \A i \in 1..Len(queue) : /\ queue[i] \in Message
                                       /\ queue[i].delivery \in Deliveries
                                       /\ queue[i].retry \in 0..(MaxAttempts - 1)
  <1>1. Len(queue) \in Nat /\ \A i \in 1..Len(queue) : queue[i] \in Message
    BY DEF TypeOK
  <1> QED BY <1>1 DEF Message

\* RPUSH: one more message, at the tail.
LEMMA PushedFacts ==
    ASSUME TypeOK, NEW m \in Message, queue' = Append(queue, m)
    PROVE  /\ queue' \in Seq(Message)
           /\ Len(queue') = Len(queue) + 1
           /\ Len(queue) \in Nat
           /\ \A i \in 1..Len(queue) : queue'[i] = queue[i]
           /\ queue'[Len(queue) + 1] = m
           /\ \A i \in 1..Len(queue') : i \in 1..Len(queue) \/ i = Len(queue) + 1
  <1>1. queue \in Seq(Message)
    BY DEF TypeOK
  <1>2. /\ queue' \in Seq(Message)
        /\ Len(queue') = Len(queue) + 1
        /\ \A i \in 1..Len(queue) : queue'[i] = queue[i]
        /\ queue'[Len(queue) + 1] = m
    BY <1>1, AppendProperties
  <1>3. Len(queue) \in Nat
    BY <1>1
  <1> QED BY <1>2, <1>3

\* LPOP: the head leaves, the rest moves up.
LEMMA PoppedFacts ==
    ASSUME TypeOK, queue # <<>>, queue' = Tail(queue)
    PROVE  /\ Head(queue) = queue[1]
           /\ 1 \in 1..Len(queue)
           /\ queue' \in Seq(Message)
           /\ Len(queue') = Len(queue) - 1
           /\ \A i \in 1..Len(queue') : i + 1 \in 1..Len(queue) /\ queue'[i] = queue[i + 1]
           /\ \A i \in 1..Len(queue) : i = 1 \/ (i - 1 \in 1..Len(queue') /\ queue'[i - 1] = queue[i])
  <1>1. queue \in Seq(Message)
    BY DEF TypeOK
  <1>2. Len(queue) \in Nat \ {0}
    BY <1>1, EmptySeq
  <1>3. /\ queue' \in Seq(Message)
        /\ Len(queue') = Len(queue) - 1
        /\ \A i \in 1..Len(queue') : queue'[i] = queue[i + 1]
    BY <1>1, HeadTailProperties
  <1>4. Head(queue) = queue[1]
    BY <1>1
  <1>5. \A i \in 1..Len(queue') : i + 1 \in 1..Len(queue)
    BY <1>2, <1>3
  <1>6. \A i \in 1..Len(queue) : i # 1 => i - 1 \in 1..Len(queue') /\ (i - 1) + 1 = i
    BY <1>2, <1>3
  <1>7. \A i \in 1..Len(queue) : i # 1 => i - 1 \in 1..Len(queue') /\ queue'[i - 1] = queue[i]
    BY <1>3, <1>6
  <1> QED BY <1>2, <1>3, <1>4, <1>5, <1>7

WorkerType == [Workers -> [pc : WorkerPcs, delivery : Deliveries \cup {NoDelivery},
                           retry : 0..(MaxAttempts - 1)]]

\* A worker goes on with its message, or ends its handler.
LEMMA WorkerGoesFacts ==
    ASSUME TypeOK, NEW w \in Workers, NEW pc \in WorkerPcs, WorkerGoes(w, pc)
    PROVE  /\ worker' \in WorkerType
           /\ worker'[w].pc = pc
           /\ worker'[w].delivery = worker[w].delivery
           /\ worker'[w].retry = worker[w].retry
           /\ \A x \in Workers : worker'[x].delivery = worker[x].delivery
           /\ \A x \in Workers : x # w => worker'[x] = worker[x]
  BY DEF TypeOK, WorkerType, WorkerGoes

\* What ending a handler changes.
LEMMA WorkerDoneFacts ==
    ASSUME TypeOK, NEW w \in Workers, WorkerDone(w)
    PROVE  /\ worker' \in WorkerType
           /\ worker'[w] = Idle
           /\ worker'[w].pc = "idle"
           /\ worker'[w].delivery = NoDelivery
           /\ \A x \in Workers : x # w => worker'[x] = worker[x]
  BY DeliveryAssumption DEF TypeOK, WorkerType, WorkerDone, Idle, WorkerPcs

\* The bill does not move when neither the acknowledgements nor the workers that
\* still have to book one do.
LEMMA BillKept ==
    ASSUME IInv, UNCHANGED usage, faults' = 0 => faults = 0,
           \A e \in Endpoints : endpoint[e].state = "deleted" => endpoint'[e].state = "deleted",
           \A e \in Endpoints : Acked(e)' = Acked(e) /\ Booking(e)' = Booking(e)
    PROVE  FiniteBooks' /\ UsageMatchesAcks'
  BY DEF IInv, FiniteBooks, UsageMatchesAcks

\* Faults only grow, within their bound.
FaultsGrow == faults' \in 0..MaxFaults /\ (faults' = 0 => faults = 0)

\* A fault is counted: after it there has been one.
LEMMA FaultFacts ==
    ASSUME TypeOK, NEW k, Fault(k)
    PROVE  FaultsGrow /\ faults' # 0
  BY DeliveryAssumption DEF TypeOK, Fault, FaultsGrow

\* The timestamps stay earned when no POST is undone and no acknowledgement changes.
LEMMA StampsKept ==
    ASSUME IInv, UNCHANGED <<stamped, posts>>, faults' = 0 => faults = 0,
           \A d \in Deliveries : outcome'[d] = "acked" <=> outcome[d] = "acked"
    PROVE  StampsEarned'
  <1>1. \A e \in Endpoints, v \in Events : outcome'[<<e, v>>] = "acked" <=> outcome[<<e, v>>] = "acked"
    BY DeliveryParts
  <1>2. \A e \in Endpoints : Acked(e)' = Acked(e)
    BY <1>1 DEF Acked
  <1>3. StampsEarned
    BY DEF IInv
  <1> QED BY <1>1, <1>2, <1>3 DEF StampsEarned

\* What is on the list is open; what a worker holds is open or acknowledged.
LEMMA HeldHaveBegun ==
    ASSUME IInv
    PROVE  /\ \A i \in 1..Len(queue) : /\ queue[i].delivery \in Deliveries
                                       /\ outcome[queue[i].delivery] = "open"
           /\ \A w \in Workers : worker[w].pc # "idle" =>
                 /\ worker[w].delivery \in Deliveries
                 /\ outcome[worker[w].delivery] \in {"open", "acked"}
  <1> USE DEF IInv
  <1>1. \A i \in 1..Len(queue) : /\ queue[i].delivery \in Deliveries
                                 /\ outcome[queue[i].delivery] = "open"
    BY QueueTyped DEF CarrierState
  <1>2. ASSUME NEW w \in Workers, worker[w].pc # "idle"
        PROVE  /\ worker[w].delivery \in Deliveries
               /\ outcome[worker[w].delivery] \in {"open", "acked"}
    <2>1. worker[w].delivery \in Deliveries
      BY <1>2 DEF WorkersWellFormed
    <2>2. worker[w].pc \in {"taken", "posting", "acked", "stamped", "failed", "retrying"}
      BY <1>2 DEF TypeOK, WorkerPcs
    <2>3. outcome[worker[w].delivery] \in {"open", "acked"}
      BY <2>2 DEF CarrierState, Mine
    <2> QED BY <2>1, <2>3
  <1> QED BY <1>1, <1>2

-----------------------------------------------------------------------------
(* One lemma per kind of step: it preserves the invariant.                 *)

\* Creating, patching and deleting endpoints: a row never becomes absent again, and a
\* deleted one stays deleted.  Nothing changes but them and the count of the faults.
LEMMA EndpointStep ==
    ASSUME IInv,
           endpoint' \in [Endpoints -> [state : EndpointStates, types : Subscriptions]],
           edits' \in 0..MaxEdits,
           \A e \in Endpoints : endpoint'[e].state = "absent" => endpoint[e].state = "absent",
           \A e \in Endpoints : endpoint[e].state = "deleted" => endpoint'[e].state = "deleted",
           FaultsGrow,
           UNCHANGED <<publisher, queue, worker, stamped, usage, posts, outcome>>
    PROVE  IInv'
  <1> USE DEF IInv, FaultsGrow
  <1>1. TypeOK'
    BY DEF TypeOK
  <1>2. WorkersWellFormed' /\ PublishersWellFormed'
    BY DEF WorkersWellFormed, PublishersWellFormed
  <1>3. BegunDeliveries'
    BY DeliveryParts DEF BegunDeliveries
  <1>4. SingleCarrier'
    BY DEF SingleCarrier, ToPush
  <1>5. CarrierState'
    BY DEF CarrierState, ToPush, Sent, Mine
  <1>6. NothingLost'
    BY DEF NothingLost, Carried, ToPush, Queued, Taken
  <1>7. FiniteBooks' /\ UsageMatchesAcks'
    <2>1. \A e \in Endpoints : Acked(e)' = Acked(e) /\ Booking(e)' = Booking(e)
      BY DEF Acked, Booking
    <2> QED BY <2>1, BillKept
  <1>8. StampsEarned'
    BY StampsKept
  <1> QED BY <1>1, <1>2, <1>3, <1>4, <1>5, <1>6, <1>7, <1>8

\* The publisher reads the endpoints: the deliveries to those it chooses begin.
LEMMA SelectStep ==
    ASSUME IInv, NEW v \in Events, SelectEndpoints(v)
    PROVE  IInv'
  <1> USE DEF IInv
  <1> DEFINE chosen == {e \in Endpoints : /\ endpoint[e].state = "active"
                                          /\ EventType[v] \in endpoint[e].types}
  <1>0. /\ publisher[v].pc = "todo"
        /\ publisher' = [publisher EXCEPT ![v] = [pc |-> "pushing", left |-> chosen]]
        /\ outcome' = [d \in Deliveries |-> IF d[2] = v /\ d[1] \in chosen THEN "open" ELSE outcome[d]]
        /\ UNCHANGED <<endpoint, queue, worker, stamped, usage, edits, faults, posts>>
    BY DEF SelectEndpoints
  <1>a. chosen \subseteq Endpoints /\ \A e \in chosen : endpoint[e].state = "active"
    OBVIOUS
  <1> HIDE DEF chosen
  <1>b. /\ publisher'[v] = [pc |-> "pushing", left |-> chosen]
        /\ \A u \in Events : u # v => publisher'[u] = publisher[u]
        /\ publisher[v].left = {}
        /\ \A e \in Endpoints : outcome[<<e, v>>] = "unselected"
    BY <1>0 DEF TypeOK, PublishersWellFormed
  <1>c. \A d \in Deliveries : d[2] = v => outcome[d] = "unselected" /\ posts[d] = 0
    BY <1>b, DeliveryParts DEF BegunDeliveries
  <1>d. \A d \in Deliveries : /\ d[2] = v /\ d[1] \in chosen => outcome'[d] = "open"
                              /\ ~(d[2] = v /\ d[1] \in chosen) => outcome'[d] = outcome[d]
    BY <1>0
  <1>e. \A d \in Deliveries : outcome[d] # "unselected" => outcome'[d] = outcome[d]
    BY <1>c, <1>d
  <1>f. \A d \in Deliveries : ToPush(d)' <=> IF d[2] = v THEN d[1] \in chosen ELSE ToPush(d)
    BY <1>b, DeliveryParts DEF ToPush
  <1>1. TypeOK'
    <2>1. publisher' \in [Events -> [pc : {"todo", "pushing", "done"}, left : SUBSET Endpoints]]
      BY <1>0, <1>a DEF TypeOK
    <2>2. outcome' \in [Deliveries -> Outcomes]
      BY <1>0 DEF TypeOK, Outcomes
    <2> QED BY <1>0, <2>1, <2>2 DEF TypeOK
  <1>2. WorkersWellFormed'
    BY <1>0 DEF WorkersWellFormed
  <1>3. PublishersWellFormed'
    <2> SUFFICES ASSUME NEW u \in Events
                 PROVE  /\ publisher'[u].pc # "pushing" => publisher'[u].left = {}
                        /\ publisher'[u].pc = "todo" =>
                              \A e \in Endpoints : outcome'[<<e, u>>] = "unselected"
      BY DEF PublishersWellFormed
    <2>1. CASE u = v
      BY <2>1, <1>b
    <2>2. CASE u # v
      <3>1. \A e \in Endpoints : outcome'[<<e, u>>] = outcome[<<e, u>>]
        BY <2>2, <1>d, DeliveryParts
      <3> QED BY <2>2, <3>1, <1>b DEF PublishersWellFormed
    <2> QED BY <2>1, <2>2
  <1>4. BegunDeliveries'
    BY <1>0, <1>a, <1>c, <1>d DEF BegunDeliveries
  <1>g. /\ \A i \in 1..Len(queue) : queue[i].delivery \in Deliveries /\ queue[i].delivery[2] # v
        /\ \A w \in Workers : worker[w].pc # "idle" =>
              worker[w].delivery \in Deliveries /\ worker[w].delivery[2] # v
    BY <1>c, HeldHaveBegun
  <1>5. SingleCarrier'
    BY <1>0, <1>f, <1>g DEF SingleCarrier
  <1>6. CarrierState'
    <2>1. \A d \in Deliveries : ToPush(d)' => outcome'[d] = "open" /\ Sent(d, 0)'
      BY <1>0, <1>c, <1>d, <1>f DEF CarrierState, Sent
    <2>2. /\ \A i \in 1..Len(queue) : outcome'[queue[i].delivery] = outcome[queue[i].delivery]
          /\ \A w \in Workers : worker[w].pc # "idle" =>
                outcome'[worker[w].delivery] = outcome[worker[w].delivery]
      BY <1>d, <1>g
    <2> QED BY <1>0, <2>1, <2>2 DEF CarrierState, Sent, Mine
  <1>7. NothingLost'
    <2>1. \A d \in Deliveries : Carried(d) /\ d[2] # v => Carried(d)'
      BY <1>0, <1>f DEF Carried, Queued, Taken
    <2>2. \A d \in Deliveries : ToPush(d)' => Carried(d)'
      BY DEF Carried
    <2> QED BY <1>0, <1>c, <1>d, <1>f, <2>1, <2>2 DEF NothingLost
  <1>8. FiniteBooks' /\ UsageMatchesAcks' /\ StampsEarned'
    <2>1. \A d \in Deliveries : outcome'[d] = "acked" <=> outcome[d] = "acked"
      BY <1>c, <1>d
    <2>2. \A e \in Endpoints : Acked(e)' = Acked(e) /\ Booking(e)' = Booking(e)
      BY <1>0, <2>1, DeliveryParts DEF Acked, Booking
    <2>3. FiniteBooks' /\ UsageMatchesAcks'
      BY <1>0, <2>2, BillKept
    <2> QED BY <1>0, <2>1, <2>3, StampsKept
  <1> QED BY <1>1, <1>2, <1>3, <1>4, <1>5, <1>6, <1>7, <1>8

\* A first attempt's message moves from the publisher to the tail of the list.
LEMMA PushedStep ==
    ASSUME IInv, NEW v \in Events, NEW e \in Endpoints,
           publisher[v].pc = "pushing", e \in publisher[v].left,
           publisher' = Pushed(v, e),
           queue' = Append(queue, [delivery |-> <<e, v>>, retry |-> 0]),
           FaultsGrow,
           UNCHANGED <<endpoint, worker, stamped, usage, edits, posts, outcome>>
    PROVE  IInv'
  <1> USE DEF IInv
  <1> DEFINE m == [delivery |-> <<e, v>>, retry |-> 0]
  <1>a. /\ m \in Message
        /\ m.delivery = <<e, v>>
        /\ m.retry = 0
        /\ <<e, v>> \in Deliveries
        /\ <<e, v>>[1] = e
        /\ <<e, v>>[2] = v
    BY DeliveryParts, DeliveryAssumption DEF Message
  <1>b. queue' = Append(queue, m)
    OBVIOUS
  <1> HIDE DEF m
  <1>c. /\ queue' \in Seq(Message)
        /\ Len(queue') = Len(queue) + 1
        /\ Len(queue) \in Nat
        /\ \A i \in 1..Len(queue) : queue'[i] = queue[i]
        /\ queue'[Len(queue) + 1] = m
        /\ \A i \in 1..Len(queue') : i \in 1..Len(queue) \/ i = Len(queue) + 1
    BY <1>a, <1>b, PushedFacts
  <1>d. /\ publisher' \in [Events -> [pc : {"todo", "pushing", "done"}, left : SUBSET Endpoints]]
        /\ publisher'[v].pc = "pushing"
        /\ publisher'[v].left = publisher[v].left \ {e}
        /\ \A u \in Events : u # v => publisher'[u] = publisher[u]
    BY DEF TypeOK, Pushed
  <1>e. ToPush(<<e, v>>) /\ outcome[<<e, v>>] = "open" /\ Sent(<<e, v>>, 0)
    BY <1>a DEF ToPush, CarrierState
  <1>f. \A d \in Deliveries : ToPush(d)' <=> ToPush(d) /\ d # <<e, v>>
    <2> SUFFICES ASSUME NEW d \in Deliveries PROVE ToPush(d)' <=> ToPush(d) /\ d # <<e, v>>
      OBVIOUS
    <2>1. d[1] \in Endpoints /\ d[2] \in Events /\ d = <<d[1], d[2]>>
      BY DeliveryParts
    <2>2. d = <<e, v>> <=> d[1] = e /\ d[2] = v
      BY <2>1, <1>a
    <2> QED BY <2>1, <2>2, <1>d DEF ToPush
  <1>1. TypeOK'
    BY <1>c, <1>d DEF TypeOK, FaultsGrow
  <1>2. WorkersWellFormed' /\ BegunDeliveries'
    BY DEF WorkersWellFormed, BegunDeliveries
  <1>3. PublishersWellFormed'
    BY <1>d DEF PublishersWellFormed
  <1>g. \A i \in 1..Len(queue) : queue[i].delivery \in Deliveries
    BY QueueTyped
  <1>h. \A w \in Workers : worker[w].pc # "idle" => worker[w].delivery \in Deliveries
    BY DEF WorkersWellFormed
  <1>i. /\ \A i \in 1..Len(queue) : queue[i].delivery # <<e, v>>
        /\ \A w \in Workers : worker[w].delivery # <<e, v>>
    BY <1>a, <1>e, <1>h, DeliveryAssumption DEF SingleCarrier, WorkersWellFormed
  <1>4. SingleCarrier'
    <2>1. \A i, j \in 1..Len(queue') : queue'[i].delivery = queue'[j].delivery => i = j
      BY <1>a, <1>c, <1>i DEF SingleCarrier
    <2>2. \A i \in 1..Len(queue'), w \in Workers : queue'[i].delivery # worker[w].delivery
      BY <1>a, <1>c, <1>i DEF SingleCarrier
    <2>3. (\A i \in 1..Len(queue) : ~ToPush(queue[i].delivery))'
      BY <1>a, <1>c, <1>f, <1>g DEF SingleCarrier
    <2>4. (\A w \in Workers : worker[w].pc # "idle" => ~ToPush(worker[w].delivery))'
      BY <1>f, <1>h DEF SingleCarrier
    <2> QED BY <2>1, <2>2, <2>3, <2>4 DEF SingleCarrier
  <1>5. CarrierState'
    <2>1. \A d \in Deliveries, n \in Nat : Sent(d, n) => Sent(d, n)'
      BY DEF Sent, FaultsGrow
    <2>2. \A d \in Deliveries : ToPush(d)' => outcome[d] = "open" /\ Sent(d, 0)'
      BY <1>f, <2>1 DEF CarrierState
    <2>3. ASSUME NEW i \in 1..Len(queue')
          PROVE  (outcome[queue[i].delivery] = "open" /\ Sent(queue[i].delivery, queue[i].retry))'
      <3>1. CASE i \in 1..Len(queue)
        BY <3>1, <1>c DEF CarrierState, Sent, FaultsGrow
      <3>2. CASE i = Len(queue) + 1
        BY <3>2, <1>a, <1>c, <1>e DEF Sent, FaultsGrow
      <3> QED BY <3>1, <3>2, <1>c
    <2> QED BY <2>2, <2>3 DEF CarrierState, Sent, FaultsGrow, Mine
  <1>6. NothingLost'
    <2>1. \A d \in Deliveries : Queued(d) => Queued(d)'
      BY <1>c DEF Queued
    <2>2. Queued(<<e, v>>)'
      BY <1>a, <1>c DEF Queued
    <2>3. \A d \in Deliveries : Carried(d) => Carried(d)'
      BY <1>f, <2>1, <2>2 DEF Carried, Taken
    <2> QED BY <2>3 DEF NothingLost, FaultsGrow
  <1>7. FiniteBooks' /\ UsageMatchesAcks'
    <2>1. \A f \in Endpoints : Acked(f)' = Acked(f) /\ Booking(f)' = Booking(f)
      BY DEF Acked, Booking
    <2> QED BY <2>1, BillKept DEF FaultsGrow
  <1>8. StampsEarned'
    BY StampsKept DEF FaultsGrow
  <1> QED BY <1>1, <1>2, <1>3, <1>4, <1>5, <1>6, <1>7, <1>8

\* A publisher drops what it has not pushed: RPUSH raised, or it stopped.
LEMMA LeftDropped ==
    ASSUME IInv,
           publisher' \in [Events -> [pc : {"todo", "pushing", "done"}, left : SUBSET Endpoints]],
           \A v \in Events : /\ publisher'[v].left \subseteq publisher[v].left
                             /\ publisher'[v].pc # "pushing" => publisher'[v].left = {}
                             /\ publisher'[v].pc = "todo" => publisher[v].pc = "todo",
           FaultsGrow, faults' # 0,
           UNCHANGED <<endpoint, queue, worker, stamped, usage, edits, posts, outcome>>
    PROVE  IInv'
  <1> USE DEF IInv
  <1>a. \A d \in Deliveries : ToPush(d)' => ToPush(d)
    BY DeliveryParts DEF ToPush
  <1>1. TypeOK'
    BY DEF TypeOK, FaultsGrow
  <1>2. WorkersWellFormed' /\ PublishersWellFormed' /\ BegunDeliveries'
    BY DEF WorkersWellFormed, PublishersWellFormed, BegunDeliveries
  <1>3. SingleCarrier'
    BY <1>a, HeldHaveBegun DEF SingleCarrier
  <1>4. CarrierState'
    BY <1>a DEF CarrierState, Sent, Mine
  <1>5. NothingLost'
    BY DEF NothingLost
  <1>6. FiniteBooks' /\ UsageMatchesAcks'
    <2>1. \A f \in Endpoints : Acked(f)' = Acked(f) /\ Booking(f)' = Booking(f)
      BY DEF Acked, Booking
    <2> QED BY <2>1, BillKept
  <1>7. StampsEarned'
    BY StampsKept
  <1> QED BY <1>1, <1>2, <1>3, <1>4, <1>5, <1>6, <1>7

\* BLPOP: the head of the list becomes what the worker holds.
LEMMA TakeStep ==
    ASSUME IInv, NEW w \in Workers, Take(w)
    PROVE  IInv'
  <1> USE DEF IInv
  <1>a. /\ Head(queue) = queue[1]
        /\ 1 \in 1..Len(queue)
        /\ queue' \in Seq(Message)
        /\ Len(queue') = Len(queue) - 1
        /\ \A i \in 1..Len(queue') : i + 1 \in 1..Len(queue) /\ queue'[i] = queue[i + 1]
        /\ \A i \in 1..Len(queue) : i = 1 \/ (i - 1 \in 1..Len(queue') /\ queue'[i - 1] = queue[i])
        /\ Len(queue) \in Nat
    BY PoppedFacts, QueueTyped DEF Take
  <1>b. /\ queue[1].delivery \in Deliveries
        /\ queue[1].retry \in 0..(MaxAttempts - 1)
        /\ outcome[queue[1].delivery] = "open"
        /\ Sent(queue[1].delivery, queue[1].retry)
        /\ ~ToPush(queue[1].delivery)
    BY <1>a, QueueTyped DEF CarrierState, SingleCarrier
  <1>c. /\ worker[w].pc = "idle"
        /\ worker[w].delivery = NoDelivery
        /\ worker' \in WorkerType
        /\ worker'[w].pc = "taken"
        /\ worker'[w].delivery = queue[1].delivery
        /\ worker'[w].retry = queue[1].retry
        /\ \A x \in Workers : x # w => worker'[x] = worker[x]
    BY <1>a, <1>b DEF Take, TypeOK, WorkerType, WorkerPcs, WorkersWellFormed
  <1>d. UNCHANGED <<endpoint, publisher, stamped, usage, edits, faults, posts, outcome>>
    BY DEF Take
  <1>e. \A d \in Deliveries : ToPush(d)' <=> ToPush(d)
    BY <1>d DEF ToPush
  <1>1. TypeOK'
    BY <1>a, <1>c, <1>d DEF TypeOK, WorkerType
  <1>2. WorkersWellFormed'
    BY <1>b, <1>c DEF WorkersWellFormed
  <1>3. PublishersWellFormed' /\ BegunDeliveries'
    BY <1>d DEF PublishersWellFormed, BegunDeliveries
  <1>4. SingleCarrier'
    <2>1. \A i, j \in 1..Len(queue') : queue'[i].delivery = queue'[j].delivery => i = j
      <3> SUFFICES ASSUME NEW i \in 1..Len(queue'), NEW j \in 1..Len(queue'),
                          queue'[i].delivery = queue'[j].delivery
                   PROVE  i = j
        OBVIOUS
      <3>1. i + 1 = j + 1
        BY <1>a DEF SingleCarrier
      <3> QED BY <1>a, <3>1
    <2>2. \A x, y \in Workers :
             worker'[x].pc # "idle" /\ worker'[x].delivery = worker'[y].delivery => x = y
      BY <1>a, <1>b, <1>c, DeliveryAssumption DEF SingleCarrier
    <2>3. \A i \in 1..Len(queue') : queue'[i].delivery # queue[1].delivery
      <3> SUFFICES ASSUME NEW i \in 1..Len(queue'), queue'[i].delivery = queue[1].delivery
                   PROVE  FALSE
        OBVIOUS
      <3>1. i + 1 = 1
        BY <1>a DEF SingleCarrier
      <3> QED BY <1>a, <3>1
    <2>4. \A i \in 1..Len(queue'), x \in Workers : queue'[i].delivery # worker'[x].delivery
      BY <1>a, <1>c, <2>3 DEF SingleCarrier
    <2>5. (\A i \in 1..Len(queue) : ~ToPush(queue[i].delivery))'
      BY <1>a, <1>d, <1>e, QueueTyped DEF SingleCarrier
    <2>6. (\A x \in Workers : worker[x].pc # "idle" => ~ToPush(worker[x].delivery))'
      BY <1>b, <1>c, <1>d, <1>e DEF SingleCarrier, WorkersWellFormed
    <2> QED BY <2>1, <2>2, <2>4, <2>5, <2>6 DEF SingleCarrier
  <1>5. CarrierState'
    <2>1. (\A d \in Deliveries : ToPush(d) => outcome[d] = "open" /\ Sent(d, 0))'
      BY <1>d, <1>e DEF CarrierState, Sent
    <2>2. (\A i \in 1..Len(queue) : /\ outcome[queue[i].delivery] = "open"
                                    /\ Sent(queue[i].delivery, queue[i].retry))'
      BY <1>a, <1>d DEF CarrierState, Sent
    <2>3. ASSUME NEW x \in Workers
          PROVE  (/\ worker[x].pc \in {"taken", "posting"} =>
                        outcome[Mine(x)] = "open" /\ Sent(Mine(x), worker[x].retry)
                  /\ worker[x].pc \in {"failed", "retrying"} =>
                        outcome[Mine(x)] = "open" /\ Sent(Mine(x), worker[x].retry + 1)
                  /\ worker[x].pc \in {"acked", "stamped"} => outcome[Mine(x)] = "acked")'
      <3>1. CASE x = w
        BY <3>1, <1>b, <1>c, <1>d DEF Sent, Mine
      <3>2. CASE x # w
        BY <3>2, <1>c, <1>d DEF CarrierState, Sent, Mine
      <3> QED BY <3>1, <3>2
    <2> QED BY <2>1, <2>2, <2>3 DEF CarrierState
  <1>6. NothingLost'
    <2>1. ASSUME NEW d \in Deliveries, Carried(d) PROVE Carried(d)'
      <3>1. CASE ToPush(d)
        BY <3>1, <1>e DEF Carried
      <3>2. CASE Queued(d)
        <4> PICK i \in 1..Len(queue) : queue[i].delivery = d
          BY <3>2 DEF Queued
        <4>1. CASE i = 1
          BY <4>1, <1>c DEF Carried, Taken
        <4>2. CASE i # 1
          BY <4>2, <1>a DEF Carried, Queued
        <4> QED BY <4>1, <4>2
      <3>3. CASE Taken(d)
        BY <3>3, <1>c, DeliveryAssumption DEF Carried, Taken
      <3> QED BY <2>1, <3>1, <3>2, <3>3 DEF Carried
    <2> QED BY <1>d, <2>1 DEF NothingLost
  <1>7. FiniteBooks' /\ UsageMatchesAcks' /\ StampsEarned'
    <2>1. \A e \in Endpoints : Acked(e)' = Acked(e) /\ Booking(e)' = Booking(e)
      BY <1>c, <1>d DEF Acked, Booking
    <2> QED BY <2>1, <1>d, BillKept, StampsKept
  <1> QED BY <1>1, <1>2, <1>3, <1>4, <1>5, <1>6, <1>7

\* A worker goes on with its message without a POST: an endpoint was loaded, a session
\* failed, or the attempt's timestamp is written.
LEMMA WorkerMoves ==
    ASSUME IInv, NEW w \in Workers, NEW pc \in WorkerPcs, WorkerGoes(w, pc),
           \/ worker[w].pc = "taken" /\ pc = "posting"
           \/ worker[w].pc = "taken" /\ pc = "failed" /\ faults' # 0
           \/ worker[w].pc = "acked" /\ pc = "stamped"
           \/ worker[w].pc = "failed" /\ pc = "retrying",
           FaultsGrow,
           stamped' \subseteq Endpoints \X {"success", "failure"}, StampsEarned',
           UNCHANGED <<endpoint, publisher, queue, usage, edits, posts, outcome>>
    PROVE  IInv'
  <1> USE DEF IInv
  <1>a. /\ worker' \in WorkerType
        /\ worker'[w].pc = pc
        /\ worker'[w].delivery = worker[w].delivery
        /\ worker'[w].retry = worker[w].retry
        /\ \A x \in Workers : worker'[x].delivery = worker[x].delivery
        /\ \A x \in Workers : x # w => worker'[x] = worker[x]
        /\ worker[w].retry \in Nat
    BY WorkerGoesFacts DEF TypeOK
  <1>b. \A d : ToPush(d)' <=> ToPush(d)
    BY DEF ToPush
  <1>c. /\ pc # "idle"
        /\ worker[w].pc # "idle"
        /\ worker[w].delivery \in Deliveries
    BY DEF WorkersWellFormed
  <1>d. \A x \in Workers : worker'[x].pc = "idle" <=> worker[x].pc = "idle"
    BY <1>a, <1>c
  <1>1. TypeOK'
    BY <1>a DEF TypeOK, FaultsGrow, WorkerType
  <1>2. WorkersWellFormed'
    BY <1>a, <1>d DEF WorkersWellFormed
  <1>3. PublishersWellFormed' /\ BegunDeliveries'
    BY DEF PublishersWellFormed, BegunDeliveries
  <1>4. SingleCarrier'
    <2>1. (\A i \in 1..Len(queue) : ~ToPush(queue[i].delivery))'
      BY <1>b DEF SingleCarrier
    <2>2. (\A x \in Workers : worker[x].pc # "idle" => ~ToPush(worker[x].delivery))'
      BY <1>a, <1>b, <1>d DEF SingleCarrier
    <2> QED BY <1>a, <1>d, <2>1, <2>2 DEF SingleCarrier
  <1>5. CarrierState'
    <2>1. (\A d \in Deliveries : ToPush(d) => outcome[d] = "open" /\ Sent(d, 0))'
      BY <1>b DEF CarrierState, Sent, FaultsGrow
    <2>2. (\A i \in 1..Len(queue) : /\ outcome[queue[i].delivery] = "open"
                                    /\ Sent(queue[i].delivery, queue[i].retry))'
      BY DEF CarrierState, Sent, FaultsGrow
    <2>3. ASSUME NEW x \in Workers
          PROVE  (/\ worker[x].pc \in {"taken", "posting"} =>
                        outcome[Mine(x)] = "open" /\ Sent(Mine(x), worker[x].retry)
                  /\ worker[x].pc \in {"failed", "retrying"} =>
                        outcome[Mine(x)] = "open" /\ Sent(Mine(x), worker[x].retry + 1)
                  /\ worker[x].pc \in {"acked", "stamped"} => outcome[Mine(x)] = "acked")'
      <3>1. CASE x = w
        <4>1. posts[Mine(w)] \in Nat
          BY <1>c DEF TypeOK, Mine
        <4> QED BY <3>1, <4>1, <1>a DEF CarrierState, Sent, Mine, FaultsGrow
      <3>2. CASE x # w
        BY <3>2, <1>a DEF CarrierState, Sent, Mine, FaultsGrow
      <3> QED BY <3>1, <3>2
    <2> QED BY <2>1, <2>2, <2>3 DEF CarrierState
  <1>6. NothingLost'
    <2>1. \A d \in Deliveries : Carried(d) <=> Carried(d)'
      BY <1>a, <1>b DEF Carried, Queued, Taken
    <2> QED BY <2>1 DEF NothingLost, FaultsGrow
  <1>7. FiniteBooks' /\ UsageMatchesAcks'
    <2>1. \A e \in Endpoints : Acked(e)' = Acked(e) /\ Booking(e)' = Booking(e)
      BY <1>a DEF Acked, Booking
    <2> QED BY <2>1, BillKept DEF FaultsGrow
  <1> QED BY <1>1, <1>2, <1>3, <1>4, <1>5, <1>6, <1>7

\* One more acknowledgement to book by one more worker leaves the bill where it is.
LEMMA BillOfPost ==
    ASSUME IInv, NEW w \in Workers, worker[w].pc = "posting",
           WorkerGoes(w, "acked"), outcome' = [outcome EXCEPT ![Mine(w)] = "acked"],
           UNCHANGED <<endpoint, usage, faults>>
    PROVE  FiniteBooks' /\ UsageMatchesAcks'
  <1> USE DEF IInv
  <1>0. worker[w].delivery \in Deliveries
    BY DEF WorkersWellFormed
  <1> PICK e \in Endpoints, v \in Events : worker[w].delivery = <<e, v>>
    BY <1>0, DeliveryParts
  <1>1. <<e, v>> \in Deliveries /\ Mine(w) = <<e, v>> /\ outcome[<<e, v>>] = "open"
    BY <1>0 DEF CarrierState, Mine
  <1>2. /\ worker'[w].pc = "acked"
        /\ worker'[w].delivery = <<e, v>>
        /\ \A x \in Workers : x # w => worker'[x] = worker[x]
    BY WorkerGoesFacts DEF WorkerPcs
  <1>3. \A f \in Endpoints : f # e => Acked(f)' = Acked(f) /\ Booking(f)' = Booking(f)
    <2> SUFFICES ASSUME NEW f \in Endpoints, f # e
                 PROVE  Acked(f)' = Acked(f) /\ Booking(f)' = Booking(f)
      OBVIOUS
    <2>1. \A u \in Events : outcome'[<<f, u>>] = outcome[<<f, u>>]
      BY <1>1, DeliveryParts DEF TypeOK, Mine
    <2> QED BY <1>2, <2>1 DEF Acked, Booking
  <1>4. Acked(e)' = Acked(e) \cup {v} /\ v \notin Acked(e)
    <2>1. /\ outcome'[<<e, v>>] = "acked"
          /\ \A u \in Events : u # v => outcome'[<<e, u>>] = outcome[<<e, u>>]
      BY <1>1, DeliveryParts DEF TypeOK, Mine
    <2> QED BY <1>1, <2>1 DEF Acked
  <1>5. Booking(e)' = Booking(e) \cup {w} /\ w \notin Booking(e)
    BY <1>2 DEF Booking
  <1>6. IsFiniteSet(Acked(e)) /\ IsFiniteSet(Booking(e))
    BY <1>1 DEF FiniteBooks
  <1>7. /\ IsFiniteSet(Acked(e)') /\ Cardinality(Acked(e)') = Cardinality(Acked(e)) + 1
        /\ IsFiniteSet(Booking(e)') /\ Cardinality(Booking(e)') = Cardinality(Booking(e)) + 1
    BY <1>4, <1>5, <1>6, FS_AddElement
  <1>8. Cardinality(Acked(e)) \in Nat /\ Cardinality(Booking(e)) \in Nat /\ usage[e] \in Nat
    BY <1>1, <1>6, FS_CardinalityType DEF TypeOK
  <1>9. FiniteBooks'
    BY <1>3, <1>7 DEF FiniteBooks
  <1>10. UsageMatchesAcks'
    <2> SUFFICES ASSUME NEW f \in Endpoints
                 PROVE  (/\ usage[f] + Cardinality(Booking(f)) <= Cardinality(Acked(f))
                         /\ faults = 0 /\ endpoint[f].state # "deleted"
                               => usage[f] + Cardinality(Booking(f)) = Cardinality(Acked(f)))'
      BY DEF UsageMatchesAcks
    <2>1. CASE f = e
      BY <2>1, <1>7, <1>8 DEF UsageMatchesAcks
    <2>2. CASE f # e
      BY <2>2, <1>3 DEF UsageMatchesAcks
    <2> QED BY <2>1, <2>2
  <1> QED BY <1>9, <1>10

\* The POST, acknowledged or not.
LEMMA PostStep ==
    ASSUME IInv, NEW w \in Workers, Post(w)
    PROVE  IInv'
  <1> USE DEF IInv
  <1> DEFINE d == worker[w].delivery
  <1>a. /\ worker[w].pc = "posting"
        /\ d \in Deliveries
        /\ outcome[d] = "open"
        /\ Sent(d, worker[w].retry)
        /\ worker[w].retry \in Nat
        /\ posts[d] \in Nat
    BY DEF Post, WorkersWellFormed, CarrierState, Mine, TypeOK
  <1>b. PICK pc \in {"acked", "failed"} :
            /\ WorkerGoes(w, pc)
            /\ \/ pc = "acked" /\ outcome' = [outcome EXCEPT ![d] = "acked"]
               \/ pc = "failed" /\ UNCHANGED outcome
    BY DEF Post, Mine
  <1>c. /\ posts' = [posts EXCEPT ![d] = @ + 1]
        /\ UNCHANGED <<endpoint, publisher, queue, stamped, usage, edits, faults>>
    BY DEF Post, Mine
  <1>d. /\ worker' \in WorkerType
        /\ worker'[w].pc = pc
        /\ worker'[w].delivery = d
        /\ worker'[w].retry = worker[w].retry
        /\ \A x \in Workers : worker'[x].delivery = worker[x].delivery
        /\ \A x \in Workers : x # w => worker'[x] = worker[x]
    BY <1>b, WorkerGoesFacts DEF WorkerPcs
  <1>e. /\ posts' \in [Deliveries -> Nat]
        /\ posts'[d] = posts[d] + 1
        /\ \A f \in Deliveries : f # d => posts'[f] = posts[f]
    BY <1>a, <1>c DEF TypeOK
  <1>f. /\ outcome' \in [Deliveries -> Outcomes]
        /\ outcome'[d] = IF pc = "acked" THEN "acked" ELSE "open"
        /\ \A f \in Deliveries : f # d => outcome'[f] = outcome[f]
    BY <1>a, <1>b DEF TypeOK, Outcomes
  <1>g. \A f : ToPush(f)' <=> ToPush(f)
    BY <1>c DEF ToPush
  <1>h. /\ ~ToPush(d)
        /\ \A i \in 1..Len(queue) : queue[i].delivery # d
        /\ \A x \in Workers : x # w => worker[x].delivery # d
    BY <1>a DEF SingleCarrier
  <1>i. \A x \in Workers : worker'[x].pc = "idle" <=> worker[x].pc = "idle"
    BY <1>a, <1>d
  <1> HIDE DEF d
  <1>1. TypeOK'
    BY <1>c, <1>d, <1>e, <1>f DEF TypeOK, WorkerType
  <1>2. WorkersWellFormed'
    BY <1>d, <1>i DEF WorkersWellFormed
  <1>3. PublishersWellFormed'
    <2>1. \A u \in Events, e \in Endpoints :
             outcome[<<e, u>>] = "unselected" => outcome'[<<e, u>>] = "unselected"
      BY <1>a, <1>f, DeliveryParts
    <2> QED BY <1>c, <2>1 DEF PublishersWellFormed
  <1>4. BegunDeliveries'
    BY <1>a, <1>c, <1>e, <1>f DEF BegunDeliveries
  <1>5. SingleCarrier'
    <2>1. (\A i \in 1..Len(queue) : ~ToPush(queue[i].delivery))'
      BY <1>c, <1>g DEF SingleCarrier
    <2>2. (\A x \in Workers : worker[x].pc # "idle" => ~ToPush(worker[x].delivery))'
      BY <1>d, <1>g, <1>i DEF SingleCarrier
    <2> QED BY <1>c, <1>d, <1>i, <2>1, <2>2 DEF SingleCarrier
  <1>6. CarrierState'
    <2>1. (\A f \in Deliveries : ToPush(f) => outcome[f] = "open" /\ Sent(f, 0))'
      BY <1>c, <1>e, <1>f, <1>g, <1>h DEF CarrierState, Sent
    <2>2. (\A i \in 1..Len(queue) : /\ outcome[queue[i].delivery] = "open"
                                    /\ Sent(queue[i].delivery, queue[i].retry))'
      BY <1>c, <1>e, <1>f, <1>h, QueueTyped DEF CarrierState, Sent
    <2>3. ASSUME NEW x \in Workers
          PROVE  (/\ worker[x].pc \in {"taken", "posting"} =>
                        outcome[Mine(x)] = "open" /\ Sent(Mine(x), worker[x].retry)
                  /\ worker[x].pc \in {"failed", "retrying"} =>
                        outcome[Mine(x)] = "open" /\ Sent(Mine(x), worker[x].retry + 1)
                  /\ worker[x].pc \in {"acked", "stamped"} => outcome[Mine(x)] = "acked")'
      <3>1. CASE x = w
        BY <3>1, <1>a, <1>c, <1>d, <1>e, <1>f DEF Sent, Mine
      <3>2. CASE x # w
        <4>1. worker[x].pc # "idle" => worker[x].delivery \in Deliveries /\ worker[x].delivery # d
          BY <3>2, <1>h DEF WorkersWellFormed
        <4>2. worker[x].pc # "idle" =>
                 /\ outcome'[worker[x].delivery] = outcome[worker[x].delivery]
                 /\ posts'[worker[x].delivery] = posts[worker[x].delivery]
          BY <4>1, <1>e, <1>f
        <4> QED BY <3>2, <4>2, <1>c, <1>d DEF CarrierState, Sent, Mine
      <3> QED BY <3>1, <3>2
    <2> QED BY <2>1, <2>2, <2>3 DEF CarrierState
  <1>7. NothingLost'
    <2>1. \A f \in Deliveries : Carried(f) <=> Carried(f)'
      BY <1>c, <1>d, <1>g DEF Carried, Queued, Taken
    <2> QED BY <1>a, <1>c, <1>e, <1>f, <2>1 DEF NothingLost
  <1>8. FiniteBooks' /\ UsageMatchesAcks'
    <2>1. CASE pc = "acked"
      BY <2>1, <1>a, <1>b, <1>c, BillOfPost DEF Mine, d
    <2>2. CASE pc = "failed"
      <3>1. UNCHANGED outcome
        BY <1>b, <2>2
      <3>2. \A e \in Endpoints : Acked(e)' = Acked(e) /\ Booking(e)' = Booking(e)
        BY <1>a, <1>d, <2>2, <3>1 DEF Acked, Booking
      <3> QED BY <1>c, <3>2, BillKept
    <2> QED BY <2>1, <2>2
  <1>9. StampsEarned'
    <2>1. \A f \in Deliveries : /\ outcome[f] = "acked" => outcome'[f] = "acked" /\ posts'[f] = posts[f]
                                /\ posts[f] > (IF outcome[f] = "acked" THEN 1 ELSE 0) =>
                                      posts'[f] > (IF outcome'[f] = "acked" THEN 1 ELSE 0)
      BY <1>a, <1>e, <1>f DEF TypeOK
    <2>2. \A e \in Endpoints : Acked(e) # {} => Acked(e)' # {}
      BY <2>1, DeliveryParts DEF Acked
    <2>3. \A e \in Endpoints, u \in Events : <<e, u>> \in Deliveries
      BY DeliveryParts
    <2> QED BY <1>c, <2>1, <2>2, <2>3 DEF StampsEarned
  <1> QED BY <1>1, <1>2, <1>3, <1>4, <1>5, <1>6, <1>7, <1>8, <1>9

\* A worker lays its delivery down and nobody picks it up: the delivery has ended, or
\* a fault has happened.
LEMMA WorkerLeaves ==
    ASSUME IInv, NEW w \in Workers, worker[w].pc # "idle", WorkerDone(w),
           outcome' \in [Deliveries -> Outcomes],
           \A d \in Deliveries : d # Mine(w) => outcome'[d] = outcome[d],
           outcome'[Mine(w)] \in {"open", "acked", "skipped", "gaveup"},
           outcome'[Mine(w)] = "acked" <=> outcome[Mine(w)] = "acked",
           faults' = 0 => outcome'[Mine(w)] # "open",
           faults' = 0 /\ outcome'[Mine(w)] = "gaveup" => posts[Mine(w)] = MaxAttempts,
           FaultsGrow,
           usage' \in [Endpoints -> Nat], FiniteBooks', UsageMatchesAcks',
           UNCHANGED <<endpoint, publisher, queue, stamped, edits, posts>>
    PROVE  IInv'
  <1> USE DEF IInv
  <1> DEFINE d == worker[w].delivery
  <1>a. /\ worker' \in WorkerType
        /\ worker'[w] = Idle
        /\ worker'[w].pc = "idle"
        /\ worker'[w].delivery = NoDelivery
        /\ \A x \in Workers : x # w => worker'[x] = worker[x]
    BY WorkerDoneFacts
  <1>b. /\ d \in Deliveries
        /\ outcome[d] # "unselected"
        /\ ~ToPush(d)
        /\ \A i \in 1..Len(queue) : queue[i].delivery # d
        /\ \A x \in Workers : x # w => worker[x].delivery # d
    BY HeldHaveBegun DEF SingleCarrier
  <1>c. /\ \A f \in Deliveries : f # d => outcome'[f] = outcome[f]
        /\ outcome'[d] \in {"open", "acked", "skipped", "gaveup"}
        /\ outcome'[d] = "acked" <=> outcome[d] = "acked"
        /\ faults' = 0 => outcome'[d] # "open"
        /\ faults' = 0 /\ outcome'[d] = "gaveup" => posts[d] = MaxAttempts
    BY DEF Mine
  <1>d. \A f : ToPush(f)' <=> ToPush(f)
    BY DEF ToPush
  <1> HIDE DEF d
  <1>1. TypeOK'
    BY <1>a DEF TypeOK, FaultsGrow, WorkerType
  <1>2. WorkersWellFormed'
    BY <1>a DEF WorkersWellFormed
  <1>3. PublishersWellFormed'
    <2>1. \A u \in Events, e \in Endpoints :
             outcome[<<e, u>>] = "unselected" => outcome'[<<e, u>>] = "unselected"
      BY <1>b, <1>c, DeliveryParts
    <2> QED BY <2>1 DEF PublishersWellFormed
  <1>4. BegunDeliveries'
    BY <1>b, <1>c DEF BegunDeliveries
  <1>5. SingleCarrier'
    <2>1. (\A i \in 1..Len(queue) : ~ToPush(queue[i].delivery))'
      BY <1>d DEF SingleCarrier
    <2>2. (\A x \in Workers : worker[x].pc # "idle" => ~ToPush(worker[x].delivery))'
      BY <1>a, <1>d DEF SingleCarrier
    <2>3. \A i \in 1..Len(queue), x \in Workers : queue[i].delivery # worker'[x].delivery
      BY <1>a, HeldHaveBegun, DeliveryAssumption DEF SingleCarrier
    <2>4. \A x, y \in Workers :
             worker'[x].pc # "idle" /\ worker'[x].delivery = worker'[y].delivery => x = y
      BY <1>a, HeldHaveBegun, DeliveryAssumption DEF SingleCarrier
    <2> QED BY <2>1, <2>2, <2>3, <2>4 DEF SingleCarrier
  <1>6. CarrierState'
    <2>0. \A f \in Deliveries, n \in Nat : Sent(f, n) => (posts'[f] <= n /\ (faults' = 0 => posts'[f] = n))
      BY DEF Sent, FaultsGrow
    <2>1. (\A f \in Deliveries : ToPush(f) => outcome[f] = "open" /\ Sent(f, 0))'
      BY <1>b, <1>c, <1>d DEF CarrierState, Sent, FaultsGrow
    <2>2. (\A i \in 1..Len(queue) : /\ outcome[queue[i].delivery] = "open"
                                    /\ Sent(queue[i].delivery, queue[i].retry))'
      BY <1>b, <1>c, QueueTyped DEF CarrierState, Sent, FaultsGrow
    <2>3. ASSUME NEW x \in Workers
          PROVE  (/\ worker[x].pc \in {"taken", "posting"} =>
                        outcome[Mine(x)] = "open" /\ Sent(Mine(x), worker[x].retry)
                  /\ worker[x].pc \in {"failed", "retrying"} =>
                        outcome[Mine(x)] = "open" /\ Sent(Mine(x), worker[x].retry + 1)
                  /\ worker[x].pc \in {"acked", "stamped"} => outcome[Mine(x)] = "acked")'
      <3>1. CASE x = w
        BY <3>1, <1>a
      <3>2. CASE x # w
        <4>1. worker[x].pc # "idle" => worker[x].delivery \in Deliveries /\ worker[x].delivery # d
          BY <3>2, <1>b DEF WorkersWellFormed
        <4> QED BY <3>2, <4>1, <1>a, <1>c DEF CarrierState, Sent, Mine, FaultsGrow
      <3> QED BY <3>1, <3>2
    <2> QED BY <2>1, <2>2, <2>3 DEF CarrierState
  <1>7. NothingLost'
    <2>1. \A f \in Deliveries : f # d /\ Carried(f) => Carried(f)'
      BY <1>a, <1>d DEF Carried, Queued, Taken, d
    <2> QED BY <1>b, <1>c, <2>1 DEF NothingLost, FaultsGrow
  <1>8. StampsEarned'
    <2>1. \A f \in Deliveries : outcome'[f] = "acked" <=> outcome[f] = "acked"
      BY <1>b, <1>c
    <2> QED BY <2>1, StampsKept DEF FaultsGrow
  <1> QED BY <1>1, <1>2, <1>3, <1>4, <1>5, <1>6, <1>7, <1>8

\* The worker that leaves had nothing to book.
LEMMA BillOfOpen ==
    ASSUME IInv, NEW w \in Workers, worker[w].pc \notin {"acked", "stamped"}, WorkerDone(w),
           \A d \in Deliveries : outcome'[d] = "acked" <=> outcome[d] = "acked",
           UNCHANGED <<endpoint, usage>>, faults' = 0 => faults = 0
    PROVE  FiniteBooks' /\ UsageMatchesAcks'
  <1>1. /\ worker'[w].pc = "idle"
        /\ \A x \in Workers : x # w => worker'[x] = worker[x]
    BY WorkerDoneFacts DEF IInv
  <1>2. \A e \in Endpoints : Acked(e)' = Acked(e)
    BY DeliveryParts DEF Acked
  <1>3. \A e \in Endpoints : Booking(e)' = Booking(e)
    BY <1>1 DEF Booking
  <1> QED BY <1>2, <1>3, BillKept

\* The worker that leaves had one acknowledgement to book: it charges it, or it does
\* not because the endpoint is deleted or a fault has happened.
LEMMA BillOfBooking ==
    ASSUME IInv, NEW w \in Workers, worker[w].pc \in {"acked", "stamped"}, WorkerDone(w),
           \/ usage' = [usage EXCEPT ![Mine(w)[1]] = @ + 1]
           \/ UNCHANGED usage /\ (faults' # 0 \/ endpoint[Mine(w)[1]].state = "deleted"),
           UNCHANGED <<endpoint, outcome>>, faults' = 0 => faults = 0
    PROVE  FiniteBooks' /\ UsageMatchesAcks' /\ usage' \in [Endpoints -> Nat]
  <1> USE DEF IInv
  <1>0. worker[w].delivery \in Deliveries
    BY DEF WorkersWellFormed
  <1> PICK e \in Endpoints, v \in Events : worker[w].delivery = <<e, v>>
    BY <1>0, DeliveryParts
  <1>1. Mine(w)[1] = e
    BY DEF Mine
  <1>2. /\ worker'[w].pc = "idle"
        /\ \A x \in Workers : x # w => worker'[x] = worker[x]
    BY WorkerDoneFacts
  <1>3. \A f \in Endpoints : Acked(f)' = Acked(f)
    BY DEF Acked
  <1>4. \A f \in Endpoints : f # e => Booking(f)' = Booking(f)
    BY <1>2 DEF Booking
  <1>5. Booking(e)' = Booking(e) \ {w} /\ w \in Booking(e)
    BY <1>2 DEF Booking
  <1>6. IsFiniteSet(Acked(e)) /\ IsFiniteSet(Booking(e))
    BY DEF FiniteBooks
  <1>7. /\ IsFiniteSet(Booking(e)') /\ Cardinality(Booking(e)') = Cardinality(Booking(e)) - 1
        /\ Cardinality(Acked(e)) \in Nat /\ Cardinality(Booking(e)) \in Nat
    BY <1>5, <1>6, FS_RemoveElement, FS_CardinalityType
  <1>8. /\ usage \in [Endpoints -> Nat]
        /\ usage' \in [Endpoints -> Nat]
        /\ \A f \in Endpoints : f # e => usage'[f] = usage[f]
        /\ \/ usage'[e] = usage[e] + 1
           \/ usage'[e] = usage[e] /\ (faults' # 0 \/ endpoint[e].state = "deleted")
    BY <1>1 DEF TypeOK
  <1>9. FiniteBooks'
    BY <1>3, <1>4, <1>6, <1>7 DEF FiniteBooks
  <1>10. UsageMatchesAcks'
    <2> SUFFICES ASSUME NEW f \in Endpoints
                 PROVE  (/\ usage[f] + Cardinality(Booking(f)) <= Cardinality(Acked(f))
                         /\ faults = 0 /\ endpoint[f].state # "deleted"
                               => usage[f] + Cardinality(Booking(f)) = Cardinality(Acked(f)))'
      BY DEF UsageMatchesAcks
    <2>1. CASE f = e
      BY <2>1, <1>3, <1>7, <1>8 DEF UsageMatchesAcks
    <2>2. CASE f # e
      BY <2>2, <1>3, <1>4, <1>8 DEF UsageMatchesAcks
    <2> QED BY <2>1, <2>2
  <1> QED BY <1>8, <1>9, <1>10

\* The retry: the worker's delivery moves to the tail of the list, one attempt older.
LEMMA RequeueStep ==
    ASSUME IInv, NEW w \in Workers, worker[w].pc = "retrying",
           worker[w].retry + 1 < MaxAttempts,
           queue' = Append(queue, Again(w)), WorkerDone(w),
           UNCHANGED <<endpoint, publisher, stamped, usage, edits, faults, posts, outcome>>
    PROVE  IInv'
  <1> USE DEF IInv
  <1> PICK m : m = Again(w)
    OBVIOUS
  <1> PICK d : d = worker[w].delivery
    OBVIOUS
  <1>a. /\ d \in Deliveries
        /\ outcome[d] = "open"
        /\ Sent(d, worker[w].retry + 1)
        /\ ~ToPush(d)
        /\ \A i \in 1..Len(queue) : queue[i].delivery # d
        /\ \A x \in Workers : x # w => worker[x].delivery # d
    BY DEF WorkersWellFormed, CarrierState, SingleCarrier, Mine
  <1>b. /\ m \in Message
        /\ m.delivery = d
        /\ m.retry = worker[w].retry + 1
    <2>1. worker[w].retry \in 0..(MaxAttempts - 1)
      BY DEF TypeOK
    <2>2. worker[w].retry + 1 \in 0..(MaxAttempts - 1)
      BY <2>1, DeliveryAssumption
    <2> QED BY <1>a, <2>2 DEF Again, Mine, Message
  <1>c. /\ queue' \in Seq(Message)
        /\ Len(queue') = Len(queue) + 1
        /\ Len(queue) \in Nat
        /\ \A i \in 1..Len(queue) : queue'[i] = queue[i]
        /\ queue'[Len(queue) + 1] = m
        /\ \A i \in 1..Len(queue') : i \in 1..Len(queue) \/ i = Len(queue) + 1
    BY <1>b, PushedFacts
  <1>d. /\ worker' \in WorkerType
        /\ worker'[w].pc = "idle"
        /\ worker'[w].delivery = NoDelivery
        /\ \A x \in Workers : x # w => worker'[x] = worker[x]
    BY WorkerDoneFacts
  <1>e. \A f : ToPush(f)' <=> ToPush(f)
    BY DEF ToPush
  <1>1. TypeOK'
    BY <1>c, <1>d DEF TypeOK, WorkerType
  <1>2. WorkersWellFormed'
    BY <1>d DEF WorkersWellFormed
  <1>3. PublishersWellFormed' /\ BegunDeliveries'
    BY DEF PublishersWellFormed, BegunDeliveries
  <1>4. SingleCarrier'
    <2>1. \A i, j \in 1..Len(queue') : queue'[i].delivery = queue'[j].delivery => i = j
      BY <1>a, <1>b, <1>c DEF SingleCarrier
    <2>2. \A i \in 1..Len(queue'), x \in Workers : queue'[i].delivery # worker'[x].delivery
      <3> SUFFICES ASSUME NEW i \in 1..Len(queue'), NEW x \in Workers
                   PROVE  queue'[i].delivery # worker'[x].delivery
        OBVIOUS
      <3>1. queue'[i].delivery \in Deliveries
        BY <1>a, <1>b, <1>c, QueueTyped
      <3>2. CASE x = w
        BY <3>1, <3>2, <1>d, DeliveryAssumption
      <3>3. CASE x # w
        BY <3>3, <1>a, <1>b, <1>c, <1>d DEF SingleCarrier
      <3> QED BY <3>2, <3>3
    <2>3. (\A i \in 1..Len(queue) : ~ToPush(queue[i].delivery))'
      BY <1>a, <1>b, <1>c, <1>e DEF SingleCarrier
    <2>4. (\A x \in Workers : worker[x].pc # "idle" => ~ToPush(worker[x].delivery))'
      BY <1>d, <1>e DEF SingleCarrier
    <2>5. \A x, y \in Workers :
             worker'[x].pc # "idle" /\ worker'[x].delivery = worker'[y].delivery => x = y
      BY <1>d, HeldHaveBegun, DeliveryAssumption DEF SingleCarrier
    <2> QED BY <2>1, <2>2, <2>3, <2>4, <2>5 DEF SingleCarrier
  <1>5. CarrierState'
    <2>1. (\A f \in Deliveries : ToPush(f) => outcome[f] = "open" /\ Sent(f, 0))'
      BY <1>e DEF CarrierState, Sent
    <2>2. ASSUME NEW i \in 1..Len(queue')
          PROVE  (outcome[queue[i].delivery] = "open" /\ Sent(queue[i].delivery, queue[i].retry))'
      <3>1. CASE i \in 1..Len(queue)
        BY <3>1, <1>c DEF CarrierState, Sent
      <3>2. CASE i = Len(queue) + 1
        BY <3>2, <1>a, <1>b, <1>c DEF Sent
      <3> QED BY <3>1, <3>2, <1>c
    <2>3. ASSUME NEW x \in Workers
          PROVE  (/\ worker[x].pc \in {"taken", "posting"} =>
                        outcome[Mine(x)] = "open" /\ Sent(Mine(x), worker[x].retry)
                  /\ worker[x].pc \in {"failed", "retrying"} =>
                        outcome[Mine(x)] = "open" /\ Sent(Mine(x), worker[x].retry + 1)
                  /\ worker[x].pc \in {"acked", "stamped"} => outcome[Mine(x)] = "acked")'
      BY <1>d DEF CarrierState, Sent, Mine
    <2> QED BY <2>1, <2>2, <2>3 DEF CarrierState
  <1>6. NothingLost'
    <2>1. \A f \in Deliveries : Queued(f) => Queued(f)'
      BY <1>c DEF Queued
    <2>2. Queued(d)'
      BY <1>b, <1>c DEF Queued
    <2>3. \A f \in Deliveries : Taken(f) /\ f # d => Taken(f)'
      BY <1>d DEF Taken
    <2>4. \A f \in Deliveries : Carried(f) => Carried(f)'
      BY <1>e, <2>1, <2>2, <2>3 DEF Carried
    <2> QED BY <2>4 DEF NothingLost
  <1>7. FiniteBooks' /\ UsageMatchesAcks'
    BY BillOfOpen
  <1>8. StampsEarned'
    BY StampsKept
  <1> QED BY <1>1, <1>2, <1>3, <1>4, <1>5, <1>6, <1>7, <1>8

\* The timestamps: a success is written after an acknowledgement, a failure after a POST.
LEMMA StampStep ==
    ASSUME IInv, NEW w \in Workers, StampResult(w)
    PROVE  IInv'
  <1> USE DEF IInv
  <1>0. /\ worker[w].pc \in {"acked", "failed"}
        /\ UNCHANGED <<endpoint, publisher, queue, usage, edits, faults, posts, outcome>>
    BY DEF StampResult
  <1>1. worker[w].delivery \in Deliveries
    BY <1>0 DEF WorkersWellFormed
  <1> PICK e \in Endpoints, v \in Events : worker[w].delivery = <<e, v>>
    BY <1>1, DeliveryParts
  <1>2. Mine(w) = <<e, v>> /\ Mine(w)[1] = e /\ <<e, v>> \in Deliveries
    BY <1>1 DEF Mine
  <1>3. PICK which \in {"success", "failure"} :
            /\ stamped' \in {stamped, stamped \cup {<<e, which>>}}
            /\ which = "success" => worker[w].pc = "acked"
            /\ which = "failure" => worker[w].pc = "failed"
    BY <1>2 DEF StampResult, Stamp
  <1>4. stamped' \subseteq Endpoints \X {"success", "failure"}
    BY <1>3 DEF TypeOK
  <1>5. which = "success" => v \in Acked(e)
    BY <1>2, <1>3 DEF CarrierState, Acked
  <1>6. which = "failure" /\ faults = 0 =>
            posts[<<e, v>>] > (IF outcome[<<e, v>>] = "acked" THEN 1 ELSE 0)
    <2>1. worker[w].retry \in Nat
      BY DEF TypeOK
    <2> QED BY <2>1, <1>2, <1>3 DEF CarrierState, Sent
  <1>7. StampsEarned'
    <2>1. \A f \in Endpoints : Acked(f)' = Acked(f)
      BY <1>0 DEF Acked
    <2>2. \A f \in Endpoints, k \in {"success", "failure"} :
             <<f, k>> \in stamped' => <<f, k>> \in stamped \/ (f = e /\ k = which)
      BY <1>3
    <2>3. ASSUME NEW f \in Endpoints, <<f, "success">> \in stamped'
          PROVE  Acked(f) # {}
      BY <2>2, <2>3, <1>5 DEF StampsEarned
    <2>4. ASSUME NEW f \in Endpoints, <<f, "failure">> \in stamped', faults = 0
          PROVE  \E u \in Events : posts[<<f, u>>] > (IF outcome[<<f, u>>] = "acked" THEN 1 ELSE 0)
      BY <2>2, <2>4, <1>6 DEF StampsEarned
    <2> QED BY <1>0, <2>1, <2>3, <2>4 DEF StampsEarned
  <1>8. FaultsGrow
    BY <1>0 DEF FaultsGrow, TypeOK
  <1>9. CASE worker[w].pc = "acked"
    <2>1. WorkerGoes(w, "stamped")
      BY <1>9 DEF StampResult
    <2> QED BY <2>1, <1>0, <1>4, <1>7, <1>8, <1>9, WorkerMoves DEF WorkerPcs
  <1>10. CASE worker[w].pc = "failed"
    <2>1. WorkerGoes(w, "retrying")
      BY <1>10 DEF StampResult
    <2> QED BY <2>1, <1>0, <1>4, <1>7, <1>8, <1>10, WorkerMoves DEF WorkerPcs
  <1> QED BY <1>0, <1>9, <1>10

\* A handler that ends under a fault: the retry could not be pushed, the usage could
\* not be recorded, or the worker died.
LEMMA HandlerFails ==
    ASSUME IInv, NEW w \in Workers, worker[w].pc # "idle", WorkerDone(w),
           FaultsGrow, faults' # 0,
           UNCHANGED <<endpoint, publisher, queue, stamped, usage, edits, posts, outcome>>
    PROVE  IInv'
  <1> USE DEF IInv
  <1>1. Mine(w) \in Deliveries /\ outcome[Mine(w)] \in {"open", "acked"}
    BY HeldHaveBegun DEF Mine
  <1>2. FiniteBooks' /\ UsageMatchesAcks'
    BY BillOfOpen, BillOfBooking
  <1> QED BY <1>1, <1>2, WorkerLeaves DEF TypeOK

\* A handler that ends because the endpoint is gone, or after its last attempt.
LEMMA HandlerConcludes ==
    ASSUME IInv, NEW w \in Workers, NEW result \in {"skipped", "gaveup"},
           worker[w].pc \in {"taken", "retrying"}, WorkerDone(w),
           result = "gaveup" => worker[w].pc = "retrying" /\ worker[w].retry + 1 >= MaxAttempts,
           outcome' = [outcome EXCEPT ![Mine(w)] = result],
           UNCHANGED <<endpoint, publisher, queue, stamped, usage, edits, faults, posts>>
    PROVE  IInv'
  <1> USE DEF IInv
  <1>1. Mine(w) \in Deliveries /\ outcome[Mine(w)] = "open"
    BY DEF WorkersWellFormed, CarrierState, Mine
  <1>2. /\ outcome' \in [Deliveries -> Outcomes]
        /\ outcome'[Mine(w)] = result
        /\ \A d \in Deliveries : d # Mine(w) => outcome'[d] = outcome[d]
    BY <1>1 DEF TypeOK, Outcomes
  <1>3. faults = 0 /\ result = "gaveup" => posts[Mine(w)] = MaxAttempts
    <2>1. worker[w].retry \in 0..(MaxAttempts - 1) /\ MaxAttempts \in Nat
      BY DeliveryAssumption DEF TypeOK
    <2> QED BY <2>1 DEF CarrierState, Sent
  <1>4. FiniteBooks' /\ UsageMatchesAcks'
    BY <1>1, <1>2, BillOfOpen
  <1>5. FaultsGrow
    BY DEF FaultsGrow, TypeOK
  <1>6. /\ outcome'[Mine(w)] \in {"open", "acked", "skipped", "gaveup"}
        /\ outcome'[Mine(w)] = "acked" <=> outcome[Mine(w)] = "acked"
        /\ outcome'[Mine(w)] # "open"
        /\ worker[w].pc # "idle"
        /\ faults' = 0 /\ outcome'[Mine(w)] = "gaveup" => posts[Mine(w)] = MaxAttempts
    BY <1>1, <1>2, <1>3
  <1>7. usage' \in [Endpoints -> Nat]
    BY DEF TypeOK
  <1> QED BY <1>2, <1>4, <1>5, <1>6, <1>7, WorkerLeaves

\* The usage of an acknowledged delivery is recorded, if its endpoint still exists.
LEMMA EmitUsageStep ==
    ASSUME IInv, NEW w \in Workers, EmitUsage(w)
    PROVE  IInv'
  <1> USE DEF IInv
  <1>0. /\ worker[w].pc = "stamped"
        /\ WorkerDone(w)
        /\ usage' = IF Exists(Mine(w)[1]) THEN [usage EXCEPT ![Mine(w)[1]] = @ + 1] ELSE usage
        /\ UNCHANGED <<endpoint, publisher, queue, stamped, edits, faults, posts, outcome>>
    BY DEF EmitUsage
  <1>1. /\ Mine(w) \in Deliveries
        /\ Mine(w)[1] \in Endpoints
        /\ outcome[Mine(w)] = "acked"
    BY <1>0, DeliveryParts DEF WorkersWellFormed, CarrierState, Mine
  <1>2. endpoint[Mine(w)[1]].state \in EndpointStates \ {"absent"}
    BY <1>1 DEF TypeOK, BegunDeliveries
  <1>3. ~Exists(Mine(w)[1]) => endpoint[Mine(w)[1]].state = "deleted"
    BY <1>2 DEF Exists, EndpointStates
  <1>4. FiniteBooks' /\ UsageMatchesAcks' /\ usage' \in [Endpoints -> Nat]
    BY <1>0, <1>3, BillOfBooking
  <1>5. FaultsGrow /\ outcome' \in [Deliveries -> Outcomes]
    BY <1>0 DEF FaultsGrow, TypeOK
  <1> QED BY <1>0, <1>1, <1>4, <1>5, WorkerLeaves

-----------------------------------------------------------------------------
(* Every action is a step of one of these kinds.                           *)

\* The owner's calls keep the invariant.
LEMMA EndpointActions ==
    ASSUME IInv, NEW e \in Endpoints,
           \/ \E types \in Subscriptions : CreateWebhook(e, types)
           \/ \E types \in Subscriptions, state \in {"active", "inactive"} : UpdateWebhook(e, state, types)
           \/ DeleteWebhook(e)
    PROVE  IInv'
  <1> USE DEF IInv
  <1>1. ASSUME NEW types \in Subscriptions, CreateWebhook(e, types) PROVE IInv'
    <2>1. endpoint' \in [Endpoints -> [state : EndpointStates, types : Subscriptions]]
      BY <1>1 DEF CreateWebhook, TypeOK, EndpointStates
    <2> QED BY <1>1, <2>1, EndpointStep DEF CreateWebhook, TypeOK, FaultsGrow
  <1>2. ASSUME NEW types \in Subscriptions, NEW state \in {"active", "inactive"},
               UpdateWebhook(e, state, types)
        PROVE  IInv'
    <2>1. endpoint' \in [Endpoints -> [state : EndpointStates, types : Subscriptions]]
      BY <1>2 DEF UpdateWebhook, TypeOK, EndpointStates
    <2>2. edits' \in 0..MaxEdits
      BY <1>2, DeliveryAssumption DEF UpdateWebhook, Edit, TypeOK
    <2> QED BY <1>2, <2>1, <2>2, EndpointStep DEF UpdateWebhook, TypeOK, FaultsGrow
  <1>3. ASSUME DeleteWebhook(e) PROVE IInv'
    <2>1. endpoint' \in [Endpoints -> [state : EndpointStates, types : Subscriptions]]
      BY <1>3 DEF DeleteWebhook, TypeOK, EndpointStates
    <2>2. edits' \in 0..MaxEdits
      BY <1>3, DeliveryAssumption DEF DeleteWebhook, Edit, TypeOK
    <2> QED BY <1>3, <2>1, <2>2, EndpointStep DEF DeleteWebhook, TypeOK, FaultsGrow
  <1> QED BY <1>1, <1>2, <1>3

\* The publisher's steps keep it.
LEMMA PublisherActions ==
    ASSUME IInv, NEW v \in Events,
           PublisherStep(v) \/ PublisherStops(v) \/ \E e \in Endpoints : PushFails(v, e)
    PROVE  IInv'
  <1> USE DEF IInv
  <1>1. CASE SelectEndpoints(v)
    BY <1>1, SelectStep
  <1>2. ASSUME NEW e \in Endpoints, Push(v, e) PROVE IInv'
    <2>1. FaultsGrow
      BY <1>2 DEF Push, FaultsGrow, TypeOK
    <2> QED BY <1>2, <2>1, PushedStep DEF Push
  <1>3. CASE PublisherStops(v)
    <2>1. FaultsGrow /\ faults' # 0
      BY <1>3, FaultFacts DEF PublisherStops
    <2>2. publisher' \in [Events -> [pc : {"todo", "pushing", "done"}, left : SUBSET Endpoints]]
      BY <1>3 DEF PublisherStops, TypeOK
    <2>3. /\ publisher'[v] = [pc |-> "done", left |-> {}]
          /\ \A u \in Events : u # v => publisher'[u] = publisher[u]
      BY <1>3 DEF PublisherStops, TypeOK
    <2>4. \A u \in Events : /\ publisher'[u].left \subseteq publisher[u].left
                            /\ publisher'[u].pc # "pushing" => publisher'[u].left = {}
                            /\ publisher'[u].pc = "todo" => publisher[u].pc = "todo"
      BY <2>3 DEF PublishersWellFormed
    <2> QED BY <1>3, <2>1, <2>2, <2>4, LeftDropped DEF PublisherStops
  <1>4. ASSUME NEW e \in Endpoints, PushFails(v, e) PROVE IInv'
    <2>1. FaultsGrow /\ faults' # 0
      BY <1>4, FaultFacts DEF PushFails
    <2>2. CASE queue' = Append(queue, [delivery |-> <<e, v>>, retry |-> 0])
      BY <1>4, <2>1, <2>2, PushedStep DEF PushFails
    <2>3. CASE queue' = queue
      <3>1. publisher' \in [Events -> [pc : {"todo", "pushing", "done"}, left : SUBSET Endpoints]]
        BY <1>4 DEF PushFails, Pushed, TypeOK
      <3>2. /\ publisher'[v].pc = "pushing"
            /\ publisher'[v].left = publisher[v].left \ {e}
            /\ \A u \in Events : u # v => publisher'[u] = publisher[u]
        BY <1>4 DEF PushFails, Pushed, TypeOK
      <3>3. \A u \in Events : /\ publisher'[u].left \subseteq publisher[u].left
                              /\ publisher'[u].pc # "pushing" => publisher'[u].left = {}
                              /\ publisher'[u].pc = "todo" => publisher[u].pc = "todo"
        BY <3>2 DEF PublishersWellFormed
      <3> QED BY <1>4, <2>1, <2>3, <3>1, <3>3, LeftDropped DEF PushFails
    <2> QED BY <1>4, <2>2, <2>3 DEF PushFails
  <1> QED BY <1>1, <1>2, <1>3, <1>4 DEF PublisherStep

\* The worker's steps keep it.
LEMMA WorkerActions ==
    ASSUME IInv, NEW w \in Workers,
           WorkerStep(w) \/ LoadFails(w) \/ RetryFails(w) \/ BookkeepingFails(w) \/ WorkerCrash(w)
    PROVE  IInv'
  <1> USE DEF IInv
  <1>0. UNCHANGED faults => FaultsGrow
    BY DEF FaultsGrow, TypeOK
  <1>a. UNCHANGED <<stamped, posts, faults, outcome>> =>
            stamped' \subseteq Endpoints \X {"success", "failure"} /\ StampsEarned'
    BY StampsKept DEF TypeOK
  <1>b. ASSUME NEW k, Fault(k), UNCHANGED <<stamped, posts, outcome>>
        PROVE  /\ FaultsGrow /\ faults' # 0
               /\ stamped' \subseteq Endpoints \X {"success", "failure"}
               /\ StampsEarned'
    BY <1>b, FaultFacts, StampsKept DEF TypeOK, FaultsGrow
  <1>1. CASE Take(w)
    BY <1>1, TakeStep
  <1>2. CASE LoadEndpoint(w)
    <2>1. CASE WorkerGoes(w, "posting") /\ UNCHANGED outcome
      BY <1>2, <2>1, <1>0, <1>a, WorkerMoves DEF LoadEndpoint, WorkerPcs
    <2>2. CASE WorkerDone(w) /\ outcome' = [outcome EXCEPT ![Mine(w)] = "skipped"]
      BY <1>2, <2>2, HandlerConcludes DEF LoadEndpoint
    <2> QED BY <1>2, <2>1, <2>2 DEF LoadEndpoint
  <1>3. CASE Post(w)
    BY <1>3, PostStep
  <1>4. CASE StampResult(w)
    BY <1>4, StampStep
  <1>5. CASE EmitUsage(w)
    BY <1>5, EmitUsageStep
  <1>6. CASE RetryOrGiveUp(w)
    <2>1. CASE worker[w].retry + 1 < MaxAttempts /\ queue' = Append(queue, Again(w)) /\ UNCHANGED outcome
      BY <1>6, <2>1, RequeueStep DEF RetryOrGiveUp
    <2>2. CASE /\ worker[w].retry + 1 >= MaxAttempts
               /\ outcome' = [outcome EXCEPT ![Mine(w)] = "gaveup"]
               /\ UNCHANGED queue
      BY <1>6, <2>2, HandlerConcludes DEF RetryOrGiveUp
    <2> QED BY <1>6, <2>1, <2>2 DEF RetryOrGiveUp
  <1>7. CASE LoadFails(w)
    BY <1>7, <1>b, WorkerMoves DEF LoadFails, WorkerPcs
  <1>8. CASE RetryFails(w)
    BY <1>8, <1>b, HandlerFails DEF RetryFails
  <1>9. CASE BookkeepingFails(w)
    <2>1. /\ FaultsGrow /\ faults' # 0
          /\ stamped' \subseteq Endpoints \X {"success", "failure"}
          /\ StampsEarned'
      BY <1>9, <1>b DEF BookkeepingFails
    <2>2. CASE worker[w].pc = "acked" /\ WorkerGoes(w, "stamped")
      BY <1>9, <2>1, <2>2, WorkerMoves DEF BookkeepingFails, WorkerPcs
    <2>3. CASE worker[w].pc = "failed" /\ WorkerGoes(w, "retrying")
      BY <1>9, <2>1, <2>3, WorkerMoves DEF BookkeepingFails, WorkerPcs
    <2>4. CASE worker[w].pc = "stamped" /\ WorkerDone(w)
      BY <1>9, <2>1, <2>4, HandlerFails DEF BookkeepingFails
    <2> QED BY <1>9, <2>2, <2>3, <2>4 DEF BookkeepingFails
  <1>10. CASE WorkerCrash(w)
    BY <1>10, <1>b, HandlerFails DEF WorkerCrash
  <1> QED BY <1>1, <1>2, <1>3, <1>4, <1>5, <1>6, <1>7, <1>8, <1>9, <1>10 DEF WorkerStep

\* Every step keeps it.
LEMMA NextIInv == IInv /\ [Next]_vars => IInv'
  <1> SUFFICES ASSUME IInv, [Next]_vars PROVE IInv'
    OBVIOUS
  <1>1. CASE UNCHANGED vars
    <2>1. IInv /\ FaultsGrow
      BY <1>1 DEF IInv, TypeOK, FaultsGrow, vars
    <2> QED BY <1>1, <2>1, EndpointStep DEF IInv, TypeOK, vars
  <1>2. ASSUME NEW e \in Endpoints,
               \/ \E types \in Subscriptions : CreateWebhook(e, types)
               \/ \E types \in Subscriptions, state \in {"active", "inactive"} : UpdateWebhook(e, state, types)
               \/ DeleteWebhook(e)
        PROVE  IInv'
    BY <1>2, EndpointActions
  <1>3. ASSUME NEW v \in Events,
               PublisherStep(v) \/ PublisherStops(v) \/ \E e \in Endpoints : PushFails(v, e)
        PROVE  IInv'
    BY <1>3, PublisherActions
  <1>4. ASSUME NEW w \in Workers,
               WorkerStep(w) \/ LoadFails(w) \/ RetryFails(w) \/ BookkeepingFails(w) \/ WorkerCrash(w)
        PROVE  IInv'
    BY <1>4, WorkerActions
  <1> QED BY <1>1, <1>2, <1>3, <1>4 DEF Next

\* A step counts at most one fault.
LEMMA FaultsStep == IInv /\ [Next]_vars => FaultsGrow
  <1> SUFFICES ASSUME IInv, [Next]_vars PROVE FaultsGrow
    OBVIOUS
  <1>1. faults' = faults \/ faults' = faults + 1
    BY DEF Next, vars, Fault, CreateWebhook, UpdateWebhook, DeleteWebhook, PublisherStep, PublisherStops,
           SelectEndpoints, Push, PushFails, WorkerStep, Take, LoadEndpoint, Post, StampResult, EmitUsage,
           RetryOrGiveUp, LoadFails, RetryFails, BookkeepingFails, WorkerCrash
  <1>2. faults \in 0..MaxFaults /\ faults' \in 0..MaxFaults
    BY NextIInv DEF IInv, TypeOK
  <1> QED BY <1>1, <1>2 DEF FaultsGrow

\* The inductive invariant: who carries each delivery, what is known of it there, and what its
\* acknowledgement has cost.
THEOREM DeliveryInvariant == Spec => []IInv
  BY InitIInv, NextIInv, PTL DEF Spec

-----------------------------------------------------------------------------
(* From places to numbers: Carriers(d) counts at most one.                 *)

\* A set with no two elements is empty or a singleton.
LEMMA AtMostOne ==
    ASSUME NEW S, \A x, y \in S : x = y
    PROVE  IsFiniteSet(S) /\ Cardinality(S) = IF S = {} THEN 0 ELSE 1
  <1>1. CASE S = {}
    BY <1>1, FS_EmptySet
  <1>2. CASE S # {}
    <2> PICK x \in S : TRUE
      BY <1>2
    <2>1. S = {x}
      OBVIOUS
    <2> QED BY <1>2, <2>1, FS_Singleton
  <1> QED BY <1>1, <1>2

\* A carried delivery has one carrier, and no delivery more; once acknowledged, workers only.
LEMMA CarriersCounted ==
    ASSUME IInv, NEW d \in Deliveries
    PROVE  /\ Carriers(d) = IF Carried(d) THEN 1 ELSE 0
           /\ outcome[d] = "acked" => Carriers(d) = Cardinality(TakenBy(d))
           /\ Carried(d) => outcome[d] \in {"open", "acked"}
  <1> USE DEF IInv
  <1>0. d # NoDelivery
    BY DeliveryAssumption
  <1>1. \A w \in TakenBy(d) : w \in Workers /\ worker[w].pc # "idle" /\ worker[w].delivery = d
    BY <1>0 DEF TakenBy, WorkersWellFormed
  <1>2. Cardinality(QueuedAt(d)) = IF Queued(d) THEN 1 ELSE 0
    <2>1. \A i, j \in QueuedAt(d) : i = j
      BY DEF QueuedAt, SingleCarrier
    <2>2. Queued(d) <=> QueuedAt(d) # {}
      BY DEF Queued, QueuedAt
    <2> QED BY <2>1, <2>2, AtMostOne
  <1>3. Cardinality(TakenBy(d)) = IF Taken(d) THEN 1 ELSE 0
    <2>1. \A w, x \in TakenBy(d) : w = x
      BY <1>1 DEF SingleCarrier
    <2>2. Taken(d) <=> TakenBy(d) # {}
      BY DEF Taken, TakenBy
    <2> QED BY <2>1, <2>2, AtMostOne
  <1>4. Queued(d) => ~Taken(d) /\ ~ToPush(d) /\ outcome[d] = "open"
    BY DEF Queued, Taken, SingleCarrier, CarrierState
  <1>5. Taken(d) => ~ToPush(d) /\ outcome[d] \in {"open", "acked"}
    <2> SUFFICES ASSUME NEW w \in Workers, worker[w].delivery = d
                 PROVE  ~ToPush(d) /\ outcome[d] \in {"open", "acked"}
      BY DEF Taken
    <2>1. worker[w].pc # "idle"
      BY <1>0 DEF WorkersWellFormed
    <2> QED BY <2>1, HeldHaveBegun DEF SingleCarrier
  <1>6. ToPush(d) => outcome[d] = "open"
    BY DEF CarrierState
  <1> QED BY <1>2, <1>3, <1>4, <1>5, <1>6 DEF Carriers, Carried

\* The checked invariant, which counts, from the one that names places.
LEMMA CarriedOnceFollows == IInv => CarriedOnce
  <1> SUFFICES ASSUME IInv, NEW d \in Deliveries
               PROVE  /\ Carriers(d) <= 1
                      /\ outcome[d] = "open" /\ faults = 0 => Carriers(d) = 1
                      /\ outcome[d] \in {"unselected", "skipped", "gaveup"} => Carriers(d) = 0
                      /\ outcome[d] = "acked" => Carriers(d) = Cardinality(TakenBy(d))
                      /\ outcome[d] = "gaveup" /\ faults = 0 => posts[d] = MaxAttempts
    BY DEF CarriedOnce
  <1>1. /\ Carriers(d) = IF Carried(d) THEN 1 ELSE 0
        /\ outcome[d] = "acked" => Carriers(d) = Cardinality(TakenBy(d))
        /\ Carried(d) => outcome[d] \in {"open", "acked"}
    BY CarriersCounted
  <1>2. faults = 0 => /\ outcome[d] = "open" => Carried(d)
                      /\ outcome[d] = "gaveup" => posts[d] = MaxAttempts
    BY DEF IInv, NothingLost
  <1> QED BY <1>1, <1>2

-----------------------------------------------------------------------------
(***************************************************************************)
(* The invariants of the runs, for every value of the constants.           *)
(***************************************************************************)

\* Endpoints, publishers, messages and workers keep their types; in particular no
\* message is ever pushed with a retry count the limit of attempts excludes.
THEOREM TypesKept == Spec => []TypeOK
  BY DeliveryInvariant, PTL DEF IInv

\* No delivery is ever carried twice, and without a fault an open one is always carried
\* and given up only after MAX_DELIVERY_ATTEMPTS POSTs: _reenqueue neither forks nor
\* drops a delivery (apps/worker/jobs/deliver_webhook.py).
THEOREM DeliveriesCarriedOnce == Spec => []CarriedOnce
  BY DeliveryInvariant, CarriedOnceFollows, PTL

\* The usage recorded for an endpoint's deliveries never exceeds what it acknowledged,
\* and without a fault equals it, up to what workers still have to book.
THEOREM UsageAlwaysMatchesAcks == Spec => []UsageMatchesAcks
  BY DeliveryInvariant, PTL DEF IInv

\* last_success_at is only ever set for an endpoint that acknowledged, last_failure_at
\* (without a fault) for one an attempt to which failed.
THEOREM StampsAlwaysEarned == Spec => []StampsEarned
  BY DeliveryInvariant, PTL DEF IInv

-----------------------------------------------------------------------------
(***************************************************************************)
(* The refinement of DeliveryContract: Status is what the contract calls   *)
(* delivery, and every step is a step of the contract or a stutter.        *)
(***************************************************************************)
Status == [d \in Deliveries |-> IF Lost(d) THEN "lost" ELSE outcome[d]]

\* A delivery is lost when it is open and nobody carries it.
LEMMA StatusFacts ==
    ASSUME IInv, NEW d \in Deliveries
    PROVE  Status[d] = IF outcome[d] = "open" /\ ~Carried(d) THEN "lost" ELSE outcome[d]
  <1>1. Carriers(d) = IF Carried(d) THEN 1 ELSE 0
    BY CarriersCounted
  <1> QED BY <1>1 DEF Status, Lost

\* The same facts after a step.
LEMMA StatusFactsNext ==
    ASSUME IInv', NEW d \in Deliveries
    PROVE  Status'[d] = IF outcome'[d] = "open" /\ ~Carried(d)' THEN "lost" ELSE outcome'[d]
  <1>1. (IInv /\ d \in Deliveries =>
            Status[d] = IF outcome[d] = "open" /\ ~Carried(d) THEN "lost" ELSE outcome[d])'
    BY StatusFacts, PTL
  <1> QED BY <1>1

\* The contract's Move, of the deliveries in S.
LEMMA StatusMoves ==
    ASSUME NEW S \in SUBSET Deliveries, NEW from, NEW to,
           \A d \in S : Status[d] = from /\ Status'[d] = to,
           \A d \in Deliveries : d \notin S => Status'[d] = Status[d]
    PROVE  Contract!Move(S, from, to)
  <1>1. Status' = [d \in Deliveries |-> IF d \in S THEN to ELSE Status[d]]
    BY DEF Status
  <1> QED BY <1>1 DEF Contract!Move, Contract!Deliveries, Deliveries, Status

\* A step the contract does not see: what is open is carried after it exactly if it was before.
LEMMA StutterStep ==
    ASSUME IInv, IInv', UNCHANGED <<posts, usage, outcome>>,
           \A d \in Deliveries : outcome[d] = "open" => (Carried(d) <=> Carried(d)')
    PROVE  UNCHANGED Contract!deliveryVars
  <1>1. \A d \in Deliveries : Status'[d] = Status[d]
    BY StatusFacts, StatusFactsNext
  <1>2. Status' = Status
    BY <1>1 DEF Status
  <1> QED BY <1>2 DEF Contract!deliveryVars, Status

\* A step after which nobody carries the deliveries of event v to the endpoints in T.
LEMMA LoseStep ==
    ASSUME IInv, IInv', UNCHANGED <<posts, usage, outcome>>,
           NEW v \in Events, NEW T \in SUBSET Endpoints,
           \A e \in T : /\ outcome[<<e, v>>] = "open"
                        /\ Carried(<<e, v>>) /\ ~Carried(<<e, v>>)',
           \A d \in Deliveries : d \notin T \X {v} => (Carried(d) <=> Carried(d)')
    PROVE  Contract!Lose(v, T)
  <1> DEFINE S == T \X {v}
  <1>0. S \in SUBSET Deliveries /\ \A d \in S : d[1] \in T /\ d = <<d[1], v>>
    BY DEF Deliveries
  <1>1. \A d \in S : Status[d] = "open" /\ Status'[d] = "lost"
    BY <1>0, StatusFacts, StatusFactsNext
  <1>2. \A d \in Deliveries : d \notin S => Status'[d] = Status[d]
    BY StatusFacts, StatusFactsNext
  <1>3. Contract!Move(S, "open", "lost")
    BY <1>0, <1>1, <1>2, StatusMoves
  <1> QED BY <1>3 DEF Contract!Lose

\* Initial states map to initial states.
LEMMA InitRefines == Init => Contract!Init
  <1> SUFFICES ASSUME Init PROVE Contract!Init
    OBVIOUS
  <1>1. IInv
    BY InitIInv
  <1>2. \A d \in Deliveries : Status[d] = "unselected"
    BY <1>1, StatusFacts DEF Init
  <1>3. Status = [d \in Deliveries |-> "unselected"]
    BY <1>2 DEF Status
  <1> QED BY <1>3 DEF Init, Contract!Init, Contract!Deliveries, Deliveries, Status

\* After a push, what was on the list is on it, and the delivery that was pushed.
LEMMA QueuedAfterPush ==
    ASSUME TypeOK, NEW m \in Message, queue' = Append(queue, m), NEW d
    PROVE  Queued(d)' <=> Queued(d) \/ d = m.delivery
  BY PushedFacts DEF Queued

\* The publisher of v forgets e, and nothing else.
LEMMA LeftAfterDrop ==
    ASSUME TypeOK, NEW v \in Events, NEW e \in Endpoints, publisher' = Pushed(v, e),
           NEW d \in Deliveries
    PROVE  ToPush(d)' <=> ToPush(d) /\ d # <<e, v>>
  <1>1. d[1] \in Endpoints /\ d[2] \in Events /\ d = <<d[1], d[2]>>
    BY DeliveryParts
  <1>2. d = <<e, v>> <=> d[1] = e /\ d[2] = v
    BY <1>1
  <1>3. /\ publisher'[v].left = publisher[v].left \ {e}
        /\ \A u \in Events : u # v => publisher'[u] = publisher[u]
    BY DEF TypeOK, Pushed
  <1> QED BY <1>1, <1>2, <1>3 DEF ToPush

\* The deliveries somebody carries after a handler has ended: all but the worker's.
LEMMA TakenAfterDone ==
    ASSUME IInv, NEW w \in Workers, worker[w].pc # "idle", WorkerDone(w), NEW d \in Deliveries
    PROVE  Taken(d)' <=> Taken(d) /\ d # worker[w].delivery
  <1>1. /\ worker'[w].delivery = NoDelivery
        /\ \A x \in Workers : x # w => worker'[x] = worker[x]
    BY WorkerDoneFacts DEF IInv
  <1>2. \A x \in Workers : x # w => worker[x].delivery # worker[w].delivery
    BY DEF IInv, SingleCarrier
  <1>3. d # NoDelivery
    BY DeliveryAssumption
  <1> QED BY <1>1, <1>2, <1>3 DEF Taken

\* What a busy worker carries is neither on the list nor still to be pushed.
LEMMA WorkerCarriesAlone ==
    ASSUME IInv, NEW w \in Workers, worker[w].pc # "idle"
    PROVE  /\ worker[w].delivery \in Deliveries
           /\ Carried(worker[w].delivery)
           /\ ~Queued(worker[w].delivery)
           /\ ~ToPush(worker[w].delivery)
  BY DEF IInv, WorkersWellFormed, SingleCarrier, Carried, Queued, Taken

\* The SELECT of the endpoints addresses the event to the chosen ones.
LEMMA SelectRefines ==
    ASSUME IInv, IInv', NEW v \in Events, SelectEndpoints(v)
    PROVE  \E S \in SUBSET Endpoints : Contract!Address(v, S)
  <1> DEFINE chosen == {e \in Endpoints : /\ endpoint[e].state = "active"
                                          /\ EventType[v] \in endpoint[e].types}
  <1>0. /\ publisher[v].pc = "todo"
        /\ publisher' = [publisher EXCEPT ![v] = [pc |-> "pushing", left |-> chosen]]
        /\ outcome' = [d \in Deliveries |-> IF d[2] = v /\ d[1] \in chosen THEN "open" ELSE outcome[d]]
        /\ UNCHANGED <<endpoint, queue, worker, stamped, usage, edits, faults, posts>>
        /\ publisher \in [Events -> [pc : {"todo", "pushing", "done"}, left : SUBSET Endpoints]]
    BY DEF SelectEndpoints, IInv, TypeOK
  <1> PICK C \in SUBSET Endpoints : C = chosen
    OBVIOUS
  <1> HIDE DEF chosen
  <1>1. \A d \in Deliveries : d[2] = v => outcome[d] = "unselected"
    BY <1>0, DeliveryParts DEF IInv, PublishersWellFormed
  <1>2. \A d \in Deliveries : d[2] # v => (ToPush(d) <=> ToPush(d)')
    BY <1>0, DeliveryParts DEF ToPush
  <1>3. \A d \in Deliveries : d[2] # v => (Carried(d) <=> Carried(d)')
    BY <1>0, <1>2 DEF Carried, Queued, Taken
  <1>4. \A d \in Deliveries : d[2] = v /\ d[1] \in C => Carried(d)'
    BY <1>0, DeliveryParts DEF Carried, ToPush
  <1>5. \A d \in Deliveries : /\ d[2] = v /\ d[1] \in C => outcome'[d] = "open"
                              /\ ~(d[2] = v /\ d[1] \in C) => outcome'[d] = outcome[d]
    BY <1>0
  <1> DEFINE S == C \X {v}
  <1>6. /\ S \in SUBSET Deliveries
        /\ \A d \in Deliveries : d \in S <=> d[2] = v /\ d[1] \in C
    BY DeliveryParts DEF Deliveries
  <1>7. \A d \in S : Status[d] = "unselected" /\ Status'[d] = "open"
    BY <1>1, <1>4, <1>5, <1>6, StatusFacts, StatusFactsNext
  <1>8. \A d \in Deliveries : d \notin S => Status'[d] = Status[d]
    <2> SUFFICES ASSUME NEW d \in Deliveries, d \notin S PROVE Status'[d] = Status[d]
      OBVIOUS
    <2>1. outcome'[d] = outcome[d]
      BY <1>5, <1>6
    <2>2. outcome[d] = "open" => (Carried(d) <=> Carried(d)')
      BY <1>1, <1>3
    <2> QED BY <2>1, <2>2, StatusFacts, StatusFactsNext
  <1>9. Contract!Move(S, "unselected", "open")
    BY <1>6, <1>7, <1>8, StatusMoves
  <1>10. \A e \in Endpoints : Status[<<e, v>>] = "unselected"
    BY <1>1, DeliveryParts, StatusFacts
  <1>11. Contract!Address(v, C)
    BY <1>0, <1>9, <1>10, DeliveryParts DEF Contract!Address, Status
  <1> QED BY <1>11

\* A push moves a delivery from the publisher to the list: nobody outside sees it.
LEMMA PushRefines ==
    ASSUME IInv, IInv', NEW v \in Events, NEW e \in Endpoints,
           e \in publisher[v].left, publisher' = Pushed(v, e),
           queue' = Append(queue, [delivery |-> <<e, v>>, retry |-> 0]),
           UNCHANGED <<worker, usage, posts, outcome>>
    PROVE  UNCHANGED Contract!deliveryVars
  <1> PICK m : m = [delivery |-> <<e, v>>, retry |-> 0]
    OBVIOUS
  <1>1. m \in Message /\ m.delivery = <<e, v>> /\ <<e, v>> \in Deliveries
    BY DeliveryParts, DeliveryAssumption DEF Message
  <1>2. \A d \in Deliveries : Queued(d)' <=> Queued(d) \/ d = <<e, v>>
    BY <1>1, QueuedAfterPush DEF IInv
  <1>3. \A d \in Deliveries : ToPush(d)' <=> ToPush(d) /\ d # <<e, v>>
    BY LeftAfterDrop DEF IInv
  <1>4. ToPush(<<e, v>>)
    BY DEF ToPush
  <1>5. \A d \in Deliveries : Taken(d)' <=> Taken(d)
    BY DEF Taken
  <1>6. \A d \in Deliveries : Carried(d) <=> Carried(d)'
    BY <1>2, <1>3, <1>4, <1>5 DEF Carried
  <1> QED BY <1>6, StutterStep

\* A push that was not applied loses one delivery, a publisher that stops all it had left.
LEMMA DropRefines ==
    ASSUME IInv, IInv', NEW v \in Events, NEW T \in SUBSET Endpoints,
           T \subseteq publisher[v].left,
           publisher'[v].left = publisher[v].left \ T,
           \A u \in Events : u # v => publisher'[u].left = publisher[u].left,
           UNCHANGED <<queue, worker, usage, posts, outcome>>
    PROVE  Contract!Lose(v, T)
  <1>1. \A d \in Deliveries : ToPush(d)' <=> ToPush(d) /\ d \notin T \X {v}
    <2> SUFFICES ASSUME NEW d \in Deliveries PROVE ToPush(d)' <=> ToPush(d) /\ d \notin T \X {v}
      OBVIOUS
    <2>1. d[1] \in Endpoints /\ d[2] \in Events /\ d = <<d[1], d[2]>>
      BY DeliveryParts
    <2>2. d \in T \X {v} <=> d[1] \in T /\ d[2] = v
      BY <2>1
    <2> QED BY <2>1, <2>2 DEF ToPush
  <1>2. \A d \in Deliveries : (Queued(d)' <=> Queued(d)) /\ (Taken(d)' <=> Taken(d))
    BY DEF Queued, Taken
  <1>3. \A d \in Deliveries : d \notin T \X {v} => (Carried(d) <=> Carried(d)')
    BY <1>1, <1>2 DEF Carried
  <1>4. ASSUME NEW e \in T
        PROVE  outcome[<<e, v>>] = "open" /\ Carried(<<e, v>>) /\ ~Carried(<<e, v>>)'
    <2>1. <<e, v>> \in Deliveries /\ <<e, v>> \in T \X {v} /\ ToPush(<<e, v>>)
      BY DeliveryParts DEF ToPush
    <2>2. outcome[<<e, v>>] = "open"
      BY <2>1 DEF IInv, CarrierState
    <2>3. ~Queued(<<e, v>>) /\ ~Taken(<<e, v>>)
      <3>1. \A w \in Workers : worker[w].delivery = <<e, v>> => worker[w].pc # "idle"
        BY <2>1, DeliveryAssumption DEF IInv, WorkersWellFormed
      <3> QED BY <2>1, <3>1 DEF IInv, SingleCarrier, Queued, Taken
    <2> QED BY <1>1, <1>2, <2>1, <2>2, <2>3 DEF Carried
  <1> QED BY <1>3, <1>4, LoseStep

\* A pop moves a delivery from the list to a worker: nobody outside sees it.
LEMMA TakeRefines ==
    ASSUME IInv, IInv', NEW w \in Workers, Take(w)
    PROVE  UNCHANGED Contract!deliveryVars
  <1>0. UNCHANGED <<endpoint, publisher, stamped, usage, edits, faults, posts, outcome>>
    BY DEF Take
  <1>1. /\ queue[1].delivery = worker'[w].delivery
        /\ worker[w].delivery = NoDelivery
        /\ \A x \in Workers : x # w => worker'[x] = worker[x]
    BY PoppedFacts DEF Take, IInv, TypeOK, WorkersWellFormed
  <1>2. /\ 1 \in 1..Len(queue)
        /\ \A i \in 1..Len(queue') : i + 1 \in 1..Len(queue) /\ queue'[i] = queue[i + 1]
        /\ \A i \in 1..Len(queue) : i = 1 \/ (i - 1 \in 1..Len(queue') /\ queue'[i - 1] = queue[i])
    BY PoppedFacts DEF Take, IInv
  <1>3. \A d \in Deliveries : Taken(d)' <=> Taken(d) \/ d = queue[1].delivery
    BY <1>1, DeliveryAssumption DEF Taken
  <1>4. \A d \in Deliveries : Queued(d) <=> Queued(d)' \/ d = queue[1].delivery
    <2> SUFFICES ASSUME NEW d \in Deliveries PROVE Queued(d) <=> Queued(d)' \/ d = queue[1].delivery
      OBVIOUS
    <2>1. ASSUME NEW i \in 1..Len(queue), queue[i].delivery = d
          PROVE  Queued(d)' \/ d = queue[1].delivery
      BY <2>1, <1>2 DEF Queued
    <2>2. ASSUME NEW i \in 1..Len(queue'), queue'[i].delivery = d
          PROVE  Queued(d)
      BY <2>2, <1>2 DEF Queued
    <2> QED BY <2>1, <2>2, <1>2 DEF Queued
  <1>5. \A d \in Deliveries : ToPush(d)' <=> ToPush(d)
    BY <1>0 DEF ToPush
  <1>6. \A d \in Deliveries : Carried(d) <=> Carried(d)'
    BY <1>3, <1>4, <1>5 DEF Carried
  <1> QED BY <1>0, <1>6, StutterStep

\* A worker that goes on, whatever it writes besides, is not seen.
LEMMA MoveRefines ==
    ASSUME IInv, IInv', NEW w \in Workers, NEW pc \in WorkerPcs, WorkerGoes(w, pc),
           UNCHANGED <<publisher, queue, usage, posts, outcome>>
    PROVE  UNCHANGED Contract!deliveryVars
  <1>1. \A x \in Workers : worker'[x].delivery = worker[x].delivery
    BY WorkerGoesFacts DEF IInv
  <1>2. \A d \in Deliveries : Carried(d) <=> Carried(d)'
    BY <1>1 DEF Carried, ToPush, Queued, Taken
  <1> QED BY <1>2, StutterStep

\* The POST is the contract's attempt.
LEMMA PostRefines ==
    ASSUME IInv, IInv', NEW w \in Workers, Post(w)
    PROVE  \E d \in Deliveries : Contract!Attempt(d)
  <1> PICK d : d = worker[w].delivery
    OBVIOUS
  <1>1. /\ worker[w].pc = "posting"
        /\ d \in Deliveries /\ Carried(d)
        /\ outcome[d] = "open"
        /\ posts[d] < MaxAttempts
    <2>1. worker[w].pc = "posting"
      BY DEF Post
    <2>2. d \in Deliveries /\ Carried(d)
      BY <2>1, WorkerCarriesAlone
    <2>3. outcome[d] = "open" /\ posts[d] <= worker[w].retry
      BY <2>1 DEF IInv, CarrierState, Mine, Sent
    <2>4. worker[w].retry \in 0..(MaxAttempts - 1) /\ posts[d] \in Nat
      BY <2>2 DEF IInv, TypeOK
    <2> QED BY <2>1, <2>2, <2>3, <2>4, DeliveryAssumption
  <1>2. Status[d] = "open"
    BY <1>1, StatusFacts
  <1>3. /\ posts' = [posts EXCEPT ![d] = @ + 1]
        /\ UNCHANGED <<publisher, queue, usage>>
    BY DEF Post, Mine
  <1> PICK pc \in {"acked", "failed"} :
          /\ WorkerGoes(w, pc)
          /\ \/ pc = "acked" /\ outcome' = [outcome EXCEPT ![d] = "acked"]
             \/ pc = "failed" /\ UNCHANGED outcome
    BY DEF Post, Mine
  <1>4. \A x \in Workers : worker'[x].delivery = worker[x].delivery
    BY WorkerGoesFacts DEF IInv, WorkerPcs
  <1>5. \A f \in Deliveries : Carried(f) <=> Carried(f)'
    BY <1>3, <1>4 DEF Carried, ToPush, Queued, Taken
  <1>6. /\ outcome'[d] = IF pc = "acked" THEN "acked" ELSE "open"
        /\ \A f \in Deliveries : f # d => outcome'[f] = outcome[f]
    BY <1>1 DEF IInv, TypeOK
  <1>7. /\ Status'[d] = IF pc = "acked" THEN "acked" ELSE "open"
        /\ \A f \in Deliveries : f # d => Status'[f] = Status[f]
    BY <1>1, <1>5, <1>6, StatusFacts, StatusFactsNext
  <1>8. CASE pc = "acked"
    <2>1. Contract!Move({d}, "open", "acked")
      BY <1>1, <1>2, <1>7, <1>8, StatusMoves
    <2> QED BY <1>1, <1>2, <1>3, <2>1 DEF Contract!Attempt, Status
  <1>9. CASE pc = "failed"
    <2>1. Status' = Status
      <3>1. \A f \in Deliveries : Status'[f] = Status[f]
        BY <1>2, <1>7, <1>9
      <3> QED BY <3>1 DEF Status
    <2> QED BY <1>1, <1>2, <1>3, <2>1 DEF Contract!Attempt, Status
  <1> QED BY <1>1, <1>8, <1>9

\* A handler that ends lays down its own delivery and no other.
LEMMA CarriedAfterDone ==
    ASSUME IInv, NEW w \in Workers, worker[w].pc # "idle", WorkerDone(w),
           UNCHANGED <<publisher, queue>>, NEW d \in Deliveries
    PROVE  Carried(d)' <=> Carried(d) /\ d # worker[w].delivery
  <1>1. Taken(d)' <=> Taken(d) /\ d # worker[w].delivery
    BY TakenAfterDone
  <1>2. d = worker[w].delivery => ~Queued(d) /\ ~ToPush(d)
    BY WorkerCarriesAlone
  <1>3. (Queued(d)' <=> Queued(d)) /\ (ToPush(d)' <=> ToPush(d))
    BY DEF Queued, ToPush
  <1> QED BY <1>1, <1>2, <1>3 DEF Carried

\* Skipping and giving up end an open delivery.
LEMMA ConcludeRefines ==
    ASSUME IInv, IInv', NEW w \in Workers, NEW result \in {"skipped", "gaveup"},
           worker[w].pc \in {"taken", "retrying"}, WorkerDone(w),
           outcome' = [outcome EXCEPT ![Mine(w)] = result],
           UNCHANGED <<publisher, queue, usage, posts>>
    PROVE  \E d \in Deliveries : Contract!Skip(d) \/ Contract!GiveUp(d)
  <1> PICK d : d = worker[w].delivery
    OBVIOUS
  <1>1. d \in Deliveries /\ Carried(d) /\ outcome[d] = "open"
    BY WorkerCarriesAlone DEF IInv, CarrierState, Mine
  <1>2. \A f \in Deliveries : f # d => (Carried(f) <=> Carried(f)')
    BY CarriedAfterDone
  <1>3. /\ outcome'[d] = result
        /\ \A f \in Deliveries : f # d => outcome'[f] = outcome[f]
    BY <1>1 DEF IInv, TypeOK, Mine
  <1>4. /\ Status[d] = "open" /\ Status'[d] = result
        /\ \A f \in Deliveries : f # d => Status'[f] = Status[f]
    BY <1>1, <1>2, <1>3, StatusFacts, StatusFactsNext
  <1>5. Contract!Move({d}, "open", result)
    BY <1>1, <1>4, StatusMoves
  <1>6. Contract!Skip(d) \/ Contract!GiveUp(d)
    BY <1>5 DEF Contract!Skip, Contract!GiveUp
  <1> QED BY <1>1, <1>6

\* The retry moves a delivery from the worker to the list: nobody outside sees it.
LEMMA RequeueRefines ==
    ASSUME IInv, IInv', NEW w \in Workers, worker[w].pc = "retrying",
           worker[w].retry + 1 < MaxAttempts,
           queue' = Append(queue, Again(w)), WorkerDone(w),
           UNCHANGED <<publisher, usage, posts, outcome>>
    PROVE  UNCHANGED Contract!deliveryVars
  <1>1. worker[w].delivery \in Deliveries /\ Taken(worker[w].delivery)
    BY WorkerCarriesAlone DEF Taken
  <1>2. Again(w) \in Message /\ Again(w).delivery = worker[w].delivery
    <2>1. worker[w].retry + 1 \in 0..(MaxAttempts - 1)
      <3>1. worker[w].retry \in 0..(MaxAttempts - 1)
        BY DEF IInv, TypeOK
      <3> QED BY <3>1, DeliveryAssumption
    <2> QED BY <1>1, <2>1 DEF Again, Message, Mine
  <1>3. \A d \in Deliveries : Queued(d)' <=> Queued(d) \/ d = worker[w].delivery
    BY <1>2, QueuedAfterPush DEF IInv
  <1>4. \A d \in Deliveries : Taken(d)' <=> Taken(d) /\ d # worker[w].delivery
    BY TakenAfterDone
  <1>5. \A d \in Deliveries : ToPush(d)' <=> ToPush(d)
    BY DEF ToPush
  <1>6. \A d \in Deliveries : Carried(d) <=> Carried(d)'
    BY <1>1, <1>3, <1>4, <1>5 DEF Carried
  <1> QED BY <1>6, StutterStep

\* The contract counts with the definition of its own instance of FiniteSets.
LEMMA SameCount == \A S : Contract!Cardinality(S) = Cardinality(S)
  BY DEF Contract!Cardinality, Cardinality

\* An acknowledged delivery that is laid down is not lost: the contract sees its charge,
\* or nothing.
LEMMA BookingRefines ==
    ASSUME IInv, IInv', NEW w \in Workers, worker[w].pc \in {"acked", "stamped"}, WorkerDone(w),
           UNCHANGED <<publisher, queue, posts, outcome>>
    PROVE  /\ UNCHANGED usage => UNCHANGED Contract!deliveryVars
           /\ usage' = [usage EXCEPT ![Mine(w)[1]] = @ + 1] => \E e \in Endpoints : Contract!Charge(e)
  <1>0. worker[w].delivery \in Deliveries /\ outcome[worker[w].delivery] = "acked"
    BY WorkerCarriesAlone DEF IInv, CarrierState, Mine
  <1> PICK e \in Endpoints, v \in Events : worker[w].delivery = <<e, v>>
    BY <1>0, DeliveryParts
  <1>1. Mine(w)[1] = e
    BY DEF Mine
  <1>2. \A d \in Deliveries : outcome[d] = "open" => (Carried(d) <=> Carried(d)')
    BY <1>0, CarriedAfterDone
  <1>3. Status' = Status
    <2>1. \A d \in Deliveries : Status'[d] = Status[d]
      BY <1>2, StatusFacts, StatusFactsNext
    <2> QED BY <2>1 DEF Status
  <1>4. {u \in Events : Status[<<e, u>>] = "acked"} = Acked(e)
    <2>1. \A u \in Events : <<e, u>> \in Deliveries
      BY DeliveryParts
    <2>2. \A u \in Events : Status[<<e, u>>] = "acked" <=> outcome[<<e, u>>] = "acked"
      BY <2>1, StatusFacts
    <2> QED BY <2>2 DEF Acked
  <1>5. usage[e] < Cardinality(Acked(e))
    <2>1. w \in Booking(e)
      BY DEF Booking
    <2>2. IsFiniteSet(Booking(e)) /\ IsFiniteSet(Acked(e)) /\ usage[e] \in Nat
      BY DEF IInv, FiniteBooks, TypeOK
    <2>3. Booking(e) # {}
      BY <2>1
    <2>4. Cardinality(Booking(e)) \in Nat /\ Cardinality(Booking(e)) # 0 /\ Cardinality(Acked(e)) \in Nat
      BY <2>2, <2>3, FS_EmptySet, FS_CardinalityType
    <2>5. usage[e] + Cardinality(Booking(e)) <= Cardinality(Acked(e))
      BY DEF IInv, UsageMatchesAcks
    <2> QED BY <2>2, <2>4, <2>5
  <1>6. UNCHANGED usage => UNCHANGED Contract!deliveryVars
    BY <1>3 DEF Contract!deliveryVars, Status
  <1>7. usage' = [usage EXCEPT ![e] = @ + 1] => Contract!Charge(e)
    <2>1. {u \in Events : [d \in Deliveries |-> IF Lost(d) THEN "lost" ELSE outcome[d]][<<e, u>>] = "acked"}
             = Acked(e)
      BY <1>4 DEF Status
    <2>2. UNCHANGED <<[d \in Deliveries |-> IF Lost(d) THEN "lost" ELSE outcome[d]], posts>>
      BY <1>3 DEF Status
    <2> QED BY <1>5, <2>1, <2>2, SameCount DEF Contract!Charge
  <1> QED BY <1>1, <1>6, <1>7

\* A handler that ends under a fault loses its delivery, unless it was acknowledged.
LEMMA FailureRefines ==
    ASSUME IInv, IInv', NEW w \in Workers, worker[w].pc # "idle", WorkerDone(w),
           UNCHANGED <<publisher, queue, usage, posts, outcome>>
    PROVE  \/ UNCHANGED Contract!deliveryVars
           \/ \E v \in Events, S \in SUBSET Endpoints : Contract!Lose(v, S)
  <1>0. worker[w].delivery \in Deliveries /\ Carried(worker[w].delivery)
    BY WorkerCarriesAlone
  <1>1. CASE worker[w].pc \in {"acked", "stamped"}
    BY <1>1, BookingRefines
  <1>2. CASE worker[w].pc \notin {"acked", "stamped"}
    <2> PICK e \in Endpoints, v \in Events : worker[w].delivery = <<e, v>>
      BY <1>0, DeliveryParts
    <2>1. worker[w].pc \in {"taken", "posting", "failed", "retrying"}
      BY <1>2 DEF IInv, TypeOK, WorkerPcs
    <2>2. outcome[<<e, v>>] = "open"
      BY <2>1 DEF IInv, CarrierState, Mine
    <2>3. /\ Carried(<<e, v>>) /\ ~Carried(<<e, v>>)'
          /\ \A d \in Deliveries : d # <<e, v>> => (Carried(d) <=> Carried(d)')
      BY <1>0, CarriedAfterDone
    <2>4. \A d : d \in {e} \X {v} <=> d = <<e, v>>
      OBVIOUS
    <2>5. Contract!Lose(v, {e})
      BY <2>2, <2>3, <2>4, LoseStep
    <2> QED BY <2>5
  <1> QED BY <1>1, <1>2

\* The publisher's steps are steps of the contract.
LEMMA PublisherRefines ==
    ASSUME IInv, IInv', NEW v \in Events,
           PublisherStep(v) \/ PublisherStops(v) \/ \E e \in Endpoints : PushFails(v, e)
    PROVE  [Contract!Next]_(Contract!deliveryVars)
  <1>1. CASE SelectEndpoints(v)
    BY <1>1, SelectRefines DEF Contract!Next
  <1>2. ASSUME NEW e \in Endpoints, Push(v, e) \/ PushFails(v, e)
        PROVE  [Contract!Next]_(Contract!deliveryVars)
    <2>1. CASE queue' = Append(queue, [delivery |-> <<e, v>>, retry |-> 0])
      BY <1>2, <2>1, PushRefines DEF Push, PushFails
    <2>2. CASE queue' = queue /\ PushFails(v, e)
      <3>1. /\ {e} \subseteq publisher[v].left
            /\ publisher'[v].left = publisher[v].left \ {e}
            /\ \A u \in Events : u # v => publisher'[u].left = publisher[u].left
        BY <2>2 DEF PushFails, Pushed, IInv, TypeOK
      <3>2. Contract!Lose(v, {e})
        BY <2>2, <3>1, DropRefines DEF PushFails
      <3> QED BY <3>2 DEF Contract!Next
    <2> QED BY <1>2, <2>1, <2>2 DEF Push, PushFails
  <1>3. CASE PublisherStops(v)
    <2> PICK T : T = publisher[v].left
      OBVIOUS
    <2>1. /\ T \subseteq Endpoints
          /\ publisher'[v].left = publisher[v].left \ T
          /\ \A u \in Events : u # v => publisher'[u].left = publisher[u].left
      BY <1>3 DEF PublisherStops, IInv, TypeOK
    <2>2. Contract!Lose(v, T)
      BY <1>3, <2>1, DropRefines DEF PublisherStops
    <2> QED BY <2>1, <2>2 DEF Contract!Next
  <1> QED BY <1>1, <1>2, <1>3 DEF PublisherStep

\* The worker's steps are steps of the contract.
LEMMA WorkerRefines ==
    ASSUME IInv, IInv', NEW w \in Workers,
           WorkerStep(w) \/ LoadFails(w) \/ RetryFails(w) \/ BookkeepingFails(w) \/ WorkerCrash(w)
    PROVE  [Contract!Next]_(Contract!deliveryVars)
  <1>0. Contract!Deliveries = Deliveries
    BY DEF Contract!Deliveries, Deliveries
  <1>1. CASE Take(w)
    BY <1>1, TakeRefines
  <1>2. CASE LoadEndpoint(w)
    <2>1. CASE WorkerGoes(w, "posting") /\ UNCHANGED outcome
      BY <1>2, <2>1, MoveRefines DEF LoadEndpoint, WorkerPcs
    <2>2. CASE WorkerDone(w) /\ outcome' = [outcome EXCEPT ![Mine(w)] = "skipped"]
      <3>1. \E d \in Deliveries : Contract!Skip(d) \/ Contract!GiveUp(d)
        BY <1>2, <2>2, ConcludeRefines DEF LoadEndpoint
      <3> QED BY <1>0, <3>1 DEF Contract!Next
    <2> QED BY <1>2, <2>1, <2>2 DEF LoadEndpoint
  <1>3. CASE Post(w)
    BY <1>0, <1>3, PostRefines DEF Contract!Next
  <1>4. CASE StampResult(w)
    BY <1>4, MoveRefines DEF StampResult, WorkerPcs
  <1>5. CASE EmitUsage(w)
    <2>1. /\ UNCHANGED usage => UNCHANGED Contract!deliveryVars
          /\ usage' = [usage EXCEPT ![Mine(w)[1]] = @ + 1] => \E e \in Endpoints : Contract!Charge(e)
      BY <1>5, BookingRefines DEF EmitUsage
    <2> QED BY <1>5, <2>1 DEF EmitUsage, Contract!Next
  <1>6. CASE RetryOrGiveUp(w)
    <2>1. CASE worker[w].retry + 1 < MaxAttempts /\ queue' = Append(queue, Again(w)) /\ UNCHANGED outcome
      BY <1>6, <2>1, RequeueRefines DEF RetryOrGiveUp
    <2>2. CASE outcome' = [outcome EXCEPT ![Mine(w)] = "gaveup"] /\ UNCHANGED queue
      <3>1. \E d \in Deliveries : Contract!Skip(d) \/ Contract!GiveUp(d)
        BY <1>6, <2>2, ConcludeRefines DEF RetryOrGiveUp
      <3> QED BY <1>0, <3>1 DEF Contract!Next
    <2> QED BY <1>6, <2>1, <2>2 DEF RetryOrGiveUp
  <1>7. CASE LoadFails(w)
    BY <1>7, MoveRefines DEF LoadFails, WorkerPcs
  <1>8. CASE RetryFails(w) \/ WorkerCrash(w)
    BY <1>8, FailureRefines DEF RetryFails, WorkerCrash, Contract!Next
  <1>9. CASE BookkeepingFails(w)
    <2>1. CASE WorkerGoes(w, "stamped") \/ WorkerGoes(w, "retrying")
      BY <1>9, <2>1, MoveRefines DEF BookkeepingFails, WorkerPcs
    <2>2. CASE worker[w].pc = "stamped" /\ WorkerDone(w)
      BY <1>9, <2>2, FailureRefines DEF BookkeepingFails, Contract!Next
    <2> QED BY <1>9, <2>1, <2>2 DEF BookkeepingFails
  <1> QED BY <1>1, <1>2, <1>3, <1>4, <1>5, <1>6, <1>7, <1>8, <1>9 DEF WorkerStep

\* Every step is a step of the contract or a stutter.
LEMMA NextRefines == IInv /\ IInv' /\ [Next]_vars => [Contract!Next]_(Contract!deliveryVars)
  <1> SUFFICES ASSUME IInv, IInv', [Next]_vars
               PROVE  [Contract!Next]_(Contract!deliveryVars)
    OBVIOUS
  <1>1. ASSUME UNCHANGED <<publisher, queue, worker, usage, posts, outcome>>
        PROVE  UNCHANGED Contract!deliveryVars
    <2>1. \A d \in Deliveries : Carried(d) <=> Carried(d)'
      BY <1>1 DEF Carried, ToPush, Queued, Taken
    <2> QED BY <1>1, <2>1, StutterStep
  <1>2. CASE UNCHANGED vars
    BY <1>1, <1>2 DEF vars
  <1>3. ASSUME NEW e \in Endpoints,
               \/ \E types \in Subscriptions : CreateWebhook(e, types)
               \/ \E types \in Subscriptions, state \in {"active", "inactive"} : UpdateWebhook(e, state, types)
               \/ DeleteWebhook(e)
        PROVE  UNCHANGED Contract!deliveryVars
    BY <1>1, <1>3 DEF CreateWebhook, UpdateWebhook, DeleteWebhook
  <1>4. ASSUME NEW v \in Events,
               PublisherStep(v) \/ PublisherStops(v) \/ \E e \in Endpoints : PushFails(v, e)
        PROVE  [Contract!Next]_(Contract!deliveryVars)
    BY <1>4, PublisherRefines
  <1>5. ASSUME NEW w \in Workers,
               WorkerStep(w) \/ LoadFails(w) \/ RetryFails(w) \/ BookkeepingFails(w) \/ WorkerCrash(w)
        PROVE  [Contract!Next]_(Contract!deliveryVars)
    BY <1>5, WorkerRefines
  <1> QED BY <1>2, <1>3, <1>4, <1>5 DEF Next

\* Deliveries keep the contract towards the owner of an endpoint: addressed once,
\* attempted at most MaxAttempts times, ended once, never sent again after the handler
\* has seen the acknowledgement, charged only then, and a lost one never comes back.
THEOREM DeliveryImplementsContract == Spec => ImplementsDelivery
  <1>1. Init => Contract!Init
    BY InitRefines
  <1>2. IInv /\ IInv' /\ [Next]_vars => [Contract!Next]_(Contract!deliveryVars)
    BY NextRefines
  <1> QED BY <1>1, <1>2, DeliveryInvariant, PTL DEF Spec, ImplementsDelivery, Contract!Spec

=============================================================================

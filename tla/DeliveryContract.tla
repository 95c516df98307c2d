-------------------------- MODULE DeliveryContract ---------------------------
(***************************************************************************)
(* What MotionState promises the owner of a webhook endpoint, with no      *)
(* queue, worker or session in sight: an event is addressed once, to the   *)
(* endpoints subscribed at that moment; each of these deliveries is        *)
(* attempted a bounded number of times, ends at most once, is never sent   *)
(* again after the endpoint was seen to acknowledge it, and is charged     *)
(* only then.  A delivery may be lost, alone or with others of its event.  *)
(* WebhookDelivery is shown to implement this module.                      *)
(***************************************************************************)
EXTENDS Naturals, FiniteSets

CONSTANTS Endpoints, Events, MaxAttempts

VARIABLES delivery,  \* delivery[d]: how far event d[2] is on its way to endpoint d[1]
          attempts,  \* attempts[d]: POSTs sent
          charges    \* charges[e]: webhook_deliveries usage recorded for endpoint e

deliveryVars == <<delivery, attempts, charges>>

Deliveries == Endpoints \X Events

Init ==
    /\ delivery = [d \in Deliveries |-> "unselected"]
    /\ attempts = [d \in Deliveries |-> 0]
    /\ charges = [e \in Endpoints |-> 0]

\* The deliveries of S move together; no other one does.
Move(S, from, to) ==
    /\ \A d \in S : delivery[d] = from
    /\ delivery' = [d \in Deliveries |-> IF d \in S THEN to ELSE delivery[d]]

Address(v, S) ==
    /\ \A e \in Endpoints : delivery[<<e, v>>] = "unselected"
    /\ Move(S \X {v}, "unselected", "open")
    /\ UNCHANGED <<attempts, charges>>

Attempt(d) ==
    /\ delivery[d] = "open"
    /\ attempts[d] < MaxAttempts
    /\ attempts' = [attempts EXCEPT ![d] = @ + 1]
    /\ Move({d}, "open", "acked") \/ UNCHANGED delivery
    /\ UNCHANGED charges

Skip(d)    == Move({d}, "open", "skipped")  /\ UNCHANGED <<attempts, charges>>
GiveUp(d)  == Move({d}, "open", "gaveup")   /\ UNCHANGED <<attempts, charges>>
Lose(v, S) == Move(S \X {v}, "open", "lost") /\ UNCHANGED <<attempts, charges>>

\* The endpoint has acknowledged more than it has been charged for.
Charge(e) ==
    /\ charges[e] < Cardinality({v \in Events : delivery[<<e, v>>] = "acked"})
    /\ charges' = [charges EXCEPT ![e] = @ + 1]
    /\ UNCHANGED <<delivery, attempts>>

Next ==
    \/ \E v \in Events, S \in SUBSET Endpoints : Address(v, S) \/ Lose(v, S)
    \/ \E d \in Deliveries : Attempt(d) \/ Skip(d) \/ GiveUp(d)
    \/ \E e \in Endpoints : Charge(e)

Spec == Init /\ [][Next]_deliveryVars
=============================================================================

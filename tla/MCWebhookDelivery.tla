------------------------- MODULE MCWebhookDelivery --------------------------
(* WebhookDelivery for TLC.                                                  *)
EXTENDS WebhookDelivery, TLC

CONSTANTS completed, failed

\* The verdicts of a completed and of a failed run.
TwoTypes == (completed :> "completed") @@ (failed :> "failed")

\* All types (event_types_json is null), or only failures.
AllOrFailures == { {"completed", "failed"}, {"failed"} }

Symmetry == Permutations(Workers) \cup Permutations(Endpoints)
=============================================================================

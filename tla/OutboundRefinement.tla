------------------------- MODULE OutboundRefinement -------------------------
(* OutboundDelivery implements Outbox: a row is "out" when its status is   *)
(* one the provider reports of a delivery, its retries are the attempt it  *)
(* carries, its deliveries the sends that were committed.                  *)
EXTENDS OutboundDelivery

StateOf(s) == CASE s = "pending" -> "waiting"
                [] s = "failed"  -> "dropped"
                [] s = "absent"  -> "absent"
                [] OTHER         -> "out"

Promised == INSTANCE Outbox
  WITH MaxRetries <- MaxAttempt,
       state      <- [m \in Messages |-> StateOf(status[m])],
       sent       <- sends,
       retries    <- attempt

\* Whatever workers, tasks, retries, webhooks, cancellations and crashes do,
\* the rows move as Outbox allows: in sequence, within the budget, and never
\* out of "failed" but by news of an earlier send (process_outbound_message,
\* update_message_status, and every place that cancels pending rows).
ImplementsOutbox == Promised!Spec
=============================================================================

------------------------- MODULE MCOutboundBarrier -------------------------
(* Two conversations of one business: an automatic answer and a person's   *)
(* message in one, an automatic answer or a handoff notice in the other;   *)
(* a plan of one message, the operator's switches, and webhooks in order.  *)
EXTENDS OutboundRefinement, TLC
CONSTANTS answer, typed, notice, c1, c2

Symmetry == Permutations(Workers)
MCConv   == [m \in Messages |-> IF m = notice THEN c2 ELSE c1]
MCFollow == [m \in Messages |-> NoMsg]
MCLead   == [m \in Messages |-> m]
=============================================================================

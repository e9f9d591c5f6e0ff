-------------------------- MODULE MCOutboundRetry --------------------------
(* One conversation, an optional image and the text that follows it, two   *)
(* workers, a crash: retries, webhooks and the order of a sequence.        *)
EXTENDS OutboundRefinement, TLC
CONSTANTS image, text, c1

Symmetry == Permutations(Workers)
MCConv   == [m \in Messages |-> c1]
MCFollow == [m \in Messages |-> IF m = image THEN text ELSE NoMsg]
MCLead   == [m \in Messages |-> image]
=============================================================================

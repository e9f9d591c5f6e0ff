--------------------------- MODULE MCOutboundLive ---------------------------
(* One answer, two handlers that may be given the same task, a crash, one  *)
(* operator action and every status webhook: does the answer settle?       *)
EXTENDS OutboundDelivery
CONSTANTS answer, c1

MCConv   == [m \in Messages |-> c1]
MCFollow == [m \in Messages |-> NoMsg]
MCLead   == [m \in Messages |-> m]
=============================================================================

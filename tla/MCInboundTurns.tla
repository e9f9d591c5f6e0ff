--------------------------- MODULE MCInboundTurns ---------------------------
(* Any times of arrival of a few texts and a button, on a clock of a few   *)
(* windows.                                                                *)
EXTENDS InboundTurns
=============================================================================

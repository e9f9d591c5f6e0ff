----------------------------- MODULE MCOutreach -----------------------------
(* One customer, silent and due for a cleaning, and two sweeps at once.     *)
EXTENDS Outreach, TLC
CONSTANTS c1

Symmetry == Permutations(Sweepers)
=============================================================================

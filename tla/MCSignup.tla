------------------------------ MODULE MCSignup ------------------------------
(* One business, its browsers, and the requests of two tabs.               *)
EXTENDS Signup, TLC
=============================================================================

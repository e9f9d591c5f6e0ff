----------------------------- MODULE MCCheckout -----------------------------
(* Two checkouts of one business: each method first and second, and among  *)
(* them the pairs in which the first may be settled behind the second.     *)
EXTENDS Checkout

Local == {"native", "pix"}
Pairs == {<<"native", "native">>, <<"pix", "native">>, <<"native", "hosted">>,
          <<"hosted", "pix">>, <<"hosted", "native">>, <<"auto", "pix">>, <<"pix", "auto">>}
Handlers == [p \in Pairs |-> IF p[1] \in Local /\ p[2] \in Local THEN 2 ELSE 1]

Cards == {<<"native", "native">>}
OneAtATime == [p \in Cards |-> 1]

Session == {<<"hosted", "hosted">>}
OneEach == [p \in Session |-> 1]
=============================================================================

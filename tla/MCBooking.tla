----------------------------- MODULE MCBooking -----------------------------
(* Three customers at the origin and farther down one road, an appointment *)
(* of the office, a day of a few slots.                                    *)
EXTENDS Booking

Distance(p, q) == IF p < q THEN q - p ELSE p - q

\* The places are points of the road; the office's appointment has none.
MCPlaces == 0 .. 2
MCPlace  == [a \in Appointments |->
               IF a \in Calls THEN Nowhere ELSE a - 1]
MCTravel == [p \in MCPlaces |-> [q \in MCPlaces |-> Distance(p, q)]]
MCDur    == [a \in Appointments |-> 1]

\* One long service for the first customer, everybody near the origin.
MCPlaceNear == [a \in Appointments |-> 0]
MCDurLong   == [a \in Appointments |-> IF a = 1 THEN 3 ELSE 1]
=============================================================================

------------------------------ MODULE Booking ------------------------------
(***************************************************************************)
(* One working day of one business: customers confirm, move and cancel     *)
(* appointments through the assistant while the office edits the agenda.   *)
(*                                                                         *)
(*   booking/availability.py    confirm, reschedule_booking_atomic,        *)
(*                              cancel_booking and the search for slots    *)
(*   operations/service.py      create_appointment, update_appointment     *)
(*   operations/rescheduling.py initiate_admin_reschedule                  *)
(*   models/domain.py           the exclusion constraint of appointments   *)
(*                                                                         *)
(* A customer's request is two steps: it reads the agenda and computes     *)
(* what each technician could offer, and then tries to write the row for   *)
(* one technician after the other.  Only the exclusion constraint relates  *)
(* the write to the agenda of that moment.  The conversation is locked     *)
(* from the first step to the commit, so a customer has one request at a   *)
(* time.  An insert is taken as committed at once: until it commits, a     *)
(* conflicting one waits, and it finds the range free after a rollback.    *)
(*                                                                         *)
(* Time is counted in slots.  Not modelled: price, notice and lead times,  *)
(* the opening hours of the customer's building, notifications.            *)
(***************************************************************************)
EXTENDS Integers, FiniteSets

CONSTANTS
  Appointments,  \* numbered by id; an automatic one stands for its idempotency key
  Calls,         \* those that the office creates, without a service address
  Employees,     \* technicians of the service, as numbers (order of their ids)
  Places, Origin, Nowhere,
  Place,         \* service address of an appointment, or Nowhere
  Travel,        \* travel[p][q], slots from p to q
  Dur,           \* estimated duration of the service
  Before, After, \* travel_before_buffer_minutes, travel_after_buffer_minutes
  Open, Close,   \* opening hours
  Interval,      \* slot_interval_minutes: services start on this grid
  Blocks,        \* schedule blocks: pairs of technician and slot
  MaxOpen,       \* bound on the requests that run at once
  MaxEdits       \* bound on the edits by the office

ASSUME BookingAssumption ==
  /\ Appointments \subseteq Nat /\ IsFiniteSet(Appointments) /\ Calls \subseteq Appointments
  /\ Employees \subseteq Nat
  /\ Origin \in Places /\ Nowhere \notin Places
  /\ Place \in [Appointments -> Places \cup {Nowhere}]
  /\ \A a \in Appointments : Place[a] = Nowhere <=> a \in Calls
  /\ Travel \in [Places -> [Places -> Nat]]
  /\ Dur \in [Appointments -> Nat \ {0}]
  /\ Before \in Nat /\ After \in Nat
  /\ Open \in Nat /\ Close \in Nat /\ Interval \in Nat \ {0}
  /\ Blocks \subseteq Employees \X Nat
  /\ MaxOpen \in Nat /\ MaxEdits \in Nat

VARIABLES
  status,     \* appointments.status, "absent" before the row exists
  moving,     \* estimate_details.reschedule_pending
  employee, starts,
  travelBefore, travelAfter,
  request,    \* what the customer's request is doing
  target,     \* the start it asked for
  offers,     \* technicians still to be tried, with their reservation
  fresh,      \* nothing was confirmed since the request read the agenda
  serial,     \* (history) the customers' appointments were placed by fresh requests
  released,   \* (history) appointments displaced by the last priority move,
  enough,     \* and how many would have been enough
  edits

rowVars     == <<status, moving, employee, starts, travelBefore, travelAfter>>
requestVars == <<request, target, offers>>
historyVars == <<released, enough>>
vars == <<rowVars, requestVars, fresh, serial, historyVars, edits>>

\* "completed" is taken as "cancelled": both free the range for good.
Statuses == {"pending", "confirmed", "cancelled"}
\* _ceil_to_slot; the office is taken to keep to the same grid.
Slots == {s \in Open .. Close - 1 : s % Interval = 0}
Automatic == Appointments \ Calls

-----------------------------------------------------------------------------
(* The search for a slot: _build_plan, _schedule_aware_plan, _has_conflict. *)

Confirmed == {a \in Appointments : status[a] = "confirmed"}
Ends(a)   == starts[a] + Dur[a]

\* _build_plan: from the origin and back; no address means no travel.
BaseLeg(a) == IF Place[a] = Nowhere THEN 0 ELSE Travel[Origin][Place[a]]

\* The neighbours of a service of a from s on, among the appointments B.
Previous(a, e, s, B) ==
  {p \in B : /\ employee[p] = e /\ Ends(p) <= s
             /\ \A q \in B : employee[q] = e /\ Ends(q) <= s => Ends(q) <= Ends(p)}
Following(a, e, s, B) ==
  {f \in B : /\ employee[f] = e /\ s + Dur[a] <= starts[f]
             /\ \A q \in B : employee[q] = e /\ s + Dur[a] <= starts[q] => starts[f] <= starts[q]}

\* _schedule_aware_plan: a neighbour without an address fails closed.
Reachable(a, e, s, B) ==
  Place[a] # Nowhere =>
    \A n \in Previous(a, e, s, B) \cup Following(a, e, s, B) : Place[n] # Nowhere

\* Mutant: the previous customer is not looked at.
LegBeforeFromOrigin(a, e, s, B) == BaseLeg(a)
LegBefore(a, e, s, B) ==
  IF Place[a] = Nowhere \/ Previous(a, e, s, B) = {} THEN BaseLeg(a)
  ELSE LET p == CHOOSE p \in Previous(a, e, s, B) : TRUE IN Travel[Place[p]][Place[a]]

LegAfter(a, e, s, B) ==
  IF Place[a] = Nowhere \/ Following(a, e, s, B) = {} THEN 0
  ELSE LET f == CHOOSE f \in Following(a, e, s, B) : TRUE IN Travel[Place[a]][Place[f]]

Candidate(a, e, s, B) ==
  [emp |-> e, before |-> LegBefore(a, e, s, B) + Before, after |-> LegAfter(a, e, s, B) + After]

\* The range [from, to) meets what the technician has reserved.
Meets(e, from, to, b) ==
  employee[b] = e /\ from < Ends(b) + travelAfter[b] /\ starts[b] - travelBefore[b] < to

\* Mutant: the travel is not part of the range that is compared.
HasConflictServiceOnly(a, o, s, B) == \E b \in B : Meets(o.emp, s, s + Dur[a], b)
HasConflict(a, o, s, B) ==
  LET from == s - o.before
      to   == s + Dur[a] + o.after
  IN  \/ \E b \in B : Meets(o.emp, from, to, b)
      \/ \E x \in Blocks : x[1] = o.emp /\ from < x[2] + 1 /\ x[2] < to

\* The opening hours are checked with the plan from and to the origin.
InHours(a, s) ==
  /\ Open + BaseLeg(a) + Before <= s
  /\ s + Dur[a] + BaseLeg(a) + After <= Close

Offers(a, s, B) ==
  {o \in {Candidate(a, e, s, B) : e \in {e \in Employees : Reachable(a, e, s, B)}} :
     InHours(a, s) /\ ~HasConflict(a, o, s, B)}

\* The technician who travels least, then the smaller id.
Best(a) == {o \in offers[a] : \A p \in offers[a] :
              \/ o.before + o.after < p.before + p.after
              \/ o.before + o.after = p.before + p.after /\ o.emp <= p.emp}

-----------------------------------------------------------------------------
\* Type invariant: the rows of appointments and the requests in progress.
TypeOK ==
  /\ status \in [Appointments -> Statuses \cup {"absent"}]
  /\ moving \in [Appointments -> BOOLEAN]
  /\ employee \in [Appointments -> Nat]
  /\ starts \in [Appointments -> Nat]
  /\ travelBefore \in [Appointments -> Nat]
  /\ travelAfter \in [Appointments -> Nat]
  /\ request \in [Appointments -> {"idle", "confirm", "move"}]
  /\ target \in [Appointments -> Nat]
  /\ offers \in [Appointments -> SUBSET [emp : Employees, before : Nat, after : Nat]]
  /\ fresh \in [Appointments -> BOOLEAN]
  /\ serial \in BOOLEAN
  /\ released \subseteq Appointments /\ enough \in Nat
  /\ edits \in 0 .. MaxEdits

Init ==
  /\ status = [a \in Appointments |-> "absent"]
  /\ moving = [a \in Appointments |-> FALSE]
  /\ employee = [a \in Appointments |-> 0]
  /\ starts = [a \in Appointments |-> 0]
  /\ travelBefore = [a \in Appointments |-> 0]
  /\ travelAfter = [a \in Appointments |-> 0]
  /\ request = [a \in Appointments |-> "idle"]
  /\ target = [a \in Appointments |-> 0]
  /\ offers = [a \in Appointments |-> {}]
  /\ fresh = [a \in Appointments |-> FALSE]
  /\ serial = TRUE
  /\ released = {} /\ enough = 0
  /\ edits = 0

-----------------------------------------------------------------------------
(* Requests of customers.                                                  *)

Running == {a \in Appointments : request[a] # "idle"}

\* The row of a would be confirmed like this; the exclusion constraint
\* compares it with every other confirmed row.
\* Mutant: the constraint covers the service alone.
ExcludedServiceOnly(a, e, s, before, after) ==
  \E b \in Confirmed \ {a} : Meets(e, s, s + Dur[a], b)
Excluded(a, e, s, before, after) ==
  \E b \in Confirmed \ {a} : Meets(e, s - before, s + Dur[a] + after, b)

\* A request has read the agenda and knows who could take it.
Searches(a, s, B) ==
  /\ request[a] = "idle"
  /\ Cardinality(Running) < MaxOpen
  /\ Offers(a, s, B) # {}
  /\ target' = [target EXCEPT ![a] = s]
  /\ offers' = [offers EXCEPT ![a] = Offers(a, s, B)]
  /\ fresh' = [fresh EXCEPT ![a] = TRUE]

\* confirm, up to _employees_for_exact_start; a row that is there already is
\* returned as it is, whatever its status.
SearchConfirm(a, s) ==
  /\ a \in Automatic /\ status[a] = "absent"
  /\ Searches(a, s, Confirmed)
  /\ request' = [request EXCEPT ![a] = "confirm"]
  /\ UNCHANGED <<rowVars, serial, historyVars, edits>>

\* reschedule_booking_atomic: the row stays locked from here on.
Movable(a) == status[a] = "confirmed" \/ (status[a] = "pending" /\ moving[a])

SearchMove(a, s) ==
  /\ Movable(a)
  /\ Searches(a, s, Confirmed \ {a})
  /\ request' = [request EXCEPT ![a] = "move"]
  /\ UNCHANGED <<rowVars, serial, historyVars, edits>>

\* confirm reserves the travel of the candidate, reschedule_booking_atomic
\* the travel of the plan from the origin.
Written(a, o) ==
  IF request[a] = "confirm" THEN o
  ELSE [o EXCEPT !.before = BaseLeg(a) + Before, !.after = BaseLeg(a) + After]

Refused(a, o) ==
  LET r == Written(a, o) IN Excluded(a, r.emp, target[a], r.before, r.after)

Leave(a) ==
  /\ request' = [request EXCEPT ![a] = "idle"]
  /\ target' = [target EXCEPT ![a] = 0]
  /\ offers' = [offers EXCEPT ![a] = {}]

\* Nothing is placed: what the others have read is still what there is.
GivesUp(a) ==
  /\ Leave(a)
  /\ fresh' = [fresh EXCEPT ![a] = FALSE]

\* The write succeeds and is committed.
Book(a, o) ==
  LET r == Written(a, o) IN
  /\ ~Refused(a, o)
  /\ status' = [status EXCEPT ![a] = "confirmed"]
  /\ moving' = [moving EXCEPT ![a] = FALSE]
  /\ employee' = [employee EXCEPT ![a] = r.emp]
  /\ starts' = [starts EXCEPT ![a] = target[a]]
  /\ travelBefore' = [travelBefore EXCEPT ![a] = r.before]
  /\ travelAfter' = [travelAfter EXCEPT ![a] = r.after]
  /\ fresh' = [b \in Appointments |-> FALSE]
  /\ serial' = (serial /\ (a \in Automatic => fresh[a]))
  /\ Leave(a)
  /\ UNCHANGED <<historyVars, edits>>

\* The exclusion constraint refuses the write: the next technician, or none
\* is left (SlotUnavailable) and the row is as it was.
Refuse(a, o) ==
  /\ Refused(a, o)
  /\ IF offers[a] = {o}
     THEN GivesUp(a)
     ELSE /\ offers' = [offers EXCEPT ![a] = @ \ {o}]
          /\ UNCHANGED <<request, target, fresh>>
  /\ UNCHANGED <<rowVars, serial, historyVars, edits>>

\* The request dies before it commits; its task is delivered again.
Abort(a) ==
  /\ request[a] # "idle"
  /\ GivesUp(a)
  /\ UNCHANGED <<rowVars, serial, historyVars, edits>>

\* cancel_booking; only a confirmed appointment can be cancelled.
Cancel(a) ==
  /\ request[a] = "idle"
  /\ status[a] = "confirmed"
  /\ status' = [status EXCEPT ![a] = "cancelled"]
  /\ UNCHANGED <<moving, employee, starts, travelBefore, travelAfter, requestVars, fresh, serial,
                 historyVars, edits>>

-----------------------------------------------------------------------------
(* The office.                                                             *)

Edit ==
  /\ edits < MaxEdits
  /\ edits' = edits + 1

\* What other requests have read is stale once the office confirms a row.
Confirms(st) == fresh' = IF st = "confirmed" THEN [b \in Appointments |-> FALSE] ELSE fresh

\* create_appointment: no look at the agenda, only the constraint.
Create(a, e, s, st) ==
  /\ Edit
  /\ a \in Calls /\ status[a] = "absent"
  /\ st = "confirmed" => ~Excluded(a, e, s, Before, After)
  /\ status' = [status EXCEPT ![a] = st]
  /\ employee' = [employee EXCEPT ![a] = e]
  /\ starts' = [starts EXCEPT ![a] = s]
  /\ travelBefore' = [travelBefore EXCEPT ![a] = Before]
  /\ travelAfter' = [travelAfter EXCEPT ![a] = After]
  /\ Confirms(st)
  /\ UNCHANGED <<moving, requestVars, serial, historyVars>>

\* update_appointment: the reserved travel and reschedule_pending stay.
Update(a, e, s, st) ==
  /\ Edit
  /\ status[a] # "absent" /\ request[a] # "move"
  /\ st = "confirmed" => ~Excluded(a, e, s, travelBefore[a], travelAfter[a])
  /\ status' = [status EXCEPT ![a] = st]
  /\ employee' = [employee EXCEPT ![a] = e]
  /\ starts' = [starts EXCEPT ![a] = s]
  /\ serial' = (serial /\ (st = "confirmed" => a \in Calls))
  /\ Confirms(st)
  /\ UNCHANGED <<moving, travelBefore, travelAfter, requestVars, historyVars>>

\* _mark_reschedule_pending, for the appointments of D: their slots are free.
\* Mutant: the reschedule becomes a status of its own.
MarkPendingStatus(D) ==
  /\ \A a \in D : request[a] = "idle"
  /\ status' = [a \in Appointments |-> IF a \in D THEN "moving" ELSE status[a]]
  /\ moving' = [a \in Appointments |-> a \in D \/ moving[a]]
  /\ UNCHANGED <<employee, starts, travelBefore, travelAfter, requestVars, fresh, serial>>

MarkPending(D) ==
  /\ \A a \in D : request[a] = "idle"
  /\ status' = [a \in Appointments |-> IF a \in D THEN "pending" ELSE status[a]]
  /\ moving' = [a \in Appointments |-> a \in D \/ moving[a]]
  /\ UNCHANGED <<employee, starts, travelBefore, travelAfter, requestVars, fresh, serial>>

Available(a, s, D) == Offers(a, s, Confirmed \ (D \cup {a})) # {}

\* initiate_admin_reschedule without a preferred start, or with a free one.
Release(a, s) ==
  /\ Edit
  /\ status[a] = "confirmed"
  /\ s \in Slots => Available(a, s, {})
  /\ MarkPending({a})
  /\ UNCHANGED historyVars

\* _find_appointment_conflicts: what meets the plan from the origin, of any
\* technician, by start and id.
Conflicts(a, s) ==
  {b \in Confirmed \ {a} :
     Meets(employee[b], s - BaseLeg(a) - Before, s + Dur[a] + BaseLeg(a) + After, b)}
Sooner(b, c) == starts[b] < starts[c] \/ (starts[b] = starts[c] /\ b < c)
Queues(S) == {D \in SUBSET S : D # {} /\ \A c \in D, b \in S : Sooner(b, c) => b \in D}

\* With force_conflicts: one after the other is displaced until the slot is
\* free; if it never is, everything is rolled back.
Prioritise(a, s) ==
  /\ Edit
  /\ status[a] = "confirmed"
  /\ ~Available(a, s, {})
  /\ \E D \in Queues(Conflicts(a, s)) :
       /\ Available(a, s, D)
       /\ \A C \in Queues(Conflicts(a, s)) : Available(a, s, C) => Cardinality(D) <= Cardinality(C)
       /\ MarkPending(D \cup {a})
       /\ released' = D
  /\ enough' \in {Cardinality(D) : D \in {D \in SUBSET Conflicts(a, s) : Available(a, s, D)}}
  /\ \A D \in SUBSET Conflicts(a, s) : Available(a, s, D) => enough' <= Cardinality(D)

-----------------------------------------------------------------------------
Customer(a) ==
  \/ \E s \in Slots : SearchConfirm(a, s) \/ SearchMove(a, s)
  \/ \E o \in Best(a) : Book(a, o) \/ Refuse(a, o)
  \/ Abort(a)
  \/ Cancel(a)

NoPreference == Close + 1
Office(a) ==
  \/ \E e \in Employees, s \in Slots, st \in Statuses : Create(a, e, s, st) \/ Update(a, e, s, st)
  \/ \E s \in Slots \cup {NoPreference} : Release(a, s)
  \/ \E s \in Slots : Prioritise(a, s)

Next == \E a \in Appointments : Customer(a) \/ Office(a)

Spec == Init /\ [][Next]_vars

-----------------------------------------------------------------------------
(* Properties.                                                             *)

\* A technician is never reserved twice: service and travel of two confirmed
\* appointments do not meet, whoever placed, moved, edited or revived them
\* and however stale the agenda was that they were computed from.
ReservedDisjoint == \A a, b \in Confirmed :
  a # b => ~Meets(employee[a], starts[a] - travelBefore[a], Ends(a) + travelAfter[a], b)

\* From one customer to a later one, not only the next, there is the time to
\* drive, and the first is reached from the origin within the opening hours
\* (_schedule_aware_plan: "Reserve travel from the technician's real adjacent
\* commitments").
TravelFeasible ==
  /\ \A a \in Confirmed \cap Automatic :
       /\ Open + Travel[Origin][Place[a]] <= starts[a]
       /\ Ends(a) + Travel[Origin][Place[a]] <= Close
  /\ \A a, b \in Confirmed \cap Automatic :
       employee[a] = employee[b] /\ Ends(a) <= starts[b] =>
         Ends(a) + Travel[Place[a]][Place[b]] <= starts[b]

\* Neighbours are the only appointments a request looks at.  That is enough,
\* and stays so when appointments in between are cancelled, moved, released
\* or displaced, as long as travel times obey the triangle inequality and no
\* request wrote on the strength of an agenda that had changed.
Triangle == \A p, q, r \in Places : Travel[p][r] <= Travel[p][q] + Travel[q][r]
SerialTravel == Triangle /\ serial => TravelFeasible

\* The search and the exclusion constraint agree: while nothing else is
\* confirmed, no technician who was found free is refused (confirm).
ConfirmStands == \A a \in Appointments :
  request[a] = "confirm" /\ fresh[a] => \A o \in offers[a] : ~Refused(a, o)

\* And a move to a time that was found free is not refused for everybody.
\* _schedule_aware_plan: "Reserve travel from the technician's real adjacent
\* commitments.  [...] Later services start at the previous customer's address."
MoveStands == \A a \in Appointments :
  request[a] = "move" /\ fresh[a] => \E o \in offers[a] : ~Refused(a, o)

\* initiate_admin_reschedule: "release the minimum number of conflicting
\* confirmed appointments required to make one eligible technician available".
FewestDisplaced == Cardinality(released) <= enough
=============================================================================

--------------------------- MODULE BookingProofs ---------------------------
(***************************************************************************)
(* Theorems about Booking for any appointments, technicians, travel times, *)
(* opening hours and bounds.                                               *)
(*                                                                         *)
(* The type invariant comes first.  Reservations are disjoint because the  *)
(* exclusion constraint compares a row with all others on every step that  *)
(* confirms one.  Search and constraint agree because, while a request is  *)
(* fresh, the agenda has only shrunk since it was read.                    *)
(*                                                                         *)
(* TravelFeasible is not inductive: what a request has computed must still *)
(* hold when it writes, and DriveInv adds that for the fresh requests.     *)
(* The heart is DriveFrom and DriveTo: of the other customers the search   *)
(* looks at the nearest only, and because reservations are disjoint and    *)
(* travel obeys the triangle inequality, all the others can be reached.    *)
(***************************************************************************)
EXTENDS Booking, FiniteSetTheorems, WellFoundedInduction, TLAPS

-----------------------------------------------------------------------------
(* A nonempty finite set has an element of greatest value.                 *)

\* The strict subsets of a finite set are well founded, and the values above
\* that of an element are fewer for a greater element.
LEMMA Greatest ==
  ASSUME NEW Q, IsFiniteSet(Q), Q # {}, NEW f, \A q \in Q : f[q] \in Int
  PROVE  \E m \in Q : \A q \in Q : f[q] <= f[m]
<1> DEFINE Above(q) == {r \in Q : f[r] > f[q]}
           T == {Above(q) : q \in Q}
<1>1. IsWellFoundedOn(StrictSubsetOrdering(Q), SUBSET Q)
  BY FS_StrictSubsetOrderingWellFounded, FS_FiniteSubsetsOfFinite
<1>2. T \subseteq SUBSET Q /\ T # {}
  OBVIOUS
<1>3. PICK x \in T : \A y \in T : <<y, x>> \notin StrictSubsetOrdering(Q)
  <2> HIDE DEF T
  <2> QED BY <1>1, <1>2, WFMin
<1>4. PICK m \in Q : x = Above(m)
  BY <1>3
<1>5. ASSUME NEW r \in Q, f[r] > f[m] PROVE FALSE
  <2>1. Above(r) \subseteq Above(m)
    BY <1>5
  <2>2. r \in Above(m) /\ r \notin Above(r)
    BY <1>5
  <2>3. <<Above(r), Above(m)>> \in StrictSubsetOrdering(Q)
    BY <2>1, <2>2 DEF StrictSubsetOrdering
  <2> QED BY <1>3, <1>4, <2>3
<1> QED BY <1>5

-----------------------------------------------------------------------------
(* Types.                                                                  *)

\* The constants, with the types that the proofs need.
LEMMA Constants ==
  /\ Slots \subseteq Nat
  /\ Origin \in Places
  /\ \A a \in Appointments : Dur[a] \in Nat /\ Dur[a] > 0
  /\ \A a \in Automatic : a \in Appointments /\ Place[a] \in Places /\ Place[a] # Nowhere
  /\ \A a \in Appointments : a \notin Calls => a \in Automatic
  /\ \A a \in Calls : a \in Appointments /\ Place[a] = Nowhere
  /\ \A p, q \in Places : Travel[p][q] \in Nat
  /\ Before \in Nat /\ After \in Nat /\ Open \in Nat /\ Close \in Nat
  BY BookingAssumption DEF Slots, Automatic

\* A travel time from or to the origin.
LEMMA BaseTyped ==
  ASSUME NEW a \in Appointments
  PROVE  BaseLeg(a) \in Nat
  BY Constants DEF BaseLeg, Automatic

\* The rows of the agenda, as the proofs use them.
Agenda ==
  /\ status \in [Appointments -> Statuses \cup {"absent"}]
  /\ moving \in [Appointments -> BOOLEAN]
  /\ employee \in [Appointments -> Nat]
  /\ starts \in [Appointments -> Nat]
  /\ travelBefore \in [Appointments -> Nat]
  /\ travelAfter \in [Appointments -> Nat]

\* The requests in progress.
Requests ==
  /\ request \in [Appointments -> {"idle", "confirm", "move"}]
  /\ target \in [Appointments -> Nat]
  /\ offers \in [Appointments -> SUBSET [emp : Employees, before : Nat, after : Nat]]
  /\ fresh \in [Appointments -> BOOLEAN]

\* The history and the bound on edits.
History ==
  /\ serial \in BOOLEAN
  /\ released \subseteq Appointments /\ enough \in Nat
  /\ edits \in 0 .. MaxEdits

\* The end of an appointment is a natural number.
LEMMA EndsTyped ==
  ASSUME Agenda, NEW b \in Appointments
  PROVE  Ends(b) \in Nat /\ starts[b] \in Nat /\ Ends(b) = starts[b] + Dur[b]
  BY Constants DEF Agenda, Ends

\* An earlier appointment of a technician means that there is a nearest one.
LEMMA PreviousExists ==
  ASSUME Agenda, NEW a, NEW e, NEW s \in Nat, NEW B \in SUBSET Appointments,
         NEW q \in B, employee[q] = e, Ends(q) <= s
  PROVE  Previous(a, e, s, B) # {}
<1> DEFINE Q == {p \in B : employee[p] = e /\ Ends(p) <= s}
           f == [p \in Q |-> Ends(p)]
<1>1. IsFiniteSet(Q)
  BY FS_Subset, BookingAssumption
<1>2. Q # {} /\ \A p \in Q : f[p] \in Int
  BY EndsTyped
<1>3. PICK m \in Q : \A p \in Q : f[p] <= f[m]
  <2> HIDE DEF Q, f
  <2> QED BY <1>1, <1>2, Greatest
<1> QED BY <1>3 DEF Previous

\* And a later one that there is a next one.
LEMMA FollowingExists ==
  ASSUME Agenda, NEW a \in Appointments, NEW e, NEW s \in Nat, NEW B \in SUBSET Appointments,
         NEW q \in B, employee[q] = e, s + Dur[a] <= starts[q]
  PROVE  Following(a, e, s, B) # {}
<1> DEFINE Q == {p \in B : employee[p] = e /\ s + Dur[a] <= starts[p]}
           f == [p \in Q |-> 0 - starts[p]]
<1>1. IsFiniteSet(Q)
  BY FS_Subset, BookingAssumption
<1>2. Q # {} /\ \A p \in Q : f[p] \in Int
  BY EndsTyped
<1>3. PICK m \in Q : \A p \in Q : f[p] <= f[m]
  <2> HIDE DEF Q, f
  <2> QED BY <1>1, <1>2, Greatest
<1>4. \A p \in Q : starts[m] <= starts[p]
  <2> TAKE p \in Q
  <2>1. f[p] = 0 - starts[p] /\ f[m] = 0 - starts[m]
    OBVIOUS
  <2>2. starts[p] \in Nat /\ starts[m] \in Nat
    BY EndsTyped
  <2>3. f[p] <= f[m]
    BY <1>3
  <2> HIDE DEF f, Q
  <2> QED BY <2>1, <2>2, <2>3
<1> QED BY <1>4 DEF Following

\* The way from the previous customer and to the next one has a length.
LEMMA LegsTyped ==
  ASSUME Agenda, NEW a \in Appointments, NEW e, NEW s \in Nat, NEW B \in SUBSET Appointments,
         Reachable(a, e, s, B)
  PROVE  LegBefore(a, e, s, B) \in Nat /\ LegAfter(a, e, s, B) \in Nat
<1>1. LegBefore(a, e, s, B) \in Nat
  <2>1. CASE Place[a] = Nowhere \/ Previous(a, e, s, B) = {}
    BY <2>1, BaseTyped DEF LegBefore
  <2>2. CASE ~(Place[a] = Nowhere \/ Previous(a, e, s, B) = {})
    <3> DEFINE p == CHOOSE p \in Previous(a, e, s, B) : TRUE
    <3>1. p \in Previous(a, e, s, B)
      BY <2>2
    <3> HIDE DEF p
    <3>2. p \in Appointments /\ Place[p] # Nowhere
      BY <2>2, <3>1 DEF Reachable, Previous
    <3>3. Place[p] \in Places /\ Place[a] \in Places
      BY <2>2, <3>2, BookingAssumption
    <3> QED BY <2>2, <3>3, Constants DEF LegBefore, p
  <2> QED BY <2>1, <2>2
<1>2. LegAfter(a, e, s, B) \in Nat
  <2>1. CASE Place[a] = Nowhere \/ Following(a, e, s, B) = {}
    BY <2>1 DEF LegAfter
  <2>2. CASE ~(Place[a] = Nowhere \/ Following(a, e, s, B) = {})
    <3> DEFINE p == CHOOSE p \in Following(a, e, s, B) : TRUE
    <3>1. p \in Following(a, e, s, B)
      BY <2>2
    <3> HIDE DEF p
    <3>2. p \in Appointments /\ Place[p] # Nowhere
      BY <2>2, <3>1 DEF Reachable, Following
    <3>3. Place[p] \in Places /\ Place[a] \in Places
      BY <2>2, <3>2, BookingAssumption
    <3> QED BY <2>2, <3>3, Constants DEF LegAfter, p
  <2> QED BY <2>1, <2>2
<1> QED BY <1>1, <1>2

\* What a technician could offer has the type of an offer.
LEMMA OffersTyped ==
  ASSUME Agenda, NEW a \in Appointments, NEW s \in Nat, NEW B \in SUBSET Appointments
  PROVE  Offers(a, s, B) \subseteq [emp : Employees, before : Nat, after : Nat]
<1> SUFFICES ASSUME NEW e \in Employees, Reachable(a, e, s, B)
             PROVE  Candidate(a, e, s, B) \in [emp : Employees, before : Nat, after : Nat]
  BY DEF Offers
<1> QED BY LegsTyped, Constants DEF Candidate

\* What is written has the type of a reservation.
LEMMA WrittenTyped ==
  ASSUME Requests, NEW a \in Appointments, NEW o \in Best(a)
  PROVE  /\ o \in offers[a]
         /\ Written(a, o).emp = o.emp /\ o.emp \in Nat
         /\ Written(a, o).before \in Nat /\ Written(a, o).after \in Nat
<1>1. o \in offers[a] /\ o \in [emp : Employees, before : Nat, after : Nat]
  BY DEF Best, Requests
<1>2. CASE request[a] = "confirm"
  BY <1>1, <1>2, BookingAssumption DEF Written
<1>3. CASE request[a] # "confirm"
  <2>1. Written(a, o) = [o EXCEPT !.before = BaseLeg(a) + Before, !.after = BaseLeg(a) + After]
    BY <1>3 DEF Written
  <2>2. BaseLeg(a) + Before \in Nat /\ BaseLeg(a) + After \in Nat
    BY BaseTyped, Constants
  <2> QED BY <1>1, <2>1, <2>2, BookingAssumption
<1> QED BY <1>2, <1>3

\* The agenda is well typed at the start.
LEMMA AgendaInit == Init => Agenda
  BY DEF Init, Agenda

\* Every step keeps the types of the rows.
LEMMA AgendaStep ==
  ASSUME Agenda, Requests, [Next]_vars
  PROVE  Agenda'
<1>1. ASSUME NEW a \in Appointments, NEW s \in Slots, SearchConfirm(a, s) \/ SearchMove(a, s)
      PROVE  Agenda'
  BY <1>1 DEF SearchConfirm, SearchMove, rowVars, Agenda
<1>2. ASSUME NEW a \in Appointments, NEW o \in Best(a), Book(a, o)
      PROVE  Agenda'
  <2>1. target[a] \in Nat
    BY DEF Requests
  <2> QED BY <1>2, <2>1, WrittenTyped DEF Book, Agenda, Statuses
<1>3. ASSUME NEW a \in Appointments, NEW o \in Best(a), Refuse(a, o)
      PROVE  Agenda'
  BY <1>3 DEF Refuse, rowVars, Agenda
<1>4. ASSUME NEW a \in Appointments, Abort(a)
      PROVE  Agenda'
  BY <1>4 DEF Abort, rowVars, Agenda
<1>5. ASSUME NEW a \in Appointments, Cancel(a)
      PROVE  Agenda'
  BY <1>5 DEF Cancel, Agenda, Statuses
<1>6. ASSUME NEW a \in Appointments, NEW e \in Employees, NEW s \in Slots, NEW st \in Statuses,
             Create(a, e, s, st) \/ Update(a, e, s, st)
      PROVE  Agenda'
  <2>1. e \in Nat /\ s \in Nat
    BY Constants, BookingAssumption
  <2> QED BY <1>6, <2>1, Constants DEF Create, Update, Agenda, Statuses
<1>7. ASSUME NEW a \in Appointments, NEW s, Release(a, s)
      PROVE  Agenda'
  BY <1>7 DEF Release, MarkPending, Agenda, Statuses
<1>8. ASSUME NEW a \in Appointments, NEW s, Prioritise(a, s)
      PROVE  Agenda'
  <2>1. PICK D : MarkPending(D \cup {a})
    BY <1>8 DEF Prioritise
  <2> QED BY <2>1 DEF MarkPending, Agenda, Statuses
<1>9. CASE UNCHANGED vars
  BY <1>9 DEF vars, rowVars, Agenda
<1> QED BY <1>1, <1>2, <1>3, <1>4, <1>5, <1>6, <1>7, <1>8, <1>9 DEF Next, Customer, Office

\* The requests are well typed at the start.
LEMMA RequestsInit == Init => Requests
  BY DEF Init, Requests

\* Every step keeps the types of the requests in progress.
LEMMA RequestsStep ==
  ASSUME Agenda, Requests, [Next]_vars
  PROVE  Requests'
<1>1. ASSUME NEW a \in Appointments, NEW s \in Slots, SearchConfirm(a, s) \/ SearchMove(a, s)
      PROVE  Requests'
  <2>1. PICK B \in SUBSET Appointments : Searches(a, s, B)
    BY <1>1 DEF SearchConfirm, SearchMove, Confirmed
  <2>2. s \in Nat
    BY Constants
  <2>3. Offers(a, s, B) \subseteq [emp : Employees, before : Nat, after : Nat]
    BY <2>2, OffersTyped
  <2>4. request' \in [Appointments -> {"idle", "confirm", "move"}]
    BY <1>1 DEF SearchConfirm, SearchMove, Requests
  <2> QED BY <2>1, <2>2, <2>3, <2>4 DEF Searches, Requests
<1>2. ASSUME NEW a \in Appointments, NEW o \in Best(a), Book(a, o)
      PROVE  Requests'
  BY <1>2 DEF Book, Leave, Requests
<1>3. ASSUME NEW a \in Appointments, NEW o \in Best(a), Refuse(a, o)
      PROVE  Requests'
  <2>1. CASE offers[a] = {o}
    <3>1. GivesUp(a)
      BY <1>3, <2>1 DEF Refuse
    <3> QED BY <3>1 DEF GivesUp, Leave, Requests
  <2>2. CASE offers[a] # {o}
    <3>1. offers' = [offers EXCEPT ![a] = offers[a] \ {o}]
      BY <1>3, <2>2 DEF Refuse
    <3>2. offers' \in [Appointments -> SUBSET [emp : Employees, before : Nat, after : Nat]]
      <4> DEFINE Offer == [emp : Employees, before : Nat, after : Nat]
      <4>1. offers \in [Appointments -> SUBSET Offer]
        BY DEF Requests
      <4> HIDE DEF Offer
      <4>2. offers' \in [Appointments -> SUBSET Offer]
        BY <3>1, <4>1
      <4> QED BY <4>2 DEF Offer
    <3>3. UNCHANGED <<request, target, fresh>>
      BY <1>3, <2>2 DEF Refuse
    <3> QED BY <3>2, <3>3 DEF Requests
  <2> QED BY <2>1, <2>2
<1>4. ASSUME NEW a \in Appointments, Abort(a)
      PROVE  Requests'
  BY <1>4 DEF Abort, GivesUp, Leave, Requests
<1>5. ASSUME NEW a \in Appointments, Cancel(a)
      PROVE  Requests'
  BY <1>5 DEF Cancel, requestVars, Requests
<1>6. ASSUME NEW a \in Appointments, NEW e \in Employees, NEW s \in Slots, NEW st \in Statuses,
             Create(a, e, s, st) \/ Update(a, e, s, st)
      PROVE  Requests'
  BY <1>6 DEF Create, Update, Confirms, requestVars, Requests
<1>7. ASSUME NEW a \in Appointments, NEW s, Release(a, s)
      PROVE  Requests'
  BY <1>7 DEF Release, MarkPending, requestVars, Requests
<1>8. ASSUME NEW a \in Appointments, NEW s, Prioritise(a, s)
      PROVE  Requests'
  <2>1. PICK D : MarkPending(D \cup {a})
    BY <1>8 DEF Prioritise
  <2> QED BY <2>1 DEF MarkPending, requestVars, Requests
<1>9. CASE UNCHANGED vars
  BY <1>9 DEF vars, requestVars, Requests
<1> QED BY <1>1, <1>2, <1>3, <1>4, <1>5, <1>6, <1>7, <1>8, <1>9 DEF Next, Customer, Office

\* The history and the bound are well typed at the start.
LEMMA HistoryInit == Init => History
  BY BookingAssumption DEF Init, History

\* Every step keeps the types of the history and respects the bound.
LEMMA HistoryStep ==
  ASSUME Agenda, Requests, History, [Next]_vars
  PROVE  History'
<1> USE DEF History
<1>1. ASSUME NEW a \in Appointments, NEW s \in Slots, SearchConfirm(a, s) \/ SearchMove(a, s)
      PROVE  History'
  BY <1>1 DEF SearchConfirm, SearchMove, historyVars
<1>2. ASSUME NEW a \in Appointments, NEW o \in Best(a), Book(a, o)
      PROVE  History'
  BY <1>2 DEF Book, historyVars, Requests
<1>3. ASSUME NEW a \in Appointments, NEW o \in Best(a), Refuse(a, o)
      PROVE  History'
  BY <1>3 DEF Refuse, historyVars
<1>4. ASSUME NEW a \in Appointments, Abort(a)
      PROVE  History'
  BY <1>4 DEF Abort, historyVars
<1>5. ASSUME NEW a \in Appointments, Cancel(a)
      PROVE  History'
  BY <1>5 DEF Cancel, historyVars
<1>6. ASSUME NEW a \in Appointments, NEW e \in Employees, NEW s \in Slots, NEW st \in Statuses,
             Create(a, e, s, st) \/ Update(a, e, s, st)
      PROVE  History'
  <2>1. serial' \in BOOLEAN
    BY <1>6 DEF Create, Update
  <2>2. edits' \in 0 .. MaxEdits
    BY <1>6, BookingAssumption DEF Create, Update, Edit
  <2>3. UNCHANGED historyVars
    BY <1>6 DEF Create, Update
  <2> QED BY <2>1, <2>2, <2>3 DEF historyVars
<1>7. ASSUME NEW a \in Appointments, NEW s, Release(a, s)
      PROVE  History'
  BY <1>7, BookingAssumption DEF Release, MarkPending, Edit, historyVars
<1>8. ASSUME NEW a \in Appointments, NEW s, Prioritise(a, s)
      PROVE  History'
  <2>1. PICK D \in SUBSET Conflicts(a, s) : MarkPending(D \cup {a}) /\ released' = D
    BY <1>8 DEF Prioritise, Queues
  <2>2. PICK C \in SUBSET Conflicts(a, s) : enough' = Cardinality(C)
    BY <1>8 DEF Prioritise
  <2>3. Conflicts(a, s) \subseteq Appointments
    BY DEF Conflicts, Confirmed
  <2>4. enough' \in Nat
    BY <2>2, <2>3, BookingAssumption, FS_Subset, FS_CardinalityType
  <2>5. edits' \in 0 .. MaxEdits
    BY <1>8, BookingAssumption DEF Prioritise, Edit
  <2> QED BY <2>1, <2>3, <2>4, <2>5 DEF MarkPending
<1>9. CASE UNCHANGED vars
  BY <1>9 DEF vars, historyVars
<1> QED BY <1>1, <1>2, <1>3, <1>4, <1>5, <1>6, <1>7, <1>8, <1>9 DEF Next, Customer, Office

\* The type invariant is the conjunction of the three parts.
LEMMA TypeParts == TypeOK <=> Agenda /\ Requests /\ History
  BY DEF TypeOK, Agenda, Requests, History

\* Type correctness of the agenda and of the requests in progress.
THEOREM BookingTyped == Spec => []TypeOK
<1>1. Init => TypeOK
  BY AgendaInit, RequestsInit, HistoryInit, TypeParts
<1>2. TypeOK /\ [Next]_vars => TypeOK'
  <2> SUFFICES ASSUME TypeOK, [Next]_vars PROVE Agenda' /\ Requests' /\ History'
    BY DEF TypeOK, Agenda, Requests, History
  <2> QED BY TypeParts, AgendaStep, RequestsStep, HistoryStep
<1> QED BY <1>1, <1>2, PTL DEF Spec

-----------------------------------------------------------------------------
(* Steps that change the agenda.                                           *)

\* The row of b is as it was.
SameRow(b) ==
  /\ employee'[b] = employee[b] /\ starts'[b] = starts[b]
  /\ travelBefore'[b] = travelBefore[b] /\ travelAfter'[b] = travelAfter[b]

\* Nothing new is confirmed and what is confirmed stays as it was.
Shrinks ==
  /\ Confirmed' \subseteq Confirmed
  /\ \A b \in Confirmed' : SameRow(b)

\* The row of a may be confirmed, all the others stay as they were.
WritesRow(a) ==
  /\ Confirmed' \subseteq Confirmed \cup {a}
  /\ \A b \in Appointments \ {a} : SameRow(b)
  /\ a \in Confirmed' =>
       ~Excluded(a, employee'[a], starts'[a], travelBefore'[a], travelAfter'[a])

\* Every step only releases appointments, or writes one row.
LEMMA Writes ==
  ASSUME Agenda, Requests, [Next]_vars
  PROVE  \/ Shrinks
         \/ \E a \in Appointments : \E o \in Best(a) : Book(a, o) /\ WritesRow(a)
         \/ \E a \in Appointments, e \in Employees, s \in Slots :
              /\ Create(a, e, s, "confirmed") \/ Update(a, e, s, "confirmed")
              /\ WritesRow(a)
<1> USE DEF SameRow
<1>1. ASSUME NEW a \in Appointments, NEW s \in Slots, SearchConfirm(a, s) \/ SearchMove(a, s)
      PROVE  Shrinks
  BY <1>1 DEF SearchConfirm, SearchMove, rowVars, Shrinks, Confirmed
<1>2. ASSUME NEW a \in Appointments, NEW o \in Best(a), Book(a, o)
      PROVE  WritesRow(a)
  <2>1. \A b \in Appointments \ {a} : SameRow(b)
    BY <1>2 DEF Book, Agenda
  <2>2. Confirmed' \subseteq Confirmed \cup {a}
    BY <1>2 DEF Book, Agenda, Confirmed
  <2>3. /\ employee'[a] = Written(a, o).emp /\ starts'[a] = target[a]
        /\ travelBefore'[a] = Written(a, o).before /\ travelAfter'[a] = Written(a, o).after
    BY <1>2 DEF Book, Agenda
  <2>4. ~Excluded(a, employee'[a], starts'[a], travelBefore'[a], travelAfter'[a])
    BY <1>2, <2>3 DEF Book, Refused
  <2> QED BY <2>1, <2>2, <2>4 DEF WritesRow
<1>3. ASSUME NEW a \in Appointments, NEW o \in Best(a), Refuse(a, o)
      PROVE  Shrinks
  BY <1>3 DEF Refuse, rowVars, Shrinks, Confirmed
<1>4. ASSUME NEW a \in Appointments, Abort(a)
      PROVE  Shrinks
  BY <1>4 DEF Abort, rowVars, Shrinks, Confirmed
<1>5. ASSUME NEW a \in Appointments, Cancel(a)
      PROVE  Shrinks
  BY <1>5 DEF Cancel, Shrinks, Confirmed, Agenda
<1>6. ASSUME NEW a \in Appointments, NEW e \in Employees, NEW s \in Slots, NEW st \in Statuses,
             Create(a, e, s, st) \/ Update(a, e, s, st)
      PROVE  IF st = "confirmed" THEN WritesRow(a) ELSE Shrinks
  <2>1. \A b \in Appointments \ {a} : SameRow(b)
    BY <1>6 DEF Create, Update, Agenda
  <2>2. \A b \in Appointments \ {a} : status'[b] = status[b]
    BY <1>6 DEF Create, Update, Agenda
  <2>3. status'[a] = st
    BY <1>6 DEF Create, Update, Agenda
  <2>4. CASE st = "confirmed"
    <3>1. Confirmed' \subseteq Confirmed \cup {a}
      BY <2>2 DEF Confirmed
    <3>2. employee'[a] = e /\ starts'[a] = s
      BY <1>6 DEF Create, Update, Agenda
    <3>3. CASE Create(a, e, s, st)
      <4>1. travelBefore'[a] = Before /\ travelAfter'[a] = After
        BY <3>3 DEF Create, Agenda
      <4>2. ~Excluded(a, e, s, Before, After)
        BY <2>4, <3>3 DEF Create
      <4> QED BY <2>1, <2>4, <3>1, <3>2, <4>1, <4>2 DEF WritesRow
    <3>4. CASE Update(a, e, s, st)
      <4>1. travelBefore' = travelBefore /\ travelAfter' = travelAfter
        BY <3>4 DEF Update
      <4>2. ~Excluded(a, e, s, travelBefore[a], travelAfter[a])
        BY <2>4, <3>4 DEF Update
      <4> QED BY <2>1, <2>4, <3>1, <3>2, <4>1, <4>2 DEF WritesRow
    <3> QED BY <1>6, <3>3, <3>4
  <2>5. CASE st # "confirmed"
    BY <2>1, <2>2, <2>3, <2>5 DEF Shrinks, Confirmed
  <2> QED BY <2>4, <2>5
<1>7. ASSUME NEW a \in Appointments, NEW s, Release(a, s)
      PROVE  Shrinks
  BY <1>7 DEF Release, MarkPending, Shrinks, Confirmed, Agenda
<1>8. ASSUME NEW a \in Appointments, NEW s, Prioritise(a, s)
      PROVE  Shrinks
  <2>1. PICK D : MarkPending(D \cup {a})
    BY <1>8 DEF Prioritise
  <2> QED BY <2>1 DEF MarkPending, Shrinks, Confirmed, Agenda
<1>9. CASE UNCHANGED vars
  BY <1>9 DEF vars, rowVars, Shrinks, Confirmed
<1> QED
  BY <1>1, <1>2, <1>3, <1>4, <1>5, <1>6, <1>7, <1>8, <1>9 DEF Next, Customer, Office

-----------------------------------------------------------------------------
(* Disjoint reservations.                                                  *)

\* Two reservations do not meet.
Apart(a, b) == ~Meets(employee[a], starts[a] - travelBefore[a], Ends(a) + travelAfter[a], b)

\* One of the two ends, travel included, before the other begins.
LEMMA ApartMeans ==
  ASSUME Agenda, NEW a \in Appointments, NEW b \in Appointments
  PROVE  Apart(a, b) <=>
           (employee[a] = employee[b] =>
              \/ Ends(b) + travelAfter[b] <= starts[a] - travelBefore[a]
              \/ Ends(a) + travelAfter[a] <= starts[b] - travelBefore[b])
<1>1. /\ travelBefore[a] \in Nat /\ travelAfter[a] \in Nat
      /\ travelBefore[b] \in Nat /\ travelAfter[b] \in Nat
  BY DEF Agenda
<1> QED BY <1>1, EndsTyped DEF Apart, Meets

\* Every step keeps reservations disjoint: the row it writes was compared with
\* all confirmed ones.
LEMMA DisjointStep ==
  ASSUME Agenda, Agenda', Requests, ReservedDisjoint, [Next]_vars
  PROVE  ReservedDisjoint'
<1> SUFFICES ASSUME NEW x \in Confirmed', NEW y \in Confirmed', x # y
             PROVE  Apart(x, y)'
  BY DEF ReservedDisjoint, Apart
<1> x \in Appointments /\ y \in Appointments
  BY DEF Confirmed
<1>1. \A u, v \in Confirmed : u # v => Apart(u, v)
  BY DEF ReservedDisjoint, Apart
<1>2. ASSUME x \in Confirmed, y \in Confirmed, SameRow(x), SameRow(y)
      PROVE  Apart(x, y)'
  <2>1. Ends(x)' = Ends(x) /\ Ends(y)' = Ends(y)
    BY <1>2 DEF SameRow, Ends
  <2> QED BY <1>1, <1>2, <2>1 DEF Apart, Meets, SameRow
<1>3. CASE Shrinks
  BY <1>2, <1>3 DEF Shrinks
<1>4. ASSUME NEW a \in Appointments, WritesRow(a)
      PROVE  Apart(x, y)'
  <2>1. CASE x # a /\ y # a
    BY <1>2, <1>4, <2>1 DEF WritesRow
  <2>2. ASSUME NEW b \in Confirmed', b # a, a \in Confirmed'
        PROVE  Apart(a, b)'
    <3>1. b \in Confirmed /\ b \in Appointments /\ SameRow(b)
      BY <1>4, <2>2 DEF WritesRow, Confirmed
    <3>2. ~Meets(employee'[a], starts'[a] - travelBefore'[a],
                 starts'[a] + Dur[a] + travelAfter'[a], b)
      BY <1>4, <2>2, <3>1 DEF WritesRow, Excluded
    <3>3. Ends(b)' = Ends(b) /\ Ends(a)' = starts'[a] + Dur[a]
      BY <3>1 DEF SameRow, Ends
    <3> QED BY <3>1, <3>2, <3>3 DEF Apart, Meets, SameRow
  <2>3. CASE x = a
    BY <2>2, <2>3
  <2>4. CASE y = a
    <3>1. Apart(y, x)'
      BY <2>2, <2>4
    <3>2. /\ Ends(x)' = starts'[x] + Dur[x] /\ Ends(y)' = starts'[y] + Dur[y]
          /\ starts'[x] \in Nat /\ travelBefore'[x] \in Nat /\ travelAfter'[x] \in Nat
          /\ starts'[y] \in Nat /\ travelBefore'[y] \in Nat /\ travelAfter'[y] \in Nat
          /\ Dur[x] \in Nat /\ Dur[y] \in Nat
      BY Constants DEF Ends, Agenda
    <3> QED BY <3>1, <3>2 DEF Apart, Meets
  <2> QED BY <2>1, <2>3, <2>4
<1> QED BY <1>3, <1>4, Writes

\* No technician is reserved twice, whatever the order in which customers and
\* the office read and write the agenda.
THEOREM ReservationsDisjoint == Spec => []ReservedDisjoint
<1>1. Init => ReservedDisjoint
  BY DEF Init, ReservedDisjoint, Confirmed
<1>2. TypeOK /\ TypeOK' /\ ReservedDisjoint /\ [Next]_vars => ReservedDisjoint'
  BY DisjointStep DEF TypeOK, Agenda, Requests
<1> QED BY <1>1, <1>2, BookingTyped, PTL DEF Spec

-----------------------------------------------------------------------------
(* Requests in progress, and what they rest on.                            *)

\* No request finds anything new, and one that goes on is what it was.
Keeps ==
  \A a \in Appointments :
    /\ offers'[a] \subseteq offers[a]
    /\ offers'[a] # {} => target'[a] = target[a] /\ request'[a] = request[a]
    /\ fresh'[a] => fresh[a]

\* Whatever was read before is stale.
Stales == \A a \in Appointments : ~fresh'[a]

\* A customer's request reads the agenda.
Looks(a, s) == SearchConfirm(a, s) \/ SearchMove(a, s)

\* A row is confirmed by its request, or by the office.
Confirming(a) ==
  \/ \E o \in Best(a) : Book(a, o)
  \/ \E e \in Employees, s \in Slots : Create(a, e, s, "confirmed") \/ Update(a, e, s, "confirmed")

\* Every step is a search, releases something, or confirms a row and makes
\* what was read before stale.
LEMMA Moves ==
  ASSUME Agenda, Requests, [Next]_vars
  PROVE  \/ \E a \in Appointments, s \in Slots : Looks(a, s)
         \/ Shrinks /\ Keeps /\ (serial' => serial)
         \/ \E a \in Appointments : Confirming(a) /\ WritesRow(a) /\ Keeps /\ Stales
<1> USE DEF Keeps
<1>1. ASSUME NEW a \in Appointments, NEW s \in Slots, SearchConfirm(a, s) \/ SearchMove(a, s)
      PROVE  Looks(a, s)
  BY <1>1 DEF Looks
<1>2. ASSUME NEW a \in Appointments, NEW o \in Best(a), Book(a, o)
      PROVE  Keeps /\ Stales /\ (serial' => serial)
  BY <1>2 DEF Book, Leave, Stales, Requests
<1>3. ASSUME NEW a \in Appointments, NEW o \in Best(a), Refuse(a, o)
      PROVE  Keeps /\ UNCHANGED serial
  <2>1. CASE offers[a] = {o}
    BY <1>3, <2>1 DEF Refuse, GivesUp, Leave, Requests
  <2>2. CASE offers[a] # {o}
    BY <1>3, <2>2 DEF Refuse, Requests
  <2> QED BY <2>1, <2>2
<1>4. ASSUME NEW a \in Appointments, Abort(a)
      PROVE  Keeps /\ UNCHANGED serial
  BY <1>4 DEF Abort, GivesUp, Leave, Requests
<1>5. ASSUME NEW a \in Appointments, Cancel(a)
      PROVE  Keeps /\ UNCHANGED serial
  BY <1>5 DEF Cancel, requestVars
<1>6. ASSUME NEW a \in Appointments, NEW e \in Employees, NEW s \in Slots, NEW st \in Statuses,
             Create(a, e, s, st) \/ Update(a, e, s, st)
      PROVE  Keeps /\ (serial' => serial) /\ (st = "confirmed" => Stales)
  <2>1. UNCHANGED requestVars /\ Confirms(st)
    BY <1>6 DEF Create, Update
  <2>2. serial' => serial
    BY <1>6 DEF Create, Update
  <2>3. fresh' = fresh \/ fresh' = [b \in Appointments |-> FALSE]
    BY <2>1 DEF Confirms
  <2>4. Keeps
    BY <2>1, <2>3 DEF requestVars
  <2>5. st = "confirmed" => Stales
    BY <2>1 DEF Confirms, Stales
  <2> QED BY <2>2, <2>4, <2>5
<1>7. ASSUME NEW a \in Appointments, NEW s, Release(a, s)
      PROVE  Keeps /\ UNCHANGED serial
  BY <1>7 DEF Release, MarkPending, requestVars
<1>8. ASSUME NEW a \in Appointments, NEW s, Prioritise(a, s)
      PROVE  Keeps /\ UNCHANGED serial
  <2>1. PICK D : MarkPending(D \cup {a})
    BY <1>8 DEF Prioritise
  <2> QED BY <2>1 DEF MarkPending, requestVars
<1>9. ASSUME UNCHANGED vars
      PROVE  Keeps /\ UNCHANGED serial
  BY <1>9 DEF vars, requestVars
<1>10. (\E a \in Appointments, s \in Slots : Looks(a, s)) \/ (Keeps /\ (serial' => serial))
  <2> HIDE DEF Keeps
  <2> QED
    BY <1>1, <1>2, <1>3, <1>4, <1>5, <1>6, <1>7, <1>8, <1>9 DEF Next, Customer, Office
<1>11. ASSUME NEW a \in Appointments, NEW o \in Best(a), Book(a, o), WritesRow(a)
       PROVE  Confirming(a) /\ Keeps /\ Stales
  <2> HIDE DEF Keeps
  <2> QED BY <1>2, <1>11 DEF Confirming
<1>12. ASSUME NEW a \in Appointments, NEW e \in Employees, NEW s \in Slots,
              Create(a, e, s, "confirmed") \/ Update(a, e, s, "confirmed"), WritesRow(a)
       PROVE  Confirming(a) /\ Keeps /\ Stales
  <2> HIDE DEF Keeps
  <2> QED BY <1>6, <1>12 DEF Confirming, Statuses
<1> HIDE DEF Keeps
<1> QED BY <1>10, <1>11, <1>12, Writes

-----------------------------------------------------------------------------
(* Search and constraint agree.                                            *)

\* What a request to confirm has been offered would not be refused, because
\* the search has compared it with the agenda, which has only shrunk since.
LEMMA StandsStep ==
  ASSUME Agenda, Requests, ConfirmStands, [Next]_vars
  PROVE  ConfirmStands'
<1> SUFFICES ASSUME NEW x \in Appointments, request'[x] = "confirm", fresh'[x],
                    NEW o \in offers'[x]
             PROVE  ~Refused(x, o)'
  BY DEF ConfirmStands
<1>1. Written(x, o)' = o
  BY DEF Written
<1>2. ASSUME request[x] = "confirm", fresh[x], o \in offers[x], target'[x] = target[x], Shrinks
      PROVE  ~Refused(x, o)'
  <2>1. ~Excluded(x, o.emp, target[x], o.before, o.after)
    BY <1>2 DEF ConfirmStands, Refused, Written
  <2>2. \A b \in Confirmed' : b \in Confirmed /\ SameRow(b) /\ Ends(b)' = Ends(b)
    BY <1>2 DEF Shrinks, SameRow, Ends
  <2>3. ~Excluded(x, o.emp, target[x], o.before, o.after)'
    BY <1>2, <2>1, <2>2 DEF Excluded, Meets, SameRow
  <2> QED BY <1>1, <1>2, <2>3 DEF Refused
<1>3. CASE Shrinks /\ Keeps
  BY <1>2, <1>3 DEF Keeps
<1>4. ASSUME NEW a \in Appointments, NEW s \in Slots, Looks(a, s)
      PROVE  ~Refused(x, o)'
  <2>1. Shrinks
    BY <1>4 DEF Looks, SearchConfirm, SearchMove, rowVars, Shrinks, SameRow, Confirmed
  <2>2. CASE x # a
    <3>1. /\ request'[x] = request[x] /\ fresh'[x] = fresh[x]
          /\ offers'[x] = offers[x] /\ target'[x] = target[x]
      BY <1>4, <2>2 DEF Looks, SearchConfirm, SearchMove, Searches, Requests
    <3> QED BY <1>2, <2>1, <3>1
  <2>3. CASE x = a
    <3>1. SearchConfirm(a, s)
      BY <1>4, <2>3 DEF Looks, SearchMove, Requests
    <3>2. o \in Offers(a, s, Confirmed) /\ target'[a] = s
      BY <2>3, <3>1 DEF SearchConfirm, Searches, Requests
    <3>3. ~HasConflict(a, o, s, Confirmed)
      BY <3>2 DEF Offers
    <3>4. ~Excluded(a, o.emp, s, o.before, o.after)
      BY <3>3 DEF HasConflict, Excluded
    <3>5. UNCHANGED rowVars
      BY <3>1 DEF SearchConfirm
    <3>6. ~Excluded(a, o.emp, s, o.before, o.after)'
      BY <3>4, <3>5 DEF Excluded, Meets, Ends, Confirmed, rowVars
    <3> QED BY <1>1, <2>3, <3>2, <3>6 DEF Refused
  <2> QED BY <2>2, <2>3
<1>5. CASE Stales
  BY <1>5 DEF Stales
<1> QED BY <1>3, <1>4, <1>5, Moves

\* While nothing else is confirmed, no technician who was found free is
\* refused by the exclusion constraint.
THEOREM ConfirmationsStand == Spec => []ConfirmStands
<1>1. Init => ConfirmStands
  BY DEF Init, ConfirmStands
<1>2. TypeOK /\ ConfirmStands /\ [Next]_vars => ConfirmStands'
  BY StandsStep, TypeParts
<1> QED BY <1>1, <1>2, BookingTyped, PTL DEF Spec

-----------------------------------------------------------------------------
(* The day can be driven.                                                  *)

\* A service of a by e from s on leaves the time to drive from and to every
\* other customer of the day, not only its neighbours.
Drivable(a, e, s) ==
  \A b \in (Confirmed \cap Automatic) \ {a} : employee[b] = e =>
    /\ Ends(b) <= s => Ends(b) + Travel[Place[b]][Place[a]] <= s
    /\ s + Dur[a] <= starts[b] => s + Dur[a] + Travel[Place[a]][Place[b]] <= starts[b]

\* And from and to the origin within the opening hours.
InDay(a, s) ==
  /\ Open + Travel[Origin][Place[a]] <= s
  /\ s + Dur[a] + Travel[Origin][Place[a]] <= Close

\* What a request has been offered can be driven as long as it is fresh.
OffersDrivable ==
  \A a \in Automatic : \A o \in offers[a] :
    /\ InDay(a, target[a])
    /\ serial /\ fresh[a] => Drivable(a, o.emp, target[a])

\* The inductive invariant behind SerialTravel.
DriveInv == (serial => TravelFeasible) /\ OffersDrivable

\* The nearest earlier customer is looked at, and from the earlier ones the
\* way to the new one is no longer than by way of the nearest.
LEMMA DriveFrom ==
  ASSUME Agenda, Triangle, TravelFeasible, ReservedDisjoint,
         NEW a \in Automatic, NEW e, NEW s \in Nat, Reachable(a, e, s, Confirmed \ {a}),
         ~HasConflict(a, Candidate(a, e, s, Confirmed \ {a}), s, Confirmed \ {a}),
         LegAfter(a, e, s, Confirmed \ {a}) \in Nat,
         NEW b \in (Confirmed \cap Automatic) \ {a}, employee[b] = e, Ends(b) <= s
  PROVE  Ends(b) + Travel[Place[b]][Place[a]] <= s
<1> DEFINE B == Confirmed \ {a}
           p == CHOOSE p \in Previous(a, e, s, B) : TRUE
<1>1. B \subseteq Appointments /\ b \in B
  BY DEF Confirmed
<1>2. Previous(a, e, s, B) # {}
  BY <1>1, PreviousExists
<1>3. p \in Previous(a, e, s, B)
  BY <1>2
<1>4. LegBefore(a, e, s, B) = Travel[Place[p]][Place[a]]
  BY <1>2, Constants DEF LegBefore
<1>5. HasConflict(a, Candidate(a, e, s, B), s, B) = FALSE /\ Reachable(a, e, s, B)
  BY DEF HasConflict
<1> HIDE DEF p
<1>6. p \in Confirmed /\ p # a /\ p \in Automatic /\ employee[p] = e
  BY <1>1, <1>3, <1>5, Constants DEF Previous, Reachable, Confirmed
<1>7. Ends(p) <= s /\ Ends(b) <= Ends(p)
  BY <1>1, <1>3 DEF Previous
<1>8. /\ a \in Appointments /\ b \in Appointments /\ p \in Appointments
      /\ Place[a] \in Places /\ Place[b] \in Places /\ Place[p] \in Places
  BY <1>6, Constants
<1> DEFINE ba == Travel[Place[b]][Place[a]]
           bp == Travel[Place[b]][Place[p]]
           pa == Travel[Place[p]][Place[a]]
<1>9. ba \in Nat /\ bp \in Nat /\ pa \in Nat /\ ba <= bp + pa
  BY <1>8, Constants DEF Triangle
<1>10. /\ Ends(p) \in Nat /\ starts[p] \in Nat /\ Ends(p) = starts[p] + Dur[p] /\ Dur[p] \in Nat
       /\ Ends(b) \in Nat /\ starts[b] \in Nat /\ Ends(b) = starts[b] + Dur[b] /\ Dur[b] \in Nat
       /\ Dur[p] > 0 /\ Dur[b] > 0 /\ Dur[a] \in Nat
  BY <1>8, EndsTyped, Constants
<1>11. /\ travelBefore[p] \in Nat /\ travelAfter[p] \in Nat
       /\ travelBefore[b] \in Nat /\ travelAfter[b] \in Nat /\ Before \in Nat /\ After \in Nat
  BY <1>8, Constants DEF Agenda
<1>12. ~Meets(e, s - (pa + Before), s + Dur[a] + (LegAfter(a, e, s, B) + After), p)
  BY <1>1, <1>4, <1>5, <1>6 DEF HasConflict, Candidate
<1>13. Ends(p) + pa <= s
  <2> DEFINE la == LegAfter(a, e, s, B)
  <2>1. la \in Nat
    OBVIOUS
  <2> HIDE DEF pa, la
  <2>2. \/ s - (pa + Before) >= Ends(p) + travelAfter[p]
        \/ starts[p] - travelBefore[p] >= s + Dur[a] + (la + After)
    BY <1>6, <1>9, <1>10, <1>11, <1>12, <2>1 DEF Meets, la
  <2> HIDE DEF B
  <2> QED BY <1>7, <1>9, <1>10, <1>11, <2>1, <2>2
<1>14. CASE b = p
  BY <1>13, <1>14
<1>15. CASE b # p
  <2>1. Apart(b, p)
    BY <1>6, <1>15 DEF ReservedDisjoint, Apart
  <2>2. \/ Ends(p) + travelAfter[p] <= starts[b] - travelBefore[b]
        \/ Ends(b) + travelAfter[b] <= starts[p] - travelBefore[p]
    BY <1>6, <1>8, <2>1, ApartMeans
  <2>3. Ends(b) <= starts[p]
    <3> HIDE DEF B
    <3> QED BY <1>7, <1>10, <1>11, <2>2
  <2>4. Ends(b) + bp <= starts[p]
    BY <1>6, <2>3 DEF TravelFeasible
  <2> HIDE DEF ba, bp, pa, B
  <2>5. Ends(b) + ba <= s
    BY <1>9, <1>10, <1>13, <2>4
  <2> QED BY <2>5 DEF ba
<1> QED BY <1>14, <1>15

\* The same for the next customer and those after.
LEMMA DriveTo ==
  ASSUME Agenda, Triangle, TravelFeasible, ReservedDisjoint,
         NEW a \in Automatic, NEW e, NEW s \in Nat, Reachable(a, e, s, Confirmed \ {a}),
         ~HasConflict(a, Candidate(a, e, s, Confirmed \ {a}), s, Confirmed \ {a}),
         LegBefore(a, e, s, Confirmed \ {a}) \in Nat,
         NEW b \in (Confirmed \cap Automatic) \ {a}, employee[b] = e, s + Dur[a] <= starts[b]
  PROVE  s + Dur[a] + Travel[Place[a]][Place[b]] <= starts[b]
<1> DEFINE B == Confirmed \ {a}
           f == CHOOSE f \in Following(a, e, s, B) : TRUE
<1>1. B \subseteq Appointments /\ b \in B /\ a \in Appointments
  BY Constants DEF Confirmed
<1>2. Following(a, e, s, B) # {}
  BY <1>1, FollowingExists
<1>3. f \in Following(a, e, s, B)
  BY <1>2
<1>4. LegAfter(a, e, s, B) = Travel[Place[a]][Place[f]]
  BY <1>2, Constants DEF LegAfter
<1>5. HasConflict(a, Candidate(a, e, s, B), s, B) = FALSE /\ Reachable(a, e, s, B)
  BY DEF HasConflict
<1> HIDE DEF f
<1>6. f \in Confirmed /\ f # a /\ f \in Automatic /\ employee[f] = e
  BY <1>1, <1>3, <1>5, Constants DEF Following, Reachable, Confirmed
<1>7. s + Dur[a] <= starts[f] /\ starts[f] <= starts[b]
  BY <1>1, <1>3 DEF Following
<1>8. /\ a \in Appointments /\ b \in Appointments /\ f \in Appointments
      /\ Place[a] \in Places /\ Place[b] \in Places /\ Place[f] \in Places
  BY <1>6, Constants
<1> DEFINE ab == Travel[Place[a]][Place[b]]
           af == Travel[Place[a]][Place[f]]
           fb == Travel[Place[f]][Place[b]]
<1>9. ab \in Nat /\ af \in Nat /\ fb \in Nat /\ ab <= af + fb
  BY <1>8, Constants DEF Triangle
<1>10. /\ Ends(f) \in Nat /\ starts[f] \in Nat /\ Ends(f) = starts[f] + Dur[f] /\ Dur[f] \in Nat
       /\ Ends(b) \in Nat /\ starts[b] \in Nat /\ Ends(b) = starts[b] + Dur[b] /\ Dur[b] \in Nat
       /\ Dur[f] > 0 /\ Dur[b] > 0 /\ Dur[a] \in Nat
  BY <1>8, EndsTyped, Constants
<1>11. /\ travelBefore[f] \in Nat /\ travelAfter[f] \in Nat
       /\ travelBefore[b] \in Nat /\ travelAfter[b] \in Nat /\ Before \in Nat /\ After \in Nat
  BY <1>8, Constants DEF Agenda
<1>12. ~Meets(e, s - (LegBefore(a, e, s, B) + Before), s + Dur[a] + (af + After), f)
  BY <1>1, <1>4, <1>5, <1>6 DEF HasConflict, Candidate
<1>13. s + Dur[a] + af <= starts[f]
  <2> DEFINE lb == LegBefore(a, e, s, B)
  <2>1. lb \in Nat
    OBVIOUS
  <2> HIDE DEF af, lb
  <2>2. \/ s - (lb + Before) >= Ends(f) + travelAfter[f]
        \/ starts[f] - travelBefore[f] >= s + Dur[a] + (af + After)
    BY <1>6, <1>9, <1>10, <1>11, <1>12, <2>1 DEF Meets, lb
  <2> HIDE DEF B
  <2> QED BY <1>7, <1>9, <1>10, <1>11, <2>1, <2>2
<1>14. CASE b = f
  BY <1>13, <1>14
<1>15. CASE b # f
  <2>1. Apart(b, f)
    BY <1>6, <1>15 DEF ReservedDisjoint, Apart
  <2>2. \/ Ends(f) + travelAfter[f] <= starts[b] - travelBefore[b]
        \/ Ends(b) + travelAfter[b] <= starts[f] - travelBefore[f]
    BY <1>6, <1>8, <2>1, ApartMeans
  <2>3. Ends(f) <= starts[b]
    <3> HIDE DEF B
    <3> QED BY <1>7, <1>10, <1>11, <2>2
  <2>4. Ends(f) + fb <= starts[b]
    BY <1>6, <2>3 DEF TravelFeasible
  <2> HIDE DEF ab, af, fb, B
  <2>5. s + Dur[a] + ab <= starts[b]
    BY <1>9, <1>10, <1>13, <2>4
  <2> QED BY <2>5 DEF ab
<1> QED BY <1>14, <1>15

\* What the search offers can be driven.
LEMMA SearchDrivable ==
  ASSUME Agenda, NEW a \in Automatic, NEW s \in Nat, NEW o \in Offers(a, s, Confirmed \ {a})
  PROVE  /\ InDay(a, s)
         /\ Triangle /\ TravelFeasible /\ ReservedDisjoint => Drivable(a, o.emp, s)
<1> DEFINE B == Confirmed \ {a}
<1>1. PICK e \in Employees : Reachable(a, e, s, B) /\ o = Candidate(a, e, s, B)
  BY DEF Offers
<1>2. InHours(a, s) /\ ~HasConflict(a, o, s, B)
  BY DEF Offers
<1>3. /\ a \in Appointments /\ Place[a] # Nowhere /\ Place[a] \in Places /\ Origin \in Places
      /\ B \subseteq Appointments
  BY Constants DEF Confirmed
<1>4. o \in [emp : Employees, before : Nat, after : Nat]
  <2> HIDE DEF B
  <2> QED BY <1>3, OffersTyped DEF B
<1>5. InDay(a, s)
  <2>1. BaseLeg(a) = Travel[Origin][Place[a]] /\ BaseLeg(a) \in Nat
    BY <1>3, BaseTyped DEF BaseLeg
  <2>2. Open \in Nat /\ Close \in Nat /\ Before \in Nat /\ After \in Nat /\ Dur[a] \in Nat
    BY <1>3, Constants
  <2> QED BY <1>2, <2>1, <2>2 DEF InHours, InDay
<1>6. o.emp = e
  BY <1>1 DEF Candidate
<1>7. LegBefore(a, e, s, B) \in Nat /\ LegAfter(a, e, s, B) \in Nat
  BY <1>1, <1>3, LegsTyped
<1>8. ASSUME Triangle, TravelFeasible, ReservedDisjoint
      PROVE  Drivable(a, e, s)
  <2>1. ~HasConflict(a, Candidate(a, e, s, B), s, B)
    BY <1>1, <1>2
  <2>2. SUFFICES ASSUME NEW b \in (Confirmed \cap Automatic) \ {a}, employee[b] = e
                 PROVE  /\ Ends(b) <= s => Ends(b) + Travel[Place[b]][Place[a]] <= s
                        /\ s + Dur[a] <= starts[b] =>
                             s + Dur[a] + Travel[Place[a]][Place[b]] <= starts[b]
    BY DEF Drivable
  <2>3. ASSUME Ends(b) <= s PROVE Ends(b) + Travel[Place[b]][Place[a]] <= s
    BY <1>1, <1>7, <1>8, <2>1, <2>2, <2>3, DriveFrom
  <2>4. ASSUME s + Dur[a] <= starts[b]
        PROVE  s + Dur[a] + Travel[Place[a]][Place[b]] <= starts[b]
    BY <1>1, <1>7, <1>8, <2>1, <2>2, <2>4, DriveTo
  <2> QED BY <2>3, <2>4
<1> QED BY <1>5, <1>6, <1>8

\* What a step has left as it was, for a customer who is confirmed after it.
SameCustomers ==
  \A b \in Confirmed' \cap Automatic :
    b \in Confirmed /\ starts'[b] = starts[b] /\ employee'[b] = employee[b] /\ Ends(b)' = Ends(b)

\* Released appointments leave the customers who stay confirmed as they were.
LEMMA CustomersKept ==
  ASSUME Confirmed' \cap Automatic \subseteq Confirmed,
         \A b \in Confirmed' \cap Automatic : SameRow(b)
  PROVE  SameCustomers
  BY DEF SameCustomers, SameRow, Ends

\* A step that confirms no customer and moves none of those that are
\* confirmed leaves the day as drivable as it was.
LEMMA FeasibleKept ==
  ASSUME SameCustomers, TravelFeasible
  PROVE  TravelFeasible'
<1>1. \A a \in Confirmed' \cap Automatic :
        /\ Open + Travel[Origin][Place[a]] <= starts'[a]
        /\ Ends(a)' + Travel[Origin][Place[a]] <= Close
  BY DEF SameCustomers, TravelFeasible
<1>2. \A a, b \in Confirmed' \cap Automatic :
        employee'[a] = employee'[b] /\ Ends(a)' <= starts'[b] =>
          Ends(a)' + Travel[Place[a]][Place[b]] <= starts'[b]
  BY DEF SameCustomers, TravelFeasible
<1> QED BY <1>1, <1>2 DEF TravelFeasible

\* And what was offered before can still be driven.
LEMMA OffersKept ==
  ASSUME SameCustomers, OffersDrivable, serial' => serial,
         NEW x \in Automatic, offers'[x] \subseteq offers[x], fresh'[x] => fresh[x],
         NEW o \in offers'[x], target'[x] = target[x]
  PROVE  /\ InDay(x, target'[x])
         /\ serial' /\ fresh'[x] => Drivable(x, o.emp, target[x])'
<1>1. InDay(x, target'[x])
  BY DEF OffersDrivable
<1>2. ASSUME serial', fresh'[x] PROVE Drivable(x, o.emp, target[x])'
  <2>1. Drivable(x, o.emp, target[x])
    BY <1>2 DEF OffersDrivable
  <2> QED BY <2>1 DEF Drivable, SameCustomers
<1> QED BY <1>1, <1>2

\* A customer who is placed where the day can be driven leaves it so.
LEMMA PlacedDrivable ==
  ASSUME Agenda, Agenda', NEW a \in Automatic, TravelFeasible,
         Confirmed' \subseteq Confirmed \cup {a},
         \A b \in Appointments \ {a} : SameRow(b),
         Drivable(a, employee'[a], starts'[a]), InDay(a, starts'[a])
  PROVE  TravelFeasible'
<1>1. \A b \in (Confirmed' \cap Automatic) \ {a} :
        /\ b \in Confirmed /\ starts'[b] = starts[b] /\ employee'[b] = employee[b]
        /\ Ends(b)' = Ends(b)
  BY DEF SameRow, Ends, Confirmed
<1>2. Ends(a)' = starts'[a] + Dur[a] /\ starts'[a] \in Nat /\ Dur[a] \in Nat /\ Dur[a] > 0
  BY Constants DEF Ends, Agenda
<1>3. ASSUME NEW b \in Confirmed' \cap Automatic
      PROVE  /\ Open + Travel[Origin][Place[b]] <= starts'[b]
             /\ Ends(b)' + Travel[Origin][Place[b]] <= Close
  BY <1>1, <1>2, <1>3 DEF TravelFeasible, InDay
<1>4. ASSUME NEW b \in Confirmed' \cap Automatic, NEW c \in Confirmed' \cap Automatic,
             employee'[b] = employee'[c], Ends(b)' <= starts'[c]
      PROVE  Ends(b)' + Travel[Place[b]][Place[c]] <= starts'[c]
  <2>1. CASE b # a /\ c # a
    BY <1>1, <1>4, <2>1 DEF TravelFeasible
  <2>2. CASE b = a /\ c # a
    BY <1>1, <1>2, <1>4, <2>2 DEF Drivable
  <2>3. CASE b # a /\ c = a
    BY <1>1, <1>2, <1>4, <2>3 DEF Drivable
  <2>4. CASE b = a /\ c = a
    BY <1>2, <1>4, <2>4
  <2> QED BY <2>1, <2>2, <2>3, <2>4
<1> QED BY <1>3, <1>4 DEF TravelFeasible

\* Every step keeps DriveInv, if travel obeys the triangle inequality.
LEMMA DriveStep ==
  ASSUME Agenda, Agenda', Requests, ReservedDisjoint, Triangle, DriveInv, [Next]_vars
  PROVE  DriveInv'
<1>1. ASSUME NEW a \in Appointments, NEW s \in Slots, Looks(a, s)
      PROVE  DriveInv'
  <2>1. UNCHANGED rowVars /\ UNCHANGED serial
    BY <1>1 DEF Looks, SearchConfirm, SearchMove
  <2>2. SameCustomers
    BY <2>1 DEF rowVars, Confirmed, SameCustomers, Ends
  <2>3. Searches(a, s, Confirmed \ {a})
    <3>1. SearchConfirm(a, s) => Confirmed \ {a} = Confirmed
      BY DEF SearchConfirm, Confirmed
    <3> QED BY <1>1, <3>1 DEF Looks, SearchConfirm, SearchMove
  <2>4. ASSUME NEW x \in Automatic, NEW o \in offers'[x]
        PROVE  /\ InDay(x, target'[x])
               /\ serial' /\ fresh'[x] => Drivable(x, o.emp, target[x])'
    <3>1. x \in Appointments
      BY Constants
    <3>2. CASE x # a
      <4>1. offers'[x] = offers[x] /\ target'[x] = target[x] /\ fresh'[x] = fresh[x]
        BY <2>3, <3>1, <3>2 DEF Searches, Requests
      <4> QED BY <2>1, <2>2, <2>4, <4>1, OffersKept DEF DriveInv
    <3>3. CASE x = a
      <4>1. offers'[a] = Offers(a, s, Confirmed \ {a}) /\ target'[a] = s /\ s \in Nat
        BY <2>3, Constants DEF Searches, Requests
      <4>2. InDay(a, s) /\ (TravelFeasible => Drivable(a, o.emp, s))
        BY <2>4, <3>3, <4>1, SearchDrivable
      <4>3. ASSUME serial', fresh'[x] PROVE Drivable(x, o.emp, target[x])'
        <5>1. Drivable(a, o.emp, s)
          BY <2>1, <4>2, <4>3 DEF DriveInv
        <5> QED BY <2>2, <3>3, <4>1, <5>1 DEF Drivable, SameCustomers
      <4> QED BY <3>3, <4>1, <4>2, <4>3
    <3> QED BY <3>2, <3>3
  <2>5. OffersDrivable'
    BY <2>4 DEF OffersDrivable, InDay
  <2> QED BY <2>1, <2>2, <2>5, FeasibleKept DEF DriveInv
<1>2. CASE Shrinks /\ Keeps /\ (serial' => serial)
  <2>1. SameCustomers
    BY <1>2, CustomersKept DEF Shrinks
  <2>2. ASSUME NEW x \in Automatic, NEW o \in offers'[x]
        PROVE  /\ InDay(x, target'[x])
               /\ serial' /\ fresh'[x] => Drivable(x, o.emp, target[x])'
    <3>1. offers'[x] \subseteq offers[x] /\ (fresh'[x] => fresh[x]) /\ target'[x] = target[x]
      BY <1>2, <2>2, Constants DEF Keeps
    <3> QED BY <1>2, <2>1, <2>2, <3>1, OffersKept DEF DriveInv
  <2>3. OffersDrivable'
    BY <2>2 DEF OffersDrivable, InDay
  <2> QED BY <1>2, <2>1, <2>3, FeasibleKept DEF DriveInv
<1>3. ASSUME NEW a \in Appointments, Confirming(a), WritesRow(a), Keeps, Stales
      PROVE  DriveInv'
  <2>1. OffersDrivable'
    BY <1>3, Constants DEF Keeps, Stales, DriveInv, OffersDrivable, InDay
  <2>2. /\ Confirmed' \subseteq Confirmed \cup {a}
        /\ \A b \in Appointments \ {a} : SameRow(b)
    BY <1>3 DEF WritesRow
  <2>3. CASE a \in Calls
    <3>1. /\ Confirmed' \cap Automatic \subseteq Confirmed
          /\ \A b \in Confirmed' \cap Automatic : SameRow(b)
      BY <2>2, <2>3 DEF Automatic, Confirmed
    <3>2. serial' => serial
      BY <1>3 DEF Confirming, Book, Create, Update
    <3> QED BY <2>1, <3>1, <3>2, CustomersKept, FeasibleKept DEF DriveInv
  <2>4. ASSUME a \in Automatic, NEW o \in Best(a), Book(a, o), serial'
        PROVE  TravelFeasible'
    <3>1. serial /\ fresh[a] /\ o \in offers[a]
      BY <2>4, WrittenTyped DEF Book, Best
    <3>2. employee'[a] = o.emp /\ starts'[a] = target[a]
      BY <2>4, WrittenTyped DEF Book, Agenda
    <3>3. Drivable(a, o.emp, target[a]) /\ InDay(a, target[a]) /\ TravelFeasible
      BY <2>4, <3>1 DEF DriveInv, OffersDrivable
    <3> QED BY <2>2, <2>4, <3>2, <3>3, PlacedDrivable
  <2>5. ASSUME a \in Automatic, NEW e \in Employees, NEW s \in Slots,
               Create(a, e, s, "confirmed") \/ Update(a, e, s, "confirmed")
        PROVE  ~serial'
    BY <2>5 DEF Create, Update, Automatic
  <2>6. CASE a \notin Calls
    BY <1>3, <2>1, <2>4, <2>5, <2>6, Constants DEF Confirming, DriveInv
  <2> QED BY <2>3, <2>6
<1> QED BY <1>1, <1>2, <1>3, Moves

\* The day can be driven, as long as travel times obey the triangle
\* inequality and the customers were placed by fresh requests.
THEOREM TravelKept == Spec => []SerialTravel
<1>1. Init => DriveInv
  BY DEF Init, DriveInv, OffersDrivable, TravelFeasible, Confirmed, Automatic
<1>2. TypeOK /\ TypeOK' /\ ReservedDisjoint /\ (Triangle => DriveInv) /\ [Next]_vars
        => (Triangle => DriveInv)'
  <2> SUFFICES ASSUME TypeOK, TypeOK', ReservedDisjoint, DriveInv, [Next]_vars, Triangle
               PROVE  DriveInv'
    BY DEF Triangle
  <2> QED BY DriveStep, TypeParts DEF TypeOK, Agenda
<1>3. (Triangle => DriveInv) => SerialTravel
  BY DEF DriveInv, SerialTravel
<1> QED BY <1>1, <1>2, <1>3, BookingTyped, ReservationsDisjoint, PTL DEF Spec
=============================================================================

--------------------------- MODULE DialogueProofs ---------------------------
(* For every catalogue, every length of a conversation and every choice of *)
(* remarks: each variable keeps its type, the chosen time fits the visit   *)
(* as it is planned, and what is booked is what the last summary showed.   *)
EXTENDS Dialogue, WellFoundedInduction, TLAPS

-----------------------------------------------------------------------------
(* Facts and contexts.                                                     *)

Contexts == {c \in [Facts -> {NoFact} \cup UNION {ValuesOf[f] : f \in Facts}] : IsContext(c)}

\* The facts by name.
LEMMA FactNames ==
  Facts = {"service", "pendingService", "date", "time", "ownership", "modelKnown", "video",
           "mismatch", "mode", "request", "delivery", "fulfillment", "purpose", "property",
           "attendee", "appointment",
           "photo", "clarify", "match", "limitKnown", "quoted", "paused", "phoneOk",
           "media", "variant", "proposed", "pendingTurn", "nameSkipped", "outreach",
           "quantity", "access", "address", "model", "room", "taste", "space",
           "recommended", "height", "tubing", "hours", "gate", "limit", "daypart",
           "attendeeName", "phone",
           "deliveryAddress", "street", "suggestion", "meters", "pendingTap"}
  BY DEF Facts, Options, Flags, FreeFacts, SameAs

LEMMA OptionNames ==
  DOMAIN Options = {"service", "pendingService", "date", "time", "ownership", "modelKnown",
                    "video", "mismatch", "mode", "request", "delivery", "fulfillment",
                    "purpose", "property", "attendee", "appointment"}
  BY DEF Options

\* What may be said of a fact is one of its values.
LEMMA SaidValues ==
  \A f \in FreeFacts \cup DOMAIN Options : f \in Facts /\ ValuesOf[f] = Said(f)
<1>1. \A f \in FreeFacts \cup DOMAIN Options : f \in Facts
  BY DEF Facts
<1>2. \A f \in FreeFacts \cup DOMAIN Options : FactValues(f) = Said(f)
  BY OptionNames DEF FactValues, FreeFacts, Flags, SameAs
<1>3. QED
  BY <1>1, <1>2 DEF ValuesOf

\* What each of them may be.
LEMMA OptionValues ==
  /\ ValuesOf.service = Services /\ ValuesOf.pendingService = Services
  /\ ValuesOf.date = Days /\ ValuesOf.time = Hours
  /\ ValuesOf.ownership = {"has", "needs"} /\ ValuesOf.modelKnown = {"yes", "no"}
  /\ ValuesOf.video = {"required", "received"} /\ ValuesOf.mismatch = {"once", "twice"}
  /\ ValuesOf.mode = {"purchase", "both", "install"} /\ ValuesOf.request = {"quote"}
  /\ ValuesOf.delivery = {"pickup", "delivery", "withInstallation"}
  /\ ValuesOf.fulfillment = {"equipmentDelivery", "equipmentPickup"}
  /\ ValuesOf.purpose = {"delivery"} /\ ValuesOf.property = {"house", "building"}
  /\ ValuesOf.attendee = {"customer", "other"} /\ ValuesOf.appointment = Nat
<1>1. \A f \in DOMAIN Options : ValuesOf[f] = Options[f]
  BY SaidValues, OptionNames DEF Said, FreeFacts
<1>2. QED
  BY <1>1, OptionNames DEF Options

LEMMA FlagValues == \A f \in Flags : f \in Facts /\ ValuesOf[f] = {"yes"}
<1>1. \A f \in Flags : FactValues(f) = {"yes"}
  BY OptionNames DEF FactValues, FreeFacts, Flags, SameAs
<1>2. QED
  BY <1>1 DEF ValuesOf, Facts

LEMMA FreeValues == \A f \in FreeFacts : f \in Facts /\ ValuesOf[f] = ContentOf(f)
  BY SaidValues DEF Said

LEMMA OtherValues ==
  /\ ValuesOf.deliveryAddress = ContentOf("address") /\ ValuesOf.street = ContentOf("address")
  /\ ValuesOf.suggestion = ContentOf("recommended") /\ ValuesOf.meters = ContentOf("tubing")
  /\ ValuesOf.pendingTap = Taps
<1>1. \A f \in DOMAIN SameAs : FactValues(f) = ContentOf(SameAs[f]) /\ f \in Facts
  BY OptionNames, FactNames DEF FactValues, FreeFacts, Flags, SameAs
<1>2. FactValues("pendingTap") = Taps
  BY OptionNames, FactNames DEF FactValues, FreeFacts, Flags, SameAs
<1>3. QED
  BY <1>1, <1>2, FactNames DEF ValuesOf, SameAs

LEMMA ContextParts ==
  ASSUME NEW c
  PROVE  c \in Contexts <=> /\ c = [f \in Facts |-> c[f]]
                            /\ \A f \in Facts : c[f] = NoFact \/ c[f] \in ValuesOf[f]
  BY DEF Contexts, IsContext

\* A context with one more fact, without some, and the empty one.
LEMMA SetFact ==
  ASSUME NEW c \in Contexts, NEW f \in Facts, NEW v, v = NoFact \/ v \in ValuesOf[f]
  PROVE  [c EXCEPT ![f] = v] \in Contexts
  BY ContextParts

LEMMA DropTyped ==
  ASSUME NEW c \in Contexts, NEW S
  PROVE  Drop(c, S) \in Contexts /\ Only(c, S) \in Contexts
  BY ContextParts DEF Drop, Only

LEMMA EmptyTyped == NoContext \in Contexts
  BY ContextParts DEF NoContext

LEMMA TwoFacts ==
  ASSUME NEW c \in Contexts, NEW d \in Days, NEW h \in Hours
  PROVE  [c EXCEPT !.date = d, !.time = h] \in Contexts
<1>1. [c EXCEPT !.date = d] \in Contexts
  BY SetFact, OptionValues, FactNames
<1>2. [[c EXCEPT !.date = d] EXCEPT !.time = h] \in Contexts
  BY <1>1, SetFact, OptionValues, FactNames
<1>3. QED
  BY <1>2

LEMMA ContentCases ==
  /\ \A f \in {"quantity", "access", "address", "model", "room", "taste", "space", "recommended",
               "height", "hours", "gate", "daypart"} : ValuesOf[f] = Contents[f]
  /\ ValuesOf.tubing = Contents.tubing \cup {"unknown"}
  /\ ValuesOf.limit = Contents.limit \cup Contents.hours \cup Contents.daypart
  /\ ValuesOf.phone = Contents.phone \cup {"own"}
  /\ ValuesOf.attendeeName = Contents.attendeeName \cup {"own"}
  /\ ValuesOf.deliveryAddress = Contents.address /\ ValuesOf.street = Contents.address
  /\ ValuesOf.suggestion = Contents.recommended
  /\ ValuesOf.meters = Contents.tubing \cup {"unknown"}
<1>1. /\ \A f \in {"quantity", "access", "address", "model", "room", "taste", "space",
                   "recommended", "height", "hours", "gate", "daypart"} :
            f \in FreeFacts /\ ContentOf(f) = Contents[f]
      /\ ContentOf("tubing") = Contents.tubing \cup {"unknown"}
      /\ ContentOf("limit") = Contents.limit \cup Contents.hours \cup Contents.daypart
      /\ ContentOf("phone") = Contents.phone \cup {"own"}
      /\ ContentOf("attendeeName") = Contents.attendeeName \cup {"own"}
  BY DEF ContentOf, FreeFacts
<1>2. {"tubing", "limit", "phone", "attendeeName"} \subseteq FreeFacts
  BY DEF FreeFacts
<1>3. QED
  BY <1>1, <1>2, FreeValues, OtherValues

-----------------------------------------------------------------------------
(* Outcomes.                                                               *)

Outcomes == [state : States, ctx : Contexts, tries : SUBSET Slots, cost : {0, 1},
             shows : BOOLEAN, picks : BOOLEAN, fresh : BOOLEAN]

\* A turn that enters the last questions has chosen a time for the visit as it
\* is planned, and the confirmation is asked with a summary.
Offered(o) ==
  /\ o.state \in Closing => o.picks
  /\ o.state = "BOOKING_CONFIRM" => o.shows
Good == {o \in Outcomes : Offered(o)}

\* The states by name.
LEMMA StateNames ==
  /\ Closing \subseteq States /\ Agenda \subseteq States /\ Intake \subseteq States
  /\ {"BOOKING_QUANTITY", "BOOKING_ACCESS", "BOOKING_ADDRESS", "BOOKING_EQUIPMENT_OWNERSHIP",
      "BOOKING_EQUIPMENT_MODEL", "BOOKING_EQUIPMENT_PROFILE", "BOOKING_EQUIPMENT_DELIVERY",
      "BOOKING_INSTALLATION_HEIGHT", "BOOKING_TUBING", "BOOKING_PROPERTY",
      "BOOKING_BUILDING_HOURS", "BOOKING_GATE_DETAILS", "BOOKING_SITE_LIMIT"} = Intake
  /\ {"BOOKING_SERVICE", "QUOTE_DECISION", "START", "CUSTOMER_NAME", "MENU", "RESCHEDULE",
      "CANCEL", "HUMAN_HANDOFF", "POST_BOOKING_HELP", "COMPLETED"} \subseteq States
<1>1. DOMAIN StateOf = {"quantity", "access", "address", "ownership", "reference", "video",
                        "modelKnown", "model", "profile", "delivery", "deliveryAddress", "match",
                        "fulfillment", "installAddress", "height", "tubing", "property",
                        "hours", "gate", "limit"}
  BY DEF StateOf
<1>2. {"BOOKING_QUANTITY", "BOOKING_ACCESS", "BOOKING_ADDRESS", "BOOKING_EQUIPMENT_OWNERSHIP",
       "BOOKING_EQUIPMENT_MODEL", "BOOKING_EQUIPMENT_PROFILE", "BOOKING_EQUIPMENT_DELIVERY",
       "BOOKING_INSTALLATION_HEIGHT", "BOOKING_TUBING", "BOOKING_PROPERTY",
       "BOOKING_BUILDING_HOURS", "BOOKING_GATE_DETAILS", "BOOKING_SITE_LIMIT"} = Intake
  <2>1. \A q \in DOMAIN StateOf : StateOf[q] \in
          {"BOOKING_QUANTITY", "BOOKING_ACCESS", "BOOKING_ADDRESS", "BOOKING_EQUIPMENT_OWNERSHIP",
           "BOOKING_EQUIPMENT_MODEL", "BOOKING_EQUIPMENT_PROFILE", "BOOKING_EQUIPMENT_DELIVERY",
           "BOOKING_INSTALLATION_HEIGHT", "BOOKING_TUBING", "BOOKING_PROPERTY",
           "BOOKING_BUILDING_HOURS", "BOOKING_GATE_DETAILS", "BOOKING_SITE_LIMIT"}
    BY <1>1 DEF StateOf
  <2>2. /\ StateOf.quantity = "BOOKING_QUANTITY" /\ StateOf.access = "BOOKING_ACCESS"
        /\ StateOf.address = "BOOKING_ADDRESS" /\ StateOf.model = "BOOKING_EQUIPMENT_MODEL"
        /\ StateOf.ownership = "BOOKING_EQUIPMENT_OWNERSHIP"
        /\ StateOf.profile = "BOOKING_EQUIPMENT_PROFILE"
        /\ StateOf.delivery = "BOOKING_EQUIPMENT_DELIVERY"
        /\ StateOf.height = "BOOKING_INSTALLATION_HEIGHT" /\ StateOf.tubing = "BOOKING_TUBING"
        /\ StateOf.property = "BOOKING_PROPERTY" /\ StateOf.hours = "BOOKING_BUILDING_HOURS"
        /\ StateOf.gate = "BOOKING_GATE_DETAILS" /\ StateOf.limit = "BOOKING_SITE_LIMIT"
    BY DEF StateOf
  <2>3. QED
    BY <1>1, <2>1, <2>2 DEF Intake
<1>3. QED
  BY <1>2 DEF States, BookingStates

LEMMA OutTyped ==
  ASSUME NEW s \in States, NEW c \in Contexts, NEW t \in SUBSET Slots
  PROVE  /\ Out(s, c, t) \in Outcomes
         /\ Out(s, c, t).state = s /\ Out(s, c, t).ctx = c /\ Out(s, c, t).fresh = FALSE
         /\ Out(s, c, t).picks = FALSE /\ Out(s, c, t).shows = FALSE
         /\ s \notin Closing => Out(s, c, t) \in Good
  BY DEF Out, Outcomes, Good, Offered, Closing

\* The counters and the marks of an outcome.
LEMMA MarkTyped ==
  ASSUME NEW o \in Outcomes
  PROVE  /\ [o EXCEPT !.cost = 1] \in Outcomes /\ [o EXCEPT !.fresh = TRUE] \in Outcomes
         /\ [o EXCEPT !.picks = TRUE] \in Outcomes /\ [o EXCEPT !.shows = TRUE] \in Outcomes
         /\ o \in Good => [o EXCEPT !.cost = 1] \in Good /\ [o EXCEPT !.fresh = TRUE] \in Good
  BY DEF Outcomes, Good, Offered

LEMMA AdverseGood ==
  ASSUME NEW S \in SUBSET Good
  PROVE  Adverse(S) \in SUBSET Good /\ Renewed(S) \in SUBSET Good
  BY MarkTyped DEF Adverse, Renewed, Good

LEMMA FreshGood ==
  ASSUME NEW s \in States, s \notin Closing
  PROVE  Fresh(s) \in Good
<1>1. Out(s, NoContext, {}) \in Good
  BY OutTyped, EmptyTyped
<1>2. QED
  BY <1>1, MarkTyped DEF Fresh, Good

LEMMA PersonGood ==
  /\ Person \in Good
  /\ \A c \in Contexts, t \in SUBSET Slots : PersonWith(c, t) \in Good
<1>1. "HUMAN_HANDOFF" \in States /\ "HUMAN_HANDOFF" \notin Closing
  BY StateNames DEF Closing
<1>2. QED
  BY <1>1, FreshGood, OutTyped DEF Person, PersonWith

LEMMA RestartGood == Restart \in SUBSET Good
<1>1. Fresh("BOOKING_SERVICE") \in Good /\ Fresh("MENU") \in Good
  BY FreshGood, StateNames DEF Closing
<1>2. Adverse({Fresh("MENU")}) \in SUBSET Good
  BY <1>1, AdverseGood
<1>3. QED
  BY <1>1, <1>2 DEF Restart

LEMMA RetryTyped ==
  ASSUME NEW s \in States, NEW slot \in Slots, NEW c \in Contexts, NEW t \in SUBSET Slots
  PROVE  s \notin Closing => Retry(s, slot, c, t) \in SUBSET Good
<1>1. s \notin Closing => Out(s, c, t \cup {slot}) \in Good
  BY OutTyped
<1>2. QED
  BY <1>1, PersonGood, AdverseGood DEF Retry

-----------------------------------------------------------------------------
(* The agenda and the last questions.                                      *)

LEMMA SlotNames ==
  {"date", "time", "weekday", "service", "quantity", "access", "height", "property", "hours",
   "gate", "limit", "ownership", "tubing", "address", "city", "model", "delivery", "clarify",
   "attendee", "attendeeName", "phone", "confirmation", "media", "customer_name", "menu_action",
   "quote_decision", "post_booking_help", "reschedule_booking", "reschedule_date",
   "reschedule_time", "reschedule_confirmation", "cancel_booking", "cancel_confirmation",
   "room", "taste", "space"} \subseteq Slots
  BY DEF Slots, RecommendationInputs

LEMMA DatesGood ==
  ASSUME NEW c \in Contexts, NEW t \in SUBSET Slots
  PROVE  /\ IntakeOnly(c) \in Contexts /\ DatesListed(c, t) \in SUBSET Good
         /\ OfferDates(c, t) \in SUBSET Good /\ ReturnToDates(c, t) \in SUBSET Good
<1>1. IntakeOnly(c) \in Contexts
  BY DropTyped DEF IntakeOnly
<1>2. DatesListed(c, t) \in SUBSET Good
  <2>1. \A s \in {"BOOKING_WEEKDAY", "BOOKING_DATE"} : s \in States /\ s \notin Closing
    BY StateNames DEF Agenda, Closing
  <2>2. \A s \in {"BOOKING_WEEKDAY", "BOOKING_DATE"} : Out(s, IntakeOnly(c), t) \in Good
    BY <1>1, <2>1, OutTyped
  <2>3. QED
    BY <2>2 DEF DatesListed
<1>3. {Person, Fresh("BOOKING_SERVICE")} \in SUBSET Good
  BY PersonGood, FreshGood, StateNames DEF Closing
<1>4. QED
  BY <1>1, <1>2, <1>3, PersonGood, RestartGood, AdverseGood DEF OfferDates, ReturnToDates

\* After the choice of a time the questions that are left are about who
\* receives the team and at which number; the context is as it was.
Asking(o, c) ==
  /\ o \in Outcomes /\ o.state \in Closing /\ o.ctx = c /\ ~o.fresh
  /\ o.state = "BOOKING_CONFIRM" => o.shows

LEMMA FinalAsked ==
  ASSUME NEW c \in Contexts, NEW t \in SUBSET Slots
  PROVE  \A o \in FinalConfirmation(c, t) : o \in Good \/ Asking(o, c)
<1>1. "BOOKING_CONFIRM" \in States /\ "BOOKING_CONFIRM" \in Closing
  BY StateNames DEF Closing
<1> DEFINE o == [Out("BOOKING_CONFIRM", c, t) EXCEPT !.shows = TRUE]
<1>2. o \in Outcomes
  BY <1>1, OutTyped, MarkTyped
<1>3. o.state = "BOOKING_CONFIRM" /\ o.ctx = c /\ o.fresh = FALSE /\ o.shows = TRUE
  BY DEF Out
<1>4. Asking(o, c)
  BY <1>1, <1>2, <1>3 DEF Asking
<1> HIDE DEF o
<1>5. FinalConfirmation(c, t) \subseteq {o} \cup Restart
  BY DEF FinalConfirmation, o
<1>6. QED
  BY <1>4, <1>5, RestartGood

LEMMA PreconfirmationAsked ==
  ASSUME NEW c \in Contexts, NEW t \in SUBSET Slots
  PROVE  \A o \in Preconfirmation(c, t) : o \in Good \/ Asking(o, c)
<1>1. ASSUME NEW s \in Closing, s # "BOOKING_CONFIRM"
      PROVE  Asking(Out(s, c, t), c)
  <2>1. s \in States
    BY StateNames
  <2>2. /\ Out(s, c, t).state = s /\ Out(s, c, t).ctx = c /\ Out(s, c, t).fresh = FALSE
    BY DEF Out
  <2>3. Out(s, c, t) \in Outcomes
    BY <2>1, OutTyped
  <2>4. QED
    BY <1>1, <2>2, <2>3 DEF Asking
<1>2. {"BOOKING_ATTENDEE", "BOOKING_ATTENDEE_NAME", "BOOKING_PHONE_CONFIRM"} \subseteq Closing
  BY DEF Closing
<1>3. QED
  BY <1>1, <1>2, FinalAsked DEF Preconfirmation

\* A time that is taken is the choice.
LEMMA PickedGood ==
  ASSUME NEW c \in Contexts, NEW t \in SUBSET Slots, NEW d \in Days, NEW h \in Hours
  PROVE  Picked(c, t, d, h) \in SUBSET Good
<1> DEFINE u == [c EXCEPT !.date = d, !.time = h]
<1>1. u \in Contexts
  BY TwoFacts
<1> HIDE DEF u
<1>2. ASSUME NEW o \in Preconfirmation(u, t)
      PROVE  [o EXCEPT !.picks = TRUE] \in Good
  <2>1. o \in Good \/ Asking(o, u)
    BY <1>1, <1>2, PreconfirmationAsked
  <2>2. o \in Outcomes /\ (o.state = "BOOKING_CONFIRM" => o.shows)
    BY <2>1 DEF Good, Offered, Asking
  <2>3. QED
    BY <2>2 DEF Outcomes, Good, Offered
<1>3. QED
  BY <1>2 DEF Picked, u

LEMMA OfferTimesGood ==
  ASSUME NEW c \in Contexts, NEW t \in SUBSET Slots, NEW d \in Days, NEW spoken \in BOOLEAN
  PROVE  OfferTimes(c, t, d, spoken) \in SUBSET Good
<1>1. Out("BOOKING_TIME", [IntakeOnly(c) EXCEPT !.date = d], t) \in Good
  <2>1. [IntakeOnly(c) EXCEPT !.date = d] \in Contexts
    BY DatesGood, SetFact, OptionValues, FactNames
  <2>2. "BOOKING_TIME" \in States /\ "BOOKING_TIME" \notin Closing
    BY StateNames DEF Agenda, Closing
  <2>3. QED
    BY <2>1, <2>2, OutTyped
<1>2. Adverse(ReturnToDates(c, t)) \in SUBSET Good /\ Adverse({Person}) \in SUBSET Good
  BY DatesGood, PersonGood, AdverseGood
<1>3. \A h \in Hours : Picked(c, t, d, h) \in SUBSET Good
  BY PickedGood
<1>4. UNION {Picked(c, t, d, h) : h \in IF spoken THEN Hours ELSE {}} \in SUBSET Good
  BY <1>3
<1>5. QED
  BY <1>1, <1>2, <1>4, PersonGood DEF OfferTimes

LEMMA AgendaStates ==
  {"BOOKING_WEEKDAY", "BOOKING_DATE", "BOOKING_TIME"} \subseteq States \ Closing
  BY StateNames DEF Agenda, Closing

LEMMA HandleDateGood ==
  ASSUME NEW c \in Contexts, NEW t \in SUBSET Slots
  PROVE  /\ \A d \in Days, spoken \in BOOLEAN : HandleDate(c, t, d, spoken) \in SUBSET Good
         /\ DateUnclear(c, t) \in SUBSET Good
<1>1. \A s \in {"BOOKING_DATE", "BOOKING_WEEKDAY"} : Retry(s, "date", c, t) \in SUBSET Good
  BY AgendaStates, SlotNames, RetryTyped
<1>2. ASSUME NEW d \in Days, NEW spoken \in BOOLEAN
      PROVE  HandleDate(c, t, d, spoken) \in SUBSET Good
  <2>1. OfferTimes(c, t \ {"date"}, d, spoken) \in SUBSET Good
    BY OfferTimesGood
  <2>2. QED
    BY <1>1, <2>1, RestartGood, PersonGood, AdverseGood DEF HandleDate
<1>3. DateUnclear(c, t) \in SUBSET Good
  BY <1>1, RestartGood, PersonGood DEF DateUnclear
<1>4. QED
  BY <1>2, <1>3

LEMMA HandleWeekdayGood ==
  ASSUME NEW c \in Contexts, NEW t \in SUBSET Slots
  PROVE  HandleWeekday(c, t) \in SUBSET Good
<1>1. \A d \in Days : OfferTimes(c, t, d, TRUE) \in SUBSET Good
  BY OfferTimesGood
<1>2. Retry("BOOKING_WEEKDAY", "weekday", c, t) \in SUBSET Good
  BY AgendaStates, SlotNames, RetryTyped
<1>3. UNION {OfferTimes(c, t, d, TRUE) : d \in Days} \in SUBSET Good
  BY <1>1
<1>4. QED
  BY <1>2, <1>3, DatesGood, RestartGood, PersonGood, AdverseGood DEF HandleWeekday

LEMMA HandleTimeGood ==
  ASSUME NEW c \in Contexts, NEW t \in SUBSET Slots, NEW h \in Hours
  PROVE  HandleTime(c, t, h) \in SUBSET Good
<1>1. Known(c, "date") => Picked(c, t \ {"time"}, c.date, h) \in SUBSET Good
  <2>1. Known(c, "date") => c.date \in Days
    BY ContextParts, OptionValues, FactNames DEF Known
  <2>2. QED
    BY <2>1, PickedGood
<1>2. Retry("BOOKING_TIME", "time", c, t) \in SUBSET Good
  BY AgendaStates, SlotNames, RetryTyped
<1>3. Adverse(ReturnToDates(c, t)) \in SUBSET Good /\ Adverse({Person}) \in SUBSET Good
  BY DatesGood, PersonGood, AdverseGood
<1>4. QED
  BY <1>1, <1>2, <1>3, RestartGood, PersonGood DEF HandleTime

LEMMA HandleDaypartGood ==
  ASSUME NEW c \in Contexts, NEW t \in SUBSET Slots, NEW p \in Contents.daypart
  PROVE  HandleDaypart(c, t, p) \in SUBSET Good
<1> DEFINE u == [c EXCEPT !.time = NoFact, !.daypart = p, !.limit = p]
<1>1. u \in Contexts
  <2>1. [c EXCEPT !.time = NoFact] \in Contexts
    BY SetFact, FactNames
  <2>2. [[c EXCEPT !.time = NoFact] EXCEPT !.daypart = p] \in Contexts
    BY <2>1, SetFact, FactNames, ContentCases
  <2>3. [[[c EXCEPT !.time = NoFact] EXCEPT !.daypart = p] EXCEPT !.limit = p] \in Contexts
    BY <2>2, SetFact, FactNames, ContentCases
  <2>4. QED
    BY <2>3
<1> HIDE DEF u
<1>2. \A d \in Days : OfferTimes(u, t, d, TRUE) \in SUBSET Good
  BY <1>1, OfferTimesGood
<1>3. Out("BOOKING_TIME", u, t) \in Good /\ Out("BOOKING_DATE", u, t) \in Good
  BY <1>1, AgendaStates, OutTyped
<1>4. Adverse({Out("BOOKING_DATE", u, t), Person}) \in SUBSET Good
  BY <1>3, PersonGood, AdverseGood
<1>5. UNION {OfferTimes(u, t, d, TRUE) : d \in Days} \in SUBSET Good
  BY <1>2
<1>6. QED
  BY <1>1, <1>3, <1>4, <1>5, DatesGood, RestartGood, PersonGood DEF HandleDaypart, u

-----------------------------------------------------------------------------
(* The intake: the next question, a quote, or the agenda.                  *)

LEMMA LeastExists ==
  ASSUME NEW Q \in SUBSET Nat, Q # {}
  PROVE  \E i \in Q : \A j \in Q : i <= j
<1>1. PICK i \in Q : \A j \in Q : <<j, i>> \notin OpToRel(<, Nat)
  BY NatLessThanWellFounded, WFMin
<1>2. ASSUME NEW j \in Q, j < i
      PROVE  FALSE
  BY <1>1, <1>2 DEF OpToRel
<1>3. QED
  BY <1>2

LEMMA QuestionStates ==
  /\ DOMAIN Questions = 1 .. 20 /\ Len(Questions) = 20
  /\ \A i \in 1 .. 20 : StateOf[Questions[i]] \in Intake
<1>1. DOMAIN Questions = 1 .. 20 /\ Len(Questions) = 20
  BY DEF Questions
<1>2. DOMAIN StateOf = {"quantity", "access", "address", "ownership", "reference", "video",
                        "modelKnown", "model", "profile", "delivery", "deliveryAddress", "match",
                        "fulfillment", "installAddress", "height", "tubing", "property",
                        "hours", "gate", "limit"}
  BY DEF StateOf
<1>3. \A i \in 1 .. 20 : Questions[i] \in DOMAIN StateOf
  BY <1>2 DEF Questions
<1>4. QED
  BY <1>1, <1>3 DEF Intake

\* While a question is open the first one is a question.
LEMMA FirstIsAsked ==
  ASSUME NEW c, Open(c) # {}
  PROVE  StateOf[FirstOpen(c)] \in States \ Closing
<1>1. OpenPlaces(c) \subseteq 1 .. 20 /\ OpenPlaces(c) # {}
  BY QuestionStates DEF Open, OpenPlaces
<1>2. \E i \in OpenPlaces(c) \cup {Len(Questions) + 1} : \A j \in OpenPlaces(c) : i <= j
  <2>1. PICK i \in OpenPlaces(c) : \A j \in OpenPlaces(c) : i <= j
    BY <1>1, LeastExists
  <2>2. QED
    BY <2>1
<1>3. /\ Position(c) \in OpenPlaces(c) \cup {Len(Questions) + 1}
      /\ \A j \in OpenPlaces(c) : Position(c) <= j
  BY <1>2 DEF Position
<1>4. Position(c) \in 1 .. 20
  <2>1. PICK j \in OpenPlaces(c) : TRUE
    BY <1>1
  <2>2. j \in 1 .. 20 /\ Position(c) <= j
    BY <1>1, <1>3, <2>1
  <2>3. Position(c) \in 1 .. 20 \/ Position(c) = 21
    BY <1>1, <1>3, QuestionStates
  <2>4. QED
    BY <2>2, <2>3
<1>5. StateOf[FirstOpen(c)] \in Intake
  BY <1>4, QuestionStates DEF FirstOpen
<1>6. Intake \subseteq States \ Closing
  BY StateNames DEF Closing
<1>7. QED
  BY <1>5, <1>6

LEMMA DerivedTyped ==
  ASSUME NEW c \in Contexts
  PROVE  Derived(c) \in Contexts
<1>1. WithOwnership(c) \in Contexts
  <2>1. \A v \in {"has", "needs", c.ownership} : [c EXCEPT !.ownership = v] \in Contexts
    BY ContextParts, SetFact, OptionValues, FactNames
  <2>2. QED
    BY <2>1 DEF WithOwnership
<1>2. ASSUME NEW d \in Contexts
      PROVE  WithLimit(d) \in Contexts
  <2>1. CASE Known(d, "hours")
    <3>1. d.hours \in ValuesOf.limit
      <4>1. d.hours \in ValuesOf["hours"] /\ ValuesOf["hours"] = Contents.hours
        BY <2>1, ContextParts, FactNames, ContentCases DEF Known
      <4>2. QED
        BY <4>1, ContentCases
    <3>2. [d EXCEPT !.limit = d.hours] \in Contexts
      BY <3>1, SetFact, FactNames
    <3>3. [[d EXCEPT !.limit = d.hours] EXCEPT !.limitKnown = "yes"] \in Contexts
      BY <3>2, SetFact, FlagValues DEF Flags
    <3>4. [d EXCEPT !.limit = d.hours, !.limitKnown = "yes"] \in Contexts
      BY <3>3
    <3>5. QED
      BY <3>4 DEF WithLimit
  <2>2. QED
    BY <2>1 DEF WithLimit
<1>3. QED
  BY <1>1, <1>2 DEF Derived

LEMMA AskGood ==
  ASSUME NEW c \in Contexts, NEW t \in SUBSET Slots, Open(c) # {}
  PROVE  Ask(FirstOpen(c), c, t) \in Good
<1>1. [c EXCEPT !.modelKnown = "yes"] \in Contexts /\ [c EXCEPT !.purpose = "delivery"] \in Contexts
  BY SetFact, OptionValues, FactNames
<1>2. \A d \in Contexts : Out(StateOf[FirstOpen(c)], d, t) \in Good
  BY FirstIsAsked, OutTyped
<1>3. QED
  BY <1>1, <1>2 DEF Ask

LEMMA AskNextGood ==
  ASSUME NEW c \in Contexts, NEW t \in SUBSET Slots
  PROVE  AskNext(c, t) \in SUBSET Good
<1> DEFINE d == Derived(c)
<1>1. d \in Contexts
  BY DerivedTyped
<1> HIDE DEF d
<1>2. OfferDates(d, t) \in SUBSET Good
  BY <1>1, DatesGood
<1>3. Quote(d, t) \in SUBSET Good
  <2>1. [d EXCEPT !.quoted = "yes"] \in Contexts
    BY <1>1, SetFact, FlagValues DEF Flags
  <2>2. "QUOTE_DECISION" \in States \ Closing
    BY StateNames DEF Closing
  <2>3. Out("QUOTE_DECISION", [d EXCEPT !.quoted = "yes"], t) \in Good
    BY <2>1, <2>2, OutTyped
  <2>4. QED
    BY <2>3, PersonGood, AdverseGood DEF Quote
<1>4. Open(d) # {} => Ask(FirstOpen(d), d, t) \in Good
  BY <1>1, AskGood
<1>5. QED
  BY <1>2, <1>3, <1>4, RestartGood DEF AskNext, d

LEMMA RecommendGood ==
  ASSUME NEW c \in Contexts, NEW t \in SUBSET Slots
  PROVE  Recommend(c, t) \in SUBSET Good
<1>1. \A r \in Contents.recommended : [c EXCEPT !.recommended = r] \in Contexts
  BY SetFact, ContentCases, FactNames
<1>2. \A r \in Contents.recommended : AskNext([c EXCEPT !.recommended = r], t) \in SUBSET Good
  BY <1>1, AskNextGood
<1>3. Adverse({PersonWith(c, t)}) \in SUBSET Good
  BY PersonGood, AdverseGood
<1>4. ASSUME NEW o \in Recommend(c, t)
      PROVE  o \in Good
  <2>1. \/ o \in Adverse({PersonWith(c, t)})
        \/ \E r \in Contents.recommended : o \in AskNext([c EXCEPT !.recommended = r], t)
    BY <1>4, Zenon DEF Recommend
  <2>2. QED
    BY <1>2, <1>3, <2>1, Zenon
<1>5. QED
  BY <1>4

LEMMA AdvanceGood ==
  ASSUME NEW c \in Contexts, NEW t \in SUBSET Slots
  PROVE  Advance(c, t) \in SUBSET Good
  BY AskNextGood, RecommendGood, DerivedTyped DEF Advance

LEMMA WithIntakeGood ==
  ASSUME NEW c, NEW S \in SUBSET Good
  PROVE  WithIntake(c, S) \in SUBSET Good
  BY PersonGood, AdverseGood DEF WithIntake

LEMMA InvalidatedTyped ==
  ASSUME NEW c, NEW d \in Contexts
  PROVE  Invalidated(c, d) \in Contexts
  BY DropTyped DEF Invalidated

LEMMA CorrectedGood ==
  ASSUME NEW c, NEW u \in Contexts, NEW t \in SUBSET Slots
  PROVE  Corrected(c, u, t) \in SUBSET Good /\ Noted(c, u, t) \in SUBSET Good
  BY InvalidatedTyped, AdvanceGood, WithIntakeGood DEF Corrected, Noted

-----------------------------------------------------------------------------
(* The choice of the service.                                              *)

LEMMA ServiceState ==
  /\ {"BOOKING_SERVICE", "QUOTE_DECISION", "START", "CUSTOMER_NAME", "MENU", "RESCHEDULE",
      "CANCEL", "HUMAN_HANDOFF", "POST_BOOKING_HELP", "COMPLETED"} \subseteq States \ Closing
  /\ Intake \subseteq States \ Closing
  BY StateNames DEF Closing

LEMMA ChooseServiceGood ==
  ASSUME NEW c \in Contexts, NEW t \in SUBSET Slots, NEW s \in Services
  PROVE  ChooseService(c, t, s) \in SUBSET Good
<1> DEFINE u == ServiceChosen(c, s)
<1>1. u \in Contexts
  <2>1. [c EXCEPT !.service = s] \in Contexts
    BY SetFact, OptionValues, FactNames
  <2>2. [[c EXCEPT !.service = s] EXCEPT !.clarify = NoFact] \in Contexts
    BY <2>1, SetFact, FactNames
  <2> DEFINE w == [c EXCEPT !.service = s, !.clarify = NoFact]
  <2>3. w \in Contexts
    BY <2>2
  <2> HIDE DEF w
  <2>4. [Drop(w, NotForExisting) EXCEPT !.ownership = "has"] \in Contexts
    BY <2>3, DropTyped, SetFact, OptionValues, FactNames
  <2>5. QED
    BY <2>3, <2>4 DEF ServiceChosen, w
<1> HIDE DEF u
<1>2. [u EXCEPT !.video = "required"] \in Contexts
  BY <1>1, SetFact, OptionValues, FactNames
<1>3. Advance(u, t) \in SUBSET Good /\ Advance([u EXCEPT !.video = "required"], t) \in SUBSET Good
  BY <1>1, <1>2, AdvanceGood
<1>4. Retry("BOOKING_SERVICE", "service", c, t) \in SUBSET Good
  BY ServiceState, SlotNames, RetryTyped
<1>5. Adverse({Person}) \in SUBSET Good
  BY PersonGood, AdverseGood
<1>6. QED
  BY <1>3, <1>4, <1>5 DEF ChooseService, u

LEMMA PurchaseChosenTyped ==
  ASSUME NEW c \in Contexts, NEW s \in Services, NEW m \in {"purchase", "both", "install"}
  PROVE  PurchaseChosen(c, s, m) \in Contexts
<1> DEFINE u == [c EXCEPT !.service = s, !.mode = m, !.clarify = NoFact]
<1>1. u \in Contexts
  <2>1. [c EXCEPT !.service = s] \in Contexts
    BY SetFact, OptionValues, FactNames
  <2>2. [[c EXCEPT !.service = s] EXCEPT !.mode = m] \in Contexts
    BY <2>1, SetFact, OptionValues, FactNames
  <2>3. [[[c EXCEPT !.service = s] EXCEPT !.mode = m] EXCEPT !.clarify = NoFact] \in Contexts
    BY <2>2, SetFact, FactNames
  <2>4. QED
    BY <2>3
<1> HIDE DEF u
<1>2. [Drop(u, {"request", "recommended"}) EXCEPT !.ownership = "has"] \in Contexts
  BY <1>1, DropTyped, SetFact, OptionValues, FactNames
<1>3. [u EXCEPT !.request = "quote", !.ownership = "needs"] \in Contexts
  <2>1. [u EXCEPT !.request = "quote"] \in Contexts
    BY <1>1, SetFact, OptionValues, FactNames
  <2>2. [[u EXCEPT !.request = "quote"] EXCEPT !.ownership = "needs"] \in Contexts
    BY <2>1, SetFact, OptionValues, FactNames
  <2>3. QED
    BY <2>2
<1>4. QED
  BY <1>2, <1>3, InvalidatedTyped DEF PurchaseChosen, u

LEMMA ChoosePurchaseGood ==
  ASSUME NEW c \in Contexts, NEW t \in SUBSET Slots, NEW m \in {"purchase", "both", "install"}
  PROVE  ChoosePurchase(c, t, m) \in SUBSET Good
<1>1. \A s \in Services : Advance(PurchaseChosen(c, s, m), t) \in SUBSET Good
  BY PurchaseChosenTyped, AdvanceGood
<1>2. Adverse({Person}) \in SUBSET Good
  BY PersonGood, AdverseGood
<1>3. ASSUME NEW o \in ChoosePurchase(c, t, m)
      PROVE  o \in Good
  <2>1. \/ o \in Adverse({Person}) \/ o = Person
        \/ \E s \in Services : o \in Advance(PurchaseChosen(c, s, m), t)
    BY <1>3, Zenon DEF ChoosePurchase
  <2>2. QED
    BY <1>1, <1>2, <2>1, PersonGood, Zenon
<1>4. QED
  BY <1>3

LEMMA HandleServiceGood ==
  ASSUME NEW c \in Contexts, NEW t \in SUBSET Slots
  PROVE  Clarify(c, t) \in Good /\ HandleService(c, t) \in SUBSET Good
<1>1. Clarify(c, t) \in Good
  <2>1. [c EXCEPT !.clarify = "yes"] \in Contexts
    BY SetFact, FlagValues DEF Flags
  <2>2. [[c EXCEPT !.clarify = "yes"] EXCEPT !.request = "quote"] \in Contexts
    BY <2>1, SetFact, OptionValues, FactNames
  <2>3. [c EXCEPT !.clarify = "yes", !.request = "quote"] \in Contexts
    BY <2>2
  <2>4. QED
    BY <2>3, ServiceState, OutTyped DEF Clarify
<1>2. UNION {ChoosePurchase(c, t, m) : m \in {"purchase", "both", "install"}} \in SUBSET Good
  BY ChoosePurchaseGood
<1>3. UNION {ChooseService(c, t, s) : s \in Services} \in SUBSET Good
  BY ChooseServiceGood
<1>4. \A slot \in {"clarify", "service"} : Retry("BOOKING_SERVICE", slot, c, t) \in SUBSET Good
  BY ServiceState, SlotNames, RetryTyped
<1>5. QED
  BY <1>1, <1>2, <1>3, <1>4 DEF HandleService

-----------------------------------------------------------------------------
(* The answers of the intake.                                              *)

LEMMA PlainAnswersGood ==
  ASSUME NEW c \in Contexts, NEW t \in SUBSET Slots
  PROVE  /\ \A v \in Contents.quantity : HandleQuantity(c, t, v) \in SUBSET Good
         /\ \A v \in Contents.access : HandleAccess(c, t, v) \in SUBSET Good
         /\ \A v \in Contents.height : HandleHeight(c, t, v) \in SUBSET Good
         /\ \A v \in Options.property : HandleProperty(c, t, v) \in SUBSET Good
         /\ \A v \in Contents.hours : HandleHours(c, t, v) \in SUBSET Good
         /\ \A v \in Contents.gate : HandleGate(c, t, v) \in SUBSET Good
<1>1. ASSUME NEW f \in Facts, NEW v \in ValuesOf[f], NEW slot
      PROVE  /\ Corrected(c, [c EXCEPT ![f] = v], t \ {slot}) \in SUBSET Good
             /\ Noted(c, [c EXCEPT ![f] = v], t \ {slot}) \in SUBSET Good
  <2>1. [c EXCEPT ![f] = v] \in Contexts
    BY SetFact
  <2>2. QED
    BY <2>1, CorrectedGood
<1>2. \A v \in Contents.quantity : HandleQuantity(c, t, v) \in SUBSET Good
  BY <1>1, FactNames, ContentCases DEF HandleQuantity
<1>3. \A v \in Contents.access : HandleAccess(c, t, v) \in SUBSET Good
  BY <1>1, FactNames, ContentCases DEF HandleAccess
<1>4. \A v \in Contents.height : HandleHeight(c, t, v) \in SUBSET Good
  BY <1>1, FactNames, ContentCases DEF HandleHeight
<1>5. \A v \in Options.property : HandleProperty(c, t, v) \in SUBSET Good
  <2>1. Options.property = ValuesOf["property"]
    BY OptionValues DEF Options
  <2>2. QED
    BY <1>1, <2>1, FactNames DEF HandleProperty
<1>6. \A v \in Contents.hours : HandleHours(c, t, v) \in SUBSET Good
  BY <1>1, FactNames, ContentCases DEF HandleHours
<1>7. \A v \in Contents.gate : HandleGate(c, t, v) \in SUBSET Good
  BY <1>1, FactNames, ContentCases DEF HandleGate
<1>8. QED
  BY <1>2, <1>3, <1>4, <1>5, <1>6, <1>7

LEMMA HandleLimitGood ==
  ASSUME NEW c \in Contexts, NEW t \in SUBSET Slots, NEW v \in Contents.limit \cup {NoFact}
  PROVE  HandleLimit(c, t, v) \in SUBSET Good
<1>1. [c EXCEPT !.limit = v] \in Contexts
  BY SetFact, FactNames, ContentCases
<1>2. [[c EXCEPT !.limit = v] EXCEPT !.limitKnown = "yes"] \in Contexts
  BY <1>1, SetFact, FlagValues DEF Flags
<1>3. [c EXCEPT !.limit = v, !.limitKnown = "yes"] \in Contexts
  BY <1>2
<1>4. QED
  BY <1>3, CorrectedGood DEF HandleLimit

LEMMA HandleOwnershipGood ==
  ASSUME NEW c \in Contexts, NEW t \in SUBSET Slots, NEW v \in Options.ownership
  PROVE  HandleOwnership(c, t, v) \in SUBSET Good
<1>0. Options.ownership = ValuesOf["ownership"]
  BY OptionValues DEF Options
<1>1. [c EXCEPT !.ownership = v] \in Contexts
  BY <1>0, SetFact, FactNames
<1>2. [[c EXCEPT !.ownership = v] EXCEPT !.modelKnown = "yes"] \in Contexts
  BY <1>1, SetFact, OptionValues, FactNames
<1>3. \A q \in {"quote", c.request} : [[c EXCEPT !.ownership = v] EXCEPT !.request = q] \in Contexts
  <2>1. \A q \in {"quote", c.request} : q = NoFact \/ q \in ValuesOf["request"]
    BY ContextParts, OptionValues, FactNames
  <2>2. QED
    BY <1>1, <2>1, SetFact, FactNames
<1>4. [c EXCEPT !.ownership = v, !.modelKnown = "yes"] \in Contexts
  BY <1>2
<1>5. [c EXCEPT !.ownership = v, !.request = IF @ = NoFact THEN "quote" ELSE @] \in Contexts
  BY <1>3
<1>6. QED
  BY <1>4, <1>5, CorrectedGood DEF HandleOwnership

LEMMA TubingGood ==
  ASSUME NEW c \in Contexts, NEW t \in SUBSET Slots
  PROVE  /\ \A v \in Contents.tubing \cup {"unknown"} :
              HandleTubing(c, t, v) \in SUBSET Good /\ TubingUnsure(c, t, v) \in SUBSET Good
         /\ TubingConfirmed(c, t) \in SUBSET Good
<1>1. ASSUME NEW v \in Contents.tubing \cup {"unknown"}
      PROVE  Tubing(c, v) \in Contexts /\ [c EXCEPT !.meters = v, !.tubing = NoFact] \in Contexts
  <2>1. [c EXCEPT !.tubing = v] \in Contexts /\ [c EXCEPT !.meters = v] \in Contexts
    BY SetFact, FactNames, ContentCases
  <2>2. /\ [[c EXCEPT !.tubing = v] EXCEPT !.meters = NoFact] \in Contexts
        /\ [[c EXCEPT !.meters = v] EXCEPT !.tubing = NoFact] \in Contexts
    BY <2>1, SetFact, FactNames
  <2>3. QED
    BY <2>2 DEF Tubing
<1>2. ASSUME NEW v \in Contents.tubing \cup {"unknown"}
      PROVE  HandleTubing(c, t, v) \in SUBSET Good /\ TubingUnsure(c, t, v) \in SUBSET Good
  <2>1. "BOOKING_TUBING" \in States \ Closing
    BY ServiceState, StateNames
  <2>2. Out("BOOKING_TUBING", [c EXCEPT !.meters = v, !.tubing = NoFact], t) \in Good
    BY <1>1, <2>1, OutTyped
  <2>3. HandleTubing(c, t, v) \in SUBSET Good
    BY <1>1, CorrectedGood DEF HandleTubing
  <2>4. QED
    BY <2>2, <2>3 DEF TubingUnsure
<1>3. TubingConfirmed(c, t) \in SUBSET Good
  <2>1. Known(c, "meters") => c.meters \in Contents.tubing \cup {"unknown"}
    BY ContextParts, FactNames, ContentCases DEF Known
  <2>2. Known(c, "meters") => Noted(c, Tubing(c, c.meters), t) \in SUBSET Good
    BY <1>1, <2>1, CorrectedGood
  <2>3. QED
    BY <2>2 DEF TubingConfirmed
<1>4. QED
  BY <1>2, <1>3

LEMMA AddressSuccessGood ==
  ASSUME NEW c \in Contexts, NEW t \in SUBSET Slots, NEW a \in Contents.address
  PROVE  AddressSuccess(c, t, a) \in SUBSET Good
<1> DEFINE kept == Drop(c, {"purpose", "street"})
<1>1. kept \in Contexts
  BY DropTyped
<1> HIDE DEF kept
<1>2. \A w \in {NoFact, "yes"} : [kept EXCEPT !.deliveryAddress = a, !.match = w] \in Contexts
  <2>1. [kept EXCEPT !.deliveryAddress = a] \in Contexts
    BY <1>1, SetFact, FactNames, ContentCases
  <2>2. \A w \in {NoFact, "yes"} :
          [[kept EXCEPT !.deliveryAddress = a] EXCEPT !.match = w] \in Contexts
    BY <2>1, SetFact, FlagValues DEF Flags
  <2>3. QED
    BY <2>2
<1>3. [kept EXCEPT !.address = a] \in Contexts
  BY <1>1, SetFact, FactNames, ContentCases
<1>4. QED
  BY <1>2, <1>3, CorrectedGood DEF AddressSuccess, kept

LEMMA HandleAddressGood ==
  ASSUME NEW c \in Contexts, NEW t \in SUBSET Slots
  PROVE  HandleAddress(c, t) \in SUBSET Good
<1>1. "BOOKING_ADDRESS" \in States \ Closing
  BY ServiceState, StateNames
<1>2. \A slot \in {"city", "address"} : Retry("BOOKING_ADDRESS", slot, c, t) \in SUBSET Good
  BY <1>1, SlotNames, RetryTyped
<1>3. Known(c, "street") => AddressSuccess(c, t, c.street) \in SUBSET Good
  <2>1. Known(c, "street") => c.street \in Contents.address
    BY ContextParts, FactNames, ContentCases DEF Known
  <2>2. QED
    BY <2>1, AddressSuccessGood
<1>4. UNION {AddressSuccess(c, t, a) : a \in Contents.address} \in SUBSET Good
  BY AddressSuccessGood
<1>5. {Out("BOOKING_ADDRESS", [c EXCEPT !.street = a], t) : a \in Contents.address} \in SUBSET Good
  <2>1. \A a \in Contents.address : [c EXCEPT !.street = a] \in Contexts
    BY SetFact, FactNames, ContentCases
  <2>2. \A a \in Contents.address : Out("BOOKING_ADDRESS", [c EXCEPT !.street = a], t) \in Good
    BY <1>1, <2>1, OutTyped
  <2>3. QED
    BY <2>2
<1>6. QED
  BY <1>2, <1>3, <1>4, <1>5 DEF HandleAddress

LEMMA MediaReceivedGood ==
  ASSUME NEW c \in Contexts, NEW t \in SUBSET Slots
  PROVE  VideoReceived(c, t) \in SUBSET Good /\ PhotoReceived(c, t) \in SUBSET Good
<1>1. "BOOKING_EQUIPMENT_MODEL" \in States \ Closing
  BY ServiceState, StateNames
<1>2. VideoReceived(c, t) \in SUBSET Good
  <2>1. [c EXCEPT !.video = "received"] \in Contexts
    BY SetFact, OptionValues, FactNames
  <2>2. Out("BOOKING_EQUIPMENT_MODEL", c, t) \in Good
    BY <1>1, OutTyped
  <2>3. QED
    BY <2>1, <2>2, AdvanceGood DEF VideoReceived
<1>3. PhotoReceived(c, t) \in SUBSET Good
  <2>1. [c EXCEPT !.modelKnown = "no"] \in Contexts
    BY SetFact, OptionValues, FactNames
  <2>2. [[c EXCEPT !.modelKnown = "no"] EXCEPT !.photo = "yes"] \in Contexts
    BY <2>1, SetFact, FlagValues DEF Flags
  <2>3. [[[c EXCEPT !.modelKnown = "no"] EXCEPT !.photo = "yes"] EXCEPT !.model = NoFact] \in Contexts
    BY <2>2, SetFact, FactNames
  <2>4. [c EXCEPT !.modelKnown = "no", !.photo = "yes", !.model = NoFact] \in Contexts
    BY <2>3
  <2>5. Retry("BOOKING_EQUIPMENT_MODEL", "model", c, t) \in SUBSET Good
    BY <1>1, SlotNames, RetryTyped
  <2>6. QED
    BY <2>4, <2>5, AdvanceGood DEF PhotoReceived
<1>4. QED
  BY <1>2, <1>3

-----------------------------------------------------------------------------
(* The device.                                                             *)

LEMMA ModelUnknownGood ==
  ASSUME NEW c \in Contexts, NEW t \in SUBSET Slots
  PROVE  ModelUnknown(c, t) \in SUBSET Good
<1>1. "BOOKING_EQUIPMENT_MODEL" \in States \ Closing
  BY ServiceState, StateNames
<1>2. [c EXCEPT !.modelKnown = "no"] \in Contexts
  BY SetFact, OptionValues, FactNames
<1>3. [[c EXCEPT !.modelKnown = "no"] EXCEPT !.model = NoFact] \in Contexts
  BY <1>2, SetFact, FactNames
<1>4. [c EXCEPT !.modelKnown = "no", !.model = NoFact] \in Contexts
  BY <1>3
<1> DEFINE u == [c EXCEPT !.modelKnown = "no", !.model = NoFact]
           rest == t \ {"model"}
<1>5. ModelUnknown(c, t) = IF Existing(c) THEN {Out("BOOKING_EQUIPMENT_MODEL", u, rest)}
                           ELSE Advance(u, rest)
  BY DEF ModelUnknown
<1>6. u \in Contexts /\ rest \in SUBSET Slots
  BY <1>4
<1> HIDE DEF u, rest
<1>7. Out("BOOKING_EQUIPMENT_MODEL", u, rest) \in Good /\ Advance(u, rest) \in SUBSET Good
  BY <1>1, <1>6, OutTyped, AdvanceGood
<1>8. QED
  BY <1>5, <1>7

LEMMA MismatchGood ==
  ASSUME NEW c \in Contexts, NEW t \in SUBSET Slots
  PROVE  Mismatch(c, t) \in SUBSET Good
<1> DEFINE kept == Drop(c, {"model", "recommended"})
           u == [kept EXCEPT !.mismatch = IF @ = NoFact THEN "once" ELSE "twice"]
<1>1. kept \in Contexts
  BY DropTyped
<1> HIDE DEF kept
<1>2. \A v \in {"once", "twice"} : [kept EXCEPT !.mismatch = v] \in Contexts
  BY <1>1, SetFact, OptionValues, FactNames
<1>3. u \in Contexts
  BY <1>2
<1> HIDE DEF u
<1>4. [u EXCEPT !.modelKnown = "no"] \in Contexts
  BY <1>3, SetFact, OptionValues, FactNames
<1>5. QED
  BY <1>3, <1>4, PersonGood, AdvanceGood DEF Mismatch, u, kept

LEMMA ModelNamedGood ==
  ASSUME NEW c \in Contexts, NEW t \in SUBSET Slots
  PROVE  ModelNamed(c, t) \in SUBSET Good
<1>1. Adverse(Mismatch(c, t)) \in SUBSET Good
  BY MismatchGood, AdverseGood
<1>2. Retry("BOOKING_EQUIPMENT_MODEL", "model", c, t) \in SUBSET Good
  BY ServiceState, StateNames, SlotNames, RetryTyped
<1>3. ASSUME NEW m \in Contents.model
      PROVE  [c EXCEPT !.modelKnown = "yes", !.model = m] \in Contexts
  <2>1. [c EXCEPT !.modelKnown = "yes"] \in Contexts
    BY SetFact, OptionValues, FactNames
  <2>2. [[c EXCEPT !.modelKnown = "yes"] EXCEPT !.model = m] \in Contexts
    BY <2>1, SetFact, FactNames, ContentCases
  <2>3. QED
    BY <2>2
<1>4. ASSUME NEW m \in Contents.model, NEW r \in Contents.recommended
      PROVE  [c EXCEPT !.modelKnown = "yes", !.model = m, !.recommended = r,
                       !.mismatch = NoFact] \in Contexts
  <2> DEFINE u == [c EXCEPT !.modelKnown = "yes", !.model = m]
  <2>1. u \in Contexts
    BY <1>3
  <2> HIDE DEF u
  <2>2. [u EXCEPT !.recommended = r] \in Contexts
    BY <2>1, SetFact, FactNames, ContentCases
  <2>3. [[u EXCEPT !.recommended = r] EXCEPT !.mismatch = NoFact] \in Contexts
    BY <2>2, SetFact, FactNames
  <2>4. QED
    BY <2>3 DEF u
<1>5. \A m \in Contents.model :
        Advance([c EXCEPT !.modelKnown = "yes", !.model = m], t \ {"model"}) \in SUBSET Good
  BY <1>3, AdvanceGood
<1>6. \A m \in Contents.model, r \in Contents.recommended :
        Advance([c EXCEPT !.modelKnown = "yes", !.model = m, !.recommended = r,
                          !.mismatch = NoFact], t \ {"model"}) \in SUBSET Good
  BY <1>4, AdvanceGood
<1>7. UNION {Advance([c EXCEPT !.modelKnown = "yes", !.model = m], t \ {"model"}) :
                m \in Contents.model} \in SUBSET Good
  BY <1>5
<1>8. UNION {UNION {Advance([c EXCEPT !.modelKnown = "yes", !.model = m, !.recommended = r,
                                      !.mismatch = NoFact], t \ {"model"}) :
                m \in Contents.model} : r \in Contents.recommended} \in SUBSET Good
  <2>1. ASSUME NEW r \in Contents.recommended
        PROVE  UNION {Advance([c EXCEPT !.modelKnown = "yes", !.model = m, !.recommended = r,
                                        !.mismatch = NoFact], t \ {"model"}) :
                  m \in Contents.model} \in SUBSET Good
    BY <1>6
  <2>2. QED
    BY <2>1
<1>9. QED
  BY <1>1, <1>2, <1>7, <1>8 DEF ModelNamed

LEMMA HandleModelGood ==
  ASSUME NEW c \in Contexts, NEW t \in SUBSET Slots
  PROVE  HandleModel(c, t) \in SUBSET Good
<1>1. Retry("BOOKING_EQUIPMENT_MODEL", "model", c, t) \in SUBSET Good
  BY ServiceState, StateNames, SlotNames, RetryTyped
<1>2. Out("BOOKING_EQUIPMENT_MODEL", [c EXCEPT !.modelKnown = "yes"], t) \in Good
  <2>1. [c EXCEPT !.modelKnown = "yes"] \in Contexts
    BY SetFact, OptionValues, FactNames
  <2>2. QED
    BY <2>1, ServiceState, StateNames, OutTyped
<1>3. QED
  BY <1>1, <1>2, ModelUnknownGood, ModelNamedGood, AdvanceGood, WithIntakeGood DEF HandleModel

LEMMA ProfileFactNames ==
  ASSUME NEW c
  PROVE  NextProfileFact(c) \in {"room", "taste", "space"}
  BY DEF NextProfileFact

LEMMA HandleProfileGood ==
  ASSUME NEW c \in Contexts, NEW t \in SUBSET Slots, NEW f \in {"room", "taste", "space"},
         NEW v \in Contents[f]
  PROVE  HandleProfile(c, t, f, v) \in SUBSET Good
<1> DEFINE u == Invalidated(c, [c EXCEPT ![f] = v])
           left == {s \in t : s \in RecommendationInputs => ~Known(u, s)}
<1>1. [c EXCEPT ![f] = v] \in Contexts
  BY SetFact, FactNames, ContentCases
<1>2. u \in Contexts
  BY <1>1, InvalidatedTyped
<1>3. left \in SUBSET Slots
  OBVIOUS
<1>4. HandleProfile(c, t, f, v) =
        WithIntake(c, IF ProfileKnown(u) THEN Recommend(u, left)
                      ELSE {Out("BOOKING_EQUIPMENT_PROFILE", u, left)})
  BY DEF HandleProfile
<1> HIDE DEF u, left
<1>5. Out("BOOKING_EQUIPMENT_PROFILE", u, left) \in Good
  BY <1>2, <1>3, ServiceState, StateNames, OutTyped
<1>6. Recommend(u, left) \in SUBSET Good
  BY <1>2, <1>3, RecommendGood
<1>7. QED
  BY <1>4, <1>5, <1>6, WithIntakeGood

-----------------------------------------------------------------------------
(* The hand-over of a device, and the decision on a quote.                 *)

LEMMA HandleDeliveryGood ==
  ASSUME NEW c \in Contexts, NEW t \in SUBSET Slots, NEW v \in Options.delivery
  PROVE  HandleDelivery(c, t, v) \in SUBSET Good
<1>0. Options.delivery = ValuesOf["delivery"]
  BY OptionValues DEF Options
<1> DEFINE kept == Drop(c, {"deliveryAddress", "purpose", "match"})
           u == [kept EXCEPT !.delivery = v]
           rest == t \ {"delivery"}
<1>1. kept \in Contexts
  BY DropTyped
<1> HIDE DEF kept
<1>2. u \in Contexts
  BY <1>0, <1>1, SetFact, FactNames
<1> HIDE DEF u
<1>3. /\ [u EXCEPT !.fulfillment = "equipmentPickup"] \in Contexts
      /\ [u EXCEPT !.fulfillment = NoFact] \in Contexts
  BY <1>2, SetFact, OptionValues, FactNames
<1>4. \A w \in {"equipmentDelivery", NoFact} :
        [c EXCEPT !.delivery = v, !.purpose = "delivery", !.fulfillment = w] \in Contexts
  <2>1. [c EXCEPT !.delivery = v] \in Contexts
    BY <1>0, SetFact, FactNames
  <2>2. [[c EXCEPT !.delivery = v] EXCEPT !.purpose = "delivery"] \in Contexts
    BY <2>1, SetFact, OptionValues, FactNames
  <2>3. \A w \in {"equipmentDelivery", NoFact} :
          [[[c EXCEPT !.delivery = v] EXCEPT !.purpose = "delivery"] EXCEPT !.fulfillment = w]
            \in Contexts
    BY <2>2, SetFact, OptionValues, FactNames
  <2>4. QED
    BY <2>3
<1>5. \A w \in {"equipmentDelivery", NoFact} :
        Out("BOOKING_ADDRESS", [c EXCEPT !.delivery = v, !.purpose = "delivery",
                                         !.fulfillment = w], rest) \in Good
  BY <1>4, ServiceState, StateNames, OutTyped
<1>6. Retry("BOOKING_EQUIPMENT_DELIVERY", "delivery", c, t) \in SUBSET Good
  BY ServiceState, StateNames, SlotNames, RetryTyped
<1>7. /\ Noted(c, [u EXCEPT !.fulfillment = "equipmentPickup"], rest) \in SUBSET Good
      /\ Noted(c, [u EXCEPT !.fulfillment = NoFact], rest) \in SUBSET Good
  BY <1>3, CorrectedGood
<1>8. WithIntake(c, {Out("BOOKING_ADDRESS",
                     [c EXCEPT !.delivery = v, !.purpose = "delivery",
                               !.fulfillment = IF PurchaseOnly(c) THEN "equipmentDelivery"
                                               ELSE NoFact], rest)}) \in SUBSET Good
  BY <1>5, WithIntakeGood
<1>9. CASE v = "pickup"
  BY <1>7, <1>9 DEF HandleDelivery, u, kept
<1>10. CASE v = "withInstallation" /\ c.mode = "both"
  BY <1>7, <1>10 DEF HandleDelivery, u, kept
<1>11. CASE v = "delivery"
  BY <1>8, <1>11 DEF HandleDelivery
<1>12. CASE v \notin {"pickup", "delivery"} /\ ~(v = "withInstallation" /\ c.mode = "both")
  BY <1>6, <1>12 DEF HandleDelivery
<1>13. QED
  BY <1>9, <1>10, <1>11, <1>12

LEMMA HandleMatchGood ==
  ASSUME NEW c \in Contexts, NEW t \in SUBSET Slots, NEW same \in BOOLEAN
  PROVE  HandleMatch(c, t, same) \in SUBSET Good
<1> DEFINE u == [c EXCEPT !.match = NoFact]
           rest == t \ {"delivery"}
<1>1. u \in Contexts
  BY SetFact, FactNames
<1>2. [c EXCEPT !.purpose = "delivery"] \in Contexts
  BY SetFact, OptionValues, FactNames
<1>3. Out("BOOKING_ADDRESS", [c EXCEPT !.purpose = "delivery"], rest) \in Good
  BY <1>2, ServiceState, StateNames, OutTyped
<1>4. [u EXCEPT !.address = c.deliveryAddress] \in Contexts
  <2>1. c.deliveryAddress = NoFact \/ c.deliveryAddress \in ValuesOf["address"]
    BY ContextParts, FactNames, ContentCases
  <2>2. QED
    BY <1>1, <2>1, SetFact, FactNames
<1>5. /\ Noted(c, [u EXCEPT !.address = c.deliveryAddress], rest) \in SUBSET Good
      /\ Noted(c, u, rest) \in SUBSET Good
  BY <1>1, <1>4, CorrectedGood
<1>6. QED
  BY <1>3, <1>5 DEF HandleMatch

LEMMA QuoteDecisionGood ==
  ASSUME NEW c \in Contexts, NEW t \in SUBSET Slots, NEW goOn \in BOOLEAN
  PROVE  HandleQuoteDecision(c, t, goOn) \in SUBSET Good
<1>1. [c EXCEPT !.quoted = "yes"] \in Contexts
  BY SetFact, FlagValues DEF Flags
<1>2. [[c EXCEPT !.quoted = "yes"] EXCEPT !.paused = "yes"] \in Contexts
  BY <1>1, SetFact, FlagValues DEF Flags
<1>3. [[[c EXCEPT !.quoted = "yes"] EXCEPT !.paused = NoFact] EXCEPT !.request = NoFact] \in Contexts
  <2>1. [[c EXCEPT !.quoted = "yes"] EXCEPT !.paused = NoFact] \in Contexts
    BY <1>1, SetFact, FactNames
  <2>2. QED
    BY <2>1, SetFact, FactNames
<1>4. OfferDates([c EXCEPT !.quoted = "yes", !.paused = NoFact, !.request = NoFact], t) \in SUBSET Good
  BY <1>3, DatesGood
<1>5. Out("COMPLETED", [c EXCEPT !.quoted = "yes", !.paused = "yes"], t) \in Good
  BY <1>2, ServiceState, OutTyped
<1>6. QED
  BY <1>4, <1>5 DEF HandleQuoteDecision

-----------------------------------------------------------------------------
(* What the plan and the summary depend on.                                *)

Core == PlanningInputs \cup {"service", "date", "time", "mode"}
Agree(c, d) == \A f \in Core : c[f] = d[f]

LEMMA CoreNames ==
  Core = {"quantity", "access", "address", "deliveryAddress", "delivery", "fulfillment",
          "ownership", "model", "height", "property", "hours", "gate", "tubing", "limit",
          "limitKnown", "room", "taste", "space", "service", "date", "time", "mode"}
  BY DEF Core, PlanningInputs, RecommendationInputs

LEMMA CoreInFacts == Core \subseteq Facts
  BY CoreNames, FactNames

LEMMA DisplayedTyped ==
  ASSUME NEW c \in Contexts
  PROVE  /\ Displayed(c) \in Contexts /\ Planned(c) \in Contexts /\ Stored(c) \in Contexts
         /\ \A v \in Services \cup {NoFact} : [Stored(c) EXCEPT !.service = v] \in Contexts
<1>1. \A a \in {NoFact, AddressUsed(c)} : a = NoFact \/ a \in ValuesOf["address"]
  BY ContextParts, FactNames, ContentCases DEF AddressUsed
<1>2. Displayed(c) \in Contexts
  <2> DEFINE k == Only(c, {"service", "quantity", "date", "time", "fulfillment", "model",
                           "height", "property", "attendeeName", "phone", "mode"})
             a == IF PickedUp(c) THEN NoFact ELSE AddressUsed(c)
             q == IF Known(c, "model") THEN NoFact ELSE c.recommended
  <2>1. k \in Contexts
    BY DropTyped
  <2>2. a = NoFact \/ a \in ValuesOf["address"]
    BY <1>1
  <2>3. q = NoFact \/ q \in ValuesOf["recommended"]
    BY ContextParts, FactNames
  <2>4. Displayed(c) = [k EXCEPT !.address = a, !.recommended = q]
    BY DEF Displayed
  <2> HIDE DEF k, a, q
  <2>5. [k EXCEPT !.address = a] \in Contexts
    BY <2>1, <2>2, SetFact, FactNames
  <2>6. [[k EXCEPT !.address = a] EXCEPT !.recommended = q] \in Contexts
    BY <2>3, <2>5, SetFact, FactNames
  <2>7. QED
    BY <2>4, <2>6
<1>3. Planned(c) \in Contexts
  BY DropTyped DEF Planned
<1>4. Stored(c) \in Contexts
  <2> DEFINE k == Only(c, Operational)
             a == IF PickedUp(c) THEN NoFact ELSE AddressUsed(c)
             q == IF Known(c, "limit") THEN c.limit ELSE c.hours
  <2>1. k \in Contexts
    BY DropTyped
  <2>2. a = NoFact \/ a \in ValuesOf["address"]
    BY <1>1
  <2>3. q = NoFact \/ q \in ValuesOf["limit"]
    <3>1. c.limit = NoFact \/ c.limit \in ValuesOf["limit"]
      BY ContextParts, FactNames
    <3>2. c.hours = NoFact \/ c.hours \in ValuesOf["hours"]
      BY ContextParts, FactNames
    <3>3. c.hours = NoFact \/ c.hours \in ValuesOf["limit"]
      BY <3>2, ContentCases
    <3>4. QED
      BY <3>1, <3>3
  <2>4. Stored(c) = [k EXCEPT !.address = a, !.limit = q]
    BY DEF Stored
  <2> HIDE DEF k, a, q
  <2>5. [k EXCEPT !.address = a] \in Contexts
    BY <2>1, <2>2, SetFact, FactNames
  <2>6. [[k EXCEPT !.address = a] EXCEPT !.limit = q] \in Contexts
    BY <2>3, <2>5, SetFact, FactNames
  <2>7. QED
    BY <2>4, <2>6
<1>5. \A v \in Services \cup {NoFact} : [Stored(c) EXCEPT !.service = v] \in Contexts
  BY <1>4, SetFact, OptionValues, FactNames
<1>6. QED
  BY <1>2, <1>3, <1>4, <1>5

\* Contexts that agree on the core plan the same visit and show the same summary.
LEMMA CoreDecides ==
  ASSUME NEW c \in Contexts, NEW d \in Contexts, Agree(c, d)
  PROVE  /\ Planned(c) = Planned(d)
         /\ Only(Displayed(c), ShownTerms) = Only(Displayed(d), ShownTerms)
         /\ Decidable(c) <=> Decidable(d)
<1>1. Planned(c) = Planned(d)
  BY DEF Planned, Only, Drop, Agree, Core
<1>2. \A f \in Core : c[f] = d[f]
  BY DEF Agree
<1>3. PickedUp(c) <=> PickedUp(d)
  BY <1>2, CoreNames DEF PickedUp, PurchaseOnly
<1>4. AddressUsed(c) = AddressUsed(d)
  BY <1>2, CoreNames DEF AddressUsed, Delivered, PurchaseOnly
<1>5. ASSUME NEW e \in Contexts
      PROVE  /\ \A f \in ShownTerms \ {"address"} : Displayed(e)[f] = e[f]
             /\ Displayed(e).address = IF PickedUp(e) THEN NoFact ELSE AddressUsed(e)
  <2> DEFINE k == Only(e, {"service", "quantity", "date", "time", "fulfillment", "model",
                           "height", "property", "attendeeName", "phone", "mode"})
             a == IF PickedUp(e) THEN NoFact ELSE AddressUsed(e)
             q == IF Known(e, "model") THEN NoFact ELSE e.recommended
  <2>1. k \in Contexts
    BY DropTyped
  <2>2. \A f \in ShownTerms \ {"address"} :
          f \in Facts /\ k[f] = e[f] /\ f # "recommended"
    BY FactNames DEF ShownTerms, Only, Drop
  <2>3. Displayed(e) = [k EXCEPT !.address = a, !.recommended = q]
    BY DEF Displayed
  <2> HIDE DEF k, a, q
  <2>4. k = [f \in Facts |-> k[f]] /\ "address" \in Facts
    BY <2>1, ContextParts, FactNames
  <2>5. Displayed(e).address = a
    BY <2>3, <2>4
  <2>6. \A f \in ShownTerms \ {"address"} : Displayed(e)[f] = k[f]
    BY <2>2, <2>3, <2>4
  <2>7. QED
    BY <2>2, <2>5, <2>6 DEF a
<1>6. \A f \in ShownTerms : Displayed(c)[f] = Displayed(d)[f]
  <2>1. ShownTerms \ {"address"} \subseteq Core
    BY CoreNames DEF ShownTerms
  <2>2. QED
    BY <1>2, <1>3, <1>4, <1>5, <2>1
<1>7. Only(Displayed(c), ShownTerms) = Only(Displayed(d), ShownTerms)
  BY <1>6 DEF Only, Drop
<1>8. Decidable(c) <=> Decidable(d)
  BY <1>2, CoreNames DEF Decidable, Known, Scheduling
<1>9. QED
  BY <1>1, <1>7, <1>8

\* What a message corrects either leaves the core alone or costs the slot.
LEMMA InvalidatedFollows ==
  ASSUME NEW c \in Contexts, NEW d \in Contexts,
         d.date = c.date, d.time = c.time, d.service = c.service,
         Decidable(Invalidated(c, d))
  PROVE  Agree(Invalidated(c, d), c)
<1> DEFINE ch == Changed(c, d)
           e == Invalidated(c, d)
<1>1. /\ e.date # NoFact /\ e.time # NoFact
  BY DEF Decidable, Known, Scheduling
<1>2. \A f \in Facts : e[f] = IF f \in Obsolete(ch, d) THEN NoFact ELSE d[f]
  BY DEF Invalidated, Drop
<1>3. "time" \notin Obsolete(ch, d) /\ "date" \notin Obsolete(ch, d)
  BY <1>1, <1>2, FactNames
<1> HIDE DEF ch, e
<1>4. ch \cap PlanningInputs = {}
  BY <1>3 DEF Obsolete, Scheduling
<1>5. ch \cap PurchaseTerms = {}
  BY <1>3 DEF Obsolete, Scheduling
<1>6. \A f \in Facts : f \notin ch => c[f] = d[f]
  BY DEF ch, Changed
<1>7. "date" \notin ch
  BY DEF ch, Changed
<1>8. Obsolete(ch, d) = {}
  <2>1. ch \cap RecommendationInputs = {} /\ "property" \notin ch
    BY <1>4 DEF PlanningInputs
  <2>2. QED
    BY <1>4, <1>5, <1>7, <2>1 DEF Obsolete
<1>9. \A f \in PlanningInputs \cup {"mode"} : c[f] = d[f]
  BY <1>4, <1>5, <1>6, CoreInFacts DEF Core, PurchaseTerms
<1>10. \A f \in Core : d[f] = c[f]
  BY <1>9 DEF Core
<1>11. QED
  BY <1>2, <1>8, <1>10, CoreInFacts DEF Agree, e, ch

-----------------------------------------------------------------------------
(* The invariant.                                                          *)

Appointment == [facts : Contexts, date : Days, time : Hours, live : BOOLEAN]

Typed ==
  /\ state \in States /\ ctx \in Contexts /\ tries \in SUBSET Slots
  /\ auto \in BOOLEAN /\ named \in BOOLEAN
  /\ appts \in Seq(Appointment)
  /\ shown \in Contexts /\ fitted \in Contexts
  /\ origin \in {"request", "appointment"}
  /\ surprises \in 0 .. MaxSurprises

\* While the customer decides, the last summary showed what is known now.
SummaryIsCurrent ==
  state = "BOOKING_CONFIRM" /\ Decidable(ctx) =>
      Only(Displayed(ctx), ShownTerms) = Only(shown, ShownTerms)

DialogueInv == Typed /\ SlotFitsPlan /\ SummaryIsCurrent

-----------------------------------------------------------------------------
(* Messages and outcomes, in a state.                                      *)

\* Nothing that the plan depends on has changed, or the slot is lost.
Follows(c) == Decidable(c) => Agree(c, ctx)

\* An outcome in one of the last questions has chosen the time anew, or was
\* already there and follows what was known.
Continues(o) ==
  /\ o.state \in Closing => o.picks \/ (~o.fresh /\ state \in Closing /\ Follows(o.ctx))
  /\ o.state = "BOOKING_CONFIRM" =>
        o.shows \/ (~o.fresh /\ state = "BOOKING_CONFIRM" /\ Follows(o.ctx))
Fine == {o \in Outcomes : Continues(o)}

\* A message as it is read.
Readable(r) ==
  /\ r \in [ctx : Contexts, tries : SUBSET Slots, named : BOOLEAN, cost : {0, 1}]
  /\ Follows(r.ctx)

LEMMA GoodIsFine == Good \subseteq Fine
  BY DEF Good, Fine, Offered, Continues

LEMMA FineMarked ==
  ASSUME NEW S \in SUBSET Fine
  PROVE  Adverse(S) \in SUBSET Fine
<1>1. \A o \in Fine : [o EXCEPT !.cost = 1] \in Fine
  BY DEF Fine, Outcomes, Continues
<1>2. QED
  BY <1>1 DEF Adverse

\* A fact outside the core changes nothing of that.
LEMMA SetFollows ==
  ASSUME NEW c \in Contexts, Follows(c), NEW f \in Facts \ Core, NEW v
  PROVE  Follows([c EXCEPT ![f] = v])
<1> DEFINE d == [c EXCEPT ![f] = v]
<1>1. \A g \in Core : d[g] = c[g]
  BY CoreInFacts, ContextParts
<1> HIDE DEF d
<1>2. Decidable(d) <=> Decidable(c)
  BY <1>1, CoreNames DEF Decidable, Known, Scheduling
<1>3. Follows(d)
  BY <1>1, <1>2 DEF Follows, Agree
<1>4. QED
  BY <1>3 DEF d

LEMMA DropFollows ==
  ASSUME NEW c \in Contexts, Follows(c), NEW S, S \cap Core = {}
  PROVE  Follows(Drop(c, S))
<1> DEFINE d == Drop(c, S)
<1>1. \A g \in Core : d[g] = c[g]
  BY CoreInFacts DEF Drop
<1> HIDE DEF d
<1>2. Decidable(d) <=> Decidable(c)
  BY <1>1, CoreNames DEF Decidable, Known, Scheduling
<1>3. Follows(d)
  BY <1>1, <1>2 DEF Follows, Agree
<1>4. QED
  BY <1>3 DEF d

LEMMA KeptFine ==
  ASSUME NEW c, NEW S \in SUBSET Fine
  PROVE  Kept(c, S) \in SUBSET Fine
<1>1. ASSUME NEW o \in Fine
      PROVE  [o EXCEPT !.ctx.nameSkipped = "yes"] \in Fine
  <2> DEFINE d == [o.ctx EXCEPT !.nameSkipped = "yes"]
             p == [o EXCEPT !.ctx = d]
  <2>1. o \in Outcomes /\ Continues(o) /\ o.ctx \in Contexts
    BY DEF Fine, Outcomes
  <2>2. d \in Contexts
    BY <2>1, SetFact, FlagValues DEF Flags
  <2>3. "nameSkipped" \in Facts \ Core
    BY FactNames, CoreNames
  <2>4. Follows(o.ctx) => Follows(d)
    BY <2>1, <2>3, SetFollows
  <2> HIDE DEF d
  <2>5. p \in Outcomes /\ p.state = o.state /\ p.ctx = d /\ p.picks = o.picks
        /\ p.shows = o.shows /\ p.fresh = o.fresh
    BY <2>1, <2>2 DEF Outcomes
  <2> HIDE DEF p
  <2>6. p \in Fine
    BY <2>1, <2>4, <2>5 DEF Fine, Continues
  <2>7. QED
    BY <2>6 DEF p, d
<1>2. QED
  BY <1>1 DEF Kept

LEMMA TapReadable ==
  ASSUME Typed
  PROVE  Readable(Tap)
  BY DEF Typed, Readable, Tap, Follows, Agree

\* What a text adds or corrects.
LEMMA EnrichedFollows ==
  ASSUME NEW c \in Contexts, Follows(c), NEW say \in Sayings
  PROVE  Enriched(c, say) \in Contexts /\ Follows(Enriched(c, say))
<1>1. CASE say.fact = NoFact
  BY <1>1 DEF Enriched
<1>2. CASE say.fact # NoFact
  <2> DEFINE d == Extracted(c, say)
             kept == IF Accepts(c, say) THEN [c EXCEPT ![say.fact] = say.value] ELSE c
  <2>1. say.fact \in TextFacts /\ say.value \in Said(say.fact)
    BY <1>2 DEF Sayings, Silent
  <2>2. say.fact \in FreeFacts \cup DOMAIN Options
    BY <2>1, OptionNames DEF TextFacts, FreeFacts
  <2>3. say.fact \in Facts /\ say.value \in ValuesOf[say.fact]
    BY <2>1, <2>2, SaidValues
  <2>4. kept \in Contexts
    BY <2>3, SetFact
  <2>5. kept.date = c.date /\ kept.time = c.time /\ kept.service = c.service
    BY <2>1, <2>3, FactNames, ContextParts DEF TextFacts
  <2> HIDE DEF kept
  <2>6. [kept EXCEPT !.modelKnown = "yes"] \in Contexts /\ [kept EXCEPT !.attendee = "other"] \in Contexts
    BY <2>4, SetFact, OptionValues, FactNames
  <2>7. d \in Contexts /\ d.date = c.date /\ d.time = c.time /\ d.service = c.service
    BY <2>4, <2>5, <2>6 DEF Extracted, kept
  <2> HIDE DEF d
  <2>8. Invalidated(c, d) \in Contexts
    BY <2>7, InvalidatedTyped
  <2>9. Decidable(Invalidated(c, d)) => Agree(Invalidated(c, d), c)
    BY <2>7, InvalidatedFollows
  <2>10. Follows(Invalidated(c, d))
    BY <2>9, CoreNames DEF Follows, Agree, Decidable, Known, Scheduling
  <2>11. Enriched(c, say) = Invalidated(c, d)
    BY <1>2 DEF Enriched, d
  <2>12. QED
    BY <2>8, <2>10, <2>11
<1>3. QED
  BY <1>1, <1>2

LEMMA TextReadable ==
  ASSUME Typed, NEW say \in Sayings, NEW introduced \in BOOLEAN
  PROVE  Readable(Text(say, introduced))
<1> DEFINE heard == Drop(ctx, {"media"})
           c == Drop(Enriched(heard, say), IF introduced THEN {"nameSkipped"} ELSE {})
<1>1. ctx \in Contexts /\ Follows(ctx)
  BY DEF Typed, Follows, Agree
<1>2. heard \in Contexts /\ Follows(heard)
  <2>1. {"media"} \cap Core = {}
    BY CoreNames
  <2>2. QED
    BY <1>1, <2>1, DropTyped, DropFollows
<1> HIDE DEF heard
<1>3. c \in Contexts /\ Follows(c)
  <2>1. (IF introduced THEN {"nameSkipped"} ELSE {}) \cap Core = {}
    BY CoreNames
  <2>2. Enriched(heard, say) \in Contexts /\ Follows(Enriched(heard, say))
    BY <1>2, EnrichedFollows
  <2>3. QED
    BY <2>1, <2>2, DropTyped, DropFollows
<1>4. Text(say, introduced).ctx = c
  BY DEF Text, heard
<1> HIDE DEF c
<1>5. Text(say, introduced) \in [ctx : Contexts, tries : SUBSET Slots, named : BOOLEAN, cost : {0, 1}]
  <2> DEFINE t == IF Known(ctx, "media") THEN tries \ {"media"} ELSE tries
             n == named \/ introduced
             k == IF say = Silent /\ ~introduced THEN 0 ELSE 1
  <2>1. Text(say, introduced) = [ctx |-> Text(say, introduced).ctx, tries |-> t, named |-> n, cost |-> k]
    BY DEF Text
  <2>2. t \in SUBSET Slots /\ n \in BOOLEAN /\ k \in {0, 1}
    BY DEF Typed
  <2> HIDE DEF t, n, k
  <2>3. QED
    BY <1>3, <1>4, <2>1, <2>2
<1>6. QED
  BY <1>3, <1>4, <1>5 DEF Readable

LEMMA MessagesReadable ==
  ASSUME Typed
  PROVE  \A r \in Messages : Readable(r)
<1>1. Silent \in Sayings
  BY DEF Sayings
<1>2. \A r \in Texts : Readable(r)
  <2>1. \A say \in Sayings, introduced \in BOOLEAN : Readable(Text(say, introduced))
    BY TextReadable
  <2>2. Readable(Text(Silent, FALSE))
    BY <1>1, <2>1
  <2>3. Remarks \subseteq Sayings
    BY DEF Remarks
  <2>4. \A r \in UNION {{Text(say, introduced) : introduced \in BOOLEAN} : say \in Remarks} :
          Readable(r)
    BY <2>1, <2>3
  <2>5. QED
    BY <2>2, <2>4 DEF Texts
<1>3. QED
  BY <1>2, TapReadable DEF Messages

-----------------------------------------------------------------------------
(* A turn.                                                                 *)

LEMMA LeadsStep ==
  ASSUME DialogueInv, NEW r, r.named \in BOOLEAN, r.cost \in {0, 1},
         NEW o \in Fine, Leads(r, o),
         origin' \in {"request", "appointment"}, appts' \in Seq(Appointment)
  PROVE  DialogueInv'
<1>1. o \in Outcomes /\ Continues(o)
  BY DEF Fine
<1>2. /\ o.state \in States /\ o.ctx \in Contexts /\ o.tries \in SUBSET Slots
      /\ o.cost \in {0, 1}
  BY <1>1 DEF Outcomes
<1>3. state' = o.state /\ ctx' = o.ctx /\ tries' = o.tries /\ named' = r.named
  BY DEF Leads
<1>4. /\ Displayed(o.ctx) \in Contexts /\ Planned(o.ctx) \in Contexts /\ NoContext \in Contexts
  BY <1>2, DisplayedTyped, EmptyTyped
<1>5. Typed
  BY DEF DialogueInv
<1>6. Typed'
  <2>1. state' \in States /\ ctx' \in Contexts /\ tries' \in SUBSET Slots /\ named' \in BOOLEAN
    BY <1>2, <1>3
  <2>2. auto' \in BOOLEAN
    BY DEF Leads
  <2>3. shown' \in Contexts
    BY <1>4, <1>5 DEF Leads, Typed
  <2>4. fitted' \in Contexts
    BY <1>4, <1>5 DEF Leads, Typed
  <2>5. surprises' \in 0 .. MaxSurprises
    <3>1. surprises \in Nat /\ surprises \in 0 .. MaxSurprises /\ MaxSurprises \in Nat
      BY <1>5, TurnAssumption DEF Typed
    <3>2. /\ surprises' = surprises + r.cost + o.cost
          /\ surprises + r.cost + o.cost <= MaxSurprises
      BY DEF Leads
    <3>3. QED
      BY <1>2, <3>1, <3>2
  <2>6. QED
    BY <2>1, <2>2, <2>3, <2>4, <2>5 DEF Typed
<1>7. SlotFitsPlan'
  <2>1. CASE o.picks
    BY <1>3, <2>1 DEF Leads, SlotFitsPlan
  <2>2. CASE ~o.picks /\ o.state \in Closing
    <3>1. ~o.fresh /\ state \in Closing /\ Follows(o.ctx)
      BY <1>1, <2>2 DEF Continues
    <3>2. fitted' = fitted
      BY <2>2, <3>1 DEF Leads
    <3>3. Decidable(o.ctx) => Agree(o.ctx, ctx)
      BY <3>1 DEF Follows
    <3>4. ctx \in Contexts
      BY <1>5 DEF Typed
    <3>5. Decidable(o.ctx) => Planned(o.ctx) = Planned(ctx) /\ Decidable(ctx)
      BY <1>2, <3>3, <3>4, CoreDecides
    <3>6. Decidable(o.ctx) => Planned(o.ctx) = fitted
      BY <3>1, <3>5 DEF DialogueInv, SlotFitsPlan
    <3>7. QED
      BY <1>3, <3>2, <3>6 DEF SlotFitsPlan
  <2>3. CASE o.state \notin Closing
    <3>1. state' \notin Closing
      BY <1>3, <2>3
    <3>2. QED
      BY <3>1 DEF SlotFitsPlan, Closing
  <2>4. QED
    BY <2>1, <2>2, <2>3
<1>8. SummaryIsCurrent'
  <2>1. CASE o.shows
    BY <1>3, <2>1 DEF Leads, SummaryIsCurrent
  <2>2. CASE ~o.shows /\ o.state = "BOOKING_CONFIRM"
    <3>1. ~o.fresh /\ state = "BOOKING_CONFIRM" /\ Follows(o.ctx)
      BY <1>1, <2>2 DEF Continues
    <3>2. shown' = shown
      BY <2>2, <3>1 DEF Leads
    <3>3. Decidable(o.ctx) => Agree(o.ctx, ctx)
      BY <3>1 DEF Follows
    <3>4. ctx \in Contexts
      BY <1>5 DEF Typed
    <3>5. Decidable(o.ctx) =>
            Only(Displayed(o.ctx), ShownTerms) = Only(Displayed(ctx), ShownTerms) /\ Decidable(ctx)
      BY <1>2, <3>3, <3>4, CoreDecides
    <3>6. Decidable(o.ctx) => Only(Displayed(o.ctx), ShownTerms) = Only(shown, ShownTerms)
      BY <3>1, <3>5 DEF DialogueInv, SummaryIsCurrent
    <3>7. QED
      BY <1>3, <3>2, <3>6 DEF SummaryIsCurrent
  <2>3. CASE o.state # "BOOKING_CONFIRM"
    BY <1>3, <2>3 DEF SummaryIsCurrent
  <2>4. QED
    BY <2>1, <2>2, <2>3
<1>9. QED
  BY <1>6, <1>7, <1>8 DEF DialogueInv

LEMMA EndsStep ==
  ASSUME DialogueInv, NEW r, Readable(r), NEW S \in SUBSET Fine, Ends(r, S)
  PROVE  DialogueInv'
<1>1. PICK o \in S : Leads(r, o) /\ origin' = IF o.fresh THEN "request" ELSE origin
  BY DEF Ends
<1>2. appts' \in Seq(Appointment) /\ origin' \in {"request", "appointment"}
  BY <1>1 DEF Ends, DialogueInv, Typed
<1>3. QED
  BY <1>1, <1>2, LeadsStep DEF Readable

LEMMA RoutedStep ==
  ASSUME DialogueInv, NEW r, Readable(r), NEW S \in SUBSET Fine, Routed(r, S)
  PROVE  DialogueInv'
<1>1. Kept(r.ctx, S) \in SUBSET Fine
  BY KeptFine
<1>2. QED
  BY <1>1, EndsStep DEF Routed

\* To stay in a state with what follows is fine, and so is every outcome that
\* leaves the last questions.
LEMMA StayFine ==
  ASSUME Typed, NEW c \in Contexts, Follows(c), NEW t \in SUBSET Slots
  PROVE  /\ Out(state, c, t) \in Fine
         /\ \A slot \in Slots : Retry(state, slot, c, t) \in SUBSET Fine
         /\ Resume(state, c, t) \in SUBSET Fine
<1>0. state \in States
  BY DEF Typed
<1>1. ASSUME NEW u \in SUBSET Slots
      PROVE  Out(state, c, u) \in Fine
  <2>1. Out(state, c, u) \in Outcomes
    BY <1>0, OutTyped
  <2>2. /\ Out(state, c, u).state = state /\ Out(state, c, u).ctx = c
        /\ Out(state, c, u).fresh = FALSE
    BY DEF Out
  <2>3. QED
    BY <2>1, <2>2 DEF Fine, Continues
<1>2. Person \in Fine
  BY PersonGood, GoodIsFine
<1>3. ASSUME NEW slot \in Slots
      PROVE  Retry(state, slot, c, t) \in SUBSET Fine
  <2>1. Out(state, c, t \cup {slot}) \in Fine
    BY <1>1
  <2>2. {IF slot \in t THEN Person ELSE Out(state, c, t \cup {slot})} \in SUBSET Fine
    BY <1>2, <2>1
  <2>3. QED
    BY <2>2, FineMarked DEF Retry
<1>4. Resume(state, c, t) \in SUBSET Fine
  <2>1. Restart \in SUBSET Fine
    BY RestartGood, GoodIsFine
  <2>2. Out("BOOKING_DATE", c, t) \in Fine
    BY AgendaStates, OutTyped, GoodIsFine
  <2>3. QED
    BY <1>1, <2>1, <2>2 DEF Resume
<1>5. QED
  BY <1>1, <1>3, <1>4

LEMMA GoodRouted ==
  ASSUME DialogueInv, NEW r, Readable(r), NEW S \in SUBSET Good, Routed(r, S) \/ Ends(r, S)
  PROVE  DialogueInv'
  BY GoodIsFine, RoutedStep, EndsStep

\* Routes to the handlers of the intake, with the question asked again.
LEMMA RetryAskedGood ==
  ASSUME Typed, NEW r, Readable(r), state \notin Closing, NEW slot \in Slots
  PROVE  Retry(state, slot, r.ctx, r.tries) \in SUBSET Good
  BY RetryTyped DEF Typed, Readable

-----------------------------------------------------------------------------
(* The answers.                                                            *)

LEMMA MessagesTyped ==
  ASSUME Typed
  PROVE  /\ Texts \subseteq Messages
         /\ \A r \in Messages : r.ctx \in Contexts /\ r.tries \in SUBSET Slots
  BY MessagesReadable DEF Messages, Readable

\* An answer to a question of the intake or of the agenda, which is asked again
\* when the answer fails.
LEMMA AnswerStep ==
  ASSUME DialogueInv, state \notin Closing, NEW r \in Messages, NEW S \in SUBSET Good,
         NEW slot \in Slots,
         Routed(r, S) \/ Routed(r, S \cup Retry(state, slot, r.ctx, r.tries))
  PROVE  DialogueInv'
<1>1. Typed
  BY DEF DialogueInv
<1>2. Readable(r)
  BY <1>1, MessagesReadable
<1>3. Retry(state, slot, r.ctx, r.tries) \in SUBSET Good
  BY <1>1, <1>2, RetryAskedGood
<1>4. S \cup Retry(state, slot, r.ctx, r.tries) \in SUBSET Good
  BY <1>3
<1>5. QED
  BY <1>2, <1>4, GoodRouted

LEMMA IntakeAnswered ==
  ASSUME DialogueInv,
         \/ AnswerService \/ AnswerQuantity \/ AnswerAccess \/ AnswerAddress \/ AnswerOwnership
         \/ AnswerModel \/ AnswerProfile \/ AnswerHeight \/ AnswerProperty \/ AnswerHours
         \/ AnswerGate \/ AnswerLimit
  PROVE  DialogueInv'
<1>1. Typed
  BY DEF DialogueInv
<1>2. Texts \subseteq Messages /\ \A r \in Messages : r.ctx \in Contexts /\ r.tries \in SUBSET Slots
  BY <1>1, MessagesTyped
<1>3. CASE AnswerService
  <2>1. PICK r \in Messages : Routed(r, HandleService(r.ctx, r.tries))
    BY <1>3 DEF AnswerService
  <2>2. HandleService(r.ctx, r.tries) \in SUBSET Good
    BY <1>2, <2>1, HandleServiceGood
  <2>3. state \notin Closing
    BY <1>3 DEF AnswerService, Closing
  <2>4. QED
    BY <1>2, <2>1, <2>2, <2>3, SlotNames, AnswerStep
<1>4. CASE AnswerQuantity
  <2>1. PICK r \in Messages : Routed(r,
           (UNION {HandleQuantity(r.ctx, r.tries, v) : v \in Contents.quantity})
             \cup Retry(state, "quantity", r.ctx, r.tries))
    BY <1>4 DEF AnswerQuantity
  <2>2. \A v \in Contents.quantity : HandleQuantity(r.ctx, r.tries, v) \in SUBSET Good
    BY <1>2, <2>1, PlainAnswersGood
  <2>3. UNION {HandleQuantity(r.ctx, r.tries, v) : v \in Contents.quantity} \in SUBSET Good
    BY <2>2
  <2>4. state \notin Closing
    BY <1>4 DEF AnswerQuantity, Closing
  <2>5. QED
    BY <1>2, <2>1, <2>3, <2>4, SlotNames, AnswerStep
<1>5. CASE AnswerAccess
  <2>1. PICK r \in Messages : Routed(r,
           (UNION {HandleAccess(r.ctx, r.tries, v) : v \in Contents.access})
             \cup Retry(state, "access", r.ctx, r.tries))
    BY <1>5 DEF AnswerAccess
  <2>2. \A v \in Contents.access : HandleAccess(r.ctx, r.tries, v) \in SUBSET Good
    BY <1>2, <2>1, PlainAnswersGood
  <2>3. UNION {HandleAccess(r.ctx, r.tries, v) : v \in Contents.access} \in SUBSET Good
    BY <2>2
  <2>4. state \notin Closing
    BY <1>5 DEF AnswerAccess, Closing
  <2>5. QED
    BY <1>2, <2>1, <2>3, <2>4, SlotNames, AnswerStep
<1>6. CASE AnswerAddress
  <2>1. PICK r \in Texts : Routed(r, HandleAddress(r.ctx, r.tries))
    BY <1>6 DEF AnswerAddress
  <2>2. HandleAddress(r.ctx, r.tries) \in SUBSET Good
    BY <1>2, <2>1, HandleAddressGood
  <2>3. state \notin Closing
    BY <1>6 DEF AnswerAddress, Closing
  <2>4. QED
    BY <1>2, <2>1, <2>2, <2>3, SlotNames, AnswerStep
<1>7. CASE AnswerOwnership
  <2>1. PICK r \in Messages : Routed(r,
           (UNION {HandleOwnership(r.ctx, r.tries, v) : v \in Options.ownership})
             \cup Retry(state, "ownership", r.ctx, r.tries))
    BY <1>7 DEF AnswerOwnership
  <2>2. \A v \in Options.ownership : HandleOwnership(r.ctx, r.tries, v) \in SUBSET Good
    BY <1>2, <2>1, HandleOwnershipGood
  <2>3. UNION {HandleOwnership(r.ctx, r.tries, v) : v \in Options.ownership} \in SUBSET Good
    BY <2>2
  <2>4. state \notin Closing
    BY <1>7 DEF AnswerOwnership, Closing
  <2>5. QED
    BY <1>2, <2>1, <2>3, <2>4, SlotNames, AnswerStep
<1>8. CASE AnswerModel
  <2>1. PICK r \in Messages : Routed(r, HandleModel(r.ctx, r.tries))
    BY <1>8 DEF AnswerModel
  <2>2. HandleModel(r.ctx, r.tries) \in SUBSET Good
    BY <1>2, <2>1, HandleModelGood
  <2>3. state \notin Closing
    BY <1>8 DEF AnswerModel, Closing
  <2>4. QED
    BY <1>2, <2>1, <2>2, <2>3, SlotNames, AnswerStep
<1>9. CASE AnswerHeight
  <2>1. PICK r \in Messages : Routed(r,
           (UNION {HandleHeight(r.ctx, r.tries, v) : v \in Contents.height})
             \cup Retry(state, "height", r.ctx, r.tries))
    BY <1>9 DEF AnswerHeight
  <2>2. \A v \in Contents.height : HandleHeight(r.ctx, r.tries, v) \in SUBSET Good
    BY <1>2, <2>1, PlainAnswersGood
  <2>3. UNION {HandleHeight(r.ctx, r.tries, v) : v \in Contents.height} \in SUBSET Good
    BY <2>2
  <2>4. state \notin Closing
    BY <1>9 DEF AnswerHeight, Closing
  <2>5. QED
    BY <1>2, <2>1, <2>3, <2>4, SlotNames, AnswerStep
<1>10. CASE AnswerProperty
  <2>1. PICK r \in Messages : Routed(r,
           (UNION {HandleProperty(r.ctx, r.tries, v) : v \in Options.property})
             \cup Retry(state, "property", r.ctx, r.tries))
    BY <1>10 DEF AnswerProperty
  <2>2. \A v \in Options.property : HandleProperty(r.ctx, r.tries, v) \in SUBSET Good
    BY <1>2, <2>1, PlainAnswersGood
  <2>3. UNION {HandleProperty(r.ctx, r.tries, v) : v \in Options.property} \in SUBSET Good
    BY <2>2
  <2>4. state \notin Closing
    BY <1>10 DEF AnswerProperty, Closing
  <2>5. QED
    BY <1>2, <2>1, <2>3, <2>4, SlotNames, AnswerStep
<1>11. CASE AnswerHours
  <2>1. PICK r \in Texts : Routed(r,
           (UNION {HandleHours(r.ctx, r.tries, v) : v \in Contents.hours})
             \cup Retry(state, "hours", r.ctx, r.tries))
    BY <1>11 DEF AnswerHours
  <2>2. \A v \in Contents.hours : HandleHours(r.ctx, r.tries, v) \in SUBSET Good
    BY <1>2, <2>1, PlainAnswersGood
  <2>3. UNION {HandleHours(r.ctx, r.tries, v) : v \in Contents.hours} \in SUBSET Good
    BY <2>2
  <2>4. state \notin Closing
    BY <1>11 DEF AnswerHours, Closing
  <2>5. QED
    BY <1>2, <2>1, <2>3, <2>4, SlotNames, AnswerStep
<1>12. CASE AnswerGate
  <2>1. PICK r \in Texts : Routed(r,
           (UNION {HandleGate(r.ctx, r.tries, v) : v \in Contents.gate})
             \cup Retry(state, "gate", r.ctx, r.tries))
    BY <1>12 DEF AnswerGate
  <2>2. \A v \in Contents.gate : HandleGate(r.ctx, r.tries, v) \in SUBSET Good
    BY <1>2, <2>1, PlainAnswersGood
  <2>3. UNION {HandleGate(r.ctx, r.tries, v) : v \in Contents.gate} \in SUBSET Good
    BY <2>2
  <2>4. state \notin Closing
    BY <1>12 DEF AnswerGate, Closing
  <2>5. QED
    BY <1>2, <2>1, <2>3, <2>4, SlotNames, AnswerStep
<1>13. CASE AnswerLimit
  <2>1. PICK r \in Messages : Routed(r,
           (UNION {HandleLimit(r.ctx, r.tries, v) : v \in Contents.limit \cup {NoFact}})
             \cup Retry(state, "limit", r.ctx, r.tries))
    BY <1>13 DEF AnswerLimit
  <2>2. \A v \in Contents.limit \cup {NoFact} : HandleLimit(r.ctx, r.tries, v) \in SUBSET Good
    BY <1>2, <2>1, HandleLimitGood
  <2>3. UNION {HandleLimit(r.ctx, r.tries, v) : v \in Contents.limit \cup {NoFact}} \in SUBSET Good
    BY <2>2
  <2>4. state \notin Closing
    BY <1>13 DEF AnswerLimit, Closing
  <2>5. QED
    BY <1>2, <2>1, <2>3, <2>4, SlotNames, AnswerStep
<1>14. CASE AnswerProfile
  <2>1. PICK r \in Messages :
          Routed(r, (UNION {HandleProfile(r.ctx, r.tries, NextProfileFact(r.ctx), v) :
                                v \in Contents[NextProfileFact(r.ctx)]})
                       \cup Retry(state, NextProfileFact(r.ctx), r.ctx, r.tries))
    BY <1>14 DEF AnswerProfile
  <2>2. PICK f \in {"room", "taste", "space"} : f = NextProfileFact(r.ctx)
    BY ProfileFactNames
  <2>3. r.ctx \in Contexts /\ r.tries \in SUBSET Slots
    BY <1>2, <2>1
  <2>4. \A v \in Contents[f] : HandleProfile(r.ctx, r.tries, f, v) \in SUBSET Good
    BY <2>3, HandleProfileGood
  <2>5. UNION {HandleProfile(r.ctx, r.tries, f, v) : v \in Contents[f]} \in SUBSET Good
    BY <2>4
  <2>6. state \notin Closing
    BY <1>14 DEF AnswerProfile, Closing
  <2>7. QED
    BY <2>1, <2>2, <2>5, <2>6, SlotNames, AnswerStep
<1>15. QED
  BY <1>3, <1>4, <1>5, <1>6, <1>7, <1>8, <1>9, <1>10, <1>11, <1>12, <1>13, <1>14

LEMMA AgendaAnswered ==
  ASSUME DialogueInv,
         \/ SendPhotoOrVideo \/ AnswerDelivery \/ AnswerTubing \/ AnswerWeekday
         \/ AnswerDate \/ AnswerTime \/ AnswerQuote
  PROVE  DialogueInv'
<1>1. Typed
  BY DEF DialogueInv
<1>2. Texts \subseteq Messages /\ \A r \in Messages : r.ctx \in Contexts /\ r.tries \in SUBSET Slots
  BY <1>1, MessagesTyped
<1>3. CASE SendPhotoOrVideo
  <2>1. Routed(Tap, VideoReceived(ctx, tries) \cup PhotoReceived(ctx, tries))
    BY <1>3 DEF SendPhotoOrVideo
  <2>2. VideoReceived(ctx, tries) \cup PhotoReceived(ctx, tries) \in SUBSET Good
    BY <1>1, MediaReceivedGood DEF Typed
  <2>3. QED
    BY <1>1, <2>1, <2>2, TapReadable, GoodRouted
<1>4. CASE AnswerDelivery
  <2>1. PICK r \in Messages :
          LET means == UNION {HandleDelivery(r.ctx, r.tries, v) : v \in Options.delivery}
              place == UNION {HandleMatch(r.ctx, r.tries, same) : same \in BOOLEAN}
          IN  Routed(r, (IF Known(r.ctx, "match") THEN place \cup Adverse(means)
                         ELSE means \cup Adverse(place))
                            \cup Retry(state, "delivery", r.ctx, r.tries))
    BY <1>4 DEF AnswerDelivery
  <2> DEFINE means == UNION {HandleDelivery(r.ctx, r.tries, v) : v \in Options.delivery}
             place == UNION {HandleMatch(r.ctx, r.tries, same) : same \in BOOLEAN}
             S == IF Known(r.ctx, "match") THEN place \cup Adverse(means)
                  ELSE means \cup Adverse(place)
  <2>2. r.ctx \in Contexts /\ r.tries \in SUBSET Slots
    BY <1>2
  <2>3. \A v \in Options.delivery : HandleDelivery(r.ctx, r.tries, v) \in SUBSET Good
    BY <2>2, HandleDeliveryGood
  <2>4. \A same \in BOOLEAN : HandleMatch(r.ctx, r.tries, same) \in SUBSET Good
    BY <2>2, HandleMatchGood
  <2>5. means \in SUBSET Good /\ place \in SUBSET Good
    BY <2>3, <2>4
  <2>6. Routed(r, S \cup Retry(state, "delivery", r.ctx, r.tries))
    BY <2>1
  <2> HIDE DEF means, place
  <2>7. S \in SUBSET Good
    BY <2>5, AdverseGood
  <2> HIDE DEF S
  <2>8. state \notin Closing
    BY <1>4 DEF AnswerDelivery, Closing
  <2>9. QED
    BY <2>6, <2>7, <2>8, SlotNames, AnswerStep
<1>5. CASE AnswerTubing
  <2>1. PICK r \in Messages : Routed(r,
          UNION {UNION {HandleTubing(r.ctx, r.tries, v) : v \in Contents.tubing \cup {"unknown"}},
                 UNION {TubingUnsure(r.ctx, r.tries, v) : v \in Contents.tubing},
                 TubingConfirmed(r.ctx, r.tries), Retry(state, "tubing", r.ctx, r.tries)})
    BY <1>5 DEF AnswerTubing
  <2> DEFINE told == UNION {HandleTubing(r.ctx, r.tries, v) : v \in Contents.tubing \cup {"unknown"}}
             unsure == UNION {TubingUnsure(r.ctx, r.tries, v) : v \in Contents.tubing}
             again == Retry(state, "tubing", r.ctx, r.tries)
  <2>2. r.ctx \in Contexts /\ r.tries \in SUBSET Slots
    BY <1>2
  <2>3. \A v \in Contents.tubing \cup {"unknown"} :
          HandleTubing(r.ctx, r.tries, v) \in SUBSET Good
    BY <2>2, TubingGood
  <2>4. \A v \in Contents.tubing : TubingUnsure(r.ctx, r.tries, v) \in SUBSET Good
    BY <2>2, TubingGood
  <2>5. told \in SUBSET Good
    BY <2>3
  <2>6. unsure \in SUBSET Good
    BY <2>4
  <2>7. TubingConfirmed(r.ctx, r.tries) \in SUBSET Good
    BY <2>2, TubingGood
  <2>8. state \notin Closing
    BY <1>5 DEF AnswerTubing, Closing
  <2>9. again \in SUBSET Good
    BY <1>1, <2>8, MessagesReadable, RetryAskedGood, SlotNames
  <2>10. Routed(r, UNION {told, unsure, TubingConfirmed(r.ctx, r.tries), again})
    BY <2>1
  <2> HIDE DEF told, unsure, again
  <2>11. UNION {told, unsure, TubingConfirmed(r.ctx, r.tries), again} \in SUBSET Good
    BY <2>5, <2>6, <2>7, <2>9
  <2>12. QED
    BY <1>1, <2>10, <2>11, MessagesReadable, GoodRouted
<1>6. CASE AnswerWeekday
  <2>1. PICK r \in Messages : Routed(r, HandleWeekday(r.ctx, r.tries))
    BY <1>6 DEF AnswerWeekday
  <2>2. HandleWeekday(r.ctx, r.tries) \in SUBSET Good
    BY <1>2, HandleWeekdayGood
  <2>3. QED
    BY <1>1, <2>1, <2>2, MessagesReadable, GoodRouted
<1>7. CASE AnswerDate
  <2>1. PICK r \in Messages : Routed(r,
          (UNION {HandleDate(r.ctx, r.tries, d, TRUE) : d \in Days}) \cup DateUnclear(r.ctx, r.tries))
    BY <1>7 DEF AnswerDate
  <2>2. r.ctx \in Contexts /\ r.tries \in SUBSET Slots
    BY <1>2
  <2>3. /\ \A d \in Days : HandleDate(r.ctx, r.tries, d, TRUE) \in SUBSET Good
        /\ DateUnclear(r.ctx, r.tries) \in SUBSET Good
    BY <2>2, HandleDateGood
  <2>4. (UNION {HandleDate(r.ctx, r.tries, d, TRUE) : d \in Days}) \cup DateUnclear(r.ctx, r.tries)
           \in SUBSET Good
    BY <2>3
  <2>5. QED
    BY <1>1, <2>1, <2>4, MessagesReadable, GoodRouted
<1>8. CASE AnswerTime
  <2>1. PICK r \in Messages : Routed(r, UNION {HandleTime(r.ctx, r.tries, h) : h \in Hours})
    BY <1>8 DEF AnswerTime
  <2>2. r.ctx \in Contexts /\ r.tries \in SUBSET Slots
    BY <1>2
  <2>3. \A h \in Hours : HandleTime(r.ctx, r.tries, h) \in SUBSET Good
    BY <2>2, HandleTimeGood
  <2>4. UNION {HandleTime(r.ctx, r.tries, h) : h \in Hours} \in SUBSET Good
    BY <2>3
  <2>5. QED
    BY <1>1, <2>1, <2>4, MessagesReadable, GoodRouted
<1>9. CASE AnswerQuote
  <2>1. PICK r \in Messages :
          Routed(r, (UNION {HandleQuoteDecision(r.ctx, r.tries, goOn) : goOn \in BOOLEAN})
                       \cup Retry(state, "quote_decision", r.ctx, r.tries))
    BY <1>9 DEF AnswerQuote
  <2>2. r.ctx \in Contexts /\ r.tries \in SUBSET Slots
    BY <1>2
  <2>3. \A goOn \in BOOLEAN : HandleQuoteDecision(r.ctx, r.tries, goOn) \in SUBSET Good
    BY <2>2, QuoteDecisionGood
  <2>4. UNION {HandleQuoteDecision(r.ctx, r.tries, goOn) : goOn \in BOOLEAN} \in SUBSET Good
    BY <2>3
  <2>5. state \notin Closing
    BY <1>9 DEF AnswerQuote, Closing
  <2>6. QED
    BY <2>1, <2>4, <2>5, SlotNames, AnswerStep
<1>10. QED
  BY <1>3, <1>4, <1>5, <1>6, <1>7, <1>8, <1>9

-----------------------------------------------------------------------------
(* The last questions: who receives the team, the telephone, the summary.  *)

\* What is asked after them follows the plan, and asks the confirmation with a
\* summary.
LEMMA AskingFine ==
  ASSUME state \in Closing, NEW c \in Contexts, Follows(c), NEW S,
         \A o \in S : o \in Good \/ Asking(o, c)
  PROVE  S \in SUBSET Fine
  BY GoodIsFine DEF Asking, Fine, Continues

LEMMA AttendeeFine ==
  ASSUME Typed, state \in Closing, NEW c \in Contexts, Follows(c), NEW t \in SUBSET Slots
  PROVE  /\ \A a \in Options.attendee, known \in BOOLEAN :
              HandleAttendee(c, t, a, known) \in SUBSET Fine
         /\ \A v \in Contents.attendeeName : HandleAttendeeName(c, t, v) \in SUBSET Fine
<1>0. /\ "attendee" \in Facts \ Core /\ "attendeeName" \in Facts \ Core
      /\ Options.attendee = ValuesOf["attendee"]
  BY FactNames, CoreNames, OptionValues DEF Options
<1>1. ASSUME NEW u \in Contexts, Follows(u), NEW w \in SUBSET Slots
      PROVE  Preconfirmation(u, w) \in SUBSET Fine /\ Out("BOOKING_ATTENDEE_NAME", u, w) \in Fine
  <2>1. Preconfirmation(u, w) \in SUBSET Fine
    BY <1>1, PreconfirmationAsked, AskingFine
  <2>2. "BOOKING_ATTENDEE_NAME" \in States /\ "BOOKING_ATTENDEE_NAME" # "BOOKING_CONFIRM"
    BY StateNames DEF Closing
  <2>3. Out("BOOKING_ATTENDEE_NAME", u, w) \in Outcomes
    BY <2>2, OutTyped
  <2>4. /\ Out("BOOKING_ATTENDEE_NAME", u, w).state = "BOOKING_ATTENDEE_NAME"
        /\ Out("BOOKING_ATTENDEE_NAME", u, w).ctx = u
        /\ Out("BOOKING_ATTENDEE_NAME", u, w).fresh = FALSE
    BY DEF Out
  <2>5. Out("BOOKING_ATTENDEE_NAME", u, w) \in Fine
    BY <1>1, <2>3, <2>4 DEF Fine, Continues
  <2>6. QED
    BY <2>1, <2>5
<1>2. ASSUME NEW a \in Options.attendee, NEW known \in BOOLEAN
      PROVE  HandleAttendee(c, t, a, known) \in SUBSET Fine
  <2> DEFINE n == IF a = "customer" /\ known THEN "own" ELSE c.attendeeName
             d == [c EXCEPT !.attendee = a]
             u == [d EXCEPT !.attendeeName = n]
             rest == t \ {"attendee"}
  <2>1. n = NoFact \/ n \in ValuesOf["attendeeName"]
    BY ContextParts, FactNames, ContentCases
  <2>2. d \in Contexts /\ Follows(d)
    BY <1>0, SetFact, SetFollows
  <2>3. c = [f \in Facts |-> c[f]]
    BY ContextParts
  <2>4. [c EXCEPT !.attendee = a,
                  !.attendeeName = IF a = "customer" /\ known THEN "own" ELSE @] = u
    BY <2>3
  <2>5. HandleAttendee(c, t, a, known) =
          IF a = "other" /\ ~Known(c, "attendeeName") THEN {Out("BOOKING_ATTENDEE_NAME", u, rest)}
          ELSE Preconfirmation(u, rest)
    BY <2>4 DEF HandleAttendee
  <2> HIDE DEF n, d
  <2>6. u \in Contexts /\ Follows(u) /\ rest \in SUBSET Slots
    BY <1>0, <2>1, <2>2, SetFact, SetFollows
  <2> HIDE DEF u, rest
  <2>7. QED
    BY <1>1, <2>5, <2>6
<1>3. ASSUME NEW v \in Contents.attendeeName
      PROVE  HandleAttendeeName(c, t, v) \in SUBSET Fine
  <2> DEFINE d == [c EXCEPT !.attendee = "other"]
             u == [d EXCEPT !.attendeeName = v]
             rest == t \ {"attendeeName"}
  <2>1. d \in Contexts /\ Follows(d)
    BY <1>0, SetFact, SetFollows, OptionValues
  <2>2. HandleAttendeeName(c, t, v) = Preconfirmation(u, rest)
    BY DEF HandleAttendeeName
  <2> HIDE DEF d
  <2>3. u \in Contexts /\ Follows(u) /\ rest \in SUBSET Slots
    BY <1>0, <2>1, SetFact, SetFollows, ContentCases
  <2> HIDE DEF u, rest
  <2>4. QED
    BY <1>1, <2>2, <2>3
<1>4. QED
  BY <1>2, <1>3

LEMMA PhoneFine ==
  ASSUME Typed, state \in Closing, NEW c \in Contexts, Follows(c), NEW t \in SUBSET Slots
  PROVE  /\ \A v \in Contents.phone \cup {"own"} : PhoneTaken(c, t, v) \in SUBSET Fine
         /\ state = "BOOKING_PHONE_CONFIRM" => PhoneUnclear(c, t) \in SUBSET Fine
<1>0. "phone" \in Facts \ Core /\ "phoneOk" \in Facts \ Core
  BY FactNames, CoreNames
<1>1. ASSUME NEW v \in Contents.phone \cup {"own"}
      PROVE  PhoneTaken(c, t, v) \in SUBSET Fine
  <2> DEFINE d == [c EXCEPT !.phone = v]
             u == [d EXCEPT !.phoneOk = "yes"]
             rest == t \ {"phone"}
  <2>1. d \in Contexts /\ Follows(d)
    BY <1>0, SetFact, SetFollows, ContentCases
  <2>2. PhoneTaken(c, t, v) = FinalConfirmation(u, rest)
    BY DEF PhoneTaken
  <2> HIDE DEF d
  <2>3. "yes" \in ValuesOf["phoneOk"]
    BY FlagValues DEF Flags
  <2>4. u \in Contexts /\ Follows(u) /\ rest \in SUBSET Slots
    BY <1>0, <2>1, <2>3, SetFact, SetFollows
  <2> HIDE DEF u, rest
  <2>5. QED
    BY <2>2, <2>4, FinalAsked, AskingFine
<1>2. Known(c, "phone") => PhoneTaken(c, t, c.phone) \in SUBSET Fine
  <2>1. Known(c, "phone") => c.phone \in Contents.phone \cup {"own"}
    BY ContextParts, FactNames, ContentCases DEF Known
  <2>2. QED
    BY <1>1, <2>1
<1>3. state = "BOOKING_PHONE_CONFIRM"
        => Retry("BOOKING_PHONE_CONFIRM", "phone", c, t) \in SUBSET Fine
  <2>1. Retry(state, "phone", c, t) \in SUBSET Fine
    BY StayFine, SlotNames
  <2>2. QED
    BY <2>1
<1>4. QED
  BY <1>1, <1>2, <1>3 DEF PhoneUnclear

LEMMA ClosingAnswered ==
  ASSUME DialogueInv, AnswerAttendee \/ AnswerAttendeeName \/ AnswerPhone \/ DecideOnSummary
  PROVE  DialogueInv'
<1>1. Typed
  BY DEF DialogueInv
<1>2. /\ Texts \subseteq Messages
      /\ \A r \in Messages : /\ Readable(r) /\ r.ctx \in Contexts /\ r.tries \in SUBSET Slots
                             /\ Follows(r.ctx) /\ r.named \in BOOLEAN
  BY <1>1, MessagesTyped, MessagesReadable DEF Readable
<1>3. CASE AnswerAttendee
  <2>1. PICK r \in Messages : Routed(r,
          (UNION {HandleAttendee(r.ctx, r.tries, a, r.named) : a \in Options.attendee})
              \cup IF Known(r.ctx, "attendee") THEN {}
                   ELSE Retry(state, "attendee", r.ctx, r.tries))
    BY <1>3 DEF AnswerAttendee
  <2> DEFINE S == UNION {HandleAttendee(r.ctx, r.tries, a, r.named) : a \in Options.attendee}
             again == IF Known(r.ctx, "attendee") THEN {}
                      ELSE Retry(state, "attendee", r.ctx, r.tries)
  <2>2. state \in Closing
    BY <1>3 DEF AnswerAttendee, Closing
  <2>3. /\ Readable(r) /\ r.ctx \in Contexts /\ r.tries \in SUBSET Slots
        /\ Follows(r.ctx) /\ r.named \in BOOLEAN
    BY <1>2
  <2>4. \A a \in Options.attendee : HandleAttendee(r.ctx, r.tries, a, r.named) \in SUBSET Fine
    BY <1>1, <2>2, <2>3, AttendeeFine
  <2>5. S \in SUBSET Fine
    BY <2>4
  <2>6. again \in SUBSET Fine
    BY <1>1, <2>3, StayFine, SlotNames
  <2>7. Routed(r, S \cup again)
    BY <2>1
  <2> HIDE DEF S, again
  <2>8. S \cup again \in SUBSET Fine
    BY <2>5, <2>6
  <2>9. QED
    BY <2>3, <2>7, <2>8, RoutedStep
<1>4. CASE AnswerAttendeeName
  <2>1. PICK r \in Texts : Routed(r,
          (UNION {HandleAttendeeName(r.ctx, r.tries, v) : v \in Contents.attendeeName})
              \cup Retry(state, "attendeeName", r.ctx, r.tries))
    BY <1>4 DEF AnswerAttendeeName
  <2> DEFINE S == UNION {HandleAttendeeName(r.ctx, r.tries, v) : v \in Contents.attendeeName}
             again == Retry(state, "attendeeName", r.ctx, r.tries)
  <2>2. state \in Closing
    BY <1>4 DEF AnswerAttendeeName, Closing
  <2>3. /\ Readable(r) /\ r.ctx \in Contexts /\ r.tries \in SUBSET Slots /\ Follows(r.ctx)
    BY <1>2
  <2>4. \A v \in Contents.attendeeName : HandleAttendeeName(r.ctx, r.tries, v) \in SUBSET Fine
    BY <1>1, <2>2, <2>3, AttendeeFine
  <2>5. S \in SUBSET Fine
    BY <2>4
  <2>6. again \in SUBSET Fine
    BY <1>1, <2>3, StayFine, SlotNames
  <2>7. Routed(r, S \cup again)
    BY <2>1
  <2> HIDE DEF S, again
  <2>8. S \cup again \in SUBSET Fine
    BY <2>5, <2>6
  <2>9. QED
    BY <2>3, <2>7, <2>8, RoutedStep
<1>5. CASE AnswerPhone
  <2>1. PICK r \in Messages : Routed(r,
          UNION {UNION {PhoneTaken(r.ctx, r.tries, v) : v \in Contents.phone \cup {"own"}},
                 {Out(state, r.ctx, r.tries)}, PhoneUnclear(r.ctx, r.tries)})
    BY <1>5 DEF AnswerPhone
  <2> DEFINE S == UNION {PhoneTaken(r.ctx, r.tries, v) : v \in Contents.phone \cup {"own"}}
  <2>2. state \in Closing /\ state = "BOOKING_PHONE_CONFIRM"
    BY <1>5 DEF AnswerPhone, Closing
  <2>3. /\ Readable(r) /\ r.ctx \in Contexts /\ r.tries \in SUBSET Slots /\ Follows(r.ctx)
    BY <1>2
  <2>4. /\ \A v \in Contents.phone \cup {"own"} : PhoneTaken(r.ctx, r.tries, v) \in SUBSET Fine
        /\ PhoneUnclear(r.ctx, r.tries) \in SUBSET Fine
    BY <1>1, <2>2, <2>3, PhoneFine
  <2>5. S \in SUBSET Fine
    BY <2>4
  <2>6. Out(state, r.ctx, r.tries) \in Fine
    BY <1>1, <2>3, StayFine
  <2>7. Routed(r, UNION {S, {Out(state, r.ctx, r.tries)}, PhoneUnclear(r.ctx, r.tries)})
    BY <2>1
  <2> HIDE DEF S
  <2>8. UNION {S, {Out(state, r.ctx, r.tries)}, PhoneUnclear(r.ctx, r.tries)} \in SUBSET Fine
    BY <2>4, <2>5, <2>6
  <2>9. QED
    BY <2>3, <2>7, <2>8, RoutedStep
<1>6. CASE DecideOnSummary
  <2>1. PICK r \in Messages :
          LET rest == r.tries \ {"confirmation"}
              again == IF "confirmation" \in r.tries THEN {Person}
                       ELSE {[Out(state, r.ctx, r.tries \cup {"confirmation"})
                                EXCEPT !.shows = TRUE]}
          IN  Routed(r, {Fresh("MENU")} \cup
                 IF ~Decidable(r.ctx) THEN Restart
                 ELSE UNION {{Out("BOOKING_TIME", [r.ctx EXCEPT !.time = NoFact], rest)},
                             Adverse({Out(state, r.ctx, rest), Person}), Adverse(again)})
    BY <1>6 DEF DecideOnSummary
  <2> DEFINE rest == r.tries \ {"confirmation"}
             told == Out(state, r.ctx, r.tries \cup {"confirmation"})
             again == IF "confirmation" \in r.tries THEN {Person} ELSE {[told EXCEPT !.shows = TRUE]}
             later == Out("BOOKING_TIME", [r.ctx EXCEPT !.time = NoFact], rest)
  <2>2. /\ Readable(r) /\ r.ctx \in Contexts /\ r.tries \in SUBSET Slots /\ Follows(r.ctx)
    BY <1>2
  <2>3. Routed(r, {Fresh("MENU")} \cup
                 IF ~Decidable(r.ctx) THEN Restart
                 ELSE UNION {{later}, Adverse({Out(state, r.ctx, rest), Person}), Adverse(again)})
    BY <2>1
  <2>4. rest \in SUBSET Slots /\ r.tries \cup {"confirmation"} \in SUBSET Slots
    BY <2>2, SlotNames
  <2> HIDE DEF rest
  <2>5. later \in Fine
    <3>1. [r.ctx EXCEPT !.time = NoFact] \in Contexts
      BY <2>2, SetFact, FactNames
    <3>2. QED
      BY <2>4, <3>1, AgendaStates, OutTyped, GoodIsFine
  <2>6. Out(state, r.ctx, rest) \in Fine /\ told \in Fine
    BY <1>1, <2>2, <2>4, StayFine
  <2> HIDE DEF told
  <2>7. [told EXCEPT !.shows = TRUE] \in Fine
    BY <2>6 DEF Fine, Outcomes, Continues
  <2>8. Person \in Fine /\ Fresh("MENU") \in Fine /\ Restart \in SUBSET Fine
    BY PersonGood, RestartGood, FreshGood, ServiceState, GoodIsFine
  <2>9. again \in SUBSET Fine
    BY <2>7, <2>8
  <2> HIDE DEF again, later
  <2>10. Adverse({Out(state, r.ctx, rest), Person}) \in SUBSET Fine /\ Adverse(again) \in SUBSET Fine
    BY <2>6, <2>8, <2>9, FineMarked
  <2>11. {Fresh("MENU")} \cup
           (IF ~Decidable(r.ctx) THEN Restart
            ELSE UNION {{later}, Adverse({Out(state, r.ctx, rest), Person}), Adverse(again)})
           \in SUBSET Fine
    BY <2>5, <2>8, <2>10
  <2>12. QED
    BY <2>2, <2>3, <2>11, RoutedStep
<1>7. QED
  BY <1>3, <1>4, <1>5, <1>6

\* The appointment is what the last summary showed.
LEMMA BookingStep ==
  ASSUME DialogueInv, ConfirmBooking
  PROVE  DialogueInv' /\ Only(Displayed(ctx'), ShownTerms) = Only(shown, ShownTerms)
<1>1. Typed
  BY DEF DialogueInv
<1>2. PICK r \in Messages :
        /\ state = "BOOKING_CONFIRM" /\ Decidable(r.ctx)
        /\ Leads(r, Out("POST_BOOKING_HELP", r.ctx, r.tries \ {"confirmation"}))
        /\ appts' = Append(appts, [facts |-> Stored(r.ctx), date |-> r.ctx.date,
                                   time |-> r.ctx.time, live |-> TRUE])
        /\ origin' = "appointment"
  BY DEF ConfirmBooking
<1>3. /\ r.ctx \in Contexts /\ r.tries \in SUBSET Slots /\ Follows(r.ctx)
      /\ r.named \in BOOLEAN /\ r.cost \in {0, 1}
  BY <1>1, MessagesReadable DEF Readable
<1> DEFINE o == Out("POST_BOOKING_HELP", r.ctx, r.tries \ {"confirmation"})
<1>4. o \in Fine /\ o.ctx = r.ctx
  <2>1. o \in Good
    BY <1>3, ServiceState, OutTyped
  <2>2. QED
    BY <2>1, GoodIsFine DEF Out
<1>5. appts' \in Seq(Appointment)
  <2>1. r.ctx.date \in Days /\ r.ctx.time \in Hours
    BY <1>2, <1>3, ContextParts, FactNames, OptionValues DEF Decidable, Known, Scheduling
  <2>2. Stored(r.ctx) \in Contexts
    BY <1>3, DisplayedTyped
  <2>3. [facts |-> Stored(r.ctx), date |-> r.ctx.date, time |-> r.ctx.time, live |-> TRUE]
          \in Appointment
    BY <2>1, <2>2 DEF Appointment
  <2>4. QED
    BY <1>1, <1>2, <2>3 DEF Typed
<1>6. Leads(r, o) /\ origin' \in {"request", "appointment"}
  BY <1>2
<1>7. ctx' = r.ctx
  BY <1>4, <1>6 DEF Leads
<1> HIDE DEF o
<1>8. DialogueInv'
  BY <1>3, <1>4, <1>5, <1>6, LeadsStep
<1>9. Agree(r.ctx, ctx) /\ ctx \in Contexts
  BY <1>1, <1>2, <1>3 DEF Follows, Typed
<1>10. /\ Only(Displayed(r.ctx), ShownTerms) = Only(Displayed(ctx), ShownTerms)
       /\ Decidable(ctx)
  BY <1>2, <1>3, <1>9, CoreDecides
<1>11. Only(Displayed(ctx), ShownTerms) = Only(shown, ShownTerms)
  BY <1>2, <1>10 DEF DialogueInv, SummaryIsCurrent
<1>12. QED
  BY <1>7, <1>8, <1>10, <1>11

-----------------------------------------------------------------------------
(* The beginning and the end of a conversation.                            *)

LEMMA OpeningGood ==
  ASSUME NEW c \in Contexts, NEW before \in Contexts, NEW t \in SUBSET Slots
  PROVE  /\ \A s \in {"RESCHEDULE", "CANCEL"} : Begin(s) \in SUBSET Good
         /\ BeginAny \in SUBSET Good /\ NaturalStart(before, t) \in SUBSET Good
         /\ OpeningTurn(before, c, t) \in SUBSET Good /\ MenuTaps(c, t) \in SUBSET Good
         /\ Replay(c, t) \in SUBSET Good
<1>1. ASSUME NEW s \in {"RESCHEDULE", "CANCEL"}
      PROVE  Begin(s) \in SUBSET Good
  <2>1. Fresh(s) \in Good /\ Fresh("MENU") \in Good
    BY ServiceState, FreshGood
  <2>2. QED
    BY <2>1 DEF Begin
<1>2. BeginAny \in SUBSET Good
  BY <1>1 DEF BeginAny
<1>3. NewRequest \in SUBSET Good
  <2>1. {} \in SUBSET Slots /\ NoContext \in Contexts
    BY EmptyTyped
  <2>2. HandleService(NoContext, {}) \in SUBSET Good
    BY <2>1, HandleServiceGood
  <2>3. QED
    BY <2>2, AdverseGood DEF NewRequest
<1>4. Fresh("MENU") \in Good /\ Person \in Good
  BY ServiceState, FreshGood, PersonGood
<1>5. ASSUME NEW b \in Contexts, NEW u \in SUBSET Slots
      PROVE  NaturalStart(b, u) \in SUBSET Good
  <2>1. [b EXCEPT !.variant = "yes"] \in Contexts
    BY SetFact, FlagValues DEF Flags
  <2>2. Out("MENU", [b EXCEPT !.variant = "yes"], u) \in Good
    BY <2>1, ServiceState, OutTyped
  <2>3. Adverse({IF Known(b, "variant") THEN Person
                 ELSE Out("MENU", [b EXCEPT !.variant = "yes"], u)}) \in SUBSET Good
    BY <1>4, <2>2, AdverseGood
  <2>4. QED
    BY <1>2, <1>3, <1>4, <2>3 DEF NaturalStart
<1>6. ASSUME NEW d \in Contexts, NEW u \in SUBSET Slots
      PROVE  OpeningQuestion(d, u) \in SUBSET Good
  <2>1. Clarify(d, u) \in Good
    BY HandleServiceGood
  <2>2. \A s \in {"BOOKING_SERVICE", "MENU"} : Out(s, d, u) \in Good
    BY ServiceState, OutTyped
  <2>3. {Clarify(d, u)} \cup (IF Known(d, "request") THEN {}
                              ELSE {Out(s, d, u) : s \in {"BOOKING_SERVICE", "MENU"}})
          \in SUBSET Good
    BY <2>1, <2>2
  <2>4. QED
    BY <2>3, AdverseGood DEF OpeningQuestion
<1>7. ASSUME NEW b \in Contexts, NEW d \in Contexts, NEW u \in SUBSET Slots
      PROVE  OpeningTurn(b, d, u) \in SUBSET Good
  BY <1>5, <1>6 DEF OpeningTurn
<1>8. ASSUME NEW d \in Contexts, NEW u \in SUBSET Slots
      PROVE  MenuTaps(d, u) \in SUBSET Good
  <2>1. Retry("MENU", "menu_action", d, u) \in SUBSET Good
    BY ServiceState, SlotNames, RetryTyped
  <2>2. QED
    BY <1>2, <1>4, <2>1, RestartGood DEF MenuTaps
<1>9. Replay(c, t) \in SUBSET Good
  <2>1. Drop(c, {"pendingTurn"}) \in Contexts
    BY DropTyped
  <2>2. OpeningTurn(Drop(c, {"pendingTurn"}), Drop(c, {"pendingTurn"}), t) \in SUBSET Good
    BY <1>7, <2>1
  <2>3. MenuTaps(Drop(c, {"pendingTurn"}), t) \in SUBSET Good
    BY <1>8, <2>1
  <2>4. QED
    BY <1>4, <2>2, <2>3 DEF Replay
<1>10. QED
  BY <1>1, <1>2, <1>5, <1>7, <1>8, <1>9

LEMMA OpeningStep ==
  ASSUME DialogueInv, Opening
  PROVE  DialogueInv'
<1>1. Typed /\ ctx \in Contexts /\ tries \in SUBSET Slots
  BY DEF DialogueInv, Typed
<1>2. /\ Texts \subseteq Messages
      /\ \A r \in Messages : /\ Readable(r) /\ r.ctx \in Contexts /\ r.tries \in SUBSET Slots
  BY <1>1, MessagesTyped, MessagesReadable
<1>3. Readable(Tap)
  BY <1>1, TapReadable
<1>4. CASE Start
  <2>1. PICK r \in Texts : Routed(r, OpeningTurn(ctx, r.ctx, r.tries))
    BY <1>4 DEF Start
  <2>2. OpeningTurn(ctx, r.ctx, r.tries) \in SUBSET Good
    BY <1>1, <1>2, OpeningGood
  <2>3. QED
    BY <1>2, <2>1, <2>2, GoodRouted
<1>5. CASE ChooseInMenu
  <2>1. Routed(Tap, MenuTaps(ctx, tries))
    BY <1>5 DEF ChooseInMenu
  <2>2. MenuTaps(ctx, tries) \in SUBSET Good
    BY <1>1, OpeningGood
  <2>3. QED
    BY <1>3, <2>1, <2>2, GoodRouted
<1>6. CASE WriteInMenu
  <2>1. PICK r \in Texts : Routed(r, OpeningTurn(r.ctx, r.ctx, r.tries))
    BY <1>6 DEF WriteInMenu
  <2>2. OpeningTurn(r.ctx, r.ctx, r.tries) \in SUBSET Good
    BY <1>2, OpeningGood
  <2>3. QED
    BY <1>2, <2>1, <2>2, GoodRouted
<1>7. CASE OpenerOnly
  <2>1. PICK r \in Texts : Ends(r, {Out("MENU", r.ctx, r.tries)})
    BY <1>7 DEF OpenerOnly
  <2>2. Out("MENU", r.ctx, r.tries) \in Good
    BY <1>2, ServiceState, OutTyped
  <2>3. {Out("MENU", r.ctx, r.tries)} \in SUBSET Good
    BY <2>2
  <2>4. QED
    BY <1>2, <2>1, <2>3, GoodRouted
<1>8. CASE AskName
  <2>1. PICK r \in Messages, waits \in {NoFact, "yes"} :
          Ends(r, {Out("CUSTOMER_NAME",
                       [r.ctx EXCEPT !.pendingTurn = IF r.ctx.pendingTurn = NoFact
                                                     THEN waits ELSE @], r.tries)})
    BY <1>8 DEF AskName
  <2> DEFINE d == [r.ctx EXCEPT !.pendingTurn = IF r.ctx.pendingTurn = NoFact THEN waits ELSE @]
  <2>2. \A w \in {NoFact, "yes"} : [r.ctx EXCEPT !.pendingTurn = w] \in Contexts
    BY <1>2, SetFact, FlagValues DEF Flags
  <2>3. r.ctx.pendingTurn \in {NoFact, "yes"}
    BY <1>2, ContextParts, FlagValues DEF Flags
  <2>4. d \in Contexts
    BY <2>2, <2>3
  <2>5. Ends(r, {Out("CUSTOMER_NAME", d, r.tries)})
    BY <2>1
  <2> HIDE DEF d
  <2>6. Out("CUSTOMER_NAME", d, r.tries) \in Good
    BY <1>2, <2>4, ServiceState, OutTyped
  <2>7. {Out("CUSTOMER_NAME", d, r.tries)} \in SUBSET Good
    BY <2>6
  <2>8. QED
    BY <1>2, <2>5, <2>7, GoodRouted
<1>9. CASE GiveName
  <2>1. PICK r \in Texts : Ends([r EXCEPT !.named = TRUE], Replay(r.ctx, r.tries))
    BY <1>9 DEF GiveName
  <2>2. Replay(r.ctx, r.tries) \in SUBSET Good
    BY <1>2, OpeningGood
  <2>3. Readable(r)
    BY <1>2
  <2>4. Readable([r EXCEPT !.named = TRUE])
    BY <2>3 DEF Readable
  <2>5. QED
    BY <2>1, <2>2, <2>4, GoodRouted
<1>10. CASE WithholdName
  <2>1. PICK r \in Messages, waits \in {NoFact, "yes"} :
          LET c == [r.ctx EXCEPT !.nameSkipped = "yes",
                                 !.pendingTurn = IF @ = NoFact THEN waits ELSE @]
              rest == r.tries \ {"customer_name"}
          IN  Ends(r, Kept(c, IF Known(c, "pendingTurn") THEN Replay(c, rest)
                              ELSE {Out("MENU", c, rest)}))
    BY <1>10 DEF WithholdName
  <2> DEFINE c == [r.ctx EXCEPT !.nameSkipped = "yes",
                                !.pendingTurn = IF @ = NoFact THEN waits ELSE @]
             d == [r.ctx EXCEPT !.nameSkipped = "yes"]
             rest == r.tries \ {"customer_name"}
             S == IF Known(c, "pendingTurn") THEN Replay(c, rest) ELSE {Out("MENU", c, rest)}
  <2>2. d \in Contexts
    BY <1>2, SetFact, FlagValues DEF Flags
  <2>3. \A w \in {NoFact, "yes"} : [d EXCEPT !.pendingTurn = w] \in Contexts
    BY <2>2, SetFact, FlagValues DEF Flags
  <2>4. r.ctx.pendingTurn \in {NoFact, "yes"}
    BY <1>2, ContextParts, FlagValues DEF Flags
  <2>5. c \in Contexts
    BY <2>3, <2>4
  <2>6. rest \in SUBSET Slots
    BY <1>2
  <2>7. Ends(r, Kept(c, S))
    BY <2>1
  <2> HIDE DEF c, d, rest
  <2>8. Out("MENU", c, rest) \in Good
    BY <2>5, <2>6, ServiceState, OutTyped
  <2>9. Replay(c, rest) \in SUBSET Good
    BY <2>5, <2>6, OpeningGood
  <2>10. S \in SUBSET Good
    BY <2>8, <2>9
  <2> HIDE DEF S
  <2>11. Kept(c, S) \in SUBSET Fine
    BY <2>10, GoodIsFine, KeptFine
  <2>12. QED
    BY <1>2, <2>7, <2>11, EndsStep
<1>11. CASE AfterCompletion
  <2>1. PICK r \in Texts : Routed(r,
          UNION {{Out("COMPLETED", r.ctx, r.tries)}, NaturalStart(ctx, tries),
                 Adverse({Out("POST_BOOKING_HELP", r.ctx, r.tries)})})
    BY <1>11 DEF AfterCompletion
  <2>2. /\ Out("COMPLETED", r.ctx, r.tries) \in Good
        /\ Out("POST_BOOKING_HELP", r.ctx, r.tries) \in Good
    BY <1>2, ServiceState, OutTyped
  <2>3. Adverse({Out("POST_BOOKING_HELP", r.ctx, r.tries)}) \in SUBSET Good
    BY <2>2, AdverseGood
  <2>4. NaturalStart(ctx, tries) \in SUBSET Good
    BY <1>1, OpeningGood
  <2>5. UNION {{Out("COMPLETED", r.ctx, r.tries)}, NaturalStart(ctx, tries),
               Adverse({Out("POST_BOOKING_HELP", r.ctx, r.tries)})} \in SUBSET Good
    BY <2>2, <2>3, <2>4
  <2>6. QED
    BY <1>2, <2>1, <2>5, GoodRouted
<1>12. CASE HelpAfterBooking
  <2>1. PICK r \in Messages : Routed(r,
          UNION {{Out("COMPLETED", ctx, tries), Fresh("MENU")}, NaturalStart(NoContext, {}),
                 Adverse({Person, Fresh("POST_BOOKING_HELP"),
                          Out("POST_BOOKING_HELP", r.ctx, r.tries)})})
    BY <1>12 DEF HelpAfterBooking
  <2>2. /\ Out("COMPLETED", ctx, tries) \in Good
        /\ Out("POST_BOOKING_HELP", r.ctx, r.tries) \in Good
        /\ Person \in Good /\ Fresh("MENU") \in Good /\ Fresh("POST_BOOKING_HELP") \in Good
    BY <1>1, <1>2, ServiceState, OutTyped, PersonGood, FreshGood
  <2>3. Adverse({Person, Fresh("POST_BOOKING_HELP"),
                 Out("POST_BOOKING_HELP", r.ctx, r.tries)}) \in SUBSET Good
    BY <2>2, AdverseGood
  <2>4. NaturalStart(NoContext, {}) \in SUBSET Good
    <3>1. {} \in SUBSET Slots /\ NoContext \in Contexts
      BY EmptyTyped
    <3>2. QED
      BY <3>1, OpeningGood
  <2>5. UNION {{Out("COMPLETED", ctx, tries), Fresh("MENU")}, NaturalStart(NoContext, {}),
               Adverse({Person, Fresh("POST_BOOKING_HELP"),
                        Out("POST_BOOKING_HELP", r.ctx, r.tries)})} \in SUBSET Good
    BY <2>2, <2>3, <2>4
  <2>6. QED
    BY <1>2, <2>1, <2>5, GoodRouted
<1>13. CASE ResumeQuote
  <2>1. PICK r \in Messages :
          Ends(r, HandleQuoteDecision(r.ctx, r.tries, TRUE) \cup
                  Adverse({Out("QUOTE_DECISION", r.ctx, r.tries)}))
    BY <1>13 DEF ResumeQuote
  <2>2. Out("QUOTE_DECISION", r.ctx, r.tries) \in Good
    BY <1>2, ServiceState, OutTyped
  <2>3. HandleQuoteDecision(r.ctx, r.tries, TRUE) \cup
           Adverse({Out("QUOTE_DECISION", r.ctx, r.tries)}) \in SUBSET Good
    BY <1>2, <2>2, AdverseGood, QuoteDecisionGood
  <2>4. QED
    BY <1>2, <2>1, <2>3, GoodRouted
<1>14. CASE AnswerOutreach
  <2> DEFINE c == Drop(ctx, {"outreach"})
             M == {x \in Services : Kind[x] = "maintenance"}
             again == UNION {ChooseService(c, tries, s) : s \in M}
  <2>1. Ends(Tap, {Out("COMPLETED", c, tries)} \cup again)
    BY <1>14 DEF AnswerOutreach
  <2>2. c \in Contexts
    BY <1>1, DropTyped
  <2> HIDE DEF c
  <2>3. \A s \in M : ChooseService(c, tries, s) \in SUBSET Good
    BY <1>1, <2>2, ChooseServiceGood
  <2> HIDE DEF M
  <2>4. again \in SUBSET Good
    BY <2>3
  <2>5. Out("COMPLETED", c, tries) \in Good
    BY <1>1, <2>2, ServiceState, OutTyped
  <2> HIDE DEF again
  <2>6. {Out("COMPLETED", c, tries)} \cup again \in SUBSET Good
    BY <2>4, <2>5
  <2>7. QED
    BY <1>3, <2>1, <2>6, GoodRouted
<1>15. QED
  BY <1>4, <1>5, <1>6, <1>7, <1>8, <1>9, <1>10, <1>11, <1>12, <1>13, <1>14 DEF Opening

-----------------------------------------------------------------------------
(* Off the straight path: side talk, media, old buttons, other services.   *)

LEMMA SlotOfState ==
  ASSUME NEW s \in BookingStates \cup {"CUSTOMER_NAME"}, NEW c
  PROVE  RepairSlot(s, c) \in Slots
<1> DEFINE table ==
         [BOOKING_SERVICE |-> "service", BOOKING_QUANTITY |-> "quantity",
          BOOKING_ACCESS |-> "access", BOOKING_EQUIPMENT_OWNERSHIP |-> "ownership",
          BOOKING_EQUIPMENT_MODEL |-> "model", BOOKING_EQUIPMENT_DELIVERY |-> "delivery",
          BOOKING_INSTALLATION_HEIGHT |-> "height", BOOKING_PROPERTY |-> "property",
          BOOKING_BUILDING_HOURS |-> "hours", BOOKING_GATE_DETAILS |-> "gate",
          BOOKING_TUBING |-> "tubing", BOOKING_SITE_LIMIT |-> "limit",
          BOOKING_WEEKDAY |-> "weekday", BOOKING_DATE |-> "date", BOOKING_TIME |-> "time",
          BOOKING_ATTENDEE |-> "attendee", BOOKING_ATTENDEE_NAME |-> "attendeeName",
          BOOKING_PHONE_CONFIRM |-> "phone", BOOKING_CONFIRM |-> "confirmation",
          QUOTE_DECISION |-> "quote_decision", CUSTOMER_NAME |-> "customer_name",
          MENU |-> "menu_action", POST_BOOKING_HELP |-> "post_booking_help"]
<1>1. s \in {"BOOKING_ADDRESS", "BOOKING_EQUIPMENT_PROFILE"} \cup DOMAIN table
  BY StateNames DEF BookingStates, Agenda, Closing
<1>2. \A x \in DOMAIN table : table[x] \in Slots
  BY SlotNames
<1>3. RepairSlot(s, c) = CASE s = "BOOKING_ADDRESS" -> IF Known(c, "street") THEN "city" ELSE "address"
                            [] s = "BOOKING_EQUIPMENT_PROFILE" -> NextProfileFact(c)
                            [] OTHER -> table[s]
  BY DEF RepairSlot
<1> HIDE DEF table
<1>4. QED
  BY <1>1, <1>2, <1>3, SlotNames, ProfileFactNames

LEMMA StrayingStep ==
  ASSUME DialogueInv,
         \/ SideTalk \/ AskAboutDevice \/ TakeSuggestion \/ InsistOnUnlisted \/ NameService
         \/ WantPurchase \/ DeclinePurchase \/ PreferDaypart
  PROVE  DialogueInv'
<1>1. Typed
  BY DEF DialogueInv
<1>2. /\ Texts \subseteq Messages
      /\ \A r \in Messages : /\ Readable(r) /\ r.ctx \in Contexts /\ r.tries \in SUBSET Slots
                             /\ Follows(r.ctx)
  BY <1>1, MessagesTyped, MessagesReadable DEF Readable
<1>3. CASE SideTalk
  <2>1. PICK r \in Texts :
          LET slot == RepairSlot(state, r.ctx)
              unclear == IF slot \in r.tries THEN {Person}
                         ELSE Resume(state, r.ctx, r.tries \cup {slot})
          IN  Routed(r, Adverse(Resume(state, r.ctx, r.tries) \cup unclear))
    BY <1>3 DEF SideTalk
  <2> DEFINE slot == RepairSlot(state, r.ctx)
             unclear == IF slot \in r.tries THEN {Person}
                        ELSE Resume(state, r.ctx, r.tries \cup {slot})
  <2>2. slot \in Slots
    BY <1>3, SlotOfState DEF SideTalk
  <2>3. Routed(r, Adverse(Resume(state, r.ctx, r.tries) \cup unclear))
    BY <2>1
  <2> HIDE DEF slot
  <2>4. Readable(r) /\ r.ctx \in Contexts /\ r.tries \in SUBSET Slots /\ Follows(r.ctx)
    BY <1>2
  <2>5. r.tries \cup {slot} \in SUBSET Slots
    BY <2>2, <2>4
  <2>6. Resume(state, r.ctx, r.tries) \in SUBSET Fine
    BY <1>1, <2>4, StayFine
  <2>7. Resume(state, r.ctx, r.tries \cup {slot}) \in SUBSET Fine
    BY <1>1, <2>4, <2>5, StayFine
  <2>8. Resume(state, r.ctx, r.tries) \cup unclear \in SUBSET Fine
    BY <2>6, <2>7, PersonGood, GoodIsFine
  <2> HIDE DEF unclear
  <2>9. Adverse(Resume(state, r.ctx, r.tries) \cup unclear) \in SUBSET Fine
    BY <2>8, FineMarked
  <2>10. QED
    BY <2>3, <2>4, <2>9, RoutedStep
<1>4. CASE AskAboutDevice
  <2>1. PICK r \in Texts, d \in Contents.recommended :
          Routed(r, Adverse(Resume(state, [r.ctx EXCEPT !.suggestion = d], r.tries)))
    BY <1>4 DEF AskAboutDevice
  <2>2. Readable(r) /\ r.ctx \in Contexts /\ r.tries \in SUBSET Slots /\ Follows(r.ctx)
    BY <1>2
  <2> DEFINE u == [r.ctx EXCEPT !.suggestion = d]
  <2>3. "suggestion" \in Facts \ Core
    BY FactNames, CoreNames
  <2>4. u \in Contexts /\ Follows(u)
    BY <2>2, <2>3, SetFact, SetFollows, ContentCases
  <2>5. Routed(r, Adverse(Resume(state, u, r.tries)))
    BY <2>1
  <2> HIDE DEF u
  <2>6. Adverse(Resume(state, u, r.tries)) \in SUBSET Fine
    BY <1>1, <2>2, <2>4, StayFine, FineMarked
  <2>7. QED
    BY <2>2, <2>5, <2>6, RoutedStep
<1>5. CASE TakeSuggestion
  <2>1. PICK r \in Texts :
          LET u == [r.ctx EXCEPT !.recommended = r.ctx.suggestion, !.suggestion = NoFact,
                                 !.quoted = NoFact]
          IN  Routed(r, IF state \in {"COMPLETED", "POST_BOOKING_HELP"}
                        THEN {Out("POST_BOOKING_HELP", u, r.tries)}
                        ELSE Resume(state, u, r.tries))
    BY <1>5 DEF TakeSuggestion
  <2>2. Readable(r) /\ r.ctx \in Contexts /\ r.tries \in SUBSET Slots /\ Follows(r.ctx)
    BY <1>2
  <2> DEFINE a == [r.ctx EXCEPT !.recommended = r.ctx.suggestion]
             b == [a EXCEPT !.suggestion = NoFact]
             u == [b EXCEPT !.quoted = NoFact]
             S == IF state \in {"COMPLETED", "POST_BOOKING_HELP"}
                  THEN {Out("POST_BOOKING_HELP", u, r.tries)} ELSE Resume(state, u, r.tries)
  <2>3. {"suggestion", "recommended", "quoted"} \subseteq Facts \ Core
    BY FactNames, CoreNames
  <2>4. r.ctx.suggestion = NoFact \/ r.ctx.suggestion \in ValuesOf["recommended"]
    BY <2>2, ContextParts, FactNames, ContentCases
  <2>5. [r.ctx EXCEPT !.recommended = r.ctx.suggestion, !.suggestion = NoFact,
                      !.quoted = NoFact] = u
    OBVIOUS
  <2>6. Routed(r, S)
    BY <2>1, <2>5
  <2>7. a \in Contexts /\ Follows(a)
    BY <2>2, <2>3, <2>4, SetFact, SetFollows
  <2> HIDE DEF a
  <2>8. b \in Contexts /\ Follows(b)
    BY <2>3, <2>7, SetFact, SetFollows
  <2> HIDE DEF b
  <2>9. u \in Contexts /\ Follows(u)
    BY <2>3, <2>8, SetFact, SetFollows
  <2> HIDE DEF u
  <2>10. Out("POST_BOOKING_HELP", u, r.tries) \in Fine
    BY <2>2, <2>9, ServiceState, OutTyped, GoodIsFine
  <2>11. Resume(state, u, r.tries) \in SUBSET Fine
    BY <1>1, <2>2, <2>9, StayFine
  <2>12. S \in SUBSET Fine
    BY <2>10, <2>11
  <2> HIDE DEF S
  <2>13. QED
    BY <2>2, <2>6, <2>12, RoutedStep
<1>6. CASE InsistOnUnlisted
  <2>1. PICK r \in Texts :
          Routed(r, {PersonWith([r.ctx EXCEPT !.mismatch = "twice"], r.tries)})
    BY <1>6 DEF InsistOnUnlisted
  <2>2. Readable(r) /\ r.ctx \in Contexts /\ r.tries \in SUBSET Slots
    BY <1>2
  <2>3. [r.ctx EXCEPT !.mismatch = "twice"] \in Contexts
    BY <2>2, SetFact, OptionValues, FactNames
  <2>4. PersonWith([r.ctx EXCEPT !.mismatch = "twice"], r.tries) \in Good
    BY <2>2, <2>3, PersonGood
  <2>5. {PersonWith([r.ctx EXCEPT !.mismatch = "twice"], r.tries)} \in SUBSET Good
    BY <2>4
  <2>6. QED
    BY <2>1, <2>2, <2>5, GoodRouted
<1>7. CASE NameService
  <2>1. PICK r \in Texts, s \in Services :
          Routed(r, Adverse(
                (IF Known(r.ctx, "service")
                 THEN {Out(state, [r.ctx EXCEPT !.pendingService = s], r.tries)} ELSE {})
                \cup Renewed(ChooseService(NoContext, {}, s))))
    BY <1>7 DEF NameService
  <2>2. Readable(r) /\ r.ctx \in Contexts /\ r.tries \in SUBSET Slots /\ Follows(r.ctx)
    BY <1>2
  <2> DEFINE u == [r.ctx EXCEPT !.pendingService = s]
             S == (IF Known(r.ctx, "service") THEN {Out(state, u, r.tries)} ELSE {})
                     \cup Renewed(ChooseService(NoContext, {}, s))
  <2>3. "pendingService" \in Facts \ Core
    BY FactNames, CoreNames
  <2>4. u \in Contexts /\ Follows(u)
    BY <2>2, <2>3, SetFact, SetFollows, OptionValues
  <2>5. Routed(r, Adverse(S))
    BY <2>1
  <2> HIDE DEF u
  <2>6. Out(state, u, r.tries) \in Fine
    BY <1>1, <2>2, <2>4, StayFine
  <2>7. NoContext \in Contexts /\ {} \in SUBSET Slots
    BY EmptyTyped
  <2>8. ChooseService(NoContext, {}, s) \in SUBSET Good
    BY <2>7, ChooseServiceGood
  <2>9. Renewed(ChooseService(NoContext, {}, s)) \in SUBSET Fine
    BY <2>8, AdverseGood, GoodIsFine
  <2>10. S \in SUBSET Fine
    BY <2>6, <2>9
  <2> HIDE DEF S
  <2>11. QED
    BY <2>2, <2>5, <2>10, FineMarked, RoutedStep
<1>8. CASE WantPurchase
  <2>1. PICK r \in Texts : Routed(r, Adverse(Renewed({Clarify(NoContext, {})})))
    BY <1>8 DEF WantPurchase
  <2>2. NoContext \in Contexts /\ {} \in SUBSET Slots
    BY EmptyTyped
  <2>3. {Clarify(NoContext, {})} \in SUBSET Good
    BY <2>2, HandleServiceGood
  <2>4. Adverse(Renewed({Clarify(NoContext, {})})) \in SUBSET Good
    BY <2>3, AdverseGood
  <2>5. QED
    BY <1>2, <2>1, <2>4, GoodRouted
<1>9. CASE DeclinePurchase
  <2>1. PICK r \in Texts : Routed(r, Adverse(ChoosePurchase(r.ctx, r.tries, "install")))
    BY <1>9 DEF DeclinePurchase
  <2>2. ChoosePurchase(r.ctx, r.tries, "install") \in SUBSET Good
    BY <1>2, ChoosePurchaseGood
  <2>3. Adverse(ChoosePurchase(r.ctx, r.tries, "install")) \in SUBSET Good
    BY <2>2, AdverseGood
  <2>4. QED
    BY <1>2, <2>1, <2>3, GoodRouted
<1>10. CASE PreferDaypart
  <2>1. PICK r \in Texts, p \in Contents.daypart :
          Routed(r, Adverse(HandleDaypart(r.ctx, r.tries, p)))
    BY <1>10 DEF PreferDaypart
  <2>2. HandleDaypart(r.ctx, r.tries, p) \in SUBSET Good
    BY <1>2, HandleDaypartGood
  <2>3. Adverse(HandleDaypart(r.ctx, r.tries, p)) \in SUBSET Good
    BY <2>2, AdverseGood
  <2>4. QED
    BY <1>2, <2>1, <2>3, GoodRouted
<1>11. QED
  BY <1>3, <1>4, <1>5, <1>6, <1>7, <1>8, <1>9, <1>10

\* An older button that is confirmed is answered as in its own state.
LEMMA TapValues ==
  ASSUME NEW tap \in Taps
  PROVE  tap.fact \in Tappable /\ tap.value \in ValuesOf[tap.fact]
<1>1. tap.fact \in Tappable /\ tap.value \in Said(tap.fact)
  BY DEF Taps
<1>2. Tappable \subseteq FreeFacts \cup DOMAIN Options
  BY OptionNames DEF Tappable, FreeFacts
<1>3. QED
  BY <1>1, <1>2, SaidValues

LEMMA TapAnswerFine ==
  ASSUME Typed, NEW c \in Contexts, NEW t \in SUBSET Slots, NEW tap \in Taps
  PROVE  TapAnswer(c, t, tap) \in SUBSET Fine
<1> DEFINE v == tap.value
<1>1. tap.fact \in Tappable /\ v \in ValuesOf[tap.fact]
  BY TapValues
<1> HIDE DEF v
<1>2. CASE tap.fact = "service"
  <2>1. v \in Services /\ ForServiceChange(c) \in Contexts /\ {} \in SUBSET Slots
    BY <1>1, <1>2, OptionValues, DropTyped DEF ForServiceChange
  <2>2. ChooseService(ForServiceChange(c), {}, v) \in SUBSET Fine
    BY <2>1, ChooseServiceGood, GoodIsFine
  <2>3. QED
    BY <1>2, <2>2 DEF TapAnswer, v
<1>3. CASE tap.fact = "date"
  <2>1. v \in Days
    BY <1>1, <1>3, OptionValues
  <2>2. HandleDate(c, t, v, FALSE) \in SUBSET Fine
    BY <2>1, HandleDateGood, GoodIsFine
  <2>3. QED
    BY <1>3, <2>2 DEF TapAnswer, v
<1>4. CASE tap.fact = "time"
  <2>1. v \in Hours
    BY <1>1, <1>4, OptionValues
  <2>2. HandleTime(c, t, v) \in SUBSET Fine
    BY <2>1, HandleTimeGood, GoodIsFine
  <2>3. QED
    BY <1>4, <2>2 DEF TapAnswer, v
<1>5. CASE tap.fact = "mode"
  <2>1. v \in {"purchase", "both", "install"}
    BY <1>1, <1>5, OptionValues
  <2>2. ChoosePurchase(c, t, v) \in SUBSET Fine
    BY <2>1, ChoosePurchaseGood, GoodIsFine
  <2>3. QED
    BY <1>5, <2>2 DEF TapAnswer, v
<1>6. CASE tap.fact = "taste"
  <2>1. v \in Contents["taste"]
    BY <1>1, <1>6, ContentCases
  <2>2. HandleProfile(c, t, "taste", v) \in SUBSET Fine
    BY <2>1, HandleProfileGood, GoodIsFine
  <2>3. QED
    BY <1>6, <2>2 DEF TapAnswer, v
<1>7. CASE tap.fact \in {"quantity", "access", "height"}
  <2>1. v \in Contents[tap.fact]
    BY <1>1, <1>7, ContentCases
  <2>2. tap.fact = "quantity" => HandleQuantity(c, t, v) \in SUBSET Fine
    BY <2>1, PlainAnswersGood, GoodIsFine
  <2>3. tap.fact = "access" => HandleAccess(c, t, v) \in SUBSET Fine
    BY <2>1, PlainAnswersGood, GoodIsFine
  <2>4. tap.fact = "height" => HandleHeight(c, t, v) \in SUBSET Fine
    BY <2>1, PlainAnswersGood, GoodIsFine
  <2>5. QED
    BY <1>7, <2>2, <2>3, <2>4 DEF TapAnswer, v
<1>8. CASE tap.fact = "delivery"
  <2>1. v \in Options.delivery
    BY <1>1, <1>8, OptionValues DEF Options
  <2>2. HandleDelivery(c, t, v) \in SUBSET Fine
    BY <2>1, HandleDeliveryGood, GoodIsFine
  <2>3. QED
    BY <1>8, <2>2 DEF TapAnswer, v
<1>9. CASE tap.fact = "property"
  <2> DEFINE u == [c EXCEPT !.property = v]
             d == Invalidated(c, u)
  <2>1. u \in Contexts
    BY <1>1, <1>9, SetFact, FactNames
  <2>2. u.service = c.service
    OBVIOUS
  <2> HIDE DEF u
  <2>3. d \in Contexts
    BY <2>1, InvalidatedTyped
  <2>4. Advance(d, t) \in SUBSET Fine
    BY <2>3, AdvanceGood, GoodIsFine
  <2>5. ~Known(c, "service") => Out(state, d, t) \in Fine
    <3>1. ASSUME ~Known(c, "service")
          PROVE  Follows(d)
      <4>1. d.service = NoFact
        BY <2>2, <3>1, FactNames DEF Invalidated, Drop, Known
      <4>2. QED
        BY <4>1 DEF Follows, Decidable, Known
    <3>2. QED
      BY <2>3, <3>1, StayFine
  <2>6. TapAnswer(c, t, tap) = IF Known(c, "service") THEN Advance(d, t) ELSE {Out(state, d, t)}
    BY <1>9 DEF TapAnswer, u, v
  <2>7. QED
    BY <2>4, <2>5, <2>6
<1>10. QED
  BY <1>1, <1>2, <1>3, <1>4, <1>5, <1>6, <1>7, <1>8, <1>9 DEF Tappable

LEMMA ButtonStep ==
  ASSUME DialogueInv,
         \/ AskForExisting \/ AskForPerson \/ Negotiate \/ SendMedia \/ AfterMedia
         \/ TapOldButton \/ TapUnknownButton \/ KeepChoice \/ ConfirmChange
  PROVE  DialogueInv'
<1>1. Typed /\ ctx \in Contexts /\ tries \in SUBSET Slots /\ Follows(ctx)
  BY DEF DialogueInv, Typed, Follows, Agree
<1>2. Texts \subseteq Messages /\ \A r \in Messages : Readable(r)
  BY <1>1, MessagesTyped, MessagesReadable
<1>3. Readable(Tap)
  BY <1>1, TapReadable
<1>4. CASE AskForExisting
  <2>1. PICK r \in Texts, s \in {"RESCHEDULE", "CANCEL"} : Routed(r, Adverse(Begin(s)))
    BY <1>4 DEF AskForExisting
  <2>2. Begin(s) \in SUBSET Good
    BY <1>1, OpeningGood
  <2>3. Adverse(Begin(s)) \in SUBSET Good
    BY <2>2, AdverseGood
  <2>4. QED
    BY <1>2, <2>1, <2>3, GoodRouted
<1>5. CASE AskForPerson
  <2>1. PICK r \in Messages : Ends(r, Adverse({Person}))
    BY <1>5 DEF AskForPerson
  <2>2. Adverse({Person}) \in SUBSET Good
    BY PersonGood, AdverseGood
  <2>3. QED
    BY <1>2, <2>1, <2>2, GoodRouted
<1>6. CASE Negotiate
  <2>1. Ends(Tap, Adverse({PersonWith(ctx, tries)}))
    BY <1>6 DEF Negotiate
  <2>2. Adverse({PersonWith(ctx, tries)}) \in SUBSET Good
    BY <1>1, PersonGood, AdverseGood
  <2>3. QED
    BY <1>3, <2>1, <2>2, GoodRouted
<1>7. CASE SendMedia
  <2> DEFINE u == [ctx EXCEPT !.media = "yes"]
  <2>1. Ends(Tap, Retry(state, "media", u, tries))
    BY <1>7 DEF SendMedia
  <2>2. "media" \in Facts \ Core
    BY FactNames, CoreNames
  <2>3. u \in Contexts
    BY <1>1, SetFact, FlagValues DEF Flags
  <2>4. Follows(u)
    BY <1>1, <2>2, SetFollows
  <2> HIDE DEF u
  <2>5. Retry(state, "media", u, tries) \in SUBSET Fine
    BY <1>1, <2>3, <2>4, StayFine, SlotNames
  <2>6. QED
    BY <1>3, <2>1, <2>5, EndsStep
<1>8. CASE AfterMedia
  <2> DEFINE c == Drop(ctx, {"media"})
             t == tries \ {"media"}
  <2>1. Ends(Tap, {Person} \cup Resume(state, c, t))
    BY <1>8 DEF AfterMedia
  <2>2. {"media"} \cap Core = {}
    BY CoreNames
  <2>3. c \in Contexts /\ Follows(c) /\ t \in SUBSET Slots
    BY <1>1, <2>2, DropTyped, DropFollows
  <2> HIDE DEF c, t
  <2>4. Resume(state, c, t) \in SUBSET Fine
    BY <1>1, <2>3, StayFine
  <2>5. {Person} \cup Resume(state, c, t) \in SUBSET Fine
    BY <2>4, PersonGood, GoodIsFine
  <2>6. QED
    BY <1>3, <2>1, <2>5, EndsStep
<1>9. CASE TapOldButton
  <2>1. PICK tap \in OldTaps : Ends(Tap, Adverse({Out(state, [ctx EXCEPT !.pendingTap = tap], tries)}))
    BY <1>9 DEF TapOldButton
  <2> DEFINE u == [ctx EXCEPT !.pendingTap = tap]
  <2>2. "pendingTap" \in Facts \ Core /\ tap \in Taps
    BY FactNames, CoreNames DEF OldTaps
  <2>3. u \in Contexts /\ Follows(u)
    BY <1>1, <2>2, SetFact, SetFollows, OtherValues
  <2>4. Ends(Tap, Adverse({Out(state, u, tries)}))
    BY <2>1
  <2> HIDE DEF u
  <2>5. {Out(state, u, tries)} \in SUBSET Fine
    BY <1>1, <2>3, StayFine
  <2>6. QED
    BY <1>3, <2>4, <2>5, FineMarked, EndsStep
<1>10. CASE TapUnknownButton
  <2>1. Ends(Tap, Retry(state, RepairSlot(state, ctx), ctx, tries))
    BY <1>10 DEF TapUnknownButton
  <2>2. state \in BookingStates \cup {"CUSTOMER_NAME"}
    BY <1>10, StateNames DEF TapUnknownButton, BookingStates, Closing
  <2>3. RepairSlot(state, ctx) \in Slots
    BY <2>2, SlotOfState
  <2>4. Retry(state, RepairSlot(state, ctx), ctx, tries) \in SUBSET Fine
    BY <1>1, <2>3, StayFine
  <2>5. QED
    BY <1>3, <2>1, <2>4, EndsStep
<1>11. CASE KeepChoice
  <2> DEFINE c == Drop(ctx, Undecided)
  <2>1. Ends(Tap, Resume(state, c, tries))
    BY <1>11 DEF KeepChoice
  <2>2. Undecided \cap Core = {}
    BY CoreNames DEF Undecided
  <2>3. c \in Contexts /\ Follows(c)
    BY <1>1, <2>2, DropTyped, DropFollows
  <2> HIDE DEF c
  <2>4. Resume(state, c, tries) \in SUBSET Fine
    BY <1>1, <2>3, StayFine
  <2>5. QED
    BY <1>3, <2>1, <2>4, EndsStep
<1>12. CASE ConfirmChange
  <2> DEFINE c == Drop(ctx, Undecided)
  <2>1. /\ \E f \in Undecided : Known(ctx, f)
        /\ Ends(Tap, IF Known(ctx, "pendingService")
                     THEN ChooseService(ForServiceChange(c), {}, ctx.pendingService)
                     ELSE TapAnswer(c, tries, ctx.pendingTap))
    BY <1>12 DEF ConfirmChange
  <2>2. c \in Contexts
    BY <1>1, DropTyped
  <2> HIDE DEF c
  <2>3. CASE Known(ctx, "pendingService")
    <3>1. ctx.pendingService \in Services
      BY <1>1, <2>3, ContextParts, FactNames, OptionValues DEF Known
    <3>2. ForServiceChange(c) \in Contexts /\ {} \in SUBSET Slots
      BY <2>2, DropTyped DEF ForServiceChange
    <3>3. ChooseService(ForServiceChange(c), {}, ctx.pendingService) \in SUBSET Good
      BY <3>1, <3>2, ChooseServiceGood
    <3>4. QED
      BY <1>3, <2>1, <2>3, <3>3, GoodRouted
  <2>4. CASE ~Known(ctx, "pendingService")
    <3>1. ctx.pendingTap \in Taps
      BY <1>1, <2>1, <2>4, ContextParts, FactNames, OtherValues DEF Known, Undecided
    <3>2. TapAnswer(c, tries, ctx.pendingTap) \in SUBSET Fine
      BY <1>1, <2>2, <3>1, TapAnswerFine
    <3>3. QED
      BY <1>3, <2>1, <2>4, <3>2, EndsStep
  <2>5. QED
    BY <2>3, <2>4
<1>13. QED
  BY <1>4, <1>5, <1>6, <1>7, <1>8, <1>9, <1>10, <1>11, <1>12

-----------------------------------------------------------------------------
(* Moving and cancelling appointments.                                     *)

LEMMA LiveTyped ==
  ASSUME Typed
  PROVE  /\ \A i \in DOMAIN appts : appts[i] \in Appointment
         /\ \A i \in Live : i \in DOMAIN appts /\ i \in Nat /\ ContextOf(i) \in Contexts
<1>1. \A i \in DOMAIN appts : appts[i] \in Appointment /\ i \in Nat
  BY DEF Typed
<1>2. ASSUME NEW i \in Live
      PROVE  i \in DOMAIN appts /\ i \in Nat /\ ContextOf(i) \in Contexts
  <2>1. i \in DOMAIN appts /\ i \in Nat /\ appts[i].facts \in Contexts
    BY <1>1 DEF Live, Appointment
  <2>2. [appts[i].facts EXCEPT !.appointment = i] \in Contexts
    BY <2>1, SetFact, OptionValues, FactNames
  <2>3. QED
    BY <2>1, <2>2 DEF ContextOf
<1>3. QED
  BY <1>1, <1>2

LEMMA Replaced ==
  ASSUME Typed, NEW i \in DOMAIN appts, NEW a \in Appointment
  PROVE  /\ [appts EXCEPT ![i] = a] \in Seq(Appointment)
         /\ Len([appts EXCEPT ![i] = a]) = Len(appts)
  BY DEF Typed

LEMMA Withdrawn ==
  ASSUME Typed, NEW i \in Live
  PROVE  /\ [appts EXCEPT ![i].live = FALSE] \in Seq(Appointment)
         /\ Len([appts EXCEPT ![i].live = FALSE]) = Len(appts)
<1> DEFINE a == [appts[i] EXCEPT !.live = FALSE]
<1>1. i \in DOMAIN appts /\ appts[i] \in Appointment
  BY LiveTyped
<1>2. a \in Appointment
  BY <1>1 DEF Appointment
<1>3. [appts EXCEPT ![i].live = FALSE] = [appts EXCEPT ![i] = a]
  OBVIOUS
<1> HIDE DEF a
<1>4. /\ [appts EXCEPT ![i] = a] \in Seq(Appointment)
      /\ Len([appts EXCEPT ![i] = a]) = Len(appts)
  BY <1>1, <1>2, Replaced
<1>5. QED
  BY <1>3, <1>4

LEMMA RevisingStep ==
  ASSUME DialogueInv, Revising
  PROVE  DialogueInv'
<1>1. Typed /\ ctx \in Contexts /\ tries \in SUBSET Slots /\ appts \in Seq(Appointment)
  BY DEF DialogueInv, Typed
<1>2. \A r \in Messages : /\ Readable(r) /\ r.ctx \in Contexts /\ r.tries \in SUBSET Slots
                          /\ r.named \in BOOLEAN /\ r.cost \in {0, 1}
  BY <1>1, MessagesReadable DEF Readable
<1>3. Readable(Tap)
  BY <1>1, TapReadable
<1>4. /\ Fresh("MENU") \in Good /\ Fresh("COMPLETED") \in Good /\ Person \in Good
      /\ Begin("RESCHEDULE") \in SUBSET Good /\ Begin("CANCEL") \in SUBSET Good
  BY <1>1, FreshGood, ServiceState, PersonGood, OpeningGood
<1>5. \A i \in Live : i \in DOMAIN appts /\ i \in Nat /\ ContextOf(i) \in Contexts
  BY <1>1, LiveTyped
<1>6. CASE PickToMove
  <2>1. PICK r \in Messages :
          \/ \E i \in Live : /\ \E o \in Kept(r.ctx, {Out("RESCHEDULE", ContextOf(i), {})}) :
                                   Leads(r, o)
                             /\ origin' = "appointment" /\ UNCHANGED appts
          \/ Ends(r, Kept(r.ctx, IF Live = {} THEN {Fresh("MENU")}
                                 ELSE Retry("RESCHEDULE", "reschedule_booking", r.ctx, r.tries)))
    BY <1>6 DEF PickToMove
  <2>2. CASE \E i \in Live : /\ \E o \in Kept(r.ctx, {Out("RESCHEDULE", ContextOf(i), {})}) :
                                   Leads(r, o)
                             /\ origin' = "appointment" /\ UNCHANGED appts
    <3>1. PICK i \in Live : /\ \E o \in Kept(r.ctx, {Out("RESCHEDULE", ContextOf(i), {})}) :
                                   Leads(r, o)
                            /\ origin' = "appointment" /\ UNCHANGED appts
      BY <2>2
    <3>2. Out("RESCHEDULE", ContextOf(i), {}) \in Good
      <4>1. {} \in SUBSET Slots /\ ContextOf(i) \in Contexts
        BY <1>5
      <4>2. QED
        BY <4>1, ServiceState, OutTyped
    <3>3. {Out("RESCHEDULE", ContextOf(i), {})} \in SUBSET Fine
      BY <3>2, GoodIsFine
    <3>4. Kept(r.ctx, {Out("RESCHEDULE", ContextOf(i), {})}) \in SUBSET Fine
      BY <3>3, KeptFine
    <3>5. PICK o \in Fine : Leads(r, o)
      BY <3>1, <3>4
    <3>6. appts' \in Seq(Appointment) /\ origin' \in {"request", "appointment"}
      BY <1>1, <3>1
    <3>7. QED
      BY <1>2, <3>5, <3>6, LeadsStep
  <2>3. CASE Ends(r, Kept(r.ctx, IF Live = {} THEN {Fresh("MENU")}
                                 ELSE Retry("RESCHEDULE", "reschedule_booking", r.ctx, r.tries)))
    <3> DEFINE S == IF Live = {} THEN {Fresh("MENU")}
                    ELSE Retry("RESCHEDULE", "reschedule_booking", r.ctx, r.tries)
    <3>1. Retry("RESCHEDULE", "reschedule_booking", r.ctx, r.tries) \in SUBSET Good
      BY <1>2, ServiceState, SlotNames, RetryTyped
    <3>2. S \in SUBSET Fine
      BY <1>4, <3>1, GoodIsFine
    <3>3. Ends(r, Kept(r.ctx, S))
      BY <2>3
    <3> HIDE DEF S
    <3>4. QED
      BY <1>2, <3>2, <3>3, KeptFine, EndsStep
  <2>4. QED
    BY <2>1, <2>2, <2>3
<1>7. CASE ChooseMove
  <2>1. PICK r \in Messages :
          LET c == r.ctx
              slot == IF Phase(c) = "date" THEN "reschedule_date" ELSE "reschedule_time"
              rest == r.tries \ {slot}
          IN  Routed(r,
                 IF ~Known(c, "service") THEN Begin("RESCHEDULE")
                 ELSE IF ~Plannable(c) THEN {}
                 ELSE (IF Phase(c) = "date"
                       THEN {Out(state, [c EXCEPT !.date = d], rest) : d \in Days}
                       ELSE {Out(state, [c EXCEPT !.time = h], rest) : h \in Hours})
                      \cup Retry(state, slot, c, r.tries))
    BY <1>7 DEF ChooseMove
  <2> DEFINE c == r.ctx
             slot == IF Phase(c) = "date" THEN "reschedule_date" ELSE "reschedule_time"
             rest == r.tries \ {slot}
             days == {Out(state, [c EXCEPT !.date = d], rest) : d \in Days}
             hours == {Out(state, [c EXCEPT !.time = h], rest) : h \in Hours}
             S == IF ~Known(c, "service") THEN Begin("RESCHEDULE")
                  ELSE IF ~Plannable(c) THEN {}
                  ELSE (IF Phase(c) = "date" THEN days ELSE hours)
                       \cup Retry(state, slot, c, r.tries)
  <2>2. Routed(r, S)
    BY <2>1
  <2>3. c \in Contexts /\ rest \in SUBSET Slots /\ slot \in Slots /\ r.tries \in SUBSET Slots
    BY <1>2, SlotNames
  <2>4. state = "RESCHEDULE"
    BY <1>7 DEF ChooseMove
  <2>5. state \in States /\ state \notin Closing
    BY <2>4, ServiceState
  <2> HIDE DEF rest, slot, c
  <2>6. /\ \A d \in Days : [c EXCEPT !.date = d] \in Contexts
        /\ \A h \in Hours : [c EXCEPT !.time = h] \in Contexts
    BY <2>3, SetFact, OptionValues, FactNames
  <2>7. \A u \in Contexts : Out(state, u, rest) \in Good
    BY <2>3, <2>5, OutTyped
  <2>8. days \in SUBSET Good
    BY <2>6, <2>7
  <2>9. hours \in SUBSET Good
    BY <2>6, <2>7
  <2>10. Retry(state, slot, c, r.tries) \in SUBSET Good
    BY <2>3, <2>5, RetryTyped
  <2> HIDE DEF days, hours
  <2>11. S \in SUBSET Good
    BY <1>4, <2>8, <2>9, <2>10
  <2> HIDE DEF S
  <2>12. QED
    BY <1>2, <2>2, <2>11, GoodRouted
<1>8. CASE DecideMove
  <2>1. PICK r \in Messages :
          LET rest == r.tries \ {"reschedule_confirmation"}
              back == IF Known(r.ctx, "proposed") THEN {"date", "time", "proposed"} ELSE {"time"}
          IN  Routed(r,
                 UNION {IF Plannable(r.ctx) THEN {Out(state, Drop(r.ctx, back), rest)} ELSE {},
                        Retry(state, "reschedule_confirmation", r.ctx, r.tries),
                        Adverse({Person} \cup Begin("RESCHEDULE"))})
    BY <1>8 DEF DecideMove
  <2> DEFINE rest == r.tries \ {"reschedule_confirmation"}
             back == IF Known(r.ctx, "proposed") THEN {"date", "time", "proposed"} ELSE {"time"}
             S == UNION {IF Plannable(r.ctx) THEN {Out(state, Drop(r.ctx, back), rest)} ELSE {},
                         Retry(state, "reschedule_confirmation", r.ctx, r.tries),
                         Adverse({Person} \cup Begin("RESCHEDULE"))}
  <2>2. Routed(r, S)
    BY <2>1
  <2>3. state = "RESCHEDULE"
    BY <1>8 DEF DecideMove
  <2>4. r.ctx \in Contexts /\ r.tries \in SUBSET Slots /\ rest \in SUBSET Slots
    BY <1>2
  <2> HIDE DEF rest, back
  <2>5. Drop(r.ctx, back) \in Contexts
    BY <2>4, DropTyped
  <2>6. Out(state, Drop(r.ctx, back), rest) \in Good
    BY <2>3, <2>4, <2>5, ServiceState, OutTyped
  <2>7. Retry(state, "reschedule_confirmation", r.ctx, r.tries) \in SUBSET Good
    BY <2>3, <2>4, ServiceState, SlotNames, RetryTyped
  <2>8. {Person} \cup Begin("RESCHEDULE") \in SUBSET Good
    BY <1>4
  <2>9. Adverse({Person} \cup Begin("RESCHEDULE")) \in SUBSET Good
    BY <2>8, AdverseGood
  <2>10. S \in SUBSET Good
    BY <2>6, <2>7, <2>9
  <2> HIDE DEF S
  <2>11. QED
    BY <1>2, <2>2, <2>10, GoodRouted
<1>9. CASE ConfirmMove
  <2>1. PICK r \in Messages :
          LET i == r.ctx.appointment
          IN  /\ Phase(r.ctx) = "decision" /\ Known(r.ctx, "service") /\ i \in Live
              /\ \E o \in Kept(r.ctx, {Fresh("COMPLETED")}) : Leads(r, o)
              /\ appts' = [appts EXCEPT ![i] =
                     [facts |-> [Stored(r.ctx) EXCEPT !.service = appts[i].facts.service],
                      date |-> r.ctx.date, time |-> r.ctx.time, live |-> TRUE]]
              /\ origin' = "request"
    BY <1>9 DEF ConfirmMove
  <2> DEFINE i == r.ctx.appointment
             a == [facts |-> [Stored(r.ctx) EXCEPT !.service = appts[i].facts.service],
                   date |-> r.ctx.date, time |-> r.ctx.time, live |-> TRUE]
  <2>2. r.ctx \in Contexts /\ i \in DOMAIN appts /\ appts[i] \in Appointment
    BY <1>1, <1>2, <2>1, LiveTyped
  <2>3. appts[i].facts.service \in Services \cup {NoFact}
    BY <2>2, ContextParts, FactNames, OptionValues DEF Appointment
  <2>4. [Stored(r.ctx) EXCEPT !.service = appts[i].facts.service] \in Contexts
    BY <2>2, <2>3, DisplayedTyped
  <2>5. r.ctx.date \in Days /\ r.ctx.time \in Hours
    <3>1. Known(r.ctx, "date") /\ Known(r.ctx, "time")
      BY <2>1 DEF Phase
    <3>2. QED
      BY <2>2, <3>1, ContextParts, FactNames, OptionValues DEF Known
  <2>6. a \in Appointment
    BY <2>4, <2>5 DEF Appointment
  <2>7. appts' = [appts EXCEPT ![i] = a] /\ origin' \in {"request", "appointment"}
    BY <2>1
  <2> HIDE DEF a
  <2>8. appts' \in Seq(Appointment)
    BY <1>1, <2>2, <2>6, <2>7, Replaced
  <2>9. {Fresh("COMPLETED")} \in SUBSET Fine
    BY <1>4, GoodIsFine
  <2>10. PICK o \in Fine : Leads(r, o)
    BY <2>1, <2>9, KeptFine
  <2>11. QED
    BY <1>2, <2>7, <2>8, <2>10, LeadsStep
<1>10. CASE GiveUpMove
  <2>1. Routed(Tap, {Fresh("MENU")})
    BY <1>10 DEF GiveUpMove
  <2>2. {Fresh("MENU")} \in SUBSET Good
    BY <1>4
  <2>3. QED
    BY <1>3, <2>1, <2>2, GoodRouted
<1>11. CASE PickToCancel
  <2>1. PICK r \in Messages :
          Routed(r, IF Live = {} THEN {Fresh("MENU")}
                    ELSE {Out("CANCEL", [NoContext EXCEPT !.appointment = i], {}) : i \in Live}
                         \cup Retry("CANCEL", "cancel_booking", r.ctx, r.tries))
    BY <1>11 DEF PickToCancel
  <2> DEFINE M == {Out("CANCEL", [NoContext EXCEPT !.appointment = i], {}) : i \in Live}
             S == IF Live = {} THEN {Fresh("MENU")}
                  ELSE M \cup Retry("CANCEL", "cancel_booking", r.ctx, r.tries)
  <2>2. Routed(r, S)
    BY <2>1
  <2>3. \A i \in Live : [NoContext EXCEPT !.appointment = i] \in Contexts
    BY <1>5, EmptyTyped, SetFact, OptionValues, FactNames
  <2>4. \A u \in Contexts : Out("CANCEL", u, {}) \in Good
    <3>1. {} \in SUBSET Slots
      OBVIOUS
    <3>2. QED
      BY <3>1, ServiceState, OutTyped
  <2>5. M \in SUBSET Good
    BY <2>3, <2>4
  <2>6. Retry("CANCEL", "cancel_booking", r.ctx, r.tries) \in SUBSET Good
    BY <1>2, ServiceState, SlotNames, RetryTyped
  <2> HIDE DEF M
  <2>7. S \in SUBSET Good
    BY <1>4, <2>5, <2>6
  <2> HIDE DEF S
  <2>8. QED
    BY <1>2, <2>2, <2>7, GoodRouted
<1>12. CASE DecideCancel
  <2>1. PICK r \in Messages :
          Routed(r, UNION {{Fresh("MENU")}, Adverse(Begin("CANCEL")),
                           Retry("CANCEL", "cancel_confirmation", r.ctx, r.tries)})
    BY <1>12 DEF DecideCancel
  <2>2. Retry("CANCEL", "cancel_confirmation", r.ctx, r.tries) \in SUBSET Good
    BY <1>2, ServiceState, SlotNames, RetryTyped
  <2>3. Adverse(Begin("CANCEL")) \in SUBSET Good
    BY <1>4, AdverseGood
  <2>4. UNION {{Fresh("MENU")}, Adverse(Begin("CANCEL")),
               Retry("CANCEL", "cancel_confirmation", r.ctx, r.tries)} \in SUBSET Good
    BY <1>4, <2>2, <2>3
  <2>5. QED
    BY <1>2, <2>1, <2>4, GoodRouted
<1>13. CASE ConfirmCancel
  <2>1. PICK r \in Messages :
          /\ r.ctx.appointment \in Live
          /\ \E o \in Kept(r.ctx, {Fresh("COMPLETED")}) : Leads(r, o)
          /\ appts' = [appts EXCEPT ![r.ctx.appointment].live = FALSE]
          /\ origin' = "request"
    BY <1>13 DEF ConfirmCancel
  <2>2. appts' \in Seq(Appointment) /\ origin' \in {"request", "appointment"}
    BY <1>1, <2>1, Withdrawn
  <2>3. {Fresh("COMPLETED")} \in SUBSET Fine
    BY <1>4, GoodIsFine
  <2>4. PICK o \in Fine : Leads(r, o)
    BY <2>1, <2>3, KeptFine
  <2>5. QED
    BY <1>2, <2>2, <2>4, LeadsStep
<1>14. QED
  BY <1>6, <1>7, <1>8, <1>9, <1>10, <1>11, <1>12, <1>13 DEF Revising

-----------------------------------------------------------------------------
(* The office.                                                             *)

LEMMA Restarted ==
  ASSUME DialogueInv, Reset, auto' \in BOOLEAN, UNCHANGED <<named, appts>>,
         surprises' \in 0 .. MaxSurprises
  PROVE  DialogueInv'
<1>1. /\ state' = "START" /\ ctx' = NoContext /\ tries' = {}
      /\ shown' = NoContext /\ fitted' = NoContext /\ origin' = "request"
  BY DEF Reset
<1>2. state' \in States \ Closing /\ state' # "BOOKING_CONFIRM"
  BY <1>1, ServiceState
<1>3. Typed'
  BY <1>1, <1>2, EmptyTyped DEF DialogueInv, Typed
<1>4. SlotFitsPlan' /\ SummaryIsCurrent'
  BY <1>2 DEF SlotFitsPlan, SummaryIsCurrent, Closing
<1>5. QED
  BY <1>3, <1>4 DEF DialogueInv

LEMMA CountedTyped ==
  ASSUME Typed, Counted
  PROVE  surprises' \in 0 .. MaxSurprises
  BY TurnAssumption DEF Typed, Counted

LEMMA OfficeStep ==
  ASSUME DialogueInv, Office
  PROVE  DialogueInv'
<1>1. Typed /\ ctx \in Contexts
  BY DEF DialogueInv, Typed
<1>2. CASE OfficeProposes
  <2>1. PICK i \in Live :
          /\ state' = "RESCHEDULE" /\ tries' = {} /\ origin' = "appointment"
          /\ \/ ctx' = ContextOf(i)
             \/ \E d \in Days, h \in Hours :
                   ctx' = [ContextOf(i) EXCEPT !.date = d, !.time = h, !.proposed = "yes"]
    BY <1>2 DEF OfficeProposes
  <2>2. ContextOf(i) \in Contexts
    BY <1>1, LiveTyped
  <2>3. ASSUME NEW d \in Days, NEW h \in Hours
        PROVE  [ContextOf(i) EXCEPT !.date = d, !.time = h, !.proposed = "yes"] \in Contexts
    <3> DEFINE u == [ContextOf(i) EXCEPT !.date = d, !.time = h]
    <3>1. u \in Contexts
      BY <2>2, TwoFacts
    <3> HIDE DEF u
    <3>2. [u EXCEPT !.proposed = "yes"] \in Contexts
      BY <3>1, SetFact, FlagValues DEF Flags
    <3>3. QED
      BY <3>2 DEF u
  <2>4. ctx' \in Contexts
    BY <2>1, <2>2, <2>3
  <2>5. state' \in States \ Closing /\ state' # "BOOKING_CONFIRM"
    BY <2>1, ServiceState
  <2>6. Typed'
    <3>1. surprises' \in 0 .. MaxSurprises
      BY <1>1, <1>2, CountedTyped DEF OfficeProposes
    <3>2. UNCHANGED <<auto, named, appts, shown, fitted>>
      BY <1>2 DEF OfficeProposes
    <3>3. QED
      BY <1>1, <2>1, <2>4, <2>5, <3>1, <3>2 DEF Typed
  <2>7. SlotFitsPlan' /\ SummaryIsCurrent'
    BY <2>5 DEF SlotFitsPlan, SummaryIsCurrent, Closing
  <2>8. QED
    BY <2>6, <2>7 DEF DialogueInv
<1>3. CASE OfficeCancels
  <2>1. PICK i \in Live : appts' = [appts EXCEPT ![i].live = FALSE]
    BY <1>3 DEF OfficeCancels
  <2>2. appts' \in Seq(Appointment)
    BY <1>1, <2>1, Withdrawn
  <2>3. UNCHANGED <<state, ctx, tries, auto, named, shown, fitted, origin>>
    BY <1>3 DEF OfficeCancels
  <2>4. surprises' \in 0 .. MaxSurprises
    BY <1>1, <1>3, CountedTyped DEF OfficeCancels
  <2>5. Typed'
    BY <1>1, <2>2, <2>3, <2>4 DEF Typed
  <2>6. SlotFitsPlan' /\ SummaryIsCurrent'
    BY <2>3 DEF DialogueInv, SlotFitsPlan, SummaryIsCurrent
  <2>7. QED
    BY <2>5, <2>6 DEF DialogueInv
<1>4. CASE RemindOfCleaning
  <2>1. /\ ctx' = [ctx EXCEPT !.outreach = "yes"]
        /\ UNCHANGED <<state, tries, auto, named, appts, shown, fitted, origin>>
    BY <1>4 DEF RemindOfCleaning
  <2>2. ctx' \in Contexts
    <3>1. [ctx EXCEPT !.outreach = "yes"] \in Contexts
      BY <1>1, SetFact, FlagValues DEF Flags
    <3>2. QED
      BY <2>1, <3>1
  <2>3. surprises' \in 0 .. MaxSurprises
    BY <1>1, <1>4, CountedTyped DEF RemindOfCleaning
  <2>4. Typed'
    BY <1>1, <2>1, <2>2, <2>3 DEF Typed
  <2>5. \A f \in Core : ctx'[f] = ctx[f]
    BY <1>1, <2>1, CoreInFacts, CoreNames, ContextParts
  <2>6. /\ Planned(ctx') = Planned(ctx) /\ (Decidable(ctx') <=> Decidable(ctx))
        /\ Only(Displayed(ctx'), ShownTerms) = Only(Displayed(ctx), ShownTerms)
    <3>1. PICK d \in Contexts : d = ctx'
      BY <2>2
    <3>2. Agree(d, ctx)
      BY <2>5, <3>1 DEF Agree
    <3>3. /\ Planned(d) = Planned(ctx) /\ (Decidable(d) <=> Decidable(ctx))
          /\ Only(Displayed(d), ShownTerms) = Only(Displayed(ctx), ShownTerms)
      BY <1>1, <3>2, CoreDecides
    <3>4. QED
      BY <3>1, <3>3
  <2>7. SlotFitsPlan'
    BY <2>1, <2>6 DEF DialogueInv, SlotFitsPlan
  <2>8. SummaryIsCurrent'
    BY <2>1, <2>6 DEF DialogueInv, SummaryIsCurrent
  <2>9. QED
    BY <2>4, <2>7, <2>8 DEF DialogueInv
<1>5. CASE TakeOver
  <2>1. auto' = FALSE /\ UNCHANGED <<state, ctx, tries, named, appts, shown, fitted, origin>>
    BY <1>5 DEF TakeOver
  <2>2. surprises' \in 0 .. MaxSurprises
    BY <1>1, <1>5, CountedTyped DEF TakeOver
  <2>3. Typed'
    BY <1>1, <2>1, <2>2 DEF Typed
  <2>4. SlotFitsPlan' /\ SummaryIsCurrent'
    BY <2>1 DEF DialogueInv, SlotFitsPlan, SummaryIsCurrent
  <2>5. QED
    BY <2>3, <2>4 DEF DialogueInv
<1>6. CASE GiveBack
  <2>1. /\ auto' = TRUE /\ UNCHANGED <<named, appts, surprises>>
        /\ IF state = "HUMAN_HANDOFF" THEN Reset
           ELSE UNCHANGED <<state, ctx, tries, shown, fitted, origin>>
    BY <1>6 DEF GiveBack
  <2>2. CASE state = "HUMAN_HANDOFF"
    <3>1. auto' \in BOOLEAN /\ surprises' \in 0 .. MaxSurprises
      BY <1>1, <2>1 DEF Typed
    <3>2. QED
      BY <2>1, <2>2, <3>1, Restarted
  <2>3. CASE state # "HUMAN_HANDOFF"
    <3>1. Typed'
      BY <1>1, <2>1, <2>3 DEF Typed
    <3>2. SlotFitsPlan' /\ SummaryIsCurrent'
      BY <2>1, <2>3 DEF DialogueInv, SlotFitsPlan, SummaryIsCurrent
    <3>3. QED
      BY <3>1, <3>2 DEF DialogueInv
  <2>4. QED
    BY <2>2, <2>3
<1>7. CASE Archive
  <2>1. Reset /\ auto' \in BOOLEAN /\ UNCHANGED <<named, appts>>
    BY <1>7 DEF Archive
  <2>2. surprises' \in 0 .. MaxSurprises
    BY <1>1, <1>7, CountedTyped DEF Archive
  <2>3. QED
    BY <2>1, <2>2, Restarted
<1>8. QED
  BY <1>2, <1>3, <1>4, <1>5, <1>6, <1>7 DEF Office

-----------------------------------------------------------------------------
(* The theorems.                                                           *)

LEMMA DialogueInit == Init => DialogueInv
<1> SUFFICES ASSUME Init PROVE DialogueInv
  OBVIOUS
<1>1. state = "START" /\ state \in States \ Closing /\ state # "BOOKING_CONFIRM"
  BY ServiceState DEF Init
<1>2. Typed
  BY <1>1, EmptyTyped, TurnAssumption DEF Init, Typed
<1>3. SlotFitsPlan /\ SummaryIsCurrent
  BY <1>1 DEF SlotFitsPlan, SummaryIsCurrent, Closing
<1>4. QED
  BY <1>2, <1>3 DEF DialogueInv

LEMMA DialogueStep == DialogueInv /\ [Next]_vars => DialogueInv'
<1> SUFFICES ASSUME DialogueInv, [Next]_vars PROVE DialogueInv'
  OBVIOUS
<1>1. CASE Answering
  BY <1>1, IntakeAnswered, AgendaAnswered, ClosingAnswered, BookingStep DEF Answering
<1>2. CASE Opening
  BY <1>2, OpeningStep
<1>3. CASE Straying
  BY <1>3, StrayingStep, ButtonStep DEF Straying
<1>4. CASE Revising
  BY <1>4, RevisingStep
<1>5. CASE Office
  BY <1>5, OfficeStep
<1>6. CASE UNCHANGED vars
  BY <1>6 DEF vars, DialogueInv, Typed, SlotFitsPlan, SummaryIsCurrent
<1>7. QED
  BY <1>1, <1>2, <1>3, <1>4, <1>5, <1>6 DEF Next

LEMMA DialogueInvariant == Spec => []DialogueInv
  BY DialogueInit, DialogueStep, PTL DEF Spec

\* Each variable keeps its type: the context holds only values of its facts.
THEOREM DialogueTyped == Spec => []TypeOK
<1>1. DialogueInv => TypeOK
  <2> SUFFICES ASSUME DialogueInv PROVE TypeOK
    OBVIOUS
  <2>1. Typed
    BY DEF DialogueInv
  <2>2. IsContext(ctx) /\ IsContext(shown) /\ IsContext(fitted)
    BY <2>1 DEF Typed, Contexts
  <2>3. \A i \in DOMAIN appts :
          /\ IsContext(appts[i].facts)
          /\ appts[i].date \in Days /\ appts[i].time \in Hours /\ appts[i].live \in BOOLEAN
    <3>1. \A i \in DOMAIN appts : appts[i] \in Appointment
      BY <2>1, LiveTyped
    <3>2. QED
      BY <3>1 DEF Appointment, Contexts
  <2>4. QED
    BY <2>1, <2>2, <2>3 DEF Typed, TypeOK
<1>2. QED
  BY <1>1, DialogueInvariant, PTL

\* The chosen time was offered for the visit as it is planned now, whatever the
\* customer corrects, asks or taps on the way to the confirmation.
THEOREM SlotAlwaysFits == Spec => []SlotFitsPlan
<1>1. DialogueInv => SlotFitsPlan
  BY DEF DialogueInv
<1>2. QED
  BY <1>1, DialogueInvariant, PTL

\* Only the confirmation of a summary adds an appointment.
LEMMA OnlyConfirmationBooks ==
  ASSUME Typed, [Next]_vars, ~ConfirmBooking
  PROVE  Len(appts') = Len(appts)
<1>1. CASE \/ AnswerService \/ AnswerQuantity \/ AnswerAccess \/ AnswerAddress
           \/ AnswerOwnership \/ AnswerModel \/ SendPhotoOrVideo \/ AnswerProfile
  BY <1>1 DEF AnswerService, AnswerQuantity, AnswerAccess, AnswerAddress, AnswerOwnership,
              AnswerModel, SendPhotoOrVideo, AnswerProfile, Routed, Ends
<1>2. CASE \/ AnswerDelivery \/ AnswerHeight \/ AnswerProperty \/ AnswerHours
           \/ AnswerGate \/ AnswerTubing \/ AnswerLimit \/ AnswerWeekday \/ AnswerDate
  BY <1>2 DEF AnswerDelivery, AnswerHeight, AnswerProperty, AnswerHours, AnswerGate,
              AnswerTubing, AnswerLimit, AnswerWeekday, AnswerDate, Routed, Ends
<1>3. CASE \/ AnswerTime \/ AnswerAttendee \/ AnswerAttendeeName \/ AnswerPhone
           \/ AnswerQuote \/ DecideOnSummary
  BY <1>3 DEF AnswerTime, AnswerAttendee, AnswerAttendeeName, AnswerPhone, AnswerQuote,
              DecideOnSummary, Routed, Ends
<1>4. CASE Opening
  BY <1>4 DEF Opening, Start, ChooseInMenu, WriteInMenu, OpenerOnly, AskName, GiveName,
              WithholdName, AfterCompletion, HelpAfterBooking, ResumeQuote, AnswerOutreach,
              Routed, Ends
<1>5. CASE \/ SideTalk \/ AskAboutDevice \/ TakeSuggestion \/ InsistOnUnlisted
           \/ NameService \/ WantPurchase \/ DeclinePurchase \/ PreferDaypart
  BY <1>5 DEF SideTalk, AskAboutDevice, TakeSuggestion, InsistOnUnlisted, NameService,
              WantPurchase, DeclinePurchase, PreferDaypart, Routed, Ends
<1>6. CASE \/ AskForExisting \/ AskForPerson \/ Negotiate \/ SendMedia \/ AfterMedia
           \/ TapOldButton \/ TapUnknownButton \/ KeepChoice \/ ConfirmChange
  BY <1>6 DEF AskForExisting, AskForPerson, Negotiate, SendMedia, AfterMedia, TapOldButton,
              TapUnknownButton, KeepChoice, ConfirmChange, Routed, Ends
<1>7. CASE \/ PickToMove \/ ChooseMove \/ DecideMove \/ GiveUpMove \/ PickToCancel
           \/ DecideCancel
  BY <1>7 DEF PickToMove, ChooseMove, DecideMove, GiveUpMove, PickToCancel, DecideCancel,
              Routed, Ends
<1>8. CASE ConfirmMove
  <2>1. PICK i, a : appts' = [appts EXCEPT ![i] = a]
    BY <1>8 DEF ConfirmMove
  <2>2. QED
    BY <2>1 DEF Typed
<1>9. CASE ConfirmCancel
  <2>1. PICK i \in Live : appts' = [appts EXCEPT ![i].live = FALSE]
    BY <1>9 DEF ConfirmCancel
  <2>2. QED
    BY <2>1, Withdrawn
<1>10. CASE OfficeCancels
  <2>1. PICK i \in Live : appts' = [appts EXCEPT ![i].live = FALSE]
    BY <1>10 DEF OfficeCancels
  <2>2. QED
    BY <2>1, Withdrawn
<1>11. CASE OfficeProposes \/ RemindOfCleaning \/ TakeOver \/ GiveBack \/ Archive
  BY <1>11 DEF OfficeProposes, RemindOfCleaning, TakeOver, GiveBack, Archive
<1>12. CASE UNCHANGED vars
  BY <1>12 DEF vars
<1>13. QED
  BY <1>1, <1>2, <1>3, <1>4, <1>5, <1>6, <1>7, <1>8, <1>9, <1>10, <1>11, <1>12
     DEF Next, Answering, Straying, Revising, Office

\* What is booked is what the last summary showed.
THEOREM BookingsAreAsShown == Spec => BookedAsShown
<1>1. DialogueInv /\ [Next]_vars =>
        [Len(appts') > Len(appts)
           => Only(Displayed(ctx'), ShownTerms) = Only(shown, ShownTerms)]_vars
  <2> SUFFICES ASSUME DialogueInv, [Next]_vars, Len(appts') > Len(appts)
               PROVE  Only(Displayed(ctx'), ShownTerms) = Only(shown, ShownTerms)
    OBVIOUS
  <2>1. CASE ConfirmBooking
    BY <2>1, BookingStep
  <2>2. CASE ~ConfirmBooking
    <3>1. Typed
      BY DEF DialogueInv
    <3>2. Len(appts') = Len(appts) /\ Len(appts) \in Nat
      BY <2>2, <3>1, OnlyConfirmationBooks DEF Typed
    <3>3. QED
      BY <3>2
  <2>3. QED
    BY <2>1, <2>2
<1>2. QED
  BY <1>1, DialogueInvariant, PTL DEF Spec, BookedAsShown
=============================================================================

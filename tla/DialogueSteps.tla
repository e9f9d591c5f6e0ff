--------------------------- MODULE DialogueSteps ---------------------------
(***************************************************************************)
(* The handlers of transitions.py as functions: from what is known (c) and *)
(* the questions that failed once (t, repair_attempts) to the SET of       *)
(* possible outcomes. A set stands for what the text may say and for what  *)
(* the booking port may answer; "cost" is 1 when the turn is off the       *)
(* straight path (a failed answer, an agenda without room), so that a      *)
(* bounded instance can bound these. The port is configured: the branches  *)
(* for a missing port, which only repeat the question, are left out. A     *)
(* turn that raises is rolled back: it is no outcome at all.               *)
(***************************************************************************)
EXTENDS DialogueContext

Out(s, c, t) == [state |-> s, ctx |-> c, tries |-> t, cost |-> 0, shows |-> FALSE,
                 picks |-> FALSE, fresh |-> FALSE]
Adverse(S) == {[o EXCEPT !.cost = 1] : o \in S}
Renewed(S) == {[o EXCEPT !.fresh = TRUE] : o \in S}

Fresh(s) == [Out(s, NoContext, {}) EXCEPT !.fresh = TRUE]
Person == Fresh("HUMAN_HANDOFF")
PersonWith(c, t) == Out("HUMAN_HANDOFF", c, t)
Restart == {Fresh("BOOKING_SERVICE")} \cup Adverse({Fresh("MENU")})

\* The second failed answer to a question calls a person.
Retry(s, slot, c, t) ==
    Adverse({IF slot \in t THEN Person ELSE Out(s, c, t \cup {slot})})

----------------------------------------------------------------------------
(***************************************************************************)
(* The agenda. The port refuses (BookingRequiresHandoff) when the address  *)
(* that the plan uses is missing, and may refuse for reasons of its own.   *)
(***************************************************************************)
Delivered(c) == PurchaseOnly(c) /\ c.fulfillment = "equipmentDelivery"
PickedUp(c) == PurchaseOnly(c) /\ c.fulfillment = "equipmentPickup"
AddressUsed(c) == IF Delivered(c) THEN c.deliveryAddress ELSE c.address
Plannable(c) ==
    "address" \notin Asks[c.service] \/ PickedUp(c) \/ AddressUsed(c) # NoFact

IntakeOnly(c) == Drop(c, Scheduling \cup {"pendingTurn"})
DatesListed(c, t) == {Out(s, IntakeOnly(c), t) : s \in {"BOOKING_WEEKDAY", "BOOKING_DATE"}}

OfferDates(c, t) ==
    IF ~Known(c, "service") THEN Restart
    ELSE IF ~Plannable(c) THEN {Person}
    ELSE DatesListed(c, t) \cup Adverse({Person, Fresh("BOOKING_SERVICE")})

ReturnToDates(c, t) == DatesListed(c, t) \cup Restart

(***************************************************************************)
(* The last questions, and the summary the customer is asked to confirm.   *)
(***************************************************************************)
FinalConfirmation(c, t) ==
    IF \A f \in Scheduling \cup {"service"} : Known(c, f)
    THEN {[Out("BOOKING_CONFIRM", c, t) EXCEPT !.shows = TRUE]}
    ELSE Restart

\* Fault for the mutation runs: the telephone is not asked for.
PreconfirmationNoPhone(c, t) ==
    IF ~Known(c, "attendee") THEN {Out("BOOKING_ATTENDEE", c, t)}
    ELSE IF c.attendee = "other" /\ ~Known(c, "attendeeName")
    THEN {Out("BOOKING_ATTENDEE_NAME", c, t)}
    ELSE FinalConfirmation(c, t)

Preconfirmation(c, t) ==
    IF ~Known(c, "attendee") THEN {Out("BOOKING_ATTENDEE", c, t)}
    ELSE IF c.attendee = "other" /\ ~Known(c, "attendeeName")
    THEN {Out("BOOKING_ATTENDEE_NAME", c, t)}
    ELSE IF ~Known(c, "phoneOk") THEN {Out("BOOKING_PHONE_CONFIRM", c, t)}
    ELSE FinalConfirmation(c, t)

\* Fault for the mutation runs: day and hour are swapped.
PickedSwapped(c, t, d, h) ==
    {[o EXCEPT !.picks = TRUE] :
        o \in Preconfirmation([c EXCEPT !.date = h, !.time = d], t)}

Picked(c, t, d, h) ==
    {[o EXCEPT !.picks = TRUE] :
        o \in Preconfirmation([c EXCEPT !.date = d, !.time = h], t)}

\* "spoken": the text that named the day may also name an hour that is free.
OfferTimes(c, t, d, spoken) ==
    IF ~Plannable(c) THEN {Person}
    ELSE UNION {{Out("BOOKING_TIME", [IntakeOnly(c) EXCEPT !.date = d], t)},
                UNION {Picked(c, t, d, h) : h \in IF spoken THEN Hours ELSE {}},
                Adverse(ReturnToDates(c, t)), Adverse({Person})}

HandleDate(c, t, d, spoken) ==
    IF ~Known(c, "service") THEN Restart
    ELSE IF ~Plannable(c) THEN {Person}
    ELSE UNION {OfferTimes(c, t \ {"date"}, d, spoken), Adverse(Restart),
                Retry("BOOKING_DATE", "date", c, t)}

DateUnclear(c, t) ==
    IF ~Known(c, "service") THEN Restart
    ELSE IF ~Plannable(c) THEN {Person}
    ELSE UNION {Retry(s, "date", c, t) : s \in {"BOOKING_DATE", "BOOKING_WEEKDAY"}}

\* A weekday may have one date (its times), many, or none.
HandleWeekday(c, t) ==
    IF ~Known(c, "service") THEN Restart
    ELSE IF ~Plannable(c) THEN {Person}
    ELSE UNION {UNION {OfferTimes(c, t, d, TRUE) : d \in Days}, DatesListed(c, t),
                Adverse(Restart), Retry("BOOKING_WEEKDAY", "weekday", c, t)}

HandleTime(c, t, h) ==
    IF ~Known(c, "service") \/ ~Known(c, "date") THEN Restart
    ELSE IF ~Plannable(c) THEN {Person}
    ELSE UNION {Picked(c, t \ {"time"}, c.date, h), Adverse(ReturnToDates(c, t)),
                Adverse({Person}), Retry("BOOKING_TIME", "time", c, t)}

\* A part of the day replaces the hours the site allows.
HandleDaypart(c, t, p) ==
    LET u == [c EXCEPT !.time = NoFact, !.daypart = p, !.limit = p]
    IN  IF ~Known(c, "service") THEN Restart
        ELSE IF ~Plannable(c) THEN {Person}
        ELSE UNION {IF Known(c, "date") THEN {Out("BOOKING_TIME", u, t)} ELSE {},
                    DatesListed(u, t),
                    Adverse({Out("BOOKING_DATE", u, t), Person}),
                    UNION {OfferTimes(u, t, d, TRUE) : d \in Days}}

----------------------------------------------------------------------------
(***************************************************************************)
(* The intake: the next question, or a quote, or the agenda.               *)
(***************************************************************************)
Quote(c, t) == {Out("QUOTE_DECISION", [c EXCEPT !.quoted = "yes"], t)} \cup Adverse({Person})

Ask(q, c, t) ==
    Out(StateOf[q],
        CASE q = "reference" /\ c.modelKnown # "no" -> [c EXCEPT !.modelKnown = "yes"]
          [] q = "deliveryAddress" -> [c EXCEPT !.purpose = "delivery"]
          [] OTHER -> c,
        t)

AskNext(c, t) ==
    IF ~Known(c, "service") THEN Restart
    ELSE LET d == Derived(c)
         IN  IF Open(d) # {} THEN {Ask(FirstOpen(d), d, t)}
             ELSE IF d.request = "quote" /\ ~Known(d, "quoted") /\ ~BuysOnly(d) THEN Quote(d, t)
             ELSE OfferDates(d, t)

\* A device is recommended once its profile is complete, if the catalogue has one.
Recommend(c, t) ==
    (UNION {AskNext([c EXCEPT !.recommended = r], t) : r \in Contents.recommended})
        \cup Adverse({PersonWith(c, t)})

Advance(c, t) ==
    IF /\ Known(c, "service") /\ ProfileKnown(c)
       /\ Open(Derived(c)) # {} /\ FirstOpen(Derived(c)) = "profile"
    THEN Recommend(Derived(c), t)
    ELSE AskNext(c, t)

\* The handlers of the intake read the configuration of the chosen service first.
WithIntake(c, S) == IF Known(c, "service") THEN S \cup Adverse({Person}) ELSE {Person}

----------------------------------------------------------------------------
(***************************************************************************)
(* Choosing the service. A service that is not booked automatically, or a  *)
(* purchase without an installation service, needs a person.               *)
(***************************************************************************)
NotForExisting == {"mode", "request", "recommended", "suggestion", "mismatch",
                   "delivery", "deliveryAddress", "match", "clarify"}

ServiceChosen(c, s) ==
    LET u == [c EXCEPT !.service = s, !.clarify = NoFact]
    IN  IF Kind[s] \in {"maintenance", "diagnostics"}
        THEN [Drop(u, NotForExisting) EXCEPT !.ownership = "has"]
        ELSE u

\* A fault that is heard ("it rattles") requires a video.
ChooseService(c, t, s) ==
    LET u == ServiceChosen(c, s)
        heard == IF Kind[s] = "diagnostics" THEN {[u EXCEPT !.video = "required"]} ELSE {}
    IN  UNION {UNION {Advance(v, t) : v \in {u} \cup heard},
               Adverse({Person}), Retry("BOOKING_SERVICE", "service", c, t)}

PurchaseChosen(c, s, m) ==
    LET u == [c EXCEPT !.service = s, !.mode = m, !.clarify = NoFact]
    IN  Invalidated(c, IF m = "install"
                       THEN [Drop(u, {"request", "recommended"}) EXCEPT !.ownership = "has"]
                       ELSE [u EXCEPT !.request = "quote", !.ownership = "needs"])

ChoosePurchase(c, t, m) ==
    LET installations == {s \in Services : Kind[s] = "installation"}
    IN  IF installations = {} THEN {Person}
        ELSE (UNION {Advance(PurchaseChosen(c, s, m), t) : s \in installations})
                 \cup Adverse({Person})

Clarify(c, t) ==
    Out("BOOKING_SERVICE", [c EXCEPT !.clarify = "yes", !.request = "quote"], t)

HandleService(c, t) ==
    LET purchases == UNION {ChoosePurchase(c, t, m) : m \in {"purchase", "both", "install"}}
    IN  IF Known(c, "clarify")
        THEN purchases \cup Retry("BOOKING_SERVICE", "clarify", c, t)
        ELSE UNION {UNION {ChooseService(c, t, s) : s \in Services}, purchases,
                    {Clarify(c, t)}, Retry("BOOKING_SERVICE", "service", c, t)}

----------------------------------------------------------------------------
(***************************************************************************)
(* The answers of the intake. Some are corrections of what was planned and *)
(* invalidate it; ownership, model, delivery, tubing, hours, gate and      *)
(* limit are only noted.                                                   *)
(***************************************************************************)
Corrected(c, u, t) == WithIntake(c, Advance(Invalidated(c, u), t))
Noted(c, u, t) == WithIntake(c, Advance(u, t))

HandleQuantity(c, t, v) == Corrected(c, [c EXCEPT !.quantity = v], t \ {"quantity"})
HandleAccess(c, t, v) == Corrected(c, [c EXCEPT !.access = v], t \ {"access"})
HandleHeight(c, t, v) == Corrected(c, [c EXCEPT !.height = v], t \ {"height"})
HandleProperty(c, t, v) == Corrected(c, [c EXCEPT !.property = v], t \ {"property"})
HandleHours(c, t, v) == Noted(c, [c EXCEPT !.hours = v], t \ {"hours"})
HandleGate(c, t, v) == Noted(c, [c EXCEPT !.gate = v], t \ {"gate"})
HandleLimit(c, t, v) ==
    Noted(c, [c EXCEPT !.limit = v, !.limitKnown = "yes"], t \ {"limit"})

HandleOwnership(c, t, v) ==
    Noted(c, IF v = "has" THEN [c EXCEPT !.ownership = v, !.modelKnown = "yes"]
             ELSE [c EXCEPT !.ownership = v,
                            !.request = IF @ = NoFact THEN "quote" ELSE @],
          t \ {"ownership"})

\* A length that is only a guess is asked again before it is taken.
Tubing(c, v) == [c EXCEPT !.tubing = v, !.meters = NoFact]
HandleTubing(c, t, v) == Noted(c, Tubing(c, v), IF v = "unknown" THEN t ELSE t \ {"tubing"})
TubingConfirmed(c, t) ==
    IF Known(c, "meters") THEN Noted(c, Tubing(c, c.meters), t) ELSE {}
TubingUnsure(c, t, v) ==
    {Out("BOOKING_TUBING", [c EXCEPT !.meters = v, !.tubing = NoFact], t)}

(***************************************************************************)
(* Addresses: one without its city waits for it ("street").                *)
(***************************************************************************)
AddressSuccess(c, t, a) ==
    LET kept == Drop(c, {"purpose", "street"})
        u == IF c.purpose = "delivery"
             THEN [kept EXCEPT !.deliveryAddress = a,
                               !.match = IF PurchaseOnly(c) THEN NoFact ELSE "yes"]
             ELSE [kept EXCEPT !.address = a]
    IN  Corrected(c, u, t \ {"address", "city"})

HandleAddress(c, t) ==
    IF Known(c, "street")
    THEN AddressSuccess(c, t, c.street) \cup Retry("BOOKING_ADDRESS", "city", c, t)
    ELSE UNION {UNION {AddressSuccess(c, t, a) : a \in Contents.address},
                {Out("BOOKING_ADDRESS", [c EXCEPT !.street = a], t) : a \in Contents.address},
                Retry("BOOKING_ADDRESS", "address", c, t)}

(***************************************************************************)
(* The device: a photo or the model of one's own, the model or the profile *)
(* of one to buy. A second model that is not in the catalogue calls a      *)
(* person.                                                                 *)
(***************************************************************************)
Existing(c) == c.ownership = "has" \/ Maintenance(c)

VideoReceived(c, t) ==
    IF c.video = "required" THEN Advance([c EXCEPT !.video = "received"], t)
    ELSE {Out("BOOKING_EQUIPMENT_MODEL", c, t)}

PhotoReceived(c, t) ==
    IF Existing(c)
    THEN Advance([c EXCEPT !.modelKnown = "no", !.photo = "yes", !.model = NoFact], t \ {"model"})
    ELSE Retry("BOOKING_EQUIPMENT_MODEL", "model", c, t)

ModelUnknown(c, t) ==
    LET u == [c EXCEPT !.modelKnown = "no", !.model = NoFact]
    IN  IF Existing(c) THEN {Out("BOOKING_EQUIPMENT_MODEL", u, t \ {"model"})}
        ELSE Advance(u, t \ {"model"})

Mismatch(c, t) ==
    LET u == [Drop(c, {"model", "recommended"}) EXCEPT
                 !.mismatch = IF @ = NoFact THEN "once" ELSE "twice"]
    IN  IF Known(c, "mismatch") THEN {PersonWith(u, t)}
        ELSE Advance([u EXCEPT !.modelKnown = "no"], t)

ModelNamed(c, t) ==
    IF c.ownership = "needs"
    THEN Adverse(Mismatch(c, t)) \cup
         UNION {UNION {Advance([c EXCEPT !.modelKnown = "yes", !.model = m, !.recommended = r,
                                         !.mismatch = NoFact], t \ {"model"}) :
                       m \in Contents.model} : r \in Contents.recommended}
    ELSE IF c.modelKnown = "yes" \/ Existing(c)
    THEN UNION {Advance([c EXCEPT !.modelKnown = "yes", !.model = m], t \ {"model"}) :
                m \in Contents.model}
    ELSE Retry("BOOKING_EQUIPMENT_MODEL", "model", c, t)

\* While only the video is missing a text asks for it again, without counting.
HandleModel(c, t) ==
    WithIntake(c,
        IF Known(c, "model") /\ c.ownership # "needs" THEN Advance(c, t)
        ELSE UNION {ModelUnknown(c, t), ModelNamed(c, t),
                    {Out("BOOKING_EQUIPMENT_MODEL", [c EXCEPT !.modelKnown = "yes"], t)},
                    Retry("BOOKING_EQUIPMENT_MODEL", "model", c, t)})

NextProfileFact(c) ==
    IF ~Known(c, "room") THEN "room" ELSE IF ~Known(c, "taste") THEN "taste" ELSE "space"

HandleProfile(c, t, f, v) ==
    LET u == Invalidated(c, [c EXCEPT ![f] = v])
        left == {s \in t : s \in RecommendationInputs => ~Known(u, s)}
    IN  WithIntake(c, IF ProfileKnown(u) THEN Recommend(u, left)
                      ELSE {Out("BOOKING_EQUIPMENT_PROFILE", u, left)})

(***************************************************************************)
(* How a device is handed over, and whether it is installed where it is    *)
(* delivered. Picking it up is filed as a fulfilment even when it is also  *)
(* to be installed.                                                        *)
(***************************************************************************)
HandleDelivery(c, t, v) ==
    LET rest == t \ {"delivery"}
        u == [Drop(c, {"deliveryAddress", "purpose", "match"}) EXCEPT !.delivery = v]
    IN  CASE v = "pickup" -> Noted(c, [u EXCEPT !.fulfillment = "equipmentPickup"], rest)
          [] v = "withInstallation" /\ c.mode = "both" ->
                 Noted(c, [u EXCEPT !.fulfillment = NoFact], rest)
          [] v = "delivery" ->
                 WithIntake(c, {Out("BOOKING_ADDRESS",
                     [c EXCEPT !.delivery = v, !.purpose = "delivery",
                               !.fulfillment = IF PurchaseOnly(c) THEN "equipmentDelivery"
                                               ELSE NoFact], rest)})
          [] OTHER -> Retry("BOOKING_EQUIPMENT_DELIVERY", "delivery", c, t)

HandleMatch(c, t, same) ==
    LET u == [c EXCEPT !.match = NoFact]
        rest == t \ {"delivery"}
    IN  IF same /\ ~Known(c, "deliveryAddress")
        THEN {Out("BOOKING_ADDRESS", [c EXCEPT !.purpose = "delivery"], rest)}
        ELSE Noted(c, IF same THEN [u EXCEPT !.address = c.deliveryAddress] ELSE u, rest)

----------------------------------------------------------------------------
(***************************************************************************)
(* Who receives the team, and the telephone. "named": the customer's name  *)
(* is on file. An attendee chosen earlier passes whatever the text says.   *)
(***************************************************************************)
HandleAttendee(c, t, a, named) ==
    LET rest == t \ {"attendee"}
        u == [c EXCEPT !.attendee = a,
                       !.attendeeName = IF a = "customer" /\ named THEN "own" ELSE @]
    IN  IF a = "other" /\ ~Known(c, "attendeeName") THEN {Out("BOOKING_ATTENDEE_NAME", u, rest)}
        ELSE Preconfirmation(u, rest)

HandleAttendeeName(c, t, v) ==
    Preconfirmation([c EXCEPT !.attendee = "other", !.attendeeName = v], t \ {"attendeeName"})

PhoneTaken(c, t, v) ==
    FinalConfirmation([c EXCEPT !.phone = v, !.phoneOk = "yes"], t \ {"phone"})

\* Neither yes, no nor a number: a number given before is taken as confirmed.
PhoneUnclear(c, t) ==
    IF Known(c, "phone") /\ c.phone # "own" THEN PhoneTaken(c, t, c.phone)
    ELSE Retry("BOOKING_PHONE_CONFIRM", "phone", c, t)

HandleQuoteDecision(c, t, goOn) ==
    IF goOn THEN OfferDates([c EXCEPT !.quoted = "yes", !.paused = NoFact, !.request = NoFact], t)
    ELSE {Out("COMPLETED", [c EXCEPT !.quoted = "yes", !.paused = "yes"], t)}
=============================================================================

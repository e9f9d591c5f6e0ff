------------------------------ MODULE Dialogue ------------------------------
(***************************************************************************)
(* One conversation of one customer with the assistant, turn by turn:      *)
(* determine_transition of transitions.py between the lock and the commit  *)
(* of engine.py, and the operations of the office that write the same      *)
(* row. What a message means, and what the agenda answers, is chosen       *)
(* freely; what the program does with it is DialogueSteps.                 *)
(*                                                                         *)
(* Left out: budgets, and the words. What a bounded instance must bound    *)
(* (failed answers, side talk, remarks, old buttons, refusals of the       *)
(* agenda, the office) is counted in "surprises".                          *)
(***************************************************************************)
EXTENDS DialogueSteps

CONSTANTS
    Sayable,        \* the facts a text may mention besides answering
    OldButtons,     \* the facts of older lists of buttons the customer may tap
    MaxSurprises,   \* bound: turns off the straight path
    MaxBookings     \* bound: appointments of the customer

ASSUME TurnAssumption ==
    /\ Sayable \subseteq TextFacts
    /\ OldButtons \subseteq Tappable
    /\ MaxSurprises \in Nat
    /\ MaxBookings \in Nat

VARIABLES
    state,          \* conversations.state
    ctx,            \* conversations.context without repair_attempts
    tries,          \* context.repair_attempts: the questions that failed once
    auto,           \* conversations.automation_enabled
    named,          \* customers.name is on file
    appts,          \* the customer's appointments: [facts, date, time, live]
    shown,          \* history: what the last summary displayed
    fitted,         \* history: the plan the agenda offered the chosen time for
    origin,         \* history: the context comes from a request or an appointment
    surprises

vars == <<state, ctx, tries, auto, named, appts, shown, fitted, origin, surprises>>

Intake == {StateOf[q] : q \in DOMAIN StateOf}
Closing == {"BOOKING_ATTENDEE", "BOOKING_ATTENDEE_NAME", "BOOKING_PHONE_CONFIRM",
            "BOOKING_CONFIRM"}
Agenda == {"BOOKING_WEEKDAY", "BOOKING_DATE", "BOOKING_TIME"}
BookingStates == Intake \cup Agenda \cup Closing \cup {"BOOKING_SERVICE", "QUOTE_DECISION"}
States == BookingStates \cup
    {"START", "CUSTOMER_NAME", "MENU", "RESCHEDULE", "CANCEL", "HUMAN_HANDOFF",
     "POST_BOOKING_HELP", "COMPLETED"}
Slots == RecommendationInputs \cup
    {"quantity", "access", "height", "property", "hours", "gate", "limit", "ownership",
     "tubing", "address", "city", "model", "delivery", "service", "clarify", "date",
     "weekday", "time", "attendee", "attendeeName", "phone", "confirmation", "media",
     "customer_name", "menu_action", "quote_decision", "post_booking_help",
     "reschedule_booking", "reschedule_date", "reschedule_time",
     "reschedule_confirmation", "cancel_booking", "cancel_confirmation"}

----------------------------------------------------------------------------
(***************************************************************************)
(* What is stored with an appointment (_requirements_from_context), what   *)
(* the summary displays (_confirmation_body), and what the length of the   *)
(* visit depends on.                                                       *)
(***************************************************************************)
Operational == {"service", "quantity", "access", "tubing", "limitKnown", "request",
                "ownership", "model", "photo", "video", "recommended", "mode",
                "delivery", "fulfillment", "deliveryAddress", "height", "property",
                "hours", "gate", "attendee", "attendeeName", "phone", "phoneOk"}
                    \cup RecommendationInputs
Stored(c) ==
    [Only(c, Operational) EXCEPT
        !.address = IF PickedUp(c) THEN NoFact ELSE AddressUsed(c),
        !.limit = IF Known(c, "limit") THEN c.limit ELSE c.hours]
Displayed(c) ==
    [Only(c, {"service", "quantity", "date", "time", "fulfillment", "model", "height",
              "property", "attendeeName", "phone", "mode"}) EXCEPT
        !.address = IF PickedUp(c) THEN NoFact ELSE AddressUsed(c),
        !.recommended = IF Known(c, "model") THEN NoFact ELSE c.recommended]
Planned(c) == Only(c, PlanningInputs \cup {"service"})

Live == {i \in DOMAIN appts : appts[i].live}
ContextOf(i) == [appts[i].facts EXCEPT !.appointment = i]

Init ==
    /\ state = "START" /\ ctx = NoContext /\ tries = {} /\ auto = TRUE
    /\ named \in BOOLEAN
    /\ appts = <<>>
    /\ shown = NoContext /\ fitted = NoContext /\ origin = "request"
    /\ surprises = 0

(***************************************************************************)
(* A message as it is read: a tap leaves the context alone; a text may add *)
(* or correct a fact and may give the name, and ends the wait for a media. *)
(***************************************************************************)
Tap == [ctx |-> ctx, tries |-> tries, named |-> named, cost |-> 0]
Text(say, introduced) ==
    [ctx |-> Drop(Enriched(Drop(ctx, {"media"}), say),
                  IF introduced THEN {"nameSkipped"} ELSE {}),
     tries |-> IF Known(ctx, "media") THEN tries \ {"media"} ELSE tries,
     named |-> named \/ introduced,
     cost |-> IF say = Silent /\ ~introduced THEN 0 ELSE 1]
Remarks == {say \in Sayings : say.fact \in Sayable \cup {NoFact}}
Texts ==
    IF surprises = MaxSurprises THEN {Text(Silent, FALSE)}
    ELSE UNION {{Text(say, introduced) : introduced \in BOOLEAN} : say \in Remarks}
Messages == Texts \cup {Tap}

Kept(c, S) ==
    IF Known(c, "nameSkipped") THEN {[o EXCEPT !.ctx.nameSkipped = "yes"] : o \in S} ELSE S

(***************************************************************************)
(* The effect of a turn: persist_transition, and the history variables.    *)
(***************************************************************************)
Leads(r, o) ==
    /\ surprises + r.cost + o.cost <= MaxSurprises
    /\ surprises' = surprises + r.cost + o.cost
    /\ named' = r.named
    /\ state' = o.state /\ ctx' = o.ctx /\ tries' = o.tries
    /\ auto' = (o.state # "HUMAN_HANDOFF")
    /\ shown' = IF o.shows THEN Displayed(o.ctx) ELSE IF o.fresh THEN NoContext ELSE shown
    /\ fitted' = IF o.picks THEN Planned(o.ctx) ELSE IF o.fresh THEN NoContext ELSE fitted

Ends(r, S) == /\ auto /\ \E o \in S : Leads(r, o) /\ origin' = IF o.fresh THEN "request" ELSE origin
              /\ UNCHANGED appts

Addressable(r) == r.named \/ Known(r.ctx, "nameSkipped")
Routed(r, S) == Addressable(r) /\ Ends(r, Kept(r.ctx, S))

----------------------------------------------------------------------------
(***************************************************************************)
(* Going on with the pending question (_resume_pending_question): the      *)
(* prompt of the state is repeated, for the agenda with new dates or       *)
(* times. The summary is not repeated. When the port refuses, the turn     *)
(* raises.                                                                 *)
(***************************************************************************)
Resume(s, c, t) ==
    CASE s \in Agenda /\ (~Known(c, "service") \/ (s = "BOOKING_TIME" /\ ~Known(c, "date"))) ->
             Restart
      [] s \in Agenda /\ Known(c, "service") /\ ~Plannable(c) -> {}
      [] s = "BOOKING_WEEKDAY" /\ Known(c, "service") /\ Plannable(c) ->
             {Out("BOOKING_DATE", c, t)}
      [] OTHER -> {Out(s, c, t)}

RepairSlot(s, c) ==
    CASE s = "BOOKING_ADDRESS" -> IF Known(c, "street") THEN "city" ELSE "address"
      [] s = "BOOKING_EQUIPMENT_PROFILE" -> NextProfileFact(c)
      [] OTHER ->
         [BOOKING_SERVICE |-> "service", BOOKING_QUANTITY |-> "quantity",
          BOOKING_ACCESS |-> "access", BOOKING_EQUIPMENT_OWNERSHIP |-> "ownership",
          BOOKING_EQUIPMENT_MODEL |-> "model", BOOKING_EQUIPMENT_DELIVERY |-> "delivery",
          BOOKING_INSTALLATION_HEIGHT |-> "height", BOOKING_PROPERTY |-> "property",
          BOOKING_BUILDING_HOURS |-> "hours", BOOKING_GATE_DETAILS |-> "gate",
          BOOKING_TUBING |-> "tubing", BOOKING_SITE_LIMIT |-> "limit",
          BOOKING_WEEKDAY |-> "weekday", BOOKING_DATE |-> "date", BOOKING_TIME |-> "time",
          BOOKING_ATTENDEE |-> "attendee", BOOKING_ATTENDEE_NAME |-> "attendeeName",
          BOOKING_PHONE_CONFIRM |-> "phone", BOOKING_CONFIRM |-> "confirmation",
          QUOTE_DECISION |-> "quote_decision", CUSTOMER_NAME |-> "customer_name",
          MENU |-> "menu_action", POST_BOOKING_HELP |-> "post_booking_help"][s]

\* A remark (thanks, "not that one", an answered question), or a text nobody understands.
SideTalk ==
    /\ state \in BookingStates
    /\ \E r \in Texts :
          LET slot == RepairSlot(state, r.ctx)
              unclear == IF slot \in r.tries THEN {Person}
                         ELSE Resume(state, r.ctx, r.tries \cup {slot})
          IN  Routed(r, Adverse(Resume(state, r.ctx, r.tries) \cup unclear))

\* A question about another device leaves it as a suggestion, which may then be taken.
AskAboutDevice ==
    /\ state \in BookingStates
    /\ \E r \in Texts, d \in Contents.recommended :
          Routed(r, Adverse(Resume(state, [r.ctx EXCEPT !.suggestion = d], r.tries)))

TakeSuggestion ==
    /\ Known(ctx, "suggestion")
    /\ \E r \in Texts :
        LET u == [r.ctx EXCEPT !.recommended = r.ctx.suggestion, !.suggestion = NoFact,
                               !.quoted = NoFact]
        IN  Routed(r, IF state \in {"COMPLETED", "POST_BOOKING_HELP"}
                      THEN {Out("POST_BOOKING_HELP", u, r.tries)}
                      ELSE Resume(state, u, r.tries))

InsistOnUnlisted ==
    /\ Known(ctx, "mismatch")
    /\ \E r \in Texts :
        /\ r.ctx.ownership = "needs"
        /\ Routed(r, {PersonWith([r.ctx EXCEPT !.mismatch = "twice"], r.tries)})

\* Another service is named in the middle of a booking.
NameService ==
    /\ state \in BookingStates
    /\ \E r \in Texts, s \in Services :
          /\ s # r.ctx.service
          /\ Routed(r, Adverse(
                (IF Known(r.ctx, "service")
                 THEN {Out(state, [r.ctx EXCEPT !.pendingService = s], r.tries)} ELSE {})
                \cup Renewed(ChooseService(NoContext, {}, s))))

WantPurchase ==
    /\ state \in BookingStates
    /\ \E r \in Texts :
          /\ ~(Known(r.ctx, "service") /\ Known(r.ctx, "request"))
          /\ Routed(r, Adverse(Renewed({Clarify(NoContext, {})})))

DeclinePurchase ==
    /\ state \in BookingStates
    /\ \E r \in Texts :
          Routed(r, Adverse(ChoosePurchase(r.ctx, r.tries, "install")))

PreferDaypart ==
    /\ state \in Agenda \cup Closing
    /\ \E r \in Texts, p \in Contents.daypart :
          Routed(r, Adverse(HandleDaypart(r.ctx, r.tries, p)))

----------------------------------------------------------------------------
(***************************************************************************)
(* Answers to the question the conversation waits for, by text or button.  *)
(***************************************************************************)
AnswerService ==
    /\ state = "BOOKING_SERVICE"
    /\ \E r \in Messages : Routed(r, HandleService(r.ctx, r.tries))

AnswerQuantity ==
    /\ state = "BOOKING_QUANTITY"
    /\ \E r \in Messages : Routed(r,
        (UNION {HandleQuantity(r.ctx, r.tries, v) : v \in Contents.quantity})
            \cup Retry(state, "quantity", r.ctx, r.tries))

AnswerAccess ==
    /\ state = "BOOKING_ACCESS"
    /\ \E r \in Messages : Routed(r,
        (UNION {HandleAccess(r.ctx, r.tries, v) : v \in Contents.access})
            \cup Retry(state, "access", r.ctx, r.tries))

AnswerAddress ==
    /\ state = "BOOKING_ADDRESS"
    /\ \E r \in Texts : Routed(r, HandleAddress(r.ctx, r.tries))

AnswerOwnership ==
    /\ state = "BOOKING_EQUIPMENT_OWNERSHIP"
    /\ \E r \in Messages : Routed(r,
        (UNION {HandleOwnership(r.ctx, r.tries, v) : v \in Options.ownership})
            \cup Retry(state, "ownership", r.ctx, r.tries))

AnswerModel ==
    /\ state = "BOOKING_EQUIPMENT_MODEL"
    /\ \E r \in Messages : Routed(r, HandleModel(r.ctx, r.tries))

SendPhotoOrVideo ==
    /\ state = "BOOKING_EQUIPMENT_MODEL"
    /\ Routed(Tap, VideoReceived(ctx, tries) \cup PhotoReceived(ctx, tries))

AnswerProfile ==
    /\ state = "BOOKING_EQUIPMENT_PROFILE"
    /\ \E r \in Messages :
          LET f == NextProfileFact(r.ctx)
          IN  Routed(r, (UNION {HandleProfile(r.ctx, r.tries, f, v) : v \in Contents[f]})
                            \cup Retry(state, f, r.ctx, r.tries))

\* Both questions of this state take the answers to either.
AnswerDelivery ==
    /\ state = "BOOKING_EQUIPMENT_DELIVERY"
    /\ \E r \in Messages :
          LET means == UNION {HandleDelivery(r.ctx, r.tries, v) : v \in Options.delivery}
              place == UNION {HandleMatch(r.ctx, r.tries, same) : same \in BOOLEAN}
          IN  Routed(r, (IF Known(r.ctx, "match") THEN place \cup Adverse(means)
                         ELSE means \cup Adverse(place))
                            \cup Retry(state, "delivery", r.ctx, r.tries))

AnswerHeight ==
    /\ state = "BOOKING_INSTALLATION_HEIGHT"
    /\ \E r \in Messages : Routed(r,
        (UNION {HandleHeight(r.ctx, r.tries, v) : v \in Contents.height})
            \cup Retry(state, "height", r.ctx, r.tries))

AnswerProperty ==
    /\ state = "BOOKING_PROPERTY"
    /\ \E r \in Messages : Routed(r,
        (UNION {HandleProperty(r.ctx, r.tries, v) : v \in Options.property})
            \cup Retry(state, "property", r.ctx, r.tries))

AnswerHours ==
    /\ state = "BOOKING_BUILDING_HOURS"
    /\ \E r \in Texts : Routed(r,
        (UNION {HandleHours(r.ctx, r.tries, v) : v \in Contents.hours})
            \cup Retry(state, "hours", r.ctx, r.tries))

AnswerGate ==
    /\ state = "BOOKING_GATE_DETAILS"
    /\ \E r \in Texts : Routed(r,
        (UNION {HandleGate(r.ctx, r.tries, v) : v \in Contents.gate})
            \cup Retry(state, "gate", r.ctx, r.tries))

AnswerTubing ==
    /\ state = "BOOKING_TUBING"
    /\ \E r \in Messages : Routed(r,
        UNION {UNION {HandleTubing(r.ctx, r.tries, v) : v \in Contents.tubing \cup {"unknown"}},
               UNION {TubingUnsure(r.ctx, r.tries, v) : v \in Contents.tubing},
               TubingConfirmed(r.ctx, r.tries), Retry(state, "tubing", r.ctx, r.tries)})

AnswerLimit ==
    /\ state = "BOOKING_SITE_LIMIT"
    /\ \E r \in Messages : Routed(r,
        (UNION {HandleLimit(r.ctx, r.tries, v) : v \in Contents.limit \cup {NoFact}})
            \cup Retry(state, "limit", r.ctx, r.tries))

AnswerWeekday ==
    /\ state = "BOOKING_WEEKDAY"
    /\ \E r \in Messages : Routed(r, HandleWeekday(r.ctx, r.tries))

AnswerDate ==
    /\ state = "BOOKING_DATE"
    /\ \E r \in Messages : Routed(r,
        (UNION {HandleDate(r.ctx, r.tries, d, TRUE) : d \in Days}) \cup DateUnclear(r.ctx, r.tries))

AnswerTime ==
    /\ state = "BOOKING_TIME"
    /\ \E r \in Messages : Routed(r,
        UNION {HandleTime(r.ctx, r.tries, h) : h \in Hours})

AnswerAttendee ==
    /\ state = "BOOKING_ATTENDEE"
    /\ \E r \in Messages : Routed(r,
        (UNION {HandleAttendee(r.ctx, r.tries, a, r.named) : a \in Options.attendee})
            \cup IF Known(r.ctx, "attendee") THEN {}
                 ELSE Retry(state, "attendee", r.ctx, r.tries))

AnswerAttendeeName ==
    /\ state = "BOOKING_ATTENDEE_NAME"
    /\ \E r \in Texts : Routed(r,
        (UNION {HandleAttendeeName(r.ctx, r.tries, v) : v \in Contents.attendeeName})
            \cup Retry(state, "attendeeName", r.ctx, r.tries))

AnswerPhone ==
    /\ state = "BOOKING_PHONE_CONFIRM"
    /\ \E r \in Messages : Routed(r,
        UNION {UNION {PhoneTaken(r.ctx, r.tries, v) : v \in Contents.phone \cup {"own"}},
               {Out(state, r.ctx, r.tries)}, PhoneUnclear(r.ctx, r.tries)})

AnswerQuote ==
    /\ state = "QUOTE_DECISION"
    /\ \E r \in Messages : Routed(r,
        (UNION {HandleQuoteDecision(r.ctx, r.tries, goOn) : goOn \in BOOLEAN})
            \cup Retry(state, "quote_decision", r.ctx, r.tries))

----------------------------------------------------------------------------
(***************************************************************************)
(* The decision on the summary. Confirming creates the appointment in the  *)
(* same transaction; a slot that is gone keeps the question open.          *)
(***************************************************************************)
Decidable(c) == \A f \in Scheduling \cup {"service"} : Known(c, f)

DecideOnSummary ==
    /\ state = "BOOKING_CONFIRM"
    /\ \E r \in Messages : Routed(r,
        LET rest == r.tries \ {"confirmation"}
            again == IF "confirmation" \in r.tries THEN {Person}
                     ELSE {[Out(state, r.ctx, r.tries \cup {"confirmation"})
                              EXCEPT !.shows = TRUE]}
        IN  {Fresh("MENU")} \cup
            IF ~Decidable(r.ctx) THEN Restart
            ELSE UNION {{Out("BOOKING_TIME", [r.ctx EXCEPT !.time = NoFact], rest)},
                        Adverse({Out(state, r.ctx, rest), Person}), Adverse(again)})

ConfirmBooking ==
    \E r \in Messages :
        /\ state = "BOOKING_CONFIRM" /\ Decidable(r.ctx) /\ auto /\ Addressable(r)
        /\ Len(appts) < MaxBookings
        /\ Leads(r, Out("POST_BOOKING_HELP", r.ctx, r.tries \ {"confirmation"}))
        /\ appts' = Append(appts, [facts |-> Stored(r.ctx), date |-> r.ctx.date,
                                   time |-> r.ctx.time, live |-> TRUE])
        /\ origin' = "appointment"

----------------------------------------------------------------------------
(***************************************************************************)
(* The beginning and the end of a conversation. "before" is the context    *)
(* as it was stored, without what the text adds: the fallback keeps that.  *)
(***************************************************************************)
Begin(s) == {Fresh(IF Live # {} THEN s ELSE "MENU")}
BeginAny == Begin("RESCHEDULE") \cup Begin("CANCEL")

\* What a text that opens a subject leads to (_handle_natural_start).
NewRequest == Renewed(HandleService(NoContext, {}))
NaturalStart(before, t) ==
    UNION {{Fresh("MENU")}, NewRequest, BeginAny,
           Adverse({IF Known(before, "variant") THEN Person
                    ELSE Out("MENU", [before EXCEPT !.variant = "yes"], t)})}

\* A question is answered and a service offered.
OpeningQuestion(c, t) ==
    Adverse({Clarify(c, t)} \cup
            IF Known(c, "request") THEN {}
            ELSE {Out(s, c, t) : s \in {"BOOKING_SERVICE", "MENU"}})

OpeningTurn(before, c, t) == NaturalStart(before, t) \cup OpeningQuestion(c, t)

Start ==
    /\ state = "START"
    /\ \E r \in Texts : Routed(r, OpeningTurn(ctx, r.ctx, r.tries))

MenuTaps(c, t) ==
    UNION {Restart, {Person}, BeginAny, Retry("MENU", "menu_action", c, t)}
ChooseInMenu == state = "MENU" /\ Routed(Tap, MenuTaps(ctx, tries))
WriteInMenu ==
    /\ state = "MENU"
    /\ \E r \in Texts : Routed(r, OpeningTurn(r.ctx, r.ctx, r.tries))

\* Changing the mind about an appointment, anywhere.
AskForExisting ==
    /\ state \notin {"HUMAN_HANDOFF", "CUSTOMER_NAME"}
    /\ \E r \in Texts, s \in {"RESCHEDULE", "CANCEL"} \ {state} :
          Routed(r, Adverse(Begin(s)))

AskForPerson == \E r \in Messages : Ends(r, Adverse({Person}))

\* A discount is asked for, or "I did not like it" is the answer to a follow-up.
Negotiate == Ends(Tap, Adverse({PersonWith(ctx, tries)}))

AfterCompletion ==
    /\ state = "COMPLETED"
    /\ \E r \in Texts : Routed(r,
        UNION {{Out("COMPLETED", r.ctx, r.tries)}, NaturalStart(ctx, tries),
               Adverse({Out("POST_BOOKING_HELP", r.ctx, r.tries)})})

HelpAfterBooking ==
    /\ state = "POST_BOOKING_HELP"
    /\ \E r \in Messages : Routed(r,
        UNION {{Out("COMPLETED", ctx, tries), Fresh("MENU")}, NaturalStart(NoContext, {}),
               Adverse({Person, Fresh("POST_BOOKING_HELP"),
                        Out("POST_BOOKING_HELP", r.ctx, r.tries)})})

\* A later "yes" or "no" is taken for the answer to the last reminder of a cleaning,
\* whatever was asked meanwhile.
AnswerOutreach ==
    /\ state # "HUMAN_HANDOFF" /\ Known(ctx, "outreach")
    /\ LET c == Drop(ctx, {"outreach"})
           again == UNION {ChooseService(c, tries, s) :
                              s \in {x \in Services : Kind[x] = "maintenance"}}
       IN  Ends(Tap, {Out("COMPLETED", c, tries)} \cup again)

\* A quote that was put aside is taken up again.
ResumeQuote ==
    /\ state \in {"COMPLETED", "MENU"}
    /\ \E r \in Messages :
          /\ Known(r.ctx, "paused") /\ Known(r.ctx, "service")
          /\ Ends(r, HandleQuoteDecision(r.ctx, r.tries, TRUE) \cup
                     Adverse({Out("QUOTE_DECISION", r.ctx, r.tries)}))

----------------------------------------------------------------------------
(***************************************************************************)
(* The name is asked before anything else is answered; the message that    *)
(* waits is answered afterwards, as if it had opened the conversation.     *)
(***************************************************************************)
OpenerOnly ==
    /\ state \in {"START", "MENU"}
    /\ \E r \in Texts : ~Addressable(r) /\ Ends(r, {Out("MENU", r.ctx, r.tries)})

AskName ==
    /\ state \notin {"CUSTOMER_NAME", "HUMAN_HANDOFF"}
    /\ \E r \in Messages, waits \in {NoFact, "yes"} :
          /\ ~Addressable(r)
          /\ Ends(r, {Out("CUSTOMER_NAME",
                          [r.ctx EXCEPT !.pendingTurn = IF r.ctx.pendingTurn = NoFact
                                                        THEN waits ELSE @], r.tries)})

Replay(c, t) ==
    LET d == Drop(c, {"pendingTurn"})
    IN  IF Known(c, "pendingTurn") THEN OpeningTurn(d, d, t) \cup MenuTaps(d, t)
        ELSE {Fresh("MENU")}

GiveName ==
    /\ state = "CUSTOMER_NAME" /\ ~named
    /\ \E r \in Texts : Ends([r EXCEPT !.named = TRUE], Replay(r.ctx, r.tries))

WithholdName ==
    /\ state = "CUSTOMER_NAME" /\ ~named
    /\ \E r \in Messages, waits \in {NoFact, "yes"} :
          LET c == [r.ctx EXCEPT !.nameSkipped = "yes",
                                 !.pendingTurn = IF @ = NoFact THEN waits ELSE @]
              rest == r.tries \ {"customer_name"}
          IN  Ends(r, Kept(c, IF Known(c, "pendingTurn") THEN Replay(c, rest)
                              ELSE {Out("MENU", c, rest)}))

----------------------------------------------------------------------------
(***************************************************************************)
(* Media, and buttons of older messages.                                   *)
(***************************************************************************)
SendMedia ==
    /\ state # "HUMAN_HANDOFF"
    /\ Ends(Tap, Retry(state, "media", [ctx EXCEPT !.media = "yes"], tries))

\* The offer that comes with it: a person, or to go on in writing.
AfterMedia ==
    /\ Known(ctx, "media")
    /\ LET c == Drop(ctx, {"media"})
           t == tries \ {"media"}
       IN  Ends(Tap, {Person} \cup Resume(state, c, t))

\* The buttons the state expects; any other labelled one asks "do you want to change?".
Phase(c) ==
    CASE ~Known(c, "appointment") -> "appointment"
      [] Known(c, "appointment") /\ ~Known(c, "date") -> "date"
      [] Known(c, "appointment") /\ Known(c, "date") /\ ~Known(c, "time") -> "time"
      [] OTHER -> "decision"
Expected ==
    CASE state = "BOOKING_SERVICE" -> {"service", "mode"}
      [] state = "BOOKING_QUANTITY" -> {"quantity"}
      [] state = "BOOKING_ACCESS" -> {"access"}
      [] state = "BOOKING_DATE" -> {"date"}
      [] state = "BOOKING_TIME" -> {"time"}
      [] state = "BOOKING_EQUIPMENT_PROFILE" -> {"taste"}
      [] state = "BOOKING_EQUIPMENT_DELIVERY" -> {"delivery"}
      [] state = "BOOKING_INSTALLATION_HEIGHT" -> {"height"}
      [] state = "BOOKING_PROPERTY" -> {"property"}
      [] state = "RESCHEDULE" -> {Phase(ctx)}
      [] OTHER -> {}

OldTaps == {tap \in Taps : tap.fact \in OldButtons}
TapOldButton ==
    /\ state # "HUMAN_HANDOFF"
    /\ \E tap \in OldTaps :
          /\ tap.fact \notin Expected
          /\ Ends(Tap, Adverse({Out(state, [ctx EXCEPT !.pendingTap = tap], tries)}))

\* A button without a label for the change counts as a failed answer.
TapUnknownButton ==
    /\ state \in {"BOOKING_ADDRESS", "BOOKING_TUBING", "BOOKING_EQUIPMENT_OWNERSHIP",
                  "BOOKING_EQUIPMENT_MODEL", "BOOKING_EQUIPMENT_PROFILE",
                  "BOOKING_INSTALLATION_HEIGHT", "BOOKING_PROPERTY",
                  "BOOKING_BUILDING_HOURS", "BOOKING_GATE_DETAILS", "BOOKING_ATTENDEE",
                  "BOOKING_ATTENDEE_NAME", "BOOKING_PHONE_CONFIRM", "QUOTE_DECISION",
                  "CUSTOMER_NAME"}
    /\ Ends(Tap, Retry(state, RepairSlot(state, ctx), ctx, tries))

Undecided == {"pendingTap", "pendingService"}
KeepChoice ==
    /\ \E f \in Undecided : Known(ctx, f)
    /\ Ends(Tap, Resume(state, Drop(ctx, Undecided), tries))

TapAnswer(c, t, tap) ==
    LET v == tap.value
    IN  CASE tap.fact = "service" -> ChooseService(ForServiceChange(c), {}, v)
          [] tap.fact = "date" -> HandleDate(c, t, v, FALSE)
          [] tap.fact = "time" -> HandleTime(c, t, v)
          [] tap.fact = "mode" -> ChoosePurchase(c, t, v)
          [] tap.fact = "taste" -> HandleProfile(c, t, "taste", v)
          [] tap.fact = "quantity" -> HandleQuantity(c, t, v)
          [] tap.fact = "access" -> HandleAccess(c, t, v)
          [] tap.fact = "height" -> HandleHeight(c, t, v)
          [] tap.fact = "delivery" -> HandleDelivery(c, t, v)
          [] tap.fact = "property" ->
                IF Known(c, "service")
                THEN Advance(Invalidated(c, [c EXCEPT !.property = v]), t)
                ELSE {Out(state, Invalidated(c, [c EXCEPT !.property = v]), t)}

ConfirmChange ==
    LET c == Drop(ctx, Undecided)
    IN  /\ \E f \in Undecided : Known(ctx, f)
        /\ Ends(Tap, IF Known(ctx, "pendingService")
                     THEN ChooseService(ForServiceChange(c), {}, ctx.pendingService)
                     ELSE TapAnswer(c, tries, ctx.pendingTap))

----------------------------------------------------------------------------
(***************************************************************************)
(* Moving or cancelling an appointment. The context of a move is read from *)
(* the appointment, and written back to it with what the texts of the move *)
(* have added.                                                             *)
(***************************************************************************)
PickToMove ==
    /\ state = "RESCHEDULE" /\ Phase(ctx) = "appointment" /\ auto
    /\ \E r \in Messages :
          /\ Addressable(r)
          /\ \/ \E i \in Live : /\ \E o \in Kept(r.ctx, {Out("RESCHEDULE", ContextOf(i), {})}) :
                                      Leads(r, o)
                               /\ origin' = "appointment" /\ UNCHANGED appts
             \/ Ends(r, Kept(r.ctx, IF Live = {} THEN {Fresh("MENU")}
                                    ELSE Retry("RESCHEDULE", "reschedule_booking", r.ctx, r.tries)))

ChooseMove ==
    /\ state = "RESCHEDULE"
    /\ \E r \in Messages :
          LET c == r.ctx
              slot == IF Phase(c) = "date" THEN "reschedule_date" ELSE "reschedule_time"
              rest == r.tries \ {slot}
          IN  /\ Phase(c) \in {"date", "time"}
              /\ Routed(r,
                     IF ~Known(c, "service") THEN Begin("RESCHEDULE")
                     ELSE IF ~Plannable(c) THEN {}
                     ELSE (IF Phase(c) = "date"
                           THEN {Out(state, [c EXCEPT !.date = d], rest) : d \in Days}
                           ELSE {Out(state, [c EXCEPT !.time = h], rest) : h \in Hours})
                          \cup Retry(state, slot, c, r.tries))

\* "Back": to the times, or to the dates when the office had proposed the slot.
DecideMove ==
    /\ state = "RESCHEDULE"
    /\ \E r \in Messages :
          LET rest == r.tries \ {"reschedule_confirmation"}
              back == IF Known(r.ctx, "proposed") THEN {"date", "time", "proposed"} ELSE {"time"}
          IN  /\ Phase(r.ctx) = "decision"
              /\ Routed(r,
                     UNION {IF Plannable(r.ctx) THEN {Out(state, Drop(r.ctx, back), rest)} ELSE {},
                            Retry(state, "reschedule_confirmation", r.ctx, r.tries),
                            Adverse({Person} \cup Begin("RESCHEDULE"))})

ConfirmMove ==
    /\ state = "RESCHEDULE" /\ auto
    /\ \E r \in Messages :
          LET i == r.ctx.appointment
          IN  /\ Phase(r.ctx) = "decision" /\ Known(r.ctx, "service") /\ Addressable(r)
              /\ i \in Live
              /\ \E o \in Kept(r.ctx, {Fresh("COMPLETED")}) : Leads(r, o)
              /\ appts' = [appts EXCEPT ![i] =
                     [facts |-> [Stored(r.ctx) EXCEPT !.service = appts[i].facts.service],
                      date |-> r.ctx.date, time |-> r.ctx.time, live |-> TRUE]]
              /\ origin' = "request"

GiveUpMove == state = "RESCHEDULE" /\ Routed(Tap, {Fresh("MENU")})

PickToCancel ==
    /\ state = "CANCEL"
    /\ \E r \in Messages :
          /\ ~Known(r.ctx, "appointment")
          /\ Routed(r,
                 IF Live = {} THEN {Fresh("MENU")}
                 ELSE {Out("CANCEL", [NoContext EXCEPT !.appointment = i], {}) : i \in Live}
                      \cup Retry("CANCEL", "cancel_booking", r.ctx, r.tries))

DecideCancel ==
    /\ state = "CANCEL"
    /\ \E r \in Messages :
          /\ Known(r.ctx, "appointment")
          /\ Routed(r,
                 UNION {{Fresh("MENU")}, Adverse(Begin("CANCEL")),
                        Retry("CANCEL", "cancel_confirmation", r.ctx, r.tries)})

ConfirmCancel ==
    /\ state = "CANCEL" /\ auto
    /\ \E r \in Messages :
          /\ Known(r.ctx, "appointment") /\ r.ctx.appointment \in Live /\ Addressable(r)
          /\ \E o \in Kept(r.ctx, {Fresh("COMPLETED")}) : Leads(r, o)
          /\ appts' = [appts EXCEPT ![r.ctx.appointment].live = FALSE]
          /\ origin' = "request"

----------------------------------------------------------------------------
(***************************************************************************)
(* The office, in any state of the conversation: it asks the customer to   *)
(* move an appointment, with or without a proposed slot; cancels one;      *)
(* takes the conversation over, gives it back, archives it.                *)
(***************************************************************************)
Reset == /\ state' = "START" /\ ctx' = NoContext /\ tries' = {}
         /\ shown' = NoContext /\ fitted' = NoContext /\ origin' = "request"
Counted == surprises < MaxSurprises /\ surprises' = surprises + 1

OfficeProposes ==
    /\ Counted
    /\ \E i \in Live :
          /\ state' = "RESCHEDULE"
          /\ \/ ctx' = ContextOf(i)
             \/ \E d \in Days, h \in Hours :
                   ctx' = [ContextOf(i) EXCEPT !.date = d, !.time = h, !.proposed = "yes"]
          /\ tries' = {} /\ origin' = "appointment"
    /\ UNCHANGED <<auto, named, appts, shown, fitted>>

OfficeCancels ==
    /\ Counted
    /\ \E i \in Live : appts' = [appts EXCEPT ![i].live = FALSE]
    /\ UNCHANGED <<state, ctx, tries, auto, named, shown, fitted, origin>>

\* The worker has sent a reminder of the next cleaning (mark_sent).
RemindOfCleaning ==
    /\ Counted /\ auto
    /\ ctx' = [ctx EXCEPT !.outreach = "yes"]
    /\ UNCHANGED <<state, tries, auto, named, appts, shown, fitted, origin>>

TakeOver ==
    /\ Counted /\ auto
    /\ auto' = FALSE
    /\ UNCHANGED <<state, ctx, tries, named, appts, shown, fitted, origin>>

GiveBack ==
    /\ ~auto
    /\ auto' = TRUE
    /\ IF state = "HUMAN_HANDOFF" THEN Reset
       ELSE UNCHANGED <<state, ctx, tries, shown, fitted, origin>>
    /\ UNCHANGED <<named, appts, surprises>>

Archive ==
    /\ Counted
    /\ Reset /\ auto' = TRUE
    /\ UNCHANGED <<named, appts>>

----------------------------------------------------------------------------
Answering ==
    \/ AnswerService \/ AnswerQuantity \/ AnswerAccess \/ AnswerAddress
    \/ AnswerOwnership \/ AnswerModel \/ SendPhotoOrVideo \/ AnswerProfile
    \/ AnswerDelivery \/ AnswerHeight \/ AnswerProperty \/ AnswerHours
    \/ AnswerGate \/ AnswerTubing \/ AnswerLimit \/ AnswerWeekday \/ AnswerDate
    \/ AnswerTime \/ AnswerAttendee \/ AnswerAttendeeName \/ AnswerPhone
    \/ AnswerQuote \/ DecideOnSummary \/ ConfirmBooking
Opening ==
    \/ Start \/ ChooseInMenu \/ WriteInMenu \/ OpenerOnly \/ AskName \/ GiveName
    \/ WithholdName \/ AfterCompletion \/ HelpAfterBooking \/ ResumeQuote
    \/ AnswerOutreach
Straying ==
    \/ SideTalk \/ AskAboutDevice \/ TakeSuggestion \/ InsistOnUnlisted
    \/ NameService \/ WantPurchase \/ DeclinePurchase \/ PreferDaypart
    \/ AskForExisting \/ AskForPerson \/ Negotiate \/ SendMedia \/ AfterMedia
    \/ TapOldButton \/ TapUnknownButton \/ KeepChoice \/ ConfirmChange
Revising ==
    \/ PickToMove \/ ChooseMove \/ DecideMove \/ ConfirmMove \/ GiveUpMove
    \/ PickToCancel \/ DecideCancel \/ ConfirmCancel
Office ==
    \/ OfficeProposes \/ OfficeCancels \/ RemindOfCleaning \/ TakeOver \/ GiveBack
    \/ Archive

Next == Answering \/ Opening \/ Straying \/ Revising \/ Office
Spec == Init /\ [][Next]_vars

----------------------------------------------------------------------------
(***************************************************************************)
(* Every variable has its type; the context holds only values of its       *)
(* facts; no question has failed that the program does not know.           *)
(***************************************************************************)
TypeOK ==
    /\ state \in States
    /\ IsContext(ctx) /\ IsContext(shown) /\ IsContext(fitted)
    /\ tries \subseteq Slots
    /\ auto \in BOOLEAN /\ named \in BOOLEAN
    /\ \A i \in DOMAIN appts :
          /\ IsContext(appts[i].facts)
          /\ appts[i].date \in Days /\ appts[i].time \in Hours /\ appts[i].live \in BOOLEAN
    /\ origin \in {"request", "appointment"}
    /\ surprises \in 0..MaxSurprises

(***************************************************************************)
(* The chosen time was offered for the visit as it is planned now: what    *)
(* decides its length, its place and the hours of the site has not changed *)
(* since the agenda was asked, whatever was corrected on the way           *)
(* (invalidate_changed_facts drops the slot).                              *)
(***************************************************************************)
SlotFitsPlan == state \in Closing /\ Decidable(ctx) => Planned(ctx) = fitted

(***************************************************************************)
(* What is booked is what the last summary showed: the service, the slot,  *)
(* the place, the device and the terms, though the summary is not repeated *)
(* after a remark and the text that confirms may itself correct a fact.    *)
(* (The contact and a device that was suggested meanwhile are not covered: *)
(* they are replaced without a new summary.)                               *)
(***************************************************************************)
ShownTerms == {"service", "quantity", "date", "time", "address", "fulfillment", "model",
               "height", "property", "mode"}
BookedAsShown ==
    [][Len(appts') > Len(appts)
           => Only(Displayed(ctx'), ShownTerms) = Only(shown, ShownTerms)]_vars

(***************************************************************************)
(* Once the intake is over (the agenda, a quote, the last questions) no    *)
(* step skips a question: the service is known, what is open now was open  *)
(* before, or was reopened in a way the code allows. A correction takes an *)
(* answer away (Reopened); a button of an older list, pressed during the   *)
(* intake and confirmed as a change of choice, fixes a day or an hour      *)
(* (OldSlot); a quote that was put aside is taken up as it was             *)
(* (QuoteResumed). From the intake itself the agenda opens only when       *)
(* nothing is open.                                                        *)
(***************************************************************************)
AfterIntake == Agenda \cup Closing \cup {"QUOTE_DECISION"}

Unanswered(s, c) ==
    UNION {Open(c),
           {q \in {"attendee"} : s \in Closing \ {"BOOKING_ATTENDEE"} /\ ~Known(c, "attendee")},
           {q \in {"attendeeName"} : /\ s \in {"BOOKING_PHONE_CONFIRM", "BOOKING_CONFIRM"}
                                     /\ c.attendee = "other" /\ ~Known(c, "attendeeName")},
           {q \in {"phoneOk"} : s = "BOOKING_CONFIRM" /\ ~Known(c, "phoneOk")}}

Bypassed == {"hours", "gate", "limit"}
Reopened(c, d) ==
    LET ch == Changed(c, d)
    IN  UNION {{q \in Bypassed : "property" \in ch},
               {q \in {"property", "hours", "gate", "delivery", "fulfillment"} :
                    "request" \in ch \/ state = "QUOTE_DECISION"},
               {q \in {Questions[i] : i \in DOMAIN Questions} :
                    ch \cap {"ownership", "recommended"} # {}},
               {q \in {"attendeeName"} : "attendee" \in ch}}

OldSlot == Known(ctx, "pendingTap") /\ ctx.pendingTap.fact \in Scheduling
QuoteResumed == state \in {"COMPLETED", "MENU"} /\ Known(ctx, "paused")

NothingIsSkipped ==
    [][state' \in AfterIntake =>
          /\ Known(ctx', "service")
          /\ \/ OldSlot \/ QuoteResumed
             \/ Unanswered(state', ctx') \subseteq
                   IF state \in AfterIntake
                   THEN Unanswered(state, ctx) \cup Reopened(ctx, ctx')
                   ELSE {}]_vars

(***************************************************************************)
(* No appointment is confirmed before the questions of its service, who    *)
(* receives the team and at which number were settled.                     *)
(***************************************************************************)
SettledBeforeConfirming ==
    state = "BOOKING_CONFIRM" /\ Decidable(ctx) => Unanswered(state, Derived(ctx)) = {}

(***************************************************************************)
(* The hours and the gate of a building are collected before the agenda is *)
(* asked (the test at tests/test_conversation_engine.py:2615 says so).     *)
(***************************************************************************)
BuildingBeforeAgenda ==
    state \in Closing /\ Known(ctx, "service") /\ Decidable(ctx) =>
        {"hours", "gate"} \cap Open(Derived(ctx)) = {}

(***************************************************************************)
(* Learning that the place is a house, which was not known before, does    *)
(* not lose the hour the customer has set for the team to leave.           *)
(***************************************************************************)
LimitIsKept ==
    [][Known(ctx, "limitKnown") /\ ~Known(ctx, "property") /\ Known(ctx', "property")
           => Known(ctx', "limitKnown")]_vars

(***************************************************************************)
(* Only a request leads to a new appointment: what is known of an          *)
(* appointment that exists never reaches the confirmation of another one.  *)
(***************************************************************************)
AppointmentsAreRequested == state \in Closing /\ Decidable(ctx) => origin = "request"

(***************************************************************************)
(* "Atualizei sua escolha": a device that was chosen while its profile was *)
(* still being asked is not lost with the next answer to the profile.      *)
(***************************************************************************)
ChosenDeviceIsKept ==
    [][state = "BOOKING_EQUIPMENT_PROFILE" /\ Known(ctx, "recommended") /\ state' = state
           => Known(ctx', "recommended")]_vars

(***************************************************************************)
(* A customer who only answers what is asked never goes back: the first    *)
(* open question of the intake only moves forward (no answer reopens a     *)
(* question that was settled before).                                      *)
(***************************************************************************)
IntakeMovesForward ==
    [][surprises' = 0 /\ state \in Intake /\ ctx'.service = ctx.service
           => Position(Derived(ctx')) >= Position(Derived(ctx))]_vars
=============================================================================

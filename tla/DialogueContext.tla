-------------------------- MODULE DialogueContext --------------------------
(***************************************************************************)
(* What the assistant knows in the middle of a conversation: the JSON      *)
(* column conversations.context, as a record with one field per fact the   *)
(* flow branches on, and the pure functions on it: what a message adds     *)
(* (facts.py), what a change invalidates (context_policy.py), and which    *)
(* question comes next (_advance_intake of transitions.py).                *)
(*                                                                         *)
(* A field is NoFact while its key is missing. The wording of prompts, the *)
(* six questions about a room (three facts here), names and prices are     *)
(* abstracted; facts that only an optimisation of the wording reads (the   *)
(* "already sent" flags) are left out.                                     *)
(***************************************************************************)
EXTENDS Naturals, Sequences

CONSTANTS
    Services,       \* the catalogue of the business
    Kind,           \* [Services -> kinds]: how _service_kind classifies each
    Asks,           \* [Services -> sets of questions]: the ServiceIntake of each
    Contents,       \* a record: what may be said of each fact given in free words
    Days, Hours,    \* what the agenda may offer
    NoFact          \* a missing key

ServiceKinds == {"maintenance", "diagnostics", "installation", "other"}
IntakeQuestions == {"quantity", "access", "address", "tubing", "limit"}
FreeFacts == {"quantity", "access", "address", "model", "room", "taste", "space",
              "recommended", "height", "tubing", "hours", "gate", "limit", "daypart",
              "attendeeName", "phone"}

ASSUME DialogueAssumption ==
    /\ Kind \in [Services -> ServiceKinds]
    /\ Asks \in [Services -> SUBSET IntakeQuestions]
    /\ DOMAIN Contents = FreeFacts
    /\ NoFact \notin Services \cup Days \cup Hours \cup UNION {Contents[f] : f \in FreeFacts}

(***************************************************************************)
(* The values a fact may take. "limit" is the hour by which the team must  *)
(* leave the site (site_allowed_end), "limitKnown" that it was asked;      *)
(* "own" is the number the customer writes from.                           *)
(***************************************************************************)
ContentOf(f) ==
    CASE f \in {"phone", "attendeeName"} -> Contents[f] \cup {"own"}
      [] f = "limit" -> Contents.limit \cup Contents.hours \cup Contents.daypart
      [] f = "tubing" -> Contents.tubing \cup {"unknown"}
      [] OTHER -> Contents[f]

Options ==
    [service |-> Services, pendingService |-> Services, date |-> Days, time |-> Hours,
     ownership |-> {"has", "needs"}, modelKnown |-> {"yes", "no"},
     video |-> {"required", "received"}, mismatch |-> {"once", "twice"},
     mode |-> {"purchase", "both", "install"}, request |-> {"quote"},
     delivery |-> {"pickup", "delivery", "withInstallation"},
     fulfillment |-> {"equipmentDelivery", "equipmentPickup"},
     purpose |-> {"delivery"}, property |-> {"house", "building"},
     attendee |-> {"customer", "other"}, appointment |-> Nat]
Flags == {"photo", "clarify", "match", "limitKnown", "quoted", "paused", "phoneOk",
          "media", "variant", "proposed", "pendingTurn", "nameSkipped", "outreach"}
SameAs == [deliveryAddress |-> "address", street |-> "address",
           suggestion |-> "recommended", meters |-> "tubing"]

Tappable == {"service", "date", "time", "quantity", "access", "height", "mode", "taste",
             "delivery", "property"}
Facts == DOMAIN Options \cup Flags \cup FreeFacts \cup DOMAIN SameAs \cup {"pendingTap"}
Said(f) == IF f \in FreeFacts THEN ContentOf(f) ELSE Options[f]
Taps == UNION {[fact : {f}, value : Said(f)] : f \in Tappable}
FactValues(f) ==
    CASE f \in FreeFacts \cup DOMAIN Options -> Said(f)
      [] f \in Flags -> {"yes"}
      [] f \in DOMAIN SameAs -> ContentOf(SameAs[f])
      [] f = "pendingTap" -> Taps

ValuesOf == [f \in Facts |-> FactValues(f)]

NoContext == [f \in Facts |-> NoFact]
IsContext(c) == /\ DOMAIN c = Facts
                /\ \A f \in Facts : c[f] = NoFact \/ c[f] \in ValuesOf[f]

Known(c, f) == c[f] # NoFact
Drop(c, S) == [f \in Facts |-> IF f \in S THEN NoFact ELSE c[f]]
Only(c, S) == Drop(c, Facts \ S)
Changed(c, d) == {f \in Facts : c[f] # d[f]}

(***************************************************************************)
(* context_policy.py.                                                      *)
(***************************************************************************)
RecommendationInputs == {"room", "taste", "space"}
BuildingOnly == {"hours", "gate", "limit", "limitKnown"}
Scheduling == {"date", "time"}
PlanningInputs ==
    {"quantity", "access", "address", "deliveryAddress", "delivery", "fulfillment",
     "ownership", "model", "height", "property", "hours", "gate", "tubing",
     "limit", "limitKnown"} \cup RecommendationInputs
PurchaseTerms == {"mode", "request"}
DeliveryTerms == {"delivery", "fulfillment", "deliveryAddress", "purpose", "match"}
ServiceReusable == {"address", "property", "hours", "gate", "attendee",
                    "attendeeName", "phone", "phoneOk", "outreach"}

\* Faults for the mutation runs: a correction keeps the slot; a new address forgets
\* the access; another kind of property forgets the height.
ObsoleteKeepsSlot(ch, d) ==
    UNION {{f \in {"recommended", "quoted"} : ch \cap RecommendationInputs # {}},
           {f \in {"quoted"} : ch \cap PlanningInputs # {}},
           {f \in {"time"} : "date" \in ch},
           {f \in BuildingOnly : "property" \in ch /\ d.property = "house"},
           {f \in DeliveryTerms \cup Scheduling \cup {"quoted"} :
                ch \cap PurchaseTerms # {}}}

\* What an explicit correction makes obsolete.
Obsolete(ch, d) ==
    UNION {{f \in {"recommended", "quoted"} : ch \cap RecommendationInputs # {}},
           {f \in {"quoted"} \cup Scheduling : ch \cap PlanningInputs # {}},
           {f \in {"time"} : "date" \in ch},
           {f \in BuildingOnly : "property" \in ch /\ d.property = "house"},
           {f \in DeliveryTerms \cup Scheduling \cup {"quoted"} :
                ch \cap PurchaseTerms # {}}}

InvalidatedWithAccess(c, d) ==
    LET ch == Changed(c, d)
    IN  Drop(d, Obsolete(ch, d) \cup {f \in {"access"} : "address" \in ch})
InvalidatedWithHeight(c, d) ==
    LET ch == Changed(c, d)
    IN  Drop(d, Obsolete(ch, d) \cup {f \in {"height"} : "property" \in ch})
Invalidated(c, d) == Drop(d, Obsolete(Changed(c, d), d))
ForServiceChange(c) == Only(c, ServiceReusable)

(***************************************************************************)
(* facts.py: a text may carry one fact [fact, value, fix]; "fix" says that *)
(* it is worded as a correction. Most facts are only overwritten by a      *)
(* correction; the quantity of the service never is (only the number of    *)
(* devices to buy, which is not modelled).                                 *)
(***************************************************************************)
TextFacts == {"request", "ownership", "model", "quantity", "room", "taste", "space",
              "height", "property", "hours", "attendee", "attendeeName", "phone"}
Overwritten == {"request", "space", "height", "hours", "attendee", "attendeeName",
                "phone"}
Silent == [fact |-> NoFact, value |-> NoFact, fix |-> FALSE]
Sayings == {Silent} \cup
           UNION {[fact : {f}, value : Said(f), fix : BOOLEAN] : f \in TextFacts}

Accepts(c, say) ==
    \/ ~Known(c, say.fact)
    \/ say.fact \in Overwritten
    \/ say.fix /\ say.fact # "quantity"

Extracted(c, say) ==
    LET kept == IF Accepts(c, say) THEN [c EXCEPT ![say.fact] = say.value] ELSE c
    IN  IF say.fact = "model"
        THEN IF c.ownership = "needs" THEN c ELSE [kept EXCEPT !.modelKnown = "yes"]
        ELSE IF say.fact = "attendeeName" THEN [kept EXCEPT !.attendee = "other"] ELSE kept

Enriched(c, say) ==
    IF say.fact = NoFact THEN c ELSE Invalidated(c, Extracted(c, say))

(***************************************************************************)
(* The questions of the intake, in the order in which _advance_intake asks *)
(* them, each with the state the conversation waits in.                    *)
(***************************************************************************)
Questions == <<"quantity", "access", "address", "ownership", "reference", "video",
               "modelKnown", "model", "profile", "delivery", "deliveryAddress", "match",
               "fulfillment", "installAddress", "height", "tubing", "property",
               "hours", "gate", "limit">>

StateOf ==
    [quantity |-> "BOOKING_QUANTITY", access |-> "BOOKING_ACCESS",
     address |-> "BOOKING_ADDRESS", ownership |-> "BOOKING_EQUIPMENT_OWNERSHIP",
     reference |-> "BOOKING_EQUIPMENT_MODEL", video |-> "BOOKING_EQUIPMENT_MODEL",
     modelKnown |-> "BOOKING_EQUIPMENT_MODEL", model |-> "BOOKING_EQUIPMENT_MODEL",
     profile |-> "BOOKING_EQUIPMENT_PROFILE", delivery |-> "BOOKING_EQUIPMENT_DELIVERY",
     deliveryAddress |-> "BOOKING_ADDRESS", match |-> "BOOKING_EQUIPMENT_DELIVERY",
     fulfillment |-> "BOOKING_EQUIPMENT_DELIVERY", installAddress |-> "BOOKING_ADDRESS",
     height |-> "BOOKING_INSTALLATION_HEIGHT", tubing |-> "BOOKING_TUBING",
     property |-> "BOOKING_PROPERTY", hours |-> "BOOKING_BUILDING_HOURS",
     gate |-> "BOOKING_GATE_DETAILS", limit |-> "BOOKING_SITE_LIMIT"]

Maintenance(c) == Kind[c.service] \in {"maintenance", "diagnostics"}
Installation(c) == Kind[c.service] = "installation"
PurchaseOnly(c) == c.mode = "purchase"
Buying(c) == c.ownership = "needs" \/ c.mode \in {"purchase", "both"}
InBuilding(c) == c.property = "building"
\* Only a device is bought, and it has been chosen: no visit is planned.
BuysOnly(c) == /\ Installation(c) /\ c.ownership = "needs" /\ PurchaseOnly(c)
               /\ Known(c, "recommended")

HasReference(c) == Known(c, "model") \/ Known(c, "photo")
ProfileKnown(c) == \A f \in RecommendationInputs : Known(c, f)

Unsettled(q, c) ==
    LET asked == Asks[c.service]
        having == Installation(c) /\ c.ownership = "has"
        buying == Installation(c) /\ c.ownership = "needs"
        terms == buying /\ Known(c, "recommended") /\ Known(c, "mode")
        onsite == Installation(c) /\ ~BuysOnly(c)
        late == ~BuysOnly(c)
        sited == late /\ (Installation(c) \/ Known(c, "request"))
    IN  CASE q = "quantity" -> "quantity" \in asked /\ ~Known(c, "quantity")
          [] q = "access" -> "access" \in asked /\ ~Known(c, "access")
          [] q = "address" -> /\ "address" \in asked /\ ~Known(c, "address")
                              /\ ~(Installation(c) /\ Buying(c))
          [] q = "ownership" -> Installation(c) /\ ~Known(c, "ownership")
          [] q = "reference" -> (Maintenance(c) \/ having) /\ ~HasReference(c)
          [] q = "video" -> Maintenance(c) /\ c.video = "required"
          [] q = "modelKnown" -> buying /\ ~Known(c, "modelKnown") /\ ~Known(c, "model")
          [] q = "model" -> buying /\ c.modelKnown = "yes" /\ ~Known(c, "model")
          [] q = "profile" -> buying /\ c.modelKnown = "no" /\ ~Known(c, "recommended")
          [] q = "delivery" -> terms /\ ~Known(c, "delivery")
          [] q = "deliveryAddress" -> /\ terms /\ c.delivery = "delivery"
                                      /\ ~Known(c, "deliveryAddress")
          [] q = "match" -> terms /\ Known(c, "match")
          [] q = "fulfillment" -> terms /\ PurchaseOnly(c) /\ ~Known(c, "fulfillment")
          [] q = "installAddress" -> onsite /\ "address" \in asked /\ ~Known(c, "address")
          [] q = "height" -> onsite /\ ~Known(c, "height")
          [] q = "tubing" -> late /\ "tubing" \in asked /\ ~Known(c, "tubing")
          [] q = "property" -> sited /\ ~Known(c, "property")
          [] q = "hours" -> sited /\ InBuilding(c) /\ ~Known(c, "hours")
          [] q = "gate" -> sited /\ InBuilding(c) /\ ~Known(c, "gate")
          [] q = "limit" -> late /\ "limit" \in asked /\ ~Known(c, "limitKnown")

\* The places of the open questions, the first of them (or the end), the questions.
OpenPlaces(c) == {i \in DOMAIN Questions : Unsettled(Questions[i], c)}
Position(c) == CHOOSE i \in OpenPlaces(c) \cup {Len(Questions) + 1} :
                   \A j \in OpenPlaces(c) : i <= j
Open(c) == {Questions[i] : i \in OpenPlaces(c)}
FirstOpen(c) == Questions[Position(c)]

(***************************************************************************)
(* _advance_intake derives two facts by itself: who owns the device, once  *)
(* the first three questions are settled, and the hour by which the team   *)
(* must leave, when that is the only question left and the customer has    *)
(* told the hours of the building.                                         *)
(***************************************************************************)
Settled(c, S) == \A q \in S : ~Unsettled(q, c)
WithOwnership(c) ==
    [c EXCEPT !.ownership =
        IF Maintenance(c) THEN "has"
        ELSE IF Installation(c) /\ ~Known(c, "ownership") /\ Known(c, "mode") THEN "needs"
        ELSE @]
WithLimit(c) ==
    IF Open(c) = {"limit"} /\ InBuilding(c) /\ Known(c, "hours")
    THEN [c EXCEPT !.limit = c.hours, !.limitKnown = "yes"]
    ELSE c
Derived(c) ==
    IF Settled(c, {"quantity", "access", "address"}) THEN WithLimit(WithOwnership(c)) ELSE c
=============================================================================

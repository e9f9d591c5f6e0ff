# Verification of the WhatsApp assistant for bookings and service

TLA+ specifications of the backend under `src/app`: a FastAPI service that
receives the WhatsApp webhooks of many small businesses, answers customers,
books technicians and lets the office intervene. Everything durable is in one
PostgreSQL database, everything deferred is a Google Cloud Task delivered over
HTTP, and several instances of the service run at once. What is hard in this
program is therefore not any one handler but what happens between them:
transactions that interleave, tasks and webhooks that come late, twice or never
acknowledged, and switches thrown by a person while a worker is sending.

## 1. Inventory

| Component | State | Operations | Interacts through |
|---|---|---|---|
| Webhook ingest (`whatsapp/processor.py`, `repositories/whatsapp_webhook.py`, `api/whatsapp_webhook.py`) | `processed_webhooks`, customers, conversations, inbound `messages` | claim by event key, store, queue, enqueue, 503 | Meta redelivers on 503; Cloud Tasks |
| Event worker, turns (`tasks/worker.py`, `repositories/cloud_tasks.py`, `api/internal_tasks.py`) | event status and reason | lock the event, group texts, answer, enqueue outbound rows | engine, outbox, Cloud Tasks |
| Conversation engine (`conversations/*`) | state and context of a conversation | one transition per inbound turn, answers and follow-ups | outbox, booking, push |
| Outbound delivery (`tasks/outbound.py`, `repositories/outbound_tasks.py`) | outbound `messages`, retry attempt, task names | take, check the switches, send, retry, enqueue the next | locks of conversation, row and business; provider; Cloud Tasks |
| Delivery status (`repositories/cloud_tasks.py` `update_message_status`) | status of an outbound row | apply sent/delivered/read/failed, grant a retry | outbox |
| Automation control (`repositories/automation.py`, `automation/service.py`, `operations/service.py`) | switches of a conversation and of the business, exclusions | toggle, exclude, delete, manual message, settings | cancels pending outbound rows |
| Monthly quota (`billing/usage.py`) | none of its own | count and compare under the lock of the business | outbox |
| Booking (`booking/availability.py`, `operations/service.py`, `operations/rescheduling.py`, constraint in `models/domain.py`) | `appointments` | search, confirm, move, cancel, office edits, priority moves | exclusion constraint; outbox for the messages |
| Billing: guarantee and cancellation (`billing/service.py`, `billing/webhooks.py`) | `commercial_subscriptions`, payment reference of the checkout, recorded webhook events | refund within seven days, cancel, status page, payment and subscription webhooks | Asaas: calls with timeouts, webhooks; advisory lock of the business |
| Billing: checkouts and activation (`billing/service.py`, `billing/webhooks.py`) | `billing_checkouts`, `commercial_subscriptions` | create, replace, pay by card, poll, cancel, webhooks, activate, upgrade | Asaas; advisory lock of the business; entitlement |
| Lifecycle outreach (`automation/lifecycle.py`) | `customer_outreach`, flags in the context of a conversation | sweep, parts of a reminder, outcome, answer, withdrawal | outbox, engine, booking |
| WhatsApp connections (`whatsapp/onboarding*.py`, `whatsapp/administration.py`, `api/public_pwa.py`) | `whatsapp_connections`, `whatsapp_onboarding_attempts` | begin, complete, callback, client stage, error, sweep, disconnect | Meta, called inside the transaction; the browser |
| Reengagement | its own contact rows | sweep by e-mail and WhatsApp | e-mail |
| Accounts, panel, push, estimates, administration, diagnostics, analytics | see `PROJECT.json` | mostly CRUD and calls to other services | — |

What makes each of the central ones correct:

* **Ingest and turns.** A stored event is never forgotten; a redelivered webhook
  is answered once; texts of one thought are answered together, and none falls
  between two groups.
* **Outbound delivery.** A message is sent no more often than its retry budget
  allows; nothing that waited when a switch was thrown is sent once it has committed;
  one conversation has one sender; a sequence keeps its order; a message waiting for a retry has
  something that will retry it; an answer settles; the plan's limit holds.
* **Booking.** A technician is never reserved twice; the day can be driven; what
  the search offers, the constraint accepts; a move displaces as few as possible.
* **Dialogue.** What is booked is what the customer was shown, at a time that was
  offered for this visit; no question of the service is skipped; no answer sends
  the customer back.
* **Checkouts.** Only money opens access; money opens it; nobody is charged twice;
  a business has one subscription.
* **Outreach.** A row says what the customer was told, and once it is settled it
  stays so.
* **Connections.** A working connection is one completion's and is not lost by what
  comes late; an attempt ends.
* **Guarantee.** Money is returned once and only with the charges stopped; the row
  says "refunded" when it was; access ends with the refund and not with a failed
  attempt; a refund that was promised is in somebody's hands.

Hard behaviours, one per line of code where they bite, are the `hazards` of
`PROJECT.json`, each with the property that covers it or the reason none does.

## 2. Modules

| Module | Role |
|---|---|
| `OutboundDelivery` | outbox, workers, Cloud Tasks, provider, status webhooks, switches, quota |
| `Outbox` | what the outbox promises, without tasks, workers and locks (abstract) |
| `OutboundRefinement` | `OutboundDelivery` implements `Outbox`: the mapping |
| `OutboundDeliveryProofs` | the theorems of the outbox: its safety, the driver of a retry, the monthly limit, the refinement |
| `InboundTurns`, `InboundTurnsProofs` | webhooks, event tasks, grouping and answering of one conversation |
| `DialogueContext` | what is known in a conversation: facts, what a change invalidates, the next question |
| `DialogueSteps` | the handlers of `transitions.py` as functions to sets of outcomes |
| `Dialogue`, `DialogueProofs` | one conversation turn by turn, its customer, its appointments, the office |
| `Booking`, `BookingProofs` | one day of appointments: customers and office against the exclusion constraint |
| `Checkout`, `CheckoutProofs` | the purchases of a business up to the access they open |
| `GuaranteeRefund`, `GuaranteeRefundProofs` | a paid subscription: refund, cancellation, status page and provider webhooks |
| `Outreach`, `OutreachProofs` | follow-ups and reminders: sweeps, parts, reports, answers |
| `Signup`, `SignupProofs` | the WhatsApp connection of a business and its onboarding attempts |
| `MC*` | instances for TLC |

The modules meet at their edges: the answer of `InboundTurns` is a message of
`OutboundDelivery`; `Dialogue` chooses the slot that `Booking` reserves; the access
that `Checkout` opens is what `GuaranteeRefund` starts from and what
`OutboundDelivery` sees as the switch `entitled`; the messages of `Outreach` are
delivered as in `OutboundDelivery`, and its switches are the ones thrown there.

### OutboundDelivery

A database transaction is one action unless it waits for a lock or for the
provider while it holds other locks. The worker's transaction is therefore
several steps (`StartAllowed`, `TakeBusiness`, `ProviderAccepts`/`Refused`/
`ProviderPermanent`/`ProviderTemporary`, `CommitSent`), and so is the one that
switches the assistant off (`SettingsOffBegin`, `SettingsOffCommit`), because
those two take the business row and the message rows in opposite orders and may
deadlock (`SettingsVictim`, `WorkerVictim`: the database ends one of them). The
exclusion of a contact is `ExcludeBegin` and `ExcludeCommit` for the same reason: its
UPDATE waits for the rows in the hands of workers. A row lock has no variable of its own: it is held while the program counter of the
transaction is between its two ends (`ConvFree`, `RowFree`, `BusinessFree`).

| State | In the code |
|---|---|
| `status`, `attempt` | `messages.status`, `_alovia_retry_attempt` |
| `seen` | event keys (provider id, status) applied to the present provider id |
| `retryDue` | a `failed` event has committed and its handler has not yet created the retry task |
| `task` | Cloud Tasks by deterministic name: message, and attempt (0 is the plain name). A name that was used once can never be used again |
| `pc`, `job`, `nth` | where a handler is, with which message and task |
| `enabled`, `handoff`, `suppressed`, `exclusion` | switches of a conversation |
| `assistantOn`, `entitled` | switches of the business |
| `settings`, `offScope` | the open transaction that switches the assistant off, and the rows its UPDATE found |
| `excluding`, `exScope` | the open transactions that exclude a contact (by their mode), and the rows their UPDATEs found |
| `sends` (history) | committed sends |
| `late` (history) | the cancelling transactions that were open when the row became pending |

`ConvFree` carries the argument of the "hard boundary" of `lock_message`: a switch of
the conversation waits for whoever sends in it. Two places do *not* lock the
conversation (`add_exclusion`/`update_exclusion` and `update_settings`). Each is one
UPDATE under READ COMMITTED: it finds the rows that are pending when it starts
(`offScope`, `exScope`), waits for those (`RowFree`) and cancels those. A row that becomes
pending later, by an answer, or by a failure that a webhook reports (`Appear`,
`Reappears`), is neither found nor waited for until the commit; the plain UPDATE of the
business row does not stop the insert either. A worker that has such a row in hand, the
switches read, sends it after the commit. `HardBoundary` therefore says: nothing passes a
switch of the conversation, and nothing but such a row (`late`) passes the other two;
`NothingAfterOff`, what the code's comment says, fails (section 3).

`Outbox` says it from the customer's side: each message is in its place of the
sequence, delivered no more often than granted, never after it was dropped unless
news of an earlier delivery revives it. `OutboundRefinement` maps status to
waiting, out or dropped, the attempt carried by the row to the retries granted,
and committed sends to deliveries.

### InboundTurns

One conversation on a clock of seconds. Messages carry Meta's whole second;
outbound rows carry the instant at which their transaction began. `Ingest`,
`Enqueue` and the handler's `TakeTurn`, `Answer`, `EnqueueOutbounds`,
`Acknowledge` are separate because a crash, a redelivery or another handler can
come between any two of them. `Turn`, `Candidates` and `Grouped` translate the
two queries and the backward loop of `load_inbound_turn` as sets.

### Dialogue

`DialogueContext` keeps the JSON context as a record with one field for each fact
the flow branches on (`NoFact` while its key is missing), `Obsolete` and
`Invalidated` are `context_policy.py`, `Open` and `Questions` the order of
`_advance_intake`. `DialogueSteps` maps a context and the set of questions that
failed once to the *set* of outcomes of a handler; the set stands for what a text
may say and what the agenda may answer, so the interpreter and the language model
are a free choice. `Dialogue` adds what a turn does around the handler
(the order of the special cases of `determine_transition`), remarks, corrections,
old buttons, side talk, media, moves and cancellations of appointments, and the
office, which writes the same row. `surprises` counts the turns off the straight
path; `shown`, `fitted` and `origin` are history.

### Booking

A request is two steps, because that is how the code runs: it reads the agenda
and computes what each technician could offer (`SearchConfirm`, `SearchMove`),
and later writes (`Book`) or is refused by the constraint (`Refuse`) and tries
the next technician. The office writes without any search. Time is in slots.
`fresh` and `serial` are history variables: `fresh[a]` says that nothing was
confirmed since the request read the agenda, `serial` that only such requests,
and no office edit of a customer's appointment, have placed customers.

### Checkout

A request of the panel holds the advisory lock from its start to its commit and
across the call of the provider: it is the record `work`. A webhook or a poll of
the panel is a handler in three steps (`Load`, `Decide`, `Commit`): it loads the
row without the lock, takes the lock only to grant access, and writes only what it
changes. `stage`, `charges` and `money` are the provider's; `events` are webhooks
that are not marked processed, so each may come late, twice and in any order. The
four methods (card on the page, card at Asaas, Pix, Pix Automático) differ in what
they wait for before access opens, and in which of them gives way to another one
(`GivesWay`).

### Outreach

A row is keyed by the conversation and the silence it asks about, or by the visit
a reminder is about. A sweep is one transaction that others see at its end, then
an enqueue that may fail. A reminder has two parts, and the row is settled by the
last one; the provider may report a failure after a success. The customer's answer
is a webhook (`mark_outreach_response`, which withdraws what is pending) followed
by a turn of the engine, with anything in between. `told` is history.

### Signup

A request that calls Meta keeps its transaction and its row locks meanwhile: its
place (`business`, `row`, `provider`, `failed`, `blamed`) says which. Its kinds
lock in different orders, so two may wait for each other and the database
ends one (`Victim`). Of a connection's fields the model keeps who wrote them
(`ids`, `cred`: a request, the browser, nobody): that is what "whole" means.

### GuaranteeRefund

A request of the panel is cut at every commit and every call of the provider,
since the advisory lock ends with the first commit and webhooks go on meanwhile.
The sessions are the delicate part: `expire_on_commit=False` means that a request
keeps the row as it loaded it (`seen[r]`) and the flush writes only attributes
whose value differs from the loaded one (`Flushed`), so a request may overwrite
what a webhook committed, or fail to.

| State | In the code |
|---|---|
| `status`, `refund`, `access` | `status`, `refund_status`, `access_until` of `commercial_subscriptions`; `access` says whether it is over, is what was paid, or lies behind it |
| `payRef` | `billing_checkouts.provider_payment_id` is known |
| `lock` | `pg_advisory_xact_lock` of the business |
| `pc`, `kind`, `seen`, `answer` | where a request is, for what, its session, and what the provider told it |
| `recurrence`, `money` | at Asaas: further charges; the refund of the first payment |
| `inFlight` | webhook events, by kind, not yet marked processed; applied as often as they are delivered |
| `calls`, `reopened`, `overlapped` (history) | submissions; a webhook revived an ended subscription; two requests resumed at once |

`Effect` is `apply_payment_event`/`apply_subscription_event` with what they do
first: for a card, any payment event runs the activation (`Reactivates`).

## 3. Runs

| Run | Instance | Shows |
|---|---|---|
| `outbound_retry` | optional image followed by a text, 2 workers, 1 retry each, 1 crash, webhooks sent/delivered/failed in any order | `SendBudget`, `OneSenderPerConversation`, `SequenceOrder`, `RetryHasDriver`, and the refinement `ImplementsOutbox` (1.7 M states) |
| `outbound_barrier` | 2 conversations, automatic answer, typed message, handoff notice, any 1 operator action (and what takes it back), a plan of 1 message, webhooks delivered/failed in any order | `HardBoundary`, `QuotaRespected` (3.0 M states) |
| `outbound_live` | one answer, 2 workers, 1 crash, 1 operator action, 1 retry, fairness | `FirstsSettle` |
| `turns` | three texts at any second, one fault, one duplicate, one other event, fairness | `QueuedHasDriver`, `AnswersHaveDriver`, `TurnsExact`, `EventsSettle` |
| `booking` | three customers on a road, one call of the office, one technician, 2 requests at once | `ReservedDisjoint`, `SerialTravel`, `ConfirmStands` |
| `guarantee_refund` | two requests, every payment method, one webhook unasked, one crash | `SubmittedOnce`, `ChargesStopFirst`, `RefundedIsReal`, `AccessUntilRefund`, `RequestedHasWorker` (2.8 M states) |
| `dialogue_care` | the booking of a cleaning; anywhere one turn off the straight path, with a text on the property or on who receives the team, an older button or a turn of the office | `NothingIsSkipped`, `SlotFitsPlan`, `BookedAsShown`, `IntakeMovesForward` |
| `dialogue_install` | a purchase with installation: profile, delivery, height, building; one turn off the path, with a text on the property, the purchase or who owns the device | `NothingIsSkipped` |
| `checkout` | two checkouts in seven pairs of methods, two handlers at once where both are a native card or a Pix, one fault | `OneSubscription`, `AccessIsPaid`, `ChargedOnce`, `PaidIsServed`, `OneOpenPix` (1.4 M states) |
| `checkout_uncertain` | two card checkouts, one fault | finding: a charge while an earlier one is unknown |
| `outreach` | one customer, silent and due for a cleaning, two sweeps, the plan with plus features, one report, one crash, one operator action | `OutcomeWasTold`, `SkippedStaysUntold`, `OutcomeStays` (1.2 M states) |
| `signup` | two requests of any kind, two attempts, two rows, one event, one crash, fairness | `ConnectedIsWhole`, `PendingHasAttempt`, `ConnectionIsKept`, `AttemptsEnd` (0.75 M states) |

**Further configurations.** Each states one property that the code breaks, and TLC
finds the behaviour (run it with `tlc -config <cfg> <module>`).

| Configuration (module) | Property | Behaviour it shows |
|---|---|---|
| `MCOutboundDelivered.cfg` (`MCOutboundLive`) | `DeliveredIsNotRetried` | `update_message_status` writes 'sent' over 'delivered' (`cloud_tasks.py:255`); a failure that follows no longer recognises that it is late and the message is sent again. The comment at `cloud_tasks.py:237` says never |
| `MCOutboundOff.cfg` (`MCOutboundBarrier`) | `NothingAfterOff` | an answer written while the UPDATE of an exclusion waits for another worker (`repositories/automation.py:365`; the same for the assistant, `:345`) is outside its snapshot; its worker has read the switches and sends after the exclusion has committed. The comment at `outbound_tasks.py:193-196` says that the alias check under the locks prevents it |
| `MCInboundTurnsButton.cfg` (`MCInboundTurns`) | `MergedIsAnswered` | the answer to a button falls between two texts of a turn; the first was merged into the second (`cloud_tasks.py:182`), whose turn leaves it out |
| `MCBookingMove.cfg` (`MCBooking`) | `MoveStands` | `reschedule_booking_atomic` (`availability.py:766`) writes the plan from the origin and is refused at a time it was offered |
| `MCBookingDisplaced.cfg` (`MCBooking`) | `FewestDisplaced` | a priority move displaces appointments of a technician who does not become free (`rescheduling.py:152`, against its comment at 148-151) |
| `MCGuaranteeRefundTwice.cfg` (`MCGuaranteeRefund`) | `NeverSubmittedAgain` | two reads of the status page resume one refund without a lock (`billing/service.py:919`, against the comment at 1334-1335) |
| `MCGuaranteeRefundAccess.cfg` (`MCGuaranteeRefund`) | `CanceledAccessIsPaid` | any event of a payment of a card extends the access by a cycle (`billing/service.py:1776`); canceled afterwards, it stays (against `docs/commercial_plans.md:55`) |
| `MCDialogueSecond.cfg` (`MCDialogue`) | `AppointmentsAreRequested` | a button of an older list, tapped after the booking and confirmed as a change of choice (`transitions.py:3233`), leads to a second appointment |
| `MCDialogueLimit.cfg` (`MCDialogue`) | `LimitIsKept` | the first mention of a house, which corrects nothing, loses the hour the customer has set (`context_policy.py:122`, against its docstring at 89) |
| `MCDialogueDevice.cfg` (`MCDialogue`) | `ChosenDeviceIsKept` | a device taken from a suggestion while its profile is asked is dropped by the next answer (`context_policy.py:98`), after `transitions.py:561` had said "Atualizei sua escolha" |
| `MCDialogueBuilding.cfg` (`MCDialogue`) | `BuildingBeforeAgenda` | a text that makes the place a building and names day and hour skips the hours and the gate (`transitions.py:8036`) |
| `MCDialogueAttendee.cfg` (`MCDialogue`) | `SettledBeforeConfirming` | a text that gives the number and says that somebody else receives the team (`facts.py:251`) goes straight to the summary (`transitions.py:8606`), which names nobody |
| `MCCheckoutSession.cfg` (`MCCheckout`) | `SessionIsServed` | a late CHECKOUT_CREATED writes 'active' over 'paid' (`webhooks.py:177`): a paid session at Asaas opens no access |
| `MCOutreachAnswered.cfg` (`MCOutreach`) | `SilentAfterAnswer` | the answer settles the last outreach that was *sent*; one written meanwhile is sent after it (`lifecycle.py:400`) |
| `MCSignupPending.cfg` (`MCSignup`) | `PendingIsLegacy` | an Idempotency-Key of an attempt that ended, or a browser that reports the end itself, leaves a waiting row without an attempt; the comment at `public_pwa.py:842` knows only legacy ones |
| `MCSignupRetry.cfg` (`MCSignup`) | `ErrorsAreRetryable` | a stale attempt makes a disconnected exclusive connection an error that no begin accepts; the comment at `public_pwa.py:843` calls errors retryable |

**Why the bounds are enough.** Every hazard the properties are about involves at
most two workers, or a worker and a switch; two workers over two conversations
that share a business row, and one switch of any kind, give every pair that can conflict
(two switches, without webhooks and with nothing to retry, pass too: 4.1 M states). One retry
(`MaxAttempt = 1`, the code has 3) already gives a first send, a granted retry
and an exhausted budget; the theorems below hold for any budget. Webhooks are
bounded by the code itself: each status is applied once per provider id. Three
texts are the least with which a group can have a middle. Three customers and one
technician give an appointment two neighbours and a cancellation in between. Of
the guarantee, two requests and a webhook give every overlap of two writers with
the provider between; the same kind of webhook is one event that may be applied
any number of times.
In the dialogue one surprise at every place of every path already separates what is
kept from what is lost; the instances differ in the catalogue, so that together they
ask every question. Both pass as well with every fact in the texts and every older
button (`Sayable <- TextFacts`, `OldButtons <- Tappable`; 168 000 and 101 000 states).
Two checkouts give every way one can replace, or meet, another;
the pairs of methods are those between which the code makes a difference, and two
handlers at once are given to the pairs where both can open access. For outreach one customer is
enough, because rows of different conversations share only the sweep's limit; two
silences and a due visit give it several rows, two sweeps the collision, and a
reminder the second part. Two requests are the least with
which a signup can deadlock, and a completion can meet a disconnection; an instance
with one request and three events of the browser passes, too.
`CHECK_DEADLOCK FALSE` is set because all instances are finite stories: when all
messages are settled, the day is full or the bounds are used up, nothing more happens.

**Bounds by name.** `MaxCrashes`, `MaxOps`, `MaxAttempt`, `Quota` (outbox);
`MaxTime`, `MaxFaults`, `MaxDuplicates`, `MaxOthers`, `MaxLate` (turns);
`MaxOpen`, `MaxEdits` (booking); `MaxAnnounced`, `MaxCrashes` (guarantee);
`MaxSurprises`, `MaxBookings` (dialogue); `N`, `MaxHandlers`, `MaxFaults` (checkout);
`MaxClock`, `MaxReports`, `MaxCrashes`, `MaxOps` (outreach); `MaxAttempts`, `MaxRows`,
`MaxEvents`, `MaxCrashes` (signup).

**Fairness and why the code justifies it.** `OutboundDelivery!FairSpec`: Cloud
Tasks redelivers a live task until it gets a 200, so taking a task is strongly
fair (a conversation lock may come and go); a handler that holds a step takes
it, commits and acknowledges (weak); the provider does not answer "temporary
error" for ever (strong, on the other answers); an inbound event's handler is
redelivered until it has enqueued (weak, `EnqueueFirst`, `EnqueueRetryForEvent`);
PostgreSQL breaks a deadlock. Nothing is assumed of operators, of status
webhooks, or of the request that enqueues a person's message: its failure is a
503 to the panel and nobody repeats it, which is why `FirstsSettle` leaves manual
messages out. `InboundTurns!FairSpec`: Meta and Cloud Tasks deliver until 200,
and time passes. `Signup!Fairness`: Meta answers a request or its timeout ends it
(`Proceeds`), an attempt's time elapses, and the scheduler repeats the sweep
(`internal_tasks.py:220`); nothing is assumed of the browser or its user. The other
modules are about safety only.

**Sensitivity.** For each property of a passing run, `PROJECT.json` names a
mutant of a modelled definition (a lock that is not taken, a task under a name
already used, a status that is not looked at, a reservation without travel) under
which the same run fails. The mutants are in the modules beside their originals.

## 4. Findings

`checkout_uncertain`: a card checkout whose charge timed out, and whose outcome the
code could not find out, stays 'creating' without a subscription reference. When
its time has elapsed `create_checkout` lets it give way (`billing/service.py:274`)
and the new checkout is charged, while the first charge may exist. The plan's
documentation (`docs/commercial_plans.md:95-97`) and the comment at
`billing/service.py:672-673` say that any new attempt reconciles first; only an
attempt on the same checkout does.

The further configurations of section 3 are behaviours of the same sort. Met while
modelling and not stated as a property, because no text of the repository promises
otherwise or the model leaves the case out:

*Outbox, turns, booking, guarantee.*

* Two customers who confirm at once may both succeed with the travel computed for
  neighbours that are no longer theirs. Reservations stay disjoint; the drive may
  be impossible. This is why `SerialTravel` has `serial` as a premise.
* A late 'sent' about the previous send, arriving while a retry is pending, turns
  the row 'sent' and so cancels the retry.
* The monthly limit can be crossed by a late webhook: the count looks at present
  status, failing gives a place away and a late report of the same send takes it back.
  `QuotaRespected` is therefore about the other messages (`Disputed` are these).
* A late `PAYMENT_REFUND_IN_PROGRESS` turns "refunded" back to "requested" until
  the page is looked at.
* A crash between the commit of the refund's intent and the refund leaves
  "requested" for ever; only "reconcile_required" is resumed (`crashes > 0` in
  `RequestedHasWorker`).
* A redelivered `PAYMENT_OVERDUE` of a card violates the unique key of the panel's
  alert, so it is answered with 500 each time and never marked processed.
* A crash after the provider accepted and before the commit sends twice; the
  budget counts committed sends.
* A follow-up whose predecessor failed for good stays 'pending'; a manual message
  whose enqueue failed waits for the next inbound event.
* An older text delivered after a newer one was answered is merged into it and
  never answered.
* `src/README.md:226-229` says that permanent 4xx errors result in `failed`; the
  code grants up to three retries.

*Dialogue.*

* The contact and the recommended equipment that are booked may differ from those
  of the summary; `PHONE_CONFIRM` stores the WhatsApp number though another one was
  shown.
* A service change forgets that the customer declined to give a name; the purpose of
  an address and the flag of an old reminder linger, and the flag captures a later
  "sim" or "não".
* `BookingRequiresHandoff` is not caught when an intake resumes or a visit is moved:
  the turn is rolled back and repeated.
* Questions that were not asked, or no longer stand, do not stop a booking that is past
  the intake (the exceptions `NothingIsSkipped` names): a button of an older list of
  days or hours, tapped in the intake and confirmed as a change of choice, goes on to
  the agenda or the last questions (`transitions.py:2934`); a quote that was put aside
  is taken up as it was (`transitions.py:4229`); a correction at the summary of who
  receives the team, of the property or of the purchase asks nothing again.

*Checkouts.*

* The poll of the panel takes no lock and can expire a card checkout that is charged
  and not confirmed. A crash while the provider charges loses 'creating', and the
  next attempt charges again (`~crashed` in `ChargedOnce`).
* A PAYMENT event that is processed before the subscription's reference commits
  finds no checkout and is marked processed; unless the reconciliation finds the
  payment, it is lost (`faults = 0` in `PaidIsServed`).
* A late AUTHORIZATION_CREATED turns 'paid' into 'active'; cancelling a Pix
  Automático whose creation timed out asks the provider nothing; one that was paid
  and refused blocks every later checkout; a payment that meets another subscription
  is money without access (`conflict`).
* Handlers of CHECKOUT_PAID and of PAYMENT can hold what the other one waits for
  (the row and the advisory lock): the database ends one.

*Outreach.*

* Under the basic plan the service window (`outbound_tasks.py:75`) always refuses the
  follow-up of a day. The sweep takes the oldest conversations up to its limit
  without leaving out those it has asked, so they can keep newer ones from their
  turn.
* A crash or a failed enqueue after the sweep's commit loses the follow-up: its key
  exists and no later sweep sends it.
* The words that decline differ between the engine and `mark_outreach_response`; a
  message that the operator cancels leaves its outreach 'pending'.

*Connections.*

* `mark_onboarding_error` revives a disconnected row to 'error'; `record_assets`
  renews an attempt that is overdue where `record_event` expires it; a completion in
  the exclusive mode leaves the other mode's attempt active, whose completion then
  answers "connected".
* A completion locks row, then attempt, and an error locks attempt, then row: they
  can deadlock, though `onboarding_attempts.py:616` states one order. A disconnection
  that dies after Meta has deregistered the number leaves the row 'connected'.

## 5. Proofs

The eight `*Proofs` modules are checked by TLAPS for all values of the constants that
satisfy the `...Assumption` of their module.

**Outbox.** `TypeCorrect` (types), and from one inductive invariant the
safety of the worker: `SendBudget`, `OneSenderPerConversation`, `HardBoundary`
and `SequenceOrder`. `SendBudget` is not inductive: a worker that has the
provider's acceptance in hand will commit a send although the row still says
'pending', so its second conjunct ties pending rows to unspent attempts, and this
in turn needs that only the holder of a row lock moves the row
(`OneSenderPerConversation`). `HardBoundary` (`BoundaryHolds`) needs the same lock argument for
every switch of the conversation. For the assistant and the exclusion it needs
`ScopeInv`: while a cancelling transaction is open, a pending row is among those it
found or is marked as too late for it. The commit waits for whoever holds a row of the
first kind, so a message in hand at that moment is of the second. (The entitlement of the
business is not part of it: the code locks nothing against its change.)
`RowHistory` supplies what is known of the past: a row that counts as delivered
was sent, a row not yet written was not, and a sequence is written whole. With it
and `FailedStays` (what has failed stays so until it is sent again) a follow-up's
task never outlives the reason for which it was created (`SequenceOrder`).

`RetryIsDriven` (`RetryHasDriver`) is the invariant `DriverInv` together with
`HistoryInv`: a row that waits with a positive attempt has the task of that attempt,
a worker that will create it, or an event that will. What makes it inductive is that
a name is used once: a task of an attempt that the row has not reached cannot exist.
`DeliveryRefinesOutbox` (`ImplementsOutbox`) takes the steps one by one: a commit of
a send is a `Deliver`, because the worker holds the row (`OneSenderPerConversation`),
the budget has room (`SendBudget`) and the predecessor is settled
(`SequenceOrder`, and `PlainFirst`: the first task of a row precedes its retries); a
webhook is a `Confirm` or a `Fail`, because a row that was sent and waits or is
dropped had its failure reported (`FailureSeen`); every cancellation is a `Write` that drops; all
else stutters.

`QuotaIsRespected` (`QuotaRespected`): the count is taken under the lock of the
business and used before the commit, so `QuotaInv` adds that there is still room while a
worker holds that lock. Only it can add a message that counts and is not disputed: a
webhook that makes a row count again comes after a failure of the same send was
reported (`FailureSeen`).

**Turns.** `TurnsTyped`; `QueuedIsDriven` and `AnswersAreDriven` from `WorkInv` and
`OwedInv`: a handler works on an event whose task is live until it has acknowledged,
and it acknowledges after its answers are handed on; an event is settled before that,
so what is owed is counted from the answer and not from the event.
`TurnsAreExact` (`TurnsExact`) is about any number of texts. In time, a handler runs in
the second in which its window ends (`PromptInv`), and a turn is then determined by the
times alone (`Exact`): it is what is linked to its last text by gaps not longer than the
window and is not older than the last answer. Two answers share nothing because the
later one's turn begins after the earlier one; a text that was merged is in the answer
of the last text linked to it, found by well-founded induction on numbers.

**Booking.** `BookingTyped`; `ReservationsDisjoint`, from the lemma that every
step either only releases rows or writes one row that the constraint accepted
(`Writes`), whatever was read before. `ConfirmationsStand`: while
a request is fresh the agenda has only shrunk since it was read. `TravelKept`
(`SerialTravel`) is the deepest: the search looks at the two nearest neighbours of
a new appointment only, and the theorem is about every pair of customers, after
any sequence of cancellations, moves, releases and displacements.
`TravelFeasible` alone is not inductive, because a request writes what it computed
several steps ago; `DriveInv` adds that what a fresh request was offered can
still be driven (`OffersDrivable`). The step of the search (`DriveFrom`, `DriveTo`)
takes the nearest neighbour, which exists because appointments are finitely many
(`Greatest`), uses `ReservedDisjoint` to order the others before it, and the
triangle inequality to go through it.

**Guarantee.** Every property of the run is proved for any number of requests,
webhooks and crashes. The difficulty is that a request writes what it remembers of
the row. `ProviderInv` therefore extends what is said of the row to the remembered
rows, the answers of the provider and the webhooks under way (`RefundsAreReal`,
`AccessKept`). `ChargesInv` follows a request from the end of the recurrence to the
submission (`ChargesStopped`). For `SubmittedAtMostOnce` three things exclude a
second submission, each of another kind: the lock, while the first request only
intends the refund; the recorded `refund_status`, which no write makes "none" again;
and the ended status, against resumption, which only a webhook undoes
(`EndedInv`, `IntentInv`, `OnceInv`). `PromisedIsPursued` names the owner of a
promised refund: the request that remembers it as "requested" (`WorkerInv`).

**Checkouts.** `CheckoutTyped`, `SubscriptionsAreOne`, `PaidAccess` and
`ChargedAtMostOnce`, for any number of checkouts and of handlers at once, and any
faults. None is inductive alone, since a handler writes what it has decided from a
row it loaded long before. `MoneyInv` says of every proof of a payment, in the row, in
a remembered row or in a webhook under way, that the money is there (`PaidAccess`).
`LockInv` says that what the holder of the advisory lock saw when it looked for
another subscription is so until it commits (`SubscriptionsAreOne`); that needs
`OverInv`: nothing under way reopens an access that is over. `ChargeInv` says that a
charged checkout is remembered, by its reference, by a status in which it is not
charged again, or by the request that is charging, unless a request died (`ChargedAtMostOnce`). `PanelMoves` and
`StepDoes` are what the actions do to the row, stated once.

`OnePixIsOpen` (`OneOpenPix`) and `PaidAreServed` (`PaidIsServed`) are about histories
without a failed call (`FreeInv`). For the first, checkouts are made in order
(`InOrder`); a Pix that can be paid is the newest and no other checkout is being made
(`OpenInv`); and whatever says that one has ended, in an event, a handler or an answer, is so
at the provider (`EndInv`). The second is an account of what is still to come: for each
payment that opened nothing there is the event that opens it, repeated until it is
processed, or, for a card whose reference that event could not find, the request that
looks for the payment when it has committed the reference (`OwedInv`, `ChargeKnown`);
and a handler that looks at it decides to open (`GrantInv`).

**Outreach.** `OutreachTyped`, `OutcomesAreTold`, `SkippedAreUntold` and `OutcomesStay`,
for any number of customers, sweeps and interactions. Every action moves a row in one of
six ways (`Moves`), and the invariants are proved of those: the last part of a reminder
waits for the first (`ToldInv`), the last part of a skipped row has failed and is never
tried again (`SkipInv`), the lists from which an answer takes its row hold written rows
only (`ListInv`), and since they are finite each has a last one that fits (`LastExists`).

**Dialogue.** `DialogueTyped` (`TypeOK`), `SlotAlwaysFits` (`SlotFitsPlan`) and
`BookingsAreAsShown` (`BookedAsShown`), for every catalogue and any number of surprises and
bookings, from `DialogueInv`: types, `SlotFitsPlan` itself, and that what the summary
showed is what is known while the customer decides (`SummaryIsCurrent`).
The types alone need that each handler, for each
context, asks a question that exists (`Good`). The argument for the slot is in two
halves. What is planned depends on a few facts (`Core`, `CoreDecides`); and a message
leaves these as they were or costs the slot (`InvalidatedFollows`, the lemma about
`invalidate_changed_facts`), whether it corrects, remarks or taps an old button
(`MessagesReadable`). A step then ends in one of the last questions only if it asked the
agenda anew or was there already and kept what decides (`Fine`, `Continues`), and each of
the handlers is shown to end so.

**Connections.** `SignupTyped`, `ConnectionsAreWhole`, `PendingIsAttempted` and
`ConnectionsAreKept`, for any number of requests, from one invariant: types, `Made` (a
working connection was made by one finished request of its mode, and who is leaving
has a row) and `PendingHasAttempt` itself. The locks enter through the places: what a
request found when it took its row is so when it writes.

**Assumptions.** The theorems use the constants' assumptions only. For the outbox
these say that a sequence stays in its conversation and is a chain, and that a
person's message is not in a sequence; for booking, that appointments are
finitely many and that exactly the office's own have no address; for connections,
that nobody and the browser are no requests.

**Only model-checked.** Liveness (`FirstsSettle`, `EventsSettle`, `AttemptsEnd`):
reasoning about fairness and ENABLED is out of the prover's reach. Of safety, two
action properties of `Dialogue`: `NothingIsSkipped`, whose proof has to say of every
handler what it keeps of what the customer has answered, and `IntakeMovesForward`,
whose invariant has to say of every state of the intake which questions are settled
in it. No theorem
rests on induction over data, and no module with a proof declares a RECURSIVE operator.

## 6. Abstractions and what is left out

* The content of messages, templates and the window of 24 hours: one outcome
  `Refused` that may always happen. Delays of tasks are not timed in the outbox.
* `InboundTurns` has one conversation; blank texts, the limit of 20 rows,
  `_prefer_latest_substantive_fragment` and the path without Cloud Tasks are
  left out. The rows of `answers` carry the set of texts answered.
* `Booking` has one day, one service whose technicians are all eligible, and
  reminder templates taken as enabled; price, lead times and the customer's
  building hours are left out. The customer's building, catalogue and estimates
  are constants (`Travel`, `Dur`).
* `GuaranteeRefund`: time is a choice (the seven days may be over at any request);
  amounts and their mismatch, the plan's upgrade, Pix authorisation events, legacy
  Pix subscriptions, the return of the business to free access and the natural end
  of the paid period are left out. Each kind of webhook is one event; an overdue payment
  may be the first one, whose alert is counted, or another with an alert of its own.
* The change of month and plan upgrades of the quota; entitlement is a switch.
* `OutboundDelivery`: the reading of the switches in `lock_message` and the lock of the
  message row are one step (`Start`); a webhook that holds the row while a switch begins
  and commits is not told from one that comes before. The rows of the lifecycle sweep,
  which inserts without a lock, are in `Outreach`; they can be late for a switch like
  the others.
* `Dialogue`: what a text means (`interpreter.py`, `facts.py`, the language model) is
  any fact of the instance's sets; the wording, quotes and price limits, and the flags
  that only spare a repeated sentence are left out; the agenda answers freely, and
  `Booking` says what it may answer.
* `Checkout`: plan, cycle and amounts are one offer; upgrades, administrative grants,
  renewals and legacy recurring Pix are left out; access ends only when no event of
  its first payment is left (they come within days, the period is a month or a year);
  what follows the first payment is `GuaranteeRefund`. A payment that names no checkout
  or subscription may renew the customer's newest Pix subscription
  (`billing/service.py:2171-2183`); in the model (`Commit`) it does nothing.
* `Outreach`: archived conversations, the quota and how a task is created and repeated
  (`OutboundDelivery`) are left out; time is counted in interactions.
* `Signup`: preferences and their review, a number claimed by two businesses, the
  internal completion with an OIDC token, and a stale identity map when the mode is
  changed (`mode_switch.py:72`) are left out; Meta's answers are success, failure and
  no answer. A request that waited for the newest row may get the one that was newest
  when it began to wait; where that changes the answer the code goes on to Meta and looks
  again in `complete_provider_onboarding`, the model (`LockRow`) ends the request.
* Not modelled at all: reengagement (its own sweep of prospects), accounts and
  sessions, web push, estimates (arithmetic over the catalogue; `Travel` and `Dur` are
  constants of `Booking`), platform administration, diagnostics, analytics,
  infrastructure and migrations.

## 7. Plan

Done, in the order of what a failure would cost: `OutboundDelivery` and the proof that
it implements `Outbox`, `InboundTurns`, `Booking`, `GuaranteeRefund`, `Checkout`,
`Outreach` and `Signup`, each with the theorems of its safety properties; `Dialogue`
with its types, its slot and its summary.

Left:

1. The theorems of `NothingIsSkipped` and `IntakeMovesForward`.
2. The composition of `Dialogue` with `Booking` (a confirmed slot that the constraint
   refuses) and of the office's priority moves with the messages that announce them.
3. Plan upgrades, in `Checkout` and in the quota; rotation of refresh tokens.

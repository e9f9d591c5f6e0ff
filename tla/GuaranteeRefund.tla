--------------------------- MODULE GuaranteeRefund ---------------------------
(***************************************************************************)
(* The seven-day guarantee of one business: its latest subscription, whose *)
(* checkout is the first that the business paid, the requests of the panel *)
(* that cancel it, refund it or only look at it, and the webhooks of the   *)
(* payment provider (Asaas).                                               *)
(*                                                                         *)
(*   billing/service.py   request_guarantee_refund, subscription_status,   *)
(*                        request_subscription_cancellation and what they  *)
(*                        call; apply_payment_event,                       *)
(*                        apply_subscription_event                         *)
(*   billing/webhooks.py  process                                          *)
(*                                                                         *)
(* A request is cut where it waits for the provider, because its advisory  *)
(* lock ends with the first commit, webhooks do not take that lock, and a  *)
(* read of the status takes none.  Sessions keep what they loaded          *)
(* (expire_on_commit=False) and write only the attributes they change, so  *)
(* seen[r] is the row as request r remembers it.  A webhook's transaction  *)
(* waits for nothing and is one step.                                      *)
(*                                                                         *)
(* Time is a choice: a request may find the seven days over at any moment. *)
(* Not modelled: amounts, plan and cycle, the return of the business to    *)
(* free access, the end of the period already paid (which lies behind the  *)
(* guarantee).                                                             *)
(***************************************************************************)
EXTENDS Integers, FiniteSets

CONSTANTS
  Requests,   \* requests of the panel, each made once
  NoRequest,
  Allowed,       \* the payment methods of this instance
  MaxAnnounced,  \* bound on the webhooks that the provider sends unasked
  MaxCrashes  \* bound on requests that die on the way

Kinds == {"PAYMENT_CREATED", "PAYMENT_CONFIRMED", "PAYMENT_OVERDUE",
          "PAYMENT_REFUND_IN_PROGRESS", "PAYMENT_REFUND_DENIED", "PAYMENT_REFUNDED",
          "PAYMENT_CHARGEBACK_REQUESTED", "SUBSCRIPTION_DELETED", "SUBSCRIPTION_UPDATED"}
Methods == {"credit_card", "pix", "pix_automatic"}

ASSUME RefundAssumption ==
  /\ NoRequest \notin Requests
  /\ Allowed \subseteq Methods
  /\ MaxAnnounced \in Nat
  /\ MaxCrashes \in Nat

VARIABLES
  status,      \* commercial_subscriptions.status
  refund,      \* commercial_subscriptions.refund_status
  access,      \* access_until: over, at the end of a paid period, or behind it
  payRef,      \* billing_checkouts.provider_payment_id is known
  lock,        \* the request that holds the advisory lock of the business
  pc, kind, seen,
  answer,      \* what payment_details told a request of the refund
  method,      \* commercial_subscriptions.payment_method
  recurrence,  \* at the provider: further charges, "none" for a common Pix
  money,       \* at the provider: state of the refund of the first payment
  inFlight,    \* webhooks, by kind, that are not marked processed
  announced,   \* number of those sent unasked
  disputed,    \* the customer has asked for a chargeback
  alerted,     \* the panel's alert of the first payment's delay exists (unique key)
  calls,       \* (history) calls of refund_payment
  reopened,    \* (history) a webhook revived an ended subscription
  overlapped,  \* (history) a refund was resumed while another request was at it
  crashes

rowVars      == <<status, refund, access, payRef>>
requestVars  == <<pc, kind, seen, answer>>
providerVars == <<recurrence, money, inFlight, announced, disputed>>
fixedVars    == <<method, alerted>>
historyVars  == <<calls, reopened, overlapped>>
vars == <<rowVars, lock, requestVars, providerVars, fixedVars, historyVars, crashes>>

Statuses == {"active", "past_due", "canceled", "suspended"}
Refunds  == {"none", "requested", "reconcile_required", "refunded"}
\* "none": no refund entry; "pending" stands for PENDING and
\* AWAITING_CRITICAL_ACTION_AUTHORIZATION, "short" for CANCELLED and a part.
Money    == {"none", "pending", "short", "done"}
Ended    == {"canceled", "suspended"}
Access   == {"ended", "paid", "unpaid"}
Row      == [status : Statuses, refund : Refunds, access : Access, payRef : BOOLEAN]
\* A session that has loaded nothing, or is closed.
Unread   == [status |-> "active", refund |-> "none", access |-> "paid", payRef |-> FALSE]

TypeOK ==
  /\ status \in Statuses /\ refund \in Refunds
  /\ access \in Access /\ payRef \in BOOLEAN
  /\ method \in Methods /\ alerted \in BOOLEAN
  /\ lock \in Requests \cup {NoRequest}
  /\ pc \in [Requests -> {"new", "intent", "resume", "cancel", "mark", "submit",
                          "failed", "report", "update", "done"}]
  /\ kind \in [Requests -> {"look", "cancel", "request", "resume"}]
  /\ seen \in [Requests -> Row]
  /\ answer \in [Requests -> Money]
  /\ recurrence \in {"on", "off", "none"} /\ money \in Money
  /\ inFlight \in SUBSET Kinds /\ announced \in Nat /\ disputed \in BOOLEAN
  /\ calls \in Nat /\ crashes \in Nat
  /\ reopened \in BOOLEAN /\ overlapped \in BOOLEAN

\* The checkout is paid and activated; whether its payment is known depends on
\* the events that came before.
Init ==
  /\ status = "active" /\ refund = "none" /\ access = "paid"
  /\ payRef \in BOOLEAN
  /\ lock = NoRequest
  /\ pc = [r \in Requests |-> "new"]
  /\ kind = [r \in Requests |-> "look"]
  /\ seen = [r \in Requests |-> Unread]
  /\ answer = [r \in Requests |-> "none"]
  /\ method \in Allowed
  /\ recurrence = (IF method = "pix" THEN "none" ELSE "on")
  /\ money = "none"
  /\ inFlight = {} /\ announced = 0 /\ disputed = FALSE /\ alerted = FALSE
  /\ calls = 0 /\ reopened = FALSE /\ overlapped = FALSE
  /\ crashes = 0

-----------------------------------------------------------------------------
(* Sessions and the advisory lock.                                         *)

CurrentRow == [status |-> status, refund |-> refund, access |-> access, payRef |-> payRef]

\* Mutant: the advisory lock is not taken.
LockFreeUnlocked == lock \in Requests \cup {NoRequest}
LockFree == lock = NoRequest
\* A commit or the end of the session ends the transaction and its lock.
Released(r) == IF lock = r THEN NoRequest ELSE lock

\* The flush of an attribute: one that has the value it was loaded with is not written.
Flushed(loaded, new, stored) == IF new = loaded THEN stored ELSE new

\* r commits the row `new`.
Write(r, new) ==
  /\ status' = Flushed(seen[r].status, new.status, status)
  /\ refund' = Flushed(seen[r].refund, new.refund, refund)
  /\ access' = Flushed(seen[r].access, new.access, access)
  /\ payRef' = Flushed(seen[r].payRef, new.payRef, payRef)
  /\ lock' = Released(r)

Goto(r, label) == pc' = [pc EXCEPT ![r] = label]

Commit(r, new, label) ==
  /\ Write(r, new)
  /\ seen' = [seen EXCEPT ![r] = new]
  /\ Goto(r, label)
  /\ UNCHANGED <<kind, answer, providerVars, fixedVars, historyVars, crashes>>

\* The session is closed.
Forget(r) ==
  /\ Goto(r, "done")
  /\ seen' = [seen EXCEPT ![r] = Unread]
  /\ kind' = [kind EXCEPT ![r] = "look"]
  /\ answer' = [answer EXCEPT ![r] = "none"]

End(r) ==
  /\ Forget(r)
  /\ lock' = Released(r)
  /\ UNCHANGED <<rowVars, fixedVars, historyVars>>

\* r is on its way to call refund_payment.
AtRefund(r) ==
  /\ kind[r] \in {"request", "resume"}
  /\ pc[r] \in {"intent", "resume", "cancel", "mark", "submit"}

\* A row that was left at "reconcile_required" before the refund was submitted.
Resumable == refund = "reconcile_required" /\ status \notin Ended

-----------------------------------------------------------------------------
(* Requests of the panel.                                                  *)

Begin(r, k, label, holder) ==
  /\ seen' = [seen EXCEPT ![r] = CurrentRow]
  /\ kind' = [kind EXCEPT ![r] = k]
  /\ Goto(r, label)
  /\ lock' = holder
  /\ UNCHANGED <<rowVars, answer, providerVars, fixedVars, calls, reopened, crashes>>

\* _resume_refund_before_provider_submission: the payment must be known first.
BeginResume(r, holder) ==
  /\ Resumable
  /\ Begin(r, "resume", IF payRef THEN "cancel" ELSE "resume", holder)
  /\ overlapped' = (overlapped \/ \E q \in Requests \ {r} : AtRefund(q))

\* GET subscription: takes no lock, and yet resumes a refund.
BeginStatus(r) ==
  /\ pc[r] = "new"
  /\ \/ BeginResume(r, lock)
     \/ ~Resumable /\ Begin(r, "look", "report", lock) /\ UNCHANGED overlapped

\* POST refund-request.  Its first transaction ends with a commit or rollback,
\* except where it goes on to the report or resumes: these keep the lock.
BeginRequest(r) ==
  /\ pc[r] = "new" /\ LockFree
  /\ \/ BeginResume(r, r)
     \/ /\ refund = "reconcile_required" /\ ~Resumable
        /\ Begin(r, "look", "report", r) /\ UNCHANGED overlapped
     \/ /\ refund \in {"requested", "refunded"}
        /\ Begin(r, "look", "report", NoRequest) /\ UNCHANGED overlapped
     \/ /\ refund = "none" /\ status # "suspended"
        /\ Begin(r, "request", "intent", r) /\ UNCHANGED overlapped
     \* suspended, or the seven days are over
     \/ /\ refund = "none"
        /\ End(r) /\ UNCHANGED <<providerVars, crashes>>

\* POST cancel-request.  A recurrence is ended at the provider, after the
\* intention is committed; a common Pix is canceled in the same transaction.
BeginCancel(r) ==
  /\ pc[r] = "new" /\ LockFree
  /\ \/ status \in Ended /\ Begin(r, "cancel", "report", NoRequest)
     \/ status \notin Ended /\ method # "pix" /\ Begin(r, "cancel", "cancel", NoRequest)
     \/ status \notin Ended /\ method = "pix" /\ Begin(r, "cancel", "mark", r)
  /\ UNCHANGED overlapped

\* The refund is persisted as requested before the provider is told, or, when
\* the payment cannot be found, as one for later.
CommitIntent(r) ==
  /\ pc[r] = "intent"
  /\ \/ Commit(r, [seen[r] EXCEPT !.refund = "requested", !.payRef = TRUE], "cancel")
     \/ /\ ~seen[r].payRef
        /\ Commit(r, [seen[r] EXCEPT !.refund = "reconcile_required"], "report")

\* The payment of a resumed refund is looked up at the provider, or not found.
ResolvePayment(r) ==
  /\ pc[r] = "resume"
  /\ \/ Commit(r, [seen[r] EXCEPT !.payRef = TRUE], "cancel")
     \/ Commit(r, seen[r], "report")

\* A recurrence that is gone already counts as canceled (404).
CancelRecurrence(r) ==
  /\ pc[r] = "cancel"
  /\ recurrence' = (IF recurrence = "on" THEN "off" ELSE recurrence)
  /\ Goto(r, "mark")
  /\ UNCHANGED <<rowVars, lock, kind, seen, answer, money, inFlight, announced,
                 disputed, fixedVars, historyVars, crashes>>

\* A request whose recurrence could not be ended: only the first one records it.
\* Mutants: the failure is ignored; it is not recorded.
AfterFailureIgnored(k) == "mark"
AfterFailureUnrecorded(k) == "report"
AfterFailure(k) == IF k = "request" THEN "failed" ELSE "report"

\* The provider refuses or its answer is lost.
CancelFails(r) ==
  /\ pc[r] = "cancel" /\ method # "pix"
  /\ recurrence' \in {recurrence, "off"}
  /\ \/ kind[r] = "cancel" /\ End(r)
     \/ /\ kind[r] # "cancel"
        /\ Goto(r, AfterFailure(kind[r]))
        /\ UNCHANGED <<rowVars, lock, kind, seen, answer, fixedVars, historyVars>>
  /\ UNCHANGED <<money, inFlight, announced, disputed, crashes>>

\* The one-way boundary: canceled, before the refund is submitted.
MarkCanceled(r) ==
  /\ pc[r] = "mark"
  /\ Commit(r, [seen[r] EXCEPT !.status = "canceled",
                  !.refund = IF kind[r] = "resume" THEN "requested" ELSE @],
            IF kind[r] = "cancel" THEN "report" ELSE "submit")

Send(k) == inFlight' = inFlight \cup {k}

\* refund_payment is accepted, and its response may be lost; or it is refused.
SubmitRefund(r) ==
  /\ pc[r] = "submit"
  /\ calls' = calls + 1
  /\ \/ /\ money \in {"none", "short"} /\ money' = "pending"
        /\ Send("PAYMENT_REFUND_IN_PROGRESS")
        /\ \E label \in {"report", "failed"} : Goto(r, label)
     \/ Goto(r, "failed") /\ UNCHANGED <<money, inFlight>>
  /\ UNCHANGED <<rowVars, lock, kind, seen, answer, recurrence, announced,
                 disputed, fixedVars, reopened, overlapped, crashes>>

\* The outcome at the provider is uncertain.
MarkUncertain(r) ==
  /\ pc[r] = "failed"
  /\ Commit(r, [seen[r] EXCEPT !.refund = "reconcile_required"], "report")

\* The checkout is in the session of a request that has worked on the refund.
PaymentKnown(r) == IF kind[r] \in {"request", "resume"} THEN seen[r].payRef ELSE payRef

\* _reconcile_provider_refund asks the provider for the refund.
AskProvider(r) ==
  /\ pc[r] = "report"
  /\ seen[r].refund \in {"requested", "reconcile_required"} /\ PaymentKnown(r)
  /\ money # "none"
  /\ answer' = [answer EXCEPT ![r] = money]
  /\ Goto(r, "update")
  /\ UNCHANGED <<rowVars, lock, kind, seen, providerVars, fixedVars, historyVars, crashes>>

\* Nothing to ask, no answer, or no entry of a refund.
EndReport(r) ==
  /\ pc[r] = "report" /\ End(r)
  /\ UNCHANGED <<providerVars, crashes>>

\* The row after the provider's answer.  Mutants: the status of the refund gets
\* into the subscription; a pending refund counts as completed; a refund that
\* fell short suspends the business.
ReportedRowSwapped(row, outcome) ==
  IF outcome = "done" THEN [row EXCEPT !.status = "refunded", !.access = "ended"] ELSE row
ReportedRowEarly(row, outcome) ==
  IF outcome \in {"done", "pending"}
  THEN [row EXCEPT !.refund = "refunded", !.status = "suspended", !.access = "ended"]
  ELSE [row EXCEPT !.refund = "reconcile_required"]
ReportedRowSuspends(row, outcome) ==
  IF outcome = "pending" THEN [row EXCEPT !.refund = "requested"]
  ELSE [row EXCEPT !.refund = IF outcome = "done" THEN "refunded" ELSE "reconcile_required",
                   !.status = "suspended", !.access = "ended"]
ReportedRow(row, outcome) ==
  CASE outcome = "done" ->
         [row EXCEPT !.refund = "refunded", !.status = "suspended", !.access = "ended"]
    [] outcome = "pending" -> [row EXCEPT !.refund = "requested"]
    [] OTHER -> [row EXCEPT !.refund = "reconcile_required"]

UpdateFromProvider(r) ==
  /\ pc[r] = "update"
  /\ Write(r, ReportedRow(seen[r], answer[r]))
  /\ Forget(r)
  /\ UNCHANGED <<providerVars, fixedVars, historyVars, crashes>>

\* The process dies, or the connection to the database does.
Crash(r) ==
  /\ pc[r] \notin {"new", "done"} /\ crashes < MaxCrashes
  /\ crashes' = crashes + 1
  /\ End(r)
  /\ UNCHANGED providerVars

Request(r) ==
  \/ BeginStatus(r) \/ BeginRequest(r) \/ BeginCancel(r)
  \/ CommitIntent(r) \/ ResolvePayment(r)
  \/ CancelRecurrence(r) \/ CancelFails(r) \/ MarkCanceled(r)
  \/ SubmitRefund(r) \/ MarkUncertain(r)
  \/ AskProvider(r) \/ EndReport(r) \/ UpdateFromProvider(r)
  \/ Crash(r)

-----------------------------------------------------------------------------
(* Webhooks: process() records, applies and marks an event in a commit     *)
(* each.  One that is not marked, because the handler died or another      *)
(* delivery overtook it, comes again and is applied again.  The mark has no *)
(* effect on the rows, so it is taken with the last application.           *)

PaymentKinds == Kinds \ {"SUBSCRIPTION_DELETED", "SUBSCRIPTION_UPDATED"}

\* _capture_credit_card_checkout_refs finds the checkout of a card by any event
\* of a payment, and _activate_credit_card_subscription_if_ready then revives
\* the subscription for a full cycle from now, before the event is looked at.
Reactivates(k) == method = "credit_card" /\ k \in PaymentKinds

\* This and the capture of a Pix payment take the advisory lock.
WaitsForLock(k) == Reactivates(k) \/ k = "PAYMENT_CONFIRMED"

SetRow(s, f, a) == status' = s /\ refund' = f /\ access' = a

\* apply_payment_event and apply_subscription_event.
Effect(k) ==
  LET s == IF Reactivates(k) THEN "active" ELSE status
      a == IF Reactivates(k) THEN "unpaid" ELSE access
  IN
  CASE k = "PAYMENT_CREATED" ->
         SetRow(s, refund, a) /\ UNCHANGED <<payRef, alerted>>
    [] k = "PAYMENT_CONFIRMED" ->
         \* of a renewal, or the second event of the first payment
         /\ \E until \in {"paid", a} \ {"ended"} : SetRow("active", refund, until)
         /\ payRef' \in {payRef, TRUE}
         /\ UNCHANGED alerted
    [] k = "PAYMENT_OVERDUE" ->
         \* a second alert of the first payment violates the unique key: nothing
         \* commits; the alert of a renewal has a key of its own
         /\ SetRow("past_due", refund, a)
         /\ \E renewal \in BOOLEAN :
              IF s = "past_due" \/ renewal
              THEN UNCHANGED alerted
              ELSE ~alerted /\ alerted' = TRUE
         /\ UNCHANGED payRef
    [] k \in {"PAYMENT_REFUND_IN_PROGRESS", "PAYMENT_REFUND_DENIED"} ->
         /\ SetRow(s, IF ~payRef THEN refund
                      ELSE IF k = "PAYMENT_REFUND_IN_PROGRESS" THEN "requested"
                      ELSE "reconcile_required", a)
         /\ UNCHANGED <<payRef, alerted>>
    [] k = "PAYMENT_REFUNDED" ->
         /\ SetRow("suspended", IF payRef THEN "refunded" ELSE refund, "ended")
         /\ UNCHANGED <<payRef, alerted>>
    [] k = "PAYMENT_CHARGEBACK_REQUESTED" ->
         SetRow("suspended", refund, "ended") /\ UNCHANGED <<payRef, alerted>>
    [] k = "SUBSCRIPTION_DELETED" ->
         SetRow("canceled", refund, access) /\ UNCHANGED <<payRef, alerted>>
    [] k = "SUBSCRIPTION_UPDATED" ->
         /\ SetRow(IF status \in {"suspended", "past_due"} THEN status ELSE "active",
                   refund, access)
         /\ UNCHANGED <<payRef, alerted>>

Apply(k) ==
  /\ k \in inFlight
  /\ WaitsForLock(k) => LockFree
  /\ Effect(k)
  /\ inFlight' \in {inFlight, inFlight \ {k}}
  /\ reopened' = (reopened \/ (status \in Ended /\ status' \notin Ended))
  /\ UNCHANGED <<lock, requestVars, method, recurrence, money, announced, disputed,
                 calls, overlapped, crashes>>

-----------------------------------------------------------------------------
(* The provider.                                                           *)

Unasked == {"PAYMENT_CREATED", "PAYMENT_CONFIRMED", "PAYMENT_OVERDUE",
            "PAYMENT_CHARGEBACK_REQUESTED", "SUBSCRIPTION_DELETED",
            "SUBSCRIPTION_UPDATED"}

\* Charges and changes of the subscription, and disputes.
Announce(k) ==
  /\ announced < MaxAnnounced /\ k \notin inFlight
  /\ k \in {"PAYMENT_CREATED", "PAYMENT_OVERDUE", "SUBSCRIPTION_UPDATED"} => recurrence = "on"
  /\ k = "SUBSCRIPTION_DELETED" => recurrence = "off"
  /\ k = "PAYMENT_CONFIRMED" => money = "none"
  /\ Send(k)
  /\ announced' = announced + 1
  /\ disputed' = (disputed \/ k = "PAYMENT_CHARGEBACK_REQUESTED")
  /\ UNCHANGED <<rowVars, lock, requestVars, recurrence, money, fixedVars, historyVars, crashes>>

\* Support may refund at the provider itself.
SupportRefunds ==
  /\ announced < MaxAnnounced /\ money \in {"none", "short"}
  /\ money' = "pending" /\ Send("PAYMENT_REFUND_IN_PROGRESS")
  /\ announced' = announced + 1
  /\ UNCHANGED <<rowVars, lock, requestVars, recurrence, disputed, fixedVars,
                 historyVars, crashes>>

RefundSettles ==
  /\ money = "pending"
  /\ \/ money' = "done" /\ Send("PAYMENT_REFUNDED")
     \/ money' = "short" /\ Send("PAYMENT_REFUND_DENIED")
  /\ UNCHANGED <<rowVars, lock, requestVars, recurrence, announced, disputed,
                 fixedVars, historyVars, crashes>>

Next ==
  \/ \E r \in Requests : Request(r)
  \/ \E k \in Kinds : Apply(k)
  \/ \E k \in Unasked : Announce(k)
  \/ SupportRefunds \/ RefundSettles

Spec == Init /\ [][Next]_vars

-----------------------------------------------------------------------------
(* Properties.                                                             *)

\* request_guarantee_refund, _resume_refund_before_provider_submission: a
\* refund is submitted once, unless two requests resume it at the same time or
\* a webhook revives the subscription that the first submission had ended.
SubmittedOnce == calls <= 1 \/ overlapped \/ reopened

\* The same without reserve ("From this point onward no user retry is allowed
\* to call refund again").
NeverSubmittedAgain == calls <= 1

\* request_guarantee_refund: whoever submits a refund has ended the recurrence
\* first, so that no customer is refunded and charged again.
ChargesStopFirst == calls > 0 => recurrence # "on"

\* apply_payment_event, _reconcile_provider_refund: the row says "refunded" only
\* when the provider has paid the money back.
RefundedIsReal == refund = "refunded" => money = "done"

\* Access that was paid for is taken away only by a completed refund or a
\* chargeback, whatever requests failed and webhooks were mixed up before.
AccessUntilRefund ==
  access = "ended" \/ status = "suspended" =>
    money = "done" \/ disputed

\* A canceled subscription keeps access only for what was paid ("conserva acesso
\* apenas ate o access_until ja pago"): no event but the confirmation of a
\* payment may have extended it before.
CanceledAccessIsPaid == status = "canceled" => access # "unpaid"

\* A refund that the row says is requested and that the provider does not know
\* of is still in the hands of a request, unless one has crashed.
RequestedHasWorker ==
  refund = "requested" /\ money = "none" =>
    \/ crashes > 0
    \/ \E r \in Requests : kind[r] \in {"request", "resume"}
                             /\ pc[r] \in {"cancel", "mark", "submit", "failed"}
=============================================================================

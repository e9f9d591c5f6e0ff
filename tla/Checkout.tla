------------------------------ MODULE Checkout ------------------------------
(***************************************************************************)
(* The purchases of one business, from the request of a checkout to the    *)
(* access it opens, against the payment provider (Asaas) and its webhooks. *)
(*                                                                         *)
(*   billing/service.py   create_checkout, pay_credit_card,                *)
(*                        checkout_status, cancel_checkout and what they   *)
(*                        call; activate_paid_checkout,                    *)
(*                        apply_payment_event,                             *)
(*                        apply_pix_authorization_event                    *)
(*   billing/webhooks.py  process, _checkout                               *)
(*                                                                         *)
(* A request of the panel holds the advisory lock of the business from its *)
(* start to its commit, across the call of the provider ("work"). Webhooks *)
(* and the poll of the panel load the row first ("seen"), take the lock    *)
(* only to grant access, and write only the attributes they change: three  *)
(* steps, Load, Decide and Commit. A webhook is redelivered until it is    *)
(* marked processed, and may be delivered twice.                           *)
(*                                                                         *)
(* Left out: plan, cycle and amounts (one offer), the WhatsApp connection  *)
(* required before a first purchase, administrative grants, renewals,      *)
(* overdue payments and refunds (GuaranteeRefund), the recurring common    *)
(* Pix of an earlier release.                                              *)
(***************************************************************************)
EXTENDS Integers, FiniteSets

CONSTANTS
    N,            \* bound: checkouts of the business, in the order of creation
    Choices,      \* the payment methods of the checkouts: the choices of this instance
    MaxHandlers,  \* bound, for each choice: webhooks and polls in progress at a time
    MaxFaults     \* bound: calls of the provider that fail, requests that die

Checkouts == 1..N
Methods == {"native", "hosted", "pix", "auto"}  \* card here, card at Asaas, Pix, Pix Automático
Card == {"native", "hosted"}
Statuses == {"none", "creating", "active", "paid", "expired", "canceled", "failed"}

ASSUME CheckoutAssumption ==
    /\ N \in Nat /\ MaxFaults \in Nat
    /\ Choices \subseteq [Checkouts -> Methods]
    /\ MaxHandlers \in [Choices -> Nat]

VARIABLES
    method,    \* the payment method of each checkout
    row,       \* billing_checkouts: status, paid_at, the references that are known
    access,    \* commercial_subscriptions of the checkout; "over": access_until has passed
    elapsed,   \* expires_at has passed
    work,      \* the request that holds the lock of the business
    handlers,  \* webhooks and polls in progress
    stage,     \* at the provider: the session, QR code or authorization
    charges,   \* at the provider: card subscriptions created for the checkout
    money,     \* at the provider: the first payment is confirmed
    events,    \* webhooks not marked processed
    faults,
    crashed,   \* history: a request of the panel died
    conflict   \* history: paid while another subscription was active

rowVars == <<row, access>>
providerVars == <<stage, charges, money, events>>
faultVars == <<faults, crashed>>
vars == <<method, rowVars, elapsed, work, handlers, providerVars, faultVars, conflict>>

\* sub: provider_subscription_id; ref: what the customer pays with (the session, the QR
\* code, the authorization)
Row == [status : Statuses, paid : BOOLEAN, sub : BOOLEAN, ref : BOOLEAN]
NoRow == [status |-> "none", paid |-> FALSE, sub |-> FALSE, ref |-> FALSE]
Stages == {"none", "open", "done", "over"}
Kinds == {"opened", "settled", "canceled", "expired",            \* CHECKOUT_*
          "charge", "payment",                                   \* PAYMENT_*
          "authorized", "activated", "revoked", "lapsed", "refused"}
                                            \* PIX_AUTOMATIC_RECURRING_AUTHORIZATION_*
Event == [on : Kinds, c : Checkouts]
AuthorizationKinds == {"authorized", "activated", "revoked", "lapsed", "refused"}

NoWork == [op |-> "none"]
Asking(op, c, retired) == [op |-> op, c |-> c, retired |-> retired, got |-> "nothing"]
LockFree == work = NoWork /\ \A h \in handlers : ~h.locked

Current(c) == access[c] \in {"active", "canceled"}
Send(S, c) == events' = events \cup {[on |-> k, c |-> c] : k \in S}
Fault == faults < MaxFaults /\ faults' = faults + 1 /\ UNCHANGED crashed

Init ==
    /\ method \in Choices
    /\ row = [c \in Checkouts |-> NoRow]
    /\ access = [c \in Checkouts |-> "none"]
    /\ elapsed = [c \in Checkouts |-> FALSE]
    /\ work = NoWork /\ handlers = {}
    /\ stage = [c \in Checkouts |-> "none"]
    /\ charges = [c \in Checkouts |-> 0]
    /\ money = [c \in Checkouts |-> FALSE]
    /\ events = {}
    /\ faults = 0 /\ crashed = FALSE
    /\ conflict = [c \in Checkouts |-> FALSE]

----------------------------------------------------------------------------
(***************************************************************************)
(* create_checkout. Only the newest checkout that blocks is looked at; an  *)
(* elapsed card session without a subscription, or an elapsed Pix, gives   *)
(* way. When the request reuses the checkout that blocks, or is refused,   *)
(* nothing changes.                                                        *)
(***************************************************************************)
Blocks(c) ==
    \/ row[c].status \in {"creating", "active"}
    \/ method[c] = "auto" /\ row[c].paid /\ row[c].status # "paid"
    \/ method[c] = "auto" /\ row[c].status = "expired" /\ row[c].ref

\* Fault for the mutation runs: an elapsed Pix Automático gives way, too.
GivesWayAuto(c) ==
    elapsed[c] /\ ~row[c].paid /\ (method[c] \in Card => ~row[c].sub)

GivesWay(c) ==
    /\ elapsed[c] /\ ~row[c].paid
    /\ method[c] = "pix" => row[c].ref
    /\ method[c] \in Card => ~row[c].sub
    /\ method[c] # "auto"
Newest(S) == {c \in S : \A d \in S : d <= c}
Next1 == {c \in Checkouts : row[c] = NoRow /\ \A d \in Checkouts : d < c => row[d] # NoRow}

Retired(r, S) == [c \in Checkouts |-> IF c \in S THEN [r[c] EXCEPT !.status = "expired"] ELSE r[c]]

BeginCreate ==
    /\ LockFree
    /\ \A c \in Checkouts : ~Current(c)
    /\ LET retired == Newest({c \in Checkouts : Blocks(c)})
       IN  /\ \A b \in retired : GivesWay(b)
           /\ \E c \in Next1 :
                 IF method[c] = "native"
                 THEN /\ row' = [Retired(row, retired) EXCEPT ![c].status = "active"]
                      /\ UNCHANGED work
                 ELSE /\ work' = Asking("create", c, retired)
                      /\ UNCHANGED row
    /\ UNCHANGED <<method, access, elapsed, handlers, providerVars, faultVars, conflict>>

\* The same idempotency key again: an unpaid Pix that has elapsed is closed.
RepeatCreate ==
    /\ LockFree
    /\ \E c \in Checkouts :
          /\ method[c] = "pix" /\ row[c].status = "active" /\ elapsed[c] /\ ~row[c].paid
          /\ row' = [row EXCEPT ![c].status = "expired"]
    /\ UNCHANGED <<method, access, elapsed, work, handlers, providerVars, faultVars, conflict>>

\* The provider's part: it answers, or it fails with or without having done it.
ProviderOpens ==
    /\ work.op = "create" /\ work.got = "nothing"
    /\ LET c == work.c
           opens == /\ stage' = [stage EXCEPT ![c] = "open"]
                    /\ Send([native |-> {}, hosted |-> {"opened"}, pix |-> {},
                             auto |-> {"authorized"}][method[c]], c)
       IN  \/ /\ opens /\ work' = [work EXCEPT !.got = "answer"] /\ UNCHANGED faultVars
           \/ /\ Fault
              /\ \/ opens /\ work' = [work EXCEPT !.got = "timeout"]
                 \/ /\ work' \in {[work EXCEPT !.got = g] : g \in {"timeout", "refusal"}}
                    /\ UNCHANGED <<stage, events>>
    /\ UNCHANGED <<method, rowVars, elapsed, handlers, charges, money, conflict>>

EndCreate ==
    /\ work.op = "create" /\ work.got # "nothing"
    /\ LET c == work.c
           made == CASE work.got = "answer" ->
                           [NoRow EXCEPT !.status = "active", !.ref = TRUE,
                                         !.sub = (method[c] = "auto")]
                     [] work.got = "timeout" /\ method[c] = "auto" ->
                           [NoRow EXCEPT !.status = "creating"]
                     [] OTHER -> [NoRow EXCEPT !.status = "failed"]
       IN  row' = [Retired(row, work.retired) EXCEPT ![c] = made]
    /\ work' = NoWork
    /\ UNCHANGED <<method, access, elapsed, handlers, providerVars, faultVars, conflict>>

\* The request dies, or the connection is lost: nothing was committed.
WorkDies ==
    /\ work # NoWork /\ faults < MaxFaults
    /\ faults' = faults + 1 /\ crashed' = TRUE
    /\ work' = NoWork
    /\ UNCHANGED <<method, rowVars, elapsed, handlers, providerVars, conflict>>

----------------------------------------------------------------------------
(***************************************************************************)
(* pay_credit_card. A checkout whose outcome is uncertain ("creating") is  *)
(* only reconciled by its externalReference, never charged again.          *)
(***************************************************************************)
\* Fault for the mutation runs: an uncertain attempt is repeated.
ChargeableTwice(c) == row[c].status \in {"creating", "active"}

Payable(c) ==
    /\ method[c] = "native" /\ row[c].status \in {"creating", "active"}
    /\ \A d \in Checkouts : Current(d) => d = c
    /\ ~elapsed[c] /\ ~row[c].sub
Chargeable(c) == row[c].status = "active"

\* _reconcile_native_payment runs after the commit, without the lock, with the row in memory.
Reconcile(c, r) == [on |-> "reconcile", c |-> c, seen |-> r, locked |-> FALSE, grant |-> "none"]
Bound(c) ==
    LET r == [row[c] EXCEPT !.status = "active", !.sub = TRUE]
    IN  /\ row' = [row EXCEPT ![c] = r]
        /\ handlers' = handlers \cup {Reconcile(c, r)}

BeginPay ==
    /\ LockFree
    /\ \E c \in Checkouts : Payable(c) /\ Chargeable(c) /\ work' = Asking("pay", c, {})
    /\ UNCHANGED <<method, rowVars, elapsed, handlers, providerVars, faultVars, conflict>>

ProviderCharges ==
    /\ work.op = "pay" /\ work.got = "nothing"
    /\ LET c == work.c
           charged == /\ charges' = [charges EXCEPT ![c] = @ + 1]
                      /\ Send({"charge"}, c)
       IN  \/ charged /\ work' = [work EXCEPT !.got = "answer"] /\ UNCHANGED faultVars
           \/ work' = NoWork /\ UNCHANGED <<charges, events, faultVars>>      \* declined
           \/ /\ Fault /\ work' = [work EXCEPT !.got = "timeout"]
              /\ charged \/ UNCHANGED <<charges, events>>
    /\ UNCHANGED <<method, rowVars, elapsed, handlers, stage, money, conflict>>

\* After a timeout the subscription is searched for; the search may fail as well.
EndPay ==
    /\ work.op = "pay" /\ work.got # "nothing"
    /\ LET c == work.c
       IN  \/ charges[c] > 0 /\ Bound(c)
           \/ /\ work.got = "timeout"
              /\ row' = [row EXCEPT ![c].status = "creating"]
              /\ UNCHANGED handlers
    /\ work' = NoWork
    /\ UNCHANGED <<method, access, elapsed, providerVars, faultVars, conflict>>

RetryPay ==
    /\ LockFree
    /\ \E c \in Checkouts :
          Payable(c) /\ row[c].status = "creating" /\ charges[c] > 0 /\ Bound(c)
    /\ UNCHANGED <<method, access, elapsed, work, providerVars, faultVars, conflict>>

PayTooLate ==
    /\ LockFree
    /\ \E c \in Checkouts :
          /\ method[c] = "native" /\ elapsed[c] /\ \A d \in Checkouts : Current(d) => d = c
          /\ row[c].status \notin {"none", "creating", "paid"}
          /\ row' = [row EXCEPT ![c].status = "expired"]
    /\ UNCHANGED <<method, access, elapsed, work, handlers, providerVars, faultVars, conflict>>

----------------------------------------------------------------------------
(***************************************************************************)
(* cancel_checkout: of a Pix that is not paid. The provider deletes the QR *)
(* code or cancels the authorization; without a reference nothing is asked.*)
(***************************************************************************)
BeginCancel ==
    /\ LockFree
    /\ \E c \in Checkouts :
          /\ method[c] \notin Card /\ ~row[c].paid
          /\ row[c].status \notin {"none", "paid", "canceled", "failed"}
          /\ work' = [Asking("cancel", c, {}) EXCEPT
                         !.got = IF row[c].ref THEN "nothing" ELSE "answer"]
    /\ UNCHANGED <<method, rowVars, elapsed, handlers, providerVars, faultVars, conflict>>

ProviderCancels ==
    /\ work.op = "cancel" /\ work.got = "nothing"
    /\ LET c == work.c
       IN  \/ /\ work' = [work EXCEPT !.got = "answer"]
              /\ stage' = [stage EXCEPT ![c] = "over"]
              /\ Send(IF method[c] = "auto" /\ stage[c] # "over" THEN {"revoked"} ELSE {}, c)
           \/ work' = NoWork /\ UNCHANGED <<stage, events>>          \* refused, or no answer
    /\ UNCHANGED <<method, rowVars, elapsed, handlers, charges, money, faultVars, conflict>>

EndCancel ==
    /\ work.op = "cancel" /\ work.got = "answer"
    /\ row' = [row EXCEPT ![work.c].status = "canceled"]
    /\ work' = NoWork
    /\ UNCHANGED <<method, access, elapsed, handlers, providerVars, faultVars, conflict>>

----------------------------------------------------------------------------
(***************************************************************************)
(* Webhooks and polls. What a handler knows of the row is what it loaded;  *)
(* the payment of a Pix loads it again under the lock.                     *)
(***************************************************************************)
Found(e) ==
    CASE e.on \in AuthorizationKinds -> row[e.c] # NoRow     \* by contractId
      [] method[e.c] = "native" -> row[e.c].sub
      [] OTHER -> row[e.c].ref

Handler(e) == [on |-> e.on, c |-> e.c, seen |-> row[e.c], locked |-> FALSE, grant |-> "none"]
Load ==
    /\ Cardinality(handlers) < MaxHandlers[method]
    /\ \/ \E e \in events : Found(e) /\ handlers' = handlers \cup {Handler(e)}
       \/ \E c \in Checkouts :
             /\ row[c].status = "active" /\ elapsed[c] /\ ~row[c].paid
             /\ method[c] \in Card \/ (method[c] = "pix" /\ row[c].ref)
             /\ handlers' = handlers \cup {Handler([on |-> "look", c |-> c])}
    /\ UNCHANGED <<method, rowVars, elapsed, work, providerVars, faultVars, conflict>>

\* A webhook about a checkout that is not known yet is marked processed.
Unknown ==
    /\ \E e \in events : ~Found(e) /\ events' = events \ {e}
    /\ UNCHANGED <<method, rowVars, elapsed, work, handlers, stage, charges, money,
                   faultVars, conflict>>

Paid(r) == [r EXCEPT !.status = "paid", !.paid = TRUE]

\* Faults for the mutation runs: the payment of a closed Pix is not recorded; the
\* provider's own word is stored.
PixPaidActive(r) == IF r.status = "active" THEN Paid(r) ELSE r
PixPaidRaw(r) == [Paid(r) EXCEPT !.status = "confirmed"]

PixPaid(r) == Paid(r)
Unless(r, s) == IF r.status = "paid" THEN r ELSE [r EXCEPT !.status = s]
Updated(h, r) ==
    CASE h.on = "opened" -> [r EXCEPT !.status = "active"]
      [] h.on \in {"settled", "reconcile"} -> Paid(r)
      [] h.on \in {"canceled", "expired"} -> [r EXCEPT !.status = h.on]
      [] h.on = "charge" -> IF method[h.c] \in Card THEN [r EXCEPT !.sub = TRUE] ELSE r
      [] h.on = "payment" ->
            [hosted |-> [r EXCEPT !.sub = TRUE], native |-> Paid([r EXCEPT !.sub = TRUE]),
             pix |-> PixPaid(r), auto |-> [r EXCEPT !.paid = TRUE]][method[h.c]]
      [] h.on = "look" -> [r EXCEPT !.status = "expired"]
      [] h.on = "authorized" -> [r EXCEPT !.status = "active", !.ref = TRUE, !.sub = TRUE]
      [] h.on = "activated" -> [Paid(r) EXCEPT !.ref = TRUE, !.sub = TRUE]
      [] OTHER -> [Unless(r, [revoked |-> "canceled", lapsed |-> "expired",
                              refused |-> "failed"][h.on]) EXCEPT !.ref = TRUE]

Written(now, seen, new) ==
    [f \in DOMAIN now |-> IF new[f] # seen[f] THEN new[f] ELSE now[f]]

\* Fault for the mutation runs: access opens with the reference, before the payment.
GrantsUnpaid(h, r) ==
    CASE method[h.c] \in Card -> h.on \in {"settled", "charge", "payment", "reconcile"} /\ r.sub
      [] method[h.c] = "pix" -> h.on = "payment" /\ r.status = "paid"
      [] OTHER -> h.on = "activated" /\ r.status = "paid"

\* _activate_..._if_ready
Grants(h, r) ==
    /\ r.status = "paid"
    /\ CASE method[h.c] \in Card -> h.on \in {"settled", "charge", "payment", "reconcile"} /\ r.sub
         [] method[h.c] = "pix" -> h.on = "payment"
         [] OTHER -> h.on = "activated"

TakesLock(h) ==
    \/ method[h.c] = "auto" /\ h.on # "charge"
    \/ method[h.c] = "pix" /\ h.on = "payment"
    \/ Grants(h, Updated(h, h.seen))

\* Fault for the mutation runs: the lock of the business is not waited for.
MayLockAnyway == TRUE

MayLock == LockFree


\* The row as the handler has it once it holds the lock (populate_existing).
Refreshed(h) ==
    IF h.on = "payment" /\ method[h.c] \notin Card THEN [h EXCEPT !.seen = row[h.c]] ELSE h

Decide ==
    /\ \E h \in handlers :
          LET g == Refreshed(h)
              grant == IF ~Grants(g, Updated(g, g.seen)) THEN "nothing"
                       ELSE IF access[h.c] # "none" THEN "renew"
                       ELSE IF \E d \in Checkouts : Current(d) THEN "refuse" ELSE "open"
          IN  /\ h.grant = "none" /\ TakesLock(h)
              /\ h.on = "reconcile" => money[h.c]
              /\ MayLock
              /\ handlers' = (handlers \ {h}) \cup {[g EXCEPT !.locked = TRUE, !.grant = grant]}
    /\ UNCHANGED <<method, rowVars, elapsed, work, providerVars, faultVars, conflict>>

\* A confirmed payment of a subscription that exists makes it active; the end of the
\* authorization cancels it.
NewAccess(h) ==
    CASE h.grant \in {"open", "renew"} -> "active"
      [] h.on = "payment" /\ access[h.c] # "none" -> "active"
      [] h.on \in {"revoked", "lapsed"} /\ access[h.c] = "active" -> "canceled"
      [] OTHER -> access[h.c]

\* The webhook is marked processed, or is delivered once more.
Commit ==
    /\ \E h \in handlers :
          /\ TakesLock(h) => h.grant # "none"
          /\ h.on = "reconcile" => h.grant # "none"
          /\ row' = [row EXCEPT ![h.c] = Written(@, h.seen, Updated(h, h.seen))]
          /\ access' = [access EXCEPT ![h.c] = NewAccess(h)]
          /\ conflict' = [conflict EXCEPT ![h.c] = @ \/ h.grant = "refuse"]
          /\ handlers' = handlers \ {h}
          /\ \/ events' = events \ {[on |-> h.on, c |-> h.c]}
             \/ UNCHANGED events
    /\ UNCHANGED <<method, elapsed, work, stage, charges, money, faultVars>>

\* A handler that dies leaves its webhook to be delivered again; a query that fails, or
\* finds nothing, ends the reconciliation.
HandlerDies ==
    /\ \E h \in handlers :
          /\ handlers' = handlers \ {h}
          /\ IF h.on = "reconcile" /\ money[h.c] THEN Fault ELSE UNCHANGED faultVars
    /\ UNCHANGED <<method, rowVars, elapsed, work, providerVars, conflict>>

----------------------------------------------------------------------------
(***************************************************************************)
(* The provider, the customer and the clock.                               *)
(***************************************************************************)
Pays ==
    /\ \E c \in Checkouts :
          /\ ~money[c] /\ money' = [money EXCEPT ![c] = TRUE]
          /\ CASE method[c] = "native" ->
                     charges[c] > 0 /\ Send({"payment"}, c) /\ UNCHANGED stage
               [] method[c] = "hosted" ->
                     /\ stage[c] = "open" /\ row[c].ref
                     /\ Send({"settled", "payment"}, c)
                     /\ stage' = [stage EXCEPT ![c] = "done"]
               [] method[c] = "pix" ->
                     /\ stage[c] = "open" /\ row[c].ref /\ ~elapsed[c]
                     /\ Send({"payment"}, c)
                     /\ stage' = [stage EXCEPT ![c] = "done"]
               [] OTHER ->
                     /\ stage[c] = "open" /\ row[c].ref /\ ~elapsed[c]
                     /\ Send({"payment"}, c) /\ UNCHANGED stage
    /\ UNCHANGED <<method, rowVars, elapsed, work, handlers, charges, faultVars, conflict>>

\* The session of a card outlives expires_at; an authorization is settled by the banks.
StageEnds ==
    /\ \E c \in Checkouts :
          \/ /\ method[c] = "hosted" /\ stage[c] = "open"
             /\ Send(IF elapsed[c] THEN {"expired"} ELSE {"canceled"}, c)
             /\ stage' = [stage EXCEPT ![c] = "over"]
          \/ /\ method[c] = "auto" /\ stage[c] = "open" /\ money[c]
             /\ \/ Send({"activated"}, c) /\ stage' = [stage EXCEPT ![c] = "done"]
                \/ Send({"refused"}, c) /\ stage' = [stage EXCEPT ![c] = "over"]
          \/ /\ method[c] = "auto" /\ stage[c] = "open" /\ ~money[c] /\ elapsed[c]
             /\ Send({"lapsed"}, c) /\ stage' = [stage EXCEPT ![c] = "over"]
          \/ /\ method[c] = "auto" /\ stage[c] = "done"
             /\ Send({"revoked"}, c) /\ stage' = [stage EXCEPT ![c] = "over"]
    /\ UNCHANGED <<method, rowVars, elapsed, work, handlers, charges, money, faultVars, conflict>>

Elapse ==
    /\ \E c \in Checkouts :
          /\ row[c] # NoRow /\ ~elapsed[c]
          /\ elapsed' = [elapsed EXCEPT ![c] = TRUE]
    /\ UNCHANGED <<method, rowVars, work, handlers, providerVars, faultVars, conflict>>

\* The deliveries of a first payment end long before the period it pays.
AccessEnds ==
    /\ \E c \in Checkouts :
          /\ Current(c)
          /\ \A e \in events : e.c # c
          /\ \A h \in handlers : h.c # c
          /\ access' = [access EXCEPT ![c] = "over"]
    /\ UNCHANGED <<method, row, elapsed, work, handlers, providerVars, faultVars, conflict>>

----------------------------------------------------------------------------
Panel == \/ BeginCreate \/ RepeatCreate \/ ProviderOpens \/ EndCreate
         \/ BeginPay \/ ProviderCharges \/ EndPay \/ RetryPay \/ PayTooLate
         \/ BeginCancel \/ ProviderCancels \/ EndCancel \/ WorkDies
Webhooks == Load \/ Unknown \/ Decide \/ Commit \/ HandlerDies
Outside == Pays \/ StageEnds \/ Elapse \/ AccessEnds

Next == Panel \/ Webhooks \/ Outside
Spec == Init /\ [][Next]_vars

----------------------------------------------------------------------------
HandlerRecord == [on : Kinds \cup {"look", "reconcile"}, c : Checkouts, seen : Row,
                  locked : BOOLEAN, grant : {"none", "nothing", "renew", "refuse", "open"}]
Works == {NoWork} \cup [op : {"create", "pay", "cancel"}, c : Checkouts,
                        retired : SUBSET Checkouts,
                        got : {"nothing", "answer", "timeout", "refusal"}]

(***************************************************************************)
(* Every variable has its type.                                            *)
(***************************************************************************)
TypeOK ==
    /\ method \in Choices
    /\ row \in [Checkouts -> Row]
    /\ access \in [Checkouts -> {"none", "active", "canceled", "over"}]
    /\ elapsed \in [Checkouts -> BOOLEAN]
    /\ work \in Works
    /\ handlers \subseteq HandlerRecord
    /\ stage \in [Checkouts -> Stages]
    /\ charges \in [Checkouts -> Nat]
    /\ money \in [Checkouts -> BOOLEAN]
    /\ events \subseteq Event
    /\ faults \in Nat /\ crashed \in BOOLEAN
    /\ conflict \in [Checkouts -> BOOLEAN]

(***************************************************************************)
(* At most one subscription of the business gives access at a time,        *)
(* however the webhooks of two checkouts interleave: the lock is held from *)
(* the look at the other subscriptions to the commit.                      *)
(***************************************************************************)
OneSubscription == \A c, d \in Checkouts : Current(c) /\ Current(d) => c = d

(***************************************************************************)
(* Nobody has access whose first payment the provider has not confirmed,   *)
(* in whatever order CHECKOUT_PAID, PAYMENT_CREATED, PAYMENT_CONFIRMED and *)
(* the events of the authorization arrive.                                 *)
(***************************************************************************)
AccessIsPaid == \A c \in Checkouts : access[c] # "none" => money[c]

(***************************************************************************)
(* A card checkout is charged at most once, however often the customer     *)
(* presses the button and whatever the provider's answers (unless a        *)
(* request died before it could remember that it had asked).               *)
(***************************************************************************)
ChargedOnce == ~crashed => \A c \in Checkouts : charges[c] <= 1

(***************************************************************************)
(* No confirmed payment is lost: when nothing of a checkout is in progress *)
(* and no call has failed, its payment has opened the access, or met       *)
(* another subscription; also when the checkout was canceled, or had       *)
(* elapsed, by the time the webhook came. (Not the session at Asaas: see   *)
(* SessionIsServed; and a Pix Automático counts once it is authorized.)    *)
(***************************************************************************)
Settled(c) ==
    /\ work = NoWork /\ faults = 0
    /\ \A e \in events : e.c # c
    /\ \A h \in handlers : h.c # c
Served(c) == access[c] # "none" \/ conflict[c]
PaidIsServed ==
    \A c \in Checkouts : method[c] # "hosted" /\ money[c] /\ Settled(c)
        /\ (method[c] = "auto" => stage[c] = "done") => Served(c)

(***************************************************************************)
(* The customer never has two Pix to pay for one business: before another  *)
(* checkout is opened the earlier QR code has elapsed, is paid, or was     *)
(* canceled; and an authorization has ended at the provider, for which its *)
(* elapsed QR code is no proof.                                            *)
(***************************************************************************)
Open(c) == /\ method[c] \in {"pix", "auto"} /\ stage[c] = "open" /\ row[c].ref
           /\ method[c] = "pix" => ~elapsed[c]
OneOpenPix == faults = 0 => \A c, d \in Checkouts : Open(c) /\ Open(d) => c = d

(***************************************************************************)
(* "Em caso de timeout do provedor, a integração tenta reconciliar a       *)
(* assinatura pelo externalReference antes de permitir qualquer nova       *)
(* tentativa" (docs/commercial_plans.md): no card is charged while an      *)
(* earlier charge of the business is not known here.                       *)
(***************************************************************************)
ChargedAfterReconciling ==
    [][\A c, d \in Checkouts : c # d /\ charges'[d] > charges[d] /\ ~crashed
           => (charges[c] > 0 => row[c].sub)]_vars

(***************************************************************************)
(* A session at Asaas that was paid opens the access, too.                 *)
(***************************************************************************)
SessionIsServed ==
    \A c \in Checkouts : method[c] = "hosted" /\ money[c] /\ Settled(c) => Served(c)
=============================================================================

----------------------- MODULE GuaranteeRefundProofs -----------------------
(***************************************************************************)
(* Theorems about GuaranteeRefund for any number of requests, webhooks and *)
(* crashes.                                                                *)
(*                                                                         *)
(* None of the properties is inductive, because a request writes what it   *)
(* remembers of the row.  Four invariants say more:                        *)
(*                                                                         *)
(*   ProviderInv  also the remembered rows and the webhooks under way are  *)
(*                true of the provider (RefundsAreReal, AccessKept)        *)
(*   ChargesInv   whoever has passed the end of the recurrence may rely on *)
(*                it (ChargesStopped)                                      *)
(*   EndedInv, IntentInv, OnceInv  the lock keeps a second intent out, a   *)
(*                recorded refund later ones, and an ended subscription a  *)
(*                resumption (SubmittedAtMostOnce)                         *)
(*   WorkerInv    the refund of the row has an owner who remembers it      *)
(*                (PromisedIsPursued)                                      *)
(***************************************************************************)
EXTENDS GuaranteeRefund, TLAPS

-----------------------------------------------------------------------------
(* Types.                                                                  *)

\* The row of the subscription and the lock.
RowTyped ==
  /\ status \in Statuses /\ refund \in Refunds
  /\ access \in Access /\ payRef \in BOOLEAN
  /\ lock \in Requests \cup {NoRequest}

\* The requests of the panel.
RequestsTyped ==
  /\ pc \in [Requests -> {"new", "intent", "resume", "cancel", "mark", "submit",
                          "failed", "report", "update", "done"}]
  /\ kind \in [Requests -> {"look", "cancel", "request", "resume"}]
  /\ seen \in [Requests -> Row]
  /\ answer \in [Requests -> Money]

\* The provider, the history and the counters.
WorldTyped ==
  /\ method \in Methods /\ alerted \in BOOLEAN
  /\ recurrence \in {"on", "off", "none"} /\ money \in Money
  /\ inFlight \in SUBSET Kinds /\ announced \in Nat /\ disputed \in BOOLEAN
  /\ calls \in Nat /\ crashes \in Nat
  /\ reopened \in BOOLEAN /\ overlapped \in BOOLEAN

LEMMA TypeParts == TypeOK <=> RowTyped /\ RequestsTyped /\ WorldTyped
  BY DEF TypeOK, RowTyped, RequestsTyped, WorldTyped

LEMMA TypePartsNext == TypeOK' <=> RowTyped' /\ RequestsTyped' /\ WorldTyped'
  BY DEF TypeOK, RowTyped, RequestsTyped, WorldTyped

\* What a request commits is a row.
LEMMA RowsTyped ==
  ASSUME NEW row \in Row
  PROVE  /\ row.status \in Statuses /\ row.refund \in Refunds
         /\ row.access \in Access /\ row.payRef \in BOOLEAN
         /\ [row EXCEPT !.refund = "requested", !.payRef = TRUE] \in Row
         /\ [row EXCEPT !.refund = "reconcile_required"] \in Row
         /\ [row EXCEPT !.payRef = TRUE] \in Row
         /\ \A k : [row EXCEPT !.status = "canceled",
                      !.refund = IF k = "resume" THEN "requested" ELSE @] \in Row
         /\ \A outcome : ReportedRow(row, outcome) \in Row
  BY DEF Row, Statuses, Refunds, Access, ReportedRow

LEMMA WriteTyped ==
  ASSUME RowTyped, RequestsTyped, NEW r \in Requests, NEW new \in Row, Write(r, new)
  PROVE  RowTyped'
<1>1. seen[r] \in Row
  BY DEF RequestsTyped
<1>2. Released(r) \in Requests \cup {NoRequest}
  BY DEF Released, RowTyped
<1> QED BY <1>1, <1>2, RowsTyped DEF Write, Flushed, RowTyped

LEMMA CommitTyped ==
  ASSUME TypeOK, NEW r \in Requests, NEW new \in Row, NEW label, Commit(r, new, label),
         label \in {"cancel", "report", "submit"}
  PROVE  TypeOK'
<1>1. RowTyped /\ RequestsTyped /\ WorldTyped
  BY TypeParts
<1>2. RowTyped'
  BY <1>1, WriteTyped DEF Commit
<1>3. RequestsTyped'
  BY <1>1 DEF Commit, Goto, RequestsTyped
<1>4. WorldTyped'
  BY <1>1 DEF Commit, WorldTyped, providerVars, fixedVars, historyVars
<1> QED BY <1>2, <1>3, <1>4, TypePartsNext

LEMMA BeginTyped ==
  ASSUME RowTyped, RequestsTyped, NEW r \in Requests, NEW k, NEW label, NEW holder,
         Begin(r, k, label, holder),
         k \in {"look", "cancel", "resume", "request"},
         label \in {"intent", "resume", "cancel", "mark", "report"},
         holder \in Requests \cup {NoRequest}
  PROVE  RowTyped' /\ RequestsTyped'
<1>1. CurrentRow \in Row
  BY DEF CurrentRow, Row, RowTyped
<1> QED BY <1>1 DEF Begin, Goto, RowTyped, RequestsTyped, rowVars

LEMMA ForgetTyped ==
  ASSUME RequestsTyped, NEW r \in Requests, Forget(r)
  PROVE  RequestsTyped'
<1>1. Unread \in Row
  BY DEF Unread, Row, Statuses, Refunds, Access
<1> QED BY <1>1 DEF Forget, Goto, RequestsTyped, Money

LEMMA EndTyped ==
  ASSUME RowTyped, RequestsTyped, NEW r \in Requests, End(r)
  PROVE  RowTyped' /\ RequestsTyped'
<1>1. Released(r) \in Requests \cup {NoRequest}
  BY DEF Released, RowTyped
<1> QED BY <1>1, ForgetTyped DEF End, RowTyped, rowVars

LEMMA SendTyped ==
  ASSUME inFlight \subseteq Kinds, NEW k \in Kinds, Send(k)
  PROVE  inFlight' \in SUBSET Kinds
  BY DEF Send

\* The webhooks of a refund are of kinds that are handled.
LEMMA RefundKinds ==
  {"PAYMENT_REFUND_IN_PROGRESS", "PAYMENT_REFUND_DENIED", "PAYMENT_REFUNDED"} \subseteq Kinds
  BY DEF Kinds

\* A request leaves what it does not own typed.
LEMMA RequestTyped ==
  ASSUME TypeOK, NEW r \in Requests, Request(r)
  PROVE  TypeOK'
<1>1. RowTyped /\ RequestsTyped /\ WorldTyped
  BY TypeParts
<1>2. seen[r] \in Row /\ kind[r] \in {"look", "cancel", "request", "resume"}
  BY <1>1 DEF RequestsTyped
<1>3. NoRequest \in Requests \cup {NoRequest} /\ lock \in Requests \cup {NoRequest}
  BY <1>1 DEF RowTyped
<1>4. CASE BeginStatus(r)
  <2>1. RowTyped' /\ RequestsTyped'
    BY <1>1, <1>3, <1>4, BeginTyped DEF BeginStatus, BeginResume
  <2>2. WorldTyped'
    BY <1>1, <1>4 DEF BeginStatus, BeginResume, Begin, WorldTyped, providerVars, fixedVars
  <2> QED BY <2>1, <2>2, TypePartsNext
<1>5. CASE BeginRequest(r)
  <2>1. RowTyped' /\ RequestsTyped'
    BY <1>1, <1>3, <1>5, BeginTyped, EndTyped DEF BeginRequest, BeginResume
  <2>2. WorldTyped'
    BY <1>1, <1>5 DEF BeginRequest, BeginResume, Begin, End, WorldTyped, providerVars,
                      fixedVars, historyVars
  <2> QED BY <2>1, <2>2, TypePartsNext
<1>6. CASE BeginCancel(r)
  <2>1. RowTyped' /\ RequestsTyped'
    BY <1>1, <1>3, <1>6, BeginTyped DEF BeginCancel
  <2>2. WorldTyped'
    BY <1>1, <1>6 DEF BeginCancel, Begin, WorldTyped, providerVars, fixedVars
  <2> QED BY <2>1, <2>2, TypePartsNext
<1>7. CASE CommitIntent(r)
  BY <1>2, <1>7, CommitTyped, RowsTyped DEF CommitIntent
<1>8. CASE ResolvePayment(r)
  BY <1>2, <1>8, CommitTyped, RowsTyped DEF ResolvePayment
<1>9. CASE MarkCanceled(r)
  BY <1>2, <1>9, CommitTyped, RowsTyped DEF MarkCanceled
<1>10. CASE MarkUncertain(r)
  BY <1>2, <1>10, CommitTyped, RowsTyped DEF MarkUncertain
<1>11. CASE CancelRecurrence(r)
  <2>1. RowTyped' /\ RequestsTyped'
    BY <1>1, <1>11 DEF CancelRecurrence, Goto, RowTyped, RequestsTyped, rowVars
  <2>2. WorldTyped'
    BY <1>1, <1>11 DEF CancelRecurrence, WorldTyped, fixedVars, historyVars
  <2> QED BY <2>1, <2>2, TypePartsNext
<1>12. CASE CancelFails(r)
  <2>1. AfterFailure(kind[r]) \in {"failed", "report"}
    BY DEF AfterFailure
  <2>2. RowTyped' /\ RequestsTyped'
    BY <1>1, <1>12, <2>1, EndTyped
       DEF CancelFails, Goto, RowTyped, RequestsTyped, rowVars
  <2>3. WorldTyped'
    BY <1>1, <1>12 DEF CancelFails, End, WorldTyped, fixedVars, historyVars
  <2> QED BY <2>2, <2>3, TypePartsNext
<1>13. CASE SubmitRefund(r)
  <2>1. RowTyped' /\ RequestsTyped'
    BY <1>1, <1>13 DEF SubmitRefund, Goto, RowTyped, RequestsTyped, rowVars
  <2>2. WorldTyped'
    <3>1. UNCHANGED <<method, alerted, recurrence, announced, disputed, reopened,
                      overlapped, crashes>>
      <4>1. UNCHANGED <<rowVars, lock, kind, seen, answer, recurrence, announced,
                        disputed, fixedVars, reopened, overlapped, crashes>>
        BY <1>13, Zenon DEF SubmitRefund
      <4> QED BY <4>1 DEF fixedVars
    <3>2. money' \in Money /\ inFlight' \in SUBSET Kinds /\ calls' \in Nat
      <4>1. money' \in Money /\ calls' \in Nat
        BY <1>1, <1>13 DEF SubmitRefund, Money, WorldTyped
      <4>2. inFlight' \in SUBSET Kinds
        BY <1>1, <1>13, SendTyped, RefundKinds DEF SubmitRefund, WorldTyped
      <4> QED BY <4>1, <4>2
    <3>3. /\ alerted' \in BOOLEAN /\ disputed' \in BOOLEAN
          /\ reopened' \in BOOLEAN /\ overlapped' \in BOOLEAN
      BY <1>1, <3>1, Zenon DEF WorldTyped
    <3>4. /\ method' \in Methods /\ recurrence' \in {"on", "off", "none"}
          /\ announced' \in Nat /\ crashes' \in Nat
      BY <1>1, <3>1, Zenon DEF WorldTyped
    <3> QED BY <3>2, <3>3, <3>4 DEF WorldTyped
  <2> QED BY <2>1, <2>2, TypePartsNext
<1>14. CASE AskProvider(r)
  <2>1. RowTyped' /\ RequestsTyped'
    BY <1>1, <1>14 DEF AskProvider, Goto, RowTyped, RequestsTyped, WorldTyped, rowVars
  <2>2. WorldTyped'
    BY <1>1, <1>14 DEF AskProvider, WorldTyped, providerVars, fixedVars, historyVars
  <2> QED BY <2>1, <2>2, TypePartsNext
<1>15. CASE EndReport(r)
  <2>1. RowTyped' /\ RequestsTyped'
    BY <1>1, <1>15, EndTyped DEF EndReport
  <2>2. WorldTyped'
    BY <1>1, <1>15 DEF EndReport, End, WorldTyped, providerVars, fixedVars, historyVars
  <2> QED BY <2>1, <2>2, TypePartsNext
<1>16. CASE UpdateFromProvider(r)
  <2>1. RowTyped' /\ RequestsTyped'
    BY <1>1, <1>2, <1>16, WriteTyped, ForgetTyped, RowsTyped DEF UpdateFromProvider
  <2>2. WorldTyped'
    BY <1>1, <1>16 DEF UpdateFromProvider, WorldTyped, providerVars, fixedVars, historyVars
  <2> QED BY <2>1, <2>2, TypePartsNext
<1>17. CASE Crash(r)
  <2>1. RowTyped' /\ RequestsTyped'
    BY <1>1, <1>17, EndTyped DEF Crash
  <2>2. WorldTyped'
    BY <1>1, <1>17 DEF Crash, End, WorldTyped, providerVars, fixedVars, historyVars
  <2> QED BY <2>1, <2>2, TypePartsNext
<1> QED BY <1>4, <1>5, <1>6, <1>7, <1>8, <1>9, <1>10, <1>11, <1>12, <1>13, <1>14,
           <1>15, <1>16, <1>17 DEF Request

\* A webhook writes typed values.
LEMMA EffectTyped ==
  ASSUME TypeOK, NEW k \in Kinds, Effect(k)
  PROVE  /\ status' \in Statuses /\ refund' \in Refunds /\ access' \in Access
         /\ payRef' \in BOOLEAN /\ alerted' \in BOOLEAN
<1>1. status' \in Statuses /\ refund' \in Refunds /\ access' \in Access
  BY DEF TypeOK, Effect, SetRow, Kinds, Statuses, Refunds, Access
<1>2. payRef' \in BOOLEAN
  BY DEF TypeOK, Effect, Kinds
<1>3. alerted' \in BOOLEAN
  BY DEF TypeOK, Effect, Kinds
<1> QED BY <1>1, <1>2, <1>3

\* A webhook and the provider keep the types.
LEMMA WorldStepTyped ==
  ASSUME TypeOK,
         \/ \E k \in Kinds : Apply(k)
         \/ \E k \in Unasked : Announce(k)
         \/ SupportRefunds \/ RefundSettles
  PROVE  TypeOK'
<1>1. RowTyped /\ RequestsTyped /\ WorldTyped
  BY TypeParts
<1>2. ASSUME NEW k \in Kinds, Apply(k) PROVE TypeOK'
  <2>1. RowTyped'
    BY <1>1, <1>2, EffectTyped DEF Apply, RowTyped
  <2>2. RequestsTyped'
    BY <1>1, <1>2 DEF Apply, RequestsTyped, requestVars
  <2>3. alerted' \in BOOLEAN
    BY <1>2, EffectTyped DEF Apply
  <2>4. reopened' \in BOOLEAN
    BY <1>1, <1>2 DEF Apply, WorldTyped
  <2>5. WorldTyped'
    BY <1>1, <1>2, <2>3, <2>4 DEF Apply, WorldTyped
  <2> QED BY <2>1, <2>2, <2>5, TypePartsNext
<1>3. ASSUME NEW k \in Unasked, Announce(k) PROVE TypeOK'
  <2>1. RowTyped' /\ RequestsTyped'
    BY <1>1, <1>3 DEF Announce, RowTyped, RequestsTyped, rowVars, requestVars
  <2>2. disputed' \in BOOLEAN
    BY <1>1, <1>3 DEF Announce, WorldTyped
  <2>3. WorldTyped'
    BY <1>1, <1>3, <2>2 DEF Announce, Send, Unasked, Kinds, WorldTyped, fixedVars, historyVars
  <2> QED BY <2>1, <2>3, TypePartsNext
<1>4. ASSUME SupportRefunds \/ RefundSettles PROVE TypeOK'
  <2>1. RowTyped' /\ RequestsTyped'
    BY <1>1, <1>4 DEF SupportRefunds, RefundSettles, RowTyped, RequestsTyped, rowVars, requestVars
  <2>2. WorldTyped'
    <3>1. UNCHANGED <<method, alerted, recurrence, disputed, calls, reopened,
                      overlapped, crashes>>
      <4>1. UNCHANGED <<recurrence, disputed, fixedVars, historyVars, crashes>>
        BY <1>4 DEF SupportRefunds, RefundSettles
      <4> QED BY <4>1 DEF fixedVars, historyVars
    <3>2. money' \in Money /\ inFlight' \in SUBSET Kinds /\ announced' \in Nat
      <4>1. money' \in Money /\ announced' \in Nat
        BY <1>1, <1>4 DEF SupportRefunds, RefundSettles, Money, WorldTyped
      <4>2. inFlight' \in SUBSET Kinds
        BY <1>1, <1>4, SendTyped, RefundKinds DEF SupportRefunds, RefundSettles, WorldTyped
      <4> QED BY <4>1, <4>2
    <3>3. /\ alerted' \in BOOLEAN /\ disputed' \in BOOLEAN
          /\ reopened' \in BOOLEAN /\ overlapped' \in BOOLEAN
      BY <1>1, <3>1, Zenon DEF WorldTyped
    <3>4. /\ method' \in Methods /\ recurrence' \in {"on", "off", "none"}
          /\ calls' \in Nat /\ crashes' \in Nat
      BY <1>1, <3>1, Zenon DEF WorldTyped
    <3> QED BY <3>2, <3>3, <3>4 DEF WorldTyped
  <2> QED BY <2>1, <2>2, TypePartsNext
<1> QED BY <1>2, <1>3, <1>4

LEMMA TypeInit == Init => TypeOK
<1> SUFFICES ASSUME Init PROVE TypeOK
  OBVIOUS
<1>1. RowTyped
  BY DEF Init, RowTyped, Statuses, Refunds, Access
<1>2. RequestsTyped
  BY DEF Init, RequestsTyped, Unread, Row, Statuses, Refunds, Access, Money
<1>3. WorldTyped
  BY RefundAssumption DEF Init, WorldTyped, Money
<1> QED BY <1>1, <1>2, <1>3, TypeParts

LEMMA TypeStep == TypeOK /\ [Next]_vars => TypeOK'
<1> SUFFICES ASSUME TypeOK, [Next]_vars PROVE TypeOK'
  OBVIOUS
<1>1. CASE Next
  BY <1>1, RequestTyped, WorldStepTyped DEF Next
<1>2. CASE UNCHANGED vars
  BY <1>2 DEF TypeOK, vars, rowVars, requestVars, providerVars, fixedVars, historyVars
<1> QED BY <1>1, <1>2

\* Rows, sessions and the provider keep their types (models/billing.py).
THEOREM RefundTyped == Spec => []TypeOK
  BY TypeInit, TypeStep, PTL DEF Spec

-----------------------------------------------------------------------------
(* What every step of a request has in common.                             *)

LEMMA OthersKept ==
  ASSUME TypeOK, NEW r \in Requests, Request(r), NEW q \in Requests, q # r
  PROVE  pc'[q] = pc[q] /\ kind'[q] = kind[q] /\ seen'[q] = seen[q] /\ answer'[q] = answer[q]
<1>1. RequestsTyped
  BY TypeParts
<1>2. CASE BeginStatus(r) \/ BeginRequest(r) \/ BeginCancel(r)
  BY <1>1, <1>2 DEF BeginStatus, BeginRequest, BeginCancel, BeginResume, Begin, End, Forget,
                    Goto, RequestsTyped
<1>3. CASE CommitIntent(r) \/ ResolvePayment(r) \/ MarkCanceled(r) \/ MarkUncertain(r)
  BY <1>1, <1>3 DEF CommitIntent, ResolvePayment, MarkCanceled, MarkUncertain, Commit, Goto,
                    RequestsTyped
<1>4. CASE CancelRecurrence(r) \/ CancelFails(r) \/ SubmitRefund(r) \/ AskProvider(r)
  BY <1>1, <1>4 DEF CancelRecurrence, CancelFails, SubmitRefund, AskProvider, End, Forget, Goto,
                    RequestsTyped
<1>5. CASE EndReport(r) \/ UpdateFromProvider(r) \/ Crash(r)
  BY <1>1, <1>5 DEF EndReport, UpdateFromProvider, Crash, End, Forget, Goto, RequestsTyped
<1> QED BY <1>2, <1>3, <1>4, <1>5 DEF Request

\* Only a submission counts as one, and only a resumption overlaps.
LEMMA CallsChange ==
  ASSUME NEW r \in Requests, Request(r)
  PROVE  (SubmitRefund(r) \/ calls' = calls) /\ reopened' = reopened /\ (overlapped => overlapped')
<1>1. CASE BeginStatus(r) \/ BeginRequest(r) \/ BeginCancel(r)
  <2>1. UNCHANGED <<calls, reopened>>
    BY <1>1 DEF BeginStatus, BeginRequest, BeginCancel, BeginResume, Begin, End, historyVars
  <2>2. overlapped => overlapped'
    <3>1. CASE BeginStatus(r)
      BY <3>1, Zenon DEF BeginStatus, BeginResume
    <3>2. CASE BeginRequest(r)
      <4>1. End(r) => overlapped' = overlapped
        BY DEF End, historyVars
      <4> QED BY <3>2, <4>1, Zenon DEF BeginRequest, BeginResume
    <3>3. CASE BeginCancel(r)
      BY <3>3 DEF BeginCancel
    <3> QED BY <1>1, <3>1, <3>2, <3>3
  <2> QED BY <2>1, <2>2
<1>2. CASE CommitIntent(r) \/ ResolvePayment(r) \/ MarkCanceled(r) \/ MarkUncertain(r)
  BY <1>2 DEF CommitIntent, ResolvePayment, MarkCanceled, MarkUncertain, Commit, historyVars
<1>3. CASE CancelRecurrence(r) \/ CancelFails(r) \/ AskProvider(r)
  BY <1>3 DEF CancelRecurrence, CancelFails, AskProvider, End, historyVars
<1>4. CASE EndReport(r) \/ UpdateFromProvider(r) \/ Crash(r)
  BY <1>4 DEF EndReport, UpdateFromProvider, Crash, End, historyVars
<1>5. CASE SubmitRefund(r)
  BY <1>5 DEF SubmitRefund
<1> QED BY <1>1, <1>2, <1>3, <1>4, <1>5 DEF Request

\* Crashes are counted one by one.
LEMMA CrashesChange ==
  ASSUME NEW r \in Requests, Request(r)
  PROVE  crashes' = crashes \/ crashes' = crashes + 1
<1>1. CASE BeginStatus(r) \/ BeginRequest(r) \/ BeginCancel(r)
  BY <1>1 DEF BeginStatus, BeginRequest, BeginCancel, BeginResume, Begin
<1>2. CASE CommitIntent(r) \/ ResolvePayment(r) \/ MarkCanceled(r) \/ MarkUncertain(r)
  BY <1>2 DEF CommitIntent, ResolvePayment, MarkCanceled, MarkUncertain, Commit
<1>3. CASE CancelRecurrence(r) \/ CancelFails(r) \/ SubmitRefund(r) \/ AskProvider(r)
  BY <1>3 DEF CancelRecurrence, CancelFails, SubmitRefund, AskProvider
<1>4. CASE EndReport(r) \/ UpdateFromProvider(r) \/ Crash(r)
  BY <1>4 DEF EndReport, UpdateFromProvider, Crash
<1> QED BY <1>1, <1>2, <1>3, <1>4 DEF Request

-----------------------------------------------------------------------------
(* What the row says is true of the provider.                              *)

\* A row, stored or remembered, that is true of the provider.
Truthful(row) ==
  /\ row.refund = "refunded" => money = "done"
  /\ row.access = "ended" \/ row.status = "suspended" => money = "done" \/ disputed

ProviderInv ==
  /\ Truthful(CurrentRow)
  /\ \A r \in Requests : Truthful(seen[r]) /\ (answer[r] = "done" => money = "done")
  /\ "PAYMENT_REFUNDED" \in inFlight => money = "done"
  /\ "PAYMENT_CHARGEBACK_REQUESTED" \in inFlight => disputed

\* The provider does not take a refund back, nor the customer a dispute.
LEMMA ProviderMonotone ==
  ASSUME TypeOK, Next
  PROVE  (money = "done" => money' = "done") /\ (disputed => disputed')
<1>1. ASSUME NEW r \in Requests, Request(r)
      PROVE  (money = "done" => money' = "done") /\ disputed' = disputed
  <2>1. CASE BeginStatus(r) \/ BeginRequest(r) \/ BeginCancel(r)
    BY <2>1 DEF BeginStatus, BeginRequest, BeginCancel, BeginResume, Begin, End, providerVars
  <2>2. CASE CommitIntent(r) \/ ResolvePayment(r) \/ MarkCanceled(r) \/ MarkUncertain(r)
    BY <2>2 DEF CommitIntent, ResolvePayment, MarkCanceled, MarkUncertain, Commit, providerVars
  <2>3. CASE CancelRecurrence(r) \/ CancelFails(r) \/ SubmitRefund(r) \/ AskProvider(r)
    BY <2>3 DEF CancelRecurrence, CancelFails, SubmitRefund, AskProvider, providerVars
  <2>4. CASE EndReport(r) \/ UpdateFromProvider(r) \/ Crash(r)
    BY <2>4 DEF EndReport, UpdateFromProvider, Crash, providerVars
  <2> QED BY <1>1, <2>1, <2>2, <2>3, <2>4 DEF Request
<1>2. ASSUME NEW k \in Kinds, Apply(k) PROVE UNCHANGED <<money, disputed>>
  BY <1>2 DEF Apply
<1>3. ASSUME NEW k \in Unasked, Announce(k) PROVE money' = money /\ (disputed => disputed')
  BY <1>3 DEF Announce
<1>4. ASSUME SupportRefunds \/ RefundSettles
      PROVE  (money = "done" => money' = "done") /\ disputed' = disputed
  BY <1>4 DEF SupportRefunds, RefundSettles
<1> QED BY <1>1, <1>2, <1>3, <1>4 DEF Next

\* What is written of a truthful row leaves a truthful row.
LEMMA WriteTruthful ==
  ASSUME TypeOK, Next, Truthful(CurrentRow), NEW r \in Requests, NEW new \in Row,
         Truthful(new), Write(r, new)
  PROVE  Truthful(CurrentRow)'
<1>1. Truthful(CurrentRow)' <=>
        /\ refund' = "refunded" => money' = "done"
        /\ access' = "ended" \/ status' = "suspended" => money' = "done" \/ disputed'
  BY DEF Truthful, CurrentRow
<1>2. /\ refund = "refunded" => money = "done"
      /\ access = "ended" \/ status = "suspended" => money = "done" \/ disputed
  BY DEF Truthful, CurrentRow
<1>3. /\ refund' \in {refund, new.refund} /\ access' \in {access, new.access}
      /\ status' \in {status, new.status}
  BY DEF Write, Flushed
<1>4. /\ refund' = "refunded" => money = "done"
      /\ access' = "ended" \/ status' = "suspended" => money = "done" \/ disputed
  BY <1>2, <1>3 DEF Truthful
<1> QED BY <1>1, <1>4, ProviderMonotone

\* What the requests commit is truthful.
LEMMA NewTruthful ==
  ASSUME NEW row \in Row, Truthful(row)
  PROVE  /\ Truthful([row EXCEPT !.refund = "requested", !.payRef = TRUE])
         /\ Truthful([row EXCEPT !.refund = "reconcile_required"])
         /\ Truthful([row EXCEPT !.payRef = TRUE])
         /\ \A k : Truthful([row EXCEPT !.status = "canceled",
                               !.refund = IF k = "resume" THEN "requested" ELSE @])
         /\ \A outcome : (outcome = "done" => money = "done") => Truthful(ReportedRow(row, outcome))
<1>1. /\ Truthful([row EXCEPT !.refund = "requested", !.payRef = TRUE])
      /\ Truthful([row EXCEPT !.refund = "reconcile_required"])
      /\ Truthful([row EXCEPT !.payRef = TRUE])
  BY DEF Truthful, Row
<1>2. ASSUME NEW k
      PROVE  Truthful([row EXCEPT !.status = "canceled",
                         !.refund = IF k = "resume" THEN "requested" ELSE @])
  BY DEF Truthful, Row
<1>3. ASSUME NEW outcome, outcome = "done" => money = "done"
      PROVE  Truthful(ReportedRow(row, outcome))
  BY <1>3 DEF Truthful, Row, ReportedRow
<1> QED BY <1>1, <1>2, <1>3

\* The rows of a commit.
LEMMA CommitTruthful ==
  ASSUME TypeOK, Next, ProviderInv, NEW r \in Requests, NEW new \in Row, Truthful(new),
         NEW label, Commit(r, new, label)
  PROVE  ProviderInv'
<1>1. Truthful(CurrentRow)'
  BY WriteTruthful DEF Commit, ProviderInv
<1>2. UNCHANGED <<money, disputed, inFlight, answer>>
  BY DEF Commit, providerVars
<1>3. ASSUME NEW q \in Requests PROVE Truthful(seen[q])'
  <2>1. seen'[q] = IF q = r THEN new ELSE seen[q]
    BY DEF Commit, TypeOK
  <2> QED BY <1>2, <2>1 DEF ProviderInv, Truthful
<1> QED BY <1>1, <1>2, <1>3 DEF ProviderInv

\* The session of r is closed or loaded, the row and the provider's refund stay.
LEMMA SessionTruthful ==
  ASSUME TypeOK, Next, ProviderInv, NEW r \in Requests, Request(r),
         UNCHANGED rowVars, UNCHANGED <<inFlight, disputed>>,
         seen'[r] \in {seen[r], CurrentRow, Unread}, answer'[r] \in {answer[r], "none", money}
  PROVE  ProviderInv'
<1>1. Truthful(CurrentRow)'
  BY ProviderMonotone DEF ProviderInv, Truthful, CurrentRow, rowVars
<1>2. Truthful(Unread)
  BY DEF Truthful, Unread
<1>3. ASSUME NEW q \in Requests PROVE Truthful(seen[q])' /\ (answer'[q] = "done" => money' = "done")
  <2>1. seen'[q] \in {seen[q], CurrentRow, Unread} /\ answer'[q] \in {answer[q], "none", money}
    BY OthersKept
  <2>2. Truthful(seen'[q]) /\ (answer'[q] = "done" => money = "done")
    BY <1>2, <2>1 DEF ProviderInv
  <2> QED BY <2>2, ProviderMonotone DEF Truthful
<1> QED BY <1>1, <1>3, ProviderMonotone DEF ProviderInv

LEMMA ProviderStep == TypeOK /\ ProviderInv /\ [Next]_vars => ProviderInv'
<1> SUFFICES ASSUME TypeOK, ProviderInv, [Next]_vars PROVE ProviderInv'
  OBVIOUS
<1>1. ASSUME Next, NEW r \in Requests, Request(r) PROVE ProviderInv'
  <2>1. seen[r] \in Row /\ Truthful(seen[r]) /\ (answer[r] = "done" => money = "done")
    BY DEF TypeOK, ProviderInv
  <2>2. CASE BeginStatus(r) \/ BeginRequest(r) \/ BeginCancel(r)
    <3>1. UNCHANGED rowVars /\ UNCHANGED <<inFlight, disputed>>
      BY <2>2 DEF BeginStatus, BeginRequest, BeginCancel, BeginResume, Begin, End, providerVars
    <3>2. seen'[r] \in {seen[r], CurrentRow, Unread} /\ answer'[r] \in {answer[r], "none", money}
      BY <2>2 DEF BeginStatus, BeginRequest, BeginCancel, BeginResume, Begin, End, Forget, TypeOK
    <3> QED BY <1>1, <3>1, <3>2, SessionTruthful
  <2>3. CASE CommitIntent(r)
    BY <1>1, <2>1, <2>3, CommitTruthful, NewTruthful, RowsTyped DEF CommitIntent
  <2>4. CASE ResolvePayment(r)
    BY <1>1, <2>1, <2>4, CommitTruthful, NewTruthful, RowsTyped DEF ResolvePayment
  <2>5. CASE MarkCanceled(r)
    BY <1>1, <2>1, <2>5, CommitTruthful, NewTruthful, RowsTyped DEF MarkCanceled
  <2>6. CASE MarkUncertain(r)
    BY <1>1, <2>1, <2>6, CommitTruthful, NewTruthful, RowsTyped DEF MarkUncertain
  <2>7. CASE CancelRecurrence(r) \/ CancelFails(r) \/ AskProvider(r)
    <3>1. UNCHANGED rowVars /\ UNCHANGED <<inFlight, disputed>>
      BY <2>7 DEF CancelRecurrence, CancelFails, AskProvider, End, providerVars
    <3>2. seen'[r] \in {seen[r], CurrentRow, Unread} /\ answer'[r] \in {answer[r], "none", money}
      BY <2>7 DEF CancelRecurrence, CancelFails, AskProvider, End, Forget, TypeOK
    <3> QED BY <1>1, <3>1, <3>2, SessionTruthful
  <2>8. CASE EndReport(r) \/ Crash(r)
    <3>1. UNCHANGED rowVars /\ UNCHANGED <<inFlight, disputed>>
      BY <2>8 DEF EndReport, Crash, End, providerVars
    <3>2. seen'[r] \in {seen[r], CurrentRow, Unread} /\ answer'[r] \in {answer[r], "none", money}
      BY <2>8 DEF EndReport, Crash, End, Forget, TypeOK
    <3> QED BY <1>1, <3>1, <3>2, SessionTruthful
  <2>9. CASE SubmitRefund(r)
    <3>1. UNCHANGED rowVars /\ seen' = seen /\ answer' = answer
      BY <2>9 DEF SubmitRefund
    <3>2. Truthful(CurrentRow)'
      BY <1>1, <3>1, ProviderMonotone DEF ProviderInv, Truthful, CurrentRow, rowVars
    <3>3. ASSUME NEW q \in Requests
          PROVE  Truthful(seen[q])' /\ (answer'[q] = "done" => money' = "done")
      BY <1>1, <3>1, ProviderMonotone DEF ProviderInv, Truthful
    <3>4. inFlight' \subseteq inFlight \cup {"PAYMENT_REFUND_IN_PROGRESS"}
      BY <2>9 DEF SubmitRefund, Send
    <3> QED BY <1>1, <3>2, <3>3, <3>4, ProviderMonotone DEF ProviderInv
  <2>10. CASE UpdateFromProvider(r)
    <3>1. Truthful(ReportedRow(seen[r], answer[r])) /\ ReportedRow(seen[r], answer[r]) \in Row
      BY <2>1, NewTruthful, RowsTyped
    <3>2. Truthful(CurrentRow)'
      BY <1>1, <2>10, <3>1, WriteTruthful DEF UpdateFromProvider, ProviderInv
    <3>3. seen'[r] = Unread /\ answer'[r] = "none" /\ UNCHANGED <<inFlight, disputed, money>>
      BY <2>10 DEF UpdateFromProvider, Forget, providerVars, TypeOK
    <3>4. ASSUME NEW q \in Requests
          PROVE  Truthful(seen'[q]) /\ (answer'[q] = "done" => money = "done")
      <4>1. Truthful(Unread)
        BY DEF Truthful, Unread
      <4> QED BY <1>1, <3>3, <4>1, OthersKept DEF ProviderInv
    <3> QED BY <3>2, <3>3, <3>4 DEF ProviderInv, Truthful
  <2> QED BY <1>1, <2>2, <2>3, <2>4, <2>5, <2>6, <2>7, <2>8, <2>9, <2>10 DEF Request
<1>2. ASSUME Next, NEW k \in Kinds, Apply(k) PROVE ProviderInv'
  <2>1. UNCHANGED <<money, disputed, seen, answer>> /\ inFlight' \subseteq inFlight
    BY <1>2 DEF Apply, requestVars
  <2>2. /\ refund = "refunded" => money = "done"
        /\ access = "ended" \/ status = "suspended" => money = "done" \/ disputed
    BY DEF ProviderInv, Truthful, CurrentRow
  <2>3. /\ k = "PAYMENT_REFUNDED" => money = "done"
        /\ k = "PAYMENT_CHARGEBACK_REQUESTED" => disputed
    BY <1>2 DEF Apply, ProviderInv
  <2>4. /\ refund' = "refunded" => money = "done"
        /\ access' = "ended" \/ status' = "suspended" => money = "done" \/ disputed
    BY <1>2, <2>2, <2>3 DEF Apply, Effect, SetRow, Kinds
  <2>5. Truthful(CurrentRow)'
    BY <2>1, <2>4 DEF Truthful, CurrentRow
  <2>6. ASSUME NEW q \in Requests
        PROVE  Truthful(seen[q])' /\ (answer'[q] = "done" => money' = "done")
    BY <2>1 DEF ProviderInv, Truthful
  <2> QED BY <2>1, <2>5, <2>6 DEF ProviderInv
<1>3. ASSUME Next,
             \/ \E k \in Unasked : Announce(k)
             \/ SupportRefunds \/ RefundSettles
      PROVE  ProviderInv'
  <2>1. UNCHANGED <<rowVars, requestVars>>
    BY <1>3 DEF Announce, SupportRefunds, RefundSettles
  <2>2. Truthful(CurrentRow)'
    BY <1>3, <2>1, ProviderMonotone DEF ProviderInv, Truthful, CurrentRow, rowVars
  <2>3. ASSUME NEW q \in Requests
        PROVE  Truthful(seen[q])' /\ (answer'[q] = "done" => money' = "done")
    BY <1>3, <2>1, ProviderMonotone DEF ProviderInv, Truthful, requestVars
  <2>4. /\ "PAYMENT_REFUNDED" \in inFlight' => money' = "done"
        /\ "PAYMENT_CHARGEBACK_REQUESTED" \in inFlight' => disputed'
    <3>1. ASSUME NEW k \in Unasked, Announce(k)
          PROVE  /\ inFlight' = inFlight \cup {k} /\ k # "PAYMENT_REFUNDED"
                 /\ k = "PAYMENT_CHARGEBACK_REQUESTED" => disputed'
      BY <3>1 DEF Announce, Send, Unasked
    <3>2. ASSUME SupportRefunds \/ RefundSettles
          PROVE  \E k \in Kinds : /\ inFlight' = inFlight \cup {k}
                                  /\ k # "PAYMENT_CHARGEBACK_REQUESTED"
                                  /\ k = "PAYMENT_REFUNDED" => money' = "done"
      BY <3>2 DEF SupportRefunds, RefundSettles, Send, Kinds
    <3> QED BY <1>3, <3>1, <3>2, ProviderMonotone DEF ProviderInv
  <2> QED BY <2>2, <2>3, <2>4 DEF ProviderInv
<1>4. CASE UNCHANGED vars
  BY <1>4 DEF ProviderInv, Truthful, CurrentRow, vars, rowVars, requestVars, providerVars
<1> QED BY <1>1, <1>2, <1>3, <1>4 DEF Next

LEMMA ProviderInit == Init => ProviderInv
  BY DEF Init, ProviderInv, Truthful, CurrentRow, Unread

LEMMA ProviderAlways == Spec => []ProviderInv
  BY RefundTyped, ProviderInit, ProviderStep, PTL DEF Spec

\* The row says "refunded" only when the money is back, though requests write
\* rows they remember from before and webhooks come at any time.
THEOREM RefundsAreReal == Spec => []RefundedIsReal
<1>1. ProviderInv => RefundedIsReal
  BY DEF ProviderInv, Truthful, CurrentRow, RefundedIsReal
<1> QED BY <1>1, ProviderAlways, PTL

\* No failed attempt of a refund takes access away that was paid for.
THEOREM AccessKept == Spec => []AccessUntilRefund
<1>1. ProviderInv => AccessUntilRefund
  BY DEF ProviderInv, Truthful, CurrentRow, AccessUntilRefund
<1> QED BY <1>1, ProviderAlways, PTL

-----------------------------------------------------------------------------
(* No refund while charges go on.                                          *)

\* A request that may submit has seen the end of the recurrence; a common Pix
\* has none.
ChargesInv ==
  /\ method = "pix" => recurrence # "on"
  /\ calls > 0 => recurrence # "on"
  /\ \A r \in Requests : pc[r] \in {"mark", "submit"} => recurrence # "on"

LEMMA ChargesStep == TypeOK /\ ChargesInv /\ [Next]_vars => ChargesInv'
<1> SUFFICES ASSUME TypeOK, ChargesInv, [Next]_vars PROVE ChargesInv'
  OBVIOUS
<1>1. ASSUME NEW r \in Requests, Request(r) PROVE ChargesInv'
  <2>1. method' = method /\ (recurrence # "on" => recurrence' # "on")
    <3>1. CASE BeginStatus(r) \/ BeginRequest(r) \/ BeginCancel(r)
      BY <3>1 DEF BeginStatus, BeginRequest, BeginCancel, BeginResume, Begin, End, providerVars,
                  fixedVars
    <3>2. CASE CommitIntent(r) \/ ResolvePayment(r) \/ MarkCanceled(r) \/ MarkUncertain(r)
      BY <3>2 DEF CommitIntent, ResolvePayment, MarkCanceled, MarkUncertain, Commit,
                  providerVars, fixedVars
    <3>3. CASE CancelRecurrence(r) \/ CancelFails(r) \/ SubmitRefund(r) \/ AskProvider(r)
      BY <3>3 DEF CancelRecurrence, CancelFails, SubmitRefund, AskProvider, End, providerVars,
                  fixedVars
    <3>4. CASE EndReport(r) \/ UpdateFromProvider(r) \/ Crash(r)
      BY <3>4 DEF EndReport, UpdateFromProvider, Crash, End, providerVars, fixedVars
    <3> QED BY <1>1, <3>1, <3>2, <3>3, <3>4 DEF Request
  <2>2. pc'[r] \in {"mark", "submit"} => recurrence' # "on"
    <3>1. CASE BeginStatus(r) \/ BeginRequest(r) \/ BeginCancel(r)
      BY <2>1, <3>1 DEF BeginStatus, BeginRequest, BeginCancel, BeginResume, Begin, End, Forget,
                        Goto, TypeOK, ChargesInv
    <3>2. CASE CommitIntent(r) \/ ResolvePayment(r) \/ MarkUncertain(r)
      BY <3>2 DEF CommitIntent, ResolvePayment, MarkUncertain, Commit, Goto, TypeOK
    <3>3. CASE MarkCanceled(r)
      BY <2>1, <3>3 DEF MarkCanceled, ChargesInv
    <3>4. CASE CancelRecurrence(r)
      BY <3>4 DEF CancelRecurrence
    <3>5. CASE CancelFails(r)
      BY <3>5 DEF CancelFails, End, Forget, Goto, AfterFailure, TypeOK
    <3>6. CASE SubmitRefund(r) \/ AskProvider(r)
      BY <3>6 DEF SubmitRefund, AskProvider, Goto, TypeOK
    <3>7. CASE EndReport(r) \/ UpdateFromProvider(r) \/ Crash(r)
      BY <3>7 DEF EndReport, UpdateFromProvider, Crash, End, Forget, Goto, TypeOK
    <3> QED BY <1>1, <3>1, <3>2, <3>3, <3>4, <3>5, <3>6, <3>7 DEF Request
  <2>3. calls' > 0 => recurrence' # "on"
    <3>1. CASE SubmitRefund(r)
      BY <2>1, <3>1 DEF SubmitRefund, ChargesInv
    <3>2. CASE calls' = calls
      BY <2>1, <3>2 DEF ChargesInv
    <3> QED BY <1>1, <3>1, <3>2, CallsChange
  <2> QED BY <1>1, <2>1, <2>2, <2>3, OthersKept DEF ChargesInv
<1>2. ASSUME NEW k \in Kinds, Apply(k) PROVE ChargesInv'
  BY <1>2 DEF Apply, requestVars, ChargesInv
<1>3. ASSUME NEW k \in Unasked, Announce(k) PROVE ChargesInv'
  BY <1>3 DEF Announce, requestVars, fixedVars, historyVars, ChargesInv
<1>4. ASSUME SupportRefunds \/ RefundSettles PROVE ChargesInv'
  BY <1>4 DEF SupportRefunds, RefundSettles, requestVars, fixedVars, historyVars, ChargesInv
<1>5. CASE UNCHANGED vars
  BY <1>5 DEF vars, requestVars, providerVars, fixedVars, historyVars, ChargesInv
<1> QED BY <1>1, <1>2, <1>3, <1>4, <1>5 DEF Next

\* Whoever submits a refund has ended the recurrence first, in every
\* interleaving of requests and webhooks.
THEOREM ChargesStopped == Spec => []ChargesStopFirst
<1>1. Init => ChargesInv
  BY DEF Init, ChargesInv
<1>2. ChargesInv => ChargesStopFirst
  BY DEF ChargesInv, ChargesStopFirst
<1> QED BY <1>1, <1>2, RefundTyped, ChargesStep, PTL DEF Spec

-----------------------------------------------------------------------------
(* A refund is submitted once.                                             *)

\* The first submission ends the subscription, and only a webhook revives it.
EndedRow == status \in Ended \/ reopened

EndedInv ==
  /\ \A r \in Requests : /\ seen[r].status \in Ended => EndedRow
                         /\ pc[r] = "submit" => EndedRow
  /\ calls > 0 => EndedRow

\* A refund that is worked on is recorded, and before that its request holds
\* the lock.
IntentInv ==
  /\ \A r \in Requests :
       /\ pc[r] \in {"resume", "submit"} => kind[r] \in {"request", "resume"}
       /\ pc[r] \in {"cancel", "mark"} => kind[r] # "look"
       /\ pc[r] = "intent" => lock = r /\ kind[r] = "request" /\ seen[r].refund = "none"
       /\ AtRefund(r) /\ pc[r] # "intent" => refund # "none"
  /\ calls > 0 => refund # "none"

Undisturbed == ~overlapped /\ ~reopened

\* One request at a time, and none after the first submission.
OnceInv ==
  Undisturbed =>
    /\ calls <= 1
    /\ \A q, r \in Requests : AtRefund(q) /\ AtRefund(r) => q = r
    /\ calls > 0 => \A r \in Requests : ~AtRefund(r)

\* The status and the refund of what the requests commit.
LEMMA RowFields ==
  ASSUME NEW row \in Row
  PROVE  /\ [row EXCEPT !.refund = "requested", !.payRef = TRUE].status = row.status
         /\ [row EXCEPT !.refund = "requested", !.payRef = TRUE].refund = "requested"
         /\ [row EXCEPT !.refund = "reconcile_required"].status = row.status
         /\ [row EXCEPT !.refund = "reconcile_required"].refund = "reconcile_required"
         /\ [row EXCEPT !.payRef = TRUE].status = row.status
         /\ [row EXCEPT !.payRef = TRUE].refund = row.refund
         /\ \A k : LET new == [row EXCEPT !.status = "canceled",
                                 !.refund = IF k = "resume" THEN "requested" ELSE @]
                   IN  /\ new.status = "canceled"
                       /\ new.refund = IF k = "resume" THEN "requested" ELSE row.refund
         /\ \A outcome : /\ \/ ReportedRow(row, outcome).status = row.status
                            \/ ReportedRow(row, outcome).status \in Ended
                         /\ ReportedRow(row, outcome).refund # "none"
  BY DEF Row, ReportedRow, Ended

\* A request never revives the subscription, nor does it forget a refund.
LEMMA WriteChanges ==
  ASSUME NEW r \in Requests, NEW new \in Row, Write(r, new),
         new.status = seen[r].status \/ new.status \in Ended,
         new.refund = seen[r].refund \/ new.refund # "none"
  PROVE  /\ status' = status \/ status' \in Ended
         /\ refund' = refund \/ refund' # "none"
  BY DEF Write, Flushed

LEMMA RowChanges ==
  ASSUME TypeOK, NEW r \in Requests, Request(r)
  PROVE  /\ status' = status \/ status' \in Ended
         /\ refund' = refund \/ refund' # "none"
<1>1. seen[r] \in Row
  BY DEF TypeOK
<1>2. CASE BeginStatus(r) \/ BeginRequest(r) \/ BeginCancel(r)
  BY <1>2 DEF BeginStatus, BeginRequest, BeginCancel, BeginResume, Begin, End, rowVars
<1>3. CASE CommitIntent(r) \/ ResolvePayment(r) \/ MarkUncertain(r)
  <2>1. ASSUME NEW new \in Row, NEW label, Commit(r, new, label), new.status = seen[r].status,
               new.refund = seen[r].refund \/ new.refund # "none"
        PROVE  /\ status' = status \/ status' \in Ended
               /\ refund' = refund \/ refund' # "none"
    BY <2>1, WriteChanges DEF Commit
  <2>2. CASE CommitIntent(r)
    BY <1>1, <2>1, <2>2, RowsTyped, RowFields DEF CommitIntent
  <2>3. CASE ResolvePayment(r)
    BY <1>1, <2>1, <2>3, RowsTyped, RowFields DEF ResolvePayment
  <2>4. CASE MarkUncertain(r)
    BY <1>1, <2>1, <2>4, RowsTyped, RowFields DEF MarkUncertain
  <2> QED BY <1>3, <2>2, <2>3, <2>4
<1>4. CASE MarkCanceled(r)
  <2> DEFINE new == [seen[r] EXCEPT !.status = "canceled",
                       !.refund = IF kind[r] = "resume" THEN "requested" ELSE @]
  <2>1. new \in Row /\ new.status = "canceled"
        /\ (new.refund = seen[r].refund \/ new.refund # "none")
    <3>1. new \in Row
      BY <1>1, RowsTyped
    <3>2. /\ new.status = "canceled"
          /\ new.refund = IF kind[r] = "resume" THEN "requested" ELSE seen[r].refund
      BY <1>1, RowFields
    <3> HIDE DEF new
    <3> QED BY <3>1, <3>2
  <2>2. Write(r, new)
    BY <1>4 DEF MarkCanceled, Commit
  <2> HIDE DEF new
  <2> QED BY <2>1, <2>2, WriteChanges DEF Ended
<1>5. CASE CancelRecurrence(r) \/ CancelFails(r) \/ SubmitRefund(r) \/ AskProvider(r)
  BY <1>5 DEF CancelRecurrence, CancelFails, SubmitRefund, AskProvider, End, rowVars
<1>6. CASE UpdateFromProvider(r)
  <2> DEFINE new == ReportedRow(seen[r], answer[r])
  <2>1. /\ new \in Row
        /\ new.status = seen[r].status \/ new.status \in Ended
        /\ new.refund = seen[r].refund \/ new.refund # "none"
    <3>1. new \in Row
      BY <1>1, RowsTyped
    <3>2. (new.status = seen[r].status \/ new.status \in Ended) /\ new.refund # "none"
      BY <1>1, RowFields
    <3> HIDE DEF new
    <3> QED BY <3>1, <3>2
  <2>2. Write(r, new)
    BY <1>6 DEF UpdateFromProvider
  <2> HIDE DEF new
  <2> QED BY <2>1, <2>2, WriteChanges
<1>7. CASE EndReport(r) \/ Crash(r)
  BY <1>7 DEF EndReport, Crash, End, rowVars
<1> QED BY <1>2, <1>3, <1>4, <1>5, <1>6, <1>7 DEF Request

\* A request gives up no lock but its own.
LEMMA LockKept ==
  ASSUME TypeOK, NEW r \in Requests, Request(r), NEW q \in Requests, q # r, lock = q
  PROVE  lock' = q
<1>1. lock # NoRequest /\ Released(r) = lock /\ ~LockFree
  BY RefundAssumption DEF Released, LockFree
<1>2. CASE BeginStatus(r) \/ BeginRequest(r) \/ BeginCancel(r)
  BY <1>1, <1>2 DEF BeginStatus, BeginRequest, BeginCancel, BeginResume, Begin
<1>3. CASE CommitIntent(r) \/ ResolvePayment(r) \/ MarkCanceled(r) \/ MarkUncertain(r)
  BY <1>1, <1>3 DEF CommitIntent, ResolvePayment, MarkCanceled, MarkUncertain, Commit, Write
<1>4. CASE CancelRecurrence(r) \/ CancelFails(r) \/ SubmitRefund(r) \/ AskProvider(r)
  BY <1>1, <1>4 DEF CancelRecurrence, CancelFails, SubmitRefund, AskProvider, End
<1>5. CASE EndReport(r) \/ UpdateFromProvider(r) \/ Crash(r)
  BY <1>1, <1>5 DEF EndReport, UpdateFromProvider, Crash, End, Write
<1> QED BY <1>2, <1>3, <1>4, <1>5 DEF Request

\* The refund of the row is never "none" again.
LEMMA RefundRecorded ==
  ASSUME TypeOK, [Next]_vars, refund # "none"
  PROVE  refund' # "none"
<1>1. ASSUME NEW r \in Requests, Request(r) PROVE refund' # "none"
  BY <1>1, RowChanges
<1>2. ASSUME NEW k \in Kinds, Apply(k) PROVE refund' # "none"
  BY <1>2 DEF Apply, Effect, SetRow, Kinds
<1>3. CASE (\E k \in Unasked : Announce(k)) \/ SupportRefunds \/ RefundSettles
  BY <1>3 DEF Announce, SupportRefunds, RefundSettles, rowVars
<1>4. CASE UNCHANGED vars
  BY <1>4 DEF vars, rowVars
<1> QED BY <1>1, <1>2, <1>3, <1>4 DEF Next

LEMMA EndedKept ==
  ASSUME TypeOK, [Next]_vars, EndedRow
  PROVE  EndedRow'
<1>1. ASSUME NEW r \in Requests, Request(r) PROVE EndedRow'
  BY <1>1, RowChanges, CallsChange DEF EndedRow
<1>2. ASSUME NEW k \in Kinds, Apply(k) PROVE EndedRow'
  BY <1>2 DEF Apply, EndedRow
<1>3. CASE (\E k \in Unasked : Announce(k)) \/ SupportRefunds \/ RefundSettles
  BY <1>3 DEF Announce, SupportRefunds, RefundSettles, rowVars, historyVars, EndedRow
<1>4. CASE UNCHANGED vars
  BY <1>4 DEF vars, rowVars, historyVars, EndedRow
<1> QED BY <1>1, <1>2, <1>3, <1>4 DEF Next

\* A step that is not a request's leaves requests and submissions alone.
LEMMA OtherSteps ==
  ASSUME [Next]_vars, \A r \in Requests : ~Request(r)
  PROVE  /\ UNCHANGED <<lock, pc, kind, seen, answer, calls, overlapped, crashes>>
         /\ reopened => reopened'
<1>1. ASSUME NEW k \in Kinds, Apply(k)
      PROVE  /\ UNCHANGED <<lock, pc, kind, seen, answer, calls, overlapped, crashes>>
             /\ reopened => reopened'
  BY <1>1 DEF Apply, requestVars
<1>2. CASE (\E k \in Unasked : Announce(k)) \/ SupportRefunds \/ RefundSettles
  BY <1>2 DEF Announce, SupportRefunds, RefundSettles, requestVars, historyVars
<1>3. CASE UNCHANGED vars
  BY <1>3 DEF vars, requestVars, historyVars
<1> QED BY <1>1, <1>2, <1>3 DEF Next

LEMMA EndedStep == TypeOK /\ EndedInv /\ [Next]_vars => EndedInv'
<1> SUFFICES ASSUME TypeOK, EndedInv, [Next]_vars PROVE EndedInv'
  OBVIOUS
<1>1. ASSUME NEW r \in Requests, Request(r) PROVE EndedInv'
  <2>1. EndedRow => EndedRow'
    BY EndedKept
  <2>2. (seen'[r].status \in Ended => EndedRow') /\ (pc'[r] = "submit" => EndedRow')
    <3>1. CASE BeginStatus(r) \/ BeginRequest(r) \/ BeginCancel(r)
      BY <2>1, <3>1 DEF BeginStatus, BeginRequest, BeginCancel, BeginResume, Begin, End, Forget,
                        Goto, TypeOK, EndedRow, CurrentRow, Unread, Ended, EndedInv
    <3>2. CASE CommitIntent(r) \/ ResolvePayment(r) \/ MarkUncertain(r)
      <4>1. seen'[r].status = seen[r].status
        BY <3>2 DEF CommitIntent, ResolvePayment, MarkUncertain, Commit, TypeOK, Row
      <4>2. pc'[r] # "submit"
        BY <3>2 DEF CommitIntent, ResolvePayment, MarkUncertain, Commit, Goto, TypeOK
      <4> QED BY <2>1, <4>1, <4>2 DEF EndedInv
    <3>3. CASE MarkCanceled(r)
      <4> DEFINE new == [seen[r] EXCEPT !.status = "canceled",
                           !.refund = IF kind[r] = "resume" THEN "requested" ELSE @]
      <4>0. seen[r] \in Row
        BY DEF TypeOK
      <4>1. new.status = "canceled" /\ Write(r, new)
        BY <3>3, <4>0, RowFields DEF MarkCanceled, Commit
      <4> HIDE DEF new
      <4>2. CASE seen[r].status = "canceled"
        BY <2>1, <4>2 DEF EndedInv, Ended
      <4>3. CASE seen[r].status # "canceled"
        BY <4>1, <4>3 DEF Write, Flushed, EndedRow, Ended
      <4> QED BY <4>2, <4>3
    <3>4. CASE CancelRecurrence(r) \/ CancelFails(r) \/ SubmitRefund(r) \/ AskProvider(r)
      BY <2>1, <3>4 DEF CancelRecurrence, CancelFails, SubmitRefund, AskProvider, End, Forget, Goto,
                        AfterFailure, TypeOK, Unread, Ended, EndedInv
    <3>5. CASE EndReport(r) \/ UpdateFromProvider(r) \/ Crash(r)
      BY <3>5 DEF EndReport, UpdateFromProvider, Crash, End, Forget, Goto, TypeOK, Unread, Ended
    <3> QED BY <1>1, <3>1, <3>2, <3>3, <3>4, <3>5 DEF Request
  <2>3. calls' > 0 => EndedRow'
    <3>1. SubmitRefund(r) => EndedRow
      BY DEF SubmitRefund, EndedInv
    <3> QED BY <1>1, <2>1, <3>1, CallsChange DEF EndedInv
  <2> QED BY <1>1, <2>1, <2>2, <2>3, OthersKept DEF EndedInv
<1>2. CASE \A r \in Requests : ~Request(r)
  BY <1>2, OtherSteps, EndedKept DEF EndedInv
<1> QED BY <1>1, <1>2

LEMMA IntentStep == TypeOK /\ IntentInv /\ [Next]_vars => IntentInv'
<1> SUFFICES ASSUME TypeOK, IntentInv, [Next]_vars PROVE IntentInv'
  OBVIOUS
<1>1. ASSUME NEW r \in Requests, Request(r) PROVE IntentInv'
  <2>1. refund # "none" => refund' # "none"
    BY RefundRecorded
  <2>2. /\ pc'[r] \in {"resume", "submit"} => kind'[r] \in {"request", "resume"}
        /\ pc'[r] \in {"cancel", "mark"} => kind'[r] # "look"
        /\ pc'[r] = "intent" => lock' = r /\ kind'[r] = "request" /\ seen'[r].refund = "none"
    <3>1. CASE BeginStatus(r) \/ BeginRequest(r) \/ BeginCancel(r)
      BY <3>1 DEF BeginStatus, BeginRequest, BeginCancel, BeginResume, Begin, End, Forget, Goto,
                  TypeOK, CurrentRow
    <3>2. CASE CommitIntent(r) \/ ResolvePayment(r) \/ MarkUncertain(r)
      BY <3>2 DEF CommitIntent, ResolvePayment, MarkUncertain, Commit, Goto, TypeOK, IntentInv
    <3>3. CASE MarkCanceled(r)
      <4>1. kind' = kind /\ pc'[r] \in {"report", "submit"}
        BY <3>3 DEF MarkCanceled, Commit, Goto, TypeOK
      <4>2. pc'[r] = "submit" => kind[r] \in {"request", "resume"}
        BY <3>3 DEF MarkCanceled, Commit, Goto, TypeOK, IntentInv
      <4> QED BY <4>1, <4>2
    <3>4. CASE CancelRecurrence(r) \/ CancelFails(r) \/ SubmitRefund(r) \/ AskProvider(r)
      BY <3>4 DEF CancelRecurrence, CancelFails, SubmitRefund, AskProvider, End, Forget, Goto,
                  AfterFailure, TypeOK, IntentInv
    <3>5. CASE EndReport(r) \/ UpdateFromProvider(r) \/ Crash(r)
      BY <3>5 DEF EndReport, UpdateFromProvider, Crash, End, Forget, Goto, TypeOK
    <3> QED BY <1>1, <3>1, <3>2, <3>3, <3>4, <3>5 DEF Request
  <2>3. AtRefund(r)' /\ pc'[r] # "intent" => refund' # "none"
    <3>1. CASE BeginStatus(r) \/ BeginRequest(r) \/ BeginCancel(r)
      BY <3>1 DEF BeginStatus, BeginRequest, BeginCancel, BeginResume, Begin, End, Forget, Goto,
                  TypeOK, AtRefund, Resumable, rowVars
    <3>2. CASE CommitIntent(r)
      <4>1. pc[r] = "intent" /\ seen[r].refund = "none"
        BY <3>2 DEF CommitIntent, IntentInv
      <4>2. ASSUME NEW new, Write(r, new), new.refund \in {"requested", "reconcile_required"}
            PROVE  refund' # "none"
        BY <4>1, <4>2 DEF Write, Flushed
      <4>3. /\ [seen[r] EXCEPT !.refund = "requested", !.payRef = TRUE].refund = "requested"
            /\ [seen[r] EXCEPT !.refund = "reconcile_required"].refund = "reconcile_required"
        <5>1. seen[r] \in Row
          BY DEF TypeOK
        <5> QED BY <5>1, RowFields
      <4>4. \/ Write(r, [seen[r] EXCEPT !.refund = "requested", !.payRef = TRUE])
            \/ Write(r, [seen[r] EXCEPT !.refund = "reconcile_required"])
        BY <3>2 DEF CommitIntent, Commit
      <4> QED BY <4>2, <4>3, <4>4
    <3>3. CASE ResolvePayment(r) \/ MarkUncertain(r)
      BY <2>1, <3>3 DEF ResolvePayment, MarkUncertain, Commit, Goto, TypeOK, AtRefund, IntentInv
    <3>4. CASE MarkCanceled(r)
      BY <2>1, <3>4 DEF MarkCanceled, Commit, Goto, TypeOK, AtRefund, IntentInv
    <3>5. CASE CancelRecurrence(r) \/ CancelFails(r) \/ SubmitRefund(r) \/ AskProvider(r)
      BY <2>1, <3>5 DEF CancelRecurrence, CancelFails, SubmitRefund, AskProvider, End, Forget, Goto,
                        AfterFailure, TypeOK, AtRefund, IntentInv
    <3>6. CASE EndReport(r) \/ UpdateFromProvider(r) \/ Crash(r)
      BY <3>6 DEF EndReport, UpdateFromProvider, Crash, End, Forget, Goto, TypeOK, AtRefund
    <3> QED BY <1>1, <3>1, <3>2, <3>3, <3>4, <3>5, <3>6 DEF Request
  <2>4. calls' > 0 => refund' # "none"
    <3>1. SubmitRefund(r) => refund # "none"
      BY DEF SubmitRefund, IntentInv, AtRefund
    <3> QED BY <1>1, <2>1, <3>1, CallsChange DEF IntentInv
  <2>5. ASSUME NEW q \in Requests, q # r
        PROVE  /\ pc'[q] \in {"resume", "submit"} => kind'[q] \in {"request", "resume"}
               /\ pc'[q] \in {"cancel", "mark"} => kind'[q] # "look"
               /\ pc'[q] = "intent" => lock' = q /\ kind'[q] = "request" /\ seen'[q].refund = "none"
               /\ AtRefund(q)' /\ pc'[q] # "intent" => refund' # "none"
    BY <1>1, <2>1, <2>5, OthersKept, LockKept DEF IntentInv, AtRefund
  <2> QED BY <2>2, <2>3, <2>4, <2>5 DEF IntentInv
<1>2. CASE \A r \in Requests : ~Request(r)
  BY <1>2, OtherSteps, RefundRecorded DEF IntentInv, AtRefund
<1> QED BY <1>1, <1>2

\* A request that turns to the refund finds no other at it, and none submitted.
LEMMA TurnsToRefund ==
  ASSUME TypeOK, EndedInv, IntentInv, NEW r \in Requests, Request(r), Undisturbed',
         ~AtRefund(r), AtRefund(r)'
  PROVE  calls <= 0 /\ \A q \in Requests \ {r} : ~AtRefund(q)
<1>1. Undisturbed
  BY CallsChange DEF Undisturbed
<1>2. calls \in Nat
  BY DEF TypeOK
<1>3. CASE BeginStatus(r) \/ BeginRequest(r) \/ BeginCancel(r)
  <2>1. \/ Resumable /\ (overlapped' = (overlapped \/ \E q \in Requests \ {r} : AtRefund(q)))
        \/ refund = "none" /\ LockFree
    BY <1>3 DEF BeginStatus, BeginRequest, BeginCancel, BeginResume, Begin, End, Forget, Goto,
                TypeOK, AtRefund
  <2>2. CASE Resumable /\ (overlapped' = (overlapped \/ \E q \in Requests \ {r} : AtRefund(q)))
    <3>1. status \notin Ended /\ ~reopened
      BY <1>1, <2>2 DEF Resumable, Undisturbed
    <3>2. ~(calls > 0)
      BY <3>1 DEF EndedInv, EndedRow
    <3>3. \A q \in Requests \ {r} : ~AtRefund(q)
      BY <2>2 DEF Undisturbed
    <3> QED BY <1>2, <3>2, <3>3
  <2>3. CASE refund = "none" /\ LockFree
    <3>1. \A q \in Requests : pc[q] # "intent"
      BY <2>3, RefundAssumption DEF IntentInv, LockFree
    <3> QED BY <1>2, <2>3, <3>1 DEF IntentInv
  <2> QED BY <2>1, <2>2, <2>3
<1>4. CASE ~(BeginStatus(r) \/ BeginRequest(r) \/ BeginCancel(r))
  <2>1. CASE CommitIntent(r) \/ ResolvePayment(r) \/ MarkUncertain(r)
    BY <2>1 DEF CommitIntent, ResolvePayment, MarkUncertain, Commit, Goto, TypeOK, AtRefund,
                IntentInv
  <2>2. CASE MarkCanceled(r)
    BY <2>2 DEF MarkCanceled, Commit, Goto, TypeOK, AtRefund
  <2>3. CASE CancelRecurrence(r) \/ CancelFails(r) \/ SubmitRefund(r) \/ AskProvider(r)
    BY <2>3 DEF CancelRecurrence, CancelFails, SubmitRefund, AskProvider, End, Forget, Goto,
                AfterFailure, TypeOK, AtRefund
  <2>4. CASE EndReport(r) \/ UpdateFromProvider(r) \/ Crash(r)
    BY <2>4 DEF EndReport, UpdateFromProvider, Crash, End, Forget, Goto, TypeOK, AtRefund
  <2> QED BY <1>4, <2>1, <2>2, <2>3, <2>4 DEF Request
<1> QED BY <1>3, <1>4

LEMMA OnceStep == TypeOK /\ EndedInv /\ IntentInv /\ OnceInv /\ [Next]_vars => OnceInv'
<1> SUFFICES ASSUME TypeOK, EndedInv, IntentInv, OnceInv, [Next]_vars, Undisturbed'
             PROVE  /\ calls' <= 1
                    /\ \A q, r \in Requests : AtRefund(q)' /\ AtRefund(r)' => q = r
                    /\ calls' > 0 => \A r \in Requests : ~AtRefund(r)'
  BY DEF OnceInv
<1>1. ASSUME NEW r \in Requests, Request(r)
      PROVE  /\ calls' <= 1
             /\ \A p, q \in Requests : AtRefund(p)' /\ AtRefund(q)' => p = q
             /\ calls' > 0 => \A q \in Requests : ~AtRefund(q)'
  <2>1. /\ calls \in Nat /\ calls <= 1
        /\ \A p, q \in Requests : AtRefund(p) /\ AtRefund(q) => p = q
        /\ calls > 0 => \A q \in Requests : ~AtRefund(q)
    BY <1>1, CallsChange DEF OnceInv, Undisturbed, TypeOK
  <2>2. \A q \in Requests \ {r} : AtRefund(q)' => AtRefund(q)
    BY <1>1, OthersKept DEF AtRefund
  <2>3. CASE SubmitRefund(r)
    <3>1. AtRefund(r) /\ ~AtRefund(r)' /\ calls' = calls + 1
      BY <2>3 DEF SubmitRefund, Goto, TypeOK, AtRefund, IntentInv
    <3>2. calls = 0 /\ \A q \in Requests : ~AtRefund(q)'
      BY <2>1, <2>2, <3>1
    <3> QED BY <3>1, <3>2
  <2>4. CASE calls' = calls
    <3>1. CASE AtRefund(r)' /\ ~AtRefund(r)
      BY <1>1, <2>1, <2>2, <2>4, <3>1, TurnsToRefund
    <3>2. CASE AtRefund(r)' => AtRefund(r)
      BY <2>1, <2>2, <2>4, <3>2
    <3> QED BY <3>1, <3>2
  <2> QED BY <1>1, <2>3, <2>4, CallsChange
<1>2. CASE \A r \in Requests : ~Request(r)
  BY <1>2, OtherSteps DEF OnceInv, Undisturbed, AtRefund
<1> QED BY <1>1, <1>2

\* A refund is submitted once, however many requests ask for it, unless two
\* resume it at the same time or a webhook revives the subscription.
THEOREM SubmittedAtMostOnce == Spec => []SubmittedOnce
<1>1. Init => EndedInv /\ IntentInv /\ OnceInv
  BY DEF Init, EndedInv, IntentInv, OnceInv, AtRefund, Unread, Ended
<1>2. OnceInv => SubmittedOnce
  BY DEF OnceInv, Undisturbed, SubmittedOnce
<1> QED BY <1>1, <1>2, RefundTyped, EndedStep, IntentStep, OnceStep, PTL DEF Spec

-----------------------------------------------------------------------------
(* A refund that was promised is in somebody's hands.                      *)

\* r remembers the refund as requested and has not given it up.
Owns(r) ==
  /\ kind[r] \in {"request", "resume"}
  /\ pc[r] \in {"cancel", "mark", "submit", "failed"}
  /\ seen[r].refund = "requested"

\* What a request on its way to the refund remembers of it.
Remembers(r) ==
  /\ kind[r] = "resume" /\ pc[r] \in {"resume", "cancel", "mark"} =>
       seen[r].refund = "reconcile_required"
  /\ kind[r] = "request" /\ pc[r] \in {"cancel", "mark"} => seen[r].refund = "requested"
  /\ pc[r] \in {"submit", "failed"} =>
       kind[r] \in {"request", "resume"} /\ seen[r].refund = "requested"
  /\ pc[r] = "intent" => kind[r] = "request"
  /\ pc[r] = "resume" => kind[r] = "resume"
  /\ pc[r] \in {"cancel", "mark"} => kind[r] # "look"

WorkerInv ==
  /\ \A r \in Requests : Remembers(r)
  /\ money = "none" =>
       /\ \A r \in Requests : answer[r] = "none"
       /\ "PAYMENT_REFUND_IN_PROGRESS" \notin inFlight
  /\ refund = "requested" /\ money = "none" => crashes > 0 \/ \E r \in Requests : Owns(r)

\* The step of a request is remembered.
LEMMA RemembersStep ==
  ASSUME TypeOK, NEW r \in Requests, Request(r), Remembers(r)
  PROVE  Remembers(r)'
<1>1. seen[r] \in Row /\ kind[r] \in {"look", "cancel", "request", "resume"}
  BY DEF TypeOK
<1>2. CASE BeginStatus(r) \/ BeginRequest(r) \/ BeginCancel(r)
  BY <1>2 DEF BeginStatus, BeginRequest, BeginCancel, BeginResume, Begin, End, Forget, Goto,
              TypeOK, CurrentRow, Resumable, Remembers
<1>3. CASE CommitIntent(r)
  <2>1. kind' = kind /\ pc'[r] \in {"cancel", "report"} /\ pc[r] = "intent"
    BY <1>3 DEF CommitIntent, Commit, Goto, TypeOK
  <2>2. pc'[r] = "cancel" =>
          seen'[r] = [seen[r] EXCEPT !.refund = "requested", !.payRef = TRUE]
    BY <1>3 DEF CommitIntent, Commit, Goto, TypeOK
  <2>3. [seen[r] EXCEPT !.refund = "requested", !.payRef = TRUE].refund = "requested"
    BY <1>1, RowFields
  <2> QED BY <2>1, <2>2, <2>3 DEF Remembers
<1>4. CASE ResolvePayment(r)
  <2>1. kind' = kind /\ pc'[r] \in {"cancel", "report"} /\ pc[r] = "resume"
    BY <1>4 DEF ResolvePayment, Commit, Goto, TypeOK
  <2>2. seen'[r] \in {seen[r], [seen[r] EXCEPT !.payRef = TRUE]}
    BY <1>4 DEF ResolvePayment, Commit, TypeOK
  <2>3. [seen[r] EXCEPT !.payRef = TRUE].refund = seen[r].refund
    BY <1>1, RowFields
  <2>4. seen'[r].refund = seen[r].refund
    BY <2>2, <2>3
  <2> QED BY <2>1, <2>4 DEF Remembers
<1>5. CASE MarkCanceled(r)
  <2>1. kind' = kind /\ pc'[r] = IF kind[r] = "cancel" THEN "report" ELSE "submit"
    BY <1>5 DEF MarkCanceled, Commit, Goto, TypeOK
  <2>2. seen'[r].refund = IF kind[r] = "resume" THEN "requested" ELSE seen[r].refund
    BY <1>1, <1>5, RowFields DEF MarkCanceled, Commit, TypeOK
  <2> QED BY <1>1, <1>5, <2>1, <2>2 DEF MarkCanceled, Remembers
<1>6. CASE CancelRecurrence(r) \/ SubmitRefund(r) \/ AskProvider(r) \/ MarkUncertain(r)
  BY <1>1, <1>6 DEF CancelRecurrence, SubmitRefund, AskProvider, MarkUncertain, Commit, Goto,
                    TypeOK, Remembers
<1>7. CASE CancelFails(r)
  BY <1>1, <1>7 DEF CancelFails, AfterFailure, End, Forget, Goto, TypeOK, Remembers
<1>8. CASE EndReport(r) \/ UpdateFromProvider(r) \/ Crash(r)
  BY <1>8 DEF EndReport, UpdateFromProvider, Crash, End, Forget, Goto, TypeOK, Remembers
<1> QED BY <1>2, <1>3, <1>4, <1>5, <1>6, <1>7, <1>8 DEF Request

\* The provider hears of the refund once; until then nobody is told of one.
LEMMA UnheardStep ==
  ASSUME TypeOK, WorkerInv, [Next]_vars, money' = "none"
  PROVE  /\ money = "none"
         /\ \A r \in Requests : answer'[r] = "none"
         /\ "PAYMENT_REFUND_IN_PROGRESS" \notin inFlight'
<1>1. ASSUME NEW r \in Requests, Request(r)
      PROVE  money = "none" /\ inFlight' = inFlight /\ answer'[r] \in {answer[r], "none"}
  <2>1. CASE BeginStatus(r) \/ BeginRequest(r) \/ BeginCancel(r)
    BY <2>1 DEF BeginStatus, BeginRequest, BeginCancel, BeginResume, Begin, End, Forget,
                providerVars, TypeOK
  <2>2. CASE CommitIntent(r) \/ ResolvePayment(r) \/ MarkCanceled(r) \/ MarkUncertain(r)
    BY <2>2 DEF CommitIntent, ResolvePayment, MarkCanceled, MarkUncertain, Commit, providerVars
  <2>3. CASE CancelRecurrence(r) \/ CancelFails(r) \/ SubmitRefund(r) \/ AskProvider(r)
    BY <2>3 DEF CancelRecurrence, CancelFails, SubmitRefund, AskProvider, End, Forget,
                providerVars, TypeOK
  <2>4. CASE EndReport(r) \/ UpdateFromProvider(r) \/ Crash(r)
    BY <2>4 DEF EndReport, UpdateFromProvider, Crash, End, Forget, providerVars, TypeOK
  <2> QED BY <1>1, <2>1, <2>2, <2>3, <2>4 DEF Request
<1>2. ASSUME NEW k \in Kinds, Apply(k)
      PROVE  money = "none" /\ inFlight' \subseteq inFlight /\ answer' = answer
  BY <1>2 DEF Apply, requestVars
<1>3. ASSUME NEW k \in Unasked, Announce(k)
      PROVE  /\ money = "none" /\ inFlight' = inFlight \cup {k} /\ answer' = answer
             /\ k # "PAYMENT_REFUND_IN_PROGRESS"
  BY <1>3 DEF Announce, Send, Unasked, requestVars
<1>4. ~(SupportRefunds \/ RefundSettles)
  BY DEF SupportRefunds, RefundSettles
<1>5. CASE UNCHANGED vars
  BY <1>5 DEF vars, requestVars, providerVars, WorkerInv
<1> QED BY <1>1, <1>2, <1>3, <1>4, <1>5, OthersKept DEF Next, WorkerInv

\* Whoever owns the refund keeps it, corrects the row or crashes.
LEMMA OwnerStep ==
  ASSUME TypeOK, NEW r \in Requests, Request(r), Remembers(r), Owns(r),
         refund' = "requested", money' = "none"
  PROVE  crashes' > 0 \/ Owns(r)'
<1>1. seen[r] \in Row /\ kind[r] \in {"look", "cancel", "request", "resume"} /\ crashes \in Nat
  BY DEF TypeOK
<1>2. CASE CancelRecurrence(r) \/ SubmitRefund(r)
  BY <1>2 DEF CancelRecurrence, SubmitRefund, Goto, TypeOK, Owns
<1>3. CASE CancelFails(r)
  BY <1>3 DEF CancelFails, AfterFailure, Goto, TypeOK, Owns, Remembers
<1>4. CASE MarkCanceled(r)
  <2>1. kind' = kind /\ pc'[r] = IF kind[r] = "cancel" THEN "report" ELSE "submit"
    BY <1>4 DEF MarkCanceled, Commit, Goto, TypeOK
  <2>2. seen'[r].refund = IF kind[r] = "resume" THEN "requested" ELSE seen[r].refund
    BY <1>1, <1>4, RowFields DEF MarkCanceled, Commit, TypeOK
  <2> QED BY <2>1, <2>2 DEF Owns
<1>5. CASE MarkUncertain(r)
  <2>1. [seen[r] EXCEPT !.refund = "reconcile_required"].refund = "reconcile_required"
    BY <1>1, RowFields
  <2> QED BY <1>5, <2>1 DEF MarkUncertain, Commit, Write, Flushed, Owns
<1>6. CASE Crash(r)
  BY <1>1, <1>6 DEF Crash
<1>7. pc[r] \in {"cancel", "mark", "submit", "failed"}
  BY DEF Owns
<1>8. ~(BeginStatus(r) \/ BeginRequest(r) \/ BeginCancel(r) \/ CommitIntent(r))
      /\ ~(ResolvePayment(r) \/ AskProvider(r) \/ EndReport(r) \/ UpdateFromProvider(r))
  BY <1>7 DEF BeginStatus, BeginRequest, BeginCancel, CommitIntent, ResolvePayment, AskProvider,
              EndReport, UpdateFromProvider
<1> QED BY <1>2, <1>3, <1>4, <1>5, <1>6, <1>8 DEF Request

\* Whoever writes "requested" before the provider has heard of it becomes its owner.
LEMMA BecomesOwner ==
  ASSUME TypeOK, NEW r \in Requests, Request(r), Remembers(r), answer[r] = "none",
         refund # "requested", refund' = "requested"
  PROVE  Owns(r)'
<1>1. seen[r] \in Row /\ kind[r] \in {"look", "cancel", "request", "resume"}
  BY DEF TypeOK
<1>2. CASE CommitIntent(r)
  <2>1. Commit(r, [seen[r] EXCEPT !.refund = "requested", !.payRef = TRUE], "cancel")
    BY <1>1, <1>2, RowFields DEF CommitIntent, Commit, Write, Flushed
  <2>2. seen'[r].refund = "requested" /\ pc'[r] = "cancel" /\ kind'[r] = "request"
    BY <1>1, <1>2, <2>1, RowFields DEF CommitIntent, Commit, Goto, TypeOK, Remembers
  <2> QED BY <2>2 DEF Owns
<1>3. CASE MarkCanceled(r)
  <2> DEFINE new == [seen[r] EXCEPT !.status = "canceled",
                       !.refund = IF kind[r] = "resume" THEN "requested" ELSE @]
  <2>1. new.refund = IF kind[r] = "resume" THEN "requested" ELSE seen[r].refund
    BY <1>1, RowFields
  <2>2. /\ Write(r, new) /\ seen'[r] = new /\ kind' = kind
        /\ pc'[r] = IF kind[r] = "cancel" THEN "report" ELSE "submit"
    BY <1>3 DEF MarkCanceled, Commit, Goto, TypeOK
  <2> HIDE DEF new
  <2>3. kind[r] = "resume"
    BY <2>1, <2>2 DEF Write, Flushed
  <2> QED BY <2>1, <2>2, <2>3 DEF Owns
<1>4. CASE ResolvePayment(r) \/ MarkUncertain(r) \/ UpdateFromProvider(r)
  <2>1. ASSUME NEW new \in Row, Write(r, new),
               new.refund = seen[r].refund \/ new.refund = "reconcile_required"
        PROVE  FALSE
    BY <2>1 DEF Write, Flushed
  <2>2. CASE ResolvePayment(r)
    BY <1>1, <2>1, <2>2, RowsTyped, RowFields DEF ResolvePayment, Commit
  <2>3. CASE MarkUncertain(r)
    BY <1>1, <2>1, <2>3, RowsTyped, RowFields DEF MarkUncertain, Commit
  <2>4. CASE UpdateFromProvider(r)
    <3>1. ReportedRow(seen[r], answer[r]).refund = "reconcile_required"
      BY <1>1 DEF ReportedRow, Row
    <3> QED BY <1>1, <2>1, <2>4, <3>1, RowsTyped DEF UpdateFromProvider
  <2> QED BY <1>4, <2>2, <2>3, <2>4
<1>5. CASE BeginStatus(r) \/ BeginRequest(r) \/ BeginCancel(r)
  BY <1>5 DEF BeginStatus, BeginRequest, BeginCancel, BeginResume, Begin, End, rowVars
<1>6. CASE CancelRecurrence(r) \/ CancelFails(r) \/ SubmitRefund(r) \/ AskProvider(r)
  BY <1>6 DEF CancelRecurrence, CancelFails, SubmitRefund, AskProvider, End, rowVars
<1>7. CASE EndReport(r) \/ Crash(r)
  BY <1>7 DEF EndReport, Crash, End, rowVars
<1> QED BY <1>2, <1>3, <1>4, <1>5, <1>6, <1>7 DEF Request

LEMMA WorkerStep == TypeOK /\ WorkerInv /\ [Next]_vars => WorkerInv'
<1> SUFFICES ASSUME TypeOK, WorkerInv, [Next]_vars PROVE WorkerInv'
  OBVIOUS
<1>1. ASSUME NEW q \in Requests PROVE Remembers(q)'
  <2>1. ASSUME NEW r \in Requests, Request(r) PROVE Remembers(q)'
    <3>1. CASE q = r
      BY <2>1, <3>1, RemembersStep DEF WorkerInv
    <3>2. CASE q # r
      BY <2>1, <3>2, OthersKept DEF WorkerInv, Remembers
    <3> QED BY <3>1, <3>2
  <2>2. CASE \A r \in Requests : ~Request(r)
    BY <2>2, OtherSteps DEF WorkerInv, Remembers
  <2> QED BY <2>1, <2>2
<1>2. money' = "none" =>
        /\ \A r \in Requests : answer'[r] = "none"
        /\ "PAYMENT_REFUND_IN_PROGRESS" \notin inFlight'
  BY UnheardStep
<1>3. ASSUME refund' = "requested", money' = "none", ~(crashes' > 0)
      PROVE  \E r \in Requests : Owns(r)'
  <2>1. money = "none"
    BY <1>3, UnheardStep
  <2>2. ASSUME NEW r \in Requests, Request(r) PROVE \E q \in Requests : Owns(q)'
    <3>1. CASE refund # "requested"
      BY <1>3, <2>1, <2>2, <3>1, BecomesOwner DEF WorkerInv
    <3>2. CASE refund = "requested"
      <4>1. crashes' = crashes \/ crashes' = crashes + 1
        BY <2>2, CrashesChange
      <4>2. PICK q \in Requests : Owns(q)
        BY <1>3, <2>1, <3>2, <4>1 DEF WorkerInv, TypeOK
      <4>3. CASE q = r
        BY <1>3, <2>2, <4>2, <4>3, OwnerStep DEF WorkerInv
      <4>4. CASE q # r
        BY <2>2, <4>2, <4>4, OthersKept DEF Owns
      <4> QED BY <4>3, <4>4
    <3> QED BY <3>1, <3>2
  <2>3. CASE \A r \in Requests : ~Request(r)
    <3>1. UNCHANGED <<pc, kind, seen, crashes>>
      BY <2>3, OtherSteps
    <3>2. refund = "requested"
      <4>1. ASSUME NEW k \in Kinds, Apply(k) PROVE refund = "requested"
        <5>1. k # "PAYMENT_REFUND_IN_PROGRESS"
          BY <2>1, <4>1 DEF Apply, WorkerInv
        <5> QED BY <1>3, <4>1, <5>1 DEF Apply, Effect, SetRow, Kinds
      <4>2. CASE (\E k \in Unasked : Announce(k)) \/ SupportRefunds \/ RefundSettles
        BY <1>3, <4>2 DEF Announce, SupportRefunds, RefundSettles, rowVars
      <4>3. CASE UNCHANGED vars
        BY <1>3, <4>3 DEF vars, rowVars
      <4> QED BY <2>3, <4>1, <4>2, <4>3 DEF Next
    <3> QED BY <1>3, <2>1, <3>1, <3>2 DEF WorkerInv, Owns
  <2> QED BY <2>2, <2>3
<1> QED BY <1>1, <1>2, <1>3 DEF WorkerInv

\* A refund that the row promises and the provider has not heard of is in the
\* hands of a request that will submit it or correct the row, unless one crashed.
THEOREM PromisedIsPursued == Spec => []RequestedHasWorker
<1>1. Init => WorkerInv
  BY DEF Init, WorkerInv, Remembers, Unread
<1>2. WorkerInv => RequestedHasWorker
  BY DEF WorkerInv, Owns, RequestedHasWorker
<1> QED BY <1>1, <1>2, RefundTyped, WorkerStep, PTL DEF Spec
=============================================================================

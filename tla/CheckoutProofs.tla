--------------------------- MODULE CheckoutProofs ---------------------------
(* Types, paid access, one charge and one subscription, for every number   *)
(* of checkouts, webhooks in progress and failures; and, while no call has *)
(* failed, one Pix to pay and no payment that is forgotten.                *)
EXTENDS Checkout, TLAPS

-----------------------------------------------------------------------------
(* Types.                                                                  *)

LEMMA MethodTyped ==
  ASSUME TypeOK
  PROVE  \A c \in Checkouts : method[c] \in Methods
  BY CheckoutAssumption DEF TypeOK

\* What a handler makes of the row it knows.
LEMMA UpdatedTyped ==
  ASSUME TypeOK, NEW h \in HandlerRecord, NEW r \in Row
  PROVE  /\ Updated(h, r) \in Row
         /\ r.sub => Updated(h, r).sub
         /\ Updated(h, r).status = "none" => r.status = "none"
         /\ Updated(h, r).status = "paid" =>
               r.status = "paid" \/ h.on \in {"settled", "payment", "activated", "reconcile"}
         /\ Updated(h, r).status = "active" =>
               r.status = "active" \/ h.on \in {"opened", "authorized"}
<1>1. method[h.c] \in Methods
  BY MethodTyped DEF HandlerRecord
<1>2. Paid(r) \in Row /\ Paid(r).status = "paid" /\ Paid(r).sub = r.sub
  BY DEF Paid, Row, Statuses
<1>3. CASE h.on = "opened"
  BY <1>3 DEF Updated, Row, Statuses
<1>4. CASE h.on \in {"settled", "reconcile"}
  BY <1>2, <1>4 DEF Updated
<1>5. CASE h.on \in {"canceled", "expired"}
  BY <1>5 DEF Updated, Row, Statuses
<1>6. CASE h.on = "charge"
  <2>1. Updated(h, r) \in {[r EXCEPT !.sub = TRUE], r}
    BY <1>6 DEF Updated
  <2>2. QED
    BY <2>1 DEF Row, Statuses
<1>7. CASE h.on = "payment"
  <2>1. CASE method[h.c] = "hosted"
    <3>1. Updated(h, r) = [r EXCEPT !.sub = TRUE]
      BY <1>7, <2>1 DEF Updated
    <3>2. QED
      BY <3>1 DEF Row, Statuses
  <2>2. CASE method[h.c] = "native"
    <3>1. Updated(h, r) = Paid([r EXCEPT !.sub = TRUE])
      BY <1>7, <2>2 DEF Updated
    <3>2. QED
      BY <3>1, <1>7 DEF Paid, Row, Statuses
  <2>3. CASE method[h.c] = "pix"
    BY <1>2, <1>7, <2>3 DEF Updated, PixPaid
  <2>4. CASE method[h.c] = "auto"
    <3>1. Updated(h, r) = [r EXCEPT !.paid = TRUE]
      BY <1>7, <2>4 DEF Updated
    <3>2. QED
      BY <3>1 DEF Row, Statuses
  <2>5. QED
    BY <1>1, <2>1, <2>2, <2>3, <2>4 DEF Methods
<1>8. CASE h.on = "look"
  BY <1>8 DEF Updated, Row, Statuses
<1>9. CASE h.on = "authorized"
  BY <1>9 DEF Updated, Row, Statuses
<1>10. CASE h.on = "activated"
  BY <1>2, <1>10 DEF Updated, Row, Statuses
<1>11. CASE h.on \in {"revoked", "lapsed", "refused"}
  <2> DEFINE s == [revoked |-> "canceled", lapsed |-> "expired", refused |-> "failed"][h.on]
  <2>1. s \in {"canceled", "expired", "failed"}
    BY <1>11
  <2>2. Updated(h, r) = [Unless(r, s) EXCEPT !.ref = TRUE]
    BY <1>11 DEF Updated
  <2> HIDE DEF s
  <2>3. CASE r.status = "paid"
    BY <2>2, <2>3 DEF Unless, Row, Statuses
  <2>4. CASE r.status # "paid"
    <3>1. Updated(h, r) = [[r EXCEPT !.status = s] EXCEPT !.ref = TRUE]
      BY <2>2, <2>4 DEF Unless
    <3>2. QED
      BY <2>1, <3>1 DEF Row, Statuses
  <2>5. QED
    BY <2>3, <2>4
<1>12. h.on \in Kinds \cup {"look", "reconcile"}
  BY DEF HandlerRecord
<1>13. QED
  BY <1>3, <1>4, <1>5, <1>6, <1>7, <1>8, <1>9, <1>10, <1>11, <1>12 DEF Kinds

\* Only the attributes that changed are written.
LEMMA WrittenTyped ==
  ASSUME NEW now \in Row, NEW seen \in Row, NEW new \in Row
  PROVE  /\ Written(now, seen, new) \in Row
         /\ Written(now, seen, new).status =
               IF new.status # seen.status THEN new.status ELSE now.status
         /\ Written(now, seen, new).sub = IF new.sub # seen.sub THEN new.sub ELSE now.sub
<1> DEFINE w(f) == IF new[f] # seen[f] THEN new[f] ELSE now[f]
<1>1. DOMAIN now = {"status", "paid", "sub", "ref"}
  BY DEF Row
<1>2. Written(now, seen, new) = [status |-> w("status"), paid |-> w("paid"),
                                 sub |-> w("sub"), ref |-> w("ref")]
  BY <1>1 DEF Written
<1>3. w("status") \in Statuses /\ w("paid") \in BOOLEAN /\ w("sub") \in BOOLEAN
      /\ w("ref") \in BOOLEAN
  BY DEF Row
<1>4. Written(now, seen, new) \in Row
  <2> HIDE DEF w
  <2> QED BY <1>2, <1>3 DEF Row
<1>5. QED
  BY <1>2, <1>4

LEMMA SendTyped ==
  ASSUME TypeOK, NEW S \in SUBSET Kinds, NEW c \in Checkouts, Send(S, c)
  PROVE  events' \subseteq Event
  BY DEF TypeOK, Send, Event

LEMMA RetiredTyped ==
  ASSUME NEW r \in [Checkouts -> Row], NEW S
  PROVE  Retired(r, S) \in [Checkouts -> Row]
  BY DEF Retired, Row, Statuses

\* The row of one checkout after a step.
LEMMA RowTyped ==
  ASSUME NEW r \in [Checkouts -> Row], NEW c \in Checkouts, NEW s \in Statuses
  PROVE  [r EXCEPT ![c].status = s] \in [Checkouts -> Row]
<1>1. [r[c] EXCEPT !.status = s] \in Row
  BY DEF Row
<1>2. QED
  BY <1>1

LEMMA WorkTyped ==
  ASSUME NEW op \in {"create", "pay", "cancel"}, NEW c \in Checkouts, NEW S \in SUBSET Checkouts,
         NEW g \in {"nothing", "answer", "timeout", "refusal"}
  PROVE  /\ Asking(op, c, S) \in Works
         /\ [Asking(op, c, S) EXCEPT !.got = g] \in Works
  BY DEF Asking, Works

\* A request in progress.
LEMMA WorkFields ==
  ASSUME TypeOK, work.op # "none"
  PROVE  /\ work # NoWork
         /\ work.op \in {"create", "pay", "cancel"} /\ work.c \in Checkouts
         /\ work.retired \in SUBSET Checkouts
         /\ work.got \in {"nothing", "answer", "timeout", "refusal"}
         /\ \A g \in {"nothing", "answer", "timeout", "refusal"} :
               [work EXCEPT !.got = g] \in Works
<1>1. work \in Works \ {NoWork}
  BY DEF TypeOK, NoWork
<1>2. QED
  BY <1>1 DEF Works

LEMMA FaultTyped ==
  ASSUME TypeOK, Fault \/ UNCHANGED faultVars
  PROVE  faults' \in Nat /\ crashed' \in BOOLEAN
  BY DEF TypeOK, Fault, faultVars

LEMMA BoundTyped ==
  ASSUME TypeOK, NEW c \in Checkouts, Bound(c)
  PROVE  row' \in [Checkouts -> Row] /\ handlers' \subseteq HandlerRecord
<1>1. [row[c] EXCEPT !.status = "active", !.sub = TRUE] \in Row
  BY DEF TypeOK, Row, Statuses
<1>2. Reconcile(c, [row[c] EXCEPT !.status = "active", !.sub = TRUE]) \in HandlerRecord
  BY <1>1 DEF Reconcile, HandlerRecord
<1>3. QED
  BY <1>1, <1>2 DEF TypeOK, Bound

LEMMA PanelTyped ==
  ASSUME TypeOK, Panel
  PROVE  TypeOK'
<1> USE MethodTyped
<1>1. CASE BeginCreate
  <2> DEFINE S == Newest({c \in Checkouts : Blocks(c)})
  <2>1. PICK c \in Next1 : IF method[c] = "native"
                 THEN /\ row' = [Retired(row, S) EXCEPT ![c].status = "active"]
                      /\ UNCHANGED work
                 ELSE /\ work' = Asking("create", c, S)
                      /\ UNCHANGED row
    BY <1>1 DEF BeginCreate
  <2>2. c \in Checkouts /\ S \in SUBSET Checkouts
    BY DEF Next1, Newest
  <2> HIDE DEF S
  <2>3. row' \in [Checkouts -> Row]
    <3>1. Retired(row, S) \in [Checkouts -> Row]
      BY RetiredTyped DEF TypeOK
    <3>2. [Retired(row, S) EXCEPT ![c].status = "active"] \in [Checkouts -> Row]
      BY <2>2, <3>1, RowTyped DEF Statuses
    <3>3. QED
      BY <2>1, <3>2 DEF TypeOK
  <2>4. work' \in Works
    <3>1. Asking("create", c, S) \in Works
      BY <2>2, WorkTyped
    <3>2. work \in Works
      BY DEF TypeOK
    <3>3. QED
      BY <2>1, <3>1, <3>2
  <2>5. QED
    BY <1>1, <2>3, <2>4 DEF BeginCreate, TypeOK, providerVars, faultVars
<1>2. CASE RepeatCreate
  <2>1. row' \in [Checkouts -> Row]
    <3>1. PICK c \in Checkouts : row' = [row EXCEPT ![c].status = "expired"]
      BY <1>2 DEF RepeatCreate
    <3>2. row \in [Checkouts -> Row] /\ "expired" \in Statuses
      BY DEF TypeOK, Statuses
    <3>3. QED
      BY <3>1, <3>2, RowTyped
  <2>2. QED
    BY <1>2, <2>1 DEF RepeatCreate, TypeOK, providerVars, faultVars
<1>3. CASE ProviderOpens
  <2> DEFINE S == [native |-> {}, hosted |-> {"opened"}, pix |-> {},
                   auto |-> {"authorized"}][method[work.c]]
  <2>1. work.op # "none" /\ work.c \in Checkouts
    BY <1>3, WorkFields DEF ProviderOpens
  <2>2. S \in SUBSET Kinds
    BY <2>1 DEF Methods, Kinds
  <2> HIDE DEF S
  <2>3. work' \in Works
    BY <1>3, <2>1, WorkFields DEF ProviderOpens
  <2>4. stage' \in [Checkouts -> Stages] /\ events' \subseteq Event
    <3>1. \/ stage' = [stage EXCEPT ![work.c] = "open"] /\ Send(S, work.c)
          \/ UNCHANGED <<stage, events>>
      BY <1>3 DEF ProviderOpens, S
    <3>2. QED
      BY <3>1, <2>1, <2>2, SendTyped DEF TypeOK, Stages
  <2>5. faults' \in Nat /\ crashed' \in BOOLEAN
    BY <1>3, FaultTyped DEF ProviderOpens
  <2>6. QED
    BY <1>3, <2>3, <2>4, <2>5 DEF ProviderOpens, TypeOK, rowVars
<1>4. CASE EndCreate
  <2>1. work.op # "none" /\ work.c \in Checkouts
    BY <1>4, WorkFields DEF EndCreate
  <2>2. PICK made \in Row : row' = [Retired(row, work.retired) EXCEPT ![work.c] = made]
    <3>1. /\ [NoRow EXCEPT !.status = "active", !.ref = TRUE, !.sub = (method[work.c] = "auto")] \in Row
          /\ [NoRow EXCEPT !.status = "creating"] \in Row
          /\ [NoRow EXCEPT !.status = "failed"] \in Row
      BY DEF NoRow, Row, Statuses
    <3>2. QED
      BY <1>4, <3>1 DEF EndCreate
  <2>3. row' \in [Checkouts -> Row]
    BY <2>1, <2>2, RetiredTyped DEF TypeOK
  <2>4. QED
    BY <1>4, <2>3 DEF EndCreate, TypeOK, providerVars, faultVars, Works
<1>5. CASE BeginPay
  <2>1. work' \in Works
    BY <1>5, WorkTyped DEF BeginPay
  <2>2. QED
    BY <1>5, <2>1 DEF BeginPay, TypeOK, providerVars, faultVars, rowVars
<1>6. CASE ProviderCharges
  <2>1. work.op # "none" /\ work.c \in Checkouts
    BY <1>6, WorkFields DEF ProviderCharges
  <2>2. work' \in Works
    BY <1>6, <2>1, WorkFields DEF ProviderCharges, Works
  <2>3. charges' \in [Checkouts -> Nat] /\ events' \subseteq Event
    <3>1. \/ charges' = [charges EXCEPT ![work.c] = @ + 1] /\ Send({"charge"}, work.c)
          \/ UNCHANGED <<charges, events>>
      BY <1>6 DEF ProviderCharges
    <3>2. {"charge"} \in SUBSET Kinds
      BY DEF Kinds
    <3>3. QED
      BY <3>1, <3>2, <2>1, SendTyped DEF TypeOK
  <2>4. faults' \in Nat /\ crashed' \in BOOLEAN
    BY <1>6, FaultTyped DEF ProviderCharges, faultVars
  <2>5. QED
    BY <1>6, <2>2, <2>3, <2>4 DEF ProviderCharges, TypeOK, rowVars
<1>7. CASE EndPay
  <2>1. work.op # "none" /\ work.c \in Checkouts
    BY <1>7, WorkFields DEF EndPay
  <2>2. row' \in [Checkouts -> Row] /\ handlers' \subseteq HandlerRecord
    <3>1. \/ Bound(work.c)
          \/ row' = [row EXCEPT ![work.c].status = "creating"] /\ UNCHANGED handlers
      BY <1>7 DEF EndPay
    <3>2. CASE Bound(work.c)
      BY <3>2, <2>1, BoundTyped
    <3>3. CASE row' = [row EXCEPT ![work.c].status = "creating"] /\ UNCHANGED handlers
      <4>1. row \in [Checkouts -> Row] /\ "creating" \in Statuses
        BY DEF TypeOK, Statuses
      <4>2. row' \in [Checkouts -> Row]
        BY <3>3, <4>1, <2>1, RowTyped
      <4>3. QED
        BY <3>3, <4>2 DEF TypeOK
    <3>4. QED
      BY <3>1, <3>2, <3>3
  <2>3. QED
    BY <1>7, <2>2 DEF EndPay, TypeOK, providerVars, faultVars, Works
<1>8. CASE RetryPay
  <2>1. row' \in [Checkouts -> Row] /\ handlers' \subseteq HandlerRecord
    BY <1>8, BoundTyped DEF RetryPay
  <2>2. QED
    BY <1>8, <2>1 DEF RetryPay, TypeOK, providerVars, faultVars
<1>9. CASE PayTooLate
  <2>1. row' \in [Checkouts -> Row]
    <3>1. PICK c \in Checkouts : row' = [row EXCEPT ![c].status = "expired"]
      BY <1>9 DEF PayTooLate
    <3>2. row \in [Checkouts -> Row] /\ "expired" \in Statuses
      BY DEF TypeOK, Statuses
    <3>3. QED
      BY <3>1, <3>2, RowTyped
  <2>2. QED
    BY <1>9, <2>1 DEF PayTooLate, TypeOK, providerVars, faultVars
<1>10. CASE BeginCancel
  <2>1. work' \in Works
    <3>1. PICK c \in Checkouts, g \in {"nothing", "answer"} :
             work' = [Asking("cancel", c, {}) EXCEPT !.got = g]
      BY <1>10 DEF BeginCancel
    <3>2. QED
      BY <3>1, WorkTyped
  <2>2. QED
    BY <1>10, <2>1 DEF BeginCancel, TypeOK, providerVars, faultVars, rowVars
<1>11. CASE ProviderCancels
  <2> DEFINE S == IF method[work.c] = "auto" /\ stage[work.c] # "over" THEN {"revoked"} ELSE {}
  <2>1. work.op # "none" /\ work.c \in Checkouts
    BY <1>11, WorkFields DEF ProviderCancels
  <2>2. work' \in Works
    BY <1>11, <2>1, WorkFields DEF ProviderCancels, Works
  <2>3. S \in SUBSET Kinds
    BY DEF Kinds
  <2>4. stage' \in [Checkouts -> Stages] /\ events' \subseteq Event
    <3>1. \/ stage' = [stage EXCEPT ![work.c] = "over"] /\ Send(S, work.c)
          \/ UNCHANGED <<stage, events>>
      BY <1>11 DEF ProviderCancels
    <3> HIDE DEF S
    <3>2. QED
      BY <3>1, <2>1, <2>3, SendTyped DEF TypeOK, Stages
  <2>5. QED
    BY <1>11, <2>2, <2>4 DEF ProviderCancels, TypeOK, rowVars, faultVars
<1>12. CASE EndCancel
  <2>1. work.c \in Checkouts
    BY <1>12, WorkFields DEF EndCancel
  <2>2. row' \in [Checkouts -> Row]
    BY <1>12, <2>1, RowTyped DEF EndCancel, TypeOK, Statuses
  <2>3. QED
    BY <1>12, <2>2 DEF EndCancel, TypeOK, providerVars, faultVars, Works
<1>13. CASE WorkDies
  BY <1>13 DEF WorkDies, TypeOK, providerVars, rowVars, Works
<1>14. QED
  BY <1>1, <1>2, <1>3, <1>4, <1>5, <1>6, <1>7, <1>8, <1>9, <1>10, <1>11, <1>12, <1>13 DEF Panel

LEMMA HandlerTyped ==
  ASSUME TypeOK, NEW k \in Kinds \cup {"look"}, NEW c \in Checkouts, NEW e, e.on = k, e.c = c
  PROVE  Handler(e) \in HandlerRecord
  BY DEF TypeOK, Handler, HandlerRecord

\* What a handler has decided.
Decision(h, g, grant) ==
  /\ g = Refreshed(h)
  /\ ~Grants(g, Updated(g, g.seen)) => grant = "nothing"
  /\ Grants(g, Updated(g, g.seen)) =>
        grant = IF access[h.c] # "none" THEN "renew"
                ELSE IF \E d \in Checkouts : Current(d) THEN "refuse" ELSE "open"
  /\ h.grant = "none" /\ TakesLock(h)
  /\ h.on = "reconcile" => money[h.c]
  /\ LockFree
  /\ handlers' = (handlers \ {h}) \cup {[g EXCEPT !.locked = TRUE, !.grant = grant]}

LEMMA Decided ==
  ASSUME TypeOK, Decide
  PROVE  \E h \in handlers, g \in HandlerRecord, grant \in {"nothing", "renew", "refuse", "open"} :
            Decision(h, g, grant)
<1>1. PICK h \in handlers :
        LET g == Refreshed(h)
            grant == IF ~Grants(g, Updated(g, g.seen)) THEN "nothing"
                     ELSE IF access[h.c] # "none" THEN "renew"
                     ELSE IF \E d \in Checkouts : Current(d) THEN "refuse" ELSE "open"
        IN  /\ h.grant = "none" /\ TakesLock(h)
            /\ h.on = "reconcile" => money[h.c]
            /\ MayLock
            /\ handlers' = (handlers \ {h}) \cup {[g EXCEPT !.locked = TRUE, !.grant = grant]}
  BY DEF Decide
<1> DEFINE g == Refreshed(h)
           grant == IF ~Grants(g, Updated(g, g.seen)) THEN "nothing"
                    ELSE IF access[h.c] # "none" THEN "renew"
                    ELSE IF \E d \in Checkouts : Current(d) THEN "refuse" ELSE "open"
<1>2. g \in HandlerRecord
  BY DEF TypeOK, Refreshed, HandlerRecord
<1>3. grant \in {"nothing", "renew", "refuse", "open"}
  OBVIOUS
<1>4. Decision(h, g, grant)
  BY <1>1 DEF Decision, MayLock
<1>5. QED
  BY <1>2, <1>3, <1>4

LEMMA OthersTyped ==
  ASSUME TypeOK, Webhooks \/ Outside
  PROVE  TypeOK'
<1>1. CASE Load
  <2>1. handlers' \subseteq HandlerRecord
    <3>1. CASE \E e \in events : handlers' = handlers \cup {Handler(e)}
      BY <3>1, HandlerTyped DEF TypeOK, Event
    <3>2. CASE \E c \in Checkouts : handlers' = handlers \cup {Handler([on |-> "look", c |-> c])}
      BY <3>2, HandlerTyped DEF TypeOK
    <3>3. QED
      BY <1>1, <3>1, <3>2 DEF Load
  <2>2. QED
    BY <1>1, <2>1 DEF Load, TypeOK, rowVars, providerVars, faultVars
<1>2. CASE Unknown
  BY <1>2 DEF Unknown, TypeOK, rowVars, faultVars
<1>3. CASE Decide
  <2>1. PICK h \in handlers, g \in HandlerRecord, grant \in {"nothing", "renew", "refuse", "open"} :
            Decision(h, g, grant)
    BY <1>3, Decided
  <2>2. [g EXCEPT !.locked = TRUE, !.grant = grant] \in HandlerRecord
    BY DEF HandlerRecord
  <2>3. handlers' \subseteq HandlerRecord
    BY <2>1, <2>2 DEF Decision, TypeOK
  <2>4. QED
    BY <1>3, <2>3 DEF Decide, TypeOK, rowVars, providerVars, faultVars
<1>4. CASE Commit
  <2>1. PICK h \in handlers :
          /\ row' = [row EXCEPT ![h.c] = Written(@, h.seen, Updated(h, h.seen))]
          /\ access' = [access EXCEPT ![h.c] = NewAccess(h)]
          /\ conflict' = [conflict EXCEPT ![h.c] = @ \/ h.grant = "refuse"]
          /\ handlers' = handlers \ {h}
          /\ events' \subseteq events
    BY <1>4 DEF Commit
  <2>2. h \in HandlerRecord /\ h.c \in Checkouts /\ h.seen \in Row
    BY DEF TypeOK, HandlerRecord
  <2>3. row' \in [Checkouts -> Row]
    BY <2>1, <2>2, UpdatedTyped, WrittenTyped DEF TypeOK
  <2>4. access' \in [Checkouts -> {"none", "active", "canceled", "over"}]
    BY <2>1, <2>2 DEF TypeOK, NewAccess
  <2>5. conflict' \in [Checkouts -> BOOLEAN]
    BY <2>1, <2>2 DEF TypeOK
  <2>6. handlers' \subseteq HandlerRecord /\ events' \subseteq Event
    BY <2>1 DEF TypeOK
  <2>7. QED
    BY <1>4, <2>3, <2>4, <2>5, <2>6 DEF Commit, TypeOK, faultVars
<1>5. CASE HandlerDies
  <2>1. faults' \in Nat /\ crashed' \in BOOLEAN
    BY <1>5, FaultTyped DEF HandlerDies
  <2>2. QED
    BY <1>5, <2>1 DEF HandlerDies, TypeOK, rowVars, providerVars
<1>6. CASE Pays
  <2>1. PICK c \in Checkouts, S \in SUBSET Kinds :
          /\ money' = [money EXCEPT ![c] = TRUE] /\ Send(S, c)
          /\ stage' = [stage EXCEPT ![c] = "done"] \/ UNCHANGED stage
    <3>1. {"payment"} \in SUBSET Kinds /\ {"settled", "payment"} \in SUBSET Kinds
      BY DEF Kinds
    <3>2. QED
      BY <1>6, <3>1 DEF Pays
  <2>2. events' \subseteq Event
    BY <2>1, SendTyped
  <2>3. QED
    BY <1>6, <2>1, <2>2 DEF Pays, TypeOK, rowVars, faultVars, Stages
<1>7. CASE StageEnds
  <2>1. PICK c \in Checkouts, S \in SUBSET Kinds, s \in Stages :
          Send(S, c) /\ stage' = [stage EXCEPT ![c] = s]
    <3>1. \A k \in {"expired", "canceled", "activated", "refused", "lapsed", "revoked"} :
             {k} \in SUBSET Kinds
      BY DEF Kinds
    <3>2. "done" \in Stages /\ "over" \in Stages
      BY DEF Stages
    <3>3. PICK c \in Checkouts, k \in {"expired", "canceled", "activated", "refused", "lapsed", "revoked"},
               s \in {"done", "over"} : Send({k}, c) /\ stage' = [stage EXCEPT ![c] = s]
      BY <1>7 DEF StageEnds
    <3>4. QED
      BY <3>1, <3>2, <3>3
  <2>2. events' \subseteq Event
    BY <2>1, SendTyped
  <2>3. QED
    BY <1>7, <2>1, <2>2 DEF StageEnds, TypeOK, rowVars, faultVars
<1>8. CASE Elapse
  BY <1>8 DEF Elapse, TypeOK, rowVars, providerVars, faultVars
<1>9. CASE AccessEnds
  BY <1>9 DEF AccessEnds, TypeOK, providerVars, faultVars
<1>10. QED
  BY <1>1, <1>2, <1>3, <1>4, <1>5, <1>6, <1>7, <1>8, <1>9 DEF Webhooks, Outside

LEMMA InitTyped ==
  ASSUME Init
  PROVE  TypeOK
<1>1. NoRow \in Row
  BY DEF NoRow, Row, Statuses
<1>2. row \in [Checkouts -> Row] /\ handlers \subseteq HandlerRecord
  BY <1>1 DEF Init
<1>3. work \in Works /\ stage \in [Checkouts -> Stages]
  BY DEF Init, Works, Stages
<1>4. charges \in [Checkouts -> Nat] /\ faults \in Nat
  BY DEF Init
<1>5. QED
  BY <1>2, <1>3, <1>4 DEF Init, TypeOK

LEMMA TypeStep ==
  ASSUME TypeOK, [Next]_vars
  PROVE  TypeOK'
<1>1. ASSUME UNCHANGED vars PROVE TypeOK'
  BY <1>1 DEF TypeOK, vars, rowVars, providerVars, faultVars
<1>2. QED
  BY <1>1, PanelTyped, OthersTyped DEF Next

(* Every variable keeps its type, whatever the number of checkouts.        *)
THEOREM CheckoutTyped == Spec => []TypeOK
  BY InitTyped, TypeStep, PTL DEF Spec

-----------------------------------------------------------------------------
(* The invariant, in parts.                                                *)

Proof == {"settled", "payment", "activated"}      \* said only of a confirmed payment
Granting == Proof \cup {"charge", "reconcile"}     \* said by what may open the access

\* What is known of a payment is true at the provider.
HasProof(h) ==
  \/ h.on \in Proof
  \/ h.seen.status = "paid"
  \/ h.on = "reconcile" /\ h.grant # "none"
  \/ h.grant \in {"open", "renew"}
MoneyInv ==
  /\ \A e \in events : e.on \in Proof => money[e.c]
  /\ \A c \in Checkouts : row[c].status = "paid" => money[c]
  /\ \A h \in handlers : HasProof(h) => money[h.c]
  /\ AccessIsPaid

\* Each method has its events.
OfMethod(k, m) ==
  /\ k \in {"opened", "settled", "canceled", "expired"} => m = "hosted"
  /\ k \in {"charge", "reconcile"} => m = "native"
  /\ k \in AuthorizationKinds => m = "auto"
  /\ k = "look" => m # "auto"
KindInv ==
  /\ \A e \in events : OfMethod(e.on, method[e.c])
  /\ \A h \in handlers :
        /\ OfMethod(h.on, method[h.c])
        /\ h.grant \in {"open", "renew"} =>
              h.on \in Granting /\ (method[h.c] = "auto" => h.on = "activated")

\* A reference that is known stays known, and everything is about a row.
Exists(c) == row[c].status # "none"
KnownRow(c) ==
  /\ row[c].status = "none" => row[c] = NoRow
  /\ charges[c] > 0 \/ money[c] => Exists(c)
  /\ access[c] # "none" /\ method[c] = "native" => row[c].sub
KnownTo(h) ==
  /\ Exists(h.c)
  /\ method[h.c] = "native" /\ h.on # "look" => row[h.c].sub
RowInv ==
  /\ \A c \in Checkouts : KnownRow(c)
  /\ \A h \in handlers : KnownTo(h)
  /\ work.op = "create" => row[work.c] = NoRow
  /\ work.op = "pay" => method[work.c] = "native" /\ Exists(work.c) /\ ~row[work.c].sub

\* An authorization is activated once, when it ends to be open.
Finished(c) == stage[c] \notin {"none", "open"}
ActivatedInv ==
  /\ \A e \in events : e.on = "activated" => Finished(e.c)
  /\ \A h \in handlers : h.on = "activated" => Finished(h.c)
  /\ \A c \in Checkouts : access[c] # "none" /\ method[c] = "auto" => Finished(c)

\* Nothing is under way that could open an access that is over.
OverInv ==
  /\ \A e \in events : e.on \in Granting => access[e.c] # "over"
  /\ \A h \in handlers : h.on \in Granting => access[h.c] # "over"

\* One holder of the lock, and what it found stays so.
Holds(h) ==
  /\ h.locked <=> h.grant # "none"
  /\ h.locked => work = NoWork
  /\ h.grant = "open" => \A d \in Checkouts : ~Current(d)
  /\ h.grant = "renew" => access[h.c] # "none"
OneHolder == \A g, h \in handlers : g.locked /\ h.locked => g = h
LockInv ==
  /\ \A h \in handlers : Holds(h)
  /\ OneHolder
  /\ OneSubscription

\* What is charged is remembered.
Remembered(c) ==
  \/ row[c].sub
  \/ row[c].status \notin {"none", "active"}
  \/ work.op = "pay" /\ work.c = c /\ work.got # "nothing"
ChargeKept(c) ==
  /\ charges[c] <= 1
  /\ charges[c] > 0 => method[c] = "native" /\ Remembered(c)
ChargeInv ==
  ~crashed =>
     /\ \A c \in Checkouts : ChargeKept(c)
     /\ work.op = "pay" /\ work.got = "nothing" => charges[work.c] = 0

FactsInv == TypeOK /\ MoneyInv /\ KindInv /\ RowInv /\ ActivatedInv /\ OverInv
Inv == FactsInv /\ LockInv /\ ChargeInv

-----------------------------------------------------------------------------
(* What a step of the panel does.                                          *)

PanelRow(c) ==
  /\ row[c].sub => row'[c].sub
  /\ row'[c].status = "paid" => row[c].status = "paid"
  /\ Exists(c) => row'[c].status # "none"
  /\ row'[c].status = "none" => row'[c] = NoRow
PanelRows == \A c \in Checkouts : PanelRow(c)

\* Only the reconciliation of a charge joins the handlers.
PanelHandlers ==
  /\ handlers \subseteq handlers'
  /\ \A h \in handlers' \ handlers :
        /\ h.on = "reconcile" /\ h.grant = "none" /\ ~h.locked /\ h.seen.status = "active"
        /\ h.c \in Checkouts /\ method[h.c] = "native"
        /\ Exists(h.c) /\ ~row[h.c].sub /\ row'[h.c].sub

PanelEvents ==
  /\ events \subseteq events'
  /\ \A e \in events' \ events :
        /\ e.on \in {"opened", "authorized", "charge", "revoked"} /\ e.c \in Checkouts
        /\ OfMethod(e.on, method[e.c])
        /\ e.on = "charge" => ~row[e.c].sub

PanelStages == \A c \in Checkouts : stage'[c] \in {stage[c], "over"} \/ ~Exists(c)

PanelWork ==
  /\ work = NoWork /\ work' # NoWork => LockFree
  /\ work'.op = "create" => row'[work'.c] = NoRow
  /\ work'.op = "pay" => method[work'.c] = "native" /\ row'[work'.c].status # "none"
                           /\ ~row'[work'.c].sub

PanelMoves == PanelRows /\ PanelHandlers /\ PanelEvents /\ PanelStages /\ PanelWork

LEMMA SameRows ==
  ASSUME RowInv, UNCHANGED row
  PROVE  PanelRows
  BY DEF PanelRows, PanelRow, RowInv, KnownRow, Exists

LEMMA StatusRow ==
  ASSUME TypeOK, RowInv, NEW c \in Checkouts, NEW s \in Statuses \ {"none", "paid"},
         row' = [row EXCEPT ![c].status = s]
  PROVE  PanelRows
<1> SUFFICES ASSUME NEW d \in Checkouts PROVE PanelRow(d)
  BY DEF PanelRows
<1>1. row[d] \in Row /\ row' = [row EXCEPT ![c] = [row[c] EXCEPT !.status = s]]
  BY DEF TypeOK
<1>2. CASE d = c
  <2>1. row'[d] = [row[d] EXCEPT !.status = s]
    BY <1>1, <1>2 DEF TypeOK
  <2>2. row'[d].status = s /\ row'[d].sub = row[d].sub
    BY <1>1, <2>1 DEF Row
  <2>3. QED
    BY <2>2 DEF PanelRow
<1>3. CASE d # c
  <2>1. row'[d] = row[d]
    BY <1>1, <1>3 DEF TypeOK
  <2>2. QED
    BY <2>1 DEF PanelRow, Exists, RowInv, KnownRow
<1>4. QED
  BY <1>2, <1>3

LEMMA BoundMoves ==
  ASSUME TypeOK, RowInv, NEW c \in Checkouts, Bound(c),
         method[c] = "native", Exists(c), ~row[c].sub
  PROVE  PanelRows /\ PanelHandlers /\ row'[c].sub
<1> DEFINE r == [row[c] EXCEPT !.status = "active", !.sub = TRUE]
<1>1. /\ row' = [row EXCEPT ![c] = r] /\ handlers' = handlers \cup {Reconcile(c, r)}
      /\ row'[c] = r /\ r.sub = TRUE /\ r.status = "active"
  BY DEF Bound, TypeOK, Row
<1> HIDE DEF r
<1>2. PanelRows
  BY <1>1 DEF PanelRows, PanelRow, RowInv, KnownRow, Exists, TypeOK
<1>3. PanelHandlers
  BY <1>1 DEF PanelHandlers, Reconcile
<1>4. QED
  BY <1>1, <1>2, <1>3

LEMMA SameOthers ==
  /\ UNCHANGED handlers => PanelHandlers
  /\ UNCHANGED events => PanelEvents
  /\ UNCHANGED stage => PanelStages
  BY DEF PanelHandlers, PanelEvents, PanelStages

LEMMA NoWorkMoves ==
  ASSUME work' = NoWork
  PROVE  PanelWork
  BY DEF PanelWork, NoWork

LEMMA PanelDoes ==
  ASSUME TypeOK, RowInv, Panel
  PROVE  UNCHANGED <<method, access, money>> /\ PanelMoves
<1> USE SameRows, SameOthers DEF PanelMoves
<1>1. CASE BeginCreate
  <2> DEFINE S == Newest({c \in Checkouts : Blocks(c)})
  <2>1. PICK c \in Next1 : IF method[c] = "native"
                 THEN /\ row' = [Retired(row, S) EXCEPT ![c].status = "active"]
                      /\ UNCHANGED work
                 ELSE /\ work' = Asking("create", c, S)
                      /\ UNCHANGED row
    BY <1>1 DEF BeginCreate
  <2>2. c \in Checkouts /\ row[c] = NoRow
    BY DEF Next1
  <2> HIDE DEF S
  <2>3. CASE method[c] = "native"
    <3>1. row' = [Retired(row, S) EXCEPT ![c].status = "active"] /\ work' = NoWork
      BY <1>1, <2>1, <2>3 DEF BeginCreate, LockFree
    <3>2. Retired(row, S) \in [Checkouts -> Row]
      BY RetiredTyped DEF TypeOK
    <3>3. ASSUME NEW d \in Checkouts PROVE PanelRow(d)
      <4>1. row[d] \in Row /\ Retired(row, S)[d] \in {row[d], [row[d] EXCEPT !.status = "expired"]}
        BY DEF TypeOK, Retired
      <4>2. Retired(row, S)[d].sub = row[d].sub
            /\ Retired(row, S)[d].status \in {row[d].status, "expired"}
        BY <4>1 DEF Row
      <4>3. CASE d = c
        <5>1. row'[d] = [Retired(row, S)[d] EXCEPT !.status = "active"]
          BY <3>1, <3>2, <4>3, <2>2
        <5>2. row'[d].sub = row[d].sub /\ row'[d].status = "active"
          BY <5>1, <4>2, <3>2 DEF Row
        <5>3. QED
          BY <5>2 DEF PanelRow
      <4>4. CASE d # c
        <5>1. row'[d] = Retired(row, S)[d]
          BY <3>1, <3>2, <4>4, <2>2
        <5>2. row'[d].status = "none" => row'[d] = row[d]
          <6>1. CASE row'[d] = row[d]
            BY <6>1
          <6>2. CASE row'[d] = [row[d] EXCEPT !.status = "expired"]
            BY <6>2, <4>1 DEF Row
          <6>3. QED
            BY <5>1, <4>1, <6>1, <6>2
        <5>3. QED
          BY <5>1, <5>2, <4>2 DEF PanelRow, RowInv, KnownRow, Exists
      <4>5. QED
        BY <4>3, <4>4
    <3>4. QED
      BY <1>1, <3>1, <3>3, NoWorkMoves DEF BeginCreate, providerVars, PanelRows
  <2>4. CASE method[c] # "native"
    <3>1. work' = Asking("create", c, S) /\ UNCHANGED row /\ LockFree
      BY <1>1, <2>1, <2>4 DEF BeginCreate
    <3>2. PanelWork
      BY <3>1, <2>2 DEF PanelWork, Asking
    <3>3. QED
      BY <1>1, <3>1, <3>2 DEF BeginCreate, providerVars
  <2>5. QED
    BY <2>3, <2>4
<1>2. CASE RepeatCreate
  <2>1. PICK c \in Checkouts : row' = [row EXCEPT ![c].status = "expired"]
    BY <1>2 DEF RepeatCreate
  <2>2. PanelRows
    BY <2>1, StatusRow DEF Statuses
  <2>3. work' = NoWork
    BY <1>2 DEF RepeatCreate, LockFree
  <2>4. QED
    BY <1>2, <2>2, <2>3, NoWorkMoves DEF RepeatCreate, providerVars
<1>3. CASE ProviderOpens
  <2> DEFINE S == [native |-> {}, hosted |-> {"opened"}, pix |-> {},
                   auto |-> {"authorized"}][method[work.c]]
  <2>1. /\ work.op = "create" /\ work.c \in Checkouts /\ ~Exists(work.c) /\ work # NoWork
        /\ method[work.c] \in Methods
    BY <1>3, WorkFields, MethodTyped DEF ProviderOpens, RowInv, Exists, NoRow
  <2>2. \/ stage' = [stage EXCEPT ![work.c] = "open"] /\ Send(S, work.c)
        \/ UNCHANGED <<stage, events>>
    BY <1>3 DEF ProviderOpens
  <2>3. \A k \in S : /\ k \in {"opened", "authorized"}
                     /\ OfMethod(k, method[work.c])
    BY <2>1 DEF Methods, OfMethod, AuthorizationKinds
  <2> HIDE DEF S
  <2>4. PanelEvents
    BY <2>1, <2>2, <2>3 DEF PanelEvents, Send
  <2>5. PanelStages
    BY <2>1, <2>2 DEF PanelStages, TypeOK
  <2>6. work'.op = "create" /\ work'.c = work.c
    BY <1>3, <2>1, WorkFields DEF ProviderOpens, TypeOK, Works
  <2>7. PanelWork
    BY <1>3, <2>1, <2>6 DEF PanelWork, ProviderOpens, RowInv, rowVars
  <2>8. QED
    BY <1>3, <2>4, <2>5, <2>7 DEF ProviderOpens, rowVars
<1>4. CASE EndCreate
  <2>1. work.c \in Checkouts /\ row[work.c] = NoRow
    BY <1>4, WorkFields DEF EndCreate, RowInv
  <2>2. PICK made \in Row : /\ row' = [Retired(row, work.retired) EXCEPT ![work.c] = made]
                            /\ made.status \notin {"none", "paid"}
    <3>1. /\ [NoRow EXCEPT !.status = "active", !.ref = TRUE, !.sub = (method[work.c] = "auto")] \in Row
          /\ [NoRow EXCEPT !.status = "creating"] \in Row
          /\ [NoRow EXCEPT !.status = "failed"] \in Row
      BY DEF NoRow, Row, Statuses
    <3>2. QED
      BY <1>4, <3>1 DEF EndCreate, NoRow
  <2>3. Retired(row, work.retired) \in [Checkouts -> Row]
    BY RetiredTyped DEF TypeOK
  <2>4. ASSUME NEW d \in Checkouts PROVE PanelRow(d)
    <3>1. row[d] \in Row
          /\ Retired(row, work.retired)[d] \in {row[d], [row[d] EXCEPT !.status = "expired"]}
      BY DEF TypeOK, Retired
    <3>2. CASE d = work.c
      BY <2>1, <2>2, <2>3, <3>2 DEF PanelRow, Exists, NoRow
    <3>3. CASE d # work.c
      <4>1. row'[d] = Retired(row, work.retired)[d]
        BY <2>1, <2>2, <2>3, <3>3
      <4>2. CASE row'[d] = row[d]
        BY <4>2 DEF PanelRow, RowInv, KnownRow, Exists
      <4>3. CASE row'[d] = [row[d] EXCEPT !.status = "expired"]
        BY <4>3, <3>1 DEF PanelRow, Row
      <4>4. QED
        BY <3>1, <4>1, <4>2, <4>3
    <3>4. QED
      BY <3>2, <3>3
  <2>5. QED
    BY <1>4, <2>4, NoWorkMoves DEF EndCreate, providerVars, PanelRows
<1>5. CASE BeginPay
  <2>1. PICK c \in Checkouts : Payable(c) /\ Chargeable(c) /\ work' = Asking("pay", c, {})
    BY <1>5 DEF BeginPay
  <2>2. PanelWork
    BY <1>5, <2>1 DEF PanelWork, Asking, BeginPay, Payable, Chargeable, rowVars
  <2>3. QED
    BY <1>5, <2>2 DEF BeginPay, rowVars, providerVars
<1>6. CASE ProviderCharges
  <2>1. /\ work.op = "pay" /\ work.c \in Checkouts /\ work # NoWork
        /\ method[work.c] = "native" /\ Exists(work.c) /\ ~row[work.c].sub
    BY <1>6, WorkFields DEF ProviderCharges, RowInv
  <2>2. Send({"charge"}, work.c) \/ UNCHANGED events
    BY <1>6 DEF ProviderCharges
  <2>3. PanelEvents
    BY <2>1, <2>2 DEF PanelEvents, Send, OfMethod, AuthorizationKinds
  <2>4. CASE work' = NoWork
    BY <1>6, <2>3, <2>4, NoWorkMoves DEF ProviderCharges, rowVars
  <2>5. CASE work' # NoWork
    <3>1. work'.op = "pay" /\ work'.c = work.c
      BY <1>6, <2>1, <2>5, WorkFields DEF ProviderCharges, TypeOK, Works
    <3>2. PanelWork
      BY <1>6, <2>1, <3>1 DEF PanelWork, ProviderCharges, rowVars, Exists
    <3>3. QED
      BY <1>6, <2>3, <3>2 DEF ProviderCharges, rowVars
  <2>6. QED
    BY <2>4, <2>5
<1>7. CASE EndPay
  <2>1. /\ work.c \in Checkouts /\ method[work.c] = "native"
        /\ Exists(work.c) /\ ~row[work.c].sub
    BY <1>7, WorkFields DEF EndPay, RowInv
  <2>2. \/ Bound(work.c)
        \/ row' = [row EXCEPT ![work.c].status = "creating"] /\ UNCHANGED handlers
    BY <1>7 DEF EndPay
  <2>3. PanelRows /\ PanelHandlers
    <3>1. CASE Bound(work.c)
      BY <2>1, <3>1, BoundMoves
    <3>2. CASE row' = [row EXCEPT ![work.c].status = "creating"] /\ UNCHANGED handlers
      BY <2>1, <3>2, StatusRow DEF Statuses
    <3>3. QED
      BY <2>2, <3>1, <3>2
  <2>4. QED
    BY <1>7, <2>3, NoWorkMoves DEF EndPay, providerVars
<1>8. CASE RetryPay
  <2>1. PICK c \in Checkouts : Payable(c) /\ row[c].status = "creating" /\ Bound(c)
    BY <1>8 DEF RetryPay
  <2>2. PanelRows /\ PanelHandlers
    BY <2>1, BoundMoves DEF Payable, Exists
  <2>3. work' = NoWork
    BY <1>8 DEF RetryPay, LockFree
  <2>4. QED
    BY <1>8, <2>2, <2>3, NoWorkMoves DEF RetryPay, providerVars
<1>9. CASE PayTooLate
  <2>1. PICK c \in Checkouts : row' = [row EXCEPT ![c].status = "expired"]
    BY <1>9 DEF PayTooLate
  <2>2. PanelRows
    BY <2>1, StatusRow DEF Statuses
  <2>3. work' = NoWork
    BY <1>9 DEF PayTooLate, LockFree
  <2>4. QED
    BY <1>9, <2>2, <2>3, NoWorkMoves DEF PayTooLate, providerVars
<1>10. CASE BeginCancel
  <2>1. work'.op = "cancel" /\ LockFree
    BY <1>10 DEF BeginCancel, Asking
  <2>2. PanelWork
    BY <2>1 DEF PanelWork
  <2>3. QED
    BY <1>10, <2>2 DEF BeginCancel, rowVars, providerVars
<1>11. CASE ProviderCancels
  <2> DEFINE S == IF method[work.c] = "auto" /\ stage[work.c] # "over" THEN {"revoked"} ELSE {}
  <2>1. work.op = "cancel" /\ work.c \in Checkouts /\ work # NoWork
    BY <1>11, WorkFields DEF ProviderCancels
  <2>2. \/ stage' = [stage EXCEPT ![work.c] = "over"] /\ Send(S, work.c)
        \/ UNCHANGED <<stage, events>>
    BY <1>11 DEF ProviderCancels
  <2>3. \A k \in S : k = "revoked" /\ OfMethod(k, method[work.c])
    BY DEF OfMethod, AuthorizationKinds
  <2> HIDE DEF S
  <2>4. PanelEvents
    BY <2>1, <2>2, <2>3 DEF PanelEvents, Send
  <2>5. PanelStages
    BY <2>1, <2>2 DEF PanelStages, TypeOK
  <2>6. work'.op \in {"cancel", "none"}
    BY <1>11, <2>1 DEF ProviderCancels, TypeOK, Works, NoWork
  <2>7. PanelWork
    BY <2>1, <2>6 DEF PanelWork
  <2>8. QED
    BY <1>11, <2>4, <2>5, <2>7 DEF ProviderCancels, rowVars
<1>12. CASE EndCancel
  <2>1. work.c \in Checkouts /\ row' = [row EXCEPT ![work.c].status = "canceled"]
    BY <1>12, WorkFields DEF EndCancel
  <2>2. PanelRows
    BY <2>1, StatusRow DEF Statuses
  <2>3. QED
    BY <1>12, <2>2, NoWorkMoves DEF EndCancel, providerVars
<1>13. CASE WorkDies
  BY <1>13, NoWorkMoves DEF WorkDies, rowVars, providerVars
<1>14. QED
  BY <1>1, <1>2, <1>3, <1>4, <1>5, <1>6, <1>7, <1>8, <1>9, <1>10, <1>11, <1>12, <1>13 DEF Panel

-----------------------------------------------------------------------------
(* What the other steps do.                                                *)

Quiet ==
  /\ UNCHANGED <<method, row, access, work, stage, charges, money>>
  /\ handlers' \subseteq handlers /\ events' \subseteq events

Loaded(h) ==
  /\ UNCHANGED <<method, row, access, work, stage, charges, money, events>>
  /\ handlers' = handlers \cup {h}
  /\ h.c \in Checkouts /\ h.seen = row[h.c] /\ ~h.locked /\ h.grant = "none"
  /\ \/ h.on = "look" /\ row[h.c].status = "active" /\ method[h.c] # "auto"
     \/ \E e \in events : e.on = h.on /\ e.c = h.c /\ Found(e)

Decided1 ==
  /\ UNCHANGED <<method, row, access, work, stage, charges, money, events>>
  /\ \E h \in handlers, g \in HandlerRecord, grant \in {"nothing", "renew", "refuse", "open"} :
        Decision(h, g, grant)

Committed(h) ==
  /\ UNCHANGED <<method, work, stage, charges, money>>
  /\ h \in handlers
  /\ TakesLock(h) => h.grant # "none"
  /\ h.on = "reconcile" => h.grant # "none"
  /\ row' = [row EXCEPT ![h.c] = Written(row[h.c], h.seen, Updated(h, h.seen))]
  /\ access' = [access EXCEPT ![h.c] = NewAccess(h)]
  /\ handlers' = handlers \ {h} /\ events' \subseteq events

PaidBy(c) ==
  /\ UNCHANGED <<method, row, access, work, handlers, charges>>
  /\ ~money[c] /\ money' = [money EXCEPT ![c] = TRUE]
  /\ Exists(c)
  /\ \A e \in events' \ events : e.c = c /\ e.on \in {"settled", "payment"}
                                 /\ OfMethod(e.on, method[c])
  /\ \A d \in Checkouts : stage'[d] \in {stage[d], "done"}

Ended(c) ==
  /\ UNCHANGED <<method, row, access, work, handlers, charges, money>>
  /\ \A e \in events' \ events :
        /\ e.c = c /\ OfMethod(e.on, method[c]) /\ e.on \notin {"settled", "payment", "charge", "reconcile"}
        /\ e.on = "activated" => money[c] /\ method[c] = "auto" /\ stage[c] = "open"
  /\ \E s \in {"done", "over"} : stage' = [stage EXCEPT ![c] = s]

AccessOver(c) ==
  /\ UNCHANGED <<method, row, work, handlers, stage, charges, money, events>>
  /\ Current(c) /\ (\A e \in events : e.c # c) /\ (\A h \in handlers : h.c # c)
  /\ access' = [access EXCEPT ![c] = "over"]

LEMMA LoadDoes ==
  ASSUME TypeOK, Load
  PROVE  \E h \in HandlerRecord : Loaded(h)
<1>1. UNCHANGED <<method, row, access, work, stage, charges, money, events>>
  BY DEF Load, rowVars, providerVars
<1>2. CASE \E e \in events : Found(e) /\ handlers' = handlers \cup {Handler(e)}
  <2>1. PICK e \in events : Found(e) /\ handlers' = handlers \cup {Handler(e)}
    BY <1>2
  <2>2. e.c \in Checkouts /\ Handler(e) \in HandlerRecord
    BY HandlerTyped DEF TypeOK, Event
  <2>3. Loaded(Handler(e))
    BY <1>1, <2>1, <2>2 DEF Loaded, Handler
  <2>4. QED
    BY <2>2, <2>3
<1>3. CASE ~ \E e \in events : Found(e) /\ handlers' = handlers \cup {Handler(e)}
  <2>1. PICK c \in Checkouts :
             /\ row[c].status = "active"
             /\ method[c] \in Card \/ (method[c] = "pix" /\ row[c].ref)
             /\ handlers' = handlers \cup {Handler([on |-> "look", c |-> c])}
    BY <1>3 DEF Load
  <2> DEFINE h == Handler([on |-> "look", c |-> c])
  <2>2. h \in HandlerRecord
    BY HandlerTyped
  <2>3. Loaded(h)
    BY <1>1, <2>1 DEF Loaded, Handler, Card
  <2>4. QED
    BY <2>2, <2>3
<1>4. QED
  BY <1>2, <1>3

LEMMA PaysDoes ==
  ASSUME TypeOK, RowInv, Pays
  PROVE  \E c \in Checkouts : PaidBy(c)
<1>1. PICK c \in Checkouts :
          /\ ~money[c] /\ money' = [money EXCEPT ![c] = TRUE]
          /\ method[c] = "native" => charges[c] > 0 /\ Send({"payment"}, c) /\ UNCHANGED stage
          /\ method[c] # "native" => row[c].ref
          /\ method[c] = "hosted" => Send({"settled", "payment"}, c)
          /\ method[c] # "hosted" => Send({"payment"}, c)
          /\ stage' = [stage EXCEPT ![c] = "done"] \/ UNCHANGED stage
  BY DEF Pays
<1>2. Exists(c)
  BY <1>1 DEF RowInv, KnownRow, NoRow, Exists
<1>3. \A e \in events' \ events : e.c = c /\ e.on \in {"settled", "payment"}
                                   /\ OfMethod(e.on, method[c])
  BY <1>1 DEF Send, OfMethod, AuthorizationKinds
<1>4. \A d \in Checkouts : stage'[d] \in {stage[d], "done"}
  BY <1>1 DEF TypeOK
<1>5. PaidBy(c)
  BY <1>1, <1>2, <1>3, <1>4 DEF PaidBy, Pays, rowVars
<1>6. QED
  BY <1>5

LEMMA EndsDoes ==
  ASSUME TypeOK, StageEnds
  PROVE  \E c \in Checkouts : Ended(c)
<1>1. PICK c \in Checkouts,
           k \in {"expired", "canceled", "activated", "refused", "lapsed", "revoked"},
           s \in {"done", "over"} :
          /\ Send({k}, c) /\ stage' = [stage EXCEPT ![c] = s]
          /\ k \in {"expired", "canceled"} => method[c] = "hosted"
          /\ k \notin {"expired", "canceled"} => method[c] = "auto"
          /\ k = "activated" => money[c] /\ stage[c] = "open"
  BY DEF StageEnds
<1>2. \A e \in events' \ events : e.on = k /\ e.c = c
  BY <1>1 DEF Send
<1>3. OfMethod(k, method[c])
  BY <1>1 DEF OfMethod, AuthorizationKinds
<1>4. Ended(c)
  BY <1>1, <1>2, <1>3 DEF Ended, StageEnds, rowVars
<1>5. QED
  BY <1>4

LEMMA StepDoes ==
  ASSUME TypeOK, RowInv, [Next]_vars
  PROVE  \/ Panel
         \/ Quiet
         \/ \E h \in HandlerRecord : Loaded(h)
         \/ Decided1
         \/ \E h \in handlers : Committed(h)
         \/ \E c \in Checkouts : PaidBy(c)
         \/ \E c \in Checkouts : Ended(c)
         \/ \E c \in Checkouts : AccessOver(c)
<1>1. CASE UNCHANGED vars
  BY <1>1 DEF Quiet, vars, rowVars, providerVars
<1>2. CASE Unknown
  BY <1>2 DEF Quiet, Unknown, rowVars
<1>3. CASE Elapse
  BY <1>3 DEF Quiet, Elapse, rowVars, providerVars
<1>4. CASE HandlerDies
  BY <1>4 DEF Quiet, HandlerDies, rowVars, providerVars
<1>5. CASE Decide
  BY <1>5, Decided DEF Decided1, Decide, rowVars, providerVars
<1>6. CASE Commit
  BY <1>6 DEF Committed, Commit
<1>7. CASE AccessEnds
  BY <1>7 DEF AccessOver, AccessEnds, providerVars
<1>8. QED
  BY <1>1, <1>2, <1>3, <1>4, <1>5, <1>6, <1>7, LoadDoes, PaysDoes, EndsDoes
     DEF Next, Webhooks, Outside

\* What is written by a commit.
LEMMA CommitDoes ==
  ASSUME TypeOK, NEW h \in handlers, Committed(h)
  PROVE  /\ h \in HandlerRecord /\ h.c \in Checkouts /\ h.seen \in Row
         /\ \A d \in Checkouts : d # h.c => row'[d] = row[d] /\ access'[d] = access[d]
         /\ access'[h.c] = NewAccess(h)
         /\ row[h.c].sub => row'[h.c].sub
         /\ row[h.c].status # "none" => row'[h.c].status # "none"
         /\ row'[h.c].status = "paid" =>
               row[h.c].status = "paid" \/ h.seen.status = "paid"
                  \/ h.on \in {"settled", "payment", "activated", "reconcile"}
         /\ row'[h.c].status = "active" =>
               row[h.c].status = "active" \/ h.on \in {"opened", "authorized"}
<1> DEFINE new == Updated(h, h.seen)
<1>1. h \in HandlerRecord /\ h.c \in Checkouts /\ h.seen \in Row /\ row[h.c] \in Row
  BY DEF TypeOK, HandlerRecord
<1>2. /\ new \in Row
      /\ h.seen.sub => new.sub
      /\ new.status = "none" => h.seen.status = "none"
      /\ new.status = "paid" =>
            h.seen.status = "paid" \/ h.on \in {"settled", "payment", "activated", "reconcile"}
      /\ new.status = "active" =>
            h.seen.status = "active" \/ h.on \in {"opened", "authorized"}
  BY <1>1, UpdatedTyped
<1> HIDE DEF new
<1>3. /\ row'[h.c] = Written(row[h.c], h.seen, new) /\ access'[h.c] = NewAccess(h)
      /\ \A d \in Checkouts : d # h.c => row'[d] = row[d] /\ access'[d] = access[d]
  BY <1>1 DEF Committed, TypeOK, new
<1>4. /\ row'[h.c].status = IF new.status # h.seen.status THEN new.status ELSE row[h.c].status
      /\ row'[h.c].sub = IF new.sub # h.seen.sub THEN new.sub ELSE row[h.c].sub
  BY <1>1, <1>2, <1>3, WrittenTyped
<1>5. new.sub \in BOOLEAN /\ h.seen.sub \in BOOLEAN /\ row[h.c].sub \in BOOLEAN
  BY <1>1, <1>2 DEF Row
<1>6. row[h.c].sub => row'[h.c].sub
  BY <1>2, <1>4, <1>5
<1>7. QED
  BY <1>1, <1>2, <1>3, <1>4, <1>6

-----------------------------------------------------------------------------
(* Each part is kept.                                                      *)

\* What a decision to open an access rests on.
Rests(h, g, grant) ==
  /\ h.c \in Checkouts /\ g.seen \in {h.seen, row[h.c]}
  /\ h.on = "reconcile" => money[h.c]
  /\ grant \in {"open", "renew"} =>
        /\ h.on \in Granting /\ (method[h.c] = "auto" => h.on = "activated")
        /\ g.seen.status = "paid" \/ h.on \in {"settled", "payment", "activated", "reconcile"}
  /\ \A k \in handlers' :
        \/ k \in handlers \ {h}
        \/ /\ k = [g EXCEPT !.locked = TRUE, !.grant = grant]
           /\ k.on = h.on /\ k.c = h.c /\ k.seen = g.seen /\ k.locked /\ k.grant = grant

LEMMA GrantRests ==
  ASSUME TypeOK, NEW h \in handlers, NEW g \in HandlerRecord,
         NEW grant \in {"nothing", "renew", "refuse", "open"}, Decision(h, g, grant)
  PROVE  Rests(h, g, grant)
<1>1. /\ h \in HandlerRecord /\ h.c \in Checkouts
      /\ g.on = h.on /\ g.c = h.c /\ g.seen \in {h.seen, row[h.c]}
  BY DEF TypeOK, HandlerRecord, Decision, Refreshed
<1>2. ASSUME grant \in {"open", "renew"}
      PROVE  /\ h.on \in Granting /\ (method[h.c] = "auto" => h.on = "activated")
             /\ g.seen.status = "paid" \/ h.on \in {"settled", "payment", "activated", "reconcile"}
  <2>1. Grants(g, Updated(g, g.seen))
    BY <1>2 DEF Decision
  <2>2. method[g.c] \in Methods
    BY <1>1, MethodTyped
  <2>3. Updated(g, g.seen).status = "paid"
    BY <2>1 DEF Grants
  <2>4. g.seen.status = "paid" \/ g.on \in {"settled", "payment", "activated", "reconcile"}
    BY <2>3, UpdatedTyped DEF HandlerRecord
  <2>5. g.on \in Granting /\ (method[g.c] = "auto" => g.on = "activated")
    BY <2>1, <2>2 DEF Grants, Granting, Proof, Card, Methods
  <2>6. QED
    BY <1>1, <2>4, <2>5
<1>3. [g EXCEPT !.locked = TRUE, !.grant = grant].on = g.on
      /\ [g EXCEPT !.locked = TRUE, !.grant = grant].c = g.c
      /\ [g EXCEPT !.locked = TRUE, !.grant = grant].seen = g.seen
      /\ [g EXCEPT !.locked = TRUE, !.grant = grant].locked
      /\ [g EXCEPT !.locked = TRUE, !.grant = grant].grant = grant
  BY DEF HandlerRecord
<1>4. QED
  BY <1>1, <1>2, <1>3 DEF Decision, Rests

LEMMA MoneyStep ==
  ASSUME TypeOK, RowInv, MoneyInv, [Next]_vars
  PROVE  MoneyInv'
<1>1. CASE Panel
  <2>1. UNCHANGED <<access, money>> /\ PanelRows /\ PanelHandlers /\ PanelEvents
    BY <1>1, PanelDoes DEF PanelMoves
  <2>2. \A e \in events' : e.on \in Proof => money[e.c]
    BY <2>1 DEF PanelEvents, MoneyInv, Proof
  <2>3. \A c \in Checkouts : row'[c].status = "paid" => money[c]
    BY <2>1 DEF PanelRows, PanelRow, MoneyInv
  <2>4. \A h \in handlers' \ handlers : ~HasProof(h)
    BY <2>1 DEF PanelHandlers, Proof, HasProof
  <2>5. QED
    BY <2>1, <2>2, <2>3, <2>4 DEF MoneyInv, AccessIsPaid
<1>2. CASE Quiet
  BY <1>2 DEF Quiet, MoneyInv, AccessIsPaid
<1>3. ASSUME NEW h \in HandlerRecord, Loaded(h) PROVE MoneyInv'
  <2>1. h.on \in Proof => money[h.c]
    BY <1>3 DEF Loaded, MoneyInv, Proof
  <2>2. h.seen.status = "paid" => money[h.c]
    BY <1>3 DEF Loaded, MoneyInv
  <2>3. QED
    BY <1>3, <2>1, <2>2 DEF Loaded, MoneyInv, HasProof, AccessIsPaid
<1>4. CASE Decided1
  <2>1. UNCHANGED <<row, access, money, events>>
    BY <1>4 DEF Decided1
  <2>2. \A k \in handlers' : HasProof(k) => money[k.c]
    <3>1. PICK h \in handlers, g \in HandlerRecord,
               grant \in {"nothing", "renew", "refuse", "open"} : Decision(h, g, grant)
      BY <1>4 DEF Decided1
    <3>2. Rests(h, g, grant)
      BY <3>1, GrantRests
    <3>3. h.c \in Checkouts /\ (g.seen.status = "paid" => money[h.c])
      BY <3>2 DEF Rests, MoneyInv, HasProof
    <3>4. h.on \in Proof \cup {"reconcile"} => money[h.c]
      BY <3>2 DEF Rests, MoneyInv, HasProof
    <3>5. grant \in {"open", "renew"} => money[h.c]
      BY <3>2, <3>3, <3>4 DEF Rests, Proof
    <3>6. QED
      BY <3>2, <3>3, <3>4, <3>5 DEF Rests, MoneyInv, HasProof
  <2>3. \A e \in events' : e.on \in Proof => money'[e.c]
    BY <2>1 DEF MoneyInv
  <2>4. \A c \in Checkouts : row'[c].status = "paid" => money'[c]
    BY <2>1 DEF MoneyInv
  <2>5. \A k \in handlers' : HasProof(k) => money'[k.c]
    BY <2>1, <2>2
  <2>6. AccessIsPaid'
    BY <2>1 DEF MoneyInv, AccessIsPaid
  <2>7. QED
    BY <2>3, <2>4, <2>5, <2>6 DEF MoneyInv
<1>5. ASSUME NEW h \in handlers, Committed(h) PROVE MoneyInv'
  <2>1. /\ h.c \in Checkouts
        /\ \A d \in Checkouts : d # h.c => row'[d] = row[d] /\ access'[d] = access[d]
        /\ access'[h.c] = NewAccess(h)
        /\ row'[h.c].status = "paid" =>
               row[h.c].status = "paid" \/ h.seen.status = "paid"
                  \/ h.on \in {"settled", "payment", "activated", "reconcile"}
    BY <1>5, CommitDoes
  <2>2. h.on \in {"settled", "payment", "activated", "reconcile"} => money[h.c]
    BY <1>5 DEF Committed, MoneyInv, HasProof, Proof
  <2>3. \A c \in Checkouts : row'[c].status = "paid" => money[c]
    BY <2>1, <2>2 DEF MoneyInv, HasProof
  <2>4. NewAccess(h) # "none" => money[h.c]
    BY <2>1 DEF NewAccess, MoneyInv, HasProof, AccessIsPaid
  <2>5. \A c \in Checkouts : access'[c] # "none" => money[c]
    BY <2>1, <2>4 DEF MoneyInv, AccessIsPaid
  <2>6. QED
    BY <1>5, <2>3, <2>5 DEF Committed, MoneyInv, AccessIsPaid
<1>6. ASSUME NEW c \in Checkouts, PaidBy(c) PROVE MoneyInv'
  <2>1. /\ money'[c] /\ \A d \in Checkouts : money[d] => money'[d]
        /\ \A d \in Checkouts : d # c => money'[d] = money[d]
    BY <1>6 DEF PaidBy, TypeOK
  <2>2. (\A e \in events : e.c \in Checkouts) /\ (\A h \in handlers : h.c \in Checkouts)
    BY DEF TypeOK, Event, HandlerRecord
  <2>3. \A e \in events' : e.on \in Proof => money'[e.c]
    BY <1>6, <2>1, <2>2 DEF PaidBy, MoneyInv
  <2>4. QED
    BY <1>6, <2>1, <2>2, <2>3 DEF PaidBy, MoneyInv, AccessIsPaid
<1>7. ASSUME NEW c \in Checkouts, Ended(c) PROVE MoneyInv'
  BY <1>7 DEF Ended, MoneyInv, Proof, AccessIsPaid
<1>8. ASSUME NEW c \in Checkouts, AccessOver(c) PROVE MoneyInv'
  <2>1. money[c] /\ \A d \in Checkouts : access'[d] # "none" => d = c \/ access[d] # "none"
    BY <1>8 DEF AccessOver, Current, MoneyInv, AccessIsPaid, TypeOK
  <2>2. QED
    BY <1>8, <2>1 DEF AccessOver, MoneyInv, AccessIsPaid
<1>9. QED
  BY <1>1, <1>2, <1>3, <1>4, <1>5, <1>6, <1>7, <1>8, StepDoes

LEMMA KindStep ==
  ASSUME TypeOK, RowInv, KindInv, [Next]_vars
  PROVE  KindInv'
<1>1. CASE Panel
  <2>1. UNCHANGED method /\ PanelHandlers /\ PanelEvents
    BY <1>1, PanelDoes DEF PanelMoves
  <2>2. \A e \in events' : OfMethod(e.on, method[e.c])
    BY <2>1 DEF PanelEvents, KindInv
  <2>3. \A h \in handlers' \ handlers : OfMethod(h.on, method[h.c]) /\ h.grant = "none"
    BY <2>1 DEF PanelHandlers, OfMethod, AuthorizationKinds
  <2>4. QED
    BY <2>1, <2>2, <2>3 DEF KindInv, OfMethod, PanelHandlers
<1>2. CASE Quiet
  BY <1>2 DEF Quiet, KindInv, OfMethod
<1>3. ASSUME NEW h \in HandlerRecord, Loaded(h) PROVE KindInv'
  <2>1. OfMethod(h.on, method[h.c])
    <3>1. CASE h.on = "look" /\ method[h.c] # "auto"
      BY <3>1 DEF OfMethod, AuthorizationKinds
    <3>2. CASE ~(h.on = "look" /\ method[h.c] # "auto")
      BY <1>3, <3>2 DEF Loaded, KindInv
    <3>3. QED
      BY <3>1, <3>2
  <2>2. QED
    BY <1>3, <2>1 DEF Loaded, KindInv, OfMethod
<1>4. CASE Decided1
  <2>1. PICK h \in handlers, g \in HandlerRecord, grant \in {"nothing", "renew", "refuse", "open"} :
           Decision(h, g, grant)
    BY <1>4 DEF Decided1
  <2>2. \A k \in handlers' :
          /\ OfMethod(k.on, method[k.c])
          /\ k.grant \in {"open", "renew"} =>
                k.on \in Granting /\ (method[k.c] = "auto" => k.on = "activated")
    <3>1. Rests(h, g, grant)
      BY <2>1, GrantRests
    <3>2. QED
      BY <3>1 DEF Rests, KindInv
  <2>3. QED
    BY <1>4, <2>2 DEF Decided1, KindInv, OfMethod
<1>5. ASSUME NEW h \in handlers, Committed(h) PROVE KindInv'
  BY <1>5 DEF Committed, KindInv, OfMethod
<1>6. ASSUME NEW c \in Checkouts, PaidBy(c) PROVE KindInv'
  BY <1>6 DEF PaidBy, KindInv, OfMethod
<1>7. ASSUME NEW c \in Checkouts, Ended(c) PROVE KindInv'
  BY <1>7 DEF Ended, KindInv, OfMethod
<1>8. ASSUME NEW c \in Checkouts, AccessOver(c) PROVE KindInv'
  BY <1>8 DEF AccessOver, KindInv, OfMethod
<1>9. QED
  BY <1>1, <1>2, <1>3, <1>4, <1>5, <1>6, <1>7, <1>8, StepDoes

LEMMA FoundKnown ==
  ASSUME TypeOK, RowInv, MoneyInv, KindInv, NEW h \in HandlerRecord, Loaded(h)
  PROVE  KnownTo(h)
<1>1. CASE h.on = "look" /\ row[h.c].status = "active"
  BY <1>1 DEF KnownTo, Exists
<1>2. CASE \E e \in events : e.on = h.on /\ e.c = h.c /\ Found(e)
  <2>1. PICK e \in events : e.on = h.on /\ e.c = h.c /\ Found(e)
    BY <1>2
  <2>2. e.on \in AuthorizationKinds => method[h.c] = "auto" /\ row[h.c] # NoRow
    BY <2>1 DEF KindInv, OfMethod, Found
  <2>3. e.on \notin AuthorizationKinds /\ method[h.c] = "native" => row[h.c].sub
    BY <2>1 DEF Found
  <2>4. e.on \notin AuthorizationKinds /\ method[h.c] # "native" => row[h.c].ref
    BY <2>1 DEF Found
  <2>5. h.c \in Checkouts /\ KnownRow(h.c)
    BY DEF Loaded, RowInv
  <2>6. Exists(h.c)
    BY <2>2, <2>3, <2>4, <2>5 DEF KnownRow, NoRow, Exists
  <2>7. QED
    BY <2>1, <2>2, <2>3, <2>6 DEF KnownTo
<1>3. QED
  BY <1>1, <1>2 DEF Loaded

LEMMA RowStep ==
  ASSUME TypeOK, RowInv, MoneyInv, KindInv, [Next]_vars
  PROVE  RowInv'
<1>1. CASE Panel
  <2>1. UNCHANGED <<method, access, money>> /\ PanelRows /\ PanelHandlers /\ PanelWork
    BY <1>1, PanelDoes DEF PanelMoves
  <2>2. \A c \in Checkouts : charges'[c] > 0 => charges[c] > 0 \/ Exists(c)
    <3>1. CASE ProviderCharges
      <4>1. work.c \in Checkouts /\ Exists(work.c)
        BY <3>1, WorkFields DEF ProviderCharges, RowInv
      <4>2. charges' = [charges EXCEPT ![work.c] = @ + 1] \/ charges' = charges
        BY <3>1 DEF ProviderCharges
      <4>3. QED
        BY <4>1, <4>2 DEF TypeOK
    <3>2. CASE ~ProviderCharges
      <4>1. charges' = charges
        BY <1>1, <3>2 DEF Panel, BeginCreate, RepeatCreate, ProviderOpens, EndCreate, BeginPay,
              EndPay, RetryPay, PayTooLate, BeginCancel, ProviderCancels, EndCancel, WorkDies,
              providerVars
      <4>2. QED
        BY <4>1
    <3>3. QED
      BY <3>1, <3>2
  <2>3. ASSUME NEW c \in Checkouts PROVE KnownRow(c)'
    <3>1. PanelRow(c) /\ KnownRow(c)
      BY <2>1 DEF PanelRows, RowInv
    <3>2. charges'[c] > 0 \/ money'[c] => Exists(c)
      BY <2>1, <2>2, <3>1 DEF KnownRow
    <3>3. access'[c] # "none" /\ method'[c] = "native" => row[c].sub
      BY <2>1, <3>1 DEF KnownRow
    <3>4. QED
      BY <3>1, <3>2, <3>3 DEF KnownRow, PanelRow, Exists
  <2>4. ASSUME NEW h \in handlers' PROVE KnownTo(h)'
    <3>1. CASE h \in handlers
      <4>1. h.c \in Checkouts /\ KnownTo(h)
        BY <3>1 DEF TypeOK, HandlerRecord, RowInv
      <4>2. PanelRow(h.c)
        BY <2>1, <4>1 DEF PanelRows
      <4>3. QED
        BY <2>1, <4>1, <4>2 DEF KnownTo, PanelRow, Exists
    <3>2. CASE h \notin handlers
      <4>1. h.c \in Checkouts /\ Exists(h.c) /\ row'[h.c].sub
        BY <2>1, <3>2 DEF PanelHandlers
      <4>2. PanelRow(h.c)
        BY <2>1, <4>1 DEF PanelRows
      <4>3. QED
        BY <4>1, <4>2 DEF KnownTo, PanelRow, Exists
    <3>3. QED
      BY <3>1, <3>2
  <2>5. /\ work'.op = "create" => row'[work'.c] = NoRow
        /\ work'.op = "pay" => method'[work'.c] = "native" /\ Exists(work.c)' /\ ~row'[work'.c].sub
    BY <2>1 DEF PanelWork, Exists
  <2>6. QED
    BY <2>3, <2>4, <2>5 DEF RowInv
<1>2. ASSUME UNCHANGED <<method, row, access, work, charges, money>>,
             \A h \in handlers' : KnownTo(h)
      PROVE  RowInv'
  <2>1. ASSUME NEW c \in Checkouts PROVE KnownRow(c)'
    BY <1>2 DEF KnownRow, Exists, RowInv
  <2>2. ASSUME NEW h \in handlers' PROVE KnownTo(h)'
    BY <1>2 DEF KnownTo, Exists
  <2>3. /\ work'.op = "create" => row'[work'.c] = NoRow
        /\ work'.op = "pay" => method'[work'.c] = "native" /\ Exists(work.c)' /\ ~row'[work'.c].sub
    BY <1>2 DEF RowInv, Exists
  <2>4. QED
    BY <2>1, <2>2, <2>3 DEF RowInv
<1>3. CASE Quiet
  BY <1>2, <1>3 DEF Quiet, RowInv
<1>4. ASSUME NEW h \in HandlerRecord, Loaded(h) PROVE RowInv'
  <2>1. KnownTo(h)
    BY <1>4, FoundKnown
  <2>2. QED
    BY <1>2, <1>4, <2>1 DEF Loaded, RowInv
<1>5. CASE Decided1
  <2>1. ASSUME NEW k \in handlers' PROVE KnownTo(k)
    <3>1. PICK h \in handlers, g \in HandlerRecord,
               grant \in {"nothing", "renew", "refuse", "open"} : Decision(h, g, grant)
      BY <1>5 DEF Decided1
    <3>2. Rests(h, g, grant)
      BY <3>1, GrantRests
    <3>3. QED
      BY <3>2 DEF Rests, RowInv, KnownTo
  <2>2. QED
    BY <1>2, <1>5, <2>1 DEF Decided1
<1>6. ASSUME NEW h \in handlers, Committed(h) PROVE RowInv'
  <2>1. /\ h.c \in Checkouts
        /\ \A d \in Checkouts : d # h.c => row'[d] = row[d] /\ access'[d] = access[d]
        /\ access'[h.c] = NewAccess(h)
        /\ row[h.c].sub => row'[h.c].sub
        /\ row[h.c].status # "none" => row'[h.c].status # "none"
    BY <1>6, CommitDoes
  <2>2. KnownTo(h) /\ KnownRow(h.c)
    BY <2>1 DEF RowInv
  <2>3. row'[h.c].status # "none"
    BY <2>1, <2>2 DEF KnownTo, Exists
  <2>4. UNCHANGED <<method, work, charges, money>> /\ handlers' = handlers \ {h}
    BY <1>6 DEF Committed
  <2>5. access'[h.c] # "none" /\ method[h.c] = "native" => row'[h.c].sub
    <3>1. CASE h.on = "look"
      <4>1. h.grant \in {"open", "renew"} => h.on \in Granting
        BY DEF KindInv
      <4>2. NewAccess(h) = access[h.c]
        BY <3>1, <4>1 DEF NewAccess, Granting, Proof
      <4>3. QED
        BY <2>1, <2>2, <4>2 DEF KnownRow
    <3>2. CASE h.on # "look"
      BY <2>1, <2>2, <3>2 DEF KnownTo
    <3>3. QED
      BY <3>1, <3>2
  <2>6. ASSUME NEW c \in Checkouts PROVE KnownRow(c)'
    <3>1. CASE c = h.c
      BY <2>3, <2>4, <2>5, <3>1 DEF KnownRow, Exists
    <3>2. CASE c # h.c
      <4>1. KnownRow(c)
        BY DEF RowInv
      <4>2. QED
        BY <2>1, <2>4, <3>2, <4>1 DEF KnownRow, Exists
    <3>3. QED
      BY <3>1, <3>2
  <2>7. ASSUME NEW k \in handlers' PROVE KnownTo(k)'
    <3>1. KnownTo(k) /\ k.c \in Checkouts
      BY <2>4 DEF RowInv, TypeOK, HandlerRecord
    <3>2. row'[k.c].status # "none" /\ (row[k.c].sub => row'[k.c].sub)
      BY <2>1, <2>3, <3>1 DEF KnownTo, Exists
    <3>3. QED
      BY <2>4, <3>1, <3>2 DEF KnownTo, Exists
  <2>8. work.op \in {"create", "pay"} => work.c \in Checkouts
    BY WorkFields
  <2>9. work.op = "create" => work.c # h.c
    BY <2>2 DEF RowInv, KnownTo, Exists, NoRow
  <2>10. work.op = "pay" => ~row'[work.c].sub /\ row'[work.c].status # "none"
    <3>1. CASE work.op = "pay" /\ work.c = h.c
      <4>1. method[h.c] = "native" /\ ~row[h.c].sub
        BY <3>1 DEF RowInv
      <4>2. h.on = "look"
        BY <2>2, <4>1 DEF KnownTo
      <4>3. h.seen \in Row /\ row[h.c] \in Row
        BY <2>1 DEF TypeOK, HandlerRecord
      <4>4. Updated(h, h.seen) = [h.seen EXCEPT !.status = "expired"]
        BY <4>2 DEF Updated
      <4>5. Updated(h, h.seen) \in Row /\ Updated(h, h.seen).sub = h.seen.sub
        BY <4>3, <4>4 DEF Row, Statuses
      <4>6. row'[h.c] = Written(row[h.c], h.seen, Updated(h, h.seen))
        BY <1>6, <2>1 DEF Committed, TypeOK
      <4>7. row'[h.c].sub = row[h.c].sub
        BY <4>3, <4>5, <4>6, WrittenTyped
      <4>8. QED
        BY <2>3, <3>1, <4>1, <4>7
    <3>2. CASE work.op = "pay" /\ work.c # h.c
      BY <2>1, <2>8, <3>2 DEF RowInv, Exists
    <3>3. QED
      BY <3>1, <3>2
  <2>11. /\ work'.op = "create" => row'[work'.c] = NoRow
         /\ work'.op = "pay" => method'[work'.c] = "native" /\ Exists(work.c)' /\ ~row'[work'.c].sub
    BY <2>1, <2>4, <2>8, <2>9, <2>10 DEF RowInv, Exists
  <2>12. QED
    BY <2>6, <2>7, <2>11 DEF RowInv
<1>7. ASSUME NEW c \in Checkouts, PaidBy(c) PROVE RowInv'
  <2>1. UNCHANGED <<method, row, access, work, handlers, charges>> /\ Exists(c)
        /\ \A d \in Checkouts : d # c => money'[d] = money[d]
    BY <1>7 DEF PaidBy, TypeOK
  <2>2. ASSUME NEW d \in Checkouts PROVE KnownRow(d)'
    BY <2>1 DEF KnownRow, Exists, RowInv
  <2>3. ASSUME NEW h \in handlers' PROVE KnownTo(h)'
    BY <2>1 DEF KnownTo, Exists, RowInv
  <2>4. /\ work'.op = "create" => row'[work'.c] = NoRow
        /\ work'.op = "pay" => method'[work'.c] = "native" /\ Exists(work.c)' /\ ~row'[work'.c].sub
    BY <2>1 DEF RowInv, Exists
  <2>5. QED
    BY <2>2, <2>3, <2>4 DEF RowInv
<1>8. ASSUME NEW c \in Checkouts, Ended(c) PROVE RowInv'
  BY <1>2, <1>8 DEF Ended, RowInv
<1>9. ASSUME NEW c \in Checkouts, AccessOver(c) PROVE RowInv'
  <2>1. UNCHANGED <<method, row, work, handlers, charges, money>>
        /\ \A d \in Checkouts : access'[d] # "none" => access[d] # "none"
    BY <1>9 DEF AccessOver, Current, TypeOK
  <2>2. ASSUME NEW d \in Checkouts PROVE KnownRow(d)'
    BY <2>1 DEF KnownRow, Exists, RowInv
  <2>3. ASSUME NEW h \in handlers' PROVE KnownTo(h)'
    BY <2>1 DEF KnownTo, Exists, RowInv
  <2>4. /\ work'.op = "create" => row'[work'.c] = NoRow
        /\ work'.op = "pay" => method'[work'.c] = "native" /\ Exists(work.c)' /\ ~row'[work'.c].sub
    BY <2>1 DEF RowInv, Exists
  <2>5. QED
    BY <2>2, <2>3, <2>4 DEF RowInv
<1>10. QED
  BY <1>1, <1>3, <1>4, <1>5, <1>6, <1>7, <1>8, <1>9, StepDoes

LEMMA EventChecks ==
  ASSUME TypeOK
  PROVE  (\A e \in events : e.c \in Checkouts) /\ (\A h \in handlers : h.c \in Checkouts)
  BY DEF TypeOK, Event, HandlerRecord

LEMMA ActivatedStep ==
  ASSUME FactsInv, [Next]_vars
  PROVE  ActivatedInv'
<1> USE DEF FactsInv
<1>1. CASE Panel
  <2>1. UNCHANGED <<method, access, money>> /\ PanelHandlers /\ PanelEvents /\ PanelStages
    BY <1>1, PanelDoes DEF PanelMoves
  <2>2. ASSUME NEW c \in Checkouts, Exists(c), Finished(c) PROVE Finished(c)'
    BY <2>1, <2>2 DEF PanelStages, Finished
  <2>3. ASSUME NEW e \in events', e.on = "activated" PROVE Finished(e.c)'
    <3>1. e \in events
      BY <2>1, <2>3 DEF PanelEvents
    <3>2. e.c \in Checkouts /\ Finished(e.c) /\ money[e.c]
      BY <2>3, <3>1, EventChecks DEF ActivatedInv, MoneyInv, Proof
    <3>3. QED
      BY <2>2, <3>2 DEF RowInv, KnownRow
  <2>4. ASSUME NEW h \in handlers', h.on = "activated" PROVE Finished(h.c)'
    <3>1. h \in handlers
      BY <2>1, <2>4 DEF PanelHandlers
    <3>2. h.c \in Checkouts /\ Finished(h.c) /\ Exists(h.c)
      BY <2>4, <3>1, EventChecks DEF ActivatedInv, RowInv, KnownTo
    <3>3. QED
      BY <2>2, <3>2
  <2>5. ASSUME NEW c \in Checkouts, access'[c] # "none", method'[c] = "auto" PROVE Finished(c)'
    <3>1. Finished(c) /\ money[c]
      BY <2>1, <2>5 DEF ActivatedInv, MoneyInv, AccessIsPaid
    <3>2. QED
      BY <2>2, <3>1 DEF RowInv, KnownRow
  <2>6. QED
    BY <2>3, <2>4, <2>5 DEF ActivatedInv
<1>2. ASSUME UNCHANGED <<method, access, stage>>, events' \subseteq events,
             \A h \in handlers' : h.on = "activated" => Finished(h.c)
      PROVE  ActivatedInv'
  BY <1>2 DEF ActivatedInv, Finished
<1>3. CASE Quiet
  BY <1>2, <1>3 DEF Quiet, ActivatedInv
<1>4. ASSUME NEW h \in HandlerRecord, Loaded(h) PROVE ActivatedInv'
  <2>1. h.on = "activated" => Finished(h.c)
    BY <1>4 DEF Loaded, ActivatedInv
  <2>2. QED
    BY <1>2, <1>4, <2>1 DEF Loaded, ActivatedInv
<1>5. CASE Decided1
  <2>1. ASSUME NEW k \in handlers', k.on = "activated" PROVE Finished(k.c)
    <3>1. PICK h \in handlers, g \in HandlerRecord,
               grant \in {"nothing", "renew", "refuse", "open"} : Decision(h, g, grant)
      BY <1>5 DEF Decided1
    <3>2. Rests(h, g, grant)
      BY <3>1, GrantRests
    <3>3. QED
      BY <2>1, <3>2 DEF Rests, ActivatedInv
  <2>2. QED
    BY <1>2, <1>5, <2>1 DEF Decided1
<1>6. ASSUME NEW h \in handlers, Committed(h) PROVE ActivatedInv'
  <2>1. /\ h.c \in Checkouts
        /\ \A d \in Checkouts : d # h.c => access'[d] = access[d]
        /\ access'[h.c] = NewAccess(h)
    BY <1>6, CommitDoes
  <2>2. UNCHANGED <<method, stage>> /\ handlers' = handlers \ {h} /\ events' \subseteq events
    BY <1>6 DEF Committed
  <2>3. access'[h.c] # "none" /\ method[h.c] = "auto" => Finished(h.c)
    <3>1. CASE h.grant \in {"open", "renew"}
      BY <3>1 DEF KindInv, ActivatedInv
    <3>2. CASE h.grant \notin {"open", "renew"}
      BY <2>1, <3>2 DEF NewAccess, ActivatedInv
    <3>3. QED
      BY <3>1, <3>2
  <2>4. \A c \in Checkouts : access'[c] # "none" /\ method[c] = "auto" => Finished(c)
    BY <2>1, <2>3 DEF ActivatedInv
  <2>5. QED
    BY <2>2, <2>4 DEF ActivatedInv, Finished
<1>7. ASSUME NEW c \in Checkouts, PaidBy(c) PROVE ActivatedInv'
  <2>1. /\ UNCHANGED <<method, access, handlers>>
        /\ \A e \in events' : e.on = "activated" => e \in events
        /\ \A d \in Checkouts : stage'[d] \in {stage[d], "done"}
    BY <1>7 DEF PaidBy
  <2>2. \A d \in Checkouts : Finished(d) => Finished(d)'
    BY <2>1 DEF Finished
  <2>3. QED
    BY <2>1, <2>2, EventChecks DEF ActivatedInv
<1>8. ASSUME NEW c \in Checkouts, Ended(c) PROVE ActivatedInv'
  <2>1. UNCHANGED <<method, access, handlers>>
    BY <1>8 DEF Ended
  <2>2. \A d \in Checkouts : (Finished(d) \/ d = c) => Finished(d)'
    BY <1>8 DEF Ended, Finished, TypeOK
  <2>3. \A e \in events' : e.on = "activated" => e \in events \/ e.c = c
    BY <1>8 DEF Ended
  <2>4. QED
    BY <2>1, <2>2, <2>3, EventChecks DEF ActivatedInv
<1>9. ASSUME NEW c \in Checkouts, AccessOver(c) PROVE ActivatedInv'
  <2>1. UNCHANGED <<method, handlers, events, stage>>
        /\ \A d \in Checkouts : access'[d] # "none" => access[d] # "none"
    BY <1>9 DEF AccessOver, Current, TypeOK
  <2>2. QED
    BY <2>1 DEF ActivatedInv, Finished
<1>10. QED
  BY <1>1, <1>3, <1>4, <1>5, <1>6, <1>7, <1>8, <1>9, StepDoes

LEMMA OverStep ==
  ASSUME FactsInv, [Next]_vars
  PROVE  OverInv'
<1> USE DEF FactsInv
<1>1. CASE Panel
  <2>1. UNCHANGED access /\ PanelHandlers /\ PanelEvents
    BY <1>1, PanelDoes DEF PanelMoves
  <2>2. ASSUME NEW c \in Checkouts, method[c] = "native", ~row[c].sub PROVE access[c] = "none"
    BY <2>2 DEF RowInv, KnownRow
  <2>3. ASSUME NEW e \in events', e.on \in Granting PROVE access[e.c] # "over"
    <3>1. CASE e \in events
      BY <2>3, <3>1 DEF OverInv
    <3>2. CASE e \notin events
      <4>1. e.on = "charge"
        BY <2>1, <2>3, <3>2 DEF PanelEvents, Granting, Proof
      <4>2. e.c \in Checkouts /\ method[e.c] = "native" /\ ~row[e.c].sub
        BY <2>1, <3>2, <4>1 DEF PanelEvents, OfMethod
      <4>3. QED
        BY <2>2, <4>2
    <3>3. QED
      BY <3>1, <3>2
  <2>4. ASSUME NEW h \in handlers', h.on \in Granting PROVE access[h.c] # "over"
    <3>1. CASE h \in handlers
      BY <2>4, <3>1 DEF OverInv
    <3>2. CASE h \notin handlers
      <4>1. h.c \in Checkouts /\ method[h.c] = "native" /\ ~row[h.c].sub
        BY <2>1, <3>2 DEF PanelHandlers
      <4>2. QED
        BY <2>2, <4>1
    <3>3. QED
      BY <3>1, <3>2
  <2>5. QED
    BY <2>1, <2>3, <2>4 DEF OverInv
<1>2. CASE Quiet
  BY <1>2 DEF Quiet, OverInv
<1>3. ASSUME NEW h \in HandlerRecord, Loaded(h) PROVE OverInv'
  <2>1. h.on \in Granting => access[h.c] # "over"
    BY <1>3 DEF Loaded, OverInv, Granting, Proof
  <2>2. QED
    BY <1>3, <2>1 DEF Loaded, OverInv
<1>4. CASE Decided1
  <2>1. ASSUME NEW k \in handlers', k.on \in Granting PROVE access[k.c] # "over"
    <3>1. PICK h \in handlers, g \in HandlerRecord,
               grant \in {"nothing", "renew", "refuse", "open"} : Decision(h, g, grant)
      BY <1>4 DEF Decided1
    <3>2. Rests(h, g, grant)
      BY <3>1, GrantRests
    <3>3. QED
      BY <2>1, <3>2 DEF Rests, OverInv
  <2>2. QED
    BY <1>4, <2>1 DEF Decided1, OverInv
<1>5. ASSUME NEW h \in handlers, Committed(h) PROVE OverInv'
  <2>1. /\ h.c \in Checkouts
        /\ \A d \in Checkouts : d # h.c => access'[d] = access[d]
        /\ access'[h.c] = NewAccess(h)
    BY <1>5, CommitDoes
  <2>2. handlers' \subseteq handlers /\ events' \subseteq events
    BY <1>5 DEF Committed
  <2>3. \A d \in Checkouts : access'[d] = "over" => access[d] = "over"
    BY <2>1 DEF NewAccess
  <2>4. QED
    BY <2>2, <2>3, EventChecks DEF OverInv
<1>6. ASSUME NEW c \in Checkouts, PaidBy(c) PROVE OverInv'
  <2>1. UNCHANGED <<access, handlers>> /\ access[c] = "none"
        /\ \A e \in events' : e \in events \/ e.c = c
    BY <1>6 DEF PaidBy, MoneyInv, AccessIsPaid
  <2>2. QED
    BY <2>1 DEF OverInv
<1>7. ASSUME NEW c \in Checkouts, Ended(c) PROVE OverInv'
  <2>1. UNCHANGED <<access, handlers>>
    BY <1>7 DEF Ended
  <2>2. ASSUME NEW e \in events', e.on \in Granting PROVE access[e.c] # "over"
    <3>1. CASE e \in events
      BY <2>2, <3>1 DEF OverInv
    <3>2. CASE e \notin events
      <4>1. e.on = "activated" /\ e.c = c
        BY <1>7, <2>2, <3>2 DEF Ended, Granting, Proof
      <4>2. method[c] = "auto" /\ stage[c] = "open"
        BY <1>7, <3>2, <4>1 DEF Ended
      <4>3. access[c] = "none"
        BY <4>2 DEF ActivatedInv, Finished
      <4>4. QED
        BY <4>1, <4>3
    <3>3. QED
      BY <3>1, <3>2
  <2>3. QED
    BY <2>1, <2>2 DEF OverInv
<1>8. ASSUME NEW c \in Checkouts, AccessOver(c) PROVE OverInv'
  <2>1. UNCHANGED <<handlers, events>> /\ \A d \in Checkouts : d # c => access'[d] = access[d]
    BY <1>8 DEF AccessOver, TypeOK
  <2>2. (\A e \in events : e.c # c) /\ (\A h \in handlers : h.c # c)
    BY <1>8 DEF AccessOver
  <2>3. QED
    BY <2>1, <2>2, EventChecks DEF OverInv
<1>9. QED
  BY <1>1, <1>2, <1>3, <1>4, <1>5, <1>6, <1>7, <1>8, StepDoes

LEMMA FactsStep ==
  ASSUME FactsInv, [Next]_vars
  PROVE  FactsInv'
  BY TypeStep, MoneyStep, KindStep, RowStep, ActivatedStep, OverStep DEF FactsInv

LEMMA LockStep ==
  ASSUME FactsInv, LockInv, [Next]_vars
  PROVE  LockInv'
<1> USE DEF FactsInv
\* Nothing changes but the handlers.
<1>1. ASSUME UNCHANGED <<access, work>>, \A h \in handlers' : Holds(h), OneHolder' PROVE LockInv'
  <2>1. ASSUME NEW h \in handlers' PROVE Holds(h)'
    BY <1>1 DEF Holds, Current
  <2>2. OneSubscription'
    BY <1>1 DEF LockInv, OneSubscription, Current
  <2>3. QED
    BY <1>1, <2>1, <2>2 DEF LockInv
<1>2. CASE Panel
  <2>1. UNCHANGED access /\ PanelHandlers /\ PanelWork
    BY <1>2, PanelDoes DEF PanelMoves
  <2>2. \A h \in handlers' : h.locked => h \in handlers
    BY <2>1 DEF PanelHandlers
  <2>3. ASSUME NEW h \in handlers', h.locked PROVE work' = NoWork
    <3>1. h \in handlers /\ Holds(h)
      BY <2>2, <2>3 DEF LockInv
    <3>2. work = NoWork /\ ~LockFree
      BY <2>3, <3>1 DEF Holds, LockFree
    <3>3. QED
      BY <2>1, <3>2 DEF PanelWork
  <2>4. ASSUME NEW h \in handlers' PROVE Holds(h)'
    <3>1. h.locked => work' = NoWork
      BY <2>3
    <3>2. CASE h \in handlers
      <4>1. Holds(h)
        BY <3>2 DEF LockInv
      <4>2. QED
        BY <2>1, <3>1, <4>1 DEF Holds, Current
    <3>3. CASE h \notin handlers
      <4>1. h.grant = "none" /\ ~h.locked
        BY <2>1, <3>3 DEF PanelHandlers
      <4>2. QED
        BY <4>1 DEF Holds
    <3>4. QED
      BY <3>2, <3>3
  <2>5. OneHolder'
    BY <2>2 DEF LockInv, OneHolder
  <2>6. OneSubscription'
    BY <2>1 DEF LockInv, OneSubscription, Current
  <2>7. QED
    BY <2>4, <2>5, <2>6 DEF LockInv
<1>3. CASE Quiet
  BY <1>1, <1>3 DEF Quiet, LockInv, OneHolder
<1>4. ASSUME NEW h \in HandlerRecord, Loaded(h) PROVE LockInv'
  <2>1. Holds(h) /\ ~h.locked
    BY <1>4 DEF Loaded, Holds
  <2>2. OneHolder'
    BY <1>4, <2>1 DEF Loaded, LockInv, OneHolder
  <2>3. QED
    BY <1>1, <1>4, <2>1, <2>2 DEF Loaded, LockInv
<1>5. CASE Decided1
  <2>1. PICK h \in handlers, g \in HandlerRecord, grant \in {"nothing", "renew", "refuse", "open"} :
           Decision(h, g, grant)
    BY <1>5 DEF Decided1
  <2>2. Rests(h, g, grant)
    BY <2>1, GrantRests
  <2>3. work = NoWork /\ \A k \in handlers : ~k.locked
    BY <2>1 DEF Decision, LockFree
  <2>4. /\ grant = "open" => \A d \in Checkouts : ~Current(d)
        /\ grant = "renew" => access[h.c] # "none"
    BY <2>1 DEF Decision
  <2>5. ASSUME NEW k \in handlers' PROVE Holds(k)
    <3>1. CASE k \in handlers
      BY <3>1 DEF LockInv
    <3>2. CASE k \notin handlers
      <4>1. k.c = h.c /\ k.locked /\ k.grant = grant
        BY <2>2, <3>2 DEF Rests
      <4>2. QED
        BY <2>3, <2>4, <4>1 DEF Holds
    <3>3. QED
      BY <3>1, <3>2
  <2>6. \A k \in handlers' : k.locked => k = [g EXCEPT !.locked = TRUE, !.grant = grant]
    BY <2>2, <2>3 DEF Rests
  <2>7. OneHolder'
    BY <2>6 DEF OneHolder
  <2>8. QED
    BY <1>1, <1>5, <2>5, <2>7 DEF Decided1
<1>6. ASSUME NEW h \in handlers, Committed(h) PROVE LockInv'
  <2>1. /\ h.c \in Checkouts
        /\ \A d \in Checkouts : d # h.c => access'[d] = access[d]
        /\ access'[h.c] = NewAccess(h)
    BY <1>6, CommitDoes
  <2>2. work' = work /\ handlers' = handlers \ {h}
    BY <1>6 DEF Committed
  <2>3. Holds(h) /\ access[h.c] \in {"none", "active", "canceled", "over"}
    BY <2>1 DEF LockInv, TypeOK
  <2>4. h.on \in Granting => access[h.c] # "over"
    BY DEF OverInv
  <2>5. h.grant \in {"open", "renew"} => h.on \in Granting
    BY DEF KindInv
  \* What becomes current was so already, or is opened.
  <2>6. access'[h.c] \in {"active", "canceled"} => Current(h.c) \/ h.grant = "open"
    <3>1. CASE h.grant = "renew"
      BY <2>3, <2>4, <2>5, <3>1 DEF Holds, Current
    <3>2. CASE h.grant \notin {"open", "renew"} /\ h.on = "payment" /\ access[h.c] # "none"
      BY <2>3, <2>4, <3>2 DEF Current, Granting, Proof
    <3>3. CASE h.grant \notin {"open", "renew"} /\ ~(h.on = "payment" /\ access[h.c] # "none")
      BY <2>1, <2>3, <3>3 DEF NewAccess, Current
    <3>4. QED
      BY <3>1, <3>2, <3>3
  <2>7. \A d \in Checkouts : Current(d)' => Current(d) \/ (d = h.c /\ h.grant = "open")
    BY <2>1, <2>6 DEF Current
  <2>8. OneSubscription'
    <3>1. CASE h.grant = "open"
      BY <2>3, <2>7, <3>1 DEF OneSubscription, Holds
    <3>2. CASE h.grant # "open"
      BY <2>7, <3>2 DEF OneSubscription, LockInv
    <3>3. QED
      BY <3>1, <3>2
  <2>9. \A d \in Checkouts : access[d] # "none" => access'[d] # "none"
    BY <2>1 DEF NewAccess
  <2>10. ASSUME NEW k \in handlers' PROVE Holds(k)'
    <3>1. k \in handlers /\ Holds(k) /\ k # h /\ k.c \in Checkouts
      BY <2>2, EventChecks DEF LockInv
    <3>2. k.grant = "open" => \A d \in Checkouts : ~Current(d)'
      <4>1. ASSUME k.grant = "open" PROVE h.grant # "open"
        BY <2>3, <3>1, <4>1 DEF Holds, LockInv, OneHolder
      <4>2. QED
        BY <2>7, <3>1, <4>1 DEF Holds
    <3>3. QED
      BY <2>2, <2>9, <3>1, <3>2 DEF Holds
  <2>11. OneHolder'
    BY <2>2 DEF LockInv, OneHolder
  <2>12. QED
    BY <2>8, <2>10, <2>11 DEF LockInv
<1>7. ASSUME NEW c \in Checkouts, PaidBy(c) PROVE LockInv'
  BY <1>1, <1>7 DEF PaidBy, LockInv, OneHolder
<1>8. ASSUME NEW c \in Checkouts, Ended(c) PROVE LockInv'
  BY <1>1, <1>8 DEF Ended, LockInv, OneHolder
<1>9. ASSUME NEW c \in Checkouts, AccessOver(c) PROVE LockInv'
  <2>1. UNCHANGED <<handlers, work>> /\ access' = [access EXCEPT ![c] = "over"]
    BY <1>9 DEF AccessOver
  <2>2. \A d \in Checkouts : /\ Current(d)' => Current(d)
                             /\ access[d] # "none" => access'[d] # "none"
    BY <2>1 DEF Current, TypeOK
  <2>3. ASSUME NEW h \in handlers' PROVE Holds(h)'
    <3>1. Holds(h) /\ h.c \in Checkouts
      BY <2>1, EventChecks DEF LockInv
    <3>2. QED
      BY <2>1, <2>2, <3>1 DEF Holds
  <2>4. OneHolder' /\ OneSubscription'
    BY <2>1, <2>2 DEF LockInv, OneHolder, OneSubscription
  <2>5. QED
    BY <2>3, <2>4 DEF LockInv
<1>10. QED
  BY <1>2, <1>3, <1>4, <1>5, <1>6, <1>7, <1>8, <1>9, StepDoes

LEMMA CrashedStays ==
  ASSUME [Next]_vars, crashed
  PROVE  crashed'
<1>1. CASE Panel
  BY <1>1 DEF Panel, BeginCreate, RepeatCreate, ProviderOpens, EndCreate, BeginPay, ProviderCharges,
     EndPay, RetryPay, PayTooLate, BeginCancel, ProviderCancels, EndCancel, WorkDies, Fault, faultVars
<1>2. CASE Webhooks
  BY <1>2 DEF Webhooks, Load, Unknown, Decide, Commit, HandlerDies, Fault, faultVars
<1>3. CASE Outside
  BY <1>3 DEF Outside, Pays, StageEnds, Elapse, AccessEnds, faultVars
<1>4. CASE UNCHANGED vars
  BY <1>4 DEF vars, faultVars
<1>5. QED
  BY <1>1, <1>2, <1>3, <1>4 DEF Next

\* Nothing is charged, and what is remembered in a row stays there.
RowRemembers(c) ==
  /\ row[c].sub => row'[c].sub
  /\ row[c].status \notin {"none", "active"} =>
        row'[c].sub \/ row'[c].status \notin {"none", "active"}

LEMMA ChargesSame ==
  ASSUME FactsInv, ChargeInv, ~crashed, UNCHANGED <<method, charges>>,
         work' = work \/ (work.op # "pay" /\ work'.op # "pay"),
         \A c \in Checkouts : charges[c] > 0 => RowRemembers(c)
  PROVE  ChargeInv'
<1>1. ASSUME NEW c \in Checkouts PROVE ChargeKept(c)'
  <2>1. ChargeKept(c) /\ (charges[c] > 0 => RowRemembers(c))
    BY DEF ChargeInv
  <2>2. QED
    BY <2>1 DEF ChargeKept, Remembered, RowRemembers
<1>2. work'.op = "pay" /\ work'.got = "nothing" => charges'[work'.c] = 0
  BY DEF ChargeInv
<1>3. QED
  BY <1>1, <1>2 DEF ChargeInv

LEMMA ChargeStep ==
  ASSUME FactsInv, ChargeInv, [Next]_vars
  PROVE  ChargeInv'
<1> USE DEF FactsInv
<1> SUFFICES ASSUME ~crashed PROVE ChargeInv'
  BY CrashedStays DEF ChargeInv
<1>0. \A c \in Checkouts : charges[c] > 0 => Exists(c) /\ method[c] = "native" /\ ChargeKept(c)
  BY DEF RowInv, KnownRow, ChargeInv, ChargeKept
\* The steps that charge nothing and have nothing to do with a payment.
<1>1. ASSUME UNCHANGED <<charges, row>>, work.op # "pay", work'.op # "pay", Panel
      PROVE  ChargeInv'
  <2>1. UNCHANGED method
    BY <1>1, PanelDoes
  <2>2. QED
    BY <1>1, <2>1, ChargesSame DEF RowRemembers
<1>2. ASSUME NEW c \in Checkouts, NEW s \in {"expired", "canceled"},
             row' = [row EXCEPT ![c].status = s], UNCHANGED charges,
             work.op # "pay", work'.op # "pay", Panel
      PROVE  ChargeInv'
  <2>1. UNCHANGED method
    BY <1>2, PanelDoes
  <2>2. \A d \in Checkouts : row[d] \in Row
    BY DEF TypeOK
  <2>3. \A d \in Checkouts : RowRemembers(d)
    BY <1>2, <2>2 DEF RowRemembers, TypeOK, Row
  <2>4. QED
    BY <1>2, <2>1, <2>3, ChargesSame
<1>3. ASSUME NEW c \in Checkouts, row[c] = NoRow, NEW S, NEW r \in [Checkouts -> Row],
             r = Retired(row, S), NEW x \in Row, row' = [r EXCEPT ![c] = x],
             UNCHANGED charges, work.op # "pay", work'.op # "pay", Panel
      PROVE  ChargeInv'
  <2>1. UNCHANGED method
    BY <1>3, PanelDoes
  <2>2. ASSUME NEW d \in Checkouts, charges[d] > 0 PROVE RowRemembers(d)
    <3>1. d # c /\ row[d] \in Row
      BY <1>0, <1>3, <2>2 DEF Exists, NoRow, TypeOK
    <3>2. row'[d] \in {row[d], [row[d] EXCEPT !.status = "expired"]}
      BY <1>3, <3>1 DEF Retired
    <3>3. QED
      BY <3>1, <3>2 DEF RowRemembers, Row
  <2>3. QED
    BY <1>3, <2>1, <2>2, ChargesSame
<1>4. CASE BeginCreate
  <2> DEFINE S == Newest({c \in Checkouts : Blocks(c)})
  <2>1. PICK c \in Next1 : IF method[c] = "native"
                 THEN /\ row' = [Retired(row, S) EXCEPT ![c].status = "active"]
                      /\ UNCHANGED work
                 ELSE /\ work' = Asking("create", c, S)
                      /\ UNCHANGED row
    BY <1>4 DEF BeginCreate
  <2>2. /\ c \in Checkouts /\ row[c] = NoRow /\ Retired(row, S) \in [Checkouts -> Row]
        /\ UNCHANGED charges /\ work = NoWork /\ Panel
    BY <1>4, RetiredTyped DEF Next1, TypeOK, BeginCreate, LockFree, providerVars, Panel
  <2> HIDE DEF S
  <2>3. CASE method[c] = "native"
    <3>1. [Retired(row, S)[c] EXCEPT !.status = "active"] \in Row
      BY <2>2 DEF Row, Statuses
    <3>2. row' = [Retired(row, S) EXCEPT ![c] = [Retired(row, S)[c] EXCEPT !.status = "active"]]
      BY <2>1, <2>3
    <3>3. work' = NoWork
      BY <2>1, <2>2, <2>3
    <3>4. QED
      BY <1>3, <2>2, <3>1, <3>2, <3>3 DEF NoWork
  <2>4. CASE method[c] # "native"
    BY <1>1, <2>1, <2>2, <2>4 DEF NoWork, Asking
  <2>5. QED
    BY <2>3, <2>4
<1>5. CASE RepeatCreate
  <2>1. PICK c \in Checkouts : row' = [row EXCEPT ![c].status = "expired"]
    BY <1>5 DEF RepeatCreate
  <2>2. UNCHANGED charges /\ work = NoWork /\ work' = NoWork /\ Panel
    BY <1>5 DEF RepeatCreate, LockFree, providerVars, Panel
  <2>3. QED
    BY <1>2, <2>1, <2>2 DEF NoWork
<1>6. CASE ProviderOpens
  <2>1. work.op = "create" /\ work # NoWork
    BY <1>6, WorkFields DEF ProviderOpens
  <2>2. work'.op = "create"
    BY <1>6, <2>1 DEF ProviderOpens, TypeOK, Works
  <2>3. QED
    BY <1>1, <1>6, <2>1, <2>2 DEF ProviderOpens, rowVars, Panel
<1>7. CASE EndCreate
  <2>1. work.op = "create" /\ work.c \in Checkouts /\ row[work.c] = NoRow
    BY <1>7, WorkFields DEF EndCreate, RowInv
  <2>2. PICK made \in Row : row' = [Retired(row, work.retired) EXCEPT ![work.c] = made]
    <3>1. /\ [NoRow EXCEPT !.status = "active", !.ref = TRUE, !.sub = (method[work.c] = "auto")] \in Row
          /\ [NoRow EXCEPT !.status = "creating"] \in Row
          /\ [NoRow EXCEPT !.status = "failed"] \in Row
      BY DEF NoRow, Row, Statuses
    <3>2. QED
      BY <1>7, <3>1 DEF EndCreate
  <2>3. Retired(row, work.retired) \in [Checkouts -> Row]
    BY RetiredTyped DEF TypeOK
  <2>4. UNCHANGED charges /\ work'.op = "none" /\ Panel
    BY <1>7 DEF EndCreate, providerVars, NoWork, Panel
  <2>5. QED
    BY <1>3, <2>1, <2>2, <2>3, <2>4
<1>8. CASE BeginPay
  <2>1. PICK c \in Checkouts : Payable(c) /\ Chargeable(c) /\ work' = Asking("pay", c, {})
    BY <1>8 DEF BeginPay
  <2>2. UNCHANGED <<method, row, charges>> /\ work = NoWork
    BY <1>8 DEF BeginPay, rowVars, providerVars, LockFree
  <2>3. ~Remembered(c)
    BY <2>1, <2>2 DEF Remembered, Payable, Chargeable, NoWork
  <2>4. charges[c] = 0
    BY <1>0, <2>3 DEF ChargeKept, TypeOK
  <2>5. ASSUME NEW d \in Checkouts PROVE ChargeKept(d)'
    <3>1. ChargeKept(d) /\ (Remembered(d) => Remembered(d)')
      BY <2>2 DEF ChargeInv, Remembered, NoWork
    <3>2. QED
      BY <2>2, <3>1 DEF ChargeKept
  <2>6. work'.c = c
    BY <2>1 DEF Asking
  <2>7. QED
    BY <2>2, <2>4, <2>5, <2>6 DEF ChargeInv
<1>9. CASE ProviderCharges
  <2>1. /\ work.op = "pay" /\ work.got = "nothing" /\ work.c \in Checkouts /\ work # NoWork
        /\ method[work.c] = "native" /\ charges[work.c] = 0
    BY <1>9, WorkFields DEF ProviderCharges, RowInv, ChargeInv
  <2>2. UNCHANGED <<method, row>>
    BY <1>9 DEF ProviderCharges, rowVars
  <2>3. \A d \in Checkouts : d # work.c => (Remembered(d) => Remembered(d)')
    BY <2>2 DEF Remembered
  <2>4. CASE charges' = charges /\ (work' = NoWork \/ work'.got = "timeout")
    <3>1. ASSUME NEW d \in Checkouts PROVE ChargeKept(d)'
      BY <1>0, <2>1, <2>2, <2>3, <2>4 DEF ChargeKept, TypeOK
    <3>2. work'.op = "pay" => work'.got # "nothing"
      BY <2>4 DEF NoWork
    <3>3. QED
      BY <3>1, <3>2 DEF ChargeInv
  <2>5. CASE /\ charges' = [charges EXCEPT ![work.c] = @ + 1]
             /\ \E a \in {"answer", "timeout"} : work' = [work EXCEPT !.got = a]
    <3>1. work'.op = "pay" /\ work'.c = work.c /\ work'.got # "nothing"
      BY <2>1, <2>5 DEF TypeOK, Works
    <3>2. charges'[work.c] = 1 /\ \A d \in Checkouts : d # work.c => charges'[d] = charges[d]
      BY <2>1, <2>5 DEF TypeOK
    <3>3. ASSUME NEW d \in Checkouts PROVE ChargeKept(d)'
      <4>1. CASE d = work.c
        BY <2>1, <2>2, <3>1, <3>2, <4>1 DEF ChargeKept, Remembered
      <4>2. CASE d # work.c
        <5>1. ChargeKept(d)
          BY DEF ChargeInv
        <5>2. QED
          BY <2>2, <2>3, <3>2, <4>2, <5>1 DEF ChargeKept
      <4>3. QED
        BY <4>1, <4>2
    <3>4. QED
      BY <3>1, <3>3 DEF ChargeInv
  <2>6. \/ charges' = charges /\ (work' = NoWork \/ work'.got = "timeout")
        \/ /\ charges' = [charges EXCEPT ![work.c] = @ + 1]
           /\ \E a \in {"answer", "timeout"} : work' = [work EXCEPT !.got = a]
    <3>1. [work EXCEPT !.got = "timeout"].got = "timeout"
      BY <2>1 DEF TypeOK, Works
    <3>2. QED
      BY <1>9, <3>1 DEF ProviderCharges
  <2>7. QED
    BY <2>4, <2>5, <2>6
<1>10. CASE EndPay
  <2>1. work.op = "pay" /\ work.c \in Checkouts /\ row[work.c] \in Row
    BY <1>10, WorkFields DEF EndPay, TypeOK
  <2>2. UNCHANGED <<method, charges>> /\ work' = NoWork
    BY <1>10 DEF EndPay, providerVars
  <2>3. PICK x \in Row : row' = [row EXCEPT ![work.c] = x] /\ (x.sub \/ x.status = "creating")
    <3>1. /\ [row[work.c] EXCEPT !.status = "active", !.sub = TRUE] \in Row
          /\ [row[work.c] EXCEPT !.status = "active", !.sub = TRUE].sub
          /\ [row[work.c] EXCEPT !.status = "creating"] \in Row
          /\ [row[work.c] EXCEPT !.status = "creating"].status = "creating"
      BY <2>1 DEF Row, Statuses
    <3>2. \/ row' = [row EXCEPT ![work.c] = [row[work.c] EXCEPT !.status = "active", !.sub = TRUE]]
          \/ row' = [row EXCEPT ![work.c] = [row[work.c] EXCEPT !.status = "creating"]]
      BY <1>10 DEF EndPay, Bound
    <3>3. QED
      BY <3>1, <3>2
  <2>4. ASSUME NEW d \in Checkouts PROVE ChargeKept(d)'
    <3>1. ChargeKept(d)
      BY DEF ChargeInv
    <3>2. CASE d = work.c
      <4>1. row'[d] = x
        BY <2>1, <2>3, <3>2 DEF TypeOK
      <4>2. QED
        BY <2>2, <2>3, <3>1, <4>1 DEF ChargeKept, Remembered
    <3>3. CASE d # work.c
      <4>1. row'[d] = row[d]
        BY <2>3, <3>3 DEF TypeOK
      <4>2. QED
        BY <2>2, <3>1, <3>3, <4>1 DEF ChargeKept, Remembered
    <3>4. QED
      BY <3>2, <3>3
  <2>5. QED
    BY <2>2, <2>4 DEF ChargeInv, NoWork
<1>11. CASE RetryPay
  <2>1. PICK c \in Checkouts : Bound(c)
    BY <1>11 DEF RetryPay
  <2>2. UNCHANGED <<method, charges>> /\ work = NoWork /\ work' = NoWork
    BY <1>11 DEF RetryPay, providerVars, LockFree
  <2>3. ASSUME NEW d \in Checkouts PROVE RowRemembers(d)
    <3>1. row[d] \in Row /\ [row[d] EXCEPT !.status = "active", !.sub = TRUE].sub
      BY DEF TypeOK, Row
    <3>2. row'[d] \in {row[d], [row[d] EXCEPT !.status = "active", !.sub = TRUE]}
      BY <2>1 DEF Bound, TypeOK
    <3>3. QED
      BY <3>1, <3>2 DEF RowRemembers
  <2>4. QED
    BY <2>2, <2>3, ChargesSame
<1>12. CASE PayTooLate
  <2>1. PICK c \in Checkouts : row' = [row EXCEPT ![c].status = "expired"]
    BY <1>12 DEF PayTooLate
  <2>2. UNCHANGED charges /\ work = NoWork /\ work' = NoWork /\ Panel
    BY <1>12 DEF PayTooLate, LockFree, providerVars, Panel
  <2>3. QED
    BY <1>2, <2>1, <2>2 DEF NoWork
<1>13. CASE BeginCancel
  <2>1. UNCHANGED <<charges, row>> /\ work = NoWork /\ work'.op = "cancel" /\ Panel
    BY <1>13 DEF BeginCancel, LockFree, rowVars, providerVars, Asking, Panel
  <2>2. QED
    BY <1>1, <2>1 DEF NoWork
<1>14. CASE ProviderCancels
  <2>1. work.op = "cancel" /\ work # NoWork
    BY <1>14, WorkFields DEF ProviderCancels
  <2>2. work'.op \in {"cancel", "none"}
    BY <1>14, <2>1 DEF ProviderCancels, TypeOK, Works, NoWork
  <2>3. QED
    BY <1>1, <1>14, <2>1, <2>2 DEF ProviderCancels, rowVars, Panel
<1>15. CASE EndCancel
  <2>1. work.c \in Checkouts /\ row' = [row EXCEPT ![work.c].status = "canceled"]
    BY <1>15, WorkFields DEF EndCancel
  <2>2. UNCHANGED charges /\ work.op = "cancel" /\ work'.op = "none" /\ Panel
    BY <1>15 DEF EndCancel, providerVars, NoWork, Panel
  <2>3. QED
    BY <1>2, <2>1, <2>2
<1>16. CASE WorkDies
  BY <1>16 DEF WorkDies, ChargeInv
<1>17. ASSUME UNCHANGED <<method, row, work, charges>> PROVE ChargeInv'
  BY <1>17, ChargesSame DEF RowRemembers
<1>18. ASSUME NEW h \in handlers, Committed(h) PROVE ChargeInv'
  <2>1. /\ h.c \in Checkouts
        /\ \A d \in Checkouts : d # h.c => row'[d] = row[d]
        /\ row[h.c].sub => row'[h.c].sub
        /\ row[h.c].status # "none" => row'[h.c].status # "none"
        /\ row'[h.c].status = "active" =>
               row[h.c].status = "active" \/ h.on \in {"opened", "authorized"}
    BY <1>18, CommitDoes
  <2>2. method[h.c] = "native" => h.on \notin {"opened", "authorized"}
    BY DEF KindInv, OfMethod, AuthorizationKinds
  <2>3. ASSUME NEW d \in Checkouts, charges[d] > 0 PROVE RowRemembers(d)
    BY <1>0, <2>1, <2>2, <2>3 DEF RowRemembers
  <2>4. QED
    BY <1>18, <2>3, ChargesSame DEF Committed
<1>19. QED
  BY <1>4, <1>5, <1>6, <1>7, <1>8, <1>9, <1>10, <1>11, <1>12, <1>13, <1>14, <1>15, <1>16, <1>17,
     <1>18, StepDoes DEF Panel, Quiet, Loaded, Decided1, PaidBy, Ended, AccessOver

-----------------------------------------------------------------------------
(* The theorems.                                                           *)

LEMMA Invariant == Spec => []Inv
<1>1. Init => Inv
  <2> SUFFICES ASSUME Init PROVE Inv
    OBVIOUS
  <2>1. TypeOK
    BY InitTyped
  <2>2. MoneyInv /\ KindInv /\ ActivatedInv /\ OverInv
    BY DEF Init, MoneyInv, KindInv, ActivatedInv, OverInv, NoRow, AccessIsPaid
  <2>3. RowInv
    BY DEF Init, RowInv, KnownRow, NoWork
  <2>4. LockInv
    BY DEF Init, LockInv, OneHolder, OneSubscription, Current
  <2>5. ChargeInv
    BY DEF Init, ChargeInv, ChargeKept, NoWork
  <2>6. QED
    BY <2>1, <2>2, <2>3, <2>4, <2>5 DEF Inv, FactsInv
<1>2. Inv /\ [Next]_vars => Inv'
  BY FactsStep, LockStep, ChargeStep DEF Inv
<1>3. QED
  BY <1>1, <1>2, PTL DEF Spec

(* Two subscriptions never give access at the same time, whatever the      *)
(* number of checkouts and of webhooks in progress.                        *)
THEOREM SubscriptionsAreOne == Spec => []OneSubscription
<1>1. Inv => OneSubscription
  BY DEF Inv, LockInv
<1>2. QED
  BY <1>1, Invariant, PTL

(* Nobody has access whose payment the provider has not confirmed.         *)
THEOREM PaidAccess == Spec => []AccessIsPaid
<1>1. Inv => AccessIsPaid
  BY DEF Inv, FactsInv, MoneyInv
<1>2. QED
  BY <1>1, Invariant, PTL

(* A card is charged once for a checkout, whatever the provider answers.   *)
THEOREM ChargedAtMostOnce == Spec => []ChargedOnce
<1>1. Inv => ChargedOnce
  BY DEF Inv, ChargeInv, ChargeKept, ChargedOnce
<1>2. QED
  BY <1>1, Invariant, PTL

-----------------------------------------------------------------------------
(* One Pix is open at a time, while no call has failed.                    *)

\* A checkout is made when all before it are.
InOrder ==
  /\ \A c, d \in Checkouts : c < d /\ Exists(d) => Exists(c)
  /\ work.op = "create" => \A d \in Checkouts : d < work.c => Exists(d)

\* What a Pix is paid with is known from the start.
KnownRef == \A c \in Checkouts : method[c] \notin Card /\ Exists(c) => row[c].ref

\* What ends an authorization, or a QR code.
Ending(on, m) ==
  \/ m = "auto" /\ on \in {"activated", "revoked", "lapsed", "refused"}
  \/ m = "pix" /\ on = "payment"

\* What gave way to a later checkout is a card, or has elapsed.
GaveWay(c) == method[c] \in Card \/ (method[c] = "pix" /\ elapsed[c])

\* What is said of an end is so at the provider, and what gives way has elapsed.
EndInv ==
  /\ \A e \in events : Ending(e.on, method[e.c]) => Finished(e.c)
  /\ \A h \in handlers : /\ Ending(h.on, method[h.c]) => Finished(h.c)
                         /\ h.on = "look" /\ method[h.c] = "pix" => elapsed[h.c]
  /\ \A c \in Checkouts : /\ method[c] = "pix" /\ money[c] => Finished(c)
                          /\ method[c] \notin Card /\ ~Exists(c) => ~Finished(c) /\ ~elapsed[c]
  /\ work.op = "cancel" => /\ method[work.c] \notin Card /\ Exists(work.c)
                           /\ work.got = "answer" => Finished(work.c)
  /\ work.op = "create" => /\ work.got \in {"nothing", "answer"}
                           /\ \A c \in work.retired : GaveWay(c) /\ Exists(c)

\* What is open blocks, and is the newest.
OpenInv == \A c \in Checkouts : Open(c) =>
  /\ row[c].status = "active" /\ work.op # "create"
  /\ \A d \in Checkouts : c < d => ~Exists(d)

Fits == InOrder /\ KnownRef /\ EndInv /\ OpenInv

\* Failures are counted.
LEMMA FaultsGrow ==
  ASSUME TypeOK, [Next]_vars
  PROVE  faults' \in {faults, faults + 1}
<1>1. CASE Panel
  BY <1>1 DEF Panel, BeginCreate, RepeatCreate, ProviderOpens, EndCreate, BeginPay, ProviderCharges,
     EndPay, RetryPay, PayTooLate, BeginCancel, ProviderCancels, EndCancel, WorkDies, Fault, faultVars
<1>2. CASE Webhooks
  BY <1>2 DEF Webhooks, Load, Unknown, Decide, Commit, HandlerDies, Fault, faultVars
<1>3. CASE Outside
  BY <1>3 DEF Outside, Pays, StageEnds, Elapse, AccessEnds, faultVars
<1>4. CASE UNCHANGED vars
  BY <1>4 DEF vars, faultVars
<1> QED BY <1>1, <1>2, <1>3, <1>4 DEF Next

LEMMA NoFaultYet ==
  ASSUME TypeOK, [Next]_vars, faults' = 0
  PROVE  faults = 0 /\ ~Fault
  BY FaultsGrow DEF TypeOK, Fault

\* What has elapsed stays so.
LEMMA ClockStep ==
  ASSUME TypeOK, [Next]_vars, NEW c \in Checkouts
  PROVE  (elapsed[c] => elapsed'[c]) /\ (elapsed'[c] => elapsed[c] \/ row[c] # NoRow)
<1>1. CASE Panel
  BY <1>1 DEF Panel, BeginCreate, RepeatCreate, ProviderOpens, EndCreate, BeginPay, ProviderCharges,
     EndPay, RetryPay, PayTooLate, BeginCancel, ProviderCancels, EndCancel, WorkDies
<1>2. CASE Webhooks
  BY <1>2 DEF Webhooks, Load, Unknown, Decide, Commit, HandlerDies
<1>3. CASE Outside
  BY <1>3 DEF Outside, Pays, StageEnds, Elapse, AccessEnds, TypeOK
<1>4. CASE UNCHANGED vars
  BY <1>4 DEF vars
<1> QED BY <1>1, <1>2, <1>3, <1>4 DEF Next

\* A handler keeps a reference, and ends a Pix only for what says that it ended.
LEMMA UpdatedEnds ==
  ASSUME TypeOK, NEW h \in HandlerRecord, NEW r \in Row, OfMethod(h.on, method[h.c])
  PROVE  /\ r.ref => Updated(h, r).ref
         /\ Updated(h, r).status \in {r.status, "active"} \/ method[h.c] \in Card
              \/ Ending(h.on, method[h.c]) \/ (h.on = "look" /\ method[h.c] = "pix")
<1>1. method[h.c] \in Methods /\ h.on \in Kinds \cup {"look", "reconcile"}
  BY MethodTyped DEF HandlerRecord
<1>2. Paid(r).ref = r.ref
  BY DEF Paid, Row
<1>3. CASE h.on \in {"opened", "settled", "reconcile", "canceled", "expired"}
  BY <1>2, <1>3 DEF Updated, Row, OfMethod, Card
<1>4. CASE h.on = "charge"
  <2>1. Updated(h, r) \in {[r EXCEPT !.sub = TRUE], r}
    BY <1>4 DEF Updated
  <2> QED BY <2>1 DEF Row
<1>5. CASE h.on = "payment"
  <2>1. CASE method[h.c] \in Card
    <3>1. CASE method[h.c] = "hosted"
      <4>1. Updated(h, r) = [r EXCEPT !.sub = TRUE]
        BY <1>5, <3>1 DEF Updated
      <4> QED BY <2>1, <4>1 DEF Row
    <3>2. CASE method[h.c] = "native"
      <4>1. Updated(h, r) = Paid([r EXCEPT !.sub = TRUE])
        BY <1>5, <3>2 DEF Updated
      <4> QED BY <2>1, <4>1 DEF Paid, Row
    <3> QED BY <2>1, <3>1, <3>2 DEF Card
  <2>2. CASE method[h.c] = "pix"
    BY <1>2, <1>5, <2>2 DEF Updated, PixPaid, Ending
  <2>3. CASE method[h.c] = "auto"
    <3>1. Updated(h, r) = [r EXCEPT !.paid = TRUE]
      BY <1>5, <2>3 DEF Updated
    <3> QED BY <3>1 DEF Row
  <2> QED BY <1>1, <2>1, <2>2, <2>3 DEF Methods, Card
<1>6. CASE h.on \in {"look", "authorized"}
  BY <1>1, <1>6 DEF Updated, Row, OfMethod, Methods, Card
<1>7. CASE h.on = "activated"
  <2>1. Updated(h, r) = [Paid(r) EXCEPT !.ref = TRUE, !.sub = TRUE] /\ Paid(r) \in Row
    BY <1>7 DEF Updated, Paid, Row, Statuses
  <2>2. Updated(h, r).ref
    BY <2>1 DEF Row
  <2> QED BY <1>7, <2>2 DEF OfMethod, Ending, AuthorizationKinds
<1>8. CASE h.on \in {"revoked", "lapsed", "refused"}
  <2>1. Updated(h, r).ref
    <3> DEFINE t == Unless(r, [revoked |-> "canceled", lapsed |-> "expired", refused |-> "failed"][h.on])
    <3>1. t \in {r} \cup {[r EXCEPT !.status = s] : s \in {"canceled", "expired", "failed"}}
      BY <1>8 DEF Unless
    <3>2. Updated(h, r) = [t EXCEPT !.ref = TRUE]
      BY <1>8 DEF Updated
    <3> HIDE DEF t
    <3> QED BY <3>1, <3>2 DEF Row
  <2> QED BY <1>8, <2>1 DEF OfMethod, Ending, AuthorizationKinds
<1> QED BY <1>1, <1>3, <1>4, <1>5, <1>6, <1>7, <1>8 DEF Kinds

LEMMA WrittenRef ==
  ASSUME NEW now \in Row, NEW seen \in Row, NEW new \in Row
  PROVE  Written(now, seen, new).ref = IF new.ref # seen.ref THEN new.ref ELSE now.ref
  BY DEF Written, Row

\* What a step may do to the row of a checkout that exists.
RowKeeps(c) == Exists(c) =>
  /\ row[c].ref => row'[c].ref
  /\ row'[c].status # "none"
  /\ method[c] \notin Card =>
       row'[c].status \in {row[c].status, "active"} \/ Finished(c) \/ GaveWay(c)

\* A card checkout begins active; what the provider answers makes a row.
Begins(c) ==
  /\ LockFree /\ c \in Next1
  /\ \A b \in Newest({d \in Checkouts : Blocks(d)}) : GivesWay(b)
Ends(c) ==
  /\ work.op = "create" /\ c = work.c
  /\ row'[c].status = "active" /\ row'[c].ref /\ work' = NoWork
Appears(c) == (Begins(c) /\ method[c] \in Card) \/ Ends(c)

LEMMA StatusKeeps ==
  ASSUME TypeOK, NEW c \in Checkouts, NEW s \in Statuses \ {"none"},
         row' = [row EXCEPT ![c].status = s],
         s = "active" \/ Finished(c) \/ GaveWay(c)
  PROVE  \A d \in Checkouts : RowKeeps(d) /\ (d # c => row'[d] = row[d])
<1> SUFFICES ASSUME NEW d \in Checkouts PROVE RowKeeps(d) /\ (d # c => row'[d] = row[d])
  OBVIOUS
<1>1. row[d] \in Row /\ row' = [row EXCEPT ![c] = [row[c] EXCEPT !.status = s]]
  BY DEF TypeOK
<1>2. CASE d = c
  <2>1. row'[d] = [row[d] EXCEPT !.status = s]
    BY <1>1, <1>2 DEF TypeOK
  <2>2. row'[d].status = s /\ row'[d].ref = row[d].ref
    BY <1>1, <2>1 DEF Row
  <2> QED BY <1>2, <2>2 DEF RowKeeps
<1>3. CASE d # c
  <2>1. row'[d] = row[d]
    BY <1>1, <1>3 DEF TypeOK
  <2> QED BY <1>3, <2>1 DEF RowKeeps, Exists
<1> QED BY <1>2, <1>3

\* Rows that give way, and one that is made.
LEMMA RetiredKeeps ==
  ASSUME TypeOK, NEW S, \A c \in S : GaveWay(c), NEW c \in Checkouts, ~Exists(c), NEW made \in Row,
         row' = [Retired(row, S) EXCEPT ![c] = made]
  PROVE  row'[c] = made /\ \A d \in Checkouts : RowKeeps(d) /\ (d # c => (Exists(d)' => Exists(d) \/ d \in S))
<1>1. row \in [Checkouts -> Row] /\ Retired(row, S) \in [Checkouts -> Row]
  BY RetiredTyped DEF TypeOK
<1>2. row'[c] = made
  BY <1>1
<1>3. ASSUME NEW d \in Checkouts, d # c
      PROVE  RowKeeps(d) /\ (Exists(d)' => Exists(d) \/ d \in S)
  <2>1. row'[d] = IF d \in S THEN [row[d] EXCEPT !.status = "expired"] ELSE row[d]
    BY <1>1, <1>3 DEF Retired
  <2>2. CASE d \in S
    <3>1. row'[d].status = "expired" /\ row'[d].ref = row[d].ref /\ GaveWay(d)
      BY <1>1, <2>1, <2>2 DEF Row
    <3> QED BY <2>2, <3>1 DEF RowKeeps
  <2>3. CASE d \notin S
    BY <2>1, <2>3 DEF RowKeeps, Exists
  <2> QED BY <2>2, <2>3
<1> QED BY <1>2, <1>3 DEF RowKeeps

LEMMA PanelRowsKept ==
  ASSUME FactsInv, Fits, Panel, faults' = 0, ~Fault
  PROVE  \A c \in Checkouts : /\ RowKeeps(c)
                              /\ Exists(c)' => Exists(c) \/ Appears(c)
<1> USE DEF FactsInv
<1>0. UNCHANGED row => \A c \in Checkouts : /\ RowKeeps(c)
                                            /\ Exists(c)' => Exists(c) \/ Appears(c)
  BY DEF RowKeeps, Exists
<1>s. ASSUME NEW c \in Checkouts, NEW s \in Statuses \ {"none"}, Exists(c),
             row' = [row EXCEPT ![c].status = s], s = "active" \/ Finished(c) \/ GaveWay(c)
      PROVE  \A d \in Checkouts : /\ RowKeeps(d)
                                  /\ Exists(d)' => Exists(d) \/ Appears(d)
  BY <1>s, StatusKeeps DEF Exists
<1>b. ASSUME NEW c \in Checkouts, Bound(c), method[c] = "native", Exists(c)
      PROVE  \A d \in Checkouts : /\ RowKeeps(d)
                                  /\ Exists(d)' => Exists(d) \/ Appears(d)
  <2> DEFINE r == [row[c] EXCEPT !.status = "active", !.sub = TRUE]
  <2>1. row' = [row EXCEPT ![c] = r] /\ r.status = "active" /\ r.ref = row[c].ref
    BY <1>b DEF Bound, TypeOK, Row
  <2> HIDE DEF r
  <2> QED BY <1>b, <2>1 DEF RowKeeps, Exists, Card, TypeOK
<1>1. CASE BeginCreate
  <2> DEFINE S == Newest({c \in Checkouts : Blocks(c)})
  <2>1. /\ \A b \in S : GivesWay(b)
        /\ \E c \in Next1 : IF method[c] = "native"
                 THEN /\ row' = [Retired(row, S) EXCEPT ![c].status = "active"]
                      /\ UNCHANGED work
                 ELSE /\ work' = Asking("create", c, S)
                      /\ UNCHANGED row
    BY <1>1 DEF BeginCreate
  <2>2. S \subseteq {c \in Checkouts : Blocks(c)}
    BY DEF Newest
  <2>3. PICK c \in Next1 : \/ UNCHANGED row
                           \/ /\ row' = [Retired(row, S) EXCEPT ![c].status = "active"]
                              /\ method[c] = "native"
    BY <2>1
  <2>4. c \in Checkouts /\ row[c] = NoRow /\ ~Exists(c) /\ Begins(c)
    BY <1>1, <2>1 DEF Next1, Begins, BeginCreate, NoRow, Exists
  <2>5. \A b \in S : GaveWay(b) /\ Exists(b)
    BY <2>1, <2>2, MethodTyped DEF GivesWay, GaveWay, Methods, Card, Blocks, Exists, NoRow, RowInv,
       KnownRow
  <2> HIDE DEF S
  <2>6. CASE row' = [Retired(row, S) EXCEPT ![c].status = "active"] /\ method[c] = "native"
    <3>1. Retired(row, S) \in [Checkouts -> Row]
      BY RetiredTyped DEF TypeOK
    <3>2. /\ row' = [Retired(row, S) EXCEPT ![c] = [Retired(row, S)[c] EXCEPT !.status = "active"]]
          /\ [Retired(row, S)[c] EXCEPT !.status = "active"] \in Row
      BY <2>4, <2>6, <3>1 DEF Row, Statuses
    <3>3. \A d \in Checkouts : RowKeeps(d) /\ (d # c => (Exists(d)' => Exists(d) \/ d \in S))
      BY <2>4, <2>5, <3>2, RetiredKeeps
    <3> QED BY <2>4, <2>5, <2>6, <3>3 DEF Appears, Card
  <2> QED BY <1>0, <2>3, <2>6
<1>2. CASE RepeatCreate
  <2>1. PICK c \in Checkouts : /\ row' = [row EXCEPT ![c].status = "expired"]
                               /\ method[c] = "pix" /\ elapsed[c] /\ row[c].status = "active"
    BY <1>2 DEF RepeatCreate
  <2> QED BY <1>s, <2>1 DEF GaveWay, Statuses, Exists
<1>3. CASE EndCreate
  <2>1. work.op = "create" /\ work.got = "answer" /\ work.c \in Checkouts /\ ~Exists(work.c)
    BY <1>3, WorkFields DEF EndCreate, Fits, EndInv, RowInv, NoRow, Exists
  <2> DEFINE made == [NoRow EXCEPT !.status = "active", !.ref = TRUE, !.sub = (method[work.c] = "auto")]
  <2>2. row' = [Retired(row, work.retired) EXCEPT ![work.c] = made]
    BY <1>3, <2>1 DEF EndCreate
  <2>3. made \in Row /\ made.status = "active" /\ made.ref
    BY DEF NoRow, Row, Statuses
  <2> HIDE DEF made
  <2>4. \A b \in work.retired : GaveWay(b) /\ Exists(b)
    BY <2>1 DEF Fits, EndInv
  <2>5. /\ row'[work.c] = made
        /\ \A d \in Checkouts : RowKeeps(d) /\ (d # work.c => (Exists(d)' => Exists(d) \/ d \in work.retired))
    BY <2>1, <2>2, <2>3, <2>4, RetiredKeeps
  <2>6. Ends(work.c)
    BY <1>3, <2>1, <2>3, <2>5 DEF Ends, EndCreate
  <2> QED BY <2>4, <2>5, <2>6 DEF Appears
<1>4. CASE EndPay
  <2>1. work.c \in Checkouts /\ method[work.c] = "native" /\ Exists(work.c)
    BY <1>4, WorkFields DEF EndPay, RowInv
  <2>2. Bound(work.c) \/ row' = [row EXCEPT ![work.c].status = "creating"]
    BY <1>4 DEF EndPay
  <2> QED BY <1>b, <1>s, <2>1, <2>2 DEF GaveWay, Card, Statuses
<1>5. CASE RetryPay
  <2>1. PICK c \in Checkouts : Payable(c) /\ Bound(c)
    BY <1>5 DEF RetryPay
  <2> QED BY <1>b, <2>1 DEF Payable, Exists
<1>6. CASE PayTooLate
  <2>1. PICK c \in Checkouts : /\ row' = [row EXCEPT ![c].status = "expired"]
                               /\ method[c] = "native" /\ row[c].status # "none"
    BY <1>6 DEF PayTooLate
  <2> QED BY <1>s, <2>1 DEF GaveWay, Card, Statuses, Exists
<1>7. CASE EndCancel
  <2>1. /\ work.c \in Checkouts /\ row' = [row EXCEPT ![work.c].status = "canceled"]
        /\ Exists(work.c) /\ Finished(work.c)
    BY <1>7, WorkFields DEF EndCancel, Fits, EndInv
  <2> QED BY <1>s, <2>1 DEF Statuses
<1>8. CASE ProviderOpens \/ BeginPay \/ ProviderCharges \/ BeginCancel \/ ProviderCancels \/ WorkDies
  BY <1>0, <1>8 DEF ProviderOpens, BeginPay, ProviderCharges, BeginCancel, ProviderCancels, WorkDies,
     rowVars
<1> QED BY <1>1, <1>2, <1>3, <1>4, <1>5, <1>6, <1>7, <1>8 DEF Panel

\* A commit writes what its handler knows.
LEMMA CommitKeeps ==
  ASSUME FactsInv, Fits, NEW h \in handlers, Committed(h)
  PROVE  \A c \in Checkouts : RowKeeps(c) /\ (Exists(c)' => Exists(c))
<1> USE DEF FactsInv
<1>1. /\ h \in HandlerRecord /\ h.c \in Checkouts /\ h.seen \in Row
      /\ \A d \in Checkouts : d # h.c => row'[d] = row[d]
      /\ row[h.c].status # "none" => row'[h.c].status # "none"
  BY CommitDoes
<1> DEFINE new == Updated(h, h.seen)
<1>2. Exists(h.c) /\ OfMethod(h.on, method[h.c]) /\ row[h.c] \in Row
  BY <1>1 DEF RowInv, KnownTo, KindInv, TypeOK
<1>3. /\ new \in Row /\ (h.seen.ref => new.ref)
      /\ new.status \in {h.seen.status, "active"} \/ method[h.c] \in Card
           \/ Ending(h.on, method[h.c]) \/ (h.on = "look" /\ method[h.c] = "pix")
  BY <1>1, <1>2, UpdatedTyped, UpdatedEnds
<1>4. row'[h.c] = Written(row[h.c], h.seen, new)
  BY <1>1 DEF Committed, TypeOK
<1> HIDE DEF new
<1>a. row'[h.c].status = IF new.status # h.seen.status THEN new.status ELSE row[h.c].status
  BY <1>1, <1>2, <1>3, <1>4, WrittenTyped
<1>5. row'[h.c].ref = IF new.ref # h.seen.ref THEN new.ref ELSE row[h.c].ref
  BY <1>1, <1>2, <1>3, <1>4, WrittenRef
<1>6. new.ref \in BOOLEAN /\ h.seen.ref \in BOOLEAN /\ row[h.c].ref \in BOOLEAN
  BY <1>1, <1>2, <1>3 DEF Row
<1>7. /\ Ending(h.on, method[h.c]) => Finished(h.c)
      /\ h.on = "look" /\ method[h.c] = "pix" => GaveWay(h.c)
  BY DEF Fits, EndInv, GaveWay
<1>8. RowKeeps(h.c)
  BY <1>1, <1>2, <1>3, <1>a, <1>5, <1>6, <1>7 DEF RowKeeps, Exists
<1>9. \A d \in Checkouts : d # h.c => RowKeeps(d) /\ (Exists(d)' => Exists(d))
  BY <1>1 DEF RowKeeps, Exists
<1> QED BY <1>2, <1>8, <1>9

LEMMA RowsKept ==
  ASSUME FactsInv, Fits, [Next]_vars, faults' = 0
  PROVE  \A c \in Checkouts : /\ RowKeeps(c)
                              /\ Exists(c)' => Exists(c) \/ Appears(c)
<1>1. CASE Panel
  BY <1>1, NoFaultYet, PanelRowsKept DEF FactsInv
<1>2. CASE \E h \in handlers : Committed(h)
  BY <1>2, CommitKeeps
<1>3. CASE UNCHANGED row
  BY <1>3 DEF RowKeeps, Exists
<1> QED BY <1>1, <1>2, <1>3, StepDoes DEF FactsInv, Quiet, Loaded, Decided1, PaidBy, Ended, AccessOver

\* What is over at the provider stays so, and begins with what exists.
StageKeeps(c) ==
  /\ Finished(c) => Finished(c)'
  /\ ~Exists(c) => ~Finished(c)'
  /\ stage'[c] = "open" /\ Exists(c) => stage[c] = "open"

LEMMA StagesKept ==
  ASSUME FactsInv, Fits, [Next]_vars
  PROVE  \A c \in Checkouts : method[c] \notin Card => StageKeeps(c)
<1> USE DEF FactsInv
<1> SUFFICES ASSUME NEW c \in Checkouts, method[c] \notin Card PROVE StageKeeps(c)
  OBVIOUS
<1>1. ~Exists(c) => ~Finished(c) /\ ~elapsed[c]
  BY DEF Fits, EndInv
<1>2. CASE UNCHANGED stage
  BY <1>1, <1>2 DEF StageKeeps, Finished
<1>3. CASE ProviderOpens
  <2>1. work.op = "create" /\ work.c \in Checkouts /\ ~Exists(work.c)
    BY <1>3, WorkFields DEF ProviderOpens, RowInv, NoRow, Exists
  <2>2. UNCHANGED stage \/ stage' = [stage EXCEPT ![work.c] = "open"]
    BY <1>3 DEF ProviderOpens
  <2> QED BY <1>1, <1>2, <2>1, <2>2 DEF StageKeeps, Finished, TypeOK
<1>4. CASE ProviderCancels
  <2>1. work.c \in Checkouts /\ Exists(work.c)
    BY <1>4, WorkFields DEF ProviderCancels, Fits, EndInv
  <2>2. UNCHANGED stage \/ stage' = [stage EXCEPT ![work.c] = "over"]
    BY <1>4 DEF ProviderCancels
  <2> QED BY <1>1, <1>2, <2>1, <2>2 DEF StageKeeps, Finished, TypeOK
<1>5. CASE Pays
  <2>1. PICK d \in Checkouts : /\ UNCHANGED stage \/ stage' = [stage EXCEPT ![d] = "done"]
                               /\ method[d] # "native" => row[d].ref
    BY <1>5 DEF Pays
  <2>2. d = c => Exists(c)
    BY <2>1 DEF RowInv, KnownRow, NoRow, Exists, Card
  <2> QED BY <1>1, <1>2, <2>1, <2>2 DEF StageKeeps, Finished, TypeOK
<1>6. CASE StageEnds
  <2>1. PICK d \in Checkouts : /\ stage' = [stage EXCEPT ![d] = "done"] \/ stage' = [stage EXCEPT ![d] = "over"]
                               /\ method[d] = "hosted" \/ money[d] \/ elapsed[d] \/ stage[d] = "done"
    BY <1>6 DEF StageEnds
  <2>2. d = c => Exists(c)
    BY <1>1, <2>1 DEF RowInv, KnownRow, Card, Finished
  <2> QED BY <1>1, <2>1, <2>2 DEF StageKeeps, Finished, TypeOK
<1>7. CASE Panel
  <2>1. ProviderOpens \/ ProviderCancels \/ UNCHANGED stage
    BY <1>7 DEF Panel, BeginCreate, RepeatCreate, EndCreate, BeginPay, ProviderCharges, EndPay,
       RetryPay, PayTooLate, BeginCancel, EndCancel, WorkDies, providerVars
  <2> QED BY <1>2, <1>3, <1>4, <2>1
<1>8. CASE Webhooks \/ Elapse \/ AccessEnds \/ UNCHANGED vars
  BY <1>2, <1>8 DEF Webhooks, Load, Unknown, Decide, Commit, HandlerDies, Elapse, AccessEnds, vars,
     providerVars
<1> QED BY <1>5, <1>6, <1>7, <1>8 DEF Next, Outside

\* How a request of the panel goes on.
WorkGoes ==
  \/ work' = work
  \/ work' = NoWork
  \/ LockFree /\ work'.op = "pay"
  \/ /\ work.op = "pay" /\ work'.op = "pay"
  \/ /\ LockFree /\ work'.op = "cancel" /\ work'.c \in Checkouts
     /\ method[work'.c] \notin Card /\ Exists(work'.c)
     /\ work'.got = "answer" => ~row[work'.c].ref
  \/ /\ LockFree /\ work'.op = "create" /\ work'.c \in Checkouts /\ Begins(work'.c)
     /\ work'.got = "nothing" /\ UNCHANGED row
     /\ \A c \in work'.retired : c \in Checkouts /\ GaveWay(c) /\ Exists(c)
  \/ /\ work.op = "create" /\ work'.op = "create" /\ work'.c = work.c
     /\ work'.got = "answer" /\ work'.retired = work.retired /\ UNCHANGED row
  \/ /\ work.op = "cancel" /\ work'.op = "cancel" /\ work'.c = work.c
     /\ stage'[work.c] = "over"

LEMMA WorkStep ==
  ASSUME FactsInv, [Next]_vars, faults' = 0
  PROVE  WorkGoes
<1> USE DEF FactsInv
<1>0. ~Fault
  BY NoFaultYet
<1>1. CASE BeginCreate
  <2> DEFINE S == Newest({c \in Checkouts : Blocks(c)})
  <2>1. /\ \A b \in S : GivesWay(b)
        /\ \E c \in Next1 : IF method[c] = "native"
                 THEN /\ row' = [Retired(row, S) EXCEPT ![c].status = "active"]
                      /\ UNCHANGED work
                 ELSE /\ work' = Asking("create", c, S)
                      /\ UNCHANGED row
    BY <1>1 DEF BeginCreate
  <2>2. S \subseteq {c \in Checkouts : Blocks(c)}
    BY DEF Newest
  <2>3. PICK c \in Next1 : \/ UNCHANGED work
                           \/ work' = Asking("create", c, S) /\ UNCHANGED row
    BY <2>1
  <2>4. c \in Checkouts /\ Begins(c) /\ LockFree
    BY <1>1, <2>1 DEF Next1, Begins, BeginCreate
  <2>5. \A b \in S : b \in Checkouts /\ GaveWay(b) /\ Exists(b)
    BY <2>1, <2>2, MethodTyped DEF GivesWay, GaveWay, Methods, Card, Blocks, Exists, NoRow, RowInv,
       KnownRow
  <2> HIDE DEF S
  <2> QED BY <2>3, <2>4, <2>5 DEF WorkGoes, Asking
<1>2. CASE BeginPay
  <2>1. LockFree /\ work'.op = "pay"
    BY <1>2 DEF BeginPay, Asking
  <2> QED BY <2>1 DEF WorkGoes
<1>3. CASE BeginCancel
  <2>1. PICK c \in Checkouts :
          /\ method[c] \notin Card /\ row[c].status # "none"
          /\ work' = [Asking("cancel", c, {}) EXCEPT !.got = IF row[c].ref THEN "nothing" ELSE "answer"]
    BY <1>3 DEF BeginCancel
  <2>2. work'.op = "cancel" /\ work'.c = c /\ (work'.got = "answer" => ~row[c].ref)
    BY <2>1 DEF Asking
  <2> QED BY <1>3, <2>1, <2>2 DEF WorkGoes, BeginCancel, Exists
<1>4. CASE ProviderOpens
  <2>1. work.op = "create" /\ work' = [work EXCEPT !.got = "answer"] /\ UNCHANGED row
    BY <1>0, <1>4 DEF ProviderOpens, rowVars
  <2>2. /\ work'.op = "create" /\ work'.c = work.c /\ work'.got = "answer"
        /\ work'.retired = work.retired
    BY <2>1, WorkFields DEF TypeOK, Works
  <2> QED BY <2>1, <2>2 DEF WorkGoes
<1>5. CASE ProviderCharges
  <2>1. work.op = "pay" /\ (work' = NoWork \/ work' = [work EXCEPT !.got = "answer"])
    BY <1>0, <1>5 DEF ProviderCharges
  <2>2. [work EXCEPT !.got = "answer"].op = "pay"
    BY <2>1, WorkFields DEF TypeOK, Works
  <2> QED BY <2>1, <2>2 DEF WorkGoes
<1>6. CASE ProviderCancels
  <2>1. work.op = "cancel" /\ work.c \in Checkouts
    BY <1>6, WorkFields DEF ProviderCancels
  <2>2. \/ work' = NoWork
        \/ work' = [work EXCEPT !.got = "answer"] /\ stage' = [stage EXCEPT ![work.c] = "over"]
    BY <1>6 DEF ProviderCancels
  <2>3. [work EXCEPT !.got = "answer"].op = "cancel" /\ [work EXCEPT !.got = "answer"].c = work.c
    BY <2>1, WorkFields DEF TypeOK, Works
  <2> QED BY <2>1, <2>2, <2>3 DEF WorkGoes, TypeOK
<1>7. CASE Panel
  <2>1. \/ work' \in {work, NoWork} \/ BeginCreate \/ BeginPay \/ BeginCancel
        \/ ProviderOpens \/ ProviderCharges \/ ProviderCancels
    BY <1>7 DEF Panel, RepeatCreate, EndCreate, EndPay, RetryPay, PayTooLate, EndCancel, WorkDies
  <2> QED BY <1>1, <1>2, <1>3, <1>4, <1>5, <1>6, <2>1 DEF WorkGoes
<1>8. CASE ~Panel
  BY <1>8, StepDoes DEF WorkGoes, Quiet, Loaded, Decided1, Committed, PaidBy, Ended, AccessOver
<1> QED BY <1>7, <1>8

LEMMA OrderStep ==
  ASSUME FactsInv, Fits, [Next]_vars, faults' = 0
  PROVE  InOrder'
<1> USE DEF FactsInv
<1>1. \A c \in Checkouts : /\ Exists(c) => Exists(c)'
                           /\ Exists(c)' => Exists(c) \/ Appears(c)
  BY RowsKept DEF RowKeeps, Exists
<1>2. \A c, d \in Checkouts : Begins(d) /\ c < d => Exists(c)
  BY DEF Begins, Next1, RowInv, KnownRow, Exists
<1>3. \A c, d \in Checkouts : Ends(d) /\ c < d => Exists(c)
  BY DEF Ends, Fits, InOrder
<1>4. \A c, d \in Checkouts : c < d /\ Exists(d)' => Exists(c)'
  BY <1>1, <1>2, <1>3 DEF Appears, Fits, InOrder
<1>5. ASSUME work'.op = "create", NEW d \in Checkouts, d < work'.c PROVE Exists(d)'
  <2>1. \/ work.op = "create" /\ work'.c = work.c
        \/ Begins(work'.c) /\ work'.c \in Checkouts
    BY <1>5, WorkStep DEF WorkGoes, NoWork
  <2> QED BY <1>1, <1>2, <1>5, <2>1 DEF Fits, InOrder
<1> QED BY <1>4, <1>5 DEF InOrder

LEMMA RefStep ==
  ASSUME FactsInv, Fits, [Next]_vars, faults' = 0
  PROVE  KnownRef'
<1> USE DEF FactsInv
<1>1. UNCHANGED method
  BY StepDoes, PanelDoes DEF Quiet, Loaded, Decided1, Committed, PaidBy, Ended, AccessOver
<1>2. ASSUME NEW c \in Checkouts, method[c] \notin Card, Exists(c)' PROVE row'[c].ref
  BY <1>2, RowsKept DEF RowKeeps, Appears, Ends, Fits, KnownRef
<1> QED BY <1>1, <1>2 DEF KnownRef

\* Only an end is said to be one.
LEMMA EventsEnd ==
  ASSUME FactsInv, Fits, [Next]_vars
  PROVE  \A e \in events' : Ending(e.on, method[e.c]) => e.c \in Checkouts /\ Finished(e.c)'
<1> USE DEF FactsInv
<1>0. \A e \in events : Ending(e.on, method[e.c]) => e.c \in Checkouts /\ Finished(e.c)'
  BY EventChecks, StagesKept DEF Fits, EndInv, StageKeeps, Ending, Card
<1>1. CASE ProviderCancels
  <2>1. work.c \in Checkouts
    BY <1>1, WorkFields DEF ProviderCancels
  <2>2. UNCHANGED events \/ \A e \in events' \ events : e.c = work.c /\ stage'[work.c] = "over"
    BY <1>1, <2>1 DEF ProviderCancels, Send, TypeOK
  <2> QED BY <1>0, <2>1, <2>2 DEF Finished
<1>2. CASE Panel /\ ~ProviderCancels
  <2>1. ProviderOpens \/ ProviderCharges \/ UNCHANGED events
    BY <1>2 DEF Panel, BeginCreate, RepeatCreate, EndCreate, BeginPay, EndPay, RetryPay, PayTooLate,
       BeginCancel, EndCancel, WorkDies, providerVars
  <2>2. ASSUME ProviderOpens PROVE \A e \in events' \ events : e.on \in {"opened", "authorized"}
    <3>1. method[work.c] \in Methods
      BY <2>2, WorkFields, MethodTyped DEF ProviderOpens
    <3>2. [native |-> {}, hosted |-> {"opened"}, pix |-> {}, auto |-> {"authorized"}][method[work.c]]
            \subseteq {"opened", "authorized"}
      BY <3>1 DEF Methods
    <3> QED BY <2>2, <3>2 DEF ProviderOpens, Send
  <2>3. ASSUME ProviderCharges PROVE \A e \in events' \ events : e.on = "charge"
    BY <2>3 DEF ProviderCharges, Send
  <2> QED BY <1>0, <2>1, <2>2, <2>3 DEF Ending
<1>3. CASE Pays
  <2>1. PICK c \in Checkouts :
          /\ \A e \in events' \ events : e.c = c /\ e.on \in {"settled", "payment"}
          /\ method[c] = "pix" => stage' = [stage EXCEPT ![c] = "done"]
    BY <1>3 DEF Pays, Send
  <2> QED BY <1>0, <2>1 DEF Ending, Finished, TypeOK
<1>4. CASE StageEnds
  <2>1. PICK c \in Checkouts :
          /\ \A e \in events' \ events : e.c = c
          /\ stage' = [stage EXCEPT ![c] = "done"] \/ stage' = [stage EXCEPT ![c] = "over"]
    BY <1>4 DEF StageEnds, Send
  <2> QED BY <1>0, <2>1 DEF Finished, TypeOK
<1>5. CASE events' \subseteq events
  BY <1>0, <1>5
<1>6. CASE Webhooks \/ Elapse \/ AccessEnds \/ UNCHANGED vars
  BY <1>5, <1>6 DEF Webhooks, Load, Unknown, Decide, Commit, HandlerDies, Elapse, AccessEnds, vars,
     providerVars
<1> QED BY <1>1, <1>2, <1>3, <1>4, <1>6 DEF Next, Outside

\* A handler is of an event, of a look at what has elapsed, or of a charge.
LEMMA HandlersEnd ==
  ASSUME FactsInv, Fits, [Next]_vars
  PROVE  \A h \in handlers' : /\ Ending(h.on, method[h.c]) => Finished(h.c)'
                              /\ h.on = "look" /\ method[h.c] = "pix" => elapsed'[h.c]
<1> USE DEF FactsInv
<1>0. \A h \in handlers : /\ h.c \in Checkouts
                          /\ Ending(h.on, method[h.c]) => Finished(h.c)'
                          /\ h.on = "look" /\ method[h.c] = "pix" => elapsed'[h.c]
  BY EventChecks, StagesKept, ClockStep DEF Fits, EndInv, StageKeeps, Ending, Card
<1>1. CASE Panel
  <2>1. \A h \in handlers' \ handlers : h.on = "reconcile"
    BY <1>1, PanelDoes DEF PanelMoves, PanelHandlers
  <2> QED BY <1>0, <2>1 DEF Ending
<1>2. CASE Load
  <2>1. CASE \E e \in events : handlers' = handlers \cup {Handler(e)}
    <3>1. PICK e \in events : handlers' = handlers \cup {Handler(e)}
      BY <2>1
    <3>2. e.c \in Checkouts /\ e.on # "look"
      BY DEF TypeOK, Event, Kinds
    <3>3. Ending(e.on, method[e.c]) => Finished(e.c)'
      BY <3>2, StagesKept DEF Fits, EndInv, StageKeeps, Ending, Card
    <3> QED BY <1>0, <3>1, <3>2, <3>3 DEF Handler
  <2>2. CASE \E c \in Checkouts : elapsed[c] /\ handlers' = handlers \cup {Handler([on |-> "look", c |-> c])}
    <3>1. PICK c \in Checkouts : elapsed[c] /\ handlers' = handlers \cup {Handler([on |-> "look", c |-> c])}
      BY <2>2
    <3>2. elapsed'[c]
      BY <3>1, ClockStep
    <3> QED BY <1>0, <3>1, <3>2 DEF Handler, Ending
  <2> QED BY <1>2, <2>1, <2>2 DEF Load
<1>3. CASE Decided1
  <2>1. PICK h \in handlers, g \in HandlerRecord, grant \in {"nothing", "renew", "refuse", "open"} :
           Decision(h, g, grant)
    BY <1>3 DEF Decided1
  <2>2. Rests(h, g, grant)
    BY <2>1, GrantRests
  <2> QED BY <1>0, <2>2 DEF Rests
<1>4. CASE handlers' \subseteq handlers
  BY <1>0, <1>4
<1>5. CASE Webhooks
  <2>1. Load \/ Decided1 \/ handlers' \subseteq handlers
    BY <1>5, Decided DEF Webhooks, Unknown, Commit, HandlerDies, Decided1, Decide, rowVars, providerVars
  <2> QED BY <1>2, <1>3, <1>4, <2>1
<1>6. CASE Outside \/ UNCHANGED vars
  BY <1>4, <1>6 DEF Outside, Pays, StageEnds, Elapse, AccessEnds, vars
<1> QED BY <1>1, <1>5, <1>6 DEF Next

LEMMA EndStep ==
  ASSUME FactsInv, Fits, [Next]_vars, faults' = 0
  PROVE  EndInv'
<1> USE DEF FactsInv
<1>1. UNCHANGED method
  BY StepDoes, PanelDoes DEF Quiet, Loaded, Decided1, Committed, PaidBy, Ended, AccessOver
<1>2. \A c \in Checkouts : /\ Exists(c) => Exists(c)'
                           /\ elapsed[c] => elapsed'[c]
                           /\ elapsed'[c] => elapsed[c] \/ Exists(c)
                           /\ method[c] \notin Card => StageKeeps(c)
  BY RowsKept, StagesKept, ClockStep DEF RowKeeps, Exists, NoRow, RowInv, KnownRow
<1>3. ASSUME NEW c \in Checkouts, method[c] = "pix", money'[c] PROVE Finished(c)'
  <2>1. CASE money[c]
    BY <1>2, <1>3, <2>1 DEF Fits, EndInv, StageKeeps, Card
  <2>2. CASE ~money[c]
    <3>1. Pays
      BY <1>3, <2>2, PanelDoes DEF Next, Webhooks, Load, Unknown, Decide, Commit, HandlerDies, Outside,
         StageEnds, Elapse, AccessEnds, vars, providerVars
    <3> QED BY <1>3, <2>2, <3>1 DEF Pays, TypeOK, Finished
  <2> QED BY <2>1, <2>2
<1>4. ASSUME NEW c \in Checkouts, method[c] \notin Card, ~Exists(c)' PROVE ~Finished(c)' /\ ~elapsed'[c]
  BY <1>2, <1>4 DEF StageKeeps, Fits, EndInv
<1>5. ASSUME work'.op = "cancel"
      PROVE  /\ method[work'.c] \notin Card /\ row'[work'.c].status # "none"
             /\ work'.got = "answer" => stage'[work'.c] \notin {"none", "open"}
  <2>1. \/ work' = work
        \/ /\ work'.c \in Checkouts /\ method[work'.c] \notin Card /\ Exists(work'.c)
           /\ work'.got = "answer" => ~row[work'.c].ref
        \/ work.op = "cancel" /\ work'.c = work.c /\ stage'[work.c] = "over"
    BY <1>5, WorkStep DEF WorkGoes, NoWork
  <2>2. work.op = "cancel" => work.c \in Checkouts
    BY WorkFields
  <2>3. work'.c \in Checkouts /\ method[work'.c] \notin Card /\ Exists(work'.c)
    BY <1>5, <2>1, <2>2 DEF Fits, EndInv
  <2>4. row'[work'.c].status # "none"
    BY <1>2, <2>3 DEF Exists
  <2>5. work'.got = "answer" => Finished(work'.c) \/ stage'[work'.c] = "over"
    BY <1>5, <2>1, <2>2, <2>3 DEF Fits, EndInv, KnownRef
  <2>6. Finished(work'.c) => stage'[work'.c] \notin {"none", "open"}
    BY <1>2, <2>3 DEF StageKeeps, Finished
  <2> QED BY <2>3, <2>4, <2>5, <2>6
<1>6. ASSUME work'.op = "create"
      PROVE  /\ work'.got \in {"nothing", "answer"}
             /\ \A c \in work'.retired : (GaveWay(c))' /\ (Exists(c))'
  <2>1. \/ /\ work.op = "create" /\ work'.retired = work.retired
           /\ work'.got \in {work.got, "answer"}
        \/ /\ work'.got = "nothing"
           /\ \A c \in work'.retired : c \in Checkouts /\ GaveWay(c) /\ Exists(c)
    BY <1>6, WorkStep DEF WorkGoes, NoWork
  <2>2. work.op = "create" => work.retired \in SUBSET Checkouts
    BY WorkFields
  <2>3. \A c \in work'.retired : c \in Checkouts /\ GaveWay(c) /\ Exists(c)
    BY <2>1, <2>2 DEF Fits, EndInv
  <2>4. \A c \in work'.retired : (GaveWay(c))' /\ (Exists(c))'
    BY <1>1, <1>2, <2>3 DEF GaveWay
  <2>5. work'.got \in {"nothing", "answer"}
    BY <2>1 DEF Fits, EndInv
  <2> QED BY <2>4, <2>5
<1>7. /\ \A e \in events' : Ending(e.on, method'[e.c]) => Finished(e.c)'
      /\ \A h \in handlers' : /\ Ending(h.on, method'[h.c]) => Finished(h.c)'
                              /\ h.on = "look" /\ method'[h.c] = "pix" => elapsed'[h.c]
  BY <1>1, EventsEnd, HandlersEnd
<1>8. \A c \in Checkouts : /\ method'[c] = "pix" /\ money'[c] => Finished(c)'
                           /\ method'[c] \notin Card /\ ~Exists(c)' => ~Finished(c)' /\ ~elapsed'[c]
  BY <1>1, <1>3, <1>4
<1>9. work'.op = "cancel" => /\ method'[work'.c] \notin Card /\ row'[work'.c].status # "none"
                             /\ work'.got = "answer" => stage'[work'.c] \notin {"none", "open"}
  BY <1>1, <1>5
<1> QED BY <1>6, <1>7, <1>8, <1>9 DEF EndInv, Exists, Finished

\* While a Pix is open nothing else is made.
LEMMA NothingBegins ==
  ASSUME FactsInv, Fits, NEW c \in Checkouts, Open(c), NEW d \in Checkouts
  PROVE  ~Begins(d)
<1> USE DEF FactsInv
<1>1. /\ Blocks(c) /\ ~GivesWay(c)
  BY DEF Fits, OpenInv, Open, Blocks, GivesWay
<1>2. \A b \in Checkouts : c < b => ~Blocks(b)
  BY DEF Fits, OpenInv, Exists, Blocks, NoRow, RowInv, KnownRow
<1>3. c \in Newest({b \in Checkouts : Blocks(b)})
  BY <1>1, <1>2 DEF Newest, Checkouts
<1> QED BY <1>1, <1>3 DEF Begins

LEMMA OpenStep ==
  ASSUME FactsInv, Fits, [Next]_vars, faults' = 0
  PROVE  OpenInv'
<1> USE DEF FactsInv
<1>0. UNCHANGED method
  BY StepDoes, PanelDoes DEF Quiet, Loaded, Decided1, Committed, PaidBy, Ended, AccessOver
<1> SUFFICES ASSUME NEW c \in Checkouts, Open(c)'
             PROVE  /\ row'[c].status = "active" /\ work'.op # "create"
                    /\ \A d \in Checkouts : c < d => ~Exists(d)'
  BY DEF OpenInv
<1>1. /\ method[c] \notin Card /\ stage'[c] = "open" /\ row'[c].ref
      /\ method[c] = "pix" => ~elapsed'[c]
  BY <1>0 DEF Open, Card
<1>2. CASE Exists(c)
  <2>1. Open(c) /\ ~Finished(c) /\ ~GaveWay(c)
    BY <1>1, <1>2, StagesKept, ClockStep, MethodTyped
       DEF StageKeeps, Finished, Open, GaveWay, Fits, KnownRef, Methods, Card
  <2>2. row'[c].status = "active"
    BY <1>1, <1>2, <2>1, RowsKept DEF RowKeeps, Fits, OpenInv
  <2>3. work.op # "create" /\ \A d \in Checkouts : ~Begins(d) /\ (c < d => ~Exists(d))
    BY <2>1, NothingBegins DEF Fits, OpenInv
  <2>4. work'.op # "create"
    BY <2>3, WorkStep DEF WorkGoes, NoWork
  <2>5. \A d \in Checkouts : c < d => ~Exists(d)'
    BY <2>3, RowsKept DEF Appears, Ends
  <2> QED BY <2>2, <2>4, <2>5
<1>3. CASE ~Exists(c)
  <2>1. Exists(c)'
    <3>1. row'[c] # NoRow
      BY <1>1 DEF NoRow
    <3> QED BY <3>1, RowStep DEF RowInv, KnownRow, Exists
  <2>2. Ends(c)
    BY <1>1, <1>3, <2>1, RowsKept DEF Appears
  <2>3. row'[c].status = "active" /\ work.op = "create" /\ c = work.c
    BY <2>2 DEF Ends
  <2>4. work' = NoWork
    BY <2>2 DEF Ends
  <2>5. \A d \in Checkouts : c < d => ~Exists(d)
    BY <1>3 DEF Fits, InOrder
  <2>6. \A d \in Checkouts : c < d => ~Exists(d)'
    BY <2>3, <2>5, RowsKept DEF Appears, Ends, Begins, LockFree, NoWork, Checkouts
  <2> QED BY <2>3, <2>4, <2>6 DEF NoWork
<1> QED BY <1>2, <1>3

-----------------------------------------------------------------------------
(* What is paid is served, while no call has failed.                       *)

\* What opens the access by its method, when it is decided about.
Opens(on, m) ==
  \/ m = "native" /\ on \in {"payment", "reconcile"}
  \/ m = "pix" /\ on = "payment"
  \/ m = "auto" /\ on = "activated"
GrantInv == \A h \in handlers :
  /\ Opens(h.on, method[h.c]) => h.grant # "nothing"
  /\ h.on = "reconcile" => h.seen.sub

\* A charge is known here, or the request that asked for it is told of it.
ChargeKnown == \A c \in Checkouts :
  /\ charges[c] > 0 => row[c].sub \/ (work.op = "pay" /\ work.c = c /\ work.got = "answer")
  /\ method[c] = "native" /\ money[c] => charges[c] > 0

\* The event that opens the access; of a card also the reconciliation.
Opening(c) == [on |-> IF method[c] = "auto" THEN "activated" ELSE "payment", c |-> c]
Reconciles(c) == \E h \in handlers : h.on = "reconcile" /\ h.c = c
Owed(c) == \/ method[c] \in {"native", "pix"} /\ money[c]
           \/ method[c] = "auto" /\ stage[c] = "done"
Pursued(c) == \/ Opening(c) \in events
              \/ method[c] = "native" /\ (~row[c].sub \/ Reconciles(c))
OwedInv == \A c \in Checkouts : Owed(c) => Served(c) \/ Pursued(c)

Serves == GrantInv /\ ChargeKnown /\ OwedInv

\* A decision about what opens the access is a grant, or a refusal.
LEMMA OpensGrants ==
  ASSUME TypeOK, NEW h \in HandlerRecord, NEW r \in Row, Opens(h.on, method[h.c]),
         h.on = "reconcile" => r.sub
  PROVE  Grants(h, Updated(h, r)) /\ (h.seen = r => TakesLock(h))
<1>1. Paid(r).status = "paid" /\ Paid(r).sub = r.sub /\ r \in [status : Statuses, paid : BOOLEAN, sub : BOOLEAN, ref : BOOLEAN]
  BY DEF Paid, Row
<1>2. CASE method[h.c] = "native" /\ h.on = "payment"
  <2>1. Updated(h, r) = Paid([r EXCEPT !.sub = TRUE])
    BY <1>2 DEF Updated
  <2>2. Updated(h, r).status = "paid" /\ Updated(h, r).sub
    BY <2>1 DEF Paid, Row
  <2> QED BY <1>2, <2>2 DEF Grants, TakesLock, Card
<1>3. CASE method[h.c] = "native" /\ h.on = "reconcile"
  <2>1. Updated(h, r) = Paid(r)
    BY <1>3 DEF Updated
  <2> QED BY <1>1, <1>3, <2>1 DEF Grants, TakesLock, Card
<1>4. CASE method[h.c] = "pix" /\ h.on = "payment"
  <2>1. Updated(h, r) = Paid(r)
    BY <1>4 DEF Updated, PixPaid
  <2> QED BY <1>1, <1>4, <2>1 DEF Grants, TakesLock, Card
<1>5. CASE method[h.c] = "auto" /\ h.on = "activated"
  <2>1. Updated(h, r) = [Paid(r) EXCEPT !.ref = TRUE, !.sub = TRUE] /\ Paid(r) \in Row
    BY <1>5 DEF Updated, Paid, Row, Statuses
  <2>2. Updated(h, r).status = "paid"
    BY <1>1, <2>1 DEF Row
  <2> QED BY <1>5, <2>2 DEF Grants, TakesLock, Card
<1> QED BY <1>2, <1>3, <1>4, <1>5 DEF Opens

\* What a handler that opens the access commits serves the checkout.
LEMMA OpensServes ==
  ASSUME FactsInv, GrantInv, NEW h \in handlers, Committed(h), Opens(h.on, method[h.c]),
         conflict' = [conflict EXCEPT ![h.c] = @ \/ h.grant = "refuse"]
  PROVE  Served(h.c)'
<1> USE DEF FactsInv
<1>1. h \in HandlerRecord /\ h.c \in Checkouts /\ h.seen \in Row /\ access'[h.c] = NewAccess(h)
  BY CommitDoes
<1>2. h.grant # "nothing" /\ h.grant # "none"
  <2>1. h.on = "reconcile" => h.seen.sub
    BY DEF GrantInv
  <2>2. TakesLock(h)
    BY <1>1, <2>1, OpensGrants
  <2> QED BY <2>2 DEF Committed, GrantInv
<1>3. h.grant \in {"renew", "refuse", "open"}
  BY <1>1, <1>2 DEF HandlerRecord
<1>4. CASE h.grant = "refuse"
  BY <1>1, <1>4 DEF Served, TypeOK
<1>5. CASE h.grant # "refuse"
  BY <1>1, <1>3, <1>5 DEF Served, NewAccess
<1> QED BY <1>4, <1>5

\* Who is served stays so.
LEMMA ServedStays ==
  ASSUME TypeOK, [Next]_vars, NEW c \in Checkouts, Served(c)
  PROVE  Served(c)'
<1>1. CASE Commit
  <2>1. PICK h \in handlers : /\ access' = [access EXCEPT ![h.c] = NewAccess(h)]
                              /\ conflict' = [conflict EXCEPT ![h.c] = @ \/ h.grant = "refuse"]
    BY <1>1 DEF Commit
  <2>2. access[h.c] # "none" => NewAccess(h) # "none"
    BY DEF NewAccess
  <2>3. h.c \in Checkouts
    BY DEF TypeOK, HandlerRecord
  <2>4. conflict[c] => conflict'[c]
    BY <2>1, <2>3 DEF TypeOK
  <2>5. access[c] # "none" => access'[c] # "none"
    BY <2>1, <2>2, <2>3 DEF TypeOK
  <2> QED BY <2>4, <2>5 DEF Served
<1>2. CASE AccessEnds
  BY <1>2 DEF AccessEnds, Served, TypeOK
<1>3. CASE UNCHANGED <<access, conflict>>
  BY <1>3 DEF Served
<1>4. CASE Panel
  BY <1>3, <1>4 DEF Panel, BeginCreate, RepeatCreate, ProviderOpens, EndCreate, BeginPay,
     ProviderCharges, EndPay, RetryPay, PayTooLate, BeginCancel, ProviderCancels, EndCancel, WorkDies,
     rowVars
<1>5. CASE Load \/ Unknown \/ Decide \/ HandlerDies \/ Pays \/ StageEnds \/ Elapse \/ UNCHANGED vars
  BY <1>3, <1>5 DEF Load, Unknown, Decide, HandlerDies, Pays, StageEnds, Elapse, vars, rowVars
<1> QED BY <1>1, <1>2, <1>4, <1>5 DEF Next, Webhooks, Outside

LEMMA GrantStep ==
  ASSUME FactsInv, GrantInv, [Next]_vars
  PROVE  GrantInv'
<1> USE DEF FactsInv
<1>0. UNCHANGED method
  BY StepDoes, PanelDoes DEF Quiet, Loaded, Decided1, Committed, PaidBy, Ended, AccessOver
<1>1. CASE Panel
  <2>1. \A h \in handlers' \ handlers : h.grant = "none"
    BY <1>1, PanelDoes DEF PanelMoves, PanelHandlers
  <2>2. \A h \in handlers' \ handlers : h.on = "reconcile" => h.seen.sub
    <3>1. (\E c \in Checkouts : Bound(c)) \/ UNCHANGED handlers
      BY <1>1, WorkFields DEF Panel, BeginCreate, RepeatCreate, ProviderOpens, EndCreate, BeginPay,
         ProviderCharges, EndPay, RetryPay, PayTooLate, BeginCancel, ProviderCancels, EndCancel, WorkDies
    <3>2. ASSUME NEW c \in Checkouts, Bound(c)
          PROVE  \A h \in handlers' \ handlers : h.seen.sub
      <4> DEFINE r == [row[c] EXCEPT !.status = "active", !.sub = TRUE]
      <4>1. handlers' = handlers \cup {Reconcile(c, r)} /\ r.sub
        BY <3>2 DEF Bound, TypeOK, Row
      <4> HIDE DEF r
      <4> QED BY <4>1 DEF Reconcile
    <3> QED BY <3>1, <3>2
  <2> QED BY <1>0, <2>1, <2>2 DEF GrantInv
<1>2. CASE handlers' \subseteq handlers
  BY <1>0, <1>2 DEF GrantInv
<1>3. ASSUME NEW h \in HandlerRecord, Loaded(h) PROVE GrantInv'
  <2>1. h.grant = "none" /\ h.on # "reconcile"
    BY <1>3 DEF Loaded, TypeOK, Event, Kinds
  <2> QED BY <1>0, <1>3, <2>1 DEF GrantInv, Loaded
<1>4. CASE Decided1
  <2>1. PICK h \in handlers, g \in HandlerRecord, grant \in {"nothing", "renew", "refuse", "open"} :
           Decision(h, g, grant)
    BY <1>4 DEF Decided1
  <2>2. Rests(h, g, grant)
    BY <2>1, GrantRests
  <2>3. g.on = h.on /\ g.c = h.c /\ g.seen \in Row
    BY <2>1 DEF Decision, Refreshed, TypeOK, HandlerRecord
  <2>4. h.on = "reconcile" => g.seen.sub
    BY <2>1 DEF Decision, Refreshed, GrantInv
  <2>5. Opens(h.on, method[h.c]) => grant # "nothing"
    <3>1. Opens(h.on, method[h.c]) => Grants(g, Updated(g, g.seen))
      BY <2>3, <2>4, OpensGrants
    <3> QED BY <2>1, <3>1 DEF Decision
  <2>6. \A k \in handlers' : \/ k \in handlers
                             \/ k.on = h.on /\ k.c = h.c /\ k.seen = g.seen /\ k.grant = grant
    BY <2>2 DEF Rests
  <2> QED BY <1>0, <2>4, <2>5, <2>6 DEF GrantInv
<1> QED BY <1>1, <1>2, <1>3, <1>4, StepDoes DEF Quiet, Committed, PaidBy, Ended, AccessOver

\* The subscription of a charge stays known; what was asked for is told.
LEMMA KnownStep ==
  ASSUME FactsInv, ChargeKnown, [Next]_vars, faults' = 0
  PROVE  ChargeKnown'
<1> USE DEF FactsInv
<1>0. UNCHANGED method
  BY StepDoes, PanelDoes DEF Quiet, Loaded, Decided1, Committed, PaidBy, Ended, AccessOver
<1>1. \A c \in Checkouts : row[c].sub => row'[c].sub
  BY StepDoes, PanelDoes, CommitDoes DEF PanelMoves, PanelRows, PanelRow, Quiet, Loaded, Decided1,
     PaidBy, Ended, AccessOver
<1>2. CASE ProviderCharges
  <2>1. /\ work.op = "pay" /\ work.got = "nothing" /\ UNCHANGED <<row, money>>
        /\ \/ /\ charges' = [charges EXCEPT ![work.c] = @ + 1]
              /\ work' = [work EXCEPT !.got = "answer"]
           \/ UNCHANGED charges
    BY <1>2, NoFaultYet DEF ProviderCharges, rowVars
  <2>2. /\ work.c \in Checkouts
        /\ [work EXCEPT !.got = "answer"].op = "pay" /\ [work EXCEPT !.got = "answer"].c = work.c
        /\ [work EXCEPT !.got = "answer"].got = "answer"
    BY <2>1, WorkFields DEF TypeOK, Works
  <2>3. \A c \in Checkouts : charges[c] > 0 => row[c].sub
    BY <2>1 DEF ChargeKnown
  <2>4. \A c \in Checkouts : charges[c] > 0 => charges'[c] > 0
    BY <2>1, <2>2 DEF TypeOK
  <2>5. ASSUME NEW c \in Checkouts, charges'[c] > 0
        PROVE  row'[c].sub \/ (work'.op = "pay" /\ work'.c = c /\ work'.got = "answer")
    BY <2>1, <2>2, <2>3, <2>5 DEF TypeOK
  <2> QED BY <1>0, <2>1, <2>4, <2>5 DEF ChargeKnown
<1>3. CASE ~ProviderCharges
  <2>1. UNCHANGED charges
    BY <1>3 DEF Next, Panel, Webhooks, Outside, BeginCreate, RepeatCreate, ProviderOpens, EndCreate,
       BeginPay, EndPay, RetryPay, PayTooLate, BeginCancel, ProviderCancels, EndCancel, WorkDies,
       Load, Unknown, Decide, Commit, HandlerDies, Pays, StageEnds, Elapse, AccessEnds, vars, providerVars
  <2>2. ASSUME NEW c \in Checkouts, work.op = "pay", work.c = c, work.got = "answer", charges[c] > 0
        PROVE  row'[c].sub \/ work' = work
    <3>1. CASE EndPay
      <4>1. Bound(c)
        BY <2>2, <3>1 DEF EndPay
      <4> QED BY <4>1 DEF Bound, TypeOK, Row
    <3>2. ~WorkDies
      BY NoFaultYet DEF WorkDies
    <3>3. CASE Panel /\ ~EndPay
      BY <1>3, <2>2, <3>2, <3>3 DEF Panel, BeginCreate, RepeatCreate, ProviderOpens, EndCreate, BeginPay,
         RetryPay, PayTooLate, BeginCancel, ProviderCancels, EndCancel, LockFree, NoWork
    <3>4. CASE ~Panel
      BY <3>4, StepDoes DEF Quiet, Loaded, Decided1, Committed, PaidBy, Ended, AccessOver
    <3> QED BY <3>1, <3>3, <3>4
  <2>3. ASSUME NEW c \in Checkouts, method[c] = "native", money'[c] PROVE charges[c] > 0
    <3>1. CASE money[c]
      BY <2>3, <3>1 DEF ChargeKnown
    <3>2. CASE ~money[c]
      <4>1. Pays
        BY <2>3, <3>2, PanelDoes DEF Next, Webhooks, Load, Unknown, Decide, Commit, HandlerDies, Outside,
           StageEnds, Elapse, AccessEnds, vars, providerVars
      <4> QED BY <2>3, <3>2, <4>1 DEF Pays, TypeOK
    <3> QED BY <3>1, <3>2
  <2> QED BY <1>0, <1>1, <2>1, <2>2, <2>3 DEF ChargeKnown
<1> QED BY <1>2, <1>3

\* What is owed anew has its event.
LEMMA OwedAnew ==
  ASSUME FactsInv, [Next]_vars, NEW c \in Checkouts, ~Owed(c), Owed(c)'
  PROVE  Opening(c)' \in events'
<1> USE DEF FactsInv
<1>0. UNCHANGED method
  BY StepDoes, PanelDoes DEF Quiet, Loaded, Decided1, Committed, PaidBy, Ended, AccessOver
<1>1. CASE method[c] \in {"native", "pix"}
  <2>1. ~money[c] /\ money'[c]
    BY <1>0, <1>1 DEF Owed
  <2>2. Pays
    BY <2>1, PanelDoes DEF Next, Webhooks, Load, Unknown, Decide, Commit, HandlerDies, Outside,
       StageEnds, Elapse, AccessEnds, vars, providerVars
  <2>3. Send({"payment"}, c)
    BY <1>1, <2>1, <2>2 DEF Pays, TypeOK
  <2> QED BY <1>0, <1>1, <2>3 DEF Send, Opening
<1>2. CASE method[c] \notin {"native", "pix"}
  <2>1. method[c] = "auto" /\ stage[c] # "done" /\ stage'[c] = "done"
    BY <1>0, <1>2 DEF Owed
  <2>2. StageEnds
    <3>1. ~Pays
      BY <2>1 DEF Pays, TypeOK
    <3>2. ~ProviderOpens
      BY <2>1 DEF ProviderOpens, TypeOK
    <3>3. ~ProviderCancels
      BY <2>1 DEF ProviderCancels, TypeOK
    <3> QED BY <2>1, <3>1, <3>2, <3>3 DEF Next, Panel, Webhooks, Outside, BeginCreate, RepeatCreate,
       EndCreate, BeginPay, ProviderCharges, EndPay, RetryPay, PayTooLate, BeginCancel, EndCancel,
       WorkDies, Load, Unknown, Decide, Commit, HandlerDies, Elapse, AccessEnds, vars, providerVars
  <2>3. Send({"activated"}, c)
    BY <2>1, <2>2 DEF StageEnds, TypeOK
  <2> QED BY <1>0, <2>1, <2>3 DEF Send, Opening
<1> QED BY <1>1, <1>2

\* Who looks at a session does not touch the subscription.
LEMMA LookKeepsSub ==
  ASSUME TypeOK, RowInv, NEW h \in handlers, Committed(h), method[h.c] = "native", ~row[h.c].sub
  PROVE  ~row'[h.c].sub
<1>1. h \in HandlerRecord /\ h.c \in Checkouts /\ h.seen \in Row /\ row[h.c] \in Row
  BY DEF TypeOK, HandlerRecord
<1>2. h.on = "look"
  BY DEF RowInv, KnownTo
<1> DEFINE new == Updated(h, h.seen)
<1>3. new = [h.seen EXCEPT !.status = "expired"]
  BY <1>2 DEF Updated
<1>4. new \in Row /\ new.sub = h.seen.sub
  BY <1>1, <1>3 DEF Row, Statuses
<1>5. row'[h.c] = Written(row[h.c], h.seen, new)
  BY <1>1 DEF Committed, TypeOK
<1> HIDE DEF new
<1> QED BY <1>1, <1>4, <1>5, WrittenTyped

\* Its event stays until it has opened the access, or for a card until the charge is known.
LEMMA EventStays ==
  ASSUME FactsInv, Fits, GrantInv, [Next]_vars, NEW c \in Checkouts, Owed(c), Opening(c) \in events
  PROVE  \/ Opening(c) \in events'
         \/ Served(c)'
         \/ method[c] = "native" /\ ~row'[c].sub
<1> USE DEF FactsInv
<1> DEFINE e == Opening(c)
<1>1. /\ e.c = c /\ Opens(e.on, method[c]) /\ Exists(c)
      /\ e.on \notin {"authorized", "revoked", "lapsed", "refused"}
  <2>1. method[c] \in {"native", "pix", "auto"}
    BY DEF Owed
  <2>2. method[c] \in {"native", "pix"} => money[c]
    BY <2>1 DEF Owed
  <2>3. method[c] = "auto" => Finished(c)
    BY DEF Owed, Finished
  <2>4. Exists(c)
    BY <2>1, <2>2, <2>3 DEF RowInv, KnownRow, Fits, EndInv, Card
  <2> QED BY <2>1, <2>4 DEF Opening, Opens
<1>2. method[c] # "native" => Found(e)
  <2>1. method[c] # "native" => row[c].ref
    BY <1>1 DEF Fits, KnownRef, Opens, Card
  <2>2. row[c] # NoRow
    BY <1>1 DEF Exists, NoRow
  <2> QED BY <1>1, <2>1, <2>2 DEF Found
<1>3. CASE Unknown
  <2>1. PICK d \in events : ~Found(d) /\ events' = events \ {d} /\ UNCHANGED row
    BY <1>3 DEF Unknown, rowVars
  <2>2. d = e => method[c] = "native" /\ ~row[c].sub
    BY <1>1, <1>2, <2>1 DEF Found, Opening, AuthorizationKinds
  <2> QED BY <2>1, <2>2
<1>4. CASE Commit
  <2>1. PICK h \in handlers : /\ Committed(h)
                              /\ conflict' = [conflict EXCEPT ![h.c] = @ \/ h.grant = "refuse"]
                              /\ \/ events' = events \ {[on |-> h.on, c |-> h.c]}
                                 \/ UNCHANGED events
    BY <1>4 DEF Commit, Committed
  <2>2. CASE e = [on |-> h.on, c |-> h.c]
    <3>1. h.on = e.on /\ h.c = c
      BY <1>1, <2>2
    <3>2. Opens(h.on, method[h.c])
      BY <1>1, <3>1
    <3>3. Served(h.c)'
      BY <2>1, <3>2, OpensServes
    <3> QED BY <3>1, <3>3
  <2> QED BY <2>1, <2>2
<1>5. CASE Panel
  BY <1>5, PanelDoes DEF PanelMoves, PanelEvents
<1>6. CASE Load \/ Decide \/ HandlerDies \/ Outside \/ UNCHANGED vars
  BY <1>6 DEF Load, Decide, HandlerDies, Outside, Pays, StageEnds, Elapse, AccessEnds, Send, vars,
     providerVars
<1> QED BY <1>3, <1>4, <1>5, <1>6 DEF Next, Webhooks

\* A reconciliation of what is paid ends with the access, unless it dies.
LEMMA ReconcileStays ==
  ASSUME FactsInv, GrantInv, [Next]_vars, faults' = 0,
         NEW c \in Checkouts, method[c] = "native", money[c], Reconciles(c)
  PROVE  Reconciles(c)' \/ Served(c)'
<1> USE DEF FactsInv
<1>1. PICK h \in handlers : h.on = "reconcile" /\ h.c = c
  BY DEF Reconciles
<1>2. CASE h \in handlers'
  BY <1>1, <1>2 DEF Reconciles
<1>3. CASE h \notin handlers'
  <2>1. CASE Commit
    <3>1. PICK g \in handlers : /\ Committed(g) /\ handlers' = handlers \ {g}
                                /\ conflict' = [conflict EXCEPT ![g.c] = @ \/ g.grant = "refuse"]
      BY <2>1 DEF Commit, Committed
    <3>2. g = h
      BY <1>3, <3>1
    <3>3. Opens(g.on, method[g.c]) /\ g.c = c
      BY <1>1, <3>2 DEF Opens
    <3> QED BY <3>1, <3>3, OpensServes
  <2>2. CASE Decided1
    <3>1. PICK k \in handlers, g \in HandlerRecord, grant \in {"nothing", "renew", "refuse", "open"} :
             Decision(k, g, grant)
      BY <2>2 DEF Decided1
    <3>2. /\ g.on = k.on /\ g.c = k.c
          /\ handlers' = (handlers \ {k}) \cup {[g EXCEPT !.locked = TRUE, !.grant = grant]}
      BY <3>1 DEF Decision, Refreshed, HandlerRecord, TypeOK
    <3>3. k = h
      BY <1>3, <3>2
    <3>4. [g EXCEPT !.locked = TRUE, !.grant = grant].on = g.on
          /\ [g EXCEPT !.locked = TRUE, !.grant = grant].c = g.c
      BY DEF HandlerRecord
    <3> QED BY <1>1, <3>2, <3>3, <3>4 DEF Reconciles
  <2>3. CASE HandlerDies
    BY <1>1, <1>3, <2>3, NoFaultYet DEF HandlerDies
  <2>4. CASE Panel
    BY <1>3, <2>4, PanelDoes DEF PanelMoves, PanelHandlers
  <2>5. Commit \/ Decided1 \/ HandlerDies \/ Panel \/ handlers \subseteq handlers'
    BY Decided DEF Next, Webhooks, Outside, Load, Unknown, Decide, Decided1, Pays, StageEnds, Elapse,
       AccessEnds, vars, rowVars, providerVars
  <2> QED BY <1>3, <2>1, <2>2, <2>3, <2>4, <2>5
<1> QED BY <1>2, <1>3

\* When a subscription becomes known, its payment is asked for.
LEMMA BoundReconciles ==
  ASSUME FactsInv, [Next]_vars, NEW c \in Checkouts, method[c] = "native", ~row[c].sub, row'[c].sub
  PROVE  Reconciles(c)'
<1> USE DEF FactsInv
<1>1. CASE \E h \in handlers : Committed(h)
  BY <1>1, LookKeepsSub, CommitDoes
<1>2. CASE \E d \in Checkouts : Bound(d)
  <2>1. PICK d \in Checkouts : Bound(d)
    BY <1>2
  <2> DEFINE r == [row[d] EXCEPT !.status = "active", !.sub = TRUE]
  <2>2. row' = [row EXCEPT ![d] = r] /\ handlers' = handlers \cup {Reconcile(d, r)}
    BY <2>1 DEF Bound
  <2> HIDE DEF r
  <2>3. d = c
    BY <2>2 DEF TypeOK
  <2>4. Reconcile(d, r) \in handlers' /\ Reconcile(d, r).on = "reconcile" /\ Reconcile(d, r).c = c
    BY <2>2, <2>3 DEF Reconcile
  <2> QED BY <2>4 DEF Reconciles
<1>3. CASE Panel
  <2> DEFINE Plain(r) == /\ r \in [Checkouts -> Row]
                         /\ \A d \in Checkouts : r[d].sub = row[d].sub
  <2>0. /\ Plain(row) /\ \A S : Plain(Retired(row, S))
        /\ \A r, d, s : Plain(r) /\ d \in Checkouts /\ s \in Statuses => Plain([r EXCEPT ![d].status = s])
    <3>1. \A S : Retired(row, S) \in [Checkouts -> Row]
      BY RetiredTyped DEF TypeOK
    <3>2. \A S : \A d \in Checkouts : Retired(row, S)[d].sub = row[d].sub
      BY DEF Retired, TypeOK, Row
    <3>3. ASSUME NEW r, NEW d, NEW s, Plain(r), d \in Checkouts, s \in Statuses
          PROVE  Plain([r EXCEPT ![d].status = s])
      BY <3>3 DEF Row
    <3> QED BY <3>1, <3>2, <3>3 DEF TypeOK
  <2> HIDE DEF Plain
  <2>1. CASE EndCreate
    <3>1. PICK made \in Row : /\ row' = [Retired(row, work.retired) EXCEPT ![work.c] = made]
                              /\ made.sub => method[work.c] = "auto"
      <4>1. /\ [NoRow EXCEPT !.status = "active", !.ref = TRUE, !.sub = (method[work.c] = "auto")] \in Row
            /\ [NoRow EXCEPT !.status = "creating"] \in Row
            /\ [NoRow EXCEPT !.status = "failed"] \in Row
        BY DEF NoRow, Row, Statuses
      <4> QED BY <2>1, <4>1 DEF EndCreate, NoRow
    <3> QED BY <2>0, <3>1 DEF Plain
  <2>2. CASE BeginCreate
    <3>1. row' = row \/ \E d \in Checkouts : \E S : row' = [Retired(row, S) EXCEPT ![d].status = "active"]
      BY <2>2 DEF BeginCreate, Next1
    <3>2. Plain(row')
      BY <2>0, <3>1 DEF Statuses
    <3> QED BY <3>2 DEF Plain
  <2>3. CASE EndPay \/ RetryPay \/ RepeatCreate \/ PayTooLate \/ EndCancel
    <3>1. \/ \E d \in Checkouts : Bound(d)
          \/ \E d \in Checkouts, s \in Statuses : row' = [row EXCEPT ![d].status = s]
      BY <2>3, WorkFields DEF EndPay, RetryPay, RepeatCreate, PayTooLate, EndCancel, Statuses
    <3>2. CASE \E d \in Checkouts, s \in Statuses : row' = [row EXCEPT ![d].status = s]
      <4>1. Plain(row')
        BY <2>0, <3>2
      <4> QED BY <4>1 DEF Plain
    <3> QED BY <1>2, <3>1, <3>2
  <2>4. CASE UNCHANGED row
    BY <2>4
  <2> QED BY <1>3, <2>1, <2>2, <2>3, <2>4 DEF Panel, ProviderOpens, BeginPay, ProviderCharges, BeginCancel,
         ProviderCancels, WorkDies, rowVars
<1>4. CASE UNCHANGED row
  BY <1>4
<1> QED BY <1>1, <1>3, <1>4, StepDoes DEF Quiet, Loaded, Decided1, PaidBy, Ended, AccessOver

LEMMA OwedStep ==
  ASSUME FactsInv, Fits, Serves, [Next]_vars, faults' = 0
  PROVE  OwedInv'
<1> USE DEF FactsInv
<1>0. UNCHANGED method
  BY StepDoes, PanelDoes DEF Quiet, Loaded, Decided1, Committed, PaidBy, Ended, AccessOver
<1> SUFFICES ASSUME NEW c \in Checkouts, Owed(c)' PROVE Served(c)' \/ Pursued(c)'
  BY DEF OwedInv
<1>1. Opening(c)' = Opening(c)
  BY <1>0 DEF Opening
<1>2. CASE Served(c)
  BY <1>2, ServedStays
<1>3. CASE ~Owed(c)
  BY <1>1, <1>3, OwedAnew DEF Pursued
<1>4. CASE Owed(c) /\ Opening(c) \in events
  BY <1>0, <1>1, <1>4, EventStays DEF Serves, Pursued
<1>5. CASE method[c] = "native" /\ ~row[c].sub
  BY <1>0, <1>5, BoundReconciles DEF Pursued
<1>6. CASE Owed(c) /\ method[c] = "native" /\ Reconciles(c)
  <2>1. money[c]
    BY <1>6 DEF Owed
  <2> QED BY <1>0, <1>6, <2>1, ReconcileStays DEF Serves, Pursued
<1> QED BY <1>2, <1>3, <1>4, <1>5, <1>6 DEF Serves, OwedInv, Pursued

-----------------------------------------------------------------------------
FreeInv == faults = 0 => Fits /\ Serves

LEMMA FreeInit == Init => FreeInv
<1> SUFFICES ASSUME Init PROVE Fits /\ Serves
  BY DEF FreeInv
<1>1. /\ \A c \in Checkouts : row[c] = NoRow /\ stage[c] = "none" /\ ~money[c] /\ ~elapsed[c] /\ charges[c] = 0
      /\ handlers = {} /\ events = {} /\ work = NoWork
  BY DEF Init
<1>2. Fits
  BY <1>1 DEF Fits, InOrder, KnownRef, EndInv, OpenInv, Open, Exists, Finished, NoRow, NoWork
<1>3. Serves
  BY <1>1 DEF Serves, GrantInv, ChargeKnown, OwedInv, Owed
<1> QED BY <1>2, <1>3

LEMMA FreeStep ==
  ASSUME Inv, FreeInv, [Next]_vars
  PROVE  FreeInv'
<1> SUFFICES ASSUME faults' = 0 PROVE Fits' /\ Serves'
  BY DEF FreeInv
<1>1. FactsInv /\ Fits /\ Serves
  BY NoFaultYet DEF Inv, FactsInv, FreeInv
<1>2. Fits'
  BY <1>1, OrderStep, RefStep, EndStep, OpenStep DEF Fits
<1>3. Serves'
  BY <1>1, GrantStep, KnownStep, OwedStep DEF Serves
<1> QED BY <1>2, <1>3

LEMMA FreeOfFaults == Spec => []FreeInv
<1>1. Inv /\ FreeInv /\ [Next]_vars => FreeInv'
  BY FreeStep
<1> QED BY Invariant, FreeInit, <1>1, PTL DEF Spec

(* The customer never has two Pix to pay for one business: a QR code that  *)
(* has not elapsed, an authorization that has not ended, blocks the next   *)
(* checkout, for every number of checkouts and of webhooks under way.      *)
THEOREM OnePixIsOpen == Spec => []OneOpenPix
<1>1. Inv /\ FreeInv => OneOpenPix
  <2> SUFFICES ASSUME Inv, FreeInv, faults = 0, NEW c \in Checkouts, NEW d \in Checkouts,
                      Open(c), Open(d), c # d
               PROVE  FALSE
    BY DEF OneOpenPix
  <2>1. Fits
    BY DEF FreeInv
  <2>2. c < d \/ d < c
    BY DEF Checkouts
  <2>3. Exists(c) /\ Exists(d)
    BY DEF Open, Inv, FactsInv, RowInv, KnownRow, Exists, NoRow
  <2> QED BY <2>1, <2>2, <2>3 DEF Fits, OpenInv
<1> QED BY Invariant, FreeOfFaults, <1>1, PTL

(* No confirmed payment is lost while no call has failed: what opens the   *)
(* access is delivered until it has, and what a webhook cannot find yet is *)
(* asked for by the request that makes it known.                           *)
THEOREM PaidAreServed == Spec => []PaidIsServed
<1>1. Inv /\ FreeInv => PaidIsServed
  <2> SUFFICES ASSUME Inv, FreeInv, NEW c \in Checkouts, method[c] # "hosted", money[c], Settled(c),
                      method[c] = "auto" => stage[c] = "done"
               PROVE  Served(c)
    BY DEF PaidIsServed
  <2>1. Fits /\ Serves
    BY DEF FreeInv, Settled
  <2>2. Owed(c)
    BY MethodTyped DEF Owed, Methods, Inv, FactsInv
  <2>3. Opening(c) \notin events /\ ~Reconciles(c)
    BY DEF Settled, Opening, Reconciles
  <2>4. method[c] = "native" => row[c].sub
    BY <2>1 DEF Serves, ChargeKnown, Settled, NoWork
  <2> QED BY <2>1, <2>2, <2>3, <2>4 DEF Serves, OwedInv, Pursued
<1> QED BY Invariant, FreeOfFaults, <1>1, PTL
=============================================================================
